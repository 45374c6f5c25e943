------------------------------ MODULE MCPublish ------------------------------
(* Instances of Publish for TLC. *)
EXTENDS Publish, TLC

CONSTANTS ci, cli       \* publishers
CONSTANTS f1, f2        \* target files
CONSTANTS k1, k2        \* snapshot keys

(* "1.a.json" < "1.root.json" < ... < "2.a.json": by version, which has one *)
(* digit here, then by role.                                               *)
NameBefore(x, y) ==
    LET Rank(role) == CASE role = "a" -> 1 [] role = "root" -> 2
                        [] role = "snapshot" -> 3 [] role = "targets" -> 4
    IN  x[2] < y[2] \/ (x[2] = y[2] /\ Rank(x[1]) < Rank(y[1]))

Symmetry == Permutations({f1, f2}) \cup Permutations({k1, k2})
TwoPublishers == Symmetry \cup Permutations({ci, cli})
==============================================================================
