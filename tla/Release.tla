------------------------------- MODULE Release -------------------------------
(***************************************************************************)
(* What main promises to those who publish it: how one commit's metadata   *)
(* follows from the one before. Lifecycle implements this specification,   *)
(* and Publish is about any history of main that obeys it.                 *)
(*                                                                         *)
(* A commit is a record                                                    *)
(*   root      : root's version                                            *)
(*   keys      : root version -> the key that root lets sign snapshots     *)
(*   roles     : targets role -> [version, files, delegates], what it lists*)
(*               and, for `targets`, the roles it delegates to             *)
(*   snapshot  : [version, key, meta], who signed it and what it lists     *)
(*   timestamp : [version, snapshot]                                       *)
(* Snapshots have one key, which stands for the set and threshold that     *)
(* root gives, and other signatures are taken to be in order.              *)
(***************************************************************************)
EXTENDS Integers

VARIABLE main   \* the commit at the tip of main

Key(c) == c.keys[c.root]

\* The version the snapshot lists for `role`, or 0.
Listed(c, role) ==
    IF role \in DOMAIN c.snapshot.meta THEN c.snapshot.meta[role] ELSE 0

\* Mutant: a role that comes back starts over.
LastVersion_ForgetsListed(c, role) ==
    IF role \in DOMAIN c.roles THEN c.roles[role].version ELSE 0

LastVersion(c, role) ==
    IF role \in DOMAIN c.roles THEN c.roles[role].version ELSE Listed(c, role)

(* A merged event leaves snapshot and timestamp alone. It may make a new   *)
(* root, and new versions of any targets roles; roles come and go with     *)
(* their delegation.                                                       *)
MergesInto(c, d) ==
    /\ d.snapshot = c.snapshot /\ d.timestamp = c.timestamp
    /\ \/ d.root = c.root /\ d.keys = c.keys
       \/ /\ d.root = c.root + 1
          /\ DOMAIN d.keys = 1 .. d.root
          /\ \A n \in 1 .. c.root : d.keys[n] = c.keys[n]
    /\ "targets" \in DOMAIN d.roles
    /\ \A r \in DOMAIN d.roles :
          d.roles[r].delegates = IF r = "targets" THEN DOMAIN d.roles \ {"targets"} ELSE {}
    /\ \A r \in DOMAIN d.roles :
          \/ r \in DOMAIN c.roles /\ d.roles[r] = c.roles[r]
          \/ d.roles[r].version > LastVersion(c, r)

\* Some of the roles renewed with the same content.
Renewed(c, renewed) ==
    [r \in DOMAIN c.roles |->
       IF r \in renewed
       THEN [c.roles[r] EXCEPT !.version = @ + 1]
       ELSE c.roles[r]]

\* Mutant: the snapshot always starts over.
NewMeta_CurrentOnly(c, roles) == [r \in DOMAIN roles |-> roles[r].version]

(* The roles a new snapshot lists: the current ones, and those listed so   *)
(* far while root trusts the snapshot that lists them.                     *)
NewMeta(c, roles) ==
    LET kept == IF c.snapshot.key = Key(c) THEN DOMAIN c.snapshot.meta ELSE {}
    IN  [r \in DOMAIN roles \cup kept |->
           IF r \in DOMAIN roles THEN roles[r].version ELSE c.snapshot.meta[r]]

(* A new version when it is due, root has another key or what it lists is  *)
(* no longer the same.                                                     *)
NewSnapshot(c, roles, due) ==
    IF due \/ c.snapshot.key # Key(c) \/ c.snapshot.meta # NewMeta(c, roles)
    THEN [version |-> c.snapshot.version + 1, key |-> Key(c), meta |-> NewMeta(c, roles)]
    ELSE c.snapshot

NewTimestamp(c, snapshot, due) ==
    IF due \/ c.timestamp.snapshot # snapshot.version
    THEN [version |-> c.timestamp.version + 1, snapshot |-> snapshot.version]
    ELSE c.timestamp

(* CI renews some roles it signs, and snapshot and timestamp when what     *)
(* they list changed or they are due.                                      *)
OnlineUpdate(c, renewed, snapshotDue, timestampDue) ==
    LET roles == Renewed(c, renewed)
        snap  == NewSnapshot(c, roles, snapshotDue)
    IN  [c EXCEPT !.roles = roles,
                  !.snapshot = snap,
                  !.timestamp = NewTimestamp(c, snap, timestampDue)]

UpdatesInto(c, d) ==
    \E renewed \in SUBSET DOMAIN c.roles, s \in BOOLEAN, t \in BOOLEAN :
        d = OnlineUpdate(c, renewed, s, t)

\* The commit of the first CI run: each version is the first.
FirstCommit(c) ==
    /\ c.root = 1 /\ DOMAIN c.keys = {1}
    /\ "targets" \in DOMAIN c.roles
    /\ c.roles["targets"].delegates = DOMAIN c.roles \ {"targets"}
    /\ \A r \in DOMAIN c.roles : c.roles[r].version = 1
    /\ c.snapshot = [version |-> 1, key |-> Key(c), meta |-> [r \in DOMAIN c.roles |-> 1]]
    /\ c.timestamp = [version |-> 1, snapshot |-> 1]

ReleaseSpec ==
    /\ FirstCommit(main)
    /\ [][MergesInto(main, main') \/ UpdatesInto(main, main')]_main
==============================================================================
