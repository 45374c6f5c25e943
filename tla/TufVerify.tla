------------------------------ MODULE TufVerify ------------------------------
(***************************************************************************)
(* The check of a whole repository that publishing starts with: `verify`   *)
(* of tufops-core/src/publish.rs, which walks the metadata the way a       *)
(* client does. The walk itself is rust-tuf's `Database`.                  *)
(***************************************************************************)
EXTENDS TufRepo

(* `root_history`: every version from 1 to the current one is there. *)
HasRootHistory(repo) ==
    /\ Has(repo, "root")
    /\ 1 .. repo.files["root"].version \subseteq DOMAIN repo.history

(* Version n + 1 of the root is signed by the keys of version n and by its *)
(* own, and version 1 by its own.                                          *)
RootChain(repo) ==
    LET root(n) == repo.history[n]
    IN  /\ HasRootHistory(repo)
        /\ Met(root(1), root(1).body["root"])
        /\ \A n \in 2 .. repo.files["root"].version :
               /\ root(n).version = n
               /\ Met(root(n), root(n - 1).body["root"])
               /\ Met(root(n), root(n).body["root"])

Unexpired(repo, role, now) == repo.files[role].expires > now

(* The root, timestamp, snapshot, targets, then the delegated roles: each  *)
(* present, signed, unexpired, and of the version its parent lists.        *)
Verify(repo, now) ==
    /\ RootChain(repo)
    /\ {"timestamp", "snapshot", "targets"} \subseteq DOMAIN repo.files
    /\ \A r \in DOMAIN repo.files :
           /\ HasKeys(repo, r)
           /\ Trusts(repo, r, repo.files[r])
           /\ Unexpired(repo, r, now)
    /\ repo.files["timestamp"].body = repo.files["snapshot"].version
    /\ \A r \in TargetsRoles(repo) :
           SnapshotVersion(repo, r) = repo.files[r].version
==============================================================================
