------------------------------ MODULE GitMerge -------------------------------
(***************************************************************************)
(* Three-way merges the way git makes them for tufops                      *)
(* (tufops-ci/src/main.rs, `git merge`, and GitHub's merge of a pull       *)
(* request): names map to contents, and a name conflicts when both sides   *)
(* changed it differently.                                                 *)
(*                                                                         *)
(* Metadata files merge as a whole. Versions that two sides made of a file *)
(* differ in the adjacent lines of their signatures and of their expiry,   *)
(* to the second, also when they are equal here. tufops.toml merges one    *)
(* setting of a role at a time, which is the most that its layout allows.  *)
(***************************************************************************)
EXTENDS TufConfig

At(f, name) == IF name \in DOMAIN f THEN {f[name]} ELSE {}

Conflict(b, o, t) == o # t /\ o # b /\ t # b

Pick(b, o, t) == IF o = b THEN t ELSE o

Merged(base, ours, theirs) ==
    LET At3(n) == Pick(At(base, n), At(ours, n), At(theirs, n))
        names  == {n \in DOMAIN ours \cup DOMAIN theirs : At3(n) # {}}
    IN  [n \in names |-> CHOOSE v \in At3(n) : TRUE]

\* Both sides made something of a file, or one of them did and the other removed it.
Clash(b, o, t) == o # b /\ t # b /\ (o # {} \/ t # {})

FilesMergeCleanly(base, ours, theirs) ==
    \A n \in DOMAIN base \cup DOMAIN ours \cup DOMAIN theirs :
        ~Clash(At(base, n), At(ours, n), At(theirs, n))

ReposMergeCleanly(base, ours, theirs) ==
    /\ FilesMergeCleanly(base.files, ours.files, theirs.files)
    /\ FilesMergeCleanly(base.history, ours.history, theirs.history)

MergedRepo(base, ours, theirs) ==
    [files   |-> Merged(base.files, ours.files, theirs.files),
     history |-> Merged(base.history, ours.history, theirs.history)]

Settings == {"keys", "threshold", "expires", "signing", "paths"}

\* The roles that neither side added or removed.
Shared(base, ours, theirs) == DOMAIN base \cap DOMAIN ours \cap DOMAIN theirs

RolesMergeCleanly(base, ours, theirs) ==
    \A r \in DOMAIN base \cup DOMAIN ours \cup DOMAIN theirs :
        IF r \in Shared(base, ours, theirs)
        THEN \A s \in Settings : ~Conflict(base[r][s], ours[r][s], theirs[r][s])
        ELSE ~Conflict(At(base, r), At(ours, r), At(theirs, r))

MergedRoles(base, ours, theirs) ==
    LET whole == Merged(base, ours, theirs)
    IN  [r \in DOMAIN whole |->
           IF r \in Shared(base, ours, theirs)
           THEN [s \in Settings |-> Pick(base[r][s], ours[r][s], theirs[r][s])]
           ELSE whole[r]]

ConfigsMergeCleanly(base, ours, theirs) ==
    /\ RolesMergeCleanly(base.roles, ours.roles, theirs.roles)
    /\ ~Conflict(base.order, ours.order, theirs.order)
    /\ ~Conflict(base.online, ours.online, theirs.online)

MergedConfig(base, ours, theirs) ==
    [roles  |-> MergedRoles(base.roles, ours.roles, theirs.roles),
     order  |-> Pick(base.order, ours.order, theirs.order),
     online |-> Pick(base.online, ours.online, theirs.online)]
==============================================================================
