------------------------------ MODULE MergeProofs -----------------------------
(***************************************************************************)
(* What git makes of an event and main: the files of the one and the other *)
(* still fit together, though each is merged by itself.                    *)
(***************************************************************************)
EXTENDS RepoProofs

\* Who signs `r`, how many of them, and which paths belong in it.
Who(config, r) ==
    [keys |-> config.roles[r].keys, threshold |-> config.roles[r].threshold,
     paths |-> config.roles[r].paths]

\* `repo` is a commit of main that comes after `base`, or is `base` itself.
Later(base, repo) ==
    LET old == base.files["targets"]
        new == repo.files["targets"]
    IN  /\ base.files["root"].version <= repo.files["root"].version
        /\ \A n \in DOMAIN base.history :
              n \in DOMAIN repo.history /\ repo.history[n] = base.history[n]
        /\ new = old \/ new.version > old.version
        /\ new = old => \A r : ~Has(base, r) => SnapshotVersion(repo, r) <= SnapshotVersion(base, r)

\* Versions go forward from `old` to `new`.
Forward(old, new) ==
    \A r \in DOMAIN new.files :
        IF Has(old, r)
        THEN new.files[r] = old.files[r] \/ new.files[r].version > old.files[r].version
        ELSE new.files[r].version > SnapshotVersion(old, r)

-------------------------------------------------------------------------------
(* What the files say of the config *)

(* The same root means the same top-level roles. *)
LEMMA RootFixesRoles ==
    ASSUME NEW c1, NEW c2, Valid(c1), Valid(c2)
    PROVE  /\ RootBody(c1) = RootBody(c2) => \A r \in TopLevel : Who(c1, r) = Who(c2, r)
           /\ (\A r \in TopLevel : Who(c1, r) = Who(c2, r)) => RootBody(c1) = RootBody(c2)
<1>1. \A r \in TopLevel : c1.roles[r].paths = {} /\ c2.roles[r].paths = {}
  BY DEF Valid, ValidRole
<1>2. ASSUME RootBody(c1) = RootBody(c2), NEW r \in TopLevel
      PROVE  Who(c1, r) = Who(c2, r)
  <2>1. RootBody(c1)[r] = RootBody(c2)[r]
    BY <1>2
  <2>2. RoleDefinition(c1.roles[r]) = RoleDefinition(c2.roles[r])
    BY <2>1 DEF RootBody
  <2>3. QED
    BY <1>1, <2>2 DEF RoleDefinition, Who
<1>3. ASSUME \A r \in TopLevel : Who(c1, r) = Who(c2, r)
      PROVE  RootBody(c1) = RootBody(c2)
  <2>1. \A r \in TopLevel : RoleDefinition(c1.roles[r]) = RoleDefinition(c2.roles[r])
    BY <1>3 DEF RoleDefinition, Who
  <2>2. QED
    BY <2>1 DEF RootBody
<1>4. QED
  BY <1>2, <1>3

\* The delegation `d` is what `config` says of the role `r`.
Described(d, config, r) ==
    /\ d = [name |-> d.name, keys |-> d.keys, threshold |-> d.threshold, paths |-> d.paths]
    /\ d.name = r /\ d.keys = config.roles[r].keys
    /\ d.threshold = config.roles[r].threshold /\ d.paths = config.roles[r].paths

(* The same delegations mean the same delegated roles in the same order. *)
LEMMA DelegationsFixRoles ==
    ASSUME NEW c1, NEW c2, Valid(c1), Valid(c2)
    PROVE  /\ ConfigDelegations(c1) = ConfigDelegations(c2) =>
                /\ c1.order = c2.order
                /\ DOMAIN c1.roles = DOMAIN c2.roles
                /\ \A r \in ToSet(c1.order) : Who(c1, r) = Who(c2, r)
           /\ c1.order = c2.order /\ (\A r \in ToSet(c1.order) : Who(c1, r) = Who(c2, r))
                => ConfigDelegations(c1) = ConfigDelegations(c2)
<1>1. /\ c1.order = [i \in DOMAIN c1.order |-> c1.order[i]]
      /\ c2.order = [i \in DOMAIN c2.order |-> c2.order[i]]
  BY DEF Valid
<1>2. /\ DOMAIN ConfigDelegations(c1) = DOMAIN c1.order
      /\ DOMAIN ConfigDelegations(c2) = DOMAIN c2.order
      /\ \A i \in DOMAIN c1.order : Described(ConfigDelegations(c1)[i], c1, c1.order[i])
      /\ \A i \in DOMAIN c2.order : Described(ConfigDelegations(c2)[i], c2, c2.order[i])
  BY DEF ConfigDelegations, Described
<1>3. ASSUME ConfigDelegations(c1) = ConfigDelegations(c2)
      PROVE  /\ c1.order = c2.order
             /\ DOMAIN c1.roles = DOMAIN c2.roles
             /\ \A r \in ToSet(c1.order) : Who(c1, r) = Who(c2, r)
  <2>1. DOMAIN c1.order = DOMAIN c2.order
    BY <1>2, <1>3
  <2>2. \A i \in DOMAIN c1.order : /\ c1.order[i] = c2.order[i]
                                   /\ Who(c1, c1.order[i]) = Who(c2, c1.order[i])
    <3> SUFFICES ASSUME NEW i \in DOMAIN c1.order
                 PROVE  c1.order[i] = c2.order[i] /\ Who(c1, c1.order[i]) = Who(c2, c1.order[i])
      OBVIOUS
    <3> DEFINE d == ConfigDelegations(c1)[i]
    <3>1. Described(d, c1, c1.order[i])
      BY <1>2
    <3>2. i \in DOMAIN c2.order
      BY <2>1
    <3>3. Described(d, c2, c2.order[i])
      BY <1>2, <1>3, <3>2
    <3> HIDE DEF d
    <3>4. c1.order[i] = c2.order[i]
      BY <3>1, <3>3 DEF Described
    <3>5. QED
      BY <3>1, <3>3, <3>4 DEF Described, Who
  <2>3. c1.order = c2.order
    BY <1>1, <2>1, <2>2
  <2>4. \A r \in ToSet(c1.order) : Who(c1, r) = Who(c2, r)
    BY <2>2 DEF ToSet
  <2>5. DOMAIN c1.roles = DOMAIN c2.roles
    BY <2>3 DEF Valid
  <2>6. QED
    BY <2>3, <2>4, <2>5
<1>4. ASSUME c1.order = c2.order, \A r \in ToSet(c1.order) : Who(c1, r) = Who(c2, r)
      PROVE  ConfigDelegations(c1) = ConfigDelegations(c2)
  <2>1. \A i \in DOMAIN c1.order : Who(c1, c1.order[i]) = Who(c2, c1.order[i])
    BY <1>4 DEF ToSet
  <2>2. \A i \in DOMAIN c1.order : ConfigDelegations(c1)[i] = ConfigDelegations(c2)[i]
    <3> SUFFICES ASSUME NEW i \in DOMAIN c1.order
                 PROVE  ConfigDelegations(c1)[i] = ConfigDelegations(c2)[i]
      OBVIOUS
    <3> DEFINE d1 == ConfigDelegations(c1)[i]
               d2 == ConfigDelegations(c2)[i]
               r == c1.order[i]
    <3>1. Described(d1, c1, r) /\ Described(d2, c2, r)
      BY <1>2, <1>4
    <3>2. Who(c1, r) = Who(c2, r)
      BY <2>1
    <3> HIDE DEF d1, d2, r
    <3>3. d1 = d2
      BY <3>1, <3>2 DEF Described, Who
    <3>4. QED
      BY <3>3 DEF d1, d2
  <2>3. /\ ConfigDelegations(c1) = [i \in DOMAIN c1.order |-> ConfigDelegations(c1)[i]]
        /\ ConfigDelegations(c2) = [i \in DOMAIN c1.order |-> ConfigDelegations(c2)[i]]
    BY <1>4 DEF ConfigDelegations
  <2>4. [i \in DOMAIN c1.order |-> ConfigDelegations(c1)[i]]
          = [i \in DOMAIN c1.order |-> ConfigDelegations(c2)[i]]
    BY <2>2
  <2>5. QED
    BY <2>3, <2>4, Zenon
<1>5. QED
  BY <1>3, <1>4

-------------------------------------------------------------------------------
(* The config and the files of a merge *)

\* An event with metadata `head` for the config `new`, started from the
\* commit `base` of main with the config `old`, merges with what main is now.
Meet(base, old, main, config, head, new) ==
    /\ IsCommit(base, old) /\ Valid(old)
    /\ IsCommit(main, config) /\ Valid(config)
    /\ Succeeds(base, head, new) /\ Valid(new)
    /\ Later(base, main)
    /\ ReposMergeCleanly(base, main, head)
    /\ ConfigsMergeCleanly(old, config, new)

(* Who signs a role after a merge, if one side left that alone or both     *)
(* sides changed it alike.                                                 *)
LEMMA MergedWho ==
    ASSUME NEW old, NEW config, NEW new, ConfigsMergeCleanly(old, config, new), NEW r
    PROVE  LET C == MergedConfig(old, config, new)
               In(c) == r \in DOMAIN c.roles
           IN  /\ In(old) /\ In(new) /\ Who(new, r) = Who(old, r) /\ In(C)
                     => In(config) /\ Who(C, r) = Who(config, r)
               /\ In(old) /\ In(config) /\ Who(config, r) = Who(old, r) /\ In(C)
                     => In(new) /\ Who(C, r) = Who(new, r)
               /\ In(config) /\ In(new) /\ Who(config, r) = Who(new, r) /\ In(C)
                     => Who(C, r) = Who(config, r)
<1> DEFINE C == MergedConfig(old, config, new)
<1>1. C.roles = MergedRoles(old.roles, config.roles, new.roles)
  BY DEF MergedConfig
<1>2. RolesMergeCleanly(old.roles, config.roles, new.roles)
  BY DEF ConfigsMergeCleanly
<1> HIDE DEF C
<1>3. CASE r \notin Shared(old.roles, config.roles, new.roles)
  <2>1. \/ Same(config.roles, old.roles, r) /\ Same(C.roles, new.roles, r)
        \/ Same(new.roles, old.roles, r) /\ Same(C.roles, config.roles, r)
        \/ Same(config.roles, new.roles, r) /\ Same(C.roles, config.roles, r)
    BY <1>1, <1>2, <1>3, MergedRolesAre
  <2>2. \A c, d : Same(c.roles, d.roles, r) /\ r \in DOMAIN c.roles => Who(c, r) = Who(d, r)
    BY DEF Same, Who
  <2>3. QED
    BY <2>1, <2>2 DEF Same, C
<1>4. CASE r \in Shared(old.roles, config.roles, new.roles)
  <2>1. r \in DOMAIN old.roles /\ r \in DOMAIN config.roles /\ r \in DOMAIN new.roles
    BY <1>4 DEF Shared
  <2>2. \A s \in {"keys", "threshold", "paths"} :
           \/ config.roles[r][s] = old.roles[r][s] /\ C.roles[r][s] = new.roles[r][s]
           \/ new.roles[r][s] = old.roles[r][s] /\ C.roles[r][s] = config.roles[r][s]
           \/ config.roles[r][s] = new.roles[r][s] /\ C.roles[r][s] = config.roles[r][s]
    BY <1>1, <1>2, <1>4, MergedRolesAre DEF Settings
  <2>3. ASSUME NEW c, NEW d
        PROVE  Who(c, r) = Who(d, r) <=>
                  \A s \in {"keys", "threshold", "paths"} : c.roles[r][s] = d.roles[r][s]
    <3> DEFINE f == c.roles[r]
               g == d.roles[r]
    <3> HIDE DEF f, g
    <3>1. [keys |-> f.keys, threshold |-> f.threshold, paths |-> f.paths]
             = [keys |-> g.keys, threshold |-> g.threshold, paths |-> g.paths]
           <=> f.keys = g.keys /\ f.threshold = g.threshold /\ f.paths = g.paths
      OBVIOUS
    <3>2. QED
      BY <3>1 DEF f, g, Who
  <2>4. QED
    BY <2>1, <2>2, <2>3 DEF C
<1>5. QED
  BY <1>3, <1>4

(* A role has the keys that the one side gives it, or the other. *)
LEMMA MergedKeys ==
    ASSUME NEW old, NEW config, NEW new, ConfigsMergeCleanly(old, config, new), NEW r
    PROVE  LET C == MergedConfig(old, config, new)
           IN  r \in DOMAIN C.roles =>
                  \/ r \in DOMAIN config.roles /\ C.roles[r].keys = config.roles[r].keys
                  \/ r \in DOMAIN new.roles /\ C.roles[r].keys = new.roles[r].keys
<1> DEFINE C == MergedConfig(old, config, new)
<1>1. C.roles = MergedRoles(old.roles, config.roles, new.roles)
  BY DEF MergedConfig
<1>2. RolesMergeCleanly(old.roles, config.roles, new.roles)
  BY DEF ConfigsMergeCleanly
<1> HIDE DEF C
<1>3. CASE r \notin Shared(old.roles, config.roles, new.roles)
  BY <1>1, <1>2, <1>3, MergedRolesAre DEF Same, C
<1>4. CASE r \in Shared(old.roles, config.roles, new.roles)
  <2>1. r \in DOMAIN config.roles /\ r \in DOMAIN new.roles
    BY <1>4 DEF Shared
  <2>2. \/ C.roles[r]["keys"] = new.roles[r]["keys"]
        \/ C.roles[r]["keys"] = config.roles[r]["keys"]
    BY <1>1, <1>2, <1>4, MergedRolesAre DEF Settings
  <2>3. QED
    BY <2>1, <2>2 DEF C
<1>5. QED
  BY <1>3, <1>4

(* What a merge makes of each file. *)
LEMMA MergedFiles ==
    ASSUME NEW base, NEW ours, NEW theirs, ReposMergeCleanly(base, ours, theirs)
    PROVE  LET M == MergedRepo(base, ours, theirs)
           IN  /\ M = [files |-> M.files, history |-> M.history]
               /\ IsMap(M.files) /\ IsMap(M.history)
               /\ \A r : \/ Same(ours.files, base.files, r) /\ Same(M.files, theirs.files, r)
                         \/ Same(theirs.files, base.files, r) /\ Same(M.files, ours.files, r)
                         \/ Same(ours.files, theirs.files, r) /\ Same(M.files, ours.files, r)
               /\ \A n : \/ Same(ours.history, base.history, n) /\ Same(M.history, theirs.history, n)
                         \/ Same(theirs.history, base.history, n) /\ Same(M.history, ours.history, n)
                         \/ Same(ours.history, theirs.history, n) /\ Same(M.history, ours.history, n)
<1> DEFINE M == MergedRepo(base, ours, theirs)
<1>1. /\ M.files = Merged(base.files, ours.files, theirs.files)
      /\ M.history = Merged(base.history, ours.history, theirs.history)
      /\ M = [files |-> M.files, history |-> M.history]
  BY DEF MergedRepo
<1> HIDE DEF M
<1>2. QED
  BY <1>1, FilesMerge, MergedIs DEF ReposMergeCleanly, M

(* The roles that a merge has files of are those of its config. *)
LEMMA MergedDomain ==
    ASSUME NEW base, NEW old, NEW main, NEW config, NEW head, NEW new,
           Meet(base, old, main, config, head, new)
    PROVE  LET M == MergedRepo(base, main, head)
               C == MergedConfig(old, config, new)
           IN  \A r : r \in DOMAIN M.files <=> r \in DOMAIN C.roles
<1> DEFINE M == MergedRepo(base, main, head)
           C == MergedConfig(old, config, new)
<1> SUFFICES ASSUME NEW r PROVE r \in DOMAIN M.files <=> r \in DOMAIN C.roles
  OBVIOUS
<1>1. \/ Same(main.files, base.files, r) /\ Same(M.files, head.files, r)
      \/ Same(head.files, base.files, r) /\ Same(M.files, main.files, r)
      \/ Same(main.files, head.files, r) /\ Same(M.files, main.files, r)
  BY MergedFiles DEF Meet
<1>2. \/ /\ r \in DOMAIN config.roles <=> r \in DOMAIN old.roles
         /\ r \in DOMAIN C.roles <=> r \in DOMAIN new.roles
      \/ /\ r \in DOMAIN new.roles <=> r \in DOMAIN old.roles
         /\ r \in DOMAIN C.roles <=> r \in DOMAIN config.roles
      \/ /\ r \in DOMAIN config.roles <=> r \in DOMAIN new.roles
         /\ r \in DOMAIN C.roles <=> r \in DOMAIN config.roles
  <2>1. RolesMergeCleanly(old.roles, config.roles, new.roles)
    BY DEF Meet, ConfigsMergeCleanly
  <2>2. C.roles = MergedRoles(old.roles, config.roles, new.roles)
    BY DEF MergedConfig
  <2> HIDE DEF C
  <2>3. CASE r \notin Shared(old.roles, config.roles, new.roles)
    BY <2>1, <2>2, <2>3, MergedRolesAre DEF Same
  <2>4. CASE r \in Shared(old.roles, config.roles, new.roles)
    BY <2>1, <2>2, <2>4, MergedRolesAre DEF Shared
  <2>5. QED
    BY <2>3, <2>4
<1>3. /\ r \in DOMAIN base.files <=> r \in DOMAIN old.roles
      /\ r \in DOMAIN main.files <=> r \in DOMAIN config.roles
      /\ r \in DOMAIN head.files <=> r \in DOMAIN new.roles
  BY DEF Meet, IsCommit, Succeeds, Follows
<1> HIDE DEF M, C
<1>4. QED
  BY <1>1, <1>2, <1>3 DEF Same

(* Root says who signs the top-level roles after a merge. *)
LEMMA MergedRoot ==
    ASSUME NEW base, NEW old, NEW main, NEW config, NEW head, NEW new,
           Meet(base, old, main, config, head, new)
    PROVE  LET M == MergedRepo(base, main, head)
               C == MergedConfig(old, config, new)
           IN  Valid(C) => M.files["root"].body = RootBody(C)
<1> DEFINE M == MergedRepo(base, main, head)
           C == MergedConfig(old, config, new)
<1> SUFFICES ASSUME Valid(C) PROVE M.files["root"].body = RootBody(C)
  OBVIOUS
<1>1. /\ Valid(old) /\ Valid(config) /\ Valid(new)
      /\ base.files["root"].body = RootBody(old)
      /\ main.files["root"].body = RootBody(config)
      /\ head.files["root"].body = RootBody(new)
      /\ ConfigsMergeCleanly(old, config, new)
  BY DEF Meet, IsCommit, Succeeds, Follows
<1>2. \A r \in TopLevel : /\ r \in DOMAIN old.roles /\ r \in DOMAIN config.roles
                          /\ r \in DOMAIN new.roles /\ r \in DOMAIN C.roles
  BY <1>1, RolesOfConfig
<1>3. "root" \in DOMAIN base.files /\ "root" \in DOMAIN main.files /\ "root" \in DOMAIN head.files
  BY <1>2 DEF Meet, IsCommit, Succeeds, Follows, TopLevel
<1>4. \/ main.files["root"] = base.files["root"] /\ M.files["root"] = head.files["root"]
      \/ head.files["root"] = base.files["root"] /\ M.files["root"] = main.files["root"]
      \/ main.files["root"] = head.files["root"] /\ M.files["root"] = main.files["root"]
  <2>1. \/ Same(main.files, base.files, "root") /\ Same(M.files, head.files, "root")
        \/ Same(head.files, base.files, "root") /\ Same(M.files, main.files, "root")
        \/ Same(main.files, head.files, "root") /\ Same(M.files, main.files, "root")
    BY MergedFiles DEF Meet
  <2> HIDE DEF M
  <2>2. QED
    BY <1>3, <2>1 DEF Same
<1> HIDE DEF M
<1>5. CASE main.files["root"] = base.files["root"] /\ M.files["root"] = head.files["root"]
  <2>1. \A r \in TopLevel : Who(config, r) = Who(old, r)
    BY <1>1, <1>5, RootFixesRoles
  <2>2. \A r \in TopLevel : Who(C, r) = Who(new, r)
    BY <1>1, <1>2, <2>1, MergedWho
  <2> HIDE DEF C
  <2>3. QED
    BY <1>1, <1>5, <2>2, RootFixesRoles
<1>6. CASE head.files["root"] = base.files["root"] /\ M.files["root"] = main.files["root"]
  <2>1. \A r \in TopLevel : Who(new, r) = Who(old, r)
    BY <1>1, <1>6, RootFixesRoles
  <2>2. \A r \in TopLevel : Who(C, r) = Who(config, r)
    BY <1>1, <1>2, <2>1, MergedWho
  <2> HIDE DEF C
  <2>3. QED
    BY <1>1, <1>6, <2>2, RootFixesRoles
<1>7. CASE main.files["root"] = head.files["root"] /\ M.files["root"] = main.files["root"]
  <2>1. \A r \in TopLevel : Who(config, r) = Who(new, r)
    BY <1>1, <1>7, RootFixesRoles
  <2>2. \A r \in TopLevel : Who(C, r) = Who(config, r)
    BY <1>1, <1>2, <2>1, MergedWho
  <2> HIDE DEF C
  <2>3. QED
    BY <1>1, <1>7, <2>2, RootFixesRoles
<1>8. QED
  BY <1>4, <1>5, <1>6, <1>7

(* The order of delegations after a merge. *)
LEMMA MergedOrder ==
    ASSUME NEW old, NEW config, NEW new, ConfigsMergeCleanly(old, config, new)
    PROVE  LET C == MergedConfig(old, config, new)
           IN  /\ config.order = old.order => C.order = new.order
               /\ new.order = old.order => C.order = config.order
               /\ config.order = new.order => C.order = config.order
BY DEF MergedConfig, Pick, ConfigsMergeCleanly, Conflict

(* `targets` delegates as the config says after a merge. *)
LEMMA MergedDelegations ==
    ASSUME NEW base, NEW old, NEW main, NEW config, NEW head, NEW new,
           Meet(base, old, main, config, head, new)
    PROVE  LET M == MergedRepo(base, main, head)
               C == MergedConfig(old, config, new)
           IN  Valid(C) => Delegations(M) = ConfigDelegations(C)
<1> DEFINE M == MergedRepo(base, main, head)
           C == MergedConfig(old, config, new)
<1> SUFFICES ASSUME Valid(C) PROVE Delegations(M) = ConfigDelegations(C)
  OBVIOUS
<1>1. /\ Valid(old) /\ Valid(config) /\ Valid(new)
      /\ Delegations(base) = ConfigDelegations(old)
      /\ Delegations(main) = ConfigDelegations(config)
      /\ Delegations(head) = ConfigDelegations(new)
      /\ ConfigsMergeCleanly(old, config, new)
  BY DEF Meet, IsCommit, Succeeds, Follows
<1>2. /\ \A r \in ToSet(old.order) : r \in DOMAIN old.roles
      /\ \A r \in ToSet(config.order) : r \in DOMAIN config.roles
      /\ \A r \in ToSet(new.order) : r \in DOMAIN new.roles
      /\ \A r \in ToSet(C.order) : r \in DOMAIN C.roles
  BY <1>1 DEF Valid
<1>3. "targets" \in DOMAIN base.files /\ "targets" \in DOMAIN main.files /\ "targets" \in DOMAIN head.files
  BY <1>1, RolesOfConfig DEF Meet, IsCommit, Succeeds, Follows
<1>4. \/ main.files["targets"] = base.files["targets"] /\ M.files["targets"] = head.files["targets"]
      \/ head.files["targets"] = base.files["targets"] /\ M.files["targets"] = main.files["targets"]
      \/ main.files["targets"] = head.files["targets"] /\ M.files["targets"] = main.files["targets"]
  <2>1. \/ Same(main.files, base.files, "targets") /\ Same(M.files, head.files, "targets")
        \/ Same(head.files, base.files, "targets") /\ Same(M.files, main.files, "targets")
        \/ Same(main.files, head.files, "targets") /\ Same(M.files, main.files, "targets")
    BY MergedFiles DEF Meet
  <2> HIDE DEF M
  <2>2. QED
    BY <1>3, <2>1 DEF Same
<1> HIDE DEF M
<1>5. CASE main.files["targets"] = base.files["targets"] /\ M.files["targets"] = head.files["targets"]
  <2>1. ConfigDelegations(config) = ConfigDelegations(old)
    BY <1>1, <1>5 DEF Delegations
  <2>2. config.order = old.order /\ \A r \in ToSet(config.order) : Who(config, r) = Who(old, r)
    BY <1>1, <2>1, DelegationsFixRoles
  <2>3. C.order = new.order
    BY <1>1, <2>2, MergedOrder
  <2>4. ASSUME NEW r \in ToSet(C.order)
        PROVE  Who(C, r) = Who(new, r)
    <3>1. r \in DOMAIN C.roles /\ r \in DOMAIN new.roles /\ r \notin TopLevel
      BY <1>1, <1>2, <2>3 DEF Valid
    <3>2. CASE r \in ToSet(config.order)
      BY <1>1, <1>2, <2>2, <3>1, <3>2, MergedWho
    <3>3. CASE r \notin ToSet(config.order)
      <4>1. r \notin DOMAIN config.roles /\ r \notin DOMAIN old.roles
        BY <1>1, <2>2, <3>1, <3>3 DEF Valid
      <4>2. Same(C.roles, new.roles, r)
        <5>1. \/ Same(config.roles, old.roles, r) /\ Same(C.roles, new.roles, r)
              \/ Same(new.roles, old.roles, r) /\ Same(C.roles, config.roles, r)
              \/ Same(config.roles, new.roles, r) /\ Same(C.roles, config.roles, r)
          BY <1>1, <4>1, MergedRolesAre DEF MergedConfig, ConfigsMergeCleanly, Shared
        <5> HIDE DEF C
        <5>2. QED
          BY <3>1, <4>1, <5>1 DEF Same
      <4> HIDE DEF C
      <4>3. QED
        BY <3>1, <4>2 DEF Same, Who
    <3>4. QED
      BY <3>2, <3>3
  <2> HIDE DEF C
  <2>5. ConfigDelegations(C) = ConfigDelegations(new)
    BY <1>1, <2>3, <2>4, DelegationsFixRoles
  <2>6. QED
    BY <1>1, <1>5, <2>5 DEF Delegations
<1>6. CASE head.files["targets"] = base.files["targets"] /\ M.files["targets"] = main.files["targets"]
  <2>1. ConfigDelegations(new) = ConfigDelegations(old)
    BY <1>1, <1>6 DEF Delegations
  <2>2. new.order = old.order /\ \A r \in ToSet(new.order) : Who(new, r) = Who(old, r)
    BY <1>1, <2>1, DelegationsFixRoles
  <2>3. C.order = config.order
    BY <1>1, <2>2, MergedOrder
  <2>4. ASSUME NEW r \in ToSet(C.order)
        PROVE  Who(C, r) = Who(config, r)
    <3>1. r \in DOMAIN C.roles /\ r \in DOMAIN config.roles /\ r \notin TopLevel
      BY <1>1, <1>2, <2>3 DEF Valid
    <3>2. CASE r \in ToSet(new.order)
      BY <1>1, <1>2, <2>2, <3>1, <3>2, MergedWho
    <3>3. CASE r \notin ToSet(new.order)
      <4>1. r \notin DOMAIN new.roles /\ r \notin DOMAIN old.roles
        BY <1>1, <2>2, <3>1, <3>3 DEF Valid
      <4>2. Same(C.roles, config.roles, r)
        <5>1. \/ Same(config.roles, old.roles, r) /\ Same(C.roles, new.roles, r)
              \/ Same(new.roles, old.roles, r) /\ Same(C.roles, config.roles, r)
              \/ Same(config.roles, new.roles, r) /\ Same(C.roles, config.roles, r)
          BY <1>1, <4>1, MergedRolesAre DEF MergedConfig, ConfigsMergeCleanly, Shared
        <5> HIDE DEF C
        <5>2. QED
          BY <3>1, <4>1, <5>1 DEF Same
      <4> HIDE DEF C
      <4>3. QED
        BY <3>1, <4>2 DEF Same, Who
    <3>4. QED
      BY <3>2, <3>3
  <2> HIDE DEF C
  <2>5. ConfigDelegations(C) = ConfigDelegations(config)
    BY <1>1, <2>3, <2>4, DelegationsFixRoles
  <2>6. QED
    BY <1>1, <1>6, <2>5 DEF Delegations
<1>7. CASE main.files["targets"] = head.files["targets"] /\ M.files["targets"] = main.files["targets"]
  <2>1. ConfigDelegations(config) = ConfigDelegations(new)
    BY <1>1, <1>7 DEF Delegations
  <2>2. config.order = new.order /\ \A r \in ToSet(config.order) : Who(config, r) = Who(new, r)
    BY <1>1, <2>1, DelegationsFixRoles
  <2>3. C.order = config.order
    BY <1>1, <2>2, MergedOrder
  <2>4. \A r \in ToSet(C.order) : Who(C, r) = Who(config, r)
    BY <1>1, <1>2, <2>2, <2>3, MergedWho
  <2> HIDE DEF C
  <2>5. ConfigDelegations(C) = ConfigDelegations(config)
    BY <1>1, <2>3, <2>4, DelegationsFixRoles
  <2>6. QED
    BY <1>1, <1>7, <2>5 DEF Delegations
<1>8. QED
  BY <1>4, <1>5, <1>6, <1>7

(* So the metadata follows the config after a merge. *)
LEMMA MergeFollows ==
    ASSUME NEW base, NEW old, NEW main, NEW config, NEW head, NEW new,
           Meet(base, old, main, config, head, new),
           Valid(MergedConfig(old, config, new))
    PROVE  LET M == MergedRepo(base, main, head)
           IN  WellFormed(M) /\ Follows(M, MergedConfig(old, config, new))
<1> DEFINE M == MergedRepo(base, main, head)
           C == MergedConfig(old, config, new)
<1>1. /\ M = [files |-> M.files, history |-> M.history]
      /\ IsMap(M.files) /\ IsMap(M.history)
      /\ \A r : \/ Same(main.files, base.files, r) /\ Same(M.files, head.files, r)
                \/ Same(head.files, base.files, r) /\ Same(M.files, main.files, r)
                \/ Same(main.files, head.files, r) /\ Same(M.files, main.files, r)
  BY MergedFiles DEF Meet
<1>2. \A r : r \in DOMAIN M.files <=> r \in DOMAIN C.roles
  BY MergedDomain
<1>3. M.files["root"].body = RootBody(C) /\ Delegations(M) = ConfigDelegations(C)
  BY MergedRoot, MergedDelegations
<1> HIDE DEF M, C
<1>4. \A r \in DOMAIN M.files :
         \/ r \in DOMAIN main.files /\ M.files[r] = main.files[r]
         \/ r \in DOMAIN head.files /\ M.files[r] = head.files[r]
  BY <1>1 DEF Same
<1>5. WellFormed(M)
  BY <1>1, <1>4 DEF WellFormed, Meet, IsCommit, Succeeds
<1>6. DOMAIN M.files = DOMAIN C.roles
  BY <1>2
<1>7. \A r \in TargetsRoles(M) : /\ IsTargets(M.files[r].body)
                                 /\ r # "targets" => M.files[r].body.delegations = <<>>
  BY <1>4 DEF TargetsRoles, Meet, IsCommit, Succeeds, Follows
<1>8. QED
  BY <1>3, <1>5, <1>6, <1>7 DEF Follows, M, C

-------------------------------------------------------------------------------
(* The history of root after a merge *)

(* The history of a commit holds the roots up to its own. *)
LEMMA CommitHistory ==
    ASSUME NEW repo, NEW config, IsCommit(repo, config), Valid(config)
    PROVE  LET v == repo.files["root"].version
           IN  /\ v \in Nat \ {0}
               /\ \A n : n \in DOMAIN repo.history <=> n \in 1 .. v
               /\ repo.history[v] = repo.files["root"]
               /\ IsMap(repo.history)
<1>1. "root" \in DOMAIN repo.files
  BY RolesOfConfig DEF IsCommit, Follows
<1>2. QED
  BY <1>1 DEF IsCommit, WellFormed, IsFile, Chained

(* Maps with the same entries are the same. *)
LEMMA SameMaps ==
    ASSUME NEW f, NEW g, IsMap(f), IsMap(g), \A n : Same(f, g, n)
    PROVE  f = g
<1>1. DOMAIN f = DOMAIN g /\ \A n \in DOMAIN f : f[n] = g[n]
  BY DEF Same
<1>2. QED
  BY <1>1 DEF IsMap

(* A merge leaves root and its history alone, or adds the one new root of  *)
(* the event to it.                                                        *)
LEMMA MergedHistory ==
    ASSUME NEW base, NEW old, NEW main, NEW config, NEW head, NEW new,
           Meet(base, old, main, config, head, new)
    PROVE  LET M == MergedRepo(base, main, head)
               root == M.files["root"]
           IN  \/ root = main.files["root"] /\ M.history = main.history
               \/ /\ root = head.files["root"]
                  /\ root.version = 1 + main.files["root"].version
                  /\ \A n : n \in DOMAIN M.history <=> n \in DOMAIN main.history \/ n = root.version
                  /\ \A n \in DOMAIN main.history : M.history[n] = main.history[n]
                  /\ M.history[root.version] = root
<1> DEFINE M == MergedRepo(base, main, head)
           b == base.files["root"]
           o == main.files["root"]
           t == head.files["root"]
           root == M.files["root"]
<1>1. /\ \A r : \/ Same(main.files, base.files, r) /\ Same(M.files, head.files, r)
                \/ Same(head.files, base.files, r) /\ Same(M.files, main.files, r)
                \/ Same(main.files, head.files, r) /\ Same(M.files, main.files, r)
      /\ \A n : \/ Same(main.history, base.history, n) /\ Same(M.history, head.history, n)
                \/ Same(head.history, base.history, n) /\ Same(M.history, main.history, n)
                \/ Same(main.history, head.history, n) /\ Same(M.history, main.history, n)
      /\ IsMap(M.history)
  BY MergedFiles DEF Meet
<1> HIDE DEF M
<1>2. "root" \in DOMAIN base.files /\ "root" \in DOMAIN main.files /\ "root" \in DOMAIN head.files
  BY RolesOfConfig DEF Meet, IsCommit, Succeeds, Follows
<1>3. \/ o = b /\ root = t
      \/ t = b /\ root = o
      \/ o = t /\ root = o
  BY <1>1, <1>2 DEF Same
<1>4. /\ b.version \in Nat \ {0} /\ o.version \in Nat \ {0} /\ b.version <= o.version
      /\ \A n : n \in DOMAIN base.history <=> n \in 1 .. b.version
      /\ \A n : n \in DOMAIN main.history <=> n \in 1 .. o.version
      /\ base.history[b.version] = b /\ main.history[o.version] = o
      /\ IsMap(main.history)
  BY CommitHistory DEF Meet, Later
<1>5. /\ \A n \in DOMAIN base.history : n \in DOMAIN main.history /\ main.history[n] = base.history[n]
      /\ head.history[t.version] = t
      /\ \A n : n \in DOMAIN head.history <=> n \in DOMAIN base.history \/ n = t.version
      /\ \A n \in DOMAIN base.history : n # t.version => head.history[n] = base.history[n]
  BY DEF Meet, Later, Succeeds
<1>6. t # b => t.version = 1 + b.version
  BY <1>2 DEF Meet, Succeeds, EventRoles, Unchanged, LastVersion, Has
<1>7. CASE t = b
  <2>1. \A n : Same(head.history, base.history, n)
    BY <1>4, <1>5, <1>7 DEF Same
  <2>2. \A n : Same(M.history, main.history, n)
    BY <1>1, <2>1 DEF Same
  <2>3. root = o
    BY <1>3, <1>7
  <2>4. QED
    BY <1>1, <1>4, <2>2, <2>3, SameMaps DEF M
<1>8. CASE t # b /\ o = b
  <2>1. \A n : Same(main.history, base.history, n)
    BY <1>4, <1>5, <1>8 DEF Same
  <2>2. \A n : Same(M.history, head.history, n)
    BY <1>1, <2>1 DEF Same
  <2>3. root = t /\ root.version = 1 + o.version
    BY <1>3, <1>6, <1>8
  <2>4. \A n : n \in DOMAIN M.history <=> n \in DOMAIN main.history \/ n = root.version
    BY <1>5, <2>1, <2>2, <2>3 DEF Same
  <2>5. M.history[root.version] = root
    BY <1>5, <2>2, <2>3, <2>4 DEF Same
  <2>6. \A n \in DOMAIN main.history : M.history[n] = main.history[n]
    BY <1>4, <1>5, <2>1, <2>2, <2>3 DEF Same
  <2>7. QED
    BY <2>3, <2>4, <2>5, <2>6 DEF M
<1>9. CASE t # b /\ o # b
  <2>1. o = t /\ root = o /\ o.version = 1 + b.version
    BY <1>3, <1>6, <1>9
  <2>2. \A n : n \in DOMAIN main.history <=> n \in DOMAIN head.history
    BY <1>4, <1>5, <2>1
  <2>3. \A n \in DOMAIN main.history : main.history[n] = head.history[n]
    BY <1>4, <1>5, <2>1
  <2>4. \A n : Same(M.history, main.history, n)
    BY <1>1, <2>2, <2>3 DEF Same
  <2>5. QED
    BY <1>1, <1>4, <2>1, <2>4, SameMaps DEF M
<1>10. QED
  BY <1>7, <1>8, <1>9

(* A merge that is complete has every signature. *)
LEMMA CompleteIs ==
    ASSUME NEW base, NEW head, Complete(base, head), NEW r \in EventRoles(head)
    PROVE  RoleComplete(base, head, r)
BY DEF Complete, StatusRoles

(* So clients can walk through the roots of a complete merge. *)
LEMMA MergeChained ==
    ASSUME NEW base, NEW old, NEW main, NEW config, NEW head, NEW new,
           Meet(base, old, main, config, head, new),
           RoleComplete(main, MergedRepo(base, main, head), "root")
    PROVE  Chained(MergedRepo(base, main, head))
<1> DEFINE M == MergedRepo(base, main, head)
           v == main.files["root"].version
           root == M.files["root"]
<1>1. /\ v \in Nat \ {0} /\ Chained(main) /\ Has(main, "root")
      /\ main.history[v] = main.files["root"]
  BY CommitHistory, RolesOfConfig DEF Meet, IsCommit, Follows, Has
<1>2. \/ root = main.files["root"] /\ M.history = main.history
      \/ /\ root.version = 1 + v
         /\ \A n : n \in DOMAIN M.history <=> n \in DOMAIN main.history \/ n = root.version
         /\ \A n \in DOMAIN main.history : M.history[n] = main.history[n]
         /\ M.history[root.version] = root
  BY MergedHistory
<1> HIDE DEF M
<1>3. CASE root = main.files["root"] /\ M.history = main.history
  BY <1>1, <1>3 DEF Chained, M
<1>4. CASE /\ root.version = 1 + v
           /\ \A n : n \in DOMAIN M.history <=> n \in DOMAIN main.history \/ n = root.version
           /\ \A n \in DOMAIN main.history : M.history[n] = main.history[n]
           /\ M.history[root.version] = root
  <2>1. /\ \A n : n \in DOMAIN main.history <=> n \in 1 .. v
        /\ \A n \in 1 .. v : /\ main.history[n].version = n
                             /\ Met(main.history[n], main.history[n].body["root"])
        /\ \A n \in 2 .. v : Met(main.history[n], main.history[n - 1].body["root"])
    BY <1>1 DEF Chained
  <2>2. main.files["root"] # root
    BY <1>1, <1>4
  <2>3. Met(root, root.body["root"]) /\ Met(root, main.files["root"].body["root"])
    BY <1>1, <2>2 DEF RoleComplete, Requirements, RoleKeys, TopLevel, M
  <2>4. \A n : n \in DOMAIN M.history <=> n \in 1 .. root.version
    BY <1>1, <1>4, <2>1
  <2>5. ASSUME NEW n \in 1 .. root.version
        PROVE  /\ M.history[n].version = n
               /\ Met(M.history[n], M.history[n].body["root"])
    <3>1. CASE n = root.version
      BY <1>4, <2>3, <3>1
    <3>2. CASE n # root.version
      <4>1. n \in 1 .. v
        BY <1>1, <1>4, <3>2
      <4>2. QED
        BY <1>4, <2>1, <4>1
    <3>3. QED
      BY <3>1, <3>2
  <2>6. ASSUME NEW n \in 2 .. root.version
        PROVE  Met(M.history[n], M.history[n - 1].body["root"])
    <3>1. n - 1 \in 1 .. v /\ M.history[n - 1] = main.history[n - 1]
      BY <1>1, <1>4, <2>1
    <3>2. CASE n = root.version
      BY <1>1, <1>4, <2>3, <3>1, <3>2
    <3>3. CASE n # root.version
      <4>1. n \in 2 .. v /\ M.history[n] = main.history[n]
        BY <1>1, <1>4, <2>1, <3>3
      <4>2. QED
        BY <2>1, <3>1, <4>1
    <3>4. QED
      BY <3>2, <3>3
  <2>7. QED
    BY <1>4, <2>4, <2>5, <2>6 DEF Chained, M
<1>5. QED
  BY <1>2, <1>3, <1>4

-------------------------------------------------------------------------------
(* Versions after a merge *)

(* Metadata with the same `targets` has the same roles. *)
LEMMA TargetsFixRoles ==
    ASSUME NEW repo1, NEW c1, NEW repo2, NEW c2, Valid(c1), Valid(c2),
           Follows(repo1, c1), Follows(repo2, c2),
           repo1.files["targets"] = repo2.files["targets"]
    PROVE  \A r : Has(repo1, r) <=> Has(repo2, r)
<1>1. ConfigDelegations(c1) = ConfigDelegations(c2)
  BY DEF Follows, Delegations
<1>2. DOMAIN c1.roles = DOMAIN c2.roles
  BY <1>1, DelegationsFixRoles
<1>3. QED
  BY <1>2 DEF Follows, Has

(* Versions go forward in a merge. *)
LEMMA MergeForward ==
    ASSUME NEW base, NEW old, NEW main, NEW config, NEW head, NEW new,
           Meet(base, old, main, config, head, new)
    PROVE  Forward(main, MergedRepo(base, main, head))
<1> DEFINE M == MergedRepo(base, main, head)
<1> SUFFICES ASSUME NEW r \in DOMAIN M.files
             PROVE  IF Has(main, r)
                    THEN \/ M.files[r] = main.files[r]
                         \/ M.files[r].version > main.files[r].version
                    ELSE M.files[r].version > SnapshotVersion(main, r)
  BY DEF Forward
<1>1. \A x : \/ Same(main.files, base.files, x) /\ Same(M.files, head.files, x)
             \/ Same(head.files, base.files, x) /\ Same(M.files, main.files, x)
             \/ Same(main.files, head.files, x) /\ Same(M.files, main.files, x)
  BY MergedFiles DEF Meet
<1> HIDE DEF M
<1>2. /\ {"targets", "snapshot", "timestamp"} \subseteq DOMAIN base.files
      /\ {"targets", "snapshot", "timestamp"} \subseteq DOMAIN main.files
      /\ {"targets", "snapshot", "timestamp"} \subseteq DOMAIN head.files
  BY RolesOfConfig DEF Meet, IsCommit, Succeeds, Follows
<1>3. CASE Same(M.files, main.files, r)
  BY <1>3 DEF Same, Has
<1>4. CASE Same(main.files, base.files, r) /\ Same(M.files, head.files, r)
  <2>1. r \in DOMAIN head.files /\ M.files[r] = head.files[r]
    BY <1>4 DEF Same
  <2>2. CASE r \in {"snapshot", "timestamp"}
    BY <1>2, <1>4, <2>1, <2>2 DEF Meet, Succeeds, Same, Has
  <2>3. CASE r \notin {"snapshot", "timestamp"} /\ Unchanged(base, new, r, head.files[r])
    BY <1>4, <2>1, <2>3 DEF Unchanged, Same, Has
  <2>4. CASE head.files[r].version = 1 + LastVersion(base, r) /\ Has(base, r)
    <3>1. Has(main, r) /\ main.files[r] = base.files[r] /\ main.files[r].version \in Nat
      BY <1>4, <2>4 DEF Same, Has, Meet, IsCommit, WellFormed, IsFile
    <3>2. QED
      BY <2>1, <2>4, <3>1 DEF LastVersion
  <2>5. CASE head.files[r].version = 1 + LastVersion(base, r) /\ ~Has(base, r)
    <3>1. ~Has(main, r) /\ Has(head, r)
      BY <1>4, <2>1, <2>5 DEF Same, Has
    <3>2. head.files["targets"] # base.files["targets"] /\ head.files["targets"] # main.files["targets"]
      <4>1. /\ Follows(base, old) /\ Follows(main, config) /\ Follows(head, new)
            /\ Valid(old) /\ Valid(config) /\ Valid(new)
        BY DEF Meet, IsCommit, Succeeds
      <4>2. QED
        BY <2>5, <3>1, <4>1, TargetsFixRoles
    <3>3. main.files["targets"] = base.files["targets"]
      BY <1>1, <1>2, <3>2 DEF Same
    <3>4. SnapshotVersion(main, r) <= SnapshotVersion(base, r)
      BY <2>5, <3>3 DEF Meet, Later
    <3>5. SnapshotVersion(main, r) \in Nat /\ SnapshotVersion(base, r) \in Nat
      BY LastVersionIsNat DEF Meet, IsCommit
    <3>6. QED
      BY <2>1, <2>5, <3>1, <3>4, <3>5 DEF LastVersion
  <2>6. QED
    BY <2>1, <2>2, <2>3, <2>4, <2>5 DEF Meet, Succeeds, EventRoles
<1>5. QED
  BY <1>1, <1>3, <1>4

(* What a complete merge of an event makes of main: a commit that comes    *)
(* after it, with the same snapshot and timestamp.                         *)
LEMMA MergeIs ==
    ASSUME NEW base, NEW old, NEW main, NEW config, NEW head, NEW new,
           Meet(base, old, main, config, head, new),
           Valid(MergedConfig(old, config, new)),
           Complete(main, MergedRepo(base, main, head))
    PROVE  LET M == MergedRepo(base, main, head)
               C == MergedConfig(old, config, new)
           IN  /\ IsCommit(M, C)
               /\ \A r \in {"snapshot", "timestamp"} : M.files[r] = main.files[r]
               /\ Forward(main, M)
               /\ Later(main, M)
<1> DEFINE M == MergedRepo(base, main, head)
           C == MergedConfig(old, config, new)
<1>1. WellFormed(M) /\ Follows(M, C)
  BY MergeFollows
<1>2. \A r \in EventRoles(M) : RoleComplete(main, M, r)
  BY CompleteIs
<1>3. {"root", "targets", "snapshot", "timestamp"} \subseteq DOMAIN C.roles
  BY RolesOfConfig
<1>4. {"root", "targets", "snapshot", "timestamp"} \subseteq DOMAIN M.files
  BY <1>1, <1>3 DEF Follows
<1>5. Forward(main, M)
  BY MergeForward
<1>6. Chained(M)
  <2>1. RoleComplete(main, M, "root")
    BY <1>2, <1>4 DEF EventRoles
  <2>2. QED
    BY <2>1, MergeChained
<1>7. \A r \in {"snapshot", "timestamp"} : M.files[r] = main.files[r]
  <2>1. /\ \A r \in {"snapshot", "timestamp"} : head.files[r] = base.files[r]
        /\ {"snapshot", "timestamp"} \subseteq DOMAIN base.files
        /\ {"snapshot", "timestamp"} \subseteq DOMAIN head.files
        /\ {"snapshot", "timestamp"} \subseteq DOMAIN main.files
    BY RolesOfConfig DEF Meet, Succeeds, IsCommit, Follows
  <2>2. \A r : \/ Same(main.files, base.files, r) /\ Same(M.files, head.files, r)
               \/ Same(head.files, base.files, r) /\ Same(M.files, main.files, r)
               \/ Same(main.files, head.files, r) /\ Same(M.files, main.files, r)
    BY MergedFiles DEF Meet
  <2> HIDE DEF M
  <2>3. QED
    BY <2>1, <2>2 DEF Same
<1>8. \A r : SnapshotVersion(M, r) = SnapshotVersion(main, r) /\ SnapshotVersion(main, r) \in Nat
  <2>1. "snapshot" \in DOMAIN main.files
    BY RolesOfConfig DEF Meet, IsCommit, Follows
  <2>2. \A r : SnapshotVersion(main, r) \in Nat
    BY LastVersionIsNat DEF Meet, IsCommit
  <2>3. QED
    BY <1>4, <1>7, <2>1, <2>2 DEF SnapshotVersion, Has
<1>9. \A r \in {"root", "targets"} :
         /\ Has(main, r)
         /\ main.files[r].version \in Nat /\ M.files[r].version \in Nat
  BY <1>1, <1>4, RolesOfConfig DEF Meet, IsCommit, Follows, WellFormed, IsFile, Has
<1> HIDE DEF M, C
<1>10. Signed(M, C)
  <2> SUFFICES ASSUME NEW r \in EventRoles(M)
               PROVE  Met(M.files[r], RoleDefinition(C.roles[r]))
    BY DEF Signed
  <2>1. r \in DOMAIN C.roles
    BY <1>1 DEF EventRoles, Follows
  <2>2. RoleKeys(M, r) = RoleDefinition(C.roles[r])
    BY <1>1, <2>1, FollowsGivesKeys DEF C
  <2>3. QED
    BY <1>2, <2>2 DEF RoleComplete, Requirements
<1>11. Listing(M)
  <2>1. /\ IsMap(M.files["snapshot"].body)
        /\ \A r \in DOMAIN M.files["snapshot"].body : M.files["snapshot"].body[r] \in Nat
    BY <1>7 DEF Meet, IsCommit, Listing
  <2>2. ASSUME NEW r \in TargetsRoles(M)
        PROVE  SnapshotVersion(M, r) <= M.files[r].version
    <3>1. r \in DOMAIN M.files /\ r \notin {"root", "snapshot", "timestamp"}
      BY DEF TargetsRoles
    <3>2. M.files[r].version \in Nat
      BY <1>1, <3>1 DEF WellFormed, IsFile
    <3>3. CASE Has(main, r)
      <4>1. SnapshotVersion(main, r) <= main.files[r].version /\ main.files[r].version \in Nat
        BY <3>1, <3>3 DEF Meet, IsCommit, Listing, TargetsRoles, Has, WellFormed, IsFile
      <4>2. M.files[r] = main.files[r] \/ M.files[r].version > main.files[r].version
        BY <1>5, <3>1, <3>3 DEF Forward
      <4>3. QED
        BY <1>8, <3>2, <4>1, <4>2
    <3>4. CASE ~Has(main, r)
      BY <1>5, <1>8, <3>1, <3>2, <3>4 DEF Forward
    <3>5. QED
      BY <3>3, <3>4
  <2>3. QED
    BY <2>1, <2>2 DEF Listing
<1>12. Later(main, M)
  <2>1. \A r \in {"root", "targets"} :
           M.files[r] = main.files[r] \/ M.files[r].version > main.files[r].version
    BY <1>4, <1>5, <1>9 DEF Forward
  <2>2. \A n \in DOMAIN main.history : n \in DOMAIN M.history /\ M.history[n] = main.history[n]
    BY MergedHistory DEF M
  <2>3. QED
    BY <1>8, <1>9, <2>1, <2>2 DEF Later
<1>13. QED
  BY <1>1, <1>5, <1>6, <1>7, <1>10, <1>11, <1>12 DEF IsCommit, M, C
===============================================================================
