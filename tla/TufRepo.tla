------------------------------- MODULE TufRepo -------------------------------
(***************************************************************************)
(* The metadata of one commit, and every operation on it:                  *)
(* tufops-core/src/repo.rs, with `sign_online` of tufops-cloud/src/lib.rs. *)
(*                                                                         *)
(* A repository is a record                                                *)
(*   files   : role name -> file, the roles present                        *)
(*   history : root version -> file, metadata/root_history                 *)
(* and a file is [version, expires, sigs, body], `sigs` being the keys     *)
(* with a valid signature on this version. The body of a role is           *)
(*   root             : top-level role -> [keys, threshold]                *)
(*   targets roles    : [targets, delegations], the listed target paths    *)
(*                      with their description, and the delegations in     *)
(*                      search order (none but in `targets`)               *)
(*   snapshot         : targets role -> the version it lists               *)
(*   timestamp        : the snapshot version it lists                      *)
(* Operations are functions of the repository: an operation the code       *)
(* refuses is guarded where it is called.                                  *)
(***************************************************************************)
EXTENDS TufConfig

(* Maps: `old` with the entries of `new` inserted, and a map of one entry. *)
Over(new, old) ==
    [x \in DOMAIN new \cup DOMAIN old |-> IF x \in DOMAIN new THEN new[x] ELSE old[x]]

Entry(x, value) == [y \in {x} |-> value]

EmptyRepo == [files |-> <<>>, history |-> <<>>]

Has(repo, role) == role \in DOMAIN repo.files

(* `put`: the files in `new` replace their roles', and a root also goes to *)
(* the history under its version.                                          *)
With(repo, new) ==
    [files   |-> Over(new, repo.files),
     history |-> IF "root" \in DOMAIN new
                 THEN Over(Entry(new["root"].version, new["root"]), repo.history)
                 ELSE repo.history]

\* `targets` and the roles delegated from it.
TargetsRoles(repo) == DOMAIN repo.files \ {"root", "snapshot", "timestamp"}

\* What signing events sign; CI signs snapshot and timestamp on main.
EventRoles(repo) == DOMAIN repo.files \ {"snapshot", "timestamp"}

Delegations(repo) == repo.files["targets"].body.delegations

(* Threshold and keys of `role`: from root for the top-level roles, else   *)
(* from the delegation in `targets`. `role_keys` fails unless HasKeys.     *)
HasKeys(repo, role) ==
    IF role \in TopLevel
    THEN Has(repo, "root")
    ELSE /\ Has(repo, "targets")
         /\ \E d \in ToSet(Delegations(repo)) : d.name = role

RoleKeys(repo, role) ==
    IF role \in TopLevel
    THEN repo.files["root"].body[role]
    ELSE LET d == CHOOSE d \in ToSet(Delegations(repo)) : d.name = role
         IN  [keys |-> d.keys, threshold |-> d.threshold]

\* Mutant: the previous root's keys need not sign.
Requirements_OwnOnly(repo, base, role) == {RoleKeys(repo, role)}

(* A new root version must also be signed by a threshold of the previous   *)
(* root's keys.                                                            *)
Requirements(repo, base, role) ==
    {RoleKeys(repo, role)} \cup
    (IF role = "root" /\ Has(base, "root") /\ base.files["root"] # repo.files["root"]
     THEN {RoleKeys(base, "root")}
     ELSE {})

SignedBy(file, keys) == file.sigs \cap keys

Met(file, req) == Cardinality(SignedBy(file, req.keys)) >= req.threshold

\* Clients with this repository's root accept `file` as a version of `role`.
Trusts(repo, role, file) == Met(file, RoleKeys(repo, role))

(* All unsigned keys of every requirement not met yet. *)
MissingKeys(repo, base, role) ==
    UNION {req.keys \ repo.files[role].sigs :
             req \in {r \in Requirements(repo, base, role) : ~Met(repo.files[role], r)}}

\* `sign` of each of `roles` with `key`, which is one of its missing keys.
Sign(repo, roles, key) ==
    With(repo, [r \in roles |-> [repo.files[r] EXCEPT !.sigs = @ \cup {key}]])

(* Each of `roles` gets the signatures of the online keys it still needs. *)
SignOnline(config, base, repo, roles) ==
    With(repo, [r \in roles |->
        [repo.files[r] EXCEPT !.sigs = @ \cup (MissingKeys(repo, base, r) \cap config.online)]])

-------------------------------------------------------------------------------
(* New versions of roles *)

\* The version the snapshot lists for `role`, or 0.
SnapshotVersion(repo, role) ==
    IF Has(repo, "snapshot") /\ role \in DOMAIN repo.files["snapshot"].body
    THEN repo.files["snapshot"].body[role]
    ELSE 0

\* Mutants of NeedsVersion: some of its reasons are forgotten.
NeedsVersion_IgnoresKeys(repo, base, role, body, config, previous, now) ==
    \/ ~Has(repo, role)
    \/ repo.files[role].body # body
    \/ InSigningPeriod(config.roles[role], repo.files[role].expires, now)

NeedsVersion_IgnoresExpiry(repo, base, role, body, config, previous, now) ==
    \/ ~Has(repo, role)
    \/ repo.files[role].body # body
    \/ MissingKeys(repo, base, role) # {}

(* When `update` starts a new version of `role` with content `body`. *)
NeedsVersion(repo, base, role, body, config, previous, now) ==
    \/ ~Has(repo, role)
    \/ LET cur == repo.files[role]
           rc  == config.roles[role]
       IN  \/ cur.body # body
           \/ /\ role \in DOMAIN previous.roles
              /\ previous.roles[role].expires # rc.expires
           \/ /\ Has(base, role)
              /\ base.files[role].version = cur.version
              /\ MissingKeys(repo, base, role) # {}
           \/ InSigningPeriod(rc, cur.expires, now)

\* Mutant: a role that `base` lacks starts at version 1.
NewVersion_FromOne(base, role, body, config, now) ==
    [version |-> 1 + (IF Has(base, role) THEN base.files[role].version ELSE 0),
     expires |-> now + config.roles[role].expires, sigs |-> {}, body |-> body]

\* Mutant: the new version expires when the old one did.
NewVersion_KeepsExpiry(base, role, body, config, now) ==
    [version |-> 1 + (IF Has(base, role)
                      THEN base.files[role].version
                      ELSE SnapshotVersion(base, role)),
     expires |-> IF Has(base, role)
                 THEN base.files[role].expires
                 ELSE now + config.roles[role].expires,
     sigs    |-> {}, body |-> body]

(* One more than the version in `base` or, for a role it lacks, than the   *)
(* version its snapshot still lists. Unsigned.                             *)
NewVersion(base, role, body, config, now) ==
    [version |-> 1 + (IF Has(base, role)
                      THEN base.files[role].version
                      ELSE SnapshotVersion(base, role)),
     expires |-> now + config.roles[role].expires,
     sigs    |-> {},
     body    |-> body]

(* `update` of every role in DOMAIN bodies. Their keys must not depend on  *)
(* one another, so root and `targets` each go before the roles they        *)
(* authorize.                                                              *)
Update(repo, base, bodies, config, previous, now) ==
    LET due == {r \in DOMAIN bodies :
                  NeedsVersion(repo, base, r, bodies[r], config, previous, now)}
    IN  With(repo, [r \in due |-> NewVersion(base, r, bodies[r], config, now)])

\* The roles an operation reports as changed.
Changed(old, new) ==
    {r \in DOMAIN old.files \cup DOMAIN new.files :
       \/ Has(old, r) # Has(new, r)
       \/ old.files[r] # new.files[r]}

-------------------------------------------------------------------------------
(* Where targets belong *)

\* The first delegation whose paths match, else `targets`.
DelegatedRole(delegations, path) ==
    LET i == SelectInSeq(delegations, LAMBDA d : path \in d.paths)
    IN  IF i = 0 THEN "targets" ELSE delegations[i].name

TargetsOf(repo, role) == repo.files[role].body.targets

Listers(repo, path) == {r \in TargetsRoles(repo) : path \in DOMAIN TargetsOf(repo, r)}

ListedPaths(repo) == UNION {DOMAIN TargetsOf(repo, r) : r \in TargetsRoles(repo)}

(* Whatever roles list `path`, they list it as the same file.              *)
ListedAlike(repo, path) ==
    \A r1, r2 \in Listers(repo, path) : TargetsOf(repo, r1)[path] = TargetsOf(repo, r2)[path]

(* The description of a listed path: should several roles list it, that of *)
(* the role it belongs in under `delegations`.                             *)
Description(repo, delegations, path) ==
    LET owner == DelegatedRole(delegations, path)
        from  == IF owner \in Listers(repo, path)
                 THEN owner
                 ELSE CHOOSE r \in Listers(repo, path) : TRUE
    IN  TargetsOf(repo, from)[path]

ListedTargets(repo) ==
    [p \in ListedPaths(repo) |-> Description(repo, Delegations(repo), p)]

(* What a client gets for `path`: it looks in no other role than the one   *)
(* the delegations send it to.                                             *)
ClientFinds(repo, path) ==
    LET role == DelegatedRole(Delegations(repo), path)
    IN  IF Has(repo, role) /\ path \in DOMAIN TargetsOf(repo, role)
        THEN {TargetsOf(repo, role)[path]}
        ELSE {}

-------------------------------------------------------------------------------
(* apply_config *)

RoleDefinition(rc) == [keys |-> rc.keys, threshold |-> rc.threshold]

RootBody(config) == [r \in TopLevel |-> RoleDefinition(config.roles[r])]

ConfigDelegations(config) ==
    [i \in DOMAIN config.order |->
       LET rc == config.roles[config.order[i]]
       IN  [name |-> config.order[i], keys |-> rc.keys,
            threshold |-> rc.threshold, paths |-> rc.paths]]

\* Mutant: a role only keeps what it lists itself.
Regrouped_OwnOnly(repo, delegations, role) ==
    [p \in {p \in ListedPaths(repo) :
              DelegatedRole(delegations, p) = role /\ role \in Listers(repo, p)} |->
       Description(repo, delegations, p)]

\* All targets that belong in `role` under `delegations`, whoever lists them.
Regrouped(repo, delegations, role) ==
    [p \in {p \in ListedPaths(repo) : DelegatedRole(delegations, p) = role} |->
       Description(repo, delegations, p)]

WithoutRolesNotIn(config, repo) ==
    [repo EXCEPT !.files = [r \in DOMAIN @ \cap (TopLevel \cup DOMAIN config.roles) |-> @[r]]]

(* Root first, then `targets`, then the delegated roles. *)
ApplyDelegations(repo, config, dels, previous, base, now) ==
    LET Body(role, d) == [targets |-> Regrouped(repo, dels, role), delegations |-> d]
        rooted == Update(repo, base, Entry("root", RootBody(config)), config, previous, now)
        kept   == WithoutRolesNotIn(config, rooted)
        top    == Update(kept, base, Entry("targets", Body("targets", dels)), config, previous, now)
    IN  Update(top, base, [r \in ToSet(config.order) |-> Body(r, <<>>)], config, previous, now)

\* Mutant: clients search new roles after those there were.
ApplyConfig_NewRolesLast(repo, config, previous, base, now) ==
    LET IsNew(d) == ~Has(repo, d.name)
        IsOld(d) == Has(repo, d.name)
        dels == ConfigDelegations(config)
    IN  ApplyDelegations(repo, config, SelectSeq(dels, IsOld) \o SelectSeq(dels, IsNew),
                         previous, base, now)

ApplyConfig(repo, config, previous, base, now) ==
    ApplyDelegations(repo, config, ConfigDelegations(config), previous, base, now)

-------------------------------------------------------------------------------
(* add_targets, remove_targets, update_online, with_roles_from *)

(* `new` maps target paths to descriptions. *)
AddTargets(repo, config, base, new, now) ==
    LET Goes(p) == DelegatedRole(Delegations(repo), p)
        Into(r) == [p \in {p \in DOMAIN new : Goes(p) = r} |-> new[p]]
    IN  Update(repo, base,
               [r \in {Goes(p) : p \in DOMAIN new} |->
                  [repo.files[r].body EXCEPT !.targets = Over(Into(r), @)]],
               config, NoConfig, now)

RemoveTargets(repo, config, base, paths, now) ==
    LET holders == {r \in TargetsRoles(repo) : DOMAIN TargetsOf(repo, r) \cap paths # {}}
    IN  Update(repo, base,
               [r \in holders |->
                  [repo.files[r].body EXCEPT !.targets = [p \in DOMAIN @ \ paths |-> @[p]]]],
               config, NoConfig, now)

\* Mutant: the snapshot always starts over.
SnapshotBody_CurrentOnly(repo) ==
    [r \in TargetsRoles(repo) |-> repo.files[r].version]

\* Mutant: the snapshot never starts over.
SnapshotBody_Everything(repo) ==
    Over([r \in TargetsRoles(repo) |-> repo.files[r].version],
         IF Has(repo, "snapshot") THEN repo.files["snapshot"].body ELSE <<>>)

(* The roles listed so far stay listed while this root trusts the snapshot *)
(* that lists them.                                                        *)
SnapshotBody(repo) ==
    Over([r \in TargetsRoles(repo) |-> repo.files[r].version],
         IF Has(repo, "snapshot") /\ Trusts(repo, "snapshot", repo.files["snapshot"])
         THEN repo.files["snapshot"].body
         ELSE <<>>)

\* Mutant: the timestamp lists the snapshot there was, not the new one.
UpdateOnline_OldSnapshot(repo, config, previous, now) ==
    LET Online(r, bodies) == Update(r, repo, bodies, config, previous, now)
        snap == Online(repo, Entry("snapshot", SnapshotBody(repo)))
    IN  Online(snap, Entry("timestamp",
                 (IF Has(repo, "snapshot") THEN repo ELSE snap).files["snapshot"].version))

UpdateOnline(repo, config, previous, now) ==
    LET Online(r, bodies) == Update(r, repo, bodies, config, previous, now)
        mine == {r \in TargetsRoles(repo) : CiSigns(config, r)}
        r1   == Online(repo, [r \in mine |-> repo.files[r].body])
        r2   == Online(r1, Entry("snapshot", SnapshotBody(r1)))
    IN  Online(r2, Entry("timestamp", r2.files["snapshot"].version))

(* `repo` with `roles` as they are in `other`, and root's history too when *)
(* root is among them.                                                     *)
WithRolesFrom(repo, other, roles) ==
    [files |-> [r \in (DOMAIN repo.files \ roles) \cup (DOMAIN other.files \cap roles) |->
                  IF r \in roles THEN other.files[r] ELSE repo.files[r]],
     history |-> IF "root" \in roles THEN other.history ELSE repo.history]
==============================================================================
