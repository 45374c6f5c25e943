------------------------------ MODULE RepoProofs ------------------------------
(***************************************************************************)
(* Lemmas about the operations on a repository (TufRepo): what they change *)
(* of its files and of the history of root.                                *)
(***************************************************************************)
EXTENDS EventStatus, TufVerify, GitMerge, WellFoundedInduction, TLAPS

IsMap(f) == f = [x \in DOMAIN f |-> f[x]]

IsFile(file) ==
    /\ file = [version |-> file.version, expires |-> file.expires,
               sigs |-> file.sigs, body |-> file.body]
    /\ file.version \in Nat \ {0}
    /\ file.expires \in Nat

WellFormed(repo) ==
    /\ repo = [files |-> repo.files, history |-> repo.history]
    /\ IsMap(repo.files) /\ IsMap(repo.history)
    /\ \A r \in DOMAIN repo.files : IsFile(repo.files[r])

-------------------------------------------------------------------------------
(* Maps *)

(* `Over` has the entries of both maps, and for a key in both, the new one. *)
LEMMA OverIs ==
    ASSUME NEW new, NEW old
    PROVE  /\ \A x : x \in DOMAIN Over(new, old) <=> x \in DOMAIN new \/ x \in DOMAIN old
           /\ \A x \in DOMAIN new : Over(new, old)[x] = new[x]
           /\ \A x \in DOMAIN old : x \notin DOMAIN new => Over(new, old)[x] = old[x]
           /\ IsMap(Over(new, old))
BY DEF Over, IsMap

(* A map of one entry has that entry. *)
LEMMA EntryIs ==
    ASSUME NEW x, NEW value
    PROVE  /\ \A y : y \in DOMAIN Entry(x, value) <=> y = x
           /\ Entry(x, value)[x] = value
BY DEF Entry

(* Nothing changes when there is nothing to insert. *)
LEMMA OverNothing ==
    ASSUME NEW new, NEW old, DOMAIN new = {}, IsMap(old)
    PROVE  Over(new, old) = old
BY DEF Over, IsMap

-------------------------------------------------------------------------------
(* put *)

(* What `put` changes: the roles it is given, and the history if root is   *)
(* one of them.                                                            *)
LEMMA WithIs ==
    ASSUME NEW repo, NEW new
    PROVE  /\ With(repo, new) = [files |-> With(repo, new).files,
                                 history |-> With(repo, new).history]
           /\ \A r : r \in DOMAIN With(repo, new).files <=> r \in DOMAIN new \/ r \in DOMAIN repo.files
           /\ IsMap(With(repo, new).files)
           /\ \A r \in DOMAIN new : With(repo, new).files[r] = new[r]
           /\ \A r \in DOMAIN repo.files : r \notin DOMAIN new => With(repo, new).files[r] = repo.files[r]
           /\ "root" \in DOMAIN new =>
                With(repo, new).history
                    = Over(Entry(new["root"].version, new["root"]), repo.history)
           /\ "root" \notin DOMAIN new => With(repo, new).history = repo.history
<1>1. With(repo, new).files = Over(new, repo.files)
  BY DEF With
<1>2. With(repo, new) = [files |-> With(repo, new).files, history |-> With(repo, new).history]
  BY DEF With
<1>3. "root" \in DOMAIN new =>
        With(repo, new).history = Over(Entry(new["root"].version, new["root"]), repo.history)
  BY DEF With
<1>4. "root" \notin DOMAIN new => With(repo, new).history = repo.history
  BY DEF With
<1>5. /\ \A r : r \in DOMAIN With(repo, new).files <=> r \in DOMAIN new \/ r \in DOMAIN repo.files
      /\ IsMap(With(repo, new).files)
      /\ \A r \in DOMAIN new : With(repo, new).files[r] = new[r]
      /\ \A r \in DOMAIN repo.files : r \notin DOMAIN new => With(repo, new).files[r] = repo.files[r]
  BY <1>1, OverIs
<1>6. QED
  BY <1>2, <1>3, <1>4, <1>5

(* To put nothing is to do nothing. *)
LEMMA WithNothing ==
    ASSUME NEW repo, NEW new, DOMAIN new = {}, WellFormed(repo)
    PROVE  With(repo, new) = repo
BY OverNothing DEF With, WellFormed

-------------------------------------------------------------------------------
(* update *)

(* `update` gives the roles that are due a new version, and leaves alone    *)
(* everything else.                                                        *)
LEMMA UpdateIs ==
    ASSUME NEW repo, NEW base, NEW bodies, NEW config, NEW previous, NEW now
    PROVE  LET U == Update(repo, base, bodies, config, previous, now)
               Due(r) == NeedsVersion(repo, base, r, bodies[r], config, previous, now)
               New(r) == NewVersion(base, r, bodies[r], config, now)
           IN  /\ U = [files |-> U.files, history |-> U.history]
               /\ IsMap(U.files)
               /\ \A r : r \in DOMAIN U.files <=> r \in DOMAIN bodies \/ r \in DOMAIN repo.files
               /\ \A r \in DOMAIN bodies :
                     \/ Due(r) /\ U.files[r] = New(r)
                     \/ ~Due(r) /\ Has(repo, r) /\ U.files[r] = repo.files[r]
               /\ \A r \in DOMAIN repo.files : r \notin DOMAIN bodies => U.files[r] = repo.files[r]
               /\ "root" \in DOMAIN bodies /\ Due("root") =>
                     U.history = Over(Entry(New("root").version, New("root")), repo.history)
               /\ ~("root" \in DOMAIN bodies /\ Due("root")) => U.history = repo.history
<1> DEFINE U == Update(repo, base, bodies, config, previous, now)
           Due(r) == NeedsVersion(repo, base, r, bodies[r], config, previous, now)
           New(r) == NewVersion(base, r, bodies[r], config, now)
           due == {r \in DOMAIN bodies : Due(r)}
           new == [r \in due |-> New(r)]
<1>1. U = With(repo, new)
  BY DEF Update
<1>2. \A r \in DOMAIN bodies \ due : Has(repo, r)
  BY DEF NeedsVersion
<1>3. /\ DOMAIN new = due
      /\ \A r \in due : new[r] = New(r)
  OBVIOUS
<1> HIDE DEF new, New, Due, U
<1>4. /\ U = [files |-> U.files, history |-> U.history]
      /\ IsMap(U.files)
      /\ \A r : r \in DOMAIN U.files <=> r \in due \/ r \in DOMAIN repo.files
      /\ \A r \in due : U.files[r] = New(r)
      /\ \A r \in DOMAIN repo.files : r \notin due => U.files[r] = repo.files[r]
      /\ "root" \in due => U.history = Over(Entry(New("root").version, New("root")), repo.history)
      /\ "root" \notin due => U.history = repo.history
  BY <1>1, <1>3, WithIs
<1>5. \A r : r \in DOMAIN U.files <=> r \in DOMAIN bodies \/ r \in DOMAIN repo.files
  BY <1>2, <1>4 DEF Has
<1>6. \A r \in DOMAIN bodies :
         \/ Due(r) /\ U.files[r] = New(r)
         \/ ~Due(r) /\ Has(repo, r) /\ U.files[r] = repo.files[r]
  BY <1>2, <1>4 DEF Has
<1>7. QED
  BY <1>4, <1>5, <1>6 DEF U, New, Due

-------------------------------------------------------------------------------
(* Keys *)

(* The root that a config describes gives top-level roles the config's keys. *)
LEMMA RootGivesKeys ==
    ASSUME NEW repo, NEW config, NEW r \in TopLevel,
           Has(repo, "root"), repo.files["root"].body = RootBody(config)
    PROVE  HasKeys(repo, r) /\ RoleKeys(repo, r) = RoleDefinition(config.roles[r])
BY DEF HasKeys, RoleKeys, RootBody

(* The delegations that a config describes give each role the config's keys:*)
(* no two of them have the same name.                                      *)
LEMMA DelegationGivesKeys ==
    ASSUME NEW repo, NEW config, Valid(config), NEW r \in DOMAIN config.roles, r \notin TopLevel,
           Has(repo, "targets"), Delegations(repo) = ConfigDelegations(config)
    PROVE  HasKeys(repo, r) /\ RoleKeys(repo, r) = RoleDefinition(config.roles[r])
<1> DEFINE dels == ConfigDelegations(config)
           order == config.order
<1>1. PICK i \in DOMAIN order : order[i] = r
  BY DEF Valid, ToSet
<1>2. \A j \in DOMAIN order : order[j] = r => j = i
  BY <1>1 DEF Valid, IsInjective
<1>3. /\ DOMAIN dels = DOMAIN order
      /\ \A j \in DOMAIN order : dels[j].name = order[j]
      /\ dels[i].keys = config.roles[r].keys /\ dels[i].threshold = config.roles[r].threshold
  BY <1>1 DEF ConfigDelegations
<1> HIDE DEF dels, order
<1>4. \A d \in ToSet(dels) : d.name = r <=> d = dels[i]
  BY <1>1, <1>2, <1>3 DEF ToSet
<1>5. dels[i] \in ToSet(dels)
  BY <1>1, <1>3 DEF ToSet
<1>6. (CHOOSE d \in ToSet(dels) : d.name = r) = dels[i]
  BY <1>4, <1>5
<1>7. HasKeys(repo, r)
  BY <1>4, <1>5 DEF HasKeys, dels
<1>8. RoleKeys(repo, r) = RoleDefinition(config.roles[r])
  BY <1>3, <1>6 DEF RoleKeys, RoleDefinition, dels
<1>9. QED
  BY <1>7, <1>8

-------------------------------------------------------------------------------
(* Signatures *)

(* No key is missing exactly when every requirement is met, as none needs  *)
(* more keys than it has.                                                  *)
LEMMA NoneMissing ==
    ASSUME NEW repo, NEW base, NEW role,
           \A req \in Requirements(repo, base, role) : Cardinality(req.keys) >= req.threshold
    PROVE  MissingKeys(repo, base, role) = {}
             <=> \A req \in Requirements(repo, base, role) : Met(repo.files[role], req)
<1> DEFINE file == repo.files[role]
           reqs == Requirements(repo, base, role)
           missing == MissingKeys(repo, base, role)
<1>1. \A k : k \in missing <=> \E req \in reqs : ~Met(file, req) /\ k \in req.keys /\ k \notin file.sigs
  BY DEF MissingKeys
<1> HIDE DEF file, reqs, missing
<1>2. ASSUME missing = {}, NEW req \in reqs
      PROVE  Met(file, req)
  <2>1. SUFFICES ASSUME ~Met(file, req) PROVE FALSE
    OBVIOUS
  <2>2. \A k \in req.keys : k \in file.sigs
    BY <1>1, <1>2, <2>1
  <2>3. SignedBy(file, req.keys) = req.keys
    BY <2>2 DEF SignedBy
  <2>4. QED
    BY <2>1, <2>3 DEF Met, reqs
<1>3. ASSUME \A req \in reqs : Met(file, req)
      PROVE  missing = {}
  BY <1>1, <1>3
<1>4. QED
  BY <1>2, <1>3 DEF file, reqs, missing

(* A threshold that a role has is one its keys can meet. *)
LEMMA ThresholdsFit ==
    ASSUME NEW config, Valid(config), NEW r \in DOMAIN config.roles
    PROVE  LET req == RoleDefinition(config.roles[r])
           IN  /\ req.keys = config.roles[r].keys
               /\ req.threshold \in Nat \ {0}
               /\ Cardinality(req.keys) >= req.threshold
BY DEF Valid, ValidRole, RoleDefinition

(* A role that is not a new root needs its own keys only, which the config *)
(* gives it.                                                               *)
LEMMA OwnKeysSuffice ==
    ASSUME NEW repo, NEW base, NEW config, Valid(config), NEW role \in DOMAIN config.roles,
           RoleKeys(repo, role) = RoleDefinition(config.roles[role]),
           role # "root" \/ base.files["root"] = repo.files["root"]
    PROVE  /\ MissingKeys(repo, base, role) = {}
                <=> Met(repo.files[role], RoleDefinition(config.roles[role]))
           /\ \A req : req \in Requirements(repo, base, role)
                <=> req = RoleDefinition(config.roles[role])
<1>1. \A req : req \in Requirements(repo, base, role) <=> req = RoleDefinition(config.roles[role])
  BY DEF Requirements
<1>2. MissingKeys(repo, base, role) = {}
        <=> \A req \in Requirements(repo, base, role) : Met(repo.files[role], req)
  BY <1>1, ThresholdsFit, NoneMissing
<1>3. QED
  BY <1>1, <1>2

-------------------------------------------------------------------------------
(* apply_config *)

\* What `apply_config` makes the content of a role that people sign.
NewBody(repo, config, r) ==
    IF r = "root"
    THEN RootBody(config)
    ELSE [targets     |-> Regrouped(repo, ConfigDelegations(config), r),
          delegations |-> IF r = "targets" THEN ConfigDelegations(config) ELSE <<>>]

\* The role is as it was, since `update` finds no reason for a new version.
Kept(repo, config, r, body, new, now) ==
    /\ Has(repo, r) /\ new = repo.files[r] /\ repo.files[r].body = body
    /\ Met(repo.files[r], RoleDefinition(config.roles[r]))
    /\ ~InSigningPeriod(config.roles[r], repo.files[r].expires, now)

(* What `update` finds no reason to renew is complete, with the content and *)
(* the keys it ought to have.                                              *)
LEMMA NotDueIsKept ==
    ASSUME NEW repo, NEW base, NEW config, NEW previous, NEW now, NEW body,
           Valid(config), NEW r \in DOMAIN config.roles,
           ~NeedsVersion(repo, base, r, body, config, previous, now),
           Has(base, r), repo.files[r] = base.files[r],
           RoleKeys(repo, r) = RoleDefinition(config.roles[r]),
           r # "root" \/ base.files["root"] = repo.files["root"]
    PROVE  Kept(base, config, r, body, repo.files[r], now)
<1>1. /\ repo.files[r].body = body
      /\ ~InSigningPeriod(config.roles[r], repo.files[r].expires, now)
      /\ MissingKeys(repo, base, r) = {}
  BY DEF NeedsVersion
<1>2. Met(repo.files[r], RoleDefinition(config.roles[r]))
  BY <1>1, OwnKeysSuffice
<1>3. QED
  BY <1>1, <1>2 DEF Kept

(* `apply_config`, role by role: each role that people sign is either kept *)
(* or new, and the others stay as they were.                               *)
LEMMA ApplyIs ==
    ASSUME NEW repo, NEW config, NEW previous, NEW now, Valid(config)
    PROVE  LET H == ApplyConfig(repo, config, previous, repo, now)
               Body(r) == NewBody(repo, config, r)
               IsNew(r) == H.files[r] = NewVersion(repo, r, Body(r), config, now)
           IN  /\ H = [files |-> H.files, history |-> H.history]
               /\ IsMap(H.files)
               /\ \A r : r \in DOMAIN H.files <=>
                    /\ r \in DOMAIN config.roles
                    /\ r \in {"snapshot", "timestamp"} => Has(repo, r)
               /\ \A r \in {"snapshot", "timestamp"} : Has(repo, r) => H.files[r] = repo.files[r]
               /\ \A r \in DOMAIN config.roles :
                    r \notin {"snapshot", "timestamp"} =>
                        Kept(repo, config, r, Body(r), H.files[r], now) \/ IsNew(r)
               /\ \/ /\ Kept(repo, config, "root", Body("root"), H.files["root"], now)
                     /\ H.history = repo.history
                  \/ /\ IsNew("root")
                     /\ H.history = Over(Entry(H.files["root"].version, H.files["root"]),
                                         repo.history)
<1> DEFINE dels == ConfigDelegations(config)
           Body(r) == NewBody(repo, config, r)
           New(r) == NewVersion(repo, r, Body(r), config, now)
           rootBody == Entry("root", RootBody(config))
           rooted == Update(repo, repo, rootBody, config, previous, now)
           kept == WithoutRolesNotIn(config, rooted)
           topBody == Entry("targets", [targets |-> Regrouped(repo, dels, "targets"), delegations |-> dels])
           top == Update(kept, repo, topBody, config, previous, now)
           bodies == [r \in ToSet(config.order) |->
                        [targets |-> Regrouped(repo, dels, r), delegations |-> <<>>]]
           H == Update(top, repo, bodies, config, previous, now)
<1>1. ApplyConfig(repo, config, previous, repo, now) = H
  BY DEF ApplyConfig, ApplyDelegations
<1>2. /\ \A r : r \in DOMAIN config.roles <=> r \in TopLevel \/ r \in ToSet(config.order)
      /\ \A r \in ToSet(config.order) : r \notin TopLevel
  BY DEF Valid
<1>3. /\ \A r : r \in DOMAIN rootBody <=> r = "root"
      /\ rootBody["root"] = Body("root")
  BY EntryIs DEF NewBody
<1>4. /\ \A r : r \in DOMAIN topBody <=> r = "targets"
      /\ topBody["targets"] = Body("targets")
  BY EntryIs DEF NewBody
<1>5. /\ \A r : r \in DOMAIN bodies <=> r \in ToSet(config.order)
      /\ \A r \in ToSet(config.order) : bodies[r] = Body(r)
  BY <1>2 DEF NewBody, TopLevel
<1> HIDE DEF rootBody, topBody, bodies, dels
<1>6. /\ \A r : Has(rooted, r) <=> r = "root" \/ Has(repo, r)
      /\ \A r : r # "root" /\ Has(repo, r) => rooted.files[r] = repo.files[r]
      /\ rooted = [files |-> rooted.files, history |-> rooted.history]
      /\ \/ /\ ~NeedsVersion(repo, repo, "root", Body("root"), config, previous, now)
            /\ Has(repo, "root") /\ rooted.files["root"] = repo.files["root"]
            /\ rooted.history = repo.history
         \/ /\ rooted.files["root"] = New("root")
            /\ rooted.history = Over(Entry(New("root").version, New("root")), repo.history)
  BY <1>3, UpdateIs DEF Has
<1> HIDE DEF rooted
<1>7. /\ \A r : Has(kept, r) <=> Has(rooted, r) /\ (r \in TopLevel \/ r \in DOMAIN config.roles)
      /\ \A r : Has(kept, r) => kept.files[r] = rooted.files[r]
      /\ kept.history = rooted.history
  BY <1>6 DEF WithoutRolesNotIn, Has
<1> HIDE DEF kept
<1>8. /\ \A r : Has(top, r) <=> r = "targets" \/ Has(kept, r)
      /\ \A r : r # "targets" /\ Has(kept, r) => top.files[r] = kept.files[r]
      /\ top.history = kept.history
      /\ \/ /\ ~NeedsVersion(kept, repo, "targets", Body("targets"), config, previous, now)
            /\ Has(kept, "targets") /\ top.files["targets"] = kept.files["targets"]
         \/ top.files["targets"] = New("targets")
  BY <1>4, UpdateIs DEF Has
<1> HIDE DEF top
<1>9. /\ \A r : Has(H, r) <=> r \in ToSet(config.order) \/ Has(top, r)
      /\ \A r : r \notin ToSet(config.order) /\ Has(top, r) => H.files[r] = top.files[r]
      /\ H.history = top.history
      /\ H = [files |-> H.files, history |-> H.history]
      /\ IsMap(H.files)
      /\ \A r \in ToSet(config.order) :
            \/ /\ ~NeedsVersion(top, repo, r, Body(r), config, previous, now)
               /\ Has(top, r) /\ H.files[r] = top.files[r]
            \/ H.files[r] = New(r)
  BY <1>2, <1>5, UpdateIs DEF Has, TopLevel
<1> HIDE DEF H
<1>10. /\ Has(rooted, "root") /\ Has(kept, "root") /\ Has(top, "root") /\ Has(H, "root")
       /\ kept.files["root"] = rooted.files["root"]
       /\ top.files["root"] = rooted.files["root"]
       /\ H.files["root"] = rooted.files["root"]
       /\ H.history = rooted.history
  BY <1>2, <1>6, <1>7, <1>8, <1>9 DEF TopLevel
<1>11. "root" \in DOMAIN config.roles /\ "targets" \in DOMAIN config.roles
  BY <1>2 DEF TopLevel
<1>12. rooted.files["root"].body = RootBody(config)
  BY <1>6 DEF NeedsVersion, NewVersion, NewBody
<1>13. \/ /\ Kept(repo, config, "root", Body("root"), H.files["root"], now)
          /\ H.history = repo.history
       \/ /\ H.files["root"] = New("root")
          /\ H.history = Over(Entry(H.files["root"].version, H.files["root"]), repo.history)
  <2>1. ASSUME ~NeedsVersion(repo, repo, "root", Body("root"), config, previous, now),
               Has(repo, "root")
        PROVE  Kept(repo, config, "root", Body("root"), repo.files["root"], now)
    <3>1. repo.files["root"].body = RootBody(config)
      BY <2>1 DEF NeedsVersion, NewBody
    <3>2. RoleKeys(repo, "root") = RoleDefinition(config.roles["root"])
      BY <2>1, <3>1, RootGivesKeys DEF TopLevel
    <3>3. QED
      BY <1>11, <2>1, <3>2, NotDueIsKept
  <2>2. QED
    BY <1>6, <1>10, <2>1
<1>14. \/ Kept(repo, config, "targets", Body("targets"), H.files["targets"], now)
       \/ H.files["targets"] = New("targets")
  <2>1. Has(top, "targets") /\ H.files["targets"] = top.files["targets"]
    BY <1>2, <1>8, <1>9 DEF TopLevel
  <2>2. ASSUME ~NeedsVersion(kept, repo, "targets", Body("targets"), config, previous, now),
               Has(kept, "targets"), top.files["targets"] = kept.files["targets"]
        PROVE  Kept(repo, config, "targets", Body("targets"), H.files["targets"], now)
    <3>1. Has(repo, "targets") /\ kept.files["targets"] = repo.files["targets"]
      BY <1>6, <1>7, <2>2
    <3>2. RoleKeys(kept, "targets") = RoleDefinition(config.roles["targets"])
      BY <1>10, <1>12, RootGivesKeys DEF TopLevel
    <3>3. Kept(repo, config, "targets", Body("targets"), kept.files["targets"], now)
      BY <1>11, <2>2, <3>1, <3>2, NotDueIsKept
    <3>4. QED
      BY <2>1, <2>2, <3>3
  <2>3. QED
    BY <1>8, <2>1, <2>2
<1>15. ASSUME NEW r \in ToSet(config.order)
       PROVE  \/ Kept(repo, config, r, Body(r), H.files[r], now)
              \/ H.files[r] = New(r)
  <2>1. /\ r \in DOMAIN config.roles /\ r \notin TopLevel /\ r # "root" /\ r # "targets"
        /\ Has(top, "targets")
    BY <1>2, <1>8 DEF TopLevel
  <2>2. Delegations(top) = dels
    BY <1>8 DEF NeedsVersion, NewVersion, NewBody, Delegations, dels
  <2>3. ASSUME ~NeedsVersion(top, repo, r, Body(r), config, previous, now),
               Has(top, r), H.files[r] = top.files[r]
        PROVE  Kept(repo, config, r, Body(r), H.files[r], now)
    <3>1. Has(repo, r) /\ top.files[r] = repo.files[r]
      BY <1>6, <1>7, <1>8, <2>1, <2>3
    <3>2. RoleKeys(top, r) = RoleDefinition(config.roles[r])
      BY <2>1, <2>2, DelegationGivesKeys DEF dels
    <3>3. QED
      BY <2>1, <2>3, <3>1, <3>2, NotDueIsKept
  <2>4. QED
    BY <1>9, <2>3
<1>16. \A r : Has(H, r) <=>
          r \in DOMAIN config.roles /\ (r \in {"snapshot", "timestamp"} => Has(repo, r))
  BY <1>2, <1>6, <1>7, <1>8, <1>9 DEF TopLevel
<1>17. \A r \in {"snapshot", "timestamp"} : Has(repo, r) => H.files[r] = repo.files[r]
  BY <1>2, <1>6, <1>7, <1>8, <1>9 DEF TopLevel
<1>18. \A r \in DOMAIN config.roles :
          r \notin {"snapshot", "timestamp"} =>
             Kept(repo, config, r, Body(r), H.files[r], now) \/ H.files[r] = New(r)
  BY <1>2, <1>13, <1>14, <1>15 DEF TopLevel
<1>19. QED
  BY <1>1, <1>9, <1>13, <1>16, <1>17, <1>18 DEF Has

-------------------------------------------------------------------------------
(* Commits of main, and what follows from them *)

IsTargets(body) ==
    /\ body = [targets |-> body.targets, delegations |-> body.delegations]
    /\ IsMap(body.targets)

\* The metadata has the roles, keys and delegations of `config`.
Follows(repo, config) ==
    /\ DOMAIN repo.files = DOMAIN config.roles
    /\ repo.files["root"].body = RootBody(config)
    /\ Delegations(repo) = ConfigDelegations(config)
    /\ \A r \in TargetsRoles(repo) :
          /\ IsTargets(repo.files[r].body)
          /\ r # "targets" => repo.files[r].body.delegations = <<>>

\* Every role that people sign has the signatures that `config` asks for.
Signed(repo, config) ==
    \A r \in EventRoles(repo) : Met(repo.files[r], RoleDefinition(config.roles[r]))

\* The history of root is a chain that ends in the current one.
Chained(repo) ==
    LET v == repo.files["root"].version
    IN  /\ \A n : n \in DOMAIN repo.history <=> n \in 1 .. v
        /\ repo.history[v] = repo.files["root"]
        /\ \A n \in 1 .. v : /\ repo.history[n].version = n
                             /\ Met(repo.history[n], repo.history[n].body["root"])
        /\ \A n \in 2 .. v : Met(repo.history[n], repo.history[n - 1].body["root"])

\* The snapshot lists no version that there has not been.
Listing(repo) ==
    LET body == repo.files["snapshot"].body
    IN  /\ IsMap(body)
        /\ \A r \in DOMAIN body : body[r] \in Nat
        /\ \A r \in TargetsRoles(repo) : SnapshotVersion(repo, r) <= repo.files[r].version

IsCommit(repo, config) ==
    /\ WellFormed(repo)
    /\ Follows(repo, config)
    /\ Signed(repo, config)
    /\ Chained(repo)
    /\ Listing(repo)

\* The version after which `update` counts on.
LastVersion(base, r) ==
    IF Has(base, r) THEN base.files[r].version ELSE SnapshotVersion(base, r)

\* A file as `base` has it, and complete.
Unchanged(base, config, r, file) ==
    /\ Has(base, r) /\ file = base.files[r]
    /\ Met(file, RoleDefinition(config.roles[r]))

(* What an event makes of the commit `base` it started from: metadata for  *)
(* `config` with some new versions and at most one new root.               *)
Succeeds(base, head, config) ==
    /\ WellFormed(head)
    /\ Follows(head, config)
    /\ \A r \in {"snapshot", "timestamp"} : head.files[r] = base.files[r]
    /\ \A r \in EventRoles(head) :
          \/ Unchanged(base, config, r, head.files[r])
          \/ head.files[r].version = 1 + LastVersion(base, r)
    /\ LET root == head.files["root"]
       IN  /\ head.history[root.version] = root
           /\ \A n : n \in DOMAIN head.history <=> n \in DOMAIN base.history \/ n = root.version
           /\ \A n \in DOMAIN base.history :
                 n # root.version => head.history[n] = base.history[n]

(* A new version is a file whose version is one more than the last. *)
LEMMA NewVersionIs ==
    ASSUME NEW base, NEW r, NEW body, NEW config, NEW now \in Nat,
           Valid(config), r \in DOMAIN config.roles, LastVersion(base, r) \in Nat
    PROVE  LET new == NewVersion(base, r, body, config, now)
           IN  /\ IsFile(new)
               /\ new.version = 1 + LastVersion(base, r)
               /\ new.body = body /\ new.sigs = {}
               /\ new.expires = now + config.roles[r].expires
               /\ ~InSigningPeriod(config.roles[r], new.expires, now)
<1>1. config.roles[r].expires \in Nat /\ config.roles[r].signing \in 1 .. config.roles[r].expires - 1
  BY DEF Valid, ValidRole
<1>2. QED
  BY <1>1 DEF NewVersion, LastVersion, IsFile, InSigningPeriod

(* Versions to count on from are numbers. *)
LEMMA LastVersionIsNat ==
    ASSUME NEW repo, NEW config, WellFormed(repo), Follows(repo, config), Listing(repo),
           Valid(config), NEW r
    PROVE  SnapshotVersion(repo, r) \in Nat /\ LastVersion(repo, r) \in Nat
BY DEF LastVersion, SnapshotVersion, Listing, WellFormed, IsFile, Has

(* A valid config has the top-level roles. *)
LEMMA RolesOfConfig ==
    ASSUME NEW config, Valid(config)
    PROVE  /\ \A r \in TopLevel : r \in DOMAIN config.roles
           /\ {"root", "targets", "snapshot", "timestamp"} \subseteq DOMAIN config.roles
BY DEF Valid, TopLevel

(* `apply_config` of a commit makes metadata for the new config. *)
LEMMA ApplySucceeds ==
    ASSUME NEW repo, NEW old, NEW config, NEW previous, NEW now \in Nat,
           IsCommit(repo, old), Valid(old), Valid(config)
    PROVE  Succeeds(repo, ApplyConfig(repo, config, previous, repo, now), config)
<1> DEFINE H == ApplyConfig(repo, config, previous, repo, now)
           Body(r) == NewBody(repo, config, r)
           New(r) == NewVersion(repo, r, Body(r), config, now)
<1>1. /\ H = [files |-> H.files, history |-> H.history]
      /\ IsMap(H.files)
      /\ \A r : r \in DOMAIN H.files <=>
           /\ r \in DOMAIN config.roles
           /\ r \in {"snapshot", "timestamp"} => Has(repo, r)
      /\ \A r \in {"snapshot", "timestamp"} : Has(repo, r) => H.files[r] = repo.files[r]
      /\ \A r \in DOMAIN config.roles :
           r \notin {"snapshot", "timestamp"} =>
              Kept(repo, config, r, Body(r), H.files[r], now) \/ H.files[r] = New(r)
      /\ \/ /\ Kept(repo, config, "root", Body("root"), H.files["root"], now)
            /\ H.history = repo.history
         \/ /\ H.files["root"] = New("root")
            /\ H.history = Over(Entry(H.files["root"].version, H.files["root"]), repo.history)
  BY ApplyIs
<1> HIDE DEF H
<1>2. \A r \in TopLevel : r \in DOMAIN config.roles /\ r \in DOMAIN old.roles /\ Has(repo, r)
  BY RolesOfConfig DEF IsCommit, Follows, Has
<1>3. \A r \in DOMAIN config.roles :
         r \notin {"snapshot", "timestamp"} =>
            /\ IsFile(H.files[r])
            /\ H.files[r].body = Body(r)
            /\ \/ Unchanged(repo, config, r, H.files[r])
               \/ H.files[r].version = 1 + LastVersion(repo, r)
  <2> SUFFICES ASSUME NEW r \in DOMAIN config.roles, r \notin {"snapshot", "timestamp"}
               PROVE  /\ IsFile(H.files[r])
                      /\ H.files[r].body = Body(r)
                      /\ \/ Unchanged(repo, config, r, H.files[r])
                         \/ H.files[r].version = 1 + LastVersion(repo, r)
    OBVIOUS
  <2>1. CASE Kept(repo, config, r, Body(r), H.files[r], now)
    BY <2>1 DEF Kept, Unchanged, IsCommit, WellFormed, Has
  <2>2. CASE H.files[r] = New(r)
    <3>1. LastVersion(repo, r) \in Nat
      BY LastVersionIsNat DEF IsCommit
    <3>2. QED
      BY <2>2, <3>1, NewVersionIs
  <2>3. QED
    BY <1>1, <2>1, <2>2
<1>4. DOMAIN H.files = DOMAIN config.roles
  BY <1>1, <1>2 DEF TopLevel
<1>5. WellFormed(H)
  <2>1. IsMap(H.history)
    BY <1>1, OverIs DEF IsCommit, WellFormed
  <2>2. \A r \in {"snapshot", "timestamp"} : IsFile(H.files[r])
    BY <1>1, <1>2 DEF IsCommit, WellFormed, Has, TopLevel
  <2>3. QED
    BY <1>1, <1>3, <1>4, <2>1, <2>2 DEF WellFormed
<1>6. Follows(H, config)
  <2>1. H.files["root"].body = RootBody(config)
    BY <1>2, <1>3 DEF NewBody, TopLevel
  <2>2. Delegations(H) = ConfigDelegations(config)
    <3>1. H.files["targets"].body = Body("targets")
      BY <1>2, <1>3 DEF TopLevel
    <3>2. Body("targets").delegations = ConfigDelegations(config)
      BY DEF NewBody
    <3>3. QED
      BY <3>1, <3>2 DEF Delegations
  <2>3. ASSUME NEW r \in TargetsRoles(H)
        PROVE  /\ IsTargets(H.files[r].body)
               /\ r # "targets" => H.files[r].body.delegations = <<>>
    <3>1. H.files[r].body = [targets     |-> Regrouped(repo, ConfigDelegations(config), r),
                             delegations |-> IF r = "targets" THEN ConfigDelegations(config) ELSE <<>>]
      BY <1>3, <1>4 DEF TargetsRoles, NewBody
    <3>2. IsMap(Regrouped(repo, ConfigDelegations(config), r))
      BY DEF Regrouped, IsMap
    <3>3. QED
      BY <3>1, <3>2 DEF IsTargets
  <2>4. QED
    BY <1>4, <2>1, <2>2, <2>3 DEF Follows
<1>7. \A r \in EventRoles(H) :
         \/ Unchanged(repo, config, r, H.files[r])
         \/ H.files[r].version = 1 + LastVersion(repo, r)
  BY <1>3, <1>4 DEF EventRoles
<1>8. LET root == H.files["root"]
      IN  /\ H.history[root.version] = root
          /\ \A n : n \in DOMAIN H.history <=> n \in DOMAIN repo.history \/ n = root.version
          /\ \A n \in DOMAIN repo.history : n # root.version => H.history[n] = repo.history[n]
  <2> DEFINE root == H.files["root"]
  <2>1. CASE H.history = Over(Entry(root.version, root), repo.history)
    <3> DEFINE entry == Entry(root.version, root)
    <3>1. /\ \A y : y \in DOMAIN entry <=> y = root.version
          /\ entry[root.version] = root
      BY EntryIs
    <3> HIDE DEF entry
    <3>2. QED
      BY <2>1, <3>1, OverIs DEF entry
  <2>2. CASE Kept(repo, config, "root", Body("root"), root, now) /\ H.history = repo.history
    <3>1. root = repo.files["root"] /\ root.version \in Nat \ {0}
      BY <1>2, <2>2 DEF Kept, IsCommit, WellFormed, IsFile, Has, TopLevel
    <3>2. /\ root.version \in DOMAIN repo.history
          /\ repo.history[root.version] = root
      BY <3>1 DEF IsCommit, Chained
    <3>3. QED
      BY <2>2, <3>2
  <2>3. QED
    BY <1>1, <2>1, <2>2
<1>9. \A r \in {"snapshot", "timestamp"} : H.files[r] = repo.files[r]
  BY <1>1, <1>2 DEF TopLevel
<1>10. QED
  BY <1>5, <1>6, <1>7, <1>8, <1>9 DEF Succeeds, H

-------------------------------------------------------------------------------
(* Signing *)

(* The metadata gives every role the keys of the config it follows. *)
LEMMA FollowsGivesKeys ==
    ASSUME NEW repo, NEW config, Follows(repo, config), Valid(config), NEW r \in DOMAIN config.roles
    PROVE  HasKeys(repo, r) /\ RoleKeys(repo, r) = RoleDefinition(config.roles[r])
<1>1. /\ Has(repo, "root") /\ repo.files["root"].body = RootBody(config)
      /\ Has(repo, "targets") /\ Delegations(repo) = ConfigDelegations(config)
  BY RolesOfConfig DEF Follows, Has
<1>2. CASE r \in TopLevel
  BY <1>1, <1>2, RootGivesKeys
<1>3. CASE r \notin TopLevel
  BY <1>1, <1>3, DelegationGivesKeys
<1>4. QED
  BY <1>2, <1>3

(* What is unchanged since `base` needs no signature. *)
LEMMA UnchangedIsComplete ==
    ASSUME NEW base, NEW head, NEW config, Follows(head, config), Valid(config),
           NEW r \in DOMAIN config.roles, Unchanged(base, config, r, head.files[r])
    PROVE  MissingKeys(head, base, r) = {}
<1>1. RoleKeys(head, r) = RoleDefinition(config.roles[r])
  BY FollowsGivesKeys
<1>2. r = "root" => base.files["root"] = head.files["root"]
  BY DEF Unchanged
<1>3. Met(head.files[r], RoleDefinition(config.roles[r]))
  BY DEF Unchanged
<1>4. QED
  BY <1>1, <1>2, <1>3, OwnKeysSuffice

\* `new` is `file` with more signatures, all of them by `keys`.
Countersigned(file, new, keys) ==
    /\ new = [version |-> file.version, expires |-> file.expires,
              sigs |-> new.sigs, body |-> file.body]
    /\ \A k \in new.sigs : k \in file.sigs \/ k \in keys
    /\ \A k \in file.sigs : k \in new.sigs

(* To sign a file changes its signatures only. *)
LEMMA SigningIs ==
    ASSUME NEW file, IsFile(file), NEW keys
    PROVE  LET new == [file EXCEPT !.sigs = @ \cup keys]
           IN  /\ Countersigned(file, new, keys)
               /\ \A k : k \in new.sigs <=> k \in file.sigs \/ k \in keys
<1> DEFINE f == [version |-> file.version, expires |-> file.expires,
                 sigs |-> file.sigs, body |-> file.body]
           new == [version |-> file.version, expires |-> file.expires,
                   sigs |-> file.sigs \cup keys, body |-> file.body]
<1>1. f = file
  BY DEF IsFile
<1>2. [f EXCEPT !.sigs = @ \cup keys] = new
  OBVIOUS
<1>3. Countersigned(file, new, keys) /\ \A k : k \in new.sigs <=> k \in file.sigs \/ k \in keys
  BY DEF Countersigned
<1>4. QED
  BY <1>1, <1>2, <1>3

(* Adding signatures of missing keys to some of an event's roles leaves it *)
(* an event from the same commit.                                          *)
LEMMA SignSome ==
    ASSUME NEW base, NEW old, NEW head, NEW config,
           IsCommit(base, old), Valid(old), Succeeds(base, head, config), Valid(config),
           NEW new,
           \A r \in DOMAIN new :
              /\ r \in EventRoles(head)
              /\ Countersigned(head.files[r], new[r], MissingKeys(head, base, r))
    PROVE  Succeeds(base, With(head, new), config)
<1> DEFINE roles == DOMAIN new
           S == With(head, new)
<1>1. /\ WellFormed(head) /\ Follows(head, config)
      /\ \A r : r \in DOMAIN head.files <=> r \in DOMAIN config.roles
      /\ {"root", "targets", "snapshot", "timestamp"} \subseteq DOMAIN config.roles
      /\ \A r \in roles : r \in DOMAIN head.files /\ r \notin {"snapshot", "timestamp"}
  BY RolesOfConfig DEF Succeeds, Follows, EventRoles
<1>2. \A r \in roles :
         /\ IsFile(new[r])
         /\ new[r].version = head.files[r].version
         /\ new[r].expires = head.files[r].expires
         /\ new[r].body = head.files[r].body
  BY <1>1 DEF WellFormed, IsFile, Countersigned
<1>3. \A r \in roles : Unchanged(base, config, r, head.files[r]) => new[r] = head.files[r]
  <2> SUFFICES ASSUME NEW r \in roles, Unchanged(base, config, r, head.files[r])
               PROVE  new[r] = head.files[r]
    OBVIOUS
  <2>1. MissingKeys(head, base, r) = {}
    BY <1>1, UnchangedIsComplete
  <2>2. new[r].sigs = head.files[r].sigs
    BY <2>1 DEF Countersigned
  <2>3. QED
    BY <1>1, <1>2, <2>2 DEF WellFormed, IsFile
<1>4. /\ S = [files |-> S.files, history |-> S.history]
      /\ DOMAIN S.files = DOMAIN head.files
      /\ IsMap(S.files)
      /\ \A r \in roles : S.files[r] = new[r]
      /\ \A r \in DOMAIN head.files : r \notin roles => S.files[r] = head.files[r]
      /\ "root" \in roles => S.history = Over(Entry(new["root"].version, new["root"]), head.history)
      /\ "root" \notin roles => S.history = head.history
  <2>1. /\ S = [files |-> S.files, history |-> S.history]
        /\ \A r : r \in DOMAIN S.files <=> r \in roles \/ r \in DOMAIN head.files
        /\ IsMap(S.files)
        /\ \A r \in roles : S.files[r] = new[r]
        /\ \A r \in DOMAIN head.files : r \notin roles => S.files[r] = head.files[r]
    BY WithIs
  <2>2. DOMAIN S.files = DOMAIN head.files
    BY <1>1, <2>1
  <2>3. /\ "root" \in roles => S.history = Over(Entry(new["root"].version, new["root"]), head.history)
        /\ "root" \notin roles => S.history = head.history
    BY DEF With
  <2>4. QED
    BY <2>1, <2>2, <2>3
<1> HIDE DEF S
<1>5. \A r \in DOMAIN head.files :
         /\ IsFile(S.files[r])
         /\ S.files[r].version = head.files[r].version
         /\ S.files[r].body = head.files[r].body
         /\ Unchanged(base, config, r, head.files[r]) => S.files[r] = head.files[r]
  BY <1>1, <1>2, <1>3, <1>4 DEF WellFormed
<1>6. WellFormed(S)
  BY <1>1, <1>4, <1>5, OverIs DEF WellFormed
<1>7. Follows(S, config)
  BY <1>1, <1>4, <1>5 DEF Follows, Delegations, TargetsRoles
<1>8. \A r \in {"snapshot", "timestamp"} : S.files[r] = base.files[r]
  BY <1>1, <1>4 DEF Succeeds
<1>9. \A r \in EventRoles(S) :
         \/ Unchanged(base, config, r, S.files[r])
         \/ S.files[r].version = 1 + LastVersion(base, r)
  BY <1>4, <1>5 DEF Succeeds, EventRoles
<1>10. LET root == S.files["root"]
       IN  /\ S.history[root.version] = root
           /\ \A n : n \in DOMAIN S.history <=> n \in DOMAIN base.history \/ n = root.version
           /\ \A n \in DOMAIN base.history : n # root.version => S.history[n] = base.history[n]
  <2> DEFINE root == S.files["root"]
  <2>1. /\ root.version = head.files["root"].version
        /\ \A n : n \in DOMAIN head.history <=> n \in DOMAIN base.history \/ n = root.version
        /\ \A n \in DOMAIN base.history : n # root.version => head.history[n] = base.history[n]
    BY <1>1, <1>5 DEF Succeeds
  <2>2. CASE "root" \in roles
    <3> DEFINE entry == Entry(root.version, root)
    <3>1. /\ \A y : y \in DOMAIN entry <=> y = root.version
          /\ entry[root.version] = root
      BY EntryIs
    <3>2. S.history = Over(entry, head.history)
      BY <1>4, <2>2
    <3> HIDE DEF entry
    <3>3. QED
      BY <2>1, <3>1, <3>2, OverIs
  <2>3. CASE "root" \notin roles
    <3>1. root = head.files["root"] /\ S.history = head.history
      BY <1>1, <1>4, <2>3
    <3>2. QED
      BY <2>1, <3>1 DEF Succeeds
  <2>4. QED
    BY <2>2, <2>3
<1>11. QED
  BY <1>6, <1>7, <1>8, <1>9, <1>10 DEF Succeeds, S

(* So does signing with a key that some roles miss. *)
LEMMA SignSucceeds ==
    ASSUME NEW base, NEW old, NEW head, NEW config,
           IsCommit(base, old), Valid(old), Succeeds(base, head, config), Valid(config),
           NEW key, NEW roles, roles \subseteq Needs(base, head, key)
    PROVE  Succeeds(base, Sign(head, roles, key), config)
<1> DEFINE new == [r \in roles |-> [head.files[r] EXCEPT !.sigs = @ \cup {key}]]
<1>1. \A r \in roles : /\ r \in EventRoles(head) /\ r \in DOMAIN head.files
                       /\ key \in MissingKeys(head, base, r)
  BY DEF Needs, StatusRoles, EventRoles
<1>2. \A r \in roles : Countersigned(head.files[r], new[r], {key})
  BY <1>1, SigningIs DEF Succeeds, WellFormed
<1>3. DOMAIN new = roles
  OBVIOUS
<1> HIDE DEF new
<1>4. \A r \in DOMAIN new : /\ r \in EventRoles(head)
                            /\ Countersigned(head.files[r], new[r], MissingKeys(head, base, r))
  BY <1>1, <1>2, <1>3 DEF Countersigned
<1>5. Succeeds(base, With(head, new), config)
  BY <1>4, SignSome
<1>6. QED
  BY <1>5 DEF Sign, new

(* And the signatures of online keys. *)
LEMMA SignOnlineSucceeds ==
    ASSUME NEW base, NEW old, NEW head, NEW config,
           IsCommit(base, old), Valid(old), Succeeds(base, head, config), Valid(config),
           NEW online
    PROVE  Succeeds(base, SignOnline(online, base, head, EventRoles(head)), config)
<1> DEFINE Keys(r) == MissingKeys(head, base, r) \cap online.online
           new == [r \in EventRoles(head) |-> [head.files[r] EXCEPT !.sigs = @ \cup Keys(r)]]
<1>1. \A r \in EventRoles(head) : Countersigned(head.files[r], new[r], Keys(r))
  BY SigningIs DEF Succeeds, WellFormed, EventRoles
<1>2. DOMAIN new = EventRoles(head)
  OBVIOUS
<1> HIDE DEF new
<1>3. \A r \in DOMAIN new : /\ r \in EventRoles(head)
                            /\ Countersigned(head.files[r], new[r], MissingKeys(head, base, r))
  BY <1>1, <1>2 DEF Countersigned
<1>4. Succeeds(base, With(head, new), config)
  BY <1>3, SignSome
<1>5. QED
  BY <1>4 DEF SignOnline, new

-------------------------------------------------------------------------------
(* add_targets, remove_targets *)

(* A path belongs in a delegated role or in `targets`. *)
LEMMA DelegatedRoleAmong ==
    ASSUME NEW dels, Len(dels) \in Nat, DOMAIN dels = 1 .. Len(dels), NEW path
    PROVE  LET role == DelegatedRole(dels, path)
           IN  role = "targets" \/ \E i \in DOMAIN dels : role = dels[i].name
<1> DEFINE I == {i \in 1 .. Len(dels) : path \in dels[i].paths}
           i == SelectInSeq(dels, LAMBDA d : path \in d.paths)
<1>1. i = IF I # {} THEN Min(I) ELSE 0
  BY DEF SelectInSeq
<1>2. i = 0 \/ i \in I
  <2>1. SUFFICES ASSUME I # {} PROVE Min(I) \in I
    BY <1>1
  <2>2. PICK m \in I : \A n \in I : ~ (<<n, m>> \in OpToRel(<, Nat))
    <3>1. I \subseteq Nat
      OBVIOUS
    <3> HIDE DEF I
    <3>2. QED
      BY <2>1, <3>1, NatLessThanWellFounded, WFMin
  <2>3. \A k, n \in Nat : k < n => <<k, n>> \in OpToRel(<, Nat)
    BY Zenon DEF OpToRel
  <2>4. \A n \in I : n \in Nat
    OBVIOUS
  <2> HIDE DEF I
  <2>5. \A n \in I : ~ (n < m)
    BY <2>2, <2>3, <2>4
  <2>6. \A n \in I : m =< n
    BY <2>4, <2>5
  <2>7. QED
    BY <2>6 DEF Min
<1>3. i # 0 => i \in DOMAIN dels
  BY <1>2
<1> HIDE DEF i
<1>4. DelegatedRole(dels, path) = IF i = 0 THEN "targets" ELSE dels[i].name
  BY DEF DelegatedRole, i
<1>5. QED
  BY <1>3, <1>4

(* Under a config, that role exists and lists targets. *)
LEMMA DelegatedRoleIs ==
    ASSUME NEW config, Valid(config), NEW path
    PROVE  LET role == DelegatedRole(ConfigDelegations(config), path)
           IN  role \in DOMAIN config.roles /\ role \notin {"root", "snapshot", "timestamp"}
<1> DEFINE dels == ConfigDelegations(config)
<1>1. /\ config.order \in Seq(DOMAIN config.roles)
      /\ \A r \in ToSet(config.order) : r \in DOMAIN config.roles /\ r \notin TopLevel
  BY DEF Valid
<1>2. /\ DOMAIN dels = DOMAIN config.order /\ Len(dels) = Len(config.order)
      /\ \A j \in DOMAIN config.order : dels[j].name = config.order[j]
  BY <1>1 DEF ConfigDelegations
<1> HIDE DEF dels
<1>3. Len(dels) \in Nat /\ DOMAIN dels = 1 .. Len(dels)
  BY <1>1, <1>2
<1>4. \A j \in DOMAIN config.order : config.order[j] \in ToSet(config.order)
  BY <1>1 DEF ToSet
<1>5. "targets" \in DOMAIN config.roles
  BY RolesOfConfig
<1>6. \/ DelegatedRole(dels, path) = "targets"
      \/ \E j \in DOMAIN dels : DelegatedRole(dels, path) = dels[j].name
  BY <1>3, DelegatedRoleAmong
<1>7. QED
  BY <1>1, <1>2, <1>4, <1>5, <1>6 DEF dels, TopLevel

(* Nothing has changed since the commit itself. *)
LEMMA SucceedsItself ==
    ASSUME NEW repo, NEW config, IsCommit(repo, config), Valid(config)
    PROVE  Succeeds(repo, repo, config)
<1>1. /\ repo.files["root"].version \in DOMAIN repo.history
      /\ repo.history[repo.files["root"].version] = repo.files["root"]
  <2>1. repo.files["root"].version \in Nat \ {0}
    BY RolesOfConfig DEF IsCommit, WellFormed, Follows, IsFile
  <2>2. QED
    BY <2>1 DEF IsCommit, Chained
<1>2. \A r \in EventRoles(repo) : Unchanged(repo, config, r, repo.files[r])
  BY DEF IsCommit, Signed, Unchanged, EventRoles, Has
<1>3. QED
  BY <1>1, <1>2 DEF IsCommit, Succeeds

(* New content for targets roles, with the delegations they have. *)
LEMMA UpdateTargetsSucceeds ==
    ASSUME NEW base, NEW old, NEW repo, NEW config,
           IsCommit(base, old), Valid(old), Succeeds(base, repo, config), Valid(config),
           NEW bodies, NEW previous, NEW now \in Nat,
           \A r \in DOMAIN bodies :
              /\ r \in TargetsRoles(repo)
              /\ IsTargets(bodies[r])
              /\ bodies[r].delegations = repo.files[r].body.delegations
    PROVE  Succeeds(base, Update(repo, base, bodies, config, previous, now), config)
<1> DEFINE U == Update(repo, base, bodies, config, previous, now)
           New(r) == NewVersion(base, r, bodies[r], config, now)
<1>1. /\ WellFormed(repo) /\ Follows(repo, config)
      /\ \A r : r \in DOMAIN repo.files <=> r \in DOMAIN config.roles
      /\ {"root", "targets", "snapshot", "timestamp"} \subseteq DOMAIN config.roles
      /\ \A r \in DOMAIN bodies :
            r \in DOMAIN repo.files /\ r \notin {"root", "snapshot", "timestamp"}
  BY RolesOfConfig DEF Succeeds, Follows, TargetsRoles
<1>2. /\ U = [files |-> U.files, history |-> U.history]
      /\ IsMap(U.files)
      /\ \A r : r \in DOMAIN U.files <=> r \in DOMAIN bodies \/ r \in DOMAIN repo.files
      /\ \A r \in DOMAIN bodies : U.files[r] = New(r) \/ U.files[r] = repo.files[r]
      /\ \A r \in DOMAIN repo.files : r \notin DOMAIN bodies => U.files[r] = repo.files[r]
      /\ "root" \notin DOMAIN bodies => U.history = repo.history
  BY UpdateIs
<1> HIDE DEF U
<1>3. DOMAIN U.files = DOMAIN repo.files /\ U.history = repo.history
  BY <1>1, <1>2
<1>4. \A r \in DOMAIN bodies :
         /\ IsFile(New(r)) /\ New(r).body = bodies[r]
         /\ New(r).version = 1 + LastVersion(base, r)
  BY <1>1, LastVersionIsNat, NewVersionIs DEF IsCommit
<1> HIDE DEF New
<1>5. \A r \in DOMAIN repo.files :
         \/ U.files[r] = repo.files[r]
         \/ /\ r \in DOMAIN bodies
            /\ IsFile(U.files[r]) /\ U.files[r].body = bodies[r]
            /\ U.files[r].version = 1 + LastVersion(base, r)
  BY <1>2, <1>4
<1>6. WellFormed(U)
  BY <1>1, <1>2, <1>3, <1>5 DEF WellFormed
<1>7. /\ U.files["root"] = repo.files["root"]
      /\ \A r \in {"snapshot", "timestamp"} : U.files[r] = base.files[r]
  BY <1>1, <1>2 DEF Succeeds
<1>8. \A r \in TargetsRoles(repo) :
         /\ IsTargets(U.files[r].body)
         /\ U.files[r].body.delegations = repo.files[r].body.delegations
  BY <1>5 DEF Succeeds, Follows, TargetsRoles
<1>9. Follows(U, config)
  <2>1. "targets" \in TargetsRoles(repo) /\ TargetsRoles(U) = TargetsRoles(repo)
    BY <1>1, <1>3 DEF TargetsRoles
  <2>2. QED
    BY <1>1, <1>3, <1>7, <1>8, <2>1 DEF Follows, Delegations
<1>10. \A r \in EventRoles(U) :
         \/ Unchanged(base, config, r, U.files[r])
         \/ U.files[r].version = 1 + LastVersion(base, r)
  BY <1>3, <1>5 DEF Succeeds, EventRoles
<1>11. QED
  BY <1>3, <1>6, <1>7, <1>9, <1>10 DEF Succeeds, U

(* To list other targets leaves the delegations alone. *)
LEMMA ListingIs ==
    ASSUME NEW body, IsTargets(body), NEW targets, IsMap(targets)
    PROVE  LET new == [body EXCEPT !.targets = targets]
           IN  /\ IsTargets(new)
               /\ new.targets = targets
               /\ new.delegations = body.delegations
<1> DEFINE b == [targets |-> body.targets, delegations |-> body.delegations]
           new == [targets |-> targets, delegations |-> body.delegations]
<1>1. b = body
  BY DEF IsTargets
<1>2. [b EXCEPT !.targets = targets] = new
  OBVIOUS
<1>3. [body EXCEPT !.targets = targets] = new
  BY <1>1, <1>2
<1>4. IsTargets(new) /\ new.targets = targets /\ new.delegations = body.delegations
  BY DEF IsTargets
<1>5. QED
  BY <1>3, <1>4

(* `add_targets` to an event's metadata leaves it an event's metadata. *)
LEMMA AddSucceeds ==
    ASSUME NEW base, NEW old, NEW repo, NEW config,
           IsCommit(base, old), Valid(old), Succeeds(base, repo, config), Valid(config),
           NEW new, NEW now \in Nat
    PROVE  Succeeds(base, AddTargets(repo, config, base, new, now), config)
<1> DEFINE Goes(p) == DelegatedRole(Delegations(repo), p)
           Into(r) == [p \in {p \in DOMAIN new : Goes(p) = r} |-> new[p]]
           Targets(r) == Over(Into(r), repo.files[r].body.targets)
           bodies == [r \in {Goes(p) : p \in DOMAIN new} |->
                        [repo.files[r].body EXCEPT !.targets = Over(Into(r), @)]]
<1>1. ASSUME NEW r \in DOMAIN bodies
      PROVE  r \in TargetsRoles(repo)
  <2>1. PICK p \in DOMAIN new : r = DelegatedRole(ConfigDelegations(config), p)
    BY <1>1 DEF Succeeds, Follows
  <2>2. r \in DOMAIN config.roles /\ r \notin {"root", "snapshot", "timestamp"}
    BY <2>1, DelegatedRoleIs
  <2>3. QED
    BY <2>2 DEF Succeeds, Follows, TargetsRoles
<1>2. ASSUME NEW r \in DOMAIN bodies
      PROVE  /\ IsTargets(bodies[r])
             /\ bodies[r].delegations = repo.files[r].body.delegations
  <2>1. IsTargets(repo.files[r].body)
    BY <1>1, <1>2 DEF Succeeds, Follows
  <2>2. bodies[r] = [repo.files[r].body EXCEPT !.targets = Targets(r)]
    BY <1>2
  <2>3. IsMap(Targets(r))
    BY OverIs
  <2> HIDE DEF bodies, Targets
  <2>4. QED
    BY <2>1, <2>2, <2>3, ListingIs
<1>3. Succeeds(base, Update(repo, base, bodies, config, NoConfig, now), config)
  <2> HIDE DEF bodies
  <2>1. QED
    BY <1>1, <1>2, UpdateTargetsSucceeds
<1>4. QED
  BY <1>3 DEF AddTargets

(* And so does `remove_targets`. *)
LEMMA RemoveSucceeds ==
    ASSUME NEW base, NEW old, NEW repo, NEW config,
           IsCommit(base, old), Valid(old), Succeeds(base, repo, config), Valid(config),
           NEW paths, NEW now \in Nat
    PROVE  Succeeds(base, RemoveTargets(repo, config, base, paths, now), config)
<1> DEFINE holders == {r \in TargetsRoles(repo) : DOMAIN TargetsOf(repo, r) \cap paths # {}}
           Targets(r) == [p \in DOMAIN repo.files[r].body.targets \ paths |->
                            repo.files[r].body.targets[p]]
           bodies == [r \in holders |->
                        [repo.files[r].body EXCEPT !.targets = [p \in DOMAIN @ \ paths |-> @[p]]]]
<1>1. \A r \in DOMAIN bodies : r \in TargetsRoles(repo)
  OBVIOUS
<1>2. ASSUME NEW r \in DOMAIN bodies
      PROVE  /\ IsTargets(bodies[r])
             /\ bodies[r].delegations = repo.files[r].body.delegations
  <2>1. IsTargets(repo.files[r].body)
    BY <1>1, <1>2 DEF Succeeds, Follows
  <2>2. bodies[r] = [repo.files[r].body EXCEPT !.targets = Targets(r)]
    BY <1>2
  <2>3. IsMap(Targets(r))
    BY DEF IsMap
  <2> HIDE DEF bodies, Targets
  <2>4. QED
    BY <2>1, <2>2, <2>3, ListingIs
<1>3. Succeeds(base, Update(repo, base, bodies, config, NoConfig, now), config)
  <2> HIDE DEF bodies
  <2>1. QED
    BY <1>1, <1>2, UpdateTargetsSucceeds
<1>4. QED
  BY <1>3 DEF RemoveTargets

-------------------------------------------------------------------------------
(* Merges *)

\* Two maps have the same entry for `n`, or none.
Same(f, g, n) ==
    /\ n \in DOMAIN f <=> n \in DOMAIN g
    /\ n \in DOMAIN f => f[n] = g[n]

(* To compare entries is to compare what git finds under a name. *)
LEMMA AtIsSame ==
    ASSUME NEW f, NEW g, NEW n
    PROVE  At(f, n) = At(g, n) <=> Same(f, g, n)
BY DEF At, Same

(* A name that does not conflict: either one side left it alone and the     *)
(* other side's entry is taken, or both have the same.                      *)
LEMMA MergedAt ==
    ASSUME NEW base, NEW ours, NEW theirs, NEW n,
           ~Conflict(At(base, n), At(ours, n), At(theirs, n))
    PROVE  LET merged == Merged(base, ours, theirs)
           IN  \/ Same(ours, base, n) /\ Same(merged, theirs, n)
               \/ Same(theirs, base, n) /\ Same(merged, ours, n)
               \/ Same(ours, theirs, n) /\ Same(merged, ours, n)
<1> DEFINE At3(x) == Pick(At(base, x), At(ours, x), At(theirs, x))
           merged == Merged(base, ours, theirs)
<1>1. \/ Same(ours, base, n) /\ At3(n) = At(theirs, n)
      \/ Same(theirs, base, n) /\ At3(n) = At(ours, n)
      \/ Same(ours, theirs, n) /\ At3(n) = At(ours, n)
  BY AtIsSame DEF Pick, Conflict
<1>2. ASSUME NEW f, At3(n) = At(f, n), n \in DOMAIN f => n \in DOMAIN ours \/ n \in DOMAIN theirs
      PROVE  Same(merged, f, n)
  <2>1. CASE n \in DOMAIN f
    <3>1. At3(n) = {f[n]}
      BY <1>2, <2>1 DEF At
    <3>2. n \in DOMAIN merged /\ merged[n] = CHOOSE v \in At3(n) : TRUE
      BY <1>2, <2>1, <3>1 DEF Merged
    <3>3. (CHOOSE v \in {f[n]} : TRUE) = f[n]
      OBVIOUS
    <3>4. QED
      BY <2>1, <3>1, <3>2, <3>3 DEF Same
  <2>2. CASE n \notin DOMAIN f
    <3>1. At3(n) = {}
      BY <1>2, <2>2 DEF At
    <3>2. n \notin DOMAIN merged
      BY <3>1 DEF Merged
    <3>3. QED
      BY <2>2, <3>2 DEF Same
  <2>3. QED
    BY <2>1, <2>2
<1> HIDE DEF At3, merged
<1>3. QED
  BY <1>1, <1>2 DEF merged

\* No name has been changed differently by the two sides.
MergeCleanly(base, ours, theirs) ==
    \A n \in DOMAIN base \cup DOMAIN ours \cup DOMAIN theirs :
        ~Conflict(At(base, n), At(ours, n), At(theirs, n))

(* So it is for every name of a clean merge. *)
LEMMA MergedIs ==
    ASSUME NEW base, NEW ours, NEW theirs, MergeCleanly(base, ours, theirs)
    PROVE  LET merged == Merged(base, ours, theirs)
           IN  /\ IsMap(merged)
               /\ \A n : \/ Same(ours, base, n) /\ Same(merged, theirs, n)
                         \/ Same(theirs, base, n) /\ Same(merged, ours, n)
                         \/ Same(ours, theirs, n) /\ Same(merged, ours, n)
<1>1. IsMap(Merged(base, ours, theirs))
  BY DEF Merged, IsMap
<1>2. ASSUME NEW n
      PROVE  ~Conflict(At(base, n), At(ours, n), At(theirs, n))
  <2>1. CASE n \in DOMAIN base \cup DOMAIN ours \cup DOMAIN theirs
    BY <2>1 DEF MergeCleanly
  <2>2. CASE n \notin DOMAIN base \cup DOMAIN ours \cup DOMAIN theirs
    BY <2>2 DEF At, Conflict
  <2>3. QED
    BY <2>1, <2>2
<1>3. QED
  BY <1>1, <1>2, MergedAt

(* Files that do not clash merge cleanly. *)
LEMMA FilesMerge ==
    ASSUME NEW base, NEW ours, NEW theirs, FilesMergeCleanly(base, ours, theirs)
    PROVE  MergeCleanly(base, ours, theirs)
BY DEF FilesMergeCleanly, MergeCleanly, Clash, Conflict

(* tufops.toml merges roles whole that a side added or removed, and others   *)
(* setting by setting.                                                      *)
LEMMA MergedRolesAre ==
    ASSUME NEW base, NEW ours, NEW theirs, RolesMergeCleanly(base, ours, theirs)
    PROVE  LET merged == MergedRoles(base, ours, theirs)
           IN  /\ \A r : r \notin Shared(base, ours, theirs) =>
                    \/ Same(ours, base, r) /\ Same(merged, theirs, r)
                    \/ Same(theirs, base, r) /\ Same(merged, ours, r)
                    \/ Same(ours, theirs, r) /\ Same(merged, ours, r)
               /\ \A r \in Shared(base, ours, theirs) :
                    /\ r \in DOMAIN merged
                    /\ \A s \in Settings :
                          \/ ours[r][s] = base[r][s] /\ merged[r][s] = theirs[r][s]
                          \/ theirs[r][s] = base[r][s] /\ merged[r][s] = ours[r][s]
                          \/ ours[r][s] = theirs[r][s] /\ merged[r][s] = ours[r][s]
<1> DEFINE whole == Merged(base, ours, theirs)
           merged == MergedRoles(base, ours, theirs)
           Mixed(r) == [s \in Settings |-> Pick(base[r][s], ours[r][s], theirs[r][s])]
<1>1. /\ \A r : r \in DOMAIN merged <=> r \in DOMAIN whole
      /\ \A r \in DOMAIN whole :
            merged[r] = IF r \in Shared(base, ours, theirs) THEN Mixed(r) ELSE whole[r]
  BY DEF MergedRoles
<1>2. ASSUME NEW r, r \notin Shared(base, ours, theirs)
      PROVE  \/ Same(ours, base, r) /\ Same(merged, theirs, r)
             \/ Same(theirs, base, r) /\ Same(merged, ours, r)
             \/ Same(ours, theirs, r) /\ Same(merged, ours, r)
  <2>1. ~Conflict(At(base, r), At(ours, r), At(theirs, r))
    <3>1. CASE r \in DOMAIN base \cup DOMAIN ours \cup DOMAIN theirs
      BY <1>2, <3>1 DEF RolesMergeCleanly
    <3>2. CASE r \notin DOMAIN base \cup DOMAIN ours \cup DOMAIN theirs
      BY <3>2 DEF At, Conflict
    <3>3. QED
      BY <3>1, <3>2
  <2>2. Same(merged, whole, r)
    BY <1>1, <1>2 DEF Same
  <2>3. \A f : Same(whole, f, r) => Same(merged, f, r)
    BY <2>2 DEF Same
  <2> HIDE DEF merged, whole
  <2>4. QED
    BY <2>1, <2>3, MergedAt DEF whole
<1>3. ASSUME NEW r \in Shared(base, ours, theirs)
      PROVE  /\ r \in DOMAIN merged
             /\ \A s \in Settings :
                   \/ ours[r][s] = base[r][s] /\ merged[r][s] = theirs[r][s]
                   \/ theirs[r][s] = base[r][s] /\ merged[r][s] = ours[r][s]
                   \/ ours[r][s] = theirs[r][s] /\ merged[r][s] = ours[r][s]
  <2>1. r \in DOMAIN base /\ r \in DOMAIN ours /\ r \in DOMAIN theirs
    BY DEF Shared
  <2>2. r \in DOMAIN whole
    BY <2>1 DEF Merged, At, Pick
  <2>3. merged[r] = Mixed(r)
    BY <1>1, <2>2
  <2>4. \A s \in Settings : merged[r][s] = Pick(base[r][s], ours[r][s], theirs[r][s])
    <3> HIDE DEF merged
    <3>1. QED
      BY <2>3
  <2>5. \A s \in Settings : ~Conflict(base[r][s], ours[r][s], theirs[r][s])
    BY <2>1 DEF RolesMergeCleanly
  <2>6. r \in DOMAIN merged
    BY <1>1, <2>2
  <2> HIDE DEF merged
  <2>7. QED
    BY <2>4, <2>5, <2>6 DEF Pick, Conflict
<1>4. QED
  BY <1>2, <1>3
===============================================================================
