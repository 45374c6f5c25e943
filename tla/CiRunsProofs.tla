----------------------------- MODULE CiRunsProofs -----------------------------
(***************************************************************************)
(* What holds of the CI runs step by step, for every set of configs and    *)
(* events. Statuses and the base of sign/refresh may be out of date here,  *)
(* so that main need not be a commit in the sense of LifecycleProofs: what *)
(* is shown follows from how the runs go on, whatever main has.            *)
(***************************************************************************)
EXTENDS CiRuns, RepoProofs

-------------------------------------------------------------------------------
(* Versions are numbers, of whatever metadata, and operations count them up *)

\* Versions can be counted on from.
IsVersion(file) ==
    /\ file = [version |-> file.version, expires |-> file.expires,
               sigs |-> file.sigs, body |-> file.body]
    /\ file.version \in Nat

Numbers(body) == \A r \in DOMAIN body : body[r] \in Nat

\* Delegations are a sequence, of roles other than the snapshot.
Ordinary(dels) ==
    /\ Len(dels) \in Nat /\ DOMAIN dels = 1 .. Len(dels)
    /\ \A i \in DOMAIN dels : dels[i].name # "snapshot"

Delegating(body) ==
    /\ body = [targets |-> body.targets, delegations |-> body.delegations]
    /\ Ordinary(body.delegations)

Numbered(repo) ==
    /\ \A r \in DOMAIN repo.files : IsVersion(repo.files[r])
    /\ Has(repo, "snapshot") => Numbers(repo.files["snapshot"].body)
    /\ Has(repo, "targets") => Delegating(repo.files["targets"].body)

\* What main and events have.
WithTargets(repo) == Numbered(repo) /\ Has(repo, "targets")

\* `next` has the files of `repo`, at the same versions.
SameVersions(repo, next) ==
    /\ \A r : r \in DOMAIN next.files <=> r \in DOMAIN repo.files
    /\ \A r \in DOMAIN repo.files : next.files[r].version = repo.files[r].version

\* No role of `base` has an older version in `head`.
NotOlder(base, head) ==
    \A r \in DOMAIN base.files :
        Has(head, r) => head.files[r].version >= base.files[r].version

-------------------------------------------------------------------------------
(* The invariant *)

ConfigRoles == UNION {DOMAIN c.roles : c \in Configs}

\* An order of delegated roles.
IsOrder(order) ==
    /\ Len(order) \in Nat /\ DOMAIN order = 1 .. Len(order)
    /\ \A r \in ToSet(order) : r \notin TopLevel

\* The config has the top-level roles, and others that are known, and
\* orders others only.
HasRoles(config) ==
    /\ \A r \in TopLevel : r \in DOMAIN config.roles
    /\ \A r \in DOMAIN config.roles : r \in ConfigRoles
    /\ IsOrder(config.order)

IsCiEvent(ev) ==
    /\ ev = [kind |-> ev.kind, base |-> ev.base, old |-> ev.old,
             head |-> ev.head, config |-> ev.config, intent |-> ev.intent]
    /\ HasRoles(ev.old) /\ HasRoles(ev.config)
    /\ WithTargets(ev.base) /\ WithTargets(ev.head)
    /\ ev.kind # "refresh" => NotOlder(ev.base, ev.head)

IsTip(at) ==
    /\ at = [repo |-> at.repo, config |-> at.config, previous |-> at.previous]
    /\ HasRoles(at.config) /\ WithTargets(at.repo)

\* A run that merges an event, before the push or after.
IsJob(job) ==
    /\ job = [ev |-> job.ev, attempt |-> job.attempt, phase |-> job.phase, merged |-> job.merged]
    /\ IsCiEvent(job.ev)
    /\ job.attempt \in 1 .. MaxAttempts
    /\ job.phase \in {"push", "delete"}
    /\ HasRoles(job.merged.config) /\ WithTargets(job.merged.repo)

\* CI may merge `m` by itself: it has looked at every signature.
MayMerge(m) == Readable(m) /\ Automatic(m)

\* CI has merged main as it is.
MayPush(job) ==
    /\ MergesCleanly(job.ev) /\ job.merged = MergeOf(job.ev)
    /\ MayMerge(job.merged)

\* Wherever configs are kept, they have their roles, and metadata its versions.
ConfigsInv ==
    /\ HasRoles(main.config) /\ WithTargets(main.repo)
    /\ \A e \in DOMAIN events : IsCiEvent(events[e])
    /\ \A e \in DOMAIN waiting : IsCiEvent(waiting[e])
    /\ \A e \in DOMAIN jobs : IsJob(jobs[e])
    /\ mainPhase \in {"online", "publish"} => IsTip(mainJob)

\* Runs belong to branches, and the status, failure and pull request of an
\* event to one that is open.
BranchesInv ==
    /\ ready \subseteq DOMAIN events /\ failed \subseteq DOMAIN events /\ pulls \subseteq DOMAIN events
    /\ DOMAIN events \subseteq Branches
    /\ DOMAIN waiting \subseteq Branches /\ DOMAIN jobs \subseteq Branches
    /\ current \subseteq DOMAIN jobs \cup {"main"}
    /\ mainPhase \in {"none", "online", "publish", "failed"}
    /\ issue \subseteq ConfigRoles
    /\ fresh \subseteq Events

\* What runs know of main is true as long as main is what they fetched.
CurrentInv ==
    /\ \A e \in DOMAIN jobs : e \in current => jobs[e].phase = "push" /\ MayPush(jobs[e])
    /\ "main" \in current /\ mainPhase = "online" =>
          mainJob.repo = main.repo /\ mainJob.config = main.config

CInv == ConfigsInv /\ BranchesInv /\ CurrentInv

-------------------------------------------------------------------------------
(* Operations count versions up *)

\* `update` counts on from the versions of `base`.
LEMMA UpdateNumbered ==
    ASSUME NEW repo, NEW base, NEW bodies, NEW config, NEW former, NEW day,
           Numbered(repo), Numbered(base),
           "snapshot" \in DOMAIN bodies => Numbers(bodies["snapshot"]),
           "targets" \in DOMAIN bodies => Delegating(bodies["targets"])
    PROVE  Numbered(Update(repo, base, bodies, config, former, day))
<1> DEFINE U == Update(repo, base, bodies, config, former, day)
           New(r) == NewVersion(base, r, bodies[r], config, day)
<1>1. /\ \A r : r \in DOMAIN U.files <=> r \in DOMAIN bodies \/ r \in DOMAIN repo.files
      /\ \A r \in DOMAIN bodies :
            \/ U.files[r] = New(r)
            \/ Has(repo, r) /\ U.files[r] = repo.files[r]
      /\ \A r \in DOMAIN repo.files : r \notin DOMAIN bodies => U.files[r] = repo.files[r]
  BY UpdateIs
<1>2. \A r : IsVersion(New(r)) /\ New(r).body = bodies[r]
  <2>1. \A r : (IF Has(base, r) THEN base.files[r].version ELSE SnapshotVersion(base, r)) \in Nat
    BY DEF Numbered, IsVersion, Numbers, SnapshotVersion, Has
  <2>2. QED
    BY <2>1 DEF IsVersion, NewVersion
<1> HIDE DEF U, New
<1>3. \A r \in DOMAIN U.files : IsVersion(U.files[r])
  BY <1>1, <1>2 DEF Numbered, Has
<1>4. "snapshot" \in DOMAIN U.files => Numbers(U.files["snapshot"].body)
  BY <1>1, <1>2 DEF Numbered, Has
<1>5. "targets" \in DOMAIN U.files => Delegating(U.files["targets"].body)
  BY <1>1, <1>2 DEF Numbered, Has
<1>6. QED
  BY <1>3, <1>4, <1>5 DEF Numbered, Has, U

\* What `update` makes of a role is not older than in `base`.
LEMMA UpdateNotOlder ==
    ASSUME NEW repo, NEW base, NEW bodies, NEW config, NEW former, NEW day,
           Numbered(base), NotOlder(base, repo)
    PROVE  NotOlder(base, Update(repo, base, bodies, config, former, day))
<1> DEFINE U == Update(repo, base, bodies, config, former, day)
           New(r) == NewVersion(base, r, bodies[r], config, day)
<1>1. /\ \A r : r \in DOMAIN U.files <=> r \in DOMAIN bodies \/ r \in DOMAIN repo.files
      /\ \A r \in DOMAIN bodies :
            \/ U.files[r] = New(r)
            \/ Has(repo, r) /\ U.files[r] = repo.files[r]
      /\ \A r \in DOMAIN repo.files : r \notin DOMAIN bodies => U.files[r] = repo.files[r]
  BY UpdateIs
<1>2. \A r \in DOMAIN base.files :
         base.files[r].version \in Nat /\ New(r).version = base.files[r].version + 1
  <2> TAKE r \in DOMAIN base.files
  <2>1. base.files[r].version \in Nat
    BY DEF Numbered, IsVersion
  <2>2. Has(base, r)
    BY DEF Has
  <2>3. New(r).version = base.files[r].version + 1
    BY <2>1, <2>2 DEF NewVersion
  <2>4. QED
    BY <2>1, <2>3
<1> HIDE DEF U, New
<1>3. ASSUME NEW r \in DOMAIN base.files, Has(U, r)
      PROVE  U.files[r].version >= base.files[r].version
  <2>1. CASE U.files[r] = New(r)
    BY <1>2, <2>1
  <2>2. CASE Has(repo, r) /\ U.files[r] = repo.files[r]
    BY <2>2 DEF NotOlder
  <2>3. QED
    BY <1>1, <1>3, <2>1, <2>2 DEF Has
<1>4. QED
  BY <1>3 DEF NotOlder, U

\* `new` is `file` with other signatures.
Resigned(file, new) == \E sigs : new = [file EXCEPT !.sigs = sigs]

\* Signing leaves versions alone.
LEMMA SigningNumbered ==
    ASSUME NEW repo, Numbered(repo), NEW new,
           \A r \in DOMAIN new : r \in DOMAIN repo.files /\ Resigned(repo.files[r], new[r])
    PROVE  Numbered(With(repo, new)) /\ SameVersions(repo, With(repo, new))
<1> DEFINE next == With(repo, new)
<1>1. ASSUME NEW r \in DOMAIN new
      PROVE  /\ IsVersion(new[r]) /\ new[r].version = repo.files[r].version
             /\ new[r].body = repo.files[r].body
  <2> DEFINE file == repo.files[r]
             lit == [version |-> file.version, expires |-> file.expires,
                     sigs |-> file.sigs, body |-> file.body]
  <2>1. file = lit /\ file.version \in Nat
    BY DEF Numbered, IsVersion
  <2>2. PICK sigs : new[r] = [file EXCEPT !.sigs = sigs]
    BY DEF Resigned
  <2> DEFINE signed == [version |-> file.version, expires |-> file.expires,
                        sigs |-> sigs, body |-> file.body]
  <2>3. [lit EXCEPT !.sigs = sigs] = signed
    OBVIOUS
  <2>4. new[r] = signed
    <3> HIDE DEF lit, signed
    <3>1. QED
      BY <2>1, <2>2, <2>3
  <2>5. QED
    BY <2>1, <2>4 DEF IsVersion
<1>2. /\ \A r : r \in DOMAIN next.files <=> r \in DOMAIN new \/ r \in DOMAIN repo.files
      /\ \A r \in DOMAIN new : next.files[r] = new[r]
      /\ \A r \in DOMAIN repo.files : r \notin DOMAIN new => next.files[r] = repo.files[r]
  BY WithIs
<1> HIDE DEF next
<1>3. SameVersions(repo, next)
  BY <1>1, <1>2 DEF SameVersions
<1>4. \A r \in DOMAIN next.files :
         IsVersion(next.files[r]) /\ next.files[r].body = repo.files[r].body
  BY <1>1, <1>2 DEF Numbered
<1>5. \A r : r \in DOMAIN next.files <=> r \in DOMAIN repo.files
  BY <1>2
<1>6. Numbered(next)
  BY <1>4, <1>5 DEF Numbered, Has
<1>7. QED
  BY <1>3, <1>6 DEF next

\* So do the people who sign.
LEMMA SignNumbered ==
    ASSUME NEW repo, Numbered(repo), NEW roles, \A r \in roles : r \in DOMAIN repo.files,
           NEW key
    PROVE  Numbered(Sign(repo, roles, key)) /\ SameVersions(repo, Sign(repo, roles, key))
<1> DEFINE new == [r \in roles |-> [repo.files[r] EXCEPT !.sigs = @ \cup {key}]]
<1>1. \A r \in DOMAIN new : r \in DOMAIN repo.files /\ Resigned(repo.files[r], new[r])
  BY DEF Resigned
<1>2. Sign(repo, roles, key) = With(repo, new)
  BY DEF Sign
<1> HIDE DEF new
<1>3. QED
  BY <1>1, <1>2, SigningNumbered

\* The signatures of the online keys do, too.
LEMMA SignOnlineNumbered ==
    ASSUME NEW repo, Numbered(repo), NEW roles, \A r \in roles : r \in DOMAIN repo.files,
           NEW config, NEW base
    PROVE  LET next == SignOnline(config, base, repo, roles)
           IN  Numbered(next) /\ SameVersions(repo, next)
<1> DEFINE new == [r \in roles |->
                     [repo.files[r] EXCEPT !.sigs =
                        @ \cup (MissingKeys(repo, base, r) \cap config.online)]]
<1>1. \A r \in DOMAIN new : r \in DOMAIN repo.files /\ Resigned(repo.files[r], new[r])
  BY DEF Resigned
<1>2. SignOnline(config, base, repo, roles) = With(repo, new)
  BY DEF SignOnline
<1> HIDE DEF new
<1>3. QED
  BY <1>1, <1>2, SigningNumbered

\* git's merges take each file from one side or the other, at its version.
LEMMA MergeNumbered ==
    ASSUME NEW base, NEW ours, NEW theirs, WithTargets(base), WithTargets(ours), WithTargets(theirs)
    PROVE  WithTargets(MergedRepo(base, ours, theirs))
<1> DEFINE M == Merged(base.files, ours.files, theirs.files)
           At3(n) == Pick(At(base.files, n), At(ours.files, n), At(theirs.files, n))
<1>1. ASSUME NEW n \in DOMAIN M
      PROVE  \/ n \in DOMAIN ours.files /\ M[n] = ours.files[n]
             \/ n \in DOMAIN theirs.files /\ M[n] = theirs.files[n]
  <2>1. At3(n) # {} /\ M[n] = CHOOSE v \in At3(n) : TRUE
    BY DEF Merged
  <2>2. M[n] \in At3(n)
    BY <2>1
  <2>3. At3(n) = At(ours.files, n) \/ At3(n) = At(theirs.files, n)
    BY DEF Pick
  <2> HIDE DEF M, At3
  <2>4. QED
    BY <2>2, <2>3 DEF At
<1>2. MergedRepo(base, ours, theirs).files = M
  BY DEF MergedRepo
<1>3. "targets" \in DOMAIN M
  BY DEF WithTargets, Has, Merged, Pick, At
<1> HIDE DEF M
<1>4. QED
  BY <1>1, <1>2, <1>3 DEF WithTargets, Numbered, Has

\* A valid config orders delegated roles.
LEMMA ValidOrder ==
    ASSUME NEW config, Valid(config)
    PROVE  IsOrder(config.order)
BY DEF Valid, IsOrder

\* A config delegates in its order.
LEMMA DelegationsOrdinary ==
    ASSUME NEW config, IsOrder(config.order)
    PROVE  Ordinary(ConfigDelegations(config))
<1> DEFINE dels == ConfigDelegations(config)
<1>1. /\ DOMAIN dels = DOMAIN config.order
      /\ \A i \in DOMAIN config.order : dels[i].name = config.order[i]
  BY DEF ConfigDelegations
<1>2. Len(dels) = Len(config.order)
  BY DEF IsOrder, ConfigDelegations
<1>3. \A i \in DOMAIN config.order : config.order[i] \in ToSet(config.order)
  BY DEF ToSet
<1> HIDE DEF dels
<1>4. QED
  BY <1>1, <1>2, <1>3 DEF Ordinary, IsOrder, TopLevel, dels

\* `apply_config` counts on too, for a config that orders delegated roles only.
LEMMA ApplyNumbered ==
    ASSUME NEW repo, NEW config, NEW former, NEW day, Numbered(repo), IsOrder(config.order)
    PROVE  WithTargets(ApplyConfig(repo, config, former, repo, day))
<1> DEFINE dels == ConfigDelegations(config)
           Body(role, d) == [targets |-> Regrouped(repo, dels, role), delegations |-> d]
           b1 == Entry("root", RootBody(config))
           rooted == Update(repo, repo, b1, config, former, day)
           kept == WithoutRolesNotIn(config, rooted)
           b2 == Entry("targets", Body("targets", dels))
           top == Update(kept, repo, b2, config, former, day)
           b3 == [r \in ToSet(config.order) |-> Body(r, <<>>)]
           all == Update(top, repo, b3, config, former, day)
<1>1. ApplyConfig(repo, config, former, repo, day) = all
  BY DEF ApplyConfig, ApplyDelegations
<1>2. /\ "snapshot" \notin DOMAIN b1
      /\ "snapshot" \notin DOMAIN b2
      /\ "snapshot" \notin DOMAIN b3
      /\ "targets" \notin DOMAIN b1
      /\ "targets" \notin DOMAIN b3
  BY DEF Entry, TopLevel, IsOrder
<1>9. "targets" \in DOMAIN b2 /\ Delegating(b2["targets"])
  <2>1. Ordinary(dels)
    BY DelegationsOrdinary
  <2> HIDE DEF dels
  <2>2. "targets" \in DOMAIN b2 /\ b2["targets"] = Body("targets", dels)
    BY DEF Entry
  <2> HIDE DEF b2
  <2>3. QED
    BY <2>1, <2>2 DEF Delegating
<1> HIDE DEF b1, b2, b3
<1>3. Numbered(rooted)
  BY <1>2, UpdateNumbered
<1>4. rooted = [files |-> rooted.files, history |-> rooted.history]
  BY UpdateIs
<1> HIDE DEF rooted
<1>5. Numbered(kept)
  <2> DEFINE lit == [files |-> rooted.files, history |-> rooted.history]
             names == DOMAIN rooted.files \cap (TopLevel \cup DOMAIN config.roles)
             files == [r \in names |-> rooted.files[r]]
  <2>1. [lit EXCEPT !.files = [r \in DOMAIN @ \cap (TopLevel \cup DOMAIN config.roles) |-> @[r]]]
           = [files |-> files, history |-> rooted.history]
    OBVIOUS
  <2>2. kept.files = files
    <3> HIDE DEF lit, files
    <3>1. kept = [files |-> files, history |-> rooted.history]
      BY <1>4, <2>1 DEF WithoutRolesNotIn, lit
    <3>2. QED
      BY <3>1
  <2>3. \A r \in DOMAIN files : r \in DOMAIN rooted.files /\ files[r] = rooted.files[r]
    OBVIOUS
  <2> HIDE DEF kept, files
  <2>4. QED
    BY <1>3, <2>2, <2>3 DEF Numbered, Has
<1> HIDE DEF kept
<1>6. Numbered(top) /\ "targets" \in DOMAIN top.files
  BY <1>2, <1>5, <1>9, UpdateNumbered, UpdateIs
<1> HIDE DEF top
<1>7. Numbered(all) /\ "targets" \in DOMAIN all.files
  BY <1>2, <1>6, UpdateNumbered, UpdateIs
<1>8. QED
  BY <1>1, <1>7 DEF WithTargets, Has

\* The snapshot lists the versions there are.
LEMMA SnapshotNumbers ==
    ASSUME NEW repo, Numbered(repo)
    PROVE  Numbers(SnapshotBody(repo))
<1> DEFINE mine == [r \in TargetsRoles(repo) |-> repo.files[r].version]
           old == IF Has(repo, "snapshot") /\ Trusts(repo, "snapshot", repo.files["snapshot"])
                  THEN repo.files["snapshot"].body
                  ELSE <<>>
<1>1. Numbers(mine)
  BY DEF Numbers, Numbered, IsVersion, TargetsRoles
<1>2. Numbers(old)
  BY DEF Numbers, Numbered
<1>3. SnapshotBody(repo) = Over(mine, old)
  BY DEF SnapshotBody
<1> HIDE DEF mine, old
<1>4. QED
  BY <1>1, <1>2, <1>3, OverIs DEF Numbers

\* `update_online` counts on, and takes no role away.
LEMMA UpdateOnlineNumbered ==
    ASSUME NEW repo, NEW config, NEW former, NEW day, Numbered(repo)
    PROVE  LET next == UpdateOnline(repo, config, former, day)
           IN  /\ Numbered(next)
               /\ \A r \in DOMAIN repo.files \cup {"snapshot", "timestamp"} : r \in DOMAIN next.files
<1> DEFINE mine == {r \in TargetsRoles(repo) : CiSigns(config, r)}
           b1 == [r \in mine |-> repo.files[r].body]
           r1 == Update(repo, repo, b1, config, former, day)
           b2 == Entry("snapshot", SnapshotBody(r1))
           r2 == Update(r1, repo, b2, config, former, day)
           b3 == Entry("timestamp", r2.files["snapshot"].version)
           r3 == Update(r2, repo, b3, config, former, day)
<1>1. UpdateOnline(repo, config, former, day) = r3
  BY DEF UpdateOnline
<1>2. /\ "snapshot" \notin DOMAIN b1
      /\ "targets" \in DOMAIN b1 => Delegating(b1["targets"])
  BY DEF TargetsRoles, Numbered, Has
<1> HIDE DEF b1
<1>3. Numbered(r1) /\ \A r \in DOMAIN repo.files : r \in DOMAIN r1.files
  BY <1>2, UpdateNumbered, UpdateIs
<1> HIDE DEF r1
<1>4. /\ Numbers(b2["snapshot"]) /\ "snapshot" \in DOMAIN b2
      /\ "targets" \notin DOMAIN b2
  BY <1>3, SnapshotNumbers DEF Entry
<1> HIDE DEF b2
<1>5. Numbered(r2) /\ \A r \in DOMAIN r1.files \cup {"snapshot"} : r \in DOMAIN r2.files
  BY <1>3, <1>4, UpdateNumbered, UpdateIs
<1>6. "snapshot" \notin DOMAIN b3 /\ "targets" \notin DOMAIN b3 /\ "timestamp" \in DOMAIN b3
  BY DEF Entry
<1> HIDE DEF b3, r2
<1>7. Numbered(r3) /\ \A r \in DOMAIN r2.files \cup {"timestamp"} : r \in DOMAIN r3.files
  BY <1>5, <1>6, UpdateNumbered, UpdateIs
<1> HIDE DEF r3
<1>8. QED
  BY <1>1, <1>3, <1>5, <1>7

\* Versions compare.
LEMMA VersionsCompare ==
    ASSUME NEW repo, Numbered(repo)
    PROVE  /\ \A r \in DOMAIN repo.files : repo.files[r].version \in Nat
           /\ NotOlder(repo, repo)
<1>1. \A r \in DOMAIN repo.files : repo.files[r].version \in Nat
  BY DEF Numbered, IsVersion
<1>2. QED
  BY <1>1 DEF NotOlder

\* Signing does not make a role older.
LEMMA SignedNotOlder ==
    ASSUME NEW base, NEW head, NEW next, NotOlder(base, head), SameVersions(head, next)
    PROVE  NotOlder(base, next)
BY DEF NotOlder, SameVersions, Has

\* `tufops apply` starts with no role at an older version than main.
LEMMA ApplyNotOlder ==
    ASSUME NEW repo, NEW config, NEW former, NEW day, Numbered(repo), Valid(config)
    PROVE  LET head == ApplyConfig(repo, config, former, repo, day)
           IN  WithTargets(head) /\ NotOlder(repo, head)
<1> DEFINE head == ApplyConfig(repo, config, former, repo, day)
           New(r) == NewVersion(repo, r, NewBody(repo, config, r), config, day)
<1>1. IsOrder(config.order)
  BY ValidOrder
<1>2. WithTargets(head)
  BY <1>1, ApplyNumbered
<1>3. /\ \A r : r \in DOMAIN head.files => r \in DOMAIN config.roles
      /\ \A r \in {"snapshot", "timestamp"} : Has(repo, r) => head.files[r] = repo.files[r]
      /\ \A r \in DOMAIN config.roles : r \notin {"snapshot", "timestamp"} =>
            \/ Kept(repo, config, r, NewBody(repo, config, r), head.files[r], day)
            \/ head.files[r] = New(r)
  BY ApplyIs
<1> HIDE DEF head
<1>4. ASSUME NEW r \in DOMAIN repo.files, Has(head, r)
      PROVE  head.files[r].version >= repo.files[r].version
  <2>1. repo.files[r].version \in Nat
    BY DEF Numbered, IsVersion
  <2>2. CASE head.files[r] = repo.files[r]
    BY <2>1, <2>2
  <2>3. CASE head.files[r] = New(r)
    BY <2>1, <2>3 DEF NewVersion, Has
  <2>4. QED
    BY <1>3, <1>4, <2>2, <2>3 DEF Has, Kept
<1>5. NotOlder(repo, head)
  BY <1>4 DEF NotOlder
<1>6. QED
  BY <1>2, <1>5 DEF head

\* Nor do changes of what the roles list: `add` and `rm`.
LEMMA AddNotOlder ==
    ASSUME NEW repo, NEW config, NEW new, NEW day, WithTargets(repo)
    PROVE  LET head == AddTargets(repo, config, repo, new, day)
           IN  WithTargets(head) /\ NotOlder(repo, head)
<1> DEFINE RoleOf(p) == DelegatedRole(Delegations(repo), p)
           Into(r) == [p \in {p \in DOMAIN new : RoleOf(p) = r} |-> new[p]]
           bodies == [r \in {RoleOf(p) : p \in DOMAIN new} |->
                        [repo.files[r].body EXCEPT !.targets = Over(Into(r), @)]]
           head == Update(repo, repo, bodies, config, NoConfig, day)
<1>1. AddTargets(repo, config, repo, new, day) = head
  BY DEF AddTargets
<1>2. Ordinary(Delegations(repo))
  BY DEF WithTargets, Numbered, Delegating, Delegations
<1>3. \A p : RoleOf(p) # "snapshot"
  BY <1>2, DelegatedRoleAmong DEF Ordinary
<1>4. "snapshot" \notin DOMAIN bodies
  BY <1>3
<1>5. "targets" \in DOMAIN bodies => Delegating(bodies["targets"])
  <2> DEFINE body == repo.files["targets"].body
             listed == Over(Into("targets"), body.targets)
             lit == [targets |-> body.targets, delegations |-> body.delegations]
             next == [targets |-> listed, delegations |-> body.delegations]
  <2>1. body = lit /\ Ordinary(body.delegations)
    BY DEF WithTargets, Numbered, Delegating
  <2>2. "targets" \in DOMAIN bodies => bodies["targets"] = [body EXCEPT !.targets = listed]
    OBVIOUS
  <2> HIDE DEF bodies, body, listed, Into, RoleOf
  <2>3. [lit EXCEPT !.targets = listed] = next
    OBVIOUS
  <2>4. Delegating(next)
    BY <2>1 DEF Delegating
  <2> HIDE DEF lit, next
  <2>5. QED
    BY <2>1, <2>2, <2>3, <2>4
<1> HIDE DEF bodies
<1>6. WithTargets(head)
  BY <1>4, <1>5, UpdateNumbered, UpdateIs DEF WithTargets, Has
<1>7. NotOlder(repo, head)
  BY VersionsCompare, UpdateNotOlder DEF WithTargets
<1> HIDE DEF head
<1>8. QED
  BY <1>1, <1>6, <1>7

LEMMA RemoveNotOlder ==
    ASSUME NEW repo, NEW config, NEW base, NEW paths, NEW day,
           WithTargets(repo), WithTargets(base), NotOlder(base, repo)
    PROVE  LET head == RemoveTargets(repo, config, base, paths, day)
           IN  WithTargets(head) /\ NotOlder(base, head)
<1> DEFINE holders == {r \in TargetsRoles(repo) : DOMAIN TargetsOf(repo, r) \cap paths # {}}
           bodies == [r \in holders |->
                        [repo.files[r].body EXCEPT !.targets = [p \in DOMAIN @ \ paths |-> @[p]]]]
           head == Update(repo, base, bodies, config, NoConfig, day)
<1>1. RemoveTargets(repo, config, base, paths, day) = head
  BY DEF RemoveTargets
<1>2. "snapshot" \notin DOMAIN bodies
  BY DEF TargetsRoles
<1>3. "targets" \in DOMAIN bodies => Delegating(bodies["targets"])
  <2> DEFINE body == repo.files["targets"].body
             listed == [p \in DOMAIN body.targets \ paths |-> body.targets[p]]
             lit == [targets |-> body.targets, delegations |-> body.delegations]
             next == [targets |-> listed, delegations |-> body.delegations]
  <2>1. body = lit /\ Ordinary(body.delegations)
    BY DEF WithTargets, Numbered, Delegating
  <2>2. "targets" \in DOMAIN bodies => bodies["targets"] = [body EXCEPT !.targets = listed]
    OBVIOUS
  <2> HIDE DEF bodies, body, listed
  <2>3. [lit EXCEPT !.targets = listed] = next
    OBVIOUS
  <2>4. Delegating(next)
    BY <2>1 DEF Delegating
  <2> HIDE DEF lit, next
  <2>5. QED
    BY <2>1, <2>2, <2>3, <2>4
<1> HIDE DEF bodies
<1>4. WithTargets(head)
  BY <1>2, <1>3, UpdateNumbered, UpdateIs DEF WithTargets, Has
<1>5. NotOlder(base, head)
  BY UpdateNotOlder DEF WithTargets
<1> HIDE DEF head
<1>6. QED
  BY <1>1, <1>4, <1>5

\* What CI makes of a commit on main.
LEMMA OnlineNumbered ==
    ASSUME NEW at, WithTargets(at.repo)
    PROVE  WithTargets(OnlineUpdate(at))
<1> DEFINE updated == UpdateOnline(at.repo, at.config, at.previous, now)
           changed == Changed(at.repo, updated)
<1>1. Numbered(updated) /\ \A r \in DOMAIN at.repo.files : r \in DOMAIN updated.files
  BY UpdateOnlineNumbered DEF WithTargets
<1>2. OnlineUpdate(at) = SignOnline(at.config, at.repo, updated, changed)
  BY DEF OnlineUpdate
<1> HIDE DEF updated
<1>3. \A r \in changed : r \in DOMAIN updated.files
  BY <1>1 DEF Changed
<1> HIDE DEF changed
<1>4. Numbered(OnlineUpdate(at)) /\ SameVersions(updated, OnlineUpdate(at))
  BY <1>1, <1>2, <1>3, SignOnlineNumbered
<1>5. QED
  BY <1>1, <1>4 DEF SameVersions, WithTargets, Has

\* sign/refresh has some roles of what CI checked out, and some renewed.
LEMMA RefreshNumbered ==
    ASSUME NEW at, NEW onto, WithTargets(at.repo), IsOrder(at.config.order)
    PROVE  WithTargets(RefreshOf(at, onto).head)
<1> DEFINE renewed == Renewed(at)
           head == WithRolesFrom(at.repo, renewed, DueOffline(at))
           saved == [head EXCEPT !.history = Over(@, onto.repo.history)]
<1>1. WithTargets(renewed)
  BY ApplyNumbered DEF Renewed, WithTargets
<1> HIDE DEF renewed
<1>7. "targets" \in DOMAIN head.files
  BY <1>1 DEF WithRolesFrom, WithTargets, Has
<1>2. \A r \in DOMAIN head.files :
         \/ r \in DOMAIN renewed.files /\ head.files[r] = renewed.files[r]
         \/ r \in DOMAIN at.repo.files /\ head.files[r] = at.repo.files[r]
  BY DEF WithRolesFrom
<1>3. head = [files |-> head.files, history |-> head.history]
  BY DEF WithRolesFrom
<1>4. RefreshOf(at, onto).head = saved
  BY DEF RefreshOf, renewed
<1> HIDE DEF head
<1>5. saved.files = head.files
  <2> DEFINE lit == [files |-> head.files, history |-> head.history]
             next == [files |-> head.files, history |-> Over(head.history, onto.repo.history)]
  <2>1. [lit EXCEPT !.history = Over(@, onto.repo.history)] = next
    OBVIOUS
  <2>2. saved = next
    <3> HIDE DEF next
    <3>1. QED
      BY <1>3, <2>1
  <2>3. QED
    BY <2>2
<1> HIDE DEF saved
<1>6. QED
  BY <1>1, <1>2, <1>4, <1>5, <1>7 DEF Numbered, Has, WithTargets

\* The repository that tufops starts with.
LEMMA StartedNumbered ==
    ASSUME NEW config, Valid(config)
    PROVE  WithTargets(Started(config))
<1> DEFINE applied == ApplyConfig(EmptyRepo, config, NoConfig, EmptyRepo, 0)
           new == [r \in EventRoles(applied) |->
                     [applied.files[r] EXCEPT !.sigs = RoleKeys(applied, r).keys]]
           first == SignedByAll(applied)
           online == UpdateOnline(first, config, NoConfig, 0)
           both == {"snapshot", "timestamp"}
<1>1. WithTargets(applied)
  <2>1. Numbered(EmptyRepo)
    BY DEF Numbered, EmptyRepo, Has
  <2>2. QED
    BY <2>1, ValidOrder, ApplyNumbered
<1> HIDE DEF applied
<1>2. WithTargets(first)
  <2>1. \A r \in DOMAIN new : r \in DOMAIN applied.files /\ Resigned(applied.files[r], new[r])
    BY DEF Resigned, EventRoles
  <2>2. first = With(applied, new)
    BY DEF SignedByAll
  <2> HIDE DEF new, first
  <2>3. Numbered(first) /\ SameVersions(applied, first)
    BY <1>1, <2>1, <2>2, SigningNumbered DEF WithTargets
  <2>4. QED
    BY <1>1, <2>3 DEF SameVersions, WithTargets, Has
<1> HIDE DEF first
<1>3. /\ Numbered(online)
      /\ \A r \in both \cup {"targets"} : r \in DOMAIN online.files
  BY <1>2, UpdateOnlineNumbered DEF WithTargets, Has
<1> HIDE DEF online
<1>4. Started(config) = SignOnline(config, first, online, both)
  BY DEF Started, first, applied, online
<1>5. Numbered(Started(config)) /\ SameVersions(online, Started(config))
  BY <1>3, <1>4, SignOnlineNumbered
<1>6. QED
  BY <1>3, <1>5 DEF SameVersions, WithTargets, Has

-------------------------------------------------------------------------------
(* Configs keep their roles *)

\* The configs there are to start from have them.
LEMMA GivenConfig ==
    ASSUME NEW c \in Configs
    PROVE  HasRoles(c)
<1>1. Valid(c)
  BY ConfigsAssumption
<1>2. IsOrder(c.order)
  BY <1>1, ValidOrder
<1>3. QED
  BY <1>1, <1>2, RolesOfConfig DEF HasRoles, ConfigRoles

\* A merge takes each role from the one side or the other, and drops none
\* that both have.
LEMMA MergedHasRoles ==
    ASSUME NEW old, NEW config, NEW new, HasRoles(old), HasRoles(config), HasRoles(new)
    PROVE  HasRoles(MergedConfig(old, config, new))
<1> DEFINE At3(n) == Pick(At(old.roles, n), At(config.roles, n), At(new.roles, n))
           roles == Merged(old.roles, config.roles, new.roles)
<1>1. \A n : n \in DOMAIN roles <=> /\ n \in DOMAIN config.roles \/ n \in DOMAIN new.roles
                                    /\ At3(n) # {}
  BY DEF Merged
<1>2. \A r \in TopLevel : At3(r) # {}
  BY DEF HasRoles, Pick, At
<1>3. /\ DOMAIN MergedConfig(old, config, new).roles = DOMAIN roles
      /\ \/ MergedConfig(old, config, new).order = config.order
         \/ MergedConfig(old, config, new).order = new.order
  BY DEF MergedConfig, MergedRoles, Pick
<1> HIDE DEF At3, roles
<1>4. QED
  BY <1>1, <1>2, <1>3 DEF HasRoles

\* So does the merge of an event with main.
LEMMA MergeHasRoles ==
    ASSUME NEW ev, IsCiEvent(ev), CInv
    PROVE  HasRoles(MergeOf(ev).config) /\ WithTargets(MergeOf(ev).repo)
<1>1. /\ HasRoles(main.config) /\ HasRoles(ev.old) /\ HasRoles(ev.config)
      /\ WithTargets(ev.base) /\ WithTargets(main.repo) /\ WithTargets(ev.head)
  BY DEF CInv, ConfigsInv, IsCiEvent
<1>2. QED
  BY <1>1, MergedHasRoles, MergeNumbered DEF MergeOf

\* An event that main contains is one still.
LEMMA LandedIsEvent ==
    ASSUME NEW ev, IsCiEvent(ev)
    PROVE  IsCiEvent(Landed(ev))
<1> DEFINE lit == [kind |-> ev.kind, base |-> ev.base, old |-> ev.old,
                   head |-> ev.head, config |-> ev.config, intent |-> ev.intent]
           one == [kind |-> ev.kind, base |-> ev.head, old |-> ev.old,
                   head |-> ev.head, config |-> ev.config, intent |-> ev.intent]
           two == [kind |-> ev.kind, base |-> ev.head, old |-> ev.config,
                   head |-> ev.head, config |-> ev.config, intent |-> ev.intent]
<1>1. ev = lit
  BY DEF IsCiEvent
<1>2. [lit EXCEPT !.base = ev.head] = one
  OBVIOUS
<1>3. [one EXCEPT !.old = ev.config] = two
  OBVIOUS
<1>4. Landed(ev) = [[ev EXCEPT !.base = ev.head] EXCEPT !.old = ev.config]
  BY DEF Landed
<1> HIDE DEF lit, one
<1>5. Landed(ev) = two
  BY <1>1, <1>2, <1>3, <1>4
<1>6. NotOlder(ev.head, ev.head)
  BY VersionsCompare DEF IsCiEvent, WithTargets
<1>7. IsCiEvent(two)
  BY <1>6 DEF IsCiEvent
<1>8. QED
  BY <1>5, <1>7

-------------------------------------------------------------------------------
(* Runs on events *)

\* A map with an entry put in or replaced.
LEMMA OverEntry ==
    ASSUME NEW x, NEW value, NEW f
    PROVE  /\ \A n : n \in DOMAIN Over(Entry(x, value), f) <=> n = x \/ n \in DOMAIN f
           /\ Over(Entry(x, value), f)[x] = value
           /\ \A n \in DOMAIN f : n # x => Over(Entry(x, value), f)[n] = f[n]
BY OverIs, EntryIs

\* A map that an entry is taken out of.
LEMMA WithoutIs ==
    ASSUME NEW f, NEW x
    PROVE  /\ \A n : n \in DOMAIN Without(f, x) <=> n \in DOMAIN f /\ n # x
           /\ \A n \in DOMAIN f : n # x => Without(f, x)[n] = f[n]
BY DEF Without

\* Fetching main and merging: the run goes on to push what it may merge into
\* the main it has just fetched, or it ends.
FetchedTo(e, ev) ==
    /\ \A n \in DOMAIN jobs' :
          \/ n # e /\ n \in DOMAIN jobs /\ jobs'[n] = jobs[n]
          \/ /\ n = e /\ IsJob(jobs'[e]) /\ e \in current'
             /\ jobs'[e].phase = "push" /\ jobs'[e].ev = ev
             /\ MayPush(jobs'[e])
    /\ \A n \in DOMAIN jobs : n # e => n \in DOMAIN jobs'
    /\ \A n \in current' : n # e => n \in current
    /\ e \in current' => e \in DOMAIN jobs'
    /\ ready' \subseteq DOMAIN events /\ failed' \subseteq DOMAIN events
    /\ pulls' \subseteq DOMAIN events

\* Statuses and failures are of open events.
LEMMA StatusOfOpen ==
    ASSUME CInv, NEW e, NEW ev
    PROVE  WithStatus(e, ev) \subseteq DOMAIN events
BY DEF WithStatus, AtTip, CInv, BranchesInv

LEMMA FailureOfOpen ==
    ASSUME CInv, NEW e, NEW ev
    PROVE  Failed(e, ev) \subseteq DOMAIN events
BY DEF Failed, AtTip, CInv, BranchesInv

\* That is what fetching does.
LEMMA FetchIs ==
    ASSUME CInv, NEW e, NEW ev, IsCiEvent(ev), NEW attempt \in 1 .. MaxAttempts,
           Fetch(e, ev, attempt)
    PROVE  FetchedTo(e, ev)
<1> DEFINE m == MergeOf(ev)
           auto == Goes(ev) /\ Automatic(m)
           job == [ev |-> ev, attempt |-> attempt, phase |-> "push", merged |-> m]
<1>1. /\ ready' \subseteq DOMAIN events /\ failed' \subseteq DOMAIN events
      /\ pulls' \subseteq DOMAIN events
  BY StatusOfOpen, FailureOfOpen DEF Fetch, CInv, BranchesInv
<1>2. \/ /\ auto
         /\ jobs' = Over(Entry(e, job), jobs) /\ current' = current \cup {e}
      \/ /\ ~auto
         /\ jobs' = Without(jobs, e) /\ current' = current \ {e}
  BY DEF Fetch
<1>3. CASE /\ auto
           /\ jobs' = Over(Entry(e, job), jobs) /\ current' = current \cup {e}
  <2>1. HasRoles(m.config) /\ WithTargets(m.repo)
    BY MergeHasRoles
  <2>2. IsJob(job)
    BY <2>1 DEF IsJob
  <2>3. job.phase = "push" /\ job.ev = ev /\ job.merged = m
    OBVIOUS
  <2>4. MayPush(job)
    BY <1>3, <2>3 DEF MayPush, MayMerge, Goes
  <2> HIDE DEF job, m
  <2>5. /\ \A n : n \in DOMAIN jobs' <=> n = e \/ n \in DOMAIN jobs
        /\ jobs'[e] = job
        /\ \A n \in DOMAIN jobs : n # e => jobs'[n] = jobs[n]
    BY <1>3, OverEntry
  <2>6. QED
    BY <1>1, <1>3, <2>2, <2>3, <2>4, <2>5 DEF FetchedTo, m
<1>4. CASE /\ ~auto
           /\ jobs' = Without(jobs, e) /\ current' = current \ {e}
  BY <1>1, <1>4, WithoutIs DEF FetchedTo
<1>5. QED
  BY <1>2, <1>3, <1>4

\* What a step that fetches main leaves of the invariant.
LEMMA FetchKeeps ==
    ASSUME CInv, NEW e \in Branches, NEW ev, FetchedTo(e, ev),
           UNCHANGED <<vars, mainPhase, mainJob, issue>>,
           \A n \in DOMAIN waiting' : n \in Branches /\ IsCiEvent(waiting'[n])
    PROVE  CInv'
<1> USE DEF CInv
<1>1. ConfigsInv'
  <2>1. \A n \in DOMAIN jobs' : IsJob(jobs'[n])
    BY DEF ConfigsInv, FetchedTo
  <2>2. QED
    BY <2>1 DEF ConfigsInv, vars
<1>2. BranchesInv'
  BY DEF BranchesInv, FetchedTo, vars
<1>3. CurrentInv'
  <2>1. \A job : MayPush(job)' <=> MayPush(job)
    BY DEF MayPush, MayMerge, MergesCleanly, MergeOf, Automatic, vars
  <2>2. \A n \in DOMAIN jobs' : n \in current' => jobs'[n].phase = "push" /\ MayPush(jobs'[n])
    BY DEF CurrentInv, FetchedTo
  <2>3. e # "main"
    BY CiAssumption DEF Branches
  <2>4. QED
    BY <2>1, <2>2, <2>3 DEF CurrentInv, FetchedTo, vars
<1>4. QED
  BY <1>1, <1>2, <1>3

\* A run that starts, on the commit that waits.
LEMMA StartRunKeeps ==
    ASSUME CInv, NEW e \in Branches, StartRun(e)
    PROVE  CInv' /\ FetchedTo(e, waiting[e])
<1>1. /\ e \in DOMAIN waiting
      /\ Fetch(e, waiting[e], 1)
      /\ waiting' = Without(waiting, e)
      /\ UNCHANGED <<vars, mainPhase, mainJob, issue>>
  BY DEF StartRun, CanStart
<1>2. IsCiEvent(waiting[e]) /\ 1 \in 1 .. MaxAttempts
  BY <1>1 DEF CInv, ConfigsInv, MaxAttempts
<1>3. FetchedTo(e, waiting[e])
  BY <1>1, <1>2, FetchIs
<1>4. \A n \in DOMAIN waiting' : n \in Branches /\ IsCiEvent(waiting'[n])
  BY <1>1, WithoutIs DEF CInv, ConfigsInv, BranchesInv
<1>5. QED
  BY <1>1, <1>3, <1>4, FetchKeeps

\* A run that ends in failure.
LEMMA FailedRun ==
    ASSUME CInv, NEW e \in Branches, NEW ev,
           jobs' = Without(jobs, e), current' = current \ {e},
           failed' = Failed(e, ev), ready' \in {ready, WithStatus(e, ev)}, pulls' = pulls
    PROVE  /\ FetchedTo(e, ev)
           /\ \A n \in DOMAIN jobs' : n \in DOMAIN jobs /\ jobs'[n] = jobs[n]
<1>1. /\ ready' \subseteq DOMAIN events /\ failed' \subseteq DOMAIN events
      /\ pulls' \subseteq DOMAIN events
  BY StatusOfOpen, FailureOfOpen DEF CInv, BranchesInv
<1>2. QED
  BY <1>1, WithoutIs DEF FetchedTo

\* A run whose push fails.
LEMMA MergeAgainKeeps ==
    ASSUME CInv, NEW e \in Branches, MergeAgain(e)
    PROVE  /\ CInv'
           /\ \A n \in DOMAIN jobs' : jobs'[n].phase = "delete" =>
                 n \in DOMAIN jobs /\ jobs[n].phase = "delete"
<1>1. /\ e \in DOMAIN jobs
      /\ UNCHANGED <<vars, waiting, mainPhase, mainJob, issue>>
  BY DEF MergeAgain, Reached
<1>2. IsJob(jobs[e])
  BY <1>1 DEF CInv, ConfigsInv
<1>3. FetchedTo(e, jobs[e].ev)
  <2>1. CASE jobs[e].attempt < MaxAttempts
    <3>1. Fetch(e, jobs[e].ev, jobs[e].attempt + 1)
      BY <2>1 DEF MergeAgain
    <3>2. IsCiEvent(jobs[e].ev) /\ jobs[e].attempt + 1 \in 1 .. MaxAttempts
      BY <1>2, <2>1 DEF IsJob, MaxAttempts
    <3>3. QED
      BY <3>1, <3>2, FetchIs
  <2>2. CASE ~(jobs[e].attempt < MaxAttempts)
    BY <2>2, FailedRun DEF MergeAgain
  <2>3. QED
    BY <2>1, <2>2
<1>4. \A n \in DOMAIN waiting' : n \in Branches /\ IsCiEvent(waiting'[n])
  BY <1>1 DEF CInv, ConfigsInv, BranchesInv
<1>5. CInv'
  BY <1>1, <1>3, <1>4, FetchKeeps
<1>6. QED
  BY <1>3, <1>5 DEF FetchedTo

\* A run that fails anywhere.
LEMMA FailRunKeeps ==
    ASSUME CInv, NEW e \in Branches, FailRun(e)
    PROVE  /\ CInv'
           /\ \A n \in DOMAIN jobs' : n \in DOMAIN jobs /\ jobs'[n] = jobs[n]
<1> DEFINE ev == IF e \in DOMAIN jobs THEN jobs[e].ev ELSE waiting[e]
<1>1. /\ jobs' = Without(jobs, e) /\ current' = current \ {e}
      /\ ready' \in {ready, WithStatus(e, ev)} /\ failed' = Failed(e, ev)
      /\ waiting' = waiting \/ waiting' = Without(waiting, e)
      /\ UNCHANGED <<vars, mainPhase, mainJob, pulls, issue>>
  BY DEF FailRun
<1> HIDE DEF ev
<1>2. /\ FetchedTo(e, ev)
      /\ \A n \in DOMAIN jobs' : n \in DOMAIN jobs /\ jobs'[n] = jobs[n]
  BY <1>1, FailedRun
<1>3. \A n \in DOMAIN waiting' : n \in Branches /\ IsCiEvent(waiting'[n])
  BY <1>1, WithoutIs DEF CInv, ConfigsInv, BranchesInv
<1>4. QED
  BY <1>1, <1>2, <1>3, FetchKeeps

\* A failed run that someone runs again.
LEMMA RerunKeeps ==
    ASSUME CInv, NEW e \in failed, Rerun(e)
    PROVE  CInv' /\ UNCHANGED <<main, jobs, mainPhase>>
<1>1. /\ waiting' = Over(Entry(e, events[e]), waiting)
      /\ failed' = failed \ {e}
      /\ UNCHANGED <<vars, jobs, current, mainPhase, mainJob, ready, pulls, issue>>
  BY DEF Rerun
<1>2. e \in Branches /\ IsCiEvent(events[e])
  BY DEF CInv, BranchesInv, ConfigsInv
<1>3. \A n \in DOMAIN waiting' : n \in Branches /\ IsCiEvent(waiting'[n])
  BY <1>1, <1>2, OverEntry DEF CInv, ConfigsInv, BranchesInv
<1>4. UNCHANGED <<main, events, fresh>>
  BY <1>1 DEF vars
<1>5. ConfigsInv'
  BY <1>1, <1>3, <1>4 DEF CInv, ConfigsInv
<1>6. BranchesInv'
  BY <1>1, <1>3, <1>4 DEF CInv, BranchesInv
<1>7. CurrentInv'
  BY <1>1, <1>4 DEF CInv, CurrentInv, MayPush, MayMerge, MergesCleanly, MergeOf, Automatic
<1>8. QED
  BY <1>1, <1>4, <1>5, <1>6, <1>7 DEF CInv

\* Events after one of them has landed.
LEMMA LandedInIs ==
    ASSUME NEW f, NEW e, \A n \in DOMAIN f : IsCiEvent(f[n])
    PROVE  /\ \A n : n \in DOMAIN LandedIn(f, e) <=> n \in DOMAIN f
           /\ \A n \in DOMAIN LandedIn(f, e) : IsCiEvent(LandedIn(f, e)[n])
BY LandedIsEvent DEF LandedIn

\* A job whose merge is on main.
LEMMA PushedJob ==
    ASSUME NEW job, IsJob(job)
    PROVE  LET next == [job EXCEPT !.phase = "delete", !.ev = Landed(@)]
           IN  IsJob(next) /\ next.phase = "delete"
<1> DEFINE lit == [ev |-> job.ev, attempt |-> job.attempt, phase |-> job.phase, merged |-> job.merged]
           one == [ev |-> job.ev, attempt |-> job.attempt, phase |-> "delete", merged |-> job.merged]
           two == [ev |-> Landed(job.ev), attempt |-> job.attempt, phase |-> "delete",
                   merged |-> job.merged]
<1>1. job = lit
  BY DEF IsJob
<1>2. [lit EXCEPT !.phase = "delete"] = one
  OBVIOUS
<1>3. [one EXCEPT !.ev = Landed(@)] = two
  OBVIOUS
<1>4. [job EXCEPT !.phase = "delete", !.ev = Landed(@)]
         = [[job EXCEPT !.phase = "delete"] EXCEPT !.ev = Landed(@)]
  OBVIOUS
<1> HIDE DEF lit, one
<1>5. [job EXCEPT !.phase = "delete", !.ev = Landed(@)] = two
  BY <1>1, <1>2, <1>3, <1>4
<1>6. IsCiEvent(Landed(job.ev))
  BY LandedIsEvent DEF IsJob
<1>7. IsJob(two) /\ two.phase = "delete"
  BY <1>6 DEF IsJob
<1> HIDE DEF two
<1>8. QED
  BY <1>5, <1>7

\* CI's push of a merge.
LEMMA PushMergeKeeps ==
    ASSUME CInv, NEW e \in Branches, PushMerge(e)
    PROVE  CInv'
<1>1. /\ e \in DOMAIN jobs /\ e \in current
      /\ main' = jobs[e].merged /\ current' = {}
      /\ jobs' = [jobs EXCEPT ![e].phase = "delete", ![e].ev = Landed(@)]
      /\ events' = events \/ events' = LandedIn(events, e)
      /\ UNCHANGED <<fresh, now, validity, waiting, mainPhase, mainJob, ready, failed, pulls, issue>>
  BY DEF PushMerge, Reached, Advance
<1>2. \A n \in DOMAIN events : IsCiEvent(events[n])
  BY DEF CInv, ConfigsInv
<1>3. /\ \A n : n \in DOMAIN events' <=> n \in DOMAIN events
      /\ \A n \in DOMAIN events' : IsCiEvent(events'[n])
  BY <1>1, <1>2, LandedInIs
<1>4. /\ DOMAIN jobs' = DOMAIN jobs
      /\ jobs'[e] = [jobs[e] EXCEPT !.phase = "delete", !.ev = Landed(@)]
      /\ \A n \in DOMAIN jobs : n # e => jobs'[n] = jobs[n]
  BY <1>1
<1>5. \A n \in DOMAIN jobs' : IsJob(jobs'[n])
  <2>1. \A n \in DOMAIN jobs : IsJob(jobs[n])
    BY DEF CInv, ConfigsInv
  <2>2. IsJob(jobs'[e])
    BY <1>1, <1>4, <2>1, PushedJob
  <2>3. QED
    BY <1>4, <2>1, <2>2
<1>6. HasRoles(main'.config) /\ WithTargets(main'.repo)
  BY <1>1 DEF CInv, ConfigsInv, IsJob
<1>7. ConfigsInv'
  BY <1>1, <1>3, <1>5, <1>6 DEF CInv, ConfigsInv
<1>8. BranchesInv'
  BY <1>1, <1>3, <1>4 DEF CInv, BranchesInv
<1>9. CurrentInv'
  BY <1>1 DEF CInv, CurrentInv
<1>10. QED
  BY <1>7, <1>8, <1>9 DEF CInv

\* The end of a run whose merge is on main.
LEMMA DeleteKeeps ==
    ASSUME CInv, NEW e \in Branches, Delete(e)
    PROVE  /\ CInv'
           /\ \A n \in DOMAIN jobs' : n \in DOMAIN jobs /\ jobs'[n] = jobs[n]
<1>1. e \in DOMAIN jobs /\ jobs[e].phase = "delete" /\ e \notin current
  BY DEF Delete, Reached, CInv, CurrentInv
<1>2. /\ jobs' = Without(jobs, e)
      /\ BranchIsGone(e)
      /\ UNCHANGED <<main, previous, fresh, now, validity, waiting, current, mainPhase, mainJob, issue>>
  BY DEF Delete
<1>3. /\ \A n \in DOMAIN jobs' : n # e /\ n \in DOMAIN jobs /\ jobs'[n] = jobs[n]
      /\ \A n \in DOMAIN jobs : n # e => n \in DOMAIN jobs'
  BY <1>2, WithoutIs
<1>4. /\ \A n \in DOMAIN events' : n \in DOMAIN events /\ events'[n] = events[n]
      /\ ready' \subseteq DOMAIN events' /\ failed' \subseteq DOMAIN events'
      /\ pulls' \subseteq DOMAIN events'
  BY <1>2, WithoutIs DEF BranchIsGone, CInv, BranchesInv
<1>5. ConfigsInv'
  BY <1>2, <1>3, <1>4 DEF CInv, ConfigsInv
<1>6. BranchesInv'
  BY <1>1, <1>2, <1>3, <1>4 DEF CInv, BranchesInv
<1>7. CurrentInv'
  <2>1. \A job : MayPush(job)' <=> MayPush(job)
    BY <1>2 DEF MayPush, MayMerge, MergesCleanly, MergeOf, Automatic
  <2>2. QED
    BY <1>2, <1>3, <2>1 DEF CInv, CurrentInv
<1>8. QED
  BY <1>3, <1>5, <1>6, <1>7 DEF CInv

-------------------------------------------------------------------------------
(* People, and the clock *)

\* What an event's branch has may change: no name is used again.
EventPushed(e) ==
    /\ \A n : n \in DOMAIN events' <=> n = e \/ n \in DOMAIN events
    /\ \A n \in DOMAIN events' : IsCiEvent(events'[n])
    /\ fresh' \subseteq fresh

\* An event that someone starts from main.
LEMMA StartPushes ==
    ASSUME CInv, NEW e, NEW kind, NEW head, NEW config, NEW intent,
           HasRoles(config), WithTargets(head), NotOlder(main.repo, head),
           Start(e, kind, head, config, intent)
    PROVE  EventPushed(e)
<1> DEFINE signed == SignOnline(config, main.repo, head, EventRoles(head))
           ev == [kind |-> kind, base |-> main.repo, old |-> main.config,
                  head |-> signed, config |-> config, intent |-> intent]
<1>1. events' = Over(Entry(e, ev), events) /\ fresh' = fresh \ {e}
  BY DEF Start
<1>2. Numbered(signed) /\ SameVersions(head, signed)
  <2>1. \A r \in EventRoles(head) : r \in DOMAIN head.files
    BY DEF EventRoles
  <2>2. QED
    BY <2>1, SignOnlineNumbered DEF WithTargets
<1> HIDE DEF signed
<1>3. WithTargets(signed) /\ NotOlder(main.repo, signed)
  BY <1>2, SignedNotOlder DEF SameVersions, WithTargets, Has
<1>4. IsCiEvent(ev)
  BY <1>3 DEF IsCiEvent, CInv, ConfigsInv
<1> HIDE DEF ev
<1>5. /\ \A n : n \in DOMAIN events' <=> n = e \/ n \in DOMAIN events
      /\ events'[e] = ev
      /\ \A n \in DOMAIN events : n # e => events'[n] = events[n]
  BY <1>1, OverEntry
<1>6. QED
  BY <1>1, <1>4, <1>5 DEF EventPushed, CInv, ConfigsInv

\* A push to an event's branch.
LEMMA PushEventKeeps ==
    ASSUME CInv, NEW e \in Branches, PushEvent(e)
    PROVE  CInv' /\ UNCHANGED <<main, jobs, mainPhase>>
<1>1. /\ UNCHANGED <<main, previous, now, validity>>
      /\ UNCHANGED <<jobs, current, mainPhase, mainJob, pulls, issue>>
      /\ waiting' = Over(Entry(e, events'[e]), waiting)
      /\ ready' = ready \ {e} /\ failed' = failed \ {e}
  BY DEF PushEvent, Apply, Add, Rm, Start, SignOffline, Pushed
<1>2. EventPushed(e)
  <2> DEFINE repo == main.repo
  <2>1. HasRoles(main.config) /\ WithTargets(repo) /\ NotOlder(repo, repo)
    BY VersionsCompare DEF CInv, ConfigsInv, WithTargets
  <2>3. ASSUME NEW c \in Configs, Apply(e, c)
        PROVE  EventPushed(e)
    <3>1. HasRoles(c) /\ Valid(c)
      BY GivenConfig, ConfigsAssumption
    <3>2. /\ WithTargets(ApplyConfig(repo, c, main.config, repo, now))
          /\ NotOlder(repo, ApplyConfig(repo, c, main.config, repo, now))
      BY <2>1, <3>1, ApplyNotOlder DEF WithTargets
    <3>3. QED
      BY <2>3, <3>1, <3>2, StartPushes DEF Apply
  <2>4. ASSUME NEW files \in LocalFiles, NEW dir \in Directories, Add(e, files, dir)
        PROVE  EventPushed(e)
    <3> DEFINE added == AddTargets(repo, main.config, repo, NewFiles(files), now)
               head == RemoveTargets(added, main.config, repo, Stale(files, dir), now)
    <3>1. WithTargets(added) /\ NotOlder(repo, added)
      BY <2>1, AddNotOlder
    <3>2. PICK intent : Start(e, "add", head, main.config, intent)
      BY <2>4 DEF Add
    <3> HIDE DEF added
    <3>3. WithTargets(head) /\ NotOlder(repo, head)
      BY <2>1, <3>1, RemoveNotOlder
    <3> HIDE DEF head
    <3>4. QED
      BY <2>1, <3>2, <3>3, StartPushes
  <2>5. ASSUME NEW paths \in SUBSET Paths, Rm(e, paths)
        PROVE  EventPushed(e)
    <3> DEFINE head == RemoveTargets(repo, main.config, repo, paths, now)
    <3>1. PICK intent : Start(e, "rm", head, main.config, intent)
      BY <2>5 DEF Rm
    <3>2. WithTargets(head) /\ NotOlder(repo, head)
      BY <2>1, RemoveNotOlder
    <3> HIDE DEF head
    <3>3. QED
      BY <2>1, <3>1, <3>2, StartPushes
  <2>2. ASSUME NEW k \in Keys, e \in DOMAIN events, SignOffline(e, k)
        PROVE  EventPushed(e)
    <3> DEFINE ev == events[e]
    <3>1. PICK roles \in SUBSET Needs(ev.base, ev.head, k) :
             events' = [events EXCEPT ![e].head = Sign(ev.head, roles, k)]
      BY <2>2 DEF SignOffline
    <3> DEFINE head == Sign(ev.head, roles, k)
               next == [kind |-> ev.kind, base |-> ev.base, old |-> ev.old,
                        head |-> head, config |-> ev.config, intent |-> ev.intent]
    <3>2. IsCiEvent(ev)
      BY <2>2 DEF CInv, ConfigsInv
    <3>3. WithTargets(head) /\ SameVersions(ev.head, head)
      <4>1. \A r \in roles : r \in DOMAIN ev.head.files
        BY DEF Needs, StatusRoles, EventRoles
      <4>2. WithTargets(ev.head)
        BY <3>2 DEF IsCiEvent
      <4> HIDE DEF ev
      <4>3. Numbered(head) /\ SameVersions(ev.head, head)
        BY <4>1, <4>2, SignNumbered DEF WithTargets
      <4>4. QED
        BY <4>2, <4>3 DEF SameVersions, WithTargets, Has
    <3> HIDE DEF head
    <3>4. ev.kind # "refresh" => NotOlder(ev.base, head)
      BY <3>2, <3>3, SignedNotOlder DEF IsCiEvent
    <3>5. [ev EXCEPT !.head = head] = next
      BY <3>2 DEF IsCiEvent
    <3>6. IsCiEvent(next)
      BY <3>2, <3>3, <3>4 DEF IsCiEvent
    <3>7. /\ DOMAIN events' = DOMAIN events
          /\ events'[e] = next
          /\ \A n \in DOMAIN events : n # e => events'[n] = events[n]
      BY <2>2, <3>1, <3>5 DEF head
    <3> HIDE DEF next
    <3>8. QED
      BY <2>2, <3>6, <3>7 DEF CInv, ConfigsInv, SignOffline, EventPushed
  <2>6. QED
    BY <2>2, <2>3, <2>4, <2>5 DEF PushEvent
<1>3. \A n \in DOMAIN waiting' : n \in Branches /\ IsCiEvent(waiting'[n])
  BY <1>1, <1>2, OverEntry DEF EventPushed, CInv, ConfigsInv, BranchesInv
<1>4. ConfigsInv'
  BY <1>1, <1>2, <1>3 DEF EventPushed, CInv, ConfigsInv
<1>5. BranchesInv'
  BY <1>1, <1>2, <1>3 DEF EventPushed, CInv, BranchesInv
<1>6. CurrentInv'
  BY <1>1 DEF CInv, CurrentInv, MayPush, MayMerge, MergesCleanly, MergeOf, Automatic
<1>7. QED
  BY <1>1, <1>4, <1>5, <1>6 DEF CInv

\* A pull request that a maintainer merges.
LEMMA MergePullKeeps ==
    ASSUME CInv, NEW e \in DOMAIN events, MergePull(e)
    PROVE  /\ CInv' /\ mainPhase' = mainPhase
           /\ \A n \in DOMAIN jobs' : n \in DOMAIN jobs /\ jobs'[n].phase = jobs[n].phase
<1>1. /\ main' = MergeOf(events[e]) /\ current' = {}
      /\ BranchIsGone(e)
      /\ waiting' = LandedIn(waiting, e)
      /\ jobs' = [n \in DOMAIN jobs |->
                    IF n = e THEN [jobs[n] EXCEPT !.ev = Landed(@)] ELSE jobs[n]]
      /\ UNCHANGED <<fresh, now, validity, mainPhase, mainJob, issue>>
  BY DEF MergePull, Advance
<1>2. HasRoles(main'.config) /\ WithTargets(main'.repo)
  BY <1>1, MergeHasRoles DEF CInv, ConfigsInv
<1>3. /\ \A n \in DOMAIN events' : n \in DOMAIN events /\ events'[n] = events[n]
      /\ ready' \subseteq DOMAIN events' /\ failed' \subseteq DOMAIN events'
      /\ pulls' \subseteq DOMAIN events'
  BY <1>1, WithoutIs DEF BranchIsGone, CInv, BranchesInv
<1>4. \A n \in DOMAIN waiting' : n \in Branches /\ IsCiEvent(waiting'[n])
  BY <1>1, LandedInIs DEF CInv, ConfigsInv, BranchesInv
<1>5. ASSUME NEW n \in DOMAIN jobs
      PROVE  IsJob(jobs'[n]) /\ jobs'[n].phase = jobs[n].phase
  <2>1. IsJob(jobs[n])
    BY DEF CInv, ConfigsInv
  <2>2. CASE n # e
    BY <1>1, <2>1, <2>2
  <2>3. CASE n = e
    <3> DEFINE job == jobs[n]
               lit == [ev |-> job.ev, attempt |-> job.attempt, phase |-> job.phase,
                       merged |-> job.merged]
               next == [ev |-> Landed(job.ev), attempt |-> job.attempt, phase |-> job.phase,
                        merged |-> job.merged]
    <3>1. job = lit
      BY <2>1 DEF IsJob
    <3>2. [lit EXCEPT !.ev = Landed(@)] = next
      OBVIOUS
    <3>3. jobs'[n] = [job EXCEPT !.ev = Landed(@)]
      BY <1>1, <2>3
    <3> HIDE DEF lit
    <3>4. jobs'[n] = next
      BY <3>1, <3>2, <3>3
    <3>5. IsCiEvent(Landed(job.ev))
      BY <2>1, LandedIsEvent DEF IsJob
    <3>6. IsJob(next) /\ next.phase = job.phase
      BY <2>1, <3>5 DEF IsJob
    <3> HIDE DEF next
    <3>7. QED
      BY <3>4, <3>6
  <2>4. QED
    BY <2>2, <2>3
<1>6. DOMAIN jobs' = DOMAIN jobs
  BY <1>1
<1>7. ConfigsInv'
  BY <1>1, <1>2, <1>3, <1>4, <1>5, <1>6 DEF CInv, ConfigsInv
<1>8. BranchesInv'
  BY <1>1, <1>3, <1>4, <1>6 DEF CInv, BranchesInv
<1>9. CurrentInv'
  BY <1>1 DEF CurrentInv
<1>10. QED
  BY <1>1, <1>5, <1>6, <1>7, <1>8, <1>9 DEF CInv

\* An event is deleted, and days pass.
LEMMA DeleteBranchKeeps ==
    ASSUME CInv, (\E e \in DOMAIN events : DeleteBranch(e)) \/ NextDay \/ UNCHANGED allVars
    PROVE  CInv' /\ UNCHANGED <<main, jobs, mainPhase>>
<1>1. /\ UNCHANGED <<main, fresh>>
      /\ UNCHANGED <<waiting, jobs, current, mainPhase, mainJob, issue>>
      /\ \/ \E e \in DOMAIN events : BranchIsGone(e)
         \/ UNCHANGED <<events, ready, failed, pulls>>
  BY DEF DeleteBranch, Abandon, NextDay, Tick, ciVars, allVars, vars
<1>2. /\ \A n \in DOMAIN events' : n \in DOMAIN events /\ events'[n] = events[n]
      /\ ready' \subseteq DOMAIN events' /\ failed' \subseteq DOMAIN events'
      /\ pulls' \subseteq DOMAIN events'
  BY <1>1, WithoutIs DEF BranchIsGone, CInv, BranchesInv
<1>3. ConfigsInv'
  BY <1>1, <1>2 DEF CInv, ConfigsInv
<1>4. BranchesInv'
  BY <1>1, <1>2 DEF CInv, BranchesInv
<1>5. CurrentInv'
  BY <1>1 DEF CInv, CurrentInv, MayPush, MayMerge, MergesCleanly, MergeOf, Automatic
<1>6. QED
  BY <1>1, <1>3, <1>4, <1>5 DEF CInv

-------------------------------------------------------------------------------
(* Runs on main *)

\* The roles that CI does not sign are as they were.
Keeps(config, repo, next) ==
    \A r : ~CiSigns(config, r) =>
        /\ r \in DOMAIN next.files <=> r \in DOMAIN repo.files
        /\ r \in DOMAIN repo.files => next.files[r] = repo.files[r]

\* An online update keeps them, of whatever metadata.
LEMMA OnlineKeeps ==
    ASSUME NEW at, HasRoles(at.config)
    PROVE  Keeps(at.config, at.repo, OnlineUpdate(at))
<1> DEFINE repo == at.repo
           config == at.config
           former == at.previous
           mine == {r \in TargetsRoles(repo) : CiSigns(config, r)}
           b1 == [r \in mine |-> repo.files[r].body]
           r1 == Update(repo, repo, b1, config, former, now)
           b2 == Entry("snapshot", SnapshotBody(r1))
           r2 == Update(r1, repo, b2, config, former, now)
           b3 == Entry("timestamp", r2.files["snapshot"].version)
           r3 == Update(r2, repo, b3, config, former, now)
           changed == Changed(repo, r3)
           online == SignOnline(config, repo, r3, changed)
<1>1. CiSigns(config, "snapshot") /\ CiSigns(config, "timestamp")
  BY DEF CiSigns, HasRoles, TopLevel
<1>2. ASSUME NEW from, NEW bodies, \A r \in DOMAIN bodies : CiSigns(config, r)
      PROVE  Keeps(config, from, Update(from, repo, bodies, config, former, now))
  <2> DEFINE next == Update(from, repo, bodies, config, former, now)
  <2>1. /\ \A r : r \in DOMAIN next.files <=> r \in DOMAIN bodies \/ r \in DOMAIN from.files
        /\ \A r \in DOMAIN from.files : r \notin DOMAIN bodies => next.files[r] = from.files[r]
    BY UpdateIs
  <2> HIDE DEF next, config
  <2>2. QED
    BY <1>2, <2>1 DEF Keeps, next
<1>3. Keeps(config, repo, r1)
  <2>1. \A r \in DOMAIN b1 : CiSigns(config, r)
    OBVIOUS
  <2> HIDE DEF b1, config
  <2>2. QED
    BY <1>2, <2>1
<1>4. Keeps(config, r1, r2)
  <2>1. \A r \in DOMAIN b2 : CiSigns(config, r)
    BY <1>1 DEF Entry
  <2> HIDE DEF b2, config, r1
  <2>2. QED
    BY <1>2, <2>1
<1>5. Keeps(config, r2, r3)
  <2>1. \A r \in DOMAIN b3 : CiSigns(config, r)
    BY <1>1 DEF Entry
  <2> HIDE DEF b3, config, r2
  <2>2. QED
    BY <1>2, <2>1
<1>6. OnlineUpdate(at) = online
  BY DEF OnlineUpdate, UpdateOnline
<1> HIDE DEF repo, config, former, r1, r2, r3
<1>7. Keeps(config, repo, r3)
  BY <1>3, <1>4, <1>5 DEF Keeps
<1>8. \A r : r \in changed => CiSigns(config, r)
  BY <1>7 DEF Changed, Keeps, Has
<1>9. /\ \A r : r \in DOMAIN online.files <=> r \in changed \/ r \in DOMAIN r3.files
      /\ \A r \in DOMAIN r3.files : r \notin changed => online.files[r] = r3.files[r]
  <2> DEFINE new == [r \in changed |->
                       [r3.files[r] EXCEPT !.sigs = @ \cup (MissingKeys(r3, repo, r) \cap config.online)]]
  <2>1. online = With(r3, new) /\ DOMAIN new = changed
    BY DEF SignOnline
  <2> HIDE DEF new, online, changed
  <2>2. QED
    BY <2>1, WithIs
<1> HIDE DEF online, changed
<1>10. Keeps(config, repo, online)
  BY <1>7, <1>8, <1>9 DEF Keeps
<1>11. QED
  BY <1>6, <1>10 DEF repo, config

\* The push of an online update.
LEMMA OnlineKeepsInv ==
    ASSUME CInv, Online
    PROVE  /\ CInv' /\ UNCHANGED jobs
           /\ \/ main' = main
              \/ main'.config = main.config /\ Keeps(main.config, main.repo, main'.repo)
<1> DEFINE repo == OnlineUpdate(mainJob)
           config == mainJob.config
<1>1. /\ mainPhase = "online" /\ mainPhase' = "publish"
      /\ mainJob' = [mainJob EXCEPT !.repo = repo]
      /\ UNCHANGED <<events, fresh, now, waiting, jobs, ready, failed, pulls, issue>>
      /\ \/ main' = main /\ current' = current \ {"main"} /\ previous' = previous
         \/ /\ "main" \in current
            /\ main' = [repo |-> repo, config |-> config] /\ current' = {}
  BY DEF Online, Advance
<1>2. IsTip(mainJob)
  BY <1>1 DEF CInv, ConfigsInv
<1>3. WithTargets(repo)
  BY <1>2, OnlineNumbered DEF IsTip
<1>4. IsTip(mainJob')
  <2> DEFINE lit == [repo |-> mainJob.repo, config |-> mainJob.config, previous |-> mainJob.previous]
             next == [repo |-> repo, config |-> mainJob.config, previous |-> mainJob.previous]
  <2>1. mainJob = lit
    BY <1>2 DEF IsTip
  <2> HIDE DEF repo
  <2>2. [lit EXCEPT !.repo = repo] = next
    OBVIOUS
  <2> HIDE DEF lit
  <2>3. mainJob' = next
    BY <1>1, <2>1, <2>2
  <2>4. IsTip(next)
    BY <1>2, <1>3 DEF IsTip
  <2> HIDE DEF next
  <2>5. QED
    BY <2>3, <2>4
<1>5. \/ main' = main
      \/ main'.config = main.config /\ Keeps(main.config, main.repo, main'.repo)
  <2>1. Keeps(mainJob.config, mainJob.repo, repo)
    BY <1>2, OnlineKeeps DEF IsTip
  <2> HIDE DEF repo
  <2>2. CASE /\ "main" \in current
             /\ main' = [repo |-> repo, config |-> config]
    <3>1. main'.repo = repo /\ main'.config = config
      BY <2>2
    <3>2. mainJob.repo = main.repo /\ mainJob.config = main.config
      BY <1>1, <2>2 DEF CInv, CurrentInv
    <3>3. QED
      BY <2>1, <3>1, <3>2
  <2>3. QED
    BY <1>1, <2>2
<1> HIDE DEF repo
<1>6. HasRoles(main'.config) /\ WithTargets(main'.repo)
  BY <1>1, <1>3, <1>5 DEF CInv, ConfigsInv
<1>7. ConfigsInv'
  BY <1>1, <1>4, <1>6 DEF CInv, ConfigsInv
<1>8. BranchesInv'
  BY <1>1 DEF CInv, BranchesInv
<1>9. CurrentInv'
  BY <1>1 DEF CInv, CurrentInv, MayPush, MayMerge, MergesCleanly, MergeOf, Automatic
<1>10. QED
  BY <1>1, <1>5, <1>7, <1>8, <1>9 DEF CInv

\* The end of a run on main: sign/refresh and the issue.
LEMMA PublishKeeps ==
    ASSUME CInv, Publish
    PROVE  CInv' /\ UNCHANGED <<main, jobs>>
<1> DEFINE ev == RefreshOf(mainJob, main)
<1>1. /\ mainPhase = "publish" /\ mainPhase' = "none"
      /\ issue' = DueOnline(mainJob)
      /\ UNCHANGED <<main, previous, fresh, now, validity, jobs, current, pulls>>
      /\ \/ UNCHANGED <<events, waiting, ready, failed>>
         \/ /\ events' = Over(Entry(RefreshEvent, ev), events)
            /\ waiting' = Over(Entry(RefreshEvent, events'[RefreshEvent]), waiting)
            /\ ready' = ready \ {RefreshEvent} /\ failed' = failed \ {RefreshEvent}
  BY DEF Publish, Pushed
<1>2. issue' \subseteq ConfigRoles
  <2>1. HasRoles(mainJob.config)
    BY <1>1 DEF CInv, ConfigsInv, IsTip
  <2>2. \A r \in DueOnline(mainJob) : r \in DOMAIN mainJob.config.roles
    BY DEF DueOnline, OnlineOnly
  <2>3. QED
    BY <1>1, <2>1, <2>2 DEF HasRoles
<1>3. IsCiEvent(ev)
  <2> DEFINE head == WithRolesFrom(mainJob.repo, Renewed(mainJob), DueOffline(mainJob))
             saved == [head EXCEPT !.history = Over(@, main.repo.history)]
             intent == [p \in ListedPaths(main.repo) |-> {ListedTargets(main.repo)[p]}]
             lit == [kind |-> "refresh", base |-> main.repo, old |-> main.config,
                     head |-> saved, config |-> main.config, intent |-> intent]
  <2>1. ev = lit
    BY DEF RefreshOf
  <2>2. WithTargets(saved)
    <3>1. HasRoles(mainJob.config) /\ WithTargets(mainJob.repo)
      BY <1>1 DEF CInv, ConfigsInv, IsTip
    <3>2. WithTargets(ev.head)
      BY <3>1, RefreshNumbered DEF HasRoles
    <3>3. ev.head = saved
      BY DEF RefreshOf
    <3>4. QED
      BY <3>2, <3>3
  <2> HIDE DEF saved, intent
  <2>3. IsCiEvent(lit)
    BY <2>2 DEF IsCiEvent, CInv, ConfigsInv
  <2> HIDE DEF lit
  <2>4. QED
    BY <2>1, <2>3
<1> HIDE DEF ev
<1>4. /\ \A n \in DOMAIN events' : n \in Branches /\ IsCiEvent(events'[n])
      /\ \A n \in DOMAIN waiting' : n \in Branches /\ IsCiEvent(waiting'[n])
      /\ \A n \in DOMAIN events : n \in DOMAIN events'
      /\ ready' \subseteq ready /\ failed' \subseteq failed
  <2>1. CASE UNCHANGED <<events, waiting, ready, failed>>
    BY <2>1 DEF CInv, ConfigsInv, BranchesInv
  <2>2. CASE /\ events' = Over(Entry(RefreshEvent, ev), events)
             /\ waiting' = Over(Entry(RefreshEvent, events'[RefreshEvent]), waiting)
             /\ ready' = ready \ {RefreshEvent} /\ failed' = failed \ {RefreshEvent}
    <3>1. /\ \A n : n \in DOMAIN events' <=> n = RefreshEvent \/ n \in DOMAIN events
          /\ events'[RefreshEvent] = ev
          /\ \A n \in DOMAIN events : n # RefreshEvent => events'[n] = events[n]
      BY <2>2, OverEntry
    <3>2. /\ \A n : n \in DOMAIN waiting' <=> n = RefreshEvent \/ n \in DOMAIN waiting
          /\ waiting'[RefreshEvent] = events'[RefreshEvent]
          /\ \A n \in DOMAIN waiting : n # RefreshEvent => waiting'[n] = waiting[n]
      BY <2>2, OverEntry
    <3>3. RefreshEvent \in Branches
      BY DEF Branches
    <3>4. QED
      BY <1>3, <2>2, <3>1, <3>2, <3>3 DEF CInv, ConfigsInv, BranchesInv
  <2>3. QED
    BY <1>1, <2>1, <2>2
<1>5. ConfigsInv'
  BY <1>1, <1>4 DEF CInv, ConfigsInv
<1>6. BranchesInv'
  BY <1>1, <1>2, <1>4 DEF CInv, BranchesInv
<1>7. CurrentInv'
  BY <1>1 DEF CInv, CurrentInv, MayPush, MayMerge, MergesCleanly, MergeOf, Automatic
<1>8. QED
  BY <1>1, <1>5, <1>6, <1>7 DEF CInv

\* The start of a run on main, and ends that leave main alone.
LEMMA MainPhasesKeep ==
    ASSUME CInv, StartMain \/ LeaveToNewerRun \/ FailMain
    PROVE  CInv' /\ UNCHANGED <<main, jobs>>
<1>1. /\ UNCHANGED <<vars, waiting, jobs, ready, failed, pulls, issue>>
      /\ \/ /\ mainPhase' = "online" /\ mainJob' = Checkout
            /\ current' = current \cup {"main"}
         \/ /\ mainPhase' \in {"none", "failed"}
            /\ current' \subseteq current
  BY DEF StartMain, LeaveToNewerRun, FailMain
<1>2. IsTip(Checkout) /\ Checkout.repo = main.repo /\ Checkout.config = main.config
  <2> DEFINE before == IF Valid(previous) THEN previous ELSE NoConfig
             at == [repo |-> main.repo, config |-> main.config, previous |-> before]
  <2>1. Checkout = at
    BY DEF Checkout, Tip
  <2>2. IsTip(at)
    BY DEF IsTip, CInv, ConfigsInv
  <2> HIDE DEF before
  <2>3. QED
    BY <2>1, <2>2
<1>3. UNCHANGED <<main, events, fresh>>
  BY <1>1 DEF vars
<1>4. ConfigsInv'
  BY <1>1, <1>2, <1>3 DEF CInv, ConfigsInv
<1>5. BranchesInv'
  BY <1>1, <1>3 DEF CInv, BranchesInv
<1>6. CurrentInv'
  <2>1. \A n \in DOMAIN jobs : n \in Branches /\ n # "main"
    BY CiAssumption DEF CInv, BranchesInv, Branches
  <2>2. \A job : MayPush(job)' <=> MayPush(job)
    BY <1>3 DEF MayPush, MayMerge, MergesCleanly, MergeOf, Automatic
  <2>3. \A n \in DOMAIN jobs' : n \in current' => n \in current /\ jobs'[n] = jobs[n]
    BY <1>1, <2>1
  <2>4. "main" \in current' /\ mainPhase' = "online" =>
           mainJob'.repo = main'.repo /\ mainJob'.config = main'.config
    BY <1>1, <1>2, <1>3
  <2>5. QED
    BY <1>1, <2>2, <2>3, <2>4 DEF CInv, CurrentInv
<1>7. QED
  BY <1>1, <1>3, <1>4, <1>5, <1>6 DEF CInv

-------------------------------------------------------------------------------
(* The theorems *)

\* tufops starts with the invariant.
LEMMA InitCInv == CiInit => CInv
<1> SUFFICES ASSUME CiInit
             PROVE  CInv
  OBVIOUS
<1>1. PICK c \in FirstConfigs : main = [repo |-> Started(c), config |-> c]
  BY DEF CiInit, Init
<1>2. c \in Configs /\ main.config = c
  BY <1>1, ConfigsAssumption
<1>3. HasRoles(main.config) /\ WithTargets(main.repo)
  BY <1>1, <1>2, GivenConfig, StartedNumbered, ConfigsAssumption
<1>4. /\ \A n : n \notin DOMAIN events /\ n \notin DOMAIN waiting /\ n \notin DOMAIN jobs
      /\ current = {} /\ mainPhase = "none"
      /\ ready = {} /\ failed = {} /\ pulls = {} /\ issue = {}
      /\ fresh = Events
  BY DEF CiInit, Init
<1>5. ConfigsInv
  BY <1>3, <1>4 DEF ConfigsInv
<1>6. BranchesInv
  BY <1>4 DEF BranchesInv
<1>7. CurrentInv
  BY <1>4 DEF CurrentInv
<1>8. QED
  BY <1>5, <1>6, <1>7 DEF CInv

\* Every step keeps the invariant.
LEMMA NextCInv == CInv /\ [CiNext]_allVars => CInv'
<1> SUFFICES ASSUME CInv, [CiNext]_allVars
             PROVE  CInv'
  OBVIOUS
<1>1. ASSUME NEW e \in Branches,
             PushEvent(e) \/ StartRun(e) \/ PushMerge(e) \/ MergeAgain(e) \/ Delete(e) \/ FailRun(e)
      PROVE  CInv'
  BY <1>1, PushEventKeeps, StartRunKeeps, PushMergeKeeps, MergeAgainKeeps, DeleteKeeps,
     FailRunKeeps
<1>2. ASSUME NEW e \in DOMAIN events, MergePull(e)
      PROVE  CInv'
  BY <1>2, MergePullKeeps
<1>3. CASE (\E e \in DOMAIN events : DeleteBranch(e)) \/ NextDay \/ UNCHANGED allVars
  BY <1>3, DeleteBranchKeeps
<1>4. CASE StartMain \/ LeaveToNewerRun \/ FailMain
  BY <1>4, MainPhasesKeep
<1>5. CASE Online
  BY <1>5, OnlineKeepsInv
<1>6. CASE Publish
  BY <1>6, PublishKeeps
<1>7. ASSUME NEW e \in failed, Rerun(e)
      PROVE  CInv'
  BY <1>7, RerunKeeps
<1>8. QED
  BY <1>1, <1>2, <1>3, <1>4, <1>5, <1>6, <1>7 DEF CiNext

(* The invariant of the CI runs, whoever pushes, merges, fails or goes on  *)
(* in whatever order.                                                      *)
THEOREM CiInvariance == CiSpec => []CInv
BY InitCInv, NextCInv, PTL DEF CiSpec

(* CiTypeOK: runs are of branches, and statuses, failures and pull requests *)
(* of open events, whatever fails or is deleted on the way.                *)
THEOREM CiTypeCorrect == CiSpec => []CiTypeOK
<1>1. CInv => CiTypeOK
  BY DEF CInv, ConfigsInv, BranchesInv, IsJob, CiTypeOK, ConfigRoles
<1>2. QED
  BY <1>1, CiInvariance, PTL

(* OnlineUpdateKeepsMerges: a run on main takes back nothing that was       *)
(* merged while it ran.                                                    *)
THEOREM CiKeepsMerges == CiSpec => OnlineUpdateKeepsMerges
<1> DEFINE Step == main' # main /\ mainPhase' # mainPhase =>
                     /\ main'.config = main.config
                     /\ \A r \in DOMAIN main.repo.files \cup DOMAIN main'.repo.files :
                           CiSigns(main.config, r) \/ main'.repo.files[r] = main.repo.files[r]
<1>1. CInv /\ [CiNext]_allVars => Step
  <2> SUFFICES ASSUME CInv, [CiNext]_allVars, main' # main, mainPhase' # mainPhase
               PROVE  /\ main'.config = main.config
                      /\ \A r \in DOMAIN main.repo.files \cup DOMAIN main'.repo.files :
                            CiSigns(main.config, r) \/ main'.repo.files[r] = main.repo.files[r]
    OBVIOUS
  <2>1. ASSUME NEW e \in Branches,
               PushEvent(e) \/ StartRun(e) \/ PushMerge(e) \/ MergeAgain(e) \/ Delete(e) \/ FailRun(e)
        PROVE  FALSE
    <3>1. CASE PushEvent(e)
      BY <3>1, PushEventKeeps
    <3>2. CASE StartRun(e) \/ PushMerge(e) \/ MergeAgain(e) \/ Delete(e) \/ FailRun(e)
      BY <3>2 DEF StartRun, PushMerge, MergeAgain, Delete, FailRun
    <3>3. QED
      BY <2>1, <3>1, <3>2
  <2>2. ASSUME NEW e \in DOMAIN events, MergePull(e)
        PROVE  FALSE
    BY <2>2, MergePullKeeps
  <2>3. CASE (\E e \in DOMAIN events : DeleteBranch(e)) \/ NextDay \/ UNCHANGED allVars
    BY <2>3, DeleteBranchKeeps
  <2>4. CASE StartMain \/ LeaveToNewerRun \/ FailMain
    BY <2>4, MainPhasesKeep
  <2>5. CASE Online
    BY <2>5, OnlineKeepsInv DEF Keeps
  <2>6. CASE Publish
    BY <2>6, PublishKeeps
  <2>7. ASSUME NEW e \in failed, Rerun(e)
        PROVE  FALSE
    BY <2>7, RerunKeeps
  <2>8. QED
    BY <2>1, <2>2, <2>3, <2>4, <2>5, <2>6, <2>7 DEF CiNext
<1>2. QED
  BY <1>1, CiInvariance, PTL DEF CiSpec, OnlineUpdateKeepsMerges

\* A run on an event that goes on to delete the branch has pushed its merge.
LEMMA OnlyThePush ==
    ASSUME CInv, [CiNext]_allVars, NEW e \in Branches,
           Reached(e, "push"), Reached(e, "delete")'
    PROVE  PushMerge(e)
<1>1. /\ e \in DOMAIN jobs /\ jobs[e].phase = "push"
      /\ e \in DOMAIN jobs' /\ jobs'[e].phase = "delete"
  BY DEF Reached
<1>2. ASSUME NEW n \in Branches, PushMerge(n)
      PROVE  n = e
  BY <1>1, <1>2 DEF PushMerge
<1>3. ASSUME NEW n \in Branches,
             PushEvent(n) \/ StartRun(n) \/ MergeAgain(n) \/ Delete(n) \/ FailRun(n)
      PROVE  FALSE
  <2>1. CASE PushEvent(n)
    BY <1>1, <2>1, PushEventKeeps
  <2>2. CASE StartRun(n)
    BY <1>1, <2>2, StartRunKeeps DEF FetchedTo
  <2>3. CASE MergeAgain(n)
    BY <1>1, <2>3, MergeAgainKeeps
  <2>4. CASE Delete(n) \/ FailRun(n)
    BY <1>1, <2>4, DeleteKeeps, FailRunKeeps
  <2>5. QED
    BY <1>3, <2>1, <2>2, <2>3, <2>4
<1>4. ASSUME NEW n \in DOMAIN events, MergePull(n)
      PROVE  FALSE
  BY <1>1, <1>4, MergePullKeeps
<1>5. ~((\E n \in DOMAIN events : DeleteBranch(n)) \/ NextDay \/ UNCHANGED allVars)
  BY <1>1, DeleteBranchKeeps
<1>6. ~(StartMain \/ LeaveToNewerRun \/ FailMain)
  BY <1>1, MainPhasesKeep
<1>7. ~Online
  BY <1>1, OnlineKeepsInv
<1>8. ~Publish
  BY <1>1, PublishKeeps
<1>9. ASSUME NEW n \in failed, Rerun(n)
      PROVE  FALSE
  BY <1>1, <1>9, RerunKeeps
<1>10. QED
  BY <1>2, <1>3, <1>4, <1>5, <1>6, <1>7, <1>8, <1>9 DEF CiNext

(* CiMergesWhatIsSigned: CI leaves main completely signed whenever it       *)
(* merges by itself, though main may have lacked signatures before.        *)
THEOREM CiMergesSigned == CiSpec => CiMergesWhatIsSigned
<1> DEFINE Step == \A e \in Branches : Reached(e, "push") /\ Reached(e, "delete")' =>
                     /\ main'.config = main.config
                     /\ \A r \in EventRoles(main'.repo) :
                           HasKeys(main'.repo, r) /\ RoleComplete(main.repo, main'.repo, r)
<1>1. ASSUME CInv, NEW e \in Branches, PushMerge(e)
      PROVE  /\ main'.config = main.config
             /\ \A r \in EventRoles(main'.repo) :
                   HasKeys(main'.repo, r) /\ RoleComplete(main.repo, main'.repo, r)
  <2>1. MayMerge(jobs[e].merged) /\ main' = jobs[e].merged
    BY <1>1 DEF CInv, CurrentInv, MayPush, PushMerge, Reached, Advance
  <2>2. Readable(main') /\ Automatic(main')
    BY <2>1 DEF MayMerge
  <2>3. /\ main'.config = main.config
        /\ Complete(main.repo, main'.repo)
        /\ HasStatus(main'.repo)
    BY <2>2 DEF Readable, Automatic, MergesAutomatically
  <2>4. QED
    BY <2>3 DEF Complete, StatusRoles, HasStatus
<1>2. CInv /\ [CiNext]_allVars => Step
  BY <1>1, OnlyThePush
<1>3. QED
  BY <1>2, CiInvariance, PTL DEF CiSpec, CiMergesWhatIsSigned

(* CiMergesLoseNothing: what CI pushes is made of main as it is then, so    *)
(* that nothing merged meanwhile is taken back, and versions go forward.   *)
THEOREM CiLosesNothing == CiSpec => CiMergesLoseNothing
<1> DEFINE Spared(e, r) ==
             LET before == At(main.repo.files, r)
                 after  == At(main'.repo.files, r)
             IN  /\ after = before \/ before = At(jobs[e].ev.base.files, r)
                 /\ jobs[e].ev.kind # "refresh" =>
                       \A old \in before, new \in after : new.version >= old.version
           Step == \A e \in Branches : Reached(e, "push") /\ Reached(e, "delete")' =>
                     \A r \in DOMAIN main.repo.files : Spared(e, r)
<1>1. ASSUME CInv, NEW e \in Branches, PushMerge(e), NEW r \in DOMAIN main.repo.files
      PROVE  Spared(e, r)
  <2> DEFINE ev == jobs[e].ev
             base == ev.base.files
             ours == main.repo.files
             theirs == ev.head.files
  <2>1. MergesCleanly(ev) /\ main' = MergeOf(ev)
    BY <1>1 DEF CInv, CurrentInv, MayPush, PushMerge, Reached, Advance
  <2>2. IsCiEvent(ev) /\ WithTargets(main.repo)
    BY <1>1 DEF CInv, ConfigsInv, IsJob, PushMerge, Reached
  <2>3. /\ MergeCleanly(base, ours, theirs)
        /\ main'.repo.files = Merged(base, ours, theirs)
    BY <2>1, FilesMerge DEF MergesCleanly, ReposMergeCleanly, MergeOf, MergedRepo
  <2>4. \/ Same(ours, base, r) /\ Same(main'.repo.files, theirs, r)
        \/ Same(main'.repo.files, ours, r)
    <3> HIDE DEF base, ours, theirs, ev
    <3>1. \/ Same(ours, base, r) /\ Same(Merged(base, ours, theirs), theirs, r)
          \/ Same(theirs, base, r) /\ Same(Merged(base, ours, theirs), ours, r)
          \/ Same(ours, theirs, r) /\ Same(Merged(base, ours, theirs), ours, r)
      BY <2>3, MergedIs
    <3>2. QED
      BY <2>3, <3>1
  <2>5. ours[r].version \in Nat
    BY <2>2, VersionsCompare DEF WithTargets
  <2>6. ev.kind # "refresh" => NotOlder(ev.base, ev.head)
    BY <2>2 DEF IsCiEvent
  <2> HIDE DEF ev
  <2>7. CASE Same(main'.repo.files, ours, r)
    BY <2>5, <2>7 DEF Same, At, ev
  <2>8. CASE Same(ours, base, r) /\ Same(main'.repo.files, theirs, r)
    BY <2>6, <2>8 DEF Same, At, NotOlder, Has, ev
  <2>9. QED
    BY <2>4, <2>7, <2>8
<1> HIDE DEF Spared
<1>2. CInv /\ [CiNext]_allVars => Step
  BY <1>1, OnlyThePush DEF Step
<1>3. QED
  BY <1>2, CiInvariance, PTL DEF CiSpec, CiMergesLoseNothing, Step, Spared

===============================================================================
