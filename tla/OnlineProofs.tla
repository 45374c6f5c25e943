----------------------------- MODULE OnlineProofs -----------------------------
(***************************************************************************)
(* What a CI run on main makes of a commit: `update_online` of tufops-core *)
(* and `sign_online` of tufops-cloud.                                      *)
(***************************************************************************)
EXTENDS MergeProofs, FiniteSetTheorems

\* The roles that CI renews by itself.
CiRoles(repo, config) ==
    {"snapshot", "timestamp"} \cup {r \in TargetsRoles(repo) : CiSigns(config, r)}

\* The content CI gives role `r`, if `online` is what it makes of `repo`.
OnlineBody(repo, online, r) ==
    IF r = "snapshot"
    THEN Over([x \in TargetsRoles(repo) |-> online.files[x].version],
              IF Has(repo, "snapshot") /\ Trusts(repo, "snapshot", repo.files["snapshot"])
              THEN repo.files["snapshot"].body
              ELSE <<>>)
    ELSE IF r = "timestamp" THEN online.files["snapshot"].version ELSE repo.files[r].body

\* The metadata follows `config`, but snapshot and timestamp may be missing.
Grounded(repo, config) ==
    /\ WellFormed(repo)
    /\ Has(repo, "root") /\ repo.files["root"].body = RootBody(config)
    /\ Has(repo, "targets") /\ Delegations(repo) = ConfigDelegations(config)
    /\ \A r \in DOMAIN repo.files : r \in DOMAIN config.roles
    /\ \A r : SnapshotVersion(repo, r) \in Nat

(* The reasons for a new version are the same whichever of two repositories *)
(* they are looked up in, if the role and its keys are the same there.      *)
LEMMA SameReasons ==
    ASSUME NEW repo1, NEW repo2, NEW base, NEW r, NEW body, NEW config, NEW previous, NEW now,
           r # "root", Has(repo1, r) <=> Has(repo2, r),
           Has(repo1, r) => repo1.files[r] = repo2.files[r],
           RoleKeys(repo1, r) = RoleKeys(repo2, r)
    PROVE  NeedsVersion(repo1, base, r, body, config, previous, now)
             <=> NeedsVersion(repo2, base, r, body, config, previous, now)
<1>1. Requirements(repo1, base, r) = Requirements(repo2, base, r)
  BY DEF Requirements
<1>2. Has(repo1, r) => MissingKeys(repo1, base, r) = MissingKeys(repo2, base, r)
  BY <1>1 DEF MissingKeys
<1>3. QED
  BY <1>2 DEF NeedsVersion

(* `update_online` renews CI's roles that are due, snapshot after targets  *)
(* roles and timestamp last.                                               *)
LEMMA UpdateOnlineIs ==
    ASSUME NEW repo, NEW config, NEW previous, NEW now \in Nat,
           Grounded(repo, config), Valid(config)
    PROVE  LET U == UpdateOnline(repo, config, previous, now)
               Body(r) == OnlineBody(repo, U, r)
           IN  /\ U = [files |-> U.files, history |-> repo.history]
               /\ IsMap(U.files)
               /\ \A r : r \in DOMAIN U.files <=> r \in DOMAIN repo.files \/ r \in {"snapshot", "timestamp"}
               /\ \A r \in DOMAIN repo.files :
                     r \notin CiRoles(repo, config) => U.files[r] = repo.files[r]
               /\ \A r \in CiRoles(repo, config) :
                     \/ /\ NeedsVersion(repo, repo, r, Body(r), config, previous, now)
                        /\ U.files[r] = NewVersion(repo, r, Body(r), config, now)
                     \/ /\ ~NeedsVersion(repo, repo, r, Body(r), config, previous, now)
                        /\ Has(repo, r) /\ U.files[r] = repo.files[r]
<1> DEFINE mine == {r \in TargetsRoles(repo) : CiSigns(config, r)}
           bodies == [r \in mine |-> repo.files[r].body]
           r1 == Update(repo, repo, bodies, config, previous, now)
           snap == Entry("snapshot", SnapshotBody(r1))
           r2 == Update(r1, repo, snap, config, previous, now)
           time == Entry("timestamp", r2.files["snapshot"].version)
           U == Update(r2, repo, time, config, previous, now)
           Body(r) == OnlineBody(repo, U, r)
           Due(r) == NeedsVersion(repo, repo, r, Body(r), config, previous, now)
<1>1. UpdateOnline(repo, config, previous, now) = U
  BY DEF UpdateOnline
<1>2. \A r \in mine : Has(repo, r) /\ r \notin {"root", "snapshot", "timestamp"}
  BY DEF TargetsRoles, Has
<1>3. /\ DOMAIN bodies = mine
      /\ \A r \in mine : bodies[r] = repo.files[r].body
  OBVIOUS
<1>4. /\ \A r : r \in DOMAIN snap <=> r = "snapshot"
      /\ snap["snapshot"] = SnapshotBody(r1)
      /\ \A r : r \in DOMAIN time <=> r = "timestamp"
      /\ time["timestamp"] = r2.files["snapshot"].version
  BY EntryIs
<1> HIDE DEF bodies, snap, time
<1>5. /\ \A r : Has(r1, r) <=> Has(repo, r)
      /\ \A r \in mine :
            \/ /\ NeedsVersion(repo, repo, r, repo.files[r].body, config, previous, now)
               /\ r1.files[r] = NewVersion(repo, r, repo.files[r].body, config, now)
            \/ /\ ~NeedsVersion(repo, repo, r, repo.files[r].body, config, previous, now)
               /\ r1.files[r] = repo.files[r]
      /\ \A r \in DOMAIN repo.files : r \notin mine => r1.files[r] = repo.files[r]
      /\ r1.history = repo.history
  BY <1>2, <1>3, UpdateIs DEF Has
<1> HIDE DEF r1
<1>6. /\ \A r : Has(r2, r) <=> r = "snapshot" \/ Has(r1, r)
      /\ \/ /\ NeedsVersion(r1, repo, "snapshot", SnapshotBody(r1), config, previous, now)
            /\ r2.files["snapshot"] = NewVersion(repo, "snapshot", SnapshotBody(r1), config, now)
         \/ /\ ~NeedsVersion(r1, repo, "snapshot", SnapshotBody(r1), config, previous, now)
            /\ Has(r1, "snapshot") /\ r2.files["snapshot"] = r1.files["snapshot"]
      /\ \A r \in DOMAIN r1.files : r # "snapshot" => r2.files[r] = r1.files[r]
      /\ r2.history = r1.history
  BY <1>4, UpdateIs DEF Has
<1> HIDE DEF r2
<1>7. /\ U = [files |-> U.files, history |-> U.history]
      /\ IsMap(U.files)
      /\ \A r : Has(U, r) <=> r = "timestamp" \/ Has(r2, r)
      /\ \/ /\ NeedsVersion(r2, repo, "timestamp", r2.files["snapshot"].version, config, previous, now)
            /\ U.files["timestamp"] = NewVersion(repo, "timestamp", r2.files["snapshot"].version, config, now)
         \/ /\ ~NeedsVersion(r2, repo, "timestamp", r2.files["snapshot"].version, config, previous, now)
            /\ Has(r2, "timestamp") /\ U.files["timestamp"] = r2.files["timestamp"]
      /\ \A r \in DOMAIN r2.files : r # "timestamp" => U.files[r] = r2.files[r]
      /\ U.history = r2.history
  BY <1>4, UpdateIs DEF Has
<1> HIDE DEF U
<1>8. /\ \A r \in {"snapshot", "timestamp"} : r \in TopLevel /\ r # "root"
      /\ "root" \notin mine /\ Has(repo, "root")
      /\ r1.files["root"] = repo.files["root"] /\ r2.files["root"] = repo.files["root"]
  BY <1>2, <1>5, <1>6 DEF TopLevel, Grounded, Has
<1>9. \A r \in {"snapshot", "timestamp"} :
         RoleKeys(r1, r) = RoleKeys(repo, r) /\ RoleKeys(r2, r) = RoleKeys(repo, r)
  BY <1>8 DEF RoleKeys
<1>10. \A r \in TargetsRoles(repo) : r1.files[r] = U.files[r]
  BY <1>5, <1>6, <1>7 DEF TargetsRoles, Has
<1>11. SnapshotBody(r1) = Body("snapshot")
  <2>1. TargetsRoles(r1) = TargetsRoles(repo)
    BY <1>5 DEF TargetsRoles, Has
  <2>2. [r \in TargetsRoles(r1) |-> r1.files[r].version] = [r \in TargetsRoles(repo) |-> U.files[r].version]
    BY <1>10, <2>1
  <2>3. /\ Has(r1, "snapshot") <=> Has(repo, "snapshot")
        /\ Has(repo, "snapshot") => r1.files["snapshot"] = repo.files["snapshot"]
    BY <1>2, <1>5 DEF Has
  <2>4. Has(repo, "snapshot") =>
          (Trusts(r1, "snapshot", r1.files["snapshot"]) <=> Trusts(repo, "snapshot", repo.files["snapshot"]))
    BY <1>9, <2>3 DEF Trusts
  <2>5. QED
    BY <2>2, <2>3, <2>4 DEF SnapshotBody, OnlineBody
<1>12. r2.files["snapshot"].version = Body("timestamp")
  BY <1>6, <1>7 DEF OnlineBody, Has
<1>13. \/ Due("snapshot") /\ U.files["snapshot"] = NewVersion(repo, "snapshot", Body("snapshot"), config, now)
       \/ ~Due("snapshot") /\ Has(repo, "snapshot") /\ U.files["snapshot"] = repo.files["snapshot"]
  <2>1. /\ Has(r1, "snapshot") <=> Has(repo, "snapshot")
        /\ Has(r1, "snapshot") => r1.files["snapshot"] = repo.files["snapshot"]
    BY <1>2, <1>5 DEF Has
  <2>2. NeedsVersion(r1, repo, "snapshot", SnapshotBody(r1), config, previous, now) <=> Due("snapshot")
    BY <1>9, <1>11, <2>1, SameReasons
  <2>3. U.files["snapshot"] = r2.files["snapshot"]
    BY <1>6, <1>7 DEF Has
  <2> HIDE DEF Due, Body
  <2>4. QED
    BY <1>6, <1>11, <2>1, <2>2, <2>3
<1>14. \/ Due("timestamp") /\ U.files["timestamp"] = NewVersion(repo, "timestamp", Body("timestamp"), config, now)
       \/ ~Due("timestamp") /\ Has(repo, "timestamp") /\ U.files["timestamp"] = repo.files["timestamp"]
  <2>1. /\ Has(r2, "timestamp") <=> Has(repo, "timestamp")
        /\ Has(r2, "timestamp") => r2.files["timestamp"] = repo.files["timestamp"]
    BY <1>2, <1>5, <1>6 DEF Has
  <2>2. NeedsVersion(r2, repo, "timestamp", r2.files["snapshot"].version, config, previous, now)
          <=> Due("timestamp")
    BY <1>9, <1>12, <2>1, SameReasons
  <2> HIDE DEF Due, Body
  <2>3. QED
    BY <1>7, <1>12, <2>1, <2>2
<1>15. ASSUME NEW r \in mine
       PROVE  \/ Due(r) /\ U.files[r] = NewVersion(repo, r, Body(r), config, now)
              \/ ~Due(r) /\ Has(repo, r) /\ U.files[r] = repo.files[r]
  <2>1. Body(r) = repo.files[r].body
    BY <1>2 DEF OnlineBody
  <2>2. U.files[r] = r1.files[r] /\ Has(repo, r)
    BY <1>2, <1>10
  <2>3. QED
    BY <1>5, <2>1, <2>2
<1>16. \A r \in DOMAIN repo.files : r \notin CiRoles(repo, config) => U.files[r] = repo.files[r]
  BY <1>5, <1>6, <1>7 DEF CiRoles, Has
<1>17. \A r : r \in DOMAIN U.files <=> r \in DOMAIN repo.files \/ r \in {"snapshot", "timestamp"}
  BY <1>5, <1>6, <1>7 DEF Has
<1>18. \A r \in CiRoles(repo, config) :
          \/ Due(r) /\ U.files[r] = NewVersion(repo, r, Body(r), config, now)
          \/ ~Due(r) /\ Has(repo, r) /\ U.files[r] = repo.files[r]
  BY <1>13, <1>14, <1>15 DEF CiRoles
<1>19. U = [files |-> U.files, history |-> repo.history]
  BY <1>5, <1>6, <1>7
<1>20. QED
  BY <1>1, <1>7, <1>16, <1>17, <1>18, <1>19

-------------------------------------------------------------------------------
(* sign_online *)

\* A new version of `r` with that content, signed with all its keys.
NewAndSigned(repo, r, body, config, now) ==
    [version |-> 1 + LastVersion(repo, r), expires |-> now + config.roles[r].expires,
     sigs |-> config.roles[r].keys, body |-> body]

\* What CI makes of `repo`: each of its roles is due and renewed, or kept.
IsOnline(repo, online, config, previous, now) ==
    /\ online = [files |-> online.files, history |-> repo.history]
    /\ IsMap(online.files)
    /\ \A r : r \in DOMAIN online.files <=> r \in DOMAIN repo.files \/ r \in {"snapshot", "timestamp"}
    /\ \A r \in DOMAIN repo.files :
          r \notin CiRoles(repo, config) => online.files[r] = repo.files[r]
    /\ \A r \in CiRoles(repo, config) :
          LET body == OnlineBody(repo, online, r)
          IN  \/ /\ NeedsVersion(repo, repo, r, body, config, previous, now)
                 /\ online.files[r] = NewAndSigned(repo, r, body, config, now)
              \/ /\ ~NeedsVersion(repo, repo, r, body, config, previous, now)
                 /\ Has(repo, r) /\ online.files[r] = repo.files[r]

(* Grounded metadata gives each of its roles the config's keys. *)
LEMMA GroundedGivesKeys ==
    ASSUME NEW repo, NEW config, Valid(config), NEW r \in DOMAIN config.roles,
           Has(repo, "root"), repo.files["root"].body = RootBody(config),
           Has(repo, "targets"), Delegations(repo) = ConfigDelegations(config)
    PROVE  HasKeys(repo, r) /\ RoleKeys(repo, r) = RoleDefinition(config.roles[r])
<1>1. CASE r \in TopLevel
  BY <1>1, RootGivesKeys
<1>2. CASE r \notin TopLevel
  BY <1>2, DelegationGivesKeys
<1>3. QED
  BY <1>1, <1>2

(* A file nobody has signed yet misses all its keys. *)
LEMMA UnsignedMissesAll ==
    ASSUME NEW repo, NEW base, NEW config, Valid(config), NEW r \in DOMAIN config.roles,
           r # "root", RoleKeys(repo, r) = RoleDefinition(config.roles[r]),
           repo.files[r].sigs = {}
    PROVE  MissingKeys(repo, base, r) = config.roles[r].keys
<1> DEFINE req == RoleDefinition(config.roles[r])
<1>1. /\ req.keys = config.roles[r].keys
      /\ req.threshold \in Nat \ {0}
  BY ThresholdsFit
<1>2. SignedBy(repo.files[r], req.keys) = {}
  BY DEF SignedBy
<1>3. ~Met(repo.files[r], req)
  BY <1>1, <1>2, FS_EmptySet DEF Met
<1> HIDE DEF req
<1>4. \A x : x \in Requirements(repo, base, r) <=> x = req
  BY DEF Requirements, req
<1>5. \A k : k \in MissingKeys(repo, base, r) <=>
          \E x \in Requirements(repo, base, r) : ~Met(repo.files[r], x) /\ k \in x.keys /\ k \notin repo.files[r].sigs
  BY DEF MissingKeys
<1>6. \A k : k \in MissingKeys(repo, base, r) <=> k \in config.roles[r].keys
  BY <1>1, <1>3, <1>4, <1>5
<1>7. QED
  BY <1>6

(* All keys of CI's roles are online. *)
LEMMA CiKeysAreOnline ==
    ASSUME NEW repo, NEW config, Valid(config), NEW r \in CiRoles(repo, config)
    PROVE  r \in DOMAIN config.roles /\ config.roles[r].keys \subseteq config.online
<1>1. /\ "snapshot" \in DOMAIN config.roles /\ "timestamp" \in DOMAIN config.roles
      /\ config.roles["snapshot"].keys \subseteq config.online
      /\ config.roles["timestamp"].keys \subseteq config.online
  BY RolesOfConfig DEF Valid, ValidRole
<1>2. QED
  BY <1>1 DEF CiRoles, CiSigns

(* `sign_online` completes what `update_online` renewed, and nothing else. *)
LEMMA OnlineIs ==
    ASSUME NEW repo, NEW config, NEW previous, NEW now \in Nat,
           Grounded(repo, config), Valid(config), NEW roles,
           \A r \in roles : r \in CiRoles(repo, config),
           \A r \in CiRoles(repo, config) :
              r \notin roles => Has(repo, r) /\ UpdateOnline(repo, config, previous, now).files[r] = repo.files[r]
    PROVE  IsOnline(repo,
                    SignOnline(config, repo, UpdateOnline(repo, config, previous, now), roles),
                    config, previous, now)
<1> DEFINE U == UpdateOnline(repo, config, previous, now)
           Body(r) == OnlineBody(repo, U, r)
           new == [r \in roles |-> [U.files[r] EXCEPT !.sigs = @ \cup (MissingKeys(U, repo, r) \cap config.online)]]
           O == With(U, new)
           Due(r) == NeedsVersion(repo, repo, r, Body(r), config, previous, now)
<1>1. SignOnline(config, repo, U, roles) = O
  BY DEF SignOnline
<1>2. /\ U = [files |-> U.files, history |-> repo.history]
      /\ IsMap(U.files)
      /\ \A r : r \in DOMAIN U.files <=> r \in DOMAIN repo.files \/ r \in {"snapshot", "timestamp"}
      /\ \A r \in DOMAIN repo.files : r \notin CiRoles(repo, config) => U.files[r] = repo.files[r]
      /\ \A r \in CiRoles(repo, config) :
            \/ Due(r) /\ U.files[r] = NewVersion(repo, r, Body(r), config, now)
            \/ ~Due(r) /\ Has(repo, r) /\ U.files[r] = repo.files[r]
  BY UpdateOnlineIs
<1> HIDE DEF U
<1>3. \A r \in CiRoles(repo, config) : /\ r # "root" /\ r \in DOMAIN U.files /\ r \in DOMAIN config.roles
                                       /\ config.roles[r].keys \subseteq config.online
                                       /\ LastVersion(repo, r) \in Nat
  <2>1. \A r \in CiRoles(repo, config) : r # "root" /\ r \in DOMAIN U.files
    BY <1>2 DEF CiRoles, TargetsRoles
  <2>2. \A r \in CiRoles(repo, config) : r \in DOMAIN config.roles /\ config.roles[r].keys \subseteq config.online
    BY CiKeysAreOnline
  <2>3. \A r : LastVersion(repo, r) \in Nat
    BY DEF LastVersion, Grounded, WellFormed, IsFile, Has
  <2>4. QED
    BY <2>1, <2>2, <2>3
<1>4. \A r \in DOMAIN config.roles :
         /\ RoleKeys(repo, r) = RoleDefinition(config.roles[r])
         /\ RoleKeys(U, r) = RoleDefinition(config.roles[r])
  <2>1. Has(U, "root") /\ Has(U, "targets") /\ U.files["root"] = repo.files["root"]
    BY <1>2, <1>3 DEF Grounded, Has
  <2>2. U.files["targets"].body = repo.files["targets"].body
    <3>1. CASE "targets" \in CiRoles(repo, config)
      <4>1. Body("targets") = repo.files["targets"].body
        BY DEF OnlineBody
      <4>2. NewVersion(repo, "targets", Body("targets"), config, now).body = Body("targets")
        BY DEF NewVersion
      <4>3. QED
        BY <1>2, <3>1, <4>1, <4>2
    <3>2. CASE "targets" \notin CiRoles(repo, config)
      BY <1>2, <3>2 DEF Grounded, Has
    <3>3. QED
      BY <3>1, <3>2
  <2>3. Delegations(U) = Delegations(repo)
    BY <2>2 DEF Delegations
  <2>4. QED
    BY <2>1, <2>3, GroundedGivesKeys DEF Grounded
<1>5. DOMAIN new = roles
  OBVIOUS
<1>6. ASSUME NEW r \in roles, Due(r)
      PROVE  new[r] = NewAndSigned(repo, r, Body(r), config, now)
  <2> DEFINE f == U.files[r]
             keys == MissingKeys(U, repo, r) \cap config.online
  <2>1. U.files[r] = NewVersion(repo, r, Body(r), config, now)
    BY <1>2, <1>6
  <2>2. /\ IsFile(f) /\ f.sigs = {} /\ f.version = 1 + LastVersion(repo, r)
        /\ f.expires = now + config.roles[r].expires /\ f.body = Body(r)
    BY <1>3, <2>1, NewVersionIs
  <2>3. MissingKeys(U, repo, r) = config.roles[r].keys
    BY <1>3, <1>4, <2>2, UnsignedMissesAll
  <2>4. keys = config.roles[r].keys
    BY <1>3, <2>3
  <2>5. new[r] = [f EXCEPT !.sigs = @ \cup keys]
    OBVIOUS
  <2> HIDE DEF f, keys, new
  <2>6. Countersigned(f, new[r], keys) /\ \A k : k \in new[r].sigs <=> k \in f.sigs \/ k \in keys
    BY <2>2, <2>5, SigningIs
  <2>7. new[r].sigs = keys
    BY <2>2, <2>6
  <2>8. QED
    BY <2>2, <2>4, <2>6, <2>7 DEF Countersigned, NewAndSigned
<1>7. ASSUME NEW r \in roles, ~Due(r)
      PROVE  new[r] = U.files[r]
  <2> DEFINE f == U.files[r]
             keys == MissingKeys(U, repo, r) \cap config.online
  <2>1. Has(repo, r) /\ f = repo.files[r] /\ IsFile(f)
    BY <1>2, <1>7 DEF Grounded, WellFormed, Has
  <2>2. MissingKeys(repo, repo, r) = {}
    BY <1>7, <2>1 DEF NeedsVersion
  <2>3. Requirements(U, repo, r) = Requirements(repo, repo, r)
    BY <1>3, <1>4 DEF Requirements
  <2>4. MissingKeys(U, repo, r) = {}
    BY <2>1, <2>2, <2>3 DEF MissingKeys
  <2>5. keys = {}
    BY <2>4
  <2>6. new[r] = [f EXCEPT !.sigs = @ \cup keys]
    OBVIOUS
  <2> HIDE DEF f, keys, new
  <2>7. Countersigned(f, new[r], keys)
    BY <2>1, <2>6, SigningIs
  <2>8. new[r].sigs = f.sigs
    BY <2>5, <2>7 DEF Countersigned
  <2>9. new[r] = f
    BY <2>1, <2>7, <2>8 DEF Countersigned, IsFile
  <2>10. QED
    BY <2>9 DEF f
<1>8. \A r \in roles : r \in DOMAIN U.files /\ r # "root"
  BY <1>3
<1> HIDE DEF new
<1>9. /\ O = [files |-> O.files, history |-> O.history]
      /\ \A r : r \in DOMAIN O.files <=> r \in roles \/ r \in DOMAIN U.files
      /\ IsMap(O.files)
      /\ \A r \in roles : O.files[r] = new[r]
      /\ \A r \in DOMAIN U.files : r \notin roles => O.files[r] = U.files[r]
      /\ O.history = U.history
  BY <1>5, <1>8, WithIs
<1> HIDE DEF O
<1>10. \A r \in CiRoles(repo, config) :
          \/ Due(r) /\ O.files[r] = NewAndSigned(repo, r, Body(r), config, now)
          \/ ~Due(r) /\ Has(repo, r) /\ O.files[r] = repo.files[r]
  <2> SUFFICES ASSUME NEW r \in CiRoles(repo, config)
               PROVE  \/ Due(r) /\ O.files[r] = NewAndSigned(repo, r, Body(r), config, now)
                      \/ ~Due(r) /\ Has(repo, r) /\ O.files[r] = repo.files[r]
    OBVIOUS
  <2>1. CASE r \in roles /\ Due(r)
    BY <1>6, <1>9, <2>1
  <2>2. CASE r \in roles /\ ~Due(r)
    BY <1>2, <1>7, <1>9, <2>2
  <2>3. CASE r \notin roles
    <3>1. Has(repo, r) /\ U.files[r] = repo.files[r] /\ O.files[r] = repo.files[r]
      <4>1. Has(repo, r) /\ U.files[r] = repo.files[r]
        BY <2>3 DEF U
      <4>2. QED
        BY <1>3, <1>9, <2>3, <4>1
    <3>2. ~Due(r)
      <4>1. SUFFICES ASSUME Due(r) PROVE FALSE
        OBVIOUS
      <4>2. U.files[r] = NewVersion(repo, r, Body(r), config, now)
        BY <1>2, <4>1
      <4>3. U.files[r].version = 1 + LastVersion(repo, r)
        BY <1>3, <4>2, NewVersionIs
      <4>4. LastVersion(repo, r) = repo.files[r].version
        BY <3>1 DEF LastVersion
      <4>5. LastVersion(repo, r) \in Nat
        BY <1>3
      <4>6. QED
        BY <3>1, <4>3, <4>4, <4>5
    <3>3. QED
      BY <3>1, <3>2
  <2>4. QED
    BY <2>1, <2>2, <2>3
<1>11. \A r \in DOMAIN U.files : O.files[r].version = U.files[r].version
  <2> SUFFICES ASSUME NEW r \in DOMAIN U.files PROVE O.files[r].version = U.files[r].version
    OBVIOUS
  <2>1. CASE r \in roles /\ Due(r)
    <3>1. O.files[r].version = 1 + LastVersion(repo, r)
      <4>1. O.files[r] = NewAndSigned(repo, r, Body(r), config, now)
        BY <1>6, <1>9, <2>1
      <4>2. NewAndSigned(repo, r, Body(r), config, now).version = 1 + LastVersion(repo, r)
        BY DEF NewAndSigned
      <4>3. QED
        BY <4>1, <4>2
    <3>2. U.files[r] = NewVersion(repo, r, Body(r), config, now) /\ r \in CiRoles(repo, config)
      BY <1>2, <2>1
    <3>3. U.files[r].version = 1 + LastVersion(repo, r)
      BY <1>3, <3>2, NewVersionIs
    <3>4. QED
      BY <3>1, <3>3
  <2>2. CASE r \in roles /\ ~Due(r)
    BY <1>7, <1>9, <2>2
  <2>3. CASE r \notin roles
    BY <1>9, <2>3
  <2>4. QED
    BY <2>1, <2>2, <2>3
<1>12. \A r : OnlineBody(repo, O, r) = Body(r)
  <2>1. [x \in TargetsRoles(repo) |-> O.files[x].version] = [x \in TargetsRoles(repo) |-> U.files[x].version]
    BY <1>2, <1>11 DEF TargetsRoles
  <2>2. O.files["snapshot"].version = U.files["snapshot"].version
    BY <1>2, <1>11
  <2>3. QED
    BY <2>1, <2>2 DEF OnlineBody
<1> HIDE DEF Body
<1>13. \A r \in DOMAIN repo.files : r \notin CiRoles(repo, config) => O.files[r] = repo.files[r]
  BY <1>2, <1>9
<1>14. \A r : r \in DOMAIN O.files <=> r \in DOMAIN repo.files \/ r \in {"snapshot", "timestamp"}
  BY <1>2, <1>8, <1>9
<1>15. O = [files |-> O.files, history |-> repo.history]
  BY <1>2, <1>9
<1>16. IsOnline(repo, O, config, previous, now)
  BY <1>9, <1>10, <1>12, <1>13, <1>14, <1>15 DEF IsOnline
<1>17. QED
  BY <1>1, <1>16 DEF U

-------------------------------------------------------------------------------
(* CI's commits on main *)

(* CI works on commits. *)
LEMMA CommitIsGrounded ==
    ASSUME NEW repo, NEW config, IsCommit(repo, config), Valid(config)
    PROVE  /\ Grounded(repo, config)
           /\ \A r : r \in DOMAIN repo.files <=> r \in DOMAIN config.roles
           /\ \A r \in {"root", "targets", "snapshot", "timestamp"} : r \in DOMAIN repo.files
<1>1. \A r \in {"root", "targets", "snapshot", "timestamp"} : r \in DOMAIN repo.files
  BY RolesOfConfig DEF IsCommit, Follows
<1>2. \A r : SnapshotVersion(repo, r) \in Nat
  BY LastVersionIsNat DEF IsCommit
<1>3. QED
  BY <1>1, <1>2 DEF IsCommit, Follows, Grounded, Has

(* The commit that CI makes of a commit. *)
LEMMA OnlineCommitIs ==
    ASSUME NEW repo, NEW config, NEW previous, NEW now \in Nat,
           IsCommit(repo, config), Valid(config)
    PROVE  LET U == UpdateOnline(repo, config, previous, now)
           IN  IsOnline(repo, SignOnline(config, repo, U, Changed(repo, U)), config, previous, now)
<1> DEFINE U == UpdateOnline(repo, config, previous, now)
           roles == Changed(repo, U)
<1>1. /\ Grounded(repo, config)
      /\ \A r \in {"root", "targets", "snapshot", "timestamp"} : r \in DOMAIN repo.files
  BY CommitIsGrounded
<1>2. /\ \A r : r \in DOMAIN U.files <=> r \in DOMAIN repo.files \/ r \in {"snapshot", "timestamp"}
      /\ \A r \in DOMAIN repo.files : r \notin CiRoles(repo, config) => U.files[r] = repo.files[r]
  BY <1>1, UpdateOnlineIs
<1> HIDE DEF U
<1>3. \A r : r \in roles <=> r \in DOMAIN repo.files /\ repo.files[r] # U.files[r]
  BY <1>1, <1>2 DEF Changed, Has
<1>4. \A r \in CiRoles(repo, config) : Has(repo, r)
  BY <1>1 DEF CiRoles, TargetsRoles, Has
<1> HIDE DEF roles
<1>5. \A r \in roles : r \in CiRoles(repo, config)
  BY <1>2, <1>3
<1>6. \A r \in CiRoles(repo, config) : r \notin roles => Has(repo, r) /\ U.files[r] = repo.files[r]
  BY <1>3, <1>4 DEF Has
<1>7. QED
  BY <1>1, <1>5, <1>6, OnlineIs DEF U, roles

(* Each role of CI's commit is complete, and is the one there was or the   *)
(* next version.                                                           *)
LEMMA OnlineRoles ==
    ASSUME NEW repo, NEW online, NEW config, NEW previous, NEW now \in Nat,
           IsCommit(repo, config), Valid(config), IsOnline(repo, online, config, previous, now)
    PROVE  /\ \A r : r \in DOMAIN online.files <=> r \in DOMAIN config.roles
           /\ \A r \in DOMAIN repo.files :
                 /\ IsFile(online.files[r])
                 /\ Met(online.files[r], RoleDefinition(config.roles[r]))
                 /\ \/ online.files[r] = repo.files[r]
                    \/ /\ r \in CiRoles(repo, config)
                       /\ online.files[r].version = 1 + repo.files[r].version
                       /\ online.files[r].expires = now + config.roles[r].expires
           /\ \A r \in CiRoles(repo, config) :
                 /\ Has(repo, r) /\ r \in DOMAIN config.roles /\ r # "root"
                 /\ online.files[r].body = OnlineBody(repo, online, r)
                 /\ ~InSigningPeriod(config.roles[r], online.files[r].expires, now)
<1>1. /\ Grounded(repo, config)
      /\ \A r : r \in DOMAIN repo.files <=> r \in DOMAIN config.roles
      /\ \A r \in {"root", "targets", "snapshot", "timestamp"} : r \in DOMAIN repo.files
  BY CommitIsGrounded
<1>2. \A r \in CiRoles(repo, config) : Has(repo, r) /\ r \in DOMAIN config.roles /\ r # "root"
  BY <1>1 DEF CiRoles, TargetsRoles, Has
<1>3. ASSUME NEW r \in CiRoles(repo, config)
      PROVE  /\ IsFile(online.files[r])
             /\ Met(online.files[r], RoleDefinition(config.roles[r]))
             /\ online.files[r].body = OnlineBody(repo, online, r)
             /\ ~InSigningPeriod(config.roles[r], online.files[r].expires, now)
             /\ \/ online.files[r] = repo.files[r]
                \/ /\ online.files[r].version = 1 + repo.files[r].version
                   /\ online.files[r].expires = now + config.roles[r].expires
  <2> DEFINE body == OnlineBody(repo, online, r)
             req == RoleDefinition(config.roles[r])
  <2>1. \/ online.files[r] = NewAndSigned(repo, r, body, config, now)
        \/ /\ ~NeedsVersion(repo, repo, r, body, config, previous, now)
           /\ online.files[r] = repo.files[r]
    BY DEF IsOnline
  <2>2. /\ IsFile(repo.files[r]) /\ LastVersion(repo, r) = repo.files[r].version
        /\ Has(repo, r) /\ r \in DOMAIN config.roles /\ r # "root"
    BY <1>2 DEF IsCommit, WellFormed, LastVersion, Has
  <2>3. /\ req.keys = config.roles[r].keys /\ Cardinality(req.keys) >= req.threshold
        /\ config.roles[r].expires \in Nat
        /\ config.roles[r].signing \in 1 .. config.roles[r].expires - 1
    BY <2>2, ThresholdsFit DEF Valid, ValidRole
  <2> HIDE DEF body
  <2>4. CASE online.files[r] = NewAndSigned(repo, r, body, config, now)
    <3> DEFINE new == online.files[r]
    <3>1. /\ IsFile(new) /\ new.version = 1 + repo.files[r].version
          /\ new.expires = now + config.roles[r].expires
          /\ new.sigs = config.roles[r].keys /\ new.body = body
      BY <2>2, <2>3, <2>4 DEF NewAndSigned, IsFile
    <3> HIDE DEF new
    <3>2. SignedBy(new, req.keys) = req.keys
      BY <2>3, <3>1 DEF SignedBy
    <3>3. Met(new, req)
      BY <2>3, <3>2 DEF Met
    <3>4. ~InSigningPeriod(config.roles[r], new.expires, now)
      BY <2>3, <3>1 DEF InSigningPeriod
    <3>5. QED
      BY <3>1, <3>3, <3>4 DEF new, body
  <2>5. CASE /\ ~NeedsVersion(repo, repo, r, body, config, previous, now)
             /\ online.files[r] = repo.files[r]
    <3>1. RoleKeys(repo, r) = req
      BY <1>1, <2>2, GroundedGivesKeys DEF Grounded
    <3>2. Kept(repo, config, r, body, repo.files[r], now)
      BY <2>2, <2>5, <3>1, NotDueIsKept
    <3>3. QED
      BY <2>2, <2>5, <3>2 DEF Kept, body
  <2>6. QED
    BY <2>1, <2>4, <2>5
<1>4. ASSUME NEW r \in DOMAIN repo.files, r \notin CiRoles(repo, config)
      PROVE  /\ IsFile(online.files[r])
             /\ Met(online.files[r], RoleDefinition(config.roles[r]))
             /\ online.files[r] = repo.files[r]
  <2>1. online.files[r] = repo.files[r]
    BY <1>4 DEF IsOnline
  <2>2. r \in EventRoles(repo)
    BY <1>4 DEF CiRoles, EventRoles
  <2>3. QED
    BY <2>1, <2>2 DEF IsCommit, Signed, WellFormed
<1>5. \A r : r \in DOMAIN online.files <=> r \in DOMAIN config.roles
  BY <1>1 DEF IsOnline
<1>6. QED
  BY <1>2, <1>3, <1>4, <1>5

\* What the snapshot of CI's commit lists.
Listed(repo, online) ==
    Over([x \in TargetsRoles(repo) |-> online.files[x].version],
         IF Trusts(repo, "snapshot", repo.files["snapshot"])
         THEN repo.files["snapshot"].body
         ELSE <<>>)

(* Snapshot and timestamp list what there is. *)
LEMMA OnlineLists ==
    ASSUME NEW repo, NEW online, NEW config, NEW previous, NEW now \in Nat,
           IsCommit(repo, config), Valid(config), IsOnline(repo, online, config, previous, now)
    PROVE  LET body == online.files["snapshot"].body
           IN  /\ body = Listed(repo, online)
               /\ IsMap(body)
               /\ \A r \in TargetsRoles(repo) : r \in DOMAIN body /\ body[r] = online.files[r].version
               /\ \A r : r \notin TargetsRoles(repo) =>
                     /\ r \in DOMAIN body <=> /\ Trusts(repo, "snapshot", repo.files["snapshot"])
                                              /\ r \in DOMAIN repo.files["snapshot"].body
                     /\ r \in DOMAIN body => body[r] = repo.files["snapshot"].body[r]
               /\ online.files["timestamp"].body = online.files["snapshot"].version
<1> DEFINE body == online.files["snapshot"].body
           versions == [x \in TargetsRoles(repo) |-> online.files[x].version]
           listed == IF Trusts(repo, "snapshot", repo.files["snapshot"])
                     THEN repo.files["snapshot"].body
                     ELSE <<>>
<1>1. Has(repo, "snapshot")
  BY CommitIsGrounded DEF Has
<1>2. /\ \A r \in {"snapshot", "timestamp"} : online.files[r].body = OnlineBody(repo, online, r)
  BY OnlineRoles DEF CiRoles
<1>3. body = Over(versions, listed)
  BY <1>1, <1>2 DEF OnlineBody
<1>4. online.files["timestamp"].body = online.files["snapshot"].version
  BY <1>2 DEF OnlineBody
<1>5. /\ DOMAIN versions = TargetsRoles(repo)
      /\ \A r \in TargetsRoles(repo) : versions[r] = online.files[r].version
  OBVIOUS
<1>6. /\ \A r : r \in DOMAIN listed <=> /\ Trusts(repo, "snapshot", repo.files["snapshot"])
                                        /\ r \in DOMAIN repo.files["snapshot"].body
      /\ \A r \in DOMAIN listed : listed[r] = repo.files["snapshot"].body[r]
  OBVIOUS
<1> HIDE DEF versions, listed, body
<1>7. /\ \A r : r \in DOMAIN body <=> r \in TargetsRoles(repo) \/ r \in DOMAIN listed
      /\ \A r \in TargetsRoles(repo) : body[r] = versions[r]
      /\ \A r \in DOMAIN listed : r \notin TargetsRoles(repo) => body[r] = listed[r]
      /\ IsMap(body)
  <2>1. /\ \A r : r \in DOMAIN body <=> r \in DOMAIN versions \/ r \in DOMAIN listed
        /\ \A r \in DOMAIN versions : body[r] = versions[r]
        /\ \A r \in DOMAIN listed : r \notin DOMAIN versions => body[r] = listed[r]
        /\ IsMap(body)
    BY <1>3, OverIs
  <2>2. QED
    BY <1>5, <2>1
<1>8. body = Listed(repo, online)
  BY <1>3 DEF Listed, versions, listed
<1>9. QED
  BY <1>4, <1>5, <1>6, <1>7, <1>8 DEF body

(* CI makes a commit that comes after the one there was. *)
LEMMA OnlineIsCommit ==
    ASSUME NEW repo, NEW online, NEW config, NEW previous, NEW now \in Nat,
           IsCommit(repo, config), Valid(config), IsOnline(repo, online, config, previous, now)
    PROVE  /\ IsCommit(online, config)
           /\ Forward(repo, online)
           /\ Later(repo, online)
           /\ DOMAIN online.files = DOMAIN repo.files
           /\ online.files["root"] = repo.files["root"]
           /\ online.history = repo.history
<1>1. /\ \A r : r \in DOMAIN repo.files <=> r \in DOMAIN config.roles
      /\ \A r \in {"root", "targets", "snapshot", "timestamp"} : r \in DOMAIN repo.files
      /\ \A r : SnapshotVersion(repo, r) \in Nat
  BY CommitIsGrounded DEF Grounded
<1>2. /\ \A r : r \in DOMAIN online.files <=> r \in DOMAIN config.roles
      /\ \A r \in DOMAIN repo.files :
            /\ IsFile(online.files[r])
            /\ Met(online.files[r], RoleDefinition(config.roles[r]))
            /\ \/ online.files[r] = repo.files[r]
               \/ online.files[r].version = 1 + repo.files[r].version
      /\ \A r \in CiRoles(repo, config) : r # "root" /\ online.files[r].body = OnlineBody(repo, online, r)
  BY OnlineRoles
<1>3. /\ online = [files |-> online.files, history |-> online.history]
      /\ online.history = repo.history
      /\ IsMap(online.files)
      /\ \A r \in DOMAIN repo.files : r \notin CiRoles(repo, config) => online.files[r] = repo.files[r]
  BY DEF IsOnline
<1>4. online.files["root"] = repo.files["root"]
  BY <1>1, <1>2, <1>3
<1>5. DOMAIN online.files = DOMAIN repo.files /\ DOMAIN online.files = DOMAIN config.roles
  BY <1>1, <1>2
<1>6. \A r \in TargetsRoles(repo) : online.files[r].body = repo.files[r].body
  <2> SUFFICES ASSUME NEW r \in TargetsRoles(repo) PROVE online.files[r].body = repo.files[r].body
    OBVIOUS
  <2>1. r \in DOMAIN repo.files /\ r \notin {"root", "snapshot", "timestamp"}
    BY DEF TargetsRoles
  <2>2. QED
    BY <1>2, <1>3, <2>1 DEF OnlineBody
<1>7. WellFormed(online)
  BY <1>2, <1>3, <1>5 DEF IsCommit, WellFormed
<1>8. Follows(online, config)
  <2>1. "targets" \in TargetsRoles(repo) /\ TargetsRoles(online) = TargetsRoles(repo)
    BY <1>1, <1>5 DEF TargetsRoles
  <2>2. Delegations(online) = Delegations(repo)
    BY <1>6, <2>1 DEF Delegations
  <2>3. QED
    BY <1>4, <1>5, <1>6, <2>1, <2>2 DEF IsCommit, Follows
<1>9. Signed(online, config)
  BY <1>2, <1>5 DEF Signed, EventRoles
<1>10. Chained(online)
  BY <1>3, <1>4 DEF IsCommit, Chained
<1>11. \A r \in DOMAIN repo.files : repo.files[r].version \in Nat /\ online.files[r].version \in Nat
  BY <1>2 DEF IsCommit, WellFormed, IsFile
<1>12. /\ IsMap(online.files["snapshot"].body)
       /\ \A r \in TargetsRoles(repo) : /\ r \in DOMAIN online.files["snapshot"].body
                                        /\ online.files["snapshot"].body[r] = online.files[r].version
       /\ \A r : r \notin TargetsRoles(repo) /\ r \in DOMAIN online.files["snapshot"].body =>
                /\ r \in DOMAIN repo.files["snapshot"].body
                /\ online.files["snapshot"].body[r] = repo.files["snapshot"].body[r]
  BY OnlineLists
<1>13. \A r \in DOMAIN repo.files["snapshot"].body : repo.files["snapshot"].body[r] \in Nat
  BY DEF IsCommit, Listing
<1>14. Listing(online)
  <2>1. TargetsRoles(online) = TargetsRoles(repo)
    BY <1>5 DEF TargetsRoles
  <2>2. \A r \in DOMAIN online.files["snapshot"].body : online.files["snapshot"].body[r] \in Nat
    BY <1>11, <1>12, <1>13 DEF TargetsRoles
  <2>3. \A r \in TargetsRoles(online) : SnapshotVersion(online, r) <= online.files[r].version
    <3> SUFFICES ASSUME NEW r \in TargetsRoles(repo)
                 PROVE  SnapshotVersion(online, r) <= online.files[r].version
      BY <2>1
    <3>1. SnapshotVersion(online, r) = online.files[r].version
      BY <1>1, <1>5, <1>12 DEF SnapshotVersion, Has
    <3>2. online.files[r].version \in Nat
      BY <1>11 DEF TargetsRoles
    <3>3. QED
      BY <3>1, <3>2
  <2>4. QED
    BY <1>12, <2>2, <2>3 DEF Listing
<1>15. Forward(repo, online)
  BY <1>2, <1>5, <1>11 DEF Forward, Has
<1>16. \A r : r \notin TargetsRoles(repo) => SnapshotVersion(online, r) <= SnapshotVersion(repo, r)
  <2> SUFFICES ASSUME NEW r, r \notin TargetsRoles(repo)
               PROVE  SnapshotVersion(online, r) <= SnapshotVersion(repo, r)
    OBVIOUS
  <2>1. SnapshotVersion(online, r) = SnapshotVersion(repo, r) \/ SnapshotVersion(online, r) = 0
    BY <1>1, <1>5, <1>12 DEF SnapshotVersion, Has
  <2>2. QED
    BY <1>1, <2>1
<1>17. Later(repo, online)
  <2>1. \A r : ~Has(repo, r) => SnapshotVersion(online, r) <= SnapshotVersion(repo, r)
    BY <1>16 DEF TargetsRoles, Has
  <2>2. online.files["targets"] = repo.files["targets"]
          \/ online.files["targets"].version > repo.files["targets"].version
    BY <1>1, <1>2, <1>11
  <2>3. QED
    BY <1>1, <1>3, <1>4, <1>11, <2>1, <2>2 DEF Later
<1>18. QED
  BY <1>3, <1>4, <1>5, <1>7, <1>8, <1>9, <1>10, <1>14, <1>15, <1>17 DEF IsCommit

(* `verify` accepts CI's commit as long as no role that people sign has     *)
(* expired.                                                                 *)
LEMMA OnlineVerifies ==
    ASSUME NEW repo, NEW online, NEW config, NEW previous, NEW now \in Nat,
           IsCommit(repo, config), Valid(config), IsOnline(repo, online, config, previous, now),
           \A r \in EventRoles(repo) : Unexpired(repo, r, now)
    PROVE  Verify(online, now)
<1>1. /\ IsCommit(online, config) /\ DOMAIN online.files = DOMAIN repo.files
      /\ Follows(online, config)
  BY OnlineIsCommit DEF IsCommit
<1>2. /\ \A r : r \in DOMAIN online.files <=> r \in DOMAIN config.roles
      /\ \A r \in DOMAIN repo.files :
            /\ IsFile(online.files[r])
            /\ Met(online.files[r], RoleDefinition(config.roles[r]))
            /\ online.files[r] = repo.files[r] \/ r \in CiRoles(repo, config)
      /\ \A r \in CiRoles(repo, config) :
            ~InSigningPeriod(config.roles[r], online.files[r].expires, now)
  BY OnlineRoles
<1>3. \A r \in {"root", "targets", "snapshot", "timestamp"} : r \in DOMAIN online.files
  BY <1>1, CommitIsGrounded
<1>4. \A r \in DOMAIN online.files : HasKeys(online, r) /\ Trusts(online, r, online.files[r])
  BY <1>1, <1>2, FollowsGivesKeys DEF Trusts
<1>5. \A r \in DOMAIN online.files : Unexpired(online, r, now)
  <2> SUFFICES ASSUME NEW r \in DOMAIN online.files PROVE online.files[r].expires > now
    BY DEF Unexpired
  <2>1. CASE r \in CiRoles(repo, config)
    <3>1. online.files[r].expires \in Nat /\ config.roles[r].signing \in Nat \ {0}
      <4>1. r \in DOMAIN config.roles /\ IsFile(online.files[r])
        BY <1>1, <1>2
      <4>2. config.roles[r].expires \in Nat /\ config.roles[r].signing \in 1 .. config.roles[r].expires - 1
        BY <4>1 DEF Valid, ValidRole
      <4>3. QED
        BY <4>1, <4>2 DEF IsFile
    <3>2. ~InSigningPeriod(config.roles[r], online.files[r].expires, now)
      BY <1>2, <2>1
    <3>3. QED
      BY <3>1, <3>2 DEF InSigningPeriod
  <2>2. CASE r \notin CiRoles(repo, config)
    <3>1. r \in EventRoles(repo) /\ online.files[r] = repo.files[r]
      BY <1>1, <1>2, <2>2 DEF CiRoles, EventRoles
    <3>2. QED
      BY <3>1 DEF Unexpired
  <2>3. QED
    BY <2>1, <2>2
<1>6. RootChain(online)
  <2> DEFINE v == online.files["root"].version
  <2>1. /\ v \in Nat \ {0}
        /\ \A n : n \in DOMAIN online.history <=> n \in 1 .. v
    BY <1>1, CommitHistory
  <2>2. HasRootHistory(online)
    BY <1>3, <2>1 DEF HasRootHistory, Has
  <2>3. QED
    BY <1>1, <2>1, <2>2 DEF IsCommit, Chained, RootChain
<1>7. /\ online.files["timestamp"].body = online.files["snapshot"].version
      /\ \A r \in TargetsRoles(online) : SnapshotVersion(online, r) = online.files[r].version
  <2>1. TargetsRoles(online) = TargetsRoles(repo)
    BY <1>1 DEF TargetsRoles
  <2>2. QED
    BY <1>3, <2>1, OnlineLists DEF SnapshotVersion, Has
<1>8. QED
  BY <1>3, <1>4, <1>5, <1>6, <1>7 DEF Verify

(* A snapshot of CI lists every role that the last one did, none of them at *)
(* an older version, or else only the roles there are, once root no longer  *)
(* trusts the last one.                                                     *)
LEMMA OnlineSnapshot ==
    ASSUME NEW repo, NEW online, NEW config, NEW previous, NEW now \in Nat,
           IsCommit(repo, config), Valid(config), IsOnline(repo, online, config, previous, now)
    PROVE  LET old == repo.files["snapshot"]
               new == online.files["snapshot"]
           IN  /\ \/ ~Trusts(online, "snapshot", old)
                  \/ \A r \in DOMAIN old.body : SnapshotVersion(online, r) >= old.body[r]
               /\ ~Trusts(repo, "snapshot", old) => DOMAIN new.body = TargetsRoles(online)
<1> DEFINE old == repo.files["snapshot"]
           new == online.files["snapshot"]
<1>1. /\ IsCommit(online, config) /\ DOMAIN online.files = DOMAIN repo.files
      /\ online.files["root"] = repo.files["root"] /\ Forward(repo, online)
  BY OnlineIsCommit
<1>2. \A r \in {"root", "targets", "snapshot", "timestamp"} : Has(online, r) /\ Has(repo, r)
  BY <1>1, CommitIsGrounded DEF Has
<1>3. Trusts(online, "snapshot", old) <=> Trusts(repo, "snapshot", old)
  BY <1>1 DEF Trusts, RoleKeys, TopLevel
<1>4. TargetsRoles(online) = TargetsRoles(repo)
  BY <1>1 DEF TargetsRoles
<1>5. /\ \A r \in TargetsRoles(repo) : r \in DOMAIN new.body /\ new.body[r] = online.files[r].version
      /\ \A r : r \notin TargetsRoles(repo) =>
            /\ r \in DOMAIN new.body <=> Trusts(repo, "snapshot", old) /\ r \in DOMAIN old.body
            /\ r \in DOMAIN new.body => new.body[r] = old.body[r]
  BY OnlineLists
<1> HIDE DEF old, new
<1>6. ASSUME Trusts(repo, "snapshot", old), NEW r \in DOMAIN old.body
      PROVE  SnapshotVersion(online, r) >= old.body[r]
  <2>1. old.body[r] \in Nat /\ SnapshotVersion(repo, r) = old.body[r]
    BY <1>2, <1>6 DEF IsCommit, Listing, SnapshotVersion, old
  <2>2. CASE r \in TargetsRoles(repo)
    <3>1. SnapshotVersion(online, r) = online.files[r].version
      BY <1>2, <1>5, <2>2 DEF SnapshotVersion, new
    <3>2. repo.files[r].version >= old.body[r] /\ Has(repo, r)
      BY <2>1, <2>2 DEF IsCommit, Listing, TargetsRoles, Has
    <3>3. /\ repo.files[r].version \in Nat /\ online.files[r].version \in Nat
          /\ online.files[r].version >= repo.files[r].version
      <4>1. IsFile(repo.files[r]) /\ IsFile(online.files[r])
        BY <1>1, <3>2 DEF IsCommit, WellFormed, Has
      <4>2. online.files[r] = repo.files[r] \/ online.files[r].version > repo.files[r].version
        BY <1>1, <3>2 DEF Forward, Has
      <4>3. QED
        BY <4>1, <4>2 DEF IsFile
    <3>4. QED
      BY <2>1, <3>1, <3>2, <3>3
  <2>3. CASE r \notin TargetsRoles(repo)
    <3>1. SnapshotVersion(online, r) = old.body[r]
      BY <1>2, <1>5, <1>6, <2>3 DEF SnapshotVersion, new
    <3>2. QED
      BY <2>1, <3>1
  <2>4. QED
    BY <2>2, <2>3
<1>7. ASSUME ~Trusts(repo, "snapshot", old)
      PROVE  DOMAIN new.body = TargetsRoles(online)
  <2>1. \A r : r \in DOMAIN new.body <=> r \in TargetsRoles(online)
    BY <1>4, <1>5, <1>7
  <2>2. QED
    BY <2>1
<1>8. QED
  BY <1>3, <1>6, <1>7 DEF old, new

(* To insert entries that a map has already changes nothing. *)
LEMMA OverAgain ==
    ASSUME NEW new, NEW old, IsMap(old),
           \A x \in DOMAIN new : x \in DOMAIN old /\ old[x] = new[x]
    PROVE  Over(new, old) = old
<1>1. \A x : Same(Over(new, old), old, x)
  BY OverIs DEF Same
<1>2. IsMap(Over(new, old))
  BY OverIs
<1>3. QED
  BY <1>1, <1>2, SameMaps

(* After a CI run, another one has nothing to do. *)
LEMMA OnlineIsIdempotent ==
    ASSUME NEW repo, NEW online, NEW config, NEW previous, NEW now \in Nat,
           IsCommit(repo, config), Valid(config), IsOnline(repo, online, config, previous, now)
    PROVE  UpdateOnline(online, config, config, now) = online
<1> DEFINE U == UpdateOnline(online, config, config, now)
           Body(r) == OnlineBody(online, U, r)
<1>1. /\ IsCommit(online, config) /\ DOMAIN online.files = DOMAIN repo.files
      /\ Grounded(online, config) /\ WellFormed(online)
      /\ \A r \in {"root", "targets", "snapshot", "timestamp"} : r \in DOMAIN online.files
  BY OnlineIsCommit, CommitIsGrounded DEF IsCommit
<1>2. /\ TargetsRoles(online) = TargetsRoles(repo)
      /\ CiRoles(online, config) = CiRoles(repo, config)
  BY <1>1 DEF TargetsRoles, CiRoles
<1>3. /\ U = [files |-> U.files, history |-> online.history]
      /\ IsMap(U.files)
      /\ \A r : r \in DOMAIN U.files <=> r \in DOMAIN online.files \/ r \in {"snapshot", "timestamp"}
      /\ \A r \in DOMAIN online.files : r \notin CiRoles(online, config) => U.files[r] = online.files[r]
      /\ \A r \in CiRoles(online, config) :
            NeedsVersion(online, online, r, Body(r), config, config, now) \/ U.files[r] = online.files[r]
  BY <1>1, UpdateOnlineIs
<1> HIDE DEF U
<1>4. ASSUME NEW r \in CiRoles(online, config), Body(r) = online.files[r].body
      PROVE  U.files[r] = online.files[r]
  <2>1. /\ r \in CiRoles(repo, config) /\ r \in DOMAIN online.files /\ r \in DOMAIN config.roles
        /\ r # "root"
    BY <1>1, <1>2, OnlineRoles DEF Has
  <2>2. /\ Met(online.files[r], RoleDefinition(config.roles[r]))
        /\ ~InSigningPeriod(config.roles[r], online.files[r].expires, now)
    BY <1>1, <2>1, OnlineRoles
  <2>3. RoleKeys(online, r) = RoleDefinition(config.roles[r])
    BY <1>1, <2>1, GroundedGivesKeys DEF Grounded
  <2>4. MissingKeys(online, online, r) = {}
    BY <2>1, <2>2, <2>3, OwnKeysSuffice
  <2>5. ~NeedsVersion(online, online, r, Body(r), config, config, now)
    BY <1>4, <2>1, <2>2, <2>4 DEF NeedsVersion, Has
  <2>6. QED
    BY <1>3, <2>5
<1>5. \A r \in TargetsRoles(online) : U.files[r] = online.files[r]
  <2> SUFFICES ASSUME NEW r \in TargetsRoles(online) PROVE U.files[r] = online.files[r]
    OBVIOUS
  <2>1. r \in DOMAIN online.files /\ r \notin {"root", "snapshot", "timestamp"}
    BY DEF TargetsRoles
  <2>2. Body(r) = online.files[r].body
    BY <2>1 DEF OnlineBody
  <2>3. QED
    BY <1>3, <1>4, <2>1, <2>2
<1>6. U.files["snapshot"] = online.files["snapshot"]
  <2> DEFINE body == online.files["snapshot"].body
             versions == [x \in TargetsRoles(online) |-> U.files[x].version]
  <2>1. "snapshot" \in DOMAIN config.roles /\ "snapshot" \in TopLevel
    BY RolesOfConfig DEF TopLevel
  <2>2. Met(online.files["snapshot"], RoleDefinition(config.roles["snapshot"]))
    BY <1>1, OnlineRoles
  <2>3. RoleKeys(online, "snapshot") = RoleDefinition(config.roles["snapshot"])
    BY <1>1, <2>1, GroundedGivesKeys DEF Grounded
  <2>4. Trusts(online, "snapshot", online.files["snapshot"])
    BY <2>2, <2>3 DEF Trusts
  <2>5. Body("snapshot") = Over(versions, body)
    BY <1>1, <2>4 DEF OnlineBody, Has
  <2>6. /\ IsMap(body)
        /\ \A r \in TargetsRoles(online) : r \in DOMAIN body /\ body[r] = online.files[r].version
    BY <1>2, OnlineLists
  <2>7. /\ DOMAIN versions = TargetsRoles(online)
        /\ \A r \in TargetsRoles(online) : versions[r] = online.files[r].version
    BY <1>5
  <2> HIDE DEF versions, body
  <2>8. Over(versions, body) = body
    BY <2>6, <2>7, OverAgain
  <2>9. "snapshot" \in CiRoles(online, config)
    BY DEF CiRoles
  <2>10. QED
    BY <1>4, <2>5, <2>8, <2>9 DEF body
<1>7. U.files["timestamp"] = online.files["timestamp"]
  <2>1. Body("timestamp") = U.files["snapshot"].version
    BY DEF OnlineBody
  <2>2. online.files["timestamp"].body = online.files["snapshot"].version
    BY OnlineLists
  <2>3. "timestamp" \in CiRoles(online, config)
    BY DEF CiRoles
  <2>4. QED
    BY <1>4, <1>6, <2>1, <2>2, <2>3
<1>8. \A r \in DOMAIN online.files : U.files[r] = online.files[r]
  BY <1>3, <1>5, <1>6, <1>7 DEF CiRoles
<1>9. DOMAIN U.files = DOMAIN online.files
  BY <1>1, <1>3
<1>10. U.files = online.files
  BY <1>1, <1>3, <1>8, <1>9 DEF IsMap, WellFormed
<1>11. QED
  BY <1>1, <1>3, <1>10 DEF WellFormed, U
===============================================================================
