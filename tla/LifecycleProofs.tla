---------------------------- MODULE LifecycleProofs ---------------------------
(***************************************************************************)
(* What holds of main and of the signing events for every set of configs,  *)
(* events, targets and keys: the properties of Lifecycle, from one         *)
(* inductive invariant.                                                    *)
(***************************************************************************)
EXTENDS Lifecycle, OnlineProofs, ReviewProofs

-------------------------------------------------------------------------------
(* The commits of main come one after another *)

(* Every commit comes after itself. *)
LEMMA LaterReflexive ==
    ASSUME NEW repo, NEW config, IsCommit(repo, config), Valid(config)
    PROVE  Later(repo, repo)
<1>1. repo.files["root"].version \in Nat
  BY CommitHistory
<1>2. \A r : SnapshotVersion(repo, r) \in Nat
  BY LastVersionIsNat DEF IsCommit
<1>3. QED
  BY <1>1, <1>2 DEF Later

(* What comes after a later commit comes after the first one too. *)
LEMMA LaterTransitive ==
    ASSUME NEW base, NEW c1, NEW repo, NEW c2, NEW next, NEW c3,
           IsCommit(base, c1), Valid(c1), IsCommit(repo, c2), Valid(c2),
           IsCommit(next, c3), Valid(c3), Later(base, repo), Later(repo, next)
    PROVE  Later(base, next)
<1> DEFINE t1 == base.files["targets"]
           t2 == repo.files["targets"]
           t3 == next.files["targets"]
<1>1. /\ base.files["root"].version \in Nat
      /\ repo.files["root"].version \in Nat
      /\ next.files["root"].version \in Nat
  BY CommitHistory
<1>2. t1.version \in Nat /\ t2.version \in Nat /\ t3.version \in Nat
  BY CommitIsGrounded DEF IsCommit, WellFormed, IsFile
<1>3. /\ base.files["root"].version <= repo.files["root"].version
      /\ repo.files["root"].version <= next.files["root"].version
      /\ t2 = t1 \/ t2.version > t1.version
      /\ t3 = t2 \/ t3.version > t2.version
  BY DEF Later
<1>4. \A n \in DOMAIN base.history :
         n \in DOMAIN next.history /\ next.history[n] = base.history[n]
  BY DEF Later
<1>5. t3 = t1 => t2 = t1 /\ t3 = t2
  BY <1>2, <1>3
<1>6. ASSUME t3 = t1, NEW r, ~Has(base, r)
      PROVE  SnapshotVersion(next, r) <= SnapshotVersion(base, r)
  <2>1. ~Has(repo, r)
    BY <1>5, <1>6, TargetsFixRoles DEF IsCommit
  <2>2. /\ SnapshotVersion(repo, r) <= SnapshotVersion(base, r)
        /\ SnapshotVersion(next, r) <= SnapshotVersion(repo, r)
    BY <1>5, <1>6, <2>1 DEF Later
  <2>3. /\ SnapshotVersion(base, r) \in Nat /\ SnapshotVersion(repo, r) \in Nat
        /\ SnapshotVersion(next, r) \in Nat
    BY LastVersionIsNat DEF IsCommit
  <2>4. QED
    BY <2>2, <2>3
<1>7. t3 = t1 \/ t3.version > t1.version
  BY <1>2, <1>3
<1>8. base.files["root"].version <= next.files["root"].version
  BY <1>1, <1>3
<1>9. QED
  BY <1>4, <1>6, <1>7, <1>8 DEF Later
-------------------------------------------------------------------------------
(* The first commit *)

\* What the signers of the first event leave for CI.
First(config) == SignedByAll(ApplyConfig(EmptyRepo, config, NoConfig, EmptyRepo, 0))

(* The first event makes version 1 of every role that people sign, complete *)
(* and with its root in the history.                                        *)
LEMMA FirstIs ==
    ASSUME NEW config, Valid(config)
    PROVE  LET F == First(config)
           IN  /\ F = [files |-> F.files, history |-> F.history]
               /\ IsMap(F.files) /\ IsMap(F.history)
               /\ \A r : r \in DOMAIN F.files <=>
                     r \in DOMAIN config.roles /\ r \notin {"snapshot", "timestamp"}
               /\ \A r \in DOMAIN F.files :
                     F.files[r] = [version |-> 1, expires |-> config.roles[r].expires,
                                   sigs |-> config.roles[r].keys,
                                   body |-> NewBody(EmptyRepo, config, r)]
               /\ \A n : n \in DOMAIN F.history <=> n = 1
               /\ F.history[1] = F.files["root"]
<1> DEFINE A == ApplyConfig(EmptyRepo, config, NoConfig, EmptyRepo, 0)
           new == [r \in EventRoles(A) |-> [A.files[r] EXCEPT !.sigs = RoleKeys(A, r).keys]]
           F == With(A, new)
<1>1. First(config) = F
  BY DEF First, SignedByAll
<1>2. \A r : ~Has(EmptyRepo, r) /\ SnapshotVersion(EmptyRepo, r) = 0 /\ LastVersion(EmptyRepo, r) = 0
  BY DEF Has, EmptyRepo, SnapshotVersion, LastVersion
<1>3. /\ \A r : r \in DOMAIN A.files <=>
            r \in DOMAIN config.roles /\ r \notin {"snapshot", "timestamp"}
      /\ \A r \in DOMAIN config.roles : r \notin {"snapshot", "timestamp"} =>
            A.files[r] = NewVersion(EmptyRepo, r, NewBody(EmptyRepo, config, r), config, 0)
      /\ A.history = Over(Entry(A.files["root"].version, A.files["root"]), EmptyRepo.history)
  BY <1>2, ApplyIs DEF Kept
<1> HIDE DEF A
<1>4. ASSUME NEW r \in DOMAIN config.roles, r \notin {"snapshot", "timestamp"}
      PROVE  A.files[r] = [version |-> 1, expires |-> config.roles[r].expires,
                           sigs |-> {}, body |-> NewBody(EmptyRepo, config, r)]
  <2>1. config.roles[r].expires \in Nat
    BY DEF Valid, ValidRole
  <2>2. A.files[r] = [version |-> 1 + LastVersion(EmptyRepo, r), expires |-> 0 + config.roles[r].expires,
                      sigs |-> {}, body |-> NewBody(EmptyRepo, config, r)]
    BY <1>3, <1>4 DEF NewVersion, LastVersion
  <2>3. 1 + LastVersion(EmptyRepo, r) = 1 /\ 0 + config.roles[r].expires = config.roles[r].expires
    BY <1>2, <2>1
  <2>4. QED
    BY <2>2, <2>3
<1>5. \A r \in {"root", "targets", "snapshot", "timestamp"} : r \in DOMAIN config.roles
  BY RolesOfConfig
<1>6. /\ "root" \in DOMAIN A.files /\ "targets" \in DOMAIN A.files
      /\ A.files["root"].body = RootBody(config)
      /\ A.files["targets"].body.delegations = ConfigDelegations(config)
  <2>1. /\ "root" \in DOMAIN A.files /\ "targets" \in DOMAIN A.files
        /\ A.files["root"].body = NewBody(EmptyRepo, config, "root")
        /\ A.files["targets"].body = NewBody(EmptyRepo, config, "targets")
    <3>1. /\ "root" \in DOMAIN config.roles /\ "root" \notin {"snapshot", "timestamp"}
          /\ "targets" \in DOMAIN config.roles /\ "targets" \notin {"snapshot", "timestamp"}
      BY <1>5
    <3>2. "root" \in DOMAIN A.files /\ "targets" \in DOMAIN A.files
      BY <1>3, <3>1
    <3>3. A.files["root"].body = NewBody(EmptyRepo, config, "root")
      <4>1. A.files["root"] = [version |-> 1, expires |-> config.roles["root"].expires,
                              sigs |-> {}, body |-> NewBody(EmptyRepo, config, "root")]
        BY <1>4, <3>1
      <4>2. QED
        BY <4>1
    <3>4. A.files["targets"].body = NewBody(EmptyRepo, config, "targets")
      <4>1. A.files["targets"] = [version |-> 1, expires |-> config.roles["targets"].expires,
                              sigs |-> {}, body |-> NewBody(EmptyRepo, config, "targets")]
        BY <1>4, <3>1
      <4>2. QED
        BY <4>1
    <3>5. QED
      BY <3>2, <3>3, <3>4
  <2>2. NewBody(EmptyRepo, config, "root") = RootBody(config)
    BY DEF NewBody
  <2>3. NewBody(EmptyRepo, config, "targets").delegations = ConfigDelegations(config)
    BY DEF NewBody
  <2>4. QED
    BY <2>1, <2>2, <2>3
<1>7. \A r \in DOMAIN config.roles : RoleKeys(A, r).keys = config.roles[r].keys
  <2> SUFFICES ASSUME NEW r \in DOMAIN config.roles
               PROVE  RoleKeys(A, r).keys = config.roles[r].keys
    OBVIOUS
  <2>1. RoleKeys(A, r) = RoleDefinition(config.roles[r])
    BY <1>6, GroundedGivesKeys DEF Has, Delegations
  <2>2. QED
    BY <2>1, ThresholdsFit
<1>8. \A r : r \in DOMAIN new <=> r \in DOMAIN A.files
  BY <1>3 DEF EventRoles
<1>9. ASSUME NEW r \in DOMAIN A.files
      PROVE  new[r] = [version |-> 1, expires |-> config.roles[r].expires,
                       sigs |-> config.roles[r].keys, body |-> NewBody(EmptyRepo, config, r)]
  <2>1. new[r] = [A.files[r] EXCEPT !.sigs = RoleKeys(A, r).keys]
    BY <1>8
  <2>2. RoleKeys(A, r).keys = config.roles[r].keys
    BY <1>3, <1>7
  <2>3. A.files[r] = [version |-> 1, expires |-> config.roles[r].expires,
                      sigs |-> {}, body |-> NewBody(EmptyRepo, config, r)]
    BY <1>3, <1>4
  <2> HIDE DEF new
  <2>4. QED
    BY <2>1, <2>2, <2>3
<1> HIDE DEF new
<1>10. /\ F = [files |-> F.files, history |-> F.history]
       /\ \A r : r \in DOMAIN F.files <=> r \in DOMAIN A.files
       /\ IsMap(F.files)
       /\ \A r \in DOMAIN A.files : F.files[r] = new[r]
       /\ F.history = Over(Entry(new["root"].version, new["root"]), A.history)
  BY <1>6, <1>8, WithIs
<1> HIDE DEF F
<1>11. A.files["root"].version = 1 /\ new["root"].version = 1 /\ F.files["root"] = new["root"]
  <2>1. /\ A.files["root"] = [version |-> 1, expires |-> config.roles["root"].expires,
                                sigs |-> {}, body |-> NewBody(EmptyRepo, config, "root")]
        /\ new["root"] = [version |-> 1, expires |-> config.roles["root"].expires,
                           sigs |-> config.roles["root"].keys, body |-> NewBody(EmptyRepo, config, "root")]
    BY <1>4, <1>5, <1>6, <1>9
  <2>2. QED
    BY <1>6, <1>10, <2>1
<1>12. /\ IsMap(F.history)
       /\ \A n : n \in DOMAIN F.history <=> n = 1
       /\ F.history[1] = F.files["root"]
  <2>1. \A n : n \in DOMAIN A.history <=> n = 1
    BY <1>3, <1>11, OverIs, EntryIs DEF EmptyRepo
  <2>2. QED
    BY <1>10, <1>11, <2>1, OverIs, EntryIs
<1>13. QED
  BY <1>1, <1>3, <1>9, <1>10, <1>12

(* The repository starts with a commit for the config, each role signed by  *)
(* all its keys.                                                            *)
LEMMA StartedIs ==
    ASSUME NEW config, Valid(config)
    PROVE  LET S == Started(config)
               body == S.files["snapshot"].body
           IN  /\ IsCommit(S, config)
               /\ \A r \in DOMAIN S.files :
                     r \in DOMAIN config.roles /\ S.files[r].sigs = config.roles[r].keys
               /\ \A r \in TargetsRoles(S) : S.files[r].body = NewBody(EmptyRepo, config, r)
               /\ \A r \in DOMAIN S.files : S.files[r].version = 1
               /\ IsMap(body)
               /\ \A r : r \in DOMAIN body <=> r \in TargetsRoles(S)
               /\ \A r \in TargetsRoles(S) : body[r] = 1
               /\ S.files["timestamp"].body = 1
<1> DEFINE F == First(config)
           S == Started(config)
           U == UpdateOnline(F, config, NoConfig, 0)
<1>1. /\ F = [files |-> F.files, history |-> F.history]
      /\ IsMap(F.files) /\ IsMap(F.history)
      /\ \A r : r \in DOMAIN F.files <=>
            r \in DOMAIN config.roles /\ r \notin {"snapshot", "timestamp"}
      /\ \A r \in DOMAIN F.files :
            F.files[r] = [version |-> 1, expires |-> config.roles[r].expires,
                          sigs |-> config.roles[r].keys, body |-> NewBody(EmptyRepo, config, r)]
      /\ \A n : n \in DOMAIN F.history <=> n = 1
      /\ F.history[1] = F.files["root"]
  BY FirstIs
<1>2. S = SignOnline(config, F, U, {"snapshot", "timestamp"})
  BY DEF Started, First
<1> HIDE DEF F
<1>3. \A r \in {"root", "targets", "snapshot", "timestamp"} : r \in DOMAIN config.roles
  BY RolesOfConfig
<1>4. /\ Has(F, "root") /\ Has(F, "targets") /\ ~Has(F, "snapshot") /\ ~Has(F, "timestamp")
      /\ F.files["root"].version = 1
      /\ F.files["root"].body = RootBody(config)
      /\ Delegations(F) = ConfigDelegations(config)
  BY <1>1, <1>3 DEF Has, NewBody, Delegations
<1>5. /\ \A r : SnapshotVersion(F, r) = 0
      /\ \A r : LastVersion(F, r) \in Nat
  BY <1>1, <1>4 DEF SnapshotVersion, LastVersion, Has
<1>6. \A r \in DOMAIN F.files : IsFile(F.files[r])
  <2> SUFFICES ASSUME NEW r \in DOMAIN F.files PROVE IsFile(F.files[r])
    OBVIOUS
  <2>1. config.roles[r].expires \in Nat
    BY <1>1 DEF Valid, ValidRole
  <2>2. QED
    BY <1>1, <2>1 DEF IsFile
<1>7. Grounded(F, config)
  BY <1>1, <1>4, <1>5, <1>6 DEF Grounded, WellFormed
<1>8. ASSUME NEW r \in DOMAIN F.files
      PROVE  /\ Met(F.files[r], RoleDefinition(config.roles[r]))
             /\ ~InSigningPeriod(config.roles[r], F.files[r].expires, 0)
  <2>1. r \in DOMAIN config.roles /\ F.files[r].sigs = config.roles[r].keys
        /\ F.files[r].expires = config.roles[r].expires
    BY <1>1
  <2>2. /\ RoleDefinition(config.roles[r]).keys = config.roles[r].keys
        /\ Cardinality(config.roles[r].keys) >= RoleDefinition(config.roles[r]).threshold
    BY <2>1, ThresholdsFit
  <2>3. config.roles[r].keys \cap config.roles[r].keys = config.roles[r].keys
    OBVIOUS
  <2>4. Met(F.files[r], RoleDefinition(config.roles[r]))
    BY <2>1, <2>2, <2>3 DEF Met, SignedBy
  <2>5. config.roles[r].expires \in Nat /\ config.roles[r].signing \in 1 .. config.roles[r].expires - 1
    BY <2>1 DEF Valid, ValidRole
  <2>6. ~InSigningPeriod(config.roles[r], F.files[r].expires, 0)
    BY <2>1, <2>5 DEF InSigningPeriod
  <2>7. QED
    BY <2>4, <2>6
<1>9. ASSUME NEW r \in CiRoles(F, config), r \notin {"snapshot", "timestamp"}
      PROVE  /\ Has(F, r) /\ r # "root" /\ r \in DOMAIN config.roles
             /\ ~NeedsVersion(F, F, r, OnlineBody(F, U, r), config, NoConfig, 0)
  <2>1. Has(F, r) /\ r # "root" /\ r \in DOMAIN config.roles
    BY <1>1, <1>9 DEF CiRoles, TargetsRoles, Has
  <2>2. OnlineBody(F, U, r) = F.files[r].body
    BY <1>9 DEF OnlineBody
  <2>3. RoleKeys(F, r) = RoleDefinition(config.roles[r])
    BY <1>4, <2>1, GroundedGivesKeys
  <2>4. MissingKeys(F, F, r) = {}
    BY <1>8, <2>1, <2>3, OwnKeysSuffice DEF Has
  <2>5. QED
    BY <1>8, <2>1, <2>2, <2>4 DEF NeedsVersion, NoConfig, Has
<1>10. \A r \in CiRoles(F, config) :
          r \notin {"snapshot", "timestamp"} => Has(F, r) /\ U.files[r] = F.files[r]
  BY <1>7, <1>9, UpdateOnlineIs
<1>11. IsOnline(F, S, config, NoConfig, 0)
  <2>1. \A r \in {"snapshot", "timestamp"} : r \in CiRoles(F, config)
    BY DEF CiRoles
  <2> HIDE DEF U, S
  <2>2. QED
    BY <1>2, <1>7, <1>10, <2>1, OnlineIs DEF U
<1> HIDE DEF U, S
<1>12. /\ S = [files |-> S.files, history |-> F.history]
       /\ IsMap(S.files)
       /\ \A r : r \in DOMAIN S.files <=> r \in DOMAIN config.roles
  BY <1>1, <1>3, <1>11 DEF IsOnline
<1>13. ASSUME NEW r \in {"snapshot", "timestamp"}
       PROVE  S.files[r] = NewAndSigned(F, r, OnlineBody(F, S, r), config, 0)
  <2>1. r \in CiRoles(F, config) /\ ~Has(F, r)
    BY <1>4 DEF CiRoles
  <2>2. QED
    BY <1>11, <2>1 DEF IsOnline
<1>14. ASSUME NEW r \in {"snapshot", "timestamp"}
       PROVE  IsFile(S.files[r])
  <2>1. config.roles[r].expires \in Nat /\ LastVersion(F, r) \in Nat
    BY <1>3, <1>5 DEF Valid, ValidRole
  <2>2. QED
    BY <1>13, <2>1 DEF NewAndSigned, IsFile
<1>15. ASSUME NEW r \in DOMAIN F.files
       PROVE  S.files[r] = F.files[r]
  <2>1. CASE r \notin CiRoles(F, config)
    BY <1>11, <2>1 DEF IsOnline
  <2>2. CASE r \in CiRoles(F, config)
    <3>1. r \notin {"snapshot", "timestamp"}
      BY <1>1
    <3>2. ~NeedsVersion(F, F, r, OnlineBody(F, S, r), config, NoConfig, 0)
      BY <1>9, <2>2, <3>1 DEF OnlineBody
    <3>3. QED
      BY <1>11, <2>2, <3>2 DEF IsOnline
  <2>3. QED
    BY <2>1, <2>2
<1>16. WellFormed(S)
  BY <1>1, <1>6, <1>12, <1>14, <1>15 DEF WellFormed
<1>17. S.files["root"] = F.files["root"] /\ S.files["targets"] = F.files["targets"]
  BY <1>4, <1>15 DEF Has
<1>18. \A r \in TargetsRoles(S) :
          /\ r \in DOMAIN F.files /\ r # "root"
          /\ S.files[r].version = 1
          /\ S.files[r].body = NewBody(EmptyRepo, config, r)
  BY <1>1, <1>12, <1>15 DEF TargetsRoles
<1>19. Follows(S, config)
  <2>1. DOMAIN S.files = DOMAIN config.roles
    BY <1>12
  <2>2. ASSUME NEW r \in TargetsRoles(S)
        PROVE  /\ IsTargets(S.files[r].body)
               /\ r # "targets" => S.files[r].body.delegations = <<>>
    <3>1. IsMap(Regrouped(EmptyRepo, ConfigDelegations(config), r))
      BY DEF Regrouped, IsMap
    <3>2. S.files[r].body = [targets |-> Regrouped(EmptyRepo, ConfigDelegations(config), r),
                             delegations |-> IF r = "targets" THEN ConfigDelegations(config) ELSE <<>>]
      BY <1>18, <2>2 DEF NewBody
    <3>3. QED
      BY <3>1, <3>2 DEF IsTargets
  <2>3. QED
    BY <1>4, <1>17, <2>1, <2>2 DEF Follows, Delegations
<1>20. Signed(S, config)
  <2>1. \A r \in EventRoles(S) : r \in DOMAIN F.files
    BY <1>1, <1>12 DEF EventRoles
  <2>2. QED
    BY <1>8, <1>15, <2>1 DEF Signed
<1>21. Chained(S)
  <2>1. Met(F.files["root"], F.files["root"].body["root"])
    BY <1>3, <1>4, <1>8 DEF RootBody, TopLevel, Has
  <2>2. \A n : n \in DOMAIN S.history <=> n \in 1 .. 1
    BY <1>1, <1>12
  <2>3. S.history = F.history
    BY <1>12
  <2>4. QED
    BY <1>1, <1>4, <1>17, <2>1, <2>2, <2>3 DEF Chained
<1>22. LET body == S.files["snapshot"].body
       IN  /\ IsMap(body)
           /\ \A r : r \in DOMAIN body <=> r \in TargetsRoles(S)
           /\ \A r \in TargetsRoles(S) : body[r] = 1
  <2> DEFINE body == S.files["snapshot"].body
             versions == [x \in TargetsRoles(F) |-> S.files[x].version]
  <2>1. body = Over(versions, <<>>)
    BY <1>4, <1>13 DEF NewAndSigned, OnlineBody
  <2>2. \A r : r \in TargetsRoles(S) <=> r \in TargetsRoles(F)
    BY <1>1, <1>12 DEF TargetsRoles
  <2>3. /\ \A r : r \in DOMAIN versions <=> r \in TargetsRoles(F)
        /\ \A r \in TargetsRoles(F) : versions[r] = S.files[r].version
    OBVIOUS
  <2> HIDE DEF versions, body
  <2>4. /\ IsMap(body)
        /\ \A r : r \in DOMAIN body <=> r \in TargetsRoles(S)
        /\ \A r \in TargetsRoles(S) : body[r] = S.files[r].version
    BY <2>1, <2>2, <2>3, OverIs
  <2>5. QED
    BY <1>18, <2>4 DEF body
<1>23. \A r \in DOMAIN S.files :
          r \in DOMAIN config.roles /\ S.files[r].sigs = config.roles[r].keys
  <2> SUFFICES ASSUME NEW r \in DOMAIN config.roles
               PROVE  S.files[r].sigs = config.roles[r].keys
    BY <1>12
  <2>1. CASE r \in {"snapshot", "timestamp"}
    BY <1>13, <2>1 DEF NewAndSigned
  <2>2. CASE r \notin {"snapshot", "timestamp"}
    BY <1>1, <1>15, <2>2
  <2>3. QED
    BY <2>1, <2>2
<1>24. \A r \in DOMAIN S.files : S.files[r].version = 1
  <2> SUFFICES ASSUME NEW r \in DOMAIN config.roles
               PROVE  S.files[r].version = 1
    BY <1>12
  <2>1. CASE r \in {"snapshot", "timestamp"}
    <3>1. LastVersion(F, r) = 0
      BY <1>4, <1>5, <2>1 DEF LastVersion, Has
    <3>2. S.files[r].version = 1 + LastVersion(F, r)
      BY <1>13, <2>1 DEF NewAndSigned
    <3>3. QED
      BY <3>1, <3>2
  <2>2. CASE r \notin {"snapshot", "timestamp"}
    BY <1>1, <1>15, <2>2
  <2>3. QED
    BY <2>1, <2>2
<1>25. Listing(S)
  <2>1. \A r \in TargetsRoles(S) : SnapshotVersion(S, r) = 1 /\ S.files[r].version = 1
    BY <1>3, <1>12, <1>18, <1>22 DEF SnapshotVersion, Has
  <2>2. QED
    BY <1>18, <1>22, <2>1 DEF Listing
<1>26. S.files["timestamp"].body = 1
  <2>1. S.files["timestamp"].body = S.files["snapshot"].version
    BY <1>13 DEF NewAndSigned, OnlineBody
  <2>2. QED
    BY <1>3, <1>12, <1>24, <2>1
<1>27. QED
  BY <1>16, <1>18, <1>19, <1>20, <1>21, <1>22, <1>23, <1>24, <1>25, <1>26 DEF IsCommit, S

(* In particular it is a commit. *)
LEMMA StartedIsCommit ==
    ASSUME NEW config, Valid(config)
    PROVE  LET S == Started(config)
           IN  /\ IsCommit(S, config)
               /\ \A r \in DOMAIN S.files :
                     r \in DOMAIN config.roles /\ S.files[r].sigs = config.roles[r].keys
               /\ \A r \in TargetsRoles(S) : S.files[r].body = NewBody(EmptyRepo, config, r)
  BY StartedIs

-------------------------------------------------------------------------------
(* sign/refresh *)

(* Metadata of a commit with some roles renewed, as sign/refresh saves it   *)
(* over that commit, is an event's metadata.                                *)
LEMMA RefreshSucceeds ==
    ASSUME NEW repo, NEW config, IsCommit(repo, config), Valid(config),
           NEW renewed, Succeeds(repo, renewed, config), NEW due
    PROVE  Succeeds(repo, [WithRolesFrom(repo, renewed, due) EXCEPT !.history = Over(@, repo.history)],
                    config)
<1> DEFINE W == WithRolesFrom(repo, renewed, due)
           H == [W EXCEPT !.history = Over(@, repo.history)]
           root == H.files["root"]
<1>1. /\ DOMAIN repo.files = DOMAIN config.roles
      /\ DOMAIN renewed.files = DOMAIN config.roles
      /\ WellFormed(repo) /\ WellFormed(renewed)
      /\ \A r \in {"root", "targets", "snapshot", "timestamp"} : r \in DOMAIN config.roles
  BY RolesOfConfig DEF IsCommit, Follows, Succeeds
<1>2. /\ H = [files |-> H.files, history |-> H.history]
      /\ IsMap(H.files)
      /\ DOMAIN H.files = (DOMAIN repo.files \ due) \cup (DOMAIN renewed.files \cap due)
      /\ \A r \in DOMAIN H.files :
            H.files[r] = IF r \in due THEN renewed.files[r] ELSE repo.files[r]
      /\ H.history = Over(IF "root" \in due THEN renewed.history ELSE repo.history, repo.history)
  <2> DEFINE names == (DOMAIN repo.files \ due) \cup (DOMAIN renewed.files \cap due)
             files == [r \in names |-> IF r \in due THEN renewed.files[r] ELSE repo.files[r]]
             history == IF "root" \in due THEN renewed.history ELSE repo.history
  <2>1. W = [files |-> files, history |-> history]
    BY DEF WithRolesFrom
  <2>2. /\ IsMap(files) /\ DOMAIN files = names
        /\ \A r \in names : files[r] = IF r \in due THEN renewed.files[r] ELSE repo.files[r]
    BY DEF IsMap
  <2> HIDE DEF files, history, W
  <2>3. H = [files |-> files, history |-> Over(history, repo.history)]
    BY <2>1
  <2> HIDE DEF H
  <2>4. QED
    BY <2>2, <2>3 DEF history
<1> HIDE DEF H
<1>3. /\ \A r : r \in DOMAIN H.files <=> r \in DOMAIN config.roles
      /\ \A r \in DOMAIN config.roles :
            \/ r \in due /\ H.files[r] = renewed.files[r]
            \/ r \notin due /\ H.files[r] = repo.files[r]
  BY <1>1, <1>2
<1>4. DOMAIN H.files = DOMAIN config.roles
  BY <1>3
<1>5. WellFormed(H)
  <2>1. IsMap(H.history)
    BY <1>2, OverIs
  <2>2. \A r \in DOMAIN H.files : IsFile(H.files[r])
    BY <1>1, <1>3 DEF WellFormed
  <2>3. QED
    BY <1>2, <2>1, <2>2 DEF WellFormed
<1>6. Follows(H, config)
  <2>1. Follows(repo, config) /\ Follows(renewed, config)
    BY DEF IsCommit, Succeeds
  <2>2. /\ TargetsRoles(H) = TargetsRoles(repo)
        /\ TargetsRoles(renewed) = TargetsRoles(repo)
    BY <1>1, <1>4 DEF TargetsRoles
  <2>3. H.files["root"].body = RootBody(config)
    BY <1>1, <1>3, <2>1 DEF Follows
  <2>4. Delegations(H) = ConfigDelegations(config)
    BY <1>1, <1>3, <2>1 DEF Follows, Delegations
  <2>5. ASSUME NEW r \in TargetsRoles(H)
        PROVE  /\ IsTargets(H.files[r].body)
               /\ r # "targets" => H.files[r].body.delegations = <<>>
    <3>1. r \in DOMAIN config.roles
      BY <1>4 DEF TargetsRoles
    <3>2. QED
      BY <1>3, <2>1, <2>2, <2>5, <3>1 DEF Follows
  <2>6. QED
    BY <1>4, <2>3, <2>4, <2>5 DEF Follows
<1>7. \A r \in {"snapshot", "timestamp"} : H.files[r] = repo.files[r]
  BY <1>1, <1>3 DEF Succeeds
<1>8. ASSUME NEW r \in EventRoles(H)
      PROVE  \/ Unchanged(repo, config, r, H.files[r])
             \/ H.files[r].version = 1 + LastVersion(repo, r)
  <2>1. r \in DOMAIN config.roles /\ r \in EventRoles(repo) /\ r \in EventRoles(renewed)
    BY <1>1, <1>4 DEF EventRoles
  <2>2. CASE r \in due
    BY <1>3, <2>1, <2>2 DEF Succeeds
  <2>3. CASE r \notin due
    BY <1>1, <1>3, <2>1, <2>3 DEF Unchanged, Has, IsCommit, Signed
  <2>4. QED
    BY <2>2, <2>3
<1>9. /\ H.history[root.version] = root
      /\ \A n : n \in DOMAIN H.history <=> n \in DOMAIN repo.history \/ n = root.version
      /\ \A n \in DOMAIN repo.history : n # root.version => H.history[n] = repo.history[n]
  <2>1. CASE "root" \in due
    <3>1. root = renewed.files["root"] /\ H.history = Over(renewed.history, repo.history)
      BY <1>1, <1>2, <1>3, <2>1
    <3>2. /\ renewed.history[root.version] = root
          /\ \A n : n \in DOMAIN renewed.history <=> n \in DOMAIN repo.history \/ n = root.version
          /\ \A n \in DOMAIN repo.history : n # root.version => renewed.history[n] = repo.history[n]
      BY <3>1 DEF Succeeds
    <3> HIDE DEF root
    <3>3. QED
      BY <3>1, <3>2, OverIs
  <2>2. CASE "root" \notin due
    <3>1. root = repo.files["root"] /\ H.history = Over(repo.history, repo.history)
      BY <1>1, <1>2, <1>3, <2>2
    <3>2. /\ repo.history[root.version] = root
          /\ root.version \in DOMAIN repo.history
      BY <3>1, CommitHistory
    <3> HIDE DEF root
    <3>3. QED
      BY <3>1, <3>2, OverIs
  <2>3. QED
    BY <2>1, <2>2
<1>10. QED
  BY <1>5, <1>6, <1>7, <1>8, <1>9 DEF Succeeds, H

-------------------------------------------------------------------------------
(* The invariant *)

\* An event is made of these parts, and was started from a commit that
\* `repo`, which main has now, comes after.
IsEvent(repo, ev) ==
    /\ ev = [kind |-> ev.kind, base |-> ev.base, old |-> ev.old,
             head |-> ev.head, config |-> ev.config, intent |-> ev.intent]
    /\ IsCommit(ev.base, ev.old) /\ Valid(ev.old)
    /\ Succeeds(ev.base, ev.head, ev.config) /\ Valid(ev.config)
    /\ Later(ev.base, repo)

IInv ==
    /\ main = [repo |-> main.repo, config |-> main.config]
    /\ IsCommit(main.repo, main.config) /\ Valid(main.config)
    /\ \A e \in DOMAIN events : IsEvent(main.repo, events[e])
    /\ fresh \subseteq Events
    /\ now \in 0 .. MaxTime

(* The repository starts out well. *)
LEMMA InitIInv == Init => IInv
<1> SUFFICES ASSUME Init PROVE IInv
  OBVIOUS
<1>1. PICK c \in FirstConfigs : main = [repo |-> Started(c), config |-> c]
  BY DEF Init
<1>2. c \in Configs /\ Valid(c)
  BY ConfigsAssumption
<1>3. IsCommit(Started(c), c)
  BY <1>2, StartedIsCommit
<1>4. DOMAIN events = {} /\ fresh = Events /\ now \in 0 .. MaxTime
  BY LifecycleAssumption DEF Init
<1>5. QED
  BY <1>1, <1>2, <1>3, <1>4 DEF IInv

(* An event remains one when main moves on. *)
LEMMA StillAnEvent ==
    ASSUME NEW repo, NEW config, IsCommit(repo, config), Valid(config),
           NEW next, NEW newer, IsCommit(next, newer), Valid(newer), Later(repo, next),
           NEW ev, IsEvent(repo, ev)
    PROVE  IsEvent(next, ev)
<1>1. IsCommit(ev.base, ev.old) /\ Valid(ev.old) /\ Later(ev.base, repo)
  BY DEF IsEvent
<1>2. Later(ev.base, next)
  BY <1>1, LaterTransitive
<1>3. QED
  BY <1>2 DEF IsEvent

(* A new event from main's commit. *)
LEMMA StartKeeps ==
    ASSUME IInv, NEW e, NEW kind, NEW head, NEW config, NEW intent,
           Succeeds(main.repo, head, config), Valid(config),
           Start(e, kind, head, config, intent)
    PROVE  IInv'
<1> DEFINE signed == SignOnline(config, main.repo, head, EventRoles(head))
           ev == [kind |-> kind, base |-> main.repo, old |-> main.config,
                  head |-> signed, config |-> config, intent |-> intent]
<1>1. /\ events' = Over(Entry(e, ev), events)
      /\ main' = main /\ now' = now /\ fresh' \subseteq fresh
  BY DEF Start
<1>2. IsCommit(main.repo, main.config) /\ Valid(main.config)
  BY DEF IInv
<1>3. Succeeds(main.repo, signed, config)
  BY <1>2, SignOnlineSucceeds
<1>4. Later(main.repo, main.repo)
  BY <1>2, LaterReflexive
<1> HIDE DEF signed
<1>5. IsEvent(main.repo, ev)
  BY <1>2, <1>3, <1>4 DEF IsEvent
<1> HIDE DEF ev
<1>6. \A n \in DOMAIN events' : IsEvent(main.repo, events'[n])
  <2>1. \A n \in DOMAIN events : IsEvent(main.repo, events[n])
    BY DEF IInv
  <2>2. /\ \A n : n \in DOMAIN events' <=> n = e \/ n \in DOMAIN events
        /\ events'[e] = ev
        /\ \A n \in DOMAIN events : n # e => events'[n] = events[n]
    BY <1>1, OverIs, EntryIs
  <2>3. QED
    BY <1>5, <2>1, <2>2
<1>7. QED
  BY <1>1, <1>6 DEF IInv

(* tufops apply, add and rm *)
LEMMA CliKeeps ==
    ASSUME IInv, NEW e \in fresh
    PROVE  /\ \A c \in Configs : Apply(e, c) => IInv'
           /\ \A files \in LocalFiles, dir \in Directories : Add(e, files, dir) => IInv'
           /\ \A paths \in SUBSET Paths : Rm(e, paths) => IInv'
<1>1. IsCommit(main.repo, main.config) /\ Valid(main.config) /\ now \in Nat
  BY LifecycleAssumption DEF IInv
<1>2. Succeeds(main.repo, main.repo, main.config)
  BY <1>1, SucceedsItself
<1>3. ASSUME NEW c \in Configs, Apply(e, c)
      PROVE  IInv'
  <2>1. Valid(c)
    BY ConfigsAssumption
  <2>2. Succeeds(main.repo, ApplyConfig(main.repo, c, main.config, main.repo, now), c)
    BY <1>1, <2>1, ApplySucceeds
  <2>3. QED
    BY <1>3, <2>1, <2>2, StartKeeps DEF Apply
<1>4. ASSUME NEW files \in LocalFiles, NEW dir \in Directories, Add(e, files, dir)
      PROVE  IInv'
  <2> DEFINE added == AddTargets(main.repo, main.config, main.repo, NewFiles(files), now)
             head == RemoveTargets(added, main.config, main.repo, Stale(files, dir), now)
  <2>1. Succeeds(main.repo, added, main.config)
    BY <1>1, <1>2, AddSucceeds
  <2>2. Succeeds(main.repo, head, main.config)
    BY <1>1, <2>1, RemoveSucceeds
  <2> HIDE DEF added
  <2>3. QED
    BY <1>1, <1>4, <2>2, StartKeeps DEF Add, added
<1>5. ASSUME NEW paths \in SUBSET Paths, Rm(e, paths)
      PROVE  IInv'
  <2>1. Succeeds(main.repo, RemoveTargets(main.repo, main.config, main.repo, paths, now), main.config)
    BY <1>1, <1>2, RemoveSucceeds
  <2>2. QED
    BY <1>1, <1>5, <2>1, StartKeeps DEF Rm
<1>6. QED
  BY <1>3, <1>4, <1>5

(* tufops sign *)
LEMMA SignKeeps ==
    ASSUME IInv, NEW e \in DOMAIN events, NEW key \in Keys, SignOffline(e, key)
    PROVE  IInv'
<1> DEFINE ev == events[e]
<1>1. PICK roles \in SUBSET Needs(ev.base, ev.head, key) :
         events' = [events EXCEPT ![e].head = Sign(ev.head, roles, key)]
  BY DEF SignOffline
<1>2. main' = main /\ fresh' = fresh /\ now' = now
  BY DEF SignOffline
<1>3. IsEvent(main.repo, ev)
  BY DEF IInv
<1>4. Succeeds(ev.base, Sign(ev.head, roles, key), ev.config)
  BY <1>3, SignSucceeds DEF IsEvent
<1> DEFINE head == Sign(ev.head, roles, key)
<1> HIDE DEF head
<1>5. IsEvent(main.repo, [ev EXCEPT !.head = head])
  BY <1>3, <1>4 DEF IsEvent, head
<1>6. \A n \in DOMAIN events' : IsEvent(main.repo, events'[n])
  <2>1. /\ DOMAIN events' = DOMAIN events
        /\ events'[e] = [ev EXCEPT !.head = head]
        /\ \A n \in DOMAIN events : n # e => events'[n] = events[n]
    BY <1>1 DEF head
  <2>2. QED
    BY <1>5, <2>1 DEF IInv
<1>7. QED
  BY <1>2, <1>6 DEF IInv

(* A merge makes a commit that comes after the last. *)
LEMMA MergeMakes ==
    ASSUME IInv, NEW e \in DOMAIN events, Merge(e)
    PROVE  /\ main' = [repo |-> main'.repo, config |-> main'.config]
           /\ IsCommit(main'.repo, main'.config) /\ Valid(main'.config)
           /\ \A r \in {"snapshot", "timestamp"} : main'.repo.files[r] = main.repo.files[r]
           /\ Forward(main.repo, main'.repo)
           /\ Later(main.repo, main'.repo)
<1> DEFINE ev == events[e]
           M == MergedRepo(ev.base, main.repo, ev.head)
           C == MergedConfig(ev.old, main.config, ev.config)
<1>1. main' = [repo |-> M, config |-> C] /\ Mergeable(ev)
  BY DEF Merge, MergeOf
<1>2. Valid(C) /\ Complete(main.repo, M)
  BY <1>1 DEF Mergeable, Readable, MergeOf
<1>3. /\ ReposMergeCleanly(ev.base, main.repo, ev.head)
      /\ ConfigsMergeCleanly(ev.old, main.config, ev.config)
  BY <1>1 DEF Mergeable, MergesCleanly
<1>4. Meet(ev.base, ev.old, main.repo, main.config, ev.head, ev.config)
  <2>1. IsEvent(main.repo, ev) /\ IsCommit(main.repo, main.config) /\ Valid(main.config)
    BY DEF IInv
  <2>2. QED
    BY <1>3, <2>1 DEF Meet, IsEvent
<1> HIDE DEF ev
<1>5. /\ IsCommit(M, C)
      /\ \A r \in {"snapshot", "timestamp"} : M.files[r] = main.repo.files[r]
      /\ Forward(main.repo, M)
      /\ Later(main.repo, M)
  BY <1>2, <1>4, MergeIs
<1> HIDE DEF M, C
<1>6. QED
  BY <1>1, <1>2, <1>5

(* So does CI, whose commit has the same roles and is up to date. *)
LEMMA CiMakes ==
    ASSUME IInv
    PROVE  /\ IsOnline(main.repo, OnlineUpdated, main.config, previous, now)
           /\ IsCommit(OnlineUpdated, main.config)
           /\ Forward(main.repo, OnlineUpdated)
           /\ Later(main.repo, OnlineUpdated)
<1>1. IsCommit(main.repo, main.config) /\ Valid(main.config) /\ now \in Nat
  BY LifecycleAssumption DEF IInv
<1>2. IsOnline(main.repo, OnlineUpdated, main.config, previous, now)
  <2> DEFINE U == UpdateOnline(main.repo, main.config, previous, now)
  <2>1. OnlineUpdated = SignOnline(main.config, main.repo, U, Changed(main.repo, U))
    BY DEF OnlineUpdated, OnlineUpdate, Tip
  <2>2. QED
    BY <1>1, <2>1, OnlineCommitIs
<1>3. QED
  BY <1>1, <1>2, OnlineIsCommit

(* The event sign/refresh that CI starts. *)
LEMMA RefreshIsEvent ==
    ASSUME NEW at, IsCommit(at.repo, at.config), Valid(at.config), now \in Nat
    PROVE  IsEvent(at.repo, RefreshOf(at, at))
<1> DEFINE W == WithRolesFrom(at.repo, Renewed(at), DueOffline(at))
           head == [W EXCEPT !.history = Over(@, at.repo.history)]
           intent == [p \in ListedPaths(at.repo) |-> {ListedTargets(at.repo)[p]}]
           ev == [kind |-> "refresh", base |-> at.repo, old |-> at.config,
                  head |-> head, config |-> at.config, intent |-> intent]
<1>1. RefreshOf(at, at) = ev
  BY DEF RefreshOf
<1>2. Succeeds(at.repo, Renewed(at), at.config)
  BY ApplySucceeds DEF Renewed
<1>3. Succeeds(at.repo, head, at.config)
  BY <1>2, RefreshSucceeds
<1>4. Later(at.repo, at.repo)
  BY LaterReflexive
<1> HIDE DEF head, intent
<1>5. IsEvent(at.repo, ev)
  BY <1>3, <1>4 DEF IsEvent
<1>6. QED
  BY <1>1, <1>5

(* What a CI run does to main and the events. *)
LEMMA CiRunIs ==
    ASSUME IInv, NEW published \in BOOLEAN, CiRun(published)
    PROVE  LET at == [Tip EXCEPT !.repo = OnlineUpdated]
           IN  /\ at = [repo |-> OnlineUpdated, config |-> main.config, previous |-> previous]
               /\ main' = [repo |-> OnlineUpdated, config |-> main.config]
               /\ IsEvent(OnlineUpdated, RefreshOf(at, at))
               /\ \/ events' = events
                  \/ events' = Over(Entry(RefreshEvent, RefreshOf(at, at)), events)
<1> DEFINE at == [Tip EXCEPT !.repo = OnlineUpdated]
<1>1. at = [repo |-> OnlineUpdated, config |-> main.config, previous |-> previous]
  BY DEF Tip
<1>2. main' = [repo |-> OnlineUpdated, config |-> main.config]
  <2>1. main' = [main EXCEPT !.repo = at.repo]
    BY DEF CiRun
  <2>2. main = [repo |-> main.repo, config |-> main.config]
    BY DEF IInv
  <2> HIDE DEF at
  <2>3. QED
    BY <1>1, <2>1, <2>2
<1>3. IsEvent(OnlineUpdated, RefreshOf(at, at))
  <2>1. IsCommit(OnlineUpdated, main.config) /\ Valid(main.config) /\ now \in Nat
    BY CiMakes, LifecycleAssumption DEF IInv
  <2> HIDE DEF at
  <2>2. at.repo = OnlineUpdated /\ at.config = main.config
    BY <1>1
  <2>3. IsEvent(at.repo, RefreshOf(at, at))
    BY <2>1, <2>2, RefreshIsEvent
  <2>4. QED
    BY <2>2, <2>3
<1>4. \/ events' = events
      \/ events' = Over(Entry(RefreshEvent, RefreshOf(at, at)), events)
  BY DEF CiRun
<1>5. QED
  BY <1>1, <1>2, <1>3, <1>4

(* Only a merge or a CI run moves main. *)
LEMMA MovesMain ==
    ASSUME [Next]_vars
    PROVE  \/ main' = main
           \/ \E e \in DOMAIN events : Merge(e)
           \/ \E published \in BOOLEAN : CiRun(published)
<1>1. CASE UNCHANGED vars
  BY <1>1 DEF vars
<1>2. ASSUME NEW e, NEW kind, NEW head, NEW config, NEW intent,
             Start(e, kind, head, config, intent)
      PROVE  main' = main
  BY <1>2 DEF Start
<1>3. ASSUME NEW e \in fresh
      PROVE  /\ \A c \in Configs : Apply(e, c) => main' = main
             /\ \A files \in LocalFiles, dir \in Directories : Add(e, files, dir) => main' = main
             /\ \A paths \in SUBSET Paths : Rm(e, paths) => main' = main
  <2>1. \A c \in Configs : Apply(e, c) => main' = main
    BY <1>2 DEF Apply
  <2>2. \A files \in LocalFiles, dir \in Directories : Add(e, files, dir) => main' = main
    BY <1>2 DEF Add
  <2>3. \A paths \in SUBSET Paths : Rm(e, paths) => main' = main
    BY <1>2 DEF Rm
  <2>4. QED
    BY <2>1, <2>2, <2>3
<1>4. \A e, k : SignOffline(e, k) => main' = main
  BY DEF SignOffline
<1>5. \A e : Abandon(e) => main' = main
  BY DEF Abandon
<1>6. Tick => main' = main
  BY DEF Tick
<1>7. QED
  BY <1>1, <1>3, <1>4, <1>5, <1>6 DEF Next

(* Every step keeps the invariant. *)
LEMMA NextIInv == IInv /\ [Next]_vars => IInv'
<1> SUFFICES ASSUME IInv, [Next]_vars PROVE IInv'
  OBVIOUS
<1>1. IsCommit(main.repo, main.config) /\ Valid(main.config)
  BY DEF IInv
<1>2. ASSUME NEW e \in fresh
      PROVE  /\ \A c \in Configs : Apply(e, c) => IInv'
             /\ \A files \in LocalFiles, dir \in Directories : Add(e, files, dir) => IInv'
             /\ \A paths \in SUBSET Paths : Rm(e, paths) => IInv'
  BY CliKeeps
<1>3. ASSUME NEW e \in DOMAIN events, NEW k \in Keys, SignOffline(e, k)
      PROVE  IInv'
  BY <1>3, SignKeeps
<1>4. ASSUME NEW e \in DOMAIN events, Merge(e)
      PROVE  IInv'
  <2>1. /\ main' = [repo |-> main'.repo, config |-> main'.config]
        /\ IsCommit(main'.repo, main'.config) /\ Valid(main'.config)
        /\ Later(main.repo, main'.repo)
    BY <1>4, MergeMakes
  <2>2. /\ \A n \in DOMAIN events' : n \in DOMAIN events /\ events'[n] = events[n]
        /\ fresh' = fresh /\ now' = now
    BY <1>4 DEF Merge
  <2>3. \A n \in DOMAIN events' : IsEvent(main'.repo, events'[n])
    <3> SUFFICES ASSUME NEW n \in DOMAIN events' PROVE IsEvent(main'.repo, events'[n])
      OBVIOUS
    <3>1. IsEvent(main.repo, events[n]) /\ events'[n] = events[n]
      BY <2>2 DEF IInv
    <3>2. QED
      BY <1>1, <2>1, <3>1, StillAnEvent
  <2>4. QED
    BY <2>1, <2>2, <2>3 DEF IInv
<1>5. ASSUME NEW e \in DOMAIN events, Abandon(e)
      PROVE  IInv'
  <2>1. /\ \A n \in DOMAIN events' : n \in DOMAIN events /\ events'[n] = events[n]
        /\ main' = main /\ fresh' = fresh /\ now' = now
    BY <1>5 DEF Abandon
  <2>2. QED
    BY <2>1 DEF IInv
<1>6. ASSUME NEW published \in BOOLEAN, CiRun(published)
      PROVE  IInv'
  <2> DEFINE at == [Tip EXCEPT !.repo = OnlineUpdated]
             ev == RefreshOf(at, at)
  <2>1. /\ main' = [repo |-> OnlineUpdated, config |-> main.config]
        /\ IsEvent(OnlineUpdated, ev)
        /\ events' = events \/ events' = Over(Entry(RefreshEvent, ev), events)
    BY <1>6, CiRunIs
  <2>2. IsCommit(OnlineUpdated, main.config) /\ Later(main.repo, OnlineUpdated)
    BY CiMakes
  <2>3. fresh' = fresh /\ now' = now
    BY <1>6 DEF CiRun
  <2> HIDE DEF ev
  <2>4. \A n \in DOMAIN events' :
           \/ events'[n] = ev
           \/ n \in DOMAIN events /\ events'[n] = events[n]
    BY <2>1, OverIs, EntryIs
  <2>5. \A n \in DOMAIN events' : IsEvent(OnlineUpdated, events'[n])
    <3> SUFFICES ASSUME NEW n \in DOMAIN events, events'[n] = events[n]
                 PROVE  IsEvent(OnlineUpdated, events'[n])
      BY <2>1, <2>4
    <3>1. IsEvent(main.repo, events[n])
      BY DEF IInv
    <3>2. QED
      BY <1>1, <2>2, <3>1, StillAnEvent
  <2>6. QED
    BY <1>1, <2>1, <2>2, <2>3, <2>5 DEF IInv
<1>7. ASSUME Tick
      PROVE  IInv'
  <2>1. now' \in 0 .. MaxTime
    BY <1>7, LifecycleAssumption DEF IInv, Tick
  <2>2. main' = main /\ events' = events /\ fresh' = fresh
    BY <1>7 DEF Tick
  <2>3. QED
    BY <2>1, <2>2 DEF IInv
<1>8. CASE UNCHANGED vars
  BY <1>8 DEF vars, IInv
<1>9. QED
  BY <1>2, <1>3, <1>4, <1>5, <1>6, <1>7, <1>8 DEF Next

(* The invariant of every history of the repository. *)
THEOREM Invariance == Spec => []IInv
BY InitIInv, NextIInv, PTL DEF Spec

-------------------------------------------------------------------------------
(* Properties of main *)

(* MainMatchesConfig: main's metadata has the keys, thresholds, paths and   *)
(* search order of main's tufops.toml.                                      *)
THEOREM MatchesConfig == Spec => []MainMatchesConfig
<1>1. IInv => MainMatchesConfig
  BY DEF IInv, IsCommit, Follows, MainMatchesConfig
<1>2. QED
  BY <1>1, Invariance, PTL

(* MainSigned: a threshold of the keys that main gives a role has signed    *)
(* it.                                                                      *)
THEOREM AllSigned == Spec => []MainSigned
<1>1. IInv => MainSigned
  <2> SUFFICES ASSUME IInv, NEW r \in EventRoles(main.repo)
               PROVE  HasKeys(main.repo, r) /\ Trusts(main.repo, r, main.repo.files[r])
    BY DEF MainSigned
  <2>1. /\ IsCommit(main.repo, main.config) /\ Valid(main.config)
        /\ r \in DOMAIN main.config.roles
    BY DEF IInv, IsCommit, Follows, EventRoles
  <2>2. HasKeys(main.repo, r) /\ RoleKeys(main.repo, r) = RoleDefinition(main.config.roles[r])
    BY <2>1, FollowsGivesKeys DEF IsCommit
  <2>3. Met(main.repo.files[r], RoleDefinition(main.config.roles[r]))
    BY <2>1 DEF IsCommit, Signed
  <2>4. QED
    BY <2>2, <2>3 DEF Trusts
<1>2. QED
  BY <1>1, Invariance, PTL

(* MainRootChain: clients can walk from root version 1 to main's.           *)
THEOREM RootsChain == Spec => []MainRootChain
<1>1. IInv => MainRootChain
  <2> SUFFICES ASSUME IInv PROVE RootChain(main.repo)
    BY DEF MainRootChain
  <2> DEFINE v == main.repo.files["root"].version
  <2>1. IsCommit(main.repo, main.config) /\ Valid(main.config)
    BY DEF IInv
  <2>2. /\ v \in Nat \ {0}
        /\ \A n : n \in DOMAIN main.repo.history <=> n \in 1 .. v
    BY <2>1, CommitHistory
  <2>3. Has(main.repo, "root")
    BY <2>1, CommitIsGrounded DEF Has
  <2>4. HasRootHistory(main.repo)
    BY <2>2, <2>3 DEF HasRootHistory
  <2>5. QED
    BY <2>1, <2>2, <2>4 DEF IsCommit, Chained, RootChain
<1>2. QED
  BY <1>1, Invariance, PTL

(* CiLeavesMainPublishable: `verify` accepts what a CI run makes of main,   *)
(* unless a role that people sign has expired.                              *)
THEOREM CiMakesPublishable == Spec => []CiLeavesMainPublishable
<1>1. IInv => CiLeavesMainPublishable
  <2> SUFFICES ASSUME IInv, \A r \in EventRoles(main.repo) : Unexpired(main.repo, r, now)
               PROVE  Verify(OnlineUpdated, now)
    BY DEF CiLeavesMainPublishable
  <2>1. IsCommit(main.repo, main.config) /\ Valid(main.config) /\ now \in Nat
    BY LifecycleAssumption DEF IInv
  <2>2. QED
    BY <2>1, CiMakes, OnlineVerifies
<1>2. QED
  BY <1>1, Invariance, PTL

(* OnlineUpdateIsIdempotent: a CI run leaves nothing to do for another.     *)
THEOREM CiIsIdempotent == Spec => []OnlineUpdateIsIdempotent
<1>1. IInv => OnlineUpdateIsIdempotent
  <2> SUFFICES ASSUME IInv PROVE OnlineUpdateIsIdempotent
    OBVIOUS
  <2>1. IsCommit(main.repo, main.config) /\ Valid(main.config) /\ now \in Nat
    BY LifecycleAssumption DEF IInv
  <2>2. QED
    BY <2>1, CiMakes, OnlineIsIdempotent DEF OnlineUpdateIsIdempotent
<1>2. QED
  BY <1>1, Invariance, PTL

-------------------------------------------------------------------------------
(* What a step of main may never do *)

(* VersionsGoForward: new content has a new version, and a role that comes  *)
(* back goes on from the version that the snapshot lists.                   *)
THEOREM NoVersionGoesBack == Spec => VersionsGoForward
<1>1. IInv /\ [Next]_vars => Forward(main.repo, main'.repo)
  <2> SUFFICES ASSUME IInv, [Next]_vars PROVE Forward(main.repo, main'.repo)
    OBVIOUS
  <2>1. CASE main' = main
    BY <2>1 DEF Forward, Has
  <2>2. ASSUME NEW e \in DOMAIN events, Merge(e)
        PROVE  Forward(main.repo, main'.repo)
    BY <2>2, MergeMakes
  <2>3. ASSUME NEW published \in BOOLEAN, CiRun(published)
        PROVE  Forward(main.repo, main'.repo)
    <3>1. main'.repo = OnlineUpdated
      BY <2>3, CiRunIs
    <3>2. QED
      BY <3>1, CiMakes
  <2>4. QED
    BY <2>1, <2>2, <2>3, MovesMain
<1>2. IInv /\ [Next]_vars =>
        [\A r \in DOMAIN main'.repo.files :
            LET new == main'.repo.files[r]
            IN  IF Has(main.repo, r)
                THEN \/ new = main.repo.files[r]
                     \/ new.version > main.repo.files[r].version
                ELSE new.version > SnapshotVersion(main.repo, r)]_vars
  BY <1>1 DEF Forward
<1>3. QED
  BY <1>2, Invariance, PTL DEF Spec, VersionsGoForward

\* How the snapshot of `repo` becomes that of `next`.
SnapshotGoesOn(repo, next) ==
    LET old == repo.files["snapshot"]
        new == next.files["snapshot"]
    IN  /\ \/ ~Trusts(next, "snapshot", old)
           \/ \A r \in DOMAIN old.body : SnapshotVersion(next, r) >= old.body[r]
        /\ \/ new = old
           \/ ~Trusts(repo, "snapshot", old) => DOMAIN new.body = TargetsRoles(next)

(* An unchanged snapshot lists what it did. *)
LEMMA SnapshotStays ==
    ASSUME NEW repo, NEW config, IsCommit(repo, config), Valid(config),
           NEW next, NEW newer, IsCommit(next, newer), Valid(newer),
           next.files["snapshot"] = repo.files["snapshot"]
    PROVE  SnapshotGoesOn(repo, next)
<1> DEFINE old == repo.files["snapshot"]
<1>1. Has(next, "snapshot")
  BY CommitIsGrounded DEF Has
<1>2. \A r \in DOMAIN old.body : old.body[r] \in Nat
  BY DEF IsCommit, Listing
<1>3. \A r \in DOMAIN old.body : SnapshotVersion(next, r) >= old.body[r]
  BY <1>1, <1>2 DEF SnapshotVersion
<1>4. QED
  BY <1>3 DEF SnapshotGoesOn

(* So snapshots go on from each other in every step. *)
LEMMA SnapshotsGoOn ==
    ASSUME IInv, [Next]_vars
    PROVE  SnapshotGoesOn(main.repo, main'.repo)
<1>1. IsCommit(main.repo, main.config) /\ Valid(main.config) /\ now \in Nat
  BY LifecycleAssumption DEF IInv
<1>2. CASE main' = main
  BY <1>1, <1>2, SnapshotStays
<1>3. ASSUME NEW e \in DOMAIN events, Merge(e)
      PROVE  SnapshotGoesOn(main.repo, main'.repo)
  <2>1. /\ IsCommit(main'.repo, main'.config) /\ Valid(main'.config)
        /\ main'.repo.files["snapshot"] = main.repo.files["snapshot"]
    BY <1>3, MergeMakes
  <2>2. QED
    BY <1>1, <2>1, SnapshotStays
<1>4. ASSUME NEW published \in BOOLEAN, CiRun(published)
      PROVE  SnapshotGoesOn(main.repo, main'.repo)
  <2>1. main'.repo = OnlineUpdated
    BY <1>4, CiRunIs
  <2>2. IsOnline(main.repo, OnlineUpdated, main.config, previous, now)
    BY CiMakes
  <2>3. SnapshotGoesOn(main.repo, OnlineUpdated)
    BY <1>1, <2>2, OnlineSnapshot DEF SnapshotGoesOn
  <2>4. QED
    BY <2>1, <2>3
<1>5. QED
  BY <1>2, <1>3, <1>4, MovesMain

(* SnapshotKeepsRoles: a snapshot lists all roles the last one did, none at *)
(* an older version, unless root stopped trusting that one.                 *)
THEOREM NoRoleIsDropped == Spec => SnapshotKeepsRoles
<1>1. IInv /\ [Next]_vars =>
        [LET old == main.repo.files["snapshot"]
         IN  \/ ~Trusts(main'.repo, "snapshot", old)
             \/ \A r \in DOMAIN old.body :
                   SnapshotVersion(main'.repo, r) >= old.body[r]]_vars
  BY SnapshotsGoOn DEF SnapshotGoesOn
<1>2. QED
  BY <1>1, Invariance, PTL DEF Spec, SnapshotKeepsRoles

(* RotationStartsOver: the first snapshot after a rotation of its keys      *)
(* lists the current roles only.                                            *)
THEOREM RotationsStartOver == Spec => RotationStartsOver
<1>1. IInv /\ [Next]_vars =>
        [LET old == main.repo.files["snapshot"]
             new == main'.repo.files["snapshot"]
         IN  new # old /\ ~Trusts(main.repo, "snapshot", old)
               => DOMAIN new.body = TargetsRoles(main'.repo)]_vars
  BY SnapshotsGoOn DEF SnapshotGoesOn
<1>2. QED
  BY <1>1, Invariance, PTL DEF Spec, RotationStartsOver

-------------------------------------------------------------------------------
(* Renewal *)

(* Only a CI run starts sign/refresh. *)
LEMMA OnlyCiRefreshes ==
    ASSUME IInv, [Next]_vars, RefreshEvent \in DOMAIN events' \ DOMAIN events
    PROVE  \E published \in BOOLEAN : CiRun(published)
<1>1. ASSUME NEW e \in fresh, NEW kind, NEW head, NEW config, NEW intent,
             Start(e, kind, head, config, intent)
      PROVE  FALSE
  <2> DEFINE ev == [kind |-> kind, base |-> main.repo, old |-> main.config,
                    head |-> SignOnline(config, main.repo, head, EventRoles(head)),
                    config |-> config, intent |-> intent]
  <2>1. events' = Over(Entry(e, ev), events)
    BY <1>1 DEF Start
  <2> HIDE DEF ev
  <2>2. RefreshEvent # e
    BY LifecycleAssumption DEF IInv
  <2>3. QED
    BY <2>1, <2>2, OverIs, EntryIs
<1>2. ASSUME NEW e \in fresh
      PROVE  /\ \A c \in Configs : ~Apply(e, c)
             /\ \A files \in LocalFiles, dir \in Directories : ~Add(e, files, dir)
             /\ \A paths \in SUBSET Paths : ~Rm(e, paths)
  <2>1. \A c \in Configs : ~Apply(e, c)
    BY <1>1 DEF Apply
  <2>2. \A files \in LocalFiles, dir \in Directories : ~Add(e, files, dir)
    BY <1>1 DEF Add
  <2>3. \A paths \in SUBSET Paths : ~Rm(e, paths)
    BY <1>1 DEF Rm
  <2>4. QED
    BY <2>1, <2>2, <2>3
<1>3. \A e \in DOMAIN events, k \in Keys : ~SignOffline(e, k)
  BY DEF SignOffline
<1>4. \A e \in DOMAIN events : ~Merge(e) /\ ~Abandon(e)
  BY DEF Merge, Abandon
<1>5. ~Tick /\ ~UNCHANGED vars
  BY DEF Tick, vars
<1>6. QED
  BY <1>2, <1>3, <1>4, <1>5 DEF Next

(* What CI finds that a commit has due, in its offline roles, sign/refresh  *)
(* renews.                                                                  *)
LEMMA RefreshRenews ==
    ASSUME NEW at, IsCommit(at.repo, at.config), Valid(at.config), now \in Nat,
           NEW r \in EventRoles(RefreshOf(at, at).head)
    PROVE  \/ OnlineOnly(at.config, r)
           \/ ~InSigningPeriod(at.config.roles[r], RefreshOf(at, at).head.files[r].expires, now)
<1> DEFINE N == Renewed(at)
           due == DueOffline(at)
           W == WithRolesFrom(at.repo, N, due)
           head == RefreshOf(at, at).head
           rc == at.config.roles[r]
<1>1. head = [W EXCEPT !.history = Over(@, at.repo.history)]
  BY DEF RefreshOf
<1>2. Succeeds(at.repo, N, at.config) /\ DOMAIN at.repo.files = DOMAIN at.config.roles
  BY ApplySucceeds DEF Renewed, IsCommit, Follows
<1>3. DOMAIN N.files = DOMAIN at.config.roles
  BY <1>2 DEF Succeeds, Follows
<1>4. head.files = W.files
  BY <1>1 DEF WithRolesFrom
<1>5. r \in DOMAIN W.files /\ r \notin {"snapshot", "timestamp"}
  BY <1>4 DEF EventRoles
<1>6. /\ r \in DOMAIN at.config.roles
      /\ W.files[r] = IF r \in due THEN N.files[r] ELSE at.repo.files[r]
  BY <1>2, <1>3, <1>5 DEF WithRolesFrom
<1>7. ~InSigningPeriod(rc, N.files[r].expires, now)
  <2> DEFINE body == NewBody(at.repo, at.config, r)
  <2>1. \/ Kept(at.repo, at.config, r, body, N.files[r], now)
        \/ N.files[r] = NewVersion(at.repo, r, body, at.config, now)
    BY <1>5, <1>6, ApplyIs DEF Renewed
  <2>2. LastVersion(at.repo, r) \in Nat
    BY LastVersionIsNat DEF IsCommit
  <2> HIDE DEF body, N
  <2>3. QED
    BY <1>6, <2>1, <2>2, NewVersionIs DEF Kept
<1>8. ASSUME r \notin due, ~OnlineOnly(at.config, r)
      PROVE  at.repo.files[r] = N.files[r]
  <2>1. r \notin Changed(at.repo, N)
    BY <1>8 DEF DueOffline, DueOnline
  <2>2. QED
    BY <1>2, <1>6, <2>1 DEF Changed
<1> HIDE DEF N, due, W, head
<1>9. QED
  BY <1>4, <1>6, <1>7, <1>8 DEF head

(* RefreshRenewsAllThatIsDue: sign/refresh leaves no role that people sign  *)
(* in its signing period.                                                   *)
THEOREM RefreshIsThorough == Spec => RefreshRenewsAllThatIsDue
<1>1. ASSUME IInv, [Next]_vars, RefreshEvent \in DOMAIN events' \ DOMAIN events,
             NEW r \in EventRoles(events'[RefreshEvent].head)
      PROVE  \/ OnlineOnly(main.config, r)
             \/ ~InSigningPeriod(main.config.roles[r], events'[RefreshEvent].head.files[r].expires, now)
  <2> DEFINE at == [Tip EXCEPT !.repo = OnlineUpdated]
             ev == RefreshOf(at, at)
  <2>1. PICK published \in BOOLEAN : CiRun(published)
    BY <1>1, OnlyCiRefreshes
  <2>2. /\ at = [repo |-> OnlineUpdated, config |-> main.config, previous |-> previous]
        /\ events' = events \/ events' = Over(Entry(RefreshEvent, ev), events)
    BY <1>1, <2>1, CiRunIs
  <2>3. IsCommit(OnlineUpdated, main.config) /\ Valid(main.config) /\ now \in Nat
    BY <1>1, CiMakes, LifecycleAssumption DEF IInv
  <2>4. events'[RefreshEvent] = ev
    <3> HIDE DEF ev
    <3>1. events' = Over(Entry(RefreshEvent, ev), events)
      BY <1>1, <2>2
    <3>2. QED
      BY <3>1, OverIs, EntryIs
  <2> HIDE DEF at
  <2>5. at.repo = OnlineUpdated /\ at.config = main.config
    BY <2>2
  <2>6. QED
    BY <1>1, <2>3, <2>4, <2>5, RefreshRenews
<1>2. IInv /\ [Next]_vars =>
        [(RefreshEvent \in DOMAIN events' \ DOMAIN events) =>
           LET head == events'[RefreshEvent].head
           IN  \A r \in EventRoles(head) :
                   \/ OnlineOnly(main.config, r)
                   \/ ~InSigningPeriod(main.config.roles[r], head.files[r].expires, now)]_vars
  BY <1>1
<1>3. QED
  BY <1>2, Invariance, PTL DEF Spec, RefreshRenewsAllThatIsDue

-------------------------------------------------------------------------------
(* Types *)

\* A role's file is signed by keys of the configs, and lists paths and
\* contents there are.
IsKnown(r, file) ==
    /\ file.sigs \subseteq Keys
    /\ r \notin {"root", "snapshot", "timestamp"} =>
          \A p \in DOMAIN file.body.targets :
              p \in Paths /\ file.body.targets[p] \in Descs

KnownRepo(repo) == \A r \in DOMAIN repo.files : IsKnown(r, repo.files[r])

KnownConfig(config) == \A r \in DOMAIN config.roles : config.roles[r].keys \subseteq Keys

KnownEvent(ev) ==
    /\ KnownRepo(ev.base) /\ KnownConfig(ev.old)
    /\ KnownRepo(ev.head) /\ KnownConfig(ev.config)

TInv ==
    /\ KnownRepo(main.repo) /\ KnownConfig(main.config)
    /\ \A e \in DOMAIN events : KnownEvent(events[e])
    /\ DOMAIN events \subseteq Events \cup {RefreshEvent}
    /\ fresh \cap DOMAIN events = {}

(* Keys are those of the configs. *)
LEMMA ConfigIsKnown ==
    ASSUME NEW c \in Configs
    PROVE  KnownConfig(c)
<1> SUFFICES ASSUME NEW r \in DOMAIN c.roles, NEW k \in c.roles[r].keys PROVE k \in Keys
  BY DEF KnownConfig
<1>1. k \in UNION {c.roles[x].keys : x \in DOMAIN c.roles}
  OBVIOUS
<1>2. QED
  BY <1>1 DEF Keys

(* What is listed is known. *)
LEMMA DescriptionIsKnown ==
    ASSUME NEW repo, KnownRepo(repo), NEW dels, NEW p \in ListedPaths(repo)
    PROVE  p \in Paths /\ Description(repo, dels, p) \in Descs
<1> DEFINE owner == DelegatedRole(dels, p)
           any == CHOOSE r \in Listers(repo, p) : TRUE
           from == IF owner \in Listers(repo, p) THEN owner ELSE any
<1>1. PICK r \in TargetsRoles(repo) : p \in DOMAIN TargetsOf(repo, r)
  BY DEF ListedPaths
<1>2. r \in Listers(repo, p)
  BY <1>1 DEF Listers
<1>3. any \in Listers(repo, p)
  BY <1>2
<1> HIDE DEF any, owner
<1>4. from \in Listers(repo, p)
  BY <1>3
<1> HIDE DEF from
<1>5. /\ from \in DOMAIN repo.files /\ from \notin {"root", "snapshot", "timestamp"}
      /\ p \in DOMAIN repo.files[from].body.targets
  BY <1>4 DEF Listers, TargetsRoles, TargetsOf
<1>6. p \in Paths /\ TargetsOf(repo, from)[p] \in Descs
  BY <1>5 DEF KnownRepo, IsKnown, TargetsOf
<1>7. QED
  BY <1>6 DEF Description, from, owner, any

(* So is what `apply_config` makes of it. *)
LEMMA NewBodyIsKnown ==
    ASSUME NEW repo, KnownRepo(repo), NEW config, NEW r, r # "root"
    PROVE  \A p \in DOMAIN NewBody(repo, config, r).targets :
              p \in Paths /\ NewBody(repo, config, r).targets[p] \in Descs
<1> DEFINE listed == Regrouped(repo, ConfigDelegations(config), r)
<1>1. NewBody(repo, config, r).targets = listed
  BY DEF NewBody
<1>2. \A p \in DOMAIN listed :
         p \in ListedPaths(repo) /\ listed[p] = Description(repo, ConfigDelegations(config), p)
  BY DEF Regrouped
<1> HIDE DEF listed
<1>3. QED
  BY <1>1, <1>2, DescriptionIsKnown

(* apply_config *)
LEMMA ApplyIsKnown ==
    ASSUME NEW repo, KnownRepo(repo), NEW config, Valid(config), NEW former
    PROVE  KnownRepo(ApplyConfig(repo, config, former, repo, now))
<1> DEFINE H == ApplyConfig(repo, config, former, repo, now)
<1>1. /\ \A r : r \in DOMAIN H.files <=>
            /\ r \in DOMAIN config.roles
            /\ r \in {"snapshot", "timestamp"} => Has(repo, r)
      /\ \A r \in {"snapshot", "timestamp"} : Has(repo, r) => H.files[r] = repo.files[r]
      /\ \A r \in DOMAIN config.roles :
            r \notin {"snapshot", "timestamp"} =>
               \/ Has(repo, r) /\ H.files[r] = repo.files[r]
               \/ H.files[r] = NewVersion(repo, r, NewBody(repo, config, r), config, now)
  BY ApplyIs DEF Kept
<1> HIDE DEF H
<1> SUFFICES ASSUME NEW r \in DOMAIN H.files PROVE IsKnown(r, H.files[r])
  BY DEF KnownRepo, H
<1>2. CASE Has(repo, r) /\ H.files[r] = repo.files[r]
  BY <1>2 DEF KnownRepo, Has
<1>3. CASE /\ r \notin {"snapshot", "timestamp"}
           /\ H.files[r] = NewVersion(repo, r, NewBody(repo, config, r), config, now)
  <2>1. H.files[r].sigs = {} /\ H.files[r].body = NewBody(repo, config, r)
    BY <1>3 DEF NewVersion
  <2>2. QED
    BY <2>1, NewBodyIsKnown DEF IsKnown
<1>4. QED
  BY <1>1, <1>2, <1>3

(* update *)
LEMMA UpdateIsKnown ==
    ASSUME NEW repo, KnownRepo(repo), NEW base, NEW bodies, NEW config, NEW former,
           \A r \in DOMAIN bodies : \A p \in DOMAIN bodies[r].targets :
              p \in Paths /\ bodies[r].targets[p] \in Descs
    PROVE  KnownRepo(Update(repo, base, bodies, config, former, now))
<1> DEFINE U == Update(repo, base, bodies, config, former, now)
<1>1. /\ \A r : r \in DOMAIN U.files <=> r \in DOMAIN bodies \/ r \in DOMAIN repo.files
      /\ \A r \in DOMAIN bodies :
            \/ U.files[r] = NewVersion(base, r, bodies[r], config, now)
            \/ Has(repo, r) /\ U.files[r] = repo.files[r]
      /\ \A r \in DOMAIN repo.files : r \notin DOMAIN bodies => U.files[r] = repo.files[r]
  BY UpdateIs
<1> HIDE DEF U
<1> SUFFICES ASSUME NEW r \in DOMAIN U.files PROVE IsKnown(r, U.files[r])
  BY DEF KnownRepo, U
<1>2. CASE Has(repo, r) /\ U.files[r] = repo.files[r]
  BY <1>2 DEF KnownRepo, Has
<1>3. CASE r \in DOMAIN bodies /\ U.files[r] = NewVersion(base, r, bodies[r], config, now)
  <2>1. U.files[r].sigs = {} /\ U.files[r].body = bodies[r]
    BY <1>3 DEF NewVersion
  <2>2. QED
    BY <1>3, <2>1 DEF IsKnown
<1>4. QED
  BY <1>1, <1>2, <1>3 DEF Has

(* A file with other targets lists those. *)
LEMMA ListingTargets ==
    ASSUME NEW body, IsTargets(body), NEW targets, IsMap(targets)
    PROVE  [body EXCEPT !.targets = targets].targets = targets
BY ListingIs

(* add_targets *)
LEMMA AddIsKnown ==
    ASSUME NEW repo, KnownRepo(repo), NEW config, Follows(repo, config), Valid(config), NEW base,
           NEW new, \A p \in DOMAIN new : p \in Paths /\ new[p] \in Descs
    PROVE  KnownRepo(AddTargets(repo, config, base, new, now))
<1> DEFINE Goes(p) == DelegatedRole(Delegations(repo), p)
           Into(r) == [p \in {p \in DOMAIN new : Goes(p) = r} |-> new[p]]
           listed(r) == Over(Into(r), repo.files[r].body.targets)
           bodies == [r \in {Goes(p) : p \in DOMAIN new} |->
                        [repo.files[r].body EXCEPT !.targets = Over(Into(r), @)]]
<1>1. AddTargets(repo, config, base, new, now) = Update(repo, base, bodies, config, NoConfig, now)
  BY DEF AddTargets
<1>2. ASSUME NEW r \in DOMAIN bodies, NEW p \in DOMAIN bodies[r].targets
      PROVE  p \in Paths /\ bodies[r].targets[p] \in Descs
  <2>1. PICK x \in DOMAIN new : r = Goes(x)
    OBVIOUS
  <2>2. r \in DOMAIN repo.files /\ r \notin {"root", "snapshot", "timestamp"}
    <3>1. Delegations(repo) = ConfigDelegations(config) /\ DOMAIN repo.files = DOMAIN config.roles
      BY DEF Follows
    <3>2. QED
      BY <2>1, <3>1, DelegatedRoleIs
  <2>3. IsTargets(repo.files[r].body)
    BY <2>2 DEF Follows, TargetsRoles
  <2>4. bodies[r] = [repo.files[r].body EXCEPT !.targets = listed(r)]
    OBVIOUS
  <2>5. IsMap(listed(r))
    BY OverIs
  <2>6. bodies[r].targets = listed(r)
    <3> HIDE DEF bodies, listed
    <3>1. QED
      BY <2>3, <2>4, <2>5, ListingTargets
  <2>7. \A q \in DOMAIN Into(r) : q \in DOMAIN new /\ Into(r)[q] = new[q]
    OBVIOUS
  <2>8. /\ p \in DOMAIN Into(r) \/ p \in DOMAIN repo.files[r].body.targets
        /\ p \in DOMAIN Into(r) => listed(r)[p] = Into(r)[p]
        /\ p \notin DOMAIN Into(r) => listed(r)[p] = repo.files[r].body.targets[p]
    <3> HIDE DEF bodies, Into
    <3>1. QED
      BY <2>6, OverIs
  <2>9. \A q \in DOMAIN repo.files[r].body.targets :
           q \in Paths /\ repo.files[r].body.targets[q] \in Descs
    BY <2>2 DEF KnownRepo, IsKnown
  <2> HIDE DEF bodies, Into, listed
  <2>10. QED
    BY <2>6, <2>7, <2>8, <2>9
<1> HIDE DEF bodies
<1>3. KnownRepo(Update(repo, base, bodies, config, NoConfig, now))
  BY <1>2, UpdateIsKnown
<1>4. QED
  BY <1>1, <1>3

(* remove_targets *)
LEMMA RemoveIsKnown ==
    ASSUME NEW repo, KnownRepo(repo), NEW config, Follows(repo, config), NEW base, NEW paths
    PROVE  KnownRepo(RemoveTargets(repo, config, base, paths, now))
<1> DEFINE holders == {r \in TargetsRoles(repo) : DOMAIN TargetsOf(repo, r) \cap paths # {}}
           left(r) == [p \in DOMAIN repo.files[r].body.targets \ paths |-> repo.files[r].body.targets[p]]
           bodies == [r \in holders |->
                        [repo.files[r].body EXCEPT !.targets = [p \in DOMAIN @ \ paths |-> @[p]]]]
<1>1. RemoveTargets(repo, config, base, paths, now) = Update(repo, base, bodies, config, NoConfig, now)
  BY DEF RemoveTargets
<1>2. ASSUME NEW r \in DOMAIN bodies, NEW p \in DOMAIN bodies[r].targets
      PROVE  p \in Paths /\ bodies[r].targets[p] \in Descs
  <2>1. r \in TargetsRoles(repo)
    OBVIOUS
  <2>2. r \in DOMAIN repo.files /\ r \notin {"root", "snapshot", "timestamp"}
    BY <2>1 DEF TargetsRoles
  <2>3. IsTargets(repo.files[r].body)
    BY <2>1 DEF Follows
  <2>4. bodies[r] = [repo.files[r].body EXCEPT !.targets = left(r)]
    OBVIOUS
  <2>5. IsMap(left(r))
    BY DEF IsMap
  <2>6. bodies[r].targets = left(r)
    <3> HIDE DEF bodies, left
    <3>1. QED
      BY <2>3, <2>4, <2>5, ListingTargets
  <2>7. \A q \in DOMAIN left(r) :
           q \in DOMAIN repo.files[r].body.targets /\ left(r)[q] = repo.files[r].body.targets[q]
    OBVIOUS
  <2>8. \A q \in DOMAIN repo.files[r].body.targets :
           q \in Paths /\ repo.files[r].body.targets[q] \in Descs
    BY <2>2 DEF KnownRepo, IsKnown
  <2> HIDE DEF bodies, left
  <2>9. QED
    BY <2>6, <2>7, <2>8
<1> HIDE DEF bodies
<1>3. KnownRepo(Update(repo, base, bodies, config, NoConfig, now))
  BY <1>2, UpdateIsKnown
<1>4. QED
  BY <1>1, <1>3

(* To sign with known keys. *)
LEMMA SigningIsKnown ==
    ASSUME NEW repo, KnownRepo(repo), NEW new,
           \A r \in DOMAIN new : /\ r \in DOMAIN repo.files
                                 /\ Countersigned(repo.files[r], new[r], Keys)
    PROVE  KnownRepo(With(repo, new))
<1> DEFINE W == With(repo, new)
<1>1. /\ \A r : r \in DOMAIN W.files <=> r \in DOMAIN new \/ r \in DOMAIN repo.files
      /\ \A r \in DOMAIN new : W.files[r] = new[r]
      /\ \A r \in DOMAIN repo.files : r \notin DOMAIN new => W.files[r] = repo.files[r]
  BY WithIs
<1> HIDE DEF W
<1> SUFFICES ASSUME NEW r \in DOMAIN W.files PROVE IsKnown(r, W.files[r])
  BY DEF KnownRepo, W
<1>2. CASE r \notin DOMAIN new
  BY <1>1, <1>2 DEF KnownRepo
<1>3. CASE r \in DOMAIN new
  <2>1. IsKnown(r, repo.files[r]) /\ W.files[r] = new[r]
    BY <1>1, <1>3 DEF KnownRepo
  <2>2. /\ new[r].body = repo.files[r].body
        /\ new[r].sigs \subseteq Keys
    BY <1>3, <2>1 DEF Countersigned, IsKnown
  <2>3. QED
    BY <2>1, <2>2 DEF IsKnown
<1>4. QED
  BY <1>2, <1>3

(* Whoever may sign an event's role is one of the configs' keys. *)
LEMMA MissingAreKnown ==
    ASSUME NEW base, NEW old, IsCommit(base, old), Valid(old), KnownConfig(old),
           NEW head, NEW config, Follows(head, config), Valid(config), KnownConfig(config),
           NEW r \in DOMAIN head.files
    PROVE  MissingKeys(head, base, r) \subseteq Keys
<1>1. r \in DOMAIN config.roles
  BY DEF Follows
<1>2. RoleKeys(head, r).keys \subseteq Keys
  <2>1. RoleKeys(head, r) = RoleDefinition(config.roles[r])
    BY <1>1, FollowsGivesKeys
  <2>2. RoleDefinition(config.roles[r]).keys = config.roles[r].keys
    BY DEF RoleDefinition
  <2>3. QED
    BY <1>1, <2>1, <2>2 DEF KnownConfig
<1>3. RoleKeys(base, "root").keys \subseteq Keys
  <2>1. "root" \in DOMAIN old.roles
    BY RolesOfConfig
  <2>2. RoleKeys(base, "root") = RoleDefinition(old.roles["root"])
    BY <2>1, FollowsGivesKeys DEF IsCommit
  <2>3. RoleDefinition(old.roles["root"]).keys = old.roles["root"].keys
    BY DEF RoleDefinition
  <2>4. QED
    BY <2>1, <2>2, <2>3 DEF KnownConfig
<1>4. \A req \in Requirements(head, base, r) :
         req = RoleKeys(head, r) \/ req = RoleKeys(base, "root")
  BY DEF Requirements
<1>5. \A k \in MissingKeys(head, base, r) : \E req \in Requirements(head, base, r) : k \in req.keys
  BY DEF MissingKeys
<1>6. QED
  BY <1>2, <1>3, <1>4, <1>5

(* The CLI signs with some of them. *)
LEMMA SignOnlineIsKnown ==
    ASSUME NEW base, NEW old, IsCommit(base, old), Valid(old), KnownConfig(old),
           NEW head, NEW config, WellFormed(head), Follows(head, config), Valid(config),
           KnownConfig(config), KnownRepo(head)
    PROVE  KnownRepo(SignOnline(config, base, head, EventRoles(head)))
<1> DEFINE keys(r) == MissingKeys(head, base, r) \cap config.online
           new == [r \in EventRoles(head) |-> [head.files[r] EXCEPT !.sigs = @ \cup keys(r)]]
<1>1. ASSUME NEW r \in DOMAIN new
      PROVE  r \in DOMAIN head.files /\ Countersigned(head.files[r], new[r], Keys)
  <2>1. r \in DOMAIN head.files
    BY DEF EventRoles
  <2>2. MissingKeys(head, base, r) \subseteq Keys /\ IsFile(head.files[r])
    BY <2>1, MissingAreKnown DEF WellFormed
  <2>3. new[r] = [head.files[r] EXCEPT !.sigs = @ \cup keys(r)]
    OBVIOUS
  <2>4. keys(r) \subseteq Keys
    BY <2>2
  <2> HIDE DEF new, keys
  <2>5. Countersigned(head.files[r], new[r], keys(r))
    BY <2>2, <2>3, SigningIs
  <2>6. QED
    BY <2>1, <2>4, <2>5 DEF Countersigned
<1> HIDE DEF new
<1>2. KnownRepo(With(head, new))
  BY <1>1, SigningIsKnown
<1>3. QED
  BY <1>2 DEF SignOnline, new

(* So does a signer. *)
LEMMA SignIsKnown ==
    ASSUME NEW head, WellFormed(head), KnownRepo(head), NEW key \in Keys,
           NEW roles, roles \subseteq DOMAIN head.files
    PROVE  KnownRepo(Sign(head, roles, key))
<1> DEFINE new == [r \in roles |-> [head.files[r] EXCEPT !.sigs = @ \cup {key}]]
<1>1. ASSUME NEW r \in DOMAIN new
      PROVE  r \in DOMAIN head.files /\ Countersigned(head.files[r], new[r], Keys)
  <2>1. r \in DOMAIN head.files /\ IsFile(head.files[r])
    BY DEF WellFormed
  <2>2. new[r] = [head.files[r] EXCEPT !.sigs = @ \cup {key}]
    OBVIOUS
  <2> HIDE DEF new
  <2>3. Countersigned(head.files[r], new[r], {key})
    BY <2>1, <2>2, SigningIs
  <2>4. QED
    BY <2>1, <2>3 DEF Countersigned
<1> HIDE DEF new
<1>2. KnownRepo(With(head, new))
  BY <1>1, SigningIsKnown
<1>3. QED
  BY <1>2 DEF Sign, new

(* A merge has files and keys of the one side or the other. *)
LEMMA MergeIsKnown ==
    ASSUME NEW base, NEW ours, NEW theirs, ReposMergeCleanly(base, ours, theirs),
           KnownRepo(ours), KnownRepo(theirs),
           NEW old, NEW config, NEW new, ConfigsMergeCleanly(old, config, new),
           KnownConfig(config), KnownConfig(new)
    PROVE  /\ KnownRepo(MergedRepo(base, ours, theirs))
           /\ KnownConfig(MergedConfig(old, config, new))
<1> DEFINE M == MergedRepo(base, ours, theirs)
           C == MergedConfig(old, config, new)
<1>1. \A r : Same(M.files, theirs.files, r) \/ Same(M.files, ours.files, r)
  BY MergedFiles
<1> HIDE DEF M
<1>2. KnownRepo(M)
  BY <1>1 DEF Same, KnownRepo
<1>3. \A r \in DOMAIN C.roles : C.roles[r].keys \subseteq Keys
  BY MergedKeys DEF KnownConfig
<1> HIDE DEF C
<1>4. QED
  BY <1>2, <1>3 DEF KnownConfig, M, C

(* CI signs with the config's keys. *)
LEMMA OnlineIsKnown ==
    ASSUME NEW repo, NEW online, NEW config, NEW former,
           IsCommit(repo, config), Valid(config), IsOnline(repo, online, config, former, now),
           KnownRepo(repo), KnownConfig(config)
    PROVE  KnownRepo(online)
<1>1. /\ \A r : r \in DOMAIN online.files <=> r \in DOMAIN repo.files \/ r \in {"snapshot", "timestamp"}
      /\ \A r \in DOMAIN repo.files : r \notin CiRoles(repo, config) => online.files[r] = repo.files[r]
      /\ \A r \in CiRoles(repo, config) :
            \/ online.files[r] = NewAndSigned(repo, r, OnlineBody(repo, online, r), config, now)
            \/ Has(repo, r) /\ online.files[r] = repo.files[r]
  BY DEF IsOnline
<1> SUFFICES ASSUME NEW r \in DOMAIN online.files PROVE IsKnown(r, online.files[r])
  BY DEF KnownRepo
<1>2. CASE r \in DOMAIN repo.files /\ online.files[r] = repo.files[r]
  BY <1>2 DEF KnownRepo
<1>3. CASE /\ r \in CiRoles(repo, config)
           /\ online.files[r] = NewAndSigned(repo, r, OnlineBody(repo, online, r), config, now)
  <2>1. /\ online.files[r].sigs = config.roles[r].keys
        /\ online.files[r].body = OnlineBody(repo, online, r)
    BY <1>3 DEF NewAndSigned
  <2>2. online.files[r].sigs \subseteq Keys
    BY <1>3, <2>1, CiKeysAreOnline DEF KnownConfig
  <2>3. CASE r \in {"snapshot", "timestamp"}
    BY <2>2, <2>3 DEF IsKnown
  <2>4. CASE r \notin {"snapshot", "timestamp"}
    <3>1. r \in DOMAIN repo.files /\ r # "root"
      BY <1>3, <2>4 DEF CiRoles, TargetsRoles
    <3>2. online.files[r].body = repo.files[r].body /\ IsKnown(r, repo.files[r])
      BY <2>1, <2>4, <3>1 DEF OnlineBody, KnownRepo
    <3>3. QED
      BY <2>2, <2>4, <3>1, <3>2 DEF IsKnown
  <2>5. QED
    BY <2>3, <2>4
<1>4. r \in {"snapshot", "timestamp"} => r \in CiRoles(repo, config)
  BY DEF CiRoles
<1>5. QED
  BY <1>1, <1>2, <1>3, <1>4 DEF Has

(* sign/refresh has files of the commit and of its renewal. *)
LEMMA RefreshIsKnown ==
    ASSUME NEW at, IsCommit(at.repo, at.config), Valid(at.config),
           KnownRepo(at.repo), KnownConfig(at.config)
    PROVE  KnownEvent(RefreshOf(at, at))
<1> DEFINE W == WithRolesFrom(at.repo, Renewed(at), DueOffline(at))
           ev == RefreshOf(at, at)
<1>1. /\ ev.base = at.repo /\ ev.old = at.config /\ ev.config = at.config
      /\ ev.head = [W EXCEPT !.history = Over(@, at.repo.history)]
  BY DEF RefreshOf
<1>2. ev.head.files = W.files
  BY <1>1 DEF WithRolesFrom
<1>3. KnownRepo(Renewed(at))
  BY ApplyIsKnown DEF Renewed
<1>4. \A r \in DOMAIN W.files :
         \/ r \in DOMAIN at.repo.files /\ W.files[r] = at.repo.files[r]
         \/ r \in DOMAIN Renewed(at).files /\ W.files[r] = Renewed(at).files[r]
  BY DEF WithRolesFrom
<1> HIDE DEF W, ev
<1>5. KnownRepo(ev.head)
  BY <1>2, <1>3, <1>4 DEF KnownRepo
<1>6. QED
  BY <1>1, <1>5 DEF KnownEvent, ev

(* What there is to start with is known. *)
LEMMA InitTInv == Init => TInv
<1> SUFFICES ASSUME Init PROVE TInv
  OBVIOUS
<1>1. PICK c \in FirstConfigs : main = [repo |-> Started(c), config |-> c]
  BY DEF Init
<1>2. c \in Configs /\ Valid(c) /\ KnownConfig(c)
  BY ConfigsAssumption, ConfigIsKnown
<1> DEFINE S == Started(c)
<1>3. /\ \A r \in DOMAIN S.files :
            r \in DOMAIN c.roles /\ S.files[r].sigs = c.roles[r].keys
      /\ \A r \in TargetsRoles(S) : S.files[r].body = NewBody(EmptyRepo, c, r)
  BY <1>2, StartedIsCommit
<1> HIDE DEF S
<1>4. KnownRepo(EmptyRepo)
  BY DEF KnownRepo, EmptyRepo
<1>5. KnownRepo(S)
  <2> SUFFICES ASSUME NEW r \in DOMAIN S.files PROVE IsKnown(r, S.files[r])
    BY DEF KnownRepo
  <2>1. S.files[r].sigs \subseteq Keys
    BY <1>2, <1>3 DEF KnownConfig
  <2>2. CASE r \in {"root", "snapshot", "timestamp"}
    BY <2>1, <2>2 DEF IsKnown
  <2>3. CASE r \notin {"root", "snapshot", "timestamp"}
    <3>1. S.files[r].body = NewBody(EmptyRepo, c, r) /\ r # "root"
      BY <1>3, <2>3 DEF TargetsRoles
    <3>2. \A p \in DOMAIN NewBody(EmptyRepo, c, r).targets :
             p \in Paths /\ NewBody(EmptyRepo, c, r).targets[p] \in Descs
      BY <1>4, <3>1, NewBodyIsKnown
    <3>3. QED
      BY <2>1, <3>1, <3>2 DEF IsKnown
  <2>4. QED
    BY <2>2, <2>3
<1>6. DOMAIN events = {} /\ fresh = Events
  BY DEF Init
<1>7. QED
  BY <1>1, <1>2, <1>5, <1>6 DEF TInv, S

(* A new event of the CLI is known if its metadata is. *)
LEMMA StartKeepsTypes ==
    ASSUME IInv, TInv, NEW e \in fresh, NEW kind, NEW head, NEW config, NEW intent,
           Succeeds(main.repo, head, config), Valid(config),
           KnownRepo(head), KnownConfig(config),
           Start(e, kind, head, config, intent)
    PROVE  TInv'
<1> DEFINE signed == SignOnline(config, main.repo, head, EventRoles(head))
           ev == [kind |-> kind, base |-> main.repo, old |-> main.config,
                  head |-> signed, config |-> config, intent |-> intent]
<1>1. /\ events' = Over(Entry(e, ev), events)
      /\ main' = main /\ fresh' = fresh \ {e}
  BY DEF Start
<1>2. KnownRepo(signed)
  <2>1. IsCommit(main.repo, main.config) /\ Valid(main.config)
    BY DEF IInv
  <2>2. KnownConfig(main.config)
    BY DEF TInv
  <2>3. WellFormed(head) /\ Follows(head, config)
    BY DEF Succeeds
  <2>4. QED
    BY <2>1, <2>2, <2>3, SignOnlineIsKnown
<1> HIDE DEF signed
<1>3. KnownEvent(ev)
  BY <1>2 DEF KnownEvent, TInv
<1> HIDE DEF ev
<1>4. /\ \A n : n \in DOMAIN events' <=> n = e \/ n \in DOMAIN events
      /\ events'[e] = ev
      /\ \A n \in DOMAIN events : n # e => events'[n] = events[n]
  BY <1>1, OverIs, EntryIs
<1>5. \A n \in DOMAIN events' : KnownEvent(events'[n])
  BY <1>3, <1>4 DEF TInv
<1>6. DOMAIN events' \subseteq Events \cup {RefreshEvent} /\ fresh' \cap DOMAIN events' = {}
  BY <1>1, <1>4 DEF TInv, IInv
<1>7. QED
  BY <1>1, <1>5, <1>6 DEF TInv

(* tufops apply, add and rm *)
LEMMA CliKeepsTypes ==
    ASSUME IInv, TInv, NEW e \in fresh
    PROVE  /\ \A c \in Configs : Apply(e, c) => TInv'
           /\ \A files \in LocalFiles, dir \in Directories : Add(e, files, dir) => TInv'
           /\ \A paths \in SUBSET Paths : Rm(e, paths) => TInv'
<1>1. /\ IsCommit(main.repo, main.config) /\ Valid(main.config) /\ now \in Nat
      /\ KnownRepo(main.repo) /\ KnownConfig(main.config) /\ Follows(main.repo, main.config)
  BY LifecycleAssumption DEF IInv, TInv, IsCommit
<1>2. Succeeds(main.repo, main.repo, main.config)
  BY <1>1, SucceedsItself
<1>3. ASSUME NEW c \in Configs, Apply(e, c)
      PROVE  TInv'
  <2> DEFINE head == ApplyConfig(main.repo, c, main.config, main.repo, now)
  <2>1. Valid(c) /\ KnownConfig(c)
    BY ConfigsAssumption, ConfigIsKnown
  <2>2. Succeeds(main.repo, head, c) /\ KnownRepo(head)
    BY <1>1, <2>1, ApplySucceeds, ApplyIsKnown
  <2>3. QED
    BY <1>3, <2>1, <2>2, StartKeepsTypes DEF Apply
<1>4. ASSUME NEW files \in LocalFiles, NEW dir \in Directories, Add(e, files, dir)
      PROVE  TInv'
  <2> DEFINE new == NewFiles(files)
             added == AddTargets(main.repo, main.config, main.repo, new, now)
             head == RemoveTargets(added, main.config, main.repo, Stale(files, dir), now)
  <2>1. \A p \in DOMAIN new : p \in Paths /\ new[p] \in Descs
    <3>1. DOMAIN files \subseteq Paths /\ \A p \in DOMAIN files : files[p] \in Descs
      BY LifecycleAssumption DEF Range
    <3>2. \A p \in DOMAIN new : p \in DOMAIN files /\ new[p] = files[p]
      BY DEF NewFiles
    <3>3. QED
      BY <3>1, <3>2
  <2> HIDE DEF new
  <2>2. Succeeds(main.repo, added, main.config) /\ KnownRepo(added)
    BY <1>1, <1>2, <2>1, AddSucceeds, AddIsKnown
  <2>3. Succeeds(main.repo, head, main.config) /\ KnownRepo(head)
    <3>1. Follows(added, main.config)
      BY <2>2 DEF Succeeds
    <3> HIDE DEF added
    <3>2. Succeeds(main.repo, head, main.config)
      BY <1>1, <2>2, RemoveSucceeds
    <3>3. KnownRepo(head)
      BY <2>2, <3>1, RemoveIsKnown
    <3>4. QED
      BY <3>2, <3>3
  <2> HIDE DEF added
  <2>4. QED
    BY <1>1, <1>4, <2>3, StartKeepsTypes DEF Add, added, new
<1>5. ASSUME NEW paths \in SUBSET Paths, Rm(e, paths)
      PROVE  TInv'
  <2> DEFINE head == RemoveTargets(main.repo, main.config, main.repo, paths, now)
  <2>1. Succeeds(main.repo, head, main.config) /\ KnownRepo(head)
    BY <1>1, <1>2, RemoveSucceeds, RemoveIsKnown
  <2>2. QED
    BY <1>1, <1>5, <2>1, StartKeepsTypes DEF Rm
<1>6. QED
  BY <1>3, <1>4, <1>5

(* Every step keeps to known keys, paths and contents. *)
LEMMA NextTInv == IInv /\ TInv /\ [Next]_vars => TInv'
<1> SUFFICES ASSUME IInv, TInv, [Next]_vars PROVE TInv'
  OBVIOUS
<1>1. IsCommit(main.repo, main.config) /\ Valid(main.config)
  BY DEF IInv
<1>2. ASSUME NEW e \in fresh
      PROVE  /\ \A c \in Configs : Apply(e, c) => TInv'
             /\ \A files \in LocalFiles, dir \in Directories : Add(e, files, dir) => TInv'
             /\ \A paths \in SUBSET Paths : Rm(e, paths) => TInv'
  BY CliKeepsTypes
<1>3. ASSUME NEW e \in DOMAIN events, NEW k \in Keys, SignOffline(e, k)
      PROVE  TInv'
  <2> DEFINE ev == events[e]
  <2>1. PICK roles \in SUBSET Needs(ev.base, ev.head, k) :
           events' = [events EXCEPT ![e].head = Sign(ev.head, roles, k)]
    BY <1>3 DEF SignOffline
  <2>2. main' = main /\ fresh' = fresh
    BY <1>3 DEF SignOffline
  <2>3. IsEvent(main.repo, ev) /\ KnownEvent(ev)
    BY DEF IInv, TInv
  <2> DEFINE head == Sign(ev.head, roles, k)
  <2>4. KnownRepo(head)
    <3>1. roles \subseteq DOMAIN ev.head.files
      BY DEF Needs, StatusRoles, EventRoles
    <3>2. WellFormed(ev.head) /\ KnownRepo(ev.head)
      BY <2>3 DEF IsEvent, Succeeds, KnownEvent
    <3>3. QED
      BY <3>1, <3>2, SignIsKnown
  <2> HIDE DEF head
  <2>5. KnownEvent([ev EXCEPT !.head = head])
    BY <2>3, <2>4 DEF IsEvent, KnownEvent
  <2>6. /\ DOMAIN events' = DOMAIN events
        /\ events'[e] = [ev EXCEPT !.head = head]
        /\ \A n \in DOMAIN events : n # e => events'[n] = events[n]
    BY <2>1 DEF head
  <2>7. \A n \in DOMAIN events' : KnownEvent(events'[n])
    BY <2>5, <2>6 DEF TInv
  <2>8. QED
    BY <2>2, <2>6, <2>7 DEF TInv
<1>4. ASSUME NEW e \in DOMAIN events, Merge(e)
      PROVE  TInv'
  <2> DEFINE ev == events[e]
  <2>1. /\ main' = MergeOf(ev) /\ MergesCleanly(ev) /\ fresh' = fresh
        /\ \A n \in DOMAIN events' : n \in DOMAIN events /\ events'[n] = events[n]
    BY <1>4 DEF Merge, Mergeable
  <2>2. KnownEvent(ev) /\ KnownRepo(main.repo) /\ KnownConfig(main.config)
    BY DEF TInv
  <2>3. KnownRepo(main'.repo) /\ KnownConfig(main'.config)
    BY <2>1, <2>2, MergeIsKnown DEF MergeOf, MergesCleanly, KnownEvent
  <2>4. QED
    BY <2>1, <2>3 DEF TInv
<1>5. ASSUME NEW e \in DOMAIN events, Abandon(e)
      PROVE  TInv'
  <2>1. /\ \A n \in DOMAIN events' : n \in DOMAIN events /\ events'[n] = events[n]
        /\ main' = main /\ fresh' = fresh
    BY <1>5 DEF Abandon
  <2>2. QED
    BY <2>1 DEF TInv
<1>6. ASSUME NEW published \in BOOLEAN, CiRun(published)
      PROVE  TInv'
  <2> DEFINE at == [Tip EXCEPT !.repo = OnlineUpdated]
             ev == RefreshOf(at, at)
  <2>1. /\ at = [repo |-> OnlineUpdated, config |-> main.config, previous |-> previous]
        /\ main' = [repo |-> OnlineUpdated, config |-> main.config]
        /\ events' = events \/ events' = Over(Entry(RefreshEvent, ev), events)
    BY <1>6, CiRunIs
  <2>2. KnownRepo(OnlineUpdated) /\ KnownConfig(main.config)
    <3>1. IsOnline(main.repo, OnlineUpdated, main.config, previous, now)
      BY CiMakes
    <3>2. KnownRepo(main.repo) /\ KnownConfig(main.config)
      BY DEF TInv
    <3>3. QED
      BY <1>1, <3>1, <3>2, OnlineIsKnown
  <2>3. KnownEvent(ev)
    <3>1. IsCommit(OnlineUpdated, main.config)
      BY CiMakes
    <3> HIDE DEF at
    <3>2. at.repo = OnlineUpdated /\ at.config = main.config
      BY <2>1
    <3>3. QED
      BY <1>1, <2>2, <3>1, <3>2, RefreshIsKnown
  <2>4. fresh' = fresh /\ RefreshEvent \notin fresh
    BY <1>6, LifecycleAssumption DEF CiRun, IInv
  <2> HIDE DEF ev
  <2>5. \A n \in DOMAIN events' :
           \/ n = RefreshEvent /\ events'[n] = ev
           \/ n \in DOMAIN events /\ events'[n] = events[n]
    BY <2>1, OverIs, EntryIs
  <2>6. \A n \in DOMAIN events' : KnownEvent(events'[n])
    BY <2>3, <2>5 DEF TInv
  <2>7. QED
    BY <2>1, <2>2, <2>4, <2>5, <2>6 DEF TInv
<1>7. CASE Tick
  BY <1>7 DEF Tick, TInv
<1>8. CASE UNCHANGED vars
  BY <1>8 DEF vars, TInv
<1>9. QED
  BY <1>2, <1>3, <1>4, <1>5, <1>6, <1>7, <1>8 DEF Next

(* Known metadata of roles and versions is well formed. *)
LEMMA KnownIsRepo ==
    ASSUME NEW repo, WellFormed(repo), KnownRepo(repo),
           \A n \in DOMAIN repo.history : n \in Nat \ {0}
    PROVE  IsRepo(repo)
<1>1. ASSUME NEW r \in DOMAIN repo.files
      PROVE  /\ repo.files[r].version \in Nat \ {0}
             /\ repo.files[r].sigs \subseteq Keys
             /\ repo.files[r].expires \in Nat
  BY DEF WellFormed, IsFile, KnownRepo, IsKnown
<1>2. ASSUME NEW r \in TargetsRoles(repo), NEW p \in DOMAIN TargetsOf(repo, r)
      PROVE  p \in Paths /\ TargetsOf(repo, r)[p] \in Descs
  <2>1. IsKnown(r, repo.files[r]) /\ r \notin {"root", "snapshot", "timestamp"}
    BY DEF TargetsRoles, KnownRepo
  <2>2. QED
    BY <2>1 DEF IsKnown, TargetsOf
<1>3. QED
  BY <1>1, <1>2 DEF IsRepo

(* The versions of root in the history of an event are numbers. *)
LEMMA EventHistory ==
    ASSUME NEW base, NEW old, IsCommit(base, old), Valid(old),
           NEW head, NEW config, Succeeds(base, head, config), Valid(config)
    PROVE  /\ \A n \in DOMAIN base.history : n \in Nat \ {0}
           /\ \A n \in DOMAIN head.history : n \in Nat \ {0}
<1>1. \A n \in DOMAIN base.history : n \in Nat \ {0}
  <2> DEFINE v == base.files["root"].version
  <2>1. v \in Nat \ {0} /\ \A n : n \in DOMAIN base.history <=> n \in 1 .. v
    BY CommitHistory
  <2> HIDE DEF v
  <2>2. QED
    BY <2>1
<1>2. head.files["root"].version \in Nat \ {0}
  <2>1. "root" \in DOMAIN head.files
    BY RolesOfConfig DEF Succeeds, Follows
  <2>2. QED
    BY <2>1 DEF Succeeds, WellFormed, IsFile
<1>3. \A n \in DOMAIN head.history : n \in DOMAIN base.history \/ n = head.files["root"].version
  BY DEF Succeeds
<1>4. QED
  BY <1>1, <1>2, <1>3

(* TypeOK: versions and days are numbers, signatures are by the configs'    *)
(* keys, what is listed are the targets there are, main's config is valid,  *)
(* and no event has the name of one yet to start.                           *)
THEOREM TypeCorrect == Spec => []TypeOK
<1>1. IInv /\ TInv => TypeOK
  <2> SUFFICES ASSUME IInv, TInv PROVE TypeOK
    OBVIOUS
  <2>1. IsCommit(main.repo, main.config) /\ Valid(main.config) /\ KnownRepo(main.repo)
    BY DEF IInv, TInv
  <2>2. IsRepo(main.repo)
    <3>1. Succeeds(main.repo, main.repo, main.config)
      BY <2>1, SucceedsItself
    <3>2. QED
      BY <2>1, <3>1, EventHistory, KnownIsRepo DEF IsCommit
  <2>3. ASSUME NEW e \in DOMAIN events
        PROVE  IsRepo(events[e].base) /\ IsRepo(events[e].head)
    <3> DEFINE ev == events[e]
    <3>1. IsEvent(main.repo, ev) /\ KnownEvent(ev)
      BY DEF IInv, TInv
    <3> HIDE DEF ev
    <3>2. /\ WellFormed(ev.base) /\ KnownRepo(ev.base)
          /\ WellFormed(ev.head) /\ KnownRepo(ev.head)
      BY <3>1 DEF IsEvent, IsCommit, Succeeds, KnownEvent
    <3>3. /\ \A n \in DOMAIN ev.base.history : n \in Nat \ {0}
          /\ \A n \in DOMAIN ev.head.history : n \in Nat \ {0}
      BY <3>1, EventHistory DEF IsEvent
    <3>4. QED
      BY <3>2, <3>3, KnownIsRepo DEF ev
  <2>4. QED
    BY <2>1, <2>2, <2>3 DEF IInv, TInv, TypeOK
<1>2. QED
  BY <1>1, InitTInv, NextTInv, Invariance, PTL DEF Spec

-------------------------------------------------------------------------------
(* Main implements Release *)

(* What Release says of a commit. *)
LEMMA CommitOfIs ==
    ASSUME NEW repo, NEW config, IsCommit(repo, config), Valid(config)
    PROVE  LET c == CommitOf(repo)
               file == repo.files
           IN  /\ c = [root |-> c.root, keys |-> c.keys, roles |-> c.roles,
                       snapshot |-> c.snapshot, timestamp |-> c.timestamp]
               /\ c.root = file["root"].version /\ c.root \in Nat \ {0}
               /\ DOMAIN c.keys = 1 .. c.root
               /\ \A n \in 1 .. c.root : c.keys[n] = repo.history[n].body["snapshot"].keys
               /\ R!Key(c) = config.roles["snapshot"].keys
               /\ c.roles = [r \in TargetsRoles(repo) |-> c.roles[r]]
               /\ DOMAIN c.roles = TargetsRoles(repo) /\ "targets" \in TargetsRoles(repo)
               /\ \A r \in TargetsRoles(repo) :
                     /\ c.roles[r] = [version |-> file[r].version, files |-> c.roles[r].files,
                                      delegates |-> c.roles[r].delegates]
                     /\ c.roles[r].files =
                           {<<p, file[r].body.targets[p]>> : p \in DOMAIN file[r].body.targets}
                     /\ c.roles[r].delegates =
                           IF r = "targets" THEN DOMAIN c.roles \ {"targets"} ELSE {}
               /\ c.snapshot = [version |-> file["snapshot"].version, key |-> file["snapshot"].sigs,
                                meta |-> file["snapshot"].body]
               /\ c.timestamp = [version |-> file["timestamp"].version,
                                 snapshot |-> file["timestamp"].body]
<1> DEFINE c == CommitOf(repo)
           file == repo.files
           names(r) == {d.name : d \in ToSet(file[r].body.delegations)}
           role(r) == [version |-> file[r].version,
                       files |-> {<<p, TargetsOf(repo, r)[p]>> : p \in DOMAIN TargetsOf(repo, r)},
                       delegates |-> names(r)]
           keys == [n \in 1 .. file["root"].version |-> repo.history[n].body["snapshot"].keys]
           roles == [r \in TargetsRoles(repo) |-> role(r)]
           snapshot == [version |-> file["snapshot"].version, key |-> file["snapshot"].sigs,
                        meta |-> file["snapshot"].body]
           timestamp == [version |-> file["timestamp"].version, snapshot |-> file["timestamp"].body]
<1>1. c = [root |-> file["root"].version, keys |-> keys, roles |-> roles,
           snapshot |-> snapshot, timestamp |-> timestamp]
  BY DEF CommitOf
<1> HIDE DEF c
<1>2. /\ Follows(repo, config) /\ DOMAIN repo.files = DOMAIN config.roles
      /\ \A r \in {"root", "targets", "snapshot", "timestamp"} : r \in DOMAIN config.roles
  BY RolesOfConfig DEF IsCommit, Follows
<1>3. /\ file["root"].version \in Nat \ {0}
      /\ repo.history[file["root"].version] = file["root"]
  BY CommitHistory
<1>4. keys[file["root"].version] = config.roles["snapshot"].keys
  <2>1. file["root"].body = RootBody(config)
    BY <1>2 DEF Follows
  <2>2. RootBody(config)["snapshot"] = RoleDefinition(config.roles["snapshot"])
    BY DEF RootBody, TopLevel
  <2>3. keys[file["root"].version] = file["root"].body["snapshot"].keys
    BY <1>3
  <2> HIDE DEF keys
  <2>4. QED
    BY <2>1, <2>2, <2>3 DEF RoleDefinition
<1>5. "targets" \in TargetsRoles(repo)
  BY <1>2 DEF TargetsRoles
<1>6. \A r : r \in TargetsRoles(repo) /\ r # "targets" <=> r \in ToSet(config.order)
  BY <1>2 DEF TargetsRoles, Valid, TopLevel
<1>7. \A n : n \in names("targets") <=> n \in ToSet(config.order)
  <2>1. file["targets"].body.delegations = ConfigDelegations(config)
    BY <1>2 DEF Follows, Delegations
  <2> DEFINE dels == ConfigDelegations(config)
  <2>2. /\ DOMAIN dels = DOMAIN config.order
        /\ \A i \in DOMAIN config.order : dels[i].name = config.order[i]
    BY DEF ConfigDelegations
  <2> HIDE DEF dels
  <2>3. \A n : n \in {d.name : d \in ToSet(dels)} <=> \E i \in DOMAIN dels : n = dels[i].name
    BY DEF ToSet
  <2>4. \A n : n \in ToSet(config.order) <=> \E i \in DOMAIN config.order : n = config.order[i]
    BY DEF ToSet
  <2>5. QED
    BY <2>1, <2>2, <2>3, <2>4 DEF dels
<1>8. ASSUME NEW r \in TargetsRoles(repo)
      PROVE  names(r) = IF r = "targets" THEN TargetsRoles(repo) \ {"targets"} ELSE {}
  <2>1. CASE r = "targets"
    BY <1>6, <1>7, <2>1
  <2>2. CASE r # "targets"
    <3>1. file[r].body.delegations = <<>>
      BY <1>2, <2>2 DEF Follows
    <3>2. QED
      BY <2>2, <3>1 DEF ToSet
  <2>3. QED
    BY <2>1, <2>2
<1> HIDE DEF names
<1>9. ASSUME NEW r \in TargetsRoles(repo)
      PROVE  /\ roles[r] = [version |-> file[r].version, files |-> roles[r].files,
                            delegates |-> roles[r].delegates]
             /\ roles[r].files = {<<p, file[r].body.targets[p]>> : p \in DOMAIN file[r].body.targets}
             /\ roles[r].delegates = IF r = "targets" THEN TargetsRoles(repo) \ {"targets"} ELSE {}
  BY <1>8 DEF TargetsOf
<1>10. /\ DOMAIN keys = 1 .. file["root"].version
       /\ \A n \in 1 .. file["root"].version : keys[n] = repo.history[n].body["snapshot"].keys
       /\ roles = [r \in TargetsRoles(repo) |-> roles[r]]
       /\ DOMAIN roles = TargetsRoles(repo)
  OBVIOUS
<1> HIDE DEF keys, roles, snapshot, timestamp
<1>11. /\ c.root = file["root"].version /\ c.keys = keys /\ c.roles = roles
       /\ c.snapshot = snapshot /\ c.timestamp = timestamp
  BY <1>1
<1>12. R!Key(c) = config.roles["snapshot"].keys
  BY <1>4, <1>11 DEF R!Key
<1>13. QED
  BY <1>1, <1>3, <1>5, <1>9, <1>10, <1>11, <1>12 DEF c, snapshot, timestamp

\* Root is the one it was, or the next version, which joins the history.
RootGoesOn(repo, next) ==
    LET old == repo.files["root"]
        new == next.files["root"]
    IN  \/ new = old /\ next.history = repo.history
        \/ /\ new.version = 1 + old.version
           /\ \A n \in DOMAIN repo.history : next.history[n] = repo.history[n]

(* What comes after a commit by a merge is what Release says of merges.     *)
LEMMA ReleaseMerges ==
    ASSUME NEW repo, NEW config, IsCommit(repo, config), Valid(config),
           NEW next, NEW newer, IsCommit(next, newer), Valid(newer),
           \A r \in {"snapshot", "timestamp"} : next.files[r] = repo.files[r],
           Forward(repo, next), RootGoesOn(repo, next)
    PROVE  R!MergesInto(CommitOf(repo), CommitOf(next))
<1> DEFINE c == CommitOf(repo)
           d == CommitOf(next)
<1>1. /\ c.root = repo.files["root"].version /\ c.root \in Nat \ {0}
      /\ DOMAIN c.keys = 1 .. c.root
      /\ \A n \in 1 .. c.root : c.keys[n] = repo.history[n].body["snapshot"].keys
      /\ d.root = next.files["root"].version
      /\ DOMAIN d.keys = 1 .. d.root
      /\ \A n \in 1 .. d.root : d.keys[n] = next.history[n].body["snapshot"].keys
  BY CommitOfIs
<1>2. d.snapshot = c.snapshot /\ d.timestamp = c.timestamp
  BY DEF CommitOf
<1>3. \/ d.root = c.root /\ d.keys = c.keys
      \/ /\ d.root = c.root + 1
         /\ DOMAIN d.keys = 1 .. d.root
         /\ \A n \in 1 .. c.root : d.keys[n] = c.keys[n]
  <2>1. CASE next.files["root"] = repo.files["root"] /\ next.history = repo.history
    BY <2>1 DEF CommitOf
  <2>2. CASE /\ next.files["root"].version = 1 + repo.files["root"].version
             /\ \A n \in DOMAIN repo.history : next.history[n] = repo.history[n]
    <3>1. \A n : n \in DOMAIN repo.history <=> n \in 1 .. c.root
      BY <1>1, CommitHistory
    <3> HIDE DEF c, d
    <3>2. d.root = c.root + 1
      BY <1>1, <2>2
    <3>3. \A n \in 1 .. c.root : n \in 1 .. d.root
      BY <1>1, <3>2
    <3>4. \A n \in 1 .. c.root : d.keys[n] = c.keys[n]
      BY <1>1, <2>2, <3>1, <3>3
    <3>5. QED
      BY <1>1, <3>2, <3>4
  <2>3. QED
    BY <2>1, <2>2 DEF RootGoesOn
<1>4. /\ DOMAIN c.roles = TargetsRoles(repo) /\ DOMAIN d.roles = TargetsRoles(next)
      /\ "targets" \in TargetsRoles(next)
      /\ \A r \in TargetsRoles(next) :
            d.roles[r].delegates = IF r = "targets" THEN DOMAIN d.roles \ {"targets"} ELSE {}
      /\ c.snapshot.meta = repo.files["snapshot"].body
  <2>1. DOMAIN c.roles = TargetsRoles(repo)
    BY DEF CommitOf
  <2>2. DOMAIN d.roles = TargetsRoles(next)
    BY DEF CommitOf
  <2>3. c.snapshot.meta = repo.files["snapshot"].body
    BY DEF CommitOf
  <2>4. "targets" \in TargetsRoles(next)
    BY CommitOfIs
  <2>5. \A r \in TargetsRoles(next) :
            d.roles[r].delegates = IF r = "targets" THEN DOMAIN d.roles \ {"targets"} ELSE {}
    BY ONLY IsCommit(next, newer), Valid(newer), CommitOfIs DEF d
  <2> HIDE DEF c, d
  <2>6. QED
    BY <2>1, <2>2, <2>3, <2>4, <2>5
<1>5. ASSUME NEW r \in TargetsRoles(next)
      PROVE  \/ r \in DOMAIN c.roles /\ d.roles[r] = c.roles[r]
             \/ d.roles[r].version > R!LastVersion(c, r)
  <2> DEFINE old == repo.files[r]
             new == next.files[r]
  <2>1. /\ r \in DOMAIN next.files /\ r \notin {"root", "snapshot", "timestamp"}
        /\ r \in TargetsRoles(repo) <=> Has(repo, r)
        /\ Has(repo, "snapshot")
    BY CommitIsGrounded DEF TargetsRoles, Has
  <2>2. d.roles[r] = [version |-> new.version,
                      files |-> {<<p, TargetsOf(next, r)[p]>> : p \in DOMAIN TargetsOf(next, r)},
                      delegates |-> {x.name : x \in ToSet(new.body.delegations)}]
    BY DEF CommitOf
  <2>3. r \in TargetsRoles(repo) =>
           c.roles[r] = [version |-> old.version,
                         files |-> {<<p, TargetsOf(repo, r)[p]>> : p \in DOMAIN TargetsOf(repo, r)},
                         delegates |-> {x.name : x \in ToSet(old.body.delegations)}]
    BY DEF CommitOf
  <2> HIDE DEF c, d
  <2>4. CASE Has(repo, r) /\ new = old
    BY <1>4, <2>1, <2>2, <2>3, <2>4 DEF TargetsOf
  <2>5. CASE Has(repo, r) /\ new # old
    <3>1. new.version > old.version
      BY <2>1, <2>5 DEF Forward
    <3>2. R!LastVersion(c, r) = old.version
      BY <1>4, <2>1, <2>3, <2>5 DEF R!LastVersion
    <3>3. d.roles[r].version = new.version
      BY <2>2
    <3>4. QED
      BY <3>1, <3>2, <3>3
  <2>6. CASE ~Has(repo, r)
    <3>1. new.version > SnapshotVersion(repo, r)
      BY <2>1, <2>6 DEF Forward
    <3>2. R!LastVersion(c, r) = SnapshotVersion(repo, r)
      BY <1>4, <2>1, <2>6 DEF R!LastVersion, R!Listed, SnapshotVersion
    <3>3. d.roles[r].version = new.version
      BY <2>2
    <3>4. QED
      BY <3>1, <3>2, <3>3
  <2>7. QED
    BY <2>4, <2>5, <2>6
<1> HIDE DEF c, d
<1>6. "targets" \in DOMAIN d.roles
  BY <1>4
<1>7. \A r \in DOMAIN d.roles :
         d.roles[r].delegates = IF r = "targets" THEN DOMAIN d.roles \ {"targets"} ELSE {}
  BY <1>4
<1>8. \A r \in DOMAIN d.roles :
         \/ r \in DOMAIN c.roles /\ d.roles[r] = c.roles[r]
         \/ d.roles[r].version > R!LastVersion(c, r)
  BY <1>4, <1>5
<1>9. R!MergesInto(c, d)
  BY <1>2, <1>3, <1>6, <1>7, <1>8 DEF R!MergesInto
<1>10. QED
  BY <1>9 DEF c, d

(* The root of a merge is the event's or main's.                            *)
LEMMA MergeChainsRoot ==
    ASSUME IInv, NEW e \in DOMAIN events, Merge(e)
    PROVE  RootGoesOn(main.repo, main'.repo)
<1> DEFINE ev == events[e]
           M == MergedRepo(ev.base, main.repo, ev.head)
           C == MergedConfig(ev.old, main.config, ev.config)
<1>1. main' = [repo |-> M, config |-> C] /\ Mergeable(ev)
  BY DEF Merge, MergeOf
<1>2. /\ ReposMergeCleanly(ev.base, main.repo, ev.head)
      /\ ConfigsMergeCleanly(ev.old, main.config, ev.config)
  BY <1>1 DEF Mergeable, MergesCleanly
<1>3. Meet(ev.base, ev.old, main.repo, main.config, ev.head, ev.config)
  <2>1. IsEvent(main.repo, ev) /\ IsCommit(main.repo, main.config) /\ Valid(main.config)
    BY DEF IInv
  <2>2. QED
    BY <1>2, <2>1 DEF Meet, IsEvent
<1> HIDE DEF ev
<1>4. \/ M.files["root"] = main.repo.files["root"] /\ M.history = main.repo.history
      \/ /\ M.files["root"].version = 1 + main.repo.files["root"].version
         /\ \A n \in DOMAIN main.repo.history : M.history[n] = main.repo.history[n]
  BY <1>3, MergedHistory
<1> HIDE DEF M, C
<1>5. QED
  BY <1>1, <1>4 DEF RootGoesOn

-------------------------------------------------------------------------------
(* What CI makes of a commit *)

\* A config whose snapshots have one key, as Release takes it.
OneSnapshotKey(config) == \E k : config.roles["snapshot"].keys = {k}

(* To renew an entry is to count its version up.                            *)
LEMMA NextVersionIs ==
    ASSUME NEW version, NEW files, NEW delegates
    PROVE  [[version |-> version, files |-> files, delegates |-> delegates] EXCEPT !.version = @ + 1]
             = [version |-> version + 1, files |-> files, delegates |-> delegates]
OBVIOUS

(* A commit with another's root is that one with other roles, snapshot and  *)
(* timestamp.                                                               *)
LEMMA UpdatedIs ==
    ASSUME NEW c, NEW d,
           c = [root |-> c.root, keys |-> c.keys, roles |-> c.roles,
                snapshot |-> c.snapshot, timestamp |-> c.timestamp],
           d = [root |-> d.root, keys |-> d.keys, roles |-> d.roles,
                snapshot |-> d.snapshot, timestamp |-> d.timestamp],
           d.root = c.root, d.keys = c.keys
    PROVE  d = [c EXCEPT !.roles = d.roles, !.snapshot = d.snapshot, !.timestamp = d.timestamp]
<1> DEFINE c0 == [root |-> c.root, keys |-> c.keys, roles |-> c.roles,
                  snapshot |-> c.snapshot, timestamp |-> c.timestamp]
           c1 == [root |-> c.root, keys |-> c.keys, roles |-> d.roles,
                  snapshot |-> c.snapshot, timestamp |-> c.timestamp]
           c2 == [root |-> c.root, keys |-> c.keys, roles |-> d.roles,
                  snapshot |-> d.snapshot, timestamp |-> c.timestamp]
           c3 == [root |-> c.root, keys |-> c.keys, roles |-> d.roles,
                  snapshot |-> d.snapshot, timestamp |-> d.timestamp]
<1>1. [c0 EXCEPT !.roles = d.roles] = c1
  OBVIOUS
<1>2. [c1 EXCEPT !.snapshot = d.snapshot] = c2
  OBVIOUS
<1>3. [c2 EXCEPT !.timestamp = d.timestamp] = c3
  OBVIOUS
<1>4. c = c0 /\ d = c3
  OBVIOUS
<1> HIDE DEF c0, c1, c2, c3
<1>5. [c EXCEPT !.roles = d.roles, !.snapshot = d.snapshot, !.timestamp = d.timestamp]
        = [[[c EXCEPT !.roles = d.roles] EXCEPT !.snapshot = d.snapshot]
              EXCEPT !.timestamp = d.timestamp]
  OBVIOUS
<1>6. [c EXCEPT !.roles = d.roles] = c1
  BY ONLY <1>1, <1>4
<1>7. QED
  BY ONLY <1>2, <1>3, <1>4, <1>5, <1>6

(* With one key, a snapshot is trusted if it has that key.                  *)
LEMMA TrustsOneKey ==
    ASSUME NEW repo, NEW config, IsCommit(repo, config), Valid(config),
           OneSnapshotKey(config), NEW file, NEW k, file.sigs = {k}
    PROVE  /\ Trusts(repo, "snapshot", file) <=> file.sigs = config.roles["snapshot"].keys
           /\ Met(file, RoleDefinition(config.roles["snapshot"]))
                <=> file.sigs = config.roles["snapshot"].keys
<1> DEFINE rc == config.roles["snapshot"]
<1>1. PICK own : rc.keys = {own}
  BY DEF OneSnapshotKey
<1>2. "snapshot" \in DOMAIN config.roles
  BY RolesOfConfig
<1>3. rc.threshold \in 1 .. Cardinality(rc.keys)
  BY <1>2 DEF Valid, ValidRole
<1> HIDE DEF rc
<1>4. rc.threshold = 1
  BY <1>1, <1>3, FS_Singleton
<1>5. Met(file, RoleDefinition(rc)) <=> file.sigs = rc.keys
  <2>1. RoleDefinition(rc).keys = rc.keys /\ RoleDefinition(rc).threshold = 1
    BY <1>4 DEF RoleDefinition
  <2>2. CASE k = own
    <3>1. file.sigs = rc.keys /\ file.sigs \cap rc.keys = {own}
      BY <1>1, <2>2
    <3>2. Cardinality({own}) >= 1
      BY FS_Singleton
    <3>3. QED
      BY <2>1, <3>1, <3>2 DEF Met, SignedBy
  <2>3. CASE k # own
    <3>1. file.sigs # rc.keys /\ file.sigs \cap rc.keys = {}
      BY <1>1, <2>3
    <3>2. Cardinality({}) = 0
      BY FS_EmptySet
    <3>3. QED
      BY <2>1, <3>1, <3>2 DEF Met, SignedBy
  <2>4. QED
    BY <2>2, <2>3
<1>6. HasKeys(repo, "snapshot") /\ RoleKeys(repo, "snapshot") = RoleDefinition(rc)
  BY <1>2, CommitIsGrounded, GroundedGivesKeys DEF Grounded, rc
<1>7. QED
  BY <1>5, <1>6 DEF Trusts, rc

(* What CI makes of a commit is an online update of it.                     *)
LEMMA ReleaseUpdates ==
    ASSUME NEW repo, NEW config, IsCommit(repo, config), Valid(config), OneSnapshotKey(config),
           NEW k, repo.files["snapshot"].sigs = {k},
           NEW online, NEW former, now \in Nat,
           IsOnline(repo, online, config, former, now)
    PROVE  R!UpdatesInto(CommitOf(repo), CommitOf(online))
<1> DEFINE c == CommitOf(repo)
           d == CommitOf(online)
           renewed == {r \in TargetsRoles(repo) : online.files[r] # repo.files[r]}
           old == repo.files["snapshot"]
           new == online.files["snapshot"]
           oldTime == repo.files["timestamp"]
           newTime == online.files["timestamp"]
           roles == R!Renewed(c, renewed)
           meta == R!NewMeta(c, roles)
           rc == config.roles["snapshot"]
<1>1. /\ IsCommit(online, config)
      /\ DOMAIN online.files = DOMAIN repo.files
      /\ online.files["root"] = repo.files["root"]
      /\ online.history = repo.history
  BY OnlineIsCommit
<1>2. TargetsRoles(online) = TargetsRoles(repo)
  BY <1>1 DEF TargetsRoles
<1>3. d.root = c.root /\ d.keys = c.keys
  BY <1>1 DEF CommitOf
<1>4. /\ \A r \in TargetsRoles(repo) : r \in DOMAIN repo.files /\ r \notin {"root", "snapshot", "timestamp"}
      /\ "snapshot" \in DOMAIN repo.files /\ "timestamp" \in DOMAIN repo.files
      /\ \A r \in DOMAIN repo.files : repo.files[r].version \in Nat
  BY CommitIsGrounded DEF TargetsRoles, IsCommit, WellFormed, IsFile
<1>5. ASSUME NEW r \in TargetsRoles(repo)
      PROVE  /\ online.files[r].body = repo.files[r].body
             /\ \/ online.files[r] = repo.files[r]
                \/ online.files[r].version = repo.files[r].version + 1
  <2>1. CASE online.files[r] = repo.files[r]
    BY <2>1
  <2>2. CASE online.files[r] # repo.files[r]
    <3>1. r \in CiRoles(repo, config) /\ online.files[r].version = 1 + repo.files[r].version
      BY <1>4, <2>2, OnlineRoles
    <3>2. online.files[r].body = OnlineBody(repo, online, r)
      BY <3>1, OnlineRoles
    <3>3. QED
      BY <1>4, <3>1, <3>2 DEF OnlineBody
  <2>3. QED
    BY <2>1, <2>2
<1>6. d.roles = roles
  <2>1. /\ c.roles = [r \in TargetsRoles(repo) |-> c.roles[r]]
        /\ DOMAIN c.roles = TargetsRoles(repo)
    BY DEF CommitOf
  <2>2. d.roles = [r \in TargetsRoles(repo) |-> d.roles[r]]
    BY <1>2 DEF CommitOf
  <2>3. ASSUME NEW r \in TargetsRoles(repo)
        PROVE  d.roles[r] = IF r \in renewed THEN [c.roles[r] EXCEPT !.version = @ + 1] ELSE c.roles[r]
    <3> DEFINE files == {<<p, TargetsOf(repo, r)[p]>> : p \in DOMAIN TargetsOf(repo, r)}
               names == {x.name : x \in ToSet(repo.files[r].body.delegations)}
    <3>1. c.roles[r] = [version |-> repo.files[r].version, files |-> files, delegates |-> names]
      BY DEF CommitOf
    <3>2. d.roles[r] = [version |-> online.files[r].version, files |-> files, delegates |-> names]
      BY <1>2, <1>5 DEF CommitOf, TargetsOf
    <3> HIDE DEF files, names, c, d
    <3>3. [c.roles[r] EXCEPT !.version = @ + 1]
             = [version |-> repo.files[r].version + 1, files |-> files, delegates |-> names]
      BY <3>1, NextVersionIs
    <3>4. QED
      BY <1>5, <3>1, <3>2, <3>3
  <2> HIDE DEF c, d, renewed
  <2>4. roles = [r \in DOMAIN c.roles |->
                   IF r \in renewed THEN [c.roles[r] EXCEPT !.version = @ + 1] ELSE c.roles[r]]
    BY DEF R!Renewed
  <2> HIDE DEF roles
  <2>5. QED
    BY <2>1, <2>2, <2>3, <2>4
<1>7. /\ c.snapshot = [version |-> old.version, key |-> old.sigs, meta |-> old.body]
      /\ d.snapshot = [version |-> new.version, key |-> new.sigs, meta |-> new.body]
      /\ c.timestamp = [version |-> oldTime.version, snapshot |-> oldTime.body]
      /\ d.timestamp = [version |-> newTime.version, snapshot |-> newTime.body]
      /\ c = [root |-> c.root, keys |-> c.keys, roles |-> c.roles,
              snapshot |-> c.snapshot, timestamp |-> c.timestamp]
      /\ d = [root |-> d.root, keys |-> d.keys, roles |-> d.roles,
              snapshot |-> d.snapshot, timestamp |-> d.timestamp]
  BY DEF CommitOf
<1>8. R!Key(c) = rc.keys
  BY CommitOfIs
<1>9. Trusts(repo, "snapshot", old) <=> old.sigs = rc.keys
  BY TrustsOneKey
<1>10. /\ DOMAIN roles = TargetsRoles(repo)
       /\ \A r \in TargetsRoles(repo) : roles[r].version = online.files[r].version
  <2>1. DOMAIN d.roles = TargetsRoles(repo)
    BY <1>2 DEF CommitOf
  <2>2. \A r \in TargetsRoles(repo) : d.roles[r].version = online.files[r].version
    BY <1>2 DEF CommitOf
  <2> HIDE DEF roles, d
  <2>3. QED
    BY <1>6, <2>1, <2>2
<1> HIDE DEF roles
<1>11. new.body = meta
  <2> DEFINE body == new.body
             kept == IF c.snapshot.key = R!Key(c) THEN DOMAIN c.snapshot.meta ELSE {}
  <2>1. /\ IsMap(body)
        /\ \A r \in TargetsRoles(repo) : r \in DOMAIN body /\ body[r] = online.files[r].version
        /\ \A r : r \notin TargetsRoles(repo) =>
              /\ r \in DOMAIN body <=> Trusts(repo, "snapshot", old) /\ r \in DOMAIN old.body
              /\ r \in DOMAIN body => body[r] = old.body[r]
    BY OnlineLists
  <2>2. meta = [r \in DOMAIN roles \cup kept |->
                  IF r \in DOMAIN roles THEN roles[r].version ELSE c.snapshot.meta[r]]
    BY DEF R!NewMeta
  <2>3. \A r : r \in kept <=> Trusts(repo, "snapshot", old) /\ r \in DOMAIN old.body
    BY <1>7, <1>8, <1>9
  <2>4. c.snapshot.meta = old.body
    BY <1>7
  <2> HIDE DEF body, kept, meta, c, old
  <2>5. /\ IsMap(meta)
        /\ \A r : r \in DOMAIN meta <=> r \in DOMAIN roles \/ r \in kept
        /\ \A r \in DOMAIN meta :
              meta[r] = IF r \in DOMAIN roles THEN roles[r].version ELSE c.snapshot.meta[r]
    BY <2>2 DEF IsMap
  <2>6. \A r : Same(body, meta, r)
    <3> SUFFICES ASSUME NEW r PROVE Same(body, meta, r)
      OBVIOUS
    <3>1. CASE r \in TargetsRoles(repo)
      <4>1. r \in DOMAIN body /\ body[r] = online.files[r].version
        BY <2>1, <3>1
      <4>2. r \in DOMAIN meta /\ meta[r] = roles[r].version
        BY <1>10, <2>5, <3>1
      <4>3. QED
        BY <1>10, <3>1, <4>1, <4>2 DEF Same
    <3>2. CASE r \notin TargetsRoles(repo)
      <4>1. r \notin DOMAIN roles
        BY <1>10, <3>2
      <4>2. r \in DOMAIN meta <=> r \in DOMAIN body
        BY <2>1, <2>3, <2>5, <3>2, <4>1
      <4>3. r \in DOMAIN meta => meta[r] = body[r]
        BY <2>1, <2>4, <2>5, <3>2, <4>1, <4>2
      <4>4. QED
        BY <4>2, <4>3 DEF Same
    <3>3. QED
      BY <3>1, <3>2
  <2>7. body = meta
    BY <2>1, <2>5, <2>6, SameMaps
  <2>8. QED
    BY <2>7 DEF body
<1> HIDE DEF meta
<1>12. /\ "snapshot" \in CiRoles(repo, config) /\ "timestamp" \in CiRoles(repo, config)
       /\ LastVersion(repo, "snapshot") = old.version
       /\ LastVersion(repo, "timestamp") = oldTime.version
  BY <1>4 DEF CiRoles, LastVersion, Has
<1>13. d.snapshot = R!NewSnapshot(c, roles, new # old)
  <2>1. CASE new # old
    <3>1. new = NewAndSigned(repo, "snapshot", OnlineBody(repo, online, "snapshot"), config, now)
      BY <1>12, <2>1 DEF IsOnline
    <3>2. new.version = 1 + old.version /\ new.sigs = rc.keys
      BY <1>12, <3>1 DEF NewAndSigned
    <3>3. R!NewSnapshot(c, roles, new # old)
             = [version |-> c.snapshot.version + 1, key |-> R!Key(c), meta |-> meta]
      BY <2>1 DEF R!NewSnapshot, meta
    <3>4. c.snapshot.version + 1 = new.version
      BY <1>4, <1>7, <3>2
    <3> HIDE DEF c, d, old, new
    <3>5. QED
      BY <1>7, <1>8, <1>11, <3>2, <3>3, <3>4
  <2>2. CASE new = old
    <3>1. Met(old, RoleDefinition(rc))
      BY <1>4, <2>2, OnlineRoles
    <3>2. old.sigs = rc.keys
      BY <3>1, TrustsOneKey
    <3>3. c.snapshot.key = R!Key(c) /\ c.snapshot.meta = meta
      BY <1>7, <1>8, <1>11, <2>2, <3>2
    <3>4. d.snapshot = c.snapshot
      BY <1>7, <2>2
    <3> HIDE DEF c, d, old, new
    <3>5. QED
      BY <2>2, <3>3, <3>4 DEF R!NewSnapshot, meta
  <2>3. QED
    BY <2>1, <2>2
<1>14. d.timestamp = R!NewTimestamp(c, d.snapshot, newTime # oldTime)
  <2>1. newTime.body = new.version
    BY OnlineLists
  <2>2. CASE newTime # oldTime
    <3>1. newTime = NewAndSigned(repo, "timestamp", OnlineBody(repo, online, "timestamp"), config, now)
      BY <1>12, <2>2 DEF IsOnline
    <3>2. newTime.version = 1 + oldTime.version
      BY <1>12, <3>1 DEF NewAndSigned
    <3>3. R!NewTimestamp(c, d.snapshot, newTime # oldTime)
             = [version |-> c.timestamp.version + 1, snapshot |-> d.snapshot.version]
      BY <2>2 DEF R!NewTimestamp
    <3>4. c.timestamp.version + 1 = newTime.version /\ d.snapshot.version = new.version
      BY <1>4, <1>7, <3>2
    <3> HIDE DEF c, d, new, newTime, oldTime
    <3>5. QED
      BY <1>7, <2>1, <3>3, <3>4
  <2>3. CASE newTime = oldTime
    <3>1. c.timestamp.snapshot = d.snapshot.version
      BY <1>7, <2>1, <2>3
    <3>2. d.timestamp = c.timestamp
      BY <1>7, <2>3
    <3> HIDE DEF c, d, new, newTime, oldTime
    <3>3. QED
      BY <2>3, <3>1, <3>2 DEF R!NewTimestamp
  <2>4. QED
    BY <2>2, <2>3
<1> DEFINE s == new # old
           t == newTime # oldTime
<1>15. renewed \in SUBSET DOMAIN c.roles /\ s \in BOOLEAN /\ t \in BOOLEAN
  BY DEF CommitOf
<1> HIDE DEF c, d, renewed, s, t
<1>16. R!OnlineUpdate(c, renewed, s, t)
         = [c EXCEPT !.roles = roles, !.snapshot = R!NewSnapshot(c, roles, s),
                     !.timestamp = R!NewTimestamp(c, R!NewSnapshot(c, roles, s), t)]
  BY DEF R!OnlineUpdate, roles
<1>17. d = [c EXCEPT !.roles = d.roles, !.snapshot = d.snapshot, !.timestamp = d.timestamp]
  BY <1>3, <1>7, UpdatedIs
<1>18. d = R!OnlineUpdate(c, renewed, s, t)
  BY <1>6, <1>13, <1>14, <1>16, <1>17 DEF s, t
<1>19. R!UpdatesInto(c, d)
  BY <1>15, <1>18 DEF R!UpdatesInto
<1>20. QED
  BY <1>19 DEF c, d

-------------------------------------------------------------------------------
(* The first commit *)

(* What CI leaves when it has signed the first event.                       *)
LEMMA ReleaseStarts ==
    ASSUME NEW config, Valid(config)
    PROVE  R!FirstCommit(CommitOf(Started(config)))
<1> DEFINE S == Started(config)
           c == CommitOf(S)
           file == S.files
           body == file["snapshot"].body
           ones == [r \in DOMAIN c.roles |-> 1]
<1>1. /\ IsCommit(S, config)
      /\ \A r \in DOMAIN file :
            r \in DOMAIN config.roles /\ file[r].sigs = config.roles[r].keys
      /\ \A r \in DOMAIN file : file[r].version = 1
      /\ IsMap(body)
      /\ \A r : r \in DOMAIN body <=> r \in TargetsRoles(S)
      /\ \A r \in TargetsRoles(S) : body[r] = 1
      /\ file["timestamp"].body = 1
  BY StartedIs
<1> HIDE DEF S
<1>2. \A r \in {"root", "targets", "snapshot", "timestamp"} : r \in DOMAIN file
  BY <1>1, CommitIsGrounded
<1>3. c.root = 1 /\ DOMAIN c.keys = 1 .. 1
  BY <1>1, <1>2 DEF CommitOf
<1>4. R!Key(c) = config.roles["snapshot"].keys
  BY <1>1, CommitOfIs
<1>5. /\ DOMAIN c.roles = TargetsRoles(S)
      /\ \A r \in TargetsRoles(S) : c.roles[r].version = file[r].version
      /\ c.snapshot = [version |-> file["snapshot"].version, key |-> file["snapshot"].sigs,
                       meta |-> body]
      /\ c.timestamp = [version |-> file["timestamp"].version, snapshot |-> file["timestamp"].body]
  BY DEF CommitOf
<1>6. \A r \in TargetsRoles(S) : c.roles[r].version = 1
  BY <1>1, <1>5 DEF TargetsRoles
<1>7. "targets" \in TargetsRoles(S)
  BY <1>2 DEF TargetsRoles
<1>8. c.roles["targets"].delegates = DOMAIN c.roles \ {"targets"}
  BY ONLY <1>1, <1>7, Valid(config), CommitOfIs DEF c
<1> HIDE DEF c
<1>9. body = ones
  <2>1. IsMap(ones) /\ DOMAIN ones = DOMAIN c.roles /\ \A r \in DOMAIN c.roles : ones[r] = 1
    BY DEF IsMap
  <2> HIDE DEF body, ones
  <2>2. \A r : Same(body, ones, r)
    BY <1>1, <1>5, <2>1 DEF Same
  <2>3. QED
    BY <1>1, <2>1, <2>2, SameMaps
<1>10. c.snapshot = [version |-> 1, key |-> R!Key(c), meta |-> ones]
  BY <1>1, <1>2, <1>4, <1>5, <1>9
<1>11. c.timestamp = [version |-> 1, snapshot |-> 1]
  BY <1>1, <1>2, <1>5
<1>12. 1 .. 1 = {1}
  OBVIOUS
<1>13. R!FirstCommit(c)
  BY <1>3, <1>5, <1>6, <1>7, <1>8, <1>10, <1>11, <1>12 DEF R!FirstCommit
<1>14. QED
  BY <1>13 DEF c, S

-------------------------------------------------------------------------------
(* One key for snapshots *)

\* Snapshots have one key, main's is signed with one, and no event is about
\* to change that.
SInv ==
    /\ OneSnapshotKey(main.config)
    /\ \E k : main.repo.files["snapshot"].sigs = {k}
    /\ \A e \in DOMAIN events : OneSnapshotKey(events[e].config)

\* The repository starts with one key.
LEMMA InitSInv ==
    ASSUME \A c \in Configs : OneSnapshotKey(c)
    PROVE  Init => SInv
<1> SUFFICES ASSUME Init PROVE SInv
  OBVIOUS
<1>1. PICK c \in FirstConfigs : main = [repo |-> Started(c), config |-> c]
  BY DEF Init
<1>2. c \in Configs /\ Valid(c) /\ OneSnapshotKey(c)
  BY ConfigsAssumption
<1> DEFINE S == Started(c)
<1>3. S.files["snapshot"].sigs = c.roles["snapshot"].keys
  <2>1. /\ IsCommit(S, c)
        /\ \A r \in DOMAIN S.files : S.files[r].sigs = c.roles[r].keys
    BY <1>2, StartedIs
  <2> HIDE DEF S
  <2>2. "snapshot" \in DOMAIN S.files
    BY <1>2, <2>1, CommitIsGrounded
  <2>3. QED
    BY <2>1, <2>2
<1>4. DOMAIN events = {}
  BY DEF Init
<1> HIDE DEF S
<1>5. main.repo = S /\ main.config = c
  BY <1>1 DEF S
<1>6. QED
  BY <1>2, <1>3, <1>4, <1>5 DEF SInv, OneSnapshotKey

\* Each event after a step is one there was with the same config, one with a
\* config people want, or one with main's.
ConfigsStay ==
    \A n \in DOMAIN events' :
        \/ n \in DOMAIN events /\ events'[n].config = events[n].config
        \/ events'[n].config \in Configs
        \/ events'[n].config = main.config

(* No step gives an event another config.                                   *)
LEMMA ConfigsOfEvents ==
    ASSUME IInv, [Next]_vars
    PROVE  ConfigsStay
<1>1. ASSUME NEW e, NEW kind, NEW head, NEW config, NEW intent,
             Start(e, kind, head, config, intent),
             config \in Configs \/ config = main.config
      PROVE  ConfigsStay
  <2> DEFINE signed == SignOnline(config, main.repo, head, EventRoles(head))
             ev == [kind |-> kind, base |-> main.repo, old |-> main.config,
                    head |-> signed, config |-> config, intent |-> intent]
  <2>1. events' = Over(Entry(e, ev), events)
    BY <1>1 DEF Start
  <2>2. ev.config = config
    OBVIOUS
  <2> HIDE DEF ev
  <2>3. \A n \in DOMAIN events' :
           \/ events'[n] = ev
           \/ n \in DOMAIN events /\ events'[n] = events[n]
    BY <2>1, OverIs, EntryIs
  <2>4. QED
    BY <1>1, <2>2, <2>3 DEF ConfigsStay
<1>2. ASSUME NEW e \in fresh
      PROVE  /\ \A c \in Configs : Apply(e, c) => ConfigsStay
             /\ \A files \in LocalFiles, dir \in Directories : Add(e, files, dir) => ConfigsStay
             /\ \A paths \in SUBSET Paths : Rm(e, paths) => ConfigsStay
  <2>1. \A c \in Configs : Apply(e, c) => ConfigsStay
    BY <1>1 DEF Apply
  <2>2. \A files \in LocalFiles, dir \in Directories : Add(e, files, dir) => ConfigsStay
    BY <1>1 DEF Add
  <2>3. \A paths \in SUBSET Paths : Rm(e, paths) => ConfigsStay
    BY <1>1 DEF Rm
  <2>4. QED
    BY <2>1, <2>2, <2>3
<1>3. ASSUME NEW e \in DOMAIN events, NEW k \in Keys, SignOffline(e, k)
      PROVE  ConfigsStay
  <2>1. PICK roles : events' = [events EXCEPT ![e].head = Sign(events[e].head, roles, k)]
    BY <1>3 DEF SignOffline
  <2> DEFINE head == Sign(events[e].head, roles, k)
  <2> HIDE DEF head
  <2>2. \A n \in DOMAIN events' :
           /\ n \in DOMAIN events
           /\ n = e => events'[n] = [events[e] EXCEPT !.head = head]
           /\ n # e => events'[n] = events[n]
    BY <2>1 DEF head
  <2>3. [events[e] EXCEPT !.head = head].config = events[e].config
    <3>1. IsEvent(main.repo, events[e])
      BY DEF IInv
    <3>2. QED
      BY <3>1 DEF IsEvent
  <2>4. QED
    BY <2>2, <2>3 DEF ConfigsStay
<1>4. ASSUME NEW e \in DOMAIN events, Merge(e)
      PROVE  ConfigsStay
  BY <1>4 DEF Merge, ConfigsStay
<1>5. ASSUME NEW e \in DOMAIN events, Abandon(e)
      PROVE  ConfigsStay
  BY <1>5 DEF Abandon, ConfigsStay
<1>6. ASSUME NEW published \in BOOLEAN, CiRun(published)
      PROVE  ConfigsStay
  <2> DEFINE at == [Tip EXCEPT !.repo = OnlineUpdated]
             ev == RefreshOf(at, at)
  <2>1. /\ at = [repo |-> OnlineUpdated, config |-> main.config, previous |-> previous]
        /\ events' = events \/ events' = Over(Entry(RefreshEvent, ev), events)
    BY <1>6, CiRunIs
  <2>2. ev.config = main.config
    BY <2>1 DEF RefreshOf
  <2> HIDE DEF ev
  <2>3. \A n \in DOMAIN events' :
           \/ events'[n] = ev
           \/ n \in DOMAIN events /\ events'[n] = events[n]
    BY <2>1, OverIs, EntryIs
  <2>4. QED
    BY <2>2, <2>3 DEF ConfigsStay
<1>7. CASE Tick
  BY <1>7 DEF Tick, ConfigsStay
<1>8. CASE UNCHANGED vars
  BY <1>8 DEF vars, ConfigsStay
<1>9. QED
  BY <1>2, <1>3, <1>4, <1>5, <1>6, <1>7, <1>8 DEF Next

\* Every step keeps to one key.
LEMMA NextSInv ==
    ASSUME \A c \in Configs : OneSnapshotKey(c)
    PROVE  IInv /\ SInv /\ [Next]_vars => SInv'
<1> SUFFICES ASSUME IInv, SInv, [Next]_vars PROVE SInv'
  OBVIOUS
<1>1. \A e \in DOMAIN events' : OneSnapshotKey(events'[e].config)
  BY ConfigsOfEvents DEF ConfigsStay, SInv
<1>2. CASE main' = main
  BY <1>1, <1>2 DEF SInv
<1>3. ASSUME NEW e \in DOMAIN events, Merge(e)
      PROVE  SInv'
  <2> DEFINE ev == events[e]
             C == MergedConfig(ev.old, main.config, ev.config)
  <2>1. main'.config = C /\ ConfigsMergeCleanly(ev.old, main.config, ev.config) /\ Valid(C)
    BY <1>3 DEF Merge, MergeOf, Mergeable, MergesCleanly, Readable
  <2>2. main'.repo.files["snapshot"] = main.repo.files["snapshot"]
    BY <1>3, MergeMakes
  <2>3. OneSnapshotKey(main.config) /\ OneSnapshotKey(ev.config)
    BY DEF SInv
  <2>4. "snapshot" \in DOMAIN C.roles
    BY <2>1, RolesOfConfig
  <2> HIDE DEF ev
  <2>5. \/ C.roles["snapshot"].keys = main.config.roles["snapshot"].keys
        \/ C.roles["snapshot"].keys = ev.config.roles["snapshot"].keys
    BY <2>1, <2>4, MergedKeys
  <2> HIDE DEF C
  <2>6. OneSnapshotKey(C)
    BY <2>3, <2>5 DEF OneSnapshotKey
  <2>7. QED
    BY <1>1, <2>1, <2>2, <2>6 DEF SInv
<1>4. ASSUME NEW published \in BOOLEAN, CiRun(published)
      PROVE  SInv'
  <2>1. main'.repo = OnlineUpdated /\ main'.config = main.config
    BY <1>4, CiRunIs
  <2>2. IsOnline(main.repo, OnlineUpdated, main.config, previous, now)
    BY CiMakes
  <2> DEFINE new == OnlineUpdated.files["snapshot"]
  <2>3. \/ new.sigs = main.config.roles["snapshot"].keys
        \/ new = main.repo.files["snapshot"]
    <3>1. "snapshot" \in CiRoles(main.repo, main.config)
      BY DEF CiRoles
    <3>2. \/ new = NewAndSigned(main.repo, "snapshot",
                               OnlineBody(main.repo, OnlineUpdated, "snapshot"), main.config, now)
          \/ new = main.repo.files["snapshot"]
      BY <2>2, <3>1 DEF IsOnline
    <3> HIDE DEF new
    <3>3. QED
      BY <3>2 DEF NewAndSigned
  <2>4. \E k : new.sigs = {k}
    BY <2>3 DEF SInv, OneSnapshotKey
  <2>5. OneSnapshotKey(main.config)
    BY DEF SInv
  <2> HIDE DEF new
  <2>6. \E k : main'.repo.files["snapshot"].sigs = {k}
    BY <2>1, <2>4 DEF new
  <2>7. OneSnapshotKey(main'.config)
    BY <2>1, <2>5
  <2>8. QED
    BY <1>1, <2>6, <2>7 DEF SInv
<1>5. QED
  BY <1>2, <1>3, <1>4, MovesMain

(* ImplementsRelease: main's history is one that Release allows, if each    *)
(* config gives snapshots one key. Release has one where the code has a set *)
(* and a threshold.                                                         *)
THEOREM Implements ==
    ASSUME \A c \in Configs : OneSnapshotKey(c)
    PROVE  Spec => ImplementsRelease
<1>1. Init => R!FirstCommit(CommitOf(main.repo))
  <2> SUFFICES ASSUME Init PROVE R!FirstCommit(CommitOf(main.repo))
    OBVIOUS
  <2>1. PICK c \in FirstConfigs : main = [repo |-> Started(c), config |-> c]
    BY DEF Init
  <2>2. Valid(c) /\ main.repo = Started(c)
    BY <2>1, ConfigsAssumption
  <2>3. QED
    BY <2>2, ReleaseStarts
<1>2. IInv /\ SInv /\ [Next]_vars
        => [\/ R!MergesInto(CommitOf(main.repo), CommitOf(main.repo)')
            \/ R!UpdatesInto(CommitOf(main.repo), CommitOf(main.repo)')]_(CommitOf(main.repo))
  <2> SUFFICES ASSUME IInv, SInv, [Next]_vars
               PROVE  \/ CommitOf(main'.repo) = CommitOf(main.repo)
                      \/ R!MergesInto(CommitOf(main.repo), CommitOf(main'.repo))
                      \/ R!UpdatesInto(CommitOf(main.repo), CommitOf(main'.repo))
    OBVIOUS
  <2>1. IsCommit(main.repo, main.config) /\ Valid(main.config)
    BY DEF IInv
  <2>2. CASE main' = main
    BY <2>2
  <2>3. ASSUME NEW e \in DOMAIN events, Merge(e)
        PROVE  R!MergesInto(CommitOf(main.repo), CommitOf(main'.repo))
    <3>1. /\ IsCommit(main'.repo, main'.config) /\ Valid(main'.config)
          /\ \A r \in {"snapshot", "timestamp"} : main'.repo.files[r] = main.repo.files[r]
          /\ Forward(main.repo, main'.repo)
          /\ RootGoesOn(main.repo, main'.repo)
      BY <2>3, MergeMakes, MergeChainsRoot
    <3>2. QED
      BY <2>1, <3>1, ReleaseMerges
  <2>4. ASSUME NEW published \in BOOLEAN, CiRun(published)
        PROVE  R!UpdatesInto(CommitOf(main.repo), CommitOf(main'.repo))
    <3>1. main'.repo = OnlineUpdated
      BY <2>4, CiRunIs
    <3>2. /\ IsOnline(main.repo, OnlineUpdated, main.config, previous, now)
          /\ now \in Nat
      BY CiMakes, LifecycleAssumption DEF IInv
    <3>3. PICK k : main.repo.files["snapshot"].sigs = {k}
      BY DEF SInv
    <3>4. OneSnapshotKey(main.config)
      BY DEF SInv
    <3>5. QED
      BY <2>1, <3>1, <3>2, <3>3, <3>4, ReleaseUpdates
  <2>5. QED
    BY <2>2, <2>3, <2>4, MovesMain
<1>3. QED
  BY <1>1, <1>2, InitSInv, NextSInv, Invariance, PTL DEF Spec, ImplementsRelease, R!ReleaseSpec

-------------------------------------------------------------------------------
(* What events do to targets *)

\* The metadata has the same roles with the same content.
SameContent(old, new) ==
    /\ \A r : r \in DOMAIN new.files <=> r \in DOMAIN old.files
    /\ \A r \in DOMAIN old.files : new.files[r].body = old.files[r].body

\* What clients find is decided by the content of roles.
LEMMA ContentDecides ==
    ASSUME NEW old, NEW new, SameContent(old, new), "targets" \in DOMAIN old.files, NEW p
    PROVE  /\ ClientFinds(new, p) = ClientFinds(old, p)
           /\ p \in ListedPaths(new) <=> p \in ListedPaths(old)
<1>1. Delegations(new) = Delegations(old)
  BY DEF SameContent, Delegations
<1>2. \A r \in DOMAIN old.files : TargetsOf(new, r) = TargetsOf(old, r)
  BY DEF SameContent, TargetsOf
<1>3. ClientFinds(new, p) = ClientFinds(old, p)
  <2> DEFINE role == DelegatedRole(Delegations(old), p)
  <2>1. ClientFinds(new, p) = IF Has(new, role) /\ p \in DOMAIN TargetsOf(new, role)
                              THEN {TargetsOf(new, role)[p]} ELSE {}
    BY <1>1 DEF ClientFinds
  <2>2. ClientFinds(old, p) = IF Has(old, role) /\ p \in DOMAIN TargetsOf(old, role)
                              THEN {TargetsOf(old, role)[p]} ELSE {}
    BY DEF ClientFinds
  <2> HIDE DEF role
  <2>3. Has(new, role) <=> Has(old, role)
    BY DEF SameContent, Has
  <2>4. QED
    BY <1>2, <2>1, <2>2, <2>3 DEF Has
<1>4. p \in ListedPaths(new) <=> p \in ListedPaths(old)
  <2>1. \A r : r \in TargetsRoles(new) <=> r \in TargetsRoles(old)
    BY DEF SameContent, TargetsRoles
  <2>2. \A r \in TargetsRoles(old) : TargetsOf(new, r) = TargetsOf(old, r)
    BY <1>2 DEF TargetsRoles
  <2>3. QED
    BY <2>1, <2>2 DEF ListedPaths
<1>5. QED
  BY <1>3, <1>4

\* Signing leaves the content alone.
LEMMA SigningKeepsContent ==
    ASSUME NEW head, WellFormed(head), NEW roles, roles \subseteq DOMAIN head.files
    PROVE  /\ \A key : SameContent(head, Sign(head, roles, key))
           /\ \A config, base : SameContent(head, SignOnline(config, base, head, roles))
<1>1. ASSUME NEW key
      PROVE  SameContent(head, Sign(head, roles, key))
  <2> DEFINE new == [r \in roles |-> [head.files[r] EXCEPT !.sigs = @ \cup {key}]]
  <2>1. ASSUME NEW r \in roles
        PROVE  new[r].body = head.files[r].body
    <3>1. IsFile(head.files[r])
      BY DEF WellFormed
    <3>2. new[r] = [head.files[r] EXCEPT !.sigs = @ \cup {key}]
      OBVIOUS
    <3> HIDE DEF new
    <3>3. Countersigned(head.files[r], new[r], {key})
      BY <3>1, <3>2, SigningIs
    <3>4. QED
      BY <3>3 DEF Countersigned
  <2>2. DOMAIN new = roles
    OBVIOUS
  <2> HIDE DEF new
  <2>3. SameContent(head, With(head, new))
    BY <2>1, <2>2, WithIs DEF SameContent
  <2>4. QED
    BY <2>3 DEF Sign, new
<1>2. ASSUME NEW config, NEW base
      PROVE  SameContent(head, SignOnline(config, base, head, roles))
  <2> DEFINE keys(r) == MissingKeys(head, base, r) \cap config.online
             new == [r \in roles |-> [head.files[r] EXCEPT !.sigs =
                        @ \cup (MissingKeys(head, base, r) \cap config.online)]]
  <2>1. ASSUME NEW r \in roles
        PROVE  new[r].body = head.files[r].body
    <3>1. IsFile(head.files[r])
      BY DEF WellFormed
    <3>2. new[r] = [head.files[r] EXCEPT !.sigs = @ \cup keys(r)]
      OBVIOUS
    <3> HIDE DEF new, keys
    <3>3. Countersigned(head.files[r], new[r], keys(r))
      BY <3>1, <3>2, SigningIs
    <3>4. QED
      BY <3>3 DEF Countersigned
  <2>2. DOMAIN new = roles
    OBVIOUS
  <2> HIDE DEF new
  <2>3. SameContent(head, With(head, new))
    BY <2>1, <2>2, WithIs DEF SameContent
  <2>4. QED
    BY <2>3 DEF SignOnline, new
<1>3. QED
  BY <1>1, <1>2

(* `update` gives each role the content it is asked to have.                *)
LEMMA UpdateHasContent ==
    ASSUME NEW repo, NEW base, NEW bodies, NEW config, NEW former, NEW today
    PROVE  LET U == Update(repo, base, bodies, config, former, today)
           IN  /\ \A r : r \in DOMAIN U.files <=> r \in DOMAIN bodies \/ r \in DOMAIN repo.files
               /\ \A r \in DOMAIN bodies : U.files[r].body = bodies[r]
               /\ \A r \in DOMAIN repo.files :
                     r \notin DOMAIN bodies => U.files[r].body = repo.files[r].body
<1> DEFINE U == Update(repo, base, bodies, config, former, today)
<1>1. /\ \A r : r \in DOMAIN U.files <=> r \in DOMAIN bodies \/ r \in DOMAIN repo.files
      /\ \A r \in DOMAIN repo.files : r \notin DOMAIN bodies => U.files[r] = repo.files[r]
  BY UpdateIs
<1>2. ASSUME NEW r \in DOMAIN bodies
      PROVE  U.files[r].body = bodies[r]
  <2>1. CASE U.files[r] = NewVersion(base, r, bodies[r], config, today)
    <3> HIDE DEF U
    <3>1. QED
      BY <2>1 DEF NewVersion
  <2>2. CASE /\ ~NeedsVersion(repo, base, r, bodies[r], config, former, today)
             /\ Has(repo, r) /\ U.files[r] = repo.files[r]
    <3> HIDE DEF U
    <3>1. QED
      BY <2>2 DEF NeedsVersion
  <2>3. QED
    BY <2>1, <2>2, UpdateIs
<1> HIDE DEF U
<1>3. QED
  BY <1>1, <1>2 DEF U

\* The metadata lists `path` in `role`.
Lists(repo, role, path) == path \in DOMAIN TargetsOf(repo, role)

\* `new` has the roles and the delegations of `old`.
SameRoles(old, new) ==
    /\ \A r : r \in DOMAIN new.files <=> r \in DOMAIN old.files
    /\ Delegations(new) = Delegations(old)

(* `remove_targets` takes the paths off the list of every role, and nothing *)
(* else.                                                                   *)
LEMMA RemoveHasContent ==
    ASSUME NEW repo, NEW config, Follows(repo, config), "targets" \in DOMAIN repo.files,
           NEW base, NEW paths, NEW today
    PROVE  LET left == RemoveTargets(repo, config, base, paths, today)
           IN  /\ SameRoles(repo, left)
               /\ \A r \in TargetsRoles(repo) : \A p :
                     /\ Lists(left, r, p) <=> Lists(repo, r, p) /\ p \notin paths
                     /\ Lists(left, r, p) => TargetsOf(left, r)[p] = TargetsOf(repo, r)[p]
<1> DEFINE holders == {r \in TargetsRoles(repo) : DOMAIN TargetsOf(repo, r) \cap paths # {}}
           Targets(r) == [p \in DOMAIN repo.files[r].body.targets \ paths |->
                            repo.files[r].body.targets[p]]
           bodies == [r \in holders |->
                        [repo.files[r].body EXCEPT !.targets = [p \in DOMAIN @ \ paths |-> @[p]]]]
           left == RemoveTargets(repo, config, base, paths, today)
<1>1. /\ \A r : r \in DOMAIN left.files <=> r \in DOMAIN bodies \/ r \in DOMAIN repo.files
      /\ \A r \in DOMAIN bodies : left.files[r].body = bodies[r]
      /\ \A r \in DOMAIN repo.files : r \notin DOMAIN bodies => left.files[r].body = repo.files[r].body
  <2>1. left = Update(repo, base, bodies, config, NoConfig, today)
    BY DEF RemoveTargets
  <2> HIDE DEF bodies, left
  <2>2. QED
    BY <2>1, UpdateHasContent
<1>2. \A r : r \in DOMAIN bodies <=> r \in TargetsRoles(repo) /\ DOMAIN TargetsOf(repo, r) \cap paths # {}
  OBVIOUS
<1>3. ASSUME NEW r \in DOMAIN bodies
      PROVE  /\ bodies[r].delegations = repo.files[r].body.delegations
             /\ bodies[r].targets = Targets(r)
  <2>1. IsTargets(repo.files[r].body)
    BY <1>2, <1>3 DEF Follows
  <2>2. bodies[r] = [repo.files[r].body EXCEPT !.targets = Targets(r)]
    BY <1>3
  <2>3. IsMap(Targets(r))
    BY DEF IsMap
  <2> HIDE DEF bodies, Targets
  <2>4. QED
    BY <2>1, <2>2, <2>3, ListingIs
<1>4. \A r, p : /\ p \in DOMAIN Targets(r) <=> p \in DOMAIN TargetsOf(repo, r) /\ p \notin paths
                /\ p \in DOMAIN Targets(r) => Targets(r)[p] = TargetsOf(repo, r)[p]
  BY DEF TargetsOf
<1> HIDE DEF bodies, left, Targets, holders
<1>5. \A r \in DOMAIN bodies : r \in DOMAIN repo.files
  BY <1>2 DEF TargetsRoles
<1>6. SameRoles(repo, left)
  <2>1. left.files["targets"].body.delegations = repo.files["targets"].body.delegations
    BY <1>1, <1>3
  <2>2. QED
    BY <1>1, <1>5, <2>1 DEF SameRoles, Delegations
<1>7. ASSUME NEW r \in TargetsRoles(repo), NEW p
      PROVE  /\ Lists(left, r, p) <=> Lists(repo, r, p) /\ p \notin paths
             /\ Lists(left, r, p) => TargetsOf(left, r)[p] = TargetsOf(repo, r)[p]
  <2>1. CASE r \in DOMAIN bodies
    <3>1. TargetsOf(left, r) = Targets(r)
      BY <1>1, <1>3, <2>1 DEF TargetsOf
    <3>2. /\ p \in DOMAIN TargetsOf(left, r) <=> p \in DOMAIN TargetsOf(repo, r) /\ p \notin paths
          /\ p \in DOMAIN TargetsOf(left, r) => TargetsOf(left, r)[p] = TargetsOf(repo, r)[p]
      BY <1>4, <3>1
    <3>3. QED
      BY <3>2 DEF Lists
  <2>2. CASE r \notin DOMAIN bodies
    <3>1. TargetsOf(left, r) = TargetsOf(repo, r)
      BY <1>1, <2>2 DEF TargetsOf, TargetsRoles
    <3>2. p \in DOMAIN TargetsOf(repo, r) => p \notin paths
      BY <1>2, <2>2
    <3>3. QED
      BY <3>1, <3>2 DEF Lists
  <2>3. QED
    BY <2>1, <2>2
<1>8. QED
  BY <1>6, <1>7 DEF left

(* `add_targets` adds each path to the role it belongs in, and nothing else. *)
LEMMA AddHasContent ==
    ASSUME NEW repo, NEW config, Follows(repo, config), Valid(config),
           NEW base, NEW new, NEW today
    PROVE  LET added == AddTargets(repo, config, base, new, today)
               Goes(p) == DelegatedRole(Delegations(repo), p)
           IN  /\ SameRoles(repo, added)
               /\ \A p \in DOMAIN new :
                     /\ Goes(p) \in TargetsRoles(repo)
                     /\ Lists(added, Goes(p), p)
                     /\ TargetsOf(added, Goes(p))[p] = new[p]
               /\ \A r \in TargetsRoles(repo) : \A p :
                     /\ Lists(repo, r, p) => Lists(added, r, p)
                     /\ Lists(added, r, p) /\ ~Lists(repo, r, p) =>
                           p \in DOMAIN new /\ TargetsOf(added, r)[p] = new[p]
<1> DEFINE Goes(p) == DelegatedRole(Delegations(repo), p)
           Into(r) == [p \in {p \in DOMAIN new : Goes(p) = r} |-> new[p]]
           Targets(r) == Over(Into(r), repo.files[r].body.targets)
           bodies == [r \in {Goes(p) : p \in DOMAIN new} |->
                        [repo.files[r].body EXCEPT !.targets = Over(Into(r), @)]]
           added == AddTargets(repo, config, base, new, today)
<1>1. \A p : Goes(p) \in TargetsRoles(repo)
  BY DelegatedRoleIs DEF Follows, TargetsRoles
<1>2. /\ \A r : r \in DOMAIN added.files <=> r \in DOMAIN bodies \/ r \in DOMAIN repo.files
      /\ \A r \in DOMAIN bodies : added.files[r].body = bodies[r]
      /\ \A r \in DOMAIN repo.files : r \notin DOMAIN bodies => added.files[r].body = repo.files[r].body
  <2>1. added = Update(repo, base, bodies, config, NoConfig, today)
    BY DEF AddTargets
  <2> HIDE DEF bodies, added
  <2>2. QED
    BY <2>1, UpdateHasContent
<1>3. \A p \in DOMAIN new : Goes(p) \in DOMAIN bodies
  OBVIOUS
<1>4. \A r \in DOMAIN bodies : r \in TargetsRoles(repo)
  BY <1>1
<1>5. ASSUME NEW r \in DOMAIN bodies
      PROVE  /\ bodies[r].delegations = repo.files[r].body.delegations
             /\ bodies[r].targets = Targets(r)
  <2>1. IsTargets(repo.files[r].body)
    BY <1>4, <1>5 DEF Follows
  <2>2. bodies[r] = [repo.files[r].body EXCEPT !.targets = Targets(r)]
    BY <1>5
  <2>3. IsMap(Targets(r))
    BY OverIs
  <2> HIDE DEF bodies, Targets
  <2>4. QED
    BY <2>1, <2>2, <2>3, ListingIs
<1>6. \A p \in DOMAIN new : p \in DOMAIN Targets(Goes(p)) /\ Targets(Goes(p))[p] = new[p]
  <2> SUFFICES ASSUME NEW p \in DOMAIN new
               PROVE  p \in DOMAIN Targets(Goes(p)) /\ Targets(Goes(p))[p] = new[p]
    OBVIOUS
  <2>1. p \in DOMAIN Into(Goes(p)) /\ Into(Goes(p))[p] = new[p]
    OBVIOUS
  <2> HIDE DEF Into, Goes
  <2>2. QED
    BY <2>1, OverIs
<1>7. SameRoles(repo, added)
  <2> HIDE DEF bodies, added
  <2>1. "targets" \in DOMAIN repo.files
    BY RolesOfConfig DEF Follows
  <2>2. added.files["targets"].body.delegations = repo.files["targets"].body.delegations
    BY <1>2, <1>5, <2>1
  <2>3. QED
    BY <1>2, <1>4, <2>2 DEF SameRoles, Delegations, TargetsRoles
<1>8. \A r, p : /\ p \in DOMAIN TargetsOf(repo, r) => p \in DOMAIN Targets(r)
                /\ p \in DOMAIN Targets(r) /\ p \notin DOMAIN TargetsOf(repo, r) =>
                      p \in DOMAIN new /\ Targets(r)[p] = new[p]
  <2> SUFFICES ASSUME NEW r, NEW p
               PROVE  /\ p \in DOMAIN TargetsOf(repo, r) => p \in DOMAIN Targets(r)
                      /\ p \in DOMAIN Targets(r) /\ p \notin DOMAIN TargetsOf(repo, r) =>
                            p \in DOMAIN new /\ Targets(r)[p] = new[p]
    OBVIOUS
  <2>1. p \in DOMAIN Into(r) => p \in DOMAIN new /\ Into(r)[p] = new[p]
    OBVIOUS
  <2> HIDE DEF Into, Goes
  <2>2. QED
    BY <2>1, OverIs DEF TargetsOf
<1> HIDE DEF bodies, added, Targets, Into
<1>9. ASSUME NEW p \in DOMAIN new
      PROVE  Lists(added, Goes(p), p) /\ TargetsOf(added, Goes(p))[p] = new[p]
  BY <1>2, <1>3, <1>5, <1>6 DEF Lists, TargetsOf
<1>10. ASSUME NEW r \in TargetsRoles(repo), NEW p
       PROVE  /\ Lists(repo, r, p) => Lists(added, r, p)
              /\ Lists(added, r, p) /\ ~Lists(repo, r, p) =>
                    p \in DOMAIN new /\ TargetsOf(added, r)[p] = new[p]
  <2>1. CASE r \in DOMAIN bodies
    <3>1. TargetsOf(added, r) = Targets(r)
      BY <1>2, <1>5, <2>1 DEF TargetsOf
    <3>2. QED
      BY <1>8, <3>1 DEF Lists
  <2>2. CASE r \notin DOMAIN bodies
    <3>1. TargetsOf(added, r) = TargetsOf(repo, r)
      BY <1>2, <2>2 DEF TargetsOf, TargetsRoles
    <3>2. QED
      BY <3>1 DEF Lists
  <2>3. QED
    BY <2>1, <2>2
<1>11. QED
  BY <1>1, <1>7, <1>9, <1>10 DEF added

(* `apply_config` lists every target where it belongs now, as the file it   *)
(* was before if it was the same file in every role.                       *)
LEMMA ApplyHasContent ==
    ASSUME NEW repo, NEW old, NEW config, NEW former, NEW today \in Nat,
           IsCommit(repo, old), Valid(old), Valid(config),
           NEW p \in ListedPaths(repo), ListedAlike(repo, p)
    PROVE  LET H == ApplyConfig(repo, config, former, repo, today)
           IN  /\ ClientFinds(H, p) = {ListedTargets(repo)[p]}
               /\ p \in ListedPaths(H)
<1> DEFINE H == ApplyConfig(repo, config, former, repo, today)
           dels == ConfigDelegations(config)
           role == DelegatedRole(dels, p)
<1>1. Follows(H, config)
  BY ApplySucceeds DEF Succeeds
<1>2. role \in DOMAIN config.roles /\ role \notin {"root", "snapshot", "timestamp"}
  BY DelegatedRoleIs
<1>3. TargetsOf(H, role) = Regrouped(repo, dels, role)
  <2> HIDE DEF role, dels
  <2>1. H.files[role].body = NewBody(repo, config, role)
    <3>1. \/ Kept(repo, config, role, NewBody(repo, config, role), H.files[role], today)
          \/ H.files[role] = NewVersion(repo, role, NewBody(repo, config, role), config, today)
      BY <1>2, ApplyIs
    <3> HIDE DEF H
    <3>2. QED
      BY <3>1 DEF Kept, NewVersion
  <2> HIDE DEF H
  <2>2. QED
    BY <1>2, <2>1 DEF NewBody, TargetsOf, dels
<1>4. p \in DOMAIN Regrouped(repo, dels, role) /\ Regrouped(repo, dels, role)[p] = Description(repo, dels, p)
  BY DEF Regrouped
<1>5. Description(repo, dels, p) = ListedTargets(repo)[p]
  <2>1. \E r : r \in Listers(repo, p)
    BY DEF ListedPaths, Listers
  <2>2. ASSUME NEW ds
        PROVE  \E r \in Listers(repo, p) : Description(repo, ds, p) = TargetsOf(repo, r)[p]
    BY <2>1 DEF Description
  <2>3. ListedTargets(repo)[p] = Description(repo, Delegations(repo), p)
    BY DEF ListedTargets
  <2>4. QED
    BY <2>2, <2>3 DEF ListedAlike
<1>6. Has(H, role) /\ role \in TargetsRoles(H)
  BY <1>1, <1>2 DEF Follows, Has, TargetsRoles
<1>7. Delegations(H) = dels
  BY <1>1 DEF Follows
<1> HIDE DEF H, dels
<1>8. ClientFinds(H, p) = {TargetsOf(H, role)[p]}
  BY <1>3, <1>4, <1>6, <1>7 DEF ClientFinds
<1>9. p \in ListedPaths(H)
  BY <1>3, <1>4, <1>6 DEF ListedPaths
<1>10. QED
  BY <1>3, <1>4, <1>5, <1>8, <1>9 DEF H
-------------------------------------------------------------------------------
(* Every event does what it says *)

\* What `head` lists is what `intent` says of its paths that are listed
\* alike in `base`, if `alike`, or of all of them.
Fits(base, head, intent, alike) ==
    \A p \in DOMAIN intent :
        (alike => ListedAlike(base, p)) =>
            /\ ClientFinds(head, p) = intent[p]
            /\ p \in ListedPaths(head) <=> intent[p] # {}

\* The event `ev`, if it is one of the CLI's, does what it is for.
Does(ev) == ev.kind # "refresh" => Fits(ev.base, ev.head, ev.intent, ev.kind = "config")

DInv == \A e \in DOMAIN events : Does(events[e])

\* The same, of metadata with the same content.
LEMMA FitsStill ==
    ASSUME NEW base, NEW head, NEW intent, NEW alike, Fits(base, head, intent, alike),
           NEW new, SameContent(head, new), "targets" \in DOMAIN head.files
    PROVE  Fits(base, new, intent, alike)
BY ContentDecides DEF Fits

(* An event that is started does what it is for if its metadata does       *)
(* before it is signed.                                                    *)
LEMMA StartDoes ==
    ASSUME IInv, DInv, NEW e, NEW kind, NEW head, NEW config, NEW intent,
           Succeeds(main.repo, head, config), Valid(config),
           Fits(main.repo, head, intent, kind = "config"),
           Start(e, kind, head, config, intent)
    PROVE  DInv'
<1> DEFINE signed == SignOnline(config, main.repo, head, EventRoles(head))
           ev == [kind |-> kind, base |-> main.repo, old |-> main.config,
                  head |-> signed, config |-> config, intent |-> intent]
<1>1. SameContent(head, signed)
  BY SigningKeepsContent DEF Succeeds, EventRoles
<1>2. "targets" \in DOMAIN head.files
  BY RolesOfConfig DEF Succeeds, Follows
<1>3. events' = Over(Entry(e, ev), events)
  BY DEF Start
<1> HIDE DEF signed
<1>4. Fits(main.repo, signed, intent, kind = "config")
  BY <1>1, <1>2, FitsStill
<1>5. Does(ev)
  BY <1>4 DEF Does
<1> HIDE DEF ev
<1>6. \A n \in DOMAIN events' : \/ events'[n] = ev
                                \/ /\ n \in DOMAIN events
                                   /\ events'[n] = events[n]
  BY <1>3, OverIs, EntryIs
<1>7. QED
  BY <1>5, <1>6 DEF DInv

(* tufops apply: every target listed before is found where it belongs now. *)
LEMMA ApplyDoes ==
    ASSUME IInv, DInv, NEW e, NEW c \in Configs, Apply(e, c)
    PROVE  DInv'
<1> DEFINE head == ApplyConfig(main.repo, c, main.config, main.repo, now)
           intent == [p \in ListedPaths(main.repo) |-> {ListedTargets(main.repo)[p]}]
<1>1. IsCommit(main.repo, main.config) /\ Valid(main.config) /\ Valid(c) /\ now \in Nat
  BY ConfigsAssumption, LifecycleAssumption DEF IInv
<1>2. Succeeds(main.repo, head, c)
  BY <1>1, ApplySucceeds
<1>3. ASSUME NEW p \in DOMAIN intent, ListedAlike(main.repo, p)
      PROVE  /\ ClientFinds(head, p) = intent[p]
             /\ p \in ListedPaths(head) /\ intent[p] # {}
  BY <1>1, <1>3, ApplyHasContent
<1>4. Start(e, "config", head, c, intent)
  BY DEF Apply
<1> HIDE DEF head, intent
<1>5. Fits(main.repo, head, intent, "config" = "config")
  BY <1>3 DEF Fits
<1>6. QED
  BY <1>1, <1>2, <1>4, <1>5, StartDoes

\* What a client finds in metadata with the same roles: what the role that
\* `path` belongs in lists.
ClientLooksUp(repo, new, path) ==
    LET role == DelegatedRole(Delegations(repo), path)
    IN  /\ role \in TargetsRoles(repo)
        /\ ClientFinds(new, path) = IF Lists(new, role, path)
                                    THEN {TargetsOf(new, role)[path]}
                                    ELSE {}
        /\ path \in ListedPaths(new) <=> \E r \in TargetsRoles(repo) : Lists(new, r, path)

(* A commit's own delegations give clients a role to look in. *)
LEMMA ClientLooksUpIs ==
    ASSUME NEW repo, NEW config, Follows(repo, config), Valid(config),
           NEW new, SameRoles(repo, new), NEW path
    PROVE  ClientLooksUp(repo, new, path)
<1> DEFINE role == DelegatedRole(Delegations(repo), path)
<1>1. role \in TargetsRoles(repo)
  BY DelegatedRoleIs DEF Follows, TargetsRoles
<1>2. ClientFinds(new, path) = IF Has(new, role) /\ path \in DOMAIN TargetsOf(new, role)
                               THEN {TargetsOf(new, role)[path]} ELSE {}
  BY DEF ClientFinds, SameRoles
<1>3. \A r : r \in TargetsRoles(new) <=> r \in TargetsRoles(repo)
  BY DEF SameRoles, TargetsRoles
<1> HIDE DEF role
<1>4. Has(new, role)
  BY <1>1, <1>3 DEF TargetsRoles, Has
<1>5. path \in ListedPaths(new) <=> \E r \in TargetsRoles(repo) : Lists(new, r, path)
  BY <1>3 DEF ListedPaths, Lists
<1>6. QED
  BY <1>1, <1>2, <1>4, <1>5 DEF ClientLooksUp, Lists, role

(* tufops rm: no role lists the paths any more. *)
LEMMA RmDoes ==
    ASSUME IInv, DInv, NEW e, NEW paths, Rm(e, paths)
    PROVE  DInv'
<1> DEFINE head == RemoveTargets(main.repo, main.config, main.repo, paths, now)
           intent == [p \in paths |-> {}]
<1>1. IsCommit(main.repo, main.config) /\ Valid(main.config) /\ now \in Nat
  BY LifecycleAssumption DEF IInv
<1>2. Succeeds(main.repo, head, main.config)
  BY <1>1, SucceedsItself, RemoveSucceeds
<1>3. ASSUME NEW p \in DOMAIN intent
      PROVE  ClientFinds(head, p) = intent[p] /\ p \notin ListedPaths(head) /\ intent[p] = {}
  <2>1. Follows(main.repo, main.config) /\ "targets" \in DOMAIN main.repo.files
    BY <1>1, RolesOfConfig DEF IsCommit, Follows
  <2>2. /\ SameRoles(main.repo, head)
        /\ \A r \in TargetsRoles(main.repo) : ~Lists(head, r, p)
    BY <2>1, RemoveHasContent
  <2>3. intent[p] = {}
    OBVIOUS
  <2> HIDE DEF head, intent
  <2>4. ClientLooksUp(main.repo, head, p)
    BY <1>1, <2>1, <2>2, ClientLooksUpIs
  <2>5. QED
    BY <2>2, <2>3, <2>4 DEF ClientLooksUp
<1>4. Start(e, "rm", head, main.config, intent)
  BY DEF Rm
<1> HIDE DEF head, intent
<1>5. Fits(main.repo, head, intent, "rm" = "config")
  BY <1>3 DEF Fits
<1>6. QED
  BY <1>1, <1>2, <1>4, <1>5, StartDoes

(* tufops add: clients find the files that were added, and with --delete no *)
(* role lists what is gone.                                                *)
LEMMA AddDoes ==
    ASSUME IInv, DInv, NEW e, NEW files, NEW dir, Add(e, files, dir)
    PROVE  DInv'
<1> DEFINE new == NewFiles(files)
           stale == Stale(files, dir)
           added == AddTargets(main.repo, main.config, main.repo, new, now)
           head == RemoveTargets(added, main.config, main.repo, stale, now)
           intent == [p \in DOMAIN new \cup stale |-> At(new, p)]
<1>1. IsCommit(main.repo, main.config) /\ Valid(main.config) /\ now \in Nat
  BY LifecycleAssumption DEF IInv
<1>2. Succeeds(main.repo, added, main.config)
  BY <1>1, SucceedsItself, AddSucceeds
<1>3. Succeeds(main.repo, head, main.config)
  BY <1>1, <1>2, RemoveSucceeds
<1>4. Start(e, "add", head, main.config, intent)
  BY DEF Add
<1>5. \A p : p \in DOMAIN intent <=> p \in DOMAIN new \/ p \in stale
  OBVIOUS
<1>6. \A p \in DOMAIN intent : intent[p] = At(new, p)
  OBVIOUS
<1>7. \A p \in DOMAIN new : p \notin stale
  BY DEF NewFiles, Stale
<1> HIDE DEF new, stale, intent
<1>8. ASSUME NEW p \in DOMAIN intent
      PROVE  /\ ClientFinds(head, p) = intent[p]
             /\ p \in ListedPaths(head) <=> intent[p] # {}
  <2> DEFINE role == DelegatedRole(Delegations(main.repo), p)
  <2>1. Follows(main.repo, main.config) /\ Follows(added, main.config)
    BY <1>1, <1>2 DEF IsCommit, Succeeds
  <2>2. "targets" \in DOMAIN added.files
    BY <1>1, <2>1, RolesOfConfig DEF Follows
  <2>3. /\ SameRoles(main.repo, added)
        /\ p \in DOMAIN new => /\ role \in TargetsRoles(main.repo)
                               /\ Lists(added, role, p)
                               /\ TargetsOf(added, role)[p] = new[p]
    BY <1>1, <2>1, AddHasContent
  <2> HIDE DEF role, added
  <2>4. /\ SameRoles(added, head)
        /\ \A r \in TargetsRoles(added) :
              /\ Lists(head, r, p) <=> Lists(added, r, p) /\ p \notin stale
              /\ Lists(head, r, p) => TargetsOf(head, r)[p] = TargetsOf(added, r)[p]
    BY <2>1, <2>2, RemoveHasContent
  <2> HIDE DEF head
  <2>5. \A r : r \in TargetsRoles(added) <=> r \in TargetsRoles(main.repo)
    BY <2>3 DEF SameRoles, TargetsRoles
  <2>6. /\ ClientLooksUp(added, head, p)
        /\ DelegatedRole(Delegations(added), p) = role
    BY <1>1, <2>1, <2>3, <2>4, ClientLooksUpIs DEF SameRoles, role
  <2>7. CASE p \in DOMAIN new
    <3>1. At(new, p) = {new[p]}
      BY <2>7 DEF At
    <3>2. Lists(head, role, p) /\ TargetsOf(head, role)[p] = new[p] /\ role \in TargetsRoles(added)
      BY <1>7, <2>3, <2>4, <2>5, <2>7
    <3>3. QED
      BY <1>6, <2>6, <3>1, <3>2 DEF ClientLooksUp
  <2>8. CASE p \in stale
    <3>1. At(new, p) = {}
      BY <1>7, <2>8 DEF At
    <3>2. \A r \in TargetsRoles(added) : ~Lists(head, r, p)
      BY <2>4, <2>8
    <3>3. QED
      BY <1>6, <2>6, <3>1, <3>2 DEF ClientLooksUp
  <2>9. QED
    BY <1>5, <2>7, <2>8
<1> HIDE DEF head
<1>9. Fits(main.repo, head, intent, "add" = "config")
  BY <1>8 DEF Fits
<1>10. QED
  BY <1>1, <1>3, <1>4, <1>9, StartDoes

(* tufops sign leaves what events do alone, since signatures are not part  *)
(* of the content.                                                         *)
LEMMA SignDoes ==
    ASSUME IInv, DInv, NEW e \in DOMAIN events, NEW key, SignOffline(e, key)
    PROVE  DInv'
<1> DEFINE ev == events[e]
<1>1. PICK roles \in SUBSET Needs(ev.base, ev.head, key) :
         events' = [events EXCEPT ![e].head = Sign(ev.head, roles, key)]
  BY DEF SignOffline
<1> DEFINE head == Sign(ev.head, roles, key)
           new == [kind |-> ev.kind, base |-> ev.base, old |-> ev.old,
                   head |-> head, config |-> ev.config, intent |-> ev.intent]
<1>2. IsEvent(main.repo, ev) /\ Does(ev)
  BY DEF IInv, DInv
<1>3. /\ "targets" \in DOMAIN ev.head.files
      /\ WellFormed(ev.head)
      /\ roles \subseteq DOMAIN ev.head.files
  <2>1. Succeeds(ev.base, ev.head, ev.config) /\ Valid(ev.config)
    BY <1>2 DEF IsEvent
  <2>2. roles \subseteq DOMAIN ev.head.files
    BY DEF Needs, StatusRoles, EventRoles
  <2>3. QED
    BY <2>1, <2>2, RolesOfConfig DEF Succeeds, Follows
<1>4. SameContent(ev.head, head)
  BY <1>3, SigningKeepsContent
<1> HIDE DEF head
<1>5. Does(new)
  <2>1. Fits(ev.base, ev.head, ev.intent, ev.kind = "config")
          => Fits(ev.base, head, ev.intent, ev.kind = "config")
    BY <1>3, <1>4, FitsStill
  <2>2. QED
    BY <1>2, <2>1 DEF Does
<1>6. [ev EXCEPT !.head = head] = new
  BY <1>2 DEF IsEvent
<1>7. \A n \in DOMAIN events' : \/ events'[n] = new
                                \/ /\ n \in DOMAIN events
                                   /\ events'[n] = events[n]
  BY <1>1, <1>6 DEF head
<1> HIDE DEF new
<1>8. QED
  BY <1>5, <1>7 DEF DInv

(* Every step keeps it. *)
LEMMA NextDInv == IInv /\ DInv /\ [Next]_vars => DInv'
<1> SUFFICES ASSUME IInv, DInv, [Next]_vars
             PROVE  DInv'
  OBVIOUS
<1>1. ASSUME NEW e \in fresh, NEW c \in Configs, Apply(e, c)
      PROVE  DInv'
  BY <1>1, ApplyDoes
<1>2. ASSUME NEW e \in fresh, NEW files \in LocalFiles, NEW dir \in Directories, Add(e, files, dir)
      PROVE  DInv'
  BY <1>2, AddDoes
<1>3. ASSUME NEW e \in fresh, NEW paths \in SUBSET Paths, Rm(e, paths)
      PROVE  DInv'
  BY <1>3, RmDoes
<1>4. ASSUME NEW e \in DOMAIN events, NEW k \in Keys, SignOffline(e, k)
      PROVE  DInv'
  BY <1>4, SignDoes
<1>5. ASSUME NEW e \in DOMAIN events, Merge(e)
      PROVE  DInv'
  BY <1>5 DEF DInv, Merge
<1>6. ASSUME NEW e \in DOMAIN events, Abandon(e)
      PROVE  DInv'
  BY <1>6 DEF DInv, Abandon
<1>7. ASSUME NEW published \in BOOLEAN, CiRun(published)
      PROVE  DInv'
  <2> DEFINE at == [Tip EXCEPT !.repo = OnlineUpdated]
             new == RefreshOf(at, at)
  <2>1. Does(new)
    BY DEF RefreshOf, Does
  <2>2. events' = events \/ events' = Over(Entry(RefreshEvent, new), events)
    BY <1>7, CiRunIs
  <2> HIDE DEF new
  <2>3. \A n \in DOMAIN events' : \/ events'[n] = new
                                  \/ /\ n \in DOMAIN events
                                     /\ events'[n] = events[n]
    BY <2>2, OverIs, EntryIs
  <2>4. QED
    BY <2>1, <2>3 DEF DInv
<1>8. CASE Tick \/ UNCHANGED vars
  BY <1>8 DEF DInv, Tick, vars
<1>9. QED
  BY <1>1, <1>2, <1>3, <1>4, <1>5, <1>6, <1>7, <1>8 DEF Next

(* EventsDoWhatTheySay: clients of an event's metadata find what it adds,   *)
(* not what it removes, and after a change of tufops.toml all that was      *)
(* listed, unless roles listed it differently.                             *)
THEOREM EventsDo == Spec => []EventsDoWhatTheySay
<1>1. Init => DInv
  BY DEF Init, DInv
<1>2. DInv => EventsDoWhatTheySay
  BY DEF DInv, Does, Fits, EventsDoWhatTheySay
<1>3. QED
  BY <1>1, <1>2, Invariance, NextDInv, PTL DEF Spec

-------------------------------------------------------------------------------
(* What people are shown of events *)

\* An event edits the lists of roles, so that no target moves to another role
\* if roles list paths alike, or it regroups all targets.
Shaped(base, head) ==
    \/ AllAlike(base) => Unmoved(base, head)
    \/ Regroups(base, head)

RInv == \A e \in DOMAIN events : Shaped(events[e].base, events[e].head)

\* Metadata with the same content has the same shape.
LEMMA ShapedStill ==
    ASSUME NEW base, NEW head, Shaped(base, head),
           NEW new, SameContent(head, new), "targets" \in DOMAIN head.files
    PROVE  Shaped(base, new)
<1>1. /\ Delegations(new) = Delegations(head)
      /\ \A r : r \in TargetsRoles(new) <=> r \in TargetsRoles(head)
      /\ \A r \in TargetsRoles(head) : TargetsOf(new, r) = TargetsOf(head, r)
  BY DEF SameContent, Delegations, TargetsRoles, TargetsOf
<1>2. ASSUME NEW r, NEW p, NEW desc
      PROVE  IsElsewhere(new, r, p, desc) <=> IsElsewhere(head, r, p, desc)
  BY <1>1 DEF IsElsewhere, Listers
<1>3. ASSUME NEW r \in TargetsRoles(head), NEW old
      PROVE  NoneMoved(base, head, r, old, TargetsOf(head, r))
                => NoneMoved(base, new, r, old, TargetsOf(new, r))
  <2> DEFINE t == TargetsOf(head, r)
  <2>1. TargetsOf(new, r) = t
    BY <1>1
  <2> HIDE DEF t
  <2>2. Left(new, r, old, t) = Left(head, r, old, t)
    BY <1>2 DEF Left
  <2>3. QED
    BY <2>1, <2>2 DEF NoneMoved, t
<1>4. Unmoved(base, head) => Unmoved(base, new)
  BY <1>1, <1>3 DEF Unmoved
<1>5. RegroupsAll(base, head) => RegroupsAll(base, new)
  BY <1>1 DEF RegroupsAll
<1>6. Regroups(base, head) => Regroups(base, new)
  BY <1>1, <1>5 DEF Regroups
<1>7. QED
  BY <1>4, <1>6 DEF Shaped

(* Nothing moves in a commit compared with itself.                         *)
LEMMA ItselfUnmoved ==
    ASSUME NEW repo
    PROVE  Unmoved(repo, repo)
<1> SUFFICES ASSUME NEW r \in TargetsRoles(repo)
             PROVE  NoneMoved(repo, repo, r, ListedBy(repo, r), TargetsOf(repo, r))
  BY DEF Unmoved
<1>1. ListedBy(repo, r) = TargetsOf(repo, r)
  BY DEF ListedBy, TargetsRoles, Has
<1>2. QED
  BY <1>1 DEF NoneMoved, Came, Left

(* An event that is started has a shape if its metadata has before it is    *)
(* signed.                                                                 *)
LEMMA StartIsShaped ==
    ASSUME IInv, RInv, NEW e, NEW kind, NEW head, NEW config, NEW intent,
           Succeeds(main.repo, head, config), Valid(config), Shaped(main.repo, head),
           Start(e, kind, head, config, intent)
    PROVE  RInv'
<1> DEFINE signed == SignOnline(config, main.repo, head, EventRoles(head))
           ev == [kind |-> kind, base |-> main.repo, old |-> main.config,
                  head |-> signed, config |-> config, intent |-> intent]
<1>1. SameContent(head, signed)
  BY SigningKeepsContent DEF Succeeds, EventRoles
<1>2. "targets" \in DOMAIN head.files
  BY RolesOfConfig DEF Succeeds, Follows
<1>3. events' = Over(Entry(e, ev), events)
  BY DEF Start
<1> HIDE DEF signed
<1>4. Shaped(main.repo, signed)
  BY <1>1, <1>2, ShapedStill
<1>5. ev.base = main.repo /\ ev.head = signed
  OBVIOUS
<1> HIDE DEF ev
<1>6. \A n \in DOMAIN events' : \/ events'[n] = ev
                                \/ /\ n \in DOMAIN events
                                   /\ events'[n] = events[n]
  BY <1>3, OverIs, EntryIs
<1>7. QED
  BY <1>4, <1>5, <1>6 DEF RInv

(* apply_config regroups all targets.                                      *)
LEMMA ApplyRegroups ==
    ASSUME NEW repo, NEW old, NEW config, NEW former, NEW today \in Nat,
           IsCommit(repo, old), Valid(old), Valid(config)
    PROVE  LET H == ApplyConfig(repo, config, former, repo, today)
           IN  /\ RegroupsAll(repo, H)
               /\ Delegations(H) = ConfigDelegations(config)
<1> DEFINE H == ApplyConfig(repo, config, former, repo, today)
           dels == ConfigDelegations(config)
<1>1. Follows(H, config)
  BY ApplySucceeds DEF Succeeds
<1>2. ASSUME NEW r \in TargetsRoles(H)
      PROVE  TargetsOf(H, r) = Regrouped(repo, dels, r)
  <2>1. r \in DOMAIN config.roles /\ r \notin {"root", "snapshot", "timestamp"}
    BY <1>1, <1>2 DEF TargetsRoles, Follows
  <2>2. H.files[r].body = NewBody(repo, config, r)
    <3>1. \/ Kept(repo, config, r, NewBody(repo, config, r), H.files[r], today)
          \/ H.files[r] = NewVersion(repo, r, NewBody(repo, config, r), config, today)
      BY <2>1, ApplyIs
    <3> HIDE DEF H
    <3>2. QED
      BY <3>1 DEF Kept, NewVersion
  <2> HIDE DEF H
  <2>3. QED
    BY <2>1, <2>2 DEF NewBody, TargetsOf, dels
<1>3. Delegations(H) = dels
  BY <1>1 DEF Follows
<1> HIDE DEF H, dels
<1>4. RegroupsAll(repo, H)
  BY <1>2, <1>3 DEF RegroupsAll
<1>5. QED
  BY <1>3, <1>4 DEF H, dels

(* tufops apply *)
LEMMA ApplyIsShaped ==
    ASSUME IInv, RInv, NEW e, NEW c \in Configs, Apply(e, c)
    PROVE  RInv'
<1> DEFINE head == ApplyConfig(main.repo, c, main.config, main.repo, now)
           intent == [p \in ListedPaths(main.repo) |-> {ListedTargets(main.repo)[p]}]
<1>1. IsCommit(main.repo, main.config) /\ Valid(main.config) /\ Valid(c) /\ now \in Nat
  BY ConfigsAssumption, LifecycleAssumption DEF IInv
<1>2. Succeeds(main.repo, head, c)
  BY <1>1, ApplySucceeds
<1>3. RegroupsAll(main.repo, head)
  BY <1>1, ApplyRegroups
<1>4. Start(e, "config", head, c, intent)
  BY DEF Apply
<1> HIDE DEF head, intent
<1>5. Shaped(main.repo, head)
  BY <1>3 DEF Shaped, Regroups, RegroupsAll
<1>6. QED
  BY <1>1, <1>2, <1>4, <1>5, StartIsShaped

(* tufops rm takes targets off every list.                                 *)
LEMMA RmIsShaped ==
    ASSUME IInv, RInv, NEW e, NEW paths, Rm(e, paths)
    PROVE  RInv'
<1> DEFINE head == RemoveTargets(main.repo, main.config, main.repo, paths, now)
           intent == [p \in paths |-> {}]
<1>1. IsCommit(main.repo, main.config) /\ Valid(main.config) /\ now \in Nat
  BY LifecycleAssumption DEF IInv
<1>2. Succeeds(main.repo, head, main.config)
  BY <1>1, SucceedsItself, RemoveSucceeds
<1>3. Follows(main.repo, main.config) /\ "targets" \in DOMAIN main.repo.files
  BY <1>1, RolesOfConfig DEF IsCommit, Follows
<1>4. /\ SameRoles(main.repo, head)
      /\ \A r \in TargetsRoles(main.repo) : \A p :
            Lists(head, r, p) <=> Lists(main.repo, r, p) /\ p \notin paths
  BY <1>3, RemoveHasContent
<1>5. Start(e, "rm", head, main.config, intent)
  BY DEF Rm
<1> HIDE DEF head, intent
<1>6. ASSUME NEW r \in TargetsRoles(head)
      PROVE  NoneMoved(main.repo, head, r, ListedBy(main.repo, r), TargetsOf(head, r))
  <2>1. \A x : x \in TargetsRoles(head) <=> x \in TargetsRoles(main.repo)
    BY <1>4 DEF SameRoles, TargetsRoles
  <2>2. ListedBy(main.repo, r) = TargetsOf(main.repo, r)
    BY <2>1 DEF ListedBy, TargetsRoles, Has
  <2>3. Came(main.repo, r, TargetsOf(main.repo, r), TargetsOf(head, r)) = {}
    BY <1>4, <2>1 DEF Came, Lists
  <2>4. ASSUME NEW p \in DOMAIN TargetsOf(main.repo, r) \ DOMAIN TargetsOf(head, r), NEW desc
        PROVE  ~IsElsewhere(head, r, p, desc)
    <3>1. p \in paths
      BY <1>4, <2>1, <2>4 DEF Lists
    <3>2. QED
      BY <1>4, <2>1, <3>1 DEF IsElsewhere, Listers, Lists
  <2>5. Left(head, r, TargetsOf(main.repo, r), TargetsOf(head, r)) = {}
    BY <2>4 DEF Left
  <2>6. QED
    BY <2>2, <2>3, <2>5 DEF NoneMoved
<1>7. Shaped(main.repo, head)
  BY <1>6 DEF Shaped, Unmoved
<1>8. QED
  BY <1>1, <1>2, <1>5, <1>7, StartIsShaped

(* tufops add lists a file that no role listed as it is, and with --delete  *)
(* takes targets off every list.                                           *)
LEMMA AddIsShaped ==
    ASSUME IInv, RInv, NEW e, NEW files, NEW dir, Add(e, files, dir)
    PROVE  RInv'
<1> DEFINE new == NewFiles(files)
           stale == Stale(files, dir)
           added == AddTargets(main.repo, main.config, main.repo, new, now)
           head == RemoveTargets(added, main.config, main.repo, stale, now)
           intent == [p \in DOMAIN new \cup stale |-> At(new, p)]
<1>1. IsCommit(main.repo, main.config) /\ Valid(main.config) /\ now \in Nat
  BY LifecycleAssumption DEF IInv
<1>2. Succeeds(main.repo, added, main.config)
  BY <1>1, SucceedsItself, AddSucceeds
<1>3. Succeeds(main.repo, head, main.config)
  BY <1>1, <1>2, RemoveSucceeds
<1>4. Start(e, "add", head, main.config, intent)
  BY DEF Add
<1>5. \A p \in DOMAIN new : At(ListedTargets(main.repo), p) # {new[p]}
  BY DEF NewFiles
<1> HIDE DEF new, stale, intent
<1>6. Follows(main.repo, main.config) /\ Follows(added, main.config)
  BY <1>1, <1>2 DEF IsCommit, Succeeds
<1>7. "targets" \in DOMAIN added.files
  BY <1>1, <1>6, RolesOfConfig DEF Follows
<1>8. /\ SameRoles(main.repo, added)
      /\ \A r \in TargetsRoles(main.repo) : \A p :
            /\ Lists(main.repo, r, p) => Lists(added, r, p)
            /\ Lists(added, r, p) /\ ~Lists(main.repo, r, p) =>
                  p \in DOMAIN new /\ TargetsOf(added, r)[p] = new[p]
  BY <1>1, <1>6, AddHasContent
<1> HIDE DEF added
<1>9. /\ SameRoles(added, head)
      /\ \A r \in TargetsRoles(added) : \A p :
            /\ Lists(head, r, p) <=> Lists(added, r, p) /\ p \notin stale
            /\ Lists(head, r, p) => TargetsOf(head, r)[p] = TargetsOf(added, r)[p]
  BY <1>6, <1>7, RemoveHasContent
<1> HIDE DEF head
<1>10. \A r : /\ r \in TargetsRoles(added) <=> r \in TargetsRoles(main.repo)
              /\ r \in TargetsRoles(head) <=> r \in TargetsRoles(main.repo)
  BY <1>8, <1>9 DEF SameRoles, TargetsRoles
<1>11. ASSUME AllAlike(main.repo), NEW r \in TargetsRoles(head)
       PROVE  NoneMoved(main.repo, head, r, ListedBy(main.repo, r), TargetsOf(head, r))
  <2>1. ListedBy(main.repo, r) = TargetsOf(main.repo, r)
    BY <1>10 DEF ListedBy, TargetsRoles, Has
  <2>2. ASSUME NEW p \in DOMAIN TargetsOf(head, r) \ DOMAIN TargetsOf(main.repo, r)
        PROVE  ~IsElsewhere(main.repo, r, p, TargetsOf(head, r)[p])
    <3>1. p \in DOMAIN new /\ TargetsOf(head, r)[p] = new[p]
      BY <1>8, <1>9, <1>10, <2>2 DEF Lists
    <3>2. ASSUME NEW l \in Listers(main.repo, p), TargetsOf(main.repo, l)[p] = new[p]
          PROVE  FALSE
      <4>1. p \in ListedPaths(main.repo)
        BY <3>2 DEF ListedPaths, Listers
      <4>2. Description(main.repo, Delegations(main.repo), p) = new[p]
        BY <1>11, <3>2, <4>1, DescriptionIsCommon DEF AllAlike
      <4>3. At(ListedTargets(main.repo), p) = {new[p]}
        BY <4>1, <4>2 DEF At, ListedTargets
      <4>4. QED
        BY <1>5, <3>1, <4>3
    <3>3. QED
      BY <3>1, <3>2 DEF IsElsewhere
  <2>3. Came(main.repo, r, TargetsOf(main.repo, r), TargetsOf(head, r)) = {}
    BY <2>2 DEF Came
  <2>4. ASSUME NEW p \in DOMAIN TargetsOf(main.repo, r) \ DOMAIN TargetsOf(head, r), NEW desc
        PROVE  ~IsElsewhere(head, r, p, desc)
    <3>1. p \in stale
      BY <1>8, <1>9, <1>10, <2>4 DEF Lists
    <3>2. QED
      BY <1>9, <1>10, <3>1 DEF IsElsewhere, Listers, Lists
  <2>5. Left(head, r, TargetsOf(main.repo, r), TargetsOf(head, r)) = {}
    BY <2>4 DEF Left
  <2>6. QED
    BY <2>1, <2>3, <2>5 DEF NoneMoved
<1>12. Shaped(main.repo, head)
  BY <1>11 DEF Shaped, Unmoved
<1>13. QED
  BY <1>1, <1>3, <1>4, <1>12, StartIsShaped

(* tufops sign *)
LEMMA SignIsShaped ==
    ASSUME IInv, RInv, NEW e \in DOMAIN events, NEW key, SignOffline(e, key)
    PROVE  RInv'
<1> DEFINE ev == events[e]
<1>1. PICK roles \in SUBSET Needs(ev.base, ev.head, key) :
         events' = [events EXCEPT ![e].head = Sign(ev.head, roles, key)]
  BY DEF SignOffline
<1> DEFINE head == Sign(ev.head, roles, key)
           new == [kind |-> ev.kind, base |-> ev.base, old |-> ev.old,
                   head |-> head, config |-> ev.config, intent |-> ev.intent]
<1>2. IsEvent(main.repo, ev) /\ Shaped(ev.base, ev.head)
  BY DEF IInv, RInv
<1>3. /\ "targets" \in DOMAIN ev.head.files
      /\ WellFormed(ev.head)
      /\ roles \subseteq DOMAIN ev.head.files
  <2>1. Succeeds(ev.base, ev.head, ev.config) /\ Valid(ev.config)
    BY <1>2 DEF IsEvent
  <2>2. roles \subseteq DOMAIN ev.head.files
    BY DEF Needs, StatusRoles, EventRoles
  <2>3. QED
    BY <2>1, <2>2, RolesOfConfig DEF Succeeds, Follows
<1>4. SameContent(ev.head, head)
  BY <1>3, SigningKeepsContent
<1> HIDE DEF head
<1>5. Shaped(ev.base, head)
  BY <1>2, <1>3, <1>4, ShapedStill
<1>6. [ev EXCEPT !.head = head] = new
  BY <1>2 DEF IsEvent
<1>7. \A n \in DOMAIN events' : \/ events'[n] = new
                                \/ /\ n \in DOMAIN events
                                   /\ events'[n] = events[n]
  BY <1>1, <1>6 DEF head
<1>8. new.base = ev.base /\ new.head = head
  OBVIOUS
<1> HIDE DEF new
<1>9. QED
  BY <1>5, <1>7, <1>8 DEF RInv

(* sign/refresh has some of the roles regrouped, by the same delegations.   *)
LEMMA RefreshIsShaped ==
    ASSUME NEW at, IsCommit(at.repo, at.config), Valid(at.config), now \in Nat
    PROVE  LET ev == RefreshOf(at, at)
           IN  ev.base = at.repo /\ Shaped(at.repo, ev.head)
<1> DEFINE N == Renewed(at)
           due == DueOffline(at)
           ev == RefreshOf(at, at)
           dels == ConfigDelegations(at.config)
<1>1. RegroupsAll(at.repo, N) /\ Delegations(N) = dels
  BY ApplyRegroups DEF Renewed
<1>2. /\ DOMAIN N.files = DOMAIN at.config.roles
      /\ DOMAIN at.repo.files = DOMAIN at.config.roles
      /\ Delegations(at.repo) = dels
      /\ "targets" \in DOMAIN at.config.roles
  <2>1. Succeeds(at.repo, N, at.config)
    BY ApplySucceeds DEF Renewed
  <2>2. QED
    BY <2>1, RolesOfConfig DEF Succeeds, Follows, IsCommit
<1>3. /\ \A r : r \in DOMAIN ev.head.files <=> r \in DOMAIN at.config.roles
      /\ \A r \in DOMAIN at.config.roles :
            ev.head.files[r] = IF r \in due THEN N.files[r] ELSE at.repo.files[r]
      /\ ev.base = at.repo
  <2> DEFINE W == WithRolesFrom(at.repo, N, due)
  <2>1. ev.base = at.repo /\ ev.head = [W EXCEPT !.history = Over(@, at.repo.history)]
    BY DEF RefreshOf
  <2>2. ev.head.files = W.files
    BY <2>1 DEF WithRolesFrom
  <2>3. W.files = [r \in (DOMAIN at.repo.files \ due) \cup (DOMAIN N.files \cap due) |->
                     IF r \in due THEN N.files[r] ELSE at.repo.files[r]]
    BY DEF WithRolesFrom
  <2> HIDE DEF W, ev, N, due
  <2>4. QED
    BY <1>2, <2>1, <2>2, <2>3
<1> HIDE DEF ev, N, due, dels
<1>4. Delegations(ev.head) = dels
  BY <1>1, <1>2, <1>3 DEF Delegations
<1>5. ASSUME NEW r \in TargetsRoles(ev.head)
      PROVE  \/ Has(at.repo, r) /\ TargetsOf(ev.head, r) = TargetsOf(at.repo, r)
             \/ TargetsOf(ev.head, r) = Regrouped(at.repo, Delegations(ev.head), r)
  <2>1. r \in DOMAIN at.config.roles /\ r \in TargetsRoles(N)
    BY <1>2, <1>3 DEF TargetsRoles
  <2>2. CASE r \in due
    <3>1. TargetsOf(ev.head, r) = TargetsOf(N, r)
      BY <1>3, <2>1, <2>2 DEF TargetsOf
    <3>2. TargetsOf(N, r) = Regrouped(at.repo, dels, r)
      BY <1>1, <2>1 DEF RegroupsAll
    <3>3. QED
      BY <1>4, <3>1, <3>2
  <2>3. CASE r \notin due
    BY <1>2, <1>3, <2>1, <2>3 DEF TargetsOf, Has
  <2>4. QED
    BY <2>2, <2>3
<1>6. Regroups(at.repo, ev.head)
  BY <1>2, <1>4, <1>5 DEF Regroups
<1>7. QED
  BY <1>3, <1>6 DEF Shaped, ev

(* Every step keeps it. *)
LEMMA NextRInv == IInv /\ RInv /\ [Next]_vars => RInv'
<1> SUFFICES ASSUME IInv, RInv, [Next]_vars
             PROVE  RInv'
  OBVIOUS
<1>1. ASSUME NEW e \in fresh, NEW c \in Configs, Apply(e, c)
      PROVE  RInv'
  BY <1>1, ApplyIsShaped
<1>2. ASSUME NEW e \in fresh, NEW files \in LocalFiles, NEW dir \in Directories, Add(e, files, dir)
      PROVE  RInv'
  BY <1>2, AddIsShaped
<1>3. ASSUME NEW e \in fresh, NEW paths \in SUBSET Paths, Rm(e, paths)
      PROVE  RInv'
  BY <1>3, RmIsShaped
<1>4. ASSUME NEW e \in DOMAIN events, NEW k \in Keys, SignOffline(e, k)
      PROVE  RInv'
  BY <1>4, SignIsShaped
<1>5. ASSUME NEW e \in DOMAIN events, Merge(e)
      PROVE  RInv'
  BY <1>5 DEF RInv, Merge
<1>6. ASSUME NEW e \in DOMAIN events, Abandon(e)
      PROVE  RInv'
  BY <1>6 DEF RInv, Abandon
<1>7. ASSUME NEW published \in BOOLEAN, CiRun(published)
      PROVE  RInv'
  <2> DEFINE at == [Tip EXCEPT !.repo = OnlineUpdated]
             new == RefreshOf(at, at)
  <2>1. /\ at = [repo |-> OnlineUpdated, config |-> main.config, previous |-> previous]
        /\ events' = events \/ events' = Over(Entry(RefreshEvent, new), events)
    BY <1>7, CiRunIs
  <2>2. IsCommit(OnlineUpdated, main.config) /\ Valid(main.config) /\ now \in Nat
    BY CiMakes, LifecycleAssumption DEF IInv
  <2>3. Shaped(new.base, new.head)
    <3> HIDE DEF at
    <3>1. at.repo = OnlineUpdated /\ at.config = main.config
      BY <2>1
    <3>2. QED
      BY <2>2, <3>1, RefreshIsShaped
  <2> HIDE DEF new, at
  <2>4. \A n \in DOMAIN events' : \/ events'[n] = new
                                  \/ /\ n \in DOMAIN events
                                     /\ events'[n] = events[n]
    BY <2>1, OverIs, EntryIs
  <2>5. QED
    BY <2>3, <2>4 DEF RInv
<1>8. CASE Tick \/ UNCHANGED vars
  BY <1>8 DEF RInv, Tick, vars
<1>9. QED
  BY <1>1, <1>2, <1>3, <1>4, <1>5, <1>6, <1>7, <1>8 DEF Next

(* Of two such events of one commit, or of an event and the commit itself,  *)
(* people are shown the same only if their contents are the same.          *)
LEMMA ReviewTellsApart ==
    ASSUME IInv, TInv, RInv, NEW ev \in Range(events), NEW other \in Alternatives(ev.base),
           \A p \in Paths : ListedAlike(ev.base, p),
           Review(ev.base, ev.head) = Review(ev.base, other)
    PROVE  /\ TargetsRoles(ev.head) = TargetsRoles(other)
           /\ \A r \in TargetsRoles(other) : TargetsOf(ev.head, r) = TargetsOf(other, r)
           /\ ev.head.files["root"].body = other.files["root"].body
           /\ ToSet(Delegations(ev.head)) = ToSet(Delegations(other))
           /\ \/ Delegations(ev.head) = Delegations(other)
              \/ AddsDelegations(ev.base, other)
<1> DEFINE base == ev.base
<1>1. ASSUME NEW x \in Range(events)
      PROVE  IsEvent(main.repo, x) /\ Shaped(x.base, x.head) /\ KnownRepo(x.base)
  <2>1. PICK e \in DOMAIN events : x = events[e]
    BY DEF Range
  <2>2. QED
    BY <2>1 DEF IInv, TInv, RInv, KnownEvent
<1>2. Follows(base, ev.old) /\ Valid(ev.old) /\ Follows(ev.head, ev.config) /\ Valid(ev.config)
  BY <1>1 DEF IsEvent, IsCommit, Succeeds
<1>3. ListedPaths(base) \subseteq Paths
  <2>1. KnownRepo(base)
    BY <1>1
  <2>2. QED
    BY <2>1 DEF KnownRepo, IsKnown, ListedPaths, TargetsRoles, TargetsOf
<1>4. AllAlike(base) /\ IsFiniteSet(ListedPaths(base))
  BY <1>3, FS_Subset, LifecycleAssumption DEF AllAlike
<1>5. Unmoved(base, ev.head) \/ Regroups(base, ev.head)
  BY <1>1, <1>4 DEF Shaped
<1>6. PICK c : Follows(other, c) /\ Valid(c) /\ (Unmoved(base, other) \/ Regroups(base, other))
  <2>1. CASE other = base
    BY <1>2, <2>1, ItselfUnmoved
  <2>2. CASE \E x \in Range(events) : x.base = base /\ other = x.head
    <3>1. PICK x \in Range(events) : x.base = base /\ other = x.head
      BY <2>2
    <3>2. Follows(other, x.config) /\ Valid(x.config)
      BY <1>1, <3>1 DEF IsEvent, Succeeds
    <3>3. Unmoved(base, other) \/ Regroups(base, other)
      BY <1>1, <1>4, <3>1 DEF Shaped
    <3>4. QED
      BY <3>2, <3>3
  <2>3. QED
    BY <2>1, <2>2 DEF Alternatives
<1> DEFINE head == ev.head
<1>7. Review(base, head) = Review(base, other)
  OBVIOUS
<1> HIDE DEF base, head
<1>8. /\ TargetsRoles(head) = TargetsRoles(other)
      /\ \A r \in TargetsRoles(other) : TargetsOf(head, r) = TargetsOf(other, r)
      /\ head.files["root"].body = other.files["root"].body
      /\ ToSet(Delegations(head)) = ToSet(Delegations(other))
      /\ \/ Delegations(head) = Delegations(other)
         \/ \E d \in ToSet(Delegations(other)) : Named(Delegations(base), d.name) = {}
  BY <1>2, <1>4, <1>5, <1>6, <1>7, ContentsTell DEF head
<1>9. QED
  BY <1>8 DEF AddsDelegations, base, head

(* ReviewTellsContentsApart: whoever signs an event is shown enough of it to *)
(* tell its targets, keys and delegations from those of main and of every  *)
(* other event from the same commit, if that commit's roles agree on what   *)
(* they list.                                                              *)
THEOREM ReviewsTell == Spec => []ReviewTellsContentsApart
<1>1. Init => RInv
  BY DEF Init, RInv
<1>2. IInv /\ TInv /\ RInv => ReviewTellsContentsApart
  BY ReviewTellsApart DEF ReviewTellsContentsApart
<1>3. QED
  BY <1>1, <1>2, InitIInv, NextIInv, InitTInv, NextTInv, NextRInv, PTL DEF Spec
================================================================================
