---------------------------- MODULE HistoryProofs ----------------------------
(***************************************************************************)
(* What publishing promises whatever has been published before and by      *)
(* whomever, because of how main goes on: main itself can be published,    *)
(* and objects that clients get to are never replaced. The proofs go by    *)
(* two more invariants of Publish, beside that of PublishProofs.           *)
(***************************************************************************)
EXTENDS PublishProofs

-------------------------------------------------------------------------------
(* Main's snapshot and timestamp may follow those of every commit it has    *)
(* had.                                                                    *)

\* No version that main's snapshot lists is yet to come.
RolesFollow == \A r \in DOMAIN main.roles : Listed(main, r) <= main.roles[r].version

TimestampFollows(c) ==
    /\ c.timestamp.version <= main.timestamp.version
    /\ c.timestamp.version = main.timestamp.version => c.timestamp = main.timestamp

\* What clients that have the snapshot of `c` ask of the next.
Extends(c, d) ==
    /\ d.snapshot.key = c.snapshot.key
    /\ \A r \in DOMAIN c.snapshot.meta :
          r \in DOMAIN d.snapshot.meta /\ d.snapshot.meta[r] >= c.snapshot.meta[r]

\* Since `c`, every root of main has had its key.
SameKeySince(c) == \A n \in c.root .. main.root : main.keys[n] = Key(c)

FollowsInv ==
    /\ RolesFollow
    /\ \A c \in commits : TimestampFollows(c) /\ (SameKeySince(c) => Extends(c, main))

\* The versions of a commit are numbers.
LEMMA Numbers ==
    ASSUME NEW c \in Commit
    PROVE  /\ c.root \in Nat \ {0}
           /\ c.timestamp.version \in Nat
           /\ \A r \in DOMAIN c.roles : c.roles[r].version \in Nat
           /\ \A r \in DOMAIN c.snapshot.meta : c.snapshot.meta[r] \in Nat
           /\ \A r : Listed(c, r) \in Nat
BY CommitFacts, SnapshotFacts, PublishAssumption DEF RoleMeta, Timestamp, Listed

\* It holds of the first commit.
LEMMA InitFollows == ASSUME Init PROVE FollowsInv
<1>1. main \in Commit /\ Verified(main) /\ commits = {main}
  BY InitInv DEF Init, IInv, TypeOK, HistoryInv
<1>2. RolesFollow
  BY <1>1, Numbers DEF RolesFollow, Verified
<1>3. TimestampFollows(main) /\ Extends(main, main)
  BY <1>1, Numbers DEF TimestampFollows, Extends
<1> QED  BY <1>1, <1>2, <1>3 DEF FollowsInv

(* When main goes on so that its new timestamp follows the one it had, and *)
(* its new snapshot too as long as the key is the same, the same holds of  *)
(* every commit before.                                                    *)
LEMMA FollowsGoOn ==
    ASSUME IInv, FollowsInv, main' \in Commit, Precedes(main, main'), RolesFollow',
           commits' = commits \cup {c \in {main'} : Verified(c)},
           main'.timestamp = main.timestamp
              \/ main'.timestamp.version > main.timestamp.version,
           main.snapshot.key = Key(main) /\ Key(main') = Key(main) => Extends(main, main')
    PROVE  FollowsInv'
<1>1. main \in Commit /\ commits \subseteq Commit /\ \A c \in commits : Precedes(c, main)
  BY DEF IInv, TypeOK, HistoryInv
<1>2. main.root \in Nat /\ main'.root \in Nat \ {0} /\ main.root <= main'.root
  BY <1>1, Numbers DEF Precedes
<1>3. ASSUME NEW c \in commits PROVE TimestampFollows(c)'
  <2>1. /\ c.timestamp.version \in Nat /\ main.timestamp.version \in Nat
        /\ main'.timestamp.version \in Nat
    BY <1>1, Numbers
  <2>2. TimestampFollows(c)
    BY DEF FollowsInv
  <2> QED  BY <2>1, <2>2 DEF TimestampFollows
<1>4. ASSUME NEW c \in commits, SameKeySince(c)' PROVE Extends(c, main')
  <2>1. c.root \in Nat /\ c.root <= main.root /\ c \in Commit
    BY <1>1, Numbers DEF Precedes
  <2>2. \A n \in c.root .. main'.root : main'.keys[n] = Key(c)
    BY <1>4 DEF SameKeySince, Key
  <2>3. \A n \in c.root .. main.root : main.keys[n] = main'.keys[n]
    <3>1. c.root \in 1 .. main.root
      BY <1>1, <1>2, <2>1, Numbers
    <3> QED  BY <1>2, <3>1 DEF Precedes
  <2>4. SameKeySince(c)
    BY <1>2, <2>1, <2>2, <2>3 DEF SameKeySince
  <2>5. Extends(c, main) /\ c.snapshot.key = Key(c)
    BY <2>4 DEF FollowsInv, IInv, HistoryInv, Verified
  <2>6. Key(main) = Key(c) /\ Key(main') = Key(c)
    BY <1>2, <2>1, <2>2, <2>4 DEF SameKeySince, Key
  <2>7. Extends(main, main')
    BY <2>5, <2>6 DEF Extends
  <2>8. /\ \A r \in DOMAIN c.snapshot.meta : c.snapshot.meta[r] \in Nat
        /\ \A r \in DOMAIN main.snapshot.meta : main.snapshot.meta[r] \in Nat
        /\ \A r \in DOMAIN main'.snapshot.meta : main'.snapshot.meta[r] \in Nat
    BY <1>1, <2>1, Numbers
  <2>9. ASSUME NEW r \in DOMAIN c.snapshot.meta
        PROVE  r \in DOMAIN main'.snapshot.meta /\ main'.snapshot.meta[r] >= c.snapshot.meta[r]
    <3>1. r \in DOMAIN main.snapshot.meta /\ main.snapshot.meta[r] >= c.snapshot.meta[r]
      BY <2>5 DEF Extends
    <3>2. r \in DOMAIN main'.snapshot.meta /\ main'.snapshot.meta[r] >= main.snapshot.meta[r]
      BY <2>7, <3>1 DEF Extends
    <3> QED  BY <2>8, <3>1, <3>2
  <2> QED  BY <2>5, <2>7, <2>9 DEF Extends
<1>5. TimestampFollows(main)' /\ Extends(main', main')
  BY Numbers DEF TimestampFollows, Extends
<1>6. \A c \in commits' : c \in commits \/ c = main'
  OBVIOUS
<1>7. \A c \in commits' : TimestampFollows(c)'
  BY <1>3, <1>5, <1>6 DEF TimestampFollows
<1>8. \A c \in commits' : SameKeySince(c)' => Extends(c, main')
  BY <1>4, <1>5, <1>6 DEF SameKeySince
<1> QED  BY <1>7, <1>8 DEF FollowsInv, Extends

\* A merged event leaves snapshot and timestamp alone.
LEMMA MergeFollows == ASSUME IInv, FollowsInv, Merge PROVE FollowsInv'
<1>1. main \in Commit /\ WellFormed(main) /\ main' \in Commit
  BY MergedType DEF IInv, TypeOK, HistoryInv
<1>2. MergesInto(main, main') /\ Precedes(main, main')
  BY <1>1, MergePrecedes DEF Merge
<1>3. /\ main'.snapshot = main.snapshot /\ main'.timestamp = main.timestamp
      /\ \A r : Listed(main', r) = Listed(main, r)
  BY <1>2 DEF MergesInto, Listed
<1>4. RolesFollow'
  <2> SUFFICES ASSUME NEW r \in DOMAIN main'.roles
               PROVE  Listed(main, r) <= main'.roles[r].version
    BY <1>3 DEF RolesFollow
  <2>1. Listed(main, r) \in Nat /\ main'.roles[r].version \in Nat
    BY <1>1, Numbers
  <2>2. CASE r \in DOMAIN main.roles
    <3>1. Listed(main, r) <= main.roles[r].version /\ main.roles[r].version \in Nat
      BY <1>1, <2>2, Numbers DEF FollowsInv, RolesFollow
    <3>2. \/ main'.roles[r] = main.roles[r]
          \/ main'.roles[r].version > main.roles[r].version
      BY <1>2, <2>2 DEF MergesInto, LastVersion
    <3> QED  BY <2>1, <3>1, <3>2
  <2>3. CASE r \notin DOMAIN main.roles
    BY <1>2, <2>1, <2>3 DEF MergesInto, LastVersion
  <2> QED  BY <2>2, <2>3
<1>5. Extends(main, main')
  BY <1>1, <1>3, Numbers DEF Extends
<1> QED  BY <1>1, <1>2, <1>3, <1>4, <1>5, FollowsGoOn DEF Merge

\* What a CI run adds to the snapshot only adds to it, as long as the key stays.
LEMMA OnlineFollows == ASSUME IInv, FollowsInv, Online PROVE FollowsInv'
<1>1. PICK renewed \in SUBSET DOMAIN main.roles, s \in BOOLEAN, t \in BOOLEAN :
           main' = OnlineUpdate(main, renewed, s, t)
  BY DEF Online
<1> DEFINE roles == Renewed(main, renewed)
           meta  == NewMeta(main, roles)
           snap  == NewSnapshot(main, roles, s)
<1>2. main \in Commit /\ WellFormed(main)
  BY DEF IInv, TypeOK, HistoryInv
<1>3. main' \in Commit /\ Precedes(main, main')
  BY <1>1, <1>2, OnlineType, UpdatePrecedes DEF Online
<1>4. /\ main'.roles = roles /\ main'.snapshot = snap
      /\ main'.timestamp = NewTimestamp(main, snap, t)
      /\ main'.root = main.root /\ main'.keys = main.keys
  BY <1>1, <1>2 DEF OnlineUpdate, Commit
<1>5. DOMAIN roles = DOMAIN main.roles
  BY DEF Renewed
<1>6. ASSUME NEW r \in DOMAIN main.roles
      PROVE  /\ roles[r].version \in Nat /\ roles[r].version >= main.roles[r].version
             /\ Listed(main, r) \in Nat /\ main.roles[r].version \in Nat
             /\ Listed(main, r) <= main.roles[r].version
  <2>1. main.roles[r] \in RoleMeta
    BY <1>2, CommitFacts
  <2>2. \/ roles[r] = main.roles[r]
        \/ roles[r].version = main.roles[r].version + 1
    BY <2>1 DEF Renewed, RoleMeta
  <2>3. Listed(main, r) \in Nat /\ Listed(main, r) <= main.roles[r].version
    BY <1>2, Numbers DEF FollowsInv, RolesFollow
  <2> QED  BY <2>1, <2>2, <2>3 DEF RoleMeta
<1>7. main'.timestamp = main.timestamp \/ main'.timestamp.version > main.timestamp.version
  BY <1>2, <1>4, Numbers DEF NewTimestamp
<1>8. snap = main.snapshot \/ snap.meta = meta
  BY DEF NewSnapshot
<1>9. \A r \in DOMAIN roles : r \in DOMAIN meta /\ meta[r] = roles[r].version
  BY DEF NewMeta
<1>10. RolesFollow'
  <2> SUFFICES ASSUME NEW r \in DOMAIN roles
               PROVE  Listed(main', r) <= roles[r].version
    BY <1>4 DEF RolesFollow
  <2>1. CASE snap = main.snapshot
    <3>1. Listed(main', r) = Listed(main, r)
      BY <1>4, <2>1 DEF Listed
    <3> QED  BY <1>5, <1>6, <3>1
  <2>2. CASE snap.meta = meta
    <3>1. Listed(main', r) = roles[r].version
      BY <1>4, <1>9, <2>2 DEF Listed
    <3> QED  BY <1>5, <1>6, <3>1
  <2> QED  BY <1>8, <2>1, <2>2
<1>11. ASSUME main.snapshot.key = Key(main) PROVE Extends(main, main')
  <2>1. snap.key = main.snapshot.key
    BY <1>11 DEF NewSnapshot
  <2>2. \A r \in DOMAIN main.snapshot.meta : main.snapshot.meta[r] \in Nat
    BY <1>2, Numbers
  <2>3. CASE snap = main.snapshot
    BY <1>4, <2>2, <2>3 DEF Extends
  <2>4. CASE snap.meta = meta
    <3> SUFFICES ASSUME NEW r \in DOMAIN main.snapshot.meta
                 PROVE  r \in DOMAIN meta /\ meta[r] >= main.snapshot.meta[r]
      BY <1>4, <2>1, <2>4 DEF Extends
    <3>1. r \in DOMAIN meta
      BY <1>11 DEF NewMeta
    <3>2. CASE r \in DOMAIN roles
      <4>1. Listed(main, r) = main.snapshot.meta[r]
        BY DEF Listed
      <4> QED  BY <1>5, <1>6, <1>9, <2>2, <3>2, <4>1
    <3>3. CASE r \notin DOMAIN roles
      <4>1. meta[r] = main.snapshot.meta[r]
        BY <3>1, <3>3 DEF NewMeta
      <4> QED  BY <2>2, <3>1, <4>1
    <3> QED  BY <3>2, <3>3
  <2> QED  BY <1>8, <2>3, <2>4
<1> QED  BY <1>3, <1>7, <1>10, <1>11, FollowsGoOn DEF Online

\* So does every step, since publishing leaves main alone.
LEMMA FollowsStep == ASSUME IInv, FollowsInv, [Next]_vars PROVE FollowsInv'
<1>1. CASE Merge
  BY <1>1, MergeFollows
<1>2. CASE Online
  BY <1>2, OnlineFollows
<1>3. CASE UNCHANGED <<main, commits>>
  BY <1>3 DEF FollowsInv, RolesFollow, TimestampFollows, SameKeySince, Extends, Listed, Key
<1> QED
  BY <1>1, <1>2, <1>3
  DEF Next, Step, vars, Upload, Begin, CheckTimestamp, CheckSnapshot, CheckTargets,
      Compare, PutObject, PutTimestamp, Finish, Abort

\* The invariant says enough for the checks of `publish`.
LEMMA FollowsAllow == ASSUME IInv, FollowsInv PROVE MainCanBePublished
<1> SUFFICES ASSUME Verified(main), timestamp # NoTimestamp
             PROVE  TimestampAllows(main) /\ (SnapshotAllows(main) \/ RotatedBack(main))
  BY DEF MainCanBePublished, TimestampAllows, SnapshotAllows
<1>1. PICK c \in commits : timestamp = c.timestamp /\ Names(c) \subseteq DOMAIN objects
  BY DEF IInv, StorageInv
<1>2. /\ c \in Commit /\ main \in Commit /\ Verified(c) /\ Precedes(c, main)
      /\ TimestampFollows(c)
  BY DEF IInv, TypeOK, HistoryInv, FollowsInv
<1>3. TimestampAllows(main)
  BY <1>1, <1>2, Numbers DEF TimestampAllows, TimestampFollows
<1>4. PublishedSnapshot = c.snapshot /\ <<"snapshot", timestamp.snapshot>> \in DOMAIN objects
  BY <1>1, <1>2, StoredIsOwn DEF Verified, PublishedSnapshot
<1>5. ASSUME c.snapshot.key = Key(main), ~RotatedBack(main) PROVE Extends(c, main)
  <2>1. Key(c) = Key(main) /\ c.root \in 1 .. main.root /\ main.keys[c.root] = Key(c)
    <3>1. Key(c) = Key(main)
      BY <1>2, <1>5 DEF Verified
    <3>2. /\ c.root \in Nat \ {0} /\ main.root \in Nat \ {0} /\ c.root <= main.root
          /\ \A n \in 1 .. c.root : c.keys[n] = main.keys[n]
      BY <1>2, Numbers DEF Precedes
    <3>3. c.root \in 1 .. main.root /\ c.root \in 1 .. c.root
      BY <3>2
    <3>4. main.keys[c.root] = Key(c)
      BY <3>2, <3>3 DEF Key
    <3> QED  BY <3>1, <3>3, <3>4
  <2>2. ASSUME NEW n \in c.root .. main.root PROVE main.keys[n] = Key(c)
    <3>1. main.root \in Nat /\ c.root \in Nat /\ n \in 1 .. main.root
      BY <1>2, <2>1, Numbers
    <3>2. CASE n = c.root
      BY <2>1, <3>2
    <3>3. CASE c.root < n
      BY <1>5, <2>1, <3>1, <3>3 DEF RotatedBack
    <3> QED  BY <3>1, <3>2, <3>3
  <2> QED  BY <2>2 DEF FollowsInv, SameKeySince
<1> QED  BY <1>3, <1>4, <1>5 DEF SnapshotAllows, Extends

(* Main passes `check_timestamp` and `check_snapshot` whenever it verifies *)
(* and whatever anyone has published, unless the snapshot key rotated away *)
(* from its own and back (publish.rs).                                     *)
THEOREM MainIsNotRefused == Spec => []MainCanBePublished
<1> QED  BY FollowsAllow, InitInv, StepInv, InitFollows, FollowsStep, PTL DEF Spec

-------------------------------------------------------------------------------
(* Versions of delegated roles are not used twice as long as the snapshot   *)
(* key has not rotated, because the snapshot goes on listing the roles that *)
(* were removed.                                                           *)

NeverRotated(c) == \A n \in 1 .. c.root : c.keys[n] = c.keys[1]

\* Main's snapshot is trusted and lists no role at a version yet to come.
MainLists ==
    /\ main.snapshot.key = Key(main)
    /\ \A r \in DOMAIN main.roles : Listed(main, r) <= main.roles[r].version

\* No role of a commit is newer than what main's snapshot lists, removed or not.
CommitsListed ==
    \A c \in commits : \A r \in DOMAIN c.roles :
        /\ c.roles[r].version <= Listed(main, r)
        /\ r \in DOMAIN main.roles /\ main.roles[r].version = c.roles[r].version
             => main.roles[r] = c.roles[r]

\* One version of a role has one content.
RolesOnce ==
    \A c, d \in commits : \A r \in DOMAIN c.roles \cap DOMAIN d.roles :
        c.roles[r].version = d.roles[r].version => c.roles[r] = d.roles[r]

ListsInv == NeverRotated(main) => MainLists /\ CommitsListed /\ RolesOnce

\* The versions of a commit are numbers.
LEMMA VersionTypes ==
    ASSUME NEW c \in Commit
    PROVE  /\ \A r \in DOMAIN c.roles : c.roles[r].version \in Nat
           /\ \A r \in DOMAIN c.snapshot.meta : c.snapshot.meta[r] \in Nat
           /\ \A r : Listed(c, r) \in Nat
BY CommitFacts, SnapshotFacts DEF RoleMeta, Listed

\* It holds of the first commit, with nothing published.
LEMMA InitLists == ASSUME Init PROVE ListsInv
<1>1. main \in Commit
  BY InitInv DEF IInv, TypeOK
<1>2. \A r \in DOMAIN main.roles : Listed(main, r) = main.roles[r].version
  BY InitInv DEF Init, IInv, HistoryInv, Verified
<1>3. commits = {main}
  BY DEF Init
<1>4. MainLists
  BY <1>1, <1>2, <1>3, InitInv, VersionTypes DEF MainLists, IInv, HistoryInv, Verified
<1>5. CommitsListed /\ RolesOnce
  BY <1>1, <1>2, <1>3, VersionTypes DEF CommitsListed, RolesOnce
<1> QED  BY <1>4, <1>5 DEF ListsInv

(* When main goes on to list at least what it listed, and what changed has *)
(* a version above that.                                                   *)
LEMMA ListsGoOn ==
    ASSUME IInv, MainLists, CommitsListed, RolesOnce, main' \in Commit, MainLists',
           commits' = commits \cup {c \in {main'} : Verified(c)},
           \A r \in Roles \cup {"targets"} : Listed(main, r) <= Listed(main', r),
           \A r \in DOMAIN main'.roles :
              \/ r \in DOMAIN main.roles /\ main'.roles[r] = main.roles[r]
              \/ main'.roles[r].version > Listed(main, r)
    PROVE  CommitsListed' /\ RolesOnce'
<1>1. /\ main \in Commit /\ commits \subseteq Commit
      /\ \A c \in commits : DOMAIN c.roles \subseteq Roles \cup {"targets"}
  BY CommitFacts DEF IInv, TypeOK, HistoryInv
<1>2. ASSUME NEW c \in commits, NEW r \in DOMAIN c.roles
      PROVE  /\ c.roles[r].version <= Listed(main', r)
             /\ r \in DOMAIN main'.roles /\ main'.roles[r].version = c.roles[r].version
                  => main'.roles[r] = c.roles[r]
  <2>1. /\ c.roles[r].version \in Nat /\ Listed(main, r) \in Nat /\ Listed(main', r) \in Nat
        /\ c.roles[r].version <= Listed(main, r) /\ Listed(main, r) <= Listed(main', r)
    BY <1>1, VersionTypes DEF CommitsListed
  <2>2. ASSUME r \in DOMAIN main'.roles, main'.roles[r].version = c.roles[r].version
        PROVE  main'.roles[r] = c.roles[r]
    <3>1. ~(main'.roles[r].version > Listed(main, r))
      BY <2>1, <2>2
    <3>2. r \in DOMAIN main.roles /\ main'.roles[r] = main.roles[r]
      BY <2>2, <3>1
    <3> QED  BY <2>2, <3>2 DEF CommitsListed
  <2> QED  BY <2>1, <2>2
<1>3. \A c \in commits' : c \in commits \/ (c = main' /\ Verified(main'))
  OBVIOUS
<1>4. ASSUME Verified(main'), NEW r \in DOMAIN main'.roles
      PROVE  main'.roles[r].version <= Listed(main', r)
  BY <1>4, VersionTypes DEF Verified
<1>5. CommitsListed'
  BY <1>2, <1>3, <1>4 DEF CommitsListed
<1>6. RolesOnce'
  <2> SUFFICES ASSUME NEW c \in commits', NEW d \in commits',
                      NEW r \in DOMAIN c.roles \cap DOMAIN d.roles,
                      c.roles[r].version = d.roles[r].version
               PROVE  c.roles[r] = d.roles[r]
    BY DEF RolesOnce
  <2>1. CASE c \in commits /\ d \in commits
    BY <2>1 DEF RolesOnce
  <2>2. CASE c = main' \/ d = main'
    BY <1>2, <1>3, <2>2
  <2> QED  BY <1>3, <2>1, <2>2
<1> QED  BY <1>5, <1>6

\* As long as the key has not rotated, root's key is that of its first version.
LEMMA SameKey ==
    ASSUME NEW c \in Commit, NeverRotated(c) PROVE Key(c) = c.keys[1]
BY CommitFacts DEF NeverRotated, Key

\* A rotation is not undone.
LEMMA RotationStays ==
    ASSUME NEW c \in Commit, NEW d \in Commit, Precedes(c, d), NeverRotated(d)
    PROVE  NeverRotated(c) /\ Key(c) = Key(d)
<1>1. c.root \in Nat \ {0} /\ d.root \in Nat \ {0} /\ c.root <= d.root
  BY CommitFacts DEF Precedes
<1>2. NeverRotated(c) /\ c.keys[1] = d.keys[1]
  BY <1>1 DEF Precedes, NeverRotated
<1> QED  BY <1>2, SameKey

\* A merged event keeps it: what it changes gets a version above the listed one.
LEMMA MergeLists == ASSUME IInv, ListsInv, Merge PROVE ListsInv'
<1> SUFFICES ASSUME NeverRotated(main)'
             PROVE  (MainLists /\ CommitsListed /\ RolesOnce)'
  BY DEF ListsInv
<1>1. main \in Commit /\ WellFormed(main) /\ main' \in Commit
  BY MergedType DEF IInv, TypeOK, HistoryInv
<1>2. MergesInto(main, main') /\ Precedes(main, main')
  BY <1>1, MergePrecedes DEF Merge
<1>3. NeverRotated(main) /\ Key(main) = Key(main')
  BY <1>1, <1>2, RotationStays
<1>4. main'.snapshot = main.snapshot /\ \A r : Listed(main', r) = Listed(main, r)
  BY <1>2 DEF MergesInto, Listed
<1>5. ASSUME NEW r \in DOMAIN main'.roles
      PROVE  \/ r \in DOMAIN main.roles /\ main'.roles[r] = main.roles[r]
             \/ main'.roles[r].version > Listed(main, r)
  <2>1. CASE r \in DOMAIN main.roles /\ main'.roles[r] # main.roles[r]
    <3>1. main'.roles[r].version > main.roles[r].version
      BY <1>2, <2>1 DEF MergesInto, LastVersion
    <3>2. main.roles[r].version >= Listed(main, r)
      BY <1>3, <2>1, <1>1, VersionTypes DEF ListsInv, MainLists
    <3> QED  BY <1>1, <2>1, <3>1, <3>2, VersionTypes
  <2>2. CASE r \notin DOMAIN main.roles
    BY <1>2, <2>2 DEF MergesInto, LastVersion
  <2> QED  BY <2>1, <2>2
<1>6. MainLists'
  <2>1. main'.snapshot.key = Key(main')
    BY <1>3, <1>4 DEF ListsInv, MainLists
  <2>2. ASSUME NEW r \in DOMAIN main'.roles
        PROVE  Listed(main', r) <= main'.roles[r].version
    BY <1>1, <1>3, <1>4, <1>5, VersionTypes DEF ListsInv, MainLists
  <2> QED  BY <2>1, <2>2 DEF MainLists
<1>7. \A r \in Roles \cup {"targets"} : Listed(main, r) <= Listed(main', r)
  BY <1>1, <1>4, VersionTypes
<1> QED  BY <1>1, <1>3, <1>5, <1>6, <1>7, ListsGoOn DEF ListsInv, Merge

\* A CI run keeps it: the new snapshot lists what the run renewed.
LEMMA OnlineLists == ASSUME IInv, ListsInv, Online PROVE ListsInv'
<1> SUFFICES ASSUME NeverRotated(main)'
             PROVE  (MainLists /\ CommitsListed /\ RolesOnce)'
  BY DEF ListsInv
<1>1. PICK renewed \in SUBSET DOMAIN main.roles, s \in BOOLEAN, t \in BOOLEAN :
           main' = OnlineUpdate(main, renewed, s, t)
  BY DEF Online
<1> DEFINE roles == Renewed(main, renewed)
           meta  == NewMeta(main, roles)
<1>2. main \in Commit /\ WellFormed(main)
  BY DEF IInv, TypeOK, HistoryInv
<1>3. main' \in Commit /\ Precedes(main, main')
  BY <1>1, <1>2, OnlineType, UpdatePrecedes DEF Online
<1>4. NeverRotated(main) /\ Key(main) = Key(main')
  BY <1>2, <1>3, RotationStays
<1>5. MainLists
  BY <1>4 DEF ListsInv
<1>6. main'.roles = roles /\ main'.snapshot = NewSnapshot(main, roles, s)
  BY <1>1, <1>2 DEF OnlineUpdate, Commit
<1>7. ASSUME NEW r \in DOMAIN main.roles
      PROVE  /\ r \in DOMAIN roles
             /\ \/ roles[r] = main.roles[r]
                \/ roles[r].version = main.roles[r].version + 1
             /\ roles[r].version \in Nat /\ main.roles[r].version \in Nat
  <2>1. main.roles[r] \in RoleMeta
    BY <1>2, CommitFacts
  <2> QED  BY <2>1 DEF Renewed, RoleMeta
<1>8. DOMAIN roles = DOMAIN main.roles
  BY DEF Renewed
<1>9. main'.snapshot.key = Key(main') /\ main'.snapshot.meta = meta
  BY <1>4, <1>5, <1>6 DEF NewSnapshot, MainLists
<1>10. ASSUME NEW r
       PROVE  Listed(main', r) = IF r \in DOMAIN roles THEN roles[r].version ELSE Listed(main, r)
  BY <1>5, <1>9 DEF Listed, NewMeta, MainLists
<1>11. MainLists'
  BY <1>3, <1>6, <1>9, <1>10, VersionTypes DEF MainLists
<1>12. \A r \in Roles \cup {"targets"} : Listed(main, r) <= Listed(main', r)
  BY <1>2, <1>5, <1>7, <1>8, <1>10, VersionTypes DEF MainLists
<1>13. \A r \in DOMAIN main'.roles :
          \/ r \in DOMAIN main.roles /\ main'.roles[r] = main.roles[r]
          \/ main'.roles[r].version > Listed(main, r)
  BY <1>2, <1>5, <1>6, <1>7, <1>8, VersionTypes DEF MainLists
<1> QED  BY <1>3, <1>4, <1>5, <1>11, <1>12, <1>13, ListsGoOn DEF ListsInv, Online

\* So does every step, since publishing leaves main alone.
LEMMA ListsStep == ASSUME IInv, ListsInv, [Next]_vars PROVE ListsInv'
<1>1. CASE Merge
  BY <1>1, MergeLists
<1>2. CASE Online
  BY <1>2, OnlineLists
<1>3. CASE UNCHANGED <<main, commits>>
  BY <1>3 DEF ListsInv, NeverRotated, MainLists, CommitsListed, RolesOnce, Listed, Key
<1> QED
  BY <1>1, <1>2, <1>3
  DEF Next, Step, vars, Upload, Begin, CheckTimestamp, CheckSnapshot, CheckTargets,
      Compare, PutObject, PutTimestamp, Finish, Abort

\* The content of a reachable object is that of every commit with its name.
LEMMA ReachableContent ==
    ASSUME IInv, timestamp # NoTimestamp
    PROVE  \E c \in commits :
              /\ PublishedSnapshot = c.snapshot
              /\ \A o \in {<<"snapshot", timestamp.snapshot>>}
                             \cup {PublishedName(r) : r \in RolesReached} :
                    o \in Names(c) /\ o \in DOMAIN objects /\ o[1] # "root"
<1>1. PICK c \in commits : timestamp = c.timestamp /\ Names(c) \subseteq DOMAIN objects
  BY DEF IInv, StorageInv
<1>2. /\ c \in Commit /\ WellFormed(c) /\ Verified(c)
      /\ "targets" \in DOMAIN c.roles
      /\ c.roles \in [DOMAIN c.roles -> RoleMeta]
      /\ DOMAIN c.roles \subseteq Roles \cup {"targets"}
  BY CommitFacts DEF IInv, HistoryInv
<1>3. PublishedSnapshot = c.snapshot /\ timestamp.snapshot = c.snapshot.version
  BY <1>1, <1>2, StoredIsOwn DEF Verified, PublishedSnapshot
<1>4. ASSUME NEW r \in DOMAIN c.roles
      PROVE  PublishedName(r) = <<r, c.roles[r].version>>
  <2>1. c.roles[r].version # 0
    BY <1>2 DEF RoleMeta
  <2> QED  BY <1>2, <1>3, <2>1 DEF Verified, Listed, PublishedName
<1>5. RolesReached = DOMAIN c.roles
  BY <1>1, <1>2, <1>4, StoredIsOwn DEF RolesReached, WellFormed
<1>6. "root" \notin DOMAIN c.roles
  BY <1>2, PublishAssumption
<1>7. ASSUME NEW o \in {<<"snapshot", timestamp.snapshot>>}
                          \cup {PublishedName(r) : r \in RolesReached}
      PROVE  o \in Names(c) /\ o[1] # "root"
  BY <1>3, <1>4, <1>5, <1>6, <1>7 DEF Names
<1> QED  BY <1>1, <1>3, <1>7

(* Whoever publishes what in whichever order, no object that clients get   *)
(* to is ever replaced, but for delegated roles after the snapshot key has *)
(* rotated (publish.rs, `metadata_objects`; repo.rs, `update`).            *)
THEOREM ObjectsStay == Spec => PublishedObjectsStay
<1>1. ASSUME IInv, ListsInv, [Next]_vars, timestamp # NoTimestamp,
             NEW o \in {<<"snapshot", timestamp.snapshot>>}
                          \cup {PublishedName(r) : r \in RolesReached},
             o[1] \in Roles => NeverRotated(main)
      PROVE  objects'[o] = objects[o]
  <2>1. o \in DOMAIN objects /\ o[1] # "root"
    BY <1>1, ReachableContent
  <2>2. PICK e \in commits : o \in Names(e) /\ objects[o] = Content(e, o)
    BY <1>1, <2>1 DEF IInv, StorageInv
  <2>3. ASSUME NEW p \in Publishers, PutObject(p) PROVE objects'[o] = objects[o]
    <3> DEFINE d == pub[p].release
    <3>1. PICK x \in pub[p].todo :
             objects' = [n \in DOMAIN objects \cup {x} |->
                           IF n = x THEN Content(d, x) ELSE objects[n]]
      BY <2>3 DEF PutObject
    <3>2. x \in Names(d) /\ d \in commits /\ d \in Commit /\ e \in Commit
      BY <1>1, <2>3 DEF PutObject, IInv, PublishersInv, HistoryInv
    <3>3. CASE x # o
      BY <2>1, <3>1, <3>3
    <3>4. CASE x = o
      <4>1. objects'[o] = Content(d, o)
        BY <3>1, <3>4
      <4>2. CASE o = <<"snapshot", d.snapshot.version>>
        <5>1. o = <<"snapshot", e.snapshot.version>>
          BY <2>2, <3>2, <4>2, NamesFacts
        <5>2. d.snapshot = e.snapshot
          BY <1>1, <3>2, <4>2, <5>1, SameVersionSame
        <5> QED  BY <2>2, <4>1, <4>2, <5>2 DEF Content
      <4>3. CASE /\ o[1] \in DOMAIN d.roles /\ o[1] \notin {"root", "snapshot"}
                 /\ o = <<o[1], d.roles[o[1]].version>>
        <5>1. o[1] \in DOMAIN e.roles /\ o = <<o[1], e.roles[o[1]].version>>
          BY <2>2, <3>2, <4>3, NamesFacts
        <5>2. d.roles[o[1]].version = e.roles[o[1]].version
          BY <4>3, <5>1
        <5>3. o[1] = "targets" \/ o[1] \in Roles
          BY <3>2, <4>3, CommitFacts
        <5>4. d.roles[o[1]] = e.roles[o[1]]
          BY <1>1, <3>2, <4>3, <5>1, <5>2, <5>3, SameVersionSame DEF ListsInv, RolesOnce
        <5> QED  BY <2>2, <4>1, <4>3, <5>4 DEF Content
      <4> QED  BY <2>1, <3>2, <3>4, <4>2, <4>3, NamesFacts
    <3> QED  BY <3>3, <3>4
  <2>4. CASE UNCHANGED objects
    BY <2>4
  <2> QED
    BY <1>1, <2>3, <2>4
    DEF Next, Step, vars, Merge, Online, Upload, Begin, CheckTimestamp, CheckSnapshot,
        CheckTargets, Compare, PutTimestamp, Finish, Abort
<1>2. IInv /\ ListsInv /\ [Next]_vars =>
        [timestamp # NoTimestamp =>
           \A o \in {<<"snapshot", timestamp.snapshot>>}
                       \cup {PublishedName(r) : r \in RolesReached} :
              \/ objects'[o] = objects[o]
              \/ o[1] \in Roles /\ \E n \in 1 .. main.root : main.keys[n] # main.keys[1]]_vars
  BY <1>1 DEF NeverRotated
<1> QED
  BY <1>2, InitInv, StepInv, InitLists, ListsStep, PTL DEF Spec, PublishedObjectsStay
===============================================================================
