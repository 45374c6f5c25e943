---------------------------- MODULE PublishProofs ----------------------------
(***************************************************************************)
(* Proofs about Publish, for all values of its constants: any number of    *)
(* publishers, roles, files and keys, and any bounds.                      *)
(***************************************************************************)
EXTENDS Publish, TLAPS

(* A commit is well formed: root's keys are those of its versions, and     *)
(* `targets` delegates to the other roles there are.                       *)
WellFormed(c) ==
    /\ DOMAIN c.keys = 1 .. c.root
    /\ c.roles["targets"].delegates = DOMAIN c.roles \ {"targets"}

(* Main went on from `c` to `d`: the roots of `c` are still there, and the *)
(* snapshot and `targets` have a higher version unless they are the same.  *)
(* Nothing of the kind holds of delegated roles: one that is removed, and  *)
(* added again after the snapshot key has rotated, starts over.            *)
Precedes(c, d) ==
    /\ c.root <= d.root
    /\ \A n \in 1 .. c.root : c.keys[n] = d.keys[n]
    /\ c.snapshot.version <= d.snapshot.version
    /\ c.snapshot.version = d.snapshot.version => c.snapshot = d.snapshot
    /\ c.roles["targets"].version <= d.roles["targets"].version
    /\ c.roles["targets"].version = d.roles["targets"].version
         => c.roles["targets"] = d.roles["targets"]

\* Main's history.
HistoryInv ==
    /\ WellFormed(main)
    /\ commits \subseteq Commit
    /\ \A c \in commits : WellFormed(c) /\ Verified(c) /\ Precedes(c, main)
    /\ \A c, d \in commits : Precedes(c, d) \/ Precedes(d, c)

(* What publishers hold: a commit, and once its targets have been checked, *)
(* one whose objects are in storage or still to be put there.              *)
PublishersInv ==
    \A p \in Publishers :
        LET c == pub[p].release
        IN  /\ pub[p].phase # "idle" => c \in commits
            /\ pub[p].phase \in {"compare", "upload"} => UploadsComplete(c)
            /\ pub[p].phase = "upload" =>
                  /\ pub[p].todo \subseteq Names(c)
                  /\ Names(c) \subseteq DOMAIN objects \cup pub[p].todo

(* What is in storage: every object is that of some commit, whose targets  *)
(* were complete, and the timestamp is that of a commit with all objects.  *)
StorageInv ==
    /\ \A o \in DOMAIN objects :
          /\ \E c \in commits : o \in Names(c) /\ objects[o] = Content(c, o)
          /\ o[1] \notin {"root", "snapshot"} => objects[o].files \subseteq uploads
    /\ timestamp # NoTimestamp =>
          \E c \in commits : timestamp = c.timestamp /\ Names(c) \subseteq DOMAIN objects

IInv == TypeOK /\ HistoryInv /\ PublishersInv /\ StorageInv

-------------------------------------------------------------------------------
(* Commits *)

\* What it means for a value to be a commit, without the unions.
LEMMA CommitFacts ==
    ASSUME NEW c \in Commit
    PROVE  /\ c.root \in 1 .. MaxRoot
           /\ \E n \in 1 .. MaxRoot : c.keys \in [1 .. n -> SnapshotKeys]
           /\ DOMAIN c.roles \subseteq Roles \cup {"targets"}
           /\ "targets" \in DOMAIN c.roles
           /\ c.roles \in [DOMAIN c.roles -> RoleMeta]
           /\ c.snapshot \in Snapshot
           /\ c.timestamp \in Timestamp
<1>1. PICK D \in SUBSET Roles : c.roles \in [D \cup {"targets"} -> RoleMeta]
  BY DEF Commit
<1>2. PICK n \in 1 .. MaxRoot : c.keys \in [1 .. n -> SnapshotKeys]
  BY DEF Commit
<1> QED  BY <1>1, <1>2 DEF Commit

\* What it means for a value to be a snapshot, without the union.
LEMMA SnapshotFacts ==
    ASSUME NEW s \in Snapshot
    PROVE  /\ s.version \in 1 .. MaxOnline
           /\ s.key \in SnapshotKeys
           /\ DOMAIN s.meta \subseteq Roles \cup {"targets"}
           /\ s.meta \in [DOMAIN s.meta -> 1 .. MaxVersion]
<1>1. PICK D \in SUBSET (Roles \cup {"targets"}) : s.meta \in [D -> 1 .. MaxVersion]
  BY DEF Snapshot
<1> QED  BY <1>1 DEF Snapshot

\* A commit that is put together from well-typed parts.
LEMMA IsCommit ==
    ASSUME NEW c, NEW n \in 1 .. MaxRoot, NEW keys \in [1 .. n -> SnapshotKeys],
           NEW D \in SUBSET Roles, NEW roles \in [D \cup {"targets"} -> RoleMeta],
           NEW root \in 1 .. MaxRoot, NEW snapshot \in Snapshot, NEW ts \in Timestamp,
           c = [root |-> root, keys |-> keys, roles |-> roles,
                snapshot |-> snapshot, timestamp |-> ts]
    PROVE  c \in Commit
<1>1. keys \in UNION {[1 .. m -> SnapshotKeys] : m \in 1 .. MaxRoot}
  OBVIOUS
<1>2. roles \in UNION {[E \cup {"targets"} -> RoleMeta] : E \in SUBSET Roles}
  OBVIOUS
<1> QED  BY <1>1, <1>2 DEF Commit

\* A snapshot that is put together from well-typed parts.
LEMMA IsSnapshot ==
    ASSUME NEW s, NEW D \in SUBSET (Roles \cup {"targets"}), NEW meta \in [D -> 1 .. MaxVersion],
           NEW version \in 1 .. MaxOnline, NEW key \in SnapshotKeys,
           s = [version |-> version, key |-> key, meta |-> meta]
    PROVE  s \in Snapshot
<1>1. meta \in UNION {[E -> 1 .. MaxVersion] : E \in SUBSET (Roles \cup {"targets"})}
  OBVIOUS
<1> QED  BY <1>1 DEF Snapshot

\* Every commit precedes itself, and preceding is transitive.
LEMMA PrecedesItself == ASSUME NEW c \in Commit PROVE Precedes(c, c)
BY CommitFacts, SnapshotFacts DEF Precedes, RoleMeta

\* A commit precedes what comes after a commit that it precedes.
LEMMA PrecedesTransitive ==
    ASSUME NEW c \in Commit, NEW d \in Commit, NEW e \in Commit,
           Precedes(c, d), Precedes(d, e)
    PROVE  Precedes(c, e)
<1>1. \A x \in Commit : /\ x.root \in Int
                        /\ x.snapshot.version \in Int
                        /\ x.roles["targets"].version \in Int
  BY CommitFacts, SnapshotFacts, PublishAssumption DEF RoleMeta
<1> QED  BY <1>1 DEF Precedes

-------------------------------------------------------------------------------
(* How main goes on *)

\* A merged event is a well-formed commit that main's last one precedes.
LEMMA MergePrecedes ==
    ASSUME NEW c \in Commit, NEW d \in Commit, WellFormed(c), MergesInto(c, d)
    PROVE  WellFormed(d) /\ Precedes(c, d)
<1>1. c.root \in Nat /\ d.root \in Nat /\ c.root <= d.root
  BY CommitFacts, PublishAssumption DEF MergesInto
<1>2. WellFormed(d)
  BY DEF MergesInto, WellFormed
<1>3. \A n \in 1 .. c.root : c.keys[n] = d.keys[n]
  BY DEF MergesInto
<1>4. /\ c.snapshot.version <= d.snapshot.version
      /\ c.snapshot = d.snapshot
  BY CommitFacts, SnapshotFacts DEF MergesInto
<1>5. /\ c.roles["targets"].version \in Nat
      /\ "targets" \in DOMAIN c.roles /\ "targets" \in DOMAIN d.roles
  BY CommitFacts DEF RoleMeta
<1>6. \/ d.roles["targets"] = c.roles["targets"]
      \/ d.roles["targets"].version > c.roles["targets"].version
  BY <1>5 DEF MergesInto, LastVersion
<1>7. d.roles["targets"].version \in Nat
  BY CommitFacts DEF RoleMeta
<1> QED  BY <1>1, <1>2, <1>3, <1>4, <1>5, <1>6, <1>7 DEF Precedes

\* So is what CI makes of it.
LEMMA UpdatePrecedes ==
    ASSUME NEW c \in Commit, WellFormed(c),
           NEW renewed \in SUBSET DOMAIN c.roles, NEW s \in BOOLEAN, NEW t \in BOOLEAN
    PROVE  LET d == OnlineUpdate(c, renewed, s, t)
           IN  WellFormed(d) /\ Precedes(c, d)
<1> DEFINE roles == Renewed(c, renewed)
           snap  == NewSnapshot(c, roles, s)
           d     == OnlineUpdate(c, renewed, s, t)
<1>1. /\ c.root \in Nat
      /\ c.snapshot.version \in Nat
      /\ "targets" \in DOMAIN c.roles
      /\ c.roles["targets"] \in RoleMeta
  BY CommitFacts, SnapshotFacts
<1>2. d.root = c.root /\ d.keys = c.keys /\ d.roles = roles /\ d.snapshot = snap
  BY DEF OnlineUpdate, Commit
<1>3. /\ DOMAIN roles = DOMAIN c.roles
      /\ roles["targets"].delegates = c.roles["targets"].delegates
      /\ \/ roles["targets"] = c.roles["targets"]
         \/ roles["targets"].version = c.roles["targets"].version + 1
  BY <1>1 DEF Renewed, RoleMeta
<1>4. snap = c.snapshot \/ snap.version = c.snapshot.version + 1
  BY DEF NewSnapshot
<1>5. WellFormed(d)
  BY <1>2, <1>3 DEF WellFormed
<1>6. Precedes(c, d)
  BY <1>1, <1>2, <1>3, <1>4 DEF Precedes, RoleMeta
<1> QED  BY <1>5, <1>6

\* The roles that CI renews are still targets roles, within the bounds.
LEMMA RenewedType ==
    ASSUME NEW c \in Commit, NEW renewed \in SUBSET DOMAIN c.roles,
           \A r \in DOMAIN c.roles : Renewed(c, renewed)[r].version <= MaxVersion
    PROVE  Renewed(c, renewed) \in [DOMAIN c.roles -> RoleMeta]
<1> SUFFICES ASSUME NEW r \in DOMAIN c.roles
             PROVE  Renewed(c, renewed)[r] \in RoleMeta
  BY DEF Renewed
<1>1. c.roles[r] \in RoleMeta
  BY CommitFacts
<1>2. CASE r \notin renewed
  BY <1>1, <1>2 DEF Renewed
<1>3. CASE r \in renewed
  <2>1. Renewed(c, renewed)[r] =
          [version |-> c.roles[r].version + 1,
           files |-> c.roles[r].files, delegates |-> c.roles[r].delegates]
    BY <1>1, <1>3 DEF Renewed, RoleMeta
  <2>2. c.roles[r].version + 1 \in 1 .. MaxVersion
    BY <1>1, <2>1, PublishAssumption DEF RoleMeta
  <2> QED  BY <1>1, <2>1, <2>2 DEF RoleMeta
<1> QED  BY <1>2, <1>3

\* The key that root lets sign the snapshot.
LEMMA KeyType == ASSUME NEW c \in Commit, WellFormed(c) PROVE Key(c) \in SnapshotKeys
BY CommitFacts DEF Key, WellFormed

\* So is the snapshot that lists them.
LEMMA NewSnapshotType ==
    ASSUME NEW c \in Commit, WellFormed(c), NEW roles \in [DOMAIN c.roles -> RoleMeta],
           NEW due \in BOOLEAN, NewSnapshot(c, roles, due).version <= MaxOnline
    PROVE  NewSnapshot(c, roles, due) \in Snapshot
<1> DEFINE meta == NewMeta(c, roles)
<1>1. c.snapshot \in Snapshot /\ Key(c) \in SnapshotKeys
  BY CommitFacts, KeyType
<1>2. c.snapshot.version + 1 \in Nat \ {0}
  BY <1>1, SnapshotFacts
<1>3. DOMAIN meta \subseteq Roles \cup {"targets"}
  BY <1>1, CommitFacts, SnapshotFacts DEF NewMeta
<1>4. meta \in [DOMAIN meta -> 1 .. MaxVersion]
  <2> SUFFICES ASSUME NEW r \in DOMAIN meta
               PROVE  meta[r] \in 1 .. MaxVersion
    BY DEF NewMeta
  <2>1. CASE r \in DOMAIN roles
    BY <2>1 DEF NewMeta, RoleMeta
  <2>2. CASE r \notin DOMAIN roles
    <3>1. r \in DOMAIN c.snapshot.meta /\ meta[r] = c.snapshot.meta[r]
      BY <2>2 DEF NewMeta
    <3> QED  BY <1>1, <3>1, SnapshotFacts
  <2> QED  BY <2>1, <2>2
<1>5. CASE NewSnapshot(c, roles, due) = c.snapshot
  BY <1>1, <1>5
<1>6. CASE NewSnapshot(c, roles, due) =
             [version |-> c.snapshot.version + 1, key |-> Key(c), meta |-> meta]
  <2>1. c.snapshot.version + 1 \in 1 .. MaxOnline
    BY <1>2, <1>6, PublishAssumption
  <2> HIDE DEF meta
  <2> QED  BY <1>1, <1>3, <1>4, <1>6, <2>1, IsSnapshot
<1> QED  BY <1>5, <1>6 DEF NewSnapshot

\* And the timestamp that lists the snapshot.
LEMMA NewTimestampType ==
    ASSUME NEW c \in Commit, NEW snapshot \in Snapshot, NEW due \in BOOLEAN,
           NewTimestamp(c, snapshot, due).version <= MaxOnline
    PROVE  NewTimestamp(c, snapshot, due) \in Timestamp
<1>1. c.timestamp \in Timestamp /\ snapshot.version \in 1 .. MaxOnline
  BY CommitFacts, SnapshotFacts
<1> QED  BY <1>1, PublishAssumption DEF NewTimestamp, Timestamp

\* What CI makes of a commit is one too.
LEMMA OnlineType ==
    ASSUME NEW c \in Commit, WellFormed(c),
           NEW renewed \in SUBSET DOMAIN c.roles, NEW s \in BOOLEAN, NEW t \in BOOLEAN,
           NEW d, d = OnlineUpdate(c, renewed, s, t),
           d.snapshot.version <= MaxOnline, d.timestamp.version <= MaxOnline,
           \A r \in DOMAIN d.roles : d.roles[r].version <= MaxVersion
    PROVE  d \in Commit
<1> DEFINE roles == Renewed(c, renewed)
           snap  == NewSnapshot(c, roles, s)
           ts    == NewTimestamp(c, snap, t)
<1>1. d = [root |-> c.root, keys |-> c.keys, roles |-> roles,
           snapshot |-> snap, timestamp |-> ts]
  BY DEF OnlineUpdate, Commit
<1>2. roles \in [DOMAIN c.roles -> RoleMeta]
  <2>1. DOMAIN roles = DOMAIN c.roles
    BY DEF Renewed
  <2> QED  BY <1>1, <2>1, RenewedType
<1>3. snap \in Snapshot
  <2> HIDE DEF roles
  <2> QED  BY <1>1, <1>2, NewSnapshotType
<1>4. ts \in Timestamp
  <2> HIDE DEF roles, snap
  <2> QED  BY <1>1, <1>3, NewTimestampType
<1> HIDE DEF roles, snap, ts
<1>5. PICK n \in 1 .. MaxRoot : c.keys \in [1 .. n -> SnapshotKeys]
  BY CommitFacts
<1>6. PICK D \in SUBSET Roles : DOMAIN c.roles = D \cup {"targets"}
  BY DEF Commit
<1> QED  BY <1>1, <1>2, <1>3, <1>4, <1>5, <1>6, CommitFacts, IsCommit

\* A merged event is a commit too.
LEMMA MergedType == ASSUME TypeOK, WellFormed(main), Merge PROVE main' \in Commit
<1>1. PICK D \in SUBSET Roles : \E changed \in SUBSET (D \cup {"targets"}) :
      \E new \in [changed -> SUBSET Files],
         root \in {main.root, main.root + 1}, key \in SnapshotKeys :
         /\ D \subseteq changed \cup DOMAIN main.roles
         /\ main' = MergedCommit(root, key, Bumped(D, new))
  BY DEF Merge
<1>1b. PICK changed \in SUBSET (D \cup {"targets"}) :
      \E new \in [changed -> SUBSET Files],
         root \in {main.root, main.root + 1}, key \in SnapshotKeys :
         /\ D \subseteq changed \cup DOMAIN main.roles
         /\ main' = MergedCommit(root, key, Bumped(D, new))
  BY <1>1
<1>2. PICK new \in [changed -> SUBSET Files],
           root \in {main.root, main.root + 1}, key \in SnapshotKeys :
         /\ D \subseteq changed \cup DOMAIN main.roles
         /\ main' = MergedCommit(root, key, Bumped(D, new))
  BY <1>1b
<1> DEFINE roles == Bumped(D, new)
           keys  == [n \in 1 .. root |-> IF n > main.root THEN key ELSE main.keys[n]]
<1>3. main \in Commit
  BY DEF TypeOK
<1>4. main' = [root |-> root, keys |-> keys, roles |-> roles,
               snapshot |-> main.snapshot, timestamp |-> main.timestamp]
  BY <1>2, <1>3 DEF MergedCommit, Commit
<1>5. root \in 1 .. MaxRoot
  BY <1>3, <1>4, CommitFacts, PublishAssumption DEF Merge
<1>6. keys \in [1 .. root -> SnapshotKeys]
  <2>1. main.keys \in [1 .. main.root -> SnapshotKeys] /\ main.root \in Nat
    BY <1>3, CommitFacts DEF WellFormed
  <2> QED  BY <1>5, <2>1
<1>7. roles \in [D \cup {"targets"} -> RoleMeta]
  <2> SUFFICES ASSUME NEW r \in D \cup {"targets"}
               PROVE  roles[r] \in RoleMeta
    BY DEF Bumped
  <2>1. roles[r].version <= MaxVersion
    BY <1>4 DEF Merge, Bumped
  <2>2. CASE r \in changed
    <3> DEFINE version == LastVersion(main, r) + 1
               delegates == IF r = "targets" THEN D ELSE {}
    <3>1. roles[r] = [version |-> version, files |-> new[r], delegates |-> delegates]
      BY <2>2 DEF Bumped
    <3>2. LastVersion(main, r) \in Nat
      <4>1. CASE r \in DOMAIN main.roles
        BY <1>3, <4>1, CommitFacts DEF LastVersion, RoleMeta
      <4>2. CASE r \notin DOMAIN main.roles
        BY <1>3, <4>2, CommitFacts, SnapshotFacts DEF LastVersion, Listed
      <4> QED  BY <4>1, <4>2
    <3>3. version \in 1 .. MaxVersion
      BY <2>1, <3>1, <3>2, PublishAssumption
    <3> HIDE DEF version
    <3> QED  BY <1>2, <2>2, <3>1, <3>3 DEF RoleMeta
  <2>3. CASE r \notin changed
    <3>1. r \in DOMAIN main.roles
      BY <1>2, <1>3, <2>3, CommitFacts
    <3> QED  BY <1>3, <2>3, <3>1, CommitFacts DEF Bumped
  <2> QED  BY <2>2, <2>3
<1> HIDE DEF roles, keys
<1> QED  BY <1>3, <1>4, <1>5, <1>6, <1>7, CommitFacts, IsCommit

-------------------------------------------------------------------------------
(* Objects *)

\* The name of an object tells its role and version.
LEMMA NamesFacts ==
    ASSUME NEW c \in Commit, NEW o \in Names(c)
    PROVE  /\ o \in ObjectNames
           /\ \/ o[1] = "root" /\ o[2] \in 1 .. c.root
              \/ o = <<"snapshot", c.snapshot.version>>
              \/ /\ o[1] \in DOMAIN c.roles
                 /\ o = <<o[1], c.roles[o[1]].version>>
                 /\ o[1] \notin {"root", "snapshot"}
<1>1. /\ c.root \in 1 .. MaxRoot
      /\ c.snapshot.version \in 1 .. MaxOnline
      /\ DOMAIN c.roles \subseteq Roles \cup {"targets"}
      /\ \A r \in DOMAIN c.roles : c.roles[r].version \in 1 .. MaxVersion
      /\ "root" \notin DOMAIN c.roles /\ "snapshot" \notin DOMAIN c.roles
  BY CommitFacts, SnapshotFacts, PublishAssumption DEF RoleMeta
<1>2. CASE \E n \in 1 .. c.root : o = <<"root", n>>
  BY <1>1, <1>2, PublishAssumption DEF ObjectNames
<1>3. CASE o = <<"snapshot", c.snapshot.version>>
  BY <1>1, <1>3 DEF ObjectNames
<1>4. CASE \E r \in DOMAIN c.roles : o = <<r, c.roles[r].version>>
  BY <1>1, <1>4 DEF ObjectNames
<1> QED  BY <1>2, <1>3, <1>4 DEF Names

\* The content of an object has the type that goes with its name.
ContentType(o, x) ==
    CASE o[1] = "root"     -> x \in SnapshotKeys
      [] o[1] = "snapshot" -> x \in Snapshot
      [] OTHER             -> x \in RoleMeta

\* The content of an object is what its role keeps in the commit.
LEMMA ContentFacts ==
    ASSUME NEW c \in Commit, WellFormed(c), NEW o \in Names(c)
    PROVE  ContentType(o, Content(c, o))
<1>1. CASE o[1] = "root" /\ o[2] \in 1 .. c.root
  BY <1>1, CommitFacts DEF ContentType, Content, WellFormed
<1>2. CASE o = <<"snapshot", c.snapshot.version>>
  BY <1>2, CommitFacts DEF ContentType, Content
<1>3. CASE o[1] \in DOMAIN c.roles /\ o[1] \notin {"root", "snapshot"}
  BY <1>3, CommitFacts DEF ContentType, Content
<1> QED  BY <1>1, <1>2, <1>3, NamesFacts

-------------------------------------------------------------------------------
(* The invariant *)

\* The invariant holds of the first commit and an idle publisher.
LEMMA InitInv == ASSUME Init PROVE IInv
<1>1. PICK D \in SUBSET Roles, f \in SUBSET Files, k \in SnapshotKeys :
         main = [root |-> 1, keys |-> [n \in 1 .. 1 |-> k],
                 roles |-> [r \in D \cup {"targets"} |->
                              [version |-> 1, files |-> f,
                               delegates |-> IF r = "targets" THEN D ELSE {}]],
                 snapshot |-> [version |-> 1, key |-> k,
                               meta |-> [r \in D \cup {"targets"} |-> 1]],
                 timestamp |-> [version |-> 1, snapshot |-> 1]]
  BY DEF Init
<1>2. main \in Commit
  <2>1. /\ 1 \in 1 .. MaxRoot /\ 1 \in 1 .. MaxVersion /\ 1 \in 1 .. MaxOnline
    BY PublishAssumption
  <2>2. [n \in 1 .. 1 |-> k] \in [1 .. 1 -> SnapshotKeys]
    OBVIOUS
  <2>3. [r \in D \cup {"targets"} |->
           [version |-> 1, files |-> f,
            delegates |-> IF r = "targets" THEN D ELSE {}]]
          \in [D \cup {"targets"} -> RoleMeta]
    BY <2>1 DEF RoleMeta
  <2>4. [version |-> 1, key |-> k, meta |-> [r \in D \cup {"targets"} |-> 1]] \in Snapshot
    <3>1. [r \in D \cup {"targets"} |-> 1] \in [D \cup {"targets"} -> 1 .. MaxVersion]
      BY <2>1
    <3>2. D \cup {"targets"} \in SUBSET (Roles \cup {"targets"})
      OBVIOUS
    <3> QED  BY <2>1, <3>1, <3>2, IsSnapshot
  <2>5. [version |-> 1, snapshot |-> 1] \in Timestamp
    BY <2>1 DEF Timestamp
  <2> QED  BY <1>1, <2>1, <2>2, <2>3, <2>4, <2>5, IsCommit
<1>3. TypeOK
  BY <1>2 DEF Init, TypeOK, Idle, Phases
<1>4. WellFormed(main)
  <2>1. "targets" \notin Roles
    BY PublishAssumption
  <2> QED  BY <1>1, <2>1 DEF WellFormed
<1>5. Verified(main)
  BY <1>1 DEF Verified, Key, Listed
<1>6. HistoryInv
  BY <1>2, <1>4, <1>5, PrecedesItself DEF Init, HistoryInv
<1>7. PublishersInv /\ StorageInv
  BY DEF Init, PublishersInv, StorageInv, Idle
<1> QED  BY <1>3, <1>6, <1>7 DEF IInv

(* Main goes on, by a merge or a CI run: what is held and stored is still  *)
(* of its history.                                                         *)
LEMMA MainGoesOn ==
    ASSUME IInv, main' \in Commit, WellFormed(main'), Precedes(main, main'),
           commits' = commits \cup {c \in {main'} : Verified(c)},
           UNCHANGED <<timestamp, objects, uploads, pub>>
    PROVE  IInv'
<1>1. TypeOK'
  BY DEF IInv, TypeOK
<1>2. HistoryInv'
  <2>1. main \in Commit /\ commits \subseteq Commit
    BY DEF IInv, TypeOK, HistoryInv
  <2>2. \A c \in commits : Precedes(c, main')
    BY <2>1, PrecedesTransitive DEF IInv, HistoryInv
  <2>3. Precedes(main', main')
    BY PrecedesItself
  <2>4. \A c \in commits' : c \in commits \/ (c = main' /\ Verified(c))
    OBVIOUS
  <2>5. commits' \subseteq Commit
    BY <2>1, <2>4
  <2>6. \A c \in commits' : WellFormed(c) /\ Verified(c) /\ Precedes(c, main')
    BY <2>2, <2>3, <2>4 DEF IInv, HistoryInv
  <2>7. \A c, d \in commits' : Precedes(c, d) \/ Precedes(d, c)
    BY <2>2, <2>3, <2>4 DEF IInv, HistoryInv
  <2> QED  BY <2>5, <2>6, <2>7 DEF HistoryInv
<1>3. PublishersInv'
  BY DEF IInv, PublishersInv, UploadsComplete
<1>4. StorageInv'
  BY DEF IInv, StorageInv
<1> QED  BY <1>1, <1>2, <1>3, <1>4 DEF IInv

(* A step of a publisher that only moves on: to another phase, or to the   *)
(* next run.                                                               *)
LEMMA OnlyPubChanges ==
    ASSUME IInv, NEW p \in Publishers, NEW q,
           pub' = [pub EXCEPT ![p] = q],
           q \in [phase : Phases, release : Commit \cup {NoRelease},
                  todo : SUBSET ObjectNames, last : BOOLEAN],
           q.phase # "idle" => q.release \in commits,
           q.phase \in {"compare", "upload"} => UploadsComplete(q.release),
           q.phase # "upload" => q.todo = {} /\ ~q.last,
           q.phase = "upload" =>
              /\ q.todo \subseteq Names(q.release)
              /\ Names(q.release) \subseteq DOMAIN objects \cup q.todo,
           UNCHANGED <<main, commits, timestamp, objects, uploads>>
    PROVE  IInv'
<1>1. pub'[p] = q /\ \A x \in Publishers \ {p} : pub'[x] = pub[x]
  BY DEF IInv, TypeOK
<1>2. TypeOK'
  BY <1>1 DEF IInv, TypeOK, HistoryInv
<1>3. HistoryInv'
  BY DEF IInv, HistoryInv
<1>4. PublishersInv'
  <2> SUFFICES ASSUME NEW x \in Publishers
               PROVE  LET c == pub'[x].release
                      IN  /\ pub'[x].phase # "idle" => c \in commits
                          /\ pub'[x].phase \in {"compare", "upload"} => UploadsComplete(c)
                          /\ pub'[x].phase = "upload" =>
                                /\ pub'[x].todo \subseteq Names(c)
                                /\ Names(c) \subseteq DOMAIN objects \cup pub'[x].todo
    BY DEF PublishersInv, UploadsComplete
  <2>1. CASE x = p
    BY <1>1, <2>1
  <2>2. CASE x # p
    BY <1>1, <2>2 DEF IInv, PublishersInv
  <2> QED  BY <2>1, <2>2
<1>5. StorageInv'
  BY DEF IInv, StorageInv
<1> QED  BY <1>2, <1>3, <1>4, <1>5 DEF IInv

\* Every step keeps the invariant.
LEMMA StepInv == ASSUME IInv, [Next]_vars PROVE IInv'
<1>1. /\ TypeOK /\ HistoryInv /\ PublishersInv /\ StorageInv
      /\ main \in Commit /\ WellFormed(main)
      /\ \A c \in commits : c \in Commit /\ WellFormed(c)
  BY DEF IInv, TypeOK, HistoryInv
<1>2. ASSUME NEW p \in Publishers
      PROVE  /\ pub[p] \in [phase : Phases, release : Commit \cup {NoRelease},
                            todo : SUBSET ObjectNames, last : BOOLEAN]
             /\ pub[p].phase # "idle" => pub[p].release \in commits
             /\ pub[p].phase # "upload" => pub[p].todo = {} /\ ~pub[p].last
             /\ pub[p].phase \in {"compare", "upload"} => UploadsComplete(pub[p].release)
             /\ pub[p].phase = "upload" =>
                   /\ pub[p].todo \subseteq Names(pub[p].release)
                   /\ Names(pub[p].release) \subseteq DOMAIN objects \cup pub[p].todo
  BY <1>1 DEF TypeOK, PublishersInv
<1>3. CASE Merge
  <2>1. main' \in Commit
    BY <1>1, <1>3, MergedType
  <2>2. MergesInto(main, main')
    BY <1>3 DEF Merge
  <2>3. WellFormed(main') /\ Precedes(main, main')
    BY <1>1, <2>1, <2>2, MergePrecedes
  <2> QED  BY <1>3, <2>1, <2>3, MainGoesOn DEF Merge
<1>4. CASE Online
  <2>1. PICK renewed \in SUBSET DOMAIN main.roles, s \in BOOLEAN, t \in BOOLEAN :
             main' = OnlineUpdate(main, renewed, s, t)
    BY <1>4 DEF Online
  <2>2. main' \in Commit
    BY <1>1, <1>4, <2>1, OnlineType DEF Online
  <2>3. WellFormed(main') /\ Precedes(main, main')
    BY <1>1, <2>1, UpdatePrecedes
  <2> QED  BY <1>4, <2>2, <2>3, MainGoesOn DEF Online
<1>5. CASE Upload
  <2>1. uploads \subseteq uploads' /\ uploads' \subseteq Files
    BY <1>1, <1>5 DEF Upload, TypeOK
  <2>2. TypeOK'
    BY <1>1, <1>5, <2>1 DEF Upload, TypeOK
  <2>3. HistoryInv'
    BY <1>1, <1>5 DEF Upload, HistoryInv
  <2>4. PublishersInv'
    BY <1>1, <1>5, <2>1 DEF Upload, PublishersInv, UploadsComplete
  <2>5. StorageInv'
    BY <1>1, <1>5, <2>1 DEF Upload, StorageInv
  <2> QED  BY <2>2, <2>3, <2>4, <2>5 DEF IInv
<1>6. ASSUME NEW p \in Publishers, Begin(p) PROVE IInv'
  <2>1. PICK c \in commits :
          pub' = [pub EXCEPT ![p] = [phase |-> "timestamp", release |-> c,
                                     todo |-> {}, last |-> FALSE]]
    BY <1>6 DEF Begin
  <2> DEFINE q == [phase |-> "timestamp", release |-> c, todo |-> {}, last |-> FALSE]
  <2>2. q \in [phase : Phases, release : Commit \cup {NoRelease},
               todo : SUBSET ObjectNames, last : BOOLEAN]
    BY <1>1 DEF Phases
  <2> QED  BY <1>6, <2>1, <2>2, OnlyPubChanges DEF Begin
<1>7. ASSUME NEW p \in Publishers, CheckTimestamp(p) PROVE IInv'
  <2> DEFINE q == [pub[p] EXCEPT !.phase = "snapshot"]
  <2>1. pub' = [pub EXCEPT ![p] = q]
    BY <1>7 DEF CheckTimestamp, Goto
  <2> QED  BY <1>2, <1>7, <2>1, OnlyPubChanges DEF CheckTimestamp, Phases
<1>8. ASSUME NEW p \in Publishers, CheckSnapshot(p) PROVE IInv'
  <2> DEFINE q == [pub[p] EXCEPT !.phase = "targets"]
  <2>1. pub' = [pub EXCEPT ![p] = q]
    BY <1>8 DEF CheckSnapshot, Goto
  <2> QED  BY <1>2, <1>8, <2>1, OnlyPubChanges DEF CheckSnapshot, Phases
<1>9. ASSUME NEW p \in Publishers, CheckTargets(p) PROVE IInv'
  <2> DEFINE q == [pub[p] EXCEPT !.phase = "compare"]
  <2>1. pub' = [pub EXCEPT ![p] = q]
    BY <1>9 DEF CheckTargets, Goto
  <2> QED  BY <1>2, <1>9, <2>1, OnlyPubChanges DEF CheckTargets, Phases
<1>10. ASSUME NEW p \in Publishers, Compare(p) PROVE IInv'
  <2> DEFINE c == pub[p].release
             q == [phase |-> "upload", release |-> c, todo |-> Differing(c),
                   last |-> timestamp # c.timestamp]
  <2>1. pub' = [pub EXCEPT ![p] = q]
    BY <1>10 DEF Compare
  <2>2. c \in commits /\ c \in Commit /\ UploadsComplete(c)
    BY <1>1, <1>2, <1>10 DEF Compare
  <2>3. Differing(c) \subseteq Names(c) /\ Names(c) \subseteq DOMAIN objects \cup Differing(c)
    BY DEF Differing
  <2>4. q \in [phase : Phases, release : Commit \cup {NoRelease},
               todo : SUBSET ObjectNames, last : BOOLEAN]
    BY <2>2, <2>3, NamesFacts DEF Phases
  <2> QED  BY <1>10, <2>1, <2>2, <2>3, <2>4, OnlyPubChanges DEF Compare
<1>11. ASSUME NEW p \in Publishers, PutTimestamp(p) PROVE IInv'
  <2> DEFINE c == pub[p].release
  <2>1. c \in commits /\ c \in Commit /\ Names(c) \subseteq DOMAIN objects
    BY <1>1, <1>2, <1>11 DEF PutTimestamp
  <2>2. /\ \A x \in Publishers : /\ pub'[x].phase = pub[x].phase
                                 /\ pub'[x].release = pub[x].release
                                 /\ pub'[x].todo = pub[x].todo
        /\ pub' \in [Publishers -> [phase : Phases, release : Commit \cup {NoRelease},
                                    todo : SUBSET ObjectNames, last : BOOLEAN]]
        /\ \A x \in Publishers : pub'[x].last => pub[x].last
    BY <1>1, <1>11 DEF PutTimestamp, TypeOK
  <2>3. TypeOK'
    BY <1>1, <1>11, <2>1, <2>2, CommitFacts DEF PutTimestamp, TypeOK
  <2>4. HistoryInv'
    BY <1>1, <1>11 DEF PutTimestamp, HistoryInv
  <2>5. PublishersInv'
    BY <1>1, <1>11, <2>2 DEF PutTimestamp, PublishersInv, UploadsComplete
  <2>6. StorageInv'
    BY <1>1, <1>11, <2>1 DEF PutTimestamp, StorageInv
  <2> QED  BY <2>3, <2>4, <2>5, <2>6 DEF IInv
<1>12. ASSUME NEW p \in Publishers, Finish(p) \/ Abort(p) PROVE IInv'
  <2>1. Idle \in [phase : Phases, release : Commit \cup {NoRelease},
                  todo : SUBSET ObjectNames, last : BOOLEAN]
    BY DEF Idle, Phases
  <2> QED  BY <1>12, <2>1, OnlyPubChanges DEF Finish, Abort, Idle
<1>13. ASSUME NEW p \in Publishers, PutObject(p) PROVE IInv'
  <2> DEFINE c == pub[p].release
  <2>1. PICK o \in pub[p].todo :
         /\ objects' = [n \in DOMAIN objects \cup {o} |->
                          IF n = o THEN Content(c, o) ELSE objects[n]]
         /\ pub' = [pub EXCEPT ![p].todo = @ \ {o}]
    BY <1>13 DEF PutObject
  <2>2. c \in commits /\ c \in Commit /\ WellFormed(c) /\ UploadsComplete(c) /\ o \in Names(c)
    BY <1>1, <1>2, <1>13 DEF PutObject
  <2>3. /\ DOMAIN objects' = DOMAIN objects \cup {o}
        /\ objects'[o] = Content(c, o)
        /\ \A n \in DOMAIN objects \ {o} : objects'[n] = objects[n]
    BY <2>1
  <2>4. UNCHANGED <<main, commits, timestamp, uploads>>
    BY <1>13 DEF PutObject
  <2>5. /\ pub' \in [Publishers -> [phase : Phases, release : Commit \cup {NoRelease},
                                    todo : SUBSET ObjectNames, last : BOOLEAN]]
        /\ \A x \in Publishers : /\ pub'[x].phase = pub[x].phase
                                 /\ pub'[x].release = pub[x].release
                                 /\ pub'[x].last = pub[x].last
                                 /\ pub'[x].todo \subseteq pub[x].todo
                                 /\ pub[x].todo \subseteq pub'[x].todo \cup {o}
    BY <1>1, <2>1 DEF TypeOK
  <2>6. TypeOK'
    <3>1. ContentType(o, Content(c, o)) /\ o \in ObjectNames
      BY <2>2, ContentFacts, NamesFacts
    <3>2. \A n \in DOMAIN objects' : n \in ObjectNames /\ ContentType(n, objects'[n])
      BY <1>1, <2>3, <3>1 DEF TypeOK, ContentType
    <3>3. \A x \in Publishers :
             /\ pub'[x].phase # "idle" => pub'[x].release \in Commit
             /\ pub'[x].phase # "upload" => pub'[x].todo = {} /\ ~pub'[x].last
      BY <1>1, <2>5 DEF TypeOK
    <3> QED  BY <1>1, <2>4, <2>5, <3>2, <3>3 DEF TypeOK, ContentType
  <2>7. HistoryInv'
    BY <1>1, <2>4 DEF HistoryInv
  <2>8. PublishersInv'
    BY <1>1, <2>3, <2>4, <2>5 DEF PublishersInv, UploadsComplete
  <2>9. StorageInv'
    <3>1. ASSUME NEW n \in DOMAIN objects'
          PROVE  /\ \E d \in commits : n \in Names(d) /\ objects'[n] = Content(d, n)
                 /\ n[1] \notin {"root", "snapshot"} => objects'[n].files \subseteq uploads
      <4>1. CASE n # o
        BY <1>1, <2>3, <3>1, <4>1 DEF StorageInv
      <4>2. CASE n = o
        <5>1. n[1] \notin {"root", "snapshot"} =>
                 n[1] \in DOMAIN c.roles /\ objects'[n] = c.roles[n[1]]
          BY <2>2, <2>3, <4>2, NamesFacts DEF Content
        <5> QED  BY <2>2, <2>3, <4>2, <5>1 DEF UploadsComplete
      <4> QED  BY <4>1, <4>2
    <3> QED  BY <1>1, <2>3, <2>4, <3>1 DEF StorageInv
  <2> QED  BY <2>6, <2>7, <2>8, <2>9 DEF IInv
<1>14. CASE UNCHANGED vars
  <2>1. TypeOK' /\ HistoryInv'
    BY <1>1, <1>14 DEF vars, TypeOK, HistoryInv
  <2>2. PublishersInv' /\ StorageInv'
    BY <1>1, <1>14 DEF vars, PublishersInv, StorageInv, UploadsComplete
  <2> QED  BY <2>1, <2>2 DEF IInv
<1> QED
  BY <1>3, <1>4, <1>5, <1>6, <1>7, <1>8, <1>9, <1>10, <1>11, <1>12, <1>13, <1>14
  DEF Next, Step

-------------------------------------------------------------------------------
(* What follows from it *)

\* Snapshots of one version are the same, and so are `targets` of one version.
LEMMA SameVersionSame ==
    ASSUME IInv, NEW c \in commits, NEW d \in commits
    PROVE  /\ c.snapshot.version = d.snapshot.version => c.snapshot = d.snapshot
           /\ c.roles["targets"].version = d.roles["targets"].version
                => c.roles["targets"] = d.roles["targets"]
           /\ \A n \in (1 .. c.root) \cap (1 .. d.root) : c.keys[n] = d.keys[n]
BY DEF IInv, HistoryInv, Precedes

\* The stored snapshot, `targets` and roots of a commit are its own.
LEMMA StoredIsOwn ==
    ASSUME IInv, NEW c \in commits, Names(c) \subseteq DOMAIN objects
    PROVE  /\ <<"snapshot", c.snapshot.version>> \in DOMAIN objects
           /\ objects[<<"snapshot", c.snapshot.version>>] = c.snapshot
           /\ objects[<<"targets", c.roles["targets"].version>>] = c.roles["targets"]
           /\ \A n \in 1 .. c.root :
                 <<"root", n>> \in DOMAIN objects /\ objects[<<"root", n>>] = c.keys[n]
<1> DEFINE Stored(o) == \E d \in commits : o \in Names(d) /\ objects[o] = Content(d, o)
<1>1. /\ c \in Commit /\ commits \subseteq Commit
      /\ "targets" \in DOMAIN c.roles
      /\ \A o \in DOMAIN objects : Stored(o)
  BY CommitFacts DEF IInv, HistoryInv, StorageInv
<1>2. /\ <<"snapshot", c.snapshot.version>> \in DOMAIN objects
      /\ objects[<<"snapshot", c.snapshot.version>>] = c.snapshot
  <2> DEFINE o == <<"snapshot", c.snapshot.version>>
  <2>1. o \in DOMAIN objects
    BY DEF Names
  <2>2. PICK d \in commits : o \in Names(d) /\ objects[o] = Content(d, o)
    BY <1>1, <2>1
  <2>3. d.snapshot.version = c.snapshot.version
    BY <1>1, <2>2, NamesFacts
  <2> QED  BY <2>1, <2>2, <2>3, SameVersionSame DEF Content
<1>3. objects[<<"targets", c.roles["targets"].version>>] = c.roles["targets"]
  <2> DEFINE o == <<"targets", c.roles["targets"].version>>
  <2>1. o \in DOMAIN objects
    BY <1>1 DEF Names
  <2>2. PICK d \in commits : o \in Names(d) /\ objects[o] = Content(d, o)
    BY <1>1, <2>1
  <2>3. d.roles["targets"].version = c.roles["targets"].version
    BY <1>1, <2>2, NamesFacts
  <2> QED  BY <2>2, <2>3, SameVersionSame DEF Content
<1>4. ASSUME NEW n \in 1 .. c.root
      PROVE  <<"root", n>> \in DOMAIN objects /\ objects[<<"root", n>>] = c.keys[n]
  <2> DEFINE o == <<"root", n>>
  <2>1. o \in DOMAIN objects
    BY DEF Names
  <2>2. PICK d \in commits : o \in Names(d) /\ objects[o] = Content(d, o)
    BY <1>1, <2>1
  <2>3. n \in 1 .. d.root
    BY <1>1, <2>2, NamesFacts
  <2> QED  BY <2>1, <2>2, <2>3, SameVersionSame DEF Content
<1> QED  BY <1>2, <1>3, <1>4

\* The invariant says enough for a client to find all it needs.
LEMMA InvComplete == ASSUME IInv PROVE PublishedComplete
<1> SUFFICES ASSUME timestamp # NoTimestamp PROVE PublishedComplete
  BY DEF PublishedComplete
<1>1. PICK c \in commits : timestamp = c.timestamp /\ Names(c) \subseteq DOMAIN objects
  BY DEF IInv, StorageInv
<1>2. /\ c \in Commit /\ WellFormed(c) /\ Verified(c)
      /\ "targets" \in DOMAIN c.roles
      /\ c.roles \in [DOMAIN c.roles -> RoleMeta]
      /\ DOMAIN c.roles \subseteq Roles \cup {"targets"}
      /\ c.root \in 1 .. MaxRoot
  BY CommitFacts DEF IInv, HistoryInv
<1>3. /\ <<"snapshot", timestamp.snapshot>> \in DOMAIN objects
      /\ PublishedSnapshot = c.snapshot
  BY <1>1, <1>2, StoredIsOwn DEF Verified, PublishedSnapshot
<1>4. ASSUME NEW r \in DOMAIN c.roles
      PROVE  /\ IsPublished(r)
             /\ PublishedName(r) = <<r, c.roles[r].version>>
             /\ objects[PublishedName(r)].files \subseteq uploads
  <2>1. r \in DOMAIN c.snapshot.meta /\ c.snapshot.meta[r] = c.roles[r].version
    <3>1. c.roles[r].version # 0
      BY <1>2 DEF RoleMeta
    <3> QED  BY <1>2, <3>1 DEF Verified, Listed
  <2>2. PublishedName(r) = <<r, c.roles[r].version>>
    BY <1>3, <2>1 DEF PublishedName
  <2>3. PublishedName(r) \in DOMAIN objects
    BY <1>1, <2>2 DEF Names
  <2>4. r \notin {"root", "snapshot"}
    BY <1>2, PublishAssumption
  <2>5. objects[PublishedName(r)].files \subseteq uploads
    BY <2>2, <2>3, <2>4 DEF IInv, StorageInv
  <2> QED  BY <1>3, <2>1, <2>2, <2>3, <2>5 DEF IsPublished
<1>5. RolesReached = DOMAIN c.roles
  BY <1>1, <1>2, <1>4, StoredIsOwn DEF RolesReached, WellFormed
<1>6. \E n \in 1 .. MaxRoot :
         /\ \A i \in 1 .. n : <<"root", i>> \in DOMAIN objects
         /\ objects[<<"root", n>>] = PublishedSnapshot.key
  <2>1. \A i \in 1 .. c.root :
           <<"root", i>> \in DOMAIN objects /\ objects[<<"root", i>>] = c.keys[i]
    BY <1>1, StoredIsOwn
  <2>2. c.root \in 1 .. c.root
    BY <1>2
  <2>3. objects[<<"root", c.root>>] = PublishedSnapshot.key
    BY <1>2, <1>3, <2>1, <2>2 DEF Verified, Key
  <2> QED  BY <1>2, <2>1, <2>3
<1> QED  BY <1>2, <1>3, <1>4, <1>5, <1>6 DEF PublishedComplete

(* Every state of Publish is well formed, and so are the commits published *)
(* from: versions stay within their bounds and a publisher that works has  *)
(* a commit.                                                               *)
THEOREM TypeCorrect == Spec => []TypeOK
<1>1. IInv => TypeOK
  BY DEF IInv
<1> QED  BY <1>1, InitInv, StepInv, PTL DEF Spec

(* Whoever publishes what in whichever order, and wherever a run stops, a  *)
(* client that starts from the published timestamp finds all the rest      *)
(* (publish.rs, `publish`, timestamp last).                                *)
THEOREM Complete == Spec => []PublishedComplete
<1> QED  BY InvComplete, InitInv, StepInv, PTL DEF Spec

-------------------------------------------------------------------------------
(* With a single publisher, as when CI alone publishes and one run at a    *)
(* time, what has been checked stays true until the timestamp is put.      *)

OnePublisher == \A p, q \in Publishers : p = q

SoleInv ==
    \A p \in Publishers :
        LET c       == pub[p].release
            putting == pub[p].phase = "upload" /\ pub[p].last
        IN  /\ pub[p].phase \in {"snapshot", "targets", "compare"} \/ putting => TimestampAllows(c)
            /\ pub[p].phase \in {"targets", "compare"} \/ putting => SnapshotAllows(c)

\* The stored snapshot of a commit is its own.
OwnSnapshots ==
    \A c \in commits :
        Names(c) \subseteq DOMAIN objects =>
            /\ <<"snapshot", c.snapshot.version>> \in DOMAIN objects
            /\ objects[<<"snapshot", c.snapshot.version>>] = c.snapshot

\* The stored snapshot that a timestamp lists is that of its commit.
LEMMA InvOwnSnapshots == IInv => OwnSnapshots
BY StoredIsOwn DEF OwnSnapshots

\* Until the timestamp changes, the snapshot it lists stays the same.
LEMMA PublishedSnapshotStays ==
    ASSUME IInv, OwnSnapshots, OwnSnapshots', commits \subseteq commits',
           DOMAIN objects \subseteq DOMAIN objects',
           timestamp' = timestamp, timestamp # NoTimestamp
    PROVE  /\ PublishedSnapshot' = PublishedSnapshot
           /\ <<"snapshot", timestamp.snapshot>> \in DOMAIN objects'
<1>1. PICK c \in commits : timestamp = c.timestamp /\ Names(c) \subseteq DOMAIN objects
  BY DEF IInv, StorageInv
<1>2. timestamp.snapshot = c.snapshot.version
  BY <1>1 DEF IInv, HistoryInv, Verified
<1>3. PublishedSnapshot = c.snapshot
  BY <1>1, <1>2 DEF OwnSnapshots, PublishedSnapshot
<1>4. Names(c) \subseteq DOMAIN objects' /\ c \in commits'
  BY <1>1
<1>5. PublishedSnapshot' = c.snapshot
  BY <1>2, <1>4 DEF OwnSnapshots, PublishedSnapshot
<1> QED  BY <1>2, <1>3, <1>4, <1>5 DEF OwnSnapshots

\* What the checks of a publisher found is still so, while the timestamp is.
LEMMA AllowsStay ==
    ASSUME IInv, OwnSnapshots, OwnSnapshots', commits \subseteq commits',
           DOMAIN objects \subseteq DOMAIN objects', timestamp' = timestamp, NEW c
    PROVE  /\ TimestampAllows(c) => TimestampAllows(c)'
           /\ SnapshotAllows(c) => SnapshotAllows(c)'
<1>1. TimestampAllows(c) => TimestampAllows(c)'
  BY DEF TimestampAllows
<1>2. CASE timestamp = NoTimestamp
  BY <1>1, <1>2 DEF SnapshotAllows
<1>3. CASE timestamp # NoTimestamp
  BY <1>1, <1>3, PublishedSnapshotStays DEF SnapshotAllows
<1> QED  BY <1>1, <1>2, <1>3

\* The publisher steps forward, and otherwise the timestamp stays.
LEMMA OtherStep ==
    ASSUME IInv, [Next]_vars, \A p \in Publishers : ~PutTimestamp(p)
    PROVE  /\ timestamp' = timestamp
           /\ commits \subseteq commits'
           /\ DOMAIN objects \subseteq DOMAIN objects'
BY DEF Next, Step, vars, Merge, Online, Upload, Begin, CheckTimestamp, CheckSnapshot,
       CheckTargets, Compare, PutObject, Finish, Abort

\* Every step of a sole publisher keeps what its checks found.
LEMMA SoleStep ==
    ASSUME OnePublisher, IInv, OwnSnapshots, OwnSnapshots', SoleInv, [Next]_vars
    PROVE  SoleInv'
<1> DEFINE Checked(c, phase, last) ==
             LET putting == phase = "upload" /\ last
             IN  /\ phase \in {"snapshot", "targets", "compare"} \/ putting => TimestampAllows(c)
                 /\ phase \in {"targets", "compare"} \/ putting => SnapshotAllows(c)
<1>1. pub \in [Publishers -> [phase : Phases, release : Commit \cup {NoRelease},
                              todo : SUBSET ObjectNames, last : BOOLEAN]]
  BY DEF IInv, TypeOK
<1>2. ASSUME NEW p \in Publishers
      PROVE  Checked(pub[p].release, pub[p].phase, pub[p].last)
  BY DEF SoleInv
<1> SUFFICES ASSUME NEW p \in Publishers, NEW c, NEW phase, NEW last,
                    c = pub'[p].release, phase = pub'[p].phase, last = pub'[p].last
             PROVE  Checked(c, phase, last)'
  BY DEF SoleInv
<1>3. CASE PutTimestamp(p)
  <2>1. phase = "upload" /\ ~last
    BY <1>1, <1>3 DEF PutTimestamp
  <2> QED  BY <2>1
<1>4. CASE ~PutTimestamp(p)
  <2>1. /\ timestamp' = timestamp
        /\ commits \subseteq commits'
        /\ DOMAIN objects \subseteq DOMAIN objects'
    BY <1>4, OtherStep DEF OnePublisher
  <2>2. /\ TimestampAllows(c) => TimestampAllows(c)'
        /\ SnapshotAllows(c) => SnapshotAllows(c)'
    BY <2>1, AllowsStay
  <2>3. Checked(c, phase, last) => Checked(c, phase, last)'
    BY <2>2
  <2>4. CASE Merge \/ Online \/ Upload \/ UNCHANGED vars
    <3>1. pub' = pub
      BY <2>4 DEF Merge, Online, Upload, vars
    <3> QED  BY <1>2, <2>3, <3>1
  <2>5. CASE Begin(p) \/ Finish(p) \/ Abort(p)
    <3>1. phase \in {"idle", "timestamp"}
      BY <1>1, <2>5 DEF Begin, Finish, Abort, Idle
    <3> QED  BY <3>1
  <2>6. CASE CheckTimestamp(p)
    <3>1. phase = "snapshot" /\ TimestampAllows(c)
      BY <1>1, <2>6 DEF CheckTimestamp, Goto
    <3> QED  BY <2>3, <3>1
  <2>7. CASE CheckSnapshot(p)
    <3>1. phase = "targets" /\ c = pub[p].release /\ pub[p].phase = "snapshot"
      BY <1>1, <2>7 DEF CheckSnapshot, Goto
    <3>2. TimestampAllows(c) /\ SnapshotAllows(c)
      BY <1>2, <2>7, <3>1 DEF CheckSnapshot
    <3> QED  BY <2>3, <3>1, <3>2
  <2>8. CASE CheckTargets(p)
    <3>1. phase = "compare" /\ c = pub[p].release /\ pub[p].phase = "targets"
      BY <1>1, <2>8 DEF CheckTargets, Goto
    <3> QED  BY <1>2, <2>3, <3>1
  <2>9. CASE Compare(p)
    <3>1. phase = "upload" /\ c = pub[p].release /\ pub[p].phase = "compare"
      BY <1>1, <2>9 DEF Compare
    <3> QED  BY <1>2, <2>3, <3>1
  <2>10. CASE PutObject(p)
    <3>1. phase = pub[p].phase /\ c = pub[p].release /\ last = pub[p].last
      BY <1>1, <2>10 DEF PutObject
    <3> QED  BY <1>2, <2>3, <3>1
  <2> QED
    BY <1>4, <2>4, <2>5, <2>6, <2>7, <2>8, <2>9, <2>10 DEF OnePublisher, Next, Step
<1> QED  BY <1>3, <1>4

(* If one publisher at a time publishes, clients never meet a timestamp    *)
(* older than the one they have, and accept every snapshot after the one   *)
(* they have (publish.rs, `check_timestamp` and `check_snapshot`).         *)
THEOREM GoesForward ==
    ASSUME OnePublisher
    PROVE  Spec => TimestampGoesForward /\ PublishedSnapshotKeepsRoles
<1>1. Init => SoleInv
  BY DEF Init, SoleInv, Idle
<1>2. ASSUME IInv, IInv', OwnSnapshots, OwnSnapshots', SoleInv, [Next]_vars,
             timestamp # NoTimestamp, timestamp' # timestamp
      PROVE  /\ timestamp'.version > timestamp.version
             /\ \/ PublishedSnapshot'.key # PublishedSnapshot.key
                \/ \A r \in DOMAIN PublishedSnapshot.meta :
                      /\ r \in DOMAIN PublishedSnapshot'.meta
                      /\ PublishedSnapshot'.meta[r] >= PublishedSnapshot.meta[r]
  <2>1. PICK p \in Publishers : PutTimestamp(p)
    BY <1>2, OtherStep
  <2> DEFINE c == pub[p].release
  <2>2. /\ timestamp' = c.timestamp /\ objects' = objects /\ commits' = commits
        /\ c \in commits /\ Names(c) \subseteq DOMAIN objects
        /\ TimestampAllows(c) /\ SnapshotAllows(c)
    BY <1>2, <2>1 DEF PutTimestamp, IInv, PublishersInv, SoleInv
  <2>3. Verified(c)
    BY <1>2, <2>2 DEF IInv, HistoryInv
  <2>4. PublishedSnapshot' = c.snapshot
    BY <1>2, <2>2, <2>3 DEF OwnSnapshots, Verified, PublishedSnapshot
  <2>5. timestamp'.version > timestamp.version
    <3>1. timestamp \in Timestamp /\ timestamp' \in Timestamp
      BY <1>2, <2>2, CommitFacts DEF IInv, TypeOK, HistoryInv
    <3> QED  BY <1>2, <2>2, <3>1 DEF TimestampAllows, Timestamp
  <2> QED  BY <1>2, <2>2, <2>3, <2>4, <2>5 DEF SnapshotAllows, Verified
<1>3. IInv /\ IInv' /\ OwnSnapshots /\ OwnSnapshots' /\ SoleInv /\ [Next]_vars
        => [timestamp # NoTimestamp /\ timestamp' # timestamp
              => timestamp'.version > timestamp.version]_vars
  BY <1>2
<1>4. IInv /\ IInv' /\ OwnSnapshots /\ OwnSnapshots' /\ SoleInv /\ [Next]_vars
        => [timestamp # NoTimestamp /\ timestamp' # timestamp =>
              LET old == PublishedSnapshot
                  new == PublishedSnapshot'
              IN  \/ new.key # old.key
                  \/ \A r \in DOMAIN old.meta :
                        r \in DOMAIN new.meta /\ new.meta[r] >= old.meta[r]]_vars
  BY <1>2
<1>5. OnePublisher /\ IInv /\ OwnSnapshots /\ OwnSnapshots' /\ SoleInv /\ [Next]_vars => SoleInv'
  BY SoleStep
<1>6. IInv => OwnSnapshots
  BY InvOwnSnapshots
<1> QED
  BY <1>1, <1>3, <1>4, <1>5, <1>6, InitInv, StepInv, PTL
  DEF Spec, TimestampGoesForward, PublishedSnapshotKeepsRoles
==============================================================================
