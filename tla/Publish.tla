------------------------------- MODULE Publish -------------------------------
(***************************************************************************)
(* Publishing main to object storage: `publish` of                         *)
(* tufops-core/src/publish.rs, which CI runs on every push to main and     *)
(* people run as `tufops publish`, while main goes on.                     *)
(*                                                                         *)
(* Every call to the storage is a step. A run may stop after any of them:  *)
(* a check refuses, the storage fails, or the machine does.                *)
(***************************************************************************)
EXTENDS Release, FiniteSets

CONSTANTS
    Publishers,     \* those who may publish at the same time
    Roles,          \* names of delegated roles
    Files,          \* contents of targets
    SnapshotKeys,   \* keys that may sign the snapshot
    MaxVersion,     \* bound on the versions of targets roles,
    MaxOnline,      \* of snapshot and timestamp,
    MaxRoot,        \* and of root
    MaxCommits,     \* main stays at this many commits that can be published
    NoTimestamp,    \* the storage is empty
    NoRelease,      \* a publisher does nothing
    Before(_, _)    \* the order of the names of objects

ASSUME PublishAssumption ==
    /\ Roles \cap {"root", "targets", "snapshot", "timestamp"} = {}
    /\ {MaxVersion, MaxOnline, MaxRoot, MaxCommits} \subseteq Nat \ {0}
    /\ NoTimestamp \notin [version : 1 .. MaxOnline, snapshot : 1 .. MaxOnline]

VARIABLES
    commits,    \* the commits main has had that pass `verify`
    timestamp,  \* the published timestamp.json, or NoTimestamp
    objects,    \* the other metadata objects: <<role, version>> -> content
    uploads,    \* the target files in storage
    pub         \* publisher -> where it is in `publish`

vars == <<main, commits, timestamp, objects, uploads, pub>>

RoleMeta == [version : 1 .. MaxVersion, files : SUBSET Files, delegates : SUBSET Roles]
Snapshot == [version : 1 .. MaxOnline, key : SnapshotKeys,
             meta : UNION {[D -> 1 .. MaxVersion] : D \in SUBSET (Roles \cup {"targets"})}]
Timestamp == [version : 1 .. MaxOnline, snapshot : 1 .. MaxOnline]
Commit == [root : 1 .. MaxRoot,
           keys : UNION {[1 .. n -> SnapshotKeys] : n \in 1 .. MaxRoot},
           roles : UNION {[D \cup {"targets"} -> RoleMeta] : D \in SUBSET Roles},
           snapshot : Snapshot, timestamp : Timestamp]

Phases == {"idle", "timestamp", "snapshot", "targets", "compare", "upload"}

-------------------------------------------------------------------------------
(* What `publish` computes from the commit it publishes *)

(* `verify`: the snapshot is one this root trusts, and lists the roles at  *)
(* their versions, as the timestamp does the snapshot.                     *)
Verified(c) ==
    /\ c.timestamp.snapshot = c.snapshot.version
    /\ c.snapshot.key = Key(c)
    /\ \A r \in DOMAIN c.roles : Listed(c, r) = c.roles[r].version

(* `metadata_objects` but the timestamp: every root, the snapshot and the  *)
(* targets roles, named by version.                                        *)
Names(c) ==
    {<<"root", n>> : n \in 1 .. c.root}
        \cup {<<"snapshot", c.snapshot.version>>}
        \cup {<<r, c.roles[r].version>> : r \in DOMAIN c.roles}

Content(c, name) ==
    CASE name[1] = "root"     -> c.keys[name[2]]
      [] name[1] = "snapshot" -> c.snapshot
      [] OTHER                -> c.roles[name[1]]

PublishedSnapshot == objects[<<"snapshot", timestamp.snapshot>>]

\* Mutant: an older version may replace the published one.
TimestampAllows_Older(c) ==
    timestamp # NoTimestamp =>
        timestamp.version # c.timestamp.version \/ timestamp = c.timestamp

(* `check_timestamp`: storage has none, an older one or this very one.     *)
TimestampAllows(c) ==
    timestamp # NoTimestamp =>
        timestamp.version < c.timestamp.version \/ timestamp = c.timestamp

\* Mutant: the roles the snapshots list are not compared.
SnapshotAllows_AnyRoles(c) ==
    timestamp # NoTimestamp => <<"snapshot", timestamp.snapshot>> \in DOMAIN objects

(* `check_snapshot`: each role the published snapshot lists is listed, and *)
(* at no older version, unless root no longer trusts that snapshot.        *)
SnapshotAllows(c) ==
    timestamp # NoTimestamp =>
        /\ <<"snapshot", timestamp.snapshot>> \in DOMAIN objects
        /\ \/ PublishedSnapshot.key # Key(c)
           \/ \A r \in DOMAIN PublishedSnapshot.meta :
                 r \in DOMAIN c.snapshot.meta
                   /\ c.snapshot.meta[r] >= PublishedSnapshot.meta[r]

(* Every target of every role has been uploaded.                           *)
UploadsComplete(c) == \A r \in DOMAIN c.roles : c.roles[r].files \subseteq uploads

Differing(c) ==
    {o \in Names(c) : o \notin DOMAIN objects \/ objects[o] # Content(c, o)}

-------------------------------------------------------------------------------
Idle == [phase |-> "idle", release |-> NoRelease, todo |-> {}, last |-> FALSE]

Init ==
    /\ \E D \in SUBSET Roles, f \in SUBSET Files, k \in SnapshotKeys :
         main = [root |-> 1, keys |-> [n \in 1 .. 1 |-> k],
                 roles |-> [r \in D \cup {"targets"} |->
                              [version |-> 1, files |-> f,
                               delegates |-> IF r = "targets" THEN D ELSE {}]],
                 snapshot |-> [version |-> 1, key |-> k,
                               meta |-> [r \in D \cup {"targets"} |-> 1]],
                 timestamp |-> [version |-> 1, snapshot |-> 1]]
    /\ commits = {main}
    /\ timestamp = NoTimestamp
    /\ objects = [o \in {} |-> {}]
    /\ uploads \in SUBSET Files
    /\ pub = [p \in Publishers |-> Idle]

(* Main moves on: an event is merged, with at most one new version of root *)
(* and of each targets role, `new` being what those roles list.            *)
Bumped(D, new) ==
    [r \in D \cup {"targets"} |->
       IF r \in DOMAIN new
       THEN [version |-> LastVersion(main, r) + 1, files |-> new[r],
             delegates |-> IF r = "targets" THEN D ELSE {}]
       ELSE main.roles[r]]

MergedCommit(root, key, roles) ==
    [main EXCEPT !.root = root,
                 !.keys = [n \in 1 .. root |-> IF n > main.root THEN key ELSE main.keys[n]],
                 !.roles = roles]

Merge ==
    /\ Cardinality(commits) < MaxCommits
    /\ \E D \in SUBSET Roles :
       \E changed \in SUBSET (D \cup {"targets"}) :
       \E new \in [changed -> SUBSET Files] :
       \E root \in {main.root, main.root + 1}, key \in SnapshotKeys :
         /\ D \subseteq changed \cup DOMAIN main.roles
         /\ main' = MergedCommit(root, key, Bumped(D, new))
         /\ MergesInto(main, main')
    /\ main'.root <= MaxRoot
    /\ \A r \in DOMAIN main'.roles : main'.roles[r].version <= MaxVersion
    /\ commits' = commits \cup {c \in {main'} : Verified(c)}
    /\ UNCHANGED <<timestamp, objects, uploads, pub>>

Online ==
    /\ Cardinality(commits) < MaxCommits
    /\ \E renewed \in SUBSET DOMAIN main.roles, s \in BOOLEAN, t \in BOOLEAN :
         main' = OnlineUpdate(main, renewed, s, t)
    /\ main'.snapshot.version <= MaxOnline
    /\ main'.timestamp.version <= MaxOnline
    /\ \A r \in DOMAIN main'.roles : main'.roles[r].version <= MaxVersion
    /\ commits' = commits \cup {c \in {main'} : Verified(c)}
    /\ UNCHANGED <<timestamp, objects, uploads, pub>>

(* `tufops add` uploads a file. *)
Upload ==
    /\ \E f \in Files : uploads' = uploads \cup {f}
    /\ UNCHANGED <<main, commits, timestamp, objects, pub>>

-------------------------------------------------------------------------------
Goto(p, phase) == pub' = [pub EXCEPT ![p].phase = phase]

(* A run checks out a commit of main and verifies it. A workflow run that  *)
(* is started again checks out the commit it ran on before.                *)
Begin(p) ==
    /\ pub[p].phase = "idle"
    /\ \E c \in commits :
          pub' = [pub EXCEPT ![p] = [phase |-> "timestamp", release |-> c,
                                     todo |-> {}, last |-> FALSE]]
    /\ UNCHANGED <<main, commits, timestamp, objects, uploads>>

CheckTimestamp(p) ==
    /\ pub[p].phase = "timestamp"
    /\ TimestampAllows(pub[p].release)
    /\ Goto(p, "snapshot")
    /\ UNCHANGED <<main, commits, timestamp, objects, uploads>>

(* Reads the timestamp once more, then the snapshot it names. Snapshot     *)
(* objects stay as they are, so the two reads are one step.                *)
CheckSnapshot(p) ==
    /\ pub[p].phase = "snapshot"
    /\ SnapshotAllows(pub[p].release)
    /\ Goto(p, "targets")
    /\ UNCHANGED <<main, commits, timestamp, objects, uploads>>

CheckTargets(p) ==
    /\ pub[p].phase = "targets"
    /\ UploadsComplete(pub[p].release)
    /\ Goto(p, "compare")
    /\ UNCHANGED <<main, commits, timestamp, objects, uploads>>

\* Mutant: the timestamp goes with some other object or not at all.
Compare_OnlyIfObjectsDiffer(p) ==
    /\ pub[p].phase = "compare"
    /\ LET c == pub[p].release
       IN  pub' = [pub EXCEPT ![p] = [phase |-> "upload", release |-> c,
                                      todo |-> Differing(c),
                                      last |-> timestamp # c.timestamp /\ Differing(c) # {}]]
    /\ UNCHANGED <<main, commits, timestamp, objects, uploads>>

(* Lists the metadata in storage and picks what is missing or differs. *)
Compare(p) ==
    /\ pub[p].phase = "compare"
    /\ LET c == pub[p].release
       IN  pub' = [pub EXCEPT ![p] = [phase |-> "upload", release |-> c,
                                      todo |-> Differing(c),
                                      last |-> timestamp # c.timestamp]]
    /\ UNCHANGED <<main, commits, timestamp, objects, uploads>>

(* In the order of their names.                                            *)
PutObject(p) ==
    /\ pub[p].phase = "upload"
    /\ \E o \in pub[p].todo :
         /\ \A x \in pub[p].todo \ {o} : Before(o, x)
         /\ objects' = [n \in DOMAIN objects \cup {o} |->
                          IF n = o THEN Content(pub[p].release, o) ELSE objects[n]]
         /\ pub' = [pub EXCEPT ![p].todo = @ \ {o}]
    /\ UNCHANGED <<main, commits, timestamp, uploads>>

\* Mutant: the timestamp does not wait for the other objects.
PutTimestamp_First(p) ==
    /\ pub[p].phase = "upload"
    /\ pub[p].last
    /\ timestamp' = pub[p].release.timestamp
    /\ pub' = [pub EXCEPT ![p].last = FALSE]
    /\ UNCHANGED <<main, commits, objects, uploads>>

PutTimestamp(p) ==
    /\ pub[p].phase = "upload"
    /\ pub[p].todo = {} /\ pub[p].last
    /\ timestamp' = pub[p].release.timestamp
    /\ pub' = [pub EXCEPT ![p].last = FALSE]
    /\ UNCHANGED <<main, commits, objects, uploads>>

Finish(p) ==
    /\ pub[p].phase = "upload"
    /\ pub[p].todo = {} /\ ~pub[p].last
    /\ pub' = [pub EXCEPT ![p] = Idle]
    /\ UNCHANGED <<main, commits, timestamp, objects, uploads>>

\* Mutant: a run leaves its list of objects to the next one.
Abort_KeepsTodo(p) ==
    /\ pub[p].phase # "idle"
    /\ pub' = [pub EXCEPT ![p].phase = "idle", ![p].release = NoRelease]
    /\ UNCHANGED <<main, commits, timestamp, objects, uploads>>

(* A check refuses, a call fails or the run is killed. *)
Abort(p) ==
    /\ pub[p].phase # "idle"
    /\ pub' = [pub EXCEPT ![p] = Idle]
    /\ UNCHANGED <<main, commits, timestamp, objects, uploads>>

Step(p) ==
    \/ CheckTimestamp(p) \/ CheckSnapshot(p) \/ CheckTargets(p) \/ Compare(p)
    \/ PutObject(p) \/ PutTimestamp(p) \/ Finish(p)

Next ==
    \/ Merge \/ Online \/ Upload
    \/ \E p \in Publishers : Begin(p) \/ Step(p) \/ Abort(p)

Spec == Init /\ [][Next]_vars

-------------------------------------------------------------------------------
(* Properties *)

ObjectNames == ({"root"} \X (1 .. MaxRoot))
                   \cup ({"snapshot"} \X (1 .. MaxOnline))
                   \cup (({"targets"} \cup Roles) \X (1 .. MaxVersion))

\* The state is well formed.
TypeOK ==
    /\ main \in Commit
    /\ timestamp \in Timestamp \cup {NoTimestamp}
    /\ DOMAIN objects \subseteq ObjectNames
    /\ \A o \in DOMAIN objects :
          CASE o[1] = "root"     -> objects[o] \in SnapshotKeys
            [] o[1] = "snapshot" -> objects[o] \in Snapshot
            [] OTHER             -> objects[o] \in RoleMeta
    /\ uploads \subseteq Files
    /\ pub \in [Publishers -> [phase : Phases, release : Commit \cup {NoRelease},
                               todo : SUBSET ObjectNames, last : BOOLEAN]]
    /\ \A p \in Publishers :
          /\ pub[p].phase # "idle" => pub[p].release \in Commit
          /\ pub[p].phase # "upload" => pub[p].todo = {} /\ ~pub[p].last

PublishedName(role) == <<role, PublishedSnapshot.meta[role]>>

IsPublished(role) ==
    role \in DOMAIN PublishedSnapshot.meta /\ PublishedName(role) \in DOMAIN objects

\* The targets roles a client gets to.
RolesReached == {"targets"} \cup objects[PublishedName("targets")].delegates

(* A client that starts from the published timestamp finds all the rest:   *)
(* the snapshot, targets, each role it delegates to, the target files of   *)
(* all of them, and the roots up to one that trusts the snapshot           *)
(* (publish.rs, "it must only refer to files already uploaded").           *)
PublishedComplete ==
    timestamp # NoTimestamp =>
        /\ <<"snapshot", timestamp.snapshot>> \in DOMAIN objects
        /\ IsPublished("targets")
        /\ \A r \in RolesReached :
              IsPublished(r) /\ objects[PublishedName(r)].files \subseteq uploads
        /\ \E n \in 1 .. MaxRoot :
              /\ \A i \in 1 .. n : <<"root", i>> \in DOMAIN objects
              /\ objects[<<"root", n>>] = PublishedSnapshot.key

(* Between the first root that trusted main's snapshot key and the last,   *)
(* some root did not.                                                      *)
RotatedBack(c) ==
    \E i, j \in 1 .. c.root : i < j /\ c.keys[i] = Key(c) /\ c.keys[j] # Key(c)

(* Main is never refused: nothing newer than main is published, nor a      *)
(* snapshot that main's must not follow, unless the snapshot key rotated   *)
(* away from its own and back since (publish.rs, `check_timestamp`,        *)
(* `check_snapshot`).                                                      *)
MainCanBePublished ==
    Verified(main) =>
        /\ TimestampAllows(main)
        /\ SnapshotAllows(main) \/ RotatedBack(main)

(* Clients that have the published timestamp never meet an older one       *)
(* (publish.rs, `check_timestamp`).                                        *)
TimestampGoesForward ==
    [][timestamp # NoTimestamp /\ timestamp' # timestamp
         => timestamp'.version > timestamp.version]_vars

(* Clients that have the published snapshot accept the next: it lists      *)
(* every role, none older, unless root no longer trusts the key of the one *)
(* they have (publish.rs, `check_snapshot`).                               *)
PublishedSnapshotKeepsRoles ==
    [][timestamp # NoTimestamp /\ timestamp' # timestamp =>
         LET old == PublishedSnapshot
             new == PublishedSnapshot'
         IN  \/ new.key # old.key
             \/ \A r \in DOMAIN old.meta :
                   r \in DOMAIN new.meta /\ new.meta[r] >= old.meta[r]]_vars

(* No object that clients get to from the published timestamp is replaced  *)
(* under them: the versions in its name (publish.rs, `metadata_objects`)   *)
(* are not used twice (repo.rs, `update`). But once the snapshot key has   *)
(* rotated, a role that is removed and added again uses its versions again.*)
PublishedObjectsStay ==
    [][timestamp # NoTimestamp =>
         \A o \in {<<"snapshot", timestamp.snapshot>>}
                     \cup {PublishedName(r) : r \in RolesReached} :
            \/ objects'[o] = objects[o]
            \/ o[1] \in Roles /\ \E n \in 1 .. main.root : main.keys[n] # main.keys[1]]_vars
==============================================================================
