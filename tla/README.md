# tufops in TLA+

tufops keeps a [TUF](https://theupdateframework.io) repository in git. People change it with a CLI
and sign the changes with YubiKeys; CI merges what is signed, signs `snapshot` and `timestamp` with
cloud keys, and publishes to object storage. This directory specifies what that amounts to, checks
it with TLC and proves most of its safety properties with TLAPS. Paths below are those of the repository
(`repo.rs` is `crates/tufops-core/src/repo.rs`, `ci/main.rs` is `crates/tufops-ci/src/main.rs`).

## The system

| Component | State it keeps | Operations | Talks to |
|---|---|---|---|
| `config.rs` | `tufops.toml`: keys, roles, delegations in search order | parse, validate, who signs a role, signing period | every other part |
| `repo.rs` | the metadata files of one commit, with every root version | `sign`, `update`, `apply_config`, `add_targets`, `remove_targets`, `update_online`, `with_roles_from` | called by CLI and CI |
| `status.rs` | none: computed from two commits | which roles lack whose signatures, is the event complete, does CI merge it by itself | CLI and CI show it; CI merges by it |
| CLI (`tufops/src`) | a temporary worktree | `add`, `rm`, `apply`, `sign`, `online`, `publish`, `status` | branches `sign/*`, `main`, storage |
| CI on events (`ci/main.rs`, `signing_event`) | commit statuses, pull requests | merge main into the event, set the status, merge into main | GitHub, git |
| CI on main (`ci/main.rs`, `main_branch`) | none between runs | sign what is due, push, publish, start `sign/refresh`, report | KMS, storage, GitHub, git |
| `publish.rs` | the bucket | `verify`, `publish` | `BlobStore` |
| git | `main`, `sign/*` | merge, push | everyone |

The parts share no memory. They interact through commits on `main` and `sign/*`, which any of them
may push at any time, and through the bucket. What is hard about it:

* **Merges.** Events start from different commits and are merged by git, file by file. Each one is
  complete and consistent by itself; nothing in the code looks at the content of the merge but for
  its signatures.
* **What metadata is compared with.** Versions count from the commit the event started from,
  signatures are required against main, and a change of validity is recognized by comparing with
  the commit before the last.
* **Rotations and removed roles.** Clients refuse a snapshot that drops a role, unless the key
  changed, so removed roles leave a trace that their successors must respect.
* **CI.** Runs on different branches interleave with each other and with people. A run fetches, computes
  and pushes, and main may move between any two of these; what it computed goes on being used, by the
  run itself or, as a commit status, by GitHub. Runs fail and are run again.
* **Publishing.** It is many storage calls without a transaction. Runs stop, are started again on
  the commit they ran on before, and `tufops publish` runs beside CI.
* **Time.** Roles become due, expire, and are renewed by different actors.

What makes each component correct:

* *Metadata:* a role's version never goes back or is used twice; a target is listed where clients
  look for it; an update leaves nothing to update.
* *Events:* what is merged is signed by the keys main gives it, and by the previous root for a new
  root, whatever was merged in parallel.
* *Signers:* what they are shown tells apart whatever they might be asked to sign.
* *CI on main:* the result can be published; everything due is renewed or asked for; what is on main
  gets published, whatever fails on the way.
* *CI on events:* no push takes back what was merged meanwhile; an event that needs nobody gets merged, or
  CI says that it failed to.
* *Publishing:* clients can start from the published timestamp at any moment and find all they need;
  it never goes back; nothing is replaced under them.

`PROJECT.json` lists the components with their status, and the hazards, each at its line with the
properties that would catch it.

## The modules

| Module | Models | |
|---|---|---|
| `TufConfig` | `config.rs` | operators |
| `TufRepo` | `repo.rs`, and `sign_online` of `tufops-cloud/src/lib.rs` | operators on a repository value |
| `Changes` | `changes` of `status.rs`: what people are shown of a role before they sign it | operators |
| `EventStatus` | the rest of `status.rs` | operators on two repositories |
| `TufVerify` | `verify` of `publish.rs` | operators |
| `GitMerge` | git's three-way merge, as far as tufops depends on it (external) | operators |
| `Lifecycle` | CLI, CI on events and CI on main, over `main` and `sign/*`; a CI run is a step | state machine |
| `CiRuns` | the same with `ci/main.rs` step by step, statuses, pull requests and failing runs | state machine |
| `Release` | what a history of `main` looks like to those who publish it | abstract specification |
| `Publish` | `publish` of `publish.rs`, over any history that `Release` allows | state machine |
| `PublishLive` | `Publish` with the fairness that CI's workflow gives it | specification with fairness |
| `PublishProofs`, `HistoryProofs` | theorems about `Publish` | proofs |
| `RepoProofs`, `MergeProofs`, `OnlineProofs`, `ReviewProofs` | lemmas: operations on a repository, merges, what CI makes of main, what people are shown | proofs |
| `LifecycleProofs` | theorems about `Lifecycle`, with the refinement of `Release` | proofs |
| `CiRunsProofs` | theorems about `CiRuns` | proofs |
| `MCLifecycle`, `MCCiRuns`, `MCPublish`, `MCPublishLive` | instances for TLC | |

`Lifecycle` extends the operator modules, `CiRuns` extends `Lifecycle`, `Publish` extends `Release`, and
`Lifecycle` implements `Release` under the refinement mapping `CommitOf`. So what is proved about
`Publish` is about the histories that `Lifecycle` produces.

### State and actions of Lifecycle

`main` is the metadata and `tufops.toml` at the tip of main, `previous` the `tufops.toml` of `HEAD^`,
`events` the open `sign/*` branches, each with the commit it started from (`base`, `old`) and the
one it has (`head`, `config`), `now` the day. `intent` (what an event is for) and `validity` (the
`expires_days` that snapshot and timestamp were last given) are history variables that only
properties read.

| Action | Code |
|---|---|
| `Apply`, `Add`, `Rm` | `tufops apply`, `add` (several files, `--delete`), `rm`: the operation on main's metadata, online signatures, commit and push (`Event::start` to `finish`) |
| `SignOffline` | `tufops sign` with one YubiKey, which may skip roles |
| `Merge` | `signing_event` when CI merges by itself, and a maintainer who merges the pull request; both need the status to be complete |
| `Abandon` | someone deletes a branch |
| `CiRun(published)` | `main_branch`: `update_online` and `sign_online`, push, publish, then `sign/refresh`. `published = FALSE` is a run that stops at publishing |
| `Tick` | a day passes |

A repository is a record of files; a file is `[version, expires, sigs, body]`, where `sigs` is the set
of keys with a valid signature. A new version has no signatures, which is how changed content loses
them. Globs are abstracted to the set of paths they match. A target's description is a value.
`Update` follows `Repo::update`: `NeedsVersion` has its four reasons, `NewVersion` its version and
expiry. `apply_config` is `ApplyConfig`: root, then removal of roles, then `targets` with everything
that belongs there, then the delegated roles.

`Review` is what signers see of an event: for each role the lines that `changes` prints, as sets. Of
targets that moved between roles only a count is shown, as in the code.

### State and actions of CiRuns

`CiRuns` takes `Apply`, `Add`, `Rm` and `SignOffline` from `Lifecycle` and replaces its `Merge` and `CiRun` by the steps
of the runs. Each branch has at most one run (`jobs`, `mainJob`) and one that waits (`waiting`), as the
workflow's concurrency group gives it: a newer push replaces the one that waits. A run works on the
commit it was started for, which need not be the branch's tip when it ends. `current` holds the runs for
which main is still what they fetched last; a push of any other is refused by git. `ready` are the
events whose tip has the status `tufops/signatures`, `failed` those whose tip has a failed run, which CI
reports in an issue, `pulls` those with a pull request, `issue` the roles the renewal issue lists.

| Action | Code |
|---|---|
| `PushEvent` | a push to `sign/*`: the new tip has no status, and asks for a run |
| `StartRun`, `MergeAgain` | one pass of the loop in `signing_event`: fetch, merge main, status, pull request. The second and third pass follow a push that failed; after the third such push the run fails |
| `PushMerge`, `Delete` | the push to main, and the deletion of the branch |
| `MergePull` | a maintainer merges a pull request whose tip has the status, whenever git can; GitHub deletes the branch |
| `DeleteBranch` | someone deletes an event, as CI's error asks when it conflicts |
| `StartMain`, `Online`, `LeaveToNewerRun`, `Publish` | `main_branch`: checkout, online update and push, or giving up since main moved, then publishing, fetching, `sign/refresh` and the issue |
| `FailRun`, `FailMain` | a run fails, between any two calls. On an event nothing starts it again |
| `Rerun` | someone who has read the report runs a failed run again |

Reading main and setting a status are one step, since nothing reads the status in between. Publishing is
one step here and is what `Publish` takes apart. A run on main may start at any time, since there is a
schedule. It starts on the tip, since the concurrency group lets only the newest push wait; main may
have moved before its first step. Runs of older commits that someone starts again are in `Publish`
(`Begin`). Main's `tufops.toml` need not be valid here, since GitHub merges on old statuses: runs on
such a commit fail, and no event is started from it. That GitHub deletes merged branches is a setting MANUAL.md asks for; the code itself only
deletes what CI merged by itself.

### State and actions of Publish

`main` is the commit (as `Release` sees it), `commits` those that pass `verify` and can therefore be
published, `timestamp`, `objects` and `uploads` are the bucket, and `pub[p]` says where publisher `p` is
in `publish`. Each storage call is an action: `CheckTimestamp`, `CheckSnapshot`, `CheckTargets`,
`Compare`, `PutObject` in the order of object names, `PutTimestamp`. `Abort` can follow any of them.
`Begin` picks any commit main has had, since a workflow run that is started again checks out the
commit it ran on. Meanwhile `Merge` and `Online` move main on as `Release` allows, and `Upload`
adds files. Expiry and signatures other than the snapshot's are part of `verify` that `Verified` takes
as given: they decide whether a commit can be published and not what publishing does.

## What is checked

All bounds are in the `.cfg` files. Deadlock is checked in every run.

| Run | Instance | Shows |
|---|---|---|
| `Delegations` | 3 events, 4 configurations, 2 paths, 2 descriptions; role `b` is signed by CI and is searched before or after `a` | `TypeOK`, `MainMatchesConfig`, `EventsDoWhatTheySay`, `ReviewTellsContentsApart`, `VersionsGoForward`, `SnapshotKeepsRoles`, `ImplementsRelease` |
| `Keys` | 3 events, 6 configurations: root from one person to another, a delegated role's keys or threshold, which are not valid together, the snapshot key, alone or with a role removed | `MainSigned`, `MainRootChain`, `CiLeavesMainPublishable`, `OnlineUpdateIsIdempotent`, `RotationStartsOver`, `ImplementsRelease` |
| `Time` | 3 days, 2 events, 2 configurations with other `expires_days`; an online role that CI has no key for | `CiLeavesMainPublishable`, `OnlineUpdateIsIdempotent`, `RefreshRenewsAllThatIsDue` |
| `CiRuns` | an `apply` of someone with an online key and CI's `sign/refresh`, 2 days; online roles that CI signs or does not, an offline one | `CiTypeOK`, `CiMergesLoseNothing`, `CiMergesWhatIsSigned`, `OnlineUpdateKeepsMerges`, and under fairness `CiCatchesUp`, `RefreshGetsStarted`, `OnlineEventsMergeOrFail` |
| `PublishRace` | 2 publishers of 2 commits, versions up to 3: a role is removed and added again | `TypeOK`, `PublishedComplete`, `PublishedObjectsStay` |
| `Rotation` | 1 publisher of 3 commits, 1 delegated role, 3 roots and snapshots: a key rotates away and back | `PublishedComplete`, `MainCanBePublished`, `TimestampGoesForward`, `PublishedSnapshotKeepsRoles` |
| `PublishLive` | CI and another publisher, 2 commits, 1 file, under fairness of CI | `MainGetsPublished` |

Why the bounds suffice for what the runs are about: three events are enough for two to be merged
under a third that started before them, and to remove a role and add it again; two paths for one to
move while the other stays; three root versions for a chain with a changed key on either side, and
for a rotation and its reversal. Three days reach the signing period of every role and the expiry of
snapshot and timestamp; the roles that people sign expire after the bound, since no CI run can publish
without them. In `CiRuns` the roles but root are valid for three days with a signing period of two, so
that they come due together on day 2, the last, and can still be published then;
one event is enough to race with the run on main and with `sign/refresh`, which is the second event,
and each of them can have a run, a commit that waits and a newer tip at once. The event is started by
`apply`. With `add` of a file too (a `LocalFiles` of one, `Directories = {{}}`) the instance has 237,652
states, and checking all properties at once takes more than the five minutes kept to here; the safety properties and
`OnlineEventsMergeOrFail` were checked on it one after the other. In `Publish`, main stays as
it is once `MaxCommits` commits can be published; three are a published one, the one being published and
one more. Every interleaving of the storage calls of two publishers occurs in `PublishRace` and
`PublishLive`.

### Fairness

`PublishLive!Fairness` is about runs of CI on main's present commit only. CI is started on every push to
main and every six hours, so such runs recur; a run may fail any number of times, but each storage call
succeeds now and then, which is strong fairness of each step. Nothing is assumed of people, of other
publishers, of runs on older commits, or of how long main stays the same. `MainGetsPublished` says that
infinitely often the published timestamp is main's, or main cannot be published: it does not verify, its
targets are not uploaded, or the snapshot key was rotated back (`RotatedBack`, below).

`CiFairness` asks that a run on main starts again and again (the schedule) and that it goes on from each
of its phases if it gets there again and again (strong fairness, since runs may fail in between, but
scheduled ones not always); that a run on an event starts rather than waiting for ever, and ends, in
success or failure. Nothing is assumed of what events' runs come to: all of them may fail or lose every
race to push. Nothing is assumed of people: they may leave every event unsigned, every pull request open
and every failed run as it is. That is why `OnlineEventsMergeOrFail` says "or the run on it fails and is
reported": the code does not start a failed run on an event again. A run that cannot be published always
fails. The fairness of runs on events is written `[]<>~CanStart(e)` and `[]<>(e \notin DOMAIN jobs)`: a
run that waits has nothing to wait for but the one before it, and each step of a run ends it within its
attempts, so this is what weak fairness of those steps says.

Each property has a mutant in `PROJECT.json`: an operator named `<Definition>_<Bug>` beside the
definition, which must break the property when it takes the definition's place.

### What the runs found

Five runs expect a violation. Each checks what the manual or a comment says, and TLC's counterexample is
what the code does.

* `TargetsAreNeverDropped`. MANUAL.md, §6: "Targets are never dropped: each moves to the first role whose
  paths now match it". An `add` and an `apply` that delegates the added path are merged in parallel. The
  merge is clean and signed, and lists the target in a role clients do not search for it. On the next run
  on main, `apply_config` would move it, which `main_branch` mistakes for a role being due: it puts the
  offline roles of the result into `sign/refresh` and leaves out the online ones. If the target moves
  from an offline to an online role, the refresh removes it from the first and nothing adds it to the
  second.
* `RefreshKeepsMain`. `main_branch` "starts a signing event for offline roles in their signing period". It
  saves the metadata of the commit it checked out over a worktree of the `origin/main` it fetched after
  publishing. If an event was merged while it published, `sign/refresh` also takes back what that event
  did.
* `MainSigned`, checked here on `CiRuns`; with statuses as fresh as the merge it holds (run `Keys`).
  MANUAL.md, §3: the check "is what stops a pull request from being merged while signatures are missing". The status
  of a commit is not computed again when main moves. An event that takes a key away from a role is merged,
  and then a pull request whose status counted a signature of that key.
* `ExpiresDaysTakeEffect`. MANUAL.md, §6: "Once it is merged, CI sees the change against the previous
  `main` commit and signs new versions". If a second event is merged before CI runs on the first, the
  previous commit already has the change. CI then signs new versions only if there is another reason,
  as when an event changes a targets role, which the snapshot has to list. In the run, one event changes
  `expires_days` of snapshot and timestamp, the other `signing_days` of root; both change `tufops.toml`
  alone.
* `TimestampRollback`. `check_timestamp` "checks that publishing would not replace the published
  timestamp with an older version", but checks before it uploads. With two publishers the older
  timestamp can come last.

Other things that came up while modelling, which no run checks:

* After an event that changed `expires_days`, `main_branch` still compares with the old `tufops.toml`, and
  so asks in `sign/refresh` for one more version of roles that the event itself renewed.
* `MainCanBePublished` leaves one case out: a snapshot key that rotates away and back before anything is
  published. `check_snapshot` then compares with a snapshot that clients would have forgotten on the way,
  and refuses main for good if it dropped a role. `Rotation` shows that it is the only case.
* `PublishedObjectsStay` leaves out a delegated role that is removed and added again after the snapshot key
  has rotated: it starts over at version 1 and replaces the object of the role before.
* `ReviewTellsContentsApart` leaves out the search order of delegations that are new: signers are not
  shown where they were put (`status.rs:291`). It also leaves out commits whose roles list a path as
  different files: there, two events that restore the one file or the other can show the same count of
  moved targets (`status.rs:318`). No run gets there; the proof showed it.
* Once a role that people sign has expired, publishing fails before `sign/refresh` could be started
  (`ci/main.rs:301`), so CI does not ask for what would let it go on.
* After a wrong PIN, giving up on the role does not forget the PIN: the next role, and the next event of
  the same `tufops sign`, use it again without asking (`event.rs:86`, `event.rs:93`), each at the cost of
  one of the YubiKey's tries.
* A path that two roles list as different files, which parallel merges can bring about, may come back as
  the other file: if it moves to a third role, `apply_config` takes the file from the first role that lists
  it, which need not be the one clients found it in (`repo.rs:384`). `EventsDoWhatTheySay` says nothing of such paths
  (`ListedAlike`). No run of three events gets there; the proof showed it.
* Once a stale `sign/refresh` has been merged, main can have files of roles that its `tufops.toml` lacks,
  which the next automatic merge of any event takes away. `CiMergesLoseNothing` is therefore about what
  was merged since an event started.
* Two events can make `tufops.toml` invalid together, such as one that takes a key from a role and one that
  raises its threshold. An event's run on the second refuses that, but GitHub merges it on a status from
  before. Then no run on main and no `apply`, `add` or `rm` works until someone repairs main by hand
  (`ci/main.rs:280`, `event.rs:48`).
* MANUAL.md:210 and 542 say that CI deletes branches whose pull request was merged; the code does not.

## What is proved

The theorems hold for every value of the constants. They rest on the assumptions that the modules name:

* `PublishAssumption`: no delegated role has the name of a top-level one, the bounds are positive, and
  "no timestamp" is not a timestamp.
* `ConfigsAssumption`: every `tufops.toml` that people want passes validation (`Valid`, as `Config::parse`
  requires), and the repository starts with one of them.
* `LifecycleAssumption`: `sign/refresh` is not the name of an event of the CLI, local files have
  descriptions, there are finitely many paths (strings of bounded length), and the last day is a number.
* `CiAssumption`: no event is called `main`, under which `current` keeps the run on main.

### Lifecycle

For any sets of configurations, events, keys, paths and descriptions, and any number of days:

| Theorem | States |
|---|---|
| `TypeCorrect` | `Spec => []TypeOK` |
| `MatchesConfig` | `Spec => []MainMatchesConfig` |
| `AllSigned` | `Spec => []MainSigned` |
| `RootsChain` | `Spec => []MainRootChain` |
| `CiMakesPublishable` | `Spec => []CiLeavesMainPublishable` |
| `CiIsIdempotent` | `Spec => []OnlineUpdateIsIdempotent` |
| `EventsDo` | `Spec => []EventsDoWhatTheySay` |
| `ReviewsTell` | `Spec => []ReviewTellsContentsApart` |
| `NoVersionGoesBack` | `Spec => VersionsGoForward` |
| `NoRoleIsDropped` | `Spec => SnapshotKeepsRoles` |
| `RotationsStartOver` | `Spec => RotationStartsOver` |
| `RefreshIsThorough` | `Spec => RefreshRenewsAllThatIsDue` |
| `Implements` | `Spec => ImplementsRelease`, if every configuration gives the snapshot one key |

`Implements` joins the two halves of the project: what is proved of `Publish` for every history that
`Release` allows is true of the histories of main. Its premise is there because `Release` reads one key
where the code has a set and a threshold.

**The invariant.** None of these properties is inductive. Events are merged by git file by file, so that
what main looks like after a merge depends on what the event and main have each done since the
commit they share. `IInv` (theorem `Invariance`) therefore says of main what it is, and of each event how
it relates to the commit it started from:

* main is a commit (`IsCommit`): its files are `WellFormed`; it has the roles, keys and delegations of its
  `tufops.toml` (`Follows`); the roles that people sign have their signatures (`Signed`); its roots are
  a chain (`Chained`); its snapshot lists no version that there has not been (`Listing`).
* each event (`IsEvent`) started from a commit, `base`; `Succeeds` says what it made of it: metadata for
  its own `tufops.toml`, in which a file is either `base`'s and complete, or one version on, and at
  most one root is new. What signatures it has is left open, since they come one by one.
* main is `base` or comes after it (`Later`): roots are kept, `targets` has another content only at a
  later version, and as long as `targets` is the same, the snapshot lists nothing new of roles that `base`
  does not have. The last is what lets an event bring back a removed role at the next version.

**The argument.** `RepoProofs` shows what each operation of `repo.rs` makes of a commit: `apply_config`,
`add_targets` and `remove_targets`, `with_roles_from`, signing. Each leaves a head that succeeds it.
`MergeProofs` is about the merge. Since a changed file gets a new version, and two new versions of one
file conflict, a clean merge has each file from one side only. If an event and main changed the
keys of the same role, root or `targets` conflicts; if one of them changed the keys of a role and
the other its content, the status counts the signatures of the content by main's keys. That
leaves metadata that follows the merged `tufops.toml`, which git merges setting by setting, and roots that
chain. `OnlineProofs` does the same for `update_online` and `sign_online`: nothing is due afterwards, and
the result passes `verify`. `LifecycleProofs` has a step per action (`NextIInv`) and derives the properties.

Four theorems need more. `TypeCorrect` adds `TInv`: keys, paths and descriptions are known ones, wherever
they are. `Implements` adds `SInv`: main and the events keep to one snapshot key and main's snapshot has
its signature. `EventsDo` adds `DInv`: what an event lists is what it is for; signing it leaves content
alone (`SameContent`), and only `Apply`, `Add` and `Rm` make one. `ReviewsTell` adds `RInv`:
each event is `Shaped` by an operation that edits lists of targets, so that nothing moves between roles
that list paths alike, or by one that puts every target into the role it belongs in.

`ReviewProofs` shows what that is for. The lines decide the targets that did not move. Of those that
did, people see only how many each role got and lost. Take two events that regroup the targets of one
commit: in the first role in search order whose targets differ (`FirstDifference`), all that could move
there and is not taken by an earlier role does, so that one event's targets are among the other's; what
comes and goes is all counted (`RegroupedMove`), and a finite set and a part of it that are equally many
are equal (`CountsDecide`).

### CiRuns

For any sets of configurations and events, any bounds, and runs that fail at any point:

| Theorem | States |
|---|---|
| `CiTypeCorrect` | `CiSpec => []CiTypeOK` |
| `CiLosesNothing` | `CiSpec => CiMergesLoseNothing` |
| `CiMergesSigned` | `CiSpec => CiMergesWhatIsSigned` |
| `CiKeepsMerges` | `CiSpec => OnlineUpdateKeepsMerges` |

Here `IInv` is not an invariant: a status may be older than main, and `sign/refresh` may start from another
commit than it says, so that main need not be a commit in the sense above. Indeed `MainSigned`, a
theorem of `Lifecycle`, is violated on `CiRuns`; `CiMergesSigned` is the part that remains, for what
CI merges by itself. The invariant `CInv` (theorem `CiInvariance`) says little of what main has and
much of what runs know:

* `ConfigsInv`: wherever there is a configuration, it has its roles; wherever there is metadata, versions
  are numbers; an event, unless it is `sign/refresh`, has no version before `base`'s.
* `BranchesInv`: runs, statuses, failures and pull requests are those of branches.
* `CurrentInv`: as long as main is what a run fetched (`current`), the run has merged main as it is now, and
  has looked at every signature of the result; the run on main works on what main has now.

### Publish

For any sets of publishers, roles, files and keys:

| Theorem | States | For |
|---|---|---|
| `TypeCorrect` | `Spec => []TypeOK` | any number of publishers |
| `Complete` | `Spec => []PublishedComplete` | any number of publishers |
| `GoesForward` | `Spec => TimestampGoesForward /\ PublishedSnapshotKeepsRoles` | one publisher at a time |
| `ObjectsStay` | `Spec => PublishedObjectsStay` | any number of publishers |
| `MainIsNotRefused` | `Spec => []MainCanBePublished` | any number of publishers |

`GoesForward` needs the premise: run `TimestampRollback` shows that two publishers break it.

**The invariant.** `PublishedComplete` is not inductive: it says that objects exist and not which
commit they came from, nor what a publisher in the middle of its uploads is about to do. `IInv` adds

* `HistoryInv`: main's commits form a history. Any two of them are ordered by `Precedes`: versions of
  root, snapshot and `targets` never decrease, and equal versions have equal content. It follows
  from what `Release` promises. Delegated roles are not among them: one that is removed, and added
  again after the snapshot key has rotated, starts over.
* `PublishersInv`: what a publisher has found to be true of storage is still true: in phase `upload`,
  whatever is not on its list is in storage, and the targets it checked are uploaded.
* `StorageInv`: the published timestamp is that of a commit whose objects are all stored, every
  object is one that some commit has under that name, and the files it lists are uploaded.

From these, `InvComplete` derives `PublishedComplete`: the stored snapshot and `targets` with the versions
that the timestamp's commit lists are those of the commit itself (`StoredIsOwn`), since two commits with
one version have one content. A delegated role's object may come from another commit, which is why the
theorem speaks of files being uploaded and not of whose they are. `StepInv` shows preservation, one
step per action; `OnlyPubChanges` handles those that touch nothing but a publisher's phase. For
`GoesForward`, `SoleInv` adds that what the checks found stays true until the timestamp is put, which holds
since nobody else puts one. `ObjectsStay` adds `ListsInv`: until the snapshot key rotates, main's
snapshot lists every version of every role there has been, so a role that comes back gets a higher one.
`MainIsNotRefused` adds `FollowsInv`, which relates main to every commit before it and not just to the
published one, since any of them may be published next: main's timestamp is not older, and main's
snapshot lists all that the commit's does for as long as every root since has had the commit's key.

## What is only model-checked

* Liveness, in `CiRuns` and `PublishLive`: it is out of the prover's reach, as is `ENABLED`.
* How `CiRuns` relates to `Lifecycle`: no run checks a refinement, as stale statuses and refreshes make steps
  that `Lifecycle` does not have.

## What is not modelled, and why

* JSON, hashes, signatures, PEM, TOML and globs: data that the properties do not tell apart. Two new
  versions of a file always conflict in git, since they differ in the seconds of their expiry and in
  their signatures. `tufops.toml` merges setting by setting, whatever its layout: git refuses some of these
  merges, those of adjacent lines, so that the models merge no less than git does.
* Markdown, terminal and YubiKey I/O, and the wording of what people are shown: they change no state.
* How many open issues there are, and what the one about failures says: nothing reads them.
* Uploads of `add`, six at a time with retries: they end before the event is pushed, and `Publish` takes any
  file as uploaded or not.
* A signer whose push is refused since another signed first: nothing but the work is lost.
* KMS and HTTP errors beyond "the call fails and the run stops".
* `index.html`, which TUF clients do not read.

## Plan

Done: every module above; liveness of publishing and of CI; the safety theorems of `Publish`, `Lifecycle`
and `CiRuns`, and the refinement of `Release`.

Next, in this order:

1. **`CiRuns` implements `Lifecycle`** but for stale statuses and refreshes, which `MainSigned` and
   `RefreshKeepsMain` show to be the differences: stated with the steps that are exempt.
2. **Uploads**: `tufops add` with uploads that fail and are tried again, against "what main lists has been
   uploaded".

## Running it

    tlc -workers 2 -config Keys.cfg MCLifecycle.tla
    tlc -workers 2 -config Rotation.cfg MCPublish.tla
    tlc -workers 2 -config CiRuns.cfg MCCiRuns.tla
    tlapm HistoryProofs.tla
    tlapm LifecycleProofs.tla
    tlapm CiRunsProofs.tla

Each run takes at most three minutes. `LifecycleProofs` takes about five, `ReviewProofs`
and `CiRunsProofs` one and a half; the other proof modules take less than one each.
