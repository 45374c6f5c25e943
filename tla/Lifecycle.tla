------------------------------ MODULE Lifecycle ------------------------------
(***************************************************************************)
(* A TUF repository kept with tufops: the main branch, the signing events  *)
(* that people start and sign with the CLI (tufops/src), and the CI runs   *)
(* on main (tufops-ci/src/main.rs).                                        *)
(*                                                                         *)
(* A CI run on an event computes the event's status after merging main     *)
(* into it, and the event is merged on the strength of that status. Here   *)
(* the status is never older than the merge, and a merged branch is        *)
(* deleted. A CI run on main is one step.                                  *)
(***************************************************************************)
EXTENDS EventStatus, TufVerify, GitMerge

CONSTANTS
    Configs,        \* tufops.toml contents people may want
    FirstConfigs,   \* those the repository may start with
    Events,         \* names of signing events; each starts at most once
    RefreshEvent,   \* the name of CI's own event, sign/refresh
    Paths, Descs,   \* target paths, and contents a target may have
    LocalFiles,     \* what people may have to add: paths -> contents
    Directories,    \* sets of paths that --delete may clear, {} for none
    MaxTime         \* bound on time, in days

ASSUME ConfigsAssumption ==
    /\ FirstConfigs \subseteq Configs
    /\ \A c \in Configs : Valid(c)

ASSUME LifecycleAssumption ==
    /\ RefreshEvent \notin Events
    /\ \A files \in LocalFiles : DOMAIN files \subseteq Paths /\ Range(files) \subseteq Descs
    /\ MaxTime \in Nat
    /\ IsFiniteSet(Paths)

VARIABLES
    main,       \* [repo, config]: metadata and tufops.toml at the tip of main
    previous,   \* tufops.toml at the commit before the tip, HEAD^
    events,     \* the open sign/* branches: name -> event
    fresh,      \* event names not used yet
    now,        \* the day
    validity    \* history: the expires_days that main's snapshot and
                \* timestamp were last given a new version with

vars == <<main, previous, events, fresh, now, validity>>

(* An event is [kind, base, old, head, config, intent]: what it was        *)
(* started for, metadata and config of the main commit it started from,    *)
(* those it has now, and which description each target path it is about    *)
(* ought to have (a set, empty for a path not to be listed).               *)

Keys == UNION {UNION {c.roles[r].keys : r \in DOMAIN c.roles} : c \in Configs}

-------------------------------------------------------------------------------
(* The repository once its first `tufops apply` has been signed and merged *)
(* and CI has run.                                                         *)
SignedByAll(repo) ==
    With(repo, [r \in EventRoles(repo) |->
                  [repo.files[r] EXCEPT !.sigs = RoleKeys(repo, r).keys]])

Started(config) ==
    LET first  == SignedByAll(ApplyConfig(EmptyRepo, config, NoConfig, EmptyRepo, 0))
        online == UpdateOnline(first, config, NoConfig, 0)
    IN  SignOnline(config, first, online, {"snapshot", "timestamp"})

Init ==
    /\ \E c \in FirstConfigs :
          /\ main = [repo |-> Started(c), config |-> c]
          /\ previous = c
          /\ validity = [r \in {"snapshot", "timestamp"} |-> c.roles[r].expires]
    /\ events = <<>>
    /\ fresh = Events
    /\ now = 0

-------------------------------------------------------------------------------
(* The CLI *)

\* Mutant: an event may take the name of one that was started before.
Start_ReusesName(e, kind, head, config, intent) ==
    LET signed == SignOnline(config, main.repo, head, EventRoles(head))
    IN  /\ e \in fresh
        /\ Valid(main.config)
        /\ signed # main.repo \/ config # main.config
        /\ fresh' = fresh
        /\ events' = Over(Entry(e, [kind |-> kind, base |-> main.repo, old |-> main.config,
                                    head |-> signed, config |-> config, intent |-> intent]),
                          events)
        /\ UNCHANGED <<main, previous, now, validity>>

(* `Event::start` to `finish`: load main, sign with the online keys,       *)
(* commit and push, unless nothing changed.                                *)
Start(e, kind, head, config, intent) ==
    LET signed == SignOnline(config, main.repo, head, EventRoles(head))
    IN  /\ e \in fresh
        /\ Valid(main.config)
        /\ signed # main.repo \/ config # main.config
        /\ fresh' = fresh \ {e}
        /\ events' = Over(Entry(e, [kind |-> kind, base |-> main.repo, old |-> main.config,
                                    head |-> signed, config |-> config, intent |-> intent]),
                          events)
        /\ UNCHANGED <<main, previous, now, validity>>

(* `tufops apply` of the edited tufops.toml. *)
Apply(e, config) ==
    Start(e, "config",
          ApplyConfig(main.repo, config, main.config, main.repo, now), config,
          [p \in ListedPaths(main.repo) |-> {ListedTargets(main.repo)[p]}])

(* The plan of `add`: files that are not listed as they are, and with       *)
(* --delete, what else is listed in the directory `dir`.                   *)
NewFiles(files) ==
    [p \in {p \in DOMAIN files : At(ListedTargets(main.repo), p) # {files[p]}} |-> files[p]]

Stale(files, dir) == (ListedPaths(main.repo) \cap dir) \ DOMAIN files

(* `tufops add` of local files, which map the paths they go to to their    *)
(* descriptions.                                                           *)
Add(e, files, dir) ==
    LET new   == NewFiles(files)
        stale == Stale(files, dir)
        added == AddTargets(main.repo, main.config, main.repo, new, now)
    IN  Start(e, "add", RemoveTargets(added, main.config, main.repo, stale, now), main.config,
              [p \in DOMAIN new \cup stale |-> At(new, p)])

(* `tufops rm` of the listed paths that its patterns match. *)
Rm(e, paths) ==
    /\ paths # {} /\ paths \subseteq ListedPaths(main.repo)
    /\ Start(e, "rm", RemoveTargets(main.repo, main.config, main.repo, paths, now),
             main.config, [p \in paths |-> {}])

(* `tufops sign` with one YubiKey: the roles that need it, but for those   *)
(* the signer gives up on. The status compares with the commit the event   *)
(* started from.                                                           *)
SignOffline(e, key) ==
    LET ev == events[e]
    IN  /\ key \notin ev.config.online
        /\ Valid(ev.config)
        /\ \E roles \in SUBSET Needs(ev.base, ev.head, key) \ {{}} :
              events' = [events EXCEPT ![e].head = Sign(ev.head, roles, key)]
        /\ UNCHANGED <<main, previous, fresh, now, validity>>

-------------------------------------------------------------------------------
(* CI and maintainers *)

\* What git makes of merging an event and main, and whether it can.
MergeOf(ev) ==
    [repo   |-> MergedRepo(ev.base, main.repo, ev.head),
     config |-> MergedConfig(ev.old, main.config, ev.config)]

MergesCleanly(ev) ==
    /\ ReposMergeCleanly(ev.base, main.repo, ev.head)
    /\ ConfigsMergeCleanly(ev.old, main.config, ev.config)

\* A merge with main has a config and metadata that CI can read.
Readable(m) == Valid(m.config) /\ HasStatus(m.repo)

\* CI merges the event by itself if this is its merge with main.
Automatic(m) == MergesAutomatically(m.config, main.repo, m.repo, m.config = main.config)

(* What CI finds for an event with main merged in: no conflict, a config   *)
(* and metadata it can read, some change, and every signature.             *)
Mergeable(ev) ==
    /\ MergesCleanly(ev)
    /\ MergeOf(ev) # main
    /\ Readable(MergeOf(ev))
    /\ Complete(main.repo, MergeOf(ev).repo)

(* CI pushes the event's own merge commit, whose first parent is the event, *)
(* and a pull request becomes a merge commit whose first parent is main.    *)
Merge(e) ==
    LET m == MergeOf(events[e])
    IN  /\ Mergeable(events[e])
        /\ main' = m
        /\ previous' = IF Automatic(m) THEN events[e].config ELSE main.config
        /\ events' = [n \in DOMAIN events \ {e} |-> events[n]]
        /\ UNCHANGED <<fresh, now, validity>>

(* Someone gives up on an event, as one that conflicts with main asks for. *)
Abandon(e) ==
    /\ events' = [n \in DOMAIN events \ {e} |-> events[n]]
    /\ UNCHANGED <<main, previous, fresh, now, validity>>

(* A CI run works on a commit of main, with the config of the commit before. *)
Tip == [repo |-> main.repo, config |-> main.config, previous |-> previous]

\* What `tufops_cloud::update_online` commits on top of `at`.
OnlineUpdate(at) ==
    LET updated == UpdateOnline(at.repo, at.config, at.previous, now)
    IN  SignOnline(at.config, at.repo, updated, Changed(at.repo, updated))

OnlineUpdated == OnlineUpdate(Tip)

(* `apply_config` to what main has now, as the second half of a CI run     *)
(* does to find the roles that are due.                                    *)
Renewed(at) == ApplyConfig(at.repo, at.config, at.previous, at.repo, now)

DueOnline(at) == {r \in Changed(at.repo, Renewed(at)) : OnlineOnly(at.config, r)}

\* Mutant: forgets that root is due too.
DueOffline_TargetsOnly(at) ==
    {r \in Changed(at.repo, Renewed(at)) : ~OnlineOnly(at.config, r)} \ {"root"}

DueOffline(at) == Changed(at.repo, Renewed(at)) \ DueOnline(at)

(* sign/refresh with the metadata of `at`, and its due roles renewed, saved *)
(* over that of `onto`, main as it was fetched last.                       *)
RefreshOf(at, onto) ==
    LET head == WithRolesFrom(at.repo, Renewed(at), DueOffline(at))
    IN  [kind |-> "refresh", base |-> onto.repo, old |-> onto.config,
         head |-> [head EXCEPT !.history = Over(@, onto.repo.history)],
         config |-> onto.config,
         intent |-> [p \in ListedPaths(onto.repo) |-> {ListedTargets(onto.repo)[p]}]]

(* `main_branch`: sign and push the online roles that are due, publish,    *)
(* then start sign/refresh for the offline ones unless it is open. A run   *)
(* that fails to publish ends there.                                       *)
CiRun(published) ==
    LET at == [Tip EXCEPT !.repo = OnlineUpdated]
    IN  /\ main' = [main EXCEPT !.repo = at.repo]
        /\ previous' = IF at.repo = main.repo THEN previous ELSE main.config
        /\ published => Verify(at.repo, now)
        /\ events' = IF published /\ DueOffline(at) # {} /\ RefreshEvent \notin DOMAIN events
                     THEN Over(Entry(RefreshEvent, RefreshOf(at, at)), events)
                     ELSE events
        /\ validity' = [r \in DOMAIN validity |->
                          IF at.repo.files[r] = main.repo.files[r]
                          THEN validity[r]
                          ELSE main.config.roles[r].expires]
        /\ UNCHANGED <<fresh, now>>

Tick ==
    /\ now < MaxTime
    /\ now' = now + 1
    /\ UNCHANGED <<main, previous, events, fresh, validity>>

Next ==
    \/ \E e \in fresh, c \in Configs : Apply(e, c)
    \/ \E e \in fresh, files \in LocalFiles, dir \in Directories : Add(e, files, dir)
    \/ \E e \in fresh, paths \in SUBSET Paths : Rm(e, paths)
    \/ \E e \in DOMAIN events, k \in Keys : SignOffline(e, k)
    \/ \E e \in DOMAIN events : Merge(e)
    \/ \E e \in DOMAIN events : Abandon(e)
    \/ \E published \in BOOLEAN : CiRun(published)
    \/ Tick

Spec == Init /\ [][Next]_vars

-------------------------------------------------------------------------------
(* Properties *)

IsRepo(repo) ==
    /\ \A r \in DOMAIN repo.files :
          /\ repo.files[r].version \in Nat \ {0}
          /\ repo.files[r].sigs \subseteq Keys
          /\ repo.files[r].expires \in Nat
    /\ DOMAIN repo.history \subseteq Nat \ {0}
    /\ \A r \in TargetsRoles(repo) : \A p \in DOMAIN TargetsOf(repo, r) :
          p \in Paths /\ TargetsOf(repo, r)[p] \in Descs

\* The state is well formed, and main's tufops.toml is one `validate` accepts.
TypeOK ==
    /\ IsRepo(main.repo) /\ Valid(main.config)
    /\ DOMAIN events \subseteq Events \cup {RefreshEvent}
    /\ \A e \in DOMAIN events : IsRepo(events[e].base) /\ IsRepo(events[e].head)
    /\ fresh \subseteq Events /\ fresh \cap DOMAIN events = {}
    /\ now \in 0 .. MaxTime

(* Every role on main that people or events sign has a threshold of the    *)
(* keys main gives it, whichever events changed keys and content in        *)
(* parallel (status.rs, `EventStatus::new` on the merge with main).        *)
MainSigned ==
    \A r \in EventRoles(main.repo) :
        HasKeys(main.repo, r) /\ Trusts(main.repo, r, main.repo.files[r])

(* A client that trusts root version 1 can walk to main's root: each       *)
(* version is there and signed by the keys of the one before               *)
(* (repo.rs, `requirements` and the history kept by `put`).                *)
MainRootChain == RootChain(main.repo)

(* Keys, thresholds, paths and search order on main are those of main's    *)
(* tufops.toml, though events that change them merge file by file.         *)
MainMatchesConfig ==
    /\ main.repo.files["root"].body = RootBody(main.config)
    /\ Delegations(main.repo) = ConfigDelegations(main.config)

(* Whatever has been merged, a CI run leaves metadata on main that         *)
(* `verify` accepts, unless a role people sign has expired (repo.rs,       *)
(* `update_online`, with the signatures `sign_online` adds).               *)
CiLeavesMainPublishable ==
    (\A r \in EventRoles(main.repo) : Unexpired(main.repo, r, now))
        => Verify(OnlineUpdated, now)

(* A CI run has nothing left to do right after another: it makes no new    *)
(* versions on its own account (repo.rs, `update`).                        *)
OnlineUpdateIsIdempotent ==
    UpdateOnline(OnlineUpdated, main.config, main.config, now) = OnlineUpdated

(* The CLI's events do what they are for: clients of the event's metadata  *)
(* find the added target, no longer find the removed one in any role, and  *)
(* after a change of tufops.toml find every target listed before, unless   *)
(* two roles listed it as different files (repo.rs, `add_targets`,         *)
(* `remove_targets`, `apply_config`).                                      *)
EventsDoWhatTheySay ==
    \A e \in DOMAIN events :
        LET ev == events[e]
        IN  ev.kind # "refresh" =>
            \A p \in DOMAIN ev.intent :
                (ev.kind = "config" => ListedAlike(ev.base, p)) =>
                    /\ ClientFinds(ev.head, p) = ev.intent[p]
                    /\ p \in ListedPaths(ev.head) <=> ev.intent[p] # {}

\* What else an event from the commit `base` may look like: main, or another.
Alternatives(base) == {base} \cup {ev.head : ev \in {ev \in Range(events) : ev.base = base}}

AddsDelegations(base, head) ==
    \E d \in ToSet(Delegations(head)) : Named(Delegations(base), d.name) = {}

(* Signers can tell apart what they are asked to sign: metadata for which  *)
(* they are shown the same changes of the same commit lists the same       *)
(* targets and delegates in the same way (status.rs, `changes`), unless    *)
(* roles of the commit list a path as different files. The order of        *)
(* delegations is left out if some are new.                                *)
ReviewTellsContentsApart ==
    \A ev \in Range(events) : \A other \in Alternatives(ev.base) :
        /\ \A p \in Paths : ListedAlike(ev.base, p)
        /\ Review(ev.base, ev.head) = Review(ev.base, other)
        =>
            /\ TargetsRoles(ev.head) = TargetsRoles(other)
            /\ \A r \in TargetsRoles(other) : TargetsOf(ev.head, r) = TargetsOf(other, r)
            /\ ev.head.files["root"].body = other.files["root"].body
            /\ ToSet(Delegations(ev.head)) = ToSet(Delegations(other))
            /\ \/ Delegations(ev.head) = Delegations(other)
               \/ AddsDelegations(ev.base, other)

(* A role's version on main never goes back, new content always has a new  *)
(* version, and a role that comes back goes on from the version the        *)
(* snapshot lists (repo.rs, `update`).                                     *)
VersionsGoForward ==
    [][\A r \in DOMAIN main'.repo.files :
          LET new == main'.repo.files[r]
          IN  IF Has(main.repo, r)
              THEN \/ new = main.repo.files[r]
                   \/ new.version > main.repo.files[r].version
              ELSE new.version > SnapshotVersion(main.repo, r)]_vars

(* A client accepts each new snapshot: it lists every role the last one    *)
(* did, none at an older version, unless the root no longer trusts that    *)
(* one (repo.rs, `update_online`).                                         *)
SnapshotKeepsRoles ==
    [][LET old == main.repo.files["snapshot"]
       IN  \/ ~Trusts(main'.repo, "snapshot", old)
           \/ \A r \in DOMAIN old.body :
                 SnapshotVersion(main'.repo, r) >= old.body[r]]_vars

(* Once the snapshot keys have rotated, the next snapshot lists only the   *)
(* current roles (repo.rs, `update_online`).                               *)
RotationStartsOver ==
    [][LET old == main.repo.files["snapshot"]
           new == main'.repo.files["snapshot"]
       IN  new # old /\ ~Trusts(main.repo, "snapshot", old)
             => DOMAIN new.body = TargetsRoles(main'.repo)]_vars

(* When CI starts sign/refresh, its metadata leaves no role that people    *)
(* sign in its signing period (tufops-ci/src/main.rs, `main_branch`).      *)
RefreshRenewsAllThatIsDue ==
    [][(RefreshEvent \in DOMAIN events' \ DOMAIN events) =>
         LET head == events'[RefreshEvent].head
         IN  \A r \in EventRoles(head) :
                 \/ OnlineOnly(main.config, r)
                 \/ ~InSigningPeriod(main.config.roles[r], head.files[r].expires, now)]_vars

(* What Release says of a commit: each file's content and version, and     *)
(* who signed the snapshot.                                                *)
CommitOf(repo) ==
    LET file == repo.files
    IN  [root |-> file["root"].version,
         keys |-> [n \in 1 .. file["root"].version |-> repo.history[n].body["snapshot"].keys],
         roles |-> [r \in TargetsRoles(repo) |->
                      [version |-> file[r].version,
                       files |-> {<<p, TargetsOf(repo, r)[p]>> : p \in DOMAIN TargetsOf(repo, r)},
                       delegates |-> {d.name : d \in ToSet(file[r].body.delegations)}]],
         snapshot |-> [version |-> file["snapshot"].version, key |-> file["snapshot"].sigs,
                       meta |-> file["snapshot"].body],
         timestamp |-> [version |-> file["timestamp"].version,
                        snapshot |-> file["timestamp"].body]]

R == INSTANCE Release WITH main <- CommitOf(main.repo)

(* Every history of main is one that Release allows, the promise that      *)
(* publishing relies on: a merge leaves snapshot and timestamp alone and   *)
(* gives what changes a higher version, and CI lists all of it.            *)
ImplementsRelease == R!ReleaseSpec

(* Only `tufops rm` removes a target (MANUAL.md:478: "Targets are never    *)
(* dropped").                                                              *)
TargetsAreNeverDropped ==
    [][\A e \in DOMAIN events :
          events[e].kind # "rm" /\ e \notin DOMAIN events'
              => ListedPaths(main.repo) \subseteq ListedPaths(main'.repo)]_vars

(* A CI run signs new versions of snapshot and timestamp once a change of  *)
(* their expires_days is merged (MANUAL.md:493).                           *)
ExpiresDaysTakeEffect ==
    \A r \in DOMAIN validity :
        \/ OnlineUpdated.files[r] # main.repo.files[r]
        \/ validity[r] = main.config.roles[r].expires
==============================================================================
