-------------------------------- MODULE CiRuns --------------------------------
(***************************************************************************)
(* The CI runs that Lifecycle takes as single steps, step by step:         *)
(* tufops-ci/src/main.rs with the workflow of MANUAL.md. Every push to a   *)
(* branch asks for a run on the pushed commit. A branch has one run at a   *)
(* time, and one waits: the newest. Runs on different branches interleave  *)
(* with each other and with people, and may fail between any two steps.    *)
(*                                                                         *)
(* GitHub merges a pull request if git can and the tip of its branch has   *)
(* the status tufops/signatures, whatever main was when CI set it, and     *)
(* deletes the branch.                                                     *)
(***************************************************************************)
EXTENDS Lifecycle

VARIABLES
    waiting,      \* event -> the pushed commit whose run has not started
    jobs,         \* event -> the run on it
    current,      \* the runs for which main is still what they fetched
    mainPhase,    \* how far the run on main has come
    mainJob,      \* the commit it works on
    ready,        \* events whose tip has the status tufops/signatures
    failed,       \* events whose tip has a failed run, which CI reports
    pulls,        \* events with an open pull request
    issue         \* the roles that the issue about renewals lists

ciVars == <<waiting, jobs, current, mainPhase, mainJob, ready, failed, pulls, issue>>

\* A run that merges an event is [ev, attempt, phase, merged]: the
\* commit it is for, and what it made of it when it last fetched main.

NoCommit == <<>>

\* `current` tells the run on main from those on events.
ASSUME CiAssumption == "main" \notin Events \cup {RefreshEvent}

CiInit ==
    /\ Init
    /\ waiting = <<>> /\ jobs = <<>> /\ current = {}
    /\ mainPhase = "none" /\ mainJob = NoCommit
    /\ ready = {} /\ failed = {} /\ pulls = {} /\ issue = {}

Without(f, e) == [n \in DOMAIN f \ {e} |-> f[n]]

-------------------------------------------------------------------------------
(* Pushes *)

\* A new tip of the event's branch has no status yet, and asks for a run.
Pushed(e) ==
    /\ waiting' = Over(Entry(e, events'[e]), waiting)
    /\ ready' = ready \ {e}
    /\ failed' = failed \ {e}

\* Main moves to `commit`, on top of one that had the config `before`.
Advance(commit, before) ==
    /\ main' = commit
    /\ previous' = before
    /\ current' = {}

\* Git merges the event with the main it went into as a commit main contains.
Landed(ev) == [ev EXCEPT !.base = ev.head, !.old = ev.config]

LandedIn(f, e) == [n \in DOMAIN f |-> IF n = e THEN Landed(f[n]) ELSE f[n]]

\* Mutant: the pull request of a deleted branch stays open.
BranchIsGone_KeepsPull(e) ==
    /\ events' = Without(events, e)
    /\ ready' = ready \ {e}
    /\ failed' = failed \ {e}
    /\ UNCHANGED pulls

BranchIsGone(e) ==
    /\ events' = Without(events, e)
    /\ ready' = ready \ {e}
    /\ failed' = failed \ {e}
    /\ pulls' = pulls \ {e}

-------------------------------------------------------------------------------
(* People, and the clock *)

PushEvent(e) ==
    /\ \/ \E c \in Configs : Apply(e, c)
       \/ \E files \in LocalFiles, dir \in Directories : Add(e, files, dir)
       \/ \E paths \in SUBSET Paths : Rm(e, paths)
       \/ e \in DOMAIN events /\ \E k \in Keys : SignOffline(e, k)
    /\ Pushed(e)
    /\ UNCHANGED <<jobs, current, mainPhase, mainJob, pulls, issue>>

MergePull(e) ==
    /\ e \in ready \cap pulls
    /\ MergesCleanly(events[e])
    /\ Advance(MergeOf(events[e]), main.config)
    /\ BranchIsGone(e)
    /\ waiting' = LandedIn(waiting, e)
    /\ jobs' = [n \in DOMAIN jobs |->
                  IF n = e THEN [jobs[n] EXCEPT !.ev = Landed(@)] ELSE jobs[n]]
    /\ UNCHANGED <<fresh, now, validity, mainPhase, mainJob, issue>>

(* What CI asks for when an event conflicts with main, and anyone may do.  *)
DeleteBranch(e) ==
    /\ Abandon(e)
    /\ BranchIsGone(e)
    /\ UNCHANGED <<waiting, jobs, current, mainPhase, mainJob, issue>>

NextDay == Tick /\ UNCHANGED ciVars

-------------------------------------------------------------------------------
(* `signing_event` *)

Reached(e, phase) == e \in DOMAIN jobs /\ jobs[e].phase = phase

\* `ev` is what the branch has now.
AtTip(e, ev) == e \in DOMAIN events /\ events[e] = ev

\* The failed runs, with one on the commit `ev`.
Failed(e, ev) == IF AtTip(e, ev) THEN failed \cup {e} ELSE failed

\* Main merges into the commit, and that changes something.
Goes(ev) == MergesCleanly(ev) /\ Readable(MergeOf(ev)) /\ MergeOf(ev) # main

\* There is something wrong with the commit.
CannotGoOn(ev) ==
    ~MergesCleanly(ev) \/ (MergeOf(ev) # main /\ ~Readable(MergeOf(ev)))

\* The status of the commit `ev`, which need not be the tip any more.
WithStatus(e, ev) ==
    IF ~Goes(ev) \/ ~AtTip(e, ev) THEN ready
    ELSE IF Complete(main.repo, MergeOf(ev).repo) THEN ready \cup {e} ELSE ready \ {e}

(* Fetch main, merge it into the commit `ev` that was pushed, and fail on  *)
(* a conflict or what CI cannot read. Set the status of the commit, and    *)
(* open a pull request, which a branch that is gone cannot have, unless    *)
(* the run goes on to merge the event.                                     *)
Fetch(e, ev, attempt) ==
    LET m    == MergeOf(ev)
        auto == Goes(ev) /\ Automatic(m)
    IN  /\ ready' = WithStatus(e, ev)
        /\ pulls' = IF Goes(ev) /\ ~auto /\ e \in DOMAIN events THEN pulls \cup {e} ELSE pulls
        /\ jobs' = IF auto
                   THEN Over(Entry(e, [ev |-> ev, attempt |-> attempt, phase |-> "push",
                                       merged |-> m]), jobs)
                   ELSE Without(jobs, e)
        /\ current' = IF auto THEN current \cup {e} ELSE current \ {e}
        /\ failed' = IF CannotGoOn(ev) THEN Failed(e, ev) ELSE failed

CanStart(e) == e \in DOMAIN waiting \ DOMAIN jobs

StartRun(e) ==
    /\ CanStart(e)
    /\ Fetch(e, waiting[e], 1)
    /\ waiting' = Without(waiting, e)
    /\ UNCHANGED <<vars, mainPhase, mainJob, issue>>

MaxAttempts == 3

\* Mutant: the push is forced.
PushMerge_Forced(e) ==
    /\ Reached(e, "push")
    /\ Advance(jobs[e].merged, jobs[e].ev.config)
    /\ jobs' = [jobs EXCEPT ![e].phase = "delete", ![e].ev = Landed(@)]
    /\ events' = IF e \in DOMAIN events /\ events[e] = jobs[e].ev
                 THEN LandedIn(events, e) ELSE events
    /\ UNCHANGED <<fresh, now, validity, waiting, mainPhase, mainJob, ready, failed, pulls, issue>>

PushMerge(e) ==
    /\ Reached(e, "push")
    /\ e \in current
    /\ Advance(jobs[e].merged, jobs[e].ev.config)
    /\ jobs' = [jobs EXCEPT ![e].phase = "delete", ![e].ev = Landed(@)]
    /\ events' = IF e \in DOMAIN events /\ events[e] = jobs[e].ev
                 THEN LandedIn(events, e) ELSE events
    /\ UNCHANGED <<fresh, now, validity, waiting, mainPhase, mainJob, ready, failed, pulls, issue>>

\* Mutant: the run leaves the event to another one, as a run on main may.
MergeAgain_Leaves(e) ==
    /\ Reached(e, "push")
    /\ jobs' = Without(jobs, e)
    /\ current' = current \ {e}
    /\ UNCHANGED <<vars, waiting, mainPhase, mainJob, ready, failed, pulls, issue>>

(* The push fails, or is refused as main has moved. Merge again, three      *)
(* times at most.                                                          *)
MergeAgain(e) ==
    LET job == jobs[e]
    IN  /\ Reached(e, "push")
        /\ IF job.attempt < MaxAttempts
           THEN Fetch(e, job.ev, job.attempt + 1)
           ELSE /\ jobs' = Without(jobs, e)
                /\ current' = current \ {e}
                /\ failed' = Failed(e, job.ev)
                /\ UNCHANGED <<ready, pulls>>
        /\ UNCHANGED <<vars, waiting, mainPhase, mainJob, issue>>

(* Delete the branch. If it is gone that fails.                            *)
Delete(e) ==
    /\ Reached(e, "delete")
    /\ BranchIsGone(e)
    /\ jobs' = Without(jobs, e)
    /\ UNCHANGED <<main, previous, fresh, now, validity, waiting, current, mainPhase, mainJob, issue>>

\* GitHub, the network or the runner fails, before the status is set again or after.
FailRun(e) ==
    LET ev == IF e \in DOMAIN jobs THEN jobs[e].ev ELSE waiting[e]
    IN  /\ e \in DOMAIN jobs \cup DOMAIN waiting
        /\ jobs' = Without(jobs, e)
        /\ waiting' = IF e \in DOMAIN jobs THEN waiting ELSE Without(waiting, e)
        /\ current' = current \ {e}
        /\ ready' \in {ready, WithStatus(e, ev)}
        /\ failed' = Failed(e, ev)
        /\ UNCHANGED <<vars, mainPhase, mainJob, pulls, issue>>

(* Someone who reads the report of a failed run may run it again.          *)
Rerun(e) ==
    /\ e \in failed
    /\ waiting' = Over(Entry(e, events[e]), waiting)
    /\ failed' = failed \ {e}
    /\ UNCHANGED <<vars, jobs, current, mainPhase, mainJob, ready, pulls, issue>>

-------------------------------------------------------------------------------
(* `main_branch`. Of the runs on main, the newest commit's waits. *)

\* The tip, and of the commit before it a config that can be read.
Checkout == [Tip EXCEPT !.previous = IF Valid(@) THEN @ ELSE NoConfig]

StartMain ==
    /\ mainPhase \in {"none", "failed"}
    /\ mainPhase' = "online"
    /\ mainJob' = Checkout
    /\ current' = current \cup {"main"}
    /\ UNCHANGED <<vars, waiting, jobs, ready, failed, pulls, issue>>

\* Mutant: the push is forced.
Online_Forced ==
    LET repo == OnlineUpdate(mainJob)
        config == mainJob.config
    IN  /\ mainPhase = "online"
        /\ Valid(config)
        /\ IF repo = mainJob.repo
           THEN /\ current' = current \ {"main"}
                /\ UNCHANGED <<main, previous, validity>>
           ELSE /\ Advance([repo |-> repo, config |-> config], config)
                /\ validity' = [r \in DOMAIN validity |->
                                  IF repo.files[r] = mainJob.repo.files[r]
                                  THEN validity[r] ELSE config.roles[r].expires]
        /\ mainPhase' = "publish"
        /\ mainJob' = [mainJob EXCEPT !.repo = repo]
        /\ UNCHANGED <<events, fresh, now, waiting, jobs, ready, failed, pulls, issue>>

\* Mutant: a run with nothing to push has nothing to do.
Online_DoneIfNothingIsDue ==
    LET repo == OnlineUpdate(mainJob)
        config == mainJob.config
    IN  /\ mainPhase = "online"
        /\ Valid(config)
        /\ IF repo = mainJob.repo
           THEN /\ current' = current \ {"main"}
                /\ UNCHANGED <<main, previous, validity>>
           ELSE /\ "main" \in current
                /\ Advance([repo |-> repo, config |-> config], config)
                /\ validity' = [r \in DOMAIN validity |->
                                  IF repo.files[r] = mainJob.repo.files[r]
                                  THEN validity[r] ELSE config.roles[r].expires]
        /\ mainPhase' = IF repo = mainJob.repo THEN "none" ELSE "publish"
        /\ mainJob' = IF repo = mainJob.repo THEN NoCommit ELSE [mainJob EXCEPT !.repo = repo]
        /\ UNCHANGED <<events, fresh, now, waiting, jobs, ready, failed, pulls, issue>>

(* Sign the online roles that are due and push them.                       *)
Online ==
    LET repo == OnlineUpdate(mainJob)
        config == mainJob.config
    IN  /\ mainPhase = "online"
        /\ Valid(config)
        /\ IF repo = mainJob.repo
           THEN /\ current' = current \ {"main"}
                /\ UNCHANGED <<main, previous, validity>>
           ELSE /\ "main" \in current
                /\ Advance([repo |-> repo, config |-> config], config)
                /\ validity' = [r \in DOMAIN validity |->
                                  IF repo.files[r] = mainJob.repo.files[r]
                                  THEN validity[r] ELSE config.roles[r].expires]
        /\ mainPhase' = "publish"
        /\ mainJob' = [mainJob EXCEPT !.repo = repo]
        /\ UNCHANGED <<events, fresh, now, waiting, jobs, ready, failed, pulls, issue>>

\* Main has moved: the push is refused, and left to the run for the newer commit.
LeaveToNewerRun ==
    /\ mainPhase = "online"
    /\ Valid(mainJob.config)
    /\ OnlineUpdate(mainJob) # mainJob.repo
    /\ "main" \notin current
    /\ mainPhase' = "none" /\ mainJob' = NoCommit
    /\ UNCHANGED <<vars, waiting, jobs, current, ready, failed, pulls, issue>>

\* Mutant: with roles to report, a run starts no sign/refresh.
Publish_ReportsOnly ==
    /\ mainPhase = "publish"
    /\ Verify(mainJob.repo, now)
    /\ IF DueOnline(mainJob) = {} /\ DueOffline(mainJob) # {} /\ RefreshEvent \notin DOMAIN events
       THEN /\ events' = Over(Entry(RefreshEvent, RefreshOf(mainJob, main)), events)
            /\ Pushed(RefreshEvent)
       ELSE UNCHANGED <<events, waiting, ready, failed>>
    /\ issue' = DueOnline(mainJob)
    /\ mainPhase' = "none" /\ mainJob' = NoCommit
    /\ UNCHANGED <<main, previous, fresh, now, validity, jobs, current, pulls>>

(* Publish, fetch, start sign/refresh unless it is open, and report the     *)
(* roles that CI cannot renew.                                             *)
Publish ==
    /\ mainPhase = "publish"
    /\ Verify(mainJob.repo, now)
    /\ IF DueOffline(mainJob) # {} /\ RefreshEvent \notin DOMAIN events
       THEN /\ events' = Over(Entry(RefreshEvent, RefreshOf(mainJob, main)), events)
            /\ Pushed(RefreshEvent)
       ELSE UNCHANGED <<events, waiting, ready, failed>>
    /\ issue' = DueOnline(mainJob)
    /\ mainPhase' = "none" /\ mainJob' = NoCommit
    /\ UNCHANGED <<main, previous, fresh, now, validity, jobs, current, pulls>>

\* As FailRun, and what cannot be read or published.
FailMain ==
    /\ mainPhase \in {"online", "publish"}
    /\ mainPhase' = "failed" /\ mainJob' = NoCommit
    /\ current' = current \ {"main"}
    /\ UNCHANGED <<vars, waiting, jobs, ready, failed, pulls, issue>>

-------------------------------------------------------------------------------
Branches == Events \cup {RefreshEvent}

CiNext ==
    \/ \E e \in Branches : PushEvent(e)
    \/ \E e \in DOMAIN events : MergePull(e)
    \/ \E e \in DOMAIN events : DeleteBranch(e)
    \/ \E e \in Branches : StartRun(e)
    \/ \E e \in Branches : PushMerge(e)
    \/ \E e \in Branches : MergeAgain(e)
    \/ \E e \in Branches : Delete(e)
    \/ \E e \in Branches : FailRun(e)
    \/ \E e \in failed : Rerun(e)
    \/ NextDay
    \/ StartMain
    \/ Online
    \/ LeaveToNewerRun
    \/ Publish
    \/ FailMain

allVars == <<vars, ciVars>>

CiSpec == CiInit /\ [][CiNext]_allVars

(* What steps of a run on main have of their own is the phase that they    *)
(* end. A run whose commit cannot be read or published ends in failure.    *)
MainGoesOn(phase, next) ==
    /\ mainPhase = phase
    /\ phase = "online" => Valid(mainJob.config)
    /\ phase = "publish" => Verify(mainJob.repo, now)
    /\ mainPhase' \in next

(* Runs start, one on main again and again for the schedule, and end. They *)
(* may fail any number of times, but the scheduled ones on main not        *)
(* always. A run does not wait for ever while its branch has none, and     *)
(* none goes on for ever: what it does next ends it within its attempts,   *)
(* so this is the weak fairness of its steps. Nobody need run a failed one *)
(* again.                                                                  *)
CiFairness ==
    /\ WF_mainPhase(StartMain)
    /\ SF_mainPhase(MainGoesOn("online", {"publish", "none"}))
    /\ SF_mainPhase(MainGoesOn("publish", {"none"}))
    /\ \A e \in Branches : []<>~CanStart(e) /\ []<>(e \notin DOMAIN jobs)

FairCiSpec == CiSpec /\ CiFairness

-------------------------------------------------------------------------------
(* Properties *)

\* The state is well formed: statuses, failures and pull requests are those of
\* branches.
CiTypeOK ==
    /\ ready \cup failed \cup pulls \subseteq DOMAIN events
    /\ DOMAIN waiting \cup DOMAIN jobs \subseteq Branches
    /\ \A e \in DOMAIN jobs : jobs[e].attempt \in 1 .. MaxAttempts /\ jobs[e].phase \in {"push", "delete"}
    /\ current \subseteq DOMAIN jobs \cup {"main"}
    /\ mainPhase \in {"none", "online", "publish", "failed"}
    /\ issue \subseteq UNION {DOMAIN c.roles : c \in Configs}

(* What CI merges by itself takes back nothing that was merged since the    *)
(* event started, although main has moved since the run first fetched it,  *)
(* and both its merge and its push work on what was fetched: a role that   *)
(* main has changed stays as main has it, and no role gets a version       *)
(* before main's, but from a sign/refresh (`signing_event`).               *)
CiMergesLoseNothing ==
    [][\A e \in Branches : Reached(e, "push") /\ Reached(e, "delete")' =>
         \A r \in DOMAIN main.repo.files :
            LET before == At(main.repo.files, r)
                after  == At(main'.repo.files, r)
            IN  /\ after = before \/ before = At(jobs[e].ev.base.files, r)
                /\ jobs[e].ev.kind # "refresh" =>
                      \A old \in before, new \in after : new.version >= old.version]_allVars

(* What CI merges by itself leaves main completely signed, a new root also  *)
(* by the last one's keys, and tufops.toml as it is, although signatures   *)
(* and keys were compared with a main that may have moved before the push, *)
(* and main may lack signatures itself (`signing_event`).                  *)
CiMergesWhatIsSigned ==
    [][\A e \in Branches : Reached(e, "push") /\ Reached(e, "delete")' =>
         /\ main'.config = main.config
         /\ \A r \in EventRoles(main'.repo) :
               HasKeys(main'.repo, r) /\ RoleComplete(main.repo, main'.repo, r)]_allVars

(* A run on main changes nothing on main but the roles CI signs, although  *)
(* it works on a commit that may be old by then (`main_branch`).           *)
OnlineUpdateKeepsMerges ==
    [][(main' # main /\ mainPhase' # mainPhase) =>
         /\ main'.config = main.config
         /\ \A r \in DOMAIN main.repo.files \cup DOMAIN main'.repo.files :
               CiSigns(main.config, r) \/ main'.repo.files[r] = main.repo.files[r]]_allVars

Verifies == Valid(main.config) /\ Verify(OnlineUpdated, now)

UpToDate == [Tip EXCEPT !.repo = OnlineUpdated]

Publishes(repo) == mainPhase = "publish" /\ mainPhase' = "none" /\ mainJob.repo = repo

(* CI catches up with main: again and again it publishes what main has,    *)
(* signed by the online keys, and the issue about renewals lists the roles *)
(* that CI cannot renew, unless what main has cannot be read or published  *)
(* (`main_branch`).                                                        *)
CiCatchesUp ==
    \/ []<>~Verifies
    \/ /\ []<><<Publishes(main.repo) /\ main.repo = OnlineUpdated>>_allVars
       /\ []<>(issue = DueOnline(UpToDate))

(* Roles that people sign do not come due without sign/refresh being       *)
(* started, as long as main can be published (`main_branch`).              *)
RefreshGetsStarted ==
    []<>(Verifies /\ DueOffline(UpToDate) # {} => RefreshEvent \in DOMAIN events)

MergesByItself(e) ==
    e \in DOMAIN events /\ Mergeable(events[e]) /\ Automatic(MergeOf(events[e]))

(* An event that online keys alone sign does not lie there unnoticed: CI   *)
(* merges it or the run on it fails, and is reported, unless main or the   *)
(* event changes so that CI may not merge it any more (`signing_event`).   *)
OnlineEventsMergeOrFail ==
    \A e \in Events :
        (e \in DOMAIN waiting /\ MergesByItself(e)) ~> (~MergesByItself(e) \/ e \in failed)

(* The sign/refresh that CI starts takes no role back to a version before  *)
(* that of main (tufops-ci/src/main.rs:275).                               *)
RefreshKeepsMain ==
    \A e \in DOMAIN events \cap {RefreshEvent} :
        LET ev == events[e]
        IN  \A r \in EventRoles(ev.base) :
                Has(ev.head, r) /\ ev.head.files[r].version >= ev.base.files[r].version
==============================================================================
