----------------------------- MODULE PublishLive ------------------------------
(***************************************************************************)
(* What publishing owes to those who merge: main gets published. CI runs   *)
(* on every push to main and every six hours, so another run on main's     *)
(* commit always follows, and whatever goes wrong in runs does not go      *)
(* wrong in every one of them: each call to the storage succeeds now and   *)
(* then. Nothing is assumed of runs that publish other commits, of people, *)
(* or of how long main stays as it is.                                     *)
(***************************************************************************)
EXTENDS Publish

CONSTANT CI     \* the publisher that CI is

OnMain == pub[CI].release = main

Fairness ==
    /\ SF_vars(Begin(CI) /\ pub'[CI].release = main)
    /\ SF_vars(CheckTimestamp(CI) /\ OnMain)
    /\ SF_vars(CheckSnapshot(CI) /\ OnMain)
    /\ SF_vars(CheckTargets(CI) /\ OnMain)
    /\ SF_vars(Compare(CI) /\ OnMain)
    /\ SF_vars(PutObject(CI) /\ OnMain)
    /\ SF_vars(PutTimestamp(CI) /\ OnMain)
    /\ SF_vars(Finish(CI) \/ Abort(CI))

LiveSpec == Spec /\ Fairness

(* Main passes `verify` and `check_snapshot`, and its targets are uploaded. *)
Ready == Verified(main) /\ UploadsComplete(main) /\ ~RotatedBack(main)

(* Again and again the published timestamp is main's, or main cannot be    *)
(* published: no run that stopped half way, no other publisher and no      *)
(* object it left behind keeps CI from publishing main for good            *)
(* (publish.rs, `publish`).                                                *)
MainGetsPublished == []<>(Ready => timestamp = main.timestamp)
==============================================================================
