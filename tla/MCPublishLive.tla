---------------------------- MODULE MCPublishLive ----------------------------
(* Instances of PublishLive for TLC. *)
EXTENDS PublishLive, MCPublish
==============================================================================
