------------------------------ MODULE TufConfig ------------------------------
(***************************************************************************)
(* tufops.toml as tufops-core/src/config.rs reads it: which keys sign each *)
(* role, how long its versions are valid, and the delegated roles in the   *)
(* order clients search them.                                              *)
(*                                                                         *)
(* A configuration is a record                                             *)
(*   roles  : role name -> [keys, threshold, expires, signing, paths]      *)
(*   order  : the delegated roles, first searched first                    *)
(*   online : the keys that have a cloud KMS URI; a person holds the others*)
(* `paths` is the set of target paths the role's patterns match. Key names *)
(* and public keys are the same values, and days are units of time.        *)
(***************************************************************************)
EXTENDS Integers, FiniteSets, SequencesExt

TopLevel == {"root", "targets", "snapshot", "timestamp"}

\* Stands for `previous: None`, a config that says nothing of any role.
NoConfig == [roles |-> <<>>, order |-> <<>>, online |-> {}]

(* The checks of `parse` and `validate` that are about meaning, not syntax. *)
ValidRole(config, role) ==
    LET rc == config.roles[role]
    IN  /\ rc.threshold \in 1 .. Cardinality(rc.keys)
        /\ rc.expires \in Nat /\ rc.signing \in 1 .. rc.expires - 1
        /\ role \in {"snapshot", "timestamp"} => rc.keys \subseteq config.online
        /\ role \in TopLevel <=> rc.paths = {}

Valid(config) ==
    /\ config.order \in Seq(DOMAIN config.roles)
    /\ DOMAIN config.roles = TopLevel \cup ToSet(config.order)
    /\ TopLevel \cap ToSet(config.order) = {}
    /\ IsInjective(config.order)
    /\ \A role \in DOMAIN config.roles : ValidRole(config, role)

InSigningPeriod(rc, expires, now) == expires - now < rc.signing

(* Every key of `role` is online; a role the config lacks is not. *)
OnlineOnly(config, role) ==
    /\ role \in DOMAIN config.roles
    /\ config.roles[role].keys \subseteq config.online

(* CI holds the keys of snapshot and timestamp only, so it signs the roles *)
(* that need no other key.                                                 *)
CiSigns(config, role) ==
    /\ role \in DOMAIN config.roles
    /\ config.roles[role].keys \subseteq
           config.roles["snapshot"].keys \cup config.roles["timestamp"].keys
==============================================================================
