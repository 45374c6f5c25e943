----------------------------- MODULE EventStatus -----------------------------
(***************************************************************************)
(* What a signing event changes compared with main, whose signatures it    *)
(* still needs and how it gets merged: tufops-core/src/status.rs. `head`   *)
(* is the event's metadata and `base` that of the main commit it is        *)
(* compared with.                                                          *)
(***************************************************************************)
EXTENDS Changes

\* `EventStatus::new` fails on a role nobody delegates to.
HasStatus(head) == \A r \in EventRoles(head) : HasKeys(head, r)

RoleComplete(base, head, role) ==
    \A req \in Requirements(head, base, role) : Met(head.files[role], req)

ChangedIn(base, head, role) ==
    \/ ~Has(base, role)
    \/ base.files[role] # head.files[role]

\* Mutant: the status forgets unchanged roles that lack signatures.
StatusRoles_ChangedOnly(base, head) == {r \in EventRoles(head) : ChangedIn(base, head, r)}

\* The roles of the status: those that changed or lack signatures.
StatusRoles(base, head) ==
    {r \in EventRoles(head) : ChangedIn(base, head, r) \/ ~RoleComplete(base, head, r)}

(* What people are shown of the event, by role. *)
Review(base, head) ==
    [r \in EventRoles(head) |->
       IF ChangedIn(base, head, r) THEN RoleChanges(base, head, r) ELSE NoChanges]

Complete(base, head) ==
    \A r \in StatusRoles(base, head) : RoleComplete(base, head, r)

\* The roles that still need a signature from `key`.
Needs(base, head, key) ==
    {r \in StatusRoles(base, head) : key \in MissingKeys(head, base, r)}

\* Some key that may sign a role of the event is held by a person.
Offline(config, base, head) ==
    \E r \in StatusRoles(base, head) : \E req \in Requirements(head, base, r) :
        ~(req.keys \subseteq config.online)

\* Mutant: whoever has to sign, and whether they have.
MergesAutomatically_Unsigned(config, base, head, metadataOnly) == metadataOnly

(* CI merges an event by itself only when online keys alone sign it and it *)
(* changes nothing but metadata.                                           *)
MergesAutomatically(config, base, head, metadataOnly) ==
    /\ Complete(base, head)
    /\ ~Offline(config, base, head)
    /\ metadataOnly
==============================================================================
