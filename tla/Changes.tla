------------------------------- MODULE Changes --------------------------------
(***************************************************************************)
(* What people are shown of a role before they sign it: `changes` of       *)
(* tufops-core/src/status.rs, which compares the role's metadata in `head` *)
(* with that in `base`. The lines it prints are, by what they are about,   *)
(*   keys        : <<role, <<what happened, key>>>>                        *)
(*   thresholds  : <<role, its threshold now>>                             *)
(*   delegations : <<what happened, name>>                                 *)
(*   paths       : <<delegation, <<what happened, path>>>>                 *)
(*   order       : which delegations come before which, <<old, new>>       *)
(*   targets     : <<path, what happened, the file it is now>>             *)
(*   moved       : <<from or to, the other role, how many targets>>        *)
(***************************************************************************)
EXTENDS TufRepo

(* `set_changes`: what was added, what was removed. *)
SetChanges(old, new) == ({"added"} \X (new \ old)) \cup ({"removed"} \X (old \ new))

(* `key_changes`: `old` holds the definition there was, if there was one.  *)
KeyChanges(name, old, new) == {name} \X SetChanges(UNION {o.keys : o \in old}, new.keys)

ThresholdChanges(name, old, new) ==
    IF \E o \in old : o.threshold = new.threshold THEN {} ELSE {<<name, new.threshold>>}

Named(delegations, name) == {d \in ToSet(delegations) : d.name = name}

PathChanges(name, old, new) == {name} \X SetChanges(UNION {o.paths : o \in old}, new.paths)

\* Mutant: nobody is told that clients search the roles in another order.
OrderChanges_None(old, new) == {}

\* The order of those of `dels` that `other` has too: which is before which.
Order(dels, other) ==
    LET kept == {i \in DOMAIN dels : Named(other, dels[i].name) # {}}
    IN  UNION {{<<dels[i].name, dels[j].name>> : j \in {j \in kept : i < j}} : i \in kept}

(* The order of the delegations that were there before and still are.      *)
OrderChanges(old, new) ==
    IF Order(old, new) = Order(new, old) THEN {} ELSE {<<Order(old, new), Order(new, old)>>}

(* Another role of `repo` that lists `path` as the same file, the first    *)
(* that the index finds.                                                   *)
IsElsewhere(repo, role, path, desc) ==
    \E r \in Listers(repo, path) \ {role} : TargetsOf(repo, r)[path] = desc

Elsewhere(repo, role, path, desc) ==
    CHOOSE r \in Listers(repo, path) \ {role} : TargetsOf(repo, r)[path] = desc

(* Targets of the role that another one listed before as the same file.    *)
Came(base, role, old, new) ==
    {p \in DOMAIN new \ DOMAIN old : IsElsewhere(base, role, p, new[p])}

(* Targets it no longer lists, which another role now lists as they were.  *)
Left(head, role, old, new) ==
    {p \in DOMAIN old \ DOMAIN new : IsElsewhere(head, role, p, old[p])}

TargetChanges(base, head, role, old, new) ==
    LET added   == DOMAIN new \ (DOMAIN old \cup Came(base, role, old, new))
        removed == DOMAIN old \ (DOMAIN new \cup Left(head, role, old, new))
        changed == {p \in DOMAIN old \cap DOMAIN new : old[p] # new[p]}
    IN  {<<p, "added", {new[p]}>> : p \in added}
            \cup {<<p, "removed", {}>> : p \in removed}
            \cup {<<p, "changed", {new[p]}>> : p \in changed}

\* How many of the targets in DOMAIN other moved from or to each role.
Tally(what, other) ==
    {<<what, r, Cardinality({p \in DOMAIN other : other[p] = r})>> : r \in Range(other)}

(* Those that moved are only counted, by the role they moved from or to.   *)
MovedTargets(base, head, role, old, new) ==
    LET from == [p \in Came(base, role, old, new) |-> Elsewhere(base, role, p, new[p])]
        to   == [p \in Left(head, role, old, new) |-> Elsewhere(head, role, p, old[p])]
    IN  Tally("from", from) \cup Tally("to", to)

NoChanges == [keys |-> {}, thresholds |-> {}, delegations |-> {}, paths |-> {},
              order |-> {}, targets |-> {}, moved |-> {}]

RootChanges(base, head) ==
    LET Old(top) == IF Has(base, "root") THEN {RoleKeys(base, top)} ELSE {}
        New(top) == RoleKeys(head, top)
    IN  [NoChanges EXCEPT
           !.keys = UNION {KeyChanges(top, Old(top), New(top)) : top \in TopLevel},
           !.thresholds = UNION {ThresholdChanges(top, Old(top), New(top)) : top \in TopLevel}]

TargetsRoleChanges(base, head, role) ==
    LET body  == head.files[role].body
        dels  == ToSet(body.delegations)
        was   == IF Has(base, role) THEN base.files[role].body.delegations ELSE <<>>
        old   == IF Has(base, role) THEN TargetsOf(base, role) ELSE <<>>
        About(d) == Named(was, d.name)
    IN  [keys        |-> UNION {KeyChanges(d.name, About(d), d) : d \in dels},
         thresholds  |-> UNION {ThresholdChanges(d.name, About(d), d) : d \in dels},
         delegations |-> SetChanges({d.name : d \in ToSet(was)}, {d.name : d \in dels}),
         paths       |-> UNION {PathChanges(d.name, About(d), d) : d \in dels},
         order       |-> IF Has(base, role) THEN OrderChanges(was, body.delegations) ELSE {},
         targets     |-> TargetChanges(base, head, role, old, body.targets),
         moved       |-> MovedTargets(base, head, role, old, body.targets)]

RoleChanges(base, head, role) ==
    IF role = "root" THEN RootChanges(base, head) ELSE TargetsRoleChanges(base, head, role)
==============================================================================
