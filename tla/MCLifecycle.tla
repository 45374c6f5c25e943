----------------------------- MODULE MCLifecycle -----------------------------
(* Instances of Lifecycle for TLC. *)
EXTENDS Lifecycle

CONSTANTS alice, bob, kms, kms2     \* keys: two people's, two online ones
CONSTANTS p, q                      \* target paths
CONSTANTS d1, d2                    \* contents of targets
CONSTANTS e1, e2, e3                \* event names

Role(keys, threshold, expires, paths) ==
    [keys |-> keys, threshold |-> threshold, expires |-> expires,
     signing |-> 1, paths |-> paths]

TopRoles(root, rootThreshold, targets, online) ==
    [r \in TopLevel |->
       CASE r = "root"    -> Role(root, rootThreshold, 9, {})
         [] r = "targets" -> Role(targets, 1, 9, {})
         [] OTHER         -> Role(online, 1, 9, {})]

Config(top, order, delegated) ==
    [roles |-> top @@ delegated, order |-> order, online |-> {kms, kms2}]

-------------------------------------------------------------------------------
(* Delegations: `a` holds p; `b`, which CI signs, is listed before it and  *)
(* takes p over, or after it; or there are no delegations.                 *)
Top == TopRoles({alice}, 1, {alice}, {kms})
A == Role({bob}, 1, 9, {p})
B == Role({kms}, 1, 9, {p})

WithA  == Config(Top, <<"a">>, "a" :> A)
WithBA == Config(Top, <<"b", "a">>, ("a" :> A) @@ ("b" :> B))
WithAB == Config(Top, <<"a", "b">>, ("a" :> A) @@ ("b" :> B))
Plain  == Config(Top, <<>>, <<>>)

DelegationConfigs == {WithA, WithBA, WithAB, Plain}
DelegationFirst   == {WithA}
DelegationFiles   == {p :> d1, p :> d2, (p :> d1) @@ (q :> d1)}

-------------------------------------------------------------------------------
(* Keys: root passes from alice to bob, and `a` from one of alice and bob  *)
(* to bob alone or to both of them, which do not make a valid config       *)
(* together; the snapshot key rotates.                                     *)
KeyConfig(root, n, a, online) ==
    Config(TopRoles(root, n, {alice}, online), <<"a">>, "a" :> Role(a, 1, 9, {p}))

KeyConfigs ==
    {KeyConfig({alice}, 1, {alice, bob}, {kms}),
     KeyConfig({alice}, 1, {alice, bob}, {kms2}),
     KeyConfig({alice}, 1, {bob}, {kms}),
     Config(Top, <<"a">>, "a" :> Role({alice, bob}, 2, 9, {p})),
     KeyConfig({bob}, 1, {alice, bob}, {kms}),
     Config(TopRoles({alice}, 1, {alice}, {kms2}), <<>>, <<>>)}
KeysFirst == {KeyConfig({alice}, 1, {alice, bob}, {kms})}

-------------------------------------------------------------------------------
(* Time: roles are valid for some days, and a new version is due for the   *)
(* last two. CI signs `c`, but has no key for the online role `b`. Changes *)
(* of how long roles are valid.                                            *)
Brief(keys, expires, paths) ==
    [Role(keys, 1, expires, paths) EXCEPT !.signing = 2]

TimeConfig(root, targets, online) ==
    Config([r \in TopLevel |->
              CASE r = "root"    -> Brief({alice}, root, {})
                [] r = "targets" -> Brief({bob}, targets, {})
                [] OTHER         -> Brief({kms}, online, {})],
           <<"b", "c">>, ("b" :> Brief({kms2}, 4, {p})) @@ ("c" :> Brief({kms}, 4, {q})))

TimeConfigs == {TimeConfig(4, 4, 3), TimeConfig(4, 5, 4)}
TimeFirst   == {TimeConfig(4, 4, 3)}

(* How long snapshot and timestamp are valid changes, and by another event *)
(* how long before it expires root is renewed: both change tufops.toml     *)
(* alone.                                                                  *)
ExpiryConfig(online, signing) ==
    Config([Top EXCEPT !["root"].signing = signing,
                       !["snapshot"].expires = online, !["timestamp"].expires = online],
           <<>>, <<>>)

ExpiryConfigs == {ExpiryConfig(5, 1), ExpiryConfig(6, 1), ExpiryConfig(5, 2)}
ExpiryFirst   == {ExpiryConfig(5, 1)}

(* CI runs: the roles of one config come due together, but for root. CI    *)
(* signs snapshot and timestamp, and others have the online key of `b`.    *)
CiConfig ==
    Config([r \in TopLevel |->
              CASE r = "root"    -> Brief({alice}, 9, {})
                [] r = "targets" -> Brief({bob}, 3, {})
                [] OTHER         -> Brief({kms}, 3, {})],
           <<"b">>, "b" :> Brief({kms2}, 3, {p}))

CiConfigs == {CiConfig}

(* `a` comes due, and alice's key is taken from it.                        *)
DueKeys(a) == Config(Top, <<"a">>, "a" :> Brief(a, 3, {p}))

StaleConfigs == {DueKeys({alice, bob}), DueKeys({bob})}
StaleFirst   == {DueKeys({alice, bob})}

OneFile == {(x :> d1) : x \in {p, q}}

-------------------------------------------------------------------------------
Symmetry == Permutations({e1, e2, e3})
==============================================================================
