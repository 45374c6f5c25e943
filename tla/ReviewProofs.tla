----------------------------- MODULE ReviewProofs -----------------------------
(***************************************************************************)
(* What people are shown of a role before they sign it (`changes` of       *)
(* status.rs) decides what the role lists and whom it delegates to.        *)
(***************************************************************************)
EXTENDS RepoProofs, FiniteSetTheorems

-------------------------------------------------------------------------------
(* Lines about sets, thresholds and counts *)

(* What was added and removed decides what there is.                       *)
LEMMA SetChangesTell ==
    ASSUME NEW old, NEW s, NEW t, SetChanges(old, s) = SetChanges(old, t)
    PROVE  s = t
<1>1. ASSUME NEW x
      PROVE  /\ <<"added", x>> \in SetChanges(old, s) <=> x \in s /\ x \notin old
             /\ <<"removed", x>> \in SetChanges(old, s) <=> x \in old /\ x \notin s
             /\ <<"added", x>> \in SetChanges(old, t) <=> x \in t /\ x \notin old
             /\ <<"removed", x>> \in SetChanges(old, t) <=> x \in old /\ x \notin t
  BY DEF SetChanges
<1>2. \A x : x \in s <=> x \in t
  BY <1>1
<1>3. QED
  BY <1>2

(* Nothing was added or removed if nothing changed.                        *)
LEMMA NoSetChanges == \A s : SetChanges(s, s) = {}
BY DEF SetChanges

(* Equal counts by what the members are mapped to, of a set and of a part  *)
(* of it: the part is all of it.                                           *)
LEMMA CountsDecide ==
    ASSUME NEW f, NEW g, IsFiniteSet(DOMAIN g), DOMAIN f \subseteq DOMAIN g,
           \A y : Cardinality({p \in DOMAIN f : f[p] = y}) = Cardinality({p \in DOMAIN g : g[p] = y})
    PROVE  DOMAIN f = DOMAIN g
<1> DEFINE F(y) == {p \in DOMAIN f : f[p] = y}
           G(y) == {p \in DOMAIN g : g[p] = y}
           to(y) == CHOOSE b \in Injection(G(y), F(y)) : TRUE
           all == [p \in DOMAIN g |-> to(g[p])[p]]
<1>1. IsFiniteSet(DOMAIN f)
  BY FS_Subset
<1>2. ASSUME NEW y
      PROVE  to(y) \in Injection(G(y), F(y))
  <2>1. IsFiniteSet(F(y)) /\ IsFiniteSet(G(y)) /\ Cardinality(G(y)) = Cardinality(F(y))
    BY <1>1, FS_Subset
  <2> HIDE DEF F, G
  <2>2. ExistsBijection(G(y), F(y))
    BY <2>1, FS_SameCardinalityBij
  <2>3. \E b : b \in Injection(G(y), F(y))
    BY <2>2 DEF ExistsBijection, Bijection
  <2>4. QED
    BY <2>3
<1>3. ASSUME NEW p \in DOMAIN g
      PROVE  /\ p \in G(g[p]) /\ all[p] = to(g[p])[p]
             /\ all[p] \in DOMAIN f /\ f[all[p]] = g[p]
  <2>1. p \in G(g[p]) /\ all[p] = to(g[p])[p]
    OBVIOUS
  <2>2. to(g[p])[p] \in F(g[p])
    <3> HIDE DEF F, G, to
    <3>1. QED
      BY <1>2, <2>1 DEF Injection
  <2> HIDE DEF all, to, G
  <2>3. QED
    BY <2>1, <2>2
<1>4. ASSUME NEW p \in DOMAIN g, NEW q \in DOMAIN g, all[p] = all[q]
      PROVE  p = q
  <2>1. g[p] = g[q]
    BY <1>3, <1>4
  <2>2. to(g[p])[p] = to(g[p])[q] /\ p \in G(g[p]) /\ q \in G(g[p])
    BY <1>3, <1>4, <2>1
  <2> HIDE DEF F, G, to
  <2>3. QED
    BY <1>2, <2>2 DEF Injection, IsInjective
<1>5. all \in Injection(DOMAIN g, DOMAIN f)
  <2>1. all \in [DOMAIN g -> DOMAIN f]
    <3>1. all = [p \in DOMAIN g |-> all[p]]
      OBVIOUS
    <3> HIDE DEF all
    <3>2. QED
      BY <1>3, <3>1
  <2> HIDE DEF all
  <2>2. QED
    BY <1>4, <2>1 DEF Injection, IsInjective
<1> HIDE DEF all
<1>6. Cardinality(DOMAIN g) <= Cardinality(DOMAIN f)
  BY <1>1, <1>5, FS_Injection
<1>7. QED
  BY <1>1, <1>6, FS_Subset, FS_CardinalityType

(* The lines about targets that moved decide how many went where.          *)
LEMMA TalliesTell ==
    ASSUME NEW what, NEW f, NEW g, Tally(what, f) = Tally(what, g), NEW y
    PROVE  Cardinality({p \in DOMAIN f : f[p] = y}) = Cardinality({p \in DOMAIN g : g[p] = y})
<1>1. ASSUME NEW h, NEW k, Tally(what, h) = Tally(what, k), y \in Range(h)
      PROVE  Cardinality({p \in DOMAIN h : h[p] = y}) = Cardinality({p \in DOMAIN k : k[p] = y})
  <2> DEFINE n == Cardinality({p \in DOMAIN h : h[p] = y})
  <2>1. <<what, y, n>> \in Tally(what, h)
    BY <1>1 DEF Tally
  <2> HIDE DEF n
  <2>2. <<what, y, n>> \in Tally(what, k)
    BY <1>1, <2>1
  <2>3. n = Cardinality({p \in DOMAIN k : k[p] = y})
    BY <2>2 DEF Tally
  <2>4. QED
    BY <2>3 DEF n
<1>2. CASE y \in Range(f)
  BY <1>1, <1>2
<1>3. CASE y \in Range(g)
  BY <1>1, <1>3
<1>4. CASE y \notin Range(f) /\ y \notin Range(g)
  <2>1. {p \in DOMAIN f : f[p] = y} = {} /\ {p \in DOMAIN g : g[p] = y} = {}
    BY <1>4 DEF Range
  <2>2. QED
    BY <2>1
<1>5. QED
  BY <1>2, <1>3, <1>4

(* The same lines about a set and about a part of it: the part is all of it. *)
LEMMA TalliesDecide ==
    ASSUME NEW what, NEW f, NEW g, IsFiniteSet(DOMAIN g), DOMAIN f \subseteq DOMAIN g,
           Tally(what, f) = Tally(what, g)
    PROVE  DOMAIN f = DOMAIN g
<1>1. ASSUME NEW y
      PROVE  Cardinality({p \in DOMAIN f : f[p] = y}) = Cardinality({p \in DOMAIN g : g[p] = y})
  BY TalliesTell
<1>2. QED
  BY <1>1, CountsDecide

(* Lines about targets that came and lines about those that left are       *)
(* different lines.                                                        *)
LEMMA TalliesApart ==
    ASSUME NEW f1, NEW f2, NEW g1, NEW g2,
           Tally("from", f1) \cup Tally("to", f2) = Tally("from", g1) \cup Tally("to", g2)
    PROVE  Tally("from", f1) = Tally("from", g1) /\ Tally("to", f2) = Tally("to", g2)
<1>1. ASSUME NEW h, NEW line
      PROVE  /\ line \in Tally("from", h) => line[1] = "from"
             /\ line \in Tally("to", h) => line[1] = "to"
  <2>1. ASSUME NEW what, line \in Tally(what, h)
        PROVE  line[1] = what
    <3>1. PICK r \in Range(h) : line = <<what, r, Cardinality({p \in DOMAIN h : h[p] = r})>>
      BY <2>1 DEF Tally
    <3>2. QED
      BY <3>1
  <2>2. QED
    BY <2>1
<1>2. \A line : line \in Tally("from", f1) <=> line \in Tally("from", g1)
  BY <1>1
<1>3. \A line : line \in Tally("to", f2) <=> line \in Tally("to", g2)
  BY <1>1
<1>4. QED
  BY <1>2, <1>3

-------------------------------------------------------------------------------
(* Root and delegations *)

\* A set of delegations, or of roles with their keys, by name.
ByName(dels) == \A d, e \in dels : d.name = e.name => d = e

IsDelegation(d) ==
    d = [name |-> d.name, keys |-> d.keys, threshold |-> d.threshold, paths |-> d.paths]

\* What is said about the delegations `dels` compared with those of `was`.
KeyLines(was, dels) == UNION {KeyChanges(d.name, Named(was, d.name), d) : d \in dels}

ThresholdLines(was, dels) == UNION {ThresholdChanges(d.name, Named(was, d.name), d) : d \in dels}

PathLines(was, dels) == UNION {PathChanges(d.name, Named(was, d.name), d) : d \in dels}

\* The keys and paths a role had, and whether it had a threshold.
OldKeys(old) == UNION {o.keys : o \in old}

OldPaths(old) == UNION {o.paths : o \in old}

HadThreshold(old, threshold) == \E o \in old : o.threshold = threshold

(* What one line of each kind says.                                        *)
LEMMA LinesAre ==
    ASSUME NEW n, NEW old, NEW new, NEW m, NEW x
    PROVE  /\ <<m, x>> \in KeyChanges(n, old, new)
                <=> m = n /\ x \in SetChanges(OldKeys(old), new.keys)
           /\ <<m, x>> \in PathChanges(n, old, new)
                <=> m = n /\ x \in SetChanges(OldPaths(old), new.paths)
           /\ <<m, x>> \in ThresholdChanges(n, old, new)
                <=> m = n /\ x = new.threshold /\ ~HadThreshold(old, new.threshold)
<1>1. <<m, x>> \in KeyChanges(n, old, new)
         <=> m = n /\ x \in SetChanges(OldKeys(old), new.keys)
  BY DEF KeyChanges, OldKeys
<1>2. <<m, x>> \in PathChanges(n, old, new)
         <=> m = n /\ x \in SetChanges(OldPaths(old), new.paths)
  BY DEF PathChanges, OldPaths
<1>3. <<m, x>> \in ThresholdChanges(n, old, new)
         <=> m = n /\ x = new.threshold /\ ~HadThreshold(old, new.threshold)
  BY DEF ThresholdChanges, HadThreshold
<1>4. QED
  BY <1>1, <1>2, <1>3

(* Thresholds of which the same is said, compared with at most one there    *)
(* was, are the same.                                                      *)
LEMMA ThresholdsTell ==
    ASSUME NEW old, \A o1, o2 \in old : o1 = o2, NEW t, NEW u,
           \A x : (x = t /\ ~HadThreshold(old, t))
                    <=> (x = u /\ ~HadThreshold(old, u))
    PROVE  t = u
<1>1. CASE HadThreshold(old, t)
  <2>1. HadThreshold(old, u)
    BY <1>1
  <2>2. QED
    BY <1>1, <2>1 DEF HadThreshold
<1>2. CASE ~HadThreshold(old, t)
  BY <1>2
<1>3. QED
  BY <1>1, <1>2

(* Delegations with the same names of which the same is said are the same. *)
LEMMA DelegationsTell ==
    ASSUME NEW was, NEW ds, NEW es, ByName(ds), ByName(es), ByName(ToSet(was)),
           NEW d \in ds, NEW e \in es, IsDelegation(d), IsDelegation(e), d.name = e.name,
           KeyLines(was, ds) = KeyLines(was, es),
           ThresholdLines(was, ds) = ThresholdLines(was, es),
           PathLines(was, ds) = PathLines(was, es)
    PROVE  d = e
<1> DEFINE n == d.name
           old == Named(was, n)
<1>1. ASSUME NEW s, ByName(s), NEW c \in s, c.name = n
      PROVE  /\ \A x : <<n, x>> \in KeyLines(was, s)
                        <=> x \in SetChanges(OldKeys(old), c.keys)
             /\ \A x : <<n, x>> \in PathLines(was, s)
                        <=> x \in SetChanges(OldPaths(old), c.paths)
             /\ \A x : <<n, x>> \in ThresholdLines(was, s)
                        <=> /\ x = c.threshold
                            /\ ~HadThreshold(old, c.threshold)
  <2> HIDE DEF n, old
  <2>1. \A b \in s : b.name = n => b = c
    BY <1>1 DEF ByName
  <2>2. ASSUME NEW x
        PROVE  <<n, x>> \in KeyLines(was, s)
                   <=> x \in SetChanges(OldKeys(old), c.keys)
    <3>1. ASSUME NEW b \in s
          PROVE  <<n, x>> \in KeyChanges(b.name, Named(was, b.name), b) <=>
             /\ n = b.name
             /\ x \in SetChanges(OldKeys(Named(was, b.name)), b.keys)
      BY LinesAre
    <3>2. QED
      BY <1>1, <2>1, <3>1 DEF KeyLines, old
  <2>3. ASSUME NEW x
        PROVE  <<n, x>> \in PathLines(was, s)
                   <=> x \in SetChanges(OldPaths(old), c.paths)
    <3>1. ASSUME NEW b \in s
          PROVE  <<n, x>> \in PathChanges(b.name, Named(was, b.name), b) <=>
             /\ n = b.name
             /\ x \in SetChanges(OldPaths(Named(was, b.name)), b.paths)
      BY LinesAre
    <3>2. QED
      BY <1>1, <2>1, <3>1 DEF PathLines, old
  <2>4. ASSUME NEW x
        PROVE  <<n, x>> \in ThresholdLines(was, s)
                   <=> x = c.threshold /\ ~HadThreshold(old, c.threshold)
    <3>1. ASSUME NEW b \in s
          PROVE  <<n, x>> \in ThresholdChanges(b.name, Named(was, b.name), b) <=>
             /\ n = b.name /\ x = b.threshold
             /\ ~HadThreshold(Named(was, b.name), b.threshold)
      BY LinesAre
    <3>2. QED
      BY <1>1, <2>1, <3>1 DEF ThresholdLines, old
  <2>5. QED
    BY <2>2, <2>3, <2>4
<1>2. d.name = n /\ e.name = n
  OBVIOUS
<1>3. \A o1, o2 \in old : o1 = o2
  BY DEF Named, ByName
<1> HIDE DEF n, old
<1>4. \A x : x \in SetChanges(OldKeys(old), d.keys)
                <=> x \in SetChanges(OldKeys(old), e.keys)
  BY <1>1, <1>2
<1>5. d.keys = e.keys
  <2>1. SetChanges(OldKeys(old), d.keys) = SetChanges(OldKeys(old), e.keys)
    <3> DEFINE S1 == SetChanges(OldKeys(old), d.keys)
               S2 == SetChanges(OldKeys(old), e.keys)
    <3>1. \A x : x \in S1 <=> x \in S2
      BY <1>4
    <3> HIDE DEF S1, S2
    <3>2. S1 = S2
      BY <3>1
    <3>3. QED
      BY <3>2 DEF S1, S2
  <2>2. QED
    BY <2>1, SetChangesTell
<1>6. d.paths = e.paths
  <2>1. SetChanges(OldPaths(old), d.paths) = SetChanges(OldPaths(old), e.paths)
    <3> DEFINE S1 == SetChanges(OldPaths(old), d.paths)
               S2 == SetChanges(OldPaths(old), e.paths)
    <3>1. \A x : x \in S1 <=> x \in S2
      BY <1>1, <1>2
    <3> HIDE DEF S1, S2
    <3>2. S1 = S2
      BY <3>1
    <3>3. QED
      BY <3>2 DEF S1, S2
  <2>2. QED
    BY <2>1, SetChangesTell
<1>7. d.threshold = e.threshold
  <2>1. \A x : (x = d.threshold /\ ~HadThreshold(old, d.threshold))
                  <=> (x = e.threshold /\ ~HadThreshold(old, e.threshold))
    <3>1. \A x : (<<n, x>> \in ThresholdLines(was, ds)) <=> (<<n, x>> \in ThresholdLines(was, es))
      OBVIOUS
    <3>2. \A x : <<n, x>> \in ThresholdLines(was, ds)
                   <=> x = d.threshold /\ ~HadThreshold(old, d.threshold)
      BY <1>1, <1>2
    <3>3. \A x : <<n, x>> \in ThresholdLines(was, es)
                   <=> x = e.threshold /\ ~HadThreshold(old, e.threshold)
      BY <1>1, <1>2
    <3>4. QED
      BY <3>1, <3>2, <3>3
  <2>2. QED
    BY <1>3, <2>1, ThresholdsTell
<1>8. QED
  BY <1>2, <1>5, <1>6, <1>7 DEF IsDelegation

(* What people are shown of root decides its keys and thresholds.          *)
LEMMA RootTells ==
    ASSUME NEW base, NEW c1, NEW c2, NEW h1, NEW h2,
           h1.files["root"].body = RootBody(c1), h2.files["root"].body = RootBody(c2),
           Has(base, "root"), RootChanges(base, h1) = RootChanges(base, h2)
    PROVE  h1.files["root"].body = h2.files["root"].body
<1> DEFINE old(top) == RoleKeys(base, top)
           K(h) == UNION {KeyChanges(top, {old(top)}, RoleKeys(h, top)) : top \in TopLevel}
           T(h) == UNION {ThresholdChanges(top, {old(top)}, RoleKeys(h, top)) : top \in TopLevel}
<1>1. K(h1) = K(h2) /\ T(h1) = T(h2)
  <2>1. /\ RootChanges(base, h1).keys = K(h1) /\ RootChanges(base, h1).thresholds = T(h1)
        /\ RootChanges(base, h2).keys = K(h2) /\ RootChanges(base, h2).thresholds = T(h2)
    BY DEF RootChanges, NoChanges
  <2> HIDE DEF K, T
  <2>2. QED
    BY <2>1
<1>2. ASSUME NEW h, NEW top \in TopLevel
      PROVE  /\ \A x : <<top, x>> \in K(h)
                        <=> x \in SetChanges(OldKeys({old(top)}), RoleKeys(h, top).keys)
             /\ \A x : <<top, x>> \in T(h)
                        <=> /\ x = RoleKeys(h, top).threshold
                            /\ ~HadThreshold({old(top)}, RoleKeys(h, top).threshold)
  <2>1. ASSUME NEW x
        PROVE  <<top, x>> \in K(h)
                  <=> x \in SetChanges(OldKeys({old(top)}), RoleKeys(h, top).keys)
    <3>1. ASSUME NEW r \in TopLevel
          PROVE  <<top, x>> \in KeyChanges(r, {old(r)}, RoleKeys(h, r)) <=>
             /\ top = r
             /\ x \in SetChanges(OldKeys({old(r)}), RoleKeys(h, r).keys)
      BY LinesAre
    <3> HIDE DEF old
    <3>2. QED
      BY <3>1
  <2>2. ASSUME NEW x
        PROVE  <<top, x>> \in T(h)
                  <=> /\ x = RoleKeys(h, top).threshold
                      /\ ~HadThreshold({old(top)}, RoleKeys(h, top).threshold)
    <3>1. ASSUME NEW r \in TopLevel
          PROVE  <<top, x>> \in ThresholdChanges(r, {old(r)}, RoleKeys(h, r)) <=>
             /\ top = r /\ x = RoleKeys(h, r).threshold
             /\ ~HadThreshold({old(r)}, RoleKeys(h, r).threshold)
      BY LinesAre
    <3> HIDE DEF old
    <3>2. QED
      BY <3>1
  <2> HIDE DEF K, T, old
  <2>3. QED
    BY <2>1, <2>2
<1> HIDE DEF K, T, old
<1>3. ASSUME NEW top \in TopLevel
      PROVE  RoleKeys(h1, top).keys = RoleKeys(h2, top).keys
  <2> DEFINE S1 == SetChanges(OldKeys({old(top)}), RoleKeys(h1, top).keys)
             S2 == SetChanges(OldKeys({old(top)}), RoleKeys(h2, top).keys)
  <2>1. \A x : x \in S1 <=> x \in S2
    BY <1>1, <1>2
  <2> HIDE DEF S1, S2
  <2>2. S1 = S2
    BY <2>1
  <2>3. QED
    BY <2>2, SetChangesTell DEF S1, S2
<1>4. ASSUME NEW top \in TopLevel
      PROVE  RoleKeys(h1, top).threshold = RoleKeys(h2, top).threshold
  <2> DEFINE t == RoleKeys(h1, top).threshold
             u == RoleKeys(h2, top).threshold
             o1 == {old(top)}
  <2>1. \A x : (x = t /\ ~HadThreshold(o1, t)) <=> <<top, x>> \in T(h1)
    BY <1>2
  <2>2. \A x : (x = u /\ ~HadThreshold(o1, u)) <=> <<top, x>> \in T(h2)
    BY <1>2
  <2>3. \A x : <<top, x>> \in T(h1) <=> <<top, x>> \in T(h2)
    BY <1>1
  <2>4. \A a, b \in o1 : a = b
    OBVIOUS
  <2> HIDE DEF t, u, o1
  <2>5. \A x : (x = t /\ ~HadThreshold(o1, t))
                 <=> (x = u /\ ~HadThreshold(o1, u))
    BY <2>1, <2>2, <2>3
  <2>6. t = u
    BY <2>4, <2>5, ThresholdsTell
  <2>7. QED
    BY <2>6 DEF t, u
<1>5. \A top \in TopLevel : /\ RoleKeys(h1, top) = RoleDefinition(c1.roles[top])
                            /\ RoleKeys(h2, top) = RoleDefinition(c2.roles[top])
  BY DEF RoleKeys, RootBody
<1>6. \A top \in TopLevel : RoleDefinition(c1.roles[top]) = RoleDefinition(c2.roles[top])
  BY <1>3, <1>4, <1>5 DEF RoleDefinition
<1>7. QED
  BY <1>6 DEF RootBody

-------------------------------------------------------------------------------
(* The order in which clients search delegations *)

\* Delegations as clients search them, no two of one name.
Searched(dels) ==
    /\ IsMap(dels)
    /\ Len(dels) \in Nat /\ DOMAIN dels = 1 .. Len(dels)
    /\ \A i \in DOMAIN dels : IsDelegation(dels[i]) /\ dels[i].name # "targets"
    /\ \A i, j \in DOMAIN dels : dels[i].name = dels[j].name => i = j

(* Those of a config are such.                                             *)
LEMMA ConfigIsSearched ==
    ASSUME NEW config, Valid(config)
    PROVE  LET dels == ConfigDelegations(config)
           IN  /\ Searched(dels) /\ ByName(ToSet(dels))
               /\ \A n : (\E d \in ToSet(dels) : d.name = n) <=> n \in ToSet(config.order)
<1> DEFINE dels == ConfigDelegations(config)
<1>1. /\ config.order \in Seq(DOMAIN config.roles)
      /\ IsInjective(config.order)
  BY DEF Valid
<1>2. DOMAIN dels = DOMAIN config.order /\ Len(dels) = Len(config.order)
  BY <1>1 DEF ConfigDelegations
<1>3. \A i \in DOMAIN dels : IsDelegation(dels[i]) /\ dels[i].name = config.order[i]
  BY <1>2 DEF ConfigDelegations, IsDelegation
<1>4. IsMap(dels)
  BY DEF ConfigDelegations, IsMap
<1> HIDE DEF dels
<1>5. /\ Len(dels) \in Nat /\ DOMAIN dels = 1 .. Len(dels)
      /\ \A i \in DOMAIN dels : dels[i].name # "targets"
  <2>1. \A i \in DOMAIN config.order : config.order[i] \in ToSet(config.order)
    BY DEF ToSet
  <2>2. QED
    BY <1>1, <1>2, <1>3, <2>1 DEF Valid, TopLevel
<1>6. \A i, j \in DOMAIN dels : dels[i].name = dels[j].name => i = j
  BY <1>1, <1>2, <1>3 DEF IsInjective
<1>7. ByName(ToSet(dels))
  BY <1>6 DEF ByName, ToSet
<1>8. \A n : (\E d \in ToSet(dels) : d.name = n) <=> n \in ToSet(config.order)
  BY <1>2, <1>3 DEF ToSet
<1>9. QED
  BY <1>3, <1>4, <1>5, <1>6, <1>7, <1>8 DEF Searched, dels

(* Which delegation is before which one.                                   *)
LEMMA OrderIs ==
    ASSUME NEW dels, NEW other, \A i \in DOMAIN dels : Named(other, dels[i].name) # {},
           NEW m, NEW n
    PROVE  <<m, n>> \in Order(dels, other) <=>
              \E i, j \in DOMAIN dels : i < j /\ dels[i].name = m /\ dels[j].name = n
BY DEF Order

(* Delegations that are the same, with the same ones before each other, are *)
(* searched in the same order.                                             *)
LEMMA OrderTells ==
    ASSUME NEW ds, NEW es, NEW was, Searched(ds), Searched(es), ToSet(ds) = ToSet(es),
           \A i \in DOMAIN ds : Named(was, ds[i].name) # {},
           Order(ds, was) = Order(es, was)
    PROVE  ds = es
<1> DEFINE D == DOMAIN ds
           E == DOMAIN es
           Agree(i) == i \in D /\ i \in E /\ ds[i] = es[i]
           X == {i \in D \cup E : ~Agree(i)}
<1>1. PICK n \in Nat : D = 1 .. n
  BY DEF Searched
<1>2. PICK k \in Nat : E = 1 .. k
  BY DEF Searched
<1>3. /\ \A i \in D : \E j \in E : es[j] = ds[i]
      /\ \A j \in E : \E i \in D : ds[i] = es[j]
  BY DEF ToSet
<1>4. /\ \A i, j \in D : ds[i].name = ds[j].name => i = j
      /\ \A i, j \in E : es[i].name = es[j].name => i = j
  BY DEF Searched
<1>5. \A i \in E : Named(was, es[i].name) # {}
  BY <1>3
<1>6. ASSUME X # {} PROVE FALSE
  <2>1. PICK i \in X : \A j \in X : ~ (<<j, i>> \in OpToRel(<, Nat))
    <3>1. X \subseteq Nat
      BY <1>1, <1>2
    <3> HIDE DEF X
    <3>2. QED
      BY <1>6, <3>1, NatLessThanWellFounded, WFMin
  <2>2. \A a, b \in Nat : a < b => <<a, b>> \in OpToRel(<, Nat)
    BY Zenon DEF OpToRel
  <2>3. D \subseteq Nat /\ E \subseteq Nat
    BY <1>1, <1>2
  <2>4. i \in D \/ i \in E
    OBVIOUS
  <2>5. \A j \in D \cup E : j < i => Agree(j)
    <3>1. \A j \in D \cup E : j \in Nat
      BY <2>3
    <3>2. i \in Nat
      BY <2>3, <2>4
    <3>3. \A j \in D \cup E : j < i => <<j, i>> \in OpToRel(<, Nat)
      BY <2>2, <3>1, <3>2
    <3>4. \A j \in D \cup E : j < i => j \notin X
      BY <2>1, <3>3
    <3> HIDE DEF Agree
    <3>5. QED
      BY <3>4
  <2>6. ~Agree(i)
    OBVIOUS
  <2> HIDE DEF X
  <2>7. CASE i \in D
    <3>1. PICK j \in E : es[j] = ds[i]
      BY <1>3, <2>7
    <3>2. i < j
      <4>1. ASSUME j < i PROVE FALSE
        <5>1. j \in D /\ es[j] = ds[j]
          BY <2>5, <3>1, <4>1
        <5>2. ds[j].name = ds[i].name
          BY <3>1, <5>1
        <5>3. QED
          BY <1>4, <2>3, <2>7, <4>1, <5>1, <5>2
      <4>2. j # i
        BY <2>6, <2>7, <3>1
      <4>3. QED
        BY <2>3, <2>7, <4>1, <4>2
    <3>3. i \in E
      BY <1>1, <1>2, <2>7, <3>2
    <3>4. PICK m \in D : ds[m] = es[i]
      BY <1>3, <3>3
    <3>5. i < m
      <4>1. ASSUME m < i PROVE FALSE
        <5>1. m \in E /\ es[m] = ds[m]
          BY <2>5, <3>4, <4>1
        <5>2. es[m].name = es[i].name
          BY <3>4, <5>1
        <5>3. QED
          BY <1>4, <2>3, <3>3, <4>1, <5>1, <5>2
      <4>2. m # i
        BY <2>6, <2>7, <3>3, <3>4
      <4>3. QED
        BY <2>3, <2>7, <4>1, <4>2
    <3>6. <<ds[i].name, ds[m].name>> \in Order(ds, was)
      BY <2>7, <3>5, OrderIs
    <3>7. <<ds[i].name, ds[m].name>> \in Order(es, was)
      BY <3>6
    <3>8. PICK a, b \in E : a < b /\ es[a].name = ds[i].name /\ es[b].name = ds[m].name
      BY <1>5, <3>7, OrderIs
    <3>9. a = j /\ b = i
      BY <1>4, <3>1, <3>3, <3>4, <3>8
    <3>10. QED
      BY <2>3, <2>7, <3>2, <3>8, <3>9
  <2>8. CASE i \in E /\ i \notin D
    <3>1. PICK j \in D : ds[j] = es[i]
      BY <1>3, <2>8
    <3>2. j < i
      BY <1>1, <1>2, <2>8
    <3>3. QED
      BY <1>4, <2>3, <2>5, <2>8, <3>1, <3>2
  <2>9. QED
    BY <2>4, <2>7, <2>8
<1>7. \A i : i \in D \/ i \in E => Agree(i)
  BY <1>6
<1> HIDE DEF X
<1>8. D = E
  BY <1>7
<1>9. ds = [i \in D |-> ds[i]] /\ es = [i \in D |-> es[i]]
  BY <1>8 DEF Searched, IsMap
<1>10. QED
  BY <1>7, <1>9

-------------------------------------------------------------------------------
(* What people are shown of a role *)

\* What `role` delegated and listed in `base`.
DelegatedBy(base, role) == IF Has(base, role) THEN base.files[role].body.delegations ELSE <<>>

ListedBy(base, role) == IF Has(base, role) THEN TargetsOf(base, role) ELSE <<>>

(* The lines by what they are about.                                       *)
LEMMA ShownIs ==
    ASSUME NEW base, NEW head, NEW role
    PROVE  LET shown == TargetsRoleChanges(base, head, role)
               was   == DelegatedBy(base, role)
               body  == head.files[role].body
               dels  == body.delegations
           IN  /\ shown.keys = KeyLines(was, ToSet(dels))
               /\ shown.thresholds = ThresholdLines(was, ToSet(dels))
               /\ shown.paths = PathLines(was, ToSet(dels))
               /\ shown.delegations =
                     SetChanges({d.name : d \in ToSet(was)}, {d.name : d \in ToSet(dels)})
               /\ Has(base, role) => shown.order = OrderChanges(was, dels)
               /\ shown.targets = TargetChanges(base, head, role, ListedBy(base, role), body.targets)
               /\ shown.moved = MovedTargets(base, head, role, ListedBy(base, role), body.targets)
BY DEF TargetsRoleChanges, DelegatedBy, ListedBy, KeyLines, ThresholdLines, PathLines

(* What people are shown of `targets` decides who is delegated to, with    *)
(* which keys and paths, and in which order unless some are new.           *)
LEMMA DelegatesTell ==
    ASSUME NEW base, NEW h1, NEW h2, Has(base, "targets"),
           Searched(Delegations(base)), ByName(ToSet(Delegations(base))),
           Searched(Delegations(h1)), ByName(ToSet(Delegations(h1))),
           Searched(Delegations(h2)), ByName(ToSet(Delegations(h2))),
           TargetsRoleChanges(base, h1, "targets") = TargetsRoleChanges(base, h2, "targets")
    PROVE  /\ ToSet(Delegations(h1)) = ToSet(Delegations(h2))
           /\ \/ Delegations(h1) = Delegations(h2)
              \/ \E d \in ToSet(Delegations(h2)) : Named(Delegations(base), d.name) = {}
<1> DEFINE was == Delegations(base)
           ds == Delegations(h1)
           es == Delegations(h2)
           names(dels) == {d.name : d \in ToSet(dels)}
<1>1. /\ KeyLines(was, ToSet(ds)) = KeyLines(was, ToSet(es))
      /\ ThresholdLines(was, ToSet(ds)) = ThresholdLines(was, ToSet(es))
      /\ PathLines(was, ToSet(ds)) = PathLines(was, ToSet(es))
      /\ SetChanges(names(was), names(ds)) = SetChanges(names(was), names(es))
      /\ OrderChanges(was, ds) = OrderChanges(was, es)
  <2>1. /\ was = DelegatedBy(base, "targets")
        /\ ds = h1.files["targets"].body.delegations
        /\ es = h2.files["targets"].body.delegations
    BY DEF Delegations, DelegatedBy
  <2>2. ASSUME NEW h
        PROVE  LET shown == TargetsRoleChanges(base, h, "targets")
                   dels  == h.files["targets"].body.delegations
               IN  /\ shown.keys = KeyLines(was, ToSet(dels))
                   /\ shown.thresholds = ThresholdLines(was, ToSet(dels))
                   /\ shown.paths = PathLines(was, ToSet(dels))
                   /\ shown.delegations = SetChanges(names(was), names(dels))
                   /\ shown.order = OrderChanges(was, dels)
    BY <2>1, ShownIs
  <2> HIDE DEF was, ds, es, names
  <2>3. QED
    BY <2>1, <2>2
<1>2. names(ds) = names(es)
  <2> HIDE DEF names
  <2>1. QED
    BY <1>1, SetChangesTell
<1>3. \A d \in ToSet(ds) : IsDelegation(d)
  BY DEF Searched, ToSet
<1>4. \A e \in ToSet(es) : IsDelegation(e)
  BY DEF Searched, ToSet
<1>5. \A d \in ToSet(ds), e \in ToSet(es) : d.name = e.name => d = e
  <2> HIDE DEF was, ds, es
  <2> SUFFICES ASSUME NEW d \in ToSet(ds), NEW e \in ToSet(es), d.name = e.name
               PROVE  d = e
    OBVIOUS
  <2>1. QED
    BY <1>1, <1>3, <1>4, DelegationsTell DEF was, ds, es
<1>6. ToSet(ds) = ToSet(es)
  <2>1. \A d \in ToSet(ds) : \E e \in ToSet(es) : e.name = d.name
    BY <1>2
  <2>2. \A e \in ToSet(es) : \E d \in ToSet(ds) : d.name = e.name
    BY <1>2
  <2>3. \A x : x \in ToSet(ds) <=> x \in ToSet(es)
    <3> HIDE DEF was, ds, es, names
    <3>1. QED
      BY <1>5, <2>1, <2>2
  <2>4. QED
    BY <2>3
<1>7. ASSUME \A e \in ToSet(es) : Named(was, e.name) # {}
      PROVE  ds = es
  <2>1. Order(was, ds) = Order(was, es)
    <3>1. ASSUME NEW n
          PROVE  Named(ds, n) = Named(es, n)
      BY <1>6 DEF Named
    <3> DEFINE In(k) == UNION {{<<was[i].name, was[j].name>> : j \in {j \in k : i < j}} : i \in k}
               Both(dels) == {i \in DOMAIN was : Named(dels, was[i].name) # {}}
    <3>2. Order(was, ds) = In(Both(ds)) /\ Order(was, es) = In(Both(es))
      BY DEF Order
    <3>3. Both(ds) = Both(es)
      BY <3>1
    <3> HIDE DEF In, Both
    <3>4. QED
      BY <3>2, <3>3
  <2>2. Order(ds, was) = Order(es, was)
    <3>1. /\ OrderChanges(was, ds) = IF Order(was, ds) = Order(ds, was) THEN {}
                                     ELSE {<<Order(was, ds), Order(ds, was)>>}
          /\ OrderChanges(was, es) = IF Order(was, es) = Order(es, was) THEN {}
                                     ELSE {<<Order(was, es), Order(es, was)>>}
      BY DEF OrderChanges
    <3> DEFINE a == Order(was, ds)
               b == Order(ds, was)
               c == Order(es, was)
    <3>2. (IF a = b THEN {} ELSE {<<a, b>>}) = (IF a = c THEN {} ELSE {<<a, c>>})
      BY <1>1, <2>1, <3>1
    <3> HIDE DEF a, b, c
    <3>3. CASE a = b
      BY <3>2, <3>3 DEF b, c
    <3>4. CASE a # b
      <4>1. <<a, b>> \in (IF a = c THEN {} ELSE {<<a, c>>})
        BY <3>2, <3>4
      <4>2. <<a, b>> = <<a, c>>
        BY <4>1
      <4>3. QED
        BY <4>2 DEF b, c
    <3>5. QED
      BY <3>3, <3>4
  <2>3. \A i \in DOMAIN ds : Named(was, ds[i].name) # {}
    <3>1. \A d \in ToSet(ds) : Named(was, d.name) # {}
      BY <1>6, <1>7
    <3>2. QED
      BY <3>1 DEF ToSet
  <2>4. QED
    BY <1>6, <2>2, <2>3, OrderTells
<1>8. QED
  BY <1>6, <1>7

-------------------------------------------------------------------------------
(* Targets that do not move *)

\* No target of the role is one that another had, or has now.
NoneMoved(base, head, role, old, new) ==
    Came(base, role, old, new) = {} /\ Left(head, role, old, new) = {}

(* No line says that targets moved if none did.                            *)
LEMMA NoneMovedIs ==
    ASSUME NEW base, NEW head, NEW role, NEW old, NEW new
    PROVE  MovedTargets(base, head, role, old, new) = {} <=> NoneMoved(base, head, role, old, new)
<1> DEFINE from == [p \in Came(base, role, old, new) |-> Elsewhere(base, role, p, new[p])]
           to   == [p \in Left(head, role, old, new) |-> Elsewhere(head, role, p, old[p])]
<1>1. MovedTargets(base, head, role, old, new) = Tally("from", from) \cup Tally("to", to)
  BY DEF MovedTargets
<1>2. DOMAIN from = Came(base, role, old, new) /\ DOMAIN to = Left(head, role, old, new)
  OBVIOUS
<1> HIDE DEF from, to
<1>3. ASSUME NEW what, NEW other
      PROVE  Tally(what, other) = {} <=> DOMAIN other = {}
  <2>1. Range(other) = {} <=> DOMAIN other = {}
    BY DEF Range
  <2>2. Tally(what, other) = {} <=> Range(other) = {}
    BY DEF Tally
  <2>3. QED
    BY <2>1, <2>2
<1>4. QED
  BY <1>1, <1>2, <1>3 DEF NoneMoved

(* What one line about a target says.                                      *)
LEMMA TargetLines ==
    ASSUME NEW base, NEW head, NEW role, NEW old, NEW new, NEW p,
           NoneMoved(base, head, role, old, new)
    PROVE  LET lines == TargetChanges(base, head, role, old, new)
           IN  /\ \A desc : <<p, "added", {desc}>> \in lines
                     <=> p \in DOMAIN new /\ p \notin DOMAIN old /\ new[p] = desc
               /\ <<p, "removed", {}>> \in lines <=> p \in DOMAIN old /\ p \notin DOMAIN new
               /\ \A desc : <<p, "changed", {desc}>> \in lines
                     <=> p \in DOMAIN old /\ p \in DOMAIN new /\ old[p] # new[p] /\ new[p] = desc
<1> DEFINE added == {<<q, "added", {new[q]}>> : q \in DOMAIN new \ DOMAIN old}
           removed == {<<q, "removed", {}>> : q \in DOMAIN old \ DOMAIN new}
           changed == {<<q, "changed", {new[q]}>> :
                         q \in {q \in DOMAIN old \cap DOMAIN new : old[q] # new[q]}}
<1>1. TargetChanges(base, head, role, old, new) = added \cup removed \cup changed
  <2>1. /\ DOMAIN new \ (DOMAIN old \cup Came(base, role, old, new)) = DOMAIN new \ DOMAIN old
        /\ DOMAIN old \ (DOMAIN new \cup Left(head, role, old, new)) = DOMAIN old \ DOMAIN new
    BY DEF NoneMoved
  <2>2. QED
    BY <2>1 DEF TargetChanges
<1>2. ASSUME NEW desc
      PROVE  /\ <<p, "added", {desc}>> \in added
                   <=> p \in DOMAIN new /\ p \notin DOMAIN old /\ new[p] = desc
             /\ <<p, "added", {desc}>> \notin removed
             /\ <<p, "added", {desc}>> \notin changed
  <2>1. <<p, "added", {desc}>> \in added <=>
           \E q \in DOMAIN new \ DOMAIN old : q = p /\ {new[q]} = {desc}
    OBVIOUS
  <2>2. \A a, b : {a} = {b} <=> a = b
    OBVIOUS
  <2> HIDE DEF added
  <2>3. QED
    BY <2>1, <2>2
<1>3. /\ <<p, "removed", {}>> \in removed <=> p \in DOMAIN old /\ p \notin DOMAIN new
      /\ <<p, "removed", {}>> \notin added
      /\ <<p, "removed", {}>> \notin changed
  OBVIOUS
<1>4. ASSUME NEW desc
      PROVE  /\ <<p, "changed", {desc}>> \in changed
                   <=> p \in DOMAIN old /\ p \in DOMAIN new /\ old[p] # new[p] /\ new[p] = desc
             /\ <<p, "changed", {desc}>> \notin added
             /\ <<p, "changed", {desc}>> \notin removed
  <2>1. <<p, "changed", {desc}>> \in changed <=>
           \E q \in {q \in DOMAIN old \cap DOMAIN new : old[q] # new[q]} : q = p /\ {new[q]} = {desc}
    OBVIOUS
  <2>2. \A a, b : {a} = {b} <=> a = b
    OBVIOUS
  <2> HIDE DEF changed
  <2>3. QED
    BY <2>1, <2>2
<1> HIDE DEF added, removed, changed
<1>5. QED
  BY <1>1, <1>2, <1>3, <1>4

(* What people are shown of a role's targets decides them, if none moved.  *)
LEMMA UnmovedTell ==
    ASSUME NEW base, NEW h1, NEW h2, NEW role, NEW old, NEW s, NEW t, IsMap(s), IsMap(t),
           NoneMoved(base, h1, role, old, s),
           TargetChanges(base, h1, role, old, s) = TargetChanges(base, h2, role, old, t),
           MovedTargets(base, h1, role, old, s) = MovedTargets(base, h2, role, old, t)
    PROVE  s = t
<1>1. NoneMoved(base, h2, role, old, t)
  BY NoneMovedIs
<1> DEFINE L1 == TargetChanges(base, h1, role, old, s)
           L2 == TargetChanges(base, h2, role, old, t)
<1>2. ASSUME NEW p
      PROVE  /\ p \in DOMAIN s <=> p \in DOMAIN t
             /\ p \in DOMAIN s => s[p] = t[p]
  <2>1. /\ \A desc : <<p, "added", {desc}>> \in L1
              <=> p \in DOMAIN s /\ p \notin DOMAIN old /\ s[p] = desc
        /\ <<p, "removed", {}>> \in L1 <=> p \in DOMAIN old /\ p \notin DOMAIN s
        /\ \A desc : <<p, "changed", {desc}>> \in L1
              <=> p \in DOMAIN old /\ p \in DOMAIN s /\ old[p] # s[p] /\ s[p] = desc
    BY TargetLines
  <2>2. /\ \A desc : <<p, "added", {desc}>> \in L2
              <=> p \in DOMAIN t /\ p \notin DOMAIN old /\ t[p] = desc
        /\ <<p, "removed", {}>> \in L2 <=> p \in DOMAIN old /\ p \notin DOMAIN t
        /\ \A desc : <<p, "changed", {desc}>> \in L2
              <=> p \in DOMAIN old /\ p \in DOMAIN t /\ old[p] # t[p] /\ t[p] = desc
    BY <1>1, TargetLines
  <2>3. L1 = L2
    OBVIOUS
  <2> HIDE DEF L1, L2
  <2>4. /\ \A desc : (p \in DOMAIN s /\ p \notin DOMAIN old /\ s[p] = desc)
                        <=> (p \in DOMAIN t /\ p \notin DOMAIN old /\ t[p] = desc)
        /\ (p \in DOMAIN old /\ p \notin DOMAIN s) <=> (p \in DOMAIN old /\ p \notin DOMAIN t)
        /\ \A desc : (p \in DOMAIN old /\ p \in DOMAIN s /\ old[p] # s[p] /\ s[p] = desc)
                        <=> (p \in DOMAIN old /\ p \in DOMAIN t /\ old[p] # t[p] /\ t[p] = desc)
    BY <2>1, <2>2, <2>3
  <2>5. QED
    BY <2>4
<1>3. DOMAIN s = DOMAIN t
  BY <1>2
<1>4. QED
  BY <1>2, <1>3 DEF IsMap

-------------------------------------------------------------------------------
(* Targets that are grouped by where clients look for them *)

(* Where clients look for `path`: the first delegation that matches.       *)
LEMMA FirstMatch ==
    ASSUME NEW dels, Searched(dels), NEW path
    PROVE  \/ /\ DelegatedRole(dels, path) = "targets"
              /\ \A i \in DOMAIN dels : path \notin dels[i].paths
           \/ \E i \in DOMAIN dels :
                 /\ DelegatedRole(dels, path) = dels[i].name /\ path \in dels[i].paths
                 /\ \A j \in DOMAIN dels : path \in dels[j].paths => i <= j
<1> DEFINE I == {i \in 1 .. Len(dels) : path \in dels[i].paths}
           i == SelectInSeq(dels, LAMBDA d : path \in d.paths)
<1>1. Len(dels) \in Nat /\ DOMAIN dels = 1 .. Len(dels)
  BY DEF Searched
<1>2. i = IF I # {} THEN Min(I) ELSE 0
  BY DEF SelectInSeq
<1>3. DelegatedRole(dels, path) = IF i = 0 THEN "targets" ELSE dels[i].name
  BY DEF DelegatedRole
<1>4. \A j : j \in I <=> j \in DOMAIN dels /\ path \in dels[j].paths
  BY <1>1
<1> HIDE DEF i
<1>5. CASE I = {}
  <2>1. i = 0
    BY <1>2, <1>5
  <2>2. \A j \in DOMAIN dels : path \notin dels[j].paths
    BY <1>4, <1>5
  <2>3. QED
    BY <1>3, <2>1, <2>2
<1>6. CASE I # {}
  <2>1. I \subseteq Nat /\ 0 \notin I
    BY <1>1
  <2> HIDE DEF I
  <2>2. PICK m \in I : \A n \in I : ~ (<<n, m>> \in OpToRel(<, Nat))
    BY <1>6, <2>1, NatLessThanWellFounded, WFMin
  <2>3. \A k, n \in Nat : k < n => <<k, n>> \in OpToRel(<, Nat)
    BY Zenon DEF OpToRel
  <2>4. \A n \in I : n \in Nat
    BY <2>1
  <2>5. \A n \in I : ~ (n < m)
    BY <2>2, <2>3, <2>4
  <2>6. \A n \in I : m =< n
    BY <2>4, <2>5
  <2>7. Min(I) \in I /\ \A n \in I : Min(I) =< n
    BY <2>6 DEF Min
  <2>8. i \in I /\ \A n \in I : i =< n
    BY <1>2, <1>6, <2>7
  <2>9. i # 0
    BY <2>1, <2>8
  <2>10. i \in DOMAIN dels /\ path \in dels[i].paths
    BY <1>4, <2>8
  <2>11. \A j \in DOMAIN dels : path \in dels[j].paths => i <= j
    BY <1>4, <2>8
  <2>12. QED
    BY <1>3, <2>9, <2>10, <2>11
<1>7. QED
  BY <1>5, <1>6

\* Those of `paths` that belong in `role`.
Belonging(dels, paths, role) == {p \in paths : DelegatedRole(dels, p) = role}

(* If two orders of the same delegations group paths differently, the first *)
(* role of the one order that gets other paths gets fewer by the other.    *)
LEMMA FirstDifference ==
    ASSUME NEW ds, NEW es, Searched(ds), Searched(es), ToSet(ds) = ToSet(es), NEW paths,
           NEW role, Belonging(ds, paths, role) # Belonging(es, paths, role)
    PROVE  \E r : /\ Belonging(es, paths, r) \subseteq Belonging(ds, paths, r)
                  /\ Belonging(es, paths, r) # Belonging(ds, paths, r)
<1> DEFINE n == Len(ds)
           Name(k) == IF k = n + 1 THEN "targets" ELSE ds[k].name
           Differs(r) == Belonging(ds, paths, r) # Belonging(es, paths, r)
           X == {k \in 1 .. n + 1 : Differs(Name(k))}
<1>1. n \in Nat /\ DOMAIN ds = 1 .. n
  BY DEF Searched
<1>2. /\ \A i, j \in DOMAIN ds : ds[i].name = ds[j].name => i = j
      /\ \A i \in DOMAIN ds : ds[i].name # "targets"
      /\ \A i \in DOMAIN es : es[i].name # "targets"
  BY DEF Searched
<1>3. \A j \in DOMAIN es : \E i \in DOMAIN ds : ds[i] = es[j]
  BY DEF ToSet
<1>4. ASSUME NEW p
      PROVE  \E k \in 1 .. n + 1 : DelegatedRole(ds, p) = Name(k)
  <2>1. CASE DelegatedRole(ds, p) = "targets"
    BY <1>1, <2>1
  <2>2. CASE \E i \in DOMAIN ds : DelegatedRole(ds, p) = ds[i].name
    BY <1>1, <2>2
  <2>3. QED
    BY <2>1, <2>2, FirstMatch
<1>5. ASSUME NEW p
      PROVE  \E k \in 1 .. n + 1 : DelegatedRole(es, p) = Name(k)
  <2>1. CASE DelegatedRole(es, p) = "targets"
    BY <1>1, <2>1
  <2>2. CASE \E j \in DOMAIN es : DelegatedRole(es, p) = es[j].name
    BY <1>1, <1>3, <2>2
  <2>3. QED
    BY <2>1, <2>2, FirstMatch
<1>6. PICK k0 \in 1 .. n + 1 : role = Name(k0)
  <2>1. \E p : p \in Belonging(ds, paths, role) \/ p \in Belonging(es, paths, role)
    OBVIOUS
  <2>2. \E p : DelegatedRole(ds, p) = role \/ DelegatedRole(es, p) = role
    BY <2>1 DEF Belonging
  <2> HIDE DEF Name
  <2>3. QED
    BY <1>4, <1>5, <2>2
<1>7. k0 \in X
  BY <1>6
<1>8. PICK k \in X : \A j \in X : ~ (<<j, k>> \in OpToRel(<, Nat))
  <2>1. X \subseteq Nat
    BY <1>1
  <2> HIDE DEF X
  <2>2. QED
    BY <1>7, <2>1, NatLessThanWellFounded, WFMin
<1>9. ASSUME NEW j \in 1 .. n + 1, j < k
      PROVE  Belonging(ds, paths, Name(j)) = Belonging(es, paths, Name(j))
  <2>1. \A a, b \in Nat : a < b => <<a, b>> \in OpToRel(<, Nat)
    BY Zenon DEF OpToRel
  <2>2. j \in Nat /\ k \in Nat
    BY <1>1
  <2>3. j \notin X
    BY <1>8, <1>9, <2>1, <2>2
  <2>4. QED
    BY <2>3
<1>10. k \in 1 .. n + 1 /\ Differs(Name(k))
  OBVIOUS
<1> HIDE DEF X
<1>11. ASSUME NEW p \in Belonging(es, paths, Name(k))
       PROVE  DelegatedRole(ds, p) = Name(k)
  <2>1. p \in paths /\ DelegatedRole(es, p) = Name(k)
    BY DEF Belonging
  <2>2. ASSUME NEW i \in DOMAIN ds, i < k, DelegatedRole(ds, p) = ds[i].name
        PROVE  FALSE
    <3>1. i \in 1 .. n + 1 /\ Name(i) = ds[i].name
      BY <1>1
    <3>2. p \in Belonging(ds, paths, Name(i))
      BY <2>1, <2>2, <3>1 DEF Belonging
    <3>3. p \in Belonging(es, paths, Name(i))
      BY <1>9, <2>2, <3>1, <3>2
    <3>4. DelegatedRole(es, p) = ds[i].name
      BY <3>1, <3>3 DEF Belonging
    <3>5. CASE k = n + 1
      BY <1>2, <2>1, <3>4, <3>5
    <3>6. CASE k # n + 1
      BY <1>1, <1>2, <1>10, <2>1, <2>2, <3>4, <3>6
    <3>7. QED
      BY <3>5, <3>6
  <2>3. CASE k = n + 1
    <3>1. CASE DelegatedRole(ds, p) = "targets"
      BY <2>3, <3>1
    <3>2. CASE \E i \in DOMAIN ds : DelegatedRole(ds, p) = ds[i].name
      BY <1>1, <2>2, <2>3, <3>2
    <3>3. QED
      BY <3>1, <3>2, FirstMatch
  <2>4. CASE k # n + 1
    <3>1. k \in DOMAIN ds /\ Name(k) = ds[k].name
      BY <1>1, <1>10, <2>4
    <3>2. PICK j \in DOMAIN es : es[j].name = ds[k].name /\ p \in es[j].paths
      <4>1. DelegatedRole(es, p) # "targets"
        BY <1>2, <2>1, <3>1
      <4>2. PICK j \in DOMAIN es : DelegatedRole(es, p) = es[j].name /\ p \in es[j].paths
        BY <4>1, FirstMatch
      <4>3. QED
        BY <2>1, <3>1, <4>2
    <3>3. es[j] = ds[k]
      BY <1>2, <1>3, <3>1, <3>2
    <3>4. PICK i \in DOMAIN ds : DelegatedRole(ds, p) = ds[i].name /\ i <= k
      <4>1. p \in ds[k].paths
        BY <3>2, <3>3
      <4>2. QED
        BY <3>1, <4>1, FirstMatch
    <3>5. i = k
      BY <1>1, <2>2, <3>1, <3>4
    <3>6. QED
      BY <3>1, <3>4, <3>5
  <2>5. QED
    BY <2>3, <2>4
<1>12. Belonging(es, paths, Name(k)) \subseteq Belonging(ds, paths, Name(k))
  BY <1>11 DEF Belonging
<1>13. QED
  BY <1>10, <1>12

\* Whatever roles list a path, they list it as the same file.
AllAlike(repo) == \A p \in ListedPaths(repo) : ListedAlike(repo, p)

(* What each role lists is what belongs in it.                             *)
LEMMA RegroupedIs ==
    ASSUME NEW base, NEW dels, NEW role
    PROVE  LET T == Regrouped(base, dels, role)
           IN  /\ IsMap(T)
               /\ DOMAIN T = Belonging(dels, ListedPaths(base), role)
               /\ \A p \in DOMAIN T : T[p] = Description(base, dels, p)
BY DEF Regrouped, Belonging, IsMap

(* Whatever role describes a path, it describes it as every other does.    *)
LEMMA DescriptionIsCommon ==
    ASSUME NEW base, NEW dels, NEW p, ListedAlike(base, p), NEW r \in Listers(base, p)
    PROVE  Description(base, dels, p) = TargetsOf(base, r)[p]
<1>1. \E l \in Listers(base, p) : Description(base, dels, p) = TargetsOf(base, l)[p]
  BY DEF Description
<1>2. QED
  BY <1>1 DEF ListedAlike

\* The roles of `head` list what belongs in them.
RegroupsAll(base, head) ==
    \A r \in TargetsRoles(head) : TargetsOf(head, r) = Regrouped(base, Delegations(head), r)

(* All that a role lists for the first time came from another one, and all *)
(* it lists no more has gone to another one.                               *)
LEMMA RegroupedMove ==
    ASSUME NEW base, NEW head, AllAlike(base), RegroupsAll(base, head),
           \A p : DelegatedRole(Delegations(head), p) \in TargetsRoles(head),
           NEW r \in TargetsRoles(head)
    PROVE  LET old == ListedBy(base, r)
               new == TargetsOf(head, r)
           IN  /\ Came(base, r, old, new) = DOMAIN new \ DOMAIN old
               /\ Left(head, r, old, new) = DOMAIN old \ DOMAIN new
<1> DEFINE old == ListedBy(base, r)
           new == TargetsOf(head, r)
           dels == Delegations(head)
<1>1. new = Regrouped(base, dels, r)
  BY DEF RegroupsAll
<1>2. /\ DOMAIN new = Belonging(dels, ListedPaths(base), r)
      /\ \A p \in DOMAIN new : new[p] = Description(base, dels, p)
  BY <1>1, RegroupedIs
<1>3. r \notin {"root", "snapshot", "timestamp"}
  BY DEF TargetsRoles
<1>4. \A p : p \in DOMAIN old => r \in Listers(base, p) /\ old[p] = TargetsOf(base, r)[p]
  BY <1>3 DEF ListedBy, Has, Listers, TargetsRoles
<1>5. \A p : r \in Listers(base, p) => p \in DOMAIN old
  BY DEF ListedBy, Has, Listers, TargetsRoles
<1>6. \A p : p \in ListedPaths(base) <=> \E l : l \in Listers(base, p)
  BY DEF ListedPaths, Listers
<1> HIDE DEF new, old
<1>7. ASSUME NEW p \in DOMAIN new \ DOMAIN old
      PROVE  IsElsewhere(base, r, p, new[p])
  <2>1. p \in ListedPaths(base)
    BY <1>2 DEF Belonging
  <2>2. PICK l : l \in Listers(base, p)
    BY <1>6, <2>1
  <2>3. l # r
    BY <1>5, <2>2
  <2>4. new[p] = TargetsOf(base, l)[p]
    BY <1>2, <2>1, <2>2, DescriptionIsCommon DEF AllAlike
  <2>5. QED
    BY <2>2, <2>3, <2>4 DEF IsElsewhere
<1>8. ASSUME NEW p \in DOMAIN old \ DOMAIN new
      PROVE  IsElsewhere(head, r, p, old[p])
  <2> DEFINE q == DelegatedRole(dels, p)
  <2>1. r \in Listers(base, p) /\ old[p] = TargetsOf(base, r)[p] /\ p \in ListedPaths(base)
    BY <1>4, <1>6
  <2>2. q # r
    BY <1>2, <2>1 DEF Belonging
  <2>3. q \in TargetsRoles(head)
    OBVIOUS
  <2> HIDE DEF q
  <2>4. TargetsOf(head, q) = Regrouped(base, dels, q)
    BY <2>3 DEF RegroupsAll
  <2>5. p \in Belonging(dels, ListedPaths(base), q)
    BY <2>1 DEF Belonging, q
  <2>6. p \in DOMAIN TargetsOf(head, q) /\ TargetsOf(head, q)[p] = Description(base, dels, p)
    BY <2>4, <2>5, RegroupedIs
  <2>7. TargetsOf(head, q)[p] = old[p]
    BY <2>1, <2>6, DescriptionIsCommon DEF AllAlike
  <2>8. QED
    BY <2>2, <2>3, <2>6, <2>7 DEF IsElsewhere, Listers
<1>9. Came(base, r, old, new) = DOMAIN new \ DOMAIN old
  BY <1>7 DEF Came
<1>10. Left(head, r, old, new) = DOMAIN old \ DOMAIN new
  BY <1>8 DEF Left
<1>11. QED
  BY <1>9, <1>10 DEF old, new

(* Equal lines about moves, of which the ones came out of a part of what    *)
(* the others came out of: it is all of it.                                *)
LEMMA MovesDecide ==
    ASSUME NEW base, NEW h1, NEW h2, NEW r, NEW old, NEW s, NEW t,
           MovedTargets(base, h1, r, old, s) = MovedTargets(base, h2, r, old, t),
           Came(base, r, old, s) = DOMAIN s \ DOMAIN old,
           Came(base, r, old, t) = DOMAIN t \ DOMAIN old,
           Left(h1, r, old, s) = DOMAIN old \ DOMAIN s,
           Left(h2, r, old, t) = DOMAIN old \ DOMAIN t,
           IsFiniteSet(DOMAIN s), IsFiniteSet(DOMAIN old), DOMAIN t \subseteq DOMAIN s
    PROVE  DOMAIN t = DOMAIN s
<1> DEFINE from1 == [p \in Came(base, r, old, s) |-> Elsewhere(base, r, p, s[p])]
           from2 == [p \in Came(base, r, old, t) |-> Elsewhere(base, r, p, t[p])]
           to1   == [p \in Left(h1, r, old, s) |-> Elsewhere(h1, r, p, old[p])]
           to2   == [p \in Left(h2, r, old, t) |-> Elsewhere(h2, r, p, old[p])]
<1>1. /\ DOMAIN from1 = DOMAIN s \ DOMAIN old
      /\ DOMAIN from2 = DOMAIN t \ DOMAIN old
      /\ DOMAIN to1 = DOMAIN old \ DOMAIN s
      /\ DOMAIN to2 = DOMAIN old \ DOMAIN t
  OBVIOUS
<1>2. Tally("from", from1) \cup Tally("to", to1) = Tally("from", from2) \cup Tally("to", to2)
  <2>1. /\ MovedTargets(base, h1, r, old, s) = Tally("from", from1) \cup Tally("to", to1)
        /\ MovedTargets(base, h2, r, old, t) = Tally("from", from2) \cup Tally("to", to2)
    BY DEF MovedTargets
  <2> HIDE DEF from1, from2, to1, to2
  <2>2. QED
    BY <2>1
<1> HIDE DEF from1, from2, to1, to2
<1>3. Tally("from", from1) = Tally("from", from2) /\ Tally("to", to1) = Tally("to", to2)
  BY <1>2, TalliesApart
<1>4. IsFiniteSet(DOMAIN from1) /\ IsFiniteSet(DOMAIN to2)
  BY <1>1, FS_Subset
<1>5. DOMAIN from2 = DOMAIN from1
  BY <1>1, <1>3, <1>4, TalliesDecide
<1>6. DOMAIN to1 = DOMAIN to2
  BY <1>1, <1>3, <1>4, TalliesDecide
<1>7. QED
  BY <1>1, <1>5, <1>6

(* Two orders of the same delegations, of which the same moves are shown,  *)
(* group the targets alike.                                                *)
LEMMA RegroupTell ==
    ASSUME NEW base, NEW h1, NEW h2, AllAlike(base), IsFiniteSet(ListedPaths(base)),
           RegroupsAll(base, h1), RegroupsAll(base, h2),
           Searched(Delegations(h1)), Searched(Delegations(h2)),
           ToSet(Delegations(h1)) = ToSet(Delegations(h2)),
           TargetsRoles(h1) = TargetsRoles(h2),
           \A p : DelegatedRole(Delegations(h1), p) \in TargetsRoles(h1),
           \A p : DelegatedRole(Delegations(h2), p) \in TargetsRoles(h2),
           \A r \in TargetsRoles(h1) :
              MovedTargets(base, h1, r, ListedBy(base, r), TargetsOf(h1, r))
                = MovedTargets(base, h2, r, ListedBy(base, r), TargetsOf(h2, r)),
           NEW r \in TargetsRoles(h1)
    PROVE  TargetsOf(h1, r) = TargetsOf(h2, r)
<1> DEFINE P == ListedPaths(base)
<1>1. ASSUME NEW g, NEW h, RegroupsAll(base, g), RegroupsAll(base, h),
             Searched(Delegations(g)), Searched(Delegations(h)),
             ToSet(Delegations(g)) = ToSet(Delegations(h)),
             TargetsRoles(g) = TargetsRoles(h),
             \A p : DelegatedRole(Delegations(g), p) \in TargetsRoles(g),
             \A p : DelegatedRole(Delegations(h), p) \in TargetsRoles(h),
             \A x \in TargetsRoles(g) :
                MovedTargets(base, g, x, ListedBy(base, x), TargetsOf(g, x))
                  = MovedTargets(base, h, x, ListedBy(base, x), TargetsOf(h, x)),
             Belonging(Delegations(g), P, r) # Belonging(Delegations(h), P, r)
      PROVE  FALSE
  <2>1. PICK x : /\ Belonging(Delegations(h), P, x) \subseteq Belonging(Delegations(g), P, x)
                 /\ Belonging(Delegations(h), P, x) # Belonging(Delegations(g), P, x)
    BY <1>1, FirstDifference
  <2>2. x \in TargetsRoles(g)
    <3>1. \E p : p \in Belonging(Delegations(g), P, x)
      BY <2>1
    <3>2. QED
      BY <1>1, <3>1 DEF Belonging
  <2> DEFINE old == ListedBy(base, x)
             s == TargetsOf(g, x)
             t == TargetsOf(h, x)
  <2>3. /\ DOMAIN s = Belonging(Delegations(g), P, x)
        /\ DOMAIN t = Belonging(Delegations(h), P, x)
    BY <1>1, <2>2, RegroupedIs DEF RegroupsAll
  <2>4. IsFiniteSet(DOMAIN s) /\ IsFiniteSet(DOMAIN old)
    <3>1. DOMAIN s \subseteq P
      BY <2>3 DEF Belonging
    <3>2. DOMAIN old \subseteq P
      <4>1. CASE Has(base, x)
        <5>1. x \in TargetsRoles(base)
          BY <2>2, <4>1 DEF TargetsRoles, Has
        <5>2. QED
          BY <4>1, <5>1 DEF ListedBy, ListedPaths
      <4>2. CASE ~Has(base, x)
        BY <4>2 DEF ListedBy
      <4>3. QED
        BY <4>1, <4>2
    <3>3. QED
      BY <3>1, <3>2, FS_Subset
  <2>5. /\ Came(base, x, old, s) = DOMAIN s \ DOMAIN old
        /\ Left(g, x, old, s) = DOMAIN old \ DOMAIN s
    BY <1>1, <2>2, RegroupedMove
  <2>6. /\ Came(base, x, old, t) = DOMAIN t \ DOMAIN old
        /\ Left(h, x, old, t) = DOMAIN old \ DOMAIN t
    BY <1>1, <2>2, RegroupedMove
  <2>7. MovedTargets(base, g, x, old, s) = MovedTargets(base, h, x, old, t)
    BY <1>1, <2>2
  <2>8. DOMAIN t \subseteq DOMAIN s
    BY <2>1, <2>3
  <2> HIDE DEF s, t, old
  <2>9. DOMAIN t = DOMAIN s
    BY <2>4, <2>5, <2>6, <2>7, <2>8, MovesDecide
  <2>10. QED
    BY <2>1, <2>3, <2>9
<1>2. Belonging(Delegations(h1), P, r) = Belonging(Delegations(h2), P, r)
  BY <1>1
<1>3. /\ TargetsOf(h1, r) = Regrouped(base, Delegations(h1), r)
      /\ TargetsOf(h2, r) = Regrouped(base, Delegations(h2), r)
  BY DEF RegroupsAll
<1> DEFINE s == TargetsOf(h1, r)
           t == TargetsOf(h2, r)
<1>4. IsMap(s) /\ IsMap(t) /\ DOMAIN s = DOMAIN t
  BY <1>2, <1>3, RegroupedIs
<1>5. ASSUME NEW p \in DOMAIN s
      PROVE  s[p] = t[p]
  <2>1. p \in P
    <3>1. DOMAIN s = Belonging(Delegations(h1), P, r)
      BY <1>3, RegroupedIs
    <3> HIDE DEF s, P
    <3>2. QED
      BY <3>1 DEF Belonging
  <2>2. PICK l : l \in Listers(base, p)
    BY <2>1 DEF ListedPaths, Listers
  <2>3. s[p] = Description(base, Delegations(h1), p) /\ t[p] = Description(base, Delegations(h2), p)
    BY <1>3, <1>4, RegroupedIs
  <2>4. QED
    BY <2>1, <2>2, <2>3, DescriptionIsCommon DEF AllAlike
<1> HIDE DEF s, t
<1>6. s = t
  BY <1>4, <1>5 DEF IsMap
<1>7. QED
  BY <1>6 DEF s, t

-------------------------------------------------------------------------------
(* What people are shown of an event *)

(* Nothing is shown of a targets role that is as it was.                   *)
LEMMA UnchangedShowsNothing ==
    ASSUME NEW base, NEW head, NEW role, Has(base, role), base.files[role] = head.files[role],
           ByName(ToSet(head.files[role].body.delegations))
    PROVE  TargetsRoleChanges(base, head, role) = NoChanges
<1> DEFINE shown == TargetsRoleChanges(base, head, role)
           was   == DelegatedBy(base, role)
           body  == head.files[role].body
           dels  == body.delegations
           old   == ListedBy(base, role)
           none  == [keys |-> shown.keys, thresholds |-> shown.thresholds,
                     delegations |-> shown.delegations, paths |-> shown.paths,
                     order |-> shown.order, targets |-> shown.targets, moved |-> shown.moved]
<1>1. was = dels /\ old = body.targets
  BY DEF DelegatedBy, ListedBy, TargetsOf
<1>2. ASSUME NEW d \in ToSet(dels), NEW x
      PROVE  x \in Named(was, d.name) <=> x = d
  BY <1>1 DEF Named, ByName
<1>3. ASSUME NEW d \in ToSet(dels)
      PROVE  /\ KeyChanges(d.name, Named(was, d.name), d) = {}
             /\ ThresholdChanges(d.name, Named(was, d.name), d) = {}
             /\ PathChanges(d.name, Named(was, d.name), d) = {}
  <2> DEFINE known == Named(was, d.name)
  <2>1. known = {d}
    BY <1>2
  <2> HIDE DEF known
  <2>2. UNION {o.keys : o \in known} = d.keys /\ UNION {o.paths : o \in known} = d.paths
    BY <2>1
  <2>3. SetChanges(d.keys, d.keys) = {} /\ SetChanges(d.paths, d.paths) = {}
    BY NoSetChanges
  <2>4. KeyChanges(d.name, known, d) = {} /\ PathChanges(d.name, known, d) = {}
    BY <2>2, <2>3 DEF KeyChanges, PathChanges
  <2>5. ThresholdChanges(d.name, known, d) = {}
    BY <2>1 DEF ThresholdChanges
  <2>6. QED
    BY <2>4, <2>5 DEF known
<1>4. /\ KeyLines(was, ToSet(dels)) = {}
      /\ ThresholdLines(was, ToSet(dels)) = {}
      /\ PathLines(was, ToSet(dels)) = {}
  <2> HIDE DEF was, dels
  <2>1. KeyLines(was, ToSet(dels)) = {}
    BY <1>3 DEF KeyLines
  <2>2. ThresholdLines(was, ToSet(dels)) = {}
    BY <1>3 DEF ThresholdLines
  <2>3. PathLines(was, ToSet(dels)) = {}
    BY <1>3 DEF PathLines
  <2>4. QED
    BY <2>1, <2>2, <2>3
<1>5. OrderChanges(was, dels) = {}
  BY <1>1 DEF OrderChanges
<1>6. NoneMoved(base, head, role, old, body.targets)
  BY <1>1 DEF NoneMoved, Came, Left
<1>7. MovedTargets(base, head, role, old, body.targets) = {}
  BY <1>6, NoneMovedIs
<1>8. TargetChanges(base, head, role, old, body.targets) = {}
  <2> DEFINE t == body.targets
  <2>1. /\ DOMAIN t \ (DOMAIN old \cup Came(base, role, old, t)) = {}
        /\ DOMAIN old \ (DOMAIN t \cup Left(head, role, old, t)) = {}
        /\ {p \in DOMAIN old \cap DOMAIN t : old[p] # t[p]} = {}
    BY <1>1
  <2> HIDE DEF old, t
  <2>2. TargetChanges(base, head, role, old, t) = {}
    BY <2>1 DEF TargetChanges
  <2>3. QED
    BY <2>2 DEF t
<1>9. SetChanges({d.name : d \in ToSet(was)}, {d.name : d \in ToSet(dels)}) = {}
  BY <1>1, NoSetChanges
<1>10. /\ shown.keys = {} /\ shown.thresholds = {} /\ shown.paths = {} /\ shown.delegations = {}
       /\ shown.order = {} /\ shown.targets = {} /\ shown.moved = {}
  <2>1. /\ shown.keys = KeyLines(was, ToSet(dels))
        /\ shown.thresholds = ThresholdLines(was, ToSet(dels))
        /\ shown.paths = PathLines(was, ToSet(dels))
        /\ shown.delegations =
              SetChanges({d.name : d \in ToSet(was)}, {d.name : d \in ToSet(dels)})
        /\ shown.order = OrderChanges(was, dels)
        /\ shown.targets = TargetChanges(base, head, role, old, body.targets)
        /\ shown.moved = MovedTargets(base, head, role, old, body.targets)
    BY DEF TargetsRoleChanges, DelegatedBy, ListedBy, KeyLines, ThresholdLines, PathLines
  <2> HIDE DEF shown, was, body, old
  <2>2. QED
    BY <1>4, <1>5, <1>7, <1>8, <1>9, <2>1
<1>11. shown = none
  BY DEF TargetsRoleChanges
<1> HIDE DEF shown
<1>12. none = NoChanges
  BY <1>10 DEF NoChanges
<1>13. QED
  BY <1>11, <1>12 DEF shown

(* Nor is anything of root.                                                *)
LEMMA UnchangedRootShowsNothing ==
    ASSUME NEW base, NEW head, Has(base, "root"), base.files["root"] = head.files["root"]
    PROVE  RootChanges(base, head) = NoChanges
<1> DEFINE Old(top) == {RoleKeys(base, top)}
           K == UNION {KeyChanges(top, Old(top), RoleKeys(head, top)) : top \in TopLevel}
           T == UNION {ThresholdChanges(top, Old(top), RoleKeys(head, top)) : top \in TopLevel}
<1>1. ASSUME NEW top \in TopLevel
      PROVE  /\ KeyChanges(top, Old(top), RoleKeys(head, top)) = {}
             /\ ThresholdChanges(top, Old(top), RoleKeys(head, top)) = {}
  <2> DEFINE k == RoleKeys(head, top)
  <2>1. RoleKeys(base, top) = k
    BY DEF RoleKeys
  <2> HIDE DEF k
  <2>2. UNION {o.keys : o \in {k}} = k.keys
    OBVIOUS
  <2>3. SetChanges(k.keys, k.keys) = {}
    BY NoSetChanges
  <2>4. KeyChanges(top, {k}, k) = {}
    BY <2>2, <2>3 DEF KeyChanges
  <2>5. ThresholdChanges(top, {k}, k) = {}
    BY DEF ThresholdChanges
  <2>6. QED
    BY <2>1, <2>4, <2>5 DEF k
<1>2. K = {} /\ T = {}
  <2> HIDE DEF Old
  <2>1. QED
    BY <1>1
<1>3. RootChanges(base, head) = [NoChanges EXCEPT !.keys = K, !.thresholds = T]
  BY DEF RootChanges
<1> HIDE DEF K, T
<1>4. [NoChanges EXCEPT !.keys = {}, !.thresholds = {}] = NoChanges
  <2> DEFINE none == [keys |-> {}, thresholds |-> {}, delegations |-> {}, paths |-> {},
                      order |-> {}, targets |-> {}, moved |-> {}]
  <2>1. [none EXCEPT !.keys = {}] = none
    OBVIOUS
  <2>2. [none EXCEPT !.thresholds = {}] = none
    OBVIOUS
  <2>3. [[none EXCEPT !.keys = {}] EXCEPT !.thresholds = {}] = none
    BY <2>1, <2>2
  <2>4. NoChanges = none
    BY DEF NoChanges
  <2> HIDE DEF none
  <2>5. [none EXCEPT !.keys = {}, !.thresholds = {}] = none
    BY <2>3
  <2>6. QED
    BY <2>4, <2>5
<1>5. QED
  BY <1>2, <1>3, <1>4

(* Of an event people are shown the changes of every role, be there any or  *)
(* not.                                                                    *)
LEMMA ReviewIs ==
    ASSUME NEW base, NEW head, Has(base, "root"),
           \A r \in TargetsRoles(head) : ByName(ToSet(head.files[r].body.delegations))
    PROVE  /\ DOMAIN Review(base, head) = EventRoles(head)
           /\ \A r \in EventRoles(head) : Review(base, head)[r] = RoleChanges(base, head, r)
<1>1. /\ DOMAIN Review(base, head) = EventRoles(head)
      /\ \A r \in EventRoles(head) :
            Review(base, head)[r]
              = IF ChangedIn(base, head, r) THEN RoleChanges(base, head, r) ELSE NoChanges
  BY DEF Review
<1>2. ASSUME NEW r \in EventRoles(head), ~ChangedIn(base, head, r)
      PROVE  RoleChanges(base, head, r) = NoChanges
  <2>1. Has(base, r) /\ base.files[r] = head.files[r]
    BY <1>2 DEF ChangedIn
  <2>2. CASE r = "root"
    BY <2>1, <2>2, UnchangedRootShowsNothing DEF RoleChanges
  <2>3. CASE r # "root"
    <3>1. r \in TargetsRoles(head)
      BY <2>3 DEF EventRoles, TargetsRoles
    <3>2. QED
      BY <2>1, <2>3, <3>1, UnchangedShowsNothing DEF RoleChanges
  <2>4. QED
    BY <2>2, <2>3
<1>3. QED
  BY <1>1, <1>2

\* No target of `head` is in another role than it was.
Unmoved(base, head) ==
    \A r \in TargetsRoles(head) :
        NoneMoved(base, head, r, ListedBy(base, r), TargetsOf(head, r))

\* The roles list what they did or, all of them if the delegations are new,
\* what belongs in them.
Regroups(base, head) ==
    /\ \A r \in TargetsRoles(head) :
          \/ Has(base, r) /\ TargetsOf(head, r) = TargetsOf(base, r)
          \/ TargetsOf(head, r) = Regrouped(base, Delegations(head), r)
    /\ Delegations(head) = Delegations(base) \/ RegroupsAll(base, head)

(* What is said of the targets of a role decides them, given that it does  *)
(* so of the delegations.                                                  *)
LEMMA TargetsTell ==
    ASSUME NEW base, NEW h1, NEW h2, AllAlike(base), IsFiniteSet(ListedPaths(base)),
           Searched(Delegations(h1)), Searched(Delegations(h2)),
           ToSet(Delegations(h1)) = ToSet(Delegations(h2)),
           \/ Delegations(h1) = Delegations(h2)
           \/ \E d \in ToSet(Delegations(h2)) : Named(Delegations(base), d.name) = {},
           TargetsRoles(h1) = TargetsRoles(h2),
           \A p : DelegatedRole(Delegations(h1), p) \in TargetsRoles(h1),
           \A p : DelegatedRole(Delegations(h2), p) \in TargetsRoles(h2),
           Unmoved(base, h1) \/ Regroups(base, h1),
           Unmoved(base, h2) \/ Regroups(base, h2),
           \A r \in TargetsRoles(h1) :
              LET old == ListedBy(base, r)
              IN  /\ IsMap(TargetsOf(h1, r)) /\ IsMap(TargetsOf(h2, r))
                  /\ TargetChanges(base, h1, r, old, TargetsOf(h1, r))
                       = TargetChanges(base, h2, r, old, TargetsOf(h2, r))
                  /\ MovedTargets(base, h1, r, old, TargetsOf(h1, r))
                       = MovedTargets(base, h2, r, old, TargetsOf(h2, r)),
           NEW r \in TargetsRoles(h1)
    PROVE  TargetsOf(h1, r) = TargetsOf(h2, r)
<1> DEFINE old == ListedBy(base, r)
           s == TargetsOf(h1, r)
           t == TargetsOf(h2, r)
<1>1. /\ IsMap(s) /\ IsMap(t)
      /\ TargetChanges(base, h1, r, old, s) = TargetChanges(base, h2, r, old, t)
      /\ MovedTargets(base, h1, r, old, s) = MovedTargets(base, h2, r, old, t)
  OBVIOUS
<1>2. NoneMoved(base, h1, r, old, s) => s = t
  <2> HIDE DEF old, s, t
  <2>1. QED
    BY <1>1, UnmovedTell
<1>3. NoneMoved(base, h2, r, old, t) => t = s
  <2> HIDE DEF old, s, t
  <2>1. QED
    BY <1>1, UnmovedTell
<1>4. ASSUME NEW h, Has(base, r), TargetsOf(h, r) = TargetsOf(base, r)
      PROVE  NoneMoved(base, h, r, old, TargetsOf(h, r))
  <2>1. old = TargetsOf(h, r)
    BY <1>4 DEF ListedBy
  <2> HIDE DEF old
  <2>2. QED
    BY <2>1 DEF NoneMoved, Came, Left
<1>5. CASE Unmoved(base, h1)
  BY <1>2, <1>5 DEF Unmoved
<1>6. CASE Unmoved(base, h2)
  BY <1>3, <1>6 DEF Unmoved
<1>7. CASE Regroups(base, h1) /\ Regroups(base, h2)
  <2>1. CASE Delegations(h1) = Delegations(h2)
    <3>1. CASE Has(base, r) /\ s = TargetsOf(base, r)
      BY <1>2, <1>4, <3>1
    <3>2. CASE Has(base, r) /\ t = TargetsOf(base, r)
      BY <1>3, <1>4, <3>2
    <3>3. CASE /\ s = Regrouped(base, Delegations(h1), r)
               /\ t = Regrouped(base, Delegations(h2), r)
      BY <2>1, <3>3
    <3>4. QED
      BY <1>7, <3>1, <3>2, <3>3 DEF Regroups
  <2>2. CASE \E d \in ToSet(Delegations(h2)) : Named(Delegations(base), d.name) = {}
    <3>1. PICK d \in ToSet(Delegations(h2)) : Named(Delegations(base), d.name) = {}
      BY <2>2
    <3>2. d \notin ToSet(Delegations(base))
      BY <3>1 DEF Named
    <3>3. RegroupsAll(base, h1) /\ RegroupsAll(base, h2)
      BY <1>7, <3>2 DEF Regroups
    <3>4. \A x \in TargetsRoles(h1) :
              MovedTargets(base, h1, x, ListedBy(base, x), TargetsOf(h1, x))
                = MovedTargets(base, h2, x, ListedBy(base, x), TargetsOf(h2, x))
      OBVIOUS
    <3> HIDE DEF s, t, old
    <3>5. QED
      BY <3>3, <3>4, RegroupTell
  <2>3. QED
    BY <2>1, <2>2
<1>8. QED
  BY <1>5, <1>6, <1>7

(* What people are shown of an event decides its metadata's contents, but   *)
(* for the order of delegations if some are new.                           *)
LEMMA ContentsTell ==
    ASSUME NEW base, NEW old, Follows(base, old), Valid(old),
           AllAlike(base), IsFiniteSet(ListedPaths(base)),
           NEW h1, NEW c1, Follows(h1, c1), Valid(c1), Unmoved(base, h1) \/ Regroups(base, h1),
           NEW h2, NEW c2, Follows(h2, c2), Valid(c2), Unmoved(base, h2) \/ Regroups(base, h2),
           Review(base, h1) = Review(base, h2)
    PROVE  /\ TargetsRoles(h1) = TargetsRoles(h2)
           /\ \A r \in TargetsRoles(h2) : TargetsOf(h1, r) = TargetsOf(h2, r)
           /\ h1.files["root"].body = h2.files["root"].body
           /\ ToSet(Delegations(h1)) = ToSet(Delegations(h2))
           /\ \/ Delegations(h1) = Delegations(h2)
              \/ \E d \in ToSet(Delegations(h2)) : Named(Delegations(base), d.name) = {}
<1>1. ASSUME NEW h, NEW c, Follows(h, c), Valid(c)
      PROVE  /\ Has(h, "root") /\ Has(h, "targets")
             /\ "root" \in EventRoles(h) /\ "targets" \in TargetsRoles(h)
             /\ \A r : r \in EventRoles(h) <=> r = "root" \/ r \in TargetsRoles(h)
             /\ \A r \in TargetsRoles(h) : r # "root"
             /\ Searched(Delegations(h)) /\ ByName(ToSet(Delegations(h)))
             /\ \A r \in TargetsRoles(h) : ByName(ToSet(h.files[r].body.delegations))
             /\ \A r \in TargetsRoles(h) : IsMap(TargetsOf(h, r))
             /\ \A p : DelegatedRole(Delegations(h), p) \in TargetsRoles(h)
             /\ h.files["root"].body = RootBody(c)
  <2>1. /\ Has(h, "root") /\ Has(h, "targets")
        /\ "root" \in EventRoles(h) /\ "targets" \in TargetsRoles(h)
    BY <1>1, RolesOfConfig DEF Follows, Has, EventRoles, TargetsRoles
  <2>2. /\ \A r : r \in EventRoles(h) <=> r = "root" \/ r \in TargetsRoles(h)
        /\ \A r \in TargetsRoles(h) : r # "root"
    BY <2>1 DEF EventRoles, TargetsRoles
  <2>3. Searched(Delegations(h)) /\ ByName(ToSet(Delegations(h)))
    BY <1>1, ConfigIsSearched DEF Follows
  <2>4. ByName(ToSet(<<>>))
    BY DEF ByName, ToSet
  <2>5. ASSUME NEW r \in TargetsRoles(h)
        PROVE  ByName(ToSet(h.files[r].body.delegations)) /\ IsMap(TargetsOf(h, r))
    <3>1. /\ IsTargets(h.files[r].body)
          /\ r # "targets" => h.files[r].body.delegations = <<>>
      BY <1>1 DEF Follows
    <3>2. QED
      BY <2>3, <2>4, <3>1 DEF IsTargets, TargetsOf, Delegations
  <2>6. \A p : DelegatedRole(Delegations(h), p) \in TargetsRoles(h)
    BY <1>1, DelegatedRoleIs DEF Follows, TargetsRoles
  <2>7. QED
    BY <1>1, <2>1, <2>2, <2>3, <2>5, <2>6 DEF Follows
<1>2. Has(base, "root") /\ Has(base, "targets")
      /\ Searched(Delegations(base)) /\ ByName(ToSet(Delegations(base)))
  BY <1>1
<1>3. /\ EventRoles(h1) = EventRoles(h2)
      /\ \A r \in EventRoles(h1) : RoleChanges(base, h1, r) = RoleChanges(base, h2, r)
  <2>1. /\ DOMAIN Review(base, h1) = EventRoles(h1)
        /\ \A r \in EventRoles(h1) : Review(base, h1)[r] = RoleChanges(base, h1, r)
    BY <1>1, <1>2, ReviewIs
  <2>2. /\ DOMAIN Review(base, h2) = EventRoles(h2)
        /\ \A r \in EventRoles(h2) : Review(base, h2)[r] = RoleChanges(base, h2, r)
    BY <1>1, <1>2, ReviewIs
  <2>3. QED
    BY <2>1, <2>2
<1>4. TargetsRoles(h1) = TargetsRoles(h2)
  <2>1. \A r : r \in TargetsRoles(h1) <=> r \in TargetsRoles(h2)
    BY <1>1, <1>3
  <2>2. QED
    BY <2>1
<1>5. h1.files["root"].body = h2.files["root"].body
  <2>1. RootChanges(base, h1) = RootChanges(base, h2)
    BY <1>1, <1>3 DEF RoleChanges
  <2>2. h1.files["root"].body = RootBody(c1) /\ h2.files["root"].body = RootBody(c2)
    BY <1>1
  <2>3. QED
    BY <1>2, <2>1, <2>2, RootTells
<1>6. \A r \in TargetsRoles(h1) : TargetsRoleChanges(base, h1, r) = TargetsRoleChanges(base, h2, r)
  BY <1>1, <1>3 DEF RoleChanges
<1>7. /\ ToSet(Delegations(h1)) = ToSet(Delegations(h2))
      /\ \/ Delegations(h1) = Delegations(h2)
         \/ \E d \in ToSet(Delegations(h2)) : Named(Delegations(base), d.name) = {}
  <2>1. TargetsRoleChanges(base, h1, "targets") = TargetsRoleChanges(base, h2, "targets")
    BY <1>1, <1>6
  <2>2. /\ Searched(Delegations(h1)) /\ ByName(ToSet(Delegations(h1)))
        /\ Searched(Delegations(h2)) /\ ByName(ToSet(Delegations(h2)))
    BY <1>1
  <2>3. QED
    BY <1>2, <2>1, <2>2, DelegatesTell
<1>8. ASSUME NEW r \in TargetsRoles(h1)
      PROVE  LET was == ListedBy(base, r)
             IN  /\ IsMap(TargetsOf(h1, r)) /\ IsMap(TargetsOf(h2, r))
                 /\ TargetChanges(base, h1, r, was, TargetsOf(h1, r))
                      = TargetChanges(base, h2, r, was, TargetsOf(h2, r))
                 /\ MovedTargets(base, h1, r, was, TargetsOf(h1, r))
                      = MovedTargets(base, h2, r, was, TargetsOf(h2, r))
  <2>1. IsMap(TargetsOf(h1, r)) /\ IsMap(TargetsOf(h2, r))
    BY <1>1, <1>4
  <2>2. ASSUME NEW h
        PROVE  /\ TargetsRoleChanges(base, h, r).targets
                    = TargetChanges(base, h, r, ListedBy(base, r), TargetsOf(h, r))
               /\ TargetsRoleChanges(base, h, r).moved
                    = MovedTargets(base, h, r, ListedBy(base, r), TargetsOf(h, r))
    BY DEF TargetsRoleChanges, ListedBy, TargetsOf
  <2>3. QED
    BY <1>6, <2>1, <2>2
<1>9. ASSUME NEW r \in TargetsRoles(h1)
      PROVE  TargetsOf(h1, r) = TargetsOf(h2, r)
  <2>1. /\ Searched(Delegations(h1)) /\ Searched(Delegations(h2))
        /\ \A p : DelegatedRole(Delegations(h1), p) \in TargetsRoles(h1)
        /\ \A p : DelegatedRole(Delegations(h2), p) \in TargetsRoles(h2)
    BY <1>1
  <2>2. QED
    BY <1>4, <1>7, <1>8, <2>1, TargetsTell
<1>10. QED
  BY <1>4, <1>5, <1>7, <1>9
================================================================================
