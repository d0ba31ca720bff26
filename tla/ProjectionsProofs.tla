------------------------- MODULE ProjectionsProofs -------------------------
(***************************************************************************)
(* Proofs about Projections, for any set of events and any order of          *)
(* arrival, application, expiry and rebuild.  The tables are the result of   *)
(* folds, so the proofs rest on an induction over the natural numbers,        *)
(* stated for sets (NatSetInduction).                                         *)
(***************************************************************************)
EXTENDS Projections, FiniteSetTheorems, WellFoundedInduction, TLAPS

(***************************************************************************)
(* Induction                                                               *)
(***************************************************************************)

\* Every non-empty set of natural numbers has a smallest element.
LEMMA NatHasMinimum ==
    ASSUME NEW T \in SUBSET Nat, T # {}
    PROVE  \E x \in T : \A y \in T : x <= y
<1> DEFINE R == OpToRel(<, Nat)
<1>1. \E x \in T : \A y \in T : ~ (<<y, x>> \in R)
  BY WFMin, NatLessThanWellFounded
<1>2. \A x, y \in Nat : <<x, y>> \in R <=> x < y
  BY DEF OpToRel
<1> HIDE DEF R
<1>3. PICK x \in T : \A y \in T : ~ (<<y, x>> \in R)
  BY <1>1
<1>4. ASSUME NEW y \in T PROVE x <= y
  <2>1. x \in Nat /\ y \in Nat
    OBVIOUS
  <2>2. ~ (y < x)
    BY <1>2, <1>3, <2>1
  <2> QED
    BY <2>1, <2>2
<1> QED
  BY <1>4

\* Induction over the natural numbers, for a set.
LEMMA NatSetInduction ==
    ASSUME NEW S, 0 \in S, \A n \in Nat : n \in S => n + 1 \in S
    PROVE  \A n \in Nat : n \in S
<1> DEFINE T == Nat \ S
<1> SUFFICES ASSUME T # {} PROVE FALSE
  OBVIOUS
<1>1. PICK x \in T : \A y \in T : x <= y
  BY NatHasMinimum
<1>2. x # 0 /\ x - 1 \in Nat /\ x - 1 \in S
  BY <1>1
<1> QED
  BY <1>1, <1>2

(***************************************************************************)
(* Folds                                                                   *)
(***************************************************************************)

\* The largest number of a set that reaches its upper bound is that bound.
LEMMA MaxIsBound ==
    ASSUME NEW n \in Nat, NEW s \in SUBSET (1..n), n \in s
    PROVE  Max(s) = n
<1>1. n \in s /\ \A y \in s : n >= y
  OBVIOUS
<1>2. \E x : x \in s /\ \A y \in s : x >= y
  BY <1>1
<1>3. Max(s) \in s /\ \A y \in s : Max(s) >= y
  BY <1>2, Zenon DEF Max
<1>4. Max(s) \in 1..n
  BY <1>3
<1>5. Max(s) >= n
  BY <1>1, <1>3
<1> QED
  BY <1>4, <1>5

\* The steps of the two folds: ResolvePending goes through references, Rebuilt through
\* events.
FoldStep(which, acc, x, events, e, now) ==
    IF which = "resolve" THEN ResolveOne(acc, events, e, now, x)
    ELSE QuarantineIf(Apply(acc, events, x, now[x.id]), x.id)

\* The recursion by which a fold over q is defined, on the subsets of 1..k.
FoldRecursion(g, k, which, d, q, events, e, now) ==
    g = [s \in SUBSET (1..k) |->
            IF s = {} THEN d
            ELSE FoldStep(which, g[s \ {Max(s)}], q[Max(s)], events, e, now)]

\* That recursion has a solution.
LEMMA FoldRecursionSolved ==
    ASSUME NEW which, NEW d, NEW q, NEW events, NEW e, NEW now, NEW n \in Nat
    PROVE  \E g : FoldRecursion(g, n, which, d, q, events, e, now)
<1> DEFINE S == {k \in Nat : \E g : FoldRecursion(g, k, which, d, q, events, e, now)}
<1>1. 0 \in S
  <2> DEFINE g == [s \in SUBSET (1..0) |-> d]
  <2>1. FoldRecursion(g, 0, which, d, q, events, e, now)
    BY DEF FoldRecursion
  <2> QED
    BY <2>1
<1>2. ASSUME NEW k \in Nat, k \in S PROVE k + 1 \in S
  <2>1. PICK g : FoldRecursion(g, k, which, d, q, events, e, now)
    BY <1>2
  <2> DEFINE h == [s \in SUBSET (1..(k + 1)) |->
                     IF k + 1 \in s THEN FoldStep(which, g[s \ {k + 1}], q[k + 1], events, e, now)
                     ELSE g[s]]
  <2>2. ASSUME NEW s \in SUBSET (1..(k + 1))
        PROVE  h[s] = IF s = {} THEN d
                      ELSE FoldStep(which, h[s \ {Max(s)}], q[Max(s)], events, e, now)
    <3>0. ASSUME NEW t \in SUBSET (1..(k + 1)), k + 1 \notin t PROVE h[t] = g[t]
      BY <3>0
    <3>a. k + 1 \in s => h[s] = FoldStep(which, g[s \ {k + 1}], q[k + 1], events, e, now)
      OBVIOUS
    <3> HIDE DEF h
    <3>1. CASE k + 1 \in s
      <4>1. Max(s) = k + 1
        BY <3>1, MaxIsBound
      <4>2. s \ {k + 1} \in SUBSET (1..(k + 1)) /\ k + 1 \notin s \ {k + 1}
        OBVIOUS
      <4>3. h[s \ {k + 1}] = g[s \ {k + 1}]
        BY <3>0, <4>2
      <4> QED
        BY <3>1, <3>a, <4>1, <4>3
    <3>2. CASE k + 1 \notin s
      <4>a. ASSUME NEW x \in s PROVE x \in 1..k
        <5>1. x \in 1..(k + 1) /\ x # k + 1
          BY <3>2
        <5> QED
          BY <5>1
      <4>1. s \in SUBSET (1..k) /\ s \ {Max(s)} \in SUBSET (1..k)
        BY <4>a
      <4>2. h[s] = g[s]
        BY <3>0, <3>2
      <4>3. h[s \ {Max(s)}] = g[s \ {Max(s)}]
        BY <3>0, <3>2, <4>1
      <4>4. g[s] = IF s = {} THEN d
                   ELSE FoldStep(which, g[s \ {Max(s)}], q[Max(s)], events, e, now)
        BY <2>1, <4>1 DEF FoldRecursion
      <4> QED
        BY <4>2, <4>3, <4>4
    <3> QED
      BY <3>1, <3>2
  <2>3. h = [s \in SUBSET (1..(k + 1)) |-> h[s]]
    OBVIOUS
  <2> HIDE DEF h
  <2>4. FoldRecursion(h, k + 1, which, d, q, events, e, now)
    BY <2>2, <2>3 DEF FoldRecursion
  <2> QED
    BY <2>4
<1> HIDE DEF S
<1>3. n \in S
  BY <1>1, <1>2, NatSetInduction
<1> QED
  BY <1>3 DEF S

\* A fold read along 1..n.
FoldAlong(g, n, which, d, q, events, e, now) ==
    /\ g[{}] = d
    /\ \A i \in 1..n : g[1..i] = FoldStep(which, g[1..(i - 1)], q[i], events, e, now)

\* A solution, read along 1..n: every step of the fold takes one more element.
LEMMA FoldRecursionSteps ==
    ASSUME NEW which, NEW d, NEW q, NEW events, NEW e, NEW now, NEW n \in Nat,
           NEW g, FoldRecursion(g, n, which, d, q, events, e, now)
    PROVE  FoldAlong(g, n, which, d, q, events, e, now)
<1>1. \A s \in SUBSET (1..n) :
         g[s] = IF s = {} THEN d
                ELSE FoldStep(which, g[s \ {Max(s)}], q[Max(s)], events, e, now)
  BY DEF FoldRecursion
<1>2. g[{}] = d
  BY <1>1
<1>3. ASSUME NEW i \in 1..n
      PROVE  g[1..i] = FoldStep(which, g[1..(i - 1)], q[i], events, e, now)
  <2>1. i \in Nat /\ i \in 1..i /\ 1..i \in SUBSET (1..n)
    OBVIOUS
  <2>2. Max(1..i) = i
    BY <2>1, MaxIsBound
  <2>3. (1..i) \ {i} = 1..(i - 1)
    BY <2>1
  <2> QED
    BY <1>1, <2>1, <2>2, <2>3
<1> QED
  BY <1>2, <1>3 DEF FoldAlong

\* f holds the tables after each reference of _resolve_pending.
ResolvedAlong(f, n, d, events, e, now) ==
    /\ f[0] = d
    /\ \A i \in 1..n : f[i] = ResolveOne(f[i - 1], events, e, now, i)
    /\ ResolvePending(d, events, e, now) = f[n]

\* _resolve_pending takes the references one after the other.
LEMMA ResolvePendingSteps ==
    ASSUME NEW d, NEW events, NEW e, NEW now, NEW n \in Nat, DOMAIN d.pending = 1..n
    PROVE  \E f : ResolvedAlong(f, n, d, events, e, now)
<1> DEFINE q == [i \in 1..n |-> i]
           Iter(g) == g = [s \in SUBSET (1..n) |->
                             IF s = {} THEN d
                             ELSE ResolveOne(g[s \ {Max(s)}], events, e, now, q[Max(s)])]
           it == CHOOSE g : Iter(g)
<1>1. \E g : FoldRecursion(g, n, "resolve", d, q, events, e, now)
  BY FoldRecursionSolved
<1>2. \A g : FoldRecursion(g, n, "resolve", d, q, events, e, now) <=> Iter(g)
  BY DEF FoldRecursion, FoldStep
<1>3. FoldRecursion(it, n, "resolve", d, q, events, e, now)
  <2> HIDE DEF Iter
  <2> QED
    BY <1>1, <1>2
<1>4. ResolvePending(d, events, e, now) = it[1..n]
  BY DEF ResolvePending, FoldLeft, MapThenFoldSet
<1> HIDE DEF it
<1> DEFINE f == [i \in 0..n |-> it[1..i]]
<1>a. FoldAlong(it, n, "resolve", d, q, events, e, now)
  BY <1>3, FoldRecursionSteps
<1>5. f[0] = d
  BY <1>a DEF FoldAlong
<1>6. ASSUME NEW i \in 1..n PROVE f[i] = ResolveOne(f[i - 1], events, e, now, i)
  <2>1. it[1..i] = FoldStep("resolve", it[1..(i - 1)], q[i], events, e, now)
    BY <1>a DEF FoldAlong
  <2>2. f[i] = it[1..i] /\ f[i - 1] = it[1..(i - 1)] /\ q[i] = i
    OBVIOUS
  <2> QED
    BY <2>1, <2>2 DEF FoldStep
<1>7. f[n] = it[1..n]
  OBVIOUS
<1> HIDE DEF f
<1> QED
  BY <1>4, <1>5, <1>6, <1>7 DEF ResolvedAlong

\* A rebuild of the tables from base.
ApplyAll(base, q, events, times) ==
    FoldLeft(LAMBDA acc, e : QuarantineIf(Apply(acc, events, e, times[e.id]), e.id), base, q)

\* f holds the tables after each event of a rebuild.
RebuiltAlong(f, n, base, q, events, times) ==
    /\ f[0] = base
    /\ \A i \in 1..n :
          f[i] = QuarantineIf(Apply(f[i - 1], events, q[i], times[q[i].id]), q[i].id)
    /\ ApplyAll(base, q, events, times) = f[n]

\* A fold that applies the events of a sequence applies one after the other.
LEMMA ApplyAllSteps ==
    ASSUME NEW base, NEW q, NEW events, NEW times, NEW n \in Nat, DOMAIN q = 1..n
    PROVE  \E f : RebuiltAlong(f, n, base, q, events, times)
<1> DEFINE Iter(g) == g = [s \in SUBSET (1..n) |->
                             IF s = {} THEN base
                             ELSE QuarantineIf(Apply(g[s \ {Max(s)}], events, q[Max(s)],
                                                     times[q[Max(s)].id]), q[Max(s)].id)]
           it == CHOOSE g : Iter(g)
<1>1. \E g : FoldRecursion(g, n, "rebuild", base, q, events, events, times)
  BY FoldRecursionSolved
<1>a. \A acc, x : FoldStep("rebuild", acc, x, events, events, times)
                     = QuarantineIf(Apply(acc, events, x, times[x.id]), x.id)
  BY DEF FoldStep
<1>2. ASSUME NEW g
      PROVE  FoldRecursion(g, n, "rebuild", base, q, events, events, times) <=> Iter(g)
  <2>1. \A s : FoldStep("rebuild", g[s \ {Max(s)}], q[Max(s)], events, events, times)
                 = QuarantineIf(Apply(g[s \ {Max(s)}], events, q[Max(s)],
                                      times[q[Max(s)].id]), q[Max(s)].id)
    BY <1>a
  <2>2. [s \in SUBSET (1..n) |->
            IF s = {} THEN base
            ELSE FoldStep("rebuild", g[s \ {Max(s)}], q[Max(s)], events, events, times)]
        = [s \in SUBSET (1..n) |->
            IF s = {} THEN base
            ELSE QuarantineIf(Apply(g[s \ {Max(s)}], events, q[Max(s)],
                                    times[q[Max(s)].id]), q[Max(s)].id)]
    BY <2>1
  <2> QED
    BY <2>2, Zenon DEF FoldRecursion
<1>3. FoldRecursion(it, n, "rebuild", base, q, events, events, times)
  <2> HIDE DEF Iter
  <2> QED
    BY <1>1, <1>2
<1>4. ApplyAll(base, q, events, times) = it[1..n]
  BY DEF ApplyAll, FoldLeft, MapThenFoldSet
<1>5. PICK r : r = it
  BY Zenon
<1> HIDE DEF it
<1>6. FoldRecursion(r, n, "rebuild", base, q, events, events, times)
  BY <1>3, <1>5
<1>7. FoldAlong(r, n, "rebuild", base, q, events, events, times)
  BY <1>6, FoldRecursionSteps
<1> DEFINE f == [i \in 0..n |-> r[1..i]]
<1>8. f[0] = base
  BY <1>7 DEF FoldAlong
<1>9. ASSUME NEW i \in 1..n
      PROVE  f[i] = QuarantineIf(Apply(f[i - 1], events, q[i], times[q[i].id]), q[i].id)
  <2>1. f[i] = r[1..i] /\ f[i - 1] = r[1..(i - 1)]
    OBVIOUS
  <2> QED
    BY <1>7, <2>1 DEF FoldStep, FoldAlong
<1>10. f[n] = r[1..n]
  OBVIOUS
<1> HIDE DEF f
<1> QED
  BY <1>4, <1>5, <1>8, <1>9, <1>10 DEF RebuiltAlong

\* rebuild_projections applies the events of the log one after the other.
LEMMA RebuiltSteps ==
    ASSUME NEW events, NEW times, Cardinality(events) \in Nat
    PROVE  /\ \E f : RebuiltAlong(f, Cardinality(events), Empty, InOrder(events), events, times)
           /\ Rebuilt(events, times) = ApplyAll(Empty, InOrder(events), events, times)
<1> DEFINE n == Cardinality(events)
           q == InOrder(events)
<1>1. DOMAIN q = 1..n
  BY DEF InOrder
<1>2. n \in Nat
  OBVIOUS
<1> HIDE DEF n, q
<1>3. \E f : RebuiltAlong(f, n, Empty, q, events, times)
  BY <1>1, <1>2, ApplyAllSteps
<1>4. Rebuilt(events, times) = ApplyAll(Empty, q, events, times)
  BY DEF Rebuilt, ApplyAll, q, FoldLeft, MapThenFoldSet
<1> QED
  BY <1>3, <1>4 DEF n, q

(***************************************************************************)
(* The order of a rebuild                                                  *)
(***************************************************************************)

\* The events of a log, as the keys of the table events make them.
Events(events) == \E s \in Scripts : events \in SUBSET s

\* What the keys of the table give.
LEMMA EventsFacts ==
    ASSUME NEW events, Events(events)
    PROVE  /\ IsFiniteSet(events) /\ Cardinality(events) \in Nat
           /\ \A e \in events : /\ e.id # 0 /\ e.at \in Int /\ e.sender \in {1, 2}
                                /\ e.seq \in Nat \ {0}
           /\ \A e, f \in events : e.id = f.id => e = f
           /\ \A e, f \in events : e.sender = f.sender /\ e.seq = f.seq => e = f
<1>1. PICK s \in Scripts : events \in SUBSET s
  BY DEF Events
<1>2. IsFiniteSet(s)
  BY ScriptsAssumption
<1>3. IsFiniteSet(events)
  BY <1>1, <1>2, FS_Subset
<1>4. Cardinality(events) \in Nat
  BY <1>3, FS_CardinalityType
<1>5. \A e \in s : e.id # 0 /\ e.at \in Int /\ e.sender \in {1, 2} /\ e.seq \in Nat \ {0}
  BY ScriptsAssumption
<1>6. \A e, f \in s : e.id = f.id \/ (e.sender = f.sender /\ e.seq = f.seq) => e = f
  BY ScriptsAssumption
<1> QED
  BY <1>1, <1>3, <1>4, <1>5, <1>6

\* The order is total on the events of a log.
LEMMA BeforeIsTotal ==
    ASSUME NEW events, Events(events)
    PROVE  /\ \A e \in events : ~Before(e, e)
           /\ \A e, f, g \in events : Before(e, f) /\ Before(f, g) => Before(e, g)
           /\ \A e, f \in events : e # f => Before(e, f) \/ Before(f, e)
<1>1. /\ \A e \in events : e.at \in Int /\ e.sender \in Int /\ e.seq \in Int
      /\ \A e, f \in events : e.sender = f.sender /\ e.seq = f.seq => e = f
  BY EventsFacts
<1>2. ASSUME NEW e \in events PROVE ~Before(e, e)
  BY <1>1 DEF Before
<1>3. ASSUME NEW e \in events, NEW f \in events, NEW g \in events, Before(e, f), Before(f, g)
      PROVE  Before(e, g)
  <2>1. /\ e.at \in Int /\ e.sender \in Int /\ e.seq \in Int
        /\ f.at \in Int /\ f.sender \in Int /\ f.seq \in Int
        /\ g.at \in Int /\ g.sender \in Int /\ g.seq \in Int
    BY <1>1
  <2> QED
    BY <1>3, <2>1 DEF Before
<1>4. ASSUME NEW e \in events, NEW f \in events, e # f PROVE Before(e, f) \/ Before(f, e)
  <2>1. /\ e.at \in Int /\ e.sender \in Int /\ e.seq \in Int
        /\ f.at \in Int /\ f.sender \in Int /\ f.seq \in Int
    BY <1>1
  <2>2. e.sender # f.sender \/ e.seq # f.seq
    BY <1>1, <1>4
  <2> QED
    BY <2>1, <2>2 DEF Before
<1> QED
  BY <1>2, <1>3, <1>4

\* The sequence of a rebuild holds the events of the log, each of them.
LEMMA InOrderRange ==
    ASSUME NEW events, Events(events)
    PROVE  /\ \A i \in 1..Cardinality(events) : InOrder(events)[i] \in events
           /\ \A e \in events : \E i \in 1..Cardinality(events) : InOrder(events)[i] = e
<1> DEFINE n == Cardinality(events)
           Preds(e) == {x \in events : Before(x, e)}
           rank(e) == Cardinality(Preds(e))
<1>1. IsFiniteSet(events) /\ n \in Nat
  BY EventsFacts
<1>2. ASSUME NEW e \in events PROVE IsFiniteSet(Preds(e)) /\ rank(e) \in Nat /\ rank(e) < n
  <2>1. Preds(e) \in SUBSET events /\ e \notin Preds(e)
    BY BeforeIsTotal
  <2> HIDE DEF Preds
  <2>2. /\ IsFiniteSet(Preds(e)) /\ Cardinality(Preds(e)) <= n
        /\ (n = Cardinality(Preds(e)) => events = Preds(e))
    BY <1>1, <2>1, FS_Subset
  <2>3. Cardinality(Preds(e)) \in Nat
    BY <2>2, FS_CardinalityType
  <2> QED
    BY <1>1, <2>1, <2>2, <2>3
<1>3. ASSUME NEW e \in events, NEW f \in events, Before(e, f) PROVE rank(e) # rank(f)
  <2>1. Preds(e) \in SUBSET Preds(f) /\ e \in Preds(f) /\ e \notin Preds(e)
    BY <1>3, BeforeIsTotal
  <2> HIDE DEF Preds
  <2>2. Cardinality(Preds(f)) = Cardinality(Preds(e)) => Preds(f) = Preds(e)
    BY <1>2, <2>1, FS_Subset
  <2> QED
    BY <2>1, <2>2
<1> HIDE DEF n, rank, Preds
<1>a. n \in Nat /\ \A e \in events : rank(e) \in Nat /\ rank(e) < n
  BY <1>1, <1>2
<1>4. \A e, f \in events : rank(e) = rank(f) => e = f
  BY <1>3, BeforeIsTotal
<1> DEFINE r == [e \in events |-> rank(e) + 1]
<1>5. r \in [events -> 1..n]
  <2>1. \A e \in events : rank(e) + 1 \in 1..n
    BY <1>a
  <2> QED
    BY <2>1
<1>6. \A e, f \in events : r[e] = r[f] => e = f
  BY <1>a, <1>4
<1>7. r \in Injection(events, 1..n)
  <2> HIDE DEF r
  <2> QED
    BY <1>5, <1>6 DEF Injection, IsInjective
<1>8. IsFiniteSet(1..n) /\ Cardinality(1..n) = n
  BY <1>1, FS_Interval
<1>9. r \in Surjection(events, 1..n)
  <2> HIDE DEF r
  <2>1. Cardinality(events) = Cardinality(1..n)
    BY <1>8 DEF n
  <2> QED
    BY <1>7, <1>8, <2>1, FS_Injection
<1>10. \A i \in 1..n : \E e \in events : r[e] = i
  <2> HIDE DEF r
  <2> QED
    BY <1>9 DEF Surjection
<1>11. ASSUME NEW i \in 1..n PROVE \E e \in events : rank(e) = i - 1
  <2>1. PICK e \in events : r[e] = i
    BY <1>10
  <2>2. rank(e) + 1 = i
    BY <2>1
  <2>3. rank(e) = i - 1
    BY <1>a, <2>2
  <2> QED
    BY <2>3
<1>12. \A i \in 1..n : InOrder(events)[i] = CHOOSE e \in events : rank(e) = i - 1
  BY DEF InOrder, n, rank, Preds
<1>13. ASSUME NEW i \in 1..n
       PROVE  InOrder(events)[i] \in events /\ rank(InOrder(events)[i]) = i - 1
  <2>1. \E e : e \in events /\ rank(e) = i - 1
    BY <1>11
  <2>2. InOrder(events)[i] = CHOOSE e : e \in events /\ rank(e) = i - 1
    BY <1>12
  <2> QED
    BY <2>1, <2>2, Zenon
<1>14. ASSUME NEW e \in events PROVE \E i \in 1..n : InOrder(events)[i] = e
  <2>1. rank(e) + 1 \in 1..n /\ (rank(e) + 1) - 1 = rank(e)
    BY <1>a
  <2>2. /\ InOrder(events)[rank(e) + 1] \in events
        /\ rank(InOrder(events)[rank(e) + 1]) = rank(e)
    BY <1>13, <2>1
  <2> QED
    BY <1>4, <2>1, <2>2
<1> QED
  BY <1>13, <1>14 DEF n

(***************************************************************************)
(* The tables                                                              *)
(***************************************************************************)

\* The kind of row an event of a type creates.
Kind(type) ==
    CASE type = "message.created"    -> "message"
      [] type = "poll.created"       -> "poll"
      [] type = "task.created"       -> "task"
      [] type = "human.requested"    -> "request"
      [] type = "delivery.scheduled" -> "delivery"
      [] OTHER                       -> "none"

Subjects == {"message", "poll", "task", "request", "delivery"}

Refs(events) ==
    {p \in [ref : {x.id : x \in events}, target : {x.target : x \in events},
            at : {x.at : x \in events}, state : {"pending", "resolved", "expired"}] :
        \E x \in events : p.ref = x.id /\ p.target = x.target}

IsRecord(d) ==
    d = [rows |-> d.rows, pending |-> d.pending, quarantine |-> d.quarantine,
         cursor |-> d.cursor, gaps |-> d.gaps]

IsMessageRow(m) ==
    m = [sender |-> m.sender, edits |-> m.edits, retracted |-> m.retracted, reply |-> m.reply]

\* A retraction of a message by its sender.
Retracts(r, id, sender) == r.type = "message.retracted" /\ r.target = id /\ r.sender = sender

\* Every reference belongs to a logged event, which has one, and a waiting reply has its
\* row; no other event that creates a subject waits.
PendingHeld(d, events) ==
    /\ d.pending \in Seq(Refs(events))
    /\ \A i, j \in DOMAIN d.pending : d.pending[i].ref = d.pending[j].ref => i = j
    /\ \A i \in DOMAIN d.pending : \A x \in events :
          x.id = d.pending[i].ref =>
              /\ x.type = "message.created" => <<"message", x.id>> \in DOMAIN d.rows
              /\ Kind(x.type) \in {"none", "message"}

\* Every subject row comes from its event, and a message is hidden only by its sender.
RowsHeld(d, events) ==
    \A k \in DOMAIN d.rows :
        /\ IsSubject(k) => /\ k = <<k[1], k[2]>>
                           /\ \E y \in events : y.id = k[2] /\ Kind(y.type) = k[1]
        /\ k[1] = "message" =>
              /\ IsMessageRow(d.rows[k])
              /\ \E y \in events : y.id = k[2] /\ y.sender = d.rows[k].sender
              /\ d.rows[k].retracted # 0 =>
                    \E r \in events : Retracts(r, k[2], d.rows[k].sender)

Tables(d, events) ==
    /\ IsRecord(d)
    /\ PendingHeld(d, events)
    /\ RowsHeld(d, events)
    /\ d.cursor \in [{1, 2} -> Nat]

\* What a handler may do to the tables.
KeepsRows(d, r, e) ==
    /\ DOMAIN d.rows \subseteq DOMAIN r.db.rows
    /\ \A k \in DOMAIN r.db.rows \ DOMAIN d.rows : IsSubject(k) => k = <<Kind(e.type), e.id>>
    /\ r.ok /\ Kind(e.type) \in Subjects \ {"delivery"} =>
          <<Kind(e.type), e.id>> \in DOMAIN r.db.rows

KeepsMessages(d, r, e) ==
    \A k \in DOMAIN r.db.rows :
        k[1] = "message" =>
            /\ IsMessageRow(r.db.rows[k])
            /\ k \notin DOMAIN d.rows => /\ r.db.rows[k].sender = e.sender
                                         /\ r.db.rows[k].retracted = 0
            /\ k \in DOMAIN d.rows =>
                  /\ r.db.rows[k].sender = d.rows[k].sender
                  /\ \/ r.db.rows[k].retracted = d.rows[k].retracted
                     \/ Retracts(e, k[2], d.rows[k].sender) /\ d.rows[k].retracted = 0

NewRef(e) == [ref |-> e.id, target |-> e.target, at |-> e.at, state |-> "pending"]

\* A reference is added only for an event whose target has no row and may still get one.
Waits(d, r, events, e) ==
    \/ r.db.pending = d.pending
    \/ /\ r.ok /\ r.db.pending = Append(d.pending, NewRef(e))
       /\ Kind(e.type) \in {"none", "message"}
       /\ \A i \in DOMAIN d.pending : d.pending[i].ref # e.id
       /\ \A k \in DOMAIN r.db.rows : IsSubject(k) => k[2] # e.target
       /\ \A y \in events : y.id = e.target =>
             Kind(y.type) \in Subjects /\ <<Kind(y.type), y.id>> \notin DOMAIN r.db.rows

\* A retraction hides its message, waits for it, or is refused.
Hides(d, r, events, e) ==
    LET key == <<"message", e.target>>
    IN  e.type = "message.retracted" =>
            /\ key \in DOMAIN d.rows /\ d.rows[key].sender = e.sender =>
                  key \in DOMAIN r.db.rows /\ r.db.rows[key].retracted # 0
            /\ key \notin DOMAIN d.rows =>
                  \/ r.ok /\ \E i \in DOMAIN r.db.pending : r.db.pending[i].ref = e.id
                  \/ \E y \in events : y.id = e.target /\ y.type # "message.created"

Effect(d, r, events, e) ==
    /\ IsRecord(r.db)
    /\ r.db.quarantine = d.quarantine /\ r.db.cursor = d.cursor /\ r.db.gaps = d.gaps
    /\ ~r.ok => r.db = d
    /\ KeepsRows(d, r, e)
    /\ KeepsMessages(d, r, e)
    /\ Waits(d, r, events, e)
    /\ Hides(d, r, events, e)

(***************************************************************************)
(* Handlers                                                                *)
(***************************************************************************)

\* Refusing, or finding nothing to do, changes nothing; what a retraction must have done
\* is shown where it is used.
LEMMA NothingDone ==
    ASSUME NEW d, NEW events, NEW e, NEW r, Tables(d, events), r.db = d,
           r.ok /\ Kind(e.type) \in Subjects \ {"delivery"} =>
               <<Kind(e.type), e.id>> \in DOMAIN d.rows,
           Hides(d, r, events, e)
    PROVE  Effect(d, r, events, e)
<1>1. IsRecord(d) /\ RowsHeld(d, events)
  BY DEF Tables
<1>2. KeepsRows(d, r, e)
  BY DEF KeepsRows
<1>3. KeepsMessages(d, r, e)
  BY <1>1 DEF KeepsMessages, RowsHeld
<1>4. Waits(d, r, events, e)
  BY DEF Waits
<1> QED
  BY <1>1, <1>2, <1>3, <1>4 DEF Effect

\* Writing a row other than a message.
LEMMA RowWritten ==
    ASSUME NEW d, NEW events, NEW e, NEW r, NEW key, NEW row, Tables(d, events),
           r = Done(Put(d, key, row)), key[1] # "message", e.type # "message.retracted",
           IsSubject(key) => key \in DOMAIN d.rows \/ key = <<Kind(e.type), e.id>>,
           Kind(e.type) \in Subjects \ {"delivery"} => key = <<Kind(e.type), e.id>>
    PROVE  Effect(d, r, events, e)
<1>1. IsRecord(d) /\ RowsHeld(d, events)
  BY DEF Tables
<1> DEFINE rows == [k \in DOMAIN d.rows \cup {key} |-> IF k = key THEN row ELSE d.rows[k]]
<1>2. r.ok /\ r.db = [rows |-> rows, pending |-> d.pending, quarantine |-> d.quarantine,
                      cursor |-> d.cursor, gaps |-> d.gaps]
  BY <1>1 DEF Done, Put, IsRecord
<1>3. /\ DOMAIN rows = DOMAIN d.rows \cup {key}
      /\ \A k \in DOMAIN d.rows : k # key => rows[k] = d.rows[k]
  OBVIOUS
<1> HIDE DEF rows
<1>4. KeepsRows(d, r, e)
  BY <1>2, <1>3 DEF KeepsRows
<1>5. KeepsMessages(d, r, e)
  BY <1>1, <1>2, <1>3 DEF KeepsMessages, RowsHeld
<1>6. Waits(d, r, events, e)
  BY <1>2 DEF Waits
<1>7. Hides(d, r, events, e)
  BY DEF Hides
<1>8. IsRecord(r.db)
  BY <1>2 DEF IsRecord
<1> QED
  BY <1>2, <1>4, <1>5, <1>6, <1>7, <1>8 DEF Effect

\* The references of the tables, by index.
LEMMA RefIdsFacts ==
    ASSUME NEW d, NEW events, PendingHeld(d, events), NEW id
    PROVE  /\ id \in RefIds(d, {"pending", "resolved", "expired"}) <=>
                  \E i \in DOMAIN d.pending : d.pending[i].ref = id
           /\ id \in RefIds(d, {"expired"}) <=>
                  \E i \in DOMAIN d.pending : d.pending[i].ref = id
                                              /\ d.pending[i].state = "expired"
           /\ id \in RefIds(d, {"pending"}) <=>
                  \E i \in DOMAIN d.pending : d.pending[i].ref = id
                                              /\ d.pending[i].state = "pending"
<1>1. \A i \in DOMAIN d.pending : d.pending[i].state \in {"pending", "resolved", "expired"}
  BY DEF PendingHeld, Refs
<1> QED
  BY <1>1 DEF RefIds

\* _add_pending leaves one reference of the event.
LEMMA AddPendingFacts ==
    ASSUME NEW d, NEW events, NEW e, Tables(d, events)
    PROVE  LET a == AddPending(d, e)
           IN  /\ IsRecord(a) /\ a.rows = d.rows /\ a.quarantine = d.quarantine
               /\ a.cursor = d.cursor /\ a.gaps = d.gaps
               /\ \/ a.pending = d.pending
                  \/ /\ a.pending = Append(d.pending, NewRef(e))
                     /\ \A i \in DOMAIN d.pending : d.pending[i].ref # e.id
               /\ \E i \in DOMAIN a.pending : a.pending[i].ref = e.id
<1>1. IsRecord(d) /\ PendingHeld(d, events)
  BY DEF Tables
<1>2. d.pending \in Seq(Refs(events))
  BY <1>1 DEF PendingHeld
<1> DEFINE a == AddPending(d, e)
<1>3. CASE e.id \in RefIds(d, {"pending", "resolved", "expired"})
  <2>1. a = d
    BY <1>3 DEF AddPending
  <2> QED
    BY <1>1, <1>3, <2>1, RefIdsFacts
<1>4. CASE e.id \notin RefIds(d, {"pending", "resolved", "expired"})
  <2>1. \A i \in DOMAIN d.pending : d.pending[i].ref # e.id
    BY <1>1, <1>4, RefIdsFacts
  <2>2. a = [rows |-> d.rows, pending |-> Append(d.pending, NewRef(e)),
             quarantine |-> d.quarantine, cursor |-> d.cursor, gaps |-> d.gaps]
    BY <1>1, <1>4 DEF AddPending, IsRecord, NewRef
  <2>3. LET q == Append(d.pending, NewRef(e)) IN Len(q) \in DOMAIN q /\ q[Len(q)].ref = e.id
    BY <1>2 DEF NewRef
  <2>4. \E i \in DOMAIN a.pending : a.pending[i].ref = e.id
    BY <2>2, <2>3
  <2>5. IsRecord(a)
    BY <2>2 DEF IsRecord
  <2> HIDE DEF a
  <2> QED
    BY <2>1, <2>2, <2>4, <2>5 DEF a
<1> QED
  BY <1>3, <1>4

\* Waiting for a target of one type that has no row.
LEMMA Waited ==
    ASSUME NEW d, NEW events, NEW e, NEW r, NEW type, Tables(d, events),
           r = WaitFor(d, events, e, type), Kind(type) \in Subjects, Kind(e.type) = "none",
           <<Kind(type), e.target>> \notin DOMAIN d.rows,
           e.type = "message.retracted" => type = "message.created"
    PROVE  Effect(d, r, events, e)
<1>1. CASE \E x \in Find(events, e.target) : x.type # type
  <2>1. r.db = d /\ ~r.ok
    BY <1>1 DEF WaitFor, Refuse
  <2>2. Hides(d, r, events, e)
    BY <1>1 DEF Hides, Find, Kind
  <2> QED
    BY <2>1, <2>2, NothingDone
<1>2. CASE ~ \E x \in Find(events, e.target) : x.type # type
  <2>1. \A y \in events : y.id = e.target => y.type = type
    BY <1>2 DEF Find
  <2>2. r.ok /\ r.db = AddPending(d, e)
    BY <1>2 DEF WaitFor, Done
  <2>3. /\ IsRecord(r.db) /\ r.db.rows = d.rows /\ r.db.quarantine = d.quarantine
        /\ r.db.cursor = d.cursor /\ r.db.gaps = d.gaps
        /\ \/ r.db.pending = d.pending
           \/ /\ r.db.pending = Append(d.pending, NewRef(e))
              /\ \A i \in DOMAIN d.pending : d.pending[i].ref # e.id
        /\ \E i \in DOMAIN r.db.pending : r.db.pending[i].ref = e.id
    BY <2>2, AddPendingFacts
  <2>4. RowsHeld(d, events)
    BY DEF Tables
  <2>5. ASSUME NEW k \in DOMAIN d.rows, IsSubject(k) PROVE k[2] # e.target
    <3>1. /\ k = <<k[1], k[2]>>
          /\ \E y \in events : y.id = k[2] /\ Kind(y.type) = k[1]
      BY <2>4, <2>5 DEF RowsHeld
    <3>2. k[2] = e.target => k[1] = Kind(type)
      BY <2>1, <3>1
    <3> QED
      BY <3>1, <3>2
  <2>6. Waits(d, r, events, e)
    BY <2>1, <2>2, <2>3, <2>5 DEF Waits
  <2>7. KeepsRows(d, r, e)
    BY <2>3 DEF KeepsRows, Subjects
  <2>8. KeepsMessages(d, r, e)
    BY <2>3, <2>4 DEF KeepsMessages, RowsHeld
  <2>9. Hides(d, r, events, e)
    BY <2>2, <2>3 DEF Hides, Kind
  <2> QED
    BY <2>2, <2>3, <2>6, <2>7, <2>8, <2>9 DEF Effect
<1> QED
  BY <1>1, <1>2

\* An event that is not in the log has no row.
LEMMA UnloggedHasNoRow ==
    ASSUME NEW d, NEW events, Tables(d, events), NEW id, Find(events, id) = {}
    PROVE  \A k \in DOMAIN d.rows : IsSubject(k) => k[2] # id
<1>1. RowsHeld(d, events)
  BY DEF Tables
<1> QED
  BY <1>1 DEF RowsHeld, Find

\* Waiting for a target of any type.
LEMMA WaitedAny ==
    ASSUME NEW d, NEW events, NEW e, NEW r, Tables(d, events), r = Done(AddPending(d, e)),
           Find(events, e.target) = {}, Kind(e.type) = "none", e.type # "message.retracted"
    PROVE  Effect(d, r, events, e)
<1>1. r.ok /\ r.db = AddPending(d, e)
  BY DEF Done
<1>2. /\ IsRecord(r.db) /\ r.db.rows = d.rows /\ r.db.quarantine = d.quarantine
      /\ r.db.cursor = d.cursor /\ r.db.gaps = d.gaps
      /\ \/ r.db.pending = d.pending
         \/ /\ r.db.pending = Append(d.pending, NewRef(e))
            /\ \A i \in DOMAIN d.pending : d.pending[i].ref # e.id
  BY <1>1, AddPendingFacts
<1>3. RowsHeld(d, events)
  BY DEF Tables
<1>4. \A k \in DOMAIN d.rows : IsSubject(k) => k[2] # e.target
  BY UnloggedHasNoRow
<1>5. Waits(d, r, events, e)
  BY <1>1, <1>2, <1>4 DEF Waits, Find
<1>6. KeepsRows(d, r, e)
  BY <1>2 DEF KeepsRows, Subjects
<1>7. KeepsMessages(d, r, e)
  BY <1>2, <1>3 DEF KeepsMessages, RowsHeld
<1>8. Hides(d, r, events, e)
  BY DEF Hides
<1> QED
  BY <1>1, <1>2, <1>5, <1>6, <1>7, <1>8 DEF Effect

\* Creating a row other than a message, unless it is there.
LEMMA RowCreated ==
    ASSUME NEW d, NEW events, NEW e, NEW r, NEW key, NEW row, Tables(d, events),
           r = Create(d, key, row), key[1] # "message", e.type # "message.retracted",
           IsSubject(key) => key = <<Kind(e.type), e.id>>,
           Kind(e.type) \in Subjects \ {"delivery"} => key = <<Kind(e.type), e.id>>
    PROVE  Effect(d, r, events, e)
<1>1. CASE Has(d, key)
  <2>1. r.db = d /\ r.ok /\ key \in DOMAIN d.rows
    BY <1>1 DEF Create, Done, Has
  <2>2. Hides(d, r, events, e)
    BY DEF Hides
  <2> QED
    BY <2>1, <2>2, NothingDone
<1>2. CASE ~Has(d, key)
  <2>1. r = Done(Put(d, key, row))
    BY <1>2 DEF Create
  <2> QED
    BY <2>1, RowWritten
<1> QED
  BY <1>1, <1>2

\* Writing a message row that keeps its sender.
LEMMA MessageWritten ==
    ASSUME NEW d, NEW events, NEW e, NEW r, NEW id, NEW row, Tables(d, events),
           Kind(e.type) = "none", <<"message", id>> \in DOMAIN d.rows,
           r = Done(Put(d, <<"message", id>>, row)), IsMessageRow(row),
           row.sender = d.rows[<<"message", id>>].sender,
           \/ /\ row.retracted = d.rows[<<"message", id>>].retracted
              /\ e.type # "message.retracted"
           \/ /\ Retracts(e, id, row.sender)
              /\ d.rows[<<"message", id>>].retracted = 0 /\ row.retracted # 0
    PROVE  Effect(d, r, events, e)
<1> DEFINE key == <<"message", id>>
<1>1. IsRecord(d) /\ RowsHeld(d, events)
  BY DEF Tables
<1> DEFINE rows == [k \in DOMAIN d.rows \cup {key} |-> IF k = key THEN row ELSE d.rows[k]]
<1>2. r.ok /\ r.db = [rows |-> rows, pending |-> d.pending, quarantine |-> d.quarantine,
                      cursor |-> d.cursor, gaps |-> d.gaps]
  BY <1>1 DEF Done, Put, IsRecord
<1>3. /\ DOMAIN rows = DOMAIN d.rows
      /\ \A k \in DOMAIN d.rows : k # key => rows[k] = d.rows[k]
      /\ rows[key] = row /\ key \in DOMAIN d.rows
  OBVIOUS
<1> HIDE DEF rows
<1>4. KeepsRows(d, r, e)
  BY <1>2, <1>3 DEF KeepsRows, Subjects
<1>5. KeepsMessages(d, r, e)
  <2> SUFFICES ASSUME NEW k \in DOMAIN d.rows, k[1] = "message"
               PROVE  /\ IsMessageRow(rows[k])
                      /\ rows[k].sender = d.rows[k].sender
                      /\ \/ rows[k].retracted = d.rows[k].retracted
                         \/ Retracts(e, k[2], d.rows[k].sender) /\ d.rows[k].retracted = 0
    BY <1>2, <1>3 DEF KeepsMessages
  <2>1. CASE k = key
    BY <1>3, <2>1
  <2>2. CASE k # key
    BY <1>1, <1>3, <2>2 DEF RowsHeld
  <2> QED
    BY <2>1, <2>2
<1>6. Waits(d, r, events, e)
  BY <1>2 DEF Waits
<1>7. Hides(d, r, events, e)
  BY <1>2, <1>3 DEF Hides, Retracts
<1>8. IsRecord(r.db)
  BY <1>2 DEF IsRecord
<1> QED
  BY <1>2, <1>4, <1>5, <1>6, <1>7, <1>8 DEF Effect

\* _handle_message_created
LEMMA MessageCreatedEffect ==
    ASSUME NEW d, NEW events, NEW e \in events, NEW now, Tables(d, events),
           e.type = "message.created"
    PROVE  Effect(d, MessageCreated(d, events, e, now), events, e)
<1> DEFINE r == MessageCreated(d, events, e, now)
           key == <<"message", e.id>>
           fresh(s) == [sender |-> e.sender, edits |-> <<>>, retracted |-> 0, reply |-> s]
<1>1. IsRecord(d) /\ RowsHeld(d, events)
  BY DEF Tables
<1>2. Kind(e.type) = "message" /\ "message" \in Subjects
  BY DEF Kind, Subjects
<1>3. Hides(d, r, events, e)
  BY DEF Hides
<1>4. CASE Has(d, key)
  <2>1. r.db = d /\ r.ok
    BY <1>4 DEF MessageCreated, Create, Done
  <2>2. key \in DOMAIN d.rows
    BY <1>4 DEF Has
  <2> HIDE DEF r
  <2> QED
    BY <1>2, <1>3, <2>1, <2>2, NothingDone DEF r
<1>5. CASE ~Has(d, key) /\ e.target # 0 /\ \E x \in Find(events, e.target) : x.conv # e.conv
  <2>1. r.db = d /\ ~r.ok
    BY <1>5 DEF MessageCreated, Refuse
  <2> HIDE DEF r
  <2> QED
    BY <1>3, <2>1, NothingDone DEF r
<1>6. CASE /\ ~Has(d, key)
           /\ e.target = 0 \/ ~ \E x \in Find(events, e.target) : x.conv # e.conv
  <2>1. PICK base, s : /\ r.ok /\ r.db = Put(base, key, fresh(s))
                       /\ \/ base = d
                          \/ base = AddPending(d, e) /\ Find(events, e.target) = {}
    <3>1. CASE e.target = 0
      <4>1. r = Done(Put(d, key, fresh("ok")))
        BY <1>6, <3>1 DEF MessageCreated, Create
      <4>2. r.ok /\ r.db = Put(d, key, fresh("ok"))
        BY <4>1 DEF Done
      <4> HIDE DEF r, fresh, key
      <4> QED
        BY <4>2, Zenon
    <3>2. CASE e.target # 0 /\ Find(events, e.target) # {}
      <4>1. r = Done(Put(d, key, fresh("ok")))
        BY <1>6, <3>2 DEF MessageCreated, Create
      <4>2. r.ok /\ r.db = Put(d, key, fresh("ok"))
        BY <4>1 DEF Done
      <4> HIDE DEF r, fresh, key
      <4> QED
        BY <4>2, Zenon
    <3>3. CASE e.target # 0 /\ Find(events, e.target) = {}
      <4>1. AddPending(d, e).rows = d.rows
        BY AddPendingFacts
      <4>2. ~Has(AddPending(d, e), key)
        BY <1>6, <4>1 DEF Has
      <4>3. PICK s : r = Create(AddPending(d, e), key, fresh(s))
        BY <1>6, <3>3, Zenon DEF MessageCreated
      <4>4. r = Done(Put(AddPending(d, e), key, fresh(s)))
        BY <4>2, <4>3 DEF Create
      <4>5. r.ok /\ r.db = Put(AddPending(d, e), key, fresh(s))
        BY <4>4 DEF Done
      <4> HIDE DEF r, fresh, key
      <4> QED
        BY <3>3, <4>5, Zenon
    <3> QED
      BY <3>1, <3>2, <3>3
  <2>2. /\ IsRecord(base) /\ base.rows = d.rows /\ base.quarantine = d.quarantine
        /\ base.cursor = d.cursor /\ base.gaps = d.gaps
        /\ \/ base.pending = d.pending
           \/ /\ base.pending = Append(d.pending, NewRef(e))
              /\ \A i \in DOMAIN d.pending : d.pending[i].ref # e.id
              /\ Find(events, e.target) = {}
    <3>1. CASE base = d
      BY <1>1, <3>1
    <3>2. CASE base = AddPending(d, e) /\ Find(events, e.target) = {}
      BY <3>2, AddPendingFacts
    <3> QED
      BY <2>1, <3>1, <3>2
  <2> DEFINE rows == [k \in DOMAIN d.rows \cup {key} |-> IF k = key THEN fresh(s) ELSE d.rows[k]]
  <2>3. r.db = [rows |-> rows, pending |-> base.pending, quarantine |-> d.quarantine,
                cursor |-> d.cursor, gaps |-> d.gaps]
    BY <2>1, <2>2 DEF Put, IsRecord
  <2>4. /\ DOMAIN rows = DOMAIN d.rows \cup {key} /\ key \notin DOMAIN d.rows
        /\ \A k \in DOMAIN d.rows : rows[k] = d.rows[k]
        /\ rows[key] = fresh(s)
    BY <1>6 DEF Has
  <2>5. key[1] = "message" /\ key[2] = e.id
    OBVIOUS
  <2>6. IsMessageRow(fresh(s)) /\ fresh(s).sender = e.sender /\ fresh(s).retracted = 0
    BY DEF IsMessageRow
  <2> HIDE DEF rows, r, fresh
  <2>7. KeepsRows(d, r, e)
    BY <1>2, <2>3, <2>4 DEF KeepsRows
  <2>8. KeepsMessages(d, r, e)
    BY <1>1, <2>3, <2>4, <2>6 DEF KeepsMessages, RowsHeld
  <2>9. Waits(d, r, events, e)
    <3>1. CASE base.pending = d.pending
      BY <2>3, <3>1 DEF Waits
    <3>2. CASE /\ base.pending = Append(d.pending, NewRef(e))
               /\ \A i \in DOMAIN d.pending : d.pending[i].ref # e.id
               /\ Find(events, e.target) = {}
      <4>1. \A k \in DOMAIN d.rows : IsSubject(k) => k[2] # e.target
        BY <3>2, UnloggedHasNoRow
      <4>2. e.id # e.target
        BY <3>2 DEF Find
      <4>3. \A k \in DOMAIN rows : IsSubject(k) => k[2] # e.target
        BY <2>4, <2>5, <4>1, <4>2
      <4>4. \A y \in events : y.id # e.target
        BY <3>2 DEF Find
      <4>5. r.db.pending = Append(d.pending, NewRef(e)) /\ r.db.rows = rows
        BY <2>3, <3>2
      <4> QED
        BY <1>2, <2>1, <3>2, <4>3, <4>4, <4>5 DEF Waits
    <3> QED
      BY <2>2, <3>1, <3>2
  <2>10. IsRecord(r.db)
    BY <2>3 DEF IsRecord
  <2> QED
    BY <1>3, <2>1, <2>3, <2>7, <2>8, <2>9, <2>10 DEF Effect, r
<1> QED
  BY <1>4, <1>5, <1>6

\* _handle_message_edited
LEMMA MessageEditedEffect ==
    ASSUME NEW d, NEW events, NEW e \in events, Tables(d, events), e.type = "message.edited"
    PROVE  Effect(d, MessageEdited(d, events, e), events, e)
<1> DEFINE r == MessageEdited(d, events, e)
           key == <<"message", e.target>>
           m == d.rows[key]
<1>1. /\ Kind(e.type) = "none" /\ Kind("message.created") = "message"
      /\ "message" \in Subjects /\ "none" \notin Subjects
  BY DEF Kind, Subjects
<1>2. Hides(d, r, events, e)
  BY DEF Hides
<1>3. CASE ~Has(d, key)
  <2>1. r = WaitFor(d, events, e, "message.created") /\ key \notin DOMAIN d.rows
    BY <1>3 DEF MessageEdited, Has
  <2> HIDE DEF r
  <2> QED
    BY <1>1, <2>1, Waited DEF r
<1>4. CASE Has(d, key) /\ ((\E i \in DOMAIN m.edits : m.edits[i] = e.id)
                           \/ m.sender # e.sender \/ m.retracted # 0)
  <2>1. r.db = d
    BY <1>4 DEF MessageEdited, Refuse, Done
  <2> HIDE DEF r
  <2> QED
    BY <1>1, <1>2, <2>1, NothingDone DEF r
<1>5. CASE Has(d, key) /\ ~ ((\E i \in DOMAIN m.edits : m.edits[i] = e.id)
                             \/ m.sender # e.sender \/ m.retracted # 0)
  <2> DEFINE row == [m EXCEPT !.edits = Append(@, e.id)]
  <2>1. r = Done(Put(d, key, row)) /\ key \in DOMAIN d.rows
    BY <1>5 DEF MessageEdited, Has
  <2>2. IsMessageRow(m)
    BY <2>1 DEF Tables, RowsHeld
  <2> DEFINE edits == Append(m.edits, e.id)
  <2>a. row = [m EXCEPT !.edits = edits]
    OBVIOUS
  <2> HIDE DEF edits, row
  <2>b. row = [sender |-> m.sender, edits |-> edits, retracted |-> m.retracted, reply |-> m.reply]
    BY <2>2, <2>a DEF IsMessageRow
  <2>3. IsMessageRow(row) /\ row.sender = m.sender /\ row.retracted = m.retracted
    BY <2>b DEF IsMessageRow
  <2> HIDE DEF r, row
  <2> QED
    BY <1>1, <2>1, <2>3, MessageWritten DEF r
<1> QED
  BY <1>3, <1>4, <1>5

\* _handle_message_retracted
LEMMA MessageRetractedEffect ==
    ASSUME NEW d, NEW events, NEW e \in events, Tables(d, events), e.type = "message.retracted",
           e.id # 0
    PROVE  Effect(d, MessageRetracted(d, events, e), events, e)
<1> DEFINE r == MessageRetracted(d, events, e)
           key == <<"message", e.target>>
           m == d.rows[key]
<1>1. /\ Kind(e.type) = "none" /\ Kind("message.created") = "message"
      /\ "message" \in Subjects /\ "none" \notin Subjects
  BY DEF Kind, Subjects
<1>3. CASE ~Has(d, key)
  <2>1. r = WaitFor(d, events, e, "message.created") /\ key \notin DOMAIN d.rows
    BY <1>3 DEF MessageRetracted, Has
  <2> HIDE DEF r
  <2> QED
    BY <1>1, <2>1, Waited DEF r
<1>4. CASE Has(d, key) /\ (m.sender # e.sender \/ m.retracted # 0)
  <2>1. r.db = d /\ key \in DOMAIN d.rows
    BY <1>4 DEF MessageRetracted, Refuse, Done, Has
  <2>2. Hides(d, r, events, e)
    BY <1>4, <2>1 DEF Hides
  <2> HIDE DEF r
  <2> QED
    BY <1>1, <2>1, <2>2, NothingDone DEF r
<1>5. CASE Has(d, key) /\ m.sender = e.sender /\ m.retracted = 0
  <2> DEFINE row == [m EXCEPT !.retracted = e.id]
  <2>1. r = Done(Put(d, key, row)) /\ key \in DOMAIN d.rows
    BY <1>5 DEF MessageRetracted, Has
  <2>2. IsMessageRow(m)
    BY <2>1 DEF Tables, RowsHeld
  <2>3. IsMessageRow(row) /\ row.sender = m.sender /\ row.retracted # 0
    BY <2>2 DEF IsMessageRow
  <2>4. Retracts(e, e.target, row.sender)
    BY <1>5, <2>3 DEF Retracts
  <2> HIDE DEF r, row
  <2> QED
    BY <1>1, <1>5, <2>1, <2>3, <2>4, MessageWritten DEF r
<1> QED
  BY <1>3, <1>4, <1>5

\* _handle_reaction_added
LEMMA ReactionAddedEffect ==
    ASSUME NEW d, NEW events, NEW e, Tables(d, events), e.type = "reaction.added"
    PROVE  Effect(d, ReactionAdded(d, events, e), events, e)
<1> DEFINE r == ReactionAdded(d, events, e)
           key == <<"reaction", e.target, e.sender, e.val>>
           active == {k \in DOMAIN d.rows : /\ k[1] = "reaction" /\ k[2] = e.target
                                            /\ k[3] = e.sender /\ d.rows[k].active}
<1>1. Kind(e.type) = "none" /\ e.type # "message.retracted" /\ "none" \notin Subjects
  BY DEF Kind, Subjects
<1>2. Hides(d, r, events, e)
  BY <1>1 DEF Hides
<1>3. key[1] # "message" /\ ~IsSubject(key)
  BY DEF IsSubject
<1>4. CASE Find(events, e.target) = {}
  <2>1. r = Done(AddPending(d, e))
    BY <1>4 DEF ReactionAdded
  <2> HIDE DEF r
  <2> QED
    BY <1>1, <1>4, <2>1, WaitedAny DEF r
<1>5. CASE Find(events, e.target) # {} /\ key \notin active /\ Cardinality(active) >= MaxReactions
  <2>1. r = Refuse(d)
    BY <1>5 DEF ReactionAdded
  <2>2. r.db = d
    BY <2>1 DEF Refuse
  <2> HIDE DEF r
  <2> QED
    BY <1>1, <1>2, <2>2, NothingDone DEF r
<1>6. CASE Find(events, e.target) # {} /\ ~(key \notin active /\ Cardinality(active) >= MaxReactions)
  <2>1. r = Done(Put(d, key, [active |-> TRUE, by |-> e.id]))
    BY <1>6 DEF ReactionAdded
  <2> HIDE DEF r, key
  <2> QED
    BY <1>1, <1>3, <2>1, RowWritten DEF r
<1> QED
  BY <1>4, <1>5, <1>6

\* _handle_reaction_removed
LEMMA ReactionRemovedEffect ==
    ASSUME NEW d, NEW events, NEW e, Tables(d, events), e.type = "reaction.removed"
    PROVE  Effect(d, ReactionRemoved(d, events, e), events, e)
<1> DEFINE r == ReactionRemoved(d, events, e)
           key == <<"reaction", e.target, e.sender, e.val>>
<1>1. Kind(e.type) = "none" /\ e.type # "message.retracted" /\ "none" \notin Subjects
  BY DEF Kind, Subjects
<1>2. Hides(d, r, events, e)
  BY <1>1 DEF Hides
<1>3. key[1] # "message" /\ ~IsSubject(key)
  BY DEF IsSubject
<1>4. CASE Find(events, e.target) = {}
  <2>1. r = Done(AddPending(d, e))
    BY <1>4 DEF ReactionRemoved
  <2> HIDE DEF r
  <2> QED
    BY <1>1, <1>4, <2>1, WaitedAny DEF r
<1>5. CASE Find(events, e.target) # {} /\ (~Has(d, key) \/ ~d.rows[key].active)
  <2>1. r = Done(d)
    BY <1>5 DEF ReactionRemoved
  <2>2. r.db = d
    BY <2>1 DEF Done
  <2> HIDE DEF r
  <2> QED
    BY <1>1, <1>2, <2>2, NothingDone DEF r
<1>6. CASE Find(events, e.target) # {} /\ Has(d, key) /\ d.rows[key].active
  <2>1. r = Done(Put(d, key, [active |-> FALSE, by |-> e.id]))
    BY <1>6 DEF ReactionRemoved
  <2> HIDE DEF r, key
  <2> QED
    BY <1>1, <1>3, <2>1, RowWritten DEF r
<1> QED
  BY <1>4, <1>5, <1>6

\* _handle_receipt
LEMMA ReceiptEffect ==
    ASSUME NEW d, NEW events, NEW e, Tables(d, events), e.type = "receipt"
    PROVE  Effect(d, Receipt(d, events, e), events, e)
<1> DEFINE r == Receipt(d, events, e)
           key == <<"receipt", e.target, e.sender, e.val>>
<1>1. Kind(e.type) = "none" /\ e.type # "message.retracted" /\ "none" \notin Subjects
  BY DEF Kind, Subjects
<1>2. Hides(d, r, events, e)
  BY <1>1 DEF Hides
<1>3. key[1] # "message" /\ ~IsSubject(key)
  BY DEF IsSubject
<1>4. CASE Find(events, e.target) = {}
  <2>1. r = Done(AddPending(d, e))
    BY <1>4 DEF Receipt
  <2> HIDE DEF r
  <2> QED
    BY <1>1, <1>4, <2>1, WaitedAny DEF r
<1>5. CASE Find(events, e.target) # {}
  <2>1. r = Done(Put(d, key, [by |-> e.id]))
    BY <1>5 DEF Receipt
  <2> HIDE DEF r, key
  <2> QED
    BY <1>1, <1>3, <2>1, RowWritten DEF r
<1> QED
  BY <1>4, <1>5

\* _handle_poll_created
LEMMA PollCreatedEffect ==
    ASSUME NEW d, NEW events, NEW e, Tables(d, events), e.type = "poll.created"
    PROVE  Effect(d, PollCreated(d, e), events, e)
<1> DEFINE r == PollCreated(d, e)
           key == <<"poll", e.id>>
<1>1. Kind(e.type) = "poll" /\ e.type # "message.retracted"
  BY DEF Kind
<1>2. key[1] # "message"
  OBVIOUS
<1>3. CASE ~Has(d, <<"poll", e.id>>) /\ e.closes <= e.at
  <2>1. r.db = d /\ ~r.ok
    BY <1>3 DEF PollCreated, Refuse
  <2>2. Hides(d, r, events, e)
    BY <1>1 DEF Hides
  <2> HIDE DEF r
  <2> QED
    BY <2>1, <2>2, NothingDone DEF r
<1>4. CASE ~(~Has(d, <<"poll", e.id>>) /\ e.closes <= e.at)
  <2>1. r = Create(d, key, [closes |-> e.closes])
    BY <1>4 DEF PollCreated
  <2> HIDE DEF r
  <2> QED
    BY <1>1, <1>2, <2>1, RowCreated DEF r
<1> QED
  BY <1>3, <1>4

\* _handle_task_created
LEMMA TaskCreatedEffect ==
    ASSUME NEW d, NEW events, NEW e, Tables(d, events), e.type = "task.created"
    PROVE  Effect(d, TaskCreated(d, e), events, e)
<1> DEFINE r == TaskCreated(d, e)
           key == <<"task", e.id>>
<1>1. Kind(e.type) = "task" /\ e.type # "message.retracted"
  BY DEF Kind
<1>2. key[1] # "message"
  OBVIOUS
<1>3. r = Create(d, key, [owner |-> e.owner, sender |-> e.sender, status |-> "open", by |-> 0])
  BY DEF TaskCreated
<1> HIDE DEF r
<1> QED
  BY <1>1, <1>2, <1>3, RowCreated DEF r

\* _handle_human_requested
LEMMA HumanRequestedEffect ==
    ASSUME NEW d, NEW events, NEW e, Tables(d, events), e.type = "human.requested"
    PROVE  Effect(d, HumanRequested(d, e), events, e)
<1> DEFINE r == HumanRequested(d, e)
           key == <<"request", e.id>>
<1>1. Kind(e.type) = "request" /\ e.type # "message.retracted"
  BY DEF Kind
<1>2. key[1] # "message"
  OBVIOUS
<1>3. r = Create(d, key, [by |-> 0, attestation |-> "peer"])
  BY DEF HumanRequested
<1> HIDE DEF r
<1> QED
  BY <1>1, <1>2, <1>3, RowCreated DEF r

\* _handle_delivery_scheduled
LEMMA DeliveryScheduledEffect ==
    ASSUME NEW d, NEW events, NEW e, Tables(d, events), e.type = "delivery.scheduled"
    PROVE  Effect(d, DeliveryScheduled(d, e), events, e)
<1> DEFINE r == DeliveryScheduled(d, e)
           key == <<"delivery", e.id>>
           dup == \E k \in DOMAIN d.rows : /\ k[1] = "delivery" /\ d.rows[k].sender = e.sender
                                           /\ d.rows[k].inner = e.val
<1>1. Kind(e.type) = "delivery" /\ e.type # "message.retracted"
  BY DEF Kind
<1>2. key[1] # "message"
  OBVIOUS
<1>3. CASE dup
  <2>1. r.db = d
    BY <1>3 DEF DeliveryScheduled, Done
  <2>2. Hides(d, r, events, e)
    BY <1>1 DEF Hides
  <2> HIDE DEF r
  <2> QED
    BY <1>1, <2>1, <2>2, NothingDone DEF r
<1>4. CASE ~dup
  <2>1. r = Create(d, key, [sender |-> e.sender, inner |-> e.val, canceled |-> 0])
    BY <1>4 DEF DeliveryScheduled
  <2> HIDE DEF r
  <2> QED
    BY <1>1, <1>2, <2>1, RowCreated DEF r
<1> QED
  BY <1>3, <1>4

\* _handle_security_key
LEMMA SecurityKeyEffect ==
    ASSUME NEW d, NEW events, NEW e, Tables(d, events), e.type = "security.key"
    PROVE  Effect(d, SecurityKey(d, e), events, e)
<1> DEFINE r == SecurityKey(d, e)
           key == <<"key event", e.id>>
<1>1. Kind(e.type) = "none" /\ e.type # "message.retracted" /\ "none" \notin Subjects
  BY DEF Kind, Subjects
<1>2. key[1] # "message" /\ ~IsSubject(key)
  BY DEF IsSubject
<1>3. r = Create(d, key, [sender |-> e.sender])
  BY DEF SecurityKey
<1> HIDE DEF r, key
<1> QED
  BY <1>1, <1>2, <1>3, RowCreated DEF r

\* _handle_poll_responded
LEMMA PollRespondedEffect ==
    ASSUME NEW d, NEW events, NEW e, NEW now, Tables(d, events), e.type = "poll.responded"
    PROVE  Effect(d, PollResponded(d, events, e, now), events, e)
<1> DEFINE r == PollResponded(d, events, e, now)
           key == <<"poll", e.target>>
           own == <<"response", e.target, e.sender>>
<1>1. Kind(e.type) = "none" /\ e.type # "message.retracted" /\ "none" \notin Subjects
  BY DEF Kind, Subjects
<1>2. Hides(d, r, events, e)
  BY <1>1 DEF Hides
<1>3. Kind("poll.created") = "poll" /\ "poll" \in Subjects /\ key[1] # "message"
  BY DEF Kind, Subjects
<1>4. CASE ~Has(d, key)
  <2>1. r = WaitFor(d, events, e, "poll.created") /\ <<Kind("poll.created"), e.target>> \notin DOMAIN d.rows
    BY <1>3, <1>4 DEF PollResponded, Has
  <2> HIDE DEF r
  <2> QED
    BY <1>1, <1>3, <2>1, Waited DEF r
<1>5. CASE Has(d, key) /\ (e.val = "bad" \/ now >= d.rows[key].closes)
  <2>1. r.db = d
    BY <1>5 DEF PollResponded, Refuse, Done
  <2> HIDE DEF r
  <2> QED
    BY <1>1, <1>2, <2>1, NothingDone DEF r
<1>6. CASE Has(d, key) /\ ~(e.val = "bad" \/ now >= d.rows[key].closes)
  <2>1. r = Done(Put(d, own, [by |-> e.id, at |-> now]))
    BY <1>6 DEF PollResponded
  <2>2. own[1] # "message" /\ ~IsSubject(own)
    BY DEF IsSubject
  <2> HIDE DEF r, own
  <2> QED
    BY <1>1, <1>3, <2>1, <2>2, RowWritten DEF r
<1> QED
  BY <1>4, <1>5, <1>6

\* _handle_task_updated
LEMMA TaskUpdatedEffect ==
    ASSUME NEW d, NEW events, NEW e, Tables(d, events), e.type = "task.updated"
    PROVE  Effect(d, TaskUpdated(d, events, e), events, e)
<1> DEFINE r == TaskUpdated(d, events, e)
           key == <<"task", e.target>>
<1>1. Kind(e.type) = "none" /\ e.type # "message.retracted" /\ "none" \notin Subjects
  BY DEF Kind, Subjects
<1>2. Hides(d, r, events, e)
  BY <1>1 DEF Hides
<1>3. Kind("task.created") = "task" /\ "task" \in Subjects /\ key[1] # "message"
  BY DEF Kind, Subjects
<1>4. CASE ~Has(d, key)
  <2>1. r = WaitFor(d, events, e, "task.created") /\ <<Kind("task.created"), e.target>> \notin DOMAIN d.rows
    BY <1>3, <1>4 DEF TaskUpdated, Has
  <2> HIDE DEF r
  <2> QED
    BY <1>1, <1>3, <2>1, Waited DEF r
<1>5. CASE Has(d, key) /\ (\/ e.sender \notin {d.rows[key].owner, d.rows[key].sender}
                            \/ d.rows[key].status \in {"done", "canceled"})
  <2>1. r.db = d
    BY <1>5 DEF TaskUpdated, Refuse, Done
  <2> HIDE DEF r
  <2> QED
    BY <1>1, <1>2, <2>1, NothingDone DEF r
<1>6. CASE Has(d, key) /\ ~(\/ e.sender \notin {d.rows[key].owner, d.rows[key].sender}
                            \/ d.rows[key].status \in {"done", "canceled"})
  <2>1. r = Done(Put(d, key, [d.rows[key] EXCEPT !.status = e.val, !.by = e.id]))
    BY <1>6 DEF TaskUpdated
  <2>2. key \in DOMAIN d.rows
    BY <1>6 DEF Has
  <2> HIDE DEF r, key
  <2> QED
    BY <1>1, <1>3, <2>1, <2>2, RowWritten DEF r
<1> QED
  BY <1>4, <1>5, <1>6

\* _handle_human_responded
LEMMA HumanRespondedEffect ==
    ASSUME NEW d, NEW events, NEW e, Tables(d, events), e.type = "human.responded"
    PROVE  Effect(d, HumanResponded(d, events, e), events, e)
<1> DEFINE r == HumanResponded(d, events, e)
           key == <<"request", e.target>>
<1>1. Kind(e.type) = "none" /\ e.type # "message.retracted" /\ "none" \notin Subjects
  BY DEF Kind, Subjects
<1>2. Hides(d, r, events, e)
  BY <1>1 DEF Hides
<1>3. Kind("human.requested") = "request" /\ "request" \in Subjects /\ key[1] # "message"
  BY DEF Kind, Subjects
<1>4. CASE ~Has(d, key)
  <2>1. r = WaitFor(d, events, e, "human.requested") /\ <<Kind("human.requested"), e.target>> \notin DOMAIN d.rows
    BY <1>3, <1>4 DEF HumanResponded, Has
  <2> HIDE DEF r
  <2> QED
    BY <1>1, <1>3, <2>1, Waited DEF r
<1>6. CASE Has(d, key)
  <2>1. r = Done(Put(d, key, [by |-> e.id, attestation |-> Attestation(e)]))
    BY <1>6 DEF HumanResponded
  <2>2. key \in DOMAIN d.rows
    BY <1>6 DEF Has
  <2> HIDE DEF r, key
  <2> QED
    BY <1>1, <1>3, <2>1, <2>2, RowWritten DEF r
<1> QED
  BY <1>4, <1>6

\* _handle_delivery_canceled
LEMMA DeliveryCanceledEffect ==
    ASSUME NEW d, NEW events, NEW e, Tables(d, events), e.type = "delivery.canceled"
    PROVE  Effect(d, DeliveryCanceled(d, events, e), events, e)
<1> DEFINE r == DeliveryCanceled(d, events, e)
           key == <<"delivery", e.target>>
<1>1. Kind(e.type) = "none" /\ e.type # "message.retracted" /\ "none" \notin Subjects
  BY DEF Kind, Subjects
<1>2. Hides(d, r, events, e)
  BY <1>1 DEF Hides
<1>3. Kind("delivery.scheduled") = "delivery" /\ "delivery" \in Subjects /\ key[1] # "message"
  BY DEF Kind, Subjects
<1>4. CASE ~Has(d, key)
  <2>1. r = WaitFor(d, events, e, "delivery.scheduled") /\ <<Kind("delivery.scheduled"), e.target>> \notin DOMAIN d.rows
    BY <1>3, <1>4 DEF DeliveryCanceled, Has
  <2> HIDE DEF r
  <2> QED
    BY <1>1, <1>3, <2>1, Waited DEF r
<1>5. CASE Has(d, key) /\ (d.rows[key].sender # e.sender \/ d.rows[key].canceled # 0)
  <2>1. r.db = d
    BY <1>5 DEF DeliveryCanceled, Refuse, Done
  <2> HIDE DEF r
  <2> QED
    BY <1>1, <1>2, <2>1, NothingDone DEF r
<1>6. CASE Has(d, key) /\ ~(d.rows[key].sender # e.sender \/ d.rows[key].canceled # 0)
  <2>1. r = Done(Put(d, key, [d.rows[key] EXCEPT !.canceled = e.id]))
    BY <1>6 DEF DeliveryCanceled
  <2>2. key \in DOMAIN d.rows
    BY <1>6 DEF Has
  <2> HIDE DEF r, key
  <2> QED
    BY <1>1, <1>3, <2>1, <2>2, RowWritten DEF r
<1> QED
  BY <1>4, <1>5, <1>6

\* _dispatch: whatever the type of an event, its handler keeps to Effect.
LEMMA DispatchEffect ==
    ASSUME NEW d, NEW events, NEW e \in events, NEW now, Tables(d, events), e.id # 0
    PROVE  Effect(d, Dispatch(d, events, e, now), events, e)
<1>1. CASE e.type = "message.created"
  BY <1>1, MessageCreatedEffect DEF Dispatch
<1>2. CASE e.type = "message.edited"
  BY <1>2, MessageEditedEffect DEF Dispatch
<1>3. CASE e.type = "message.retracted"
  BY <1>3, MessageRetractedEffect DEF Dispatch
<1>4. CASE e.type = "reaction.added"
  BY <1>4, ReactionAddedEffect DEF Dispatch
<1>5. CASE e.type = "reaction.removed"
  BY <1>5, ReactionRemovedEffect DEF Dispatch
<1>6. CASE e.type = "receipt"
  BY <1>6, ReceiptEffect DEF Dispatch
<1>7. CASE e.type = "poll.created"
  BY <1>7, PollCreatedEffect DEF Dispatch
<1>8. CASE e.type = "poll.responded"
  BY <1>8, PollRespondedEffect DEF Dispatch
<1>9. CASE e.type = "task.created"
  BY <1>9, TaskCreatedEffect DEF Dispatch
<1>10. CASE e.type = "task.updated"
  BY <1>10, TaskUpdatedEffect DEF Dispatch
<1>11. CASE e.type = "human.requested"
  BY <1>11, HumanRequestedEffect DEF Dispatch
<1>12. CASE e.type = "human.responded"
  BY <1>12, HumanRespondedEffect DEF Dispatch
<1>13. CASE e.type = "delivery.scheduled"
  BY <1>13, DeliveryScheduledEffect DEF Dispatch
<1>14. CASE e.type = "delivery.canceled"
  BY <1>14, DeliveryCanceledEffect DEF Dispatch
<1>15. CASE e.type = "security.key"
  BY <1>15, SecurityKeyEffect DEF Dispatch
<1>16. CASE e.type \notin {"message.created", "message.edited", "message.retracted",
                           "reaction.added", "reaction.removed", "receipt", "poll.created",
                           "poll.responded", "task.created", "task.updated",
                           "human.requested", "human.responded", "delivery.scheduled",
                           "delivery.canceled", "security.key"}
  <2> DEFINE r == Dispatch(d, events, e, now)
  <2>1. r = Done(d)
    BY <1>16 DEF Dispatch
  <2>2. r.db = d
    BY <2>1 DEF Done
  <2>3. Kind(e.type) = "none" /\ "none" \notin Subjects
    BY <1>16 DEF Kind, Subjects
  <2>4. Hides(d, r, events, e)
    BY <1>16 DEF Hides
  <2> HIDE DEF r
  <2> QED
    BY <2>2, <2>3, <2>4, NothingDone DEF r
<1> QED
  BY <1>1, <1>2, <1>3, <1>4, <1>5, <1>6, <1>7, <1>8, <1>9, <1>10, <1>11, <1>12, <1>13,
     <1>14, <1>15, <1>16

\* The event has a reference.
HasRef(d, id) == \E i \in DOMAIN d.pending : d.pending[i].ref = id

\* _add_pending, _target_status: an event about one that is not logged gets a reference,
\* unless it is a reply that has its row.
LEMMA DispatchAwaits ==
    ASSUME NEW d, NEW events, NEW e \in events, NEW now, Tables(d, events), IsAbout(e),
           Find(events, e.target) = {},
           e.type = "message.created" => <<"message", e.id>> \notin DOMAIN d.rows
    PROVE  HasRef(Dispatch(d, events, e, now).db, e.id)
<1> DEFINE a == AddPending(d, e)
<1>1. \A k \in DOMAIN d.rows : IsSubject(k) => k[2] # e.target
  BY UnloggedHasNoRow
<1>2. ASSUME NEW kind \in Subjects PROVE ~Has(d, <<kind, e.target>>)
  <2>1. IsSubject(<<kind, e.target>>) /\ <<kind, e.target>>[2] = e.target
    BY DEF IsSubject, Subjects
  <2> QED
    BY <1>1, <2>1 DEF Has
<1>3. /\ "message" \in Subjects /\ "poll" \in Subjects /\ "task" \in Subjects
      /\ "request" \in Subjects /\ "delivery" \in Subjects
  BY DEF Subjects
<1>4. IsRecord(a) /\ HasRef(a, e.id)
  BY AddPendingFacts DEF HasRef
<1>5. \A type : WaitFor(d, events, e, type) = Done(a)
  BY DEF WaitFor
<1>6. Done(a).db = a
  BY DEF Done
<1>7. CASE e.type = "message.created"
  <2> DEFINE key == <<"message", e.id>>
             row == [sender |-> e.sender, edits |-> <<>>, retracted |-> 0,
                     reply |-> IF now - e.at >= TTL THEN "unavailable" ELSE "pending"]
  <2>1. Dispatch(d, events, e, now) = Create(a, key, row)
    BY <1>7 DEF Dispatch, MessageCreated, Has, IsAbout
  <2> HIDE DEF a, key, row
  <2>2. Put(a, key, row).pending = a.pending
    BY <1>4 DEF Put, IsRecord
  <2>3. Create(a, key, row).db.pending = a.pending
    BY <2>2 DEF Create, Done
  <2> QED
    BY <1>4, <2>1, <2>3 DEF HasRef
<1>8. CASE e.type \in {"message.edited", "message.retracted", "reaction.added",
                      "reaction.removed", "receipt", "poll.responded", "task.updated",
                      "human.responded", "delivery.canceled"}
  <2>1. Dispatch(d, events, e, now) = Done(a)
    <3> HIDE DEF a
    <3>1. CASE e.type = "message.edited"
      BY <1>2, <1>3, <1>5, <3>1 DEF Dispatch, MessageEdited
    <3>2. CASE e.type = "message.retracted"
      BY <1>2, <1>3, <1>5, <3>2 DEF Dispatch, MessageRetracted
    <3>3. CASE e.type = "reaction.added"
      BY <3>3 DEF Dispatch, ReactionAdded, a
    <3>4. CASE e.type = "reaction.removed"
      BY <3>4 DEF Dispatch, ReactionRemoved, a
    <3>5. CASE e.type = "receipt"
      BY <3>5 DEF Dispatch, Receipt, a
    <3>6. CASE e.type = "poll.responded"
      BY <1>2, <1>3, <1>5, <3>6 DEF Dispatch, PollResponded
    <3>7. CASE e.type = "task.updated"
      BY <1>2, <1>3, <1>5, <3>7 DEF Dispatch, TaskUpdated
    <3>8. CASE e.type = "human.responded"
      BY <1>2, <1>3, <1>5, <3>8 DEF Dispatch, HumanResponded
    <3>9. CASE e.type = "delivery.canceled"
      BY <1>2, <1>3, <1>5, <3>9 DEF Dispatch, DeliveryCanceled
    <3> QED
      BY <1>8, <3>1, <3>2, <3>3, <3>4, <3>5, <3>6, <3>7, <3>8, <3>9
  <2> HIDE DEF a
  <2> QED
    BY <1>4, <1>6, <2>1
<1> QED
  BY <1>7, <1>8 DEF IsAbout

\* A handler keeps the tables well formed.
LEMMA EffectKeepsTables ==
    ASSUME NEW d, NEW events, NEW e \in events, NEW r, Events(events), Tables(d, events),
           Effect(d, r, events, e)
    PROVE  Tables(r.db, events)
<1>1. /\ PendingHeld(d, events) /\ RowsHeld(d, events) /\ d.cursor \in [{1, 2} -> Nat]
  BY DEF Tables
<1>2. /\ IsRecord(r.db) /\ r.db.cursor = d.cursor /\ (~r.ok => r.db = d)
      /\ KeepsRows(d, r, e) /\ KeepsMessages(d, r, e) /\ Waits(d, r, events, e)
  BY DEF Effect
<1>3. PendingHeld(r.db, events)
  <2>1. DOMAIN d.rows \subseteq DOMAIN r.db.rows
    BY <1>2 DEF KeepsRows
  <2>2. CASE r.db.pending = d.pending
    BY <1>1, <2>1, <2>2 DEF PendingHeld
  <2>3. CASE /\ r.ok /\ r.db.pending = Append(d.pending, NewRef(e))
             /\ Kind(e.type) \in {"none", "message"}
             /\ \A i \in DOMAIN d.pending : d.pending[i].ref # e.id
    <3>1. d.pending \in Seq(Refs(events))
      BY <1>1 DEF PendingHeld
    <3>2. NewRef(e) \in Refs(events) /\ NewRef(e).ref = e.id
      BY DEF NewRef, Refs
    <3> DEFINE n == Len(d.pending)
               q == Append(d.pending, NewRef(e))
    <3>3. /\ q \in Seq(Refs(events)) /\ n \in Nat /\ DOMAIN d.pending = 1..n
          /\ DOMAIN q = 1..(n + 1) /\ q[n + 1] = NewRef(e)
          /\ \A i \in 1..n : q[i] = d.pending[i]
      BY <3>1, <3>2
    <3> HIDE DEF n, q
    <3>4. \A i \in 1..(n + 1) : i \in 1..n \/ i = n + 1
      BY <3>3
    <3>5. \A i, j \in 1..(n + 1) : q[i].ref = q[j].ref => i = j
      <4>1. \A i, j \in 1..n : q[i].ref = q[j].ref => i = j
        BY <1>1, <3>3 DEF PendingHeld
      <4>2. \A i \in 1..n : q[i].ref # q[n + 1].ref
        BY <2>3, <3>2, <3>3
      <4> QED
        BY <3>4, <4>1, <4>2
    <3>6. ASSUME NEW i \in 1..(n + 1), NEW x \in events, x.id = q[i].ref
          PROVE  /\ x.type = "message.created" => <<"message", x.id>> \in DOMAIN r.db.rows
                 /\ Kind(x.type) \in {"none", "message"}
      <4>1. CASE i \in 1..n
        BY <1>1, <2>1, <3>3, <3>6, <4>1 DEF PendingHeld
      <4>2. CASE i = n + 1
        <5>1. x.id = e.id
          BY <3>2, <3>3, <3>6, <4>2
        <5>2. x = e
          BY <5>1, EventsFacts
        <5>3. /\ e.type = "message.created" => Kind(e.type) = "message"
              /\ "message" \in Subjects \ {"delivery"}
          BY DEF Kind, Subjects
        <5> QED
          BY <1>2, <2>3, <5>2, <5>3 DEF KeepsRows
      <4> QED
        BY <3>4, <4>1, <4>2
    <3> QED
      BY <2>3, <3>3, <3>5, <3>6 DEF PendingHeld, q
  <2> QED
    BY <1>2, <2>2, <2>3 DEF Waits
<1>4. RowsHeld(r.db, events)
  <2> SUFFICES ASSUME NEW k \in DOMAIN r.db.rows
               PROVE  /\ IsSubject(k) =>
                            /\ k = <<k[1], k[2]>>
                            /\ \E y \in events : y.id = k[2] /\ Kind(y.type) = k[1]
                      /\ k[1] = "message" =>
                            /\ IsMessageRow(r.db.rows[k])
                            /\ \E y \in events : y.id = k[2] /\ y.sender = r.db.rows[k].sender
                            /\ r.db.rows[k].retracted # 0 =>
                                  \E x \in events : Retracts(x, k[2], r.db.rows[k].sender)
    BY DEF RowsHeld
  <2>1. CASE k \in DOMAIN d.rows
    <3>1. ASSUME IsSubject(k)
          PROVE  k = <<k[1], k[2]>> /\ \E y \in events : y.id = k[2] /\ Kind(y.type) = k[1]
      BY <1>1, <2>1, <3>1 DEF RowsHeld
    <3>2. ASSUME k[1] = "message"
          PROVE  /\ IsMessageRow(r.db.rows[k])
                 /\ \E y \in events : y.id = k[2] /\ y.sender = r.db.rows[k].sender
                 /\ r.db.rows[k].retracted # 0 =>
                       \E x \in events : Retracts(x, k[2], r.db.rows[k].sender)
      <4>1. /\ IsMessageRow(r.db.rows[k]) /\ r.db.rows[k].sender = d.rows[k].sender
            /\ \/ r.db.rows[k].retracted = d.rows[k].retracted
               \/ Retracts(e, k[2], d.rows[k].sender)
        BY <1>2, <2>1, <3>2 DEF KeepsMessages
      <4>2. /\ \E y \in events : y.id = k[2] /\ y.sender = d.rows[k].sender
            /\ d.rows[k].retracted # 0 =>
                  \E x \in events : Retracts(x, k[2], d.rows[k].sender)
        BY <1>1, <2>1, <3>2 DEF RowsHeld
      <4> QED
        BY <4>1, <4>2
    <3> QED
      BY <3>1, <3>2
  <2>2. CASE k \notin DOMAIN d.rows
    <3>1. IsSubject(k) => k = <<Kind(e.type), e.id>>
      BY <1>2, <2>2 DEF KeepsRows
    <3>2. IsSubject(k) => k[1] = Kind(e.type) /\ k[2] = e.id
      BY <3>1
    <3>3. k[1] = "message" => /\ IsMessageRow(r.db.rows[k]) /\ r.db.rows[k].sender = e.sender
                              /\ r.db.rows[k].retracted = 0
      BY <1>2, <2>2 DEF KeepsMessages
    <3>4. k[1] = "message" => IsSubject(k)
      BY DEF IsSubject
    <3> QED
      BY <3>1, <3>2, <3>3, <3>4
  <2> QED
    BY <2>1, <2>2
<1> QED
  BY <1>1, <1>2, <1>3, <1>4 DEF Tables

(***************************************************************************)
(* What the tables hold of the events that were applied                    *)
(***************************************************************************)

\* An applied event that creates a subject has its row or was refused; only a second
\* announcement of a delivery has neither.
Settled(d, done) ==
    \A y \in done :
        Kind(y.type) \in Subjects \ {"delivery"} =>
            y.id \in d.quarantine \/ <<Kind(y.type), y.id>> \in DOMAIN d.rows

\* Nothing waits for what is there, except the references of open, still to be resolved.
WaitHeld(d, done, open) ==
    \A i \in DOMAIN d.pending \ open :
        d.pending[i].state = "pending" =>
            /\ \A k \in DOMAIN d.rows : IsSubject(k) => k[2] # d.pending[i].target
            /\ \A y \in done : y.id = d.pending[i].target =>
                                   y.id \in d.quarantine \/ y.type = "delivery.scheduled"

\* The target is logged as something other than a message.
NoMessage(events, id) == \E y \in events : y.id = id /\ y.type # "message.created"

\* A reference of the event that has expired, or that is still to be resolved.
Excused(d, id, open) ==
    \E i \in DOMAIN d.pending :
        /\ d.pending[i].ref = id
        /\ d.pending[i].state = "expired" \/ (i \in open /\ d.pending[i].state = "pending")

\* An applied retraction has hidden its sender's message or waits for it.
HideHeld(d, events, done, open) ==
    \A r \in done : r.type = "message.retracted" =>
        LET key == <<"message", r.target>>
        IN  /\ key \in DOMAIN d.rows /\ d.rows[key].sender = r.sender =>
                  d.rows[key].retracted # 0 \/ Excused(d, r.id, open)
            /\ key \notin DOMAIN d.rows =>
                  NoMessage(events, r.target) \/ \E i \in DOMAIN d.pending : d.pending[i].ref = r.id

\* The target of a resolved event is logged, and that of a retraction is there.
ResolvedHeld(d, events) ==
    \A i \in DOMAIN d.pending : \A x \in events :
        d.pending[i].ref = x.id /\ d.pending[i].state = "resolved" =>
            /\ Find(events, x.target) # {}
            /\ x.type = "message.retracted" =>
                  <<"message", x.target>> \in DOMAIN d.rows \/ NoMessage(events, x.target)

\* An applied event, or a reply with its row, has a reference if its target is not logged.
RefHeld(d, events, done) ==
    \A x \in events :
        /\ IsAbout(x) /\ Find(events, x.target) = {}
        /\ \/ x \in done /\ x.id \notin d.quarantine
           \/ x.type = "message.created" /\ <<"message", x.id>> \in DOMAIN d.rows
        => HasRef(d, x.id)

\* Gaps are behind the cursor; an applied event that was not refused is too, and is not
\* one of them.
GapsHeld(d, done) ==
    /\ \A a \in {1, 2} : \A n \in Nat : <<a, n>> \in d.gaps => n <= d.cursor[a]
    /\ \A y \in done :
          y.id \in d.quarantine \/ (/\ y.seq <= d.cursor[y.sender]
                                    /\ <<y.sender, y.seq>> \notin d.gaps)

Seen(events, a, n) == \E y \in events : y.sender = a /\ y.seq = n

\* A cursor is at a logged event; a gap is a number behind it, and short of the cap every
\* number behind it is a gap or that of a logged event.
SeqHeld(d, events) ==
    /\ \A g \in d.gaps : \E a \in {1, 2}, n \in Nat \ {0} : g = <<a, n>> /\ n <= d.cursor[a]
    /\ \A a \in {1, 2} : d.cursor[a] = 0 \/ Seen(events, a, d.cursor[a])
    /\ Uncapped(events) =>
          \A a \in {1, 2} : \A n \in Nat \ {0} :
              n <= d.cursor[a] => <<a, n>> \in d.gaps \/ Seen(events, a, n)

\* The tables in the middle of an event, with the references of open to be resolved.
Held(d, events, done, open) ==
    /\ Tables(d, events)
    /\ Settled(d, done)
    /\ WaitHeld(d, done, open)
    /\ HideHeld(d, events, done, open)
    /\ ResolvedHeld(d, events)
    /\ RefHeld(d, events, done)

\* The tables between events.
Consistent(d, events, done) ==
    /\ Held(d, events, done, {})
    /\ GapsHeld(d, done)
    /\ SeqHeld(d, events)

(***************************************************************************)
(* Resolving a reference                                                   *)
(***************************************************************************)

\* Tables that differ in the states of references, and in what a message says of its reply.
SameShape(d, s) ==
    /\ IsRecord(s) /\ s.cursor = d.cursor
    /\ DOMAIN s.rows = DOMAIN d.rows
    /\ \A k \in DOMAIN d.rows : k[1] = "message" =>
          /\ IsMessageRow(s.rows[k])
          /\ s.rows[k].sender = d.rows[k].sender /\ s.rows[k].retracted = d.rows[k].retracted
    /\ s.pending = [i \in DOMAIN d.pending |-> s.pending[i]]
    /\ \A i \in DOMAIN d.pending :
          /\ s.pending[i] = [ref |-> d.pending[i].ref, target |-> d.pending[i].target,
                             at |-> d.pending[i].at, state |-> s.pending[i].state]
          /\ s.pending[i].state \in {"pending", "resolved", "expired"}

\* Such a difference keeps the tables well formed.
LEMMA SameShapeKeepsTables ==
    ASSUME NEW d, NEW events, NEW s, Tables(d, events), SameShape(d, s)
    PROVE  Tables(s, events)
<1>1. PendingHeld(d, events) /\ RowsHeld(d, events) /\ d.cursor \in [{1, 2} -> Nat]
  BY DEF Tables
<1>2. d.pending \in Seq(Refs(events))
  BY <1>1 DEF PendingHeld
<1> DEFINE n == Len(d.pending)
<1>3. n \in Nat /\ DOMAIN d.pending = 1..n /\ \A i \in 1..n : d.pending[i] \in Refs(events)
  BY <1>2
<1> HIDE DEF n
<1>4. /\ DOMAIN s.rows = DOMAIN d.rows /\ s.pending = [i \in 1..n |-> s.pending[i]]
      /\ IsRecord(s) /\ s.cursor = d.cursor
  BY <1>3 DEF SameShape
<1>5. ASSUME NEW i \in 1..n
      PROVE  /\ s.pending[i] \in Refs(events)
             /\ s.pending[i].ref = d.pending[i].ref
  <2>1. /\ s.pending[i] = [ref |-> d.pending[i].ref, target |-> d.pending[i].target,
                           at |-> d.pending[i].at, state |-> s.pending[i].state]
        /\ s.pending[i].state \in {"pending", "resolved", "expired"}
    BY <1>3 DEF SameShape
  <2> DEFINE st == s.pending[i].state
             p == s.pending[i]
  <2> HIDE DEF st
  <2>2. /\ p = [ref |-> d.pending[i].ref, target |-> d.pending[i].target,
                at |-> d.pending[i].at, state |-> st]
        /\ st \in {"pending", "resolved", "expired"}
    BY <2>1 DEF st
  <2> HIDE DEF p
  <2>3. p \in Refs(events) /\ p.ref = d.pending[i].ref
    BY <1>3, <2>2 DEF Refs
  <2> QED
    BY <2>3 DEF p
<1>6. s.pending \in Seq(Refs(events)) /\ DOMAIN s.pending = 1..n
  BY <1>3, <1>4, <1>5
<1>7. PendingHeld(s, events)
  BY <1>1, <1>3, <1>4, <1>5, <1>6 DEF PendingHeld
<1>8. RowsHeld(s, events)
  <2> SUFFICES ASSUME NEW k \in DOMAIN s.rows
               PROVE  /\ IsSubject(k) =>
                            /\ k = <<k[1], k[2]>>
                            /\ \E y \in events : y.id = k[2] /\ Kind(y.type) = k[1]
                      /\ k[1] = "message" =>
                            /\ IsMessageRow(s.rows[k])
                            /\ \E y \in events : y.id = k[2] /\ y.sender = s.rows[k].sender
                            /\ s.rows[k].retracted # 0 =>
                                  \E x \in events : Retracts(x, k[2], s.rows[k].sender)
    BY DEF RowsHeld
  <2>1. k \in DOMAIN d.rows
    BY <1>4
  <2>2. k[1] = "message" =>
          /\ IsMessageRow(s.rows[k])
          /\ s.rows[k].sender = d.rows[k].sender /\ s.rows[k].retracted = d.rows[k].retracted
    BY <2>1 DEF SameShape
  <2> QED
    BY <1>1, <2>1, <2>2 DEF RowsHeld
<1> QED
  BY <1>1, <1>4, <1>7, <1>8 DEF Tables

\* Such tables have the same references.
LEMMA SameShapeRefs ==
    ASSUME NEW d, NEW s, SameShape(d, s)
    PROVE  /\ DOMAIN s.pending = DOMAIN d.pending
           /\ \A i \in DOMAIN d.pending : /\ s.pending[i].ref = d.pending[i].ref
                                         /\ s.pending[i].target = d.pending[i].target
<1>1. ASSUME NEW i \in DOMAIN d.pending
      PROVE  s.pending[i].ref = d.pending[i].ref /\ s.pending[i].target = d.pending[i].target
  <2>1. PICK st : s.pending[i] = [ref |-> d.pending[i].ref, target |-> d.pending[i].target,
                                  at |-> d.pending[i].at, state |-> st]
    BY DEF SameShape
  <2> QED
    BY <2>1
<1>2. DOMAIN s.pending = DOMAIN d.pending
  <2>1. s.pending = [i \in DOMAIN d.pending |-> s.pending[i]]
    BY DEF SameShape
  <2> QED
    BY <2>1
<1> QED
  BY <1>1, <1>2

Marked(d, i) == [d EXCEPT !.pending[i].state = "resolved"]

\* Marking a reference as resolved changes nothing else.
LEMMA MarkedFacts ==
    ASSUME NEW d, NEW events, Tables(d, events), NEW i \in DOMAIN d.pending
    PROVE  LET s == Marked(d, i)
           IN  /\ SameShape(d, s) /\ s.rows = d.rows /\ s.quarantine = d.quarantine
               /\ s.gaps = d.gaps /\ s.pending[i].state = "resolved"
               /\ \A j \in DOMAIN d.pending : j # i => s.pending[j] = d.pending[j]
<1>1. IsRecord(d) /\ PendingHeld(d, events) /\ RowsHeld(d, events)
  BY DEF Tables
<1>2. d.pending \in Seq(Refs(events))
  BY <1>1 DEF PendingHeld
<1>3. ASSUME NEW j \in DOMAIN d.pending
      PROVE  /\ d.pending[j] = [ref |-> d.pending[j].ref, target |-> d.pending[j].target,
                                at |-> d.pending[j].at, state |-> d.pending[j].state]
             /\ d.pending[j].state \in {"pending", "resolved", "expired"}
  <2>1. d.pending[j] \in Refs(events)
    BY <1>2
  <2> DEFINE p == d.pending[j]
  <2> HIDE DEF p
  <2>2. /\ p = [ref |-> p.ref, target |-> p.target, at |-> p.at, state |-> p.state]
        /\ p.state \in {"pending", "resolved", "expired"}
    BY <2>1 DEF Refs, p
  <2> QED
    BY <2>2 DEF p
<1> DEFINE q == [d.pending EXCEPT ![i].state = "resolved"]
           s == Marked(d, i)
<1>4. s = [rows |-> d.rows, pending |-> q, quarantine |-> d.quarantine,
           cursor |-> d.cursor, gaps |-> d.gaps]
  BY <1>1 DEF Marked, IsRecord
<1>5. /\ DOMAIN q = DOMAIN d.pending /\ q = [j \in DOMAIN d.pending |-> q[j]]
      /\ \A j \in DOMAIN d.pending : j # i => q[j] = d.pending[j]
      /\ q[i] = [d.pending[i] EXCEPT !.state = "resolved"]
  BY <1>2
<1>6. /\ q[i] = [ref |-> d.pending[i].ref, target |-> d.pending[i].target,
                 at |-> d.pending[i].at, state |-> "resolved"]
      /\ q[i].state = "resolved"
  <2> DEFINE p == d.pending[i]
  <2>1. p = [ref |-> p.ref, target |-> p.target, at |-> p.at, state |-> p.state]
    BY <1>3
  <2> HIDE DEF p, q
  <2>2. q[i] = [p EXCEPT !.state = "resolved"]
    BY <1>5 DEF p
  <2>3. q[i] = [ref |-> p.ref, target |-> p.target, at |-> p.at, state |-> "resolved"]
    BY <2>1, <2>2
  <2> QED
    BY <2>3 DEF p
<1> HIDE DEF q
<1>7. ASSUME NEW j \in DOMAIN d.pending
      PROVE  /\ q[j] = [ref |-> d.pending[j].ref, target |-> d.pending[j].target,
                        at |-> d.pending[j].at, state |-> q[j].state]
             /\ q[j].state \in {"pending", "resolved", "expired"}
  <2>1. CASE j = i
    BY <1>6, <2>1
  <2>2. CASE j # i
    BY <1>3, <1>5, <2>2
  <2> QED
    BY <2>1, <2>2
<1>8. \A k \in DOMAIN d.rows : k[1] = "message" => IsMessageRow(d.rows[k])
  BY <1>1 DEF RowsHeld
<1>9. IsRecord(s)
  BY <1>4 DEF IsRecord
<1> HIDE DEF s
<1>10. SameShape(d, s)
  BY <1>4, <1>5, <1>7, <1>8, <1>9 DEF SameShape
<1> QED
  BY <1>4, <1>5, <1>6, <1>10 DEF s

\* A refusal is only recorded.
LEMMA QuarantineFacts ==
    ASSUME NEW events, NEW r, NEW id, Tables(r.db, events)
    PROVE  LET s == QuarantineIf(r, id)
           IN  /\ Tables(s, events) /\ s.rows = r.db.rows /\ s.pending = r.db.pending
               /\ s.cursor = r.db.cursor /\ s.gaps = r.db.gaps
               /\ r.db.quarantine \subseteq s.quarantine
               /\ ~r.ok => id \in s.quarantine
<1> DEFINE s == QuarantineIf(r, id)
           d == r.db
<1>1. IsRecord(d) /\ Tables(d, events)
  BY DEF Tables
<1>2. CASE r.ok
  BY <1>1, <1>2 DEF QuarantineIf
<1>3. CASE ~r.ok
  <2>1. s = [rows |-> d.rows, pending |-> d.pending, quarantine |-> d.quarantine \cup {id},
             cursor |-> d.cursor, gaps |-> d.gaps]
    BY <1>1, <1>3 DEF QuarantineIf, IsRecord
  <2>2. IsRecord(s)
    BY <2>1 DEF IsRecord
  <2> HIDE DEF s, d
  <2>3. Tables(s, events)
    BY <1>1, <2>1, <2>2 DEF Tables, PendingHeld, RowsHeld
  <2> QED
    BY <2>1, <2>3 DEF s, d
<1> QED
  BY <1>2, <1>3

\* What resolving reference i, of event x, does to the tables.
ResolvedTo(d, s, x, i) ==
    /\ s.cursor = d.cursor /\ s.gaps = d.gaps /\ d.quarantine \subseteq s.quarantine
    /\ DOMAIN s.pending = DOMAIN d.pending
    /\ s.pending[i].ref = d.pending[i].ref /\ s.pending[i].target = d.pending[i].target
    /\ s.pending[i].state = "resolved"
    /\ \A j \in DOMAIN d.pending : j # i => s.pending[j] = d.pending[j]
    /\ DOMAIN d.rows \subseteq DOMAIN s.rows
    /\ \A k \in DOMAIN s.rows \ DOMAIN d.rows : ~IsSubject(k)
    /\ \A k \in DOMAIN d.rows : k[1] = "message" =>
          /\ s.rows[k].sender = d.rows[k].sender
          /\ d.rows[k].retracted # 0 => s.rows[k].retracted # 0
    /\ LET key == <<"message", x.target>>
       IN  /\ x.type = "message.retracted"
           /\ key \in DOMAIN d.rows /\ d.rows[key].sender = x.sender
           => s.rows[key].retracted # 0

\* A waiting reply learns whether its target is in its conversation.
LEMMA ReplyResolved ==
    ASSUME NEW d, NEW events, Tables(d, events), NEW x \in events, NEW i \in DOMAIN d.pending,
           d.pending[i].ref = x.id, x.type = "message.created", NEW reply, NEW s,
           s = Put(Marked(d, i), <<"message", x.id>>,
                   [d.rows[<<"message", x.id>>] EXCEPT !.reply = reply])
    PROVE  Tables(s, events) /\ ResolvedTo(d, s, x, i)
<1> DEFINE m == Marked(d, i)
           key == <<"message", x.id>>
           row == [d.rows[key] EXCEPT !.reply = reply]
           rows == [k \in DOMAIN d.rows \cup {key} |-> IF k = key THEN row ELSE d.rows[k]]
<1>1. /\ SameShape(d, m) /\ m.rows = d.rows /\ m.quarantine = d.quarantine
      /\ m.gaps = d.gaps /\ m.pending[i].state = "resolved"
      /\ \A j \in DOMAIN d.pending : j # i => m.pending[j] = d.pending[j]
  BY MarkedFacts
<1>2. /\ IsRecord(m) /\ m.cursor = d.cursor /\ DOMAIN m.pending = DOMAIN d.pending
      /\ m.pending = [j \in DOMAIN d.pending |-> m.pending[j]]
      /\ \A j \in DOMAIN d.pending :
            /\ m.pending[j] = [ref |-> d.pending[j].ref, target |-> d.pending[j].target,
                               at |-> d.pending[j].at, state |-> m.pending[j].state]
            /\ m.pending[j].state \in {"pending", "resolved", "expired"}
  BY <1>1 DEF SameShape
<1>3. key \in DOMAIN d.rows /\ key[1] = "message"
  BY DEF Tables, PendingHeld
<1>4. \A k \in DOMAIN d.rows : k[1] = "message" => IsMessageRow(d.rows[k])
  BY DEF Tables, RowsHeld
<1> HIDE DEF m
<1>5. s = [rows |-> rows, pending |-> m.pending, quarantine |-> m.quarantine,
           cursor |-> m.cursor, gaps |-> m.gaps]
  <2>1. s = Put(m, key, row)
    BY DEF m
  <2> HIDE DEF key, row
  <2>2. [m EXCEPT !.rows = rows] = [rows |-> rows, pending |-> m.pending,
                                    quarantine |-> m.quarantine, cursor |-> m.cursor,
                                    gaps |-> m.gaps]
    <3> HIDE DEF rows
    <3> QED
      BY <1>2 DEF IsRecord
  <2>3. Put(m, key, row) = [m EXCEPT !.rows = rows]
    BY <1>1 DEF Put
  <2> QED
    BY <2>1, <2>2, <2>3
<1>6. /\ row.sender = d.rows[key].sender /\ row.retracted = d.rows[key].retracted
      /\ IsMessageRow(row)
  <2>1. IsMessageRow(d.rows[key])
    BY <1>3, <1>4
  <2> DEFINE old == d.rows[key]
  <2>2. old = [sender |-> old.sender, edits |-> old.edits, retracted |-> old.retracted,
               reply |-> old.reply]
    BY <2>1 DEF IsMessageRow
  <2> HIDE DEF old
  <2>3. row = [old EXCEPT !.reply = reply]
    BY DEF old
  <2>4. row = [sender |-> old.sender, edits |-> old.edits,
               retracted |-> old.retracted, reply |-> reply]
    BY <2>2, <2>3
  <2> HIDE DEF row
  <2> QED
    BY <2>4 DEF IsMessageRow, old
<1> HIDE DEF row, key
<1>7. DOMAIN rows = DOMAIN d.rows /\ rows[key] = row
      /\ \A k \in DOMAIN d.rows : k # key => rows[k] = d.rows[k]
  BY <1>3
<1> HIDE DEF rows
<1>8. \A k \in DOMAIN d.rows : k[1] = "message" =>
          /\ IsMessageRow(rows[k])
          /\ rows[k].sender = d.rows[k].sender /\ rows[k].retracted = d.rows[k].retracted
  BY <1>4, <1>6, <1>7
<1>9. IsRecord(s) /\ s.rows = rows /\ s.pending = m.pending /\ s.cursor = d.cursor
      /\ s.quarantine = d.quarantine /\ s.gaps = d.gaps
  BY <1>1, <1>2, <1>5 DEF IsRecord
<1>10. SameShape(d, s)
  BY <1>2, <1>7, <1>8, <1>9 DEF SameShape
<1>11. Tables(s, events)
  BY <1>10, SameShapeKeepsTables
<1>12. m.pending[i].ref = d.pending[i].ref /\ m.pending[i].target = d.pending[i].target
  BY <1>1, SameShapeRefs
<1>13. ResolvedTo(d, s, x, i)
  BY <1>1, <1>2, <1>7, <1>8, <1>9, <1>12 DEF ResolvedTo
<1> QED
  BY <1>11, <1>13

\* Any other waiting event takes effect.
LEMMA EventResolved ==
    ASSUME NEW d, NEW events, Events(events), Tables(d, events), NEW x \in events,
           NEW i \in DOMAIN d.pending, d.pending[i].ref = x.id, x.type # "message.created",
           NEW now, NEW s, s = QuarantineIf(Dispatch(Marked(d, i), events, x, now), x.id)
    PROVE  Tables(s, events) /\ ResolvedTo(d, s, x, i)
<1> DEFINE m == Marked(d, i)
           r == Dispatch(m, events, x, now)
<1>1. /\ SameShape(d, m) /\ m.rows = d.rows /\ m.quarantine = d.quarantine
      /\ m.gaps = d.gaps /\ m.pending[i].state = "resolved"
      /\ \A j \in DOMAIN d.pending : j # i => m.pending[j] = d.pending[j]
  BY MarkedFacts
<1>2. m.cursor = d.cursor /\ DOMAIN m.pending = DOMAIN d.pending
      /\ m.pending[i].ref = d.pending[i].ref /\ m.pending[i].target = d.pending[i].target
  <2>1. m.cursor = d.cursor
    BY <1>1 DEF SameShape
  <2> QED
    BY <1>1, <2>1, SameShapeRefs
<1> HIDE DEF m
<1>3. Tables(m, events)
  BY <1>1, SameShapeKeepsTables
<1>4. x.id # 0
  BY EventsFacts
<1>5. Effect(m, r, events, x)
  BY <1>3, <1>4, DispatchEffect
<1>6. s = QuarantineIf(r, x.id)
  BY DEF m
<1> HIDE DEF r
<1>7. Tables(r.db, events)
  BY <1>3, <1>5, EffectKeepsTables
<1>8. /\ Tables(s, events) /\ s.rows = r.db.rows /\ s.pending = r.db.pending
      /\ s.cursor = r.db.cursor /\ s.gaps = r.db.gaps
      /\ r.db.quarantine \subseteq s.quarantine
  BY <1>6, <1>7, QuarantineFacts
<1>9. r.db.pending = m.pending
  BY <1>2, <1>5 DEF Effect, Waits
<1>10. r.db.cursor = m.cursor /\ r.db.gaps = m.gaps /\ r.db.quarantine = m.quarantine
  BY <1>5 DEF Effect
<1>11. KeepsRows(m, r, x) /\ KeepsMessages(m, r, x) /\ Hides(m, r, events, x)
  BY <1>5 DEF Effect
<1>12. Kind(x.type) = "none"
  <2>1. Kind(x.type) \in {"none", "message"}
    BY DEF Tables, PendingHeld
  <2> QED
    BY <2>1 DEF Kind
<1>13. \A k \in DOMAIN s.rows \ DOMAIN d.rows : ~IsSubject(k)
  <2> SUFFICES ASSUME NEW k \in DOMAIN s.rows \ DOMAIN d.rows, IsSubject(k) PROVE FALSE
    OBVIOUS
  <2>1. k = <<Kind(x.type), x.id>>
    BY <1>1, <1>8, <1>11 DEF KeepsRows
  <2>2. k[1] = "none"
    BY <1>12, <2>1
  <2> QED
    BY <2>2 DEF IsSubject
<1>14. DOMAIN d.rows \subseteq DOMAIN s.rows
  BY <1>1, <1>8, <1>11 DEF KeepsRows
<1>15. \A k \in DOMAIN d.rows : k[1] = "message" =>
          /\ s.rows[k].sender = d.rows[k].sender
          /\ d.rows[k].retracted # 0 => s.rows[k].retracted # 0
  BY <1>1, <1>8, <1>11, <1>14 DEF KeepsMessages
<1>16. LET key == <<"message", x.target>>
       IN  /\ x.type = "message.retracted"
           /\ key \in DOMAIN d.rows /\ d.rows[key].sender = x.sender
           => s.rows[key].retracted # 0
  BY <1>1, <1>8, <1>11 DEF Hides
<1>17. ResolvedTo(d, s, x, i)
  BY <1>1, <1>2, <1>8, <1>9, <1>10, <1>13, <1>14, <1>15, <1>16 DEF ResolvedTo
<1> QED
  BY <1>8, <1>17

\* A reference is about the target of its event.
LEMMA RefTarget ==
    ASSUME NEW d, NEW events, Events(events), Tables(d, events), NEW i \in DOMAIN d.pending
    PROVE  /\ \E x \in events : d.pending[i].ref = x.id
           /\ \A x \in events : d.pending[i].ref = x.id => d.pending[i].target = x.target
<1>1. d.pending \in Seq(Refs(events))
  BY DEF Tables, PendingHeld
<1>2. d.pending[i] \in Refs(events)
  BY <1>1
<1>3. PICK y \in events : d.pending[i].ref = y.id /\ d.pending[i].target = y.target
  BY <1>2 DEF Refs
<1>4. \A x \in events : x.id = y.id => x = y
  BY EventsFacts
<1> QED
  BY <1>3, <1>4

\* An event that creates a subject has its row.
RowThere(d, e) ==
    Kind(e.type) \in Subjects \ {"delivery"} => <<Kind(e.type), e.id>> \in DOMAIN d.rows

\* Resolving a reference of open leaves the others open.
LEMMA HeldResolved ==
    ASSUME NEW d, NEW events, Events(events), NEW done \in SUBSET events, NEW open,
           Held(d, events, done, open), NEW e \in events, RowThere(d, e),
           NEW x \in events, NEW i \in DOMAIN d.pending, d.pending[i].ref = x.id,
           d.pending[i].state = "pending", d.pending[i].target = e.id,
           NEW s, Tables(s, events), ResolvedTo(d, s, x, i)
    PROVE  Held(s, events, done, open \ {i})
<1>1. /\ Tables(d, events) /\ Settled(d, done) /\ WaitHeld(d, done, open)
      /\ HideHeld(d, events, done, open) /\ ResolvedHeld(d, events)
      /\ RefHeld(d, events, done)
  BY DEF Held
<1>2. /\ d.quarantine \subseteq s.quarantine /\ DOMAIN s.pending = DOMAIN d.pending
      /\ s.pending[i].ref = d.pending[i].ref /\ s.pending[i].target = d.pending[i].target
      /\ s.pending[i].state = "resolved"
      /\ \A j \in DOMAIN d.pending : j # i => s.pending[j] = d.pending[j]
      /\ DOMAIN d.rows \subseteq DOMAIN s.rows
      /\ \A k \in DOMAIN s.rows \ DOMAIN d.rows : ~IsSubject(k)
  BY DEF ResolvedTo
<1>3. \A j \in DOMAIN d.pending : /\ s.pending[j].ref = d.pending[j].ref
                                  /\ s.pending[j].target = d.pending[j].target
  BY <1>2
<1>4. x.target = e.id
  BY <1>1, RefTarget
<1>5. Settled(s, done)
  BY <1>1, <1>2 DEF Settled
<1>6. WaitHeld(s, done, open \ {i})
  <2> SUFFICES ASSUME NEW j \in DOMAIN s.pending \ (open \ {i}), s.pending[j].state = "pending"
               PROVE  /\ \A k \in DOMAIN s.rows : IsSubject(k) => k[2] # s.pending[j].target
                      /\ \A y \in done : y.id = s.pending[j].target =>
                            y.id \in s.quarantine \/ y.type = "delivery.scheduled"
    BY DEF WaitHeld
  <2>1. j # i /\ j \in DOMAIN d.pending \ open /\ s.pending[j] = d.pending[j]
    BY <1>2
  <2>2. /\ \A k \in DOMAIN d.rows : IsSubject(k) => k[2] # d.pending[j].target
        /\ \A y \in done : y.id = d.pending[j].target =>
              y.id \in d.quarantine \/ y.type = "delivery.scheduled"
    BY <1>1, <2>1 DEF WaitHeld
  <2> QED
    BY <1>2, <2>1, <2>2
<1>7. HideHeld(s, events, done, open \ {i})
  <2> SUFFICES ASSUME NEW r \in done, r.type = "message.retracted"
               PROVE  LET key == <<"message", r.target>>
                      IN  /\ key \in DOMAIN s.rows /\ s.rows[key].sender = r.sender =>
                                s.rows[key].retracted # 0 \/ Excused(s, r.id, open \ {i})
                          /\ key \notin DOMAIN s.rows =>
                                \/ NoMessage(events, r.target)
                                \/ \E j \in DOMAIN s.pending : s.pending[j].ref = r.id
    BY DEF HideHeld
  <2> DEFINE key == <<"message", r.target>>
  <2>1. /\ key \in DOMAIN d.rows /\ d.rows[key].sender = r.sender =>
              d.rows[key].retracted # 0 \/ Excused(d, r.id, open)
        /\ key \notin DOMAIN d.rows =>
              NoMessage(events, r.target) \/ \E j \in DOMAIN d.pending : d.pending[j].ref = r.id
    BY <1>1 DEF HideHeld
  <2>2. ASSUME key \in DOMAIN s.rows, s.rows[key].sender = r.sender
        PROVE  s.rows[key].retracted # 0 \/ Excused(s, r.id, open \ {i})
    <3>1. key \in DOMAIN d.rows /\ key[1] = "message"
      BY <1>2, <2>2 DEF IsSubject
    <3>2. /\ s.rows[key].sender = d.rows[key].sender
          /\ d.rows[key].retracted # 0 => s.rows[key].retracted # 0
      BY <3>1 DEF ResolvedTo
    <3>3. CASE d.rows[key].retracted # 0
      BY <3>2, <3>3
    <3>4. CASE Excused(d, r.id, open)
      <4>1. PICK j \in DOMAIN d.pending :
                /\ d.pending[j].ref = r.id
                /\ d.pending[j].state = "expired" \/ (j \in open /\ d.pending[j].state = "pending")
        BY <3>4 DEF Excused
      <4>2. CASE j = i
        <5>1. r = x
          BY <4>1, <4>2, EventsFacts
        <5> QED
          BY <2>2, <3>1, <3>2, <5>1 DEF ResolvedTo
      <4>3. CASE j # i
        <5>1. s.pending[j] = d.pending[j] /\ j \in DOMAIN s.pending
          BY <1>2, <4>3
        <5> QED
          BY <4>1, <4>3, <5>1 DEF Excused
      <4> QED
        BY <4>2, <4>3
    <3> QED
      BY <2>1, <2>2, <3>1, <3>2, <3>3, <3>4
  <2>3. ASSUME key \notin DOMAIN s.rows
        PROVE  \/ NoMessage(events, r.target)
               \/ \E j \in DOMAIN s.pending : s.pending[j].ref = r.id
    BY <1>2, <1>3, <2>1, <2>3
  <2> QED
    BY <2>2, <2>3
<1>8. ResolvedHeld(s, events)
  <2> SUFFICES ASSUME NEW j \in DOMAIN s.pending, NEW y \in events, s.pending[j].ref = y.id,
                      s.pending[j].state = "resolved"
               PROVE  /\ Find(events, y.target) # {}
                      /\ y.type = "message.retracted" =>
                            \/ <<"message", y.target>> \in DOMAIN s.rows
                            \/ NoMessage(events, y.target)
    BY DEF ResolvedHeld
  <2>1. CASE j = i
    <3>1. y.target = e.id /\ Find(events, y.target) # {}
      BY <1>2, <1>4, <2>1, EventsFacts DEF Find
    <3>2. CASE e.type = "message.created"
      <4>1. Kind(e.type) = "message" /\ "message" \in Subjects \ {"delivery"}
        BY <3>2 DEF Kind, Subjects
      <4>2. <<"message", e.id>> \in DOMAIN d.rows
        BY <4>1 DEF RowThere
      <4> QED
        BY <1>2, <3>1, <4>2
    <3>3. CASE e.type # "message.created"
      BY <3>1, <3>3 DEF NoMessage
    <3> QED
      BY <3>2, <3>3
  <2>2. CASE j # i
    BY <1>1, <1>2, <2>2 DEF ResolvedHeld
  <2> QED
    BY <2>1, <2>2
<1>9. RefHeld(s, events, done)
  <2> SUFFICES ASSUME NEW y \in events, IsAbout(y), Find(events, y.target) = {},
                      \/ y \in done /\ y.id \notin s.quarantine
                      \/ y.type = "message.created" /\ <<"message", y.id>> \in DOMAIN s.rows
               PROVE  HasRef(s, y.id)
    BY DEF RefHeld
  <2>1. IsSubject(<<"message", y.id>>)
    BY DEF IsSubject
  <2>2. HasRef(d, y.id)
    BY <1>1, <1>2, <2>1 DEF RefHeld
  <2> QED
    BY <1>2, <1>3, <2>2 DEF HasRef
<1> QED
  BY <1>5, <1>6, <1>7, <1>8, <1>9 DEF Held

\* Nothing is taken back: rows and refusals stay, hidden messages stay hidden, and no
\* reference expires.
Later(d, s) ==
    /\ d.quarantine \subseteq s.quarantine
    /\ DOMAIN d.rows \subseteq DOMAIN s.rows
    /\ \A k \in DOMAIN d.rows : k[1] = "message" /\ d.rows[k].retracted # 0 =>
                                    s.rows[k].retracted # 0
    /\ \A i \in DOMAIN s.pending : s.pending[i].state = "expired" =>
                                       i \in DOMAIN d.pending /\ d.pending[i].state = "expired"

\* The references to the event that are still to be resolved, after the first n.
Open(d, e, n) == {i \in DOMAIN d.pending : i > n /\ d.pending[i].target = e.id}

\* The tables d0 of an event that was just accepted, after the first n references.
Resolving(d0, d, events, done, e, n) ==
    /\ Held(d, events, done, Open(d, e, n)) /\ RowThere(d, e) /\ Later(d0, d)
    /\ DOMAIN d.pending = DOMAIN d0.pending /\ d.cursor = d0.cursor /\ d.gaps = d0.gaps

\* One reference of _resolve_pending.
LEMMA ResolveOneStep ==
    ASSUME NEW d0, NEW d, NEW events, Events(events), NEW done \in SUBSET events,
           NEW e \in events, NEW now, NEW n \in Nat, n + 1 \in DOMAIN d0.pending,
           Resolving(d0, d, events, done, e, n)
    PROVE  Resolving(d0, ResolveOne(d, events, e, now, n + 1), events, done, e, n + 1)
<1> DEFINE i == n + 1
           s == ResolveOne(d, events, e, now, i)
           p == d.pending[i]
           open == Open(d, e, n)
<1>1. /\ Held(d, events, done, open) /\ RowThere(d, e) /\ Later(d0, d)
      /\ DOMAIN d.pending = DOMAIN d0.pending /\ d.cursor = d0.cursor /\ d.gaps = d0.gaps
  BY DEF Resolving
<1>2. Tables(d, events)
  BY <1>1 DEF Held
<1>3. i \in DOMAIN d.pending
  BY <1>1
<1>4. DOMAIN d.pending \subseteq Nat
  <2>1. d.pending \in Seq(Refs(events))
    BY <1>2 DEF Tables, PendingHeld
  <2> QED
    BY <2>1
<1>5. CASE p.state # "pending" \/ p.target # e.id
  <2>1. s = d
    BY <1>5 DEF ResolveOne
  <2>2. Held(d, events, done, Open(d, e, i))
    <3>1. CASE p.target # e.id
      <4>1. Open(d, e, i) = open
        BY <1>3, <1>4, <3>1 DEF Open
      <4> QED
        BY <1>1, <4>1
    <3>2. CASE p.state # "pending"
      <4>1. \A j \in DOMAIN d.pending : d.pending[j].state = "pending" =>
                (j \in open <=> j \in Open(d, e, i))
        <5> SUFFICES ASSUME NEW j \in DOMAIN d.pending, d.pending[j].state = "pending"
                     PROVE  j > n <=> j > i
          BY DEF Open
        <5>1. j # n + 1
          BY <3>2
        <5> QED
          BY <1>4, <5>1
      <4> HIDE DEF open, p, i
      <4>2. WaitHeld(d, done, Open(d, e, i))
        BY <1>1, <4>1 DEF Held, WaitHeld
      <4>3. \A id : Excused(d, id, open) => Excused(d, id, Open(d, e, i))
        BY <4>1 DEF Excused
      <4>4. HideHeld(d, events, done, Open(d, e, i))
        BY <1>1, <4>3 DEF Held, HideHeld
      <4> QED
        BY <1>1, <4>2, <4>4 DEF Held
    <3> QED
      BY <1>5, <3>1, <3>2
  <2> QED
    BY <1>1, <2>1, <2>2 DEF Resolving
<1>6. CASE p.state = "pending" /\ p.target = e.id
  <2> DEFINE x == CHOOSE y \in events : y.id = p.ref
  <2>1. x \in events /\ p.ref = x.id
    <3>1. \E y \in events : p.ref = y.id
      BY <1>2, <1>3, RefTarget
    <3> QED
      BY <3>1
  <2>2. Tables(s, events) /\ ResolvedTo(d, s, x, i)
    <3>1. CASE x.type = "message.created"
      <4>1. s = Put(Marked(d, i), <<"message", x.id>>,
                    [d.rows[<<"message", x.id>>] EXCEPT
                       !.reply = IF x.conv = e.conv THEN "ok" ELSE "unavailable"])
        BY <1>6, <3>1 DEF ResolveOne, Marked
      <4> HIDE DEF x, s, p, i
      <4> QED
        BY <1>2, <1>3, <2>1, <3>1, <4>1, ReplyResolved DEF p
    <3>2. CASE x.type # "message.created"
      <4>1. s = QuarantineIf(Dispatch(Marked(d, i), events, x, now), x.id)
        BY <1>6, <3>2 DEF ResolveOne, Marked
      <4> HIDE DEF x, s, p, i
      <4> QED
        BY <1>2, <1>3, <2>1, <3>2, <4>1, EventResolved DEF p
    <3> QED
      BY <3>1, <3>2
  <2> HIDE DEF x, s
  <2>3. Held(s, events, done, open \ {i})
    <3> HIDE DEF open, i
    <3> QED
      BY <1>1, <1>3, <1>6, <2>1, <2>2, HeldResolved
  <2>4. DOMAIN s.pending = DOMAIN d.pending
        /\ \A j \in DOMAIN d.pending : s.pending[j].target = d.pending[j].target
    BY <2>2 DEF ResolvedTo
  <2>5. Open(s, e, i) = open \ {i}
    BY <1>4, <2>4 DEF Open
  <2>6. RowThere(s, e) /\ s.cursor = d0.cursor /\ s.gaps = d0.gaps
    BY <1>1, <2>2 DEF RowThere, ResolvedTo
  <2>7. Later(d0, s)
    <3> HIDE DEF i
    <3>1. /\ d.quarantine \subseteq s.quarantine /\ DOMAIN d.rows \subseteq DOMAIN s.rows
          /\ \A k \in DOMAIN d.rows : k[1] = "message" /\ d.rows[k].retracted # 0 =>
                                          s.rows[k].retracted # 0
      BY <2>2 DEF ResolvedTo
    <3>2. \A j \in DOMAIN s.pending : s.pending[j].state = "expired" =>
              j \in DOMAIN d.pending /\ d.pending[j].state = "expired"
      BY <2>2, <2>4 DEF ResolvedTo
    <3> QED
      BY <1>1, <3>1, <3>2 DEF Later
  <2>8. Resolving(d0, s, events, done, e, i)
    BY <1>1, <2>3, <2>4, <2>5, <2>6, <2>7 DEF Resolving
  <2> QED
    BY <2>8 DEF s
<1> QED
  BY <1>5, <1>6

\* _resolve_pending resolves every reference to the event.
LEMMA ResolvePendingHeld ==
    ASSUME NEW d, NEW events, Events(events), NEW done \in SUBSET events, NEW e \in events,
           NEW now, Resolving(d, d, events, done, e, 0)
    PROVE  LET s == ResolvePending(d, events, e, now)
           IN  /\ Held(s, events, done, {}) /\ Later(d, s)
               /\ s.cursor = d.cursor /\ s.gaps = d.gaps
<1>1. d.pending \in Seq(Refs(events))
  BY DEF Resolving, Held, Tables, PendingHeld
<1> DEFINE n == Len(d.pending)
           s == ResolvePending(d, events, e, now)
<1>2. n \in Nat /\ DOMAIN d.pending = 1..n
  BY <1>1
<1> HIDE DEF n
<1>3. PICK f : ResolvedAlong(f, n, d, events, e, now)
  BY <1>2, ResolvePendingSteps
<1>4. /\ f[0] = d /\ s = f[n]
      /\ \A i \in 1..n : f[i] = ResolveOne(f[i - 1], events, e, now, i)
  BY <1>3 DEF ResolvedAlong
<1> HIDE DEF s
<1> DEFINE S == {m \in Nat : m <= n => Resolving(d, f[m], events, done, e, m)}
<1>5. 0 \in S
  BY <1>4
<1>6. ASSUME NEW m \in Nat, m \in S PROVE m + 1 \in S
  <2> SUFFICES ASSUME m + 1 <= n PROVE Resolving(d, f[m + 1], events, done, e, m + 1)
    OBVIOUS
  <2>1. Resolving(d, f[m], events, done, e, m)
    BY <1>2, <1>6
  <2>2. m + 1 \in 1..n /\ (m + 1) - 1 = m
    BY <1>2
  <2>3. f[m + 1] = ResolveOne(f[m], events, e, now, m + 1)
    BY <1>4, <2>2
  <2>4. m + 1 \in DOMAIN d.pending
    BY <1>2, <2>2
  <2> QED
    BY <2>1, <2>3, <2>4, ResolveOneStep
<1> HIDE DEF S
<1>7. \A m \in Nat : m \in S
  BY <1>5, <1>6, NatSetInduction
<1>8. Resolving(d, s, events, done, e, n)
  BY <1>2, <1>4, <1>7 DEF S
<1>9. Open(s, e, n) = {}
  <2>1. DOMAIN s.pending = 1..n
    BY <1>2, <1>8 DEF Resolving
  <2> QED
    BY <1>2, <2>1 DEF Open
<1>10. /\ Held(s, events, done, {}) /\ Later(d, s) /\ s.cursor = d.cursor /\ s.gaps = d.gaps
  BY <1>8, <1>9 DEF Resolving
<1> QED
  BY <1>10 DEF s

(***************************************************************************)
(* Applying an event                                                       *)
(***************************************************************************)

\* A handler keeps the references, and what it adds is the event's.
LEMMA EffectKeepsRefs ==
    ASSUME NEW d, NEW events, NEW e, NEW r, Tables(d, events), Effect(d, r, events, e)
    PROVE  /\ \A i \in DOMAIN d.pending : i \in DOMAIN r.db.pending
                                          /\ r.db.pending[i] = d.pending[i]
           /\ \A i \in DOMAIN r.db.pending : i \notin DOMAIN d.pending =>
                 /\ r.db.pending[i].target = e.target /\ r.db.pending[i].state = "pending"
                 /\ \A k \in DOMAIN r.db.rows : IsSubject(k) => k[2] # e.target
                 /\ \A y \in events : y.id = e.target =>
                       Kind(y.type) \in Subjects /\ <<Kind(y.type), y.id>> \notin DOMAIN r.db.rows
<1>1. d.pending \in Seq(Refs(events))
  BY DEF Tables, PendingHeld
<1>2. CASE r.db.pending = d.pending
  BY <1>2
<1>3. CASE r.db.pending # d.pending
  <2>1. /\ r.db.pending = Append(d.pending, NewRef(e))
        /\ \A k \in DOMAIN r.db.rows : IsSubject(k) => k[2] # e.target
        /\ \A y \in events : y.id = e.target =>
              Kind(y.type) \in Subjects /\ <<Kind(y.type), y.id>> \notin DOMAIN r.db.rows
    BY <1>3 DEF Effect, Waits
  <2> DEFINE n == Len(d.pending)
             q == Append(d.pending, NewRef(e))
  <2>2. /\ n \in Nat /\ DOMAIN d.pending = 1..n /\ DOMAIN q = 1..(n + 1)
        /\ q[n + 1] = NewRef(e) /\ \A i \in 1..n : q[i] = d.pending[i]
    BY <1>1
  <2> HIDE DEF n, q
  <2>3. \A i \in 1..(n + 1) : i \in 1..n \/ i = n + 1
    BY <2>2
  <2>4. \A i \in 1..n : i \in 1..(n + 1)
    BY <2>2
  <2>5. NewRef(e).target = e.target /\ NewRef(e).state = "pending"
    BY DEF NewRef
  <2>6. r.db.pending = q
    BY <2>1 DEF q
  <2> QED
    BY <2>1, <2>2, <2>3, <2>4, <2>5, <2>6
<1> QED
  BY <1>2, <1>3

\* An accepted event is recorded; the references to it are open.
LEMMA DispatchHeld ==
    ASSUME NEW d, NEW events, Events(events), NEW done \in SUBSET events, NEW e \in events,
           NEW r, Held(d, events, done, {}), Effect(d, r, events, e), r.ok,
           /\ IsAbout(e) /\ Find(events, e.target) = {}
           /\ e.type = "message.created" => <<"message", e.id>> \notin DOMAIN d.rows
           => HasRef(r.db, e.id)
    PROVE  Resolving(r.db, r.db, events, done \cup {e}, e, 0) /\ Later(d, r.db)
<1> DEFINE s == r.db
           now == done \cup {e}
           open == Open(s, e, 0)
<1>1. /\ Tables(d, events) /\ Settled(d, done) /\ WaitHeld(d, done, {})
      /\ HideHeld(d, events, done, {}) /\ ResolvedHeld(d, events)
      /\ RefHeld(d, events, done)
  BY DEF Held
<1>2. /\ s.quarantine = d.quarantine /\ KeepsRows(d, r, e) /\ KeepsMessages(d, r, e)
      /\ Hides(d, r, events, e)
  BY DEF Effect
<1>3. Tables(s, events)
  BY <1>1, EffectKeepsTables
<1>4. /\ \A i \in DOMAIN d.pending : i \in DOMAIN s.pending /\ s.pending[i] = d.pending[i]
      /\ \A i \in DOMAIN s.pending : i \notin DOMAIN d.pending =>
            /\ s.pending[i].target = e.target /\ s.pending[i].state = "pending"
            /\ \A k \in DOMAIN s.rows : IsSubject(k) => k[2] # e.target
            /\ \A y \in events : y.id = e.target =>
                  Kind(y.type) \in Subjects /\ <<Kind(y.type), y.id>> \notin DOMAIN s.rows
  BY <1>1, EffectKeepsRefs
<1>5. /\ DOMAIN d.rows \subseteq DOMAIN s.rows
      /\ \A k \in DOMAIN s.rows \ DOMAIN d.rows : IsSubject(k) =>
            k = <<Kind(e.type), e.id>> /\ k[1] = Kind(e.type) /\ k[2] = e.id
      /\ RowThere(s, e)
  BY <1>2 DEF KeepsRows, RowThere
<1>6. \A k \in DOMAIN s.rows : k[1] = "message" /\ k \in DOMAIN d.rows =>
          /\ s.rows[k].sender = d.rows[k].sender
          /\ d.rows[k].retracted # 0 => s.rows[k].retracted # 0
  BY <1>2 DEF KeepsMessages
<1>7. DOMAIN s.pending \subseteq Nat \ {0}
  <2>1. s.pending \in Seq(Refs(events))
    BY <1>3 DEF Tables, PendingHeld
  <2> QED
    BY <2>1
<1>8. \A i \in DOMAIN s.pending : i \in open <=> s.pending[i].target = e.id
  <2>1. \A i \in DOMAIN s.pending : i > 0
    BY <1>7
  <2> QED
    BY <2>1 DEF Open
<1> HIDE DEF s, open
<1>9. Settled(s, now)
  BY <1>1, <1>2, <1>5 DEF Settled, RowThere, s
<1>10. WaitHeld(s, now, open)
  <2> SUFFICES ASSUME NEW i \in DOMAIN s.pending \ open, s.pending[i].state = "pending"
               PROVE  /\ \A k \in DOMAIN s.rows : IsSubject(k) => k[2] # s.pending[i].target
                      /\ \A y \in now : y.id = s.pending[i].target =>
                            y.id \in s.quarantine \/ y.type = "delivery.scheduled"
    BY DEF WaitHeld
  <2>1. s.pending[i].target # e.id
    BY <1>8
  <2>2. CASE i \in DOMAIN d.pending
    <3>1. s.pending[i] = d.pending[i]
      BY <1>4, <2>2
    <3>2. /\ \A k \in DOMAIN d.rows : IsSubject(k) => k[2] # d.pending[i].target
          /\ \A y \in done : y.id = d.pending[i].target =>
                y.id \in d.quarantine \/ y.type = "delivery.scheduled"
      BY <1>1, <2>2, <3>1 DEF WaitHeld
    <3> QED
      BY <1>2, <1>5, <2>1, <3>1, <3>2 DEF s
  <2>3. CASE i \notin DOMAIN d.pending
    <3>1. /\ s.pending[i].target = e.target
          /\ \A k \in DOMAIN s.rows : IsSubject(k) => k[2] # e.target
      BY <1>4, <2>3
    <3>2. ASSUME NEW y \in now, y.id = e.target
          PROVE  y.id \in s.quarantine \/ y.type = "delivery.scheduled"
      <4>1. Kind(y.type) \in Subjects /\ <<Kind(y.type), y.id>> \notin DOMAIN s.rows
        BY <1>4, <2>3, <3>2
      <4>2. y.id \in s.quarantine \/ Kind(y.type) = "delivery"
        BY <1>9, <4>1 DEF Settled
      <4> QED
        BY <4>2 DEF Kind
    <3> QED
      BY <3>1, <3>2
  <2> QED
    BY <2>2, <2>3
<1>11. HideHeld(s, events, now, open)
  <2> SUFFICES ASSUME NEW x \in now, x.type = "message.retracted"
               PROVE  LET key == <<"message", x.target>>
                      IN  /\ key \in DOMAIN s.rows /\ s.rows[key].sender = x.sender =>
                                s.rows[key].retracted # 0 \/ Excused(s, x.id, open)
                          /\ key \notin DOMAIN s.rows =>
                                \/ NoMessage(events, x.target)
                                \/ \E j \in DOMAIN s.pending : s.pending[j].ref = x.id
    BY DEF HideHeld
  <2> DEFINE key == <<"message", x.target>>
  <2>a. key[1] = "message" /\ key[2] = x.target /\ IsSubject(key)
    BY DEF IsSubject
  <2> HIDE DEF key
  <2>1. CASE x \in done
    <3>1. /\ key \in DOMAIN d.rows /\ d.rows[key].sender = x.sender =>
                d.rows[key].retracted # 0 \/ Excused(d, x.id, {})
          /\ key \notin DOMAIN d.rows =>
                NoMessage(events, x.target) \/ \E j \in DOMAIN d.pending : d.pending[j].ref = x.id
      BY <1>1, <2>1 DEF HideHeld, key
    <3>2. ASSUME key \in DOMAIN s.rows, s.rows[key].sender = x.sender
          PROVE  s.rows[key].retracted # 0 \/ Excused(s, x.id, open)
      <4>1. CASE key \in DOMAIN d.rows
        <5>1. Excused(d, x.id, {}) => Excused(s, x.id, open)
          BY <1>4 DEF Excused
        <5> QED
          BY <1>6, <2>a, <3>1, <3>2, <4>1, <5>1
      <4>2. CASE key \notin DOMAIN d.rows
        <5>1. Kind(e.type) = "message" /\ e.id = x.target
          BY <1>5, <2>a, <3>2, <4>2
        <5>2. e.type = "message.created"
          BY <5>1 DEF Kind
        <5>3. ~NoMessage(events, x.target)
          BY <5>1, <5>2, EventsFacts DEF NoMessage
        <5>4. PICK j \in DOMAIN d.pending : d.pending[j].ref = x.id
          BY <3>1, <4>2, <5>3
        <5>5. d.pending[j].target = x.target
          BY <1>1, <2>1, <5>4, RefTarget
        <5>6. d.pending[j].state # "resolved"
          BY <1>1, <2>1, <4>2, <5>3, <5>4 DEF ResolvedHeld, key
        <5>7. d.pending[j].state \in {"pending", "resolved", "expired"}
          <6>1. d.pending \in Seq(Refs(events))
            BY <1>1 DEF Tables, PendingHeld
          <6> QED
            BY <6>1 DEF Refs
        <5>8. j \in open /\ j \in DOMAIN s.pending /\ s.pending[j] = d.pending[j]
          BY <1>4, <1>8, <5>1, <5>5
        <5> QED
          BY <5>4, <5>6, <5>7, <5>8 DEF Excused
      <4> QED
        BY <4>1, <4>2
    <3>3. ASSUME key \notin DOMAIN s.rows
          PROVE  \/ NoMessage(events, x.target)
                 \/ \E j \in DOMAIN s.pending : s.pending[j].ref = x.id
      BY <1>4, <1>5, <3>1, <3>3
    <3> QED
      BY <3>2, <3>3 DEF key
  <2>2. CASE x = e
    <3>1. /\ key \in DOMAIN d.rows /\ d.rows[key].sender = e.sender => s.rows[key].retracted # 0
          /\ key \notin DOMAIN d.rows =>
                \/ \E i \in DOMAIN s.pending : s.pending[i].ref = e.id
                \/ NoMessage(events, e.target)
      BY <1>2, <2>2 DEF Hides, NoMessage, key, s
    <3>2. Kind(e.type) = "none"
      BY <2>2 DEF Kind
    <3>3. key \in DOMAIN s.rows => key \in DOMAIN d.rows
      BY <1>5, <2>a, <3>2
    <3>4. key \in DOMAIN s.rows /\ s.rows[key].sender = x.sender => s.rows[key].retracted # 0
      BY <1>6, <2>2, <2>a, <3>1, <3>3
    <3>5. key \notin DOMAIN s.rows => key \notin DOMAIN d.rows
      BY <1>5
    <3> QED
      BY <2>2, <3>1, <3>4, <3>5 DEF key
  <2> QED
    BY <2>1, <2>2
<1>12. ResolvedHeld(s, events)
  <2> SUFFICES ASSUME NEW j \in DOMAIN s.pending, NEW y \in events, s.pending[j].ref = y.id,
                      s.pending[j].state = "resolved"
               PROVE  /\ Find(events, y.target) # {}
                      /\ y.type = "message.retracted" =>
                            \/ <<"message", y.target>> \in DOMAIN s.rows
                            \/ NoMessage(events, y.target)
    BY DEF ResolvedHeld
  <2>1. j \in DOMAIN d.pending /\ d.pending[j] = s.pending[j]
    BY <1>4
  <2> QED
    BY <1>1, <1>5, <2>1 DEF ResolvedHeld
<1>a. \A id : HasRef(d, id) => HasRef(s, id)
  BY <1>4 DEF HasRef
<1>b. RefHeld(s, events, now)
  <2> SUFFICES ASSUME NEW y \in events, IsAbout(y), Find(events, y.target) = {},
                      \/ y \in now /\ y.id \notin s.quarantine
                      \/ y.type = "message.created" /\ <<"message", y.id>> \in DOMAIN s.rows
               PROVE  HasRef(s, y.id)
    BY DEF RefHeld
  <2>1. CASE y = e
    <3>1. CASE e.type = "message.created" /\ <<"message", e.id>> \in DOMAIN d.rows
      BY <1>1, <1>a, <2>1, <3>1 DEF RefHeld
    <3>2. CASE e.type = "message.created" => <<"message", e.id>> \notin DOMAIN d.rows
      BY <2>1, <3>2 DEF s
    <3> QED
      BY <3>1, <3>2
  <2>2. CASE y # e
    <3>1. IsSubject(<<"message", y.id>>) /\ <<"message", y.id>>[2] = y.id
      BY DEF IsSubject
    <3>2. y.id # e.id
      BY <2>2, EventsFacts
    <3>3. <<"message", y.id>> \in DOMAIN s.rows => <<"message", y.id>> \in DOMAIN d.rows
      BY <1>5, <3>1, <3>2
    <3>4. HasRef(d, y.id)
      BY <1>1, <1>2, <2>2, <3>3 DEF RefHeld, s
    <3> QED
      BY <1>a, <3>4
  <2> QED
    BY <2>1, <2>2
<1>13. Later(s, s)
  BY DEF Later
<1>14. Later(d, s)
  BY <1>2, <1>4, <1>5, <1>6 DEF Later, s
<1>15. Resolving(s, s, events, now, e, 0)
  BY <1>3, <1>5, <1>9, <1>10, <1>11, <1>12, <1>b, <1>13 DEF Held, Resolving, open
<1> QED
  BY <1>14, <1>15 DEF s

\* _update_seq_state puts the event behind the cursor and takes it out of the gaps.
LEMMA UpdateSeqStateFacts ==
    ASSUME NEW d, NEW events, Events(events), NEW done \in SUBSET events, NEW e \in events,
           Tables(d, events), GapsHeld(d, done), SeqHeld(d, events)
    PROVE  LET s == UpdateSeqState(d, e)
           IN  /\ Tables(s, events) /\ GapsHeld(s, done \cup {e}) /\ SeqHeld(s, events)
               /\ s.rows = d.rows /\ s.pending = d.pending /\ s.quarantine = d.quarantine
<1> DEFINE s == UpdateSeqState(d, e)
           high == d.cursor[e.sender]
           last == IF e.seq - 1 <= high + MaxSeqGap THEN e.seq - 1 ELSE high + MaxSeqGap
           new == {<<e.sender, n>> : n \in (high + 1)..last}
           moved == [d.cursor EXCEPT ![e.sender] = e.seq]
<1>1. IsRecord(d) /\ PendingHeld(d, events) /\ RowsHeld(d, events) /\ d.cursor \in [{1, 2} -> Nat]
  BY DEF Tables
<1>2. \A y \in events : y.sender \in {1, 2} /\ y.seq \in Nat \ {0}
  BY EventsFacts
<1>3. high \in Nat /\ last \in Int /\ last <= e.seq - 1 /\ MaxSeqGap \in Nat
  BY <1>1, <1>2, BoundsAssumption
<1>4. CASE e.seq > high
  <2>1. s = [rows |-> d.rows, pending |-> d.pending, quarantine |-> d.quarantine,
             cursor |-> moved, gaps |-> d.gaps \cup new]
    <3>1. s = [d EXCEPT !.cursor[e.sender] = e.seq, !.gaps = @ \cup new]
      BY <1>4 DEF UpdateSeqState
    <3> HIDE DEF s, new, moved
    <3> QED
      BY <1>1, <3>1 DEF IsRecord, moved
  <2>2. /\ moved \in [{1, 2} -> Nat] /\ moved[e.sender] = e.seq
        /\ \A a \in {1, 2} : a # e.sender => moved[a] = d.cursor[a]
    BY <1>1, <1>2
  <2>3. \A a \in {1, 2} : \A n \in Nat : <<a, n>> \in new => a = e.sender /\ n > high /\ n < e.seq
    BY <1>2, <1>3
  <2>4. IsRecord(s)
    BY <2>1 DEF IsRecord
  <2> HIDE DEF s, new, moved, last
  <2>5. Tables(s, events)
    BY <1>1, <2>1, <2>2, <2>4 DEF Tables, PendingHeld, RowsHeld
  <2>6. ASSUME NEW a \in {1, 2}, NEW n \in Nat, <<a, n>> \in d.gaps \cup new
        PROVE  n <= moved[a]
    <3>1. CASE <<a, n>> \in d.gaps
      <4>1. n <= d.cursor[a]
        BY <3>1 DEF GapsHeld
      <4> QED
        BY <1>1, <1>2, <1>3, <1>4, <2>2, <4>1
    <3>2. CASE <<a, n>> \in new
      BY <1>2, <2>2, <2>3, <3>2
    <3> QED
      BY <2>6, <3>1, <3>2
  <2>7. ASSUME NEW y \in done \cup {e}, y.id \notin d.quarantine
        PROVE  y.seq <= moved[y.sender] /\ <<y.sender, y.seq>> \notin d.gaps \cup new
    <3>1. CASE y = e
      <4>1. <<e.sender, e.seq>> \notin d.gaps
        BY <1>2, <1>3, <1>4 DEF GapsHeld
      <4>2. <<e.sender, e.seq>> \notin new
        BY <1>2, <2>3
      <4> QED
        BY <1>2, <2>2, <3>1, <4>1, <4>2
    <3>2. CASE y \in done
      <4>1. y.seq <= d.cursor[y.sender] /\ <<y.sender, y.seq>> \notin d.gaps
        BY <2>7, <3>2 DEF GapsHeld
      <4>2. y.sender \in {1, 2} /\ y.seq \in Nat
        BY <1>2, <3>2
      <4>3. <<y.sender, y.seq>> \notin new
        BY <1>3, <2>3, <4>1, <4>2
      <4> QED
        BY <1>1, <1>2, <1>3, <1>4, <2>2, <4>1, <4>2, <4>3
    <3> QED
      BY <3>1, <3>2
  <2>8. GapsHeld(s, done \cup {e})
    BY <2>1, <2>6, <2>7 DEF GapsHeld
  <2>9. ASSUME NEW g \in d.gaps \cup new
        PROVE  \E a \in {1, 2}, n \in Nat \ {0} : g = <<a, n>> /\ n <= moved[a]
    <3>1. \E a \in {1, 2}, n \in Nat \ {0} : g = <<a, n>>
      <4>1. CASE g \in d.gaps
        BY <4>1 DEF SeqHeld
      <4>2. CASE g \in new
        <5>1. PICK n \in (high + 1)..last : g = <<e.sender, n>>
          BY <4>2 DEF new
        <5>2. n \in Nat \ {0}
          BY <1>3, <5>1
        <5> QED
          BY <1>2, <5>1, <5>2
      <4> QED
        BY <4>1, <4>2
    <3>2. PICK a \in {1, 2}, n \in Nat \ {0} : g = <<a, n>>
      BY <3>1
    <3>3. n <= moved[a]
      BY <2>6, <3>2
    <3> QED
      BY <3>2, <3>3
  <2>10. ASSUME NEW a \in {1, 2} PROVE moved[a] = 0 \/ Seen(events, a, moved[a])
    <3>1. CASE a = e.sender
      BY <2>2, <3>1 DEF Seen
    <3>2. CASE a # e.sender
      BY <2>2, <3>2 DEF SeqHeld
    <3> QED
      BY <3>1, <3>2
  <2>11. ASSUME Uncapped(events), NEW a \in {1, 2}, NEW n \in Nat \ {0}, n <= moved[a]
         PROVE  <<a, n>> \in d.gaps \cup new \/ Seen(events, a, n)
    <3>1. CASE n <= d.cursor[a]
      BY <2>11, <3>1 DEF SeqHeld
    <3>2. CASE ~ (n <= d.cursor[a])
      <4>1. a = e.sender
        BY <1>1, <2>2, <2>11, <3>2
      <4>2. n > high /\ n <= e.seq
        BY <1>1, <1>2, <1>3, <2>2, <2>11, <3>2, <4>1
      <4>3. CASE n = e.seq
        BY <4>1, <4>3 DEF Seen
      <4>4. CASE n # e.seq
        <5>1. e.seq - 1 <= high + MaxSeqGap
          BY <1>2, <1>3, <2>11 DEF Uncapped
        <5>2. last = e.seq - 1
          BY <5>1 DEF last
        <5>3. n \in (high + 1)..last
          BY <1>2, <1>3, <4>2, <4>4, <5>2
        <5> QED
          BY <4>1, <5>3 DEF new
      <4> QED
        BY <4>3, <4>4
    <3> QED
      BY <3>1, <3>2
  <2>12. SeqHeld(s, events)
    BY <2>1, <2>9, <2>10, <2>11 DEF SeqHeld
  <2> QED
    BY <2>1, <2>5, <2>8, <2>12 DEF s
<1>5. CASE ~ (e.seq > high)
  <2> DEFINE rest == d.gaps \ {<<e.sender, e.seq>>}
  <2>1. s = [rows |-> d.rows, pending |-> d.pending, quarantine |-> d.quarantine,
             cursor |-> d.cursor, gaps |-> rest]
    BY <1>1, <1>5 DEF UpdateSeqState, IsRecord
  <2>2. IsRecord(s)
    BY <2>1 DEF IsRecord
  <2>3. e.seq <= d.cursor[e.sender]
    BY <1>2, <1>3, <1>5
  <2> HIDE DEF s
  <2>4. Tables(s, events)
    BY <1>1, <2>1, <2>2 DEF Tables, PendingHeld, RowsHeld
  <2>5. GapsHeld(s, done \cup {e})
    BY <2>1, <2>3 DEF GapsHeld
  <2>6. \A a \in {1, 2} : \A n \in Nat \ {0} :
            <<a, n>> \in d.gaps => <<a, n>> \in rest \/ Seen(events, a, n)
    BY DEF Seen
  <2>7. SeqHeld(s, events)
    <3> HIDE DEF rest
    <3>1. \A g \in rest : g \in d.gaps
      BY DEF rest
    <3> QED
      BY <2>1, <2>6, <3>1 DEF SeqHeld
  <2> QED
    BY <2>1, <2>4, <2>5, <2>7 DEF s
<1> QED
  BY <1>4, <1>5

\* The tables the properties of Held depend on.
LEMMA HeldOfParts ==
    ASSUME NEW d, NEW s, NEW events, NEW done, NEW open, Held(d, events, done, open),
           Tables(s, events), s.rows = d.rows, s.pending = d.pending,
           s.quarantine = d.quarantine
    PROVE  Held(s, events, done, open)
BY DEF Held, Settled, WaitHeld, HideHeld, Excused, ResolvedHeld, RefHeld, HasRef

\* Applying an event, accepted or refused, keeps the tables consistent and takes nothing back.
LEMMA ApplyConsistent ==
    ASSUME NEW d, NEW events, Events(events), NEW done \in SUBSET events, NEW e \in events,
           NEW now, Consistent(d, events, done)
    PROVE  LET s == QuarantineIf(Apply(d, events, e, now), e.id)
           IN  Consistent(s, events, done \cup {e}) /\ Later(d, s)
<1> DEFINE r == Dispatch(d, events, e, now)
           s == QuarantineIf(Apply(d, events, e, now), e.id)
<1>1. Held(d, events, done, {}) /\ GapsHeld(d, done) /\ SeqHeld(d, events) /\ Tables(d, events)
  BY DEF Consistent, Held
<1>2. e.id # 0
  BY EventsFacts
<1>3. Effect(d, r, events, e)
  BY <1>1, <1>2, DispatchEffect
<1>a. ASSUME IsAbout(e), Find(events, e.target) = {},
             e.type = "message.created" => <<"message", e.id>> \notin DOMAIN d.rows
      PROVE  HasRef(r.db, e.id)
  BY <1>1, <1>a, DispatchAwaits
<1>4. CASE r.ok
  <2> DEFINE m == ResolvePending(r.db, events, e, now)
  <2>1. s = UpdateSeqState(m, e)
    BY <1>4 DEF Apply, QuarantineIf, Done
  <2> HIDE DEF r, s
  <2>2. Resolving(r.db, r.db, events, done \cup {e}, e, 0) /\ Later(d, r.db)
    BY <1>1, <1>3, <1>a, <1>4, DispatchHeld
  <2>3. /\ Held(m, events, done \cup {e}, {}) /\ Later(r.db, m)
        /\ m.cursor = r.db.cursor /\ m.gaps = r.db.gaps
    <3> DEFINE g == r.db
               all == done \cup {e}
    <3>1. all \in SUBSET events /\ Resolving(g, g, events, all, e, 0)
      BY <2>2
    <3> HIDE DEF g, all
    <3>2. LET x == ResolvePending(g, events, e, now)
          IN  /\ Held(x, events, all, {}) /\ Later(g, x)
              /\ x.cursor = g.cursor /\ x.gaps = g.gaps
      BY <3>1, ResolvePendingHeld
    <3> QED
      BY <3>2 DEF g, all
  <2> HIDE DEF m
  <2>4. r.db.cursor = d.cursor /\ r.db.gaps = d.gaps
    BY <1>3 DEF Effect
  <2>5. Tables(m, events)
    BY <2>3 DEF Held
  <2>6. Later(d, m)
    BY <2>2, <2>3 DEF Later
  <2>7. GapsHeld(m, done) /\ SeqHeld(m, events)
    BY <1>1, <2>3, <2>4, <2>6 DEF GapsHeld, SeqHeld, Later
  <2>8. /\ Tables(s, events) /\ GapsHeld(s, done \cup {e}) /\ SeqHeld(s, events)
        /\ s.rows = m.rows /\ s.pending = m.pending /\ s.quarantine = m.quarantine
    BY <2>1, <2>5, <2>7, UpdateSeqStateFacts
  <2>9. Held(s, events, done \cup {e}, {})
    BY <2>3, <2>8, HeldOfParts
  <2>10. Later(d, s)
    BY <2>6, <2>8 DEF Later
  <2> QED
    BY <2>8, <2>9, <2>10 DEF Consistent, s
<1>5. CASE ~r.ok
  <2>1. s = QuarantineIf(r, e.id)
    BY <1>5 DEF Apply
  <2>2. r.db = d /\ Hides(d, r, events, e)
    BY <1>3, <1>5 DEF Effect
  <2> HIDE DEF r, s
  <2>3. /\ Tables(s, events) /\ s.rows = d.rows /\ s.pending = d.pending
        /\ s.cursor = d.cursor /\ s.gaps = d.gaps
        /\ d.quarantine \subseteq s.quarantine /\ e.id \in s.quarantine
    BY <1>1, <1>5, <2>1, <2>2, QuarantineFacts
  <2>4. Settled(s, done \cup {e})
    BY <1>1, <2>3 DEF Held, Settled
  <2>5. WaitHeld(s, done \cup {e}, {})
    BY <1>1, <2>3 DEF Held, WaitHeld
  <2>6. HideHeld(s, events, done \cup {e}, {})
    <3> SUFFICES ASSUME NEW x \in done \cup {e}, x.type = "message.retracted"
                 PROVE  LET key == <<"message", x.target>>
                        IN  /\ key \in DOMAIN s.rows /\ s.rows[key].sender = x.sender =>
                                  s.rows[key].retracted # 0 \/ Excused(s, x.id, {})
                            /\ key \notin DOMAIN s.rows =>
                                  \/ NoMessage(events, x.target)
                                  \/ \E j \in DOMAIN s.pending : s.pending[j].ref = x.id
      BY DEF HideHeld
    <3>1. CASE x \in done
      <4>1. Excused(d, x.id, {}) => Excused(s, x.id, {})
        BY <2>3 DEF Excused
      <4> QED
        BY <1>1, <2>3, <3>1, <4>1 DEF Held, HideHeld
    <3>2. CASE x = e
      BY <1>5, <2>2, <2>3, <3>2 DEF Hides, NoMessage
    <3> QED
      BY <3>1, <3>2
  <2>7. ResolvedHeld(s, events) /\ RefHeld(s, events, done \cup {e})
    <3>1. ResolvedHeld(s, events)
      BY <1>1, <2>3 DEF Held, ResolvedHeld
    <3>2. RefHeld(s, events, done \cup {e})
      BY <1>1, <2>3 DEF Held, RefHeld, HasRef
    <3> QED
      BY <3>1, <3>2
  <2>8. GapsHeld(s, done \cup {e}) /\ SeqHeld(s, events)
    BY <1>1, <2>3 DEF GapsHeld, SeqHeld
  <2>9. Later(d, s)
    BY <2>3 DEF Later
  <2> QED
    BY <2>3, <2>4, <2>5, <2>6, <2>7, <2>8, <2>9 DEF Consistent, Held, s
<1> QED
  BY <1>4, <1>5

(***************************************************************************)
(* Rebuilding                                                              *)
(***************************************************************************)

\* The empty tables are consistent when nothing was applied.
LEMMA EmptyConsistent ==
    ASSUME NEW events
    PROVE  Consistent(Empty, events, {})
<1>1. /\ DOMAIN Empty.rows = {} /\ Empty.pending = <<>> /\ Empty.quarantine = {}
      /\ Empty.gaps = {} /\ Empty.cursor = [s \in {1, 2} |-> 0]
  BY DEF Empty
<1>2. IsRecord(Empty)
  BY DEF Empty, IsRecord
<1>3. Empty.pending \in Seq(Refs(events)) /\ DOMAIN Empty.pending = {}
  BY <1>1
<1>4. Empty.cursor \in [{1, 2} -> Nat]
  BY <1>1
<1>5. Tables(Empty, events)
  BY <1>1, <1>2, <1>3, <1>4 DEF Tables, PendingHeld, RowsHeld
<1>6. /\ Settled(Empty, {}) /\ WaitHeld(Empty, {}, {}) /\ HideHeld(Empty, events, {}, {})
      /\ ResolvedHeld(Empty, events) /\ GapsHeld(Empty, {}) /\ SeqHeld(Empty, events)
      /\ RefHeld(Empty, events, {})
  BY <1>1, <1>3 DEF Settled, WaitHeld, HideHeld, ResolvedHeld, GapsHeld, SeqHeld, RefHeld
<1> QED
  BY <1>5, <1>6 DEF Consistent, Held

\* The log may grow, and fewer events may count as applied.
LEMMA ConsistentMore ==
    ASSUME NEW events, Events(events), NEW d, NEW old \in SUBSET events, NEW all \in SUBSET old,
           NEW done \in SUBSET all, Consistent(d, old, all)
    PROVE  Consistent(d, events, done)
<1>1. /\ IsRecord(d) /\ PendingHeld(d, old) /\ RowsHeld(d, old) /\ d.cursor \in [{1, 2} -> Nat]
      /\ Settled(d, all) /\ WaitHeld(d, all, {}) /\ HideHeld(d, old, all, {})
      /\ ResolvedHeld(d, old) /\ GapsHeld(d, all) /\ SeqHeld(d, old)
      /\ RefHeld(d, old, all)
  BY DEF Consistent, Held, Tables
<1>2. d.pending \in Seq(Refs(old))
  BY <1>1 DEF PendingHeld
<1>3. ASSUME NEW i \in DOMAIN d.pending, NEW x \in events, x.id = d.pending[i].ref
      PROVE  x \in old
  <2>1. d.pending[i] \in Refs(old)
    BY <1>2
  <2>2. PICK y \in old : y.id = d.pending[i].ref
    BY <2>1 DEF Refs
  <2> QED
    BY <1>3, <2>2, EventsFacts
<1>4. \A p \in Refs(old) : p \in Refs(events)
  BY DEF Refs
<1>5. d.pending \in Seq(Refs(events))
  BY <1>2, <1>4
<1>6. PendingHeld(d, events)
  BY <1>1, <1>3, <1>5 DEF PendingHeld
<1>7. RowsHeld(d, events)
  <2> SUFFICES ASSUME NEW k \in DOMAIN d.rows
               PROVE  /\ IsSubject(k) =>
                            /\ k = <<k[1], k[2]>>
                            /\ \E y \in events : y.id = k[2] /\ Kind(y.type) = k[1]
                      /\ k[1] = "message" =>
                            /\ IsMessageRow(d.rows[k])
                            /\ \E y \in events : y.id = k[2] /\ y.sender = d.rows[k].sender
                            /\ d.rows[k].retracted # 0 =>
                                  \E x \in events : Retracts(x, k[2], d.rows[k].sender)
    BY DEF RowsHeld
  <2> QED
    BY <1>1 DEF RowsHeld
<1>8. \A id : NoMessage(old, id) => NoMessage(events, id)
  BY DEF NoMessage
<1>9. Settled(d, done) /\ WaitHeld(d, done, {}) /\ GapsHeld(d, done)
  BY <1>1 DEF Settled, WaitHeld, GapsHeld
<1>10. HideHeld(d, events, done, {})
  BY <1>1, <1>8 DEF HideHeld
<1>a. \A id : Find(old, id) # {} => Find(events, id) # {}
  BY DEF Find
<1>11. ResolvedHeld(d, events)
  BY <1>1, <1>3, <1>8, <1>a DEF ResolvedHeld
<1>b. RefHeld(d, events, done)
  <2> SUFFICES ASSUME NEW y \in events, IsAbout(y), Find(events, y.target) = {},
                      \/ y \in done /\ y.id \notin d.quarantine
                      \/ y.type = "message.created" /\ <<"message", y.id>> \in DOMAIN d.rows
               PROVE  HasRef(d, y.id)
    BY DEF RefHeld
  <2>1. y \in old
    <3>1. CASE y \in done
      BY <3>1
    <3>2. CASE <<"message", y.id>> \in DOMAIN d.rows
      <4>1. IsSubject(<<"message", y.id>>) /\ <<"message", y.id>>[2] = y.id
        BY DEF IsSubject
      <4>2. \E x \in old : x.id = y.id
        BY <1>1, <3>2, <4>1 DEF RowsHeld
      <4> QED
        BY <4>2, EventsFacts
    <3> QED
      BY <3>1, <3>2
  <2>2. Find(old, y.target) = {}
    BY <1>a
  <2> QED
    BY <1>1, <2>1, <2>2 DEF RefHeld
<1>12. SeqHeld(d, events)
  <2>1. \A a, n : Seen(old, a, n) => Seen(events, a, n)
    BY DEF Seen
  <2>2. Uncapped(events) => Uncapped(old)
    BY DEF Uncapped
  <2> QED
    BY <1>1, <2>1, <2>2 DEF SeqHeld
<1> QED
  BY <1>1, <1>6, <1>7, <1>9, <1>10, <1>11, <1>b, <1>12 DEF Consistent, Held, Tables

NoneExpired(d) == \A i \in DOMAIN d.pending : d.pending[i].state # "expired"

\* A rebuild gives consistent tables in which every event of the log is applied and no
\* reference has expired.
LEMMA RebuiltConsistent ==
    ASSUME NEW events, Events(events), NEW times
    PROVE  Consistent(Rebuilt(events, times), events, events)
           /\ NoneExpired(Rebuilt(events, times))
<1> DEFINE n == Cardinality(events)
           q == InOrder(events)
           u == Rebuilt(events, times)
<1>1. n \in Nat
  BY EventsFacts
<1>2. /\ \E f : RebuiltAlong(f, n, Empty, q, events, times)
      /\ u = ApplyAll(Empty, q, events, times)
  BY <1>1, RebuiltSteps
<1>3. /\ \A i \in 1..n : q[i] \in events
      /\ \A e \in events : \E i \in 1..n : q[i] = e
  BY InOrderRange
<1> HIDE DEF n, q, u
<1>4. PICK f : RebuiltAlong(f, n, Empty, q, events, times)
  BY <1>2
<1>5. /\ f[0] = Empty /\ u = f[n]
      /\ \A i \in 1..n :
            f[i] = QuarantineIf(Apply(f[i - 1], events, q[i], times[q[i].id]), q[i].id)
  BY <1>2, <1>4 DEF RebuiltAlong
<1> DEFINE done(m) == {q[i] : i \in 1..m}
           S == {m \in Nat : m <= n => Consistent(f[m], events, done(m)) /\ NoneExpired(f[m])}
<1>6. 0 \in S
  <2>1. done(0) = {}
    OBVIOUS
  <2>2. NoneExpired(Empty)
    BY DEF NoneExpired, Empty
  <2>3. Consistent(Empty, events, {})
    BY EmptyConsistent
  <2> HIDE DEF done
  <2> QED
    BY <1>5, <2>1, <2>2, <2>3
<1>7. ASSUME NEW m \in Nat, m \in S PROVE m + 1 \in S
  <2> SUFFICES ASSUME m + 1 <= n
               PROVE  Consistent(f[m + 1], events, done(m + 1)) /\ NoneExpired(f[m + 1])
    OBVIOUS
  <2>1. Consistent(f[m], events, done(m)) /\ NoneExpired(f[m])
    BY <1>1, <1>7
  <2>2. m + 1 \in 1..n /\ (m + 1) - 1 = m
    BY <1>1
  <2> DEFINE e == q[m + 1]
  <2>3. f[m + 1] = QuarantineIf(Apply(f[m], events, e, times[e.id]), e.id)
    BY <1>5, <2>2
  <2>4. e \in events /\ done(m) \in SUBSET events
    BY <1>1, <1>3, <2>2
  <2>5. done(m + 1) = done(m) \cup {e}
    OBVIOUS
  <2> HIDE DEF done, e
  <2>6. Consistent(f[m + 1], events, done(m) \cup {e}) /\ Later(f[m], f[m + 1])
    <3> DEFINE g == f[m]
               all == done(m)
               now == times[e.id]
    <3>1. /\ Consistent(g, events, all) /\ all \in SUBSET events
          /\ f[m + 1] = QuarantineIf(Apply(g, events, e, now), e.id)
      BY <2>1, <2>3, <2>4
    <3> HIDE DEF g, all, now
    <3>2. Consistent(QuarantineIf(Apply(g, events, e, now), e.id), events, all \cup {e})
          /\ Later(g, QuarantineIf(Apply(g, events, e, now), e.id))
      BY <2>4, <3>1, ApplyConsistent
    <3> QED
      BY <3>1, <3>2 DEF g, all
  <2>7. NoneExpired(f[m + 1])
    BY <2>1, <2>6 DEF NoneExpired, Later
  <2> QED
    BY <2>5, <2>6, <2>7
<1>8. done(n) = events
  BY <1>3
<1> HIDE DEF S
<1>9. \A m \in Nat : m \in S
  BY <1>6, <1>7, NatSetInduction
<1>10. Consistent(u, events, events) /\ NoneExpired(u)
  <2> HIDE DEF done
  <2> QED
    BY <1>1, <1>5, <1>8, <1>9 DEF S
<1> QED
  BY <1>10 DEF u

(***************************************************************************)
(* The specification                                                       *)
(***************************************************************************)

\* Expiring references keeps the tables consistent.
LEMMA ExpireConsistent ==
    ASSUME NEW events, NEW d, NEW done, NEW s, Consistent(d, events, done), SameShape(d, s),
           s.quarantine = d.quarantine, s.gaps = d.gaps,
           \A i \in DOMAIN d.pending :
              \/ s.pending[i].state = d.pending[i].state
              \/ d.pending[i].state = "pending" /\ s.pending[i].state = "expired"
    PROVE  Consistent(s, events, done)
<1>1. /\ Tables(d, events) /\ Settled(d, done) /\ WaitHeld(d, done, {})
      /\ HideHeld(d, events, done, {}) /\ ResolvedHeld(d, events) /\ GapsHeld(d, done)
      /\ SeqHeld(d, events) /\ RefHeld(d, events, done)
  BY DEF Consistent, Held
<1>2. Tables(s, events)
  BY <1>1, SameShapeKeepsTables
<1>3. /\ DOMAIN s.pending = DOMAIN d.pending
      /\ \A i \in DOMAIN d.pending : /\ s.pending[i].ref = d.pending[i].ref
                                     /\ s.pending[i].target = d.pending[i].target
  BY SameShapeRefs
<1>4. /\ DOMAIN s.rows = DOMAIN d.rows /\ s.cursor = d.cursor
      /\ \A k \in DOMAIN d.rows : k[1] = "message" =>
            s.rows[k].sender = d.rows[k].sender /\ s.rows[k].retracted = d.rows[k].retracted
  BY DEF SameShape
<1>5. Settled(s, done) /\ GapsHeld(s, done) /\ SeqHeld(s, events)
  BY <1>1, <1>4 DEF Settled, GapsHeld, SeqHeld
<1>6. WaitHeld(s, done, {})
  BY <1>1, <1>3, <1>4 DEF WaitHeld
<1>7. \A id : Excused(d, id, {}) => Excused(s, id, {})
  BY <1>3 DEF Excused
<1>8. HideHeld(s, events, done, {})
  <2> SUFFICES ASSUME NEW x \in done, x.type = "message.retracted"
               PROVE  LET key == <<"message", x.target>>
                      IN  /\ key \in DOMAIN s.rows /\ s.rows[key].sender = x.sender =>
                                s.rows[key].retracted # 0 \/ Excused(s, x.id, {})
                          /\ key \notin DOMAIN s.rows =>
                                \/ NoMessage(events, x.target)
                                \/ \E j \in DOMAIN s.pending : s.pending[j].ref = x.id
    BY DEF HideHeld
  <2> DEFINE key == <<"message", x.target>>
  <2>1. key[1] = "message"
    OBVIOUS
  <2>2. /\ key \in DOMAIN d.rows /\ d.rows[key].sender = x.sender =>
              d.rows[key].retracted # 0 \/ Excused(d, x.id, {})
        /\ key \notin DOMAIN d.rows =>
              NoMessage(events, x.target) \/ \E j \in DOMAIN d.pending : d.pending[j].ref = x.id
    BY <1>1 DEF HideHeld
  <2> HIDE DEF key
  <2> QED
    BY <1>3, <1>4, <1>7, <2>1, <2>2 DEF key
<1>9. ResolvedHeld(s, events)
  BY <1>1, <1>3, <1>4 DEF ResolvedHeld
<1>10. RefHeld(s, events, done)
  BY <1>1, <1>3, <1>4 DEF RefHeld, HasRef
<1> QED
  BY <1>2, <1>5, <1>6, <1>8, <1>9, <1>10 DEF Consistent, Held

\* The inductive invariant of the specification.
ProjectionsInv ==
    /\ script \in Scripts /\ log \in SUBSET script /\ queue \in SUBSET log
    /\ Consistent(db, log, log \ queue)

\* expire_pending_refs.
LEMMA ExpireStep ==
    ASSUME ProjectionsInv, Expire
    PROVE  /\ Consistent(db', log, log \ queue)
           /\ DOMAIN db'.rows = DOMAIN db.rows
           /\ \A k \in DOMAIN db.rows : k[1] = "message" =>
                 db'.rows[k].retracted = db.rows[k].retracted
<1> DEFINE due == {i \in DOMAIN db.pending : db.pending[i].state = "pending"
                                             /\ db.pending[i].at + TTL < clock}
           ids == {db.pending[i].ref : i \in due}
           q == [i \in DOMAIN db.pending |-> IF i \in due
                                             THEN [db.pending[i] EXCEPT !.state = "expired"]
                                             ELSE db.pending[i]]
           rows == [k \in DOMAIN db.rows |-> IF k[1] = "message" /\ k[2] \in ids
                                             THEN [db.rows[k] EXCEPT !.reply = "unavailable"]
                                             ELSE db.rows[k]]
<1>1. /\ IsRecord(db) /\ PendingHeld(db, log) /\ RowsHeld(db, log)
      /\ Consistent(db, log, log \ queue)
  BY DEF ProjectionsInv, Consistent, Held, Tables
<1>2. db' = [db EXCEPT !.pending = q, !.rows = rows]
  BY DEF Expire
<1>3. db' = [rows |-> rows, pending |-> q, quarantine |-> db.quarantine,
             cursor |-> db.cursor, gaps |-> db.gaps]
  <2> HIDE DEF q, rows
  <2> QED
    BY <1>1, <1>2 DEF IsRecord
<1>4. \A i \in due : db.pending[i].state = "pending"
  OBVIOUS
<1>5. ASSUME NEW i \in DOMAIN db.pending
      PROVE  /\ q[i] = [ref |-> db.pending[i].ref, target |-> db.pending[i].target,
                        at |-> db.pending[i].at, state |-> q[i].state]
             /\ q[i].state \in {"pending", "resolved", "expired"}
             /\ \/ q[i].state = db.pending[i].state
                \/ db.pending[i].state = "pending" /\ q[i].state = "expired"
  <2>1. db.pending \in Seq(Refs(log))
    BY <1>1 DEF PendingHeld
  <2>2. db.pending[i] \in Refs(log)
    BY <2>1
  <2> DEFINE p == db.pending[i]
  <2> HIDE DEF p
  <2>3. /\ p = [ref |-> p.ref, target |-> p.target, at |-> p.at, state |-> p.state]
        /\ p.state \in {"pending", "resolved", "expired"}
    BY <2>2 DEF Refs, p
  <2>4. q[i] = IF i \in due THEN [p EXCEPT !.state = "expired"] ELSE p
    BY DEF p
  <2>5. i \in due => p.state = "pending"
    BY <1>4 DEF p
  <2> HIDE DEF due, q
  <2>6. CASE i \in due
    <3>1. q[i] = [ref |-> p.ref, target |-> p.target, at |-> p.at, state |-> "expired"]
      BY <2>3, <2>4, <2>6
    <3> QED
      BY <2>5, <2>6, <3>1 DEF p
  <2>7. CASE i \notin due
    BY <2>3, <2>4, <2>7 DEF p
  <2> QED
    BY <2>6, <2>7
<1>6. DOMAIN q = DOMAIN db.pending /\ q = [i \in DOMAIN db.pending |-> q[i]]
  OBVIOUS
<1>7. ASSUME NEW k \in DOMAIN db.rows, k[1] = "message"
      PROVE  /\ IsMessageRow(rows[k])
             /\ rows[k].sender = db.rows[k].sender /\ rows[k].retracted = db.rows[k].retracted
  <2>1. IsMessageRow(db.rows[k])
    BY <1>1, <1>7 DEF RowsHeld
  <2> DEFINE old == db.rows[k]
  <2>2. old = [sender |-> old.sender, edits |-> old.edits, retracted |-> old.retracted,
               reply |-> old.reply]
    BY <2>1 DEF IsMessageRow
  <2>3. rows[k] = [old EXCEPT !.reply = "unavailable"] \/ rows[k] = old
    OBVIOUS
  <2> HIDE DEF old, rows
  <2>4. CASE rows[k] = old
    BY <2>1, <2>4 DEF old
  <2>5. CASE rows[k] = [old EXCEPT !.reply = "unavailable"]
    <3>1. rows[k] = [sender |-> old.sender, edits |-> old.edits,
                     retracted |-> old.retracted, reply |-> "unavailable"]
      BY <2>2, <2>5
    <3> QED
      BY <3>1 DEF IsMessageRow, old
  <2> QED
    BY <2>3, <2>4, <2>5
<1>8. DOMAIN rows = DOMAIN db.rows
  OBVIOUS
<1> HIDE DEF q, rows
<1>9. IsRecord(db')
  BY <1>3 DEF IsRecord
<1>10. SameShape(db, db')
  BY <1>3, <1>5, <1>6, <1>7, <1>8, <1>9 DEF SameShape
<1>11. Consistent(db', log, log \ queue)
  BY <1>1, <1>3, <1>5, <1>10, ExpireConsistent
<1> QED
  BY <1>3, <1>7, <1>8, <1>11

\* The log of a run is one of a script.
LEMMA LogEvents ==
    ASSUME ProjectionsInv
    PROVE  Events(log) /\ Events(script)
BY DEF ProjectionsInv, Events

\* Recording an event leaves the tables as they are.
LEMMA RecordStep ==
    ASSUME ProjectionsInv, NEW e \in script, Record(e)
    PROVE  ProjectionsInv'
<1>1. /\ script' = script /\ log' = log \cup {e} /\ queue' = queue \cup {e} /\ db' = db
      /\ e \in script \ log
  BY DEF Record
<1>2. /\ script \in Scripts /\ log \in SUBSET script /\ queue \in SUBSET log
      /\ Consistent(db, log, log \ queue)
  BY DEF ProjectionsInv
<1> DEFINE more == log \cup {e}
           done == more \ (queue \cup {e})
<1>3. /\ more \in SUBSET script /\ log \in SUBSET more /\ done \in SUBSET (log \ queue)
      /\ log \ queue \in SUBSET log /\ Events(more)
  BY <1>1, <1>2 DEF Events
<1> HIDE DEF more, done
<1>4. Consistent(db, more, done)
  BY <1>2, <1>3, ConsistentMore
<1> QED
  BY <1>1, <1>2, <1>3, <1>4 DEF ProjectionsInv, more, done

\* Projecting an event takes nothing back.
LEMMA ProjectStep ==
    ASSUME ProjectionsInv, NEW e \in script, Project(e)
    PROVE  ProjectionsInv' /\ Later(db, db')
<1> DEFINE now == received[e.id]
           done == log \ queue
<1>1. /\ script' = script /\ log' = log /\ queue' = queue \ {e} /\ e \in queue
      /\ db' = QuarantineIf(Apply(db, log, e, now), e.id)
  BY DEF Project
<1>2. /\ script \in Scripts /\ log \in SUBSET script /\ queue \in SUBSET log
      /\ Consistent(db, log, done) /\ Events(log)
  BY LogEvents DEF ProjectionsInv
<1>3. e \in log /\ done \in SUBSET log /\ done \cup {e} = log \ (queue \ {e})
  BY <1>1, <1>2
<1> HIDE DEF now, done
<1>4. Consistent(db', log, done \cup {e}) /\ Later(db, db')
  BY <1>1, <1>2, <1>3, ApplyConsistent
<1> QED
  BY <1>1, <1>2, <1>3, <1>4 DEF ProjectionsInv

\* A rebuild applies every event of the log.
LEMMA RebuildStep ==
    ASSUME ProjectionsInv, Rebuild
    PROVE  ProjectionsInv' /\ Consistent(db', log, log) /\ NoneExpired(db')
<1>1. /\ script' = script /\ log' = log /\ queue' = queue /\ db' = Rebuilt(log, received)
  BY DEF Rebuild
<1>2. Events(log)
  BY LogEvents
<1>3. Consistent(db', log, log) /\ NoneExpired(db')
  BY <1>1, <1>2, RebuiltConsistent
<1>4. Consistent(db', log, log \ queue)
  BY <1>2, <1>3, ConsistentMore
<1> QED
  BY <1>1, <1>3, <1>4 DEF ProjectionsInv

\* The tables are consistent with the log in every state, whatever was recorded, projected,
\* expired and rebuilt before (_apply_inner, expire_pending_refs, rebuild_projections).
THEOREM TablesConsistent == Spec => []ProjectionsInv
<1>1. Init => ProjectionsInv
  <2> SUFFICES ASSUME Init PROVE ProjectionsInv
    OBVIOUS
  <2>1. script \in Scripts /\ log = {} /\ queue = {} /\ db = Empty
    BY DEF Init
  <2>2. Consistent(Empty, {}, {})
    BY EmptyConsistent
  <2>3. {} \ {} = {}
    OBVIOUS
  <2>4. Consistent(db, log, log \ queue)
    BY <2>1, <2>2, <2>3
  <2> QED
    BY <2>1, <2>4 DEF ProjectionsInv
<1>2. ProjectionsInv /\ [Next]_vars => ProjectionsInv'
  <2> SUFFICES ASSUME ProjectionsInv, [Next]_vars PROVE ProjectionsInv'
    OBVIOUS
  <2>1. CASE \E e \in script : Record(e)
    BY <2>1, RecordStep
  <2>2. CASE \E e \in script : Project(e)
    BY <2>2, ProjectStep
  <2>3. CASE Expire
    <3>1. Consistent(db', log, log \ queue)
      BY <2>3, ExpireStep
    <3>2. script' = script /\ log' = log /\ queue' = queue
      BY <2>3 DEF Expire
    <3> QED
      BY <3>1, <3>2 DEF ProjectionsInv
  <2>4. CASE Rebuild
    BY <2>4, RebuildStep
  <2>5. CASE Tick
    BY <2>5 DEF Tick, ProjectionsInv
  <2>6. CASE UNCHANGED vars
    BY <2>6 DEF vars, ProjectionsInv
  <2> QED
    BY <2>1, <2>2, <2>3, <2>4, <2>5, <2>6 DEF Next
<1> QED
  BY <1>1, <1>2, PTL DEF Spec

\* For every conversation, a reference never waits for an event that has a row or that was
\* applied and accepted (_resolve_pending against the handlers that add references).
THEOREM NeverWaitsInVain == Spec => []NothingWaitsForApplied
<1>1. ProjectionsInv => NothingWaitsForApplied
  <2> SUFFICES ASSUME ProjectionsInv PROVE NothingWaitsForApplied
    OBVIOUS
  <2>1. WaitHeld(db, log \ queue, {})
    BY DEF ProjectionsInv, Consistent, Held
  <2> QED
    BY <2>1 DEF WaitHeld, NothingWaitsForApplied
<1> QED
  BY <1>1, TablesConsistent, PTL

\* For every conversation, an applied event about one that is not in the log is not dropped:
\* it waits until it expires (_add_pending, _target_status, expire_pending_refs).
THEOREM WaitsForTheMissing == Spec => []MissingTargetIsAwaited
<1>1. ProjectionsInv => MissingTargetIsAwaited
  <2> SUFFICES ASSUME ProjectionsInv, NEW e \in log \ queue, IsAbout(e),
                      Find(log, e.target) = {}, e.id \notin db.quarantine
               PROVE  e.id \in RefIds(db, {"pending", "expired"})
    BY DEF MissingTargetIsAwaited
  <2>1. PendingHeld(db, log) /\ ResolvedHeld(db, log) /\ RefHeld(db, log, log \ queue)
    BY DEF ProjectionsInv, Consistent, Held, Tables
  <2>2. PICK i \in DOMAIN db.pending : db.pending[i].ref = e.id
    BY <2>1 DEF RefHeld, HasRef
  <2>3. db.pending[i].state # "resolved"
    BY <2>1, <2>2 DEF ResolvedHeld
  <2>4. db.pending[i].state \in {"pending", "resolved", "expired"}
    BY <2>1 DEF PendingHeld, Refs
  <2>5. db.pending[i].state \in {"pending", "expired"}
    BY <2>3, <2>4
  <2> QED
    BY <2>2, <2>5 DEF RefIds
<1> QED
  BY <1>1, TablesConsistent, PTL

\* For every conversation, what was applied and accepted is behind its sender's cursor and
\* not recorded as missing; short of the cap on gap rows, what is missing is recorded
\* (_update_seq_state).
THEOREM GapsAreExact == Spec => []GapsAreMissing
<1>1. ProjectionsInv => GapsAreMissing
  <2> SUFFICES ASSUME ProjectionsInv PROVE GapsAreMissing
    OBVIOUS
  <2>1. GapsHeld(db, log \ queue) /\ SeqHeld(db, log)
    BY DEF ProjectionsInv, Consistent
  <2>2. db.cursor \in [{1, 2} -> Nat]
    BY DEF ProjectionsInv, Consistent, Held, Tables
  <2>3. ASSUME Uncapped(log), NEW s \in {1, 2}, NEW n \in 1..db.cursor[s]
        PROVE  <<s, n>> \in db.gaps \/ \E e \in log : e.sender = s /\ e.seq = n
    <3>1. n \in Nat \ {0} /\ n <= db.cursor[s]
      BY <2>2
    <3> QED
      BY <2>1, <2>3, <3>1 DEF SeqHeld, Seen
  <2> QED
    BY <2>1, <2>3 DEF GapsHeld, GapsAreMissing
<1> QED
  BY <1>1, TablesConsistent, PTL

\* Tables in which the same events were applied, and none refused, have cursors no further
\* than each other's, and with the same cursors the same gaps.
LEMMA GapsInBoth ==
    ASSUME NEW events, Events(events), NEW d, NEW s, Consistent(d, events, events),
           Consistent(s, events, events), d.quarantine = {}, s.quarantine = {}
    PROVE  /\ \A a \in {1, 2} : d.cursor[a] <= s.cursor[a]
           /\ d.cursor = s.cursor /\ Uncapped(events) => d.gaps \subseteq s.gaps
<1>1. /\ GapsHeld(d, events) /\ SeqHeld(d, events) /\ d.cursor \in [{1, 2} -> Nat]
      /\ GapsHeld(s, events) /\ SeqHeld(s, events) /\ s.cursor \in [{1, 2} -> Nat]
  BY DEF Consistent, Held, Tables
<1>2. ASSUME NEW a \in {1, 2} PROVE d.cursor[a] <= s.cursor[a]
  <2>1. CASE d.cursor[a] = 0
    <3>1. s.cursor[a] \in Nat
      BY <1>1
    <3> QED
      BY <2>1, <3>1
  <2>2. CASE Seen(events, a, d.cursor[a])
    BY <1>1, <2>2 DEF Seen, GapsHeld
  <2> QED
    BY <1>1, <2>1, <2>2 DEF SeqHeld
<1>3. ASSUME d.cursor = s.cursor, Uncapped(events), NEW g \in d.gaps PROVE g \in s.gaps
  <2>1. PICK a \in {1, 2}, n \in Nat \ {0} : g = <<a, n>> /\ n <= d.cursor[a]
    BY <1>1 DEF SeqHeld
  <2>2. ~Seen(events, a, n)
    BY <1>1, <2>1 DEF Seen, GapsHeld
  <2> QED
    BY <1>1, <1>3, <2>1, <2>2 DEF SeqHeld
<1> QED
  BY <1>2, <1>3

\* For every conversation and every order, a rebuild of a drained queue finds the cursors of
\* the live tables and, short of the cap, their gaps (_update_seq_state, rebuild_projections).
THEOREM RebuildMisses == Spec => []RebuildMissesTheSame
<1>1. ProjectionsInv => RebuildMissesTheSame
  <2> DEFINE again == Rebuilt(log, received)
  <2> SUFFICES ASSUME ProjectionsInv, queue = {}, db.quarantine = {}, again.quarantine = {}
               PROVE  /\ db.cursor = again.cursor
                      /\ Uncapped(log) => db.gaps = again.gaps
    BY DEF RebuildMissesTheSame
  <2>1. Events(log)
    BY LogEvents
  <2>2. Consistent(db, log, log)
    <3>1. log \ queue = log
      OBVIOUS
    <3> QED
      BY <3>1 DEF ProjectionsInv
  <2>3. Consistent(again, log, log)
    BY <2>1, RebuiltConsistent
  <2>4. db.cursor \in [{1, 2} -> Nat] /\ again.cursor \in [{1, 2} -> Nat]
    BY <2>2, <2>3 DEF Consistent, Held, Tables
  <2> HIDE DEF again
  <2>5. /\ \A a \in {1, 2} : db.cursor[a] <= again.cursor[a]
        /\ db.cursor = again.cursor /\ Uncapped(log) => db.gaps \subseteq again.gaps
    BY <2>1, <2>2, <2>3, GapsInBoth
  <2>6. /\ \A a \in {1, 2} : again.cursor[a] <= db.cursor[a]
        /\ again.cursor = db.cursor /\ Uncapped(log) => again.gaps \subseteq db.gaps
    BY <2>1, <2>2, <2>3, GapsInBoth
  <2>7. \A a \in {1, 2} : db.cursor[a] = again.cursor[a]
    BY <2>4, <2>5, <2>6
  <2>8. db.cursor = again.cursor
    BY <2>4, <2>7
  <2> QED
    BY <2>5, <2>6, <2>8
<1> QED
  BY <1>1, TablesConsistent, PTL

\* A message hidden in one table is hidden or refused in another in which every event was
\* applied and none has expired.
LEMMA HiddenInBoth ==
    ASSUME NEW events, Events(events), NEW d, NEW s, NEW done, Consistent(d, events, done),
           Consistent(s, events, events), NoneExpired(s), NEW k \in Hidden(d)
    PROVE  k \in Hidden(s) \/ k[2] \in s.quarantine
<1>a. k \in DOMAIN d.rows /\ k[1] = "message" /\ d.rows[k].retracted # 0 /\ IsSubject(k)
  BY DEF Hidden, IsSubject
<1>1. /\ RowsHeld(d, events) /\ RowsHeld(s, events) /\ HideHeld(s, events, events, {})
      /\ Settled(s, events)
  BY DEF Consistent, Held, Tables
<1>2. /\ \E y \in events : y.id = k[2] /\ Kind(y.type) = k[1]
      /\ \E y \in events : y.id = k[2] /\ y.sender = d.rows[k].sender
      /\ \E r \in events : Retracts(r, k[2], d.rows[k].sender)
      /\ k = <<k[1], k[2]>>
  BY <1>1, <1>a DEF RowsHeld
<1>3. k \in DOMAIN s.rows \/ k[2] \in s.quarantine
  <2>1. PICK y \in events : y.id = k[2] /\ Kind(y.type) = k[1]
    BY <1>2
  <2>2. k[1] \in Subjects \ {"delivery"}
    BY <1>a DEF Subjects
  <2>3. y.id \in s.quarantine \/ <<Kind(y.type), y.id>> \in DOMAIN s.rows
    BY <1>1, <2>1, <2>2 DEF Settled
  <2> QED
    BY <1>2, <2>1, <2>3
<1>4. ASSUME k \in DOMAIN s.rows PROVE s.rows[k].retracted # 0
  <2>1. \E y \in events : y.id = k[2] /\ y.sender = s.rows[k].sender
    BY <1>1, <1>4, <1>a DEF RowsHeld
  <2>2. s.rows[k].sender = d.rows[k].sender
    BY <1>2, <2>1, EventsFacts
  <2>3. PICK r \in events : Retracts(r, k[2], d.rows[k].sender)
    BY <1>2
  <2>4. k = <<"message", r.target>>
    BY <1>2, <1>a, <2>3 DEF Retracts
  <2>5. r.type = "message.retracted" /\ s.rows[k].sender = r.sender
    BY <2>2, <2>3 DEF Retracts
  <2>6. s.rows[k].retracted # 0 \/ Excused(s, r.id, {})
    BY <1>1, <1>4, <2>4, <2>5 DEF HideHeld
  <2>7. ~Excused(s, r.id, {})
    BY DEF Excused, NoneExpired
  <2> QED
    BY <2>6, <2>7
<1> QED
  BY <1>3, <1>4, <1>a DEF Hidden

\* For every conversation and every order, a rebuild hides the messages that the live tables
\* hide and no other (_handle_message_retracted, _resolve_pending, rebuild_projections).
THEOREM RebuildHides == Spec => []RebuildHidesTheSame
<1>1. ProjectionsInv => RebuildHidesTheSame
  <2> DEFINE again == Rebuilt(log, received)
  <2> SUFFICES ASSUME ProjectionsInv, queue = {}, RefIds(db, {"expired"}) = {}
               PROVE  /\ \A k \in Hidden(db) : k \in Hidden(again) \/ k[2] \in again.quarantine
                      /\ \A k \in Hidden(again) : k \in Hidden(db) \/ k[2] \in db.quarantine
    BY DEF RebuildHidesTheSame
  <2>1. Events(log)
    BY LogEvents
  <2>2. Consistent(db, log, log)
    <3>1. log \ queue = log
      OBVIOUS
    <3> QED
      BY <3>1 DEF ProjectionsInv
  <2>3. NoneExpired(db)
    BY DEF RefIds, NoneExpired
  <2>4. Consistent(again, log, log) /\ NoneExpired(again)
    BY <2>1, RebuiltConsistent
  <2> HIDE DEF again
  <2>5. \A k \in Hidden(db) : k \in Hidden(again) \/ k[2] \in again.quarantine
    BY <2>1, <2>2, <2>4, HiddenInBoth
  <2>6. \A k \in Hidden(again) : k \in Hidden(db) \/ k[2] \in db.quarantine
    BY <2>1, <2>2, <2>3, <2>4, HiddenInBoth
  <2> QED
    BY <2>5, <2>6
<1> QED
  BY <1>1, TablesConsistent, PTL

\* For every conversation and every order, references wait for what is missing and for
\* nothing else, and the gaps are what is missing (_apply_inner, rebuild_projections).
THEOREM MissingTracked == Spec => []MissingIsTracked
<1>1. NothingWaitsForApplied /\ MissingTargetIsAwaited /\ GapsAreMissing => MissingIsTracked
  BY DEF MissingIsTracked
<1> QED
  BY <1>1, NeverWaitsInVain, WaitsForTheMissing, GapsAreExact, PTL

\* For every conversation and every order, a rebuild of a drained queue hides and misses
\* what the live tables hide and miss (rebuild_projections).
THEOREM RebuildKeeps == Spec => []RebuildKeepsHiddenAndMissing
<1>1. RebuildHidesTheSame /\ RebuildMissesTheSame => RebuildKeepsHiddenAndMissing
  BY DEF RebuildKeepsHiddenAndMissing
<1> QED
  BY <1>1, RebuildHides, RebuildMisses, PTL

\* For every conversation, no step shows a message again that was hidden: not an event
\* applied twice, not an expiry, not a rebuild.
THEOREM HiddenForGood == Spec => HiddenStaysHidden
<1> DEFINE Stays == \A k \in Hidden(db) : k \in Hidden(db)' \/ k[2] \in db'.quarantine
<1>1. ProjectionsInv /\ [Next]_vars => [Stays]_vars
  <2> SUFFICES ASSUME ProjectionsInv, Next PROVE Stays
    BY Zenon
  <2>1. CASE \E e \in script : Record(e)
    <3>1. db' = db
      BY <2>1 DEF Record
    <3> QED
      BY <3>1 DEF Hidden
  <2>2. CASE \E e \in script : Project(e)
    <3>1. Later(db, db')
      BY <2>2, ProjectStep
    <3> QED
      BY <3>1 DEF Later, Hidden
  <2>3. CASE Expire
    <3>1. /\ DOMAIN db'.rows = DOMAIN db.rows
          /\ \A k \in DOMAIN db.rows : k[1] = "message" =>
                db'.rows[k].retracted = db.rows[k].retracted
      BY <2>3, ExpireStep
    <3> QED
      BY <3>1 DEF Hidden
  <2>4. CASE Rebuild
    <3>1. Consistent(db', log, log) /\ NoneExpired(db')
      BY <2>4, RebuildStep
    <3>2. Consistent(db, log, log \ queue) /\ Events(log)
      BY LogEvents DEF ProjectionsInv
    <3>3. \A k \in Hidden(db) : k \in Hidden(db') \/ k[2] \in db'.quarantine
      BY <3>1, <3>2, HiddenInBoth
    <3> QED
      BY <3>3 DEF Hidden
  <2>5. CASE Tick
    <3>1. db' = db
      BY <2>5 DEF Tick
    <3> QED
      BY <3>1 DEF Hidden
  <2> QED
    BY <2>1, <2>2, <2>3, <2>4, <2>5 DEF Next
<1> QED
  BY <1>1, TablesConsistent, PTL DEF Spec, HiddenStaysHidden
=============================================================================
