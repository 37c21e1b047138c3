--------------------------- MODULE RateLimitsProofs ---------------------------
(***************************************************************************)
(* The limits hold however requests are timed, for every limit, window,    *)
(* weight, number of visitors and threshold of the sweep.                  *)
(*                                                                         *)
(* A limit is proved once, for any key.  Its Ledger says what the window   *)
(* of the key knows of what was let through: all of it since the window    *)
(* began, and that the windows before it left at most one limit to the     *)
(* moments a span shares with it.  Where a window was swept or never was,  *)
(* the ledger says the same of the present moment, so nothing is lost with *)
(* it.  A visitor's key begins at dawn, the key of everyone at moment 0.   *)
(***************************************************************************)
EXTENDS RateLimits, TLAPS

\* Totals only grow, and nothing was let through after moment n yet.
Totals(U, n) ==
  /\ U \in [Moments -> Nat]
  /\ \A s, t \in Moments : s <= t => U[s] <= U[t]
  /\ \A t \in Moments : t > n => U[t] = U[n + 1]

Window(W, k, U, from, n, w, limit) ==
  LET s == W[k].start IN
  /\ s \in from .. n /\ W[k].count = U[n + 1] - U[s]
  /\ \A t \in from .. s : s - t < w => U[s] - U[t] <= limit
  /\ s - from < w => U[s] = U[from]
  /\ ~(n - s < w) => U[n + 1] = U[n]

NoWindow(U, from, n, w, limit) ==
  /\ \A t \in from .. n : n - t < w => U[n + 1] - U[t] <= limit
  /\ n - from < w => U[n + 1] = U[from]
  /\ U[n + 1] = U[n]

Ledger(W, k, U, from, n, w, limit) ==
  IF k \in DOMAIN W THEN Window(W, k, U, from, n, w, limit) ELSE NoWindow(U, from, n, w, limit)

\* Between two moments at which a key counts, a span passes two limits at
\* most, and one at most if it begins with the key.
Spans(U, from, to, w, limit) ==
  /\ \A t, e \in from .. to : t <= e /\ e - t < w => U[e + 1] - U[t] <= 2 * limit
  /\ \A e \in from .. to : e - from < w => U[e + 1] - U[from] <= limit

Days == 0 .. MaxTime \div DAY

VisitorLedger(v) ==
  /\ Totals(counted[v], now)
  /\ Ledger(perVisitor, key(v), counted[v], dawn(now), now, route.window, route.own)
  /\ \A d \in Days : Spans(counted[v], DAY * d, DAY * d + DAY - 1, route.window, route.own)

CommonLedger ==
  /\ Totals(served, now)
  /\ Ledger(together, "all", served, 0, now, route.window, route.everyone)
  /\ Spans(served, 0, MaxTime + DAY - 1, route.window, route.everyone)

IInv == TypeOK /\ (\A v \in Visitors : VisitorLedger(v)) /\ CommonLedger

-----------------------------------------------------------------------------
(***************************************************************************)
(* Days, and what is let through now                                       *)
(***************************************************************************)
LEMMA Dawn ==
  ASSUME NEW t \in Nat
  PROVE  /\ t \div DAY \in Nat /\ dawn(t) \in Nat
         /\ dawn(t) <= t /\ t < dawn(t) + DAY
  BY RoutesAssumption DEF dawn

LEMMA DayMonotone ==
  ASSUME NEW s \in Nat, NEW t \in Nat, s <= t
  PROVE  s \div DAY <= t \div DAY
  BY RoutesAssumption

LEMMA DayOf ==
  ASSUME NEW q \in Nat
  PROVE  (DAY * (q + 1)) \div DAY = q + 1
<1>1. DAY * (q + 1) \in Nat /\ DAY * (q + 1) < DAY * (q + 1) + DAY /\ q + 1 \in Nat
  BY RoutesAssumption
<1> QED
  BY <1>1, RoutesAssumption

\* A day of the model, and where a moment is to it.
LEMMA DaySpan ==
  ASSUME NEW d \in Days
  PROVE  DAY * d \in Nat /\ DAY * d + DAY - 1 \in DAY * d .. MaxTime + DAY - 1
<1>1. MaxTime \div DAY \in Nat /\ DAY * (MaxTime \div DAY) <= MaxTime
  BY RoutesAssumption
<1>2. d \in Nat /\ d <= MaxTime \div DAY
  BY <1>1 DEF Days
<1>3. DAY * d <= DAY * (MaxTime \div DAY) /\ DAY * d \in Nat
  BY <1>1, <1>2, RoutesAssumption
<1> QED
  BY <1>1, <1>3, RoutesAssumption

LEMMA OneDay ==
  ASSUME NEW t \in Nat, NEW d \in Days
  PROVE  \/ DAY * d = dawn(t) /\ t <= DAY * d + DAY - 1
         \/ t < DAY * d
         \/ DAY * d + DAY - 1 < t
<1>1. d \in Nat /\ DAY * d \in Nat /\ DAY \in Nat \ {0}
  BY RoutesAssumption, DaySpan DEF Days
<1>2. CASE DAY * d <= t /\ t < DAY * d + DAY
  <2>1. t \div DAY = d
    BY <1>1, <1>2
  <2> QED
    BY <1>1, <1>2, <2>1 DEF dawn
<1> QED
  BY <1>1, <1>2

LEMMA NextDawn ==
  ASSUME NEW t \in Nat
  PROVE  \/ (t + 1) \div DAY = t \div DAY /\ dawn(t + 1) = dawn(t)
         \/ (t + 1) \div DAY = (t \div DAY) + 1 /\ dawn(t + 1) = t + 1
  BY RoutesAssumption DEF dawn

LEMMA Times ==
  ASSUME TypeOK
  PROVE  /\ now \in 0 .. MaxTime /\ now \in Nat /\ MaxTime \in Nat /\ DAY \in Nat \ {0}
         /\ route.window \in 1 .. DAY /\ route.window \in Nat \ {0} 
         /\ route.own \in Nat \ {0} /\ route.everyone \in Nat \ {0}
         /\ now \in Moments /\ now + 1 \in Moments
  BY RoutesAssumption DEF TypeOK, Moments

LEMMA TotalsType ==
  ASSUME NEW U, NEW n, Totals(U, n)
  PROVE  U \in [Moments -> Nat]
  BY DEF Totals

LEMMA AfterTotals ==
  ASSUME TypeOK, NEW U, Totals(U, now), NEW weight \in Nat
  PROVE  /\ Totals(after(U, weight), now)
         /\ \A t \in Moments : t <= now => after(U, weight)[t] = U[t]
         /\ \A t \in Moments : t > now => after(U, weight)[t] = U[t] + weight
<1> DEFINE V == after(U, weight)
<1>1. \A t \in Moments : V[t] = U[t] + (IF t > now THEN weight ELSE 0)
  BY DEF Totals, after
<1>2. V \in [Moments -> Nat]
  BY Times DEF Totals, after, Moments
<1>3. \A t \in Moments : U[t] \in Nat /\ t \in Nat
  BY RoutesAssumption DEF Totals, Moments
<1>4. \A s, t \in Moments : s <= t => V[s] <= V[t]
  <2> SUFFICES ASSUME NEW s \in Moments, NEW t \in Moments, s <= t PROVE V[s] <= V[t]
    OBVIOUS
  <2>1. U[s] <= U[t]
    BY DEF Totals
  <2> HIDE DEF V
  <2> QED
    BY <1>1, <1>3, <2>1, Times
<1>5. \A t \in Moments : t > now => V[t] = V[now + 1]
  <2> SUFFICES ASSUME NEW t \in Moments, t > now PROVE V[t] = V[now + 1]
    OBVIOUS
  <2>1. U[t] = U[now + 1]
    BY DEF Totals
  <2> HIDE DEF V
  <2> QED
    BY <1>1, <1>3, <2>1, Times
<1>6. \A t \in Moments : t <= now => V[t] = U[t]
  <2> HIDE DEF V
  <2> QED
    BY <1>1, <1>3, Times
<1>7. \A t \in Moments : t > now => V[t] = U[t] + weight
  <2> HIDE DEF V
  <2> QED
    BY <1>1
<1> QED
  BY <1>2, <1>4, <1>5, <1>6, <1>7 DEF Totals

-----------------------------------------------------------------------------
(***************************************************************************)
(* What RateLimiter.take does to the window of its key and to the others   *)
(***************************************************************************)
Open(W, k) == k \in DOMAIN W /\ live(W[k])

LEMMA WindowType ==
  ASSUME TypeOK, NEW W, NEW limit \in Nat, W \in Windows(DOMAIN W, limit), NEW k \in DOMAIN W
  PROVE  /\ W[k] \in [start : 0 .. now, count : 1 .. limit]
         /\ W[k].start \in 0 .. now /\ W[k].start \in Nat
         /\ W[k].count \in 1 .. limit /\ W[k].count \in Nat /\ W[k].count <= limit
<1>1. W[k] \in [start : 0 .. now, count : 1 .. limit]
  BY DEF Windows
<1> QED
  BY <1>1, Times

LEMMA TakeOpen ==
  ASSUME NEW W, NEW limit, NEW k, NEW weight, Open(W, k)
  PROVE  /\ take(W, limit, k, weight).ok <=> W[k].count + weight <= limit
         /\ take(W, limit, k, weight).ok => take(W, limit, k, weight).windows = [W EXCEPT ![k].count = @ + weight]
  BY DEF take, Open

LEMMA TakeNew ==
  ASSUME TypeOK, NEW W, NEW limit \in Nat, NEW k, NEW weight \in Nat, ~Open(W, k)
  PROVE  /\ take(W, limit, k, weight).ok <=> weight <= limit
         /\ take(W, limit, k, weight).ok =>
              take(W, limit, k, weight).windows = sweep(set(W, k, [start |-> now, count |-> weight]))
<1>1. ~(k \in DOMAIN W /\ live(W[k])) /\ 0 + weight = weight
  BY DEF Open
<1> QED
  BY <1>1 DEF take

LEMMA Refused ==
  ASSUME NEW W, NEW limit, NEW k, NEW weight, ~take(W, limit, k, weight).ok
  PROVE  take(W, limit, k, weight).windows = W
  BY DEF take

\* What a sweep leaves is what was there, without windows that have ended.
LEMMA Swept ==
  ASSUME NEW W
  PROVE  /\ DOMAIN sweep(W) \subseteq DOMAIN W
         /\ \A j \in DOMAIN sweep(W) : sweep(W)[j] = W[j]
         /\ \A j \in DOMAIN W : live(W[j]) => j \in DOMAIN sweep(W)
         /\ \A S : W \in [DOMAIN W -> S] => sweep(W) \in [DOMAIN sweep(W) -> S]
<1>1. CASE Cardinality(DOMAIN W) < SWEEP_AT
  BY <1>1 DEF sweep
<1>2. CASE ~(Cardinality(DOMAIN W) < SWEEP_AT)
  <2> DEFINE K == {j \in DOMAIN W : live(W[j])}
  <2>1. sweep(W) = [k \in K |-> W[k]]
    BY <1>2 DEF sweep
  <2> HIDE DEF K
  <2>2. K = {j \in DOMAIN W : live(W[j])}
    BY DEF K
  <2> QED
    BY <2>1, <2>2
<1> QED
  BY <1>1, <1>2

LEMMA TakeType ==
  ASSUME TypeOK, NEW W, NEW limit \in Nat, W \in Windows(DOMAIN W, limit), NEW k, NEW weight \in Nat \ {0}
  PROVE  LET after_take == take(W, limit, k, weight).windows IN
         after_take \in Windows(DOMAIN after_take, limit) /\ DOMAIN after_take \subseteq DOMAIN W \union {k}
<1> DEFINE X == take(W, limit, k, weight).windows
<1>1. CASE ~take(W, limit, k, weight).ok
  BY <1>1, Refused
<1>2. CASE take(W, limit, k, weight).ok /\ Open(W, k)
  <2>1. W[k].count + weight <= limit /\ X = [W EXCEPT ![k].count = @ + weight]
    BY <1>2, TakeOpen
  <2>2. k \in DOMAIN W
    BY <1>2 DEF Open
  <2>3. W[k] \in [start : 0 .. now, count : 1 .. limit] /\ W[k].count \in Nat /\ W[k].count >= 1
    BY <2>2, WindowType
  <2> HIDE DEF X
  <2>4. [W[k] EXCEPT !.count = @ + weight] \in [start : 0 .. now, count : 1 .. limit]
    BY <2>1, <2>3
  <2>5. X \in [DOMAIN W -> [start : 0 .. now, count : 1 .. limit]]
    BY <2>1, <2>2, <2>4 DEF Windows
  <2> QED
    BY <2>5 DEF X, Windows
<1>3. CASE take(W, limit, k, weight).ok /\ ~Open(W, k)
  <2> DEFINE Y == set(W, k, [start |-> now, count |-> weight])
             S == [start : 0 .. now, count : 1 .. limit]
  <2>1. weight <= limit /\ X = sweep(Y)
    BY <1>3, TakeNew
  <2>2. DOMAIN Y = DOMAIN W \union {k}
    BY DEF set
  <2>3. [start |-> now, count |-> weight] \in S
    BY <2>1, Times
  <2>4. Y \in [DOMAIN W \union {k} -> S]
    BY <2>3 DEF set, Windows
  <2> HIDE DEF X, Y, S
  <2>5. X \in [DOMAIN X -> S] /\ DOMAIN X \subseteq DOMAIN Y
    BY <2>1, <2>2, <2>4, Swept
  <2> QED
    BY <2>2, <2>5 DEF X, S, Windows
<1> QED
  BY <1>1, <1>2, <1>3

\* The ledger of another key is kept: a sweep removes its window only when it has ended.
LEMMA OthersLedger ==
  ASSUME TypeOK, NEW W, NEW limit \in Nat, W \in Windows(DOMAIN W, limit),
         NEW k, NEW weight \in Nat, NEW j, j # k,
         NEW U, Totals(U, now), NEW from \in 0 .. now,
         Ledger(W, j, U, from, now, route.window, limit)
  PROVE  Ledger(take(W, limit, k, weight).windows, j, U, from, now, route.window, limit)
<1> DEFINE X == take(W, limit, k, weight).windows
           w == route.window
<1>1. CASE ~take(W, limit, k, weight).ok
  BY <1>1, Refused
<1>2. CASE take(W, limit, k, weight).ok /\ Open(W, k)
  <2>1. W[k].count + weight <= limit /\ X = [W EXCEPT ![k].count = @ + weight]
    BY <1>2 DEF take, Open
  <2>2. (j \in DOMAIN X <=> j \in DOMAIN W) /\ (j \in DOMAIN W => X[j] = W[j])
    BY <2>1
  <2> QED
    BY <2>2 DEF Ledger, Window
<1>3. CASE take(W, limit, k, weight).ok /\ ~Open(W, k)
  <2> DEFINE Y == set(W, k, [start |-> now, count |-> weight])
  <2>1. X = sweep(Y)
    BY <1>3, TakeNew
  <2>2. (j \in DOMAIN Y <=> j \in DOMAIN W) /\ (j \in DOMAIN W => Y[j] = W[j])
    BY DEF set
  <2> HIDE DEF Y
  <2>3. CASE j \in DOMAIN X
    <3>1. j \in DOMAIN W /\ X[j] = W[j]
      BY <2>1, <2>2, <2>3, Swept
    <3> QED
      BY <2>3, <3>1 DEF Ledger, Window
  <2>4. CASE j \notin DOMAIN W
    <3>1. j \notin DOMAIN X
      BY <2>1, <2>2, <2>4, Swept
    <3> QED
      BY <2>4, <3>1 DEF Ledger
  <2>5. CASE j \in DOMAIN W /\ j \notin DOMAIN X
    <3>1. ~(now - W[j].start < w)
      BY <2>1, <2>2, <2>5, Swept DEF live
    <3>2. W[j].start \in from .. now /\ W[j].count = U[now + 1] - U[W[j].start]
      BY <2>5 DEF Ledger, Window
    <3>3. W[j].count <= limit /\ W[j].count \in Nat
      BY <2>5, WindowType
    <3> DEFINE s == W[j].start
    <3>4. s \in Nat /\ s + w <= now
      BY <3>1, <3>2, Times
    <3>5. \A t \in from .. now : now - t < w => U[now + 1] - U[t] <= limit
      <4> SUFFICES ASSUME NEW t \in from .. now, now - t < w PROVE U[now + 1] - U[t] <= limit
        OBVIOUS
      <4>1. s \in Moments /\ t \in Moments /\ s <= t
        BY <3>2, <3>4, Times DEF Moments
      <4>2. U[s] <= U[t] /\ U[s] \in Nat /\ U[t] \in Nat /\ U[now + 1] \in Nat
        BY <4>1, Times DEF Totals
      <4> HIDE DEF s
      <4>3. W[j].count = U[now + 1] - U[s]
        BY <3>2 DEF s
      <4> QED
        BY <3>3, <4>2, <4>3
    <3>6. ~(now - from < w)
      BY <3>2, <3>4, Times
    <3>7. U[now + 1] = U[now]
      BY <2>5, <3>1 DEF Ledger, Window
    <3> QED
      BY <2>5, <3>5, <3>6, <3>7 DEF Ledger, NoWindow
  <2> QED
    BY <2>3, <2>4, <2>5
<1> QED
  BY <1>1, <1>2, <1>3

\* The ledger of the key itself, and its window, after what it let through.
LEMMA TookLedger ==
  ASSUME TypeOK, NEW W, NEW limit \in Nat, W \in Windows(DOMAIN W, limit),
         NEW k, NEW weight \in Nat,
         NEW U, Totals(U, now), NEW from \in 0 .. now,
         Ledger(W, k, U, from, now, route.window, limit),
         take(W, limit, k, weight).ok
  PROVE  LET X == take(W, limit, k, weight).windows IN
         /\ Ledger(X, k, after(U, weight), from, now, route.window, limit)
         /\ k \in DOMAIN X /\ X[k].count <= limit
<1> DEFINE X == take(W, limit, k, weight).windows
           w == route.window
           V == after(U, weight)
<1>1. /\ Totals(V, now)
      /\ \A t \in Moments : t <= now => V[t] = U[t]
      /\ \A t \in Moments : t > now => V[t] = U[t] + weight
  BY AfterTotals
<1> HIDE DEF V
<1>2. \A t \in from .. now : t \in Moments /\ t \in Nat /\ V[t] = U[t] /\ U[t] \in Nat
  BY <1>1, Times DEF Moments, Totals
<1>3. V[now + 1] = U[now + 1] + weight /\ U[now + 1] \in Nat
  BY <1>1, Times DEF Totals
<1>4. CASE Open(W, k)
  <2>1. W[k].count + weight <= limit /\ X = [W EXCEPT ![k].count = @ + weight]
    BY <1>4, TakeOpen
  <2>2. k \in DOMAIN W /\ k \in DOMAIN X
    BY <1>4, <2>1 DEF Open
  <2>3. W[k] \in [start : 0 .. now, count : 1 .. limit] /\ W[k].count \in Nat
    BY <2>2, WindowType
  <2>4. X[k].start = W[k].start /\ X[k].count = W[k].count + weight
    BY <2>1, <2>2, <2>3
  <2>5. Window(W, k, U, from, now, w, limit)
    BY <2>2 DEF Ledger
  <2> HIDE DEF X
  <2>6. Window(X, k, V, from, now, w, limit)
    <3> DEFINE s == W[k].start
    <3>1. /\ s \in from .. now /\ W[k].count = U[now + 1] - U[s]
          /\ \A t \in from .. s : s - t < w => U[s] - U[t] <= limit
          /\ s - from < w => U[s] = U[from]
      BY <2>5 DEF Window
    <3>2. X[k].start = s
      BY <2>4
    <3> HIDE DEF s
    <3>3. X[k].count = V[now + 1] - V[s]
      BY <1>2, <1>3, <2>4, <3>1
    <3>4. \A t \in from .. s : t \in from .. now
      BY <3>1, Times
    <3>5. from \in from .. now
      BY Times
    <3>6. now - s < w
      BY <1>4 DEF Open, live, s
    <3> QED
      BY <1>2, <3>1, <3>2, <3>3, <3>4, <3>5, <3>6 DEF Window
  <2> QED
    BY <2>1, <2>2, <2>4, <2>6 DEF Ledger, X, V
<1>5. CASE ~Open(W, k)
  <2> DEFINE Y == set(W, k, [start |-> now, count |-> weight])
  <2>1. weight <= limit /\ X = sweep(Y)
    BY <1>5, TakeNew
  <2>2. k \in DOMAIN Y /\ Y[k] = [start |-> now, count |-> weight]
    BY DEF set
  <2>3. live(Y[k])
    BY <2>2, Times DEF live
  <2>4. k \in DOMAIN X /\ X[k].start = now /\ X[k].count = weight
    BY <2>1, <2>2, <2>3, Swept
  <2> HIDE DEF X, Y
  <2>5. V[now] = U[now] /\ V[from] = U[from] /\ U[now] \in Nat /\ U[from] \in Nat
    BY <1>2, Times
  <2>6. U[now + 1] = U[now]
    <3>1. CASE k \in DOMAIN W
      BY <1>5, <3>1 DEF Open, live, Ledger, Window
    <3>2. CASE k \notin DOMAIN W
      BY <3>2 DEF Ledger, NoWindow
    <3> QED
      BY <3>1, <3>2
  <2>7. /\ \A t \in from .. now : now - t < w => U[now] - U[t] <= limit
        /\ now - from < w => U[now] = U[from]
    <3>1. CASE k \notin DOMAIN W
      BY <2>6, <3>1 DEF Ledger, NoWindow
    <3>2. CASE k \in DOMAIN W
      <4> DEFINE s == W[k].start
      <4>1. s \in from .. now /\ W[k].count = U[now + 1] - U[s] /\ s + w <= now
        BY <1>5, <3>2, Times DEF Open, live, Ledger, Window
      <4>2. W[k].count <= limit /\ W[k].count \in Nat
        BY <3>2, WindowType
      <4> HIDE DEF s
      <4>3. ASSUME NEW t \in from .. now, now - t < w
            PROVE  U[now] - U[t] <= limit
        <5>1. s \in Moments /\ t \in Moments /\ s <= t
          BY <4>1, <4>3, Times DEF Moments
        <5>2. U[s] <= U[t] /\ U[s] \in Nat /\ U[t] \in Nat
          BY <5>1 DEF Totals
        <5> QED
          BY <2>5, <2>6, <4>1, <4>2, <5>2
      <4>4. ~(now - from < w)
        BY <4>1, Times
      <4> QED
        BY <4>3, <4>4
    <3> QED
      BY <3>1, <3>2
  <2>8. Window(X, k, V, from, now, w, limit)
    <3>1. now \in from .. now /\ X[k].count = V[now + 1] - V[now]
      BY <1>3, <2>4, <2>5, <2>6, Times
    <3>2. \A t \in from .. now : now - t < w => V[now] - V[t] <= limit
      BY <1>2, <2>5, <2>7
    <3>3. now - now < w
      BY Times
    <3> QED
      BY <2>4, <2>5, <2>7, <3>1, <3>2, <3>3 DEF Window
  <2> QED
    BY <2>1, <2>4, <2>8 DEF Ledger, X, V
<1> QED
  BY <1>4, <1>5

-----------------------------------------------------------------------------
(***************************************************************************)
(* What spans pass                                                         *)
(***************************************************************************)
\* From the ledger after a request: the spans it counts in keep their bound.
LEMMA TookSpans ==
  ASSUME TypeOK, NEW limit \in Nat, NEW weight \in Nat,
         NEW U, Totals(U, now), NEW from \in 0 .. now, NEW to \in now .. MaxTime + DAY - 1,
         Spans(U, from, to, route.window, limit),
         NEW X, NEW k \in DOMAIN X, X[k].count <= limit,
         Ledger(X, k, after(U, weight), from, now, route.window, limit)
  PROVE  Spans(after(U, weight), from, to, route.window, limit)
<1> DEFINE w == route.window
           V == after(U, weight)
           s == X[k].start
<1>1. /\ Totals(V, now)
      /\ \A t \in Moments : t <= now => V[t] = U[t]
      /\ \A t \in Moments : t > now => V[t] = U[t] + weight
  BY AfterTotals
<1>2. /\ s \in from .. now /\ X[k].count = V[now + 1] - V[s]
      /\ \A t \in from .. s : s - t < w => V[s] - V[t] <= limit
      /\ s - from < w => V[s] = V[from]
  BY DEF Ledger, Window
<1>3. V[now + 1] - V[s] <= limit
  BY <1>2
<1> HIDE DEF V, s
<1>4. \A t \in from .. to : t \in Moments /\ t + 1 \in Moments /\ t \in Nat
  BY Times DEF Moments
<1>5. \A t \in Moments : U[t] \in Nat /\ V[t] \in Nat /\ t \in Nat
  <2>1. U \in [Moments -> Nat] /\ V \in [Moments -> Nat]
    BY <1>1, TotalsType
  <2>2. \A t \in Moments : U[t] \in Nat /\ V[t] \in Nat
    BY <2>1
  <2>3. \A t \in Moments : t \in Nat
    BY Times DEF Moments
  <2> QED
    BY <2>2, <2>3
<1>6. s \in from .. to /\ s \in Nat /\ from \in from .. to /\ now \in from .. to
  BY <1>2, Times
<1>7. ASSUME NEW t \in from .. to, NEW e \in from .. to, t <= e, e - t < w
      PROVE  V[e + 1] - V[t] <= 2 * limit
  <2>1. U[e + 1] - U[t] <= 2 * limit
    BY <1>7 DEF Spans
  <2>2. CASE e < now
    BY <1>1, <1>4, <1>5, <1>7, <2>1, <2>2, Times
  <2>3. CASE t > now
    <3>1. V[e + 1] = U[e + 1] + weight /\ V[t] = U[t] + weight
      BY <1>1, <1>4, <1>7, <2>3, Times
    <3> QED
      BY <1>4, <1>5, <2>1, <3>1
  <2>4. CASE t <= now /\ now <= e
    <3>1. V[e + 1] = V[now + 1]
      BY <1>1, <1>4, <2>4, Times DEF Totals
    <3>2. CASE s <= t
      <4>1. V[s] <= V[t]
        BY <1>1, <1>4, <1>6, <3>2 DEF Totals
      <4> QED
        BY <1>3, <1>4, <1>5, <1>6, <3>1, <4>1, Times
    <3>3. CASE t < s
      <4>1. V[s] - V[t] <= limit
        BY <1>2, <1>4, <1>6, <1>7, <2>4, <3>3, Times
      <4> QED
        BY <1>3, <1>4, <1>5, <1>6, <3>1, <4>1, Times
    <3> QED
      BY <1>4, <1>6, <3>2, <3>3
  <2> QED
    BY <1>4, <2>2, <2>3, <2>4, Times
<1>8. ASSUME NEW e \in from .. to, e - from < w
      PROVE  V[e + 1] - V[from] <= limit
  <2>1. U[e + 1] - U[from] <= limit
    BY <1>8 DEF Spans
  <2>2. CASE e < now
    BY <1>1, <1>4, <1>5, <1>6, <2>1, <2>2, Times
  <2>3. CASE now <= e
    <3>1. V[e + 1] = V[now + 1]
      BY <1>1, <1>4, <2>3, Times DEF Totals
    <3>2. V[s] = V[from]
      BY <1>2, <1>4, <1>8, <2>3, Times
    <3> QED
      BY <1>3, <3>1, <3>2
  <2> QED
    BY <1>4, <2>2, <2>3, Times
<1> QED
  BY <1>7, <1>8 DEF Spans, V

\* Spans of another day are what they were.
LEMMA OtherSpans ==
  ASSUME TypeOK, NEW limit \in Nat, NEW weight \in Nat,
         NEW U, Totals(U, now), NEW from \in Nat, NEW to \in from .. MaxTime + DAY - 1,
         to < now \/ now < from,
         Spans(U, from, to, route.window, limit)
  PROVE  Spans(after(U, weight), from, to, route.window, limit)
<1> DEFINE w == route.window
           V == after(U, weight)
<1>1. /\ \A t \in Moments : t <= now => V[t] = U[t]
      /\ \A t \in Moments : t > now => V[t] = U[t] + weight
  BY AfterTotals
<1> HIDE DEF V
<1>2. \A t \in from .. to : t \in Moments /\ t + 1 \in Moments /\ t \in Nat
  BY Times DEF Moments
<1>3. \A t \in Moments : U[t] \in Nat
  BY DEF Totals
<1>4. \A t, e \in from .. to : t <= e => V[e + 1] - V[t] = U[e + 1] - U[t]
  <2> SUFFICES ASSUME NEW t \in from .. to, NEW e \in from .. to, t <= e
               PROVE  V[e + 1] - V[t] = U[e + 1] - U[t]
    OBVIOUS
  <2>1. CASE to < now
    BY <1>1, <1>2, <2>1, Times
  <2>2. CASE now < from
    <3>1. V[e + 1] = U[e + 1] + weight /\ V[t] = U[t] + weight
      BY <1>1, <1>2, <2>2, Times
    <3> QED
      BY <1>2, <1>3, <3>1
  <2> QED
    BY <2>1, <2>2
<1>5. from \in from .. to /\ \A e \in from .. to : from <= e
  BY Times
<1> QED
  BY <1>4, <1>5 DEF Spans, V

\* A moment later nothing more was let through, and the key's ledger holds of it.
LEMMA LaterLedger ==
  ASSUME TypeOK, NEW W, NEW limit \in Nat, NEW k,
         NEW U, Totals(U, now), NEW from \in 0 .. now, now < MaxTime,
         Ledger(W, k, U, from, now, route.window, limit)
  PROVE  Totals(U, now + 1) /\ Ledger(W, k, U, from, now + 1, route.window, limit)
<1> DEFINE w == route.window
<1>1. now + 1 \in Moments /\ now + 2 \in Moments /\ now + 1 + 1 = now + 2 /\ now + 2 > now
  BY Times DEF Moments
<1>2. U[now + 2] = U[now + 1]
  BY <1>1 DEF Totals
<1>3. Totals(U, now + 1)
  <2>1. \A t \in Moments : t > now + 1 => t > now
    BY Times DEF Moments
  <2> QED
    BY <1>1, <1>2, <2>1 DEF Totals
<1>4. CASE k \in DOMAIN W
  <2>1. Window(W, k, U, from, now, w, limit)
    BY <1>4 DEF Ledger
  <2>2. W[k].start \in from .. now + 1
    BY <2>1, Times DEF Window
  <2>3. Window(W, k, U, from, now + 1, w, limit)
    BY <1>1, <1>2, <2>1, <2>2 DEF Window
  <2> QED
    BY <1>3, <1>4, <2>3 DEF Ledger
<1>5. CASE k \notin DOMAIN W
  <2>1. NoWindow(U, from, now, w, limit)
    BY <1>5 DEF Ledger
  <2>2. ASSUME NEW t \in from .. now + 1, now + 1 - t < w
        PROVE  U[now + 2] - U[t] <= limit
    <3>1. CASE t <= now
      BY <1>2, <2>1, <2>2, <3>1, Times DEF NoWindow
    <3>2. CASE t = now + 1
      BY <1>1, <1>2, <3>2 DEF Totals
    <3> QED
      BY <3>1, <3>2, Times
  <2>3. now + 1 - from < w => now - from < w
    BY Times
  <2>4. U[now + 1 + 1] = U[now + 2] /\ U[now + 1] = U[now + 1 + 1]
    BY <1>1, <1>2
  <2> DEFINE m == now + 1
  <2>5. m - from < w => U[m + 1] = U[from]
    <3>1. now - from < w => U[now + 1] = U[from]
      BY <2>1 DEF NoWindow
    <3> QED
      BY <2>3, <2>4, <3>1, Times
  <2>6. \A t \in from .. m : m - t < w => U[m + 1] - U[t] <= limit
    <3> SUFFICES ASSUME NEW t \in from .. m, m - t < w PROVE U[m + 1] - U[t] <= limit
      OBVIOUS
    <3>1. U[now + 2] - U[t] <= limit
      BY <2>2, Times
    <3>2. U[m + 1] = U[now + 2]
      BY <2>4
    <3> QED
      BY <3>1, <3>2
  <2>7. U[m + 1] = U[m]
    BY <2>4, Zenon
  <2> HIDE DEF m
  <2>8. NoWindow(U, from, m, w, limit)
    BY <2>5, <2>6, <2>7 DEF NoWindow
  <2> QED
    BY <1>3, <1>5, <2>8 DEF Ledger, m
<1> QED
  BY <1>4, <1>5

-----------------------------------------------------------------------------
(***************************************************************************)
(* The steps                                                               *)
(***************************************************************************)
LEMMA InitIInv == Init => IInv
<1> SUFFICES ASSUME Init PROVE IInv
  OBVIOUS
<1>1. TypeOK
  BY RoutesAssumption DEF Init, TypeOK, Windows
<1>2. /\ now = 0 /\ DOMAIN perVisitor = {} /\ DOMAIN together = {}
      /\ served = [t \in Moments |-> 0] /\ \A v \in Visitors : counted[v] = [t \in Moments |-> 0]
  BY DEF Init
<1> DEFINE U == [t \in Moments |-> 0]
<1>3. /\ U \in [Moments -> Nat] /\ \A t \in Moments : U[t] = 0
      /\ 0 \in Moments /\ 1 \in Moments /\ 0 + 1 = 1
  BY RoutesAssumption DEF Moments
<1> HIDE DEF U
<1>4. Totals(U, 0)
  BY <1>3 DEF Totals
<1>5. ASSUME NEW limit \in Nat, NEW w \in Nat
      PROVE  /\ NoWindow(U, 0, 0, w, limit)
             /\ \A from \in Nat, to \in 0 .. MaxTime + DAY - 1 : Spans(U, from, to, w, limit)
  <2>1. NoWindow(U, 0, 0, w, limit)
    BY <1>3, <1>5 DEF NoWindow
  <2>2. ASSUME NEW from \in Nat, NEW to \in 0 .. MaxTime + DAY - 1
        PROVE  Spans(U, from, to, w, limit)
    <3>1. \A t \in from .. to : t \in Moments /\ t + 1 \in Moments
      BY RoutesAssumption DEF Moments
    <3>2. from .. to # {} => from \in from .. to
      BY <2>2
    <3> QED
      BY <1>3, <1>5, <3>1, <3>2 DEF Spans
  <2> QED
    BY <2>1, <2>2
<1>6. dawn(0) = 0
  BY RoutesAssumption DEF dawn
<1>7. \A d \in Days : DAY * d \in Nat /\ DAY * d + DAY - 1 \in 0 .. MaxTime + DAY - 1
  BY DaySpan
<1>8. ASSUME NEW v \in Visitors PROVE VisitorLedger(v)
  BY <1>1, <1>2, <1>4, <1>5, <1>6, <1>7, <1>8, Times DEF VisitorLedger, Ledger, U
<1>9. MaxTime + DAY - 1 \in 0 .. MaxTime + DAY - 1
  BY RoutesAssumption
<1>10. CommonLedger
  BY <1>1, <1>2, <1>4, <1>5, <1>9, Times DEF CommonLedger, Ledger, U
<1> QED
  BY <1>1, <1>8, <1>10 DEF IInv

\* A request takes from the limits of its visitor and, if it fits, of everyone.
LEMMA RequestStep ==
  ASSUME IInv, NEW v \in Visitors, NEW weight \in Weights, request(v, weight)
  PROVE  IInv'
<1> DEFINE own == take(perVisitor, route.own, key(v), weight)
           all == take(together, route.everyone, "all", weight)
<1>1. TypeOK /\ weight \in Nat \ {0} /\ now' = now /\ route' = route
  BY RoutesAssumption DEF IInv, request
<1>2. /\ perVisitor' = own.windows
      /\ together' = IF own.ok THEN all.windows ELSE together
      /\ counted' = IF own.ok THEN [counted EXCEPT ![v] = after(@, weight)] ELSE counted
      /\ served' = IF own.ok /\ all.ok THEN after(served, weight) ELSE served
  BY DEF request
<1>3. /\ perVisitor \in Windows(DOMAIN perVisitor, route.own)
      /\ together \in Windows(DOMAIN together, route.everyone)
      /\ DOMAIN perVisitor \subseteq (0 .. now \div DAY) \X Visitors
      /\ DOMAIN together \subseteq {"all"}
      /\ counted \in [Visitors -> [Moments -> Nat]] /\ served \in [Moments -> Nat]
  BY <1>1 DEF TypeOK
<1> HIDE DEF own, all
<1>4. \A u \in Visitors : counted'[u] = IF own.ok /\ u = v THEN after(counted[u], weight) ELSE counted[u]
  BY <1>2, <1>3
<1>5. TypeOK'
  <2>1. /\ perVisitor' \in Windows(DOMAIN perVisitor', route.own)
        /\ DOMAIN perVisitor' \subseteq DOMAIN perVisitor \union {key(v)}
    BY <1>1, <1>2, <1>3, Times, TakeType DEF own
  <2>2. key(v) \in (0 .. now \div DAY) \X Visitors
    BY <1>1, Times, Dawn DEF key
  <2>3. /\ together' \in Windows(DOMAIN together', route.everyone)
        /\ DOMAIN together' \subseteq {"all"}
    BY <1>1, <1>2, <1>3, Times, TakeType DEF all
  <2>4. \A U \in [Moments -> Nat] : after(U, weight) \in [Moments -> Nat]
    BY <1>1, Times DEF after, Moments
  <2>5. counted' \in [Visitors -> [Moments -> Nat]] /\ served' \in [Moments -> Nat]
    BY <1>2, <1>3, <2>4
  <2> QED
    BY <1>1, <1>3, <2>1, <2>2, <2>3, <2>5 DEF TypeOK, Windows
<1>6. ASSUME NEW u \in Visitors PROVE VisitorLedger(u)'
  <2>1. /\ Totals(counted[u], now)
        /\ Ledger(perVisitor, key(u), counted[u], dawn(now), now, route.window, route.own)
        /\ \A d \in Days : Spans(counted[u], DAY * d, DAY * d + DAY - 1, route.window, route.own)
    BY DEF IInv, VisitorLedger
  <2>2. dawn(now) \in 0 .. now
    BY <1>1, Times, Dawn
  <2>3. CASE u # v \/ ~own.ok
    <3>1. counted'[u] = counted[u]
      BY <1>4, <2>3
    <3>2. Ledger(own.windows, key(u), counted[u], dawn(now), now, route.window, route.own)
      <4>1. CASE ~own.ok
        BY <2>1, <4>1, Refused DEF own
      <4>2. CASE u # v
        <5>1. key(u) # key(v)
          BY <4>2 DEF key
        <5> QED
          BY <1>1, <1>3, <2>1, <2>2, <5>1, Times, OthersLedger DEF own
      <4> QED
        BY <2>3, <4>1, <4>2
    <3> QED
      BY <1>1, <1>2, <2>1, <3>1, <3>2 DEF VisitorLedger, key, dawn
  <2>4. CASE u = v /\ own.ok
    <3>1. counted'[u] = after(counted[u], weight)
      BY <1>4, <2>4
    <3>2. /\ Ledger(own.windows, key(u), after(counted[u], weight), dawn(now), now, route.window, route.own)
          /\ key(u) \in DOMAIN own.windows /\ own.windows[key(u)].count <= route.own
      BY <1>1, <1>3, <2>1, <2>2, <2>4, Times, TookLedger DEF own
    <3>3. Totals(after(counted[u], weight), now)
      BY <1>1, <2>1, AfterTotals
    <3>4. ASSUME NEW d \in Days
          PROVE  Spans(after(counted[u], weight), DAY * d, DAY * d + DAY - 1, route.window, route.own)
      <4>1. /\ Spans(counted[u], DAY * d, DAY * d + DAY - 1, route.window, route.own)
            /\ DAY * d \in Nat /\ DAY * d + DAY - 1 \in DAY * d .. MaxTime + DAY - 1
        BY <2>1, DaySpan
      <4>2. \/ DAY * d = dawn(now) /\ now <= DAY * d + DAY - 1
            \/ now < DAY * d
            \/ DAY * d + DAY - 1 < now
        BY <1>1, Times, OneDay
      <4>3. CASE DAY * d = dawn(now) /\ now <= DAY * d + DAY - 1
        <5> DEFINE from == DAY * d  to == DAY * d + DAY - 1
        <5>1. from \in 0 .. now /\ to \in now .. MaxTime + DAY - 1
          BY <2>2, <4>1, <4>3
        <5>2. Ledger(own.windows, key(u), after(counted[u], weight), from, now, route.window, route.own)
          BY <3>2, <4>3
        <5>3. Spans(counted[u], from, to, route.window, route.own)
          BY <4>1
        <5> HIDE DEF from, to
        <5>4. Spans(after(counted[u], weight), from, to, route.window, route.own)
          BY <1>1, <2>1, <3>2, <5>1, <5>2, <5>3, Times, TookSpans
        <5> QED
          BY <5>4 DEF from, to
      <4>4. CASE now < DAY * d \/ DAY * d + DAY - 1 < now
        <5> DEFINE from == DAY * d  to == DAY * d + DAY - 1
        <5>1. from \in Nat /\ to \in from .. MaxTime + DAY - 1 /\ (to < now \/ now < from)
          BY <4>1, <4>4
        <5>2. Spans(counted[u], from, to, route.window, route.own)
          BY <4>1
        <5> HIDE DEF from, to
        <5>3. Spans(after(counted[u], weight), from, to, route.window, route.own)
          BY <1>1, <2>1, <5>1, <5>2, Times, OtherSpans
        <5> QED
          BY <5>3 DEF from, to
      <4> QED
        BY <4>2, <4>3, <4>4
    <3> QED
      BY <1>1, <1>2, <3>1, <3>2, <3>3, <3>4 DEF VisitorLedger, key, dawn
  <2> QED
    BY <2>3, <2>4
<1>7. CommonLedger'
  <2>1. /\ Totals(served, now)
        /\ Ledger(together, "all", served, 0, now, route.window, route.everyone)
        /\ Spans(served, 0, MaxTime + DAY - 1, route.window, route.everyone)
    BY DEF IInv, CommonLedger
  <2>2. CASE ~own.ok \/ ~all.ok
    <3>1. together' = together
      BY <1>2, <2>2, Refused DEF all
    <3>2. served' = served
      BY <1>2, <2>2
    <3> QED
      BY <1>1, <2>1, <3>1, <3>2 DEF CommonLedger
  <2>3. CASE own.ok /\ all.ok
    <3>1. together' = all.windows /\ served' = after(served, weight)
      BY <1>2, <2>3
    <3>2. 0 \in 0 .. now /\ MaxTime + DAY - 1 \in now .. MaxTime + DAY - 1
      BY <1>1, Times
    <3>3. /\ Ledger(all.windows, "all", after(served, weight), 0, now, route.window, route.everyone)
          /\ "all" \in DOMAIN all.windows /\ all.windows["all"].count <= route.everyone
      BY <1>1, <1>3, <2>1, <2>3, <3>2, Times, TookLedger DEF all
    <3>4. Totals(after(served, weight), now)
      BY <1>1, <2>1, AfterTotals
    <3>5. Spans(after(served, weight), 0, MaxTime + DAY - 1, route.window, route.everyone)
      BY <1>1, <2>1, <3>2, <3>3, Times, TookSpans
    <3> QED
      BY <1>1, <3>1, <3>3, <3>4, <3>5 DEF CommonLedger
  <2> QED
    BY <2>2, <2>3
<1> QED
  BY <1>5, <1>6, <1>7 DEF IInv

\* Time passes: at midnight every visitor's key is a new one.
LEMMA TickStep ==
  ASSUME IInv, Tick
  PROVE  IInv'
<1>1. TypeOK /\ now < MaxTime /\ now' = now + 1 /\ UNCHANGED <<route, perVisitor, together, counted, served>>
  BY DEF IInv, Tick
<1>2. now \div DAY <= now' \div DAY /\ now \div DAY \in Nat /\ now' \div DAY \in Nat
  BY <1>1, Times, Dawn, DayMonotone
<1>3. TypeOK'
  <2>1. 0 .. now \subseteq 0 .. now' /\ 0 .. now \div DAY \subseteq 0 .. now' \div DAY /\ now' \in 0 .. MaxTime
    BY <1>1, <1>2, Times
  <2>2. ASSUME NEW keys, NEW limit
        PROVE  Windows(keys, limit) \subseteq Windows(keys, limit)'
    BY <1>1, <2>1 DEF Windows
  <2> QED
    BY <1>1, <2>1, <2>2 DEF TypeOK, Windows
<1>4. ASSUME NEW v \in Visitors PROVE VisitorLedger(v)'
  <2>1. /\ Totals(counted[v], now)
        /\ Ledger(perVisitor, key(v), counted[v], dawn(now), now, route.window, route.own)
        /\ \A d \in Days : Spans(counted[v], DAY * d, DAY * d + DAY - 1, route.window, route.own)
    BY DEF IInv, VisitorLedger
  <2>2. dawn(now) \in 0 .. now
    BY <1>1, Times, Dawn
  <2>3. Totals(counted[v], now + 1) /\ Ledger(perVisitor, key(v), counted[v], dawn(now), now + 1, route.window, route.own)
    BY <1>1, <2>1, <2>2, Times, LaterLedger
  <2>4. Ledger(perVisitor, key(v)', counted[v], dawn(now + 1), now + 1, route.window, route.own)
    <3>1. CASE (now + 1) \div DAY = now \div DAY /\ dawn(now + 1) = dawn(now)
      BY <1>1, <2>3, <3>1 DEF key
    <3>2. CASE (now + 1) \div DAY = (now \div DAY) + 1 /\ dawn(now + 1) = now + 1
      <4>1. key(v)' \notin DOMAIN perVisitor
        BY <1>1, <1>2, <3>2 DEF TypeOK, key
      <4>2. NoWindow(counted[v], now + 1, now + 1, route.window, route.own)
        <5>1. now + 1 \in Moments /\ now + 1 + 1 \in Moments /\ now + 1 + 1 > now
          BY <1>1, Times DEF Moments
        <5>2. counted[v][now + 1 + 1] = counted[v][now + 1] /\ counted[v][now + 1] \in Nat
          BY <2>1, <5>1 DEF Totals
        <5> QED
          BY <1>1, <5>2, Times DEF NoWindow
      <4> QED
        BY <3>2, <4>1, <4>2 DEF Ledger
    <3> QED
      BY <1>1, <3>1, <3>2, NextDawn, Times
  <2> QED
    BY <1>1, <2>1, <2>3, <2>4 DEF VisitorLedger, dawn
<1>5. CommonLedger'
  <2>1. /\ Totals(served, now)
        /\ Ledger(together, "all", served, 0, now, route.window, route.everyone)
        /\ Spans(served, 0, MaxTime + DAY - 1, route.window, route.everyone)
    BY DEF IInv, CommonLedger
  <2>2. 0 \in 0 .. now
    BY <1>1, Times
  <2>3. Totals(served, now + 1) /\ Ledger(together, "all", served, 0, now + 1, route.window, route.everyone)
    BY <1>1, <2>1, <2>2, Times, LaterLedger
  <2> QED
    BY <1>1, <2>1, <2>3 DEF CommonLedger
<1> QED
  BY <1>3, <1>4, <1>5 DEF IInv

\* Whatever is requested when, the ledgers hold.
THEOREM AlwaysLedgers == Spec => []IInv
<1>1. IInv /\ [Next]_vars => IInv'
  <2> SUFFICES ASSUME IInv, [Next]_vars PROVE IInv'
    OBVIOUS
  <2>1. CASE Tick
    BY <2>1, TickStep
  <2>2. ASSUME NEW v \in Visitors, NEW weight \in Weights, request(v, weight)
        PROVE  IInv'
    BY <2>2, RequestStep
  <2>3. CASE UNCHANGED vars
    BY <2>3 DEF vars, IInv, TypeOK, Windows, VisitorLedger, CommonLedger, key, dawn
  <2> QED
    BY <2>1, <2>2, <2>3 DEF Next
<1> QED
  BY InitIInv, <1>1, PTL DEF Spec

-----------------------------------------------------------------------------
(***************************************************************************)
(* What the ledgers say of spans and of refusals                           *)
(***************************************************************************)
LEMMA VisitorSpans == IInv => VisitorBounded
<1> SUFFICES ASSUME IInv, NEW v \in Visitors, NEW t \in 0 .. MaxTime
             PROVE  LET e == t + route.window - 1 IN
                    Passed(counted[v], t, e) <= route.own * (IF SameDay(t, e) THEN 2 ELSE 3)
  BY DEF VisitorBounded
<1> DEFINE e == t + route.window - 1
           U == counted[v]
<1>1. TypeOK /\ Totals(U, now)
      /\ \A d \in Days : Spans(U, DAY * d, DAY * d + DAY - 1, route.window, route.own)
  BY DEF IInv, VisitorLedger
<1>2. t \in Nat /\ e \in Nat /\ t <= e /\ e - t < route.window /\ e < t + DAY
  BY <1>1, Times
<1>3. t \div DAY \in Days /\ dawn(t) \in Nat /\ dawn(t) <= t /\ t <= dawn(t) + DAY - 1 /\ dawn(t) + DAY - 1 <= MaxTime + DAY - 1
  <2>1. t \in Nat /\ t <= MaxTime /\ MaxTime \in Nat /\ DAY \in Nat \ {0}
    BY <1>1, Times
  <2>2. t \div DAY \in Nat /\ t \div DAY <= MaxTime \div DAY /\ MaxTime \div DAY \in Nat
    BY <2>1, Dawn, DayMonotone
  <2>3. dawn(t) \in Nat /\ dawn(t) <= t /\ t < dawn(t) + DAY
    BY <2>1, Dawn
  <2>4. dawn(t) <= MaxTime
    BY <2>1, <2>3
  <2> QED
    BY <2>1, <2>2, <2>3, <2>4 DEF Days
<1>4. Spans(U, dawn(t), dawn(t) + DAY - 1, route.window, route.own)
  BY <1>1, <1>3 DEF dawn
<1>5. \A m \in Moments : U[m] \in Nat
  BY <1>1 DEF Totals
<1> HIDE DEF e, U
<1>6. e + 1 \in Moments /\ t \in Moments
  BY <1>1, <1>2, Times DEF e, Moments
<1>7. CASE SameDay(t, e)
  <2>1. e <= dawn(t) + DAY - 1
    BY <1>1, <1>2, <1>7, Times, Dawn DEF SameDay, dawn
  <2>2. U[e + 1] - U[t] <= 2 * route.own
    BY <1>2, <1>3, <1>4, <2>1, Times DEF Spans
  <2> QED
    BY <1>1, <1>5, <1>6, <1>7, <2>2, Times DEF Passed, e, U
<1>8. CASE ~SameDay(t, e)
  <2> DEFINE m == dawn(t) + DAY
  <2>1. m \in Nat /\ t <= m - 1 /\ m - 1 \in Nat /\ m - 1 + 1 = m /\ m \in Moments
    BY <1>1, <1>3, Times DEF Moments
  <2>2. m <= e
    <3>1. CASE e < m
      <4>1. e \div DAY = t \div DAY
        BY <1>1, <1>2, <1>3, <3>1, Times DEF dawn
      <4> QED
        BY <1>8, <4>1 DEF SameDay
    <3> QED
      BY <1>2, <2>1, <3>1
  <2>3. m = DAY * ((t \div DAY) + 1) /\ m + DAY - 1 \in Nat /\ e <= m + DAY - 1
    <3>1. t \div DAY \in Nat /\ DAY \in Nat \ {0} /\ m = DAY * (t \div DAY) + DAY
      BY <1>1, <1>2, Times, Dawn DEF dawn
    <3>2. \A q \in Nat : DAY * (q + 1) = DAY * q + DAY
      BY <3>1
    <3>3. m = DAY * ((t \div DAY) + 1)
      BY <3>1, <3>2
    <3> HIDE DEF m, e
    <3>4. m + DAY - 1 \in Nat
      BY <2>1, <3>1
    <3>5. t < m
      BY <1>2, <2>1
    <3>6. e <= m + DAY - 1
      BY <1>2, <2>1, <3>1, <3>5
    <3> QED
      BY <3>3, <3>4, <3>6
  <2> HIDE DEF m
  <2>4. U[m] - U[t] <= 2 * route.own
    <3>1. m - 1 \in dawn(t) .. dawn(t) + DAY - 1 /\ t \in dawn(t) .. dawn(t) + DAY - 1
      BY <1>1, <1>2, <1>3, Times DEF m
    <3>2. m - 1 - t < route.window
      BY <1>1, <1>2, <2>1, <2>2, Times
    <3> QED
      BY <1>4, <2>1, <3>1, <3>2 DEF Spans
  <2>5. U[e + 1] - U[m] <= route.own
    <3>1. CASE (t \div DAY) + 1 \in Days
      <4>1. Spans(U, m, m + DAY - 1, route.window, route.own)
        BY <1>1, <2>3, <3>1
      <4>2. e \in m .. m + DAY - 1 /\ e - m < route.window
        BY <1>1, <1>2, <2>1, <2>2, <2>3, Times
      <4> QED
        BY <4>1, <4>2 DEF Spans
    <3>2. CASE (t \div DAY) + 1 \notin Days
      <4>1. m > now
        <5>1. CASE m <= MaxTime
          <6>1. m \div DAY = (t \div DAY) + 1
            BY <1>2, <2>3, Dawn, DayOf
          <6>2. m \div DAY <= MaxTime \div DAY
            BY <1>1, <2>1, <5>1, Times, DayMonotone
          <6> QED
            BY <1>2, <2>1, <3>2, <6>1, <6>2, Times, Dawn DEF Days
        <5> QED
          BY <1>1, <2>1, <5>1, Times
      <4>2. U[m] = U[now + 1] /\ U[e + 1] = U[now + 1]
        BY <1>1, <1>2, <1>6, <2>1, <2>2, <4>1, Times DEF Totals
      <4> QED
        BY <1>1, <1>5, <2>1, <4>2, Times
    <3> QED
      BY <3>1, <3>2
  <2>6. U[e + 1] - U[t] <= 3 * route.own
    <3>1. \A a, b, c, n \in Nat : b - a <= 2 * n /\ c - b <= n => c - a <= 3 * n
      OBVIOUS
    <3> QED
      BY <1>1, <1>5, <1>6, <2>1, <2>4, <2>5, <3>1, Times
  <2> QED
    BY <1>1, <1>5, <1>6, <1>8, <2>6, Times DEF Passed, e, U
<1> QED
  BY <1>7, <1>8

\* However requests are timed, no visitor and not everyone together passes
\* more than its limit allows in any span, over midnight and sweeps too.
THEOREM AlwaysLimitsHold == Spec => []LimitsHold
<1>1. IInv => LimitsHold
  <2> SUFFICES ASSUME IInv PROVE LimitsHold
    OBVIOUS
  <2>1. TypeOK
    BY DEF IInv
  <2>2. DailyLimitHolds
    <3> SUFFICES ASSUME route.window = DAY, NEW v \in Visitors, NEW t \in 0 .. MaxTime
                 PROVE  Passed(counted[v], dawn(t), dawn(t) + DAY - 1) <= route.own
      BY DEF DailyLimitHolds
    <3>1. t \div DAY \in Days /\ dawn(t) \in Nat
      BY <2>1, Times, Dawn, DayMonotone DEF Days
    <3>2. Spans(counted[v], dawn(t), dawn(t) + DAY - 1, route.window, route.own)
      BY <3>1 DEF IInv, VisitorLedger, dawn
    <3> DEFINE e == dawn(t) + DAY - 1
    <3>3. e \in dawn(t) .. e /\ e - dawn(t) < route.window
      BY <2>1, <3>1, Times
    <3>4. Spans(counted[v], dawn(t), e, route.window, route.own)
      BY <3>2
    <3> HIDE DEF e
    <3>5. counted[v][e + 1] - counted[v][dawn(t)] <= route.own
      BY <3>3, <3>4 DEF Spans
    <3> QED
      BY <3>5 DEF Passed, e
  <2>3. EveryoneBounded
    <3> SUFFICES ASSUME NEW t \in 0 .. MaxTime
                 PROVE  Passed(served, t, t + route.window - 1) <= 2 * route.everyone
      BY DEF EveryoneBounded
    <3>1. Spans(served, 0, MaxTime + DAY - 1, route.window, route.everyone)
      BY DEF IInv, CommonLedger
    <3> DEFINE e == t + route.window - 1
    <3>2. e \in 0 .. MaxTime + DAY - 1 /\ t \in 0 .. MaxTime + DAY - 1 /\ t <= e /\ e - t < route.window
      BY <2>1, Times
    <3> HIDE DEF e
    <3>3. served[e + 1] - served[t] <= 2 * route.everyone
      BY <3>1, <3>2 DEF Spans
    <3> QED
      BY <3>3 DEF Passed, e
  <2> QED
    BY <2>1, <2>2, <2>3, VisitorSpans DEF LimitsHold
<1> QED
  BY <1>1, AlwaysLedgers, PTL

\* A limit refuses what would pass it within the last window, and no more.
LEMMA RefusedRecent ==
  ASSUME TypeOK, NEW W, NEW limit \in Nat, W \in Windows(DOMAIN W, limit), NEW k, NEW weight \in Nat,
         NEW U, Totals(U, now), NEW from \in 0 .. now,
         Ledger(W, k, U, from, now, route.window, limit),
         ~take(W, limit, k, weight).ok
  PROVE  Passed(U, Recent, now) + weight > limit
<1>1. Recent \in 0 .. now /\ Recent \in Moments /\ \A s \in 0 .. now : now - s < route.window => Recent <= s
  BY Times DEF Recent, Moments
<1>2. U[Recent] \in Nat /\ U[now + 1] \in Nat /\ U[Recent] <= U[now + 1]
  BY <1>1, Times DEF Totals
<1>3. CASE Open(W, k)
  <2>1. ~(W[k].count + weight <= limit)
    BY <1>3, TakeOpen
  <2>2. W[k].start \in 0 .. now /\ W[k].count = U[now + 1] - U[W[k].start] /\ now - W[k].start < route.window
    BY <1>3, Times DEF Open, live, Ledger, Window
  <2>3. W[k].start \in Moments /\ Recent <= W[k].start
    BY <1>1, <2>2, Times DEF Moments
  <2>4. U[Recent] <= U[W[k].start] /\ U[W[k].start] \in Nat
    BY <1>1, <2>3 DEF Totals
  <2> QED
    BY <1>2, <2>1, <2>2, <2>4 DEF Passed
<1>4. CASE ~Open(W, k)
  <2>1. ~(weight <= limit)
    BY <1>4, TakeNew
  <2> QED
    BY <1>2, <2>1 DEF Passed
<1> QED
  BY <1>3, <1>4

\* Nobody is refused for what others did, or for what was refused.
THEOREM AlwaysRefusedForOwn == Spec => []RefusedForOwn
<1>1. IInv => RefusedForOwn
  <2> SUFFICES ASSUME IInv, NEW v \in Visitors, NEW weight \in Weights
               PROVE  /\ ~take(perVisitor, route.own, key(v), weight).ok =>
                           Passed(counted[v], Recent, now) + weight > route.own
                      /\ ~take(together, route.everyone, "all", weight).ok =>
                           Passed(served, Recent, now) + weight > route.everyone
    BY DEF RefusedForOwn
  <2>1. /\ TypeOK /\ weight \in Nat
        /\ perVisitor \in Windows(DOMAIN perVisitor, route.own)
        /\ together \in Windows(DOMAIN together, route.everyone)
    BY RoutesAssumption DEF IInv, TypeOK
  <2>2. dawn(now) \in 0 .. now /\ 0 \in 0 .. now
    BY <2>1, Times, Dawn
  <2>3. /\ Totals(counted[v], now)
        /\ Ledger(perVisitor, key(v), counted[v], dawn(now), now, route.window, route.own)
    BY DEF IInv, VisitorLedger
  <2>4. /\ Totals(served, now)
        /\ Ledger(together, "all", served, 0, now, route.window, route.everyone)
    BY DEF IInv, CommonLedger
  <2> QED
    BY <2>1, <2>2, <2>3, <2>4, Times, RefusedRecent
<1> QED
  BY <1>1, AlwaysLedgers, PTL
=============================================================================
