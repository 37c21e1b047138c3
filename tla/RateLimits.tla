------------------------------ MODULE RateLimits ------------------------------
(***************************************************************************)
(* The relayer's limits in time (server/rate-limit.ts): a route takes from *)
(* a limit of its visitor, then from one for everyone together, as         *)
(* /api/rpc does with the calls of a batch and createAccount and faucet    *)
(* with a day's budget.  Windows start with their first request, and a     *)
(* visitor's key is another one every UTC day.                             *)
(***************************************************************************)
EXTENDS Integers, FiniteSets

CONSTANTS
  Visitors,
  Weights,     \* the calls of a request
  Routes,      \* [own, everyone, window]: a route's two limits and their window
  DAY,
  SWEEP_AT,    \* windows kept before the ended ones are removed (10_000)
  MaxTime      \* bound: the last moment

ASSUME RoutesAssumption ==
  /\ Routes \subseteq [own : Nat \ {0}, everyone : Nat \ {0}, window : 1 .. DAY]
  /\ Weights \subseteq Nat \ {0} /\ {DAY, SWEEP_AT} \subseteq Nat \ {0} /\ MaxTime \in Nat

VARIABLES
  now,
  route,       \* the route this is about: it keeps its limits
  perVisitor,  \* RateLimiter.windows of the limit of each visitor, by key
  together,    \* and of the limit for everyone
  \* history, read by properties only
  counted,     \* counted[v][t]: what visitor v was let through to the second limit before t
  served       \* served[t]: what everyone was let through before t

vars == <<now, route, perVisitor, together, counted, served>>

\* VisitorKeys.key: an HMAC under a secret that lives for a UTC day.
key(v) == <<now \div DAY, v>>

live(window) == now - window.start < route.window

\* Mutant: every window goes.
sweep_all(W) == IF Cardinality(DOMAIN W) < SWEEP_AT THEN W ELSE [k \in {} |-> W[k]]

sweep(W) == IF Cardinality(DOMAIN W) < SWEEP_AT THEN W ELSE [k \in {j \in DOMAIN W : live(W[j])} |-> W[k]]

set(W, k, window) == [j \in DOMAIN W \union {k} |-> IF j = k THEN window ELSE W[j]]

\* RateLimiter.take: whether it fits, and the windows after it.
take(W, limit, k, weight) ==
  LET open == k \in DOMAIN W /\ live(W[k])
      fits == (IF open THEN W[k].count ELSE 0) + weight <= limit
  IN [ok |-> fits,
      windows |-> IF ~fits THEN W
                  ELSE IF open THEN [W EXCEPT ![k].count = @ + weight]
                  ELSE sweep(set(W, k, [start |-> now, count |-> weight]))]

\* What was let through now counts at every later moment.
after(U, weight) == [t \in DOMAIN U |-> U[t] + (IF t > now THEN weight ELSE 0)]

\* Mutant: the limit of everyone is asked although the visitor's refused.
request_unordered(v, weight) ==
  LET own == take(perVisitor, route.own, key(v), weight)
      all == take(together, route.everyone, "all", weight)
  IN /\ perVisitor' = own.windows
     /\ together' = all.windows
     /\ counted' = IF own.ok THEN [counted EXCEPT ![v] = after(@, weight)] ELSE counted
     /\ served' = IF own.ok /\ all.ok THEN after(served, weight) ELSE served
     /\ UNCHANGED <<now, route>>

\* A request: the visitor's limit, and only then everyone's. What the second
\* refuses stays taken from the first.
request(v, weight) ==
  LET own == take(perVisitor, route.own, key(v), weight)
      all == take(together, route.everyone, "all", weight)
  IN /\ perVisitor' = own.windows
     /\ together' = IF own.ok THEN all.windows ELSE together
     /\ counted' = IF own.ok THEN [counted EXCEPT ![v] = after(@, weight)] ELSE counted
     /\ served' = IF own.ok /\ all.ok THEN after(served, weight) ELSE served
     /\ UNCHANGED <<now, route>>

Tick == now < MaxTime /\ now' = now + 1 /\ UNCHANGED <<route, perVisitor, together, counted, served>>

Moments == 0 .. MaxTime + DAY

Init ==
  /\ now = 0
  /\ route \in Routes
  /\ perVisitor = [k \in {} |-> 0] /\ together = [k \in {} |-> 0]
  /\ counted = [v \in Visitors |-> [t \in Moments |-> 0]]
  /\ served = [t \in Moments |-> 0]

Next == Tick \/ \E v \in Visitors, weight \in Weights : request(v, weight)

Spec == Init /\ [][Next]_vars

-----------------------------------------------------------------------------
(***************************************************************************)
(* What the limits promise                                                 *)
(***************************************************************************)
Windows(keys, limit) == [keys -> [start : 0 .. now, count : 1 .. limit]]

\* The windows of both limits keep their type, and no window counts more than
\* its limit.
TypeOK ==
  /\ now \in 0 .. MaxTime /\ route \in Routes
  /\ DOMAIN perVisitor \subseteq (0 .. now \div DAY) \X Visitors
  /\ DOMAIN together \subseteq {"all"}
  /\ perVisitor \in Windows(DOMAIN perVisitor, route.own)
  /\ together \in Windows(DOMAIN together, route.everyone)
  /\ counted \in [Visitors -> [Moments -> Nat]] /\ served \in [Moments -> Nat]

\* What was let through from moment s to moment e.
Passed(U, s, e) == U[e + 1] - U[s]

\* The moments of a UTC day.
dawn(t) == DAY * (t \div DAY)
SameDay(s, e) == s \div DAY = e \div DAY

\* However its requests are timed, a visitor passes at most twice its limit in
\* any span as long as a window, and once more over midnight, when its key
\* changes: no sweep forgets a window that still counts.
VisitorBounded ==
  \A v \in Visitors, t \in 0 .. MaxTime :
    LET e == t + route.window - 1 IN
    Passed(counted[v], t, e) <= route.own * (IF SameDay(t, e) THEN 2 ELSE 3)

\* A limit per day lets a visitor through no more than that often on a UTC day.
DailyLimitHolds ==
  route.window = DAY =>
    \A v \in Visitors, t \in 0 .. MaxTime : Passed(counted[v], dawn(t), dawn(t) + DAY - 1) <= route.own

\* Everyone together passes at most twice the common limit in such a span,
\* however many visitors there are.
EveryoneBounded ==
  \A t \in 0 .. MaxTime : Passed(served, t, t + route.window - 1) <= 2 * route.everyone

\* What passes is bounded in every span, for one visitor and for all, and no window counts past its limit.
LimitsHold == TypeOK /\ VisitorBounded /\ DailyLimitHolds /\ EveryoneBounded

\* The first moment of the last window.
Recent == IF now < route.window THEN 0 ELSE now - route.window + 1

\* Nobody is refused because of others, or because of what was refused: a
\* visitor's limit refuses only what its own requests of the last window fill,
\* and everyone's only what was let through to it.
RefusedForOwn ==
  \A v \in Visitors, weight \in Weights :
    /\ ~take(perVisitor, route.own, key(v), weight).ok => Passed(counted[v], Recent, now) + weight > route.own
    /\ ~take(together, route.everyone, "all", weight).ok => Passed(served, Recent, now) + weight > route.everyone
=============================================================================
