-------------------------------- MODULE Pool --------------------------------
(***************************************************************************)
(* harness/inFlight.ts: a pool of workers over a list of items, and the       *)
(* watch over what is in flight that speaks when nothing has finished for      *)
(* too long.                                                               *)
(***************************************************************************)
EXTENDS Integers, FiniteSets

CONSTANTS
    Items,        \* how many items
    PoolJobs,     \* jobs
    Budget,       \* quietMs, in ticks of the clock
    MaxQuiet      \* bound: ticks with nothing finishing

ASSUME PoolAssumption == {Items, PoolJobs, Budget, MaxQuiet} \subseteq Nat \ {0}

VARIABLES
    nextItem, hand,      \* per worker: the item it works on, 0 when it has none, -1 when it is over
    flight,              \* the watch's entries
    result,              \* per item: "none", "made" or "failed"
    starts,              \* history: times work was called on each item
    quiet, spoken,       \* ticks since something finished; budgets spoken for
    told,                \* history: lines spoken since something finished
    pool                 \* "running", "returned", "rejected"

poolVars == <<nextItem, hand, flight, result, starts, quiet, spoken, told, pool>>
watchVars == <<quiet, spoken, told>>

Workers == 1 .. PoolJobs

PoolInit ==
    /\ nextItem = 0 /\ hand = [w \in Workers |-> 0] /\ flight = {}
    /\ result = [i \in 1 .. Items |-> "none"] /\ starts = [i \in 1 .. Items |-> 0]
    /\ quiet = 0 /\ spoken = 0 /\ told = 0 /\ pool = "running"

\* The next index is taken and its entry started with no await between them.
TakeItem(w) ==
    /\ hand[w] = 0 /\ nextItem' = nextItem + 1
    /\ IF nextItem + 1 > Items
       THEN hand' = [hand EXCEPT ![w] = -1] /\ UNCHANGED <<flight, starts>>
       ELSE /\ hand' = [hand EXCEPT ![w] = nextItem + 1] /\ flight' = flight \cup {nextItem + 1}
            /\ starts' = [starts EXCEPT ![nextItem + 1] = @ + 1]
    /\ UNCHANGED <<result, watchVars, pool>>
\* done: the entry goes and the silence starts again.
Done(i) == flight' = flight \ {i} /\ quiet' = 0 /\ spoken' = 0 /\ told' = 0
Finish(w) ==
    /\ hand[w] > 0 /\ Done(hand[w])
    /\ result' = [result EXCEPT ![hand[w]] = "made"] /\ hand' = [hand EXCEPT ![w] = 0]
    /\ UNCHANGED <<nextItem, starts, pool>>
\* A rejection ends its worker, its entry done, and the pool with it; the other workers go on.
RejectHeld(w) ==      \* mutant: a rejection skips the entry's done
    /\ hand[w] > 0 /\ UNCHANGED <<flight, watchVars>>
    /\ result' = [result EXCEPT ![hand[w]] = "failed"] /\ hand' = [hand EXCEPT ![w] = -1]
    /\ pool' = IF pool = "running" THEN "rejected" ELSE pool
    /\ UNCHANGED <<nextItem, starts>>
Reject(w) ==
    /\ hand[w] > 0 /\ Done(hand[w])
    /\ result' = [result EXCEPT ![hand[w]] = "failed"] /\ hand' = [hand EXCEPT ![w] = -1]
    /\ pool' = IF pool = "running" THEN "rejected" ELSE pool
    /\ UNCHANGED <<nextItem, starts>>
Return ==
    /\ pool = "running" /\ \A w \in Workers : hand[w] = -1
    /\ pool' = "returned"
    /\ UNCHANGED <<nextItem, hand, flight, result, starts, watchVars>>

\* The interval: it says what is held once for each whole budget of silence.
Due == quiet \div Budget > spoken
Speak ==
    /\ pool = "running" /\ flight # {} /\ Due
    /\ spoken' = quiet \div Budget /\ told' = told + 1
    /\ UNCHANGED <<nextItem, hand, flight, result, starts, quiet, pool>>
\* Time passes, and the interval with it.
Tick ==
    /\ quiet < MaxQuiet /\ (pool = "running" /\ flight # {} => ~Due) /\ quiet' = quiet + 1
    /\ UNCHANGED <<nextItem, hand, flight, result, starts, spoken, told, pool>>

PoolNext == Return \/ Speak \/ Tick \/ \E w \in Workers : TakeItem(w) \/ Finish(w) \/ Reject(w)
PoolSpec == PoolInit /\ [][PoolNext]_poolVars

-----------------------------------------------------------------------------
(* Properties *)

\* The pool's state is made of the parts above.
PoolTypeOK ==
    /\ hand \in [Workers -> -1 .. Items] /\ flight \subseteq 1 .. Items
    /\ result \in [1 .. Items -> {"none", "made", "failed"}] /\ quiet \in 0 .. MaxQuiet
    /\ pool \in {"running", "returned", "rejected"} /\ spoken \in Nat /\ told \in Nat

\* What the watch says is held is exactly what is being worked on, a failed item never among
\* it and a worker that outlives a rejected pool still in it.
FlightIsExact == flight = {hand[w] : w \in {w \in Workers : hand[w] > 0}}

\* A pool that returns has a result for every item, each from one call.
ReturnedIsWhole ==
    /\ \A i \in 1 .. Items : starts[i] <= 1
    /\ pool = "returned" => \A i \in 1 .. Items : result[i] = "made"

\* A long silence is told once for each budget of it, and starts again when something finishes.
ToldOncePerBudget == told <= quiet \div Budget

\* The watch and the pool agree: what is held is what is at work, what is returned is whole, and a
\* silence is told once per budget.
PoolIsExact == PoolTypeOK /\ FlightIsExact /\ ReturnedIsWhole /\ ToldOncePerBudget
=============================================================================
