----------------------------- MODULE ByteQueue -----------------------------
(***************************************************************************)
(* The driver of packages/platform/host/queue.ts: class ByteQueue turns its *)
(* methods into events of Queue's machine and the effects into settled      *)
(* promises.  Its methods may be called at any moment, and any number of    *)
(* times before an earlier call is answered: the hosts' write handlers do    *)
(* not await it.                                                            *)
(***************************************************************************)
EXTENDS Queue

CONSTANTS
    QueueCap,        \* bytes the queue holds; 0 is unbounded
    Lengths,      \* lengths of the writes that are tried
    MaxCalls    \* bound: calls of the driver in all

ASSUME QueueAssumption == QueueCap \in Nat /\ Lengths \subseteq Nat /\ MaxCalls \in Nat

VARIABLES
    state,       \* #state
    calls,       \* the push and next calls so far, and what each promise holds
    delivered    \* history: every byte handed to a reader, in order

queueVars == <<state, calls, delivered>>

QueueInit == state = EmptyQueue(QueueCap) /\ calls = <<>> /\ delivered = <<>>

\* The bytes of call number id: each byte says whose it is and which.
BytesOf(id, n) == [i \in 1 .. n |-> <<id, i>>]
Promise(kind, n) == [kind |-> kind, size |-> n, answer |-> "waiting", got |-> 0]

\* An effect settles the promise it names: a writer hears whether its bytes were taken, a reader
\* what it is given.
Answered(promise, e) ==
    IF e.to = "writer" THEN [promise EXCEPT !.answer = IF e.ok THEN "ok" ELSE "refused"]
    ELSE [promise EXCEPT !.answer = IF e.bytes = <<>> THEN "empty" ELSE "data", !.got = Len(e.bytes)]
\* #run: the state moves and each effect settles its promise.
Run(step, pending) ==
    /\ state' = step.state
    /\ calls' =
         [id \in DOMAIN pending |->
            LET mine == {k \in DOMAIN step.effects : step.effects[k].id = id} IN
            IF mine = {} THEN pending[id]
            ELSE Answered(pending[id], step.effects[CHOOSE k \in mine : TRUE])]
    /\ LET reads == {k \in DOMAIN step.effects : step.effects[k].bytes # <<>>} IN
       delivered' = IF reads = {} THEN delivered
                    ELSE delivered \o step.effects[CHOOSE k \in reads : TRUE].bytes

PushCall(n) ==
    /\ Len(calls) < MaxCalls
    /\ LET id == Len(calls) + 1 IN
       Run(Push(state, id, BytesOf(id, n)), Append(calls, Promise("push", n)))
NextCall ==
    /\ Len(calls) < MaxCalls
    /\ Run(NextRead(state, Len(calls) + 1), Append(calls, Promise("next", 0)))
EndCall == Run(End(state), calls)

\* The host's last line is recorded as an accepted call with no promise.
EndWithCall(n) ==
    /\ Len(calls) < MaxCalls
    /\ LET id == Len(calls) + 1 IN
       Run(EndWith(state, BytesOf(id, n)),
           Append(calls, [Promise("last", n) EXCEPT
                            !.answer = IF state.ended THEN "dropped" ELSE "ok"]))

QueueNext ==
    \/ \E n \in Lengths : PushCall(n)
    \/ NextCall
    \/ EndCall
    \/ \E n \in Lengths \ {0} : EndWithCall(n)
QueueSpec == QueueInit /\ [][QueueNext]_queueVars

-----------------------------------------------------------------------------
(* Properties *)

Ids == DOMAIN calls
Writers(s) == {s.writers[i].id : i \in DOMAIN s.writers}
Carried == delivered \o state.bytes

\* The queue's state and every promise of its driver hold values of their kind.
QueueTypeOK ==
    /\ state.cap = QueueCap /\ state.ended \in BOOLEAN /\ state.reader \in {0} \cup Ids
    /\ state.bytes \in Seq(Ids \X (Nat \ {0}))
    /\ state.writers \in Seq([id : Ids, bytes : Seq(Ids \X (Nat \ {0}))])
    /\ \A id \in Ids :
         calls[id] \in [kind : {"push", "next", "last"}, size : Nat, got : Nat,
                        answer : {"waiting", "ok", "refused", "data", "empty",
                                  "dropped"}]

\* Sequence c holds the n bytes of write id together, in their own order, and no other byte of it.
Holds(c, id, n) ==
    \E o \in 0 .. Len(c) :
        /\ {k \in 1 .. Len(c) : c[k][1] = id} = o + 1 .. o + n
        /\ \A i \in 1 .. n : c[o + i] = <<id, i>>

\* A write answered ok is in the stream whole, once and in its own order; one
\* that is refused, dropped or still parked is not in it at all.
AcceptedExactlyOnce ==
    \A id \in Ids : Holds(Carried, id, IF calls[id].answer = "ok" THEN calls[id].size ELSE 0)

\* A reader is told the end only at the end, or when a newer reader took its
\* place: never by a zero-length write (issue 0078).
EmptyIsTheEnd ==
    \A id \in Ids :
        calls[id].answer = "empty" =>
            state.ended \/ \E later \in Ids : later > id /\ calls[later].kind = "next"

\* Nobody waits for what is already there: a reader is parked only on an empty
\* open queue, and the first parked writer does not fit.
NoLostWakeup ==
    /\ state.reader # 0 => state.bytes = <<>> /\ ~state.ended
    /\ state.writers # <<>> => ~state.ended /\ ~Fits(state.cap, state.bytes, Head(state.writers).bytes)

\* Every promise the driver has not settled is one the state will settle: the
\* parked reader's or a parked writer's.
NobodyForgotten ==
    \A id \in Ids :
        calls[id].answer = "waiting" <=> id = state.reader \/ id \in Writers(state)

\* Until it ends the queue holds no more than its cap.
CapHolds == QueueCap > 0 /\ ~state.ended => Len(state.bytes) <= QueueCap

\* What a reader was told was the end stays the end: nothing is handed over by a
\* later step once an undisplaced reader has been answered empty.
EndIsFinal ==
    [][(\E id \in Ids : /\ calls[id].kind = "next" /\ calls[id].answer = "empty"
                        /\ \A k \in Ids : calls[k].kind = "next" => k <= id)
       => delivered' = delivered]_queueVars

\* The queue keeps its word to everyone: accepted bytes exactly once, an end only at the end and
\* for good, the cap, and no promise parked for what is there or forgotten.
QueueKeepsItsWord ==
    /\ [](QueueTypeOK /\ AcceptedExactlyOnce /\ EmptyIsTheEnd /\ NoLostWakeup /\ NobodyForgotten /\ CapHolds)
    /\ EndIsFinal
=============================================================================
