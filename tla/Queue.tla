------------------------------- MODULE Queue -------------------------------
(***************************************************************************)
(* apply of packages/platform/host/queue.ts: the bounded queue behind every *)
(* pipe as a pure function from a state and an event to a state and the     *)
(* effects its driver owes.  Push, NextRead, End and EndWith are its cases.  *)
(*                                                                         *)
(* The chunk list is kept joined: take cuts at any byte, so where a chunk   *)
(* ended is never seen.  A caller's id is positive; reader 0 is none.       *)
(***************************************************************************)
EXTENDS Integers, Sequences

CONSTANT CHUNK      \* the limit of one read

ASSUME ChunkAssumption == CHUNK \in Nat \ {0}

EmptyQueue(cap) ==
    [cap |-> cap, bytes |-> <<>>, ended |-> FALSE, reader |-> 0, writers |-> <<>>]

ToWriter(id, ok) == [to |-> "writer", id |-> id, ok |-> ok, bytes |-> <<>>]
ToReader(id, b) == [to |-> "reader", id |-> id, ok |-> TRUE, bytes |-> b]
Step(s, effects) == [state |-> s, effects |-> effects]

Fits(cap, held, b) == cap = 0 \/ Len(held) + Len(b) <= cap

ReleaseFirst(s) ==      \* mutant: one writer per read
    IF s.writers # <<>> /\ Fits(s.cap, s.bytes, Head(s.writers).bytes)
    THEN Step([s EXCEPT !.bytes = @ \o Head(s.writers).bytes,
                        !.writers = Tail(@)],
              <<ToWriter(Head(s.writers).id, TRUE)>>)
    ELSE Step(s, <<>>)
ReleaseDropping(s) ==      \* mutant: the released writer's bytes are not kept
    IF s.writers # <<>> /\ Fits(s.cap, s.bytes, Head(s.writers).bytes)
    THEN Step([s EXCEPT !.writers = Tail(@)], <<ToWriter(Head(s.writers).id, TRUE)>>)
    ELSE Step(s, <<>>)
\* Parked writers enter in the order they parked, up to the first that does
\* not fit.
ReleaseRoom(s) ==
    LET with[k \in 0 .. Len(s.writers)] ==
            IF k = 0 THEN s.bytes ELSE with[k - 1] \o s.writers[k].bytes
        fits(k) == \A j \in 1 .. k : Fits(s.cap, with[j - 1], s.writers[j].bytes)
        n == CHOOSE k \in 0 .. Len(s.writers) :
                 fits(k) /\ (k = Len(s.writers) \/ ~fits(k + 1))
    IN  Step([s EXCEPT !.bytes = with[n],
                       !.writers = SubSeq(@, n + 1, Len(@))],
             [i \in 1 .. n |-> ToWriter(s.writers[i].id, TRUE)])

\* How much of what is queued one read takes.
Taken(s) == IF Len(s.bytes) <= CHUNK THEN Len(s.bytes) ELSE CHUNK

Push(s, id, b) ==
    IF s.ended THEN Step(s, <<ToWriter(id, FALSE)>>)
    ELSE IF b = <<>> THEN Step(s, <<ToWriter(id, TRUE)>>)
    ELSE IF s.reader # 0
    THEN Step([s EXCEPT !.reader = 0], <<ToReader(s.reader, b), ToWriter(id, TRUE)>>)
    ELSE IF ~Fits(s.cap, s.bytes, b)
    THEN Step([s EXCEPT !.writers = Append(@, [id |-> id, bytes |-> b])], <<>>)
    ELSE Step([s EXCEPT !.bytes = @ \o b], <<ToWriter(id, TRUE)>>)

NextRead(s, id) ==
    IF s.bytes # <<>>
    THEN LET freed == ReleaseRoom([s EXCEPT !.bytes =
                                      SubSeq(@, Taken(s) + 1, Len(@))])
         IN  Step(freed.state,
                  <<ToReader(id, SubSeq(s.bytes, 1, Taken(s)))>> \o freed.effects)
    ELSE IF s.ended THEN Step(s, <<ToReader(id, <<>>)>>)
    ELSE Step([s EXCEPT !.reader = id],
              IF s.reader = 0 THEN <<>> ELSE <<ToReader(s.reader, <<>>)>>)

End(s) ==
    Step([s EXCEPT !.ended = TRUE, !.reader = 0, !.writers = <<>>],
         (IF s.reader = 0 THEN <<>> ELSE <<ToReader(s.reader, <<>>)>>)
         \o [i \in 1 .. Len(s.writers) |-> ToWriter(s.writers[i].id, FALSE)])

EndWithPush(s, b) ==      \* mutant: push, then end
    LET pushed == Push(s, 0, b)
        closed == End(pushed.state)
    IN  Step(closed.state, pushed.effects \o closed.effects)
EndWith(s, b) ==
    IF s.ended THEN End(s)
    ELSE IF s.reader # 0
    THEN LET closed == End([s EXCEPT !.reader = 0])
         IN  Step(closed.state, <<ToReader(s.reader, b)>> \o closed.effects)
    ELSE End([s EXCEPT !.bytes = @ \o b])
=============================================================================
