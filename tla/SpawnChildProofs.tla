-------------------------- MODULE SpawnChildProofs --------------------------
(***************************************************************************)
(* spawnChild implements the lifecycle of childLife.ts, for every queue     *)
(* size and every schedule of the child, the host and the parent.           *)
(*                                                                         *)
(* children.ts does not call step: it has its own two promises, its own     *)
(* flag and its own order of settling them.  The mapping is the identity on *)
(* those; what has to be shown is that each handler leaves them as one      *)
(* event of the lifecycle would.  Three places need an invariant: a kill    *)
(* after the exit settles nothing only because loaded is settled by then    *)
(* (Settled), the grace timer may forget to ask whether the child started   *)
(* for the same reason, and the refused spawn, which settles everything     *)
(* unconditionally, may do so because nothing has happened yet (Unborn).    *)
(*                                                                         *)
(* The second half is about the child's two output streams.  Flows is what  *)
(* the parent and the queue know of each other; each of push, end, endWith  *)
(* and next keeps it and loses no byte (PushFlows, EndFlows, EndWithFlows,   *)
(* ReadFlows).  A step of the whole then leaves the streams alone, stops     *)
(* the child, or is one write or one read (StepKinds).  ToldInv gives        *)
(* GoneIsTold on every host; OutInv gives OutputIsTrue on a host whose write *)
(* handler waits for the queue: then at most one write is parked, the child  *)
(* waits for it, and a child that returned has none.                        *)
(*                                                                         *)
(* The last part is about the queue's driver with any number of callers.    *)
(* Tells says who hears what of one event (PushTells, EndTells,             *)
(* EndWithTells, NextTells).  QInv adds to the properties what is parked     *)
(* (QParked) and what an empty answer meant (QEnd); each kind of step keeps  *)
(* it (DriverStill to DriverReads), and TakenOnce and AllLetIn keep every    *)
(* accepted write whole while bytes and let-in writers move.                *)
(***************************************************************************)
EXTENDS SpawnChild, ByteQueue, SequenceTheorems, Induction, TLAPS

\* A child with an exit code has stopped, and its load is answered; so is that of one that started.
Settled ==
    /\ stopped \in BOOLEAN
    /\ exited # "none" => stopped /\ loaded # "unsettled"
    /\ started => loaded # "unsettled"
\* Before the spawn nothing has happened.
Unborn ==
    worker = "unborn" =>
        /\ inbox = {} /\ handle = "none" /\ timer = "unset"
        /\ loaded = "unsettled" /\ exited = "none" /\ ~stopped
LifeInv == Settled /\ Unborn

-----------------------------------------------------------------------------
\* shutdown stops the child's services, unless that has been done.
LEMMA ShutdownStops ==
    ASSUME stopped \in BOOLEAN, NEW errEnd, Shutdown(errEnd)
    PROVE  stopped' = TRUE /\ (worker' = worker \/ worker' = "terminated")
BY DEF Shutdown

\* kill is the lifecycle's kill event.
LEMMA KillIsKill ==
    ASSUME LifeInv, Kill
    PROVE  Life!Kill /\ (worker' = worker \/ worker' = "terminated")
<1>1. stopped' = TRUE /\ (worker' = worker \/ worker' = "terminated")
  BY ShutdownStops DEF LifeInv, Settled, Kill
<1>2. Life!Kill
  BY <1>1 DEF LifeInv, Settled, Kill, Done, Exit, Settle, Life!Kill, Life!Finish,
              Life!Settle
<1>. QED  BY <1>1, <1>2

\* Every step of spawnChild, of its child and of its parent is an event of the
\* lifecycle or leaves the lifecycle alone.
LEMMA StepIsEvent == ASSUME LifeInv, Next PROVE [Life!Next]_(Life!life)
<1> USE DEF LifeInv, hostVars, pipeVars
<1>1. CASE SpawnRefused
  <2>1. Life!Error
    BY <1>1 DEF SpawnRefused, Settled, Unborn, Life!Error, Life!Finish, Life!Settle
  <2>. QED  BY <2>1 DEF Life!Next
<1>2. CASE OnReady
  <2>1. Life!Ready  BY <1>2 DEF OnReady, Done, Settle, Life!Ready, Life!Settle
  <2>. QED  BY <2>1 DEF Life!Next
<1>3. ASSUME NEW r \in {"ok", "threw"}, OnResult(r) PROVE Life!Next
  <2>1. stopped' = TRUE  BY <1>3, ShutdownStops DEF OnResult, Settled
  <2>2. Life!Result(IF r = "ok" THEN "0" ELSE "-1")
    BY <1>3, <2>1 DEF OnResult, Done, Exit, Settle, Settled, Life!Result, Life!Finish,
                      Life!Settle
  <2>. QED  BY <2>2 DEF Life!Next, Life!Codes
<1>4. CASE OnError
  <2>1. stopped' = TRUE  BY <1>4, ShutdownStops DEF OnError, Settled
  <2>2. Life!Error
    BY <1>4, <2>1 DEF OnError, Done, Exit, Settle, Settled, Life!Error, Life!Finish,
                      Life!Settle
  <2>. QED  BY <2>2 DEF Life!Next
<1>5. CASE GraceFires
  <2>1. Life!Grace
    BY <1>5 DEF GraceFires, Settle, Settled, Life!Grace, Life!Settle
  <2>. QED  BY <2>1 DEF Life!Next
<1>6. CASE RegisterFailed
  <2>1. CASE worker = "refused"  BY <1>6, <2>1 DEF RegisterFailed, Life!life
  <2>2. CASE worker # "refused"
    BY <1>6, <2>2, KillIsKill DEF RegisterFailed, Life!Next
  <2>. QED  BY <2>1, <2>2
<1>7. CASE Close
  <2>1. stopped' = TRUE  BY <1>7 DEF Close, Settled
  <2>2. Life!Kill
    BY <1>7, <2>1 DEF Close, Done, Exit, Settle, Settled, Life!Kill, Life!Finish,
                      Life!Settle
  <2>. QED  BY <2>2 DEF Life!Next
<1>8. CASE Spawn \/ WorkerReady \/ ChildRead \/ ChildDies \/ PostsLost \/ Register
           \/ Feed \/ CloseFeed
  BY <1>8 DEF Spawn, WorkerReady, ChildRead, ChildDies, PostsLost, Register, Feed,
              CloseFeed, Life!life
<1>9. ASSUME NEW s \in Outputs, NEW n \in Sizes, ChildWrite(s, n)
      PROVE  UNCHANGED Life!life
  BY <1>9 DEF ChildWrite, Life!life
<1>10. ASSUME NEW r \in {"ok", "threw"}, ChildReturn(r) PROVE UNCHANGED Life!life
  BY <1>10 DEF ChildReturn, Life!life
<1>11. ASSUME NEW s \in Outputs, ParentRead(s) PROVE UNCHANGED Life!life
  BY <1>11 DEF ParentRead, Life!life
<1>. QED
  BY <1>1, <1>2, <1>3, <1>4, <1>5, <1>6, <1>7, <1>8, <1>9, <1>10, <1>11
  DEF Next, Deliveries, Answers

\* Every event of the lifecycle keeps what is settled settled.
LEMMA EventSettles == ASSUME Settled, [Life!Next]_(Life!life) PROVE Settled'
<1>1. CASE Life!Ready  BY <1>1 DEF Settled, Life!Ready, Life!Settle
<1>2. ASSUME NEW code \in Life!Codes, Life!Result(code) PROVE Settled'
  BY <1>2 DEF Settled, Life!Result, Life!Finish, Life!Settle
<1>3. CASE Life!Error  BY <1>3 DEF Settled, Life!Error, Life!Finish, Life!Settle
<1>4. CASE Life!Grace  BY <1>4 DEF Settled, Life!Grace, Life!Settle
<1>5. CASE Life!Kill  BY <1>5 DEF Settled, Life!Kill, Life!Finish, Life!Settle
<1>6. CASE UNCHANGED Life!life  BY <1>6 DEF Settled, Life!life
<1>. QED  BY <1>1, <1>2, <1>3, <1>4, <1>5, <1>6 DEF Life!Next

\* Nothing happens to a child before it is spawned.
LEMMA UnbornStep == ASSUME Unborn, [Next]_vars, worker' = "unborn" PROVE Unborn'
<1> USE DEF Unborn, hostVars, pipeVars
<1>1. CASE UNCHANGED vars  BY <1>1 DEF vars
<1>2. CASE Next
  <2>1. worker = "unborn"
    BY <1>2 DEF Next, Spawn, SpawnRefused, WorkerReady, ChildRead, ChildDies, ChildWrite,
       ChildReturn, Deliveries, OnReady, OnResult, OnError, Shutdown, GraceFires,
       PostsLost, Answers, Register, RegisterFailed, Kill, ParentRead, Feed, CloseFeed,
       Close
  <2>. QED
    BY <1>2, <2>1 DEF Next, Spawn, SpawnRefused, WorkerReady, ChildRead, ChildDies,
       ChildWrite, ChildReturn, Deliveries, OnReady, OnResult, OnError, GraceFires,
       PostsLost, Answers, Register, RegisterFailed, ParentRead, Feed, CloseFeed, Close
<1>. QED  BY <1>1, <1>2

\* The invariant holds in every state of every execution.
THEOREM LifeInvariance == Spec => []LifeInv
<1>1. Init => LifeInv  BY DEF Init, LifeInv, Settled, Unborn
<1>2. LifeInv /\ [Next]_vars => LifeInv'
  <2>1. SUFFICES ASSUME LifeInv, [Next]_vars PROVE LifeInv'  OBVIOUS
  <2>2. [Life!Next]_(Life!life)
    BY <2>1, StepIsEvent DEF vars, hostVars, Life!life
  <2>3. Settled'  BY <2>1, <2>2, EventSettles DEF LifeInv
  <2>4. Unborn'  BY <2>1, UnbornStep DEF LifeInv, Unborn
  <2>. QED  BY <2>3, <2>4 DEF LifeInv
<1>. QED  BY <1>1, <1>2, PTL DEF Spec

\* spawnChild keeps the promise of childLife.ts's state machine: whatever the order
\* of ready, result, error, the grace timer and kill, its promises and its shutdown
\* go through the states step would go through.
THEOREM SpawnImplementsLife == Spec => ImplementsLife
<1>1. Init => Life!Newborn  BY DEF Init, Life!Newborn
<1>2. LifeInv /\ [Next]_vars => [Life!Next]_(Life!life)
  BY StepIsEvent DEF vars, hostVars, Life!life
<1>. QED  BY <1>1, <1>2, LifeInvariance, PTL DEF Spec, ImplementsLife, Life!Spec
-----------------------------------------------------------------------------
(* What a queue answers *)

\* A byte by the write it comes from and its place in it, a parked write, and a ByteQueue.
Token == Nat \X Nat
Writer == [id : Nat, bytes : Seq(Token)]
Pipe == [cap : Nat, bytes : Seq(Token), ended : BOOLEAN, reader : Nat, writers : Seq(Writer)]

\* A writer is told that its bytes were taken, or that they were not.
Yes(w) == ToWriter(w, TRUE)
No(w) == ToWriter(w, FALSE)

\* Push on a queue that is open.
LEMMA PushIs ==
    ASSUME NEW q \in Pipe, ~q.ended, NEW id \in Nat, NEW b \in Seq(Token), b # <<>>
    PROVE  LET p == Push(q, id, b) IN
           /\ q.reader # 0 =>
                /\ p.state = [q EXCEPT !.reader = 0]
                /\ Told(p, "reader") /\ Handed(p) = b /\ Told(p, "writer")
           /\ q.reader = 0 /\ ~Fits(q.cap, q.bytes, b) =>
                /\ p.state = [q EXCEPT !.writers = Append(@, [id |-> id, bytes |-> b])]
                /\ ~Told(p, "reader") /\ ~Told(p, "writer")
           /\ q.reader = 0 /\ Fits(q.cap, q.bytes, b) =>
                /\ p.state = [q EXCEPT !.bytes = @ \o b]
                /\ ~Told(p, "reader") /\ Told(p, "writer")
<1> DEFINE p == Push(q, id, b)
<1>1. CASE q.reader # 0
  <2>1. p = Step([q EXCEPT !.reader = 0], <<ToReader(q.reader, b), ToWriter(id, TRUE)>>)
    BY <1>1 DEF Push, Pipe
  <2>2. /\ p.state = [q EXCEPT !.reader = 0] /\ DOMAIN p.effects = {1, 2}
        /\ p.effects[1].to = "reader" /\ p.effects[1].bytes = b /\ p.effects[2].to = "writer"
    BY <2>1 DEF Step, ToReader, ToWriter
  <2> HIDE DEF p
  <2>3. Told(p, "reader") /\ Told(p, "writer")  BY <2>2 DEF Told
  <2>4. (CHOOSE k \in DOMAIN p.effects : p.effects[k].to = "reader") = 1  BY <2>2
  <2>5. Handed(p) = b  BY <2>2, <2>4 DEF Handed
  <2>. QED  BY <1>1, <2>2, <2>3, <2>5 DEF p
<1>2. CASE q.reader = 0 /\ ~Fits(q.cap, q.bytes, b)
  <2>1. p = Step([q EXCEPT !.writers = Append(@, [id |-> id, bytes |-> b])], <<>>)
    BY <1>2 DEF Push, Pipe
  <2>. QED  BY <1>2, <2>1 DEF Step, Told
<1>3. CASE q.reader = 0 /\ Fits(q.cap, q.bytes, b)
  <2>1. p = Step([q EXCEPT !.bytes = @ \o b], <<ToWriter(id, TRUE)>>)
    BY <1>3 DEF Push, Pipe
  <2>2. p.state = [q EXCEPT !.bytes = @ \o b] /\ DOMAIN p.effects = {1} /\ p.effects[1].to = "writer"
    BY <2>1 DEF Step, ToWriter
  <2>3. Told(p, "writer") /\ ~Told(p, "reader")  BY <2>2 DEF Told
  <2>. QED  BY <1>3, <2>2, <2>3
<1>. QED  BY <1>1, <1>2, <1>3

\* The effects W tell n writers, and nobody else.
WritersOnly(W, n) ==
    n \in Nat /\ DOMAIN W = 1 .. n /\ W \in Seq({W[i] : i \in 1 .. n})
    /\ Len(W) = n /\ \A i \in 1 .. n : W[i].to = "writer"
\* Effects that are all a writer's are those of so many writers.
LEMMA ToldOnly ==
    ASSUME NEW n \in Nat, NEW W, W = [i \in 1 .. n |-> W[i]], \A i \in 1 .. n : W[i].to = "writer"
    PROVE  WritersOnly(W, n)
<1> DEFINE R == {W[i] : i \in 1 .. n}
<1>1. DOMAIN W = 1 .. n
  <2>1. DOMAIN [i \in 1 .. n |-> W[i]] = 1 .. n  OBVIOUS
  <2>. QED  BY <2>1, Zenon
<1>2. W \in [1 .. n -> R]
  <2>1. [i \in 1 .. n |-> W[i]] \in [1 .. n -> R]  OBVIOUS
  <2>. QED  BY <2>1, Zenon
<1>3. W \in Seq(R) /\ Len(W) = n
  <2> HIDE DEF R
  <2>. QED  BY <1>2
<1>. QED  BY <1>1, <1>3 DEF WritersOnly

\* Nobody but the writers is told.
LEMMA WritersAlone ==
    ASSUME NEW st, NEW n, NEW W, WritersOnly(W, n)
    PROVE  /\ Step(st, W).state = st
           /\ ~Told(Step(st, W), "reader")
           /\ Told(Step(st, W), "writer") <=> n # 0
<1> DEFINE e == Step(st, W)
<1>1. e.state = st /\ e.effects = W  BY DEF Step
<1> HIDE DEF e
<1>2. ~Told(e, "reader")  BY <1>1 DEF Told, WritersOnly
<1>3. ASSUME n # 0 PROVE Told(e, "writer")
  <2>1. 1 \in DOMAIN W /\ W[1].to = "writer"  BY <1>3 DEF WritersOnly
  <2>. QED  BY <1>1, <2>1 DEF Told
<1>4. ASSUME n = 0 PROVE ~Told(e, "writer")  BY <1>1, <1>4 DEF Told, WritersOnly
<1>. QED  BY <1>1, <1>2, <1>3, <1>4 DEF e

\* A reader's answer before what the writers are told.
LEMMA ReaderFirst ==
    ASSUME NEW st, NEW who, NEW b, NEW n, NEW W, WritersOnly(W, n)
    PROVE  LET e == Step(st, <<ToReader(who, b)>> \o W) IN
           /\ e.state = st
           /\ Told(e, "reader") /\ Handed(e) = b
           /\ Told(e, "writer") <=> n # 0
<1> DEFINE R == ToReader(who, b)
           E == <<R>> \o W
           e == Step(st, E)
<1>0. e.state = st /\ e.effects = E  BY DEF Step
<1>1. DOMAIN E = 1 .. n + 1 /\ E[1] = R /\ \A i \in 2 .. n + 1 : E[i] = W[i - 1]
  <2>1. n \in Nat /\ Len(W) = n /\ W \in Seq({W[i] : i \in 1 .. n} \cup {R})
    BY DEF WritersOnly
  <2> HIDE DEF R
  <2>2. <<R>> \in Seq({W[i] : i \in 1 .. n} \cup {R}) /\ Len(<<R>>) = 1 /\ <<R>>[1] = R  OBVIOUS
  <2>. QED  BY <2>1, <2>2
<1>2. ASSUME NEW i \in 2 .. n + 1 PROVE E[i].to = "writer"
  <2>1. n \in Nat /\ i - 1 \in 1 .. n  BY DEF WritersOnly
  <2>2. W[i - 1].to = "writer"  BY <2>1 DEF WritersOnly
  <2>. QED  BY <1>1, <2>2
<1>3. E[1].to = "reader" /\ E[1].bytes = b  BY <1>1 DEF ToReader
<1> HIDE DEF E, R, e
<1>n. n \in Nat  BY DEF WritersOnly
<1>4. (CHOOSE k \in DOMAIN E : E[k].to = "reader") = 1
  <2>1. 1 \in DOMAIN E /\ \A k \in DOMAIN E : k # 1 => k \in 2 .. n + 1  BY <1>1, <1>n
  <2>2. \A k \in DOMAIN E : k # 1 => E[k].to # "reader"  BY <1>2, <2>1
  <2>. QED  BY <1>3, <2>1, <2>2
<1>5. Handed(e) = b  BY <1>0, <1>3, <1>4 DEF Handed
<1>6. Told(e, "reader")
  <2>1. 1 \in DOMAIN E  BY <1>1, <1>n
  <2>. QED  BY <1>0, <1>3, <2>1 DEF Told
<1>7. ASSUME n # 0 PROVE Told(e, "writer")
  <2>1. 2 \in DOMAIN E /\ E[2].to = "writer"  BY <1>1, <1>2, <1>7, <1>n
  <2>. QED  BY <1>0, <2>1 DEF Told
<1>8. ASSUME n = 0 PROVE ~Told(e, "writer")
  <2>1. DOMAIN E = {1}  BY <1>1, <1>8
  <2>. QED  BY <1>0, <1>3, <2>1 DEF Told
<1>. QED  BY <1>0, <1>5, <1>6, <1>7, <1>8 DEF e, E, R

\* end.
LEMMA EndIs ==
    ASSUME NEW q \in Pipe
    PROVE  /\ End(q).state = [q EXCEPT !.ended = TRUE, !.reader = 0, !.writers = <<>>]
           /\ Told(End(q), "reader") <=> q.reader # 0
           /\ q.reader # 0 => Handed(End(q)) = <<>>
<1> DEFINE W == [i \in 1 .. Len(q.writers) |-> ToWriter(q.writers[i].id, FALSE)]
           st == [q EXCEPT !.ended = TRUE, !.reader = 0, !.writers = <<>>]
<1>1. WritersOnly(W, Len(q.writers))
  <2>1. Len(q.writers) \in Nat  BY DEF Pipe
  <2>2. \A i \in 1 .. Len(q.writers) : W[i].to = "writer"  BY DEF ToWriter
  <2>3. W = [i \in 1 .. Len(q.writers) |-> W[i]]  OBVIOUS
  <2> HIDE DEF W
  <2>. QED  BY <2>1, <2>2, <2>3, ToldOnly
<1>2. End(q) = Step(st, (IF q.reader = 0 THEN <<>> ELSE <<ToReader(q.reader, <<>>)>>) \o W)
  BY DEF End
<1> HIDE DEF W, st
<1>3. CASE q.reader = 0
  <2>1. End(q) = Step(st, W)
    <3>1. W \in Seq({W[i] : i \in 1 .. Len(q.writers)})  BY <1>1 DEF WritersOnly
    <3>2. <<>> \o W = W  BY <3>1
    <3>. QED  BY <1>2, <1>3, <3>2
  <2>. QED  BY <1>1, <1>3, <2>1, WritersAlone DEF st
<1>4. CASE q.reader # 0
  <2>1. End(q) = Step(st, <<ToReader(q.reader, <<>>)>> \o W)  BY <1>2, <1>4
  <2>. QED  BY <1>1, <1>4, <2>1, ReaderFirst DEF st
<1>. QED  BY <1>3, <1>4

\* endWith on a queue that is open: the last bytes go to the parked reader or behind what is there.
LEMMA EndWithIs ==
    ASSUME NEW q \in Pipe, ~q.ended, NEW b \in Seq(Token)
    PROVE  LET e == EndWith(q, b) IN
           /\ e.state = [q EXCEPT !.bytes = IF q.reader = 0 THEN @ \o b ELSE @,
                                  !.ended = TRUE, !.reader = 0, !.writers = <<>>]
           /\ Told(e, "reader") <=> q.reader # 0
           /\ q.reader # 0 => Handed(e) = b
<1> DEFINE W == [i \in 1 .. Len(q.writers) |-> ToWriter(q.writers[i].id, FALSE)]
<1>1. WritersOnly(W, Len(q.writers))
  <2>1. Len(q.writers) \in Nat  BY DEF Pipe
  <2>2. \A i \in 1 .. Len(q.writers) : W[i].to = "writer"  BY DEF ToWriter
  <2>3. W = [i \in 1 .. Len(q.writers) |-> W[i]]  OBVIOUS
  <2> HIDE DEF W
  <2>. QED  BY <2>1, <2>2, <2>3, ToldOnly
<1>4. CASE q.reader = 0
  <2> DEFINE p == [q EXCEPT !.bytes = @ \o b]
  <2>1. p \in Pipe
    <3>1. q.bytes \o b \in Seq(Token)  BY DEF Pipe
    <3>. QED  BY <3>1 DEF Pipe
  <2>2. EndWith(q, b) = End(p)  BY <1>4 DEF EndWith, Pipe
  <2>3. /\ p.reader = 0
        /\ [p EXCEPT !.ended = TRUE, !.reader = 0, !.writers = <<>>]
             = [q EXCEPT !.bytes = IF q.reader = 0 THEN @ \o b ELSE @,
                         !.ended = TRUE, !.reader = 0, !.writers = <<>>]
    BY <1>4 DEF Pipe
  <2> HIDE DEF p
  <2>. QED  BY <1>4, <2>1, <2>2, <2>3, EndIs
<1>5. CASE q.reader # 0
  <2> DEFINE r == [q EXCEPT !.reader = 0]
             st == [r EXCEPT !.ended = TRUE, !.reader = 0, !.writers = <<>>]
  <2>1. End(r) = Step(st, <<>> \o W)
    <3>1. r.reader = 0 /\ r.writers = q.writers  BY DEF Pipe
    <3>. QED  BY <3>1 DEF End
  <2>2. <<>> \o W = W
    <3>1. W \in Seq({W[i] : i \in 1 .. Len(q.writers)})  BY <1>1 DEF WritersOnly
    <3> HIDE DEF W
    <3>. QED  BY <3>1
  <2>3. End(r).state = st /\ End(r).effects = W
    <3> HIDE DEF W, st
    <3>. QED  BY <2>1, <2>2 DEF Step
  <2>4. EndWith(q, b) = Step(End(r).state, <<ToReader(q.reader, b)>> \o End(r).effects)
    BY <1>5 DEF EndWith, Pipe
  <2>5. st = [q EXCEPT !.bytes = IF q.reader = 0 THEN @ \o b ELSE @,
                       !.ended = TRUE, !.reader = 0, !.writers = <<>>]
    BY <1>5 DEF Pipe
  <2> HIDE DEF W, st, r
  <2>6. EndWith(q, b) = Step(st, <<ToReader(q.reader, b)>> \o W)  BY <2>3, <2>4
  <2>. QED  BY <1>1, <1>5, <2>5, <2>6, ReaderFirst
<1>. QED  BY <1>4, <1>5

-----------------------------------------------------------------------------
(* releaseRoom *)

\* f[k] is what the queue holds with its first k parked writers let in.
LetIn(q, f) ==
    /\ f \in [0 .. Len(q.writers) -> Seq(Token)]
    /\ f[0] = q.bytes
    /\ \A k \in 1 .. Len(q.writers) : f[k] = f[k - 1] \o q.writers[k].bytes
\* There is such an f, however many are parked.
LEMMA JoinExists ==
    ASSUME NEW q \in Pipe
    PROVE  \E f : f = [k \in 0 .. Len(q.writers) |->
                         IF k = 0 THEN q.bytes ELSE f[k - 1] \o q.writers[k].bytes]
<1> DEFINE L == Len(q.writers)
           Good(n, g) == g = [k \in 0 .. n |-> IF k = 0 THEN q.bytes ELSE g[k - 1] \o q.writers[k].bytes]
           S == {n \in Nat : \E g : Good(n, g)}
<1>0. L \in Nat  BY DEF Pipe
<1>1. 0 \in S
  <2>1. Good(0, [k \in 0 .. 0 |-> q.bytes])  OBVIOUS
  <2>. QED  BY <2>1
<1>2. ASSUME NEW n \in Nat, n \in S PROVE n + 1 \in S
  <2>2. PICK f : Good(n, f)  BY <1>2
  <2> DEFINE g == [k \in 0 .. n + 1 |-> IF k = n + 1 THEN f[n] \o q.writers[n + 1].bytes ELSE f[k]]
  <2>5. \A k \in 0 .. n : f[k] = IF k = 0 THEN q.bytes ELSE f[k - 1] \o q.writers[k].bytes
    <3>1. \A h : \A k \in 0 .. n :
            [j \in 0 .. n |-> IF j = 0 THEN q.bytes ELSE h[j - 1] \o q.writers[j].bytes][k]
            = IF k = 0 THEN q.bytes ELSE h[k - 1] \o q.writers[k].bytes
      OBVIOUS
    <3>. QED  BY <2>2, <3>1, Zenon
  <2>3. ASSUME NEW k \in 0 .. n + 1
        PROVE  g[k] = IF k = 0 THEN q.bytes ELSE g[k - 1] \o q.writers[k].bytes
    <3>1. CASE k = n + 1
      <4>1. k # 0 /\ g[k - 1] = f[n] /\ g[k] = f[n] \o q.writers[k].bytes  BY <3>1
      <4> HIDE DEF g
      <4>. QED  BY <4>1, Zenon
    <3>2. CASE k # n + 1 /\ k # 0
      <4>1. k \in 0 .. n /\ k - 1 \in 0 .. n  BY <3>2
      <4>2. g[k - 1] = f[k - 1] /\ g[k] = f[k]  BY <4>1
      <4>3. f[k] = f[k - 1] \o q.writers[k].bytes  BY <2>5, <3>2, <4>1, Zenon
      <4> HIDE DEF g
      <4>. QED  BY <3>2, <4>2, <4>3, Zenon
    <3>3. CASE k = 0
      <4>1. g[0] = f[0] /\ 0 \in 0 .. n  OBVIOUS
      <4> HIDE DEF g
      <4>. QED  BY <2>5, <3>3, <4>1, Zenon
    <3>. QED  BY <3>1, <3>2, <3>3
  <2>4. Good(n + 1, g)
    <3>1. [k \in 0 .. n + 1 |-> g[k]]
            = [k \in 0 .. n + 1 |-> IF k = 0 THEN q.bytes ELSE g[k - 1] \o q.writers[k].bytes]
      <4> HIDE DEF g
      <4>. QED  BY <2>3
    <3>. QED  BY <3>1
  <2> HIDE DEF Good, g
  <2>. QED  BY <2>4
<1>3. L \in S
  <2> HIDE DEF S
  <2>. QED  BY <1>0, <1>1, <1>2, SetInduction
<1>. QED  BY <1>3

\* releaseRoom: the parked writers enter in order, up to the first that does not fit.
RoomFor(q, f, n) ==
    /\ n \in 0 .. Len(q.writers)
    /\ \A k \in 1 .. n : Fits(q.cap, f[k - 1], q.writers[k].bytes)
    /\ n = Len(q.writers) \/ ~Fits(q.cap, f[n], q.writers[n + 1].bytes)
\* What releaseRoom makes of a queue, for any number of parked writers.
LEMMA RoomIs ==
    ASSUME NEW q \in Pipe
    PROVE  \E f, n :
             /\ LetIn(q, f) /\ RoomFor(q, f, n)
             /\ ReleaseRoom(q) =
                  Step([q EXCEPT !.bytes = f[n], !.writers = SubSeq(@, n + 1, Len(@))],
                       [i \in 1 .. n |-> ToWriter(q.writers[i].id, TRUE)])
<1> DEFINE L == Len(q.writers)
           with == CHOOSE f : f = [k \in 0 .. L |-> IF k = 0 THEN q.bytes ELSE f[k - 1] \o q.writers[k].bytes]
           fits(k) == \A j \in 1 .. k : Fits(q.cap, with[j - 1], q.writers[j].bytes)
           n == CHOOSE k \in 0 .. L : fits(k) /\ (k = L \/ ~fits(k + 1))
<1>0. L \in Nat /\ q.bytes \in Seq(Token) /\ \A k \in 1 .. L : q.writers[k].bytes \in Seq(Token)
  <2>1. q.writers \in Seq(Writer) /\ q.bytes \in Seq(Token)  BY DEF Pipe
  <2>2. \A k \in 1 .. L : q.writers[k] \in Writer  BY <2>1
  <2>3. L \in Nat  BY <2>1
  <2>. QED  BY <2>1, <2>2, <2>3 DEF Writer
<1>1. with = [k \in 0 .. L |-> IF k = 0 THEN q.bytes ELSE with[k - 1] \o q.writers[k].bytes]
  <2>1. PICK g : g = [k \in 0 .. L |-> IF k = 0 THEN q.bytes ELSE g[k - 1] \o q.writers[k].bytes]
    BY JoinExists
  <2>. QED  BY <2>1, Zenon
<1>2. ReleaseRoom(q) =
        Step([q EXCEPT !.bytes = with[n], !.writers = SubSeq(@, n + 1, Len(@))],
             [i \in 1 .. n |-> ToWriter(q.writers[i].id, TRUE)])
  BY DEF ReleaseRoom
<1> HIDE DEF with
<1>3. LetIn(q, with)
  <2>1. with[0] = q.bytes  BY <1>0, <1>1
  <2>2. \A k \in 1 .. L : with[k] = with[k - 1] \o q.writers[k].bytes
    <3>1. \A h : \A k \in 0 .. L :
            [j \in 0 .. L |-> IF j = 0 THEN q.bytes ELSE h[j - 1] \o q.writers[j].bytes][k]
            = IF k = 0 THEN q.bytes ELSE h[k - 1] \o q.writers[k].bytes
      OBVIOUS
    <3>2. \A k \in 1 .. L : k \in 0 .. L /\ k # 0  BY <1>0
    <3>. QED  BY <1>1, <3>1, <3>2, Zenon
  <2>3. \A k \in 0 .. L : with[k] \in Seq(Token)
    <3> DEFINE S == {m \in Nat : m <= L => with[m] \in Seq(Token)}
    <3>1. 0 \in S  BY <1>0, <2>1
    <3>2. ASSUME NEW m \in Nat, m \in S PROVE m + 1 \in S
      <4>1. SUFFICES ASSUME m + 1 <= L PROVE with[m + 1] \in Seq(Token)  OBVIOUS
      <4>2. m + 1 \in 1 .. L /\ with[m] \in Seq(Token)  BY <1>0, <3>2, <4>1
      <4>3. with[m + 1] = with[m] \o q.writers[m + 1].bytes
        <5>1. with[m + 1] = with[(m + 1) - 1] \o q.writers[m + 1].bytes  BY <2>2, <4>2, Zenon
        <5>2. (m + 1) - 1 = m  OBVIOUS
        <5>. QED  BY <5>1, <5>2, Zenon
      <4>4. q.writers[m + 1].bytes \in Seq(Token)  BY <1>0, <4>2
      <4>. QED  BY <4>2, <4>3, <4>4
    <3>3. Nat \subseteq S
      <4> HIDE DEF S
      <4>. QED  BY <3>1, <3>2, SetInduction
    <3>. QED  BY <1>0, <3>3
  <2>4. with \in [0 .. L -> Seq(Token)]
    <3>1. DOMAIN with = 0 .. L  BY <1>1
    <3>2. with = [k \in 0 .. L |-> with[k]]
      <4>1. \A h : LET c == [j \in 0 .. L |-> IF j = 0 THEN q.bytes ELSE h[j - 1] \o q.writers[j].bytes]
                   IN  c = [k \in 0 .. L |-> c[k]]
        OBVIOUS
      <4>. QED  BY <1>1, <4>1, Zenon
    <3>3. [k \in 0 .. L |-> with[k]] \in [0 .. L -> Seq(Token)]  BY <2>3
    <3>. QED  BY <3>2, <3>3, Zenon
  <2>. QED  BY <2>1, <2>2, <2>4 DEF LetIn
<1>4. \E k \in 0 .. L : fits(k) /\ (k = L \/ ~fits(k + 1))
  <2> DEFINE T == {k \in Nat : k = L \/ (k < L /\ ~Fits(q.cap, with[k], q.writers[k + 1].bytes))}
  <2>1. PICK k \in T : \A m \in T : k <= m
    <3>1. T \in SUBSET Nat /\ L \in T  BY <1>0
    <3> HIDE DEF T
    <3>. QED  BY <3>1, LeastOne
  <2>2. k \in 0 .. L  BY <1>0, <2>1
  <2>3. ASSUME NEW j \in 1 .. k PROVE Fits(q.cap, with[j - 1], q.writers[j].bytes)
    <3>1. j - 1 \in Nat /\ ~(k <= j - 1) /\ j - 1 < L /\ (j - 1) + 1 = j  BY <1>0, <2>2, <2>3
    <3>2. j - 1 \notin T  BY <2>1, <3>1
    <3>. QED  BY <3>1, <3>2
  <2>4. k # L => ~fits(k + 1)
    <3>1. SUFFICES ASSUME k # L PROVE ~fits(k + 1)  OBVIOUS
    <3>2. ~Fits(q.cap, with[k], q.writers[k + 1].bytes)  BY <2>1, <3>1
    <3>3. k + 1 \in 1 .. k + 1 /\ (k + 1) - 1 = k  BY <2>2
    <3>. QED  BY <3>2, <3>3
  <2>. QED  BY <2>2, <2>3, <2>4
<1>5. n \in 0 .. L /\ fits(n) /\ (n = L \/ ~fits(n + 1))  BY <1>4
<1> HIDE DEF n
<1>6. RoomFor(q, with, n)
  <2>1. ASSUME n # L PROVE ~Fits(q.cap, with[n], q.writers[n + 1].bytes)
    <3>1. PICK j \in 1 .. n + 1 : ~Fits(q.cap, with[j - 1], q.writers[j].bytes)  BY <1>5, <2>1
    <3>2. j = n + 1 /\ j - 1 = n  BY <1>5, <3>1
    <3>. QED  BY <3>1, <3>2
  <2>. QED  BY <1>5, <2>1 DEF RoomFor
<1>. QED  BY <1>2, <1>3, <1>6

-----------------------------------------------------------------------------
(* One stream, step by step *)

\* One of the child's output streams: its queue q, what the parent's read of it is doing (w) and
\* what the parent has got of it (g).  Nobody is parked on it once it has ended, and the
\* parent waits just where the queue has it parked.
Flows(q, w, g) ==
    /\ q \in Pipe /\ g \in Seq(Token) /\ w \in {"idle", "waiting", "ended"}
    /\ q.ended => q.reader = 0 /\ q.writers = <<>>
    /\ q.reader # 0 => q.bytes = <<>>
    /\ w = "waiting" <=> q.reader # 0
\* What Deliver makes of one queue's step.
Moved(step, w, g, w2, g2) ==
    /\ w2 = IF Told(step, "reader")
            THEN IF Handed(step) = <<>> THEN "ended" ELSE "idle"
            ELSE w
    /\ g2 = IF Told(step, "reader") THEN g \o Handed(step) ELSE g
\* The bytes of the write that is parked, if one is.
Parked(q) == IF q.writers = <<>> THEN <<>> ELSE q.writers[1].bytes

\* A queue that is left alone.
LEMMA StillFlows ==
    ASSUME NEW q, NEW w, NEW g, NEW w2, NEW g2, Moved(Step(q, <<>>), w, g, w2, g2)
    PROVE  Step(q, <<>>).state = q /\ w2 = w /\ g2 = g
<1>1. Step(q, <<>>).state = q /\ Step(q, <<>>).effects = <<>>  BY DEF Step
<1>2. ~Told(Step(q, <<>>), "reader")  BY <1>1 DEF Told
<1>. QED  BY <1>1, <1>2 DEF Moved

\* Nothing is lost between two sequences and a third.
LEMMA Regroup ==
    ASSUME NEW x \in Seq(Token), NEW y \in Seq(Token), NEW z \in Seq(Token)
    PROVE  /\ (x \o y) \o z = x \o (y \o z) /\ x \o y \in Seq(Token)
           /\ x \o <<>> = x /\ <<>> \o x = x
OBVIOUS

\* A queue's state when it has ended, and when its reader has been answered.
Over(q, b, v) == [q EXCEPT !.bytes = b, !.ended = TRUE, !.reader = 0, !.writers = v]
Rid(q) == [q EXCEPT !.reader = 0]
\* The fields of a queue that has ended.
LEMMA OverIs ==
    ASSUME NEW q \in Pipe, NEW b \in Seq(Token), NEW v \in Seq(Writer)
    PROVE  LET r == Over(q, b, v) IN
           r \in Pipe /\ r.cap = q.cap /\ r.reader = 0 /\ r.ended /\ r.bytes = b /\ r.writers = v
BY DEF Pipe, Over
\* The same, with nobody parked.
LEMMA OverEmpty ==
    ASSUME NEW q, q \in Pipe, NEW b, b \in Seq(Token), NEW r, r = Over(q, b, <<>>)
    PROVE  r \in Pipe /\ r.cap = q.cap /\ r.reader = 0 /\ r.ended /\ r.bytes = b /\ r.writers = <<>>
<1>1. <<>> \in Seq(Writer)  OBVIOUS
<1>. QED  BY <1>1 DEF Over, Pipe
\* The fields of a queue whose reader has been answered.
LEMMA RidIs ==
    ASSUME NEW q \in Pipe
    PROVE  LET r == Rid(q) IN
           r \in Pipe /\ r.cap = q.cap /\ r.reader = 0 /\ r.ended = q.ended /\ r.bytes = q.bytes /\ r.writers = q.writers
BY DEF Pipe, Rid

\* The push p of b to q loses nothing: it is queued, handed over, or parked with its writer.
CarriedOver(q, g, b, p, g2) ==
    /\ (g2 \o p.state.bytes) \o Parked(p.state) = (g \o q.bytes) \o b
    /\ Len(p.state.writers) <= 1
    /\ p.state.writers # <<>> => ~Told(p, "writer")

\* The child's write.
LEMMA PushFlows ==
    ASSUME NEW q, NEW w, NEW g, Flows(q, w, g), ~q.ended,
           NEW id \in Nat, NEW b \in Seq(Token), b # <<>>, NEW p, p = Push(q, id, b),
           NEW w2, NEW g2, Moved(p, w, g, w2, g2)
    PROVE  /\ Flows(p.state, w2, g2) /\ ~p.state.ended
           /\ w2 = "waiting" => w = "waiting"
           /\ q.writers = <<>> => CarriedOver(q, g, b, p, g2)
<1>0. q \in Pipe /\ g \in Seq(Token) /\ q.bytes \in Seq(Token) /\ q.writers \in Seq(Writer) /\ ~q.ended
  BY DEF Flows, Pipe
<1>1. CASE q.reader # 0
  <2>1. /\ p.state = [q EXCEPT !.reader = 0]
        /\ Told(p, "reader") /\ Handed(p) = b /\ Told(p, "writer")
    BY <1>0, <1>1, PushIs
  <2>2. w2 = "idle" /\ g2 = g \o b /\ g2 \in Seq(Token)  BY <1>0, <2>1 DEF Moved
  <2>3. /\ p.state \in Pipe /\ p.state.reader = 0 /\ ~p.state.ended
        /\ p.state.bytes = q.bytes /\ p.state.writers = q.writers
    <3>1. p.state = Rid(q)  BY <2>1 DEF Rid
    <3>. QED  BY <1>0, <3>1, RidIs
  <2>4. Flows(p.state, w2, g2)  BY <2>2, <2>3 DEF Flows
  <2>5. ASSUME q.writers = <<>>
        PROVE  /\ (g2 \o p.state.bytes) \o Parked(p.state) = (g \o q.bytes) \o b
               /\ Len(p.state.writers) <= 1 /\ p.state.writers = <<>>
    <3>1. q.bytes = <<>>  BY <1>1 DEF Flows
    <3>2. Parked(p.state) = <<>>  BY <2>3, <2>5 DEF Parked
    <3>. QED  BY <1>0, <2>2, <2>3, <2>5, <3>1, <3>2
  <2>. QED  BY <2>2, <2>3, <2>4, <2>5 DEF CarriedOver
<1>2. CASE q.reader = 0 /\ ~Fits(q.cap, q.bytes, b)
  <2>1. /\ p.state = [q EXCEPT !.writers = Append(@, [id |-> id, bytes |-> b])]
        /\ ~Told(p, "reader") /\ ~Told(p, "writer")
    BY <1>0, <1>2, PushIs
  <2>2. w2 = w /\ g2 = g  BY <2>1 DEF Moved
  <2>3. /\ p.state \in Pipe /\ p.state.reader = q.reader /\ ~p.state.ended
        /\ p.state.bytes = q.bytes /\ p.state.writers = Append(q.writers, [id |-> id, bytes |-> b])
    <3>1. [id |-> id, bytes |-> b] \in Writer  BY DEF Writer
    <3>2. Append(q.writers, [id |-> id, bytes |-> b]) \in Seq(Writer)  BY <1>0, <3>1
    <3>. QED  BY <1>0, <2>1, <3>2 DEF Pipe
  <2>4. Flows(p.state, w2, g2)  BY <2>2, <2>3 DEF Flows
  <2>5. ASSUME q.writers = <<>>
        PROVE  /\ (g2 \o p.state.bytes) \o Parked(p.state) = (g \o q.bytes) \o b
               /\ Len(p.state.writers) <= 1
    <3>1. p.state.writers = <<[id |-> id, bytes |-> b]>>  BY <2>3, <2>5
    <3>2. Parked(p.state) = b /\ Len(p.state.writers) <= 1  BY <3>1 DEF Parked
    <3>. QED  BY <2>2, <2>3, <3>2
  <2>. QED  BY <2>1, <2>2, <2>3, <2>4, <2>5 DEF CarriedOver
<1>3. CASE q.reader = 0 /\ Fits(q.cap, q.bytes, b)
  <2>1. /\ p.state = [q EXCEPT !.bytes = @ \o b]
        /\ ~Told(p, "reader") /\ Told(p, "writer")
    BY <1>0, <1>3, PushIs
  <2>2. w2 = w /\ g2 = g  BY <2>1 DEF Moved
  <2>3. /\ p.state \in Pipe /\ p.state.reader = q.reader /\ ~p.state.ended
        /\ p.state.bytes = q.bytes \o b /\ p.state.writers = q.writers
    <3>1. q.bytes \o b \in Seq(Token)  BY <1>0
    <3>. QED  BY <1>0, <2>1, <3>1 DEF Pipe
  <2>4. Flows(p.state, w2, g2)  BY <1>3, <2>2, <2>3 DEF Flows
  <2>5. ASSUME q.writers = <<>>
        PROVE  /\ (g2 \o p.state.bytes) \o Parked(p.state) = (g \o q.bytes) \o b
               /\ Len(p.state.writers) <= 1 /\ p.state.writers = <<>>
    <3>1. Parked(p.state) = <<>>  BY <2>3, <2>5 DEF Parked
    <3>2. (g \o (q.bytes \o b)) \o <<>> = (g \o q.bytes) \o b
      <4>0. PICK x \in Seq(Token), y \in Seq(Token) : x = g /\ y = q.bytes  BY <1>0
      <4>1. x \o (y \o b) = (x \o y) \o b /\ x \o y \in Seq(Token)  BY Regroup
      <4>2. (x \o y) \o b \in Seq(Token)  BY <4>1
      <4>. QED  BY <4>0, <4>1, <4>2
    <3>3. Len(p.state.writers) <= 1 /\ p.state.writers = <<>>  BY <2>3, <2>5
    <3>. QED  BY <2>2, <2>3, <3>1, <3>2, <3>3
  <2>. QED  BY <2>2, <2>3, <2>4, <2>5 DEF CarriedOver
<1>. QED  BY <1>1, <1>2, <1>3

\* The end of a stream: what is parked on it is let go of.
LEMMA EndFlows ==
    ASSUME NEW q, NEW w, NEW g, Flows(q, w, g), ~q.ended, NEW w2, NEW g2,
           Moved(End(q), w, g, w2, g2)
    PROVE  Flows(End(q).state, w2, g2) /\ End(q).state.ended /\ g2 \o End(q).state.bytes = g \o q.bytes
<1>0. q \in Pipe /\ g \in Seq(Token) /\ q.bytes \in Seq(Token)  BY DEF Flows, Pipe
<1>1. /\ End(q).state = [q EXCEPT !.ended = TRUE, !.reader = 0, !.writers = <<>>]
      /\ Told(End(q), "reader") <=> q.reader # 0
      /\ q.reader # 0 => Handed(End(q)) = <<>>
  BY <1>0, EndIs
<1> DEFINE r == End(q).state
<1>2. /\ r \in Pipe /\ r.reader = 0 /\ r.writers = <<>> /\ r.ended /\ r.bytes = q.bytes
  <2>1. r = Over(q, q.bytes, <<>>)  BY <1>0, <1>1 DEF Over, Pipe
  <2>. QED  BY <1>0, <2>1, OverEmpty
<1> HIDE DEF r
<1>3. g2 = g  BY <1>0, <1>1 DEF Moved
<1>4. w2 \in {"idle", "ended"}
  <2>1. CASE q.reader # 0  BY <1>1, <2>1 DEF Moved
  <2>2. CASE q.reader = 0  BY <1>1, <2>2 DEF Moved, Flows
  <2>. QED  BY <2>1, <2>2
<1>5. Flows(r, w2, g2)  BY <1>0, <1>2, <1>3, <1>4 DEF Flows
<1>. QED  BY <1>2, <1>3, <1>5 DEF r

\* endWith of the runtime's line, a whole stream, and one with the line behind it.
LastWord(q) == EndWith(q, <<Notice>>)
Whole(q, g) == g \o q.bytes
WithLine(a) == Append(a, Notice)
\* The end with the runtime's line: that comes last.
LEMMA EndWithFlows ==
    ASSUME NEW q, NEW w, NEW g, Flows(q, w, g), ~q.ended, NEW e, e = LastWord(q),
           NEW w2, NEW g2, Moved(e, w, g, w2, g2)
    PROVE  Flows(e.state, w2, g2) /\ e.state.ended /\ Whole(e.state, g2) = WithLine(Whole(q, g))
<1>0. q \in Pipe /\ g \in Seq(Token) /\ q.bytes \in Seq(Token) /\ ~q.ended  BY DEF Flows, Pipe
<1>n. <<Notice>> \in Seq(Token) /\ Notice \in Token  BY DEF Notice, Token
<1>1. /\ e.state = [q EXCEPT !.bytes = IF q.reader = 0 THEN @ \o <<Notice>> ELSE @,
                             !.ended = TRUE, !.reader = 0, !.writers = <<>>]
      /\ Told(e, "reader") <=> q.reader # 0
      /\ q.reader # 0 => Handed(e) = <<Notice>>
  BY <1>0, <1>n, EndWithIs DEF LastWord
<1>2. CASE q.reader = 0
  <2>1. /\ e.state \in Pipe /\ e.state.reader = 0 /\ e.state.writers = <<>> /\ e.state.ended
        /\ e.state.bytes = q.bytes \o <<Notice>>
    <3>1. q.bytes \o <<Notice>> \in Seq(Token)  BY <1>0, <1>n
    <3>2. e.state = Over(q, q.bytes \o <<Notice>>, <<>>)  BY <1>1, <1>2 DEF Over
    <3>3. PICK y : y = q.bytes \o <<Notice>>  OBVIOUS
    <3>4. y \in Seq(Token) /\ e.state = Over(q, y, <<>>)  BY <3>1, <3>2, <3>3
    <3>5. e.state \in Pipe /\ e.state.reader = 0 /\ e.state.ended /\ e.state.bytes = y /\ e.state.writers = <<>>
      BY <1>0, <3>4, OverEmpty
    <3>. QED  BY <3>3, <3>5
  <2>2. g2 = g /\ w2 = w /\ w # "waiting"  BY <1>1, <1>2 DEF Moved, Flows
  <2>3. g \o (q.bytes \o <<Notice>>) = Append(g \o q.bytes, Notice)  BY <1>0, <1>n
  <2>4. Flows(e.state, w2, g2)  BY <1>0, <2>1, <2>2 DEF Flows
  <2>. QED  BY <2>1, <2>2, <2>3, <2>4 DEF Whole, WithLine
<1>3. CASE q.reader # 0
  <2>1. /\ e.state \in Pipe /\ e.state.reader = 0 /\ e.state.writers = <<>> /\ e.state.ended
        /\ e.state.bytes = q.bytes
    <3>1. e.state = Over(q, q.bytes, <<>>)  BY <1>0, <1>1, <1>3 DEF Over, Pipe
    <3>. QED  BY <1>0, <3>1, OverEmpty
  <2>2. g2 = g \o <<Notice>> /\ w2 = "idle" /\ g2 \in Seq(Token)
    <3>1. g \o <<Notice>> \in Seq(Token) /\ <<Notice>> # <<>>  BY <1>0, <1>n
    <3>. QED  BY <1>1, <1>3, <3>1 DEF Moved
  <2>3. q.bytes = <<>>  BY <1>3 DEF Flows
  <2>4. Flows(e.state, w2, g2)  BY <1>0, <2>1, <2>2 DEF Flows
  <2>5. g2 \o <<>> = Append(g \o <<>>, Notice)  BY <1>0, <1>n, <2>2
  <2>. QED  BY <2>1, <2>3, <2>4, <2>5 DEF Whole, WithLine
<1>. QED  BY <1>2, <1>3

-----------------------------------------------------------------------------
(* One read of a stream *)

\* What is taken from the front and what is left make up what was there.
LEMMA Cut ==
    ASSUME NEW x \in Seq(Token), NEW t \in 0 .. Len(x)
    PROVE  LET h == SubSeq(x, 1, t) r == SubSeq(x, t + 1, Len(x)) IN
           h \in Seq(Token) /\ r \in Seq(Token) /\ h \o r = x /\ Len(h) = t
<1>0. Len(x) \in Nat /\ t \in Nat /\ t <= Len(x)  OBVIOUS
<1>1. SubSeq(x, 1, t) \in Seq(Token) /\ Len(SubSeq(x, 1, t)) = t
  <2>1. \A i \in 1 .. t : x[i] \in Token  BY <1>0
  <2>. QED  BY <1>0, <2>1, SubSeqProperties
<1>2. SubSeq(x, t + 1, Len(x)) \in Seq(Token)
  <2>1. \A i \in t + 1 .. Len(x) : x[i] \in Token  BY <1>0
  <2>. QED  BY <1>0, <2>1, SubSeqProperties
<1>3. SubSeq(x, 1, t) \o SubSeq(x, t + 1, Len(x)) = SubSeq(x, 1, Len(x))
  <2>1. /\ 1 \in 1 .. Len(x) + 1 /\ t \in 1 - 1 .. Len(x) /\ Len(x) \in t .. Len(x)  BY <1>0
  <2>. QED  BY <2>1, ConcatAdjacentSubSeq
<1>4. SubSeq(x, 1, Len(x)) = x  BY SubSeqFull
<1>. QED  BY <1>1, <1>2, <1>3, <1>4

\* The parts of a stream, before a read and after it, in one order.
OneOrder(x, h, r, y) == ((x \o h) \o (r \o y)) \o <<>> = (x \o (h \o r)) \o y
\* What has been got, what is got now, what stays and what is let in, in one order.
LEMMA Joins ==
    ASSUME NEW x \in Seq(Token), NEW h \in Seq(Token), NEW r \in Seq(Token), NEW y \in Seq(Token)
    PROVE  (x \o h) \o r = x \o (h \o r) /\ OneOrder(x, h, r, y)
<1>1. (x \o h) \o r = x \o (h \o r)  BY ConcatAssociative
<1>2. PICK m \in Seq(Token) : m = x \o h  BY ConcatProperties
<1>4. (m \o r) \o y = m \o (r \o y)  BY ConcatAssociative
<1>5. m \o (r \o y) \in Seq(Token)
  <2>1. r \o y \in Seq(Token)  BY ConcatProperties
  <2>. QED  BY <2>1, ConcatProperties
<1>6. (m \o (r \o y)) \o <<>> = m \o (r \o y)  BY <1>5, ConcatEmptySeq
<1>. QED  BY <1>1, <1>2, <1>4, <1>6 DEF OneOrder

\* A sequence of at most one has a first, unless it is empty.
LEMMA OnlyOne ==
    ASSUME NEW S, NEW v \in Seq(S), v # <<>>, Len(v) <= 1
    PROVE  Len(v) = 1 /\ v[1] \in S
<1>1. Len(v) \in Nat \ {0}  BY EmptySeq
<1>. QED  BY <1>1

\* The front of the queue is handed over and the writers that now fit are let in.
Refill(q, b, v) == [q EXCEPT !.bytes = b, !.writers = v]
\* The fields of such a queue.
LEMMA RefillIs ==
    ASSUME NEW q \in Pipe, NEW b \in Seq(Token), NEW v \in Seq(Writer)
    PROVE  LET r == Refill(q, b, v) IN
           /\ r \in Pipe /\ r.reader = q.reader /\ r.ended = q.ended /\ r.cap = q.cap
           /\ r.bytes = b /\ r.writers = v
BY DEF Pipe, Refill

\* The read p takes h and leaves r; n parked writers are let in, which makes f[n] of r.
Takes(q, p, h, r, f, n) ==
    /\ h \in Seq(Token) /\ r \in Seq(Token) /\ h # <<>> /\ h \o r = q.bytes
    /\ LetIn(Refill(q, r, q.writers), f) /\ RoomFor(Refill(q, r, q.writers), f, n)
    /\ p.state = Refill(q, f[n], SubSeq(q.writers, n + 1, Len(q.writers)))
    /\ Told(p, "reader") /\ Handed(p) = h
    /\ Told(p, "writer") <=> n # 0
\* The reader is told h and the first n parked writers that theirs was taken.
FrontTold(p, id, h, q, n) ==
    p.effects = <<ToReader(id, h)>> \o [i \in 1 .. n |-> Yes(q.writers[i].id)]
\* What next does when there are bytes, for any number of parked writers.
LEMMA ReadTakes ==
    ASSUME NEW q, q \in Pipe, q.bytes # <<>>, NEW id, NEW p, p = NextRead(q, id)
    PROVE  \E h, r, f, n :
             /\ Takes(q, p, h, r, f, n)
             /\ FrontTold(p, id, h, q, n)
<1>0. q.bytes \in Seq(Token) /\ q.writers \in Seq(Writer) /\ Len(q.writers) \in Nat  BY DEF Pipe
<1>1. Taken(q) \in 1 .. Len(q.bytes)
  <2>1. Len(q.bytes) \in Nat /\ Len(q.bytes) # 0  BY <1>0
  <2>. QED  BY <2>1, ChunkAssumption DEF Taken
<1>x. PICK x \in Seq(Token) : x = q.bytes  BY <1>0
<1>t. PICK t \in 1 .. Len(x) : t = Taken(q)  BY <1>1, <1>x
<1>2. x = q.bytes /\ t = Taken(q)  BY <1>x, <1>t
<1>3. PICK h \in Seq(Token), r \in Seq(Token) :
        h = SubSeq(x, 1, t) /\ r = SubSeq(x, t + 1, Len(x)) /\ h \o r = x /\ h # <<>>
  <2>1. t \in 0 .. Len(x) /\ t # 0  BY <1>2
  <2>2. LET a == SubSeq(x, 1, t) c == SubSeq(x, t + 1, Len(x)) IN
        a \in Seq(Token) /\ c \in Seq(Token) /\ a \o c = x /\ Len(a) = t
    BY <2>1, Cut
  <2>3. PICK a, c : a = SubSeq(x, 1, t) /\ c = SubSeq(x, t + 1, Len(x))  OBVIOUS
  <2>4. a \in Seq(Token) /\ c \in Seq(Token) /\ a \o c = x /\ Len(a) = t  BY <2>2, <2>3
  <2>5. a # <<>>  BY <2>1, <2>4
  <2>. QED  BY <2>3, <2>4, <2>5
<1> DEFINE s == Refill(q, r, q.writers)
<1>4. s \in Pipe /\ s.writers = q.writers /\ s.cap = q.cap  BY <1>0, RefillIs
<1>5. s = [q EXCEPT !.bytes = SubSeq(@, Taken(q) + 1, Len(@))]  BY <1>2, <1>3 DEF Refill, Pipe
<1>6. p = Step(ReleaseRoom(s).state, <<ToReader(id, h)>> \o ReleaseRoom(s).effects)
  BY <1>2, <1>3, <1>5 DEF NextRead
<1> HIDE DEF s
<1>7. PICK f, n :
        /\ LetIn(s, f) /\ RoomFor(s, f, n)
        /\ ReleaseRoom(s) =
             Step([s EXCEPT !.bytes = f[n], !.writers = SubSeq(@, n + 1, Len(@))],
                  [i \in 1 .. n |-> ToWriter(s.writers[i].id, TRUE)])
  BY <1>4, RoomIs
<1> DEFINE W == [i \in 1 .. n |-> ToWriter(s.writers[i].id, TRUE)]
           st == Refill(q, f[n], SubSeq(q.writers, n + 1, Len(q.writers)))
<1>8. ReleaseRoom(s).state = st /\ ReleaseRoom(s).effects = W
  <2>1. [s EXCEPT !.bytes = f[n], !.writers = SubSeq(@, n + 1, Len(@))] = st
    BY <1>4 DEF s, Refill, Pipe
  <2> HIDE DEF W, st
  <2>2. ReleaseRoom(s) = Step(st, W)  BY <1>7, <2>1 DEF W
  <2>. QED  BY <2>2 DEF Step
<1>9. WritersOnly(W, n)
  <2>1. n \in Nat  BY <1>0, <1>4, <1>7 DEF RoomFor
  <2>2. \A i \in 1 .. n : W[i].to = "writer"  BY DEF ToWriter
  <2>3. W = [i \in 1 .. n |-> W[i]]  OBVIOUS
  <2> HIDE DEF W
  <2>. QED  BY <2>1, <2>2, <2>3, ToldOnly
<1> HIDE DEF W, st
<1>10. p = Step(st, <<ToReader(id, h)>> \o W)  BY <1>6, <1>8
<1>11. p.state = st /\ Told(p, "reader") /\ Handed(p) = h /\ (Told(p, "writer") <=> n # 0)
  BY <1>9, <1>10, ReaderFirst
<1>12. h \o r = q.bytes  BY <1>2, <1>3
<1>13. Takes(q, p, h, r, f, n)  BY <1>3, <1>7, <1>11, <1>12 DEF s, st, Takes
<1>14. p.effects = <<ToReader(id, h)>> \o [i \in 1 .. n |-> Yes(q.writers[i].id)]
  <2>1. p.effects = <<ToReader(id, h)>> \o W  BY <1>10 DEF Step
  <2>2. W = [i \in 1 .. n |-> Yes(q.writers[i].id)]  BY <1>4 DEF W, Yes
  <2>. QED  BY <2>1, <2>2
<1>15. FrontTold(p, id, h, q, n)  BY <1>14 DEF FrontTold
<1>. QED  BY <1>13, <1>15

\* The read p of q loses nothing: with no writer parked, and with one.
Passed(q, g, p, g2) ==
    p.state.writers = <<>> /\ g2 \o p.state.bytes = g \o q.bytes /\ ~Told(p, "writer")
PassedOn(q, g, p, g2) ==
    /\ (g2 \o p.state.bytes) \o Parked(p.state) = (g \o q.bytes) \o Parked(q)
    /\ Len(p.state.writers) <= 1
    /\ p.state.writers # <<>> => ~Told(p, "writer")

\* What one read of it does to a stream.
LEMMA ReadFlows ==
    ASSUME NEW q, NEW g, Flows(q, "idle", g), NEW p, p = NextRead(q, 1),
           NEW w2, NEW g2, Moved(p, "waiting", g, w2, g2)
    PROVE  /\ Flows(p.state, w2, g2) /\ p.state.ended = q.ended
           /\ q.writers = <<>> => Passed(q, g, p, g2)
           /\ Len(q.writers) <= 1 => PassedOn(q, g, p, g2)
<1>0. /\ q \in Pipe /\ g \in Seq(Token) /\ q.bytes \in Seq(Token) /\ q.writers \in Seq(Writer)
      /\ q.reader = 0 /\ (q.ended => q.writers = <<>>) /\ q.ended \in BOOLEAN
  BY DEF Flows, Pipe
<1>1. CASE q.bytes # <<>>
  <2>0. PICK h0, r0, f, n : Takes(q, p, h0, r0, f, n)  BY <1>0, <1>1, ReadTakes
  <2>00. PICK h \in Seq(Token), r \in Seq(Token) : h = h0 /\ r = r0  BY <2>0 DEF Takes
  <2>1. /\ h # <<>> /\ h \o r = q.bytes
        /\ LetIn(Refill(q, r, q.writers), f) /\ RoomFor(Refill(q, r, q.writers), f, n)
        /\ p.state = Refill(q, f[n], SubSeq(q.writers, n + 1, Len(q.writers)))
        /\ Told(p, "reader") /\ Handed(p) = h
        /\ Told(p, "writer") <=> n # 0
    BY <2>0, <2>00 DEF Takes
  <2>2. w2 = "idle" /\ g2 = g \o h  BY <2>1 DEF Moved
  <2>3. PICK v \in Seq(Writer) : v = q.writers  BY <1>0
  <2>4. Refill(q, r, q.writers).writers = v /\ Refill(q, r, q.writers).bytes = r  BY <1>0, <2>3, RefillIs
  <2>5. /\ n \in 0 .. Len(v) /\ f \in [0 .. Len(v) -> Seq(Token)] /\ f[0] = r
        /\ \A k \in 1 .. Len(v) : f[k] = f[k - 1] \o v[k].bytes
    BY <2>1, <2>4 DEF LetIn, RoomFor
  <2>6. f[n] \in Seq(Token) /\ SubSeq(v, n + 1, Len(v)) \in Seq(Writer)
    <3>1. f[n] \in Seq(Token)  BY <2>5
    <3>2. \A i \in n + 1 .. Len(v) : v[i] \in Writer  BY <2>5
    <3>. QED  BY <2>5, <3>1, <3>2
  <2>7. PICK b \in Seq(Token), u \in Seq(Writer) : b = f[n] /\ u = SubSeq(v, n + 1, Len(v))  BY <2>6
  <2>8. p.state = Refill(q, b, u)  BY <2>1, <2>3, <2>7
  <2>9. /\ p.state \in Pipe /\ p.state.reader = 0 /\ p.state.ended = q.ended
        /\ p.state.bytes = b /\ p.state.writers = u
    <3>1. PICK z \in Pipe : z = q  BY <1>0
    <3>2. p.state = Refill(z, b, u)  BY <2>8, <3>1
    <3>3. /\ p.state \in Pipe /\ p.state.reader = z.reader /\ p.state.ended = z.ended
          /\ p.state.bytes = b /\ p.state.writers = u
      BY <3>2, RefillIs
    <3>. QED  BY <1>0, <3>1, <3>3
  <2>10. v = <<>> => u = <<>> /\ n = 0  BY <2>5, <2>7
  <2>11. Flows(p.state, w2, g2)
    <3>1. g2 \in Seq(Token)  BY <1>0, <2>2
    <3>2. p.state.ended => p.state.writers = <<>>  BY <1>0, <2>3, <2>9, <2>10
    <3>. QED  BY <2>2, <2>9, <3>1, <3>2 DEF Flows
  <2>12. PICK x \in Seq(Token) : x = g  BY <1>0
  <2>13. (x \o h) \o r = x \o (h \o r)  BY Joins
  <2>14. ASSUME v = <<>>
         PROVE  u = <<>> /\ g2 \o b = g \o q.bytes /\ ~Told(p, "writer")
    <3>1. b = r  BY <2>5, <2>7, <2>10, <2>14
    <3>2. (x \o h) \o r = x \o (h \o r)  BY Joins
    <3>. QED  BY <2>1, <2>2, <2>10, <2>12, <2>14, <3>1, <3>2
  <2>15. ASSUME Len(v) <= 1, v # <<>>
         PROVE  /\ (g2 \o b) \o Parked(p.state) = (g \o q.bytes) \o Parked(q)
                /\ Len(u) <= 1 /\ (u # <<>> => ~Told(p, "writer"))
    <3>1. Len(v) = 1 /\ v[1] \in Writer  BY <2>15, OnlyOne
    <3>2. PICK y \in Seq(Token) : y = v[1].bytes  BY <3>1 DEF Writer
    <3>3. Parked(q) = y  BY <2>3, <2>15, <3>2 DEF Parked
    <3>4. CASE n = 0
      <4>1. u = v /\ b = r
        <5>1. u = SubSeq(v, 1, Len(v))  BY <2>7, <3>4
        <5>2. u = v  BY <5>1, SubSeqFull
        <5>. QED  BY <2>5, <2>7, <3>4, <5>2
      <4>2. Parked(p.state) = y  BY <2>9, <2>15, <3>2, <4>1 DEF Parked
      <4>4. (g2 \o b) \o Parked(p.state) = (g \o q.bytes) \o Parked(q)
        BY <2>1, <2>2, <2>12, <2>13, <3>3, <4>1, <4>2
      <4>5. ~Told(p, "writer")  BY <2>1, <3>4
      <4>6. Len(u) <= 1  BY <2>15, <4>1
      <4>. QED  BY <4>4, <4>5, <4>6
    <3>5. CASE n = 1
      <4>1. u = <<>>
        <5>1. u = SubSeq(v, 2, 1)  BY <2>7, <3>1, <3>5
        <5>. QED  BY <5>1, SubSeqEmpty
      <4>2. b = r \o y
        <5>1. f[1] = f[1 - 1] \o v[1].bytes  BY <2>5, <3>1
        <5>2. 1 - 1 = 0  OBVIOUS
        <5>. QED  BY <2>5, <2>7, <3>2, <3>5, <5>1, <5>2
      <4>3. Parked(p.state) = <<>>  BY <2>9, <4>1 DEF Parked
      <4>4. ((x \o h) \o (r \o y)) \o <<>> = (x \o (h \o r)) \o y
        <5>1. OneOrder(x, h, r, y)  BY Joins
        <5>. QED  BY <5>1, Zenon DEF OneOrder
      <4>5. (g2 \o b) \o Parked(p.state) = (g \o q.bytes) \o Parked(q)
        BY <2>1, <2>2, <2>12, <3>3, <4>2, <4>3, <4>4
      <4>6. Len(u) <= 1  BY <4>1
      <4>. QED  BY <4>1, <4>5, <4>6
    <3>6. n \in {0, 1}  BY <2>5, <3>1
    <3>. QED  BY <3>4, <3>5, <3>6
  <2>16. ASSUME v = <<>>
         PROVE  /\ (g2 \o b) \o Parked(p.state) = (g \o q.bytes) \o Parked(q) /\ Len(u) <= 1
    <3>1. Parked(q) = <<>> /\ Parked(p.state) = <<>>  BY <2>3, <2>9, <2>14, <2>16 DEF Parked
    <3>2. Len(u) <= 1  BY <2>14, <2>16
    <3>. QED  BY <2>14, <2>16, <3>1, <3>2
  <2>. QED  BY <2>3, <2>9, <2>11, <2>14, <2>15, <2>16 DEF Passed, PassedOn
<1>2. CASE q.bytes = <<>> /\ q.ended
  <2>1. p = Step(q, <<ToReader(1, <<>>)>>)  BY <1>2 DEF NextRead
  <2>2. /\ p.state = q /\ DOMAIN p.effects = {1}
        /\ p.effects[1].to = "reader" /\ p.effects[1].bytes = <<>>
    BY <2>1 DEF Step, ToReader
  <2>3. Told(p, "reader") /\ ~Told(p, "writer")  BY <2>2 DEF Told
  <2>4. Handed(p) = <<>>
    <3>1. (CHOOSE k \in DOMAIN p.effects : p.effects[k].to = "reader") = 1  BY <2>2
    <3>. QED  BY <2>2, <3>1 DEF Handed
  <2>5. w2 = "ended" /\ g2 = g  BY <1>0, <2>3, <2>4 DEF Moved
  <2>6. Flows(p.state, w2, g2)  BY <1>0, <2>2, <2>5 DEF Flows
  <2>. QED  BY <1>0, <2>2, <2>3, <2>5, <2>6 DEF Passed, PassedOn
<1>3. CASE q.bytes = <<>> /\ ~q.ended
  <2>1. p = Step([q EXCEPT !.reader = 1], <<>>)  BY <1>0, <1>3 DEF NextRead
  <2>2. p.state = [q EXCEPT !.reader = 1] /\ p.effects = <<>>  BY <2>1 DEF Step
  <2>3. ~Told(p, "reader") /\ ~Told(p, "writer")  BY <2>2 DEF Told
  <2>4. w2 = "waiting" /\ g2 = g  BY <2>3 DEF Moved
  <2>5. /\ p.state \in Pipe /\ p.state.reader = 1 /\ p.state.ended = q.ended
        /\ p.state.bytes = q.bytes /\ p.state.writers = q.writers
    BY <1>0, <2>2 DEF Pipe
  <2>6. Flows(p.state, w2, g2)  BY <1>0, <1>3, <2>4, <2>5 DEF Flows
  <2>7. Parked(p.state) = Parked(q)  BY <2>5 DEF Parked
  <2>. QED  BY <2>3, <2>4, <2>5, <2>6, <2>7 DEF Passed, PassedOn
<1>. QED  BY <1>0, <1>1, <1>2, <1>3

-----------------------------------------------------------------------------
(* The streams of a child *)

\* What is in a stream: what the parent has got of it and what is queued.
All(s) == Whole(queue[s], got[s])

\* The streams move as the queues say, end when the child's services stop, and keep the parent
\* waiting only where it holds a handle.
PipesInv ==
    /\ DOMAIN queue = Streams
    /\ \A s \in Outputs :
         /\ Flows(queue[s], waits[s], got[s])
         /\ queue[s].ended <=> stopped
         /\ waits[s] = "waiting" => handle \in {"open", "closed"}

\* A step that leaves the output streams alone.
StreamsStay ==
    \A s \in Outputs : queue'[s] = queue[s] /\ waits'[s] = waits[s] /\ got'[s] = got[s]
\* A step that leaves the streams, the end and the writer that waits as they are.
Stays ==
    /\ StreamsStay /\ UNCHANGED <<stopped, cause, exited, said>>
    /\ worker \in {"terminated", "refused"} <=> worker' \in {"terminated", "refused"}
    /\ worker \in {"writing", "dead"} => worker' \in {"writing", "dead"}
    /\ worker = "returned" => worker' = "returned"
    /\ inbox' \cap {"ok", "threw"} # {} =>
         inbox \cap {"ok", "threw"} # {} \/ worker' = "returned"

\* A step that stops the child's services: both output streams end, whole, and the error stream
\* with the runtime's line where the child threw or died.
Stopping ==
    /\ ~stopped /\ stopped' /\ worker' \in {"terminated", "refused"} /\ UNCHANGED said
    /\ \A s \in Outputs : Flows(queue'[s], waits'[s], got'[s]) /\ queue'[s].ended
    /\ All("out")' = All("out")
    /\ \/ All("err")' = All("err") /\ cause' \in {"refused", "ok", "no load", "killed"}
       \/ All("err")' = WithLine(All("err")) /\ cause' \in {"threw", "died"}
    /\ exited' # "none" /\ (exited' = "0" => "ok" \in inbox /\ cause' = "ok")

-----------------------------------------------------------------------------
\* What Deliver makes of one output stream.
LEMMA DeliverOn ==
    ASSUME NEW steps, NEW asking, Deliver(steps, asking), NEW s \in Outputs
    PROVE  /\ queue'[s] = steps[s].state
           /\ Moved(steps[s], IF s \in asking THEN "waiting" ELSE waits[s], got[s], waits'[s], got'[s])
<1>1. s \in Streams  BY DEF Streams
<1>. QED  BY <1>1 DEF Deliver, Moved

\* What Deliver makes of the streams when one queue moves.
LEMMA DeliverTo ==
    ASSUME DOMAIN queue = Streams, NEW t \in Streams, NEW step, NEW asking, asking \subseteq {t},
           Deliver(Only(t, step), asking), NEW s \in Outputs
    PROVE  /\ s # t => queue'[s] = queue[s] /\ waits'[s] = waits[s] /\ got'[s] = got[s]
           /\ s = t => /\ queue'[s] = step.state
                       /\ Moved(step, IF s \in asking THEN "waiting" ELSE waits[s], got[s], waits'[s], got'[s])
<1>1. s \in Streams  BY DEF Streams
<1>2. CASE s = t
  <2>1. Only(t, step)[s] = step  BY <1>1, <1>2 DEF Only, Untouched
  <2>. QED  BY <1>2, <2>1, DeliverOn
<1>3. CASE s # t
  <2>1. Only(t, step)[s] = Step(queue[s], <<>>)  BY <1>1, <1>3 DEF Only, Untouched
  <2>2. Moved(Step(queue[s], <<>>), waits[s], got[s], waits'[s], got'[s]) /\ queue'[s] = Step(queue[s], <<>>).state
    BY <1>3, <2>1, DeliverOn
  <2>. QED  BY <1>3, <2>2, StillFlows
<1>. QED  BY <1>2, <1>3

\* The handlers of the child's input leave its output streams alone.
LEMMA InputOnly ==
    ASSUME DOMAIN queue = Streams, NEW step, Deliver(Only("in", step), {})
    PROVE  StreamsStay
<1>1. "in" \in Streams /\ \A s \in Outputs : s # "in"  BY DEF Streams, Outputs
<1>2. {} \subseteq {"in"}  OBVIOUS
<1>3. ASSUME NEW s \in Outputs
      PROVE  queue'[s] = queue[s] /\ waits'[s] = waits[s] /\ got'[s] = got[s]
  BY <1>1, <1>2, DeliverTo
<1>. QED  BY <1>3 DEF StreamsStay

\* Both output streams end.
LEMMA BothEnd ==
    ASSUME PipesInv, ~stopped, NEW steps, Deliver(steps, {}), steps["out"] = End(queue["out"]),
           steps["err"] \in {Quiet, WithNotice}
    PROVE  /\ \A s \in Outputs : Flows(queue'[s], waits'[s], got'[s]) /\ queue'[s].ended
           /\ All("out")' = All("out")
           /\ steps["err"] = Quiet => All("err")' = All("err")
           /\ steps["err"] = WithNotice => All("err")' = WithLine(All("err"))
<1>1. \A s \in Outputs : Flows(queue[s], waits[s], got[s]) /\ ~queue[s].ended  BY DEF PipesInv
<1>2. Outputs = {"out", "err"}  BY DEF Outputs
<1>3. ASSUME NEW s \in Outputs
      PROVE  queue'[s] = steps[s].state /\ Moved(steps[s], waits[s], got[s], waits'[s], got'[s])
  BY <1>3, DeliverOn
<1>4. ASSUME NEW s \in Outputs, steps[s] = End(queue[s])
      PROVE  Flows(queue'[s], waits'[s], got'[s]) /\ queue'[s].ended /\ All(s)' = All(s)
  <2>1. Moved(End(queue[s]), waits[s], got[s], waits'[s], got'[s]) /\ queue'[s] = End(queue[s]).state
    BY <1>3, <1>4
  <2>2. Flows(queue[s], waits[s], got[s]) /\ ~queue[s].ended  BY <1>1
  <2>3. /\ Flows(End(queue[s]).state, waits'[s], got'[s]) /\ End(queue[s]).state.ended
        /\ got'[s] \o End(queue[s]).state.bytes = got[s] \o queue[s].bytes
    <3>1. PICK q, w, g, w2, g2 : q = queue[s] /\ w = waits[s] /\ g = got[s] /\ w2 = waits'[s] /\ g2 = got'[s]
      OBVIOUS
    <3>2. Flows(q, w, g) /\ ~q.ended /\ Moved(End(q), w, g, w2, g2)  BY <2>1, <2>2, <3>1
    <3>3. Flows(End(q).state, w2, g2) /\ End(q).state.ended /\ g2 \o End(q).state.bytes = g \o q.bytes
      BY <3>2, EndFlows
    <3>. QED  BY <3>1, <3>3
  <2>. QED  BY <2>1, <2>3 DEF All, Whole
<1>5. ASSUME steps["err"] = WithNotice
      PROVE  /\ Flows(queue'["err"], waits'["err"], got'["err"]) /\ queue'["err"].ended
             /\ All("err")' = WithLine(All("err"))
  <2> DEFINE q == queue["err"]
             e == LastWord(q)
  <2>1. Moved(e, waits["err"], got["err"], waits'["err"], got'["err"]) /\ queue'["err"] = e.state
    BY <1>2, <1>3, <1>5 DEF WithNotice, LastWord
  <2>2. Flows(q, waits["err"], got["err"]) /\ ~q.ended  BY <1>1, <1>2
  <2>3. /\ Flows(e.state, waits'["err"], got'["err"]) /\ e.state.ended
        /\ Whole(e.state, got'["err"]) = WithLine(Whole(q, got["err"]))
    <3>1. PICK r, w, g, w2, g2 :
            r = q /\ w = waits["err"] /\ g = got["err"] /\ w2 = waits'["err"] /\ g2 = got'["err"]
      OBVIOUS
    <3>3. PICK x : x = LastWord(r)  OBVIOUS
    <3>2. Flows(r, w, g) /\ ~r.ended /\ Moved(x, w, g, w2, g2)  BY <2>1, <2>2, <3>1, <3>3
    <3>4. Flows(x.state, w2, g2) /\ x.state.ended /\ Whole(x.state, g2) = WithLine(Whole(r, g))
      BY <3>2, <3>3, EndWithFlows
    <3>. QED  BY <3>1, <3>3, <3>4
  <2>. QED  BY <2>1, <2>3 DEF All, Whole
<1>. QED  BY <1>2, <1>4, <1>5 DEF Quiet

\* shutdown, the first time.
LEMMA ShutdownIs ==
    ASSUME PipesInv, ~stopped, NEW e \in {Quiet, WithNotice}, Shutdown(e)
    PROVE  /\ stopped' /\ worker' = "terminated"
           /\ \A s \in Outputs : Flows(queue'[s], waits'[s], got'[s]) /\ queue'[s].ended
           /\ All("out")' = All("out")
           /\ e = Quiet => All("err")' = All("err")
           /\ e = WithNotice => All("err")' = WithLine(All("err"))
<1> DEFINE steps == [Untouched EXCEPT !["out"] = End(queue["out"]), !["err"] = e]
<1>1. stopped' = TRUE /\ worker' = "terminated" /\ Deliver(steps, {})  BY DEF Shutdown
<1>2. steps["out"] = End(queue["out"]) /\ steps["err"] = e  BY DEF Untouched, Streams, Outputs
<1> HIDE DEF steps
<1>. QED  BY <1>1, <1>2, BothEnd

-----------------------------------------------------------------------------
(* What a step does to them *)

\* The services have stopped exactly when the child has an exit code, a cause and no thread.
EndInv ==
    /\ stopped <=> exited # "none"
    /\ stopped <=> cause # "none"
    /\ stopped <=> worker \in {"terminated", "refused"}

\* Something ended a child that had not ended.
LEMMA Ended ==
    ASSUME EndInv, PipesInv, ~stopped, NEW e \in {Quiet, WithNotice}, Shutdown(e),
           NEW code \in {"0", "-1"}, NEW why, Exit(code, why), UNCHANGED said,
           \/ e = Quiet /\ why \in {"ok", "no load", "killed"}
           \/ e = WithNotice /\ why \in {"threw", "died"},
           code = "0" => why = "ok" /\ "ok" \in inbox
    PROVE  Stopping
<1>1. exited' = code /\ cause' = why  BY DEF EndInv, Exit, Settle
<1>2. /\ stopped' /\ worker' = "terminated"
      /\ \A s \in Outputs : Flows(queue'[s], waits'[s], got'[s]) /\ queue'[s].ended
      /\ All("out")' = All("out")
      /\ e = Quiet => All("err")' = All("err")
      /\ e = WithNotice => All("err")' = WithLine(All("err"))
  BY ShutdownIs
<1>. QED  BY <1>1, <1>2 DEF Stopping

\* Nothing more happens to a child that has ended.
LEMMA AlreadyEnded ==
    ASSUME EndInv, stopped, NEW e, Shutdown(e), NEW code, NEW why, Exit(code, why)
    PROVE  StreamsStay /\ UNCHANGED <<stopped, cause, exited, worker>>
BY DEF EndInv, Shutdown, Exit, Settle, StreamsStay, pipeVars

\* Every step leaves the output streams alone, stops the child, or writes or reads one of them.
LEMMA StepKinds ==
    ASSUME LifeInv, EndInv, PipesInv, Next
    PROVE  \/ Stays \/ Stopping
           \/ \E s \in Outputs, n \in Sizes : ChildWrite(s, n)
           \/ \E s \in Outputs : ParentRead(s)
<1> USE DEF hostVars, pipeVars
<1>0. stopped \in BOOLEAN /\ DOMAIN queue = Streams  BY DEF LifeInv, Settled, PipesInv
<1>1. CASE Spawn  BY <1>1 DEF Spawn, Stays, StreamsStay
<1>2. CASE SpawnRefused
  <2>1. /\ ~stopped /\ handle = "none" /\ exited = "none"  BY <1>2 DEF SpawnRefused, LifeInv, Unborn
  <2>2. ASSUME NEW s \in Outputs
        PROVE  Flows(queue'[s], waits'[s], got'[s]) /\ queue'[s].ended /\ All(s)' = All(s)
    <3>1. PICK q, w, g : q = queue[s] /\ w = waits[s] /\ g = got[s]  OBVIOUS
    <3>2. Flows(q, w, g) /\ w # "waiting" /\ ~q.ended  BY <2>1, <3>1 DEF PipesInv
    <3>3. q \in Pipe /\ q.reader = 0  BY <3>2 DEF Flows
    <3>4. ~Told(End(q), "reader")  BY <3>3, EndIs
    <3>5. Moved(End(q), w, g, w, g)  BY <3>4 DEF Moved
    <3>6. Flows(End(q).state, w, g) /\ End(q).state.ended /\ g \o End(q).state.bytes = g \o q.bytes
      BY <3>2, <3>5, EndFlows
    <3>7. queue'[s] = End(q).state /\ waits' = waits /\ got' = got
      BY <1>2, <3>1 DEF SpawnRefused, Streams
    <3>. QED  BY <3>1, <3>6, <3>7 DEF All, Whole
  <2>3. All("out")' = All("out") /\ All("err")' = All("err")  BY <2>2 DEF Outputs
  <2>. QED  BY <1>2, <2>1, <2>2, <2>3 DEF SpawnRefused, Stopping
<1>3. CASE WorkerReady  BY <1>3 DEF WorkerReady, Stays, StreamsStay
<1>4. CASE ChildRead
  <2>1. StreamsStay  BY <1>0, <1>4, InputOnly DEF ChildRead
  <2>2. worker = "running" /\ worker' \in {"running", "reading"}  BY <1>4 DEF ChildRead
  <2>. QED  BY <1>4, <2>1, <2>2 DEF ChildRead, Stays
<1>5. CASE ChildDies  BY <1>5 DEF ChildDies, Stays, StreamsStay
<1>6. ASSUME NEW r \in {"ok", "threw"}, ChildReturn(r) PROVE Stays
  BY <1>6 DEF ChildReturn, Stays, StreamsStay
<1>7. CASE OnReady  BY <1>7 DEF OnReady, Stays, StreamsStay
<1>8. ASSUME NEW r \in {"ok", "threw"}, OnResult(r) PROVE Stays \/ Stopping
  <2> DEFINE e == IF r = "threw" THEN WithNotice ELSE Quiet
             code == IF r = "ok" THEN "0" ELSE "-1"
  <2>1. /\ Shutdown(e) /\ Exit(code, r) /\ said' = said /\ inbox' \subseteq inbox /\ r \in inbox
    BY <1>8 DEF OnResult
  <2>2. /\ e \in {Quiet, WithNotice} /\ code \in {"0", "-1"}
        /\ \/ e = Quiet /\ r \in {"ok", "no load", "killed"}
           \/ e = WithNotice /\ r \in {"threw", "died"}
        /\ code = "0" => r = "ok"
    OBVIOUS
  <2> HIDE DEF e, code
  <2>3. CASE stopped
    <3>1. StreamsStay /\ UNCHANGED <<stopped, cause, exited, worker>>  BY <2>1, <2>3, AlreadyEnded
    <3>. QED  BY <2>1, <3>1 DEF Stays
  <2>4. CASE ~stopped  BY <2>1, <2>2, <2>4, Ended
  <2>. QED  BY <1>0, <2>3, <2>4
<1>9. CASE OnError
  <2> DEFINE e == IF started THEN WithNotice ELSE Quiet
             why == IF started THEN "died" ELSE "no load"
  <2>1. /\ Shutdown(e) /\ Exit("-1", why) /\ said' = said /\ inbox' \subseteq inbox
    BY <1>9 DEF OnError
  <2>2. /\ e \in {Quiet, WithNotice} /\ "-1" \in {"0", "-1"}
        /\ \/ e = Quiet /\ why \in {"ok", "no load", "killed"}
           \/ e = WithNotice /\ why \in {"threw", "died"}
        /\ "-1" # "0"
    OBVIOUS
  <2> HIDE DEF e, why
  <2>3. CASE stopped
    <3>1. StreamsStay /\ UNCHANGED <<stopped, cause, exited, worker>>  BY <2>1, <2>3, AlreadyEnded
    <3>. QED  BY <2>1, <3>1 DEF Stays
  <2>4. CASE ~stopped  BY <2>1, <2>2, <2>4, Ended
  <2>. QED  BY <1>0, <2>3, <2>4
<1>10. CASE GraceFires  BY <1>10 DEF GraceFires, Stays, StreamsStay
<1>11. CASE PostsLost  BY <1>11 DEF PostsLost, Stays, StreamsStay
<1>12. CASE Register  BY <1>12 DEF Register, Stays, StreamsStay
<1>13. CASE RegisterFailed
  <2>1. CASE worker = "refused"  BY <1>13, <2>1 DEF RegisterFailed, Stays, StreamsStay
  <2>2. CASE worker # "refused"
    <3>1. Shutdown(Quiet) /\ Exit("-1", "killed") /\ said' = said /\ inbox' = inbox
      BY <1>13, <2>2 DEF RegisterFailed, Kill
    <3>2. CASE stopped
      <4>1. StreamsStay /\ UNCHANGED <<stopped, cause, exited, worker>>  BY <3>1, <3>2, AlreadyEnded
      <4>. QED  BY <3>1, <4>1 DEF Stays
    <3>3. CASE ~stopped  BY <3>1, <3>3, Ended
    <3>. QED  BY <1>0, <3>2, <3>3
  <2>. QED  BY <2>1, <2>2
<1>14. CASE Feed \/ CloseFeed
  <2>1. StreamsStay  BY <1>0, <1>14, InputOnly DEF Feed, CloseFeed
  <2>2. worker' = worker \/ (worker = "reading" /\ worker' = "running")  BY <1>14 DEF Feed, CloseFeed
  <2>. QED  BY <1>14, <2>1, <2>2 DEF Feed, CloseFeed, Stays
<1>15. CASE Close
  <2>0. Exit("-1", "killed") /\ said' = said /\ inbox' = inbox  BY <1>15 DEF Close
  <2>1. CASE stopped
    <3>1. Deliver(Only("in", End(queue["in"])), {}) /\ UNCHANGED <<worker, stopped>>
      BY <1>15, <2>1 DEF Close
    <3>2. StreamsStay  BY <1>0, <3>1, InputOnly
    <3>3. UNCHANGED <<cause, exited>>  BY <2>0, <2>1 DEF EndInv, Exit, Settle
    <3>. QED  BY <2>0, <3>1, <3>2, <3>3 DEF Stays
  <2>2. CASE ~stopped
    <3> DEFINE steps == [s \in Streams |-> End(queue[s])]
    <3>1. stopped' = TRUE /\ worker' = "terminated" /\ Deliver(steps, {})  BY <1>15, <2>2 DEF Close
    <3>2. steps["out"] = End(queue["out"]) /\ steps["err"] = Quiet  BY DEF Quiet, Streams, Outputs
    <3>3. exited' = "-1" /\ cause' = "killed"  BY <2>0, <2>2 DEF EndInv, Exit, Settle
    <3> HIDE DEF steps
    <3>4. /\ \A s \in Outputs : Flows(queue'[s], waits'[s], got'[s]) /\ queue'[s].ended
          /\ All("out")' = All("out") /\ All("err")' = All("err")
      BY <2>2, <3>1, <3>2, BothEnd
    <3>. QED  BY <2>0, <2>2, <3>1, <3>3, <3>4 DEF Stopping
  <2>. QED  BY <1>0, <2>1, <2>2
<1>. QED
  BY <1>1, <1>2, <1>3, <1>4, <1>5, <1>6, <1>7, <1>8, <1>9, <1>10, <1>11, <1>12, <1>13, <1>14, <1>15
  DEF Next, Deliveries, Answers

-----------------------------------------------------------------------------
(* The streams as an invariant *)

\* One write of the child, on the stream it is made on and on the other.
LEMMA WriteIs ==
    ASSUME PipesInv, ~stopped, wrote \in Nat, NEW s \in Outputs, NEW n \in Sizes, ChildWrite(s, n)
    PROVE  \E b, p :
             /\ b \in Seq(Token) /\ b # <<>> /\ p = Push(queue[s], wrote + 1, b)
             /\ queue'[s] = p.state /\ Moved(p, waits[s], got[s], waits'[s], got'[s])
             /\ \A t \in Outputs : t # s =>
                  queue'[t] = queue[t] /\ waits'[t] = waits[t] /\ got'[t] = got[t]
             /\ said' = [said EXCEPT ![s] = @ \o b]
             /\ worker' = IF Awaits /\ ~Told(p, "writer") THEN "writing" ELSE worker
<1> DEFINE b0 == [i \in 1 .. n |-> <<wrote + 1, i>>]
<1>1. n \in Nat \ {0}  BY SpawnAssumption
<1>2. b0 \in Seq(Token) /\ b0 # <<>>
  <2>1. \A i \in 1 .. n : <<wrote + 1, i>> \in Token  BY <1>1 DEF Token
  <2>2. b0 \in [1 .. n -> Token]  BY <2>1
  <2>3. 1 \in DOMAIN b0  BY <1>1
  <2> HIDE DEF b0
  <2>4. b0 \in Seq(Token)  BY <1>1, <2>2
  <2>. QED  BY <2>3, <2>4
<1>3. PICK b \in Seq(Token) : b = b0  BY <1>2
<1>4. PICK p : p = Push(queue[s], wrote + 1, b)  OBVIOUS
<1>5. /\ Deliver(Only(s, p), {}) /\ said' = [said EXCEPT ![s] = @ \o b]
      /\ worker' = IF Awaits /\ ~Told(p, "writer") THEN "writing" ELSE worker
  BY <1>3, <1>4 DEF ChildWrite
<1>6. DOMAIN queue = Streams /\ s \in Streams /\ {} \subseteq {s}  BY DEF PipesInv, Streams
<1>7. queue'[s] = p.state /\ Moved(p, waits[s], got[s], waits'[s], got'[s])
  BY <1>5, <1>6, DeliverTo
<1>8. ASSUME NEW t \in Outputs, t # s
      PROVE  queue'[t] = queue[t] /\ waits'[t] = waits[t] /\ got'[t] = got[t]
  BY <1>5, <1>6, <1>8, DeliverTo
<1>9. b # <<>>  BY <1>2, <1>3
<1>. QED  BY <1>4, <1>5, <1>7, <1>8, <1>9

\* One read of the parent, on the stream it reads and on the other.
LEMMA ReadIs ==
    ASSUME PipesInv, NEW s \in Outputs, ParentRead(s)
    PROVE  \E p :
             /\ waits[s] = "idle" /\ p = NextRead(queue[s], 1)
             /\ queue'[s] = p.state /\ Moved(p, "waiting", got[s], waits'[s], got'[s])
             /\ \A t \in Outputs : t # s =>
                  queue'[t] = queue[t] /\ waits'[t] = waits[t] /\ got'[t] = got[t]
             /\ worker' = IF worker = "writing" /\ Told(p, "writer") THEN "running" ELSE worker
<1>1. PICK p : p = NextRead(queue[s], 1)  OBVIOUS
<1>2. /\ Deliver(Only(s, p), {s}) /\ waits[s] = "idle"
      /\ worker' = IF worker = "writing" /\ Told(p, "writer") THEN "running" ELSE worker
  BY <1>1 DEF ParentRead
<1>3. DOMAIN queue = Streams /\ s \in Streams /\ {s} \subseteq {s}  BY DEF PipesInv, Streams
<1>4. queue'[s] = p.state /\ Moved(p, IF s \in {s} THEN "waiting" ELSE waits[s], got[s], waits'[s], got'[s])
  BY <1>2, <1>3, DeliverTo
<1>5. ASSUME NEW t \in Outputs, t # s
      PROVE  queue'[t] = queue[t] /\ waits'[t] = waits[t] /\ got'[t] = got[t]
  BY <1>2, <1>3, <1>5, DeliverTo
<1>6. Moved(p, "waiting", got[s], waits'[s], got'[s])  BY <1>4
<1>. QED  BY <1>1, <1>2, <1>4, <1>5, <1>6

\* A handle is never lost without being closed.
LEMMA HandleStep ==
    ASSUME LifeInv, Next, handle \in {"open", "closed"} PROVE handle' \in {"open", "closed"}
BY DEF LifeInv, Unborn, Next, Spawn, SpawnRefused, WorkerReady, ChildRead, ChildDies, ChildWrite,
       ChildReturn, Deliveries, OnReady, OnResult, OnError, GraceFires,
       PostsLost, Answers, Register, RegisterFailed, ParentRead, Feed, CloseFeed, Close

\* There are always the same three queues.
LEMMA DomainStep ==
    ASSUME LifeInv, PipesInv, Next
    PROVE  DOMAIN queue' = Streams
<1> USE DEF pipeVars, hostVars
<1>1. ASSUME NEW steps, NEW asking, Deliver(steps, asking) PROVE DOMAIN queue' = Streams
  BY <1>1 DEF Deliver
<1>2. ASSUME queue' = queue PROVE DOMAIN queue' = Streams  BY <1>2 DEF PipesInv
<1>3. ASSUME NEW e, Shutdown(e) PROVE DOMAIN queue' = Streams
  <2>1. CASE stopped  BY <1>2, <1>3, <2>1 DEF Shutdown
  <2>2. CASE ~stopped
    <3>1. Deliver([Untouched EXCEPT !["out"] = End(queue["out"]), !["err"] = e], {})  BY <1>3, <2>2 DEF Shutdown
    <3>. QED  BY <1>1, <3>1
  <2>. QED  BY <2>1, <2>2
<1>4. CASE SpawnRefused  BY <1>4 DEF SpawnRefused
<1>5. CASE Close
  <2>1. CASE stopped  BY <1>1, <1>5, <2>1 DEF Close
  <2>2. CASE ~stopped  BY <1>1, <1>5, <2>2 DEF Close
  <2>. QED  BY <2>1, <2>2
<1>6. CASE Spawn \/ WorkerReady \/ ChildDies \/ OnReady \/ GraceFires \/ PostsLost \/ Register
  BY <1>2, <1>6 DEF Spawn, WorkerReady, ChildDies, OnReady, GraceFires, PostsLost, Register
<1>7. CASE ChildRead \/ Feed \/ CloseFeed  BY <1>1, <1>7 DEF ChildRead, Feed, CloseFeed
<1>8. CASE OnError  BY <1>3, <1>8 DEF OnError
<1>9. CASE RegisterFailed
  <2>1. CASE worker = "refused"  BY <1>2, <1>9, <2>1 DEF RegisterFailed
  <2>2. CASE worker # "refused"  BY <1>3, <1>9, <2>2 DEF RegisterFailed, Kill
  <2>. QED  BY <2>1, <2>2
<1>10. ASSUME NEW s \in Outputs, NEW n \in Sizes, ChildWrite(s, n) PROVE DOMAIN queue' = Streams
  BY <1>1, <1>10 DEF ChildWrite
<1>11. ASSUME NEW s \in Outputs, ParentRead(s) PROVE DOMAIN queue' = Streams
  BY <1>1, <1>11 DEF ParentRead
<1>12. ASSUME NEW r \in {"ok", "threw"}, ChildReturn(r) PROVE DOMAIN queue' = Streams
  BY <1>2, <1>12 DEF ChildReturn
<1>13. ASSUME NEW r \in {"ok", "threw"}, OnResult(r) PROVE DOMAIN queue' = Streams
  BY <1>3, <1>13 DEF OnResult
<1>. QED
  BY <1>4, <1>5, <1>6, <1>7, <1>8, <1>9, <1>10, <1>11, <1>12, <1>13 DEF Next, Deliveries, Answers

-----------------------------------------------------------------------------
\* The streams' part of the invariant.
LEMMA PipesStep ==
    ASSUME LifeInv, EndInv, PipesInv, wrote \in Nat, Next PROVE PipesInv'
<1>1. DOMAIN queue' = Streams  BY DomainStep
<1>2. ASSUME NEW s \in Outputs
      PROVE  /\ Flows(queue'[s], waits'[s], got'[s])
             /\ queue'[s].ended <=> stopped'
             /\ waits'[s] = "waiting" => handle' \in {"open", "closed"}
  <2>0. /\ Flows(queue[s], waits[s], got[s]) /\ (queue[s].ended <=> stopped)
        /\ waits[s] = "waiting" => handle \in {"open", "closed"}
    BY DEF PipesInv
  <2>1. CASE Stays
    <3>1. queue'[s] = queue[s] /\ waits'[s] = waits[s] /\ got'[s] = got[s] /\ stopped' = stopped
      BY <2>1 DEF Stays, StreamsStay
    <3>. QED  BY <2>0, <3>1, HandleStep
  <2>2. CASE Stopping
    <3>1. Flows(queue'[s], waits'[s], got'[s]) /\ queue'[s].ended /\ stopped'  BY <2>2 DEF Stopping
    <3>. QED  BY <3>1 DEF Flows
  <2>3. ASSUME NEW u \in Outputs, NEW n \in Sizes, ChildWrite(u, n)
        PROVE  /\ Flows(queue'[s], waits'[s], got'[s])
               /\ queue'[s].ended <=> stopped'
               /\ waits'[s] = "waiting" => handle' \in {"open", "closed"}
    <3>1. ~stopped /\ stopped' = stopped /\ handle' = handle  BY <2>3 DEF ChildWrite, EndInv, hostVars
    <3>2. PICK b, p :
             /\ b \in Seq(Token) /\ b # <<>> /\ p = Push(queue[u], wrote + 1, b)
             /\ queue'[u] = p.state /\ Moved(p, waits[u], got[u], waits'[u], got'[u])
             /\ \A t \in Outputs : t # u =>
                  queue'[t] = queue[t] /\ waits'[t] = waits[t] /\ got'[t] = got[t]
      BY <2>3, <3>1, WriteIs
    <3>3. CASE s # u  BY <2>0, <3>1, <3>2, <3>3
    <3>4. CASE s = u
      <4>1. PICK q, w, g, w2, g2 : q = queue[s] /\ w = waits[s] /\ g = got[s] /\ w2 = waits'[s] /\ g2 = got'[s]
        OBVIOUS
      <4>2. PICK id \in Nat : id = wrote + 1  OBVIOUS
      <4>3. Flows(q, w, g) /\ ~q.ended /\ p = Push(q, id, b) /\ Moved(p, w, g, w2, g2)
        BY <2>0, <3>1, <3>2, <3>4, <4>1, <4>2
      <4>4. Flows(p.state, w2, g2) /\ ~p.state.ended /\ (w2 = "waiting" => w = "waiting")
        BY <3>2, <4>3, PushFlows
      <4>. QED  BY <2>0, <3>1, <3>2, <3>4, <4>1, <4>4
    <3>. QED  BY <3>3, <3>4
  <2>4. ASSUME NEW u \in Outputs, ParentRead(u)
        PROVE  /\ Flows(queue'[s], waits'[s], got'[s])
               /\ queue'[s].ended <=> stopped'
               /\ waits'[s] = "waiting" => handle' \in {"open", "closed"}
    <3>1. stopped' = stopped /\ handle' = handle /\ handle \in {"open", "closed"}
      BY <2>4 DEF ParentRead, hostVars
    <3>2. PICK p :
             /\ waits[u] = "idle" /\ p = NextRead(queue[u], 1)
             /\ queue'[u] = p.state /\ Moved(p, "waiting", got[u], waits'[u], got'[u])
             /\ \A t \in Outputs : t # u =>
                  queue'[t] = queue[t] /\ waits'[t] = waits[t] /\ got'[t] = got[t]
      BY <2>4, ReadIs
    <3>3. CASE s # u  BY <2>0, <3>1, <3>2, <3>3
    <3>4. CASE s = u
      <4>1. PICK q, g, w2, g2 : q = queue[s] /\ g = got[s] /\ w2 = waits'[s] /\ g2 = got'[s]  OBVIOUS
      <4>3. Flows(q, "idle", g) /\ p = NextRead(q, 1) /\ Moved(p, "waiting", g, w2, g2)
        BY <2>0, <3>2, <3>4, <4>1
      <4>4. Flows(p.state, w2, g2) /\ p.state.ended = q.ended  BY <4>3, ReadFlows
      <4>. QED  BY <2>0, <3>1, <3>2, <3>4, <4>1, <4>4
    <3>. QED  BY <3>3, <3>4
  <2>. QED  BY <2>1, <2>2, <2>3, <2>4, StepKinds
<1>. QED  BY <1>1, <1>2 DEF PipesInv

\* The end's part of the invariant.
LEMMA EndStep == ASSUME LifeInv, EndInv, PipesInv, Next PROVE EndInv'
<1>0. stopped \in BOOLEAN  BY DEF LifeInv, Settled
<1>1. CASE Stays  BY <1>0, <1>1 DEF EndInv, Stays
<1>2. CASE Stopping  BY <1>2 DEF EndInv, Stopping
<1>3. ASSUME NEW s \in Outputs, NEW n \in Sizes, ChildWrite(s, n) PROVE EndInv'
  BY <1>0, <1>3 DEF ChildWrite, EndInv, hostVars
<1>4. ASSUME NEW s \in Outputs, ParentRead(s) PROVE EndInv'
  BY <1>0, <1>4 DEF ParentRead, EndInv, hostVars
<1>. QED  BY <1>1, <1>2, <1>3, <1>4, StepKinds

-----------------------------------------------------------------------------
(* A child that is gone is told to everyone *)

\* The runtime's line is the last thing in a.
SaysWhy(a) == a # <<>> /\ a[Len(a)] = Notice

\* A line put at the end is last.
LEMMA LineIsLast ==
    ASSUME NEW a \in Seq(Token) PROVE SaysWhy(WithLine(a))
<1>1. Notice \in Token  BY DEF Notice, Token
<1>. QED  BY <1>1 DEF SaysWhy, WithLine

\* What a stream holds is a sequence.
LEMMA WholeIs ==
    ASSUME NEW q, NEW w, NEW g, Flows(q, w, g) PROVE Whole(q, g) \in Seq(Token)
<1>1. g \in Seq(Token) /\ q.bytes \in Seq(Token)  BY DEF Flows, Pipe
<1>. QED  BY <1>1 DEF Whole

\* A read of a stream on which nobody is parked moves bytes and loses none.
LEMMA ReadKeeps ==
    ASSUME PipesInv, NEW u \in Outputs, ParentRead(u), NEW s \in Outputs, queue[s].writers = <<>>
    PROVE  All(s)' = All(s) /\ queue'[s].writers = <<>>
<1>1. PICK p :
         /\ waits[u] = "idle" /\ p = NextRead(queue[u], 1)
         /\ queue'[u] = p.state /\ Moved(p, "waiting", got[u], waits'[u], got'[u])
         /\ \A t \in Outputs : t # u =>
              queue'[t] = queue[t] /\ waits'[t] = waits[t] /\ got'[t] = got[t]
  BY ReadIs
<1>2. CASE s # u  BY <1>1, <1>2 DEF All
<1>3. CASE s = u
  <2>1. PICK q, g, w2, g2 : q = queue[s] /\ g = got[s] /\ w2 = waits'[s] /\ g2 = got'[s]  OBVIOUS
  <2>2. Flows(q, "idle", g) /\ p = NextRead(q, 1) /\ Moved(p, "waiting", g, w2, g2) /\ q.writers = <<>>
    BY <1>1, <1>3, <2>1 DEF PipesInv
  <2>3. Passed(q, g, p, g2)  BY <2>2, ReadFlows
  <2>. QED  BY <1>1, <1>3, <2>1, <2>3 DEF All, Whole, Passed
<1>. QED  BY <1>2, <1>3

\* Nothing is added to the streams of a child that has ended, and nothing lost.
LEMMA StoppedKeeps ==
    ASSUME LifeInv, EndInv, PipesInv, Next, stopped
    PROVE  /\ stopped' /\ UNCHANGED <<cause, exited, said>>
           /\ \A s \in Outputs : All(s)' = All(s)
<1>1. CASE Stays
  <2>1. \A s \in Outputs : All(s)' = All(s)  BY <1>1 DEF Stays, StreamsStay, All
  <2>. QED  BY <1>1, <2>1 DEF Stays
<1>2. CASE Stopping  BY <1>2 DEF Stopping
<1>3. ASSUME NEW s \in Outputs, NEW n \in Sizes, ChildWrite(s, n) PROVE FALSE
  BY <1>3 DEF ChildWrite, EndInv
<1>4. ASSUME NEW u \in Outputs, ParentRead(u)
      PROVE  /\ stopped' /\ UNCHANGED <<cause, exited, said>>
             /\ \A s \in Outputs : All(s)' = All(s)
  <2>1. \A s \in Outputs : queue[s].writers = <<>>  BY DEF PipesInv, Flows
  <2>2. \A s \in Outputs : All(s)' = All(s)  BY <1>4, <2>1, ReadKeeps
  <2>. QED  BY <1>4, <2>2 DEF ParentRead, hostVars
<1>. QED  BY <1>1, <1>2, <1>3, <1>4, StepKinds

\* A child that threw or died has said why.
WhyInv == cause \in {"threw", "died"} => SaysWhy(All("err"))

\* The reason's part of the invariant.
LEMMA WhyStep == ASSUME LifeInv, EndInv, PipesInv, WhyInv, Next PROVE WhyInv'
<1>0. stopped \in BOOLEAN /\ "err" \in Outputs  BY DEF LifeInv, Settled, Outputs
<1>1. CASE stopped
  <2>1. cause' = cause /\ All("err")' = All("err")  BY <1>0, <1>1, StoppedKeeps
  <2>. QED  BY <2>1 DEF WhyInv
<1>2. CASE ~stopped
  <2>0. cause = "none"  BY <1>2 DEF EndInv
  <2>1. CASE Stopping
    <3>1. PICK q, w, g : q = queue["err"] /\ w = waits["err"] /\ g = got["err"]  OBVIOUS
    <3>2. Whole(q, g) \in Seq(Token)  BY <1>0, <3>1, WholeIs DEF PipesInv
    <3>3. SaysWhy(WithLine(All("err")))  BY <3>1, <3>2, LineIsLast DEF All
    <3>4. cause' \in {"threw", "died"} => All("err")' = WithLine(All("err"))  BY <2>1 DEF Stopping
    <3>. QED  BY <3>3, <3>4 DEF WhyInv
  <2>2. CASE cause' = cause  BY <2>0, <2>2 DEF WhyInv
  <2>3. Stays => cause' = cause  BY DEF Stays
  <2>4. ASSUME NEW s \in Outputs, NEW n \in Sizes, ChildWrite(s, n) PROVE cause' = cause
    BY <2>4 DEF ChildWrite, hostVars
  <2>5. ASSUME NEW s \in Outputs, ParentRead(s) PROVE cause' = cause
    BY <2>5 DEF ParentRead, hostVars
  <2>. QED  BY <2>1, <2>2, <2>3, <2>4, <2>5, StepKinds
<1>. QED  BY <1>0, <1>1, <1>2

-----------------------------------------------------------------------------
\* The variables that hold a value of a small set.
PlainOK ==
    /\ worker \in {"unborn", "refused", "loading", "running", "writing", "reading",
                   "returned", "dead", "terminated"}
    /\ loaded \in {"unsettled", ""} \cup Life!Reasons
    /\ exited \in {"none"} \cup Life!Codes
    /\ timer \in {"unset", "set", "cleared", "fired"}
    /\ cause \in {"none", "refused", "ok", "threw", "died", "no load", "killed"}
    /\ handle \in {"none", "spawning", "open", "failed", "closed"}
\* The set, the flag and the counter.
CountsOK ==
    /\ inbox \subseteq {"ready", "ok", "threw", "error"} /\ started \in BOOLEAN
    /\ wrote \in 0 .. MaxWrites
\* The variables that are functions over the streams.
ShapesOK ==
    waits = [s \in Outputs |-> waits[s]] /\ DOMAIN got = Outputs /\ DOMAIN said = Outputs

\* Every step keeps them in those sets.
LEMMA PlainStep == ASSUME LifeInv, PlainOK, Next PROVE PlainOK'
<1> USE DEF hostVars, pipeVars, PlainOK, Life!Reasons, Life!Codes
<1>0. ASSUME NEW e, Shutdown(e) PROVE worker' \in {worker, "terminated"}
  BY <1>0 DEF Shutdown
<1>1. CASE Spawn  BY <1>1 DEF Spawn
<1>2. CASE SpawnRefused  BY <1>2 DEF SpawnRefused
<1>3. CASE WorkerReady  BY <1>3 DEF WorkerReady
<1>4. CASE ChildRead  BY <1>4 DEF ChildRead
<1>5. CASE ChildDies  BY <1>5 DEF ChildDies
<1>6. ASSUME NEW r \in {"ok", "threw"}, ChildReturn(r) PROVE PlainOK'  BY <1>6 DEF ChildReturn
<1>7. CASE OnReady  BY <1>7 DEF OnReady, Done, Settle
<1>8. ASSUME NEW r \in {"ok", "threw"}, OnResult(r) PROVE PlainOK'
  <2>1. worker' \in {worker, "terminated"}  BY <1>0, <1>8 DEF OnResult
  <2>2. timer' = "cleared" /\ loaded' \in {loaded, ""} /\ handle' = handle
    BY <1>8 DEF OnResult, Done, Settle
  <2>3. exited' \in {exited, "0", "-1"} /\ cause' \in {cause, "ok", "threw"}
    BY <1>8 DEF OnResult, Exit, Settle
  <2>. QED  BY <2>1, <2>2, <2>3
<1>9. CASE OnError  BY <1>0, <1>9 DEF OnError, Done, Exit, Settle
<1>10. CASE GraceFires  BY <1>10 DEF GraceFires, Settle
<1>11. CASE PostsLost
  <2>1. worker' = worker /\ loaded' = loaded /\ exited' = exited /\ timer' = timer
    BY <1>11 DEF PostsLost
  <2>2. cause' = cause /\ handle' = handle  BY <1>11 DEF PostsLost
  <2>3. /\ loaded' \in {"unsettled", ""} \cup Life!Reasons /\ exited' \in {"none"} \cup Life!Codes
        /\ timer' \in {"unset", "set", "cleared", "fired"}
    BY <2>1
  <2>4. worker' \in {"unborn", "refused", "loading", "running", "writing", "reading",
                    "returned", "dead", "terminated"}
    BY <2>1
  <2>. QED  BY <2>2, <2>3, <2>4
<1>12. CASE Register  BY <1>12 DEF Register
<1>13. CASE RegisterFailed
  <2>1. CASE worker = "refused"  BY <1>13, <2>1 DEF RegisterFailed
  <2>2. CASE worker # "refused"  BY <1>0, <1>13, <2>2 DEF RegisterFailed, Kill, Done, Exit, Settle
  <2>. QED  BY <2>1, <2>2
<1>14. CASE Feed \/ CloseFeed  BY <1>14 DEF Feed, CloseFeed
<1>15. CASE Close  BY <1>15 DEF Close, Done, Exit, Settle
<1>16. ASSUME NEW s \in Outputs, NEW n \in Sizes, ChildWrite(s, n) PROVE PlainOK'
  BY <1>16 DEF ChildWrite
<1>17. ASSUME NEW s \in Outputs, ParentRead(s) PROVE PlainOK'  BY <1>17 DEF ParentRead
<1>. QED
  BY <1>1, <1>2, <1>3, <1>4, <1>5, <1>6, <1>7, <1>8, <1>9, <1>10, <1>11, <1>12, <1>13, <1>14, <1>15,
     <1>16, <1>17
  DEF Next, Deliveries, Answers

\* Every step keeps these in theirs.
LEMMA CountsStep == ASSUME CountsOK, Next PROVE CountsOK'
<1> USE DEF hostVars, pipeVars
<1> DEFINE M == {"ready", "ok", "threw", "error"}
<1>1. inbox' \subseteq M
  <2>0. \A r \in {"ok", "threw"} : r \in M /\ "error" \in M /\ "ready" \in M  OBVIOUS
  <2>1. inbox \subseteq M  BY DEF CountsOK
  <2> HIDE DEF M
  <2>2. \/ inbox' \subseteq inbox \/ inbox' = inbox \cup {"ready"} \/ inbox' = inbox \cup {"error"}
        \/ \E r \in {"ok", "threw"} : inbox' = inbox \cup {r}
    BY DEF Next, Spawn, SpawnRefused, WorkerReady, ChildRead, ChildDies, ChildWrite, ChildReturn,
           Deliveries, OnReady, OnResult, OnError, GraceFires, PostsLost, Answers, Register,
           RegisterFailed, ParentRead, Feed, CloseFeed, Close
  <2>. QED  BY <2>0, <2>1, <2>2
<1>2. wrote' = wrote \/ (wrote < MaxWrites /\ wrote' = wrote + 1)
  BY DEF Next, Spawn, SpawnRefused, WorkerReady, ChildRead, ChildDies, ChildWrite, ChildReturn,
         Deliveries, OnReady, OnResult, OnError, GraceFires, PostsLost, Answers, Register,
         RegisterFailed, ParentRead, Feed, CloseFeed, Close
<1>3. wrote' \in 0 .. MaxWrites  BY <1>2, SpawnAssumption DEF CountsOK
<1>4. started' = started \/ started' = TRUE
  BY DEF Next, Spawn, SpawnRefused, WorkerReady, ChildRead, ChildDies, ChildWrite, ChildReturn,
         Deliveries, OnReady, OnResult, OnError, GraceFires, PostsLost, Answers, Register,
         RegisterFailed, Kill, ParentRead, Feed, CloseFeed, Close
<1>5. started' \in BOOLEAN  BY <1>4, Zenon DEF CountsOK
<1>. QED  BY <1>1, <1>3, <1>5 DEF CountsOK

\* Every step leaves functions over the same streams.
LEMMA ShapesStep == ASSUME ShapesOK, Next PROVE ShapesOK'
<1> DEFINE Fine == waits' = [s \in Outputs |-> waits'[s]] /\ DOMAIN got' = Outputs
<1> USE DEF pipeVars, hostVars
<1>1. ASSUME NEW steps, NEW asking, Deliver(steps, asking) PROVE Fine
  <2>1. DOMAIN got' = Outputs  BY <1>1 DEF Deliver
  <2>2. PICK F : waits' = [s \in Outputs |-> F[s]]
    <3> DEFINE F0 == [s \in Outputs |->
                   IF Told(steps[s], "reader")
                   THEN IF Handed(steps[s]) = <<>> THEN "ended" ELSE "idle"
                   ELSE IF s \in asking THEN "waiting" ELSE waits[s]]
    <3>1. waits' = F0  BY <1>1 DEF Deliver
    <3>2. F0 = [s \in Outputs |-> F0[s]]  OBVIOUS
    <3> HIDE DEF F0
    <3>. QED  BY <3>1, <3>2
  <2>3. waits' = [s \in Outputs |-> waits'[s]]  BY <2>2
  <2>. QED  BY <2>1, <2>3
<1>2. ASSUME waits' = waits, got' = got PROVE Fine  BY <1>2 DEF ShapesOK
<1>3. ASSUME NEW e, Shutdown(e) PROVE Fine
  <2>1. CASE stopped  BY <1>2, <1>3, <2>1 DEF Shutdown
  <2>2. CASE ~stopped
    <3>1. Deliver([Untouched EXCEPT !["out"] = End(queue["out"]), !["err"] = e], {})  BY <1>3, <2>2 DEF Shutdown
    <3>. QED  BY <1>1, <3>1
  <2>. QED  BY <2>1, <2>2
<1> HIDE DEF Fine
<1>14. Fine
  <2>4. CASE SpawnRefused  BY <1>2, <2>4 DEF SpawnRefused
  <2>5. CASE Close
    <3>1. CASE stopped  BY <1>1, <2>5, <3>1 DEF Close
    <3>2. CASE ~stopped  BY <1>1, <2>5, <3>2 DEF Close
    <3>. QED  BY <3>1, <3>2
  <2>6. CASE Spawn \/ WorkerReady \/ ChildDies \/ OnReady \/ GraceFires \/ PostsLost \/ Register
    BY <1>2, <2>6 DEF Spawn, WorkerReady, ChildDies, OnReady, GraceFires, PostsLost, Register
  <2>7. CASE ChildRead \/ Feed \/ CloseFeed  BY <1>1, <2>7 DEF ChildRead, Feed, CloseFeed
  <2>8. CASE OnError  BY <1>3, <2>8 DEF OnError
  <2>9. CASE RegisterFailed
    <3>1. CASE worker = "refused"  BY <1>2, <2>9, <3>1 DEF RegisterFailed
    <3>2. CASE worker # "refused"  BY <1>3, <2>9, <3>2 DEF RegisterFailed, Kill
    <3>. QED  BY <3>1, <3>2
  <2>10. ASSUME NEW s \in Outputs, NEW n \in Sizes, ChildWrite(s, n) PROVE Fine
    BY <1>1, <2>10 DEF ChildWrite
  <2>11. ASSUME NEW s \in Outputs, ParentRead(s) PROVE Fine  BY <1>1, <2>11 DEF ParentRead
  <2>12. ASSUME NEW r \in {"ok", "threw"}, ChildReturn(r) PROVE Fine  BY <1>2, <2>12 DEF ChildReturn
  <2>13. ASSUME NEW r \in {"ok", "threw"}, OnResult(r) PROVE Fine  BY <1>3, <2>13 DEF OnResult
  <2>. QED
    BY <2>4, <2>5, <2>6, <2>7, <2>8, <2>9, <2>10, <2>11, <2>12, <2>13 DEF Next, Deliveries, Answers
<1>15. DOMAIN said' = DOMAIN said
  BY DEF Next, Spawn, SpawnRefused, WorkerReady, ChildRead, ChildDies, ChildWrite, ChildReturn,
         Deliveries, OnReady, OnResult, OnError, GraceFires, PostsLost, Answers, Register,
         RegisterFailed, ParentRead, Feed, CloseFeed, Close
<1>. QED  BY <1>14, <1>15 DEF Fine, ShapesOK

-----------------------------------------------------------------------------
\* The invariant behind GoneIsTold.
ToldInv == LifeInv /\ EndInv /\ PipesInv /\ WhyInv /\ PlainOK /\ CountsOK /\ ShapesOK

\* It holds at the start.
LEMMA ToldInit == ASSUME Init PROVE ToldInv
<1>1. LifeInv /\ EndInv /\ WhyInv  BY DEF Init, LifeInv, Settled, Unborn, EndInv, WhyInv
<1>2. PlainOK  BY DEF Init, PlainOK
<1>5. CountsOK
  <2>1. wrote \in 0 .. MaxWrites  BY SpawnAssumption DEF Init
  <2>2. started \in BOOLEAN /\ inbox = {}  BY DEF Init
  <2>. QED  BY <2>1, <2>2 DEF CountsOK
<1>3. ShapesOK  BY DEF Init, ShapesOK
<1>4. PipesInv
  <2>1. DOMAIN queue = Streams  BY DEF Init
  <2>2. ASSUME NEW s \in Outputs
        PROVE  Flows(queue[s], waits[s], got[s]) /\ ~queue[s].ended /\ waits[s] = "idle"
    <3>1. queue[s] = EmptyQueue(CAP) /\ waits[s] = "idle" /\ got[s] = <<>>
      BY DEF Init, Streams, Outputs
    <3>2. PICK q : q = EmptyQueue(CAP)  OBVIOUS
    <3>3. q \in Pipe /\ q.reader = 0 /\ ~q.ended  BY <3>2, SpawnAssumption DEF Pipe, EmptyQueue
    <3>4. Flows(q, "idle", <<>>)  BY <3>3 DEF Flows
    <3>. QED  BY <3>1, <3>2, <3>3, <3>4
  <2>3. ~stopped  BY DEF Init
  <2>. QED  BY <2>1, <2>2, <2>3 DEF PipesInv
<1>. QED  BY <1>1, <1>2, <1>3, <1>4, <1>5 DEF ToldInv

\* Every step keeps it.
LEMMA ToldStep == ASSUME ToldInv, [Next]_vars PROVE ToldInv'
<1>1. CASE Next
  <2>1. wrote \in Nat  BY SpawnAssumption DEF ToldInv, CountsOK
  <2>2. PipesInv' /\ EndInv' /\ WhyInv' /\ PlainOK' /\ CountsOK' /\ ShapesOK'
    BY <1>1, <2>1, PipesStep, EndStep, WhyStep, PlainStep, CountsStep, ShapesStep DEF ToldInv
  <2>3. Settled'
    <3>1. [Life!Next]_(Life!life)  BY <1>1, StepIsEvent DEF ToldInv
    <3>. QED  BY <3>1, EventSettles DEF ToldInv, LifeInv
  <2>4. Unborn'  BY <1>1, UnbornStep DEF ToldInv, LifeInv, Unborn
  <2>. QED  BY <2>2, <2>3, <2>4 DEF ToldInv, LifeInv
<1>2. CASE UNCHANGED vars
  <2> USE <1>2 DEF vars, hostVars, pipeVars, ToldInv
  <2>1. LifeInv'  BY DEF LifeInv, Settled, Unborn
  <2>2. EndInv'  BY DEF EndInv
  <2>3. PipesInv'  BY DEF PipesInv
  <2>4. WhyInv'  BY DEF WhyInv, All
  <2>5. PlainOK'  BY DEF PlainOK
  <2>6. CountsOK'  BY DEF CountsOK
  <2>7. ShapesOK'  BY DEF ShapesOK
  <2>. QED  BY <2>1, <2>2, <2>3, <2>4, <2>5, <2>6, <2>7
<1>. QED  BY <1>1, <1>2

\* It says that a child that is gone is told to everyone.
LEMMA ToldIsTold == ASSUME ToldInv PROVE GoneIsTold
<1> USE DEF ToldInv
<1>1. TypeOK
  <2>1. waits \in [Outputs -> {"idle", "waiting", "ended"}]
    <3>1. \A s \in Outputs : waits[s] \in {"idle", "waiting", "ended"}  BY DEF PipesInv, Flows
    <3>2. waits = [s \in Outputs |-> waits[s]]  BY DEF ShapesOK
    <3>. QED  BY <3>1, <3>2
  <2>2. DOMAIN queue = Streams /\ DOMAIN got = Outputs /\ DOMAIN said = Outputs
    BY DEF PipesInv, ShapesOK
  <2>. QED  BY <2>1, <2>2 DEF PlainOK, CountsOK, LifeInv, Settled, TypeOK
<1>2. GoneIsSettled
  <2>1. SUFFICES ASSUME exited # "none" PROVE GoneIsSettled  BY DEF GoneIsSettled
  <2>2. stopped /\ loaded # "unsettled"  BY <2>1 DEF LifeInv, Settled
  <2>3. \A s \in Outputs : queue[s].ended /\ waits[s] # "waiting"  BY <2>2 DEF PipesInv, Flows
  <2>. QED  BY <2>2, <2>3 DEF GoneIsSettled
<1>3. ReasonIsSaid
  <2>1. cause \in {"threw", "died"} => SaysWhy(All("err"))  BY DEF WhyInv
  <2>. QED  BY <2>1 DEF ReasonIsSaid, SaysWhy, All, Whole
<1>. QED  BY <1>1, <1>2, <1>3 DEF GoneIsTold

\* The invariant holds in every state of every execution, whether the host's write handler
\* waits for the queue or not.
THEOREM ToldInvariance == Spec => []ToldInv
<1>1. Init => ToldInv  BY ToldInit
<1>2. ToldInv /\ [Next]_vars => ToldInv'  BY ToldStep
<1>. QED  BY <1>1, <1>2, PTL DEF Spec

\* shutdown, fail and kill keep the promise to the parent: once a child has an exit code its two
\* output streams have ended, no read of them is left waiting, its load is answered, and the
\* error stream of one that threw or died ends with the reason, however full it was and whatever
\* of it had been read.  For every queue size, every write and every schedule, on all hosts.
THEOREM GoneIsAlwaysTold == Spec => []GoneIsTold
<1>1. ToldInv => GoneIsTold  BY ToldIsTold
<1>. QED  BY <1>1, ToldInvariance, PTL

-----------------------------------------------------------------------------
(* What the parent reads is what the child wrote *)

\* Nothing written is lost between the child and its parent: it is got, queued or parked.
Held(q, g, d) == Len(q.writers) <= 1 /\ Whole(q, g) \o Parked(q) = d
\* What a stream holds is a beginning of what was written to it, and perhaps the runtime's line.
Spoken(s, a, d) ==
    \E n \in 0 .. Len(d) :
        a = SubSeq(d, 1, n) \/ (s = "err" /\ a = WithLine(SubSeq(d, 1, n)))
\* The child waits for the one write that is parked, or has died over it.
OneWaits ==
    \A s \in Outputs : queue[s].writers # <<>> =>
        /\ worker \in {"writing", "dead"}
        /\ \A t \in Outputs : t # s => queue[t].writers = <<>>
\* A result is posted last.
ResultLast == inbox \cap {"ok", "threw"} # {} => worker = "returned"
\* The invariant behind OutputIsTrue.
OutInv ==
    /\ \A s \in Outputs : said[s] \in Seq(Token)
    /\ ~stopped => /\ \A s \in Outputs : Held(queue[s], got[s], said[s])
                   /\ OneWaits /\ ResultLast
    /\ stopped => \A s \in Outputs : Spoken(s, All(s), said[s])
    /\ exited = "0" => \A s \in Outputs : All(s) = said[s]

-----------------------------------------------------------------------------
\* What is parked is a sequence.
LEMMA ParkedIs == ASSUME NEW q \in Pipe PROVE Parked(q) \in Seq(Token)
<1>1. PICK v \in Seq(Writer) : v = q.writers  BY DEF Pipe
<1>2. CASE v = <<>>  BY <1>1, <1>2 DEF Parked
<1>3. CASE v # <<>>
  <2>1. v[1] \in Writer  BY <1>3
  <2>2. v[1].bytes \in Seq(Token)  BY <2>1 DEF Writer
  <2>. QED  BY <1>1, <1>3, <2>2 DEF Parked
<1>. QED  BY <1>2, <1>3

\* The first of two joined sequences is a beginning of the whole.
LEMMA Beginning ==
    ASSUME NEW a \in Seq(Token), NEW y \in Seq(Token)
    PROVE  Len(a) \in 0 .. Len(a \o y) /\ SubSeq(a \o y, 1, Len(a)) = a
<1>1. Len(a) \in Nat /\ Len(y) \in Nat /\ Len(a \o y) = Len(a) + Len(y)  BY ConcatProperties
<1>2. Len(a) \in 0 .. Len(a \o y)  BY <1>1
<1>3. SubSeq(a \o y, 1, Len(a)) = a
  <2>1. PICK d \in Seq(Token) : d = a \o y  BY ConcatProperties
  <2>2. \A i \in 1 .. Len(a) : d[i] = a[i]  BY <2>1
  <2>. QED  BY <1>1, <2>1, <2>2
<1>. QED  BY <1>2, <1>3

\* What is held is spoken, with the runtime's line after it or without.
LEMMA HeldIsSpoken ==
    ASSUME NEW q, NEW w, NEW g, NEW d, Flows(q, w, g), Held(q, g, d), NEW s
    PROVE  /\ Spoken(s, Whole(q, g), d) /\ (s = "err" => Spoken(s, WithLine(Whole(q, g)), d))
           /\ q.writers = <<>> => Whole(q, g) = d
<1>1. q \in Pipe  BY DEF Flows
<1>2. PICK a \in Seq(Token) : a = Whole(q, g)  BY WholeIs
<1>3. PICK y \in Seq(Token) : y = Parked(q)  BY <1>1, ParkedIs
<1>4. d = a \o y  BY <1>2, <1>3 DEF Held
<1>5. Len(a) \in 0 .. Len(d) /\ SubSeq(d, 1, Len(a)) = a  BY <1>4, Beginning
<1>6. ASSUME q.writers = <<>> PROVE a = d
  <2>1. y = <<>>  BY <1>3, <1>6 DEF Parked
  <2>. QED  BY <1>4, <2>1, ConcatEmptySeq
<1>7. Spoken(s, a, d)  BY <1>5 DEF Spoken
<1>8. s = "err" => Spoken(s, WithLine(a), d)  BY <1>5 DEF Spoken
<1>. QED  BY <1>2, <1>6, <1>7, <1>8

\* The child's write, once it waits for each.
LEMMA HeldWrite ==
    ASSUME NEW q, NEW w, NEW g, NEW d, Flows(q, w, g), ~q.ended, Held(q, g, d), q.writers = <<>>,
           NEW id \in Nat, NEW b \in Seq(Token), b # <<>>, NEW p, p = Push(q, id, b),
           NEW w2, NEW g2, Moved(p, w, g, w2, g2)
    PROVE  Held(p.state, g2, d \o b) /\ (p.state.writers # <<>> => ~Told(p, "writer"))
<1>1. CarriedOver(q, g, b, p, g2)  BY PushFlows
<1>2. Whole(q, g) = d  BY HeldIsSpoken
<1>. QED  BY <1>1, <1>2 DEF CarriedOver, Held, Whole

\* The parent's read.
LEMMA HeldRead ==
    ASSUME NEW q, NEW g, NEW d, Flows(q, "idle", g), Held(q, g, d), NEW p, p = NextRead(q, 1),
           NEW w2, NEW g2, Moved(p, "waiting", g, w2, g2)
    PROVE  /\ Held(p.state, g2, d) /\ (p.state.writers # <<>> => ~Told(p, "writer"))
           /\ q.writers = <<>> => p.state.writers = <<>> /\ ~Told(p, "writer")
<1>1. PassedOn(q, g, p, g2) /\ (q.writers = <<>> => Passed(q, g, p, g2))  BY ReadFlows DEF Held
<1>. QED  BY <1>1 DEF Passed, PassedOn, Held, Whole

-----------------------------------------------------------------------------
\* A step that leaves the streams alone keeps it.
LEMMA OutStays == ASSUME EndInv, OutInv, Stays PROVE OutInv'
<1>1. ASSUME NEW s \in Outputs
      PROVE  /\ All(s)' = All(s) /\ queue'[s] = queue[s] /\ got'[s] = got[s]
  BY <1>1 DEF Stays, StreamsStay, All
<1>2. stopped' = stopped /\ said' = said /\ exited' = exited  BY DEF Stays
<1>3. ASSUME ~stopped PROVE OneWaits' /\ ResultLast'
  <2>1. OneWaits /\ ResultLast  BY <1>3 DEF OutInv
  <2>2. OneWaits'  BY <1>1, <2>1 DEF OneWaits, Stays
  <2>3. ResultLast'  BY <2>1 DEF ResultLast, Stays
  <2>. QED  BY <2>2, <2>3
<1>4. \A s \in Outputs : said'[s] \in Seq(Token)  BY <1>2 DEF OutInv
<1>5. ~stopped' => \A s \in Outputs : Held(queue'[s], got'[s], said'[s])  BY <1>1, <1>2 DEF OutInv
<1>6. stopped' => \A s \in Outputs : Spoken(s, All(s)', said'[s])  BY <1>1, <1>2 DEF OutInv
<1>7. exited' = "0" => \A s \in Outputs : All(s)' = said'[s]  BY <1>1, <1>2 DEF OutInv
<1>. QED  BY <1>2, <1>3, <1>4, <1>5, <1>6, <1>7 DEF OutInv

\* So does the step that stops the child: what was parked is lost, and a child that returned had
\* nothing parked.
LEMMA OutStops == ASSUME PipesInv, OutInv, Stopping PROVE OutInv'
<1>0. ~stopped /\ stopped' /\ said' = said /\ Outputs = {"out", "err"}  BY DEF Stopping, Outputs
<1>1. ASSUME NEW s \in Outputs
      PROVE  /\ Spoken(s, All(s), said[s]) /\ (s = "err" => Spoken(s, WithLine(All(s)), said[s]))
             /\ queue[s].writers = <<>> => All(s) = said[s]
  <2>1. PICK q, w, g, d : q = queue[s] /\ w = waits[s] /\ g = got[s] /\ d = said[s]  OBVIOUS
  <2>2. Flows(q, w, g) /\ Held(q, g, d)  BY <1>0, <2>1 DEF PipesInv, OutInv
  <2>3. /\ Spoken(s, Whole(q, g), d) /\ (s = "err" => Spoken(s, WithLine(Whole(q, g)), d))
        /\ q.writers = <<>> => Whole(q, g) = d
    BY <2>2, HeldIsSpoken
  <2>. QED  BY <2>1, <2>3 DEF All
<1>2. ASSUME NEW s \in Outputs PROVE Spoken(s, All(s)', said[s])
  <2>1. All(s)' = All(s) \/ (s = "err" /\ All(s)' = WithLine(All(s)))  BY <1>0 DEF Stopping
  <2>. QED  BY <1>1, <2>1
<1>3. ASSUME exited' = "0", NEW s \in Outputs PROVE All(s)' = said[s]
  <2>1. "ok" \in inbox /\ cause' = "ok"  BY <1>3 DEF Stopping
  <2>2. worker = "returned"  BY <1>0, <2>1 DEF OutInv, ResultLast
  <2>3. queue[s].writers = <<>>  BY <1>0, <2>2 DEF OutInv, OneWaits
  <2>4. All(s)' = All(s)  BY <1>0, <2>1 DEF Stopping
  <2>. QED  BY <1>1, <2>3, <2>4
<1>. QED  BY <1>0, <1>2, <1>3 DEF OutInv

\* So does a write, because the child that makes it has nothing parked.
LEMMA OutWrites ==
    ASSUME Awaits, ToldInv, OutInv, NEW s \in Outputs, NEW n \in Sizes, ChildWrite(s, n) PROVE OutInv'
<1>0. /\ worker = "running" /\ ~stopped /\ stopped' = stopped /\ exited' = exited /\ inbox' = inbox
      /\ exited = "none"
  BY DEF ChildWrite, ToldInv, EndInv, hostVars
<1>1. wrote \in Nat /\ PipesInv  BY SpawnAssumption DEF ToldInv, CountsOK
<1>2. PICK b, p :
         /\ b \in Seq(Token) /\ b # <<>> /\ p = Push(queue[s], wrote + 1, b)
         /\ queue'[s] = p.state /\ Moved(p, waits[s], got[s], waits'[s], got'[s])
         /\ \A t \in Outputs : t # s =>
              queue'[t] = queue[t] /\ waits'[t] = waits[t] /\ got'[t] = got[t]
         /\ said' = [said EXCEPT ![s] = @ \o b]
         /\ worker' = IF Awaits /\ ~Told(p, "writer") THEN "writing" ELSE worker
  BY <1>0, <1>1, WriteIs
<1>3. \A t \in Outputs : queue[t].writers = <<>>  BY <1>0 DEF OutInv, OneWaits
<1>4. said'[s] = said[s] \o b /\ \A t \in Outputs : t # s => said'[t] = said[t]
  BY <1>2 DEF ToldInv, ShapesOK
<1>5. Held(queue'[s], got'[s], said'[s]) /\ (queue'[s].writers # <<>> => ~Told(p, "writer"))
  <2>1. PICK q, w, g, d, w2, g2 : /\ q = queue[s] /\ w = waits[s] /\ g = got[s] /\ d = said[s]
                                  /\ w2 = waits'[s] /\ g2 = got'[s]
    OBVIOUS
  <2>2. PICK id \in Nat : id = wrote + 1  BY <1>1
  <2>3. /\ Flows(q, w, g) /\ ~q.ended /\ Held(q, g, d) /\ q.writers = <<>>
        /\ p = Push(q, id, b) /\ Moved(p, w, g, w2, g2)
    BY <1>0, <1>1, <1>2, <1>3, <2>1, <2>2 DEF PipesInv, OutInv
  <2>4. Held(p.state, g2, d \o b) /\ (p.state.writers # <<>> => ~Told(p, "writer"))
    BY <1>2, <2>3, HeldWrite
  <2>. QED  BY <1>2, <1>4, <2>1, <2>4
<1>6. \A t \in Outputs : Held(queue'[t], got'[t], said'[t])  BY <1>0, <1>2, <1>4, <1>5 DEF OutInv
<1>7. OneWaits'
  <2>1. \A t \in Outputs : t # s => queue'[t].writers = <<>>  BY <1>2, <1>3
  <2>2. queue'[s].writers # <<>> => worker' = "writing"  BY <1>2, <1>5
  <2>. QED  BY <2>1, <2>2 DEF OneWaits
<1>8. ResultLast'
  <2>1. inbox \cap {"ok", "threw"} = {}  BY <1>0 DEF OutInv, ResultLast
  <2>. QED  BY <1>0, <2>1 DEF ResultLast
<1>9. \A t \in Outputs : said'[t] \in Seq(Token)
  <2>1. PICK d \in Seq(Token) : d = said[s]  BY DEF OutInv
  <2>2. PICK e \in Seq(Token) : e = b  BY <1>2
  <2>3. d \o e \in Seq(Token)  BY ConcatProperties
  <2>. QED  BY <1>4, <2>1, <2>2, <2>3 DEF OutInv
<1>. QED  BY <1>0, <1>6, <1>7, <1>8, <1>9 DEF OutInv

\* So does a read, which wakes the child just when its write is let in.
LEMMA OutReads ==
    ASSUME ToldInv, OutInv, NEW s \in Outputs, ParentRead(s) PROVE OutInv'
<1>0. /\ stopped' = stopped /\ exited' = exited /\ inbox' = inbox /\ said' = said
      /\ stopped \in BOOLEAN /\ PipesInv /\ (exited # "none" => stopped)
  BY DEF ParentRead, ToldInv, LifeInv, Settled, hostVars
<1>1. CASE stopped
  <2>1. \A t \in Outputs : queue[t].writers = <<>>  BY <1>0, <1>1 DEF PipesInv, Flows
  <2>2. \A t \in Outputs : All(t)' = All(t)  BY <1>0, <2>1, ReadKeeps
  <2>. QED  BY <1>0, <1>1, <2>2 DEF OutInv
<1>2. CASE ~stopped
  <2>1. PICK p :
         /\ waits[s] = "idle" /\ p = NextRead(queue[s], 1)
         /\ queue'[s] = p.state /\ Moved(p, "waiting", got[s], waits'[s], got'[s])
         /\ \A t \in Outputs : t # s =>
              queue'[t] = queue[t] /\ waits'[t] = waits[t] /\ got'[t] = got[t]
         /\ worker' = IF worker = "writing" /\ Told(p, "writer") THEN "running" ELSE worker
    BY <1>0, ReadIs
  <2>2. /\ Held(queue'[s], got'[s], said[s]) /\ (queue'[s].writers # <<>> => ~Told(p, "writer"))
        /\ queue[s].writers = <<>> => queue'[s].writers = <<>> /\ ~Told(p, "writer")
    <3>1. PICK q, g, d, w2, g2 : q = queue[s] /\ g = got[s] /\ d = said[s] /\ w2 = waits'[s] /\ g2 = got'[s]
      OBVIOUS
    <3>2. /\ Flows(q, "idle", g) /\ Held(q, g, d) /\ p = NextRead(q, 1) /\ Moved(p, "waiting", g, w2, g2)
      BY <1>0, <1>2, <2>1, <3>1 DEF PipesInv, OutInv
    <3>3. /\ Held(p.state, g2, d) /\ (p.state.writers # <<>> => ~Told(p, "writer"))
          /\ q.writers = <<>> => p.state.writers = <<>> /\ ~Told(p, "writer")
      BY <3>2, HeldRead
    <3>. QED  BY <2>1, <3>1, <3>3
  <2>3. \A t \in Outputs : Held(queue'[t], got'[t], said'[t])  BY <1>0, <1>2, <2>1, <2>2 DEF OutInv
  <2>4. OneWaits'
    <3>1. OneWaits  BY <1>2 DEF OutInv
    <3>2. ASSUME NEW t \in Outputs, queue'[t].writers # <<>>
          PROVE  worker' \in {"writing", "dead"} /\ \A u \in Outputs : u # t => queue'[u].writers = <<>>
      <4>1. queue[t].writers # <<>>  BY <2>1, <2>2, <3>2
      <4>2. worker \in {"writing", "dead"} /\ \A u \in Outputs : u # t => queue[u].writers = <<>>
        BY <3>1, <4>1 DEF OneWaits
      <4>3. ~Told(p, "writer")
        <5>1. CASE t = s  BY <2>2, <3>2, <5>1
        <5>2. CASE t # s  BY <2>2, <4>2, <5>2
        <5>. QED  BY <5>1, <5>2
      <4>4. worker' = worker  BY <2>1, <4>3
      <4>5. \A u \in Outputs : u # t => queue'[u].writers = <<>>  BY <2>1, <2>2, <4>2
      <4>. QED  BY <4>2, <4>4, <4>5
    <3>. QED  BY <3>2 DEF OneWaits
  <2>5. ResultLast'
    <3>1. ResultLast  BY <1>2 DEF OutInv
    <3>. QED  BY <1>0, <2>1, <3>1 DEF ResultLast
  <2>. QED  BY <1>0, <1>2, <2>3, <2>4, <2>5 DEF OutInv
<1>. QED  BY <1>0, <1>1, <1>2

\* Every step keeps it.
LEMMA OutStep == ASSUME Awaits, ToldInv, OutInv, [Next]_vars PROVE OutInv'
<1>1. CASE Next
  <2>1. LifeInv /\ EndInv /\ PipesInv  BY DEF ToldInv
  <2>2. \/ Stays \/ Stopping
        \/ \E s \in Outputs, n \in Sizes : ChildWrite(s, n)
        \/ \E s \in Outputs : ParentRead(s)
    BY <1>1, <2>1, StepKinds
  <2>. QED  BY <2>1, <2>2, OutStays, OutStops, OutWrites, OutReads
<1>2. CASE UNCHANGED vars
  BY <1>2 DEF vars, hostVars, pipeVars, OutInv, OneWaits, ResultLast, All
<1>. QED  BY <1>1, <1>2

\* It holds at the start.
LEMMA OutInit == ASSUME Init PROVE OutInv
<1>1. ASSUME NEW s \in Outputs
      PROVE  said[s] = <<>> /\ got[s] = <<>> /\ queue[s] = EmptyQueue(CAP)
  BY DEF Init, Streams, Outputs
<1>2. PICK q : q = EmptyQueue(CAP)  OBVIOUS
<1>3. q.bytes = <<>> /\ q.writers = <<>>  BY <1>2 DEF EmptyQueue
<1>4. Held(q, <<>>, <<>>)  BY <1>3 DEF Held, Whole, Parked
<1>5. OneWaits  BY <1>1, <1>2, <1>3 DEF OneWaits
<1>6. ResultLast  BY DEF Init, ResultLast
<1>7. ~stopped /\ exited = "none"  BY DEF Init
<1>8. \A s \in Outputs : said[s] \in Seq(Token)
  <2>1. <<>> \in Seq(Token)  OBVIOUS
  <2>. QED  BY <1>1, <2>1
<1>9. \A s \in Outputs : Held(queue[s], got[s], said[s])  BY <1>1, <1>2, <1>4
<1>. QED  BY <1>5, <1>6, <1>7, <1>8, <1>9 DEF OutInv

\* It says that what the parent reads is what the child wrote.
LEMMA OutIsTrue == ASSUME ToldInv, OutInv PROVE OutputIsTrue
<1>0. stopped \in BOOLEAN  BY DEF ToldInv, LifeInv, Settled
<1>1. ASSUME NEW s \in Outputs PROVE Spoken(s, All(s), said[s])
  <2>1. CASE stopped  BY <2>1 DEF OutInv
  <2>2. CASE ~stopped
    <3>1. PICK q, w, g, d : q = queue[s] /\ w = waits[s] /\ g = got[s] /\ d = said[s]  OBVIOUS
    <3>2. Flows(q, w, g) /\ Held(q, g, d)  BY <2>2, <3>1 DEF ToldInv, PipesInv, OutInv
    <3>3. Spoken(s, Whole(q, g), d)  BY <3>2, HeldIsSpoken
    <3>. QED  BY <3>1, <3>3 DEF All
  <2>. QED  BY <1>0, <2>1, <2>2
<1>2. OutputInOrder  BY <1>1 DEF OutputInOrder, Spoken, All, Whole, WithLine
<1>3. OutputWhole  BY DEF OutputWhole, OutInv, All, Whole
<1>. QED  BY <1>2, <1>3 DEF OutputIsTrue

\* On a host whose write handler waits for the queue (node.ts), what the parent reads of a stream
\* is at every moment a beginning of what the child wrote to it, in order and without a gap, and
\* all of it once the child has returned: for every queue size, every sequence of writes and every
\* schedule.  Without the wait it is false (README.md, spawn_output_lost).
THEOREM OutputStaysTrue == ASSUME Awaits PROVE Spec => []OutputIsTrue
<1>1. Init => OutInv  BY OutInit
<1>2. ToldInv /\ OutInv /\ [Next]_vars => OutInv'  BY OutStep
<1>3. ToldInv /\ OutInv => OutputIsTrue  BY OutIsTrue
<1>. QED  BY <1>1, <1>2, <1>3, ToldInvariance, PTL DEF Spec


-----------------------------------------------------------------------------
(* ByteQueue: who is told what *)

\* A promise of the driver.
Call == [kind : {"push", "next", "last"}, size : Nat, got : Nat,
         answer : {"waiting", "ok", "refused", "data", "empty", "dropped"}]
\* The effects E give reader r the bytes b (nobody anything, if r is 0), tell the writers yes that
\* their bytes were taken, and the writers no that they were not.
Tells(E, r, b, yes, no) ==
    /\ \A k \in DOMAIN E : \/ r # 0 /\ E[k] = ToReader(r, b)
                           \/ \E w \in yes : E[k] = Yes(w)
                           \/ \E w \in no : E[k] = No(w)
    /\ r # 0 => \E k \in DOMAIN E : E[k] = ToReader(r, b)
    /\ \A w \in yes : \E k \in DOMAIN E : E[k] = Yes(w)
    /\ \A w \in no : \E k \in DOMAIN E : E[k] = No(w)
    /\ r = 0 => b = <<>>
    /\ r \notin yes \cup no /\ yes \cap no = {}
\* What becomes of the promises.
Fate(promise, i, r, b, yes, no) ==
    IF i = r THEN [promise EXCEPT !.answer = IF b = <<>> THEN "empty" ELSE "data", !.got = Len(b)]
    ELSE IF i \in yes THEN [promise EXCEPT !.answer = "ok"]
    ELSE IF i \in no THEN [promise EXCEPT !.answer = "refused"]
    ELSE promise
Kept(pending, r, b, yes, no) ==
    /\ delivered' = delivered \o b
    /\ calls' \in Seq(Call) /\ Len(calls') = Len(pending)
    /\ \A i \in 1 .. Len(pending) : calls'[i] = Fate(pending[i], i, r, b, yes, no)

\* The fields of an effect.
LEMMA ReaderIs ==
    ASSUME NEW r, NEW b
    PROVE  LET e == ToReader(r, b) IN e.to # "writer" /\ e.id = r /\ e.bytes = b
BY DEF ToReader
\* The fields of a writer's answer that its bytes were taken.
LEMMA YesIs == ASSUME NEW w PROVE Yes(w).to = "writer" /\ Yes(w).id = w /\ Yes(w).bytes = <<>> /\ Yes(w).ok
BY DEF Yes, ToWriter
\* And of the answer that they were not.
LEMMA NoIs == ASSUME NEW w PROVE No(w).to = "writer" /\ No(w).id = w /\ No(w).bytes = <<>> /\ ~No(w).ok
BY DEF No, ToWriter

\* A settled promise is a promise.
LEMMA FateIsCall ==
    ASSUME NEW promise \in Call, NEW i, NEW r, NEW b \in Seq(Token), NEW yes, NEW no
    PROVE  Fate(promise, i, r, b, yes, no) \in Call
<1>1. Len(b) \in Nat  OBVIOUS
<1>. QED  BY <1>1 DEF Fate, Call

\* Run settles what the effects tell, whatever their order.
LEMMA RunKeeps ==
    ASSUME delivered \in Seq(Token), NEW pending \in Seq(Call), NEW st, NEW E,
           NEW r, NEW b \in Seq(Token), NEW yes, NEW no, Tells(E, r, b, yes, no),
           Run(Step(st, E), pending)
    PROVE  state' = st /\ Kept(pending, r, b, yes, no)
<1> DEFINE step == Step(st, E)
           mine(i) == {k \in DOMAIN E : E[k].id = i}
           reads == {k \in DOMAIN E : E[k].bytes # <<>>}
<1>0. step.state = st /\ step.effects = E  BY DEF Step
<1>1. /\ state' = st
      /\ calls' = [i \in DOMAIN pending |->
                     IF mine(i) = {} THEN pending[i] ELSE Answered(pending[i], E[CHOOSE k \in mine(i) : TRUE])]
      /\ delivered' = IF reads = {} THEN delivered ELSE delivered \o E[CHOOSE k \in reads : TRUE].bytes
  BY <1>0 DEF Run
<1>2. delivered' = delivered \o b
  <2>1. CASE b = <<>>
    <3>1. \A k \in DOMAIN E : E[k].bytes = <<>>  BY <2>1, ReaderIs, YesIs, NoIs DEF Tells
    <3>2. reads = {}  BY <3>1
    <3>3. delivered \o <<>> = delivered  OBVIOUS
    <3>. QED  BY <1>1, <2>1, <3>2, <3>3
  <2>2. CASE b # <<>>
    <3>1. reads # {}  BY <2>2, ReaderIs, YesIs, NoIs DEF Tells
    <3>2. \A k \in reads : E[k].bytes = b  BY ReaderIs, YesIs, NoIs DEF Tells
    <3> HIDE DEF reads
    <3>3. E[CHOOSE k \in reads : TRUE].bytes = b  BY <3>1, <3>2
    <3>. QED  BY <1>1, <3>1, <3>3
  <2>. QED  BY <2>1, <2>2
<1>3. ASSUME NEW i \in 1 .. Len(pending) PROVE calls'[i] = Fate(pending[i], i, r, b, yes, no)
  <2>0. calls'[i] = IF mine(i) = {} THEN pending[i] ELSE Answered(pending[i], E[CHOOSE k \in mine(i) : TRUE])
    BY <1>1
  <2>r. i # 0  OBVIOUS
  <2>1. CASE i = r
    <3>1. mine(i) # {} /\ \A k \in mine(i) : E[k] = ToReader(r, b)
      BY <2>1, <2>r, ReaderIs, YesIs, NoIs DEF Tells
    <3> HIDE DEF mine
    <3>2. E[CHOOSE k \in mine(i) : TRUE] = ToReader(r, b)  BY <3>1
    <3>3. PICK e : e = ToReader(r, b)  OBVIOUS
    <3>4. e.to # "writer" /\ e.bytes = b  BY <3>3, ReaderIs
    <3>5. Answered(pending[i], e) = Fate(pending[i], i, r, b, yes, no)  BY <2>1, <3>4 DEF Answered, Fate
    <3>. QED  BY <2>0, <3>1, <3>2, <3>3, <3>5
  <2>2. CASE i # r /\ i \in yes
    <3>1. mine(i) # {} /\ \A k \in mine(i) : E[k] = Yes(i)
      BY <2>2, ReaderIs, YesIs, NoIs DEF Tells
    <3> HIDE DEF mine
    <3>2. E[CHOOSE k \in mine(i) : TRUE] = Yes(i)  BY <3>1
    <3>. QED  BY <2>0, <2>2, <3>1, <3>2, ReaderIs, YesIs, NoIs DEF Answered, Fate
  <2>3. CASE i # r /\ i \notin yes /\ i \in no
    <3>1. mine(i) # {} /\ \A k \in mine(i) : E[k] = No(i)
      BY <2>3, ReaderIs, YesIs, NoIs DEF Tells
    <3> HIDE DEF mine
    <3>2. E[CHOOSE k \in mine(i) : TRUE] = No(i)  BY <3>1
    <3>. QED  BY <2>0, <2>3, <3>1, <3>2, ReaderIs, YesIs, NoIs DEF Answered, Fate
  <2>4. CASE i # r /\ i \notin yes /\ i \notin no
    <3>1. mine(i) = {}  BY <2>4, ReaderIs, YesIs, NoIs DEF Tells
    <3>. QED  BY <2>0, <2>4, <3>1 DEF Fate
  <2>. QED  BY <2>1, <2>2, <2>3, <2>4
<1>4. calls' \in Seq(Call) /\ Len(calls') = Len(pending)
  <2>1. \A i \in 1 .. Len(pending) : calls'[i] \in Call
    <3>1. \A i \in 1 .. Len(pending) : pending[i] \in Call  OBVIOUS
    <3>. QED  BY <1>3, <3>1, FateIsCall
  <2>2. PICK L \in Nat : L = Len(pending) /\ DOMAIN pending = 1 .. L  OBVIOUS
  <2>3. calls' = [i \in 1 .. L |-> calls'[i]]  BY <1>1, <2>2
  <2>4. calls' \in [1 .. L -> Call]  BY <2>1, <2>2, <2>3
  <2>. QED  BY <2>2, <2>4
<1>. QED  BY <1>1, <1>2, <1>3, <1>4 DEF Kept

\* Writers, each told the same.
LEMMA TellsWriters ==
    ASSUME NEW n \in Nat, NEW v, \A i \in 1 .. n : v[i].id # 0, NEW ids, ids = {v[i].id : i \in 1 .. n}
    PROVE  /\ Tells([i \in 1 .. n |-> Yes(v[i].id)], 0, <<>>, ids, {})
           /\ Tells([i \in 1 .. n |-> No(v[i].id)], 0, <<>>, {}, ids)
<1>1. \A w \in ids : \E i \in 1 .. n : w = v[i].id  OBVIOUS
<1>2. \A i \in 1 .. n : v[i].id \in ids  OBVIOUS
<1>3. 0 \notin ids  OBVIOUS
<1>4. \A w \in ids : (\E k \in 1 .. n : Yes(v[k].id) = Yes(w)) /\ \E k \in 1 .. n : No(v[k].id) = No(w)  BY <1>1
<1>5. \A k \in 1 .. n : (\E w \in ids : Yes(v[k].id) = Yes(w)) /\ \E w \in ids : No(v[k].id) = No(w)  BY <1>2
<1>. QED  BY <1>3, <1>4, <1>5 DEF Tells
\* A reader told before the writers.
LEMMA TellsFirst ==
    ASSUME NEW W, NEW n \in Nat, WritersOnly(W, n), NEW yes, NEW no, Tells(W, 0, <<>>, yes, no),
           NEW r, NEW b, r # 0, r \notin yes \cup no
    PROVE  Tells(<<ToReader(r, b)>> \o W, r, b, yes, no)
<1> DEFINE E == <<ToReader(r, b)>> \o W
<1>1. DOMAIN E = 1 .. n + 1 /\ E[1] = ToReader(r, b) /\ \A k \in 1 .. n : E[k + 1] = W[k]
  <2>1. PICK e : e = ToReader(r, b)  OBVIOUS
  <2>2. Len(W) = n /\ W \in Seq({W[i] : i \in 1 .. n} \cup {e})  BY DEF WritersOnly
  <2>3. <<e>> \in Seq({W[i] : i \in 1 .. n} \cup {e}) /\ Len(<<e>>) = 1 /\ <<e>>[1] = e  OBVIOUS
  <2>. QED  BY <2>1, <2>2, <2>3
<1>2. DOMAIN W = 1 .. n  BY DEF WritersOnly
<1>3. \A k \in DOMAIN E : k = 1 \/ \E j \in DOMAIN W : E[k] = W[j]
  <2>1. ASSUME NEW k \in 1 .. n + 1, k # 1 PROVE \E j \in 1 .. n : E[k] = W[j]
    <3>1. k - 1 \in 1 .. n /\ (k - 1) + 1 = k  BY <2>1
    <3>. QED  BY <1>1, <3>1
  <2>. QED  BY <1>1, <1>2, <2>1
<1>4. \A j \in DOMAIN W : \E k \in DOMAIN E : E[k] = W[j]
  <2>1. \A j \in 1 .. n : j + 1 \in 1 .. n + 1  OBVIOUS
  <2>. QED  BY <1>1, <1>2, <2>1
<1>5. 1 \in DOMAIN E  BY <1>1
<1> HIDE DEF E
<1>6. \A k \in DOMAIN W : (\E w \in yes : W[k] = Yes(w)) \/ (\E w \in no : W[k] = No(w))  BY DEF Tells
<1>7. /\ \A w \in yes : \E k \in DOMAIN W : W[k] = Yes(w)
      /\ \A w \in no : \E k \in DOMAIN W : W[k] = No(w)
      /\ yes \cap no = {}
  BY DEF Tells
<1>8. \A k \in DOMAIN E : E[k] = ToReader(r, b) \/ (\E w \in yes : E[k] = Yes(w)) \/ (\E w \in no : E[k] = No(w))
  BY <1>1, <1>3, <1>6
<1>9. /\ \A w \in yes : \E k \in DOMAIN E : E[k] = Yes(w)
      /\ \A w \in no : \E k \in DOMAIN E : E[k] = No(w)
  <2>1. ASSUME NEW w \in yes PROVE \E k \in DOMAIN E : E[k] = Yes(w)
    <3>1. PICK j \in DOMAIN W : W[j] = Yes(w)  BY <1>7
    <3>. QED  BY <1>4, <3>1
  <2>2. ASSUME NEW w \in no PROVE \E k \in DOMAIN E : E[k] = No(w)
    <3>1. PICK j \in DOMAIN W : W[j] = No(w)  BY <1>7
    <3>. QED  BY <1>4, <3>1
  <2>. QED  BY <2>1, <2>2
<1>10. Tells(E, r, b, yes, no)  BY <1>1, <1>5, <1>7, <1>8, <1>9 DEF Tells
<1>. QED  BY <1>10 DEF E

\* Those parked on a queue.
Parking(s) == {s.writers[i].id : i \in 1 .. Len(s.writers)}
Named(s) == s \in Pipe /\ \A i \in 1 .. Len(s.writers) : s.writers[i].id \notin {0, s.reader}
\* Push, by its cases.
LEMMA PushTells ==
    ASSUME NEW s \in Pipe, NEW id \in Nat, id # 0, id # s.reader, NEW b \in Seq(Token)
    PROVE  LET p == Push(s, id, b) IN
           /\ s.ended => p.state = s /\ Tells(p.effects, 0, <<>>, {}, {id})
           /\ ~s.ended /\ b = <<>> => p.state = s /\ Tells(p.effects, 0, <<>>, {id}, {})
           /\ ~s.ended /\ b # <<>> /\ s.reader # 0 =>
                p.state = Rid(s) /\ Tells(p.effects, s.reader, b, {id}, {})
           /\ ~s.ended /\ b # <<>> /\ s.reader = 0 /\ Fits(s.cap, s.bytes, b) =>
                p.state = Refill(s, s.bytes \o b, s.writers) /\ Tells(p.effects, 0, <<>>, {id}, {})
           /\ ~s.ended /\ b # <<>> /\ s.reader = 0 /\ ~Fits(s.cap, s.bytes, b) =>
                /\ p.state = Refill(s, s.bytes, Append(s.writers, [id |-> id, bytes |-> b]))
                /\ Tells(p.effects, 0, <<>>, {}, {})
<1> DEFINE p == Push(s, id, b)
<1>0. \A st, E : Step(st, E).state = st /\ Step(st, E).effects = E  BY DEF Step
<1>1. ASSUME s.ended PROVE p.state = s /\ Tells(p.effects, 0, <<>>, {}, {id})
  <2>1. p = Step(s, <<No(id)>>)  BY <1>1 DEF Push, No
  <2>2. Tells(<<No(id)>>, 0, <<>>, {}, {id})  BY DEF Tells
  <2>. QED  BY <1>0, <2>1, <2>2
<1>2. ASSUME ~s.ended, b = <<>> PROVE p.state = s /\ Tells(p.effects, 0, <<>>, {id}, {})
  <2>1. p = Step(s, <<Yes(id)>>)  BY <1>2 DEF Push, Yes
  <2>2. Tells(<<Yes(id)>>, 0, <<>>, {id}, {})  BY DEF Tells
  <2>. QED  BY <1>0, <2>1, <2>2
<1>3. ASSUME ~s.ended, b # <<>>, s.reader # 0
      PROVE  p.state = Rid(s) /\ Tells(p.effects, s.reader, b, {id}, {})
  <2>1. p = Step(Rid(s), <<ToReader(s.reader, b), Yes(id)>>)  BY <1>3 DEF Push, Yes, Rid
  <2>2. PICK e, r : e = ToReader(r, b) /\ r = s.reader  OBVIOUS
  <2>3. Tells(<<e, Yes(id)>>, r, b, {id}, {})  BY <1>3, <2>2 DEF Tells
  <2>. QED  BY <1>0, <2>1, <2>2, <2>3
<1>4. ASSUME ~s.ended, b # <<>>, s.reader = 0, Fits(s.cap, s.bytes, b)
      PROVE  p.state = Refill(s, s.bytes \o b, s.writers) /\ Tells(p.effects, 0, <<>>, {id}, {})
  <2>1. p = Step([s EXCEPT !.bytes = @ \o b], <<Yes(id)>>)  BY <1>4 DEF Push, Yes
  <2>2. Tells(<<Yes(id)>>, 0, <<>>, {id}, {})  BY DEF Tells
  <2>3. [s EXCEPT !.bytes = @ \o b] = Refill(s, s.bytes \o b, s.writers)  BY DEF Refill, Pipe
  <2>. QED  BY <1>0, <2>1, <2>2, <2>3
<1>5. ASSUME ~s.ended, b # <<>>, s.reader = 0, ~Fits(s.cap, s.bytes, b)
      PROVE  /\ p.state = Refill(s, s.bytes, Append(s.writers, [id |-> id, bytes |-> b]))
             /\ Tells(p.effects, 0, <<>>, {}, {})
  <2>1. p = Step([s EXCEPT !.writers = Append(@, [id |-> id, bytes |-> b])], <<>>)  BY <1>5 DEF Push
  <2>2. Tells(<<>>, 0, <<>>, {}, {})  BY DEF Tells
  <2>3. [s EXCEPT !.writers = Append(@, [id |-> id, bytes |-> b])]
          = Refill(s, s.bytes, Append(s.writers, [id |-> id, bytes |-> b]))
    BY DEF Refill, Pipe
  <2>. QED  BY <1>0, <2>1, <2>2, <2>3
<1>. QED  BY <1>1, <1>2, <1>3, <1>4, <1>5

\* end.
LEMMA EndTells ==
    ASSUME NEW s, Named(s)
    PROVE  /\ End(s).state = Over(s, s.bytes, <<>>)
           /\ Tells(End(s).effects, s.reader, <<>>, {}, Parking(s))
<1> DEFINE n == Len(s.writers)
           W == [i \in 1 .. n |-> No(s.writers[i].id)]
<1>1. n \in Nat /\ s \in Pipe  BY DEF Named, Pipe
<1>2. WritersOnly(W, n)
  <2>1. \A i \in 1 .. n : W[i].to = "writer"  BY NoIs
  <2>2. W = [i \in 1 .. n |-> W[i]]  OBVIOUS
  <2> HIDE DEF W, n
  <2>. QED  BY <1>1, <2>1, <2>2, ToldOnly
<1>3. Tells(W, 0, <<>>, {}, Parking(s))
  <2>1. \A i \in 1 .. n : s.writers[i].id # 0  BY DEF Named
  <2>2. PICK v : v = s.writers  OBVIOUS
  <2>4. PICK ids : ids = Parking(s)  OBVIOUS
  <2>3. ids = {v[i].id : i \in 1 .. n}  BY <2>2, <2>4 DEF Parking
  <2> HIDE DEF n
  <2>5. Tells([i \in 1 .. n |-> No(v[i].id)], 0, <<>>, {}, ids)  BY <1>1, <2>1, <2>2, <2>3, TellsWriters
  <2>. QED  BY <2>2, <2>4, <2>5
<1>4. End(s) = Step(Over(s, s.bytes, <<>>), (IF s.reader = 0 THEN <<>> ELSE <<ToReader(s.reader, <<>>)>>) \o W)
  <2>1. [s EXCEPT !.ended = TRUE, !.reader = 0, !.writers = <<>>] = Over(s, s.bytes, <<>>)
    BY <1>1 DEF Over, Pipe
  <2>. QED  BY <2>1 DEF End, No
<1>5. s.reader \notin Parking(s)  BY DEF Named, Parking
<1> HIDE DEF W, n
<1>6. CASE s.reader = 0
  <2>1. <<>> \o W = W
    <3>1. W \in Seq({W[i] : i \in 1 .. n})  BY <1>2 DEF WritersOnly
    <3>. QED  BY <3>1
  <2>2. End(s) = Step(Over(s, s.bytes, <<>>), W)  BY <1>4, <1>6, <2>1
  <2>. QED  BY <1>3, <1>6, <2>2 DEF Step
<1>7. CASE s.reader # 0
  <2>1. End(s) = Step(Over(s, s.bytes, <<>>), <<ToReader(s.reader, <<>>)>> \o W)  BY <1>4, <1>7
  <2>2. Tells(<<ToReader(s.reader, <<>>)>> \o W, s.reader, <<>>, {}, Parking(s))
    <3>1. PICK r, no : r = s.reader /\ no = Parking(s)  OBVIOUS
    <3>2. Tells(<<ToReader(r, <<>>)>> \o W, r, <<>>, {}, no)  BY <1>1, <1>2, <1>3, <1>5, <1>7, <3>1, TellsFirst
    <3>. QED  BY <3>1, <3>2
  <2>. QED  BY <2>1, <2>2 DEF Step
<1>. QED  BY <1>6, <1>7

\* endWith.
LEMMA EndWithTells ==
    ASSUME NEW s, Named(s), NEW b \in Seq(Token)
    PROVE  LET e == EndWith(s, b) IN
           /\ s.ended => e.state = Over(s, s.bytes, <<>>) /\ Tells(e.effects, s.reader, <<>>, {}, Parking(s))
           /\ ~s.ended /\ s.reader = 0 =>
                e.state = Over(s, s.bytes \o b, <<>>) /\ Tells(e.effects, 0, <<>>, {}, Parking(s))
           /\ ~s.ended /\ s.reader # 0 =>
                e.state = Over(s, s.bytes, <<>>) /\ Tells(e.effects, s.reader, b, {}, Parking(s))
<1> DEFINE e == EndWith(s, b)
<1>0. s \in Pipe  BY DEF Named
<1>1. CASE s.ended  BY <1>1, EndTells DEF EndWith
<1>2. CASE ~s.ended /\ s.reader = 0
  <2>1. PICK y \in Seq(Token) : y = s.bytes \o b
    <3>1. PICK x \in Seq(Token) : x = s.bytes  BY <1>0 DEF Pipe
    <3>2. x \o b \in Seq(Token)  OBVIOUS
    <3>. QED  BY <3>1, <3>2
  <2>2. PICK z : z = Refill(s, y, s.writers)  OBVIOUS
  <2>3. e = End(z)
    <3>1. [s EXCEPT !.bytes = @ \o b] = z  BY <1>0, <2>1, <2>2 DEF Refill, Pipe
    <3>. QED  BY <1>2, <3>1 DEF EndWith
  <2>4. z \in Pipe /\ z.reader = s.reader /\ z.bytes = y /\ z.writers = s.writers
    <3>1. s.writers \in Seq(Writer)  BY <1>0 DEF Pipe
    <3>. QED  BY <1>0, <2>2, <3>1, RefillIs
  <2>5. Named(z) /\ Parking(z) = Parking(s)  BY <2>4 DEF Named, Parking
  <2>6. Over(z, y, <<>>) = Over(s, y, <<>>)  BY <1>0, <2>2, <2>4 DEF Over, Refill, Pipe
  <2>7. e.state = Over(s, y, <<>>) /\ Tells(e.effects, z.reader, <<>>, {}, Parking(s))
    BY <2>3, <2>4, <2>5, <2>6, EndTells
  <2>. QED  BY <1>2, <2>1, <2>4, <2>7
<1>3. CASE ~s.ended /\ s.reader # 0
  <2>1. PICK z : z = Rid(s)  OBVIOUS
  <2>2. z \in Pipe /\ z.reader = 0 /\ z.bytes = s.bytes /\ z.writers = s.writers  BY <1>0, <2>1 DEF Rid, Pipe
  <2>3. Parking(z) = Parking(s)  BY <2>2 DEF Parking
  <2> DEFINE n == Len(s.writers)
             W == [i \in 1 .. n |-> No(s.writers[i].id)]
  <2>4. n \in Nat  BY <1>0 DEF Pipe
  <2>5. End(z) = Step(Over(s, s.bytes, <<>>), <<>> \o W)
    <3>1. [z EXCEPT !.ended = TRUE, !.reader = 0, !.writers = <<>>] = Over(s, s.bytes, <<>>)
      BY <1>0, <2>1, <2>2 DEF Over, Pipe, Rid
    <3>. QED  BY <2>2, <3>1 DEF End, No
  <2>6. WritersOnly(W, n)
    <3>1. \A i \in 1 .. n : W[i].to = "writer"  BY NoIs
    <3>2. W = [i \in 1 .. n |-> W[i]]  OBVIOUS
    <3> HIDE DEF W, n
    <3>. QED  BY <2>4, <3>1, <3>2, ToldOnly
  <2> HIDE DEF W, n
  <2>7. <<>> \o W = W
    <3>1. W \in Seq({W[i] : i \in 1 .. n})  BY <2>6 DEF WritersOnly
    <3>. QED  BY <3>1
  <2>8. End(z).state = Over(s, s.bytes, <<>>) /\ End(z).effects = W  BY <2>5, <2>7 DEF Step
  <2>9. Tells(W, 0, <<>>, {}, Parking(s))
    <3>1. \A i \in 1 .. n : s.writers[i].id # 0  BY DEF Named, n
    <3>2. PICK v : v = s.writers  OBVIOUS
    <3>3. PICK ids : ids = Parking(s)  OBVIOUS
    <3>4. ids = {v[i].id : i \in 1 .. n}  BY <3>2, <3>3 DEF Parking, n
    <3>5. Tells([i \in 1 .. n |-> No(v[i].id)], 0, <<>>, {}, ids)  BY <2>4, <3>1, <3>2, <3>4, TellsWriters
    <3>. QED  BY <3>2, <3>3, <3>5 DEF W
  <2>10. e = Step(Over(s, s.bytes, <<>>), <<ToReader(s.reader, b)>> \o W)
    <3>1. e = Step(End(z).state, <<ToReader(s.reader, b)>> \o End(z).effects)  BY <1>3, <2>1 DEF EndWith, Rid
    <3>. QED  BY <2>8, <3>1
  <2>11. Tells(<<ToReader(s.reader, b)>> \o W, s.reader, b, {}, Parking(s))
    <3>1. PICK r, no : r = s.reader /\ no = Parking(s)  OBVIOUS
    <3>2. r \notin no  BY <3>1 DEF Named, Parking
    <3>3. Tells(<<ToReader(r, b)>> \o W, r, b, {}, no)  BY <1>3, <2>4, <2>6, <2>9, <3>1, <3>2, TellsFirst
    <3>. QED  BY <3>1, <3>3
  <2>. QED  BY <1>3, <2>10, <2>11 DEF Step
<1>. QED  BY <1>1, <1>2, <1>3

\* The read p tells its reader the front and the writers it lets in that their bytes were taken.
Gives(s, p, id) ==
    \E h, r, f, n :
       Takes(s, p, h, r, f, n) /\ Tells(p.effects, id, h, {s.writers[i].id : i \in 1 .. n}, {})
\* next.
LEMMA NextTells ==
    ASSUME NEW s, Named(s), NEW id \in Nat, id # 0, id \notin Parking(s)
    PROVE  LET p == NextRead(s, id) IN
           /\ s.bytes # <<>> => Gives(s, p, id)
           /\ s.bytes = <<>> /\ s.ended => p.state = s /\ Tells(p.effects, id, <<>>, {}, {})
           /\ s.bytes = <<>> /\ ~s.ended =>
                p.state = [s EXCEPT !.reader = id] /\ Tells(p.effects, s.reader, <<>>, {}, {})
<1>0. s \in Pipe  BY DEF Named
<1>1. PICK p : p = NextRead(s, id)  OBVIOUS
<1>2. ASSUME s.bytes # <<>>
      PROVE  Gives(s, p, id)
  <2>1. PICK h, r, f, n :
          /\ Takes(s, p, h, r, f, n)
          /\ FrontTold(p, id, h, s, n)
    BY <1>0, <1>1, <1>2, ReadTakes
  <2>2. n \in Nat /\ n <= Len(s.writers) /\ Len(s.writers) \in Nat
    <3>1. n \in 0 .. Len(Refill(s, r, s.writers).writers)  BY <2>1 DEF Takes, RoomFor
    <3>2. Refill(s, r, s.writers).writers = s.writers  BY <1>0 DEF Refill, Pipe
    <3>3. Len(s.writers) \in Nat  BY <1>0 DEF Pipe
    <3>. QED  BY <3>1, <3>2, <3>3
  <2> DEFINE W == [i \in 1 .. n |-> Yes(s.writers[i].id)]
  <2>3. p.effects = <<ToReader(id, h)>> \o W  BY <2>1 DEF FrontTold
  <2>4. WritersOnly(W, n)
    <3>1. \A i \in 1 .. n : W[i].to = "writer"  BY YesIs
    <3>2. W = [i \in 1 .. n |-> W[i]]  OBVIOUS
    <3> HIDE DEF W
    <3>. QED  BY <2>2, <3>1, <3>2, ToldOnly
  <2>5. PICK ids : ids = {s.writers[i].id : i \in 1 .. n}  OBVIOUS
  <2>6. Tells(W, 0, <<>>, ids, {})
    <3>1. \A i \in 1 .. n : s.writers[i].id # 0  BY <2>2 DEF Named
    <3>2. PICK v : v = s.writers  OBVIOUS
    <3>3. ids = {v[i].id : i \in 1 .. n}  BY <2>5, <3>2
    <3>4. Tells([i \in 1 .. n |-> Yes(v[i].id)], 0, <<>>, ids, {})  BY <2>2, <3>1, <3>2, <3>3, TellsWriters
    <3>. QED  BY <3>2, <3>4
  <2>7. id \notin ids  BY <2>2, <2>5 DEF Parking
  <2> HIDE DEF W
  <2>8. Tells(<<ToReader(id, h)>> \o W, id, h, ids, {})  BY <2>2, <2>4, <2>6, <2>7, TellsFirst
  <2>. QED  BY <2>1, <2>3, <2>5, <2>8 DEF Gives
<1>3. ASSUME s.bytes = <<>>, s.ended PROVE p.state = s /\ Tells(p.effects, id, <<>>, {}, {})
  <2>1. p = Step(s, <<ToReader(id, <<>>)>>)  BY <1>1, <1>3 DEF NextRead
  <2>2. Tells(<<ToReader(id, <<>>)>>, id, <<>>, {}, {})  BY DEF Tells
  <2>. QED  BY <2>1, <2>2 DEF Step
<1>4. ASSUME s.bytes = <<>>, ~s.ended
      PROVE  p.state = [s EXCEPT !.reader = id] /\ Tells(p.effects, s.reader, <<>>, {}, {})
  <2>1. p = Step([s EXCEPT !.reader = id], IF s.reader = 0 THEN <<>> ELSE <<ToReader(s.reader, <<>>)>>)
    BY <1>1, <1>4 DEF NextRead
  <2>2. PICK r : r = s.reader  OBVIOUS
  <2>3. Tells(IF r = 0 THEN <<>> ELSE <<ToReader(r, <<>>)>>, r, <<>>, {}, {})  BY DEF Tells
  <2>. QED  BY <2>1, <2>2, <2>3 DEF Step
<1>. QED  BY <1>1, <1>2, <1>3, <1>4

-----------------------------------------------------------------------------
(* ByteQueue: where the bytes of a write are *)

\* The bytes of a write.
LEMMA BytesAre ==
    ASSUME NEW id \in Nat, NEW n \in Nat
    PROVE  /\ BytesOf(id, n) \in Seq(Token) /\ Len(BytesOf(id, n)) = n
           /\ \A i \in 1 .. n : BytesOf(id, n)[i] = <<id, i>>
           /\ BytesOf(id, n) = <<>> <=> n = 0
<1>1. \A i \in 1 .. n : <<id, i>> \in Token  BY DEF Token
<1>2. BytesOf(id, n) \in Seq(Token)  BY <1>1 DEF BytesOf
<1>. QED  BY <1>2 DEF BytesOf
\* Bytes of others leave a write where it is.
LEMMA HoldsMore ==
    ASSUME NEW c \in Seq(Token), NEW id \in Nat, NEW n \in Nat, Holds(c, id, n),
           NEW y \in Seq(Token), \A k \in 1 .. Len(y) : y[k][1] # id
    PROVE  Holds(c \o y, id, n)
<1> DEFINE L == Len(c) d == c \o y
<1>0. L \in Nat /\ Len(y) \in Nat /\ d \in Seq(Token) /\ Len(d) = L + Len(y)  OBVIOUS
<1>1. PICK o \in 0 .. L :
        {k \in 1 .. L : c[k][1] = id} = o + 1 .. o + n /\ \A i \in 1 .. n : c[o + i] = <<id, i>>
  BY DEF Holds
<1>2. \A k \in 1 .. L : d[k] = c[k]  OBVIOUS
<1>3. \A k \in L + 1 .. L + Len(y) : k - L \in 1 .. Len(y) /\ d[k] = y[k - L]  OBVIOUS
<1>4. o + 1 .. o + n \subseteq 1 .. L  BY <1>1
<1> HIDE DEF d, L
<1>5. ASSUME NEW k \in 1 .. Len(d) PROVE d[k][1] = id <=> k \in o + 1 .. o + n
  <2>1. CASE k \in 1 .. L  BY <1>1, <1>2, <2>1
  <2>2. CASE k \in L + 1 .. L + Len(y)
    <3>1. d[k][1] # id  BY <1>3, <2>2
    <3>2. k \notin 1 .. L  BY <1>0, <2>2
    <3>. QED  BY <1>4, <3>1, <3>2
  <2>. QED  BY <1>0, <2>1, <2>2
<1>6. {k \in 1 .. Len(d) : d[k][1] = id} = o + 1 .. o + n
  <2>1. o + 1 .. o + n \subseteq 1 .. Len(d)  BY <1>0, <1>4
  <2>. QED  BY <1>5, <2>1
<1>7. \A i \in 1 .. n : d[o + i] = <<id, i>>
  <2>1. ASSUME NEW i \in 1 .. n PROVE d[o + i] = <<id, i>>
    <3>1. o + i \in o + 1 .. o + n  BY <1>0, <1>1
    <3>2. o + i \in 1 .. L  BY <1>4, <3>1
    <3>. QED  BY <1>1, <1>2, <3>2
  <2>. QED  BY <2>1
<1>8. o \in 0 .. Len(d)  BY <1>0
<1>. QED  BY <1>6, <1>7, <1>8 DEF d, Holds
\* A write that was not there, put at the end.
LEMMA HoldsNew ==
    ASSUME NEW c \in Seq(Token), NEW id \in Nat, NEW n \in Nat, Holds(c, id, 0)
    PROVE  Holds(c \o BytesOf(id, n), id, n)
<1>b. PICK y \in Seq(Token) : y = BytesOf(id, n)  BY BytesAre
<1>y. y \in Seq(Token) /\ Len(y) = n /\ \A i \in 1 .. n : y[i] = <<id, i>>  BY <1>b, BytesAre
<1> DEFINE L == Len(c) d == c \o y
<1>0. L \in Nat /\ d \in Seq(Token) /\ Len(d) = L + n
  <2>1. c \o y \in Seq(Token) /\ Len(c \o y) = Len(c) + Len(y)  OBVIOUS
  <2>. QED  BY <1>y, <2>1
<1>1. \A k \in 1 .. L : c[k][1] # id
  <2>1. PICK o \in 0 .. L : {k \in 1 .. L : c[k][1] = id} = o + 1 .. o + 0  BY DEF Holds
  <2>2. o + 1 .. o + 0 = {}  BY <1>0, <2>1
  <2>. QED  BY <2>1, <2>2
<1>2. \A k \in 1 .. L : d[k] = c[k]  BY <1>y
<1>3. \A i \in 1 .. n : d[L + i] = y[i]  BY <1>y
<1> HIDE DEF d, L
<1>4. \A i \in 1 .. n : d[L + i] = <<id, i>>  BY <1>3, <1>y
<1>5. ASSUME NEW k \in 1 .. Len(d) PROVE d[k][1] = id <=> k \in L + 1 .. L + n
  <2>1. CASE k \in 1 .. L  BY <1>0, <1>1, <1>2, <2>1
  <2>2. CASE k \in L + 1 .. L + n
    <3>1. k - L \in 1 .. n /\ L + (k - L) = k  BY <1>0, <2>2
    <3>2. d[k] = <<id, k - L>>  BY <1>4, <3>1
    <3>. QED  BY <2>2, <3>2
  <2>. QED  BY <1>0, <2>1, <2>2
<1>6. {k \in 1 .. Len(d) : d[k][1] = id} = L + 1 .. L + n
  <2>1. L + 1 .. L + n \subseteq 1 .. Len(d)  BY <1>0
  <2>. QED  BY <1>5, <2>1
<1>7. L \in 0 .. Len(d)  BY <1>0
<1>. QED  BY <1>b, <1>4, <1>6, <1>7 DEF d, Holds
\* No byte of it is there.
LEMMA HoldsNone ==
    ASSUME NEW c \in Seq(Token), NEW id \in Nat, \A k \in 1 .. Len(c) : c[k][1] # id
    PROVE  Holds(c, id, 0)
<1>1. 0 \in 0 .. Len(c) /\ 0 + 1 .. 0 + 0 = {} /\ 1 .. 0 = {}  OBVIOUS
<1>2. {k \in 1 .. Len(c) : c[k][1] = id} = {}  OBVIOUS
<1>. QED  BY <1>1, <1>2 DEF Holds

-----------------------------------------------------------------------------
(* ByteQueue: the invariant *)

\* The state is a queue's with its cap, and the promises are promises.
QShape == state \in Pipe /\ state.cap = QueueCap /\ calls \in Seq(Call) /\ delivered \in Seq(Token)
\* Every byte is some call's.
Known(c, ids) == \A k \in 1 .. Len(c) : c[k][1] \in ids /\ c[k][2] # 0
\* A parked writer is a push with its bytes, parked once, and a parked reader is a next.
QParked ==
    /\ \A i \in 1 .. Len(state.writers) :
          LET w == state.writers[i] IN
          /\ w.id \in Ids /\ calls[w.id].kind = "push" /\ calls[w.id].size # 0
          /\ w.bytes = BytesOf(w.id, calls[w.id].size)
    /\ \A i, j \in 1 .. Len(state.writers) : state.writers[i].id = state.writers[j].id => i = j
    /\ state.reader # 0 => state.reader \in Ids /\ calls[state.reader].kind = "next"
\* An empty answer was the end, with nothing left, or another reader came.
Later(id) == \E later \in Ids : later > id /\ calls[later].kind = "next"
QEnd == \A id \in Ids : calls[id].answer = "empty" => (state.ended /\ state.bytes = <<>>) \/ Later(id)
QInv ==
    /\ QShape /\ Known(Carried, Ids) /\ QParked /\ QEnd
    /\ AcceptedExactlyOnce /\ NoLostWakeup /\ NobodyForgotten /\ CapHolds

\* A step of the driver makes at most one call, and leaves kind and size of the others.
Onward ==
    /\ calls' \in Seq(Call) /\ Len(calls') \in {Len(calls), Len(calls) + 1}
    /\ \A i \in 1 .. Len(calls) : calls'[i].kind = calls[i].kind /\ calls'[i].size = calls[i].size

\* The shape's plain facts.
LEMMA ShapeIs ==
    ASSUME QShape
    PROVE  /\ Ids = 1 .. Len(calls) /\ Len(calls) \in Nat
           /\ \A i \in Ids : i \in Nat /\ i # 0 /\ calls[i] \in Call /\ calls[i].size \in Nat
           /\ state.bytes \in Seq(Token) /\ state.writers \in Seq(Writer) /\ Len(state.writers) \in Nat
           /\ state.reader \in Nat /\ state.ended \in BOOLEAN /\ QueueCap \in Nat
<1>1. calls \in Seq(Call)  BY DEF QShape
<1>2. Ids = 1 .. Len(calls) /\ Len(calls) \in Nat  BY <1>1 DEF Ids
<1>3. \A i \in 1 .. Len(calls) : calls[i] \in Call  BY <1>1
<1>4. \A i \in Ids : calls[i].size \in Nat  BY <1>2, <1>3 DEF Call
<1>5. state \in Pipe  BY DEF QShape
<1>6. state.bytes \in Seq(Token) /\ state.writers \in Seq(Writer) /\ state.reader \in Nat  BY <1>5 DEF Pipe
<1>7. state.ended \in BOOLEAN  BY <1>5, Zenon DEF Pipe
<1>. QED  BY <1>2, <1>3, <1>4, <1>6, <1>7, QueueAssumption
\* What a step of the driver leaves of the calls.
LEMMA OnwardIs ==
    ASSUME QShape, Onward
    PROVE  /\ Ids' = 1 .. Len(calls') /\ Len(calls') \in Nat /\ Ids \subseteq Ids'
           /\ \A i \in Ids' : i \in Ids \/ i = Len(calls) + 1
           /\ \A i \in Ids' : i \in Nat /\ i # 0 /\ calls'[i] \in Call /\ calls'[i].size \in Nat
           /\ \A i \in Ids : calls'[i].kind = calls[i].kind /\ calls'[i].size = calls[i].size
           /\ (Len(calls) + 1) \notin Ids
<1>0. Ids = 1 .. Len(calls) /\ Len(calls) \in Nat  BY ShapeIs
<1>1. calls' \in Seq(Call)  BY DEF Onward
<1>2. Ids' = 1 .. Len(calls') /\ Len(calls') \in Nat  BY <1>1 DEF Ids
<1>3. \A i \in 1 .. Len(calls') : calls'[i] \in Call  BY <1>1
<1>4. \A i \in Ids' : calls'[i].size \in Nat  BY <1>2, <1>3 DEF Call
<1>5. Len(calls') = Len(calls) \/ Len(calls') = Len(calls) + 1  BY DEF Onward
<1>6. \A i \in Ids : calls'[i].kind = calls[i].kind /\ calls'[i].size = calls[i].size  BY <1>0 DEF Onward
<1>7. /\ Ids \subseteq Ids' /\ \A i \in Ids' : i \in Ids \/ i = Len(calls) + 1
      /\ (Len(calls) + 1) \notin Ids
  BY <1>0, <1>2, <1>5
<1>8. \A i \in Ids' : i \in Nat /\ i # 0  BY <1>2
<1>. QED  BY <1>2, <1>3, <1>4, <1>6, <1>7, <1>8

\* Taking a new call's bytes, or nobody's, keeps every write where it is.
LEMMA TakenOnce ==
    ASSUME QInv, Onward, \A i \in Ids : calls'[i].answer = "ok" <=> calls[i].answer = "ok",
           NEW m \in Nat, m = IF Len(calls') # Len(calls) /\ calls'[Len(calls) + 1].answer = "ok"
                              THEN calls'[Len(calls) + 1].size ELSE 0,
           Carried' = Carried \o BytesOf(Len(calls) + 1, m)
    PROVE  AcceptedExactlyOnce' /\ Known(Carried, Ids)'
<1>s. QShape  BY DEF QInv
<1>0. PICK n \in Nat : n = Len(calls) + 1
  <2>1. Len(calls) + 1 \in Nat  BY <1>s, ShapeIs
  <2>. QED  BY <2>1
<1>1. PICK d \in Seq(Token) : d = Carried
  <2>1. PICK x \in Seq(Token), y \in Seq(Token) : x = delivered /\ y = state.bytes  BY <1>s, ShapeIs DEF QShape
  <2>2. x \o y \in Seq(Token)  OBVIOUS
  <2>. QED  BY <2>1, <2>2 DEF Carried
<1>2. PICK y \in Seq(Token) : y = BytesOf(n, m) /\ Len(y) = m /\ \A i \in 1 .. m : y[i] = <<n, i>>
  BY BytesAre
<1>3. Carried' = d \o y  BY <1>0, <1>1, <1>2
<1>4. n \notin Ids /\ n # 0  BY <1>0, <1>s, ShapeIs, OnwardIs
<1>5. \A k \in 1 .. Len(d) : d[k][1] \in Ids /\ d[k][2] # 0  BY <1>1 DEF QInv, Known
<1>6. m # 0 => Len(calls') # Len(calls)  OBVIOUS
<1>7. Known(Carried, Ids)'
  <2>1. \A k \in 1 .. m : y[k][1] = n /\ y[k][2] # 0  BY <1>2
  <2>0. Len(d \o y) = Len(d) + Len(y) /\ Len(d) \in Nat  OBVIOUS
  <2>2. Len(d \o y) = Len(d) + m /\ Len(d) \in Nat  BY <1>2, <2>0
  <2>3. \A k \in 1 .. Len(d) : (d \o y)[k] = d[k]  OBVIOUS
  <2>4. \A k \in Len(d) + 1 .. Len(d) + m : k - Len(d) \in 1 .. m /\ (d \o y)[k] = y[k - Len(d)]  BY <1>2
  <2>5. m # 0 => n \in Ids'  BY <1>0, <1>6, <1>s, OnwardIs, ShapeIs DEF Onward
  <2>6. PICK e : e = d \o y  OBVIOUS
  <2>7. ASSUME NEW k \in 1 .. Len(e) PROVE e[k][1] \in Ids' /\ e[k][2] # 0
    <3>1. CASE k \in 1 .. Len(d)  BY <1>5, <1>s, <2>3, <2>6, <3>1, OnwardIs
    <3>2. CASE k \in Len(d) + 1 .. Len(d) + m
      <4>1. m # 0  BY <2>2, <3>2
      <4>2. k - Len(d) \in 1 .. m /\ e[k] = y[k - Len(d)]  BY <2>4, <2>6, <3>2
      <4>. QED  BY <2>1, <2>5, <4>1, <4>2
    <3>. QED  BY <2>2, <2>6, <3>1, <3>2
  <2>. QED  BY <1>3, <2>6, <2>7 DEF Known
<1>8. ASSUME NEW id \in Ids' PROVE Holds(d \o y, id, IF calls'[id].answer = "ok" THEN calls'[id].size ELSE 0)
  <2>0. id \in Nat /\ calls'[id].size \in Nat  BY <1>s, OnwardIs
  <2>1. CASE id \in Ids
    <3>1. PICK z \in Nat : z = IF calls[id].answer = "ok" THEN calls[id].size ELSE 0
      BY <1>s, <2>1, ShapeIs
    <3>2. Holds(d, id, z)  BY <1>1, <2>1, <3>1 DEF QInv, AcceptedExactlyOnce
    <3>3. \A k \in 1 .. Len(y) : y[k][1] # id  BY <1>2, <1>4, <2>1
    <3>4. Holds(d \o y, id, z)  BY <2>0, <3>2, <3>3, HoldsMore
    <3>5. z = IF calls'[id].answer = "ok" THEN calls'[id].size ELSE 0  BY <1>s, <2>1, <3>1, OnwardIs
    <3>. QED  BY <3>4, <3>5
  <2>2. CASE id \notin Ids
    <3>1. id = n  BY <1>0, <1>s, <2>2, OnwardIs
    <3>2. \A k \in 1 .. Len(d) : d[k][1] # n  BY <1>4, <1>5
    <3>3. Holds(d, n, 0)  BY <3>2, HoldsNone
    <3>4. Holds(d \o BytesOf(n, m), n, m)  BY <3>3, HoldsNew
    <3>5. m = IF calls'[n].answer = "ok" THEN calls'[n].size ELSE 0
      <4>1. Len(calls') # Len(calls)  BY <1>s, <2>2, OnwardIs, ShapeIs
      <4>. QED  BY <1>0, <4>1
    <3>. QED  BY <1>2, <3>1, <3>4, <3>5
  <2>. QED  BY <2>1, <2>2
<1>9. AcceptedExactlyOnce'  BY <1>3, <1>8 DEF AcceptedExactlyOnce
<1>. QED  BY <1>7, <1>9

\* Those who stay parked are parked as they were, and a new reader is a next.
LEMMA StayParked ==
    ASSUME QInv, Onward, NEW m \in Nat,
           \A i \in 1 .. Len(state'.writers) :
              i + m \in 1 .. Len(state.writers) /\ state'.writers[i] = state.writers[i + m],
           \/ state'.reader \in {0, state.reader}
           \/ state'.reader = Len(calls) + 1 /\ Len(calls') # Len(calls) /\ calls'[Len(calls) + 1].kind = "next"
    PROVE  QParked'
<1>s. QShape  BY DEF QInv
<1>1. ASSUME NEW i \in 1 .. Len(state'.writers)
      PROVE  LET w == state'.writers[i] IN
             /\ w.id \in Ids' /\ calls'[w.id].kind = "push" /\ calls'[w.id].size # 0
             /\ w.bytes = BytesOf(w.id, calls'[w.id].size)
  <2>1. PICK j \in 1 .. Len(state.writers) : state'.writers[i] = state.writers[j]  OBVIOUS
  <2>2. PICK w : w = state.writers[j]  OBVIOUS
  <2>3. /\ w.id \in Ids /\ calls[w.id].kind = "push" /\ calls[w.id].size # 0
        /\ w.bytes = BytesOf(w.id, calls[w.id].size)
    BY <2>2 DEF QInv, QParked
  <2>4. w.id \in Ids' /\ calls'[w.id].kind = calls[w.id].kind /\ calls'[w.id].size = calls[w.id].size
    BY <1>s, <2>3, OnwardIs
  <2>. QED  BY <2>1, <2>2, <2>3, <2>4
<1>2. ASSUME NEW i \in 1 .. Len(state'.writers), NEW j \in 1 .. Len(state'.writers),
             state'.writers[i].id = state'.writers[j].id
      PROVE  i = j
  <2>0. PICK a, b \in 1 .. Len(state.writers) : a = i + m /\ b = j + m  OBVIOUS
  <2>2. state.writers[a].id = state.writers[b].id  BY <1>2, <2>0
  <2>1. a = b  BY <2>2 DEF QInv, QParked
  <2>. QED  BY <2>0, <2>1
<1>3. state'.reader # 0 => state'.reader \in Ids' /\ calls'[state'.reader].kind = "next"
  BY <1>s, OnwardIs, ShapeIs DEF QInv, QParked, Onward
<1>. QED  BY <1>1, <1>2, <1>3 DEF QParked

\* An empty answer stays what it was, and a new one is given at the end or to the displaced.
LEMMA StaysEnd ==
    ASSUME QInv, Onward,
           state.ended /\ state.bytes = <<>> => state'.ended /\ state'.bytes = <<>>,
           \A id \in Ids' : calls'[id].answer = "empty" =>
              \/ id \in Ids /\ calls[id].answer = "empty"
              \/ state'.ended /\ state'.bytes = <<>>
              \/ id \in Ids /\ Len(calls') # Len(calls) /\ calls'[Len(calls) + 1].kind = "next"
    PROVE  QEnd'
<1>s. QShape  BY DEF QInv
<1>1. SUFFICES ASSUME NEW id \in Ids', calls'[id].answer = "empty"
               PROVE  (state'.ended /\ state'.bytes = <<>>) \/ Later(id)'
  BY DEF QEnd
<1>2. CASE id \in Ids /\ calls[id].answer = "empty"
  <2>1. Later(id) => Later(id)'  BY <1>s, OnwardIs DEF Later
  <2>. QED  BY <1>2, <2>1 DEF QInv, QEnd
<1>3. CASE state'.ended /\ state'.bytes = <<>>  BY <1>3
<1>4. CASE id \in Ids /\ Len(calls') # Len(calls) /\ calls'[Len(calls) + 1].kind = "next"
  <2>1. Len(calls) + 1 \in Ids' /\ Len(calls) + 1 > id
    BY <1>4, <1>s, OnwardIs, ShapeIs DEF Onward
  <2>. QED  BY <1>4, <2>1 DEF Later
<1>. QED  BY <1>1, <1>2, <1>3, <1>4

-----------------------------------------------------------------------------
(* ByteQueue: each kind of step *)

\* What is carried is a sequence of bytes, and nothing more is itself.
LEMMA CarriedIs ==
    ASSUME QShape
    PROVE  /\ Carried \in Seq(Token) /\ Carried \o <<>> = Carried
           /\ delivered \o <<>> = delivered /\ BytesOf(Len(calls) + 1, 0) = <<>>
<1>1. PICK x \in Seq(Token), y \in Seq(Token) : x = delivered /\ y = state.bytes  BY ShapeIs DEF QShape
<1>2. x \o y \in Seq(Token) /\ (x \o y) \o <<>> = x \o y /\ x \o <<>> = x
  <2>1. x \o y \in Seq(Token)  BY ConcatProperties
  <2>. QED  BY <2>1, ConcatEmptySeq
<1>3. BytesOf(Len(calls) + 1, 0) = <<>>
  <2>1. Len(calls) + 1 \in Nat  BY ShapeIs
  <2>2. 0 \in Nat  OBVIOUS
  <2>. QED  BY <2>1, <2>2, BytesAre
<1>. QED  BY <1>1, <1>2, <1>3 DEF Carried

\* The state stays, and a new call is answered at once.
LEMMA DriverStill ==
    ASSUME QInv, Onward, state' = state, delivered' = delivered,
           \A i \in Ids : calls'[i].answer = calls[i].answer,
           \A i \in Ids' \ Ids :
              /\ calls'[i].answer # "waiting" /\ (calls'[i].answer = "ok" => calls'[i].size = 0)
              /\ calls'[i].answer = "empty" => state.ended /\ state.bytes = <<>>
    PROVE  QInv'
<1>s. QShape  BY DEF QInv
<1>1. QShape'  BY <1>s DEF QShape, Onward
<1>2. AcceptedExactlyOnce' /\ Known(Carried, Ids)'
  <2>1. PICK m \in Nat : m = 0  OBVIOUS
  <2>2. m = IF Len(calls') # Len(calls) /\ calls'[Len(calls) + 1].answer = "ok"
            THEN calls'[Len(calls) + 1].size ELSE 0
    <3>1. Len(calls') # Len(calls) => Len(calls) + 1 \in Ids' \ Ids  BY <1>s, OnwardIs, ShapeIs DEF Onward
    <3>. QED  BY <2>1, <3>1
  <2>3. Carried' = Carried \o BytesOf(Len(calls) + 1, m)  BY <1>s, <2>1, CarriedIs DEF Carried
  <2>. QED  BY <2>2, <2>3, TakenOnce
<1>3. QParked'
  <2>1. PICK m \in Nat : m = 0  OBVIOUS
  <2>2. \A i \in 1 .. Len(state'.writers) :
           i + m \in 1 .. Len(state.writers) /\ state'.writers[i] = state.writers[i + m]
    BY <2>1, <1>s, ShapeIs
  <2>. QED  BY <2>2, StayParked
<1>4. QEnd'  BY <1>s, OnwardIs, StaysEnd
<1>5. NobodyForgotten'
  <2>1. ASSUME NEW id \in Ids'
        PROVE  calls'[id].answer = "waiting" <=> id = state.reader \/ id \in Writers(state)
    <3>1. CASE id \in Ids  BY <3>1 DEF QInv, NobodyForgotten
    <3>2. CASE id \notin Ids
      <4>1. id # state.reader  BY <1>s, <2>1, <3>2, OnwardIs DEF QInv, QParked
      <4>2. id \notin Writers(state)
        <5>1. \A i \in 1 .. Len(state.writers) : state.writers[i].id \in Ids  BY DEF QInv, QParked
        <5>2. DOMAIN state.writers = 1 .. Len(state.writers)  BY <1>s, ShapeIs
        <5>. QED  BY <3>2, <5>1, <5>2 DEF Writers
      <4>. QED  BY <2>1, <3>2, <4>1, <4>2
    <3>. QED  BY <3>1, <3>2
  <2>. QED  BY <2>1 DEF NobodyForgotten, Writers
<1>6. NoLostWakeup' /\ CapHolds'  BY DEF QInv, NoLostWakeup, CapHolds
<1>. QED  BY <1>1, <1>2, <1>3, <1>4, <1>5, <1>6 DEF QInv

\* Who waits: the parked, and nobody new.
LEMMA WritersAre ==
    ASSUME QInv
    PROVE  /\ Writers(state) = Parking(state) /\ Writers(state) \subseteq Ids
           /\ Named(state) /\ state.reader \notin Writers(state)
           /\ state.ended => state.reader = 0 /\ state.writers = <<>> /\ Writers(state) = {}
           /\ state.reader # 0 => state.bytes = <<>> /\ ~state.ended /\ state.reader \in Ids
<1>s. QShape  BY DEF QInv
<1>1. DOMAIN state.writers = 1 .. Len(state.writers)  BY <1>s, ShapeIs
<1>2. Writers(state) = Parking(state)  BY <1>1 DEF Writers, Parking
<1>3. \A i \in 1 .. Len(state.writers) : state.writers[i].id \in Ids /\ calls[state.writers[i].id].kind = "push"
  BY DEF QInv, QParked
<1>4. state.reader # 0 => state.bytes = <<>> /\ ~state.ended /\ state.reader \in Ids /\ calls[state.reader].kind = "next"
  BY DEF QInv, QParked, NoLostWakeup
<1>5. \A i \in 1 .. Len(state.writers) : state.writers[i].id \notin {0, state.reader}
  BY <1>3, <1>4, <1>s, ShapeIs
<1>6. Named(state)  BY <1>5, <1>s DEF Named, QShape
<1>7. Writers(state) \subseteq Ids /\ state.reader \notin Writers(state)  BY <1>1, <1>3, <1>5 DEF Writers
<1>8. state.ended => state.reader = 0 /\ state.writers = <<>>  BY DEF QInv, NoLostWakeup
<1>9. state.writers = <<>> => Writers(state) = {}
  <2>1. Len(<<>>) = 0 /\ DOMAIN <<>> = {}  OBVIOUS
  <2>. QED  BY <2>1 DEF Writers
<1>. QED  BY <1>2, <1>4, <1>6, <1>7, <1>8, <1>9

\* A write handed to the parked reader.
LEMMA DriverHands ==
    ASSUME QInv, Onward, NEW N \in Nat, N = Len(calls) + 1, Len(calls') = N, ~state.ended, state.reader # 0,
           NEW n \in Nat, calls'[N].size = n, calls'[N].answer = "ok",
           calls'[state.reader].answer = "data",
           \A i \in Ids : i # state.reader => calls'[i].answer = calls[i].answer,
           state' = Rid(state), delivered' = delivered \o BytesOf(N, n)
    PROVE  QInv'
<1>s. QShape  BY DEF QInv
<1>b. PICK b \in Seq(Token) : b = BytesOf(N, n)  BY BytesAre
<1>x. PICK x \in Seq(Token) : x = delivered  BY <1>s DEF QShape
<1>f. /\ state' \in Pipe /\ state'.cap = QueueCap /\ state'.reader = 0 /\ state'.ended = state.ended
      /\ state'.bytes = state.bytes /\ state'.writers = state.writers
  <2>1. PICK q \in Pipe : q = state  BY <1>s DEF QShape
  <2>. QED  BY <1>s, <2>1, RidIs DEF QShape
<1>e. state.bytes = <<>> /\ state.reader \in Ids  BY WritersAre
<1>w. state.reader # N /\ N \in Ids' /\ N \notin Ids
  BY <1>s, <1>e, OnwardIs, ShapeIs
<1>1. QShape'
  <2>1. x \o b \in Seq(Token)  BY ConcatProperties
  <2>. QED  BY <1>b, <1>f, <1>x, <2>1 DEF QShape, Onward
<1>2. AcceptedExactlyOnce' /\ Known(Carried, Ids)'
  <2>1. n = IF Len(calls') # Len(calls) /\ calls'[Len(calls) + 1].answer = "ok"
            THEN calls'[Len(calls) + 1].size ELSE 0
    BY <1>s, ShapeIs
  <2>2. Carried' = Carried \o BytesOf(Len(calls) + 1, n)
    <3>1. (x \o b) \o <<>> = (x \o <<>>) \o b
      <4>1. x \o b \in Seq(Token)  BY ConcatProperties
      <4>. QED  BY <4>1, ConcatEmptySeq
    <3>. QED  BY <1>b, <1>e, <1>f, <1>x, <3>1 DEF Carried
  <2>3. calls[state.reader].answer = "waiting"  BY <1>e DEF QInv, NobodyForgotten
  <2>4. \A i \in Ids : calls'[i].answer = "ok" <=> calls[i].answer = "ok"  BY <2>3
  <2>. QED  BY <2>1, <2>2, <2>4, TakenOnce
<1>3. QParked'
  <2>1. PICK m \in Nat : m = 0  OBVIOUS
  <2>2. \A i \in 1 .. Len(state'.writers) :
           i + m \in 1 .. Len(state.writers) /\ state'.writers[i] = state.writers[i + m]
    BY <2>1, <1>f, <1>s, ShapeIs
  <2>3. state'.reader \in {0, state.reader}  BY <1>f
  <2>. QED  BY <2>2, <2>3, StayParked
<1>4. QEnd'
  <2>1. \A id \in Ids' : calls'[id].answer = "empty" => id \in Ids /\ calls[id].answer = "empty"
    BY <1>s, OnwardIs
  <2>2. ~(state.ended /\ state.bytes = <<>>)  OBVIOUS
  <2>. QED  BY <2>1, <2>2, StaysEnd
<1>5. NobodyForgotten'
  <2>1. ASSUME NEW id \in Ids'
        PROVE  calls'[id].answer = "waiting" <=> id \in Writers(state)
    <3>1. CASE id \in Ids  BY <3>1, WritersAre DEF QInv, NobodyForgotten
    <3>2. CASE id = N  BY <1>w, <3>2, WritersAre
    <3>. QED  BY <1>s, <3>1, <3>2, OnwardIs
  <2>2. Writers(state)' = Writers(state) /\ state'.reader = 0  BY <1>f DEF Writers
  <2>3. 0 \notin Ids'  BY <1>s, OnwardIs
  <2>. QED  BY <2>1, <2>2, <2>3 DEF NobodyForgotten
<1>6. NoLostWakeup' /\ CapHolds'  BY <1>f, <1>s DEF QInv, NoLostWakeup, CapHolds, QShape
<1>. QED  BY <1>1, <1>2, <1>3, <1>4, <1>5, <1>6 DEF QInv

\* A write that fits.
LEMMA DriverFits ==
    ASSUME QInv, Onward, NEW N \in Nat, N = Len(calls) + 1, Len(calls') = N, ~state.ended, state.reader = 0,
           NEW n \in Nat, calls'[N].size = n, calls'[N].answer = "ok",
           \A i \in Ids : calls'[i].answer = calls[i].answer,
           Fits(state.cap, state.bytes, BytesOf(N, n)),
           state' = Refill(state, state.bytes \o BytesOf(N, n), state.writers), delivered' = delivered
    PROVE  QInv'
<1>s. QShape  BY DEF QInv
<1>b. PICK b \in Seq(Token) : b = BytesOf(N, n)  BY BytesAre
<1>x. PICK x \in Seq(Token), y \in Seq(Token) : x = delivered /\ y = state.bytes  BY <1>s, ShapeIs DEF QShape
<1>z. PICK z \in Seq(Token) : z = y \o b  BY ConcatProperties
<1>f. /\ state' \in Pipe /\ state'.cap = QueueCap /\ state'.reader = 0 /\ state'.ended = state.ended
      /\ state'.bytes = z /\ state'.writers = state.writers
  <2>1. PICK q \in Pipe, v \in Seq(Writer) : q = state /\ v = state.writers  BY <1>s, ShapeIs DEF QShape
  <2>2. state' = Refill(q, z, v)  BY <1>b, <1>x, <1>z, <2>1
  <2>. QED  BY <1>s, <2>1, <2>2, RefillIs DEF QShape
<1>w. N \in Ids' /\ N \notin Ids  BY <1>s, OnwardIs, ShapeIs
<1>l. Len(z) = Len(y) + Len(b) /\ Len(y) \in Nat /\ Len(b) \in Nat
  <2>1. Len(y \o b) = Len(y) + Len(b) /\ Len(y) \in Nat /\ Len(b) \in Nat  OBVIOUS
  <2>. QED  BY <1>z, <2>1
<1>1. QShape'  BY <1>f, <1>s DEF QShape, Onward
<1>2. AcceptedExactlyOnce' /\ Known(Carried, Ids)'
  <2>1. n = IF Len(calls') # Len(calls) /\ calls'[Len(calls) + 1].answer = "ok"
            THEN calls'[Len(calls) + 1].size ELSE 0
    BY <1>s, ShapeIs
  <2>2. Carried' = Carried \o BytesOf(Len(calls) + 1, n)
    <3>0. x \in Seq(Token) /\ y \in Seq(Token) /\ b \in Seq(Token)  OBVIOUS
    <3>1. x \o (y \o b) = (x \o y) \o b  BY <3>0
    <3>. QED  BY <1>b, <1>f, <1>x, <1>z, <3>1 DEF Carried
  <2>. QED  BY <2>1, <2>2, TakenOnce
<1>3. QParked'
  <2>1. PICK m \in Nat : m = 0  OBVIOUS
  <2>2. \A i \in 1 .. Len(state'.writers) :
           i + m \in 1 .. Len(state.writers) /\ state'.writers[i] = state.writers[i + m]
    BY <2>1, <1>f, <1>s, ShapeIs
  <2>3. state'.reader \in {0, state.reader}  BY <1>f
  <2>. QED  BY <2>2, <2>3, StayParked
<1>4. QEnd'
  <2>1. \A id \in Ids' : calls'[id].answer = "empty" => id \in Ids /\ calls[id].answer = "empty"
    BY <1>s, OnwardIs
  <2>2. ~(state.ended /\ state.bytes = <<>>)  OBVIOUS
  <2>. QED  BY <2>1, <2>2, StaysEnd
<1>5. NobodyForgotten'
  <2>1. ASSUME NEW id \in Ids'
        PROVE  calls'[id].answer = "waiting" <=> id \in Writers(state)
    <3>1. CASE id \in Ids  BY <1>s, <3>1, WritersAre, ShapeIs DEF QInv, NobodyForgotten
    <3>2. CASE id = N  BY <1>w, <3>2, WritersAre
    <3>. QED  BY <1>s, <3>1, <3>2, OnwardIs
  <2>2. Writers(state)' = Writers(state) /\ state'.reader = 0  BY <1>f DEF Writers
  <2>3. 0 \notin Ids'  BY <1>s, OnwardIs
  <2>. QED  BY <2>1, <2>2, <2>3 DEF NobodyForgotten
<1>6. NoLostWakeup'
  <2>1. ASSUME state.writers # <<>> PROVE ~Fits(QueueCap, z, Head(state.writers).bytes)
    <3>1. ~Fits(QueueCap, y, Head(state.writers).bytes)  BY <1>s, <1>x, <2>1 DEF QInv, NoLostWakeup, QShape
    <3>2. PICK k \in Nat : k = Len(Head(state.writers).bytes)
      <4>1. state.writers[1] \in Writer  BY <1>s, <2>1, ShapeIs
      <4>2. Head(state.writers) = state.writers[1]  BY <1>s, <2>1, ShapeIs
      <4>3. Head(state.writers).bytes \in Seq(Token)  BY <4>1, <4>2 DEF Writer
      <4>. QED  BY <4>3
    <3>3. PICK l \in Nat, o \in Nat : l = Len(y) /\ o = Len(b)  BY <1>l
    <3>4. ~(QueueCap = 0 \/ l + k <= QueueCap)  BY <3>1, <3>2, <3>3 DEF Fits
    <3>5. ~(QueueCap = 0 \/ Len(z) + k <= QueueCap)  BY <1>l, <1>s, <3>3, <3>4, ShapeIs
    <3>. QED  BY <3>2, <3>5 DEF Fits
  <2>. QED  BY <1>f, <2>1 DEF NoLostWakeup
<1>7. CapHolds'
  <2>1. Fits(QueueCap, y, b)  BY <1>b, <1>s, <1>x DEF QShape
  <2>. QED  BY <1>f, <1>l, <1>s, <2>1, ShapeIs DEF Fits, CapHolds
<1>. QED  BY <1>1, <1>2, <1>3, <1>4, <1>5, <1>6, <1>7 DEF QInv

\* A write that does not fit.
LEMMA DriverParks ==
    ASSUME QInv, Onward, NEW N \in Nat, N = Len(calls) + 1, Len(calls') = N, ~state.ended, state.reader = 0,
           NEW n \in Nat, n # 0, calls'[N].kind = "push", calls'[N].size = n, calls'[N].answer = "waiting",
           \A i \in Ids : calls'[i].answer = calls[i].answer,
           ~Fits(state.cap, state.bytes, BytesOf(N, n)),
           state' = Refill(state, state.bytes, Append(state.writers, [id |-> N, bytes |-> BytesOf(N, n)])),
           delivered' = delivered
    PROVE  QInv'
<1>s. QShape  BY DEF QInv
<1>b. PICK b \in Seq(Token) : b = BytesOf(N, n)  BY BytesAre
<1>x. PICK y \in Seq(Token), v \in Seq(Writer) : y = state.bytes /\ v = state.writers  BY <1>s, ShapeIs
<1>k. PICK w \in Writer : w = [id |-> N, bytes |-> b]  BY DEF Writer
<1>k1. w.id = N /\ w.bytes = b  BY <1>k
<1>a. v \in Seq(Writer) /\ w \in Writer => Append(v, w) \in Seq(Writer)  OBVIOUS
<1>u. PICK u \in Seq(Writer) : u = Append(v, w)  BY <1>a
<1>l. /\ Len(v) \in Nat /\ Len(u) = Len(v) + 1 /\ u[Len(v) + 1] = w /\ \A i \in 1 .. Len(v) : u[i] = v[i]
      /\ v # <<>> => Head(u) = Head(v)
      /\ v = <<>> => Head(u) = w
  <2>1. Len(Append(v, w)) = Len(v) + 1 /\ Append(v, w)[Len(v) + 1] = w /\ Len(v) \in Nat  OBVIOUS
  <2>2. \A i \in 1 .. Len(v) : Append(v, w)[i] = v[i]  OBVIOUS
  <2>3. /\ v # <<>> => Head(Append(v, w)) = Head(v)
        /\ v = <<>> => Head(Append(v, w)) = w
    OBVIOUS
  <2>. QED  BY <1>u, <2>1, <2>2, <2>3
<1>f. /\ state' \in Pipe /\ state'.cap = QueueCap /\ state'.reader = 0 /\ state'.ended = state.ended
      /\ state'.bytes = y /\ state'.writers = u
  <2>1. PICK q \in Pipe : q = state  BY <1>s DEF QShape
  <2>2. state' = Refill(q, y, u)  BY <1>b, <1>k, <1>x, <1>u, <2>1
  <2>3. PICK r : r = Refill(q, y, u)  OBVIOUS
  <2>4. r \in Pipe /\ r.reader = q.reader /\ r.ended = q.ended /\ r.cap = q.cap /\ r.bytes = y /\ r.writers = u
    BY <2>3, RefillIs
  <2>. QED  BY <1>s, <2>1, <2>2, <2>3, <2>4 DEF QShape
<1>w. N \in Ids' /\ N \notin Ids  BY <1>s, OnwardIs, ShapeIs
<1>1. QShape'  BY <1>f, <1>s DEF QShape, Onward
<1>2. AcceptedExactlyOnce' /\ Known(Carried, Ids)'
  <2>1. PICK m \in Nat : m = 0  OBVIOUS
  <2>2. m = IF Len(calls') # Len(calls) /\ calls'[Len(calls) + 1].answer = "ok"
            THEN calls'[Len(calls) + 1].size ELSE 0
    BY <2>1
  <2>3. Carried' = Carried \o BytesOf(Len(calls) + 1, m)
    BY <1>f, <1>s, <1>x, <2>1, CarriedIs DEF Carried
  <2>. QED  BY <2>2, <2>3, TakenOnce
<1>v. DOMAIN v = 1 .. Len(v) /\ DOMAIN u = 1 .. Len(u)  OBVIOUS
<1>3. QParked'
  <2>1. ASSUME NEW i \in 1 .. Len(u)
        PROVE  /\ u[i].id \in Ids' /\ calls'[u[i].id].kind = "push" /\ calls'[u[i].id].size # 0
               /\ u[i].bytes = BytesOf(u[i].id, calls'[u[i].id].size)
    <3>1. CASE i \in 1 .. Len(v)
      <4>1. /\ v[i].id \in Ids /\ calls[v[i].id].kind = "push" /\ calls[v[i].id].size # 0
            /\ v[i].bytes = BytesOf(v[i].id, calls[v[i].id].size)
        BY <1>x, <3>1 DEF QInv, QParked
      <4>2. PICK a : a = v[i]  OBVIOUS
      <4>3. a.id \in Ids' /\ calls'[a.id].kind = calls[a.id].kind /\ calls'[a.id].size = calls[a.id].size
        BY <1>s, <4>1, <4>2, OnwardIs
      <4>. QED  BY <1>l, <3>1, <4>1, <4>2, <4>3
    <3>2. CASE i = Len(v) + 1  BY <1>b, <1>k1, <1>l, <1>w, <3>2
    <3>. QED  BY <1>l, <2>1, <3>1, <3>2
  <2>2. ASSUME NEW i \in 1 .. Len(u), NEW j \in 1 .. Len(u), u[i].id = u[j].id PROVE i = j
    <3>1. \A k \in 1 .. Len(v) : u[k].id = v[k].id /\ v[k].id \in Ids
      BY <1>l, <1>x DEF QInv, QParked
    <3>2. CASE i \in 1 .. Len(v) /\ j \in 1 .. Len(v)
      <4>1. v[i].id = v[j].id  BY <2>2, <3>1, <3>2
      <4>. QED  BY <1>x, <3>2, <4>1 DEF QInv, QParked
    <3>3. CASE i \in 1 .. Len(v) /\ j = Len(v) + 1  BY <1>k1, <1>l, <1>w, <2>2, <3>1, <3>3
    <3>4. CASE j \in 1 .. Len(v) /\ i = Len(v) + 1  BY <1>k1, <1>l, <1>w, <2>2, <3>1, <3>4
    <3>5. CASE i = Len(v) + 1 /\ j = Len(v) + 1  BY <3>5
    <3>. QED  BY <1>l, <3>2, <3>3, <3>4, <3>5
  <2>. QED  BY <1>f, <2>1, <2>2 DEF QParked
<1>4. QEnd'
  <2>1. \A id \in Ids' : calls'[id].answer = "empty" => id \in Ids /\ calls[id].answer = "empty"
    BY <1>s, OnwardIs
  <2>2. ~(state.ended /\ state.bytes = <<>>)  OBVIOUS
  <2>. QED  BY <2>1, <2>2, StaysEnd
<1>5. NobodyForgotten'
  <2> DEFINE V == {v[i].id : i \in 1 .. Len(v)}
             U == {u[i].id : i \in 1 .. Len(u)}
  <2>1. \A id \in Ids : calls'[id].answer = "waiting" <=> id \in V
    BY <1>s, <1>v, <1>x, ShapeIs DEF QInv, NobodyForgotten, Writers
  <2>2. U = V \cup {N}
    <3>1. \A i \in 1 .. Len(u) : u[i].id \in V \cup {N}
      <4>1. \A i \in 1 .. Len(u) : i \in 1 .. Len(v) \/ i = Len(v) + 1  BY <1>l
      <4>. QED  BY <1>k1, <1>l, <4>1
    <3>2. \A i \in 1 .. Len(v) : v[i].id \in U
      <4>1. \A i \in 1 .. Len(v) : i \in 1 .. Len(u) /\ u[i].id = v[i].id  BY <1>l
      <4>. QED  BY <4>1
    <3>3. N \in U
      <4>1. Len(v) + 1 \in 1 .. Len(u) /\ u[Len(v) + 1].id = N  BY <1>k1, <1>l
      <4>. QED  BY <4>1
    <3>4. \A e \in U : e \in V \cup {N}  BY <3>1
    <3>5. \A e \in V : e \in U  BY <3>2
    <3> HIDE DEF U, V
    <3>. QED  BY <3>3, <3>4, <3>5
  <2>5. Writers(state)' = U /\ state'.reader = 0  BY <1>f, <1>v DEF Writers
  <2> HIDE DEF U, V
  <2>3. ASSUME NEW id \in Ids' PROVE calls'[id].answer = "waiting" <=> id \in U
    <3>1. CASE id = N  BY <2>2, <3>1
    <3>2. CASE id # N
      <4>1. id \in Ids  BY <1>s, <2>3, <3>2, OnwardIs
      <4>. QED  BY <2>1, <2>2, <3>2, <4>1
    <3>. QED  BY <3>1, <3>2
  <2>4. 0 \notin Ids'  BY <1>s, OnwardIs
  <2>6. ASSUME NEW id \in Ids'
        PROVE  calls'[id].answer = "waiting" <=> id = state'.reader \/ id \in Writers(state)'
    BY <2>3, <2>4, <2>5
  <2>. QED  BY <2>6 DEF NobodyForgotten
<1>6. NoLostWakeup'
  <2>1. ~Fits(QueueCap, y, Head(u).bytes)
    <3>1. CASE v = <<>>  BY <1>b, <1>k1, <1>l, <1>s, <1>x, <3>1 DEF QShape
    <3>2. CASE v # <<>>
      <4>1. ~Fits(QueueCap, y, Head(v).bytes)  BY <1>s, <1>x, <3>2 DEF QInv, NoLostWakeup, QShape
      <4>. QED  BY <1>l, <3>2, <4>1
    <3>. QED  BY <3>1, <3>2
  <2>. QED  BY <1>f, <2>1 DEF NoLostWakeup
<1>7. CapHolds'  BY <1>f, <1>x DEF QInv, CapHolds
<1>. QED  BY <1>1, <1>2, <1>3, <1>4, <1>5, <1>6, <1>7 DEF QInv

\* A read of nothing waits, and the one that waited is told the end of its wait.
LEMMA DriverWaits ==
    ASSUME QInv, Onward, NEW N \in Nat, N = Len(calls) + 1, Len(calls') = N, ~state.ended, state.bytes = <<>>,
           calls'[N].kind = "next", calls'[N].answer = "waiting",
           state.reader # 0 => calls'[state.reader].answer = "empty",
           \A i \in Ids : i # state.reader => calls'[i].answer = calls[i].answer,
           state' = [state EXCEPT !.reader = N], delivered' = delivered
    PROVE  QInv'
<1>s. QShape  BY DEF QInv
<1>f. /\ state' \in Pipe /\ state'.cap = QueueCap /\ state'.reader = N /\ state'.ended = state.ended
      /\ state'.bytes = <<>> /\ state'.writers = state.writers
  BY <1>s DEF QShape, Pipe
<1>w. N \in Ids' /\ N \notin Ids /\ N # 0 /\ 0 \notin Ids' /\ 0 \notin Ids  BY <1>s, OnwardIs, ShapeIs
<1>r. state.reader # 0 => state.reader \in Ids /\ calls[state.reader].answer = "waiting"
  BY WritersAre DEF QInv, NobodyForgotten
<1>1. QShape'  BY <1>f, <1>s DEF QShape, Onward
<1>2. AcceptedExactlyOnce' /\ Known(Carried, Ids)'
  <2>1. PICK m \in Nat : m = 0  OBVIOUS
  <2>2. m = IF Len(calls') # Len(calls) /\ calls'[Len(calls) + 1].answer = "ok"
            THEN calls'[Len(calls) + 1].size ELSE 0
    BY <2>1
  <2>3. Carried' = Carried \o BytesOf(Len(calls) + 1, m)  BY <1>f, <1>s, <2>1, CarriedIs DEF Carried
  <2>4. \A i \in Ids : calls'[i].answer = "ok" <=> calls[i].answer = "ok"  BY <1>r, <1>w
  <2>. QED  BY <2>2, <2>3, <2>4, TakenOnce
<1>3. QParked'
  <2>1. PICK m \in Nat : m = 0  OBVIOUS
  <2>2. \A i \in 1 .. Len(state'.writers) :
           i + m \in 1 .. Len(state.writers) /\ state'.writers[i] = state.writers[i + m]
    BY <2>1, <1>f, <1>s, ShapeIs
  <2>3. state'.reader = Len(calls) + 1 /\ Len(calls') # Len(calls) /\ calls'[Len(calls) + 1].kind = "next"
    BY <1>f, <1>s, ShapeIs
  <2>. QED  BY <2>2, <2>3, StayParked
<1>4. QEnd'
  <2>1. \A id \in Ids' : calls'[id].answer = "empty" => id \in Ids  BY <1>s, OnwardIs
  <2>2. ~(state.ended /\ state.bytes = <<>>)  OBVIOUS
  <2>3. Len(calls') # Len(calls)  BY <1>s, ShapeIs
  <2>. QED  BY <2>1, <2>2, <2>3, StaysEnd
<1>5. NobodyForgotten'
  <2>1. ASSUME NEW id \in Ids'
        PROVE  calls'[id].answer = "waiting" <=> id = N \/ id \in Writers(state)
    <3>1. CASE id \in Ids /\ id = state.reader  BY <1>w, <3>1, WritersAre
    <3>2. CASE id \in Ids /\ id # state.reader  BY <1>w, <3>2 DEF QInv, NobodyForgotten
    <3>3. CASE id = N  BY <3>3
    <3>. QED  BY <1>s, <3>1, <3>2, <3>3, OnwardIs
  <2>2. Writers(state)' = Writers(state)  BY <1>f DEF Writers
  <2>. QED  BY <1>f, <2>1, <2>2 DEF NobodyForgotten
<1>6. NoLostWakeup' /\ CapHolds'  BY <1>f, <1>s DEF QInv, NoLostWakeup, CapHolds, QShape
<1>. QED  BY <1>1, <1>2, <1>3, <1>4, <1>5, <1>6 DEF QInv

\* The end, with a last line behind what is queued or in the reader's hands, or without one.
LEMMA DriverEnds ==
    ASSUME QInv, Onward, ~state.ended, NEW y \in Seq(Token), state' = Over(state, y, <<>>),
           delivered' \in Seq(Token), NEW m \in Nat,
           m = IF Len(calls') # Len(calls) /\ calls'[Len(calls) + 1].answer = "ok"
               THEN calls'[Len(calls) + 1].size ELSE 0,
           delivered' \o y = Carried \o BytesOf(Len(calls) + 1, m),
           state.reader # 0 => calls'[state.reader].answer \in {"data", "empty"} /\ y = <<>>,
           \A i \in Writers(state) : calls'[i].answer = "refused",
           \A i \in Ids : i # state.reader /\ i \notin Writers(state) => calls'[i].answer = calls[i].answer,
           \A i \in Ids' \ Ids : calls'[i].answer \notin {"waiting", "empty"}
    PROVE  QInv'
<1>s. QShape  BY DEF QInv
<1>f. /\ state' \in Pipe /\ state'.cap = QueueCap /\ state'.reader = 0 /\ state'.ended
      /\ state'.bytes = y /\ state'.writers = <<>>
  <2>1. PICK q \in Pipe : q = state  BY <1>s DEF QShape
  <2>. QED  BY <1>s, <2>1, OverEmpty DEF QShape
<1>0. 0 \notin Ids' /\ 0 \notin Ids /\ Ids \subseteq Ids'  BY <1>s, OnwardIs, ShapeIs
<1>r. \A i \in Ids : calls[i].answer = "waiting" <=> i = state.reader \/ i \in Writers(state)
  BY DEF QInv, NobodyForgotten
<1>1. QShape'  BY <1>f DEF QShape, Onward
<1>2. AcceptedExactlyOnce' /\ Known(Carried, Ids)'
  <2>1. Carried' = Carried \o BytesOf(Len(calls) + 1, m)  BY <1>f DEF Carried
  <2>2. \A i \in Ids : calls'[i].answer = "ok" <=> calls[i].answer = "ok"
    <3>1. ASSUME NEW i \in Ids PROVE calls'[i].answer = "ok" <=> calls[i].answer = "ok"
      <4>1. CASE i = state.reader  BY <1>0, <1>r, <4>1
      <4>2. CASE i \in Writers(state)  BY <1>r, <4>2
      <4>. QED  BY <4>1, <4>2
    <3>. QED  BY <3>1
  <2>. QED  BY <2>1, <2>2, TakenOnce
<1>l. Len(<<>>) = 0 /\ 1 .. 0 = {} /\ DOMAIN <<>> = {}  OBVIOUS
<1>3. QParked'
  <2>1. PICK k \in Nat : k = 0  OBVIOUS
  <2>2. \A i \in 1 .. Len(state'.writers) :
           i + k \in 1 .. Len(state.writers) /\ state'.writers[i] = state.writers[i + k]
    BY <1>f, <1>l
  <2>3. state'.reader \in {0, state.reader}  BY <1>f
  <2>. QED  BY <2>2, <2>3, StayParked
<1>4. QEnd'
  <2>1. ASSUME NEW id \in Ids', calls'[id].answer = "empty"
        PROVE  (id \in Ids /\ calls[id].answer = "empty") \/ (state'.ended /\ state'.bytes = <<>>)
    <3>1. id \in Ids  BY <2>1
    <3>2. CASE id = state.reader  BY <1>0, <1>f, <3>1, <3>2
    <3>3. CASE id # state.reader
      <4>1. id \notin Writers(state)  BY <2>1
      <4>. QED  BY <2>1, <3>1, <3>3, <4>1
    <3>. QED  BY <3>2, <3>3
  <2>2. ~(state.ended /\ state.bytes = <<>>)  OBVIOUS
  <2>. QED  BY <2>1, <2>2, StaysEnd
<1>5. NobodyForgotten'
  <2>1. ASSUME NEW id \in Ids' PROVE calls'[id].answer # "waiting"
    <3>1. CASE id \in Ids /\ id = state.reader  BY <1>0, <3>1
    <3>2. CASE id \in Ids /\ id \in Writers(state)  BY <3>2
    <3>3. CASE id \in Ids /\ id # state.reader /\ id \notin Writers(state)  BY <1>r, <3>3
    <3>4. CASE id \notin Ids  BY <2>1, <3>4
    <3>. QED  BY <3>1, <3>2, <3>3, <3>4
  <2>2. Writers(state)' = {} /\ state'.reader = 0  BY <1>f, <1>l DEF Writers
  <2>. QED  BY <1>0, <2>1, <2>2 DEF NobodyForgotten
<1>6. NoLostWakeup' /\ CapHolds'  BY <1>f DEF NoLostWakeup, CapHolds
<1>. QED  BY <1>1, <1>2, <1>3, <1>4, <1>5, <1>6 DEF QInv

\* The k first parked writers let in behind c: theirs and the taken ones are there whole.
LetInWell(c, k) ==
    /\ \A id \in Ids : Holds(c, id, IF calls[id].answer = "ok" \/ \E j \in 1 .. k : state.writers[j].id = id
                                    THEN calls[id].size ELSE 0)
    /\ Known(c, Ids)
\* One more of them.
LEMMA OneMore ==
    ASSUME QInv, NEW k \in Nat, k + 1 \in 1 .. Len(state.writers), NEW c \in Seq(Token), LetInWell(c, k),
           NEW y \in Seq(Token), y = state.writers[k + 1].bytes
    PROVE  LetInWell(c \o y, k + 1)
<1>s. QShape  BY DEF QInv
<1>0. PICK w \in Nat : w = state.writers[k + 1].id /\ w \in Ids  BY <1>s, ShapeIs DEF QInv, QParked
<1>1. PICK n \in Nat : n = calls[w].size  BY <1>s, <1>0, ShapeIs
<1>2. y = BytesOf(w, n) /\ calls[w].answer = "waiting"
  <2>1. w \in Writers(state)  BY <1>0, <1>s, ShapeIs DEF Writers
  <2>. QED  BY <1>0, <1>1, <2>1 DEF QInv, QParked, NobodyForgotten
<1>3. Len(y) = n /\ \A i \in 1 .. n : y[i] = <<w, i>>  BY <1>2, BytesAre
<1>4. \A j \in 1 .. k : state.writers[j].id # w
  <2>1. ASSUME NEW j \in 1 .. k, state.writers[j].id = w PROVE FALSE
    <3>0. j \in 1 .. Len(state.writers)  BY <1>s, ShapeIs
    <3>1. PICK a, b \in 1 .. Len(state.writers) : a = j /\ b = k + 1  BY <3>0
    <3>2. state.writers[a].id = state.writers[b].id  BY <1>0, <2>1, <3>1
    <3>3. a = b  BY <3>2 DEF QInv, QParked
    <3>. QED  BY <3>1, <3>3
  <2>. QED  BY <2>1
<1>5. ASSUME NEW id \in Ids
      PROVE  Holds(c \o y, id, IF calls[id].answer = "ok" \/ \E j \in 1 .. k + 1 : state.writers[j].id = id
                               THEN calls[id].size ELSE 0)
  <2>0. id \in Nat  BY <1>s, ShapeIs
  <2>1. CASE id = w
    <3>1. \E j \in 1 .. k + 1 : state.writers[j].id = id
      <4>1. k + 1 \in 1 .. k + 1  OBVIOUS
      <4>. QED  BY <1>0, <2>1, <4>1
    <3>2. ~(calls[id].answer = "ok" \/ \E j \in 1 .. k : state.writers[j].id = id)  BY <1>2, <1>4, <2>1
    <3>3. Holds(c, w, 0)  BY <1>0, <2>1, <3>2 DEF LetInWell
    <3>4. Holds(c \o BytesOf(w, n), w, n)  BY <3>3, HoldsNew
    <3>. QED  BY <1>1, <1>2, <2>1, <3>1, <3>4
  <2>2. CASE id # w
    <3>1. PICK z \in Nat :
            z = IF calls[id].answer = "ok" \/ \E j \in 1 .. k : state.writers[j].id = id THEN calls[id].size ELSE 0
      BY <1>s, ShapeIs
    <3>2. Holds(c, id, z)  BY <3>1 DEF LetInWell
    <3>3. \A i \in 1 .. Len(y) : y[i][1] # id  BY <1>3, <2>2
    <3>4. Holds(c \o y, id, z)  BY <2>0, <3>2, <3>3, HoldsMore
    <3>5. (\E j \in 1 .. k + 1 : state.writers[j].id = id) <=> \E j \in 1 .. k : state.writers[j].id = id
      <4>1. \A j \in 1 .. k + 1 : j \in 1 .. k \/ j = k + 1  OBVIOUS
      <4>2. \A j \in 1 .. k : j \in 1 .. k + 1  OBVIOUS
      <4>3. state.writers[k + 1].id # id  BY <1>0, <2>2
      <4>. QED  BY <4>1, <4>2, <4>3
    <3>. QED  BY <3>1, <3>4, <3>5
  <2>. QED  BY <2>1, <2>2
<1>6. Known(c \o y, Ids)
  <2>0. Len(c \o y) = Len(c) + Len(y) /\ Len(c) \in Nat  OBVIOUS
  <2>1. \A i \in 1 .. Len(c) : (c \o y)[i] = c[i]  OBVIOUS
  <2>2. \A i \in Len(c) + 1 .. Len(c) + Len(y) : i - Len(c) \in 1 .. Len(y) /\ (c \o y)[i] = y[i - Len(c)]  OBVIOUS
  <2>3. PICK e : e = c \o y  OBVIOUS
  <2>4. ASSUME NEW i \in 1 .. Len(e) PROVE e[i][1] \in Ids /\ e[i][2] # 0
    <3>1. CASE i \in 1 .. Len(c)  BY <2>1, <2>3, <3>1 DEF LetInWell, Known
    <3>2. CASE i \in Len(c) + 1 .. Len(c) + Len(y)
      <4>1. e[i] = <<w, i - Len(c)>> /\ i - Len(c) # 0  BY <1>3, <2>0, <2>2, <2>3, <3>2
      <4>. QED  BY <1>0, <4>1
    <3>. QED  BY <1>3, <2>0, <2>3, <3>1, <3>2
  <2>. QED  BY <2>3, <2>4 DEF Known
<1>. QED  BY <1>5, <1>6 DEF LetInWell
\* All that a read lets in.
LEMMA AllLetIn ==
    ASSUME QInv, NEW x \in Seq(Token), NEW f, NEW n \in Nat, n <= Len(state.writers),
           f \in [0 .. Len(state.writers) -> Seq(Token)],
           \A k \in 1 .. Len(state.writers) : f[k] = f[k - 1] \o state.writers[k].bytes,
           x \o f[0] = Carried
    PROVE  LetInWell(x \o f[n], n)
<1>s. QShape  BY DEF QInv
<1>L. PICK L \in Nat : L = Len(state.writers)  BY <1>s, ShapeIs
<1> DEFINE S == {k \in Nat : k <= L => LetInWell(x \o f[k], k)}
<1>1. 0 \in S
  <2>1. LetInWell(Carried, 0)
    <3>1. \A id : ~\E j \in 1 .. 0 : state.writers[j].id = id  OBVIOUS
    <3>2. \A id \in Ids : Holds(Carried, id, IF calls[id].answer = "ok" THEN calls[id].size ELSE 0)
      BY DEF QInv, AcceptedExactlyOnce
    <3>3. Known(Carried, Ids)  BY DEF QInv
    <3>. QED  BY <3>1, <3>2, <3>3 DEF LetInWell
  <2>. QED  BY <2>1
<1>2. ASSUME NEW k \in Nat, k \in S PROVE k + 1 \in S
  <2>1. SUFFICES ASSUME k + 1 <= L PROVE LetInWell(x \o f[k + 1], k + 1)  OBVIOUS
  <2>2. PICK g \in Seq(Token) : g = f[k]
    <3>1. k \in 0 .. Len(state.writers)  BY <1>L, <2>1
    <3>2. f[k] \in Seq(Token)  BY <3>1
    <3>. QED  BY <3>2
  <2>3. LetInWell(x \o g, k)  BY <1>2, <2>1, <2>2
  <2>4. PICK j \in 1 .. L : j = k + 1 /\ j - 1 = k  BY <2>1
  <2>5. PICK y \in Seq(Token) : y = state.writers[j].bytes
    <3>1. state.writers[j] \in Writer  BY <1>L, <1>s, ShapeIs
    <3>. QED  BY <3>1 DEF Writer
  <2>6. f[j] = g \o y  BY <1>L, <2>2, <2>4, <2>5
  <2>7. PICK c \in Seq(Token) : c = x \o g
    <3>1. x \o g \in Seq(Token)  OBVIOUS
    <3>. QED  BY <3>1
  <2>8. LetInWell(c \o y, k + 1)  BY <1>L, <2>3, <2>4, <2>5, <2>7, OneMore
  <2>9. (x \o g) \o y = x \o (g \o y)  OBVIOUS
  <2>. QED  BY <2>4, <2>6, <2>7, <2>8, <2>9
<1>3. Nat \subseteq S
  <2> HIDE DEF S
  <2>. QED  BY <1>1, <1>2, SetInduction
<1>. QED  BY <1>L, <1>3

\* z is the queue q refilled, by its fields.
Refilled(z, q, b, v) ==
    /\ z \in Pipe /\ z.reader = q.reader /\ z.ended = q.ended /\ z.cap = q.cap
    /\ z.bytes = b /\ z.writers = v
\* A refilled queue has those fields.
LEMMA RefilledIs ==
    ASSUME NEW q \in Pipe, NEW b \in Seq(Token), NEW v \in Seq(Writer)
    PROVE  Refilled(Refill(q, b, v), q, b, v)
BY RefillIs DEF Refilled
\* u is the sequence v without its first n.
IsSuffix(u, v, n, S) ==
    u \in Seq(S) /\ Len(u) = Len(v) - n /\ \A i \in 1 .. Len(v) - n : u[i] = v[i + n]
\* What SubSeq leaves of a sequence without its first n.
LEMMA SuffixIs ==
    ASSUME NEW S, NEW v \in Seq(S), NEW n \in 0 .. Len(v)
    PROVE  IsSuffix(SubSeq(v, n + 1, Len(v)), v, n, S)
<1>1. PICK L \in Nat, m \in Nat : L = Len(v) /\ m = n + 1  OBVIOUS
<1>2. m \in Int /\ L \in Int /\ \A i \in m .. L : v[i] \in S
  <2>1. \A i \in m .. L : i \in 1 .. Len(v)  BY <1>1
  <2>. QED  BY <2>1
<1>3. /\ SubSeq(v, m, L) \in Seq(S)
      /\ Len(SubSeq(v, m, L)) = IF m <= L THEN L - m + 1 ELSE 0
      /\ \A i \in 1 .. L - m + 1 : SubSeq(v, m, L)[i] = v[m + i - 1]
  BY <1>2, SubSeqProperties
<1>4. (IF m <= L THEN L - m + 1 ELSE 0) = Len(v) - n /\ L - m + 1 = Len(v) - n  BY <1>1
<1>5. \A i \in 1 .. Len(v) - n : m + i - 1 = i + n  BY <1>1
<1>6. SubSeq(v, m, L) = SubSeq(v, n + 1, Len(v))  BY <1>1
<1>7. \A i \in 1 .. Len(v) - n : SubSeq(v, m, L)[i] = v[i + n]  BY <1>3, <1>4, <1>5
<1>. QED  BY <1>3, <1>4, <1>6, <1>7 DEF IsSuffix

\* A read of what is queued, and the writers it lets in.
LEMMA DriverReads ==
    ASSUME QInv, Onward, NEW N \in Nat, N = Len(calls) + 1, Len(calls') = N, state.bytes # <<>>,
           calls'[N].answer = "data",
           NEW h, NEW r, NEW f, NEW n, NEW p, Takes(state, p, h, r, f, n), state' = p.state,
           delivered' = delivered \o h,
           \A j \in 1 .. n : calls'[state.writers[j].id].answer = "ok",
           \A i \in Ids : (\A j \in 1 .. n : state.writers[j].id # i) => calls'[i].answer = calls[i].answer
    PROVE  QInv'
<1>s. QShape  BY DEF QInv
<1>v. PICK v \in Seq(Writer) : v = state.writers  BY <1>s, ShapeIs
<1>L. PICK L \in Nat : L = Len(state.writers) /\ L = Len(v)  BY <1>s, <1>v, ShapeIs
<1>h. PICK hh \in Seq(Token), rr \in Seq(Token) : hh = h /\ rr = r /\ hh \o rr = state.bytes  BY DEF Takes
<1>x. PICK x \in Seq(Token) : x = delivered  BY <1>s DEF QShape
<1>d. PICK d \in Seq(Token) : d = x \o hh /\ delivered' = d
  <2>1. x \o hh \in Seq(Token)  OBVIOUS
  <2>. QED  BY <1>h, <1>x, <2>1
<1>z. PICK z : z = Refill(state, rr, v)  OBVIOUS
<1>z1. z \in Pipe /\ z.writers = v /\ z.bytes = rr /\ z.cap = QueueCap
  <2>1. PICK q \in Pipe : q = state  BY <1>s DEF QShape
  <2>2. z = Refill(q, rr, v)  BY <1>z, <2>1
  <2>. QED  BY <1>s, <2>1, <2>2, RefillIs DEF QShape
<1>t. /\ LetIn(z, f) /\ RoomFor(z, f, n)
      /\ p.state = Refill(state, f[n], SubSeq(v, n + 1, Len(v)))
  BY <1>h, <1>v, <1>z DEF Takes
<1>n. n \in 0 .. L /\ n \in Nat  BY <1>L, <1>t, <1>z1 DEF RoomFor
<1>f. /\ f \in [0 .. L -> Seq(Token)] /\ f[0] = rr
      /\ \A k \in 1 .. L : f[k] = f[k - 1] \o v[k].bytes
      /\ \A k \in 1 .. n : Fits(QueueCap, f[k - 1], v[k].bytes)
      /\ n = L \/ ~Fits(QueueCap, f[n], v[n + 1].bytes)
  BY <1>L, <1>t, <1>z1 DEF LetIn, RoomFor
<1>g. PICK g \in Seq(Token) : g = f[n]
  <2>1. f[n] \in Seq(Token)  BY <1>f, <1>n
  <2>. QED  BY <2>1
<1>u. PICK u \in Seq(Writer) : u = SubSeq(v, n + 1, L) /\ Len(u) = L - n /\ \A i \in 1 .. L - n : u[i] = v[i + n]
  <2>1. n \in 0 .. Len(v)  BY <1>L, <1>n
  <2>2. IsSuffix(SubSeq(v, n + 1, Len(v)), v, n, Writer)  BY <2>1, SuffixIs
  <2>. QED  BY <1>L, <2>2 DEF IsSuffix
<1>q. /\ state' \in Pipe /\ state'.cap = QueueCap /\ state'.reader = state.reader /\ state'.ended = state.ended
      /\ state'.bytes = g /\ state'.writers = u
  <2>1. PICK q \in Pipe : q = state  BY <1>s DEF QShape
  <2>2. state' = Refill(q, g, u)  BY <1>L, <1>g, <1>t, <1>u, <2>1
  <2>3. PICK y : y = Refill(q, g, u)  OBVIOUS
  <2>4. y \in Pipe /\ y.reader = q.reader /\ y.ended = q.ended /\ y.cap = q.cap /\ y.bytes = g /\ y.writers = u
    <3>1. Refilled(Refill(q, g, u), q, g, u)  BY RefilledIs
    <3>. QED  BY <2>3, <3>1 DEF Refilled
  <2>. QED  BY <1>s, <2>1, <2>2, <2>3, <2>4 DEF QShape
<1>w. N \in Ids' /\ N \notin Ids /\ N # 0 /\ 0 \notin Ids' /\ 0 \notin Ids  BY <1>s, OnwardIs, ShapeIs
<1>i. \A i \in Ids : (\A j \in 1 .. n : v[j].id # i) => calls'[i].answer = calls[i].answer  BY <1>v
<1>o. \A j \in 1 .. n : v[j].id \in Ids /\ calls'[v[j].id].answer = "ok" /\ calls[v[j].id].answer = "waiting"
  <2>1. ASSUME NEW j \in 1 .. n
        PROVE  v[j].id \in Ids /\ calls'[v[j].id].answer = "ok" /\ calls[v[j].id].answer = "waiting"
    <3>1. j \in 1 .. L /\ j \in DOMAIN v  BY <1>L, <1>n
    <3>2. v[j].id \in Ids  BY <1>L, <1>v, <3>1 DEF QInv, QParked
    <3>3. v[j].id \in Writers(state)  BY <1>v, <3>1 DEF Writers
    <3>. QED  BY <1>v, <3>2, <3>3 DEF QInv, NobodyForgotten
  <2>. QED  BY <2>1
<1>e. state.reader = 0  BY DEF QInv, NoLostWakeup
<1>1. QShape'  BY <1>d, <1>q DEF QShape, Onward
<1>2. AcceptedExactlyOnce' /\ Known(Carried, Ids)'
  <2>1. d \o rr = Carried
    <3>1. (x \o hh) \o rr = x \o (hh \o rr)  BY Joins
    <3>. QED  BY <1>d, <1>h, <1>x, <3>1 DEF Carried
  <2>2. LetInWell(d \o f[n], n)
    <3>1. \A k \in 1 .. Len(state.writers) : f[k] = f[k - 1] \o state.writers[k].bytes  BY <1>L, <1>f, <1>v
    <3>2. d \o f[0] = Carried  BY <1>f, <2>1
    <3>3. f \in [0 .. Len(state.writers) -> Seq(Token)]  BY <1>L, <1>f
    <3>4. n \in Nat /\ n <= Len(state.writers)  BY <1>L, <1>n
    <3>. QED  BY <3>1, <3>2, <3>3, <3>4, AllLetIn
  <2>3. PICK c \in Seq(Token) : c = Carried' /\ c = d \o g
    <3>1. d \o g \in Seq(Token)  OBVIOUS
    <3>. QED  BY <1>d, <1>q, <3>1 DEF Carried
  <2>4. LetInWell(c, n)  BY <1>g, <2>2, <2>3
  <2>5. ASSUME NEW id \in Ids' PROVE Holds(c, id, IF calls'[id].answer = "ok" THEN calls'[id].size ELSE 0)
    <3>1. CASE id \in Ids
      <4>1. calls'[id].answer = "ok" <=> calls[id].answer = "ok" \/ \E j \in 1 .. n : state.writers[j].id = id
        <5>1. CASE \E j \in 1 .. n : v[j].id = id
          <6>1. calls'[id].answer = "ok"  BY <1>o, <5>1
          <6>2. \E j \in 1 .. n : state.writers[j].id = id  BY <1>v, <5>1
          <6>. QED  BY <6>1, <6>2
        <5>2. CASE ~\E j \in 1 .. n : v[j].id = id
          <6>1. calls'[id].answer = calls[id].answer  BY <1>i, <3>1, <5>2
          <6>2. ~\E j \in 1 .. n : state.writers[j].id = id  BY <1>v, <5>2
          <6>. QED  BY <6>1, <6>2
        <5>. QED  BY <5>1, <5>2
      <4>2. calls'[id].size = calls[id].size  BY <1>s, <3>1, OnwardIs
      <4>. QED  BY <2>4, <3>1, <4>1, <4>2 DEF LetInWell
    <3>2. CASE id = N
      <4>1. \A k \in 1 .. Len(c) : c[k][1] # N  BY <1>w, <2>4 DEF LetInWell, Known
      <4>2. Holds(c, N, 0)  BY <4>1, HoldsNone
      <4>. QED  BY <3>2, <4>2
    <3>. QED  BY <1>s, <3>1, <3>2, OnwardIs
  <2>6. Known(c, Ids')  BY <1>s, <2>4, OnwardIs DEF LetInWell, Known
  <2>. QED  BY <2>3, <2>5, <2>6 DEF AcceptedExactlyOnce
<1>3. QParked'
  <2>1. \A i \in 1 .. Len(state'.writers) :
           i + n \in 1 .. Len(state.writers) /\ state'.writers[i] = state.writers[i + n]
    BY <1>L, <1>n, <1>q, <1>u, <1>v
  <2>2. state'.reader \in {0, state.reader}  BY <1>q
  <2>. QED  BY <1>n, <2>1, <2>2, StayParked
<1>4. QEnd'
  <2>1. ASSUME NEW id \in Ids', calls'[id].answer = "empty" PROVE id \in Ids /\ calls[id].answer = "empty"
    <3>1. id \in Ids  BY <1>s, <2>1, OnwardIs
    <3>2. \A j \in 1 .. n : v[j].id # id  BY <1>o, <2>1
    <3>. QED  BY <1>i, <2>1, <3>1, <3>2
  <2>. QED  BY <2>1, StaysEnd
<1>5. NobodyForgotten'
  <2>0. DOMAIN u = 1 .. L - n /\ DOMAIN v = 1 .. L  BY <1>L, <1>u
  <2>1. ASSUME NEW id \in Ids' PROVE calls'[id].answer = "waiting" <=> \E i \in 1 .. L - n : u[i].id = id
    <3>1. CASE id = N
      <4>1. \A i \in 1 .. L - n : u[i].id # N
        <5>1. \A i \in 1 .. L - n : i + n \in 1 .. L /\ u[i] = v[i + n]  BY <1>L, <1>n, <1>u
        <5>2. \A i \in 1 .. L : v[i].id \in Ids  BY <1>L, <1>v DEF QInv, QParked
        <5>3. \A i \in 1 .. L - n : u[i].id \in Ids  BY <5>1, <5>2
        <5>. QED  BY <1>w, <5>3
      <4>. QED  BY <3>1, <4>1
    <3>2. CASE id \in Ids /\ \E j \in 1 .. n : v[j].id = id
      <4>1. calls'[id].answer # "waiting"  BY <1>o, <3>2
      <4>2. \A i \in 1 .. L - n : u[i].id # id
        <5>1. ASSUME NEW i \in 1 .. L - n, u[i].id = id PROVE FALSE
          <6>1. PICK j \in 1 .. n : v[j].id = id  BY <3>2
          <6>2. PICK a, b \in 1 .. L : a = j /\ b = i + n
            <7>1. j \in 1 .. L /\ i + n \in 1 .. L  BY <1>n
            <7>. QED  BY <7>1
          <6>3. v[a].id = v[b].id  BY <1>u, <5>1, <6>1, <6>2
          <6>4. a = b  BY <1>L, <1>v, <6>3 DEF QInv, QParked
          <6>. QED  BY <1>n, <6>2, <6>4
        <5>. QED  BY <5>1
      <4>. QED  BY <4>1, <4>2
    <3>3. CASE id \in Ids /\ \A j \in 1 .. n : v[j].id # id
      <4>1. calls'[id].answer = calls[id].answer  BY <1>i, <3>3
      <4>2. calls[id].answer = "waiting" <=> \E i \in 1 .. L : v[i].id = id
        <5>1. id # state.reader  BY <1>e, <1>w, <3>3
        <5>2. Writers(state) = {v[i].id : i \in 1 .. L}  BY <1>v, <2>0 DEF Writers
        <5>3. calls[id].answer = "waiting" <=> id \in Writers(state)  BY <3>3, <5>1 DEF QInv, NobodyForgotten
        <5>. QED  BY <5>2, <5>3
      <4>3. (\E i \in 1 .. L : v[i].id = id) => \E i \in 1 .. L - n : u[i].id = id
        <5>1. SUFFICES ASSUME NEW i \in 1 .. L, v[i].id = id PROVE \E k \in 1 .. L - n : u[k].id = id  OBVIOUS
        <5>2. i \notin 1 .. n  BY <3>3, <5>1
        <5>3. PICK k \in 1 .. L - n : k = i - n /\ k + n = i
          <6>1. i - n \in 1 .. L - n /\ (i - n) + n = i  BY <1>n, <5>2
          <6>. QED  BY <6>1
        <5>. QED  BY <1>u, <5>1, <5>3
      <4>4. (\E i \in 1 .. L - n : u[i].id = id) => \E i \in 1 .. L : v[i].id = id
        <5>1. \A i \in 1 .. L - n : i + n \in 1 .. L /\ u[i] = v[i + n]  BY <1>n, <1>u
        <5>. QED  BY <5>1
      <4>. QED  BY <4>1, <4>2, <4>3, <4>4
    <3>. QED  BY <1>s, <3>1, <3>2, <3>3, OnwardIs
  <2>2. Writers(state)' = {u[i].id : i \in 1 .. L - n} /\ state'.reader = 0
    BY <1>e, <1>q, <2>0 DEF Writers
  <2>3. ASSUME NEW id \in Ids'
        PROVE  calls'[id].answer = "waiting" <=> id = state'.reader \/ id \in Writers(state)'
    <3>1. id # state'.reader  BY <1>w, <2>2
    <3>2. id \in Writers(state)' <=> \E i \in 1 .. L - n : u[i].id = id  BY <2>2
    <3>3. calls'[id].answer = "waiting" <=> \E i \in 1 .. L - n : u[i].id = id  BY <2>1
    <3>. QED  BY <3>1, <3>2, <3>3
  <2>. QED  BY <2>3 DEF NobodyForgotten
<1>6. NoLostWakeup'
  <2>1. ASSUME u # <<>> PROVE ~state.ended /\ ~Fits(QueueCap, g, Head(u).bytes)
    <3>1. L - n # 0 /\ L - n \in Nat
      <4>1. Len(u) # 0  BY <2>1
      <4>. QED  BY <1>n, <1>u, <4>1
    <3>2. Head(u) = u[1] /\ u[1] = v[n + 1]
      <4>1. 1 \in 1 .. L - n /\ 1 + n = n + 1  BY <1>n, <3>1
      <4>2. Head(u) = u[1]  BY <2>1
      <4>. QED  BY <1>u, <4>1, <4>2
    <3>3. v # <<>>  BY <1>L, <1>n, <3>1
    <3>4. n # L  BY <1>L, <1>n, <3>1
    <3>5. ~Fits(QueueCap, g, Head(u).bytes)  BY <1>f, <1>g, <3>2, <3>4
    <3>6. ~state.ended  BY <1>v, <3>3 DEF QInv, NoLostWakeup
    <3>. QED  BY <3>5, <3>6
  <2>. QED  BY <1>e, <1>q, <2>1 DEF NoLostWakeup
<1>7. CapHolds'
  <2>1. SUFFICES ASSUME QueueCap > 0, ~state.ended PROVE Len(g) <= QueueCap  BY <1>q DEF CapHolds
  <2>2. CASE n = 0
    <3>1. Len(hh \o rr) = Len(hh) + Len(rr) /\ Len(hh) \in Nat /\ Len(rr) \in Nat  OBVIOUS
    <3>2. Len(hh \o rr) <= QueueCap  BY <1>h, <2>1 DEF QInv, CapHolds
    <3>. QED  BY <1>f, <1>g, <1>s, <2>2, <3>1, <3>2, ShapeIs
  <2>3. CASE n # 0
    <3>1. n \in 1 .. n /\ n \in 1 .. L /\ n - 1 \in 0 .. L  BY <1>n, <2>3
    <3>2. Fits(QueueCap, f[n - 1], v[n].bytes) /\ g = f[n - 1] \o v[n].bytes  BY <1>f, <1>g, <3>1
    <3>3. PICK a \in Seq(Token), b \in Seq(Token) : a = f[n - 1] /\ b = v[n].bytes
      <4>1. f[n - 1] \in Seq(Token)  BY <1>f, <3>1
      <4>2. v[n] \in Writer  BY <1>L, <3>1
      <4>3. v[n].bytes \in Seq(Token)  BY <4>2 DEF Writer
      <4>. QED  BY <4>1, <4>3
    <3>4. Len(a \o b) = Len(a) + Len(b)  OBVIOUS
    <3>5. Len(a) + Len(b) <= QueueCap
      <4>1. Fits(QueueCap, a, b)  BY <3>2, <3>3
      <4>2. QueueCap # 0  BY <2>1
      <4>. QED  BY <4>1, <4>2 DEF Fits
    <3>6. g = a \o b  BY <3>2, <3>3
    <3>. QED  BY <3>4, <3>5, <3>6
  <2>. QED  BY <2>2, <2>3
<1>. QED  BY <1>1, <1>2, <1>3, <1>4, <1>5, <1>6, <1>7 DEF QInv

-----------------------------------------------------------------------------
(* ByteQueue: the driver's calls *)

\* A run of the machine: who hears what, and all else about the calls as it was.
AllTold(pending, r, b, yes, no) ==
    /\ Onward /\ Len(calls') = Len(pending) /\ delivered' = delivered \o b
    /\ \A i \in 1 .. Len(pending) :
          /\ calls'[i].kind = pending[i].kind /\ calls'[i].size = pending[i].size
          /\ i = r => calls'[i].answer = IF b = <<>> THEN "empty" ELSE "data"
          /\ i # r /\ i \in yes => calls'[i].answer = "ok"
          /\ i # r /\ i \notin yes /\ i \in no => calls'[i].answer = "refused"
          /\ i # r /\ i \notin yes /\ i \notin no => calls'[i].answer = pending[i].answer
\* The promises a run starts from: those there are and at most one more.
Extends(pending) ==
    /\ pending \in Seq(Call) /\ Len(pending) \in {Len(calls), Len(calls) + 1}
    /\ \A i \in 1 .. Len(calls) : pending[i] = calls[i]

\* What a settled promise keeps, and what it answers.
LEMMA FateSettles ==
    ASSUME NEW promise \in Call, NEW i, NEW r, NEW b, NEW yes, NEW no
    PROVE  LET x == Fate(promise, i, r, b, yes, no) IN
           /\ x.kind = promise.kind /\ x.size = promise.size
           /\ i = r => x.answer = IF b = <<>> THEN "empty" ELSE "data"
           /\ i # r /\ i \in yes => x.answer = "ok"
           /\ i # r /\ i \notin yes /\ i \in no => x.answer = "refused"
           /\ i # r /\ i \notin yes /\ i \notin no => x.answer = promise.answer
BY DEF Fate, Call

\* A run moves the state to the step's and settles what its effects tell.
LEMMA RunSettles ==
    ASSUME QInv, NEW pending, Extends(pending), NEW step, Run(step, pending),
           NEW r, NEW b \in Seq(Token), NEW yes, NEW no, Tells(step.effects, r, b, yes, no)
    PROVE  state' = step.state /\ AllTold(pending, r, b, yes, no)
<1>s. QShape  BY DEF QInv
<1>1. Run(Step(step.state, step.effects), pending)
  <2>1. Step(step.state, step.effects).state = step.state /\ Step(step.state, step.effects).effects = step.effects
    BY DEF Step
  <2>. QED  BY <2>1 DEF Run
<1>2. PICK d \in Seq(Call) : d = pending  BY DEF Extends
<1>3. state' = step.state /\ Kept(d, r, b, yes, no)
  <2>1. delivered \in Seq(Token)  BY <1>s DEF QShape
  <2>. QED  BY <1>1, <1>2, <2>1, RunKeeps
<1>4. Len(d) \in Nat /\ Len(calls) \in Nat  BY <1>s, ShapeIs
<1>5. ASSUME NEW i \in 1 .. Len(d)
      PROVE  /\ calls'[i].kind = d[i].kind /\ calls'[i].size = d[i].size
             /\ i = r => calls'[i].answer = IF b = <<>> THEN "empty" ELSE "data"
             /\ i # r /\ i \in yes => calls'[i].answer = "ok"
             /\ i # r /\ i \notin yes /\ i \in no => calls'[i].answer = "refused"
             /\ i # r /\ i \notin yes /\ i \notin no => calls'[i].answer = d[i].answer
  <2>1. PICK c \in Call : c = d[i]  OBVIOUS
  <2>2. calls'[i] = Fate(c, i, r, b, yes, no)  BY <1>3, <2>1 DEF Kept
  <2>. QED  BY <2>1, <2>2, FateSettles
<1>6. Onward
  <2>1. calls' \in Seq(Call) /\ Len(calls') = Len(d)  BY <1>3 DEF Kept
  <2>2. Len(d) \in {Len(calls), Len(calls) + 1} /\ \A i \in 1 .. Len(calls) : d[i] = calls[i]
    BY <1>2 DEF Extends
  <2>3. \A i \in 1 .. Len(calls) : i \in 1 .. Len(d)  BY <1>4, <2>2
  <2>. QED  BY <1>5, <2>1, <2>2, <2>3 DEF Onward
<1>7. Len(calls') = Len(d) /\ delivered' = delivered \o b  BY <1>3 DEF Kept
<1>. QED  BY <1>2, <1>3, <1>5, <1>6, <1>7 DEF AllTold

\* One more promise is a promise more.
LEMMA OneCall ==
    ASSUME QInv, NEW q \in Call, NEW N, N = Len(calls) + 1
    PROVE  /\ Extends(Append(calls, q)) /\ Len(Append(calls, q)) = N /\ Append(calls, q)[N] = q
           /\ N \in Nat /\ N # 0 /\ N # state.reader /\ N \notin Parking(state) /\ N \notin Ids
<1>s. QShape  BY DEF QInv
<1>1. PICK c \in Seq(Call) : c = calls  BY <1>s DEF QShape
<1>2. /\ Append(c, q) \in Seq(Call) /\ Len(Append(c, q)) = Len(c) + 1 /\ Append(c, q)[Len(c) + 1] = q
      /\ \A i \in 1 .. Len(c) : Append(c, q)[i] = c[i]
  OBVIOUS
<1>3. Len(calls) \in Nat /\ Ids = 1 .. Len(calls)  BY <1>s, ShapeIs
<1>4. N \in Nat /\ N # 0 /\ N \notin Ids  BY <1>3
<1>5. N # state.reader /\ N \notin Parking(state)  BY <1>4, WritersAre
<1>. QED  BY <1>1, <1>2, <1>4, <1>5 DEF Extends

\* What a call of the driver must show.
CallGood == QInv' /\ (state.ended /\ state.bytes = <<>> => delivered' = delivered)
\* Nobody of those that wait is number 0 or new.
LEMMA Others ==
    ASSUME QInv
    PROVE  /\ Ids = 1 .. Len(calls) /\ \A i \in Ids : i # 0 /\ i # Len(calls) + 1
           /\ delivered \o <<>> = delivered
<1>s. QShape  BY DEF QInv
<1>1. \A i \in Ids : i # Len(calls) + 1  BY <1>s, ShapeIs
<1>. QED  BY <1>1, <1>s, ShapeIs, CarriedIs

\* The fields of a new promise.
LEMMA PromiseIs ==
    ASSUME NEW k \in {"push", "next", "last"}, NEW n \in Nat
    PROVE  LET q == Promise(k, n) IN q \in Call /\ q.kind = k /\ q.size = n /\ q.answer = "waiting"
<1>1. [kind |-> k, size |-> n, answer |-> "waiting", got |-> 0] \in Call  BY DEF Call
<1>. QED  BY <1>1 DEF Promise

\* push.
LEMMA PushGood ==
    ASSUME QInv, NEW n \in Nat, PushCall(n)
    PROVE  CallGood
<1>s. QShape  BY DEF QInv
<1>p. PICK s \in Pipe : s = state  BY <1>s DEF QShape
<1>c. PICK q \in Call : q = Promise("push", n) /\ q.kind = "push" /\ q.size = n /\ q.answer = "waiting"
  <2>. QED  BY PromiseIs
<1>N. PICK N \in Nat : N = Len(calls) + 1  BY <1>c, OneCall
<1>e. /\ Extends(Append(calls, q)) /\ Len(Append(calls, q)) = N /\ Append(calls, q)[N] = q
      /\ N # 0 /\ N # s.reader /\ N \notin Ids
  BY <1>N, <1>p, OneCall
<1>b. PICK b \in Seq(Token) : b = BytesOf(N, n) /\ (b = <<>> <=> n = 0)  BY BytesAre
<1>r. Run(Push(s, N, b), Append(calls, q))  BY <1>N, <1>b, <1>c, <1>p DEF PushCall
<1>z. <<>> \in Seq(Token)  OBVIOUS
<1>o. \A i \in Ids : i \in 1 .. N /\ i # 0 /\ i # N /\ Append(calls, q)[i] = calls[i]
  <2>1. Ids = 1 .. Len(calls) /\ \A i \in Ids : i # 0 /\ i # N  BY <1>N, Others
  <2>2. Len(calls) \in Nat  BY <1>s, ShapeIs
  <2>3. \A i \in 1 .. Len(calls) : Append(calls, q)[i] = calls[i]  BY <1>e DEF Extends
  <2>4. \A i \in 1 .. Len(calls) : i \in 1 .. N  BY <1>N, <2>2
  <2>. QED  BY <2>1, <2>3, <2>4
<1>i. N \in 1 .. N  BY <1>e
<1>1. CASE s.ended
  <2>1. Push(s, N, b).state = s /\ Tells(Push(s, N, b).effects, 0, <<>>, {}, {N})  BY <1>1, <1>e, PushTells
  <2>2. state' = s /\ AllTold(Append(calls, q), 0, <<>>, {}, {N})  BY <1>e, <1>r, <1>z, <2>1, RunSettles
  <2>3. delivered' = delivered  BY <2>2, Others DEF AllTold
  <2>4. calls'[N].answer = "refused"  BY <1>e, <1>i, <2>2 DEF AllTold
  <2>5. \A i \in Ids : calls'[i].answer = calls[i].answer  BY <1>e, <1>o, <2>2 DEF AllTold
  <2>6. Onward  BY <2>2 DEF AllTold
  <2>7. \A i \in Ids' \ Ids : i = N  BY <1>N, <1>s, <2>6, OnwardIs
  <2>8. \A i \in Ids' \ Ids : /\ calls'[i].answer # "waiting" /\ (calls'[i].answer = "ok" => calls'[i].size = 0)
                              /\ calls'[i].answer = "empty" => state.ended /\ state.bytes = <<>>
    BY <2>4, <2>7
  <2>9. state' = state  BY <1>p, <2>2
  <2>10. QInv'  BY <2>3, <2>5, <2>6, <2>8, <2>9, DriverStill
  <2>. QED  BY <2>3, <2>10 DEF CallGood
<1>2. CASE ~s.ended /\ b = <<>>
  <2>1. Push(s, N, b).state = s /\ Tells(Push(s, N, b).effects, 0, <<>>, {N}, {})  BY <1>2, <1>e, PushTells
  <2>2. state' = s /\ AllTold(Append(calls, q), 0, <<>>, {N}, {})  BY <1>e, <1>r, <1>z, <2>1, RunSettles
  <2>3. delivered' = delivered  BY <2>2, Others DEF AllTold
  <2>4. calls'[N].answer = "ok" /\ calls'[N].size = n  BY <1>c, <1>e, <1>i, <2>2 DEF AllTold
  <2>5. \A i \in Ids : calls'[i].answer = calls[i].answer  BY <1>e, <1>o, <2>2 DEF AllTold
  <2>6. Onward  BY <2>2 DEF AllTold
  <2>7. \A i \in Ids' \ Ids : i = N  BY <1>N, <1>s, <2>6, OnwardIs
  <2>8. \A i \in Ids' \ Ids : /\ calls'[i].answer # "waiting" /\ (calls'[i].answer = "ok" => calls'[i].size = 0)
                              /\ calls'[i].answer = "empty" => state.ended /\ state.bytes = <<>>
    BY <1>2, <1>b, <2>4, <2>7
  <2>9. state' = state  BY <1>p, <2>2
  <2>10. QInv'  BY <2>3, <2>5, <2>6, <2>8, <2>9, DriverStill
  <2>. QED  BY <2>3, <2>10 DEF CallGood
<1>3. CASE ~s.ended /\ b # <<>> /\ s.reader # 0
  <2>1. Push(s, N, b).state = Rid(s) /\ Tells(Push(s, N, b).effects, s.reader, b, {N}, {})
    BY <1>3, <1>e, PushTells
  <2>2. state' = Rid(s) /\ AllTold(Append(calls, q), s.reader, b, {N}, {})  BY <1>e, <1>r, <2>1, RunSettles
  <2>3. delivered' = delivered \o b /\ Onward /\ Len(calls') = N  BY <1>e, <2>2 DEF AllTold
  <2>4. calls'[N].answer = "ok" /\ calls'[N].size = n  BY <1>c, <1>e, <1>i, <2>2 DEF AllTold
  <2>5. \A i \in Ids : i # s.reader => calls'[i].answer = calls[i].answer  BY <1>e, <1>o, <2>2 DEF AllTold
  <2>6. calls'[s.reader].answer = "data"
    <3>1. s.reader \in Ids  BY <1>3, <1>p, WritersAre
    <3>. QED  BY <1>3, <1>e, <1>o, <2>2, <3>1 DEF AllTold
  <2>7. QInv'  BY <1>3, <1>N, <1>b, <1>p, <2>2, <2>3, <2>4, <2>5, <2>6, DriverHands
  <2>. QED  BY <1>3, <1>p, <2>7 DEF CallGood
<1>4. CASE ~s.ended /\ b # <<>> /\ s.reader = 0 /\ Fits(s.cap, s.bytes, b)
  <2>1. /\ Push(s, N, b).state = Refill(s, s.bytes \o b, s.writers)
        /\ Tells(Push(s, N, b).effects, 0, <<>>, {N}, {})
    BY <1>4, <1>e, PushTells
  <2>2. state' = Refill(s, s.bytes \o b, s.writers) /\ AllTold(Append(calls, q), 0, <<>>, {N}, {})
    BY <1>e, <1>r, <1>z, <2>1, RunSettles
  <2>3. delivered' = delivered /\ Onward /\ Len(calls') = N  BY <1>e, <2>2, Others DEF AllTold
  <2>4. calls'[N].answer = "ok" /\ calls'[N].size = n  BY <1>c, <1>e, <1>i, <2>2 DEF AllTold
  <2>5. \A i \in Ids : calls'[i].answer = calls[i].answer  BY <1>e, <1>o, <2>2 DEF AllTold
  <2>6. QInv'  BY <1>4, <1>N, <1>b, <1>p, <2>2, <2>3, <2>4, <2>5, DriverFits
  <2>. QED  BY <2>3, <2>6 DEF CallGood
<1>5. CASE ~s.ended /\ b # <<>> /\ s.reader = 0 /\ ~Fits(s.cap, s.bytes, b)
  <2>1. /\ Push(s, N, b).state = Refill(s, s.bytes, Append(s.writers, [id |-> N, bytes |-> b]))
        /\ Tells(Push(s, N, b).effects, 0, <<>>, {}, {})
    BY <1>5, <1>e, PushTells
  <2>2. /\ state' = Refill(s, s.bytes, Append(s.writers, [id |-> N, bytes |-> b]))
        /\ AllTold(Append(calls, q), 0, <<>>, {}, {})
    BY <1>e, <1>r, <1>z, <2>1, RunSettles
  <2>3. delivered' = delivered /\ Onward /\ Len(calls') = N  BY <1>e, <2>2, Others DEF AllTold
  <2>4. calls'[N].answer = "waiting" /\ calls'[N].size = n /\ calls'[N].kind = "push"
    BY <1>c, <1>e, <1>i, <2>2 DEF AllTold
  <2>5. \A i \in Ids : calls'[i].answer = calls[i].answer  BY <1>e, <1>o, <2>2 DEF AllTold
  <2>6. QInv'  BY <1>5, <1>N, <1>b, <1>p, <2>2, <2>3, <2>4, <2>5, DriverParks
  <2>. QED  BY <2>3, <2>6 DEF CallGood
<1>. QED  BY <1>1, <1>2, <1>3, <1>4, <1>5

\* next.
LEMMA NextGood ==
    ASSUME QInv, NextCall
    PROVE  CallGood
<1>s. QShape  BY DEF QInv
<1>p. PICK s \in Pipe : s = state  BY <1>s DEF QShape
<1>c. PICK q \in Call : q = Promise("next", 0) /\ q.kind = "next" /\ q.size = 0 /\ q.answer = "waiting"
  BY PromiseIs
<1>N. PICK N \in Nat : N = Len(calls) + 1  BY <1>c, OneCall
<1>e. /\ Extends(Append(calls, q)) /\ Len(Append(calls, q)) = N /\ Append(calls, q)[N] = q
      /\ N # 0 /\ N # s.reader /\ N \notin Ids /\ N \notin Parking(s) /\ Named(s)
  BY <1>N, <1>p, OneCall, WritersAre
<1>r. Run(NextRead(s, N), Append(calls, q))  BY <1>N, <1>c, <1>p DEF NextCall
<1>z. <<>> \in Seq(Token)  OBVIOUS
<1>o. \A i \in Ids : i \in 1 .. N /\ i # 0 /\ i # N /\ Append(calls, q)[i] = calls[i]
  <2>1. Ids = 1 .. Len(calls) /\ \A i \in Ids : i # 0 /\ i # N  BY <1>N, Others
  <2>2. Len(calls) \in Nat  BY <1>s, ShapeIs
  <2>3. \A i \in 1 .. Len(calls) : Append(calls, q)[i] = calls[i]  BY <1>e DEF Extends
  <2>4. \A i \in 1 .. Len(calls) : i \in 1 .. N  BY <1>N, <2>2
  <2>. QED  BY <2>1, <2>3, <2>4
<1>i. N \in 1 .. N  BY <1>e
<1>1. CASE s.bytes # <<>>
  <2>1. PICK h, r, f, n :
          /\ Takes(s, NextRead(s, N), h, r, f, n)
          /\ Tells(NextRead(s, N).effects, N, h, {s.writers[i].id : i \in 1 .. n}, {})
    <3>1. Gives(s, NextRead(s, N), N)  BY <1>1, <1>e, NextTells
    <3>. QED  BY <3>1 DEF Gives
  <2>2. PICK b \in Seq(Token) : b = h /\ b # <<>>  BY <2>1 DEF Takes
  <2>3. /\ state' = NextRead(s, N).state
        /\ AllTold(Append(calls, q), N, b, {s.writers[i].id : i \in 1 .. n}, {})
    BY <1>e, <1>r, <2>1, <2>2, RunSettles
  <2>4. delivered' = delivered \o b /\ Onward /\ Len(calls') = N  BY <1>e, <2>3 DEF AllTold
  <2>5. calls'[N].answer = "data"  BY <1>i, <1>e, <2>2, <2>3 DEF AllTold
  <2>6. \A j \in 1 .. n : s.writers[j].id \in Ids
    <3>1. n \in 0 .. Len(s.writers)
      <4>1. s.writers \in Seq(Writer)  BY DEF Pipe
      <4>2. r \in Seq(Token)  BY <2>1 DEF Takes
      <4>3. Refill(s, r, s.writers).writers = s.writers  BY <4>1, <4>2, RefillIs
      <4>. QED  BY <2>1, <4>3 DEF Takes, RoomFor
    <3>2. \A j \in 1 .. Len(s.writers) : s.writers[j].id \in Ids  BY <1>p DEF QInv, QParked
    <3>3. Len(s.writers) \in Nat  BY <1>p, <1>s, ShapeIs
    <3>4. \A j \in 1 .. n : j \in 1 .. Len(s.writers)  BY <3>1, <3>3
    <3>. QED  BY <3>2, <3>4
  <2>7. \A j \in 1 .. n : calls'[s.writers[j].id].answer = "ok"
    <3>1. ASSUME NEW j \in 1 .. n, NEW i, i = s.writers[j].id PROVE calls'[i].answer = "ok"
      <4>1. i \in 1 .. N /\ i # N  BY <1>o, <2>6, <3>1
      <4>2. i \in {s.writers[k].id : k \in 1 .. n}  BY <3>1
      <4>. QED  BY <1>e, <2>3, <4>1, <4>2 DEF AllTold
    <3>. QED  BY <3>1
  <2>8. \A i \in Ids : (\A j \in 1 .. n : s.writers[j].id # i) => calls'[i].answer = calls[i].answer
    <3>1. ASSUME NEW i \in Ids, \A j \in 1 .. n : s.writers[j].id # i
          PROVE  calls'[i].answer = calls[i].answer
      <4>1. i \notin {s.writers[k].id : k \in 1 .. n}  BY <3>1
      <4>. QED  BY <1>e, <1>o, <2>3, <4>1 DEF AllTold
    <3>. QED  BY <3>1
  <2>9. QInv'
    BY <1>1, <1>N, <1>p, <2>1, <2>2, <2>3, <2>4, <2>5, <2>7, <2>8, DriverReads
  <2>. QED  BY <1>1, <1>p, <2>9 DEF CallGood
<1>2. CASE s.bytes = <<>> /\ s.ended
  <2>1. NextRead(s, N).state = s /\ Tells(NextRead(s, N).effects, N, <<>>, {}, {})  BY <1>2, <1>e, NextTells
  <2>2. state' = s /\ AllTold(Append(calls, q), N, <<>>, {}, {})  BY <1>e, <1>r, <1>z, <2>1, RunSettles
  <2>3. delivered' = delivered /\ Onward  BY <2>2, Others DEF AllTold
  <2>4. calls'[N].answer = "empty"  BY <1>e, <1>i, <2>2 DEF AllTold
  <2>5. \A i \in Ids : calls'[i].answer = calls[i].answer  BY <1>e, <1>o, <2>2 DEF AllTold
  <2>6. \A i \in Ids' \ Ids : i = N  BY <1>N, <1>s, <2>3, OnwardIs
  <2>7. \A i \in Ids' \ Ids : /\ calls'[i].answer # "waiting" /\ (calls'[i].answer = "ok" => calls'[i].size = 0)
                              /\ calls'[i].answer = "empty" => state.ended /\ state.bytes = <<>>
    BY <1>2, <1>p, <2>4, <2>6
  <2>8. state' = state  BY <1>p, <2>2
  <2>9. QInv'  BY <2>3, <2>5, <2>7, <2>8, DriverStill
  <2>. QED  BY <2>3, <2>9 DEF CallGood
<1>3. CASE s.bytes = <<>> /\ ~s.ended
  <2>1. /\ NextRead(s, N).state = [s EXCEPT !.reader = N]
        /\ Tells(NextRead(s, N).effects, s.reader, <<>>, {}, {})
    BY <1>3, <1>e, NextTells
  <2>2. state' = [s EXCEPT !.reader = N] /\ AllTold(Append(calls, q), s.reader, <<>>, {}, {})
    BY <1>e, <1>r, <1>z, <2>1, RunSettles
  <2>3. delivered' = delivered /\ Onward /\ Len(calls') = N  BY <1>e, <2>2, Others DEF AllTold
  <2>4. calls'[N].answer = "waiting" /\ calls'[N].kind = "next"  BY <1>c, <1>e, <1>i, <2>2 DEF AllTold
  <2>5. \A i \in Ids : i # s.reader => calls'[i].answer = calls[i].answer  BY <1>e, <1>o, <2>2 DEF AllTold
  <2>6. s.reader # 0 => calls'[s.reader].answer = "empty"
    <3>1. s.reader # 0 => s.reader \in Ids  BY <1>p, WritersAre
    <3>. QED  BY <1>e, <1>o, <2>2, <3>1 DEF AllTold
  <2>7. QInv'  BY <1>3, <1>N, <1>p, <2>2, <2>3, <2>4, <2>5, <2>6, DriverWaits
  <2>. QED  BY <2>3, <2>7 DEF CallGood
<1>. QED  BY <1>1, <1>2, <1>3

\* A queue that has ended is the same when it is ended again.
LEMMA OverAgain ==
    ASSUME QInv, state.ended
    PROVE  Over(state, state.bytes, <<>>) = state
<1>1. state \in Pipe  BY DEF QInv, QShape
<1>2. state.reader = 0 /\ state.writers = <<>>  BY WritersAre
<1>3. PICK s \in Pipe : s = state  BY <1>1
<1>4. s.ended <=> TRUE  BY <1>3
<1>5. s = [cap |-> s.cap, bytes |-> s.bytes, ended |-> s.ended, reader |-> s.reader, writers |-> s.writers]
  BY DEF Pipe
<1>6. s.ended \in BOOLEAN  BY Zenon DEF Pipe
<1>7. s.ended = TRUE  BY <1>4, <1>6
<1>8. Over(s, s.bytes, <<>>) =
        [cap |-> s.cap, bytes |-> s.bytes, ended |-> TRUE, reader |-> 0, writers |-> <<>>]
  <2>0. <<>> \in Seq(Writer)  OBVIOUS
  <2>1. PICK b \in Seq(Token), v \in Seq(Writer) : b = s.bytes /\ v = <<>>
    <3>1. s.bytes \in Seq(Token)  BY DEF Pipe
    <3>. QED  BY <2>0, <3>1
  <2>2. PICK o \in Pipe : o = Over(s, b, v)  BY OverIs
  <2>3. o.cap = s.cap /\ o.reader = 0 /\ o.ended /\ o.bytes = b /\ o.writers = v  BY <2>2, OverIs
  <2>4. o = [cap |-> o.cap, bytes |-> o.bytes, ended |-> o.ended, reader |-> o.reader, writers |-> o.writers]
    BY DEF Pipe
  <2>5. o.ended \in BOOLEAN  BY Zenon DEF Pipe
  <2>6. o.ended = TRUE  BY <2>3, <2>5
  <2>. QED  BY <2>1, <2>2, <2>3, <2>4, <2>6
<1>. QED  BY <1>2, <1>3, <1>5, <1>7, <1>8

\* end.
LEMMA EndGood ==
    ASSUME QInv, EndCall
    PROVE  CallGood
<1>s. QShape  BY DEF QInv
<1>p. PICK s \in Pipe : s = state  BY <1>s DEF QShape
<1>c. PICK c \in Seq(Call) : c = calls  BY <1>s DEF QShape
<1>e. Extends(c) /\ Len(c) = Len(calls)
  BY <1>c DEF Extends
<1>o. \A i \in Ids : i \in 1 .. Len(c) /\ i # 0 /\ c[i] = calls[i]  BY <1>c, Others
<1>z. <<>> \in Seq(Token)  OBVIOUS
<1>n. Named(s) /\ Parking(s) = Writers(state)  BY <1>p, WritersAre
<1>1. /\ End(s).state = Over(s, s.bytes, <<>>)
      /\ Tells(End(s).effects, s.reader, <<>>, {}, Parking(s))
  BY <1>n, EndTells
<1>2. state' = Over(s, s.bytes, <<>>) /\ AllTold(c, s.reader, <<>>, {}, Parking(s))
  <2>1. Run(End(s), c)  BY <1>c, <1>p DEF EndCall
  <2>. QED  BY <1>1, <1>e, <1>z, <2>1, RunSettles
<1>3. delivered' = delivered /\ Onward /\ Len(calls') = Len(calls)  BY <1>2, <1>e, Others DEF AllTold
<1>4. Ids' \ Ids = {}
  <2>1. \A i \in Ids' : i \in 1 .. Len(calls')  BY <1>3, <1>s, OnwardIs
  <2>. QED  BY <1>3, <2>1, Others
<1>5. \A i \in Ids : i # s.reader /\ i \notin Writers(state) => calls'[i].answer = calls[i].answer
  BY <1>2, <1>n, <1>o DEF AllTold
<1>6. CASE s.ended
  <2>1. s.reader = 0 /\ Writers(state) = {}  BY <1>6, <1>p, WritersAre
  <2>2. state' = state  BY <1>2, <1>6, <1>p, OverAgain
  <2>3. \A i \in Ids : calls'[i].answer = calls[i].answer  BY <1>5, <1>o, <2>1
  <2>4. QInv'  BY <1>3, <1>4, <2>2, <2>3, DriverStill
  <2>. QED  BY <1>3, <2>4 DEF CallGood
<1>7. CASE ~s.ended
  <2>1. PICK y \in Seq(Token), m \in Nat : y = s.bytes /\ m = 0  BY DEF Pipe
  <2>2. m = IF Len(calls') # Len(calls) /\ calls'[Len(calls) + 1].answer = "ok"
            THEN calls'[Len(calls) + 1].size ELSE 0
    BY <1>3, <2>1
  <2>3. delivered' \o y = Carried \o BytesOf(Len(calls) + 1, m)
    BY <1>3, <1>p, <1>s, <2>1, CarriedIs DEF Carried
  <2>4. state.reader # 0 => calls'[state.reader].answer \in {"data", "empty"} /\ y = <<>>
    <3>1. state.reader # 0 => state.reader \in Ids /\ y = <<>>  BY <1>p, <2>1, WritersAre
    <3>. QED  BY <1>2, <1>o, <1>p, <3>1 DEF AllTold
  <2>5. \A i \in Writers(state) : calls'[i].answer = "refused"
    <3>1. \A i \in Writers(state) : i \in Ids /\ i # s.reader  BY <1>p, WritersAre
    <3>. QED  BY <1>2, <1>n, <1>o, <3>1 DEF AllTold
  <2>6. delivered' \in Seq(Token)  BY <1>3, <1>s DEF QShape
  <2>7. QInv'
    BY <1>2, <1>3, <1>4, <1>5, <1>7, <1>p, <2>1, <2>2, <2>3, <2>4, <2>5, <2>6, DriverEnds
  <2>. QED  BY <1>3, <2>7 DEF CallGood
<1>. QED  BY <1>6, <1>7

\* endWith.
LEMMA EndWithGood ==
    ASSUME QInv, NEW n \in Nat, n # 0, EndWithCall(n)
    PROVE  CallGood
<1>s. QShape  BY DEF QInv
<1>p. PICK s \in Pipe : s = state  BY <1>s DEF QShape
<1>c. PICK q \in Call : /\ q = [Promise("last", n) EXCEPT !.answer = IF state.ended THEN "dropped" ELSE "ok"]
                        /\ q.kind = "last" /\ q.size = n
                        /\ q.answer = IF s.ended THEN "dropped" ELSE "ok"
  <2>1. PICK l \in Call : l = Promise("last", n) /\ l.kind = "last" /\ l.size = n  BY PromiseIs
  <2>2. PICK a \in {"dropped", "ok"} : a = IF s.ended THEN "dropped" ELSE "ok"  OBVIOUS
  <2>3. PICK q \in Call : q = [l EXCEPT !.answer = a] /\ q.kind = l.kind /\ q.size = l.size /\ q.answer = a
    <3>1. [l EXCEPT !.answer = a] \in Call  BY DEF Call
    <3>2. LET q == [l EXCEPT !.answer = a] IN q.kind = l.kind /\ q.size = l.size /\ q.answer = a  BY DEF Call
    <3>. QED  BY <3>1, <3>2
  <2>. QED  BY <1>p, <2>1, <2>2, <2>3
<1>N. PICK N \in Nat : N = Len(calls) + 1  BY <1>c, OneCall
<1>e. /\ Extends(Append(calls, q)) /\ Len(Append(calls, q)) = N /\ Append(calls, q)[N] = q
      /\ N # 0 /\ N # s.reader /\ N \notin Ids /\ N \notin Parking(s)
      /\ Named(s) /\ Parking(s) = Writers(state)
  BY <1>N, <1>p, OneCall, WritersAre
<1>b. PICK b \in Seq(Token) : b = BytesOf(N, n)  BY BytesAre
<1>r. Run(EndWith(s, b), Append(calls, q))  BY <1>N, <1>b, <1>c, <1>p DEF EndWithCall
<1>z. <<>> \in Seq(Token)  OBVIOUS
<1>o. \A i \in Ids : i \in 1 .. N /\ i # 0 /\ i # N /\ Append(calls, q)[i] = calls[i]
  <2>1. Ids = 1 .. Len(calls) /\ \A i \in Ids : i # 0 /\ i # N  BY <1>N, Others
  <2>2. Len(calls) \in Nat  BY <1>s, ShapeIs
  <2>3. \A i \in 1 .. Len(calls) : Append(calls, q)[i] = calls[i]  BY <1>e DEF Extends
  <2>4. \A i \in 1 .. Len(calls) : i \in 1 .. N  BY <1>N, <2>2
  <2>. QED  BY <2>1, <2>3, <2>4
<1>i. N \in 1 .. N  BY <1>e
<1>w. /\ \A i \in Writers(state) : i \in Ids /\ i # s.reader
      /\ s.reader # 0 => s.reader \in Ids /\ s.bytes = <<>>
  BY <1>p, WritersAre
<1>1. CASE s.ended
  <2>1. EndWith(s, b).state = Over(s, s.bytes, <<>>) /\ Tells(EndWith(s, b).effects, s.reader, <<>>, {}, Parking(s))
    BY <1>1, <1>e, EndWithTells
  <2>2. state' = Over(s, s.bytes, <<>>) /\ AllTold(Append(calls, q), s.reader, <<>>, {}, Parking(s))
    BY <1>e, <1>r, <1>z, <2>1, RunSettles
  <2>3. delivered' = delivered /\ Onward  BY <2>2, Others DEF AllTold
  <2>4. calls'[N].answer = "dropped"  BY <1>1, <1>c, <1>e, <1>i, <2>2 DEF AllTold
  <2>5. s.reader = 0 /\ Writers(state) = {}  BY <1>1, <1>p, WritersAre
  <2>6. \A i \in Ids : calls'[i].answer = calls[i].answer  BY <1>e, <1>o, <2>2, <2>5 DEF AllTold
  <2>7. \A i \in Ids' \ Ids : i = N  BY <1>N, <1>s, <2>3, OnwardIs
  <2>8. \A i \in Ids' \ Ids : /\ calls'[i].answer # "waiting" /\ (calls'[i].answer = "ok" => calls'[i].size = 0)
                              /\ calls'[i].answer = "empty" => state.ended /\ state.bytes = <<>>
    BY <2>4, <2>7
  <2>9. state' = state  BY <1>1, <1>p, <2>2, OverAgain
  <2>10. QInv'  BY <2>3, <2>6, <2>8, <2>9, DriverStill
  <2>. QED  BY <2>3, <2>10 DEF CallGood
<1>2. CASE ~s.ended
  <2>1. PICK z \in Seq(Token), y \in Seq(Token) :
          /\ z = IF s.reader = 0 THEN <<>> ELSE b
          /\ y = IF s.reader = 0 THEN s.bytes \o b ELSE <<>>
          /\ EndWith(s, b).state = Over(s, y, <<>>)
          /\ Tells(EndWith(s, b).effects, s.reader, z, {}, Parking(s))
    <3>1. CASE s.reader = 0
      <4>1. /\ EndWith(s, b).state = Over(s, s.bytes \o b, <<>>)
            /\ Tells(EndWith(s, b).effects, 0, <<>>, {}, Parking(s))
        BY <1>2, <1>e, <3>1, EndWithTells
      <4>2. PICK x \in Seq(Token) : x = s.bytes  BY DEF Pipe
      <4>3. x \o b \in Seq(Token)  BY ConcatProperties
      <4>. QED  BY <1>z, <3>1, <4>1, <4>2, <4>3
    <3>2. CASE s.reader # 0
      <4>1. /\ EndWith(s, b).state = Over(s, s.bytes, <<>>)
            /\ Tells(EndWith(s, b).effects, s.reader, b, {}, Parking(s))
        BY <1>2, <1>e, <3>2, EndWithTells
      <4>. QED  BY <1>w, <1>z, <3>2, <4>1
    <3>. QED  BY <3>1, <3>2
  <2>2. state' = Over(s, y, <<>>) /\ AllTold(Append(calls, q), s.reader, z, {}, Parking(s))
    BY <1>e, <1>r, <2>1, RunSettles
  <2>3. delivered' = delivered \o z /\ Onward /\ Len(calls') = N  BY <1>e, <2>2 DEF AllTold
  <2>4. calls'[N].answer = "ok" /\ calls'[N].size = n  BY <1>2, <1>c, <1>e, <1>i, <2>2 DEF AllTold
  <2>5. n = IF Len(calls') # Len(calls) /\ calls'[Len(calls) + 1].answer = "ok"
            THEN calls'[Len(calls) + 1].size ELSE 0
    <3>1. Len(calls) # N  BY <1>N, <1>s, ShapeIs
    <3>. QED  BY <1>N, <2>3, <2>4, <3>1
  <2>6. delivered' \in Seq(Token) /\ delivered' \o y = Carried \o BytesOf(Len(calls) + 1, n)
    <3>1. PICK d \in Seq(Token), x \in Seq(Token) : d = delivered /\ x = s.bytes
      BY <1>s DEF QShape, Pipe
    <3>2. d \o z \in Seq(Token)  BY ConcatProperties
    <3>3. (d \o x) \o b = d \o (x \o b)  BY ConcatAssociative
    <3>4. d \o <<>> = d /\ (d \o b) \o <<>> = d \o b
      <4>1. d \o b \in Seq(Token)  BY ConcatProperties
      <4>. QED  BY <4>1, ConcatEmptySeq
    <3>5. delivered' \o y = (d \o x) \o b
      <4>1. CASE s.reader = 0
        <5>1. z = <<>> /\ y = x \o b  BY <2>1, <3>1, <4>1
        <5>2. delivered' = d  BY <2>3, <3>1, <3>4, <5>1
        <5>. QED  BY <3>3, <5>1, <5>2
      <4>2. CASE s.reader # 0
        <5>1. z = b /\ y = <<>> /\ x = <<>>  BY <1>w, <2>1, <3>1, <4>2
        <5>2. delivered' = d \o b  BY <2>3, <3>1, <5>1
        <5>. QED  BY <3>4, <5>1, <5>2
      <4>. QED  BY <4>1, <4>2
    <3>6. Carried = d \o x  BY <1>p, <3>1 DEF Carried
    <3>. QED  BY <1>N, <1>b, <2>3, <3>1, <3>2, <3>5, <3>6
  <2>7. state.reader # 0 => calls'[state.reader].answer \in {"data", "empty"} /\ y = <<>>
    <3>1. s.reader # 0 => calls'[s.reader].answer \in {"data", "empty"}  BY <1>e, <1>o, <1>w, <2>2 DEF AllTold
    <3>. QED  BY <1>p, <2>1, <3>1
  <2>8. \A i \in Writers(state) : calls'[i].answer = "refused"  BY <1>e, <1>o, <1>w, <2>2 DEF AllTold
  <2>9. \A i \in Ids : i # state.reader /\ i \notin Writers(state) => calls'[i].answer = calls[i].answer
    BY <1>e, <1>o, <1>p, <2>2 DEF AllTold
  <2>10. \A i \in Ids' \ Ids : calls'[i].answer \notin {"waiting", "empty"}
    <3>1. \A i \in Ids' \ Ids : i = N  BY <1>N, <1>s, <2>3, OnwardIs
    <3>. QED  BY <2>4, <3>1
  <2>11. QInv'  BY <1>2, <1>p, <2>2, <2>3, <2>5, <2>6, <2>7, <2>8, <2>9, <2>10, DriverEnds
  <2>. QED  BY <1>2, <1>p, <2>11 DEF CallGood
<1>. QED  BY <1>1, <1>2

\* Any call.
LEMMA QNext ==
    ASSUME QInv, [QueueNext]_queueVars
    PROVE  CallGood
<1>1. Lengths \subseteq Nat  BY QueueAssumption
<1>2. ASSUME NEW n \in Lengths, PushCall(n) PROVE CallGood  BY <1>1, <1>2, PushGood
<1>3. ASSUME NextCall PROVE CallGood  BY <1>3, NextGood
<1>4. ASSUME EndCall PROVE CallGood  BY <1>4, EndGood
<1>5. ASSUME NEW n \in Lengths \ {0}, EndWithCall(n) PROVE CallGood
  <2>1. n \in Nat /\ n # 0  BY <1>1
  <2>. QED  BY <1>5, <2>1, EndWithGood
<1>6. ASSUME UNCHANGED queueVars PROVE CallGood
  BY <1>6 DEF queueVars, CallGood, QInv, QShape, Known, Carried, Ids, QParked, QEnd, Later, AcceptedExactlyOnce,
              NoLostWakeup, NobodyForgotten, CapHolds, Writers
<1>. QED  BY <1>2, <1>3, <1>4, <1>5, <1>6 DEF QueueNext

\* The start.
LEMMA QStart ==
    ASSUME QueueInit
    PROVE  QInv
<1>1. PICK c \in Nat : c = QueueCap  BY QueueAssumption
<1>2. PICK e : e = <<>>  OBVIOUS
<1>3. e \in Seq(Token) /\ e \in Seq(Writer) /\ e \in Seq(Call) /\ Len(e) = 0 /\ DOMAIN e = {} /\ e \o e = e  BY <1>2
<1>4. /\ state \in Pipe /\ state.cap = c /\ state.bytes = e /\ ~state.ended /\ state.reader = 0
      /\ state.writers = e
  <2>1. state = [cap |-> c, bytes |-> e, ended |-> FALSE, reader |-> 0, writers |-> e]
    BY <1>1, <1>2 DEF QueueInit, EmptyQueue
  <2>2. [cap |-> c, bytes |-> e, ended |-> FALSE, reader |-> 0, writers |-> e] \in Pipe  BY <1>3 DEF Pipe
  <2>. QED  BY <2>1, <2>2
<1>5. calls = e /\ delivered = e /\ Ids = {}  BY <1>2, <1>3 DEF QueueInit, Ids
<1>6. QShape  BY <1>1, <1>3, <1>4, <1>5 DEF QShape
<1>7. Known(Carried, Ids)  BY <1>3, <1>4, <1>5 DEF Known, Carried
<1>8. QParked  BY <1>3, <1>4 DEF QParked
<1>9. QEnd /\ AcceptedExactlyOnce /\ NobodyForgotten  BY <1>5 DEF QEnd, AcceptedExactlyOnce, NobodyForgotten
<1>10. NoLostWakeup  BY <1>2, <1>4 DEF NoLostWakeup
<1>11. CapHolds  BY <1>1, <1>3, <1>4 DEF CapHolds
<1>. QED  BY <1>6, <1>7, <1>8, <1>9, <1>10, <1>11 DEF QInv

\* What the invariant says of the types.
LEMMA QTyped ==
    ASSUME QInv
    PROVE  QueueTypeOK
<1>s. QShape  BY DEF QInv
<1>1. /\ Ids = 1 .. Len(calls) /\ \A i \in Ids : calls[i] \in Call
      /\ state.bytes \in Seq(Token) /\ state.writers \in Seq(Writer) /\ state.ended \in BOOLEAN
  BY <1>s, ShapeIs
<1>2. state.reader \in {0} \cup Ids  BY DEF QInv, QParked
<1>3. \A id \in Ids, n \in Nat : id \in Nat /\ BytesOf(id, n) \in Seq(Ids \X (Nat \ {0}))
  <2>1. ASSUME NEW id \in Ids, NEW n \in Nat PROVE id \in Nat /\ BytesOf(id, n) \in Seq(Ids \X (Nat \ {0}))
    <3>1. \A i \in 1 .. n : <<id, i>> \in Ids \X (Nat \ {0})  OBVIOUS
    <3>2. BytesOf(id, n) \in [1 .. n -> Ids \X (Nat \ {0})]  BY <3>1 DEF BytesOf
    <3>3. id \in Nat  BY <1>s, ShapeIs
    <3>. QED  BY <3>2, <3>3
  <2>. QED  BY <2>1
<1>4. state.bytes \in Seq(Ids \X (Nat \ {0}))
  <2>1. PICK x \in Seq(Token), y \in Seq(Token) : x = delivered /\ y = state.bytes  BY <1>1, <1>s DEF QShape
  <2>2. /\ Len(x \o y) = Len(x) + Len(y) /\ Len(x) \in Nat /\ Len(y) \in Nat
        /\ \A k \in 1 .. Len(y) : (x \o y)[Len(x) + k] = y[k]
    OBVIOUS
  <2>3. \A k \in 1 .. Len(x \o y) : (x \o y)[k][1] \in Ids /\ (x \o y)[k][2] # 0
    BY <2>1 DEF QInv, Known, Carried
  <2>4. ASSUME NEW k \in 1 .. Len(y) PROVE y[k] \in Ids \X (Nat \ {0})
    <3>1. PICK m \in 1 .. Len(x \o y) : m = Len(x) + k  BY <2>2
    <3>2. y[k][1] \in Ids /\ y[k][2] # 0  BY <2>2, <2>3, <3>1
    <3>3. y[k] \in Nat \X Nat  BY DEF Token
    <3>. QED  BY <3>2, <3>3
  <2>5. y \in [1 .. Len(y) -> Ids \X (Nat \ {0})]  BY <2>4
  <2>6. y \in Seq(Ids \X (Nat \ {0}))  BY <2>2, <2>5
  <2>. QED  BY <2>1, <2>6
<1>5. state.writers \in Seq([id : Ids, bytes : Seq(Ids \X (Nat \ {0}))])
  <2>1. PICK v \in Seq(Writer) : v = state.writers  BY <1>1
  <2>2. PICK R : R = [id : Ids, bytes : Seq(Ids \X (Nat \ {0}))]  OBVIOUS
  <2>3. ASSUME NEW i \in 1 .. Len(v) PROVE v[i] \in R
    <3>1. PICK w \in Writer : w = v[i]  OBVIOUS
    <3>2. w.id \in Ids /\ w.bytes = BytesOf(w.id, calls[w.id].size)  BY <2>1, <3>1 DEF QInv, QParked
    <3>3. calls[w.id].size \in Nat  BY <1>s, <3>2, ShapeIs
    <3>4. w.bytes \in Seq(Ids \X (Nat \ {0}))  BY <1>3, <3>2, <3>3
    <3>5. w = [id |-> w.id, bytes |-> w.bytes]  BY DEF Writer
    <3>. QED  BY <2>2, <3>1, <3>2, <3>4, <3>5
  <2>4. v \in Seq(R)
    <3>1. v \in [1 .. Len(v) -> R] /\ Len(v) \in Nat  BY <2>3
    <3>. QED  BY <3>1
  <2>. QED  BY <2>1, <2>2, <2>4
<1>6. \A id \in Ids : calls[id] \in [kind : {"push", "next", "last"}, size : Nat, got : Nat,
                                     answer : {"waiting", "ok", "refused", "data", "empty", "dropped"}]
  BY <1>1 DEF Call
<1>7. state.cap = QueueCap  BY <1>s DEF QShape
<1>. QED  BY <1>1, <1>2, <1>4, <1>5, <1>6, <1>7 DEF QueueTypeOK

\* What the invariant says of each state.
LEMMA QSays ==
    ASSUME QInv
    PROVE  /\ QueueTypeOK /\ AcceptedExactlyOnce /\ EmptyIsTheEnd /\ NoLostWakeup /\ NobodyForgotten /\ CapHolds
           /\ (\E id \in Ids : /\ calls[id].kind = "next" /\ calls[id].answer = "empty"
                               /\ \A k \in Ids : calls[k].kind = "next" => k <= id)
              => state.ended /\ state.bytes = <<>>
<1>s. QShape  BY DEF QInv
<1>1. EmptyIsTheEnd  BY DEF QInv, QEnd, EmptyIsTheEnd, Later
<1>2. ASSUME NEW id \in Ids, calls[id].answer = "empty", \A k \in Ids : calls[k].kind = "next" => k <= id
      PROVE  state.ended /\ state.bytes = <<>>
  <2>1. \A k \in Ids : k \in Nat  BY <1>s, ShapeIs
  <2>2. ~Later(id)  BY <1>2, <2>1 DEF Later
  <2>. QED  BY <1>2, <2>2 DEF QInv, QEnd
<1>. QED  BY <1>1, <1>2, QTyped DEF QInv

\* For every cap, every read limit, every length of the writes and any number of calls the queue
\* keeps its word (queue.ts:121-224 with the driver's run): a write answered ok is in the stream
\* whole, once and in its own order and a refused or parked one is not; a reader is told the end
\* only at the end, and for good; the cap holds; and nobody is parked for what is there.
THEOREM QueueIsTrue == QueueSpec => QueueKeepsItsWord
<1>1. QueueInit => QInv  BY QStart
<1>2. QInv /\ [QueueNext]_queueVars => QInv'  BY QNext DEF CallGood
<1>3. QInv => QueueTypeOK /\ AcceptedExactlyOnce /\ EmptyIsTheEnd /\ NoLostWakeup /\ NobodyForgotten /\ CapHolds
  BY QSays
<1>4. QInv /\ [QueueNext]_queueVars =>
        [(\E id \in Ids : /\ calls[id].kind = "next" /\ calls[id].answer = "empty"
                          /\ \A k \in Ids : calls[k].kind = "next" => k <= id)
         => delivered' = delivered]_queueVars
  <2>1. SUFFICES ASSUME QInv, [QueueNext]_queueVars
                 PROVE  (\E id \in Ids : /\ calls[id].kind = "next" /\ calls[id].answer = "empty"
                                         /\ \A k \in Ids : calls[k].kind = "next" => k <= id)
                        => delivered' = delivered
    OBVIOUS
  <2>. QED  BY <2>1, QNext, QSays DEF CallGood
<1>. QED  BY <1>1, <1>2, <1>3, <1>4, PTL DEF QueueSpec, QueueKeepsItsWord, EndIsFinal
=============================================================================
