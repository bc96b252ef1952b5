----------------------------- MODULE SpawnChild -----------------------------
(***************************************************************************)
(* packages/platform/host/children.ts: spawnChild, with the three queues    *)
(* that are the child's streams, the worker it starts and the parent        *)
(* program that spawned it (the SPAWN, RECV, SEND, CLOSE_FEED and            *)
(* CLOSE_SOCKET handlers of deno.ts, node.ts and browser.ts).               *)
(*                                                                         *)
(* Awaits says how the host serves a child's write: node.ts answers the     *)
(* child when the queue has taken the bytes, deno.ts and browser.ts answer  *)
(* at once and leave the push outstanding.  A host call is one step here:    *)
(* Bridge is about its insides.                                             *)
(***************************************************************************)
EXTENDS Queue

CONSTANTS
    Awaits,      \* BOOLEAN: the write handler waits for the queue
    CAP,         \* QUEUE_CAP, for the two streams the child writes
    Sizes,       \* lengths of the child's writes
    MaxWrites,   \* bound: writes the child makes
    MaxFeeds     \* bound: sends of the parent to the child

ASSUME SpawnAssumption ==
    /\ Awaits \in BOOLEAN /\ CAP \in Nat /\ Sizes \subseteq Nat \ {0}
    /\ MaxWrites \in Nat /\ MaxFeeds \in Nat

Outputs == {"out", "err"}
Streams == Outputs \cup {"in"}
Notice == <<0, 1>>     \* the runtime's line about the child

VARIABLES
    worker,                    \* what the child's thread is doing
    inbox,                     \* what it has posted and the host has not seen
    started, loaded, exited,   \* spawnChild's flag and its two promises
    stopped, timer,
    queue,                     \* the three ByteQueues
    handle, waits, got,        \* the parent: its handle, its reads, their bytes
    wrote, said, cause         \* history: writes made, their bytes, the end's cause

hostVars == <<started, loaded, exited, stopped, timer, cause>>
pipeVars == <<queue, waits, got>>
vars == <<worker, inbox, hostVars, pipeVars, handle, wrote, said>>

Life == INSTANCE ChildLife WITH shutDown <- stopped

Init ==
    /\ worker = "unborn" /\ inbox = {}
    /\ started = FALSE /\ loaded = "unsettled" /\ exited = "none"
    /\ stopped = FALSE /\ timer = "unset"
    /\ queue = [s \in Streams |-> EmptyQueue(IF s = "in" THEN 0 ELSE CAP)]
    /\ handle = "none"
    /\ waits = [s \in Outputs |-> "idle"] /\ got = [s \in Outputs |-> <<>>]
    /\ wrote = 0 /\ said = [s \in Outputs |-> <<>>] /\ cause = "none"

-----------------------------------------------------------------------------
(* The queues' effects on whoever waits *)

Untouched == [s \in Streams |-> Step(queue[s], <<>>)]
Only(stream, step) == [Untouched EXCEPT ![stream] = step]

Told(step, who) == \E k \in DOMAIN step.effects : step.effects[k].to = who
Handed(step) ==
    step.effects[CHOOSE k \in DOMAIN step.effects : step.effects[k].to = "reader"].bytes

\* The queues move; asking are the streams on which the parent is just reading.
Deliver(steps, asking) ==
    /\ queue' = [s \in Streams |-> steps[s].state]
    /\ waits' = [s \in Outputs |->
                   IF Told(steps[s], "reader")
                   THEN IF Handed(steps[s]) = <<>> THEN "ended" ELSE "idle"
                   ELSE IF s \in asking THEN "waiting" ELSE waits[s]]
    /\ got' = [s \in Outputs |->
                 IF Told(steps[s], "reader") THEN got[s] \o Handed(steps[s]) ELSE got[s]]

-----------------------------------------------------------------------------
(* The child's thread *)

WorkerReady ==
    /\ worker = "loading"
    /\ worker' = "running" /\ inbox' = inbox \cup {"ready"}
    /\ UNCHANGED <<hostVars, pipeVars, handle, wrote, said>>

\* WRITE_STDOUT and WRITE_STDERR.
ChildWrite(s, n) ==
    /\ worker = "running" /\ wrote < MaxWrites
    /\ LET b == [i \in 1 .. n |-> <<wrote + 1, i>>]
           step == Push(queue[s], wrote + 1, b)
       IN  /\ Deliver(Only(s, step), {})
           /\ said' = [said EXCEPT ![s] = @ \o b]
           /\ worker' = IF Awaits /\ ~Told(step, "writer") THEN "writing" ELSE worker
    /\ wrote' = wrote + 1
    /\ UNCHANGED <<inbox, hostVars, handle>>

\* READ_CHUNK: the child's own standard input.
ChildRead ==
    /\ worker = "running"
    /\ LET step == NextRead(queue["in"], 1) IN
       /\ Deliver(Only("in", step), {})
       /\ worker' = IF Told(step, "reader") THEN worker ELSE "reading"
    /\ UNCHANGED <<inbox, hostVars, handle, wrote, said>>

\* main returned, or threw and the entry caught it.
ChildReturn(r) ==
    /\ worker = "running"
    /\ worker' = "returned" /\ inbox' = inbox \cup {r}
    /\ UNCHANGED <<hostVars, pipeVars, handle, wrote, said>>
ChildDies ==
    /\ worker \in {"loading", "running", "writing", "reading"}
    /\ worker' = "dead" /\ inbox' = inbox \cup {"error"}
    /\ UNCHANGED <<hostVars, pipeVars, handle, wrote, said>>

-----------------------------------------------------------------------------
(* spawnChild's own code *)

\* A source without the marker: everything is over before anything starts.
SpawnRefused ==
    /\ worker = "unborn"
    /\ worker' = "refused"
    /\ queue' = [s \in Streams |-> End(queue[s]).state]
    /\ loaded' = "failed to load" /\ exited' = "-1" /\ stopped' = TRUE
    /\ handle' = "spawning" /\ cause' = "refused"
    /\ UNCHANGED <<inbox, started, timer, waits, got, wrote, said>>
SpawnUntimed ==      \* mutant: no readiness deadline
    /\ worker = "unborn"
    /\ worker' = "loading" /\ handle' = "spawning"
    /\ UNCHANGED <<inbox, hostVars, pipeVars, wrote, said>>
Spawn ==
    /\ worker = "unborn"
    /\ worker' = "loading" /\ timer' = "set" /\ handle' = "spawning"
    /\ UNCHANGED <<inbox, started, loaded, exited, stopped, cause, pipeVars, wrote, said>>

SettleLast(held, value, unsettled) == value     \* mutant: a later settle wins
Settle(held, value, unsettled) == IF held = unsettled THEN value ELSE held

Done(why) ==
    /\ timer' = "cleared"
    /\ loaded' = Settle(loaded, why, "unsettled")

\* shutdown: once.  errEnd is how the error stream ends.
Shutdown(errEnd) ==
    IF stopped THEN UNCHANGED <<worker, stopped, pipeVars>>
    ELSE /\ stopped' = TRUE /\ worker' = "terminated"
         /\ Deliver([Untouched EXCEPT !["out"] = End(queue["out"]), !["err"] = errEnd], {})

Quiet == End(queue["err"])
WithNotice == EndWith(queue["err"], <<Notice>>)

Exit(code, why) ==
    /\ exited' = Settle(exited, code, "none")
    /\ cause' = Settle(cause, why, "none")

\* The worker's messages keep their order; its error event keeps none.
OnReady ==
    /\ "ready" \in inbox /\ inbox' = inbox \ {"ready"}
    /\ Done("") /\ started' = TRUE
    /\ UNCHANGED <<worker, exited, stopped, cause, pipeVars, handle, wrote, said>>
OnResult(r) ==
    /\ r \in inbox /\ "ready" \notin inbox /\ inbox' = inbox \ {r}
    /\ Done("") /\ started' = TRUE
    /\ Shutdown(IF r = "threw" THEN WithNotice ELSE Quiet)
    /\ Exit(IF r = "ok" THEN "0" ELSE "-1", r)
    /\ UNCHANGED <<handle, wrote, said>>
OnError ==
    /\ "error" \in inbox /\ inbox' = inbox \ {"error"}
    /\ Done("failed to load")
    /\ Shutdown(IF started THEN WithNotice ELSE Quiet)
    /\ Exit("-1", IF started THEN "died" ELSE "no load")
    /\ UNCHANGED <<started, handle, wrote, said>>
GraceFires ==
    /\ timer = "set" /\ timer' = "fired"
    /\ loaded' = Settle(loaded, "late", "unsettled")
    /\ UNCHANGED <<worker, inbox, started, exited, stopped, cause, pipeVars, handle,
                   wrote, said>>

\* What a terminated worker had posted may never arrive.
PostsLost ==
    /\ stopped /\ inbox # {} /\ inbox' = {}
    /\ UNCHANGED <<worker, hostVars, pipeVars, handle, wrote, said>>

Kill ==
    /\ Done(IF started THEN "" ELSE "killed early")
    /\ Shutdown(Quiet)
    /\ Exit("-1", "killed")
    /\ UNCHANGED started

-----------------------------------------------------------------------------
(* The parent's handlers *)

\* startChild, after it has awaited loaded: a handle, or a kill and a reason.
Register ==
    /\ handle = "spawning" /\ loaded = ""
    /\ handle' = "open"
    /\ UNCHANGED <<worker, inbox, hostVars, pipeVars, wrote, said>>
RegisterFailed ==
    /\ handle = "spawning" /\ loaded \notin {"unsettled", ""}
    /\ handle' = "failed"
    /\ IF worker = "refused" THEN UNCHANGED <<worker, hostVars, pipeVars>> ELSE Kill
    /\ UNCHANGED <<inbox, wrote, said>>

\* RECV on the child's handle, or on its error stream's, which closing leaves.
ParentRead(s) ==
    /\ waits[s] = "idle"
    /\ handle = "open" \/ (s = "err" /\ handle = "closed")
    /\ LET step == NextRead(queue[s], 1) IN
       /\ Deliver(Only(s, step), {s})
       /\ worker' = IF worker = "writing" /\ Told(step, "writer") THEN "running"
                    ELSE worker
    /\ UNCHANGED <<inbox, hostVars, handle, wrote, said>>

\* SEND and CLOSE_FEED.  The input is uncapped; its writer is never parked.
Feed ==
    /\ handle = "open" /\ Len(queue["in"].bytes) < MaxFeeds
    /\ LET step == Push(queue["in"], 1, <<Notice>>) IN
       /\ Deliver(Only("in", step), {})
       /\ worker' = IF worker = "reading" /\ Told(step, "reader") THEN "running" ELSE worker
    /\ UNCHANGED <<inbox, hostVars, handle, wrote, said>>
CloseFeed ==
    /\ handle = "open"
    /\ LET step == End(queue["in"]) IN
       /\ Deliver(Only("in", step), {})
       /\ worker' = IF worker = "reading" /\ Told(step, "reader") THEN "running" ELSE worker
    /\ UNCHANGED <<inbox, hostVars, handle, wrote, said>>

\* CLOSE_SOCKET: the input ends, the child is killed and the handle forgotten.
Close ==
    /\ handle = "open" /\ handle' = "closed"
    /\ Done(IF started THEN "" ELSE "killed early")
    /\ IF stopped
       THEN Deliver(Only("in", End(queue["in"])), {}) /\ UNCHANGED <<worker, stopped>>
       ELSE /\ stopped' = TRUE /\ worker' = "terminated"
            /\ Deliver([s \in Streams |-> End(queue[s])], {})
    /\ Exit("-1", "killed")
    /\ UNCHANGED <<inbox, started, wrote, said>>

-----------------------------------------------------------------------------
Deliveries == OnReady \/ (\E r \in {"ok", "threw"} : OnResult(r)) \/ OnError
Answers == Register \/ RegisterFailed
Reads(s) == ParentRead(s)
Next ==
    \/ Spawn \/ SpawnRefused
    \/ WorkerReady \/ ChildRead \/ ChildDies
    \/ (\E s \in Outputs, n \in Sizes : ChildWrite(s, n))
    \/ (\E r \in {"ok", "threw"} : ChildReturn(r))
    \/ Deliveries \/ GraceFires \/ PostsLost
    \/ Answers \/ (\E s \in Outputs : ParentRead(s))
    \/ Feed \/ CloseFeed \/ Close

\* The event loop delivers what is posted, timers fire, and the parent reads both
\* of the child's streams; the child need do nothing.
Spec ==
    /\ Init /\ [][Next]_vars
    /\ WF_vars(Deliveries) /\ WF_vars(GraceFires) /\ WF_vars(Answers)
    /\ \A s \in Outputs : WF_vars(Reads(s))

-----------------------------------------------------------------------------
(* Properties *)

\* Every variable holds a value of its kind.
TypeOK ==
    /\ worker \in {"unborn", "refused", "loading", "running", "writing", "reading",
                   "returned", "dead", "terminated"}
    /\ inbox \subseteq {"ready", "ok", "threw", "error"}
    /\ started \in BOOLEAN /\ stopped \in BOOLEAN
    /\ loaded \in {"unsettled", ""} \cup Life!Reasons
    /\ exited \in {"none"} \cup Life!Codes
    /\ timer \in {"unset", "set", "cleared", "fired"}
    /\ cause \in {"none", "refused", "ok", "threw", "died", "no load", "killed"}
    /\ handle \in {"none", "spawning", "open", "failed", "closed"}
    /\ waits \in [Outputs -> {"idle", "waiting", "ended"}]
    /\ DOMAIN queue = Streams /\ DOMAIN got = Outputs /\ DOMAIN said = Outputs
    /\ wrote \in 0 .. MaxWrites

\* spawnChild does what the lifecycle's state machine says, event for event.
ImplementsLife == Life!Spec

\* A child that is gone has both its output streams ended and its load question
\* answered: "the invariant whose absence is a parent waiting for bytes that
\* cannot come".
GoneIsSettled ==
    exited # "none" =>
        /\ stopped /\ loaded # "unsettled"
        /\ \A s \in Outputs : queue[s].ended /\ waits[s] # "waiting"

\* A child that threw, or died after it started, says why on its error stream,
\* last of all, however full that stream was.
ReasonIsSaid ==
    cause \in {"threw", "died"} =>
        LET all == got["err"] \o queue["err"].bytes
        IN  all # <<>> /\ all[Len(all)] = Notice

\* What the parent gets of a stream is the beginning of what the child wrote, in
\* order and without a gap, however the child ended; on its error stream the
\* runtime's line may follow.
OutputInOrder ==
    \A s \in Outputs : \E n \in 0 .. Len(said[s]) :
        LET beginning == SubSeq(said[s], 1, n)
            all == got[s] \o queue[s].bytes
        IN  all = beginning \/ (s = "err" /\ all = Append(beginning, Notice))

\* Where main returned, everything it wrote is read or still queued to be read.
OutputWhole ==
    exited = "0" => \A s \in Outputs : got[s] \o queue[s].bytes = said[s]

\* spawn answers: a child's load question is settled whatever the child does.
SpawnAnswers == handle = "spawning" ~> handle # "spawning"

\* A parent that reads a child to its end gets there once the child is gone.
EndIsHeard ==
    \A s \in Outputs : (exited # "none" /\ handle = "open")
                       ~> (waits[s] = "ended" \/ handle = "closed")

\* A write returns to the child as long as the parent reads.
WriteReturns == worker = "writing" ~> worker # "writing"

\* A child that is gone is settled for everyone: its streams have ended, its load is answered
\* and its error stream says why (shutdown, fail, onExit).
GoneIsTold == TypeOK /\ GoneIsSettled /\ ReasonIsSaid

\* What the parent reads is what the child wrote: in order, and all of it when the child
\* returned (the WRITE handlers, push and shutdown's end).
OutputIsTrue == OutputInOrder /\ OutputWhole

\* Nobody waits for ever on a child: spawn is answered, a parent that reads reaches the end, and
\* a write that fits the queue returns.
SpawnEnds == SpawnAnswers /\ EndIsHeard /\ WriteReturns
=============================================================================
