------------------------------ MODULE Schedule ------------------------------
(***************************************************************************)
(* schedule.ts: one scheduler for every bridge of a process, so that a test  *)
(* run hears its answers in an order somebody chose.                         *)
(*                                                                         *)
(* A guest runs on its own thread: it submits calls, cancels some, and ends. *)
(* The host is one thread: a sweep of a bridge takes the calls submitted to  *)
(* it, answering some at once, and then says quiet; other handlers finish    *)
(* later; the hurry-up timer fires.  A call is <<bridge, number>>.           *)
(***************************************************************************)
EXTENDS Integers, Sequences, FiniteSets

CONSTANTS
    Bridges,     \* the bridges of this process
    Policies,    \* the policies to run under
    MaxSubmits   \* bound: calls of all the guests

ASSUME ScheduleAssumption ==
    /\ MaxSubmits \in Nat /\ Policies \subseteq {"off", "fifo", "seeded"}
    /\ "nobody" \notin Bridges

Nobody == "nobody"

VARIABLES
    policy,
    submits,     \* calls submitted
    signal,      \* bridges whose SUBMIT_SEQ has moved since their sweep began
    posted,      \* calls no sweep has taken
    sweeping,    \* the bridge being swept, or Nobody
    handling,    \* calls whose handler has not replied
    ready,       \* the answers the scheduler holds, each with its seq
    seq,
    running,     \* bridges answered and not yet quiet
    idle,        \* the hurry-up timer is armed
    serving,     \* bridges whose responder has not stopped
    failing,     \* calls a responder that is stopping has still to fail
    given,       \* calls cancelled whose handler or answer is still about
    open,        \* calls submitted and neither answered nor cancelled
    overtaken    \* history: an answer went out before one that was ready earlier

sVars == <<policy, submits, signal, posted, sweeping, handling, ready, seq, running, idle,
           serving, failing, given, open, overtaken>>
guestVars == <<open, overtaken>>

ScInit ==
    /\ policy \in Policies
    /\ submits = 0
    /\ signal = {} /\ posted = {} /\ sweeping = Nobody /\ handling = {}
    /\ ready = <<>> /\ seq = 0 /\ running = {} /\ idle = FALSE
    /\ serving = Bridges /\ failing = {} /\ given = {} /\ open = {}
    /\ overtaken = FALSE

-----------------------------------------------------------------------------
(* The guests *)

Submit(b) ==
    /\ b \in serving /\ submits < MaxSubmits
    /\ submits' = submits + 1 /\ signal' = signal \cup {b}
    /\ posted' = posted \cup {<<b, submits + 1>>} /\ open' = open \cup {<<b, submits + 1>>}
    /\ UNCHANGED <<policy, sweeping, handling, ready, seq, running, idle, serving,
                   failing, given, overtaken>>
Cancel(c) ==
    /\ c[1] \in serving /\ c \in open /\ open' = open \ {c}
    /\ given' = given \cup {c} /\ signal' = signal \cup {c[1]}
    /\ UNCHANGED <<policy, submits, posted, sweeping, handling, ready, seq, running, idle, serving,
                   failing, overtaken>>
-----------------------------------------------------------------------------
(* The scheduler *)

\* The answer is written into its slot and wakes its guest, unless the slot has moved on
\* or has an answer already.
Write(c) ==
    open' = open \ {c}

Choose(held) ==
    IF policy = "fifo"
    THEN {i \in DOMAIN held : \A j \in DOMAIN held : held[i].seq <= held[j].seq}
    ELSE DOMAIN held
Without(held, i) == SubSeq(held, 1, i - 1) \o SubSeq(held, i + 1, Len(held))

Overtakes(held, i) == policy = "fifo" /\ \E j \in DOMAIN held : held[j].seq < held[i].seq

\* #pump, for a scheduler that holds these answers and has these bridges running.
Pump(held, run, armed) ==
    \/ held = <<>> /\ ready' = held /\ running' = run /\ idle' = armed /\ UNCHANGED guestVars
    \/ held # <<>> /\ run # {} /\ ready' = held /\ running' = run /\ idle' = TRUE
       /\ UNCHANGED guestVars
    \/ /\ held # <<>> /\ run = {} /\ idle' = TRUE
       /\ \E i \in Choose(held) :
            /\ ready' = Without(held, i) /\ running' = {held[i].call[1]}
            /\ overtaken' = (overtaken \/ Overtakes(held, i)) /\ Write(held[i].call)

\* ready: at once with scheduling off.
AnswerReady(c) ==
    \/ policy = "off" /\ Write(c) /\ UNCHANGED <<ready, seq, running, idle, overtaken>>
    \/ /\ policy # "off" /\ seq' = seq + 1
       /\ Pump(Append(ready, [call |-> c, seq |-> seq]), running, idle)

QuietLater(b) ==      \* mutant: no pump, the next answer to be ready will do it
    running' = running \ {b} /\ UNCHANGED <<ready, idle, guestVars>>
Quiet(b) ==
    IF b \in running THEN Pump(ready, running \ {b}, idle)
    ELSE UNCHANGED <<ready, running, idle, guestVars>>

IdleFires ==
    /\ idle /\ sweeping = Nobody
    /\ Pump(ready, {}, FALSE)
    /\ UNCHANGED <<policy, submits, signal, posted, sweeping, handling, seq, serving, failing, given>>

-----------------------------------------------------------------------------
(* The responders *)

HostUnchanged == UNCHANGED <<policy, submits, given>>

SweepBegins(b) ==
    /\ sweeping = Nobody /\ b \in signal \cap serving
    /\ sweeping' = b /\ signal' = signal \ {b}
    /\ HostUnchanged
    /\ UNCHANGED <<posted, handling, ready, seq, running, idle, serving, failing, guestVars>>
\* Slot by slot: an abandoned call, one whose handler waits, and one answered at once.
Take(c) ==
    /\ c \in posted /\ c[1] = sweeping /\ posted' = posted \ {c}
    /\ \/ c \in given /\ UNCHANGED <<handling, ready, seq, running, idle, guestVars>>
       \/ c \notin given /\ handling' = handling \cup {c}
          /\ UNCHANGED <<ready, seq, running, idle, guestVars>>
       \/ c \notin given /\ AnswerReady(c) /\ UNCHANGED handling
    /\ HostUnchanged /\ UNCHANGED <<signal, sweeping, serving, failing>>
SweepEnds ==
    /\ sweeping \in serving /\ \A c \in posted : c[1] = sweeping => sweeping \in signal
    /\ Quiet(sweeping) /\ sweeping' = Nobody
    /\ HostUnchanged /\ UNCHANGED <<signal, posted, handling, seq, serving, failing>>
HandlerDone(c) ==
    /\ sweeping = Nobody /\ c \in handling /\ handling' = handling \ {c}
    /\ AnswerReady(c)
    /\ HostUnchanged /\ UNCHANGED <<signal, posted, sweeping, serving, failing>>

\* stop, in one turn of the event loop: every call the host was given and has not
\* answered is failed through the scheduler, and the bridge is quiet.  A call whose answer
\* the scheduler holds is running still, and is answered twice; the second is for nobody.
Unanswered(b) == {c \in open : c[1] = b}
Stop(b) ==
    /\ sweeping = Nobody /\ b \in serving
    /\ serving' = serving \ {b} /\ sweeping' = b /\ failing' = Unanswered(b)
    /\ posted' = {c \in posted : c[1] # b} /\ signal' = signal \ {b}
    /\ HostUnchanged /\ UNCHANGED <<handling, ready, seq, running, idle, guestVars>>
FailPending(c) ==
    /\ c \in failing /\ failing' = failing \ {c} /\ AnswerReady(c)
    /\ HostUnchanged /\ UNCHANGED <<signal, posted, sweeping, handling, serving>>
StopEnds ==
    /\ sweeping \in Bridges \ serving /\ failing = {}
    /\ Quiet(sweeping) /\ sweeping' = Nobody
    /\ HostUnchanged /\ UNCHANGED <<signal, posted, handling, seq, serving, failing>>

ScNext ==
    \/ \E b \in Bridges : Submit(b) \/ SweepBegins(b) \/ Stop(b)
    \/ \E c \in open : Cancel(c)
    \/ \E c \in posted : Take(c)
    \/ \E c \in handling : HandlerDone(c)
    \/ \E c \in failing : FailPending(c)
    \/ SweepEnds \/ StopEnds \/ IdleFires

\* The event loop turns: a sweep once begun is finished, and a timer fires.
ScFair ==
    /\ WF_sVars(IdleFires) /\ WF_sVars(SweepEnds \/ \E c \in posted : Take(c))
    /\ WF_sVars(StopEnds \/ \E c \in failing : FailPending(c))
    /\ \A b \in Bridges : WF_sVars(SweepBegins(b))
ScSpec == ScInit /\ [][ScNext]_sVars /\ ScFair

-----------------------------------------------------------------------------
(* What must hold *)

\* At most one bridge has its turn, and a call is with a handler or unswept, not both.
ScTypeOK ==
    /\ policy \in Policies
    /\ running \subseteq Bridges /\ Cardinality(running) <= 1 /\ idle \in BOOLEAN
    /\ submits \in 0 .. MaxSubmits /\ handling \cap posted = {} /\ sweeping \in Bridges \cup {Nobody}
    /\ \A i \in DOMAIN ready : ready[i].seq < seq

\* The scheduler never sits on an answer: while it holds one, somebody is having a turn
\* and the timer that ends the turn is armed ("a stall is a broken test run",
\* schedule.ts:197).  The turn may be a
\* stopped bridge's, whose quiet has been and gone.
NeverStalls == ready # <<>> => running # {} /\ idle

\* Under fifo the answers go out in the order they became ready, across bridges, timers,
\* cancelled calls and bridges that stop.
FifoKeepsOrder == ~overtaken

\* Every answer a handler gives goes out: no order of sweeps, stops, cancels and timers
\* leaves one behind.  The guests here stop submitting, so the scheduler comes to hold nothing.
EveryAnswerGoesOut == ready # <<>> ~> ready = <<>>

\* A guest whose responder has stopped is not left parked: every call it has open is being
\* failed or its answer is in the scheduler's hands ("it was the one state this skipped - so
\* the worker waited for an answer from a handler that would never be reached", respond.ts:318).
StopAnswersAll ==
    \A c \in open : c[1] \notin serving =>
        c \in failing \/ \E i \in DOMAIN ready : ready[i].call = c

\* The scheduler holds answers back and never keeps them: somebody has a turn and a timer while
\* it holds one, fifo is fifo, and a stopped guest's calls are all in somebody's hands.
SchedulerKeepsFaith == ScTypeOK /\ NeverStalls /\ FifoKeepsOrder /\ StopAnswersAll
=============================================================================
