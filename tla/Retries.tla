------------------------------ MODULE Retries ------------------------------
(***************************************************************************)
(* What the tests lean on to start a program that the machine may refuse:     *)
(* harness/port.ts (a port found, let go and handed to a server that binds    *)
(* it), harness/spawnRetry.ts (a program whose file is still open for         *)
(* writing) and harness/deadline.ts (a ready line that may never come).       *)
(***************************************************************************)
EXTENDS Integers, FiniteSets

CONSTANTS
    Tests,             \* callers, in one process
    Ports,             \* LOW .. HIGH
    PortAttempts,      \* attempts of withPort
    SpawnAttempts      \* ATTEMPTS of the retrying Command

ASSUME RetriesAssumption ==
    /\ IsFiniteSet(Ports) /\ {PortAttempts, SpawnAttempts} \subseteq Nat \ {0}
    /\ Tests \cap {"free", "probe", "other"} = {}

VARIABLES
    handed,       \* ports this process has ever handed out
    bound,        \* who has each port: "free", "probe", "other" or a test
    caller,       \* per test: [at, port, attempt, spawns]
    got,          \* history: per test, the ports it has been given
    serverLine         \* per test: "none", "line", "ended" (of its server's output)

retryVars == <<handed, bound, caller, got, serverLine>>

RetryInit ==
    /\ handed = {} /\ bound \in [Ports -> {"free", "other"}]
    /\ caller = [t \in Tests |-> [at |-> "new", port |-> 0, attempt |-> 1, spawns |-> 1]]
    /\ got = [t \in Tests |-> {}] /\ serverLine = [t \in Tests |-> "none"]

\* A test calls withPort.
WithPort(t) ==
    /\ caller[t].at = "new" /\ caller' = [caller EXCEPT ![t].at = "hold"]
    /\ UNCHANGED <<handed, bound, got, serverLine>>

\* holdPort: from a random start, round to the first port that was never handed out and that
\* listens, held by listening on it; none is an error.
Holdable(p) == p \notin handed /\ bound[p] = "free"
HoldPort(t) ==
    /\ caller[t].at = "hold"
    /\ IF \E p \in Ports : Holdable(p)
       THEN \E p \in {p \in Ports : Holdable(p)} :
              /\ handed' = handed \cup {p} /\ bound' = [bound EXCEPT ![p] = "probe"]
              /\ caller' = [caller EXCEPT ![t].at = "held", ![t].port = p]
              /\ got' = [got EXCEPT ![t] = @ \cup {p}]
       ELSE /\ caller' = [caller EXCEPT ![t].at = "thrown"] /\ UNCHANGED <<handed, bound, got>>
    /\ UNCHANGED serverLine
\* release closes the listener, once.  Nothing holds the port until the server binds it.
Release(t) ==
    /\ caller[t].at = "held" /\ bound' = [bound EXCEPT ![caller[t].port] = "free"]
    /\ caller' = [caller EXCEPT ![t].at = "spawn"]
    /\ UNCHANGED <<handed, got, serverLine>>

\* external: another process takes a free port, or lets one go.
OtherBinds(p) ==
    /\ bound[p] = "free" /\ bound' = [bound EXCEPT ![p] = "other"]
    /\ UNCHANGED <<handed, caller, got, serverLine>>

\* spawn: a busy text file is tried again, six times in all; the last error, and any other at
\* once, is thrown.
Spawn(t) ==
    /\ caller[t].at = "spawn"
    /\ \/ caller' = [caller EXCEPT ![t].at = "bind"]
       \/ caller' = [caller EXCEPT ![t].at = "thrown"]
       \/ caller[t].spawns # SpawnAttempts /\ caller' = [caller EXCEPT ![t].spawns = @ + 1]
    /\ UNCHANGED <<handed, bound, got, serverLine>>
\* The server binds, or finds the port taken.  When it says so withPort goes round with another
\* one and a spawn of its own, and throws the last error when its attempts are used up; it may also
\* live on without a word.
RetrySwallowed(c) ==     \* mutant: the error is caught and the server taken for started
    [c EXCEPT !.at = "ready"]
Retry(c) ==
    IF c.attempt < PortAttempts THEN [c EXCEPT !.at = "hold", !.attempt = @ + 1, !.spawns = 1]
    ELSE [c EXCEPT !.at = "thrown"]
Bind(t) ==
    /\ caller[t].at = "bind"
    /\ IF bound[caller[t].port] = "free"
       THEN /\ bound' = [bound EXCEPT ![caller[t].port] = t]
            /\ caller' = [caller EXCEPT ![t].at = "ready"]
       ELSE /\ caller' \in {[caller EXCEPT ![t] = Retry(@)], [caller EXCEPT ![t].at = "silent"]}
            /\ UNCHANGED bound
    /\ UNCHANGED <<handed, got, serverLine>>
\* Whatever else start throws is thrown at once, its server gone.
StartFails(t) ==
    /\ caller[t].at = "ready" /\ serverLine[t] = "ended"
    /\ caller' = [caller EXCEPT ![t].at = "thrown"]
    /\ bound' = [bound EXCEPT ![caller[t].port] = "free"]
    /\ UNCHANGED <<handed, got, serverLine>>

\* external: the server prints its line, or ends without it.
Prints(t) ==
    /\ caller[t].at = "ready" /\ serverLine[t] = "none"
    /\ \E r \in {"line", "ended"} : serverLine' = [serverLine EXCEPT ![t] = r]
    /\ UNCHANGED <<handed, bound, caller, got>>
\* readUntil under withDeadline: the line, the stream's end, or the alarm, whichever is first.
ReadUntil(t) ==
    /\ caller[t].at = "ready" /\ serverLine[t] = "line" /\ caller' = [caller EXCEPT ![t].at = "started"]
    /\ UNCHANGED <<handed, bound, got, serverLine>>
Alarm(t) ==
    /\ caller[t].at \in {"ready", "silent"} /\ caller' = [caller EXCEPT ![t].at = "thrown"]
    /\ bound' = IF caller[t].at = "ready" THEN [bound EXCEPT ![caller[t].port] = "free"] ELSE bound
    /\ UNCHANGED <<handed, got, serverLine>>

TestStep(t) == HoldPort(t) \/ Release(t) \/ Spawn(t) \/ Bind(t) \/ StartFails(t) \/ ReadUntil(t)
RetryNext ==
    \/ \E t \in Tests : WithPort(t) \/ TestStep(t) \/ Prints(t) \/ Alarm(t)
    \/ \E p \in Ports : OtherBinds(p)
RetryFair == \A t \in Tests : WF_retryVars(TestStep(t)) /\ WF_retryVars(Alarm(t))
RetrySpec == RetryInit /\ [][RetryNext]_retryVars /\ RetryFair

-----------------------------------------------------------------------------
(* Properties *)

\* The callers' state is made of the parts above.
RetryTypeOK ==
    /\ handed \subseteq Ports /\ bound \in [Ports -> {"free", "probe", "other"} \cup Tests]
    /\ \A t \in Tests :
         /\ caller[t].at \in {"new", "hold", "held", "spawn", "bind", "silent", "ready", "started", "thrown"}
         /\ caller[t].attempt \in 1 .. PortAttempts /\ caller[t].spawns \in 1 .. SpawnAttempts
         /\ serverLine[t] \in {"none", "line", "ended"}

\* holdPort never gives two callers the same port, nor one caller the same port twice, though
\* each port is let go before it is used.
NoPortTwice ==
    /\ \A s, t \in Tests : s # t => got[s] \cap got[t] = {}
    /\ \A t \in Tests :
         caller[t].at \notin {"new", "hold", "thrown"} => Cardinality(got[t]) = caller[t].attempt

\* A test whose server started has the port it was told, and no one else has it.
StartedHasItsPort ==
    \A t \in Tests : caller[t].at \in {"ready", "started"} => bound[caller[t].port] = t

\* Every caller ends with a started server or an error, whatever takes its ports and whether
\* or not its server ever says it is ready.
EveryStartEnds == \A t \in Tests : caller[t].at = "hold" ~> caller[t].at \in {"started", "thrown"}

\* A port is one caller's, from holdPort to the server that bound it, whatever else the machine
\* does with it in between.
PortsAreOwn == RetryTypeOK /\ NoPortTwice /\ StartedHasItsPort
=============================================================================
