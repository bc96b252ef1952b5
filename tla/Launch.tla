------------------------------- MODULE Launch -------------------------------
(***************************************************************************)
(* Starting a program and ending with its code: entry.ts, entryNode.ts and   *)
(* entryBrowser.ts.  A launcher builds a bridge, serves it, starts a worker, *)
(* posts it the bridge, and waits for a result or an error; a worker         *)
(* evaluates its entry module, suspends while the program instantiates,      *)
(* and runs main once it has both the program and the bridge.               *)
(*                                                                         *)
(* Two threads with messages between them.  A message that a web worker      *)
(* receives while nothing handles it is dropped; Node's port keeps it.       *)
(***************************************************************************)
EXTENDS Integers, Sequences

CONSTANT Codes    \* what a program may return

ASSUME LaunchAssumption == Codes \subseteq Nat

Platforms == {"deno", "node", "browser"}
Failed == 70      \* the launcher's own code for a program that failed
NoCode == -1
Notice == -2      \* the load notice

VARIABLES
    platform, covering,   \* whose entry this is, and whether it is a coverage build
    worker,       \* its worker: "none", "evaluating", "suspended", "asking", "running", "ended", "done", "dead"
    handler,      \* the worker handles messages
    buffered,     \* the start message has been handled and kept
    toWorker,     \* the start message: "unposted", "posted", "dropped", "handled"
    toLauncher,   \* messages on their way to the launcher
    runs,         \* times main has been started
    said,         \* what the program came to: NoCode, a code, or Failed
    dumped,       \* its coverage is on disk, or the attempt failed
    launcher,     \* "starting", "waiting", "settled", "clean", "exited"
    code,         \* what finished settled to
    responder, urls \* the responder, and the object URL of the source

lVars == <<platform, covering, worker, handler, buffered, toWorker, toLauncher, runs, said,
           dumped, launcher, code, responder, urls>>

LInit ==
    /\ platform \in Platforms /\ covering \in BOOLEAN /\ (platform = "browser" => ~covering)
    /\ worker = "none" /\ handler = FALSE /\ buffered = FALSE
    /\ toWorker = "unposted" /\ toLauncher = <<>> /\ runs = 0 /\ said = NoCode
    /\ dumped = FALSE /\ launcher = "starting" /\ code = NoCode
    /\ responder = FALSE /\ urls = 0

-----------------------------------------------------------------------------
(* The launcher *)

\* The world is served before the worker exists, and the bridge is posted at once: the
\* worker may be anywhere in its loading when the message arrives.
Start(blob) ==
    /\ launcher = "starting" /\ launcher' = "waiting"
    /\ responder' = TRUE /\ urls' = blob /\ worker' = "evaluating" /\ toWorker' = "posted"
    /\ UNCHANGED <<platform, covering, handler, buffered, toLauncher, runs, said, dumped, code>>
RunAsLauncher == platform = "deno" /\ Start(1)
RunLauncherNode == platform = "node" /\ Start(0)
RunInPage == platform = "browser" /\ Start(1)
\* A page that is not cross-origin isolated has no shared memory, and says so.
NotIsolated ==
    /\ platform = "browser" /\ launcher = "starting" /\ launcher' = "exited" /\ code' = Failed
    /\ UNCHANGED <<platform, covering, worker, handler, buffered, toWorker, toLauncher, runs, said,
                   dumped, responder, urls>>

\* The first message that is not the load notice settles it.
Takes(m) ==
    IF m = Notice THEN UNCHANGED <<launcher, code>>
    ELSE launcher' = "settled" /\ code' = m
Hears ==
    /\ launcher = "waiting" /\ toLauncher # <<>>
    /\ toLauncher' = Tail(toLauncher) /\ Takes(Head(toLauncher))
    /\ UNCHANGED <<platform, covering, worker, handler, buffered, toWorker, runs, said, dumped,
                   responder, urls>>

\* finally: the responder stopped, the worker terminated, the URL given back.  Only then
\* is the process ended: Deno.exit runs no finally.
Finish(at) ==
    /\ launcher = "settled" /\ launcher' = at
    /\ responder' = FALSE /\ worker' = "dead" /\ urls' = 0
    /\ UNCHANGED <<platform, covering, handler, buffered, toWorker, toLauncher, runs, said, dumped,
                   code>>
FinishDeno == platform = "deno" /\ Finish("exited")
\* Node waits for the worker's end.
FinishNode == platform = "node" /\ Finish("clean")
ExitNode ==
    /\ platform = "node" /\ launcher = "clean" /\ launcher' = "exited"
    /\ UNCHANGED <<platform, covering, worker, handler, buffered, toWorker, toLauncher, runs, said,
                   dumped, code, responder, urls>>
FinishPage == platform = "browser" /\ Finish("exited")

-----------------------------------------------------------------------------
(* The worker *)

WorkerUnchanged == UNCHANGED <<platform, covering, launcher, code, responder, urls>>

\* The entry module runs first.  Deno and the page install their handler there; Node's
\* entry attaches a listener once the program is there.
Evaluate(installs, next) ==
    /\ worker = "evaluating" /\ worker' = next /\ handler' = installs
    /\ WorkerUnchanged
    /\ UNCHANGED <<buffered, toWorker, runs, said, dumped>>
EvaluateLate ==      \* mutant: the handler is installed when the program is asked for
    /\ platform = "deno" /\ Evaluate(FALSE, "suspended") /\ toLauncher' = Append(toLauncher, Notice)
EvaluateDeno ==
    /\ platform = "deno" /\ Evaluate(TRUE, "suspended") /\ toLauncher' = Append(toLauncher, Notice)
EvaluateNode == platform = "node" /\ Evaluate(FALSE, "suspended") /\ UNCHANGED toLauncher
EvaluatePage ==
    /\ platform = "browser" /\ Evaluate(TRUE, "asking") /\ toLauncher' = Append(toLauncher, Notice)

\* The program has instantiated.
ProgramDeno ==
    /\ platform = "deno" /\ worker = "suspended" /\ worker' = "asking" /\ handler' = TRUE
    /\ WorkerUnchanged /\ UNCHANGED <<buffered, toWorker, toLauncher, runs, said, dumped>>
ProgramNode ==
    /\ platform = "node" /\ worker = "suspended" /\ worker' = "asking" /\ handler' = TRUE
    /\ toLauncher' = Append(toLauncher, Notice)
    /\ WorkerUnchanged /\ UNCHANGED <<buffered, toWorker, runs, said, dumped>>
\* It did not: not JavaScript, or a module that would not start.  The worker's error event.
LoadFails ==
    /\ worker \in {"evaluating", "suspended"} /\ worker' = "done"
    /\ toLauncher' = Append(toLauncher, Failed) /\ said' = Failed
    /\ WorkerUnchanged /\ UNCHANGED <<handler, buffered, toWorker, runs, dumped>>

\* The bridge arrives.  Nothing is dispatched before the entry module has run.
StartArrives ==
    /\ toWorker = "posted" /\ worker \notin {"none", "evaluating", "done", "dead"}
    /\ (platform = "node" => handler)
    /\ IF handler THEN toWorker' = "handled" /\ buffered' = TRUE
                  ELSE toWorker' = "dropped" /\ UNCHANGED buffered
    /\ WorkerUnchanged /\ UNCHANGED <<worker, handler, toLauncher, runs, said, dumped>>

Main(next) ==
    /\ worker = "asking" /\ buffered /\ worker' = next
    /\ runs' = runs + 1 /\ buffered' = FALSE
    /\ WorkerUnchanged /\ UNCHANGED <<handler, toWorker, toLauncher, said, dumped>>
RunAsWorkerDeno == platform = "deno" /\ Main("running")
RunAsWorkerNode == platform = "node" /\ Main("running")
\* The page's worker asks for its program only when it has the bridge.
RunAsWorkerPage == platform = "browser" /\ Main("running")

\* main returned or threw.
MainEnds(c) ==
    /\ worker = "running" /\ worker' = "ended" /\ said' = c
    /\ WorkerUnchanged /\ UNCHANGED <<handler, buffered, toWorker, toLauncher, runs, dumped>>
\* A coverage build writes its counters, or fails to and says nothing of it.
Dump ==
    /\ worker \in {"ended", "done"} /\ runs > 0 /\ covering /\ ~dumped /\ dumped' = TRUE
    /\ WorkerUnchanged
    /\ UNCHANGED <<worker, handler, buffered, toWorker, toLauncher, runs, said>>
DumpCoverage == platform = "deno" /\ Dump
DumpCoverageNode == platform = "node" /\ Dump
\* Only then is the result posted: the launcher will terminate this worker.
Post ==
    /\ worker = "ended" /\ worker' = "done" /\ toLauncher' = Append(toLauncher, said)
    /\ WorkerUnchanged /\ UNCHANGED <<handler, buffered, toWorker, runs, said, dumped>>
PostFirst == Post      \* mutant: the dump comes after the result
PostResult == (covering => dumped) /\ Post

LNext ==
    \/ RunAsLauncher \/ RunLauncherNode \/ RunInPage \/ NotIsolated \/ Hears
    \/ FinishDeno \/ FinishNode \/ ExitNode \/ FinishPage
    \/ EvaluateDeno \/ EvaluateNode \/ EvaluatePage \/ ProgramDeno \/ ProgramNode \/ LoadFails
    \/ StartArrives \/ RunAsWorkerDeno \/ RunAsWorkerNode \/ RunAsWorkerPage
    \/ \E c \in Codes \cup {Failed} : MainEnds(c)
    \/ DumpCoverage \/ DumpCoverageNode \/ PostResult
\* Both threads turn, and main is taken to return.  Nothing here goes round in a circle.
LFair == WF_lVars(launcher # "starting" /\ LNext)
LSpec == LInit /\ [][LNext]_lVars /\ LFair

-----------------------------------------------------------------------------
(* What must hold *)

\* One start of main, one object URL, and at most a notice and a result on their way.
LTypeOK ==
    /\ platform \in Platforms /\ runs \in 0 .. 1 /\ urls \in 0 .. 1
    /\ worker \in {"none", "evaluating", "suspended", "asking", "running", "ended", "done", "dead"}
    /\ toWorker \in {"unposted", "posted", "dropped", "handled"}
    /\ Len(toLauncher) <= 2 /\ said \in Codes \cup {NoCode, Failed}
    /\ code \in Codes \cup {NoCode, Failed}

\* The process ends with what the program came to: the code main returned, or 70 for one
\* that threw or would not load - never the load notice taken for a result.
ExitsWithItsCode ==
    launcher = "exited" => code = said \/ (platform = "browser" /\ worker = "none")

\* By then nothing is left: "cleanup used to read as though it happened and never did"
\* (entry.ts:244).
ExitsClean == launcher = "exited" => ~responder /\ urls = 0 /\ worker \in {"dead", "none"}

\* A coverage build that ran has written its counters before its launcher can end it:
\* the launcher terminates the worker as soon as it hears the result.
DumpedInTime == launcher = "exited" /\ covering /\ runs = 1 => dumped

\* Every launcher that starts ends.  The start message may arrive while the worker is suspended in
\* its program's instantiation: "it worked one run in three" (entryBrowser.ts:29).
LauncherEnds == launcher # "starting" ~> launcher = "exited"

\* A launcher that ends has ended well: with the program's code, nothing left behind, and the
\* coverage counters written before the worker was terminated.
EndsWell == LTypeOK /\ ExitsWithItsCode /\ ExitsClean /\ DumpedInTime
=============================================================================
