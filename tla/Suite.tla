-------------------------------- MODULE Suite --------------------------------
(***************************************************************************)
(* Running the tests: tools/runTests.ts and tools/testChanged.ts, which run   *)
(* the files that ask for the machine in a pass of their own                 *)
(* (harness/testLane.ts) and refuse to run inside themselves                  *)
(* (tools/suiteGuard.ts), and harness/reap.ts, by which a test file ends the   *)
(* servers that a killed run left behind, on a machine others use too.       *)
(***************************************************************************)
EXTENDS Integers, FiniteSets

CONSTANTS
    PackageOf,     \* [test file -> its package]
    Declared,      \* files that declare the exclusive lane
    ArgSets,       \* what may be given to runTests: sets of packages, {} for none
    SuiteJobs,     \* workers of the parallel pass
    Pids           \* process ids; one is given out again once its process has ended

ASSUME SuiteAssumption ==
    /\ Declared \subseteq DOMAIN PackageOf /\ SuiteJobs \in Nat \ {0}
    /\ \A a \in ArgSets : a \subseteq {PackageOf[f] : f \in DOMAIN PackageOf}
    /\ DOMAIN PackageOf \cap {"none", "init", "other"} = {}

VARIABLES
    command,      \* "test" or "changed"
    targets,      \* packages asked for: args, or what git says has changed; {} for everything
    marker,       \* WAC_SUITE_RUNNING in this run's environment: "set" inside another suite
    turn,         \* "guard", "first", "second", "exited"
    waiting, running, ran,   \* files of the pass, and history: how often each file was run
    passIs,      \* of the pass so far: "green", "failed" or "killed"
    codes,        \* [first, second]: the passes' exit codes, -1 before
    owner,        \* per pid, the parent of the server there: a test file, "init", "other" for
                  \* a process of somebody else with a live parent, "none" when the pid is free
    listed,       \* per file, the pids it has listed and has still to kill
    stale,        \* history: of those, the ones whose process has ended since
    suiteExit

suiteVars == <<command, targets, marker, turn, waiting, running, ran, passIs, codes,
               owner, listed, stale, suiteExit>>
passVars == <<waiting, running, ran, passIs>>
reapVars == <<owner, listed, stale>>

TestFiles == DOMAIN PackageOf
Under(packages) == {f \in TestFiles : PackageOf[f] \in packages}

\* laneSplit: no targets means everything, so every declared file is in the lane.
LaneSplit(packages) == IF packages = {} THEN Declared ELSE Declared \cap Under(packages)
Alone == IF command = "test" THEN LaneSplit({}) ELSE LaneSplit(targets)
\* What deno test finds: under the paths it is given, or everywhere.
Discovered(packages) == IF packages = {} THEN TestFiles ELSE Under(packages)

\* The parallel pass ignores the lane.
FirstPass == Discovered(targets) \ Alone
\* The lane's files by name; runTests passes its own arguments on to this pass too.
SecondPass == IF command = "test" THEN Alone \cup Under(targets) ELSE Alone

SuiteInit ==
    /\ command \in {"test", "changed"} /\ targets \in ArgSets /\ marker \in {"set", "unset"}
    /\ turn = "guard" /\ waiting = {} /\ running = {} /\ ran = [f \in TestFiles |-> 0]
    /\ passIs = "green" /\ codes = [first |-> -1, second |-> -1] /\ suiteExit = -1
    /\ owner \in [Pids -> {"none", "init", "other"}]
    /\ listed = [f \in TestFiles |-> {}] /\ stale = listed

-----------------------------------------------------------------------------
(* The two passes *)

\* external: deno test given nothing to run is an error, "No test modules found".
Opening(pass) == IF pass = {} THEN "failed" ELSE "green"
\* refuseIfNested: a suite inside a suite would run itself.
Refuses == marker = "set"
\* It is asked first.  testChanged leaves at once when nothing has changed or nothing that
\* changed has tests.
Begin ==
    /\ turn = "guard"
    /\ \/ /\ Refuses /\ turn' = "exited" /\ suiteExit' = 2
          /\ UNCHANGED <<waiting, passIs>>
       \/ /\ ~Refuses /\ turn' = "first" /\ waiting' = FirstPass
          /\ passIs' = Opening(FirstPass) /\ UNCHANGED suiteExit
       \/ /\ ~Refuses /\ command = "changed" /\ turn' = "exited" /\ suiteExit' = 0
          /\ UNCHANGED <<waiting, passIs>>
    /\ UNCHANGED <<command, targets, marker, running, ran, codes, reapVars>>
Workers1 == IF turn = "first" THEN SuiteJobs ELSE 1
StartFile(f) ==
    /\ turn \in {"first", "second"} /\ f \in waiting /\ Cardinality(running) < Workers1
    /\ waiting' = waiting \ {f} /\ running' = running \cup {f} /\ ran' = [ran EXCEPT ![f] = @ + 1]
    /\ UNCHANGED <<command, targets, marker, turn, passIs, codes, reapVars, suiteExit>>

\* Pids whose processes have ended: a listing that names them is stale.
Stale(pids) == [g \in TestFiles |-> stale[g] \cup (listed[g] \cap pids)]
OwnedBy(files) == {p \in Pids : owner[p] \in files}
\* A file ends; its finally stops what it started.
EndFile(f) ==
    /\ f \in running /\ listed[f] = {} /\ running' = running \ {f}
    /\ passIs' \in {passIs, IF passIs = "killed" THEN passIs ELSE "failed"}
    /\ owner' = [p \in Pids |-> IF owner[p] = f THEN "none" ELSE owner[p]]
    /\ stale' = Stale(OwnedBy({f}))
    /\ UNCHANGED <<command, targets, marker, turn, waiting, ran, codes, listed, suiteExit>>
\* The pass's process is killed: no finally runs, and init takes its servers over.
KillPass ==
    /\ turn \in {"first", "second"} /\ running # {} /\ running' = {} /\ waiting' = {}
    /\ passIs' = "killed"
    /\ owner' = [p \in Pids |-> IF owner[p] \in running THEN "init" ELSE owner[p]]
    /\ listed' = [f \in TestFiles |-> {}] /\ stale' = listed'
    /\ UNCHANGED <<command, targets, marker, turn, ran, codes, suiteExit>>

\* external: deno test's exit code, or what a signal makes of it.
PassCode == CASE passIs = "green" -> 0 [] passIs = "failed" -> 1 [] OTHER -> 143
\* Without a lane there is no second pass, and its code is 0.
EndFirst ==
    /\ turn = "first" /\ waiting = {} /\ running = {} /\ codes' = [codes EXCEPT !.first = PassCode]
    /\ turn' = "second" /\ waiting' = IF Alone = {} THEN {} ELSE SecondPass
    /\ passIs' = IF Alone = {} THEN "green" ELSE Opening(SecondPass)
    /\ UNCHANGED <<command, targets, marker, running, ran, reapVars, suiteExit>>
\* "Either failing fails the suite".
ExitCode(first, second) == IF first # 0 THEN first ELSE second
EndSecond ==
    /\ turn = "second" /\ waiting = {} /\ running = {}
    /\ codes' = [codes EXCEPT !.second = PassCode]
    /\ turn' = "exited" /\ suiteExit' = ExitCode(codes.first, PassCode)
    /\ UNCHANGED <<command, targets, marker, passVars, reapVars>>

-----------------------------------------------------------------------------
(* Servers *)

\* A test starts its server under a pid that is free, and stops it.
StartServer(f) ==
    /\ f \in running /\ listed[f] = {} /\ OwnedBy({f}) = {}
    /\ \E p \in Pids : owner[p] = "none" /\ owner' = [owner EXCEPT ![p] = f]
    /\ UNCHANGED <<command, targets, marker, turn, passVars, codes, listed, stale, suiteExit>>
StopServer(f) ==
    /\ f \in running /\ listed[f] = {} /\ OwnedBy({f}) # {}
    /\ owner' = [p \in Pids |-> IF owner[p] = f THEN "none" ELSE owner[p]]
    /\ stale' = Stale(OwnedBy({f}))
    /\ UNCHANGED <<command, targets, marker, turn, passVars, codes, listed, suiteExit>>
\* external: what others on the machine do.  A process starts; one ends, or its parent is
\* killed; an abandoned one ends, by itself or by another's reaper.
Others(p) ==
    /\ \/ owner[p] = "none" /\ owner' = [owner EXCEPT ![p] = "other"] /\ UNCHANGED stale
       \/ owner[p] = "other" /\ owner' = [owner EXCEPT ![p] = "init"] /\ UNCHANGED stale
       \/ owner[p] \in {"other", "init"} /\ owner' = [owner EXCEPT ![p] = "none"] /\ stale' = Stale({p})
    /\ UNCHANGED <<command, targets, marker, turn, passVars, codes, listed, suiteExit>>

\* findOrphans: processes of the pattern whose parent is init, as ps lists them.
OrphansAny == {p \in Pids : owner[p] # "none"}      \* mutant: any that match
Orphans == {p \in Pids : owner[p] = "init"}
FindOrphans(f) ==
    /\ f \in running /\ listed[f] = {} /\ listed' = [listed EXCEPT ![f] = Orphans]
    /\ UNCHANGED <<command, targets, marker, turn, passVars, codes, owner, stale, suiteExit>>
\* reapOrphans: each pid is told to end, whoever has it by then; one that is free is no matter.
ReapOrphan(f, p) ==
    /\ f \in running /\ p \in listed[f]
    /\ owner' = [owner EXCEPT ![p] = "none"] /\ listed' = [listed EXCEPT ![f] = @ \ {p}]
    /\ stale' = [Stale({p}) EXCEPT ![f] = stale[f] \ {p}]
    /\ UNCHANGED <<command, targets, marker, turn, passVars, codes, suiteExit>>

SuiteNext ==
    \/ Begin \/ EndFirst \/ EndSecond \/ KillPass
    \/ \E f \in TestFiles :
         \/ StartFile(f) \/ EndFile(f) \/ StartServer(f) \/ StopServer(f) \/ FindOrphans(f)
         \/ \E p \in Pids : ReapOrphan(f, p)
    \/ \E p \in Pids : Others(p)
SuiteSpec == SuiteInit /\ [][SuiteNext]_suiteVars

-----------------------------------------------------------------------------
(* Properties *)

\* The suite's state is made of the parts above.
SuiteTypeOK ==
    /\ targets \in ArgSets /\ waiting \subseteq TestFiles /\ running \subseteq TestFiles
    /\ ran \in [TestFiles -> Nat] /\ turn \in {"guard", "first", "second", "exited"}
    /\ owner \in [Pids -> TestFiles \cup {"none", "init", "other"}]
    /\ listed \in [TestFiles -> SUBSET Pids] /\ suiteExit \in {-1, 0, 1, 2, 143}

\* A file that asks for the machine has it: whichever command runs it, nothing else of the
\* suite runs.
ExclusiveRunsAlone == running \cap Declared # {} => Cardinality(running) = 1

\* How often a file is run.  Everything, and what has changed, is run once.  Arguments of
\* runTests go to both passes and do not narrow the lane: their own files are run twice when
\* anything at all is in the lane, and the whole lane once.
Times1(f) ==
    IF f \in Declared THEN (IF command = "test" \/ f \in Discovered(targets) THEN 1 ELSE 0)
    ELSE IF f \notin Discovered(targets) THEN 0
    ELSE IF command = "test" /\ targets # {} /\ Declared # {} THEN 2 ELSE 1

\* The exit code tells the truth about what ran: unless a pass was killed, a run that made its
\* passes has run every file as often as it was asked to, red or green, so a failure in the
\* first pass hides nothing of the second; a green exit is one of two green passes or of
\* nothing to test, and a run inside another suite has run nothing.
GreenMeansAllRan ==
    turn = "exited" =>
      /\ codes.second # -1 /\ 143 \notin {codes.first, codes.second} =>
           \A f \in TestFiles : ran[f] = Times1(f)
      /\ suiteExit = 0 /\ command = "test" => codes = [first |-> 0, second |-> 0]
      /\ suiteExit = 0 /\ command = "changed" =>
           codes = [first |-> 0, second |-> 0] \/ ran = [f \in TestFiles |-> 0]
      /\ marker = "set" => suiteExit = 2 /\ ran = [f \in TestFiles |-> 0]

\* "What makes this safe is the parent", though ps is asked before the killing: a process with
\* a live parent, a test's server or another's, is ended by a reaper only under a pid that was
\* listed for a process that has ended since and was given out again.
OwnServerLives ==
    [][\A f \in TestFiles : \A p \in listed[f] \ listed'[f] :
         owner[p] \in TestFiles \cup {"other"} => p \in stale[f]]_suiteVars

\* A suite is safe to believe and to run beside others: exclusive files alone, an exit code that
\* tells the truth, and no process that has a parent reaped but for a pid used again.
SuiteIsSafe ==
    [](SuiteTypeOK /\ ExclusiveRunsAlone /\ GreenMeansAllRan) /\ OwnServerLives
=============================================================================
