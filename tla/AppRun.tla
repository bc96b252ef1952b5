------------------------------- MODULE AppRun -------------------------------
(***************************************************************************)
(* harness/appRun.ts: a test runs a built program as a child in its own        *)
(* process, feeds it, drains it and waits for it, with a detector that gives   *)
(* up on a child whose bridge has stopped moving.                           *)
(***************************************************************************)
EXTENDS Integers

CONSTANTS MaxMoves      \* bound: steps of the child that move its bridge

ASSUME AppRunAssumption == MaxMoves \in Nat

VARIABLES
    app,          \* the child: "loading", "running", "wedged", "exited", "killed"
    moves,        \* what describeSlots and the responder's stats would show
    inUse,        \* some slot is in use
    last, frozen, \* the detector's: the state it saw and how often in a row it was the same
    lastMove,     \* history: looks of the detector since the bridge last moved, 3 for more
    stdin,        \* "open" or "ended"
    outEnded,     \* the child's output queues have ended
    alarm,        \* the detector has rejected
    outcome       \* of run: "none", "draining", "code", "deadlock", "load"

appVars == <<app, moves, inUse, last, frozen, lastMove, stdin, outEnded, alarm, outcome>>
detector == <<last, frozen, lastMove>>

AppInit ==
    /\ app = "loading" /\ moves = 0 /\ inUse = FALSE /\ last = -1 /\ frozen = 0 /\ lastMove = 0
    /\ stdin = "open" /\ outEnded = FALSE /\ alarm = FALSE /\ outcome = "none"

\* loaded: a reason is thrown at once, before anything that would kill the child.
AppLoaded ==
    /\ app = "loading" /\ outcome = "none"
    /\ \/ app' = "running" /\ stdin' = "ended" /\ UNCHANGED outcome
       \/ outcome' = "load" /\ UNCHANGED <<app, stdin>>
    /\ UNCHANGED <<moves, inUse, detector, outEnded, alarm>>

\* external: the child takes a slot, gives one back or has its call swept.
AppMoves ==
    /\ app = "running" /\ moves < MaxMoves /\ moves' = moves + 1
    /\ inUse' \in BOOLEAN /\ lastMove' = 0
    /\ UNCHANGED <<app, last, frozen, stdin, outEnded, alarm, outcome>>
\* external: it waits for an answer that is not coming.
AppWedges ==
    /\ app = "running" /\ inUse /\ app' = "wedged"
    /\ UNCHANGED <<moves, inUse, detector, stdin, outEnded, alarm, outcome>>
AppExits ==
    /\ app = "running" /\ app' = "exited"
    /\ UNCHANGED <<moves, inUse, detector, stdin, outEnded, alarm, outcome>>
\* The lifecycle ends the queues of a child that is gone.
AppOutputEnds ==
    /\ app \in {"exited", "killed"} /\ ~outEnded /\ outEnded' = TRUE
    /\ UNCHANGED <<app, moves, inUse, detector, stdin, alarm, outcome>>

\* The interval.  Two looks in a row that find what the look before found, with work
\* outstanding, are a deadlock; one that finds anything else starts the count again.
FrozenCounts == IF moves = last THEN frozen + 1 ELSE frozen      \* mutant: a move does not reset it
Frozen == IF moves = last /\ inUse THEN frozen + 1 ELSE 0
StallLooks ==
    /\ outcome = "none" /\ app \in {"running", "wedged", "exited"} /\ ~alarm
    /\ frozen' = Frozen /\ last' = moves /\ lastMove' = IF lastMove < 3 THEN lastMove + 1 ELSE 3
    /\ alarm' = (frozen' >= 2)
    /\ UNCHANGED <<app, moves, inUse, stdin, outEnded, outcome>>

\* The race of the child's exit and the detector, then the drain; a throw kills the child.
RaceExit ==
    /\ outcome = "none" /\ app = "exited" /\ outcome' = "draining"
    /\ UNCHANGED <<app, moves, inUse, detector, stdin, outEnded, alarm>>
Drained ==
    /\ outcome = "draining" /\ outEnded /\ outcome' = "code"
    /\ UNCHANGED <<app, moves, inUse, detector, stdin, outEnded, alarm>>
RaceAlarm ==
    /\ outcome = "none" /\ alarm /\ outcome' = "deadlock"
    /\ app' = IF app = "exited" THEN app ELSE "killed"
    /\ UNCHANGED <<moves, inUse, detector, stdin, outEnded, alarm>>

AppNext ==
    \/ AppLoaded \/ AppMoves \/ AppWedges \/ AppExits \/ AppOutputEnds
    \/ StallLooks \/ RaceExit \/ Drained \/ RaceAlarm
\* The interval fires, the promises settle, and a child that is not wedged goes on to its end.
AppFair ==
    /\ WF_appVars(StallLooks) /\ WF_appVars(RaceExit) /\ WF_appVars(Drained)
    /\ WF_appVars(RaceAlarm) /\ WF_appVars(AppOutputEnds)
    /\ WF_appVars(AppExits)
AppSpec == AppInit /\ [][AppNext]_appVars /\ AppFair

-----------------------------------------------------------------------------
(* Properties *)

\* The run's state is made of the parts above.
AppTypeOK ==
    /\ app \in {"loading", "running", "wedged", "exited", "killed"} /\ moves \in 0 .. MaxMoves
    /\ outcome \in {"none", "draining", "code", "deadlock", "load"} /\ frozen \in Nat /\ last \in -1 .. MaxMoves

\* The detector never condemns a child that moved between its last looks, nor one with no call
\* outstanding: the bridge has stood still for two whole intervals with work in it.
DeadlockIsStill == [][~alarm /\ alarm' => lastMove >= 2 /\ inUse]_appVars

\* A run that returns a code has read the child's output to its end, after the child exited, and
\* a run that ends in a deadlock has left no child behind.
RunLeavesNothing ==
    /\ outcome = "code" => app = "exited" /\ outEnded
    /\ outcome = "deadlock" => app \in {"exited", "killed"}

\* Every run of a child that loads ends: with its code, or with a deadlock said aloud rather
\* than a test that hangs.
RunEnds == app = "running" ~> outcome \in {"code", "deadlock"}

\* A run is just: it returns when the output has ended, leaves no child behind a deadlock, and calls
\* deadlocked only a child that stood still with work outstanding.
RunIsJust == [](AppTypeOK /\ RunLeavesNothing) /\ DeadlockIsStill
=============================================================================
