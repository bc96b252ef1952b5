----------------------------- MODULE MCPrograms -----------------------------
(* A program's side: its tickets, its page, the order it is answered in, and its *)
(* launcher.  The part is chosen in the initial state; the others stay put.       *)
EXTENDS Tickets, Page, Schedule, Launch
VARIABLE part
TwoKinds == {"click", "keydown"}
TwoBridges == {"shell", "applet"}
AllPolicies == {"off", "fifo", "seeded"}
TwoCodes == {0, 3}
Init ==
    /\ part \in {"tickets", "page", "schedule", "launch"}
    /\ TkInit /\ PgInit
    /\ ScInit /\ (part # "schedule" => policy = "off")
    /\ LInit /\ (part # "launch" => platform = "deno" /\ ~covering)
Next ==
    \/ part = "tickets" /\ TkNext /\ UNCHANGED <<pageVars, sVars, lVars, part>>
    \/ part = "page" /\ PgNext /\ UNCHANGED <<tVars, sVars, lVars, part>>
    \/ part = "schedule" /\ ScNext /\ UNCHANGED <<tVars, pageVars, lVars, part>>
    \/ part = "launch" /\ LNext /\ UNCHANGED <<tVars, pageVars, sVars, part>>
Spec == Init /\ [][Next]_<<tVars, pageVars, sVars, lVars, part>> /\ ScFair /\ LFair

\* Every wait ends: an answer a handler gave goes out, whatever the scheduler was doing, and a
\* launcher that starts ends.
EveryWaitEnds == EveryAnswerGoesOut /\ LauncherEnds
=============================================================================
