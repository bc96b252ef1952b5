----------------------------- MODULE ChildLife -----------------------------
(***************************************************************************)
(* packages/platform/host/childLife.ts: what may happen to a spawned child  *)
(* between its birth and its being gone, as step sees it: five events, in   *)
(* any order and any number of times.  It is the promise SpawnChild keeps.  *)
(***************************************************************************)
EXTENDS Integers

VARIABLES
    started,    \* "ready" has been seen
    loaded,     \* what the loaded promise holds: "unsettled", "" or a reason
    exited,     \* what the exit promise holds: "none", or a code
    shutDown    \* the streams have ended and the responder has stopped

life == <<started, loaded, exited, shutDown>>

Reasons == {"failed to load", "late", "killed early"}
Codes == {"0", "-1"}

Newborn ==
    started = FALSE /\ loaded = "unsettled" /\ exited = "none" /\ shutDown = FALSE

\* A promise settles once: a second settle changes nothing.
Settle(held, value, unsettled) == IF held = unsettled THEN value ELSE held

\* finish, after loaded has been settled by the event itself.
Finish(code) ==
    /\ shutDown' = (shutDown \/ exited = "none")
    /\ exited' = Settle(exited, code, "none")

Ready ==
    /\ loaded' = Settle(loaded, "", "unsettled")
    /\ started' = TRUE
    /\ UNCHANGED <<exited, shutDown>>

Result(code) ==
    /\ loaded' = Settle(loaded, "", "unsettled")
    /\ started' = TRUE
    /\ Finish(code)

Error ==
    /\ loaded' = Settle(loaded, "failed to load", "unsettled")
    /\ UNCHANGED started
    /\ Finish("-1")

Grace ==
    /\ loaded' = IF started THEN loaded ELSE Settle(loaded, "late", "unsettled")
    /\ UNCHANGED <<started, exited, shutDown>>

Kill ==
    /\ loaded' = IF exited = "none"
                 THEN Settle(loaded, IF started THEN "" ELSE "killed early", "unsettled")
                 ELSE loaded
    /\ UNCHANGED started
    /\ Finish("-1")

Next == Ready \/ (\E code \in Codes : Result(code)) \/ Error \/ Grace \/ Kill
Spec == Newborn /\ [][Next]_life

-----------------------------------------------------------------------------
(* What must hold in every ordering *)

\* A child that is gone has ended its streams and answered its load question:
\* nobody is left waiting for bytes, or for a verdict, that cannot come.
GoneIsSettled == exited # "none" => shutDown /\ loaded # "unsettled"
=============================================================================
