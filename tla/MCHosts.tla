------------------------------- MODULE MCHosts -------------------------------
(* The three worlds: their handles, their files, or a family of them.  The part *)
(* is chosen in the initial state; the others stay where they began.            *)
EXTENDS Handles, Files, Family
VARIABLE part
TwoPaths == {"a", "b"}
all == <<hVars, fVars, kVars, part>>
Init ==
    /\ part \in {"handles", "files", "family"}
    /\ HInit /\ (part # "handles" => host = "deno" /\ net)
    /\ FInit /\ (part # "files" => world = "deno" /\ grants = {})
    /\ KInit /\ (part # "family" => kin = "deno" /\ family[1].grants = {} /\ family[1].option = 1)
Next ==
    \/ part = "handles" /\ HNext /\ UNCHANGED <<fVars, kVars, part>>
    \/ part = "files" /\ FNext /\ UNCHANGED <<hVars, kVars, part>>
    \/ part = "family" /\ KNext /\ UNCHANGED <<hVars, fVars, part>>
Spec == Init /\ [][Next]_all /\ HFair
=============================================================================
