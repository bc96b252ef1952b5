----------------------------- MODULE HandleSpace -----------------------------
(***************************************************************************)
(* What a program may rely on about handles, whichever host serves it: a     *)
(* handle is given a meaning once, keeps it until it loses it for good.      *)
(***************************************************************************)
EXTENDS Integers

CONSTANTS Handle, Resources, Nothing
VARIABLES names, spent

Init == names = [h \in Handle |-> Nothing] /\ spent = {}

\* Handles that never had a meaning come to name what a call made.
Issue ==
    /\ DOMAIN names' = Handle
    /\ \A h \in Handle :
         names'[h] # names[h] => names[h] = Nothing /\ h \notin spent /\ names'[h] \in Resources
    /\ UNCHANGED spent
Retire(h) ==
    /\ names[h] # Nothing
    /\ names' = [names EXCEPT ![h] = Nothing]
    /\ spent' = spent \cup {h}

Next == Issue \/ \E h \in Handle : Retire(h)

Spec == Init /\ [][Next]_<<names, spent>>
=============================================================================
