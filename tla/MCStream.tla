------------------------------ MODULE MCStream ------------------------------
(* The instances of Stream that TLC checks; all its constants are numbers. *)
EXTENDS Stream
=============================================================================
