------------------------------ MODULE MCTickets ------------------------------
(* The instance of Tickets in which a slot is used more often than a packed generation   *)
(* counts.                                                                              *)
EXTENDS Tickets
=============================================================================
