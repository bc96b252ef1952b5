---------------------------- MODULE MCSpawnChild ----------------------------
(* The instances of SpawnChild that TLC checks. *)
EXTENDS SpawnChild
SmallWrites == {1, 2}
=============================================================================
