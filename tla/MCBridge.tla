------------------------------ MODULE MCBridge ------------------------------
(* Instances of the bridge for TLC: what the program's calls look like. *)
EXTENDS Bridge

Shape(pieces, o, len, st) == [pieces |-> pieces, op |-> o, len |-> len, status |-> st]

\* A request of two pieces and an answer of three units, which is a pooled piece
\* and a tail or, with the pool dry, three inline pieces; and an opcode nobody serves.
CallShapes == { Shape(2, "cap", 3, "OK"), Shape(1, "nocap", 0, "OK") }
\* A request as large, of a capability whose failure takes a pooled piece or two inline ones to say.
StopShapes == { Shape(2, "cap", 2, "ERR") }
SmallShapes == { Shape(1, "cap", 1, "OK") }
=============================================================================
