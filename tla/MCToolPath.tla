----------------------------- MODULE MCToolPath -----------------------------
(* A small instance of ToolPath: three points, two of them on one grid     *)
(* position.                                                               *)
EXTENDS ToolPath

CONSTANTS a, b, c, u, v

ThreePoints == {a, b, c}
TwoPositions == {u, v}
Rounding == [p \in ThreePoints |-> IF p = a THEN u ELSE v]
=============================================================================
