------------------------------ MODULE MCPl330 -------------------------------
(* A small instance of Pl330: loop counts up to 4 and backward jumps below 16,
   so that 16 bytes fill both loops, 48 the largest unrolling the outer jump can
   span, and 96 would be the first whose jump does not fit its byte. *)
EXTENDS Pl330
BoundarySizes == {0, 1, 3, 4, 5, 15, 16, 17, 49, 95, 96, 99}
=============================================================================
