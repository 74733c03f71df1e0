-------------------------- MODULE MC_SpecialInputs --------------------------
(***************************************************************************)
(* The input domain for SpecialInputs: shapes of rank 0, 1 and 2 with the  *)
(* right and a wrong size, up to two values, the three control signals,    *)
(* an out-of-range control value and the reserved id 0.                    *)
(***************************************************************************)
EXTENDS SpecialInputs

MC_Shapes == {<<>>, <<1>>, <<2>>, <<1, 1>>}
=============================================================================
