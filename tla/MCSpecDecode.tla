---------------------------- MODULE MCSpecDecode ----------------------------
(* Constants of the model-checked instances of SpecDecode.                 *)
EXTENDS SpecDecode, TLC

CONSTANTS r1, r2

RowSymmetry == Permutations({r1, r2})
=============================================================================
