---------------------------- MODULE MCMixedServing ----------------------------
(* Three requests on two cache slots: one slot is used twice, prompts take  *)
(* one step or several, and every configuration of the runner is a start.   *)
EXTENDS MixedServing, TLC
CONSTANTS r1, r2, r3
MCRequests == {r1, r2, r3}
MCPromptLen == (r1 :> 1) @@ (r2 :> 2) @@ (r3 :> 2)
MCSymmetry == Permutations({r2, r3})
MCModes == AllModes
===============================================================================
