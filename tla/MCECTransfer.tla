---------------------------- MODULE MCECTransfer ----------------------------
(* Constants of the model-checked instances of ECTransfer.                 *)
EXTENDS ECTransfer, TLC

CONSTANTS r1, r2, r3, r4, h1, h2, h3

(* Four requests, the fourth with the image of the first.                  *)
Images == (r1 :> h1) @@ (r2 :> h2) @@ (r3 :> h3) @@ (r4 :> h1)
=============================================================================
