---------------------------- MODULE MCKVTransfer ----------------------------
(* Instances of KVTransfer for TLC.                                        *)
EXTENDS KVTransfer, TLC

CONSTANTS r1, r2, r3

OwnKeys  == [r \in Reqs |-> r]                       \* unique handoff ids
SameKeys == [r \in Reqs |-> IF r = r2 THEN r1 ELSE r] \* r1 and r2: one prompt

BlockSymmetry == Permutations(PBlocks) \cup Permutations(CBlocks)
=============================================================================
