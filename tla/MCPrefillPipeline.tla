-------------------------- MODULE MCPrefillPipeline --------------------------
(***************************************************************************)
(* Small instances of PrefillPipeline for TLC.                             *)
(***************************************************************************)
EXTENDS PrefillPipeline, TLC

\* Two compute-context buckets, as in comp_ctx_lengths_prefill = [2, 4].
TwoBuckets == {2, 4}

\* A prompt the small bucket covers, and one not even the large one covers.
ShortOrLong == {1, 5}

\* The handles of output objects are interchangeable.
HandleSymmetry == Permutations(Batches)
=============================================================================
