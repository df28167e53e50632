----------------------------- MODULE SpecDecode -----------------------------
(***************************************************************************)
(* Speculative decoding with a model that keeps a KV cache of its own:     *)
(* QaicDraftModelProposer ("draft_model"), which decodes K tokens one by   *)
(* one after every verified step, and QaicDFlashProposer ("dflash"), which *)
(* drafts a block of K + 1 from the hidden states of the target.  A step   *)
(* is what the engine does between two schedules, synchronously: the       *)
(* target runs prefill chunks and verifies drafts, sample_tokens() commits *)
(* the accepted tokens and the proposer moves its cache along.             *)
(*                                                                         *)
(* Tokens are abstracted to what the caches need to know: kv[r] holds the  *)
(* positions whose entry in the cache of the proposer was computed for the *)
(* token (or target state) that the sequence of r has at that position.    *)
(***************************************************************************)
EXTENDS Integers, FiniteSets, FiniteSetsExt

CONSTANTS
  Reqs,       \* batch rows, e.g. {r1, r2}
  Methods,    \* subset of {"draft_model", "dflash"}
  K,          \* num_speculative_tokens
  Prompts,    \* lengths of prompts
  Chunks,     \* lengths of a prefill chunk that is not the last one
  MaxLen,     \* max_model_len
  DrafterMax  \* effective_drafter_max_model_len

ASSUME SpecMethodsAssumption == Methods \subseteq {"draft_model", "dflash"}
ASSUME SpecNumbersAssumption ==
  /\ {K, MaxLen, DrafterMax} \subseteq Nat \ {0}
  /\ Prompts \subseteq 1 .. MaxLen - 1 /\ Chunks \subseteq Nat \ {0}

VARIABLES
  method,
  stage,    \* stage[r]: "out", "prefill", "decode"
  prompt,   \* num_prompt_tokens
  computed, \* num_computed_tokens
  n,        \* num_tokens_no_spec: committed tokens
  drafts,   \* number of tokens proposed for the next step
  kv,
  counter,  \* position_counter of DFlash
  spoiled   \* history: the proposer has lost track of r, and why is known

vars == <<method, stage, prompt, computed, n, drafts, kv, counter, spoiled>>

All(x) == [r \in Reqs |-> x]

Init ==
  /\ method \in Methods
  /\ stage = All("out") /\ prompt = All(0) /\ computed = All(0) /\ n = All(0)
  /\ drafts = All(0) /\ kv = All({}) /\ counter = All(0)
  /\ spoiled = All(FALSE)

Batch == {r \in Reqs : stage[r] # "out"}

(* A request gets a row and a KV slot whose entries are somebody else's.   *)
Admit(r, p) ==
  /\ stage[r] = "out"
  /\ stage' = [stage EXCEPT ![r] = "prefill"]
  /\ prompt' = [prompt EXCEPT ![r] = p] /\ n' = [n EXCEPT ![r] = p]
  /\ computed' = [computed EXCEPT ![r] = 0]
  /\ drafts' = [drafts EXCEPT ![r] = 0] /\ kv' = [kv EXCEPT ![r] = {}]
  /\ counter' = [counter EXCEPT ![r] = 0]
  /\ spoiled' = [spoiled EXCEPT ![r] = FALSE]
  /\ UNCHANGED method

(* The client has enough or the length limit is reached.                   *)
Leave(r) ==
  /\ stage[r] = "decode"
  /\ stage' = [stage EXCEPT ![r] = "out"]
  /\ UNCHANGED <<method, prompt, computed, n, drafts, kv, counter, spoiled>>

-----------------------------------------------------------------------------
(***************************************************************************)
(* What the scheduler may give r: a chunk of its prompt, or the token to   *)
(* verify with as many of the drafts as still fit; acc of them are         *)
(* accepted.                                                               *)
(***************************************************************************)
Work(r) ==
  IF stage[r] = "prefill"
  THEN LET left == prompt[r] - computed[r]
       IN {<<take, 0>> : take \in {left} \cup {c \in Chunks : c < left}}
  ELSE {<<1 + m, acc>> : m \in {d \in 0 .. drafts[r] : n[r] + d < MaxLen},
                         acc \in 0 .. K}

Legal(w) == \A r \in Batch : stage[r] = "decode" => w[r][2] < w[r][1]

(* Tokens sampled for r: none before the last chunk of its prompt.         *)
Sampled(r, w) ==
  IF stage[r] = "decode" THEN w[r][2] + 1
  ELSE IF computed[r] + w[r][1] = prompt[r] THEN 1 ELSE 0

(***************************************************************************)
(* The gate of sample_tokens(), for the whole batch: the longest sequence  *)
(* of the step, drafts included, has K tokens left in the drafter.         *)
(***************************************************************************)
SlipGateWithoutDrafts(w) == \A r \in Batch : computed[r] + 1 + K <= DrafterMax

GateOpen(w) == \A r \in Batch : computed[r] + w[r][1] + K <= DrafterMax

-----------------------------------------------------------------------------
(* The draft model.                                                        *)

(* Drafts of the last loop were decoded at n .. n + K - 2 and stay valid   *)
(* as far as they were accepted.                                           *)
Survives(r, w) ==
  kv[r] \cup (IF drafts[r] > 0 THEN n[r] .. Min({n[r] + w[r][2], n[r] + K - 1}) - 1
              ELSE {})

(* Step 1 of propose(): the first committed token of a request triggers    *)
(* the prefill of its whole prompt.                                        *)
DraftPrefill(r, n1) == IF n1 = prompt[r] + 1 THEN 0 .. prompt[r] - 1 ELSE {}

(* When all K drafts were accepted the last of them was never decoded.     *)
SlipNoCatchUp(r, w, n1) == {}

CatchUp(r, w, n1) == IF Sampled(r, w) = K + 1 THEN {n1 - 2} ELSE {}

(* Step 2: the loop decodes every row of the batch K times from its last   *)
(* committed token on; rows that are still in prefill get garbage from the *)
(* last position of the prompt on.                                         *)
Decoded(r, w, n1) ==
  LET known == Survives(r, w) \cup DraftPrefill(r, n1) \cup CatchUp(r, w, n1)
      behind == {p \in known : p < n1 - 1}
  IN IF n1 > prompt[r] THEN behind \cup {n1 - 1} ELSE behind

DraftModelStep(w, n1) ==
  /\ UNCHANGED counter
  /\ IF GateOpen(w) /\ \E r \in Batch : n1[r] > prompt[r]
     THEN /\ kv' = [r \in Reqs |-> IF r \in Batch THEN Decoded(r, w, n1[r]) ELSE kv[r]]
          /\ drafts' = [r \in Reqs |-> IF r \in Batch /\ n1[r] > prompt[r] THEN K ELSE 0]
     ELSE /\ kv' = [r \in Reqs |-> IF r \in Batch THEN Survives(r, w) ELSE kv[r]]
          /\ drafts' = All(0)

-----------------------------------------------------------------------------
(* DFlash.                                                                 *)

(***************************************************************************)
(* prefill_step(): the sub-blocks of the chunk write the target states of  *)
(* their positions.  A chunk that is not the last one pads its last        *)
(* sub-block with position -1 for the target, but with -1 + (K + 1) for    *)
(* the block itself.                                                       *)
(***************************************************************************)
Block == K + 1

PrefillStep(r, w) ==
  LET to == computed[r] + w[r][1]
      written == kv[r] \cup (computed[r] .. to - 1)
  IN IF to < prompt[r] /\ w[r][1] % Block # 0 THEN written \ {Block - 1}
     ELSE written

LastComputed(r, w) == computed[r] + w[r][1] - 1

(***************************************************************************)
(* propose() for a row with sampled tokens.  The candidates of the last    *)
(* chunk are served in the step that computed them, without a forward      *)
(* pass.  Every other row passes the target states of this step at the     *)
(* positions after the counter; they are the right ones when the row was   *)
(* verified in this step and the counter is at the last position the       *)
(* target had computed before.  With a closed gate the same is done for    *)
(* every row (commit=False), and the drafts are thrown away.               *)
(***************************************************************************)
Served(w, fresh) == fresh /\ GateOpen(w)

Moved(r, w, from, before) ==
  LET to == from + Sampled(r, w)
      behind == {p \in before : p <= from}
  IN IF stage[r] = "decode" /\ from = n[r] - 2
     THEN behind \cup (from + 1 .. to) ELSE behind

SlipFrozenCounter(r, w, from) == IF GateOpen(w) THEN from + Sampled(r, w) ELSE from

Advanced(r, w, from) == from + Sampled(r, w)

DFlashStep(w, n1) ==
  LET chunk(r)  == stage[r] = "prefill"
      last(r)   == chunk(r) /\ n1[r] > prompt[r]
      before(r) == IF chunk(r) THEN PrefillStep(r, w) ELSE kv[r]
      from(r)   == IF chunk(r) THEN LastComputed(r, w) ELSE counter[r]
      moves(r)  == r \in Batch /\ n1[r] > prompt[r] /\ ~Served(w, last(r))
  IN /\ kv' = [r \in Reqs |-> IF r \notin Batch THEN kv[r]
                              ELSE IF moves(r) THEN Moved(r, w, from(r), before(r))
                              ELSE before(r)]
     /\ counter' = [r \in Reqs |-> IF r \notin Batch THEN counter[r]
                                   ELSE IF moves(r) THEN Advanced(r, w, from(r))
                                   ELSE from(r)]
     /\ drafts' = [r \in Reqs |->
                     IF r \in Batch /\ n1[r] > prompt[r] /\ GateOpen(w) THEN K ELSE 0]

-----------------------------------------------------------------------------
(***************************************************************************)
(* What makes a proposer lose track, as far as the code is known to: the   *)
(* draft model is not run at all while the gate is closed; DFlash moves    *)
(* its counter past the prompt when the gate is closed in the step of the  *)
(* last chunk, and a ragged chunk overwrites position K.                   *)
(***************************************************************************)
Loses(r, w, n1) ==
  \/ method = "draft_model" /\ ~GateOpen(w) /\ n1 > prompt[r]
  \/ method = "dflash" /\ ~GateOpen(w) /\ stage[r] = "prefill" /\ n1 > prompt[r]
  \/ /\ method = "dflash" /\ stage[r] = "prefill" /\ n1 = prompt[r]
     /\ w[r][1] % Block # 0 /\ computed[r] + w[r][1] >= Block

Step(w) ==
  LET n1 == [r \in Reqs |-> IF r \in Batch THEN n[r] + Sampled(r, w) ELSE n[r]] IN
  /\ Batch # {} /\ Legal(w)
  /\ n' = n1
  /\ computed' = [r \in Reqs |->
                    IF r \notin Batch THEN computed[r]
                    ELSE IF stage[r] = "prefill" THEN computed[r] + w[r][1]
                    ELSE n1[r] - 1]
  /\ stage' = [r \in Reqs |-> IF r \in Batch /\ n1[r] > prompt[r] THEN "decode"
                              ELSE stage[r]]
  /\ \/ method = "draft_model" /\ DraftModelStep(w, n1)
     \/ method = "dflash" /\ DFlashStep(w, n1)
  /\ spoiled' = [r \in Reqs |-> spoiled[r] \/ (r \in Batch /\ Loses(r, w, n1[r]))]
  /\ UNCHANGED <<method, prompt>>

Proceed ==
  /\ \A r \in Batch : stage[r] = "decode" => n[r] < MaxLen
  /\ \E w \in {f \in [Batch -> UNION {Work(r) : r \in Batch}] :
                 \A r \in Batch : f[r] \in Work(r)} : Step(w)

Next == \/ \E r \in Reqs : Leave(r) \/ \E p \in Prompts : Admit(r, p)
        \/ Proceed

Spec == Init /\ [][Next]_vars

-----------------------------------------------------------------------------
(* Every variable has its type; no sequence outgrows max_model_len.        *)
TypeOK ==
  /\ method \in Methods /\ stage \in [Reqs -> {"out", "prefill", "decode"}]
  /\ prompt \in [Reqs -> Prompts \cup {0}]
  /\ computed \in [Reqs -> 0 .. MaxLen] /\ n \in [Reqs -> 0 .. MaxLen]
  /\ drafts \in [Reqs -> 0 .. K] /\ kv \in [Reqs -> SUBSET (0 .. MaxLen)]
  /\ counter \in [Reqs -> 0 .. MaxLen + 1]
  /\ spoiled \in [Reqs -> BOOLEAN]

Complete(r) ==
  0 .. n[r] - (IF method = "draft_model" THEN 1 ELSE 2) \subseteq kv[r]

(***************************************************************************)
(* "First-step invariant": whenever drafts are proposed, the cache of the  *)
(* proposer holds the sequence up to the token it drafts from, through     *)
(* partial acceptance, batches that mix prefill and decode, steps with a   *)
(* closed gate and slots used before -- unless the proposer is one of the  *)
(* known cases of Loses.                                                   *)
(***************************************************************************)
DraftContext ==
  \A r \in Batch : drafts[r] > 0 /\ ~spoiled[r] => Complete(r)

(* The counter of DFlash is the last position the target has computed,     *)
(* whether the drafts of the step were served, verified or thrown away.    *)
CounterTracks ==
  method = "dflash" =>
    \A r \in Batch : stage[r] = "decode" /\ ~spoiled[r] => counter[r] = n[r] - 2

(* The loop of the draft model stays inside its context: the gate counts   *)
(* the drafts that the step verified, accepted or not.                     *)
DraftRowsInContext ==
  method = "draft_model" =>
    \A r \in Batch : drafts[r] > 0 => n[r] + K - 2 < DrafterMax

(***************************************************************************)
(* "so the DLM KV (and position_counter) keeps tracking the TLM instead of *)
(* freezing": CounterTracks without an exception.                          *)
(***************************************************************************)
KeepsTracking ==
  method = "dflash" =>
    \A r \in Batch : stage[r] = "decode" => counter[r] = n[r] - 2
=============================================================================
