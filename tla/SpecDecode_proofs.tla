--------------------------- MODULE SpecDecode_proofs ---------------------------
(***************************************************************************)
(* Both proposers keep track of the sequences they draft for, for any      *)
(* number of rows, any length of prompts, chunks and drafts, any context   *)
(* length of target and drafter, and every split of a step into accepted   *)
(* and rejected drafts.                                                    *)
(***************************************************************************)
EXTENDS SpecDecode, TLAPS

(***************************************************************************)
(* The inductive invariant.  Where a row stands: a prompt is never         *)
(* computed to its end without a token, and nothing is drafted before.     *)
(***************************************************************************)
Placed(r) ==
  /\ prompt[r] \in 1 .. MaxLen - 1
  /\ stage[r] = "prefill" => /\ n[r] = prompt[r] /\ computed[r] < prompt[r]
                             /\ drafts[r] = 0
  /\ stage[r] = "decode" => prompt[r] < n[r] /\ computed[r] = n[r] - 1

(***************************************************************************)
(* What the proposer knows of a row it has not lost.  The draft model has  *)
(* always drafted for it and decoded its last token; DFlash has the target *)
(* states of all computed positions.  A row DFlash has lost in the step of *)
(* its last chunk stays one position ahead.                                *)
(***************************************************************************)
DraftModelKnows(r) ==
  stage[r] = "decode" /\ ~spoiled[r] => drafts[r] = K /\ 0 .. n[r] - 1 \subseteq kv[r]

DFlashKnows(r) ==
  /\ stage[r] = "prefill" /\ ~spoiled[r] => 0 .. computed[r] - 1 \subseteq kv[r]
  /\ stage[r] = "decode" => counter[r] \in {n[r] - 2, n[r] - 1}
  /\ stage[r] = "decode" /\ ~spoiled[r] => /\ counter[r] = n[r] - 2
                                           /\ 0 .. n[r] - 2 \subseteq kv[r]

Knows(r) == /\ method = "draft_model" => DraftModelKnows(r)
            /\ method = "dflash" => DFlashKnows(r)

SpecInv == /\ TypeOK
           /\ \A r \in Batch : Placed(r) /\ Knows(r)
           /\ DraftRowsInContext

-----------------------------------------------------------------------------
(***************************************************************************)
(* At the start there are no rows.                                         *)
(***************************************************************************)
LEMMA InitSpec == Init => SpecInv
<1> SUFFICES ASSUME Init PROVE SpecInv
  OBVIOUS
<1> USE SpecNumbersAssumption
<1>1. Batch = {}
  BY DEF Init, All, Batch
<1>2. TypeOK
  BY DEF Init, All, TypeOK
<1> QED  BY <1>1, <1>2 DEF SpecInv, DraftRowsInContext

(***************************************************************************)
(* The smaller of two positions.                                           *)
(***************************************************************************)
LEMMA MinOfTwo ==
  ASSUME NEW a \in Int, NEW b \in Int
  PROVE  Min({a, b}) = IF a <= b THEN a ELSE b
<1>1. CASE a <= b
  <2>1. a \in {a, b} /\ \A y \in {a, b} : a =< y
    BY <1>1
  <2>2. ASSUME NEW x \in {a, b}, \A y \in {a, b} : x =< y PROVE x = a
    BY <1>1, <2>2
  <2> QED  BY <1>1, <2>1, <2>2 DEF Min
<1>2. CASE ~(a <= b)
  <2>1. b \in {a, b} /\ \A y \in {a, b} : b =< y
    BY <1>2
  <2>2. ASSUME NEW x \in {a, b}, \A y \in {a, b} : x =< y PROVE x = b
    BY <1>2, <2>2
  <2> QED  BY <1>2, <2>1, <2>2 DEF Min
<1> QED  BY <1>1, <1>2

(***************************************************************************)
(* What a step may do with one row: compute a part of its prompt, or       *)
(* verify m drafts and accept w[r][2] of them.                             *)
(***************************************************************************)
LEMMA WorkOfRow ==
  ASSUME TypeOK, NEW r \in Batch, Placed(r), NEW w, w[r] \in Work(r), Legal(w),
         stage[r] = "decode" => n[r] < MaxLen
  PROVE  /\ stage[r] = "prefill" =>
              /\ w[r][1] \in 1 .. prompt[r] - computed[r]
              /\ Sampled(r, w) = IF computed[r] + w[r][1] = prompt[r] THEN 1 ELSE 0
         /\ stage[r] = "decode" =>
              /\ w[r][1] \in 1 .. K + 1 /\ n[r] + w[r][1] <= MaxLen
              /\ w[r][2] \in 0 .. w[r][1] - 1
              /\ Sampled(r, w) = w[r][2] + 1
<1> USE SpecNumbersAssumption
<1>1. /\ r \in Reqs /\ n[r] \in Nat /\ drafts[r] \in 0 .. K /\ computed[r] \in Nat
      /\ prompt[r] \in Nat
  BY DEF TypeOK, Batch, Placed
<1>2. CASE stage[r] = "prefill"
  <2>1. PICK take \in {prompt[r] - computed[r]} \cup
                      {c \in Chunks : c < prompt[r] - computed[r]} : w[r] = <<take, 0>>
    BY <1>2 DEF Work
  <2>2. take \in 1 .. prompt[r] - computed[r]
    BY <1>1, <1>2, <2>1 DEF Placed
  <2> QED  BY <1>2, <2>1, <2>2 DEF Sampled
<1>3. CASE stage[r] = "decode"
  <2>1. PICK m \in {d \in 0 .. drafts[r] : n[r] + d < MaxLen}, acc \in 0 .. K :
           w[r] = <<1 + m, acc>>
    BY <1>3 DEF Work
  <2>2. w[r][1] = 1 + m /\ w[r][2] = acc
    BY <2>1
  <2>3. acc < 1 + m
    BY <1>3, <2>2 DEF Legal
  <2> QED  BY <1>1, <1>3, <2>2, <2>3 DEF Sampled
<1> QED  BY <1>2, <1>3 DEF Batch

(***************************************************************************)
(* Where a row stands after a step, whatever the proposer does.            *)
(***************************************************************************)
LEMMA RowMoves ==
  ASSUME SpecInv, NEW w, Step(w), NEW r \in Batch, w[r] \in Work(r),
         stage[r] = "decode" => n[r] < MaxLen
  PROVE  /\ n'[r] = n[r] + Sampled(r, w) /\ n'[r] \in 0 .. MaxLen
         /\ computed'[r] \in 0 .. MaxLen
         /\ stage'[r] = (IF n'[r] > prompt[r] THEN "decode" ELSE stage[r])
         /\ stage'[r] = "prefill" =>
              n'[r] = prompt[r] /\ computed'[r] = computed[r] + w[r][1]
                                /\ computed'[r] < prompt[r]
         /\ stage'[r] = "decode" => prompt[r] < n'[r] /\ computed'[r] = n'[r] - 1
         /\ spoiled'[r] = (spoiled[r] \/ Loses(r, w, n'[r]))
<1> USE SpecNumbersAssumption
<1>1. /\ r \in Reqs /\ n[r] \in 0 .. MaxLen /\ computed[r] \in 0 .. MaxLen /\ Placed(r)
      /\ stage[r] \in {"prefill", "decode"} /\ prompt[r] \in 1 .. MaxLen - 1
  BY DEF SpecInv, TypeOK, Batch, Placed
<1>2. /\ stage[r] = "prefill" =>
           /\ w[r][1] \in 1 .. prompt[r] - computed[r]
           /\ Sampled(r, w) = IF computed[r] + w[r][1] = prompt[r] THEN 1 ELSE 0
      /\ stage[r] = "decode" =>
           /\ w[r][1] \in 1 .. K + 1 /\ n[r] + w[r][1] <= MaxLen
           /\ w[r][2] \in 0 .. w[r][1] - 1
           /\ Sampled(r, w) = w[r][2] + 1
  BY <1>1, WorkOfRow DEF SpecInv, Step
<1>3. /\ n'[r] = n[r] + Sampled(r, w)
      /\ computed'[r] = IF stage[r] = "prefill" THEN computed[r] + w[r][1] ELSE n'[r] - 1
      /\ stage'[r] = IF n'[r] > prompt[r] THEN "decode" ELSE stage[r]
      /\ spoiled'[r] = (spoiled[r] \/ Loses(r, w, n'[r]))
  BY <1>1 DEF Step
<1>4. CASE stage[r] = "prefill"
  BY <1>1, <1>2, <1>3, <1>4 DEF Placed
<1>5. CASE stage[r] = "decode"
  BY <1>1, <1>2, <1>3, <1>5 DEF Placed
<1> QED  BY <1>1, <1>3, <1>4, <1>5

-----------------------------------------------------------------------------
(***************************************************************************)
(* The draft model, for one row: what its loop leaves in the cache.        *)
(***************************************************************************)
LEMMA DraftModelRow ==
  ASSUME SpecInv, method = "draft_model", NEW w, Step(w), NEW r \in Batch,
         w[r] \in Work(r), stage[r] = "decode" => n[r] < MaxLen
  PROVE  /\ kv'[r] \in SUBSET (0 .. MaxLen) /\ drafts'[r] \in {0, K}
         /\ stage'[r] = "prefill" => drafts'[r] = 0
         /\ drafts'[r] > 0 => n'[r] + K - 2 < DrafterMax
         /\ stage'[r] = "decode" /\ ~spoiled'[r] =>
              drafts'[r] = K /\ 0 .. n'[r] - 1 \subseteq kv'[r]
<1> USE SpecNumbersAssumption
<1>1. /\ r \in Reqs /\ n[r] \in 0 .. MaxLen /\ computed[r] \in 0 .. MaxLen /\ Placed(r)
      /\ stage[r] \in {"prefill", "decode"} /\ prompt[r] \in 1 .. MaxLen - 1
      /\ kv[r] \in SUBSET (0 .. MaxLen) /\ drafts[r] \in 0 .. K /\ DraftModelKnows(r)
  BY DEF SpecInv, TypeOK, Batch, Placed, Knows
<1>2. /\ stage[r] = "prefill" =>
           /\ w[r][1] \in 1 .. prompt[r] - computed[r]
           /\ Sampled(r, w) = IF computed[r] + w[r][1] = prompt[r] THEN 1 ELSE 0
      /\ stage[r] = "decode" =>
           /\ w[r][1] \in 1 .. K + 1 /\ n[r] + w[r][1] <= MaxLen
           /\ w[r][2] \in 0 .. w[r][1] - 1
           /\ Sampled(r, w) = w[r][2] + 1
  BY <1>1, WorkOfRow DEF SpecInv, Step
<1>3. /\ n'[r] = n[r] + Sampled(r, w) /\ n'[r] \in 0 .. MaxLen
      /\ stage'[r] = (IF n'[r] > prompt[r] THEN "decode" ELSE stage[r])
      /\ stage'[r] = "prefill" => n'[r] = prompt[r]
      /\ stage'[r] = "decode" => prompt[r] < n'[r]
      /\ spoiled'[r] = (spoiled[r] \/ Loses(r, w, n'[r]))
  BY RowMoves
<1>4. DraftModelStep(w, n')
  BY DEF Step
<1>5. stage'[r] = "decode" \/ (stage'[r] = "prefill" /\ stage[r] = "prefill")
  BY <1>1, <1>3
<1> DEFINE accepted == Min({n[r] + w[r][2], n[r] + K - 1})
<1>6. stage[r] = "decode" =>
        accepted = IF w[r][2] <= K - 1 THEN n[r] + w[r][2] ELSE n[r] + K - 1
  <2>1. SUFFICES ASSUME stage[r] = "decode"
                 PROVE  accepted = IF w[r][2] <= K - 1 THEN n[r] + w[r][2] ELSE n[r] + K - 1
    OBVIOUS
  <2>2. n[r] + w[r][2] \in Int /\ n[r] + K - 1 \in Int
    BY <1>1, <1>2, <2>1
  <2> QED  BY <1>1, <1>2, <2>1, <2>2, MinOfTwo
<1>7. /\ kv[r] \subseteq Survives(r, w)
      /\ stage[r] = "prefill" => Survives(r, w) = kv[r]
      /\ stage[r] = "decode" /\ drafts[r] > 0 => Survives(r, w) = kv[r] \cup n[r] .. accepted - 1
      /\ stage[r] = "decode" /\ drafts[r] = 0 => Survives(r, w) = kv[r]
  BY <1>1 DEF Survives, Placed
<1> HIDE DEF accepted
<1>8. Survives(r, w) \subseteq 0 .. MaxLen
  BY <1>1, <1>2, <1>6, <1>7
<1>9. CASE GateOpen(w) /\ \E q \in Batch : n'[q] > prompt[q]
  <2>1. /\ kv'[r] = Decoded(r, w, n'[r])
        /\ drafts'[r] = IF n'[r] > prompt[r] THEN K ELSE 0
    BY <1>1, <1>4, <1>9 DEF DraftModelStep
  <2> DEFINE known == Survives(r, w) \cup DraftPrefill(r, n'[r]) \cup CatchUp(r, w, n'[r])
  <2>2. kv'[r] = IF n'[r] > prompt[r] THEN {p \in known : p < n'[r] - 1} \cup {n'[r] - 1}
                 ELSE {p \in known : p < n'[r] - 1}
    BY <2>1 DEF Decoded
  <2>3. known \subseteq 0 .. MaxLen
    <3>1. DraftPrefill(r, n'[r]) \subseteq 0 .. MaxLen
      BY <1>1 DEF DraftPrefill
    <3>2. CatchUp(r, w, n'[r]) \subseteq 0 .. MaxLen
      BY <1>1, <1>2, <1>3 DEF CatchUp
    <3> QED  BY <1>8, <3>1, <3>2
  <2>4. ASSUME stage'[r] = "decode", ~spoiled'[r] PROVE 0 .. n'[r] - 2 \subseteq known
    <3>1. CASE n'[r] = prompt[r] + 1
      <4>1. DraftPrefill(r, n'[r]) = 0 .. n'[r] - 2
        BY <1>1, <3>1 DEF DraftPrefill
      <4> QED  BY <4>1
    <3>2. CASE n'[r] # prompt[r] + 1
      <4>1. stage[r] = "decode" /\ ~spoiled[r]
        <5>1. stage[r] = "decode"
          BY <1>1, <1>2, <1>3, <2>4, <3>2 DEF Placed
        <5>2. ~spoiled[r]
          BY <1>3, <2>4
        <5> QED  BY <5>1, <5>2
      <4>2. drafts[r] > 0 /\ 0 .. n[r] - 1 \subseteq kv[r]
        BY <1>1, <4>1 DEF DraftModelKnows
      <4>3. Survives(r, w) = kv[r] \cup n[r] .. accepted - 1
        BY <1>7, <4>1, <4>2
      <4>4. CASE w[r][2] <= K - 1
        <5>1. accepted = n'[r] - 1
          BY <1>1, <1>2, <1>3, <1>6, <4>1, <4>4
        <5> QED  BY <1>1, <1>2, <1>3, <4>1, <4>2, <4>3, <5>1
      <4>5. CASE ~(w[r][2] <= K - 1)
        <5>1. w[r][2] = K /\ accepted = n'[r] - 2 /\ Sampled(r, w) = K + 1
          BY <1>1, <1>2, <1>3, <1>6, <4>1, <4>5
        <5>2. CatchUp(r, w, n'[r]) = {n'[r] - 2}
          BY <5>1 DEF CatchUp
        <5> QED  BY <1>1, <1>2, <1>3, <4>1, <4>2, <4>3, <5>1, <5>2
      <4> QED  BY <4>4, <4>5
    <3> QED  BY <3>1, <3>2
  <2> HIDE DEF known
  <2>5. kv'[r] \in SUBSET (0 .. MaxLen)
    <3>1. n'[r] > prompt[r] => n'[r] - 1 \in 0 .. MaxLen
      BY <1>1, <1>3
    <3> QED  BY <2>2, <2>3, <3>1
  <2>6. ASSUME stage'[r] = "decode", ~spoiled'[r] PROVE 0 .. n'[r] - 1 \subseteq kv'[r]
    BY <1>1, <1>3, <2>2, <2>4, <2>6
  <2>7. n'[r] > prompt[r] => n'[r] + K - 2 < DrafterMax
    <3>1. computed[r] + w[r][1] + K <= DrafterMax
      BY <1>9 DEF GateOpen
    <3> QED  BY <1>1, <1>2, <1>3, <3>1 DEF Placed
  <2> QED  BY <1>1, <1>3, <1>5, <2>1, <2>5, <2>6, <2>7
<1>10. CASE ~(GateOpen(w) /\ \E q \in Batch : n'[q] > prompt[q])
  <2>1. kv'[r] = Survives(r, w) /\ drafts'[r] = 0
    BY <1>1, <1>4, <1>10 DEF DraftModelStep, All
  <2>2. stage'[r] = "decode" => spoiled'[r]
    BY <1>3, <1>10 DEF Loses
  <2> QED  BY <1>3, <1>8, <2>1, <2>2
<1> QED  BY <1>9, <1>10

(***************************************************************************)
(* DFlash, for one row: where its counter and its cache are.               *)
(***************************************************************************)
LEMMA DFlashRow ==
  ASSUME SpecInv, method = "dflash", NEW w, Step(w), NEW r \in Batch,
         w[r] \in Work(r), stage[r] = "decode" => n[r] < MaxLen
  PROVE  /\ kv'[r] \in SUBSET (0 .. MaxLen) /\ drafts'[r] \in {0, K}
         /\ counter'[r] \in 0 .. MaxLen + 1
         /\ stage'[r] = "prefill" =>
              /\ drafts'[r] = 0
              /\ ~spoiled'[r] => 0 .. computed'[r] - 1 \subseteq kv'[r]
         /\ stage'[r] = "decode" =>
              /\ counter'[r] \in {n'[r] - 2, n'[r] - 1}
              /\ ~spoiled'[r] => counter'[r] = n'[r] - 2 /\ 0 .. n'[r] - 2 \subseteq kv'[r]
<1> USE SpecNumbersAssumption
<1>1. /\ r \in Reqs /\ n[r] \in 0 .. MaxLen /\ computed[r] \in 0 .. MaxLen /\ Placed(r)
      /\ stage[r] \in {"prefill", "decode"} /\ prompt[r] \in 1 .. MaxLen - 1
      /\ kv[r] \in SUBSET (0 .. MaxLen) /\ DFlashKnows(r)
  BY DEF SpecInv, TypeOK, Batch, Placed, Knows
<1>2. /\ stage[r] = "prefill" =>
           /\ w[r][1] \in 1 .. prompt[r] - computed[r]
           /\ Sampled(r, w) = IF computed[r] + w[r][1] = prompt[r] THEN 1 ELSE 0
      /\ stage[r] = "decode" =>
           /\ w[r][1] \in 1 .. K + 1 /\ n[r] + w[r][1] <= MaxLen
           /\ w[r][2] \in 0 .. w[r][1] - 1
           /\ Sampled(r, w) = w[r][2] + 1
  BY <1>1, WorkOfRow DEF SpecInv, Step
<1>3. /\ n'[r] = n[r] + Sampled(r, w) /\ n'[r] \in 0 .. MaxLen
      /\ stage'[r] = (IF n'[r] > prompt[r] THEN "decode" ELSE stage[r])
      /\ stage'[r] = "prefill" =>
           n'[r] = prompt[r] /\ computed'[r] = computed[r] + w[r][1]
                             /\ computed'[r] < prompt[r]
      /\ stage'[r] = "decode" => prompt[r] < n'[r]
      /\ spoiled'[r] = (spoiled[r] \/ Loses(r, w, n'[r]))
  BY RowMoves
<1>4. DFlashStep(w, n')
  BY DEF Step
<1>5. stage'[r] = "decode" \/ (stage'[r] = "prefill" /\ stage[r] = "prefill")
  BY <1>1, <1>3
<1>6. drafts'[r] = IF n'[r] > prompt[r] /\ GateOpen(w) THEN K ELSE 0
  BY <1>1, <1>4 DEF DFlashStep
<1>7. CASE stage[r] = "prefill"
  <2> DEFINE to == computed[r] + w[r][1]
             fresh == n'[r] > prompt[r]
             before == PrefillStep(r, w)
             moves == fresh /\ ~GateOpen(w)
  <2>1. /\ kv'[r] = IF moves THEN Moved(r, w, to - 1, before) ELSE before
        /\ counter'[r] = IF moves THEN to - 1 + Sampled(r, w) ELSE to - 1
    <3>1. /\ kv'[r] = IF fresh /\ ~Served(w, fresh)
                      THEN Moved(r, w, LastComputed(r, w), before) ELSE before
          /\ counter'[r] = IF fresh /\ ~Served(w, fresh)
                           THEN Advanced(r, w, LastComputed(r, w)) ELSE LastComputed(r, w)
      BY <1>1, <1>4, <1>7 DEF DFlashStep
    <3>2. fresh /\ ~Served(w, fresh) <=> moves
      BY DEF Served
    <3>3. LastComputed(r, w) = to - 1
      BY <1>1, <1>2, <1>7 DEF LastComputed
    <3>4. Advanced(r, w, LastComputed(r, w)) = to - 1 + Sampled(r, w)
      BY <3>3 DEF Advanced
    <3> QED  BY <3>1, <3>2, <3>3, <3>4
  <2>2. before \in SUBSET (0 .. MaxLen)
    BY <1>1, <1>2, <1>7 DEF PrefillStep, Placed
  <2>3. moves => kv'[r] \subseteq before
    BY <1>7, <2>1 DEF Moved
  <2>4. ASSUME stage'[r] = "prefill", ~spoiled'[r] PROVE 0 .. to - 1 \subseteq before
    <3> DEFINE written == kv[r] \cup (computed[r] .. to - 1)
               ragged == w[r][1] % Block # 0
    <3>1. 0 .. to - 1 \subseteq written
      <4>1. ~spoiled[r]
        BY <1>3, <2>4
      <4>2. 0 .. computed[r] - 1 \subseteq kv[r]
        BY <1>1, <1>7, <4>1 DEF DFlashKnows
      <4> QED  BY <1>1, <1>2, <1>7, <4>2
    <3>2. before = IF to < prompt[r] /\ ragged THEN written \ {Block - 1} ELSE written
      BY DEF PrefillStep
    <3>3. ragged => ~(to >= Block)
      BY <1>3, <1>7, <2>4 DEF Loses
    <3> HIDE DEF written, ragged, before
    <3>4. Block \in Nat /\ to \in Nat
      BY <1>1, <1>2, <1>7 DEF Block
    <3> QED  BY <3>1, <3>2, <3>3, <3>4
  <2>5. ASSUME stage'[r] = "decode" PROVE to = prompt[r] /\ n'[r] = prompt[r] + 1 /\ fresh
    BY <1>1, <1>2, <1>3, <1>7, <2>5 DEF Placed
  <2>6. ASSUME stage'[r] = "decode", ~spoiled'[r]
        PROVE  ~moves /\ 0 .. n'[r] - 2 \subseteq before
    <3>1. GateOpen(w) /\ ~spoiled[r]
      BY <1>3, <1>7, <2>5, <2>6 DEF Loses
    <3>2. before = kv[r] \cup (computed[r] .. to - 1)
      BY <2>5, <2>6, <1>1, <1>2 DEF PrefillStep
    <3>3. 0 .. computed[r] - 1 \subseteq kv[r]
      BY <1>1, <1>7, <3>1 DEF DFlashKnows
    <3> QED  BY <1>1, <1>2, <1>7, <2>5, <2>6, <3>1, <3>2, <3>3
  <2>7. stage'[r] = "prefill" => ~moves
    BY <1>1, <1>3
  <2> HIDE DEF before, moves
  <2>8. kv'[r] \in SUBSET (0 .. MaxLen)
    BY <2>1, <2>2, <2>3
  <2>9. counter'[r] \in 0 .. MaxLen + 1
    BY <1>1, <1>2, <1>7, <2>1
  <2>10. stage'[r] = "prefill" =>
           drafts'[r] = 0 /\ (~spoiled'[r] => 0 .. computed'[r] - 1 \subseteq kv'[r])
    BY <1>1, <1>3, <1>6, <2>1, <2>4, <2>7
  <2>11. stage'[r] = "decode" => counter'[r] \in {n'[r] - 2, n'[r] - 1}
    BY <1>1, <1>2, <1>7, <2>1, <2>5
  <2>12. stage'[r] = "decode" /\ ~spoiled'[r] =>
           counter'[r] = n'[r] - 2 /\ 0 .. n'[r] - 2 \subseteq kv'[r]
    BY <1>1, <2>1, <2>5, <2>6
  <2> QED  BY <1>6, <2>8, <2>9, <2>10, <2>11, <2>12
<1>8. CASE stage[r] = "decode"
  <2> DEFINE to == counter[r] + Sampled(r, w)
  <2>1. n'[r] > prompt[r] /\ stage'[r] = "decode"
    BY <1>1, <1>2, <1>3, <1>8 DEF Placed
  <2>2. kv'[r] = Moved(r, w, counter[r], kv[r]) /\ counter'[r] = to
    <3>1. /\ kv'[r] = IF ~Served(w, FALSE) THEN Moved(r, w, counter[r], kv[r]) ELSE kv[r]
          /\ counter'[r] = IF ~Served(w, FALSE) THEN Advanced(r, w, counter[r])
                           ELSE counter[r]
      BY <1>1, <1>4, <1>8, <2>1 DEF DFlashStep
    <3> QED  BY <3>1 DEF Served, Advanced
  <2>3. counter[r] \in {n[r] - 2, n[r] - 1} /\ to \in {n'[r] - 2, n'[r] - 1}
    BY <1>1, <1>2, <1>3, <1>8 DEF DFlashKnows
  <2>4. kv'[r] = IF counter[r] = n[r] - 2
                 THEN {p \in kv[r] : p <= counter[r]} \cup (counter[r] + 1 .. to)
                 ELSE {p \in kv[r] : p <= counter[r]}
    BY <1>8, <2>2 DEF Moved
  <2>5. kv'[r] \in SUBSET (0 .. MaxLen)
    BY <1>1, <1>2, <1>3, <1>8, <2>3, <2>4 DEF Placed
  <2>6. ASSUME ~spoiled'[r] PROVE to = n'[r] - 2 /\ 0 .. n'[r] - 2 \subseteq kv'[r]
    <3>1. counter[r] = n[r] - 2 /\ 0 .. n[r] - 2 \subseteq kv[r]
      BY <1>1, <1>3, <1>8, <2>6 DEF DFlashKnows
    <3>2. to = n'[r] - 2
      BY <1>1, <1>2, <1>3, <1>8, <3>1
    <3> QED  BY <1>1, <1>2, <1>3, <1>8, <2>4, <3>1, <3>2
  <2>7. counter'[r] \in 0 .. MaxLen + 1
    BY <1>1, <1>2, <1>3, <1>8, <2>2, <2>3 DEF Placed
  <2> QED  BY <1>6, <2>1, <2>2, <2>3, <2>5, <2>6, <2>7
<1> QED  BY <1>1, <1>7, <1>8

-----------------------------------------------------------------------------
(***************************************************************************)
(* A step of the engine, over the whole batch.                             *)
(***************************************************************************)
LEMMA ProceedStep == SpecInv /\ Proceed => SpecInv'
<1> SUFFICES ASSUME SpecInv, Proceed PROVE SpecInv'
  OBVIOUS
<1> USE SpecNumbersAssumption
<1>1. /\ TypeOK /\ DraftRowsInContext
      /\ \A r \in Batch : Placed(r) /\ Knows(r)
      /\ \A r \in Reqs : r \in Batch <=> stage[r] \in {"prefill", "decode"}
  BY DEF SpecInv, TypeOK, Batch
<1>2. PICK w \in [Batch -> UNION {Work(r) : r \in Batch}] :
         (\A r \in Batch : w[r] \in Work(r)) /\ Step(w)
  BY DEF Proceed
<1>3. \A r \in Batch : stage[r] = "decode" => n[r] < MaxLen
  BY DEF Proceed
<1>4. method' = method /\ prompt' = prompt
  BY <1>2 DEF Step
<1>5. /\ stage' \in [Reqs -> {"out", "prefill", "decode"}] /\ Batch' = Batch
      /\ \A r \in Reqs : stage[r] = "out" => stage'[r] = "out"
  <2>1. stage' = [r \in Reqs |-> IF r \in Batch /\ n'[r] > prompt[r] THEN "decode"
                                 ELSE stage[r]]
    BY <1>2 DEF Step
  <2> QED  BY <1>1, <2>1 DEF TypeOK, Batch
<1>6. /\ n' \in [Reqs -> 0 .. MaxLen] /\ computed' \in [Reqs -> 0 .. MaxLen]
      /\ spoiled' \in [Reqs -> BOOLEAN]
  <2>1. /\ n' = [r \in Reqs |-> IF r \in Batch THEN n[r] + Sampled(r, w) ELSE n[r]]
        /\ computed' = [r \in Reqs |->
                    IF r \notin Batch THEN computed[r]
                    ELSE IF stage[r] = "prefill" THEN computed[r] + w[r][1]
                    ELSE n'[r] - 1]
        /\ spoiled' = [r \in Reqs |-> spoiled[r] \/ (r \in Batch /\ Loses(r, w, n'[r]))]
    BY <1>2 DEF Step
  <2>2. \A r \in Batch : n'[r] \in 0 .. MaxLen /\ computed'[r] \in 0 .. MaxLen
    BY <1>2, <1>3, RowMoves
  <2>3. \A r \in Reqs \ Batch : n'[r] \in 0 .. MaxLen /\ computed'[r] \in 0 .. MaxLen
    BY <1>1, <2>1 DEF TypeOK
  <2>4. DOMAIN n' = Reqs /\ DOMAIN computed' = Reqs
    BY <2>1
  <2>5. n' \in [Reqs -> 0 .. MaxLen]
    BY <2>1, <2>2, <2>3
  <2>6. computed' \in [Reqs -> 0 .. MaxLen]
    BY <2>1, <2>2, <2>3
  <2>7. spoiled' \in [Reqs -> BOOLEAN]
    BY <1>1, <2>1 DEF TypeOK
  <2> QED  BY <2>5, <2>6, <2>7
<1>7. \A r \in Batch' : Placed(r)' \/ stage'[r] = "prefill"
  <2> SUFFICES ASSUME NEW r \in Batch, stage'[r] # "prefill" PROVE Placed(r)'
    BY <1>5
  <2>1. /\ stage'[r] = "decode" => prompt[r] < n'[r] /\ computed'[r] = n'[r] - 1
    BY <1>2, <1>3, RowMoves
  <2> QED  BY <1>1, <1>4, <2>1 DEF Placed
<1>8. \A r \in Batch' : stage'[r] = "prefill" /\ drafts'[r] = 0 => Placed(r)'
  <2> SUFFICES ASSUME NEW r \in Batch, stage'[r] = "prefill", drafts'[r] = 0
               PROVE  Placed(r)'
    BY <1>5
  <2>1. n'[r] = prompt[r] /\ computed'[r] < prompt[r]
    BY <1>2, <1>3, RowMoves
  <2> QED  BY <1>1, <1>4, <2>1 DEF Placed
<1>9. CASE method = "draft_model"
  <2>1. DraftModelStep(w, n')
    BY <1>2, <1>9 DEF Step
  <2>2. ASSUME NEW r \in Batch
        PROVE  /\ kv'[r] \in SUBSET (0 .. MaxLen) /\ drafts'[r] \in {0, K}
               /\ stage'[r] = "prefill" => drafts'[r] = 0
               /\ drafts'[r] > 0 => n'[r] + K - 2 < DrafterMax
               /\ stage'[r] = "decode" /\ ~spoiled'[r] =>
                    drafts'[r] = K /\ 0 .. n'[r] - 1 \subseteq kv'[r]
    BY <1>2, <1>3, <1>9, <2>2, DraftModelRow
  <2>3. \A r \in Reqs \ Batch : kv'[r] = kv[r] /\ drafts'[r] = 0
    BY <2>1 DEF DraftModelStep, All
  <2>4. /\ kv' = [r \in Reqs |-> kv'[r]] /\ drafts' = [r \in Reqs |-> drafts'[r]]
        /\ counter' = counter
    BY <2>1 DEF DraftModelStep, All
  <2>5. kv' \in [Reqs -> SUBSET (0 .. MaxLen)] /\ drafts' \in [Reqs -> 0 .. K]
    <3>1. \A r \in Reqs : kv'[r] \in SUBSET (0 .. MaxLen) /\ drafts'[r] \in 0 .. K
      BY <1>1, <2>2, <2>3 DEF TypeOK
    <3> QED  BY <2>4, <3>1
  <2>6. TypeOK'
    BY <1>1, <1>4, <1>5, <1>6, <2>4, <2>5 DEF TypeOK
  <2>7. \A r \in Batch' : Placed(r)'
    BY <1>5, <1>7, <1>8, <2>2
  <2>8. \A r \in Batch' : Knows(r)'
    BY <1>4, <1>5, <1>9, <2>2 DEF Knows, DraftModelKnows
  <2>9. DraftRowsInContext'
    BY <1>5, <2>2 DEF DraftRowsInContext
  <2> QED  BY <2>6, <2>7, <2>8, <2>9 DEF SpecInv
<1>10. CASE method = "dflash"
  <2>1. DFlashStep(w, n')
    BY <1>2, <1>10 DEF Step
  <2>2. ASSUME NEW r \in Batch
        PROVE  /\ kv'[r] \in SUBSET (0 .. MaxLen) /\ drafts'[r] \in {0, K}
               /\ counter'[r] \in 0 .. MaxLen + 1
               /\ stage'[r] = "prefill" =>
                    /\ drafts'[r] = 0
                    /\ ~spoiled'[r] => 0 .. computed'[r] - 1 \subseteq kv'[r]
               /\ stage'[r] = "decode" =>
                    /\ counter'[r] \in {n'[r] - 2, n'[r] - 1}
                    /\ ~spoiled'[r] => counter'[r] = n'[r] - 2 /\ 0 .. n'[r] - 2 \subseteq kv'[r]
    BY <1>2, <1>3, <1>10, <2>2, DFlashRow
  <2>3. \A r \in Reqs \ Batch : kv'[r] = kv[r] /\ counter'[r] = counter[r] /\ drafts'[r] = 0
    BY <2>1 DEF DFlashStep
  <2>4. /\ kv' = [r \in Reqs |-> kv'[r]] /\ drafts' = [r \in Reqs |-> drafts'[r]]
        /\ counter' = [r \in Reqs |-> counter'[r]]
    BY <2>1 DEF DFlashStep
  <2>5. /\ kv' \in [Reqs -> SUBSET (0 .. MaxLen)] /\ drafts' \in [Reqs -> 0 .. K]
        /\ counter' \in [Reqs -> 0 .. MaxLen + 1]
    <3>1. \A r \in Reqs : /\ kv'[r] \in SUBSET (0 .. MaxLen) /\ drafts'[r] \in 0 .. K
                          /\ counter'[r] \in 0 .. MaxLen + 1
      BY <1>1, <2>2, <2>3 DEF TypeOK
    <3> QED  BY <2>4, <3>1
  <2>6. TypeOK'
    BY <1>1, <1>4, <1>5, <1>6, <2>5 DEF TypeOK
  <2>7. \A r \in Batch' : Placed(r)'
    BY <1>5, <1>7, <1>8, <2>2
  <2>8. \A r \in Batch' : Knows(r)'
    BY <1>4, <1>5, <1>10, <2>2 DEF Knows, DFlashKnows
  <2>9. DraftRowsInContext'
    BY <1>4, <1>10 DEF DraftRowsInContext
  <2> QED  BY <2>6, <2>7, <2>8, <2>9 DEF SpecInv
<1> QED  BY <1>1, <1>9, <1>10, SpecMethodsAssumption DEF TypeOK

(***************************************************************************)
(* A new row has nothing computed, in the target or in the proposer.       *)
(***************************************************************************)
LEMMA AdmitStep ==
  ASSUME SpecInv, NEW r \in Reqs, NEW p \in Prompts, Admit(r, p)
  PROVE  SpecInv'
<1> USE SpecNumbersAssumption
<1>1. TypeOK /\ DraftRowsInContext /\ \A q \in Batch : Placed(q) /\ Knows(q)
  BY DEF SpecInv
<1>2. /\ Batch' = Batch \cup {r} /\ r \notin Batch
      /\ \A q \in Batch : /\ stage'[q] = stage[q] /\ prompt'[q] = prompt[q] /\ n'[q] = n[q]
                          /\ computed'[q] = computed[q] /\ drafts'[q] = drafts[q]
                          /\ kv'[q] = kv[q] /\ counter'[q] = counter[q]
                          /\ spoiled'[q] = spoiled[q]
      /\ method' = method
  BY <1>1 DEF Admit, Batch, TypeOK
<1>3. /\ stage'[r] = "prefill" /\ prompt'[r] = p /\ n'[r] = p /\ computed'[r] = 0
      /\ drafts'[r] = 0 /\ kv'[r] = {} /\ counter'[r] = 0
  BY <1>1 DEF Admit, TypeOK
<1>4. TypeOK'
  BY <1>1 DEF Admit, TypeOK
<1>5. \A q \in Batch : Placed(q)' /\ Knows(q)'
  BY <1>1, <1>2 DEF Placed, Knows, DraftModelKnows, DFlashKnows
<1>6. Placed(r)' /\ Knows(r)'
  BY <1>3 DEF Placed, Knows, DraftModelKnows, DFlashKnows
<1>7. DraftRowsInContext'
  BY <1>1, <1>2, <1>3 DEF DraftRowsInContext
<1> QED  BY <1>2, <1>4, <1>5, <1>6, <1>7 DEF SpecInv

(***************************************************************************)
(* A row that leaves takes its state with it: the proposer's garbage       *)
(* collection forgets it.                                                  *)
(***************************************************************************)
LEMMA LeaveStep ==
  ASSUME SpecInv, NEW r \in Reqs, Leave(r)
  PROVE  SpecInv'
<1>1. TypeOK /\ DraftRowsInContext /\ \A q \in Batch : Placed(q) /\ Knows(q)
  BY DEF SpecInv
<1>2. /\ Batch' = Batch \ {r} /\ \A q \in Batch' : stage'[q] = stage[q]
      /\ UNCHANGED <<method, prompt, computed, n, drafts, kv, counter, spoiled>>
  BY <1>1 DEF Leave, Batch, TypeOK
<1>3. TypeOK'
  BY <1>1 DEF Leave, TypeOK
<1>4. \A q \in Batch' : Placed(q)' /\ Knows(q)'
  BY <1>1, <1>2 DEF Placed, Knows, DraftModelKnows, DFlashKnows
<1> QED  BY <1>1, <1>2, <1>3, <1>4 DEF SpecInv, DraftRowsInContext

(***************************************************************************)
(* The inductive invariant holds in every state.                           *)
(***************************************************************************)
LEMMA SpecInvariance == Spec => []SpecInv
<1>1. SpecInv /\ [Next]_vars => SpecInv'
  <2> SUFFICES ASSUME SpecInv, [Next]_vars PROVE SpecInv'
    OBVIOUS
  <2>1. CASE \E r \in Reqs : Leave(r)
    BY <2>1, LeaveStep
  <2>2. CASE \E r \in Reqs : \E p \in Prompts : Admit(r, p)
    BY <2>2, AdmitStep
  <2>3. CASE Proceed
    BY <2>3, ProceedStep
  <2>4. CASE UNCHANGED vars
    BY <2>4 DEF vars, SpecInv, TypeOK, DraftRowsInContext, Batch, Placed, Knows,
                DraftModelKnows, DFlashKnows
  <2> QED  BY <2>1, <2>2, <2>3, <2>4 DEF Next
<1> QED  BY InitSpec, <1>1, PTL DEF Spec

-----------------------------------------------------------------------------
(***************************************************************************)
(* Every variable has its type; no sequence outgrows max_model_len.        *)
(***************************************************************************)
THEOREM SpecTypes == Spec => []TypeOK
<1>1. SpecInv => TypeOK
  BY DEF SpecInv
<1> QED  BY SpecInvariance, <1>1, PTL

(***************************************************************************)
(* "First-step invariant": whenever drafts are proposed, the cache of the  *)
(* proposer holds the sequence they continue.                              *)
(***************************************************************************)
THEOREM DraftsHaveContext == Spec => []DraftContext
<1>1. SpecInv => DraftContext
  <2> SUFFICES ASSUME SpecInv, NEW r \in Batch, drafts[r] > 0, ~spoiled[r]
               PROVE  Complete(r)
    BY DEF DraftContext
  <2>1. /\ method \in {"draft_model", "dflash"} /\ stage[r] \in {"prefill", "decode"}
        /\ n[r] \in Nat
    BY SpecMethodsAssumption, SpecNumbersAssumption DEF SpecInv, TypeOK, Batch
  <2>2. stage[r] = "decode"
    BY <2>1 DEF SpecInv, Placed
  <2> QED  BY <2>1, <2>2 DEF SpecInv, Knows, DraftModelKnows, DFlashKnows, Complete
<1> QED  BY SpecInvariance, <1>1, PTL

(***************************************************************************)
(* The position counter of DFlash follows the target through served,       *)
(* verified and discarded drafts.                                          *)
(***************************************************************************)
THEOREM CounterFollowsTarget == Spec => []CounterTracks
<1>1. SpecInv => CounterTracks
  BY DEF SpecInv, Knows, DFlashKnows, CounterTracks
<1> QED  BY SpecInvariance, <1>1, PTL

(***************************************************************************)
(* The loop of the draft model stays inside its context.                   *)
(***************************************************************************)
THEOREM DraftsStayInContext == Spec => []DraftRowsInContext
<1>1. SpecInv => DraftRowsInContext
  BY DEF SpecInv
<1> QED  BY SpecInvariance, <1>1, PTL
=============================================================================
