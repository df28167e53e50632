-------------------------- MODULE RejectionSampler --------------------------
(* The rejection sampler of speculative decoding on the host: the kernels  *)
(* of numba_rejection_kernels.py over flat arrays (tokens of all rows one  *)
(* after the other, cu[r] the end of row r; one output row of max_spec_len *)
(* + 1 slots per request) and their launchers.  A batch b is a record of   *)
(* the arrays; arrays are functions from 0.  Probabilities are small       *)
(* integers and the ratio test is exact: rounding is not modelled.         *)
EXTENDS Integers, Sequences, FiniteSetsExt, SequencesExt

CONSTANTS
  ScoreLanes,   \* _LANES: width of a block of the vectorised reductions
  Absent,       \* an optional array that was not given
  Placeholder,  \* what an output slot holds before a kernel writes it
  Raised        \* a launcher refused its arguments

ASSUME LanesAssumption == ScoreLanes \in Nat \ {0}

NoScore == -1
Rows(cu) == 0..Cardinality(DOMAIN cu) - 1
Start(cu, req) == IF req = 0 THEN 0 ELSE cu[req - 1]
Drafted(cu, req) == cu[req] - Start(cu, req)
-----------------------------------------------------------------------------
Expand(out, x, cu, from, to) ==
  LET Filled(i) == {req \in Rows(cu) : Start(cu, req) <= i /\ i < cu[req]}
      Value(req) == IF x[req] = from THEN to ELSE x[req]
  IN [i \in DOMAIN out |-> IF Filled(i) = {} THEN out[i] ELSE Value(Max(Filled(i)))]

\* The loop both row kernels share: write a token per position until one is
\* rejected, the bonus token only behind a row without a rejection.  row: for
\* each draft of the request, whether it is accepted and the token to write.
EmitRow(out, req, b, row) ==
  LET n == Drafted(b.cu, req)
      base == req * (b.max_spec_len + 1)
      emit[pos \in 0..n] ==
        IF pos = 0 THEN [out |-> out, rejected |-> FALSE]
        ELSE IF emit[pos - 1].rejected THEN emit[pos - 1]
        ELSE [out |-> [emit[pos - 1].out EXCEPT ![base + pos - 1] = row[pos - 1].token],
              rejected |-> ~row[pos - 1].accepted]
  IN IF emit[n].rejected THEN emit[n].out
     ELSE [emit[n].out EXCEPT ![base + n] = b.bonus[req]]

\* The loop over the requests, which skips some of them.
EmitRows(out, b, skipped, row) ==
  LET n == Cardinality(DOMAIN b.cu)
      emitted[i \in 0..n] ==
        IF i = 0 THEN out
        ELSE IF skipped[i - 1] THEN emitted[i - 1]
        ELSE EmitRow(emitted[i - 1], i - 1, b, row[i - 1])
  IN emitted[n]

GreedyRow(b, req) ==
  LET At(pos) == Start(b.cu, req) + pos
      Accepted(pos) == IF b.synthetic THEN b.uniform[At(pos)] < b.rates[pos]
                       ELSE b.draft[At(pos)] = b.argmax[At(pos)]
  IN [pos \in 0..Drafted(b.cu, req) - 1 |->
        [accepted |-> Accepted(pos),
         token |-> IF b.synthetic /\ Accepted(pos)
                   THEN b.draft[At(pos)] ELSE b.argmax[At(pos)]]]

Greedy(out, b, has_mask) ==
  EmitRows(out, b, [req \in Rows(b.cu) |-> has_mask /\ ~b.is_greedy[req]],
           [req \in Rows(b.cu) |-> GreedyRow(b, req)])

\* LaunchGreedy: refuses a synthetic run without its arrays.
GreedyRefused(b) == b.synthetic /\ (b.uniform = Absent \/ b.rates = Absent)
-----------------------------------------------------------------------------
\* Slip: no test for a draft the drafter itself gave no probability.
RandomRowSlip(b, req, recovered) ==
  LET At(pos) == Start(b.cu, req) + pos
      Accepted(pos) ==
        LET tok == At(pos)
            d == b.draft[tok]
        IN IF b.synthetic THEN b.uniform[tok] < b.rates[pos]
           ELSE IF b.no_draft_probs
           THEN b.target_probs[tok][d] >= b.uniform[tok]
           ELSE b.target_probs[tok][d]
                  >= b.uniform[tok] * b.draft_probs[tok][d]
  IN [pos \in 0..Drafted(b.cu, req) - 1 |->
        [accepted |-> Accepted(pos),
         token |-> IF Accepted(pos) THEN b.draft[At(pos)] ELSE recovered[At(pos)]]]

RandomRow(b, req, recovered) ==
  LET At(pos) == Start(b.cu, req) + pos
      Accepted(pos) ==
        LET tok == At(pos)
            d == b.draft[tok]
        IN IF b.synthetic THEN b.uniform[tok] < b.rates[pos]
           ELSE IF b.no_draft_probs
           THEN b.target_probs[tok][d] >= b.uniform[tok]
           ELSE /\ b.draft_probs[tok][d] > 0
                /\ b.target_probs[tok][d]
                     >= b.uniform[tok] * b.draft_probs[tok][d]
  IN [pos \in 0..Drafted(b.cu, req) - 1 |->
        [accepted |-> Accepted(pos),
         token |-> IF Accepted(pos) THEN b.draft[At(pos)] ELSE recovered[At(pos)]]]

Random(out, b, recovered) ==
  EmitRows(out, b, b.is_greedy, [req \in Rows(b.cu) |-> RandomRow(b, req, recovered)])

RandomRefused(b) ==
  \/ b.synthetic /\ b.rates = Absent
  \/ ~b.no_draft_probs /\ b.draft_probs = Absent
-----------------------------------------------------------------------------
\* The scores whose first maximum replaces a rejected draft: the target
\* distribution with the draft's column zeroed, or what it has above the
\* draft distribution; both scaled by the request's row of inverse noise.
MaskedScore(t, q, d) == [v \in DOMAIN t |-> (IF v = d THEN 0 ELSE t[v]) * q[v]]
ClampedScore(t, d, q) == [v \in DOMAIN t |-> Max({t[v] - d[v], 0}) * q[v]]

\* A running maximum over a sequence, from base.
Running(base, s) ==
  LET best[i \in 0..Len(s)] == IF i = 0 THEN base ELSE Max({best[i - 1], s[i]})
  IN best[Len(s)]

\* Maximum by blocks of ScoreLanes running maxima, then the tail.
MaxScore(score) ==
  LET n == Cardinality(DOMAIN score)
      nb == n \div ScoreLanes
      acc == [j \in 1..ScoreLanes |->
               Running(score[j - 1], [i \in 1..nb - 1 |-> score[i * ScoreLanes + j - 1]])]
      best == IF nb = 0 THEN NoScore ELSE Running(NoScore, acc)
  IN Running(best, [i \in 1..n - nb * ScoreLanes |-> score[nb * ScoreLanes + i - 1]])

\* First index that holds the maximum: the first block with a hit, its first
\* lane with one, else the tail, else -1.
FindScore(score, target) ==
  LET n == Cardinality(DOMAIN score)
      nb == n \div ScoreLanes
      Hits(i) == {j \in 0..ScoreLanes - 1 : score[i * ScoreLanes + j] = target}
      blocks == {i \in 0..nb - 1 : Hits(i) # {}}
      tail == {v \in nb * ScoreLanes..n - 1 : score[v] = target}
  IN CASE blocks # {} -> Min(blocks) * ScoreLanes + Min(Hits(Min(blocks)))
       [] blocks = {} /\ tail # {} -> Min(tail)
       [] OTHER -> -1

RecoveredToken(b, tok, req) ==
  LET score == IF b.no_draft_probs
               THEN MaskedScore(b.target_probs[tok], b.inv_q[req], b.draft[tok])
               ELSE ClampedScore(b.target_probs[tok], b.draft_probs[tok],
                                 b.inv_q[req])
  IN Max({FindScore(score, MaxScore(score)), 0})

TokenToReq(cu, tok) == CHOOSE req \in Rows(cu) :
                         Start(cu, req) <= tok /\ tok < cu[req]

Recovered(b) ==
  [tok \in 0..Start(b.cu, Cardinality(DOMAIN b.cu)) - 1
     |-> RecoveredToken(b, tok, TokenToReq(b.cu, tok))]

RecoveredRefused(b) == ~b.no_draft_probs /\ b.draft_probs = Absent
-----------------------------------------------------------------------------
\* The caller: one output array, the greedy kernel unless every row is random,
\* then the recovered tokens and the random kernel unless every row is greedy.
RejectionSample(b) ==
  LET rows == Rows(b.cu)
      fresh == [i \in 0..(b.max_spec_len + 1) * Cardinality(rows) - 1
                  |-> Placeholder]
      all_greedy == \A r \in rows : b.is_greedy[r]
      all_random == \A r \in rows : ~b.is_greedy[r]
      greedy == IF all_random THEN fresh ELSE Greedy(fresh, b, ~all_greedy)
  IN CASE ~all_random /\ GreedyRefused(b) -> Raised
       [] ~all_greedy /\ (RecoveredRefused(b) \/ RandomRefused(b)) -> Raised
       [] OTHER -> IF all_greedy THEN greedy ELSE Random(greedy, b, Recovered(b))
=============================================================================
