----------------------------- MODULE MixedServing -----------------------------
(***************************************************************************)
(* One engine step of QaicModelRunnerAoT outside the prefill pipeline: the *)
(* runner drains the previous asynchronous output, rearranges the batch,   *)
(* pads the decode rows to one kernel width, submits prefills and decodes  *)
(* separately, and samples when the device is done.                        *)
(*                                                                         *)
(* A token is its owner: the right token of request r at any position is   *)
(* r itself.  Pad is the value -1, Junk any other wrong token.  So a cell  *)
(* kv[s][p] = r says that the device executed r's own token at position p, *)
(* and logits are right for r at p when cells 0..p all belong to r.        *)
(*                                                                         *)
(* The scheduler and the input batch's bookkeeping are vLLM's (external):  *)
(* any non-empty set of requests may be scheduled, in any row order.       *)
(***************************************************************************)
EXTENDS Integers, Sequences, FiniteSets, SequencesExt

CONSTANTS
  Requests,     \* e.g. {r1, r2, r3}
  PromptLen,    \* PromptLen[r]: tokens of r's prompt
  MaxLen,       \* max_model_len, positions 0..MaxLen - 1
  K,            \* num_speculative_tokens
  MaxSeqs,      \* max_num_seqs: rows of the decode kernel, cache slots
  Modes,        \* configurations to run, a subset of AllModes
  Pad, Junk, None

\* ngram: decode_ks = [0, K]; draft: decode_ks = [K]; consumer: kv_consumer with
\* decode_ks = [0, K]; async: async scheduling, no speculation; pool: asynchronous
\* pooling model
AllModes == {"ngram", "draft", "consumer", "async", "pool"}

Slots == 1..MaxSeqs
Cells == 0..MaxLen + K - 1

ASSUME RequestsAssumption == IsFiniteSet(Requests) /\ {Pad, Junk, None} \cap Requests = {}
ASSUME TokensAssumption == Cardinality({Pad, Junk, None}) = 3
ASSUME SizesAssumption ==
  /\ {MaxLen, MaxSeqs} \subseteq Nat \ {0} /\ K \in Nat
  /\ PromptLen \in [Requests -> 1..MaxLen - 1]
\* a result is a dictionary of the batch, never None
ASSUME ResultAssumption ==
  \A S \in SUBSET Requests : None \notin [S -> [n : 1..K + 1, ok : BOOLEAN]]
ASSUME ModesAssumption == Modes \subseteq AllModes

VARIABLES
  mode,
  \* the scheduler
  phase,      \* phase[r]: "new", "live", "done"
  slot,       \* slot[r]: its block - 1, 0 = none
  computed,   \* num_computed_tokens, advanced when a step is scheduled
  total,      \* tokens of r, with the placeholders of asynchronous scheduling
  \* the input batch
  rows,       \* req_ids
  table,      \* token_ids_cpu
  prev,       \* prev_sampled_token_ids by the rows of the step that sampled them
  \* the device and the model's decode and encode buffers
  kv,         \* kv[s][p]: owner of the token executed at position p of slot s
  buf,        \* buf[k]: rows of decode_batch_inputs_by_k[k]
  encoded,    \* requests of _encode_merged_inputs, _encode_prefill_cum_sum
  \* the runner and the engine
  state,      \* execute_model_state, None or the record of the step
  pending,    \* _pending_output is the newest output
  due,        \* sample_tokens() has to be called
  outs        \* outputs the engine has not collected, oldest first

scheduler == <<phase, slot, computed, total>>
batch     == <<rows, table, prev>>
device    == <<kv, buf, encoded>>
runner    == <<state, pending, due, outs>>
vars      == <<mode, scheduler, batch, device, runner>>

Async == mode \in {"async", "pool"}
max_decode_tokens == IF Async THEN 1 ELSE K + 1
QueueSize == IF Async THEN 2 ELSE 1
decode_ks == CASE mode \in {"ngram", "consumer"} -> {0, K}
               [] mode = "draft" -> {K}
               [] OTHER -> {0}

Live == {r \in Requests : phase[r] = "live"}
NoRow == [slot |-> 0, entries |-> <<>>]

Init ==
  /\ mode \in Modes
  /\ phase = [r \in Requests |-> "new"]
  /\ slot = [r \in Requests |-> 0]
  /\ computed = [r \in Requests |-> 0]
  /\ total = PromptLen
  /\ rows = <<>> /\ prev = <<>> /\ encoded = <<>>
  /\ table = [r \in Requests |-> [p \in 0..MaxLen - 1 |-> Pad]]
  /\ kv = [s \in Slots |-> [p \in Cells |-> None]]
  /\ buf = [k \in {0, K} |-> [j \in 1..MaxSeqs |-> NoRow]]
  /\ state = None /\ pending = FALSE /\ due = FALSE /\ outs = <<>>

-----------------------------------------------------------------------------
(* Completion: the logits become tokens, and the batch is brought up to date *)
(* A step st keeps, per row, its drafts, how many of them the target agrees  *)
(* with (good), the drafts the sampler is given (draft_ids), the position of *)
(* its first logits row (first) and whether its token is discarded because   *)
(* the prompt is not finished.                                               *)

\* cu_num_sampled_tokens: the rows of logits of the first i rows of the batch.
CuSampled(drafts) ==
  LET cu[i \in 0..Len(drafts)] == IF i = 0 THEN 0 ELSE cu[i - 1] + drafts[i] + 1 IN cu

SlipFixedWidth(st, i) == (i - 1) * (K + 1)
Offset(st, i) == CuSampled(st.drafts)[i - 1]

\* draft_token_indices: the rows of the padded inputs before those of row i + 1,
\* where signal[i] tokens of row i were scheduled.
SlipUnpadded(drafts, signal) == CuSampled(drafts)
CuPadded(drafts, signal) ==
  CuSampled([i \in DOMAIN drafts |-> drafts[i] + max_decode_tokens - signal[i]])

\* draft_token_ids of row i, read from the padded inputs ids behind its first one.
DraftIds(ids, drafts, signal, i) ==
  [j \in 1..drafts[i] |->
     LET at == CuPadded(drafts, signal)[i - 1] + j + 1 IN IF at \in DOMAIN ids THEN ids[at] ELSE Junk]

\* _sample(): row i of the batch takes its drafts and drafts[i] + 1 rows of logits.
Sampled(st, i) ==
  [n  |-> st.good[i] + 1,
   ok |-> /\ \A j \in 1..st.drafts[i] : st.draft_ids[i][j] = IF j <= st.good[i] THEN rows[i] ELSE Junk
          /\ \A j \in 1..st.good[i] + 1 :
               LET at == Offset(st, i) + j
               IN at <= Len(st.logits) /\ st.logits[at] = <<rows[i], st.first[i] + j - 1>>]

\* _process_encode_output(): row i of the encode buffer, for request r of row i.
Pooled(i) == [n |-> 0, ok |-> i <= Len(encoded) /\ encoded[i] = rows[i]]

RowOf(r) == CHOOSE i \in DOMAIN rows : rows[i] = r

Result(st) ==
  [r \in {rows[i] : i \in {j \in DOMAIN rows : ~st.discard[j]}} |-> Sampled(st, RowOf(r))]

\* _pool(): every request of the batch gets its vector.
PoolResult == [r \in Range(rows) |-> Pooled(RowOf(r))]

\* _bookkeeping_sync(): asynchronously the host does not learn the token, the
\* table gets a placeholder and the next step copies it from prev.
Booked(st, res) ==
  [r \in Requests |->
     IF r \notin DOMAIN res THEN table[r]
     ELSE [p \in 0..MaxLen - 1 |->
             IF p \notin st.first[RowOf(r)] + 1..st.first[RowOf(r)] + res[r].n THEN table[r][p]
             ELSE IF Async THEN Pad ELSE IF res[r].ok THEN r ELSE Junk]]

Kept(res) ==
  [i \in DOMAIN rows |-> [req |-> IF rows[i] \in DOMAIN res THEN rows[i] ELSE None,
                          tok |-> IF rows[i] \in DOMAIN res /\ res[rows[i]].ok THEN rows[i] ELSE Junk]]

\* get_output() of a pooling output o, and of a sampling one: what the runner
\* knows afterwards.  A second call returns the cached output.
GetPoolOutput(o) ==
  [o |-> [o EXCEPT !.result = PoolResult], table |-> table, prev |-> prev, state |-> state, pending |-> FALSE]

GetSampleOutput(o) ==
  LET res == Result(o.st)
  IN [o |-> [o EXCEPT !.result = res], table |-> Booked(o.st, res), prev |-> Kept(res),
      state |-> None, pending |-> FALSE]

GetOutput(o) ==
  IF o.result # None
  THEN [o |-> o, table |-> table, prev |-> prev, state |-> state, pending |-> pending]
  ELSE IF mode = "pool" THEN GetPoolOutput(o) ELSE GetSampleOutput(o)

Undrained == [o |-> None, table |-> table, prev |-> prev, state |-> state, pending |-> pending]

SlipDrainLater == Undrained
\* synchronize_input_prep(): the newest output is collected before its batch changes.
Drained == IF Async /\ pending THEN GetOutput(Last(outs)) ELSE Undrained

DrainedOuts(d) == IF Async /\ pending THEN Append(Front(outs), d.o) ELSE outs

-----------------------------------------------------------------------------
(* Preparing a step.  n[r] tokens of r are scheduled, nd[r] of them drafts.  *)

IsPrefill(r) == computed[r] < PromptLen[r]

\* reorder_batch_to_split_decodes_and_prefills(): decodes behind the prefix of
\* their number change places, from the last one on, with the first prefills.
Reordered(order) ==
  LET D == {i \in DOMAIN order : ~IsPrefill(order[i])}
      P == DOMAIN order \ D
      Swaps(d, p) == /\ d \in D /\ p \in P /\ d > Cardinality(D)
                     /\ Cardinality({i \in D : i >= d}) = Cardinality({i \in P : i <= p})
      Places(x) == {y \in DOMAIN order : Swaps(x, y) \/ Swaps(y, x)}
  IN [x \in DOMAIN order |->
        order[IF Places(x) = {} THEN x ELSE CHOOSE y \in Places(x) : TRUE]]

\* _determine_active_k()
ActiveK(num_decodes, nd) ==
  IF Cardinality(decode_ks) <= 1 THEN CHOOSE k \in decode_ks : TRUE
  ELSE IF num_decodes > 0 /\ \E r \in DOMAIN nd : nd[r] > 0 THEN K ELSE 0

\* _num_decode_rows_to_pad(), and how many rows go through the decode kernel.
DecodeRows(num_reqs, num_decodes) == IF mode = "consumer" THEN num_reqs ELSE num_decodes

\* _update_states(): the drafts of this step are in the table, and a request
\* that was not in the last batch brings its tokens along.
Updated(tab, nd, good) ==
  [r \in Requests |->
     IF r \notin DOMAIN nd THEN tab[r]
     ELSE [p \in 0..MaxLen - 1 |->
             IF \E i \in DOMAIN rows : rows[i] = r
             THEN IF p \in total[r]..total[r] + nd[r] - 1
                  THEN IF p < total[r] + good[r] THEN r ELSE Junk
                  ELSE tab[r][p]
             ELSE IF p < total[r] + good[r] THEN r
                  ELSE IF p < total[r] + nd[r] THEN Junk ELSE tab[r][p]]]

\* With SpD the table has K more columns, always -1.
SlipNotEnlarged(tab, r, p) == IF p < MaxLen THEN tab[r][p] ELSE Junk
TokenAt(tab, r, p) == IF p < MaxLen THEN tab[r][p] ELSE Pad

Width(i, num_pad, k, signal) == IF max_decode_tokens > 1 /\ i <= num_pad THEN k + 1 ELSE signal

\* _prepare_input_ids(): the last token of a row the previous step sampled for.
Scattered(prv, r, tok) ==
  IF \E j \in DOMAIN prv : prv[j].req = r
  THEN prv[CHOOSE j \in DOMAIN prv : prv[j].req = r].tok ELSE tok

\* _prepare_qaic_inputs(): the inputs of row i, w tokens from num_computed_tokens on.
Inputs(tab, prv, r, w) ==
  [j \in 1..w |->
     LET p == computed[r] + j - 1
     IN [pos |-> p,
         tok |-> IF j = w THEN Scattered(prv, r, TokenAt(tab, r, p)) ELSE TokenAt(tab, r, p)]]

\* Padding tokens of a decode row get position -1: the device skips them.
Marked(entries) ==
  IF max_decode_tokens > 1
  THEN [j \in DOMAIN entries |-> IF entries[j].tok = Pad THEN [entries[j] EXCEPT !.pos = -1] ELSE entries[j]]
  ELSE entries

-----------------------------------------------------------------------------
(* The device.                                                               *)

\* The cache after a set of rows, each [slot, entries], was executed.
Executed(cache, rws) ==
  [s \in Slots |-> [p \in Cells |->
     LET hits == {e \in UNION {ToSet(w.entries) : w \in {v \in rws : v.slot = s}} : e.pos = p}
     IN IF hits = {} THEN cache[s][p]
        ELSE LET t == (CHOOSE e \in hits : TRUE).tok IN IF t = Pad THEN Junk ELSE t]]

LogitsOf(cache, r, p) ==
  IF p \in Cells /\ \A q \in 0..p : cache[slot[r]][q] = r THEN <<r, p>> ELSE <<Junk, p>>

\* _run_prefill(): the chunks of a row share one row of logits, the last one stays.
PrefillLogits(cache, r, signal) == <<LogitsOf(cache, r, computed[r] + signal - 1)>>

\* _run_decode(): the rows of the buffer of this k beyond the decodes are cleared.
SlipUncleared(row) == row
Cleared(row) == [row EXCEPT !.slot = 0, !.entries = <<>>]

DecodeBuffer(old, rws, inputs, num) ==
  [j \in 1..MaxSeqs |-> IF j <= num THEN [slot |-> slot[rws[j]], entries |-> Marked(inputs[j])]
                        ELSE Cleared(old[j])]

\* _compute_hidden_states_and_logits(): of k + 1 rows the first 1 + drafts stay.
DecodeLogits(cache, r, drafts) == [j \in 1..drafts + 1 |-> LogitsOf(cache, r, computed[r] + j - 1)]

\* _kv_handoff() on a consumer: the transferred cache of a request that just came.
HandedOver(rws) ==
  IF mode # "consumer" THEN kv
  ELSE [s \in Slots |-> [p \in Cells |->
          IF \E i \in DOMAIN rws : slot[rws[i]] = s /\ IsPrefill(rws[i]) /\ p < computed[rws[i]]
          THEN rws[CHOOSE i \in DOMAIN rws : slot[rws[i]] = s] ELSE kv[s][p]]]

-----------------------------------------------------------------------------
(* The steps.                                                                *)

Arrive(r) ==
  /\ phase[r] = "new"
  /\ \E s \in {Min({t \in Slots : \A q \in Live : slot[q] # t} \cup {MaxSeqs + 1})} \cap Slots,
        rest \in IF \E q \in Requests : phase[q] = "done" THEN {Pad, Junk} ELSE {Pad} :
       /\ slot' = [slot EXCEPT ![r] = s]
       /\ table' = [table EXCEPT ![r] = [p \in 0..MaxLen - 1 |-> IF p < PromptLen[r] THEN r ELSE rest]]
  /\ phase' = [phase EXCEPT ![r] = "live"]
  /\ computed' = [computed EXCEPT ![r] = IF mode = "consumer" THEN PromptLen[r] - 1 ELSE 0]
  /\ UNCHANGED <<mode, total, rows, prev, device, runner>>

\* What the scheduler may ask of r: the rest of its prompt in chunks (whole for
\* a pooling model), or its last token and up to K drafts.
Signals(r) ==
  IF mode = "pool" THEN {PromptLen[r]}
  ELSE IF IsPrefill(r) THEN 1..PromptLen[r] - computed[r] ELSE {total[r] - computed[r]}
Schedulable == {r \in Live : computed[r] < total[r] /\ total[r] < MaxLen}
Drafts(r) == IF Async \/ IsPrefill(r) THEN {0} ELSE {0, Min({K, MaxLen - 1 - total[r]})}

\* The step of rows rws with signal[r] + nd[r] tokens each, on the drained batch d.
Step(rws, signal, nd, good, d) ==
  LET num_reqs == Len(rws)
      num_decodes == Cardinality({i \in DOMAIN rws : ~IsPrefill(rws[i])})
      k == ActiveK(num_decodes, nd)
      num == DecodeRows(num_reqs, num_decodes)
      tab == Updated(d.table, nd, good)
      n(i) == signal[rws[i]] + nd[rws[i]]
      inputs == [i \in DOMAIN rws |-> Inputs(tab, d.prev, rws[i], Width(i, num, k, n(i)))]
      prefilled == Executed(HandedOver(rws), {[slot |-> slot[rws[i]], entries |-> inputs[i]] : i \in num + 1..num_reqs})
      dbuf == DecodeBuffer(buf[k], rws, inputs, num)
      cache == IF num = 0 THEN prefilled ELSE Executed(prefilled, {dbuf[j] : j \in 1..MaxSeqs})
      logits == [i \in DOMAIN rws |-> IF i <= num THEN DecodeLogits(cache, rws[i], nd[rws[i]])
                                      ELSE PrefillLogits(cache, rws[i], n(i))]
      ids == FlattenSeq([i \in DOMAIN rws |-> [j \in DOMAIN inputs[i] |-> inputs[i][j].tok]])
      drafts == [i \in DOMAIN rws |-> nd[rws[i]]]
  IN [tab |-> tab, kv |-> cache, buf |-> IF num = 0 THEN buf ELSE [buf EXCEPT ![k] = dbuf],
      st |-> [drafts |-> drafts,
              draft_ids |-> [i \in DOMAIN rws |-> DraftIds(ids, drafts, [l \in DOMAIN rws |-> n(l)], i)],
              good |-> [i \in DOMAIN rws |-> good[rws[i]]],
              first |-> [i \in DOMAIN rws |-> IF i <= num THEN computed[rws[i]] ELSE computed[rws[i]] + n(i) - 1],
              discard |-> [i \in DOMAIN rws |-> computed[rws[i]] + Len(inputs[i]) < total[rws[i]]],
              \* the decode object of an undrained step is still running
              logits |-> IF d.pending THEN <<>> ELSE FlattenSeq(logits)]]

\* execute_model() of a pooling model: _run_encode() fills the encode buffer and
\* the output is returned without sample_tokens().
ExecutePool(rws, d) ==
  /\ encoded' = rws /\ pending' = TRUE /\ due' = FALSE
  /\ outs' = Append(DrainedOuts(d), [st |-> None, result |-> None])
  /\ UNCHANGED <<table, prev, kv, buf, state>>

\* execute_model() of a generating model: prefills, then decodes, then the state
\* for sample_tokens().
ExecuteForward(x, d) ==
  /\ table' = x.tab /\ prev' = d.prev /\ kv' = x.kv /\ buf' = x.buf /\ state' = x.st
  /\ pending' = d.pending /\ due' = TRUE /\ outs' = DrainedOuts(d)
  /\ UNCHANGED encoded

Execute(S, order, signal, nd, good) ==
  LET d == Drained
      rws == Reordered(order)
  IN /\ d.state = None
     /\ rows' = rws
     /\ IF mode = "pool" THEN ExecutePool(rws, d) ELSE ExecuteForward(Step(rws, signal, nd, good, d), d)
     /\ computed' = [r \in Requests |-> IF r \in S THEN computed[r] + signal[r] + nd[r] ELSE computed[r]]
     /\ total' = [r \in Requests |->
          IF mode = "async" /\ r \in S /\ computed[r] + signal[r] = total[r] THEN total[r] + 1 ELSE total[r]]
     /\ UNCHANGED <<mode, phase, slot>>

ExecuteModel ==
  /\ ~due /\ Len(outs) < QueueSize
  /\ \E S \in SUBSET Schedulable \ {{}} : \E order \in SetToSeqs(S) :
     \E signal \in [S -> 1..MaxLen] :
       /\ \A r \in S : signal[r] \in Signals(r)
       /\ \E nd \in [S -> 0..K] :
            /\ \A r \in S : nd[r] \in Drafts(r)
            /\ \E good \in [S -> 0..K] : /\ \A r \in S : good[r] <= nd[r]
                                         /\ Execute(S, order, signal, nd, good)

\* execute_model() with nothing scheduled: the batch is drained and emptied.
ExecuteNothing ==
  /\ ~due /\ Len(outs) < QueueSize
  /\ LET d == Drained
     IN /\ d.state = None
        /\ rows' = <<>>
        /\ table' = d.table /\ prev' = d.prev /\ state' = d.state /\ pending' = d.pending
        /\ outs' = DrainedOuts(d)
  /\ UNCHANGED <<mode, scheduler, device, due>>

SampleTokensSync ==
  /\ due /\ ~Async
  /\ LET res == Result(state)
     IN /\ outs' = Append(outs, [st |-> state, result |-> res])
        /\ table' = Booked(state, res)
  /\ state' = None /\ prev' = <<>> /\ due' = FALSE
  /\ UNCHANGED <<mode, scheduler, rows, device, pending>>

SampleTokensAsync ==
  /\ due /\ Async
  /\ outs' = Append(outs, [st |-> state, result |-> None])
  /\ pending' = TRUE /\ due' = FALSE
  /\ UNCHANGED <<mode, scheduler, batch, device, state>>

\* The engine collects its oldest output, and the scheduler learns from it.
Collect ==
  /\ ~due /\ outs # <<>>
  /\ LET d == GetOutput(Head(outs))
         res == d.o.result
         gained == [r \in Requests |-> IF r \in DOMAIN res /\ phase[r] = "live" /\ ~Async
                                       THEN res[r].n ELSE 0]
         ended == {r \in DOMAIN res : phase[r] = "live" /\ (mode = "pool" \/ total[r] + gained[r] >= MaxLen)}
     IN /\ table' = d.table /\ prev' = d.prev /\ state' = d.state /\ pending' = d.pending
        /\ outs' = Tail(outs)
        /\ total' = [r \in Requests |-> total[r] + gained[r]]
        /\ computed' = [r \in Requests |-> IF gained[r] > 0 THEN total[r] + gained[r] - 1 ELSE computed[r]]
        /\ \E F \in SUBSET {r \in DOMAIN res : phase[r] = "live"} :
             /\ ended \subseteq F
             /\ phase' = [r \in Requests |-> IF r \in F THEN "done" ELSE phase[r]]
             /\ slot' = [r \in Requests |-> IF r \in F THEN 0 ELSE slot[r]]
  /\ UNCHANGED <<mode, rows, device, due>>

Next == \/ \E r \in Requests : Arrive(r)
        \/ ExecuteModel \/ ExecuteNothing \/ SampleTokensSync \/ SampleTokensAsync \/ Collect

Spec == Init /\ [][Next]_vars

-----------------------------------------------------------------------------
(* Properties.                                                               *)

\* Every variable has its type; no request outgrows max_model_len.
TypeOK ==
  /\ mode \in Modes /\ phase \in [Requests -> {"new", "live", "done"}]
  /\ slot \in [Requests -> 0..MaxSeqs]
  /\ computed \in [Requests -> Cells] /\ total \in [Requests -> 0..MaxLen]
  /\ rows \in Seq(Requests) /\ encoded \in Seq(Requests)
  /\ table \in [Requests -> [0..MaxLen - 1 -> Requests \cup {Pad, Junk}]]
  /\ kv \in [Slots -> [Cells -> Requests \cup {Junk, None}]]
  /\ {pending, due} \subseteq BOOLEAN /\ Len(outs) <= QueueSize

\* The cache slot of a request holds its own tokens up to what the scheduler
\* counts as computed, whatever the batch did to its rows: reordering, padding
\* to one width, shared decode buffers, tokens the host never saw, a slot
\* another request used before.
CacheTrue ==
  mode # "pool" =>
    \A r \in Live : \A p \in 0..Min({computed[r], total[r]}) - 1 :
      (mode = "consumer" /\ IsPrefill(r)) \/ kv[slot[r]][p] = r

\* Every token or pooled vector handed to the engine was computed from the
\* request it is handed out for.
OutputTrue ==
  \A i \in DOMAIN outs : outs[i].result # None =>
    \A r \in DOMAIN outs[i].result : outs[i].result[r].ok

\* execute_model() never finds the state of a step nobody sampled ("State
\* error: sample_tokens() must be called after execute_model() returns None").
HandshakeHolds == (~due /\ Len(outs) < QueueSize) => Drained.state = None

\* Padding never reaches the device at a position the cache does not have.
InContext == \A s \in Slots : \A p \in MaxLen..MaxLen + K - 1 : kv[s][p] = None
=============================================================================
