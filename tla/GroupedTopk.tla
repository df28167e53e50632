---------------------------- MODULE GroupedTopk -----------------------------
(* The mixture-of-experts router kernel of csrc/grouped_topk_router: which *)
(* experts a token is sent to and with which weights, and how the tokens   *)
(* are shared out to the compute threads.  A vector register is a function *)
(* over 0..Lanes-1; scores are integers above NegMax, the fp16 minimum the *)
(* kernel pads and masks with; rounding and tanh are not modelled.         *)
EXTENDS Integers, Sequences, FiniteSetsExt, SequencesExt

CONSTANTS
  LogLanes,     \* log2 of the fp16 lanes of a vector (6)
  HvxMin,       \* experts per group from which a group is reduced with HVX (16)
  HvxGroups,    \* groups from which groups are selected with HVX (16)
  BitonicMin,   \* candidates from which the bitonic network is used (64)
  BitonicTopk,  \* selected experts from which it is used (4)
  MaxExperts, MaxGroups, MaxTopK    \* capacities of the kernel's arrays

ASSUME RouterAssumption ==
  /\ LogLanes \in Nat \ {0}
  /\ \A c \in {HvxMin, HvxGroups, BitonicMin, BitonicTopk} : c \in Nat \ {0}
  /\ \A c \in {MaxExperts, MaxGroups, MaxTopK} : c \in Nat \ {0}

NegMax == -65504            \* lowest fp16
NegInf == -1000000000       \* kNegInf: below every score, lowest fp32
MaxId == 2147483647         \* INT32_MAX
Lanes == 2 ^ LogLanes
Lane == 0..Lanes - 1
Bit(i, k) == (k \div 2 ^ i) % 2
Loop(n) == [i \in 1..n |-> i - 1]
CeilDiv(a, b) == (a + b - 1) \div b
BetterPair(value, index, best_value, best_index) ==
  value > best_value \/ (value = best_value /\ index < best_index)
Vector(f) == f @@ <<>>      \* f, with all its values computed at once
Max2(a, b) == IF a >= b THEN a ELSE b
Min2(a, b) == IF a <= b THEN a ELSE b
-----------------------------------------------------------------------------
SelectionScores(scores, bias, use_bias) ==
  Vector([e \in DOMAIN scores |-> IF use_bias THEN scores[e] + bias[e]
                                  ELSE scores[e]])

\* Running maximum per lane over whole vectors, the tail lanes alone counted.
MaxScoreHvx(s, begin, count) ==
  IF count <= 0 THEN NegInf
  ELSE LET lane == [l \in Lane |->
                     FoldLeft(Max2, NegInf,
                       [i \in 1..CeilDiv(count - l, Lanes) |->
                          s[begin + (i - 1) * Lanes + l]])]
       IN FoldLeft(Max2, NegInf, [i \in 1..Lanes |-> lane[i - 1]])

\* A lane holds its best two; merging keeps the best two of both.
MergeTop2(c, best) ==
  [best1 |-> Max2(best.best1, c.best1),
   best2 |-> Max2(Max2(best.best2, c.best2), Min2(best.best1, c.best1))]

Top2SumHvx(s, begin, end) ==
  LET count == end - begin
      Load(l, i) == IF i * Lanes + l < count THEN s[begin + i * Lanes + l]
                    ELSE NegMax
      none == [best1 |-> NegMax, best2 |-> NegMax]
      loaded == [l \in Lane |->
                  FoldLeft(LAMBDA b, i : MergeTop2([best1 |-> Load(l, i),
                                                    best2 |-> NegMax], b),
                           none, Loop(CeilDiv(count, Lanes)))]
      \* vector rotated by half, a quarter, ... and merged with itself
      Rotate(v, k) == Vector([l \in Lane |->
                        MergeTop2(v[(l + 2 ^ (LogLanes - 1 - k)) % Lanes], v[l])])
      top == FoldLeft(Rotate, loaded, Loop(LogLanes))[0]
  IN IF count <= 0 THEN NegInf
     ELSE top.best1 + (IF count <= 1 THEN top.best1 ELSE top.best2)

Top2Sum(s, begin, end) ==
  LET Scan(b, e) ==
        IF BetterPair(s[e], e, b.v1, b.e1)
        THEN [v1 |-> s[e], e1 |-> e, v2 |-> b.v1, e2 |-> b.e1]
        ELSE IF BetterPair(s[e], e, b.v2, b.e2)
        THEN [b EXCEPT !.v2 = s[e], !.e2 = e] ELSE b
      top == FoldLeft(Scan, [v1 |-> NegInf, e1 |-> begin,
                             v2 |-> NegInf, e2 |-> begin],
                      [i \in 1..end - begin |-> begin + i - 1])
  IN IF end <= begin THEN NegInf
     ELSE top.v1 + (IF end - begin <= 1 THEN top.v1 ELSE top.v2)
-----------------------------------------------------------------------------
\* One pick after the other: the best of the group scores, then masked out.
BestGroup(scores, num_groups) ==
  FoldLeft(LAMBDA b, g : IF BetterPair(scores[g], g, b.v, b.g)
                         THEN [v |-> scores[g], g |-> g] ELSE b,
           [v |-> NegInf, g |-> 0], Loop(num_groups)).g

BestGroupHvx(scores, num_groups) ==
  LET hits == {g \in 0..num_groups - 1 :
                 scores[g] = MaxScoreHvx(scores, 0, num_groups)}
  IN IF hits = {} THEN 0 ELSE Min(hits)

TopGroups(scores, num_groups, topk_group) ==
  LET Pick(p, rank) ==
        LET g == IF num_groups >= HvxGroups
                 THEN BestGroupHvx(p.scores, num_groups)
                 ELSE BestGroup(p.scores, num_groups)
        IN [scores |-> [p.scores EXCEPT ![g] = NegInf],
            groups |-> Append(p.groups, g)]
  IN FoldLeft(Pick, [scores |-> scores, groups |-> <<>>],
              Loop(topk_group)).groups
-----------------------------------------------------------------------------
\* The bitonic network over one vector of value and id pairs.  reverse[l] is
\* the order mask of a lane: a lane keeps the even element of its pair when
\* (even > odd) differs from the reversal, values first, ids between equals.
Pad == [v |-> NegMax, id |-> MaxId]

BitonicStep(step, vrev, irev, x) ==
  Vector([l \in Lane |->
     LET even == x[l - Bit(step, l) * 2 ^ step]
         odd == x[l + (1 - Bit(step, l)) * 2 ^ step]
         flip(rev) == (rev[l] + Bit(step, l)) % 2 = 1
         keep == IF even.v # odd.v THEN (even.v > odd.v) # flip(vrev)
                 ELSE (even.id > odd.id) # flip(irev)
     IN IF keep THEN even ELSE odd])

\* phase p sorts runs of 2^(p+1) lanes, alternately up and down
BitonicSort(dataAscending, idxAscending, x) ==
  LET Rev(ascending, phase) ==
        [l \in Lane |-> IF ascending THEN 1 - Bit(phase + 1, l)
                        ELSE Bit(phase + 1, l)]
      Phase(y, phase) ==
        FoldLeft(LAMBDA z, k : BitonicStep(phase - k, Rev(dataAscending, phase),
                                           Rev(idxAscending, phase), z),
                 y, Loop(phase + 1))
  IN FoldLeft(Phase, x, Loop(LogLanes))

\* Slip: between equals the later chunk wins.
BitonicMergeSlip(best, chunk) ==
  LET kept == Vector([l \in Lane |-> IF chunk[l].v >= best[l].v THEN chunk[l]
                                     ELSE best[l]])
  IN FoldLeft(LAMBDA z, k : BitonicStep(LogLanes - 1 - k, [l \in Lane |-> 0],
                                        [l \in Lane |-> 1], z),
              kept, Loop(LogLanes))

\* best is sorted down and chunk up: the lane-wise better half is bitonic.
BitonicMergeKeepFirst(best, chunk) ==
  LET kept == Vector([l \in Lane |-> IF chunk[l].v > best[l].v THEN chunk[l]
                                     ELSE best[l]])
  IN FoldLeft(LAMBDA z, k : BitonicStep(LogLanes - 1 - k, [l \in Lane |-> 0],
                                        [l \in Lane |-> 1], z),
              kept, Loop(LogLanes))

LoadChunk(s, ids, offset, count) ==
  [l \in Lane |-> IF l < count THEN [v |-> s[ids[offset + l]],
                                     id |-> ids[offset + l]]
                  ELSE Pad]

\* ids: the candidate experts, ascending, from 0
SelectBitonic(s, ids, count, selected_count) ==
  LET Chunk(best, i) ==
        BitonicMergeKeepFirst(best,
          BitonicSort(TRUE, FALSE,
                      LoadChunk(s, ids, i * Lanes, count - i * Lanes)))
      best == FoldLeft(Chunk, [l \in Lane |-> Pad], Loop(CeilDiv(count, Lanes)))
  IN [rank \in 1..selected_count |-> best[rank - 1].id]

BitonicFromGroups(s, groups, per_group, selected_count) ==
  LET sorted == SortSeq(groups, <)
  IN SelectBitonic(s, [i \in 0..Len(groups) * per_group - 1 |->
                         (sorted[(i \div per_group) + 1] * per_group)
                           + (i % per_group)],
                   Len(groups) * per_group, selected_count)
-----------------------------------------------------------------------------
\* Repeated selection: the best expert of a scan, then masked with NegMax.
BestScalar(s, groups, per_group) ==
  LET Scan(b, e) == IF BetterPair(s[e], e, b.v, b.e)
                    THEN [v |-> s[e], e |-> e] ELSE b
      experts == FlattenSeq([r \in DOMAIN groups |->
                   [i \in 1..per_group |-> groups[r] * per_group + i - 1]])
  IN FoldLeft(Scan, [v |-> NegInf, e |-> 0], experts).e

BestHvx(s, groups, per_group) ==
  LET Group(b, g) ==
        LET begin == g * per_group
            value == MaxScoreHvx(s, begin, per_group)
            first == Min({e \in begin..begin + per_group - 1 : s[e] = value})
        IN IF value >= b.v /\ BetterPair(value, first, b.v, b.e)
           THEN [v |-> value, e |-> first] ELSE b
  IN FoldLeft(Group, [v |-> NegInf, e |-> 0], groups).e

SelectRepeated(s, selected_count, Best(_)) ==
  FoldLeft(LAMBDA p, rank : [s |-> [p.s EXCEPT ![Best(p.s)] = NegMax],
                             ids |-> Append(p.ids, Best(p.s))],
           [s |-> s, ids |-> <<>>], Loop(selected_count)).ids

SelectScalar(s, groups, per_group, selected_count) ==
  SelectRepeated(s, selected_count, LAMBDA t : BestScalar(t, groups, per_group))

SelectHvx(s, groups, per_group, selected_count) ==
  SelectRepeated(s, selected_count, LAMBDA t : BestHvx(t, groups, per_group))
-----------------------------------------------------------------------------
\* A weight is <<score, denominator>>; unused slots hold expert 0, weight 0.
NormalizeAndStore(scores, ids, topk, renormalize) ==
  LET sum == FoldLeft(LAMBDA a, e : a + scores[e], 0, ids)
      denom == IF ~renormalize \/ sum = 0 THEN 1 ELSE sum
  IN [i \in 1..topk |-> IF i <= Len(ids)
                        THEN [id |-> ids[i], weight |-> <<scores[ids[i]], denom>>]
                        ELSE [id |-> 0, weight |-> <<0, 1>>]]

ZeroTopk(topk) == [i \in 1..topk |-> [id |-> 0, weight |-> <<0, 1>>]]

GroupScores(s, num_groups, per_group, use_bias) ==
  Vector([g \in 0..num_groups - 1 |->
     LET begin == g * per_group
         end == begin + per_group
     IN IF ~use_bias THEN MaxScoreHvx(s, begin, per_group)
        ELSE IF per_group >= HvxMin THEN Top2SumHvx(s, begin, end)
        ELSE Top2Sum(s, begin, end)])

\* c: num_experts, num_groups, topk_group, topk, renormalize, use_bias
RouteGrouped(scores, bias, c) ==
  LET s == SelectionScores(scores, bias, c.use_bias)
      per_group == c.num_experts \div c.num_groups
      topk_group == Min2(c.topk_group, c.num_groups)
      groups == TopGroups(GroupScores(s, c.num_groups, per_group, c.use_bias),
                          c.num_groups, topk_group)
      selected_count == Min2(c.topk, topk_group * per_group)
      ids == IF topk_group * per_group >= BitonicMin
                /\ selected_count >= BitonicTopk
             THEN BitonicFromGroups(s, groups, per_group, selected_count)
             ELSE IF per_group >= HvxMin
             THEN SelectHvx(s, groups, per_group, selected_count)
             ELSE SelectScalar(s, groups, per_group, selected_count)
  IN IF \/ c.num_groups <= 0 \/ c.topk_group <= 0 \/ c.topk <= 0
        \/ c.num_experts <= c.num_groups \/ c.num_experts % c.num_groups # 0
        \/ c.num_experts > MaxExperts \/ c.num_groups > MaxGroups
        \/ c.topk_group > MaxGroups \/ c.topk > MaxTopK
     THEN ZeroTopk(c.topk)
     ELSE NormalizeAndStore(scores, ids, c.topk, c.renormalize)

RouteRegular(scores, bias, c) ==
  LET s == SelectionScores(scores, bias, c.use_bias)
      selected_count == Min2(c.topk, c.num_experts)
      ids == IF c.num_experts >= BitonicMin /\ selected_count >= BitonicTopk
             THEN SelectBitonic(s, [e \in 0..c.num_experts - 1 |-> e],
                                c.num_experts, selected_count)
             ELSE SelectScalar(s, <<0>>, c.num_experts, selected_count)
  IN IF \/ c.topk <= 0 \/ c.topk > MaxTopK
        \/ c.num_experts <= 0 \/ c.num_experts > MaxExperts
     THEN ZeroTopk(c.topk)
     ELSE NormalizeAndStore(scores, ids, c.topk, c.renormalize)
-----------------------------------------------------------------------------
\* The tokens of one compute thread: equal slices of the batch in core order,
\* the last ones cut short or empty.
TokenRange(num_tokens, workers, worker) ==
  LET per_worker == CeilDiv(num_tokens, workers)
      begin == worker * per_worker
  IN begin..Min2(begin + per_worker, num_tokens) - 1

\* What a launch leaves in the rows of topk_ids and topk_weights.
Routed(num_tokens, workers, route) ==
  LET out[w \in 0..workers] ==
        IF w = 0 THEN [t \in 0..num_tokens - 1 |-> <<>>]
        ELSE [t \in 0..num_tokens - 1 |->
                IF t \in TokenRange(num_tokens, workers, w - 1) THEN route[t]
                ELSE out[w - 1][t]]
  IN out[workers]
=============================================================================
