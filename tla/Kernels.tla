------------------------------ MODULE Kernels -------------------------------
(* One task at a time for the pure algorithms of the project: the          *)
(* rejection sampler, the expert router and the multimodal gathering.  A   *)
(* task is the kind of algorithm and its input; the properties compare the *)
(* algorithm's result with a definition that does not follow its steps.    *)
EXTENDS RejectionSampler, GroupedTopk, MultiModal, FiniteSets

CONSTANTS
  Workloads,    \* shapes of a sampling step, and what their arrays may hold
  Recoveries,   \* the same, for the recovery of rejected drafts alone
  Routers,      \* configurations of the router, and scores and biases
  Launches,     \* numbers of tokens and of threads
  Prompts       \* prompts with images

VARIABLE task
-----------------------------------------------------------------------------
(* Rejection sampling.                                                     *)

FirstArgmax(x) == Min({v \in DOMAIN x : \A w \in DOMAIN x : x[w] <= x[v]})

Tokens(b) == 0..Start(b.cu, Cardinality(DOMAIN b.cu)) - 1
Scored(b) == [0..b.vocab_size - 1 -> Nat]

\* Arrays of matching shapes: the rows follow one another in the flat arrays.
DraftsFormed(b) ==
  /\ IsFiniteSet(DOMAIN b.cu) /\ b.cu \in [Rows(b.cu) -> Nat]
  /\ \A q, r \in Rows(b.cu) : q <= r => b.cu[q] <= b.cu[r]
  /\ b.vocab_size \in Nat \ {0} /\ b.no_draft_probs \in BOOLEAN
  /\ b.draft \in [Tokens(b) -> 0..b.vocab_size - 1]
  /\ b.target_probs \in [Tokens(b) -> Scored(b)]
  /\ b.inv_q \in [Rows(b.cu) -> Scored(b)]
  /\ ~b.no_draft_probs => b.draft_probs # Absent /\ b.draft_probs \in [Tokens(b) -> Scored(b)]

WellFormed(b) ==
  /\ DraftsFormed(b)
  /\ b.is_greedy \in [Rows(b.cu) -> BOOLEAN] /\ b.synthetic \in BOOLEAN
  /\ b.bonus \in [Rows(b.cu) -> Nat]
  /\ b.max_spec_len \in Nat /\ \A r \in Rows(b.cu) : Drafted(b.cu, r) <= b.max_spec_len
  /\ \A t \in Tokens(b) : b.argmax[t] = FirstArgmax(b.target_probs[t])
  /\ (b.synthetic \/ \E r \in Rows(b.cu) : ~b.is_greedy[r])
       => b.uniform # Absent /\ b.uniform \in [Tokens(b) -> Nat]
  /\ b.synthetic => b.rates # Absent /\ b.rates \in [0..b.max_spec_len - 1 -> Nat]

\* A workload w has the shape of a step: cu, bonus, max_spec_len, vocab_size;
\* its arrays hold drafts, targets and proposals (rows of probabilities),
\* uniforms, noises (arrays of one row per request) and rates.
ASSUME WorkloadsAssumption ==
  \A w \in Workloads \cup Recoveries :
    /\ IsFiniteSet(DOMAIN w.cu) /\ w.cu \in [Rows(w.cu) -> Nat]
    /\ \A q, r \in Rows(w.cu) : q <= r => w.cu[q] <= w.cu[r]
    /\ w.vocab_size \in Nat \ {0} /\ w.drafts \subseteq 0..w.vocab_size - 1
    /\ \A x \in w.targets \cup w.proposals : x \in Scored(w)
    /\ \A x \in w.noises : x \in [Rows(w.cu) -> Scored(w)]
ASSUME SamplingAssumption ==
  \A w \in Workloads :
    /\ w.bonus \in [Rows(w.cu) -> Nat] /\ w.max_spec_len \in Nat
    /\ \A r \in Rows(w.cu) : Drafted(w.cu, r) <= w.max_spec_len
    /\ w.uniforms \subseteq Nat
    /\ w.rates # Absent /\ w.rates \in [0..w.max_spec_len - 1 -> Nat]
\* an optional array that is given is not None
ASSUME AbsentAssumption ==
  \A w \in Workloads \cup Recoveries :
    Absent \notin [Tokens(w) -> w.uniforms] \cup [Tokens(w) -> w.proposals]

\* A request's own view of its batch: its drafts in order, whether each would
\* be accepted, and what stands in for it if it is not.
DraftsOf(b, r) == {t \in DOMAIN b.draft : r = TokenToReq(b.cu, t)}
Tok(b, r, k) == Start(b.cu, r) + k
Verdict(b, r, k) ==
  LET t == Tok(b, r, k)
      d == b.draft[t]
  IN IF b.synthetic THEN b.uniform[t] < b.rates[k]
     ELSE IF b.is_greedy[r] THEN d = FirstArgmax(b.target_probs[t])
     ELSE IF b.no_draft_probs THEN b.target_probs[t][d] >= b.uniform[t]
     ELSE b.draft_probs[t][d] # 0 /\
          b.target_probs[t][d] >= b.uniform[t] * b.draft_probs[t][d]
Residual(b, t) == [v \in DOMAIN b.target_probs[t] |->
  IF b.no_draft_probs
  THEN IF v = b.draft[t] THEN 0 ELSE b.target_probs[t][v]
  ELSE Max({0, b.target_probs[t][v] - b.draft_probs[t][v]})]
Resampled(b, r, t) ==
  FirstArgmax([v \in 0..b.vocab_size - 1 |-> Residual(b, t)[v] * b.inv_q[r][v]])
Correction(b, r, k) ==
  LET t == Tok(b, r, k)
  IN IF b.is_greedy[r] THEN FirstArgmax(b.target_probs[t]) ELSE Resampled(b, r, t)

RowsAgree(b) ==
  LET out == RejectionSample(b)
  IN \A r \in DOMAIN b.cu :
       LET n == Cardinality(DraftsOf(b, r))
           kept == Max({m \in 0..n : \A k \in 0..m - 1 : Verdict(b, r, k)})
       IN \A k \in 0..b.max_spec_len :
            out[r * (b.max_spec_len + 1) + k]
              = CASE k < kept -> b.draft[Tok(b, r, k)]
                  [] k = kept /\ kept < n -> Correction(b, r, k)
                  [] k = kept /\ kept = n -> b.bonus[r]
                  [] k > kept -> Placeholder

\* The sampler gives every request the longest accepted prefix of its drafts,
\* one token more (its correction, or the bonus token if all are accepted) and
\* nothing after it, whatever the other requests of the batch are; and the
\* correction is the first index that maximises the scaled residual, wherever
\* the blocks of lanes and the tail put it.
RejectionAgrees ==
  /\ task.kind = "rejection" => RowsAgree(task.input)
  /\ task.kind = "recovered" =>
       \A t \in Tokens(task.input) :
         Recovered(task.input)[t]
           = Resampled(task.input, TokenToReq(task.input.cu, t), t)
-----------------------------------------------------------------------------
(* Expert routing.                                                         *)

\* What a token is routed to, by ranks: an element's rank is the number of
\* elements with a higher key, or the same key and a lower index.
Rank(S, key, x) == Cardinality({y \in S : key[y] > key[x]
                                          \/ (key[y] = key[x] /\ y < x)})
Routable(i) ==
  /\ i.c.topk \in 1..MaxTopK
  /\ i.c.num_experts \in 1..MaxExperts
  /\ i.grouped => /\ i.c.num_groups \in 1..i.c.num_experts - 1
                  /\ i.c.num_experts % i.c.num_groups = 0
Selection(i) == [e \in 0..i.c.num_experts - 1 |->
                   i.scores[e] + (IF i.c.use_bias THEN i.bias[e] ELSE 0)]
GroupKey(i, per_group) ==
  [g \in 0..i.c.num_groups - 1 |->
     LET span == g * per_group..g * per_group + per_group - 1
         s == Selection(i)
     IN IF i.c.use_bias
        THEN Max({s[p[1]] + s[p[2]] : p \in {q \in span \X span : q[1] # q[2]}})
        ELSE Max({s[e] : e \in span})]
Candidates(i) ==
  IF ~i.grouped THEN 0..i.c.num_experts - 1
  ELSE LET per_group == i.c.num_experts \div i.c.num_groups
           groups == 0..i.c.num_groups - 1
       IN {e \in 0..i.c.num_experts - 1 :
             Rank(groups, GroupKey(i, per_group), e \div per_group)
               < i.c.topk_group}

RouteAgrees(i) ==
  LET row == IF i.grouped THEN RouteGrouped(i.scores, i.bias, i.c)
             ELSE RouteRegular(i.scores, i.bias, i.c)
      C == Candidates(i)
      count == Min({i.c.topk, Cardinality(C)})
      at(r) == CHOOSE e \in C : Rank(C, Selection(i), e) = r - 1
      sum == FoldLeft(+, 0, [r \in 1..count |-> i.scores[at(r)]])
  IN \A r \in 1..i.c.topk :
       IF Routable(i) /\ r <= count
       THEN /\ row[r].id = at(r)
            /\ row[r].weight = <<i.scores[at(r)],
                                 IF i.c.renormalize /\ sum > 0 THEN sum ELSE 1>>
       ELSE row[r] = [id |-> 0, weight |-> <<0, 1>>]

\* A launch has a thread: an entry configuration counts cores and threads from 1.
ASSUME LaunchesAreSized ==
  \A i \in Launches : i.num_tokens \in Nat /\ i.workers \in Nat \ {0}

LaunchAgrees(i) ==
  LET out == Routed(i.num_tokens, i.workers, [t \in 0..i.num_tokens - 1 |-> <<t>>])
  IN \A t \in 0..i.num_tokens - 1 :
       /\ out[t] = <<t>>
       /\ Cardinality({w \in 0..i.workers - 1 :
                         t \in TokenRange(i.num_tokens, i.workers, w)}) = 1

\* Every token is sent to the best experts of its best groups in order of
\* their selection score, lower index first between equals, with weights from
\* the scores without bias: whichever of the scalar, vector and bitonic paths
\* the sizes select, the result is the same.  A launch routes every token of
\* the batch, each by exactly one thread.
RouterAgrees ==
  /\ task.kind = "router" => RouteAgrees(task.input)
  /\ task.kind = "launch" => LaunchAgrees(task.input)
-----------------------------------------------------------------------------
(* Multimodal prompts.                                                     *)

\* Embeddings of an image, and the k-th of them: a patch and a row of it.
EmbedCount(kind, patches) ==
  IF kind = "grid" THEN patches \div MergeSize ELSE patches * TokensPerPatch
EmbedToken(kind, hash, k) ==
  IF kind = "grid" THEN <<<<hash, k * MergeSize>>, 0>>
  ELSE <<<<hash, k \div TokensPerPatch>>, k % TokensPerPatch>>

\* A placeholder has as many embeddings as the encoder makes of its patches.
FeatureFormed(kind, f) ==
  /\ f.offset \in Nat /\ f.length \in Nat /\ f.patches \in Nat \ {0}
  /\ f.is_embed = NoMask \/ f.is_embed \in [1..f.length -> BOOLEAN]
  /\ EmbedsBefore(f, f.length) = EmbedCount(kind, f.patches)
  /\ kind = "flat" => f.patches <= MaxPatches

\* A prompt has features, in order and apart; those with a hash in common are
\* one image.  Its batch lists the features whose images the encoder ran on:
\* every image once.
PromptFormed(p) ==
  LET fs == p.features
  IN /\ p.kind \in {"flat", "grid", "tensor"} /\ p.length \in Nat
     /\ fs \in Seq(Range(fs))
     /\ \A i \in DOMAIN fs : FeatureFormed(p.kind, fs[i])
     /\ \A i, j \in DOMAIN fs : i < j => fs[i].offset + fs[i].length <= fs[j].offset
     /\ \A i, j \in DOMAIN fs :
          fs[i].hash = fs[j].hash \/ p.kind = "tensor" => fs[i].patches = fs[j].patches
     /\ p.batch \in Seq(DOMAIN fs)
     /\ \A i, j \in DOMAIN p.batch : fs[p.batch[i]].hash = fs[p.batch[j]].hash => i = j
     /\ \A i \in DOMAIN fs : \E j \in DOMAIN p.batch : fs[p.batch[j]].hash = fs[i].hash

ASSUME PromptsAssumption == \A p \in Prompts : PromptFormed(p)

\* The patches of the images of a batch, one image after the other.
Pixels(batch) ==
  LET ends == Offsets([i \in DOMAIN batch |-> batch[i].patches])
  IN [q \in 1..ends[Len(batch)] |->
        LET i == CHOOSE i \in DOMAIN batch : ends[i - 1] < q /\ q <= ends[i]
        IN <<batch[i].hash, q - ends[i - 1] - 1>>]

\* The encoder cache after the images of the batch went through the encoder.
EncoderCache(p) ==
  LET batch == [i \in DOMAIN p.batch |-> p.features[p.batch[i]]]
      encoded == EmbedMultimodal(p.kind, Pixels(batch),
                                 [i \in DOMAIN batch |-> batch[i].patches])
  IN [h \in {batch[i].hash : i \in DOMAIN batch} |->
        encoded[CHOOSE i \in DOMAIN batch : batch[i].hash = h]]

\* The embedding prompt position x stands for: its image and, counted from
\* the first embedding of that image, the patch and the row of the patch.
Covers(f, x) == x \in f.offset..f.offset + f.length - 1
Takes(f, x) == f.is_embed = NoMask \/ f.is_embed[x - f.offset + 1]
EmbedAt(p, x) ==
  LET f == CHOOSE f \in Range(p.features) : Covers(f, x)
  IN EmbedToken(p.kind, f.hash, Cardinality({y \in f.offset..x - 1 : Takes(f, y)}))
EmbedPositions(p) ==
  {x \in 0..p.length - 1 : \E f \in Range(p.features) : Covers(f, x) /\ Takes(f, x)}

WindowPlaced(p, computed, scheduled) ==
  LET in == {x \in EmbedPositions(p) : x >= computed /\ x < computed + scheduled}
      vision == ProcessVisionEmbeds(
                  Gather(p.features, EncoderCache(p), computed, scheduled))
      rank(x) == Cardinality({y \in in : y < x}) + 1
  IN /\ \A x \in in : rank(x) <= VisionSize =>
          \A h \in 0..H - 1 :
            /\ vision[rank(x)].embed[h] = Column(EmbedAt(p, x), "embed", h)
            /\ \A d \in 0..D - 1 :
                 vision[rank(x)].deepstack[d][h] = Column(EmbedAt(p, x), d, h)
     /\ \A k \in Cardinality(in) + 1..VisionSize : vision[k] = Zero

\* Whatever part of a prompt a step computes, the session is handed exactly
\* the embeddings (and deepstack layers) of the image positions in that part,
\* in the order of the positions, and padding behind them; embeddings past the
\* compiled number of rows are cut off.
EmbeddingsPlaced ==
  task.kind = "multimodal" =>
    WindowPlaced(task.input.prompt, task.input.computed, task.input.scheduled)
-----------------------------------------------------------------------------
Init == task = [kind |-> "idle"]

Idle == task.kind = "idle"
Take(kind, i) == task' = [kind |-> kind, input |-> i]

RecoverToken ==
  Idle /\ \E w \in Recoveries :
    \E draft \in [Tokens(w) -> w.drafts], target \in [Tokens(w) -> w.targets],
       probs \in [Tokens(w) -> w.proposals] \cup {Absent}, noise \in w.noises :
      Take("recovered",
           [cu |-> w.cu, vocab_size |-> w.vocab_size, draft |-> draft, target_probs |-> target,
            draft_probs |-> probs, no_draft_probs |-> probs = Absent, inv_q |-> noise])

SampleDrafts ==
  Idle /\ \E w \in Workloads :
    \E draft \in [Tokens(w) -> w.drafts], target \in [Tokens(w) -> w.targets],
       probs \in [Tokens(w) -> w.proposals] \cup {Absent}, noise \in w.noises,
       uniform \in [Tokens(w) -> w.uniforms], greedy \in [Rows(w.cu) -> BOOLEAN],
       synthetic \in BOOLEAN :
      Take("rejection",
           [cu |-> w.cu, vocab_size |-> w.vocab_size, draft |-> draft, target_probs |-> target,
            draft_probs |-> probs, no_draft_probs |-> probs = Absent, inv_q |-> noise,
            argmax |-> [t \in Tokens(w) |-> FirstArgmax(target[t])],
            bonus |-> w.bonus, uniform |-> uniform, rates |-> w.rates, is_greedy |-> greedy,
            max_spec_len |-> w.max_spec_len, synthetic |-> synthetic])

RouteToken ==
  Idle /\ \E r \in Routers : \E scores \in r.scores, bias \in r.biases :
    Take("router", [scores |-> scores, bias |-> bias, c |-> r.c, grouped |-> r.grouped])

LaunchThreads == Idle /\ \E i \in Launches : Take("launch", i)

GatherWindow ==
  Idle /\ \E p \in Prompts : \E c \in 0..p.length - 1 : \E n \in 1..p.length - c :
    Take("multimodal", [prompt |-> p, computed |-> c, scheduled |-> n])

Next == SampleDrafts \/ RecoverToken \/ RouteToken \/ LaunchThreads \/ GatherWindow

Spec == Init /\ [][Next]_task
=============================================================================
