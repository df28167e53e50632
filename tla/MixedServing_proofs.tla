-------------------------- MODULE MixedServing_proofs --------------------------
(***************************************************************************)
(* The hand-shake between execute_model(), sample_tokens() and the engine, *)
(* and the bound of the positions that padding and drafts reach, for every *)
(* set of requests, batch, width and context, and all configurations of    *)
(* the runner.                                                             *)
(***************************************************************************)
EXTENDS MixedServing, FiniteSetTheorems, WellFoundedInduction, TLAPS

(***************************************************************************)
(* The state of a step outlives sample_tokens() only with asynchronous     *)
(* sampling, until the newest output has been collected.                   *)
(***************************************************************************)
Unsampled == /\ mode = "async" /\ pending /\ outs # <<>>
             /\ Last(outs).result = None

HandInv ==
  /\ outs \in Seq(Range(outs))
  /\ mode = "pool" => state = None /\ ~due
  /\ state # None => due \/ Unsampled

-----------------------------------------------------------------------------
(***************************************************************************)
(* The newest output stays where it is when an older one is collected.     *)
(***************************************************************************)
LEMMA OlderCollected ==
  ASSUME NEW s, s \in Seq(Range(s)), s # <<>>
  PROVE  /\ Tail(s) \in Seq(Range(Tail(s)))
         /\ Tail(s) = <<>> => Last(s) = Head(s)
         /\ Tail(s) # <<>> => Last(Tail(s)) = Last(s)
<1> DEFINE S == Range(s)  t == Tail(s)
<1>1. s \in Seq(S)
  OBVIOUS
<1> HIDE DEF S, t
<1>2. /\ Len(s) \in Nat \ {0} /\ t \in Seq(S) /\ Len(t) = Len(s) - 1
      /\ \A i \in 1 .. Len(t) : t[i] = s[i + 1]
      /\ Head(s) = s[1] /\ Last(s) = s[Len(s)] /\ Last(t) = t[Len(t)]
  BY <1>1 DEF Last, t
<1>3. ASSUME t = <<>> PROVE Len(s) = 1
  <2>1. Len(t) = 0
    BY <1>3
  <2> QED  BY <1>2, <2>1
<1>4. ASSUME t # <<>> PROVE Last(t) = Last(s)
  <2>1. Len(t) \in Nat \ {0}
    BY <1>2, <1>4
  <2> QED  BY <1>2, <2>1
<1>5. t \in Seq(Range(t))
  <2>1. Len(t) \in Nat /\ DOMAIN t = 1 .. Len(t) /\ t = [i \in 1 .. Len(t) |-> t[i]]
    BY <1>2
  <2>2. \A i \in 1 .. Len(t) : t[i] \in Range(t)
    BY <2>1 DEF Range
  <2> QED  BY <2>1, <2>2
<1> QED  BY <1>2, <1>3, <1>4, <1>5 DEF t

(***************************************************************************)
(* A new output is the newest one, whatever became of the one before.      *)
(***************************************************************************)
LEMMA NewestAppended ==
  ASSUME NEW s, s \in Seq(Range(s)), NEW e
  PROVE  /\ Append(s, e) \in Seq(Range(Append(s, e)))
         /\ Append(s, e) # <<>> /\ Last(Append(s, e)) = e
         /\ Append(Front(s), e) \in Seq(Range(Append(Front(s), e)))
<1> DEFINE S == Range(s) \cup {e}
<1>1. s \in Seq(S)
  OBVIOUS
<1>2. e \in S
  OBVIOUS
<1> HIDE DEF S
<1>3. ASSUME NEW u \in Seq(S) PROVE u \in Seq(Range(u))
  <2>1. DOMAIN u = 1 .. Len(u) /\ Len(u) \in Nat /\ u = [i \in 1 .. Len(u) |-> u[i]]
    OBVIOUS
  <2>2. \A i \in 1 .. Len(u) : u[i] \in Range(u)
    BY <2>1 DEF Range
  <2> QED  BY <2>1, <2>2
<1>4. Front(s) \in Seq(S)
  <2>1. Len(s) \in Nat
    BY <1>1
  <2>2. \A i \in 1 .. Len(s) - 1 : s[i] \in S
    BY <1>1, <2>1
  <2> QED  BY <1>1, <2>1, <2>2 DEF Front
<1>5. Append(s, e) \in Seq(S) /\ Append(Front(s), e) \in Seq(S)
  BY <1>1, <1>2, <1>4
<1>6. Append(s, e) # <<>> /\ Last(Append(s, e)) = e
  BY <1>1, <1>2 DEF Last
<1> QED  BY <1>3, <1>5, <1>6

-----------------------------------------------------------------------------
(***************************************************************************)
(* Collecting an output never brings a state back, and collecting one that *)
(* was not computed clears it.                                             *)
(***************************************************************************)
LEMMA CollectedState ==
  ASSUME NEW o
  PROVE  /\ GetOutput(o).state \in {state, None}
         /\ o.result = None /\ mode # "pool" => GetOutput(o).state = None
BY DEF GetOutput, GetPoolOutput, GetSampleOutput

(***************************************************************************)
(* Before execute_model() and outside of a step, draining the newest       *)
(* output leaves no state: HandInv implies the property.                   *)
(***************************************************************************)
LEMMA DrainsState == HandInv => HandshakeHolds
<1> SUFFICES ASSUME HandInv, ~due PROVE Drained.state = None
  BY DEF HandshakeHolds
<1>1. CASE state = None
  BY <1>1, CollectedState DEF Drained, Undrained
<1>2. CASE state # None
  BY <1>2, CollectedState DEF HandInv, Unsampled, Drained, Async
<1> QED  BY <1>1, <1>2

(***************************************************************************)
(* The outputs that are left after the newest was drained are a sequence.  *)
(***************************************************************************)
LEMMA DrainedSeq ==
  ASSUME HandInv, NEW d
  PROVE  DrainedOuts(d) \in Seq(Range(DrainedOuts(d)))
BY NewestAppended DEF DrainedOuts, HandInv

(***************************************************************************)
(* Every step keeps the hand-shake.                                        *)
(***************************************************************************)
LEMMA HandStep ==
  ASSUME HandInv, [Next]_vars
  PROVE  HandInv'
<1>1. ASSUME NEW S, NEW order, NEW signal, NEW nd, NEW good,
             Execute(S, order, signal, nd, good), ~due
      PROVE  HandInv'
  <2>1. PICK d : d = Drained
    OBVIOUS
  <2>2. CASE mode = "pool"
    <3>1. /\ outs' = Append(DrainedOuts(d), [st |-> None, result |-> None])
          /\ UNCHANGED <<mode, state>> /\ due' = FALSE
      BY <1>1, <2>1, <2>2 DEF Execute, ExecutePool
    <3>2. outs' \in Seq(Range(outs'))
      BY <3>1, DrainedSeq, NewestAppended
    <3> QED  BY <2>2, <3>1, <3>2 DEF HandInv
  <2>3. CASE mode # "pool"
    <3>1. outs' = DrainedOuts(d) /\ UNCHANGED mode /\ due' = TRUE
      BY <1>1, <2>1, <2>3 DEF Execute, ExecuteForward
    <3>2. outs' \in Seq(Range(outs'))
      BY <3>1, DrainedSeq
    <3> QED  BY <2>3, <3>1, <3>2 DEF HandInv
  <2> QED  BY <2>2, <2>3
<1>2. ASSUME ExecuteModel PROVE HandInv'
  BY <1>1, <1>2 DEF ExecuteModel
<1>3. ASSUME ExecuteNothing PROVE HandInv'
  <2>1. PICK d : d = Drained
    OBVIOUS
  <2>2. outs' = DrainedOuts(d) /\ UNCHANGED <<mode, due>> /\ ~due /\ state' = None
    BY <1>3, <2>1 DEF ExecuteNothing
  <2>3. outs' \in Seq(Range(outs'))
    BY <2>2, DrainedSeq
  <2> QED  BY <2>2, <2>3 DEF HandInv
<1>4. ASSUME SampleTokensSync PROVE HandInv'
  <2>1. PICK e : outs' = Append(outs, e)
    BY <1>4 DEF SampleTokensSync
  <2>2. outs' \in Seq(Range(outs'))
    BY <2>1, NewestAppended DEF HandInv
  <2>3. state' = None /\ due' = FALSE
    BY <1>4 DEF SampleTokensSync
  <2> QED  BY <2>2, <2>3 DEF HandInv
<1>5. ASSUME SampleTokensAsync PROVE HandInv'
  <2>1. /\ outs' = Append(outs, [st |-> state, result |-> None])
        /\ due /\ Async /\ pending' = TRUE /\ due' = FALSE /\ UNCHANGED <<mode, state>>
    BY <1>5 DEF SampleTokensAsync
  <2>2. /\ outs' \in Seq(Range(outs')) /\ outs' # <<>>
        /\ Last(outs') = [st |-> state, result |-> None]
    BY <2>1, NewestAppended DEF HandInv
  <2>3. mode = "async"
    BY <2>1 DEF HandInv, Async
  <2> QED  BY <2>1, <2>2, <2>3 DEF HandInv, Unsampled
<1>6. ASSUME Collect PROVE HandInv'
  <2>1. PICK h : h = Head(outs)
    OBVIOUS
  <2>2. /\ ~due /\ outs # <<>> /\ outs' = Tail(outs) /\ UNCHANGED <<mode, due>>
        /\ state' = GetOutput(h).state /\ pending' = GetOutput(h).pending
    BY <1>6, <2>1 DEF Collect
  <2>3. /\ outs' \in Seq(Range(outs'))
        /\ outs' = <<>> => Last(outs) = h
        /\ outs' # <<>> => Last(outs') = Last(outs)
    BY <2>1, <2>2, OlderCollected DEF HandInv
  <2>4. CASE state = None
    <3>1. state' = None
      BY <2>2, <2>4, CollectedState
    <3> QED  BY <2>2, <2>3, <3>1 DEF HandInv
  <2>5. CASE state # None /\ h.result = None
    <3>1. state' = None
      BY <2>2, <2>5, CollectedState DEF HandInv
    <3> QED  BY <2>2, <2>3, <3>1 DEF HandInv
  <2>6. CASE state # None /\ h.result # None
    <3>1. UNCHANGED <<state, pending>>
      BY <2>2, <2>6 DEF GetOutput
    <3> QED  BY <2>2, <2>3, <2>6, <3>1 DEF HandInv, Unsampled
  <2> QED  BY <2>4, <2>5, <2>6
<1>7. ASSUME (\E r \in Requests : Arrive(r)) \/ UNCHANGED vars PROVE HandInv'
  <2>1. UNCHANGED <<mode, state, pending, due, outs>>
    BY <1>7 DEF Arrive, device, runner, vars
  <2> QED  BY <2>1 DEF HandInv, Unsampled
<1> QED  BY <1>2, <1>3, <1>4, <1>5, <1>6, <1>7 DEF Next

(***************************************************************************)
(* HandshakeHolds: execute_model() never finds the state of a step that    *)
(* nobody has sampled, because the newest asynchronous output is drained   *)
(* before the batch changes.                                               *)
(***************************************************************************)
THEOREM HandshakeKept == Spec => []HandshakeHolds
<1>1. Init => HandInv
  <2>1. ASSUME Init PROVE outs \in Seq(Range(outs))
    BY <2>1 DEF Init, Range
  <2> QED  BY <2>1 DEF Init, HandInv
<1>2. HandInv /\ [Next]_vars => HandInv'
  BY HandStep
<1> QED  BY <1>1, <1>2, DrainsState, PTL DEF Spec

-----------------------------------------------------------------------------
(***************************************************************************)
(* Positions.  What keeps drafts and padding inside the context: without   *)
(* asynchronous sampling no token comes from prev, so a position beyond    *)
(* the table is padding; the outputs tell the scheduler how many tokens    *)
(* were accepted; and a row of a decode buffer is cleared by its fields.   *)
(***************************************************************************)
Rated(st) == \A i \in DOMAIN rows : st.good[i] \in 0 .. K

SyncInv ==
  /\ prev = <<>>
  /\ due => Rated(state)
  /\ \A i \in DOMAIN outs :
       /\ outs[i] = [st |-> outs[i].st, result |-> Result(outs[i].st)]
       /\ outs[i].result # None /\ Rated(outs[i].st)

BufferInv == /\ DOMAIN buf = {0, K}
             /\ \A k \in {0, K} : \A j \in 1 .. MaxSeqs :
                  DOMAIN buf[k][j] = {"slot", "entries"}

PosInv ==
  /\ computed \in [Requests -> Nat] /\ total \in [Requests -> Nat]
  /\ rows \in Seq(Requests) /\ BufferInv
  /\ ~Async => SyncInv
  /\ InContext

(* Nothing was executed beyond the context.                                *)
Blank(cache) == \A s \in Slots : \A p \in MaxLen .. MaxLen + K - 1 : cache[s][p] = None

(* A row that goes to the cache stays inside the context.                  *)
RowWithin(w) == w.slot \in Slots => \A e \in ToSet(w.entries) : e.pos \in Int /\ e.pos < MaxLen

(* What execute_model() leaves after a step x of the rows rws.             *)
StaysWithin(x, rws, good) ==
  /\ Blank(x.kv)
  /\ DOMAIN x.buf = {0, K}
  /\ \A k \in {0, K} : \A j \in 1 .. MaxSeqs : DOMAIN x.buf[k][j] = {"slot", "entries"}
  /\ x.st.good = [i \in DOMAIN rws |-> good[rws[i]]]

(***************************************************************************)
(* The smaller of two numbers.                                             *)
(***************************************************************************)
LEMMA MinOfTwo ==
  ASSUME NEW a \in Int, NEW b \in Int
  PROVE  Min({a, b}) = IF a <= b THEN a ELSE b
BY DEF Min

(***************************************************************************)
(* The number of rows that may be accepted, as the engine is told it.      *)
(***************************************************************************)
LEMMA ResultCounts ==
  ASSUME NEW st, Rated(st), rows \in Seq(Requests)
  PROVE  /\ Result(st) # None
         /\ \A r \in DOMAIN Result(st) : Result(st)[r].n \in Nat
<1> DEFINE R == {rows[i] : i \in {j \in DOMAIN rows : ~st.discard[j]}}
<1>1. R \in SUBSET Requests /\ K \in Nat
  BY SizesAssumption
<1>2. \A r \in R : RowOf(r) \in DOMAIN rows
  BY DEF RowOf
<1>3. \A i \in DOMAIN rows : Sampled(st, i) \in [n : 1 .. K + 1, ok : BOOLEAN]
  BY <1>1 DEF Sampled, Rated
<1>4. Result(st) = [r \in R |-> Sampled(st, RowOf(r))]
  BY DEF Result
<1> HIDE DEF R
<1>5. Result(st) \in [R -> [n : 1 .. K + 1, ok : BOOLEAN]]
  BY <1>2, <1>3, <1>4
<1>6. \A r \in R : Result(st)[r].n \in 1 .. K + 1
  BY <1>5
<1> QED  BY <1>1, <1>4, <1>5, <1>6, ResultAssumption

-----------------------------------------------------------------------------
(***************************************************************************)
(* Executing rows that stay inside the context leaves the rest blank.      *)
(***************************************************************************)
LEMMA ExecutedWithin ==
  ASSUME NEW cache, Blank(cache), NEW rws, \A w \in rws : RowWithin(w)
  PROVE  Blank(Executed(cache, rws))
<1> SUFFICES ASSUME NEW s \in Slots, NEW p \in MaxLen .. MaxLen + K - 1
             PROVE  Executed(cache, rws)[s][p] = None
  BY DEF Blank
<1> DEFINE hits == {e \in UNION {ToSet(w.entries) : w \in {v \in rws : v.slot = s}} : e.pos = p}
<1>1. p \in Cells /\ p \in Int /\ MaxLen <= p
  BY SizesAssumption DEF Cells
<1>2. hits = {}
  BY <1>1, SizesAssumption DEF RowWithin
<1>3. Executed(cache, rws)[s][p] = cache[s][p]
  BY <1>1, <1>2 DEF Executed
<1> QED  BY <1>3 DEF Blank

(***************************************************************************)
(* The tokens asked of a row end inside the context, drafts included.      *)
(***************************************************************************)
LEMMA AskedWithin ==
  ASSUME PosInv, mode # "pool", NEW r \in Schedulable,
         NEW x \in Signals(r), NEW y \in Drafts(r)
  PROVE  x \in Nat /\ y \in Nat /\ computed[r] + x + y <= MaxLen
<1>1. /\ r \in Requests /\ computed[r] \in Nat /\ total[r] \in Nat
      /\ computed[r] < total[r] /\ total[r] < MaxLen
      /\ PromptLen[r] \in Nat /\ PromptLen[r] < MaxLen /\ MaxLen \in Nat /\ K \in Nat
  BY SizesAssumption DEF PosInv, Schedulable, Live
<1>2. CASE IsPrefill(r)
  BY <1>1, <1>2 DEF Signals, Drafts, IsPrefill
<1>3. CASE ~IsPrefill(r)
  <2>1. x = total[r] - computed[r]
    BY <1>3 DEF Signals
  <2>2. y = 0 \/ y = Min({K, MaxLen - 1 - total[r]})
    BY <1>3 DEF Drafts
  <2>3. y \in Nat /\ y <= MaxLen - 1 - total[r]
    BY <1>1, <2>2, MinOfTwo
  <2> QED  BY <1>1, <2>1, <2>3
<1> QED  BY <1>2, <1>3

(***************************************************************************)
(* A row's inputs stay inside the context when it has no more tokens than  *)
(* were asked of it, and also when it was padded to the width of the       *)
(* kernel: the columns the table has beyond the context hold padding.      *)
(***************************************************************************)
LEMMA InputsWithin ==
  ASSUME NEW tab, NEW prv, NEW r \in Requests, computed[r] \in Nat, NEW w \in Nat
  PROVE  /\ computed[r] + w <= MaxLen =>
              \A e \in ToSet(Inputs(tab, prv, r, w)) : e.pos \in Int /\ e.pos < MaxLen
         /\ computed[r] + w <= MaxLen \/ (max_decode_tokens > 1 /\ prv = <<>>) =>
              \A e \in ToSet(Marked(Inputs(tab, prv, r, w))) : e.pos \in Int /\ e.pos < MaxLen
<1> DEFINE f == Inputs(tab, prv, r, w)
           m == Marked(f)
<1>1. /\ DOMAIN f = 1 .. w
      /\ \A j \in 1 .. w : /\ f[j].pos = computed[r] + j - 1 /\ DOMAIN f[j] = {"pos", "tok"}
                           /\ prv = <<>> => f[j].tok = TokenAt(tab, r, f[j].pos)
  BY DEF Inputs, Scattered
<1>2. MaxLen \in Nat
  BY SizesAssumption
<1>3. \A j \in 1 .. w : f[j].pos \in Int /\ (computed[r] + w <= MaxLen => f[j].pos < MaxLen)
  BY <1>1, <1>2
<1>4. computed[r] + w <= MaxLen => \A e \in ToSet(f) : e.pos \in Int /\ e.pos < MaxLen
  BY <1>1, <1>3 DEF ToSet
<1>5. CASE ~(max_decode_tokens > 1)
  BY <1>4, <1>5 DEF Marked
<1>6. CASE max_decode_tokens > 1
  <2>1. m = [j \in 1 .. w |-> IF f[j].tok = Pad THEN [f[j] EXCEPT !.pos = -1] ELSE f[j]]
    BY <1>1, <1>6 DEF Marked
  <2> HIDE DEF f, m
  <2>2. \A j \in 1 .. w : m[j].pos = IF f[j].tok = Pad THEN -1 ELSE f[j].pos
    BY <1>1, <2>1
  <2>3. ASSUME NEW j \in 1 .. w, computed[r] + w <= MaxLen \/ prv = <<>>
        PROVE  m[j].pos \in Int /\ m[j].pos < MaxLen
    <3>1. CASE f[j].tok = Pad
      BY <1>2, <2>2, <3>1
    <3>2. CASE f[j].tok # Pad
      <4>1. f[j].pos < MaxLen
        BY <1>1, <1>3, <2>3, <3>2 DEF TokenAt
      <4> QED  BY <1>3, <2>2, <3>2, <4>1
    <3> QED  BY <3>1, <3>2
  <2>4. computed[r] + w <= MaxLen \/ prv = <<>> =>
          \A e \in ToSet(m) : e.pos \in Int /\ e.pos < MaxLen
    BY <2>1, <2>3 DEF ToSet
  <2> QED  BY <1>4, <1>6, <2>4 DEF f, m
<1> QED  BY <1>5, <1>6

(***************************************************************************)
(* A forward pass stays inside the context and leaves the buffers rows of  *)
(* their form.                                                             *)
(***************************************************************************)
LEMMA StepWithin ==
  ASSUME PosInv, mode # "pool", NEW S \in SUBSET Schedulable,
         NEW rws \in Seq(S), NEW signal, NEW nd, NEW good \in [S -> 0 .. K], NEW d,
         \A r \in S : signal[r] \in Signals(r) /\ nd[r] \in Drafts(r),
         ~Async => d.prev = <<>>
  PROVE  StaysWithin(Step(rws, signal, nd, good, d), rws, good)
<1> DEFINE D == {i \in DOMAIN rws : ~IsPrefill(rws[i])}
           k == ActiveK(Cardinality(D), nd)
           num == DecodeRows(Len(rws), Cardinality(D))
           tab == Updated(d.table, nd, good)
           n(i) == signal[rws[i]] + nd[rws[i]]
           inputs == [i \in DOMAIN rws |-> Inputs(tab, d.prev, rws[i], Width(i, num, k, n(i)))]
           P == {[slot |-> slot[rws[i]], entries |-> inputs[i]] : i \in num + 1 .. Len(rws)}
           prefilled == Executed(HandedOver(rws), P)
           dbuf == DecodeBuffer(buf[k], rws, inputs, num)
           B == {dbuf[j] : j \in 1 .. MaxSeqs}
<1>1. /\ Step(rws, signal, nd, good, d).kv =
           (IF num = 0 THEN prefilled ELSE Executed(prefilled, B))
      /\ Step(rws, signal, nd, good, d).buf =
           (IF num = 0 THEN buf ELSE [buf EXCEPT ![k] = dbuf])
      /\ Step(rws, signal, nd, good, d).st.good = [i \in DOMAIN rws |-> good[rws[i]]]
  BY DEF Step
<1>2. /\ DOMAIN rws = 1 .. Len(rws) /\ Len(rws) \in Nat
      /\ \A i \in 1 .. Len(rws) : rws[i] \in S
      /\ MaxLen \in Nat /\ K \in Nat
  BY SizesAssumption
<1>3. num \in 0 .. Len(rws)
  <2>1. IsFiniteSet(1 .. Len(rws)) /\ Cardinality(1 .. Len(rws)) = Len(rws)
    BY <1>2, FS_Interval
  <2>2. Cardinality(D) \in Nat /\ Cardinality(D) <= Len(rws)
    BY <1>2, <2>1, FS_Subset, FS_CardinalityType
  <2> QED  BY <1>2, <2>2 DEF DecodeRows
<1>4. k \in {0, K}
  <2>1. decode_ks # {} /\ decode_ks \subseteq {0, K}
    BY DEF decode_ks
  <2> QED  BY <2>1 DEF ActiveK
<1> HIDE DEF k, num, tab
<1>5. \A i \in 1 .. Len(rws) : /\ rws[i] \in Requests /\ computed[rws[i]] \in Nat
                               /\ n(i) \in Nat /\ computed[rws[i]] + n(i) <= MaxLen
  <2>1. SUFFICES ASSUME NEW r \in S
                 PROVE  /\ r \in Requests /\ computed[r] \in Nat
                        /\ signal[r] + nd[r] \in Nat /\ computed[r] + (signal[r] + nd[r]) <= MaxLen
    BY <1>2
  <2>2. r \in Requests /\ r \in Schedulable /\ computed[r] \in Nat
    BY DEF PosInv, Schedulable, Live
  <2>3. signal[r] \in Nat /\ nd[r] \in Nat /\ computed[r] + signal[r] + nd[r] <= MaxLen
    BY <2>2, AskedWithin
  <2> QED  BY <1>2, <2>2, <2>3
<1>6. \A i \in num + 1 .. Len(rws) : \A e \in ToSet(inputs[i]) : e.pos \in Int /\ e.pos < MaxLen
  <2> SUFFICES ASSUME NEW i \in num + 1 .. Len(rws)
               PROVE  \A e \in ToSet(inputs[i]) : e.pos \in Int /\ e.pos < MaxLen
    OBVIOUS
  <2>1. i \in 1 .. Len(rws) /\ ~(i <= num)
    BY <1>2, <1>3
  <2>2. inputs[i] = Inputs(tab, d.prev, rws[i], n(i))
    BY <1>2, <2>1 DEF Width
  <2> QED  BY <1>5, <2>1, <2>2, InputsWithin
<1>7. \A j \in 1 .. num : \A e \in ToSet(Marked(inputs[j])) : e.pos \in Int /\ e.pos < MaxLen
  <2> SUFFICES ASSUME NEW j \in 1 .. num
               PROVE  \A e \in ToSet(Marked(inputs[j])) : e.pos \in Int /\ e.pos < MaxLen
    OBVIOUS
  <2>1. j \in 1 .. Len(rws) /\ j <= num
    BY <1>2, <1>3
  <2>2. PICK w : w = Width(j, num, k, n(j))
    OBVIOUS
  <2>3. inputs[j] = Inputs(tab, d.prev, rws[j], w)
    BY <1>2, <2>1, <2>2
  <2>4. CASE max_decode_tokens > 1
    <3>1. d.prev = <<>> /\ w = k + 1
      BY <2>1, <2>2, <2>4 DEF max_decode_tokens, Width
    <3>2. w \in Nat
      BY <1>2, <1>4, <3>1
    <3> QED  BY <1>5, <2>1, <2>3, <2>4, <3>1, <3>2, InputsWithin
  <2>5. CASE ~(max_decode_tokens > 1)
    <3>1. w = n(j)
      BY <2>2, <2>5 DEF Width
    <3>2. /\ rws[j] \in Requests /\ computed[rws[j]] \in Nat
          /\ w \in Nat /\ computed[rws[j]] + w <= MaxLen
      BY <1>5, <2>1, <3>1
    <3> QED  BY <2>3, <3>2, InputsWithin
  <2> QED  BY <2>4, <2>5
<1> HIDE DEF inputs
<1>8. \A j \in 1 .. MaxSeqs : /\ j <= num => /\ dbuf[j].entries = Marked(inputs[j])
                                             /\ DOMAIN dbuf[j] = {"slot", "entries"}
                              /\ j > num => /\ dbuf[j].slot = 0
                                            /\ DOMAIN dbuf[j] = {"slot", "entries"}
  BY <1>3, <1>4 DEF DecodeBuffer, Cleared, PosInv, BufferInv
<1>9. Blank(HandedOver(rws))
  <2>1. SUFFICES ASSUME NEW s \in Slots, NEW p \in MaxLen .. MaxLen + K - 1
                 PROVE  HandedOver(rws)[s][p] = None
    BY DEF Blank
  <2>2. p \in Cells /\ p >= MaxLen /\ p \in Int /\ kv[s][p] = None
    BY <1>2 DEF Cells, PosInv, InContext
  <2>3. \A i \in DOMAIN rws : ~(IsPrefill(rws[i]) /\ p < computed[rws[i]])
    <3>1. \A r \in Requests : PromptLen[r] \in Nat /\ PromptLen[r] < MaxLen
      BY SizesAssumption
    <3> QED  BY <1>2, <1>5, <2>2, <3>1 DEF IsPrefill
  <2> QED  BY <2>2, <2>3 DEF HandedOver
<1>10. Blank(prefilled)
  <2>1. \A w \in P : RowWithin(w)
    BY <1>6 DEF RowWithin
  <2> QED  BY <1>9, <2>1, ExecutedWithin
<1>11. Blank(Executed(prefilled, B))
  <2>1. \A j \in 1 .. MaxSeqs : RowWithin(dbuf[j])
    <3> SUFFICES ASSUME NEW j \in 1 .. MaxSeqs PROVE RowWithin(dbuf[j])
      OBVIOUS
    <3>1. CASE j <= num
      BY <1>3, <1>7, <1>8, <3>1 DEF RowWithin
    <3>2. CASE j > num
      BY <1>8, <3>2 DEF RowWithin, Slots
    <3> QED  BY <1>3, <3>1, <3>2
  <2> QED  BY <1>10, <2>1, ExecutedWithin
<1>12. /\ DOMAIN Step(rws, signal, nd, good, d).buf = {0, K}
       /\ \A l \in {0, K} : \A j \in 1 .. MaxSeqs :
            DOMAIN Step(rws, signal, nd, good, d).buf[l][j] = {"slot", "entries"}
  <2>1. \A j \in 1 .. MaxSeqs : DOMAIN dbuf[j] = {"slot", "entries"}
    BY <1>3, <1>8
  <2> HIDE DEF dbuf
  <2> QED  BY <1>1, <1>4, <2>1 DEF PosInv, BufferInv
<1> QED  BY <1>1, <1>10, <1>11, <1>12 DEF StaysWithin

-----------------------------------------------------------------------------
(***************************************************************************)
(* Reordering a batch only moves its rows.                                 *)
(***************************************************************************)
LEMMA ReorderedRows ==
  ASSUME NEW S \in SUBSET Requests, NEW order \in SetToSeqs(S)
  PROVE  Reordered(order) \in Seq(S)
<1>1. IsFiniteSet(S) /\ Cardinality(S) \in Nat
  BY RequestsAssumption, FS_Subset, FS_CardinalityType
<1>2. order \in [1 .. Cardinality(S) -> S]
  BY DEF SetToSeqs
<1>3. Reordered(order) \in [1 .. Cardinality(S) -> S]
  BY <1>2 DEF Reordered
<1> QED  BY <1>1, <1>3

(***************************************************************************)
(* Without asynchronous sampling there is one output at a time, and a new  *)
(* step finds it collected.                                                *)
(***************************************************************************)
LEMMA NothingLeft ==
  ASSUME HandInv, ~Async, Len(outs) < QueueSize
  PROVE  outs = <<>> /\ Drained = Undrained /\ DrainedOuts(Drained) = <<>>
<1>1. outs = <<>>
  BY DEF HandInv, QueueSize
<1> QED  BY <1>1 DEF Drained, Undrained, DrainedOuts

(***************************************************************************)
(* execute_model() keeps the positions.                                    *)
(***************************************************************************)
LEMMA ExecuteWithin ==
  ASSUME HandInv, PosInv, ~due, Len(outs) < QueueSize,
         NEW S \in SUBSET Schedulable, NEW order \in SetToSeqs(S),
         NEW signal \in [S -> 1 .. MaxLen], NEW nd \in [S -> 0 .. K], NEW good \in [S -> 0 .. K],
         \A r \in S : signal[r] \in Signals(r) /\ nd[r] \in Drafts(r),
         Execute(S, order, signal, nd, good)
  PROVE  PosInv'
<1>1. PICK d : d = Drained
  OBVIOUS
<1>2. PICK rws \in Seq(S) : rws = Reordered(order)
  <2>1. S \in SUBSET Requests
    BY DEF Schedulable, Live
  <2> QED  BY <2>1, ReorderedRows
<1>3. /\ S \in SUBSET Requests /\ rws \in Seq(Requests)
  BY DEF Schedulable, Live
<1>4. rows' \in Seq(Requests) /\ rows' = rws /\ UNCHANGED mode
  BY <1>2, <1>3 DEF Execute
<1>5. computed' \in [Requests -> Nat] /\ total' \in [Requests -> Nat]
  <2>1. \A r \in S : computed[r] + signal[r] + nd[r] \in Nat
    BY <1>3, SizesAssumption DEF PosInv
  <2> QED  BY <2>1 DEF Execute, PosInv
<1>6. CASE mode = "pool"
  <2>1. UNCHANGED <<kv, buf>>
    BY <1>6 DEF Execute, ExecutePool
  <2>2. BufferInv' /\ InContext' /\ Async'
    BY <1>4, <1>6, <2>1 DEF PosInv, BufferInv, InContext, Async
  <2> QED  BY <1>4, <1>5, <2>2 DEF PosInv
<1>7. CASE mode # "pool"
  <2>1. ~Async => d.prev = <<>> /\ DrainedOuts(d) = <<>>
    BY <1>1, NothingLeft DEF PosInv, SyncInv, Undrained
  <2>2. PICK x : x = Step(rws, signal, nd, good, d)
    OBVIOUS
  <2>3. /\ Blank(x.kv) /\ DOMAIN x.buf = {0, K}
        /\ \A k \in {0, K} : \A j \in 1 .. MaxSeqs : DOMAIN x.buf[k][j] = {"slot", "entries"}
        /\ x.st.good = [i \in DOMAIN rws |-> good[rws[i]]]
    <3>1. ~Async => d.prev = <<>>
      BY <2>1
    <3>2. StaysWithin(Step(rws, signal, nd, good, d), rws, good)
      BY <1>7, <3>1, StepWithin, Zenon
    <3> QED  BY <2>2, <3>2 DEF StaysWithin
  <2>4. /\ kv' = x.kv /\ buf' = x.buf /\ state' = x.st /\ prev' = d.prev
        /\ outs' = DrainedOuts(d)
    BY <1>1, <1>2, <1>7, <2>2 DEF Execute, ExecuteForward
  <2>5. InContext' /\ BufferInv'
    BY <2>3, <2>4 DEF InContext, Blank, BufferInv
  <2>6. ~Async' => SyncInv'
    <3>1. \A i \in DOMAIN rws : good[rws[i]] \in 0 .. K
      OBVIOUS
    <3>2. Rated(state)'
      BY <1>4, <2>3, <2>4, <3>1 DEF Rated
    <3>3. DOMAIN (<<>>) = {}
      OBVIOUS
    <3> QED  BY <1>4, <2>1, <2>4, <3>2, <3>3 DEF SyncInv, Async
  <2> QED  BY <1>4, <1>5, <2>5, <2>6 DEF PosInv
<1> QED  BY <1>6, <1>7

(***************************************************************************)
(* Every step keeps the positions.                                         *)
(***************************************************************************)
LEMMA PosStep ==
  ASSUME HandInv, PosInv, [Next]_vars
  PROVE  PosInv'
<1>1. ASSUME ExecuteModel PROVE PosInv'
  BY <1>1, ExecuteWithin DEF ExecuteModel
<1>2. ASSUME ExecuteNothing PROVE PosInv'
  <2>1. /\ UNCHANGED <<mode, computed, total, kv, buf, due>> /\ ~due
        /\ rows' = <<>> /\ prev' = Drained.prev /\ outs' = DrainedOuts(Drained)
        /\ Len(outs) < QueueSize
    BY <1>2 DEF ExecuteNothing, scheduler, device
  <2>2. ~Async => prev' = <<>> /\ outs' = <<>>
    BY <2>1, NothingLeft DEF PosInv, SyncInv, Undrained
  <2>3. BufferInv' /\ InContext' /\ rows' \in Seq(Requests)
    BY <2>1 DEF PosInv, BufferInv, InContext
  <2>4. DOMAIN (<<>>) = {}
    OBVIOUS
  <2> QED  BY <2>1, <2>2, <2>3, <2>4 DEF PosInv, SyncInv, Async
<1>3. ASSUME SampleTokensSync PROVE PosInv'
  <2>1. /\ UNCHANGED <<mode, computed, total, rows, kv, buf>> /\ due /\ ~Async
        /\ outs' = Append(outs, [st |-> state, result |-> Result(state)])
        /\ prev' = <<>> /\ due' = FALSE
    BY <1>3 DEF SampleTokensSync, scheduler, device
  <2>2. BufferInv' /\ InContext'
    BY <2>1 DEF PosInv, BufferInv, InContext
  <2>3. Result(state) # None /\ Rated(state)
    BY <2>1, ResultCounts DEF PosInv, SyncInv
  <2>4. ASSUME NEW i \in DOMAIN outs'
        PROVE  /\ outs'[i] = [st |-> outs'[i].st, result |-> Result(outs'[i].st)]
               /\ outs'[i].result # None /\ Rated(outs'[i].st)
    <3>1. \/ i \in DOMAIN outs /\ outs'[i] = outs[i]
          \/ outs'[i] = [st |-> state, result |-> Result(state)]
      BY <2>1, <2>4 DEF HandInv
    <3> QED  BY <2>1, <2>3, <3>1 DEF PosInv, SyncInv
  <2>5. \A o : Result(o)' = Result(o) /\ (Rated(o) => Rated(o)')
    BY <2>1 DEF Result, RowOf, Sampled, Rated
  <2>6. SyncInv'
    BY <2>1, <2>4, <2>5 DEF SyncInv
  <2> QED  BY <2>1, <2>2, <2>6 DEF PosInv
<1>4. ASSUME SampleTokensAsync PROVE PosInv'
  <2>1. UNCHANGED <<mode, computed, total, rows, kv, buf>> /\ Async
    BY <1>4 DEF SampleTokensAsync, scheduler, batch, device
  <2> QED  BY <2>1 DEF PosInv, BufferInv, InContext, Async
<1>5. ASSUME Collect PROVE PosInv'
  <2>1. PICK d : d = GetOutput(Head(outs))
    OBVIOUS
  <2>2. PICK gained : gained = [r \in Requests |-> IF r \in DOMAIN d.o.result /\ phase[r] = "live"
                                                      /\ ~Async THEN d.o.result[r].n ELSE 0]
    OBVIOUS
  <2>3. /\ UNCHANGED <<mode, rows, kv, buf, due>> /\ outs # <<>> /\ outs' = Tail(outs)
        /\ prev' = d.prev
        /\ total' = [r \in Requests |-> total[r] + gained[r]]
        /\ computed' = [r \in Requests |-> IF gained[r] > 0 THEN total[r] + gained[r] - 1
                                           ELSE computed[r]]
    BY <1>5, <2>1, <2>2 DEF Collect, device
  <2>4. CASE ~Async
    <3>1. PICK o : o = Head(outs)
      OBVIOUS
    <3>2. 1 \in DOMAIN outs /\ o = outs[1]
      BY <2>3, <3>1 DEF HandInv
    <3>3. /\ o = [st |-> o.st, result |-> Result(o.st)] /\ o.result # None
          /\ Rated(o.st) /\ prev = <<>>
      BY <2>4, <3>2 DEF PosInv, SyncInv
    <3>4. d.o.result = Result(o.st) /\ d.prev = <<>>
      BY <2>1, <3>1, <3>3 DEF GetOutput
    <3>5. \A r \in DOMAIN d.o.result : d.o.result[r].n \in Nat
      BY <3>3, <3>4, ResultCounts DEF PosInv
    <3>6. gained \in [Requests -> Nat]
      BY <2>2, <3>5
    <3>7. total' \in [Requests -> Nat] /\ computed' \in [Requests -> Nat]
      BY <2>3, <3>6 DEF PosInv
    <3>8. \A st : Result(st)' = Result(st) /\ (Rated(st) => Rated(st)')
      BY <2>3, <2>4 DEF Result, RowOf, Sampled, Rated
    <3>9. \A i \in DOMAIN outs' : i + 1 \in DOMAIN outs /\ outs'[i] = outs[i + 1]
      BY <2>3 DEF HandInv
    <3>10. ~due
      BY <1>5 DEF Collect
    <3>11. SyncInv'
      <4>1. ASSUME NEW i \in DOMAIN outs'
            PROVE  /\ outs'[i] = [st |-> outs'[i].st, result |-> Result(outs'[i].st)]
                   /\ outs'[i].result # None /\ Rated(outs'[i].st)
        BY <2>4, <3>9 DEF PosInv, SyncInv
      <4> QED  BY <2>3, <3>4, <3>8, <3>10, <4>1 DEF SyncInv
    <3> QED  BY <2>3, <3>7, <3>11 DEF PosInv, BufferInv, InContext
  <2>5. CASE Async
    <3>1. gained = [r \in Requests |-> 0]
      BY <2>2, <2>5
    <3>2. total' \in [Requests -> Nat] /\ computed' \in [Requests -> Nat]
      BY <2>3, <3>1 DEF PosInv
    <3>3. Async'
      BY <2>3, <2>5 DEF Async
    <3> QED  BY <2>3, <3>2, <3>3 DEF PosInv, BufferInv, InContext
  <2> QED  BY <2>4, <2>5
<1>6. ASSUME NEW r \in Requests, Arrive(r) PROVE PosInv'
  <2>1. /\ UNCHANGED <<mode, total, rows, prev, kv, buf, state, due, outs>>
        /\ computed' = [computed EXCEPT ![r] = IF mode = "consumer" THEN PromptLen[r] - 1 ELSE 0]
    BY <1>6 DEF Arrive, device, runner
  <2>2. computed' \in [Requests -> Nat]
    <3>1. PromptLen[r] - 1 \in Nat
      BY SizesAssumption
    <3> QED  BY <2>1, <3>1 DEF PosInv
  <2>3. \A st : Result(st)' = Result(st) /\ (Rated(st) => Rated(st)')
    BY <2>1 DEF Result, RowOf, Sampled, Rated
  <2>4. ~Async' => SyncInv'
    BY <2>1, <2>3 DEF PosInv, SyncInv, Async
  <2> QED  BY <2>1, <2>2, <2>4 DEF PosInv, BufferInv, InContext
<1>7. ASSUME UNCHANGED vars PROVE PosInv'
  <2>1. UNCHANGED <<mode, computed, total, rows, prev, kv, buf, state, due, outs>>
    BY <1>7 DEF vars, scheduler, batch, device, runner
  <2>2. \A st : Result(st)' = Result(st) /\ (Rated(st) => Rated(st)')
    BY <2>1 DEF Result, RowOf, Sampled, Rated
  <2>3. ~Async' => SyncInv'
    BY <2>1, <2>2 DEF PosInv, SyncInv, Async
  <2> QED  BY <2>1, <2>3 DEF PosInv, BufferInv, InContext
<1> QED  BY <1>1, <1>2, <1>3, <1>4, <1>5, <1>6, <1>7 DEF Next

(***************************************************************************)
(* Nothing has a position before the first request.                        *)
(***************************************************************************)
LEMMA InitPositions ==
  ASSUME Init
  PROVE  HandInv /\ PosInv
<1>1. outs \in Seq(Range(outs)) /\ DOMAIN outs = {}
  BY DEF Init, Range
<1>2. PosInv
  <2>1. computed \in [Requests -> Nat] /\ total \in [Requests -> Nat]
    BY SizesAssumption DEF Init
  <2>2. BufferInv
    BY DEF Init, BufferInv, NoRow
  <2>3. InContext
    BY SizesAssumption DEF Init, InContext, Cells
  <2>4. SyncInv
    BY <1>1 DEF Init, SyncInv
  <2>5. rows \in Seq(Requests)
    BY DEF Init
  <2> QED  BY <2>1, <2>2, <2>3, <2>4, <2>5 DEF PosInv
<1> QED  BY <1>1, <1>2 DEF Init, HandInv

(***************************************************************************)
(* InContext: whatever was padded, drafted, reordered or left over in a    *)
(* shared decode buffer, nothing is executed at a position beyond the      *)
(* context.                                                                *)
(***************************************************************************)
THEOREM PositionsInContext == Spec => []InContext
<1>1. Init => HandInv /\ PosInv
  BY InitPositions
<1>2. HandInv /\ PosInv /\ [Next]_vars => HandInv' /\ PosInv'
  BY HandStep, PosStep
<1>3. PosInv => InContext
  BY DEF PosInv
<1> QED  BY <1>1, <1>2, <1>3, PTL DEF Spec

-----------------------------------------------------------------------------
(***************************************************************************)
(* A set of natural numbers has a least element.                           *)
(***************************************************************************)
LEMMA LeastNat ==
  ASSUME NEW T, T \subseteq Nat, T # {}
  PROVE  \E x \in T : \A y \in T : x <= y
<1>1. PICK x \in T : \A y \in T : ~ (<<y, x>> \in OpToRel(<, Nat))
  BY NatLessThanWellFounded, WFMin
<1>2. \A y \in T : y < x => <<y, x>> \in OpToRel(<, Nat)
  BY DEF OpToRel
<1>3. \A y \in T : ~(y < x)
  BY <1>1, <1>2, Zenon
<1>4. \A y \in T : x <= y
  BY <1>3, SMT
<1> QED  BY <1>4, Zenon

(***************************************************************************)
(* What holds of 0, and of i + 1 when it holds of i, holds up to n: T is   *)
(* the set of numbers it holds of.                                         *)
(***************************************************************************)
LEMMA UpTo ==
  ASSUME NEW n \in Nat, NEW T, 0 \in T, \A i \in 0 .. n - 1 : i \in T => i + 1 \in T
  PROVE  \A i \in 0 .. n : i \in T
<1> SUFFICES ASSUME NEW k \in 0 .. n, k \notin T PROVE FALSE
  OBVIOUS
<1> DEFINE B == {i \in 0 .. n : i \notin T}
<1>1. B \subseteq Nat /\ B # {}
  OBVIOUS
<1>2. PICK b \in B : \A y \in B : b <= y
  BY <1>1, LeastNat, Zenon
<1>3. b # 0 /\ b \in 0 .. n
  BY <1>2
<1>4. b - 1 \in 0 .. n - 1 /\ b - 1 \notin B /\ b - 1 \in 0 .. n
  BY <1>2, <1>3
<1>5. b - 1 \in T
  BY <1>4
<1>6. (b - 1) + 1 \in T
  BY <1>4, <1>5
<1> QED  BY <1>2, <1>3, <1>6

(***************************************************************************)
(* CuSampled is the sum it is meant to be, of integers.                    *)
(***************************************************************************)
LEMMA CuSampledRecurs ==
  ASSUME NEW n \in Nat, NEW drafts \in [1 .. n -> Int]
  PROVE  /\ CuSampled(drafts) \in [0 .. n -> Int] /\ CuSampled(drafts)[0] = 0
         /\ \A i \in 1 .. n : CuSampled(drafts)[i] = CuSampled(drafts)[i - 1] + drafts[i] + 1
<1> DEFINE Sums(f, m) == f = [i \in 0 .. m |-> IF i = 0 THEN 0 ELSE f[i - 1] + drafts[i] + 1]
           T == {m \in 0 .. n : \E f : Sums(f, m)}
<1>1. 0 \in T
  <2>1. Sums([i \in 0 .. 0 |-> 0], 0)
    OBVIOUS
  <2> HIDE DEF Sums
  <2> QED  BY <2>1
<1>2. ASSUME NEW m \in 0 .. n - 1, m \in T PROVE m + 1 \in T
  <2>1. PICK f : Sums(f, m)
    BY <1>2
  <2> DEFINE g == [i \in 0 .. m + 1 |-> IF i = m + 1 THEN f[m] + drafts[m + 1] + 1 ELSE f[i]]
  <2>2. Sums(g, m + 1)
    <3>1. ASSUME NEW i \in 0 .. m + 1
          PROVE  g[i] = IF i = 0 THEN 0 ELSE g[i - 1] + drafts[i] + 1
      <4>1. CASE i = m + 1
        BY <4>1
      <4>2. CASE i \in 0 .. m
        <5>1. g[i] = f[i] /\ (i # 0 => g[i - 1] = f[i - 1])
          BY <4>2
        <5>2. f[i] = IF i = 0 THEN 0 ELSE f[i - 1] + drafts[i] + 1
          BY <2>1, <4>2
        <5> QED  BY <5>1, <5>2
      <4> QED  BY <4>1, <4>2
    <3> QED  BY <3>1
  <2>3. m + 1 \in 0 .. n
    OBVIOUS
  <2> HIDE DEF Sums, g
  <2> QED  BY <2>2, <2>3
<1>3. n \in T
  <2> HIDE DEF T
  <2>1. \A i \in 0 .. n - 1 : i \in T => i + 1 \in T
    BY <1>2
  <2>2. \A i \in 0 .. n : i \in T
    BY <1>1, <2>1, UpTo
  <2> QED  BY <2>2
<1>4. PICK f : Sums(f, n)
  BY <1>3
<1>5. Len(drafts) = n
  OBVIOUS
<1> DEFINE cu == CuSampled(drafts)
<1>6. cu = [i \in 0 .. n |-> IF i = 0 THEN 0 ELSE cu[i - 1] + drafts[i] + 1]
  BY <1>4, <1>5 DEF CuSampled
<1> HIDE DEF cu
<1>7. \A i \in 0 .. n : cu[i] = IF i = 0 THEN 0 ELSE cu[i - 1] + drafts[i] + 1
  BY <1>6
<1>8. \A i \in 0 .. n : i \in {j \in 0 .. n : cu[j] \in Int}
  <2> DEFINE U == {j \in 0 .. n : cu[j] \in Int}
  <2>1. 0 \in U
    BY <1>7
  <2>2. ASSUME NEW i \in 0 .. n - 1, i \in U PROVE i + 1 \in U
    <3>1. cu[i + 1] = cu[i] + drafts[i + 1] + 1
      BY <1>7
    <3> QED  BY <2>2, <3>1
  <2> QED  BY <2>1, <2>2, UpTo
<1>9. cu \in [0 .. n -> Int]
  <2>1. DOMAIN cu = 0 .. n /\ cu = [i \in 0 .. n |-> cu[i]]
    BY <1>6
  <2> QED  BY <1>8, <2>1
<1> QED  BY <1>7, <1>9 DEF cu

(***************************************************************************)
(* And of natural numbers, where it is a natural number.                   *)
(***************************************************************************)
LEMMA CuSampledSums ==
  ASSUME NEW n \in Nat, NEW drafts \in [1 .. n -> Nat]
  PROVE  /\ CuSampled(drafts) \in [0 .. n -> Nat] /\ CuSampled(drafts)[0] = 0
         /\ \A i \in 1 .. n : CuSampled(drafts)[i] = CuSampled(drafts)[i - 1] + drafts[i] + 1
<1>1. PICK cu : cu = CuSampled(drafts)
  OBVIOUS
<1>2. /\ cu \in [0 .. n -> Int] /\ cu[0] = 0
      /\ \A i \in 1 .. n : cu[i] = cu[i - 1] + drafts[i] + 1
  <2>1. drafts \in [1 .. n -> Int]
    OBVIOUS
  <2> QED  BY <1>1, <2>1, CuSampledRecurs
<1> DEFINE U == {j \in 0 .. n : cu[j] \in Nat}
<1>3. 0 \in U
  BY <1>2
<1>4. ASSUME NEW i \in 0 .. n - 1, i \in U PROVE i + 1 \in U
  <2>1. i + 1 \in 1 .. n /\ (i + 1) - 1 = i
    OBVIOUS
  <2>2. cu[i + 1] = cu[i] + drafts[i + 1] + 1 /\ drafts[i + 1] \in Nat
    BY <1>2, <2>1
  <2> QED  BY <1>4, <2>1, <2>2
<1>5. \A i \in 0 .. n : i \in U
  BY <1>3, <1>4, UpTo
<1>6. cu \in [0 .. n -> Nat]
  BY <1>2, <1>5
<1> QED  BY <1>1, <1>2, <1>6

(***************************************************************************)
(* Two sequences that agree up to m have the same sums up to m.            *)
(***************************************************************************)
LEMMA CuSampledAgree ==
  ASSUME NEW n \in Nat, NEW a \in [1 .. n -> Int], NEW b \in [1 .. n -> Int],
         NEW m \in 0 .. n, \A i \in 1 .. m : a[i] = b[i]
  PROVE  \A i \in 0 .. m : CuSampled(a)[i] = CuSampled(b)[i]
<1>1. PICK ca : ca = CuSampled(a)
  OBVIOUS
<1>2. PICK cb : cb = CuSampled(b)
  OBVIOUS
<1>3. /\ ca[0] = 0 /\ \A i \in 1 .. n : ca[i] = ca[i - 1] + a[i] + 1
      /\ cb[0] = 0 /\ \A i \in 1 .. n : cb[i] = cb[i - 1] + b[i] + 1
  BY <1>1, <1>2, CuSampledRecurs
<1> DEFINE T == {i \in 0 .. m : ca[i] = cb[i]}
<1>4. 0 \in T
  BY <1>3
<1>5. ASSUME NEW i \in 0 .. m - 1, i \in T PROVE i + 1 \in T
  <2>1. i + 1 \in 1 .. m /\ i + 1 \in 1 .. n /\ (i + 1) - 1 = i
    OBVIOUS
  <2>2. ca[i + 1] = ca[i] + a[i + 1] + 1 /\ cb[i + 1] = cb[i] + b[i + 1] + 1
    BY <1>3, <2>1
  <2> QED  BY <1>5, <2>1, <2>2
<1>6. m \in Nat
  OBVIOUS
<1>7. \A i \in 0 .. m : i \in T
  <2> HIDE DEF T
  <2> QED  BY <1>4, <1>5, <1>6, UpTo
<1> QED  BY <1>1, <1>2, <1>7

(***************************************************************************)
(* Sequences of drafts[i] + 1 elements one after the other: the elements   *)
(* of the i-th one follow the CuSampled(drafts)[i - 1] elements before it. *)
(***************************************************************************)
Rowwise(seqs, drafts, n) ==
  /\ drafts \in [1 .. n -> Nat] /\ DOMAIN seqs = 1 .. n
  /\ \A i \in 1 .. n : Len(seqs[i]) = drafts[i] + 1

Flattened(flat, seqs, drafts, n) ==
  /\ DOMAIN flat = 1 .. Len(flat)
  /\ \A i \in 1 .. n : \A j \in 1 .. drafts[i] + 1 :
       /\ CuSampled(drafts)[i - 1] + j \in 1 .. Len(flat)
       /\ flat[CuSampled(drafts)[i - 1] + j] = seqs[i][j]

(***************************************************************************)
(* Flattening such sequences puts every element where the offsets say.     *)
(***************************************************************************)
LEMMA FlattenedRows ==
  ASSUME NEW n \in Nat \ {0}, NEW E, NEW seqs \in Seq(Seq(E)), NEW drafts, Rowwise(seqs, drafts, n)
  PROVE  Flattened(FlattenSeq(seqs), seqs, drafts, n)
<1> USE DEF Rowwise
<1> DEFINE Joins(f, m) == f = [i \in 1 .. m |-> IF i = 1 THEN seqs[i] ELSE f[i - 1] \o seqs[i]]
           T == {m \in 0 .. n : \E f : Joins(f, m)}
<1>1. 0 \in T
  <2>1. Joins([i \in 1 .. 0 |-> seqs[i]], 0)
    OBVIOUS
  <2> HIDE DEF Joins
  <2> QED  BY <2>1
<1>2. ASSUME NEW m \in 0 .. n - 1, m \in T PROVE m + 1 \in T
  <2>1. PICK f : Joins(f, m)
    BY <1>2
  <2> DEFINE g == [i \in 1 .. m + 1 |->
                     IF i = m + 1 THEN (IF m = 0 THEN seqs[1] ELSE f[m] \o seqs[m + 1]) ELSE f[i]]
  <2>2. Joins(g, m + 1)
    <3>1. ASSUME NEW i \in 1 .. m + 1
          PROVE  g[i] = IF i = 1 THEN seqs[i] ELSE g[i - 1] \o seqs[i]
      <4>1. CASE i = m + 1
        <5>1. i # 1 => g[i - 1] = f[m]
          BY <4>1
        <5> QED  BY <4>1, <5>1
      <4>2. CASE i \in 1 .. m
        <5>1. g[i] = f[i] /\ (i # 1 => g[i - 1] = f[i - 1])
          BY <4>2
        <5>2. f[i] = IF i = 1 THEN seqs[i] ELSE f[i - 1] \o seqs[i]
          BY <2>1, <4>2
        <5> QED  BY <5>1, <5>2
      <4> QED  BY <4>1, <4>2
    <3> HIDE DEF g
    <3>2. g = [i \in 1 .. m + 1 |-> g[i]]
      BY DEF g
    <3> QED  BY <3>1, <3>2
  <2>3. m + 1 \in 0 .. n
    OBVIOUS
  <2> HIDE DEF Joins, g
  <2> QED  BY <2>2, <2>3
<1>3. n \in T
  <2> HIDE DEF T
  <2>1. \A i \in 0 .. n - 1 : i \in T => i + 1 \in T
    BY <1>2
  <2>2. \A i \in 0 .. n : i \in T
    BY <1>1, <2>1, UpTo
  <2> QED  BY <2>2
<1> DEFINE flat == CHOOSE f : Joins(f, n)
<1>4. Joins(flat, n)
  <2>1. \E f : Joins(f, n)
    BY <1>3
  <2> HIDE DEF Joins
  <2> QED  BY <2>1
<1>5. FlattenSeq(seqs) = flat[n]
  <2>1. Len(seqs) = n
    OBVIOUS
  <2> QED  BY <2>1 DEF FlattenSeq
<1> HIDE DEF flat
<1>6. \A i \in 1 .. n : flat[i] = IF i = 1 THEN seqs[i] ELSE flat[i - 1] \o seqs[i]
  BY <1>4
<1> HIDE DEF Joins
<1> DEFINE cu == CuSampled(drafts)
<1>7. /\ cu \in [0 .. n -> Nat] /\ cu[0] = 0
      /\ \A i \in 1 .. n : cu[i] = cu[i - 1] + drafts[i] + 1
  BY CuSampledSums
<1> HIDE DEF cu
<1> DEFINE Placed(m) == /\ flat[m] \in Seq(E) /\ Len(flat[m]) = cu[m]
                        /\ \A i \in 1 .. m : \A j \in 1 .. drafts[i] + 1 :
                             /\ cu[i - 1] + j \in 1 .. cu[m]
                             /\ flat[m][cu[i - 1] + j] = seqs[i][j]
           U == {m \in 0 .. n : m = 0 \/ Placed(m)}
<1>8. 0 \in U
  OBVIOUS
<1>9. ASSUME NEW m \in 0 .. n - 1, m \in U PROVE m + 1 \in U
  <2>1. m + 1 \in 1 .. n /\ cu[m + 1] = cu[m] + drafts[m + 1] + 1 /\ drafts[m + 1] \in Nat
        /\ cu[m] \in Nat
    BY <1>7
  <2>2. seqs[m + 1] \in Seq(E) /\ Len(seqs[m + 1]) = drafts[m + 1] + 1
    BY <2>1
  <2>3. CASE m = 0
    <3>1. flat[1] = seqs[1] /\ cu[1] = drafts[1] + 1
      BY <1>6, <1>7, <2>1, <2>3
    <3>2. ASSUME NEW i \in 1 .. 1, NEW j \in 1 .. drafts[i] + 1
          PROVE  cu[i - 1] + j \in 1 .. cu[1] /\ flat[1][cu[i - 1] + j] = seqs[i][j]
      <4>1. i = 1
        OBVIOUS
      <4> QED  BY <1>7, <2>1, <2>3, <3>1, <4>1
    <3>3. Placed(1)
      BY <2>2, <2>3, <3>1, <3>2
    <3> HIDE DEF Placed
    <3> QED  BY <2>1, <2>3, <3>3
  <2>4. CASE m # 0
    <3>1. Placed(m) /\ m \in 1 .. n
      <4>1. m = 0 \/ Placed(m)
        <5> HIDE DEF Placed
        <5> QED  BY <1>9
      <4> HIDE DEF Placed
      <4> QED  BY <4>1, <1>9, <2>4
    <3>2. flat[m + 1] = flat[m] \o seqs[m + 1]
      <4>1. (m + 1) - 1 = m /\ m + 1 # 1
        BY <2>4
      <4> QED  BY <1>6, <2>1, <4>1
    <3>3. /\ flat[m + 1] \in Seq(E) /\ Len(flat[m + 1]) = cu[m + 1]
          /\ \A x \in 1 .. cu[m] : flat[m + 1][x] = flat[m][x]
          /\ \A x \in 1 .. drafts[m + 1] + 1 : flat[m + 1][cu[m] + x] = seqs[m + 1][x]
      <4>1. PICK s \in Seq(E) : s = flat[m]
        BY <3>1
      <4>2. PICK t \in Seq(E) : t = seqs[m + 1]
        BY <2>2
      <4>3. Len(s) = cu[m] /\ Len(t) = drafts[m + 1] + 1 /\ flat[m + 1] = s \o t
        BY <2>2, <3>1, <3>2, <4>1, <4>2
      <4>4. /\ s \o t \in Seq(E) /\ Len(s \o t) = Len(s) + Len(t)
            /\ \A x \in 1 .. Len(s) : (s \o t)[x] = s[x]
            /\ \A x \in 1 .. Len(t) : (s \o t)[Len(s) + x] = t[x]
        OBVIOUS
      <4>5. Len(s \o t) = cu[m + 1]
        <5>1. \A x, y \in Nat : x + y + 1 = x + (y + 1)
          OBVIOUS
        <5> QED  BY <2>1, <4>3, <4>4, <5>1
      <4> QED  BY <2>1, <4>1, <4>2, <4>3, <4>4, <4>5
    <3>4. ASSUME NEW i \in 1 .. m + 1, NEW j \in 1 .. drafts[i] + 1
          PROVE  cu[i - 1] + j \in 1 .. cu[m + 1] /\ flat[m + 1][cu[i - 1] + j] = seqs[i][j]
      <4>1. CASE i = m + 1
        <5>1. i - 1 = m
          BY <4>1
        <5>2. j \in 1 .. drafts[m + 1] + 1
          BY <4>1
        <5>3. flat[m + 1][cu[m] + j] = seqs[m + 1][j]
          BY <3>3, <5>2
        <5>4. \A x, y \in Nat : \A z \in 1 .. y + 1 : x + z \in 1 .. x + y + 1
          OBVIOUS
        <5>5. cu[m] + j \in 1 .. cu[m + 1]
          BY <2>1, <5>2, <5>4
        <5> QED  BY <4>1, <5>1, <5>3, <5>5
      <4>2. CASE i \in 1 .. m
        <5>1. cu[i - 1] + j \in 1 .. cu[m] /\ flat[m][cu[i - 1] + j] = seqs[i][j]
          BY <3>1, <4>2
        <5>2. \A x \in 1 .. cu[m] : x \in 1 .. cu[m + 1]
          BY <2>1
        <5> QED  BY <3>3, <5>1, <5>2
      <4> QED
        <5>1. i = m + 1 \/ i \in 1 .. m
          OBVIOUS
        <5> QED  BY <4>1, <4>2, <5>1
    <3>5. Placed(m + 1)
      BY <3>3, <3>4
    <3> HIDE DEF Placed
    <3> QED  BY <2>1, <3>5
  <2> QED  BY <2>3, <2>4
<1>10. n \in U
  <2> HIDE DEF U
  <2>1. \A i \in 0 .. n - 1 : i \in U => i + 1 \in U
    BY <1>9
  <2>2. \A i \in 0 .. n : i \in U
    BY <1>8, <2>1, UpTo
  <2> QED  BY <2>2
<1>11. Placed(n)
  BY <1>10
<1> QED  BY <1>5, <1>11 DEF cu, Flattened

-----------------------------------------------------------------------------
(***************************************************************************)
(* A chain of subsets F[a] of A, each containing its a: their cardinals    *)
(* number the elements of A from 1 to the size of A.                       *)
(***************************************************************************)
Chain(A, F) ==
  /\ F \in [A -> SUBSET A] /\ \A a \in A : a \in F[a]
  /\ \A a, b \in A : F[a] \subseteq F[b] \/ F[b] \subseteq F[a]
  /\ \A a, b \in A : F[a] = F[b] => a = b

Numbered(A, F) ==
  /\ \A a \in A : Cardinality(F[a]) \in 1 .. Cardinality(A)
  /\ \A a, b \in A : Cardinality(F[a]) = Cardinality(F[b]) => a = b
  /\ \A r \in 1 .. Cardinality(A) : \E a \in A : Cardinality(F[a]) = r

(***************************************************************************)
(* The cardinals of the subsets of a chain number its elements.            *)
(***************************************************************************)
LEMMA ChainRanks ==
  ASSUME NEW A, IsFiniteSet(A), NEW F, Chain(A, F)
  PROVE  Numbered(A, F)
<1> DEFINE n == Cardinality(A)
           rank == [a \in A |-> Cardinality(F[a])]
<1> USE DEF Chain, Numbered
<1>1. n \in Nat
  BY FS_CardinalityType
<1>2. ASSUME NEW a \in A
      PROVE  IsFiniteSet(F[a]) /\ Cardinality(F[a]) \in 1 .. n
  <2>1. IsFiniteSet(F[a]) /\ Cardinality(F[a]) <= n
    BY FS_Subset
  <2>2. Cardinality(F[a]) \in Nat
    BY <2>1, FS_CardinalityType
  <2>3. Cardinality(F[a]) # 0
    BY <2>1, FS_EmptySet
  <2> QED  BY <1>1, <2>1, <2>2, <2>3
<1>3. ASSUME NEW a \in A, NEW b \in A, Cardinality(F[a]) = Cardinality(F[b]) PROVE a = b
  <2>1. F[a] \in SUBSET F[b] \/ F[b] \in SUBSET F[a]
    OBVIOUS
  <2>2. F[a] = F[b]
    BY <1>2, <1>3, <2>1, FS_Subset
  <2> QED  BY <2>2
<1>4. rank \in Injection(A, 1 .. n)
  <2>1. rank \in [A -> 1 .. n]
    BY <1>2
  <2>2. \A a, b \in A : rank[a] = rank[b] => a = b
    BY <1>3
  <2> QED  BY <2>1, <2>2 DEF Injection, IsInjective
<1>5. rank \in Surjection(A, 1 .. n)
  <2>1. IsFiniteSet(1 .. n) /\ Cardinality(1 .. n) = n
    BY <1>1, FS_Interval
  <2> HIDE DEF rank
  <2> QED  BY <1>4, <2>1, FS_Injection
<1>6. \A r \in 1 .. n : \E a \in A : rank[a] = r
  BY <1>5 DEF Surjection
<1> QED  BY <1>2, <1>3, <1>6

(***************************************************************************)
(* Counting the elements up to a numbers the set from its least.           *)
(***************************************************************************)
LEMMA UpRanks ==
  ASSUME NEW A, A \subseteq Int, IsFiniteSet(A)
  PROVE  /\ \A a \in A : Cardinality({i \in A : i <= a}) \in 1 .. Cardinality(A)
         /\ \A a, b \in A : Cardinality({i \in A : i <= a}) = Cardinality({i \in A : i <= b}) => a = b
         /\ \A r \in 1 .. Cardinality(A) : \E a \in A : Cardinality({i \in A : i <= a}) = r
<1> DEFINE Up(a) == {i \in A : i <= a}
           part == [a \in A |-> Up(a)]
<1>1. \A a, b \in A : (Up(a) \subseteq Up(b) \/ Up(b) \subseteq Up(a)) /\ a \in Up(a)
  <2>1. \A a, b \in A : a \in Int /\ b \in Int /\ (a <= b \/ b <= a)
    OBVIOUS
  <2>2. ASSUME NEW a \in A, NEW b \in A, a <= b
        PROVE  Up(a) \subseteq Up(b) \/ Up(b) \subseteq Up(a)
    <3>1. \A i \in A : (i <= a => i <= b) /\ (i >= b => i >= a)
      BY <2>1, <2>2
    <3> QED  BY <3>1
  <2>3. \A a \in A : a \in Up(a)
    OBVIOUS
  <2> HIDE DEF Up
  <2> QED  BY <2>1, <2>2, <2>3
<1>2. ASSUME NEW a \in A, NEW b \in A, Up(a) = Up(b) PROVE a = b
  <2>1. a \in Up(b) /\ b \in Up(a) /\ a \in Int /\ b \in Int
    BY <1>1, <1>2
  <2> QED  BY <2>1
<1>3. \A a \in A : part[a] = Up(a) /\ Up(a) \subseteq A
  OBVIOUS
<1>4. DOMAIN part = A /\ part = [a \in A |-> part[a]]
  OBVIOUS
<1> HIDE DEF part, Up
<1>5. part \in [A -> SUBSET A]
  BY <1>3, <1>4
<1>6. Chain(A, part)
  BY <1>1, <1>2, <1>3, <1>5 DEF Chain
<1>7. Numbered(A, part)
  BY <1>6, ChainRanks
<1>8. \A a \in A : Cardinality(part[a]) = Cardinality(Up(a))
  BY <1>3
<1> QED  BY <1>7, <1>8 DEF Numbered, Up

(***************************************************************************)
(* Counting the elements from a on numbers the set from its greatest.      *)
(***************************************************************************)
LEMMA DownRanks ==
  ASSUME NEW A, A \subseteq Int, IsFiniteSet(A)
  PROVE  /\ \A a \in A : Cardinality({i \in A : i >= a}) \in 1 .. Cardinality(A)
         /\ \A a, b \in A : Cardinality({i \in A : i >= a}) = Cardinality({i \in A : i >= b}) => a = b
         /\ \A r \in 1 .. Cardinality(A) : \E a \in A : Cardinality({i \in A : i >= a}) = r
<1> DEFINE Down(a) == {i \in A : i >= a}
           part == [a \in A |-> Down(a)]
<1>1. \A a, b \in A : (Down(a) \subseteq Down(b) \/ Down(b) \subseteq Down(a)) /\ a \in Down(a)
  <2>1. \A a, b \in A : a \in Int /\ b \in Int /\ (a <= b \/ b <= a)
    OBVIOUS
  <2>2. ASSUME NEW a \in A, NEW b \in A, a <= b
        PROVE  Down(a) \subseteq Down(b) \/ Down(b) \subseteq Down(a)
    <3>1. \A i \in A : (i <= a => i <= b) /\ (i >= b => i >= a)
      BY <2>1, <2>2
    <3> QED  BY <3>1
  <2>3. \A a \in A : a \in Down(a)
    OBVIOUS
  <2> HIDE DEF Down
  <2> QED  BY <2>1, <2>2, <2>3
<1>2. ASSUME NEW a \in A, NEW b \in A, Down(a) = Down(b) PROVE a = b
  <2>1. a \in Down(b) /\ b \in Down(a) /\ a \in Int /\ b \in Int
    BY <1>1, <1>2
  <2> QED  BY <2>1
<1>3. \A a \in A : part[a] = Down(a) /\ Down(a) \subseteq A
  OBVIOUS
<1>4. DOMAIN part = A /\ part = [a \in A |-> part[a]]
  OBVIOUS
<1> HIDE DEF part, Down
<1>5. part \in [A -> SUBSET A]
  BY <1>3, <1>4
<1>6. Chain(A, part)
  BY <1>1, <1>2, <1>3, <1>5 DEF Chain
<1>7. Numbered(A, part)
  BY <1>6, ChainRanks
<1>8. \A a \in A : Cardinality(part[a]) = Cardinality(Down(a))
  BY <1>3
<1> QED  BY <1>7, <1>8 DEF Numbered, Down

(***************************************************************************)
(* reorder_batch_to_split_decodes_and_prefills(): a swap moves a decode d  *)
(* behind the first Cardinality(D) rows and a prefill p among them; each   *)
(* of those takes part in exactly one.                                     *)
(***************************************************************************)
Swapped(n, D, d, p) ==
  /\ d \in D /\ p \in 1 .. n \ D /\ d > Cardinality(D)
  /\ Cardinality({i \in D : i >= d}) = Cardinality({i \in 1 .. n \ D : i <= p})

(***************************************************************************)
(* Every decode that has to move finds one prefill to change places with,  *)
(* and every prefill one decode.                                           *)
(***************************************************************************)
LEMMA SwapsPair ==
  ASSUME NEW n \in Nat, NEW D \in SUBSET (1 .. n)
  PROVE  /\ Cardinality(D) \in 0 .. n
         /\ \A d, p : Swapped(n, D, d, p) => p <= Cardinality(D)
         /\ \A d \in D : d > Cardinality(D) => \E p : Swapped(n, D, d, p)
         /\ \A p \in 1 .. n \ D : p <= Cardinality(D) => \E d : Swapped(n, D, d, p)
         /\ \A d, p, q : Swapped(n, D, d, p) /\ Swapped(n, D, d, q) => p = q
         /\ \A c, d, p : Swapped(n, D, c, p) /\ Swapped(n, D, d, p) => c = d
<1> DEFINE P == 1 .. n \ D
           m == Cardinality(D)
           Down(d) == {i \in D : i >= d}
           Up(p) == {i \in P : i <= p}
           low == {i \in P : i <= m}
           high == {i \in D : i > m}
           k == Cardinality(low)
<1>1. IsFiniteSet(1 .. n) /\ Cardinality(1 .. n) = n
  BY FS_Interval
<1>2. \A A \in SUBSET (1 .. n) : IsFiniteSet(A) /\ Cardinality(A) \in 0 .. n
  <2> SUFFICES ASSUME NEW A \in SUBSET (1 .. n)
               PROVE  IsFiniteSet(A) /\ Cardinality(A) \in 0 .. n
    OBVIOUS
  <2>1. IsFiniteSet(A) /\ Cardinality(A) <= n
    BY <1>1, FS_Subset
  <2>2. Cardinality(A) \in Nat
    BY <2>1, FS_CardinalityType
  <2> QED  BY <2>1, <2>2
<1>3. /\ D \in SUBSET (1 .. n) /\ P \in SUBSET (1 .. n)
      /\ \A i \in 1 .. n : i \in Int /\ 1 <= i /\ i <= n
      /\ \A i \in D : i \in Int
  OBVIOUS
<1>4. /\ \A d \in D : Cardinality(Down(d)) \in 1 .. m
      /\ \A c, d \in D : Cardinality(Down(c)) = Cardinality(Down(d)) => c = d
      /\ \A r \in 1 .. m : \E d \in D : Cardinality(Down(d)) = r
  <2>1. D \subseteq Int /\ IsFiniteSet(D)
    BY <1>2, <1>3
  <2> QED  BY <2>1, DownRanks
<1>5. /\ \A p \in P : Cardinality(Up(p)) \in 1 .. Cardinality(P)
      /\ \A p, q \in P : Cardinality(Up(p)) = Cardinality(Up(q)) => p = q
      /\ \A r \in 1 .. Cardinality(P) : \E p \in P : Cardinality(Up(p)) = r
  <2>1. P \subseteq Int /\ IsFiniteSet(P)
    BY <1>2, <1>3
  <2> QED  BY <2>1, UpRanks
<1>6. m \in 0 .. n
  BY <1>2
<1>7. Cardinality(high) = k
  <2> DEFINE both == {i \in D : i <= m}
  <2>1. /\ both \in SUBSET (1 .. n) /\ low \in SUBSET (1 .. n) /\ high \in SUBSET (1 .. n)
        /\ both \cup high = D /\ both \cap high = {}
        /\ both \cup low = 1 .. m /\ both \cap low = {}
    <3>1. \A i \in 1 .. n : i <= m <=> i \in 1 .. m
      BY <1>3, <1>6
    <3>2. \A i \in 1 .. m : i \in 1 .. n
      BY <1>6
    <3>3. \A i \in D : ~(i <= m) <=> i > m
      BY <1>3, <1>6
    <3> HIDE DEF m
    <3> QED  BY <1>3, <3>1, <3>2, <3>3
  <2>2. Cardinality(1 .. m) = m
    BY <1>6, FS_Interval
  <2>3. Cardinality({}) = 0
    BY FS_EmptySet
  <2>4. IsFiniteSet(both) /\ IsFiniteSet(low) /\ IsFiniteSet(high)
        /\ Cardinality(both) \in Nat /\ Cardinality(low) \in Nat /\ Cardinality(high) \in Nat
    BY <1>2, <2>1
  <2> HIDE DEF both, low, high
  <2>5. Cardinality(D) = Cardinality(both) + Cardinality(high) - 0
    BY <2>1, <2>3, <2>4, FS_Union
  <2>6. Cardinality(1 .. m) = Cardinality(both) + Cardinality(low) - 0
    BY <2>1, <2>3, <2>4, FS_Union
  <2> QED  BY <2>2, <2>4, <2>5, <2>6
<1>8. k \in 0 .. m /\ k <= Cardinality(P)
  <2>1. low \in SUBSET P /\ high \in SUBSET D /\ IsFiniteSet(P) /\ IsFiniteSet(D)
    BY <1>2
  <2>2. low \in SUBSET (1 .. n)
    OBVIOUS
  <2> QED  BY <1>2, <1>6, <1>7, <2>1, <2>2, FS_Subset
<1>9. ASSUME NEW d \in D
      PROVE  (d > m => Cardinality(Down(d)) <= k) /\ (d <= m => Cardinality(Down(d)) > k)
  <2>1. IsFiniteSet(high) /\ IsFiniteSet(Down(d)) /\ Cardinality(Down(d)) \in Nat
        /\ Cardinality(high) \in Nat
    <3>1. high \in SUBSET (1 .. n) /\ Down(d) \in SUBSET (1 .. n)
      OBVIOUS
    <3> QED  BY <1>2, <3>1
  <2>2. ASSUME d > m PROVE Cardinality(Down(d)) <= k
    <3>1. Down(d) \in SUBSET high
      <4>1. \A i \in D : i >= d => i > m
        BY <1>3, <1>6, <2>2
      <4> HIDE DEF m
      <4> QED  BY <4>1
    <3> QED  BY <1>7, <2>1, <3>1, FS_Subset
  <2>3. ASSUME d <= m PROVE Cardinality(Down(d)) > k
    <3>1. high \in SUBSET Down(d) /\ d \in Down(d) /\ d \notin high
      <4>1. \A i \in D : i > m => i >= d
        BY <1>3, <1>6, <2>3
      <4>2. d >= d /\ ~(d > m)
        BY <1>3, <1>6, <2>3
      <4> HIDE DEF m
      <4> QED  BY <4>1, <4>2
    <3>2. Cardinality(high) <= Cardinality(Down(d)) /\ Cardinality(Down(d)) # Cardinality(high)
      BY <2>1, <3>1, FS_Subset
    <3> QED  BY <1>7, <2>1, <3>2
  <2> QED  BY <2>2, <2>3
<1>10. ASSUME NEW p \in P
       PROVE  (p <= m => Cardinality(Up(p)) <= k) /\ (p > m => Cardinality(Up(p)) > k)
  <2>1. IsFiniteSet(low) /\ IsFiniteSet(Up(p)) /\ Cardinality(Up(p)) \in Nat
        /\ Cardinality(low) \in Nat
    <3>1. low \in SUBSET (1 .. n) /\ Up(p) \in SUBSET (1 .. n)
      OBVIOUS
    <3> QED  BY <1>2, <3>1
  <2>2. ASSUME p <= m PROVE Cardinality(Up(p)) <= k
    <3>1. Up(p) \in SUBSET low
      BY <1>3, <1>6, <2>2
    <3> QED  BY <2>1, <3>1, FS_Subset
  <2>3. ASSUME p > m PROVE Cardinality(Up(p)) > k
    <3>1. low \in SUBSET Up(p) /\ p \in Up(p) /\ p \notin low
      BY <1>3, <1>6, <2>3
    <3>2. Cardinality(low) <= Cardinality(Up(p)) /\ Cardinality(Up(p)) # Cardinality(low)
      BY <2>1, <3>1, FS_Subset
    <3> QED  BY <2>1, <3>2
  <2> QED  BY <2>2, <2>3
<1>11. \A d, p : Swapped(n, D, d, p) <=>
         d \in D /\ p \in P /\ d > m /\ Cardinality(Down(d)) = Cardinality(Up(p))
  BY DEF Swapped
<1>12. D \subseteq Nat /\ P \subseteq Nat /\ k \in Nat /\ m \in Nat
  BY <1>6, <1>8
<1> HIDE DEF P, m, Down, Up, k
<1>13. ASSUME NEW d, NEW p, Swapped(n, D, d, p) PROVE p <= m
  <2>1. /\ d \in D /\ p \in P /\ d > m /\ Cardinality(Down(d)) = Cardinality(Up(p))
    BY <1>11, <1>13
  <2>2. Cardinality(Up(p)) <= k /\ Cardinality(Up(p)) \in Int
    BY <1>4, <1>9, <1>12, <2>1
  <2>3. p \in Int /\ (p > m => Cardinality(Up(p)) > k)
    BY <1>10, <1>12, <2>1
  <2> QED  BY <1>12, <2>2, <2>3
<1>14. ASSUME NEW d \in D, d > m PROVE \E p : Swapped(n, D, d, p)
  <2>1. Cardinality(Down(d)) \in 1 .. k
    BY <1>4, <1>9, <1>12, <1>14
  <2>2. Cardinality(Down(d)) \in 1 .. Cardinality(P)
    BY <1>5, <1>8, <1>12, <2>1, <1>2, <1>3
  <2> QED  BY <1>5, <1>11, <1>14, <2>2
<1>15. ASSUME NEW p \in P, p <= m PROVE \E d : Swapped(n, D, d, p)
  <2>1. Cardinality(Up(p)) \in 1 .. k
    BY <1>5, <1>10, <1>12, <1>15, <1>2, <1>3
  <2>2. Cardinality(Up(p)) \in 1 .. m
    BY <1>8, <1>12, <2>1
  <2>3. PICK d \in D : Cardinality(Down(d)) = Cardinality(Up(p))
    BY <1>4, <2>2
  <2>4. d > m
    BY <1>9, <1>12, <2>1, <2>3
  <2> QED  BY <1>11, <1>15, <2>3, <2>4
<1>16. \A d, p, q : Swapped(n, D, d, p) /\ Swapped(n, D, d, q) => p = q
  BY <1>5, <1>11, Zenon
<1>17. \A c, d, p : Swapped(n, D, c, p) /\ Swapped(n, D, d, p) => c = d
  <2> SUFFICES ASSUME NEW c, NEW d, NEW p, Swapped(n, D, c, p), Swapped(n, D, d, p) PROVE c = d
    OBVIOUS
  <2>1. /\ c \in D /\ d \in D
        /\ Cardinality(Down(c)) = Cardinality(Up(p)) /\ Cardinality(Down(d)) = Cardinality(Up(p))
    BY <1>11
  <2> QED  BY <1>4, <2>1
<1> QED  BY <1>6, <1>13, <1>14, <1>15, <1>16, <1>17 DEF P, m

(***************************************************************************)
(* A batch of the requests S in which the decodes come first.              *)
(***************************************************************************)
Split(rws, S) ==
  /\ rws \in [1 .. Cardinality(S) -> S] /\ Cardinality(S) \in Nat
  /\ \A i, j \in DOMAIN rws : rws[i] = rws[j] => i = j
  /\ \A r \in S : \E i \in DOMAIN rws : rws[i] = r
  /\ Cardinality({i \in DOMAIN rws : ~IsPrefill(rws[i])}) \in 0 .. Cardinality(S)
  /\ \A i \in DOMAIN rws :
       i <= Cardinality({j \in DOMAIN rws : ~IsPrefill(rws[j])}) <=> ~IsPrefill(rws[i])

(***************************************************************************)
(* Reordering keeps every request of the batch and splits it.              *)
(***************************************************************************)
LEMMA ReorderedSplits ==
  ASSUME NEW S \in SUBSET Requests, NEW order \in SetToSeqs(S)
  PROVE  Split(Reordered(order), S)
<1> DEFINE n == Cardinality(S)
           D == {i \in DOMAIN order : ~IsPrefill(order[i])}
           m == Cardinality(D)
           P == DOMAIN order \ D
           Swaps(d, p) == /\ d \in D /\ p \in P /\ d > m
                          /\ Cardinality({i \in D : i >= d}) = Cardinality({i \in P : i <= p})
           Places(x) == {y \in DOMAIN order : Swaps(x, y) \/ Swaps(y, x)}
           pl == [x \in DOMAIN order |-> IF Places(x) = {} THEN x ELSE CHOOSE y \in Places(x) : TRUE]
<1>1. IsFiniteSet(S) /\ n \in Nat
  BY RequestsAssumption, FS_Subset, FS_CardinalityType
<1>2. order \in [1 .. n -> S] /\ \A i, j \in 1 .. n : order[i] = order[j] => i = j
  BY DEF SetToSeqs
<1>3. D \in SUBSET (1 .. n)
  BY <1>2
<1>4. Reordered(order) = [x \in DOMAIN order |-> order[pl[x]]]
  <2>1. Reordered(order) =
          [x \in DOMAIN order |-> order[IF Places(x) = {} THEN x ELSE CHOOSE y \in Places(x) : TRUE]]
    BY DEF Reordered
  <2>2. \A x \in DOMAIN order : pl[x] = IF Places(x) = {} THEN x ELSE CHOOSE y \in Places(x) : TRUE
    OBVIOUS
  <2> HIDE DEF Places, pl
  <2> QED  BY <2>1, <2>2
<1>5. /\ m \in 0 .. n
      /\ \A d, p : Swaps(d, p) => p <= m
      /\ \A d \in D : d > m => \E p : Swaps(d, p)
      /\ \A p \in 1 .. n \ D : p <= m => \E d : Swaps(d, p)
      /\ \A d, p, q : Swaps(d, p) /\ Swaps(d, q) => p = q
      /\ \A c, d, p : Swaps(c, p) /\ Swaps(d, p) => c = d
  <2>1. P = 1 .. n \ D
    BY <1>2
  <2> HIDE DEF D, P
  <2>2. \A d, p : Swaps(d, p) <=> Swapped(n, D, d, p)
    BY <2>1 DEF Swapped
  <2> HIDE DEF Swaps
  <2>3. /\ m \in 0 .. n
        /\ \A d, p : Swapped(n, D, d, p) => p <= m
        /\ \A d \in D : d > m => \E p : Swapped(n, D, d, p)
        /\ \A p \in 1 .. n \ D : p <= m => \E d : Swapped(n, D, d, p)
        /\ \A d, p, q : Swapped(n, D, d, p) /\ Swapped(n, D, d, q) => p = q
        /\ \A c, d, p : Swapped(n, D, c, p) /\ Swapped(n, D, d, p) => c = d
    BY <1>1, <1>3, SwapsPair
  <2> QED  BY <2>2, <2>3
<1>6. \A d, p : Swaps(d, p) => /\ d \in D /\ d \in 1 .. n /\ d > m
                              /\ p \in 1 .. n /\ p \notin D
  BY <1>2, <1>3
<1> DOMAIN order = 1 .. n
  BY <1>2
<1> HIDE DEF D, m, P, Swaps
<1>7. \A x, y, z \in 1 .. n : y \in Places(x) /\ z \in Places(x) => y = z
  BY <1>5, <1>6
<1>8. \A x, y \in 1 .. n : y \in Places(x) <=> x \in Places(y)
  OBVIOUS
<1>9. ASSUME NEW x \in 1 .. n
      PROVE  /\ pl[x] \in 1 .. n
             /\ Places(x) = {} => pl[x] = x
             /\ Places(x) # {} => pl[x] \in Places(x)
  <2>1. Places(x) \subseteq 1 .. n
    OBVIOUS
  <2>2. pl[x] = IF Places(x) = {} THEN x ELSE CHOOSE y \in Places(x) : TRUE
    OBVIOUS
  <2> HIDE DEF Places, pl
  <2> QED  BY <2>1, <2>2
<1>10. ASSUME NEW x \in 1 .. n PROVE x <= m <=> pl[x] \in D
  <2>1. m \in Int /\ x \in Int
    BY <1>5
  <2>2. CASE Places(x) = {}
    <3>1. \A y \in 1 .. n : ~Swaps(x, y) /\ ~Swaps(y, x)
      BY <2>2
    <3>2. ~(x \in D /\ x > m) /\ ~(x \notin D /\ x <= m)
      BY <1>5, <1>6, <3>1
    <3> QED  BY <1>9, <2>1, <2>2, <3>2
  <2>3. CASE Places(x) # {}
    <3>1. Swaps(x, pl[x]) \/ Swaps(pl[x], x)
      BY <1>9, <2>3
    <3> QED  BY <1>5, <1>6, <2>1, <3>1
  <2> QED  BY <2>2, <2>3
<1>11. \A x \in 1 .. n : pl[x] \in 1 .. n /\ pl[pl[x]] = x
  <2> SUFFICES ASSUME NEW x \in 1 .. n PROVE pl[x] \in 1 .. n /\ pl[pl[x]] = x
    OBVIOUS
  <2>1. CASE Places(x) = {}
    BY <1>9, <2>1
  <2>2. CASE Places(x) # {}
    <3>1. pl[x] \in 1 .. n /\ x \in Places(pl[x])
      BY <1>8, <1>9, <2>2
    <3>2. pl[pl[x]] \in 1 .. n /\ pl[pl[x]] \in Places(pl[x])
      BY <1>9, <3>1
    <3> QED  BY <1>7, <3>1, <3>2
  <2> QED  BY <2>1, <2>2
<1> DEFINE rws == Reordered(order)
<1>12. \A x \in 1 .. n : rws[x] = order[pl[x]]
  BY <1>4
<1>13. rws \in [1 .. n -> S]
  <2> HIDE DEF pl
  <2> QED  BY <1>2, <1>4, <1>11
<1> HIDE DEF rws, pl
<1>14. \A x, y \in 1 .. n : rws[x] = rws[y] => x = y
  BY <1>2, <1>11, <1>12
<1>15. ASSUME NEW r \in S PROVE \E x \in 1 .. n : rws[x] = r
  <2>1. rws \in Injection(1 .. n, S)
    BY <1>13, <1>14 DEF Injection, IsInjective
  <2>2. Cardinality(1 .. n) = n
    BY <1>1, FS_Interval
  <2>3. rws \in Surjection(1 .. n, S)
    BY <1>1, <2>1, <2>2, FS_Injection
  <2> QED  BY <2>3 DEF Surjection
<1>16. \A x \in 1 .. n : x \in D <=> ~IsPrefill(order[x])
  BY DEF D
<1>17. \A x \in 1 .. n : x <= m <=> ~IsPrefill(rws[x])
  BY <1>10, <1>11, <1>12, <1>16
<1>18. Cardinality({i \in DOMAIN rws : ~IsPrefill(rws[i])}) = m
  <2>1. {i \in DOMAIN rws : ~IsPrefill(rws[i])} = 1 .. m
    <3>1. \A i : i \in 1 .. m <=> i \in 1 .. n /\ i <= m
      <4>1. \A a \in 0 .. n : \A i : i \in 1 .. a <=> i \in 1 .. n /\ i <= a
        BY <1>1
      <4> QED  BY <1>5, <4>1
    <3>2. DOMAIN rws = 1 .. n
      BY <1>13
    <3> QED  BY <1>17, <3>1, <3>2
  <2>2. Cardinality(1 .. m) = m
    BY <1>5, FS_Interval
  <2> QED  BY <2>1, <2>2
<1> QED  BY <1>1, <1>5, <1>13, <1>14, <1>15, <1>17, <1>18 DEF Split, rws

-----------------------------------------------------------------------------
(***************************************************************************)
(* What a row asks for: x tokens of r, then y drafts of which g are right. *)
(***************************************************************************)
Asked(r, x, y, g) ==
  /\ r \in Requests /\ r # Pad /\ slot[r] \in Slots
  /\ computed[r] \in Nat /\ total[r] \in Nat /\ PromptLen[r] \in Nat
  /\ computed[r] < total[r] /\ PromptLen[r] <= total[r]
  /\ x \in Nat \ {0} /\ y \in 0 .. K /\ g \in 0 .. y /\ total[r] + y < MaxLen
  /\ IsPrefill(r) => /\ y = 0 /\ total[r] = PromptLen[r] /\ computed[r] + x <= total[r]
                     /\ mode = "consumer" => computed[r] + 1 = total[r]
  /\ ~IsPrefill(r) => computed[r] + 1 = total[r] /\ x = 1
  /\ Async => y = 0

(***************************************************************************)
(* Where the tokens of r are: in the table as far as the host knows them,  *)
(* the last one of an asynchronous decode in prev.                         *)
(***************************************************************************)
Supplied(d, r) ==
  /\ \A p \in 0 .. MaxLen - 1 :
       p < (IF Async THEN PromptLen[r] ELSE total[r]) => d.table[r][p] = r
  /\ \A j \in DOMAIN d.prev : d.prev[j].req = r => d.prev[j].tok = r
  /\ Async /\ ~IsPrefill(r) /\ (\E i \in DOMAIN rows : rows[i] = r) =>
       \E j \in DOMAIN d.prev : d.prev[j].req = r

(***************************************************************************)
(* Entries of r: w positions from the first that is not computed, right    *)
(* below position limit; others are skipped by the device.                 *)
(***************************************************************************)
Fills(entries, r, w, limit) ==
  /\ \A e \in ToSet(entries) :
       \/ e.pos = -1
       \/ e.pos \in computed[r] .. computed[r] + w - 1 /\ (e.pos < limit => e.tok = r)
  /\ \A q \in computed[r] .. computed[r] + w - 1 : q < limit => \E e \in ToSet(entries) : e.pos = q

(***************************************************************************)
(* The inputs of a row are the tokens of its request.                      *)
(***************************************************************************)
LEMMA InputsFill ==
  ASSUME NEW d, NEW r, NEW x, NEW nd, NEW good, r \in DOMAIN nd, Asked(r, x, nd[r], good[r]),
         Supplied(d, r), NEW w \in Nat, Async => w = x + nd[r],
         ~Async => d.prev = <<>>
  PROVE  Fills(Inputs(Updated(d.table, nd, good), d.prev, r, w), r, w, total[r] + good[r])
<1> DEFINE tab == Updated(d.table, nd, good)
           inp == Inputs(tab, d.prev, r, w)
           c == computed[r]
           limit == total[r] + good[r]
<1>1. /\ c \in Nat /\ total[r] \in Nat /\ nd[r] \in Nat /\ good[r] \in 0 .. nd[r]
      /\ total[r] + nd[r] < MaxLen /\ MaxLen \in Nat /\ r \in Requests /\ x \in Nat /\ limit \in Nat
      /\ limit < MaxLen /\ PromptLen[r] \in Nat /\ PromptLen[r] <= total[r]
  BY SizesAssumption DEF Asked
<1>2. ASSUME NEW p \in Nat, p < limit,
             (\E i \in DOMAIN rows : rows[i] = r) => p < (IF Async THEN PromptLen[r] ELSE limit)
      PROVE  TokenAt(tab, r, p) = r
  <2>1. p \in 0 .. MaxLen - 1 /\ p < MaxLen
    BY <1>1, <1>2
  <2>2. CASE \E i \in DOMAIN rows : rows[i] = r
    <3>1. tab[r][p] = IF p \in total[r] .. total[r] + nd[r] - 1
                      THEN IF p < total[r] + good[r] THEN r ELSE Junk ELSE d.table[r][p]
      BY <1>1, <2>1, <2>2 DEF Updated
    <3>2. ~(p \in total[r] .. total[r] + nd[r] - 1) => p < total[r]
      BY <1>1, <1>2
    <3>3. Async => p < PromptLen[r]
      BY <1>2, <2>2
    <3>4. ~(p \in total[r] .. total[r] + nd[r] - 1) => d.table[r][p] = r
      BY <2>1, <3>2, <3>3 DEF Supplied
    <3>5. tab[r][p] = r
      BY <1>2, <3>1, <3>4
    <3> QED  BY <2>1, <3>5 DEF TokenAt
  <2>3. CASE ~\E i \in DOMAIN rows : rows[i] = r
    <3>1. tab[r][p] = r
      BY <1>1, <1>2, <2>1, <2>3 DEF Updated
    <3> QED  BY <2>1, <3>1 DEF TokenAt
  <2> QED  BY <2>2, <2>3
<1> HIDE DEF tab
<1>3. ASSUME NEW t PROVE Scattered(d.prev, r, t) \in {r, t}
  BY DEF Scattered, Supplied
<1>4. /\ DOMAIN inp = 1 .. w
      /\ \A j \in 1 .. w : /\ inp[j].pos = c + j - 1
                           /\ inp[j].tok = IF j = w THEN Scattered(d.prev, r, TokenAt(tab, r, c + j - 1))
                                           ELSE TokenAt(tab, r, c + j - 1)
  BY DEF Inputs
<1>5. ASSUME NEW j \in 1 .. w, c + j - 1 < limit PROVE inp[j].tok = r
  <2> DEFINE p == c + j - 1
  <2>1. p \in Nat
    BY <1>1
  <2>2. CASE ~Async
    <3>1. TokenAt(tab, r, p) = r
      BY <1>2, <1>5, <2>1, <2>2
    <3> QED  BY <1>3, <1>4, <3>1
  <2>3. CASE Async /\ (IsPrefill(r) \/ ~\E i \in DOMAIN rows : rows[i] = r)
    <3>1. IsPrefill(r) => limit = PromptLen[r]
      BY <1>1 DEF Asked
    <3>2. TokenAt(tab, r, p) = r
      BY <1>2, <1>5, <2>1, <2>3, <3>1
    <3> QED  BY <1>3, <1>4, <3>2
  <2>4. CASE Async /\ ~IsPrefill(r) /\ \E i \in DOMAIN rows : rows[i] = r
    <3>1. w = 1
      BY <2>4 DEF Asked
    <3>2. j = w
      BY <3>1
    <3>3. Scattered(d.prev, r, TokenAt(tab, r, p)) = r
      BY <2>4 DEF Scattered, Supplied
    <3> QED  BY <1>4, <3>2, <3>3
  <2> QED  BY <2>2, <2>3, <2>4
<1> HIDE DEF inp
<1>6. ToSet(inp) = {inp[j] : j \in 1 .. w}
  BY <1>4 DEF ToSet
<1>7. ASSUME NEW q \in c .. c + w - 1 PROVE (q - c) + 1 \in 1 .. w /\ c + ((q - c) + 1) - 1 = q
  <2>1. \A a, b \in Nat : \A i \in a .. a + b - 1 : (i - a) + 1 \in 1 .. b /\ a + ((i - a) + 1) - 1 = i
    OBVIOUS
  <2> QED  BY <1>1, <1>7, <2>1
<1>8. \A j \in 1 .. w : c + j - 1 \in c .. c + w - 1
  BY <1>1
<1>9. \A e \in ToSet(inp) : e.pos \in c .. c + w - 1 /\ (e.pos < limit => e.tok = r)
  BY <1>4, <1>5, <1>6, <1>8
<1>10. \A q \in c .. c + w - 1 : \E e \in ToSet(inp) : e.pos = q
  BY <1>4, <1>6, <1>7
<1> QED  BY <1>9, <1>10 DEF Fills, inp, tab

(***************************************************************************)
(* Marking padding takes no token of the request away.                     *)
(***************************************************************************)
LEMMA MarkedFills ==
  ASSUME NEW entries, NEW r, NEW w, NEW limit, Fills(entries, r, w, limit), r # Pad,
         limit \in Int, \A e \in ToSet(entries) : e = [pos |-> e.pos, tok |-> e.tok],
         computed[r] \in Nat
  PROVE  Fills(Marked(entries), r, w, limit)
<1>1. CASE max_decode_tokens > 1
  <2> DEFINE mk == [j \in DOMAIN entries |-> IF entries[j].tok = Pad THEN [entries[j] EXCEPT !.pos = -1]
                                             ELSE entries[j]]
  <2>1. Marked(entries) = mk
    BY <1>1 DEF Marked
  <2>2. \A j \in DOMAIN entries : entries[j] \in ToSet(entries)
    BY DEF ToSet
  <2>3. \A j \in DOMAIN entries : /\ entries[j].tok = Pad => mk[j].pos = -1
                                  /\ entries[j].tok # Pad => mk[j] = entries[j]
    BY <2>2
  <2>4. DOMAIN mk = DOMAIN entries
    OBVIOUS
  <2> HIDE DEF mk
  <2>5. ToSet(mk) = {mk[j] : j \in DOMAIN entries} /\ ToSet(entries) = {entries[j] : j \in DOMAIN entries}
    BY <2>4 DEF ToSet
  <2>6. \A e \in ToSet(mk) : e.pos = -1 \/ e \in ToSet(entries)
    BY <2>2, <2>3, <2>5
  <2>7. \A e \in ToSet(entries) : e.tok = r => e \in ToSet(mk)
    BY <2>3, <2>5
  <2>8. ASSUME NEW q \in computed[r] .. computed[r] + w - 1, q < limit
        PROVE  \E e \in ToSet(mk) : e.pos = q
    <3>1. PICK e \in ToSet(entries) : e.pos = q
      BY <2>8 DEF Fills
    <3>2. e.tok = r
      BY <2>8, <3>1 DEF Fills
    <3> QED  BY <2>7, <3>1, <3>2
  <2> QED  BY <2>1, <2>6, <2>8 DEF Fills
<1>2. CASE ~(max_decode_tokens > 1)
  BY <1>2 DEF Marked
<1> QED  BY <1>1, <1>2

(***************************************************************************)
(* Rows of other slots leave the cells of s alone.                         *)
(***************************************************************************)
LEMMA OtherRows ==
  ASSUME NEW cache, NEW W, NEW s \in Slots, \A v \in W : v.slot # s
  PROVE  \A q \in Cells : Executed(cache, W)[s][q] = cache[s][q]
<1> SUFFICES ASSUME NEW q \in Cells PROVE Executed(cache, W)[s][q] = cache[s][q]
  OBVIOUS
<1> DEFINE hits == {e \in UNION {ToSet(w.entries) : w \in {v \in W : v.slot = s}} : e.pos = q}
<1>1. hits = {}
  OBVIOUS
<1> QED  BY <1>1 DEF Executed

(***************************************************************************)
(* Executing the row of r writes its tokens and keeps the cells before.    *)
(***************************************************************************)
LEMMA OwnRow ==
  ASSUME NEW cache, NEW W, NEW r, r # Pad, slot[r] \in Slots, computed[r] \in Nat,
         NEW w \in Nat, NEW limit \in Int,
         \A v \in W : v.slot = slot[r] => Fills(v.entries, r, w, limit),
         \E v \in W : v.slot = slot[r]
  PROVE  \A q \in Cells :
           /\ q < computed[r] => Executed(cache, W)[slot[r]][q] = cache[slot[r]][q]
           /\ q \in computed[r] .. computed[r] + w - 1 /\ q < limit =>
                Executed(cache, W)[slot[r]][q] = r
<1> SUFFICES ASSUME NEW q \in Cells
             PROVE  /\ q < computed[r] => Executed(cache, W)[slot[r]][q] = cache[slot[r]][q]
                    /\ q \in computed[r] .. computed[r] + w - 1 /\ q < limit =>
                         Executed(cache, W)[slot[r]][q] = r
  OBVIOUS
<1> DEFINE s == slot[r]
           hits == {e \in UNION {ToSet(x.entries) : x \in {v \in W : v.slot = s}} : e.pos = q}
<1>1. Executed(cache, W)[s][q] =
        IF hits = {} THEN cache[s][q]
        ELSE LET t == (CHOOSE e \in hits : TRUE).tok IN IF t = Pad THEN Junk ELSE t
  BY DEF Executed
<1>2. q \in Int /\ q >= 0
  BY SizesAssumption DEF Cells
<1>3. \A e \in hits : e.pos = q /\ \E v \in W : v.slot = s /\ e \in ToSet(v.entries)
  OBVIOUS
<1>4. ASSUME q < computed[r] PROVE hits = {}
  <2> SUFFICES ASSUME NEW e \in hits PROVE FALSE
    OBVIOUS
  <2>1. e.pos = -1 \/ e.pos \in computed[r] .. computed[r] + w - 1
    BY <1>3 DEF Fills
  <2> QED  BY <1>2, <1>3, <1>4, <2>1
<1>5. ASSUME q \in computed[r] .. computed[r] + w - 1, q < limit
      PROVE  hits # {} /\ \A e \in hits : e.tok = r
  <2>1. PICK v \in W : v.slot = s
    OBVIOUS
  <2>2. PICK e \in ToSet(v.entries) : e.pos = q
    BY <1>5, <2>1 DEF Fills
  <2>3. e \in hits
    BY <2>1, <2>2
  <2>4. \A f \in hits : f.tok = r
    BY <1>2, <1>3, <1>5 DEF Fills
  <2> QED  BY <2>3, <2>4
<1> HIDE DEF hits
<1> QED  BY <1>1, <1>4, <1>5

-----------------------------------------------------------------------------
(***************************************************************************)
(* A batch rws of the requests S, ready to be executed after draining d.   *)
(***************************************************************************)
Prepared(S, rws, signal, nd, good, d) ==
  /\ mode \in AllModes /\ mode # "pool"
  /\ Split(rws, S) /\ DOMAIN nd = S
  /\ \A r \in S : Asked(r, signal[r], nd[r], good[r]) /\ Supplied(d, r)
  /\ \A q, r \in S : slot[q] = slot[r] => q = r
  /\ \A r \in S : \A p \in 0 .. computed[r] - 1 :
       (mode = "consumer" /\ IsPrefill(r)) \/ kv[slot[r]][p] = r
  /\ d.pending = FALSE /\ (~Async => d.prev = <<>>)

(***************************************************************************)
(* A consumer finds the transferred cells of its new requests.             *)
(***************************************************************************)
LEMMA HandedOverCells ==
  ASSUME NEW S, NEW rws, NEW signal, NEW nd, NEW good, NEW d, Prepared(S, rws, signal, nd, good, d)
  PROVE  /\ \A r \in S : \A p \in Cells : p < computed[r] => HandedOver(rws)[slot[r]][p] = r
         /\ \A s \in Slots : (\A r \in S : slot[r] # s) => \A p \in Cells : HandedOver(rws)[s][p] = kv[s][p]
<1>1. \A i \in DOMAIN rws : rws[i] \in S
  BY DEF Prepared, Split
<1>2. ASSUME NEW r \in S, NEW p \in Cells, p < computed[r] PROVE HandedOver(rws)[slot[r]][p] = r
  <2>1. slot[r] \in Slots /\ computed[r] \in Nat /\ p \in 0 .. computed[r] - 1
    BY <1>2, SizesAssumption DEF Prepared, Asked, Cells
  <2>2. (mode = "consumer" /\ IsPrefill(r)) \/ kv[slot[r]][p] = r
    BY <2>1 DEF Prepared
  <2>3. PICK i \in DOMAIN rws : rws[i] = r
    BY DEF Prepared, Split
  <2>4. \A j \in DOMAIN rws : slot[rws[j]] = slot[r] => rws[j] = r
    BY <1>1 DEF Prepared
  <2>5. rws[CHOOSE j \in DOMAIN rws : slot[rws[j]] = slot[r]] = r
    BY <2>3, <2>4
  <2>6. CASE mode # "consumer"
    BY <2>2, <2>6 DEF HandedOver
  <2>7. CASE mode = "consumer" /\ IsPrefill(r)
    <3>1. \E j \in DOMAIN rws : slot[rws[j]] = slot[r] /\ IsPrefill(rws[j]) /\ p < computed[rws[j]]
      BY <1>2, <2>3, <2>7
    <3> QED  BY <2>1, <2>5, <2>7, <3>1 DEF HandedOver
  <2>8. CASE mode = "consumer" /\ ~IsPrefill(r)
    <3>1. ~\E j \in DOMAIN rws : slot[rws[j]] = slot[r] /\ IsPrefill(rws[j]) /\ p < computed[rws[j]]
      BY <2>4, <2>8
    <3> QED  BY <2>1, <2>2, <2>8, <3>1 DEF HandedOver
  <2> QED  BY <2>6, <2>7, <2>8
<1>3. ASSUME NEW s \in Slots, \A r \in S : slot[r] # s, NEW p \in Cells
      PROVE  HandedOver(rws)[s][p] = kv[s][p]
  <2>1. ~\E j \in DOMAIN rws : slot[rws[j]] = s /\ IsPrefill(rws[j]) /\ p < computed[rws[j]]
    BY <1>1, <1>3
  <2> QED  BY <1>3, <2>1 DEF HandedOver
<1> QED  BY <1>2, <1>3

(***************************************************************************)
(* The active width covers the drafts of every row.                        *)
(***************************************************************************)
LEMMA ActiveCovers ==
  ASSUME NEW S, NEW rws, NEW signal, NEW nd, NEW good, NEW d, Prepared(S, rws, signal, nd, good, d),
         NEW num_decodes,
         num_decodes = Cardinality({i \in DOMAIN rws : ~IsPrefill(rws[i])})
  PROVE  /\ ActiveK(num_decodes, nd) \in {0, K}
         /\ \A r \in S : nd[r] <= ActiveK(num_decodes, nd)
<1>1. K \in Nat
  BY SizesAssumption
<1>2. decode_ks # {} /\ decode_ks \subseteq {0, K}
  BY DEF decode_ks
<1>3. ActiveK(num_decodes, nd) \in {0, K}
  BY <1>2 DEF ActiveK
<1>4. ASSUME NEW r \in S PROVE nd[r] <= ActiveK(num_decodes, nd)
  <2>1. nd[r] \in 0 .. K /\ (Async => nd[r] = 0) /\ (IsPrefill(r) => nd[r] = 0)
    BY DEF Prepared, Asked
  <2>2. CASE nd[r] = 0
    BY <1>1, <1>3, <2>2
  <2>3. CASE nd[r] # 0
    <3>1. ~Async /\ ~IsPrefill(r) /\ nd[r] > 0 /\ nd[r] <= K /\ K # 0
      BY <1>1, <2>1, <2>3
    <3>2. PICK i \in DOMAIN rws : rws[i] = r
      BY DEF Prepared, Split
    <3>3. num_decodes > 0
      <4>1. IsFiniteSet(DOMAIN rws)
        <5>1. DOMAIN rws = 1 .. Cardinality(S) /\ Cardinality(S) \in Nat
          BY DEF Prepared, Split
        <5> QED  BY <5>1, FS_Interval
      <4> DEFINE A == {j \in DOMAIN rws : ~IsPrefill(rws[j])}
      <4>2. A \in SUBSET (DOMAIN rws) /\ i \in A
        BY <3>1, <3>2
      <4>3. IsFiniteSet(A) /\ Cardinality(A) \in Nat
        BY <4>1, <4>2, FS_Subset, FS_CardinalityType
      <4>4. Cardinality(A) # 0
        BY <4>2, <4>3, FS_EmptySet
      <4> QED  BY <4>3, <4>4
    <3>4. CASE mode = "draft"
      <4>1. decode_ks = {K}
        BY <3>4 DEF decode_ks
      <4>2. (CHOOSE q \in decode_ks : TRUE) = K
        BY <4>1
      <4>3. \E q \in DOMAIN nd : nd[q] > 0
        BY <3>1 DEF Prepared
      <4>4. ActiveK(num_decodes, nd) = K
        BY <3>3, <4>2, <4>3 DEF ActiveK
      <4> QED  BY <3>1, <4>4
    <3>5. CASE mode \in {"ngram", "consumer"}
      <4>1. decode_ks = {0, K}
        BY <3>5 DEF decode_ks
      <4>2. ~(Cardinality({0, K}) <= 1)
        <5>1. IsFiniteSet({0, K})
          <6>1. {0, K} \in SUBSET (0 .. K) /\ IsFiniteSet(0 .. K)
            BY <1>1, FS_Interval
          <6> QED  BY <6>1, FS_Subset
        <5>2. Cardinality({0, K}) \in Nat
          BY <5>1, FS_CardinalityType
        <5>3. Cardinality({0, K}) # 0
          BY <5>1, FS_EmptySet
        <5>4. Cardinality({0, K}) # 1
          <6>1. ~\E x : {0, K} = {x}
            BY <3>1
          <6> QED  BY <5>1, <6>1, FS_Singleton
        <5> QED  BY <5>2, <5>3, <5>4
      <4>3. \E q \in DOMAIN nd : nd[q] > 0
        BY <3>1 DEF Prepared
      <4>4. ActiveK(num_decodes, nd) = K
        BY <3>3, <4>1, <4>2, <4>3 DEF ActiveK
      <4> QED  BY <3>1, <4>4
    <3>6. mode \in {"ngram", "draft", "consumer"}
      BY <3>1 DEF Prepared, AllModes, Async
    <3> QED  BY <3>4, <3>5, <3>6
  <2> QED  BY <2>2, <2>3
<1> QED  BY <1>3, <1>4

(***************************************************************************)
(* The width of row i: it holds the scheduled tokens and the right drafts; *)
(* the row is discarded, and has its first logits, where the prompt ends.  *)
(***************************************************************************)
RowWidth(i, num, r, x, y, g, w) ==
  /\ w \in Nat \ {0} /\ (Async => w = x + y) /\ x + g <= w
  /\ computed[r] + w < total[r] <=> computed[r] + x < total[r]
  /\ (IF i <= num THEN computed[r] ELSE computed[r] + (x + y) - 1) \in Nat
  /\ computed[r] + x >= total[r] =>
       (IF i <= num THEN computed[r] ELSE computed[r] + (x + y) - 1) = total[r] - 1
  /\ ~(i <= num) => y = 0

(***************************************************************************)
(* Whatever a row is padded to, its width holds what was asked of it.      *)
(***************************************************************************)
LEMMA Widths ==
  ASSUME NEW S, NEW rws, NEW signal, NEW nd, NEW good, NEW d, Prepared(S, rws, signal, nd, good, d),
         NEW num_decodes, NEW num, NEW k,
         num_decodes = Cardinality({i \in DOMAIN rws : ~IsPrefill(rws[i])}),
         num = DecodeRows(Len(rws), num_decodes), k = ActiveK(num_decodes, nd)
  PROVE  /\ num \in 0 .. Len(rws) /\ DOMAIN rws = 1 .. Len(rws) /\ Len(rws) \in Nat
         /\ \A i \in DOMAIN rws :
              RowWidth(i, num, rws[i], signal[rws[i]], nd[rws[i]], good[rws[i]],
                       Width(i, num, k, signal[rws[i]] + nd[rws[i]]))
<1>1. Len(rws) = Cardinality(S) /\ Len(rws) \in Nat /\ DOMAIN rws = 1 .. Len(rws)
  BY DEF Prepared, Split
<1>2. num_decodes \in 0 .. Len(rws) /\ \A i \in DOMAIN rws : i <= num_decodes <=> ~IsPrefill(rws[i])
  BY <1>1 DEF Prepared, Split
<1>3. num \in 0 .. Len(rws)
  BY <1>1, <1>2 DEF DecodeRows
<1>4. K \in Nat /\ k \in {0, K} /\ k \in Nat
  BY ActiveCovers, SizesAssumption
<1>5. ASSUME NEW i \in DOMAIN rws
      PROVE  RowWidth(i, num, rws[i], signal[rws[i]], nd[rws[i]], good[rws[i]],
                      Width(i, num, k, signal[rws[i]] + nd[rws[i]]))
  <2>1. PICK r \in S : r = rws[i]
    BY DEF Prepared, Split
  <2>2. PICK x : x = signal[r]
    OBVIOUS
  <2>3. PICK y : y = nd[r]
    OBVIOUS
  <2>4. PICK g : g = good[r]
    OBVIOUS
  <2>5. PICK w : w = Width(i, num, k, x + y)
    OBVIOUS
  <2>6. Asked(r, x, y, g)
    BY <2>1, <2>2, <2>3, <2>4 DEF Prepared
  <2>7. y <= k
    BY <2>3, ActiveCovers
  <2>8. i <= num => ~IsPrefill(r) \/ computed[r] + 1 = total[r]
    BY <1>2, <2>1, <2>6 DEF DecodeRows, Asked
  <2>9. ~(i <= num) => IsPrefill(r)
    BY <1>1, <1>2, <1>3, <2>1 DEF DecodeRows
  <2>10. \/ w = k + 1 /\ i <= num /\ ~Async
         \/ w = x + y /\ (i <= num => y = 0)
    <3>1. CASE max_decode_tokens > 1
      BY <2>5, <2>9, <3>1 DEF Width, max_decode_tokens
    <3>2. CASE ~(max_decode_tokens > 1)
      <4>1. y = 0
        BY <1>4, <2>6, <3>2 DEF max_decode_tokens, Asked
      <4> QED  BY <2>5, <3>2, <4>1 DEF Width
    <3> QED  BY <3>1, <3>2
  <2>11. RowWidth(i, num, r, x, y, g, w)
    <3>1. /\ computed[r] \in Nat /\ total[r] \in Nat /\ x \in Nat \ {0} /\ y \in Nat /\ g \in 0 .. y
          /\ k \in Nat /\ computed[r] < total[r]
          /\ IsPrefill(r) => y = 0 /\ computed[r] + x <= total[r]
          /\ ~IsPrefill(r) => computed[r] + 1 = total[r] /\ x = 1
          /\ Async => y = 0
      BY <1>4, <2>6 DEF Asked
    <3>2. ~(i <= num) => y = 0 /\ computed[r] + x <= total[r] /\ w = x + y
      BY <2>9, <2>10, <3>1
    <3>3. i <= num => computed[r] + 1 = total[r] /\ x = 1
      BY <2>8, <3>1
    <3>4. w \in Nat \ {0} /\ (Async => w = x + y) /\ x + g <= w
      BY <2>7, <2>10, <3>1, <3>2, <3>3
    <3>5. CASE i <= num
      BY <3>1, <3>3, <3>4, <3>5 DEF RowWidth
    <3>6. CASE ~(i <= num)
      <4>1. y = 0 /\ w = x
        BY <3>1, <3>2, <3>6
      <4> QED  BY <3>1, <3>2, <3>4, <3>6, <4>1 DEF RowWidth
    <3> QED  BY <3>5, <3>6
  <2> QED  BY <2>1, <2>2, <2>3, <2>4, <2>5, <2>11
<1> QED  BY <1>1, <1>3, <1>5

(***************************************************************************)
(* There are no more rows than cache slots.                                *)
(***************************************************************************)
LEMMA BatchFits ==
  ASSUME NEW S, NEW rws, NEW signal, NEW nd, NEW good, NEW d, Prepared(S, rws, signal, nd, good, d)
  PROVE  Cardinality(S) <= MaxSeqs
<1> DEFINE f == [r \in S |-> slot[r]]
<1>1. MaxSeqs \in Nat /\ IsFiniteSet(1 .. MaxSeqs) /\ Cardinality(1 .. MaxSeqs) = MaxSeqs
  <2>1. MaxSeqs \in Nat \ {0}
    BY SizesAssumption
  <2> QED  BY <2>1, FS_Interval
<1>2. f \in Injection(S, 1 .. MaxSeqs)
  BY DEF Prepared, Asked, Slots, Injection, IsInjective
<1> HIDE DEF f
<1> QED  BY <1>1, <1>2, FS_Injection

(***************************************************************************)
(* The logits of a request whose cells up to p are its own are its own.    *)
(***************************************************************************)
LEMMA RightLogits ==
  ASSUME NEW cache, NEW r, NEW p \in Cells, \A q \in 0 .. p : cache[slot[r]][q] = r
  PROVE  LogitsOf(cache, r, p) = <<r, p>>
BY DEF LogitsOf

(***************************************************************************)
(* What a step x leaves: the cells of every request of S up to its right   *)
(* drafts, those of other slots as they were, and per row that is not      *)
(* discarded the logits of its own next tokens.                            *)
(***************************************************************************)
CellsPerformed(cache, S, signal, good) ==
  /\ \A s \in Slots : (\A r \in S : slot[r] # s) => \A p \in Cells : cache[s][p] = kv[s][p]
  /\ \A r \in S : \A q \in Cells :
       q < total[r] + good[r] /\ q < computed[r] + signal[r] + good[r] => cache[slot[r]][q] = r

RowsPerformed(st, rws, signal, nd, good) ==
  /\ st.drafts = [i \in DOMAIN rws |-> nd[rws[i]]]
  /\ st.good = [i \in DOMAIN rws |-> good[rws[i]]]
  /\ st.first \in [DOMAIN rws -> Nat] /\ st.discard \in [DOMAIN rws -> BOOLEAN]
  /\ \A i \in DOMAIN rws :
       /\ st.discard[i] <=> computed[rws[i]] + signal[rws[i]] < total[rws[i]]
       /\ ~st.discard[i] =>
            /\ st.first[i] = total[rws[i]] - 1
            /\ \A j \in 1 .. st.good[i] + 1 :
                 /\ Offset(st, i) + j \in 1 .. Len(st.logits)
                 /\ st.logits[Offset(st, i) + j] = <<rws[i], st.first[i] + j - 1>>
  /\ \A i \in DOMAIN rws : \A j \in 1 .. st.drafts[i] :
       st.draft_ids[i][j] = IF j <= st.good[i] THEN rws[i] ELSE Junk

(***************************************************************************)
(* The cells after execute_model().                                        *)
(***************************************************************************)
LEMMA StepCells ==
  ASSUME BufferInv,
         NEW S, NEW rws, NEW signal, NEW nd, NEW good, NEW d, Prepared(S, rws, signal, nd, good, d)
  PROVE  CellsPerformed(Step(rws, signal, nd, good, d).kv, S, signal, good)
<1> DEFINE D == {i \in DOMAIN rws : ~IsPrefill(rws[i])}
           k == ActiveK(Cardinality(D), nd)
           num == DecodeRows(Len(rws), Cardinality(D))
           tab == Updated(d.table, nd, good)
           n(i) == signal[rws[i]] + nd[rws[i]]
           width(i) == Width(i, num, k, n(i))
           inputs == [i \in DOMAIN rws |-> Inputs(tab, d.prev, rws[i], width(i))]
           P == {[slot |-> slot[rws[i]], entries |-> inputs[i]] : i \in num + 1 .. Len(rws)}
           handed == HandedOver(rws)
           prefilled == Executed(handed, P)
           dbuf == DecodeBuffer(buf[k], rws, inputs, num)
           B == {dbuf[j] : j \in 1 .. MaxSeqs}
           cache == IF num = 0 THEN prefilled ELSE Executed(prefilled, B)
<1>1. Step(rws, signal, nd, good, d).kv = cache
  BY DEF Step
<1>2. /\ num \in 0 .. Len(rws) /\ DOMAIN rws = 1 .. Len(rws) /\ Len(rws) \in Nat
      /\ \A i \in DOMAIN rws : RowWidth(i, num, rws[i], signal[rws[i]], nd[rws[i]], good[rws[i]], width(i))
  BY Widths
<1>3. k \in {0, K}
  BY ActiveCovers
<1>4. Len(rws) <= MaxSeqs /\ MaxSeqs \in Nat
  <2>1. Len(rws) = Cardinality(S)
    BY DEF Prepared, Split
  <2> QED  BY <2>1, BatchFits, SizesAssumption
<1>5. /\ \A i \in DOMAIN rws : rws[i] \in S
      /\ \A r \in S : \E i \in DOMAIN rws : rws[i] = r
      /\ \A i, j \in DOMAIN rws : rws[i] = rws[j] => i = j
      /\ \A r \in S : slot[r] \in Slots
      /\ \A q, r \in S : slot[q] = slot[r] => q = r
  BY DEF Prepared, Split, Asked
<1> DEFINE Limit(r) == total[r] + good[r]
<1>6. ASSUME NEW i \in DOMAIN rws
      PROVE  /\ Fills(inputs[i], rws[i], width(i), Limit(rws[i]))
             /\ Fills(Marked(inputs[i]), rws[i], width(i), Limit(rws[i]))
  <2>1. PICK r \in S : r = rws[i]
    BY <1>5
  <2>2. Asked(r, signal[r], nd[r], good[r]) /\ Supplied(d, r) /\ r \in DOMAIN nd
        /\ (~Async => d.prev = <<>>)
    BY DEF Prepared
  <2>3. PICK w : w = width(i)
    OBVIOUS
  <2>4. w \in Nat /\ (Async => w = signal[r] + nd[r])
    BY <1>2, <2>1, <2>3 DEF RowWidth
  <2>5. inputs[i] = Inputs(tab, d.prev, r, w)
    BY <2>1, <2>3
  <2>6. Fills(Inputs(tab, d.prev, r, w), r, w, Limit(r))
    BY <2>2, <2>4, InputsFill
  <2>7. \A e \in ToSet(Inputs(tab, d.prev, r, w)) : e = [pos |-> e.pos, tok |-> e.tok]
    BY DEF Inputs, ToSet
  <2>8. r # Pad /\ computed[r] \in Nat /\ Limit(r) \in Int
    BY <2>2 DEF Asked
  <2>9. Fills(Marked(Inputs(tab, d.prev, r, w)), r, w, Limit(r))
    BY <2>6, <2>7, <2>8, MarkedFills
  <2> QED  BY <2>1, <2>3, <2>5, <2>6, <2>9
<1> HIDE DEF inputs, width, num, k, tab, n
<1>7. \A j \in 1 .. MaxSeqs :
        /\ j <= num => j \in DOMAIN rws /\ dbuf[j].slot = slot[rws[j]] /\ dbuf[j].entries = Marked(inputs[j])
        /\ ~(j <= num) => dbuf[j].slot = 0
  <2>1. \A j \in 1 .. MaxSeqs : j <= num => j \in DOMAIN rws
    BY <1>2, <1>4
  <2> QED  BY <1>3, <2>1 DEF DecodeBuffer, Cleared, BufferInv
<1> HIDE DEF dbuf
<1>8. \A v \in P : \E i \in DOMAIN rws : ~(i <= num) /\ v.slot = slot[rws[i]] /\ v.entries = inputs[i]
  <2> SUFFICES ASSUME NEW v \in P
               PROVE  \E i \in DOMAIN rws : ~(i <= num) /\ v.slot = slot[rws[i]] /\ v.entries = inputs[i]
    OBVIOUS
  <2>1. PICK i \in num + 1 .. Len(rws) : v = [slot |-> slot[rws[i]], entries |-> inputs[i]]
    OBVIOUS
  <2>2. i \in DOMAIN rws /\ ~(i <= num)
    BY <1>2
  <2> QED  BY <2>1, <2>2
<1>9. \A i \in DOMAIN rws : ~(i <= num) => \E v \in P : v.slot = slot[rws[i]]
  <2> SUFFICES ASSUME NEW i \in DOMAIN rws, ~(i <= num) PROVE \E v \in P : v.slot = slot[rws[i]]
    OBVIOUS
  <2>1. i \in num + 1 .. Len(rws)
    BY <1>2
  <2>2. [slot |-> slot[rws[i]], entries |-> inputs[i]] \in P
    BY <2>1
  <2> QED  BY <2>2
<1>10. \A v \in B : \/ v.slot = 0
                    \/ \E i \in DOMAIN rws : i <= num /\ v.slot = slot[rws[i]] /\ v.entries = Marked(inputs[i])
  BY <1>7
<1>11. \A i \in DOMAIN rws : i <= num => \E v \in B : v.slot = slot[rws[i]]
  <2>1. \A i \in DOMAIN rws : i \in 1 .. MaxSeqs
    BY <1>2, <1>4
  <2> QED  BY <1>7, <2>1
<1> HIDE DEF P, B, handed
<1>12. 0 \notin Slots
  BY DEF Slots
<1>13. ASSUME NEW s \in Slots, \A r \in S : slot[r] # s, NEW p \in Cells PROVE cache[s][p] = kv[s][p]
  <2>1. \A v \in P : v.slot # s
    BY <1>5, <1>8, <1>13
  <2>2. \A v \in B : v.slot # s
    BY <1>5, <1>10, <1>12, <1>13
  <2>3. handed[s][p] = kv[s][p]
    BY <1>13, HandedOverCells DEF handed
  <2>4. prefilled[s][p] = handed[s][p]
    BY <2>1, OtherRows
  <2>5. Executed(prefilled, B)[s][p] = prefilled[s][p]
    BY <2>2, OtherRows
  <2> QED  BY <2>3, <2>4, <2>5
<1>14. ASSUME NEW r \in S, NEW q \in Cells, q < Limit(r), q < computed[r] + signal[r] + good[r]
       PROVE  cache[slot[r]][q] = r
  <2>1. PICK i \in DOMAIN rws : rws[i] = r
    BY <1>5
  <2>2. /\ computed[r] \in Nat /\ signal[r] \in Nat /\ good[r] \in Nat /\ r # Pad
        /\ slot[r] \in Slots /\ Limit(r) \in Int /\ q \in Int
    BY SizesAssumption DEF Prepared, Asked, Cells
  <2>3. PICK w \in Nat : w = width(i) /\ signal[r] + good[r] <= w
    BY <1>2, <2>1 DEF RowWidth
  <2>4. q < computed[r] \/ q \in computed[r] .. computed[r] + w - 1
    BY <1>14, <2>2, <2>3
  <2>5. q < computed[r] => handed[slot[r]][q] = r
    BY HandedOverCells DEF handed
  <2>6. \A j \in DOMAIN rws : slot[rws[j]] = slot[r] => j = i
    BY <1>5, <2>1
  <2>7. CASE i <= num
    <3>1. \A v \in P : v.slot # slot[r]
      BY <1>8, <2>6, <2>7
    <3>2. prefilled[slot[r]][q] = handed[slot[r]][q]
      BY <2>2, <3>1, OtherRows
    <3>3. \A v \in B : v.slot = slot[r] => Fills(v.entries, r, w, Limit(r))
      BY <1>6, <1>10, <1>12, <2>1, <2>2, <2>3, <2>6
    <3>4. \E v \in B : v.slot = slot[r]
      BY <1>11, <2>1, <2>7
    <3> HIDE DEF prefilled
    <3>5. /\ q < computed[r] => Executed(prefilled, B)[slot[r]][q] = prefilled[slot[r]][q]
          /\ q \in computed[r] .. computed[r] + w - 1 /\ q < Limit(r) =>
               Executed(prefilled, B)[slot[r]][q] = r
      BY <2>2, <3>3, <3>4, OwnRow
    <3>6. num # 0
      BY <1>2, <2>7
    <3> QED  BY <1>14, <2>4, <2>5, <3>2, <3>5, <3>6
  <2>8. CASE ~(i <= num)
    <3>1. \A v \in P : v.slot = slot[r] => Fills(v.entries, r, w, Limit(r))
      BY <1>6, <1>8, <2>1, <2>3, <2>6
    <3>2. \E v \in P : v.slot = slot[r]
      BY <1>9, <2>1, <2>8
    <3>3. /\ q < computed[r] => prefilled[slot[r]][q] = handed[slot[r]][q]
          /\ q \in computed[r] .. computed[r] + w - 1 /\ q < Limit(r) => prefilled[slot[r]][q] = r
      BY <2>2, <3>1, <3>2, OwnRow
    <3>4. prefilled[slot[r]][q] = r
      BY <1>14, <2>4, <2>5, <3>3
    <3>5. \A v \in B : v.slot # slot[r]
      BY <1>10, <1>12, <2>2, <2>6, <2>8
    <3> HIDE DEF prefilled
    <3>6. Executed(prefilled, B)[slot[r]][q] = prefilled[slot[r]][q]
      BY <2>2, <3>5, OtherRows
    <3> QED  BY <3>4, <3>6
  <2> QED  BY <2>7, <2>8
<1> HIDE DEF cache, Limit
<1>15. CellsPerformed(cache, S, signal, good)
  BY <1>13, <1>14 DEF CellsPerformed, Limit
<1> QED  BY <1>1, <1>15

(***************************************************************************)
(* A decode of r with a j-th draft in its w inputs, on the drained batch d *)
(* without asynchronous sampling.                                          *)
(***************************************************************************)
Drafting(d, r, x, nd, good, w, j) ==
  /\ r \in DOMAIN nd /\ Asked(r, x, nd[r], good[r]) /\ computed[r] + 1 = total[r]
  /\ d.prev = <<>> /\ w \in Nat /\ j \in 1 .. nd[r] /\ j + 1 <= w

(***************************************************************************)
(* Behind the first input of a row come its drafts, as far as it is wide.  *)
(***************************************************************************)
LEMMA InputsDrafted ==
  ASSUME NEW d, NEW r, NEW x, NEW nd, NEW good, NEW w, NEW j, Drafting(d, r, x, nd, good, w, j)
  PROVE  /\ j + 1 \in DOMAIN Inputs(Updated(d.table, nd, good), d.prev, r, w)
         /\ Inputs(Updated(d.table, nd, good), d.prev, r, w)[j + 1].tok =
              IF j <= good[r] THEN r ELSE Junk
<1> DEFINE tab == Updated(d.table, nd, good)
           p == computed[r] + (j + 1) - 1
<1>1. /\ computed[r] \in Nat /\ total[r] \in Nat /\ nd[r] \in Nat /\ good[r] \in 0 .. nd[r]
      /\ total[r] + nd[r] < MaxLen /\ MaxLen \in Nat /\ r \in Requests /\ r \in DOMAIN nd
      /\ j \in 1 .. nd[r] /\ j + 1 <= w /\ w \in Nat /\ computed[r] + 1 = total[r]
  BY SizesAssumption DEF Asked, Drafting
<1>2. /\ p \in 0 .. MaxLen - 1 /\ p < MaxLen /\ p \in total[r] .. total[r] + nd[r] - 1
      /\ p < total[r] + nd[r] /\ (p < total[r] + good[r] <=> j <= good[r]) /\ j + 1 \in 1 .. w
  BY <1>1
<1>3. tab[r][p] = IF p < total[r] + good[r] THEN r ELSE Junk
  BY <1>1, <1>2 DEF Updated
<1> HIDE DEF tab
<1>4. TokenAt(tab, r, p) = IF j <= good[r] THEN r ELSE Junk
  BY <1>2, <1>3 DEF TokenAt
<1>5. \A t : Scattered(d.prev, r, t) = t
  BY DEF Scattered, Drafting
<1>6. Inputs(tab, d.prev, r, w)[j + 1].tok = TokenAt(tab, r, p) /\ j + 1 \in DOMAIN Inputs(tab, d.prev, r, w)
  BY <1>2, <1>5 DEF Inputs
<1> QED  BY <1>4, <1>6 DEF tab

(***************************************************************************)
(* Rows of wide[l] + 1 tokens: those before row i are padded.              *)
(***************************************************************************)
PaddedRows(toks, wide, drafts, sig, m, i) ==
  /\ Rowwise(toks, wide, m) /\ max_decode_tokens \in Nat
  /\ drafts \in [1 .. m -> Nat] /\ sig \in [1 .. m -> Nat]
  /\ \A l \in 1 .. i - 1 : drafts[l] + max_decode_tokens - sig[l] = wide[l]

(***************************************************************************)
(* Where such rows are flattened, the drafts of row i are read behind its  *)
(* first token.                                                            *)
(***************************************************************************)
LEMMA DraftsFound ==
  ASSUME NEW m \in Nat \ {0}, NEW E, NEW toks \in Seq(Seq(E)), NEW wide, NEW drafts, NEW sig,
         NEW i \in 1 .. m, PaddedRows(toks, wide, drafts, sig, m, i),
         NEW j \in 1 .. drafts[i], j <= wide[i]
  PROVE  DraftIds(FlattenSeq(toks), drafts, sig, i)[j] = toks[i][j + 1]
<1> USE DEF PaddedRows
<1> DEFINE fill == [l \in DOMAIN drafts |-> drafts[l] + max_decode_tokens - sig[l]]
<1>1. wide \in [1 .. m -> Nat] /\ wide \in [1 .. m -> Int]
  <2>1. wide \in [1 .. m -> Nat]
    BY DEF Rowwise
  <2>2. wide = [l \in 1 .. m |-> wide[l]] /\ \A l \in 1 .. m : wide[l] \in Int
    BY <2>1
  <2> QED  BY <2>1, <2>2
<1>2. fill \in [1 .. m -> Int] /\ \A l \in 1 .. i - 1 : fill[l] = wide[l]
  <2>1. ASSUME NEW l \in 1 .. m PROVE fill[l] \in Int /\ fill[l] = drafts[l] + max_decode_tokens - sig[l]
    OBVIOUS
  <2>2. fill = [l \in 1 .. m |-> fill[l]]
    OBVIOUS
  <2>3. \A l \in 1 .. i - 1 : l \in 1 .. m
    OBVIOUS
  <2> HIDE DEF fill
  <2> QED  BY <2>1, <2>2, <2>3
<1>3. CuPadded(drafts, sig) = CuSampled(fill)
  BY DEF CuPadded
<1>4. m \in Nat /\ i - 1 \in 0 .. m /\ i - 1 \in 0 .. i - 1 /\ j \in Nat /\ j + 1 \in 1 .. wide[i] + 1
  BY <1>1
<1> HIDE DEF fill
<1>5. CuSampled(fill)[i - 1] = CuSampled(wide)[i - 1]
  <2>1. PICK b : b = i - 1
    OBVIOUS
  <2>2. m \in Nat /\ b \in 0 .. m /\ b \in 0 .. b /\ \A l \in 1 .. b : fill[l] = wide[l]
    BY <1>2, <1>4, <2>1
  <2>3. \A l \in 0 .. b : CuSampled(fill)[l] = CuSampled(wide)[l]
    BY <1>1, <1>2, <2>2, CuSampledAgree
  <2> QED  BY <2>1, <2>2, <2>3
<1>6. CuSampled(wide)[i - 1] \in Nat
  <2>1. CuSampled(wide) \in [0 .. m -> Nat]
    BY <1>1, <1>4, CuSampledSums
  <2> QED  BY <1>4, <2>1
<1>7. PICK c \in Nat : c = CuSampled(wide)[i - 1]
  BY <1>6
<1>8. PICK ids : ids = FlattenSeq(toks)
  OBVIOUS
<1>9. /\ DOMAIN ids = 1 .. Len(ids)
      /\ c + (j + 1) \in 1 .. Len(ids) /\ ids[c + (j + 1)] = toks[i][j + 1]
  <2>1. Flattened(ids, toks, wide, m)
    BY <1>8, FlattenedRows
  <2> QED  BY <1>4, <1>7, <2>1 DEF Flattened
<1>10. c + j + 1 = c + (j + 1)
  BY <1>4
<1>11. CuPadded(drafts, sig)[i - 1] = c
  BY <1>3, <1>5, <1>7
<1>12. DraftIds(ids, drafts, sig, i)[j] = IF c + j + 1 \in DOMAIN ids THEN ids[c + j + 1] ELSE Junk
  BY <1>11 DEF DraftIds
<1> QED  BY <1>8, <1>9, <1>10, <1>12

(***************************************************************************)
(* The tokens of inputs of these widths are sequences to flatten.          *)
(***************************************************************************)
LEMMA TokensRowwise ==
  ASSUME NEW m \in Nat, NEW inputs, DOMAIN inputs = 1 .. m, NEW wd \in [1 .. m -> Nat \ {0}],
         \A l \in 1 .. m : DOMAIN inputs[l] = 1 .. wd[l],
         NEW toks, toks = [l \in 1 .. m |-> [q \in DOMAIN inputs[l] |-> inputs[l][q].tok]]
  PROVE  \E E : toks \in Seq(Seq(E)) /\ Rowwise(toks, [l \in 1 .. m |-> wd[l] - 1], m)
<1> DEFINE E == {inputs[x[1]][x[2]].tok : x \in (1 .. m) \X Nat}
<1>1. ASSUME NEW l \in 1 .. m PROVE toks[l] \in Seq(E) /\ Len(toks[l]) = wd[l]
  <2>1. PICK w \in Nat : w = wd[l]
    OBVIOUS
  <2>2. toks[l] = [q \in 1 .. w |-> inputs[l][q].tok]
    BY <2>1
  <2>3. \A q \in 1 .. w : inputs[l][q].tok \in E
    <3> SUFFICES ASSUME NEW q \in 1 .. w PROVE inputs[l][q].tok \in E
      OBVIOUS
    <3>1. <<l, q>> \in (1 .. m) \X Nat /\ <<l, q>>[1] = l /\ <<l, q>>[2] = q
      OBVIOUS
    <3> QED  BY <3>1
  <2> HIDE DEF E
  <2>4. [q \in 1 .. w |-> inputs[l][q].tok] \in Seq(E) /\ Len([q \in 1 .. w |-> inputs[l][q].tok]) = w
    BY <2>3
  <2> QED  BY <2>1, <2>2, <2>4
<1>2. toks = [l \in 1 .. m |-> toks[l]] /\ DOMAIN toks = 1 .. m
  OBVIOUS
<1> HIDE DEF E
<1>3. toks \in Seq(Seq(E))
  <2>1. \A l \in 1 .. m : toks[l] \in Seq(E)
    BY <1>1
  <2>2. [l \in 1 .. m |-> toks[l]] \in Seq(Seq(E))
    BY <2>1
  <2> QED  BY <1>2, <2>2
<1>4. Rowwise(toks, [l \in 1 .. m |-> wd[l] - 1], m)
  <2>1. \A l \in 1 .. m : wd[l] - 1 \in Nat /\ wd[l] = (wd[l] - 1) + 1
    OBVIOUS
  <2> QED  BY <1>1, <1>2, <2>1 DEF Rowwise
<1> QED  BY <1>3, <1>4

(***************************************************************************)
(* The rows up to a row with drafts are all padded to the widest decode.   *)
(***************************************************************************)
DraftRow(rws, signal, nd, good, i, num, wd) ==
  /\ ~Async /\ nd[rws[i]] \in Nat /\ nd[rws[i]] <= K /\ max_decode_tokens = K + 1
  /\ \A l \in 1 .. i : /\ wd[l] = K + 1 /\ signal[rws[l]] = 1 /\ nd[rws[l]] \in Nat
                       /\ computed[rws[l]] + 1 = total[rws[l]]

(***************************************************************************)
(* Whatever the batch holds besides.                                       *)
(***************************************************************************)
LEMMA DraftRows ==
  ASSUME NEW S, NEW rws, NEW signal, NEW nd, NEW good, NEW d, Prepared(S, rws, signal, nd, good, d),
         NEW num_decodes, NEW num, NEW k,
         num_decodes = Cardinality({i \in DOMAIN rws : ~IsPrefill(rws[i])}),
         num = DecodeRows(Len(rws), num_decodes), k = ActiveK(num_decodes, nd),
         NEW wd, wd = [i \in DOMAIN rws |-> Width(i, num, k, signal[rws[i]] + nd[rws[i]])],
         NEW i \in DOMAIN rws, nd[rws[i]] # 0
  PROVE  DraftRow(rws, signal, nd, good, i, num, wd)
<1>1. /\ num \in 0 .. Len(rws) /\ DOMAIN rws = 1 .. Len(rws) /\ Len(rws) \in Nat
      /\ \A l \in DOMAIN rws : RowWidth(l, num, rws[l], signal[rws[l]], nd[rws[l]], good[rws[l]],
                                        Width(l, num, k, signal[rws[l]] + nd[rws[l]]))
  BY Widths
<1>2. /\ k \in {0, K} /\ \A r \in S : nd[r] <= k
  BY ActiveCovers
<1>3. \A l \in DOMAIN rws : rws[l] \in S /\ Asked(rws[l], signal[rws[l]], nd[rws[l]], good[rws[l]])
  BY DEF Prepared, Split
<1>4. K \in Nat /\ k = K /\ K > 0 /\ ~Async /\ i <= num /\ nd[rws[i]] <= K
  <2>1. K \in Nat
    BY SizesAssumption
  <2>2. nd[rws[i]] \in 0 .. K
    BY <1>3 DEF Asked
  <2>3. nd[rws[i]] <= k
    BY <1>2, <1>3
  <2>4. ~Async
    BY <1>3 DEF Asked
  <2>5. i <= num
    BY <1>1 DEF RowWidth
  <2> QED  BY <1>2, <2>1, <2>2, <2>3, <2>4, <2>5
<1>5. max_decode_tokens = K + 1 /\ max_decode_tokens > 1
  BY <1>4 DEF max_decode_tokens
<1>6. ASSUME NEW l \in 1 .. i
      PROVE  /\ wd[l] = K + 1 /\ signal[rws[l]] = 1 /\ nd[rws[l]] \in Nat
             /\ computed[rws[l]] + 1 = total[rws[l]]
  <2>1. l \in DOMAIN rws /\ l <= num
    BY <1>1, <1>4
  <2>2. wd[l] = K + 1
    BY <1>4, <1>5, <2>1 DEF Width
  <2>3. ~IsPrefill(rws[l]) \/ mode = "consumer"
    <3>1. mode # "consumer" => num = num_decodes
      BY DEF DecodeRows
    <3> QED  BY <2>1, <3>1 DEF Prepared, Split
  <2>4. PICK r : r = rws[l]
    OBVIOUS
  <2>5. PICK x : x = signal[r]
    OBVIOUS
  <2>6. Asked(r, x, nd[r], good[r])
    BY <1>3, <2>1, <2>4, <2>5
  <2>7. x = 1 /\ computed[r] + 1 = total[r] /\ nd[r] \in Nat
    BY <1>4, <2>3, <2>4, <2>6 DEF Asked
  <2> QED  BY <2>2, <2>4, <2>5, <2>7
<1>7. nd[rws[i]] \in Nat
  <2>1. i \in 1 .. i
    BY <1>1
  <2> QED  BY <1>6, <2>1
<1> QED  BY <1>4, <1>5, <1>6, <1>7 DEF DraftRow

(***************************************************************************)
(* The inputs of a step: their widths and tokens, row by row.              *)
(***************************************************************************)
Laid(rws, signal, nd, good, d, num_decodes, num, k, sig, wd, inputs, toks, drafts) ==
  /\ num_decodes = Cardinality({i \in DOMAIN rws : ~IsPrefill(rws[i])})
  /\ num = DecodeRows(Len(rws), num_decodes) /\ k = ActiveK(num_decodes, nd)
  /\ sig = [i \in DOMAIN rws |-> signal[rws[i]] + nd[rws[i]]]
  /\ wd = [i \in DOMAIN rws |-> Width(i, num, k, signal[rws[i]] + nd[rws[i]])]
  /\ inputs = [i \in DOMAIN rws |-> Inputs(Updated(d.table, nd, good), d.prev, rws[i], wd[i])]
  /\ toks = [i \in DOMAIN rws |-> [q \in DOMAIN inputs[i] |-> inputs[i][q].tok]]
  /\ drafts = [i \in DOMAIN rws |-> nd[rws[i]]]

(***************************************************************************)
(* The drafts the sampler is given are those that were scheduled.          *)
(***************************************************************************)
LEMMA StepDrafts ==
  ASSUME NEW S, NEW rws, NEW signal, NEW nd, NEW good, NEW d, Prepared(S, rws, signal, nd, good, d),
         NEW num_decodes, NEW num, NEW k, NEW sig, NEW wd, NEW inputs, NEW toks, NEW drafts,
         Laid(rws, signal, nd, good, d, num_decodes, num, k, sig, wd, inputs, toks, drafts),
         NEW i \in DOMAIN rws, NEW j \in 1 .. nd[rws[i]]
  PROVE  DraftIds(FlattenSeq(toks), drafts, sig, i)[j] = IF j <= good[rws[i]] THEN rws[i] ELSE Junk
<1>1. /\ DOMAIN rws = 1 .. Len(rws) /\ Len(rws) \in Nat
      /\ \A l \in DOMAIN rws : RowWidth(l, num, rws[l], signal[rws[l]], nd[rws[l]], good[rws[l]],
                                        Width(l, num, k, signal[rws[l]] + nd[rws[l]]))
  BY Widths DEF Laid
<1>2. PICK m \in Nat \ {0} : m = Len(rws) /\ DOMAIN rws = 1 .. m /\ i \in 1 .. m
  <2>1. i \in 1 .. Len(rws) /\ Len(rws) \in Nat \ {0}
    BY <1>1
  <2> QED  BY <1>1, <2>1
<1>3. \A l \in DOMAIN rws : rws[l] \in S /\ Asked(rws[l], signal[rws[l]], nd[rws[l]], good[rws[l]])
  BY DEF Prepared, Split
<1>4. \A l \in 1 .. m : nd[rws[l]] \in Nat /\ signal[rws[l]] \in Nat
  <2>1. \A l \in DOMAIN rws : nd[rws[l]] \in 0 .. K /\ signal[rws[l]] \in Nat \ {0}
    BY <1>3 DEF Asked
  <2> QED  BY <1>2, <2>1, SizesAssumption
<1>5. DraftRow(rws, signal, nd, good, i, num, wd)
  <2>1. nd[rws[i]] # 0
    BY <1>2, <1>4
  <2> QED  BY <2>1, DraftRows DEF Laid
<1>6. wd \in [1 .. m -> Nat \ {0}]
  <2>1. wd = [l \in 1 .. m |-> Width(l, num, k, signal[rws[l]] + nd[rws[l]])]
    BY <1>2 DEF Laid
  <2>2. \A l \in 1 .. m : Width(l, num, k, signal[rws[l]] + nd[rws[l]]) \in Nat \ {0}
    BY <1>1, <1>2 DEF RowWidth
  <2> QED  BY <2>1, <2>2
<1>7. \A l \in 1 .. m : DOMAIN inputs[l] = 1 .. wd[l]
  BY <1>2 DEF Inputs, Laid
<1>8. DOMAIN inputs = 1 .. m /\ toks = [l \in 1 .. m |-> [q \in DOMAIN inputs[l] |-> inputs[l][q].tok]]
  BY <1>2 DEF Laid
<1>9. PICK wide : wide = [l \in 1 .. m |-> wd[l] - 1]
  OBVIOUS
<1>10. PICK E : toks \in Seq(Seq(E)) /\ Rowwise(toks, wide, m)
  BY <1>6, <1>7, <1>8, <1>9, TokensRowwise
<1>11. drafts \in [1 .. m -> Nat] /\ sig \in [1 .. m -> Nat] /\ drafts[i] = nd[rws[i]]
  BY <1>2, <1>4 DEF Laid
<1>12. ASSUME NEW l \in 1 .. i - 1 PROVE drafts[l] + max_decode_tokens - sig[l] = wide[l]
  <2>1. l \in 1 .. m /\ l \in 1 .. i
    BY <1>2
  <2>2. wd[l] = K + 1 /\ signal[rws[l]] = 1 /\ max_decode_tokens = K + 1 /\ nd[rws[l]] \in Nat /\ K \in Nat
    BY <1>5, <2>1, SizesAssumption DEF DraftRow
  <2>3. drafts[l] = nd[rws[l]] /\ sig[l] = signal[rws[l]] + nd[rws[l]] /\ wide[l] = wd[l] - 1
    BY <1>2, <1>9, <2>1 DEF Laid
  <2> QED  BY <2>2, <2>3
<1>13. j <= wide[i] /\ max_decode_tokens \in Nat /\ wd[i] = K + 1 /\ j + 1 <= K + 1
  <2>1. wd[i] = K + 1 /\ nd[rws[i]] <= K /\ max_decode_tokens = K + 1 /\ nd[rws[i]] \in Nat /\ K \in Nat
    <3>1. i \in 1 .. i
      BY <1>2
    <3> QED  BY <1>5, <3>1, SizesAssumption DEF DraftRow
  <2>2. wide[i] = wd[i] - 1
    BY <1>2, <1>9
  <2> QED  BY <2>1, <2>2
<1>14. DraftIds(FlattenSeq(toks), drafts, sig, i)[j] = toks[i][j + 1]
  <2>1. j \in 1 .. drafts[i]
    BY <1>11
  <2>2. PaddedRows(toks, wide, drafts, sig, m, i)
    BY <1>10, <1>11, <1>12, <1>13 DEF PaddedRows
  <2> QED  BY <1>2, <1>10, <1>13, <2>1, <2>2, DraftsFound
<1>15. PICK r : r = rws[i]
  OBVIOUS
<1>16. /\ j + 1 \in DOMAIN Inputs(Updated(d.table, nd, good), d.prev, r, K + 1)
       /\ Inputs(Updated(d.table, nd, good), d.prev, r, K + 1)[j + 1].tok = IF j <= good[r] THEN r ELSE Junk
  <2>1. computed[r] + 1 = total[r] /\ ~Async
    <3>1. i \in 1 .. i
      BY <1>2
    <3> QED  BY <1>5, <1>15, <3>1 DEF DraftRow
  <2>2. Asked(r, signal[r], nd[r], good[r]) /\ r \in DOMAIN nd /\ d.prev = <<>>
    BY <1>3, <1>15, <2>1 DEF Prepared
  <2>3. K + 1 \in Nat /\ j \in 1 .. nd[r] /\ j + 1 <= K + 1
    BY <1>13, <1>15, SizesAssumption
  <2>4. PICK w \in Nat : w = K + 1
    BY <2>3
  <2>5. PICK x : x = signal[r]
    OBVIOUS
  <2>6. Drafting(d, r, x, nd, good, w, j)
    BY <2>1, <2>2, <2>3, <2>4, <2>5 DEF Drafting
  <2>7. /\ j + 1 \in DOMAIN Inputs(Updated(d.table, nd, good), d.prev, r, w)
        /\ Inputs(Updated(d.table, nd, good), d.prev, r, w)[j + 1].tok = IF j <= good[r] THEN r ELSE Junk
    BY <2>6, InputsDrafted
  <2> QED  BY <2>4, <2>7
<1>17. inputs[i] = Inputs(Updated(d.table, nd, good), d.prev, r, K + 1)
  BY <1>13, <1>15 DEF Laid
<1>18. toks[i] = [q \in DOMAIN inputs[i] |-> inputs[i][q].tok]
  BY DEF Laid
<1>19. toks[i][j + 1] = inputs[i][j + 1].tok
  BY <1>16, <1>17, <1>18
<1> QED  BY <1>14, <1>15, <1>16, <1>17, <1>19

(***************************************************************************)
(* The logits after execute_model(): every row finds its own at its offset.*)
(***************************************************************************)
LEMMA StepRows ==
  ASSUME BufferInv,
         NEW S, NEW rws, NEW signal, NEW nd, NEW good, NEW d, Prepared(S, rws, signal, nd, good, d)
  PROVE  RowsPerformed(Step(rws, signal, nd, good, d).st, rws, signal, nd, good)
<1> DEFINE D == {i \in DOMAIN rws : ~IsPrefill(rws[i])}
           k == ActiveK(Cardinality(D), nd)
           num == DecodeRows(Len(rws), Cardinality(D))
           tab == Updated(d.table, nd, good)
           n(i) == signal[rws[i]] + nd[rws[i]]
           width(i) == Width(i, num, k, n(i))
           inputs == [i \in DOMAIN rws |-> Inputs(tab, d.prev, rws[i], width(i))]
           P == {[slot |-> slot[rws[i]], entries |-> inputs[i]] : i \in num + 1 .. Len(rws)}
           prefilled == Executed(HandedOver(rws), P)
           dbuf == DecodeBuffer(buf[k], rws, inputs, num)
           B == {dbuf[j] : j \in 1 .. MaxSeqs}
           cache == IF num = 0 THEN prefilled ELSE Executed(prefilled, B)
           logits == [i \in DOMAIN rws |-> IF i <= num THEN DecodeLogits(cache, rws[i], nd[rws[i]])
                                           ELSE PrefillLogits(cache, rws[i], n(i))]
           drafts == [i \in DOMAIN rws |-> nd[rws[i]]]
           first == [i \in DOMAIN rws |-> IF i <= num THEN computed[rws[i]] ELSE computed[rws[i]] + n(i) - 1]
           discard == [i \in DOMAIN rws |-> computed[rws[i]] + Len(inputs[i]) < total[rws[i]]]
           ok == [i \in DOMAIN rws |-> good[rws[i]]]
           flat == FlattenSeq(logits)
           toks == [i \in DOMAIN rws |-> [j \in DOMAIN inputs[i] |-> inputs[i][j].tok]]
           drafted == [i \in DOMAIN rws |->
                         DraftIds(FlattenSeq(toks), drafts, [l \in DOMAIN rws |-> n(l)], i)]
           E == {LogitsOf(cache, r, p) : r \in S, p \in Int}
<1>1. /\ Step(rws, signal, nd, good, d).kv = cache
      /\ Step(rws, signal, nd, good, d).st =
           [drafts |-> drafts, draft_ids |-> drafted, good |-> ok, first |-> first,
            discard |-> discard, logits |-> flat]
  <2>1. d.pending = FALSE
    BY DEF Prepared
  <2> QED  BY <2>1 DEF Step
<1>2. CellsPerformed(cache, S, signal, good)
  BY <1>1, StepCells
<1>3. /\ num \in 0 .. Len(rws) /\ DOMAIN rws = 1 .. Len(rws) /\ Len(rws) \in Nat
      /\ \A i \in DOMAIN rws : RowWidth(i, num, rws[i], signal[rws[i]], nd[rws[i]], good[rws[i]], width(i))
  BY Widths
<1>4. \A i \in DOMAIN rws : Len(inputs[i]) = width(i)
  <2> SUFFICES ASSUME NEW i \in DOMAIN rws PROVE Len(inputs[i]) = width(i)
    OBVIOUS
  <2>1. PICK w : w = width(i)
    OBVIOUS
  <2>2. w \in Nat
    BY <1>3, <2>1 DEF RowWidth
  <2>3. inputs[i] = Inputs(tab, d.prev, rws[i], w)
    BY <2>1
  <2>4. Len(Inputs(tab, d.prev, rws[i], w)) = w
    BY <2>2 DEF Inputs
  <2> QED  BY <2>1, <2>3, <2>4
<1>4a. ASSUME NEW i \in DOMAIN rws, NEW j \in 1 .. drafts[i]
       PROVE  drafted[i][j] = IF j <= ok[i] THEN rws[i] ELSE Junk
  <2>1. PICK num_decodes : num_decodes = Cardinality(D)
    OBVIOUS
  <2>2. PICK sig : sig = [l \in DOMAIN rws |-> n(l)]
    OBVIOUS
  <2>3. PICK wd : wd = [l \in DOMAIN rws |-> width(l)]
    OBVIOUS
  <2>4. inputs = [l \in DOMAIN rws |-> Inputs(tab, d.prev, rws[l], wd[l])]
    BY <2>3
  <2>5. drafted[i] = DraftIds(FlattenSeq(toks), drafts, sig, i) /\ drafts[i] = nd[rws[i]]
        /\ ok[i] = good[rws[i]] /\ j \in 1 .. nd[rws[i]]
    BY <2>2
  <2>6. DraftIds(FlattenSeq(toks), drafts, sig, i)[j] = IF j <= good[rws[i]] THEN rws[i] ELSE Junk
    <3>1. Laid(rws, signal, nd, good, d, num_decodes, num, k, sig, wd, inputs, toks, drafts)
      BY <2>1, <2>2, <2>3, <2>4 DEF Laid
    <3> HIDE DEF num, k, inputs, toks, drafts
    <3> QED  BY <2>5, <3>1, StepDrafts
  <2> QED  BY <2>5, <2>6
<1> HIDE DEF cache, inputs, width, num, k, tab, drafted
<1>5. ASSUME NEW i \in DOMAIN rws
      PROVE  /\ rws[i] \in S /\ Asked(rws[i], signal[rws[i]], nd[rws[i]], good[rws[i]])
             /\ RowWidth(i, num, rws[i], signal[rws[i]], nd[rws[i]], good[rws[i]], width(i))
  BY <1>3 DEF Prepared, Split
<1>6. \A i \in DOMAIN rws :
        /\ nd[rws[i]] \in 0 .. K /\ good[rws[i]] \in 0 .. nd[rws[i]]
        /\ signal[rws[i]] \in Nat /\ computed[rws[i]] \in Nat /\ total[rws[i]] \in Nat
        /\ total[rws[i]] + nd[rws[i]] < MaxLen
        /\ ~(i <= num) => nd[rws[i]] = 0
        /\ first[i] \in Nat
        /\ discard[i] \in BOOLEAN
        /\ discard[i] <=> computed[rws[i]] + signal[rws[i]] < total[rws[i]]
        /\ ~discard[i] => first[i] = total[rws[i]] - 1 /\ computed[rws[i]] + signal[rws[i]] >= total[rws[i]]
  <2> SUFFICES ASSUME NEW i \in DOMAIN rws
      PROVE
        /\ nd[rws[i]] \in 0 .. K /\ good[rws[i]] \in 0 .. nd[rws[i]]
        /\ signal[rws[i]] \in Nat /\ computed[rws[i]] \in Nat /\ total[rws[i]] \in Nat
        /\ total[rws[i]] + nd[rws[i]] < MaxLen
        /\ ~(i <= num) => nd[rws[i]] = 0
        /\ first[i] \in Nat
        /\ discard[i] \in BOOLEAN
        /\ discard[i] <=> computed[rws[i]] + signal[rws[i]] < total[rws[i]]
        /\ ~discard[i] => first[i] = total[rws[i]] - 1 /\ computed[rws[i]] + signal[rws[i]] >= total[rws[i]]
    OBVIOUS
  <2>1. /\ nd[rws[i]] \in 0 .. K /\ good[rws[i]] \in 0 .. nd[rws[i]]
        /\ signal[rws[i]] \in Nat /\ computed[rws[i]] \in Nat /\ total[rws[i]] \in Nat
        /\ total[rws[i]] + nd[rws[i]] < MaxLen
    BY <1>5 DEF Asked
  <2>2. /\ ~(i <= num) => nd[rws[i]] = 0
        /\ first[i] \in Nat
    BY <1>5 DEF RowWidth
  <2>3. discard[i] <=> computed[rws[i]] + width(i) < total[rws[i]]
    BY <1>4
  <2>4. discard[i] <=> computed[rws[i]] + signal[rws[i]] < total[rws[i]]
    BY <1>5, <2>3 DEF RowWidth
  <2>5. discard[i] \in BOOLEAN
    OBVIOUS
  <2> HIDE DEF discard
  <2>6. ~discard[i] => computed[rws[i]] + signal[rws[i]] >= total[rws[i]]
    BY <2>1, <2>4
  <2>7. ~discard[i] => first[i] = total[rws[i]] - 1
    BY <1>5, <2>6 DEF RowWidth
  <2> QED  BY <2>1, <2>2, <2>4, <2>5, <2>6, <2>7
<1>7. \A i \in DOMAIN rws : /\ Len(logits[i]) = drafts[i] + 1
                            /\ \A j \in 1 .. drafts[i] + 1 : logits[i][j] = LogitsOf(cache, rws[i], first[i] + j - 1)
  <2> SUFFICES ASSUME NEW i \in DOMAIN rws
               PROVE  /\ Len(logits[i]) = drafts[i] + 1
                      /\ \A j \in 1 .. drafts[i] + 1 :
                           logits[i][j] = LogitsOf(cache, rws[i], first[i] + j - 1)
    OBVIOUS
  <2>1. nd[rws[i]] \in Nat /\ drafts[i] = nd[rws[i]]
    BY <1>6
  <2>2. CASE i <= num
    <3>1. logits[i] = DecodeLogits(cache, rws[i], nd[rws[i]]) /\ first[i] = computed[rws[i]]
      BY <2>2
    <3> HIDE DEF logits, first, drafts
    <3> QED  BY <2>1, <3>1 DEF DecodeLogits
  <2>3. CASE ~(i <= num)
    <3>1. logits[i] = PrefillLogits(cache, rws[i], n(i)) /\ first[i] = computed[rws[i]] + n(i) - 1
          /\ nd[rws[i]] = 0
      BY <1>6, <2>3
    <3>2. first[i] \in Nat
      BY <1>6
    <3>3. logits[i] = <<LogitsOf(cache, rws[i], first[i])>>
      BY <3>1 DEF PrefillLogits
    <3> HIDE DEF logits, first, drafts
    <3>4. \A j \in 1 .. drafts[i] + 1 : j = 1 /\ first[i] + j - 1 = first[i]
      BY <2>1, <3>1, <3>2
    <3> QED  BY <2>1, <3>1, <3>3, <3>4
  <2> QED  BY <2>2, <2>3
<1>8. ASSUME NEW i \in DOMAIN rws PROVE logits[i] \in Seq(E)
  <2>1. rws[i] \in S /\ nd[rws[i]] \in Nat /\ first[i] \in Nat /\ Len(logits[i]) = nd[rws[i]] + 1
    BY <1>5, <1>6, <1>7
  <2>2. \A p \in Int : LogitsOf(cache, rws[i], p) \in E
    BY <2>1
  <2>3. \A j \in 1 .. nd[rws[i]] + 1 : first[i] + j - 1 \in Int
    BY <2>1
  <2>4. logits[i] = [j \in 1 .. nd[rws[i]] + 1 |-> logits[i][j]]
    <3>1. CASE i <= num
      BY <3>1 DEF DecodeLogits
    <3>2. CASE ~(i <= num)
      <4>1. logits[i] = <<LogitsOf(cache, rws[i], computed[rws[i]] + n(i) - 1)>> /\ nd[rws[i]] = 0
        BY <1>6, <3>2 DEF PrefillLogits
      <4> HIDE DEF logits
      <4>2. logits[i] = [j \in 1 .. 1 |-> logits[i][j]]
        BY <4>1
      <4> QED  BY <4>1, <4>2
    <3> QED  BY <3>1, <3>2
  <2>5. \A j \in 1 .. nd[rws[i]] + 1 : logits[i][j] \in E
    <3>1. drafts[i] = nd[rws[i]]
      OBVIOUS
    <3> HIDE DEF logits, first, drafts, E
    <3> QED  BY <1>7, <2>2, <2>3, <3>1
  <2>6. PICK m \in Nat : m = nd[rws[i]] + 1
    BY <2>1
  <2> HIDE DEF logits, E
  <2>7. [j \in 1 .. m |-> logits[i][j]] \in Seq(E)
    BY <2>5, <2>6
  <2> QED  BY <2>4, <2>6, <2>7
<1>9. /\ drafts \in [DOMAIN rws -> Nat] /\ DOMAIN logits = DOMAIN rws
      /\ first \in [DOMAIN rws -> Nat] /\ discard \in [DOMAIN rws -> BOOLEAN]
  BY <1>6
<1>10. logits \in Seq(Seq(E))
  <2>1. logits = [i \in 1 .. Len(rws) |-> logits[i]]
    BY <1>3, <1>9
  <2> HIDE DEF logits, E
  <2> QED  BY <1>3, <1>8, <2>1
<1> HIDE DEF logits, flat, first, discard, E
<1>11. ASSUME NEW i \in DOMAIN rws, NEW j \in 1 .. drafts[i] + 1
       PROVE  /\ CuSampled(drafts)[i - 1] + j \in 1 .. Len(flat)
              /\ flat[CuSampled(drafts)[i - 1] + j] = logits[i][j]
  <2>1. Len(rws) \in Nat \ {0}
    BY <1>3
  <2>2. drafts \in [1 .. Len(rws) -> Nat] /\ DOMAIN logits = 1 .. Len(rws)
        /\ \A l \in 1 .. Len(rws) : Len(logits[l]) = drafts[l] + 1
    BY <1>3, <1>7, <1>9
  <2> HIDE DEF drafts
  <2>3. \A l \in 1 .. Len(rws) : \A m \in 1 .. drafts[l] + 1 :
           /\ CuSampled(drafts)[l - 1] + m \in 1 .. Len(FlattenSeq(logits))
           /\ FlattenSeq(logits)[CuSampled(drafts)[l - 1] + m] = logits[l][m]
    <3>1. PICK len \in Nat \ {0} : len = Len(rws)
      BY <2>1
    <3>2. Rowwise(logits, drafts, len)
      BY <2>2, <3>1 DEF Rowwise
    <3>3. Flattened(FlattenSeq(logits), logits, drafts, len)
      BY <1>10, <3>2, FlattenedRows
    <3> QED  BY <3>1, <3>3 DEF Flattened
  <2> QED  BY <1>3, <2>3 DEF flat
<1>12. ASSUME NEW i \in DOMAIN rws, ~discard[i], NEW j \in 1 .. ok[i] + 1
       PROVE  LogitsOf(cache, rws[i], first[i] + j - 1) = <<rws[i], first[i] + j - 1>>
  <2>1. PICK r \in S : r = rws[i]
    BY <1>5
  <2>2. PICK p : p = first[i] + j - 1
    OBVIOUS
  <2>3. /\ good[r] \in 0 .. nd[r] /\ nd[r] \in Nat /\ total[r] \in Nat /\ total[r] + nd[r] < MaxLen
        /\ first[i] = total[r] - 1 /\ j \in 1 .. good[r] + 1 /\ first[i] \in Nat
        /\ computed[r] + signal[r] >= total[r] /\ computed[r] \in Nat /\ signal[r] \in Nat
    BY <1>6, <1>12, <2>1
  <2>4. p \in Cells /\ p \in Nat /\ p < total[r] + good[r]
    BY <2>2, <2>3, SizesAssumption DEF Cells
  <2>5. \A q \in 0 .. p : q \in Cells /\ q < total[r] + good[r] /\ q < computed[r] + signal[r] + good[r]
    BY <2>3, <2>4, SizesAssumption DEF Cells
  <2>6. \A q \in 0 .. p : cache[slot[r]][q] = r
    BY <1>2, <2>5 DEF CellsPerformed
  <2> QED  BY <2>1, <2>2, <2>4, <2>6, RightLogits
<1>13. \A i \in DOMAIN rws : ok[i] = good[rws[i]] /\ \A j \in 1 .. ok[i] + 1 : j \in 1 .. drafts[i] + 1
  BY <1>6
<1>14. \A i \in DOMAIN rws : ~discard[i] => \A j \in 1 .. ok[i] + 1 :
         /\ CuSampled(drafts)[i - 1] + j \in 1 .. Len(flat)
         /\ flat[CuSampled(drafts)[i - 1] + j] = <<rws[i], first[i] + j - 1>>
  <2> SUFFICES ASSUME NEW i \in DOMAIN rws, ~discard[i], NEW j \in 1 .. ok[i] + 1
               PROVE  /\ CuSampled(drafts)[i - 1] + j \in 1 .. Len(flat)
                      /\ flat[CuSampled(drafts)[i - 1] + j] = <<rws[i], first[i] + j - 1>>
    OBVIOUS
  <2>1. j \in 1 .. drafts[i] + 1
    BY <1>13
  <2>2. logits[i][j] = LogitsOf(cache, rws[i], first[i] + j - 1)
    BY <1>7, <2>1
  <2>3. LogitsOf(cache, rws[i], first[i] + j - 1) = <<rws[i], first[i] + j - 1>>
    BY <1>12
  <2>4. /\ CuSampled(drafts)[i - 1] + j \in 1 .. Len(flat)
        /\ flat[CuSampled(drafts)[i - 1] + j] = logits[i][j]
    BY <1>11, <2>1
  <2> QED  BY <2>2, <2>3, <2>4
<1> DEFINE st == [drafts |-> drafts, draft_ids |-> drafted, good |-> ok, first |-> first,
                  discard |-> discard, logits |-> flat]
<1>15. /\ st.drafts = drafts /\ st.draft_ids = drafted /\ st.good = ok /\ st.first = first /\ st.discard = discard
       /\ st.logits = flat
  OBVIOUS
<1> HIDE DEF st
<1>16. \A i : Offset(st, i) = CuSampled(drafts)[i - 1]
  BY <1>15 DEF Offset
<1>17. RowsPerformed(st, rws, signal, nd, good)
  <2>1. \A i \in DOMAIN rws :
          /\ st.discard[i] <=> computed[rws[i]] + signal[rws[i]] < total[rws[i]]
          /\ ~st.discard[i] => st.first[i] = total[rws[i]] - 1
    BY <1>6, <1>15
  <2>2. \A i \in DOMAIN rws : ~st.discard[i] => \A j \in 1 .. st.good[i] + 1 :
          /\ Offset(st, i) + j \in 1 .. Len(st.logits)
          /\ st.logits[Offset(st, i) + j] = <<rws[i], st.first[i] + j - 1>>
    <3> SUFFICES ASSUME NEW i \in DOMAIN rws, ~st.discard[i], NEW j \in 1 .. st.good[i] + 1
                 PROVE  /\ Offset(st, i) + j \in 1 .. Len(st.logits)
                        /\ st.logits[Offset(st, i) + j] = <<rws[i], st.first[i] + j - 1>>
      OBVIOUS
    <3>1. ~discard[i] /\ j \in 1 .. ok[i] + 1
      BY <1>15
    <3>2. /\ CuSampled(drafts)[i - 1] + j \in 1 .. Len(flat)
          /\ flat[CuSampled(drafts)[i - 1] + j] = <<rws[i], first[i] + j - 1>>
      BY <1>14, <3>1
    <3> QED  BY <1>15, <1>16, <3>2
  <2>3. st.drafts = drafts /\ st.good = ok /\ st.first \in [DOMAIN rws -> Nat]
        /\ st.discard \in [DOMAIN rws -> BOOLEAN]
    BY <1>9, <1>15
  <2>4. \A i \in DOMAIN rws : \A j \in 1 .. st.drafts[i] :
          st.draft_ids[i][j] = IF j <= st.good[i] THEN rws[i] ELSE Junk
    BY <1>4a, <1>15
  <2> QED  BY <2>1, <2>2, <2>3, <2>4 DEF RowsPerformed
<1> QED  BY <1>1, <1>17 DEF st

-----------------------------------------------------------------------------
(***************************************************************************)
(* The inductive invariant behind CacheTrue and OutputTrue.                *)
(* Places: a live request has a slot of its own, a row holds one request.  *)
(***************************************************************************)
PlaceInv ==
  /\ mode \in AllModes
  /\ phase \in [Requests -> {"new", "live", "done"}] /\ slot \in [Requests -> 0 .. MaxSeqs]
  /\ \A r \in Requests : slot[r] # 0 <=> phase[r] = "live"
  /\ \A q, r \in Live : slot[q] = slot[r] => q = r
  /\ \A i, j \in DOMAIN rows : rows[i] = rows[j] => i = j
  /\ \A i \in DOMAIN rows : phase[rows[i]] # "new"
  /\ \A r \in Requests : PromptLen[r] <= total[r] /\ total[r] <= MaxLen
  /\ \A r \in Requests : phase[r] = "new" => total[r] = PromptLen[r]

(***************************************************************************)
(* Every result that was computed is right.                                *)
(***************************************************************************)
Honest(res) == DOMAIN res \subseteq Requests /\ \A r \in DOMAIN res : res[r].ok
OutInv == \A i \in DOMAIN outs : outs[i].result # None => Honest(outs[i].result)

(***************************************************************************)
(* A request the scheduler may ask for: in its prompt, or one token short. *)
(***************************************************************************)
Ready(r) ==
  IF IsPrefill(r)
  THEN total[r] = PromptLen[r] /\ (mode = "consumer" => computed[r] = PromptLen[r] - 1)
  ELSE computed[r] = total[r] - 1

(***************************************************************************)
(* The record of a step belongs to the rows of the batch.                  *)
(***************************************************************************)
Recorded(st) ==
  /\ st.good \in [DOMAIN rows -> 0 .. K] /\ st.first \in [DOMAIN rows -> Nat]
  /\ st.discard \in [DOMAIN rows -> BOOLEAN]
  /\ \A i \in DOMAIN rows : ~st.discard[i] => Sampled(st, i).ok

(***************************************************************************)
(* Without asynchronous sampling: a step st was executed whose tokens the  *)
(* scheduler does not know yet.                                            *)
(***************************************************************************)
Finishing(st, i) ==
  LET r == rows[i]
  IN /\ st.first[i] = total[r] - 1 /\ total[r] + st.good[i] < MaxLen /\ computed[r] >= total[r]
     /\ \A q \in 0 .. total[r] + st.good[i] - 1 : kv[slot[r]][q] = r

Stepped(st) ==
  /\ Recorded(st)
  /\ \A i \in DOMAIN rows :
       /\ phase[rows[i]] = "live"
       /\ st.discard[i] => Ready(rows[i])
       /\ ~st.discard[i] => Finishing(st, i)
  /\ \A r \in Live : Ready(r) \/ \E i \in DOMAIN rows : rows[i] = r

Told(st) ==
  \A i \in DOMAIN rows : ~st.discard[i] =>
    \A p \in 0 .. MaxLen - 1 : p <= total[rows[i]] + st.good[i] => table[rows[i]][p] = rows[i]

HostInv ==
  /\ ~pending
  /\ \A r \in Live : \A p \in 0 .. MaxLen - 1 : p < total[r] => table[r][p] = r
  /\ due => outs = <<>> /\ Stepped(state)
  /\ ~due /\ outs = <<>> => \A r \in Live : Ready(r)
  /\ ~due /\ outs # <<>> => Len(outs) = 1 /\ Stepped(outs[1].st) /\ Told(outs[1].st)

(***************************************************************************)
(* With asynchronous sampling: the tokens of the step st, the newest, are  *)
(* placeholders in the table; prev has them once its output was collected. *)
(***************************************************************************)
InFlight(st) ==
  /\ Recorded(st)
  /\ \A i \in DOMAIN rows : phase[rows[i]] = "live" =>
       /\ st.good[i] = 0
       /\ st.discard[i] <=> IsPrefill(rows[i])
       /\ ~st.discard[i] => st.first[i] = total[rows[i]] - 2

Prompts(tab) == \A r \in Live : \A p \in 0 .. PromptLen[r] - 1 : tab[r][p] = r

Sampling(prv) == \A j \in DOMAIN prv : prv[j].req \in Requests => prv[j].tok = prv[j].req

Carried(prv) ==
  \A i \in DOMAIN rows : phase[rows[i]] = "live" /\ ~IsPrefill(rows[i]) =>
    \E j \in DOMAIN prv : prv[j].req = rows[i]

DeviceInv ==
  /\ \A r \in Live : Ready(r)
  /\ Prompts(table) /\ Sampling(prev)
  /\ due => ~pending /\ InFlight(state)
  /\ pending => outs # <<>> /\ Last(outs) = [st |-> state, result |-> None] /\ InFlight(state)
  /\ \A i \in DOMAIN outs : outs[i].result = None => i = Len(outs) /\ pending
  /\ ~due /\ ~pending => Carried(prev)

(***************************************************************************)
(* A pooling model: the encode buffer holds the batch.                     *)
(***************************************************************************)
PoolInv ==
  /\ encoded = rows \/ rows = <<>>
  /\ pending => outs # <<>> /\ Last(outs).result = None
  /\ \A i \in DOMAIN outs : outs[i] = [st |-> outs[i].st, result |-> outs[i].result]

ServeInv ==
  /\ HandInv /\ PosInv /\ PlaceInv /\ OutInv /\ CacheTrue
  /\ ~Async => HostInv
  /\ mode = "async" => DeviceInv
  /\ mode = "pool" => PoolInv

-----------------------------------------------------------------------------
(***************************************************************************)
(* The result of a step: one entry for every row that is not discarded.    *)
(***************************************************************************)
ResultOf(st, res) ==
  /\ res # None /\ Honest(res)
  /\ \A i \in DOMAIN rows :
       /\ RowOf(rows[i]) = i
       /\ rows[i] \in DOMAIN res <=> ~st.discard[i]
       /\ ~st.discard[i] => res[rows[i]].n = st.good[i] + 1 /\ res[rows[i]].ok
  /\ \A r \in DOMAIN res : \E i \in DOMAIN rows : rows[i] = r /\ ~st.discard[i]

(***************************************************************************)
(* _sample(): the result of a recorded step is right.                      *)
(***************************************************************************)
LEMMA ResultRight ==
  ASSUME rows \in Seq(Requests), PlaceInv, NEW st, Recorded(st)
  PROVE  ResultOf(st, Result(st))
<1> DEFINE R == {rows[i] : i \in {j \in DOMAIN rows : ~st.discard[j]}}
<1>1. /\ K \in Nat /\ \A i \in DOMAIN rows : st.good[i] \in 0 .. K
      /\ \A i \in DOMAIN rows : rows[i] \in Requests
  BY SizesAssumption DEF Recorded
<1>2. Result(st) # None
  BY <1>1, ResultCounts DEF Rated
<1>3. \A i \in DOMAIN rows : RowOf(rows[i]) = i
  BY DEF RowOf, PlaceInv
<1>4. /\ Result(st) = [r \in R |-> Sampled(st, RowOf(r))]
      /\ DOMAIN Result(st) = R
  BY DEF Result
<1>5. \A i \in DOMAIN rows : rows[i] \in R <=> ~st.discard[i]
  BY DEF PlaceInv
<1>6. \A r \in R : \E i \in DOMAIN rows : rows[i] = r /\ ~st.discard[i]
  OBVIOUS
<1> HIDE DEF R
<1>7. ASSUME NEW i \in DOMAIN rows, ~st.discard[i]
      PROVE  Result(st)[rows[i]].n = st.good[i] + 1 /\ Result(st)[rows[i]].ok
  <2>1. Result(st)[rows[i]] = Sampled(st, i)
    BY <1>3, <1>4, <1>5, <1>7
  <2>2. Sampled(st, i).ok
    BY <1>7 DEF Recorded
  <2>3. Sampled(st, i).n = st.good[i] + 1
    BY DEF Sampled
  <2> QED  BY <2>1, <2>2, <2>3
<1>8. Honest(Result(st))
  BY <1>1, <1>4, <1>6, <1>7 DEF Honest
<1> QED  BY <1>2, <1>3, <1>4, <1>5, <1>6, <1>7, <1>8 DEF ResultOf

(***************************************************************************)
(* get_output() of the newest asynchronous output: what the host knows of  *)
(* the prompts stays, and prev gets the token of every decoding row.       *)
(***************************************************************************)
Obtained(g) ==
  /\ Prompts(g.table) /\ Sampling(g.prev) /\ Carried(g.prev)
  /\ g.o.result # None /\ Honest(g.o.result) /\ g.pending = FALSE /\ g.state = None

(***************************************************************************)
(* get_output() of a sampling output that is in flight leaves just that.   *)
(***************************************************************************)
LEMMA OutputObtained ==
  ASSUME PosInv, PlaceInv, mode = "async", Prompts(table), \A r \in Live : Ready(r),
         NEW st, InFlight(st), NEW o, o = [st |-> st, result |-> None]
  PROVE  Obtained(GetOutput(o))
<1> DEFINE res == Result(st)
<1>1. rows \in Seq(Requests) /\ Recorded(st)
  BY DEF PosInv, InFlight
<1>2. ResultOf(st, res)
  BY <1>1, ResultRight
<1> HIDE DEF res
<1>3. GetOutput(o) = [o |-> [o EXCEPT !.result = res], table |-> Booked(st, res),
                      prev |-> Kept(res), state |-> None, pending |-> FALSE]
  BY DEF GetOutput, GetSampleOutput, res
<1>4. o.st = st /\ [o EXCEPT !.result = res].result = res
  OBVIOUS
<1>5. Prompts(Booked(st, res))
  <2> SUFFICES ASSUME NEW r \in Live, NEW p \in 0 .. PromptLen[r] - 1
               PROVE  Booked(st, res)[r][p] = r
    BY DEF Prompts
  <2>1. /\ r \in Requests /\ p \in 0 .. MaxLen - 1 /\ table[r][p] = r /\ p \in Nat
        /\ PromptLen[r] \in Nat /\ total[r] \in Nat /\ PromptLen[r] <= total[r] /\ p < PromptLen[r]
    BY SizesAssumption DEF Live, Prompts, PosInv, PlaceInv
  <2>2. CASE r \notin DOMAIN res
    BY <2>1, <2>2 DEF Booked
  <2>3. CASE r \in DOMAIN res
    <3>1. PICK i \in DOMAIN rows : rows[i] = r /\ ~st.discard[i]
      BY <1>2, <2>3 DEF ResultOf
    <3>2. RowOf(r) = i
      BY <1>2, <3>1 DEF ResultOf
    <3>3. st.first[i] = total[r] - 2 /\ ~IsPrefill(r)
      BY <3>1 DEF InFlight, Live
    <3>4. total[r] - 1 >= PromptLen[r] /\ computed[r] \in Nat
      BY <2>1, <3>3 DEF Ready, IsPrefill, PosInv
    <3>5. res[r].n \in Nat
      <4>1. res[r].n = st.good[i] + 1 /\ st.good[i] \in 0 .. K
        BY <1>1, <1>2, <3>1 DEF ResultOf, Recorded
      <4> QED  BY <4>1, SizesAssumption
    <3>6. p \notin st.first[RowOf(r)] + 1 .. st.first[RowOf(r)] + res[r].n
      BY <2>1, <3>2, <3>3, <3>4, <3>5
    <3> QED  BY <2>1, <3>6 DEF Booked
  <2> QED  BY <2>2, <2>3
<1>6. Sampling(Kept(res))
  <2>1. \A r \in DOMAIN res : res[r].ok
    BY <1>2 DEF ResultOf, Honest
  <2>2. None \notin Requests
    BY RequestsAssumption
  <2> QED  BY <2>1, <2>2 DEF Sampling, Kept
<1>7. Carried(Kept(res))
  <2> SUFFICES ASSUME NEW i \in DOMAIN rows, phase[rows[i]] = "live", ~IsPrefill(rows[i])
               PROVE  \E j \in DOMAIN Kept(res) : Kept(res)[j].req = rows[i]
    BY DEF Carried
  <2>1. rows[i] \in DOMAIN res
    BY <1>2 DEF InFlight, ResultOf
  <2> QED  BY <2>1 DEF Kept
<1> QED  BY <1>2, <1>3, <1>4, <1>5, <1>6, <1>7 DEF Obtained, ResultOf

(***************************************************************************)
(* What execute_model() finds after draining, with asynchronous sampling:  *)
(* the prompts in the table, the last tokens in prev, no output left to    *)
(* compute.                                                                *)
(***************************************************************************)
Settled(d) ==
  /\ Prompts(d.table) /\ Sampling(d.prev) /\ Carried(d.prev) /\ d.pending = FALSE
  /\ \A i \in DOMAIN DrainedOuts(d) :
       DrainedOuts(d)[i].result # None /\ Honest(DrainedOuts(d)[i].result)

(***************************************************************************)
(* synchronize_input_prep() with asynchronous sampling.                    *)
(***************************************************************************)
LEMMA DrainedSettles ==
  ASSUME HandInv, PosInv, PlaceInv, OutInv, mode = "async", DeviceInv, ~due
  PROVE  Settled(Drained)
<1>1. outs \in Seq(Range(outs)) /\ Async
  BY DEF HandInv, Async
<1>2. CASE pending
  <2>1. /\ outs # <<>> /\ InFlight(state) /\ Prompts(table) /\ \A r \in Live : Ready(r)
        /\ Last(outs) = [st |-> state, result |-> None]
        /\ \A i \in DOMAIN outs : outs[i].result = None => i = Len(outs)
    BY <1>2 DEF DeviceInv
  <2>2. PICK o : o = Last(outs)
    OBVIOUS
  <2>3. Obtained(GetOutput(o))
    BY <2>1, <2>2, OutputObtained
  <2>4. Drained = GetOutput(o)
    BY <1>1, <1>2, <2>2 DEF Drained
  <2>5. PICK d : d = GetOutput(o)
    OBVIOUS
  <2>7. DrainedOuts(d) = Append(Front(outs), d.o)
    BY <1>1, <1>2 DEF DrainedOuts
  <2>8. PICK n \in Nat \ {0} : n = Len(outs) /\ DOMAIN outs = 1 .. n
    BY <1>1, <2>1
  <2>9. /\ DOMAIN DrainedOuts(d) = 1 .. n /\ DrainedOuts(d)[n] = d.o
        /\ \A i \in 1 .. n - 1 : DrainedOuts(d)[i] = outs[i]
    BY <1>1, <2>7, <2>8 DEF Front
  <2>10. \A i \in 1 .. n - 1 : outs[i].result # None /\ Honest(outs[i].result)
    BY <2>1, <2>8 DEF OutInv
  <2>11. d.o.result # None /\ Honest(d.o.result)
    BY <2>3, <2>5 DEF Obtained
  <2>12. \A i \in DOMAIN DrainedOuts(d) :
           DrainedOuts(d)[i].result # None /\ Honest(DrainedOuts(d)[i].result)
    BY <2>8, <2>9, <2>10, <2>11
  <2> QED  BY <2>3, <2>4, <2>5, <2>12 DEF Obtained, Settled
<1>3. CASE ~pending
  <2>1. PICK d : d = Drained
    OBVIOUS
  <2>2. d.table = table /\ d.prev = prev /\ d.pending = pending
    BY <1>3, <2>1 DEF Drained, Undrained
  <2>3. DrainedOuts(d) = outs
    BY <1>3 DEF DrainedOuts
  <2>4. pending = FALSE
    BY <1>3, <2>1 DEF Drained
  <2> QED  BY <1>3, <2>1, <2>2, <2>3 DEF Settled, DeviceInv, OutInv
<1> QED  BY <1>2, <1>3

-----------------------------------------------------------------------------
(***************************************************************************)
(* What the scheduler asks of a request that it may schedule.              *)
(***************************************************************************)
LEMMA SchedulableAsked ==
  ASSUME PosInv, PlaceInv, mode # "pool", NEW r \in Schedulable, Ready(r),
         NEW x \in Signals(r), NEW y \in Drafts(r), NEW g \in 0 .. K, g <= y
  PROVE  Asked(r, x, y, g)
<1>1. /\ r \in Requests /\ phase[r] = "live" /\ slot[r] \in 0 .. MaxSeqs /\ slot[r] # 0
      /\ computed[r] \in Nat /\ total[r] \in Nat /\ computed[r] < total[r] /\ total[r] < MaxLen
      /\ PromptLen[r] \in Nat /\ PromptLen[r] <= total[r]
      /\ MaxLen \in Nat /\ K \in Nat /\ MaxSeqs \in Nat
  BY SizesAssumption DEF PosInv, PlaceInv, Schedulable, Live
<1>2. slot[r] \in Slots /\ r # Pad
  BY <1>1, RequestsAssumption DEF Slots
<1>3. y \in 0 .. K /\ total[r] + y < MaxLen /\ (IsPrefill(r) => y = 0) /\ (Async => y = 0)
  <2>1. y = 0 \/ (~Async /\ ~IsPrefill(r) /\ y = Min({K, MaxLen - 1 - total[r]}))
    BY DEF Drafts
  <2>2. CASE y = 0
    BY <1>1, <2>2
  <2>3. CASE ~Async /\ ~IsPrefill(r) /\ y = Min({K, MaxLen - 1 - total[r]})
    <3>1. y = IF K <= MaxLen - 1 - total[r] THEN K ELSE MaxLen - 1 - total[r]
      BY <1>1, <2>3, MinOfTwo
    <3> QED  BY <1>1, <2>3, <3>1
  <2> QED  BY <2>1, <2>2, <2>3
<1>4. ASSUME IsPrefill(r)
      PROVE  /\ total[r] = PromptLen[r] /\ x \in Nat \ {0} /\ computed[r] + x <= total[r]
             /\ mode = "consumer" => computed[r] + 1 = total[r]
  <2>1. x \in 1 .. PromptLen[r] - computed[r]
    BY <1>4 DEF Signals
  <2> QED  BY <1>1, <1>4, <2>1 DEF Ready
<1>5. ASSUME ~IsPrefill(r) PROVE computed[r] + 1 = total[r] /\ x = 1
  <2>1. x = total[r] - computed[r]
    BY <1>5 DEF Signals
  <2> QED  BY <1>1, <1>5, <2>1 DEF Ready
<1>6. g \in 0 .. y /\ x \in Nat \ {0}
  BY <1>1, <1>3, <1>4, <1>5
<1> QED  BY <1>1, <1>2, <1>3, <1>4, <1>5, <1>6 DEF Asked

(***************************************************************************)
(* The host's state before a step: drained, and ready for the scheduler.   *)
(***************************************************************************)
Idle(d) ==
  /\ ~due /\ d = Drained /\ d.pending = FALSE /\ \A r \in Live : Ready(r)
  /\ ~Async => /\ d.table = table /\ d.prev = <<>> /\ DrainedOuts(d) = <<>>
               /\ \A r \in Live : \A p \in 0 .. MaxLen - 1 : p < total[r] => table[r][p] = r
  /\ Async => Settled(d)

(***************************************************************************)
(* synchronize_input_prep() leaves the runner idle in every configuration. *)
(***************************************************************************)
LEMMA ServingIdles ==
  ASSUME ServeInv, mode # "pool", ~due, Len(outs) < QueueSize, NEW d, d = Drained
  PROVE  Idle(d)
<1>1. HandInv /\ PosInv /\ PlaceInv /\ OutInv
  BY DEF ServeInv
<1>2. CASE Async
  <2>1. mode = "async" /\ DeviceInv
    BY <1>2 DEF ServeInv, Async
  <2>2. Settled(d)
    BY <1>1, <2>1, DrainedSettles
  <2> QED  BY <1>2, <2>1, <2>2 DEF Idle, Settled, DeviceInv
<1>3. CASE ~Async
  <2>1. HostInv /\ SyncInv
    BY <1>1, <1>3 DEF ServeInv, PosInv
  <2>2. outs = <<>> /\ d = Undrained /\ DrainedOuts(d) = <<>>
    BY <1>1, <1>3, NothingLeft
  <2>3. d.table = table /\ d.prev = <<>> /\ d.pending = FALSE
    BY <2>1, <2>2 DEF HostInv, SyncInv, Undrained
  <2> QED  BY <1>3, <2>1, <2>2, <2>3 DEF Idle, HostInv
<1> QED  BY <1>2, <1>3

(***************************************************************************)
(* What execute_model() is given can be executed.                          *)
(***************************************************************************)
LEMMA BatchPrepared ==
  ASSUME PosInv, PlaceInv, CacheTrue, mode # "pool", NEW d, Idle(d),
         NEW S \in SUBSET Schedulable, NEW order \in SetToSeqs(S),
         NEW signal \in [S -> 1 .. MaxLen], NEW nd \in [S -> 0 .. K], NEW good \in [S -> 0 .. K],
         \A r \in S : signal[r] \in Signals(r) /\ nd[r] \in Drafts(r) /\ good[r] <= nd[r]
  PROVE  Prepared(S, Reordered(order), signal, nd, good, d)
<1>1. S \in SUBSET Requests /\ S \subseteq Live
  BY DEF Schedulable, Live
<1>2. Split(Reordered(order), S)
  BY <1>1, ReorderedSplits
<1>3. \A r \in S : Asked(r, signal[r], nd[r], good[r])
  <2> SUFFICES ASSUME NEW r \in S PROVE Asked(r, signal[r], nd[r], good[r])
    OBVIOUS
  <2>1. r \in Schedulable /\ Ready(r) /\ good[r] \in 0 .. K
    BY <1>1 DEF Idle
  <2> QED  BY <2>1, SchedulableAsked
<1>4. ASSUME NEW r \in S PROVE Supplied(d, r)
  <2>1. r \in Live /\ r \in Requests /\ phase[r] = "live"
    BY <1>1 DEF Live
  <2>2. CASE Async
    <3>1. Prompts(d.table) /\ Sampling(d.prev) /\ Carried(d.prev)
      BY <2>2 DEF Idle, Settled
    <3>2. \A p \in 0 .. MaxLen - 1 : p < PromptLen[r] => d.table[r][p] = r
      <4>1. PromptLen[r] \in Nat /\ MaxLen \in Nat
        BY <2>1, SizesAssumption
      <4> QED  BY <2>1, <3>1, <4>1 DEF Prompts
    <3>3. \A j \in DOMAIN d.prev : d.prev[j].req = r => d.prev[j].tok = r
      BY <2>1, <3>1 DEF Sampling
    <3>4. ~IsPrefill(r) /\ (\E i \in DOMAIN rows : rows[i] = r) =>
             \E j \in DOMAIN d.prev : d.prev[j].req = r
      BY <2>1, <3>1 DEF Carried
    <3> QED  BY <2>2, <3>2, <3>3, <3>4 DEF Supplied
  <2>3. CASE ~Async
    <3>1. /\ d.table = table /\ d.prev = <<>>
          /\ \A p \in 0 .. MaxLen - 1 : p < total[r] => table[r][p] = r
      BY <2>1, <2>3 DEF Idle
    <3>2. DOMAIN (<<>>) = {}
      OBVIOUS
    <3> QED  BY <2>3, <3>1, <3>2 DEF Supplied
  <2> QED  BY <2>2, <2>3
<1>5. \A q, r \in S : slot[q] = slot[r] => q = r
  BY <1>1 DEF PlaceInv
<1>6. ASSUME NEW r \in S, NEW p \in 0 .. computed[r] - 1
      PROVE  (mode = "consumer" /\ IsPrefill(r)) \/ kv[slot[r]][p] = r
  <2>1. /\ r \in Live /\ computed[r] \in Nat /\ total[r] \in Nat /\ computed[r] < total[r]
    BY <1>1 DEF PosInv, Schedulable, Live
  <2>2. Min({computed[r], total[r]}) = computed[r]
    BY <2>1, MinOfTwo
  <2> QED  BY <2>1, <2>2, <1>6 DEF CacheTrue
<1>7. DOMAIN nd = S /\ mode \in AllModes
  BY DEF PlaceInv
<1>8. d.pending = FALSE /\ (~Async => d.prev = <<>>)
  BY DEF Idle
<1> QED  BY <1>2, <1>3, <1>4, <1>5, <1>6, <1>7, <1>8 DEF Prepared

(***************************************************************************)
(* What execute_model() of a generating model leaves: the batch rws of the *)
(* requests S was executed on the drained state d.                         *)
(***************************************************************************)
Forwarded(S, rws, signal, nd, good, d) ==
  /\ Idle(d) /\ S \subseteq Live /\ Prepared(S, rws, signal, nd, good, d)
  /\ CellsPerformed(kv', S, signal, good) /\ RowsPerformed(state', rws, signal, nd, good)
  /\ rows' = rws /\ table' = Updated(d.table, nd, good) /\ prev' = d.prev
  /\ pending' = FALSE /\ due' = TRUE /\ outs' = DrainedOuts(d)
  /\ computed' = [r \in Requests |-> IF r \in S THEN computed[r] + signal[r] + nd[r] ELSE computed[r]]
  /\ total' = [r \in Requests |->
       IF mode = "async" /\ r \in S /\ computed[r] + signal[r] = total[r] THEN total[r] + 1 ELSE total[r]]
  /\ UNCHANGED <<mode, phase, slot>>

(***************************************************************************)
(* execute_model() is such a step: what it asks for was prepared, and the  *)
(* device performed it.                                                    *)
(***************************************************************************)
LEMMA ExecuteForwards ==
  ASSUME PosInv, PlaceInv, CacheTrue, mode # "pool", NEW d, Idle(d),
         NEW S \in SUBSET Schedulable, NEW order \in SetToSeqs(S),
         NEW signal \in [S -> 1 .. MaxLen], NEW nd \in [S -> 0 .. K], NEW good \in [S -> 0 .. K],
         \A r \in S : signal[r] \in Signals(r) /\ nd[r] \in Drafts(r) /\ good[r] <= nd[r],
         Execute(S, order, signal, nd, good)
  PROVE  Forwarded(S, Reordered(order), signal, nd, good, d)
<1>1. PICK rws : rws = Reordered(order)
  OBVIOUS
<1>2. PICK x : x = Step(rws, signal, nd, good, d)
  OBVIOUS
<1>3. Prepared(S, rws, signal, nd, good, d)
  BY <1>1, BatchPrepared
<1>4. CellsPerformed(x.kv, S, signal, good) /\ RowsPerformed(x.st, rws, signal, nd, good)
  <2>1. BufferInv
    BY DEF PosInv
  <2> QED  BY <1>2, <1>3, <2>1, StepCells, StepRows
<1>5. /\ table' = x.tab /\ kv' = x.kv /\ state' = x.st /\ prev' = d.prev /\ pending' = d.pending
      /\ due' = TRUE /\ outs' = DrainedOuts(d) /\ rows' = rws
  BY <1>1, <1>2 DEF Execute, ExecuteForward, Idle
<1>6. x.tab = Updated(d.table, nd, good)
  BY <1>2 DEF Step
<1>7. /\ computed' = [r \in Requests |-> IF r \in S THEN computed[r] + signal[r] + nd[r] ELSE computed[r]]
      /\ total' = [r \in Requests |->
           IF mode = "async" /\ r \in S /\ computed[r] + signal[r] = total[r] THEN total[r] + 1 ELSE total[r]]
      /\ UNCHANGED <<mode, phase, slot>>
  BY DEF Execute
<1>8. d.pending = FALSE /\ S \subseteq Live
  BY DEF Idle, Schedulable
<1> QED  BY <1>1, <1>3, <1>4, <1>5, <1>6, <1>7, <1>8 DEF Forwarded

(***************************************************************************)
(* What the scheduler counts for a request of the step.                    *)
(***************************************************************************)
LEMMA ForwardedCounts ==
  ASSUME NEW S, NEW rws, NEW signal, NEW nd, NEW good, NEW d,
         Forwarded(S, rws, signal, nd, good, d), NEW r \in S
  PROVE  /\ r \in Requests /\ phase[r] = "live" /\ slot[r] \in Slots
         /\ {computed[r], total[r], signal[r], nd[r], good[r], PromptLen[r], MaxLen} \subseteq Nat
         /\ signal[r] >= 1 /\ good[r] <= nd[r] /\ total[r] + nd[r] < MaxLen
         /\ computed'[r] = computed[r] + signal[r] + nd[r]
         /\ total'[r] = IF mode = "async" /\ computed[r] + signal[r] = total[r] THEN total[r] + 1 ELSE total[r]
         /\ computed[r] + signal[r] <= total[r] /\ PromptLen[r] <= total[r]
         /\ computed[r] + signal[r] < total[r] =>
              nd[r] = 0 /\ total[r] = PromptLen[r] /\ mode # "consumer"
         /\ Async => nd[r] = 0 /\ good[r] = 0
<1>1. r \in Requests /\ phase[r] = "live"
  BY DEF Forwarded, Live
<1>2. Asked(r, signal[r], nd[r], good[r])
  BY DEF Forwarded, Prepared
<1>3. MaxLen \in Nat /\ K \in Nat
  BY SizesAssumption
<1>4. /\ computed'[r] = computed[r] + signal[r] + nd[r]
      /\ total'[r] = IF mode = "async" /\ computed[r] + signal[r] = total[r] THEN total[r] + 1 ELSE total[r]
  BY <1>1 DEF Forwarded
<1>5. computed[r] + signal[r] <= total[r]
  BY <1>2 DEF Asked
<1>6. computed[r] + signal[r] < total[r] => nd[r] = 0 /\ total[r] = PromptLen[r] /\ mode # "consumer"
  BY <1>2 DEF Asked
<1>7. /\ {computed[r], total[r], signal[r], nd[r], good[r], PromptLen[r], MaxLen} \subseteq Nat
      /\ signal[r] >= 1 /\ good[r] <= nd[r] /\ total[r] + nd[r] < MaxLen
      /\ PromptLen[r] <= total[r] /\ slot[r] \in Slots /\ (Async => nd[r] = 0 /\ good[r] = 0)
  BY <1>2, <1>3 DEF Asked
<1> QED  BY <1>1, <1>4, <1>5, <1>6, <1>7

(***************************************************************************)
(* A request that was not in the step is as it was, cells included.        *)
(***************************************************************************)
LEMMA ForwardedOthers ==
  ASSUME PosInv, PlaceInv, NEW S, NEW rws, NEW signal, NEW nd, NEW good, NEW d,
         Forwarded(S, rws, signal, nd, good, d), NEW r \in Requests, r \notin S
  PROVE  /\ computed'[r] = computed[r] /\ total'[r] = total[r] /\ slot'[r] = slot[r]
         /\ table'[r] = d.table[r]
         /\ phase[r] = "live" => \A p \in Cells : kv'[slot[r]][p] = kv[slot[r]][p]
<1>1. computed'[r] = computed[r] /\ total'[r] = total[r] /\ slot'[r] = slot[r]
  BY DEF Forwarded
<1>2. table'[r] = d.table[r]
  <2>1. DOMAIN nd = S
    BY DEF Forwarded, Prepared
  <2> QED  BY <2>1 DEF Forwarded, Updated
<1>3. ASSUME phase[r] = "live" PROVE \A p \in Cells : kv'[slot[r]][p] = kv[slot[r]][p]
  <2>1. slot[r] \in Slots
    BY <1>3, SizesAssumption DEF PlaceInv, Slots
  <2>2. \A q \in S : slot[q] # slot[r]
    BY <1>3 DEF Forwarded, PlaceInv, Live
  <2> QED  BY <2>1, <2>2 DEF Forwarded, CellsPerformed
<1> QED  BY <1>1, <1>2, <1>3

(***************************************************************************)
(* execute_model() keeps the places and the cells.                         *)
(***************************************************************************)
LEMMA ForwardPlaces ==
  ASSUME PosInv, PlaceInv, NEW S, NEW rws, NEW signal, NEW nd, NEW good, NEW d,
         Forwarded(S, rws, signal, nd, good, d)
  PROVE  PlaceInv'
<1>1. UNCHANGED <<mode, phase, slot>> /\ rows' = rws
  BY DEF Forwarded
<1>2. \A i, j \in DOMAIN rws : rws[i] = rws[j] => i = j
  BY DEF Forwarded, Prepared, Split
<1>3. \A i \in DOMAIN rws : phase[rws[i]] # "new"
  <2>1. \A i \in DOMAIN rws : rws[i] \in S
    BY DEF Forwarded, Prepared, Split
  <2> QED  BY <2>1, ForwardedCounts
<1>4. ASSUME NEW r \in Requests
      PROVE  /\ PromptLen[r] <= total'[r] /\ total'[r] <= MaxLen
             /\ phase[r] = "new" => total'[r] = PromptLen[r]
  <2>1. CASE r \in S
    <3>1. /\ {total[r], PromptLen[r], MaxLen, nd[r]} \subseteq Nat /\ phase[r] = "live"
          /\ PromptLen[r] <= total[r] /\ total[r] + nd[r] < MaxLen
          /\ total'[r] = IF mode = "async" /\ computed[r] + signal[r] = total[r] THEN total[r] + 1 ELSE total[r]
      BY <2>1, ForwardedCounts
    <3> QED  BY <3>1
  <2>2. CASE r \notin S
    <3>1. total'[r] = total[r]
      BY <2>2, ForwardedOthers
    <3> QED  BY <3>1 DEF PlaceInv
  <2> QED  BY <2>1, <2>2
<1> QED  BY <1>1, <1>2, <1>3, <1>4 DEF PlaceInv, Live

(***************************************************************************)
(* execute_model() keeps CacheTrue: the slots of the step's requests hold  *)
(* what the scheduler counts, the others were not touched.                 *)
(***************************************************************************)
LEMMA ForwardCache ==
  ASSUME PosInv, PlaceInv, CacheTrue, NEW S, NEW rws, NEW signal, NEW nd, NEW good, NEW d,
         Forwarded(S, rws, signal, nd, good, d)
  PROVE  CacheTrue'
<1>1. UNCHANGED <<mode, phase, slot>> /\ mode # "pool" /\ Live' = Live
  BY DEF Forwarded, Prepared, Live
<1> SUFFICES ASSUME NEW r \in Live, NEW p \in 0 .. Min({computed'[r], total'[r]}) - 1,
                    ~(mode = "consumer" /\ IsPrefill(r)')
             PROVE  kv'[slot[r]][p] = r
  BY <1>1 DEF CacheTrue
<1>2. r \in Requests /\ phase[r] = "live"
  BY DEF Live
<1>3. CASE r \in S
  <2>1. /\ {computed[r], total[r], signal[r], nd[r], good[r], MaxLen} \subseteq Nat
        /\ good[r] <= nd[r] /\ total[r] + nd[r] < MaxLen
        /\ computed'[r] = computed[r] + signal[r] + nd[r]
        /\ total'[r] = IF mode = "async" /\ computed[r] + signal[r] = total[r] THEN total[r] + 1 ELSE total[r]
        /\ computed[r] + signal[r] <= total[r]
        /\ computed[r] + signal[r] < total[r] => nd[r] = 0
        /\ Async => nd[r] = 0
    BY <1>3, ForwardedCounts
  <2>2. computed'[r] \in Nat /\ total'[r] \in Nat
    BY <2>1
  <2>3. p \in Nat /\ p < computed'[r] /\ p < total'[r]
    BY <2>2, MinOfTwo
  <2>4. p < total[r] /\ p < computed[r] + signal[r]
    BY <2>1, <2>3 DEF Async
  <2>5. p \in Cells
    BY <2>1, <2>3, <2>4, SizesAssumption DEF Cells
  <2> QED  BY <1>3, <2>1, <2>4, <2>5 DEF Forwarded, CellsPerformed
<1>4. CASE r \notin S
  <2>1. /\ computed'[r] = computed[r] /\ total'[r] = total[r]
        /\ \A q \in Cells : kv'[slot[r]][q] = kv[slot[r]][q]
    BY <1>2, <1>4, ForwardedOthers
  <2>2. /\ computed[r] \in Nat /\ total[r] \in Nat /\ total[r] <= MaxLen /\ MaxLen \in Nat /\ K \in Nat
    BY <1>2, SizesAssumption DEF PosInv, PlaceInv
  <2>3. p \in 0 .. Min({computed[r], total[r]}) - 1 /\ p < total[r] /\ p \in Nat
    BY <2>1, <2>2, MinOfTwo
  <2>4. p \in Cells
    BY <2>2, <2>3 DEF Cells
  <2>5. IsPrefill(r)' <=> IsPrefill(r)
    BY <2>1 DEF IsPrefill
  <2> QED  BY <1>1, <2>1, <2>3, <2>4, <2>5 DEF CacheTrue
<1> QED  BY <1>3, <1>4

(***************************************************************************)
(* The record of the step finds its logits.                                *)
(***************************************************************************)
LEMMA ForwardRecords ==
  ASSUME NEW S, NEW rws, NEW signal, NEW nd, NEW good, NEW d,
         Forwarded(S, rws, signal, nd, good, d)
  PROVE  Recorded(state)'
<1>1. PICK st : st = state'
  OBVIOUS
<1>2. RowsPerformed(st, rws, signal, nd, good) /\ rows' = rws
  BY <1>1 DEF Forwarded
<1>3. \A i \in DOMAIN rws : rws[i] \in S
  BY DEF Forwarded, Prepared, Split
<1>4. \A r \in S : good[r] \in 0 .. K
  <2>1. \A r \in S : Asked(r, signal[r], nd[r], good[r])
    BY DEF Forwarded, Prepared
  <2> QED  BY <2>1, SizesAssumption DEF Asked
<1>5. st.good \in [DOMAIN rws -> 0 .. K]
  BY <1>2, <1>3, <1>4 DEF RowsPerformed
<1>6. ASSUME NEW i \in DOMAIN rws, ~st.discard[i],
             NEW j \in 1 .. st.good[i] + 1, NEW at, at = Offset(st, i) + j
      PROVE  at <= Len(st.logits) /\ st.logits[at] = <<rws[i], st.first[i] + j - 1>>
  BY <1>2, <1>6 DEF RowsPerformed
<1>7. ASSUME NEW i \in DOMAIN rws, ~st.discard[i] PROVE (Sampled(st, i).ok)'
  <2>1. \A j \in 1 .. st.drafts[i] : st.draft_ids[i][j] = IF j <= st.good[i] THEN rows'[i] ELSE Junk
    BY <1>2 DEF RowsPerformed
  <2> QED  BY <1>2, <1>6, <1>7, <2>1 DEF Sampled
<1>8. /\ st.first \in [DOMAIN rws -> Nat] /\ st.discard \in [DOMAIN rws -> BOOLEAN]
  BY <1>2 DEF RowsPerformed
<1> QED  BY <1>1, <1>2, <1>5, <1>7, <1>8 DEF Recorded

(***************************************************************************)
(* execute_model() without asynchronous sampling.                          *)
(***************************************************************************)
LEMMA ForwardHost ==
  ASSUME PosInv, PlaceInv, ~Async, NEW S, NEW rws, NEW signal, NEW nd, NEW good, NEW d,
         Forwarded(S, rws, signal, nd, good, d)
  PROVE  HostInv'
<1>1. /\ UNCHANGED <<mode, phase, slot>> /\ Live' = Live /\ mode # "async" /\ rows' = rws
      /\ pending' = FALSE /\ due' = TRUE /\ outs' = <<>>
  BY DEF Forwarded, Live, Idle, Async
<1>2. PICK st : st = state'
  OBVIOUS
<1>3. RowsPerformed(st, rws, signal, nd, good)
  BY <1>2 DEF Forwarded
<1>4. \A i \in DOMAIN rws : rws[i] \in S
  BY DEF Forwarded, Prepared, Split
<1>5. \A r \in Live : r \in Requests /\ phase[r] = "live"
  BY DEF Live
<1>6. ASSUME NEW r \in Live, NEW p \in 0 .. MaxLen - 1, p < total'[r] PROVE table'[r][p] = r
  <2>1. d.table = table /\ (p < total[r] => table[r][p] = r)
    BY <1>5, <1>6 DEF Forwarded, Idle
  <2>2. total'[r] = total[r] /\ total[r] \in Nat /\ r \in Requests
    BY <1>1, <1>5 DEF Forwarded, PosInv
  <2>3. CASE r \notin S
    <3>1. table'[r] = d.table[r]
      BY <1>5, <2>3, ForwardedOthers
    <3> QED  BY <1>6, <2>1, <2>2, <3>1
  <2>4. CASE r \in S
    <3>1. good[r] \in Nat /\ nd[r] \in Nat /\ DOMAIN nd = S /\ p < total[r]
      <4>1. {good[r], nd[r]} \subseteq Nat
        BY <2>4, ForwardedCounts
      <4> QED  BY <1>6, <2>2, <4>1 DEF Forwarded, Prepared
    <3>2. p \notin total[r] .. total[r] + nd[r] - 1 /\ p < total[r] + good[r]
      BY <2>2, <3>1
    <3>3. Updated(d.table, nd, good)[r][p] \in {r, d.table[r][p]}
      BY <2>2, <2>4, <3>1, <3>2 DEF Updated
    <3> QED  BY <2>1, <3>1, <3>3 DEF Forwarded
  <2> QED  BY <2>3, <2>4
<1>7. ASSUME NEW i \in DOMAIN rws, st.discard[i] PROVE Ready(rws[i])'
  <2>1. PICK r \in S : r = rws[i]
    BY <1>4
  <2>2. computed[r] + signal[r] < total[r]
    BY <1>3, <1>7, <2>1 DEF RowsPerformed
  <2>3. /\ {computed[r], total[r], signal[r], nd[r], PromptLen[r]} \subseteq Nat
        /\ computed'[r] = computed[r] + signal[r] + nd[r]
        /\ total'[r] = IF mode = "async" /\ computed[r] + signal[r] = total[r] THEN total[r] + 1 ELSE total[r]
        /\ nd[r] = 0 /\ total[r] = PromptLen[r] /\ mode # "consumer"
    BY <2>2, ForwardedCounts
  <2>4. Ready(r)'
    BY <1>1, <2>2, <2>3 DEF Ready, IsPrefill
  <2> QED  BY <2>1, <2>4
<1>8. ASSUME NEW i \in DOMAIN rws, ~st.discard[i] PROVE Finishing(st, i)'
  <2>1. PICK r \in S : r = rws[i]
    BY <1>4
  <2>2. /\ {computed[r], total[r], signal[r], nd[r], good[r], PromptLen[r], MaxLen} \subseteq Nat
        /\ computed'[r] = computed[r] + signal[r] + nd[r]
        /\ total'[r] = IF mode = "async" /\ computed[r] + signal[r] = total[r] THEN total[r] + 1 ELSE total[r]
        /\ computed[r] + signal[r] <= total[r] /\ good[r] <= nd[r] /\ total[r] + nd[r] < MaxLen
    BY ForwardedCounts
  <2>3. /\ ~(computed[r] + signal[r] < total[r]) /\ st.first[i] = total[r] - 1
        /\ st.good[i] = good[r]
    BY <1>3, <1>8, <2>1 DEF RowsPerformed
  <2>4. total'[r] = total[r] /\ computed'[r] >= total[r] /\ total[r] + st.good[i] < MaxLen
    BY <1>1, <2>2, <2>3
  <2>5. ASSUME NEW q \in 0 .. total[r] + st.good[i] - 1 PROVE kv'[slot[r]][q] = r
    <3>1. q \in Cells /\ q < total[r] + good[r] /\ q < computed[r] + signal[r] + good[r]
      BY <2>2, <2>3, SizesAssumption DEF Cells
    <3> QED  BY <3>1 DEF Forwarded, CellsPerformed
  <2> QED  BY <1>1, <2>1, <2>3, <2>4, <2>5 DEF Finishing
<1>9. \A i \in DOMAIN rws : phase[rws[i]] = "live"
  BY <1>4, ForwardedCounts
<1>10. ASSUME NEW r \in Live, ~\E i \in DOMAIN rws : rws[i] = r PROVE Ready(r)'
  <2>1. r \notin S
    BY <1>10 DEF Forwarded, Prepared, Split
  <2>2. computed'[r] = computed[r] /\ total'[r] = total[r] /\ Ready(r)
    <3>1. Ready(r)
      BY DEF Forwarded, Idle
    <3> QED  BY <1>5, <2>1, <3>1, ForwardedOthers
  <2> QED  BY <1>1, <2>2 DEF Ready, IsPrefill
<1>11. Recorded(state)'
  BY ForwardRecords
<1>12. Stepped(state)'
  BY <1>1, <1>2, <1>7, <1>8, <1>9, <1>10, <1>11 DEF Stepped
<1> QED  BY <1>1, <1>6, <1>12 DEF HostInv

(***************************************************************************)
(* execute_model() with asynchronous sampling.                             *)
(***************************************************************************)
LEMMA ForwardDevice ==
  ASSUME PosInv, PlaceInv, mode = "async", NEW S, NEW rws, NEW signal, NEW nd, NEW good, NEW d,
         Forwarded(S, rws, signal, nd, good, d)
  PROVE  DeviceInv'
<1>1. /\ UNCHANGED <<mode, phase, slot>> /\ Live' = Live /\ rows' = rws /\ Async
      /\ pending' = FALSE /\ due' = TRUE /\ outs' = DrainedOuts(d) /\ prev' = d.prev
  BY DEF Forwarded, Live, Async
<1>2. Settled(d) /\ \A r \in Live : Ready(r)
  BY <1>1 DEF Forwarded, Idle
<1>3. PICK st : st = state'
  OBVIOUS
<1>4. RowsPerformed(st, rws, signal, nd, good)
  BY <1>3 DEF Forwarded
<1>5. \A i \in DOMAIN rws : rws[i] \in S
  BY DEF Forwarded, Prepared, Split
<1>6. \A r \in Live : r \in Requests
  BY DEF Live
<1>7. ASSUME NEW r \in S
      PROVE  /\ {computed[r], total[r], signal[r], PromptLen[r]} \subseteq Nat
             /\ computed'[r] = computed[r] + signal[r] /\ nd[r] = 0 /\ good[r] = 0
             /\ total'[r] = IF computed[r] + signal[r] = total[r] THEN total[r] + 1 ELSE total[r]
             /\ computed[r] + signal[r] <= total[r] /\ PromptLen[r] <= total[r]
             /\ computed[r] + signal[r] < total[r] => total[r] = PromptLen[r]
  <2>1. /\ {computed[r], total[r], signal[r], PromptLen[r]} \subseteq Nat
        /\ computed'[r] = computed[r] + signal[r] + nd[r] /\ nd[r] = 0 /\ good[r] = 0
        /\ total'[r] = IF mode = "async" /\ computed[r] + signal[r] = total[r] THEN total[r] + 1 ELSE total[r]
        /\ computed[r] + signal[r] <= total[r] /\ PromptLen[r] <= total[r]
        /\ computed[r] + signal[r] < total[r] => total[r] = PromptLen[r]
    BY <1>1, ForwardedCounts
  <2> QED  BY <2>1
<1>8. ASSUME NEW r \in Live PROVE Ready(r)'
  <2>1. CASE r \in S
    BY <1>1, <1>7, <2>1 DEF Ready, IsPrefill
  <2>2. CASE r \notin S
    <3>1. computed'[r] = computed[r] /\ total'[r] = total[r] /\ Ready(r)
      BY <1>2, <1>6, <2>2, ForwardedOthers
    <3> QED  BY <1>1, <3>1 DEF Ready, IsPrefill
  <2> QED  BY <2>1, <2>2
<1>9. ASSUME NEW r \in Live, NEW p \in 0 .. PromptLen[r] - 1 PROVE table'[r][p] = r
  <2>1. d.table[r][p] = r
    BY <1>2 DEF Settled, Prompts
  <2>2. CASE r \notin S
    BY <1>6, <2>1, <2>2, ForwardedOthers
  <2>3. CASE r \in S
    <3>1. /\ nd[r] = 0 /\ good[r] = 0 /\ DOMAIN nd = S /\ r \in Requests /\ p < total[r]
          /\ total[r] \in Nat /\ p \in Nat
      <4>1. /\ {total[r], PromptLen[r]} \subseteq Nat /\ nd[r] = 0 /\ good[r] = 0 /\ PromptLen[r] <= total[r]
        BY <1>7, <2>3
      <4>2. p \in Nat /\ p < PromptLen[r]
        BY <4>1
      <4> QED  BY <1>6, <4>1, <4>2 DEF Forwarded, Prepared
    <3>2. p \in 0 .. MaxLen - 1
      BY <1>6, SizesAssumption
    <3>3. p \notin total[r] .. total[r] + nd[r] - 1 /\ p < total[r] + good[r]
      BY <3>1
    <3>4. Updated(d.table, nd, good)[r][p] \in {r, d.table[r][p]}
      BY <2>3, <3>1, <3>2, <3>3 DEF Updated
    <3> QED  BY <2>1, <3>4 DEF Forwarded
  <2> QED  BY <2>2, <2>3
<1>10. ASSUME NEW i \in DOMAIN rws
       PROVE  /\ st.good[i] = 0 /\ (st.discard[i] <=> computed'[rws[i]] < PromptLen[rws[i]])
              /\ ~st.discard[i] => st.first[i] = total'[rws[i]] - 2
  <2>1. PICK r \in S : r = rws[i]
    BY <1>5
  <2>2. /\ st.good[i] = good[r] /\ (st.discard[i] <=> computed[r] + signal[r] < total[r])
        /\ ~st.discard[i] => st.first[i] = total[r] - 1
    BY <1>4, <2>1 DEF RowsPerformed
  <2>3. /\ st.good[i] = 0 /\ (st.discard[i] <=> computed'[r] < PromptLen[r])
        /\ ~st.discard[i] => st.first[i] = total'[r] - 2
    BY <1>7, <2>2
  <2> QED  BY <2>1, <2>3
<1>11. Recorded(state)'
  BY ForwardRecords
<1>12. InFlight(state)'
  BY <1>1, <1>3, <1>10, <1>11 DEF InFlight, IsPrefill
<1>13. Prompts(table)'
  BY <1>1, <1>9 DEF Prompts
<1>14. Sampling(prev)'
  BY <1>1, <1>2 DEF Sampling, Settled
<1>15. \A i \in DOMAIN outs' : outs'[i].result # None
  BY <1>1, <1>2 DEF Settled
<1> QED  BY <1>1, <1>8, <1>12, <1>13, <1>14, <1>15 DEF DeviceInv

(***************************************************************************)
(* execute_model() leaves no wrong output.                                 *)
(***************************************************************************)
LEMMA ForwardOuts ==
  ASSUME NEW S, NEW rws, NEW signal, NEW nd, NEW good, NEW d,
         Forwarded(S, rws, signal, nd, good, d)
  PROVE  OutInv'
<1>1. outs' = DrainedOuts(d)
  BY DEF Forwarded
<1>2. CASE Async
  BY <1>1, <1>2 DEF Forwarded, Idle, Settled, OutInv, Honest
<1>3. CASE ~Async
  <2>1. DrainedOuts(d) = <<>>
    BY <1>3 DEF Forwarded, Idle
  <2> QED  BY <1>1, <2>1 DEF OutInv
<1> QED  BY <1>2, <1>3

(***************************************************************************)
(* execute_model() of a generating model keeps the invariant.              *)
(***************************************************************************)
LEMMA ForwardServes ==
  ASSUME ServeInv, HandInv', PosInv', mode # "pool", ~due, Len(outs) < QueueSize,
         NEW S \in SUBSET Schedulable, NEW order \in SetToSeqs(S),
         NEW signal \in [S -> 1 .. MaxLen], NEW nd \in [S -> 0 .. K], NEW good \in [S -> 0 .. K],
         \A r \in S : signal[r] \in Signals(r) /\ nd[r] \in Drafts(r) /\ good[r] <= nd[r],
         Execute(S, order, signal, nd, good)
  PROVE  ServeInv'
<1>1. PICK d : d = Drained
  OBVIOUS
<1>2. PICK rws : rws = Reordered(order)
  OBVIOUS
<1>3. Idle(d)
  BY <1>1, ServingIdles
<1>4. PosInv /\ PlaceInv /\ CacheTrue
  BY DEF ServeInv
<1>5. Forwarded(S, rws, signal, nd, good, d)
  BY <1>2, <1>3, <1>4, ExecuteForwards
<1>6. mode' = mode
  BY <1>5 DEF Forwarded
<1>7. PlaceInv'
  BY <1>4, <1>5, ForwardPlaces
<1>8. CacheTrue'
  BY <1>4, <1>5, ForwardCache
<1>9. OutInv'
  BY <1>5, ForwardOuts
<1>10. ~Async => HostInv'
  BY <1>4, <1>5, ForwardHost
<1>11. mode = "async" => DeviceInv'
  BY <1>4, <1>5, ForwardDevice
<1>12. Async' <=> Async
  BY <1>6 DEF Async
<1> QED  BY <1>6, <1>7, <1>8, <1>9, <1>10, <1>11, <1>12 DEF ServeInv

-----------------------------------------------------------------------------
(***************************************************************************)
(* A pooling model hands out the vectors of the batch in the encode buffer.*)
(***************************************************************************)
LEMMA PoolOutput ==
  ASSUME PosInv, PlaceInv, PoolInv
  PROVE  Honest(PoolResult)
<1>1. rows \in Seq(Requests)
  BY DEF PosInv
<1>2. \A r \in Range(rows) : \E i \in DOMAIN rows : rows[i] = r
  BY DEF Range
<1>3. DOMAIN PoolResult = Range(rows) /\ Range(rows) \subseteq Requests
  <2>1. \A i \in DOMAIN rows : rows[i] \in Requests
    BY <1>1
  <2> QED  BY <1>2, <2>1 DEF PoolResult
<1>4. ASSUME NEW r \in Range(rows) PROVE PoolResult[r].ok
  <2>1. PICK i \in DOMAIN rows : rows[i] = r
    BY <1>2
  <2>2. RowOf(r) = i
    BY <2>1 DEF RowOf, PlaceInv
  <2>3. encoded = rows
    <3>1. rows # <<>>
      <4>1. DOMAIN (<<>>) = {}
        OBVIOUS
      <4> QED  BY <2>1, <4>1
    <3> QED  BY <3>1 DEF PoolInv
  <2>4. i <= Len(encoded) /\ encoded[i] = rows[i]
    BY <1>1, <2>1, <2>3
  <2> QED  BY <2>2, <2>4 DEF PoolResult, Pooled
<1> QED  BY <1>3, <1>4 DEF Honest

(***************************************************************************)
(* An output of a pooling model, with the right vectors if it was computed.*)
(***************************************************************************)
Pools(o) == o = [st |-> o.st, result |-> o.result] /\ (o.result # None => Honest(o.result))

(***************************************************************************)
(* Collecting any output of a pooling model.                               *)
(***************************************************************************)
LEMMA PoolCollected ==
  ASSUME PosInv, PlaceInv, PoolInv, mode = "pool", NEW o, Pools(o)
  PROVE  Pools(GetOutput(o).o)
<1>1. CASE o.result # None
  BY <1>1 DEF GetOutput, Pools
<1>2. CASE o.result = None
  <2>1. GetOutput(o).o = [o EXCEPT !.result = PoolResult]
    BY <1>2 DEF GetOutput, GetPoolOutput
  <2>2. GetOutput(o).o = [st |-> o.st, result |-> PoolResult]
    BY <2>1 DEF Pools
  <2> QED  BY <2>2, PoolOutput DEF Pools
<1> QED  BY <1>1, <1>2
(***************************************************************************)
(* Draining a pooling model.                                               *)
(***************************************************************************)
LEMMA PoolDrained ==
  ASSUME HandInv, PosInv, PlaceInv, OutInv, PoolInv, mode = "pool", NEW d, d = Drained
  PROVE  /\ ~d.pending
         /\ \A i \in DOMAIN DrainedOuts(d) : Pools(DrainedOuts(d)[i])
<1>1. outs \in Seq(Range(outs)) /\ Async
  BY DEF HandInv, Async
<1>2. \A i \in DOMAIN outs : Pools(outs[i])
  BY DEF OutInv, PoolInv, Pools
<1>3. CASE ~pending
  BY <1>2, <1>3 DEF Drained, Undrained, DrainedOuts
<1>4. CASE pending
  <2>1. PICK n \in Nat \ {0} : n = Len(outs) /\ DOMAIN outs = 1 .. n
    BY <1>1, <1>4 DEF PoolInv
  <2>2. PICK o : o = outs[n]
    OBVIOUS
  <2>3. o = Last(outs) /\ o.result = None /\ Pools(o)
    BY <1>2, <1>4, <2>1, <2>2 DEF Last, PoolInv
  <2>4. d = GetOutput(o)
    BY <1>1, <1>4, <2>3 DEF Drained
  <2>5. ~d.pending
    BY <2>3, <2>4 DEF GetOutput, GetPoolOutput
  <2>6. Pools(d.o)
    BY <2>3, <2>4, PoolCollected
  <2>7. DrainedOuts(d) = Append(Front(outs), d.o)
    BY <1>1, <1>4 DEF DrainedOuts
  <2>8. /\ DOMAIN DrainedOuts(d) = 1 .. n /\ DrainedOuts(d)[n] = d.o
        /\ \A i \in 1 .. n - 1 : DrainedOuts(d)[i] = outs[i]
    BY <1>1, <2>1, <2>7 DEF Front
  <2>9. \A i \in 1 .. n - 1 : Pools(DrainedOuts(d)[i])
    BY <1>2, <2>1, <2>8
  <2>10. \A i \in DOMAIN DrainedOuts(d) : Pools(DrainedOuts(d)[i])
    BY <2>1, <2>6, <2>8, <2>9
  <2> QED  BY <2>5, <2>10
<1> QED  BY <1>3, <1>4

(***************************************************************************)
(* execute_model() of a pooling model.                                     *)
(***************************************************************************)
LEMMA PoolServes ==
  ASSUME ServeInv, HandInv', PosInv', mode = "pool",
         NEW S \in SUBSET Schedulable, NEW order \in SetToSeqs(S), NEW signal, NEW nd, NEW good,
         Execute(S, order, signal, nd, good)
  PROVE  ServeInv'
<1>1. PICK d : d = Drained
  OBVIOUS
<1>2. PICK rws : rws = Reordered(order)
  OBVIOUS
<1>3. HandInv /\ PosInv /\ PlaceInv /\ OutInv /\ PoolInv
  BY DEF ServeInv
<1>4. /\ encoded' = rws /\ rows' = rws /\ pending' = TRUE /\ UNCHANGED <<mode, phase, slot>>
      /\ outs' = Append(DrainedOuts(d), [st |-> None, result |-> None])
      /\ total' = [r \in Requests |-> total[r]]
  BY <1>1, <1>2 DEF Execute, ExecutePool
<1>5. \A i \in DOMAIN DrainedOuts(d) : Pools(DrainedOuts(d)[i])
  BY <1>1, <1>3, PoolDrained
<1>6. DrainedOuts(d) \in Seq(Range(DrainedOuts(d)))
  BY <1>3, DrainedSeq
<1>7. outs' # <<>> /\ Last(outs') = [st |-> None, result |-> None]
  BY <1>4, <1>6, NewestAppended
<1>8. \A i \in DOMAIN outs' : Pools(outs'[i])
  <2> SUFFICES ASSUME NEW i \in DOMAIN outs' PROVE Pools(outs'[i])
    OBVIOUS
  <2>1. (i \in DOMAIN DrainedOuts(d) /\ outs'[i] = DrainedOuts(d)[i])
        \/ outs'[i] = [st |-> None, result |-> None]
    BY <1>4, <1>6
  <2> QED  BY <1>5, <2>1 DEF Pools
<1>9. PoolInv'
  BY <1>4, <1>7, <1>8 DEF PoolInv, Pools
<1>10. OutInv'
  BY <1>8 DEF OutInv, Pools, Honest
<1>11. Split(rws, S) /\ S \subseteq Live /\ Live' = Live
  <2>1. S \in SUBSET Requests /\ S \subseteq Live
    BY DEF Schedulable, Live
  <2> QED  BY <1>2, <1>4, <2>1, ReorderedSplits DEF Live
<1>12. PlaceInv'
  <2>1. \A i, j \in DOMAIN rws : rws[i] = rws[j] => i = j
    BY <1>11 DEF Split
  <2>2. \A i \in DOMAIN rws : phase[rws[i]] # "new"
    BY <1>11 DEF Split, Live
  <2>3. \A r \in Requests : total'[r] = total[r]
    BY <1>4
  <2> QED  BY <1>3, <1>4, <1>11, <2>1, <2>2, <2>3 DEF PlaceInv
<1>13. mode' = "pool" /\ CacheTrue'
  BY <1>4 DEF CacheTrue
<1> QED  BY <1>9, <1>10, <1>12, <1>13 DEF ServeInv, Async

(***************************************************************************)
(* execute_model() with nothing scheduled.                                 *)
(***************************************************************************)
LEMMA NothingServes ==
  ASSUME ServeInv, HandInv', PosInv', ExecuteNothing
  PROVE  ServeInv'
<1>1. PICK d : d = Drained
  OBVIOUS
<1>2. /\ HandInv /\ PosInv /\ PlaceInv /\ OutInv /\ CacheTrue
  BY DEF ServeInv
<1>3. /\ ~due /\ Len(outs) < QueueSize /\ rows' = <<>> /\ table' = d.table /\ prev' = d.prev
      /\ pending' = d.pending /\ outs' = DrainedOuts(d)
      /\ UNCHANGED <<mode, phase, slot, computed, total, kv, buf, encoded, due>>
  BY <1>1 DEF ExecuteNothing, scheduler, device
<1>4. DOMAIN (<<>>) = {}
  OBVIOUS
<1>5. Live' = Live /\ (Async' <=> Async) /\ \A r \in Live : Ready(r) => Ready(r)'
  BY <1>3 DEF Live, Async, Ready, IsPrefill
<1>6. PlaceInv'
  BY <1>2, <1>3, <1>4, <1>5 DEF PlaceInv
<1>7. CacheTrue'
  BY <1>2, <1>3, <1>5 DEF CacheTrue, IsPrefill
<1>8. CASE mode = "pool"
  <2>1. PoolInv
    BY <1>8 DEF ServeInv
  <2>2. ~d.pending /\ \A i \in DOMAIN outs' : Pools(outs'[i])
    BY <1>1, <1>2, <1>3, <1>8, <2>1, PoolDrained
  <2>3. PoolInv'
    BY <1>3, <2>2 DEF PoolInv, Pools
  <2>4. OutInv'
    BY <2>2 DEF OutInv, Pools, Honest
  <2> QED  BY <1>3, <1>6, <1>7, <1>8, <2>3, <2>4 DEF ServeInv, Async
<1>9. CASE mode # "pool"
  <2>1. Idle(d)
    BY <1>1, <1>3, <1>9, ServingIdles
  <2>2. CASE Async
    <3>1. Settled(d) /\ mode = "async"
      BY <1>9, <2>1, <2>2 DEF Idle, Async
    <3>2. OutInv'
      BY <1>3, <3>1 DEF Settled, OutInv, Honest
    <3>3. Prompts(table)' /\ Sampling(prev)' /\ Carried(prev)'
      BY <1>3, <1>4, <1>5, <3>1 DEF Prompts, Sampling, Carried, Settled
    <3>4. \A i \in DOMAIN outs' : outs'[i].result # None
      BY <1>3, <3>1 DEF Settled
    <3>5. \A r \in Live' : Ready(r)'
      BY <1>5, <2>1 DEF Idle
    <3>6. pending' = FALSE /\ due' = due /\ ~due
      BY <1>3, <3>1 DEF Settled
    <3>7. DeviceInv'
      BY <3>3, <3>4, <3>5, <3>6 DEF DeviceInv
    <3> QED  BY <1>3, <1>6, <1>7, <2>2, <3>1, <3>2, <3>7 DEF ServeInv, Async
  <2>3. CASE ~Async
    <3>1. outs' = <<>> /\ table' = table /\ pending' = FALSE
      BY <1>3, <2>1, <2>3 DEF Idle
    <3>2. \A r \in Live' : Ready(r)'
      BY <1>5, <2>1 DEF Idle
    <3>3. HostInv'
      BY <1>3, <1>5, <2>1, <2>3, <3>1, <3>2 DEF HostInv, Idle
    <3>4. OutInv'
      BY <1>4, <3>1 DEF OutInv
    <3> QED  BY <1>3, <1>5, <1>6, <1>7, <1>9, <2>3, <3>3, <3>4 DEF ServeInv, Async
  <2> QED  BY <2>2, <2>3
<1> QED  BY <1>8, <1>9

(***************************************************************************)
(* sample_tokens() with asynchronous sampling.                             *)
(***************************************************************************)
LEMMA AsyncSampled ==
  ASSUME ServeInv, HandInv', PosInv', SampleTokensAsync
  PROVE  ServeInv'
<1>1. /\ due /\ Async /\ outs' = Append(outs, [st |-> state, result |-> None])
      /\ pending' = TRUE /\ due' = FALSE
      /\ UNCHANGED <<mode, phase, slot, computed, total, rows, table, prev, kv, buf, encoded, state>>
  BY DEF SampleTokensAsync, scheduler, batch, device
<1>2. HandInv /\ PlaceInv /\ OutInv /\ CacheTrue
  BY DEF ServeInv
<1>3. mode = "async" /\ DeviceInv
  BY <1>1, <1>2 DEF HandInv, ServeInv, Async
<1>4. outs' # <<>> /\ Last(outs') = [st |-> state, result |-> None]
  BY <1>1, <1>2, NewestAppended DEF HandInv
<1>5. /\ \A i \in DOMAIN outs : outs'[i] = outs[i] /\ outs[i].result # None
      /\ DOMAIN outs' = DOMAIN outs \cup {Len(outs')}
      /\ outs'[Len(outs')] = [st |-> state, result |-> None]
  <2>1. outs \in Seq(Range(outs)) /\ \A i \in DOMAIN outs : outs[i].result # None
    BY <1>1, <1>2, <1>3 DEF HandInv, DeviceInv
  <2> QED  BY <1>1, <2>1
<1>6. OutInv'
  <2> SUFFICES ASSUME NEW i \in DOMAIN outs', outs'[i].result # None PROVE Honest(outs'[i].result)
    BY DEF OutInv, Honest
  <2>1. PICK e : e = [st |-> state, result |-> None]
    OBVIOUS
  <2>2. e.result = None
    BY <2>1
  <2>3. i \in DOMAIN outs
    BY <1>5, <2>1, <2>2
  <2> QED  BY <1>2, <1>5, <2>3 DEF OutInv
<1>7. PlaceInv' /\ CacheTrue'
  BY <1>1, <1>2 DEF PlaceInv, CacheTrue, Live, IsPrefill
<1>8. Live' = Live /\ \A r \in Live : Ready(r) => Ready(r)'
  BY <1>1 DEF Live, Ready, IsPrefill
<1>9. InFlight(state)'
  <2>1. InFlight(state)
    BY <1>1, <1>3 DEF DeviceInv
  <2> QED  BY <1>1, <2>1 DEF InFlight, Recorded, Sampled, IsPrefill
<1>10. Prompts(table)' /\ Sampling(prev)'
  BY <1>1, <1>3, <1>8 DEF DeviceInv, Prompts, Sampling
<1>11. DeviceInv'
  BY <1>1, <1>3, <1>4, <1>5, <1>8, <1>9, <1>10 DEF DeviceInv
<1> QED  BY <1>1, <1>3, <1>6, <1>7, <1>11 DEF ServeInv, Async

(***************************************************************************)
(* sample_tokens() without asynchronous sampling: the host learns the      *)
(* tokens before the scheduler does.                                       *)
(***************************************************************************)
LEMMA SyncSampled ==
  ASSUME ServeInv, HandInv', PosInv', SampleTokensSync
  PROVE  ServeInv'
<1>1. PICK st : st = state
  OBVIOUS
<1>2. PICK res : res = Result(st)
  OBVIOUS
<1>3. /\ due /\ ~Async /\ outs' = Append(outs, [st |-> st, result |-> res])
      /\ table' = Booked(st, res) /\ due' = FALSE
      /\ UNCHANGED <<mode, phase, slot, computed, total, rows, kv, buf, encoded, pending>>
  BY <1>1, <1>2 DEF SampleTokensSync, scheduler, device
<1>4. PosInv /\ PlaceInv /\ OutInv /\ CacheTrue /\ HostInv
  BY <1>3 DEF ServeInv
<1>5. outs = <<>> /\ ~pending /\ Stepped(st)
  BY <1>1, <1>3, <1>4 DEF HostInv
<1>6. outs' = <<[st |-> st, result |-> res]>>
  BY <1>3, <1>5
<1>7. ResultOf(st, res)
  BY <1>2, <1>4, <1>5, ResultRight DEF PosInv, Stepped
<1>8. OutInv'
  BY <1>6, <1>7 DEF OutInv, ResultOf, Honest
<1>9. PlaceInv' /\ CacheTrue'
  BY <1>3, <1>4 DEF PlaceInv, CacheTrue, Live, IsPrefill
<1>10. Stepped(st)'
  BY <1>3, <1>5 DEF Stepped, Recorded, Sampled, Finishing, Live, Ready, IsPrefill
<1>11. ASSUME NEW i \in DOMAIN rows, ~st.discard[i]
       PROVE  /\ st.first[i] = total[rows[i]] - 1 /\ total[rows[i]] \in Nat /\ rows[i] \in Requests
              /\ RowOf(rows[i]) = i /\ rows[i] \in DOMAIN res /\ st.good[i] \in Nat
              /\ res[rows[i]].n = st.good[i] + 1 /\ res[rows[i]].ok
  <2>1. rows[i] \in Requests
    BY <1>4 DEF PosInv
  <2>2. st.first[i] = total[rows[i]] - 1 /\ st.good[i] \in 0 .. K
    BY <1>5, <1>11 DEF Stepped, Finishing, Recorded
  <2>3. total[rows[i]] \in Nat /\ st.good[i] \in Nat
    <3>1. K \in Nat
      BY SizesAssumption
    <3>2. total \in [Requests -> Nat]
      BY <1>4 DEF PosInv
    <3> QED  BY <2>1, <2>2, <3>1, <3>2
  <2>4. /\ RowOf(rows[i]) = i /\ rows[i] \in DOMAIN res
        /\ res[rows[i]].n = st.good[i] + 1 /\ res[rows[i]].ok
    BY <1>7, <1>11 DEF ResultOf
  <2> QED  BY <2>1, <2>2, <2>3, <2>4
<1>12. ASSUME NEW r \in Live, NEW p \in 0 .. MaxLen - 1, p < total[r] PROVE table'[r][p] = r
  <2>1. table[r][p] = r /\ r \in Requests /\ p \in Nat
    BY <1>4, <1>12, SizesAssumption DEF HostInv, Live
  <2>2. CASE r \notin DOMAIN res
    BY <1>3, <2>1, <2>2 DEF Booked
  <2>3. CASE r \in DOMAIN res
    <3>1. PICK i \in DOMAIN rows : rows[i] = r /\ ~st.discard[i]
      BY <1>7, <2>3 DEF ResultOf
    <3>2. RowOf(r) = i /\ st.first[i] = total[r] - 1 /\ total[r] \in Nat /\ res[r].n \in Nat
      BY <1>11, <3>1
    <3>3. p \notin st.first[RowOf(r)] + 1 .. st.first[RowOf(r)] + res[r].n
      BY <1>12, <2>1, <3>2
    <3> QED  BY <1>3, <2>1, <3>3 DEF Booked
  <2> QED  BY <2>2, <2>3
<1>13. Told(st)'
  <2> SUFFICES ASSUME NEW i \in DOMAIN rows, ~st.discard[i],
                      NEW p \in 0 .. MaxLen - 1, p <= total[rows[i]] + st.good[i]
               PROVE  table'[rows[i]][p] = rows[i]
    BY <1>3 DEF Told
  <2>1. PICK r \in Requests : r = rows[i]
    BY <1>11
  <2>2. /\ st.first[i] = total[r] - 1 /\ total[r] \in Nat /\ RowOf(r) = i /\ r \in DOMAIN res
        /\ st.good[i] \in Nat /\ res[r].n = st.good[i] + 1 /\ res[r].ok
    BY <1>11, <2>1
  <2>3. CASE p < total[r]
    <3>1. r \in Live
      BY <1>5, <2>1 DEF Stepped, Live
    <3> QED  BY <1>12, <2>1, <2>3, <3>1
  <2>4. CASE ~(p < total[r])
    <3>1. p \in st.first[RowOf(r)] + 1 .. st.first[RowOf(r)] + res[r].n
      <4>1. p \in Nat /\ p <= total[r] + st.good[i]
        BY <2>1, SizesAssumption
      <4> QED  BY <2>2, <2>4, <4>1
    <3> QED  BY <1>3, <2>1, <2>2, <3>1 DEF Booked
  <2> QED  BY <2>3, <2>4
<1>14. HostInv'
  <2>1. Len(outs') = 1 /\ outs'[1].st = st /\ outs' # <<>>
    BY <1>6
  <2> QED  BY <1>3, <1>5, <1>10, <1>12, <1>13, <2>1 DEF HostInv, Live
<1> QED  BY <1>3, <1>8, <1>9, <1>14 DEF ServeInv, Async

(***************************************************************************)
(* A request leaves with its slot, or nothing changes for it.              *)
(***************************************************************************)
LEMMA CollectedPlaces ==
  ASSUME PlaceInv, Collect
  PROVE  /\ \A r \in Requests : phase'[r] \in {phase[r], "done"} /\ (phase[r] # "live" => phase'[r] = phase[r])
         /\ \A r \in Live' : r \in Live /\ slot'[r] = slot[r]
         /\ slot' \in [Requests -> 0 .. MaxSeqs] /\ phase' \in [Requests -> {"new", "live", "done"}]
         /\ \A r \in Requests : slot'[r] # 0 <=> phase'[r] = "live"
<1>1. PICK F : /\ \A r \in F : phase[r] = "live"
               /\ phase' = [r \in Requests |-> IF r \in F THEN "done" ELSE phase[r]]
               /\ slot' = [r \in Requests |-> IF r \in F THEN 0 ELSE slot[r]]
  BY DEF Collect
<1>2. \A r \in Requests : /\ phase'[r] = IF r \in F THEN "done" ELSE phase[r]
                          /\ slot'[r] = IF r \in F THEN 0 ELSE slot[r]
  BY <1>1
<1>3. \A r \in Requests : phase'[r] \in {phase[r], "done"} /\ (phase[r] # "live" => phase'[r] = phase[r])
  BY <1>1, <1>2
<1>4. \A r \in Live' : r \in Live /\ slot'[r] = slot[r]
  BY <1>2 DEF Live
<1>5. slot' \in [Requests -> 0 .. MaxSeqs] /\ phase' \in [Requests -> {"new", "live", "done"}]
  BY <1>1, SizesAssumption DEF PlaceInv
<1>6. \A r \in Requests : slot'[r] # 0 <=> phase'[r] = "live"
  BY <1>2 DEF PlaceInv
<1> QED  BY <1>3, <1>4, <1>5, <1>6

(***************************************************************************)
(* Collecting an output never adds tokens without telling the scheduler    *)
(* how many: asynchronously it knows already.                              *)
(***************************************************************************)
LEMMA CollectedAsync ==
  ASSUME PosInv, PlaceInv, CacheTrue, Async, Collect
  PROVE  PlaceInv' /\ CacheTrue' /\ computed' = computed /\ total' = total
<1>1. PICK gained : /\ \A r \in Requests : gained[r] = 0
                    /\ total' = [r \in Requests |-> total[r] + gained[r]]
                    /\ computed' = [r \in Requests |-> IF gained[r] > 0 THEN total[r] + gained[r] - 1
                                                       ELSE computed[r]]
  BY DEF Collect
<1>2. computed \in [Requests -> Nat] /\ total \in [Requests -> Nat]
  BY DEF PosInv
<1>3. computed' = computed /\ total' = total
  BY <1>1, <1>2
<1>4. UNCHANGED <<mode, rows, kv>>
  BY DEF Collect, device
<1>5. /\ \A r \in Requests : phase'[r] \in {phase[r], "done"} /\ (phase[r] # "live" => phase'[r] = phase[r])
      /\ \A r \in Live' : r \in Live /\ slot'[r] = slot[r]
      /\ slot' \in [Requests -> 0 .. MaxSeqs] /\ phase' \in [Requests -> {"new", "live", "done"}]
      /\ \A r \in Requests : slot'[r] # 0 <=> phase'[r] = "live"
  BY CollectedPlaces
<1>6. \A r \in Requests : phase'[r] = "new" => phase[r] = "new"
  BY <1>5
<1>7. \A i \in DOMAIN rows : rows[i] \in Requests
  BY DEF PosInv
<1>8. PlaceInv'
  BY <1>3, <1>4, <1>5, <1>6, <1>7 DEF PlaceInv
<1>9. CacheTrue'
  BY <1>3, <1>4, <1>5 DEF CacheTrue, IsPrefill
<1> QED  BY <1>3, <1>8, <1>9

(***************************************************************************)
(* The engine collects an output of a pooling model.                       *)
(***************************************************************************)
LEMMA PoolCollects ==
  ASSUME ServeInv, mode = "pool", Collect
  PROVE  OutInv' /\ PoolInv'
<1>1. PICK o : o = Head(outs)
  OBVIOUS
<1>2. PICK d : d = GetOutput(o)
  OBVIOUS
<1>3. /\ outs # <<>> /\ outs' = Tail(outs) /\ pending' = d.pending /\ UNCHANGED <<rows, encoded>>
  BY <1>1, <1>2 DEF Collect, device
<1>4. HandInv /\ OutInv /\ PoolInv
  BY DEF ServeInv
<1>5. /\ outs' = <<>> => Last(outs) = o
      /\ outs' # <<>> => Last(outs') = Last(outs)
      /\ \A i \in DOMAIN outs' : i + 1 \in DOMAIN outs /\ outs'[i] = outs[i + 1]
  <2>1. \A i \in DOMAIN outs' : i + 1 \in DOMAIN outs /\ outs'[i] = outs[i + 1]
    BY <1>3, <1>4 DEF HandInv
  <2> QED  BY <1>1, <1>3, <1>4, <2>1, OlderCollected DEF HandInv
<1>6. OutInv'
  BY <1>4, <1>5 DEF OutInv, Honest
<1>7. pending' => outs' # <<>> /\ Last(outs').result = None
  <2>1. CASE o.result # None
    <3>1. d.pending = pending
      BY <1>2, <2>1 DEF GetOutput
    <3> QED  BY <1>3, <1>4, <1>5, <2>1, <3>1 DEF PoolInv
  <2>2. CASE o.result = None
    <3>1. ~d.pending
      BY <1>2, <2>2 DEF GetOutput, GetPoolOutput
    <3> QED  BY <1>3, <3>1
  <2> QED  BY <2>1, <2>2
<1>8. PoolInv'
  BY <1>3, <1>4, <1>5, <1>7 DEF PoolInv
<1> QED  BY <1>6, <1>8

(***************************************************************************)
(* The engine collects an asynchronous sampling output.                    *)
(***************************************************************************)
LEMMA AsyncCollects ==
  ASSUME ServeInv, mode = "async", Collect
  PROVE  OutInv' /\ DeviceInv'
<1>1. PICK o : o = Head(outs)
  OBVIOUS
<1>2. PICK d : d = GetOutput(o)
  OBVIOUS
<1>3. /\ outs # <<>> /\ outs' = Tail(outs) /\ pending' = d.pending /\ state' = d.state
      /\ table' = d.table /\ prev' = d.prev /\ ~due /\ UNCHANGED <<mode, rows, due>>
  BY <1>1, <1>2 DEF Collect
<1>4. HandInv /\ PosInv /\ PlaceInv /\ OutInv /\ DeviceInv /\ Async /\ CacheTrue
  BY DEF ServeInv, Async
<1>5. computed' = computed /\ total' = total
  BY <1>4, CollectedAsync
<1>6. Live' \subseteq Live /\ \A r \in Requests : phase'[r] = "live" => phase[r] = "live"
  <2>1. \A r \in Live' : r \in Live
    BY <1>4, CollectedPlaces
  <2> QED  BY <2>1 DEF Live
<1>7. /\ outs \in Seq(Range(outs)) /\ Len(outs) \in Nat \ {0}
      /\ outs' # <<>> => Last(outs') = Last(outs)
      /\ \A i \in DOMAIN outs' : i + 1 \in DOMAIN outs /\ outs'[i] = outs[i + 1]
      /\ Len(outs') = Len(outs) - 1 /\ DOMAIN outs' = 1 .. Len(outs')
  <2>1. outs \in Seq(Range(outs))
    BY <1>4 DEF HandInv
  <2>2. outs' # <<>> => Last(outs') = Last(outs)
    BY <1>3, <2>1, OlderCollected
  <2> QED  BY <1>3, <2>1, <2>2
<1>8. OutInv'
  BY <1>4, <1>7 DEF OutInv, Honest
<1>9. \A r \in Live' : Ready(r)'
  BY <1>3, <1>4, <1>5, <1>6 DEF DeviceInv, Ready, IsPrefill
<1>10. \A i \in DOMAIN rows : rows[i] \in Requests
  BY <1>4 DEF PosInv
<1>11. CASE o.result # None
  <2>1. /\ pending' = pending /\ UNCHANGED <<state, table, prev>>
    BY <1>2, <1>3, <1>11 DEF GetOutput
  <2>2. InFlight(state) => InFlight(state)'
    BY <1>3, <1>5, <1>6, <1>10, <2>1 DEF InFlight, Recorded, Sampled, IsPrefill
  <2>3. pending => outs' # <<>>
    <3> SUFFICES ASSUME pending, outs' = <<>> PROVE FALSE
      OBVIOUS
    <3>1. Last(outs) = o
      BY <1>1, <1>3, <1>7, OlderCollected
    <3>2. Last(outs).result = None
      BY <1>4 DEF DeviceInv
    <3> QED  BY <1>11, <3>1, <3>2
  <2>4. \A i \in DOMAIN outs' : outs'[i].result = None => i = Len(outs') /\ pending
    BY <1>4, <1>7 DEF DeviceInv
  <2>5. Prompts(table)' /\ Sampling(prev)'
    BY <1>4, <1>6, <2>1 DEF DeviceInv, Prompts, Sampling
  <2>6. ~pending => Carried(prev)'
    BY <1>3, <1>4, <1>5, <1>6, <1>10, <2>1 DEF DeviceInv, Carried, IsPrefill
  <2>7. pending => InFlight(state) /\ Last(outs) = [st |-> state, result |-> None]
    BY <1>4 DEF DeviceInv
  <2> QED  BY <1>3, <1>7, <1>8, <1>9, <2>1, <2>2, <2>3, <2>4, <2>5, <2>6, <2>7 DEF DeviceInv
<1>12. CASE o.result = None
  <2>1. Len(outs) = 1 /\ pending
    BY <1>1, <1>4, <1>7, <1>12 DEF DeviceInv
  <2>2. o = Last(outs) /\ outs' = <<>>
    BY <1>1, <1>7, <2>1 DEF Last
  <2>3. o = [st |-> state, result |-> None] /\ InFlight(state)
    BY <1>4, <2>1, <2>2 DEF DeviceInv
  <2>4. Obtained(d)
    BY <1>2, <1>4, <2>3, OutputObtained DEF DeviceInv
  <2>5. /\ Prompts(table)' /\ Sampling(prev)' /\ Carried(prev)' /\ pending' = FALSE
    BY <1>3, <1>5, <1>6, <1>10, <2>4 DEF Obtained, Prompts, Sampling, Carried, IsPrefill
  <2>6. DOMAIN outs' = {}
    BY <2>2
  <2> QED  BY <1>3, <1>8, <1>9, <2>5, <2>6 DEF DeviceInv
<1> QED  BY <1>11, <1>12

(***************************************************************************)
(* The engine collects the output of a synchronous step: the scheduler     *)
(* learns how many tokens were accepted, and they are all in the cache and *)
(* in the table.                                                           *)
(***************************************************************************)
LEMMA HostCollects ==
  ASSUME ServeInv, ~Async, Collect
  PROVE  PlaceInv' /\ CacheTrue' /\ OutInv' /\ HostInv'
<1>1. HandInv /\ PosInv /\ SyncInv /\ PlaceInv /\ HostInv /\ CacheTrue
  BY DEF ServeInv, PosInv
<1>2. PICK o : o = outs[1]
  OBVIOUS
<1>3. PICK st : st = o.st
  OBVIOUS
<1>4. PICK res : res = Result(st)
  OBVIOUS
<1>5. ~due /\ outs # <<>>
  BY DEF Collect
<1>6. Len(outs) = 1 /\ Stepped(st) /\ Told(st) /\ outs \in Seq(Range(outs)) /\ ~pending
  BY <1>1, <1>2, <1>3, <1>5 DEF HostInv, HandInv
<1>7. Head(outs) = o /\ Tail(outs) = <<>> /\ 1 \in DOMAIN outs
  <2>1. Len(Tail(outs)) = 0 /\ Tail(outs) \in Seq(Range(outs)) /\ Head(outs) = outs[1] /\ 1 \in DOMAIN outs
    BY <1>5, <1>6
  <2>2. \A R, s : s \in Seq(R) /\ Len(s) = 0 => s = <<>>
    OBVIOUS
  <2>3. Tail(outs) = <<>>
    BY <2>1, <2>2
  <2> QED  BY <1>2, <2>1, <2>3
<1>8. o = [st |-> st, result |-> res] /\ o.result # None
  BY <1>1, <1>2, <1>3, <1>4, <1>7 DEF SyncInv
<1>9. o.result = res
  BY <1>8
<1>10. ResultOf(st, res)
  BY <1>1, <1>4, <1>6, ResultRight DEF PosInv, Stepped
<1>11. PICK gained : gained = [r \in Requests |-> IF r \in DOMAIN res /\ phase[r] = "live" /\ ~Async
                                                  THEN res[r].n ELSE 0]
  OBVIOUS
<1>12. /\ outs' = <<>> /\ UNCHANGED <<mode, rows, kv, due, table, pending>>
       /\ total' = [r \in Requests |-> total[r] + gained[r]]
       /\ computed' = [r \in Requests |-> IF gained[r] > 0 THEN total[r] + gained[r] - 1 ELSE computed[r]]
  <2>1. GetOutput(o) = [o |-> o, table |-> table, prev |-> prev, state |-> state, pending |-> pending]
    BY <1>8 DEF GetOutput
  <2> QED  BY <1>7, <1>9, <1>11, <2>1 DEF Collect, device
<1>13. computed \in [Requests -> Nat] /\ total \in [Requests -> Nat] /\ \A i \in DOMAIN rows : rows[i] \in Requests
  BY <1>1 DEF PosInv
<1>14. MaxLen \in Nat /\ K \in Nat /\ \A r \in Requests : PromptLen[r] \in Nat
  BY SizesAssumption
<1>15. ASSUME NEW i \in DOMAIN rows, ~st.discard[i], NEW r, r = rows[i]
       PROVE  /\ st.good[i] \in Nat /\ total'[r] = total[r] + st.good[i] + 1
              /\ computed'[r] = total[r] + st.good[i] /\ total[r] + st.good[i] < MaxLen
              /\ \A q \in 0 .. total[r] + st.good[i] - 1 : kv[slot[r]][q] = r
  <2>1. st.good[i] \in Nat
    BY <1>6, <1>14 DEF Stepped, Recorded
  <2>2. /\ total[r] + st.good[i] < MaxLen
        /\ \A q \in 0 .. total[r] + st.good[i] - 1 : kv[slot[r]][q] = r
    BY <1>6, <1>15 DEF Stepped, Finishing
  <2>3. r \in Requests /\ phase[r] = "live" /\ total[r] \in Nat
    BY <1>6, <1>13, <1>15 DEF Stepped
  <2>4. gained[r] = st.good[i] + 1
    BY <1>10, <1>11, <1>15, <2>3 DEF ResultOf
  <2>5. \A t, g \in Nat : t + (g + 1) - 1 = t + g /\ t + (g + 1) = t + g + 1 /\ g + 1 > 0
    OBVIOUS
  <2>6. total'[r] = total[r] + (st.good[i] + 1) /\ computed'[r] = total[r] + (st.good[i] + 1) - 1
    BY <1>12, <2>1, <2>3, <2>4, <2>5
  <2> QED  BY <2>1, <2>2, <2>3, <2>5, <2>6
<1>16. ASSUME NEW r \in Requests, ~\E i \in DOMAIN rows : rows[i] = r /\ ~st.discard[i]
       PROVE  total'[r] = total[r] /\ computed'[r] = computed[r]
  <2>1. r \notin DOMAIN res
    BY <1>10, <1>16 DEF ResultOf
  <2>2. gained[r] = 0
    BY <1>11, <2>1
  <2> QED  BY <1>12, <1>13, <2>2
<1>17. /\ \A r \in Requests : phase'[r] \in {phase[r], "done"} /\ (phase[r] # "live" => phase'[r] = phase[r])
       /\ \A r \in Live' : r \in Live /\ r \in Requests /\ slot'[r] = slot[r]
       /\ slot' \in [Requests -> 0 .. MaxSeqs] /\ phase' \in [Requests -> {"new", "live", "done"}]
       /\ \A r \in Requests : slot'[r] # 0 <=> phase'[r] = "live"
  BY <1>1, CollectedPlaces DEF Live
<1>18. PlaceInv'
  <2>1. ASSUME NEW r \in Requests
        PROVE  /\ PromptLen[r] <= total'[r] /\ total'[r] <= MaxLen
               /\ phase'[r] = "new" => total'[r] = PromptLen[r]
    <3>1. /\ PromptLen[r] <= total[r] /\ total[r] <= MaxLen /\ total[r] \in Nat
          /\ phase[r] = "new" => total[r] = PromptLen[r]
      BY <1>1, <1>13 DEF PlaceInv
    <3>2. CASE \E i \in DOMAIN rows : rows[i] = r /\ ~st.discard[i]
      <4>1. PICK i \in DOMAIN rows : rows[i] = r /\ ~st.discard[i]
        BY <3>2
      <4>2. st.good[i] \in Nat /\ total'[r] = total[r] + st.good[i] + 1 /\ total[r] + st.good[i] < MaxLen
        BY <1>15, <4>1
      <4>3. phase'[r] # "new"
        BY <1>6, <1>17, <4>1 DEF Stepped
      <4>4. \A a, b, c, m \in Nat : a <= b /\ b + c < m => a <= b + c + 1 /\ b + c + 1 <= m
        OBVIOUS
      <4> QED  BY <1>14, <3>1, <4>2, <4>3, <4>4
    <3>3. CASE ~\E i \in DOMAIN rows : rows[i] = r /\ ~st.discard[i]
      BY <1>16, <1>17, <3>1, <3>3
    <3> QED  BY <3>2, <3>3
  <2>2. \A i \in DOMAIN rows : phase'[rows[i]] # "new"
    BY <1>1, <1>13, <1>17 DEF PlaceInv
  <2> QED  BY <1>1, <1>12, <1>17, <2>1, <2>2 DEF PlaceInv
<1>19. ASSUME NEW r \in Live'
       PROVE  /\ Ready(r)'
              /\ \A p \in 0 .. MaxLen - 1 : p < total'[r] => table[r][p] = r
              /\ \A p \in 0 .. Min({computed'[r], total'[r]}) - 1 :
                   (mode = "consumer" /\ IsPrefill(r)') \/ kv[slot[r]][p] = r
  <2>1. r \in Live /\ r \in Requests /\ total[r] \in Nat /\ computed[r] \in Nat
    BY <1>13, <1>17
  <2>2. CASE \E i \in DOMAIN rows : rows[i] = r /\ ~st.discard[i]
    <3>1. PICK i \in DOMAIN rows : rows[i] = r /\ ~st.discard[i]
      BY <2>2
    <3>2. PICK g \in Nat : g = st.good[i]
      BY <1>15, <3>1
    <3>3. /\ total'[r] = total[r] + g + 1 /\ computed'[r] = total[r] + g
          /\ \A q \in 0 .. total[r] + g - 1 : kv[slot[r]][q] = r
      BY <1>15, <3>1, <3>2
    <3>4. PromptLen[r] <= total[r]
      BY <1>1, <2>1 DEF PlaceInv
    <3>5. Ready(r)'
      BY <1>14, <2>1, <3>2, <3>3, <3>4 DEF Ready, IsPrefill
    <3>6. \A p \in 0 .. MaxLen - 1 : p < total'[r] => table[r][p] = r
      <4> SUFFICES ASSUME NEW p \in 0 .. MaxLen - 1, p < total'[r] PROVE table[r][p] = r
        OBVIOUS
      <4>1. p <= total[r] + g
        BY <1>14, <2>1, <3>2, <3>3
      <4> QED  BY <1>6, <3>1, <3>2, <4>1 DEF Told
    <3>7. Min({computed'[r], total'[r]}) = total[r] + g
      BY <2>1, <3>2, <3>3, MinOfTwo
    <3>8. \A p \in 0 .. Min({computed'[r], total'[r]}) - 1 : kv[slot[r]][p] = r
      <4>1. PICK m : m = Min({computed'[r], total'[r]})
        OBVIOUS
      <4>2. \A p \in 0 .. m - 1 : kv[slot[r]][p] = r
        BY <2>1, <3>2, <3>3, <3>7, <4>1
      <4> QED  BY <4>1, <4>2
    <3> QED  BY <3>5, <3>6, <3>8
  <2>3. CASE ~\E i \in DOMAIN rows : rows[i] = r /\ ~st.discard[i]
    <3>1. total'[r] = total[r] /\ computed'[r] = computed[r]
      BY <1>16, <2>1, <2>3
    <3>2. Ready(r)
      BY <1>6, <2>1, <2>3 DEF Stepped
    <3>3. Ready(r)' /\ (IsPrefill(r)' <=> IsPrefill(r))
      BY <1>12, <3>1, <3>2 DEF Ready, IsPrefill
    <3>4. \A p \in 0 .. MaxLen - 1 : p < total[r] => table[r][p] = r
      BY <1>1, <2>1 DEF HostInv
    <3>5. \A p \in 0 .. Min({computed[r], total[r]}) - 1 :
            (mode = "consumer" /\ IsPrefill(r)) \/ kv[slot[r]][p] = r
      <4>1. mode # "pool"
        BY DEF Async
      <4> QED  BY <1>1, <2>1, <4>1 DEF CacheTrue
    <3> QED  BY <3>1, <3>3, <3>4, <3>5
  <2> QED  BY <2>2, <2>3
<1>20. CacheTrue'
  BY <1>12, <1>17, <1>19 DEF CacheTrue
<1>21. DOMAIN outs' = {}
  BY <1>12
<1>22. HostInv'
  BY <1>5, <1>6, <1>12, <1>19, <1>21 DEF HostInv
<1>23. OutInv'
  BY <1>21 DEF OutInv
<1> QED  BY <1>18, <1>20, <1>22, <1>23

(***************************************************************************)
(* The engine collects its oldest output.                                  *)
(***************************************************************************)
LEMMA CollectServes ==
  ASSUME ServeInv, HandInv', PosInv', Collect
  PROVE  ServeInv'
<1>1. mode' = mode /\ (Async' <=> Async)
  BY DEF Collect, Async
<1>2. PosInv /\ PlaceInv /\ CacheTrue
  BY DEF ServeInv
<1>3. CASE ~Async
  BY <1>1, <1>3, HostCollects DEF ServeInv, Async
<1>4. CASE mode = "async"
  BY <1>1, <1>2, <1>4, AsyncCollects, CollectedAsync DEF ServeInv, Async
<1>5. CASE mode = "pool"
  BY <1>1, <1>2, <1>5, PoolCollects, CollectedAsync DEF ServeInv, Async
<1> QED  BY <1>3, <1>4, <1>5 DEF Async

(***************************************************************************)
(* A new request gets a free slot.                                         *)
(***************************************************************************)
LEMMA FreeSlot ==
  ASSUME NEW s \in {Min({t \in Slots : \A q \in Live : slot[q] # t} \cup {MaxSeqs + 1})} \cap Slots
  PROVE  s \in Slots /\ \A q \in Live : slot[q] # s
<1> DEFINE T == {t \in Slots : \A q \in Live : slot[q] # t} \cup {MaxSeqs + 1}
<1>1. MaxSeqs \in Nat
  BY SizesAssumption
<1>2. T \subseteq Nat /\ T # {}
  BY <1>1 DEF Slots
<1>3. \E x \in T : \A y \in T : x <= y
  BY <1>2, LeastNat, Zenon
<1>4. Min(T) \in T
  BY <1>3 DEF Min
<1>5. s \in Slots /\ s \in T /\ s # MaxSeqs + 1
  BY <1>1, <1>4 DEF Slots
<1> QED  BY <1>5

(***************************************************************************)
(* The table of the batch has a row of tokens for every request.           *)
(***************************************************************************)
TableInv == table \in [Requests -> [0 .. MaxLen - 1 -> Requests \cup {Pad, Junk}]]

(***************************************************************************)
(* An output that is collected leaves the table one.                       *)
(***************************************************************************)
LEMMA CollectedTable ==
  ASSUME TableInv, NEW o
  PROVE  GetOutput(o).table \in [Requests -> [0 .. MaxLen - 1 -> Requests \cup {Pad, Junk}]]
<1>1. \A st, res : Booked(st, res) \in [Requests -> [0 .. MaxLen - 1 -> Requests \cup {Pad, Junk}]]
  BY DEF Booked, TableInv
<1> QED  BY <1>1 DEF GetOutput, GetPoolOutput, GetSampleOutput, TableInv

(***************************************************************************)
(* Every step keeps the table.                                             *)
(***************************************************************************)
LEMMA TableStep ==
  ASSUME TableInv, [Next]_vars
  PROVE  TableInv'
<1> DEFINE Tables == [Requests -> [0 .. MaxLen - 1 -> Requests \cup {Pad, Junk}]]
<1>1. Drained.table \in Tables
  BY CollectedTable DEF Drained, Undrained, TableInv
<1>2. \A st, res : Booked(st, res) \in Tables
  BY DEF Booked, TableInv
<1>3. ASSUME NEW tab \in Tables, NEW nd, NEW good PROVE Updated(tab, nd, good) \in Tables
  BY DEF Updated
<1>4. ASSUME ExecuteModel PROVE table' \in Tables
  <2>1. PICK S, order, signal, nd, good : Execute(S, order, signal, nd, good)
    BY <1>4 DEF ExecuteModel
  <2>2. CASE mode = "pool"
    BY <2>1, <2>2 DEF Execute, ExecutePool, TableInv
  <2>3. CASE mode # "pool"
    <3>1. table' = Step(Reordered(order), signal, nd, good, Drained).tab
      BY <2>1, <2>3 DEF Execute, ExecuteForward
    <3>2. table' = Updated(Drained.table, nd, good)
      BY <3>1 DEF Step
    <3> HIDE DEF Tables
    <3> QED  BY <1>1, <1>3, <3>2
  <2> QED  BY <2>2, <2>3
<1>5. ASSUME ExecuteNothing PROVE table' \in Tables
  BY <1>1, <1>5 DEF ExecuteNothing
<1>6. ASSUME SampleTokensSync PROVE table' \in Tables
  BY <1>2, <1>6 DEF SampleTokensSync
<1>7. ASSUME SampleTokensAsync PROVE table' \in Tables
  BY <1>7 DEF SampleTokensAsync, batch, TableInv
<1>8. ASSUME Collect PROVE table' \in Tables
  BY <1>8, CollectedTable DEF Collect
<1>9. ASSUME NEW r \in Requests, Arrive(r) PROVE table' \in Tables
  BY <1>9 DEF Arrive, TableInv
<1>10. ASSUME UNCHANGED vars PROVE table' \in Tables
  BY <1>10 DEF vars, batch, TableInv
<1> QED  BY <1>4, <1>5, <1>6, <1>7, <1>8, <1>9, <1>10 DEF Next, TableInv

(***************************************************************************)
(* The arrival of a request changes nothing for the others.                *)
(***************************************************************************)
LEMMA ArriveServes ==
  ASSUME ServeInv, TableInv, HandInv', PosInv', NEW n \in Requests, Arrive(n)
  PROVE  ServeInv'
<1>1. HandInv /\ PosInv /\ PlaceInv /\ OutInv /\ CacheTrue
  BY DEF ServeInv
<1>2. /\ phase[n] = "new" /\ phase' = [phase EXCEPT ![n] = "live"]
      /\ computed' = [computed EXCEPT ![n] = IF mode = "consumer" THEN PromptLen[n] - 1 ELSE 0]
      /\ UNCHANGED <<mode, total, rows, prev, kv, buf, encoded, state, pending, due, outs>>
  BY DEF Arrive, device, runner
<1>3. PICK s \in Slots, rest \in {Pad, Junk} :
        /\ \A q \in Live : slot[q] # s
        /\ slot' = [slot EXCEPT ![n] = s]
        /\ table' = [table EXCEPT ![n] = [p \in 0 .. MaxLen - 1 |-> IF p < PromptLen[n] THEN n ELSE rest]]
  <2>1. PICK s \in {Min({t \in Slots : \A q \in Live : slot[q] # t} \cup {MaxSeqs + 1})} \cap Slots,
             rest \in {Pad, Junk} :
          /\ slot' = [slot EXCEPT ![n] = s]
          /\ table' = [table EXCEPT ![n] = [p \in 0 .. MaxLen - 1 |-> IF p < PromptLen[n] THEN n ELSE rest]]
    BY DEF Arrive
  <2>2. s \in Slots /\ \A q \in Live : slot[q] # s
    BY <2>1, FreeSlot
  <2> QED  BY <2>1, <2>2
<1>4. /\ MaxLen \in Nat /\ MaxSeqs \in Nat /\ \A r \in Requests : PromptLen[r] \in Nat \ {0} /\ PromptLen[r] < MaxLen
  BY SizesAssumption
<1>5. /\ computed \in [Requests -> Nat] /\ total \in [Requests -> Nat]
      /\ \A i \in DOMAIN rows : rows[i] \in Requests /\ rows[i] # n
  BY <1>1, <1>2 DEF PosInv, PlaceInv
<1>6. ASSUME NEW r \in Requests, r # n
      PROVE  /\ phase'[r] = phase[r] /\ computed'[r] = computed[r] /\ slot'[r] = slot[r]
             /\ (Ready(r) => Ready(r)') /\ (IsPrefill(r)' <=> IsPrefill(r))
  <2>1. phase'[r] = phase[r] /\ computed'[r] = computed[r] /\ slot'[r] = slot[r]
    BY <1>1, <1>2, <1>3, <1>5, <1>6 DEF PlaceInv
  <2> QED  BY <1>2, <2>1 DEF Ready, IsPrefill
<1>7. /\ phase'[n] = "live" /\ slot'[n] = s /\ total[n] = PromptLen[n]
      /\ computed'[n] = IF mode = "consumer" THEN PromptLen[n] - 1 ELSE 0
      /\ Ready(n)' /\ IsPrefill(n)'
  <2>1. /\ phase'[n] = "live" /\ slot'[n] = s /\ total[n] = PromptLen[n]
        /\ computed'[n] = IF mode = "consumer" THEN PromptLen[n] - 1 ELSE 0
    BY <1>1, <1>2, <1>3, <1>5 DEF PlaceInv
  <2> QED  BY <1>2, <1>4, <2>1 DEF Ready, IsPrefill
<1>8. Live' = Live \cup {n} /\ n \notin Live
  BY <1>2, <1>6, <1>7 DEF Live
<1>9. PlaceInv'
  <2>1. phase' \in [Requests -> {"new", "live", "done"}] /\ slot' \in [Requests -> 0 .. MaxSeqs]
    BY <1>1, <1>2, <1>3, <1>4 DEF PlaceInv, Slots
  <2>2. \A r \in Requests : slot'[r] # 0 <=> phase'[r] = "live"
    BY <1>1, <1>4, <1>6, <1>7 DEF PlaceInv, Slots
  <2>3. \A q, r \in Live' : slot'[q] = slot'[r] => q = r
    BY <1>1, <1>3, <1>6, <1>7, <1>8 DEF PlaceInv, Live
  <2>4. \A r \in Requests : phase'[r] = "new" => phase[r] = "new"
    BY <1>6, <1>7
  <2> QED  BY <1>1, <1>2, <1>5, <1>6, <2>1, <2>2, <2>3, <2>4 DEF PlaceInv
<1>10. ASSUME NEW r \in Live PROVE r \in Requests /\ r # n /\ table'[r] = table[r]
  BY <1>3, <1>8 DEF Live
<1>11. \A r \in Live' : (r \in Live /\ r # n /\ r \in Requests) \/ r = n
  BY <1>8, <1>10
<1>12. CacheTrue'
  <2> SUFFICES ASSUME mode # "pool", NEW r \in Live', NEW p \in 0 .. Min({computed'[r], total[r]}) - 1,
                      ~(mode = "consumer" /\ IsPrefill(r)')
               PROVE  kv[slot'[r]][p] = r
    BY <1>2 DEF CacheTrue
  <2>1. CASE r = n
    <3>1. computed'[n] = 0 /\ total[n] \in Nat
      BY <1>5, <1>7, <2>1
    <3>2. Min({0, total[n]}) = 0
      BY <3>1, MinOfTwo
    <3>3. 0 .. 0 - 1 = {}
      OBVIOUS
    <3> QED  BY <2>1, <3>1, <3>2, <3>3
  <2>2. CASE r # n
    BY <1>1, <1>6, <1>11, <2>2 DEF CacheTrue
  <2> QED  BY <2>1, <2>2
<1>13. OutInv'
  BY <1>1, <1>2 DEF OutInv, Honest
<1>14. \A st : Recorded(st) => Recorded(st)'
  BY <1>2 DEF Recorded, Sampled
<1>15. ASSUME ~Async PROVE HostInv'
  <2>1. HostInv
    BY <1>15 DEF ServeInv
  <2>2. ASSUME NEW r \in Live', NEW p \in 0 .. MaxLen - 1, p < total[r] PROVE table'[r][p] = r
    <3>1. CASE r = n
      BY <1>3, <1>7, <2>2, <3>1 DEF TableInv
    <3>2. CASE r # n
      BY <1>10, <1>11, <2>1, <2>2, <3>2 DEF HostInv
    <3> QED  BY <3>1, <3>2
  <2>3. ASSUME NEW st, Stepped(st) PROVE Stepped(st)'
    <3>1. Recorded(st)'
      BY <1>14, <2>3 DEF Stepped
    <3>2. ASSUME NEW i \in DOMAIN rows
          PROVE  /\ phase'[rows[i]] = "live" /\ (st.discard[i] => Ready(rows[i])')
                 /\ ~st.discard[i] => Finishing(st, i)'
      <4>1. PICK r \in Requests : r = rows[i] /\ r # n
        BY <1>5
      <4>2. phase[r] = "live" /\ (st.discard[i] => Ready(r)) /\ (~st.discard[i] => Finishing(st, i))
        BY <2>3, <4>1 DEF Stepped
      <4>3. ~st.discard[i] => Finishing(st, i)'
        BY <1>2, <1>6, <4>1, <4>2 DEF Finishing
      <4>4. Ready(r) => Ready(r)'
        BY <1>6, <4>1
      <4>5. phase'[r] = "live"
        BY <1>6, <4>1, <4>2
      <4> QED  BY <1>2, <4>1, <4>2, <4>3, <4>4, <4>5
    <3>3. ASSUME NEW r \in Live' PROVE Ready(r)' \/ \E i \in DOMAIN rows : rows[i] = r
      <4>1. CASE r = n
        BY <1>7, <4>1
      <4>2. CASE r # n
        BY <1>6, <1>11, <2>3, <4>2 DEF Stepped
      <4> QED  BY <4>1, <4>2
    <3> QED  BY <1>2, <3>1, <3>2, <3>3 DEF Stepped
  <2>4. ASSUME NEW st, Told(st), Stepped(st) PROVE Told(st)'
    <3>1. \A i \in DOMAIN rows : rows[i] \in Live
      BY <1>5, <2>4 DEF Stepped, Live
    <3> QED  BY <1>2, <1>10, <2>4, <3>1 DEF Told
  <2>5. (\A r \in Live : Ready(r)) => \A r \in Live' : Ready(r)'
    BY <1>6, <1>7, <1>11
  <2>6. due => outs = <<>> /\ Stepped(state)'
    BY <1>2, <2>1, <2>3 DEF HostInv
  <2>7. ~due /\ outs # <<>> => Len(outs) = 1 /\ Stepped(outs[1].st)' /\ Told(outs[1].st)'
    BY <1>2, <2>1, <2>3, <2>4 DEF HostInv
  <2> QED  BY <1>2, <2>1, <2>2, <2>5, <2>6, <2>7 DEF HostInv
<1>16. ASSUME mode = "async" PROVE DeviceInv'
  <2>1. DeviceInv
    BY <1>16 DEF ServeInv
  <2>2. \A r \in Live' : Ready(r)'
    BY <1>6, <1>7, <1>11, <2>1 DEF DeviceInv
  <2>3. Prompts(table)'
    <3> SUFFICES ASSUME NEW r \in Live', NEW p \in 0 .. PromptLen[r] - 1 PROVE table'[r][p] = r
      BY DEF Prompts
    <3>1. CASE r = n
      <4>1. p \in 0 .. MaxLen - 1 /\ p < PromptLen[n]
        BY <1>4, <3>1
      <4>2. n \in DOMAIN table
        BY DEF TableInv
      <4> QED  BY <1>3, <3>1, <4>1, <4>2
    <3>2. CASE r # n
      BY <1>10, <1>11, <2>1, <3>2 DEF DeviceInv, Prompts
    <3> QED  BY <3>1, <3>2
  <2>4. Sampling(prev)'
    BY <1>2, <2>1 DEF DeviceInv, Sampling
  <2>5. InFlight(state) => InFlight(state)'
    <3> SUFFICES ASSUME InFlight(state) PROVE InFlight(state)'
      OBVIOUS
    <3>1. Recorded(state)'
      BY <1>2, <1>14 DEF InFlight
    <3>2. \A i \in DOMAIN rows : /\ phase'[rows[i]] = phase[rows[i]]
                                 /\ IsPrefill(rows[i])' <=> IsPrefill(rows[i])
      BY <1>2, <1>5, <1>6
    <3> QED  BY <1>2, <3>1, <3>2 DEF InFlight
  <2>6. Carried(prev) => Carried(prev)'
    <3>2. \A i \in DOMAIN rows : /\ phase'[rows[i]] = phase[rows[i]]
                                 /\ IsPrefill(rows[i])' <=> IsPrefill(rows[i])
      BY <1>2, <1>5, <1>6
    <3> QED  BY <1>2, <3>2 DEF Carried
  <2> QED  BY <1>2, <2>1, <2>2, <2>3, <2>4, <2>5, <2>6 DEF DeviceInv
<1>17. ASSUME mode = "pool" PROVE PoolInv'
  <2>1. PoolInv
    BY <1>17 DEF ServeInv
  <2> QED  BY <1>2, <2>1 DEF PoolInv
<1> QED  BY <1>2, <1>9, <1>12, <1>13, <1>15, <1>16, <1>17 DEF ServeInv, Async

-----------------------------------------------------------------------------
(***************************************************************************)
(* Every step keeps the invariant.                                         *)
(***************************************************************************)
LEMMA ServeStep ==
  ASSUME ServeInv, TableInv, [Next]_vars
  PROVE  ServeInv'
<1>1. HandInv' /\ PosInv'
  BY HandStep, PosStep DEF ServeInv
<1>2. ASSUME NEW r \in Requests, Arrive(r) PROVE ServeInv'
  BY <1>1, <1>2, ArriveServes
<1>3. ASSUME ExecuteModel PROVE ServeInv'
  <2>1. /\ ~due /\ Len(outs) < QueueSize
        /\ \E S \in SUBSET Schedulable \ {{}} : \E order \in SetToSeqs(S) :
           \E signal \in [S -> 1 .. MaxLen] :
             /\ \A r \in S : signal[r] \in Signals(r)
             /\ \E nd \in [S -> 0 .. K] :
                  /\ \A r \in S : nd[r] \in Drafts(r)
                  /\ \E good \in [S -> 0 .. K] : /\ \A r \in S : good[r] <= nd[r]
                                                 /\ Execute(S, order, signal, nd, good)
    BY <1>3 DEF ExecuteModel
  <2>2. CASE mode = "pool"
    BY <1>1, <2>1, <2>2, PoolServes
  <2>3. CASE mode # "pool"
    BY <1>1, <2>1, <2>3, ForwardServes
  <2> QED  BY <2>2, <2>3
<1>4. ASSUME ExecuteNothing PROVE ServeInv'
  BY <1>1, <1>4, NothingServes
<1>5. ASSUME SampleTokensSync PROVE ServeInv'
  BY <1>1, <1>5, SyncSampled
<1>6. ASSUME SampleTokensAsync PROVE ServeInv'
  BY <1>1, <1>6, AsyncSampled
<1>7. ASSUME Collect PROVE ServeInv'
  BY <1>1, <1>7, CollectServes
<1>8. ASSUME UNCHANGED vars PROVE ServeInv'
  <2>1. UNCHANGED <<mode, phase, slot, computed, total, rows, table, prev, kv, buf, encoded,
                    state, pending, due, outs>>
    BY <1>8 DEF vars, scheduler, batch, device, runner
  <2>2. PlaceInv' /\ OutInv' /\ CacheTrue'
    BY <2>1 DEF ServeInv, PlaceInv, OutInv, Honest, CacheTrue, Live, IsPrefill
  <2>3. ~Async => HostInv'
    <3>1. Live' = Live
      BY <2>1 DEF Live
    <3>2. \A st : Recorded(st) <=> Recorded(st)'
      BY <2>1 DEF Recorded, Sampled
    <3>3. \A st, i : Finishing(st, i) <=> Finishing(st, i)'
      BY <2>1 DEF Finishing
    <3>4. \A r : Ready(r) <=> Ready(r)'
      BY <2>1 DEF Ready, IsPrefill
    <3>5. \A st : Stepped(st) <=> Stepped(st)'
      BY <2>1, <3>1, <3>2, <3>3, <3>4 DEF Stepped
    <3>6. \A st : Told(st) <=> Told(st)'
      BY <2>1 DEF Told
    <3> QED  BY <2>1, <3>1, <3>4, <3>5, <3>6 DEF ServeInv, HostInv
  <2>4. mode = "async" => DeviceInv'
    BY <2>1 DEF ServeInv, DeviceInv, InFlight, Prompts, Sampling, Carried, Recorded, Sampled, Live, Ready, IsPrefill
  <2>5. mode = "pool" => PoolInv'
    BY <2>1 DEF ServeInv, PoolInv
  <2> QED  BY <1>1, <2>1, <2>2, <2>3, <2>4, <2>5 DEF ServeInv, Async
<1> QED  BY <1>2, <1>3, <1>4, <1>5, <1>6, <1>7, <1>8 DEF Next

(***************************************************************************)
(* The invariant holds before the first request.                           *)
(***************************************************************************)
LEMMA ServeInit ==
  ASSUME Init
  PROVE  ServeInv /\ TableInv
<1>1. HandInv /\ PosInv
  BY InitPositions
<1>2. /\ Live = {} /\ DOMAIN rows = {} /\ DOMAIN outs = {} /\ DOMAIN prev = {} /\ outs = <<>>
  BY DEF Init, Live
<1>3. PlaceInv
  BY <1>2, SizesAssumption, ModesAssumption DEF Init, PlaceInv
<1>4. CacheTrue /\ OutInv
  BY <1>2 DEF CacheTrue, OutInv
<1>5. HostInv
  BY <1>2 DEF Init, HostInv
<1>6. DeviceInv
  BY <1>2 DEF Init, DeviceInv, Prompts, Sampling, Carried
<1>7. PoolInv
  BY <1>2 DEF Init, PoolInv
<1>8. TableInv
  BY DEF Init, TableInv
<1> QED  BY <1>1, <1>3, <1>4, <1>5, <1>6, <1>7, <1>8 DEF ServeInv

(***************************************************************************)
(* CacheTrue: the slot of a live request holds its own tokens up to what   *)
(* the scheduler counts as computed, in every configuration, for every     *)
(* number of requests, slots, drafts and tokens.                           *)
(***************************************************************************)
THEOREM CacheStaysTrue == Spec => []CacheTrue
<1>1. Init => ServeInv /\ TableInv
  BY ServeInit
<1>2. ServeInv /\ TableInv /\ [Next]_vars => (ServeInv /\ TableInv)'
  BY ServeStep, TableStep
<1>3. ServeInv => CacheTrue
  BY DEF ServeInv
<1> QED  BY <1>1, <1>2, <1>3, PTL DEF Spec

(***************************************************************************)
(* OutputTrue: what the engine is handed for a request was computed from   *)
(* its own tokens.                                                         *)
(***************************************************************************)
THEOREM OutputsTrue == Spec => []OutputTrue
<1>1. Init => ServeInv /\ TableInv
  BY ServeInit
<1>2. ServeInv /\ TableInv /\ [Next]_vars => (ServeInv /\ TableInv)'
  BY ServeStep, TableStep
<1>3. ServeInv => OutputTrue
  BY DEF ServeInv, OutInv, Honest, OutputTrue
<1> QED  BY <1>1, <1>2, <1>3, PTL DEF Spec

-----------------------------------------------------------------------------
(***************************************************************************)
(* The types of what ServeInv leaves open.                                 *)
(***************************************************************************)
KvTypes == [Slots -> [Cells -> Requests \cup {Junk, None}]]
PrevTyped(prv) == \A j \in DOMAIN prv : prv[j].tok \in Requests \cup {Junk}
Typed(entries) == \A e \in ToSet(entries) : e.tok \in Requests \cup {Pad, Junk}

TypeInv ==
  /\ mode \in Modes /\ kv \in KvTypes /\ PrevTyped(prev) /\ encoded \in Seq(Requests)
  /\ \A r \in Requests : computed[r] < MaxLen
  /\ mode = "pool" => \A r \in Requests : computed[r] \in {0, PromptLen[r]} /\ total[r] = PromptLen[r]
  /\ {pending, due} \subseteq BOOLEAN
  /\ Len(outs) <= QueueSize /\ (due => Len(outs) < QueueSize)

(***************************************************************************)
(* TypeInv and the invariants before imply the property.                   *)
(***************************************************************************)
LEMMA TypesTogether == ServeInv /\ TableInv /\ TypeInv => TypeOK
<1> SUFFICES ASSUME ServeInv, TableInv, TypeInv PROVE TypeOK
  OBVIOUS
<1>1. PosInv /\ PlaceInv
  BY DEF ServeInv
<1>2. MaxLen \in Nat \ {0} /\ K \in Nat
  BY SizesAssumption
<1>3. computed \in [Requests -> Cells]
  BY <1>1, <1>2 DEF PosInv, TypeInv, Cells
<1>4. total \in [Requests -> 0 .. MaxLen]
  BY <1>1, <1>2 DEF PosInv, PlaceInv
<1> QED  BY <1>1, <1>3, <1>4 DEF TypeOK, TypeInv, TableInv, PosInv, PlaceInv, KvTypes

(***************************************************************************)
(* Draining replaces an output, it never adds one.                         *)
(***************************************************************************)
LEMMA DrainedLength ==
  ASSUME HandInv, Len(outs) < QueueSize, NEW d
  PROVE  Len(DrainedOuts(d)) \in Nat /\ Len(DrainedOuts(d)) < QueueSize
<1>1. outs \in Seq(Range(outs)) /\ Len(outs) \in Nat
  BY DEF HandInv
<1>2. CASE Async /\ pending
  <2>1. Len(DrainedOuts(d)) = Len(Front(outs)) + 1 /\ Len(Front(outs)) \in Nat
    BY <1>1, <1>2 DEF DrainedOuts, Front
  <2>2. Len(Front(outs)) = 0 \/ Len(Front(outs)) = Len(outs) - 1
    BY <1>1 DEF Front
  <2> QED  BY <1>1, <1>2, <2>1, <2>2 DEF QueueSize
<1>3. CASE ~(Async /\ pending)
  BY <1>1, <1>3 DEF DrainedOuts
<1> QED  BY <1>2, <1>3

(***************************************************************************)
(* The inputs of a row are tokens, padding included.                       *)
(***************************************************************************)
LEMMA InputsTyped ==
  ASSUME NEW tab \in [Requests -> [0 .. MaxLen - 1 -> Requests \cup {Pad, Junk}]], NEW prv, PrevTyped(prv),
         NEW r \in Requests, computed[r] \in Nat, NEW w
  PROVE  Typed(Inputs(tab, prv, r, w)) /\ Typed(Marked(Inputs(tab, prv, r, w)))
<1> DEFINE f == Inputs(tab, prv, r, w)
<1>1. \A p \in Nat : TokenAt(tab, r, p) \in Requests \cup {Pad, Junk}
  BY SizesAssumption DEF TokenAt
<1>2. \A t \in Requests \cup {Pad, Junk} : Scattered(prv, r, t) \in Requests \cup {Pad, Junk}
  BY DEF Scattered, PrevTyped
<1>3. /\ DOMAIN f = 1 .. w
      /\ \A j \in 1 .. w : f[j].tok \in Requests \cup {Pad, Junk} /\ f[j] = [pos |-> f[j].pos, tok |-> f[j].tok]
  <2>1. DOMAIN f = 1 .. w
    BY DEF Inputs
  <2>2. ASSUME NEW j \in 1 .. w
        PROVE  f[j].tok \in Requests \cup {Pad, Junk} /\ f[j] = [pos |-> f[j].pos, tok |-> f[j].tok]
    <3>1. PICK p \in Nat : p = computed[r] + j - 1
      OBVIOUS
    <3>2. f[j] = [pos |-> p, tok |-> IF j = w THEN Scattered(prv, r, TokenAt(tab, r, p)) ELSE TokenAt(tab, r, p)]
      BY <3>1 DEF Inputs
    <3>3. f[j].tok = IF j = w THEN Scattered(prv, r, TokenAt(tab, r, p)) ELSE TokenAt(tab, r, p)
      BY <3>2
    <3> QED  BY <1>1, <1>2, <3>2, <3>3
  <2> QED  BY <2>1, <2>2
<1> HIDE DEF f
<1>4. Typed(f)
  BY <1>3 DEF Typed, ToSet
<1>5. Typed(Marked(f))
  <2>1. /\ DOMAIN Marked(f) = 1 .. w
        /\ \A j \in 1 .. w : Marked(f)[j] \in {f[j], [f[j] EXCEPT !.pos = -1]}
    BY <1>3 DEF Marked
  <2>2. \A j \in 1 .. w : [f[j] EXCEPT !.pos = -1].tok = f[j].tok
    BY <1>3
  <2>3. \A j \in 1 .. w : Marked(f)[j].tok = f[j].tok
    BY <2>1, <2>2
  <2> QED  BY <1>3, <2>1, <2>3 DEF Typed, ToSet
<1> QED  BY <1>4, <1>5 DEF f

(***************************************************************************)
(* The device writes tokens.                                               *)
(***************************************************************************)
LEMMA ExecutedTyped ==
  ASSUME NEW cache \in KvTypes, NEW rws, \A w \in rws : w.slot \in Slots => Typed(w.entries)
  PROVE  Executed(cache, rws) \in KvTypes
<1> SUFFICES ASSUME NEW s \in Slots, NEW p \in Cells
             PROVE  Executed(cache, rws)[s][p] \in Requests \cup {Junk, None}
  BY DEF Executed, KvTypes
<1> DEFINE hits == {e \in UNION {ToSet(w.entries) : w \in {v \in rws : v.slot = s}} : e.pos = p}
<1>1. Executed(cache, rws)[s][p] =
        IF hits = {} THEN cache[s][p]
        ELSE LET t == (CHOOSE e \in hits : TRUE).tok IN IF t = Pad THEN Junk ELSE t
  BY DEF Executed
<1>2. \A e \in hits : e.tok \in Requests \cup {Pad, Junk}
  BY DEF Typed
<1> HIDE DEF hits
<1> QED  BY <1>1, <1>2 DEF KvTypes

(***************************************************************************)
(* What a forward pass leaves in the cache are tokens.                     *)
(***************************************************************************)
LEMMA StepTyped ==
  ASSUME TypeInv, BufferInv, computed \in [Requests -> Nat], NEW rws \in Seq(Requests), NEW signal, NEW nd, NEW good, NEW d,
         d.table \in [Requests -> [0 .. MaxLen - 1 -> Requests \cup {Pad, Junk}]], PrevTyped(d.prev)
  PROVE  Step(rws, signal, nd, good, d).kv \in KvTypes
<1> DEFINE D == {i \in DOMAIN rws : ~IsPrefill(rws[i])}
           k == ActiveK(Cardinality(D), nd)
           num == DecodeRows(Len(rws), Cardinality(D))
           tab == Updated(d.table, nd, good)
           n(i) == signal[rws[i]] + nd[rws[i]]
           inputs == [i \in DOMAIN rws |-> Inputs(tab, d.prev, rws[i], Width(i, num, k, n(i)))]
           P == {[slot |-> slot[rws[i]], entries |-> inputs[i]] : i \in num + 1 .. Len(rws)}
           prefilled == Executed(HandedOver(rws), P)
           dbuf == DecodeBuffer(buf[k], rws, inputs, num)
           B == {dbuf[j] : j \in 1 .. MaxSeqs}
<1>1. Step(rws, signal, nd, good, d).kv = (IF num = 0 THEN prefilled ELSE Executed(prefilled, B))
  BY DEF Step
<1>2. tab \in [Requests -> [0 .. MaxLen - 1 -> Requests \cup {Pad, Junk}]]
  BY DEF Updated
<1>3. k \in {0, K}
  <2>1. decode_ks # {} /\ decode_ks \subseteq {0, K}
    BY DEF decode_ks
  <2> QED  BY <2>1 DEF ActiveK
<1>4. /\ DOMAIN rws = 1 .. Len(rws) /\ Len(rws) \in Nat /\ \A i \in 1 .. Len(rws) : rws[i] \in Requests
      /\ num \in 0 .. Len(rws)
  <2>1. DOMAIN rws = 1 .. Len(rws) /\ Len(rws) \in Nat /\ \A i \in 1 .. Len(rws) : rws[i] \in Requests
    OBVIOUS
  <2>2. IsFiniteSet(1 .. Len(rws)) /\ Cardinality(1 .. Len(rws)) = Len(rws)
    <3>1. PICK m \in Nat : m = Len(rws)
      BY <2>1
    <3>2. IsFiniteSet(1 .. m) /\ Cardinality(1 .. m) = m
      BY FS_Interval
    <3> QED  BY <3>1, <3>2
  <2>3. Cardinality(D) \in Nat /\ Cardinality(D) <= Len(rws)
    BY <2>1, <2>2, FS_Subset, FS_CardinalityType
  <2> QED  BY <2>1, <2>3 DEF DecodeRows
<1> HIDE DEF tab, k, num
<1>5. \A i \in 1 .. Len(rws) : Typed(inputs[i]) /\ Typed(Marked(inputs[i]))
  <2> SUFFICES ASSUME NEW i \in 1 .. Len(rws) PROVE Typed(inputs[i]) /\ Typed(Marked(inputs[i]))
    OBVIOUS
  <2>1. PICK w : w = Width(i, num, k, n(i))
    OBVIOUS
  <2>2. inputs[i] = Inputs(tab, d.prev, rws[i], w)
    BY <1>4, <2>1
  <2>3. PICK r \in Requests : r = rws[i]
    BY <1>4
  <2>4. computed[r] \in Nat
    OBVIOUS
  <2>5. Typed(Inputs(tab, d.prev, r, w)) /\ Typed(Marked(Inputs(tab, d.prev, r, w)))
    BY <1>2, <2>4, InputsTyped
  <2> QED  BY <2>2, <2>3, <2>5
<1> HIDE DEF inputs
<1>6. HandedOver(rws) \in KvTypes
  <2> SUFFICES ASSUME mode = "consumer", NEW s \in Slots, NEW p \in Cells
               PROVE  HandedOver(rws)[s][p] \in Requests \cup {Junk, None}
    BY DEF HandedOver, KvTypes, TypeInv
  <2>1. kv[s][p] \in Requests \cup {Junk, None}
    BY DEF TypeInv, KvTypes
  <2>2. (\E i \in DOMAIN rws : slot[rws[i]] = s) =>
          rws[CHOOSE i \in DOMAIN rws : slot[rws[i]] = s] \in Requests
    BY <1>4
  <2> QED  BY <2>1, <2>2 DEF HandedOver
<1>7. prefilled \in KvTypes
  <2>1. \A w \in P : Typed(w.entries)
    BY <1>4, <1>5
  <2> QED  BY <1>6, <2>1, ExecutedTyped
<1>8. Executed(prefilled, B) \in KvTypes
  <2>1. \A j \in 1 .. MaxSeqs : dbuf[j].slot \in Slots => Typed(dbuf[j].entries)
    <3> SUFFICES ASSUME NEW j \in 1 .. MaxSeqs, dbuf[j].slot \in Slots PROVE Typed(dbuf[j].entries)
      OBVIOUS
    <3>1. CASE j <= num
      <4>1. dbuf[j].entries = Marked(inputs[j]) /\ j \in 1 .. Len(rws)
        BY <1>4, <3>1 DEF DecodeBuffer
      <4> QED  BY <1>5, <4>1
    <3>2. CASE ~(j <= num)
      <4>1. dbuf[j].slot = 0
        BY <1>3, <3>2 DEF DecodeBuffer, Cleared, BufferInv
      <4> QED  BY <4>1 DEF Slots
    <3> QED  BY <3>1, <3>2
  <2> HIDE DEF prefilled, dbuf
  <2> QED  BY <1>7, <2>1, ExecutedTyped
<1> QED  BY <1>1, <1>7, <1>8

(***************************************************************************)
(* execute_model() keeps the types.                                        *)
(***************************************************************************)
LEMMA ExecuteTypes ==
  ASSUME ServeInv, TableInv, TypeInv, ~due, Len(outs) < QueueSize,
         NEW S \in SUBSET Schedulable, NEW order \in SetToSeqs(S),
         NEW signal \in [S -> 1 .. MaxLen], NEW nd \in [S -> 0 .. K], NEW good \in [S -> 0 .. K],
         \A r \in S : signal[r] \in Signals(r) /\ nd[r] \in Drafts(r) /\ good[r] <= nd[r],
         Execute(S, order, signal, nd, good)
  PROVE  TypeInv'
<1>1. PICK d : d = Drained
  OBVIOUS
<1>2. PICK rws \in Seq(Requests) : rws = Reordered(order)
  <2>1. S \in SUBSET Requests
    BY DEF Schedulable, Live
  <2>2. Reordered(order) \in Seq(S)
    BY <2>1, ReorderedRows
  <2> QED  BY <2>1, <2>2
<1>3. HandInv /\ PosInv /\ PlaceInv /\ CacheTrue
  BY DEF ServeInv
<1>4. Len(DrainedOuts(d)) \in Nat /\ Len(DrainedOuts(d)) < QueueSize
  BY <1>3, DrainedLength
<1>5. PrevTyped(d.prev)
  <2>1. \A res : PrevTyped(Kept(res))
    <3>1. \A i \in DOMAIN rows : rows[i] \in Requests
      BY <1>3 DEF PosInv
    <3> QED  BY <3>1 DEF PrevTyped, Kept
  <2> QED  BY <1>1, <2>1 DEF Drained, Undrained, GetOutput, GetPoolOutput, GetSampleOutput, TypeInv
<1>6. /\ UNCHANGED mode /\ (QueueSize' = QueueSize)
      /\ computed' = [r \in Requests |-> IF r \in S THEN computed[r] + signal[r] + nd[r] ELSE computed[r]]
      /\ total' = [r \in Requests |->
           IF mode = "async" /\ r \in S /\ computed[r] + signal[r] = total[r] THEN total[r] + 1 ELSE total[r]]
  BY DEF Execute, QueueSize, Async
<1>7. CASE mode = "pool"
  <2>1. /\ encoded' = rws /\ pending' = TRUE /\ due' = FALSE /\ UNCHANGED <<kv, prev>>
        /\ outs' = Append(DrainedOuts(d), [st |-> None, result |-> None])
    BY <1>1, <1>2, <1>7 DEF Execute, ExecutePool
  <2>2. Len(outs') <= QueueSize
    <3>1. DrainedOuts(d) \in Seq(Range(DrainedOuts(d)))
      BY <1>3, DrainedSeq
    <3>2. Len(outs') = Len(DrainedOuts(d)) + 1
      BY <2>1, <3>1
    <3> QED  BY <1>4, <3>2 DEF QueueSize
  <2>3. ASSUME NEW r \in Requests
        PROVE  computed'[r] \in {0, PromptLen[r]} /\ total'[r] = PromptLen[r] /\ computed'[r] < MaxLen
    <3>1. /\ computed[r] \in {0, PromptLen[r]} /\ total[r] = PromptLen[r] /\ computed[r] < MaxLen
          /\ PromptLen[r] \in Nat /\ PromptLen[r] < MaxLen
      BY <1>7, SizesAssumption DEF TypeInv
    <3>2. total'[r] = PromptLen[r]
      BY <1>6, <1>7, <3>1
    <3>3. CASE r \in S
      <4>1. computed[r] = 0
        BY <3>1, <3>3 DEF Schedulable
      <4>2. signal[r] = PromptLen[r] /\ nd[r] = 0
        BY <1>7, <3>3 DEF Signals, Drafts, Async
      <4>3. computed'[r] = computed[r] + signal[r] + nd[r]
        BY <1>6, <3>3
      <4>4. computed'[r] = PromptLen[r]
        BY <3>1, <4>1, <4>2, <4>3
      <4> QED  BY <3>1, <3>2, <4>4
    <3>4. CASE r \notin S
      BY <1>6, <3>1, <3>2, <3>4
    <3> QED  BY <3>3, <3>4
  <2> QED  BY <1>2, <1>6, <1>7, <2>1, <2>2, <2>3 DEF TypeInv
<1>8. CASE mode # "pool"
  <2>1. PICK x : x = Step(rws, signal, nd, good, d)
    OBVIOUS
  <2>2. /\ kv' = x.kv /\ prev' = d.prev /\ pending' = d.pending /\ due' = TRUE
        /\ outs' = DrainedOuts(d) /\ UNCHANGED encoded
    BY <1>1, <1>2, <1>8, <2>1 DEF Execute, ExecuteForward
  <2>3. Idle(d)
    BY <1>1, <1>8, ServingIdles
  <2>4. x.kv \in KvTypes
    <3>1. d.table \in [Requests -> [0 .. MaxLen - 1 -> Requests \cup {Pad, Junk}]]
      BY <1>1, CollectedTable DEF Drained, Undrained, TableInv
    <3> QED  BY <1>3, <1>5, <2>1, <3>1, StepTyped DEF PosInv
  <2>5. Forwarded(S, rws, signal, nd, good, d)
    BY <1>2, <1>3, <1>8, <2>3, ExecuteForwards
  <2>6. ASSUME NEW r \in Requests PROVE computed'[r] < MaxLen
    <3>1. CASE r \in S
      <4>1. /\ {computed[r], total[r], signal[r], nd[r], MaxLen} \subseteq Nat
            /\ computed'[r] = computed[r] + signal[r] + nd[r]
            /\ computed[r] + signal[r] <= total[r] /\ total[r] + nd[r] < MaxLen
        BY <2>5, <3>1, ForwardedCounts
      <4> QED  BY <4>1
    <3>2. CASE r \notin S
      BY <1>6, <3>2 DEF TypeInv
    <3> QED  BY <3>1, <3>2
  <2>7. d.pending = FALSE
    BY <2>3 DEF Idle
  <2>8. Len(outs') <= QueueSize' /\ Len(outs') < QueueSize'
    <3>1. QueueSize \in Nat
      BY DEF QueueSize
    <3> QED  BY <1>4, <1>6, <2>2, <3>1
  <2>9. kv' \in KvTypes /\ PrevTyped(prev') /\ encoded' \in Seq(Requests)
    BY <1>5, <2>2, <2>4 DEF TypeInv
  <2>10. mode' \in Modes /\ mode' # "pool" /\ {pending', due'} \subseteq BOOLEAN
    BY <1>6, <1>8, <2>2, <2>7 DEF TypeInv
  <2> QED  BY <2>6, <2>8, <2>9, <2>10 DEF TypeInv, PrevTyped, KvTypes
<1> QED  BY <1>7, <1>8

(***************************************************************************)
(* Every step keeps the types.                                             *)
(***************************************************************************)
LEMMA TypeStep ==
  ASSUME ServeInv, TableInv, TypeInv, [Next]_vars
  PROVE  TypeInv'
<1>1. ServeInv' /\ HandInv /\ PosInv /\ PlaceInv
  BY ServeStep DEF ServeInv
<1>2. outs \in Seq(Range(outs)) /\ Len(outs) \in Nat /\ MaxLen \in Nat \ {0}
  BY <1>1, SizesAssumption DEF HandInv
<1>3. \A res : PrevTyped(Kept(res))
  <2>1. \A i \in DOMAIN rows : rows[i] \in Requests
    BY <1>1 DEF PosInv
  <2> QED  BY <2>1 DEF PrevTyped, Kept
<1>4. ASSUME NEW o
      PROVE  PrevTyped(GetOutput(o).prev) /\ (GetOutput(o).pending \in {pending, FALSE})
  BY <1>3 DEF GetOutput, GetPoolOutput, GetSampleOutput, TypeInv
<1>5. ASSUME ExecuteModel PROVE TypeInv'
  BY <1>5, ExecuteTypes DEF ExecuteModel
<1>6. ASSUME ExecuteNothing PROVE TypeInv'
  <2>1. PICK d : d = Drained
    OBVIOUS
  <2>2. /\ UNCHANGED <<mode, computed, total, kv, encoded, due>> /\ ~due /\ Len(outs) < QueueSize
        /\ prev' = d.prev /\ pending' = d.pending /\ outs' = DrainedOuts(d)
    BY <1>6, <2>1 DEF ExecuteNothing, scheduler, device
  <2>3. Len(outs') < QueueSize /\ Len(outs') \in Nat /\ QueueSize' = QueueSize /\ QueueSize \in Nat
    BY <1>1, <2>2, DrainedLength DEF QueueSize, Async
  <2>4. PrevTyped(d.prev) /\ d.pending \in {pending, FALSE}
    BY <1>4, <2>1 DEF Drained, Undrained, TypeInv
  <2>5. Len(outs') <= QueueSize'
    BY <2>3
  <2> QED  BY <2>2, <2>3, <2>4, <2>5 DEF TypeInv, PrevTyped
<1>7. ASSUME SampleTokensSync \/ SampleTokensAsync PROVE TypeInv'
  <2>1. /\ UNCHANGED <<mode, computed, total, kv, encoded>> /\ due /\ due' = FALSE
        /\ pending' \in {pending, TRUE} /\ \E e : outs' = Append(outs, e)
        /\ prev' = prev \/ prev' = <<>>
    BY <1>7 DEF SampleTokensSync, SampleTokensAsync, scheduler, batch, device
  <2>2. Len(outs') = Len(outs) + 1
    BY <1>2, <2>1
  <2>3. Len(outs') <= QueueSize' /\ QueueSize' = QueueSize
    BY <1>2, <2>1, <2>2 DEF TypeInv, QueueSize, Async
  <2>4. DOMAIN (<<>>) = {}
    OBVIOUS
  <2>5. PrevTyped(prev)'
    BY <2>1, <2>4 DEF TypeInv, PrevTyped
  <2> QED  BY <2>1, <2>3, <2>5 DEF TypeInv
<1>8. ASSUME Collect PROVE TypeInv'
  <2>1. PICK d : d = GetOutput(Head(outs))
    OBVIOUS
  <2>2. PICK gained : gained = [r \in Requests |-> IF r \in DOMAIN d.o.result /\ phase[r] = "live"
                                                      /\ ~Async THEN d.o.result[r].n ELSE 0]
    OBVIOUS
  <2>3. /\ UNCHANGED <<mode, rows, kv, encoded, due>> /\ outs # <<>> /\ outs' = Tail(outs)
        /\ prev' = d.prev /\ pending' = d.pending /\ ~due
        /\ total' = [r \in Requests |-> total[r] + gained[r]]
        /\ computed' = [r \in Requests |-> IF gained[r] > 0 THEN total[r] + gained[r] - 1
                                           ELSE computed[r]]
    BY <1>8, <2>1, <2>2 DEF Collect, device
  <2>4. Len(outs') <= QueueSize' /\ QueueSize' = QueueSize
    <3>1. Len(outs') = Len(outs) - 1
      BY <1>2, <2>3
    <3> QED  BY <1>2, <2>3, <3>1 DEF TypeInv, QueueSize, Async
  <2>5. ASSUME NEW r \in Requests PROVE computed'[r] < MaxLen
    <3>1. CASE gained[r] > 0
      <4>1. /\ computed'[r] = total[r] + gained[r] - 1 /\ total'[r] = total[r] + gained[r]
        BY <2>3, <3>1
      <4>2. total'[r] <= MaxLen /\ total'[r] \in Nat
        BY <1>1 DEF ServeInv, PlaceInv, PosInv
      <4>3. total[r] \in Nat /\ gained[r] \in Nat
        <5>1. CASE Async
          BY <1>1, <2>2, <5>1 DEF PosInv
        <5>2. CASE ~Async
          <6>1. PICK o : o = Head(outs)
            OBVIOUS
          <6>2. 1 \in DOMAIN outs /\ o = outs[1]
            BY <1>2, <2>3, <6>1
          <6>3. /\ o = [st |-> o.st, result |-> Result(o.st)] /\ o.result # None /\ Rated(o.st)
            BY <1>1, <5>2, <6>2 DEF PosInv, SyncInv
          <6>4. d.o.result = Result(o.st)
            BY <2>1, <6>1, <6>3 DEF GetOutput
          <6>5. \A q \in DOMAIN d.o.result : d.o.result[q].n \in Nat
            BY <1>1, <6>3, <6>4, ResultCounts DEF PosInv
          <6> QED  BY <1>1, <2>2, <6>5 DEF PosInv
        <5> QED  BY <5>1, <5>2
      <4> QED  BY <1>2, <4>1, <4>2, <4>3
    <3>2. CASE ~(gained[r] > 0)
      BY <2>3, <3>2 DEF TypeInv
    <3> QED  BY <3>1, <3>2
  <2>6. ASSUME mode = "pool", NEW r \in Requests PROVE computed'[r] = computed[r] /\ total'[r] = total[r]
    BY <1>1, <2>2, <2>3, <2>6 DEF Async, PosInv
  <2>7. PrevTyped(prev)' /\ pending' \in {pending, FALSE}
    BY <1>4, <2>1, <2>3 DEF PrevTyped
  <2> QED  BY <2>3, <2>4, <2>5, <2>6, <2>7 DEF TypeInv
<1>9. ASSUME NEW r \in Requests, Arrive(r) PROVE TypeInv'
  <2>1. /\ UNCHANGED <<mode, total, rows, prev, kv, encoded, pending, due, outs>>
        /\ computed' = [computed EXCEPT ![r] = IF mode = "consumer" THEN PromptLen[r] - 1 ELSE 0]
    BY <1>9 DEF Arrive, device, runner
  <2>2. PromptLen[r] \in Nat /\ PromptLen[r] < MaxLen
    BY SizesAssumption
  <2>3. ASSUME NEW q \in Requests
        PROVE  computed'[q] < MaxLen /\ (mode = "pool" => computed'[q] \in {0, PromptLen[q]})
    BY <1>1, <1>2, <2>1, <2>2 DEF TypeInv, PosInv
  <2> QED  BY <2>1, <2>3 DEF TypeInv, PrevTyped, QueueSize, Async
<1>10. ASSUME UNCHANGED vars PROVE TypeInv'
  BY <1>10 DEF vars, scheduler, batch, device, runner, TypeInv, PrevTyped, QueueSize, Async
<1> QED  BY <1>5, <1>6, <1>7, <1>8, <1>9, <1>10 DEF Next

(***************************************************************************)
(* TypeOK: every variable has its type, no request outgrows max_model_len, *)
(* and the queue of outputs is never longer than the engine allows.        *)
(***************************************************************************)
THEOREM MixedTypes == Spec => []TypeOK
<1>1. Init => ServeInv /\ TableInv /\ TypeInv
  <2>1. ASSUME Init PROVE TypeInv
    <3>1. \A r \in Requests : PromptLen[r] \in Nat
      BY SizesAssumption
    <3>2. Len(outs) = 0 /\ DOMAIN prev = {}
      BY <2>1 DEF Init
    <3>3. kv \in KvTypes /\ PrevTyped(prev)
      BY <2>1, <3>2 DEF Init, KvTypes, PrevTyped
    <3>4. Len(outs) < QueueSize /\ Len(outs) <= QueueSize
      BY <3>2 DEF QueueSize
    <3>5. \A r \in Requests : computed[r] = 0 /\ total[r] = PromptLen[r] /\ computed[r] < MaxLen
      BY <2>1, SizesAssumption DEF Init
    <3>6. mode \in Modes /\ encoded \in Seq(Requests) /\ {pending, due} \subseteq BOOLEAN
      <4>1. mode \in Modes /\ encoded \in Seq(Requests)
        BY <2>1 DEF Init
      <4>2. pending = FALSE /\ due = FALSE
        BY <2>1 DEF Init
      <4> QED  BY <4>1, <4>2
    <3> QED  BY <3>3, <3>4, <3>5, <3>6 DEF TypeInv
  <2> QED  BY <2>1, ServeInit
<1>2. ServeInv /\ TableInv /\ TypeInv /\ [Next]_vars => (ServeInv /\ TableInv /\ TypeInv)'
  BY ServeStep, TableStep, TypeStep
<1> QED  BY <1>1, <1>2, TypesTogether, PTL DEF Spec
=============================================================================
