------------------------ MODULE PrefillPipeline_proofs ------------------------
(***************************************************************************)
(* Proofs about PrefillPipeline, for every number of exec objects, every   *)
(* set of batches and buckets, with and without an output thread, and with *)
(* a device that may fail.                                                 *)
(***************************************************************************)
EXTENDS PrefillPipeline, TLAPS

(***************************************************************************)
(* Appending to a queue.                                                   *)
(***************************************************************************)
LEMMA AppendToSet ==
  ASSUME NEW S, NEW q \in Seq(S), NEW e \in S
  PROVE  /\ Append(q, e) \in Seq(S)
         /\ ToSet(Append(q, e)) = ToSet(q) \cup {e}
         /\ IsInjective(q) /\ e \notin ToSet(q) => IsInjective(Append(q, e))
<1> DEFINE r == Append(q, e)
<1>1. /\ r \in Seq(S) /\ Len(r) = Len(q) + 1
      /\ DOMAIN r = 1..Len(q) + 1 /\ DOMAIN q = 1..Len(q) /\ Len(q) \in Nat
      /\ \A i \in 1..Len(q) : r[i] = q[i]
      /\ r[Len(q) + 1] = e
  OBVIOUS
<1>2. ToSet(r) = ToSet(q) \cup {e}
  BY <1>1 DEF ToSet
<1>3. IsInjective(q) /\ e \notin ToSet(q) => IsInjective(r)
  BY <1>1 DEF ToSet, IsInjective
<1> QED  BY <1>1, <1>2, <1>3

(***************************************************************************)
(* Popping from a queue.                                                   *)
(***************************************************************************)
LEMMA PopToSet ==
  ASSUME NEW S, NEW q \in Seq(S), q # <<>>
  PROVE  /\ Head(q) \in S /\ Tail(q) \in Seq(S)
         /\ Head(q) \in ToSet(q)
         /\ ToSet(q) = ToSet(Tail(q)) \cup {Head(q)}
         /\ IsInjective(q) => /\ IsInjective(Tail(q))
                              /\ ToSet(Tail(q)) = ToSet(q) \ {Head(q)}
<1> DEFINE r == Tail(q)
<1>1. /\ r \in Seq(S) /\ Head(q) = q[1] /\ Len(q) \in Nat /\ Len(q) >= 1
      /\ DOMAIN r = 1..Len(q) - 1 /\ DOMAIN q = 1..Len(q)
      /\ \A i \in 1..Len(q) - 1 : r[i] = q[i + 1]
  OBVIOUS
<1>2. \A i \in DOMAIN q : i = 1 \/ (i - 1 \in DOMAIN r /\ r[i - 1] = q[i])
  <2> SUFFICES ASSUME NEW i \in DOMAIN q, i # 1
               PROVE  i - 1 \in DOMAIN r /\ r[i - 1] = q[i]
    OBVIOUS
  <2>1. i \in Nat /\ i - 1 \in 1..Len(q) - 1 /\ (i - 1) + 1 = i
    BY <1>1
  <2> HIDE DEF r
  <2> QED  BY <1>1, <2>1
<1>3. \A i \in DOMAIN r : i + 1 \in DOMAIN q /\ i + 1 # 1
  BY <1>1
<1>4. ToSet(q) = ToSet(r) \cup {q[1]}
  <2>1. ToSet(q) \subseteq ToSet(r) \cup {q[1]}
    BY <1>2 DEF ToSet
  <2>2. ToSet(r) \cup {q[1]} \subseteq ToSet(q)
    BY <1>1, <1>3 DEF ToSet
  <2> QED  BY <2>1, <2>2
<1>5. ASSUME IsInjective(q)
      PROVE  IsInjective(r) /\ q[1] \notin ToSet(r)
  <2>1. IsInjective(r)
    BY <1>1, <1>3, <1>5 DEF IsInjective
  <2>2. q[1] \notin ToSet(r)
    BY <1>1, <1>3, <1>5 DEF IsInjective, ToSet
  <2> QED  BY <2>1, <2>2
<1>6. q[1] \in S /\ q[1] \in ToSet(q)
  BY <1>1 DEF ToSet
<1> HIDE DEF r
<1>7. IsInjective(q) => IsInjective(r) /\ ToSet(r) = ToSet(q) \ {q[1]}
  BY <1>4, <1>5
<1> QED  BY <1>1, <1>4, <1>6, <1>7 DEF r

-----------------------------------------------------------------------------
(***************************************************************************)
(* The inductive invariant.  SlotConservation alone is not inductive: that *)
(* a fresh batch starts with an empty queue, and that only the submitting  *)
(* worker appends to one, is BatchLifecycle; the shapes are TypeOK.        *)
(***************************************************************************)
IInv == TypeOK /\ BatchLifecycle /\ SlotConservation

(***************************************************************************)
(* The engine works on a batch of its queue.                               *)
(***************************************************************************)
LEMMA EngineBatchIsQueued ==
  ASSUME TypeOK, BatchLifecycle, pc["engine"] # "idle"
  PROVE  cur["engine"] \in ToSet(outq)
<1>1. outq \in Seq(Batches) /\ outq # <<>> /\ cur["engine"] = Head(outq)
  BY DEF TypeOK, BatchLifecycle, EngineHasTheOldest
<1> QED  BY <1>1, PopToSet

(***************************************************************************)
(* The shapes of the state are kept by the steps of a completion ...       *)
(***************************************************************************)
LEMMA CompletionTypes ==
  ASSUME TypeOK, BatchLifecycle, NEW t \in Threads, Completion(t)
  PROVE  TypeOK'
<1> USE DEF TypeOK, Goto, session, model, outputs, runner, Threads,
            CompletionLabels, SubmitLabels
<1>0. pc[t] \notin {"idle", "prepare"} => cur[t] \in Batches
  BY DEF BatchLifecycle, KnowsItsBatch
<1>0a. pc["engine"] # "idle" => out[cur["engine"]] # "building"
  BY EngineBatchIsQueued DEF BatchLifecycle, OutputsAreBuilt
<1>1. CASE GetOutput(t)       BY <1>1 DEF GetOutput
<1>2. CASE DrainTest(t)       BY <1>0, <1>0a, <1>2 DEF DrainTest
<1>3. CASE PopPending(t)      BY <1>0, <1>3, PopToSet DEF PopPending
<1>4. CASE PopTimeout(t)      BY <1>4 DEF PopTimeout
<1>5. CASE WaitCompletion(t)  BY <1>5, AppendToSet DEF WaitCompletion
<1>6. CASE WaitFails(t)       BY <1>6 DEF WaitFails
<1>7. CASE ClearCcl(t)        BY <1>0, <1>0a, <1>7 DEF ClearCcl
<1>8. CASE FinishOutput(t)
  <2>1. saves' \in [Batches -> Nat]
    BY <1>0, <1>8 DEF FinishOutput
  <2>2. out' \in [Batches -> {"none", "building", "built", "done"}]
    BY <1>0, <1>8 DEF FinishOutput
  <2> QED  BY <1>8, <2>1, <2>2 DEF FinishOutput
<1> QED  BY <1>1, <1>2, <1>3, <1>4, <1>5, <1>6, <1>7, <1>8 DEF Completion

(***************************************************************************)
(* ... of a submission ...                                                 *)
(***************************************************************************)
LEMMA SubmitTypes ==
  ASSUME TypeOK, BatchLifecycle, Submit
  PROVE  TypeOK'
<1> USE BoundsAssumption
    DEF TypeOK, Goto, session, model, outputs, runner, Threads,
        CompletionLabels, SubmitLabels
<1>1. CASE WorkerReturn   BY <1>1 DEF WorkerReturn
<1>2. CASE NoForward      BY <1>2 DEF NoForward
<1>3. CASE NextChunk      BY <1>3 DEF NextChunk
<1>4. CASE TakeSlot       BY <1>4, PopToSet DEF TakeSlot
<1>5. CASE EnqueueFails   BY <1>5, PopToSet DEF EnqueueFails
<1>0. pc["worker"] \in {"record", "sample"} => cur["worker"] \in Batches
  BY DEF BatchLifecycle, KnowsItsBatch
<1>6. CASE RecordChunk
  <2>0. job.left \in 0..MaxChunks /\ job.left > 0 /\ job.pos \in Positions \cup {0}
    BY <1>6 DEF RecordChunk
  <2>1. job' \in [left : 0..MaxChunks, pos : Positions \cup {0}]
    BY <1>6, <2>0 DEF RecordChunk
  <2>2. pendq' \in [Batches -> Seq(Slots)]
    BY <1>0, <1>6, AppendToSet DEF RecordChunk
  <2> QED  BY <1>6, <2>1, <2>2 DEF RecordChunk
<1>7. CASE SampleTokens      BY <1>0, <1>7, AppendToSet DEF SampleTokens
<1>9. CASE SampleTokensSync
  <2>1. saves' \in [Batches -> Nat]
    BY <1>0, <1>9 DEF SampleTokensSync
  <2>2. out' \in [Batches -> {"none", "building", "built", "done"}]
    BY <1>0, <1>9 DEF SampleTokensSync
  <2> QED  BY <1>9, <2>1, <2>2 DEF SampleTokensSync
<1>8. ASSUME NEW b \in Batches, ChooseBucket(b) PROVE TypeOK'
  BY <1>8 DEF ChooseBucket
<1> QED  BY <1>1, <1>2, <1>3, <1>4, <1>5, <1>6, <1>7, <1>8, <1>9 DEF Submit

(***************************************************************************)
(* ... and of the scheduler, the engine and the device.                    *)
(***************************************************************************)
LEMMA OtherTypes ==
  ASSUME TypeOK, BatchLifecycle
  PROVE  /\ Schedule => TypeOK'
         /\ EngineCollect \/ EngineReturn => TypeOK'
         /\ \A s \in Slots : DeviceFinish(s) => TypeOK'
         /\ UNCHANGED vars => TypeOK'
<1> USE BoundsAssumption
    DEF TypeOK, Goto, session, model, outputs, runner, Threads,
        CompletionLabels, SubmitLabels
<1>1. ASSUME NEW n \in 0..MaxChunks, NEW p \in Positions, StartExecute(n, p)
      PROVE  TypeOK'
  BY <1>1, SMTT(30) DEF StartExecute, MayStart
<1>2. CASE EngineCollect  BY <1>2, PopToSet DEF EngineCollect, MayStart
<1>3. CASE EngineReturn   BY <1>3, PopToSet DEF EngineReturn, BatchLifecycle, EngineHasTheOldest
<1>4. ASSUME NEW s \in Slots, DeviceFinish(s) PROVE TypeOK'
  BY <1>4 DEF DeviceFinish
<1>5. CASE UNCHANGED vars  BY <1>5, SMTT(30) DEF vars
<1> QED  BY <1>1, <1>2, <1>3, <1>4, <1>5 DEF Schedule

(***************************************************************************)
(* The steps inside a call that only move the thread that takes them, and  *)
(* may pop a chunk, keep the life of the batches.                          *)
(***************************************************************************)
LEMMA LabelStep ==
  ASSUME BatchLifecycle, NEW t \in Threads,
         pc[t] \notin {"idle", "prepare"}, pc'[t] \notin {"idle", "prepare"},
         UNCHANGED <<out, outq, pending_out, cur>>,
         \A b \in Batches : pendq[b] = <<>> => pendq'[b] = <<>>,
         \A u \in Threads : u # t => pc'[u] = pc[u],
         KnowsItsBatch(t)',
         t = "worker" /\ out[cur[t]] = "building" => pc'[t] \in BuildingLabels
  PROVE  BatchLifecycle'
<1>1. BuildingIsTheWorkers'
  BY DEF BatchLifecycle, BuildingIsTheWorkers, Threads
<1>2. ChunksHaveABatch'
  BY DEF BatchLifecycle, ChunksHaveABatch
<1>3. OutputsAreBuilt'
  BY DEF BatchLifecycle, OutputsAreBuilt
<1>4. EngineHasTheOldest'
  BY DEF BatchLifecycle, EngineHasTheOldest, Threads
<1>5. ASSUME NEW u \in Threads, u # t PROVE KnowsItsBatch(u)'
  BY <1>5 DEF BatchLifecycle, KnowsItsBatch
<1> QED  BY <1>1, <1>2, <1>3, <1>4, <1>5 DEF BatchLifecycle

(***************************************************************************)
(* The life of the batches is kept by the steps of a completion ...        *)
(***************************************************************************)
LEMMA CompletionLifecycle ==
  ASSUME TypeOK, BatchLifecycle, NEW t \in Threads, Completion(t)
  PROVE  BatchLifecycle'
<1> DEFINE b == cur[t]
<1>1. /\ pc \in [Threads -> CompletionLabels \cup SubmitLabels]
      /\ KnowsItsBatch(t) /\ pc[t] \notin {"idle", "prepare"}
  BY DEF TypeOK, BatchLifecycle, Completion, GetOutput, DrainTest, PopPending,
         PopTimeout, WaitCompletion, WaitFails, ClearCcl, FinishOutput
<1>2. b \in Batches /\ out[b] \in {"building", "built", "done"}
  BY <1>1 DEF KnowsItsBatch, TypeOK
<1>3. CASE GetOutput(t)
  <2>1. KnowsItsBatch(t)' /\ pc'[t] \in {"return", "drain"} /\ out[b] # "building"
    BY <1>1, <1>2, <1>3 DEF GetOutput, Goto, KnowsItsBatch, outputs
  <2> QED  BY <1>1, <1>3, <2>1, LabelStep DEF GetOutput, Goto, outputs, runner
<1>4. CASE DrainTest(t)
  <2>1. KnowsItsBatch(t)' /\ pc'[t] \in {"get", "sample", "finish"}
        /\ (out[b] = "building" => pc'[t] # "finish")
    BY <1>1, <1>2, <1>4 DEF DrainTest, Goto, KnowsItsBatch, outputs
  <2> QED  BY <1>1, <1>4, <2>1, LabelStep DEF DrainTest, Goto, outputs, runner, BuildingLabels
<1>5. CASE PopPending(t)
  <2>1. \A c \in Batches : pendq[c] = <<>> => pendq'[c] = <<>>
    BY <1>2, <1>5 DEF PopPending, TypeOK
  <2>2. KnowsItsBatch(t)' /\ pc'[t] = "wait"
    BY <1>1, <1>2, <1>5 DEF PopPending, Goto, KnowsItsBatch
  <2> QED  BY <1>1, <1>5, <2>1, <2>2, LabelStep DEF PopPending, Goto, runner, BuildingLabels
<1>6. CASE PopTimeout(t) \/ WaitCompletion(t) \/ WaitFails(t)
  <2>1. KnowsItsBatch(t)' /\ pc'[t] \in {"raised", "clear", "raised_holding"}
    BY <1>1, <1>2, <1>6
    DEF PopTimeout, WaitCompletion, WaitFails, Goto, KnowsItsBatch, outputs
  <2> QED
    BY <1>1, <1>6, <2>1, LabelStep
    DEF PopTimeout, WaitCompletion, WaitFails, Goto, outputs, runner, BuildingLabels
<1>7. CASE ClearCcl(t)
  <2>1. KnowsItsBatch(t)' /\ pc'[t] \in {"take", "drain"}
    BY <1>1, <1>2, <1>7 DEF ClearCcl, Goto, KnowsItsBatch, outputs
  <2> QED  BY <1>1, <1>7, <2>1, LabelStep DEF ClearCcl, Goto, outputs, runner, BuildingLabels
<1>8. CASE FinishOutput(t)
  <2>1. out[b] \in {"built", "done"} /\ pendq[b] = <<>>
    BY <1>1, <1>8 DEF FinishOutput, KnowsItsBatch
  <2>2. /\ \A c \in Batches : out'[c] = IF c = b THEN "done" ELSE out[c]
        /\ UNCHANGED <<pendq, outq, pending_out, cur>>
        /\ pc'[t] = "return" /\ \A u \in Threads : u # t => pc'[u] = pc[u]
    BY <1>1, <1>2, <1>8 DEF FinishOutput, Goto, runner, TypeOK
  <2> HIDE DEF b
  <2>3. BuildingIsTheWorkers'
    BY <1>2, <2>1, <2>2 DEF BatchLifecycle, BuildingIsTheWorkers, Threads, b
  <2>4. ChunksHaveABatch'
    BY <2>1, <2>2 DEF BatchLifecycle, ChunksHaveABatch
  <2>5. OutputsAreBuilt'
    <3>1. ToSet(outq) \subseteq Batches /\ pending_out \in Batches \cup {None}
      BY DEF TypeOK, ToSet
    <3> QED  BY <2>2, <3>1 DEF BatchLifecycle, OutputsAreBuilt
  <2>6. EngineHasTheOldest'
    BY <1>1, <2>2 DEF BatchLifecycle, EngineHasTheOldest, Threads
  <2>7. KnowsItsBatch(t)'
    BY <1>2, <2>2 DEF KnowsItsBatch, b
  <2>8. ASSUME NEW u \in Threads, u # t PROVE KnowsItsBatch(u)'
    <3>1. KnowsItsBatch(u) /\ pc'[u] = pc[u] /\ cur'[u] = cur[u]
      BY <2>2, <2>8 DEF BatchLifecycle
    <3>2. CASE pc[u] \in {"idle", "prepare"}
      BY <3>1, <3>2 DEF KnowsItsBatch
    <3>3. CASE cur[u] \in Batches /\ cur[u] # b
      BY <2>2, <3>1, <3>3 DEF KnowsItsBatch
    <3>4. CASE cur[u] = b
      BY <1>2, <2>1, <2>2, <3>1, <3>4 DEF KnowsItsBatch
    <3> QED  BY <3>1, <3>2, <3>3, <3>4 DEF KnowsItsBatch
  <2> QED  BY <2>3, <2>4, <2>5, <2>6, <2>7, <2>8 DEF BatchLifecycle
<1> QED  BY <1>3, <1>4, <1>5, <1>6, <1>7, <1>8 DEF Completion

(***************************************************************************)
(* ... of a submission: a batch becomes the engine's when it is built, ... *)
(***************************************************************************)
LEMMA SubmitLifecycle ==
  ASSUME TypeOK, BatchLifecycle, Submit
  PROVE  BatchLifecycle'
<1> DEFINE b == cur["worker"]
<1>0. /\ pc["engine"] # "idle" => cur["engine"] \in ToSet(outq)
      /\ ToSet(outq) \subseteq Batches /\ outq \in Seq(Batches)
      /\ KnowsItsBatch("worker") /\ KnowsItsBatch("engine")
  BY EngineBatchIsQueued DEF TypeOK, ToSet, BatchLifecycle, Threads
<1>00. /\ pc \in [Threads -> CompletionLabels \cup SubmitLabels]
       /\ cur \in [Threads -> Batches \cup {None}]
       /\ Threads = {"worker", "engine"} /\ pc["engine"] \in CompletionLabels
  BY DEF TypeOK, Threads
<1>1. ASSUME WorkerReturn \/ NoForward PROVE BatchLifecycle'
  <2>1. /\ UNCHANGED <<pendq, out, outq, pending_out>>
        /\ pc["worker"] \in {"return", "prepare"} /\ pc'["worker"] \in {"idle", "prepare"}
        /\ pc'["engine"] = pc["engine"] /\ cur'["engine"] = cur["engine"]
    BY <1>00, <1>1 DEF WorkerReturn, NoForward, Goto, outputs, runner
  <2>2. \A c \in Batches : out[c] # "building"
    BY <2>1 DEF BatchLifecycle, BuildingIsTheWorkers, BuildingLabels
  <2>3. KnowsItsBatch("engine")' /\ KnowsItsBatch("worker")'
    BY <1>0, <2>1 DEF KnowsItsBatch
  <2> QED
    BY <1>00, <2>1, <2>2, <2>3
    DEF BatchLifecycle, BuildingIsTheWorkers, ChunksHaveABatch, OutputsAreBuilt,
        EngineHasTheOldest
<1>2. ASSUME NextChunk \/ TakeSlot \/ EnqueueFails PROVE BatchLifecycle'
  <2>1. KnowsItsBatch("worker")' /\ pc'["worker"] \in BuildingLabels
    BY <1>0, <1>00, <1>2
    DEF NextChunk, TakeSlot, EnqueueFails, Goto, KnowsItsBatch, outputs, BuildingLabels
  <2> QED
    BY <1>00, <1>2, <2>1, LabelStep
    DEF NextChunk, TakeSlot, EnqueueFails, Goto, outputs, runner, BuildingLabels
<1>3. ASSUME RecordChunk PROVE BatchLifecycle'
  <2>1. /\ UNCHANGED <<out, outq, pending_out, cur>>
        /\ b \in Batches /\ out[b] = "building" /\ pc'["worker"] = "chunk"
        /\ pc'["engine"] = pc["engine"]
        /\ \A c \in Batches : c # b => pendq'[c] = pendq[c]
    BY <1>0, <1>00, <1>3 DEF RecordChunk, Goto, KnowsItsBatch, TypeOK
  <2>2. b \notin ToSet(outq)
    BY <2>1 DEF BatchLifecycle, BuildingIsTheWorkers
  <2>3. KnowsItsBatch("engine")' /\ KnowsItsBatch("worker")'
    BY <1>0, <1>00, <2>1, <2>2 DEF KnowsItsBatch, CompletionLabels
  <2> QED
    BY <1>00, <2>1, <2>3
    DEF BatchLifecycle, BuildingIsTheWorkers, BuildingLabels, ChunksHaveABatch,
        OutputsAreBuilt, EngineHasTheOldest
<1>4. ASSUME SampleTokens PROVE BatchLifecycle'
  <2>1. /\ b \in Batches /\ out[b] = "building" /\ UNCHANGED pendq
        /\ \A c \in Batches : out'[c] = IF c = b THEN "built" ELSE out[c]
        /\ pending_out' = b /\ pc'["worker"] = "idle"
        /\ pc'["engine"] = pc["engine"] /\ cur'["engine"] = cur["engine"]
    BY <1>0, <1>00, <1>4 DEF SampleTokens, Goto, KnowsItsBatch, TypeOK
  <2>2. \A c \in Batches : c # b => out[c] # "building"
    BY <2>1 DEF BatchLifecycle, BuildingIsTheWorkers
  <2>3. /\ ToSet(outq') = ToSet(outq) \cup {b}
        /\ outq # <<>> => outq' # <<>> /\ Head(outq') = Head(outq)
    <3>1. outq' = Append(outq, b)
      BY <1>4 DEF SampleTokens
    <3> HIDE DEF b
    <3> QED  BY <1>0, <2>1, <3>1, AppendToSet
  <2>4. BuildingIsTheWorkers' /\ ChunksHaveABatch'
    BY <2>1, <2>2, <2>3 DEF BatchLifecycle, BuildingIsTheWorkers, ChunksHaveABatch
  <2>5. OutputsAreBuilt'
    BY <1>0, <2>1, <2>3 DEF BatchLifecycle, OutputsAreBuilt
  <2>6. EngineHasTheOldest'
    BY <2>1, <2>3 DEF BatchLifecycle, EngineHasTheOldest
  <2>7. KnowsItsBatch("engine")' /\ KnowsItsBatch("worker")'
    BY <1>0, <1>00, <2>1 DEF KnowsItsBatch, CompletionLabels
  <2> QED  BY <1>00, <2>4, <2>5, <2>6, <2>7 DEF BatchLifecycle
<1>5. ASSUME SampleTokensSync PROVE BatchLifecycle'
  <2>1. /\ b \in Batches /\ out[b] = "building" /\ pendq[b] = <<>>
        /\ UNCHANGED <<pendq, outq, pending_out>>
        /\ \A c \in Batches : out'[c] = IF c = b THEN "done" ELSE out[c]
        /\ pc'["worker"] = "idle"
        /\ pc'["engine"] = pc["engine"] /\ cur'["engine"] = cur["engine"]
    BY <1>0, <1>00, <1>5 DEF SampleTokensSync, Goto, KnowsItsBatch, TypeOK, runner
  <2>2. (\A c \in Batches : c # b => out[c] # "building") /\ b \notin ToSet(outq)
    BY <2>1 DEF BatchLifecycle, BuildingIsTheWorkers
  <2>3. BuildingIsTheWorkers' /\ ChunksHaveABatch'
    BY <2>1, <2>2 DEF BatchLifecycle, BuildingIsTheWorkers, ChunksHaveABatch
  <2>4. OutputsAreBuilt'
    <3>1. pending_out \in Batches \cup {None}
      BY DEF TypeOK
    <3> QED  BY <1>0, <2>1, <3>1 DEF BatchLifecycle, OutputsAreBuilt
  <2>5. EngineHasTheOldest'
    BY <2>1 DEF BatchLifecycle, EngineHasTheOldest
  <2>6. KnowsItsBatch("engine")' /\ KnowsItsBatch("worker")'
    BY <1>0, <1>00, <2>1, <2>2 DEF KnowsItsBatch, CompletionLabels
  <2> QED  BY <1>00, <2>3, <2>4, <2>5, <2>6 DEF BatchLifecycle
<1>6. ASSUME NEW c \in Batches, ChooseBucket(c) PROVE BatchLifecycle'
  <2>1. c \notin ToSet(outq) /\ pc["worker"] = "prepare" /\ UNCHANGED <<outq, pending_out>>
    BY <1>6 DEF ChooseBucket, runner
  <2>2. \A d \in Batches : out[d] # "building"
    BY <2>1 DEF BatchLifecycle, BuildingIsTheWorkers, BuildingLabels
  <2>3. pendq[c] = <<>>
    BY <2>1, <2>2 DEF BatchLifecycle, ChunksHaveABatch
  <2>4. /\ \A d \in Batches : out'[d] = IF d = c THEN "building" ELSE out[d]
        /\ \A d \in Batches : pendq'[d] = pendq[d]
        /\ cur'["worker"] = c /\ pc'["worker"] = "chunk"
        /\ cur'["engine"] = cur["engine"] /\ pc'["engine"] = pc["engine"]
    BY <1>00, <1>6, <2>3 DEF ChooseBucket, Goto, TypeOK
  <2>5. BuildingIsTheWorkers' /\ ChunksHaveABatch'
    BY <2>1, <2>2, <2>3, <2>4
    DEF BatchLifecycle, BuildingIsTheWorkers, BuildingLabels, ChunksHaveABatch
  <2>6. OutputsAreBuilt'
    <3>1. pending_out \in Batches \cup {None}
      BY DEF TypeOK
    <3> QED  BY <1>0, <2>1, <2>4, <3>1 DEF BatchLifecycle, OutputsAreBuilt
  <2>7. EngineHasTheOldest'
    BY <2>1, <2>4 DEF BatchLifecycle, EngineHasTheOldest
  <2>8. KnowsItsBatch("worker")'
    BY <1>6, <2>4 DEF KnowsItsBatch
  <2>9. KnowsItsBatch("engine")'
    BY <1>0, <1>00, <2>1, <2>4 DEF KnowsItsBatch, CompletionLabels
  <2> QED  BY <1>00, <2>5, <2>6, <2>7, <2>8, <2>9 DEF BatchLifecycle
<1> QED  BY <1>1, <1>2, <1>3, <1>4, <1>5, <1>6 DEF Submit

(***************************************************************************)
(* ... and of the scheduler, the engine and the device.                    *)
(***************************************************************************)
LEMMA OtherLifecycle ==
  ASSUME TypeOK, BatchLifecycle
  PROVE  /\ Schedule => BatchLifecycle'
         /\ EngineCollect \/ EngineReturn => BatchLifecycle'
         /\ \A s \in Slots : DeviceFinish(s) => BatchLifecycle'
         /\ UNCHANGED vars => BatchLifecycle'
<1>0. /\ KnowsItsBatch("worker") /\ KnowsItsBatch("engine")
      /\ pc \in [Threads -> CompletionLabels \cup SubmitLabels]
      /\ cur \in [Threads -> Batches \cup {None}]
      /\ Threads = {"worker", "engine"} /\ outq \in Seq(Batches)
      /\ pending_out \in Batches \cup {None}
      /\ \A b \in Batches : out[b] \in {"none", "building", "built", "done"}
  BY DEF TypeOK, BatchLifecycle, Threads
<1>1. ASSUME NEW n \in 0..MaxChunks, NEW p \in Positions, StartExecute(n, p)
      PROVE  BatchLifecycle'
  <2>1. /\ UNCHANGED <<pendq, out, outq, pending_out>> /\ pc["worker"] = "idle"
        /\ pc'["engine"] = pc["engine"] /\ cur'["engine"] = cur["engine"]
        /\ \/ pc'["worker"] = "prepare"
           \/ /\ pc'["worker"] = "get_output" /\ cur'["worker"] = pending_out
              /\ pending_out \in Batches
    BY <1>0, <1>1 DEF StartExecute, MayStart, Goto, outputs
  <2>2. \A b \in Batches : out[b] # "building"
    BY <2>1 DEF BatchLifecycle, BuildingIsTheWorkers, BuildingLabels
  <2>3. BuildingIsTheWorkers' /\ ChunksHaveABatch' /\ OutputsAreBuilt' /\ EngineHasTheOldest'
    BY <2>1, <2>2 DEF BatchLifecycle, BuildingIsTheWorkers, ChunksHaveABatch,
                      OutputsAreBuilt, EngineHasTheOldest
  <2>4. KnowsItsBatch("engine")'
    BY <1>0, <2>1 DEF KnowsItsBatch
  <2>5. KnowsItsBatch("worker")'
    <3>1. pending_out \in Batches => out[pending_out] \in {"built", "done"}
      BY <1>0, <2>2, BatchesAssumption DEF BatchLifecycle, OutputsAreBuilt
    <3> QED  BY <2>1, <3>1 DEF KnowsItsBatch
  <2> QED  BY <1>0, <2>3, <2>4, <2>5 DEF BatchLifecycle
<1>2. ASSUME EngineCollect PROVE BatchLifecycle'
  <2>1. /\ UNCHANGED <<pendq, out, outq, pending_out>> /\ outq # <<>>
        /\ cur'["engine"] = Head(outq) /\ pc'["engine"] = "get_output"
        /\ pc'["worker"] = pc["worker"] /\ cur'["worker"] = cur["worker"]
    BY <1>0, <1>2 DEF EngineCollect, Goto, outputs, runner
  <2>2. Head(outq) \in Batches /\ out[Head(outq)] \in {"built", "done"}
    BY <1>0, <2>1, PopToSet DEF BatchLifecycle, OutputsAreBuilt
  <2>3. KnowsItsBatch("worker")' /\ KnowsItsBatch("engine")'
    BY <1>0, <2>1, <2>2 DEF KnowsItsBatch
  <2> QED
    BY <1>0, <2>1, <2>3
    DEF BatchLifecycle, BuildingIsTheWorkers, ChunksHaveABatch, OutputsAreBuilt,
        EngineHasTheOldest
<1>3. ASSUME EngineReturn PROVE BatchLifecycle'
  <2>1. /\ pc["engine"] = "return" /\ pc'["engine"] = "idle"
        /\ pc'["worker"] = pc["worker"] /\ cur'["worker"] = cur["worker"]
        /\ UNCHANGED <<pendq, out, pending_out>> /\ outq' = Tail(outq)
    BY <1>0, <1>3 DEF EngineReturn, Goto, outputs
  <2>2. outq # <<>> /\ out[Head(outq)] = "done"
    BY <1>0, <2>1 DEF BatchLifecycle, EngineHasTheOldest, KnowsItsBatch
  <2>3. ToSet(outq) = ToSet(outq') \cup {Head(outq)}
    BY <1>0, <2>1, <2>2, PopToSet
  <2>4. BuildingIsTheWorkers' /\ OutputsAreBuilt' /\ EngineHasTheOldest'
    BY <2>1, <2>3 DEF BatchLifecycle, BuildingIsTheWorkers, OutputsAreBuilt, EngineHasTheOldest
  <2>5. ChunksHaveABatch'
    BY <2>1, <2>2, <2>3 DEF BatchLifecycle, ChunksHaveABatch
  <2>6. KnowsItsBatch("worker")' /\ KnowsItsBatch("engine")'
    BY <1>0, <2>1 DEF KnowsItsBatch
  <2> QED  BY <1>0, <2>4, <2>5, <2>6 DEF BatchLifecycle
<1>4. ASSUME UNCHANGED <<pendq, out, outq, pending_out, pc, cur>> PROVE BatchLifecycle'
  BY <1>4 DEF BatchLifecycle, BuildingIsTheWorkers, ChunksHaveABatch, OutputsAreBuilt,
              EngineHasTheOldest, KnowsItsBatch
<1>5. ASSUME NEW s \in Slots, DeviceFinish(s) PROVE BatchLifecycle'
  BY <1>4, <1>5 DEF DeviceFinish, outputs, runner
<1>6. CASE UNCHANGED vars
  BY <1>4, <1>6 DEF vars, outputs, runner
<1> QED  BY <1>1, <1>2, <1>3, <1>5, <1>6 DEF Schedule

-----------------------------------------------------------------------------
(***************************************************************************)
(* SlotConservation is preserved.  A step that moves no exec object leaves *)
(* the pool, the pending queues and the hands of the threads alone.        *)
(***************************************************************************)
LEMMA NothingMoves ==
  ASSUME SlotConservation, pool' = pool, pendq' = pendq,
         \A t \in Threads : Held(t)' = Held(t)
  PROVE  SlotConservation'
BY DEF SlotConservation, Somewhere, Apart, Pooled, Pending, Threads

(***************************************************************************)
(* A slot a thread puts back into the pool: complete_inf().                *)
(***************************************************************************)
LEMMA HandToPool ==
  ASSUME TypeOK, SlotConservation, NEW t \in Threads, WaitCompletion(t)
  PROVE  SlotConservation'
<1> DEFINE s == idx[t]
<1>1. s \in Slots /\ Held(t) = {s} /\ Held(t)' = {}
  BY DEF WaitCompletion, TypeOK, Held, Goto, Threads
<1>2. \A u \in Threads \ {t} : Held(u)' = Held(u)
  BY DEF WaitCompletion, TypeOK, Held, Goto, Threads
<1>3. pendq' = pendq
  BY DEF WaitCompletion, outputs
<1>4. s \notin Pooled
  BY <1>1 DEF SlotConservation, Apart
<1>5. Pooled' = Pooled \cup {s} /\ IsInjective(pool')
  BY <1>1, <1>4, AppendToSet DEF WaitCompletion, TypeOK, SlotConservation, Pooled
<1>6. \A b \in Batches : Pending(b)' = Pending(b)
  BY <1>3 DEF Pending
<1> HIDE DEF s
<1>7. \A x \in Slots : Somewhere(x)'
  BY <1>1, <1>2, <1>5, <1>6 DEF SlotConservation, Somewhere
<1>8. Apart'
  BY <1>1, <1>2, <1>5, <1>6 DEF SlotConservation, Apart
<1> QED
  BY <1>3, <1>5, <1>7, <1>8 DEF SlotConservation

(***************************************************************************)
(* A slot a thread pops from the pending queue of its batch.               *)
(***************************************************************************)
LEMMA PendingToHand ==
  ASSUME TypeOK, BatchLifecycle, SlotConservation, NEW t \in Threads, PopPending(t)
  PROVE  SlotConservation'
<1> DEFINE b == cur[t]
           s == Head(pendq[b])
<1>1. b \in Batches /\ pendq[b] \in Seq(Slots) /\ pendq[b] # <<>>
  BY DEF PopPending, TypeOK, BatchLifecycle, KnowsItsBatch, Threads
<1>2. pendq' = [pendq EXCEPT ![b] = Tail(pendq[b])]
  BY DEF PopPending
<1>3. /\ s \in Slots /\ s \in Pending(b)
      /\ IsInjective(pendq'[b]) /\ ToSet(pendq'[b]) = Pending(b) \ {s}
  <2>1. pendq'[b] = Tail(pendq[b]) /\ IsInjective(pendq[b])
    BY <1>1, <1>2 DEF SlotConservation, TypeOK
  <2> HIDE DEF b
  <2> QED  BY <1>1, <2>1, PopToSet DEF Pending
<1>4. \A c \in Batches \ {b} : pendq'[c] = pendq[c] /\ Pending(c)' = Pending(c)
  BY <1>2 DEF Pending, TypeOK
<1>5. Held(t) = {} /\ Held(t)' = {s}
  BY <1>3 DEF PopPending, TypeOK, Held, Goto, Threads
<1>6. \A u \in Threads \ {t} : Held(u)' = Held(u)
  BY DEF PopPending, TypeOK, Held, Goto, Threads
<1>7. pool' = pool /\ Pooled' = Pooled
  BY DEF PopPending, session, Pooled
<1> HIDE DEF b, s
<1>8. \A c \in Batches : Pending(c)' = IF c = b THEN Pending(c) \ {s} ELSE Pending(c)
  BY <1>3, <1>4 DEF Pending
<1>9. \A x \in Slots : Somewhere(x)'
  BY <1>5, <1>6, <1>7, <1>8 DEF SlotConservation, Somewhere
<1>10. Apart'
  BY <1>1, <1>3, <1>5, <1>6, <1>7, <1>8 DEF SlotConservation, Apart
<1>11. IsInjective(pool') /\ \A c \in Batches : IsInjective(pendq'[c])
  BY <1>3, <1>4, <1>7 DEF SlotConservation
<1> QED
  BY <1>9, <1>10, <1>11 DEF SlotConservation

(***************************************************************************)
(* A slot the worker takes from the pool: np_run_pipeline(), enqueued or   *)
(* not.                                                                    *)
(***************************************************************************)
LEMMA PoolToHand ==
  ASSUME TypeOK, SlotConservation, TakeSlot \/ EnqueueFails
  PROVE  SlotConservation'
<1> DEFINE s == Head(pool)
<1>1. pool \in Seq(Slots) /\ pool # <<>> /\ pool' = Tail(pool) /\ pendq' = pendq
  BY DEF TakeSlot, EnqueueFails, TypeOK, outputs
<1>2. s \in Slots /\ s \in Pooled /\ Pooled' = Pooled \ {s} /\ IsInjective(pool')
  BY <1>1, PopToSet DEF Pooled, SlotConservation
<1>3. Held("worker") = {} /\ Held("worker")' = {s}
  BY <1>2 DEF TakeSlot, EnqueueFails, TypeOK, Held, Goto, Threads
<1>4. Held("engine")' = Held("engine")
  BY DEF TakeSlot, EnqueueFails, TypeOK, Held, Goto, Threads
<1>5. \A b \in Batches : Pending(b)' = Pending(b)
  BY <1>1 DEF Pending
<1> HIDE DEF s
<1>6. \A x \in Slots : Somewhere(x)'
  BY <1>2, <1>3, <1>4, <1>5 DEF SlotConservation, Somewhere, Threads
<1>7. Apart'
  BY <1>2, <1>3, <1>4, <1>5 DEF SlotConservation, Apart, Threads
<1>8. IsInjective(pool') /\ \A b \in Batches : IsInjective(pendq'[b])
  BY <1>1, <1>2 DEF SlotConservation
<1> QED
  BY <1>6, <1>7, <1>8 DEF SlotConservation

(***************************************************************************)
(* A slot the worker queues on its batch.                                  *)
(***************************************************************************)
LEMMA HandToPending ==
  ASSUME TypeOK, BatchLifecycle, SlotConservation, RecordChunk
  PROVE  SlotConservation'
<1> DEFINE b == cur["worker"]
           s == idx["worker"]
<1>1. b \in Batches /\ s \in Slots /\ pendq[b] \in Seq(Slots)
  BY DEF RecordChunk, TypeOK, BatchLifecycle, KnowsItsBatch, Threads
<1>2. pendq' = [pendq EXCEPT ![b] = Append(pendq[b], s)]
  BY DEF RecordChunk
<1>3. Held("worker") = {s} /\ Held("worker")' = {}
  BY <1>1 DEF RecordChunk, TypeOK, Held, Goto, Threads
<1>4. Held("engine")' = Held("engine")
  BY DEF RecordChunk, TypeOK, Held, Goto, Threads
<1>5. s \notin Pending(b)
  BY <1>1, <1>3 DEF SlotConservation, Apart, Threads
<1>6. ToSet(pendq'[b]) = Pending(b) \cup {s} /\ IsInjective(pendq'[b])
  <2>1. pendq'[b] = Append(pendq[b], s) /\ IsInjective(pendq[b])
    BY <1>1, <1>2 DEF SlotConservation, TypeOK
  <2> HIDE DEF b, s
  <2> QED  BY <1>1, <1>5, <2>1, AppendToSet DEF Pending
<1>7. \A c \in Batches \ {b} : pendq'[c] = pendq[c] /\ Pending(c)' = Pending(c)
  BY <1>2 DEF Pending, TypeOK
<1>8. pool' = pool /\ Pooled' = Pooled
  BY DEF RecordChunk, session, Pooled
<1> HIDE DEF b, s
<1>9. \A c \in Batches : Pending(c)' = IF c = b THEN Pending(c) \cup {s} ELSE Pending(c)
  BY <1>6, <1>7 DEF Pending
<1>10. \A x \in Slots : Somewhere(x)'
  BY <1>1, <1>3, <1>4, <1>8, <1>9 DEF SlotConservation, Somewhere, Threads
<1>11. Apart'
  BY <1>1, <1>3, <1>4, <1>8, <1>9 DEF SlotConservation, Apart, Threads
<1>12. IsInjective(pool') /\ \A c \in Batches : IsInjective(pendq'[c])
  BY <1>6, <1>7, <1>8 DEF SlotConservation
<1> QED
  BY <1>10, <1>11, <1>12 DEF SlotConservation

(***************************************************************************)
(* Every step of Next, or a stutter, is one of these.                      *)
(***************************************************************************)
LEMMA ConservationStep ==
  ASSUME IInv, [Next]_vars
  PROVE  SlotConservation'
<1> USE DEF IInv
<1> DEFINE Still == pool' = pool /\ pendq' = pendq
                    /\ \A t \in Threads : Held(t)' = Held(t)
<1>1. ASSUME NEW t \in Threads, Completion(t) PROVE SlotConservation'
  <2>1. CASE PopPending(t)      BY <2>1, PendingToHand
  <2>2. CASE WaitCompletion(t)  BY <2>2, HandToPool
  <2>3. CASE \/ GetOutput(t) \/ DrainTest(t) \/ PopTimeout(t) \/ WaitFails(t)
             \/ ClearCcl(t) \/ FinishOutput(t)
    <3>1. pool' = pool /\ pendq' = pendq
      BY <2>3 DEF GetOutput, DrainTest, PopTimeout, WaitFails, ClearCcl,
                  FinishOutput, session, outputs
    <3>2. \A u \in Threads : Held(u)' = Held(u)
      BY <2>3 DEF GetOutput, DrainTest, PopTimeout, WaitFails, ClearCcl,
                  FinishOutput, TypeOK, Held, Goto, Threads
    <3> QED  BY <3>1, <3>2, NothingMoves
  <2> QED  BY <1>1, <2>1, <2>2, <2>3 DEF Completion
<1>2. CASE TakeSlot \/ EnqueueFails  BY <1>2, PoolToHand
<1>3. CASE RecordChunk               BY <1>3, HandToPending
<1>4. CASE \/ WorkerReturn \/ NoForward \/ NextChunk \/ SampleTokens \/ SampleTokensSync
  <2>1. pool' = pool /\ pendq' = pendq
    BY <1>4 DEF WorkerReturn, NoForward, NextChunk, SampleTokens, SampleTokensSync,
                session, outputs
  <2>2. \A u \in Threads : Held(u)' = Held(u)
    BY <1>4 DEF WorkerReturn, NoForward, NextChunk, SampleTokens, SampleTokensSync,
                TypeOK, Held, Goto, Threads
  <2> QED  BY <2>1, <2>2, NothingMoves
<1>5. ASSUME NEW b \in Batches, ChooseBucket(b) PROVE SlotConservation'
  <2>1. pool' = pool
    BY <1>5 DEF ChooseBucket, session
  <2>2. pendq[b] = <<>>
    BY <1>5 DEF ChooseBucket, BatchLifecycle, ChunksHaveABatch, BuildingIsTheWorkers,
                BuildingLabels
  <2>3. pendq' = pendq
    BY <1>5, <2>2 DEF ChooseBucket, TypeOK
  <2>4. \A u \in Threads : Held(u)' = Held(u)
    BY <1>5 DEF ChooseBucket, TypeOK, Held, Goto, Threads
  <2> QED  BY <2>1, <2>3, <2>4, NothingMoves
<1>6. ASSUME NEW n \in 0..MaxChunks, NEW p \in Positions, StartExecute(n, p)
      PROVE  SlotConservation'
  <2>1. pool' = pool /\ pendq' = pendq
    BY <1>6 DEF StartExecute, session, outputs
  <2>2. \A u \in Threads : Held(u)' = Held(u)
    BY <1>6 DEF StartExecute, MayStart, TypeOK, Held, Goto, Threads
  <2> QED  BY <2>1, <2>2, NothingMoves
<1>7. CASE EngineCollect \/ EngineReturn
  <2>1. pool' = pool /\ pendq' = pendq
    BY <1>7 DEF EngineCollect, EngineReturn, session, outputs
  <2>2. \A u \in Threads : Held(u)' = Held(u)
    BY <1>7 DEF EngineCollect, EngineReturn, MayStart, TypeOK, Held, Goto, Threads
  <2> QED  BY <2>1, <2>2, NothingMoves
<1>8. ASSUME NEW s \in Slots, DeviceFinish(s) PROVE SlotConservation'
  BY <1>8, NothingMoves DEF DeviceFinish, Held, outputs
<1>9. CASE UNCHANGED vars
  BY <1>9, NothingMoves DEF vars, Held, outputs, session
<1> QED
  BY <1>1, <1>2, <1>3, <1>4, <1>5, <1>6, <1>7, <1>8, <1>9
  DEF Next, Worker, Engine, Submit, Schedule, Threads

-----------------------------------------------------------------------------
(***************************************************************************)
(* The initial pool lists every slot once.                                 *)
(***************************************************************************)
LEMMA InitialPool ==
  ASSUME pool = [i \in 1..prefill_num_execObj |-> i - 1]
  PROVE  pool \in Seq(Slots) /\ Pooled = Slots /\ IsInjective(pool)
<1> USE SlotsAssumption
<1>1. pool \in Seq(Slots) /\ DOMAIN pool = 1..prefill_num_execObj
  BY DEF Slots
<1>2. IsInjective(pool)
  BY <1>1 DEF IsInjective
<1>3. ASSUME NEW s \in Slots PROVE s \in Pooled
  <2>1. s + 1 \in DOMAIN pool /\ pool[s + 1] = s
    BY <1>1, <1>3 DEF Slots
  <2> QED  BY <2>1 DEF Pooled, ToSet
<1>4. Pooled \subseteq Slots
  BY <1>1 DEF Pooled, ToSet, Slots
<1> QED  BY <1>1, <1>2, <1>3, <1>4

(***************************************************************************)
(* The program starts in the invariant ...                                 *)
(***************************************************************************)
LEMMA InitIInv ==
  ASSUME Init
  PROVE  IInv
<1>1. pool \in Seq(Slots) /\ Pooled = Slots /\ IsInjective(pool)
  BY InitialPool DEF Init
<1>2. \A b \in Batches : pendq[b] = <<>> /\ Pending(b) = {} /\ out[b] = "none"
  BY DEF Init, Pending, ToSet
<1>3. \A t \in Threads : pc[t] = "idle" /\ Held(t) = {}
  BY DEF Init, Held
<1>4. TypeOK
  BY <1>1, BoundsAssumption DEF Init, TypeOK, Threads, CompletionLabels
<1>5. BatchLifecycle
  BY <1>2, <1>3 DEF Init, BatchLifecycle, BuildingIsTheWorkers, ChunksHaveABatch,
       OutputsAreBuilt, EngineHasTheOldest, KnowsItsBatch, Threads, ToSet
<1>6. SlotConservation
  BY <1>1, <1>2, <1>3 DEF SlotConservation, Somewhere, Apart, IsInjective, Threads
<1> QED  BY <1>4, <1>5, <1>6 DEF IInv

(***************************************************************************)
(* ... and every step keeps it.                                            *)
(***************************************************************************)
LEMMA StepIInv ==
  ASSUME IInv, [Next]_vars
  PROVE  IInv'
<1>1. TypeOK'
  BY CompletionTypes, SubmitTypes, OtherTypes
  DEF IInv, Next, Worker, Engine, Threads
<1>2. BatchLifecycle'
  BY CompletionLifecycle, SubmitLifecycle, OtherLifecycle
  DEF IInv, Next, Worker, Engine, Threads
<1>3. SlotConservation'
  BY ConservationStep
<1> QED  BY <1>1, <1>2, <1>3 DEF IInv

(***************************************************************************)
(* The inductive invariant holds in every reachable state.                 *)
(***************************************************************************)
LEMMA Invariance == Spec => []IInv
<1>1. Init => IInv
  BY InitIInv
<1>2. IInv /\ [Next]_vars => IInv'
  BY StepIInv
<1> QED  BY <1>1, <1>2, PTL DEF Spec

(***************************************************************************)
(* Type correctness of the pipeline.                                       *)
(***************************************************************************)
THEOREM TypeCorrect == Spec => []TypeOK
BY Invariance, PTL DEF IInv

(***************************************************************************)
(* The life of a batch's output object: no chunk is pending on a batch     *)
(* nobody will drain.                                                      *)
(***************************************************************************)
THEOREM LifecycleCorrect == Spec => []BatchLifecycle
BY Invariance, PTL DEF IInv

(***************************************************************************)
(* No exec object is lost, and none is leased twice, whatever the device   *)
(* and the two threads do.                                                 *)
(***************************************************************************)
THEOREM SlotsConserved == Spec => []SlotConservation
BY Invariance, PTL DEF IInv

(***************************************************************************)
(* Neither the worker nor the engine can take an exec object the device is *)
(* executing: only completed ones are put into the pool.                   *)
(***************************************************************************)
THEOREM PoolIsIdle == Spec => []PooledAreIdle
<1>1. Init => PooledAreIdle
  BY DEF Init, PooledAreIdle
<1>2. ASSUME IInv, PooledAreIdle, [Next]_vars
      PROVE  PooledAreIdle'
  <2> USE <1>2 DEF PooledAreIdle, Pooled
  <2>0. pool \in Seq(Slots) /\ IsInjective(pool)
    BY DEF IInv, TypeOK, SlotConservation
  <2>1. CASE TakeSlot
    <3>1. ToSet(pool') = ToSet(pool) \ {Head(pool)}
      BY <2>0, <2>1, PopToSet DEF TakeSlot
    <3> QED  BY <2>1, <3>1 DEF TakeSlot
  <2>2. CASE EnqueueFails
    <3>1. ToSet(pool') \subseteq ToSet(pool)
      BY <2>0, <2>2, PopToSet DEF EnqueueFails
    <3> QED  BY <2>2, <3>1 DEF EnqueueFails
  <2>3. ASSUME NEW t \in Threads, WaitCompletion(t) PROVE PooledAreIdle'
    <3>1. idx[t] \in Slots
      BY <2>3 DEF WaitCompletion, IInv, TypeOK
    <3>2. ToSet(pool') = ToSet(pool) \cup {idx[t]}
      BY <2>0, <2>3, <3>1, AppendToSet DEF WaitCompletion
    <3> QED  BY <2>3, <3>2 DEF WaitCompletion
  <2>4. ASSUME pool' = pool, running' \subseteq running PROVE PooledAreIdle'
    BY <2>4
  <2>5. ASSUME NEW t \in Threads, Completion(t) PROVE PooledAreIdle'
    BY <2>3, <2>4, <2>5
    DEF Completion, GetOutput, DrainTest, PopPending, PopTimeout, WaitFails,
        ClearCcl, FinishOutput, session
  <2>6. CASE Submit
    BY <2>1, <2>2, <2>4, <2>6
    DEF Submit, WorkerReturn, NoForward, NextChunk, RecordChunk, SampleTokens,
        SampleTokensSync, ChooseBucket, session
  <2>7. CASE \/ Schedule \/ EngineCollect \/ EngineReturn
             \/ (\E s \in Slots : DeviceFinish(s)) \/ UNCHANGED vars
    BY <2>4, <2>7
    DEF Schedule, StartExecute, EngineCollect, EngineReturn, DeviceFinish, session, vars
  <2> QED  BY <2>5, <2>6, <2>7 DEF Next, Worker, Engine, Threads
<1> QED  BY <1>1, <1>2, Invariance, PTL DEF Spec

-----------------------------------------------------------------------------
(***************************************************************************)
(* PrefillPipeline implements ExecLease, with and without an output        *)
(* thread, and with a device that may fail.                                *)
(***************************************************************************)

(***************************************************************************)
(* Slot s is leased to h: it is pooled (and h is None), pending on batch   *)
(* h, or in the hands of a thread that works for batch h.                  *)
(***************************************************************************)
LeasedTo(s, h) == \/ s \in Pooled /\ h = None
                  \/ h \in Batches /\ s \in Pending(h)
                  \/ \E t \in Threads : s \in Held(t) /\ h = cur[t]

HolderIsLessee ==
  \A s \in Slots : /\ Holder(s) \in Batches \cup {None}
                   /\ LeasedTo(s, Holder(s))
                   /\ \A h \in Batches \cup {None} : LeasedTo(s, h) => h = Holder(s)

(***************************************************************************)
(* Because no slot is in two places, the refinement mapping names the only *)
(* lessee of a slot.                                                       *)
(***************************************************************************)
LEMMA HolderDetermined ==
  ASSUME IInv
  PROVE  HolderIsLessee
<1> SUFFICES ASSUME NEW s \in Slots
             PROVE  /\ Holder(s) \in Batches \cup {None}
                    /\ LeasedTo(s, Holder(s))
                    /\ \A h \in Batches \cup {None} : LeasedTo(s, h) => h = Holder(s)
  BY DEF HolderIsLessee
<1>0. SlotConservation /\ Somewhere(s) /\ Apart /\ Threads = {"worker", "engine"}
  BY DEF IInv, SlotConservation, Threads
<1>1. \A t \in Threads : s \in Held(t) => cur[t] \in Batches
  BY DEF IInv, BatchLifecycle, KnowsItsBatch, Held
<1>2. CASE s \in Pooled
  <2>1. Holder(s) = None
    BY <1>2 DEF Holder
  <2>2. /\ \A b \in Batches : s \notin Pending(b)
        /\ \A t \in Threads : s \notin Held(t)
    BY <1>0, <1>2 DEF Apart
  <2> QED  BY <1>2, <2>1, <2>2 DEF LeasedTo
<1>3. ASSUME NEW b \in Batches, s \in Pending(b)
      PROVE  /\ Holder(s) \in Batches \cup {None}
             /\ LeasedTo(s, Holder(s))
             /\ \A h \in Batches \cup {None} : LeasedTo(s, h) => h = Holder(s)
  <2>1. /\ s \notin Pooled /\ \A t \in Threads : s \notin Held(t)
        /\ \A c \in Batches : s \in Pending(c) => c = b
    BY <1>0, <1>3 DEF Apart
  <2>2. Holder(s) = b
    BY <1>3, <2>1 DEF Holder
  <2> QED  BY <1>3, <2>1, <2>2 DEF LeasedTo
<1>4. ASSUME NEW t \in Threads, s \in Held(t)
      PROVE  /\ Holder(s) \in Batches \cup {None}
             /\ LeasedTo(s, Holder(s))
             /\ \A h \in Batches \cup {None} : LeasedTo(s, h) => h = Holder(s)
  <2>1. /\ s \notin Pooled /\ \A b \in Batches : s \notin Pending(b)
        /\ \A u \in Threads : s \in Held(u) => u = t
    BY <1>0, <1>4 DEF Apart
  <2>2. Holder(s) = cur[t]
    BY <1>4, <2>1 DEF Holder
  <2> QED  BY <1>1, <1>4, <2>1, <2>2 DEF LeasedTo
<1> QED  BY <1>0, <1>2, <1>3, <1>4 DEF Somewhere

-----------------------------------------------------------------------------
LeaseHolder == [s \in Slots |-> Holder(s)]

(* What a step of the pool needs to know of both of its states.            *)
LeaseStep == /\ IInv /\ PooledAreIdle /\ HolderIsLessee
             /\ IInv' /\ HolderIsLessee'
             /\ [Next]_vars

(***************************************************************************)
(* A step after which every slot is leased as before stutters or finishes. *)
(***************************************************************************)
LEMMA SameLessees ==
  ASSUME HolderIsLessee, HolderIsLessee',
         \A s \in Slots, h \in Batches \cup {None} : LeasedTo(s, h) => LeasedTo(s, h)'
  PROVE  LeaseHolder' = LeaseHolder
<1>1. \A s \in Slots : Holder(s)' = Holder(s)
  BY DEF HolderIsLessee
<1> QED  BY <1>1 DEF LeaseHolder

(***************************************************************************)
(* A step that moves no slot and changes no batch of a thread that holds   *)
(* one leaves every lease as it is.                                        *)
(***************************************************************************)
LEMMA NobodyMoves ==
  ASSUME HolderIsLessee, HolderIsLessee', pool' = pool, pendq' = pendq,
         \A t \in Threads : Held(t)' = Held(t) /\ (Held(t) # {} => cur'[t] = cur[t])
  PROVE  LeaseHolder' = LeaseHolder
<1>1. Pooled' = Pooled /\ \A b \in Batches : Pending(b)' = Pending(b)
  BY DEF Pooled, Pending
<1> QED  BY <1>1, SameLessees DEF LeasedTo

(***************************************************************************)
(* np_run_pipeline() takes an idle slot for the batch at hand.             *)
(***************************************************************************)
LEMMA TakeAcquires ==
  ASSUME LeaseStep, TakeSlot \/ EnqueueFails
  PROVE  Lease!Next
<1> USE DEF LeaseStep
<1>0. Threads = {"worker", "engine"} /\ TypeOK
  BY DEF Threads, IInv
<1>1. /\ pool \in Seq(Slots) /\ pool # <<>> /\ pool' = Tail(pool) /\ IsInjective(pool)
      /\ pendq' = pendq /\ cur' = cur
      /\ running' \in {running, running \cup {Head(pool)}}
  BY DEF TakeSlot, EnqueueFails, IInv, TypeOK, SlotConservation, outputs
<1>2. cur["worker"] \in Batches
  BY <1>0 DEF TakeSlot, EnqueueFails, IInv, BatchLifecycle, KnowsItsBatch
<1>3. PICK s \in Slots, b \in Batches : s = Head(pool) /\ b = cur["worker"]
  BY <1>1, <1>2, PopToSet
<1>4. s \in Pooled /\ Pooled' = Pooled \ {s} /\ s \notin running
  BY <1>1, <1>3, PopToSet DEF Pooled, PooledAreIdle
<1>5. Held("worker")' = {s} /\ Held("worker") = {} /\ Held("engine")' = Held("engine")
  BY <1>0, <1>3 DEF TakeSlot, EnqueueFails, TypeOK, Held, Goto, Threads
<1>6. \A c \in Batches : Pending(c)' = Pending(c)
  BY <1>1 DEF Pending
<1>7. LeasedTo(s, None) /\ LeasedTo(s, b)'
  BY <1>0, <1>1, <1>3, <1>4, <1>5 DEF LeasedTo
<1>8. Holder(s) = None /\ Holder(s)' = b
  BY <1>7 DEF HolderIsLessee
<1>9. ASSUME NEW x \in Slots, x # s PROVE Holder(x)' = Holder(x)
  <2>1. \A h \in Batches \cup {None} : LeasedTo(x, h) => LeasedTo(x, h)'
    BY <1>0, <1>1, <1>4, <1>5, <1>6, <1>9 DEF LeasedTo
  <2> QED  BY <2>1 DEF HolderIsLessee
<1>10. LeaseHolder' = [LeaseHolder EXCEPT ![s] = b]
  BY <1>8, <1>9 DEF LeaseHolder
<1>11. Lease!Acquire(s, b)
  BY <1>1, <1>3, <1>4, <1>8, <1>10 DEF Lease!Acquire, LeaseHolder
<1> QED  BY <1>11 DEF Lease!Next

(***************************************************************************)
(* complete_inf() ends the lease of a slot the device is done with.        *)
(***************************************************************************)
LEMMA WaitReleases ==
  ASSUME LeaseStep, NEW t \in Threads, WaitCompletion(t)
  PROVE  Lease!Next
<1> USE DEF LeaseStep
<1>0. Threads = {"worker", "engine"} /\ TypeOK
  BY DEF Threads, IInv
<1>1. PICK s \in Slots : s = idx[t]
  BY <1>0 DEF WaitCompletion, TypeOK
<1>2. PICK b \in Batches : b = cur[t]
  BY DEF WaitCompletion, IInv, BatchLifecycle, KnowsItsBatch
<1>3. Held(t) = {s} /\ Held(t)' = {} /\ s \notin running
  BY <1>0, <1>1 DEF WaitCompletion, TypeOK, Held, Goto
<1>4. \A u \in Threads \ {t} : Held(u)' = Held(u)
  BY <1>0 DEF WaitCompletion, TypeOK, Held, Goto
<1>5. pendq' = pendq /\ cur' = cur /\ running' = running
  BY DEF WaitCompletion, outputs
<1>6. \A c \in Batches : Pending(c)' = Pending(c)
  BY <1>5 DEF Pending
<1>7. Pooled' = Pooled \cup {s}
  BY <1>0, <1>1, AppendToSet DEF WaitCompletion, TypeOK, Pooled
<1>8. LeasedTo(s, b) /\ LeasedTo(s, None)'
  BY <1>2, <1>3, <1>7 DEF LeasedTo
<1>9. Holder(s) = b /\ Holder(s)' = None
  BY <1>8 DEF HolderIsLessee
<1>10. ASSUME NEW x \in Slots, x # s PROVE Holder(x)' = Holder(x)
  <2>1. \A h \in Batches \cup {None} : LeasedTo(x, h) => LeasedTo(x, h)'
    BY <1>3, <1>4, <1>5, <1>6, <1>7, <1>10 DEF LeasedTo
  <2> QED  BY <2>1 DEF HolderIsLessee
<1>11. LeaseHolder' = [LeaseHolder EXCEPT ![s] = None]
  BY <1>9, <1>10 DEF LeaseHolder
<1>12. Lease!Release(s)
  BY <1>3, <1>5, <1>9, <1>11, BatchesAssumption DEF Lease!Release, LeaseHolder
<1> QED  BY <1>12 DEF Lease!Next

(***************************************************************************)
(* A chunk that moves between a hand and the queue of the batch the hand   *)
(* works for stays leased to that batch.                                   *)
(***************************************************************************)
LEMMA QueueKeepsLease ==
  ASSUME LeaseStep, NEW t \in Threads, PopPending(t) \/ (t = "worker" /\ RecordChunk)
  PROVE  LeaseHolder' = LeaseHolder /\ running' = running
<1> USE DEF LeaseStep
<1>0. TypeOK /\ Threads = {"worker", "engine"}
  BY DEF IInv, Threads
<1>1. pool' = pool /\ cur' = cur /\ running' = running /\ Pooled' = Pooled
  BY DEF PopPending, RecordChunk, session, Pooled
<1>2. PICK b \in Batches : b = cur[t]
  BY DEF PopPending, RecordChunk, IInv, BatchLifecycle, KnowsItsBatch
<1>3. \A c \in Batches \ {b} : pendq'[c] = pendq[c]
  BY <1>0, <1>2 DEF PopPending, RecordChunk, TypeOK
<1>4. \A c \in Batches \ {b} : Pending(c)' = Pending(c)
  BY <1>3 DEF Pending
<1>5. \A u \in Threads \ {t} : Held(u)' = Held(u)
  BY <1>0 DEF PopPending, RecordChunk, TypeOK, Held, Goto
<1>6. Pending(b) \cup Held(t) = Pending(b)' \cup Held(t)'
  <2>1. CASE PopPending(t)
    <3>1. /\ pendq[b] \in Seq(Slots) /\ pendq[b] # <<>> /\ pendq'[b] = Tail(pendq[b])
          /\ pc[t] = "get" /\ pc'[t] = "wait" /\ idx'[t] = Head(pendq[b])
      BY <1>0, <1>2, <2>1 DEF PopPending, TypeOK, Goto
    <3>2. Head(pendq[b]) \in Slots /\ Pending(b) = Pending(b)' \cup {Head(pendq[b])}
      BY <3>1, PopToSet DEF Pending
    <3>3. Held(t) = {} /\ Held(t)' = {Head(pendq[b])}
      BY <3>1, <3>2 DEF Held
    <3> QED  BY <3>2, <3>3
  <2>2. CASE t = "worker" /\ RecordChunk
    <3>1. /\ pendq[b] \in Seq(Slots) /\ pendq'[b] = Append(pendq[b], idx[t])
          /\ idx[t] \in Slots /\ pc[t] = "record" /\ pc'[t] = "chunk"
      BY <1>0, <1>2, <2>2 DEF RecordChunk, TypeOK, Goto
    <3>2. Pending(b)' = Pending(b) \cup {idx[t]}
      BY <3>1, AppendToSet DEF Pending
    <3>3. Held(t) = {idx[t]} /\ Held(t)' = {}
      BY <3>1 DEF Held
    <3> QED  BY <3>2, <3>3
  <2> QED  BY <2>1, <2>2
<1>7. ASSUME NEW x \in Slots, NEW h \in Batches \cup {None}, LeasedTo(x, h)
      PROVE  LeasedTo(x, h)'
  <2>1. CASE x \in Pending(b) \cup Held(t)
    <3>1. LeasedTo(x, b)
      BY <1>2, <2>1 DEF LeasedTo
    <3>2. h = b
      BY <1>7, <3>1 DEF HolderIsLessee
    <3> QED  BY <1>1, <1>2, <1>6, <2>1, <3>2 DEF LeasedTo
  <2>2. CASE x \notin Pending(b) \cup Held(t)
    <3>1. CASE x \in Pooled /\ h = None
      BY <1>1, <3>1 DEF LeasedTo
    <3>2. CASE h \in Batches /\ x \in Pending(h)
      BY <1>4, <2>2, <3>2 DEF LeasedTo
    <3>3. ASSUME NEW u \in Threads, x \in Held(u), h = cur[u] PROVE LeasedTo(x, h)'
      BY <1>1, <1>5, <2>2, <3>3 DEF LeasedTo
    <3> QED  BY <1>7, <3>1, <3>2, <3>3 DEF LeasedTo
  <2> QED  BY <2>1, <2>2
<1> QED  BY <1>1, <1>7, SameLessees

(***************************************************************************)
(* Every step of a thread that completes chunks, of the submitting worker, *)
(* and of the rest of the system is a step of the pool's specification, or *)
(* changes nothing that specification speaks of.                           *)
(***************************************************************************)
LEMMA CompletionLeases ==
  ASSUME LeaseStep, NEW t \in Threads, Completion(t)
  PROVE  Lease!Next \/ UNCHANGED <<LeaseHolder, running>>
<1>0. TypeOK /\ HolderIsLessee /\ HolderIsLessee'
  BY DEF LeaseStep, IInv
<1>1. CASE PopPending(t)      BY <1>1, QueueKeepsLease
<1>2. CASE WaitCompletion(t)  BY <1>2, WaitReleases
<1>3. CASE \/ GetOutput(t) \/ DrainTest(t) \/ PopTimeout(t) \/ WaitFails(t)
           \/ ClearCcl(t) \/ FinishOutput(t)
  <2>1. pool' = pool /\ pendq' = pendq /\ cur' = cur
    BY <1>3 DEF GetOutput, DrainTest, PopTimeout, WaitFails, ClearCcl,
                FinishOutput, session, outputs
  <2>2. \A u \in Threads : Held(u)' = Held(u)
    BY <1>0, <1>3 DEF GetOutput, DrainTest, PopTimeout, WaitFails, ClearCcl,
                      FinishOutput, TypeOK, Held, Goto, Threads
  <2>3. LeaseHolder' = LeaseHolder
    BY <1>0, <2>1, <2>2, NobodyMoves
  <2>4. running' = running \/ (running' = running \ {idx[t]} /\ idx[t] \in Slots)
    BY <1>0, <1>3 DEF GetOutput, DrainTest, PopTimeout, WaitFails, ClearCcl,
                      FinishOutput, session, TypeOK
  <2>5. CASE idx[t] \in running /\ running' = running \ {idx[t]} /\ idx[t] \in Slots
    <3>1. Lease!Finish(idx[t])
      BY <2>3, <2>5 DEF Lease!Finish, LeaseHolder
    <3> QED  BY <2>5, <3>1 DEF Lease!Next
  <2> QED  BY <2>3, <2>4, <2>5
<1> QED  BY <1>1, <1>2, <1>3 DEF Completion

(***************************************************************************)
(* A step of a submission takes a lease, starts an exec object, or is      *)
(* invisible to ExecLease.                                                 *)
(***************************************************************************)
LEMMA SubmitLeases ==
  ASSUME LeaseStep, Submit
  PROVE  Lease!Next \/ UNCHANGED <<LeaseHolder, running>>
<1>0. TypeOK /\ HolderIsLessee /\ HolderIsLessee' /\ Threads = {"worker", "engine"}
  BY DEF LeaseStep, IInv, Threads
<1>1. CASE TakeSlot \/ EnqueueFails  BY <1>1, TakeAcquires
<1>2. CASE RecordChunk               BY <1>0, <1>2, QueueKeepsLease
<1>3. CASE \/ WorkerReturn \/ NoForward \/ NextChunk \/ SampleTokens \/ SampleTokensSync
           \/ \E b \in Batches : ChooseBucket(b)
  <2>1. pool' = pool /\ running' = running
    BY <1>3 DEF WorkerReturn, NoForward, NextChunk, SampleTokens, SampleTokensSync,
                ChooseBucket, session
  <2>2. pendq' = pendq
    <3>1. ASSUME NEW b \in Batches, ChooseBucket(b) PROVE pendq' = pendq
      <4>1. pendq[b] = <<>>
        BY <3>1 DEF ChooseBucket, LeaseStep, IInv, BatchLifecycle, ChunksHaveABatch,
                    BuildingIsTheWorkers, BuildingLabels
      <4> QED  BY <1>0, <3>1, <4>1 DEF ChooseBucket, TypeOK
    <3> QED  BY <1>3, <3>1 DEF WorkerReturn, NoForward, NextChunk, SampleTokens,
                               SampleTokensSync, outputs
  <2>3. /\ Held("worker") = {} /\ Held("worker")' = {}
        /\ Held("engine")' = Held("engine") /\ cur'["engine"] = cur["engine"]
    BY <1>0, <1>3 DEF WorkerReturn, NoForward, NextChunk, SampleTokens, SampleTokensSync,
                      ChooseBucket, TypeOK, Held, Goto
  <2> QED  BY <1>0, <2>1, <2>2, <2>3, NobodyMoves
<1> QED  BY <1>1, <1>2, <1>3 DEF Submit

(***************************************************************************)
(* The engine's scheduling and collecting are invisible to ExecLease; a    *)
(* device step is its step of the same kind.                               *)
(***************************************************************************)
LEMMA OtherLeases ==
  ASSUME LeaseStep, \/ Schedule \/ EngineCollect \/ EngineReturn
                    \/ (\E s \in Slots : DeviceFinish(s)) \/ UNCHANGED vars
  PROVE  Lease!Next \/ UNCHANGED <<LeaseHolder, running>>
<1>0. TypeOK /\ HolderIsLessee /\ HolderIsLessee' /\ Threads = {"worker", "engine"}
  BY DEF LeaseStep, IInv, Threads
<1>1. CASE Schedule \/ EngineCollect \/ EngineReturn
  <2>1. pool' = pool /\ pendq' = pendq /\ running' = running
    BY <1>1 DEF Schedule, StartExecute, EngineCollect, EngineReturn, session, outputs
  <2>2. PICK t \in Threads :
          /\ Held(t) = {} /\ Held(t)' = {}
          /\ \A u \in Threads \ {t} : Held(u)' = Held(u) /\ cur'[u] = cur[u]
    <3>1. CASE Schedule
      <4>1. Held("worker") = {} /\ Held("worker")' = {}
        BY <1>0, <3>1 DEF Schedule, StartExecute, MayStart, TypeOK, Held, Goto
      <4>2. Held("engine")' = Held("engine") /\ cur'["engine"] = cur["engine"]
        BY <1>0, <3>1 DEF Schedule, StartExecute, TypeOK, Held, Goto
      <4> QED  BY <1>0, <4>1, <4>2
    <3>2. CASE EngineCollect \/ EngineReturn
      <4>1. Held("engine") = {} /\ Held("engine")' = {}
        BY <1>0, <3>2 DEF EngineCollect, EngineReturn, MayStart, TypeOK, Held, Goto
      <4>2. Held("worker")' = Held("worker") /\ cur'["worker"] = cur["worker"]
        BY <1>0, <3>2 DEF EngineCollect, EngineReturn, TypeOK, Held, Goto
      <4> QED  BY <1>0, <4>1, <4>2
    <3> QED  BY <1>1, <3>1, <3>2
  <2> QED  BY <1>0, <2>1, <2>2, NobodyMoves
<1>2. CASE UNCHANGED vars
  BY <1>0, <1>2, NobodyMoves DEF vars, session, outputs, Held
<1>3. ASSUME NEW s \in Slots, DeviceFinish(s) PROVE Lease!Next
  <2>1. LeaseHolder' = LeaseHolder
    BY <1>0, <1>3, NobodyMoves DEF DeviceFinish, outputs, Held
  <2>2. Lease!Finish(s)
    BY <1>3, <2>1 DEF DeviceFinish, Lease!Finish, LeaseHolder
  <2> QED  BY <2>2 DEF Lease!Next
<1> QED  BY <1>1, <1>2, <1>3

(***************************************************************************)
(* The queues, threads and failures of the pipeline never break what the   *)
(* pool promises: an exec object is leased to one batch at a time, the     *)
(* device executes only leased ones, a lease ends when the device is done. *)
(***************************************************************************)
THEOREM PipelineImplementsLease == Spec => RefinesLease
<1>1. IInv => HolderIsLessee
  BY HolderDetermined
<1>2. Init => Lease!Init
  <2> SUFFICES ASSUME Init PROVE Lease!Init
    OBVIOUS
  <2>1. Pooled = Slots
    BY InitialPool DEF Init
  <2>2. \A s \in Slots : Holder(s) = None
    BY <2>1 DEF Holder
  <2> QED  BY <2>2 DEF Init, Lease!Init
<1>3. ASSUME IInv, PooledAreIdle, HolderIsLessee, IInv', HolderIsLessee', [Next]_vars
      PROVE  [Lease!Next]_<<LeaseHolder, running>>
  <2>1. LeaseStep
    BY <1>3 DEF LeaseStep
  <2> QED
    BY <1>3, <2>1, CompletionLeases, SubmitLeases, OtherLeases
    DEF Next, Worker, Engine, Threads
<1> QED
  BY <1>1, <1>2, <1>3, Invariance, PoolIsIdle, PTL DEF Spec, RefinesLease, Lease!Spec, LeaseHolder

-----------------------------------------------------------------------------
(***************************************************************************)
(* What the compute-context buckets and get_output() promise, with and     *)
(* without an output thread; and that no thread blocks on an empty queue   *)
(* while the engine collects outputs between two calls of the worker       *)
(* (~Threaded).                                                            *)
(***************************************************************************)

(***************************************************************************)
(* The bucket of a pending chunk was chosen when its batch was prepared.   *)
(* BucketCoversPrompt is not inductive without the bucket of the batch     *)
(* being submitted and the one set on the slot in the worker's hands.      *)
(***************************************************************************)
Covers(b, c) == need[b] < c \/ \A d \in Buckets : d <= c

ChosenCovers == \A b \in Batches : out[b] = "building" => Covers(b, chosen_ccl)

HandIsBound == pc["worker"] = "record" => bound[idx["worker"]] = chosen_ccl

BucketInv == ChosenCovers /\ HandIsBound /\ BucketCoversPrompt

(***************************************************************************)
(* Steps that set no bucket and queue no chunk.                            *)
(***************************************************************************)
LEMMA CoversKept ==
  ASSUME BucketInv, UNCHANGED <<bound, need, chosen_ccl>>,
         \A b \in Batches : out'[b] = "building" => out[b] = "building",
         \A b \in Batches : Pending(b)' \subseteq Pending(b),
         pc'["worker"] = "record" => pc["worker"] = "record" /\ idx'["worker"] = idx["worker"]
  PROVE  BucketInv'
<1>1. ChosenCovers'
  BY DEF BucketInv, ChosenCovers, Covers
<1>2. HandIsBound'
  BY DEF BucketInv, HandIsBound
<1>3. BucketCoversPrompt'
  BY DEF BucketInv, BucketCoversPrompt
<1> QED  BY <1>1, <1>2, <1>3 DEF BucketInv

(***************************************************************************)
(* A bucket that covers the batch is chosen before its first chunk, and    *)
(* only completions clear it; so chunks in flight stay covered.            *)
(***************************************************************************)
LEMMA BucketStep ==
  ASSUME IInv, BucketInv, [Next]_vars
  PROVE  BucketInv'
<1>0. /\ TypeOK /\ BatchLifecycle /\ SlotConservation /\ Threads = {"worker", "engine"}
      /\ \A t \in Threads : KnowsItsBatch(t)
  BY DEF IInv, BatchLifecycle, Threads
<1> USE DEF Goto
<1>1. ASSUME NEW t \in Threads, Completion(t) PROVE BucketInv'
  <2>1. UNCHANGED <<bound, need, chosen_ccl>>
    BY <1>1 DEF Completion, GetOutput, DrainTest, PopPending, PopTimeout, WaitCompletion,
                WaitFails, ClearCcl, FinishOutput, session, model, outputs
  <2>2. \A b \in Batches : out'[b] = "building" => out[b] = "building"
    BY <1>0, <1>1 DEF Completion, GetOutput, DrainTest, PopPending, PopTimeout,
                WaitCompletion, WaitFails, ClearCcl, FinishOutput, outputs, TypeOK
  <2>3. \A b \in Batches : Pending(b)' \subseteq Pending(b)
    <3>1. CASE PopPending(t)
      <4>1. PICK c \in Batches : c = cur[t]
        BY <1>0, <3>1 DEF PopPending, KnowsItsBatch
      <4>2. /\ pendq[c] \in Seq(Slots) /\ pendq[c] # <<>> /\ pendq'[c] = Tail(pendq[c])
            /\ \A b \in Batches : b # c => pendq'[b] = pendq[b]
        BY <1>0, <3>1, <4>1 DEF PopPending, TypeOK
      <4> QED  BY <4>2, PopToSet DEF Pending
    <3>2. CASE pendq' = pendq
      BY <3>2 DEF Pending
    <3> QED  BY <1>1, <3>1, <3>2 DEF Completion, GetOutput, DrainTest, PopTimeout,
                WaitCompletion, WaitFails, ClearCcl, FinishOutput, outputs
  <2>4. pc'["worker"] = "record" => pc["worker"] = "record" /\ idx'["worker"] = idx["worker"]
    BY <1>0, <1>1 DEF Completion, GetOutput, DrainTest, PopPending, PopTimeout,
                WaitCompletion, WaitFails, ClearCcl, FinishOutput, TypeOK
  <2> QED  BY <2>1, <2>2, <2>3, <2>4, CoversKept
<1>2. CASE TakeSlot
  <2>1. /\ pool \in Seq(Slots) /\ pool # <<>> /\ bound \in [Slots -> Buckets \cup {0}]
        /\ bound' = [bound EXCEPT ![Head(pool)] = chosen_ccl]
        /\ UNCHANGED <<need, chosen_ccl, out, pendq>>
        /\ idx'["worker"] = Head(pool)
    BY <1>0, <1>2 DEF TakeSlot, TypeOK, model, outputs
  <2>2. Head(pool) \in Slots /\ \A b \in Batches : Head(pool) \notin Pending(b)
    BY <1>0, <2>1, PopToSet DEF SlotConservation, Apart, Pooled
  <2>3. ChosenCovers'
    BY <2>1 DEF BucketInv, ChosenCovers, Covers
  <2>4. HandIsBound'
    BY <2>1, <2>2 DEF HandIsBound
  <2>5. \A b \in Batches : \A s \in Pending(b) : bound'[s] = bound[s]
    BY <1>0, <2>1, <2>2 DEF Pending, TypeOK
  <2>6. BucketCoversPrompt'
    BY <2>1, <2>5 DEF BucketInv, BucketCoversPrompt, Pending
  <2> QED  BY <2>3, <2>4, <2>6 DEF BucketInv
<1>3. CASE RecordChunk
  <2>1. PICK b \in Batches, s \in Slots : b = cur["worker"] /\ s = idx["worker"]
    BY <1>0, <1>3 DEF RecordChunk, KnowsItsBatch, TypeOK
  <2>2. /\ UNCHANGED <<need, chosen_ccl, out, bound>> /\ pc'["worker"] = "chunk"
        /\ pendq[b] \in Seq(Slots) /\ pendq'[b] = Append(pendq[b], s)
        /\ \A c \in Batches : c # b => pendq'[c] = pendq[c]
        /\ bound[s] = chosen_ccl /\ out[b] = "building"
    BY <1>0, <1>3, <2>1 DEF RecordChunk, TypeOK, KnowsItsBatch, session, BucketInv, HandIsBound
  <2>3. Pending(b)' = Pending(b) \cup {s} /\ \A c \in Batches : c # b => Pending(c)' = Pending(c)
    BY <2>2, AppendToSet DEF Pending
  <2>4. BucketCoversPrompt'
    BY <2>2, <2>3 DEF BucketInv, BucketCoversPrompt, ChosenCovers, Covers
  <2>5. ChosenCovers' /\ HandIsBound'
    BY <2>2 DEF BucketInv, ChosenCovers, HandIsBound, Covers
  <2> QED  BY <2>4, <2>5 DEF BucketInv
<1>4. ASSUME NEW b \in Batches, ChooseBucket(b) PROVE BucketInv'
  <2>1. PICK c \in Buckets : ChosenCcl(job.pos, c) /\ chosen_ccl' = c
    BY <1>4 DEF ChooseBucket
  <2>2. \A d \in Batches : out[d] # "building"
    BY <1>0, <1>4 DEF ChooseBucket, BatchLifecycle, BuildingIsTheWorkers, BuildingLabels
  <2>3. /\ UNCHANGED bound /\ pc'["worker"] = "chunk" /\ need'[b] = job.pos
        /\ Pending(b)' = {}
        /\ \A d \in Batches \ {b} : out'[d] = out[d] /\ need'[d] = need[d]
                                    /\ Pending(d)' = Pending(d)
    BY <1>0, <1>4 DEF ChooseBucket, TypeOK, session, Pending, ToSet
  <2>4. job.pos < c \/ \A d \in Buckets : d <= c
    BY <2>1 DEF ChosenCcl
  <2>5. ChosenCovers'
    BY <2>1, <2>2, <2>3, <2>4 DEF ChosenCovers, Covers
  <2>6. BucketCoversPrompt' /\ HandIsBound'
    BY <2>3 DEF BucketInv, BucketCoversPrompt, HandIsBound
  <2> QED  BY <2>5, <2>6 DEF BucketInv
<1>5. CASE \/ WorkerReturn \/ NoForward \/ NextChunk \/ EnqueueFails
           \/ SampleTokens \/ SampleTokensSync
  <2>1. UNCHANGED <<bound, need, chosen_ccl, pendq>> /\ pc'["worker"] # "record"
    BY <1>0, <1>5 DEF WorkerReturn, NoForward, NextChunk, EnqueueFails, SampleTokens,
                      SampleTokensSync, session, model, outputs, TypeOK
  <2>2. \A b \in Batches : out'[b] = "building" => out[b] = "building"
    BY <1>0, <1>5 DEF WorkerReturn, NoForward, NextChunk, EnqueueFails, SampleTokens,
                      SampleTokensSync, outputs, TypeOK
  <2> QED  BY <2>1, <2>2, CoversKept DEF Pending
<1>6. CASE \/ Schedule \/ EngineCollect \/ EngineReturn
           \/ (\E s \in Slots : DeviceFinish(s)) \/ UNCHANGED vars
  <2>1. UNCHANGED <<bound, need, chosen_ccl, pendq, out, idx>>
    BY <1>6 DEF Schedule, StartExecute, EngineCollect, EngineReturn, DeviceFinish, vars,
                session, model, outputs
  <2>2. pc'["worker"] = "record" => pc["worker"] = "record"
    BY <1>0, <1>6 DEF Schedule, StartExecute, EngineCollect, EngineReturn, DeviceFinish,
                      vars, TypeOK
  <2> QED  BY <2>1, <2>2, CoversKept DEF Pending
<1> QED
  BY <1>0, <1>1, <1>2, <1>3, <1>4, <1>5, <1>6 DEF Next, Worker, Engine, Submit

(***************************************************************************)
(* Buckets cover their prompts in every state, with and without an output  *)
(* thread.                                                                 *)
(***************************************************************************)
LEMMA BucketInvariance == Spec => []BucketInv
<1>1. Init => BucketInv
  BY DEF Init, BucketInv, ChosenCovers, HandIsBound, BucketCoversPrompt, Pending, ToSet, Threads
<1>2. IInv /\ BucketInv /\ [Next]_vars => BucketInv'
  BY BucketStep
<1> QED  BY <1>1, <1>2, Invariance, PTL DEF Spec

(***************************************************************************)
(* Whatever is in flight when the bucket of a batch is chosen, it covers   *)
(* the longest prompt of the batch, or is the largest there is.            *)
(***************************************************************************)
THEOREM BucketSuffices == Spec => []BucketCoversPrompt
BY BucketInvariance, PTL DEF BucketInv

-----------------------------------------------------------------------------
(***************************************************************************)
(* An engine without a thread of its own: at any moment at most one of the *)
(* two is inside a call.                                                   *)
(***************************************************************************)
OneAtATime == \A t, u \in Threads : t # u => pc[t] = "idle" \/ pc[u] = "idle"

(* The slot whose bucket is about to be cleared was not taken again.       *)
ClearedIsPooled == \A t \in Threads : pc[t] = "clear" => idx[t] \in Pooled

(* The worker completes chunks of its own batch, or of the latest output.  *)
WorkerDrainsLatest ==
  /\ pc["worker"] \in {"get_output", "drain", "get", "wait", "clear", "finish", "return"}
       => out[cur["worker"]] = "building" \/ cur["worker"] = pending_out
  /\ pending_out # None => Async

(* An empty pool and no slot in anybody's hands: the batch being submitted *)
(* has chunks of its own to complete, or else the latest output has.       *)
HandBusy == \E t \in Threads : pc[t] \in {"wait", "record", "raised_holding"}

SomethingToDrain ==
  pool = <<>> /\ ~HandBusy =>
    \/ \E b \in Batches : out[b] = "building" /\ pendq[b] # <<>>
    \/ /\ \A b \in Batches : out[b] # "building"
       /\ pending_out # None /\ pendq[pending_out] # <<>>

ReadyToTake == pc["worker"] \in {"prepare", "take"} => pool # <<>>

SeqInv ==
  /\ OneAtATime /\ ClearedIsPooled
  /\ WorkerDrainsLatest /\ SomethingToDrain /\ ReadyToTake /\ NoStall

(* What is known before a step of the sequential pipeline.                 *)
Before == ~Threaded /\ IInv /\ SeqInv

(***************************************************************************)
(* The parts of what is known before a step.                               *)
(***************************************************************************)
LEMMA BeforeFacts ==
  ASSUME Before
  PROVE  /\ TypeOK /\ BatchLifecycle /\ SlotConservation
         /\ Threads = {"worker", "engine"} /\ \A t \in Threads : KnowsItsBatch(t)
         /\ OneAtATime
BY DEF Before, IInv, BatchLifecycle, Threads, SeqInv

(***************************************************************************)
(* While one of the two is inside a call, the other does not move.         *)
(***************************************************************************)
LEMMA OtherIsIdle ==
  ASSUME Before, NEW t \in Threads, NEW u \in Threads, t # u, pc[t] # "idle"
  PROVE  pc[u] = "idle"
BY BeforeFacts DEF OneAtATime

(***************************************************************************)
(* A thread enters a call only while the other is outside.                 *)
(***************************************************************************)
LEMMA OneAtATimeStep ==
  ASSUME Before, [Next]_vars
  PROVE  OneAtATime'
<1> USE BeforeFacts DEF OneAtATime, Goto
<1>0. TypeOK /\ Threads = {"worker", "engine"} /\ ~Threaded
  BY DEF Before
<1>1. ASSUME NEW t \in Threads, \/ pc[t] # "idle"
                                \/ \A u \in Threads : pc[u] = "idle",
             \A u \in Threads : u # t => pc'[u] = pc[u]
      PROVE  OneAtATime'
  BY <1>0, <1>1
<1>2. ASSUME NEW t \in Threads, Completion(t) PROVE OneAtATime'
  BY <1>0, <1>1, <1>2
  DEF Completion, GetOutput, DrainTest, PopPending, PopTimeout, WaitCompletion, WaitFails,
      ClearCcl, FinishOutput, TypeOK
<1>3. CASE Submit
  BY <1>0, <1>1, <1>3
  DEF Submit, WorkerReturn, NoForward, NextChunk, TakeSlot, EnqueueFails, RecordChunk,
      SampleTokens, SampleTokensSync, ChooseBucket, TypeOK
<1>4. CASE Schedule
  BY <1>0, <1>1, <1>4 DEF Schedule, StartExecute, MayStart, TypeOK
<1>5. CASE EngineCollect \/ EngineReturn
  BY <1>0, <1>1, <1>5 DEF EngineCollect, EngineReturn, MayStart, TypeOK
<1>6. CASE (\E s \in Slots : DeviceFinish(s)) \/ UNCHANGED vars
  BY <1>6 DEF DeviceFinish, vars
<1> QED
  BY <1>0, <1>2, <1>3, <1>4, <1>5, <1>6 DEF Next, Worker, Engine

(***************************************************************************)
(* A step taken while a thread is inside a call is a step of that thread,  *)
(* or the device finishing a chunk.                                        *)
(***************************************************************************)
LEMMA OnlyItMoves ==
  ASSUME Before, [Next]_vars, NEW t \in Threads, pc[t] # "idle"
  PROVE  \/ Completion(t)
         \/ t = "worker" /\ Submit
         \/ t = "engine" /\ EngineReturn
         \/ \E s \in Slots : DeviceFinish(s)
         \/ UNCHANGED vars
<1>0. Threads = {"worker", "engine"} /\ ~Threaded
  BY BeforeFacts DEF Before
<1>1. ASSUME NEW u \in Threads, u # t PROVE pc[u] = "idle"
  BY <1>1, OtherIsIdle
<1>2. ~Schedule /\ ~EngineCollect
  BY <1>0 DEF Schedule, StartExecute, EngineCollect, MayStart
<1>3. ASSUME NEW u \in Threads, u # t PROVE ~Completion(u)
  BY <1>1, <1>3
  DEF Completion, GetOutput, DrainTest, PopPending, PopTimeout, WaitCompletion, WaitFails,
      ClearCcl, FinishOutput
<1>4. t # "worker" => ~Submit
  BY <1>0, <1>1
  DEF Submit, WorkerReturn, NoForward, NextChunk, TakeSlot, EnqueueFails, RecordChunk,
      SampleTokens, SampleTokensSync, ChooseBucket
<1>5. t # "engine" => ~EngineReturn
  BY <1>0, <1>1 DEF EngineReturn
<1> QED
  BY <1>0, <1>2, <1>3, <1>4, <1>5 DEF Next, Worker, Engine

(***************************************************************************)
(* The slot being cleared stays in the pool: only the worker takes, and it *)
(* is not taking while either thread clears.                               *)
(***************************************************************************)
LEMMA ClearedStep ==
  ASSUME Before, [Next]_vars
  PROVE  ClearedIsPooled'
<1> SUFFICES ASSUME NEW t \in Threads, pc'[t] = "clear"
             PROVE  idx'[t] \in Pooled'
  BY BeforeFacts DEF ClearedIsPooled, Threads
<1>0. TypeOK /\ ClearedIsPooled /\ Threads = {"worker", "engine"}
  BY BeforeFacts DEF Before, SeqInv
<1> USE DEF Goto
<1>1. CASE WaitCompletion(t)
  <2>1. PICK s \in Slots : s = idx[t]
    BY <1>0, <1>1 DEF WaitCompletion, TypeOK
  <2>2. pool \in Seq(Slots) /\ pool' = Append(pool, s) /\ idx'[t] = s
    BY <1>0, <1>1, <2>1 DEF WaitCompletion, TypeOK
  <2> QED  BY <2>2, AppendToSet DEF Pooled
<1>2. pc[t] # "clear" => WaitCompletion(t)
  <2>1. CASE pc[t] # "idle"
    BY <1>0, <2>1, OnlyItMoves
    DEF Completion, GetOutput, DrainTest, PopPending, PopTimeout, WaitFails, ClearCcl,
        FinishOutput, Submit, WorkerReturn, NoForward, NextChunk, TakeSlot, EnqueueFails,
        RecordChunk, SampleTokens, SampleTokensSync, ChooseBucket, EngineReturn,
        DeviceFinish, vars, TypeOK
  <2>2. CASE pc[t] = "idle"
    <3>1. ~Completion(t) /\ (t = "worker" => ~Submit) /\ (t = "engine" => ~EngineReturn)
      BY <2>2
      DEF Completion, GetOutput, DrainTest, PopPending, PopTimeout, WaitCompletion,
          WaitFails, ClearCcl, FinishOutput, Submit, WorkerReturn, NoForward, NextChunk,
          TakeSlot, EnqueueFails, RecordChunk, SampleTokens, SampleTokensSync,
          ChooseBucket, EngineReturn
    <3>2. ASSUME NEW u \in Threads, u # t, Completion(u) PROVE pc'[t] = "idle"
      BY <1>0, <2>2, <3>2
      DEF Completion, GetOutput, DrainTest, PopPending, PopTimeout, WaitCompletion,
          WaitFails, ClearCcl, FinishOutput, TypeOK
    <3>2a. t = "engine" /\ Submit => pc'[t] = "idle"
      BY <1>0, <2>2
      DEF Submit, WorkerReturn, NoForward, NextChunk, TakeSlot, EnqueueFails, RecordChunk,
          SampleTokens, SampleTokensSync, ChooseBucket, TypeOK
    <3>2b. t = "worker" /\ EngineReturn => pc'[t] = "idle"
      BY <1>0, <2>2 DEF EngineReturn, TypeOK
    <3>3. Schedule \/ EngineCollect => pc'[t] # "clear"
      BY <1>0, <2>2 DEF Schedule, StartExecute, EngineCollect, MayStart, TypeOK
    <3>4. (\E s \in Slots : DeviceFinish(s)) \/ UNCHANGED vars => pc'[t] = "idle"
      BY <2>2 DEF DeviceFinish, vars
    <3>5. ~Worker /\ ~EngineReturn /\ ~Completion("engine")
      BY <1>0, <3>1, <3>2, <3>2a, <3>2b DEF Worker
    <3> QED  BY <3>3, <3>4, <3>5 DEF Next, Engine
  <2> QED  BY <2>1, <2>2
<1>3. CASE pc[t] = "clear"
  <2>1. (\E s \in Slots : DeviceFinish(s)) \/ UNCHANGED vars
    BY <1>0, <1>3, OnlyItMoves
    DEF Completion, GetOutput, DrainTest, PopPending, PopTimeout, WaitCompletion, WaitFails,
        ClearCcl, FinishOutput, Submit, WorkerReturn, NoForward, NextChunk, TakeSlot,
        EnqueueFails, RecordChunk, SampleTokens, SampleTokensSync, ChooseBucket,
        EngineReturn, TypeOK
  <2>2. UNCHANGED <<pool, idx>>
    BY <2>1 DEF DeviceFinish, vars, session
  <2> QED  BY <1>0, <1>3, <2>2 DEF ClearedIsPooled, Pooled
<1> QED  BY <1>1, <1>2, <1>3

(***************************************************************************)
(* Only a batch that is being submitted, or the latest output, is drained  *)
(* by the worker: pending_out changes when the worker leaves a call, cur   *)
(* when it enters one.                                                     *)
(***************************************************************************)
LEMMA DrainsLatestStep ==
  ASSUME Before, [Next]_vars
  PROVE  WorkerDrainsLatest'
<1>0. /\ TypeOK /\ Threads = {"worker", "engine"} /\ WorkerDrainsLatest
      /\ \A t \in Threads : KnowsItsBatch(t)
  BY BeforeFacts DEF Before, SeqInv
<1> DEFINE Draining == {"get_output", "drain", "get", "wait", "clear", "finish", "return"}
<1> USE DEF Goto
<1>1. (pending_out # None => Async)'
  BY <1>0
  DEF Next, Worker, Engine, Completion, GetOutput, DrainTest, PopPending, PopTimeout,
      WaitCompletion, WaitFails, ClearCcl, FinishOutput, Submit, WorkerReturn, NoForward,
      NextChunk, TakeSlot, EnqueueFails, RecordChunk, SampleTokens, SampleTokensSync,
      ChooseBucket, Schedule, StartExecute, EngineCollect, EngineReturn, DeviceFinish,
      vars, runner, WorkerDrainsLatest
<1>2. ASSUME pc'["worker"] \in Draining
      PROVE  out'[cur'["worker"]] = "building" \/ cur'["worker"] = pending_out'
  <2>1. CASE Completion("worker")
    <3>1. UNCHANGED <<cur, pending_out>> /\ pc["worker"] \in Draining
      BY <1>0, <2>1
      DEF Completion, GetOutput, DrainTest, PopPending, PopTimeout, WaitCompletion,
          WaitFails, ClearCcl, FinishOutput, runner, TypeOK
    <3>2. out' = out \/ FinishOutput("worker")
      BY <2>1
      DEF Completion, GetOutput, DrainTest, PopPending, PopTimeout, WaitCompletion,
          WaitFails, ClearCcl, outputs
    <3>3. FinishOutput("worker") => out[cur["worker"]] # "building"
      BY <1>0 DEF FinishOutput, KnowsItsBatch
    <3> QED  BY <1>0, <3>1, <3>2, <3>3 DEF WorkerDrainsLatest
  <2>2. CASE Submit
    <3>1. NextChunk
      BY <1>0, <1>2, <2>2
      DEF Submit, WorkerReturn, NoForward, TakeSlot, EnqueueFails, RecordChunk,
          SampleTokens, SampleTokensSync, ChooseBucket, TypeOK
    <3> QED  BY <1>0, <3>1 DEF NextChunk, KnowsItsBatch, outputs
  <2>3. CASE Schedule
    BY <1>0, <1>2, <2>3 DEF Schedule, StartExecute, MayStart, TypeOK
  <2>4. CASE Completion("engine") \/ EngineCollect \/ EngineReturn
    <3>1. pc["engine"] # "idle" \/ EngineCollect
      BY <2>4
      DEF Completion, GetOutput, DrainTest, PopPending, PopTimeout, WaitCompletion,
          WaitFails, ClearCcl, FinishOutput, EngineReturn
    <3>2. pc["worker"] = "idle"
      BY <1>0, <3>1, OtherIsIdle DEF EngineCollect, MayStart, Before
    <3>3. pc'["worker"] = pc["worker"]
      BY <1>0, <2>4
      DEF Completion, GetOutput, DrainTest, PopPending, PopTimeout, WaitCompletion,
          WaitFails, ClearCcl, FinishOutput, EngineCollect, EngineReturn, TypeOK
    <3> QED  BY <1>2, <3>2, <3>3
  <2>5. CASE (\E s \in Slots : DeviceFinish(s)) \/ UNCHANGED vars
    BY <1>0, <1>2, <2>5 DEF DeviceFinish, vars, outputs, runner, WorkerDrainsLatest
  <2> QED  BY <2>1, <2>2, <2>3, <2>4, <2>5 DEF Next, Worker, Engine
<1> QED  BY <1>1, <1>2 DEF WorkerDrainsLatest

(***************************************************************************)
(* With the pool empty and no batch being submitted, the latest output has *)
(* a chunk for the worker to complete; while one is being submitted, it    *)
(* has one of its own.                                                     *)
(***************************************************************************)
LEMMA EmptyPool ==
  ASSUME Before, pool = <<>>, pc["worker"] \in {"idle", "return", "chunk", "sample"},
         pc["engine"] = "idle"
  PROVE  IF pc["worker"] \in {"chunk", "sample"}
         THEN pendq[cur["worker"]] # <<>>
         ELSE /\ pending_out # None /\ Async /\ pendq[pending_out] # <<>>
              /\ out[pending_out] # "done"
<1>0. /\ TypeOK /\ Threads = {"worker", "engine"} /\ WorkerDrainsLatest
      /\ BuildingIsTheWorkers /\ ChunksHaveABatch /\ KnowsItsBatch("worker")
      /\ SomethingToDrain
  BY BeforeFacts DEF Before, SeqInv, BatchLifecycle
<1>1. ~HandBusy
  BY <1>0 DEF HandBusy
<1>2. CASE pc["worker"] \in {"chunk", "sample"}
  <2>1. PICK b \in Batches : b = cur["worker"] /\ out[b] = "building"
    BY <1>0, <1>2 DEF KnowsItsBatch
  <2>2. \A c \in Batches : out[c] = "building" => c = b
    BY <1>0, <2>1 DEF BuildingIsTheWorkers
  <2> QED  BY <1>0, <1>1, <1>2, <2>1, <2>2 DEF SomethingToDrain
<1>3. CASE pc["worker"] \in {"idle", "return"}
  <2>1. \A c \in Batches : out[c] # "building"
    BY <1>0, <1>3 DEF BuildingIsTheWorkers, BuildingLabels
  <2>2. pending_out # None /\ pendq[pending_out] # <<>> /\ pending_out \in Batches
    BY <1>0, <1>1, <2>1 DEF SomethingToDrain, TypeOK
  <2> QED  BY <1>0, <1>3, <2>1, <2>2 DEF WorkerDrainsLatest, ChunksHaveABatch
<1> QED  BY <1>2, <1>3

(***************************************************************************)
(* The worker goes on to take a slot only when it has seen one in the      *)
(* pool, and nobody else takes it meanwhile.                               *)
(***************************************************************************)
LEMMA ReadyStep ==
  ASSUME Before, [Next]_vars
  PROVE  ReadyToTake'
<1> SUFFICES ASSUME pc'["worker"] \in {"prepare", "take"} PROVE pool' # <<>>
  BY DEF ReadyToTake
<1>0. /\ TypeOK /\ Threads = {"worker", "engine"} /\ WorkerDrainsLatest /\ ReadyToTake
      /\ KnowsItsBatch("worker") /\ ClearedIsPooled /\ BuildingIsTheWorkers /\ ~Threaded
  BY BeforeFacts DEF Before, SeqInv, BatchLifecycle
<1> USE DEF Goto
<1>1. CASE Schedule
  <2>1. /\ pc["worker"] = "idle" /\ pc["engine"] = "idle" /\ pool' = pool
        /\ ~(Async /\ pending_out # None /\ pool = <<>>)
    BY <1>0, <1>1 DEF Schedule, StartExecute, MayStart, session, TypeOK
  <2> QED  BY <2>1, EmptyPool
<1>2. CASE WorkerReturn
  <2>1. /\ pc["worker"] = "return" /\ out[cur["worker"]] = "done" /\ pool' = pool
        /\ cur["worker"] = pending_out
    BY <1>0, <1>2 DEF WorkerReturn, KnowsItsBatch, WorkerDrainsLatest, session
  <2>2. pc["engine"] = "idle"
    BY <1>0, <2>1, OtherIsIdle
  <2> QED  BY <2>1, <2>2, EmptyPool
<1>3. CASE NextChunk
  BY <1>0, <1>3 DEF NextChunk, session, TypeOK
<1>4. CASE Submit /\ ~WorkerReturn /\ ~NextChunk
  BY <1>0, <1>4
  DEF Submit, NoForward, TakeSlot, EnqueueFails, RecordChunk, SampleTokens,
      SampleTokensSync, ChooseBucket, TypeOK
<1>5. CASE Completion("worker")
  <2>1. ClearCcl("worker")
    BY <1>0, <1>5
    DEF Completion, GetOutput, DrainTest, PopPending, PopTimeout, WaitCompletion, WaitFails,
        FinishOutput, TypeOK
  <2> QED  BY <1>0, <2>1 DEF ClearCcl, ClearedIsPooled, Pooled, ToSet, session
<1>6. CASE Engine
  <2>1. pc["engine"] # "idle" \/ EngineCollect
    BY <1>6
    DEF Engine, Completion, GetOutput, DrainTest, PopPending, PopTimeout, WaitCompletion,
        WaitFails, ClearCcl, FinishOutput, EngineReturn
  <2>2. pc["worker"] = "idle"
    BY <1>0, <2>1, OtherIsIdle DEF EngineCollect, MayStart
  <2>3. pc'["worker"] = pc["worker"]
    BY <1>0, <1>6
    DEF Engine, Completion, GetOutput, DrainTest, PopPending, PopTimeout, WaitCompletion,
        WaitFails, ClearCcl, FinishOutput, EngineCollect, EngineReturn, TypeOK
  <2> QED  BY <2>2, <2>3
<1>7. CASE (\E s \in Slots : DeviceFinish(s)) \/ UNCHANGED vars
  BY <1>0, <1>7 DEF DeviceFinish, vars, session, ReadyToTake
<1> QED  BY <1>1, <1>2, <1>3, <1>4, <1>5, <1>6, <1>7 DEF Next, Worker

(***************************************************************************)
(* A get on an empty pool or on an empty queue does not happen while one   *)
(* thread moves at a time.                                                 *)
(***************************************************************************)
LEMMA StallStep ==
  ASSUME Before, [Next]_vars
  PROVE  NoStall'
<1>0. /\ TypeOK /\ Threads = {"worker", "engine"} /\ NoStall
  BY BeforeFacts DEF Before, SeqInv
<1> USE DEF Goto
<1>1. ASSUME NEW t \in Threads, pc'[t] = "get" PROVE pendq'[cur'[t]] # <<>>
  <2>1. CASE Completion(t)
    BY <1>0, <1>1, <2>1
    DEF Completion, GetOutput, DrainTest, PopPending, PopTimeout, WaitCompletion, WaitFails,
        ClearCcl, FinishOutput, TypeOK, outputs
  <2>2. CASE t = "worker" /\ Submit
    <3>1. NextChunk
      BY <1>0, <1>1, <2>2
      DEF Submit, WorkerReturn, NoForward, TakeSlot, EnqueueFails, RecordChunk,
          SampleTokens, SampleTokensSync, ChooseBucket, TypeOK
    <3>2. pc["engine"] = "idle" /\ pool = <<>>
      BY <1>0, <1>1, <2>2, <3>1, OtherIsIdle DEF NextChunk, TypeOK
    <3>3. pendq[cur["worker"]] # <<>>
      BY <3>1, <3>2, EmptyPool DEF NextChunk
    <3> QED  BY <2>2, <3>1, <3>3 DEF NextChunk, outputs
  <2>3. CASE t = "engine" /\ EngineReturn
    BY <1>0, <1>1, <2>3 DEF EngineReturn, TypeOK
  <2>4. CASE (\E s \in Slots : DeviceFinish(s)) \/ UNCHANGED vars
    BY <1>0, <1>1, <2>4 DEF DeviceFinish, vars, outputs, NoStall
  <2>5. pc[t] # "idle"
    <3> SUFFICES ASSUME pc[t] = "idle" PROVE FALSE
      OBVIOUS
    <3>1. ASSUME NEW u \in Threads, Completion(u) PROVE FALSE
      BY <1>0, <1>1, <3>1
      DEF Completion, GetOutput, DrainTest, PopPending, PopTimeout, WaitCompletion,
          WaitFails, ClearCcl, FinishOutput, TypeOK
    <3>2. ~Submit /\ ~EngineReturn
      BY <1>0, <1>1
      DEF Submit, WorkerReturn, NoForward, NextChunk, TakeSlot, EnqueueFails, RecordChunk,
          SampleTokens, SampleTokensSync, ChooseBucket, EngineReturn, TypeOK
    <3>3. ~Schedule /\ ~EngineCollect
      BY <1>0, <1>1 DEF Schedule, StartExecute, EngineCollect, MayStart, TypeOK
    <3>4. ~(\E s \in Slots : DeviceFinish(s)) /\ ~UNCHANGED vars
      BY <1>1 DEF DeviceFinish, vars
    <3> QED  BY <1>0, <3>1, <3>2, <3>3, <3>4 DEF Next, Worker, Engine
  <2> QED  BY <2>1, <2>2, <2>3, <2>4, <2>5, OnlyItMoves
<1>2. (pc["worker"] = "take" => pool # <<>>)'
  BY ReadyStep DEF ReadyToTake
<1> QED  BY <1>1, <1>2 DEF NoStall, Threads

(***************************************************************************)
(* A step that leaves the pool, the pending queues and the outputs alone   *)
(* and ends no completion.                                                 *)
(***************************************************************************)
LEMMA DrainKept ==
  ASSUME SomethingToDrain, UNCHANGED <<pool, pendq, out, pending_out>>,
         \A t \in Threads : pc[t] \in {"wait", "record", "raised_holding"} => pc'[t] = pc[t]
  PROVE  SomethingToDrain'
<1>1. HandBusy => HandBusy'
  BY DEF HandBusy
<1> QED  BY <1>1 DEF SomethingToDrain

(***************************************************************************)
(* An empty pool leaves something to drain: what is not in the pool is     *)
(* pending on the batch being submitted or on the latest output.           *)
(***************************************************************************)
LEMMA SomethingStep ==
  ASSUME Before, [Next]_vars
  PROVE  SomethingToDrain'
<1>0. /\ TypeOK /\ Threads = {"worker", "engine"} /\ SomethingToDrain /\ ReadyToTake
      /\ BuildingIsTheWorkers /\ ClearedIsPooled /\ \A t \in Threads : KnowsItsBatch(t)
  BY BeforeFacts DEF Before, SeqInv, BatchLifecycle
<1> USE DEF Goto
<1>1. ASSUME NEW t \in Threads,
             PopPending(t) \/ WaitFails(t) \/ (t = "worker" /\ (TakeSlot \/ EnqueueFails))
      PROVE  SomethingToDrain'
  <2>1. HandBusy'
    BY <1>0, <1>1 DEF PopPending, WaitFails, TakeSlot, EnqueueFails, HandBusy, TypeOK
  <2> QED  BY <2>1 DEF SomethingToDrain
<1>2. ASSUME NEW t \in Threads, WaitCompletion(t) \/ ClearCcl(t) PROVE SomethingToDrain'
  <2>1. CASE WaitCompletion(t)
    <3>1. PICK s \in Slots : s = idx[t]
      BY <1>0, <2>1 DEF WaitCompletion, TypeOK
    <3>2. pool \in Seq(Slots) /\ pool' = Append(pool, s)
      BY <1>0, <2>1, <3>1 DEF WaitCompletion, TypeOK
    <3>3. s \in ToSet(pool')
      BY <3>2, AppendToSet
    <3>4. pool' # <<>>
      BY <3>3 DEF ToSet
    <3> QED  BY <3>4 DEF SomethingToDrain
  <2>2. CASE ClearCcl(t)
    BY <1>0, <2>2 DEF ClearCcl, ClearedIsPooled, Pooled, ToSet, session, SomethingToDrain
  <2> QED  BY <1>2, <2>1, <2>2
<1>3. CASE RecordChunk
  <2>1. PICK b \in Batches, s \in Slots : b = cur["worker"] /\ s = idx["worker"]
    BY <1>0, <1>3 DEF RecordChunk, KnowsItsBatch, TypeOK
  <2>2. out'[b] = "building" /\ pendq[b] \in Seq(Slots) /\ pendq'[b] = Append(pendq[b], s)
    BY <1>0, <1>3, <2>1 DEF RecordChunk, KnowsItsBatch, TypeOK
  <2> QED  BY <2>2 DEF SomethingToDrain
<1>4. CASE SampleTokens
  <2>1. PICK b \in Batches : b = cur["worker"]
    BY <1>0, <1>4 DEF SampleTokens, KnowsItsBatch
  <2>2. /\ \A c \in Batches : out[c] = "building" => c = b
        /\ pending_out' = b /\ b # None /\ UNCHANGED <<pool, pendq>>
        /\ \A c \in Batches : out'[c] = IF c = b THEN "built" ELSE out[c]
    BY <1>0, <1>4, <2>1, BatchesAssumption
    DEF SampleTokens, BuildingIsTheWorkers, TypeOK, session
  <2>3. pool = <<>> => pendq[b] # <<>>
    BY <1>0, <1>4, <2>1, EmptyPool, OtherIsIdle DEF SampleTokens
  <2> QED  BY <2>2, <2>3 DEF SomethingToDrain
<1>5. CASE SampleTokensSync
  <2>1. pool # <<>>
    BY <1>0, <1>5, EmptyPool, OtherIsIdle DEF SampleTokensSync, KnowsItsBatch
  <2> QED  BY <1>5, <2>1 DEF SampleTokensSync, session, SomethingToDrain
<1>6. ASSUME NEW b \in Batches, ChooseBucket(b) PROVE SomethingToDrain'
  BY <1>0, <1>6 DEF ChooseBucket, session, ReadyToTake, SomethingToDrain
<1>7. ASSUME NEW t \in Threads, FinishOutput(t) PROVE SomethingToDrain'
  <2>1. PICK b \in Batches : b = cur[t]
    BY <1>0, <1>7 DEF FinishOutput, KnowsItsBatch
  <2>2. /\ UNCHANGED <<pool, pendq, pending_out>> /\ out[b] # "building" /\ pendq[b] = <<>>
        /\ \A c \in Batches : out'[c] = IF c = b THEN "done" ELSE out[c]
    BY <1>0, <1>7, <2>1 DEF FinishOutput, KnowsItsBatch, session, runner, TypeOK
  <2>3. HandBusy => HandBusy'
    BY <1>0, <1>7 DEF FinishOutput, HandBusy, TypeOK
  <2> QED  BY <1>0, <2>2, <2>3 DEF SomethingToDrain
<1>8. ASSUME NEW t \in Threads, GetOutput(t) \/ DrainTest(t) \/ PopTimeout(t)
      PROVE  SomethingToDrain'
  <2>1. /\ UNCHANGED <<pool, pendq, out, pending_out>>
        /\ \A u \in Threads : pc[u] \in {"wait", "record", "raised_holding"} => pc'[u] = pc[u]
    BY <1>0, <1>8 DEF GetOutput, DrainTest, PopTimeout, session, outputs, runner, TypeOK
  <2> QED  BY <1>0, <2>1, DrainKept
<1>9. CASE \/ WorkerReturn \/ NoForward \/ NextChunk \/ Schedule \/ EngineCollect
           \/ EngineReturn \/ (\E s \in Slots : DeviceFinish(s)) \/ UNCHANGED vars
  <2>1. UNCHANGED <<pool, pendq, out, pending_out>>
    BY <1>0, <1>9
    DEF WorkerReturn, NoForward, NextChunk, Schedule, StartExecute, EngineCollect,
        EngineReturn, DeviceFinish, vars, session, outputs, runner
  <2>2. \A u \in Threads : pc[u] \in {"wait", "record", "raised_holding"} => pc'[u] = pc[u]
    BY <1>0, <1>9
    DEF WorkerReturn, NoForward, NextChunk, Schedule, StartExecute, EngineCollect,
        EngineReturn, DeviceFinish, vars, MayStart, TypeOK
  <2> QED  BY <1>0, <2>1, <2>2, DrainKept
<1> QED
  BY <1>0, <1>1, <1>2, <1>3, <1>4, <1>5, <1>6, <1>7, <1>8, <1>9
  DEF Next, Worker, Engine, Completion, Submit

-----------------------------------------------------------------------------
(***************************************************************************)
(* The sequential invariant holds initially ...                            *)
(***************************************************************************)
LEMMA InitSeqInv ==
  ASSUME Init
  PROVE  SeqInv
<1>1. /\ \A t \in Threads : pc[t] = "idle"
      /\ \A b \in Batches : out[b] = "none" /\ saves[b] = 0 /\ Pending(b) = {}
      /\ \A s \in Slots : active_ccl[s] = 0
      /\ pending_out = None /\ pc["worker"] = "idle"
  BY DEF Init, Pending, ToSet, Threads
<1>1a. Pooled = Slots
  BY InitialPool DEF Init
<1>2. pool # <<>>
  <2>1. 0 \in Slots
    BY SlotsAssumption DEF Slots
  <2>2. 0 \in ToSet(pool)
    BY <1>1a, <2>1 DEF Pooled
  <2> QED  BY <2>2 DEF ToSet
<1>3. OneAtATime /\ ClearedIsPooled /\ NoStall
  BY <1>1 DEF OneAtATime, ClearedIsPooled, NoStall
<1>4. WorkerDrainsLatest /\ SomethingToDrain /\ ReadyToTake
  BY <1>1, <1>2 DEF WorkerDrainsLatest, SomethingToDrain, ReadyToTake
<1> QED  BY <1>3, <1>4 DEF SeqInv

(***************************************************************************)
(* ... and in every state the program can reach without an output thread.  *)
(***************************************************************************)
LEMMA SequentialInvariance == ~Threaded => (Spec => []SeqInv)
<1> SUFFICES ASSUME ~Threaded PROVE Spec => []SeqInv
  OBVIOUS
<1>1. Init => SeqInv
  BY InitSeqInv
<1>2. IInv /\ SeqInv /\ [Next]_vars => SeqInv'
  <2> SUFFICES ASSUME Before, [Next]_vars PROVE SeqInv'
    BY DEF Before
  <2> QED
    BY OneAtATimeStep, ClearedStep, DrainsLatestStep, SomethingStep, ReadyStep, StallStep
    DEF SeqInv
<1> QED  BY <1>1, <1>2, Invariance, PTL DEF Spec

(***************************************************************************)
(* No queue.Empty and no exhausted pool: with one thread at a time neither *)
(* timeout can expire, however many chunks a batch has and however few     *)
(* exec objects there are.                                                 *)
(***************************************************************************)
THEOREM NeverStalls == ~Threaded => (Spec => []NoStall)
<1> SUFFICES ASSUME ~Threaded PROVE Spec => []NoStall
  OBVIOUS
<1> QED  BY SequentialInvariance, PTL DEF SeqInv

-----------------------------------------------------------------------------
(***************************************************************************)
(* The buckets of the slots in flight, with and without an output thread.  *)
(* A slot the device executes is pending on a batch, or in the hands of a  *)
(* thread that waits for it or has just started it.                        *)
(***************************************************************************)
Recorded(s) == active_ccl[s] = bound[s] \/ Erased(s)

HandRecorded == \A t \in Threads : pc[t] = "wait" => Recorded(idx[t])

(* The slot lost to an error is not executing.                             *)
RaisedIsIdle == \A t \in Threads : pc[t] = "raised_holding" => idx[t] \notin running

(* The batch being submitted has a bucket at least as large as every one   *)
(* in flight that was not erased.                                          *)
FlightBelow == \A b \in Batches : out[b] = "building" =>
  \A r \in running : bound[r] <= chosen_ccl \/ Erased(r)

FlightInv == BucketsMirrorFlight /\ HandRecorded /\ RaisedIsIdle /\ FlightBelow

(* What is known before a step, in either deployment.                      *)
Known == IInv /\ PooledAreIdle /\ BucketInv /\ FlightInv /\ (~Threaded => SeqInv)

(***************************************************************************)
(* The parts of what is known before a step.                               *)
(***************************************************************************)
LEMMA KnownFacts ==
  ASSUME Known
  PROVE  /\ TypeOK /\ BatchLifecycle /\ SlotConservation /\ PooledAreIdle /\ BucketInv
         /\ BucketsMirrorFlight /\ HandRecorded /\ RaisedIsIdle /\ FlightBelow
         /\ Threads = {"worker", "engine"} /\ \A t \in Threads : KnowsItsBatch(t)
         /\ ~Threaded => OneAtATime /\ ClearedIsPooled
         /\ running \subseteq Slots /\ Pooled \subseteq Slots
         /\ \A b \in Batches : Pending(b) \subseteq Slots
BY DEF Known, IInv, BatchLifecycle, Threads, SeqInv, FlightInv, TypeOK, Pooled, Pending, ToSet

(***************************************************************************)
(* A step that records no bucket, starts no chunk and pools no slot.       *)
(***************************************************************************)
LEMMA FlightKept ==
  ASSUME FlightInv, UNCHANGED <<active_ccl, bound, chosen_ccl>>,
         running' \subseteq running, Pooled' \subseteq Pooled,
         \A b \in Batches : Pending(b)' \subseteq Pending(b),
         \A b \in Batches : out'[b] = "building" => out[b] = "building",
         \A t \in Threads : pc[t] = "clear" => pc'[t] = "clear" /\ idx'[t] = idx[t],
         \A t \in Threads : pc'[t] = "wait" => Recorded(idx'[t]),
         \A t \in Threads : pc'[t] = "raised_holding" => idx'[t] \notin running'
  PROVE  FlightInv'
<1>1. \A s : Recorded(s) => Recorded(s)'
  BY DEF Recorded, Erased
<1>2. BucketsMirrorFlight'
  <2>1. \A b \in Batches : \A s \in Pending(b)' : active_ccl'[s] = bound'[s] \/ Erased(s)'
    BY <1>1 DEF FlightInv, BucketsMirrorFlight, Recorded
  <2>2. \A s \in Pooled' : \/ active_ccl'[s] = 0
                           \/ \E t \in Threads : pc'[t] = "clear" /\ idx'[t] = s
    BY DEF FlightInv, BucketsMirrorFlight
  <2> QED  BY <2>1, <2>2 DEF BucketsMirrorFlight
<1>3. HandRecorded' /\ RaisedIsIdle'
  BY DEF HandRecorded, RaisedIsIdle, Recorded, Erased
<1>4. FlightBelow'
  BY DEF FlightInv, FlightBelow, Erased
<1> QED  BY <1>2, <1>3, <1>4 DEF FlightInv

(***************************************************************************)
(* Clearing erases the record of a chunk in flight only if the slot was    *)
(* taken again meanwhile, which needs a second thread.                     *)
(***************************************************************************)
LEMMA ClearStep ==
  ASSUME Known, NEW t \in Threads, ClearCcl(t)
  PROVE  FlightInv'
<1>0. /\ TypeOK /\ BatchLifecycle /\ SlotConservation /\ PooledAreIdle
      /\ BucketsMirrorFlight /\ HandRecorded /\ RaisedIsIdle /\ FlightBelow
      /\ ~Threaded => OneAtATime /\ ClearedIsPooled
      /\ running \subseteq Slots /\ Pooled \subseteq Slots
      /\ \A b \in Batches : Pending(b) \subseteq Slots
  BY KnownFacts
<1>1. PICK s \in Slots : s = idx[t]
  BY <1>0 DEF ClearCcl, TypeOK
<1>2. /\ UNCHANGED <<bound, pool, running, pendq, out, chosen_ccl>> /\ active_ccl'[s] = 0
      /\ \A r \in Slots : r # s => active_ccl'[r] = active_ccl[r]
      /\ pc[t] = "clear" /\ pc'[t] \in {"take", "drain"}
      /\ \A u \in Threads : u # t => pc'[u] = pc[u] /\ idx'[u] = idx[u]
  BY <1>0, <1>1 DEF ClearCcl, session, outputs, TypeOK, Goto
<1>3. ASSUME ~Threaded
      PROVE  /\ s \notin running /\ \A b \in Batches : s \notin Pending(b)
             /\ \A u \in Threads : u # t => pc[u] = "idle"
  BY <1>0, <1>1, <1>2, <1>3
  DEF ClearedIsPooled, OneAtATime, SlotConservation, Apart, PooledAreIdle
<1>4. ASSUME NEW r \in Slots, Recorded(r), r = s => Threaded
      PROVE  Recorded(r)'
  BY <1>2, <1>4 DEF Recorded, Erased
<1>5. BucketsMirrorFlight'
  <2>1. ASSUME NEW b \in Batches, NEW r \in Pending(b)
        PROVE  active_ccl'[r] = bound'[r] \/ Erased(r)'
    <3>1. r \in Slots /\ Recorded(r)
      BY <1>0, <2>1 DEF BucketsMirrorFlight, Recorded
    <3> QED  BY <1>3, <1>4, <2>1, <3>1 DEF Recorded
  <2>2. ASSUME NEW r \in Pooled
        PROVE  active_ccl'[r] = 0 \/ \E u \in Threads : pc'[u] = "clear" /\ idx'[u] = r
    <3>1. CASE r = s
      BY <1>2, <3>1
    <3>2. CASE r # s /\ active_ccl[r] = 0
      BY <1>0, <1>2, <2>2, <3>2
    <3>3. CASE r # s /\ \E u \in Threads : pc[u] = "clear" /\ idx[u] = r
      BY <1>1, <1>2, <3>3
    <3> QED  BY <1>0, <2>2, <3>1, <3>2, <3>3 DEF BucketsMirrorFlight
  <2>3. Pooled' = Pooled /\ \A b \in Batches : Pending(b)' = Pending(b)
    BY <1>2 DEF Pooled, Pending
  <2> QED  BY <2>1, <2>2, <2>3 DEF BucketsMirrorFlight
<1>6. HandRecorded'
  <2> SUFFICES ASSUME NEW u \in Threads, pc'[u] = "wait" PROVE Recorded(idx[u])' /\ idx'[u] = idx[u]
    BY DEF HandRecorded, Recorded, Erased, Threads
  <2>1. u # t /\ pc[u] = "wait" /\ idx'[u] = idx[u]
    BY <1>2
  <2>2. idx[u] \in Slots /\ Recorded(idx[u])
    BY <1>0, <2>1 DEF HandRecorded, TypeOK
  <2>3. Threaded
    BY <1>3, <2>1
  <2>4. Recorded(idx[u])'
    BY <1>2, <2>1, <2>2, <2>3 DEF Recorded, Erased
  <2> QED  BY <2>1, <2>4
<1>7. RaisedIsIdle'
  BY <1>0, <1>2 DEF RaisedIsIdle
<1>8. FlightBelow'
  <2> SUFFICES ASSUME NEW b \in Batches, out[b] = "building", NEW r \in running
               PROVE  bound[r] <= chosen_ccl \/ Erased(r)'
    BY <1>2 DEF FlightBelow
  <2>1. r \in Slots /\ (bound[r] <= chosen_ccl \/ Erased(r))
    BY <1>0 DEF FlightBelow
  <2> QED  BY <1>2, <1>3, <2>1 DEF Erased
<1> QED  BY <1>5, <1>6, <1>7, <1>8 DEF FlightInv

(***************************************************************************)
(* A slot goes back to the pool together with the thread that will clear   *)
(* its record.                                                             *)
(***************************************************************************)
LEMMA PoolStep ==
  ASSUME Known, NEW t \in Threads, WaitCompletion(t)
  PROVE  FlightInv'
<1>0. /\ TypeOK /\ BucketsMirrorFlight /\ HandRecorded /\ RaisedIsIdle /\ FlightBelow
  BY KnownFacts
<1>1. PICK s \in Slots : s = idx[t]
  BY <1>0 DEF WaitCompletion, TypeOK
<1>2. /\ UNCHANGED <<bound, active_ccl, running, pendq, idx, out, chosen_ccl>>
      /\ pc[t] = "wait" /\ pc'[t] = "clear"
      /\ \A u \in Threads : u # t => pc'[u] = pc[u]
      /\ Pooled' = Pooled \cup {s}
  BY <1>0, <1>1, AppendToSet DEF WaitCompletion, model, outputs, TypeOK, Pooled, Goto
<1>3. BucketsMirrorFlight'
  <2>1. \A b \in Batches : \A r \in Pending(b)' : active_ccl'[r] = bound'[r] \/ Erased(r)'
    BY <1>0, <1>2 DEF BucketsMirrorFlight, Pending, Erased
  <2>2. ASSUME NEW r \in Pooled'
        PROVE  active_ccl'[r] = 0 \/ \E u \in Threads : pc'[u] = "clear" /\ idx'[u] = r
    <3>1. CASE r = s
      BY <1>1, <1>2, <3>1
    <3>2. CASE r \in Pooled
      BY <1>0, <1>2, <3>2 DEF BucketsMirrorFlight
    <3> QED  BY <1>2, <2>2, <3>1, <3>2
  <2> QED  BY <2>1, <2>2 DEF BucketsMirrorFlight
<1>4. HandRecorded' /\ RaisedIsIdle' /\ FlightBelow'
  BY <1>0, <1>2 DEF HandRecorded, RaisedIsIdle, FlightBelow, Recorded, Erased
<1> QED  BY <1>3, <1>4 DEF FlightInv

(***************************************************************************)
(* The slot taken is bound to the bucket of the batch.                     *)
(***************************************************************************)
LEMMA TakeStep ==
  ASSUME Known, TakeSlot
  PROVE  FlightInv'
<1>0. /\ TypeOK /\ SlotConservation
      /\ BucketsMirrorFlight /\ HandRecorded /\ RaisedIsIdle /\ FlightBelow
      /\ Threads = {"worker", "engine"} /\ running \subseteq Slots
      /\ \A b \in Batches : Pending(b) \subseteq Slots
  BY KnownFacts
<1>1. PICK h \in Slots : h = Head(pool) /\ h \in Pooled
  BY <1>0, PopToSet DEF TakeSlot, TypeOK, Pooled
<1>2. /\ UNCHANGED <<active_ccl, chosen_ccl, pendq, out>> /\ running' = running \cup {h}
      /\ bound'[h] = chosen_ccl /\ \A r \in Slots : r # h => bound'[r] = bound[r]
      /\ pc["worker"] = "take" /\ pc'["worker"] = "record"
      /\ pc'["engine"] = pc["engine"] /\ idx'["engine"] = idx["engine"]
  BY <1>0, <1>1 DEF TakeSlot, TypeOK, model, outputs, Goto
<1>3. Pooled' \subseteq Pooled
  BY <1>0, PopToSet DEF TakeSlot, TypeOK, Pooled
<1>4. /\ \A b \in Batches : h \notin Pending(b)
      /\ pc["engine"] \in {"wait", "raised_holding"} => idx["engine"] # h
  BY <1>0, <1>1 DEF SlotConservation, Apart, Held
<1>5. BucketsMirrorFlight'
  <2>1. ASSUME NEW b \in Batches, NEW r \in Pending(b)
        PROVE  active_ccl'[r] = bound'[r] \/ Erased(r)'
    BY <1>0, <1>2, <1>4, <2>1 DEF BucketsMirrorFlight, Erased
  <2>2. \A r \in Pooled' : \/ active_ccl'[r] = 0
                           \/ \E u \in Threads : pc'[u] = "clear" /\ idx'[u] = r
    BY <1>0, <1>2, <1>3 DEF BucketsMirrorFlight
  <2>3. \A b \in Batches : Pending(b)' = Pending(b)
    BY <1>2 DEF Pending
  <2> QED  BY <2>1, <2>2, <2>3 DEF BucketsMirrorFlight
<1>6. HandRecorded'
  <2> SUFFICES ASSUME pc["engine"] = "wait" PROVE Recorded(idx["engine"])'
    BY <1>0, <1>2 DEF HandRecorded, Recorded, Erased
  <2>1. idx["engine"] \in Slots /\ idx["engine"] # h /\ Recorded(idx["engine"])
    BY <1>0, <1>4 DEF HandRecorded, TypeOK
  <2> QED  BY <1>2, <2>1 DEF Recorded, Erased
<1>7. RaisedIsIdle'
  BY <1>0, <1>2, <1>4 DEF RaisedIsIdle
<1>8. FlightBelow'
  <2> SUFFICES ASSUME NEW b \in Batches, out[b] = "building", NEW r \in running \cup {h}
               PROVE  bound'[r] <= chosen_ccl \/ Erased(r)
    BY <1>2 DEF FlightBelow, Erased
  <2>1. chosen_ccl \in Nat
    BY <1>0, BucketsAssumption DEF TypeOK
  <2>2. CASE r = h
    BY <1>2, <2>1, <2>2
  <2>3. CASE r # h
    BY <1>0, <1>2, <2>3 DEF FlightBelow
  <2> QED  BY <2>2, <2>3
<1> QED  BY <1>5, <1>6, <1>7, <1>8 DEF FlightInv

(***************************************************************************)
(* A chunk is queued with the bucket that was bound to its slot.           *)
(***************************************************************************)
LEMMA RecordStep ==
  ASSUME Known, RecordChunk
  PROVE  FlightInv'
<1>0. /\ TypeOK /\ SlotConservation /\ BucketInv
      /\ BucketsMirrorFlight /\ HandRecorded /\ RaisedIsIdle /\ FlightBelow
      /\ Threads = {"worker", "engine"} /\ running \subseteq Slots /\ Pooled \subseteq Slots
      /\ \A b \in Batches : Pending(b) \subseteq Slots
      /\ KnowsItsBatch("worker")
  BY KnownFacts
<1>1. PICK b \in Batches, s \in Slots : b = cur["worker"] /\ s = idx["worker"]
  BY <1>0 DEF RecordChunk, KnowsItsBatch, TypeOK
<1>2. /\ UNCHANGED <<bound, pool, running, out, chosen_ccl>>
      /\ pendq[b] \in Seq(Slots) /\ pendq'[b] = Append(pendq[b], s)
      /\ \A c \in Batches : c # b => pendq'[c] = pendq[c]
      /\ bound[s] = chosen_ccl /\ active_ccl'[s] = chosen_ccl
      /\ \A r \in Slots : r # s => active_ccl'[r] = active_ccl[r]
      /\ pc["worker"] = "record" /\ pc'["worker"] = "chunk"
      /\ pc'["engine"] = pc["engine"] /\ idx'["engine"] = idx["engine"]
  BY <1>0, <1>1 DEF RecordChunk, TypeOK, session, BucketInv, HandIsBound, Goto
<1>3. Pending(b)' = Pending(b) \cup {s} /\ \A c \in Batches : c # b => Pending(c)' = Pending(c)
  BY <1>2, AppendToSet DEF Pending
<1>4. /\ s \notin Pooled
      /\ pc["engine"] \in {"wait", "raised_holding"} => idx["engine"] # s
  BY <1>0, <1>1, <1>2 DEF SlotConservation, Apart, Held
<1>5. ASSUME NEW r \in Slots, Recorded(r) \/ r = s PROVE Recorded(r)'
  BY <1>2, <1>5 DEF Recorded, Erased
<1>6. BucketsMirrorFlight'
  <2>1. \A c \in Batches : \A r \in Pending(c)' : active_ccl'[r] = bound'[r] \/ Erased(r)'
    <3> SUFFICES ASSUME NEW c \in Batches, NEW r \in Pending(c)' PROVE Recorded(r)'
      BY DEF Recorded
    <3>1. r \in Slots /\ (r \in Pending(c) \/ r = s)
      BY <1>0, <1>3
    <3>2. r \in Pending(c) => Recorded(r)
      BY <1>0 DEF BucketsMirrorFlight, Recorded
    <3> QED  BY <1>5, <3>1, <3>2
  <2>2. \A r \in Pooled' : \/ active_ccl'[r] = 0
                           \/ \E u \in Threads : pc'[u] = "clear" /\ idx'[u] = r
    BY <1>0, <1>2, <1>4 DEF BucketsMirrorFlight, Pooled
  <2> QED  BY <2>1, <2>2 DEF BucketsMirrorFlight
<1>7. HandRecorded'
  <2> SUFFICES ASSUME pc["engine"] = "wait" PROVE Recorded(idx["engine"])'
    BY <1>0, <1>2 DEF HandRecorded, Recorded, Erased
  <2>1. idx["engine"] \in Slots /\ Recorded(idx["engine"])
    BY <1>0 DEF HandRecorded, TypeOK
  <2> QED  BY <1>2, <2>1 DEF Recorded, Erased
<1>8. RaisedIsIdle'
  BY <1>0, <1>2 DEF RaisedIsIdle
<1>9. FlightBelow'
  <2> SUFFICES ASSUME NEW c \in Batches, out[c] = "building", NEW r \in running
               PROVE  bound[r] <= chosen_ccl \/ Erased(r)'
    BY <1>2 DEF FlightBelow
  <2>1. r \in Slots /\ (bound[r] <= chosen_ccl \/ Erased(r))
    BY <1>0 DEF FlightBelow
  <2>2. chosen_ccl \in Nat
    BY <1>0, BucketsAssumption DEF TypeOK
  <2> QED  BY <1>2, <2>1, <2>2 DEF Erased
<1> QED  BY <1>6, <1>7, <1>8, <1>9 DEF FlightInv

(***************************************************************************)
(* When a batch gets its bucket, every slot in flight is recorded or       *)
(* erased, and the bucket is raised to those recorded.                     *)
(***************************************************************************)
LEMMA ChooseStep ==
  ASSUME Known, NEW b \in Batches, ChooseBucket(b)
  PROVE  FlightInv'
<1>0. /\ TypeOK /\ SlotConservation /\ PooledAreIdle
      /\ BucketsMirrorFlight /\ HandRecorded /\ RaisedIsIdle /\ FlightBelow
      /\ Threads = {"worker", "engine"} /\ running \subseteq Slots
  BY KnownFacts
<1>1. PICK c \in Buckets : ChosenCcl(job.pos, c) /\ chosen_ccl' = c
  BY DEF ChooseBucket
<1>2. /\ UNCHANGED <<bound, active_ccl, running, pool, idx>> /\ pendq'[b] = <<>>
      /\ \A d \in Batches : d # b => pendq'[d] = pendq[d]
      /\ pc["worker"] = "prepare" /\ pc'["worker"] = "chunk" /\ pc'["engine"] = pc["engine"]
  BY <1>0 DEF ChooseBucket, TypeOK, session, Goto
<1>3. ASSUME NEW r \in running PROVE Recorded(r)
  <2>1. r \in Slots /\ r \notin Pooled
    BY <1>0 DEF PooledAreIdle
  <2>2. CASE \E d \in Batches : r \in Pending(d)
    BY <1>0, <2>2 DEF BucketsMirrorFlight, Recorded
  <2>3. CASE \E t \in Threads : r \in Held(t)
    <3>1. pc["engine"] \in {"wait", "record", "raised_holding"} /\ r = idx["engine"]
      BY <1>0, <1>2, <2>3 DEF Held
    <3>2. pc["engine"] # "record"
      BY <1>0 DEF TypeOK, CompletionLabels
    <3> QED  BY <1>0, <3>1, <3>2 DEF HandRecorded, RaisedIsIdle
  <2> QED  BY <1>0, <2>1, <2>2, <2>3 DEF SlotConservation, Somewhere
<1>4. FlightBelow'
  <2> SUFFICES ASSUME NEW r \in running PROVE bound[r] <= c \/ Erased(r)
    BY <1>1, <1>2 DEF FlightBelow, Erased
  <2>1. active_ccl[r] <= c
    BY <1>0, <1>1 DEF ChosenCcl
  <2> QED  BY <1>3, <2>1 DEF Recorded
<1>5. BucketsMirrorFlight'
  <2>1. \A d \in Batches : Pending(d)' \subseteq Pending(d)
    BY <1>2 DEF Pending, ToSet
  <2>2. \A d \in Batches : \A r \in Pending(d)' : active_ccl'[r] = bound'[r] \/ Erased(r)'
    BY <1>0, <1>2, <2>1 DEF BucketsMirrorFlight, Erased
  <2>3. \A r \in Pooled' : \/ active_ccl'[r] = 0
                           \/ \E u \in Threads : pc'[u] = "clear" /\ idx'[u] = r
    BY <1>0, <1>2 DEF BucketsMirrorFlight, Pooled
  <2> QED  BY <2>2, <2>3 DEF BucketsMirrorFlight
<1>6. HandRecorded' /\ RaisedIsIdle'
  BY <1>0, <1>2 DEF HandRecorded, RaisedIsIdle, Recorded, Erased
<1> QED  BY <1>4, <1>5, <1>6 DEF FlightInv

(***************************************************************************)
(* What a thread takes from a pending queue was recorded there.            *)
(***************************************************************************)
LEMMA PopStep ==
  ASSUME Known, NEW t \in Threads, PopPending(t)
  PROVE  FlightInv'
<1>0. /\ TypeOK /\ FlightInv /\ KnowsItsBatch(t) /\ BucketsMirrorFlight
      /\ HandRecorded /\ RaisedIsIdle
  BY KnownFacts DEF Known
<1>1. PICK b \in Batches : b = cur[t]
  BY <1>0 DEF PopPending, KnowsItsBatch
<1>2. /\ pendq[b] \in Seq(Slots) /\ pendq[b] # <<>> /\ pendq'[b] = Tail(pendq[b])
      /\ \A c \in Batches : c # b => pendq'[c] = pendq[c]
      /\ UNCHANGED <<active_ccl, bound, chosen_ccl, running, pool, out>>
      /\ pc[t] = "get" /\ pc'[t] = "wait" /\ idx'[t] = Head(pendq[b])
      /\ \A u \in Threads : u # t => pc'[u] = pc[u] /\ idx'[u] = idx[u]
  BY <1>0, <1>1 DEF PopPending, TypeOK, session, model, Goto
<1>3. Head(pendq[b]) \in Pending(b) /\ \A c \in Batches : Pending(c)' \subseteq Pending(c)
  BY <1>2, PopToSet DEF Pending
<1>4. \A u \in Threads : pc'[u] = "wait" => Recorded(idx'[u])
  BY <1>0, <1>2, <1>3 DEF BucketsMirrorFlight, HandRecorded, Recorded
<1>5. /\ \A u \in Threads : pc'[u] = "raised_holding" => idx'[u] \notin running'
      /\ \A u \in Threads : pc[u] = "clear" => pc'[u] = "clear" /\ idx'[u] = idx[u]
      /\ Pooled' \subseteq Pooled
  BY <1>0, <1>2 DEF RaisedIsIdle, Pooled
<1> QED  BY <1>0, <1>2, <1>3, <1>4, <1>5, FlightKept

(***************************************************************************)
(* An error loses the slot, which is not executing.                        *)
(***************************************************************************)
LEMMA ErrorStep ==
  ASSUME Known, EnqueueFails \/ \E t \in Threads : WaitFails(t)
  PROVE  FlightInv'
<1>0. /\ TypeOK /\ FlightInv /\ PooledAreIdle /\ HandRecorded /\ RaisedIsIdle
      /\ Threads = {"worker", "engine"}
  BY KnownFacts DEF Known
<1>1. CASE EnqueueFails
  <2>1. Head(pool) \in Pooled /\ Pooled' \subseteq Pooled
    BY <1>0, <1>1, PopToSet DEF EnqueueFails, TypeOK, Pooled
  <2>2. /\ UNCHANGED <<active_ccl, bound, chosen_ccl, running, pendq, out>>
        /\ pc["worker"] = "take" /\ pc'["worker"] = "raised_holding"
        /\ idx'["worker"] = Head(pool)
        /\ pc'["engine"] = pc["engine"] /\ idx'["engine"] = idx["engine"]
    BY <1>0, <1>1 DEF EnqueueFails, TypeOK, model, outputs, Goto
  <2>3. Head(pool) \notin running
    BY <1>0, <2>1 DEF PooledAreIdle
  <2>4. /\ \A u \in Threads : pc'[u] = "raised_holding" => idx'[u] \notin running'
        /\ \A u \in Threads : pc'[u] = "wait" => Recorded(idx'[u])
        /\ \A u \in Threads : pc[u] = "clear" => pc'[u] = "clear" /\ idx'[u] = idx[u]
    BY <1>0, <2>2, <2>3 DEF RaisedIsIdle, HandRecorded
  <2> QED  BY <1>0, <2>1, <2>2, <2>4, FlightKept DEF Pending
<1>2. ASSUME NEW t \in Threads, WaitFails(t) PROVE FlightInv'
  <2>1. /\ UNCHANGED <<active_ccl, bound, chosen_ccl, pool, pendq, out, idx>>
        /\ running' = running \ {idx[t]} /\ pc[t] = "wait" /\ pc'[t] = "raised_holding"
        /\ \A u \in Threads : u # t => pc'[u] = pc[u]
    BY <1>0, <1>2 DEF WaitFails, TypeOK, model, outputs, Goto
  <2>2. /\ \A u \in Threads : pc'[u] = "raised_holding" => idx'[u] \notin running'
        /\ \A u \in Threads : pc'[u] = "wait" => Recorded(idx'[u])
        /\ \A u \in Threads : pc[u] = "clear" => pc'[u] = "clear" /\ idx'[u] = idx[u]
    BY <1>0, <2>1 DEF RaisedIsIdle, HandRecorded
  <2> QED  BY <1>0, <2>1, <2>2, FlightKept DEF Pending, Pooled
<1> QED  BY <1>1, <1>2

(***************************************************************************)
(* No other step touches a bucket.                                         *)
(***************************************************************************)
LEMMA FlightStep ==
  ASSUME Known, [Next]_vars
  PROVE  FlightInv'
<1>0. /\ TypeOK /\ FlightInv /\ HandRecorded /\ RaisedIsIdle /\ Threads = {"worker", "engine"}
  BY KnownFacts DEF Known
<1> USE DEF Goto
<1>1. ASSUME UNCHANGED <<active_ccl, bound, chosen_ccl, pool, pendq>>,
             running' \subseteq running,
             \A b \in Batches : out'[b] = "building" => out[b] = "building",
             \A t \in Threads : pc[t] = "clear" => pc'[t] = "clear" /\ idx'[t] = idx[t],
             \A t \in Threads : pc'[t] \in {"wait", "raised_holding"} =>
                                  pc[t] = pc'[t] /\ idx'[t] = idx[t]
      PROVE  FlightInv'
  <2>1. /\ \A u \in Threads : pc'[u] = "raised_holding" => idx'[u] \notin running'
        /\ \A u \in Threads : pc'[u] = "wait" => Recorded(idx'[u])
    BY <1>0, <1>1 DEF RaisedIsIdle, HandRecorded
  <2> QED  BY <1>0, <1>1, <2>1, FlightKept DEF Pending, Pooled
<1>2. ASSUME NEW t \in Threads,
             GetOutput(t) \/ DrainTest(t) \/ PopTimeout(t) \/ FinishOutput(t)
      PROVE  FlightInv'
  <2>1. /\ UNCHANGED <<active_ccl, bound, chosen_ccl, pool, pendq, idx, running>>
        /\ pc[t] \notin {"clear", "wait", "raised_holding"}
        /\ pc'[t] \notin {"wait", "raised_holding"}
        /\ \A u \in Threads : u # t => pc'[u] = pc[u]
    BY <1>0, <1>2 DEF GetOutput, DrainTest, PopTimeout, FinishOutput, TypeOK, session, model,
                      outputs
  <2>2. \A b \in Batches : out'[b] = "building" => out[b] = "building"
    BY <1>0, <1>2 DEF GetOutput, DrainTest, PopTimeout, FinishOutput, TypeOK, outputs
  <2> QED  BY <1>1, <2>1, <2>2
<1>3. CASE WorkerReturn \/ NoForward \/ NextChunk \/ SampleTokens \/ SampleTokensSync
  <2>1. /\ UNCHANGED <<active_ccl, bound, chosen_ccl, pool, pendq, idx, running>>
        /\ pc["worker"] \notin {"clear", "wait", "raised_holding"}
        /\ pc'["worker"] \notin {"wait", "raised_holding"} /\ pc'["engine"] = pc["engine"]
    BY <1>0, <1>3 DEF WorkerReturn, NoForward, NextChunk, SampleTokens, SampleTokensSync,
                      TypeOK, session, model, outputs
  <2>2. \A b \in Batches : out'[b] = "building" => out[b] = "building"
    BY <1>0, <1>3 DEF WorkerReturn, NoForward, NextChunk, SampleTokens, SampleTokensSync,
                      TypeOK, outputs
  <2> QED  BY <1>0, <1>1, <2>1, <2>2
<1>4. CASE Schedule \/ EngineCollect \/ EngineReturn
  <2>1. /\ UNCHANGED <<active_ccl, bound, chosen_ccl, pool, pendq, idx, running, out>>
        /\ \A t \in Threads : pc[t] \in {"clear", "wait", "raised_holding"} => pc'[t] = pc[t]
        /\ \A t \in Threads : pc'[t] \in {"wait", "raised_holding"} => pc'[t] = pc[t]
    BY <1>0, <1>4 DEF Schedule, StartExecute, EngineCollect, EngineReturn, MayStart, TypeOK,
                      session, model, outputs
  <2> QED  BY <1>1, <2>1
<1>5. CASE (\E s \in Slots : DeviceFinish(s)) \/ UNCHANGED vars
  <2>1. UNCHANGED <<active_ccl, bound, chosen_ccl, pool, pendq, idx, out, pc>>
        /\ running' \subseteq running
    BY <1>5 DEF DeviceFinish, vars, session, model, outputs
  <2> QED  BY <1>1, <2>1
<1> QED
  BY <1>0, <1>2, <1>3, <1>4, <1>5, ClearStep, PoolStep, TakeStep, RecordStep, ChooseStep,
     PopStep, ErrorStep
  DEF Next, Worker, Engine, Submit, Completion

(***************************************************************************)
(* The records are right in every reachable state of either deployment.    *)
(***************************************************************************)
LEMMA FlightInvariance == Spec => []FlightInv
<1>1. Init => FlightInv
  <2> SUFFICES ASSUME Init PROVE FlightInv
    OBVIOUS
  <2>1. /\ \A t \in Threads : pc[t] = "idle"
        /\ \A b \in Batches : out[b] = "none" /\ Pending(b) = {}
        /\ \A s \in Slots : active_ccl[s] = 0
        /\ Pooled = Slots
    BY InitialPool DEF Init, Pending, ToSet, Threads
  <2> QED
    BY <2>1 DEF FlightInv, BucketsMirrorFlight, HandRecorded, RaisedIsIdle, FlightBelow
<1>2. IInv /\ PooledAreIdle /\ BucketInv /\ (~Threaded => SeqInv) /\ FlightInv /\ [Next]_vars
        => FlightInv'
  BY FlightStep DEF Known
<1>3. Spec => [](~Threaded => SeqInv)
  <2>1. CASE Threaded
    <3>1. ~Threaded => SeqInv
      BY <2>1
    <3> QED  BY <3>1, PTL
  <2>2. CASE ~Threaded
    <3>1. Spec => []SeqInv
      BY <2>2, SequentialInvariance
    <3> QED  BY <3>1, PTL
  <2> QED  BY <2>1, <2>2
<1> QED  BY <1>1, <1>2, <1>3, Invariance, PoolIsIdle, BucketInvariance, PTL DEF Spec

(***************************************************************************)
(* active_ccl is what is in flight: a queued chunk is recorded with its    *)
(* own bucket, or a late clear has erased it (which cannot happen while    *)
(* the engine has no thread of its own), and a pooled slot is idle or      *)
(* about to be cleared.                                                    *)
(***************************************************************************)
THEOREM BucketsMirrored == Spec => []BucketsMirrorFlight
BY FlightInvariance, PTL DEF FlightInv

(***************************************************************************)
(* A chunk that starts is bound to a bucket at least as large as every one *)
(* the device is executing, those erased by a late clear excepted.         *)
(***************************************************************************)
THEOREM BucketsGrowInFlight == Spec => NeverBelowInFlight
<1> DEFINE Raised == \A s \in running' \ running : \A r \in running :
                       bound[r] <= bound'[s] \/ Erased(r)
<1>1. IInv /\ FlightInv /\ [Next]_vars => [Raised]_vars
  <2> SUFFICES ASSUME IInv, FlightInv, [Next]_vars PROVE Raised
    OBVIOUS
  <2>0. TypeOK /\ FlightBelow /\ KnowsItsBatch("worker") /\ Threads = {"worker", "engine"}
    BY DEF IInv, FlightInv, BatchLifecycle, Threads
  <2>1. CASE TakeSlot
    <3>1. PICK b \in Batches : b = cur["worker"] /\ out[b] = "building"
      BY <2>0, <2>1 DEF TakeSlot, KnowsItsBatch
    <3>2. \A r \in running : bound[r] <= chosen_ccl \/ Erased(r)
      BY <2>0, <3>1 DEF FlightBelow
    <3>3. pool \in Seq(Slots) /\ pool # <<>> /\ bound \in [Slots -> Buckets \cup {0}]
      BY <2>0, <2>1 DEF TakeSlot, TypeOK
    <3>4. Head(pool) \in Slots
      BY <3>3, PopToSet
    <3>5. bound'[Head(pool)] = chosen_ccl /\ running' \ running \subseteq {Head(pool)}
      BY <2>1, <3>3, <3>4 DEF TakeSlot
    <3> QED  BY <3>2, <3>5
  <2>2. CASE running' \subseteq running
    BY <2>2
  <2> QED
    BY <2>0, <2>1, <2>2
    DEF Next, Worker, Engine, Completion, GetOutput, DrainTest, PopPending, PopTimeout,
        WaitCompletion, WaitFails, ClearCcl, FinishOutput, Submit, WorkerReturn, NoForward,
        NextChunk, EnqueueFails, RecordChunk, SampleTokens, SampleTokensSync, ChooseBucket,
        Schedule, StartExecute, EngineCollect, EngineReturn, DeviceFinish, vars, session
<1> QED
  BY <1>1, Invariance, FlightInvariance, PTL DEF Spec, NeverBelowInFlight

-----------------------------------------------------------------------------
(***************************************************************************)
(* get_output() by two callers.  The saves of a batch and the calls that   *)
(* have passed its test add up to no more than there are threads that can  *)
(* be inside a call at the same time.                                      *)
(***************************************************************************)
One(P) == IF P THEN 1 ELSE 0

Callers(b) == One(Completing("worker", b)) + One(Completing("engine", b))

SavesInv == \A b \in Batches :
  /\ saves[b] + Callers(b) <= IF Threaded THEN 2 ELSE 1
  /\ out[b] = "done" <=> saves[b] > 0

(***************************************************************************)
(* A step that saves nothing and starts no completion.                     *)
(***************************************************************************)
LEMMA SavesKept ==
  ASSUME TypeOK, SavesInv, UNCHANGED saves,
         \A b \in Batches : out'[b] = "done" <=> out[b] = "done",
         \A t \in Threads, b \in Batches : Completing(t, b)' => Completing(t, b)
  PROVE  SavesInv'
<1> SUFFICES ASSUME NEW b \in Batches
             PROVE  /\ saves'[b] + Callers(b)' <= IF Threaded THEN 2 ELSE 1
                    /\ out'[b] = "done" <=> saves'[b] > 0
  BY DEF SavesInv
<1>1. /\ Completing("worker", b)' => Completing("worker", b)
      /\ Completing("engine", b)' => Completing("engine", b)
  BY DEF Threads
<1>2. Callers(b)' <= Callers(b) /\ Callers(b) \in 0..2 /\ Callers(b)' \in 0..2
  BY <1>1 DEF Callers, One
<1>3. saves[b] \in Nat
  BY DEF TypeOK
<1> QED  BY <1>2, <1>3 DEF SavesInv

(***************************************************************************)
(* The test of get_output(): past it, the batch is unsaved.  Without a     *)
(* thread of its own, the other caller is outside of a call.               *)
(***************************************************************************)
LEMMA TestStep ==
  ASSUME IInv, SavesInv, ~Threaded => OneAtATime, NEW t \in Threads, GetOutput(t)
  PROVE  /\ SavesInv'
         /\ \A u \in Threads, b \in Batches :
              ~Completing(u, b) /\ Completing(u, b)' => saves[b] = 0
<1>0. /\ TypeOK /\ Threads = {"worker", "engine"} /\ KnowsItsBatch(t)
  BY DEF IInv, BatchLifecycle, Threads
<1>1. PICK c \in Batches : c = cur[t]
  BY <1>0 DEF GetOutput, KnowsItsBatch
<1>2. /\ UNCHANGED <<saves, out, cur>> /\ pc[t] = "get_output"
      /\ pc'[t] = IF out[c] = "done" THEN "return" ELSE "drain"
      /\ \A u \in Threads : u # t => pc'[u] = pc[u]
  BY <1>0, <1>1 DEF GetOutput, TypeOK, outputs, Goto
<1>3. ASSUME NEW u \in Threads, NEW b \in Batches, ~(u = t /\ b = c)
      PROVE  Completing(u, b)' => Completing(u, b)
  BY <1>1, <1>2, <1>3 DEF Completing
<1>4. CASE out[c] = "done"
  <2>1. \A u \in Threads, b \in Batches : Completing(u, b)' => Completing(u, b)
    BY <1>2, <1>3, <1>4 DEF Completing
  <2>2. \A b \in Batches : out'[b] = "done" <=> out[b] = "done"
    BY <1>2
  <2> QED  BY <1>0, <1>2, <2>1, <2>2, SavesKept
<1>5. CASE out[c] # "done"
  <2>1. saves[c] = 0
    BY <1>0, <1>5 DEF SavesInv, TypeOK
  <2>2. ASSUME ~Threaded, NEW u \in Threads, u # t PROVE ~Completing(u, c)'
    BY <1>2, <2>2 DEF OneAtATime, Completing
  <2>3. Callers(c)' <= IF Threaded THEN 2 ELSE 1
    BY <1>0, <2>2 DEF Callers, One
  <2>4. ASSUME NEW b \in Batches
        PROVE  /\ saves'[b] + Callers(b)' <= IF Threaded THEN 2 ELSE 1
               /\ out'[b] = "done" <=> saves'[b] > 0
    <3>0. saves[b] \in Nat
      BY <1>0 DEF TypeOK
    <3>1. CASE b = c
      <4>1. Callers(c)' \in 0..2
        BY DEF Callers, One
      <4> QED  BY <1>2, <1>5, <2>1, <2>3, <3>1, <4>1
    <3>2. CASE b # c
      <4>1. Callers(b)' <= Callers(b) /\ Callers(b) \in 0..2 /\ Callers(b)' \in 0..2
        BY <1>0, <1>3, <3>2 DEF Callers, One
      <4> QED  BY <1>2, <3>0, <4>1 DEF SavesInv
    <3> QED  BY <3>1, <3>2
  <2>5. SavesInv'
    BY <2>4 DEF SavesInv
  <2> QED  BY <1>3, <2>1, <2>5
<1> QED  BY <1>4, <1>5

(***************************************************************************)
(* The save: one call less inside, one save more.                          *)
(***************************************************************************)
LEMMA SaveStep ==
  ASSUME IInv, SavesInv, NEW t \in Threads, FinishOutput(t)
  PROVE  /\ SavesInv'
         /\ \A u \in Threads, b \in Batches : Completing(u, b)' => Completing(u, b)
<1>0. /\ TypeOK /\ Threads = {"worker", "engine"} /\ KnowsItsBatch(t)
  BY DEF IInv, BatchLifecycle, Threads
<1>1. PICK c \in Batches : c = cur[t]
  BY <1>0 DEF FinishOutput, KnowsItsBatch
<1>2. /\ out[c] # "building" /\ pc[t] = "finish" /\ pc'[t] = "return" /\ UNCHANGED cur
      /\ \A u \in Threads : u # t => pc'[u] = pc[u]
      /\ saves'[c] = saves[c] + 1 /\ out'[c] = "done"
      /\ \A b \in Batches : b # c => saves'[b] = saves[b] /\ out'[b] = out[b]
  BY <1>0, <1>1 DEF FinishOutput, TypeOK, KnowsItsBatch, Goto
<1>3. Completing(t, c) /\ \A b \in Batches : ~Completing(t, b)'
  BY <1>1, <1>2 DEF Completing
<1>4. \A u \in Threads, b \in Batches : Completing(u, b)' => Completing(u, b)
  BY <1>2, <1>3 DEF Completing
<1>5. ASSUME NEW b \in Batches
      PROVE  /\ saves'[b] + Callers(b)' <= IF Threaded THEN 2 ELSE 1
             /\ out'[b] = "done" <=> saves'[b] > 0
  <2>0. saves[b] \in Nat
    BY <1>0 DEF TypeOK
  <2>1. CASE b = c
    <3>1. /\ Callers(c)' + 1 <= Callers(c) /\ Callers(c) \in 0..2 /\ Callers(c)' \in 0..2
      BY <1>0, <1>3, <1>4 DEF Callers, One
    <3> QED  BY <1>2, <2>0, <2>1, <3>1 DEF SavesInv
  <2>2. CASE b # c
    <3>1. Callers(b)' <= Callers(b) /\ Callers(b) \in 0..2 /\ Callers(b)' \in 0..2
      BY <1>0, <1>4 DEF Callers, One
    <3> QED  BY <1>2, <2>0, <2>2, <3>1 DEF SavesInv
  <2> QED  BY <2>1, <2>2
<1>6. SavesInv'
  BY <1>5 DEF SavesInv
<1> QED  BY <1>4, <1>6

(***************************************************************************)
(* The synchronous mode saves the batch it has just computed, which no     *)
(* other call has seen.                                                    *)
(***************************************************************************)
LEMMA SyncSaveStep ==
  ASSUME IInv, SavesInv, SampleTokensSync
  PROVE  /\ SavesInv'
         /\ \A u \in Threads, b \in Batches : Completing(u, b)' => Completing(u, b)
<1>0. /\ TypeOK /\ Threads = {"worker", "engine"} /\ KnowsItsBatch("worker")
      /\ BuildingIsTheWorkers /\ EngineHasTheOldest
  BY DEF IInv, BatchLifecycle, Threads
<1>1. PICK c \in Batches : c = cur["worker"] /\ out[c] = "building"
  BY <1>0 DEF SampleTokensSync, KnowsItsBatch
<1>2. /\ pc["worker"] = "sample" /\ pc'["worker"] = "idle"
      /\ pc'["engine"] = pc["engine"] /\ cur'["engine"] = cur["engine"]
      /\ saves'[c] = saves[c] + 1 /\ out'[c] = "done"
      /\ \A b \in Batches : b # c => saves'[b] = saves[b] /\ out'[b] = out[b]
  BY <1>0, <1>1 DEF SampleTokensSync, TypeOK, Goto
<1>3. pc["engine"] # "idle" => cur["engine"] # c
  <2> SUFFICES ASSUME pc["engine"] # "idle" PROVE cur["engine"] \in ToSet(outq)
    BY <1>0, <1>1 DEF BuildingIsTheWorkers
  <2>1. outq \in Seq(Batches) /\ outq # <<>> /\ cur["engine"] = Head(outq)
    BY <1>0 DEF EngineHasTheOldest, TypeOK
  <2> QED  BY <2>1, PopToSet
<1>4. \A u \in Threads : ~Completing(u, c)' /\ ~Completing(u, c)
  BY <1>0, <1>1, <1>2, <1>3 DEF Completing
<1>5. \A u \in Threads, b \in Batches : Completing(u, b)' => Completing(u, b)
  BY <1>0, <1>2, <1>4 DEF Completing
<1>6. ASSUME NEW b \in Batches
      PROVE  /\ saves'[b] + Callers(b)' <= IF Threaded THEN 2 ELSE 1
             /\ out'[b] = "done" <=> saves'[b] > 0
  <2>0. saves[b] \in Nat
    BY <1>0 DEF TypeOK
  <2>1. CASE b = c
    <3>1. Callers(c)' = 0
      BY <1>0, <1>4 DEF Callers, One
    <3>2. saves[c] = 0
      BY <1>1, <2>0, <2>1 DEF SavesInv
    <3> QED  BY <1>2, <2>1, <3>1, <3>2
  <2>2. CASE b # c
    <3>1. Callers(b)' <= Callers(b) /\ Callers(b) \in 0..2 /\ Callers(b)' \in 0..2
      BY <1>0, <1>5 DEF Callers, One
    <3> QED  BY <1>2, <2>0, <2>2, <3>1 DEF SavesInv
  <2> QED  BY <2>1, <2>2
<1>7. SavesInv'
  BY <1>6 DEF SavesInv
<1> QED  BY <1>5, <1>7

(***************************************************************************)
(* A new batch has a new output object, which nobody has called.           *)
(***************************************************************************)
LEMMA NewBatchStep ==
  ASSUME IInv, SavesInv, NEW c \in Batches, ChooseBucket(c)
  PROVE  /\ SavesInv'
         /\ \A u \in Threads, b \in Batches : Completing(u, b)' => Completing(u, b)
<1>0. TypeOK /\ Threads = {"worker", "engine"}
  BY DEF IInv, Threads
<1>1. /\ pc'["worker"] = "chunk" /\ pc'["engine"] = pc["engine"]
      /\ cur'["engine"] = cur["engine"] /\ saves'[c] = 0 /\ out'[c] = "building"
      /\ \A b \in Batches : b # c => saves'[b] = saves[b] /\ out'[b] = out[b]
  BY <1>0 DEF ChooseBucket, TypeOK, Goto
<1>2. /\ \A u \in Threads, b \in Batches : Completing(u, b)' => Completing(u, b)
      /\ \A u \in Threads : ~Completing(u, c)'
  BY <1>0, <1>1 DEF Completing
<1>3. ASSUME NEW b \in Batches
      PROVE  /\ saves'[b] + Callers(b)' <= IF Threaded THEN 2 ELSE 1
             /\ out'[b] = "done" <=> saves'[b] > 0
  <2>0. saves[b] \in Nat
    BY <1>0 DEF TypeOK
  <2>1. CASE b = c
    <3>1. Callers(c)' = 0
      BY <1>0, <1>2 DEF Callers, One
    <3> QED  BY <1>1, <2>1, <3>1
  <2>2. CASE b # c
    <3>1. Callers(b)' <= Callers(b) /\ Callers(b) \in 0..2 /\ Callers(b)' \in 0..2
      BY <1>0, <1>2 DEF Callers, One
    <3> QED  BY <1>1, <2>0, <2>2, <3>1 DEF SavesInv
  <2> QED  BY <2>1, <2>2
<1> QED  BY <1>2, <1>3 DEF SavesInv

(***************************************************************************)
(* No other step saves a batch or passes the test of get_output().         *)
(***************************************************************************)
LEMMA SavesStep ==
  ASSUME IInv, SavesInv, ~Threaded => OneAtATime, [Next]_vars
  PROVE  /\ SavesInv'
         /\ \A u \in Threads, b \in Batches :
              ~Completing(u, b) /\ Completing(u, b)' => saves[b] = 0
<1>0. /\ TypeOK /\ Threads = {"worker", "engine"} /\ KnowsItsBatch("worker")
      /\ BuildingIsTheWorkers /\ EngineHasTheOldest
  BY DEF IInv, BatchLifecycle, Threads
<1> USE DEF Goto
<1> DEFINE Quiet == /\ UNCHANGED saves
                    /\ \A b \in Batches : out'[b] = "done" <=> out[b] = "done"
                    /\ \A t \in Threads, b \in Batches : Completing(t, b)' => Completing(t, b)
<1>1. ASSUME NEW t \in Threads, \/ DrainTest(t) \/ PopPending(t) \/ PopTimeout(t)
                                \/ WaitCompletion(t) \/ WaitFails(t) \/ ClearCcl(t)
      PROVE  Quiet
  <2>1. /\ UNCHANGED <<saves, out, cur>>
        /\ pc[t] \in {"drain", "get", "wait", "clear"}
        /\ \A u \in Threads : u # t => pc'[u] = pc[u]
    BY <1>0, <1>1 DEF DrainTest, PopPending, PopTimeout, WaitCompletion, WaitFails, ClearCcl,
                      outputs, TypeOK
  <2>2. \A u \in Threads, b \in Batches : Completing(u, b)' => Completing(u, b)
    BY <2>1 DEF Completing
  <2> QED  BY <2>1, <2>2
<1>2. ASSUME \/ WorkerReturn \/ NoForward \/ NextChunk \/ TakeSlot \/ EnqueueFails
             \/ RecordChunk
      PROVE  Quiet
  <2>1. /\ UNCHANGED <<saves, out>> /\ pc'["engine"] = pc["engine"]
        /\ cur'["engine"] = cur["engine"]
        /\ \/ pc'["worker"] \notin {"drain", "get", "wait", "clear", "finish"}
           \/ cur'["worker"] = cur["worker"] /\ out[cur["worker"]] = "building"
    BY <1>0, <1>2 DEF WorkerReturn, NoForward, NextChunk, TakeSlot, EnqueueFails, RecordChunk,
                      outputs, TypeOK, KnowsItsBatch
  <2> QED  BY <1>0, <2>1 DEF Completing
<1>3. ASSUME SampleTokens PROVE Quiet
  <2>1. PICK c \in Batches : c = cur["worker"] /\ out[c] = "building"
    BY <1>0, <1>3 DEF SampleTokens, KnowsItsBatch
  <2>2. /\ UNCHANGED saves /\ pc'["worker"] = "idle" /\ pc'["engine"] = pc["engine"]
        /\ cur'["engine"] = cur["engine"] /\ out'[c] = "built"
        /\ \A b \in Batches : b # c => out'[b] = out[b]
    BY <1>0, <1>3, <2>1 DEF SampleTokens, TypeOK
  <2>3. pc["engine"] # "idle" => cur["engine"] # c
    <3> SUFFICES ASSUME pc["engine"] # "idle" PROVE cur["engine"] \in ToSet(outq)
      BY <1>0, <2>1 DEF BuildingIsTheWorkers
    <3>1. outq \in Seq(Batches) /\ outq # <<>> /\ cur["engine"] = Head(outq)
      BY <1>0 DEF EngineHasTheOldest, TypeOK
    <3> QED  BY <3>1, PopToSet
  <2>4. \A t \in Threads, b \in Batches : Completing(t, b)' => Completing(t, b)
    BY <1>0, <2>1, <2>2, <2>3 DEF Completing
  <2>5. \A b \in Batches : out'[b] = "done" <=> out[b] = "done"
    BY <2>1, <2>2
  <2> QED  BY <2>2, <2>4, <2>5
<1>4. ASSUME Schedule \/ EngineCollect \/ EngineReturn PROVE Quiet
  <2>1. /\ UNCHANGED <<saves, out>>
        /\ \A t \in Threads :
             \/ pc'[t] = pc[t] /\ cur'[t] = cur[t]
             \/ pc'[t] \notin {"drain", "get", "wait", "clear", "finish"}
    BY <1>0, <1>4 DEF Schedule, StartExecute, EngineCollect, EngineReturn, outputs, TypeOK
  <2>2. \A u \in Threads, b \in Batches : Completing(u, b)' => Completing(u, b)
    BY <2>1 DEF Completing
  <2> QED  BY <2>1, <2>2
<1>5. ASSUME (\E s \in Slots : DeviceFinish(s)) \/ UNCHANGED vars PROVE Quiet
  <2>1. UNCHANGED <<saves, out, pc, cur>>
    BY <1>5 DEF DeviceFinish, vars, outputs
  <2>2. \A u \in Threads, b \in Batches : Completing(u, b)' => Completing(u, b)
    BY <2>1 DEF Completing
  <2> QED  BY <2>1, <2>2
<1>6. Quiet => SavesInv' /\ \A t \in Threads, b \in Batches : Completing(t, b)' => Completing(t, b)
  BY <1>0, SavesKept
<1> HIDE DEF Quiet
<1> QED
  BY <1>0, <1>1, <1>2, <1>3, <1>4, <1>5, <1>6, TestStep, SaveStep, SyncSaveStep, NewBatchStep
  DEF Next, Worker, Engine, Submit, Completion

(***************************************************************************)
(* However the calls of the two threads interleave, get_output() gives the *)
(* KV cache of a batch to the connector before the output is delivered; a  *)
(* call after that is a no-op; and the KV cache is given a second time     *)
(* only by two calls that overlap, never without an output thread.         *)
(***************************************************************************)
THEOREM SavedOncePerCall == Spec => SavedOnce
<1> DEFINE Fresh == \A t \in Threads, b \in Batches :
                      ~Completing(t, b) /\ Completing(t, b)' => saves[b] = 0
<1>1. Init => SavesInv
  BY DEF Init, SavesInv, Callers, One, Completing, Threads
<1>2. IInv /\ (~Threaded => SeqInv) /\ SavesInv /\ [Next]_vars => SavesInv' /\ Fresh
  BY SavesStep DEF SeqInv
<1>3. IInv /\ SavesInv => SavesBounded
  <2> SUFFICES ASSUME IInv, SavesInv, NEW b \in Batches
               PROVE  /\ saves[b] <= IF Threaded THEN 2 ELSE 1
                      /\ out[b] = "done" <=> saves[b] > 0
    BY DEF SavesBounded
  <2>1. saves[b] \in Nat /\ Callers(b) \in 0..2
    BY DEF IInv, TypeOK, Callers, One
  <2> QED  BY <2>1 DEF SavesInv
<1>4. Spec => [](~Threaded => SeqInv)
  <2>1. CASE Threaded
    <3>1. ~Threaded => SeqInv
      BY <2>1
    <3> QED  BY <3>1, PTL
  <2>2. CASE ~Threaded
    <3>1. Spec => []SeqInv
      BY <2>2, SequentialInvariance
    <3> QED  BY <3>1, PTL
  <2> QED  BY <2>1, <2>2
<1> QED
  BY <1>1, <1>2, <1>3, <1>4, Invariance, PTL DEF Spec, SavedOnce
=============================================================================
