--------------------------- MODULE PrefillPipeline ---------------------------
(***************************************************************************)
(* The prefill pipeline of a disaggregated prefill server (kv_producer):   *)
(* the exec-object pool of QAICInferenceSession, the compute-context       *)
(* buckets (CCL) QaicCausalLM keeps per exec object, and the asynchronous  *)
(* batches of QaicModelRunnerAoT that lease the exec objects.              *)
(*                                                                         *)
(* Two threads touch this state.  The worker thread runs execute_model()   *)
(* and sample_tokens(); the engine collects the outputs, in the order they *)
(* were built, by calling get_output() on each.  With Threaded = TRUE the  *)
(* engine's calls run on a thread of their own (the output thread of the   *)
(* pinned vLLM, external to this repository); with Threaded = FALSE they   *)
(* run between two calls of the worker.                                    *)
(***************************************************************************)
EXTENDS Integers, Sequences, FiniteSets, SequencesExt

CONSTANTS
  prefill_num_execObj, \* exec objects of the session, e.g. stages + 1 = 3
  Batches,      \* handles of AsyncModelRunnerOutput objects; as many as
                \* max_concurrent_batches
  Buckets,      \* comp_ctx_lengths_prefill, e.g. {2, 4}
  Positions,    \* last prompt positions a batch can have, e.g. {1, 3, 5}
  MaxChunks,    \* bound: chunks of one batch
  Async,        \* use_async_scheduling
  Threaded,     \* the engine calls get_output() on its own thread
  DeviceFails,  \* enqueue() and waitForCompletion() may report an error
  None          \* not a slot, not a batch

Slots == 0..prefill_num_execObj - 1

ASSUME SlotsAssumption == prefill_num_execObj \in Nat \ {0} /\ None \notin Slots
ASSUME BatchesAssumption == Batches # {} /\ None \notin Batches
ASSUME BucketsAssumption == /\ Buckets # {} /\ IsFiniteSet(Buckets)
                            /\ Buckets \subseteq Nat \ {0}
ASSUME BoundsAssumption == Positions \subseteq Nat /\ MaxChunks \in Nat
ASSUME FlagsAssumption == {Async, Threaded, DeviceFails} \subseteq BOOLEAN

VARIABLES
  \* QAICInferenceSession and the device behind it
  pool,         \* prefill_available_exec_objs, a FIFO queue of slots
  running,      \* slots the device is executing
  bound,        \* bound[s]: comp_ctx_lengths last set as input of slot s
  \* QaicCausalLM
  active_ccl,   \* active_ccl[s]: bucket recorded for slot s, 0 = idle
  chosen_ccl,   \* bucket of the batch being submitted
  \* one QaicAsyncGPUModelRunnerOutput per batch
  pendq,        \* pendq[b]: its pending_prefill_exec_queue
  out,          \* out[b]: "none", "building", "built", "done" (_output cached)
  need,         \* need[b]: batch_max_position
  saves,        \* saves[b]: times its KV cache was given to the connector
  \* QaicModelRunnerAoT and the engine
  pending_out,  \* _pending_output
  outq,         \* outputs the engine has not collected yet, oldest first
  job,          \* the batch being executed: [left, pos], chunks still to submit
  \* the two threads
  pc, cur, idx  \* program counter, batch and exec object at hand of a thread

session == <<pool, running, bound>>
model   == <<active_ccl, chosen_ccl>>
outputs == <<pendq, out, need, saves>>
runner  == <<pending_out, outq, job>>
vars    == <<session, model, outputs, runner, pc, cur, idx>>

Threads == {"worker", "engine"}

Goto(t, label) == pc' = [pc EXCEPT ![t] = label]

(***************************************************************************)
(* A thread may start a call only while the other is outside of one,       *)
(* unless the engine has a thread of its own.                              *)
(***************************************************************************)
MayStart(t) == pc[t] = "idle" /\ (Threaded \/ \A u \in Threads : pc[u] = "idle")

Init ==
  /\ pool = [i \in 1..prefill_num_execObj |-> i - 1]
  /\ running = {} /\ bound = [s \in Slots |-> 0]
  /\ active_ccl = [s \in Slots |-> 0] /\ chosen_ccl = 0
  /\ pendq = [b \in Batches |-> <<>>]
  /\ out = [b \in Batches |-> "none"]
  /\ need = [b \in Batches |-> 0]
  /\ saves = [b \in Batches |-> 0]
  /\ pending_out = None /\ outq = <<>> /\ job = [left |-> 0, pos |-> 0]
  /\ pc = [t \in Threads |-> "idle"]
  /\ cur = [t \in Threads |-> None]
  /\ idx = [t \in Threads |-> None]

-----------------------------------------------------------------------------
(* The device.  It finishes the exec objects it was given in some order.   *)

DeviceFinish(s) ==
  /\ s \in running
  /\ running' = running \ {s}
  /\ UNCHANGED <<pool, bound, model, outputs, runner, pc, cur, idx>>

-----------------------------------------------------------------------------
(* get_output(): called by the engine for the oldest output, and by the    *)
(* worker in synchronize_input_prep() for the latest one.                  *)

SlipNoCache(t) ==
  /\ pc[t] = "get_output"
  /\ Goto(t, "drain")
  /\ UNCHANGED <<session, model, outputs, runner, cur, idx>>

GetOutput(t) ==
  /\ pc[t] = "get_output"
  /\ Goto(t, IF out[cur[t]] = "done" THEN "return" ELSE "drain")
  /\ UNCHANGED <<session, model, outputs, runner, cur, idx>>

(* complete_all_inf(): the test of the loop ...                            *)
SlipSkipDrain(t) ==
  /\ pc[t] = "drain"
  /\ Goto(t, IF out[cur[t]] = "building" THEN "sample" ELSE "finish")
  /\ UNCHANGED <<session, model, outputs, runner, cur, idx>>

DrainTest(t) ==
  /\ pc[t] = "drain"
  /\ Goto(t, IF pendq[cur[t]] # <<>> THEN "get"
             ELSE IF out[cur[t]] = "building" THEN "sample" ELSE "finish")
  /\ UNCHANGED <<session, model, outputs, runner, cur, idx>>

(* ... and the pop it guards.  The same pop serves the worker when it has  *)
(* run out of exec objects in the middle of a batch.                       *)
PopPending(t) ==
  /\ pc[t] = "get"
  /\ pendq[cur[t]] # <<>>
  /\ idx' = [idx EXCEPT ![t] = Head(pendq[cur[t]])]
  /\ pendq' = [pendq EXCEPT ![cur[t]] = Tail(@)]
  /\ Goto(t, "wait")
  /\ UNCHANGED <<session, model, out, need, saves, runner, cur>>

(* queue.Empty is raised when the timeout of a get() expires.              *)
PopTimeout(t) ==
  /\ pc[t] = "get"
  /\ pendq[cur[t]] = <<>>
  /\ Goto(t, "raised")
  /\ UNCHANGED <<session, model, outputs, runner, cur, idx>>

(* QAICInferenceSession.complete_inf(): wait, then return the slot.        *)
SlipReturnEarly(t) ==
  /\ pc[t] = "wait"
  /\ pool' = Append(pool, idx[t])
  /\ Goto(t, "clear")
  /\ UNCHANGED <<running, bound, model, outputs, runner, cur, idx>>

SlipKeepSlot(t) ==
  /\ pc[t] = "wait"
  /\ idx[t] \notin running
  /\ Goto(t, "clear")
  /\ UNCHANGED <<session, model, outputs, runner, cur, idx>>

WaitCompletion(t) ==
  /\ pc[t] = "wait"
  /\ idx[t] \notin running
  /\ pool' = Append(pool, idx[t])
  /\ Goto(t, "clear")
  /\ UNCHANGED <<running, bound, model, outputs, runner, cur, idx>>

(* A failed wait raises before the slot is returned.                       *)
WaitFails(t) ==
  /\ DeviceFails
  /\ pc[t] = "wait"
  /\ running' = running \ {idx[t]}
  /\ Goto(t, "raised_holding")
  /\ UNCHANGED <<pool, bound, model, outputs, runner, cur, idx>>

(* QaicCausalLM.complete_inf() then drops the bucket of the slot.          *)
SlipKeepCcl(t) ==
  /\ pc[t] = "clear"
  /\ idx' = [idx EXCEPT ![t] = None]
  /\ Goto(t, IF out[cur[t]] = "building" /\ job.left > 0 THEN "take" ELSE "drain")
  /\ UNCHANGED <<session, model, outputs, runner, cur>>

ClearCcl(t) ==
  /\ pc[t] = "clear"
  /\ active_ccl' = [active_ccl EXCEPT ![idx[t]] = 0]
  /\ idx' = [idx EXCEPT ![t] = None]
  /\ Goto(t, IF out[cur[t]] = "building" /\ job.left > 0 THEN "take" ELSE "drain")
  /\ UNCHANGED <<session, chosen_ccl, outputs, runner, cur>>

(* The rest of get_output(): the KV cache goes to the connector and the    *)
(* result is cached.                                                       *)
FinishOutput(t) ==
  /\ pc[t] = "finish"
  /\ saves' = [saves EXCEPT ![cur[t]] = @ + 1]
  /\ out' = [out EXCEPT ![cur[t]] = "done"]
  /\ Goto(t, "return")
  /\ UNCHANGED <<session, model, pendq, need, runner, cur, idx>>

(* The engine takes the outputs in the order sample_tokens() made them.    *)
EngineCollect ==
  /\ MayStart("engine")
  /\ outq # <<>>
  /\ cur' = [cur EXCEPT !["engine"] = Head(outq)]
  /\ Goto("engine", "get_output")
  /\ UNCHANGED <<session, model, outputs, runner, idx>>

EngineReturn ==
  /\ pc["engine"] = "return"
  /\ outq' = Tail(outq)
  /\ cur' = [cur EXCEPT !["engine"] = None]
  /\ Goto("engine", "idle")
  /\ UNCHANGED <<session, model, outputs, pending_out, job, idx>>

-----------------------------------------------------------------------------
(* execute_model() of the worker, for a batch of n chunks whose longest    *)
(* prompt ends at position p.  n = 0 is a step without scheduled tokens.   *)

(* synchronize_input_prep(): drain the latest output only when every exec  *)
(* object is taken.                                                        *)
StartExecute(n, p) ==
  /\ MayStart("worker")
  /\ ToSet(outq) # Batches
  /\ job' = [left |-> n, pos |-> p]
  /\ IF Async /\ pending_out # None /\ pool = <<>>
     THEN /\ cur' = [cur EXCEPT !["worker"] = pending_out]
          /\ Goto("worker", "get_output")
     ELSE /\ Goto("worker", "prepare")
          /\ UNCHANGED cur
  /\ UNCHANGED <<session, model, outputs, pending_out, outq, idx>>

WorkerReturn ==
  /\ pc["worker"] = "return"
  /\ cur' = [cur EXCEPT !["worker"] = None]
  /\ Goto("worker", "prepare")
  /\ UNCHANGED <<session, model, outputs, runner, idx>>

NoForward ==
  /\ pc["worker"] = "prepare"
  /\ job.left = 0
  /\ Goto("worker", "idle")
  /\ UNCHANGED <<session, model, outputs, runner, cur, idx>>

(* One bucket for the batch: the first that covers position p, the last    *)
(* one if none does, raised to the largest bucket recorded for a slot.     *)
SlipIgnoreInFlight(p, c) ==
  /\ c \in Buckets
  /\ LET Fits(d) == p < d \/ \A e \in Buckets : e <= d
     IN Fits(c) /\ \A d \in Buckets : Fits(d) => c <= d

SlipOnlyInFlight(p, c) ==
  /\ c \in Buckets
  /\ LET Fits(d) == \A s \in Slots : active_ccl[s] <= d
     IN Fits(c) /\ \A d \in Buckets : Fits(d) => c <= d

ChosenCcl(p, c) ==
  /\ c \in Buckets
  /\ LET Fits(d) == /\ p < d \/ \A e \in Buckets : e <= d
                    /\ \A s \in Slots : active_ccl[s] <= d
     IN Fits(c) /\ \A d \in Buckets : Fits(d) => c <= d

(* The batch gets a handle the engine is not holding, a new pending queue  *)
(* and its bucket.                                                         *)
ChooseBucket(b) ==
  /\ pc["worker"] = "prepare"
  /\ job.left > 0
  /\ b \notin ToSet(outq)
  /\ \E c \in Buckets : ChosenCcl(job.pos, c) /\ chosen_ccl' = c
  /\ cur' = [cur EXCEPT !["worker"] = b]
  /\ pendq' = [pendq EXCEPT ![b] = <<>>]
  /\ out' = [out EXCEPT ![b] = "building"]
  /\ need' = [need EXCEPT ![b] = job.pos]
  /\ saves' = [saves EXCEPT ![b] = 0]
  /\ Goto("worker", "chunk")
  /\ UNCHANGED <<session, active_ccl, runner, idx>>

(* The head of the chunk loop.  Without an idle exec object the worker     *)
(* completes the oldest chunk of its OWN batch.  After the loop the        *)
(* synchronous mode drains the batch, the asynchronous one leaves it.      *)
SlipOneChunkMore ==
  /\ pc["worker"] = "chunk"
  /\ Goto("worker", IF job.left >= 0 THEN IF pool # <<>> THEN "take" ELSE "get"
                    ELSE IF Async THEN "sample" ELSE "drain")
  /\ UNCHANGED <<session, model, outputs, runner, cur, idx>>

NextChunk ==
  /\ pc["worker"] = "chunk"
  /\ Goto("worker", IF job.left > 0 THEN IF pool # <<>> THEN "take" ELSE "get"
                    ELSE IF Async THEN "sample" ELSE "drain")
  /\ UNCHANGED <<session, model, outputs, runner, cur, idx>>

(* np_run_pipeline(): take an exec object, set its inputs, enqueue it.     *)
(* (Only this thread takes, so the pool is not empty here: see NoStall.)   *)
TakeSlot ==
  /\ pc["worker"] = "take"
  /\ pool # <<>>
  /\ idx' = [idx EXCEPT !["worker"] = Head(pool)]
  /\ pool' = Tail(pool)
  /\ bound' = [bound EXCEPT ![Head(pool)] = chosen_ccl]
  /\ running' = running \cup {Head(pool)}
  /\ Goto("worker", "record")
  /\ UNCHANGED <<model, outputs, runner, cur>>

(* setData() or enqueue() report an error: the assertion raises with the   *)
(* slot taken.                                                             *)
EnqueueFails ==
  /\ DeviceFails
  /\ pc["worker"] = "take"
  /\ pool # <<>>
  /\ idx' = [idx EXCEPT !["worker"] = Head(pool)]
  /\ pool' = Tail(pool)
  /\ Goto("worker", "raised_holding")
  /\ UNCHANGED <<running, bound, model, outputs, runner, cur>>

(* Record the bucket of the slot and queue the slot on the batch.          *)
RecordChunk ==
  /\ pc["worker"] = "record"
  /\ active_ccl' = [active_ccl EXCEPT ![idx["worker"]] = chosen_ccl]
  /\ pendq' = [pendq EXCEPT ![cur["worker"]] = Append(@, idx["worker"])]
  /\ job' = [left |-> job.left - 1, pos |-> job.pos]
  /\ idx' = [idx EXCEPT !["worker"] = None]
  /\ Goto("worker", "chunk")
  /\ UNCHANGED <<session, chosen_ccl, out, need, saves, pending_out, outq, cur>>

(* sample_tokens().  The asynchronous mode wraps the batch into an output  *)
(* object and remembers it.                                                *)
SampleTokens ==
  /\ Async
  /\ pc["worker"] = "sample"
  /\ out' = [out EXCEPT ![cur["worker"]] = "built"]
  /\ pending_out' = cur["worker"]
  /\ outq' = Append(outq, cur["worker"])
  /\ cur' = [cur EXCEPT !["worker"] = None]
  /\ Goto("worker", "idle")
  /\ UNCHANGED <<session, model, pendq, need, saves, job, idx>>

(* The synchronous mode has given the KV cache to the connector when it    *)
(* left execute_model(), and returns the result.                           *)
SampleTokensSync ==
  /\ ~Async
  /\ pc["worker"] = "sample"
  /\ out' = [out EXCEPT ![cur["worker"]] = "done"]
  /\ saves' = [saves EXCEPT ![cur["worker"]] = @ + 1]
  /\ cur' = [cur EXCEPT !["worker"] = None]
  /\ Goto("worker", "idle")
  /\ UNCHANGED <<session, model, pendq, need, runner, idx>>

-----------------------------------------------------------------------------
Completion(t) ==
  \/ GetOutput(t) \/ DrainTest(t) \/ PopPending(t) \/ PopTimeout(t)
  \/ WaitCompletion(t) \/ WaitFails(t) \/ ClearCcl(t) \/ FinishOutput(t)

Engine == EngineCollect \/ EngineReturn \/ Completion("engine")

Submit ==
  \/ WorkerReturn \/ NoForward \/ NextChunk \/ TakeSlot \/ EnqueueFails
  \/ RecordChunk \/ SampleTokens \/ SampleTokensSync
  \/ \E b \in Batches : ChooseBucket(b)

Schedule == \E n \in 0..MaxChunks, p \in Positions : StartExecute(n, p)

Worker == Submit \/ Completion("worker")

Next == Schedule \/ Worker \/ Engine \/ \E s \in Slots : DeviceFinish(s)

Spec == Init /\ [][Next]_vars

(***************************************************************************)
(* The device finishes what it runs, and both threads keep executing once  *)
(* they are inside a call; nothing obliges the scheduler to send a batch.  *)
(* An engine that calls get_output() between two calls of the worker does  *)
(* not let the worker run for ever without collecting (it has a bounded    *)
(* queue of batches and collects the oldest when nothing new is submitted).*)
(***************************************************************************)
FairSpec == /\ Spec
            /\ \A s \in Slots : WF_vars(DeviceFinish(s))
            /\ WF_vars(Worker) /\ WF_vars(Engine) /\ SF_vars(EngineCollect)

-----------------------------------------------------------------------------
Pooled     == ToSet(pool)
Pending(b) == ToSet(pendq[b])
Held(t)    == {s \in Slots : idx[t] = s /\ pc[t] \in {"wait", "record", "raised_holding"}}

CompletionLabels == {"idle", "get_output", "drain", "get", "wait", "clear",
                     "finish", "return", "raised", "raised_holding"}
SubmitLabels     == {"prepare", "chunk", "take", "record", "sample"}

TypeOK ==
  /\ pool \in Seq(Slots) /\ running \subseteq Slots
  /\ bound \in [Slots -> Buckets \cup {0}]
  /\ active_ccl \in [Slots -> Buckets \cup {0}] /\ chosen_ccl \in Buckets \cup {0}
  /\ pendq \in [Batches -> Seq(Slots)]
  /\ out \in [Batches -> {"none", "building", "built", "done"}]
  /\ need \in [Batches -> Positions \cup {0}]
  /\ saves \in [Batches -> Nat]
  /\ pending_out \in Batches \cup {None} /\ outq \in Seq(Batches)
  /\ job \in [left : 0..MaxChunks, pos : Positions \cup {0}]
  /\ pc \in [Threads -> CompletionLabels \cup SubmitLabels]
  /\ pc["engine"] \in CompletionLabels
  /\ cur \in [Threads -> Batches \cup {None}]
  /\ idx \in [Threads -> Slots \cup {None}]
  /\ \A t \in Threads : pc[t] \in {"wait", "clear", "record", "raised_holding"} =>
       idx[t] \in Slots
  /\ pc["worker"] \in {"take", "record"} => job.left > 0

Somewhere(s) == \/ s \in Pooled
                \/ \E b \in Batches : s \in Pending(b)
                \/ \E t \in Threads : s \in Held(t)

Apart == /\ \A b \in Batches : Pooled \cap Pending(b) = {}
         /\ \A b, c \in Batches : b # c => Pending(b) \cap Pending(c) = {}
         /\ \A t \in Threads : Held(t) \cap Pooled = {}
         /\ \A t \in Threads, b \in Batches : Held(t) \cap Pending(b) = {}
         /\ \A t, u \in Threads : t # u => Held(t) \cap Held(u) = {}

(***************************************************************************)
(* No exec object is lost or leased twice: at every moment each one is in  *)
(* exactly one of the pool, the pending queue of one batch, or the hands   *)
(* of one thread (of np_run_pipeline() before the chunk is queued, of      *)
(* complete_inf() before the slot is returned).                            *)
(***************************************************************************)
SlotConservation ==
  /\ IsInjective(pool) /\ \A b \in Batches : IsInjective(pendq[b])
  /\ \A s \in Slots : Somewhere(s)
  /\ Apart

(***************************************************************************)
(* The life of a batch's output object, as the code that holds it relies   *)
(* on it: a batch being submitted is the worker's and not yet the          *)
(* engine's; chunks are pending only on a batch that is being submitted or *)
(* that the engine has still to collect, so none outlives its batch; the   *)
(* engine works on the oldest output; a thread that has left the loop of   *)
(* complete_all_inf() has left an empty queue behind.                      *)
(***************************************************************************)
BuildingLabels == {"chunk", "get", "wait", "clear", "take", "record", "drain",
                   "sample", "raised", "raised_holding"}

BuildingIsTheWorkers == \A b \in Batches : out[b] = "building" =>
  /\ cur["worker"] = b /\ b \notin ToSet(outq)
  /\ pc["worker"] \in BuildingLabels

ChunksHaveABatch == \A b \in Batches : pendq[b] # <<>> =>
  out[b] = "building" \/ (out[b] = "built" /\ b \in ToSet(outq))

OutputsAreBuilt == /\ \A b \in ToSet(outq) : out[b] \in {"built", "done"}
                   /\ pending_out # None => out[pending_out] # "none"

EngineHasTheOldest ==
  pc["engine"] # "idle" => outq # <<>> /\ cur["engine"] = Head(outq)

KnowsItsBatch(t) ==
  /\ pc[t] \notin {"idle", "prepare"} => cur[t] \in Batches /\ out[cur[t]] # "none"
  /\ pc[t] = "get_output" => out[cur[t]] \in {"built", "done"}
  /\ pc[t] = "finish" => out[cur[t]] \in {"built", "done"} /\ pendq[cur[t]] = <<>>
  /\ pc[t] = "return" => out[cur[t]] = "done"
  /\ pc[t] \in {"chunk", "take", "record", "sample"} => out[cur[t]] = "building"
  /\ pc[t] = "sample" /\ ~Async => pendq[cur[t]] = <<>>

BatchLifecycle ==
  /\ BuildingIsTheWorkers /\ ChunksHaveABatch /\ OutputsAreBuilt
  /\ EngineHasTheOldest /\ \A t \in Threads : KnowsItsBatch(t)

(***************************************************************************)
(* An exec object of the pool is idle: nobody can set the inputs of an     *)
(* exec object the device is still executing.                              *)
(***************************************************************************)
PooledAreIdle == Pooled \cap running = {}

(***************************************************************************)
(* complete_inf() of the model clears the bucket of a slot after the       *)
(* session has returned the slot to the pool, so that the worker may have  *)
(* taken the slot again in between (qaic.py:1072-1076).  With a thread for *)
(* the engine's calls that late clear can erase the record of a chunk in   *)
(* flight; nothing else may become of it.                                  *)
(***************************************************************************)
Erased(s) == Threaded /\ active_ccl[s] = 0

(***************************************************************************)
(* active_ccl is what load_model() says it is, the bucket in flight on the *)
(* slot, 0 when it is idle.  A queued chunk is recorded with its own       *)
(* bucket, never with that of an earlier chunk of the slot, or erased by a *)
(* late clear; a pooled slot is recorded as idle, unless a thread is about *)
(* to clear it: no record outlives its chunk and holds up later batches.   *)
(***************************************************************************)
BucketsMirrorFlight ==
  /\ \A b \in Batches : \A s \in Pending(b) : active_ccl[s] = bound[s] \/ Erased(s)
  /\ \A s \in Pooled : \/ active_ccl[s] = 0
                        \/ \E t \in Threads : pc[t] = "clear" /\ idx[t] = s

(***************************************************************************)
(* The bucket of a chunk covers the longest prompt of its batch (or is the *)
(* largest there is), whatever was in flight when it was chosen.           *)
(***************************************************************************)
BucketCoversPrompt ==
  \A b \in Batches : \A s \in Pending(b) :
    need[b] < bound[s] \/ \A c \in Buckets : c <= bound[s]

(***************************************************************************)
(* A chunk never starts with a smaller bucket than one the device is       *)
(* executing: _run_pipeline_prefill() raises the bucket to the largest in  *)
(* flight.  It cannot see a chunk whose record a late clear has erased,    *)
(* and those are the only ones it may start below.                         *)
(***************************************************************************)
NeverBelowInFlight ==
  [][\A s \in running' \ running : \A r \in running :
       bound[r] <= bound'[s] \/ Erased(r)]_vars

(***************************************************************************)
(* A claim of the source that does not hold (see the README): the comment  *)
(* of _run_pipeline_prefill() says that all chunks in flight at the same   *)
(* time share one bucket.  Only the new batch is raised, not those before. *)
(***************************************************************************)
InFlightShareOneCcl == \A r, s \in running : bound[r] = bound[s]

(***************************************************************************)
(* No thread ever blocks on an empty queue: the pop of a batch's own       *)
(* pending queue and the take from the pool always find an exec object, so *)
(* their timeouts never expire.                                            *)
(***************************************************************************)
NoStall ==
  /\ \A t \in Threads : pc[t] = "get" => pendq[cur[t]] # <<>>
  /\ pc["worker"] = "take" => pool # <<>>

(***************************************************************************)
(* get_output() may run early in synchronize_input_prep() and runs again   *)
(* when the engine collects the output; nothing but its test of _output    *)
(* keeps it from giving the KV cache to the connector again.  A call that  *)
(* starts to complete a batch finds it unsaved, so one that comes after    *)
(* the save is a no-op; a second save needs two calls that overlap on two  *)
(* threads, and there is never a third.  The output is delivered when the  *)
(* batch has been saved and not before.                                    *)
(***************************************************************************)
Completing(t, b) ==
  /\ cur[t] = b /\ out[b] # "building"
  /\ pc[t] \in {"drain", "get", "wait", "clear", "finish"}

SavesBounded == \A b \in Batches :
  /\ saves[b] <= IF Threaded THEN 2 ELSE 1
  /\ out[b] = "done" <=> saves[b] > 0

SavedOnce ==
  /\ []SavesBounded
  /\ [][\A t \in Threads, b \in Batches :
          ~Completing(t, b) /\ Completing(t, b)' => saves[b] = 0]_vars

(***************************************************************************)
(* Every batch the worker starts to submit is eventually computed, saved   *)
(* and cached for the engine.                                              *)
(***************************************************************************)
BatchesComplete == \A b \in Batches : out[b] = "building" ~> out[b] = "done"

(***************************************************************************)
(* What the pool promises: an exec object is leased to one batch at a      *)
(* time, the device only executes leased ones, and a lease ends after the  *)
(* device has finished.                                                    *)
(***************************************************************************)
Holder(s) ==
  IF s \in Pooled THEN None
  ELSE IF \E b \in Batches : s \in Pending(b)
       THEN CHOOSE b \in Batches : s \in Pending(b)
       ELSE cur[CHOOSE t \in Threads : s \in Held(t)]

Lease == INSTANCE ExecLease WITH holder <- [s \in Slots |-> Holder(s)]

RefinesLease == Lease!Spec
=============================================================================
