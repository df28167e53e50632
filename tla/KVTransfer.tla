----------------------------- MODULE KVTransfer -----------------------------
(***************************************************************************)
(* Disaggregated serving: a prefill worker (kv_producer) computes the KV   *)
(* cache of a request into a shared-memory segment, puts the name of the   *)
(* segment into the hand-off store under the hash of the prompt, and a     *)
(* decode worker (kv_consumer) gets the name, attaches the segment, gives  *)
(* it to its device and unlinks it later.  QaicConnector on both sides,    *)
(* with the calls QaicModelRunnerAoT makes around a forward pass; the      *)
(* store and vLLM's scheduler are external.                                *)
(*                                                                         *)
(* A request that reaches its last chunk gets one segment; the segment has *)
(* the name of the request.  Each worker runs in one thread.               *)
(***************************************************************************)
EXTENDS Integers, Sequences, FiniteSets, SequencesExt

CONSTANTS
  Reqs,         \* requests, e.g. {r1, r2, r3}
  KeyOf,        \* KeyOf[r]: token_hash of r, equal for equal prompts
  PBlocks,      \* blocks of the prefill node, max_num_seqs of them
  CBlocks,      \* blocks of the decode node
  Capacity,     \* entries the store holds
  force_clean_up_threshold, \* of the decode node
  KV_LOOKUP_RETRIES,
  stages,       \* pipeline stages of the prefill node
  AsyncP,       \* async scheduling on the prefill node
  AsyncC,       \* async scheduling on the decode node
  MaxBatches,   \* max_concurrent_batches of the prefill node
  Aborts,       \* clients may abort requests
  DeviceFails,  \* a prefill may fail; the node is restarted then
  PutErrors,    \* the store may answer RESP_ERROR to a PUT
  None

ASSUME NoneAssumption == None \notin Reqs /\ None \notin PBlocks \cup CBlocks
ASSUME KeyAssumption == KeyOf \in [Reqs -> Reqs]
ASSUME NumbersAssumption ==
  {Capacity, force_clean_up_threshold, KV_LOOKUP_RETRIES, stages, MaxBatches}
    \subseteq Nat
ASSUME BlocksAssumption == IsFiniteSet(CBlocks)
ASSUME FlagsAssumption ==
  {AsyncP, AsyncC, Aborts, DeviceFails, PutErrors} \subseteq BOOLEAN

VARIABLES
  stage,    \* stage[r]: "new", "chunks", "last", "handed", "decode", "done",
            \* "aborted" or "lost" (its prefill node died)
  \* shared memory and the store
  linked,   \* segments that exist in the namespace
  content,  \* content[s]: the request whose KV cache was computed into s
  store,    \* names of segments in the store, in the order of the PUTs
  \* the prefill node
  p_block,  \* p_block[r]: block of r
  tracker,  \* _request_tracker: requests with chunks still to schedule
  p_bank,   \* MemBank: segments open here
  p_kv,     \* kv_caches: segment registered for a block
  p_shm,    \* shm_tracker: segments stored and not released, oldest first
  p_flight, \* <<r, s>>: the device computes the last chunk of r into s
  batches,  \* [last, meta, saved] per batch the engine has not collected:
            \* its requests at their last chunk, those of them in the
            \* connector metadata, and whether they were saved
  p_pc,     \* "idle", "forward", "wait", "save", "raising", "raised"
  p_at, p_todo, \* batch being saved, requests of it still to save
  \* the decode node
  c_block,  \* c_block[r]: block of r
  c_bank, c_kv, c_shm, \* as on the prefill node
  got,      \* got[r]: segment that r loaded
  c_use,    \* segments the last submitted decode reads
  c_running,\* the device executes a decode
  c_pc,     \* "idle", "load", "run", "save", "raised"
  c_meta, c_todo, c_tries \* new requests of the step, those still to load or
                          \* save, failed lookups of the present one

memory   == <<linked, content, store>>
producer == <<p_block, tracker, p_bank, p_kv, p_shm, p_flight, batches,
              p_pc, p_at, p_todo>>
consumer == <<c_block, c_bank, c_kv, c_shm, got, c_use, c_running,
              c_pc, c_meta, c_todo, c_tries>>
vars     == <<stage, memory, producer, consumer>>

Empty(S) == [x \in S |-> None]
Batch == [last : SUBSET Reqs, meta : SUBSET Reqs, saved : BOOLEAN]

Init ==
  /\ stage = [r \in Reqs |-> "new"]
  /\ linked = {} /\ content = Empty(Reqs) /\ store = <<>>
  /\ p_block = Empty(Reqs) /\ tracker = {} /\ p_bank = {}
  /\ p_kv = Empty(PBlocks) /\ p_shm = <<>> /\ p_flight = {}
  /\ batches = <<>> /\ p_pc = "idle" /\ p_at = 0 /\ p_todo = {}
  /\ c_block = Empty(Reqs) /\ c_bank = {} /\ c_kv = Empty(CBlocks)
  /\ c_shm = <<>> /\ got = Empty(Reqs) /\ c_use = {} /\ c_running = FALSE
  /\ c_pc = "idle" /\ c_meta = {} /\ c_todo = {} /\ c_tries = 0

(* One free block for each request of N (the block allocator of vLLM).     *)
Allocate(N, free) ==
  {f \in [N -> free] : \A q, r \in N : f[q] = f[r] => q = r}

FreeP == PBlocks \ {p_block[r] : r \in {q \in Reqs : stage[q] \in {"chunks", "last"}}}
FreeC == CBlocks \ {c_block[r] : r \in {q \in Reqs : stage[q] = "decode"}}

-----------------------------------------------------------------------------
(* The prefill node.                                                       *)

(***************************************************************************)
(* update_state_after_alloc(), build_connector_meta() and start_load_kv()  *)
(* for a batch that admits N and runs the last chunk of L (and perhaps     *)
(* other chunks of admitted requests).  Only a request at its last chunk   *)
(* leaves the tracker, gets an empty segment and will be stored.           *)
(***************************************************************************)
SlipForgetPartial(N, L) == tracker \ L

TrackedAfter(N, L) == (tracker \cup N) \ L

PExecute(N, L) ==
  /\ p_pc = "idle" /\ Len(batches) < (IF AsyncP THEN MaxBatches ELSE 1)
  /\ \A r \in N : stage[r] = "new"
  /\ \A r \in L : r \in N \/ stage[r] = "chunks"
  /\ N \cup L # {}
  /\ stage' = [r \in Reqs |-> IF r \in L THEN "last"
                              ELSE IF r \in N THEN "chunks" ELSE stage[r]]
  /\ \E f \in Allocate(N, FreeP) :
       p_block' = [r \in Reqs |-> IF r \in N THEN f[r] ELSE p_block[r]]
  /\ tracker' = TrackedAfter(N, L)
  /\ LET meta == L \cap (tracker \cup N) IN
       /\ linked' = linked \cup meta
       /\ p_bank' = p_bank \cup meta
       /\ p_kv' = [b \in PBlocks |->
                     IF \E r \in meta : p_block'[r] = b
                     THEN CHOOSE r \in meta : p_block'[r] = b ELSE p_kv[b]]
       /\ batches' = Append(batches, [last |-> L, meta |-> meta, saved |-> FALSE])
  /\ p_pc' = "forward"
  /\ UNCHANGED <<content, store, p_shm, p_flight, p_at, p_todo, consumer>>

(* A step of the worker fails while it handles batch i.  Only the          *)
(* synchronous mode saves on the way out ("finally").                      *)
Raise(i) ==
  IF AsyncP THEN p_pc' = "raised" /\ UNCHANGED <<p_at, p_todo>>
  ELSE p_pc' = "raising" /\ p_at' = i /\ p_todo' = batches[i].meta

(***************************************************************************)
(* The forward pass hands the registered segments to the device with the   *)
(* last chunks.  A last chunk without one fails the assertion on the       *)
(* buffers, and only some of the others were submitted before it.  The     *)
(* cleanup callback releases stored segments, oldest first: one per        *)
(* completed chunk, or "stages" of them after an asynchronous batch and    *)
(* one per chunk that had to wait for a slot.  Releasing one closes it:    *)
(* the prefill node never unlinks a segment.                               *)
(***************************************************************************)
Buffered(L) == {r \in L : p_kv[p_block[r]] # None}

Oldest(k) == ToSet(SubSeq(p_shm, 1, k))

PForward(n) ==
  /\ p_pc = "forward"
  /\ LET i == Len(batches)
         last == batches[i].last
     IN IF last = Buffered(last)
        THEN /\ n >= (IF AsyncP THEN stages ELSE 1)
             /\ p_flight' = p_flight \cup {<<r, p_kv[p_block[r]]>> : r \in last}
             /\ p_pc' = IF AsyncP THEN "idle" ELSE "wait"
             /\ UNCHANGED <<p_at, p_todo>>
        ELSE /\ \E L \in SUBSET Buffered(last) :
                  p_flight' = p_flight \cup {<<r, p_kv[p_block[r]]>> : r \in L}
             /\ Raise(i)
  /\ n <= Len(p_shm) + stages
  /\ LET k == IF n < Len(p_shm) THEN n ELSE Len(p_shm)
     IN /\ p_shm' = SubSeq(p_shm, k + 1, Len(p_shm))
        /\ p_bank' = p_bank \ Oldest(k)
  /\ UNCHANGED <<stage, linked, content, store, p_block, tracker, p_kv, batches, consumer>>

PDeviceFinish(r, s) ==
  /\ <<r, s>> \in p_flight
  /\ p_flight' = p_flight \ {<<r, s>>}
  /\ content' = [content EXCEPT ![s] = r]
  /\ UNCHANGED <<stage, linked, store, p_block, tracker, p_bank, p_kv, p_shm,
                 batches, p_pc, p_at, p_todo, consumer>>

(***************************************************************************)
(* The worker has completed all chunks of batch i and saves it: the engine *)
(* collects the oldest, synchronize_input_prep() drains the latest, and    *)
(* the synchronous mode saves when execute_model() leaves the context of   *)
(* the connector.                                                          *)
(***************************************************************************)
SlipNoWait(i) == TRUE

Computed(i) == \A x \in p_flight : x[1] \notin batches[i].last

PCollect(i) ==
  /\ p_pc = IF AsyncP THEN "idle" ELSE "wait"
  /\ batches # <<>> /\ i \in {1, Len(batches)}
  /\ ~batches[i].saved
  /\ Computed(i)
  /\ p_pc' = "save" /\ p_at' = i /\ p_todo' = batches[i].meta
  /\ UNCHANGED <<stage, memory, p_block, tracker, p_bank, p_kv, p_shm, p_flight,
                 batches, consumer>>

(* A failed completion raises.                                             *)
PDeviceFails(i) ==
  /\ DeviceFails
  /\ p_pc = IF AsyncP THEN "idle" ELSE "wait"
  /\ batches # <<>> /\ i \in {1, Len(batches)}
  /\ ~batches[i].saved
  /\ \E x \in p_flight : /\ x[1] \in batches[i].last
                         /\ p_flight' = p_flight \ {x}
  /\ Raise(i)
  /\ UNCHANGED <<stage, memory, p_block, tracker, p_bank, p_kv, p_shm, batches,
                 consumer>>

(***************************************************************************)
(* save_kv_layer() for one request: track the segment, clear the block,    *)
(* PUT the name, again and again while the store is full.                  *)
(***************************************************************************)
SlipKeepBlock(r) ==
  /\ p_pc \in {"save", "raising"}
  /\ r \in p_todo
  /\ p_todo' = p_todo \ {r}
  /\ p_shm' = Append(p_shm, r)
  /\ UNCHANGED <<stage, linked, content, p_block, tracker, p_bank, p_kv, p_flight,
                 batches, p_pc, p_at, consumer>>

Untrack(r) ==
  /\ p_pc \in {"save", "raising"}
  /\ r \in p_todo
  /\ p_todo' = p_todo \ {r}
  /\ p_shm' = Append(p_shm, r)
  /\ p_kv' = [p_kv EXCEPT ![p_block[r]] = None]
  /\ UNCHANGED <<stage, linked, content, p_block, tracker, p_bank, p_flight,
                 batches, p_pc, p_at, consumer>>

PPut(r) ==
  /\ Len(store) < Capacity
  /\ store' = Append(store, r)
  /\ Untrack(r)

(* Every answer but RESP_BUFFER_FULL ends the loop, RESP_ERROR too.        *)
PPutError(r) ==
  /\ PutErrors
  /\ Untrack(r)
  /\ UNCHANGED store

PSaved ==
  /\ p_pc \in {"save", "raising"}
  /\ p_todo = {}
  /\ batches' = [batches EXCEPT ![p_at] = [@ EXCEPT !.saved = TRUE]]
  /\ p_pc' = IF p_pc = "save" THEN "idle" ELSE "raised"
  /\ UNCHANGED <<stage, memory, p_block, tracker, p_bank, p_kv, p_shm, p_flight,
                 p_at, p_todo, consumer>>

(* The engine delivers the oldest output: its finished requests free their *)
(* blocks and the router sends them to the decode node.                    *)
PDeliver ==
  /\ p_pc = "idle"
  /\ batches # <<>> /\ batches[1].saved
  /\ stage' = [r \in Reqs |->
                 IF r \in batches[1].last /\ stage[r] = "last"
                 THEN "handed" ELSE stage[r]]
  /\ batches' = Tail(batches)
  /\ UNCHANGED <<memory, p_block, tracker, p_bank, p_kv, p_shm, p_flight, p_pc,
                 p_at, p_todo, consumer>>

(***************************************************************************)
(* The node dies and is started again: it raised and close() released its  *)
(* segments, which stay linked, or it was killed at any point and the      *)
(* resource tracker unlinks all it had open.                               *)
(***************************************************************************)
PRestart(killed) ==
  /\ DeviceFails
  /\ p_pc = "raised" \/ killed
  /\ linked' = IF killed THEN linked \ p_bank ELSE linked
  /\ stage' = [r \in Reqs |-> IF stage[r] \in {"chunks", "last"} THEN "lost"
                              ELSE stage[r]]
  /\ p_block' = Empty(Reqs) /\ tracker' = {} /\ p_bank' = {}
  /\ p_kv' = Empty(PBlocks) /\ p_shm' = <<>> /\ p_flight' = {}
  /\ batches' = <<>> /\ p_pc' = "idle" /\ p_at' = 0 /\ p_todo' = {}
  /\ UNCHANGED <<content, store, consumer>>

-----------------------------------------------------------------------------
(* The decode node.                                                        *)

(***************************************************************************)
(* A step with the new requests S, each of which has one token left to     *)
(* compute, and all that are decoding.  The asynchronous mode completes    *)
(* the step before (synchronize_input_prep()).                             *)
(***************************************************************************)
SlipNoDrain == TRUE

Drained == AsyncC => ~c_running

CSchedule(S) ==
  /\ c_pc = "idle" /\ Drained
  /\ \A r \in S : stage[r] = "handed"
  /\ S # {} \/ \E r \in Reqs : stage[r] = "decode"
  /\ \E f \in Allocate(S, FreeC) :
       c_block' = [r \in Reqs |-> IF r \in S THEN f[r] ELSE c_block[r]]
  /\ stage' = [r \in Reqs |-> IF r \in S THEN "decode" ELSE stage[r]]
  /\ c_pc' = "load" /\ c_meta' = S /\ c_todo' = S /\ c_tries' = 0
  /\ UNCHANGED <<memory, producer, c_bank, c_kv, c_shm, got, c_use, c_running>>

(* A lookup that leaves the entry in the store.                            *)
SlipPeek(r, i) ==
  /\ c_pc = "load" /\ r \in c_todo
  /\ KeyOf[store[i]] = KeyOf[r] /\ store[i] \in linked
  /\ c_bank' = c_bank \cup {store[i]}
  /\ got' = [got EXCEPT ![r] = store[i]]
  /\ c_kv' = [c_kv EXCEPT ![c_block[r]] = store[i]]
  /\ c_todo' = c_todo \ {r} /\ c_tries' = 0
  /\ UNCHANGED <<stage, memory, producer, c_block, c_shm, c_use, c_running,
                 c_pc, c_meta>>

(* get_kvcache_from_store() and get_Storage() for one request.             *)
CLoad(r, i) ==
  LET s == store[i] IN
  /\ c_pc = "load" /\ r \in c_todo
  /\ KeyOf[s] = KeyOf[r]
  /\ store' = RemoveAt(store, i)
  /\ IF s \in linked
     THEN /\ c_bank' = c_bank \cup {s}
          /\ got' = [got EXCEPT ![r] = s]
          /\ c_kv' = [c_kv EXCEPT ![c_block[r]] = s]
          /\ c_todo' = c_todo \ {r}
          /\ c_tries' = 0
          /\ UNCHANGED c_pc
     ELSE /\ c_pc' = "raised"
          /\ UNCHANGED <<c_bank, got, c_kv, c_todo, c_tries>>
  /\ UNCHANGED <<stage, linked, content, producer, c_block, c_shm, c_use,
                 c_running, c_meta>>

CMiss(r) ==
  /\ c_pc = "load" /\ r \in c_todo
  /\ \A s \in ToSet(store) : KeyOf[s] # KeyOf[r]
  /\ c_tries' = c_tries + 1
  /\ c_pc' = IF c_tries' < KV_LOOKUP_RETRIES THEN "load" ELSE "raised"
  /\ UNCHANGED <<stage, memory, producer, c_block, c_bank, c_kv, c_shm, got, c_use,
                 c_running, c_meta, c_todo>>

SlipNoUnlink(S) == c_bank' = c_bank \ S /\ UNCHANGED linked

(* ShmBuffer.cleanup(): who attached a segment closes and unlinks it; it   *)
(* raises for a segment somebody else has unlinked (CUnlinkFails).         *)
CRelease(S) == S \subseteq linked /\ c_bank' = c_bank \ S /\ linked' = linked \ S

(* _kv_handoff() and _run_decode(): the decode starts, then the callback   *)
(* releases the oldest tracked segment.                                    *)
CForward ==
  /\ c_pc = "load" /\ c_todo = {}
  /\ c_use' = (IF c_running THEN c_use ELSE {}) \cup {c_kv[c_block[r]] : r \in c_meta}
  /\ c_running' = TRUE
  /\ IF c_shm # <<>>
     THEN CRelease({Head(c_shm)}) /\ c_shm' = Tail(c_shm)
     ELSE UNCHANGED <<c_bank, linked, c_shm>>
  /\ c_pc' = "run"
  /\ UNCHANGED <<stage, content, store, producer, c_block, c_kv, got, c_meta,
                 c_todo, c_tries>>

CDeviceFinish ==
  /\ c_running
  /\ c_running' = FALSE
  /\ UNCHANGED <<stage, memory, producer, c_block, c_bank, c_kv, c_shm, got, c_use,
                 c_pc, c_meta, c_todo, c_tries>>

(* save_kv_layer() starts: at once in the asynchronous mode, otherwise     *)
(* after the decode.  It releases all of a tracker that has grown too long.*)
SlipNoCleanUp ==
  /\ c_pc = "run" /\ (AsyncC \/ ~c_running)
  /\ c_pc' = "save" /\ c_todo' = c_meta
  /\ UNCHANGED <<stage, memory, producer, c_block, c_bank, c_kv, c_shm, got, c_use,
                 c_running, c_meta, c_tries>>

CStartSave ==
  /\ c_pc = "run" /\ (AsyncC \/ ~c_running)
  /\ IF Len(c_shm) > force_clean_up_threshold
     THEN CRelease(ToSet(c_shm)) /\ c_shm' = <<>>
     ELSE UNCHANGED <<c_bank, linked, c_shm>>
  /\ c_pc' = "save" /\ c_todo' = c_meta
  /\ UNCHANGED <<stage, content, store, producer, c_block, c_kv, got, c_use,
                 c_running, c_meta, c_tries>>

CUnlinkFails ==
  /\ \/ /\ c_pc = "load" /\ c_todo = {}
        /\ c_shm # <<>> /\ Head(c_shm) \notin linked
     \/ /\ c_pc = "run" /\ (AsyncC \/ ~c_running)
        /\ Len(c_shm) > force_clean_up_threshold /\ ~(ToSet(c_shm) \subseteq linked)
  /\ c_pc' = "raised"
  /\ UNCHANGED <<stage, memory, producer, c_block, c_bank, c_kv, c_shm, got, c_use,
                 c_running, c_meta, c_todo, c_tries>>

(* One request of the loop: track its segment and clear its block.         *)
SlipSaveCleared(r) ==
  /\ c_pc = "save" /\ r \in c_todo
  /\ c_kv' = [c_kv EXCEPT ![c_block[r]] = None]
  /\ c_shm' = Append(c_shm, c_kv'[c_block[r]])
  /\ c_todo' = c_todo \ {r}
  /\ UNCHANGED <<stage, memory, producer, c_block, c_bank, got, c_use, c_running,
                 c_pc, c_meta, c_tries>>

CSave(r) ==
  /\ c_pc = "save" /\ r \in c_todo
  /\ c_shm' = Append(c_shm, got[r])
  /\ c_kv' = [c_kv EXCEPT ![c_block[r]] = None]
  /\ c_todo' = c_todo \ {r}
  /\ UNCHANGED <<stage, memory, producer, c_block, c_bank, got, c_use, c_running,
                 c_pc, c_meta, c_tries>>

CSaved ==
  /\ c_pc = "save" /\ c_todo = {}
  /\ c_pc' = "idle"
  /\ UNCHANGED <<stage, memory, producer, c_block, c_bank, c_kv, c_shm, got, c_use,
                 c_running, c_meta, c_todo, c_tries>>

(* The engine collects a step and a request is finished.                   *)
CFinish(r) ==
  /\ c_pc = "idle" /\ ~c_running
  /\ stage[r] = "decode"
  /\ stage' = [stage EXCEPT ![r] = "done"]
  /\ UNCHANGED <<memory, producer, consumer>>

-----------------------------------------------------------------------------
(* vLLM frees the block of an aborted request at once; the connector is    *)
(* not told.                                                               *)
Abort(r) ==
  /\ Aborts
  /\ \/ stage[r] \in {"chunks", "last"} /\ p_pc = "idle"
     \/ stage[r] = "handed"
     \/ stage[r] = "decode" /\ c_pc = "idle"
  /\ stage' = [stage EXCEPT ![r] = "aborted"]
  /\ UNCHANGED <<memory, producer, consumer>>

PSave == (\E r \in Reqs : PPut(r)) \/ PSaved
PStep == \/ PSave
         \/ \E n \in 0 .. Cardinality(Reqs) + stages : PForward(n)
PBack == PDeliver \/ (\E i \in 1 .. Len(batches) : PCollect(i)) \/ PStep
CStep == \/ CForward \/ CStartSave \/ CUnlinkFails \/ CSaved
         \/ \E r \in Reqs : CMiss(r) \/ CSave(r) \/ \E i \in 1 .. Len(store) : CLoad(r, i)

Schedule == \/ \E N, L \in SUBSET Reqs : PExecute(N, L)
            \/ \E S \in SUBSET Reqs : CSchedule(S)

Device == CDeviceFinish \/ \E r, s \in Reqs : PDeviceFinish(r, s)

Next == \/ Schedule \/ PBack \/ CStep \/ Device \/ (\E killed \in BOOLEAN : PRestart(killed))
        \/ \E i \in 1 .. Len(batches) : PDeviceFails(i)
        \/ \E r \in Reqs : PPutError(r) \/ CFinish(r) \/ Abort(r)

Spec == Init /\ [][Next]_vars

(***************************************************************************)
(* Devices finish, workers go on, the engines collect outputs, and the     *)
(* scheduler of the decode node admits a waiting request when it can.      *)
(* Nothing obliges the prefill node to be sent requests.                   *)
(***************************************************************************)
FairSpec ==
  /\ Spec
  /\ WF_vars(PBack) /\ WF_vars(\E r, s \in Reqs : PDeviceFinish(r, s))
  /\ WF_vars(CStep) /\ WF_vars(CDeviceFinish)
  /\ SF_vars(\E S \in SUBSET Reqs \ {{}} : CSchedule(S))
  /\ SF_vars(\E r \in Reqs : CFinish(r))

-----------------------------------------------------------------------------
Stages == {"new", "chunks", "last", "handed", "decode", "done", "aborted", "lost"}

(***************************************************************************)
(* The type invariant.                                                     *)
(***************************************************************************)
MemoryTypeOK ==
  /\ stage \in [Reqs -> Stages]
  /\ linked \subseteq Reqs /\ store \in Seq(Reqs)
  /\ content \in [Reqs -> Reqs \cup {None}]

ProducerTypeOK ==
  /\ p_block \in [Reqs -> PBlocks \cup {None}]
  /\ tracker \subseteq Reqs /\ p_bank \subseteq Reqs
  /\ p_kv \in [PBlocks -> Reqs \cup {None}]
  /\ p_shm \in Seq(Reqs)
  /\ p_flight \subseteq Reqs \X Reqs
  /\ batches \in Seq(Batch)
  /\ p_pc \in {"idle", "forward", "wait", "save", "raising", "raised"}
  /\ p_at \in Nat /\ p_todo \subseteq Reqs

ConsumerTypeOK ==
  /\ c_block \in [Reqs -> CBlocks \cup {None}]
  /\ c_bank \subseteq Reqs
  /\ c_kv \in [CBlocks -> Reqs \cup {None}]
  /\ c_shm \in Seq(Reqs)
  /\ got \in [Reqs -> Reqs \cup {None}]
  /\ c_use \subseteq Reqs \cup {None} /\ c_running \in BOOLEAN
  /\ c_pc \in {"idle", "load", "run", "save", "raised"}
  /\ c_meta \subseteq Reqs /\ c_todo \subseteq Reqs /\ c_tries \in Nat

TypeOK == MemoryTypeOK /\ ProducerTypeOK /\ ConsumerTypeOK

(***************************************************************************)
(* The comment in execute_model(): "The np buffer should have a lifecycle  *)
(* longer than waitForCompletion to avoid SEGFAULT".  Whatever a device    *)
(* reads or writes is open in the bank of its node, although callbacks     *)
(* and the forced cleanup release segments while it runs.                  *)
(***************************************************************************)
BuffersOutliveDevice ==
  /\ \A x \in p_flight : x[2] \in p_bank
  /\ c_running => c_use \subseteq c_bank

(***************************************************************************)
(* "Decode will load populated KV buffers" (the design notes of the        *)
(* connector): the segment a request loaded holds the KV cache of a        *)
(* request with the same prompt.                                           *)
(***************************************************************************)
LoadsPopulated ==
  \A r \in Reqs : got[r] # None =>
    content[got[r]] # None /\ KeyOf[content[got[r]]] = KeyOf[r]

(***************************************************************************)
(* "We assume KV store will always have tokens ready in case of consumer"  *)
(* (get_num_new_matched_tokens): no lookup on the decode node gives up, no *)
(* stored segment has disappeared when it is attached, and no last chunk   *)
(* is submitted without a buffer.                                          *)
(***************************************************************************)
NobodyRaises == p_pc # "raised" /\ c_pc # "raised"

(***************************************************************************)
(* No two requests load the same segment, whatever fails: the second would *)
(* read memory the first has unlinked.                                     *)
(***************************************************************************)
LoadedOnce == \A q, r \in Reqs : got[q] # None /\ got[q] = got[r] => q = r

(***************************************************************************)
(* "Overwriting KV cache for running request; this is unexpected": neither *)
(* node registers a segment for a block that still has one, unless the     *)
(* request of that segment was aborted.                                    *)
(***************************************************************************)
Kept(kv) == \A b \in DOMAIN kv :
  kv[b] # None => \/ kv'[b] \in {kv[b], None}
                  \/ \E r \in Reqs : stage[r] = "aborted" /\ kv[b] \in {r, got[r]}

NeverOverwritten == [][Kept(p_kv) /\ Kept(c_kv)]_vars

(***************************************************************************)
(* Between two steps the decode node keeps open at most as many segments   *)
(* as the threshold of the forced cleanup, and those of its last step.     *)
(***************************************************************************)
TrackerBounded ==
  c_pc = "idle" =>
    Cardinality(c_bank) <= force_clean_up_threshold + Cardinality(c_meta)

(***************************************************************************)
(* A request whose prefill has been scheduled to its end is decoded: again *)
(* and again nothing is between the two, unless a node raised or the store *)
(* holds the segment of a request whose prefill node died, which nobody    *)
(* will get.                                                               *)
(***************************************************************************)
Orphaned == \E s \in ToSet(store) : stage[s] = "lost"

Decoded ==
  []<>( \/ p_pc = "raised" \/ c_pc = "raised" \/ Orphaned
        \/ \A r \in Reqs : stage[r] \notin {"last", "handed", "decode"} )

(***************************************************************************)
(* The life of a segment as KVHandoff promises it.                         *)
(***************************************************************************)
Phase(s) ==
  IF s \in linked
  THEN IF s \in c_bank THEN "loaded"
       ELSE IF s \in ToSet(store) THEN "stored"
       ELSE IF content[s] # None THEN "filled" ELSE "empty"
  ELSE IF content[s] # None THEN "gone" ELSE "none"

Handoff == INSTANCE KVHandoff WITH
  phase  <- [s \in Reqs |-> Phase(s)],
  reader <- [s \in Reqs |-> IF \E r \in Reqs : got[r] = s
                            THEN CHOOSE r \in Reqs : got[r] = s ELSE None],
  in_use <- {x[2] : x \in p_flight} \cup (IF c_running THEN c_use ELSE {})

RefinesHandoff == Handoff!Spec
=============================================================================
