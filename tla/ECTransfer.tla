----------------------------- MODULE ECTransfer -----------------------------
(***************************************************************************)
(* Disaggregated encoding: an encoder node (ec_producer) computes the      *)
(* embeddings of the images of a request, copies them into a shared-memory *)
(* segment and puts its name into the store; a language node (ec_consumer) *)
(* peeks at schedule time, gets (and thereby pins) the entry before its    *)
(* forward pass, uses the segment in place as its encoder cache, and       *)
(* unpins the entry when vLLM's scheduler evicts the hash.  QaicECConnector*)
(* on both sides with the calls QaicModelRunnerAoT makes; the store and    *)
(* vLLM's EncoderCacheManager are external.                                *)
(*                                                                         *)
(* A request has one image.  The segment that an encoding fills has the    *)
(* name of the request that had it scheduled.                              *)
(***************************************************************************)
EXTENDS Integers, FiniteSets, Functions

CONSTANTS
  Reqs,      \* requests, e.g. {r1, r2, r3}
  Hashes,    \* identifiers of images, e.g. {h1, h2}
  ImageOf,   \* ImageOf[r]: the image of r
  Capacity,  \* entries the store holds
  ECap, CCap,\* hashes the encoder cache of each node's scheduler holds
  EC_LOOKUP_RETRIES,
  Restarts,  \* how often the language node may be stopped and started again
  StoreErrors, \* how often the store may answer RESP_ERROR
  None

ASSUME ECNoneAssumption == /\ None \notin Reqs \cup Hashes
                           /\ {"no", "local"} \cap Reqs = {}
ASSUME ECImageAssumption == ImageOf \in [Reqs -> Hashes]
ASSUME ECNumbersAssumption ==
  /\ {Capacity, ECap, CCap, EC_LOOKUP_RETRIES} \subseteq Nat \ {0}
  /\ {Restarts, StoreErrors} \subseteq Nat

VARIABLES
  at,       \* at[r]: "new", "encode", "handed", "prefill", "done"
  linked,   \* segments that exist in the namespace
  stored,   \* stored[h]: the segment the store names for h
  pins,     \* pins[h]: GETs without an UNPIN
  \* the encoder node
  e_mgr,    \* hashes its scheduler holds to be cached
  e_freed,  \* free_encoder_mm_hashes
  e_cache,  \* keys of the worker's encoder_cache
  e_sched,  \* who had each hash of the step scheduled
  e_todo,   \* hashes still to encode and save
  e_pc,     \* "idle", "encode", "put", "gather", "raised"
  e_now,    \* the hash being saved
  \* the language node
  c_mgr, c_freed, \* as on the encoder node
  c_need,   \* _mm_datas_need_loads, later the connector metadata
  c_enc,    \* hashes to encode here
  c_cache,  \* c_cache[h]: "no", "local", or the segment it is a view of
  c_loaded, \* _loaded: segment to release with the hash
  c_bank,   \* MemBank: segments open here
  c_pc,     \* "idle", "free", "load", "run", "raised"
  c_tries,
  \* history
  restarts, \* of the language node
  errors,   \* RESP_ERROR answers
  refused,  \* segments whose PUT was answered RESP_ERROR
  stale     \* hashes evicted from the store, or denied by it, since a PEEK found them

store    == <<linked, stored, pins>>
encoder  == <<e_mgr, e_freed, e_cache, e_sched, e_todo, e_pc, e_now>>
language == <<c_mgr, c_freed, c_need, c_enc, c_cache, c_loaded, c_bank, c_pc,
              c_tries>>
history  == <<restarts, errors, refused, stale>>
vars == <<at, store, encoder, language, history>>

Init ==
  /\ at = [r \in Reqs |-> "new"]
  /\ linked = {} /\ stored = [h \in Hashes |-> None] /\ pins = [h \in Hashes |-> 0]
  /\ e_mgr = {} /\ e_freed = {} /\ e_cache = {} /\ e_todo = {} /\ e_pc = "idle"
  /\ e_sched = [h \in Hashes |-> None] /\ e_now = None
  /\ c_mgr = {} /\ c_freed = {} /\ c_need = {} /\ c_enc = {} /\ c_bank = {}
  /\ c_cache = [h \in Hashes |-> "no"] /\ c_loaded = [h \in Hashes |-> None]
  /\ c_pc = "idle" /\ c_tries = 0
  /\ restarts = 0 /\ errors = 0 /\ refused = {} /\ stale = {}

(* The store answers a call RESP_ERROR and does nothing else.              *)
Denied == errors < StoreErrors /\ errors' = errors + 1

Used(stage) == {ImageOf[r] : r \in {q \in Reqs : at[q] = stage}}

(***************************************************************************)
(* EncoderCacheManager: hash h becomes cached, and the hashes that no      *)
(* request of the node uses are evicted as room is needed; the worker      *)
(* hears of the evicted ones with the next step.                           *)
(***************************************************************************)
Cached(mgr, mgr1, freed, freed1, cap, used, h) ==
  \/ h \in mgr /\ mgr1 = mgr /\ freed1 = freed
  \/ h \notin mgr /\ Cardinality(mgr) < cap /\ mgr1 = mgr \cup {h} /\ freed1 = freed
  \/ /\ h \notin mgr /\ Cardinality(mgr) >= cap
     /\ \E v \in mgr \ used : /\ mgr1 = (mgr \ {v}) \cup {h}
                              /\ freed1 = freed \cup {v}

-----------------------------------------------------------------------------
(* The encoder node.                                                       *)

(***************************************************************************)
(* The scheduler admits r to the step.  has_cache_item() is FALSE on the   *)
(* producer, so a hash its manager does not hold is always encoded.        *)
(***************************************************************************)
MustEncode(h) == h \notin e_mgr

EAdmit(r) ==
  LET h == ImageOf[r] IN
  /\ e_pc = "idle" /\ at[r] = "new"
  /\ Cached(e_mgr, e_mgr', e_freed, e_freed', ECap, Used("encode"), h)
  /\ e_sched' = IF MustEncode(h) THEN [e_sched EXCEPT ![h] = r] ELSE e_sched
  /\ at' = [at EXCEPT ![r] = "encode"]
  /\ UNCHANGED <<store, e_cache, e_todo, e_pc, e_now, language, history>>

Scheduled == {h \in Hashes : e_sched[h] # None}

EExecute ==
  /\ e_pc = "idle" /\ Used("encode") # {}
  /\ e_todo' = Scheduled /\ e_pc' = "encode"
  /\ UNCHANGED <<at, store, e_mgr, e_freed, e_cache, e_sched, e_now, language, history>>

(* _execute_mm_encoder() for one hash, then save_caches(): a new segment   *)
(* is filled ...                                                           *)
ESave(h) ==
  /\ e_pc = "encode" /\ h \in e_todo
  /\ e_cache' = e_cache \cup {h}
  /\ e_todo' = e_todo \ {h}
  /\ linked' = linked \cup {e_sched[h]}
  /\ e_pc' = "put" /\ e_now' = h
  /\ UNCHANGED <<at, stored, pins, e_mgr, e_freed, e_sched, language, history>>

(***************************************************************************)
(* ... and PUT; while the store answers RESP_BUFFER_FULL, which it does    *)
(* when it is full of pinned entries, the node tries again.  The store     *)
(* evicts an entry nobody has pinned; of two segments for one hash it      *)
(* keeps either and unlinks the other.  Any other answer ends the loop,    *)
(* RESP_ERROR too: the node then closes its own handle without unlinking,  *)
(* and goes on as if the segment were stored.                              *)
(***************************************************************************)
StorePut(h, s) ==
  \/ /\ stored[h] = None
     /\ Cardinality({k \in Hashes : stored[k] # None}) < Capacity
     /\ stored' = [stored EXCEPT ![h] = s]
     /\ UNCHANGED <<linked, stale>>
  \/ /\ stored[h] = None
     /\ Cardinality({k \in Hashes : stored[k] # None}) >= Capacity
     /\ \E v \in Hashes :
          /\ stored[v] # None /\ pins[v] = 0
          /\ stored' = [stored EXCEPT ![h] = s, ![v] = None]
          /\ linked' = linked \ {stored[v]}
          /\ stale' = stale \cup {v}
  \/ /\ stored[h] # None
     /\ linked' = linked \ {s}
     /\ UNCHANGED <<stored, stale>>
  \/ /\ stored[h] # None /\ pins[h] = 0
     /\ stored' = [stored EXCEPT ![h] = s]
     /\ linked' = linked \ {stored[h]}
     /\ UNCHANGED stale

FullOfPinned(h) ==
  /\ stored[h] = None /\ Cardinality({k \in Hashes : stored[k] # None}) >= Capacity
  /\ \A v \in Hashes : stored[v] # None => pins[v] > 0

SlipGiveUp ==
  /\ e_pc = "put"
  /\ \/ StorePut(e_now, e_sched[e_now])
     \/ FullOfPinned(e_now) /\ UNCHANGED <<linked, stored, stale>>
  /\ e_pc' = "encode" /\ e_now' = None
  /\ UNCHANGED <<at, pins, e_mgr, e_freed, e_cache, e_sched, e_todo, language,
                 restarts, errors, refused>>

EPut ==
  /\ e_pc = "put"
  /\ \/ /\ StorePut(e_now, e_sched[e_now])
        /\ UNCHANGED <<errors, refused>>
     \/ /\ Denied
        /\ refused' = refused \cup {e_sched[e_now]}
        /\ UNCHANGED <<linked, stored, stale>>
  /\ e_pc' = "encode" /\ e_now' = None
  /\ UNCHANGED <<at, pins, e_mgr, e_freed, e_cache, e_sched, e_todo, language,
                 restarts>>

(***************************************************************************)
(* Only now the freed hashes leave encoder_cache, and not those scheduled  *)
(* in this step; then _gather_mm_embeddings() asserts that every request   *)
(* finds its embeddings.                                                   *)
(***************************************************************************)
SlipDropScheduled == e_cache \ e_freed

CacheAfterFree == e_cache \ (e_freed \ Scheduled)

EGather ==
  /\ e_pc = "encode" /\ e_todo = {}
  /\ e_cache' = CacheAfterFree
  /\ IF Used("encode") \subseteq e_cache'
     THEN /\ e_pc' = "idle"
          /\ at' = [r \in Reqs |-> IF at[r] = "encode" THEN "handed" ELSE at[r]]
     ELSE e_pc' = "raised" /\ UNCHANGED at
  /\ e_freed' = {} /\ e_sched' = [h \in Hashes |-> None]
  /\ UNCHANGED <<store, e_mgr, e_todo, e_now, language, history>>

-----------------------------------------------------------------------------
(* The language node.                                                      *)

(***************************************************************************)
(* The scheduler admits r: a hash its manager does not hold is loaded when *)
(* PEEK finds it (has_cache_item(), which pins nothing, then               *)
(* update_state_after_alloc()) and encoded here when it does not, or when  *)
(* the store answers RESP_ERROR.                                           *)
(***************************************************************************)
CAdmit(r) ==
  LET h == ImageOf[r] IN
  /\ c_pc = "idle" /\ at[r] = "handed"
  /\ Cached(c_mgr, c_mgr', c_freed, c_freed', CCap, Used("prefill"), h)
  /\ \/ h \in c_mgr /\ UNCHANGED <<c_need, c_enc, errors, stale>>
     \/ /\ h \notin c_mgr /\ stored[h] # None
        /\ c_need' = c_need \cup {h} /\ stale' = stale \ {h}
        /\ UNCHANGED <<c_enc, errors>>
     \/ /\ h \notin c_mgr
        /\ (stored[h] = None /\ UNCHANGED errors) \/ Denied
        /\ c_enc' = c_enc \cup {h} /\ UNCHANGED <<c_need, stale>>
  /\ at' = [at EXCEPT ![r] = "prefill"]
  /\ UNCHANGED <<store, encoder, c_cache, c_loaded, c_bank, c_pc, c_tries,
                 restarts, refused>>

(* execute_model() has drained the step before; _update_states() of the    *)
(* base class drops the views of the freed hashes.                         *)
SlipKeepViews == c_cache

ViewsAfterFree == [h \in Hashes |-> IF h \in c_freed THEN "no" ELSE c_cache[h]]

CExecute ==
  /\ c_pc = "idle" /\ Used("prefill") # {}
  /\ c_cache' = ViewsAfterFree
  /\ c_pc' = "free"
  /\ UNCHANGED <<at, store, encoder, c_mgr, c_freed, c_need, c_enc, c_loaded,
                 c_bank, c_tries, history>>

(* free_caches() for one hash: close the segment without unlinking it,     *)
(* then UNPIN, whose answer nobody looks at.  A hash that was encoded here *)
(* has no segment.                                                         *)
SlipNoUnpin(h) == pins

Unpinned(h) == [pins EXCEPT ![h] = @ - 1]

LoadedAfterFree(h) == [c_loaded EXCEPT ![h] = None]

CFree(h) ==
  /\ c_pc = "free" /\ h \in c_freed
  /\ c_freed' = c_freed \ {h}
  /\ IF c_loaded[h] # None
     THEN /\ c_bank' = c_bank \ {c_loaded[h]}
          /\ \/ pins' = Unpinned(h) /\ UNCHANGED errors
             \/ Denied /\ UNCHANGED pins
          /\ c_loaded' = LoadedAfterFree(h)
     ELSE UNCHANGED <<c_bank, pins, c_loaded, errors>>
  /\ UNCHANGED <<at, linked, stored, encoder, c_mgr, c_need, c_enc, c_cache, c_pc,
                 c_tries, restarts, refused, stale>>

CFreed ==
  /\ c_pc = "free" /\ c_freed = {}
  /\ c_pc' = "load" /\ c_tries' = 0
  /\ UNCHANGED <<at, store, encoder, c_mgr, c_freed, c_need, c_enc, c_cache,
                 c_loaded, c_bank, history>>

(* start_load_caches() for one hash: GET pins the entry; attaching a       *)
(* segment that is gone raises.                                            *)
CLoad(h) ==
  LET s == stored[h] IN
  /\ c_pc = "load" /\ h \in c_need /\ c_cache[h] = "no"
  /\ s # None
  /\ pins' = [pins EXCEPT ![h] = @ + 1]
  /\ IF s \in linked
     THEN /\ c_bank' = c_bank \cup {s}
          /\ c_cache' = [c_cache EXCEPT ![h] = s]
          /\ c_loaded' = [c_loaded EXCEPT ![h] = s]
          /\ c_need' = c_need \ {h}
          /\ c_tries' = 0 /\ UNCHANGED c_pc
     ELSE c_pc' = "raised" /\ UNCHANGED <<c_bank, c_cache, c_loaded, c_need, c_tries>>
  /\ UNCHANGED <<at, linked, stored, encoder, c_mgr, c_freed, c_enc, history>>

(* A GET that the store answers RESP_NOT_FOUND is tried again, one that it *)
(* answers RESP_ERROR is not.                                              *)
CMiss(h) ==
  /\ c_pc = "load" /\ h \in c_need /\ c_cache[h] = "no"
  /\ \/ /\ stored[h] = None
        /\ c_tries' = c_tries + 1
        /\ UNCHANGED <<errors, stale>>
     \/ /\ Denied
        /\ c_tries' = EC_LOOKUP_RETRIES
        /\ stale' = stale \cup {h}
  /\ c_pc' = IF c_tries' < EC_LOOKUP_RETRIES THEN "load" ELSE "raised"
  /\ UNCHANGED <<at, store, encoder, c_mgr, c_freed, c_need, c_enc, c_cache,
                 c_loaded, c_bank, restarts, refused>>

(* _execute_mm_encoder() for what is encoded here (save_caches() returns   *)
(* at once), then the assertion of _gather_mm_embeddings().                *)
CGather ==
  /\ c_pc = "load" /\ c_need = {}
  /\ c_cache' = [h \in Hashes |-> IF h \in c_enc THEN "local" ELSE c_cache[h]]
  /\ c_enc' = {}
  /\ c_pc' = IF \A h \in Used("prefill") : c_cache'[h] # "no" THEN "run" ELSE "raised"
  /\ UNCHANGED <<at, store, encoder, c_mgr, c_freed, c_need, c_loaded, c_bank,
                 c_tries, history>>

(* The step ends: the requests D have computed the tokens of their image.  *)
CFinish(D) ==
  /\ c_pc = "run"
  /\ D # {} /\ \A r \in D : at[r] = "prefill"
  /\ at' = [r \in Reqs |-> IF r \in D THEN "done" ELSE at[r]]
  /\ c_pc' = "idle"
  /\ UNCHANGED <<store, encoder, c_mgr, c_freed, c_need, c_enc, c_cache, c_loaded,
                 c_bank, c_tries, history>>

(***************************************************************************)
(* The node is stopped and started again: close() releases every segment   *)
(* of the bank with the default unlink=True, and no pin is given back.     *)
(* The clients send the requests again.                                    *)
(***************************************************************************)
CRestart ==
  /\ restarts < Restarts /\ restarts' = restarts + 1
  /\ linked' = linked \ c_bank
  /\ at' = [r \in Reqs |-> IF at[r] = "prefill" THEN "handed" ELSE at[r]]
  /\ c_mgr' = {} /\ c_freed' = {} /\ c_need' = {} /\ c_enc' = {} /\ c_bank' = {}
  /\ c_cache' = [h \in Hashes |-> "no"] /\ c_loaded' = [h \in Hashes |-> None]
  /\ c_pc' = "idle" /\ c_tries' = 0
  /\ UNCHANGED <<stored, pins, encoder, errors, refused, stale>>

-----------------------------------------------------------------------------
EncoderNode == \/ \E r \in Reqs : EAdmit(r)
               \/ \E h \in Hashes : ESave(h)
               \/ EExecute \/ EPut \/ EGather
LanguageNode == \/ \E r \in Reqs : CAdmit(r)
                \/ \E h \in Hashes : CFree(h) \/ CLoad(h) \/ CMiss(h)
                \/ \E D \in SUBSET Reqs : CFinish(D)
                \/ CExecute \/ CFreed \/ CGather

Next == EncoderNode \/ LanguageNode \/ CRestart

(* Each engine is a busy loop in a process of its own; nothing obliges the *)
(* store to answer RESP_ERROR.                                             *)
Spec == /\ Init /\ [][Next]_vars
        /\ WF_vars(EncoderNode /\ UNCHANGED errors)
        /\ WF_vars(LanguageNode /\ UNCHANGED errors)

-----------------------------------------------------------------------------
Stages == {"new", "encode", "handed", "prefill", "done"}

(* Every variable has its type.                                            *)
TypeOK ==
  /\ at \in [Reqs -> Stages]
  /\ linked \subseteq Reqs /\ c_bank \subseteq Reqs
  /\ stored \in [Hashes -> Reqs \cup {None}]
  /\ pins \in [Hashes -> Nat]
  /\ e_mgr \subseteq Hashes /\ e_freed \subseteq Hashes /\ e_cache \subseteq Hashes
  /\ e_sched \in [Hashes -> Reqs \cup {None}] /\ e_todo \subseteq Hashes
  /\ e_pc \in {"idle", "encode", "put", "raised"} /\ e_now \in Hashes \cup {None}
  /\ c_mgr \subseteq Hashes /\ c_freed \subseteq Hashes
  /\ c_need \subseteq Hashes /\ c_enc \subseteq Hashes
  /\ c_cache \in [Hashes -> Reqs \cup {"no", "local"}]
  /\ c_loaded \in [Hashes -> Reqs \cup {None}]
  /\ c_pc \in {"idle", "free", "load", "run", "raised"}
  /\ c_tries \in 0 .. EC_LOOKUP_RETRIES /\ restarts \in 0 .. Restarts
  /\ errors \in 0 .. StoreErrors /\ refused \subseteq Reqs /\ stale \subseteq Hashes

(***************************************************************************)
(* A claim of the source that does not hold (see the README): the store    *)
(* owns its segments ("EC consumers, where the ECStore owns the segment    *)
(* lifecycle"), so what it names exists, whoever has closed it, and a GET  *)
(* that is answered RESP_OK can be attached.                               *)
(***************************************************************************)
StoreOwnsSegments == \A h \in Hashes : stored[h] # None => stored[h] \in linked

(***************************************************************************)
(* The embeddings of a request in its forward pass are a view of a segment *)
(* that still exists and that the store still names and will not evict.    *)
(***************************************************************************)
ViewsPinned ==
  \A h \in Hashes :
    c_cache[h] \in Reqs => /\ c_cache[h] \in c_bank \cap linked
                           /\ stored[h] = c_cache[h]
                           /\ pins[h] > 0

(***************************************************************************)
(* Freeing, encoding and loading in one step never lose a hash the step    *)
(* needs: the assertions of _gather_mm_embeddings() hold on both nodes,    *)
(* and until the language node was stopped once, a load fails only when    *)
(* the store evicted the entry, or answered RESP_ERROR, between the PEEK   *)
(* of the scheduler and the end of the load.                               *)
(***************************************************************************)
EncoderHit == /\ e_pc # "raised"
              /\ c_pc = "raised" => restarts > 0 \/ c_need \cap stale # {}

(* A segment that exists is named by the store, which can evict it, or is  *)
(* being saved; only one whose PUT was answered RESP_ERROR is left behind. *)
SegmentsOwned ==
  \A s \in linked : \/ s \in Range(stored) \cup refused
                    \/ e_pc = "put" /\ s = e_sched[e_now]

(* The pins that the language node will give back.                         *)
Held(h) == IF c_loaded[h] # None THEN 1 ELSE 0

(* Of the other pins of a hash, each was lost with a stop of the node, an  *)
(* UNPIN answered RESP_ERROR or the load that has just failed.             *)
PinsAccounted ==
  \A h \in Hashes :
    pins[h] - Held(h) \in 0 .. restarts + errors
                           + (IF c_pc = "raised" /\ c_loaded[h] = None THEN 1 ELSE 0)

(***************************************************************************)
(* What save_caches(), start_load_caches() and free_caches() take is given *)
(* back: of the segments all but those whose PUT the store refused, of the *)
(* pins all but one for each stop of the language node, each refused UNPIN *)
(* and the load that has just failed.  A store full of pinned entries, two *)
(* encodings of one image and an eviction between PEEK and GET lose none.  *)
(***************************************************************************)
NothingLeaks == SegmentsOwned /\ PinsAccounted

(***************************************************************************)
(* While the store has room for one entry more than the language node can  *)
(* have pinned, the PUT of the encoder node does not wait for ever: every  *)
(* request is served, unless a load failed or a pin was lost to a stop of  *)
(* the node or to a refused UNPIN.                                         *)
(***************************************************************************)
PinLost == restarts + errors > 0 /\ \E h \in Hashes : pins[h] > Held(h)

Served == <>(PinLost \/ c_pc = "raised" \/ \A r \in Reqs : at[r] = "done")
=============================================================================
