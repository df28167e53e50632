--------------------------- MODULE ECTransfer_proofs ---------------------------
(***************************************************************************)
(* The encoder-cache transfer, for any number of requests, images, store   *)
(* entries, refusals and restarts and any cache sizes: what the language   *)
(* node reads is pinned, no step misses an embedding, and neither a        *)
(* segment nor a pin leaks but for the failures that are counted.          *)
(***************************************************************************)
EXTENDS ECTransfer, TLAPS

(***************************************************************************)
(* The inductive invariant.  ViewsPinned needs that a segment serves one   *)
(* image and that a new one is not in the store (ImagesRight,              *)
(* SegmentsFresh): otherwise a PUT could unlink what a view reads.         *)
(* EncoderHit needs what the two schedulers believe to be cached.          *)
(***************************************************************************)
(* The hashes whose scheduled segment has not been filled yet.              *)
Unsaved == IF e_pc = "idle" THEN Scheduled
           ELSE IF e_pc \in {"encode", "put"} THEN e_todo ELSE {}

(* A segment serves one image.                                             *)
ImagesRight ==
  \A h \in Hashes : /\ stored[h] # None => ImageOf[stored[h]] = h
                    /\ e_sched[h] # None => ImageOf[e_sched[h]] = h
                    /\ c_loaded[h] # None => ImageOf[c_loaded[h]] = h

(* A segment that has still to be filled exists nowhere, and the one that  *)
(* is being put is not in the store.                                       *)
SegmentsFresh ==
  /\ \A r \in Reqs : at[r] = "new" => r \notin linked \cup Range(stored) \cup Range(e_sched)
  /\ \A h \in Unsaved : /\ e_sched[h] # None
                        /\ e_sched[h] \notin linked \cup Range(stored)
  /\ e_pc = "put" => /\ e_now \in Hashes \ e_todo /\ e_sched[e_now] # None
                     /\ e_sched[e_now] \notin Range(stored)

(* What the language node has loaded is open, exists, named and pinned.    *)
LoadedPinned ==
  \A h \in Hashes :
    /\ c_loaded[h] # None => /\ c_loaded[h] \in c_bank \cap linked
                             /\ stored[h] = c_loaded[h] /\ pins[h] > 0
    /\ c_cache[h] \in Reqs => c_loaded[h] = c_cache[h]

(* The views of freed hashes are gone before their segments are closed,    *)
(* and all are closed before anything is loaded.                           *)
StepPhases ==
  /\ c_pc = "free" => \A h \in c_freed : c_cache[h] = "no"
  /\ c_pc \in {"load", "run"} => c_freed = {}
  /\ c_pc = "load" => c_tries < EC_LOOKUP_RETRIES

(* What the scheduler of the encoder node holds to be cached is cached, or *)
(* scheduled in the step that is being prepared.                           *)
EncoderHolds ==
  /\ Used("encode") \subseteq e_mgr
  /\ e_mgr \subseteq (e_cache \ e_freed) \cup Scheduled
  /\ e_pc \in {"encode", "put"} => Scheduled \subseteq e_cache \cup e_todo

(* What the scheduler of the language node holds to be cached is cached, or *)
(* about to be loaded or encoded.                                          *)
LanguageHolds ==
  /\ Used("prefill") \subseteq c_mgr
  /\ \A h \in c_mgr : \/ c_cache[h] # "no" /\ h \notin c_freed
                      \/ h \in c_need \cup c_enc

(* While the language node has not been stopped, the store names only what *)
(* exists, and still names what a PEEK found unless it evicted it.         *)
StoreAnswers ==
  /\ restarts = 0 => /\ Range(stored) \subseteq linked \cup {None}
                     /\ e_pc = "put" => e_sched[e_now] \in linked
  /\ \A h \in c_need : stored[h] # None \/ h \in stale

(* A segment the language node has loaded is in use until it is freed, and *)
(* what it still has to load or to encode is neither in use nor both.      *)
ViewsKept ==
  /\ c_need \cup c_enc \subseteq Used("prefill") /\ c_need \cap c_enc = {}
  /\ c_pc = "run" => c_need = {} /\ c_enc = {}
  /\ \A h \in Hashes :
       /\ c_loaded[h] # None => \/ c_cache[h] = c_loaded[h]
                                \/ c_pc = "free" /\ h \in c_freed
       /\ c_cache[h] # "no" => h \in c_mgr \cup c_freed
       /\ h \in c_need \cup c_enc => \/ c_cache[h] = "no"
                                     \/ c_pc = "idle" /\ h \in c_freed

ECInv   == /\ TypeOK /\ ImagesRight /\ SegmentsFresh /\ LoadedPinned /\ StepPhases
           /\ EncoderHolds /\ LanguageHolds /\ StoreAnswers /\ ViewsKept
           /\ NothingLeaks /\ EncoderHit

-----------------------------------------------------------------------------
(***************************************************************************)
(* At the start nothing is stored, pinned, scheduled or cached.            *)
(***************************************************************************)
LEMMA InitEC == Init => ECInv
<1> SUFFICES ASSUME Init PROVE ECInv
  OBVIOUS
<1>1. /\ \A h \in Hashes : /\ stored[h] = None /\ e_sched[h] = None /\ c_loaded[h] = None
                           /\ c_cache[h] = "no" /\ pins[h] = 0
      /\ Scheduled = {}
  BY DEF Init, Scheduled
<1>2. TypeOK
  BY ECNumbersAssumption DEF Init, TypeOK, Stages
<1>3. Range(stored) \subseteq {None} /\ Range(e_sched) \subseteq {None}
  BY DEF Init, Range
<1>4. Used("encode") = {} /\ Used("prefill") = {}
  BY DEF Init, Used
<1>5. ImagesRight /\ LoadedPinned
  BY <1>1, ECNoneAssumption DEF ImagesRight, LoadedPinned
<1>6. SegmentsFresh
  BY <1>1, <1>3, ECNoneAssumption DEF SegmentsFresh, Unsaved, Init
<1>7. StepPhases /\ EncoderHit /\ SegmentsOwned
  BY DEF Init, StepPhases, EncoderHit, SegmentsOwned
<1>9. PinsAccounted
  BY <1>1 DEF Init, PinsAccounted, Held
<1>8. EncoderHolds /\ LanguageHolds /\ StoreAnswers /\ ViewsKept
  BY <1>1, <1>3, <1>4 DEF Init, EncoderHolds, LanguageHolds, StoreAnswers, ViewsKept
<1> QED  BY <1>2, <1>5, <1>6, <1>7, <1>8, <1>9 DEF ECInv, NothingLeaks

-----------------------------------------------------------------------------
(***************************************************************************)
(* Type correctness is inductive with the bound on the tries.              *)
(***************************************************************************)
LEMMA ECTypes ==
  ASSUME TypeOK, StepPhases, SegmentsFresh, LoadedPinned, [Next]_vars
  PROVE  TypeOK'
<1> USE DEF TypeOK, Stages, store, encoder, language, history
<1>1. ASSUME NEW r \in Reqs, EAdmit(r) PROVE TypeOK'
  BY <1>1, ECImageAssumption DEF EAdmit, Cached
<1>2. CASE EExecute
  BY <1>2 DEF EExecute, Scheduled
<1>3. ASSUME NEW h \in Hashes, ESave(h) PROVE TypeOK'
  <2>1. e_sched[h] \in Reqs
    BY <1>3 DEF ESave, SegmentsFresh, Unsaved
  <2> QED  BY <1>3, <2>1 DEF ESave
<1>4. CASE EPut
  <2>1. e_sched[e_now] \in Reqs
    BY <1>4 DEF EPut, SegmentsFresh
  <2>2. errors' \in 0 .. StoreErrors /\ refused' \subseteq Reqs
    BY <1>4, <2>1, ECNumbersAssumption DEF EPut, Denied
  <2>3. /\ linked' \subseteq Reqs /\ stale' \subseteq Hashes
        /\ stored' \in [Hashes -> Reqs \cup {None}]
    BY <1>4, <2>1 DEF EPut, StorePut
  <2> QED  BY <1>4, <2>2, <2>3 DEF EPut
<1>5. CASE EGather
  BY <1>5 DEF EGather, CacheAfterFree
<1>6. ASSUME NEW r \in Reqs, CAdmit(r) PROVE TypeOK'
  <2> DEFINE h == ImageOf[r]
  <2>1. h \in Hashes
    BY ECImageAssumption
  <2>2. c_mgr' \subseteq Hashes /\ c_freed' \subseteq Hashes
    BY <1>6, <2>1 DEF CAdmit, Cached
  <2>3. c_need' \subseteq Hashes /\ c_enc' \subseteq Hashes /\ stale' \subseteq Hashes
    BY <1>6, <2>1 DEF CAdmit
  <2>4. at' \in [Reqs -> Stages]
    BY <1>6 DEF CAdmit
  <2>5. errors' \in 0 .. StoreErrors
    BY <1>6, ECNumbersAssumption DEF CAdmit, Denied
  <2> QED  BY <1>6, <2>2, <2>3, <2>4, <2>5 DEF CAdmit
<1>7. CASE CExecute
  BY <1>7 DEF CExecute, ViewsAfterFree
<1>8. ASSUME NEW h \in Hashes, CFree(h) PROVE TypeOK'
  <2>1. c_loaded[h] # None => pins[h] - 1 \in Nat
    BY DEF LoadedPinned
  <2>2. pins' \in [Hashes -> Nat]
    BY <1>8, <2>1 DEF CFree, Unpinned
  <2>3. c_loaded' \in [Hashes -> Reqs \cup {None}] /\ c_bank' \subseteq Reqs
    BY <1>8 DEF CFree, LoadedAfterFree
  <2>4. errors' \in 0 .. StoreErrors
    BY <1>8, ECNumbersAssumption DEF CFree, Denied
  <2> QED  BY <1>8, <2>2, <2>3, <2>4 DEF CFree
<1>9. CASE CFreed
  BY <1>9, ECNumbersAssumption DEF CFreed
<1>10. ASSUME NEW h \in Hashes, CLoad(h) PROVE TypeOK'
  BY <1>10, ECNumbersAssumption DEF CLoad
<1>11. ASSUME NEW h \in Hashes, CMiss(h) PROVE TypeOK'
  BY <1>11, ECNumbersAssumption DEF CMiss, Denied, StepPhases
<1>12. CASE CGather
  BY <1>12 DEF CGather
<1>13. ASSUME NEW D \in SUBSET Reqs, CFinish(D) PROVE TypeOK'
  BY <1>13 DEF CFinish
<1>14. CASE CRestart
  BY <1>14, ECNumbersAssumption DEF CRestart
<1>15. CASE UNCHANGED vars
  BY <1>15 DEF vars
<1> QED
  BY <1>1, <1>2, <1>3, <1>4, <1>5, <1>6, <1>7, <1>8, <1>9, <1>10, <1>11, <1>12, <1>13,
     <1>14, <1>15
  DEF Next, EncoderNode, LanguageNode

-----------------------------------------------------------------------------
(***************************************************************************)
(* What a PUT does to the store: it names the new segment under its hash   *)
(* or not, and takes away at most an entry that nobody has pinned.         *)
(***************************************************************************)
LEMMA PutOutcome ==
  ASSUME TypeOK, SegmentsFresh, EPut
  PROVE  /\ e_now \in Hashes /\ e_sched[e_now] \in Reqs
         /\ \A h \in Hashes : \/ stored'[h] = stored[h]
                              \/ stored'[h] = None /\ pins[h] = 0
                              \/ h = e_now /\ stored'[h] = e_sched[e_now]
         /\ linked' \subseteq linked
         /\ Range(stored') \subseteq Range(stored) \cup {None, e_sched[e_now]}
<1> USE DEF TypeOK
<1>1. e_now \in Hashes /\ e_sched[e_now] \in Reqs
  BY DEF EPut, SegmentsFresh
<1>2. \A h \in Hashes : \/ stored'[h] = stored[h]
                        \/ stored'[h] = None /\ pins[h] = 0
                        \/ h = e_now /\ stored'[h] = e_sched[e_now]
  BY <1>1 DEF EPut, StorePut
<1>3. linked' \subseteq linked /\ DOMAIN stored' = Hashes /\ DOMAIN stored = Hashes
  BY <1>1 DEF EPut, StorePut
<1>4. Range(stored') \subseteq Range(stored) \cup {None, e_sched[e_now]}
  BY <1>2, <1>3 DEF Range
<1> QED  BY <1>1, <1>2, <1>3, <1>4

(***************************************************************************)
(* Whose segment it is never changes: a hash is scheduled under a request  *)
(* of its image, and the store and the language node take over that name.  *)
(***************************************************************************)
LEMMA ImagesStep ==
  ASSUME TypeOK, ImagesRight, SegmentsFresh, [Next]_vars
  PROVE  ImagesRight'
<1> USE DEF TypeOK, ImagesRight
<1>1. ASSUME NEW r \in Reqs, EAdmit(r) PROVE ImagesRight'
  BY <1>1, ECImageAssumption DEF EAdmit, store, language
<1>2. CASE EPut
  <2>1. e_now \in Hashes /\ ImageOf[e_sched[e_now]] = e_now
    BY <1>2 DEF EPut, SegmentsFresh
  <2> QED  BY <1>2, <2>1, PutOutcome DEF EPut, language
<1>3. CASE EGather
  BY <1>3 DEF EGather, store, language
<1>4. ASSUME NEW h \in Hashes, CFree(h) PROVE ImagesRight'
  BY <1>4 DEF CFree, LoadedAfterFree, encoder
<1>5. ASSUME NEW h \in Hashes, CLoad(h) PROVE ImagesRight'
  BY <1>5 DEF CLoad, encoder
<1>6. CASE CRestart
  BY <1>6 DEF CRestart, encoder
<1>7. ASSUME \/ EExecute \/ CExecute \/ CFreed \/ CGather \/ UNCHANGED vars
             \/ \E h \in Hashes : ESave(h) \/ CMiss(h)
             \/ \E r \in Reqs : CAdmit(r)
             \/ \E D \in SUBSET Reqs : CFinish(D)
      PROVE  UNCHANGED <<stored, e_sched, c_loaded>>
  BY <1>7 DEF EExecute, CExecute, CFreed, CGather, vars, ESave, CMiss, CAdmit, CFinish,
              store, encoder, language
<1>8. UNCHANGED <<stored, e_sched, c_loaded>> => ImagesRight'
  OBVIOUS
<1> QED
  BY <1>1, <1>2, <1>3, <1>4, <1>5, <1>6, <1>7, <1>8 DEF Next, EncoderNode, LanguageNode

(***************************************************************************)
(* A new request's segment exists nowhere, one that is scheduled and not   *)
(* yet filled still exists nowhere when another is put.                    *)
(***************************************************************************)
LEMMA FreshStep ==
  ASSUME TypeOK, ImagesRight, SegmentsFresh, LoadedPinned, [Next]_vars
  PROVE  SegmentsFresh'
<1> USE DEF TypeOK
<1>0. /\ DOMAIN stored = Hashes /\ DOMAIN e_sched = Hashes
      /\ \A h \in Hashes : stored[h] \in Range(stored) /\ e_sched[h] \in Range(e_sched)
      /\ Unsaved \subseteq Scheduled
  BY DEF Range, SegmentsFresh, Unsaved, Scheduled
<1>1. ASSUME NEW r \in Reqs, EAdmit(r) PROVE SegmentsFresh'
  <2> DEFINE h == ImageOf[r]
  <2>1. /\ h \in Hashes /\ e_pc = "idle" /\ e_pc' = "idle" /\ at[r] = "new" /\ r # None
        /\ UNCHANGED <<linked, stored>> /\ Unsaved = Scheduled /\ Unsaved' = Scheduled'
    BY <1>1, ECImageAssumption, ECNoneAssumption DEF EAdmit, store, Unsaved
  <2>2. /\ \A k \in Hashes : \/ e_sched'[k] = e_sched[k]
                             \/ e_sched'[k] = r
        /\ DOMAIN e_sched' = Hashes
    BY <1>1, <2>1 DEF EAdmit
  <2>3. Range(e_sched') \subseteq Range(e_sched) \cup {r}
    BY <2>2, <1>0 DEF Range
  <2>4. \A q \in Reqs : at'[q] = "new" => at[q] = "new" /\ q # r
    BY <1>1 DEF EAdmit
  <2>5. \A q \in Reqs : at'[q] = "new" => q \notin linked \cup Range(stored) \cup Range(e_sched')
    BY <2>3, <2>4 DEF SegmentsFresh
  <2>6. \A k \in Scheduled' : e_sched'[k] # None /\ e_sched'[k] \notin linked \cup Range(stored)
    BY <2>1, <2>2 DEF SegmentsFresh, Scheduled
  <2> QED  BY <2>1, <2>5, <2>6 DEF SegmentsFresh
<1>2. CASE EExecute
  BY <1>2 DEF EExecute, SegmentsFresh, Unsaved, Scheduled, store
<1>3. ASSUME NEW h \in Hashes, ESave(h) PROVE SegmentsFresh'
  <2>1. /\ e_pc = "encode" /\ e_pc' = "put" /\ h \in e_todo /\ e_now' = h
        /\ e_todo' = e_todo \ {h} /\ Unsaved = e_todo /\ Unsaved' = e_todo'
        /\ linked' = linked \cup {e_sched[h]} /\ UNCHANGED <<at, stored, e_sched>>
    BY <1>3 DEF ESave, Unsaved
  <2>2. \A k \in e_todo' : e_sched[k] # None /\ e_sched[k] # e_sched[h]
    BY <2>1 DEF SegmentsFresh, ImagesRight
  <2>3. e_sched[h] \in Range(e_sched) /\ e_sched[h] # None
        /\ e_sched[h] \notin Range(stored)
    BY <2>1, <1>0 DEF SegmentsFresh
  <2>4. \A k \in e_todo' : e_sched[k] \notin linked' \cup Range(stored)
    BY <2>1, <2>2 DEF SegmentsFresh
  <2>5. \A q \in Reqs : at[q] = "new" => q \notin linked' \cup Range(stored) \cup Range(e_sched)
    BY <2>1, <2>3 DEF SegmentsFresh
  <2> QED  BY <2>1, <2>2, <2>3, <2>4, <2>5 DEF SegmentsFresh
<1>4. CASE EPut
  <2>1. /\ e_pc = "put" /\ e_pc' = "encode" /\ Unsaved = e_todo /\ Unsaved' = e_todo
        /\ UNCHANGED <<at, e_sched, e_todo>>
    BY <1>4 DEF EPut, Unsaved
  <2>2. e_now \in Hashes \ e_todo /\ e_sched[e_now] \in Range(e_sched)
    BY <1>4, <1>0 DEF EPut, SegmentsFresh
  <2>3. \A k \in e_todo : e_sched[k] # None /\ e_sched[k] # e_sched[e_now]
    BY <2>1, <2>2 DEF SegmentsFresh, ImagesRight
  <2>4. \A k \in e_todo : e_sched[k] \notin linked' \cup Range(stored')
    BY <1>4, <2>1, <2>3, PutOutcome DEF SegmentsFresh
  <2>5. \A q \in Reqs : at[q] = "new" => q \notin linked' \cup Range(stored') \cup Range(e_sched)
    BY <1>4, <2>2, PutOutcome, ECNoneAssumption DEF SegmentsFresh
  <2> QED  BY <2>1, <2>3, <2>4, <2>5 DEF SegmentsFresh
<1>5. CASE EGather
  <2>1. /\ Range(e_sched') \subseteq {None} /\ e_pc' \in {"idle", "raised"}
        /\ \A q \in Reqs : at'[q] = "new" => at[q] = "new"
        /\ UNCHANGED <<linked, stored>>
    BY <1>5 DEF EGather, store, Range
  <2>2. Unsaved' = {}
    BY <1>5, <2>1 DEF EGather, Unsaved, Scheduled
  <2> QED  BY <2>1, <2>2, ECNoneAssumption DEF SegmentsFresh
<1>6. ASSUME NEW r \in Reqs, CAdmit(r) PROVE SegmentsFresh'
  BY <1>6 DEF CAdmit, SegmentsFresh, Unsaved, Scheduled, store, encoder
<1>7. ASSUME NEW D \in SUBSET Reqs, CFinish(D) PROVE SegmentsFresh'
  BY <1>7 DEF CFinish, SegmentsFresh, Unsaved, Scheduled, store, encoder
<1>8. CASE CRestart
  BY <1>8 DEF CRestart, SegmentsFresh, Unsaved, Scheduled, encoder
<1>9. ASSUME \/ CExecute \/ CFreed \/ CGather \/ UNCHANGED vars
             \/ \E h \in Hashes : CFree(h) \/ CLoad(h) \/ CMiss(h)
      PROVE  UNCHANGED <<at, linked, stored, encoder>>
  BY <1>9 DEF CExecute, CFreed, CGather, CFree, CLoad, CMiss, vars, store
<1>10. UNCHANGED <<at, linked, stored, encoder>> => SegmentsFresh'
  BY DEF SegmentsFresh, Unsaved, Scheduled, encoder
<1> QED
  BY <1>1, <1>2, <1>3, <1>4, <1>5, <1>6, <1>7, <1>8, <1>9, <1>10
  DEF Next, EncoderNode, LanguageNode

-----------------------------------------------------------------------------
(***************************************************************************)
(* What the language node has loaded stays open, in existence, named and   *)
(* pinned: a PUT evicts only what nobody has pinned, and of two segments   *)
(* for a pinned hash it is the new one that goes.                          *)
(***************************************************************************)
LEMMA LoadedStep ==
  ASSUME TypeOK, ImagesRight, SegmentsFresh, LoadedPinned, StepPhases, [Next]_vars
  PROVE  LoadedPinned'
<1> USE DEF TypeOK
<1>1. ASSUME NEW h \in Hashes, ESave(h) PROVE LoadedPinned'
  BY <1>1 DEF ESave, LoadedPinned, language
<1>2. CASE EPut
  <2>1. UNCHANGED <<pins, language>>
    BY <1>2 DEF EPut
  <2>2. /\ e_now \in Hashes /\ ImageOf[e_sched[e_now]] = e_now
        /\ \A h \in Hashes : stored[h] # e_sched[e_now]
    BY <1>2 DEF EPut, SegmentsFresh, ImagesRight, Range
  <2>3. ASSUME NEW h \in Hashes, c_loaded[h] # None
        PROVE  stored'[h] = stored[h] /\ stored[h] \in linked'
    <3>1. /\ stored[h] = c_loaded[h] /\ pins[h] # 0 /\ stored[h] \in linked
          /\ ImageOf[stored[h]] = h
      BY <2>3 DEF LoadedPinned, ImagesRight
    <3>2. \A k \in Hashes : stored[k] # None => ImageOf[stored[k]] = k
      BY DEF ImagesRight
    <3>3. stored'[h] = stored[h]
      BY <1>2, <2>2, <2>3, <3>1 DEF EPut, StorePut
    <3>4. stored[h] \in linked'
      BY <1>2, <2>2, <2>3, <3>1, <3>2 DEF EPut, StorePut
    <3> QED  BY <3>3, <3>4
  <2> QED  BY <2>1, <2>3 DEF LoadedPinned, language
<1>3. CASE CExecute
  BY <1>3, ECNoneAssumption DEF CExecute, LoadedPinned, ViewsAfterFree, store
<1>4. ASSUME NEW h \in Hashes, CFree(h) PROVE LoadedPinned'
  <2>1. c_cache[h] = "no" /\ UNCHANGED <<linked, stored, c_cache>>
    BY <1>4 DEF CFree, StepPhases
  <2>2. ASSUME NEW k \in Hashes, k # h
        PROVE  /\ c_loaded'[k] = c_loaded[k] /\ pins'[k] = pins[k]
               /\ c_loaded[k] # None => c_loaded[k] \in c_bank'
    BY <1>4, <2>2 DEF CFree, Unpinned, LoadedAfterFree, LoadedPinned, ImagesRight
  <2>3. c_loaded'[h] = None
    BY <1>4 DEF CFree, LoadedAfterFree
  <2> QED  BY <2>1, <2>2, <2>3, ECNoneAssumption DEF LoadedPinned
<1>5. ASSUME NEW h \in Hashes, CLoad(h) PROVE LoadedPinned'
  <2>1. UNCHANGED <<linked, stored>> /\ c_bank \subseteq c_bank'
    BY <1>5 DEF CLoad
  <2>2. ASSUME NEW k \in Hashes, k # h
        PROVE  c_loaded'[k] = c_loaded[k] /\ c_cache'[k] = c_cache[k] /\ pins'[k] = pins[k]
    BY <1>5, <2>2 DEF CLoad
  <2>3. /\ pins'[h] > 0
        /\ \/ /\ c_loaded'[h] = stored[h] /\ c_cache'[h] = stored[h]
              /\ stored[h] \in c_bank' \cap linked
           \/ UNCHANGED <<c_loaded, c_cache>>
    BY <1>5 DEF CLoad
  <2> QED  BY <2>1, <2>2, <2>3 DEF LoadedPinned
<1>6. CASE CGather
  BY <1>6, ECNoneAssumption DEF CGather, LoadedPinned, store
<1>7. CASE CRestart
  BY <1>7, ECNoneAssumption DEF CRestart, LoadedPinned
<1>8. ASSUME \/ EExecute \/ EGather \/ CFreed \/ UNCHANGED vars
             \/ \E r \in Reqs : EAdmit(r) \/ CAdmit(r)
             \/ \E h \in Hashes : CMiss(h)
             \/ \E D \in SUBSET Reqs : CFinish(D)
      PROVE  UNCHANGED <<linked, stored, pins, c_loaded, c_cache, c_bank>>
  BY <1>8 DEF EExecute, EGather, CFreed, vars, EAdmit, CAdmit, CMiss, CFinish, store,
              language
<1>9. UNCHANGED <<linked, stored, pins, c_loaded, c_cache, c_bank>> => LoadedPinned'
  BY DEF LoadedPinned
<1> QED
  BY <1>1, <1>2, <1>3, <1>4, <1>5, <1>6, <1>7, <1>8, <1>9
  DEF Next, EncoderNode, LanguageNode

(***************************************************************************)
(* A view goes only with the hash that is freed, and with it the segment;  *)
(* only a hash without a view is loaded or encoded.                        *)
(***************************************************************************)
LEMMA KeptStep ==
  ASSUME TypeOK, StepPhases, LanguageHolds, ViewsKept, [Next]_vars
  PROVE  ViewsKept'
<1> USE DEF TypeOK, ViewsKept
<1>1. CASE EncoderNode
  <2>1. UNCHANGED language
    BY <1>1 DEF EncoderNode, EAdmit, EExecute, ESave, EPut, EGather
  <2>2. \A q \in Reqs : at[q] = "prefill" => at'[q] = "prefill"
    BY <1>1 DEF EncoderNode, EAdmit, EExecute, ESave, EPut, EGather
  <2>3. Used("prefill") \subseteq Used("prefill")'
    BY <2>2 DEF Used
  <2> QED  BY <2>1, <2>3 DEF language
<1>2. ASSUME NEW r \in Reqs, CAdmit(r) PROVE ViewsKept'
  <2> DEFINE h == ImageOf[r]
  <2>1. /\ h \in Hashes /\ c_pc = "idle" /\ c_pc' = "idle"
        /\ UNCHANGED <<c_cache, c_loaded>>
    BY <1>2, ECImageAssumption DEF CAdmit
  <2>2. Used("prefill") \cup {h} \subseteq Used("prefill")'
    BY <1>2 DEF CAdmit, Used
  <2>3. /\ \A k \in c_mgr : k \in c_mgr' \cup c_freed'
        /\ c_freed \subseteq c_freed' /\ h \in c_mgr'
    BY <1>2 DEF CAdmit, Cached
  <2>4. \/ c_need' = c_need /\ c_enc' = c_enc
        \/ h \notin c_mgr /\ c_need' = c_need \cup {h} /\ c_enc' = c_enc
        \/ h \notin c_mgr /\ c_need' = c_need /\ c_enc' = c_enc \cup {h}
    BY <1>2 DEF CAdmit
  <2>5. h \notin c_mgr => /\ h \notin c_need \cup c_enc
                          /\ c_cache[h] = "no" \/ h \in c_freed
    BY <2>1 DEF LanguageHolds
  <2>6. /\ c_need' \cup c_enc' \subseteq Used("prefill")'
        /\ c_need' \cap c_enc' = {}
    BY <2>2, <2>4, <2>5
  <2>7. ASSUME NEW k \in Hashes
        PROVE  /\ c_loaded[k] # None => c_cache[k] = c_loaded[k]
               /\ c_cache[k] # "no" => k \in c_mgr' \cup c_freed'
               /\ k \in c_need' \cup c_enc' => c_cache[k] = "no" \/ k \in c_freed'
    <3>1. c_loaded[k] # None => c_cache[k] = c_loaded[k]
      BY <2>1
    <3>2. c_cache[k] # "no" => k \in c_mgr' \cup c_freed'
      BY <2>3
    <3>3. k \in c_need' \cup c_enc' => c_cache[k] = "no" \/ k \in c_freed'
      BY <2>1, <2>3, <2>4, <2>5
    <3> QED  BY <3>1, <3>2, <3>3
  <2>8. c_pc' # "run"
    BY <2>1
  <2> HIDE DEF h
  <2> QED  BY <2>1, <2>6, <2>7, <2>8
<1>3. CASE CExecute
  BY <1>3 DEF CExecute, ViewsAfterFree, Used
<1>4. ASSUME NEW h \in Hashes, CFree(h) PROVE ViewsKept'
  <2>1. /\ c_cache[h] = "no" /\ c_pc = "free" /\ c_pc' = "free"
        /\ c_freed' = c_freed \ {h} /\ c_loaded'[h] = None
        /\ UNCHANGED <<at, c_mgr, c_need, c_enc, c_cache>>
    BY <1>4 DEF CFree, StepPhases, LoadedAfterFree
  <2>2. \A k \in Hashes \ {h} : c_loaded'[k] = c_loaded[k]
    BY <1>4 DEF CFree, LoadedAfterFree
  <2>3. UNCHANGED Used("prefill")
    BY <2>1 DEF Used
  <2>4. ASSUME NEW k \in Hashes
        PROVE  /\ c_loaded'[k] # None => c_cache[k] = c_loaded'[k] \/ k \in c_freed'
               /\ c_cache[k] # "no" => k \in c_mgr \cup c_freed'
               /\ k \in c_need \cup c_enc => c_cache[k] = "no"
    BY <2>1, <2>2
  <2> QED  BY <2>1, <2>3, <2>4
<1>5. CASE CFreed
  BY <1>5 DEF CFreed, Used
<1>6. ASSUME NEW h \in Hashes, CLoad(h) PROVE ViewsKept'
  <2>1. /\ UNCHANGED <<at, c_mgr, c_freed, c_enc>> /\ h \in c_need /\ c_pc = "load"
        /\ c_pc' \in {"load", "raised"} /\ stored[h] \in Reqs
    BY <1>6 DEF CLoad
  <2>2. \/ UNCHANGED <<c_cache, c_loaded, c_need>>
        \/ /\ c_cache' = [c_cache EXCEPT ![h] = stored[h]] /\ c_need' = c_need \ {h}
           /\ c_loaded' = [c_loaded EXCEPT ![h] = stored[h]]
    BY <1>6 DEF CLoad
  <2>3. Used("prefill")' = Used("prefill") /\ h \in c_mgr
    BY <2>1 DEF Used, LanguageHolds
  <2> QED  BY <2>1, <2>2, <2>3
<1>7. ASSUME NEW h \in Hashes, CMiss(h) PROVE ViewsKept'
  BY <1>7 DEF CMiss, Used
<1>8. CASE CGather
  <2>1. /\ c_pc = "load" /\ c_need = {} /\ c_enc' = {} /\ c_need' = {}
        /\ UNCHANGED <<at, c_mgr, c_freed, c_loaded>> /\ c_pc' # "free"
        /\ \A h \in Hashes : c_cache'[h] = IF h \in c_enc THEN "local" ELSE c_cache[h]
    BY <1>8 DEF CGather
  <2>2. \A h \in c_enc : h \in c_mgr /\ c_loaded[h] \in {None, "no"}
    BY <2>1 DEF LanguageHolds
  <2> QED  BY <2>1, <2>2, ECNoneAssumption
<1>9. ASSUME NEW D \in SUBSET Reqs, CFinish(D) PROVE ViewsKept'
  BY <1>9 DEF CFinish
<1>10. CASE CRestart
  BY <1>10 DEF CRestart
<1>11. CASE UNCHANGED vars
  BY <1>11 DEF vars, language, Used
<1> QED
  BY <1>1, <1>2, <1>3, <1>4, <1>5, <1>6, <1>7, <1>8, <1>9, <1>10, <1>11
  DEF Next, LanguageNode

(***************************************************************************)
(* The phases of a step of the language node.                              *)
(***************************************************************************)
LEMMA PhasesStep ==
  ASSUME TypeOK, StepPhases, [Next]_vars
  PROVE  StepPhases'
<1> USE DEF TypeOK, StepPhases
<1>1. CASE EncoderNode
  BY <1>1 DEF EncoderNode, EAdmit, EExecute, ESave, EPut, EGather, language
<1>2. ASSUME NEW r \in Reqs, CAdmit(r) PROVE StepPhases'
  BY <1>2 DEF CAdmit
<1>3. CASE CExecute
  BY <1>3 DEF CExecute, ViewsAfterFree
<1>4. ASSUME NEW h \in Hashes, CFree(h) PROVE StepPhases'
  BY <1>4 DEF CFree
<1>5. CASE CFreed
  BY <1>5, ECNumbersAssumption DEF CFreed
<1>6. ASSUME NEW h \in Hashes, CLoad(h) PROVE StepPhases'
  BY <1>6, ECNumbersAssumption DEF CLoad
<1>7. ASSUME NEW h \in Hashes, CMiss(h) PROVE StepPhases'
  BY <1>7 DEF CMiss
<1>8. CASE CGather \/ \E D \in SUBSET Reqs : CFinish(D)
  BY <1>8 DEF CGather, CFinish
<1>9. CASE CRestart
  BY <1>9 DEF CRestart
<1>10. CASE UNCHANGED vars
  BY <1>10 DEF vars, language
<1> QED
  BY <1>1, <1>2, <1>3, <1>4, <1>5, <1>6, <1>7, <1>8, <1>9, <1>10 DEF Next, LanguageNode

(***************************************************************************)
(* No segment leaks: whoever leaves the store is unlinked, and so is the   *)
(* one of two segments that the store does not keep.                       *)
(***************************************************************************)
LEMMA SegmentsStep ==
  ASSUME TypeOK, SegmentsFresh, SegmentsOwned, [Next]_vars
  PROVE  SegmentsOwned'
<1> USE DEF TypeOK
<1>1. ASSUME NEW h \in Hashes, ESave(h) PROVE SegmentsOwned'
  BY <1>1 DEF ESave, SegmentsOwned, history
<1>2. CASE EPut
  <2>1. /\ e_now \in Hashes /\ e_sched[e_now] \in Reqs /\ e_sched[e_now] # None
        /\ DOMAIN stored = Hashes /\ DOMAIN stored' = Hashes
    BY <1>2, PutOutcome, ECNoneAssumption DEF EPut, SegmentsFresh, StorePut
  <2> SUFFICES ASSUME NEW s \in linked' PROVE s \in Range(stored') \cup refused'
    BY <1>2 DEF SegmentsOwned, EPut
  <2>2. s \in linked /\ (s \in Range(stored) \cup refused \/ s = e_sched[e_now])
    BY <1>2, PutOutcome DEF SegmentsOwned
  <2>3. s \in Reqs /\ s # None
    BY <2>2, ECNoneAssumption
  <2>4. CASE Denied /\ refused' = refused \cup {e_sched[e_now]} /\ UNCHANGED stored
    BY <2>2, <2>4
  <2>5. CASE StorePut(e_now, e_sched[e_now]) /\ UNCHANGED refused
    <3>1. CASE s = e_sched[e_now]
      <4>1. stored'[e_now] = s
        BY <2>1, <2>5, <3>1 DEF StorePut
      <4> QED  BY <2>1, <4>1 DEF Range
    <3>2. CASE s # e_sched[e_now] /\ s \notin refused
      <4>1. PICK k \in Hashes : stored[k] = s
        BY <2>1, <2>2, <3>2 DEF Range
      <4>2. stored'[k] = s
        BY <2>1, <2>3, <2>5, <3>2, <4>1 DEF StorePut
      <4> QED  BY <2>1, <4>2 DEF Range
    <3>3. CASE s \in refused
      BY <2>5, <3>3
    <3> QED  BY <3>1, <3>2, <3>3
  <2> QED  BY <1>2, <2>4, <2>5 DEF EPut
<1>3. ASSUME NEW r \in Reqs, EAdmit(r) PROVE SegmentsOwned'
  BY <1>3 DEF EAdmit, SegmentsOwned, store, history
<1>4. CASE EExecute \/ EGather
  BY <1>4 DEF EExecute, EGather, SegmentsOwned, store, history
<1>5. ASSUME \/ CExecute \/ CFreed \/ CGather \/ UNCHANGED vars
             \/ \E r \in Reqs : CAdmit(r)
             \/ \E h \in Hashes : CFree(h) \/ CLoad(h) \/ CMiss(h)
             \/ \E D \in SUBSET Reqs : CFinish(D)
      PROVE  UNCHANGED <<linked, stored, refused, encoder>>
  BY <1>5 DEF CExecute, CFreed, CGather, vars, CAdmit, CFree, CLoad, CMiss, CFinish,
              store, history
<1>6. UNCHANGED <<linked, stored, refused, encoder>> => SegmentsOwned'
  BY DEF SegmentsOwned, encoder
<1>7. CASE CRestart
  BY <1>7 DEF CRestart, SegmentsOwned, encoder
<1> QED
  BY <1>1, <1>2, <1>3, <1>4, <1>5, <1>6, <1>7 DEF Next, EncoderNode, LanguageNode

(***************************************************************************)
(* The pins: a load takes one and records it, a free gives it back and     *)
(* forgets it, and what is forgotten otherwise is counted.                 *)
(***************************************************************************)
LEMMA PinsStep ==
  ASSUME TypeOK, ViewsKept, PinsAccounted, [Next]_vars
  PROVE  PinsAccounted'
<1> USE DEF TypeOK
<1>0. /\ restarts \in Nat /\ errors \in Nat
      /\ \A h \in Hashes : pins[h] \in Nat
  BY ECNumbersAssumption
<1>1. ASSUME NEW h \in Hashes, CFree(h) PROVE PinsAccounted'
  <2>1. UNCHANGED <<restarts, c_pc>> /\ c_pc = "free" /\ errors' \in {errors, errors + 1}
    BY <1>1 DEF CFree, Denied
  <2>2. ASSUME NEW k \in Hashes, k # h
        PROVE  c_loaded'[k] = c_loaded[k] /\ pins'[k] = pins[k]
    BY <1>1, <2>2 DEF CFree, Unpinned, LoadedAfterFree
  <2>3. \/ c_loaded[h] = None /\ UNCHANGED <<c_loaded, pins>>
        \/ c_loaded[h] # None /\ c_loaded'[h] = None /\ pins'[h] = pins[h] - 1
        \/ /\ c_loaded[h] # None /\ c_loaded'[h] = None /\ pins'[h] = pins[h]
           /\ errors' = errors + 1
    BY <1>1 DEF CFree, Unpinned, LoadedAfterFree, Denied
  <2> QED  BY <1>0, <2>1, <2>2, <2>3 DEF PinsAccounted, Held
<1>2. ASSUME NEW h \in Hashes, CLoad(h) PROVE PinsAccounted'
  <2>1. UNCHANGED <<restarts, errors>> /\ c_pc = "load"
    BY <1>2 DEF CLoad, history
  <2>2. ASSUME NEW k \in Hashes, k # h
        PROVE  c_loaded'[k] = c_loaded[k] /\ pins'[k] = pins[k]
    BY <1>2, <2>2 DEF CLoad
  <2>3. /\ pins'[h] = pins[h] + 1 /\ stored[h] # None
        /\ \/ c_pc' = "load" /\ c_loaded'[h] = stored[h]
           \/ c_pc' = "raised" /\ c_loaded'[h] = c_loaded[h]
    BY <1>2 DEF CLoad
  <2>4. c_loaded[h] = None
    <3>1. c_cache[h] = "no" /\ c_pc = "load" /\ c_loaded[h] \in Reqs \cup {None}
      BY <1>2 DEF CLoad
    <3> QED  BY <3>1, ECNoneAssumption DEF ViewsKept
  <2> QED  BY <1>0, <2>1, <2>2, <2>3, <2>4 DEF PinsAccounted, Held
<1>3. CASE CRestart
  <2>1. /\ \A h \in Hashes : c_loaded'[h] = None
        /\ restarts' = restarts + 1 /\ UNCHANGED <<pins, errors>> /\ c_pc' = "idle"
    BY <1>3 DEF CRestart
  <2> QED  BY <1>0, <2>1 DEF PinsAccounted, Held
<1>4. ASSUME \/ EncoderNode \/ CExecute \/ CFreed \/ CGather \/ UNCHANGED vars
             \/ \E r \in Reqs : CAdmit(r)
             \/ \E h \in Hashes : CMiss(h)
             \/ \E D \in SUBSET Reqs : CFinish(D)
      PROVE  /\ UNCHANGED <<pins, c_loaded, restarts>>
             /\ errors' \in {errors, errors + 1}
             /\ c_pc = "raised" => c_pc' = "raised"
  BY <1>4 DEF EncoderNode, EAdmit, EExecute, ESave, EPut, EGather, CExecute, CFreed,
              CGather, vars, CAdmit, CMiss, CFinish, store, language, history, Denied
<1>5. ASSUME UNCHANGED <<pins, c_loaded, restarts>>, errors' \in {errors, errors + 1},
             c_pc = "raised" => c_pc' = "raised"
      PROVE  PinsAccounted'
  BY <1>0, <1>5 DEF PinsAccounted, Held
<1> QED
  BY <1>1, <1>2, <1>3, <1>4, <1>5 DEF Next, LanguageNode

(***************************************************************************)
(* Hence neither a segment nor a pin leaks unaccounted.                    *)
(***************************************************************************)
LEMMA LeakStep ==
  ASSUME TypeOK, SegmentsFresh, ViewsKept, NothingLeaks, [Next]_vars
  PROVE  NothingLeaks'
BY SegmentsStep, PinsStep DEF NothingLeaks

-----------------------------------------------------------------------------
(***************************************************************************)
(* The scheduler of the encoder node may count on what it holds: it evicts *)
(* only what no request of the step uses, and a freed hash that the step   *)
(* has scheduled again stays in the cache.                                 *)
(***************************************************************************)
LEMMA EncoderCounts ==
  ASSUME TypeOK, EncoderHolds, EGather
  PROVE  Used("encode") \subseteq CacheAfterFree /\ e_mgr \subseteq CacheAfterFree
<1>1. e_mgr \subseteq CacheAfterFree
  BY DEF EGather, EncoderHolds, CacheAfterFree
<1> QED  BY <1>1 DEF EncoderHolds

(***************************************************************************)
(* What the encoder node has scheduled stays in its cache until it is      *)
(* gathered: only an eviction by its own manager removes an entry.         *)
(***************************************************************************)
LEMMA EncoderStep ==
  ASSUME TypeOK, EncoderHolds, [Next]_vars
  PROVE  EncoderHolds'
<1> USE DEF TypeOK, EncoderHolds
<1>1. ASSUME NEW r \in Reqs, EAdmit(r) PROVE EncoderHolds'
  <2> DEFINE h == ImageOf[r]
  <2>1. h \in Hashes /\ e_pc = "idle" /\ e_pc' = "idle" /\ UNCHANGED e_cache
    BY <1>1, ECImageAssumption DEF EAdmit
  <2>2. Used("encode")' \subseteq Used("encode") \cup {h}
    BY <1>1 DEF EAdmit, Used
  <2>3. /\ h \in e_mgr' /\ Used("encode") \subseteq e_mgr'
        /\ e_mgr' \subseteq e_mgr \cup {h}
        /\ \A k \in e_mgr' \ {h} : k \in e_freed' => k \in e_freed
        /\ h \in e_mgr => UNCHANGED <<e_mgr, e_freed>>
    BY <1>1 DEF EAdmit, Cached
  <2>4. Scheduled' = IF MustEncode(h) THEN Scheduled \cup {h} ELSE Scheduled
    BY <1>1, <2>1, ECNoneAssumption DEF EAdmit, Scheduled
  <2>5. e_mgr' \subseteq (e_cache' \ e_freed') \cup Scheduled'
    BY <2>1, <2>3, <2>4 DEF MustEncode
  <2> QED  BY <2>1, <2>2, <2>3, <2>5
<1>2. CASE EExecute
  BY <1>2 DEF EExecute, Used, Scheduled
<1>3. ASSUME NEW h \in Hashes, ESave(h) PROVE EncoderHolds'
  BY <1>3 DEF ESave, Used, Scheduled
<1>4. CASE EPut
  BY <1>4 DEF EPut, Used, Scheduled
<1>5. CASE EGather
  <2>1. e_mgr' \subseteq e_cache' \ e_freed' /\ e_pc' \in {"idle", "raised"}
    BY <1>5, EncoderCounts DEF EGather
  <2>2. Used("encode")' \subseteq Used("encode") /\ UNCHANGED e_mgr
    BY <1>5 DEF EGather, Used
  <2> QED  BY <2>1, <2>2
<1>6. ASSUME NEW r \in Reqs, CAdmit(r) PROVE EncoderHolds'
  <2>1. Used("encode")' \subseteq Used("encode")
    BY <1>6 DEF CAdmit, Used
  <2> QED  BY <1>6, <2>1 DEF CAdmit, encoder, Scheduled
<1>7. ASSUME NEW D \in SUBSET Reqs, CFinish(D) PROVE EncoderHolds'
  <2>1. Used("encode")' \subseteq Used("encode")
    BY <1>7 DEF CFinish, Used
  <2> QED  BY <1>7, <2>1 DEF CFinish, encoder, Scheduled
<1>8. CASE CRestart
  <2>1. Used("encode")' \subseteq Used("encode")
    BY <1>8 DEF CRestart, Used
  <2> QED  BY <1>8, <2>1 DEF CRestart, encoder, Scheduled
<1>9. ASSUME \/ CExecute \/ CFreed \/ CGather \/ UNCHANGED vars
             \/ \E h \in Hashes : CFree(h) \/ CLoad(h) \/ CMiss(h)
      PROVE  UNCHANGED <<at, encoder>>
  BY <1>9 DEF CExecute, CFreed, CGather, CFree, CLoad, CMiss, vars
<1>10. UNCHANGED <<at, encoder>> => EncoderHolds'
  BY DEF Used, Scheduled, encoder
<1> QED
  BY <1>1, <1>2, <1>3, <1>4, <1>5, <1>6, <1>7, <1>8, <1>9, <1>10
  DEF Next, EncoderNode, LanguageNode

(***************************************************************************)
(* The scheduler of the language node, likewise: what it holds is cached   *)
(* and not freed, or this step loads or encodes it.                        *)
(***************************************************************************)
LEMMA LanguageStep ==
  ASSUME TypeOK, StepPhases, LanguageHolds, [Next]_vars
  PROVE  LanguageHolds'
<1> USE DEF TypeOK, LanguageHolds
<1>1. ASSUME NEW r \in Reqs, CAdmit(r) PROVE LanguageHolds'
  <2> DEFINE h == ImageOf[r]
  <2>1. h \in Hashes /\ UNCHANGED c_cache
    BY <1>1, ECImageAssumption DEF CAdmit
  <2>2. Used("prefill")' \subseteq Used("prefill") \cup {h}
    BY <1>1 DEF CAdmit, Used
  <2>3. /\ h \in c_mgr' /\ Used("prefill") \subseteq c_mgr'
        /\ c_mgr' \subseteq c_mgr \cup {h}
        /\ \A k \in c_mgr' \ {h} : k \in c_freed' => k \in c_freed
        /\ h \in c_mgr => UNCHANGED <<c_mgr, c_freed>>
    BY <1>1 DEF CAdmit, Cached
  <2>4. /\ c_need \subseteq c_need' /\ c_enc \subseteq c_enc'
        /\ h \notin c_mgr => h \in c_need' \cup c_enc'
    BY <1>1 DEF CAdmit
  <2> QED  BY <2>1, <2>2, <2>3, <2>4
<1>2. CASE EncoderNode
  <2>1. UNCHANGED language
    BY <1>2 DEF EncoderNode, EAdmit, EExecute, ESave, EPut, EGather
  <2>2. \A q \in Reqs : at'[q] = "prefill" => at[q] = "prefill"
    BY <1>2 DEF EncoderNode, EAdmit, EExecute, ESave, EPut, EGather
  <2>3. Used("prefill")' \subseteq Used("prefill")
    BY <2>2 DEF Used
  <2> QED  BY <2>1, <2>3 DEF language
<1>3. CASE CExecute
  BY <1>3 DEF CExecute, ViewsAfterFree, Used
<1>4. ASSUME NEW h \in Hashes, CFree(h) PROVE LanguageHolds'
  BY <1>4 DEF CFree, Used
<1>5. CASE CFreed
  BY <1>5 DEF CFreed, Used
<1>6. ASSUME NEW h \in Hashes, CLoad(h) PROVE LanguageHolds'
  <2>1. c_freed = {} /\ UNCHANGED <<at, c_mgr, c_freed, c_enc>>
    BY <1>6 DEF CLoad, StepPhases
  <2>2. \/ UNCHANGED <<c_cache, c_need>>
        \/ c_cache' = [c_cache EXCEPT ![h] = stored[h]] /\ c_need' = c_need \ {h}
    BY <1>6 DEF CLoad
  <2>3. stored[h] # "no"
    BY <1>6, ECNoneAssumption DEF CLoad
  <2> QED  BY <2>1, <2>2, <2>3 DEF Used
<1>7. ASSUME NEW h \in Hashes, CMiss(h) PROVE LanguageHolds'
  BY <1>7 DEF CMiss, Used
<1>8. CASE CGather
  BY <1>8 DEF CGather, StepPhases, Used
<1>9. ASSUME NEW D \in SUBSET Reqs, CFinish(D) PROVE LanguageHolds'
  <2>1. Used("prefill")' \subseteq Used("prefill")
    BY <1>9 DEF CFinish, Used
  <2> QED  BY <1>9, <2>1 DEF CFinish
<1>10. CASE CRestart
  <2>1. Used("prefill")' = {} /\ c_mgr' = {}
    BY <1>10 DEF CRestart, Used
  <2> QED  BY <2>1
<1>11. CASE UNCHANGED vars
  BY <1>11 DEF vars, language, Used
<1> QED
  BY <1>1, <1>2, <1>3, <1>4, <1>5, <1>6, <1>7, <1>8, <1>9, <1>10, <1>11
  DEF Next, LanguageNode

-----------------------------------------------------------------------------
(***************************************************************************)
(* While the language node has not been stopped, what the store names      *)
(* exists; and what a PEEK found is named until the store evicts it.       *)
(***************************************************************************)
LEMMA AnswersStep ==
  ASSUME TypeOK, ImagesRight, SegmentsFresh, StoreAnswers, [Next]_vars
  PROVE  StoreAnswers'
<1> USE DEF TypeOK, StoreAnswers
<1>1. ASSUME NEW h \in Hashes, ESave(h) PROVE StoreAnswers'
  BY <1>1 DEF ESave, language, history
<1>2. CASE EPut
  <2>1. /\ e_now \in Hashes /\ e_sched[e_now] \in Reqs /\ e_sched[e_now] # None
        /\ \A k \in Hashes : stored[k] # e_sched[e_now]
        /\ \A k \in Hashes : stored[k] # None => ImageOf[stored[k]] = k
    BY <1>2, PutOutcome, ECNoneAssumption DEF SegmentsFresh, EPut, ImagesRight, Range
  <2>2. e_pc = "put" /\ e_pc' = "encode" /\ UNCHANGED <<pins, language, restarts>>
    BY <1>2 DEF EPut
  <2>3. ASSUME restarts = 0, NEW k \in Hashes, stored'[k] # None
        PROVE  stored'[k] \in linked'
    <3>1. /\ e_sched[e_now] \in linked
          /\ \A j \in Hashes : stored[j] # None => stored[j] \in linked
      BY <2>2, <2>3 DEF Range
    <3> QED  BY <1>2, <2>1, <2>3, <3>1 DEF EPut, StorePut
  <2>4. DOMAIN stored' = Hashes
    BY <1>2 DEF EPut, StorePut
  <2>5. restarts = 0 => Range(stored') \subseteq linked' \cup {None}
    BY <2>3, <2>4 DEF Range
  <2>6. \A h \in c_need : stored'[h] # None \/ h \in stale'
    BY <1>2, <2>1 DEF EPut, StorePut
  <2> QED  BY <2>2, <2>5, <2>6 DEF language
<1>3. ASSUME NEW r \in Reqs, EAdmit(r) PROVE StoreAnswers'
  BY <1>3 DEF EAdmit, store, language, history
<1>4. CASE EExecute \/ EGather
  BY <1>4 DEF EExecute, EGather, store, language, history
<1>5. ASSUME NEW r \in Reqs, CAdmit(r) PROVE StoreAnswers'
  BY <1>5, ECImageAssumption DEF CAdmit, store, encoder
<1>6. ASSUME NEW h \in Hashes, CFree(h) \/ CLoad(h) \/ CMiss(h) PROVE StoreAnswers'
  BY <1>6 DEF CFree, CLoad, CMiss, store, encoder, history
<1>7. CASE CExecute \/ CFreed \/ CGather \/ \E D \in SUBSET Reqs : CFinish(D)
  BY <1>7 DEF CExecute, CFreed, CGather, CFinish, store, encoder, history
<1>8. CASE CRestart
  BY <1>8 DEF CRestart
<1>9. CASE UNCHANGED vars
  BY <1>9 DEF vars, store, encoder, language, history
<1> QED
  BY <1>1, <1>2, <1>3, <1>4, <1>5, <1>6, <1>7, <1>8, <1>9
  DEF Next, EncoderNode, LanguageNode

(***************************************************************************)
(* Hence the assertions of both nodes hold, and a load fails only for the  *)
(* two reasons that EncoderHit names.                                      *)
(***************************************************************************)
LEMMA HitStep ==
  ASSUME TypeOK, StepPhases, EncoderHolds, LanguageHolds, StoreAnswers, EncoderHit,
         [Next]_vars
  PROVE  EncoderHit'
<1> USE DEF TypeOK, EncoderHit
<1>1. CASE EGather
  BY <1>1, EncoderCounts DEF EGather, language, history
<1>2. CASE EPut
  <2>1. stale \subseteq stale'
    BY <1>2 DEF EPut, StorePut
  <2> QED  BY <1>2, <2>1 DEF EPut, language
<1>3. ASSUME NEW h \in Hashes, ESave(h) PROVE EncoderHit'
  BY <1>3 DEF ESave, language, history
<1>4. CASE EExecute \/ \E r \in Reqs : EAdmit(r)
  BY <1>4 DEF EExecute, EAdmit, language, history
<1>5. CASE \E r \in Reqs : CAdmit(r)
  BY <1>5 DEF CAdmit, encoder
<1>6. ASSUME NEW h \in Hashes, CFree(h) PROVE EncoderHit'
  BY <1>6 DEF CFree, encoder, history
<1>7. ASSUME NEW h \in Hashes, CLoad(h) PROVE EncoderHit'
  <2>1. stored[h] \in Range(stored) /\ stored[h] # None
    BY <1>7 DEF CLoad, Range
  <2>2. restarts = 0 => stored[h] \in linked
    BY <2>1 DEF StoreAnswers
  <2>3. restarts = 0 => c_pc' # "raised"
    BY <1>7, <2>2 DEF CLoad
  <2> QED  BY <1>7, <2>3 DEF CLoad, encoder, history
<1>8. ASSUME NEW h \in Hashes, CMiss(h) PROVE EncoderHit'
  BY <1>8 DEF CMiss, StoreAnswers, encoder, history
<1>9. CASE CGather
  <2>1. c_freed = {} /\ c_need = {}
    BY <1>9 DEF CGather, StepPhases
  <2>2. \A h \in Used("prefill") : c_cache'[h] # "no"
    BY <1>9, <2>1 DEF CGather, LanguageHolds
  <2> QED  BY <1>9, <2>2 DEF CGather, encoder
<1>10. CASE CExecute \/ CFreed \/ \E D \in SUBSET Reqs : CFinish(D)
  BY <1>10 DEF CExecute, CFreed, CFinish, encoder
<1>11. CASE CRestart
  BY <1>11 DEF CRestart, encoder
<1>12. CASE UNCHANGED vars
  BY <1>12 DEF vars, encoder, language, history
<1> QED
  BY <1>1, <1>2, <1>3, <1>4, <1>5, <1>6, <1>7, <1>8, <1>9, <1>10, <1>11, <1>12
  DEF Next, EncoderNode, LanguageNode

(***************************************************************************)
(* The invariance of ECInv.                                                *)
(***************************************************************************)
LEMMA ECInvariance == Spec => []ECInv
<1>1. ASSUME ECInv, [Next]_vars PROVE ECInv'
  <2>1. TypeOK' /\ ImagesRight' /\ SegmentsFresh' /\ LoadedPinned' /\ StepPhases'
    BY <1>1, ECTypes, ImagesStep, FreshStep, LoadedStep, PhasesStep DEF ECInv
  <2>2. EncoderHolds' /\ LanguageHolds' /\ StoreAnswers' /\ EncoderHit'
    BY <1>1, EncoderStep, LanguageStep, AnswersStep, HitStep DEF ECInv
  <2>3. ViewsKept' /\ NothingLeaks'
    BY <1>1, KeptStep, LeakStep DEF ECInv
  <2> QED  BY <2>1, <2>2, <2>3 DEF ECInv
<1> QED  BY InitEC, <1>1, PTL DEF Spec

-----------------------------------------------------------------------------
(***************************************************************************)
(* For any number of requests, images and store entries and any sizes of   *)
(* the two encoder caches: an embedding that the language node reads is a  *)
(* view of a segment that is open, exists and is pinned in the store       *)
(* (start_load_caches(), free_caches()), whatever the encoder node puts.   *)
(***************************************************************************)
THEOREM ViewsStayPinned == Spec => []ViewsPinned
<1>1. ECInv => ViewsPinned
  BY ECNoneAssumption DEF ECInv, TypeOK, LoadedPinned, ViewsPinned
<1> QED  BY ECInvariance, <1>1, PTL

(***************************************************************************)
(* Both assertions of _gather_mm_embeddings() hold in every step, and a    *)
(* load of the language node fails only after a restart of it or when the  *)
(* store evicted the entry, or answered RESP_ERROR, since the PEEK.        *)
(***************************************************************************)
THEOREM EmbeddingsFound == Spec => []EncoderHit
<1>1. ECInv => EncoderHit
  BY DEF ECInv
<1> QED  BY ECInvariance, <1>1, PTL

(***************************************************************************)
(* However often the store refuses a call and the language node is         *)
(* stopped: every segment of shared memory is named by the store, about to *)
(* be put, or one whose PUT was answered RESP_ERROR (save_caches()); and   *)
(* of the pins of an image the language node will give back all but one    *)
(* for each stop, each refused UNPIN and the load that has just failed     *)
(* (start_load_caches(), free_caches()).                                   *)
(***************************************************************************)
THEOREM LeaksAccounted == Spec => []NothingLeaks
<1>1. ECInv => NothingLeaks
  BY DEF ECInv
<1> QED  BY ECInvariance, <1>1, PTL
=============================================================================
