--------------------------- MODULE KVTransfer_proofs ---------------------------
(***************************************************************************)
(* The hand-off of KV caches between a prefill and a decode node, for any  *)
(* number of requests, blocks and store entries, both scheduling modes of  *)
(* either node, any pipeline depth, with aborts and with failing devices   *)
(* where the theorem does not say otherwise.                               *)
(***************************************************************************)
EXTENDS KVTransfer, FiniteSetTheorems, TLAPS

(* The batch that is handed to the device.                                 *)
LatestBatch == batches[Len(batches)]

(***************************************************************************)
(* PForward(n) when every last chunk has its buffer, which AlwaysBuffered  *)
(* shows of every state the nodes reach.                                   *)
(***************************************************************************)
Forwards(n) ==
  /\ p_pc = "forward"
  /\ n \in (IF AsyncP THEN stages ELSE 1) .. Len(p_shm) + stages
  /\ \A r \in LatestBatch.last : p_kv[p_block[r]] # None
  /\ p_flight' = p_flight \cup {<<r, p_kv[p_block[r]]>> : r \in LatestBatch.last}
  /\ LET k == IF n < Len(p_shm) THEN n ELSE Len(p_shm)
         old == ToSet(SubSeq(p_shm, 1, k))
     IN /\ p_shm' = SubSeq(p_shm, k + 1, Len(p_shm))
        /\ p_bank' = p_bank \ old
        /\ linked' = linked
  /\ p_pc' = IF AsyncP THEN "idle" ELSE "wait"
  /\ UNCHANGED <<stage, content, store, p_block, tracker, p_kv, batches, p_at,
                 p_todo, consumer>>

(***************************************************************************)
(* The inductive invariant of the prefill node.                            *)
(***************************************************************************)
InBatch(i) == batches[i].last

(* The requests that some batch has still to store.                        *)
Pending ==
  {r \in Reqs : \E i \in DOMAIN batches :
     /\ ~batches[i].saved /\ r \in InBatch(i)
     /\ p_pc \in {"save", "raising"} /\ p_at = i => r \in p_todo}

(* Every last chunk has a segment, no request is in two batches, and those *)
(* of the batches have neither been handed over nor to be scheduled again. *)
BatchOrder ==
  /\ \A r \in Reqs : stage[r] = "chunks" => r \in tracker
  /\ \A i \in DOMAIN batches : batches[i].meta = InBatch(i)
  /\ \A i, j \in DOMAIN batches : i # j => InBatch(i) \cap InBatch(j) = {}
  /\ \A i \in DOMAIN batches : \A r \in InBatch(i) : stage[r] \in {"last", "aborted"}

(* Which batch is being submitted or saved.                                *)
SavePhase ==
  /\ p_pc \in {"save", "raising"} =>
       /\ p_at \in DOMAIN batches /\ ~batches[p_at].saved
       /\ p_todo \subseteq InBatch(p_at)
  /\ p_pc = "forward" => batches # <<>> /\ ~LatestBatch.saved

(* A segment is stored once and loaded once.                               *)
Put == ToSet(store) \cup Range(got)

StoredOnce ==
  /\ \A r \in Reqs : stage[r] \in {"new", "chunks"} \/ r \in Pending =>
       r \notin Put \cup ToSet(p_shm)
  /\ IsInjective(store)
  /\ ToSet(store) \cap Range(got) = {}
  /\ LoadedOnce

(* Blocks of running requests are their own, and so is what is registered. *)
Active == {r \in Reqs : stage[r] \in {"chunks", "last"}}

Registered ==
  /\ \A r \in Active : p_block[r] \in PBlocks
  /\ \A q, r \in Active : p_block[q] = p_block[r] => q = r
  /\ \A b \in PBlocks : p_kv[b] # None =>
       p_kv[b] \in Pending /\ p_block[p_kv[b]] = b
  /\ p_pc = "forward" => \A r \in LatestBatch.last : /\ p_kv[p_block[r]] = r
                                                     /\ p_block[r] \in PBlocks
                                                     /\ r \in p_bank

(* The device writes segments that are open and not yet stored.            *)
Flights ==
  /\ \A x \in p_flight : x[2] = x[1] /\ x[2] \in p_bank
  /\ p_pc \notin {"raising", "raised"} =>
       \A x \in p_flight : \E i \in DOMAIN batches :
          /\ x[1] \in InBatch(i) /\ ~batches[i].saved
          /\ ~(p_pc = "save" /\ p_at = i)
          /\ ~(p_pc = "forward" /\ i = Len(batches))

(***************************************************************************)
(* The inductive invariant of the decode node.                             *)
(***************************************************************************)
(* The requests of the step whose segment is loaded and not yet tracked.   *)
Held == IF c_pc = "load" THEN c_meta \ c_todo
        ELSE IF c_pc = "run" THEN c_meta
        ELSE IF c_pc = "save" THEN c_todo ELSE {}

LoadOrder ==
  /\ \A r \in Reqs : stage[r] \in {"new", "chunks", "last", "handed"} => got[r] = None
  /\ c_pc = "load" => \A r \in c_todo : got[r] = None
  /\ c_pc \in {"load", "run", "save"} =>
       /\ c_todo \subseteq c_meta
       /\ \A r \in c_meta : stage[r] = "decode" /\ c_block[r] \in CBlocks
       /\ \A q, r \in c_meta : c_block[q] = c_block[r] => q = r

StepHolds ==
  /\ \A r \in Held : /\ got[r] # None /\ c_kv[c_block[r]] = got[r]
                     /\ got[r] \in c_bank /\ got[r] \notin ToSet(c_shm)
  /\ c_pc # "raised" =>
       \A b \in CBlocks : c_kv[b] # None => \E r \in Held : c_block[r] = b
  /\ ToSet(c_shm) \subseteq Range(got) \ {None}

(* A decode runs beside the rest of its own step only, and reads what no   *)
(* release of that step can reach.                                         *)
DecodeReads ==
  /\ c_running => \/ c_pc \in {"run", "raised"}
                  \/ AsyncC /\ c_pc \in {"save", "idle"}
  /\ c_running => c_use \subseteq c_bank
  /\ c_running /\ c_pc = "run" => c_use \cap ToSet(c_shm) = {}

KVInv == /\ TypeOK /\ BatchOrder /\ SavePhase /\ StoredOnce /\ Registered /\ Flights
         /\ LoadOrder /\ StepHolds /\ DecodeReads

-----------------------------------------------------------------------------
(***************************************************************************)
(* What RemoveAt() leaves: every other element, in order.                  *)
(***************************************************************************)
LEMMA RemoveAtElements ==
  ASSUME NEW S, NEW s \in Seq(S), NEW i \in 1 .. Len(s)
  PROVE  /\ RemoveAt(s, i) \in Seq(S)
         /\ ToSet(RemoveAt(s, i)) \subseteq ToSet(s)
         /\ IsInjective(s) => /\ IsInjective(RemoveAt(s, i))
                              /\ ToSet(RemoveAt(s, i)) = ToSet(s) \ {s[i]}
<1> DEFINE front == SubSeq(s, 1, i - 1)
           back == SubSeq(s, i + 1, Len(s))
           t == front \o back
<1>0. RemoveAt(s, i) = t
  BY DEF RemoveAt
<1>1. /\ front \in Seq(S) /\ Len(front) = i - 1
      /\ \A j \in 1 .. i - 1 : front[j] = s[j]
  OBVIOUS
<1>2. /\ back \in Seq(S) /\ Len(back) = Len(s) - i
      /\ \A j \in 1 .. Len(s) - i : back[j] = s[i + j]
  OBVIOUS
<1> HIDE DEF front, back
<1>3. t \in Seq(S) /\ Len(t) = Len(s) - 1
  BY <1>1, <1>2
<1>4. \A j \in 1 .. Len(s) - 1 : t[j] = IF j < i THEN s[j] ELSE s[j + 1]
  <2>1. ASSUME NEW j \in 1 .. Len(s) - 1, j < i PROVE t[j] = s[j]
    <3>1. t[j] = front[j]
      BY <1>1, <1>2, <2>1
    <3> QED  BY <1>1, <2>1, <3>1
  <2>2. ASSUME NEW j \in 1 .. Len(s) - 1, ~(j < i) PROVE t[j] = s[j + 1]
    <3>1. t[j] = back[j - (i - 1)] /\ j - (i - 1) \in 1 .. Len(s) - i
      BY <1>1, <1>2, <2>2
    <3> QED  BY <1>2, <3>1
  <2> QED  BY <2>1, <2>2
<1>5. DOMAIN t = 1 .. Len(s) - 1 /\ DOMAIN s = 1 .. Len(s)
  BY <1>3
<1> HIDE DEF t
<1>6. ToSet(t) \subseteq ToSet(s)
  BY <1>4, <1>5 DEF ToSet
<1>7. ASSUME IsInjective(s) PROVE IsInjective(t) /\ ToSet(t) = ToSet(s) \ {s[i]}
  <2>1. \A j, k \in 1 .. Len(s) : s[j] = s[k] => j = k
    BY <1>5, <1>7 DEF IsInjective
  <2>2. \A j, k \in 1 .. Len(s) - 1 : t[j] = t[k] => j = k
    BY <1>4, <2>1
  <2>3. s[i] \notin ToSet(t)
    BY <1>4, <1>5, <2>1 DEF ToSet
  <2>4. ASSUME NEW j \in 1 .. Len(s), j # i PROVE s[j] \in ToSet(t)
    <3>1. CASE j < i
      <4>1. j \in 1 .. Len(s) - 1 /\ t[j] = s[j]
        BY <3>1, <1>4
      <4> QED  BY <4>1, <1>5 DEF ToSet
    <3>2. CASE j > i
      <4>1. j - 1 \in 1 .. Len(s) - 1 /\ t[j - 1] = s[j]
        BY <3>2, <1>4
      <4> QED  BY <4>1, <1>5 DEF ToSet
    <3> QED  BY <2>4, <3>1, <3>2
  <2>5. ToSet(t) = ToSet(s) \ {s[i]}
    BY <1>5, <1>6, <2>3, <2>4 DEF ToSet
  <2> QED  BY <1>5, <2>2, <2>5 DEF IsInjective
<1> QED  BY <1>0, <1>3, <1>6, <1>7 DEF t

(***************************************************************************)
(* What Append(), Tail() and dropping the k oldest do to the elements.     *)
(***************************************************************************)
LEMMA AppendElements ==
  ASSUME NEW S, NEW s \in Seq(S), NEW e \in S
  PROVE  /\ Append(s, e) \in Seq(S)
         /\ ToSet(Append(s, e)) = ToSet(s) \cup {e}
         /\ IsInjective(s) /\ e \notin ToSet(s) => IsInjective(Append(s, e))
<1> DEFINE t == Append(s, e)
<1>1. t \in Seq(S) /\ Len(t) = Len(s) + 1
  OBVIOUS
<1>2. DOMAIN t = 1 .. Len(s) + 1 /\ DOMAIN s = 1 .. Len(s)
  BY <1>1
<1>3. t[Len(s) + 1] = e /\ \A j \in 1 .. Len(s) : t[j] = s[j]
  OBVIOUS
<1> HIDE DEF t
<1>4. ToSet(t) = ToSet(s) \cup {e}
  BY <1>2, <1>3 DEF ToSet
<1>5. IsInjective(s) /\ e \notin ToSet(s) => IsInjective(t)
  BY <1>2, <1>3 DEF ToSet, IsInjective
<1> QED  BY <1>1, <1>4, <1>5 DEF t

(***************************************************************************)
(* Dropping a prefix (CRelease cuts the oldest segments off shm_tracker)   *)
(* adds no element, and neither does the prefix itself.                    *)
(***************************************************************************)
LEMMA DropElements ==
  ASSUME NEW S, NEW s \in Seq(S), NEW k \in 0 .. Len(s)
  PROVE  /\ SubSeq(s, k + 1, Len(s)) \in Seq(S)
         /\ ToSet(SubSeq(s, k + 1, Len(s))) \subseteq ToSet(s)
         /\ ToSet(SubSeq(s, 1, k)) \subseteq ToSet(s)
<1> DEFINE t == SubSeq(s, k + 1, Len(s))
           u == SubSeq(s, 1, k)
<1>1. t \in Seq(S) /\ DOMAIN t = 1 .. Len(s) - k /\ \A j \in 1 .. Len(s) - k : t[j] = s[k + j]
  OBVIOUS
<1>2. DOMAIN u = 1 .. k /\ (\A j \in 1 .. k : u[j] = s[j]) /\ DOMAIN s = 1 .. Len(s)
  OBVIOUS
<1> HIDE DEF t, u
<1>3. ToSet(t) \subseteq ToSet(s)
  <2>1. \A j \in 1 .. Len(s) - k : k + j \in DOMAIN s /\ t[j] = s[k + j]
    BY <1>1, <1>2
  <2> QED  BY <1>1, <2>1 DEF ToSet
<1>4. ToSet(u) \subseteq ToSet(s)
  BY <1>2 DEF ToSet
<1> QED  BY <1>1, <1>3, <1>4 DEF t, u

(***************************************************************************)
(* What is left when the head of a sequence is taken.                      *)
(***************************************************************************)
LEMMA TailElements ==
  ASSUME NEW S, NEW s \in Seq(S), s # <<>>
  PROVE  /\ Tail(s) \in Seq(S) /\ Head(s) \in ToSet(s)
         /\ ToSet(Tail(s)) \subseteq ToSet(s)
         /\ ToSet(s) \subseteq ToSet(Tail(s)) \cup {Head(s)}
         /\ Len(Tail(s)) = Len(s) - 1
         /\ IsInjective(s) => IsInjective(Tail(s)) /\ Head(s) \notin ToSet(Tail(s))
<1> DEFINE t == Tail(s)
<1>1. t \in Seq(S) /\ DOMAIN t = 1 .. Len(s) - 1 /\ \A j \in 1 .. Len(s) - 1 : t[j] = s[j + 1]
  OBVIOUS
<1>5. Len(t) = Len(s) - 1
  OBVIOUS
<1>2. Head(s) = s[1] /\ DOMAIN s = 1 .. Len(s) /\ 1 \in 1 .. Len(s)
  OBVIOUS
<1> HIDE DEF t
<1>3. ToSet(t) \subseteq ToSet(s) /\ Head(s) \in ToSet(s)
  BY <1>1, <1>2 DEF ToSet
<1>4. IsInjective(s) => IsInjective(t) /\ Head(s) \notin ToSet(t)
  <2>1. \A j \in 1 .. Len(s) - 1 : j + 1 \in DOMAIN s /\ j + 1 # 1 /\ t[j] = s[j + 1]
    BY <1>1, <1>2
  <2>2. ASSUME IsInjective(s) PROVE Head(s) \notin ToSet(t)
    BY <1>1, <1>2, <2>1, <2>2 DEF ToSet, IsInjective
  <2>3. ASSUME IsInjective(s) PROVE IsInjective(t)
    <3>1. ASSUME NEW j \in 1 .. Len(s) - 1, NEW m \in 1 .. Len(s) - 1, t[j] = t[m]
          PROVE  j = m
      <4>1. j + 1 = m + 1
        BY <2>1, <2>3, <3>1 DEF IsInjective
      <4> QED  BY <4>1
    <3> QED  BY <1>1, <3>1 DEF IsInjective
  <2> QED  BY <2>2, <2>3
<1>6. ToSet(s) \subseteq ToSet(t) \cup {Head(s)}
  <2>1. \A j \in 1 .. Len(s) : j = 1 \/ (j - 1 \in 1 .. Len(s) - 1 /\ t[j - 1] = s[j])
    BY <1>1, <1>2
  <2>2. ASSUME NEW j \in 1 .. Len(s), j # 1 PROVE s[j] \in ToSet(t)
    <3>1. PICK k \in DOMAIN t : k = j - 1 /\ t[k] = s[j]
      BY <1>1, <2>1, <2>2
    <3> QED  BY <3>1 DEF ToSet
  <2> QED  BY <1>2, <2>2 DEF ToSet
<1> QED  BY <1>1, <1>3, <1>4, <1>5, <1>6 DEF t

-----------------------------------------------------------------------------
(***************************************************************************)
(* The queue of batches.                                                   *)
(***************************************************************************)
LEMMA BatchesTyped ==
  ASSUME batches \in Seq(Batch)
  PROVE  /\ DOMAIN batches = 1 .. Len(batches) /\ Len(batches) \in Nat
         /\ \A i \in DOMAIN batches : /\ batches[i] \in Batch
                                      /\ InBatch(i) \subseteq Reqs
                                      /\ batches[i].meta \subseteq Reqs
                                      /\ batches[i].saved \in BOOLEAN
<1>1. DOMAIN batches = 1 .. Len(batches) /\ Len(batches) \in Nat
  OBVIOUS
<1>2. \A i \in DOMAIN batches : batches[i] \in Batch
  OBVIOUS
<1> QED  BY <1>1, <1>2 DEF Batch, InBatch

(* The batch that is being submitted.                                      *)
LEMMA LatestTyped ==
  ASSUME batches \in Seq(Batch), batches # <<>>
  PROVE  Len(batches) \in DOMAIN batches /\ LatestBatch.last \subseteq Reqs
<1>1. Len(batches) \in DOMAIN batches
  OBVIOUS
<1> QED  BY <1>1, BatchesTyped DEF LatestBatch, InBatch

(* A batch that is submitted comes last.                                   *)
LEMMA Submitted ==
  ASSUME batches \in Seq(Batch), NEW B \in Batch, batches' = Append(batches, B)
  PROVE  /\ batches' \in Seq(Batch)
         /\ DOMAIN batches' = DOMAIN batches \cup {Len(batches) + 1}
         /\ Len(batches') = Len(batches) + 1 /\ Len(batches') \notin DOMAIN batches
         /\ \A i \in DOMAIN batches : batches'[i] = batches[i]
         /\ batches'[Len(batches')] = B /\ batches' # <<>>
<1>1. DOMAIN batches = 1 .. Len(batches) /\ Len(batches) \in Nat
  OBVIOUS
<1>2. batches' \in Seq(Batch) /\ Len(batches') = Len(batches) + 1
  OBVIOUS
<1>3. DOMAIN batches' = 1 .. Len(batches) + 1
  BY <1>2
<1>4. \A i \in 1 .. Len(batches) : batches'[i] = batches[i]
  OBVIOUS
<1>5. batches'[Len(batches) + 1] = B
  OBVIOUS
<1> QED  BY <1>1, <1>2, <1>3, <1>4, <1>5

(* A batch that is delivered came first.                                   *)
LEMMA Delivered ==
  ASSUME batches \in Seq(Batch), batches # <<>>, batches' = Tail(batches)
  PROVE  /\ batches' \in Seq(Batch)
         /\ DOMAIN batches' = 1 .. Len(batches) - 1
         /\ \A i \in DOMAIN batches' : /\ i + 1 \in DOMAIN batches
                                       /\ batches'[i] = batches[i + 1]
         /\ \A i \in DOMAIN batches : i # 1 => /\ i - 1 \in DOMAIN batches'
                                               /\ batches'[i - 1] = batches[i]
<1>1. DOMAIN batches = 1 .. Len(batches) /\ Len(batches) \in Nat
  OBVIOUS
<1>2. batches' \in Seq(Batch) /\ Len(batches') = Len(batches) - 1
  OBVIOUS
<1>3. DOMAIN batches' = 1 .. Len(batches) - 1
  BY <1>2
<1>4. \A i \in 1 .. Len(batches) - 1 : batches'[i] = batches[i + 1]
  OBVIOUS
<1> QED  BY <1>1, <1>2, <1>3, <1>4

(* A batch that has been saved is marked.                                  *)
LEMMA MarkedSaved ==
  ASSUME batches \in Seq(Batch), NEW k \in DOMAIN batches,
         batches' = [batches EXCEPT ![k] = [@ EXCEPT !.saved = TRUE]]
  PROVE  /\ batches' \in Seq(Batch) /\ DOMAIN batches' = DOMAIN batches
         /\ Len(batches') = Len(batches)
         /\ \A i \in DOMAIN batches :
              /\ batches'[i].last = batches[i].last
              /\ batches'[i].meta = batches[i].meta
              /\ batches'[i].saved = (batches[i].saved \/ i = k)
<1>1. \A i \in DOMAIN batches : batches[i] \in Batch
  OBVIOUS
<1>2. [batches[k] EXCEPT !.saved = TRUE] \in Batch
  BY <1>1 DEF Batch
<1>3. batches' \in Seq(Batch) /\ DOMAIN batches' = DOMAIN batches /\ Len(batches') = Len(batches)
  BY <1>2
<1>4. \A i \in DOMAIN batches : batches'[i] = IF i = k THEN [batches[k] EXCEPT !.saved = TRUE]
                                              ELSE batches[i]
  BY <1>1
<1>5. \A i \in DOMAIN batches : /\ batches'[i].last = batches[i].last
                                /\ batches'[i].meta = batches[i].meta
                                /\ batches'[i].saved = (batches[i].saved \/ i = k)
  BY <1>1, <1>4 DEF Batch
<1> QED  BY <1>3, <1>5

-----------------------------------------------------------------------------
(***************************************************************************)
(* Type correctness.                                                       *)
(***************************************************************************)
LEMMA InitKV == Init => KVInv
<1> SUFFICES ASSUME Init PROVE KVInv
  OBVIOUS
<1>1. /\ DOMAIN batches = {} /\ ToSet(store) = {} /\ ToSet(p_shm) = {} /\ ToSet(c_shm) = {}
      /\ IsInjective(store)
  BY DEF Init, ToSet, IsInjective
<1>2. /\ \A r \in Reqs : got[r] = None /\ stage[r] = "new"
      /\ \A b \in PBlocks : p_kv[b] = None
      /\ \A b \in CBlocks : c_kv[b] = None
      /\ Range(got) \subseteq {None} /\ Pending = {} /\ Active = {} /\ Held = {}
  BY <1>1 DEF Init, Empty, Range, Pending, Active, Held
<1>3. TypeOK
  <2>1. <<>> \in Seq(Reqs) /\ <<>> \in Seq(Batch)
    OBVIOUS
  <2>2. MemoryTypeOK
    BY <2>1 DEF Init, MemoryTypeOK, Stages, Empty
  <2>3. ProducerTypeOK
    BY <2>1 DEF Init, ProducerTypeOK, Empty
  <2>4. ConsumerTypeOK
    BY <2>1 DEF Init, ConsumerTypeOK, Empty
  <2> QED  BY <2>2, <2>3, <2>4 DEF TypeOK
<1>4. BatchOrder /\ SavePhase /\ Registered /\ Flights
  BY <1>1, <1>2 DEF Init, BatchOrder, SavePhase, Registered, Flights
<1>5. StoredOnce
  BY <1>1, <1>2, NoneAssumption DEF StoredOnce, Put, LoadedOnce
<1>6. LoadOrder /\ StepHolds /\ DecodeReads
  BY <1>1, <1>2 DEF Init, LoadOrder, StepHolds, DecodeReads
<1> QED  BY <1>3, <1>4, <1>5, <1>6 DEF KVInv

(***************************************************************************)
(* The three parts of the type invariant depend on their own variables.    *)
(***************************************************************************)
LEMMA KVFrame ==
  ASSUME TypeOK
  PROVE  /\ UNCHANGED <<stage, memory>> => MemoryTypeOK'
         /\ UNCHANGED producer => ProducerTypeOK'
         /\ UNCHANGED consumer => ConsumerTypeOK'
  BY DEF TypeOK, MemoryTypeOK, ProducerTypeOK, ConsumerTypeOK, memory, producer, consumer

(***************************************************************************)
(* The steps of the prefill node keep the types.                           *)
(***************************************************************************)
LEMMA PStepTypes ==
  ASSUME KVInv,
         \/ \E N, L \in SUBSET Reqs : PExecute(N, L)
         \/ \E n \in 0 .. Cardinality(Reqs) + stages : Forwards(n)
         \/ \E r, s \in Reqs : PDeviceFinish(r, s)
         \/ \E i \in 1 .. Len(batches) : PCollect(i) \/ PDeviceFails(i)
         \/ \E r \in Reqs : PPut(r) \/ PPutError(r)
         \/ PSaved \/ PDeliver
         \/ \E killed \in BOOLEAN : PRestart(killed)
  PROVE  TypeOK'
<1> USE DEF TypeOK, MemoryTypeOK, ProducerTypeOK, KVInv, memory, Stages
<1>0. UNCHANGED consumer => ConsumerTypeOK'
  BY KVFrame
<1>1. ASSUME NEW N \in SUBSET Reqs, NEW L \in SUBSET Reqs, PExecute(N, L) PROVE TypeOK'
  <2>1. p_block' \in [Reqs -> PBlocks \cup {None}]
    <3>1. PICK f \in Allocate(N, FreeP) :
            p_block' = [r \in Reqs |-> IF r \in N THEN f[r] ELSE p_block[r]]
      BY <1>1 DEF PExecute
    <3>2. f \in [N -> PBlocks]
      BY DEF Allocate, FreeP
    <3> QED  BY <3>1, <3>2
  <2>2. p_kv' \in [PBlocks -> Reqs \cup {None}]
    <3> DEFINE meta == L \cap (tracker \cup N)
    <3>1. \A b \in PBlocks : (\E r \in meta : p_block'[r] = b)
                               => (CHOOSE r \in meta : p_block'[r] = b) \in Reqs
      OBVIOUS
    <3>2. p_kv' = [b \in PBlocks |->
                     IF \E r \in meta : p_block'[r] = b
                     THEN CHOOSE r \in meta : p_block'[r] = b ELSE p_kv[b]]
      BY <1>1 DEF PExecute
    <3> QED  BY <3>1, <3>2
  <2>3. batches' \in Seq(Batch)
    <3>1. PICK B \in Batch : batches' = Append(batches, B)
      BY <1>1 DEF PExecute, Batch
    <3> QED  BY <3>1, Submitted
  <2>4. stage' \in [Reqs -> Stages] /\ tracker' \subseteq Reqs
    BY <1>1 DEF PExecute, TrackedAfter
  <2>5. linked' \subseteq Reqs /\ p_bank' \subseteq Reqs
    BY <1>1 DEF PExecute
  <2> QED  BY <1>0, <1>1, <2>1, <2>2, <2>3, <2>4, <2>5 DEF PExecute
<1>2. ASSUME NEW n \in 0 .. Cardinality(Reqs) + stages, Forwards(n) PROVE TypeOK'
  <2> DEFINE k == IF n < Len(p_shm) THEN n ELSE Len(p_shm)
  <2>1. k \in 0 .. Len(p_shm)
    BY NumbersAssumption, FlagsAssumption, <1>2 DEF Forwards
  <2>2. p_shm' \in Seq(Reqs)
    BY <1>2, <2>1, DropElements DEF Forwards
  <2>3. p_flight' \subseteq Reqs \X Reqs
    <3>1. LatestBatch.last \subseteq Reqs
      <4>1. p_pc = "forward" /\ SavePhase
        BY <1>2 DEF Forwards, KVInv
      <4>2. batches # <<>>
        BY <4>1 DEF SavePhase
      <4>3. batches \in Seq(Batch)
        OBVIOUS
      <4> QED  BY <4>2, <4>3, LatestTyped
    <3>2. \A r \in LatestBatch.last : p_kv[p_block[r]] \in Reqs
      BY <1>2, <3>1 DEF Forwards, Registered
    <3> QED  BY <1>2, <3>1, <3>2 DEF Forwards
  <2>4. p_bank' \subseteq Reqs /\ linked' \subseteq Reqs /\ p_pc' \in {"idle", "wait"}
    BY <1>2 DEF Forwards
  <2> QED  BY <1>0, <1>2, <2>2, <2>3, <2>4 DEF Forwards
<1>3. ASSUME NEW r \in Reqs, NEW s \in Reqs, PDeviceFinish(r, s) PROVE TypeOK'
  BY <1>0, <1>3 DEF PDeviceFinish
<1>4. ASSUME NEW i \in 1 .. Len(batches), PCollect(i) PROVE TypeOK'
  <2>1. batches[i].meta \subseteq Reqs /\ i \in Nat
    BY <1>4, BatchesTyped
  <2> QED  BY <1>0, <1>4, <2>1 DEF PCollect
<1>5. ASSUME NEW i \in 1 .. Len(batches), PDeviceFails(i) PROVE TypeOK'
  <2>1. batches[i].meta \subseteq Reqs /\ i \in Nat
    BY <1>5, BatchesTyped
  <2> QED  BY <1>0, <1>5, <2>1 DEF PDeviceFails, Raise
<1>6. ASSUME NEW r \in Reqs, Untrack(r), UNCHANGED store \/ store' = Append(store, r)
      PROVE  TypeOK'
  <2>0. Append(p_shm, r) \in Seq(Reqs) /\ Append(store, r) \in Seq(Reqs)
    OBVIOUS
  <2>1. p_shm' \in Seq(Reqs) /\ store' \in Seq(Reqs)
    BY <1>6, <2>0 DEF Untrack
  <2>2. p_kv' \in [PBlocks -> Reqs \cup {None}]
    BY <1>6 DEF Untrack
  <2> QED  BY <1>0, <1>6, <2>1, <2>2 DEF Untrack
<1>7. CASE PSaved
  <2>1. batches' \in Seq(Batch)
    BY <1>7, MarkedSaved DEF PSaved, SavePhase
  <2> QED  BY <1>0, <1>7, <2>1 DEF PSaved
<1>8. CASE PDeliver
  <2>1. batches' \in Seq(Batch)
    BY <1>8, Delivered DEF PDeliver
  <2> QED  BY <1>0, <1>8, <2>1 DEF PDeliver
<1>9. ASSUME NEW killed \in BOOLEAN, PRestart(killed) PROVE TypeOK'
  BY <1>0, <1>9 DEF PRestart, Empty
<1> QED
  BY <1>1, <1>2, <1>3, <1>4, <1>5, <1>6, <1>7, <1>8, <1>9 DEF PPut, PPutError

(***************************************************************************)
(* The steps of the decode node and of its scheduler keep the types.       *)
(***************************************************************************)
LEMMA CStepTypes ==
  ASSUME KVInv,
         \/ \E S \in SUBSET Reqs : CSchedule(S)
         \/ CStep \/ CDeviceFinish
         \/ \E r \in Reqs : CFinish(r) \/ Abort(r)
  PROVE  TypeOK'
<1> USE DEF TypeOK, MemoryTypeOK, ConsumerTypeOK, KVInv, memory, Stages
<1>0. UNCHANGED producer => ProducerTypeOK'
  BY KVFrame
<1>1. ASSUME NEW S \in SUBSET Reqs, CSchedule(S) PROVE TypeOK'
  <2>1. PICK f \in Allocate(S, FreeC) :
          c_block' = [r \in Reqs |-> IF r \in S THEN f[r] ELSE c_block[r]]
    BY <1>1 DEF CSchedule
  <2>2. f \in [S -> CBlocks]
    BY DEF Allocate, FreeC
  <2>3. c_block' \in [Reqs -> CBlocks \cup {None}]
    BY <2>1, <2>2
  <2> QED  BY <1>0, <1>1, <2>3 DEF CSchedule
<1>2. ASSUME NEW r \in Reqs, NEW i \in 1 .. Len(store), CLoad(r, i) PROVE TypeOK'
  <2>1. store' \in Seq(Reqs) /\ store[i] \in Reqs
    BY <1>2, RemoveAtElements DEF CLoad
  <2> QED  BY <1>0, <1>2, <2>1 DEF CLoad
<1>3. ASSUME NEW r \in Reqs, CMiss(r) PROVE TypeOK'
  BY <1>0, <1>3 DEF CMiss
<1>4. CASE CForward
  <2>1. \A r \in c_meta : c_kv[c_block[r]] \in Reqs \cup {None}
    BY <1>4 DEF CForward, LoadOrder
  <2>2. c_use' \subseteq Reqs \cup {None}
    BY <1>4, <2>1 DEF CForward
  <2>3. c_shm' \in Seq(Reqs)
    <3>1. c_shm' = c_shm \/ (c_shm # <<>> /\ c_shm' = Tail(c_shm))
      BY <1>4 DEF CForward
    <3>2. c_shm \in Seq(Reqs)
      OBVIOUS
    <3> QED  BY ONLY <3>1, <3>2
  <2>4. c_bank' \subseteq Reqs /\ linked' \subseteq Reqs
    <3> DEFINE R == {Head(c_shm)}
    <3>1. \/ c_bank' = c_bank \ R /\ linked' = linked \ R
          \/ UNCHANGED <<c_bank, linked>>
      BY <1>4 DEF CForward, CRelease
    <3> HIDE DEF R
    <3> QED  BY <3>1
  <2> QED  BY <1>0, <1>4, <2>2, <2>3, <2>4 DEF CForward
<1>5. CASE CStartSave
  <2>1. c_shm' \in Seq(Reqs)
    <3>1. c_shm' = c_shm \/ c_shm' = <<>>
      BY <1>5 DEF CStartSave
    <3>2. c_shm \in Seq(Reqs) /\ <<>> \in Seq(Reqs)
      OBVIOUS
    <3> QED  BY ONLY <3>1, <3>2
  <2>2. c_bank' \subseteq Reqs /\ linked' \subseteq Reqs
    BY <1>5 DEF CStartSave, CRelease
  <2> QED  BY <1>0, <1>5, <2>1, <2>2 DEF CStartSave
<1>6. CASE CUnlinkFails
  BY <1>0, <1>6 DEF CUnlinkFails
<1>7. ASSUME NEW r \in Reqs, CSave(r) PROVE TypeOK'
  <2>1. got[r] \in Reqs
    BY <1>7 DEF CSave, StepHolds, Held
  <2>2. c_shm' \in Seq(Reqs)
    BY <1>7, <2>1, AppendElements DEF CSave
  <2> QED  BY <1>0, <1>7, <2>2 DEF CSave
<1>8. CASE CSaved \/ CDeviceFinish
  BY <1>0, <1>8 DEF CSaved, CDeviceFinish
<1>9. ASSUME NEW r \in Reqs, CFinish(r) \/ Abort(r) PROVE TypeOK'
  BY <1>0, <1>9, KVFrame DEF CFinish, Abort
<1> QED
  BY <1>1, <1>2, <1>3, <1>4, <1>5, <1>6, <1>7, <1>8, <1>9 DEF CStep

-----------------------------------------------------------------------------
(***************************************************************************)
(* A batch is submitted with a segment for each of its last chunks.        *)
(***************************************************************************)
LEMMA ExecuteBatch ==
  ASSUME KVInv, NEW N \in SUBSET Reqs, NEW L \in SUBSET Reqs, PExecute(N, L)
  PROVE  /\ L \cap (tracker \cup N) = L
         /\ \E n \in Nat :
              /\ n = Len(batches') /\ n = Len(batches) + 1 /\ batches' # <<>>
              /\ DOMAIN batches' = DOMAIN batches \cup {n} /\ n \notin DOMAIN batches
              /\ \A i \in DOMAIN batches : batches'[i] = batches[i]
              /\ batches'[n].last = L /\ batches'[n].meta = L /\ ~batches'[n].saved
<1> DEFINE B == [last |-> L, meta |-> L, saved |-> FALSE]
           n == Len(batches) + 1
<1>1. L \cap (tracker \cup N) = L
  BY DEF PExecute, KVInv, BatchOrder
<1>2. batches' = Append(batches, B) /\ B \in Batch
  BY <1>1 DEF PExecute, Batch
<1>3. batches \in Seq(Batch) /\ n \in Nat
  BY DEF KVInv, TypeOK, ProducerTypeOK
<1>4. B.last = L /\ B.meta = L /\ ~B.saved
  OBVIOUS
<1> HIDE DEF B
<1>5. /\ DOMAIN batches' = DOMAIN batches \cup {n}
      /\ Len(batches') = n /\ Len(batches') \notin DOMAIN batches
      /\ \A i \in DOMAIN batches : batches'[i] = batches[i]
      /\ batches'[n] = B /\ batches' # <<>>
  BY <1>2, <1>3, Submitted
<1> QED  BY <1>1, <1>3, <1>4, <1>5

(***************************************************************************)
(* Who is waiting to be stored: a submitted batch adds its last chunks, a  *)
(* PUT takes one away, and collecting, marking and delivering batches      *)
(* change nothing.                                                         *)
(***************************************************************************)
LEMMA ExecutePends ==
  ASSUME KVInv, NEW N \in SUBSET Reqs, NEW L \in SUBSET Reqs, PExecute(N, L)
  PROVE  Pending' = Pending \cup L
<1>0. PICK n \in Nat :
      /\ DOMAIN batches' = DOMAIN batches \cup {n} /\ n \notin DOMAIN batches
      /\ \A i \in DOMAIN batches : batches'[i] = batches[i]
      /\ batches'[n].last = L /\ ~batches'[n].saved
  BY ExecuteBatch
<1>1. p_pc = "idle" /\ p_pc' = "forward"
  BY DEF PExecute
<1>2. Pending = {r \in Reqs : \E i \in DOMAIN batches : ~batches[i].saved /\ r \in batches[i].last}
  BY <1>1 DEF Pending, InBatch
<1>3. Pending' = {r \in Reqs : \E i \in DOMAIN batches' : ~batches'[i].saved /\ r \in batches'[i].last}
  BY <1>1 DEF Pending, InBatch
<1>4. ASSUME NEW r \in Reqs PROVE r \in Pending' <=> r \in Pending \/ r \in L
  BY <1>0, <1>2, <1>3
<1> QED  BY <1>4 DEF Pending

(***************************************************************************)
(* The end of a PUT, stored or refused with an error, takes one request    *)
(* from those that have still to be stored.                                *)
(***************************************************************************)
LEMMA UntrackPends ==
  ASSUME KVInv, NEW r \in Reqs, Untrack(r)
  PROVE  /\ r \in Pending /\ r \in InBatch(p_at) /\ p_at \in DOMAIN batches
         /\ ~batches[p_at].saved /\ Pending' = Pending \ {r}
<1>1. /\ p_pc \in {"save", "raising"} /\ UNCHANGED <<p_pc, p_at, batches>>
      /\ p_todo' = p_todo \ {r} /\ r \in p_todo
  BY DEF Untrack
<1>2. p_at \in DOMAIN batches /\ ~batches[p_at].saved /\ r \in InBatch(p_at)
  BY <1>1 DEF KVInv, SavePhase
<1>3. \A i \in DOMAIN batches : r \in InBatch(i) => i = p_at
  BY <1>2 DEF KVInv, BatchOrder
<1>4. r \in Pending
  BY <1>1, <1>2 DEF Pending
<1>5. ASSUME NEW q \in Reqs PROVE q \in Pending' <=> q \in Pending /\ q # r
  BY <1>1, <1>2, <1>3 DEF Pending, InBatch
<1> QED  BY <1>2, <1>4, <1>5 DEF Pending

(***************************************************************************)
(* Steps that neither submit a batch nor end a PUT leave nobody out and    *)
(* add nobody to those that have still to be stored.                       *)
(***************************************************************************)
LEMMA SamePending ==
  ASSUME KVInv,
         \/ \E n \in 0 .. Cardinality(Reqs) + stages : Forwards(n)
         \/ \E i \in 1 .. Len(batches) : PCollect(i) \/ PDeviceFails(i)
         \/ PSaved \/ PDeliver
         \/ UNCHANGED <<batches, p_pc, p_at, p_todo>>
  PROVE  Pending' = Pending
<1> USE DEF Pending, InBatch
<1>0. batches \in Seq(Batch)
  BY DEF KVInv, TypeOK, ProducerTypeOK
<1>1. CASE UNCHANGED <<batches, p_pc, p_at, p_todo>>
  BY <1>1
<1>2. ASSUME NEW n \in 0 .. Cardinality(Reqs) + stages, Forwards(n) PROVE Pending' = Pending
  BY <1>2 DEF Forwards
<1>3. ASSUME NEW i \in 1 .. Len(batches), PCollect(i) \/ PDeviceFails(i)
      PROVE  Pending' = Pending
  <2>1. /\ p_pc \in {"idle", "wait"} /\ UNCHANGED batches /\ i \in DOMAIN batches
        /\ \/ p_pc' = "raised"
           \/ p_pc' \in {"save", "raising"} /\ p_at' = i /\ p_todo' = batches[i].meta
    BY <1>0, <1>3 DEF PCollect, PDeviceFails, Raise
  <2>2. batches[i].meta = batches[i].last
    BY <2>1 DEF KVInv, BatchOrder
  <2> QED  BY <2>1, <2>2
<1>4. CASE PSaved
  <2>1. /\ p_pc \in {"save", "raising"} /\ p_pc' \in {"idle", "raised"} /\ p_todo = {}
        /\ p_at \in DOMAIN batches /\ ~batches[p_at].saved
    BY <1>4 DEF PSaved, KVInv, SavePhase
  <2>2. /\ DOMAIN batches' = DOMAIN batches
        /\ \A i \in DOMAIN batches :
              /\ batches'[i].last = batches[i].last
              /\ batches'[i].saved = (batches[i].saved \/ i = p_at)
    BY <1>0, <1>4, <2>1, MarkedSaved DEF PSaved
  <2> QED  BY <2>1, <2>2
<1>5. CASE PDeliver
  <2>1. p_pc = "idle" /\ p_pc' = "idle" /\ batches # <<>> /\ batches[1].saved
    BY <1>5 DEF PDeliver
  <2>2. /\ \A i \in DOMAIN batches' : /\ i + 1 \in DOMAIN batches
                                      /\ batches'[i] = batches[i + 1]
        /\ \A i \in DOMAIN batches : i # 1 => /\ i - 1 \in DOMAIN batches'
                                              /\ batches'[i - 1] = batches[i]
    BY <1>0, <1>5, Delivered DEF PDeliver
  <2> QED  BY <2>1, <2>2
<1> QED  BY <1>1, <1>2, <1>3, <1>4, <1>5

-----------------------------------------------------------------------------
(***************************************************************************)
(* The steps of the system, one by one.                                    *)
(***************************************************************************)
Saves(r) ==
  /\ Untrack(r)
  /\ store' = Append(store, r) \/ (PutErrors /\ UNCHANGED store)

(***************************************************************************)
(* Every last chunk has its buffer, so the assertion on it never fails:    *)
(* the block of a pending request has its segment registered.              *)
(***************************************************************************)
LEMMA AlwaysBuffered ==
  ASSUME KVInv, NEW n \in 0 .. Cardinality(Reqs) + stages, PForward(n)
  PROVE  Forwards(n)
<1>1. /\ LatestBatch.last = Buffered(LatestBatch.last)
      /\ \A r \in LatestBatch.last : p_kv[p_block[r]] # None
  <2>1. LatestBatch.last \subseteq Reqs
    BY LatestTyped DEF KVInv, TypeOK, ProducerTypeOK, PForward, SavePhase
  <2>2. \A r \in LatestBatch.last : p_kv[p_block[r]] # None
    BY <2>1, NoneAssumption DEF KVInv, Registered, PForward
  <2> QED  BY <2>2 DEF Buffered
<1>2. n \in (IF AsyncP THEN stages ELSE 1) .. Len(p_shm) + stages
  BY <1>1, NumbersAssumption DEF PForward, Oldest, LatestBatch
<1>3. p_flight' = p_flight \cup {<<r, p_kv[p_block[r]]>> : r \in LatestBatch.last}
  BY <1>1 DEF PForward, Oldest, LatestBatch
<1>4. /\ p_pc' = IF AsyncP THEN "idle" ELSE "wait"
      /\ UNCHANGED <<p_at, p_todo>>
  BY <1>1 DEF PForward, Oldest, LatestBatch
<1> QED  BY <1>1, <1>2, <1>3, <1>4 DEF PForward, Oldest, Forwards

(***************************************************************************)
(* The steps of the specification, one alternative per action.             *)
(***************************************************************************)
LEMMA KVActions ==
  ASSUME KVInv, [Next]_vars
  PROVE  \/ \E N, L \in SUBSET Reqs : PExecute(N, L)
         \/ \E n \in 0 .. Cardinality(Reqs) + stages : Forwards(n)
         \/ \E r, s \in Reqs : PDeviceFinish(r, s)
         \/ \E i \in 1 .. Len(batches) : PCollect(i) \/ PDeviceFails(i)
         \/ \E r \in Reqs : Saves(r)
         \/ PSaved \/ PDeliver
         \/ \E killed \in BOOLEAN : PRestart(killed)
         \/ \E S \in SUBSET Reqs : CSchedule(S)
         \/ \E r \in Reqs : \E i \in 1 .. Len(store) : CLoad(r, i)
         \/ \E r \in Reqs : CMiss(r) \/ CSave(r)
         \/ CForward \/ CStartSave \/ CUnlinkFails \/ CSaved \/ CDeviceFinish
         \/ \E r \in Reqs : CFinish(r) \/ Abort(r)
         \/ UNCHANGED vars
<1>1. CASE Schedule
  BY <1>1 DEF Schedule
<1>2. CASE PBack
  BY <1>2, AlwaysBuffered DEF PBack, PStep, PSave, Saves, PPut
<1>3. CASE CStep
  BY <1>3 DEF CStep
<1>4. CASE Device
  BY <1>4 DEF Device
<1>5. ASSUME NEW r \in Reqs, PPutError(r) PROVE Saves(r)
  BY <1>5 DEF PPutError, Saves
<1>6. CASE (\E killed \in BOOLEAN : PRestart(killed)) \/ \E i \in 1 .. Len(batches) : PDeviceFails(i)
  BY <1>6
<1>7. CASE \E r \in Reqs : PPutError(r) \/ CFinish(r) \/ Abort(r)
  BY <1>5, <1>7
<1> QED  BY <1>1, <1>2, <1>3, <1>4, <1>6, <1>7 DEF Next

(***************************************************************************)
(* The queue of batches stays in order.                                    *)
(***************************************************************************)
LEMMA OrderStep ==
  ASSUME KVInv, [Next]_vars
  PROVE  BatchOrder' /\ SavePhase'
<1> USE DEF BatchOrder, SavePhase, InBatch, LatestBatch
<1>0. BatchOrder /\ SavePhase /\ batches \in Seq(Batch) /\ p_todo \subseteq Reqs /\ stage \in [Reqs -> Stages]
      /\ DOMAIN batches = 1 .. Len(batches)
      /\ \A i \in DOMAIN batches : batches[i].last \subseteq Reqs
  BY BatchesTyped DEF KVInv, TypeOK, ProducerTypeOK, MemoryTypeOK
<1>1. ASSUME NEW N \in SUBSET Reqs, NEW L \in SUBSET Reqs, PExecute(N, L)
      PROVE  BatchOrder' /\ SavePhase'
  <2>1. PICK n \in Nat :
           /\ n = Len(batches') /\ batches' # <<>>
           /\ DOMAIN batches' = DOMAIN batches \cup {n} /\ n \notin DOMAIN batches
           /\ \A i \in DOMAIN batches : batches'[i] = batches[i]
           /\ batches'[n].last = L /\ batches'[n].meta = L /\ ~batches'[n].saved
    BY <1>1, ExecuteBatch
  <2>2. /\ \A r \in Reqs : stage'[r] = IF r \in L THEN "last"
                                       ELSE IF r \in N THEN "chunks" ELSE stage[r]
        /\ \A r \in N : stage[r] = "new"
        /\ \A r \in L : r \in N \/ stage[r] = "chunks"
        /\ tracker' = (tracker \cup N) \ L
        /\ p_pc' = "forward"
    BY <1>0, <1>1 DEF PExecute, TrackedAfter
  <2>3. \A i \in DOMAIN batches : batches[i].last \cap L = {} /\ batches[i].last \cap N = {}
    BY <1>0, <2>2
  <2>4. \A r \in Reqs : stage'[r] = "chunks" => r \in tracker'
    BY <1>0, <2>2
  <2>5. \A i \in DOMAIN batches' : batches'[i].meta = batches'[i].last
    BY <1>0, <2>1
  <2>6. \A i, j \in DOMAIN batches' : i # j => batches'[i].last \cap batches'[j].last = {}
    BY <1>0, <2>1, <2>3
  <2>7. \A i \in DOMAIN batches' : \A r \in batches'[i].last : stage'[r] \in {"last", "aborted"}
    BY <1>0, <2>1, <2>2, <2>3
  <2> QED  BY <2>1, <2>2, <2>4, <2>5, <2>6, <2>7
<1>2. ASSUME NEW n \in 0 .. Cardinality(Reqs) + stages, Forwards(n)
      PROVE  BatchOrder' /\ SavePhase'
  BY <1>0, <1>2 DEF Forwards
<1>3. ASSUME NEW i \in 1 .. Len(batches), PCollect(i) \/ PDeviceFails(i)
      PROVE  BatchOrder' /\ SavePhase'
  BY <1>0, <1>3 DEF PCollect, PDeviceFails, Raise
<1>4. ASSUME NEW r \in Reqs, Saves(r) PROVE BatchOrder' /\ SavePhase'
  BY <1>0, <1>4 DEF Saves, Untrack
<1>5. CASE PSaved
  <2>1. p_at \in DOMAIN batches
    BY <1>0, <1>5 DEF PSaved
  <2>2. /\ DOMAIN batches' = DOMAIN batches
        /\ \A i \in DOMAIN batches :
              /\ batches'[i].last = batches[i].last
              /\ batches'[i].meta = batches[i].meta
    BY <1>0, <1>5, <2>1, MarkedSaved DEF PSaved
  <2> QED  BY <1>0, <1>5, <2>2 DEF PSaved
<1>6. CASE PDeliver
  <2>1. /\ p_pc' = "idle" /\ UNCHANGED tracker /\ 1 \in DOMAIN batches
        /\ \A r \in Reqs : \/ stage'[r] = stage[r]
                           \/ r \in batches[1].last /\ stage'[r] = "handed"
    BY <1>0, <1>6 DEF PDeliver
  <2>2. \A i \in DOMAIN batches' : /\ i + 1 \in DOMAIN batches /\ i + 1 # 1
                                   /\ batches'[i] = batches[i + 1] /\ i \in Nat
    BY <1>0, <1>6, Delivered DEF PDeliver
  <2>3. \A i \in DOMAIN batches' : batches'[i].meta = batches'[i].last
    BY <1>0, <2>2
  <2>4. \A i, j \in DOMAIN batches' : i # j => batches'[i].last \cap batches'[j].last = {}
    <3>1. \A i, j \in DOMAIN batches' : i # j => i + 1 # j + 1
      BY <2>2
    <3> QED  BY <1>0, <2>2, <3>1
  <2>5. \A i \in DOMAIN batches' : \A r \in batches'[i].last : stage'[r] \in {"last", "aborted"}
    BY <1>0, <2>1, <2>2
  <2> QED  BY <1>0, <2>1, <2>3, <2>4, <2>5
<1>7. ASSUME NEW killed \in BOOLEAN, PRestart(killed) PROVE BatchOrder' /\ SavePhase'
  BY <1>0, <1>7 DEF PRestart
<1>8. ASSUME NEW S \in SUBSET Reqs, CSchedule(S) PROVE BatchOrder' /\ SavePhase'
  BY <1>0, <1>8 DEF CSchedule, producer
<1>9. ASSUME NEW r \in Reqs, CFinish(r) \/ Abort(r) PROVE BatchOrder' /\ SavePhase'
  <2>1. /\ UNCHANGED producer
        /\ \A q \in Reqs : \/ stage'[q] = stage[q]
                           \/ stage'[q] = "aborted"
                           \/ stage[q] = "decode" /\ stage'[q] = "done"
    BY <1>0, <1>9 DEF CFinish, Abort
  <2> QED  BY <1>0, <2>1 DEF producer
<1>10. ASSUME \/ \E r, s \in Reqs : PDeviceFinish(r, s)
              \/ \E r \in Reqs : \E i \in 1 .. Len(store) : CLoad(r, i)
              \/ \E r \in Reqs : CMiss(r) \/ CSave(r)
              \/ CForward \/ CStartSave \/ CUnlinkFails \/ CSaved \/ CDeviceFinish
              \/ UNCHANGED vars
       PROVE  UNCHANGED <<stage, tracker, batches, p_pc, p_at, p_todo>>
  BY <1>10 DEF PDeviceFinish, CLoad, CMiss, CSave, CForward, CStartSave, CUnlinkFails,
               CSaved, CDeviceFinish, vars, producer
<1>11. UNCHANGED <<stage, tracker, batches, p_pc, p_at, p_todo>> => BatchOrder' /\ SavePhase'
  BY <1>0
<1> QED
  BY <1>1, <1>2, <1>3, <1>4, <1>5, <1>6, <1>7, <1>8, <1>9, <1>10, <1>11, KVActions

-----------------------------------------------------------------------------
(***************************************************************************)
(* A request that has been scheduled to its end is never scheduled again,  *)
(* and what is waiting for its PUT grows with a new batch only.            *)
(***************************************************************************)
LEMMA NeverFreshAgain ==
  ASSUME KVInv, [Next]_vars
  PROVE  \A r \in Reqs : stage'[r] \in {"new", "chunks"} => stage[r] \in {"new", "chunks"}
<1>0. stage \in [Reqs -> Stages]
  BY DEF KVInv, TypeOK, MemoryTypeOK
<1>1. ASSUME NEW N \in SUBSET Reqs, NEW L \in SUBSET Reqs, PExecute(N, L)
      PROVE  \A r \in Reqs : stage'[r] \in {"new", "chunks"} => stage[r] \in {"new", "chunks"}
  BY <1>0, <1>1 DEF PExecute
<1>2. ASSUME \/ PDeliver \/ \E killed \in BOOLEAN : PRestart(killed)
             \/ \E S \in SUBSET Reqs : CSchedule(S)
             \/ \E r \in Reqs : CFinish(r) \/ Abort(r)
      PROVE  \A r \in Reqs : stage'[r] \in {"new", "chunks"} => stage[r] \in {"new", "chunks"}
  BY <1>0, <1>2 DEF PDeliver, PRestart, CSchedule, CFinish, Abort
<1>3. ASSUME \/ \E n \in 0 .. Cardinality(Reqs) + stages : Forwards(n)
             \/ \E r, s \in Reqs : PDeviceFinish(r, s)
             \/ \E i \in 1 .. Len(batches) : PCollect(i) \/ PDeviceFails(i)
             \/ \E r \in Reqs : Saves(r)
             \/ PSaved
             \/ \E r \in Reqs : \E i \in 1 .. Len(store) : CLoad(r, i)
             \/ \E r \in Reqs : CMiss(r) \/ CSave(r)
             \/ CForward \/ CStartSave \/ CUnlinkFails \/ CSaved \/ CDeviceFinish
             \/ UNCHANGED vars
      PROVE  UNCHANGED stage
  BY <1>3 DEF Forwards, PDeviceFinish, PCollect, PDeviceFails, Raise, Saves, Untrack, PSaved, CLoad,
              CMiss, CSave, CForward, CStartSave, CUnlinkFails, CSaved, CDeviceFinish, vars
<1> QED  BY <1>1, <1>2, <1>3, KVActions

(***************************************************************************)
(* Every segment is stored once and loaded once.                           *)
(***************************************************************************)
LEMMA StoredStep ==
  ASSUME KVInv, [Next]_vars
  PROVE  StoredOnce'
<1> DEFINE Fresh == {r \in Reqs : stage[r] \in {"new", "chunks"}}
<1>0. /\ store \in Seq(Reqs) /\ p_shm \in Seq(Reqs) /\ got \in [Reqs -> Reqs \cup {None}]
      /\ IsInjective(store) /\ ToSet(store) \cap Range(got) = {} /\ LoadedOnce
      /\ (Fresh \cup Pending) \cap (ToSet(store) \cup Range(got) \cup ToSet(p_shm)) = {}
      /\ Fresh' \subseteq Fresh /\ Pending \subseteq Reqs
  BY NeverFreshAgain
     DEF KVInv, TypeOK, MemoryTypeOK, ProducerTypeOK, ConsumerTypeOK, StoredOnce, Put, Pending
<1>1. SUFFICES /\ IsInjective(store') /\ ToSet(store') \cap Range(got') = {} /\ LoadedOnce'
               /\ (Fresh' \cup Pending') \cap (ToSet(store') \cup Range(got') \cup ToSet(p_shm')) = {}
  BY DEF StoredOnce, Put, Pending
<1> DEFINE Goal == /\ IsInjective(store') /\ ToSet(store') \cap Range(got') = {} /\ LoadedOnce'
                   /\ (Fresh' \cup Pending') \cap (ToSet(store') \cup Range(got') \cup ToSet(p_shm')) = {}
<1>2. ASSUME NEW N \in SUBSET Reqs, NEW L \in SUBSET Reqs, PExecute(N, L) PROVE Goal
  <2>1. Pending' = Pending \cup L /\ L \subseteq Fresh
    BY <1>2, ExecutePends DEF PExecute
  <2>2. UNCHANGED <<store, got, p_shm>>
    BY <1>2 DEF PExecute, consumer
  <2> QED  BY <1>0, <2>1, <2>2 DEF LoadedOnce
<1>3. ASSUME NEW n \in 0 .. Cardinality(Reqs) + stages, Forwards(n) PROVE Goal
  <2> DEFINE k == IF n < Len(p_shm) THEN n ELSE Len(p_shm)
  <2>1. k \in 0 .. Len(p_shm)
    BY <1>0, <1>3, NumbersAssumption, FlagsAssumption DEF Forwards
  <2>2. ToSet(p_shm') \subseteq ToSet(p_shm)
    BY <1>0, <1>3, <2>1, DropElements DEF Forwards
  <2>3. UNCHANGED <<store, got>> /\ Pending' = Pending
    BY <1>3, SamePending DEF Forwards, consumer
  <2> QED  BY <1>0, <2>2, <2>3 DEF LoadedOnce
<1>4. ASSUME NEW r \in Reqs, Saves(r) PROVE Goal
  <2>1. r \in Pending /\ Pending' = Pending \ {r} /\ stage[r] \in {"last", "aborted"}
    BY <1>4, UntrackPends DEF Saves, KVInv, BatchOrder
  <2>2. /\ UNCHANGED got /\ p_shm' = Append(p_shm, r) /\ r \notin Fresh
        /\ store' = Append(store, r) \/ UNCHANGED store
    BY <1>4, <2>1 DEF Saves, Untrack, consumer
  <2>3. ToSet(p_shm') = ToSet(p_shm) \cup {r}
    BY <1>0, <2>2, AppendElements
  <2>4. IsInjective(store') /\ ToSet(store') \subseteq ToSet(store) \cup {r}
    <3>1. r \notin ToSet(store)
      BY <1>0, <2>1
    <3>2. CASE store' = Append(store, r)
      BY <1>0, <3>1, <3>2, AppendElements
    <3>3. CASE UNCHANGED store
      BY <1>0, <3>3
    <3> QED  BY <2>2, <3>2, <3>3
  <2> QED  BY <1>0, <2>1, <2>2, <2>3, <2>4 DEF LoadedOnce
<1>5. ASSUME NEW killed \in BOOLEAN, PRestart(killed) PROVE Goal
  <2>1. Pending' = {} /\ ToSet(p_shm') = {} /\ UNCHANGED <<store, got>>
    BY <1>5 DEF PRestart, Pending, ToSet, consumer
  <2> QED  BY <1>0, <2>1 DEF LoadedOnce
<1>6. ASSUME NEW r \in Reqs, NEW i \in 1 .. Len(store), CLoad(r, i) PROVE Goal
  <2>1. /\ store[i] \in ToSet(store) /\ store[i] \in Reqs
        /\ IsInjective(store') /\ ToSet(store') = ToSet(store) \ {store[i]}
    <3>1. store' = RemoveAt(store, i)
      BY <1>6 DEF CLoad
    <3>2. i \in DOMAIN store
      BY <1>0
    <3>3. store[i] \in ToSet(store) /\ store[i] \in Reqs
      BY <1>0, <3>2 DEF ToSet
    <3>4. /\ IsInjective(RemoveAt(store, i))
          /\ ToSet(RemoveAt(store, i)) = ToSet(store) \ {store[i]}
      BY <1>0, RemoveAtElements
    <3> QED  BY <3>1, <3>3, <3>4
  <2>2. \/ UNCHANGED got
        \/ got' = [got EXCEPT ![r] = store[i]]
    BY <1>6 DEF CLoad
  <2>3. Range(got') \subseteq Range(got) \cup {store[i]}
    BY <1>0, <2>2 DEF Range
  <2>4. LoadedOnce'
    <3>1. \A q \in Reqs : got[q] # store[i]
      BY <1>0, <2>1 DEF Range
    <3> QED  BY <1>0, <2>2, <3>1 DEF LoadedOnce
  <2>5. Pending' = Pending /\ UNCHANGED p_shm
    BY <1>6, SamePending DEF CLoad, producer
  <2> QED  BY <1>0, <2>1, <2>3, <2>4, <2>5
<1>7. ASSUME \/ \E i \in 1 .. Len(batches) : PCollect(i) \/ PDeviceFails(i)
             \/ PSaved \/ PDeliver \/ \E r, s \in Reqs : PDeviceFinish(r, s)
             \/ \E S \in SUBSET Reqs : CSchedule(S)
             \/ \E r \in Reqs : CMiss(r) \/ CSave(r) \/ CFinish(r) \/ Abort(r)
             \/ CForward \/ CStartSave \/ CUnlinkFails \/ CSaved \/ CDeviceFinish
             \/ UNCHANGED vars
      PROVE  Goal
  <2>1. UNCHANGED <<store, got, p_shm>>
    BY <1>7 DEF PCollect, PDeviceFails, Raise, PSaved, PDeliver, PDeviceFinish, CSchedule, CMiss,
                CSave, CFinish, Abort, CForward, CStartSave, CUnlinkFails, CSaved,
                CDeviceFinish, vars, memory, producer, consumer
  <2>2. \/ \E i \in 1 .. Len(batches) : PCollect(i) \/ PDeviceFails(i)
        \/ PSaved \/ PDeliver
        \/ UNCHANGED <<batches, p_pc, p_at, p_todo>>
    BY <1>7 DEF PDeviceFinish, CSchedule, CMiss, CSave, CFinish, Abort, CForward, CStartSave,
                CUnlinkFails, CSaved, CDeviceFinish, vars, producer
  <2>3. Pending' = Pending
    BY <2>2, SamePending
  <2> QED  BY <1>0, <2>1, <2>3 DEF LoadedOnce
<1> HIDE DEF Goal
<1>8. Goal
  BY <1>2, <1>3, <1>4, <1>5, <1>6, <1>7, KVActions
<1> QED  BY <1>8 DEF Goal

-----------------------------------------------------------------------------
(***************************************************************************)
(* A running request has a block of its own, and what is registered for a  *)
(* block is a segment still to be stored.                                  *)
(***************************************************************************)
LEMMA ExecuteBlocks ==
  ASSUME KVInv, NEW N \in SUBSET Reqs, NEW L \in SUBSET Reqs, PExecute(N, L)
  PROVE  /\ Active' = Active \cup N /\ N \cap Active = {} /\ L \subseteq Active'
         /\ \A r \in Active' : p_block'[r] \in PBlocks
         /\ \A q, r \in Active' : p_block'[q] = p_block'[r] => q = r
         /\ \A r \in Reqs \ N : p_block'[r] = p_block[r]
<1>0. /\ stage \in [Reqs -> Stages] /\ p_block \in [Reqs -> PBlocks \cup {None}]
      /\ \A r \in Active : p_block[r] \in PBlocks
      /\ \A q, r \in Active : p_block[q] = p_block[r] => q = r
  BY DEF KVInv, TypeOK, MemoryTypeOK, ProducerTypeOK, Registered
<1>1. Active' = Active \cup N /\ N \cap Active = {} /\ L \subseteq Active'
  BY <1>0 DEF PExecute, Active
<1>2. PICK f \in Allocate(N, FreeP) :
        p_block' = [r \in Reqs |-> IF r \in N THEN f[r] ELSE p_block[r]]
  BY DEF PExecute
<1>3. FreeP = PBlocks \ {p_block[r] : r \in Active}
  BY DEF FreeP, Active
<1>4. /\ \A r \in N : f[r] \in PBlocks /\ \A q \in Active : f[r] # p_block[q]
      /\ \A q, r \in N : f[q] = f[r] => q = r
  BY <1>3 DEF Allocate
<1>5. /\ \A r \in N : p_block'[r] = f[r]
      /\ \A r \in Reqs \ N : p_block'[r] = p_block[r]
  BY <1>2
<1>6. \A r \in Active' : p_block'[r] \in PBlocks
  BY <1>0, <1>1, <1>4, <1>5 DEF Active
<1>7. \A q, r \in Active' : p_block'[q] = p_block'[r] => q = r
  BY <1>0, <1>1, <1>4, <1>5 DEF Active
<1> QED  BY <1>1, <1>5, <1>6, <1>7

(***************************************************************************)
(* Running requests keep blocks of their own, and kv_caches names for a    *)
(* block the segment of the request that has it.                           *)
(***************************************************************************)
LEMMA RegisteredStep ==
  ASSUME KVInv, [Next]_vars
  PROVE  Registered'
<1>0. /\ stage \in [Reqs -> Stages] /\ p_kv \in [PBlocks -> Reqs \cup {None}]
      /\ Registered /\ Pending \subseteq Reqs
      /\ \A r \in Pending : stage[r] \in {"last", "aborted"}
  BY DEF KVInv, TypeOK, MemoryTypeOK, ProducerTypeOK, Pending, BatchOrder
<1>1. ASSUME NEW N \in SUBSET Reqs, NEW L \in SUBSET Reqs, PExecute(N, L) PROVE Registered'
  <2>1. /\ Active' = Active \cup N /\ L \subseteq Active'
        /\ \A r \in Active' : p_block'[r] \in PBlocks
        /\ \A q, r \in Active' : p_block'[q] = p_block'[r] => q = r
        /\ \A r \in Reqs \ N : p_block'[r] = p_block[r]
    BY <1>1, ExecuteBlocks
  <2>2. L \cap (tracker \cup N) = L /\ Pending' = Pending \cup L /\ LatestBatch'.last = L
    <3>1. PICK n \in Nat : n = Len(batches') /\ batches'[n].last = L
      BY <1>1, ExecuteBatch
    <3>2. LatestBatch'.last = L
      BY <3>1 DEF LatestBatch
    <3> QED  BY <1>1, <3>2, ExecuteBatch, ExecutePends
  <2>3. /\ p_bank' = p_bank \cup L
        /\ p_kv' = [b \in PBlocks |-> IF \E r \in L : p_block'[r] = b
                                      THEN CHOOSE r \in L : p_block'[r] = b ELSE p_kv[b]]
    BY <1>1, <2>2 DEF PExecute
  <2>4. ASSUME NEW b \in PBlocks, \E r \in L : p_block'[r] = b
        PROVE  p_kv'[b] \in L /\ p_block'[p_kv'[b]] = b
    BY <2>3, <2>4
  <2>5. ASSUME NEW b \in PBlocks, ~\E r \in L : p_block'[r] = b PROVE p_kv'[b] = p_kv[b]
    BY <2>3, <2>5
  <2>6. N \cap Pending = {}
    BY <1>0, <1>1 DEF PExecute
  <2>7. ASSUME NEW b \in PBlocks, p_kv'[b] # None
        PROVE  p_kv'[b] \in Pending' /\ p_block'[p_kv'[b]] = b
    BY <1>0, <2>1, <2>2, <2>4, <2>5, <2>6, <2>7 DEF Registered
  <2>8. ASSUME NEW r \in L
        PROVE  p_kv'[p_block'[r]] = r /\ p_block'[r] \in PBlocks /\ r \in p_bank'
    BY <2>1, <2>3, <2>4
  <2> QED  BY <2>1, <2>2, <2>7, <2>8 DEF Registered
<1>2. ASSUME \/ \E n \in 0 .. Cardinality(Reqs) + stages : Forwards(n)
             \/ \E i \in 1 .. Len(batches) : PCollect(i) \/ PDeviceFails(i)
             \/ PSaved \/ PDeliver
      PROVE  Registered'
  <2>1. Pending' = Pending
    BY <1>2, SamePending
  <2>2. UNCHANGED <<p_block, p_kv>> /\ p_pc' # "forward" /\ Active' \subseteq Active
    BY <1>0, <1>2 DEF Forwards, PCollect, PDeviceFails, Raise, PSaved, PDeliver, Active
  <2> QED  BY <1>0, <2>1, <2>2 DEF Registered
<1>3. ASSUME NEW r \in Reqs, Saves(r) PROVE Registered'
  <2>1. Pending' = Pending \ {r}
    BY <1>3, UntrackPends DEF Saves
  <2>2. /\ p_kv' = [p_kv EXCEPT ![p_block[r]] = None] /\ UNCHANGED <<stage, p_block>>
        /\ p_pc' # "forward"
    BY <1>3 DEF Saves, Untrack
  <2>3. \A b \in PBlocks : p_kv'[b] # None => p_kv'[b] = p_kv[b] /\ b # p_block[r]
    BY <1>0, <2>2
  <2> QED  BY <1>0, <2>1, <2>2, <2>3 DEF Registered, Active
<1>4. ASSUME NEW killed \in BOOLEAN, PRestart(killed) PROVE Registered'
  <2>1. Active' = {} /\ p_pc' = "idle" /\ \A b \in PBlocks : p_kv'[b] = None
    BY <1>0, <1>4 DEF PRestart, Active, Empty
  <2> QED  BY <2>1 DEF Registered
<1>5. ASSUME \/ \E r, s \in Reqs : PDeviceFinish(r, s)
             \/ \E S \in SUBSET Reqs : CSchedule(S)
             \/ \E r \in Reqs : \E i \in 1 .. Len(store) : CLoad(r, i)
             \/ \E r \in Reqs : CMiss(r) \/ CSave(r) \/ CFinish(r) \/ Abort(r)
             \/ CForward \/ CStartSave \/ CUnlinkFails \/ CSaved \/ CDeviceFinish
             \/ UNCHANGED vars
      PROVE  Registered'
  <2>1. UNCHANGED <<p_block, p_kv, p_bank, batches, p_pc, p_at, p_todo>>
    BY <1>5 DEF PDeviceFinish, CSchedule, CLoad, CMiss, CSave, CFinish, Abort, CForward,
                CStartSave, CUnlinkFails, CSaved, CDeviceFinish, vars, producer
  <2>2. \A r \in Reqs : stage'[r] \in {"chunks", "last"} => stage'[r] = stage[r]
    BY <1>0, <1>5 DEF PDeviceFinish, CSchedule, CLoad, CMiss, CSave, CFinish, Abort, CForward,
                CStartSave, CUnlinkFails, CSaved, CDeviceFinish, vars
  <2>3. Active' \subseteq Active
    BY <2>2 DEF Active
  <2>4. Pending' = Pending
    BY <2>1, SamePending
  <2> QED  BY <1>0, <2>1, <2>3, <2>4 DEF Registered, LatestBatch
<1> QED  BY <1>1, <1>2, <1>3, <1>4, <1>5, KVActions

(***************************************************************************)
(* What the device of the prefill node writes is open and not yet stored:  *)
(* the callbacks release stored segments only.                             *)
(***************************************************************************)
LEMMA FlightStep ==
  ASSUME KVInv, [Next]_vars
  PROVE  Flights'
<1>0. /\ batches \in Seq(Batch) /\ p_shm \in Seq(Reqs) /\ p_flight \subseteq Reqs \X Reqs
      /\ Flights /\ BatchOrder /\ SavePhase /\ Pending \subseteq Reqs
      /\ DOMAIN batches = 1 .. Len(batches) /\ Len(batches) \in Nat
      /\ Pending \cap ToSet(p_shm) = {}
  BY BatchesTyped DEF KVInv, TypeOK, ProducerTypeOK, Pending, StoredOnce
<1> USE DEF Flights, InBatch
<1>1. ASSUME NEW N \in SUBSET Reqs, NEW L \in SUBSET Reqs, PExecute(N, L) PROVE Flights'
  <2>1. PICK n \in Nat :
           /\ n = Len(batches') /\ n \notin DOMAIN batches
           /\ DOMAIN batches' = DOMAIN batches \cup {n}
           /\ \A i \in DOMAIN batches : batches'[i] = batches[i]
    BY <1>1, ExecuteBatch
  <2>2. p_pc = "idle" /\ p_pc' = "forward" /\ UNCHANGED p_flight /\ p_bank \subseteq p_bank'
    BY <1>1 DEF PExecute
  <2> QED  BY <1>0, <2>1, <2>2
<1>2. ASSUME NEW n \in 0 .. Cardinality(Reqs) + stages, Forwards(n) PROVE Flights'
  <2> DEFINE k == IF n < Len(p_shm) THEN n ELSE Len(p_shm)
             old == ToSet(SubSeq(p_shm, 1, k))
  <2>1. k \in 0 .. Len(p_shm)
    BY <1>0, <1>2, NumbersAssumption, FlagsAssumption DEF Forwards
  <2>2. old \subseteq ToSet(p_shm)
    BY <1>0, <2>1, DropElements
  <2>3. /\ p_bank' = p_bank \ old /\ UNCHANGED batches
        /\ p_flight' = p_flight \cup {<<r, p_kv[p_block[r]]>> : r \in LatestBatch.last}
        /\ p_pc = "forward" /\ p_pc' \in {"idle", "wait"}
    BY <1>2 DEF Forwards
  <2> HIDE DEF old, k
  <2>4. /\ Len(batches) \in DOMAIN batches /\ ~batches[Len(batches)].saved
        /\ LatestBatch.last = batches[Len(batches)].last
        /\ LatestBatch.last \subseteq Reqs
    BY <1>0, <2>3, BatchesTyped DEF SavePhase, LatestBatch
  <2>5. ASSUME NEW r \in LatestBatch.last
        PROVE  p_kv[p_block[r]] = r /\ r \in p_bank' /\ r \in Reqs
    <3>1. r \in Pending
      BY <2>3, <2>4 DEF Pending
    <3> QED  BY <1>0, <2>2, <2>3, <3>1 DEF KVInv, Registered
  <2>6. ASSUME NEW x \in p_flight
        PROVE  /\ x[2] = x[1] /\ x[2] \in p_bank'
               /\ \E i \in DOMAIN batches : x[1] \in batches[i].last /\ ~batches[i].saved
    <3>1. /\ x[2] = x[1] /\ x[1] \in Reqs /\ x[2] \in p_bank
          /\ \E i \in DOMAIN batches : x[1] \in batches[i].last /\ ~batches[i].saved
      BY <1>0, <2>3
    <3>2. x[1] \in Pending
      BY <2>3, <3>1 DEF Pending
    <3> QED  BY <1>0, <2>2, <2>3, <3>1, <3>2
  <2>7. ASSUME NEW x \in p_flight'
        PROVE  /\ x[2] = x[1] /\ x[2] \in p_bank'
               /\ \E i \in DOMAIN batches : x[1] \in batches[i].last /\ ~batches[i].saved
    <3>1. CASE x \in p_flight
      BY <2>6, <3>1
    <3>2. ASSUME NEW r \in LatestBatch.last, x = <<r, p_kv[p_block[r]]>>
          PROVE  /\ x[2] = x[1] /\ x[2] \in p_bank'
                 /\ \E i \in DOMAIN batches : x[1] \in batches[i].last /\ ~batches[i].saved
      BY <2>4, <2>5, <3>2
    <3> QED  BY <2>3, <2>7, <3>1, <3>2
  <2> QED  BY <2>3, <2>7
<1>3. ASSUME NEW r \in Reqs, NEW s \in Reqs, PDeviceFinish(r, s) PROVE Flights'
  BY <1>0, <1>3 DEF PDeviceFinish
<1>4. ASSUME NEW i \in 1 .. Len(batches), PCollect(i) PROVE Flights'
  BY <1>0, <1>4 DEF PCollect, Computed
<1>5. ASSUME NEW i \in 1 .. Len(batches), PDeviceFails(i) PROVE Flights'
  BY <1>0, <1>5 DEF PDeviceFails, Raise
<1>6. ASSUME NEW r \in Reqs, Saves(r) PROVE Flights'
  BY <1>0, <1>6 DEF Saves, Untrack
<1>7. CASE PSaved
  <2>1. p_at \in DOMAIN batches
    BY <1>0, <1>7 DEF PSaved, SavePhase
  <2>2. /\ DOMAIN batches' = DOMAIN batches
        /\ \A i \in DOMAIN batches :
              /\ batches'[i].last = batches[i].last
              /\ batches'[i].saved = (batches[i].saved \/ i = p_at)
    BY <1>0, <1>7, <2>1, MarkedSaved DEF PSaved
  <2>3. /\ UNCHANGED <<p_flight, p_bank>>
        /\ (p_pc = "save" /\ p_pc' = "idle") \/ p_pc' = "raised"
    BY <1>7 DEF PSaved
  <2> QED  BY <1>0, <2>2, <2>3
<1>8. CASE PDeliver
  <2>1. /\ p_pc = "idle" /\ p_pc' = "idle" /\ batches[1].saved /\ UNCHANGED <<p_flight, p_bank>>
    BY <1>8 DEF PDeliver
  <2>2. \A i \in DOMAIN batches : i # 1 => /\ i - 1 \in DOMAIN batches'
                                           /\ batches'[i - 1] = batches[i]
    BY <1>0, <1>8, Delivered DEF PDeliver
  <2> QED  BY <1>0, <2>1, <2>2
<1>9. ASSUME NEW killed \in BOOLEAN, PRestart(killed) PROVE Flights'
  BY <1>9 DEF PRestart
<1>10. ASSUME \/ \E S \in SUBSET Reqs : CSchedule(S)
              \/ \E r \in Reqs : \E i \in 1 .. Len(store) : CLoad(r, i)
              \/ \E r \in Reqs : CMiss(r) \/ CSave(r) \/ CFinish(r) \/ Abort(r)
              \/ CForward \/ CStartSave \/ CUnlinkFails \/ CSaved \/ CDeviceFinish
              \/ UNCHANGED vars
       PROVE  Flights'
  <2>1. UNCHANGED producer
    BY <1>10 DEF CSchedule, CLoad, CMiss, CSave, CFinish, Abort, CForward, CStartSave,
                 CUnlinkFails, CSaved, CDeviceFinish, vars
  <2> QED  BY <1>0, <2>1 DEF producer
<1> QED
  BY <1>1, <1>2, <1>3, <1>4, <1>5, <1>6, <1>7, <1>8, <1>9, <1>10, KVActions

-----------------------------------------------------------------------------
(***************************************************************************)
(* The decode node.  A step of the prefill node, or an abort of a request  *)
(* that is not decoding, leaves it alone.                                  *)
(***************************************************************************)
LEMMA ProducerLeaves ==
  ASSUME KVInv,
         \/ \E N, L \in SUBSET Reqs : PExecute(N, L)
         \/ \E n \in 0 .. Cardinality(Reqs) + stages : Forwards(n)
         \/ \E r, s \in Reqs : PDeviceFinish(r, s)
         \/ \E i \in 1 .. Len(batches) : PCollect(i) \/ PDeviceFails(i)
         \/ \E r \in Reqs : Saves(r)
         \/ PSaved \/ PDeliver
         \/ \E killed \in BOOLEAN : PRestart(killed)
         \/ UNCHANGED vars
  PROVE  /\ UNCHANGED consumer
         /\ \A r \in Reqs : \/ stage'[r] = stage[r]
                            \/ /\ stage[r] \in {"new", "chunks", "last"}
                               /\ stage'[r] \in {"chunks", "last", "handed", "lost"}
<1>0. stage \in [Reqs -> Stages]
  BY DEF KVInv, TypeOK, MemoryTypeOK
<1> DEFINE Goal == \A r \in Reqs : \/ stage'[r] = stage[r]
                                   \/ /\ stage[r] \in {"new", "chunks", "last"}
                                      /\ stage'[r] \in {"chunks", "last", "handed", "lost"}
<1>1. UNCHANGED consumer
  BY DEF PExecute, Forwards, PDeviceFinish, PCollect, PDeviceFails, Raise, Saves, Untrack, PSaved,
         PDeliver, PRestart, vars
<1>2. ASSUME NEW N \in SUBSET Reqs, NEW L \in SUBSET Reqs, PExecute(N, L) PROVE Goal
  BY <1>0, <1>2 DEF PExecute
<1>3. CASE PDeliver \/ \E killed \in BOOLEAN : PRestart(killed)
  BY <1>0, <1>3 DEF PDeliver, PRestart
<1>4. CASE \/ \E n \in 0 .. Cardinality(Reqs) + stages : Forwards(n)
           \/ \E r, s \in Reqs : PDeviceFinish(r, s)
           \/ \E i \in 1 .. Len(batches) : PCollect(i) \/ PDeviceFails(i)
           \/ \E r \in Reqs : Saves(r)
           \/ PSaved \/ UNCHANGED vars
  BY <1>4 DEF Forwards, PDeviceFinish, PCollect, PDeviceFails, Raise, Saves, Untrack, PSaved, vars
<1> QED  BY <1>1, <1>2, <1>3, <1>4

(***************************************************************************)
(* Segments are loaded by requests that were handed over, and those named  *)
(* by shm_tracker or held by the step have been loaded.                    *)
(***************************************************************************)
LEMMA LoadOrderStep ==
  ASSUME KVInv, [Next]_vars
  PROVE  LoadOrder'
<1>0. /\ stage \in [Reqs -> Stages] /\ LoadOrder /\ c_meta \subseteq Reqs
      /\ got \in [Reqs -> Reqs \cup {None}] /\ c_block \in [Reqs -> CBlocks \cup {None}]
  BY DEF KVInv, TypeOK, MemoryTypeOK, ConsumerTypeOK
<1> USE DEF LoadOrder
<1>1. ASSUME \/ \E N, L \in SUBSET Reqs : PExecute(N, L)
             \/ \E n \in 0 .. Cardinality(Reqs) + stages : Forwards(n)
             \/ \E r, s \in Reqs : PDeviceFinish(r, s)
             \/ \E i \in 1 .. Len(batches) : PCollect(i) \/ PDeviceFails(i)
             \/ \E r \in Reqs : Saves(r)
             \/ PSaved \/ PDeliver
             \/ \E killed \in BOOLEAN : PRestart(killed)
             \/ UNCHANGED vars
      PROVE  LoadOrder'
  <2>1. /\ UNCHANGED <<got, c_block, c_pc, c_meta, c_todo>>
        /\ \A r \in Reqs : \/ stage'[r] = stage[r]
                           \/ /\ stage[r] \in {"new", "chunks", "last"}
                              /\ stage'[r] \in {"chunks", "last", "handed", "lost"}
    BY <1>1, ProducerLeaves DEF consumer
  <2> QED  BY <1>0, <2>1
<1>2. ASSUME NEW S \in SUBSET Reqs, CSchedule(S) PROVE LoadOrder'
  <2>1. PICK f \in Allocate(S, FreeC) :
          c_block' = [r \in Reqs |-> IF r \in S THEN f[r] ELSE c_block[r]]
    BY <1>2 DEF CSchedule
  <2>2. /\ \A r \in S : f[r] \in CBlocks
        /\ \A q, r \in S : f[q] = f[r] => q = r
    BY DEF Allocate, FreeC
  <2>3. /\ \A r \in S : c_block'[r] \in CBlocks
        /\ \A q, r \in S : c_block'[q] = c_block'[r] => q = r
    BY <2>1, <2>2
  <2>4. /\ c_meta' = S /\ c_todo' = S /\ c_pc' = "load" /\ UNCHANGED got
        /\ \A r \in Reqs : stage'[r] = IF r \in S THEN "decode" ELSE stage[r]
        /\ \A r \in S : stage[r] = "handed"
    BY <1>0, <1>2 DEF CSchedule
  <2> QED  BY <1>0, <2>3, <2>4
<1>3. ASSUME NEW r \in Reqs, NEW i \in 1 .. Len(store), CLoad(r, i) PROVE LoadOrder'
  BY <1>0, <1>3 DEF CLoad
<1>4. ASSUME NEW r \in Reqs, CMiss(r) \/ CSave(r) PROVE LoadOrder'
  BY <1>0, <1>4 DEF CMiss, CSave
<1>5. CASE CForward \/ CStartSave \/ CUnlinkFails \/ CSaved \/ CDeviceFinish
  BY <1>0, <1>5 DEF CForward, CStartSave, CUnlinkFails, CSaved, CDeviceFinish
<1>6. ASSUME NEW r \in Reqs, CFinish(r) \/ Abort(r) PROVE LoadOrder'
  <2>1. /\ UNCHANGED <<got, c_block, c_pc, c_meta, c_todo>>
        /\ \A q \in Reqs : stage'[q] = stage[q] \/ stage'[q] \in {"done", "aborted"}
        /\ c_pc = "idle" \/ \A q \in Reqs : stage[q] = "decode" => stage'[q] = "decode"
    BY <1>0, <1>6 DEF CFinish, Abort, consumer
  <2> QED  BY <1>0, <2>1
<1> QED  BY <1>1, <1>2, <1>3, <1>4, <1>5, <1>6, KVActions

(***************************************************************************)
(* A loaded segment stays registered, open and out of the reach of the     *)
(* releases until its request is saved.                                    *)
(***************************************************************************)
LEMMA HoldsStep ==
  ASSUME KVInv, [Next]_vars
  PROVE  StepHolds'
<1>0. /\ StepHolds /\ LoadOrder /\ LoadedOnce
      /\ got \in [Reqs -> Reqs \cup {None}] /\ c_block \in [Reqs -> CBlocks \cup {None}]
      /\ c_kv \in [CBlocks -> Reqs \cup {None}] /\ c_shm \in Seq(Reqs) /\ store \in Seq(Reqs)
      /\ c_meta \subseteq Reqs /\ c_todo \subseteq Reqs /\ Held \subseteq c_meta
  BY DEF KVInv, TypeOK, MemoryTypeOK, ConsumerTypeOK, StoredOnce, Held, LoadOrder
<1> USE DEF StepHolds
<1>1. ASSUME \/ \E N, L \in SUBSET Reqs : PExecute(N, L)
             \/ \E n \in 0 .. Cardinality(Reqs) + stages : Forwards(n)
             \/ \E r, s \in Reqs : PDeviceFinish(r, s)
             \/ \E i \in 1 .. Len(batches) : PCollect(i) \/ PDeviceFails(i)
             \/ \E r \in Reqs : Saves(r)
             \/ PSaved \/ PDeliver
             \/ \E killed \in BOOLEAN : PRestart(killed)
             \/ UNCHANGED vars
      PROVE  StepHolds'
  BY <1>0, <1>1, ProducerLeaves DEF consumer, Held
<1>2. ASSUME NEW S \in SUBSET Reqs, CSchedule(S) PROVE StepHolds'
  <2>1. /\ Held = {} /\ Held' = {} /\ c_pc' # "raised" /\ c_pc # "raised"
        /\ UNCHANGED <<c_bank, c_kv, c_shm, got>>
    BY <1>2 DEF CSchedule, Held
  <2> QED  BY <1>0, <2>1
<1>3. ASSUME NEW r \in Reqs, NEW i \in 1 .. Len(store), CLoad(r, i) PROVE StepHolds'
  <2> DEFINE s == store[i]
  <2>0. /\ c_pc = "load" /\ r \in c_todo /\ got[r] = None /\ Held = c_meta \ c_todo
        /\ UNCHANGED <<c_block, c_shm, c_meta>>
    BY <1>0, <1>3 DEF CLoad, LoadOrder, Held
  <2>1. s \in Reqs /\ s \notin Range(got) /\ s \notin ToSet(c_shm)
    <3>1. s \in Reqs /\ s \in ToSet(store)
      BY <1>0 DEF ToSet
    <3> QED  BY <1>0, <3>1 DEF KVInv, StoredOnce
  <2>2. CASE s \in linked
    <3>1. /\ c_bank' = c_bank \cup {s} /\ got' = [got EXCEPT ![r] = s]
          /\ c_kv' = [c_kv EXCEPT ![c_block[r]] = s] /\ c_pc' = "load"
          /\ Held' = Held \cup {r}
      BY <1>0, <1>3, <2>0, <2>2 DEF CLoad, Held, LoadOrder
    <3>2. /\ c_block[r] \in CBlocks /\ \A q \in Held : q # r /\ c_block[q] # c_block[r]
      BY <1>0, <2>0 DEF LoadOrder
    <3>3. Range(got) \ {None} \subseteq Range(got')
      BY <1>0, <2>0, <3>1 DEF Range
    <3>4. \A q \in Reqs : got'[q] = IF q = r THEN s ELSE got[q]
      BY <1>0, <3>1
    <3>5. \A b \in CBlocks : c_kv'[b] = IF b = c_block[r] THEN s ELSE c_kv[b]
      BY <1>0, <3>1
    <3> HIDE DEF s
    <3>6. \A q \in Held' : /\ got'[q] # None /\ c_kv'[c_block'[q]] = got'[q]
                           /\ got'[q] \in c_bank' /\ got'[q] \notin ToSet(c_shm')
      BY <1>0, <2>0, <2>1, <3>1, <3>2, <3>4, <3>5, NoneAssumption DEF LoadOrder
    <3>7. \A b \in CBlocks : c_kv'[b] # None => \E q \in Held' : c_block'[q] = b
      BY <1>0, <2>0, <3>1, <3>5
    <3>8. ToSet(c_shm') \subseteq Range(got') \ {None}
      BY <1>0, <2>0, <3>3
    <3> QED  BY <3>6, <3>7, <3>8
  <2>3. CASE s \notin linked
    <3>1. c_pc' = "raised" /\ UNCHANGED got
      BY <1>3, <2>3 DEF CLoad
    <3>2. Held' = {}
      BY <3>1 DEF Held
    <3> QED  BY <1>0, <2>0, <3>1, <3>2
  <2> QED  BY <2>2, <2>3
<1>4. ASSUME NEW r \in Reqs, CMiss(r) PROVE StepHolds'
  <2>1. /\ UNCHANGED <<c_bank, c_kv, c_shm, got, c_block>>
        /\ (c_pc' = c_pc /\ Held' = Held) \/ (c_pc' = "raised" /\ Held' = {})
    BY <1>4 DEF CMiss, Held
  <2>2. c_pc # "raised"
    BY <1>4 DEF CMiss
  <2> QED  BY <1>0, <2>1, <2>2
<1>5. CASE CForward
  <2>1. /\ Held' = Held /\ c_pc = "load" /\ UNCHANGED <<c_kv, got, c_block>>
        /\ \/ c_bank' = c_bank \ {Head(c_shm)} /\ c_shm # <<>> /\ c_shm' = Tail(c_shm)
           \/ UNCHANGED <<c_bank, c_shm>>
    BY <1>5 DEF CForward, CRelease, Held
  <2>2. /\ c_shm # <<>> => Head(c_shm) \in ToSet(c_shm)
        /\ ToSet(c_shm') \subseteq ToSet(c_shm)
    BY <1>0, <2>1, TailElements
  <2> QED  BY <1>0, <2>1, <2>2
<1>6. CASE CStartSave
  <2>1. /\ Held' = Held /\ c_pc = "run" /\ UNCHANGED <<c_kv, got, c_block>>
        /\ \/ c_bank' = c_bank \ ToSet(c_shm) /\ c_shm' = <<>>
           \/ UNCHANGED <<c_bank, c_shm>>
    BY <1>6 DEF CStartSave, CRelease, Held
  <2>2. ToSet(<<>>) = {}
    BY DEF ToSet
  <2> QED  BY <1>0, <2>1, <2>2
<1>7. CASE CUnlinkFails
  <2>1. Held' = {} /\ c_pc' = "raised" /\ UNCHANGED <<c_shm, got>>
    BY <1>7 DEF CUnlinkFails, Held
  <2> QED  BY <1>0, <2>1
<1>8. ASSUME NEW r \in Reqs, CSave(r) PROVE StepHolds'
  <2>1. /\ c_pc = "save" /\ c_pc' = "save" /\ Held = c_todo /\ Held' = c_todo \ {r} /\ r \in c_todo
        /\ c_shm' = Append(c_shm, got[r]) /\ c_kv' = [c_kv EXCEPT ![c_block[r]] = None]
        /\ UNCHANGED <<c_bank, got, c_block>>
    BY <1>8 DEF CSave, Held
  <2>2. got[r] \in Reqs /\ got[r] \in Range(got) /\ got[r] # None
    BY <1>0, <2>1 DEF Range
  <2>3. ToSet(c_shm') = ToSet(c_shm) \cup {got[r]}
    BY <1>0, <2>1, <2>2, AppendElements
  <2>4. \A q \in Held' : q \in Held /\ got[q] # got[r] /\ c_block[q] # c_block[r]
    BY <1>0, <2>1, <2>2 DEF LoadedOnce, LoadOrder
  <2>5. \A q \in Held' : c_kv'[c_block[q]] = c_kv[c_block[q]]
    BY <1>0, <2>1, <2>4 DEF LoadOrder
  <2>6. \A b \in CBlocks : c_kv'[b] # None => c_kv'[b] = c_kv[b] /\ b # c_block[r]
    BY <1>0, <2>1
  <2> QED  BY <1>0, <2>1, <2>2, <2>3, <2>4, <2>5, <2>6
<1>9. CASE CSaved
  <2>1. Held' = {} /\ Held = {} /\ c_pc # "raised" /\ UNCHANGED <<c_kv, c_block, c_shm, got>>
    BY <1>9 DEF CSaved, Held
  <2> QED  BY <1>0, <2>1
<1>10. ASSUME CDeviceFinish \/ \E r \in Reqs : CFinish(r) \/ Abort(r) PROVE StepHolds'
  <2>1. UNCHANGED <<c_bank, c_kv, c_shm, got, c_block, c_pc, c_meta, c_todo>>
    BY <1>10 DEF CDeviceFinish, CFinish, Abort, consumer
  <2> QED  BY <1>0, <2>1 DEF Held
<1> QED
  BY <1>1, <1>2, <1>3, <1>4, <1>5, <1>6, <1>7, <1>8, <1>9, <1>10, KVActions

(***************************************************************************)
(* The segments a decode reads stay open while it runs.                    *)
(***************************************************************************)
LEMMA ReadsStep ==
  ASSUME KVInv, [Next]_vars
  PROVE  DecodeReads'
<1>0. /\ DecodeReads /\ StepHolds /\ LoadOrder /\ c_shm \in Seq(Reqs) /\ AsyncC \in BOOLEAN
      /\ c_running \in BOOLEAN
  BY FlagsAssumption DEF KVInv, TypeOK, ConsumerTypeOK
<1> USE DEF DecodeReads
<1>1. ASSUME \/ \E N, L \in SUBSET Reqs : PExecute(N, L)
             \/ \E n \in 0 .. Cardinality(Reqs) + stages : Forwards(n)
             \/ \E r, s \in Reqs : PDeviceFinish(r, s)
             \/ \E i \in 1 .. Len(batches) : PCollect(i) \/ PDeviceFails(i)
             \/ \E r \in Reqs : Saves(r)
             \/ PSaved \/ PDeliver
             \/ \E killed \in BOOLEAN : PRestart(killed)
             \/ UNCHANGED vars
      PROVE  DecodeReads'
  BY <1>0, <1>1, ProducerLeaves DEF consumer
<1>2. ASSUME NEW S \in SUBSET Reqs, CSchedule(S) PROVE DecodeReads'
  BY <1>0, <1>2 DEF CSchedule, Drained
<1>3. ASSUME NEW r \in Reqs, NEW i \in 1 .. Len(store), CLoad(r, i) PROVE DecodeReads'
  BY <1>0, <1>3 DEF CLoad
<1>4. ASSUME NEW r \in Reqs, CMiss(r) \/ CSave(r) PROVE DecodeReads'
  BY <1>0, <1>4 DEF CMiss, CSave
<1>5. CASE CForward
  <2>1. /\ c_pc = "load" /\ c_pc' = "run" /\ Held = c_meta /\ ~c_running
        /\ \/ c_bank' = c_bank \ {Head(c_shm)} /\ c_shm # <<>> /\ c_shm' = Tail(c_shm)
           \/ UNCHANGED <<c_bank, c_shm>>
    BY <1>0, <1>5 DEF CForward, CRelease, Held
  <2>2. /\ c_shm # <<>> => Head(c_shm) \in ToSet(c_shm)
        /\ ToSet(c_shm') \subseteq ToSet(c_shm)
    BY <1>0, <2>1, TailElements
  <2>3. c_use' = {c_kv[c_block[r]] : r \in c_meta}
    BY <1>5, <2>1 DEF CForward
  <2>4. \A r \in c_meta : c_kv[c_block[r]] \in c_bank /\ c_kv[c_block[r]] \notin ToSet(c_shm)
    BY <1>0, <2>1 DEF StepHolds
  <2>5. c_use' \subseteq c_bank /\ c_use' \cap ToSet(c_shm) = {}
    BY <2>3, <2>4
  <2> QED  BY <2>1, <2>2, <2>5
<1>6. CASE CStartSave
  BY <1>0, <1>6 DEF CStartSave, CRelease
<1>7. CASE CUnlinkFails \/ CSaved
  BY <1>0, <1>7 DEF CUnlinkFails, CSaved
<1>8. CASE CDeviceFinish
  BY <1>8 DEF CDeviceFinish
<1>9. ASSUME NEW r \in Reqs, CFinish(r) \/ Abort(r) PROVE DecodeReads'
  BY <1>0, <1>9 DEF CFinish, Abort, consumer
<1> QED
  BY <1>1, <1>2, <1>3, <1>4, <1>5, <1>6, <1>7, <1>8, <1>9, KVActions

(***************************************************************************)
(* The invariance of KVInv.                                                *)
(***************************************************************************)
LEMMA KVStep == ASSUME KVInv, [Next]_vars PROVE KVInv'
<1>1. ASSUME UNCHANGED vars PROVE TypeOK'
  <2>1. UNCHANGED <<stage, memory>> /\ UNCHANGED producer /\ UNCHANGED consumer /\ TypeOK
    BY <1>1 DEF vars, KVInv
  <2> QED  BY <2>1, KVFrame DEF TypeOK
<1>2. ASSUME Next PROVE TypeOK'
  BY <1>2, PStepTypes, CStepTypes, AlwaysBuffered
  DEF Next, Schedule, PBack, PStep, PSave, Device
<1>3. TypeOK'
  BY <1>1, <1>2 DEF KVInv
<1> QED
  BY <1>3, OrderStep, StoredStep, RegisteredStep, FlightStep, LoadOrderStep, HoldsStep,
     ReadsStep DEF KVInv

(***************************************************************************)
(* The inductive invariant holds in every state.                           *)
(***************************************************************************)
LEMMA KVInvariance == Spec => []KVInv
BY InitKV, KVStep, PTL DEF Spec

-----------------------------------------------------------------------------
(***************************************************************************)
(* Every variable keeps its type, whatever fails.                          *)
(***************************************************************************)
THEOREM KVTypes == Spec => []TypeOK
<1>1. KVInv => TypeOK
  BY DEF KVInv
<1> QED  BY KVInvariance, <1>1, PTL

(***************************************************************************)
(* No two requests load the same segment, whatever fails and however the   *)
(* two nodes are scheduled: a GET takes the name out of the store and no   *)
(* segment is put twice (save_kv_layer(), get_kvcache_from_store()).       *)
(***************************************************************************)
THEOREM LoadedAtMostOnce == Spec => []LoadedOnce
<1>1. KVInv => LoadedOnce
  BY DEF KVInv, StoredOnce
<1> QED  BY KVInvariance, <1>1, PTL

(***************************************************************************)
(* Whatever either device reads or writes is open on its node: neither the *)
(* cleanup callbacks nor the forced cleanup close it while the device runs *)
(* (execute_model(), ShmTracker, MemBank).                                 *)
(***************************************************************************)
THEOREM BuffersStayOpen == Spec => []BuffersOutliveDevice
<1>1. KVInv => BuffersOutliveDevice
  BY DEF KVInv, Flights, DecodeReads, BuffersOutliveDevice
<1> QED  BY KVInvariance, <1>1, PTL

-----------------------------------------------------------------------------
(***************************************************************************)
(* What a step may do to the registered segments of the prefill node: a    *)
(* new last chunk takes the place of an aborted request's segment only.    *)
(***************************************************************************)
LEMMA ProducerKeeps ==
  ASSUME KVInv, [Next]_vars
  PROVE  Kept(p_kv)
<1>0. /\ p_kv \in [PBlocks -> Reqs \cup {None}] /\ Registered /\ Pending \subseteq Reqs
      /\ \A r \in Pending : stage[r] \in {"last", "aborted"}
  BY DEF KVInv, TypeOK, ProducerTypeOK, Pending, BatchOrder
<1>1. ASSUME NEW N \in SUBSET Reqs, NEW L \in SUBSET Reqs, PExecute(N, L) PROVE Kept(p_kv)
  <2>1. /\ Active' = Active \cup N /\ L \subseteq Active' /\ N \cap Active = {}
        /\ \A q, r \in Active' : p_block'[q] = p_block'[r] => q = r
        /\ \A r \in Reqs \ N : p_block'[r] = p_block[r]
    BY <1>1, ExecuteBlocks
  <2>2. p_kv' = [b \in PBlocks |-> IF \E r \in L : p_block'[r] = b
                                   THEN CHOOSE r \in L : p_block'[r] = b ELSE p_kv[b]]
    <3>1. L \cap (tracker \cup N) = L
      BY <1>1, ExecuteBatch
    <3> QED  BY <1>1, <3>1 DEF PExecute
  <2>3. ASSUME NEW b \in PBlocks, p_kv[b] # None, stage[p_kv[b]] # "aborted"
        PROVE  p_kv'[b] = p_kv[b]
    <3> DEFINE q == p_kv[b]
    <3>1. q \in Active /\ stage[q] = "last" /\ p_block[q] = b
      BY <1>0, <2>3 DEF Registered, Active
    <3>2. q \notin L /\ q \notin N /\ p_block'[q] = b
      BY <1>1, <2>1, <3>1 DEF PExecute, Active
    <3>3. ~\E r \in L : p_block'[r] = b
      BY <2>1, <3>1, <3>2
    <3> QED  BY <2>2, <3>3
  <2>4. ASSUME NEW b \in PBlocks, p_kv[b] # None
        PROVE  \/ p_kv'[b] \in {p_kv[b], None}
               \/ \E r \in Reqs : stage[r] = "aborted" /\ p_kv[b] \in {r, got[r]}
    BY <1>0, <2>3, <2>4
  <2> QED  BY <1>0, <2>4 DEF Kept
<1>2. ASSUME NEW r \in Reqs, Saves(r) PROVE Kept(p_kv)
  BY <1>0, <1>2 DEF Saves, Untrack, Kept
<1>3. ASSUME NEW killed \in BOOLEAN, PRestart(killed) PROVE Kept(p_kv)
  BY <1>0, <1>3 DEF PRestart, Empty, Kept
<1>4. ASSUME \/ \E n \in 0 .. Cardinality(Reqs) + stages : Forwards(n)
             \/ \E r, s \in Reqs : PDeviceFinish(r, s)
             \/ \E i \in 1 .. Len(batches) : PCollect(i) \/ PDeviceFails(i)
             \/ PSaved \/ PDeliver
             \/ \E S \in SUBSET Reqs : CSchedule(S)
             \/ \E r \in Reqs : \E i \in 1 .. Len(store) : CLoad(r, i)
             \/ \E r \in Reqs : CMiss(r) \/ CSave(r) \/ CFinish(r) \/ Abort(r)
             \/ CForward \/ CStartSave \/ CUnlinkFails \/ CSaved \/ CDeviceFinish
             \/ UNCHANGED vars
      PROVE  UNCHANGED p_kv
  BY <1>4 DEF Forwards, PDeviceFinish, PCollect, PDeviceFails, Raise, PSaved, PDeliver, CSchedule,
              CLoad, CMiss, CSave, CFinish, Abort, CForward, CStartSave, CUnlinkFails,
              CSaved, CDeviceFinish, vars, producer
<1>5. UNCHANGED p_kv => Kept(p_kv)
  BY DEF Kept
<1> QED  BY <1>1, <1>2, <1>3, <1>4, <1>5, KVActions

(***************************************************************************)
(* The decode node registers a segment for the block of a row that has     *)
(* still to load, and only rows that have loaded have one registered.      *)
(***************************************************************************)
LEMMA ConsumerKeeps ==
  ASSUME KVInv, [Next]_vars
  PROVE  Kept(c_kv)
<1>0. /\ c_kv \in [CBlocks -> Reqs \cup {None}] /\ StepHolds /\ LoadOrder
  BY DEF KVInv, TypeOK, ConsumerTypeOK
<1>1. ASSUME NEW r \in Reqs, NEW i \in 1 .. Len(store), CLoad(r, i) PROVE Kept(c_kv)
  <2>1. c_pc = "load" /\ r \in c_todo /\ r \in c_meta /\ Held = c_meta \ c_todo
    BY <1>0, <1>1 DEF CLoad, LoadOrder, Held
  <2>2. \A b \in CBlocks : c_kv[b] # None => b # c_block[r]
    BY <1>0, <2>1 DEF StepHolds, LoadOrder
  <2>3. \A b \in CBlocks : c_kv[b] # None => c_kv'[b] = c_kv[b]
    BY <1>0, <1>1, <2>2 DEF CLoad
  <2> QED  BY <1>0, <2>3 DEF Kept
<1>2. ASSUME NEW r \in Reqs, CSave(r) PROVE Kept(c_kv)
  BY <1>0, <1>2 DEF CSave, Kept
<1>3. ASSUME \/ \E N, L \in SUBSET Reqs : PExecute(N, L)
             \/ \E n \in 0 .. Cardinality(Reqs) + stages : Forwards(n)
             \/ \E r, s \in Reqs : PDeviceFinish(r, s)
             \/ \E i \in 1 .. Len(batches) : PCollect(i) \/ PDeviceFails(i)
             \/ \E r \in Reqs : Saves(r)
             \/ PSaved \/ PDeliver
             \/ \E killed \in BOOLEAN : PRestart(killed)
             \/ UNCHANGED vars
      PROVE  UNCHANGED c_kv
  BY <1>3, ProducerLeaves DEF consumer
<1>4. ASSUME \/ \E S \in SUBSET Reqs : CSchedule(S)
             \/ \E r \in Reqs : CMiss(r) \/ CFinish(r) \/ Abort(r)
             \/ CForward \/ CStartSave \/ CUnlinkFails \/ CSaved \/ CDeviceFinish
      PROVE  UNCHANGED c_kv
  BY <1>4 DEF CSchedule, CMiss, CFinish, Abort, CForward, CStartSave, CUnlinkFails,
              CSaved, CDeviceFinish, consumer
<1>5. UNCHANGED c_kv => Kept(c_kv)
  BY DEF Kept
<1> QED  BY <1>1, <1>2, <1>3, <1>4, <1>5, KVActions

(***************************************************************************)
(* "Overwriting KV cache for running request; this is unexpected" never    *)
(* happens on either node, unless the request of the old segment was       *)
(* aborted: for any blocks, batches in flight and failures.                *)
(***************************************************************************)
THEOREM SegmentsNotOverwritten == Spec => NeverOverwritten
<1>1. KVInv /\ [Next]_vars => [Kept(p_kv) /\ Kept(c_kv)]_vars
  BY ProducerKeeps, ConsumerKeeps
<1> QED  BY KVInvariance, <1>1, PTL DEF Spec, NeverOverwritten

-----------------------------------------------------------------------------
(***************************************************************************)
(* The bound on what the decode node keeps open.                           *)
(***************************************************************************)
TrackerInv ==
  /\ IsFiniteSet(c_meta)
  /\ c_pc # "raised" => c_bank \subseteq ToSet(c_shm) \cup {got[r] : r \in Held}
  /\ c_pc = "idle" => Len(c_shm) <= force_clean_up_threshold + Cardinality(c_meta)
  /\ c_pc = "save" =>
       Len(c_shm) + Cardinality(c_todo) <= force_clean_up_threshold + Cardinality(c_meta)

(* A sequence has no more elements than its length.                        *)
LEMMA ElementsBounded ==
  ASSUME NEW S, NEW s \in Seq(S)
  PROVE  IsFiniteSet(ToSet(s)) /\ Cardinality(ToSet(s)) <= Len(s)
<1> DEFINE n == Len(s)
           f == [i \in 1 .. n |-> s[i]]
<1>1. n \in Nat /\ DOMAIN s = 1 .. n
  OBVIOUS
<1>2. f \in Surjection(1 .. n, ToSet(s))
  BY <1>1 DEF Surjection, ToSet
<1>3. IsFiniteSet(1 .. n) /\ Cardinality(1 .. n) = n
  BY <1>1, FS_Interval
<1> HIDE DEF f
<1> QED  BY <1>2, <1>3, FS_Surjection

(* A step of the decode node has no more new requests than there are blocks. *)
LEMMA StepFinite ==
  ASSUME KVInv, NEW S \in SUBSET Reqs, CSchedule(S)
  PROVE  IsFiniteSet(S)
<1>1. PICK f \in Allocate(S, FreeC) : TRUE
  BY DEF CSchedule
<1>2. f \in [S -> CBlocks] /\ \A q, r \in S : f[q] = f[r] => q = r
  BY DEF Allocate, FreeC
<1>3. f \in Injection(S, CBlocks)
  BY <1>2 DEF Injection, IsInjective
<1> QED  BY <1>3, FS_Injection, BlocksAssumption

(***************************************************************************)
(* The forced cleanup keeps shm_tracker within its threshold and the       *)
(* segments of the current step.                                           *)
(***************************************************************************)
LEMMA TrackerStep ==
  ASSUME KVInv, TrackerInv, [Next]_vars
  PROVE  TrackerInv'
<1>0. /\ c_shm \in Seq(Reqs) /\ Len(c_shm) \in Nat /\ force_clean_up_threshold \in Nat
      /\ got \in [Reqs -> Reqs \cup {None}] /\ c_meta \subseteq Reqs
      /\ IsFiniteSet(c_meta) /\ Cardinality(c_meta) \in Nat
      /\ TrackerInv /\ StepHolds /\ LoadOrder
  BY FS_CardinalityType, NumbersAssumption DEF KVInv, TypeOK, ConsumerTypeOK, TrackerInv
<1> USE DEF TrackerInv
<1>1. ASSUME \/ \E N, L \in SUBSET Reqs : PExecute(N, L)
             \/ \E n \in 0 .. Cardinality(Reqs) + stages : Forwards(n)
             \/ \E r, s \in Reqs : PDeviceFinish(r, s)
             \/ \E i \in 1 .. Len(batches) : PCollect(i) \/ PDeviceFails(i)
             \/ \E r \in Reqs : Saves(r)
             \/ PSaved \/ PDeliver
             \/ \E killed \in BOOLEAN : PRestart(killed)
             \/ UNCHANGED vars
      PROVE  TrackerInv'
  BY <1>0, <1>1, ProducerLeaves DEF consumer, Held
<1>2. ASSUME NEW S \in SUBSET Reqs, CSchedule(S) PROVE TrackerInv'
  <2>1. /\ c_pc = "idle" /\ c_pc' = "load" /\ c_meta' = S /\ Held = {}
        /\ UNCHANGED <<c_bank, c_shm, got>>
    BY <1>2 DEF CSchedule, Held
  <2> QED  BY <1>0, <1>2, <2>1, StepFinite
<1>3. ASSUME NEW r \in Reqs, NEW i \in 1 .. Len(store), CLoad(r, i) PROVE TrackerInv'
  <2>1. /\ c_pc = "load" /\ r \in c_todo /\ r \in c_meta /\ got[r] = None
        /\ Held = c_meta \ c_todo /\ UNCHANGED <<c_shm, c_meta>>
    BY <1>0, <1>3 DEF CLoad, LoadOrder, Held
  <2>2. CASE c_pc' = "raised"
    BY <1>0, <2>1, <2>2
  <2>3. CASE c_pc' # "raised"
    <3>1. /\ c_pc' = "load" /\ c_bank' = c_bank \cup {store[i]}
          /\ got' = [got EXCEPT ![r] = store[i]] /\ c_todo' = c_todo \ {r}
      BY <1>3, <2>1, <2>3 DEF CLoad
    <3>2. Held' = Held \cup {r} /\ r \notin Held
      BY <2>1, <3>1 DEF Held
    <3>3. got'[r] = store[i] /\ \A q \in Held : got'[q] = got[q]
      BY <1>0, <2>1, <3>1, <3>2
    <3> QED  BY <1>0, <2>1, <3>1, <3>2, <3>3
  <2> QED  BY <2>2, <2>3
<1>4. ASSUME NEW r \in Reqs, CMiss(r) PROVE TrackerInv'
  <2>1. /\ UNCHANGED <<c_bank, c_shm, got, c_meta>>
        /\ (c_pc' = "load" /\ Held' = Held) \/ c_pc' = "raised"
        /\ c_pc = "load"
    BY <1>4 DEF CMiss, Held
  <2> QED  BY <1>0, <2>1
<1>5. CASE CForward
  <2>1. /\ c_pc = "load" /\ c_pc' = "run" /\ Held' = Held /\ UNCHANGED <<got, c_meta>>
        /\ \/ c_bank' = c_bank \ {Head(c_shm)} /\ c_shm # <<>> /\ c_shm' = Tail(c_shm)
           \/ UNCHANGED <<c_bank, c_shm>>
    BY <1>5 DEF CForward, CRelease, Held
  <2>2. c_shm # <<>> => ToSet(c_shm) \subseteq ToSet(Tail(c_shm)) \cup {Head(c_shm)}
    BY <1>0, TailElements
  <2>3. c_bank \subseteq ToSet(c_shm) \cup {got[r] : r \in Held}
    BY <1>0, <2>1
  <2>4. c_bank' \subseteq ToSet(c_shm') \cup {got[r] : r \in Held}
    BY <2>1, <2>2, <2>3
  <2> QED  BY <1>0, <2>1, <2>4
<1>6. CASE CStartSave
  <2>1. /\ c_pc = "run" /\ c_pc' = "save" /\ Held' = Held /\ UNCHANGED <<got, c_meta>>
        /\ c_todo' = c_meta
        /\ \/ c_bank' = c_bank \ ToSet(c_shm) /\ c_shm' = <<>>
           \/ UNCHANGED <<c_bank, c_shm>> /\ ~(Len(c_shm) > force_clean_up_threshold)
    BY <1>6 DEF CStartSave, CRelease, Held
  <2>2. Len(<<>>) = 0 /\ ToSet(<<>>) = {}
    BY DEF ToSet
  <2>3. c_bank' \subseteq ToSet(c_shm') \cup {got[r] : r \in Held}
    BY <1>0, <2>1, <2>2
  <2>4. Len(c_shm') + Cardinality(c_todo') <= force_clean_up_threshold + Cardinality(c_meta')
    BY <1>0, <2>1, <2>2
  <2> QED  BY <1>0, <2>1, <2>3, <2>4
<1>7. CASE CUnlinkFails
  BY <1>0, <1>7 DEF CUnlinkFails
<1>8. ASSUME NEW r \in Reqs, CSave(r) PROVE TrackerInv'
  <2>1. /\ c_pc = "save" /\ c_pc' = "save" /\ r \in c_todo /\ c_todo' = c_todo \ {r}
        /\ Held = c_todo /\ Held' = c_todo \ {r}
        /\ c_shm' = Append(c_shm, got[r]) /\ UNCHANGED <<c_bank, got, c_meta>>
    BY <1>8 DEF CSave, Held
  <2>2. got[r] \in Reqs
    BY <1>0, <2>1 DEF StepHolds
  <2>3. ToSet(c_shm') = ToSet(c_shm) \cup {got[r]} /\ Len(c_shm') = Len(c_shm) + 1
    BY <1>0, <2>1, <2>2, AppendElements
  <2>4. IsFiniteSet(c_todo) /\ Cardinality(c_todo) \in Nat
    BY <1>0, <2>1, FS_Subset, FS_CardinalityType DEF LoadOrder
  <2>5. Cardinality(c_todo') = Cardinality(c_todo) - 1
    BY <2>1, <2>4, FS_RemoveElement
  <2>6. Len(c_shm') + Cardinality(c_todo') <= force_clean_up_threshold + Cardinality(c_meta')
    BY <1>0, <2>1, <2>3, <2>4, <2>5
  <2>7. c_bank' \subseteq ToSet(c_shm') \cup {got[q] : q \in Held'}
    BY <1>0, <2>1, <2>3
  <2> QED  BY <1>0, <2>1, <2>6, <2>7
<1>9. CASE CSaved
  <2>1. /\ c_pc = "save" /\ c_todo = {} /\ c_pc' = "idle" /\ Held = {} /\ Held' = {}
        /\ UNCHANGED <<c_bank, c_shm, got, c_meta>>
    BY <1>9 DEF CSaved, Held
  <2>2. Cardinality({}) = 0
    BY FS_EmptySet
  <2> QED  BY <1>0, <2>1, <2>2
<1>10. ASSUME CDeviceFinish \/ \E r \in Reqs : CFinish(r) \/ Abort(r) PROVE TrackerInv'
  <2>1. UNCHANGED <<c_bank, c_shm, got, c_pc, c_meta, c_todo>>
    BY <1>10 DEF CDeviceFinish, CFinish, Abort, consumer
  <2> QED  BY <1>0, <2>1 DEF Held
<1> QED
  BY <1>1, <1>2, <1>3, <1>4, <1>5, <1>6, <1>7, <1>8, <1>9, <1>10, KVActions

(***************************************************************************)
(* Between two steps the decode node keeps at most the threshold of the    *)
(* forced cleanup and the segments of its last step open, for any number   *)
(* of requests, threshold and mode: the tracker does not grow without end. *)
(***************************************************************************)
THEOREM TrackerStaysBounded == Spec => []TrackerBounded
<1>1. Init => TrackerInv
  <2>1. Len(<<>>) = 0 /\ IsFiniteSet({}) /\ Cardinality({}) = 0
    BY FS_EmptySet
  <2> QED  BY <2>1, NumbersAssumption DEF Init, TrackerInv
<1>2. KVInv /\ TrackerInv => TrackerBounded
  <2> SUFFICES ASSUME KVInv, TrackerInv, c_pc = "idle"
               PROVE  Cardinality(c_bank) <= force_clean_up_threshold + Cardinality(c_meta)
    BY DEF TrackerBounded
  <2>1. c_bank \subseteq ToSet(c_shm) /\ c_shm \in Seq(Reqs)
    BY DEF TrackerInv, Held, KVInv, TypeOK, ConsumerTypeOK
  <2>2. IsFiniteSet(ToSet(c_shm)) /\ Cardinality(ToSet(c_shm)) <= Len(c_shm)
    BY <2>1, ElementsBounded
  <2>3. IsFiniteSet(c_bank) /\ Cardinality(c_bank) <= Cardinality(ToSet(c_shm))
    BY <2>1, <2>2, FS_Subset
  <2>4. /\ Cardinality(c_bank) \in Nat /\ Cardinality(ToSet(c_shm)) \in Nat
        /\ Len(c_shm) \in Nat /\ Cardinality(c_meta) \in Nat
    BY <2>1, <2>2, <2>3, FS_CardinalityType DEF TrackerInv
  <2> QED  BY <2>2, <2>3, <2>4, NumbersAssumption DEF TrackerInv
<1>3. KVInv /\ TrackerInv /\ [Next]_vars => TrackerInv'
  BY TrackerStep
<1> QED  BY KVInvariance, <1>1, <1>2, <1>3, PTL DEF Spec

-----------------------------------------------------------------------------
(***************************************************************************)
(* What is stored has been computed.  The synchronous prefill node saves   *)
(* on the way out of a failed forward pass too ("finally"), and then it    *)
(* stores a segment that was not filled: hence the condition.              *)
(***************************************************************************)
SavesOnlyComputed == AsyncP \/ ~DeviceFails

FillInv ==
  /\ p_pc # "raising"
  /\ \A s \in Reqs : content[s] \in {None, s}
  /\ \A s \in Put \ {None} : content[s] = s
  /\ p_pc = "save" => \A r \in InBatch(p_at) : content[r] = r
  /\ p_pc # "raised" =>
       \A i \in DOMAIN batches : \A r \in InBatch(i) :
         \/ p_pc = "forward" /\ i = Len(batches)
         \/ <<r, r>> \in p_flight \/ content[r] = r

(* A request loads a segment of its own prompt.                            *)
KeysMatch == \A r \in Reqs : got[r] # None => KeyOf[got[r]] = KeyOf[r]

(***************************************************************************)
(* A batch is saved only when the device has computed its segments: with   *)
(* asynchronous outputs a failure leaves before the save, and without      *)
(* failures every batch that is collected is complete.                     *)
(***************************************************************************)
LEMMA FillStep ==
  ASSUME SavesOnlyComputed, KVInv, FillInv, [Next]_vars
  PROVE  FillInv'
<1>0. /\ batches \in Seq(Batch) /\ content \in [Reqs -> Reqs \cup {None}]
      /\ store \in Seq(Reqs) /\ got \in [Reqs -> Reqs \cup {None}]
      /\ p_flight \subseteq Reqs \X Reqs
      /\ DOMAIN batches = 1 .. Len(batches) /\ Len(batches) \in Nat
      /\ \A i \in DOMAIN batches : InBatch(i) \subseteq Reqs
      /\ Flights /\ SavePhase /\ BatchOrder /\ FillInv
  BY BatchesTyped DEF KVInv, TypeOK, MemoryTypeOK, ProducerTypeOK, ConsumerTypeOK
<1> USE DEF FillInv, Put, InBatch
<1>1. ASSUME NEW N \in SUBSET Reqs, NEW L \in SUBSET Reqs, PExecute(N, L) PROVE FillInv'
  <2>1. PICK n \in Nat :
           /\ n = Len(batches') /\ n \notin DOMAIN batches
           /\ DOMAIN batches' = DOMAIN batches \cup {n}
           /\ \A i \in DOMAIN batches : batches'[i] = batches[i]
    BY <1>1, ExecuteBatch
  <2>2. /\ p_pc = "idle" /\ p_pc' = "forward"
        /\ UNCHANGED <<p_flight, content, store, got>>
    BY <1>1 DEF PExecute, consumer
  <2> QED  BY <1>0, <2>1, <2>2
<1>2. ASSUME NEW n \in 0 .. Cardinality(Reqs) + stages, Forwards(n) PROVE FillInv'
  <2>1. /\ p_pc = "forward" /\ p_pc' \in {"idle", "wait"}
        /\ UNCHANGED <<content, store, got, batches>>
        /\ p_flight' = p_flight \cup {<<r, p_kv[p_block[r]]>> : r \in LatestBatch.last}
    BY <1>2 DEF Forwards, consumer
  <2>2. \A r \in LatestBatch.last : p_kv[p_block[r]] = r
    BY <2>1 DEF KVInv, Registered
  <2>3. \A r \in batches[Len(batches)].last : <<r, r>> \in p_flight'
    BY <2>1, <2>2 DEF LatestBatch
  <2>4. p_flight \subseteq p_flight'
    BY <2>1
  <2> QED  BY <1>0, <2>1, <2>3, <2>4
<1>3. ASSUME NEW r \in Reqs, NEW s \in Reqs, PDeviceFinish(r, s) PROVE FillInv'
  <2>1. /\ r = s /\ p_flight' = p_flight \ {<<r, r>>}
        /\ content' = [content EXCEPT ![r] = r]
        /\ UNCHANGED <<store, got, batches, p_pc, p_at>>
    BY <1>0, <1>3 DEF PDeviceFinish, Flights, consumer
  <2>2. \A q \in Reqs : content'[q] = IF q = r THEN r ELSE content[q]
    BY <1>0, <2>1
  <2>3. \A s0 \in (ToSet(store) \cup Range(got)) \ {None} : s0 \in Reqs
    BY <1>0 DEF ToSet, Range
  <2>4. \A q \in Reqs : <<q, q>> \in p_flight /\ q # r => <<q, q>> \in p_flight'
    BY <2>1
  <2>5. \A q \in Reqs : content'[q] \in {None, q} /\ (content[q] = q => content'[q] = q)
    BY <1>0, <2>2
  <2>6. \A s0 \in (ToSet(store') \cup Range(got')) \ {None} : content'[s0] = s0
    BY <1>0, <2>1, <2>3, <2>5
  <2>7. p_pc' = "save" => \A q \in batches'[p_at'].last : content'[q] = q
    BY <1>0, <2>1, <2>5 DEF SavePhase
  <2>8. p_pc' # "raised" =>
          \A i \in DOMAIN batches' : \A q \in batches'[i].last :
            \/ p_pc' = "forward" /\ i = Len(batches')
            \/ <<q, q>> \in p_flight' \/ content'[q] = q
    BY <1>0, <2>1, <2>2, <2>4, <2>5
  <2> QED  BY <1>0, <2>1, <2>5, <2>6, <2>7, <2>8
<1>4. ASSUME NEW i \in 1 .. Len(batches), PCollect(i) PROVE FillInv'
  <2>1. /\ p_pc \in {"idle", "wait"} /\ p_pc' = "save" /\ p_at' = i
        /\ UNCHANGED <<content, store, got, batches, p_flight>>
        /\ \A x \in p_flight : x[1] \notin batches[i].last
    BY <1>4 DEF PCollect, Computed, memory, consumer
  <2>2. \A r \in batches[i].last : content[r] = r
    BY <1>0, <2>1
  <2> QED  BY <1>0, <2>1, <2>2
<1>5. ASSUME NEW i \in 1 .. Len(batches), PDeviceFails(i) PROVE FillInv'
  <2>1. p_pc' = "raised" /\ UNCHANGED <<content, store, got>>
    BY <1>5 DEF PDeviceFails, Raise, SavesOnlyComputed, memory, consumer
  <2> QED  BY <1>0, <2>1
<1>6. ASSUME NEW r \in Reqs, Saves(r) PROVE FillInv'
  <2>1. /\ p_pc = "save" /\ r \in batches[p_at].last
        /\ UNCHANGED <<content, got, batches, p_flight, p_pc, p_at>>
        /\ store' = Append(store, r) \/ UNCHANGED store
    BY <1>0, <1>6, UntrackPends DEF Saves, Untrack, consumer
  <2>2. content[r] = r
    BY <1>0, <2>1
  <2>3. ToSet(store') \subseteq ToSet(store) \cup {r}
    <3>1. ToSet(Append(store, r)) = ToSet(store) \cup {r}
      BY <1>0, AppendElements
    <3> QED  BY <2>1, <3>1
  <2> QED  BY <1>0, <2>1, <2>2, <2>3
<1>7. CASE PSaved
  <2>1. /\ p_pc = "save" /\ p_pc' = "idle" /\ p_at \in DOMAIN batches
        /\ UNCHANGED <<content, store, got, p_flight>>
    BY <1>0, <1>7 DEF PSaved, SavePhase, memory, consumer
  <2>2. /\ DOMAIN batches' = DOMAIN batches
        /\ \A i \in DOMAIN batches : batches'[i].last = batches[i].last
    BY <1>0, <1>7, <2>1, MarkedSaved DEF PSaved
  <2> QED  BY <1>0, <2>1, <2>2
<1>8. CASE PDeliver
  <2>1. /\ p_pc = "idle" /\ p_pc' = "idle" /\ UNCHANGED <<content, store, got, p_flight>>
    BY <1>8 DEF PDeliver, memory, consumer
  <2>2. \A i \in DOMAIN batches' : i + 1 \in DOMAIN batches /\ batches'[i] = batches[i + 1]
    BY <1>0, <1>8, Delivered DEF PDeliver
  <2> QED  BY <1>0, <2>1, <2>2
<1>9. ASSUME NEW killed \in BOOLEAN, PRestart(killed) PROVE FillInv'
  BY <1>0, <1>9 DEF PRestart, consumer
<1>10. ASSUME NEW r \in Reqs, NEW i \in 1 .. Len(store), CLoad(r, i) PROVE FillInv'
  <2>1. /\ UNCHANGED <<content, batches, p_flight, p_pc, p_at>>
        /\ store' = RemoveAt(store, i)
        /\ UNCHANGED got \/ got' = [got EXCEPT ![r] = store[i]]
    BY <1>10 DEF CLoad, producer
  <2>2. store[i] \in ToSet(store) /\ ToSet(store') \subseteq ToSet(store)
    <3>1. ToSet(RemoveAt(store, i)) \subseteq ToSet(store)
      BY <1>0, RemoveAtElements
    <3>2. i \in DOMAIN store
      BY <1>0
    <3> QED  BY <2>1, <3>1, <3>2 DEF ToSet
  <2>3. Range(got') \subseteq Range(got) \cup {store[i]}
    BY <1>0, <2>1 DEF Range
  <2> QED  BY <1>0, <2>1, <2>2, <2>3
<1>11. ASSUME \/ \E S \in SUBSET Reqs : CSchedule(S)
              \/ \E r \in Reqs : CMiss(r) \/ CSave(r) \/ CFinish(r) \/ Abort(r)
              \/ CForward \/ CStartSave \/ CUnlinkFails \/ CSaved \/ CDeviceFinish
              \/ UNCHANGED vars
       PROVE  UNCHANGED <<content, store, got, batches, p_flight, p_pc, p_at>>
  BY <1>11 DEF CSchedule, CMiss, CSave, CFinish, Abort, CForward, CStartSave, CUnlinkFails,
               CSaved, CDeviceFinish, vars, memory, producer, consumer
<1>12. UNCHANGED <<content, store, got, batches, p_flight, p_pc, p_at>> => FillInv'
  BY <1>0
<1> QED
  BY <1>1, <1>2, <1>3, <1>4, <1>5, <1>6, <1>7, <1>8, <1>9, <1>10, <1>11, <1>12, KVActions

(***************************************************************************)
(* A GET returns an entry stored under the key of the prompt, and nobody   *)
(* forgets what was loaded.                                                *)
(***************************************************************************)
LEMMA KeysStep ==
  ASSUME KVInv, KeysMatch, [Next]_vars
  PROVE  KeysMatch'
<1>0. got \in [Reqs -> Reqs \cup {None}]
  BY DEF KVInv, TypeOK, ConsumerTypeOK
<1>1. ASSUME NEW r \in Reqs, NEW i \in 1 .. Len(store), CLoad(r, i) PROVE KeysMatch'
  BY <1>0, <1>1 DEF CLoad, KeysMatch
<1>2. ASSUME \/ \E N, L \in SUBSET Reqs : PExecute(N, L)
             \/ \E n \in 0 .. Cardinality(Reqs) + stages : Forwards(n)
             \/ \E r, s \in Reqs : PDeviceFinish(r, s)
             \/ \E i \in 1 .. Len(batches) : PCollect(i) \/ PDeviceFails(i)
             \/ \E r \in Reqs : Saves(r)
             \/ PSaved \/ PDeliver
             \/ \E killed \in BOOLEAN : PRestart(killed)
             \/ UNCHANGED vars
      PROVE  UNCHANGED got
  BY <1>2, ProducerLeaves DEF consumer
<1>3. ASSUME \/ \E S \in SUBSET Reqs : CSchedule(S)
             \/ \E r \in Reqs : CMiss(r) \/ CSave(r) \/ CFinish(r) \/ Abort(r)
             \/ CForward \/ CStartSave \/ CUnlinkFails \/ CSaved \/ CDeviceFinish
      PROVE  UNCHANGED got
  BY <1>3 DEF CSchedule, CMiss, CSave, CFinish, Abort, CForward, CStartSave, CUnlinkFails,
              CSaved, CDeviceFinish, consumer
<1>4. UNCHANGED got => KeysMatch'
  BY DEF KeysMatch
<1> QED  BY <1>1, <1>2, <1>3, <1>4, KVActions

(***************************************************************************)
(* "Decode will load populated KV buffers": the segment a request loads    *)
(* holds the KV cache of a request with its prompt, for any schedule of    *)
(* either node, unless a failing device meets the synchronous prefill.     *)
(***************************************************************************)
THEOREM LoadsArePopulated == AsyncP \/ ~DeviceFails => (Spec => []LoadsPopulated)
<1> SUFFICES ASSUME SavesOnlyComputed PROVE Spec => []LoadsPopulated
  BY DEF SavesOnlyComputed
<1>1. Init => FillInv /\ KeysMatch
  <2> SUFFICES ASSUME Init PROVE FillInv /\ KeysMatch
    OBVIOUS
  <2>1. Put \subseteq {None} /\ DOMAIN batches = {}
    BY DEF Init, Put, ToSet, Range, Empty
  <2> QED  BY <2>1 DEF Init, FillInv, KeysMatch, Empty
<1>2. KVInv /\ FillInv /\ KeysMatch => LoadsPopulated
  <2> SUFFICES ASSUME KVInv, FillInv, KeysMatch, NEW r \in Reqs, got[r] # None
               PROVE  content[got[r]] # None /\ KeyOf[content[got[r]]] = KeyOf[r]
    BY DEF LoadsPopulated
  <2>1. got[r] \in Put
    BY DEF Put, Range, KVInv, TypeOK, ConsumerTypeOK
  <2> QED  BY <2>1 DEF FillInv, KeysMatch
<1>3. KVInv /\ FillInv /\ KeysMatch /\ [Next]_vars => FillInv' /\ KeysMatch'
  BY FillStep, KeysStep
<1> QED  BY KVInvariance, <1>1, <1>2, <1>3, PTL DEF Spec

-----------------------------------------------------------------------------
(***************************************************************************)
(* While no device and no PUT fails, nobody raises.                        *)
(***************************************************************************)
Loaders == {r \in Reqs : got[r] # None}

ServeInv ==
  /\ p_pc \notin {"raising", "raised"} /\ c_pc # "raised"
  /\ ToSet(store) \cup ToSet(c_shm) \cup Pending \cup {got[r] : r \in Held} \subseteq linked
  /\ IsInjective(c_shm)
  /\ IsFiniteSet(Loaders)
  /\ \A r \in Reqs : stage[r] \in {"handed", "decode", "done"} \/ r \in Loaders => r \in Put
  /\ \A i \in DOMAIN batches : batches[i].saved => InBatch(i) \subseteq Put
  /\ p_pc = "save" => InBatch(p_at) \ p_todo \subseteq Put

(***************************************************************************)
(* The lookup of a request that was handed over always finds an entry: all *)
(* that have loaded a segment for the prompt have put one themselves, so   *)
(* with one waiting there is one entry more than they took.                *)
(***************************************************************************)
LEMMA LookupHits ==
  ASSUME KVInv, KeysMatch, ServeInv, NEW r \in Reqs, CMiss(r)
  PROVE  FALSE
<1> DEFINE A == {q \in Loaders : KeyOf[q] = KeyOf[r]}
           B == {s \in Range(got) \ {None} : KeyOf[s] = KeyOf[r]}
           f == [q \in A |-> got[q]]
<1>1. /\ got \in [Reqs -> Reqs \cup {None}] /\ LoadedOnce
      /\ \A s \in ToSet(store) : KeyOf[s] # KeyOf[r]
      /\ got[r] = None /\ r \in Put
  BY DEF CMiss, KVInv, TypeOK, ConsumerTypeOK, StoredOnce, LoadOrder, ServeInv
<1>2. r \in B /\ r \notin A
  BY <1>1, NoneAssumption DEF Put, Loaders
<1>3. \A q \in A : got[q] \in B
  BY <1>1 DEF Range, Loaders, KeysMatch
<1>4. \A s \in B : \E q \in A : got[q] = s
  BY <1>1 DEF Range, Loaders, KeysMatch
<1>5. f \in Surjection(A, B)
  BY <1>3, <1>4 DEF Surjection
<1>6. f \in Injection(A, B)
  BY <1>1, <1>3 DEF Injection, IsInjective, LoadedOnce, Loaders
<1>7. IsFiniteSet(A)
  BY FS_Subset DEF ServeInv
<1>8. A \subseteq B
  BY <1>1, NoneAssumption DEF ServeInv, Put, Loaders
<1> HIDE DEF A, B, f
<1>9. IsFiniteSet(B) /\ Cardinality(B) = Cardinality(A)
  BY <1>5, <1>6, <1>7, FS_Surjection
<1>10. A = B
  BY <1>8, <1>9, FS_Subset
<1> QED  BY <1>2, <1>10

(***************************************************************************)
(* While nothing fails nobody raises: segments exist while they are named, *)
(* and every lookup of a request that was handed over finds one.           *)
(***************************************************************************)
LEMMA ServeStep ==
  ASSUME ~DeviceFails, ~PutErrors, KVInv, KeysMatch, ServeInv, [Next]_vars
  PROVE  ServeInv'
<1>0. /\ batches \in Seq(Batch) /\ store \in Seq(Reqs) /\ c_shm \in Seq(Reqs)
      /\ stage \in [Reqs -> Stages] /\ got \in [Reqs -> Reqs \cup {None}]
      /\ DOMAIN batches = 1 .. Len(batches) /\ Len(batches) \in Nat
      /\ SavePhase /\ BatchOrder /\ StoredOnce /\ LoadOrder /\ StepHolds /\ ServeInv
      /\ Pending \cap Put = {} /\ ToSet(c_shm) \subseteq Put
  BY BatchesTyped DEF KVInv, TypeOK, MemoryTypeOK, ProducerTypeOK, ConsumerTypeOK,
                      StoredOnce, Pending, StepHolds, Put
<1> USE DEF ServeInv, InBatch
<1>1. ASSUME NEW N \in SUBSET Reqs, NEW L \in SUBSET Reqs, PExecute(N, L) PROVE ServeInv'
  <2>1. PICK n \in Nat :
           /\ n = Len(batches') /\ n \notin DOMAIN batches
           /\ DOMAIN batches' = DOMAIN batches \cup {n} /\ ~batches'[n].saved
           /\ \A i \in DOMAIN batches : batches'[i] = batches[i]
    BY <1>1, ExecuteBatch
  <2>2. L \cap (tracker \cup N) = L /\ Pending' = Pending \cup L
    BY <1>1, ExecuteBatch, ExecutePends
  <2>3. /\ p_pc' = "forward" /\ linked' = linked \cup L
        /\ UNCHANGED <<store, got, c_shm, c_pc, c_meta, c_todo>>
        /\ \A r \in Reqs : stage'[r] \in {"last", "chunks"} \/ stage'[r] = stage[r]
    BY <1>0, <1>1, <2>2 DEF PExecute, consumer
  <2>4. Held' = Held /\ Loaders' = Loaders /\ Put' = Put
    BY <2>3 DEF Held, Loaders, Put
  <2>5. ToSet(store') \cup ToSet(c_shm') \cup Pending' \cup {got'[r] : r \in Held'} \subseteq linked'
    BY <1>0, <2>2, <2>3, <2>4
  <2>6. \A r \in Reqs :
           stage'[r] \in {"handed", "decode", "done"} \/ r \in Loaders' => r \in Put'
    BY <1>0, <2>3, <2>4
  <2>7. \A i \in DOMAIN batches' : batches'[i].saved => batches'[i].last \subseteq Put'
    BY <1>0, <2>1, <2>4
  <2>8. IsInjective(c_shm') /\ IsFiniteSet(Loaders')
    BY <1>0, <2>3, <2>4
  <2> QED  BY <1>0, <2>3, <2>5, <2>6, <2>7, <2>8
<1>2. ASSUME NEW n \in 0 .. Cardinality(Reqs) + stages, Forwards(n) PROVE ServeInv'
  <2>1. /\ p_pc' \in {"idle", "wait"} /\ UNCHANGED <<stage, linked, store, batches, consumer>>
    BY <1>2 DEF Forwards
  <2>2. Pending' = Pending
    BY <1>2, SamePending
  <2> QED  BY <1>0, <2>1, <2>2 DEF consumer, Held, Loaders, Put
<1>3. ASSUME NEW r \in Reqs, NEW s \in Reqs, PDeviceFinish(r, s) PROVE ServeInv'
  <2>1. UNCHANGED <<stage, linked, store, batches, p_pc, p_at, p_todo, consumer>>
    BY <1>3 DEF PDeviceFinish
  <2>2. Pending' = Pending
    BY <2>1, SamePending
  <2> QED  BY <1>0, <2>1, <2>2 DEF consumer, Held, Loaders, Put
<1>4. ASSUME NEW i \in 1 .. Len(batches), PCollect(i) PROVE ServeInv'
  <2>1. /\ p_pc' = "save" /\ p_at' = i /\ p_todo' = batches[i].last
        /\ UNCHANGED <<stage, linked, store, batches, consumer>>
    BY <1>0, <1>4 DEF PCollect, memory, BatchOrder
  <2>2. Pending' = Pending
    BY <1>4, SamePending
  <2> QED  BY <1>0, <2>1, <2>2 DEF consumer, Held, Loaders, Put
<1>5. ASSUME NEW r \in Reqs, Saves(r) PROVE ServeInv'
  <2>1. /\ Pending' = Pending \ {r} /\ r \in Pending /\ UNCHANGED <<p_pc, p_at, batches>>
        /\ store' = Append(store, r) /\ p_todo' = p_todo \ {r}
        /\ UNCHANGED <<stage, linked, consumer>>
    BY <1>5, UntrackPends DEF Saves, Untrack
  <2>2. ToSet(store') = ToSet(store) \cup {r}
    BY <1>0, <2>1, AppendElements
  <2>3. Put' = Put \cup {r} /\ Held' = Held /\ Loaders' = Loaders
    BY <2>1, <2>2 DEF consumer, Held, Loaders, Put
  <2> QED  BY <1>0, <2>1, <2>2, <2>3 DEF consumer
<1>6. CASE PSaved
  <2>1. /\ p_pc = "save" /\ p_pc' = "idle" /\ p_todo = {} /\ p_at \in DOMAIN batches
        /\ UNCHANGED <<stage, linked, store, consumer>>
    BY <1>0, <1>6 DEF PSaved, memory, SavePhase
  <2>2. /\ DOMAIN batches' = DOMAIN batches
        /\ \A i \in DOMAIN batches :
              /\ batches'[i].last = batches[i].last
              /\ batches'[i].saved = (batches[i].saved \/ i = p_at)
    BY <1>0, <1>6, <2>1, MarkedSaved DEF PSaved
  <2>3. Pending' = Pending
    BY <1>6, SamePending
  <2>4. Put' = Put /\ Held' = Held /\ Loaders' = Loaders
    BY <2>1 DEF consumer, Held, Loaders, Put
  <2>5. ToSet(store') \cup ToSet(c_shm') \cup Pending' \cup {got'[r] : r \in Held'} \subseteq linked'
    BY <1>0, <2>1, <2>3, <2>4 DEF consumer
  <2>6. \A r \in Reqs :
           stage'[r] \in {"handed", "decode", "done"} \/ r \in Loaders' => r \in Put'
    BY <1>0, <2>1, <2>4
  <2>7. batches[p_at].last \subseteq Put
    BY <1>0, <2>1
  <2>8. \A i \in DOMAIN batches' : batches'[i].saved => batches'[i].last \subseteq Put'
    BY <1>0, <2>2, <2>4, <2>7
  <2>9. IsInjective(c_shm') /\ IsFiniteSet(Loaders')
    BY <1>0, <2>1, <2>4 DEF consumer
  <2> QED  BY <1>0, <2>1, <2>5, <2>6, <2>8, <2>9 DEF consumer
<1>7. CASE PDeliver
  <2>1. /\ p_pc = "idle" /\ p_pc' = "idle" /\ 1 \in DOMAIN batches /\ batches[1].saved
        /\ UNCHANGED <<linked, store, consumer>>
        /\ \A r \in Reqs : \/ stage'[r] = stage[r]
                           \/ r \in batches[1].last /\ stage'[r] = "handed"
    BY <1>0, <1>7 DEF PDeliver, memory
  <2>2. \A i \in DOMAIN batches' : i + 1 \in DOMAIN batches /\ batches'[i] = batches[i + 1]
    BY <1>0, <1>7, Delivered DEF PDeliver
  <2>3. Pending' = Pending
    BY <1>7, SamePending
  <2>4. Put' = Put /\ Held' = Held /\ Loaders' = Loaders
    BY <2>1 DEF consumer, Held, Loaders, Put
  <2> QED  BY <1>0, <2>1, <2>2, <2>3, <2>4 DEF consumer
<1>8. ASSUME NEW S \in SUBSET Reqs, CSchedule(S) PROVE ServeInv'
  <2>1. /\ Held = {} /\ Held' = {} /\ c_pc' = "load"
        /\ UNCHANGED <<linked, store, got, c_shm, batches, p_pc, p_at, p_todo>>
        /\ \A r \in Reqs : \/ stage'[r] = stage[r]
                           \/ stage[r] = "handed" /\ stage'[r] = "decode"
    BY <1>0, <1>8 DEF CSchedule, Held, memory, producer
  <2>2. Pending' = Pending /\ Put' = Put /\ Loaders' = Loaders
    BY <2>1, SamePending DEF Put, Loaders
  <2> QED  BY <1>0, <2>1, <2>2
<1>9. ASSUME NEW r \in Reqs, NEW i \in 1 .. Len(store), CLoad(r, i) PROVE ServeInv'
  <2> DEFINE s == store[i]
  <2>1. /\ s \in Reqs /\ s # None /\ s \in ToSet(store) /\ s \in linked
        /\ ToSet(RemoveAt(store, i)) = ToSet(store) \ {s}
    <3>1. s \in ToSet(store) /\ s \in Reqs
      BY <1>0 DEF ToSet
    <3>2. ToSet(RemoveAt(store, i)) = ToSet(store) \ {s}
      BY <1>0, RemoveAtElements DEF StoredOnce
    <3> QED  BY <1>0, <3>1, <3>2, NoneAssumption
  <2>2. /\ c_pc = "load" /\ r \in c_todo /\ c_pc' = "load" /\ store' = RemoveAt(store, i)
        /\ got' = [got EXCEPT ![r] = s] /\ c_todo' = c_todo \ {r}
        /\ UNCHANGED <<stage, linked, c_shm, c_meta, producer>>
    BY <1>9, <2>1 DEF CLoad
  <2> HIDE DEF s
  <2>3. /\ got[r] = None /\ r \in c_meta /\ stage[r] = "decode"
        /\ Held' = Held \cup {r} /\ r \notin Held
    BY <1>0, <2>2 DEF LoadOrder, Held
  <2>4. /\ \A q \in Reqs : got'[q] = IF q = r THEN s ELSE got[q]
        /\ Loaders' = Loaders \cup {r}
    BY <1>0, <2>1, <2>2 DEF Loaders
  <2>5. Range(got) \ {None} \subseteq Range(got') /\ s \in Range(got')
    BY <1>0, <2>2, <2>3 DEF Range
  <2>6. Put \ {None} \subseteq Put'
    BY <2>1, <2>2, <2>5 DEF Put
  <2>7. IsFiniteSet(Loaders')
    BY <1>0, <2>4, FS_AddElement
  <2>8. Pending' = Pending
    BY <2>2, SamePending DEF producer
  <2>9. Held \subseteq Reqs
    BY DEF Held, KVInv, TypeOK, ConsumerTypeOK
  <2>10. {got'[q] : q \in Held'} \subseteq {got[q] : q \in Held} \cup {s}
    BY <2>3, <2>4, <2>9
  <2>11. \A q \in Reqs : stage'[q] \in {"handed", "decode", "done"} \/ q \in Loaders' => q \in Put'
    BY <1>0, <2>2, <2>3, <2>4, <2>6, NoneAssumption
  <2>12. \A j \in DOMAIN batches : batches[j].saved => batches[j].last \subseteq Put'
    BY <1>0, <2>6, BatchesTyped, NoneAssumption
  <2>13. p_pc = "save" => batches[p_at].last \ p_todo \subseteq Put'
    BY <1>0, <2>6, BatchesTyped, NoneAssumption DEF SavePhase
  <2> QED  BY <1>0, <2>1, <2>2, <2>7, <2>8, <2>10, <2>11, <2>12, <2>13 DEF producer
<1>10. ASSUME NEW r \in Reqs, CMiss(r) PROVE FALSE
  BY <1>10, LookupHits
<1>11. CASE CForward
  <2>1. /\ Held' = Held /\ c_pc' = "run" /\ UNCHANGED <<stage, store, producer, got>>
        /\ \/ /\ linked' = linked \ {Head(c_shm)} /\ c_shm # <<>> /\ c_shm' = Tail(c_shm)
           \/ UNCHANGED <<linked, c_shm>>
    BY <1>11 DEF CForward, CRelease, Held
  <2>2. c_shm # <<>> => /\ Head(c_shm) \in ToSet(c_shm)
                        /\ ToSet(Tail(c_shm)) \subseteq ToSet(c_shm) \ {Head(c_shm)}
                        /\ IsInjective(Tail(c_shm))
    BY <1>0, TailElements
  <2>3. Pending' = Pending /\ Put' = Put /\ Loaders' = Loaders
    BY <2>1, SamePending DEF producer, Put, Loaders
  <2>4. ASSUME c_shm # <<>>, linked' = linked \ {Head(c_shm)}, c_shm' = Tail(c_shm)
        PROVE  ToSet(store) \cup ToSet(c_shm') \cup Pending \cup {got[r] : r \in Held} \subseteq linked'
    <3>1. Head(c_shm) \in Range(got) /\ Head(c_shm) \in Put
      BY <1>0, <2>2, <2>4 DEF StepHolds
    <3>2. Head(c_shm) \notin ToSet(store) /\ Head(c_shm) \notin Pending
      BY <1>0, <3>1 DEF StoredOnce
    <3>3. Head(c_shm) \notin {got[r] : r \in Held}
      BY <1>0, <2>2, <2>4 DEF StepHolds
    <3> QED  BY <1>0, <2>2, <2>4, <3>2, <3>3
  <2> QED  BY <1>0, <2>1, <2>2, <2>3, <2>4 DEF producer
<1>12. CASE CStartSave
  <2>1. /\ Held' = Held /\ c_pc' = "save" /\ UNCHANGED <<stage, store, producer, got>>
        /\ \/ linked' = linked \ ToSet(c_shm) /\ c_shm' = <<>>
           \/ UNCHANGED <<linked, c_shm>>
    BY <1>12 DEF CStartSave, CRelease, Held
  <2>2. Pending' = Pending /\ Put' = Put /\ Loaders' = Loaders
    BY <2>1, SamePending DEF producer, Put, Loaders
  <2>3. ToSet(<<>>) = {} /\ IsInjective(<<>>)
    BY DEF ToSet, IsInjective
  <2>4. /\ ToSet(c_shm) \cap ToSet(store) = {} /\ ToSet(c_shm) \cap Pending = {}
        /\ ToSet(c_shm) \cap {got[r] : r \in Held} = {}
    BY <1>0 DEF StepHolds, StoredOnce
  <2> QED  BY <1>0, <2>1, <2>2, <2>3, <2>4 DEF producer
<1>13. CASE CUnlinkFails
  <2>1. c_shm # <<>> => Head(c_shm) \in ToSet(c_shm)
    BY <1>0, TailElements
  <2> QED  BY <1>0, <1>13, <2>1 DEF CUnlinkFails
<1>14. ASSUME NEW r \in Reqs, CSave(r) PROVE ServeInv'
  <2>1. /\ c_pc = "save" /\ c_pc' = "save" /\ r \in Held /\ Held' \subseteq Held
        /\ c_shm' = Append(c_shm, got[r]) /\ UNCHANGED <<stage, linked, store, producer, got>>
    BY <1>14 DEF CSave, Held, memory
  <2>2. got[r] \in Reqs /\ got[r] \notin ToSet(c_shm) /\ got[r] \in linked
    BY <1>0, <2>1 DEF StepHolds
  <2>3. IsInjective(c_shm') /\ ToSet(c_shm') = ToSet(c_shm) \cup {got[r]}
    BY <1>0, <2>1, <2>2, AppendElements
  <2>4. Pending' = Pending /\ Put' = Put /\ Loaders' = Loaders
    BY <2>1, SamePending DEF producer, Put, Loaders
  <2> QED  BY <1>0, <2>1, <2>2, <2>3, <2>4 DEF producer
<1>15. ASSUME \/ CSaved \/ CDeviceFinish \/ UNCHANGED vars
              \/ \E r \in Reqs : CFinish(r) \/ Abort(r)
       PROVE  ServeInv'
  <2>1. /\ c_pc' # "raised" /\ UNCHANGED <<linked, store, producer, got, c_shm>>
        /\ \A r \in Reqs : \/ stage'[r] = stage[r]
                           \/ stage'[r] = "aborted"
                           \/ stage[r] = "decode" /\ stage'[r] = "done"
    BY <1>0, <1>15 DEF CSaved, CDeviceFinish, CFinish, Abort, vars, memory, consumer
  <2>2. Held' = Held
    BY <1>15 DEF CSaved, CDeviceFinish, CFinish, Abort, vars, consumer, Held
  <2>3. Pending' = Pending /\ Put' = Put /\ Loaders' = Loaders
    BY <2>1, SamePending DEF producer, Put, Loaders
  <2> QED  BY <1>0, <2>1, <2>2, <2>3 DEF producer
<1>16. ~(\E i \in 1 .. Len(batches) : PDeviceFails(i)) /\ ~\E killed \in BOOLEAN : PRestart(killed)
  BY DEF PDeviceFails, Raise, PRestart
<1> QED
  BY <1>1, <1>2, <1>3, <1>4, <1>5, <1>6, <1>7, <1>8, <1>9, <1>10, <1>11, <1>12, <1>13,
     <1>14, <1>15, <1>16, KVActions

(***************************************************************************)
(* "We assume KV store will always have tokens ready in case of consumer"  *)
(* holds while no device and no PUT fails, for any number of requests,     *)
(* equal prompts and aborts: no lookup gives up, no stored segment has     *)
(* disappeared, and no release finds a segment unlinked.                   *)
(***************************************************************************)
THEOREM NobodyEverRaises == ~DeviceFails /\ ~PutErrors => (Spec => []NobodyRaises)
<1> SUFFICES ASSUME ~DeviceFails, ~PutErrors PROVE Spec => []NobodyRaises
  OBVIOUS
<1>1. Init => KeysMatch /\ ServeInv
  <2> SUFFICES ASSUME Init PROVE KeysMatch /\ ServeInv
    OBVIOUS
  <2>1. /\ ToSet(store) = {} /\ ToSet(c_shm) = {} /\ IsInjective(c_shm)
        /\ DOMAIN batches = {} /\ Pending = {} /\ Held = {} /\ Loaders = {}
    BY DEF Init, ToSet, IsInjective, Pending, Held, Loaders, Empty
  <2>2. IsFiniteSet(Loaders)
    BY <2>1, FS_EmptySet
  <2> QED  BY <2>1, <2>2 DEF Init, KeysMatch, ServeInv, Empty
<1>2. ServeInv => NobodyRaises
  BY DEF ServeInv, NobodyRaises
<1>3. KVInv /\ KeysMatch /\ ServeInv /\ [Next]_vars => KeysMatch' /\ ServeInv'
  BY KeysStep, ServeStep
<1> QED  BY KVInvariance, <1>1, <1>2, <1>3, PTL DEF Spec

-----------------------------------------------------------------------------
(***************************************************************************)
(* While no prefill fails, the nodes implement KVHandoff.  What must hold  *)
(* for it: a segment exists from the submission of its last chunk until    *)
(* the decode node releases it, who is bound for the store or stored is    *)
(* not released, and only what was computed is stored.                     *)
(***************************************************************************)
HandInv ==
  /\ p_pc \notin {"raising", "raised"}
  /\ \A r \in Reqs : stage[r] \in {"new", "chunks"} => r \notin linked /\ content[r] = None
  /\ ToSet(store) \cup Pending \cup c_bank \subseteq linked
  /\ ToSet(c_shm) \subseteq c_bank /\ IsInjective(c_shm)
  /\ c_bank \subseteq Range(got) \ {None}
  /\ \A x \in p_flight : content[x[2]] = None
  /\ p_pc = "forward" => \A r \in LatestBatch.last : content[r] = None

(***************************************************************************)
(* While no prefill fails, segments live from their submission to their    *)
(* release and hold nothing before they are computed.                      *)
(***************************************************************************)
LEMMA HandStep ==
  ASSUME ~DeviceFails, KVInv, HandInv, [Next]_vars
  PROVE  HandInv'
<1>0. /\ batches \in Seq(Batch) /\ store \in Seq(Reqs) /\ c_shm \in Seq(Reqs)
      /\ stage \in [Reqs -> Stages] /\ got \in [Reqs -> Reqs \cup {None}]
      /\ content \in [Reqs -> Reqs \cup {None}] /\ p_flight \subseteq Reqs \X Reqs
      /\ DOMAIN batches = 1 .. Len(batches) /\ Len(batches) \in Nat
      /\ \A i \in DOMAIN batches : InBatch(i) \subseteq Reqs
      /\ SavePhase /\ BatchOrder /\ Flights /\ StoredOnce /\ LoadOrder /\ StepHolds
      /\ HandInv /\ Pending \cap Put = {} /\ Pending \subseteq Reqs
  BY BatchesTyped DEF KVInv, TypeOK, MemoryTypeOK, ProducerTypeOK, ConsumerTypeOK,
                      StoredOnce, Pending
<1> USE DEF HandInv
<1>1. ASSUME NEW N \in SUBSET Reqs, NEW L \in SUBSET Reqs, PExecute(N, L) PROVE HandInv'
  <2>1. L \cap (tracker \cup N) = L /\ Pending' = Pending \cup L
    BY <1>1, ExecuteBatch, ExecutePends
  <2>2. /\ p_pc' = "forward" /\ linked' = linked \cup L
        /\ UNCHANGED <<content, store, p_flight, got, c_shm, c_bank>>
        /\ \A r \in L : stage[r] \in {"new", "chunks"}
        /\ \A r \in Reqs : stage'[r] \in {"new", "chunks"} =>
                             stage[r] \in {"new", "chunks"} /\ r \notin L
    BY <1>0, <1>1, <2>1 DEF PExecute, consumer
  <2>3. LatestBatch'.last = L
    BY <1>1, ExecuteBatch DEF LatestBatch
  <2>4. ToSet(store') \cup Pending' \cup c_bank' \subseteq linked'
    BY <1>0, <2>1, <2>2
  <2> QED  BY <1>0, <2>2, <2>3, <2>4
<1>2. ASSUME NEW n \in 0 .. Cardinality(Reqs) + stages, Forwards(n) PROVE HandInv'
  <2>1. /\ p_pc = "forward" /\ p_pc' \in {"idle", "wait"}
        /\ UNCHANGED <<stage, linked, content, store, got, c_shm, c_bank>>
        /\ p_flight' = p_flight \cup {<<r, p_kv[p_block[r]]>> : r \in LatestBatch.last}
    BY <1>2 DEF Forwards, consumer
  <2>2. Pending' = Pending
    BY <1>2, SamePending
  <2>3. \A r \in LatestBatch.last : p_kv[p_block[r]] = r
    BY <2>1 DEF KVInv, Registered
  <2>4. \A x \in p_flight' : content'[x[2]] = None
    BY <1>0, <2>1, <2>3
  <2> QED  BY <1>0, <2>1, <2>2, <2>4
<1>3. ASSUME NEW r \in Reqs, NEW s \in Reqs, PDeviceFinish(r, s) PROVE HandInv'
  <2>1. /\ r = s /\ <<r, r>> \in p_flight /\ p_flight' = p_flight \ {<<r, r>>}
        /\ content' = [content EXCEPT ![r] = r]
        /\ UNCHANGED <<stage, linked, store, got, c_shm, c_bank, batches, p_pc, p_at, p_todo>>
    BY <1>0, <1>3 DEF PDeviceFinish, Flights, consumer
  <2>2. Pending' = Pending
    BY <2>1, SamePending
  <2>3. PICK i \in DOMAIN batches :
          r \in InBatch(i) /\ ~(p_pc = "forward" /\ i = Len(batches))
    BY <1>0, <2>1 DEF Flights
  <2>4. stage[r] \in {"last", "aborted"}
    BY <1>0, <2>3 DEF BatchOrder
  <2>5. p_pc = "forward" => r \notin LatestBatch.last
    BY <1>0, <2>3 DEF SavePhase, BatchOrder, LatestBatch, InBatch
  <2>6. \A q \in Reqs \ {r} : content'[q] = content[q]
    BY <1>0, <2>1
  <2>7. \A x \in p_flight' : x[2] \in Reqs \ {r}
    <3>1. ASSUME NEW x \in p_flight', x[2] = r PROVE FALSE
      <4>1. x \in p_flight /\ x[1] = r /\ x \in Reqs \X Reqs
        BY <1>0, <2>1, <3>1 DEF Flights
      <4>2. x = <<r, r>>
        BY <3>1, <4>1
      <4> QED  BY <2>1, <4>2
    <3> QED  BY <1>0, <2>1, <3>1
  <2>8. \A q \in Reqs : stage'[q] \in {"new", "chunks"} => q \notin linked' /\ content'[q] = None
    BY <1>0, <2>1, <2>4, <2>6
  <2>9. \A x \in p_flight' : content'[x[2]] = None
    BY <1>0, <2>1, <2>6, <2>7
  <2>10. p_pc' = "forward" => \A q \in LatestBatch'.last : content'[q] = None
    BY <1>0, <2>1, <2>5, <2>6 DEF LatestBatch, SavePhase, InBatch
  <2> QED  BY <1>0, <2>1, <2>2, <2>8, <2>9, <2>10
<1>4. ASSUME NEW i \in 1 .. Len(batches), PCollect(i) PROVE HandInv'
  <2>1. p_pc' = "save" /\ UNCHANGED <<stage, linked, content, store, got, c_shm, c_bank, p_flight>>
    BY <1>4 DEF PCollect, memory, consumer
  <2>2. Pending' = Pending
    BY <1>4, SamePending
  <2> QED  BY <1>0, <2>1, <2>2
<1>5. ASSUME NEW r \in Reqs, Saves(r) PROVE HandInv'
  <2>1. /\ p_pc \in {"save", "raising"} /\ Pending' = Pending \ {r} /\ r \in Pending
        /\ UNCHANGED <<p_pc, stage, linked, content, got, c_shm, c_bank, p_flight>>
        /\ store' = Append(store, r) \/ UNCHANGED store
    BY <1>5, UntrackPends DEF Saves, Untrack, consumer
  <2>2. ToSet(Append(store, r)) = ToSet(store) \cup {r}
    BY <1>0, AppendElements
  <2>3. ToSet(store') \subseteq ToSet(store) \cup {r}
    BY <2>1, <2>2
  <2> QED  BY <1>0, <2>1, <2>3
<1>6. CASE PSaved \/ PDeliver
  <2>1. /\ p_pc' = "idle" /\ UNCHANGED <<linked, content, store, got, c_shm, c_bank, p_flight>>
        /\ \A r \in Reqs : stage'[r] \in {"handed", stage[r]}
    BY <1>0, <1>6 DEF PSaved, PDeliver, memory, consumer
  <2>2. Pending' = Pending
    BY <1>6, SamePending
  <2> QED  BY <1>0, <2>1, <2>2
<1>7. ASSUME NEW r \in Reqs, NEW i \in 1 .. Len(store), CLoad(r, i) PROVE HandInv'
  <2> DEFINE s == store[i]
  <2>1. /\ s \in Reqs /\ s # None /\ s \in ToSet(store)
        /\ ToSet(RemoveAt(store, i)) \subseteq ToSet(store)
    <3>1. s \in ToSet(store) /\ s \in Reqs
      BY <1>0 DEF ToSet
    <3>2. ToSet(RemoveAt(store, i)) \subseteq ToSet(store)
      BY <1>0, RemoveAtElements
    <3> QED  BY <3>1, <3>2, NoneAssumption
  <2>2. /\ r \in c_todo /\ c_pc = "load" /\ store' = RemoveAt(store, i)
        /\ got' = [got EXCEPT ![r] = s] /\ c_bank' = c_bank \cup {s}
        /\ UNCHANGED <<stage, linked, content, c_shm, producer>>
    BY <1>0, <1>7, <2>1 DEF CLoad
  <2> HIDE DEF s
  <2>3. got[r] = None
    BY <1>0, <2>2 DEF LoadOrder
  <2>4. Range(got) \ {None} \subseteq Range(got') \ {None} /\ s \in Range(got') \ {None}
    BY <1>0, <2>1, <2>2, <2>3 DEF Range
  <2>5. Pending' = Pending
    BY <2>2, SamePending DEF producer
  <2>6. ToSet(store') \cup Pending' \cup c_bank' \subseteq linked'
    BY <1>0, <2>1, <2>2, <2>5
  <2>7. c_bank' \subseteq Range(got') \ {None}
    BY <1>0, <2>2, <2>4
  <2> QED  BY <1>0, <2>2, <2>6, <2>7 DEF producer, LatestBatch
<1>8. ASSUME NEW S \in SUBSET ToSet(c_shm), CRelease(S), IsInjective(c_shm'),
             ToSet(c_shm') \subseteq ToSet(c_shm) \ S,
             UNCHANGED <<stage, content, store, producer, got>>
      PROVE  HandInv'
  <2>1. S \cap ToSet(store) = {} /\ S \cap Pending = {}
    BY <1>0 DEF StepHolds, StoredOnce, Put
  <2>2. Pending' = Pending
    BY <1>8, SamePending DEF producer
  <2>3. c_bank' = c_bank \ S /\ linked' = linked \ S
    BY <1>8 DEF CRelease
  <2> QED  BY <1>0, <1>8, <2>1, <2>2, <2>3 DEF producer, LatestBatch
<1>9. CASE CForward
  <2>1. UNCHANGED <<stage, content, store, producer, got>>
    BY <1>9 DEF CForward
  <2>2. CASE c_shm # <<>>
    <3>1. CRelease({Head(c_shm)}) /\ c_shm' = Tail(c_shm)
      BY <1>9, <2>2 DEF CForward
    <3>2. /\ {Head(c_shm)} \in SUBSET ToSet(c_shm) /\ IsInjective(c_shm')
          /\ ToSet(c_shm') \subseteq ToSet(c_shm) \ {Head(c_shm)}
      BY <1>0, <2>2, <3>1, TailElements
    <3> QED  BY <1>8, <2>1, <3>1, <3>2
  <2>3. CASE c_shm = <<>>
    <3>1. UNCHANGED <<c_bank, linked, c_shm>>
      BY <1>9, <2>3 DEF CForward
    <3>2. Pending' = Pending
      BY <2>1, SamePending DEF producer
    <3> QED  BY <1>0, <2>1, <3>1, <3>2 DEF producer, LatestBatch
  <2> QED  BY <2>2, <2>3
<1>10. CASE CStartSave
  <2>1. UNCHANGED <<stage, content, store, producer, got>>
    BY <1>10 DEF CStartSave
  <2>2. CASE CRelease(ToSet(c_shm)) /\ c_shm' = <<>>
    <3>1. IsInjective(<<>>) /\ ToSet(<<>>) = {}
      BY DEF ToSet, IsInjective
    <3> QED  BY <1>8, <2>1, <2>2, <3>1
  <2>3. CASE UNCHANGED <<c_bank, linked, c_shm>>
    <3>1. Pending' = Pending
      BY <2>1, SamePending DEF producer
    <3> QED  BY <1>0, <2>1, <2>3, <3>1 DEF producer, LatestBatch
  <2> QED  BY <1>10, <2>2, <2>3 DEF CStartSave
<1>11. ASSUME NEW r \in Reqs, CSave(r) PROVE HandInv'
  <2>1. /\ r \in Held /\ c_shm' = Append(c_shm, got[r])
        /\ UNCHANGED <<stage, linked, content, store, producer, got, c_bank>>
    BY <1>11 DEF CSave, Held, memory
  <2>2. got[r] \in Reqs /\ got[r] \notin ToSet(c_shm) /\ got[r] \in c_bank
    BY <1>0, <2>1 DEF StepHolds
  <2>3. IsInjective(c_shm') /\ ToSet(c_shm') = ToSet(c_shm) \cup {got[r]}
    BY <1>0, <2>1, <2>2, AppendElements
  <2>4. Pending' = Pending
    BY <2>1, SamePending DEF producer
  <2> QED  BY <1>0, <2>1, <2>2, <2>3, <2>4 DEF producer, LatestBatch
<1>12. ASSUME \/ \E S \in SUBSET Reqs : CSchedule(S)
              \/ \E r \in Reqs : CMiss(r) \/ CFinish(r) \/ Abort(r)
              \/ CUnlinkFails \/ CSaved \/ CDeviceFinish \/ UNCHANGED vars
       PROVE  HandInv'
  <2>1. /\ UNCHANGED <<memory, producer, c_shm, c_bank, got>>
        /\ \A r \in Reqs : stage'[r] \in {stage[r], "decode", "done", "aborted"}
    BY <1>0, <1>12 DEF CSchedule, CMiss, CFinish, Abort, CUnlinkFails, CSaved,
                       CDeviceFinish, vars, consumer
  <2>2. Pending' = Pending
    BY <2>1, SamePending DEF producer
  <2> QED  BY <1>0, <2>1, <2>2 DEF producer, memory, LatestBatch
<1>13. ~(\E i \in 1 .. Len(batches) : PDeviceFails(i)) /\ ~\E killed \in BOOLEAN : PRestart(killed)
  BY DEF PDeviceFails, Raise, PRestart
<1> QED
  BY <1>1, <1>2, <1>3, <1>4, <1>5, <1>6, <1>7, <1>9, <1>10, <1>11, <1>12, <1>13, KVActions

-----------------------------------------------------------------------------
(***************************************************************************)
(* The refinement mapping, and the phase it gives to a segment of which    *)
(* the invariants say where it is.                                         *)
(***************************************************************************)
Phases  == [s \in Reqs |-> Phase(s)]
Readers == [s \in Reqs |-> IF \E r \in Reqs : got[r] = s
                           THEN CHOOSE r \in Reqs : got[r] = s ELSE None]
InUse   == {x[2] : x \in p_flight} \cup (IF c_running THEN c_use ELSE {})

HandoffInv == KVInv /\ FillInv /\ KeysMatch /\ HandInv

(***************************************************************************)
(* The phase the refinement mapping gives to a segment, from where the     *)
(* invariants say it is.                                                   *)
(***************************************************************************)
LEMMA PhaseOf ==
  ASSUME HandoffInv
  PROVE  /\ \A s \in Reqs : stage[s] \in {"new", "chunks"} => Phase(s) = "none"
         /\ \A s \in Pending : /\ s \in Reqs /\ s \in linked /\ s \notin c_bank
                               /\ s \notin ToSet(store)
                               /\ content[s] = None => Phase(s) = "empty"
                               /\ content[s] # None => Phase(s) = "filled"
         /\ \A s \in ToSet(store) : s \in Reqs /\ Phase(s) = "stored"
         /\ \A s \in c_bank : s \in Reqs /\ s \in linked /\ Phase(s) = "loaded"
                              /\ content[s] # None /\ s \notin ToSet(store)
<1>1. /\ c_bank \subseteq Reqs /\ ToSet(store) \subseteq Reqs /\ Pending \subseteq Reqs
      /\ ToSet(store) \cap c_bank = {} /\ Pending \cap c_bank = {}
      /\ Pending \cap ToSet(store) = {}
  BY DEF HandoffInv, KVInv, TypeOK, ConsumerTypeOK, MemoryTypeOK, HandInv, StoredOnce, Put,
         Pending, ToSet
<1>2. /\ ToSet(store) \cup Pending \cup c_bank \subseteq linked
      /\ \A s \in c_bank : s \in Put \ {None}
      /\ \A s \in Reqs : stage[s] \in {"new", "chunks"} => s \notin linked /\ content[s] = None
  BY DEF HandoffInv, HandInv, Put
<1>3. \A s \in c_bank : content[s] # None
  BY <1>2 DEF HandoffInv, FillInv
<1> QED  BY <1>1, <1>2, <1>3 DEF Phase

(***************************************************************************)
(* What the prefill device writes belongs to a request that has still to   *)
(* be stored, and is empty until it has finished.                          *)
(***************************************************************************)
LEMMA FlightsPend ==
  ASSUME HandoffInv
  PROVE  \A x \in p_flight : /\ x[1] = x[2] /\ x[2] \in Pending /\ content[x[2]] = None
                             /\ x = <<x[2], x[2]>>
<1>1. /\ p_flight \subseteq Reqs \X Reqs /\ batches \in Seq(Batch) /\ Flights
      /\ p_pc \notin {"raising", "raised"} /\ \A x \in p_flight : content[x[2]] = None
  BY DEF HandoffInv, KVInv, TypeOK, ProducerTypeOK, HandInv
<1> SUFFICES ASSUME NEW x \in p_flight
             PROVE  /\ x[1] = x[2] /\ x[2] \in Pending /\ content[x[2]] = None
                    /\ x = <<x[2], x[2]>>
  OBVIOUS
<1>2. x[2] = x[1] /\ x \in Reqs \X Reqs
  BY <1>1 DEF Flights
<1>3. PICK i \in DOMAIN batches : x[1] \in InBatch(i) /\ ~batches[i].saved
                                  /\ ~(p_pc = "save" /\ p_at = i)
  BY <1>1 DEF Flights
<1>4. x[1] \in Pending
  BY <1>1, <1>2, <1>3 DEF Pending
<1> QED  BY <1>1, <1>2, <1>4

(***************************************************************************)
(* A segment whose place does not change keeps its phase, and readers are  *)
(* those of the requests that loaded something.                            *)
(***************************************************************************)
LEMMA PhaseKept ==
  ASSUME NEW s \in Reqs, (s \in linked) = (s \in linked'), (s \in c_bank) = (s \in c_bank'),
         (s \in ToSet(store)) = (s \in ToSet(store')), content'[s] = content[s]
  PROVE  Phase(s)' = Phase(s)
BY DEF Phase

ReadersKnown ==
  \A s \in Reqs : /\ \A r \in Reqs : got[r] = s => Readers[s] = r
                  /\ (\A r \in Reqs : got[r] # s) => Readers[s] = None

(***************************************************************************)
(* The reader of a segment is the request that has loaded it: nobody else  *)
(* has (LoadedOnce).                                                       *)
(***************************************************************************)
LEMMA ReaderOf == HandoffInv => ReadersKnown
<1> SUFFICES ASSUME HandoffInv, NEW s \in Reqs
             PROVE  /\ \A r \in Reqs : got[r] = s => Readers[s] = r
                    /\ (\A r \in Reqs : got[r] # s) => Readers[s] = None
  BY DEF ReadersKnown
<1>1. LoadedOnce /\ s # None
  BY NoneAssumption DEF HandoffInv, KVInv, StoredOnce
<1>2. ASSUME NEW r \in Reqs, got[r] = s PROVE Readers[s] = r
  <2>1. \A q \in Reqs : got[q] = s => q = r
    BY <1>1, <1>2 DEF LoadedOnce
  <2> QED  BY <1>2, <2>1 DEF Readers
<1> QED  BY <1>2 DEF Readers

-----------------------------------------------------------------------------
(***************************************************************************)
(* The steps of the prefill node, as steps of the hand-off.                *)
(***************************************************************************)
HandoffStep == HandoffInv /\ ReadersKnown' /\ ~DeviceFails

(***************************************************************************)
(* Scheduling last chunks creates their segments.                          *)
(***************************************************************************)
LEMMA ExecuteCreates ==
  ASSUME HandoffStep, NEW N \in SUBSET Reqs, NEW L \in SUBSET Reqs, PExecute(N, L)
  PROVE  Handoff!Next
<1>1. L \cap (tracker \cup N) = L
  BY ExecuteBatch DEF HandoffStep, HandoffInv
<1>2. /\ linked' = linked \cup L
      /\ UNCHANGED <<content, store, p_flight, got, c_bank, c_running, c_use>>
      /\ \A s \in L : stage[s] \in {"new", "chunks"}
  BY <1>1 DEF PExecute, consumer
<1>3. \A s \in L : Phase(s) = "none" /\ s \notin c_bank /\ s \notin ToSet(store)
                   /\ content[s] = None
  BY <1>2, PhaseOf DEF HandoffStep, HandoffInv, HandInv
<1>4. \A s \in L : Phase(s)' = "empty"
  BY <1>2, <1>3 DEF Phase
<1>5. \A s \in Reqs \ L : Phase(s)' = Phase(s)
  BY <1>2, PhaseKept
<1>6. Readers' = Readers /\ InUse' = InUse
  BY <1>2 DEF Readers, InUse
<1>7. Phases' = [s \in Reqs |-> IF s \in L THEN "empty" ELSE Phases[s]]
  BY <1>4, <1>5 DEF Phases
<1>8. \A s \in L : Phases[s] = "none"
  BY <1>3 DEF Phases
<1>9. Handoff!Create(L)
  BY <1>6, <1>7, <1>8 DEF Handoff!Create, Phases, Readers, InUse
<1> QED  BY <1>9 DEF Handoff!Next

(***************************************************************************)
(* The submission of a prefill uses segments that are there and empty.     *)
(***************************************************************************)
LEMMA ForwardUses ==
  ASSUME HandoffStep, NEW n \in 0 .. Cardinality(Reqs) + stages, Forwards(n)
  PROVE  Handoff!Next
<1>0. /\ p_pc = "forward" /\ batches \in Seq(Batch) /\ batches # <<>> /\ ~LatestBatch.saved
      /\ Len(batches) \in DOMAIN batches
      /\ LatestBatch.last \in SUBSET Reqs
  <2>1. /\ p_pc = "forward" /\ batches \in Seq(Batch) /\ batches # <<>> /\ ~LatestBatch.saved
    BY DEF Forwards, HandoffStep, HandoffInv, KVInv, SavePhase, TypeOK, ProducerTypeOK
  <2> QED  BY <2>1, BatchesTyped DEF LatestBatch, InBatch
<1>a. PICK S \in SUBSET Reqs : S = LatestBatch.last
  BY <1>0
<1>1. /\ p_pc = "forward"
      /\ UNCHANGED <<linked, content, store, got, c_bank, c_running, c_use>>
      /\ p_flight' = p_flight \cup {<<r, p_kv[p_block[r]]>> : r \in S}
  BY <1>a DEF Forwards, consumer
<1>2. \A r \in S : p_kv[p_block[r]] = r /\ content[r] = None
  BY <1>a, <1>1 DEF HandoffStep, HandoffInv, KVInv, Registered, HandInv
<1>3. S \subseteq Pending
  BY <1>0, <1>a, <1>1 DEF Pending, InBatch, LatestBatch
<1>4. \A s \in S : s \in Reqs /\ Phase(s) = "empty"
  BY <1>2, <1>3, PhaseOf DEF HandoffStep
<1>5. {x[2] : x \in p_flight'} = {x[2] : x \in p_flight} \cup S
  <2>1. p_flight' = p_flight \cup {<<r, r>> : r \in S}
    BY <1>1, <1>2
  <2>2. \A r \in S : <<r, r>> \in p_flight' /\ <<r, r>>[2] = r
    BY <2>1
  <2>3. \A x \in p_flight' : x \in p_flight \/ x[2] \in S
    BY <2>1
  <2> QED  BY <2>1, <2>2, <2>3
<1>6. InUse' = InUse \cup S
  BY <1>1, <1>5 DEF InUse
<1>7. \A s \in Reqs : Phase(s)' = Phase(s)
  BY <1>1, PhaseKept
<1>8. Phases' = Phases /\ Readers' = Readers
  BY <1>1, <1>7 DEF Phases, Readers
<1>9. \A s \in S : Phases[s] \in {"empty", "loaded"}
  BY <1>4 DEF Phases
<1>10. Handoff!Use(S)
  BY <1>6, <1>8, <1>9 DEF Handoff!Use, Phases, Readers, InUse
<1> QED  BY <1>10 DEF Handoff!Next

(***************************************************************************)
(* A finished prefill fills its segment and stops using it.                *)
(***************************************************************************)
LEMMA FinishFills ==
  ASSUME HandoffStep, NEW r \in Reqs, NEW s \in Reqs, PDeviceFinish(r, s)
  PROVE  Handoff!Next
<1>1. /\ <<r, s>> \in p_flight /\ p_flight' = p_flight \ {<<r, s>>}
      /\ content' = [content EXCEPT ![s] = r] /\ content \in [Reqs -> Reqs \cup {None}]
      /\ UNCHANGED <<linked, store, got, c_bank, c_running, c_use>>
  BY DEF PDeviceFinish, consumer, HandoffStep, HandoffInv, KVInv, TypeOK, MemoryTypeOK
<1>2. r = s /\ s \in Pending /\ content[s] = None
  <2>1. <<r, s>>[1] = r /\ <<r, s>>[2] = s
    OBVIOUS
  <2> QED  BY <1>1, <2>1, FlightsPend DEF HandoffStep
<1>3. Phase(s) = "empty" /\ s \in linked /\ s \notin c_bank /\ s \notin ToSet(store)
  BY <1>2, PhaseOf DEF HandoffStep
<1>4. Phase(s)' = "filled"
  BY <1>1, <1>3, NoneAssumption DEF Phase
<1>5. \A q \in Reqs \ {s} : Phase(q)' = Phase(q)
  BY <1>1, PhaseKept
<1>6. Phases' = [Phases EXCEPT ![s] = "filled"]
  BY <1>4, <1>5 DEF Phases
<1>7. Readers' = Readers
  BY <1>1 DEF Readers
<1>8. s \in {x[2] : x \in p_flight}
  BY <1>1
<1>9. {x[2] : x \in p_flight'} = {x[2] : x \in p_flight} \ {s}
  <2>1. ASSUME NEW x \in p_flight, x[2] = s PROVE x = <<r, s>>
    BY <1>2, <2>1, FlightsPend DEF HandoffStep
  <2>2. <<r, s>>[2] = s
    OBVIOUS
  <2> QED  BY <1>1, <2>1, <2>2
<1>10. c_running => s \notin c_use
  BY <1>3 DEF HandoffStep, HandoffInv, KVInv, DecodeReads
<1>11. s \in InUse /\ InUse' = InUse \ {s}
  BY <1>1, <1>8, <1>9, <1>10 DEF InUse
<1>12. Handoff!Fill(s)
  <2>1. Phases[s] = "empty"
    BY <1>3 DEF Phases
  <2> QED  BY <1>6, <1>7, <1>11, <2>1 DEF Handoff!Fill, Phases, Readers, InUse
<1> QED  BY <1>12 DEF Handoff!Next

(***************************************************************************)
(* An accepted PUT stores a filled segment.                                *)
(***************************************************************************)
LEMMA PutStores ==
  ASSUME HandoffStep, NEW r \in Reqs, Untrack(r), store' = Append(store, r)
  PROVE  Handoff!Next
<1>1. /\ store \in Seq(Reqs) /\ store' = Append(store, r)
      /\ UNCHANGED <<linked, content, got, c_bank, p_flight, c_running, c_use>>
  BY DEF Untrack, consumer, HandoffStep, HandoffInv, KVInv, TypeOK, MemoryTypeOK
<1>2. ToSet(store') = ToSet(store) \cup {r}
  BY <1>1, AppendElements
<1>3. r \in Pending /\ content[r] # None
  <2>1. r \in Pending /\ r \in InBatch(p_at)
    BY UntrackPends DEF HandoffStep, HandoffInv
  <2>2. p_pc = "save"
    BY DEF Untrack, HandoffStep, HandoffInv, FillInv
  <2>3. content[r] = r
    BY <2>1, <2>2 DEF HandoffStep, HandoffInv, FillInv
  <2> QED  BY <2>1, <2>3, NoneAssumption
<1>4. Phase(r) = "filled" /\ r \in linked /\ r \notin c_bank
  BY <1>3, PhaseOf DEF HandoffStep
<1>5. Phase(r)' = "stored"
  BY <1>1, <1>2, <1>4 DEF Phase
<1>6. \A q \in Reqs \ {r} : Phase(q)' = Phase(q)
  BY <1>1, <1>2, PhaseKept
<1>7. Phases' = [Phases EXCEPT ![r] = "stored"] /\ Phases[r] = "filled"
  BY <1>4, <1>5, <1>6 DEF Phases
<1>8. Readers' = Readers /\ InUse' = InUse
  BY <1>1 DEF Readers, InUse
<1>9. Handoff!Store(r)
  BY <1>7, <1>8 DEF Handoff!Store, Phases, Readers, InUse
<1> QED  BY <1>9 DEF Handoff!Next

-----------------------------------------------------------------------------
(***************************************************************************)
(* The steps of the decode node.                                           *)
(***************************************************************************)
LEMMA LoadLoads ==
  ASSUME HandoffStep, NEW r \in Reqs, NEW i \in 1 .. Len(store), CLoad(r, i)
  PROVE  Handoff!Next
<1>0. /\ store \in Seq(Reqs) /\ got \in [Reqs -> Reqs \cup {None}]
      /\ IsInjective(store) /\ ToSet(store) \subseteq linked
  BY DEF HandoffStep, HandoffInv, KVInv, TypeOK, MemoryTypeOK, ConsumerTypeOK, StoredOnce,
         HandInv
<1>a. store[i] \in Reqs
  BY <1>0
<1>b. PICK s \in Reqs : s = store[i]
  BY <1>a
<1>1. s \in ToSet(store) /\ ToSet(RemoveAt(store, i)) = ToSet(store) \ {s}
  <2>1. s \in ToSet(store)
    BY <1>0, <1>b DEF ToSet
  <2> QED  BY <1>0, <1>b, <2>1, RemoveAtElements
<1>2. /\ c_pc = "load" /\ r \in c_todo /\ KeyOf[s] = KeyOf[r]
      /\ store' = RemoveAt(store, i) /\ c_bank' = c_bank \cup {s}
      /\ got' = [got EXCEPT ![r] = s]
      /\ UNCHANGED <<linked, content, p_flight, c_running, c_use>>
  BY <1>0, <1>1, <1>b DEF CLoad, producer
<1>3. Phase(s) = "stored" /\ s \in linked
  BY <1>0, <1>1, PhaseOf DEF HandoffStep
<1>4. Phase(s)' = "loaded"
  BY <1>2, <1>3 DEF Phase
<1>5. \A q \in Reqs \ {s} : Phase(q)' = Phase(q)
  BY <1>1, <1>2, PhaseKept
<1>6. Phases' = [Phases EXCEPT ![s] = "loaded"] /\ Phases[s] = "stored"
  BY <1>1, <1>3, <1>4, <1>5 DEF Phases
<1>7. got[r] = None
  BY <1>2 DEF HandoffStep, HandoffInv, KVInv, LoadOrder
<1>8. \A q \in Reqs : got'[q] = IF q = r THEN s ELSE got[q]
  BY <1>0, <1>2
<1>9. ASSUME NEW t \in Reqs PROVE Readers[t] # r
  <2>1. CASE \E q \in Reqs : got[q] = t
    <3>1. PICK q \in Reqs : got[q] = t
      BY <2>1
    <3>2. Readers[t] = q /\ q # r
      BY <1>7, <3>1, ReaderOf, NoneAssumption DEF HandoffStep, ReadersKnown
    <3> QED  BY <3>2
  <2>2. CASE \A q \in Reqs : got[q] # t
    BY <2>2, ReaderOf, NoneAssumption DEF HandoffStep, ReadersKnown
  <2> QED  BY <2>1, <2>2
<1>10. \A t \in Reqs : /\ \A q \in Reqs : got'[q] = t => Readers'[t] = q
                       /\ (\A q \in Reqs : got'[q] # t) => Readers'[t] = None
  BY DEF HandoffStep, ReadersKnown
<1>11. ASSUME NEW t \in Reqs PROVE Readers'[t] = IF t = s THEN r ELSE Readers[t]
  <2>1. CASE t = s
    BY <1>8, <1>10, <2>1
  <2>2. CASE t # s /\ \E q \in Reqs : got[q] = t
    <3>1. PICK q \in Reqs : got[q] = t
      BY <2>2
    <3>2. q # r /\ got'[q] = t
      BY <1>7, <1>8, <3>1, NoneAssumption
    <3> QED  BY <1>10, <2>2, <3>1, <3>2, ReaderOf DEF HandoffStep, ReadersKnown
  <2>3. CASE t # s /\ \A q \in Reqs : got[q] # t
    <3>1. \A q \in Reqs : got'[q] # t
      BY <1>8, <2>3
    <3> QED  BY <1>10, <2>3, <3>1, ReaderOf DEF HandoffStep, ReadersKnown
  <2> QED  BY <2>1, <2>2, <2>3
<1>12. Readers' = [Readers EXCEPT ![s] = r]
  BY <1>11 DEF Readers
<1>13. InUse' = InUse
  BY <1>2 DEF InUse
<1>14. Handoff!Load(r, s)
  BY <1>2, <1>6, <1>9, <1>12, <1>13 DEF Handoff!Load, Phases, Readers, InUse
<1> QED  BY <1>1, <1>14 DEF Handoff!Next

(***************************************************************************)
(* What a release leaves of the phases.                                    *)
(***************************************************************************)
LEMMA ReleasePhases ==
  ASSUME HandoffStep, NEW R \in SUBSET ToSet(c_shm), CRelease(R),
         UNCHANGED <<content, store>>
  PROVE  /\ R \in SUBSET Reqs /\ \A s \in R : Phases[s] = "loaded"
         /\ Phases' = [s \in Reqs |-> IF s \in R THEN "gone" ELSE Phases[s]]
<1>1. ToSet(c_shm) \subseteq c_bank
  BY DEF HandoffStep, HandoffInv, HandInv
<1>2. \A s \in R : s \in Reqs /\ Phase(s) = "loaded" /\ content[s] # None
  BY <1>1, PhaseOf DEF HandoffStep
<1>3. c_bank' = c_bank \ R /\ linked' = linked \ R
  BY DEF CRelease
<1>4. \A s \in R : Phase(s)' = "gone"
  BY <1>2, <1>3 DEF Phase
<1>5. \A s \in Reqs \ R : Phase(s)' = Phase(s)
  BY <1>3, PhaseKept
<1> QED  BY <1>2, <1>4, <1>5 DEF Phases

(***************************************************************************)
(* The decode submission hands the loaded segments of the step to the      *)
(* device, and its cleanup callback releases an older one.                 *)
(***************************************************************************)
LEMMA ForwardUsesAndReleases ==
  ASSUME HandoffStep, CForward
  PROVE  Handoff!Next
<1>1. /\ c_pc = "load" /\ c_todo = {} /\ c_running' = TRUE
      /\ UNCHANGED <<content, store, got, p_flight>>
      /\ c_use' = (IF c_running THEN c_use ELSE {}) \cup {c_kv[c_block[r]] : r \in c_meta}
  BY DEF CForward, producer
<1>2. ~c_running
  BY <1>1 DEF HandoffStep, HandoffInv, KVInv, DecodeReads
<1>3. \A r \in c_meta : /\ c_kv[c_block[r]] \in c_bank
                        /\ c_kv[c_block[r]] \notin ToSet(c_shm)
  <2>1. Held = c_meta
    BY <1>1 DEF Held
  <2> QED  BY <2>1 DEF HandoffStep, HandoffInv, KVInv, StepHolds
<1>b. {c_kv[c_block[r]] : r \in c_meta} \in SUBSET Reqs
  BY <1>3, PhaseOf DEF HandoffStep
<1>c. PICK S \in SUBSET Reqs : S = {c_kv[c_block[r]] : r \in c_meta}
  BY <1>b
<1>4. S \subseteq c_bank /\ S \cap ToSet(c_shm) = {} /\ c_use' = (IF c_running THEN c_use ELSE {}) \cup S
  BY <1>1, <1>3, <1>c
<1>5. \A s \in S : s \in Reqs /\ Phases[s] = "loaded"
  BY <1>4, PhaseOf DEF Phases, HandoffStep
<1>6. \A s \in c_bank : s \notin {x[2] : x \in p_flight}
  BY FlightsPend, PhaseOf DEF HandoffStep
<1>7. InUse' = InUse \cup S /\ InUse \cap c_bank = {}
  BY <1>1, <1>2, <1>4, <1>6 DEF InUse
<1>8. Readers' = Readers
  BY <1>1 DEF Readers
<1>9. ASSUME NEW R \in SUBSET Reqs, R \subseteq ToSet(c_shm),
             \A s \in R : Phases[s] = "loaded",
             Phases' = [s \in Reqs |-> IF s \in R THEN "gone" ELSE Phases[s]]
      PROVE  Handoff!Next
  <2>1. R \subseteq c_bank
    BY <1>9 DEF HandoffStep, HandoffInv, HandInv
  <2>2. S \cap R = {} /\ R \cap InUse = {}
    BY <1>4, <1>7, <1>9, <2>1
  <2>3. Handoff!UseAndRelease(S, R)
    BY <1>5, <1>7, <1>8, <1>9, <2>2 DEF Handoff!UseAndRelease, Phases, Readers, InUse
  <2> QED  BY <2>3 DEF Handoff!Next
<1>10. CASE c_shm # <<>>
  <2>1. CRelease({Head(c_shm)})
    BY <1>10 DEF CForward
  <2>2. Head(c_shm) \in Reqs /\ Head(c_shm) \in ToSet(c_shm)
    BY <1>10, TailElements DEF HandoffStep, HandoffInv, KVInv, TypeOK, ConsumerTypeOK
  <2>3. PICK h \in Reqs : h = Head(c_shm)
    BY <2>2
  <2>4. /\ Phases[h] = "loaded"
        /\ Phases' = [s \in Reqs |-> IF s \in {h} THEN "gone" ELSE Phases[s]]
    BY <1>1, <2>1, <2>2, <2>3, ReleasePhases
  <2>5. {h} \in SUBSET Reqs /\ {h} \subseteq ToSet(c_shm) /\ \A s \in {h} : Phases[s] = "loaded"
    BY <2>2, <2>3, <2>4
  <2> QED  BY <1>9, <2>4, <2>5
<1>11. CASE c_shm = <<>>
  <2>1. UNCHANGED <<c_bank, linked>>
    BY <1>11 DEF CForward
  <2>2. \A s \in Reqs : Phase(s)' = Phase(s)
    BY <1>1, <2>1, PhaseKept
  <2>3. Phases' = [s \in Reqs |-> IF s \in {} THEN "gone" ELSE Phases[s]]
    BY <2>2 DEF Phases
  <2>4. {} \in SUBSET Reqs /\ {} \subseteq ToSet(c_shm)
    OBVIOUS
  <2> QED  BY <1>9, <2>3, <2>4
<1> QED  BY <1>10, <1>11

(***************************************************************************)
(* A finished decode stops using its segments.                             *)
(***************************************************************************)
LEMMA FinishReads ==
  ASSUME HandoffStep, CDeviceFinish
  PROVE  Handoff!Next
<1>1. /\ c_running /\ ~c_running'
      /\ UNCHANGED <<linked, content, store, got, c_bank, p_flight, c_use>>
  BY DEF CDeviceFinish, memory, producer
<1>2. c_use \subseteq c_bank
  BY <1>1 DEF HandoffStep, HandoffInv, KVInv, DecodeReads
<1>3. \A s \in c_use : s \in Reqs /\ Phases[s] = "loaded"
  BY <1>2, PhaseOf DEF Phases, HandoffStep
<1>4. \A s \in c_use : s \notin {x[2] : x \in p_flight}
  BY <1>2, FlightsPend, PhaseOf DEF HandoffStep
<1>5. c_use \subseteq InUse /\ InUse' = InUse \ c_use
  BY <1>1, <1>4 DEF InUse
<1>6. \A s \in Reqs : Phase(s)' = Phase(s)
  BY <1>1, PhaseKept
<1>7. Phases' = Phases /\ Readers' = Readers
  BY <1>1, <1>6 DEF Phases, Readers
<1>8. PICK S \in SUBSET Reqs : S = c_use
  BY <1>3
<1>9. Handoff!Read(S)
  BY <1>3, <1>5, <1>7, <1>8 DEF Handoff!Read, Phases, Readers, InUse
<1> QED  BY <1>9 DEF Handoff!Next

(* Nothing the mapping speaks of changes.                                  *)
LEMMA HandoffStutters ==
  ASSUME HandoffStep, UNCHANGED <<memory, got, c_bank, p_flight, c_running, c_use>>
  PROVE  UNCHANGED <<Phases, Readers, InUse>>
<1>1. \A s \in Reqs : Phase(s)' = Phase(s)
  BY PhaseKept DEF memory
<1> QED  BY <1>1 DEF Phases, Readers, InUse

(***************************************************************************)
(* The forced cleanup at the start of the save releases loaded segments    *)
(* that no device uses.                                                    *)
(***************************************************************************)
LEMMA StartSaveReleases ==
  ASSUME HandoffStep, CStartSave
  PROVE  Handoff!Next \/ UNCHANGED <<Phases, Readers, InUse>>
<1>1. /\ c_pc = "run"
      /\ UNCHANGED <<content, store, got, p_flight, c_running, c_use>>
  BY DEF CStartSave, producer
<1>2. CASE CRelease(ToSet(c_shm))
  <2>1. /\ ToSet(c_shm) \in SUBSET Reqs /\ \A s \in ToSet(c_shm) : Phases[s] = "loaded"
        /\ Phases' = [s \in Reqs |-> IF s \in ToSet(c_shm) THEN "gone" ELSE Phases[s]]
    BY <1>1, <1>2, ReleasePhases
  <2>2. c_running => c_use \cap ToSet(c_shm) = {}
    BY <1>1 DEF HandoffStep, HandoffInv, KVInv, DecodeReads
  <2>3. \A s \in ToSet(c_shm) : s \notin {x[2] : x \in p_flight}
    BY FlightsPend, PhaseOf DEF HandoffStep, HandoffInv, HandInv
  <2>4. ToSet(c_shm) \cap InUse = {}
    BY <2>2, <2>3 DEF InUse
  <2>5. Readers' = Readers /\ InUse' = InUse
    BY <1>1 DEF Readers, InUse
  <2>6. PICK S \in SUBSET Reqs : S = ToSet(c_shm)
    BY <2>1
  <2>7. Handoff!Release(S)
    BY <2>1, <2>4, <2>5, <2>6 DEF Handoff!Release, Phases, Readers, InUse
  <2> QED  BY <2>7 DEF Handoff!Next
<1>3. CASE UNCHANGED <<c_bank, linked, c_shm>>
  BY <1>1, <1>3, HandoffStutters DEF memory
<1> QED  BY <1>2, <1>3 DEF CStartSave

(***************************************************************************)
(* The two nodes, their queues, callbacks, cleanups and aborts never break *)
(* what KVHandoff promises of a buffer: created empty, computed, stored,   *)
(* loaded by one request for the same prompt and released, in this order,  *)
(* and neither stored nor released while a device uses it.                 *)
(***************************************************************************)
THEOREM NodesImplementHandoff == ~DeviceFails => (Spec => RefinesHandoff)
<1> SUFFICES ASSUME ~DeviceFails PROVE Spec => RefinesHandoff
  OBVIOUS
<1>1. Init => HandoffInv /\ Handoff!Init
  <2> SUFFICES ASSUME Init PROVE HandoffInv /\ Handoff!Init
    OBVIOUS
  <2>1. /\ ToSet(store) = {} /\ ToSet(c_shm) = {} /\ IsInjective(c_shm)
        /\ DOMAIN batches = {} /\ Pending = {} /\ Put \subseteq {None}
    BY DEF Init, ToSet, IsInjective, Pending, Put, Range, Empty
  <2>2. FillInv /\ KeysMatch /\ HandInv
    BY <2>1 DEF Init, FillInv, KeysMatch, HandInv, Empty
  <2>3. \A s \in Reqs : Phase(s) = "none" /\ \A r \in Reqs : got[r] # s
    BY NoneAssumption DEF Init, Phase, Empty
  <2>4. \A s \in Reqs : Readers[s] = None
    BY <2>3 DEF Readers
  <2>5. Phases = [s \in Reqs |-> "none"] /\ Readers = [s \in Reqs |-> None] /\ InUse = {}
    BY <2>3, <2>4 DEF Init, Phases, Readers, InUse
  <2>6. Handoff!Init
    BY <2>5 DEF Handoff!Init, Phases, Readers, InUse
  <2> QED  BY <2>2, <2>6, InitKV DEF HandoffInv
<1>2. HandoffInv /\ [Next]_vars => HandoffInv'
  BY KVStep, FillStep, KeysStep, HandStep DEF HandoffInv, SavesOnlyComputed
<1>3. ASSUME HandoffInv, ReadersKnown', [Next]_vars
      PROVE  [Handoff!Next]_<<Phases, Readers, InUse>>
  <2>1. HandoffStep
    BY <1>3 DEF HandoffStep
  <2>2. CASE \/ \E N, L \in SUBSET Reqs : PExecute(N, L)
             \/ \E n \in 0 .. Cardinality(Reqs) + stages : Forwards(n)
             \/ \E r, s \in Reqs : PDeviceFinish(r, s)
             \/ \E r \in Reqs : Untrack(r) /\ store' = Append(store, r)
             \/ \E r \in Reqs : \E i \in 1 .. Len(store) : CLoad(r, i)
             \/ CForward \/ CDeviceFinish
    BY <2>1, <2>2, ExecuteCreates, ForwardUses, FinishFills, PutStores, LoadLoads,
       ForwardUsesAndReleases, FinishReads
  <2>3. CASE CStartSave
    BY <2>1, <2>3, StartSaveReleases
  <2>4. CASE \/ \E i \in 1 .. Len(batches) : PCollect(i)
             \/ \E r \in Reqs : Untrack(r) /\ UNCHANGED store
             \/ PSaved \/ PDeliver
             \/ \E S \in SUBSET Reqs : CSchedule(S)
             \/ \E r \in Reqs : CMiss(r) \/ CSave(r) \/ CFinish(r) \/ Abort(r)
             \/ CUnlinkFails \/ CSaved \/ UNCHANGED vars
    <3>1. UNCHANGED <<memory, got, c_bank, p_flight, c_running, c_use>>
      BY <2>4 DEF PCollect, Untrack, PSaved, PDeliver, CSchedule, CMiss, CSave,
                  CFinish, Abort, CUnlinkFails, CSaved, vars, memory, producer, consumer
    <3> QED  BY <2>1, <3>1, HandoffStutters
  <2>5. ~(\E i \in 1 .. Len(batches) : PDeviceFails(i)) /\ ~\E killed \in BOOLEAN : PRestart(killed)
    BY DEF PDeviceFails, Raise, PRestart
  <2>6. KVInv
    BY <1>3 DEF HandoffInv
  <2> QED  BY <1>3, <2>2, <2>3, <2>4, <2>5, <2>6, KVActions DEF Saves
<1> QED
  BY <1>1, <1>2, <1>3, ReaderOf, PTL DEF Spec, RefinesHandoff, Handoff!Spec, Handoff!hvars,
                               Phases, Readers, InUse
=============================================================================
