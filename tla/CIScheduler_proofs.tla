------------------------ MODULE CIScheduler_proofs ------------------------
(***************************************************************************)
(* The order of the jobs and the ownership of the devices, for every list  *)
(* of jobs and every pool of devices.                                      *)
(***************************************************************************)
EXTENDS CIScheduler, FiniteSetTheorems, TLAPS

-----------------------------------------------------------------------------
(***************************************************************************)
(* The inductive invariant.  ColdJobsFirst follows from what an open gate  *)
(* says about the job that opened it (GatesEarned), and from what a job    *)
(* that was started found open (StartedReady).                             *)
(***************************************************************************)
StatusOK == status \in [Jobs -> {"pending", "running", "ended", "checking", "done"}]

Over(i) == status[i] \in {"checking", "done"}

GatesEarned ==
  \A i \in Jobs :
    /\ CompileCold(i) /\ config_key[i] \in compile_gate => Over(i)
    /\ ExportCold(i) /\ model_name[i] # None /\ model_name[i] \in export_gate => Over(i)

StartedReady == \A j \in Jobs : status[j] # "pending" => Ready(j)

GateInv == StatusOK /\ GatesEarned /\ StartedReady

-----------------------------------------------------------------------------
(***************************************************************************)
(* _claim_gates() makes at most one job the owner of a gate.               *)
(***************************************************************************)
LEMMA OneOwner ==
  ASSUME NEW i \in Jobs, NEW j \in Jobs
  PROVE  /\ CompileCold(i) /\ CompileCold(j) /\ config_key[i] = config_key[j] => i = j
         /\ ExportCold(i) /\ ExportCold(j) /\ model_name[i] # None
              /\ model_name[i] = model_name[j] => i = j
<1>1. CASE i < j
  <2>1. i \in 1 .. j-1
    BY <1>1, JobsAssumption DEF Jobs
  <2> QED
    BY <2>1 DEF CompileCold, ExportCold
<1>2. CASE j < i
  <2>1. j \in 1 .. i-1
    BY <1>2, JobsAssumption DEF Jobs
  <2> QED
    BY <2>1 DEF CompileCold, ExportCold
<1> QED
  BY <1>1, <1>2, JobsAssumption DEF Jobs

(***************************************************************************)
(* A step that touches neither the gates nor the status of a job.          *)
(***************************************************************************)
LEMMA GatesUntouched ==
  ASSUME GateInv, UNCHANGED scheduler
  PROVE  GateInv'
BY DEF GateInv, StatusOK, GatesEarned, StartedReady, Over, Ready,
       ExportCold, CompileCold, scheduler

(***************************************************************************)
(* A step of a started job to a later status, the gates unchanged.         *)
(***************************************************************************)
LEMMA JobMoves ==
  ASSUME GateInv, NEW j \in Jobs, NEW s \in {"ended", "done"},
         status[j] # "pending", status' = [status EXCEPT ![j] = s],
         s = "ended" => status[j] = "running",
         UNCHANGED <<export_gate, compile_gate>>
  PROVE  GateInv'
<1>1. StatusOK'
  BY DEF GateInv, StatusOK
<1>2. \A i \in Jobs : Over(i) => Over(i)'
  BY DEF GateInv, StatusOK, Over
<1>3. \A i \in Jobs : (status[i] # "pending")' => status[i] # "pending"
  BY DEF GateInv, StatusOK
<1>4. GatesEarned'
  BY <1>2 DEF GateInv, GatesEarned, CompileCold, ExportCold
<1>5. StartedReady'
  BY <1>3 DEF GateInv, StartedReady, Ready, CompileCold, ExportCold
<1> QED
  BY <1>1, <1>4, <1>5 DEF GateInv

(***************************************************************************)
(* The gates are closed at the start, and every step keeps the invariant.  *)
(***************************************************************************)
LEMMA GateInit == Init => GateInv
BY DEF Init, GateInv, StatusOK, GatesEarned, StartedReady

(***************************************************************************)
(* Every step keeps the gates honest: a gate opens only when its owner has *)
(* ended, and a job starts only behind open gates.                         *)
(***************************************************************************)
LEMMA GateStep == GateInv /\ [Next]_vars => GateInv'
<1> SUFFICES ASSUME GateInv, [Next]_vars PROVE GateInv'
  OBVIOUS
<1>1. CASE MainWakes \/ PassOver \/ MainWaits
  BY <1>1, GatesUntouched DEF MainWakes, PassOver, MainWaits
<1>2. CASE Dispatch
  <2>1. scan \in Jobs /\ Ready(scan) /\ status[scan] = "pending"
    BY <1>2 DEF Dispatch
  <2>2. /\ status' = [status EXCEPT ![scan] = "running"]
        /\ UNCHANGED <<export_gate, compile_gate>>
    BY <1>2 DEF Dispatch
  <2>3. StatusOK'
    BY <2>1, <2>2 DEF GateInv, StatusOK
  <2>4. \A i \in Jobs : Over(i) => Over(i)'
    BY <2>1, <2>2 DEF GateInv, StatusOK, Over
  <2>5. GatesEarned'
    BY <2>2, <2>4 DEF GateInv, GatesEarned, CompileCold, ExportCold
  <2>6. \A i \in Jobs : (status[i] # "pending")' => Ready(i)
    BY <2>1, <2>2 DEF GateInv, StatusOK, StartedReady
  <2>7. StartedReady'
    BY <2>2, <2>6 DEF StartedReady, Ready, CompileCold, ExportCold
  <2> QED
    BY <2>3, <2>5, <2>7 DEF GateInv
<1>3. ASSUME NEW d \in Devices, CoolDown(d) PROVE GateInv'
  BY <1>3, GatesUntouched DEF CoolDown
<1>4. ASSUME NEW j \in Jobs, ProcessEnds(j) PROVE GateInv'
  BY <1>4, JobMoves DEF ProcessEnds
<1>5. ASSUME NEW j \in Jobs, StartRelease(j) PROVE GateInv'
  <2>1. /\ status[j] = "ended"
        /\ status' = [status EXCEPT ![j] = "checking"]
        /\ Opened(j)
    BY <1>5 DEF StartRelease
  <2>2. StatusOK'
    BY <2>1 DEF GateInv, StatusOK
  <2>3. Over(j)' /\ \A i \in Jobs : Over(i) => Over(i)'
    BY <2>1 DEF GateInv, StatusOK, Over
  <2>4. ASSUME NEW i \in Jobs, CompileCold(i), (config_key[i] \in compile_gate)'
        PROVE  Over(i)'
    <3>1. CASE config_key[i] \in compile_gate
      BY <2>3, <2>4, <3>1 DEF GateInv, GatesEarned
    <3>2. CASE CompileCold(j) /\ config_key[i] = config_key[j]
      BY <2>3, <2>4, <3>2, OneOwner
    <3> QED
      BY <2>1, <2>4, <3>1, <3>2 DEF Opened
  <2>5. ASSUME NEW i \in Jobs, ExportCold(i), model_name[i] # None,
               (model_name[i] \in export_gate)'
        PROVE  Over(i)'
    <3>1. CASE model_name[i] \in export_gate
      BY <2>3, <2>5, <3>1 DEF GateInv, GatesEarned
    <3>2. CASE ExportCold(j) /\ model_name[i] = model_name[j]
      BY <2>3, <2>5, <3>2, OneOwner
    <3> QED
      BY <2>1, <2>5, <3>1, <3>2 DEF Opened
  <2>6. GatesEarned'
    BY <2>4, <2>5 DEF GatesEarned, CompileCold, ExportCold
  <2>7. export_gate \subseteq export_gate' /\ compile_gate \subseteq compile_gate'
    BY <2>1 DEF Opened
  <2>8. \A i \in Jobs : (status[i] # "pending")' => status[i] # "pending"
    BY <2>1 DEF GateInv, StatusOK
  <2>9. StartedReady'
    BY <2>7, <2>8 DEF GateInv, StartedReady, Ready, CompileCold, ExportCold
  <2> QED
    BY <2>2, <2>6, <2>9 DEF GateInv
<1>6. ASSUME \/ \E j \in Jobs, d \in Devices :
                   CheckReady(j, d) \/ CheckFails(j, d) \/ CheckTimesOut(j, d)
             \/ CheckReturns
      PROVE  GateInv'
  BY <1>6, GatesUntouched DEF CheckReady, CheckFails, CheckTimesOut, CheckReturns
<1>7. ASSUME NEW j \in Jobs, FinishRelease(j) PROVE GateInv'
  BY <1>7, JobMoves DEF FinishRelease
<1>8. CASE UNCHANGED vars
  BY <1>8, GatesUntouched DEF vars
<1> QED
  BY <1>1, <1>2, <1>3, <1>4, <1>5, <1>6, <1>7, <1>8 DEF Next, MainThread, Release

(***************************************************************************)
(* A job that is not cold waits for the gate its cold job opens.           *)
(***************************************************************************)
LEMMA GatesOrder == GateInv => ColdJobsFirst
<1> SUFFICES ASSUME GateInv, NEW i \in Jobs, NEW j \in Jobs,
                    i < j, status[j] # "pending",
                    \/ config_key[i] = config_key[j] /\ CompileCold(i)
                    \/ /\ model_name[i] = model_name[j] /\ model_name[i] # None
                       /\ ExportCold(i)
             PROVE  Over(i)
  BY DEF ColdJobsFirst, Over
<1>1. i \in 1 .. j-1 /\ Ready(j)
  BY JobsAssumption DEF Jobs, GateInv, StartedReady
<1>2. CASE config_key[i] = config_key[j] /\ CompileCold(i)
  BY <1>1, <1>2 DEF Ready, CompileCold, GateInv, GatesEarned
<1>3. CASE model_name[i] = model_name[j] /\ model_name[i] # None /\ ExportCold(i)
  BY <1>1, <1>3 DEF Ready, ExportCold, GateInv, GatesEarned
<1> QED
  BY <1>2, <1>3

(***************************************************************************)
(* No job of a model or a configuration starts before the job that exports *)
(* or compiles it has ended, whatever the jobs and the pool.               *)
(***************************************************************************)
THEOREM GatesKeepOrder == Spec => []ColdJobsFirst
<1>1. GateInv => ColdJobsFirst
  BY GatesOrder
<1> QED
  BY GateInit, GateStep, <1>1, PTL DEF Spec

-----------------------------------------------------------------------------
(***************************************************************************)
(* Device ownership.  DevicesExclusive is not inductive: a release reads   *)
(* the quarantine when it starts and writes it when it ends, and a         *)
(* dispatch overwrites the devices of the job.  The condition's lock keeps *)
(* the two apart (OneInside), what is checked stays in the quarantine or   *)
(* with the job (ChecksOwn), and a pending job owns nothing.               *)
(***************************************************************************)
OneInside == /\ scan # 0 => cond = Main
             /\ \A j \in Jobs : status[j] = "checking" => cond = j

ChecksOwn == \A j \in Jobs : status[j] = "checking" =>
               candidates \cup ready \subseteq quarantine \cup device_ids[j]

PendingOwnsNone == \A j \in Jobs : status[j] = "pending" => device_ids[j] = {}

DeviceInv == TypeOK /\ OneInside /\ ChecksOwn /\ PendingOwnsNone /\ DevicesExclusive

(***************************************************************************)
(* A listing of a set, as long as the set is large, lists nothing twice.   *)
(***************************************************************************)
LEMMA ListedOnce ==
  ASSUME NEW S, IsFiniteSet(S), NEW f \in [1..Cardinality(S) -> S], ToSet(f) = S
  PROVE  /\ f \in Seq(S) /\ DOMAIN f = 1..Len(f)
         /\ \A i, k \in DOMAIN f : f[i] = f[k] => i = k
<1>1. Cardinality(S) \in Nat /\ IsFiniteSet(1..Cardinality(S))
      /\ Cardinality(1..Cardinality(S)) = Cardinality(S)
  BY FS_CardinalityType, FS_Interval
<1>2. f \in Surjection(1..Cardinality(S), S)
  BY DEF Surjection, ToSet
<1>3. f \in Injection(1..Cardinality(S), S)
  BY <1>1, <1>2, FS_SurjSameCardinalityImpliesInj
<1>4. DOMAIN f = 1..Cardinality(S) /\ f \in Seq(S) /\ Len(f) = Cardinality(S)
  BY <1>1
<1> QED  BY <1>3, <1>4 DEF Injection, IsInjective

(***************************************************************************)
(* A listing of positions in ascending order.                              *)
(***************************************************************************)
LEMMA ListedInOrder ==
  ASSUME NEW n \in Nat, NEW S \in SUBSET (1..n), NEW f \in InOrder(S)
  PROVE  /\ f \in Seq(S) /\ ToSet(f) = S
         /\ \A i, k \in DOMAIN f : f[i] = f[k] => i = k
<1>1. IsFiniteSet(S)
  <2>1. IsFiniteSet(1..n)
    BY FS_Interval
  <2> QED  BY <2>1, FS_Subset
<1>2. f \in [1..Cardinality(S) -> S] /\ ToSet(f) = S
  BY DEF InOrder
<1> QED  BY <1>1, <1>2, ListedOnce

(***************************************************************************)
(* At the start every device is free, listed once, and nobody has any.     *)
(***************************************************************************)
LEMMA InitDevices ==
  ASSUME Init
  PROVE  DeviceInv
<1>1. /\ free \in Seq(Devices) /\ ToSet(free) = Devices /\ FreeOnce
  BY ListedOnce, DevicesAssumption DEF Init, FreeOnce
<1>2. TypeOK
  BY <1>1, JobsAssumption DEF Init, TypeOK, Jobs
<1>3. OneInside /\ ChecksOwn /\ PendingOwnsNone
  BY DEF Init, OneInside, ChecksOwn, PendingOwnsNone
<1>4. Apart /\ NoneLost
  BY <1>1 DEF Init, Apart, NoneLost
<1> QED  BY <1>1, <1>2, <1>3, <1>4 DEF DeviceInv, DevicesExclusive

(***************************************************************************)
(* The dispatch of a job moves devices from the free list to the job.      *)
(***************************************************************************)
LEMMA DispatchDevices ==
  ASSUME DeviceInv, Dispatch
  PROVE  DevicesExclusive' /\ free' \in Seq(Devices) /\ device_ids' \in [Jobs -> SUBSET Devices]
<1>0. TypeOK /\ PendingOwnsNone /\ FreeOnce /\ Apart /\ NoneLost
  BY DEF DeviceInv, DevicesExclusive
<1>1. PICK available \in InOrder(Cooled) :
        LET chosen == {available[i] : i \in 1..num_devices[scan]} IN
        \E kept \in InOrder(DOMAIN free \ chosen) :
          /\ device_ids' = [device_ids EXCEPT ![scan] = {free[i] : i \in chosen}]
          /\ free' = [i \in DOMAIN kept |-> free[kept[i]]]
  BY DEF Dispatch
<1> DEFINE chosen == {available[i] : i \in 1..num_devices[scan]}
<1>2. PICK kept \in InOrder(DOMAIN free \ chosen) :
          /\ device_ids' = [device_ids EXCEPT ![scan] = {free[i] : i \in chosen}]
          /\ free' = [i \in DOMAIN kept |-> free[kept[i]]]
  BY <1>1
<1>3. free \in Seq(Devices) /\ DOMAIN free = 1..Len(free) /\ Len(free) \in Nat
  BY <1>0 DEF TypeOK
<1>4. chosen \subseteq DOMAIN free
  <2>1. Cooled \subseteq DOMAIN free
    BY DEF Cooled
  <2>2. Cardinality(Cooled) >= num_devices[scan] /\ num_devices[scan] \in Nat
    BY JobsAssumption DEF Dispatch
  <2>3. IsFiniteSet(Cooled) /\ Cardinality(Cooled) \in Nat
    <3>1. IsFiniteSet(1..Len(free))
      BY <1>3, FS_Interval
    <3>2. IsFiniteSet(Cooled)
      BY <1>3, <2>1, <3>1, FS_Subset
    <3> QED  BY <3>2, FS_CardinalityType
  <2>4. available \in [1..Cardinality(Cooled) -> Cooled]
    BY DEF InOrder
  <2> QED  BY <2>1, <2>2, <2>3, <2>4
<1> HIDE DEF chosen
<1>5. /\ kept \in Seq(DOMAIN free \ chosen) /\ ToSet(kept) = DOMAIN free \ chosen
      /\ \A i, k \in DOMAIN kept : kept[i] = kept[k] => i = k
  BY <1>3, ListedInOrder
<1>6. free' \in Seq(Devices) /\ DOMAIN free' = DOMAIN kept
      /\ \A i \in DOMAIN kept : free'[i] = free[kept[i]]
  BY <1>2, <1>3, <1>5
<1>7. ToSet(free') = {free[i] : i \in DOMAIN free \ chosen}
  BY <1>5, <1>6 DEF ToSet
<1>8. scan \in Jobs /\ device_ids[scan] = {}
  BY <1>0 DEF Dispatch, PendingOwnsNone
<1> DEFINE taken == {free[i] : i \in chosen}
<1>9. /\ ToSet(free) = ToSet(free') \cup taken /\ ToSet(free') \cap taken = {}
      /\ taken \subseteq Devices
  <2>1. ToSet(free) = {free[i] : i \in DOMAIN free}
    BY DEF ToSet
  <2>2. \A i \in DOMAIN free : free[i] \in Devices
    BY <1>3
  <2> QED  BY <1>0, <1>4, <1>7, <2>1, <2>2 DEF FreeOnce
<1> HIDE DEF taken
<1>10. /\ device_ids' \in [Jobs -> SUBSET Devices] /\ quarantine' = quarantine
       /\ \A j \in Jobs : device_ids'[j] = IF j = scan THEN taken ELSE device_ids[j]
  BY <1>0, <1>2, <1>8, <1>9 DEF TypeOK, Dispatch, taken
<1>11. FreeOnce'
  BY <1>0, <1>5, <1>6 DEF FreeOnce, ToSet
<1>12. Apart'
  BY <1>0, <1>8, <1>9, <1>10 DEF Apart
<1>13. NoneLost'
  BY <1>0, <1>8, <1>9, <1>10 DEF NoneLost
<1> QED  BY <1>6, <1>10, <1>11, <1>12, <1>13 DEF DevicesExclusive

(***************************************************************************)
(* The end of a release: what was ready becomes free, the rest of the job  *)
(* goes into quarantine.                                                   *)
(***************************************************************************)
LEMMA ReleaseDevices ==
  ASSUME DeviceInv, NEW j \in Jobs, FinishRelease(j)
  PROVE  DevicesExclusive' /\ free' \in Seq(Devices) /\ device_ids' \in [Jobs -> SUBSET Devices]
<1>0. TypeOK /\ ChecksOwn /\ FreeOnce /\ Apart /\ NoneLost
  BY DEF DeviceInv, DevicesExclusive
<1>1. PICK order \in [1..Cardinality(ready) -> ready] :
        ToSet(order) = ready /\ free' = free \o order
  BY DEF FinishRelease
<1>2. ready \subseteq Devices /\ IsFiniteSet(ready)
  BY <1>0, DevicesAssumption, FS_Subset DEF TypeOK
<1>3. /\ order \in Seq(ready) /\ DOMAIN order = 1..Len(order)
      /\ \A i, k \in DOMAIN order : order[i] = order[k] => i = k
  BY <1>1, <1>2, ListedOnce
<1>4. order \in Seq(Devices)
  BY <1>2, <1>3
<1>5. free \in Seq(Devices) /\ free' \in Seq(Devices) /\ Len(free') = Len(free) + Len(order)
      /\ \A i \in 1..Len(free) + Len(order) :
           free'[i] = IF i <= Len(free) THEN free[i] ELSE order[i - Len(free)]
  BY <1>0, <1>1, <1>4 DEF TypeOK
<1>6. ready \subseteq quarantine \cup device_ids[j]
  BY <1>0 DEF ChecksOwn, FinishRelease
<1>7. ToSet(free') = ToSet(free) \cup ready
  <2>1. /\ DOMAIN free' = 1..Len(free) + Len(order) /\ Len(free) \in Nat /\ Len(order) \in Nat
        /\ DOMAIN free = 1..Len(free) /\ DOMAIN order = 1..Len(order)
    BY <1>4, <1>5
  <2>2. \A i \in DOMAIN free : i \in DOMAIN free' /\ free'[i] = free[i]
    BY <1>5, <2>1
  <2>3. ASSUME NEW i \in DOMAIN order
        PROVE  i + Len(free) \in DOMAIN free' /\ free'[i + Len(free)] = order[i]
    <3> DEFINE k == i + Len(free)
    <3>1. k \in 1..Len(free) + Len(order) /\ ~(k <= Len(free)) /\ k - Len(free) = i
      BY <2>1
    <3> HIDE DEF k
    <3>2. free'[k] = order[i]
      BY <1>5, <3>1
    <3> QED  BY <2>1, <3>1, <3>2 DEF k
  <2>4. ASSUME NEW i \in DOMAIN free'
        PROVE  \/ i \in DOMAIN free /\ free'[i] = free[i]
               \/ i - Len(free) \in DOMAIN order /\ free'[i] = order[i - Len(free)]
    <3>1. i \in 1..Len(free) + Len(order)
      BY <2>1
    <3>2. free'[i] = IF i <= Len(free) THEN free[i] ELSE order[i - Len(free)]
      BY <1>5, <3>1
    <3>3. i <= Len(free) => i \in DOMAIN free
      BY <2>1, <3>1
    <3>4. ~(i <= Len(free)) => i - Len(free) \in DOMAIN order
      BY <2>1, <3>1
    <3> QED  BY <3>2, <3>3, <3>4
  <2>5. ToSet(free') \subseteq ToSet(free) \cup ToSet(order)
    BY <2>4 DEF ToSet
  <2>6. ToSet(free) \subseteq ToSet(free') /\ ToSet(order) \subseteq ToSet(free')
    BY <2>2, <2>3 DEF ToSet
  <2> QED  BY <1>1, <2>5, <2>6
<1>8. ToSet(free) \cap ready = {}
  BY <1>0, <1>6 DEF Apart
<1>9. /\ quarantine' = (quarantine \cup device_ids[j]) \ ready
      /\ device_ids' \in [Jobs -> SUBSET Devices]
      /\ \A i \in Jobs : device_ids'[i] = IF i = j THEN {} ELSE device_ids[i]
  BY <1>0 DEF TypeOK, FinishRelease
<1>10. FreeOnce'
  <2> SUFFICES ASSUME NEW i \in DOMAIN free', NEW k \in DOMAIN free', free'[i] = free'[k]
               PROVE  i = k
    BY DEF FreeOnce
  <2>1. /\ i \in 1..Len(free) + Len(order) /\ k \in 1..Len(free) + Len(order)
        /\ Len(free) \in Nat /\ Len(order) \in Nat
        /\ DOMAIN free = 1..Len(free) /\ DOMAIN order = 1..Len(order)
    BY <1>4, <1>5
  <2>2. CASE i <= Len(free) /\ k <= Len(free)
    BY <1>0, <1>5, <2>1, <2>2 DEF FreeOnce
  <2>3. CASE ~(i <= Len(free)) /\ ~(k <= Len(free))
    <3>1. i - Len(free) \in DOMAIN order /\ k - Len(free) \in DOMAIN order
      BY <2>1, <2>3
    <3>2. order[i - Len(free)] = order[k - Len(free)]
      BY <1>5, <2>1, <2>3
    <3>3. i - Len(free) = k - Len(free)
      BY <1>3, <3>1, <3>2
    <3> QED  BY <2>1, <3>3
  <2>4. ASSUME NEW x \in 1..Len(free), NEW y \in 1..Len(free) + Len(order),
               ~(y <= Len(free)), free'[x] = free'[y]
        PROVE  FALSE
    <3>1. free'[x] = free[x] /\ x \in DOMAIN free /\ y - Len(free) \in DOMAIN order
          /\ free'[y] = order[y - Len(free)]
      BY <1>5, <2>1, <2>4
    <3>2. free[x] \in ToSet(free) /\ order[y - Len(free)] \in ready
      BY <1>1, <3>1 DEF ToSet
    <3> QED  BY <1>8, <2>4, <3>1, <3>2
  <2> QED  BY <2>1, <2>2, <2>3, <2>4
<1>11. Apart'
  BY <1>0, <1>6, <1>7, <1>8, <1>9 DEF Apart
<1>12. NoneLost'
  BY <1>0, <1>7, <1>9 DEF NoneLost
<1> QED  BY <1>5, <1>9, <1>10, <1>11, <1>12 DEF DevicesExclusive

(***************************************************************************)
(* Every step keeps each device in one place: only a dispatch takes        *)
(* devices from the pool and only the end of a release gives them back.    *)
(***************************************************************************)
LEMMA DeviceStep ==
  ASSUME DeviceInv, [Next]_vars
  PROVE  DeviceInv'
<1>0. TypeOK /\ OneInside /\ ChecksOwn /\ PendingOwnsNone /\ DevicesExclusive
  BY DEF DeviceInv
<1>a. N \in Nat /\ Jobs = 1..N /\ Main \notin Jobs /\ None \notin Jobs /\ Main # None
  BY JobsAssumption DEF Jobs
<1>1. ASSUME UNCHANGED <<status, free, quarantine, device_ids, candidates, ready,
                         export_gate, compile_gate, cond, wedged, not_ready>>,
             scan' \in 0..N + 1, scan' # 0 => cond = Main, cooling' \subseteq Devices
      PROVE  DeviceInv'
  <2>1. TypeOK'
    BY <1>0, <1>1 DEF TypeOK
  <2>2. OneInside' /\ ChecksOwn' /\ PendingOwnsNone'
    BY <1>0, <1>1 DEF OneInside, ChecksOwn, PendingOwnsNone
  <2>3. DevicesExclusive'
    BY <1>0, <1>1 DEF DevicesExclusive, FreeOnce, Apart, NoneLost
  <2> QED  BY <2>1, <2>2, <2>3 DEF DeviceInv
<1>2. CASE MainWakes \/ MainWaits
  <2>1. /\ UNCHANGED <<status, free, quarantine, device_ids, candidates, ready,
                       export_gate, compile_gate, cooling, wedged, not_ready>>
        /\ cond \notin Jobs /\ cond' \notin Jobs /\ cond' \in {Main, None}
        /\ scan' \in 0..N + 1 /\ (scan' # 0 => cond' = Main)
    BY <1>0, <1>a, <1>2 DEF MainWakes, MainWaits, scheduler, pool, checks, OneInside
  <2>2. TypeOK'
    BY <1>0, <2>1 DEF TypeOK
  <2>3. OneInside' /\ ChecksOwn' /\ PendingOwnsNone'
    BY <1>0, <2>1 DEF OneInside, ChecksOwn, PendingOwnsNone
  <2>4. DevicesExclusive'
    BY <1>0, <2>1 DEF DevicesExclusive, FreeOnce, Apart, NoneLost
  <2> QED  BY <2>2, <2>3, <2>4 DEF DeviceInv
<1>3. CASE PassOver
  BY <1>0, <1>1, <1>a, <1>3 DEF PassOver, scheduler, pool, checks, OneInside, TypeOK
<1>4. ASSUME NEW d \in Devices, CoolDown(d) PROVE DeviceInv'
  BY <1>0, <1>1, <1>4 DEF CoolDown, scheduler, checks, OneInside, TypeOK
<1>5. CASE UNCHANGED vars
  BY <1>0, <1>1, <1>5 DEF vars, scheduler, pool, checks, OneInside, TypeOK
<1>6. CASE Dispatch
  <2>1. /\ scan \in Jobs /\ scan' = scan + 1 /\ cond = Main
        /\ status' = [status EXCEPT ![scan] = "running"]
        /\ UNCHANGED <<export_gate, compile_gate, cond, quarantine, cooling,
                       candidates, ready, wedged, not_ready>>
    BY <1>0, <1>a, <1>6 DEF Dispatch, OneInside, checks
  <2>2. \A j \in Jobs : status[j] # "checking" /\ status'[j] # "checking"
    BY <1>0, <1>a, <2>1 DEF OneInside, TypeOK
  <2>3. DevicesExclusive' /\ free' \in Seq(Devices) /\ device_ids' \in [Jobs -> SUBSET Devices]
    BY <1>6, DispatchDevices
  <2>4. TypeOK'
    BY <1>0, <1>a, <2>1, <2>3 DEF TypeOK
  <2>5. OneInside' /\ ChecksOwn'
    BY <2>1, <2>2 DEF OneInside, ChecksOwn
  <2>6. \A j \in Jobs : j # scan => device_ids'[j] = device_ids[j]
    BY <1>0, <1>6 DEF Dispatch, TypeOK
  <2>7. PendingOwnsNone'
    BY <1>0, <2>1, <2>6 DEF PendingOwnsNone, TypeOK
  <2> QED  BY <2>3, <2>4, <2>5, <2>7 DEF DeviceInv
<1>7. ASSUME NEW j \in Jobs, ProcessEnds(j) PROVE DeviceInv'
  <2>1. /\ status[j] = "running" /\ status' = [status EXCEPT ![j] = "ended"]
        /\ UNCHANGED <<device_ids, export_gate, compile_gate, cond, scan, free, quarantine,
                       cooling, candidates, ready, wedged, not_ready>>
    BY <1>7 DEF ProcessEnds, pool, checks
  <2>2. TypeOK'
    BY <1>0, <2>1 DEF TypeOK
  <2>3. \A i \in Jobs : /\ status'[i] = "checking" => status[i] = "checking"
                        /\ status'[i] = "pending" => status[i] = "pending"
    BY <1>0, <2>1 DEF TypeOK
  <2>4. OneInside' /\ ChecksOwn' /\ PendingOwnsNone'
    BY <1>0, <2>1, <2>3 DEF OneInside, ChecksOwn, PendingOwnsNone
  <2>5. DevicesExclusive'
    BY <1>0, <2>1 DEF DevicesExclusive, FreeOnce, Apart, NoneLost
  <2> QED  BY <2>2, <2>4, <2>5 DEF DeviceInv
<1>8. ASSUME NEW j \in Jobs, StartRelease(j) PROVE DeviceInv'
  <2>1. /\ status[j] = "ended" /\ cond = None /\ cond' = j
        /\ status' = [status EXCEPT ![j] = "checking"]
        /\ candidates' = quarantine \cup device_ids[j] /\ ready' = {}
        /\ UNCHANGED <<device_ids, scan, free, quarantine, cooling, wedged, not_ready>>
    BY <1>8 DEF StartRelease, pool
  <2>2. /\ export_gate' \subseteq {model_name[i] : i \in Jobs}
        /\ compile_gate' \subseteq {config_key[i] : i \in Jobs}
    BY <1>0, <1>8 DEF StartRelease, Opened, TypeOK
  <2>3. TypeOK'
    BY <1>0, <2>1, <2>2 DEF TypeOK
  <2>4. /\ scan = 0
        /\ \A i \in Jobs : /\ status'[i] = "checking" => i = j
                           /\ status'[i] = "pending" => status[i] = "pending"
    BY <1>0, <1>a, <2>1 DEF TypeOK, OneInside
  <2>5. OneInside' /\ ChecksOwn' /\ PendingOwnsNone'
    BY <1>0, <2>1, <2>4 DEF OneInside, ChecksOwn, PendingOwnsNone
  <2>6. DevicesExclusive'
    BY <1>0, <2>1 DEF DevicesExclusive, FreeOnce, Apart, NoneLost
  <2> QED  BY <2>3, <2>5, <2>6 DEF DeviceInv
<1>9. ASSUME \/ \E j \in Jobs, d \in Devices :
                   CheckReady(j, d) \/ CheckFails(j, d) \/ CheckTimesOut(j, d)
             \/ CheckReturns
      PROVE  DeviceInv'
  <2>1. /\ UNCHANGED <<status, device_ids, export_gate, compile_gate, cond, scan, free,
                       quarantine, cooling>>
        /\ candidates' \cup ready' \subseteq candidates \cup ready
        /\ candidates' \subseteq Devices /\ ready' \subseteq Devices /\ not_ready' \in Nat
        /\ wedged' \in Devices \cup {None}
    BY <1>0, <1>9 DEF CheckReady, CheckFails, CheckTimesOut, CheckReturns, Checking,
                      scheduler, pool, TypeOK
  <2>2. TypeOK'
    BY <1>0, <2>1 DEF TypeOK
  <2>3. OneInside' /\ ChecksOwn' /\ PendingOwnsNone'
    BY <1>0, <2>1 DEF OneInside, ChecksOwn, PendingOwnsNone
  <2>4. DevicesExclusive'
    BY <1>0, <2>1 DEF DevicesExclusive, FreeOnce, Apart, NoneLost
  <2> QED  BY <2>2, <2>3, <2>4 DEF DeviceInv
<1>10. ASSUME NEW j \in Jobs, FinishRelease(j) PROVE DeviceInv'
  <2>1. /\ status[j] = "checking" /\ cond = j /\ cond' = None
        /\ status' = [status EXCEPT ![j] = "done"]
        /\ UNCHANGED <<export_gate, compile_gate, scan, candidates, ready, wedged,
                       not_ready>>
        /\ cooling' \subseteq Devices /\ quarantine' \subseteq Devices
    BY <1>0, <1>10 DEF FinishRelease, OneInside, checks, TypeOK
  <2>2. DevicesExclusive' /\ free' \in Seq(Devices) /\ device_ids' \in [Jobs -> SUBSET Devices]
    BY <1>10, ReleaseDevices
  <2>3. TypeOK'
    BY <1>0, <2>1, <2>2 DEF TypeOK
  <2>4. /\ scan = 0
        /\ \A i \in Jobs : /\ status'[i] # "checking"
                           /\ status'[i] = "pending" => i # j /\ status[i] = "pending"
    BY <1>0, <1>a, <2>1 DEF TypeOK, OneInside
  <2>5. OneInside' /\ ChecksOwn'
    BY <2>1, <2>4 DEF OneInside, ChecksOwn
  <2>6. \A i \in Jobs : i # j => device_ids'[i] = device_ids[i]
    BY <1>0, <1>10 DEF FinishRelease, TypeOK
  <2>7. PendingOwnsNone'
    BY <1>0, <2>4, <2>6 DEF PendingOwnsNone
  <2> QED  BY <2>2, <2>3, <2>5, <2>7 DEF DeviceInv
<1> QED
  BY <1>2, <1>3, <1>4, <1>5, <1>6, <1>7, <1>8, <1>9, <1>10 DEF Next, MainThread, Release

(***************************************************************************)
(* The types and the exclusive ownership of devices hold in every state.   *)
(***************************************************************************)
LEMMA DeviceInvariance == Spec => []DeviceInv
<1>1. Init => DeviceInv
  BY InitDevices
<1>2. DeviceInv /\ [Next]_vars => DeviceInv'
  BY DeviceStep
<1> QED  BY <1>1, <1>2, PTL DEF Spec

(***************************************************************************)
(* Type correctness of the scheduler.                                      *)
(***************************************************************************)
THEOREM SchedulerTypes == Spec => []TypeOK
BY DeviceInvariance, PTL DEF DeviceInv

(***************************************************************************)
(* A device is free, in quarantine or owned by one job, exactly one of     *)
(* these, and none is lost, whatever the readiness checks answer.          *)
(***************************************************************************)
THEOREM OneOwnerPerDevice == Spec => []DevicesExclusive
BY DeviceInvariance, PTL DEF DeviceInv
=============================================================================
