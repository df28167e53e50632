---------------------------- MODULE CIScheduler ----------------------------
(***************************************************************************)
(* ci_scripts/scheduler.py: the main thread scans the pending jobs and     *)
(* starts those whose gates are open and whose devices are free; a thread  *)
(* per job runs it, opens its gates and gives its devices back after a     *)
(* readiness check.  Scan and release run under one condition variable.    *)
(***************************************************************************)
EXTENDS Integers, Sequences, FiniteSets, SequencesExt

CONSTANTS
  N,            \* jobs 1..N, in the order of the jobs file
  Devices,      \* the pool
  num_devices,  \* num_devices[j]: devices job j takes
  model_name,   \* model_name[j], None if the job exports no shared model
  config_key,   \* config_key[j]
  MaxNotReady,  \* bound: readiness checks that fail
  Main,         \* the main thread
  None          \* no model; no thread; no device

Jobs == 1..N

ASSUME JobsAssumption == /\ N \in Nat /\ {Main, None} \cap Jobs = {} /\ Main # None
                         /\ num_devices \in [Jobs -> Nat \ {0}]
                         /\ DOMAIN model_name = Jobs /\ DOMAIN config_key = Jobs
ASSUME DevicesAssumption == IsFiniteSet(Devices) /\ None \notin Devices
ASSUME MaxNotReadyAssumption == MaxNotReady \in Nat

VARIABLES
  \* Scheduler
  status,       \* status[j]: "pending", "running" (its process), "ended",
                \* "checking" (in DevicePool.release()), "done"
  device_ids,   \* device_ids[j]: devices of job j
  export_gate,  \* models whose gate is set
  compile_gate, \* configurations whose gate is set
  cond,         \* holder of the condition's lock: a job, Main or None
  scan,         \* next job of the main thread's scan; 0: waits, N + 1: all seen
  \* DevicePool
  free,         \* _free
  quarantine,   \* _pending
  cooling,      \* devices whose cooldown has not passed
  candidates,   \* release(): devices still to check
  ready,        \* release(): devices found ready
  wedged,       \* device whose check has run into its timeout and goes on
  not_ready     \* bound: checks that failed so far

scheduler == <<status, device_ids, export_gate, compile_gate>>
pool      == <<free, quarantine, cooling>>
checks    == <<candidates, ready, wedged, not_ready>>
vars      == <<scheduler, cond, scan, pool, checks>>

Init ==
  /\ status = [j \in Jobs |-> "pending"]
  /\ device_ids = [j \in Jobs |-> {}]
  /\ export_gate = {} /\ compile_gate = {}
  /\ cond = None /\ scan = 0
  /\ free \in {s \in [1..Cardinality(Devices) -> Devices] : ToSet(s) = Devices}
  /\ quarantine = {} /\ cooling = {}
  /\ candidates = {} /\ ready = {} /\ wedged = None /\ not_ready = 0

-----------------------------------------------------------------------------
(* _claim_gates(): the first job of a model, and of a configuration, is    *)
(* the one that opens its gate.                                            *)
ExportCold(j)  == \/ model_name[j] = None
                  \/ \A i \in 1 .. j-1 : model_name[i] # model_name[j]
CompileCold(j) == \A i \in 1 .. j-1 : config_key[i] # config_key[j]

SlipIgnoreExport(j) == CompileCold(j) \/ config_key[j] \in compile_gate

Ready(j) == /\ ExportCold(j) \/ model_name[j] \in export_gate
            /\ CompileCold(j) \/ config_key[j] \in compile_gate

(* Positions of the free list: those of devices that have cooled down, and *)
(* a set of positions listed in ascending order.                           *)
Cooled == {i \in DOMAIN free : free[i] \notin cooling}

InOrder(S) == {f \in [1..Cardinality(S) -> S] :
                 ToSet(f) = S /\ \A i, k \in DOMAIN f : i < k => f[i] < f[k]}

(***************************************************************************)
(* The main thread: takes the lock (woken by notify_all() or after its     *)
(* timeout), looks at one job after the other, and waits again.  It leaves *)
(* the loop when no job is pending or running.                             *)
(***************************************************************************)
MainWakes ==
  /\ scan = 0 /\ cond = None
  /\ \E j \in Jobs : status[j] # "done"
  /\ cond' = Main /\ scan' = 1
  /\ UNCHANGED <<scheduler, pool, checks>>

(* try_acquire() takes the first devices that have cooled down; the others *)
(* keep their order.                                                       *)
Dispatch ==
  /\ scan \in Jobs
  /\ status[scan] = "pending" /\ Ready(scan)
  /\ Cardinality(Cooled) >= num_devices[scan]
  /\ \E available \in InOrder(Cooled) :
       LET chosen == {available[i] : i \in 1..num_devices[scan]} IN
       \E kept \in InOrder(DOMAIN free \ chosen) :
         /\ device_ids' = [device_ids EXCEPT ![scan] = {free[i] : i \in chosen}]
         /\ free' = [i \in DOMAIN kept |-> free[kept[i]]]
  /\ status' = [status EXCEPT ![scan] = "running"]
  /\ scan' = scan + 1
  /\ UNCHANGED <<export_gate, compile_gate, cond, quarantine, cooling, checks>>

PassOver ==
  /\ scan \in Jobs
  /\ status[scan] = "pending" /\ Ready(scan) => Cardinality(Cooled) < num_devices[scan]
  /\ scan' = scan + 1
  /\ UNCHANGED <<scheduler, cond, pool, checks>>

SlipScanOn ==
  /\ scan = N + 1
  /\ scan' = scan + 1 /\ cond' = None
  /\ UNCHANGED <<scheduler, pool, checks>>

MainWaits ==
  /\ scan = N + 1
  /\ scan' = 0 /\ cond' = None
  /\ UNCHANGED <<scheduler, pool, checks>>

(* Time passes.                                                            *)
CoolDown(d) ==
  /\ d \in cooling
  /\ cooling' = cooling \ {d}
  /\ UNCHANGED <<scheduler, cond, scan, free, quarantine, checks>>

-----------------------------------------------------------------------------
(* _execute_job(), on the job's thread.  The process ends, is killed after *)
(* its timeout, or could not be started: the thread goes on.               *)
ProcessEnds(j) ==
  /\ status[j] = "running"
  /\ status' = [status EXCEPT ![j] = "ended"]
  /\ UNCHANGED <<device_ids, export_gate, compile_gate, cond, scan, pool, checks>>

SlipOpenIfExported(j) ==
  /\ export_gate' = IF ExportCold(j) /\ model_name[j] # None
                    THEN export_gate \cup {model_name[j]} ELSE export_gate
  /\ compile_gate' = IF CompileCold(j) /\ ExportCold(j)
                     THEN compile_gate \cup {config_key[j]} ELSE compile_gate

(* _release_gates(): a cold job opens its gates, whatever its result.      *)
Opened(j) ==
  /\ export_gate' = IF ExportCold(j) /\ model_name[j] # None
                    THEN export_gate \cup {model_name[j]} ELSE export_gate
  /\ compile_gate' = IF CompileCold(j)
                     THEN compile_gate \cup {config_key[j]} ELSE compile_gate

(* The lock is taken, the gates open, and release() notes what to check:   *)
(* the job's devices and those in quarantine.                              *)
StartRelease(j) ==
  /\ status[j] = "ended" /\ cond = None
  /\ cond' = j
  /\ Opened(j)
  /\ candidates' = quarantine \cup device_ids[j] /\ ready' = {}
  /\ status' = [status EXCEPT ![j] = "checking"]
  /\ UNCHANGED <<device_ids, scan, pool, wedged, not_ready>>

(***************************************************************************)
(* _is_device_ready(), one device after the other.  A check may fail, or   *)
(* run into its timeout; then leaving the context of the executor waits    *)
(* until it returns, which may be never, and its answer is not used.       *)
(***************************************************************************)
Checking(j, d) == status[j] = "checking" /\ wedged = None /\ d \in candidates

CheckReady(j, d) ==
  /\ Checking(j, d)
  /\ candidates' = candidates \ {d}
  /\ ready' = ready \cup {d}
  /\ UNCHANGED <<scheduler, cond, scan, pool, wedged, not_ready>>

CheckFails(j, d) ==
  /\ not_ready < MaxNotReady
  /\ Checking(j, d)
  /\ not_ready' = not_ready + 1
  /\ candidates' = candidates \ {d}
  /\ UNCHANGED <<scheduler, cond, scan, pool, ready, wedged>>

CheckTimesOut(j, d) ==
  /\ not_ready < MaxNotReady
  /\ Checking(j, d)
  /\ not_ready' = not_ready + 1
  /\ wedged' = d
  /\ UNCHANGED <<scheduler, cond, scan, pool, candidates, ready>>

CheckReturns ==
  /\ wedged # None
  /\ candidates' = candidates \ {wedged}
  /\ wedged' = None
  /\ UNCHANGED <<scheduler, cond, scan, pool, ready, not_ready>>

(* The ready devices cool down and are free, in any order (a set is        *)
(* iterated), the others are in quarantine; the lock is given up.          *)
SlipForgetQuarantine(j) ==
  /\ status[j] = "checking" /\ candidates = {}
  /\ \E order \in [1..Cardinality(ready) -> ready] :
       ToSet(order) = ready /\ free' = free \o order
  /\ cooling' = cooling \cup ready
  /\ quarantine' = quarantine \cup (device_ids[j] \ ready)
  /\ device_ids' = [device_ids EXCEPT ![j] = {}]
  /\ status' = [status EXCEPT ![j] = "done"]
  /\ cond' = None
  /\ UNCHANGED <<export_gate, compile_gate, scan, checks>>

FinishRelease(j) ==
  /\ status[j] = "checking" /\ candidates = {}
  /\ \E order \in [1..Cardinality(ready) -> ready] :
       ToSet(order) = ready /\ free' = free \o order
  /\ cooling' = cooling \cup ready
  /\ quarantine' = (quarantine \cup device_ids[j]) \ ready
  /\ device_ids' = [device_ids EXCEPT ![j] = {}]
  /\ status' = [status EXCEPT ![j] = "done"]
  /\ cond' = None
  /\ UNCHANGED <<export_gate, compile_gate, scan, checks>>

-----------------------------------------------------------------------------
MainThread == MainWakes \/ Dispatch \/ PassOver \/ MainWaits

Release(j) ==
  \/ StartRelease(j) \/ FinishRelease(j)
  \/ \E d \in Devices : CheckReady(j, d) \/ CheckFails(j, d) \/ CheckTimesOut(j, d)

Next == \/ MainThread
        \/ \E j \in Jobs : ProcessEnds(j) \/ Release(j)
        \/ CheckReturns
        \/ \E d \in Devices : CoolDown(d)

Spec == Init /\ [][Next]_vars

(***************************************************************************)
(* The operating system runs every thread, also one that competes for the  *)
(* lock; processes end (they have a timeout) and time passes.  A check     *)
(* that has run into its timeout need not return.                          *)
(***************************************************************************)
FairSpec ==
  /\ Spec
  /\ SF_vars(MainThread)
  /\ \A j \in Jobs : WF_vars(ProcessEnds(j)) /\ SF_vars(Release(j))
  /\ \A d \in Devices : WF_vars(CoolDown(d))

-----------------------------------------------------------------------------
(***************************************************************************)
(* The type invariant.                                                     *)
(***************************************************************************)
TypeOK ==
  /\ status \in [Jobs -> {"pending", "running", "ended", "checking", "done"}]
  /\ device_ids \in [Jobs -> SUBSET Devices]
  /\ export_gate \subseteq {model_name[j] : j \in Jobs}
  /\ compile_gate \subseteq {config_key[j] : j \in Jobs}
  /\ cond \in Jobs \cup {Main, None}
  /\ scan \in 0 .. N + 1
  /\ free \in Seq(Devices)
  /\ quarantine \subseteq Devices /\ cooling \subseteq Devices
  /\ candidates \subseteq Devices /\ ready \subseteq Devices
  /\ wedged \in Devices \cup {None} /\ not_ready \in Nat

(***************************************************************************)
(* "The scheduler is the sole authority over devices": a device is free,   *)
(* in quarantine, or owned by one job, exactly one of these at any time;   *)
(* it is free only once.  No device runs two jobs, none gets lost.         *)
(***************************************************************************)
FreeOnce == \A i, k \in DOMAIN free : free[i] = free[k] => i = k

Apart == /\ \A j \in Jobs : device_ids[j] \cap (ToSet(free) \cup quarantine) = {}
         /\ ToSet(free) \cap quarantine = {}
         /\ \A i, j \in Jobs : i # j => device_ids[i] \cap device_ids[j] = {}

NoneLost == \A d \in Devices : \/ d \in ToSet(free) \cup quarantine
                               \/ \E j \in Jobs : d \in device_ids[j]

DevicesExclusive == FreeOnce /\ Apart /\ NoneLost

(***************************************************************************)
(* The gates: while a job runs, the earlier jobs that export its model and *)
(* compile its configuration have ended, so that no two jobs ever export a *)
(* model or compile a configuration at the same time.                      *)
(***************************************************************************)
ColdJobsFirst ==
  \A i, j \in Jobs :
    /\ i < j /\ status[j] # "pending"
    /\ \/ config_key[i] = config_key[j] /\ CompileCold(i)
       \/ model_name[i] = model_name[j] /\ model_name[i] # None /\ ExportCold(i)
    => status[i] \in {"checking", "done"}

(***************************************************************************)
(* Every job whose needs the pool can meet is run to its end, unless a     *)
(* readiness check fails or hangs: only release() looks at a device in     *)
(* quarantine, and when no job runs any more there is none; and whoever    *)
(* waits for a check holds the lock of the scheduler.                      *)
(***************************************************************************)
AllJobsEnd ==
  <>(not_ready > 0) \/ \A j \in Jobs :
    num_devices[j] <= Cardinality(Devices) => <>(status[j] = "done")

(***************************************************************************)
(* A claim of the source that does not hold (see the README): the comment  *)
(* of release() says "run all checks outside the lock - otherwise a slow   *)
(* or wedged device would stall every other job's dispatch/release".       *)
(***************************************************************************)
ChecksOutsideLock ==
  \A j \in Jobs : status[j] = "checking" /\ candidates # {} => cond # j
=============================================================================
