------------------------------ MODULE ExecLease ------------------------------
(***************************************************************************)
(* What the exec-object pool of a QAIC session promises its batches,       *)
(* whatever the queues and threads behind it: an exec object is leased to  *)
(* at most one batch, the device executes only leased exec objects, and a  *)
(* lease ends only when the device is done with the exec object.           *)
(***************************************************************************)
CONSTANTS Slots, Batches, None

VARIABLES
  holder,   \* holder[s]: the batch slot s is leased to, or None
  running   \* slots the device is executing

Init == holder = [s \in Slots |-> None] /\ running = {}

(* A batch leases an idle slot; the slot is enqueued at once, or the       *)
(* enqueue fails and the lease is kept.                                    *)
Acquire(s, b) ==
  /\ holder[s] = None
  /\ s \notin running
  /\ holder' = [holder EXCEPT ![s] = b]
  /\ running' \in {running, running \cup {s}}

Finish(s) ==
  /\ s \in running
  /\ running' = running \ {s}
  /\ UNCHANGED holder

Release(s) ==
  /\ holder[s] # None
  /\ s \notin running
  /\ holder' = [holder EXCEPT ![s] = None]
  /\ UNCHANGED running

Next == \E s \in Slots : \/ \E b \in Batches : Acquire(s, b)
                         \/ Finish(s)
                         \/ Release(s)

Spec == Init /\ [][Next]_<<holder, running>>
=============================================================================
