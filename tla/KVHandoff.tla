------------------------------ MODULE KVHandoff ------------------------------
(***************************************************************************)
(* What the hand-off of KV caches between a prefill and a decode node      *)
(* promises, whatever batches, queues and callbacks implement it.  A       *)
(* buffer is created empty, computed by the prefill device, stored,        *)
(* loaded by one request for the same prompt, and released, in this order; *)
(* while a device uses a buffer it exists and is neither stored nor        *)
(* released.                                                               *)
(***************************************************************************)
CONSTANTS Reqs,  \* requests; a buffer is named by the request it was made for
          KeyOf, \* KeyOf[r]: hash of the prompt of r
          None

VARIABLES phase,  \* phase[s]: "none", "empty", "filled", "stored", "loaded", "gone"
          reader, \* reader[s]: the request that loaded s
          in_use  \* buffers a device reads or writes

hvars == <<phase, reader, in_use>>

Init == /\ phase = [s \in Reqs |-> "none"]
        /\ reader = [s \in Reqs |-> None]
        /\ in_use = {}

Create(S) == /\ \A s \in S : phase[s] = "none"
             /\ phase' = [s \in Reqs |-> IF s \in S THEN "empty" ELSE phase[s]]
             /\ UNCHANGED <<reader, in_use>>

Use(S) == /\ \A s \in S : phase[s] \in {"empty", "loaded"}
          /\ in_use' = in_use \cup S
          /\ UNCHANGED <<phase, reader>>

Fill(s) == /\ phase[s] = "empty" /\ s \in in_use
           /\ phase' = [phase EXCEPT ![s] = "filled"]
           /\ in_use' = in_use \ {s}
           /\ UNCHANGED reader

Store(s) == /\ phase[s] = "filled"
            /\ phase' = [phase EXCEPT ![s] = "stored"]
            /\ UNCHANGED <<reader, in_use>>

Load(r, s) == /\ phase[s] = "stored"
              /\ KeyOf[r] = KeyOf[s]
              /\ \A t \in Reqs : reader[t] # r
              /\ phase' = [phase EXCEPT ![s] = "loaded"]
              /\ reader' = [reader EXCEPT ![s] = r]
              /\ UNCHANGED in_use

Read(S) == /\ S \subseteq in_use
           /\ \A s \in S : phase[s] = "loaded"
           /\ in_use' = in_use \ S
           /\ UNCHANGED <<phase, reader>>

Release(S) == /\ S \cap in_use = {}
              /\ \A s \in S : phase[s] = "loaded"
              /\ phase' = [s \in Reqs |-> IF s \in S THEN "gone" ELSE phase[s]]
              /\ UNCHANGED <<reader, in_use>>

(* The decode step that hands its buffers to the device releases one that  *)
(* an earlier step has read.                                               *)
UseAndRelease(S, R) ==
  /\ S \cap R = {} /\ R \cap in_use = {}
  /\ \A s \in S \cup R : phase[s] = "loaded"
  /\ in_use' = in_use \cup S
  /\ phase' = [s \in Reqs |-> IF s \in R THEN "gone" ELSE phase[s]]
  /\ UNCHANGED reader

Next == \/ \E S \in SUBSET Reqs : Create(S) \/ Use(S) \/ Read(S) \/ Release(S)
        \/ \E S, R \in SUBSET Reqs : UseAndRelease(S, R)
        \/ \E s \in Reqs : Fill(s) \/ Store(s)
        \/ \E r, s \in Reqs : Load(r, s)

Spec == Init /\ [][Next]_hvars
=============================================================================
