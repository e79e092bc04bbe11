------------------------------- MODULE VmLife -------------------------------
(***************************************************************************)
(* What a client of the Manager may rely on about the state it shows for   *)
(* each VM (the "State" of types.go), whatever goroutines run underneath:  *)
(*   - "starting" and "stopping" are left only by the operation that       *)
(*     entered them; no observation of tart overwrites them;               *)
(*   - an operation begins only from a settled state, so two operations on *)
(*     one VM never overlap;                                               *)
(*   - at most HardMax VMs are starting, and at most one of each family (a *)
(*     VM and its snapshots, which share a MAC address).                   *)
(* Module Lifecycle implements it.                                         *)
(***************************************************************************)
EXTENDS Naturals, FiniteSets

CONSTANTS
  VM,        \* the names a VM may have
  HardMax,   \* hardMaxConcurrent (constants.go)
  Root       \* Root[n]: the original VM that n is a snapshot of, or n itself

VARIABLE state   \* state[n]: what the record of n says; "absent": no record

Settled == {"absent", "unset", "stopped", "running", "suspended"}
Transient == {"starting", "stopping"}

Starting == {n \in VM : state[n] = "starting"}
Family(n) == {m \in VM : Root[m] = Root[n]}

TypeOK == state \in [VM -> Settled \cup Transient]

\* At most HardMax VMs are starting, and at most one of each family.
StartsBounded ==
  /\ Cardinality(Starting) <= HardMax
  /\ \A m, n \in Starting : Root[m] = Root[n] => m = n

-----------------------------------------------------------------------------
Init == state = [n \in VM |-> "absent"]

Start(n) ==
  /\ state[n] \in Settled
  /\ Cardinality(Starting) < HardMax
  /\ Family(n) \cap Starting = {}
  /\ state' = [state EXCEPT ![n] = "starting"]

Started(n) ==
  /\ state[n] = "starting"
  /\ \E s \in {"running", "stopped"} : state' = [state EXCEPT ![n] = s]

Stop(n) ==
  /\ state[n] \in Settled \ {"absent"}
  /\ state' = [state EXCEPT ![n] = "stopping"]

Stopped(n) ==
  /\ state[n] = "stopping"
  /\ \E s \in {"stopped", "suspended", "running"} :
       state' = [state EXCEPT ![n] = s]

\* Reality is read from tart: any settled VM may turn out to be anything.
Observe ==
  /\ state' \in [VM -> Settled \cup Transient]
  /\ \A n \in VM : IF state[n] \in Transient THEN state'[n] = state[n]
                                             ELSE state'[n] \in Settled

Next ==
  \/ \E n \in VM : Start(n) \/ Started(n) \/ Stop(n) \/ Stopped(n)
  \/ Observe

Spec == Init /\ [][Next]_state
=============================================================================
