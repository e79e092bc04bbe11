------------------------------- MODULE AgentVM -------------------------------
(***************************************************************************)
(* What an agent may rely on about each VM it asks for (agentViewOf, which *)
(* its polls and waits read), whatever goroutines, users and restarts do   *)
(* underneath:                                                             *)
(*   - a VM is asked for once, under a name of its own, and nothing but a  *)
(*     restart comes between it and the end of its clone;                  *)
(*   - while it is provisioned it is never told stopped, so that a wait    *)
(*     does not end with that answer;                                      *)
(*   - it is called failed at the end of its provisioning, or never: one   *)
(*     whose provisioning is over is not, nor is it cloned again;          *)
(*   - what is gone once its provisioning is over stays gone.              *)
(* It may not rely on "up" as a success: a VM is told ready as soon as it  *)
(* runs and answers, before its provisioning has judged the start, and may *)
(* be told booting, gone or failed after that.  Nor on "none" while the    *)
(* provisioning goes on: its failure is reported all the same.             *)
(* Module Leases implements it.                                            *)
(***************************************************************************)

CONSTANT VM       \* the names agent VMs may get

VARIABLES
  told,           \* told[n]: the answer; "none": there is no such agent VM; "up":
                  \* booting, or ready, as its guest answers or no longer does
  prov            \* prov[n]: its provisioning

Answers == {"none", "cloning", "up", "stopped", "failed"}
Stages == {"unasked", "pending", "over"}

-----------------------------------------------------------------------------
Init ==
  /\ told = [n \in VM |-> "none"]
  /\ prov = [n \in VM |-> "unasked"]

Becomes(n, answer, stage) ==
  /\ told' = [told EXCEPT ![n] = answer]
  /\ prov' = [prov EXCEPT ![n] = stage]

Ask(n) == prov[n] = "unasked" /\ Becomes(n, "cloning", "pending")

Cloned(n) == told[n] = "cloning" /\ Becomes(n, "up", "pending")

Succeeds(n) ==
  prov[n] = "pending" /\ told[n] \in {"up", "none"} /\ Becomes(n, told[n], "over")

Fails(n) == prov[n] = "pending" /\ Becomes(n, "failed", "over")

\* VMs are destroyed, or their records lost; once they are provisioned they start
\* and stop, and old failures are forgotten, of VMs that are still there too.
Changes(n) ==
  \/ told[n] = "up" /\ told'[n] = "none"
  \/ /\ prov[n] = "over" /\ told[n] # "none"
     /\ told'[n] \in {"up", "stopped", "none"}
Change ==
  /\ told' \in [VM -> Answers] /\ UNCHANGED prov
  /\ \A n \in VM : told'[n] = told[n] \/ Changes(n)

\* A server that restarts knows of leases only.
Restart ==
  /\ told' \in [VM -> Answers]
  /\ prov' = [n \in VM |-> IF prov[n] = "unasked" THEN "unasked" ELSE "over"]
  /\ \A n \in VM : IF told[n] = "none" THEN told'[n] = "none"
                   ELSE told'[n] \in {"up", "stopped", "none"}

Next ==
  \/ \E n \in VM : Ask(n) \/ Cloned(n) \/ Succeeds(n) \/ Fails(n)
  \/ Change \/ Restart

Spec == Init /\ [][Next]_<<told, prov>>
=============================================================================
