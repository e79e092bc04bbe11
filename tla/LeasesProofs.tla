---------------------------- MODULE LeasesProofs ----------------------------
(***************************************************************************)
(* Theorems about Leases for every set of agent VMs, every number of       *)
(* slots, any users and callers, and any number of restarts.               *)
(***************************************************************************)
EXTENDS Leases, TLAPS

-----------------------------------------------------------------------------
(* Goroutines and their labels *)

LEMMA Pairs ==
  ASSUME NEW x \in Proc \X VM
  PROVE  x[1] \in Proc /\ x[2] \in VM /\ x = <<x[1], x[2]>>
OBVIOUS

LEMMA Procs ==
  /\ "prov" \in Proc /\ "reaper" \in Proc
  /\ Proc \subseteq {"prov", "reaper", "user", "caller"}
BY ActorAssumption DEF Proc, Server

LEMMA LabelSets ==
  /\ Labels("prov") = Label
  /\ \A p \in Proc : Labels(p) \subseteq Label /\ "idle" \in Labels(p)
BY Procs DEF Labels, Label, Provisioning, Operating, Destroying

\* One goroutine goes on, within its labels.
LEMMA MoveType ==
  ASSUME TypeOK, NEW x \in Proc \X VM, NEW l \in Labels(x[1]), Goto(x, l)
  PROVE  /\ pc' \in [Proc \X VM -> Label]
         /\ \A y \in Proc \X VM : pc'[y] \in Labels(y[1])
<1>1. l \in Label
  BY Pairs, LabelSets
<1> QED BY <1>1 DEF TypeOK, Goto

\* What each goroutine does next to each VM, after one of them went on.
LEMMA Moved ==
  ASSUME TypeOK, NEW x \in Proc \X VM, NEW l, Goto(x, l)
  PROVE  \A p \in Proc, n \in VM :
           pc'[<<p, n>>] = IF <<p, n>> = x THEN l ELSE pc[<<p, n>>]
BY DEF TypeOK, Goto

-----------------------------------------------------------------------------
(* Type correctness *)

LEMMA ApplyType ==
  ASSUME TypeOK, NEW l \in Lists, Apply(l)
  PROVE  /\ state' \in [VM -> VMState]
         /\ lease' \in [VM -> {"none", "fresh", "late", "expired"}]
         /\ held' \in SUBSET (Proc \X VM)
BY DEF TypeOK, Apply, StateBy, Lists, VMState, TartState

LEMMA ProvisionType ==
  ASSUME TypeOK, NEW n \in VM, Create(n) \/ Provision(n)
  PROVE  TypeOK'
<1> DEFINE x == <<"prov", n>>
<1>1. x \in Proc \X VM /\ x[1] = "prov" /\ x[2] = n
  BY Procs
<1>2. {"clone", "cloned", "boot", "fail", "wait", "idle"} \subseteq Labels(x[1])
  BY <1>1, LabelSets DEF Label, Provisioning, Destroying
<1>3. CASE Create(n)
  BY <1>1, <1>2, <1>3, MoveType
     DEF Create, TypeOK, Phase, VMState, TartState, monitor, world
<1>4. CASE CloneWorks(n)
  BY <1>1, <1>2, <1>4, MoveType DEF CloneWorks, TypeOK, Lists, TartState, mgr, monitor
<1>5. CASE CloneFails(n)
  BY <1>1, <1>2, <1>5, MoveType DEF CloneFails, TypeOK, Lists, TartState, mgr, monitor
<1>6. CASE HandOver(n)
  BY <1>1, <1>2, <1>6, MoveType DEF HandOver, TypeOK, Phase, monitor, world
<1>7. CASE Judge(n)
  BY <1>1, <1>2, <1>7, MoveType DEF Judge, TypeOK, Phase, monitor, world
<1>8. CASE Fail(n)
  BY <1>1, <1>2, <1>8, MoveType DEF Fail, TypeOK, Phase, monitor, world
<1> QED BY <1>3, <1>4, <1>5, <1>6, <1>7, <1>8 DEF Provision

LEMMA OperateType ==
  ASSUME TypeOK, NEW x \in Proc \X VM,
         \/ RunClaim(x) \/ RunRefused(x) \/ StopClaim(x) \/ Operate(x)
  PROVE  TypeOK'
<1> DEFINE n == x[2]
<1>1. x[1] \in Proc /\ n \in VM /\ pc[x] \in Labels(x[1])
  BY Pairs DEF TypeOK
<1>2. x[1] \in {"prov", "reaper", "user", "caller"}
  BY <1>1, Procs
<1>3. ASSUME NEW l \in Labels(x[1]), NEW s \in VMState, Claim(x, l, s)
      PROVE  TypeOK'
  BY <1>1, <1>3, MoveType DEF Claim, TypeOK, monitor, world
<1>4. ASSUME NEW s \in VMState, Finish(x, s), tart' \in Lists, After(x) \in Labels(x[1])
      PROVE  TypeOK'
  BY <1>1, <1>4, MoveType DEF Finish, TypeOK, monitor
<1>5. {"starting", "stopping", "running", "stopped", "unset"} \subseteq VMState
  BY DEF VMState, TartState
<1>6. (TartStop(n) \/ UNCHANGED tart) => tart' \in Lists
  BY <1>1 DEF TartStop, TypeOK, Lists, TartState
<1>7. /\ pc[x] \in {"launch", "run"} \/ MayRun(x) => x[1] \in {"prov", "user"}
      /\ "stop" \in Labels(x[1]) /\ "idle" \in Labels(x[1])
      /\ x[1] \in {"prov", "user"} => "launch" \in Labels(x[1]) /\ "run" \in Labels(x[1])
  BY <1>1, <1>2 DEF Labels, MayRun, Operating, Destroying
<1>8. pc[x] \in {"launch", "run", "stop"} => After(x) \in Labels(x[1])
  BY <1>1, <1>2, <1>7 DEF After, Labels, Provisioning, Destroying
<1>9. CASE RunClaim(x)
  BY <1>3, <1>5, <1>7, <1>9 DEF RunClaim
<1>10. CASE RunRefused(x)
  <2>1. /\ x[1] = "prov" => "judge" \in Labels(x[1])
        /\ "idle" \in Labels(x[1])
    BY <1>7 DEF Labels, Provisioning
  <2>2. state' \in [VM -> VMState]
    BY <1>5, <1>10 DEF RunRefused, TypeOK
  <2> QED BY <1>1, <1>10, <2>1, <2>2, MoveType DEF RunRefused, TypeOK, monitor, world
<1>11. CASE StopClaim(x)
  BY <1>3, <1>5, <1>7, <1>11 DEF StopClaim
<1>12. CASE RunLaunch(x)
  <2>1. tart' \in Lists
    BY <1>1, <1>12 DEF RunLaunch, TypeOK, Lists, TartState
  <2> QED BY <1>7, <1>12, <2>1, MoveType DEF RunLaunch, TypeOK, mgr, monitor
<1>13. CASE RunUp(x)
  BY <1>4, <1>5, <1>6, <1>8, <1>13 DEF RunUp
<1>14. CASE RunFails(x)
  BY <1>1, <1>5, <1>8, <1>14, MoveType DEF RunFails, TypeOK, monitor, world
<1>15. CASE RunAbort(x)
  BY <1>4, <1>5, <1>6, <1>8, <1>15 DEF RunAbort
<1>16. CASE StopWorks(x)
  BY <1>4, <1>5, <1>6, <1>8, <1>16 DEF StopWorks
<1>17. CASE StopFails(x)
  BY <1>4, <1>5, <1>6, <1>8, <1>17 DEF StopFails
<1> QED BY <1>9, <1>10, <1>11, <1>12, <1>13, <1>14, <1>15, <1>16, <1>17 DEF Operate

LEMMA DestroyType ==
  ASSUME TypeOK, NEW x \in Proc \X VM, Destroy(x)
  PROVE  TypeOK'
<1> DEFINE n == x[2]
<1>1. x[1] \in Proc /\ n \in VM /\ pc[x] \in Labels(x[1])
  BY Pairs DEF TypeOK
<1>2. x[1] \in {"prov", "reaper", "user", "caller"}
  BY <1>1, Procs
<1>3. /\ {"idle", "delete", "list", "apply"} \subseteq Labels(x[1])
      /\ Last(x) \in Labels(x[1])
      /\ x[1] # "user" => {"check", "halt", "forget"} \subseteq Labels(x[1])
  BY <1>2 DEF Labels, Provisioning, Operating, Destroying, Last
<1>4. pc[x] \in {"wait", "check", "halt", "forget"} => x[1] # "user"
  BY <1>1 DEF Labels, Operating
<1>5. CASE WaitEnds(x)
  BY <1>3, <1>4, <1>5, MoveType DEF WaitEnds, TypeOK, mgr, monitor, world
<1>6. CASE Check(x)
  <2>1. op' \in [VM -> Phase]
    BY <1>6 DEF Check, TypeOK, Phase
  <2>2. \E l \in Labels(x[1]) : Goto(x, l)
    BY <1>3, <1>4, <1>6 DEF Check
  <2> QED BY <1>6, <2>1, <2>2, MoveType DEF Check, TypeOK, monitor, world
<1>7. CASE StopRefused(x)
  BY <1>3, <1>7, MoveType DEF StopRefused, TypeOK, mgr, monitor, world
<1>8. CASE DeleteWorks(x)
  BY <1>1, <1>3, <1>8, MoveType DEF DeleteWorks, TypeOK, Lists, TartState, mgr, monitor
<1>9. CASE DeleteFails(x)
  BY <1>3, <1>9, MoveType DEF DeleteFails, TypeOK, mgr, monitor, world
<1>10. CASE DeleterLists(x)
  <2>1. seen' \in [Proc \X VM -> Lists]
    BY <1>10 DEF DeleterLists, TypeOK
  <2>2. \E l \in Labels(x[1]) : Goto(x, l)
    BY <1>3, <1>10 DEF DeleterLists
  <2> QED BY <1>10, <2>1, <2>2, MoveType DEF DeleterLists, TypeOK, mgr, monitor, world
<1>11. CASE DeleterApplies(x)
  <2>1. seen[x] \in Lists
    BY DEF TypeOK
  <2>2. NoList \in Lists
    BY DEF NoList, Lists, TartState
  <2> QED BY <1>3, <1>11, <2>1, <2>2, ApplyType, MoveType
          DEF DeleterApplies, TypeOK, monitor, world
<1>12. CASE Forget(x)
  BY <1>3, <1>12, MoveType DEF Forget, TypeOK, Phase, monitor, world
<1> QED BY <1>5, <1>6, <1>7, <1>8, <1>9, <1>10, <1>11, <1>12 DEF Destroy

LEMMA RestType ==
  ASSUME TypeOK,
         \/ \E n \in VM : \/ CallerDestroys(n) \/ Extend(n) \/ LeaseAges(n) \/ UserDeletes(n)
                          \/ GuestPowersOff(n) \/ OrphanEnds(n)
         \/ ReapLeases \/ MonitorLists \/ MonitorApplies \/ OthersChange \/ Restart
         \/ UNCHANGED vars
  PROVE  TypeOK'
<1>1. ASSUME NEW n \in VM, CallerDestroys(n) PROVE TypeOK'
  <2>1. "wait" \in Labels("caller")
    BY DEF Labels, Destroying
  <2> QED BY <1>1, <2>1, MoveType DEF CallerDestroys, TypeOK, mgr, monitor, world
<1>2. ASSUME NEW n \in VM, UserDeletes(n) PROVE TypeOK'
  <2>1. "delete" \in Labels("user")
    BY DEF Labels
  <2> QED BY <1>2, <2>1, MoveType DEF UserDeletes, TypeOK, mgr, monitor, world
<1>3. ASSUME NEW n \in VM, Extend(n) \/ LeaseAges(n) PROVE TypeOK'
  BY <1>3 DEF Extend, LeaseAges, TypeOK, threads, monitor, world
<1>4. ASSUME NEW n \in VM, GuestPowersOff(n) \/ OrphanEnds(n) PROVE TypeOK'
  BY <1>4 DEF GuestPowersOff, OrphanEnds, TartStop, TypeOK, Lists, TartState, mgr, threads,
              monitor
<1>5. CASE ReapLeases
  <2>1. "wait" \in Labels("reaper") /\ "wait" \in Label
    BY DEF Labels, Label, Destroying
  <2>2. /\ pc' \in [Proc \X VM -> Label]
        /\ \A x \in Proc \X VM : pc'[x] \in Labels(x[1])
    BY <1>5, <2>1 DEF ReapLeases, TypeOK
  <2>3. op' \in [VM -> Phase]
    BY <1>5 DEF ReapLeases, TypeOK, Phase
  <2> QED BY <1>5, <2>2, <2>3 DEF ReapLeases, TypeOK, monitor, world
<1>6. NoList \in Lists
  BY DEF NoList, Lists, TartState
<1>7. CASE MonitorLists
  BY <1>7 DEF MonitorLists, TypeOK, mgr, threads, world
<1>8. CASE MonitorApplies
  BY <1>6, <1>8, ApplyType DEF MonitorApplies, TypeOK, world
<1>9. CASE OthersChange
  BY <1>9, SlotsAssumption DEF OthersChange, TypeOK, mgr, threads, monitor, world
<1>10. CASE Restart
  <2>1. /\ tart' \in Lists /\ orphan' \in SUBSET VM
    BY <1>10 DEF Restart, TypeOK, Lists, TartState
  <2>2. /\ state' \in [VM -> VMState]
        /\ lease' \in [VM -> {"none", "fresh", "late", "expired"}]
    BY <1>10, <2>1 DEF Restart, TypeOK, Lists, VMState
  <2>3. /\ pc' \in [Proc \X VM -> Label]
        /\ \A x \in Proc \X VM : pc'[x] \in Labels(x[1])
    BY <1>10, Pairs, LabelSets DEF Restart, Label
  <2>4. op' \in [VM -> Phase] /\ seen' \in [Proc \X VM -> Lists]
    BY <1>6, <1>10 DEF Restart, Phase
  <2>5. restarts' \in 0..MaxRestarts
    BY <1>10, RestartsAssumption DEF Restart, TypeOK
  <2> QED BY <1>6, <1>10, <2>1, <2>2, <2>3, <2>4, <2>5 DEF Restart, TypeOK
<1>11. CASE UNCHANGED vars
  BY <1>11 DEF vars, mgr, threads, monitor, world, TypeOK
<1> QED BY <1>1, <1>2, <1>3, <1>4, <1>5, <1>7, <1>8, <1>9, <1>10, <1>11

LEMMA InitType == Init => TypeOK
<1> SUFFICES ASSUME Init PROVE TypeOK
  OBVIOUS
<1>1. NoList \in Lists /\ TartState \subseteq VMState
  BY DEF NoList, Lists, TartState, VMState
<1>2. /\ pc \in [Proc \X VM -> Label]
      /\ \A x \in Proc \X VM : pc[x] \in Labels(x[1])
  BY Pairs, LabelSets DEF Init, Label
<1> QED BY <1>1, <1>2, SlotsAssumption, RestartsAssumption DEF Init, TypeOK, Phase, Lists

LEMMA NextType == TypeOK /\ [Next]_vars => TypeOK'
<1> SUFFICES ASSUME TypeOK, [Next]_vars PROVE TypeOK'
  OBVIOUS
<1>1. ASSUME NEW x \in Proc \X VM, Proceed(x) PROVE TypeOK'
  BY <1>1, Pairs, ProvisionType, OperateType, DestroyType DEF Proceed
<1>2. ASSUME NEW n \in VM, VMStep(n) PROVE TypeOK'
  <2>1. CASE UserActs(n)
    BY <2>1, OperateType, RestType DEF UserActs
  <2> QED BY <1>2, <2>1, ProvisionType, RestType DEF VMStep
<1> QED BY <1>1, <1>2, RestType DEF Next

\* The variables of Leases keep their types; each kind of goroutine stays within
\* its part of the code.
THEOREM TypeCorrect == Spec => []TypeOK
BY InitType, NextType, PTL DEF Spec

-----------------------------------------------------------------------------
(* The inductive invariant *)

Rest == UnusedIdle /\ CloneProtected /\ ClonedAlone /\ ReaperIsLate /\ NeverReapedEarly
          /\ GhostsLast

LEMMA ProvisionInv ==
  ASSUME LeaseInv, NEW n \in VM, Create(n) \/ Provision(n)
  PROVE  Rest'
<1> DEFINE x == <<"prov", n>>
<1> USE DEF Leased
<1>1. /\ x \in Proc \X VM /\ TypeOK /\ UnusedIdle /\ CloneProtected /\ ClonedAlone
      /\ ReaperIsLate /\ NeverReapedEarly /\ GhostsLast
  BY Procs DEF LeaseInv
<1>2. ASSUME NEW l, Goto(x, l)
      PROVE  /\ \A p \in Proc, m \in VM :
                  pc'[<<p, m>>] = IF p = "prov" /\ m = n THEN l ELSE pc[<<p, m>>]
             /\ \A m \in VM : pc'[<<"reaper", m>>] = pc[<<"reaper", m>>]
  <2>1. \A p \in Proc, m \in VM :
          pc'[<<p, m>>] = IF p = "prov" /\ m = n THEN l ELSE pc[<<p, m>>]
    BY <1>1, <1>2 DEF Goto, TypeOK
  <2> QED BY <2>1, Procs
\* The reaper is where it was, and leases are what they were.
<1>3. ASSUME NEW l, Goto(x, l), \A m \in VM : lease'[m] = lease[m] \/ m \notin used
      PROVE  ReaperIsLate' /\ NeverReapedEarly'
  <2>1. \A m \in VM : m \notin used => pc[<<"reaper", m>>] = "idle"
    BY <1>1, Procs DEF UnusedIdle
  <2> QED BY <1>1, <1>2, <1>3, <2>1 DEF ReaperIsLate, NeverReapedEarly, Reaping
<1>4. CASE Create(n)
  <2>1. /\ n \notin used /\ used' = used \cup {n} /\ busy' = busy \cup {n}
        /\ Goto(x, "clone")
    BY <1>4 DEF Create
  <2>2. /\ state'[n] = "stopped" /\ lease'[n] = "fresh" /\ op'[n] = "cloning"
        /\ \A m \in VM \ {n} :
             state'[m] = state[m] /\ lease'[m] = lease[m] /\ op'[m] = op[m]
    BY <1>1, <1>4 DEF Create, TypeOK
  <2>3. UnusedIdle'
    BY <1>1, <1>2, <2>1, <2>2 DEF UnusedIdle
  <2>4. CloneProtected'
    BY <1>1, <1>2, <2>1, <2>2, Procs DEF CloneProtected
  <2>5. ClonedAlone'
    <3>1. \A p \in Proc : pc[<<p, n>>] = "idle"
      BY <1>1, <2>1 DEF UnusedIdle
    <3> QED BY <1>1, <1>2, <2>1, <3>1, Procs DEF ClonedAlone
  <2>6. ReaperIsLate' /\ NeverReapedEarly'
    BY <1>3, <2>1, <2>2
  <2>7. GhostsLast'
    BY <1>1, <1>2, <2>1, <2>2, Procs DEF GhostsLast
  <2> QED BY <2>3, <2>4, <2>5, <2>6, <2>7 DEF Rest
<1>5. ASSUME NEW l, Goto(x, l), pc[x] # "idle",
             UNCHANGED <<used, state, lease>>, busy' \in {busy, busy \ {n}},
             \A m \in VM \ {n} : op'[m] = op[m],
             op'[n] # "none" => n \in used,
             op'[n] = "ghost" => l \notin Provisioning \cup {"launch", "run"},
             l \in {"clone", "cloned"} => busy' = busy /\ pc[x] = "clone"
      PROVE  Rest'
  <2>1. n \in used
    BY <1>1, <1>5, Procs DEF UnusedIdle
  <2>2. UnusedIdle'
    BY <1>1, <1>2, <1>5, <2>1 DEF UnusedIdle
  <2>3. CloneProtected'
    BY <1>1, <1>2, <1>5, Procs DEF CloneProtected
  <2>4. ClonedAlone'
    BY <1>1, <1>2, <1>5, Procs DEF ClonedAlone
  <2>5. ReaperIsLate' /\ NeverReapedEarly'
    BY <1>3, <1>5
  <2>6. GhostsLast'
    BY <1>1, <1>2, <1>5, Procs DEF GhostsLast, Working
  <2> QED BY <2>2, <2>3, <2>4, <2>5, <2>6 DEF Rest
<1>6. /\ pc[x] # "idle" => n \in used
      /\ op[n] = "ghost" => pc[x] \notin Provisioning
      /\ \A l \in {"wait", "idle"} : l \notin Provisioning \cup {"launch", "run"}
  BY <1>1, Procs DEF UnusedIdle, GhostsLast, Provisioning, Working
<1>7. CASE CloneWorks(n)
  BY <1>5, <1>6, <1>7 DEF CloneWorks, Provisioning, mgr
<1>8. CASE CloneFails(n)
  BY <1>5, <1>6, <1>8 DEF CloneFails, Provisioning, mgr
<1>9. CASE HandOver(n)
  <2>1. /\ op'[n] \in {"none", "booting"} /\ \A m \in VM \ {n} : op'[m] = op[m]
    BY <1>1, <1>9 DEF HandOver, TypeOK
  <2> QED BY <1>5, <1>6, <1>9, <2>1 DEF HandOver
<1>10. CASE Judge(n)
  <2>1. pc[x] = "judge" /\ UNCHANGED <<used, state, lease, busy>>
    BY <1>10 DEF Judge
  <2>2. /\ op'[n] \in {op[n], "none", "done"} /\ \A m \in VM \ {n} : op'[m] = op[m]
    BY <1>1, <1>10 DEF Judge, TypeOK
  <2>3. op[n] # "ghost" /\ n \in used
    BY <1>6, <2>1 DEF Provisioning
  <2>4. PICK l \in {"idle", "fail"} : Goto(x, l)
    BY <1>10 DEF Judge
  <2> QED BY <1>5, <2>1, <2>2, <2>3, <2>4
<1>11. CASE Fail(n)
  <2>1. /\ \A m \in VM \ {n} : op'[m] = op[m]
        /\ pc[x] = "fail" /\ Goto(x, "wait") /\ UNCHANGED <<used, state, lease>>
        /\ busy' \in {busy, busy \ {n}}
    BY <1>1, <1>11 DEF Fail, TypeOK
  <2> QED BY <1>5, <1>6, <2>1
<1> QED BY <1>4, <1>7, <1>8, <1>9, <1>10, <1>11 DEF Provision

LEMMA OperateInv ==
  ASSUME LeaseInv, NEW x \in Proc \X VM,
         \/ RunClaim(x) \/ RunRefused(x) \/ StopClaim(x) \/ Operate(x),
         x[2] \in used
  PROVE  Rest'
<1> DEFINE q == x[1]
           n == x[2]
<1> USE DEF Rest, UnusedIdle, CloneProtected, ClonedAlone, ReaperIsLate,
            NeverReapedEarly, GhostsLast, Leased, Reaping
<1>1. /\ q \in Proc /\ n \in VM /\ x = <<q, n>> /\ TypeOK
      /\ UnusedIdle /\ CloneProtected /\ ClonedAlone /\ ReaperIsLate /\ NeverReapedEarly
      /\ GhostsLast
  BY Pairs DEF LeaseInv
<1>2. \A l, p, m : Goto(x, l) /\ p \in Proc /\ m \in VM =>
        pc'[<<p, m>>] = IF p = q /\ m = n THEN l ELSE pc[<<p, m>>]
  BY <1>1, Moved
<1>3. q \in {"prov", "reaper", "user", "caller"} /\ pc[x] \in Labels(q)
  BY <1>1, Procs DEF TypeOK
<1>4. CASE RunClaim(x)
  BY <1>1, <1>2, <1>3, <1>4, Procs DEF RunClaim, Claim, Begins, MayRun, TypeOK, Provisioning, Working
<1>5. CASE RunRefused(x)
  <2>1. /\ UNCHANGED <<used, lease, op, busy>>
        /\ Goto(x, IF q = "prov" THEN "judge" ELSE "idle")
        /\ pc[x] = IF q = "prov" THEN "boot" ELSE "idle"
    BY <1>5 DEF RunRefused, Begins
  <2>2. \A p \in Proc, m \in VM :
          pc'[<<p, m>>] = IF p = q /\ m = n THEN IF q = "prov" THEN "judge" ELSE "idle"
                          ELSE pc[<<p, m>>]
    BY <1>1, <2>1 DEF Goto, TypeOK
  <2>3. \A m \in VM \cap busy : state'[m] = state[m]
    <3>1. CASE n \in busy
      BY <1>5, <3>1 DEF RunRefused
    <3>2. CASE n \notin busy
      <4>1. PICK s \in {"unset", "stopped"} :
              state' = [state EXCEPT ![n] = IF @ \in {"absent", "unset"} THEN s ELSE @]
        BY <1>5, <3>2 DEF RunRefused
      <4> QED BY <1>1, <3>2, <4>1 DEF TypeOK
    <3> QED BY <3>1, <3>2
  <2>4. UnusedIdle'
    BY <1>1, <2>1, <2>2
  <2>5. CloneProtected' /\ ClonedAlone'
    BY <1>1, <2>1, <2>2, <2>3, Procs
  <2>6. ReaperIsLate' /\ NeverReapedEarly'
    BY <1>1, <2>1, <2>2, Procs
  <2>7. GhostsLast'
    BY <1>1, <2>1, <2>2, Procs DEF Provisioning, Working
  <2> QED BY <2>4, <2>5, <2>6, <2>7
<1>6. CASE StopClaim(x)
  <2>1. /\ UNCHANGED <<used, lease, op>> /\ n \notin busy /\ busy' = busy \cup {n}
        /\ state' = [state EXCEPT ![n] = "stopping"]
        /\ Goto(x, "stop") /\ pc[x] = IF q = "user" THEN "idle" ELSE "halt"
    BY <1>6 DEF StopClaim, Claim
  <2>2. \A p \in Proc, m \in VM :
          pc'[<<p, m>>] = IF p = q /\ m = n THEN "stop" ELSE pc[<<p, m>>]
    BY <1>1, <2>1 DEF Goto, TypeOK
  <2>4. UnusedIdle'
    BY <1>1, <2>1, <2>2
  <2>5. CloneProtected' /\ ClonedAlone'
    BY <1>1, <2>1, <2>2, Procs DEF TypeOK
  <2>6. ReaperIsLate' /\ NeverReapedEarly'
    BY <1>1, <1>3, <2>1, <2>2, Procs
  <2>7. GhostsLast'
    BY <1>1, <2>1, <2>2, Procs DEF Provisioning, Working
  <2> QED BY <2>4, <2>5, <2>6, <2>7
<1>7. CASE RunLaunch(x)
  BY <1>1, <1>2, <1>3, <1>7, Procs DEF RunLaunch, TypeOK, Provisioning, mgr, Working
<1>8. /\ pc[x] = "launch" => After(x) = IF q = "user" THEN "idle" ELSE "judge"
      /\ pc[x] = "run" => After(x) = IF q = "user" THEN "idle" ELSE "judge"
      /\ pc[x] = "stop" => After(x) = IF q = "user" THEN "idle" ELSE "delete"
  BY <1>1 DEF After
<1>9. ASSUME NEW s, Finish(x, s), pc[x] \in {"run", "stop"} PROVE Rest'
  <2>1. /\ UNCHANGED <<used, lease, op>>
        /\ \A m \in VM \ {n} : state'[m] = state[m] /\ (m \in busy' <=> m \in busy)
        /\ Goto(x, After(x)) /\ busy' \subseteq busy
    BY <1>1, <1>9 DEF Finish, TypeOK
  <2>2. After(x) \in {"idle", "judge", "delete"} /\ pc[x] \notin {"idle", "wait"}
    BY <1>8, <1>9
  <2>3. q = "prov" => After(x) \in {"judge", "delete"}
    BY <1>8, <1>9
  <2>4. \A p \in Proc, m \in VM :
          pc'[<<p, m>>] = IF p = q /\ m = n THEN After(x) ELSE pc[<<p, m>>]
    BY <1>1, <2>1 DEF Goto, TypeOK
  <2>5. pc[<<"prov", n>>] \notin {"clone", "cloned"}
    BY <1>1, <1>3, <1>9, Procs
  <2>6. UnusedIdle'
    BY <1>1, <2>1, <2>4
  <2>7. CloneProtected' /\ ClonedAlone'
    BY <1>1, <2>1, <2>2, <2>4, <2>5, Procs
  <2>8. ReaperIsLate' /\ NeverReapedEarly'
    BY <1>1, <1>8, <1>9, <2>1, <2>2, <2>4, Procs
  <2>9. GhostsLast'
    BY <1>1, <1>8, <1>9, <2>1, <2>4, Procs DEF Provisioning, Working
  <2> QED BY <2>6, <2>7, <2>8, <2>9
<1>10. CASE RunFails(x)
  BY <1>1, <1>2, <1>3, <1>8, <1>10, Procs DEF RunFails, TypeOK, Provisioning, Working
<1> QED BY <1>4, <1>5, <1>6, <1>7, <1>9, <1>10
        DEF Operate, RunUp, RunAbort, StopWorks, StopFails


\* Applying a list leaves alone what is busy; a lease stays or is dropped.
LEMMA ApplyInv ==
  ASSUME LeaseInv, NEW l \in Lists, Apply(l)
  PROVE  /\ \A m \in VM : lease'[m] \in {lease[m], "none"}
         /\ \A m \in VM \cap busy : lease'[m] = lease[m]
         /\ \A m \in VM \cap busy : state[m] = "stopped" => state'[m] = "stopped"
BY DEF Apply, StateBy, Dropped, LeaseInv, TypeOK

LEMMA DestroyInv ==
  ASSUME LeaseInv, NEW x \in Proc \X VM, Destroy(x)
  PROVE  Rest'
<1> DEFINE q == x[1]
           n == x[2]
<1> USE DEF Leased
<1>1. /\ q \in Proc /\ n \in VM /\ x = <<q, n>>
      /\ TypeOK /\ UnusedIdle /\ CloneProtected /\ ClonedAlone
      /\ ReaperIsLate /\ NeverReapedEarly /\ GhostsLast
  BY Pairs DEF LeaseInv
<1>2. pc[x] \in Destroying
  BY DEF Destroy, Destroying, WaitEnds, Check, StopRefused, DeleteWorks, DeleteFails,
         DeleterLists, DeleterApplies, Forget
<1>3. /\ n \in used
      /\ pc[<<"prov", n>>] \in {"clone", "cloned"} => pc[x] = "wait" /\ n \in busy
  <2>1. pc[<<q, n>>] \notin {"idle", "clone", "cloned"} /\ pc[<<q, n>>] = pc[x]
    BY <1>1, <1>2 DEF Destroying
  <2>2. n \in used
    BY <1>1, <2>1 DEF UnusedIdle
  <2>3. ASSUME pc[<<"prov", n>>] \in {"clone", "cloned"} PROVE pc[x] = "wait" /\ n \in busy
    <3>1. q # "prov"
      BY <2>1, <2>3
    <3> QED BY <1>1, <2>1, <2>3, <3>1 DEF ClonedAlone, CloneProtected
  <2> QED BY <2>2, <2>3
\* Whatever it does, its step has this form.
<1>4. ASSUME NEW l, Goto(x, l), l \in {"idle", "check", "halt", "delete", "list", "apply", "forget"},
             l = "check" => n \notin busy,
             l \in {"check", "halt", "delete"} => pc[x] \in {"wait", "check", "halt"},
             UNCHANGED <<used, busy>>,
             \A m \in VM : op'[m] \in {op[m], "none"},
             \A m \in VM : lease'[m] \in {lease[m], "none"},
             \A m \in VM \cap busy : lease'[m] = lease[m],
             \A m \in VM \cap busy : state[m] = "stopped" => state'[m] = "stopped",
             pc[<<"prov", n>>] \in {"clone", "cloned"} => l = "idle"
      PROVE  Rest'
  <2>1. \A p \in Proc, m \in VM :
          pc'[<<p, m>>] = IF p = q /\ m = n THEN l ELSE pc[<<p, m>>]
    BY <1>1, <1>4 DEF Goto, TypeOK
  <2>2. \A m \in VM : pc'[<<"prov", m>>] =
                        IF q = "prov" /\ m = n THEN l ELSE pc[<<"prov", m>>]
    BY <2>1, Procs
  <2>3. \A m \in VM : pc'[<<"reaper", m>>] =
                        IF q = "reaper" /\ m = n THEN l ELSE pc[<<"reaper", m>>]
    BY <2>1, Procs
  <2>4. UnusedIdle'
    BY <1>1, <1>3, <1>4, <2>1 DEF UnusedIdle
  <2>5. CloneProtected'
    BY <1>1, <1>4, <2>2 DEF CloneProtected
  <2>6. ClonedAlone'
    BY <1>1, <1>4, <2>1, <2>2 DEF ClonedAlone
  <2>7. ReaperIsLate' /\ NeverReapedEarly'
    BY <1>1, <1>4, <2>3 DEF ReaperIsLate, NeverReapedEarly, Reaping
  <2>8. GhostsLast'
    BY <1>1, <1>4, <2>2 DEF GhostsLast, Provisioning, Working
  <2> QED BY <2>4, <2>5, <2>6, <2>7, <2>8 DEF Rest
<1>5. CASE WaitEnds(x)
  BY <1>1, <1>3, <1>4, <1>5 DEF WaitEnds, mgr
<1>6. CASE Check(x)
  <2>1. /\ pc[x] = "check" /\ UNCHANGED <<used, state, lease, busy>>
        /\ \E l \in {"idle", "halt", "delete"} : Goto(x, l)
    BY <1>6 DEF Check
  <2>2. \A m \in VM : op'[m] \in {op[m], "none"}
    BY <1>1, <1>6 DEF Check, TypeOK
  <2> QED BY <1>3, <1>4, <2>1, <2>2
<1>7. CASE StopRefused(x)
  BY <1>3, <1>4, <1>7 DEF StopRefused, mgr
<1>8. CASE DeleteWorks(x) \/ DeleteFails(x)
  BY <1>3, <1>4, <1>8 DEF DeleteWorks, DeleteFails, mgr
<1>9. CASE DeleterLists(x)
  BY <1>3, <1>4, <1>9 DEF DeleterLists, Last, mgr
<1>10. CASE DeleterApplies(x)
  <2>1. seen[x] \in Lists
    BY <1>1 DEF TypeOK
  <2> QED BY <1>3, <1>4, <1>10, <2>1, ApplyInv DEF DeleterApplies, Last
<1>11. CASE Forget(x)
  <2>1. /\ pc[x] = "forget" /\ UNCHANGED <<used, state, lease, busy>> /\ Goto(x, "idle")
    BY <1>11 DEF Forget
  <2>2. \A m \in VM : op'[m] \in {op[m], "none"}
    BY <1>1, <1>11 DEF Forget, TypeOK
  <2> QED BY <1>3, <1>4, <2>1, <2>2
<1> QED BY <1>5, <1>6, <1>7, <1>8, <1>9, <1>10, <1>11 DEF Destroy

LEMMA RestInv ==
  ASSUME LeaseInv,
         \/ \E n \in VM : \/ CallerDestroys(n) \/ Extend(n) \/ LeaseAges(n) \/ UserDeletes(n)
                          \/ GuestPowersOff(n) \/ OrphanEnds(n)
         \/ ReapLeases \/ MonitorLists \/ MonitorApplies \/ OthersChange \/ Restart
         \/ UNCHANGED vars
  PROVE  Rest'
<1> USE DEF Leased
<1>0. /\ TypeOK /\ UnusedIdle /\ CloneProtected /\ ClonedAlone
      /\ ReaperIsLate /\ NeverReapedEarly /\ GhostsLast
  BY DEF LeaseInv
<1>1. ASSUME NEW n \in VM, CallerDestroys(n) PROVE Rest'
  <2>1. \A p \in Proc, m \in VM :
          pc'[<<p, m>>] = IF p = "caller" /\ m = n THEN "wait" ELSE pc[<<p, m>>]
    BY <1>0, <1>1 DEF CallerDestroys, Goto, TypeOK
  <2>2. UNCHANGED <<used, state, lease, busy, op>>
    BY <1>1 DEF CallerDestroys, mgr
  <2>3. n \in used
    BY <1>0, <1>1 DEF CallerDestroys, UnusedIdle
  <2>4. \A p \in {"prov", "reaper"}, m \in VM : pc'[<<p, m>>] = pc[<<p, m>>]
    BY <2>1, Procs
  <2>5. UnusedIdle'
    BY <1>0, <2>1, <2>2, <2>3 DEF UnusedIdle
  <2>6. CloneProtected' /\ GhostsLast'
    BY <1>0, <2>2, <2>4 DEF CloneProtected, GhostsLast
  <2>7. ClonedAlone'
    BY <1>0, <2>1, <2>4 DEF ClonedAlone
  <2>8. ReaperIsLate' /\ NeverReapedEarly'
    BY <1>0, <2>2, <2>4 DEF ReaperIsLate, NeverReapedEarly, Reaping
  <2> QED BY <2>5, <2>6, <2>7, <2>8 DEF Rest
<1>2. ASSUME NEW n \in VM, UserDeletes(n) PROVE Rest'
  <2>1. \A p \in Proc, m \in VM :
          pc'[<<p, m>>] = IF p = "user" /\ m = n THEN "delete" ELSE pc[<<p, m>>]
    BY <1>0, <1>2 DEF UserDeletes, Goto, TypeOK
  <2>2. UNCHANGED <<used, state, lease, busy, op>> /\ n \in used /\ n \notin busy
    BY <1>2 DEF UserDeletes, mgr
  <2>3. \A p \in {"prov", "reaper"}, m \in VM : pc'[<<p, m>>] = pc[<<p, m>>]
    BY <2>1, Procs
  <2>4. pc[<<"prov", n>>] \notin {"clone", "cloned"}
    BY <1>0, <2>2 DEF CloneProtected
  <2>5. UnusedIdle'
    BY <1>0, <2>1, <2>2 DEF UnusedIdle
  <2>6. CloneProtected' /\ GhostsLast'
    BY <1>0, <2>2, <2>3 DEF CloneProtected, GhostsLast
  <2>7. ClonedAlone'
    BY <1>0, <2>1, <2>3, <2>4 DEF ClonedAlone
  <2>8. ReaperIsLate' /\ NeverReapedEarly'
    BY <1>0, <2>2, <2>3 DEF ReaperIsLate, NeverReapedEarly, Reaping
  <2> QED BY <2>5, <2>6, <2>7, <2>8 DEF Rest
<1>3. ASSUME NEW n \in VM, Extend(n) \/ LeaseAges(n) PROVE Rest'
  <2>1. UNCHANGED <<used, state, busy, op, pc>>
    BY <1>3 DEF Extend, LeaseAges, threads
  <2>2. /\ lease[n] \in {"fresh", "late"} /\ lease'[n] # "none"
        /\ \A m \in VM \ {n} : lease'[m] = lease[m]
    BY <1>0, <1>3 DEF Extend, LeaseAges, TypeOK
  <2>3. UnusedIdle' /\ CloneProtected'
    BY <1>0, <2>1, <2>2 DEF UnusedIdle, CloneProtected
  <2>4. ClonedAlone' /\ GhostsLast'
    BY <1>0, <2>1 DEF ClonedAlone, GhostsLast
  <2>5. ReaperIsLate' /\ NeverReapedEarly'
    BY <1>0, <2>1, <2>2 DEF ReaperIsLate, NeverReapedEarly, Reaping
  <2> QED BY <2>3, <2>4, <2>5 DEF Rest
<1>4. CASE ReapLeases
  <2>1. UNCHANGED <<used, state, lease, busy>>
    BY <1>4 DEF ReapLeases
  <2>2. \A p \in Proc, m \in VM :
          pc'[<<p, m>>] = IF p = "reaper" /\ Overdue(m) THEN "wait" ELSE pc[<<p, m>>]
    BY <1>4 DEF ReapLeases
  <2>3. \A m \in VM : op'[m] \in {op[m], "none"}
    BY <1>0, <1>4 DEF ReapLeases, TypeOK
  <2>4. \A m \in VM : Overdue(m) => m \in used /\ lease[m] = "expired"
    BY <1>0 DEF Overdue, UnusedIdle
  <2>5. \A m \in VM : pc'[<<"prov", m>>] = pc[<<"prov", m>>]
    BY <2>2, Procs
  <2>6. UnusedIdle'
    BY <1>0, <2>1, <2>2, <2>3, <2>4 DEF UnusedIdle
  <2>7. CloneProtected' /\ GhostsLast'
    BY <1>0, <2>1, <2>3, <2>5 DEF CloneProtected, GhostsLast
  <2>8. ClonedAlone'
    BY <1>0, <2>2, <2>5 DEF ClonedAlone
  <2>9. ReaperIsLate' /\ NeverReapedEarly'
    BY <1>0, <2>1, <2>2, <2>4, Procs DEF ReaperIsLate, NeverReapedEarly, Reaping
  <2> QED BY <2>6, <2>7, <2>8, <2>9 DEF Rest
<1>5. CASE MonitorApplies
  <2>1. list \in Lists /\ UNCHANGED <<used, busy, op, pc>>
    BY <1>0, <1>5 DEF MonitorApplies, TypeOK
  <2>2. /\ \A m \in VM : lease'[m] \in {lease[m], "none"}
        /\ \A m \in VM \cap busy : lease'[m] = lease[m]
        /\ \A m \in VM \cap busy : state[m] = "stopped" => state'[m] = "stopped"
    BY <1>5, <2>1, ApplyInv DEF MonitorApplies
  <2>3. UnusedIdle' /\ CloneProtected'
    BY <1>0, <2>1, <2>2 DEF UnusedIdle, CloneProtected
  <2>4. ClonedAlone' /\ GhostsLast'
    BY <1>0, <2>1 DEF ClonedAlone, GhostsLast
  <2>5. ReaperIsLate' /\ NeverReapedEarly'
    BY <1>0, <2>1, <2>2 DEF ReaperIsLate, NeverReapedEarly, Reaping
  <2> QED BY <2>3, <2>4, <2>5 DEF Rest
<1>6. CASE Restart
  <2>1. /\ \A p \in Proc, m \in VM : pc'[<<p, m>>] = "idle"
        /\ \A m \in VM : op'[m] = "none"
        /\ used' = used /\ busy' = {}
    BY <1>6 DEF Restart
  <2>2. \A m \in VM : lease'[m] \in {lease[m], "none"}
    BY <1>0, <1>6 DEF Restart, TypeOK
  <2> QED BY <1>0, <2>1, <2>2, Procs
          DEF Rest, UnusedIdle, CloneProtected, ClonedAlone, ReaperIsLate,
              NeverReapedEarly, Reaping, GhostsLast
<1>7. ASSUME UNCHANGED <<mgr, pc>> PROVE Rest'
  BY <1>0, <1>7 DEF mgr, Rest, UnusedIdle, CloneProtected, ClonedAlone, ReaperIsLate,
                    NeverReapedEarly, Reaping, GhostsLast
<1> QED BY <1>1, <1>2, <1>3, <1>4, <1>5, <1>6, <1>7
        DEF GuestPowersOff, OrphanEnds, MonitorLists, OthersChange, vars, mgr, threads

-----------------------------------------------------------------------------
(* What the entries of m.agentOps say *)


\* Nothing was done to this VM.
LEMMA OpsUntouched ==
  ASSUME NEW n \in VM, OpsWell(n),
         state'[n] = state[n], lease'[n] = lease[n], op'[n] = op[n],
         n \in busy' <=> n \in busy,
         \A p \in Proc : pc'[<<p, n>>] = pc[<<p, n>>]
  PROVE  OpsWell(n)'
BY Procs DEF OpsWell, Leased

\* A goroutine went on that leaves a clone under way alone, or writes it.
LEMMA OpsCloning ==
  ASSUME TypeOK, NEW n \in VM, NEW q \in Proc, NEW l, Goto(<<q, n>>, l), OpsWell(n),
         state'[n] = state[n], lease'[n] = lease[n], op'[n] = op[n],
         n \in busy' <=> n \in busy,
         q = "prov" => pc[<<q, n>>] = "clone" /\ l \in {"cloned", "fail"},
         q # "prov" => l \in {"idle", "wait"}
  PROVE  OpsWell(n)'
<1>1. \A p \in Proc : pc'[<<p, n>>] = IF p = q THEN l ELSE pc[<<p, n>>]
  BY DEF Goto, TypeOK
<1>2. pc'[<<"prov", n>>] = IF q = "prov" THEN l ELSE pc[<<"prov", n>>]
  BY <1>1, Procs
<1> QED BY <1>1, <1>2 DEF OpsWell, Leased, Working, Provisioning

\* A goroutine went on with a VM that is not being cloned any more.
LEMMA OpsMoved ==
  ASSUME TypeOK, NEW n \in VM, NEW q \in Proc, NEW l, Goto(<<q, n>>, l), OpsWell(n),
         lease'[n] \in {lease[n], "none"},
         state'[n] = "absent" => state[n] = "absent" \/ lease'[n] = "none",
         op'[n] # "cloning",
         op'[n] = "ghost" => op[n] = "ghost" \/ ~Leased(n),
         q = "prov" /\ l \in Working => op'[n] = "booting" \/ (op'[n] = "none" /\ ~Leased(n)),
         q # "prov" => op'[n] = op[n] \/ (op'[n] = "none" /\ ~Leased(n))
  PROVE  OpsWell(n)'
<1>1. pc'[<<"prov", n>>] = IF q = "prov" THEN l ELSE pc[<<"prov", n>>]
  BY Procs DEF Goto, TypeOK
<1> QED BY <1>1 DEF OpsWell, Leased, Working

\* Only its provisioning is past waiting while a VM is being cloned.
LEMMA OpsBusyCloning ==
  ASSUME NEW n \in VM, OpsWell(n), NEW q \in Proc,
         \/ n \notin busy
         \/ pc[<<q, n>>] \notin {"idle", "wait", "clone", "cloned", "fail"}
         \/ q = "prov" /\ pc[<<q, n>>] \notin {"clone", "cloned", "fail"}
  PROVE  op[n] # "cloning"
BY DEF OpsWell

\* What a list does to a VM whose goroutines stay where they are.
LEMMA OpsListed ==
  ASSUME LeaseInv, NEW l \in Lists, Apply(l), NEW n \in VM
  PROVE  /\ lease'[n] \in {lease[n], "none"}
         /\ state'[n] = "absent" => state[n] = "absent" \/ lease'[n] = "none"
         /\ UNCHANGED <<busy, op>> /\ (\A p \in Proc : pc'[<<p, n>>] = pc[<<p, n>>])
              => OpsWell(n)'
<1>1. /\ lease'[n] \in {lease[n], "none"}
      /\ state'[n] = "absent" => state[n] = "absent" \/ lease'[n] = "none"
      /\ n \in busy /\ state[n] = "stopped" => state'[n] = "stopped" /\ lease'[n] = lease[n]
  BY DEF Apply, StateBy, Dropped
<1>2. OpsWell(n)
  BY DEF LeaseInv
<1> QED BY <1>1, <1>2, Procs DEF OpsWell, Leased

LEMMA ProvisionOps ==
  ASSUME LeaseInv, NEW m \in VM, Create(m) \/ Provision(m), NEW n \in VM
  PROVE  OpsWell(n)'
<1> DEFINE x == <<"prov", n>>
<1>1. TypeOK /\ UnusedIdle /\ OpsWell(n) /\ "prov" \in Proc
  BY Procs DEF LeaseInv
<1>2. CASE n # m
  <2>1. \A p \in Proc : pc'[<<p, n>>] = pc[<<p, n>>]
    BY <1>1, <1>2 DEF Goto, TypeOK, Create, Provision, CloneWorks, CloneFails, HandOver, Judge,
                      Fail
  <2>2. /\ state'[n] = state[n] /\ lease'[n] = lease[n] /\ op'[n] = op[n]
        /\ n \in busy' <=> n \in busy
    BY <1>1, <1>2 DEF TypeOK, Create, Provision, CloneWorks, CloneFails, HandOver, Judge, Fail,
                      mgr
  <2> QED BY <1>1, <2>1, <2>2, OpsUntouched
<1>3. CASE n = m
  <2>1. CASE Create(n)
    <3>1. \A p \in Proc : pc[<<p, n>>] = "idle"
      BY <1>1, <2>1 DEF Create, UnusedIdle
    <3>2. \A p \in Proc : pc'[<<p, n>>] = IF p = "prov" THEN "clone" ELSE "idle"
      BY <1>1, <2>1, <3>1 DEF Create, Goto, TypeOK
    <3>3. state'[n] = "stopped" /\ lease'[n] = "fresh" /\ op'[n] = "cloning" /\ n \in busy'
      BY <1>1, <2>1 DEF Create, TypeOK
    <3> QED BY <1>1, <3>2, <3>3 DEF OpsWell, Leased
  <2>2. CASE CloneWorks(n) \/ CloneFails(n)
    <3>1. \E l \in {"cloned", "fail"} : pc[x] = "clone" /\ Goto(x, l) /\ UNCHANGED mgr
      BY <2>2 DEF CloneWorks, CloneFails
    <3> QED BY <1>1, <3>1, OpsCloning DEF mgr
  <2>3. CASE HandOver(n)
    <3>1. op[n] \in {"cloning", "booting"} \/ (op[n] = "none" /\ ~Leased(n))
      BY <1>1, <2>3 DEF HandOver, OpsWell, Provisioning, Working
    <3>2. op'[n] = "booting" \/ (op'[n] = "none" /\ ~Leased(n))
      BY <1>1, <2>3, <3>1 DEF HandOver, TypeOK
    <3>3. UNCHANGED <<state, lease>> /\ Goto(x, "boot")
      BY <2>3 DEF HandOver
    <3> QED BY <1>1, <3>2, <3>3, OpsMoved
  <2>4. CASE Judge(n)
    <3>1. op[n] = "booting" \/ (op[n] = "none" /\ ~Leased(n))
      BY <1>1, <2>4 DEF Judge, OpsWell, Provisioning, Working
    <3>2. PICK l \in {"idle", "fail"} : /\ Goto(x, l) /\ UNCHANGED <<state, lease>>
                                        /\ l = "fail" => op'[n] = op[n]
      BY <2>4 DEF Judge
    <3>3. op'[n] \in {"booting", "none", "done"} /\ l \notin {"idle"} \cap Working
      BY <1>1, <2>4, <3>1 DEF Judge, TypeOK, Working, Provisioning
    <3> QED BY <1>1, <3>1, <3>2, <3>3, OpsMoved
  <2>5. CASE Fail(n)
    <3>1. op[n] \in {"cloning", "booting"} \/ (op[n] = "none" /\ ~Leased(n))
      BY <1>1, <2>5 DEF Fail, OpsWell, Provisioning, Working
    <3>2. op'[n] = "failed" \/ (op'[n] = "ghost" /\ ~Leased(n))
      BY <1>1, <2>5, <3>1 DEF Fail, TypeOK
    <3>3. UNCHANGED <<state, lease>> /\ Goto(x, "wait") /\ "wait" \notin Working
      BY <2>5 DEF Fail, Working, Provisioning
    <3> QED BY <1>1, <3>2, <3>3, OpsMoved
  <2> QED BY <1>3, <2>1, <2>2, <2>3, <2>4, <2>5 DEF Provision
<1> QED BY <1>2, <1>3

LEMMA OperateOps ==
  ASSUME LeaseInv, NEW x \in Proc \X VM,
         \/ RunClaim(x) \/ RunRefused(x) \/ StopClaim(x) \/ Operate(x),
         NEW n \in VM
  PROVE  OpsWell(n)'
<1> DEFINE q == x[1]
<1>1. /\ q \in Proc /\ x[2] \in VM /\ x = <<q, x[2]>>
      /\ TypeOK /\ OpsWell(n)
  BY Pairs DEF LeaseInv
<1>2. CASE x[2] # n
  <2>1. \A p \in Proc : pc'[<<p, n>>] = pc[<<p, n>>]
    BY <1>1, <1>2 DEF Goto, TypeOK, RunClaim, RunRefused, StopClaim, Claim, Operate, RunLaunch,
                      RunUp, RunFails, RunAbort, StopWorks, StopFails, Finish
  <2>2. lease' = lease /\ op' = op /\ (n \in busy' <=> n \in busy)
    BY <1>1, <1>2 DEF RunClaim, RunRefused, StopClaim, Claim, Operate, RunLaunch,
                      RunUp, RunFails, RunAbort, StopWorks, StopFails, Finish, mgr
  <2>3. state'[n] = state[n]
    BY <1>1, <1>2 DEF TypeOK, RunClaim, RunRefused, StopClaim, Claim, Operate, RunLaunch,
                      RunUp, RunFails, RunAbort, StopWorks, StopFails, Finish, mgr
  <2> QED BY <1>1, <2>1, <2>2, <2>3, OpsUntouched
<1>3. CASE x[2] = n
  <2>1. x = <<q, n>>
    BY <1>1, <1>3
\* Of an operation it only matters what its goroutine is, and that a record stays.
  <2>2. ASSUME NEW l, Goto(x, l), op[n] # "cloning", UNCHANGED <<lease, op>>,
               state'[n] = "absent" => state[n] = "absent",
               q = "prov" /\ l \in Working => pc[x] \in Working
        PROVE  OpsWell(n)'
    <3>1. q = "prov" /\ l \in Working => op[n] = "booting" \/ (op[n] = "none" /\ ~Leased(n))
      BY <1>1, <2>1, <2>2 DEF OpsWell, Working
    <3> QED BY <1>1, <2>1, <2>2, <3>1, OpsMoved
  <2>3. CASE RunClaim(x)
    <3>1. /\ Goto(x, "launch") /\ UNCHANGED <<lease, op>> /\ n \notin busy
          /\ state' = [state EXCEPT ![n] = "starting"]
          /\ q = "prov" => pc[x] = "boot"
      BY <1>3, <2>3 DEF RunClaim, Claim, Begins
    <3>2. state'[n] = "starting"
      BY <1>1, <3>1 DEF TypeOK
    <3> QED BY <1>1, <2>1, <2>2, <3>1, <3>2, OpsBusyCloning DEF Working, Provisioning
  <2>4. CASE RunRefused(x)
    <3>1. PICK l \in {"idle", "judge"} :
            /\ Goto(x, l) /\ UNCHANGED <<lease, op, busy>>
            /\ q = "prov" => pc[x] = "boot"
            /\ q # "prov" => l = "idle"
            /\ n \in busy => state' = state
      BY <1>3, <2>4 DEF RunRefused, Begins
    <3>2. CASE op[n] = "cloning"
      <4>1. n \in busy /\ q # "prov"
        BY <1>1, <2>1, <3>1, <3>2 DEF OpsWell
      <4> QED BY <1>1, <2>1, <3>1, <4>1, OpsCloning
    <3>3. CASE op[n] # "cloning"
      <4>1. state'[n] = "absent" => state[n] = "absent"
        BY <1>1, <1>3, <2>4 DEF RunRefused, TypeOK
      <4>2. q = "prov" /\ l \in Working => pc[x] \in Working
        BY <3>1 DEF Working, Provisioning
      <4> QED BY <2>2, <3>1, <3>3, <4>1, <4>2
    <3> QED BY <3>2, <3>3
  <2>5. CASE StopClaim(x)
    <3>1. /\ Goto(x, "stop") /\ UNCHANGED <<lease, op>> /\ n \notin busy
          /\ state' = [state EXCEPT ![n] = "stopping"]
      BY <1>3, <2>5 DEF StopClaim, Claim
    <3>2. state'[n] = "stopping" /\ "stop" \notin Working
      BY <1>1, <3>1 DEF TypeOK, Working, Provisioning
    <3> QED BY <1>1, <2>1, <2>2, <3>1, <3>2, OpsBusyCloning
  <2>6. CASE Operate(x)
    <3>1. pc[x] \in {"launch", "run", "stop"} /\ UNCHANGED <<lease, op>>
      BY <2>6 DEF Operate, RunLaunch, RunUp, RunFails, RunAbort, StopWorks, StopFails, Finish, mgr
    <3>2. op[n] # "cloning"
      BY <1>1, <2>1, <3>1, OpsBusyCloning
    <3>3. state'[n] = "absent" => state[n] = "absent"
      BY <1>1, <1>3, <2>6
         DEF Operate, RunLaunch, RunUp, RunFails, RunAbort, StopWorks, StopFails, Finish, mgr,
             TypeOK
    <3>4. (Goto(x, "run") /\ pc[x] = "launch") \/ Goto(x, After(x))
      BY <2>6 DEF Operate, RunLaunch, RunUp, RunFails, RunAbort, StopWorks, StopFails, Finish
    <3>5. q = "prov" /\ After(x) \in Working => pc[x] \in Working
      BY <3>1 DEF After, Working, Provisioning
    <3>6. "launch" \in Working
      BY DEF Working
    <3> QED BY <2>2, <3>1, <3>2, <3>3, <3>4, <3>5, <3>6
  <2> QED BY <2>3, <2>4, <2>5, <2>6
<1> QED BY <1>2, <1>3

LEMMA DestroyOps ==
  ASSUME LeaseInv, NEW x \in Proc \X VM, Destroy(x), NEW n \in VM
  PROVE  OpsWell(n)'
<1> DEFINE q == x[1]
<1>1. /\ q \in Proc /\ x[2] \in VM /\ x = <<q, x[2]>>
      /\ TypeOK /\ OpsWell(n)
  BY Pairs DEF LeaseInv
<1>2. ASSUME x[2] # n PROVE \A p \in Proc : pc'[<<p, n>>] = pc[<<p, n>>]
  BY <1>1, <1>2 DEF Goto, TypeOK, Destroy, WaitEnds, Check, StopRefused, DeleteWorks, DeleteFails,
                    DeleterLists, DeleterApplies, Forget
<1>3. DeleterApplies(x) => seen[x] \in Lists /\ Apply(seen[x]) /\ UNCHANGED <<busy, op>>
  BY <1>1 DEF DeleterApplies, TypeOK
<1>4. CASE x[2] # n
  <2>1. CASE DeleterApplies(x)
    BY <1>2, <1>3, <1>4, <2>1, OpsListed
  <2>2. CASE ~DeleterApplies(x)
    <3>1. UNCHANGED <<state, lease, busy>> /\ op'[n] = op[n]
      BY <1>1, <1>4, <2>2
         DEF TypeOK, Destroy, WaitEnds, Check, StopRefused, DeleteWorks, DeleteFails,
             DeleterLists, Forget, mgr
    <3> QED BY <1>1, <1>2, <1>4, <3>1, OpsUntouched
  <2> QED BY <2>1, <2>2
<1>5. CASE x[2] = n
  <2>1. x = <<q, n>>
    BY <1>1, <1>5
  <2>2. ASSUME NEW l \in {"idle", "check", "halt", "delete", "list", "apply", "forget"},
               Goto(x, l), op[n] # "cloning",
               lease'[n] \in {lease[n], "none"},
               state'[n] = "absent" => state[n] = "absent" \/ lease'[n] = "none",
               op'[n] = op[n] \/ (op'[n] = "none" /\ ~Leased(n))
        PROVE  OpsWell(n)'
    <3>1. l \notin Working
      BY <2>2 DEF Working, Provisioning
    <3> QED BY <1>1, <2>1, <2>2, <3>1, OpsMoved
  <2>3. pc[x] \in {"check", "halt", "delete", "list", "apply", "forget"} => op[n] # "cloning"
    BY <1>1, <2>1, OpsBusyCloning
  <2>4. CASE WaitEnds(x)
    <3>1. PICK l \in {"idle", "check"} : /\ Goto(x, l) /\ UNCHANGED <<state, lease, busy, op>>
                                         /\ n \in busy => l = "idle"
      BY <1>5, <2>4 DEF WaitEnds, mgr
    <3>2. CASE op[n] = "cloning"
      <4>1. n \in busy /\ q # "prov"
        BY <1>1, <2>1, <2>4, <3>2 DEF OpsWell, WaitEnds
      <4> QED BY <1>1, <2>1, <3>1, <4>1, OpsCloning
    <3> QED BY <2>2, <3>1, <3>2
  <2>5. CASE Check(x)
    <3>1. pc[x] = "check" /\ UNCHANGED <<state, lease>>
          /\ \E l \in {"idle", "halt", "delete"} : Goto(x, l)
      BY <2>5 DEF Check
    <3>2. op'[n] = op[n] \/ (op'[n] = "none" /\ state[n] = "absent")
      BY <1>1, <1>5, <2>5 DEF Check, TypeOK
    <3> QED BY <1>1, <2>2, <2>3, <3>1, <3>2 DEF OpsWell
  <2>6. CASE StopRefused(x) \/ DeleteWorks(x) \/ DeleteFails(x)
    BY <2>2, <2>3, <2>6 DEF StopRefused, DeleteWorks, DeleteFails, mgr
  <2>7. CASE DeleterLists(x)
    BY <2>2, <2>3, <2>7 DEF DeleterLists, Last, mgr
  <2>8. CASE DeleterApplies(x)
    <3>1. pc[x] = "apply" /\ \E l \in {"idle", "forget"} : Goto(x, l)
      BY <2>8 DEF DeleterApplies, Last
    <3> QED BY <1>3, <2>2, <2>3, <2>8, <3>1, OpsListed
  <2>9. CASE Forget(x)
    <3>1. pc[x] = "forget" /\ UNCHANGED <<state, lease>> /\ Goto(x, "idle")
      BY <2>9 DEF Forget
    <3>2. op'[n] = op[n] \/ (op'[n] = "none" /\ state[n] = "absent")
      BY <1>1, <1>5, <2>9 DEF Forget, TypeOK
    <3> QED BY <1>1, <2>2, <2>3, <3>1, <3>2 DEF OpsWell
  <2> QED BY <2>4, <2>5, <2>6, <2>7, <2>8, <2>9 DEF Destroy
<1> QED BY <1>4, <1>5

LEMMA RestOps ==
  ASSUME LeaseInv,
         \/ \E m \in VM : \/ CallerDestroys(m) \/ Extend(m) \/ LeaseAges(m) \/ UserDeletes(m)
                          \/ GuestPowersOff(m) \/ OrphanEnds(m)
         \/ ReapLeases \/ MonitorLists \/ MonitorApplies \/ OthersChange \/ Restart
         \/ UNCHANGED vars,
         NEW n \in VM
  PROVE  OpsWell(n)'
<1>1. TypeOK /\ OpsWell(n)
  BY DEF LeaseInv
<1>2. ASSUME NEW m \in VM, CallerDestroys(m) \/ UserDeletes(m) PROVE OpsWell(n)'
  <2>1. UNCHANGED <<state, lease, busy, op>>
    BY <1>2 DEF CallerDestroys, UserDeletes, mgr
  <2>2. PICK q \in Proc \ {"prov"}, l \in {"wait", "delete"} :
          Goto(<<q, m>>, l) /\ (l = "delete" => m \notin busy)
    BY <1>2 DEF CallerDestroys, UserDeletes
  <2>3. CASE m # n
    BY <1>1, <2>1, <2>2, <2>3, OpsUntouched DEF Goto, TypeOK
  <2>4. CASE m = n /\ l = "wait"
    BY <1>1, <2>1, <2>2, <2>4, OpsCloning
  <2>5. CASE m = n /\ l = "delete"
    BY <1>1, <2>1, <2>2, <2>5, OpsMoved, OpsBusyCloning
  <2> QED BY <2>3, <2>4, <2>5
<1>3. ASSUME NEW m \in VM, Extend(m) \/ LeaseAges(m) PROVE OpsWell(n)'
  <2>1. UNCHANGED <<state, busy, op, pc>>
    BY <1>3 DEF Extend, LeaseAges, threads
  <2>2. Leased(n)' <=> Leased(n)
    BY <1>1, <1>3 DEF Extend, LeaseAges, TypeOK, Leased
  <2> QED BY <1>1, <2>1, <2>2 DEF OpsWell
<1>4. CASE ReapLeases
  <2>1. UNCHANGED <<state, lease, busy>>
    BY <1>4 DEF ReapLeases
  <2>2. op'[n] = op[n] \/ (op'[n] = "none" /\ op[n] \in {"failed", "ghost"})
    BY <1>1, <1>4 DEF ReapLeases, TypeOK
  <2>3. \A p \in Proc :
          pc'[<<p, n>>] = IF p = "reaper" /\ Overdue(n) THEN "wait" ELSE pc[<<p, n>>]
    BY <1>4 DEF ReapLeases
  <2>4. pc'[<<"prov", n>>] = pc[<<"prov", n>>]
    BY <2>3, Procs
  <2> QED BY <1>1, <2>1, <2>2, <2>3, <2>4 DEF OpsWell, Leased
<1>5. CASE MonitorApplies
  <2>1. list \in Lists /\ Apply(list) /\ UNCHANGED <<busy, op, pc>>
    BY <1>1, <1>5 DEF MonitorApplies, TypeOK
  <2> QED BY <2>1, OpsListed
<1>6. CASE Restart
  <2>1. op'[n] = "none" /\ pc'[<<"prov", n>>] = "idle"
    BY <1>6, Procs DEF Restart
  <2>2. lease'[n] \in {lease[n], "none"}
        /\ (state'[n] = "absent" => state[n] = "absent" \/ lease'[n] = "none")
    BY <1>6 DEF Restart
  <2> QED BY <1>1, <2>1, <2>2 DEF OpsWell, Leased, Working, Provisioning
<1>7. ASSUME UNCHANGED <<mgr, pc>> PROVE OpsWell(n)'
  BY <1>1, <1>7 DEF mgr, OpsWell, Leased
<1> QED BY <1>2, <1>3, <1>4, <1>5, <1>6, <1>7
        DEF GuestPowersOff, OrphanEnds, MonitorLists, OthersChange, vars, mgr, threads

LEMMA NextOps == LeaseInv /\ [Next]_vars => \A n \in VM : OpsWell(n)'
<1> SUFFICES ASSUME LeaseInv, [Next]_vars, NEW n \in VM PROVE OpsWell(n)'
  OBVIOUS
<1>1. ASSUME NEW x \in Proc \X VM, Proceed(x) PROVE OpsWell(n)'
  BY <1>1, Pairs, ProvisionOps, OperateOps, DestroyOps DEF Proceed
<1>2. ASSUME NEW m \in VM, VMStep(m) PROVE OpsWell(n)'
  <2>1. CASE UserActs(m)
    BY <2>1, OperateOps, RestOps DEF UserActs
  <2> QED BY <1>2, <2>1, ProvisionOps, RestOps DEF VMStep
<1> QED BY <1>1, <1>2, RestOps DEF Next

-----------------------------------------------------------------------------
(* The inductive invariant, always *)

LEMMA NextLease == LeaseInv /\ [Next]_vars => LeaseInv'
<1> SUFFICES ASSUME LeaseInv, [Next]_vars PROVE LeaseInv'
  OBVIOUS
<1>1. TypeOK'
  BY NextType DEF LeaseInv
<1>2. ASSUME NEW x \in Proc \X VM, Proceed(x) PROVE Rest'
  <2>1. x[2] \in VM /\ x = <<x[1], x[2]>> /\ x[1] \in Proc
    BY Pairs
  <2>2. pc[x] # "idle" => x[2] \in used
    BY <2>1 DEF LeaseInv, UnusedIdle
  <2>3. CASE x[1] = "prov" /\ Provision(x[2])
    BY <2>1, <2>3, ProvisionInv
  <2>4. CASE x[1] = "prov" /\ (RunClaim(x) \/ RunRefused(x))
    <3>1. pc[x] = "boot"
      BY <2>4 DEF RunClaim, RunRefused, Begins
    <3> QED BY <2>2, <2>4, <3>1, OperateInv
  <2>5. CASE Operate(x)
    <3>1. pc[x] # "idle"
      BY <2>5 DEF Operate, RunLaunch, RunUp, RunFails, RunAbort, StopWorks, StopFails
    <3> QED BY <2>2, <2>5, <3>1, OperateInv
  <2>6. CASE pc[x] = "halt" /\ StopClaim(x)
    BY <2>2, <2>6, OperateInv
  <2>7. CASE Destroy(x)
    BY <2>7, DestroyInv
  <2> QED BY <1>2, <2>3, <2>4, <2>5, <2>6, <2>7 DEF Proceed
<1>3. ASSUME NEW n \in VM, VMStep(n) PROVE Rest'
  <2>1. CASE UserActs(n)
    <3>1. <<"user", n>>[2] = n
      OBVIOUS
    <3> QED BY <2>1, <3>1, OperateInv, RestInv DEF UserActs
  <2> QED BY <1>3, <2>1, ProvisionInv, RestInv DEF VMStep
<1>4. Rest'
  BY <1>2, <1>3, RestInv DEF Next
<1> QED BY <1>1, <1>4, NextOps DEF LeaseInv, Rest

\* Whoever works on an agent's VM beside its provisioning, its reaper and its
\* owner, the clone, the record and the lease are as the next step of each of them
\* takes for granted: the inductive invariant of startAgentVM, destroyLeasedVM,
\* reapLeases and the reconciles beside them.
THEOREM LeaseInvAlways == Spec => []LeaseInv
<1>1. Init => LeaseInv
  <2> SUFFICES ASSUME Init PROVE LeaseInv
    OBVIOUS
  <2>1. \A p \in Proc, n \in VM : pc[<<p, n>>] = "idle"
    BY DEF Init
  <2>2. \A n \in VM : OpsWell(n)
    BY <2>1, Procs DEF Init, OpsWell, Leased, Provisioning, NoList
  <2> QED BY <2>1, <2>2, InitType, Procs
          DEF Init, LeaseInv, UnusedIdle, CloneProtected, ClonedAlone, ReaperIsLate,
              NeverReapedEarly, Reaping, GhostsLast, NoList
<1> QED BY <1>1, NextLease, PTL DEF Spec

\* A VM that is being cloned keeps its record, its lease and its busy flag.
THEOREM ClonesAreProtected == Spec => []CloneProtected
<1>1. LeaseInv => CloneProtected
  BY DEF LeaseInv
<1> QED BY <1>1, LeaseInvAlways, PTL

\* The reaper works only on VMs whose lease is over, whoever extends leases.
THEOREM LeasesAreHonoured == Spec => []NeverReapedEarly
<1>1. LeaseInv => NeverReapedEarly
  BY DEF LeaseInv
<1> QED BY <1>1, LeaseInvAlways, PTL

-----------------------------------------------------------------------------
(* Leases implements AgentVM *)

answers == [n \in VM |-> Seen(n)]
stages == [n \in VM |-> Stage(n)]

LEMMA Ranges ==
  ASSUME NEW n
  PROVE  Seen(n) \in View!Answers /\ Seen(n)' \in View!Answers
BY DEF Seen, View!Answers

\* Only create, judge and failAgentVM begin or end a provisioning.
LEMMA StageKept ==
  ASSUME TypeOK, NEW x \in Proc \X VM,
         Operate(x) \/ RunClaim(x) \/ RunRefused(x) \/ StopClaim(x) \/ Destroy(x)
  PROVE  \A n \in VM : pc'[<<"prov", n>>] \in Working <=> pc[<<"prov", n>>] \in Working
<1>1. ASSUME NEW l, Goto(x, l), x[1] = "prov" => (l \in Working <=> pc[x] \in Working)
      PROVE  \A n \in VM : pc'[<<"prov", n>>] \in Working <=> pc[<<"prov", n>>] \in Working
  <2>1. \A n \in VM : pc'[<<"prov", n>>] =
                        IF <<"prov", n>> = x THEN l ELSE pc[<<"prov", n>>]
    BY <1>1, Moved, Procs
  <2> QED BY <1>1, <2>1, Pairs
<1>2. /\ {"boot", "launch", "run", "judge"} \subseteq Working
      /\ {"idle", "stop", "wait", "check", "halt", "delete", "list", "apply", "forget"}
            \cap Working = {}
  BY DEF Working, Provisioning
<1>3. CASE RunClaim(x) \/ RunRefused(x) \/ StopClaim(x)
  BY <1>1, <1>2, <1>3 DEF RunClaim, RunRefused, StopClaim, Claim, Begins
<1>4. CASE Operate(x)
  <2>1. pc[x] \in {"launch", "run"} => After(x) = IF x[1] = "user" THEN "idle" ELSE "judge"
    BY DEF After
  <2>2. pc[x] = "stop" => After(x) = IF x[1] = "user" THEN "idle" ELSE "delete"
    BY DEF After
  <2> QED BY <1>1, <1>2, <1>4, <2>1, <2>2
          DEF Operate, RunLaunch, RunUp, RunFails, RunAbort, StopWorks, StopFails, Finish
<1>5. CASE Destroy(x)
  <2>1. Last(x) \in {"idle", "forget"}
    BY DEF Last
  <2> QED BY <1>1, <1>2, <1>5, <2>1
          DEF Destroy, WaitEnds, Check, StopRefused, DeleteWorks, DeleteFails, DeleterLists,
              DeleterApplies, Forget
<1> QED BY <1>3, <1>4, <1>5

\* Whatever leaves names and provisionings where they are, ends leases and drops
\* entries, but not the one of a clone under way, is AgentVM's Change.
LEMMA ChangeStep ==
  ASSUME LeaseInv, \A n \in VM : OpsWell(n)', used' = used,
         \A n \in VM : Leased(n)' => Leased(n),
         \A n \in VM : op'[n] = op[n] \/ (op'[n] = "none" /\ op[n] # "cloning"),
         \A n \in VM : pc'[<<"prov", n>>] \in Working <=> pc[<<"prov", n>>] \in Working
  PROVE  View!Next
<1>1. UNCHANGED stages
  BY DEF stages, Stage
<1>2. ASSUME NEW n \in VM
      PROVE  \/ Seen(n)' = Seen(n)
             \/ Seen(n) = "up" /\ Seen(n)' = "none"
             \/ /\ Stage(n) = "over" /\ Seen(n) # "none"
                /\ Seen(n)' \in {"up", "stopped", "none"}
  <2>1. OpsWell(n) /\ OpsWell(n)' /\ UnusedIdle
    BY DEF LeaseInv
  <2>2. CASE pc[<<"prov", n>>] \in Working
    <3>1. CASE op[n] = "cloning"
      <4>1. op'[n] = "cloning"
        BY <3>1
      <4>2. Leased(n) /\ Leased(n)'
        BY <2>1, <3>1, <4>1 DEF OpsWell
      <4> QED BY <3>1, <4>1, <4>2 DEF Seen
    <3>2. CASE op[n] = "booting"
      BY <2>1, <2>2, <3>2 DEF OpsWell, Seen
    <3>3. CASE op[n] = "none" /\ ~Leased(n)
      BY <3>3 DEF Seen
    <3> QED BY <2>1, <2>2, <3>1, <3>2, <3>3 DEF OpsWell
  <2>3. CASE pc[<<"prov", n>>] \notin Working /\ n \in used
    <3>1. op[n] # "cloning" /\ op'[n] # "cloning" /\ Stage(n) = "over"
      BY <2>1, <2>3 DEF OpsWell, Stage, Working, Provisioning
    <3>2. CASE op'[n] \in {"failed", "ghost"}
      BY <3>2 DEF Seen
    <3>3. CASE op'[n] \notin {"failed", "ghost"}
      <4>1. Seen(n)' \in {"up", "stopped", "none"}
        BY <3>1, <3>3 DEF Seen
      <4>2. Seen(n) = "none" => Seen(n)' = "none"
        BY <3>3 DEF Seen
      <4> QED BY <3>1, <4>1, <4>2
    <3> QED BY <3>2, <3>3
  <2>4. CASE n \notin used
    BY <2>1, <2>4 DEF UnusedIdle, Seen, Leased
  <2> QED BY <2>2, <2>3, <2>4
<1>3. View!Change
  BY <1>1, <1>2, Ranges DEF stages, View!Change, View!Changes
<1> QED BY <1>3 DEF View!Next

\* The provisioning of one VM, and what its owner is told of it, change.
LEMMA BecomesStep ==
  ASSUME NEW n \in VM, NEW a, NEW s, Seen(n)' = a, Stage(n)' = s,
         \A m \in VM \ {n} : Seen(m)' = Seen(m) /\ Stage(m)' = Stage(m)
  PROVE  View!Becomes(n, a, s)
BY DEF View!Becomes

LEMMA ProvisionView ==
  ASSUME LeaseInv, \A m \in VM : OpsWell(m)', NEW n \in VM, Provision(n)
  PROVE  View!Next \/ UNCHANGED <<answers, stages>>
<1> DEFINE x == <<"prov", n>>
<1> USE DEF Leased
<1>1. TypeOK /\ UnusedIdle /\ OpsWell(n) /\ OpsWell(n)' /\ x \in Proc \X VM
  BY Procs DEF LeaseInv
<1>2. UNCHANGED <<used, state, lease>>
  BY DEF Provision, CloneWorks, CloneFails, HandOver, Judge, Fail, mgr
<1>3. /\ Provisioning \subseteq Working
      /\ pc[x] \in Provisioning /\ n \in used
  BY <1>1, Procs
     DEF Provision, CloneWorks, CloneFails, HandOver, Judge, Fail, Working, Provisioning,
         UnusedIdle
<1>4. op[n] \in {"cloning", "booting"} \/ (op[n] = "none" /\ ~Leased(n))
  BY <1>1, <1>3 DEF OpsWell
<1>5. \A m \in VM \ {n} : op'[m] = op[m] /\ pc'[<<"prov", m>>] = pc[<<"prov", m>>]
  BY <1>1, Moved
     DEF Provision, CloneWorks, CloneFails, HandOver, Judge, Fail, TypeOK, mgr, Goto
<1>6. \A m \in VM \ {n} : Seen(m)' = Seen(m) /\ Stage(m)' = Stage(m)
  BY <1>2, <1>5 DEF Seen, Stage, Up
<1>7. ASSUME NEW l, Goto(x, l)
      PROVE  Stage(n) = "pending" /\ Stage(n)' = IF l \in Working THEN "pending" ELSE "over"
  BY <1>1, <1>2, <1>3, <1>7 DEF Stage, Goto, TypeOK
<1>8. /\ {"cloned", "boot", "fail"} \subseteq Working
      /\ {"idle", "wait"} \cap Working = {}
  BY DEF Working, Provisioning
<1>9. ASSUME op'[n] = op[n] PROVE Seen(n)' = Seen(n)
  BY <1>2, <1>9 DEF Seen, Up
<1>10. ASSUME Seen(n)' = Seen(n), Stage(n)' = Stage(n)
       PROVE  UNCHANGED <<answers, stages>>
  BY <1>6, <1>10 DEF answers, stages
<1>11. ASSUME Seen(n)' = Seen(n), Seen(n) \in {"up", "none"}, Stage(n) = "pending",
              Stage(n)' = "over"
       PROVE  View!Next
  <2>1. View!Becomes(n, Seen(n), "over")
    BY <1>6, <1>11, BecomesStep
  <2>2. View!Succeeds(n)
    BY <1>11, <2>1 DEF View!Succeeds
  <2> QED BY <2>2 DEF View!Next
<1>12. CASE CloneWorks(n) \/ CloneFails(n)
  BY <1>7, <1>8, <1>9, <1>10, <1>12 DEF CloneWorks, CloneFails, mgr
<1>13. CASE HandOver(n)
  <2>1. Stage(n) = "pending" /\ Stage(n)' = "pending"
    BY <1>7, <1>8, <1>13 DEF HandOver
  <2>2. CASE op'[n] = op[n]
    BY <1>9, <1>10, <2>1, <2>2
  <2>3. CASE op'[n] # op[n]
    <3>1. op[n] = "cloning" /\ op'[n] = "booting"
      BY <1>1, <1>4, <1>13, <2>3 DEF HandOver, TypeOK
    <3>2. Seen(n) = "cloning" /\ Seen(n)' = "up"
      BY <1>1, <1>2, <3>1 DEF Seen, OpsWell
    <3>3. View!Becomes(n, "up", "pending")
      BY <1>6, <2>1, <3>2, BecomesStep
    <3>4. View!Cloned(n)
      BY <3>2, <3>3 DEF View!Cloned
    <3> QED BY <3>4 DEF View!Next
  <2> QED BY <2>2, <2>3
<1>14. CASE Judge(n) /\ state[n] # "running"
  BY <1>7, <1>8, <1>9, <1>10, <1>14 DEF Judge
<1>15. CASE Judge(n) /\ state[n] = "running"
  <2>1. Stage(n) = "pending" /\ Stage(n)' = "over"
    BY <1>7, <1>8, <1>15 DEF Judge
  <2>2. op[n] # "cloning"
    BY <1>1, <1>15 DEF OpsWell
  <2>3. op'[n] = IF op[n] = "none" THEN "none" ELSE "done"
    BY <1>1, <1>15 DEF Judge, TypeOK
  <2>4. Seen(n) \in {"up", "none"} /\ Seen(n)' = Seen(n)
    BY <1>2, <1>4, <1>15, <2>2, <2>3 DEF Seen, Up
  <2> QED BY <1>11, <2>1, <2>4
<1>16. CASE Fail(n)
  <2>1. Stage(n) = "pending" /\ Stage(n)' = "over"
    BY <1>7, <1>8, <1>16 DEF Fail
  <2>2. Seen(n)' = "failed"
    BY <1>1, <1>16 DEF Fail, Seen, TypeOK
  <2>3. View!Becomes(n, "failed", "over")
    BY <1>6, <2>1, <2>2, BecomesStep
  <2>4. View!Fails(n)
    BY <2>1, <2>3 DEF View!Fails
  <2> QED BY <2>4 DEF View!Next
<1> QED BY <1>12, <1>13, <1>14, <1>15, <1>16 DEF Provision

LEMMA NextView == LeaseInv /\ [Next]_vars => View!Next \/ UNCHANGED <<answers, stages>>
<1> SUFFICES ASSUME LeaseInv, [Next]_vars
             PROVE  View!Next \/ UNCHANGED <<answers, stages>>
  OBVIOUS
<1> USE DEF Leased
<1>1. /\ TypeOK /\ UnusedIdle /\ \A n \in VM : OpsWell(n) /\ OpsWell(n)'
      /\ \A n \in VM : state[n] = "absent" => op[n] # "cloning"
  BY NextOps DEF LeaseInv, OpsWell
<1>2. ASSUME NEW n \in VM, Create(n) PROVE View!Next
  <2>1. /\ n \notin used /\ used' = used \cup {n} /\ Goto(<<"prov", n>>, "clone")
        /\ <<"prov", n>> \in Proc \X VM
    BY <1>2, Procs DEF Create
  <2>2. \A m \in VM \ {n} : pc'[<<"prov", m>>] = pc[<<"prov", m>>]
    BY <1>1, <2>1, Moved, Procs
  <2>3. pc'[<<"prov", n>>] \in Working
    BY <1>1, <2>1, Moved, Procs DEF Working, Provisioning
  <2>4. /\ Seen(n)' = "cloning" /\ Stage(n) = "unasked" /\ Stage(n)' = "pending"
        /\ \A m \in VM \ {n} : Seen(m)' = Seen(m) /\ Stage(m)' = Stage(m)
    BY <1>1, <1>2, <2>1, <2>2, <2>3 DEF Create, Seen, Stage, Up, TypeOK
  <2>5. View!Ask(n)
    BY <2>4, BecomesStep DEF View!Ask
  <2> QED BY <2>5 DEF View!Next
\* Whatever changes only the records is told as it is.
<1>3. ASSUME UNCHANGED <<used, op, pc>>, \A n \in VM : Leased(n)' => Leased(n)
      PROVE  View!Next
  BY <1>1, <1>3, ChangeStep
<1>4. ASSUME NEW x \in Proc \X VM, Operate(x) \/ RunClaim(x) \/ RunRefused(x) \/ StopClaim(x)
      PROVE  View!Next
  <2>1. UNCHANGED <<used, lease, op>>
    BY <1>4 DEF Operate, RunLaunch, RunUp, RunFails, RunAbort, StopWorks, StopFails, Finish,
                RunClaim, RunRefused, StopClaim, Claim, mgr
  <2> QED BY <1>1, <1>4, <2>1, StageKept, ChangeStep
<1>5. ASSUME NEW x \in Proc \X VM, Destroy(x) PROVE View!Next
  <2>1. used' = used
    BY <1>5 DEF Destroy, WaitEnds, Check, StopRefused, DeleteWorks, DeleteFails,
                DeleterLists, DeleterApplies, Forget, mgr
  <2>2. \A n \in VM : lease'[n] \in {lease[n], "none"}
    <3>1. CASE DeleterApplies(x)
      <4>1. seen[x] \in Lists /\ Apply(seen[x])
        BY <1>1, <3>1 DEF DeleterApplies, TypeOK
      <4> QED BY <4>1, OpsListed
    <3>2. CASE ~DeleterApplies(x)
      BY <1>5, <3>2 DEF Destroy, WaitEnds, Check, StopRefused, DeleteWorks, DeleteFails,
                        DeleterLists, Forget, mgr
    <3> QED BY <3>1, <3>2
  <2>3. \A n \in VM : op'[n] = op[n] \/ (op'[n] = "none" /\ state[n] = "absent")
    BY <1>1, <1>5, Pairs
       DEF Destroy, WaitEnds, Check, StopRefused, DeleteWorks, DeleteFails,
           DeleterLists, DeleterApplies, Forget, mgr, TypeOK
  <2> QED BY <1>1, <1>5, <2>1, <2>2, <2>3, StageKept, ChangeStep
<1>6. ASSUME NEW x \in Proc \X VM, Proceed(x)
      PROVE  View!Next \/ UNCHANGED <<answers, stages>>
  BY <1>1, <1>4, <1>5, <1>6, Pairs, ProvisionView DEF Proceed
<1>7. ASSUME NEW n \in VM, CallerDestroys(n) \/ UserDeletes(n) PROVE View!Next
  <2>1. UNCHANGED <<used, lease, op>>
    BY <1>7 DEF CallerDestroys, UserDeletes, mgr
  <2>2. \A m \in VM : pc'[<<"prov", m>>] = pc[<<"prov", m>>]
    BY <1>1, <1>7, Moved, Procs DEF CallerDestroys, UserDeletes
  <2> QED BY <1>1, <2>1, <2>2, ChangeStep
<1>8. ASSUME NEW n \in VM, VMStep(n) PROVE View!Next
  <2>1. CASE UserActs(n)
    BY <1>4, <1>7, <2>1 DEF UserActs
  <2>2. CASE Extend(n) \/ LeaseAges(n)
    <3>1. UNCHANGED <<used, op, pc>> /\ \A m \in VM : Leased(m)' <=> Leased(m)
      BY <1>1, <2>2 DEF Extend, LeaseAges, TypeOK, threads
    <3> QED BY <1>3, <3>1
  <2>3. CASE GuestPowersOff(n) \/ OrphanEnds(n)
    BY <1>3, <2>3 DEF GuestPowersOff, OrphanEnds, mgr, threads
  <2> QED BY <1>2, <1>7, <1>8, <2>1, <2>2, <2>3 DEF VMStep
<1>9. CASE ReapLeases
  <2>1. UNCHANGED <<used, lease>>
    BY <1>9 DEF ReapLeases
  <2>2. \A n \in VM : op'[n] = op[n] \/ (op'[n] = "none" /\ op[n] \in {"failed", "ghost"})
    BY <1>9 DEF ReapLeases
  <2>3. \A n \in VM : pc'[<<"prov", n>>] = pc[<<"prov", n>>]
    BY <1>9, Procs DEF ReapLeases
  <2> QED BY <1>1, <2>1, <2>2, <2>3, ChangeStep
<1>10. CASE MonitorApplies
  <2>1. list \in Lists /\ Apply(list) /\ UNCHANGED <<used, op, pc>>
    BY <1>1, <1>10 DEF MonitorApplies, TypeOK
  <2>2. \A n \in VM : lease'[n] \in {lease[n], "none"}
    BY <2>1, OpsListed
  <2> QED BY <1>3, <2>1, <2>2
<1>11. CASE Restart
  <2>1. /\ used' = used
        /\ \A n \in VM : /\ op'[n] = "none" /\ lease'[n] \in {lease[n], "none"}
                         /\ pc'[<<"prov", n>>] = "idle"
    BY <1>11, Procs DEF Restart
  <2>2. ASSUME NEW n \in VM
        PROVE  IF Seen(n) = "none" THEN Seen(n)' = "none"
               ELSE Seen(n)' \in {"up", "stopped", "none"}
    BY <2>1 DEF Seen
  <2>3. \A n \in VM : Stage(n)' = IF Stage(n) = "unasked" THEN "unasked" ELSE "over"
    BY <2>1 DEF Stage, Working, Provisioning
  <2>4. View!Restart
    BY <2>2, <2>3, Ranges DEF View!Restart
  <2> QED BY <2>4 DEF View!Next
<1>12. CASE MonitorLists \/ OthersChange
  BY <1>3, <1>12 DEF MonitorLists, OthersChange, mgr, threads
<1>13. CASE UNCHANGED vars
  BY <1>13 DEF vars, mgr, threads, answers, stages, Seen, Stage, Up
<1> QED BY <1>6, <1>8, <1>9, <1>10, <1>11, <1>12, <1>13 DEF Next

\* What agentViewOf tells of an agent's VM moves as AgentVM says, whatever
\* goroutines, users, callers and restarts do: cloning until the clone ends, not
\* stopped while it is provisioned, failed only at the end of that, and gone for
\* good once it is over.
THEOREM LeasesImplementAgentVM == Spec => ViewSpec
<1>1. Init => View!Init
  <2> SUFFICES ASSUME Init PROVE View!Init
    OBVIOUS
  <2>1. \A n \in VM : Seen(n) = "none" /\ Stage(n) = "unasked"
    BY DEF Init, Seen, Leased, Stage
  <2> QED BY <2>1 DEF View!Init
<1>2. LeaseInv /\ [Next]_vars =>
        [View!Next]_<<[n \in VM |-> Seen(n)], [n \in VM |-> Stage(n)]>>
  BY NextView DEF answers, stages
<1> QED BY <1>1, <1>2, LeaseInvAlways, PTL DEF Spec, ViewSpec, View!Spec

\* A VM that is told gone when its provisioning is over never appears again: its name
\* is given out once, and nothing is left that could report of it.
THEOREM GivenUpStays == Spec => GivenUpForGood
<1>1. ASSUME LeaseInv, [Next]_vars, NEW n \in VM, GivenUp(n) PROVE GivenUp(n)'
  <2>1. Seen(n) = "none" /\ Stage(n) = "over"
    BY <1>1 DEF GivenUp
  <2>2. CASE UNCHANGED <<answers, stages>>
    <3>1. answers'[n] = answers[n] /\ stages'[n] = stages[n]
      BY <2>2
    <3> QED BY <2>1, <3>1 DEF answers, stages, GivenUp
  <2>3. ASSUME NEW m \in VM, View!Ask(m) \/ View!Cloned(m) \/ View!Succeeds(m) \/ View!Fails(m)
        PROVE  GivenUp(n)'
    <3>1. \/ Stage(m) \in {"unasked", "pending"}
          \/ Seen(m) = "cloning"
      BY <2>3 DEF View!Ask, View!Cloned, View!Succeeds, View!Fails
    <3>2. m # n
      BY <2>1, <3>1
    <3>3. PICK a, s : View!Becomes(m, a, s)
      BY <2>3 DEF View!Ask, View!Cloned, View!Succeeds, View!Fails
    <3>4. Seen(n)' = Seen(n) /\ Stage(n)' = Stage(n)
      BY <3>2, <3>3 DEF View!Becomes
    <3> QED BY <2>1, <3>4 DEF GivenUp
  <2>4. CASE View!Change
    BY <2>1, <2>4 DEF View!Change, View!Changes, GivenUp
  <2>5. CASE View!Restart
    BY <2>1, <2>5 DEF View!Restart, GivenUp
  <2> QED BY <1>1, <2>2, <2>3, <2>4, <2>5, NextView DEF View!Next
<1>2. LeaseInv /\ [Next]_vars => [\A n \in VM : GivenUp(n) => GivenUp(n)']_vars
  BY <1>1
<1> QED BY <1>2, LeaseInvAlways, PTL DEF Spec, GivenUpForGood
=============================================================================
