-------------------------- MODULE LifecycleProofs --------------------------
(***************************************************************************)
(* Theorems about Lifecycle for every set of VMs and goroutines, every     *)
(* family structure and every ceiling.                                     *)
(***************************************************************************)
EXTENDS Lifecycle, FiniteSetTheorems, TLAPS

-----------------------------------------------------------------------------
(* Type correctness *)

LEMMA States ==
  /\ TartState \subseteq VMState
  /\ {"absent", "unset", "stopped", "starting", "running", "stopping", "suspended"}
       \subseteq VMState
BY DEF VMState, TartState

LEMMA Labels ==
  /\ {"idle", "list", "apply"} \cap TargetPC = {}
  /\ TargetPC \cup {"idle", "list", "apply"} = PC
  /\ HolderPC \subseteq TargetPC
BY DEF PC, TargetPC, HolderPC, RunPC, StopPC, SuspendPC

LEMMA FreshType ==
  ASSUME NEW s \in VMState PROVE Fresh(s) \in Record
BY DEF Fresh, Record

\* A record whose State or timer changes is a record.
LEMMA StateType ==
  ASSUME NEW r \in Record, NEW s \in VMState
  PROVE  /\ [r EXCEPT !.state = s] \in Record
         /\ [r EXCEPT !.state = s, !.armed = FALSE] \in Record
BY DEF Record

LEMMA MapType ==
  ASSUME TypeOK, NEW n, NEW s \in VMState
  PROVE  /\ [rec EXCEPT ![n].state = s] \in [VM -> Record]
         /\ [rec EXCEPT ![n].state = s, ![n].armed = FALSE] \in [VM -> Record]
<1> DEFINE set == [rec EXCEPT ![n].state = s]
<1>1. set \in [VM -> Record]
  BY DEF TypeOK, Record
<1>2. [set EXCEPT ![n].armed = FALSE] \in [VM -> Record]
  <2> HIDE DEF set
  <2> QED BY <1>1 DEF Record
<1> QED BY <1>1, <1>2

\* A reconciled record is a record.
LEMMA ReconciledType ==
  ASSUME TypeOK, NEW n \in VM, NEW s \in TartState
  PROVE  Reconciled(n, s) \in Record
<1>1. rec[n] \in Record /\ s \in VMState
  BY States DEF TypeOK
<1>2. Fresh("absent") \in Record /\ Fresh("unset") \in Record
  BY FreshType, States
<1>3. [state |-> s, suspendable |-> s = "suspended" /\ rec[n].suspendable,
       armed |-> FALSE] \in Record
  BY <1>1 DEF Record
<1>4. Observed(n, s) \in Record
  BY <1>1, <1>2, <1>3, StateType DEF Observed
<1> QED BY <1>1, <1>2, <1>4 DEF Reconciled

LEMMA ClaimType ==
  ASSUME TypeOK, NEW t \in Thread, NEW n \in VM, NEW l \in PC,
         NEW s \in VMState, Claim(t, n, l, s)
  PROVE  /\ rec' \in [VM -> Record]
         /\ busy' \in SUBSET VM /\ overdue' \in SUBSET VM
         /\ pc' \in [Thread -> PC] /\ on' \in [Thread -> VM \cup {NoVM}]
         /\ Targets'
         /\ held' \in [Thread -> BOOLEAN]
<1>1. rec' \in [VM -> Record]
  BY MapType DEF Claim
<1> QED BY <1>1 DEF TypeOK, Claim, Targets

LEMMA FinishType ==
  ASSUME TypeOK, NEW t \in Thread, Finish(t)
  PROVE  /\ busy' \in SUBSET VM /\ overdue' \in SUBSET VM
         /\ pc' \in [Thread -> PC] /\ on' \in [Thread -> VM \cup {NoVM}]
         /\ Targets'
         /\ susp' \in [Thread -> BOOLEAN] /\ held' \in [Thread -> BOOLEAN]
         /\ view' \in [Thread -> [VM -> TartState]]
BY DEF TypeOK, Finish, Targets, PC, TargetPC, HolderPC, RunPC, StopPC, SuspendPC

\* Writing a record through the pointer keeps the map of records well typed.
LEMMA WriteType ==
  ASSUME TypeOK, NEW t \in Thread, NEW r, on[t] \in VM => r \in Record, Write(t, r)
  PROVE  rec' \in [VM -> Record]
BY DEF TypeOK, Write

LEMMA GotoType ==
  ASSUME TypeOK, NEW t \in Thread, NEW l \in PC, Goto(t, l),
         on' = on \/ on' = [on EXCEPT ![t] = NoVM],
         l \in TargetPC => pc[t] \in TargetPC /\ on' = on
  PROVE  /\ pc' \in [Thread -> PC] /\ on' \in [Thread -> VM \cup {NoVM}]
         /\ Targets'
BY DEF TypeOK, Goto, Targets

LEMMA TartStopType ==
  ASSUME TypeOK, NEW n, TartStop(n) \/ Kill(n)
  PROVE  /\ tart' \in [VM -> TartState] /\ live' \in [VM -> BOOLEAN]
         /\ procs' \in SUBSET VM
BY DEF TypeOK, TartStop, Kill, Goes, TartState, env

LEMMA RunType ==
  ASSUME TypeOK, NEW t \in Thread, RunStep(t)
  PROVE  TypeOK'
<1>1. CASE RunFails(t)
  <2>1. rec' \in [VM -> Record]
    <3>1. CASE rec[on[t]].state = "absent"
      BY <1>1, <3>1, States, MapType DEF RunFails
    <3>2. CASE rec[on[t]].state # "absent"
      BY <1>1, <3>2, States, MapType DEF RunFails
    <3> QED BY <3>1, <3>2
  <2> QED BY <1>1, <2>1, FinishType DEF RunFails, TypeOK, Targets, env
<1>2. CASE RunLaunch(t)
  <2>1. tart' \in [VM -> TartState] /\ live' \in [VM -> BOOLEAN] /\ procs' \in SUBSET VM
    <3>1. susp[t] \in BOOLEAN /\ on[t] \in VM
      BY <1>2 DEF TypeOK, Targets, RunLaunch, TargetPC, HolderPC, RunPC
    <3> QED BY <1>2, <3>1 DEF TypeOK, RunLaunch, Goes, TartState
  <2>2. pc' \in [Thread -> PC] /\ Targets'
    BY <1>2, GotoType DEF RunLaunch, PC, TargetPC, HolderPC, RunPC
  <2> QED BY <1>2, <2>1, <2>2 DEF RunLaunch, TypeOK, Targets, mgr
<1>3. CASE RunUp(t)
  <2>1. [state |-> "running", suspendable |-> susp[t], armed |-> TRUE] \in Record
    BY States DEF TypeOK, Record
  <2>2. rec' \in [VM -> Record]
    BY <1>3, <2>1, WriteType DEF RunUp
  <2> QED BY <1>3, <2>2, FinishType DEF RunUp, TypeOK, Targets, env
<1>4. CASE RunGiveUp(t)
  <2>1. pc' \in [Thread -> PC] /\ Targets'
    BY <1>4, GotoType DEF RunGiveUp, PC, TargetPC, HolderPC, RunPC
  <2> QED BY <1>4, <2>1, TartStopType DEF RunGiveUp, TypeOK, Targets, mgr
<1>5. CASE RunAbort(t)
  <2>1. rec' \in [VM -> Record]
    BY <1>5, WriteType, StateType, States DEF RunAbort, TypeOK
  <2>2. /\ tart' \in [VM -> TartState] /\ live' \in [VM -> BOOLEAN]
        /\ procs' \in SUBSET VM
    BY <1>5, TartStopType DEF RunAbort, TypeOK, env
  <2> QED BY <1>5, <2>1, <2>2, FinishType DEF RunAbort, TypeOK, Targets
<1> QED BY <1>1, <1>2, <1>3, <1>4, <1>5 DEF RunStep

LEMMA StopType ==
  ASSUME TypeOK, NEW t \in Thread, StopStep(t)
  PROVE  TypeOK'
<1>1. CASE StopAsk(t)
  <2>1. pc' \in [Thread -> PC] /\ Targets'
    BY <1>1, GotoType DEF StopAsk, PC, TargetPC, HolderPC, StopPC
  <2>2. /\ tart' \in [VM -> TartState] /\ live' \in [VM -> BOOLEAN]
        /\ procs' \in SUBSET VM
    BY <1>1 DEF TypeOK, StopAsk, Goes, TartState, env
  <2> QED BY <1>1, <2>1, <2>2 DEF StopAsk, TypeOK, Targets, mgr
<1>2. CASE StopTart(t)
  <2>1. pc' \in [Thread -> PC] /\ Targets'
    BY <1>2, GotoType DEF StopTart, PC, TargetPC, HolderPC, StopPC
  <2> QED BY <1>2, <2>1, TartStopType DEF StopTart, TypeOK, Targets, mgr
<1>3. CASE StopKill(t)
  <2>1. pc' \in [Thread -> PC] /\ Targets'
    BY <1>3, GotoType DEF StopKill, PC, TargetPC, HolderPC, StopPC
  <2> QED BY <1>3, <2>1, TartStopType DEF StopKill, TypeOK, Targets, mgr
<1>4. CASE StopDone(t)
  <2>1. rec' \in [VM -> Record]
    BY <1>4, WriteType, StateType, States DEF StopDone, TypeOK
  <2> QED BY <1>4, <2>1, FinishType DEF StopDone, TypeOK, Targets, env
<1> QED BY <1>1, <1>2, <1>3, <1>4 DEF StopStep

LEMMA SuspendType ==
  ASSUME TypeOK, NEW t \in Thread, SuspendStep(t)
  PROVE  TypeOK'
<1>1. CASE SuspendFails(t)
  <2>1. rec' \in [VM -> Record]
    BY <1>1, WriteType, StateType, States DEF SuspendFails, TypeOK
  <2>2. /\ tart' \in [VM -> TartState] /\ live' \in [VM -> BOOLEAN]
        /\ procs' \in SUBSET VM
    BY <1>1 DEF TypeOK, SuspendFails, Goes, TartState, env
  <2> QED BY <1>1, <2>1, <2>2, FinishType DEF SuspendFails, TypeOK, Targets
<1>2. CASE SuspendTart(t)
  <2>1. pc' \in [Thread -> PC] /\ Targets'
    BY <1>2, GotoType DEF SuspendTart, PC, TargetPC, HolderPC, SuspendPC
  <2>2. /\ tart' \in [VM -> TartState] /\ live' \in [VM -> BOOLEAN]
        /\ procs' \in SUBSET VM
    BY <1>2 DEF TypeOK, SuspendTart, Goes, TartState, env
  <2> QED BY <1>2, <2>1, <2>2 DEF SuspendTart, TypeOK, Targets, mgr
<1>3. CASE SuspendDone(t)
  <2>1. rec' \in [VM -> Record]
    BY <1>3, MapType, States DEF SuspendDone, TypeOK
  <2> QED BY <1>3, <2>1, FinishType DEF SuspendDone, TypeOK, Targets, env
<1> QED BY <1>1, <1>2, <1>3 DEF SuspendStep

LEMMA BeginType ==
  ASSUME TypeOK, NEW t \in Thread, NEW n \in VM, Begin(t, n)
  PROVE  TypeOK'
<1>1. CASE RunClaim(t, n)
  <2>1. "launch" \in PC /\ "starting" \in VMState
    BY DEF PC, TargetPC, HolderPC, RunPC, VMState
  <2>2. susp' \in [Thread -> BOOLEAN]
    BY <1>1 DEF RunClaim, TypeOK
  <2> QED BY <1>1, <2>1, <2>2, ClaimType DEF RunClaim, TypeOK, Targets, env
<1>2. CASE StopClaim(t, n)
  <2>1. "ask" \in PC /\ "stopping" \in VMState
    BY DEF PC, TargetPC, HolderPC, StopPC, VMState
  <2> QED BY <1>2, <2>1, ClaimType DEF StopClaim, TypeOK, Targets, env
<1>3. CASE SuspendClaim(t, n)
  <2>1. "suspend" \in PC /\ "stopping" \in VMState
    BY DEF PC, TargetPC, HolderPC, SuspendPC, VMState
  <2> QED BY <1>3, <2>1, ClaimType DEF SuspendClaim, TypeOK, Targets, env
<1> QED BY <1>1, <1>2, <1>3 DEF Begin

LEMMA DeleteType ==
  ASSUME TypeOK, NEW t \in Thread, DeleteStep(t)
  PROVE  TypeOK'
<1>1. ASSUME NEW n \in VM, DeleteCheck(t, n) PROVE TypeOK'
  <2>1. pc' \in [Thread -> PC]
    BY <1>1 DEF DeleteCheck, Goto, TypeOK, PC, TargetPC
  <2>2. on' \in [Thread -> VM \cup {NoVM}] /\ Targets'
    BY <1>1 DEF DeleteCheck, Goto, TypeOK, Targets
  <2> QED BY <1>1, <2>1, <2>2 DEF DeleteCheck, TypeOK, Targets, mgr, env
<1>2. CASE DeleteTart(t)
  <2>1. /\ pc' \in [Thread -> PC] /\ on' \in [Thread -> VM \cup {NoVM}]
        /\ Targets'
    BY <1>2 DEF DeleteTart, Goto, TypeOK, Targets, PC, TargetPC, HolderPC, RunPC, StopPC, SuspendPC
  <2>2. /\ tart' \in [VM -> TartState] /\ live' \in [VM -> BOOLEAN]
        /\ procs' \in SUBSET VM
    BY <1>2 DEF TypeOK, DeleteTart, Goes, TartState, env
  <2> QED BY <1>2, <2>1, <2>2 DEF DeleteTart, TypeOK, Targets, mgr
<1> QED BY <1>1, <1>2 DEF DeleteStep

LEMMA ReconType ==
  ASSUME TypeOK, NEW t \in Thread, ReconStep(t)
  PROVE  TypeOK'
<1>1. CASE Heal(t)
  <2>1. pc' \in [Thread -> PC] /\ Targets'
    BY <1>1, GotoType, Labels DEF Heal
  <2> QED BY <1>1, <2>1 DEF Heal, TypeOK, Targets, env
<1>2. CASE ReconList(t)
  <2>1. pc' \in [Thread -> PC] /\ Targets'
    BY <1>2, GotoType, Labels DEF ReconList
  <2> QED BY <1>2, <2>1 DEF ReconList, TypeOK, Targets, mgr, env
<1>3. CASE ReconListFails(t)
  <2>1. pc' \in [Thread -> PC] /\ Targets'
    BY <1>3, GotoType, Labels DEF ReconListFails
  <2> QED BY <1>3, <2>1 DEF ReconListFails, TypeOK, Targets, mgr, env
<1>4. CASE ReconApply(t)
  <2>1. pc' \in [Thread -> PC] /\ Targets'
    BY <1>4, GotoType, Labels DEF ReconApply
  <2>2. rec' \in [VM -> Record]
    BY <1>4, ReconciledType DEF ReconApply, TypeOK
  <2>3. held' \in [Thread -> BOOLEAN]
    BY <1>4 DEF ReconApply, TypeOK
  <2>4. view' \in [Thread -> [VM -> TartState]]
    BY <1>4 DEF ReconApply, TypeOK, NoView, TartState
  <2> QED BY <1>4, <2>1, <2>2, <2>3, <2>4 DEF ReconApply, TypeOK, Targets, env
<1> QED BY <1>1, <1>2, <1>3, <1>4 DEF ReconStep

LEMMA VMStepType ==
  ASSUME TypeOK, NEW n \in VM, VMStep(n)
  PROVE  TypeOK'
<1>1. CASE RunRefused(n)
  BY <1>1, FreshType, States DEF RunRefused, TypeOK, Targets, thr, env
<1>2. CASE RunDeferred(n)
  <2>1. rec' \in [VM -> Record]
    BY <1>2, MapType, States DEF RunDeferred
  <2> QED BY <1>2, <2>1 DEF RunDeferred, TypeOK, Targets, thr, env
<1>3. CASE Ages(n)
  BY <1>3 DEF Ages, TypeOK, Targets, thr, env
<1>4. CASE GuestPowersOff(n)
  BY <1>4 DEF GuestPowersOff, Goes, TypeOK, Targets, TartState, mgr, thr
<1>5. CASE TartCreates(n)
  BY <1>5 DEF TartCreates, Goes, TypeOK, Targets, TartState, mgr, thr
<1> QED BY <1>1, <1>2, <1>3, <1>4, <1>5 DEF VMStep

LEMMA NextType == TypeOK /\ [Next]_vars => TypeOK'
<1> SUFFICES ASSUME TypeOK, [Next]_vars PROVE TypeOK'
  OBVIOUS
<1>1. ASSUME NEW t \in Thread, ThreadStep(t) PROVE TypeOK'
  BY <1>1, RunType, StopType, SuspendType, BeginType, DeleteType, ReconType
     DEF ThreadStep
<1>2. CASE UNCHANGED vars
  BY <1>2 DEF vars, mgr, thr, env, TypeOK, Targets
<1> QED BY <1>1, <1>2, VMStepType DEF Next

\* Every record, flag, program counter and list has its type, whatever the
\* goroutines do.
THEOREM TypeCorrect == Spec => []TypeOK
<1>1. Init => TypeOK
  BY FreshType, States, Labels DEF Init, TypeOK, Targets, NoView, TartState
<1> QED BY <1>1, NextType, PTL DEF Spec

-----------------------------------------------------------------------------
(* One operation per VM *)

Parts == OwnersWrite /\ OwnersDiffer /\ FlagsOwned /\ OthersSettled

\* A step that keeps who owns what, and changes the state of VMs that nobody
\* owns only from settled to settled, keeps the invariant.
LEMMA SameOwners ==
  ASSUME OpInv, Holders' = Holders, busy' = busy,
         \A s \in Holders : /\ on'[s] = on[s] /\ held'[s] = held[s]
                            /\ ShownBy(pc'[s]) = ShownBy(pc[s]),
         \A n \in VM : \/ rec'[n].state = rec[n].state
                       \/ /\ n \notin busy
                          /\ rec'[n].state \notin {"starting", "stopping"}
  PROVE  Parts'
<1>1. \A s \in Holders : on[s] \in VM
  BY Labels DEF OpInv, TypeOK, Targets, Holders
<1>2. OwnersWrite'
  BY <1>1 DEF OpInv, OwnersWrite
<1>3. OwnersDiffer' /\ FlagsOwned'
  BY DEF OpInv, OwnersDiffer, FlagsOwned
<1>4. OthersSettled'
  BY DEF OpInv, OthersSettled
<1> QED BY <1>2, <1>3, <1>4 DEF Parts

\* A new operation takes a VM that has none.
LEMMA ClaimOwns ==
  ASSUME OpInv, NEW t \in Thread, NEW n \in VM, NEW l \in HolderPC,
         Claim(t, n, l, ShownBy(l))
  PROVE  Parts' /\ overdue' = {}
<1>1. /\ Holders' = Holders \cup {t}
      /\ t \notin Holders
      /\ on'[t] = n /\ held'[t] /\ pc'[t] = l
      /\ \A s \in Holders : on'[s] = on[s] /\ held'[s] = held[s] /\ pc'[s] = pc[s]
  <2>1. pc[t] \notin HolderPC
    BY Labels DEF Claim
  <2>2. /\ on'[t] = n /\ held'[t] /\ pc'[t] = l
        /\ \A s \in Thread \ {t} : on'[s] = on[s] /\ held'[s] = held[s] /\ pc'[s] = pc[s]
    BY DEF OpInv, TypeOK, Claim
  <2> QED BY <2>1, <2>2 DEF Holders
<1>2. /\ rec'[n].state = ShownBy(l)
      /\ \A m \in VM \ {n} : rec'[m] = rec[m]
  BY DEF OpInv, TypeOK, Claim, Record
<1>3. \A s \in Holders : on[s] \in VM /\ on[s] \in busy /\ on[s] # n
  BY Labels DEF OpInv, TypeOK, Targets, OwnersWrite, Holders, Claim, Free
<1>4. OwnersWrite'
  BY <1>1, <1>2, <1>3 DEF OpInv, OwnersWrite, Claim
<1>5. OwnersDiffer'
  BY <1>1, <1>3 DEF OpInv, OwnersDiffer
<1>6. FlagsOwned'
  BY <1>1 DEF OpInv, FlagsOwned, Claim
<1>7. OthersSettled'
  BY <1>2 DEF OpInv, OthersSettled, Claim
<1> QED BY <1>4, <1>5, <1>6, <1>7 DEF Parts, OpInv, Claim

\* An operation that ends leaves its VM settled and takes nothing else along.
LEMMA FinishOwns ==
  ASSUME OpInv, NEW t \in Thread, pc[t] \in HolderPC, Finish(t),
         rec'[on[t]].state \notin {"starting", "stopping"},
         \A m \in VM \ {on[t]} : rec'[m] = rec[m]
  PROVE  Parts' /\ overdue' = {}
<1>1. /\ Holders' = Holders \ {t}
      /\ t \in Holders
      /\ \A s \in Holders' : on'[s] = on[s] /\ held'[s] = held[s] /\ pc'[s] = pc[s]
  BY Labels DEF OpInv, TypeOK, Finish, Holders
<1>2. \A s \in Holders' : on[s] \in VM /\ on[s] \in busy /\ on[s] # on[t]
  BY <1>1, Labels DEF OpInv, TypeOK, Targets, OwnersWrite, OwnersDiffer, Holders
<1>3. OwnersWrite'
  BY <1>1, <1>2 DEF OpInv, OwnersWrite, Finish
<1>4. OwnersDiffer'
  BY <1>1 DEF OpInv, OwnersDiffer
<1>5. FlagsOwned'
  BY <1>1 DEF OpInv, FlagsOwned, Finish
<1>6. OthersSettled'
  BY DEF OpInv, OthersSettled, Finish
<1> QED BY <1>3, <1>4, <1>5, <1>6 DEF Parts, OpInv, Finish

\* A step inside an operation, from one label to another of its kind.
LEMMA MoveOwns ==
  ASSUME OpInv, NEW t \in Thread, NEW l, Goto(t, l),
         pc[t] \in HolderPC, l \in HolderPC, ShownBy(l) = ShownBy(pc[t]),
         UNCHANGED <<rec, busy, on, held>>
  PROVE  Parts'
<1>1. Holders' = Holders /\ \A s \in Holders : ShownBy(pc'[s]) = ShownBy(pc[s])
  BY DEF OpInv, TypeOK, Goto, Holders
<1> QED BY <1>1, SameOwners

\* A step outside of operations.
LEMMA OutsideOwns ==
  ASSUME OpInv, NEW t \in Thread, NEW l, Goto(t, l),
         pc[t] \notin HolderPC, l \notin HolderPC,
         on' = on \/ \E n : on' = [on EXCEPT ![t] = n],
         UNCHANGED <<rec, busy, held>>
  PROVE  Parts'
<1>1. /\ Holders' = Holders
      /\ \A s \in Holders : on'[s] = on[s] /\ pc'[s] = pc[s]
  BY DEF OpInv, TypeOK, Goto, Holders
<1> QED BY <1>1, SameOwners

\* What an operation writes when it ends changes only its own VM.
LEMMA WriteOwn ==
  ASSUME OpInv, NEW t \in Holders, NEW r, r.state \notin {"starting", "stopping"},
         Write(t, r)
  PROVE  /\ rec'[on[t]].state \notin {"starting", "stopping"}
         /\ rec'[on[t]] = r
         /\ \A m \in VM \ {on[t]} : rec'[m] = rec[m]
BY Labels DEF OpInv, TypeOK, Targets, OwnersWrite, Holders, Write

LEMMA ReconciledSettled ==
  ASSUME OpInv, NEW n \in VM, NEW s \in TartState
  PROVE  \/ Reconciled(n, s) = rec[n]
         \/ /\ n \notin busy
            /\ Reconciled(n, s).state \notin {"starting", "stopping"}
<1>1. CASE n \in busy
  <2>1. Exists(n)
    BY <1>1 DEF OpInv, FlagsOwned, OwnersWrite, Exists, ShownBy
  <2> QED BY <1>1, <2>1 DEF Reconciled
<1>2. CASE n \notin busy
  <2>1. rec[n] \in Record
    BY DEF OpInv, TypeOK
  <2>2. Observed(n, s).state = s
    BY <2>1 DEF Observed, Fresh, Record
  <2> QED BY <1>2, <2>2 DEF Reconciled, TartState
<1> QED BY <1>1, <1>2

LEMMA BeginOwns ==
  ASSUME OpInv, NEW t \in Thread, NEW n \in VM, Begin(t, n)
  PROVE  Parts' /\ overdue' = {}
<1>1. CASE RunClaim(t, n)
  BY <1>1, ClaimOwns DEF RunClaim, ShownBy, HolderPC, RunPC
<1>2. CASE StopClaim(t, n)
  BY <1>2, ClaimOwns DEF StopClaim, ShownBy, HolderPC, RunPC, StopPC
<1>3. CASE SuspendClaim(t, n)
  BY <1>3, ClaimOwns DEF SuspendClaim, ShownBy, HolderPC, RunPC, SuspendPC
<1> QED BY <1>1, <1>2, <1>3 DEF Begin

LEMMA RunOwns ==
  ASSUME OpInv, NEW t \in Thread, RunStep(t)
  PROVE  Parts' /\ overdue' = {}
<1>1. t \in Holders /\ on[t] \in VM /\ rec[on[t]] \in Record
  BY DEF RunStep, RunFails, RunLaunch, RunUp, RunGiveUp, RunAbort, Holders,
         HolderPC, RunPC, OpInv, TypeOK, Targets, TargetPC
<1>2. CASE RunFails(t)
  <2>1. /\ rec'[on[t]].state \notin {"starting", "stopping"}
        /\ \A m \in VM \ {on[t]} : rec'[m] = rec[m]
    BY <1>1, <1>2 DEF RunFails, OpInv, TypeOK, Record
  <2> QED BY <1>1, <1>2, <2>1, FinishOwns DEF RunFails, Holders
<1>3. CASE RunLaunch(t)
  BY <1>3, MoveOwns DEF RunLaunch, HolderPC, RunPC, ShownBy, mgr, OpInv
<1>4. CASE RunUp(t)
  BY <1>1, <1>4, WriteOwn, FinishOwns DEF RunUp, Holders
<1>5. CASE RunGiveUp(t)
  BY <1>5, MoveOwns DEF RunGiveUp, HolderPC, RunPC, ShownBy, mgr, OpInv
<1>6. CASE RunAbort(t)
  <2>1. [rec[on[t]] EXCEPT !.state = "stopped", !.armed = FALSE].state = "stopped"
    BY <1>1 DEF Record
  <2> QED BY <1>1, <1>6, <2>1, WriteOwn, FinishOwns DEF RunAbort, Holders
<1> QED BY <1>2, <1>3, <1>4, <1>5, <1>6 DEF RunStep

LEMMA StopOwns ==
  ASSUME OpInv, NEW t \in Thread, StopStep(t)
  PROVE  Parts' /\ overdue' = {}
<1>1. t \in Holders /\ on[t] \in VM /\ rec[on[t]] \in Record
  BY DEF StopStep, StopAsk, StopTart, StopKill, StopDone, Holders,
         HolderPC, StopPC, OpInv, TypeOK, Targets, TargetPC
<1>2. CASE StopAsk(t)
  BY <1>2, MoveOwns DEF StopAsk, HolderPC, StopPC, RunPC, ShownBy, mgr, OpInv
<1>3. CASE StopTart(t)
  BY <1>3, MoveOwns DEF StopTart, HolderPC, StopPC, RunPC, ShownBy, mgr, OpInv
<1>4. CASE StopKill(t)
  BY <1>4, MoveOwns DEF StopKill, HolderPC, StopPC, RunPC, ShownBy, mgr, OpInv
<1>5. CASE StopDone(t)
  <2>1. [rec[on[t]] EXCEPT !.state = "stopped", !.armed = FALSE].state = "stopped"
    BY <1>1 DEF Record
  <2> QED BY <1>1, <1>5, <2>1, WriteOwn, FinishOwns DEF StopDone, Holders
<1> QED BY <1>2, <1>3, <1>4, <1>5 DEF StopStep

LEMMA SuspendOwns ==
  ASSUME OpInv, NEW t \in Thread, SuspendStep(t)
  PROVE  Parts' /\ overdue' = {}
<1>1. t \in Holders /\ on[t] \in VM /\ rec[on[t]] \in Record
  BY DEF SuspendStep, SuspendFails, SuspendTart, SuspendDone, Holders,
         HolderPC, SuspendPC, OpInv, TypeOK, Targets, TargetPC
<1>2. CASE SuspendFails(t)
  <2>1. [rec[on[t]] EXCEPT !.state = "running"].state = "running"
    BY <1>1 DEF Record
  <2> QED BY <1>1, <1>2, <2>1, WriteOwn, FinishOwns DEF SuspendFails, Holders
<1>3. CASE SuspendTart(t)
  BY <1>3, MoveOwns DEF SuspendTart, HolderPC, SuspendPC, RunPC, ShownBy, mgr, OpInv
<1>4. CASE SuspendDone(t)
  <2>1. Exists(on[t])
    BY <1>1 DEF OpInv, OwnersWrite, Exists, ShownBy
  <2>2. /\ rec'[on[t]].state = "suspended"
        /\ \A m \in VM \ {on[t]} : rec'[m] = rec[m]
    BY <1>1, <1>4, <2>1 DEF SuspendDone, OpInv, TypeOK, Record
  <2> QED BY <1>1, <1>4, <2>2, FinishOwns DEF SuspendDone, Holders
<1> QED BY <1>2, <1>3, <1>4 DEF SuspendStep

LEMMA DeleteOwns ==
  ASSUME OpInv, NEW t \in Thread, DeleteStep(t)
  PROVE  Parts' /\ overdue' = {}
<1>1. ASSUME NEW n \in VM, DeleteCheck(t, n) PROVE Parts' /\ overdue' = {}
  BY <1>1, OutsideOwns DEF DeleteCheck, HolderPC, RunPC, StopPC, SuspendPC, mgr, OpInv
<1>2. CASE DeleteTart(t)
  BY <1>2, OutsideOwns DEF DeleteTart, HolderPC, RunPC, StopPC, SuspendPC, mgr, OpInv
<1> QED BY <1>1, <1>2 DEF DeleteStep

LEMMA ReconOwns ==
  ASSUME OpInv, NEW t \in Thread, ReconStep(t)
  PROVE  Parts' /\ overdue' = {}
<1>1. CASE Heal(t)
  BY <1>1, OutsideOwns DEF Heal, HolderPC, RunPC, StopPC, SuspendPC, env, OpInv
<1>2. CASE ReconList(t)
  BY <1>2, OutsideOwns DEF ReconList, HolderPC, RunPC, StopPC, SuspendPC, mgr, OpInv
<1>3. CASE ReconListFails(t)
  BY <1>3, OutsideOwns DEF ReconListFails, HolderPC, RunPC, StopPC, SuspendPC, mgr, OpInv
<1>4. CASE ReconApply(t)
  <2>1. Holders' = Holders /\ \A s \in Holders : on'[s] = on[s] /\ pc'[s] = pc[s]
    BY <1>4, Labels DEF ReconApply, Goto, Holders, OpInv, TypeOK, HolderPC, RunPC, StopPC, SuspendPC
  <2>2. \A n \in VM : view[t][n] \in TartState
    BY DEF OpInv, TypeOK
  <2>3. \A n \in VM : \/ rec'[n] = rec[n]
                      \/ /\ n \notin busy
                         /\ rec'[n].state \notin {"starting", "stopping"}
    BY <1>4, <2>2, ReconciledSettled DEF ReconApply
  <2>4. \A s \in Holders : held'[s] = held[s]
    <3> SUFFICES ASSUME NEW s \in Holders PROVE held'[s] = held[s]
      OBVIOUS
    <3>1. /\ s \in Thread /\ on[s] \in VM /\ on[s] \in busy
          /\ rec[on[s]].state # "absent" /\ held[s]
      BY Labels DEF OpInv, TypeOK, Targets, OwnersWrite, Holders, ShownBy
    <3>2. rec'[on[s]] = rec[on[s]]
      BY <2>3, <3>1
    <3> QED BY <1>4, <3>1, <3>2 DEF ReconApply
  <2> QED BY <1>4, <2>1, <2>3, <2>4, SameOwners DEF ReconApply, OpInv
<1> QED BY <1>1, <1>2, <1>3, <1>4 DEF ReconStep

LEMMA VMStepOwns ==
  ASSUME OpInv, SlowOps = {}, NEW n \in VM, VMStep(n)
  PROVE  Parts' /\ overdue' = {}
<1>1. CASE RunRefused(n)
  <2>1. \A m \in VM : \/ rec'[m].state = rec[m].state
                      \/ m \notin busy /\ rec'[m].state = "unset"
    BY <1>1 DEF RunRefused, Free, Fresh, OpInv, TypeOK
  <2> QED BY <1>1, <2>1, SameOwners DEF RunRefused, thr, Holders, OpInv
<1>2. CASE RunDeferred(n)
  <2>1. \A m \in VM : \/ rec'[m].state = rec[m].state
                      \/ m \notin busy /\ rec'[m].state = "stopped"
    BY <1>2 DEF RunDeferred, Free, OpInv, TypeOK, Record
  <2> QED BY <1>2, <2>1, SameOwners DEF RunDeferred, thr, Holders, OpInv
<1>3. ~Ages(n)
  BY DEF Ages
<1>4. CASE GuestPowersOff(n) \/ TartCreates(n)
  BY <1>4, SameOwners DEF GuestPowersOff, TartCreates, thr, mgr, Holders, OpInv
<1> QED BY <1>1, <1>2, <1>3, <1>4 DEF VMStep

LEMMA NextOwns ==
  ASSUME SlowOps = {}
  PROVE  OpInv /\ [Next]_vars => OpInv'
<1> SUFFICES ASSUME OpInv, [Next]_vars PROVE OpInv'
  OBVIOUS
<1>1. TypeOK'
  BY NextType DEF OpInv
<1>2. Parts' /\ overdue' = {}
  <2>1. ASSUME NEW t \in Thread, ThreadStep(t) PROVE Parts' /\ overdue' = {}
    BY <2>1, BeginOwns, RunOwns, StopOwns, SuspendOwns, DeleteOwns, ReconOwns
       DEF ThreadStep
  <2>2. CASE UNCHANGED vars
    BY <2>2, SameOwners DEF vars, mgr, thr, Holders, OpInv
  <2> QED BY <2>1, <2>2, VMStepOwns DEF Next
<1> QED BY <1>1, <1>2 DEF OpInv, Parts

\* As long as no operation outlives maxOpAge, an operation in flight has its flag,
\* its record and the state it wrote, no two are on one VM, every flag has an
\* operation, and a VM without a flag is in a settled state: the inductive
\* invariant, of doRun, doStop, doSuspend and reconcile together.
THEOREM OpInvAlways ==
  ASSUME SlowOps = {}
  PROVE  Spec => []OpInv
<1>1. Init => OpInv
  <2> SUFFICES ASSUME Init PROVE OpInv
    OBVIOUS
  <2>1. TypeOK
    BY FreshType, States, Labels DEF Init, TypeOK, Targets, NoView, TartState
  <2>2. Holders = {}
    BY Labels DEF Init, Holders
  <2> QED BY <2>1, <2>2 DEF Init, OpInv, OwnersWrite, OwnersDiffer, FlagsOwned,
                            OthersSettled, Fresh
<1> QED BY <1>1, NextOwns, PTL DEF Spec

\* As long as no operation outlives maxOpAge, at most one operation is in flight
\* on each VM and the busy flags are exactly the VMs that have one, however many
\* goroutines run, stop, suspend, delete and reconcile.
THEOREM OneOperationPerVM ==
  ASSUME SlowOps = {}
  PROVE  Spec => []MutualExclusion
<1>1. OpInv => MutualExclusion
  BY DEF OpInv, OwnersWrite, OwnersDiffer, FlagsOwned, MutualExclusion
<1> QED BY <1>1, OpInvAlways, PTL

\* Under the same assumption, "starting" and "stopping" are shown only while the
\* operation that wrote them is in flight and owns the record.
THEOREM TransientStatesOwned ==
  ASSUME SlowOps = {}
  PROVE  Spec => []TransientOwned
<1>1. OpInv => TransientOwned
  <2> SUFFICES ASSUME OpInv, NEW n \in VM, rec[n].state \in {"starting", "stopping"}
               PROVE  \E t \in Holders :
                        /\ on[t] = n /\ held[t]
                        /\ rec[n].state = "starting" <=> pc[t] \in RunPC
    BY DEF TransientOwned
  <2>1. n \in busy
    BY DEF OpInv, OthersSettled
  <2>2. PICK t \in Holders : on[t] = n
    BY <2>1 DEF OpInv, FlagsOwned
  <2>3. held[t] /\ rec[n].state = ShownBy(pc[t])
    BY <2>2 DEF OpInv, OwnersWrite
  <2> QED BY <2>2, <2>3 DEF ShownBy
<1> QED BY <1>1, OpInvAlways, PTL

-----------------------------------------------------------------------------
(* Operations that outlive maxOpAge *)

LEMMA NextNoOrphan == TypeOK /\ NoOrphanBusy /\ [Next]_vars => NoOrphanBusy'
<1> SUFFICES ASSUME TypeOK, NoOrphanBusy, [Next]_vars PROVE NoOrphanBusy'
  OBVIOUS
<1> DEFINE Kept == /\ busy' \subseteq busy
                   /\ \A s \in Holders : s \in Holders' /\ on'[s] = on[s]
<1>1. Kept => NoOrphanBusy'
  BY DEF NoOrphanBusy
<1>2. ASSUME NEW t \in Thread, pc[t] \in HolderPC, Finish(t) PROVE NoOrphanBusy'
  BY <1>2 DEF Finish, NoOrphanBusy, Holders, TypeOK
<1>3. ASSUME NEW t \in Thread, NEW l, Goto(t, l), pc[t] \in HolderPC => l \in HolderPC,
             pc[t] \notin HolderPC \/ on' = on,
             on' = on \/ \E n : on' = [on EXCEPT ![t] = n],
             busy' \subseteq busy
      PROVE  NoOrphanBusy'
  <2>1. Kept
    BY <1>3 DEF Goto, Holders, TypeOK
  <2> QED BY <1>1, <2>1
<1>4. ASSUME NEW t \in Thread, NEW n \in VM, Begin(t, n) PROVE NoOrphanBusy'
  <2>1. PICK l \in HolderPC, s \in {"starting", "stopping"} : Claim(t, n, l, s)
    BY <1>4 DEF Begin, RunClaim, StopClaim, SuspendClaim, HolderPC, RunPC, StopPC,
                SuspendPC
  <2>2. /\ Holders' = Holders \cup {t} /\ t \notin Holders /\ on'[t] = n
        /\ \A s1 \in Holders : on'[s1] = on[s1]
    BY <2>1, Labels DEF Claim, Holders, TypeOK
  <2> QED BY <2>1, <2>2 DEF Claim, NoOrphanBusy
<1>5. ASSUME NEW t \in Thread, ThreadStep(t) PROVE NoOrphanBusy'
  <2>1. CASE RunStep(t)
    BY <2>1, <1>2, <1>3 DEF RunStep, RunFails, RunLaunch, RunUp, RunGiveUp, RunAbort,
                            HolderPC, RunPC, mgr
  <2>2. CASE StopStep(t)
    BY <2>2, <1>2, <1>3 DEF StopStep, StopAsk, StopTart, StopKill, StopDone,
                            HolderPC, StopPC, mgr
  <2>3. CASE SuspendStep(t)
    BY <2>3, <1>2, <1>3 DEF SuspendStep, SuspendFails, SuspendTart, SuspendDone,
                            HolderPC, SuspendPC, mgr
  <2>4. CASE DeleteStep(t)
    BY <2>4, <1>3 DEF DeleteStep, DeleteCheck, DeleteTart, mgr, HolderPC, RunPC,
                      StopPC, SuspendPC
  <2>5. CASE ReconStep(t)
    BY <2>5, <1>3 DEF ReconStep, Heal, ReconList, ReconListFails, ReconApply, mgr,
                      HolderPC, RunPC, StopPC, SuspendPC
  <2> QED BY <1>4, <1>5, <2>1, <2>2, <2>3, <2>4, <2>5 DEF ThreadStep
<1>6. ASSUME NEW n \in VM, VMStep(n) PROVE NoOrphanBusy'
  BY <1>6, <1>1 DEF VMStep, RunRefused, RunDeferred, Ages, GuestPowersOff, TartCreates,
                    thr, mgr, Holders
<1>7. CASE UNCHANGED vars
  BY <1>7, <1>1 DEF vars, mgr, thr, Holders
<1> QED BY <1>5, <1>6, <1>7 DEF Next

\* Whatever operations outlive maxOpAge, no busy flag is left without an operation
\* in flight that will clear it.
THEOREM NoFlagLeftBehind == Spec => []NoOrphanBusy
<1>1. Init => NoOrphanBusy
  BY DEF Init, NoOrphanBusy
<1> QED BY <1>1, NextNoOrphan, TypeCorrect, PTL DEF Spec

-----------------------------------------------------------------------------
(* The states shown to clients move as VmLife promises *)

Look == [n \in VM |-> rec[n].state]

LEMMA SettledOrTransient == VMState = Shown!Settled \cup Shown!Transient
BY DEF VMState, TartState, Shown!Settled, Shown!Transient

\* The state of one VM changes, and no other.
LEMMA LookOne ==
  ASSUME TypeOK, NEW n \in VM, rec' \in [VM -> Record],
         \A m \in VM \ {n} : rec'[m] = rec[m]
  PROVE  Look' = [Look EXCEPT ![n] = rec'[n].state]
BY DEF TypeOK, Look

\* doRun's two refusals bound the VMs that are starting.
LEMMA RunShown ==
  ASSUME OpInv, OpInv', NEW t \in Thread, NEW n \in VM, RunClaim(t, n)
  PROVE  Shown!Start(n)
<1>1. rec[n].state \in Shown!Settled
  BY SettledOrTransient
     DEF OpInv, TypeOK, OthersSettled, RunClaim, Claim, Free, Record, Shown!Transient
<1>2. Shown!Starting \subseteq Active \ {n}
  BY <1>1 DEF Shown!Starting, Shown!Settled, Active
<1>3. Cardinality(Shown!Starting) < HardMax
  <2>1. IsFiniteSet(Active \ {n})
    BY FS_Subset, VMAssumption DEF VMAssumption, Active
  <2>2. /\ Cardinality(Shown!Starting) \in Nat
        /\ Cardinality(Active \ {n}) \in Nat
        /\ Cardinality(Shown!Starting) =< Cardinality(Active \ {n})
    BY <1>2, <2>1, FS_Subset, FS_CardinalityType
  <2>3. Cardinality(Active \ {n}) < HardMax
    BY DEF RunClaim, SlotFree
  <2> QED BY <2>2, <2>3, HardMaxAssumption DEF HardMaxAssumption
<1>4. Shown!Cardinality(Shown!Starting) = Cardinality(Shown!Starting)
  BY DEF Shown!Cardinality, Cardinality
<1>5. Shown!Family(n) \cap Shown!Starting = {}
  BY <1>2 DEF RunClaim, FamilyFree, Family, Shown!Family
<1>6. Look' = [Look EXCEPT ![n] = "starting"]
  <2>1. rec'[n].state = "starting" /\ \A m \in VM \ {n} : rec'[m] = rec[m]
    BY DEF RunClaim, Claim, OpInv, TypeOK, Record
  <2> QED BY <2>1, LookOne DEF OpInv, TypeOK
<1> QED BY <1>1, <1>3, <1>4, <1>5, <1>6 DEF Shown!Start, Look

LEMMA StopShown ==
  ASSUME OpInv, OpInv', NEW t \in Thread, NEW n \in VM,
         StopClaim(t, n) \/ SuspendClaim(t, n)
  PROVE  Shown!Stop(n)
<1>1. rec[n].state \in Shown!Settled \ {"absent"}
  BY SettledOrTransient
     DEF OpInv, TypeOK, OthersSettled, StopClaim, SuspendClaim, Exists, Claim, Free,
         Record, Shown!Transient
<1>2. rec'[n].state = "stopping" /\ \A m \in VM \ {n} : rec'[m] = rec[m]
  BY DEF StopClaim, SuspendClaim, Claim, OpInv, TypeOK, Record
<1>3. Look' = [Look EXCEPT ![n] = "stopping"]
  BY <1>2, LookOne DEF OpInv, TypeOK
<1> QED BY <1>1, <1>3 DEF Shown!Stop, Look

\* An operation that ends takes its VM from the state it had shown.
LEMMA EndShown ==
  ASSUME OpInv, OpInv', NEW t \in Holders,
         \A m \in VM \ {on[t]} : rec'[m] = rec[m],
         \/ pc[t] \in RunPC /\ rec'[on[t]].state \in {"running", "stopped"}
         \/ pc[t] \notin RunPC /\ rec'[on[t]].state \in {"stopped", "suspended", "running"}
  PROVE  Shown!Next
<1>1. on[t] \in VM /\ rec[on[t]].state = ShownBy(pc[t])
  BY Labels DEF OpInv, TypeOK, Targets, OwnersWrite, Holders
<1>2. PICK n \in VM : n = on[t]
  BY <1>1
<1>3. Look' = [Look EXCEPT ![n] = rec'[n].state]
  BY <1>2, LookOne DEF OpInv, TypeOK
<1>4. CASE pc[t] \in RunPC
  <2>1. Shown!Started(n)
    BY <1>1, <1>2, <1>3, <1>4 DEF Shown!Started, ShownBy, Look
  <2> QED BY <2>1 DEF Shown!Next
<1>5. CASE pc[t] \notin RunPC
  <2>1. Shown!Stopped(n)
    BY <1>1, <1>2, <1>3, <1>5 DEF Shown!Stopped, ShownBy, Look
  <2> QED BY <2>1 DEF Shown!Next
<1> QED BY <1>4, <1>5

LEMMA ObserveShown ==
  ASSUME OpInv, OpInv',
         \A n \in VM : \/ rec'[n].state = rec[n].state
                       \/ /\ n \notin busy
                          /\ rec'[n].state \notin {"starting", "stopping"}
  PROVE  Shown!Observe
<1>1. \A n \in VM : rec'[n].state \in VMState /\ rec[n].state \in VMState
  BY DEF OpInv, TypeOK, Record
<1>2. \A n \in VM : n \notin busy => rec[n].state \notin Shown!Transient
  BY DEF OpInv, OthersSettled, Shown!Transient
<1>3. Look' \in [VM -> Shown!Settled \cup Shown!Transient]
  BY <1>1, SettledOrTransient DEF Look
<1>4. ASSUME NEW n \in VM
      PROVE  IF Look[n] \in Shown!Transient THEN Look'[n] = Look[n]
                                            ELSE Look'[n] \in Shown!Settled
  BY <1>1, <1>2, SettledOrTransient DEF Look, Shown!Transient
<1> QED BY <1>3, <1>4 DEF Shown!Observe, Look

LEMMA ThreadShown ==
  ASSUME OpInv, OpInv', NEW t \in Thread, ThreadStep(t)
  PROVE  Shown!Next \/ UNCHANGED Look
<1> USE DEF Shown!Next
<1>1. ASSUME NEW n \in VM, Begin(t, n) PROVE Shown!Next
  BY <1>1, RunShown, StopShown DEF Begin
<1>2. pc[t] \in HolderPC => t \in Holders /\ on[t] \in VM /\ rec[on[t]] \in Record
  BY Labels DEF Holders, OpInv, TypeOK, Targets
<1>3. UNCHANGED mgr => UNCHANGED Look
  BY DEF mgr, Look
<1>4. CASE RunStep(t)
  <2>1. t \in Holders /\ pc[t] \in RunPC /\ on[t] \in VM /\ rec[on[t]] \in Record
    BY <1>2, <1>4 DEF RunStep, RunFails, RunLaunch, RunUp, RunGiveUp, RunAbort, HolderPC, RunPC
  <2>2. CASE RunFails(t)
    <3>1. rec[on[t]].state = "starting"
      BY <2>1 DEF OpInv, OwnersWrite, ShownBy
    <3>2. rec'[on[t]].state = "stopped" /\ \A m \in VM \ {on[t]} : rec'[m] = rec[m]
      BY <2>1, <2>2, <3>1 DEF RunFails, OpInv, TypeOK, Record
    <3> QED BY <2>1, <3>2, EndShown
  <2>3. CASE RunUp(t)
    <3>1. /\ rec'[on[t]].state = "running"
          /\ \A m \in VM \ {on[t]} : rec'[m] = rec[m]
      BY <2>1, <2>3, WriteOwn DEF RunUp
    <3> QED BY <2>1, <3>1, EndShown
  <2>4. CASE RunAbort(t)
    <3>1. [rec[on[t]] EXCEPT !.state = "stopped", !.armed = FALSE].state = "stopped"
      BY <2>1 DEF Record
    <3>2. /\ rec'[on[t]].state = "stopped"
          /\ \A m \in VM \ {on[t]} : rec'[m] = rec[m]
      BY <2>1, <2>4, <3>1, WriteOwn DEF RunAbort
    <3> QED BY <2>1, <3>2, EndShown
  <2> QED BY <1>3, <1>4, <2>2, <2>3, <2>4 DEF RunStep, RunLaunch, RunGiveUp
<1>5. CASE StopStep(t)
  <2>1. t \in Holders /\ pc[t] \notin RunPC /\ on[t] \in VM /\ rec[on[t]] \in Record
    BY <1>2, <1>5 DEF StopStep, StopAsk, StopTart, StopKill, StopDone, HolderPC, RunPC, StopPC
  <2>2. CASE StopDone(t)
    <3>1. [rec[on[t]] EXCEPT !.state = "stopped", !.armed = FALSE].state = "stopped"
      BY <2>1 DEF Record
    <3>2. /\ rec'[on[t]].state = "stopped"
          /\ \A m \in VM \ {on[t]} : rec'[m] = rec[m]
      BY <2>1, <2>2, <3>1, WriteOwn DEF StopDone
    <3> QED BY <2>1, <3>2, EndShown
  <2> QED BY <1>3, <1>5, <2>2 DEF StopStep, StopAsk, StopTart, StopKill
<1>6. CASE SuspendStep(t)
  <2>1. t \in Holders /\ pc[t] \notin RunPC /\ on[t] \in VM /\ rec[on[t]] \in Record
    BY <1>2, <1>6 DEF SuspendStep, SuspendFails, SuspendTart, SuspendDone, HolderPC, RunPC,
                      SuspendPC
  <2>2. CASE SuspendFails(t)
    <3>1. [rec[on[t]] EXCEPT !.state = "running"].state = "running"
      BY <2>1 DEF Record
    <3>2. /\ rec'[on[t]].state = "running"
          /\ \A m \in VM \ {on[t]} : rec'[m] = rec[m]
      BY <2>1, <2>2, <3>1, WriteOwn DEF SuspendFails
    <3> QED BY <2>1, <3>2, EndShown
  <2>3. CASE SuspendDone(t)
    <3>1. Exists(on[t])
      BY <2>1 DEF OpInv, OwnersWrite, Exists, ShownBy
    <3>2. rec'[on[t]].state = "suspended" /\ \A m \in VM \ {on[t]} : rec'[m] = rec[m]
      BY <2>1, <2>3, <3>1 DEF SuspendDone, OpInv, TypeOK, Record
    <3> QED BY <2>1, <3>2, EndShown
  <2> QED BY <1>3, <1>6, <2>2, <2>3 DEF SuspendStep, SuspendTart
<1>7. CASE DeleteStep(t)
  BY <1>3, <1>7 DEF DeleteStep, DeleteCheck, DeleteTart
<1>8. CASE ReconStep(t)
  <2>1. CASE ReconApply(t)
    <3>1. \A n \in VM : view[t][n] \in TartState
      BY DEF OpInv, TypeOK
    <3>2. Shown!Observe
      BY <2>1, <3>1, ReconciledSettled, ObserveShown DEF ReconApply
    <3> QED BY <3>2
  <2> QED BY <1>3, <1>8, <2>1 DEF ReconStep, Heal, ReconList, ReconListFails, mgr, Look
<1> QED BY <1>1, <1>4, <1>5, <1>6, <1>7, <1>8 DEF ThreadStep

LEMMA VMShown ==
  ASSUME OpInv, OpInv', NEW n \in VM, VMStep(n)
  PROVE  Shown!Next \/ UNCHANGED Look
<1> USE DEF Shown!Next
<1>1. CASE RunRefused(n)
  <2>1. \A m \in VM : \/ rec'[m].state = rec[m].state
                      \/ m \notin busy /\ rec'[m].state = "unset"
    BY <1>1 DEF RunRefused, Free, Fresh, OpInv, TypeOK
  <2> QED BY <2>1, ObserveShown
<1>2. CASE RunDeferred(n)
  <2>1. \A m \in VM : \/ rec'[m].state = rec[m].state
                      \/ m \notin busy /\ rec'[m].state = "stopped"
    BY <1>2 DEF RunDeferred, Free, OpInv, TypeOK, Record
  <2> QED BY <2>1, ObserveShown
<1> QED BY <1>1, <1>2 DEF VMStep, Ages, GuestPowersOff, TartCreates, mgr, Look

\* While no operation outlives maxOpAge, the state shown for each VM follows the
\* abstract specification: transient states are left only by their operation,
\* and the VMs that are starting respect the ceiling and the families.
THEOREM LifecycleImplementsVmLife ==
  ASSUME SlowOps = {}
  PROVE  Spec => ShownSpec
<1>1. Init => Shown!Init
  BY DEF Init, Fresh, Shown!Init
<1>2. OpInv /\ OpInv' /\ [Next]_vars => [Shown!Next]_Look
  <2>1. UNCHANGED vars => UNCHANGED Look
    BY DEF vars, mgr, Look
  <2> QED BY <2>1, ThreadShown, VMShown DEF Next
<1>3. [Shown!Next]_Look => [Shown!Next]_[n \in VM |-> rec[n].state]
  BY DEF Look
<1> QED BY <1>1, <1>2, <1>3, OpInvAlways, PTL DEF Spec, ShownSpec, Shown!Spec

\* What VmLife guarantees about starting VMs holds of the server: no more than
\* HardMax at once, and never two of a family.
Abstract == INSTANCE VmLifeProofs WITH state <- Look

THEOREM StartsStayBounded ==
  ASSUME SlowOps = {}
  PROVE  Spec => []StartsBounded
<1>1. Abstract!IsFiniteSet(VM) /\ HardMax \in Nat
  BY VMAssumption, HardMaxAssumption DEF Abstract!IsFiniteSet, IsFiniteSet
<1>2. Abstract!Spec => []Abstract!StartsBounded
  BY <1>1, Abstract!BoundedStarts
<1>3. Shown!Init => Abstract!Init
  BY DEF Shown!Init, Abstract!Init, Look
<1>4. [Shown!Next]_[n \in VM |-> rec[n].state] => [Abstract!Next]_Look
  <2>1. \A n \in VM : Shown!Start(n) => Abstract!Start(n)
    BY DEF Shown!Start, Abstract!Start, Shown!Starting, Abstract!Starting,
           Shown!Family, Abstract!Family, Shown!Settled, Abstract!Settled, Look,
           Shown!Cardinality, Abstract!Cardinality
  <2>2. \A n \in VM : Shown!Started(n) => Abstract!Started(n)
    BY DEF Shown!Started, Abstract!Started, Look
  <2>3. \A n \in VM : Shown!Stop(n) => Abstract!Stop(n)
    BY DEF Shown!Stop, Abstract!Stop, Look, Shown!Settled, Abstract!Settled
  <2>4. \A n \in VM : Shown!Stopped(n) => Abstract!Stopped(n)
    BY DEF Shown!Stopped, Abstract!Stopped, Look
  <2>5. Shown!Observe => Abstract!Observe
    BY DEF Shown!Observe, Abstract!Observe, Look, Shown!Settled, Abstract!Settled,
           Shown!Transient, Abstract!Transient
  <2> QED BY <2>1, <2>2, <2>3, <2>4, <2>5 DEF Shown!Next, Abstract!Next, Look
<1>5. Abstract!StartsBounded => StartsBounded
  BY DEF Abstract!StartsBounded, StartsBounded, Shown!StartsBounded, Shown!Starting,
         Abstract!Starting, Look, Shown!Cardinality, Abstract!Cardinality
<1> QED BY <1>2, <1>3, <1>4, <1>5, LifecycleImplementsVmLife, PTL
        DEF Abstract!Spec, ShownSpec, Shown!Spec
=============================================================================
