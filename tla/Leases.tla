------------------------------- MODULE Leases -------------------------------
(***************************************************************************)
(* Virtual machines that agents lease (lease.go, and create, extend and    *)
(* destroy of agentapi.go): a background goroutine clones and boots each,  *)
(* its lease runs out, a reaper, the agent itself or a failure of the      *)
(* provisioning deletes it, while users work on it from the dashboard and  *)
(* the server may restart.                                                 *)
(*                                                                         *)
(* doRun and doStop are a claim, an effect and an outcome here, and keep   *)
(* within maxOpAge; module Lifecycle has their steps.                      *)
(***************************************************************************)
EXTENDS Naturals, FiniteSets

CONSTANTS
  VM,           \* names of agent VMs; allocVMName never gives one twice
  Slots,        \* hardMaxConcurrent
  MaxOthers,    \* bounds the VMs without a lease that run
  Actor,        \* who acts besides the server: "user" of the dashboard, and
                \* "caller", an agent that asks for a VM's destruction
  MaxRestarts   \* bounds the restarts of the server

Server == {"prov", "reaper"}      \* provisionAgentVM, and reapLeases' goroutine
Proc == Server \cup Actor         \* one of each for a VM

ASSUME VMAssumption == IsFiniteSet(VM)
ASSUME SlotsAssumption == Slots \in Nat \ {0} /\ MaxOthers \in Nat
ASSUME ActorAssumption == Actor \subseteq {"user", "caller"}
ASSUME RestartsAssumption == MaxRestarts \in Nat

VARIABLES
  used,         \* the names given out
  state,        \* State of each record, "absent": no record
  lease,        \* its Lease: "none", "fresh", "late" (soon over), "expired"
  busy,         \* m.busy
  op,           \* Phase in m.agentOps, "none": no entry; "ghost": a failed entry
                \* that was made without an owner
  others,       \* how many other VMs run or start
  pc, held,     \* what each goroutine does next to each VM, and which still
                \* hold the record that m.vms has
  seen,         \* the list each goroutine has read
  mon, list,    \* the monitor's reconcile, and its list
  tart,         \* what tart knows
  orphan,       \* clones whose server has restarted
  restarts

mgr == <<used, state, lease, busy, op>>
threads == <<pc, held, seen>>
monitor == <<mon, list>>
world == <<tart, orphan>>
vars == <<mgr, others, threads, monitor, world, restarts>>

TartState == {"absent", "stopped", "running"}
VMState == TartState \cup {"unset", "starting", "stopping"}
Leased(n) == lease[n] # "none"
Phase == {"none", "cloning", "booting", "done", "failed", "ghost"}
Provisioning == {"clone", "cloned", "boot", "judge", "fail"}
Operating == {"launch", "run", "stop"}
Working == Provisioning \cup {"launch", "run"}      \* until it is judged, or failed
Destroying == {"wait", "check", "halt", "delete", "list", "apply", "forget"}
Label == {"idle"} \cup Provisioning \cup Operating \cup Destroying
Labels(p) ==                     \* where a goroutine of each kind may be
  {"idle"} \cup
    IF p = "prov" THEN Provisioning \cup Operating \cup Destroying
    ELSE IF p = "user" THEN Operating \cup {"delete", "list", "apply"}
    ELSE Destroying \cup {"stop"}
Lists == [VM -> TartState]

TypeOK ==
  /\ used \in SUBSET VM
  /\ state \in [VM -> VMState]
  /\ lease \in [VM -> {"none", "fresh", "late", "expired"}]
  /\ busy \in SUBSET VM
  /\ op \in [VM -> Phase]
  /\ others \in 0..MaxOthers
  /\ pc \in [Proc \X VM -> Label] /\ \A x \in Proc \X VM : pc[x] \in Labels(x[1])
  /\ held \in SUBSET (Proc \X VM)
  /\ seen \in [Proc \X VM -> Lists]
  /\ mon \in {"idle", "apply"} /\ list \in Lists
  /\ tart \in Lists
  /\ orphan \in SUBSET VM
  /\ restarts \in 0..MaxRestarts

NoList == [n \in VM |-> "absent"]

Init ==
  /\ used = {} /\ busy = {} /\ held = {} /\ orphan = {}
  /\ state = NoList /\ tart = NoList /\ list = NoList
  /\ lease = [n \in VM |-> "none"] /\ op = [n \in VM |-> "none"]
  /\ others = 0 /\ restarts = 0
  /\ pc = [x \in Proc \X VM |-> "idle"] /\ seen = [x \in Proc \X VM |-> NoList]
  /\ mon = "idle"

-----------------------------------------------------------------------------
Up(n) == state[n] \in {"running", "starting"}

\* agentActiveLocked: the slots in use, or promised to VMs still being cloned
AgentActive ==
  others + Cardinality({n \in VM : Up(n) \/ op[n] = "cloning"})

\* doRun's ceiling: the slots in use
Room(n) == others + Cardinality({m \in VM \ {n} : Up(m)}) < Slots

Goto(x, l) == pc' = [pc EXCEPT ![x] = l]
TartStop(n) == tart' = [tart EXCEPT ![n] = IF @ = "running" THEN "stopped" ELSE @]

-----------------------------------------------------------------------------
(* startAgentVM and provisionAgentVM *)

CreateNotBusy(n) ==                                   \* mutant: flag not set
  /\ n \notin used /\ AgentActive < Slots
  /\ used' = used \cup {n}
  /\ state' = [state EXCEPT ![n] = "stopped"]
  /\ lease' = [lease EXCEPT ![n] = "fresh"]
  /\ op' = [op EXCEPT ![n] = "cloning"]
  /\ Goto(<<"prov", n>>, "clone")
  /\ UNCHANGED <<busy, others, held, seen, monitor, world, restarts>>
Create(n) ==
  /\ n \notin used /\ AgentActive < Slots
  /\ used' = used \cup {n}
  /\ state' = [state EXCEPT ![n] = "stopped"]
  /\ lease' = [lease EXCEPT ![n] = "fresh"]
  /\ busy' = busy \cup {n}
  /\ op' = [op EXCEPT ![n] = "cloning"]
  /\ Goto(<<"prov", n>>, "clone")
  /\ UNCHANGED <<others, held, seen, monitor, world, restarts>>

\* tart clone and tart set; cancelled by a user or after agentCloneTimeout
CloneWorks(n) ==
  /\ pc[<<"prov", n>>] = "clone"
  /\ tart' = [tart EXCEPT ![n] = "stopped"]
  /\ Goto(<<"prov", n>>, "cloned")
  /\ UNCHANGED <<mgr, others, held, seen, monitor, orphan, restarts>>

CloneFails(n) ==                \* the clone may be there all the same
  /\ pc[<<"prov", n>>] = "clone"
  /\ \E s \in {"absent", "stopped"} : tart' = [tart EXCEPT ![n] = s]
  /\ Goto(<<"prov", n>>, "fail")
  /\ UNCHANGED <<mgr, others, held, seen, monitor, orphan, restarts>>

HandOverDone(n) ==                                    \* mutant: done at once
  /\ pc[<<"prov", n>>] = "cloned"
  /\ op' = [op EXCEPT ![n] = IF @ = "none" THEN @ ELSE "done"]
  /\ busy' = busy \ {n}
  /\ Goto(<<"prov", n>>, "boot")
  /\ UNCHANGED <<used, state, lease, others, held, seen, monitor, world, restarts>>
HandOver(n) ==                  \* doRun takes the busy flag itself
  /\ pc[<<"prov", n>>] = "cloned"
  /\ op' = [op EXCEPT ![n] = IF @ = "none" THEN @ ELSE "booting"]
  /\ busy' = busy \ {n}
  /\ Goto(<<"prov", n>>, "boot")
  /\ UNCHANGED <<used, state, lease, others, held, seen, monitor, world, restarts>>

\* What became of doRun
JudgeSilent(n) ==                                     \* mutant: phase not set
  /\ pc[<<"prov", n>>] = "judge"
  /\ Goto(<<"prov", n>>, IF state[n] = "running" THEN "idle" ELSE "fail")
  /\ UNCHANGED <<mgr, others, held, seen, monitor, world, restarts>>
Judge(n) ==
  /\ pc[<<"prov", n>>] = "judge"
  /\ IF state[n] = "running"
       THEN /\ op' = [op EXCEPT ![n] = IF @ = "none" THEN @ ELSE "done"]
            /\ Goto(<<"prov", n>>, "idle")
       ELSE Goto(<<"prov", n>>, "fail") /\ UNCHANGED op
  /\ UNCHANGED <<used, state, lease, busy, others, held, seen, monitor, world, restarts>>

\* failAgentVM: the failure is recorded, in a new entry if need be, the flag is
\* cleared, whoever holds it, and the VM destroyed.
Fail(n) ==
  /\ pc[<<"prov", n>>] = "fail"
  /\ op' = [op EXCEPT ![n] = IF @ \in {"none", "ghost"} THEN "ghost" ELSE "failed"]
  /\ busy' = IF Leased(n) THEN busy \ {n} ELSE busy
  /\ Goto(<<"prov", n>>, "wait")
  /\ UNCHANGED <<used, state, lease, others, held, seen, monitor, world, restarts>>

-----------------------------------------------------------------------------
(* doRun and doStop, of the provisioning, of users and of destroyLeasedVM *)

After(x) ==                     \* what the goroutine does when its operation ends
  IF x[1] = "user" THEN "idle" ELSE IF pc[x] = "stop" THEN "delete" ELSE "judge"

Claim(x, l, s) ==
  /\ busy' = busy \cup {x[2]}
  /\ state' = [state EXCEPT ![x[2]] = s]
  /\ held' = held \cup {x}
  /\ Goto(x, l)
  /\ UNCHANGED <<used, lease, op, others, seen, monitor, world, restarts>>

Begins(x) == pc[x] = IF x[1] = "prov" THEN "boot" ELSE "idle"
MayRun(x) == x[1] \in {"prov", "user"}

RunClaim(x) ==
  /\ MayRun(x) /\ Begins(x)
  /\ x[2] \notin busy /\ Room(x[2])
  /\ Claim(x, "launch", "starting")

\* Busy, no slot, or memory pressure: the provisioning goes on to judge it.  A
\* record made for an unknown name stays.
RunRefused(x) ==
  LET n == x[2] IN
  /\ MayRun(x) /\ Begins(x)
  /\ IF n \in busy
       THEN UNCHANGED state
       ELSE \E s \in {"unset", "stopped"} :
              state' = [state EXCEPT ![n] = IF @ \in {"absent", "unset"} THEN s ELSE @]
  /\ Goto(x, IF x[1] = "prov" THEN "judge" ELSE "idle")
  /\ UNCHANGED <<used, lease, busy, op, others, held, seen, monitor, world, restarts>>

RunLaunch(x) ==                 \* tart runs the VM, or fails to
  /\ pc[x] = "launch" /\ Goto(x, "run")
  /\ \/ tart[x[2]] = "stopped" /\ tart' = [tart EXCEPT ![x[2]] = "running"]
     \/ UNCHANGED tart
  /\ UNCHANGED <<mgr, others, held, seen, monitor, orphan, restarts>>

Finish(x, s) ==
  /\ state' = IF x \in held THEN [state EXCEPT ![x[2]] = s] ELSE state
  /\ busy' = busy \ {x[2]}
  /\ held' = held \ {x}
  /\ Goto(x, After(x))
  /\ UNCHANGED <<used, lease, op, others, seen, monitor, orphan, restarts>>

RunUp(x) ==                     \* an IP was found, if only in a table of the host
  /\ pc[x] = "run"
  /\ Finish(x, "running") /\ UNCHANGED tart

RunFails(x) ==                  \* failOp, which looks the record up by its name
  LET n == x[2] IN
  /\ pc[x] = "launch"
  /\ state' = [state EXCEPT ![n] = IF @ = "absent" THEN @ ELSE "stopped"]
  /\ busy' = busy \ {n} /\ held' = held \ {x}
  /\ Goto(x, After(x))
  /\ UNCHANGED <<used, lease, op, others, seen, monitor, world, restarts>>

RunAbort(x) ==                  \* no IP: stopped, if tart and the signal can
  /\ pc[x] = "run"
  /\ Finish(x, "stopped")
  /\ TartStop(x[2]) \/ UNCHANGED tart

StopClaim(x) ==
  /\ pc[x] = IF x[1] = "user" THEN "idle" ELSE "halt"
  /\ x[2] \notin busy /\ state[x[2]] # "absent"
  /\ Claim(x, "stop", "stopping")

StopRefused(x) ==
  /\ pc[x] = "halt"
  /\ (x[2] \in busy \/ state[x[2]] = "absent")
  /\ Goto(x, "delete")
  /\ UNCHANGED <<mgr, others, held, seen, monitor, world, restarts>>

StopWorks(x) ==
  /\ pc[x] = "stop"
  /\ Finish(x, "stopped") /\ TartStop(x[2])

StopFails(x) ==                 \* recorded as stopped even so
  /\ pc[x] = "stop"
  /\ Finish(x, "stopped") /\ UNCHANGED tart

-----------------------------------------------------------------------------
(* reconcile, of the monitor and at the end of a deletion *)

StateBy(n, l) ==
  IF n \notin busy THEN l[n]
  ELSE IF state[n] = "absent" /\ l[n] # "absent" THEN "unset"
  ELSE state[n]

Dropped(l) == {n \in VM \ busy : l[n] = "absent"}

Apply(l) ==
  /\ state' = [n \in VM |-> StateBy(n, l)]
  /\ lease' = [n \in VM |-> IF n \in Dropped(l) THEN "none" ELSE lease[n]]
  /\ held' = {x \in held : x[2] \notin Dropped(l)}

MonitorLists ==
  /\ mon = "idle" /\ mon' = "apply" /\ list' = tart
  /\ UNCHANGED <<mgr, others, threads, world, restarts>>

MonitorApplies ==
  /\ mon = "apply" /\ mon' = "idle" /\ list' = NoList
  /\ Apply(list)
  /\ UNCHANGED <<used, busy, op, others, pc, seen, world, restarts>>

-----------------------------------------------------------------------------
(* destroyLeasedVM, and what its callers do before and after it *)

\* reapLeases: one goroutine for each VM whose lease is over; entries of
\* provisioning that failed an hour ago are dropped.
OverdueIfUp(n) ==                                     \* mutant: a stopped one kept
  lease[n] = "expired" /\ n \notin busy /\ pc[<<"reaper", n>>] = "idle" /\ Up(n)
Overdue(n) == lease[n] = "expired" /\ n \notin busy /\ pc[<<"reaper", n>>] = "idle"

ReapLeases ==
  /\ pc' = [x \in Proc \X VM |->
              IF x[1] = "reaper" /\ Overdue(x[2]) THEN "wait" ELSE pc[x]]
  /\ \E old \in SUBSET {n \in VM : op[n] \in {"failed", "ghost"}} :
       op' = [n \in VM |-> IF n \in old THEN "none" ELSE op[n]]
  /\ UNCHANGED <<used, state, lease, busy, others, held, seen, monitor, world, restarts>>

\* DELETE /api/agent/vms/{name} of one that agentViewOf shows, not looking into
\* whose it is
CallerDestroys(n) ==
  LET x == <<"caller", n>> IN
  /\ x \in Proc \X VM /\ pc[x] = "idle"
  /\ Leased(n) \/ op[n] \in {"failed", "ghost"}
  /\ Goto(x, "wait")
  /\ UNCHANGED <<mgr, others, held, seen, monitor, world, restarts>>

WaitEnds(x) ==
  /\ pc[x] = "wait"
  /\ \/ x[2] \notin busy /\ Goto(x, "check")
     \/ x[2] \in busy /\ Goto(x, "idle")               \* after three minutes
  /\ UNCHANGED <<mgr, others, held, seen, monitor, world, restarts>>

Check(x) ==
  LET n == x[2] IN
  /\ pc[x] = "check"
  /\ IF state[n] = "absent"
       THEN op' = [op EXCEPT ![n] = "none"] /\ Goto(x, "idle")
       ELSE /\ UNCHANGED op
            /\ Goto(x, IF ~Leased(n) THEN "idle"
                       ELSE IF Up(n) \/ state[n] = "stopping" THEN "halt"
                       ELSE "delete")
  /\ UNCHANGED <<used, state, lease, busy, others, held, seen, monitor, world, restarts>>

UserDeletes(n) ==               \* /api/vm/delete, after isActive
  LET x == <<"user", n>> IN
  /\ x \in Proc \X VM /\ pc[x] = "idle"
  /\ n \in used /\ n \notin busy /\ ~Up(n)
  /\ Goto(x, "delete")
  /\ UNCHANGED <<mgr, others, held, seen, monitor, world, restarts>>

DeleteWorks(x) ==               \* tart delete, not of a VM that runs
  /\ pc[x] = "delete" /\ tart[x[2]] # "running"
  /\ tart' = [tart EXCEPT ![x[2]] = "absent"]
  /\ Goto(x, "list")
  /\ UNCHANGED <<mgr, others, held, seen, monitor, orphan, restarts>>

DeleteFails(x) ==
  /\ pc[x] = "delete" /\ Goto(x, "list")
  /\ UNCHANGED <<mgr, others, held, seen, monitor, world, restarts>>

Last(x) == IF x[1] = "user" THEN "idle" ELSE "forget"

DeleterLists(x) ==
  /\ pc[x] = "list"
  /\ \/ seen' = [seen EXCEPT ![x] = tart] /\ Goto(x, "apply")
     \/ Goto(x, Last(x)) /\ UNCHANGED seen             \* tart list fails
  /\ UNCHANGED <<mgr, others, held, monitor, world, restarts>>

DeleterApplies(x) ==
  /\ pc[x] = "apply" /\ Apply(seen[x])
  /\ seen' = [seen EXCEPT ![x] = NoList]
  /\ Goto(x, Last(x))
  /\ UNCHANGED <<used, busy, op, others, monitor, world, restarts>>

\* The entry is dropped when the record is gone, one that tells of a failure by
\* the DELETE handler only.
Forget(x) ==
  LET n == x[2] IN
  /\ pc[x] = "forget"
  /\ op' = [op EXCEPT ![n] =
              IF /\ state[n] = "absent"
                 /\ (@ \notin {"failed", "ghost"} \/ x[1] = "caller")
                THEN "none" ELSE @]
  /\ Goto(x, "idle")
  /\ UNCHANGED <<used, state, lease, busy, others, held, seen, monitor, world, restarts>>

-----------------------------------------------------------------------------
(* Leases, time, other VMs, guests, restarts *)

ExtendAny(n) ==                                       \* mutant: expired ones too
  /\ lease[n] \in {"late", "expired"}
  /\ lease' = [lease EXCEPT ![n] = "fresh"]
  /\ UNCHANGED <<used, state, busy, op, others, threads, monitor, world, restarts>>
Extend(n) ==                    \* handleAgentExtend
  /\ lease[n] = "late"
  /\ lease' = [lease EXCEPT ![n] = "fresh"]
  /\ UNCHANGED <<used, state, busy, op, others, threads, monitor, world, restarts>>

LeaseAges(n) ==
  /\ lease[n] \in {"fresh", "late"}
  /\ lease' = [lease EXCEPT ![n] = IF @ = "fresh" THEN "late" ELSE "expired"]
  /\ UNCHANGED <<used, state, busy, op, others, threads, monitor, world, restarts>>

OthersChange ==                 \* doRun's ceiling counts what is up, not promised
  /\ \/ /\ others + Cardinality({n \in VM : Up(n)}) < Slots /\ others < MaxOthers
        /\ others' = others + 1
     \/ others > 0 /\ others' = others - 1
  /\ UNCHANGED <<mgr, threads, monitor, world, restarts>>

GuestPowersOff(n) ==
  /\ tart[n] = "running" /\ TartStop(n)
  /\ UNCHANGED <<mgr, others, threads, monitor, orphan, restarts>>

\* The process is replaced and reads its records again; the clones it had begun,
\* and the VMs it ran, go on or not.  It reconciles before it serves.
Restart ==
  /\ restarts < MaxRestarts /\ restarts' = restarts + 1
  /\ busy' = {} /\ held' = {} /\ mon' = "idle" /\ list' = NoList
  /\ op' = [n \in VM |-> "none"]
  /\ pc' = [x \in Proc \X VM |-> "idle"] /\ seen' = [x \in Proc \X VM |-> NoList]
  /\ \E go \in SUBSET VM :
       /\ orphan' = orphan \cup {n \in go : pc[<<"prov", n>>] = "clone"}
       /\ tart' = [n \in VM |-> IF tart[n] = "running" /\ n \notin go
                                  THEN "stopped" ELSE tart[n]]
  /\ \/ /\ state' = tart'
        /\ lease' = [n \in VM |-> IF tart'[n] = "absent" THEN "none" ELSE lease[n]]
     \/ UNCHANGED <<state, lease>>                     \* tart list fails
  /\ UNCHANGED <<used, others>>

OrphanEnds(n) ==                \* a clone of an earlier server
  /\ n \in orphan /\ orphan' = orphan \ {n}
  /\ tart' = [tart EXCEPT ![n] = "stopped"]
  /\ UNCHANGED <<mgr, others, threads, monitor, restarts>>

-----------------------------------------------------------------------------
Provision(n) == CloneWorks(n) \/ CloneFails(n) \/ HandOver(n) \/ Judge(n) \/ Fail(n)
Operate(x) ==
  RunLaunch(x) \/ RunUp(x) \/ RunFails(x) \/ RunAbort(x) \/ StopWorks(x) \/ StopFails(x)
Destroy(x) ==
  \/ WaitEnds(x) \/ Check(x) \/ StopRefused(x) \/ DeleteWorks(x) \/ DeleteFails(x)
  \/ DeleterLists(x) \/ DeleterApplies(x) \/ Forget(x)
Proceed(x) ==                   \* what a goroutine that has begun goes on to do
  \/ x[1] = "prov" /\ (Provision(x[2]) \/ RunClaim(x) \/ RunRefused(x))
  \/ Operate(x) \/ Destroy(x) \/ (pc[x] = "halt" /\ StopClaim(x))
UserActs(n) ==
  \/ /\ <<"user", n>> \in Proc \X VM /\ n \in used
     /\ RunClaim(<<"user", n>>) \/ RunRefused(<<"user", n>>) \/ StopClaim(<<"user", n>>)
  \/ UserDeletes(n)
VMStep(n) ==
  \/ Create(n) \/ CallerDestroys(n) \/ Extend(n) \/ LeaseAges(n)
  \/ GuestPowersOff(n) \/ OrphanEnds(n) \/ UserActs(n)

Next ==
  \/ \E x \in Proc \X VM : Proceed(x)
  \/ \E n \in VM : VMStep(n)
  \/ ReapLeases \/ MonitorLists \/ MonitorApplies \/ OthersChange \/ Restart

Spec == Init /\ [][Next]_vars

\* The server's loops and goroutines go on, leases run out, operations end since
\* every wait in them has a deadline, and tart does not fail for ever to stop or
\* to delete a VM.  No user, agent or restart is assumed.
Serving(n) == {x \in Proc \X {n} : x[1] # "user"}
FairSpec ==
  /\ Spec
  /\ WF_vars(ReapLeases) /\ WF_vars(MonitorLists) /\ WF_vars(MonitorApplies)
  /\ \A n \in VM : WF_vars(LeaseAges(n))
  /\ \A x \in Proc \X VM : WF_vars(Proceed(x))
  /\ \A n \in VM : SF_vars(\E x \in Serving(n) : StopWorks(x))
  /\ \A n \in VM : SF_vars(\E x \in Serving(n) : DeleteWorks(x))

-----------------------------------------------------------------------------
(* Properties *)

\* lease.go:201 "Register the VM now, busy, so ... reconcile keeps it while the
\* clone is still being written": a VM being cloned keeps its record, its lease
\* and its flag, whatever lists are applied late and whoever works on it.
CloneProtected ==
  \A n \in VM : pc[<<"prov", n>>] \in {"clone", "cloned"} =>
    n \in busy /\ state[n] = "stopped" /\ Leased(n)

\* The reaper never works on a VM whose lease is not over, although agents extend
\* leases while it is at it.
Reaping(n) == pc[<<"reaper", n>>] \in {"check", "halt", "stop", "delete"}
NeverReapedEarly == \A n \in VM : Reaping(n) => lease[n] \in {"expired", "none"}

\* What the proofs rest on: a name not given out has nothing at work on it; while
\* its clone is written the others only wait; whom the reaper waits for has no
\* lease that counts; an entry made without an owner is made last.
UnusedIdle ==
  \A n \in VM \ used :
    /\ lease[n] = "none" /\ op[n] = "none" /\ n \notin busy
    /\ \A p \in Proc : pc[<<p, n>>] = "idle"
ClonedAlone ==
  \A n \in VM : pc[<<"prov", n>>] \in {"clone", "cloned"} =>
    \A p \in Proc \ {"prov"} : pc[<<p, n>>] \in {"idle", "wait"}
ReaperIsLate ==
  \A n \in VM : pc[<<"reaper", n>>] = "wait" => lease[n] \in {"expired", "none"}
GhostsLast == \A n \in VM : op[n] = "ghost" => pc[<<"prov", n>>] \notin Working
\* While a VM is being cloned it has its entry, its flag and its record, and nobody
\* else works on it; while its provisioning may still report, no entry says that
\* it is over, and where the entry was dropped the lease has gone before; a lease
\* needs a record.
OpsWell(n) ==
  /\ state[n] = "absent" \/ op[n] = "ghost" => ~Leased(n)
  /\ pc[<<"prov", n>>] \in Working =>
       op[n] \in {"cloning", "booting"} \/ (op[n] = "none" /\ ~Leased(n))
  /\ op[n] = "cloning" =>
       /\ pc[<<"prov", n>>] \in {"clone", "cloned", "fail"}
       /\ n \in busy /\ state[n] = "stopped" /\ Leased(n)
       /\ \A p \in Proc \ {"prov"} : pc[<<p, n>>] \in {"idle", "wait"}
LeaseInv ==
  /\ TypeOK /\ UnusedIdle /\ CloneProtected /\ ClonedAlone
  /\ ReaperIsLate /\ NeverReapedEarly /\ GhostsLast
  /\ \A n \in VM : OpsWell(n)

\* What is told of an agent's VM (agentViewOf): a VM that runs is "up" although its
\* provisioning has not judged it yet; one whose record or lease was lost is not
\* there, until a provisioning that still goes on reports its failure.  It goes on
\* as AgentVM says, whoever destroys the VM meanwhile and however late its
\* provisioning reports: a VM being provisioned is never told stopped, a failure
\* comes at the end of the provisioning or never, and what is gone then stays gone.
Seen(n) ==
  IF op[n] \in {"failed", "ghost"} THEN "failed"
  ELSE IF ~Leased(n) THEN "none"
  ELSE IF op[n] = "cloning" THEN "cloning"
  ELSE IF Up(n) \/ op[n] = "booting" THEN "up" ELSE "stopped"
Stage(n) ==
  IF n \notin used THEN "unasked"
  ELSE IF pc[<<"prov", n>>] \in Working THEN "pending" ELSE "over"
View == INSTANCE AgentVM WITH told <- [n \in VM |-> Seen(n)],
                              prov <- [n \in VM |-> Stage(n)]
ViewSpec == View!Spec

\* A VM that was given up, by a DELETE or after its lease, and whose provisioning is
\* over, never appears again (agentViewOf).
GivenUp(n) == Seen(n) = "none" /\ Stage(n) = "over"
GivenUpForGood == [][\A n \in VM : GivenUp(n) => GivenUp(n)']_vars

\* README.md:371 "every VM is deleted when its lease ends": a VM whose lease is
\* over is destroyed, whatever fails and whoever worked on it, unless somebody
\* keeps working on it.
AtWork(n) == \E x \in Proc \X {n} : x[1] \in Actor /\ pc[x] # "idle"
Reaped == \A n \in VM : []<>(lease[n] # "expired" \/ AtWork(n))

\* An agent that waits for its VM gets an answer: provisioning ends.
ProvisioningEnds ==
  \A n \in VM : (op[n] = "cloning") ~> (op[n] \notin {"cloning", "booting"})

-----------------------------------------------------------------------------
(* What the documentation says and the code does not keep *)

\* README.md:371 "so a forgotten VM never holds one of the host's two VM slots":
\* an agent's VM never runs without a lease that will end.
LeaseKept == \A n \in VM : tart[n] = "running" => Leased(n)
=============================================================================
