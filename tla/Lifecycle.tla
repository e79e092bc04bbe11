----------------------------- MODULE Lifecycle -----------------------------
(***************************************************************************)
(* The Manager's VM operations (vmops.go), its view of tart (reconcile.go) *)
(* and the recovery of wedged operations (tart.go).                        *)
(*                                                                         *)
(* A step is one section under Manager.mu, or one call of the tart command *)
(* made without the lock.  tart is outside the repository: its VMs are the *)
(* variables tart, live and procs, changed by the calls the code makes and *)
(* by guests that power off.                                               *)
(***************************************************************************)
EXTENDS Naturals, FiniteSets

CONSTANTS
  VM,        \* the names a VM may have
  Thread,    \* the goroutines
  Worker,    \* those that run operations; the others only reconcile
  Monitor,   \* the one that does so every 10 seconds (run.go)
  NoVM,      \* the target of a goroutine that works on no VM
  HardMax,   \* hardMaxConcurrent (constants.go)
  Root,      \* Root[n]: the original VM that n is a snapshot of, or n itself
  SuspendableChoices,  \* what the setting or an argument says of --suspendable
  SlowOps    \* the kinds of operation that may outlive maxOpAge

Kinds == {"run", "stop", "suspend"}

ASSUME VMAssumption == IsFiniteSet(VM) /\ NoVM \notin VM
ASSUME ThreadAssumption == Worker \subseteq Thread /\ Monitor \in Thread \ Worker
ASSUME HardMaxAssumption == HardMax \in Nat \ {0}
ASSUME RootAssumption == Root \in [VM -> VM]
ASSUME ChoicesAssumption == SuspendableChoices \subseteq BOOLEAN
ASSUME SlowOpsAssumption == SlowOps \subseteq Kinds

VARIABLES
  rec,       \* m.vms: the record of each name
  busy,      \* m.busy
  overdue,   \* the busy names whose opStart is older than maxOpAge
  pc,        \* what each goroutine does next
  on,        \* the VM its operation is on
  susp,      \* its local: "suspendable" of doRun, "wasSuspended" of doStop
  held,      \* the *VM it kept from its first section is still the record
  view,      \* the list of tart it has read and not applied yet
  tart,      \* what tart knows of each name
  live,      \* its session or saved memory was launched --suspendable
  procs      \* m.runningCmds: names whose registered process runs the VM

mgr == <<rec, busy, overdue>>
thr == <<pc, on, susp, held, view>>
env == <<tart, live, procs>>
vars == <<mgr, thr, env>>

-----------------------------------------------------------------------------
(* Values *)

RunPC     == {"launch", "poll", "giveup"}
StopPC    == {"ask", "kill", "close"}
SuspendPC == {"suspend", "saving"}
HolderPC  == RunPC \cup StopPC \cup SuspendPC       \* holds m.busy
TargetPC == HolderPC \cup {"delete"}               \* works on one VM
PC == TargetPC \cup {"idle", "list", "apply"}

KindOf(l) == CASE l \in RunPC     -> "run"
               [] l \in StopPC    -> "stop"
               [] l \in SuspendPC -> "suspend"
               [] OTHER           -> "none"

TartState == {"absent", "stopped", "running", "suspended"}
VMState == TartState \cup {"unset", "starting", "stopping"}

\* A *VM, cut down to what the operations branch on: State, Suspendable, and
\* whether StopAt is set.  "absent": the name is not in m.vms.
Record == [state : VMState, suspendable : BOOLEAN, armed : BOOLEAN]
Fresh(s) == [state |-> s, suspendable |-> FALSE, armed |-> FALSE]
NoView == [n \in VM |-> "absent"]

Targets == \A t \in Thread : pc[t] \in TargetPC => on[t] \in VM

TypeOK ==
  /\ rec \in [VM -> Record]
  /\ busy \in SUBSET VM
  /\ overdue \in SUBSET VM
  /\ pc \in [Thread -> PC]
  /\ on \in [Thread -> VM \cup {NoVM}]
  /\ Targets
  /\ susp \in [Thread -> BOOLEAN]
  /\ held \in [Thread -> BOOLEAN]
  /\ view \in [Thread -> [VM -> TartState]]
  /\ tart \in [VM -> TartState]
  /\ live \in [VM -> BOOLEAN]
  /\ procs \in SUBSET VM

Init ==
  /\ rec = [n \in VM |-> Fresh("absent")]
  /\ busy = {} /\ overdue = {}
  /\ pc = [t \in Thread |-> "idle"]
  /\ on = [t \in Thread |-> NoVM]
  /\ susp = [t \in Thread |-> FALSE]
  /\ held = [t \in Thread |-> FALSE]
  /\ view = [t \in Thread |-> NoView]
  /\ tart \in [VM -> {"absent", "stopped"}]
  /\ live = [n \in VM |-> FALSE]
  /\ procs = {}

-----------------------------------------------------------------------------
(* What the sections read *)

Exists(n) == rec[n].state # "absent"
Active == {n \in VM : rec[n].state \in {"running", "starting"}}
Family(n) == {m \in VM : Root[m] = Root[n]}

\* familyConflictLocked: another member of the family runs or starts
FamilyFreeUnlessRunning(n) ==                         \* mutant: starting forgotten
  \A m \in Family(n) \ {n} : rec[m].state # "running"
FamilyFree(n) == (Family(n) \ {n}) \cap Active = {}
\* doRun's hard ceiling
SlotFreeOffByOne(n) == Cardinality(Active \ {n}) <= HardMax     \* mutant: > for >=
SlotFree(n) == Cardinality(Active \ {n}) < HardMax

-----------------------------------------------------------------------------
(* Building blocks of the operations *)

FreeEvenIfBusy(n) == TRUE                             \* mutant: no busy test
Free(n) == n \notin busy

Claim(t, n, label, s) ==        \* setBusy(n, true) and the transient state
  /\ pc[t] = "idle" /\ t \in Worker
  /\ Free(n)
  /\ rec' = [rec EXCEPT ![n].state = s]
  /\ busy' = busy \cup {n}
  /\ overdue' = overdue \ {n}
  /\ pc' = [pc EXCEPT ![t] = label]
  /\ on' = [on EXCEPT ![t] = n]
  /\ held' = [held EXCEPT ![t] = TRUE]

Finish(t) ==                    \* setBusy(n, false) and the goroutine ends
  /\ busy' = busy \ {on[t]}
  /\ overdue' = overdue \ {on[t]}
  /\ pc' = [pc EXCEPT ![t] = "idle"]
  /\ on' = [on EXCEPT ![t] = NoVM]
  /\ susp' = [susp EXCEPT ![t] = FALSE]
  /\ held' = [held EXCEPT ![t] = FALSE]
  /\ view' = view

Write(t, r) == rec' = IF held[t] THEN [rec EXCEPT ![on[t]] = r] ELSE rec

Goto(t, label) == pc' = [pc EXCEPT ![t] = label]

Goes(n, s) == tart' = [tart EXCEPT ![n] = s]     \* tart moves n to state s

\* `tart stop`: a running VM stops, a suspended one loses its saved memory; the
\* command may also fail or time out.
TartStop(n) ==
  \/ UNCHANGED env
  \/ /\ tart[n] \in {"running", "suspended"}
     /\ Goes(n, "stopped")
     /\ procs' = procs \ {n}
     /\ UNCHANGED live

\* SIGKILL of the registered `tart run` process, when there is one
Kill(n) ==
  /\ n \in procs
  /\ Goes(n, IF tart[n] = "running" THEN "stopped" ELSE tart[n])
  /\ procs' = procs \ {n}
  /\ UNCHANGED live

-----------------------------------------------------------------------------
(* doRun *)

RunClaim(t, n) ==
  /\ FamilyFree(n) /\ SlotFree(n)
  /\ Claim(t, n, "launch", "starting")
  \* the Suspendable setting, an argument, or the resumption of a saved VM
  /\ \E b \in SuspendableChoices :
       susp' = [susp EXCEPT ![t] = b \/ rec[n].state = "suspended"]
  /\ UNCHANGED <<view, env>>

\* Not started: a family member runs, or no slot.  The record made for an
\* unknown name stays, with an empty State.
RunRefused(n) ==
  /\ Free(n)
  /\ ~FamilyFree(n) \/ ~SlotFree(n)
  /\ ~Exists(n)
  /\ rec' = [rec EXCEPT ![n] = Fresh("unset")]
  /\ UNCHANGED <<busy, overdue, thr, env>>

\* Not started: the host is under critical memory pressure.
RunDeferred(n) ==
  /\ Free(n)
  /\ rec[n].state \in {"absent", "unset"}
  /\ rec' = [rec EXCEPT ![n].state = "stopped"]
  /\ UNCHANGED <<busy, overdue, thr, env>>

\* failOp: no active interface, or tart could not be executed.  It looks the
\* record up again by name.
RunFailsBusy(t) ==                                    \* mutant: flag left set
  /\ pc[t] = "launch"
  /\ rec' = [rec EXCEPT ![on[t]].state = "stopped"]
  /\ Goto(t, "idle")
  /\ on' = [on EXCEPT ![t] = NoVM]
  /\ held' = [held EXCEPT ![t] = FALSE]
  /\ UNCHANGED <<busy, overdue, susp, view, env>>
RunFails(t) ==
  /\ pc[t] = "launch"
  /\ rec' = [rec EXCEPT ![on[t]].state = IF @ = "absent" THEN @ ELSE "stopped"]
  /\ Finish(t)
  /\ UNCHANGED env

\* `tart run` is launched and registered.  It brings the VM up when the
\* framework has room and a saved memory meets the devices it was saved with;
\* else it exits, and its goroutine takes it out of runningCmds again.
RunLaunch(t) ==
  LET n == on[t] IN
  /\ pc[t] = "launch"
  /\ Goto(t, "poll")
  /\ \/ /\ tart[n] \in {"stopped", "suspended"}
        /\ tart[n] = "suspended" => live[n] /\ susp[t]
        /\ Cardinality({m \in VM : tart[m] = "running"}) < HardMax
        /\ Goes(n, "running")
        /\ live' = [live EXCEPT ![n] = susp[t]]
        /\ procs' = procs \cup {n}
     \/ /\ UNCHANGED <<tart, live>>
        /\ procs' = procs \ {n}
  /\ UNCHANGED <<mgr, on, susp, held, view>>

\* An IP was found, if only in the host's ARP table.
RunUp(t) ==
  /\ pc[t] = "poll"
  /\ Write(t, [state |-> "running", suspendable |-> susp[t], armed |-> TRUE])
  /\ Finish(t)
  /\ UNCHANGED env

\* No IP before the boot timeout: `tart stop`, ...
RunGiveUp(t) ==
  /\ pc[t] = "poll"
  /\ Goto(t, "giveup")
  /\ TartStop(on[t])
  /\ UNCHANGED <<mgr, on, susp, held, view>>

\* ... kill the process, and record the boot failure.
RunAbortKeepsState(t) ==                              \* mutant: still starting
  /\ pc[t] = "giveup"
  /\ Write(t, [rec[on[t]] EXCEPT !.armed = FALSE])
  /\ Finish(t)
  /\ IF on[t] \in procs THEN Kill(on[t]) ELSE UNCHANGED env
RunAbort(t) ==
  /\ pc[t] = "giveup"
  /\ Write(t, [rec[on[t]] EXCEPT !.state = "stopped", !.armed = FALSE])
  /\ Finish(t)
  /\ IF on[t] \in procs THEN Kill(on[t]) ELSE UNCHANGED env

-----------------------------------------------------------------------------
(* doStop *)

StopClaim(t, n) ==
  /\ Exists(n)
  /\ Claim(t, n, "ask", "stopping")
  /\ susp' = [susp EXCEPT ![t] = rec[n].state = "suspended"]
  /\ UNCHANGED <<view, env>>

\* isRunning says no: tart does not run n, or the list failed and its error
\* was dropped.  The second is possible whatever tart does.
StopAsk(t) ==       \* prioritized clean shutdown in the guest, seen to work
  LET n == on[t] IN
  /\ pc[t] = "ask" /\ ~susp[t]
  /\ Goto(t, "close")
  /\ \/ UNCHANGED env
     \/ /\ tart[n] = "running"
        /\ Goes(n, "stopped")
        /\ procs' = procs \ {n}
        /\ UNCHANGED live
  /\ UNCHANGED <<mgr, on, susp, held, view>>

StopTart(t) ==      \* `tart stop`, then the checks that it worked
  /\ pc[t] = "ask"
  /\ TartStop(on[t])
  /\ \/ Goto(t, "close")
     \/ tart'[on[t]] = "running" /\ Goto(t, "kill")
  /\ UNCHANGED <<mgr, on, susp, held, view>>

StopKill(t) ==      \* still running: kill the process, or a last `tart stop`
  /\ pc[t] = "kill"
  /\ Goto(t, "close")
  /\ IF on[t] \in procs THEN Kill(on[t]) ELSE TartStop(on[t])
  /\ UNCHANGED <<mgr, on, susp, held, view>>

StopDone(t) ==
  /\ pc[t] = "close"
  /\ Write(t, [rec[on[t]] EXCEPT !.state = "stopped", !.armed = FALSE])
  /\ Finish(t)
  /\ UNCHANGED env

-----------------------------------------------------------------------------
(* doSuspend *)

SuspendClaim(t, n) ==
  /\ rec[n].state = "running" /\ rec[n].suspendable
  /\ Claim(t, n, "suspend", "stopping")
  /\ UNCHANGED <<susp, view, env>>

\* `tart suspend` failed or timed out, perhaps after the memory was saved
SuspendFails(t) ==
  LET n == on[t] IN
  /\ pc[t] = "suspend"
  /\ Write(t, [rec[n] EXCEPT !.state = "running"])
  /\ Finish(t)
  /\ \/ UNCHANGED env
     \/ /\ tart[n] = "running"
        /\ Goes(n, "suspended")
        /\ procs' = procs \ {n}
        /\ UNCHANGED live

\* `tart suspend` succeeded; the VM leaves memory at once, or not within the
\* 30 seconds the operation waits for that
SuspendTart(t) ==
  LET n == on[t] IN
  /\ pc[t] = "suspend" /\ tart[n] = "running"
  /\ Goto(t, "saving")
  /\ \/ UNCHANGED env
     \/ /\ Goes(n, "suspended")
        /\ procs' = procs \ {n}
        /\ UNCHANGED live
  /\ UNCHANGED <<mgr, on, susp, held, view>>

SuspendDone(t) ==   \* finishVMRun, which looks the record up by name
  LET n == on[t] IN
  /\ pc[t] = "saving"
  /\ rec' = IF Exists(n)
              THEN [rec EXCEPT ![n].state = "suspended", ![n].armed = FALSE]
              ELSE rec
  /\ Finish(t)
  /\ UNCHANGED env

-----------------------------------------------------------------------------
(* deleteVM of a VM that has no snapshots and is none *)

DeleteCheck(t, n) ==
  /\ pc[t] = "idle" /\ t \in Worker
  /\ Family(n) = {n}
  /\ n \notin Active \cup busy                       \* isActive
  /\ Goto(t, "delete")
  /\ on' = [on EXCEPT ![t] = n]
  /\ UNCHANGED <<mgr, susp, held, view, env>>

DeleteTart(t) ==    \* tart refuses to delete a running VM
  LET n == on[t] IN
  /\ pc[t] = "delete"
  /\ Goto(t, "list")
  /\ on' = [on EXCEPT ![t] = NoVM]
  /\ \/ UNCHANGED env
     \/ /\ tart[n] # "running"
        /\ Goes(n, "absent")
        /\ live' = [live EXCEPT ![n] = FALSE]
        /\ UNCHANGED procs
  /\ UNCHANGED <<mgr, susp, held, view>>

-----------------------------------------------------------------------------
(* healStuck and reconcile *)

\* The monitor's cycle, and "Refresh VM status" (forceRefresh)
HealClearsNothing(t) ==                               \* mutant: busy not cleared
  /\ pc[t] = "idle" /\ t \notin Worker
  /\ Goto(t, "list")
  /\ UNCHANGED <<mgr, on, susp, held, view, env>>
Heal(t) ==
  /\ pc[t] = "idle" /\ t \notin Worker
  /\ busy' = busy \ overdue
  /\ overdue' = {}
  /\ Goto(t, "list")
  /\ UNCHANGED <<rec, on, susp, held, view, env>>

\* `tart list`, run before the lock is taken.  A goroutine other than the
\* monitor may begin here: a tick, or the end of a `tart run` process; one that
\* deletes comes here after it.
ReconList(t) ==
  /\ pc[t] = "list" \/ (pc[t] = "idle" /\ t \in Worker)
  /\ Goto(t, "apply")
  /\ view' = [view EXCEPT ![t] = tart]
  /\ UNCHANGED <<mgr, on, susp, held, env>>

ReconListFails(t) ==
  /\ pc[t] = "list"
  /\ Goto(t, "idle")
  /\ UNCHANGED <<mgr, on, susp, held, view, env>>

\* What the list says of n, taken over: only a VM that runs keeps its timers.
ObservedKeepsGone(n, s) == [rec[n] EXCEPT !.state = IF s = "absent" THEN @ ELSE s]
                                                      \* mutant: nothing dropped
Observed(n, s) ==
  CASE s = "absent"  -> Fresh("absent")
    [] s = "running" -> [rec[n] EXCEPT !.state = s]
    [] OTHER -> [state |-> s,
                 suspendable |-> s = "suspended" /\ rec[n].suspendable,
                 armed |-> FALSE]

\* A busy VM is left alone, except that an unknown one gets a record.
ReconciledBusyToo(n, s) == Observed(n, s)             \* mutant: no busy test
Reconciled(n, s) ==
  IF n \notin busy THEN Observed(n, s)
  ELSE IF s # "absent" /\ ~Exists(n) THEN Fresh("unset") ELSE rec[n]

ReconApply(t) ==
  /\ pc[t] = "apply"
  /\ rec' = [n \in VM |-> Reconciled(n, view[t][n])]
  /\ held' = [s \in Thread |->
                held[s] /\ (on[s] \in VM => rec'[on[s]].state # "absent")]
  /\ Goto(t, "idle")
  /\ view' = [view EXCEPT ![t] = NoView]
  /\ UNCHANGED <<busy, overdue, on, susp, env>>

-----------------------------------------------------------------------------
(* Time, guests, and VMs that are made outside these operations *)

Ages(n) ==          \* maxOpAge passes with the operation still in flight
  /\ n \in busy \ overdue
  /\ \E t \in Thread : on[t] = n /\ KindOf(pc[t]) \in SlowOps
  /\ overdue' = overdue \cup {n}
  /\ UNCHANGED <<rec, busy, thr, env>>

GuestPowersOff(n) ==
  /\ tart[n] = "running"
  /\ Goes(n, "stopped")
  /\ procs' = procs \ {n}
  /\ UNCHANGED <<live, mgr, thr>>

TartCreates(n) ==   \* `tart clone`, `create` or `pull` by a create task
  /\ tart[n] = "absent"
  /\ Goes(n, "stopped")
  /\ UNCHANGED <<live, procs, mgr, thr>>

-----------------------------------------------------------------------------
Begin(t, n) == RunClaim(t, n) \/ StopClaim(t, n) \/ SuspendClaim(t, n)

RunStep(t) == RunFails(t) \/ RunLaunch(t) \/ RunUp(t) \/ RunGiveUp(t) \/ RunAbort(t)
StopStep(t) == StopAsk(t) \/ StopTart(t) \/ StopKill(t) \/ StopDone(t)
SuspendStep(t) == SuspendFails(t) \/ SuspendTart(t) \/ SuspendDone(t)
DeleteStep(t) == (\E n \in VM : DeleteCheck(t, n)) \/ DeleteTart(t)
ReconStep(t) == Heal(t) \/ ReconList(t) \/ ReconListFails(t) \/ ReconApply(t)

ThreadStep(t) ==
  \/ \E n \in VM : Begin(t, n)
  \/ RunStep(t) \/ StopStep(t) \/ SuspendStep(t) \/ DeleteStep(t) \/ ReconStep(t)

VMStep(n) ==
  RunRefused(n) \/ RunDeferred(n) \/ Ages(n) \/ GuestPowersOff(n) \/ TartCreates(n)

Next == (\E t \in Thread : ThreadStep(t)) \/ (\E n \in VM : VMStep(n))

Spec == Init /\ [][Next]_vars

\* What goes on without anyone's help: the monitor's loop, `tart list` working
\* again and again, and time.  No operation is assumed to make progress.
MonitorRuns ==
  /\ WF_vars(Heal(Monitor)) /\ WF_vars(ReconApply(Monitor))
  /\ SF_vars(ReconList(Monitor))
  /\ \A n \in VM : WF_vars(Ages(n))

FairSpec == Spec /\ MonitorRuns

-----------------------------------------------------------------------------
(* Properties *)

Holders == {t \in Thread : pc[t] \in HolderPC}

\* No two operations are in flight on one VM, and the busy flags are exactly
\* the VMs that have one: a flag is neither lost nor left behind (vmops.go:15).
MutualExclusion ==
  /\ \A s, t \in Holders : on[s] = on[t] => s = t
  /\ busy = {on[t] : t \in Holders}

\* A record says "starting" or "stopping" only while the operation that wrote
\* it is in flight and still owns the record it will write its outcome to:
\* no reconcile, delete or second operation gets in between.
TransientOwned ==
  \A n \in VM : rec[n].state \in {"starting", "stopping"} =>
    \E t \in Holders :
      /\ on[t] = n /\ held[t]
      /\ rec[n].state = "starting" <=> pc[t] \in RunPC

\* The inductive invariant behind the two (module LifecycleProofs), one busy
\* operation at a time being all that protects a record.
ShownBy(l) == IF l \in RunPC THEN "starting" ELSE "stopping"

OwnersWrite ==      \* an operation holds its flag, its record and its state
  \A t \in Holders : /\ on[t] \in busy /\ held[t]
                    /\ rec[on[t]].state = ShownBy(pc[t])
OwnersDiffer == \A s, t \in Holders : on[s] = on[t] => s = t
FlagsOwned == \A n \in busy : \E t \in Holders : on[t] = n
OthersSettled ==
  \A n \in VM \ busy : rec[n].state \notin {"starting", "stopping"}

OpInv ==
  TypeOK /\ overdue = {} /\ OwnersWrite /\ OwnersDiffer /\ FlagsOwned /\ OthersSettled

\* Even when operations outlive maxOpAge and their flags are cleared and taken
\* again, no VM is left busy by a goroutine that is gone: every busy flag has an
\* operation in flight that will clear it.
NoOrphanBusy == busy \subseteq {on[t] : t \in Holders}

\* The state shown for each VM moves as VmLife promises.
Shown == INSTANCE VmLife WITH state <- [n \in VM |-> rec[n].state]
ShownSpec == Shown!Spec

\* However operations, failures and late lists interleave, no more than HardMax VMs
\* are starting at once, and never two of a family.
StartsBounded == Shown!StartsBounded

\* tart.go:282 "so a VM can't get wedged in starting/stopping forever": whatever
\* operations hang, a VM leaves its transient state again and again, unless
\* someone begins operations on it again and again.
WedgedHeals ==
  \A n \in VM : \/ []<>(rec[n].state \notin {"starting", "stopping"})
               \/ []<><<\E t \in Worker : Begin(t, n)>>_vars

\* run.go:82 "self-corrects": once no operation or delete is in flight, the
\* records come to agree with tart again and again, and a record made for a name
\* tart does not know is dropped.
Converges ==
  <>[](\A t \in Worker : pc[t] = "idle") => []<>(\A n \in VM : rec[n].state = tart[n])

-----------------------------------------------------------------------------
(* What the code's comments say and its steps do not keep *)

\* snapshots.go:28: a VM and its snapshots share one MAC address and never run
\* at the same time.
NeverTogether ==
  \A m, n \in VM : Root[m] = Root[n] /\ tart[m] = "running" /\ tart[n] = "running" => m = n
=============================================================================
