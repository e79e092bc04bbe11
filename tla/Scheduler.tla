----------------------------- MODULE Scheduler -----------------------------
(***************************************************************************)
(* The scheduler (scheduler.go) and the configuration handler that starts, *)
(* stops and steers it (handleConfig in handlers.go), among users who run  *)
(* and stop VMs by hand.                                                   *)
(*                                                                         *)
(* The VM operations are seen here as VmLife shows them: a first section   *)
(* that claims the VM, an outcome, and a transient state in between, which *)
(* is when m.busy holds the VM (module Lifecycle, for operations that keep *)
(* within maxOpAge).                                                       *)
(***************************************************************************)
EXTENDS Naturals, FiniteSets

CONSTANTS
  VM,          \* the VMs, numbered in the alphabetical order of their names
  HardMax,     \* hardMaxConcurrent (constants.go)
  Root,        \* Root[n]: the original VM that n is a snapshot of, or n itself
  Ticker,      \* the goroutines that run ticks: schedulerLoop, and those that
               \* resuming spawns, their number bounding the resumptions
  Loop,        \* schedulerLoop
  Template,    \* VMs that are never scheduled: TEMPLATE in the name, OCI images
  Leased,      \* VMs that an agent holds
  Cap,         \* the values MaxConcurrent takes
  Mode,        \* the values SchedulerMode takes
  Exclusions,  \* the values the list of excluded VMs takes
  Host,        \* the conditions tick reads: the clock, the disk, the memory
  Outside      \* whether users, and tart itself, start, stop and delete VMs

Modes == {"sequential", "random"}
HostState == [within : BOOLEAN, mounted : BOOLEAN, pressure : BOOLEAN]

ASSUME VMAssumption == VM \subseteq Nat \ {0} /\ IsFiniteSet(VM)
ASSUME HardMaxAssumption == HardMax \in Nat \ {0}
ASSUME RootAssumption == Root \in [VM -> VM]
ASSUME TickerAssumption == Loop \in Ticker
ASSUME KindsAssumption == Template \subseteq VM /\ Leased \subseteq VM
ASSUME CapAssumption == Cap \subseteq 1..HardMax
ASSUME ModeAssumption == Mode \subseteq Modes
ASSUME ExclusionsAssumption == Exclusions \subseteq SUBSET VM
ASSUME HostAssumption == Host \subseteq HostState
ASSUME OutsideAssumption == Outside \in BOOLEAN

VARIABLES
  state,       \* State of each record; "absent": no record
  stopAt,      \* StopAt: "none", or "ahead" of now, or "past"
  failed,      \* the VMs with BootFailed set
  cursor,      \* m.lastSequential, 0 for none
  paused, cap, mode, excluded,      \* the configuration
  host,        \* what the host is like now
  pc,          \* what each ticker does next
  toStop,      \* the VMs its tick has still to stop
  pick,        \* the VM its tick will start, 0 for none
  job          \* the VM it is stopping or starting inline, 0 for none

records == <<state, stopAt, failed, cursor>>
cfg == <<paused, cap, mode, excluded>>
ticks == <<pc, toStop, pick, job>>
vars == <<records, cfg, host, ticks>>

Settled == {"absent", "unset", "stopped", "running"}
Transient == {"starting", "stopping"}
PC == {"idle", "waited", "due", "tick"}

TypeOK ==
  /\ state \in [VM -> Settled \cup Transient]
  /\ stopAt \in [VM -> {"none", "ahead", "past"}]
  /\ failed \in SUBSET VM
  /\ cursor \in VM \cup {0}
  /\ paused \in BOOLEAN /\ cap \in Cap /\ mode \in Mode /\ excluded \in Exclusions
  /\ host \in Host
  /\ pc \in [Ticker -> PC]
  /\ toStop \in [Ticker -> SUBSET VM]
  /\ pick \in [Ticker -> VM \cup {0}]
  /\ job \in [Ticker -> VM \cup {0}]

Init ==
  /\ state = [n \in VM |-> "absent"]
  /\ stopAt = [n \in VM |-> "none"]
  /\ failed = {} /\ cursor = 0
  /\ paused \in BOOLEAN /\ cap \in Cap /\ mode \in Mode /\ excluded \in Exclusions
  /\ host \in Host
  /\ pc = [t \in Ticker |-> "idle"]
  /\ toStop = [t \in Ticker |-> {}]
  /\ pick = [t \in Ticker |-> 0]
  /\ job = [t \in Ticker |-> 0]

-----------------------------------------------------------------------------
(* What tick reads in its one section *)

In(s) == {n \in VM : state[n] = s}
Active == In("running") \cup In("starting")
Family(n) == {m \in VM : Root[m] = Root[n]}
FamilyFree(n) == (Family(n) \ {n}) \cap Active = {}
Busy(n) == state[n] \in Transient

\* A running VM that the tick stops: outside the daily hours any but a leased
\* one, within them one whose run window has run out.
DueByHours(n) ==                             \* mutant: the window forgotten
  state[n] = "running" /\ n \notin Leased /\ ~host.within
Due(n) ==
  /\ state[n] = "running" /\ n \notin Leased
  /\ ~host.within \/ stopAt[n] = "past"

\* eligibleForScheduler, and no member of the family active
Eligible(n) ==
  /\ state[n] = "stopped"
  /\ n \notin Template \cup Leased \cup excluded
  /\ Root[n] = n                              \* not a snapshot
  /\ FamilyFree(n)

\* Room for one more once the VMs that are due have stopped
RoomOffByOne ==                              \* mutant: <= for <
  Cardinality(In("running")) - Cardinality({n \in VM : Due(n)}) <= cap
Room == Cardinality(In("running")) - Cardinality({n \in VM : Due(n)}) < cap

Candidates ==
  LET able == IF host.within /\ host.mounted /\ Room
                THEN {n \in VM : Eligible(n)} ELSE {}
      fresh == able \ failed
  IN IF fresh # {} THEN fresh ELSE able      \* after a boot failure, another VM

NextSequential(c, last) ==
  LET later == {n \in c : n > last}
      from == IF later # {} THEN later ELSE c
  IN CHOOSE n \in from : \A m \in from : n <= m

Picks ==
  IF Candidates = {} THEN {0}
  ELSE IF mode = "sequential" THEN {NextSequential(Candidates, cursor)}
  ELSE Candidates

-----------------------------------------------------------------------------
(* The VM operations, as their callers see them *)

\* doRun's refusals: busy, family, ceiling, memory
CanStartAnyFamily(n) ==                      \* mutant: the family forgotten
  ~Busy(n) /\ Cardinality(Active \ {n}) < HardMax /\ ~host.pressure
CanStart(n) ==
  /\ ~Busy(n) /\ FamilyFree(n)
  /\ Cardinality(Active \ {n}) < HardMax
  /\ ~host.pressure

StartKeepsCursor(n) ==                       \* mutant: cursor not advanced
  /\ state' = [state EXCEPT ![n] = "starting"]
  /\ UNCHANGED <<stopAt, failed, cursor>>
Start(n) ==
  /\ state' = [state EXCEPT ![n] = "starting"]
  /\ cursor' = n
  /\ UNCHANGED <<stopAt, failed>>

\* A start that is refused leaves a record for an unknown name.
Refuse(n) ==
  /\ state' = [state EXCEPT ![n] =
        IF @ \in {"absent", "unset"}
          THEN IF host.pressure THEN "stopped" ELSE "unset"
          ELSE @]
  /\ UNCHANGED <<stopAt, failed, cursor>>

Stop(n) ==
  /\ state' = [state EXCEPT ![n] = "stopping"]
  /\ UNCHANGED <<stopAt, failed, cursor>>

Release(n) == job' = [t \in Ticker |-> IF job[t] = n THEN 0 ELSE job[t]]

Ends(n) == Release(n) /\ UNCHANGED <<cursor, cfg, host, pc, toStop, pick>>

Up(n) ==                \* booted: a fresh run window
  /\ state[n] = "starting"
  /\ state' = [state EXCEPT ![n] = "running"]
  /\ stopAt' = [stopAt EXCEPT ![n] = "ahead"]
  /\ failed' = failed \ {n}
  /\ Ends(n)

BootFails(n) ==
  /\ state[n] = "starting"
  /\ state' = [state EXCEPT ![n] = "stopped"]
  /\ stopAt' = [stopAt EXCEPT ![n] = "none"]
  /\ failed' = failed \cup {n}
  /\ Ends(n)

LaunchFails(n) ==       \* failOp
  /\ state[n] = "starting"
  /\ state' = [state EXCEPT ![n] = "stopped"]
  /\ UNCHANGED <<stopAt, failed>>
  /\ Ends(n)

Stopped(n) ==
  /\ state[n] = "stopping"
  /\ state' = [state EXCEPT ![n] = "stopped"]
  /\ stopAt' = [stopAt EXCEPT ![n] = "none"]
  /\ UNCHANGED failed
  /\ Ends(n)

-----------------------------------------------------------------------------
(* The scheduler *)

\* The loop's wait for the interval, in two parts since a configuration change
\* makes it begin again.
Wait ==
  /\ pc[Loop] = "idle"
  /\ pc' = [pc EXCEPT ![Loop] = "waited"]
  /\ UNCHANGED <<records, cfg, host, toStop, pick, job>>
IntervalEnds ==
  /\ pc[Loop] = "waited"
  /\ pc' = [pc EXCEPT ![Loop] = "due"]
  /\ UNCHANGED <<records, cfg, host, toStop, pick, job>>

TickPaused(t) ==
  /\ pc[t] = "due" /\ paused
  /\ pc' = [pc EXCEPT ![t] = "idle"]
  /\ UNCHANGED <<records, cfg, host, toStop, pick, job>>

\* The section under the lock, and the choice made from what it read: the
\* candidates, the mode and the cursor are locals from here on.
TickPlan(t) ==
  /\ pc[t] = "due" /\ ~paused
  /\ pc' = [pc EXCEPT ![t] = "tick"]
  /\ toStop' = [toStop EXCEPT ![t] = {n \in VM : Due(n)}]
  /\ \E p \in Picks : pick' = [pick EXCEPT ![t] = p]
  /\ UNCHANGED <<records, cfg, host, job>>

\* doStop, inline; nothing for a VM that is busy or gone
TickStopBusy(t, n) ==                        \* mutant: flag not looked at
  /\ pc[t] = "tick" /\ job[t] = 0 /\ n \in toStop[t]
  /\ toStop' = [toStop EXCEPT ![t] = @ \ {n}]
  /\ IF state[n] = "absent"
       THEN UNCHANGED <<records, job>>
       ELSE Stop(n) /\ job' = [job EXCEPT ![t] = n]
  /\ UNCHANGED <<cfg, host, pc, pick>>
TickStop(t, n) ==
  /\ pc[t] = "tick" /\ job[t] = 0 /\ n \in toStop[t]
  /\ toStop' = [toStop EXCEPT ![t] = @ \ {n}]
  /\ IF Busy(n) \/ state[n] = "absent"
       THEN UNCHANGED <<records, job>>
       ELSE Stop(n) /\ job' = [job EXCEPT ![t] = n]
  /\ UNCHANGED <<cfg, host, pc, pick>>

\* doRun, inline
TickStart(t) ==
  LET n == pick[t] IN
  /\ pc[t] = "tick" /\ job[t] = 0 /\ toStop[t] = {} /\ n # 0
  /\ pick' = [pick EXCEPT ![t] = 0]
  /\ IF CanStart(n)
       THEN Start(n) /\ job' = [job EXCEPT ![t] = n]
       ELSE Refuse(n) /\ UNCHANGED job
  /\ UNCHANGED <<cfg, host, pc, toStop>>

TickEnds(t) ==
  /\ pc[t] = "tick" /\ job[t] = 0 /\ toStop[t] = {} /\ pick[t] = 0
  /\ pc' = [pc EXCEPT ![t] = "idle"]
  /\ UNCHANGED <<records, cfg, host, toStop, pick, job>>

-----------------------------------------------------------------------------
(* handleConfig *)

Pauses(p) == p /\ ~paused
Resumes(p) == ~p /\ paused

\* Pausing clears the timers of the VMs that run, resuming sets those that are
\* not set.
TimerAfter(n, p) ==
  IF state[n] = "running" /\ Pauses(p) THEN "none"
  ELSE IF state[n] = "running" /\ Resumes(p) /\ stopAt[n] = "none" THEN "ahead"
  ELSE stopAt[n]

\* The reload channel makes a waiting loop begin its wait again, and resuming
\* spawns a tick of its own.
Woken == IF pc[Loop] = "waited" THEN [pc EXCEPT ![Loop] = "idle"] ELSE pc

Configure(p, c, md, ex) ==
  /\ paused' = p /\ cap' = c /\ mode' = md /\ excluded' = ex
  /\ stopAt' = [n \in VM |-> TimerAfter(n, p)]
  /\ IF Resumes(p)
       THEN \E t \in Ticker \ {Loop} :
              pc[t] = "idle" /\ pc' = [Woken EXCEPT ![t] = "due"]
       ELSE pc' = Woken
  /\ UNCHANGED <<state, failed, cursor, host, toStop, pick, job>>

-----------------------------------------------------------------------------
(* Users, tart and the host *)

UserRun(n) ==
  /\ Outside /\ CanStart(n)
  /\ Start(n)
  /\ UNCHANGED <<cfg, host, ticks>>

UserStop(n) ==
  /\ Outside /\ ~Busy(n) /\ state[n] # "absent"
  /\ Stop(n)
  /\ UNCHANGED <<cfg, host, ticks>>

ClearBootFailure(n) ==
  /\ Outside /\ n \in failed
  /\ failed' = failed \ {n}
  /\ UNCHANGED <<state, stopAt, cursor, cfg, host, ticks>>

\* reconcile: a guest has powered off, a VM has been made; outside the server
\* one was started or deleted.
Observe(n) ==
  /\ ~Busy(n)
  /\ \/ /\ state[n] \in {"absent", "unset", "running"}
        /\ state' = [state EXCEPT ![n] = "stopped"]
        /\ stopAt' = [stopAt EXCEPT ![n] = "none"]
        /\ UNCHANGED failed
     \/ /\ Outside /\ state[n] # "running"
        /\ state' = [state EXCEPT ![n] = "running"]
        /\ UNCHANGED <<stopAt, failed>>
     \/ /\ state[n] = "unset" \/ (Outside /\ state[n] = "stopped")
        /\ state' = [state EXCEPT ![n] = "absent"]
        /\ stopAt' = [stopAt EXCEPT ![n] = "none"]
        /\ failed' = failed \ {n}
  /\ UNCHANGED <<cursor, cfg, host, ticks>>

WindowPasses(n) ==
  /\ stopAt[n] = "ahead"
  /\ stopAt' = [stopAt EXCEPT ![n] = "past"]
  /\ UNCHANGED <<state, failed, cursor, cfg, host, ticks>>

HostChanges ==          \* the clock, checkStorage, the performance samples
  /\ host' \in Host \ {host}
  /\ UNCHANGED <<records, cfg, ticks>>

-----------------------------------------------------------------------------
OpEnds(n) == Up(n) \/ BootFails(n) \/ LaunchFails(n) \/ Stopped(n)
Tick(t) ==
  \/ TickPaused(t) \/ TickPlan(t) \/ TickStart(t) \/ TickEnds(t)
  \/ \E n \in VM : TickStop(t, n)
Configures ==
  \E p \in BOOLEAN, c \in Cap, md \in Mode, ex \in Exclusions : Configure(p, c, md, ex)
UserStep(n) == UserRun(n) \/ UserStop(n) \/ ClearBootFailure(n)

Next ==
  \/ Wait \/ IntervalEnds \/ (\E t \in Ticker : Tick(t))
  \/ Configures \/ HostChanges
  \/ \E n \in VM : OpEnds(n) \/ UserStep(n) \/ Observe(n) \/ WindowPasses(n)

Spec == Init /\ [][Next]_vars

\* The loop and its ticks go on, and time passes; operations end, since every
\* wait in them has a deadline.
FairSpec ==
  /\ Spec
  /\ WF_vars(Wait) /\ WF_vars(IntervalEnds)
  /\ \A t \in Ticker : WF_vars(Tick(t))
  /\ \A n \in VM : WF_vars(OpEnds(n)) /\ WF_vars(WindowPasses(n))

-----------------------------------------------------------------------------
(* Properties *)

\* A tick works inline on VMs that it has claimed, no two ticks on one, and it
\* never starts a VM before it has stopped the last of those that were due.
JobsInFlight ==
  \A t \in Ticker : job[t] # 0 =>
    /\ pc[t] = "tick" /\ Busy(job[t])
    /\ state[job[t]] = "starting" => toStop[t] = {}
    /\ \A s \in Ticker : job[s] = job[t] => s = t

\* scheduler.go:45 "start one fresh VM up to the concurrency limit": a start by
\* the scheduler leaves no more VMs active than MaxConcurrent.
StartsUnderCap ==
  [][\A t \in Ticker : TickStart(t) /\ job'[t] # 0 =>
       Cardinality(Active') <= cap]_vars

\* The states that the scheduler and the users move are those VmLife allows.
Shown == INSTANCE VmLife
ShownSpec == Shown!Spec

\* README.md:252: a running VM whose window is over, or that runs outside the
\* daily hours, does not run on while the scheduler is on: it is stopped, or
\* given a new window, or the day begins, unless the configuration is saved
\* again and again, since each time the loop's wait begins again.
Over(n) ==
  state[n] = "running" /\ n \notin Leased /\ (host.within => stopAt[n] = "past")
ExpiredStops ==
  \A n \in VM :
    \/ []<><<Configures>>_vars
    \/ (Over(n) /\ ~paused) ~> (~Over(n) \/ paused)

\* README.md:241 "rotate stopped local VMs in sequential order": in sequential
\* mode a VM that may be scheduled and boots is started again and again, if no
\* VM runs without a run window and the configuration is let alone.
Favourable(n) ==
  /\ ~paused /\ mode = "sequential" /\ n \notin excluded \cup Template \cup Leased
  /\ host.within /\ host.mounted /\ ~host.pressure
  /\ state[n] # "absent" /\ n \notin failed /\ Root[n] = n
  /\ \A m \in In("running") : stopAt[m] # "none" /\ m \notin Leased
EveryOneRuns ==
  \A n \in VM :
    \/ []<><<Configures>>_vars
    \/ []<>~Favourable(n)
    \/ []<>(state[n] = "starting")

=============================================================================
