-------------------------- MODULE SchedulerProofs --------------------------
(***************************************************************************)
(* Theorems about Scheduler for every set of VMs, ticks and settings.      *)
(***************************************************************************)
EXTENDS Scheduler, FiniteSetTheorems, WellFoundedInduction, TLAPS

-----------------------------------------------------------------------------
(* nextSequential *)

\* Every set of VMs has a first one in alphabetical order.
LEMMA FirstExists ==
  ASSUME NEW S, S \subseteq VM, S # {}
  PROVE  \E n \in S : \A m \in S : n <= m
<1>1. S \subseteq Nat
  BY VMAssumption DEF VMAssumption
<1> DEFINE R == {p \in Nat \X Nat : p[1] < p[2]}
<1>2. IsWellFoundedOn(R, Nat)
  <2>1. R = OpToRel(<, Nat)
    BY DEF OpToRel
  <2> QED BY <2>1, NatLessThanWellFounded, Zenon
<1>3. PICK n \in S : \A m \in S : <<m, n>> \notin R
  <2> HIDE DEF R
  <2> QED BY <1>1, <1>2, WFMin
<1>4. ASSUME NEW m \in S PROVE n <= m
  <2>1. m \in Nat /\ n \in Nat /\ <<m, n>> \in Nat \X Nat
    BY <1>1
  <2>2. m < n => <<m, n>> \in R
    <3> DEFINE p == <<m, n>>
    <3>1. p \in Nat \X Nat /\ p[1] = m /\ p[2] = n
      BY <2>1
    <3> HIDE DEF p
    <3>2. m < n => p \in R
      BY <3>1
    <3> QED BY <3>2 DEF p
  <2> QED BY <1>3, <2>1, <2>2
<1> QED BY <1>4

\* The pick is a candidate, and every candidate skipped by it comes before the
\* cursor: candidates get their turn in order.
LEMMA NextInTurn ==
  ASSUME NEW c, c \subseteq VM, c # {}, NEW last \in Nat
  PROVE  /\ NextSequential(c, last) \in c
         /\ \A n \in c : n > last =>
              /\ NextSequential(c, last) > last
              /\ NextSequential(c, last) <= n
<1> DEFINE later == {n \in c : n > last}
           from == IF later # {} THEN later ELSE c
<1>1. from \subseteq VM /\ from # {} /\ from \subseteq c
  OBVIOUS
<1>2. \E n \in from : \A m \in from : n <= m
  BY <1>1, FirstExists
<1>3. NextSequential(c, last) \in from /\ \A m \in from : NextSequential(c, last) <= m
  <2> HIDE DEF from
  <2>1. NextSequential(c, last) = CHOOSE n \in from : \A m \in from : n <= m
    BY DEF NextSequential, from
  <2> QED BY <1>2, <2>1
<1> QED BY <1>1, <1>3

-----------------------------------------------------------------------------
(* Type correctness *)

LEMMA PicksType ==
  ASSUME TypeOK
  PROVE  Picks \subseteq VM \cup {0}
<1>1. Candidates \subseteq VM
  BY DEF Candidates
<1>2. cursor \in Nat
  BY VMAssumption DEF VMAssumption, TypeOK
<1>3. Candidates # {} => NextSequential(Candidates, cursor) \in VM
  BY <1>1, <1>2, NextInTurn
<1> QED BY <1>1, <1>3 DEF Picks

LEMMA NextType == TypeOK /\ [Next]_vars => TypeOK'
<1> SUFFICES ASSUME TypeOK, [Next]_vars PROVE TypeOK'
  OBVIOUS
<1> USE DEF TypeOK, records, cfg, ticks, Settled, Transient, PC
<1>1. CASE Wait \/ IntervalEnds
  BY <1>1 DEF Wait, IntervalEnds
<1>2. ASSUME NEW t \in Ticker, Tick(t) PROVE TypeOK'
  <2>1. CASE TickPaused(t) \/ TickEnds(t)
    BY <2>1 DEF TickPaused, TickEnds
  <2>2. CASE TickPlan(t)
    BY <2>2, PicksType DEF TickPlan
  <2>3. CASE TickStart(t)
    <3>1. pick[t] \in VM
      BY <2>3 DEF TickStart
    <3>2. state' \in [VM -> Settled \cup Transient]
      BY <2>3, <3>1 DEF TickStart, Start, Refuse
    <3> QED BY <2>3, <3>1, <3>2 DEF TickStart, Start, Refuse
  <2>4. ASSUME NEW n \in VM, TickStop(t, n) PROVE TypeOK'
    BY <2>4 DEF TickStop, Stop
  <2> QED BY <1>2, <2>1, <2>2, <2>3, <2>4 DEF Tick
<1>3. CASE Configures
  <2> PICK p \in BOOLEAN, c \in Cap, md \in Mode, ex \in Exclusions : Configure(p, c, md, ex)
    BY <1>3 DEF Configures
  <2>1. stopAt' \in [VM -> {"none", "ahead", "past"}]
    BY DEF Configure, TimerAfter
  <2>2. pc' \in [Ticker -> PC]
    BY DEF Configure, Woken
  <2> QED BY <2>1, <2>2 DEF Configure
<1>4. CASE HostChanges
  BY <1>4 DEF HostChanges
<1>5. ASSUME NEW n \in VM, OpEnds(n) PROVE TypeOK'
  <2>1. job' \in [Ticker -> VM \cup {0}]
    BY <1>5 DEF OpEnds, Up, BootFails, LaunchFails, Stopped, Ends, Release
  <2> QED BY <1>5, <2>1 DEF OpEnds, Up, BootFails, LaunchFails, Stopped, Ends
<1>6. ASSUME NEW n \in VM, UserStep(n) PROVE TypeOK'
  BY <1>6 DEF UserStep, UserRun, UserStop, ClearBootFailure, Start, Stop
<1>7. ASSUME NEW n \in VM, Observe(n) PROVE TypeOK'
  BY <1>7 DEF Observe
<1>8. ASSUME NEW n \in VM, WindowPasses(n) PROVE TypeOK'
  BY <1>8 DEF WindowPasses
<1>9. CASE UNCHANGED vars
  BY <1>9 DEF vars
<1> QED BY <1>1, <1>2, <1>3, <1>4, <1>5, <1>6, <1>7, <1>8, <1>9 DEF Next

\* The variables keep their types; in particular a tick never picks a name that
\* is none of the VMs, whatever the candidates and the cursor are.
THEOREM TypeCorrect == Spec => []TypeOK
<1>1. Init => TypeOK
  BY DEF Init, TypeOK, Settled, PC
<1> QED BY <1>1, NextType, PTL DEF Spec
-----------------------------------------------------------------------------
(* What ticks are working on *)

Inv == TypeOK /\ JobsInFlight

\* A step that claims, ends and moves nothing of a tick keeps its job in flight.
LEMMA SameJobs ==
  ASSUME Inv, UNCHANGED <<toStop, job>>,
         \A t \in Ticker : pc[t] = "tick" => pc'[t] = "tick",
         \A n \in VM : Busy(n) => state'[n] = state[n]
  PROVE  JobsInFlight'
BY DEF Inv, TypeOK, JobsInFlight, Busy

LEMMA TickJobs ==
  ASSUME Inv, TypeOK', NEW t \in Ticker, Tick(t)
  PROVE  JobsInFlight'
<1>1. CASE TickPaused(t)
  BY <1>1, SameJobs DEF TickPaused, records, Inv, TypeOK
<1>2. CASE TickPlan(t)
  <2>1. job[t] = 0
    BY <1>2 DEF TickPlan, Inv, JobsInFlight
  <2> QED BY <1>2, <2>1 DEF TickPlan, records, Inv, JobsInFlight, TypeOK, Busy
<1>3. CASE TickStart(t)
  <2>1. pick[t] \in VM
    BY <1>3 DEF TickStart, Inv, TypeOK
  <2>2. CASE CanStart(pick[t])
    <3>1. /\ ~Busy(pick[t]) /\ state' = [state EXCEPT ![pick[t]] = "starting"]
          /\ job' = [job EXCEPT ![t] = pick[t]] /\ UNCHANGED <<pc, toStop>>
      BY <1>3, <2>2 DEF TickStart, CanStart, Start
    <3> QED BY <1>3, <2>1, <3>1
            DEF TickStart, Inv, JobsInFlight, TypeOK, Busy, Transient
  <2>3. CASE ~CanStart(pick[t])
    <3>1. \A n \in VM : Busy(n) => state'[n] = state[n]
      BY <1>3, <2>3 DEF TickStart, Refuse, Busy, Transient, Inv, TypeOK
    <3> QED BY <1>3, <2>3, <3>1, SameJobs DEF TickStart
  <2> QED BY <2>2, <2>3
<1>4. CASE TickEnds(t)
  BY <1>4 DEF TickEnds, records, Inv, JobsInFlight, TypeOK, Busy
<1>5. ASSUME NEW n \in VM, TickStop(t, n) PROVE JobsInFlight'
  <2>1. CASE Busy(n) \/ state[n] = "absent"
    BY <1>5, <2>1 DEF TickStop, records, Inv, JobsInFlight, TypeOK, Busy
  <2>2. CASE ~(Busy(n) \/ state[n] = "absent")
    BY <1>5, <2>2 DEF TickStop, Stop, Inv, JobsInFlight, TypeOK, Busy, Transient
  <2> QED BY <2>1, <2>2
<1> QED BY <1>1, <1>2, <1>3, <1>4, <1>5 DEF Tick

LEMMA NextJobs == Inv /\ [Next]_vars => JobsInFlight'
<1> SUFFICES ASSUME Inv, [Next]_vars PROVE JobsInFlight'
  OBVIOUS
<1>0. TypeOK'
  BY NextType DEF Inv
<1>1. CASE Wait \/ IntervalEnds
  BY <1>1, SameJobs DEF Wait, IntervalEnds, records, Inv, TypeOK
<1>2. ASSUME NEW t \in Ticker, Tick(t) PROVE JobsInFlight'
  BY <1>0, <1>2, TickJobs
<1>3. CASE Configures
  <2> PICK p \in BOOLEAN, c \in Cap, md \in Mode, ex \in Exclusions : Configure(p, c, md, ex)
    BY <1>3 DEF Configures
  <2>1. \A t \in Ticker : pc[t] = "tick" => pc'[t] = "tick"
    BY DEF Configure, Woken, Inv, TypeOK
  <2> QED BY <2>1, SameJobs DEF Configure
<1>4. CASE HostChanges
  BY <1>4, SameJobs DEF HostChanges, records, ticks
<1>5. ASSUME NEW n \in VM, OpEnds(n) PROVE JobsInFlight'
  <2>1. /\ \A m \in VM \ {n} : state'[m] = state[m]
        /\ \A t \in Ticker : job'[t] = IF job[t] = n THEN 0 ELSE job[t]
        /\ UNCHANGED <<pc, toStop>>
    BY <1>5 DEF OpEnds, Up, BootFails, LaunchFails, Stopped, Ends, Release, Inv, TypeOK
  <2>2. 0 \notin VM
    BY VMAssumption DEF VMAssumption
  <2> QED BY <2>1, <2>2 DEF Inv, JobsInFlight, TypeOK, Busy
<1>6. ASSUME NEW n \in VM, UserStep(n) PROVE JobsInFlight'
  <2>1. \A m \in VM : Busy(m) => state'[m] = state[m]
    BY <1>6 DEF UserStep, UserRun, UserStop, ClearBootFailure, CanStart, Start, Stop,
                Busy, Inv, TypeOK
  <2> QED BY <1>6, <2>1, SameJobs DEF UserStep, UserRun, UserStop, ClearBootFailure, ticks
<1>7. ASSUME NEW n \in VM, Observe(n) PROVE JobsInFlight'
  <2>1. \A m \in VM : Busy(m) => state'[m] = state[m]
    BY <1>7 DEF Observe, Busy, Inv, TypeOK
  <2> QED BY <1>7, <2>1, SameJobs DEF Observe, ticks
<1>8. ASSUME NEW n \in VM, WindowPasses(n) PROVE JobsInFlight'
  BY <1>8, SameJobs DEF WindowPasses, ticks
<1>9. CASE UNCHANGED vars
  BY <1>9, SameJobs DEF vars, records, ticks
<1> QED BY <1>1, <1>2, <1>3, <1>4, <1>5, <1>6, <1>7, <1>8, <1>9 DEF Next

LEMMA InvAlways == Spec => []Inv
<1>1. Init => Inv
  BY DEF Init, Inv, TypeOK, JobsInFlight, Settled, PC
<1>2. Inv /\ [Next]_vars => Inv'
  BY NextType, NextJobs DEF Inv
<1> QED BY <1>1, <1>2, PTL DEF Spec

\* Whatever users do and however many ticks run, a tick works on a VM that it has
\* claimed, alone, and starts one only after it has stopped those that were due.
THEOREM TicksKeepToTheirJobs == Spec => []JobsInFlight
BY InvAlways, PTL DEF Inv

-----------------------------------------------------------------------------
(* The states shown move as VmLife promises *)

\* doRun's refusals bound the VMs that are starting, whoever called it.
LEMMA StartShown ==
  ASSUME TypeOK, NEW n \in VM, CanStart(n), Start(n)
  PROVE  Shown!Start(n)
<1>1. state[n] \in Shown!Settled
  BY DEF TypeOK, CanStart, Busy, Settled, Transient, Shown!Settled
<1>2. Shown!Starting \subseteq Active \ {n}
  BY <1>1 DEF Shown!Starting, Shown!Settled, Active, In
<1>3. Cardinality(Shown!Starting) < HardMax
  <2>1. IsFiniteSet(Active \ {n})
    BY FS_Subset, VMAssumption DEF VMAssumption, Active, In
  <2>2. /\ Cardinality(Shown!Starting) \in Nat
        /\ Cardinality(Active \ {n}) \in Nat
        /\ Cardinality(Shown!Starting) =< Cardinality(Active \ {n})
    BY <1>2, <2>1, FS_Subset, FS_CardinalityType
  <2>3. Cardinality(Active \ {n}) < HardMax
    BY DEF CanStart
  <2> QED BY <2>2, <2>3, HardMaxAssumption DEF HardMaxAssumption
<1>4. Shown!Cardinality(Shown!Starting) = Cardinality(Shown!Starting)
  BY DEF Shown!Cardinality, Cardinality
<1>5. Shown!Family(n) \cap Shown!Starting = {}
  BY <1>2 DEF CanStart, FamilyFree, Family, Shown!Family
<1> QED BY <1>1, <1>3, <1>4, <1>5 DEF Start, Shown!Start

LEMMA StopShown ==
  ASSUME TypeOK, NEW n \in VM, ~Busy(n), state[n] # "absent", Stop(n)
  PROVE  Shown!Stop(n)
BY DEF TypeOK, Busy, Stop, Settled, Transient, Shown!Stop, Shown!Settled

\* A step that moves settled VMs among the settled states is an observation.
LEMMA ObserveShown ==
  ASSUME TypeOK, TypeOK',
         \A n \in VM : IF Busy(n) THEN state'[n] = state[n] ELSE state'[n] \in Settled
  PROVE  Shown!Observe
BY DEF TypeOK, Busy, Settled, Transient, Shown!Observe, Shown!Settled, Shown!Transient

LEMMA NextShown == TypeOK /\ TypeOK' /\ [Next]_vars => [Shown!Next]_state
<1> SUFFICES ASSUME TypeOK, TypeOK', Next PROVE Shown!Next \/ UNCHANGED state
  BY DEF vars, records
<1> USE DEF Shown!Next
<1>1. CASE Wait \/ IntervalEnds \/ Configures \/ HostChanges
  BY <1>1 DEF Wait, IntervalEnds, Configures, Configure, HostChanges, records
<1>2. ASSUME NEW t \in Ticker, Tick(t) PROVE Shown!Next \/ UNCHANGED state
  <2>1. CASE TickPaused(t) \/ TickPlan(t) \/ TickEnds(t)
    BY <2>1 DEF TickPaused, TickPlan, TickEnds, records
  <2>2. CASE TickStart(t) /\ CanStart(pick[t])
    <3>1. pick[t] \in VM /\ Start(pick[t])
      BY <2>2 DEF TickStart, TypeOK
    <3> QED BY <2>2, <3>1, StartShown
  <2>3. CASE TickStart(t) /\ ~CanStart(pick[t])
    <3>1. pick[t] \in VM /\ Refuse(pick[t])
      BY <2>3 DEF TickStart, TypeOK
    <3>2. \A n \in VM : IF Busy(n) THEN state'[n] = state[n] ELSE state'[n] \in Settled
      BY <3>1 DEF Refuse, TypeOK, Busy, Settled, Transient
    <3> QED BY <3>2, ObserveShown
  <2>4. ASSUME NEW n \in VM, TickStop(t, n) PROVE Shown!Next \/ UNCHANGED state
    BY <2>4, StopShown DEF TickStop, records
  <2> QED BY <1>2, <2>1, <2>2, <2>3, <2>4 DEF Tick
<1>3. ASSUME NEW n \in VM, OpEnds(n) PROVE Shown!Next
  <2>1. Shown!Started(n) \/ Shown!Stopped(n)
    BY <1>3 DEF OpEnds, Up, BootFails, LaunchFails, Stopped, Shown!Started, Shown!Stopped
  <2> QED BY <2>1
<1>4. ASSUME NEW n \in VM, UserStep(n) PROVE Shown!Next \/ UNCHANGED state
  BY <1>4, StartShown, StopShown DEF UserStep, UserRun, UserStop, ClearBootFailure
<1>5. ASSUME NEW n \in VM, Observe(n) PROVE Shown!Next
  <2>1. \A m \in VM : IF Busy(m) THEN state'[m] = state[m] ELSE state'[m] \in Settled
    BY <1>5 DEF Observe, TypeOK, Busy, Settled, Transient
  <2> QED BY <2>1, ObserveShown
<1>6. ASSUME NEW n \in VM, WindowPasses(n) PROVE UNCHANGED state
  BY <1>6 DEF WindowPasses
<1> QED BY <1>1, <1>2, <1>3, <1>4, <1>5, <1>6 DEF Next

\* The scheduler and the users together move the states of VMs only as VmLife
\* allows, so that a client may rely on it however VMs come to be started.
THEOREM SchedulerImplementsVmLife == Spec => ShownSpec
<1>1. Init => Shown!Init
  BY DEF Init, Shown!Init
<1> QED BY <1>1, NextShown, TypeCorrect, PTL DEF Spec, ShownSpec, Shown!Spec
-----------------------------------------------------------------------------
(* The scheduler alone keeps to MaxConcurrent *)

\* With one tick at a time and nobody else starting or stopping VMs, a busy VM
\* is the tick's own; and while a pick stands there is room for it beside the
\* VMs that are active and not about to be stopped.
AloneInv ==
  /\ \A n \in VM : Busy(n) => job[Loop] = n
  /\ Cardinality(Active) <= cap
  /\ pick[Loop] # 0 => /\ pc[Loop] = "tick"
                       /\ Cardinality(Active \ toStop[Loop]) < cap
                       /\ \A n \in VM : state[n] # "starting"

LEMMA Smaller ==
  ASSUME NEW S, S \subseteq VM, NEW T, T \subseteq S
  PROVE  /\ IsFiniteSet(S) /\ IsFiniteSet(T)
         /\ Cardinality(S) \in Nat /\ Cardinality(T) \in Nat
         /\ Cardinality(T) <= Cardinality(S)
<1>1. IsFiniteSet(S)
  BY VMAssumption, FS_Subset DEF VMAssumption
<1> QED BY <1>1, FS_Subset, FS_CardinalityType

LEMMA CapType == ASSUME TypeOK PROVE cap \in Nat
BY CapAssumption, HardMaxAssumption DEF TypeOK, CapAssumption, HardMaxAssumption

\* A step that makes no VM active, and claims none, keeps the invariant.
LEMMA FewerActive ==
  ASSUME TypeOK, AloneInv, UNCHANGED cap,
         Active' \subseteq Active,
         \A n \in VM : Busy(n)' => job'[Loop] = n,
         pick'[Loop] # 0 =>
           /\ pick[Loop] # 0 /\ pc'[Loop] = "tick"
           /\ Active' \ toStop'[Loop] \subseteq Active \ toStop[Loop]
           /\ \A n \in VM : state'[n] # "starting"
  PROVE  AloneInv'
<1>1. Active \subseteq VM
  BY DEF Active, In
<1>2. /\ Cardinality(Active') <= Cardinality(Active)
      /\ Cardinality(Active') \in Nat /\ Cardinality(Active) \in Nat
  BY <1>1, Smaller
<1>3. Cardinality(Active') <= cap
  BY <1>2, CapType DEF AloneInv
<1>4. ASSUME pick'[Loop] # 0
      PROVE  Cardinality(Active' \ toStop'[Loop]) < cap
  <2>1. /\ Cardinality(Active' \ toStop'[Loop]) <= Cardinality(Active \ toStop[Loop])
        /\ Cardinality(Active' \ toStop'[Loop]) \in Nat
        /\ Cardinality(Active \ toStop[Loop]) \in Nat
    BY <1>1, <1>4, Smaller
  <2> QED BY <1>4, <2>1, CapType DEF AloneInv
<1> QED BY <1>3, <1>4 DEF AloneInv

\* What tick's arithmetic on counts says of the sets.
LEMMA RoomIsRoom ==
  ASSUME TypeOK, Room, \A n \in VM : ~Busy(n)
  PROVE  Cardinality(Active \ {n \in VM : Due(n)}) < cap
<1> DEFINE due == {n \in VM : Due(n)}
           running == In("running")
<1>1. Active = running /\ due \subseteq running /\ running \subseteq VM
  BY DEF Active, In, Due, Busy, Transient
<1>2. IsFiniteSet(running) /\ IsFiniteSet(due)
  BY <1>1, Smaller
<1>3. Cardinality(running \ due) = Cardinality(running) - Cardinality(due)
  <2>1. running \cap due = due
    BY <1>1
  <2> HIDE DEF running, due
  <2> QED BY <1>2, <2>1, FS_Difference
<1> QED BY <1>1, <1>3 DEF Room

LEMMA TickAlone ==
  ASSUME TypeOK, TypeOK', JobsInFlight, AloneInv, Tick(Loop)
  PROVE  AloneInv'
<1> Loop \in Ticker
  BY TickerAssumption DEF TickerAssumption
<1>0. 0 \notin VM
  BY VMAssumption DEF VMAssumption
<1>1. CASE TickPaused(Loop) \/ TickEnds(Loop)
  <2>1. pick[Loop] = 0
    BY <1>1 DEF TickPaused, TickEnds, AloneInv
  <2> QED BY <1>1, <2>1, FewerActive
          DEF TickPaused, TickEnds, records, cfg, Active, In, AloneInv, Busy
<1>2. CASE TickPlan(Loop)
  <2>1. job[Loop] = 0 /\ \A n \in VM : ~Busy(n)
    BY <1>0, <1>2 DEF TickPlan, JobsInFlight, AloneInv
  <2>2. /\ toStop'[Loop] = {n \in VM : Due(n)} /\ pick'[Loop] \in Picks
        /\ pc'[Loop] = "tick"
        /\ UNCHANGED <<state, cap, job>>
    BY <1>2 DEF TickPlan, TypeOK, records, cfg
  <2>3. Active' = Active
    BY <2>2 DEF Active, In
  <2>4. ASSUME pick'[Loop] # 0 PROVE Cardinality(Active' \ toStop'[Loop]) < cap
    <3>1. Candidates # {}
      BY <2>2, <2>4 DEF Picks
    <3>2. Room
      BY <3>1 DEF Candidates
    <3> QED BY <2>1, <2>2, <2>3, <3>2, RoomIsRoom
  <2> QED BY <2>1, <2>2, <2>3, <2>4 DEF AloneInv, Busy, Transient
<1>3. CASE TickStart(Loop)
  <2>1. pick[Loop] \in VM /\ toStop[Loop] = {} /\ job[Loop] = 0 /\ pick'[Loop] = 0
    BY <1>3 DEF TickStart, TypeOK
  <2>2. \A n \in VM : ~Busy(n)
    BY <1>0, <2>1 DEF AloneInv
  <2>3. CASE CanStart(pick[Loop])
    <3>1. /\ state' = [state EXCEPT ![pick[Loop]] = "starting"]
          /\ job'[Loop] = pick[Loop] /\ UNCHANGED cap
      BY <1>3, <2>3 DEF TickStart, Start, TypeOK, cfg
    <3>2. Active' = Active \cup {pick[Loop]} /\ Active \subseteq VM
      BY <2>1, <3>1 DEF Active, In, TypeOK
    <3>3. Cardinality(Active) < cap
      <4>1. Active \ toStop[Loop] = Active
        BY <2>1
      <4> QED BY <1>0, <2>1, <4>1 DEF AloneInv
    <3>4. Cardinality(Active') <= cap
      <4>1. IsFiniteSet(Active) /\ Cardinality(Active) \in Nat
        BY <3>2, Smaller
      <4>2. \/ Cardinality(Active') = Cardinality(Active)
            \/ Cardinality(Active') = Cardinality(Active) + 1
        BY <3>2, <4>1, FS_AddElement
      <4>3. Cardinality(Active') \in Nat
        BY <3>2, <4>1, FS_AddElement, FS_CardinalityType
      <4> QED BY <3>3, <4>1, <4>2, <4>3, CapType
    <3> QED BY <2>1, <2>2, <3>1, <3>4 DEF AloneInv, Busy, TypeOK
  <2>4. CASE ~CanStart(pick[Loop])
    <3>1. /\ \A n \in VM : \/ state'[n] = state[n]
                           \/ state'[n] \in {"stopped", "unset"}
          /\ UNCHANGED <<job, cap>>
      BY <1>3, <2>4 DEF TickStart, Refuse, TypeOK, cfg
    <3>2. Active' \subseteq Active /\ \A n \in VM : ~Busy(n)'
      BY <2>2, <3>1 DEF Active, In, Busy, Transient
    <3> QED BY <2>1, <3>1, <3>2, FewerActive
  <2> QED BY <2>3, <2>4
<1>4. ASSUME NEW n \in VM, TickStop(Loop, n) PROVE AloneInv'
  <2>1. \A m \in VM : ~Busy(m)
    BY <1>0, <1>4 DEF TickStop, AloneInv
  <2>2. toStop'[Loop] = toStop[Loop] \ {n} /\ UNCHANGED <<pc, pick, cap>>
    BY <1>4 DEF TickStop, TypeOK, cfg
  <2>3. CASE state[n] = "absent"
    <3>1. UNCHANGED <<state, job>>
      BY <1>4, <2>3 DEF TickStop, records
    <3>2. Active' = Active /\ n \notin Active
      BY <2>3, <3>1 DEF Active, In
    <3> QED BY <2>1, <2>2, <3>1, <3>2, FewerActive DEF AloneInv, Busy
  <2>4. CASE state[n] # "absent"
    <3>1. state' = [state EXCEPT ![n] = "stopping"] /\ job'[Loop] = n
      BY <1>4, <2>1, <2>4 DEF TickStop, Stop, TypeOK
    <3>2. Active' = Active \ {n}
      BY <3>1 DEF Active, In, TypeOK
    <3> QED BY <2>1, <2>2, <3>1, <3>2, FewerActive DEF AloneInv, Busy, TypeOK
  <2> QED BY <2>3, <2>4
<1> QED BY <1>1, <1>2, <1>3, <1>4 DEF Tick

LEMMA NextAlone ==
  ASSUME Ticker = {Loop}, Outside = FALSE, \A c, d \in Cap : c = d,
         TypeOK, TypeOK', JobsInFlight, AloneInv, [Next]_vars
  PROVE  AloneInv'
<1> USE DEF Active, In
<1>1. CASE Wait \/ IntervalEnds
  <2>1. pick[Loop] = 0
    BY <1>1 DEF Wait, IntervalEnds, AloneInv
  <2> QED BY <1>1, <2>1, FewerActive DEF Wait, IntervalEnds, records, cfg, AloneInv, Busy
<1>2. ASSUME NEW t \in Ticker, Tick(t) PROVE AloneInv'
  BY <1>2, TickAlone
<1>3. CASE Configures
  <2> PICK p \in BOOLEAN, c \in Cap, md \in Mode, ex \in Exclusions : Configure(p, c, md, ex)
    BY <1>3 DEF Configures
  <2>1. UNCHANGED <<cap, state, toStop, pick, job>>
    BY DEF Configure, TypeOK
  <2>2. pc[Loop] = "tick" => pc'[Loop] = "tick"
    BY DEF Configure, Woken, TypeOK
  <2> QED BY <2>1, <2>2, FewerActive DEF AloneInv, Busy
<1>4. CASE HostChanges
  BY <1>4, FewerActive DEF HostChanges, records, cfg, ticks, AloneInv, Busy
<1>5. ASSUME NEW n \in VM, OpEnds(n) PROVE AloneInv'
  <2>0. Loop \in Ticker /\ job[Loop] \in VM \cup {0}
    BY TickerAssumption DEF TickerAssumption, TypeOK
  <2>1. job[Loop] = n /\ \A m \in VM \ {n} : ~Busy(m)
    BY <1>5 DEF OpEnds, Up, BootFails, LaunchFails, Stopped, AloneInv, Busy, Transient
  <2>2. /\ \A m \in VM \ {n} : state'[m] = state[m]
        /\ state'[n] \in {"stopped", "running"}
        /\ state'[n] = "running" => state[n] = "starting"
        /\ UNCHANGED <<pc, toStop, pick, cap>>
    BY <1>5 DEF OpEnds, Up, BootFails, LaunchFails, Stopped, Ends, TypeOK, cfg
  <2>3. Active' \subseteq Active
    BY <2>2
  <2>4. \A m \in VM : ~Busy(m)'
    BY <2>1, <2>2 DEF Busy, Transient
  <2> QED BY <2>2, <2>3, <2>4, FewerActive DEF AloneInv, Busy, Transient
<1>6. ASSUME NEW n \in VM, UserStep(n) PROVE AloneInv'
  BY <1>6 DEF UserStep, UserRun, UserStop, ClearBootFailure
<1>7. ASSUME NEW n \in VM, Observe(n) PROVE AloneInv'
  <2>1. /\ \A m \in VM \ {n} : state'[m] = state[m]
        /\ state'[n] \in {"stopped", "absent"}
        /\ UNCHANGED <<pc, toStop, pick, job, cap>>
    BY <1>7 DEF Observe, TypeOK, cfg, ticks
  <2>2. Active' \subseteq Active /\ \A m \in VM : Busy(m)' => Busy(m)
    BY <2>1 DEF Busy, Transient
  <2> QED BY <2>1, <2>2, FewerActive DEF AloneInv
<1>8. ASSUME NEW n \in VM, WindowPasses(n) PROVE AloneInv'
  BY <1>8, FewerActive DEF WindowPasses, cfg, ticks, AloneInv, Busy
<1>9. CASE UNCHANGED vars
  BY <1>9, FewerActive DEF vars, records, cfg, ticks, AloneInv, Busy
<1> QED BY <1>1, <1>2, <1>3, <1>4, <1>5, <1>6, <1>7, <1>8, <1>9 DEF Next

\* One tick at a time, one value of MaxConcurrent and nobody else at work: a
\* start by the scheduler leaves no more VMs active than MaxConcurrent, for any
\* set of VMs and whatever the hours, the disk and the memory do.
THEOREM SchedulerAloneKeepsCap ==
  ASSUME Ticker = {Loop}, Outside = FALSE, \A c, d \in Cap : c = d
  PROVE  Spec => StartsUnderCap
<1>1. Init => AloneInv
  <2> SUFFICES ASSUME Init PROVE AloneInv
    OBVIOUS
  <2>1. Active = {}
    BY DEF Init, Active, In
  <2>2. Cardinality(Active) = 0 /\ cap \in Nat
    BY <2>1, FS_EmptySet, CapAssumption, HardMaxAssumption
       DEF Init, CapAssumption, HardMaxAssumption
  <2> QED BY <2>2 DEF Init, AloneInv, Busy, Transient
<1>2. Inv /\ Inv' /\ AloneInv /\ [Next]_vars => AloneInv'
  BY NextAlone DEF Inv
<1>3. Inv' /\ Inv /\ AloneInv' /\ [Next]_vars =>
        [\A t \in Ticker : TickStart(t) /\ job'[t] # 0 => Cardinality(Active') <= cap]_vars
  <2>1. ASSUME NEW t \in Ticker, TickStart(t), AloneInv' PROVE Cardinality(Active') <= cap
    BY <2>1 DEF TickStart, cfg, AloneInv
  <2> QED BY <2>1
<1> QED BY <1>1, <1>2, <1>3, InvAlways, PTL DEF Spec, StartsUnderCap
=============================================================================
