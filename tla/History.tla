------------------------------ MODULE History ------------------------------
(* The run history and the one-shot enrolment of a boot, with state.json     *)
(* and restarts: persistence.go, closeStaleHistory of types.go, the history  *)
(* and takeAutoEnroll in vmops.go, the start of Run in run.go.               *)
(*                                                                           *)
(* A boot is one call of doRun.  Its history entry has its number, and is    *)
(* open until a stop is recorded.  Saving is part of a section and works;    *)
(* what is not saved is lost when the server goes away.  What else a boot    *)
(* and a stop do is in Lifecycle; here they only take the busy flag.         *)
EXTENDS Integers, Sequences, FiniteSets

CONSTANTS
    Machine,    \* VMs
    MaxBoots,   \* bound: calls of doRun
    MaxArms,    \* bound: how often AutoEnroll is set on a VM
    MaxRestarts \* bound: restarts of the server

ASSUME HistoryAssumption == {MaxBoots, MaxArms, MaxRestarts} \subseteq Nat

Boot == 1..MaxBoots
Active == {"running", "starting"}

VARIABLES
    powered,   \* VMs that tart runs
    shows,     \* VM.State in the records
    op,        \* the operation that holds a VM's busy flag, or "none"
    enroll,    \* VMs with AutoEnroll set
    history,   \* m.history: boots, oldest first
    entry,     \* what each boot's entry says of its stop
    ran,       \* the VM of each boot, in a set
    doing,     \* where each boot's goroutine is
    saved,     \* state.json
    armed,     \* auxiliary: how often AutoEnroll was set
    enrolled,  \* auxiliary: how often a boot ran the enrolment
    restarts   \* restarts so far

historyVars == <<powered, shows, op, enroll, history, entry, ran, doing, saved, armed,
                 enrolled, restarts>>
runVars == <<history, entry, ran>>
auxVars == <<armed, enrolled, restarts>>

State == [shows |-> shows, enroll |-> enroll, history |-> history, entry |-> entry]

(* save *)
Save == saved' = State'

(* pruneHistory: time has passed, and the oldest entries go.                 *)
Pruned(h) == {SubSeq(h, k, Len(h)) : k \in 1..(Len(h) + 1)}

Goes(b, l) == doing' = [doing EXCEPT ![b] = l]
Shows(n, s) == shows' = [shows EXCEPT ![n] = s]
Holds(n, o) == op' = [op EXCEPT ![n] = o]
Open(h, e, n) == {i \in DOMAIN h : e[h[i]] = "open" /\ ran[h[i]] = {n}}
Latest(S) == {i \in S : \A j \in S : j <= i}

-----------------------------------------------------------------------------
(* doRun *)

(* Its first section: the entry is opened and saved.  The VM may be running. *)
Run(b, n) ==
    /\ ran[b] = {} /\ \A k \in 1..(b - 1) : ran[k] # {}
    /\ op[n] = "none"
    /\ Holds(n, "run") /\ Shows(n, "starting") /\ Goes(b, "boots")
    /\ ran' = [ran EXCEPT ![b] = {n}]
    /\ entry' = [entry EXCEPT ![b] = "open"]
    /\ \E h \in Pruned(Append(history, b)) : history' = h
    /\ UNCHANGED <<powered, enroll, auxVars>>
    /\ Save

(* failOp: nothing is saved, and the entry stays open.                       *)
LaunchFails(b, n) ==
    /\ doing[b] = "boots" /\ ran[b] = {n}
    /\ Shows(n, "stopped") /\ Holds(n, "none") /\ Goes(b, "over")
    /\ UNCHANGED <<powered, enroll, runVars, saved, auxVars>>

(* No IP in time: the boot closes its own entry.                             *)
BootFails(b, n) ==
    /\ doing[b] = "boots" /\ ran[b] = {n}
    /\ powered' = powered \ {n}
    /\ Shows(n, "stopped") /\ Holds(n, "none") /\ Goes(b, "over")
    /\ entry' = [entry EXCEPT ![b] = "closed"]
    /\ UNCHANGED <<enroll, history, ran, auxVars>>
    /\ Save

ComesUp(b, n) ==
    /\ doing[b] = "boots" /\ ran[b] = {n}
    /\ powered' = powered \cup {n}
    /\ Shows(n, "running") /\ Holds(n, "none") /\ Goes(b, "up")
    /\ UNCHANGED <<enroll, runVars, auxVars>>
    /\ Save

(* Mutant: the flag is left to the enrolment to clear. *)
ClearedLater(n) == enroll

(* The end of a boot, minutes later, when the VM may have stopped or booted  *)
(* again: takeAutoEnroll clears the flag, saved before the enrolment runs.   *)
(* A boot made by an enrolment, and one of a VM that is enrolled, only clear *)
(* it.                                                                       *)
Cleared(n) == enroll \ {n}

TakeAutoEnroll(b, n) ==
    /\ doing[b] = "up" /\ ran[b] = {n}
    /\ enroll' = Cleared(n)
    /\ \E to \in (IF n \in enroll THEN {"enrolls", "over"} ELSE {"over"}) : Goes(b, to)
    /\ UNCHANGED <<powered, shows, op, runVars, auxVars>>
    /\ Save

RunAutoEnroll(b, n) ==
    /\ doing[b] = "enrolls" /\ ran[b] = {n}
    /\ enrolled' = [enrolled EXCEPT ![n] = @ + 1]
    /\ Goes(b, "over")
    /\ UNCHANGED <<powered, shows, op, enroll, runVars, saved, armed, restarts>>

-----------------------------------------------------------------------------
(* The end of a run *)

DoStop(n) ==
    /\ op[n] = "none"
    /\ Holds(n, "stop") /\ Shows(n, "stopping")
    /\ UNCHANGED <<powered, enroll, runVars, doing, saved, auxVars>>

(* The newest open entry of the VM is closed, whichever boot's it is: after  *)
(* a start that failed and left its entry open, that of an earlier boot.     *)
Close(e, h, n) ==
    [b \in Boot |-> IF \E i \in Latest(Open(h, e, n)) : h[i] = b THEN "closed" ELSE e[b]]

(* Stopped, and also the end of a suspension.  tart and the kill may fail,   *)
(* and the VM runs on.                                                       *)
StopDone(n) ==
    /\ op[n] = "stop"
    /\ \E p \in {powered, powered \ {n}} : powered' = p
    /\ Shows(n, "stopped") /\ Holds(n, "none")
    /\ entry' = Close(entry, history, n)
    /\ UNCHANGED <<enroll, history, ran, doing, auxVars>>
    /\ Save

(* The guest is shut down from the inside, and a reconcile shows it.         *)
GuestOff(n) ==
    /\ n \in powered
    /\ powered' = powered \ {n}
    /\ UNCHANGED <<shows, op, enroll, runVars, doing, saved, auxVars>>

Listed(s, free) ==
    [n \in Machine |-> IF n \notin free THEN s[n] ELSE IF n \in powered THEN "running" ELSE "stopped"]

Reconcile ==
    /\ shows' = Listed(shows, {n \in Machine : op[n] = "none"})
    /\ UNCHANGED <<powered, op, enroll, runVars, doing, saved, auxVars>>

(* AutoEnroll is chosen for a VM. *)
Arm(n) ==
    /\ armed[n] < MaxArms
    /\ armed' = [armed EXCEPT ![n] = @ + 1]
    /\ enroll' = enroll \cup {n}
    /\ UNCHANGED <<powered, shows, op, runVars, doing, enrolled, restarts>>
    /\ Save

-----------------------------------------------------------------------------
(* A restart *)

(* Mutant: it keeps every one. *)
KeptAll(h, e, n) == {h[i] : i \in Open(h, e, n)}

(* closeStaleHistory: a VM that is up keeps its newest open entry.           *)
Kept(h, e, n) == {h[i] : i \in Latest(Open(h, e, n))}

CloseStale(h, e, s) ==
    LET keep == UNION {Kept(h, e, n) : n \in {v \in Machine : s[v] \in Active}}
    IN  [b \in Boot |-> IF e[b] = "open" /\ (\E i \in DOMAIN h : h[i] = b) /\ b \notin keep
                        THEN "unknown" ELSE e[b]]

(* The server goes away and comes back: load, the reconcile of Run, which    *)
(* does nothing when tart cannot be asked, and closeStaleHistory, saved if   *)
(* it closed anything.  The goroutines and busy flags are gone; guests that  *)
(* run are not.                                                              *)
Restart ==
    /\ restarts < MaxRestarts
    /\ restarts' = restarts + 1
    /\ op' = [n \in Machine |-> "none"]
    /\ doing' = [b \in Boot |-> IF doing[b] = "idle" THEN "idle" ELSE "over"]
    /\ enroll' = saved.enroll
    /\ \E h \in Pruned(saved.history), s \in {saved.shows, Listed(saved.shows, Machine)} :
          /\ shows' = s
          /\ history' = h
          /\ entry' = CloseStale(h, saved.entry, s)
          /\ IF entry' # saved.entry THEN Save ELSE UNCHANGED saved
    /\ UNCHANGED <<powered, ran, armed, enrolled>>

-----------------------------------------------------------------------------
HistoryInit ==
    /\ powered = {} /\ enroll = {} /\ history = <<>>
    /\ shows = [n \in Machine |-> "stopped"]
    /\ op = [n \in Machine |-> "none"]
    /\ entry = [b \in Boot |-> "open"]
    /\ ran = [b \in Boot |-> {}]
    /\ doing = [b \in Boot |-> "idle"]
    /\ saved = State
    /\ armed = [n \in Machine |-> 0]
    /\ enrolled = [n \in Machine |-> 0]
    /\ restarts = 0

BootStep(b, n) ==
    \/ Run(b, n) \/ LaunchFails(b, n) \/ BootFails(b, n) \/ ComesUp(b, n)
    \/ TakeAutoEnroll(b, n) \/ RunAutoEnroll(b, n)

HistoryNext ==
    \/ \E b \in Boot, n \in Machine : BootStep(b, n)
    \/ \E n \in Machine : DoStop(n) \/ StopDone(n) \/ GuestOff(n) \/ Arm(n)
    \/ Reconcile \/ Restart

HistorySpec == HistoryInit /\ [][HistoryNext]_historyVars

-----------------------------------------------------------------------------
(* Types; a VM is busy starting exactly while one boot of it is under way;   *)
(* and an entry is in the history at most once, in the order of the starts.  *)
HistoryTypeOK ==
    /\ powered \subseteq Machine /\ enroll \subseteq Machine
    /\ shows \in [Machine -> Active \cup {"stopped", "stopping"}]
    /\ op \in [Machine -> {"none", "run", "stop"}]
    /\ entry \in [Boot -> {"open", "closed", "unknown"}]
    /\ \A b \in Boot : doing[b] = "idle" <=> ran[b] = {}
    /\ \A n \in Machine : op[n] = "run" <=> \E b \in Boot : doing[b] = "boots" /\ ran[b] = {n}
    /\ \A i \in DOMAIN history : ran[history[i]] # {}
    /\ \A i, j \in DOMAIN history : i < j => history[i] < history[j]

(* A run never goes from over to under way, over restarts too (doStop,       *)
(* save).  After one (closeStaleHistory) no VM has more than one open entry, *)
(* only one that is up has any, and the newest one it had when its state was *)
(* saved is still there: the run that is under way is not given up.          *)
ClosesStale ==
    /\ \A b \in Boot : entry[b] # "open" => entry'[b] = entry[b]
    /\ restarts' # restarts =>
          \A n \in Machine :
             /\ Cardinality(Open(history', entry', n)) <= (IF shows'[n] \in Active THEN 1 ELSE 0)
             /\ shows'[n] \in Active =>
                   \A i \in Latest(Open(history', saved.entry, n)) : entry'[history'[i]] = "open"
StaleClosed == [][ClosesStale]_historyVars

(* AutoEnroll is a one-time attempt (takeAutoEnroll): a VM is enrolled at    *)
(* boot at most as often as the flag was set, whatever boots and crashes     *)
(* come between.                                                             *)
EnrollOnce == \A n \in Machine : enrolled[n] <= armed[n]

(* Why: what matters here is saved whenever it changes; boots are numbered   *)
(* in the order of their starts, and one that is under way has its entry     *)
(* open; and one that is about to run the enrolment has its arming to        *)
(* itself, as a flag that is still set has.                                  *)
Enrolling(n) == {b \in Boot : doing[b] = "enrolls" /\ ran[b] = {n}}
Ascending(h) ==
    /\ h \in Seq(Boot)
    /\ \A i \in DOMAIN h : ran[h[i]] # {}
    /\ \A i, j \in DOMAIN h : i < j => h[i] < h[j]
HistoryInv ==
    /\ HistoryTypeOK
    /\ doing \in [Boot -> {"idle", "boots", "up", "enrolls", "over"}]
    /\ ran \in [Boot -> {{}} \cup {{n} : n \in Machine}]
    /\ armed \in [Machine -> Nat] /\ enrolled \in [Machine -> Nat]
    /\ saved.enroll = enroll /\ saved.entry = entry
    /\ saved.shows \in [Machine -> Active \cup {"stopped", "stopping"}]
    /\ Ascending(history) /\ Ascending(saved.history)
    /\ \A b \in Boot : ran[b] # {} => \A k \in 1..(b - 1) : ran[k] # {}
    /\ \A b \in Boot : doing[b] \in {"idle", "boots"} => entry[b] = "open"
    /\ \A b, c \in Boot : doing[b] = "boots" /\ doing[c] = "boots" /\ ran[b] = ran[c] => b = c
    /\ \A n \in Machine :
          Cardinality(Enrolling(n)) + (IF n \in enroll THEN 1 ELSE 0) + enrolled[n] <= armed[n]
=============================================================================
