------------------------------- MODULE Builds -------------------------------
(* Create batches, management tasks and VM names: vmmanage.go, vmname.go,    *)
(* and the create, cancel and rename handlers of handlers.go.                *)
(*                                                                           *)
(* A batch builds its VMs one after the other in a goroutine of its own.     *)
(* Each VM gets a reserved name, a task that a user can cancel, a tart       *)
(* clone (or create), a tart set, the settings of its record, and two        *)
(* reconciles.  A rename reserves a name in the same way.  Beside them run   *)
(* the reconcile of the monitor, the tasks of other components, and users    *)
(* who cancel and delete.                                                    *)
(*                                                                           *)
(* A name is a number: every template is the same, so that all compete for   *)
(* its expansions.  With $AUTONUM the number is part of the name, otherwise  *)
(* 1 is the name itself and n > 1 its suffix "-(n-1)".  Busy flags are left  *)
(* to Lifecycle: nothing here takes one.                                     *)
EXTENDS Integers, Sequences, FiniteSets, Functions

CONSTANTS
    Batch,     \* requests to create VMs
    Renamer,   \* requests to rename a VM
    Monitor,   \* the monitor's reconcile
    MaxName,   \* bound: expansions of the template (100000 in the code)
    Keep,      \* tasks that are remembered (20 in the code)
    Existing,  \* the sets of VMs there may be at the start
    Request    \* the requests: how many VMs (at most 20 in the code), whether the
               \* template has $AUTONUM, and the settings in the order of writing

ASSUME BoundsAssumption == MaxName \in Nat \ {0} /\ Keep \in Nat \ {0}
ASSUME MakerAssumption == Batch \cap Renamer = {} /\ Monitor \notin Batch \cup Renamer
ASSUME ExistingAssumption == \A S \in Existing : S \subseteq 1..MaxName

(* Where a goroutine is; or else it is at the setting it writes.             *)
Label == {"none", "check", "alloc", "task", "tag", "make", "set", "finish", "list", "apply",
          "release", "relist", "reapply", "rename", "move"}
NoRec == {"no record"}             \* nothing under a name in m.vms

ASSUME RequestAssumption ==
    \A q \in Request : /\ DOMAIN q = {"count", "numbered", "fields"}
                       /\ q.count \in Nat \ {0} /\ q.numbered \in BOOLEAN
                       /\ q.fields \in Seq(STRING)
                       /\ Range(q.fields) \cap (Label \cup NoRec) = {}

Name == 1..MaxName
NoName == 0
Over == "over"                      \* a task that is no longer running
Maker == Batch \cup Renamer         \* those who reserve names
Lister == Maker \cup {Monitor}      \* those who reconcile
NoList == {NoName}                  \* no list was read, or tart list failed

Setting == UNION {Range(q.fields) : q \in Request}
NoReq == [count |-> 0, numbered |-> FALSE, fields |-> <<>>]

VARIABLES
    disk,      \* VMs that tart has
    rec,       \* m.vms: the settings in each record
    reserved,  \* m.reservedNames
    tasks,     \* m.tasks, in order: whose running task it is, or Over
    cancelled, \* batches whose running task's context is cancelled
    tagged,    \* batches whose running task carries the batch's id
    doomed,    \* tasks that cancelBatch has collected and not yet cancelled
    batches,   \* m.batches: "none", "open" or "cancelled"
    req,       \* the request of a batch
    started,   \* Started: VMs of the batch begun so far
    pc,        \* where each goroutine is
    name,      \* the name a goroutine has reserved
    lastNum,   \* the last $AUTONUM of a batch
    old,       \* the VM being renamed
    seen       \* what tart list said to a reconcile that has not applied it

vars == <<disk, rec, reserved, tasks, cancelled, tagged, doomed, batches, req,
          started, pc, name, lastNum, old, seen>>
taskVars == <<tasks, cancelled, tagged, doomed>>
batchVars == <<batches, req, started, lastNum>>
nameVars == <<reserved, name, old>>

-----------------------------------------------------------------------------
(* Tasks *)

Running(w) == \E i \in DOMAIN tasks : tasks[i] = w

(* The list after one more task, trimmed to the newest: a task that falls    *)
(* off goes on running, but nobody can find it any more.                     *)
Newest(s) == IF Len(s) > Keep THEN SubSeq(s, Len(s) - Keep + 1, Len(s)) ELSE s

NewTask(w) ==
    /\ tasks' = Newest(Append(tasks, w))
    /\ cancelled' = cancelled \ {w}
    /\ tagged' = tagged \ {w}
    /\ UNCHANGED doomed

FinishTask(w) ==
    /\ tasks' = [i \in DOMAIN tasks |-> IF tasks[i] = w THEN Over ELSE tasks[i]]
    /\ cancelled' = cancelled \ {w}
    /\ tagged' = tagged \ {w}
    /\ doomed' = doomed \ {w}

(* Cancelling finds tasks in the list only.  *)
CancelTask(w) ==
    /\ Running(w)
    /\ cancelled' = cancelled \cup {w}
    /\ UNCHANGED <<disk, rec, tasks, tagged, doomed, pc, seen, batchVars, nameVars>>

CancelBatch(b) ==
    /\ batches[b] # "none"
    /\ batches' = [batches EXCEPT ![b] = "cancelled"]
    /\ doomed' = IF Running(b) /\ b \in tagged THEN doomed \cup {b} ELSE doomed
    /\ UNCHANGED <<disk, rec, tasks, cancelled, tagged, req, started, lastNum, pc, seen,
                   nameVars>>

CancelCollected(b) ==
    /\ b \in doomed
    /\ doomed' = doomed \ {b}
    /\ cancelled' = IF Running(b) THEN cancelled \cup {b} ELSE cancelled
    /\ UNCHANGED <<disk, rec, tasks, tagged, pc, seen, batchVars, nameVars>>

-----------------------------------------------------------------------------
(* Names *)

(* Mutant: reservations are not looked at. *)
TakenUnreserved(n) ==
    \/ rec[n] # NoRec
    \/ \E b \in Batch : Running(b) /\ name[b] = n
    \/ n \in disk

(* taken: a record, a reservation, the target of a running task in the list, *)
(* or a VM folder.                                                           *)
Taken(n) ==
    \/ rec[n] # NoRec
    \/ n \in reserved
    \/ \E b \in Batch : Running(b) /\ name[b] = n
    \/ n \in disk

(* The names next may return: with $AUTONUM those above the last number.     *)
Free(above) == {n \in Name : n > above /\ ~Taken(n)}
Least(S) == CHOOSE n \in S : \A k \in S : n <= k

(* allocVMName: w reserves the first free name. *)
AllocVMName(w, above) ==
    /\ Free(above) # {}
    /\ name' = [name EXCEPT ![w] = Least(Free(above))]
    /\ reserved' = reserved \cup {name'[w]}

ReleaseVMName(w) ==
    /\ reserved' = reserved \ {name[w]}
    /\ name' = [name EXCEPT ![w] = NoName]

-----------------------------------------------------------------------------
(* Reconcile: tart list, and what it does to the records under the lock *)

ReadList(g) == seen' = [seen EXCEPT ![g] = disk]

(* Mutant: no record for a VM that is new. *)
SyncedKnown(list) == [n \in Name |-> IF n \in list THEN rec[n] ELSE NoRec]

Synced(list) ==
    [n \in Name |-> CASE n \notin list -> NoRec
                      [] n \in list /\ rec[n] = NoRec -> {}
                      [] n \in list /\ rec[n] # NoRec -> rec[n]]

ApplyList(g) ==
    /\ rec' = Synced(seen[g])
    /\ seen' = [seen EXCEPT ![g] = NoList]

MonitorLists ==
    /\ seen[Monitor] = NoList
    /\ ReadList(Monitor)
    /\ UNCHANGED <<disk, rec, pc, taskVars, batchVars, nameVars>>

MonitorApplies ==
    /\ seen[Monitor] # NoList
    /\ ApplyList(Monitor)
    /\ UNCHANGED <<disk, pc, taskVars, batchVars, nameVars>>

-----------------------------------------------------------------------------
(* A create batch: one action per section of createVMs *)

Goto(g, l) == pc' = [pc EXCEPT ![g] = l]

(* POST /api/vm/create *)
Create(b) ==
    /\ pc[b] = "none"
    /\ \E r \in Request : req' = [req EXCEPT ![b] = r]
    /\ batches' = [batches EXCEPT ![b] = "open"]
    /\ Goto(b, "check")
    /\ UNCHANGED <<disk, rec, taskVars, started, lastNum, seen, nameVars>>

(* The deferred end of createVMs: the batch is forgotten, its goroutine over. *)
BatchOver(b) ==
    /\ batches' = [batches EXCEPT ![b] = "none"]
    /\ req' = [req EXCEPT ![b] = NoReq]
    /\ started' = [started EXCEPT ![b] = 0]
    /\ lastNum' = [lastNum EXCEPT ![b] = NoName]
    /\ Goto(b, "none")

(* Mutant: the cancellation is not looked at. *)
EndsWhenComplete(b) == started[b] = req[b].count

(* The loop's head: the batch ends when it is cancelled or complete. *)
Ends(b) == batches[b] = "cancelled" \/ started[b] = req[b].count

Check(b) ==
    /\ pc[b] = "check"
    /\ IF Ends(b)
       THEN BatchOver(b)
       ELSE /\ started' = [started EXCEPT ![b] = @ + 1]
            /\ Goto(b, "alloc")
            /\ UNCHANGED <<batches, req, lastNum>>
    /\ UNCHANGED <<disk, rec, taskVars, seen, nameVars>>

Above(b) == IF req[b].numbered THEN lastNum[b] ELSE NoName

Alloc(b) ==
    /\ pc[b] = "alloc"
    /\ AllocVMName(b, Above(b))
    /\ lastNum' = IF req[b].numbered THEN [lastNum EXCEPT ![b] = name'[b]] ELSE lastNum
    /\ Goto(b, "task")
    /\ UNCHANGED <<disk, rec, taskVars, batches, req, started, old, seen>>

(* Mutant: without a free name it tries again. *)
NameErrorRetries(b) ==
    /\ pc[b] = "alloc"
    /\ Free(Above(b)) = {}
    /\ tasks' = Newest(Append(tasks, Over))
    /\ UNCHANGED <<disk, rec, cancelled, tagged, doomed, pc, seen, batchVars, nameVars>>

(* No name is left: a task that only reports it, and the batch is over. *)
NameError(b) ==
    /\ pc[b] = "alloc"
    /\ Free(Above(b)) = {}
    /\ tasks' = Newest(Append(tasks, Over))
    /\ BatchOver(b)
    /\ UNCHANGED <<disk, rec, cancelled, tagged, doomed, seen, nameVars>>

BeginTask(b) ==
    /\ pc[b] = "task"
    /\ NewTask(b)
    /\ Goto(b, "tag")
    /\ UNCHANGED <<disk, rec, seen, batchVars, nameVars>>

TagTask(b) ==
    /\ pc[b] = "tag"
    /\ tagged' = tagged \cup {b}
    /\ Goto(b, "make")
    /\ UNCHANGED <<disk, rec, tasks, cancelled, doomed, seen, batchVars, nameVars>>

(* tart clone or tart create; a cancelled context kills it. *)
MakeVM(b) ==
    /\ pc[b] = "make"
    /\ \E done \in IF b \in cancelled THEN {FALSE} ELSE BOOLEAN :
          /\ disk' = IF done THEN disk \cup {name[b]} ELSE disk
          /\ Goto(b, IF done THEN "set" ELSE "finish")
    /\ UNCHANGED <<rec, taskVars, seen, batchVars, nameVars>>

(* tart set, when the request asks for anything. *)
SetVM(b) ==
    /\ pc[b] = "set"
    /\ \E done \in IF req[b].fields = <<>> THEN {TRUE}
                   ELSE IF b \in cancelled THEN {FALSE} ELSE BOOLEAN :
          Goto(b, IF ~done \/ req[b].fields = <<>> THEN "finish" ELSE Head(req[b].fields))
    /\ UNCHANGED <<disk, rec, taskVars, seen, batchVars, nameVars>>

(* Mutant: the record is not made on demand. *)
WriteSettingInPlace(b) ==
    \E i \in DOMAIN req[b].fields :
       /\ pc[b] = req[b].fields[i]
       /\ rec' = [rec EXCEPT ![name[b]] = @ \cup {pc[b]}]
       /\ Goto(b, IF i < Len(req[b].fields) THEN req[b].fields[i + 1] ELSE "finish")
       /\ UNCHANGED <<disk, taskVars, seen, batchVars, nameVars>>

(* The settings, each in a section of its own, in a record made on demand.   *)
WriteSetting(b) ==
    \E i \in DOMAIN req[b].fields :
       /\ pc[b] = req[b].fields[i]
       /\ rec' = [rec EXCEPT ![name[b]] = (IF @ = NoRec THEN {} ELSE @) \cup {pc[b]}]
       /\ Goto(b, IF i < Len(req[b].fields) THEN req[b].fields[i + 1] ELSE "finish")
       /\ UNCHANGED <<disk, taskVars, seen, batchVars, nameVars>>

FinishVM(b) ==
    /\ pc[b] = "finish"
    /\ FinishTask(b)
    /\ Goto(b, "list")
    /\ UNCHANGED <<disk, rec, seen, batchVars, nameVars>>

(* The two reconciles of a VM, and the release of its name between them;     *)
(* tart list may fail.                                                       *)
Lists(g) ==
    /\ pc[g] \in {"list", "relist"}
    /\ \/ ReadList(g) /\ Goto(g, IF pc[g] = "list" THEN "apply" ELSE "reapply")
       \/ Goto(g, IF pc[g] = "list" THEN "release" ELSE "check") /\ UNCHANGED seen
    /\ UNCHANGED <<disk, rec, taskVars, batchVars, nameVars>>

Applies(g) ==
    /\ pc[g] \in {"apply", "reapply"}
    /\ ApplyList(g)
    /\ Goto(g, IF pc[g] = "apply" THEN "release" ELSE "check")
    /\ UNCHANGED <<disk, taskVars, batchVars, nameVars>>

Release(b) ==
    /\ pc[b] = "release"
    /\ ReleaseVMName(b)
    /\ Goto(b, "relist")
    /\ UNCHANGED <<disk, rec, taskVars, seen, old, batchVars>>

-----------------------------------------------------------------------------
(* A rename *)

(* POST /api/vm/rename, up to the reservation; the new name is a template.   *)
AskRename(r) ==
    /\ pc[r] = "none"
    /\ \E n \in disk : rec[n] # NoRec /\ old' = [old EXCEPT ![r] = n]
    /\ AllocVMName(r, NoName)
    /\ Goto(r, "rename")
    /\ UNCHANGED <<disk, rec, taskVars, seen, batchVars>>

(* tart rename; it fails when the VM is gone, and may fail anyway. *)
TartRename(r) ==
    /\ pc[r] = "rename"
    /\ \/ /\ old[r] \in disk
          /\ disk' = (disk \ {old[r]}) \cup {name[r]}
          /\ Goto(r, "move")
       \/ /\ Goto(r, "list")
          /\ UNCHANGED disk
    /\ UNCHANGED <<rec, taskVars, seen, batchVars, nameVars>>

(* The record is carried to the new name. *)
MoveRecord(r) ==
    /\ pc[r] = "move"
    /\ rec' = IF rec[old[r]] = NoRec THEN rec
              ELSE [rec EXCEPT ![name[r]] = rec[old[r]], ![old[r]] = NoRec]
    /\ Goto(r, "list")
    /\ UNCHANGED <<disk, taskVars, seen, batchVars, nameVars>>

EndRename(r) ==
    /\ pc[r] = "release"
    /\ ReleaseVMName(r)
    /\ old' = [old EXCEPT ![r] = NoName]
    /\ Goto(r, "none")
    /\ UNCHANGED <<disk, rec, taskVars, seen, batchVars>>

-----------------------------------------------------------------------------
(* Others: tasks of other components, and users who delete *)

(* An image pull, a snapshot, an enrolment: only its place in the list       *)
(* matters here.                                                             *)
OtherTask ==
    /\ tasks' = Newest(Append(tasks, Over))
    /\ UNCHANGED <<disk, rec, cancelled, tagged, doomed, pc, seen, batchVars, nameVars>>

Delete(n) ==
    /\ n \in disk /\ rec[n] # NoRec
    /\ disk' = disk \ {n}
    /\ UNCHANGED <<rec, taskVars, pc, seen, batchVars, nameVars>>

-----------------------------------------------------------------------------
Init ==
    /\ disk \in Existing
    /\ rec = [n \in Name |-> IF n \in disk THEN {} ELSE NoRec]
    /\ reserved = {}
    /\ tasks = <<>>
    /\ cancelled = {} /\ tagged = {} /\ doomed = {}
    /\ batches = [b \in Batch |-> "none"]
    /\ req = [b \in Batch |-> NoReq]
    /\ started = [b \in Batch |-> 0]
    /\ pc = [g \in Maker |-> "none"]
    /\ name = [g \in Maker |-> NoName]
    /\ lastNum = [b \in Batch |-> 0]
    /\ old = [r \in Renamer |-> NoName]
    /\ seen = [g \in Lister |-> NoList]

BatchStep(b) ==
    \/ Check(b) \/ Alloc(b) \/ NameError(b) \/ BeginTask(b) \/ TagTask(b) \/ MakeVM(b)
    \/ SetVM(b) \/ WriteSetting(b) \/ FinishVM(b) \/ Lists(b) \/ Applies(b) \/ Release(b)

RenameStep(r) ==
    \/ TartRename(r) \/ MoveRecord(r) \/ Lists(r) \/ Applies(r) \/ EndRename(r)

MonitorStep == MonitorLists \/ MonitorApplies

Next ==
    \/ \E b \in Batch : Create(b) \/ BatchStep(b) \/ CancelBatch(b)
           \/ CancelTask(b) \/ CancelCollected(b)
    \/ \E r \in Renamer : AskRename(r) \/ RenameStep(r)
    \/ \E n \in Name : Delete(n)
    \/ OtherTask
    \/ MonitorStep

Spec == Init /\ [][Next]_vars

(* The goroutines run on, tart's commands end, and the monitor keeps listing *)
(* every few seconds; nobody has to create, rename, pull, cancel or delete.  *)
Fairness ==
    /\ \A b \in Batch : WF_vars(BatchStep(b))
    /\ \A r \in Renamer : WF_vars(RenameStep(r))
    /\ WF_vars(MonitorStep)

FairSpec == Spec /\ Fairness
-----------------------------------------------------------------------------
(* Properties *)

TypeOK ==
    /\ disk \subseteq Name
    /\ rec \in [Name -> (SUBSET Setting) \cup {NoRec}]
    /\ reserved \subseteq Name
    /\ tasks \in Seq(Batch \cup {Over})
    /\ cancelled \subseteq Batch /\ tagged \subseteq Batch /\ doomed \subseteq Batch
    /\ batches \in [Batch -> {"none", "open", "cancelled"}]
    /\ req \in [Batch -> Request \cup {NoReq}]
    /\ started \in [Batch -> Nat]
    /\ name \in [Maker -> Name \cup {NoName}]
    /\ lastNum \in [Batch -> Name \cup {NoName}]
    /\ old \in [Renamer -> Name \cup {NoName}]
    /\ seen \in [Lister -> (SUBSET Name) \cup {NoList}]

Making(g) == pc[g] \in {"task", "tag", "make", "rename"}

(* Two goroutines never work on one name, whichever request they serve, no   *)
(* reservation outlives its owner, and what tart is about to create under a  *)
(* name does not exist yet: allocVMName reserves under the lock, and the     *)
(* name is released only when the reconcile after the VM was made is over.   *)
NamesApart ==
    /\ \A g, h \in Maker : g # h /\ name[g] # NoName => name[g] # name[h]
    /\ reserved = {name[g] : g \in Maker} \ {NoName}
    /\ \A g \in Maker : Making(g) => name[g] \notin disk

(* Why names stay apart: a goroutine has a name from its reservation to its  *)
(* release, those who rename know what, and a batch is in m.batches while    *)
(* its goroutine runs.                                                       *)
Unnamed == {"none", "check", "alloc", "relist", "reapply"}
Renaming == {"rename", "move"}
NameInv ==
    /\ TypeOK /\ NamesApart
    /\ pc \in [Maker -> Label \cup Setting]
    /\ \A g \in Maker : name[g] = NoName <=> pc[g] \in Unnamed
    /\ \A r \in Renamer :
          /\ pc[r] \in Renaming \cup {"none", "list", "apply", "release"}
          /\ pc[r] \in Renaming => old[r] \in Name
    /\ \A b \in Batch : batches[b] = "none" <=> pc[b] = "none"

(* A cancelled batch begins no further VM and cannot be opened again: what   *)
(* cancelBatch promises, between any two sections of createVMs.              *)
CancelledStops ==
    [][\A b \in Batch : batches[b] = "cancelled" =>
          \/ batches'[b] = "none"
          \/ batches'[b] = "cancelled" /\ started'[b] = started[b]]_<<batches, started>>

(* A batch is finished and forgotten, whichever of its commands fail, and    *)
(* whatever is cancelled, deleted or renamed meanwhile.                      *)
BatchEnds == \A b \in Batch : batches[b] # "none" ~> batches[b] = "none"

(* A VM that stays gets a record that stays, although lists read before it   *)
(* existed drop the record (reconcile), and a VM that has gone loses it.     *)
Shown ==
    \A n \in Name : /\ <>[](n \in disk) => <>[](rec[n] # NoRec)
                    /\ <>[](n \notin disk) => <>[](rec[n] = NoRec)
=============================================================================
