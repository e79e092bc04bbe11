---------------------------- MODULE BuildsProofs ----------------------------
(***************************************************************************)
(* Theorems about Builds for every set of batches, renames and names.      *)
(***************************************************************************)
EXTENDS Builds, SequenceTheorems, WellFoundedInduction, TLAPS

-----------------------------------------------------------------------------
(* allocVMName *)

\* Where there is a free name there is a least one, so that Least picks it.
LEMMA LeastIsFirst ==
  ASSUME NEW S, S \subseteq Name, S # {}
  PROVE  Least(S) \in S /\ \A k \in S : Least(S) <= k
<1>1. S \subseteq Nat
  BY BoundsAssumption DEF Name
<1> DEFINE R == {p \in Nat \X Nat : p[1] < p[2]}
<1>2. IsWellFoundedOn(R, Nat)
  <2>1. R = OpToRel(<, Nat)
    BY DEF OpToRel
  <2> QED BY <2>1, NatLessThanWellFounded, Zenon
<1>3. PICK n \in S : \A m \in S : <<m, n>> \notin R
  <2> HIDE DEF R
  <2> QED BY <1>1, <1>2, WFMin
<1>4. ASSUME NEW m \in S PROVE n <= m
  <2>1. m \in Nat /\ n \in Nat /\ <<m, n>> \in Nat \X Nat
    BY <1>1
  <2>2. m < n => <<m, n>> \in R
    <3> DEFINE p == <<m, n>>
    <3>1. p \in Nat \X Nat /\ p[1] = m /\ p[2] = n
      BY <2>1
    <3> HIDE DEF p
    <3>2. m < n => p \in R
      BY <3>1
    <3> QED BY <3>2 DEF p
  <2> QED BY <1>3, <2>1, <2>2
<1> QED BY <1>3, <1>4 DEF Least

-----------------------------------------------------------------------------
(* Type correctness *)

LEMMA NewestType ==
  ASSUME NEW T, NEW s \in Seq(T)
  PROVE  Newest(s) \in Seq(T)
<1>1. CASE Len(s) > Keep
  <2>1. /\ Len(s) - Keep + 1 \in 1..Len(s) + 1 /\ Len(s) \in 0..Len(s)
    BY <1>1, BoundsAssumption
  <2>2. SubSeq(s, Len(s) - Keep + 1, Len(s)) \in Seq(T)
    BY <1>1, <2>1, BoundsAssumption
  <2> QED BY <1>1, <2>2 DEF Newest
<1>2. CASE ~(Len(s) > Keep)
  BY <1>2 DEF Newest
<1> QED BY <1>1, <1>2

\* The settings of a request are none of the labels.
LEMMA SettingsApart ==
  ASSUME NEW s \in Setting
  PROVE  s \notin Label
BY RequestAssumption DEF Setting, Range

LEMMA FieldsType ==
  ASSUME TypeOK, NEW b \in Batch
  PROVE  /\ req[b].fields \in Seq(Setting)
         /\ req[b].fields # <<>> => Head(req[b].fields) \in Setting
<1>1. CASE req[b] \in Request
  <2>1. req[b].fields \in Seq(STRING)
    BY <1>1, RequestAssumption
  <2>2. \A i \in DOMAIN req[b].fields : req[b].fields[i] \in Setting
    BY <1>1 DEF Setting, Range
  <2> QED BY <2>1, <2>2
<1>2. CASE req[b] = NoReq
  BY <1>2 DEF NoReq
<1> QED BY <1>1, <1>2 DEF TypeOK

\* MakeVM and SetVM, without the choice of what the command comes to.
LEMMA MakeVMStep ==
  ASSUME NEW b \in Batch, MakeVM(b)
  PROVE  /\ pc[b] = "make"
         /\ \/ disk' = disk \cup {name[b]} /\ Goto(b, "set")
            \/ disk' = disk /\ Goto(b, "finish")
         /\ UNCHANGED <<rec, taskVars, seen, batchVars, nameVars>>
<1> DEFINE to(done) == IF done THEN "set" ELSE "finish"
<1>1. PICK done \in (IF b \in cancelled THEN {FALSE} ELSE BOOLEAN) :
        (disk' = IF done THEN disk \cup {name[b]} ELSE disk) /\ Goto(b, to(done))
  BY Zenon DEF MakeVM
<1>2. (done => to(done) = "set") /\ (~done => to(done) = "finish")
  BY Zenon
<1>3. pc[b] = "make" /\ UNCHANGED <<rec, taskVars, seen, batchVars, nameVars>>
  BY Zenon DEF MakeVM
<1> HIDE DEF to
<1> QED BY <1>1, <1>2, <1>3, Zenon

LEMMA SetVMStep ==
  ASSUME NEW b \in Batch, SetVM(b)
  PROVE  /\ pc[b] = "set"
         /\ \/ Goto(b, "finish")
            \/ req[b].fields # <<>> /\ Goto(b, Head(req[b].fields))
         /\ UNCHANGED <<disk, rec, taskVars, seen, batchVars, nameVars>>
<1> DEFINE to(done) == IF ~done \/ req[b].fields = <<>> THEN "finish" ELSE Head(req[b].fields)
           may == IF req[b].fields = <<>> THEN {TRUE} ELSE IF b \in cancelled THEN {FALSE} ELSE BOOLEAN
<1>1. PICK done \in may : Goto(b, to(done))
  BY Zenon DEF SetVM
<1>2. \/ to(done) = "finish"
      \/ req[b].fields # <<>> /\ to(done) = Head(req[b].fields)
  <2>1. CASE ~done \/ req[b].fields = <<>>
    BY <2>1, Zenon
  <2>2. CASE ~(~done \/ req[b].fields = <<>>)
    BY <2>2, Zenon
  <2> QED BY <2>1, <2>2, Zenon
<1>3. UNCHANGED <<disk, rec, taskVars, seen, batchVars, nameVars>> /\ pc[b] = "set"
  BY Zenon DEF SetVM
<1> HIDE DEF to
<1> QED BY <1>1, <1>2, <1>3, Zenon

LEMMA BatchOverType ==
  ASSUME TypeOK, NEW b \in Batch, BatchOver(b)
  PROVE  /\ batches' \in [Batch -> {"none", "open", "cancelled"}]
         /\ req' \in [Batch -> Request \cup {NoReq}]
         /\ started' \in [Batch -> Nat]
         /\ lastNum' \in [Batch -> Name \cup {NoName}]
BY DEF TypeOK, BatchOver

LEMMA AllocStep ==
  ASSUME NameInv, NEW w \in Maker, NEW above, AllocVMName(w, above), name[w] = NoName
  PROVE  \E n \in Name :
            /\ n \notin disk /\ n \notin reserved
            /\ name' = [name EXCEPT ![w] = n]
            /\ reserved' = reserved \cup {n}
<1> DEFINE n == Least(Free(above))
<1>1. Free(above) \subseteq Name /\ Free(above) # {}
  BY DEF AllocVMName, Free
<1>2. n \in Free(above)
  BY <1>1, LeastIsFirst
<1>3. n \in Name /\ n \notin disk /\ n \notin reserved
  BY <1>2 DEF Free, Taken
<1>4. name' = [name EXCEPT ![w] = n] /\ reserved' = reserved \cup {name'[w]}
  BY DEF AllocVMName
<1>5. name'[w] = n
  BY <1>4 DEF NameInv, TypeOK
<1> HIDE DEF n
<1> QED BY <1>3, <1>4, <1>5

LEMMA BatchStepType ==
  ASSUME NameInv, NEW b \in Batch, BatchStep(b)
  PROVE  TypeOK'
<1> USE DEF TypeOK, taskVars, batchVars, nameVars, Maker, Lister
<1>0. TypeOK
  BY DEF NameInv
<1>1. CASE Check(b)
  <2>1. CASE Ends(b)
    BY <1>0, <1>1, <2>1, BatchOverType DEF Check
  <2>2. CASE ~Ends(b)
    <3>1. started' = [started EXCEPT ![b] = @ + 1]
      BY <1>1, <2>2, Zenon DEF Check
    <3>2. started' \in [Batch -> Nat]
      BY <1>0, <3>1
    <3>3. UNCHANGED <<disk, rec, taskVars, batches, req, lastNum, seen, nameVars>>
      BY <1>1, <2>2, Zenon DEF Check
    <3> QED BY <1>0, <3>2, <3>3
  <2> QED BY <2>1, <2>2
<1>2. CASE Alloc(b)
  <2>1. name[b] = NoName
    BY <1>2 DEF Alloc, NameInv, Unnamed
  <2>2. PICK n \in Name : name' = [name EXCEPT ![b] = n] /\ reserved' = reserved \cup {n}
    BY <1>2, <2>1, AllocStep DEF Alloc
  <2>3. name'[b] = n
    BY <1>0, <2>2
  <2>4. /\ lastNum' = [lastNum EXCEPT ![b] = n] \/ lastNum' = lastNum
        /\ UNCHANGED <<disk, rec, taskVars, batches, req, started, old, seen>>
    BY <1>2, <2>3 DEF Alloc
  <2> QED BY <1>0, <2>2, <2>4
<1>3. CASE NameError(b)
  <2>1. Append(tasks, Over) \in Seq(Batch \cup {Over})
    BY <1>0
  <2>2. tasks' \in Seq(Batch \cup {Over})
    BY <1>3, <2>1, NewestType, Zenon DEF NameError
  <2> QED BY <1>0, <1>3, <2>2, BatchOverType DEF NameError
<1>4. CASE BeginTask(b)
  <2>1. Append(tasks, b) \in Seq(Batch \cup {Over})
    BY <1>0
  <2>2. tasks' \in Seq(Batch \cup {Over})
    BY <1>4, <2>1, NewestType, Zenon DEF BeginTask, NewTask
  <2> QED BY <1>0, <1>4, <2>2 DEF BeginTask, NewTask
<1>5. CASE TagTask(b)
  BY <1>0, <1>5 DEF TagTask
<1>6. CASE MakeVM(b)
  <2>1. name[b] \in Name
    BY <1>0, <1>6 DEF MakeVM, NameInv, Unnamed
  <2> QED BY <1>0, <1>6, <2>1, MakeVMStep
<1>7. CASE SetVM(b)
  BY <1>0, <1>7, SetVMStep
<1>8. CASE WriteSetting(b)
  <2>1. pc[b] \in Setting /\ rec' = [rec EXCEPT ![name[b]] = (IF @ = NoRec THEN {} ELSE @) \cup {pc[b]}]
    BY <1>0, <1>8, FieldsType DEF WriteSetting
  <2>2. rec' \in [Name -> (SUBSET Setting) \cup {NoRec}]
    BY <1>0, <2>1
  <2> QED BY <1>0, <1>8, <2>2 DEF WriteSetting
<1>9. CASE FinishVM(b)
  <2>1. tasks' = [i \in 1..Len(tasks) |-> IF tasks[i] = b THEN Over ELSE tasks[i]]
    BY <1>0, <1>9 DEF FinishVM, FinishTask
  <2>2. \A i \in 1..Len(tasks) : tasks[i] \in Batch \cup {Over}
    BY <1>0
  <2>3. tasks' \in Seq(Batch \cup {Over})
    BY <1>0, <2>1, <2>2, IsASeq
  <2> QED BY <1>0, <1>9, <2>3 DEF FinishVM, FinishTask
<1>10. CASE Lists(b)
  BY <1>0, <1>10 DEF Lists, ReadList
<1>11. CASE Applies(b)
  BY <1>0, <1>11 DEF Applies, ApplyList, Synced
<1>12. CASE Release(b)
  BY <1>0, <1>12 DEF Release, ReleaseVMName
<1> QED BY <1>1, <1>2, <1>3, <1>4, <1>5, <1>6, <1>7, <1>8, <1>9, <1>10, <1>11, <1>12
        DEF BatchStep

LEMMA RenameType ==
  ASSUME NameInv, NEW r \in Renamer, AskRename(r) \/ RenameStep(r)
  PROVE  TypeOK'
<1> USE DEF TypeOK, taskVars, batchVars, nameVars, Maker, Lister
<1>0. TypeOK
  BY DEF NameInv
<1>1. CASE AskRename(r)
  <2>1. name[r] = NoName
    BY <1>1 DEF AskRename, NameInv, Unnamed
  <2>2. PICK n \in Name : name' = [name EXCEPT ![r] = n] /\ reserved' = reserved \cup {n}
    BY <1>1, <2>1, AllocStep DEF AskRename
  <2>3. PICK m \in disk : old' = [old EXCEPT ![r] = m]
    BY <1>1 DEF AskRename
  <2> QED BY <1>0, <1>1, <2>2, <2>3 DEF AskRename
<1>2. CASE TartRename(r)
  <2>1. name[r] \in Name
    BY <1>0, <1>2 DEF TartRename, NameInv, Unnamed
  <2> QED BY <1>0, <1>2, <2>1 DEF TartRename
<1>3. CASE MoveRecord(r)
  <2>1. old[r] \in Name
    BY <1>3 DEF MoveRecord, NameInv, Renaming
  <2>2. rec' \in [Name -> (SUBSET Setting) \cup {NoRec}]
    BY <1>0, <1>3, <2>1 DEF MoveRecord
  <2> QED BY <1>0, <1>3, <2>2 DEF MoveRecord
<1>4. CASE Lists(r)
  BY <1>0, <1>4 DEF Lists, ReadList
<1>5. CASE Applies(r)
  BY <1>0, <1>5 DEF Applies, ApplyList, Synced
<1>6. CASE EndRename(r)
  BY <1>0, <1>6 DEF EndRename, ReleaseVMName
<1> QED BY <1>1, <1>2, <1>3, <1>4, <1>5, <1>6 DEF RenameStep

LEMMA NextType ==
  ASSUME NameInv, [Next]_vars
  PROVE  TypeOK'
<1> USE DEF taskVars, batchVars, nameVars
<1>0. TypeOK
  BY DEF NameInv
<1>1. ASSUME NEW b \in Batch, Create(b) PROVE TypeOK'
  BY <1>0, <1>1 DEF Create, TypeOK
<1>2. ASSUME NEW b \in Batch, CancelBatch(b) \/ CancelTask(b) \/ CancelCollected(b) PROVE TypeOK'
  BY <1>0, <1>2 DEF CancelBatch, CancelTask, CancelCollected, TypeOK
<1>3. ASSUME NEW n \in Name, Delete(n) PROVE TypeOK'
  BY <1>0, <1>3 DEF Delete, TypeOK
<1>4. CASE OtherTask
  <2>1. Append(tasks, Over) \in Seq(Batch \cup {Over})
    BY <1>0 DEF TypeOK
  <2>2. tasks' \in Seq(Batch \cup {Over})
    BY <1>4, <2>1, NewestType, Zenon DEF OtherTask
  <2> QED BY <1>0, <1>4, <2>2 DEF OtherTask, TypeOK
<1>5. CASE MonitorStep
  BY <1>0, <1>5 DEF MonitorStep, MonitorLists, MonitorApplies, ReadList, ApplyList, Synced,
     TypeOK, Lister
<1>6. CASE UNCHANGED vars
  BY <1>0, <1>6 DEF vars, TypeOK
<1> QED BY <1>1, <1>2, <1>3, <1>4, <1>5, <1>6, BatchStepType, RenameType DEF Next

-----------------------------------------------------------------------------
(* Names *)

\* What NameInv says of names, without the types.
Named(g) == name[g] = NoName <=> pc[g] \in Unnamed
RenamerWell(r) ==
    /\ pc[r] \in Renaming \cup {"none", "list", "apply", "release"}
    /\ pc[r] \in Renaming => old[r] \in Name
Placed ==
    /\ pc \in [Maker -> Label \cup Setting]
    /\ \A g \in Maker : Named(g)
    /\ \A r \in Renamer : RenamerWell(r)
    /\ \A b \in Batch : batches[b] = "none" <=> pc[b] = "none"

\* A goroutine moves between places where it has a name, or between such where it
\* has none, and does not come to make a VM.
LEMMA KeepsName ==
  ASSUME NameInv, NEW g \in Maker, NEW l \in Label \cup Setting, Goto(g, l),
         UNCHANGED <<name, reserved, old>>, disk' \subseteq disk,
         l \in Unnamed <=> pc[g] \in Unnamed,
         l \in {"task", "tag", "make", "rename"} => Making(g),
         g \in Renamer => l \in {"move", "list", "apply", "release"},
         l = "move" => pc[g] = "rename",
         g \in Batch => l # "none" /\ pc[g] # "none",
         UNCHANGED batches
  PROVE  NamesApart' /\ Placed'
<1>1. pc \in [Maker -> Label \cup Setting] /\ pc' = [pc EXCEPT ![g] = l]
  BY DEF NameInv, Goto
<1>2. pc' \in [Maker -> Label \cup Setting] /\ pc'[g] = l /\ \A h \in Maker \ {g} : pc'[h] = pc[h]
  BY <1>1
<1>3. NamesApart'
  BY <1>2 DEF NameInv, NamesApart, Making
<1>4. \A h \in Maker : Named(h)'
  BY <1>2 DEF NameInv, Named
<1>5. \A r \in Renamer : RenamerWell(r)'
  BY <1>2 DEF NameInv, RenamerWell, Renaming, Maker
<1>6. \A b \in Batch : batches'[b] = "none" <=> pc'[b] = "none"
  BY <1>2, MakerAssumption DEF NameInv, Maker
<1> QED BY <1>2, <1>3, <1>4, <1>5, <1>6 DEF Placed

\* Nothing of this is touched, but for a VM that goes away.
LEMMA Unmoved ==
  ASSUME NameInv, UNCHANGED <<name, reserved, old, pc>>, disk' \subseteq disk,
         \A b \in Batch : batches'[b] = "none" <=> batches[b] = "none"
  PROVE  NamesApart' /\ Placed'
BY DEF NameInv, NamesApart, Placed, Named, RenamerWell, Making

LEMMA Reserves ==
  ASSUME NameInv, NEW g \in Maker, NEW l \in {"task", "rename"}, Goto(g, l), NEW n \in Name,
         pc[g] \in Unnamed, n \notin disk, n \notin reserved, UNCHANGED <<disk, batches>>,
         name' = [name EXCEPT ![g] = n], reserved' = reserved \cup {n},
         g \in Batch => l = "task" /\ UNCHANGED old /\ pc[g] # "none",
         g \in Renamer => l = "rename" /\ \E m \in Name : old' = [old EXCEPT ![g] = m]
  PROVE  NamesApart' /\ Placed'
<1> USE DEF Maker
<1>1. pc' \in [Maker -> Label \cup Setting] /\ pc'[g] = l /\ \A h \in Maker \ {g} : pc'[h] = pc[h]
  BY DEF NameInv, Goto, Label
<1>2. name[g] = NoName /\ n # NoName
  BY BoundsAssumption DEF NameInv, NoName, Name
<1>3. name'[g] = n /\ \A h \in Maker \ {g} : name'[h] = name[h]
  BY DEF NameInv, TypeOK
<1>4. NamesApart'
  <2>1. \A h \in Maker : name[h] # NoName => name[h] \in reserved
    BY DEF NameInv, NamesApart
  <2>2. \A h \in Maker \ {g} : name[h] # n
    BY <1>2, <2>1
  <2>3. \A h, k \in Maker : h # k /\ name'[h] # NoName => name'[h] # name'[k]
    BY <1>2, <1>3, <2>2 DEF NameInv, NamesApart
  <2>4. reserved' = {name'[h] : h \in Maker} \ {NoName}
    <3>1. reserved = {name[h] : h \in Maker} \ {NoName}
      BY DEF NameInv, NamesApart
    <3> QED BY <1>2, <1>3, <3>1
  <2>5. \A h \in Maker : Making(h)' => name'[h] \notin disk'
    BY <1>1, <1>3 DEF NameInv, NamesApart, Making
  <2> QED BY <2>3, <2>4, <2>5 DEF NamesApart
<1>5. \A h \in Maker : Named(h)'
  BY <1>1, <1>2, <1>3 DEF NameInv, Named, Unnamed
<1>6. \A r \in Renamer : RenamerWell(r)'
  <2>1. ASSUME NEW r \in Renamer, r # g PROVE old'[r] = old[r]
    BY <2>1, MakerAssumption DEF NameInv, TypeOK
  <2>2. g \in Renamer => old'[g] \in Name
    BY DEF NameInv, TypeOK
  <2> QED BY <1>1, <2>1, <2>2 DEF NameInv, RenamerWell, Renaming
<1>7. \A b \in Batch : batches'[b] = "none" <=> pc'[b] = "none"
  BY <1>1, MakerAssumption DEF NameInv
<1> QED BY <1>1, <1>4, <1>5, <1>6, <1>7 DEF Placed

LEMMA Releases ==
  ASSUME NameInv, NEW g \in Maker, NEW l \in {"relist", "none"}, Goto(g, l),
         pc[g] = "release", ReleaseVMName(g), UNCHANGED <<disk, batches>>,
         g \in Batch => l = "relist" /\ UNCHANGED old,
         g \in Renamer => l = "none" /\ old' = [old EXCEPT ![g] = NoName]
  PROVE  NamesApart' /\ Placed'
<1> USE DEF Maker
<1>1. pc' \in [Maker -> Label \cup Setting] /\ pc'[g] = l /\ \A h \in Maker \ {g} : pc'[h] = pc[h]
  BY DEF NameInv, Goto, Label
<1>2. name[g] # NoName
  BY DEF NameInv, Unnamed
<1>3. name'[g] = NoName /\ \A h \in Maker \ {g} : name'[h] = name[h]
  BY DEF NameInv, TypeOK, ReleaseVMName
<1>4. NamesApart'
  <2>1. \A h, k \in Maker : h # k /\ name'[h] # NoName => name'[h] # name'[k]
    BY <1>3 DEF NameInv, NamesApart
  <2>2. reserved' = {name'[h] : h \in Maker} \ {NoName}
    <3>1. reserved' = ({name[h] : h \in Maker} \ {NoName}) \ {name[g]}
      BY DEF NameInv, NamesApart, ReleaseVMName
    <3>2. \A h \in Maker \ {g} : name[h] # name[g]
      BY <1>2 DEF NameInv, NamesApart
    <3> QED BY <1>3, <3>1, <3>2
  <2>3. \A h \in Maker : Making(h)' => name'[h] \notin disk'
    BY <1>1, <1>3 DEF NameInv, NamesApart, Making
  <2> QED BY <2>1, <2>2, <2>3 DEF NamesApart
<1>5. \A h \in Maker : Named(h)'
  BY <1>1, <1>3 DEF NameInv, Named, Unnamed
<1>6. \A r \in Renamer : RenamerWell(r)'
  BY <1>1, MakerAssumption DEF NameInv, RenamerWell, Renaming, TypeOK
<1>7. \A b \in Batch : batches'[b] = "none" <=> pc'[b] = "none"
  BY <1>1, MakerAssumption DEF NameInv
<1> QED BY <1>1, <1>4, <1>5, <1>6, <1>7 DEF Placed

\* What is made under a name was nobody else's to make, and is not to be made again.
LEMMA Makes ==
  ASSUME NameInv, NEW g \in Maker, NEW l \in {"set", "move"}, Goto(g, l),
         pc[g] \in {"make", "rename"}, UNCHANGED <<name, reserved, old, batches>>,
         disk' \subseteq disk \cup {name[g]},
         g \in Batch => l = "set", g \in Renamer => l = "move" /\ pc[g] = "rename"
  PROVE  NamesApart' /\ Placed'
<1> USE DEF Maker
<1>1. pc' \in [Maker -> Label \cup Setting] /\ pc'[g] = l /\ \A h \in Maker \ {g} : pc'[h] = pc[h]
  BY DEF NameInv, Goto, Label
<1>2. name[g] # NoName /\ \A h \in Maker \ {g} : name[h] # name[g]
  BY DEF NameInv, Unnamed, NamesApart
<1>3. NamesApart'
  BY <1>1, <1>2 DEF NameInv, NamesApart, Making
<1>4. \A h \in Maker : Named(h)'
  BY <1>1 DEF NameInv, Named, Unnamed
<1>5. \A r \in Renamer : RenamerWell(r)'
  BY <1>1 DEF NameInv, RenamerWell, Renaming
<1>6. \A b \in Batch : batches'[b] = "none" <=> pc'[b] = "none"
  BY <1>1, MakerAssumption DEF NameInv
<1> QED BY <1>1, <1>3, <1>4, <1>5, <1>6 DEF Placed

\* A batch begins, or is over.
LEMMA BeginsOrEnds ==
  ASSUME NameInv, NEW b \in Batch, NEW l \in {"check", "none"}, Goto(b, l),
         pc[b] \in Unnamed, UNCHANGED <<name, reserved, old, disk>>,
         batches' = [batches EXCEPT ![b] = IF l = "none" THEN "none" ELSE "open"]
  PROVE  NamesApart' /\ Placed'
<1> USE DEF Maker
<1>1. pc' \in [Maker -> Label \cup Setting] /\ pc'[b] = l /\ \A h \in Maker \ {b} : pc'[h] = pc[h]
  BY DEF NameInv, Goto, Label
<1>2. NamesApart'
  BY <1>1 DEF NameInv, NamesApart, Making
<1>3. \A h \in Maker : Named(h)'
  BY <1>1 DEF NameInv, Named, Unnamed
<1>4. \A r \in Renamer : RenamerWell(r)'
  BY <1>1, MakerAssumption DEF NameInv, RenamerWell
<1>5. \A c \in Batch : batches'[c] = "none" <=> pc'[c] = "none"
  BY <1>1 DEF NameInv, TypeOK
<1> QED BY <1>1, <1>2, <1>3, <1>4, <1>5 DEF Placed

LEMMA BatchNames ==
  ASSUME NameInv, NEW b \in Batch, Create(b) \/ BatchStep(b)
  PROVE  NamesApart' /\ Placed'
<1> USE DEF taskVars, batchVars, nameVars, Maker
<1>1. CASE Create(b)
  <2>1. Goto(b, "check") /\ batches' = [batches EXCEPT ![b] = IF "check" = "none" THEN "none" ELSE "open"]
    BY <1>1 DEF Create
  <2> QED BY <1>1, <2>1, BeginsOrEnds DEF Create, Unnamed
<1>2. ASSUME BatchOver(b), pc[b] \in Unnamed, UNCHANGED <<disk, nameVars>>
      PROVE  NamesApart' /\ Placed'
  <2>1. Goto(b, "none") /\ batches' = [batches EXCEPT ![b] = IF "none" = "none" THEN "none" ELSE "open"]
    BY <1>2 DEF BatchOver
  <2> QED BY <1>2, <2>1, BeginsOrEnds
<1>3. CASE Check(b)
  <2>1. CASE Ends(b)
    BY <1>2, <1>3, <2>1 DEF Check, Unnamed
  <2>2. CASE ~Ends(b)
    <3>1. Goto(b, "alloc") /\ pc[b] = "check" /\ UNCHANGED <<disk, batches, nameVars>>
      BY <1>3, <2>2 DEF Check
    <3> QED BY <3>1, KeepsName, MakerAssumption DEF Label, Unnamed
  <2> QED BY <2>1, <2>2
<1>4. CASE Alloc(b)
  <2>1. name[b] = NoName
    BY <1>4 DEF Alloc, NameInv, Unnamed
  <2>2. PICK n \in Name : /\ n \notin disk /\ n \notin reserved
                          /\ name' = [name EXCEPT ![b] = n] /\ reserved' = reserved \cup {n}
    BY <1>4, <2>1, AllocStep DEF Alloc
  <2>3. pc[b] = "alloc" /\ Goto(b, "task") /\ UNCHANGED <<disk, batches, old>>
    BY <1>4 DEF Alloc
  <2> QED BY <2>2, <2>3, Reserves, MakerAssumption DEF Unnamed
<1>5. CASE NameError(b)
  BY <1>2, <1>5 DEF NameError, Unnamed
<1>6. CASE BeginTask(b)
  BY <1>6, KeepsName, MakerAssumption DEF BeginTask, Label, Unnamed, Making
<1>7. CASE TagTask(b)
  BY <1>7, KeepsName, MakerAssumption DEF TagTask, Label, Unnamed, Making
<1>8. CASE MakeVM(b)
  <2>1. pc[b] = "make" /\ UNCHANGED <<batches, nameVars>>
    BY <1>8, MakeVMStep
  <2>2. CASE disk' = disk \cup {name[b]} /\ Goto(b, "set")
    BY <2>1, <2>2, Makes, MakerAssumption
  <2>3. CASE disk' = disk /\ Goto(b, "finish")
    BY <2>1, <2>3, KeepsName, MakerAssumption DEF Label, Unnamed
  <2> QED BY <1>8, <2>2, <2>3, MakeVMStep
<1>9. ASSUME NEW l \in Setting \cup {"finish", "list", "apply", "release", "reapply", "check"},
             Goto(b, l), UNCHANGED <<disk, batches, nameVars>>, pc[b] # "none",
             l \in Unnamed <=> pc[b] \in Unnamed
      PROVE  NamesApart' /\ Placed'
  <2>1. l \in Label \cup Setting /\ l \notin {"none", "task", "tag", "make", "rename", "move"}
    BY <1>9, SettingsApart DEF Label
  <2> QED BY <1>9, <2>1, KeepsName, MakerAssumption
<1>10. CASE SetVM(b)
  <2>1. pc[b] = "set" /\ UNCHANGED <<disk, batches, nameVars>>
    BY <1>10, SetVMStep
  <2>2. CASE Goto(b, "finish")
    BY <1>9, <2>1, <2>2 DEF Unnamed
  <2>3. CASE req[b].fields # <<>> /\ Goto(b, Head(req[b].fields))
    <3>1. Head(req[b].fields) \in Setting
      BY <2>3, FieldsType DEF NameInv
    <3>2. Head(req[b].fields) \notin Unnamed
      BY <3>1, SettingsApart DEF Label, Unnamed
    <3> QED BY <1>9, <2>1, <2>3, <3>1, <3>2 DEF Unnamed
  <2> QED BY <1>10, <2>2, <2>3, SetVMStep
<1>11. CASE WriteSetting(b)
  <2>1. PICK i \in DOMAIN req[b].fields :
           /\ pc[b] = req[b].fields[i]
           /\ Goto(b, IF i < Len(req[b].fields) THEN req[b].fields[i + 1] ELSE "finish")
    BY <1>11 DEF WriteSetting
  <2>2. pc[b] \in Setting
    BY <2>1, FieldsType DEF NameInv
  <2>3. PICK l \in Setting \cup {"finish"} : Goto(b, l)
    BY <2>1, FieldsType DEF NameInv
  <2>4. pc[b] \notin Unnamed /\ l \notin Unnamed /\ pc[b] # "none"
    BY <2>2, <2>3, SettingsApart DEF Label, Unnamed
  <2>5. UNCHANGED <<disk, batches, nameVars>>
    BY <1>11 DEF WriteSetting
  <2> QED BY <1>9, <2>3, <2>4, <2>5
<1>12. CASE FinishVM(b)
  BY <1>9, <1>12 DEF FinishVM, Unnamed
<1>13. CASE Lists(b)
  BY <1>9, <1>13 DEF Lists, Unnamed
<1>14. CASE Applies(b)
  BY <1>9, <1>14 DEF Applies, Unnamed
<1>15. CASE Release(b)
  BY <1>15, Releases, MakerAssumption DEF Release
<1> QED BY <1>1, <1>3, <1>4, <1>5, <1>6, <1>7, <1>8, <1>10, <1>11, <1>12, <1>13, <1>14, <1>15
        DEF BatchStep

LEMMA RenameNames ==
  ASSUME NameInv, NEW r \in Renamer, AskRename(r) \/ RenameStep(r)
  PROVE  NamesApart' /\ Placed'
<1> USE DEF taskVars, batchVars, nameVars, Maker
<1>1. CASE AskRename(r)
  <2>1. name[r] = NoName /\ pc[r] \in Unnamed
    BY <1>1 DEF AskRename, NameInv, Unnamed
  <2>2. PICK n \in Name : /\ n \notin disk /\ n \notin reserved
                          /\ name' = [name EXCEPT ![r] = n] /\ reserved' = reserved \cup {n}
    BY <1>1, <2>1, AllocStep DEF AskRename
  <2>3. \E m \in Name : old' = [old EXCEPT ![r] = m]
    BY <1>1 DEF AskRename, NameInv, TypeOK
  <2>4. Goto(r, "rename") /\ UNCHANGED <<disk, batches>>
    BY <1>1 DEF AskRename
  <2> QED BY <2>1, <2>2, <2>3, <2>4, Reserves, MakerAssumption
<1>2. CASE TartRename(r)
  <2>1. CASE Goto(r, "move")
    BY <1>2, <2>1, Makes, MakerAssumption DEF TartRename
  <2>2. CASE Goto(r, "list") /\ UNCHANGED disk
    BY <1>2, <2>2, KeepsName, MakerAssumption DEF TartRename, Label, Unnamed
  <2> QED BY <1>2, <2>1, <2>2 DEF TartRename
<1>3. CASE MoveRecord(r)
  BY <1>3, KeepsName, MakerAssumption DEF MoveRecord, Label, Unnamed
<1>4. pc[r] \in {"list", "apply"} => (Lists(r) \/ Applies(r) =>
        \E l \in {"apply", "release"} : Goto(r, l) /\ UNCHANGED <<disk, batches, nameVars>>)
  BY DEF Lists, Applies
<1>5. CASE Lists(r) \/ Applies(r)
  <2>1. pc[r] \in {"list", "apply"}
    BY <1>5 DEF Lists, Applies, NameInv, Renaming
  <2> QED BY <1>4, <1>5, <2>1, KeepsName, MakerAssumption DEF Label, Unnamed
<1>6. CASE EndRename(r)
  BY <1>6, Releases, MakerAssumption DEF EndRename
<1> QED BY <1>1, <1>2, <1>3, <1>5, <1>6 DEF RenameStep

LEMMA NextNames == NameInv /\ [Next]_vars => NameInv'
<1> SUFFICES ASSUME NameInv, [Next]_vars PROVE NamesApart' /\ Placed'
  BY NextType DEF NameInv, Placed, Named, RenamerWell
<1> USE DEF taskVars, batchVars, nameVars
<1>1. ASSUME NEW b \in Batch, CancelBatch(b) PROVE NamesApart' /\ Placed'
  <2>1. \A c \in Batch : batches'[c] = "none" <=> batches[c] = "none"
    BY <1>1 DEF CancelBatch, NameInv, TypeOK
  <2> QED BY <1>1, <2>1, Unmoved DEF CancelBatch
<1>2. ASSUME NEW b \in Batch, CancelTask(b) \/ CancelCollected(b) PROVE NamesApart' /\ Placed'
  BY <1>2, Unmoved DEF CancelTask, CancelCollected
<1>3. ASSUME NEW n \in Name, Delete(n) PROVE NamesApart' /\ Placed'
  BY <1>3, Unmoved DEF Delete
<1>4. CASE OtherTask
  BY <1>4, Unmoved DEF OtherTask
<1>5. CASE MonitorStep
  BY <1>5, Unmoved DEF MonitorStep, MonitorLists, MonitorApplies
<1>6. CASE UNCHANGED vars
  BY <1>6, Unmoved DEF vars
<1> QED BY <1>1, <1>2, <1>3, <1>4, <1>5, <1>6, BatchNames, RenameNames DEF Next

LEMMA InitNames == Init => NameInv
<1> SUFFICES ASSUME Init PROVE NameInv
  OBVIOUS
<1>1. disk \subseteq Name
  BY ExistingAssumption DEF Init, Name
<1>2. TypeOK
  BY <1>1 DEF Init, TypeOK, NoName
<1>3. NamesApart
  BY DEF Init, NamesApart, Making
<1> QED BY <1>2, <1>3 DEF Init, NameInv, Label, Unnamed, Renaming, Maker

\* The inductive invariant of Builds: while a goroutine works on a name that name is
\* reserved, for it alone, from allocVMName to releaseVMName, and nobody holds a name
\* elsewhere in its steps; a batch is in m.batches while its goroutine runs.
THEOREM NameInvAlways == Spec => []NameInv
BY InitNames, NextNames, PTL DEF Spec

\* The variables keep their types, whatever is requested, fails or is cancelled: no VM
\* is made, renamed or recorded under a name that none was reserved for.
THEOREM TypeCorrect == Spec => []TypeOK
<1>1. NameInv => TypeOK
  BY DEF NameInv
<1> QED BY <1>1, NameInvAlways, PTL

\* Any number of batches and renames find different names, every reservation has its
\* owner, and none makes or renames a VM over one that exists (allocVMName).
THEOREM NamesStayApart == Spec => []NamesApart
<1>1. NameInv => NamesApart
  BY DEF NameInv
<1> QED BY <1>1, NameInvAlways, PTL

-----------------------------------------------------------------------------
(* Cancellation *)

\* A step from a state in which NameInv holds begins no VM of a cancelled batch, and
\* does not open it again: a batch that is in m.batches has a goroutine, so nobody
\* creates one in its place, and the goroutine sees the cancellation where it would
\* begin the next VM.
LEMMA CancelledStep ==
  ASSUME NameInv, [Next]_vars, NEW b \in Batch, batches[b] = "cancelled"
  PROVE  \/ batches'[b] = "none"
         \/ batches'[b] = "cancelled" /\ started'[b] = started[b]
<1> USE DEF batchVars
<1>0. /\ batches \in [Batch -> {"none", "open", "cancelled"}] /\ started \in [Batch -> Nat]
      /\ pc[b] # "none"
  BY DEF NameInv, TypeOK
<1>1. ASSUME NEW c \in Batch, Create(c) PROVE batches'[b] = batches[b] /\ started' = started
  BY <1>0, <1>1 DEF Create
<1>2. ASSUME NEW c \in Batch, CancelBatch(c) PROVE batches'[b] = "cancelled" /\ started' = started
  BY <1>0, <1>2 DEF CancelBatch
<1>3. ASSUME NEW c \in Batch, Check(c) \/ NameError(c)
      PROVE  batches'[b] = "none" \/ (batches'[b] = batches[b] /\ started'[b] = started[b])
  <2>1. CASE BatchOver(c)
    BY <1>0, <2>1 DEF BatchOver
  <2>2. CASE Check(c) /\ ~Ends(c)
    <3>1. c # b
      BY <2>2 DEF Ends
    <3>2. batches' = batches /\ started' = [started EXCEPT ![c] = @ + 1]
      BY <2>2 DEF Check
    <3> QED BY <1>0, <3>1, <3>2
  <2> QED BY <1>3, <2>1, <2>2 DEF Check, NameError
<1>4. ASSUME NEW c \in Batch, BatchStep(c), ~Check(c), ~NameError(c)
      PROVE  UNCHANGED <<batches, started>>
  <2>1. CASE MakeVM(c) \/ SetVM(c)
    BY <2>1, MakeVMStep, SetVMStep
  <2> QED BY <1>4, <2>1 DEF BatchStep, Alloc, BeginTask, TagTask, WriteSetting, FinishVM,
             Lists, Applies, Release
<1>5. CASE UNCHANGED <<batches, started>>
  BY <1>5
<1>6. ASSUME NEW c \in Batch, CancelTask(c) \/ CancelCollected(c)
      PROVE  UNCHANGED <<batches, started>>
  BY <1>6 DEF CancelTask, CancelCollected
<1>7. ASSUME NEW r \in Renamer, AskRename(r) \/ RenameStep(r) PROVE UNCHANGED <<batches, started>>
  BY <1>7 DEF AskRename, RenameStep, TartRename, MoveRecord, Lists, Applies, EndRename
<1>8. ASSUME NEW n \in Name, Delete(n) PROVE UNCHANGED <<batches, started>>
  BY <1>8 DEF Delete
<1>9. CASE OtherTask \/ MonitorStep \/ UNCHANGED vars
  BY <1>9 DEF OtherTask, MonitorStep, MonitorLists, MonitorApplies, vars
<1> QED BY <1>1, <1>2, <1>3, <1>4, <1>5, <1>6, <1>7, <1>8, <1>9 DEF Next

\* A cancelled batch begins no further VM and is not opened again, between any two
\* sections of createVMs and whatever else runs (cancelBatch).
THEOREM CancellationHolds == Spec => CancelledStops
<1>1. NameInv /\ [Next]_vars =>
        [\A b \in Batch : batches[b] = "cancelled" =>
            \/ batches'[b] = "none"
            \/ batches'[b] = "cancelled" /\ started'[b] = started[b]]_<<batches, started>>
  BY CancelledStep
<1> QED BY <1>1, NameInvAlways, PTL DEF Spec, CancelledStops
=============================================================================
