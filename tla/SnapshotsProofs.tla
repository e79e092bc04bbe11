-------------------------- MODULE SnapshotsProofs --------------------------
(***************************************************************************)
(* Theorems about Snapshots, for every set of names, every number of       *)
(* snapshots and of restarts, and any lists applied late.                  *)
(***************************************************************************)
EXTENDS Snapshots, TLAPS

-----------------------------------------------------------------------------
(* Names, and the locals of a goroutine *)

LEMMA Bases ==
  /\ AnyBase \in Base
  /\ "absent" \notin Base /\ "regular" \notin Base /\ "aside" \notin Base
BY BaseAssumption, BaseNames DEF AnyBase

LEMMA NamesOfVMs ==
  /\ Aside \in Name
  /\ \A b \in Base : Vm(b) \in Name
  /\ \A b \in Base, k \in Num : <<b, k>> \in Name
BY NumAssumption DEF Aside, Vm, Name, Num

LEMMA Beginnings == Idle \in Local /\ Watching \in Local
BY Bases, NamesOfVMs DEF Idle, Watching, Local, Label

LEMMA BeginTyped ==
  ASSUME TypeOK, NEW x \in Proc, NEW l \in Local, Begin(x, l)
  PROVE  loc' \in [Proc -> Local]
BY DEF TypeOK, Begin

LEMMA StepTyped ==
  ASSUME TypeOK, NEW x \in Proc, NEW l \in Label, Step(x, l)
  PROVE  loc' \in [Proc -> Local]
<1>1. [loc[x] EXCEPT !.pc = l] \in Local
  BY DEF TypeOK, Local
<1> QED BY <1>1 DEF TypeOK, Step

LEMMA TartTyped ==
  ASSUME TypeOK, NEW n \in Name, NEW m \in Name, TartDelete(n) \/ TartRename(n, m)
  PROVE  tart' \in [Name -> {"none", "half", "whole"}]
BY DEF TypeOK, TartDelete, TartRename

LEMMA DeleteTries ==
  ASSUME TypeOK, NEW x \in Proc, NEW n \in Name, NEW good \in Label, NEW bad \in Label,
         Tries(x, TartDelete(n), good, bad)
  PROVE  TypeOK'
<1>1. tart' \in [Name -> {"none", "half", "whole"}]
  BY TartTyped DEF Tries, TypeOK
<1>2. loc' \in [Proc -> Local]
  BY StepTyped DEF Tries
<1> QED BY <1>1, <1>2 DEF Tries, TypeOK, records

LEMMA RenameTries ==
  ASSUME TypeOK, NEW x \in Proc, NEW n \in Name, NEW m \in Name,
         NEW good \in Label, NEW bad \in Label,
         Tries(x, TartRename(n, m), good, bad)
  PROVE  TypeOK'
<1>1. tart' \in [Name -> {"none", "half", "whole"}]
  BY TartTyped DEF Tries, TypeOK
<1>2. loc' \in [Proc -> Local]
  BY StepTyped DEF Tries
<1> QED BY <1>1, <1>2 DEF Tries, TypeOK, records

\* A list applied to records makes records.
LEMMA ApplyTyped ==
  ASSUME NEW l \in SUBSET Name, NEW active \in SUBSET Name,
         NEW o \in [Name -> Base \cup {"absent", "regular"}],
         NEW entries \in [Base -> SUBSET Name],
         Apply(l, o, entries, active)
  PROVE  /\ of' \in [Name -> Base \cup {"absent", "regular"}]
         /\ snaps' \in [Base -> SUBSET Name]
<1>1. of' \in [Name -> Base \cup {"absent", "regular"}]
  BY DEF Apply
<1>2. snaps' \in [Base -> SUBSET Name]
  BY DEF Apply
<1> QED BY <1>1, <1>2

-----------------------------------------------------------------------------
(* Type correctness *)

LEMMA TakeTyped ==
  ASSUME TypeOK, NEW x \in Proc,
         Register(x) \/ Clone(x) \/ Undo(x) \/ Finish(x) \/ GiveUp(x) \/ Clean(x)
  PROVE  TypeOK'
<1> DEFINE me == loc[x]
<1>1. me \in Local /\ me.name \in Name /\ me.base \in Base /\ Vm(me.base) \in Name
  BY NamesOfVMs DEF TypeOK, Local
<1>2. {"clone", "finish", "undo", "giveup", "clean", "list"} \subseteq Label
  BY DEF Label
<1>3. CASE Register(x)
  <2>1. loc' \in [Proc -> Local]
    BY <1>2, <1>3, StepTyped, BeginTyped, Beginnings DEF Register
  <2> QED BY <1>1, <1>3, <2>1 DEF Register, TypeOK
<1>4. CASE Clone(x)
  <2>1. loc' \in [Proc -> Local]
    BY <1>2, <1>4, StepTyped DEF Clone
  <2>2. tart' \in [Name -> {"none", "half", "whole"}]
    BY <1>1, <1>4 DEF Clone, TypeOK
  <2> QED BY <1>1, <1>4, <2>1, <2>2 DEF Clone, TypeOK, records
<1>5. CASE Undo(x) \/ Clean(x)
  BY <1>1, <1>2, <1>5, DeleteTries DEF Undo, Clean
<1>6. CASE Finish(x)
  <2>1. loc' \in [Proc -> Local]
    BY <1>2, <1>6, StepTyped DEF Finish
  <2>2. snaps' \in [Base -> SUBSET Name] /\ tart' \in [Name -> {"none", "half", "whole"}]
    BY <1>1, <1>6 DEF Finish, TypeOK
  <2> QED BY <1>1, <1>6, <2>1, <2>2 DEF Finish, TypeOK, Saved
<1>7. CASE GiveUp(x)
  <2>1. loc' \in [Proc -> Local]
    BY <1>2, <1>7, StepTyped DEF GiveUp
  <2> QED BY <1>1, <1>7, <2>1 DEF GiveUp, TypeOK, Saved
<1> QED BY <1>3, <1>4, <1>5, <1>6, <1>7

LEMMA NameTyped ==
  ASSUME TypeOK, NEW x \in Proc, TakeName(x)
  PROVE  TypeOK'
<1> DEFINE b == loc[x].base
           Given(k) == [loc[x] EXCEPT !.pc = "register", !.name = <<b, k>>]
<1>1. loc[x] \in Local /\ b \in Base /\ "register" \in Label
  BY DEF TypeOK, Local, Label
<1>2. \A k \in Num : Given(k) \in Local
  BY <1>1, NamesOfVMs DEF Local
<1>3. (\E k \in Num : Begin(x, Given(k))) \/ Begin(x, Idle)
  BY DEF TakeName
<1> HIDE DEF Given
<1>4. loc' \in [Proc -> Local]
  BY <1>2, <1>3, Beginnings, BeginTyped
<1>5. shared' \in BOOLEAN
  BY DEF TakeName, TypeOK
<1> QED BY <1>4, <1>5 DEF TakeName, TypeOK, records

LEMMA ClaimTyped ==
  ASSUME TypeOK, NEW x \in Proc, NEW s \in Name, NEW then \in {"idle", "next"},
         NEW todo \in SUBSET Name, DropClaim(x, s, then, todo)
  PROVE  TypeOK'
<1> DEFINE l == [loc[x] EXCEPT !.pc = "erase", !.to = of[s], !.name = s,
                               !.then = then, !.todo = todo]
<1>1. loc[x] \in Local /\ of[s] \in Base /\ "erase" \in Label
  BY DEF DropClaim, TypeOK, Label
<1>2. l \in Local
  BY <1>1 DEF Local
<1>3. loc' \in [Proc -> Local]
  BY <1>2, BeginTyped DEF DropClaim
<1> QED BY <1>3 DEF DropClaim, TypeOK, records

LEMMA DeleteTyped ==
  ASSUME TypeOK, NEW x \in Proc,
         Erase(x) \/ Forget(x) \/ Keep(x) \/ DeleteNext(x) \/ DeleteOwn(x)
  PROVE  TypeOK'
<1> DEFINE me == loc[x]
<1>1. /\ me \in Local /\ me.name \in Name /\ Vm(me.base) \in Name
      /\ me.to \in Base /\ me.todo \in SUBSET Name
  BY NamesOfVMs DEF TypeOK, Local
<1>2. {"forget", "keep", "list", "delete"} \subseteq Label
  BY DEF Label
<1>3. CASE Erase(x) \/ DeleteOwn(x)
  BY <1>1, <1>2, <1>3, DeleteTries DEF Erase, DeleteOwn
<1>4. CASE Forget(x)
  <2>1. loc' \in [Proc -> Local]
    BY <1>2, <1>4, StepTyped DEF Forget
  <2>2. snaps' \in [Base -> SUBSET Name]
    BY <1>1, <1>4 DEF Forget, TypeOK
  <2> QED BY <1>1, <1>4, <2>1, <2>2 DEF Forget, TypeOK, Saved
<1>5. CASE Keep(x)
  <2>1. [me EXCEPT !.pc = "list", !.then = "idle"] \in Local
    BY <1>1, <1>2 DEF Local
  <2>2. loc' \in [Proc -> Local]
    BY <1>5, <2>1, BeginTyped DEF Keep
  <2> QED BY <1>5, <2>2 DEF Keep, TypeOK, records
<1>6. CASE DeleteNext(x)
  <2>1. CASE \E s \in me.todo : DropClaim(x, s, "next", me.todo \ {s})
    BY <1>1, <2>1, ClaimTyped
  <2>2. CASE Step(x, "delete") /\ UNCHANGED <<tart, records, busy, up, shared, restarts>>
    BY <1>2, <2>2, StepTyped DEF TypeOK, records
  <2>3. CASE Begin(x, Idle) /\ UNCHANGED <<tart, records, busy, up, shared, restarts>>
    BY <2>3, BeginTyped, Beginnings DEF TypeOK, records
  <2> QED BY <1>6, <2>1, <2>2, <2>3 DEF DeleteNext
<1> QED BY <1>3, <1>4, <1>5, <1>6

LEMMA RestoreTyped ==
  ASSUME TypeOK, NEW x \in Proc,
         MoveAside(x) \/ MoveOnto(x) \/ PutBack(x) \/ DropAside(x) \/ Record(x) \/ Clear(x)
  PROVE  TypeOK'
<1> DEFINE me == loc[x]
<1>1. me \in Local /\ me.name \in Name /\ me.base \in Base /\ Vm(me.base) \in Name
  BY NamesOfVMs DEF TypeOK, Local
<1>2. {"move", "clear", "last", "back", "record", "list"} \subseteq Label
  BY DEF Label
<1>3. CASE MoveAside(x) \/ MoveOnto(x) \/ PutBack(x)
  BY <1>1, <1>2, <1>3, RenameTries, NamesOfVMs DEF MoveAside, MoveOnto, PutBack
<1>4. CASE DropAside(x)
  BY <1>2, <1>4, DeleteTries, NamesOfVMs DEF DropAside
<1>5. CASE Record(x)
  <2>1. loc' \in [Proc -> Local]
    BY <1>2, <1>5, StepTyped DEF Record
  <2>2. snaps' \in [Base -> SUBSET Name]
    BY <1>1, <1>5 DEF Record, TypeOK
  <2> QED BY <1>1, <1>5, <2>1, <2>2 DEF Record, TypeOK, Saved
<1>6. CASE Clear(x)
  BY <1>6, BeginTyped, Beginnings DEF Clear, TypeOK, records
<1> QED BY <1>3, <1>4, <1>5, <1>6

\* The name of a snapshot after its VM was renamed is a name.
LEMMA RenamedTyped ==
  ASSUME TypeOK, NEW x \in Proc, NEW s \in Name, s[1] = loc[x].base
  PROVE  <<loc[x].to, s[2]>> \in Name
<1>1. loc[x].base \in Base /\ loc[x].to \in Base
  BY DEF TypeOK, Local
<1>2. s # Aside
  BY <1>1, Bases DEF Aside
<1>3. s[2] \in 0..MaxNum
  BY <1>2 DEF Name
<1> QED BY <1>1, <1>3 DEF Name

LEMMA FollowTyped ==
  ASSUME TypeOK, NEW x \in Proc, Follow(x)
  PROVE  TypeOK'
<1> DEFINE me == loc[x]
           Renamed(s) == IF s[1] = me.base THEN <<me.to, s[2]>> ELSE s
<1>1. PICK s \in me.todo :
        LET moves == Renamed(s) # s /\ ~Known(Renamed(s)) IN
        /\ busy' = busy \cup {s, Renamed(s)}
        /\ Begin(x, [me EXCEPT !.pc = IF moves THEN "shift" ELSE "point", !.name = s,
                               !.goal = IF moves THEN Renamed(s) ELSE s, !.todo = @ \ {s}])
  BY DEF Follow
<1>2. me \in Local /\ me.todo \in SUBSET Name /\ s \in Name
  BY DEF TypeOK, Local
<1>3. Renamed(s) \in Name
  BY <1>2, RenamedTyped
<1> DEFINE moves == Renamed(s) # s /\ ~Known(Renamed(s))
           p == IF moves THEN "shift" ELSE "point"
           g == IF moves THEN Renamed(s) ELSE s
           l == [me EXCEPT !.pc = p, !.name = s, !.goal = g, !.todo = @ \ {s}]
<1>4. p \in Label /\ g \in Name
  BY <1>2, <1>3 DEF Label
<1>5. l \in Local
  <2> HIDE DEF p, g
  <2> QED BY <1>2, <1>4 DEF Local
<1>6. loc' \in [Proc -> Local]
  <2>1. Begin(x, l)
    BY <1>1
  <2> HIDE DEF l
  <2> QED BY <1>5, <2>1, BeginTyped
<1>7. busy' \in SUBSET Name
  <2> HIDE DEF Renamed
  <2> QED BY <1>1, <1>2, <1>3 DEF TypeOK
<1> QED BY <1>6, <1>7 DEF Follow, TypeOK, records

LEMMA PointTyped ==
  ASSUME TypeOK, NEW x \in Proc, Point(x)
  PROVE  TypeOK'
<1> DEFINE me == loc[x]
<1>1. me \in Local /\ me.name \in Name /\ me.goal \in Name /\ me.to \in Base
  BY DEF TypeOK, Local
<1>2. "save" \in Label /\ "follow" \in Label
  BY DEF Label
<1>3. loc' \in [Proc -> Local]
  <2>1. (IF me.todo = {} THEN "save" ELSE "follow") \in Label
    BY <1>2
  <2> QED BY <2>1, StepTyped DEF Point
<1>4. of' \in [Name -> Base \cup {"absent", "regular"}]
  BY <1>1 DEF Point, TypeOK
<1>5. snaps' \in [Base -> SUBSET Name]
  BY <1>1 DEF Point, TypeOK
<1> QED BY <1>3, <1>4, <1>5 DEF Point, TypeOK

LEMMA RenameTyped ==
  ASSUME TypeOK, NEW x \in Proc, Rename(x) \/ Carry(x) \/ Plan(x) \/ Shift(x) \/ Save(x)
  PROVE  TypeOK'
<1> DEFINE me == loc[x]
<1>1. /\ me \in Local /\ me.name \in Name /\ me.goal \in Name
      /\ me.base \in Base /\ me.to \in Base
      /\ Vm(me.base) \in Name /\ Vm(me.to) \in Name
  BY NamesOfVMs DEF TypeOK, Local
<1>2. {"carry", "list", "plan", "follow", "point"} \subseteq Label
  BY DEF Label
<1>3. CASE Rename(x)
  BY <1>1, <1>2, <1>3, RenameTries DEF Rename
<1>4. CASE Carry(x)
  <2>1. loc' \in [Proc -> Local]
    BY <1>2, <1>4, StepTyped DEF Carry
  <2>2. of' \in [Name -> Base \cup {"absent", "regular"}]
    BY <1>1, <1>4 DEF Carry, TypeOK
  <2>3. snaps' \in [Base -> SUBSET Name]
    BY <1>1, <1>4 DEF Carry, TypeOK
  <2> QED BY <1>4, <2>1, <2>2, <2>3 DEF Carry, TypeOK, Saved
<1>5. CASE Plan(x)
  <2> DEFINE p == IF snaps[me.to] = {} THEN "list" ELSE "follow"
             l == [me EXCEPT !.pc = p, !.todo = snaps[me.to]]
  <2>1. p \in Label /\ snaps[me.to] \in SUBSET Name
    BY <1>1, <1>2 DEF TypeOK
  <2>2. l \in Local
    <3> HIDE DEF p
    <3> QED BY <1>1, <2>1 DEF Local
  <2>3. loc' \in [Proc -> Local]
    BY <1>5, <2>2, BeginTyped DEF Plan
  <2> QED BY <1>5, <2>3 DEF Plan, TypeOK, records
<1>6. CASE Shift(x)
  <2>1. [me EXCEPT !.pc = "point", !.goal = me.name] \in Local
    BY <1>1, <1>2 DEF Local
  <2>2. loc' \in [Proc -> Local]
    BY <1>2, <1>6, <2>1, StepTyped, BeginTyped DEF Shift
  <2>3. tart' \in [Name -> {"none", "half", "whole"}]
    BY <1>1, <1>6, TartTyped DEF Shift, TypeOK
  <2> QED BY <1>6, <2>2, <2>3 DEF Shift, TypeOK, records
<1>7. CASE Save(x)
  BY <1>2, <1>7, StepTyped DEF Save, TypeOK, Saved
<1> QED BY <1>3, <1>4, <1>5, <1>6, <1>7

LEMMA AfterTyped ==
  ASSUME TypeOK, NEW x \in Proc
  PROVE  After(x) \in Local
<1>1. loc[x] \in Local /\ loc[x].then \in {"idle", "list", "next", "clear"}
  BY DEF TypeOK, Local
<1>2. {"next", "clear"} \subseteq Label
  BY DEF Label
<1>3. CASE loc[x].then \in {"next", "clear"}
  <2>1. [loc[x] EXCEPT !.pc = loc[x].then, !.then = "idle", !.seen = {}] \in Local
    BY <1>1, <1>2, <1>3 DEF Local
  <2> QED BY <1>3, <2>1 DEF After
<1> QED BY <1>1, <1>3, Beginnings DEF After

LEMMA ReconcileTyped ==
  ASSUME TypeOK, NEW x \in Proc, ListTart(x) \/ Reconcile(x)
  PROVE  TypeOK'
<1>1. CASE ListTart(x)
  <2>1. loc[x] \in Local /\ "apply" \in Label /\ Names \in SUBSET Name
    BY DEF TypeOK, Label, Names
  <2>2. [loc[x] EXCEPT !.pc = "apply", !.seen = Names] \in Local
    BY <2>1 DEF Local
  <2>3. loc' \in [Proc -> Local]
    BY <1>1, <2>2, AfterTyped, BeginTyped DEF ListTart
  <2> QED BY <1>1, <2>3 DEF ListTart, TypeOK, records
<1>2. CASE Reconcile(x)
  <2>1. loc' \in [Proc -> Local]
    BY <1>2, AfterTyped, BeginTyped DEF Reconcile
  <2>2. loc[x].seen \in SUBSET Name
    BY DEF TypeOK, Local
  <2>3. /\ of' \in [Name -> Base \cup {"absent", "regular"}]
        /\ snaps' \in [Base -> SUBSET Name]
    BY <1>2, <2>2, ApplyTyped DEF Reconcile, TypeOK
  <2> QED BY <1>2, <2>1, <2>3 DEF Reconcile, TypeOK
<1> QED BY <1>1, <1>2

LEMMA AskTyped ==
  ASSUME TypeOK, Ask
  PROVE  TypeOK'
<1>1. CASE \E b \in Base : TakeAsk(b)
  <2>1. PICK b \in Base : TakeAsk(b)
    BY <1>1
  <2>2. "name" \in Label /\ "take" \in Proc
    BY <2>1 DEF Label, TakeAsk, Proc
  <2>3. [Idle EXCEPT !.pc = "name", !.base = b] \in Local
    BY <2>2, Beginnings DEF Local
  <2>4. loc' \in [Proc -> Local]
    BY <2>1, <2>2, <2>3, BeginTyped DEF TakeAsk
  <2> QED BY <2>1, <2>4 DEF TakeAsk, TypeOK, records
<1>2. CASE \E b \in Base : DeleteAsk(b)
  <2>1. PICK b \in Base : DeleteAsk(b)
    BY <1>2
  <2>2. "next" \in Label /\ Vm(b) \in Name /\ "delete" \in Proc /\ snaps[b] \in SUBSET Name
    BY <2>1, NamesOfVMs DEF Label, DeleteAsk, Proc, TypeOK
  <2>3. [Idle EXCEPT !.pc = "next", !.base = b, !.name = Vm(b), !.todo = snaps[b]] \in Local
    BY <2>2, Beginnings DEF Local
  <2>4. loc' \in [Proc -> Local]
    BY <2>1, <2>2, <2>3, BeginTyped DEF DeleteAsk
  <2> QED BY <2>1, <2>4 DEF DeleteAsk, TypeOK, records
<1>3. CASE \E s \in Name : DropAsk(s)
  BY <1>3, ClaimTyped DEF DropAsk, Proc
<1>4. CASE \E s \in Name : RestoreAsk(s)
  <2>1. PICK s \in Name : RestoreAsk(s)
    BY <1>4
  <2>2. /\ "aside" \in Label /\ of[s] \in Base /\ Vm(of[s]) \in Name
        /\ "restore" \in Proc
    BY <2>1, NamesOfVMs DEF Label, RestoreAsk, Proc
  <2>3. [Idle EXCEPT !.pc = "aside", !.base = of[s], !.name = s, !.then = "clear"] \in Local
    BY <2>2, Beginnings DEF Local
  <2>4. loc' \in [Proc -> Local]
    BY <2>1, <2>2, <2>3, BeginTyped DEF RestoreAsk
  <2> QED BY <2>1, <2>2, <2>4 DEF RestoreAsk, TypeOK, records
<1>5. CASE \E b, c \in Base : RenameAsk(b, c)
  <2>1. PICK b \in Base, c \in Base : RenameAsk(b, c)
    BY <1>5
  <2>2. "rename" \in Label /\ "rename" \in Proc
    BY <2>1 DEF Label, RenameAsk, Proc
  <2>3. [Idle EXCEPT !.pc = "rename", !.base = b, !.to = c] \in Local
    BY <2>2, Beginnings DEF Local
  <2>4. loc' \in [Proc -> Local]
    BY <2>1, <2>2, <2>3, BeginTyped DEF RenameAsk
  <2> QED BY <2>1, <2>4 DEF RenameAsk, TypeOK, records
<1> QED BY <1>1, <1>2, <1>3, <1>4, <1>5 DEF Ask

LEMMA UseTyped ==
  ASSUME TypeOK, Use
  PROVE  TypeOK'
<1>1. PICK n \in Name : Run(n) \/ Stop(n)
  BY DEF Use
<1>2. up' \in SUBSET Name /\ file' = [of |-> of, snaps |-> snaps]
  BY <1>1 DEF Run, Stop, Saved, TypeOK
<1> QED BY <1>1, <1>2 DEF Run, Stop, TypeOK

LEMMA RestartTyped ==
  ASSUME TypeOK, Restart
  PROVE  TypeOK'
<1>1. /\ of' \in [Name -> Base \cup {"absent", "regular"}]
      /\ snaps' \in [Base -> SUBSET Name]
  <2>1. /\ file.of \in [Name -> Base \cup {"absent", "regular"}]
        /\ file.snaps \in [Base -> SUBSET Name] /\ Names \in SUBSET Name
    BY DEF TypeOK, Names
  <2> QED BY <2>1, ApplyTyped DEF Restart
<1>2. restarts' \in 0..MaxRestarts
  BY BoundsAssumption DEF Restart, TypeOK
<1>3. loc' \in [Proc -> Local]
  BY Beginnings DEF Restart
<1> QED BY <1>1, <1>2, <1>3 DEF Restart, TypeOK

LEMMA InitTyped == Init => TypeOK
<1> SUFFICES ASSUME Init PROVE TypeOK
  OBVIOUS
<1>1. PICK taken \in SUBSET {<<AnyBase, k>> : k \in Num} :
        /\ tart = [n \in Name |-> IF n \in taken \cup {Vm(AnyBase)} THEN "whole" ELSE "none"]
        /\ of = [n \in Name |-> IF n = Vm(AnyBase) THEN "regular"
                                ELSE IF n \in taken THEN AnyBase ELSE "absent"]
        /\ snaps = [b \in Base |-> IF b = AnyBase THEN taken ELSE {}]
        /\ file = [of |-> of, snaps |-> snaps]
        /\ busy = {} /\ up = {} /\ shared = FALSE /\ restarts = 0
        /\ loc = [x \in Proc |-> IF x = "monitor" THEN Watching ELSE Idle]
  BY DEF Init
<1>2. taken \in SUBSET Name
  BY Bases, NamesOfVMs
<1>3. tart \in [Name -> {"none", "half", "whole"}]
  BY <1>1
<1>4. of \in [Name -> Base \cup {"absent", "regular"}]
  BY <1>1, Bases
<1>5. snaps \in [Base -> SUBSET Name]
  BY <1>1, <1>2
<1>6. loc \in [Proc -> Local]
  BY <1>1, Beginnings
<1>7. restarts \in 0..MaxRestarts
  BY <1>1, BoundsAssumption
<1> QED BY <1>1, <1>3, <1>4, <1>5, <1>6, <1>7 DEF TypeOK

LEMMA ProceedTyped ==
  ASSUME TypeOK, NEW x \in Proc, Proceed(x)
  PROVE  TypeOK'
BY NameTyped, TakeTyped, DeleteTyped, RestoreTyped, FollowTyped, PointTyped, RenameTyped,
   ReconcileTyped DEF Proceed

\* The variables of the model keep their types.
THEOREM TypeCorrect == Spec => []TypeOK
<1>1. TypeOK /\ [Next]_vars => TypeOK'
  <2> SUFFICES ASSUME TypeOK, [Next]_vars PROVE TypeOK'
    OBVIOUS
  <2>1. CASE Next
    BY <2>1, ProceedTyped, AskTyped, UseTyped, RestartTyped DEF Next
  <2>2. CASE UNCHANGED vars
    BY <2>2 DEF vars, TypeOK
  <2> QED BY <2>1, <2>2
<1> QED BY <1>1, InitTyped, PTL DEF Spec

-----------------------------------------------------------------------------
(* FlagsInv, without renames *)

Flagged == Steady /\ Apart

\* What a step of x leaves to the others: the flags it does not hold, the snapshots
\* with such a flag, what is no snapshot, and VMs that are down with their flag set.
Leaves(x) ==
  /\ \A n \in Name \ Claims(x) : n \in busy => n \in busy'
  /\ \A n \in Name \ Claims(x) :
       \/ of'[n] = of[n]
       \/ /\ n \notin busy \/ of[n] \notin Base
          /\ of'[n] \in Base => of[n] = of'[n]
  /\ up' \subseteq up \cup (Name \ busy)
  /\ \A y \in Proc \ {x} : loc'[y] = loc[y]

LEMMA ClaimsAreNames ==
  ASSUME TypeOK, NEW x \in Proc
  PROVE  Claims(x) \subseteq Name
BY NamesOfVMs DEF Claims, TypeOK, Local

\* Claims(y) depends on the locals of y only.
LEMMA ClaimsSame ==
  ASSUME NEW y, loc'[y] = loc[y]
  PROVE  Claims(y)' = Claims(y)
BY DEF Claims

LEMMA OthersKeep ==
  ASSUME TypeOK, Flagged, "rename" \notin Op,
         NEW x \in Proc, Leaves(x), NEW y \in Op, y # x,
         Claims(x) \cap Claims(y) = {}
  PROVE  HasItsFlags(y)' /\ KeepsToSteps(y)'
<1>1. y \in Proc /\ loc'[y] = loc[y] /\ HasItsFlags(y) /\ KeepsToSteps(y)
  BY DEF Proc, Leaves, Flagged, Steady, Apart
<1>2. Claims(y) \subseteq Name \ Claims(x) /\ Claims(y)' = Claims(y)
  BY <1>1, ClaimsAreNames, ClaimsSame
<1>3. (loc[y].pc # "register" => Claims(y) \subseteq busy)'
  BY <1>1, <1>2 DEF Leaves, HasItsFlags
<1>4. CopyFlagged(y)'
  <2>1. CASE loc[y].pc \in {"register"} \cup Copying
    <3>1. y = "take"
      BY <1>1, <2>1, OpAssumption DEF KeepsToSteps, Copying, Erasing, Looking
    <3>2. loc[y].name \in Claims(y)
      BY <2>1, <3>1 DEF Claims
    <3>3. loc[y].base \in Base
      BY <1>1 DEF TypeOK, Local
    <3>4. CASE loc[y].pc = "register"
      <4>1. of'[loc[y].name] \notin Base
        BY <1>1, <1>2, <3>2, <3>4 DEF Leaves, HasItsFlags, CopyFlagged
      <4> QED BY <1>1, <3>4, <4>1 DEF HasItsFlags, CopyFlagged, Copying
    <3>5. CASE loc[y].pc \in Copying
      <4>1. of[loc[y].name] = loc[y].base /\ loc[y].name \in busy
        BY <1>1, <3>2, <3>5 DEF HasItsFlags, CopyFlagged, Copying
      <4>2. of'[loc[y].name] = of[loc[y].name]
        BY <1>2, <3>2, <3>3, <4>1 DEF Leaves
      <4> QED BY <1>1, <3>5, <4>1, <4>2 DEF HasItsFlags, CopyFlagged, Copying
    <3> QED BY <2>1, <3>4, <3>5
  <2>2. CASE loc[y].pc \notin {"register"} \cup Copying
    BY <1>1, <2>2 DEF CopyFlagged
  <2> QED BY <2>1, <2>2
<1>5. ErasedFlagged(y)'
  <2>1. CASE loc[y].pc \in Erasing
    <3>1. y = "delete"
      BY <1>1, <2>1, OpAssumption DEF KeepsToSteps, Copying, Erasing, Looking
    <3>2. loc[y].name \in Claims(y) /\ loc[y].pc # "register"
      BY <2>1, <3>1 DEF Claims, Erasing
    <3>3. of[loc[y].name] \in Base /\ loc[y].name \in busy
      BY <1>1, <2>1, <3>2 DEF HasItsFlags, ErasedFlagged
    <3>4. of'[loc[y].name] = of[loc[y].name]
      BY <1>2, <3>2, <3>3 DEF Leaves
    <3> QED BY <1>1, <3>3, <3>4 DEF ErasedFlagged
  <2>2. CASE loc[y].pc \notin Erasing
    BY <1>1, <2>2 DEF ErasedFlagged
  <2> QED BY <2>1, <2>2
<1>6. RestoredDown(y)'
  <2>1. CASE y = "restore" /\ loc[y].pc # "idle"
    <3>1. Vm(loc[y].base) \in Claims(y)
      BY <2>1 DEF Claims
    <3>2. loc[y].pc # "register"
      BY <1>1, <2>1 DEF KeepsToSteps, Looking
    <3> QED BY <1>1, <2>1, <3>1, <3>2 DEF Leaves, HasItsFlags, RestoredDown
  <2>2. CASE ~(y = "restore" /\ loc[y].pc # "idle")
    BY <1>1, <2>2 DEF RestoredDown
  <2> QED BY <2>1, <2>2
<1>7. KeepsToSteps(y)'
  BY <1>1 DEF KeepsToSteps
<1> QED BY <1>3, <1>4, <1>5, <1>6, <1>7 DEF HasItsFlags

\* A step of x keeps Flagged when it keeps to its own and takes nothing of others'.
LEMMA StepKeepsFlags ==
  ASSUME TypeOK, Flagged, "rename" \notin Op, NEW x \in Proc, Leaves(x), OwnName',
         KeepsToSteps(x)', x \in Op => HasItsFlags(x)',
         \A y \in Op \ {x} : Claims(x)' \cap Claims(y) = {}
  PROVE  Flagged'
<1>1. \A y \in Op \ {x} : Claims(x) \cap Claims(y) = {}
  <2>1. CASE x \in Op
    BY <2>1 DEF Flagged, Steady, Apart, ClaimsApart
  <2>2. CASE x \notin Op
    <3>1. Claims(x) = {}
      BY <2>2 DEF Proc, Claims
    <3> QED BY <3>1
  <2> QED BY <2>1, <2>2
<1>2. \A y \in Op \ {x} : HasItsFlags(y)' /\ KeepsToSteps(y)'
  BY <1>1, OthersKeep
<1>3. \A y \in Proc : KeepsToSteps(y)'
  <2>1. x # "monitor" => KeepsToSteps("monitor")'
    BY DEF Flagged, Steady, Apart, Leaves, Proc, KeepsToSteps
  <2> QED BY <1>2, <2>1 DEF Proc
<1>4. \A y \in Op : HasItsFlags(y)'
  BY <1>2
<1>5. ClaimsApart'
  <2> SUFFICES ASSUME NEW y \in Op, NEW z \in Op, y # z
               PROVE  Claims(y)' \cap Claims(z)' = {}
    BY DEF ClaimsApart
  <2>1. \A v \in Op \ {x} : Claims(v)' = Claims(v)
    BY ClaimsSame DEF Leaves, Proc
  <2>2. CASE y = x
    BY <2>1, <2>2
  <2>3. CASE z = x
    BY <2>1, <2>3
  <2>4. CASE y # x /\ z # x
    BY <2>1, <2>4 DEF Flagged, Steady, Apart, ClaimsApart
  <2> QED BY <2>2, <2>3, <2>4
<1> QED BY <1>3, <1>4, <1>5 DEF Flagged, Steady, Apart

\* The kind of goroutine that is at a label.
LEMMA KindsOf ==
  ASSUME Steady, "rename" \notin Op, NEW x \in Proc
  PROVE  /\ loc[x].pc \in {"register", "clean"} \cup Copying => x = "take"
         /\ loc[x].pc \in {"register"} \cup Copying =>
              loc[x].name[1] = loc[x].base /\ loc[x].name[2] # 0
         /\ loc[x].pc \in {"next", "delete"} \cup Erasing => x = "delete"
         /\ loc[x].pc \in {"aside", "move", "back", "last", "record", "clear"} => x = "restore"
         /\ loc[x].pc \notin {"rename", "carry", "plan", "follow", "shift", "point", "save"}
         /\ x # "monitor" => x \in Op
BY OpAssumption DEF Steady, KeepsToSteps, Proc, Copying, Erasing, Looking

LEMMA Kinds ==
  ASSUME Flagged, "rename" \notin Op, NEW x \in Proc
  PROVE  /\ loc[x].pc \in {"register", "clean"} \cup Copying => x = "take"
         /\ loc[x].pc \in {"register"} \cup Copying =>
              loc[x].name[1] = loc[x].base /\ loc[x].name[2] # 0
         /\ loc[x].pc \in {"next", "delete"} \cup Erasing => x = "delete"
         /\ loc[x].pc \in {"aside", "move", "back", "last", "record", "clear"} => x = "restore"
         /\ loc[x].pc \notin {"rename", "carry", "plan", "follow", "shift", "point", "save"}
         /\ x # "monitor" => x \in Op /\ HasItsFlags(x)
BY KindsOf DEF Flagged, Apart

LEMMA Stepped ==
  ASSUME TypeOK, NEW x \in Proc, NEW l, Step(x, l)
  PROVE  /\ loc'[x].pc = l /\ loc'[x].base = loc[x].base /\ loc'[x].name = loc[x].name
         /\ loc'[x].then = loc[x].then /\ loc'[x].todo = loc[x].todo
         /\ \A y \in Proc \ {x} : loc'[y] = loc[y]
<1>1. loc'[x] = [loc[x] EXCEPT !.pc = l] /\ loc[x] \in Local
  BY DEF TypeOK, Step
<1>2. \A y \in Proc \ {x} : loc'[y] = loc[y]
  BY DEF TypeOK, Step
<1> QED BY <1>1, <1>2 DEF Local

LEMMA Begun ==
  ASSUME TypeOK, NEW x \in Proc, NEW l, Begin(x, l)
  PROVE  loc'[x] = l /\ \A y \in Proc \ {x} : loc'[y] = loc[y]
BY DEF TypeOK, Begin

LEMMA OwnNameStep ==
  ASSUME TypeOK, OwnName, file' = file \/ Saved,
         \A n \in Name : of'[n] \in Base =>
           of'[n] = of[n] \/ (n[1] = of'[n] /\ n[2] # 0)
  PROVE  OwnName'
<1>1. ASSUME NEW n \in Name, of'[n] \in Base
      PROVE  n[1] = of'[n] /\ n[2] # 0
  <2>1. CASE of'[n] = of[n]
    BY <1>1, <2>1 DEF OwnName
  <2> QED BY <1>1, <2>1
<1>2. ASSUME NEW n \in Name, file'.of[n] \in Base
      PROVE  n[1] = file'.of[n] /\ n[2] # 0
  <2>1. CASE file' = file
    BY <1>2, <2>1 DEF OwnName
  <2>2. CASE Saved
    <3>1. file'.of[n] = of'[n]
      BY <2>2 DEF Saved
    <3> QED BY <1>1, <1>2, <3>1
  <2> QED BY <2>1, <2>2
<1> QED BY <1>1, <1>2 DEF OwnName

\* Every goroutine keeps to its steps, and a snapshot's name is made of its original's,
\* also when a name is shared.
LEMMA SteadyStep ==
  ASSUME Steady, NEW x \in Proc, \A y \in Proc \ {x} : loc'[y] = loc[y],
         KeepsToSteps(x)', OwnName'
  PROVE  Steady'
<1>1. \A y \in Proc \ {x} : KeepsToSteps(y)'
  BY DEF Steady, KeepsToSteps
<1> QED BY <1>1 DEF Steady

LEMMA NoRecord ==
  ASSUME Steady, UNCHANGED records
  PROVE  OwnName'
BY DEF Steady, OwnName, records

\* A goroutine that takes its next step and changes no record and no flag, and
\* claims no more than before.
LEMMA QuietStep ==
  ASSUME TypeOK, Flagged, "rename" \notin Op, NEW x \in Proc,
         UNCHANGED <<records, busy, up>>, \A y \in Proc \ {x} : loc'[y] = loc[y],
         KeepsToSteps(x)', x \in Op => HasItsFlags(x)',
         Claims(x)' \subseteq Claims(x)
  PROVE  Flagged'
<1>1. Leaves(x)
  BY DEF Leaves, records
<1>2. OwnName'
  BY DEF Flagged, Steady, Apart, OwnName, records
<1>3. \A y \in Op \ {x} : Claims(x)' \cap Claims(y) = {}
  <2>1. CASE x \in Op
    BY <2>1 DEF Flagged, Steady, Apart, ClaimsApart
  <2>2. CASE x \notin Op
    <3>1. Claims(x) = {}
      BY <2>2 DEF Proc, Claims
    <3> QED BY <3>1
  <2> QED BY <2>1, <2>2
<1> QED BY <1>1, <1>2, <1>3, StepKeepsFlags

LEMMA TakeFlags ==
  ASSUME TypeOK, Flagged, "rename" \notin Op, NEW x \in Proc,
         Register(x) \/ Clone(x) \/ Undo(x) \/ Finish(x) \/ GiveUp(x) \/ Clean(x)
  PROVE  Flagged'
<1> DEFINE me == loc[x]
<1>1. /\ me.pc \in {"register", "clean"} \cup Copying /\ x = "take" /\ HasItsFlags(x)
      /\ me.pc \in {"register"} \cup Copying => me.name[1] = me.base /\ me.name[2] # 0
  BY Kinds DEF Register, Clone, Undo, Finish, GiveUp, Clean, At, Copying
<1>2. me.name \in Name /\ me.then = "idle"
  BY <1>1 DEF TypeOK, Local, Flagged, Steady, Apart, KeepsToSteps
<1>3. CASE Register(x)
  <2>1. Claims(x) = {me.name} /\ me.name[1] = me.base /\ me.name[2] # 0
    BY <1>1, <1>3 DEF Register, At, Claims, HasItsFlags, CopyFlagged
  <2>2. CASE Begin(x, Idle) /\ UNCHANGED <<of, busy>>
    <3>1. loc'[x] = Idle /\ \A y \in Proc \ {x} : loc'[y] = loc[y]
      BY <2>2, Begun
    <3>2. Claims(x)' = {} /\ KeepsToSteps(x)' /\ HasItsFlags(x)'
      BY <1>1, <3>1 DEF Claims, KeepsToSteps, HasItsFlags, CopyFlagged, ErasedFlagged,
                        RestoredDown, Idle, Copying, Erasing
    <3> QED BY <1>3, <2>2, <3>1, <3>2, QuietStep DEF Register, records
  <2>3. CASE /\ of' = [of EXCEPT ![me.name] = me.base]
             /\ busy' = busy \cup {me.name} /\ Step(x, "clone")
    <3>1. /\ loc'[x].pc = "clone" /\ loc'[x].base = me.base /\ loc'[x].name = me.name
          /\ loc'[x].then = "idle" /\ \A y \in Proc \ {x} : loc'[y] = loc[y]
      BY <1>2, <2>3, Stepped
    <3>2. of'[me.name] = me.base /\ \A n \in Name \ {me.name} : of'[n] = of[n]
      BY <1>2, <2>3 DEF TypeOK
    <3>3. Claims(x)' = {me.name}
      BY <1>1, <3>1 DEF Claims, Copying
    <3>4. KeepsToSteps(x)' /\ HasItsFlags(x)'
      BY <1>1, <2>1, <2>3, <3>1, <3>2, <3>3
         DEF KeepsToSteps, HasItsFlags, CopyFlagged, ErasedFlagged, RestoredDown,
             Copying, Erasing
    <3>5. Leaves(x)
      BY <1>3, <2>1, <2>3, <3>1, <3>2 DEF Leaves, Register
    <3>6. OwnName'
      BY <1>3, <2>1, <3>2, OwnNameStep DEF Flagged, Steady, Apart, Register
    <3>7. \A y \in Op \ {x} : Claims(x)' \cap Claims(y) = {}
      BY <1>1, <2>1, <3>3, Kinds DEF Flagged, Steady, Apart, ClaimsApart
    <3> QED BY <3>4, <3>5, <3>6, <3>7, StepKeepsFlags
  <2> QED BY <1>3, <2>2, <2>3 DEF Register
<1>4. CASE Clone(x) \/ Undo(x) \/ Clean(x)
  <2>1. PICK l \in {"finish", "undo", "giveup", "list"} :
          /\ Step(x, l) /\ (l = "list" <=> me.pc = "clean")
          /\ UNCHANGED <<records, busy, up>>
    BY <1>4 DEF Clone, Undo, Clean, Tries, At
  <2>2. /\ loc'[x].pc = l /\ loc'[x].base = me.base /\ loc'[x].name = me.name
        /\ loc'[x].then = "idle" /\ \A y \in Proc \ {x} : loc'[y] = loc[y]
    BY <1>2, <2>1, Stepped
  <2>3. me.pc # "register" /\ UNCHANGED <<of, busy>>
    BY <1>4, <2>1 DEF Clone, Undo, Clean, At, records
  <2>4. Claims(x)' = Claims(x)
    BY <1>1, <2>1, <2>2, <2>3 DEF Claims, Copying
  <2>5. KeepsToSteps(x)' /\ HasItsFlags(x)'
    BY <1>1, <2>1, <2>2, <2>3, <2>4
       DEF KeepsToSteps, HasItsFlags, CopyFlagged, ErasedFlagged, RestoredDown,
           Copying, Erasing, Looking
  <2> QED BY <2>1, <2>2, <2>4, <2>5, QuietStep
<1>5. CASE Finish(x) \/ GiveUp(x)
  <2>1. PICK l \in {"clean", "list"} : Step(x, l)
    BY <1>5 DEF Finish, GiveUp
  <2>2. loc'[x].pc = l /\ loc'[x].then = "idle" /\ \A y \in Proc \ {x} : loc'[y] = loc[y]
    BY <1>2, <2>1, Stepped
  <2>3. Claims(x) = {me.name} /\ Claims(x)' = {}
    BY <1>1, <1>5, <2>2 DEF Claims, Finish, GiveUp, At, Copying
  <2>4. KeepsToSteps(x)' /\ HasItsFlags(x)'
    BY <1>1, <2>2, <2>3
       DEF KeepsToSteps, HasItsFlags, CopyFlagged, ErasedFlagged, RestoredDown,
           Copying, Erasing, Looking
  <2>5. /\ \A n \in Name \ {me.name} : of'[n] = of[n]
        /\ of'[me.name] \in {of[me.name], "absent"}
    BY <1>2, <1>5 DEF Finish, GiveUp, TypeOK
  <2>6. Leaves(x)
    BY <1>5, <2>2, <2>3, <2>5 DEF Leaves, Finish, GiveUp
  <2>7. OwnName'
    BY <1>5, <2>5, Bases, OwnNameStep DEF Flagged, Steady, Apart, Finish, GiveUp
  <2> QED BY <2>3, <2>4, <2>6, <2>7, StepKeepsFlags
<1> QED BY <1>3, <1>4, <1>5

\* deleteSnapshot takes a VM whose flag is not set, so nobody holds it.
LEMMA DropFlags ==
  ASSUME TypeOK, Flagged, "rename" \notin Op, NEW x \in Proc, x = "delete",
         loc[x].pc \in {"idle", "next"},
         NEW s \in Name, NEW then \in {"idle", "next"}, NEW todo,
         DropClaim(x, s, then, todo)
  PROVE  Flagged'
<1> DEFINE l == [loc[x] EXCEPT !.pc = "erase", !.to = of[s], !.name = s,
                               !.then = then, !.todo = todo]
<1>1. loc'[x] = l /\ \A y \in Proc \ {x} : loc'[y] = loc[y]
  BY Begun DEF DropClaim
<1>2. l.pc = "erase" /\ l.name = s /\ l.then = then
  BY DEF TypeOK, Local
<1>3. of[s] \in Base /\ s \notin busy /\ busy' = busy \cup {s} /\ UNCHANGED <<records, up>>
  BY DEF DropClaim
<1> HIDE DEF l
<1>4. Claims(x) = {} /\ Claims(x)' = {s}
  BY <1>1, <1>2 DEF Claims, Erasing
<1>5. KeepsToSteps(x)' /\ HasItsFlags(x)'
  BY <1>1, <1>2, <1>3, <1>4
     DEF KeepsToSteps, HasItsFlags, CopyFlagged, ErasedFlagged, RestoredDown,
         Copying, Erasing, Looking, records
<1>6. Leaves(x)
  BY <1>1, <1>3 DEF Leaves, records
<1>7. OwnName'
  BY <1>3 DEF Flagged, Steady, Apart, OwnName, records
<1>8. \A y \in Op \ {x} : Claims(x)' \cap Claims(y) = {}
  <2> SUFFICES ASSUME NEW y \in Op \ {x} PROVE s \notin Claims(y)
    BY <1>4
  <2>1. y \in Proc /\ HasItsFlags(y)
    BY DEF Proc, Flagged, Steady, Apart
  <2>2. CASE loc[y].pc = "register"
    BY <1>3, <2>1, <2>2, Kinds DEF Claims, HasItsFlags, CopyFlagged
  <2>3. CASE loc[y].pc # "register"
    BY <1>3, <2>1, <2>3 DEF HasItsFlags
  <2> QED BY <2>2, <2>3
<1> QED BY <1>5, <1>6, <1>7, <1>8, StepKeepsFlags

LEMMA DeleteFlags ==
  ASSUME TypeOK, Flagged, "rename" \notin Op, NEW x \in Proc,
         Erase(x) \/ Forget(x) \/ Keep(x) \/ DeleteNext(x) \/ DeleteOwn(x)
  PROVE  Flagged'
<1> DEFINE me == loc[x]
<1>1. me.pc \in {"next", "delete"} \cup Erasing /\ x = "delete" /\ HasItsFlags(x)
  BY Kinds DEF Erase, Forget, Keep, DeleteNext, DeleteOwn, At, Erasing
<1>2. me \in Local /\ me.name \in Name /\ me.then \in {"idle", "next"}
  BY <1>1 DEF TypeOK, Local, Flagged, Steady, Apart, KeepsToSteps
<1>3. CASE Erase(x) \/ DeleteOwn(x)
  <2>1. PICK l \in {"forget", "keep", "list"} :
          /\ Step(x, l) /\ (l = "list" <=> me.pc = "delete")
          /\ UNCHANGED <<records, busy, up>>
    BY <1>3 DEF Erase, DeleteOwn, Tries, At
  <2>2. /\ loc'[x].pc = l /\ loc'[x].name = me.name /\ loc'[x].then = me.then
        /\ \A y \in Proc \ {x} : loc'[y] = loc[y]
    BY <2>1, Stepped
  <2>3. UNCHANGED <<of, busy>> /\ me.pc \in {"erase", "delete"}
    BY <1>3, <2>1 DEF records, Erase, DeleteOwn, At
  <2>4. Claims(x)' = Claims(x)
    BY <1>1, <2>1, <2>2, <2>3 DEF Claims, Erasing
  <2>5. KeepsToSteps(x)' /\ HasItsFlags(x)'
    BY <1>1, <1>2, <2>1, <2>2, <2>3, <2>4
       DEF KeepsToSteps, HasItsFlags, CopyFlagged, ErasedFlagged, RestoredDown,
           Copying, Erasing, Looking
  <2> QED BY <2>1, <2>2, <2>4, <2>5, QuietStep
<1>4. CASE Forget(x) \/ Keep(x)
  <2>1. /\ loc'[x].pc = "list" /\ loc'[x].then \in {"idle", "next"}
        /\ \A y \in Proc \ {x} : loc'[y] = loc[y]
    <3>1. CASE Forget(x)
      BY <1>2, <3>1, Stepped DEF Forget
    <3>2. CASE Keep(x)
      <4>1. loc'[x] = [me EXCEPT !.pc = "list", !.then = "idle"]
            /\ \A y \in Proc \ {x} : loc'[y] = loc[y]
        BY <3>2, Begun DEF Keep
      <4> QED BY <1>2, <4>1 DEF Local
    <3> QED BY <1>4, <3>1, <3>2
  <2>2. Claims(x) = {me.name} /\ Claims(x)' = {}
    BY <1>1, <1>4, <2>1 DEF Claims, Forget, Keep, At, Erasing
  <2>3. KeepsToSteps(x)' /\ HasItsFlags(x)'
    BY <1>1, <2>1, <2>2
       DEF KeepsToSteps, HasItsFlags, CopyFlagged, ErasedFlagged, RestoredDown,
           Copying, Erasing, Looking
  <2>4. /\ \A n \in Name \ {me.name} : of'[n] = of[n]
        /\ of'[me.name] \in {of[me.name], "absent"}
    BY <1>2, <1>4 DEF Forget, Keep, TypeOK, records
  <2>5. Leaves(x)
    BY <1>4, <2>1, <2>2, <2>4 DEF Leaves, Forget, Keep
  <2>6. file' = file \/ Saved
    BY <1>4 DEF Forget, Keep, records
  <2>7. OwnName'
    BY <2>4, <2>6, Bases, OwnNameStep DEF Flagged, Steady, Apart
  <2> QED BY <2>2, <2>3, <2>5, <2>7, StepKeepsFlags
<1>5. CASE DeleteNext(x)
  <2>1. me.pc = "next" /\ me.todo \in SUBSET Name
    BY <1>2, <1>5 DEF DeleteNext, At, Local
  <2>2. CASE \E s \in me.todo : DropClaim(x, s, "next", me.todo \ {s})
    BY <1>1, <2>1, <2>2, DropFlags
  <2>3. CASE Step(x, "delete") /\ UNCHANGED <<tart, records, busy, up, shared, restarts>>
    <3>1. /\ loc'[x].pc = "delete" /\ loc'[x].then = me.then
          /\ \A y \in Proc \ {x} : loc'[y] = loc[y]
      BY <2>3, Stepped
    <3>2. Claims(x)' = {} /\ KeepsToSteps(x)' /\ HasItsFlags(x)'
      BY <1>1, <1>2, <3>1
         DEF Claims, KeepsToSteps, HasItsFlags, CopyFlagged, ErasedFlagged, RestoredDown,
             Copying, Erasing, Looking
    <3> QED BY <2>3, <3>1, <3>2, QuietStep
  <2>4. CASE Begin(x, Idle) /\ UNCHANGED <<tart, records, busy, up, shared, restarts>>
    <3>1. loc'[x] = Idle /\ \A y \in Proc \ {x} : loc'[y] = loc[y]
      BY <2>4, Begun
    <3>2. Claims(x)' = {} /\ KeepsToSteps(x)' /\ HasItsFlags(x)'
      BY <1>1, <3>1
         DEF Idle, Claims, KeepsToSteps, HasItsFlags, CopyFlagged, ErasedFlagged,
             RestoredDown, Copying, Erasing, Looking
    <3> QED BY <2>4, <3>1, <3>2, QuietStep
  <2> QED BY <1>5, <2>2, <2>3, <2>4 DEF DeleteNext
<1> QED BY <1>3, <1>4, <1>5

LEMMA RestoreFlags ==
  ASSUME TypeOK, Flagged, "rename" \notin Op, NEW x \in Proc,
         MoveAside(x) \/ MoveOnto(x) \/ PutBack(x) \/ DropAside(x) \/ Record(x) \/ Clear(x)
  PROVE  Flagged'
<1> DEFINE me == loc[x]
           Own == {Vm(me.base), me.name}
<1>1. /\ me.pc \in {"aside", "move", "back", "last", "record", "clear"}
      /\ x = "restore" /\ HasItsFlags(x)
  BY Kinds DEF MoveAside, MoveOnto, PutBack, DropAside, Record, Clear, At
<1>2. me \in Local /\ me.name \in Name /\ (me.pc # "clear" => me.then = "clear")
  BY <1>1 DEF TypeOK, Local, Flagged, Steady, Apart, KeepsToSteps
<1>3. Claims(x) = Own
  BY <1>1 DEF Claims
<1>4. CASE MoveAside(x) \/ MoveOnto(x) \/ PutBack(x) \/ DropAside(x)
  <2>1. PICK l \in {"move", "last", "back", "record", "clear"} :
          Step(x, l) /\ UNCHANGED <<records, busy, up>>
    BY <1>4 DEF MoveAside, MoveOnto, PutBack, DropAside, Tries
  <2>2. /\ loc'[x].pc = l /\ loc'[x].name = me.name /\ loc'[x].base = me.base
        /\ loc'[x].then = me.then /\ \A y \in Proc \ {x} : loc'[y] = loc[y]
    BY <2>1, Stepped
  <2>3. me.then = "clear" /\ UNCHANGED <<of, busy>>
    BY <1>2, <1>4, <2>1 DEF records, MoveAside, MoveOnto, PutBack, DropAside, At
  <2>4. Claims(x)' = Own
    BY <1>1, <2>1, <2>2 DEF Claims
  <2>5. KeepsToSteps(x)' /\ HasItsFlags(x)'
    BY <1>1, <1>3, <2>1, <2>2, <2>3, <2>4
       DEF KeepsToSteps, HasItsFlags, CopyFlagged, ErasedFlagged, RestoredDown,
           Copying, Erasing, Looking
  <2> QED BY <1>3, <2>1, <2>2, <2>4, <2>5, QuietStep
<1>5. CASE Record(x)
  <2>1. /\ loc'[x].pc = "list" /\ loc'[x].name = me.name /\ loc'[x].base = me.base
        /\ loc'[x].then = me.then /\ \A y \in Proc \ {x} : loc'[y] = loc[y]
    BY <1>5, Stepped DEF Record
  <2>2. me.then = "clear" /\ UNCHANGED <<busy, up>>
    BY <1>2, <1>5 DEF Record, At
  <2>3. Claims(x)' = Own
    BY <1>1, <2>1 DEF Claims
  <2>4. KeepsToSteps(x)' /\ HasItsFlags(x)'
    BY <1>1, <1>3, <2>1, <2>2, <2>3
       DEF KeepsToSteps, HasItsFlags, CopyFlagged, ErasedFlagged, RestoredDown,
           Copying, Erasing, Looking
  <2>5. /\ \A n \in Name \ {me.name} : of'[n] = of[n]
        /\ of'[me.name] = "absent"
    BY <1>2, <1>5 DEF Record, TypeOK
  <2>6. Leaves(x)
    BY <1>3, <2>1, <2>2, <2>5 DEF Leaves
  <2>7. OwnName'
    BY <1>5, <2>5, Bases, OwnNameStep DEF Flagged, Steady, Apart, Record
  <2>8. \A y \in Op \ {x} : Claims(x)' \cap Claims(y) = {}
    BY <1>1, <1>3, <2>3, Kinds DEF Flagged, Steady, Apart, ClaimsApart
  <2> QED BY <2>4, <2>6, <2>7, <2>8, StepKeepsFlags
<1>6. CASE Clear(x)
  <2>1. loc'[x] = Idle /\ \A y \in Proc \ {x} : loc'[y] = loc[y]
    BY <1>6, Begun DEF Clear
  <2>2. Claims(x)' = {} /\ KeepsToSteps(x)' /\ HasItsFlags(x)'
    BY <1>1, <2>1
       DEF Idle, Claims, KeepsToSteps, HasItsFlags, CopyFlagged, ErasedFlagged,
           RestoredDown, Copying, Erasing, Looking
  <2>3. Leaves(x) /\ OwnName'
    BY <1>3, <1>6, <2>1 DEF Leaves, Clear, records, Flagged, Steady, Apart, OwnName
  <2> QED BY <2>2, <2>3, StepKeepsFlags
<1> QED BY <1>4, <1>5, <1>6

\* A list makes no snapshots, and leaves those with a flag alone.
LEMMA ApplyKeeps ==
  ASSUME NEW l, NEW o, NEW entries, NEW active, Apply(l, o, entries, active),
         NEW n \in Name
  PROVE  /\ of'[n] \in Base => of'[n] = o[n]
         /\ n \in active /\ o[n] \in Base => of'[n] = o[n]
<1> DEFINE Of(m) == IF m \in l THEN IF o[m] = "absent" THEN "regular" ELSE o[m]
                    ELSE IF m \in active THEN o[m] ELSE "absent"
           Orphan == n \notin active /\ Of(n) \in Base /\
                     Of(Vm(Of(n))) = "absent" /\ Vm(Of(n)) \notin active
<1>1. of'[n] = IF Orphan THEN "regular" ELSE Of(n)
  BY DEF Apply
<1>2. n \in active => ~Orphan
  OBVIOUS
<1> HIDE DEF Orphan
<1> QED BY <1>1, <1>2, Bases

LEMMA LookSteps ==
  ASSUME TypeOK, Steady, "rename" \notin Op, NEW x \in Proc,
         ListTart(x) \/ Reconcile(x)
  PROVE  /\ KeepsToSteps(x)' /\ Claims(x)' = Claims(x)
         /\ loc'[x].pc \notin {"register"} \cup Copying \cup Erasing
         /\ x = "restore" => /\ loc'[x].pc # "idle"
                             /\ loc'[x].name = loc[x].name /\ loc'[x].base = loc[x].base
         /\ \A y \in Proc \ {x} : loc'[y] = loc[y]
         /\ OwnName'
<1> DEFINE me == loc[x]
<1>1. me \in Local /\ me.pc \in Looking /\ KeepsToSteps(x)
  BY DEF ListTart, Reconcile, At, Looking, TypeOK, Steady
<1>2. PICK l \in {After(x), [me EXCEPT !.pc = "apply", !.seen = Names]} :
        Begin(x, l) /\ UNCHANGED <<file, busy, up>>
  BY DEF ListTart, Reconcile, records
<1>3. loc'[x] = l /\ \A y \in Proc \ {x} : loc'[y] = loc[y]
  BY <1>2, Begun
<1>4. /\ Claims(x)' = Claims(x) /\ KeepsToSteps(x)'
      /\ l.pc \notin {"register"} \cup Copying \cup Erasing
      /\ x = "restore" => l.pc # "idle" /\ l.name = me.name /\ l.base = me.base
  <2>1. CASE l = [me EXCEPT !.pc = "apply", !.seen = Names]
    <3>1. l.pc = "apply" /\ l.name = me.name /\ l.base = me.base /\ l.then = me.then
      BY <1>1, <2>1 DEF Local
    <3> QED BY <1>1, <1>3, <3>1 DEF Claims, KeepsToSteps, Copying, Erasing, Looking
  <2>2. CASE l = After(x)
    <3>1. CASE me.then \in {"next", "clear"}
      <4>1. l = [me EXCEPT !.pc = me.then, !.then = "idle", !.seen = {}]
        BY <2>2, <3>1 DEF After
      <4>2. l.pc = me.then /\ l.name = me.name /\ l.base = me.base /\ l.then = "idle"
        BY <1>1, <4>1 DEF Local
      <4>3. \/ x = "delete" /\ me.then = "next"
            \/ x = "restore" /\ me.then = "clear"
        BY <1>1, <3>1, OpAssumption DEF KeepsToSteps, Looking, Proc
      <4> QED BY <1>1, <1>3, <4>2, <4>3
              DEF Claims, KeepsToSteps, Copying, Erasing, Looking
    <3>2. CASE me.then = "idle"
      <4>1. l = Idle /\ x # "restore" /\ x # "monitor"
        BY <1>1, <2>2, <3>2 DEF After, KeepsToSteps, Looking
      <4> QED BY <1>1, <1>3, <4>1
              DEF Idle, Claims, KeepsToSteps, Copying, Erasing, Looking
    <3>3. CASE me.then = "list"
      <4>1. l = Watching /\ x \notin {"take", "delete", "restore"}
        BY <1>1, <2>2, <3>3 DEF After, KeepsToSteps, Looking
      <4>2. l.pc = "list" /\ l.then = "list"
        BY <4>1 DEF Watching, Idle
      <4> QED BY <1>1, <1>3, <4>1, <4>2
              DEF Claims, KeepsToSteps, Copying, Erasing, Looking
    <3> QED BY <1>1, <3>1, <3>2, <3>3 DEF Local
  <2> QED BY <2>1, <2>2
<1>5. OwnName'
  <2>1. CASE ListTart(x)
    BY <2>1, NoRecord DEF ListTart
  <2>2. CASE Reconcile(x)
    <3>1. Apply(me.seen, of, snaps, busy)
      BY <2>2 DEF Reconcile
    <3>2. \A n \in Name : of'[n] \in Base => of'[n] = of[n]
      BY <3>1, ApplyKeeps
    <3> QED BY <1>2, <3>2, OwnNameStep DEF Steady
  <2> QED BY <2>1, <2>2
<1> QED BY <1>3, <1>4, <1>5

LEMMA LookFlags ==
  ASSUME TypeOK, Flagged, "rename" \notin Op, NEW x \in Proc,
         ListTart(x) \/ Reconcile(x)
  PROVE  Flagged'
<1> DEFINE me == loc[x]
<1>1. me.pc \in Looking /\ KeepsToSteps(x)
  BY DEF ListTart, Reconcile, At, Looking, Flagged, Steady
<1>2. UNCHANGED <<file, busy, up>>
  BY DEF ListTart, Reconcile, records
<1>3. /\ KeepsToSteps(x)' /\ Claims(x)' = Claims(x)
      /\ loc'[x].pc \notin {"register"} \cup Copying \cup Erasing
      /\ x = "restore" => /\ loc'[x].pc # "idle"
                          /\ loc'[x].name = me.name /\ loc'[x].base = me.base
      /\ \A y \in Proc \ {x} : loc'[y] = loc[y]
      /\ OwnName'
  BY LookSteps DEF Flagged
<1>4. x \in Op => HasItsFlags(x)'
  <2> SUFFICES ASSUME x \in Op PROVE HasItsFlags(x)'
    OBVIOUS
  <2>1. HasItsFlags(x) /\ me.pc # "register"
    BY <1>1 DEF Flagged, Apart, Looking
  <2>2. loc'[x].pc # "register" => Claims(x)' \subseteq busy'
    BY <1>2, <1>3, <2>1 DEF HasItsFlags
  <2>3. CopyFlagged(x)' /\ ErasedFlagged(x)'
    BY <1>3 DEF CopyFlagged, ErasedFlagged
  <2>4. RestoredDown(x)'
    <3>1. x = "restore" => me.name[1] = me.base /\ Vm(me.base) \notin up
      BY <1>1, <2>1 DEF HasItsFlags, RestoredDown, Looking
    <3> QED BY <1>2, <1>3, <3>1 DEF RestoredDown
  <2> QED BY <2>2, <2>3, <2>4 DEF HasItsFlags
<1>5. CASE ListTart(x)
  BY <1>3, <1>4, <1>5, QuietStep DEF ListTart
<1>6. CASE Reconcile(x)
  <2>1. Apply(me.seen, of, snaps, busy)
    BY <1>6 DEF Reconcile
  <2>2. \A n \in Name : /\ of'[n] \in Base => of'[n] = of[n]
                        /\ n \in busy /\ of[n] \in Base => of'[n] = of[n]
    BY <2>1, ApplyKeeps
  <2>3. Leaves(x)
    BY <1>2, <1>3, <2>2 DEF Leaves
  <2>4. \A y \in Op \ {x} : Claims(x)' \cap Claims(y) = {}
    <3>1. x \notin Op => Claims(x) = {}
      BY DEF Proc, Claims
    <3> QED BY <1>3, <3>1 DEF Flagged, Apart, ClaimsApart
  <2> QED BY <1>3, <1>4, <2>3, <2>4, StepKeepsFlags
<1> QED BY <1>5, <1>6

\* The name a snapshot gets has no record; while no name is shared, nobody claims it.
LEMMA NameFlags ==
  ASSUME TypeOK, Flagged, "rename" \notin Op, NEW x \in Proc, TakeName(x), ~shared'
  PROVE  Flagged'
<1> DEFINE b == loc[x].base
<1>1. x = "take" /\ x \in Op /\ loc[x] \in Local /\ b \in Base /\ loc[x].then = "idle"
  BY OpAssumption DEF TakeName, At, TypeOK, Local, Flagged, Steady, KeepsToSteps, Proc,
                      Copying, Erasing, Looking
<1>2. UNCHANGED <<records, busy, up>> /\ Claims(x) = {}
  BY <1>1 DEF TakeName, At, Claims, Copying
<1>3. CASE Begin(x, Idle)
  <2>1. loc'[x] = Idle /\ \A y \in Proc \ {x} : loc'[y] = loc[y]
    BY <1>3, Begun
  <2>2. Claims(x)' = {} /\ KeepsToSteps(x)' /\ HasItsFlags(x)'
    BY <1>1, <2>1
       DEF Idle, Claims, KeepsToSteps, HasItsFlags, CopyFlagged, ErasedFlagged,
           RestoredDown, Copying, Erasing, Looking
  <2> QED BY <1>2, <2>1, <2>2, QuietStep
<1>4. ASSUME NEW k \in Num, Free(<<b, k>>),
             Begin(x, [loc[x] EXCEPT !.pc = "register", !.name = <<b, k>>]),
             \A y \in Op : <<b, k>> \notin Claims(y)
      PROVE  Flagged'
  <2> DEFINE n == <<b, k>>
             l == [loc[x] EXCEPT !.pc = "register", !.name = n]
  <2>1. /\ l.pc = "register" /\ l.base = b /\ l.name = n /\ l.then = "idle"
        /\ n \in Name /\ n[1] = b /\ n[2] # 0 /\ of[n] = "absent"
    BY <1>1, <1>4, NamesOfVMs DEF Local, Free, Known, Num
  <2>2. loc'[x] = l /\ \A y \in Proc \ {x} : loc'[y] = loc[y]
    BY <1>4, Begun
  <2>3. \A y \in Op : n \notin Claims(y)
    BY <1>4
  <2> HIDE DEF l, n
  <2>4. Claims(x)' = {n}
    BY <1>1, <2>1, <2>2 DEF Claims
  <2>5. KeepsToSteps(x)' /\ HasItsFlags(x)'
    <3>1. of' = of /\ of[n] \notin Base
      BY <1>2, <2>1, Bases DEF records
    <3> QED BY <1>1, <2>1, <2>2, <3>1
            DEF KeepsToSteps, HasItsFlags, CopyFlagged, ErasedFlagged, RestoredDown,
                Copying, Erasing, Looking
  <2>6. Leaves(x) /\ OwnName'
    BY <1>2, <2>2 DEF Leaves, records, Flagged, Steady, OwnName
  <2> QED BY <1>1, <2>3, <2>4, <2>5, <2>6, StepKeepsFlags
<1> QED BY <1>3, <1>4 DEF TakeName, Lowest

\* A restore takes a family of which nobody holds a flag; a copy being made of the VM
\* would.
LEMMA RestoreAskFlags ==
  ASSUME TypeOK, Flagged, "rename" \notin Op, NEW s \in Name, RestoreAsk(s)
  PROVE  Flagged'
<1> DEFINE x == "restore"
           b == of[s]
           l == [Idle EXCEPT !.pc = "aside", !.base = b, !.name = s, !.then = "clear"]
<1>1. /\ b \in Base /\ Known(Vm(b)) /\ ~InUse(b) /\ Vm(b) \in Name
      /\ busy' = busy \cup {Vm(b), s} /\ UNCHANGED <<records, up>>
      /\ x \in Op /\ x \in Proc
  BY NamesOfVMs DEF RestoreAsk, Proc
<1>2. l.pc = "aside" /\ l.base = b /\ l.name = s /\ l.then = "clear"
  BY DEF Idle
<1>3. loc'[x] = l /\ \A y \in Proc \ {x} : loc'[y] = loc[y]
  BY <1>1, Begun DEF RestoreAsk
<1>4. s[1] = b /\ s[2] # 0
  BY <1>1 DEF Flagged, Steady, Apart, OwnName
<1>5. s \notin busy /\ Vm(b) \notin busy /\ Vm(b) \notin up
  BY <1>1, Bases DEF InUse, Known
<1> HIDE DEF l
<1>6. Claims(x)' = {Vm(b), s}
  BY <1>2, <1>3 DEF Claims
<1>7. KeepsToSteps(x)' /\ HasItsFlags(x)'
  BY <1>1, <1>2, <1>3, <1>4, <1>5, <1>6
     DEF KeepsToSteps, HasItsFlags, CopyFlagged, ErasedFlagged, RestoredDown,
         Copying, Erasing, Looking
<1>8. Leaves(x)
  BY <1>1, <1>3 DEF Leaves, records
<1>9. OwnName'
  BY <1>1 DEF Flagged, Steady, Apart, OwnName, records
<1>10. ASSUME NEW y \in Op \ {x} PROVE {Vm(b), s} \cap Claims(y) = {}
  <2>1. y \in Proc /\ HasItsFlags(y)
    BY DEF Proc, Flagged, Steady, Apart
  <2>2. CASE loc[y].pc = "register"
    <3>1. Claims(y) = {loc[y].name} /\ loc[y].name[2] # 0 /\ of[loc[y].name] \notin Base
      BY <2>1, <2>2, Kinds DEF Claims, HasItsFlags, CopyFlagged
    <3> QED BY <1>1, <3>1 DEF Vm
  <2>3. CASE loc[y].pc # "register"
    BY <1>5, <2>1, <2>3 DEF HasItsFlags
  <2> QED BY <2>2, <2>3
<1> QED BY <1>1, <1>6, <1>7, <1>8, <1>9, <1>10, StepKeepsFlags

LEMMA AskFlags ==
  ASSUME TypeOK, Flagged, "rename" \notin Op, Ask
  PROVE  Flagged'
<1>1. CASE \E b \in Base : DeleteAsk(b)
  <2>1. PICK b \in Base : DeleteAsk(b)
    BY <1>1
  <2> DEFINE x == "delete"
             l == [Idle EXCEPT !.pc = "next", !.base = b, !.name = Vm(b), !.todo = snaps[b]]
  <2>2. x \in Proc /\ UNCHANGED <<records, busy, up>>
    BY <2>1 DEF DeleteAsk, Proc
  <2>3. loc'[x] = l /\ \A y \in Proc \ {x} : loc'[y] = loc[y]
    BY <2>1, <2>2, Begun DEF DeleteAsk
  <2>4. l.pc = "next" /\ l.then = "idle"
    BY DEF Idle
  <2> HIDE DEF l
  <2>5. Claims(x)' = {} /\ KeepsToSteps(x)' /\ HasItsFlags(x)'
    BY <2>3, <2>4
       DEF Claims, KeepsToSteps, HasItsFlags, CopyFlagged, ErasedFlagged, RestoredDown,
           Copying, Erasing, Looking
  <2> QED BY <2>2, <2>3, <2>5, QuietStep
<1>2. CASE \E s \in Name : DropAsk(s)
  BY <1>2, DropFlags DEF DropAsk, At, Proc
<1>3. CASE \E b \in Base : TakeAsk(b)
  <2>1. PICK b \in Base : TakeAsk(b)
    BY <1>3
  <2> DEFINE x == "take"
             l == [Idle EXCEPT !.pc = "name", !.base = b]
  <2>2. x \in Proc /\ UNCHANGED <<records, busy, up>>
    BY <2>1 DEF TakeAsk, Proc
  <2>3. loc'[x] = l /\ \A y \in Proc \ {x} : loc'[y] = loc[y]
    BY <2>1, <2>2, Begun DEF TakeAsk
  <2>4. l.pc = "name" /\ l.then = "idle"
    BY DEF Idle
  <2> HIDE DEF l
  <2>5. Claims(x)' = {} /\ KeepsToSteps(x)' /\ HasItsFlags(x)'
    BY <2>3, <2>4
       DEF Claims, KeepsToSteps, HasItsFlags, CopyFlagged, ErasedFlagged, RestoredDown,
           Copying, Erasing, Looking
  <2> QED BY <2>2, <2>3, <2>5, QuietStep
<1> QED BY <1>1, <1>2, <1>3, RestoreAskFlags DEF Ask, RenameAsk

LEMMA UseFlags ==
  ASSUME TypeOK, Flagged, "rename" \notin Op, Use
  PROVE  Flagged'
<1> DEFINE x == "monitor"
<1>1. PICK n \in Name : Run(n) \/ Stop(n)
  BY DEF Use
<1>2. x \in Proc /\ x \notin Op /\ Claims(x)' = {}
  BY OpAssumption DEF Proc, Claims
<1>3. Leaves(x) /\ KeepsToSteps(x)'
  BY <1>1, <1>2 DEF Leaves, Run, Stop, Flagged, Steady, Apart, KeepsToSteps
<1>4. OwnName'
  BY <1>1, OwnNameStep DEF Flagged, Steady, Apart, Run, Stop
<1> QED BY <1>2, <1>3, <1>4, StepKeepsFlags

\* Whoever has just begun, or the server after a restart, holds nothing.
LEMMA FreshFlags ==
  ASSUME NEW x \in Proc,
         loc[x] = IF x = "monitor" THEN Watching ELSE Idle
  PROVE  Claims(x) = {} /\ KeepsToSteps(x) /\ (x # "monitor" => HasItsFlags(x))
BY DEF Idle, Watching, Claims, KeepsToSteps, HasItsFlags, CopyFlagged, ErasedFlagged,
       RestoredDown, Copying, Erasing, Looking

LEMMA RestartFlags ==
  ASSUME TypeOK, Steady, Restart
  PROVE  Flagged'
<1>1. \A x \in Proc : loc'[x] = IF x = "monitor" THEN Watching ELSE Idle
  BY DEF Restart
<1>2. ASSUME NEW x \in Proc
      PROVE  Claims(x)' = {} /\ KeepsToSteps(x)' /\ (x # "monitor" => HasItsFlags(x)')
  <2>1. CASE x = "monitor"
    <3>1. loc'[x].pc = "list" /\ loc'[x].then = "list"
      BY <1>1, <2>1 DEF Idle, Watching
    <3> QED BY <2>1, <3>1 DEF Claims, KeepsToSteps, Looking
  <2>2. CASE x # "monitor"
    <3>1. loc'[x].pc = "idle" /\ loc'[x].then = "idle"
      BY <1>1, <2>2 DEF Idle
    <3>2. Claims(x)' = {} /\ KeepsToSteps(x)'
      BY <2>2, <3>1 DEF Claims, Copying, Erasing, KeepsToSteps
    <3>3. HasItsFlags(x)'
      BY <3>1, <3>2 DEF HasItsFlags, CopyFlagged, ErasedFlagged, RestoredDown, Copying,
                        Erasing
    <3> QED BY <3>2, <3>3
  <2> QED BY <2>1, <2>2
<1>3. OwnName'
  <2>1. \A n \in Name : of'[n] \in Base => of'[n] = file.of[n]
    BY ApplyKeeps DEF Restart
  <2>2. file' = file
    BY DEF Restart
  <2>3. ASSUME NEW n \in Name, of'[n] \in Base PROVE n[1] = of'[n] /\ n[2] # 0
    BY <2>1, <2>3 DEF Flagged, Steady, Apart, OwnName
  <2>4. ASSUME NEW n \in Name, file'.of[n] \in Base
        PROVE  n[1] = file'.of[n] /\ n[2] # 0
    BY <2>2, <2>4 DEF Flagged, Steady, Apart, OwnName
  <2> QED BY <2>3, <2>4 DEF OwnName
<1>4. \A x \in Op : x \in Proc /\ x # "monitor"
  BY OpAssumption DEF Proc
<1> QED BY <1>2, <1>3, <1>4 DEF Flagged, Steady, Apart, ClaimsApart

LEMMA InitFlags == Init => Flagged
<1> SUFFICES ASSUME Init PROVE Flagged
  OBVIOUS
<1>1. PICK taken \in SUBSET {<<AnyBase, k>> : k \in Num} :
        /\ of = [n \in Name |-> IF n = Vm(AnyBase) THEN "regular"
                                ELSE IF n \in taken THEN AnyBase ELSE "absent"]
        /\ file = [of |-> of, snaps |-> snaps]
        /\ loc = [x \in Proc |-> IF x = "monitor" THEN Watching ELSE Idle]
  BY DEF Init
<1>2. \A x \in Proc : loc[x] = IF x = "monitor" THEN Watching ELSE Idle
  BY <1>1
<1>3. ASSUME NEW n \in Name, of[n] \in Base PROVE n[1] = of[n] /\ n[2] # 0
  <2>1. n \in taken /\ of[n] = AnyBase
    BY <1>1, <1>3, Bases
  <2>2. PICK k \in Num : n = <<AnyBase, k>>
    BY <2>1
  <2> QED BY <2>1, <2>2 DEF Num
<1>4. OwnName
  BY <1>1, <1>3 DEF OwnName
<1>5. \A x \in Op : x \in Proc /\ x # "monitor"
  BY OpAssumption DEF Proc
<1> QED BY <1>2, <1>4, <1>5, FreshFlags DEF Flagged, Steady, Apart, ClaimsApart

LEMMA IdleFlags ==
  ASSUME TypeOK, Flagged, "rename" \notin Op, UNCHANGED vars
  PROVE  Flagged'
<1>1. Leaves("monitor") /\ "monitor" \in Proc /\ OwnName'
  BY DEF vars, Leaves, Proc, Flagged, Steady, OwnName
<1>2. KeepsToSteps("monitor")' /\ Claims("monitor")' = {} /\ "monitor" \notin Op
  BY <1>1, OpAssumption DEF vars, Flagged, Steady, KeepsToSteps, Claims
<1> QED BY <1>1, <1>2, StepKeepsFlags

LEMMA TakeSteady ==
  ASSUME TypeOK, Steady, "rename" \notin Op, NEW x \in Proc,
         \/ TakeName(x) \/ Register(x) \/ Clone(x) \/ Undo(x) \/ Finish(x) \/ GiveUp(x)
         \/ Clean(x)
  PROVE  Steady'
<1> DEFINE me == loc[x]
<1>1. /\ me.pc \in {"name", "register", "clean"} \cup Copying /\ x = "take"
      /\ me \in Local /\ me.name \in Name /\ me.base \in Base /\ me.then = "idle"
      /\ me.pc \in {"register"} \cup Copying => me.name[1] = me.base /\ me.name[2] # 0
  BY OpAssumption
     DEF TakeName, Register, Clone, Undo, Finish, GiveUp, Clean, At, Copying, Erasing, Looking,
         TypeOK, Local, Steady, KeepsToSteps, Proc
<1>2. CASE Begin(x, Idle) /\ UNCHANGED records
  <2>1. loc'[x] = Idle /\ \A y \in Proc \ {x} : loc'[y] = loc[y]
    BY <1>2, Begun
  <2>2. KeepsToSteps(x)'
    BY <1>1, <2>1 DEF Idle, KeepsToSteps, Copying
  <2> QED BY <1>2, <2>1, <2>2, SteadyStep, NoRecord
<1>3. ASSUME NEW k \in Num,
             Begin(x, [me EXCEPT !.pc = "register", !.name = <<me.base, k>>]),
             UNCHANGED records
      PROVE  Steady'
  <2>1. /\ loc'[x].pc = "register" /\ loc'[x].base = me.base /\ loc'[x].then = "idle"
        /\ loc'[x].name[1] = me.base /\ loc'[x].name[2] # 0
        /\ \A y \in Proc \ {x} : loc'[y] = loc[y]
    <3>1. /\ loc'[x] = [me EXCEPT !.pc = "register", !.name = <<me.base, k>>]
          /\ \A y \in Proc \ {x} : loc'[y] = loc[y]
      BY <1>3, Begun
    <3> QED BY <1>1, <3>1 DEF Local, Num
  <2>2. KeepsToSteps(x)'
    BY <1>1, <2>1 DEF KeepsToSteps
  <2> QED BY <1>3, <2>1, <2>2, SteadyStep, NoRecord
<1>4. ASSUME NEW l \in {"clean", "list"} \cup Copying, Step(x, l), OwnName',
             l \in Copying => me.pc \in {"register"} \cup Copying
      PROVE  Steady'
  <2>1. /\ loc'[x].pc = l /\ loc'[x].base = me.base /\ loc'[x].name = me.name
        /\ loc'[x].then = "idle" /\ \A y \in Proc \ {x} : loc'[y] = loc[y]
    BY <1>1, <1>4, Stepped
  <2>2. KeepsToSteps(x)'
    BY <1>1, <1>4, <2>1 DEF KeepsToSteps, Copying, Looking
  <2> QED BY <1>4, <2>1, <2>2, SteadyStep
<1>5. CASE TakeName(x)
  BY <1>2, <1>3, <1>5 DEF TakeName
<1>6. CASE Register(x)
  <2>1. CASE of' = [of EXCEPT ![me.name] = me.base] /\ Step(x, "clone")
    <3>1. OwnName'
      BY <1>1, <1>6, <2>1, OwnNameStep DEF Register, At, Steady, TypeOK
    <3> QED BY <1>4, <1>6, <2>1, <3>1 DEF Register, At, Copying
  <2> QED BY <1>2, <1>6, <2>1 DEF Register, records
<1>7. CASE Clone(x) \/ Undo(x) \/ Clean(x)
  BY <1>4, <1>7, NoRecord DEF Clone, Undo, Clean, Tries, At, Copying
<1>8. CASE Finish(x) \/ GiveUp(x)
  <2>1. /\ \A n \in Name \ {me.name} : of'[n] = of[n]
        /\ of'[me.name] \in {of[me.name], "absent"}
    BY <1>1, <1>8 DEF Finish, GiveUp, TypeOK
  <2>2. OwnName'
    BY <1>8, <2>1, Bases, OwnNameStep DEF Steady, Finish, GiveUp
  <2> QED BY <1>4, <1>8, <2>2 DEF Finish, GiveUp, Copying
<1> QED BY <1>5, <1>6, <1>7, <1>8

LEMMA DropSteady ==
  ASSUME TypeOK, Steady, NEW s \in Name, NEW then \in {"idle", "next"}, NEW todo,
         "delete" \in Proc, DropClaim("delete", s, then, todo)
  PROVE  Steady'
<1>1. /\ loc'["delete"] = [loc["delete"] EXCEPT !.pc = "erase", !.to = of[s], !.name = s,
                                                !.then = then, !.todo = todo]
      /\ \A y \in Proc \ {"delete"} : loc'[y] = loc[y]
  BY Begun DEF DropClaim
<1>2. loc'["delete"].pc = "erase" /\ loc'["delete"].then = then
  BY <1>1 DEF TypeOK, Local
<1>3. KeepsToSteps("delete")'
  BY <1>2 DEF KeepsToSteps, Erasing
<1> QED BY <1>1, <1>3, SteadyStep, NoRecord DEF DropClaim

LEMMA DeleteSteady ==
  ASSUME TypeOK, Steady, "rename" \notin Op, NEW x \in Proc,
         Erase(x) \/ Forget(x) \/ Keep(x) \/ DeleteNext(x) \/ DeleteOwn(x)
  PROVE  Steady'
<1> DEFINE me == loc[x]
<1>1. /\ x = "delete" /\ me \in Local /\ me.name \in Name /\ me.then \in {"idle", "next"}
      /\ me.todo \in SUBSET Name
  BY KindsOf DEF Erase, Forget, Keep, DeleteNext, DeleteOwn, At, Erasing, TypeOK, Local,
                 Steady, KeepsToSteps
<1>2. ASSUME NEW l \in {"forget", "keep", "list", "delete"}, Step(x, l), OwnName'
      PROVE  Steady'
  <2>1. /\ loc'[x].pc = l /\ loc'[x].then = me.then
        /\ \A y \in Proc \ {x} : loc'[y] = loc[y]
    BY <1>2, Stepped
  <2>2. KeepsToSteps(x)'
    BY <1>1, <2>1 DEF KeepsToSteps, Erasing, Looking
  <2> QED BY <1>2, <2>1, <2>2, SteadyStep
<1>3. CASE Erase(x) \/ DeleteOwn(x)
  BY <1>2, <1>3, NoRecord DEF Erase, DeleteOwn, Tries
<1>4. CASE Forget(x)
  <2>1. /\ \A n \in Name \ {me.name} : of'[n] = of[n]
        /\ of'[me.name] = "absent"
    BY <1>1, <1>4 DEF Forget, TypeOK
  <2>2. OwnName'
    BY <1>4, <2>1, Bases, OwnNameStep DEF Steady, Forget
  <2> QED BY <1>2, <1>4, <2>2 DEF Forget
<1>5. CASE Keep(x)
  <2>1. /\ loc'[x] = [me EXCEPT !.pc = "list", !.then = "idle"]
        /\ \A y \in Proc \ {x} : loc'[y] = loc[y]
    BY <1>5, Begun DEF Keep
  <2>2. KeepsToSteps(x)'
    BY <1>1, <2>1 DEF KeepsToSteps, Local, Looking
  <2> QED BY <1>5, <2>1, <2>2, SteadyStep, NoRecord DEF Keep
<1>6. CASE DeleteNext(x)
  <2>1. CASE \E s \in me.todo : DropClaim(x, s, "next", me.todo \ {s})
    BY <1>1, <2>1, DropSteady
  <2>2. CASE Step(x, "delete") /\ UNCHANGED records
    BY <1>2, <2>2, NoRecord
  <2>3. CASE Begin(x, Idle) /\ UNCHANGED records
    <3>1. loc'[x] = Idle /\ \A y \in Proc \ {x} : loc'[y] = loc[y]
      BY <2>3, Begun
    <3>2. KeepsToSteps(x)'
      BY <1>1, <3>1 DEF Idle, KeepsToSteps
    <3> QED BY <2>3, <3>1, <3>2, SteadyStep, NoRecord
  <2> QED BY <1>6, <2>1, <2>2, <2>3 DEF DeleteNext
<1> QED BY <1>3, <1>4, <1>5, <1>6

LEMMA RestoreSteady ==
  ASSUME TypeOK, Steady, "rename" \notin Op, NEW x \in Proc,
         MoveAside(x) \/ MoveOnto(x) \/ PutBack(x) \/ DropAside(x) \/ Record(x) \/ Clear(x)
  PROVE  Steady'
<1> DEFINE me == loc[x]
<1>1. /\ x = "restore" /\ me.name \in Name /\ (me.pc # "clear" => me.then = "clear")
      /\ me.pc \in {"aside", "move", "back", "last", "record", "clear"}
  BY KindsOf DEF MoveAside, MoveOnto, PutBack, DropAside, Record, Clear, At, TypeOK, Local,
                 Steady, KeepsToSteps
<1>2. ASSUME NEW l \in {"move", "last", "back", "record", "clear", "list"}, Step(x, l),
             me.then = "clear", OwnName'
      PROVE  Steady'
  <2>1. /\ loc'[x].pc = l /\ loc'[x].then = me.then
        /\ \A y \in Proc \ {x} : loc'[y] = loc[y]
    BY <1>2, Stepped
  <2>2. KeepsToSteps(x)'
    BY <1>1, <1>2, <2>1 DEF KeepsToSteps, Looking
  <2> QED BY <1>2, <2>1, <2>2, SteadyStep
<1>3. CASE MoveAside(x) \/ MoveOnto(x) \/ PutBack(x) \/ DropAside(x)
  BY <1>1, <1>2, <1>3, NoRecord DEF MoveAside, MoveOnto, PutBack, DropAside, Tries, At
<1>4. CASE Record(x)
  <2>1. /\ \A n \in Name \ {me.name} : of'[n] = of[n]
        /\ of'[me.name] = "absent"
    BY <1>1, <1>4 DEF Record, TypeOK
  <2>2. OwnName'
    BY <1>4, <2>1, Bases, OwnNameStep DEF Steady, Record
  <2> QED BY <1>1, <1>2, <1>4, <2>2 DEF Record, At
<1>5. CASE Clear(x)
  <2>1. loc'[x] = Idle /\ \A y \in Proc \ {x} : loc'[y] = loc[y]
    BY <1>5, Begun DEF Clear
  <2>2. KeepsToSteps(x)'
    BY <1>1, <2>1 DEF Idle, KeepsToSteps
  <2> QED BY <1>5, <2>1, <2>2, SteadyStep, NoRecord DEF Clear
<1> QED BY <1>3, <1>4, <1>5

LEMMA AskSteady ==
  ASSUME TypeOK, Steady, "rename" \notin Op, Ask
  PROVE  Steady'
<1>1. ASSUME NEW x \in Op, NEW l, Begin(x, l), KeepsToSteps(x)', UNCHANGED records
      PROVE  Steady'
  <2>1. x \in Proc
    BY DEF Proc
  <2> QED BY <1>1, <2>1, Begun, SteadyStep, NoRecord
<1>2. ASSUME NEW b \in Base, TakeAsk(b) PROVE Steady'
  <2> DEFINE l == [Idle EXCEPT !.pc = "name", !.base = b]
  <2>1. "take" \in Op /\ "take" \in Proc /\ Begin("take", l) /\ UNCHANGED records
    BY <1>2 DEF TakeAsk, Proc
  <2>2. loc'["take"] = l
    BY <2>1, Begun
  <2>3. KeepsToSteps("take")'
    BY <2>2 DEF KeepsToSteps, Idle, Copying
  <2> QED BY <1>1, <2>1, <2>3
<1>3. ASSUME NEW b \in Base, DeleteAsk(b) PROVE Steady'
  <2> DEFINE l == [Idle EXCEPT !.pc = "next", !.base = b, !.name = Vm(b), !.todo = snaps[b]]
  <2>1. "delete" \in Op /\ "delete" \in Proc /\ Begin("delete", l) /\ UNCHANGED records
    BY <1>3 DEF DeleteAsk, Proc
  <2>2. loc'["delete"] = l
    BY <2>1, Begun
  <2>3. KeepsToSteps("delete")'
    BY <2>2 DEF KeepsToSteps, Idle
  <2> QED BY <1>1, <2>1, <2>3
<1>4. ASSUME NEW s \in Name, DropAsk(s) PROVE Steady'
  BY <1>4, DropSteady DEF DropAsk, Proc
<1>5. ASSUME NEW s \in Name, RestoreAsk(s) PROVE Steady'
  <2> DEFINE l == [Idle EXCEPT !.pc = "aside", !.base = of[s], !.name = s, !.then = "clear"]
  <2>1. "restore" \in Op /\ "restore" \in Proc /\ Begin("restore", l) /\ UNCHANGED records
    BY <1>5 DEF RestoreAsk, Proc
  <2>2. loc'["restore"] = l
    BY <2>1, Begun
  <2>3. KeepsToSteps("restore")'
    BY <2>2 DEF KeepsToSteps, Idle
  <2> QED BY <1>1, <2>1, <2>3
<1> QED BY <1>2, <1>3, <1>4, <1>5 DEF Ask, RenameAsk

LEMMA UseSteady ==
  ASSUME TypeOK, Steady, Use
  PROVE  Steady'
<1>1. UNCHANGED <<of, loc>> /\ Saved
  BY DEF Use, Run, Stop
<1>2. OwnName'
  BY <1>1, OwnNameStep DEF Steady
<1>3. \A x \in Proc : KeepsToSteps(x)'
  BY <1>1 DEF Steady, KeepsToSteps
<1> QED BY <1>2, <1>3 DEF Steady

LEMMA SteadyKept ==
  ASSUME TypeOK, Steady, "rename" \notin Op, [Next]_vars
  PROVE  Steady'
<1>1. ASSUME NEW x \in Proc, Proceed(x) PROVE Steady'
  <2>1. ~(Rename(x) \/ Carry(x) \/ Plan(x) \/ Follow(x) \/ Shift(x) \/ Point(x) \/ Save(x))
    BY KindsOf DEF Rename, Carry, Plan, Follow, Shift, Point, Save, At
  <2>2. CASE ListTart(x) \/ Reconcile(x)
    BY <2>2, LookSteps, SteadyStep
  <2> QED BY <1>1, <2>1, <2>2, TakeSteady, DeleteSteady, RestoreSteady DEF Proceed
<1>2. CASE Restart
  BY <1>2, RestartFlags DEF Flagged
<1>3. CASE UNCHANGED vars
  BY <1>3 DEF vars, Steady, OwnName, KeepsToSteps
<1> QED BY <1>1, <1>2, <1>3, AskSteady, UseSteady DEF Next

\* As long as no name is shared the flags are kept, by every step but a restart, after
\* which they hold anew.
LEMMA UnsharedFlags ==
  ASSUME TypeOK, FlagsInv, "rename" \notin Op, [Next]_vars, ~shared'
  PROVE  Flagged'
<1>1. CASE Restart
  BY <1>1, RestartFlags DEF FlagsInv
<1>2. CASE [Ask \/ Use \/ \E x \in Proc : Proceed(x)]_vars
  <2>1. ~shared
    <3>1. ASSUME NEW x \in Proc, Proceed(x), shared PROVE FALSE
      BY <3>1
         DEF Proceed, TakeName, Register, Clone, Undo, Finish, GiveUp, Clean, Erase, Forget,
             Keep, DeleteNext, DropClaim, DeleteOwn, MoveAside, MoveOnto, PutBack, DropAside,
             Record, Clear, Rename, Carry, Plan, Follow, Shift, Point, Save, ListTart,
             Reconcile, Tries, TypeOK
    <3>2. CASE UNCHANGED vars
      BY <3>2 DEF vars
    <3> QED BY <1>2, <3>1, <3>2
            DEF Ask, TakeAsk, DeleteAsk, DropAsk, DropClaim, RestoreAsk, RenameAsk, Use, Run,
                Stop, TypeOK
  <2>2. Flagged
    BY <2>1 DEF FlagsInv, Flagged
  <2>3. ASSUME NEW x \in Proc, Proceed(x) PROVE Flagged'
    <3>1. ~(Rename(x) \/ Carry(x) \/ Plan(x) \/ Follow(x) \/ Shift(x) \/ Point(x) \/ Save(x))
      BY <2>2, Kinds DEF Rename, Carry, Plan, Follow, Shift, Point, Save, At
    <3> QED BY <2>2, <2>3, <3>1, NameFlags, TakeFlags, DeleteFlags, RestoreFlags, LookFlags
            DEF Proceed
  <2> QED BY <1>2, <2>2, <2>3, IdleFlags, AskFlags, UseFlags
<1> QED BY <1>1, <1>2 DEF Next

\* The invariant behind CopyProtected: for every family, while nobody renames, the flags
\* are kept as long as no name is shared, and again after a restart.
THEOREM FlagsAreKept ==
  ASSUME "rename" \notin Op
  PROVE  Spec => []FlagsInv
<1>1. Init => FlagsInv
  BY InitFlags DEF Flagged, FlagsInv
<1>2. TypeOK /\ FlagsInv /\ [Next]_vars => FlagsInv'
  BY SteadyKept, UnsharedFlags DEF FlagsInv, Flagged
<1> QED BY <1>1, <1>2, TypeCorrect, PTL DEF Spec

\* While its clone is written, a snapshot keeps its record, flagged as one, and its
\* busy flag, whatever lists are applied, fails, or is deleted or restored beside it,
\* as long as no snapshot was given a name that a restore had yet to let go of.
THEOREM CopiesAreProtected ==
  ASSUME "rename" \notin Op
  PROVE  Spec => []CopyProtected
<1>1. FlagsInv => CopyProtected
  <2> SUFFICES ASSUME FlagsInv, ~shared, NEW x \in Op, loc[x].pc \in Copying
               PROVE  loc[x].name \in busy /\ of[loc[x].name] = loc[x].base
    BY DEF CopyProtected, Copying
  <2>1. x \in Proc /\ x = "take" /\ HasItsFlags(x)
    BY Kinds DEF Proc, FlagsInv, Flagged, Apart
  <2>2. loc[x].name \in Claims(x) /\ loc[x].pc # "register"
    BY <2>1 DEF Claims, Copying
  <2> QED BY <2>1, <2>2 DEF HasItsFlags, CopyFlagged
<1> QED BY <1>1, FlagsAreKept, PTL

-----------------------------------------------------------------------------
(* No VM is lost *)

\* A step that changes nothing of what tart has but what it deletes, and leaves the
\* copies and the restores where they are or ends them, loses nothing.
LEMMA QuietLoss ==
  ASSUME TypeOK, KeptInv,
         \A n \in Name : tart'[n] = tart[n] \/ tart'[n] = "none",
         \A x \in Op : \/ loc'[x] = loc[x] /\ (shared => shared')
                       \/ loc'[x].pc \notin {"register", "clean", "last"} \cup Copying
  PROVE  KeptInv'
<1> SUFFICES ASSUME NEW x \in Op PROVE CopyUnmade(x)' /\ (~shared' => Moved(x)')
  BY DEF KeptInv
<1>1. CASE loc'[x] = loc[x] /\ (shared => shared')
  <2>1. CopyUnmade(x) /\ (~shared => Moved(x)) /\ loc[x].name \in Name
    BY DEF KeptInv, TypeOK, Proc, Local
  <2>2. CopyUnmade(x)'
    BY <1>1, <2>1 DEF CopyUnmade
  <2>3. ~shared' => Moved(x)'
    BY <1>1, <2>1 DEF Moved, At, There
  <2> QED BY <2>2, <2>3
<1>2. CASE loc'[x].pc \notin {"register", "clean", "last"} \cup Copying
  BY <1>2 DEF CopyUnmade, Moved, At
<1> QED BY <1>1, <1>2

\* The name of a copy, and that of a snapshot that is restored, are not those of the VM.
LEMMA CopyName ==
  ASSUME NEW n, n[1] \in Base, n[2] # 0
  PROVE  n # Aside /\ \A b : n # Vm(b)
BY Bases DEF Aside, Vm

LEMMA TakeLoss ==
  ASSUME TypeOK, FlagsInv, KeptInv, "rename" \notin Op, NEW x \in Proc,
         Register(x) \/ Clone(x) \/ Undo(x) \/ Finish(x) \/ GiveUp(x) \/ Clean(x)
  PROVE  KeptInv'
<1> DEFINE me == loc[x]
<1>1. /\ me.pc \in {"register", "clean"} \cup Copying /\ x = "take" /\ x \in Op
      /\ me.name \in Name /\ CopyUnmade(x) /\ shared' = shared
  BY KindsOf, OpAssumption
     DEF Register, Clone, Undo, Finish, GiveUp, Clean, Tries, At, Copying, TypeOK, Local,
         KeptInv, Proc, FlagsInv
<1>2. /\ tart[me.name] # "whole" /\ me.name[1] \in Base /\ me.name[2] # 0
      /\ tart[me.name] \in {"none", "half"}
  BY <1>1 DEF CopyUnmade, TypeOK
<1>3. /\ \A y \in Proc \ {x} : loc'[y] = loc[y]
      /\ \/ loc'[x].pc \in {"idle", "list"}
         \/ loc'[x].name = me.name /\ loc'[x].pc # "last"
  <2>1. CASE Register(x)
    BY <2>1, Stepped, Begun DEF Register, Idle
  <2>2. CASE Clone(x) \/ Undo(x) \/ Clean(x)
    BY <2>2, Stepped DEF Clone, Undo, Clean, Tries
  <2>3. CASE Finish(x) \/ GiveUp(x)
    BY <2>3, Stepped DEF Finish, GiveUp
  <2> QED BY <2>1, <2>2, <2>3
<1>4. /\ \A n \in Name \ {me.name} : tart'[n] = tart[n]
      /\ tart'[me.name] = "whole" => loc'[x].pc = "list"
      /\ tart'[me.name] # "none" /\ ~There(me.name) => me.pc = "clone"
  <2>1. CASE Register(x) \/ GiveUp(x)
    BY <1>2, <2>1 DEF Register, GiveUp, There
  <2>2. CASE Clone(x)
    BY <1>1, <1>2, <2>2 DEF Clone, At, TypeOK
  <2>3. CASE Undo(x) \/ Clean(x)
    BY <1>1, <1>2, <2>3 DEF Undo, Clean, Tries, TartDelete, There, TypeOK
  <2>4. CASE Finish(x)
    <3>1. loc'[x].pc = "list"
      BY <2>4, Stepped DEF Finish
    <3> QED BY <1>1, <1>2, <2>4, <3>1 DEF Finish, There, TypeOK
  <2> QED BY <2>1, <2>2, <2>3, <2>4
<1>5. CopyUnmade(x)' /\ Moved(x)'
  BY <1>2, <1>3, <1>4 DEF CopyUnmade, Moved, At, Copying
<1>6. ASSUME NEW y \in Op \ {x} PROVE CopyUnmade(y)' /\ (~shared' => Moved(y)')
  <2>1. /\ loc'[y] = loc[y] /\ CopyUnmade(y) /\ (~shared => Moved(y))
        /\ y \in Proc /\ loc[y].name \in Name
    BY <1>3 DEF KeptInv, Proc, TypeOK, Local
  <2>2. CopyUnmade(y)'
    BY <1>1, <2>1, KindsOf DEF CopyUnmade, FlagsInv
  <2>3. ASSUME At(y, "last"), ~shared PROVE tart'[loc[y].name] = "none"
    <3>1. CASE loc[y].name # me.name
      BY <1>4, <2>1, <2>3, <3>1 DEF Moved, There
    <3>2. CASE loc[y].name = me.name
      <4>1. y = "restore" /\ loc[y].name \in Claims(y)
        BY <2>1, <2>3, KindsOf DEF At, Claims, FlagsInv
      <4>2. me.pc # "clone"
        BY <1>1, <2>3, <3>2, <4>1 DEF FlagsInv, Apart, ClaimsApart, Claims, Copying
      <4> QED BY <1>4, <2>1, <2>3, <3>2, <4>2 DEF Moved, There
    <3> QED BY <3>1, <3>2
  <2> QED BY <1>1, <2>1, <2>2, <2>3 DEF Moved, At, There
<1> QED BY <1>1, <1>5, <1>6 DEF KeptInv

\* The name a snapshot is given is that of no VM.
LEMMA NameLoss ==
  ASSUME TypeOK, FlagsInv, KeptInv, "rename" \notin Op, NEW x \in Proc, TakeName(x)
  PROVE  KeptInv'
<1>1. /\ x = "take" /\ x \in Op /\ loc[x] \in Local /\ loc[x].base \in Base
      /\ UNCHANGED tart /\ (shared => shared')
  BY OpAssumption DEF TakeName, At, TypeOK, Local, FlagsInv, Steady, KeepsToSteps, Proc,
                      Copying, Erasing, Looking
<1>2. CASE Begin(x, Idle)
  <2>1. loc'[x].pc = "idle" /\ \A y \in Op \ {x} : loc'[y] = loc[y]
    BY <1>2, Begun DEF Idle, Proc
  <2> QED BY <1>1, <2>1, QuietLoss DEF Copying
<1>3. ASSUME NEW k \in Num, Free(<<loc[x].base, k>>),
             Begin(x, [loc[x] EXCEPT !.pc = "register", !.name = <<loc[x].base, k>>])
      PROVE  KeptInv'
  <2>1. /\ loc'[x] = [loc[x] EXCEPT !.pc = "register", !.name = <<loc[x].base, k>>]
        /\ \A y \in Op \ {x} : loc'[y] = loc[y]
    BY <1>3, Begun DEF Proc
  <2>2. loc'[x].pc = "register" /\ loc'[x].name = <<loc[x].base, k>>
    BY <1>1, <2>1 DEF Local
  <2>3. tart[<<loc[x].base, k>>] # "whole" /\ k # 0
    BY <1>3 DEF Free, There, Num
  <2>4. CopyUnmade(x)' /\ Moved(x)'
    BY <1>1, <2>2, <2>3 DEF CopyUnmade, Moved, At
  <2>5. ASSUME NEW y \in Op \ {x} PROVE CopyUnmade(y)' /\ (~shared' => Moved(y)')
    BY <1>1, <2>1 DEF KeptInv, CopyUnmade, Moved, At, There
  <2> QED BY <2>4, <2>5 DEF KeptInv
<1> QED BY <1>2, <1>3 DEF TakeName, Lowest

LEMMA DropLoss ==
  ASSUME TypeOK, KeptInv, NEW x \in Proc,
         \/ Erase(x) \/ Forget(x) \/ Keep(x) \/ DeleteNext(x) \/ DeleteOwn(x)
         \/ \E s \in Name : DropAsk(s) /\ x = "delete"
  PROVE  KeptInv'
<1>1. \A n \in Name : tart'[n] = tart[n] \/ tart'[n] = "none"
  BY DEF Erase, Forget, Keep, DeleteNext, DropClaim, DropAsk, DeleteOwn, Tries, TartDelete, TypeOK
<1>2. loc'[x].pc \in {"idle", "erase", "forget", "keep", "list", "delete"}
      /\ \A y \in Proc \ {x} : loc'[y] = loc[y]
  <2>1. CASE Erase(x) \/ DeleteOwn(x)
    BY <2>1, Stepped DEF Erase, DeleteOwn, Tries
  <2>2. CASE Forget(x) 
    BY <2>2, Stepped DEF Forget
  <2>3. CASE Keep(x)
    <3>1. loc'[x] = [loc[x] EXCEPT !.pc = "list", !.then = "idle"] /\ loc[x] \in Local
      BY <2>3, Begun DEF Keep, TypeOK
    <3> QED BY <2>3, <3>1, Begun DEF Keep, Local
  <2>4. ASSUME NEW s, NEW then, NEW todo, DropClaim(x, s, then, todo)
        PROVE  loc'[x].pc = "erase" /\ \A y \in Proc \ {x} : loc'[y] = loc[y]
    <3>1. /\ loc'[x] = [loc[x] EXCEPT !.pc = "erase", !.to = of[s], !.name = s,
                                      !.then = then, !.todo = todo]
          /\ loc[x] \in Local /\ \A y \in Proc \ {x} : loc'[y] = loc[y]
      BY <2>4, Begun DEF DropClaim, TypeOK
    <3> QED BY <3>1 DEF Local
  <2>5. CASE DeleteNext(x)
    <3>1. CASE Step(x, "delete")
      BY <3>1, Stepped
    <3>2. CASE Begin(x, Idle)
      BY <3>2, Begun DEF Idle
    <3>3. CASE \E s \in loc[x].todo : DropClaim(x, s, "next", loc[x].todo \ {s})
      BY <2>4, <3>3
    <3> QED BY <2>5, <3>1, <3>2, <3>3 DEF DeleteNext
  <2>6. ASSUME NEW s \in Name, DropAsk(s), x = "delete"
        PROVE  loc'[x].pc = "erase" /\ \A y \in Proc \ {x} : loc'[y] = loc[y]
    BY <2>4, <2>6 DEF DropAsk
  <2> QED BY <2>1, <2>2, <2>3, <2>5, <2>6
<1>3. shared' = shared /\ \A y \in Op : y \in Proc
  BY DEF Erase, Forget, Keep, DeleteNext, DropClaim, DropAsk, DeleteOwn, Tries, Proc
<1> QED BY <1>1, <1>2, <1>3, QuietLoss DEF Copying

LEMMA RestoreLoss ==
  ASSUME TypeOK, FlagsInv, KeptInv, "rename" \notin Op, NEW x \in Proc,
         MoveAside(x) \/ MoveOnto(x) \/ PutBack(x) \/ DropAside(x) \/ Record(x) \/ Clear(x)
  PROVE  KeptInv'
<1> DEFINE me == loc[x]
<1>1. /\ me.pc \in {"aside", "move", "back", "last", "record", "clear"}
      /\ x = "restore" /\ x \in Op /\ me \in Local /\ shared' = shared
  BY KindsOf, OpAssumption
     DEF MoveAside, MoveOnto, PutBack, DropAside, Record, Clear, Tries, At, TypeOK, Proc, FlagsInv
<1>2. /\ \A y \in Proc \ {x} : loc'[y] = loc[y]
      /\ loc'[x].pc \in {"move", "clear", "last", "back", "record", "list", "idle"}
      /\ loc'[x].pc = "last" => MoveOnto(x) /\ TartRename(me.name, Vm(me.base))
                                /\ loc'[x].name = me.name
  <2>1. CASE MoveAside(x) \/ PutBack(x) \/ DropAside(x)
    BY <2>1, Stepped DEF MoveAside, PutBack, DropAside, Tries
  <2>2. CASE MoveOnto(x)
    BY <2>2, Stepped DEF MoveOnto, Tries
  <2>3. CASE Record(x)
    BY <2>3, Stepped DEF Record
  <2>4. CASE Clear(x)
    BY <2>4, Begun DEF Clear, Idle
  <2> QED BY <2>1, <2>2, <2>3, <2>4
<1>3. ASSUME NEW n \in Name, n[1] \in Base, n[2] # 0
      PROVE  tart'[n] = tart[n] \/ tart'[n] = "none"
  <2>1. n # Aside /\ n # Vm(me.base)
    BY <1>3, CopyName
  <2>2. CASE MoveAside(x) \/ MoveOnto(x) \/ PutBack(x)
    BY <1>1, <2>1, <2>2 DEF MoveAside, MoveOnto, PutBack, Tries, TartRename, TypeOK, Local
  <2>3. CASE DropAside(x) \/ Record(x) \/ Clear(x)
    BY <2>1, <2>3 DEF DropAside, Record, Clear, Tries, TartDelete, TypeOK
  <2> QED BY <2>2, <2>3
<1>4. ASSUME NEW y \in Op PROVE CopyUnmade(y)' /\ (~shared' => Moved(y)')
  <2>0. y \in Proc /\ loc[y] \in Local /\ loc[y].name \in Name
    BY DEF Proc, TypeOK, Local
  <2>1. CASE y = x
    <3>1. CopyUnmade(y)'
      BY <1>2, <2>1 DEF CopyUnmade, Copying
    <3>2. ASSUME loc'[x].pc = "last" PROVE ~There(loc[x].name)'
      <4>1. TartRename(me.name, Vm(me.base)) /\ loc'[x].name = me.name
        BY <1>2, <3>2
      <4>2. tart'[me.name] = "none"
        BY <2>0, <2>1, <4>1 DEF TartRename, TypeOK
      <4> QED BY <4>1, <4>2 DEF There
    <3> QED BY <2>1, <3>1, <3>2 DEF Moved, At
  <2>2. CASE y # x
    <3>1. loc'[y] = loc[y] /\ CopyUnmade(y) /\ ~At(y, "last")
      BY <1>1, <1>2, <2>0, <2>2, KindsOf DEF KeptInv, At, FlagsInv
    <3> QED BY <1>3, <2>0, <3>1 DEF CopyUnmade, Moved, At
  <2> QED BY <2>1, <2>2
<1> QED BY <1>4 DEF KeptInv

LEMMA LookLoss ==
  ASSUME TypeOK, FlagsInv, KeptInv, "rename" \notin Op, NEW x \in Proc,
         ListTart(x) \/ Reconcile(x)
  PROVE  KeptInv'
<1> DEFINE me == loc[x]
<1>1. me \in Local
  BY DEF TypeOK
<1>2. PICK l \in {After(x), [me EXCEPT !.pc = "apply", !.seen = Names]} :
        Begin(x, l) /\ UNCHANGED <<tart, shared>>
  BY DEF ListTart, Reconcile
<1>3. l.pc \in {"idle", "list", "apply", "next", "clear"}
  <2>1. [me EXCEPT !.pc = "apply", !.seen = Names].pc = "apply"
    BY <1>1 DEF Local
  <2>2. After(x).pc \in {"idle", "list", "next", "clear"}
    <3>1. me.then \in {"idle", "list", "next", "clear"}
      BY <1>1 DEF Local
    <3>2. CASE me.then \in {"idle", "list"}
      BY <3>2 DEF After, Idle, Watching
    <3>3. CASE me.then \in {"next", "clear"}
      <4>1. After(x) = [me EXCEPT !.pc = me.then, !.then = "idle", !.seen = {}]
        BY <3>3 DEF After
      <4> QED BY <1>1, <3>3, <4>1 DEF Local
    <3> QED BY <3>1, <3>2, <3>3
  <2> QED BY <2>1, <2>2
<1>4. \A y \in Op : loc'[y] = loc[y] \/ loc'[y].pc \notin {"register", "clean", "last"} \cup Copying
  BY <1>2, <1>3, Begun DEF Proc, Copying
<1> QED BY <1>2, <1>4, QuietLoss

LEMMA AskLoss ==
  ASSUME TypeOK, KeptInv, "rename" \notin Op, Ask
  PROVE  KeptInv'
<1>0. \A y \in Op : y \in Proc
  BY DEF Proc
<1>1. ASSUME NEW b \in Base, TakeAsk(b) PROVE KeptInv'
  <2>1. /\ "take" \in Op /\ UNCHANGED <<tart, shared>>
        /\ Begin("take", [Idle EXCEPT !.pc = "name", !.base = b])
    BY <1>1 DEF TakeAsk
  <2>2. loc'["take"].pc = "name" /\ \A y \in Op \ {"take"} : loc'[y] = loc[y]
    <3>1. "take" \in Proc
      BY <1>0, <2>1
    <3>2. /\ loc'["take"] = [Idle EXCEPT !.pc = "name", !.base = b]
          /\ \A y \in Proc \ {"take"} : loc'[y] = loc[y]
      BY <2>1, <3>1, Begun
    <3> QED BY <1>0, <3>2 DEF Idle
  <2> QED BY <2>1, <2>2, QuietLoss DEF Copying
<1>2. ASSUME NEW b \in Base, DeleteAsk(b) PROVE KeptInv'
  <2>1. /\ "delete" \in Op /\ UNCHANGED <<tart, shared>>
        /\ Begin("delete", [Idle EXCEPT !.pc = "next", !.base = b, !.name = Vm(b), !.todo = snaps[b]])
    BY <1>2 DEF DeleteAsk
  <2>2. loc'["delete"].pc = "next" /\ \A y \in Op \ {"delete"} : loc'[y] = loc[y]
    <3>1. "delete" \in Proc
      BY <1>0, <2>1
    <3>2. /\ loc'["delete"] = [Idle EXCEPT !.pc = "next", !.base = b, !.name = Vm(b), !.todo = snaps[b]]
          /\ \A y \in Proc \ {"delete"} : loc'[y] = loc[y]
      BY <2>1, <3>1, Begun
    <3> QED BY <1>0, <3>2 DEF Idle
  <2> QED BY <2>1, <2>2, QuietLoss DEF Copying
<1>3. ASSUME NEW s \in Name, DropAsk(s) PROVE KeptInv'
  <2>1. "delete" \in Proc
    BY <1>0, <1>3 DEF DropAsk
  <2> QED BY <1>3, <2>1, DropLoss
<1>4. ASSUME NEW s \in Name, RestoreAsk(s) PROVE KeptInv'
  <2>1. /\ "restore" \in Op /\ UNCHANGED <<tart, shared>>
        /\ Begin("restore", [Idle EXCEPT !.pc = "aside", !.base = of[s], !.name = s, !.then = "clear"])
    BY <1>4 DEF RestoreAsk
  <2>2. loc'["restore"].pc = "aside" /\ \A y \in Op \ {"restore"} : loc'[y] = loc[y]
    <3>1. "restore" \in Proc
      BY <1>0, <2>1
    <3>2. /\ loc'["restore"] = [Idle EXCEPT !.pc = "aside", !.base = of[s], !.name = s, !.then = "clear"]
          /\ \A y \in Proc \ {"restore"} : loc'[y] = loc[y]
      BY <2>1, <3>1, Begun
    <3> QED BY <1>0, <3>2 DEF Idle
  <2> QED BY <2>1, <2>2, QuietLoss DEF Copying
<1> QED BY <1>1, <1>2, <1>3, <1>4 DEF Ask, RenameAsk

\* No copy under way is a VM that was reported as made, and, unless its name was shared,
\* the snapshot a restore has put in its original's place is not there again before the
\* original goes.
THEOREM CopiesAreUnmade ==
  ASSUME "rename" \notin Op
  PROVE  Spec => []KeptInv
<1>1. Init => KeptInv
  BY DEF Init, KeptInv, CopyUnmade, Moved, At, Watching, Idle, Copying, Proc
<1>2. TypeOK /\ FlagsInv /\ KeptInv /\ [Next]_vars => KeptInv'
  <2> SUFFICES ASSUME TypeOK, FlagsInv, KeptInv, [Next]_vars PROVE KeptInv'
    OBVIOUS
  <2>1. ASSUME NEW x \in Proc, Proceed(x) PROVE KeptInv'
    <3>1. ~(Rename(x) \/ Carry(x) \/ Plan(x) \/ Follow(x) \/ Shift(x) \/ Point(x) \/ Save(x))
      BY KindsOf DEF Rename, Carry, Plan, Follow, Shift, Point, Save, At, FlagsInv
    <3> QED BY <2>1, <3>1, NameLoss, TakeLoss, DropLoss, RestoreLoss, LookLoss DEF Proceed
  <2>2. CASE Use \/ UNCHANGED vars
    BY <2>2, QuietLoss DEF Use, Run, Stop, vars
  <2>3. CASE Restart
    <3>1. UNCHANGED tart /\ \A x \in Proc : loc'[x] = IF x = "monitor" THEN Watching ELSE Idle
      BY <2>3 DEF Restart
    <3>2. Watching.pc = "list" /\ Idle.pc = "idle"
      BY DEF Watching, Idle
    <3>3. \A x \in Op : loc'[x].pc \in {"idle", "list"}
      BY <3>1, <3>2 DEF Proc
    <3> QED BY <3>1, <3>3, QuietLoss DEF Copying
  <2> QED BY <2>1, <2>2, <2>3, AskLoss DEF Next
<1> QED BY <1>1, <1>2, TypeCorrect, FlagsAreKept, PTL DEF Spec

\* No VM is lost, whatever fails and whatever lists are applied late: one is destroyed
\* only by a request to delete it, or by a restore when the snapshot has taken its place,
\* so that its name is free again, or another snapshot's (deleteSnapshot, deleteVM and
\* replaceWithSnapshot in snapshots.go).
THEOREM NoneIsLost ==
  ASSUME "rename" \notin Op
  PROVE  Spec => NoneLost
<1> DEFINE Kept == \A n \in Name : Destroyed(n) => AskedFor(n) \/ Replaced(n)
<1>1. TypeOK /\ FlagsInv /\ KeptInv /\ [Next]_vars => [Kept]_vars
  <2> SUFFICES ASSUME TypeOK, FlagsInv, KeptInv, Next, NEW n \in Name, Destroyed(n)
               PROVE  AskedFor(n) \/ Replaced(n)
    OBVIOUS
  <2>0. tart[n] = "whole" /\ tart'[n] = "none" /\ \A m \in Name : There(m)' => There(m)
    BY DEF Destroyed, There
  <2>1. ASSUME NEW x \in Proc, Proceed(x) PROVE AskedFor(n) \/ Replaced(n)
    <3> DEFINE me == loc[x]
    <3>0. /\ me.name \in Name /\ Vm(me.base) \in Name /\ Aside \in Name
          /\ me.pc \notin Looking => x \in Op
      BY NamesOfVMs DEF TypeOK, Local, Proc, FlagsInv, Steady, KeepsToSteps
    <3>1. ASSUME NEW s \in Name, NEW m \in Name, TartRename(s, m) PROVE FALSE
      <4>1. ~There(m) /\ tart'[m] \in {tart[s], "none"} /\ There(s)
        BY <3>1 DEF TartRename, TypeOK
      <4>2. s # m /\ tart'[m] = tart[s]
        BY <3>1, <4>1 DEF TartRename, TypeOK
      <4> QED BY <2>0, <4>1, <4>2 DEF There
    <3>2. CASE Undo(x) \/ Clean(x)
      <4>1. x \in Op /\ tart[me.name] # "whole"
        BY <3>0, <3>2 DEF Undo, Clean, At, Looking, KeptInv, CopyUnmade, Copying
      <4> QED BY <2>0, <3>2, <4>1 DEF Undo, Clean, Tries, TartDelete, TypeOK
    <3>3. CASE Erase(x) \/ DeleteOwn(x)
      <4>1. x \in Op
        BY <3>0, <3>3 DEF Erase, DeleteOwn, At, Looking
      <4>2. n = (IF Erase(x) THEN me.name ELSE Vm(me.base))
        BY <2>0, <3>3 DEF Erase, DeleteOwn, Tries, TartDelete, TypeOK
      <4> QED BY <3>3, <4>1, <4>2 DEF AskedFor, Erase, DeleteOwn
    <3>4. CASE DropAside(x)
      <4>1. x \in Op /\ At(x, "last") /\ n = Aside
        BY <2>0, <3>0, <3>4 DEF DropAside, At, Looking, Tries, TartDelete, TypeOK
      <4> QED BY <4>1 DEF Replaced, KeptInv, Moved
    <3>5. CASE MoveAside(x) \/ MoveOnto(x) \/ PutBack(x)
      <4>1. (\E s, m \in Name : TartRename(s, m)) \/ UNCHANGED tart
        BY <3>0, <3>5 DEF MoveAside, MoveOnto, PutBack, Tries
      <4> QED BY <2>0, <3>1, <4>1
    <3>6. CASE Clone(x) \/ Finish(x)
      BY <2>0, <3>6 DEF Clone, Finish, TypeOK
    <3>7. ~(Rename(x) \/ Carry(x) \/ Plan(x) \/ Follow(x) \/ Shift(x) \/ Point(x) \/ Save(x))
      BY KindsOf DEF Rename, Carry, Plan, Follow, Shift, Point, Save, At, FlagsInv
    <3>8. CASE \/ TakeName(x) \/ Register(x) \/ GiveUp(x) \/ Forget(x) \/ Keep(x) \/ DeleteNext(x) \/ Record(x)
               \/ Clear(x) \/ ListTart(x) \/ Reconcile(x)
      BY <2>0, <3>8 DEF TakeName, Register, GiveUp, Forget, Keep, DeleteNext, DropClaim, Record, Clear,
         ListTart, Reconcile
    <3> QED BY <2>1, <3>2, <3>3, <3>4, <3>5, <3>6, <3>7, <3>8 DEF Proceed
  <2>2. ~(Ask \/ Use \/ Restart)
    BY <2>0 DEF Ask, TakeAsk, DeleteAsk, DropAsk, DropClaim, RestoreAsk, RenameAsk, Use, Run, Stop,
       Restart
  <2> QED BY <2>1, <2>2 DEF Next
<1> QED BY <1>1, TypeCorrect, FlagsAreKept, CopiesAreUnmade, PTL DEF Spec, NoneLost
=============================================================================
