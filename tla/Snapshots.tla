----------------------------- MODULE Snapshots -----------------------------
(***************************************************************************)
(* A VM and its snapshots (snapshots.go, with rename and delete of         *)
(* handlers.go): taking, deleting and restoring snapshots, deleting and    *)
(* renaming the VM, beside reconcile, users who start VMs, tart calls that *)
(* fail, and restarts.                                                     *)
(*                                                                         *)
(* Every VM here is a copy of one VM, and has its MAC address.  A start or *)
(* a stop is one step, and records show what runs as it is; module         *)
(* Lifecycle has the steps.  Each restore has a new name for the VM it     *)
(* replaces; here it is Aside, so none succeeds while one is left over.    *)
(***************************************************************************)
EXTENDS Naturals, FiniteSets

CONSTANTS
  Base,         \* the names the VM may have
  MaxNum,       \* bounds the numbers of its snapshots
  Op,           \* the requests in flight, at most one of a kind
  Onward,       \* bounds what is explored: whether users do more after a name was
                \* shared
  MaxRestarts   \* bounds the restarts of the server

Num == 1..MaxNum
Vm(b) == <<b, 0>>               \* the VM called b
Aside == <<"aside", 0>>         \* the name restore moves the original to
Name == (Base \X (0..MaxNum)) \cup {Aside}      \* <<b, k>>: b-Snapshot-k
Proc == Op \cup {"monitor"}

ASSUME BaseAssumption == IsFiniteSet(Base) /\ Base # {} /\ "aside" \notin Base
ASSUME BaseNames == Base \cap {"absent", "regular"} = {}
ASSUME NumAssumption == MaxNum \in Nat
ASSUME OpAssumption == Op \subseteq {"take", "restore", "delete", "rename"}
ASSUME BoundsAssumption == Onward \in BOOLEAN /\ MaxRestarts \in Nat

VARIABLES
  tart,         \* what tart has: "none", "half": a copy not reported as made,
                \* "whole"
  of,           \* the records: "absent", "regular", or the base it is a snapshot of
  snaps,        \* Snapshots of the record of each VM
  file,         \* the records as state.json has them
  busy,         \* m.busy
  up,           \* the VMs that run
  loc,          \* what each goroutine does next, and its locals
  shared,       \* a snapshot was given a name that a request still works on
                \* (seen by nobody)
  restarts

vars == <<tart, of, snaps, file, busy, up, loc, shared, restarts>>
records == <<of, snaps, file>>
Saved == file' = [of |-> of', snaps |-> snaps']

Label == {"idle", "list", "apply"} \cup
         {"name", "register", "clone", "undo", "finish", "giveup", "clean"} \cup
         {"erase", "forget", "keep", "next", "delete"} \cup
         {"aside", "move", "back", "last", "record", "clear"} \cup
         {"rename", "carry", "plan", "follow", "shift", "point", "save"}
AnyBase == CHOOSE b \in Base : TRUE
Idle == [pc |-> "idle", base |-> AnyBase, to |-> AnyBase, name |-> Aside, goal |-> Aside,
         todo |-> {}, then |-> "idle", seen |-> {}]

Local == [pc : Label, base : Base, to : Base, name : Name, goal : Name,
          todo : SUBSET Name, then : {"idle", "list", "next", "clear"}, seen : SUBSET Name]
TypeOK ==
  /\ tart \in [Name -> {"none", "half", "whole"}]
  /\ of \in [Name -> Base \cup {"absent", "regular"}]
  /\ snaps \in [Base -> SUBSET Name]
  /\ file \in [of : [Name -> Base \cup {"absent", "regular"}], snaps : [Base -> SUBSET Name]]
  /\ busy \in SUBSET Name /\ up \in SUBSET Name
  /\ loc \in [Proc -> Local]
  /\ shared \in BOOLEAN
  /\ restarts \in 0..MaxRestarts

Watching == [Idle EXCEPT !.pc = "list", !.then = "list"]
Init ==
  \E taken \in SUBSET {<<AnyBase, k>> : k \in Num} :
    /\ tart = [n \in Name |-> IF n \in taken \cup {Vm(AnyBase)} THEN "whole" ELSE "none"]
    /\ of = [n \in Name |-> IF n = Vm(AnyBase) THEN "regular"
                            ELSE IF n \in taken THEN AnyBase ELSE "absent"]
    /\ snaps = [b \in Base |-> IF b = AnyBase THEN taken ELSE {}]
    /\ file = [of |-> of, snaps |-> snaps]
    /\ busy = {} /\ up = {} /\ shared = FALSE /\ restarts = 0
    /\ loc = [x \in Proc |-> IF x = "monitor" THEN Watching ELSE Idle]

-----------------------------------------------------------------------------
There(n) == tart[n] # "none"
Names == {n \in Name : There(n)}
Known(n) == of[n] # "absent"
At(x, l) == loc[x].pc = l
Begin(x, l) == loc' = [loc EXCEPT ![x] = l]
Step(x, l) == loc' = [loc EXCEPT ![x].pc = l]

\* familyInUseLocked, and familyConflictLocked
InUse(b) == \E n \in busy \cup up : Known(n) /\ (n = Vm(b) \/ of[n] = b)
Root(n) == IF of[n] \in Base THEN Vm(of[n]) ELSE n
Conflict(n) == \E m \in up \ {n} : Known(m) /\ Root(m) = Root(n)

Copying == {"clone", "undo", "finish", "giveup"}
Erasing == {"erase", "forget", "keep"}
Claims(x) ==                    \* what nobody else may work on
  LET me == loc[x] IN
  IF x = "take" /\ me.pc \in {"register"} \cup Copying THEN {me.name}
  ELSE IF x = "delete" /\ me.pc \in Erasing THEN {me.name}
  ELSE IF x = "restore" /\ me.pc # "idle" THEN {Vm(me.base), me.name}
  ELSE {}

\* allocVMName: no record, no reservation, no folder
Reserved == {loc[x].name : x \in {y \in Op \cap {"take"} :
                                    loc[y].pc \notin {"idle", "name"}}} \cup
            {Vm(loc[x].to) : x \in {y \in Op \cap {"rename"} : ~At(y, "idle")}}
Free(n) == ~Known(n) /\ n \notin Reserved /\ ~There(n)

\* tart delete and tart rename, which refuse a VM that runs and a name in use
TartDelete(n) == There(n) /\ n \notin up /\ tart' = [tart EXCEPT ![n] = "none"]
TartRename(n, m) ==
  /\ There(n) /\ ~There(m) /\ n \notin up
  /\ tart' = [tart EXCEPT ![m] = tart[n], ![n] = "none"]

\* A call works, or fails without its effect or with it.
Tries(x, Call, good, bad) ==
  /\ \/ Call /\ Step(x, good)
     \/ (Call \/ UNCHANGED tart) /\ Step(x, bad)
  /\ UNCHANGED <<records, busy, up, shared, restarts>>

-----------------------------------------------------------------------------
(* startSnapshot and finishSnapshot *)

TakeAsk(b) ==
  /\ "take" \in Op /\ At("take", "idle")
  /\ of[Vm(b)] = "regular" /\ (Vm(b) \in busy => Vm(b) \in up)
  /\ Begin("take", [Idle EXCEPT !.pc = "name", !.base = b])
  /\ UNCHANGED <<tart, records, busy, up, shared, restarts>>

\* allocVMName: the lowest number whose name is free.  Whether the VM is busy by
\* now is not asked again, and a name may be free while its flag is still set.  It
\* ends here when the MAC address cannot be read, or no name is free.
Lowest(b, k) == Free(<<b, k>>) /\ \A j \in 1..(k-1) : ~Free(<<b, j>>)
TakeName(x) ==
  LET b == loc[x].base IN
  /\ At(x, "name")
  /\ \/ \E k \in Num :
          /\ Lowest(b, k)
          /\ Begin(x, [loc[x] EXCEPT !.pc = "register", !.name = <<b, k>>])
          /\ shared' = (shared \/ \E y \in Op : <<b, k>> \in Claims(y))
     \/ Begin(x, Idle) /\ UNCHANGED shared
  /\ UNCHANGED <<tart, records, busy, up, restarts>>

RegisterPlain(x) ==                                   \* mutant: no busy flag
  LET me == loc[x] IN
  /\ At(x, "register")
  /\ IF Known(Vm(me.base))
       THEN of' = [of EXCEPT ![me.name] = me.base] /\ Step(x, "clone")
       ELSE UNCHANGED of /\ Begin(x, Idle)
  /\ UNCHANGED <<tart, snaps, file, busy, up, shared, restarts>>
Register(x) ==
  LET me == loc[x] IN
  /\ At(x, "register")
  /\ IF Known(Vm(me.base))
       THEN /\ of' = [of EXCEPT ![me.name] = me.base]
            /\ busy' = busy \cup {me.name}
            /\ Step(x, "clone")
       ELSE UNCHANGED <<of, busy>> /\ Begin(x, Idle)
  /\ UNCHANGED <<tart, snaps, file, up, shared, restarts>>

Clone(x) ==                     \* tart clone, and tart set --mac
  LET me == loc[x] IN
  /\ At(x, "clone")
  /\ \/ /\ There(Vm(me.base)) /\ ~There(me.name)
        /\ tart' = [tart EXCEPT ![me.name] = "half"]
        /\ Step(x, "finish") \/ Step(x, "undo")
     \/ UNCHANGED tart /\ Step(x, "undo")
  /\ UNCHANGED <<records, busy, up, shared, restarts>>

Undo(x) == At(x, "undo") /\ Tries(x, TartDelete(loc[x].name), "giveup", "giveup")

Finish(x) ==
  LET me == loc[x] IN
  /\ At(x, "finish") /\ Known(Vm(me.base))
  /\ snaps' = [snaps EXCEPT ![me.base] = @ \cup {me.name}]
  /\ tart' = [tart EXCEPT ![me.name] = IF @ = "half" THEN "whole" ELSE @]
  /\ busy' = busy \ {me.name}
  /\ Step(x, "list")
  /\ UNCHANGED <<of, up, shared, restarts>> /\ Saved

GiveUp(x) ==                    \* it failed, or the original is gone
  LET me == loc[x] IN
  /\ At(x, "giveup") \/ (At(x, "finish") /\ ~Known(Vm(me.base)))
  /\ of' = [of EXCEPT ![me.name] = "absent"]
  /\ busy' = busy \ {me.name}
  /\ Step(x, "clean")
  /\ UNCHANGED <<tart, snaps, up, shared, restarts>> /\ Saved

Clean(x) == At(x, "clean") /\ Tries(x, TartDelete(loc[x].name), "list", "list")

-----------------------------------------------------------------------------
(* deleteSnapshot, of a request or of deleteVM *)

DropClaimAny(x, s, then, todo) ==                     \* mutant: of a VM that is no snapshot
  /\ Known(s) /\ s \notin busy \cup up
  /\ busy' = busy \cup {s}
  /\ Begin(x, [loc[x] EXCEPT !.pc = "erase", !.to = of[s], !.name = s,
                           !.then = then, !.todo = todo])
  /\ UNCHANGED <<tart, records, up, shared, restarts>>
DropClaim(x, s, then, todo) ==
  /\ of[s] \in Base /\ s \notin busy \cup up
  /\ busy' = busy \cup {s}
  /\ Begin(x, [loc[x] EXCEPT !.pc = "erase", !.to = of[s], !.name = s,
                           !.then = then, !.todo = todo])
  /\ UNCHANGED <<tart, records, up, shared, restarts>>

DropAsk(s) ==                   \* of the snapshot alone
  "delete" \in Op /\ At("delete", "idle") /\ DropClaim("delete", s, "idle", {})

Erase(x) == At(x, "erase") /\ Tries(x, TartDelete(loc[x].name), "forget", "keep")

Forget(x) ==
  LET me == loc[x] IN
  /\ At(x, "forget")
  /\ of' = [of EXCEPT ![me.name] = "absent"]
  /\ snaps' = [snaps EXCEPT ![me.to] = @ \ {me.name}]
  /\ busy' = busy \ {me.name}
  /\ Step(x, "list")
  /\ UNCHANGED <<tart, up, shared, restarts>> /\ Saved

Keep(x) ==
  /\ At(x, "keep")
  /\ busy' = busy \ {loc[x].name}
  /\ Begin(x, [loc[x] EXCEPT !.pc = "list", !.then = "idle"])
  /\ UNCHANGED <<tart, records, up, shared, restarts>>

-----------------------------------------------------------------------------
(* deleteVM of the VM; with "promote" it is a restore *)

DeleteAsk(b) ==
  /\ "delete" \in Op /\ At("delete", "idle")
  /\ of[Vm(b)] = "regular" /\ Vm(b) \notin busy \cup up
  /\ snaps[b] = {} \/ ~InUse(b)
  /\ Begin("delete", [Idle EXCEPT !.pc = "next", !.base = b, !.name = Vm(b), !.todo = snaps[b]])
  /\ UNCHANGED <<tart, records, busy, up, shared, restarts>>

DeleteNext(x) ==
  /\ At(x, "next")
  /\ \/ /\ loc[x].todo = {} /\ Step(x, "delete")
        /\ UNCHANGED <<tart, records, busy, up, shared, restarts>>
     \/ \E s \in loc[x].todo : DropClaim(x, s, "next", loc[x].todo \ {s})
     \/ /\ \E s \in loc[x].todo : of[s] \notin Base \/ s \in busy \cup up
        /\ Begin(x, Idle)
        /\ UNCHANGED <<tart, records, busy, up, shared, restarts>>

DeleteOwn(x) ==
  At(x, "delete") /\ Tries(x, TartDelete(Vm(loc[x].base)), "list", "list")

-----------------------------------------------------------------------------
(* replaceWithSnapshot *)

RestoreAsk(s) ==
  LET b == of[s] IN
  /\ "restore" \in Op /\ At("restore", "idle")
  /\ b \in Base /\ Known(Vm(b)) /\ ~InUse(b)
  /\ busy' = busy \cup {Vm(b), s}
  /\ Begin("restore", [Idle EXCEPT !.pc = "aside", !.base = b, !.name = s, !.then = "clear"])
  /\ UNCHANGED <<tart, records, up, shared, restarts>>

MoveAside(x) ==
  At(x, "aside") /\ Tries(x, TartRename(Vm(loc[x].base), Aside), "move", "clear")
MoveOntoLast(x) ==                                    \* mutant: failure not looked at
  At(x, "move") /\ Tries(x, TartRename(loc[x].name, Vm(loc[x].base)), "last", "last")
MoveOnto(x) ==
  At(x, "move") /\ Tries(x, TartRename(loc[x].name, Vm(loc[x].base)), "last", "back")
PutBack(x) ==
  At(x, "back") /\ Tries(x, TartRename(Aside, Vm(loc[x].base)), "clear", "clear")
DropAside(x) == At(x, "last") /\ Tries(x, TartDelete(Aside), "record", "record")

Record(x) ==
  LET me == loc[x] IN
  /\ At(x, "record")
  /\ snaps' = [snaps EXCEPT ![me.base] = @ \ {me.name}]
  /\ of' = [of EXCEPT ![me.name] = "absent"]
  /\ Step(x, "list")
  /\ UNCHANGED <<tart, busy, up, shared, restarts>> /\ Saved

Clear(x) ==
  /\ At(x, "clear")
  /\ busy' = busy \ {Vm(loc[x].base), loc[x].name}
  /\ Begin(x, Idle)
  /\ UNCHANGED <<tart, records, up, shared, restarts>>

-----------------------------------------------------------------------------
(* Renaming the VM, and followRename *)

RenameAsk(b, c) ==
  /\ "rename" \in Op /\ At("rename", "idle")
  /\ of[Vm(b)] = "regular" /\ Vm(b) \notin busy \cup up /\ ~InUse(b) /\ Free(Vm(c))
  /\ Begin("rename", [Idle EXCEPT !.pc = "rename", !.base = b, !.to = c])
  /\ UNCHANGED <<tart, records, busy, up, shared, restarts>>

Rename(x) ==
  At(x, "rename") /\ Tries(x, TartRename(Vm(loc[x].base), Vm(loc[x].to)), "carry", "list")

Carry(x) ==
  LET b == loc[x].base
      c == loc[x].to IN
  /\ At(x, "carry")
  /\ IF Known(Vm(b))
       THEN /\ of' = [of EXCEPT ![Vm(c)] = of[Vm(b)], ![Vm(b)] = "absent"]
            /\ snaps' = [snaps EXCEPT ![c] = snaps[b], ![b] = {}]
       ELSE UNCHANGED <<of, snaps>>
  /\ Step(x, "plan")
  /\ UNCHANGED <<tart, busy, up, shared, restarts>> /\ Saved

Plan(x) ==
  LET me == loc[x] IN
  /\ At(x, "plan")
  /\ Begin(x, [me EXCEPT !.pc = IF snaps[me.to] = {} THEN "list" ELSE "follow",
                         !.todo = snaps[me.to]])
  /\ UNCHANGED <<tart, records, busy, up, shared, restarts>>

Follow(x) ==                    \* the next snapshot, and its new name
  LET me == loc[x]
      Renamed(s) == IF s[1] = me.base THEN <<me.to, s[2]>> ELSE s IN
  /\ At(x, "follow")
  /\ \E s \in me.todo :
       LET moves == Renamed(s) # s /\ ~Known(Renamed(s)) IN
       /\ busy' = busy \cup {s, Renamed(s)}
       /\ Begin(x, [me EXCEPT !.pc = IF moves THEN "shift" ELSE "point", !.name = s,
                              !.goal = IF moves THEN Renamed(s) ELSE s, !.todo = @ \ {s}])
  /\ UNCHANGED <<tart, records, up, shared, restarts>>

Shift(x) ==
  LET me == loc[x]
      Call == TartRename(me.name, me.goal) IN
  /\ At(x, "shift")
  /\ \/ Call /\ Step(x, "point")
     \/ (Call \/ UNCHANGED tart) /\ Begin(x, [me EXCEPT !.pc = "point", !.goal = me.name])
  /\ UNCHANGED <<records, busy, up, shared, restarts>>

Point(x) ==                     \* only the name it settled for is released
  LET me == loc[x] IN
  /\ At(x, "point")
  /\ of' = IF Known(me.name)
             THEN [of EXCEPT ![me.name] = "absent", ![me.goal] = me.to] ELSE of
  /\ snaps' = [snaps EXCEPT ![me.to] =
                 IF me.name \in @ THEN (@ \ {me.name}) \cup {me.goal} ELSE @]
  /\ busy' = busy \ {me.name, me.goal}
  /\ Step(x, IF me.todo = {} THEN "save" ELSE "follow")
  /\ UNCHANGED <<tart, file, up, shared, restarts>>

Save(x) ==
  /\ At(x, "save") /\ Step(x, "list")
  /\ UNCHANGED <<tart, of, snaps, busy, up, shared, restarts>> /\ Saved

-----------------------------------------------------------------------------
(* reconcile, of the monitor and at the end of every request *)

ApplyUnlisted(l, o, entries, active) ==                        \* mutant: nothing added back
  LET Of(n) == IF n \in l THEN IF o[n] = "absent" THEN "regular" ELSE o[n]
               ELSE IF n \in active THEN o[n] ELSE "absent"
      Orphan(n) == n \notin active /\ Of(n) \in Base /\
                   Of(Vm(Of(n))) = "absent" /\ Vm(Of(n)) \notin active
      Had(b) == IF Vm(b) \in active THEN entries[b] ELSE entries[b] \cap (l \cup active) IN
  /\ of' = [n \in Name |-> IF Orphan(n) THEN "regular" ELSE Of(n)]
  /\ snaps' = [b \in Base |-> IF Of(Vm(b)) = "absent" THEN {} ELSE Had(b)]
Apply(l, o, entries, active) ==          \* the list l to the records o
  LET Of(n) == IF n \in l THEN IF o[n] = "absent" THEN "regular" ELSE o[n]
               ELSE IF n \in active THEN o[n] ELSE "absent"
      Orphan(n) == n \notin active /\ Of(n) \in Base /\
                   Of(Vm(Of(n))) = "absent" /\ Vm(Of(n)) \notin active
      Had(b) == IF Vm(b) \in active THEN entries[b] ELSE entries[b] \cap (l \cup active)
      Found(b) == {n \in Name \ active : Of(n) = b} IN
  /\ of' = [n \in Name |-> IF Orphan(n) THEN "regular" ELSE Of(n)]
  /\ snaps' = [b \in Base |-> IF Of(Vm(b)) = "absent" THEN {} ELSE Had(b) \cup Found(b)]

After(x) ==                     \* what follows its reconcile
  IF loc[x].then = "idle" THEN Idle
  ELSE IF loc[x].then = "list" THEN Watching
  ELSE [loc[x] EXCEPT !.pc = loc[x].then, !.then = "idle", !.seen = {}]

ListTart(x) ==                  \* or tart list fails
  /\ At(x, "list")
  /\ \/ Begin(x, [loc[x] EXCEPT !.pc = "apply", !.seen = Names])
     \/ Begin(x, After(x))
  /\ UNCHANGED <<tart, records, busy, up, shared, restarts>>

Reconcile(x) ==
  /\ At(x, "apply")
  /\ Apply(loc[x].seen, of, snaps, busy)
  /\ Begin(x, After(x))
  /\ UNCHANGED <<tart, file, busy, up, shared, restarts>>

-----------------------------------------------------------------------------
(* Users who start and stop VMs; a restart *)

Run(n) ==
  /\ Known(n) /\ There(n) /\ n \notin busy \cup up /\ ~Conflict(n)
  /\ up' = up \cup {n}
  /\ UNCHANGED <<tart, of, snaps, busy, loc, shared, restarts>> /\ Saved

Stop(n) ==
  /\ n \in up /\ n \notin busy
  /\ up' = up \ {n}
  /\ UNCHANGED <<tart, of, snaps, busy, loc, shared, restarts>> /\ Saved

Restart ==                      \* it loads the file, and reconciles before it serves
  /\ restarts < MaxRestarts /\ restarts' = restarts + 1
  /\ loc' = [x \in Proc |-> IF x = "monitor" THEN Watching ELSE Idle]
  /\ busy' = {} /\ up' \in SUBSET up /\ shared' = FALSE /\ UNCHANGED <<tart, file>>
  /\ Apply(Names, file.of, file.snaps, {})

-----------------------------------------------------------------------------
Proceed(x) ==
  \/ TakeName(x) \/ Register(x) \/ Clone(x) \/ Undo(x) \/ Finish(x) \/ GiveUp(x) \/ Clean(x)
  \/ Erase(x) \/ Forget(x) \/ Keep(x) \/ DeleteNext(x) \/ DeleteOwn(x)
  \/ MoveAside(x) \/ MoveOnto(x) \/ PutBack(x) \/ DropAside(x) \/ Record(x) \/ Clear(x)
  \/ Rename(x) \/ Carry(x) \/ Plan(x) \/ Follow(x) \/ Shift(x) \/ Point(x) \/ Save(x)
  \/ ListTart(x) \/ Reconcile(x)
Ask ==
  \/ \E b \in Base : TakeAsk(b) \/ DeleteAsk(b)
  \/ \E s \in Name : DropAsk(s) \/ RestoreAsk(s)
  \/ \E b, c \in Base : RenameAsk(b, c)
Use == \E n \in Name : Run(n) \/ Stop(n)

Next ==
  \/ \E x \in Proc : Proceed(x)
  \/ (shared => Onward) /\ (Ask \/ Use)
  \/ Restart
Spec == Init /\ [][Next]_vars

\* The server's goroutines go on, and tart lists again and again.
FairSpec ==
  /\ Spec
  /\ \A x \in Proc : WF_vars(Proceed(x))
  /\ SF_vars(Reconcile("monitor"))

-----------------------------------------------------------------------------
(* Properties *)

\* snapshots.go:181 "Register the snapshot's VM now, busy and flagged, so reconcile
\* and the scheduler never treat the half-made copy as a regular VM."  The code keeps
\* it only as long as no name is shared: a restore that began after the take asked
\* whether its VM is busy frees the snapshot's name when it records that the snapshot
\* is the VM, the take is given that name and flags it, and the restore clears the
\* flag, its own of before, when it ends (its deferred setBusy) while tart clones.
CopyProtected ==
  ~shared =>
    \A x \in Op : loc[x].pc \in Copying =>
      loc[x].name \in busy /\ of[loc[x].name] = loc[x].base

\* No VM is lost, whatever fails: one is destroyed only by a request to delete it,
\* or by a restore when the snapshot has taken its place, which its name shows as long
\* as no name was shared.
AskedFor(n) ==
  \E x \in Op : \/ At(x, "erase") /\ loc[x].name = n
                \/ At(x, "delete") /\ Vm(loc[x].base) = n
Replaced(n) ==
  n = Aside /\ \E x \in Op : At(x, "last") /\ (There(loc[x].name) => shared)
Destroyed(n) == tart[n] = "whole" /\ ~There(n)' /\ (\A m \in Name : There(m)' => There(m))
NoneLost == [][\A n \in Name : Destroyed(n) => AskedFor(n) \/ Replaced(n)]_vars

\* A VM flagged as a snapshot gets back on the list of its original, or loses its
\* flag (reconcileSnapshotsLocked).
Listed == \A n \in Name : []<>(\A b \in Base : of[n] = b => n \in snaps[b] \/ n \in busy)

-----------------------------------------------------------------------------
(* Why a copy under way keeps its flags, without renames *)

Looking == {"list", "apply"}
KeepsToSteps(x) ==
  LET me == loc[x] IN
  /\ x = "take" => /\ me.pc \in {"idle", "name", "register", "clean"}
                                 \cup Copying \cup Looking
                   /\ me.then = "idle"
                   /\ me.pc \in {"register"} \cup Copying =>
                        me.name[1] = me.base /\ me.name[2] # 0
  /\ x = "delete" => /\ me.pc \in {"idle", "next", "delete"} \cup Erasing \cup Looking
                     /\ me.then \in {"idle", "next"}
  /\ x = "restore" => /\ me.pc \in {"idle", "aside", "move", "back", "last", "record", "clear"}
                                     \cup Looking
                      /\ me.pc \notin {"idle", "clear"} => me.then = "clear"
  /\ x = "monitor" => me.pc \in Looking /\ me.then = "list"
OwnName ==                      \* a snapshot has a name made of its original's
  \A n \in Name : /\ of[n] \in Base => n[1] = of[n] /\ n[2] # 0
                  /\ file.of[n] \in Base => n[1] = file.of[n] /\ n[2] # 0
CopyFlagged(x) ==
  LET me == loc[x] IN
  /\ me.pc = "register" => of[me.name] \notin Base
  /\ me.pc \in Copying => of[me.name] = me.base
ErasedFlagged(x) == loc[x].pc \in Erasing => of[loc[x].name] \in Base
RestoredDown(x) ==
  x = "restore" /\ loc[x].pc # "idle" =>
    loc[x].name[1] = loc[x].base /\ Vm(loc[x].base) \notin up
HasItsFlags(x) ==
  /\ loc[x].pc # "register" => Claims(x) \subseteq busy
  /\ CopyFlagged(x) /\ ErasedFlagged(x) /\ RestoredDown(x)
ClaimsApart ==
  \A x, y \in Op : x # y => Claims(x) \cap Claims(y) = {}
Steady == OwnName /\ \A x \in Proc : KeepsToSteps(x)
Apart == ClaimsApart /\ \A x \in Op : HasItsFlags(x)
\* While no name is shared, no two requests work on the same copy, and what they hold
\* is flagged and recorded as theirs; so none clears the flags of another (setBusy in
\* snapshots.go).
FlagsInv == Steady /\ (~shared => Apart)

\* Why no VM is lost, without renames: what a failed copy deletes has not been reported
\* as made, also after its record and its flag are gone, and what a restore moved is
\* not made again before the original goes, unless its name was shared.
CopyUnmade(x) ==
  LET me == loc[x] IN
  me.pc \in {"register", "clean"} \cup Copying =>
    tart[me.name] # "whole" /\ me.name[1] \in Base /\ me.name[2] # 0
Moved(x) == At(x, "last") => ~There(loc[x].name)
KeptInv == \A x \in Op : CopyUnmade(x) /\ (~shared => Moved(x))
=============================================================================
