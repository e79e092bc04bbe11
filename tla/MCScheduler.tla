---------------------------- MODULE MCScheduler ----------------------------
(* Instances of Scheduler for TLC. *)
EXTENDS Scheduler, TLC

CONSTANTS loop, tk

Apart == [n \in VM |-> n]
TwoIsSnapshotOfOne == [n \in VM |-> IF n = 2 THEN 1 ELSE n]

Open == [within |-> TRUE, mounted |-> TRUE, pressure |-> FALSE]
Always == {Open}
Pressed == {Open, [Open EXCEPT !.pressure = TRUE]}
AnyHost == Pressed \cup {[Open EXCEPT !.within = FALSE]} \cup {[Open EXCEPT !.mounted = FALSE]}
NoneExcluded == {{}}
OneExcluded == {{}, {1}}
=============================================================================
