---------------------------- MODULE VmLifeProofs ----------------------------
(* What the abstract specification of a VM's state guarantees. *)
EXTENDS VmLife, FiniteSetTheorems, TLAPS

Inv == TypeOK /\ StartsBounded

\* A step that starts no VM leaves at most the VMs that were starting.
LEMMA FewerStart ==
  ASSUME IsFiniteSet(VM), HardMax \in Nat, Inv, Starting' \subseteq Starting
  PROVE  StartsBounded'
<1>1. IsFiniteSet(Starting) /\ IsFiniteSet(Starting')
  BY FS_Subset DEF Starting
<1>2. Cardinality(Starting') <= Cardinality(Starting)
  BY <1>1, FS_Subset
<1>3. Cardinality(Starting') \in Nat /\ Cardinality(Starting) \in Nat
  BY <1>1, FS_CardinalityType
<1>4. Cardinality(Starting') <= HardMax
  BY <1>2, <1>3 DEF Inv, StartsBounded
<1> QED BY <1>4 DEF Inv, StartsBounded

LEMMA NextInv ==
  ASSUME IsFiniteSet(VM), HardMax \in Nat
  PROVE  Inv /\ [Next]_state => Inv'
<1> SUFFICES ASSUME Inv, [Next]_state PROVE Inv'
  OBVIOUS
<1>1. ASSUME NEW n \in VM, Start(n) PROVE Inv'
  <2>1. TypeOK'
    BY <1>1 DEF Inv, TypeOK, Start, Transient
  <2>2. Starting' = Starting \cup {n} /\ n \notin Starting
    BY <1>1 DEF Inv, TypeOK, Start, Starting, Settled
  <2>3. IsFiniteSet(Starting)
    BY FS_Subset DEF Starting
  <2>4. Cardinality(Starting') = Cardinality(Starting) + 1
    BY <2>2, <2>3, FS_AddElement
  <2>5. Cardinality(Starting') <= HardMax
    BY <1>1, <2>3, <2>4, FS_CardinalityType DEF Start
  <2>6. \A m \in Starting : Root[m] # Root[n]
    BY <1>1 DEF Start, Family, Starting
  <2> QED BY <2>1, <2>2, <2>5, <2>6 DEF Inv, StartsBounded
<1>2. ASSUME NEW n \in VM, Started(n) \/ Stop(n) \/ Stopped(n) PROVE Inv'
  <2>1. TypeOK' /\ Starting' \subseteq Starting
    BY <1>2 DEF Inv, TypeOK, Started, Stop, Stopped, Starting, Settled, Transient
  <2> QED BY <2>1, FewerStart DEF Inv
<1>3. CASE Observe
  <2>1. TypeOK' /\ Starting' \subseteq Starting
    BY <1>3 DEF Inv, TypeOK, Observe, Starting, Settled, Transient
  <2> QED BY <2>1, FewerStart DEF Inv
<1>4. CASE UNCHANGED state
  BY <1>4 DEF Inv, TypeOK, StartsBounded, Starting
<1> QED BY <1>1, <1>2, <1>3, <1>4 DEF Next

\* However operations and observations interleave, at most HardMax VMs are in
\* state "starting", and at most one of each family.
THEOREM BoundedStarts ==
  ASSUME IsFiniteSet(VM), HardMax \in Nat
  PROVE  Spec => []StartsBounded
<1>1. Init => Inv
  <2> SUFFICES ASSUME Init PROVE Inv
    OBVIOUS
  <2>1. Starting = {}
    BY DEF Init, Starting
  <2>2. Cardinality(Starting) = 0
    BY <2>1, FS_EmptySet
  <2> QED BY <2>1, <2>2 DEF Init, Inv, TypeOK, StartsBounded, Settled
<1>2. Inv => StartsBounded
  BY DEF Inv
<1> QED BY <1>1, <1>2, NextInv, PTL DEF Spec
=============================================================================
