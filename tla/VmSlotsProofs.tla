--------------------------- MODULE VmSlotsProofs ---------------------------
(***************************************************************************)
(* Proofs about the top-level slots, for any set of names and values: the  *)
(* invariants of VmSlots, and that a script whose calls are all            *)
(* synchronised has one mapping of global variables.                       *)
(***************************************************************************)
EXTENDS VmSlots, TLAPS

\* The four invariants are inductive only together: where a write lands
\* depends on which home (slot, plain entry or cell) each name has.
IInv == /\ TypeOK /\ SlotsGiveUpValues /\ AliasesStayLive /\ OneHome
        /\ mode = "unsynced" => Unsynced

\* A script starts with every variable in exactly one home: none.
LEMMA InitIInv == Init => IInv
  BY DistinctValues DEF Init, IInv, TypeOK, SlotsGiveUpValues, AliasesStayLive,
     OneHome, Value, Cell, Unbound

\* Every operation of the chunk, of its callees and of the synchronisation
\* keeps the four invariants.
LEMMA StepIInv == IInv /\ [Next]_vars => IInv'
<1> SUFFICES ASSUME IInv, [Next]_vars PROVE IInv'
  OBVIOUS
<1> USE DistinctValues, ProgramFlags
       DEF IInv, TypeOK, SlotsGiveUpValues, AliasesStayLive, OneHome,
           Value, Cell, Unbound
<1>1. ASSUME NEW n \in Name, NEW v \in Val, Store(n, v) PROVE IInv'
  BY <1>1 DEF Store
<1>2. ASSUME NEW n \in Name, UnsetSlot(n) PROVE IInv'
  BY <1>2 DEF UnsetSlot
<1>3. CASE SyncedCall
  BY <1>3 DEF SyncedCall, SyncOut
<1>4. CASE UnsyncedCall
  BY <1>4 DEF UnsyncedCall
<1>5. CASE ReturnSynced
  <2>1. assigned' \in [Name -> BOOLEAN]
    BY <1>5, Zenon DEF ReturnSynced, SyncIn
  <2>2. slots' \in [Name -> Value] /\ plain' \in [Name -> Value \cup {Absent}]
    BY <1>5 DEF ReturnSynced, SyncIn
  <2>3. SlotsGiveUpValues'
    BY <1>5 DEF ReturnSynced, SyncIn
  <2>4. AliasesStayLive' /\ OneHome'
    BY <1>5 DEF ReturnSynced, SyncIn
  <2>5. QED
    BY <1>5, <2>1, <2>2, <2>3, <2>4 DEF ReturnSynced
<1>6. CASE ReturnUnsynced
  BY <1>6 DEF ReturnUnsynced
<1>7. CASE NextCallee
  BY <1>7 DEF NextCallee
<1>8. CASE TopEnds
  BY <1>8 DEF TopEnds, SyncBack
<1>9. CASE CalleeFails
  BY <1>9 DEF CalleeFails, SyncBack
<1>10. ASSUME NEW n \in Name, BindGlobal(n) PROVE IInv'
  <2>1. CASE ref[n] # 0
    BY <1>10, <2>1 DEF BindGlobal
  <2>2. CASE ref[n] = 0
    <3>1. made[n] + 1 \in Cell
      <4>1. made[n] # 2
        BY <2>2
      <4>2. QED
        BY <4>1
    <3>2. /\ made' = [made EXCEPT ![n] = made[n] + 1]
          /\ ref' = [ref EXCEPT ![n] = made[n] + 1]
          /\ local' = [local EXCEPT ![n] = made[n] + 1]
          /\ plain' = [plain EXCEPT ![n] = Absent]
          /\ UNCHANGED <<mode, slots, assigned, kept>>
      BY <1>10, <2>2 DEF BindGlobal
    <3>3. heap' \in [Name -> [Cell -> Value]]
      BY <1>10, <2>2, <3>1 DEF BindGlobal
    <3>4. TypeOK'
      BY <3>1, <3>2, <3>3
    <3>5. SlotsGiveUpValues'
      BY <3>2
    <3>6. AliasesStayLive'
      BY <2>2, <3>1, <3>2
    <3>7. OneHome'
      BY <1>10, <2>2, <3>1, <3>2 DEF BindGlobal
    <3>8. QED
      BY <3>2, <3>4, <3>5, <3>6, <3>7
  <2>3. QED
    BY <2>1, <2>2
<1>11. ASSUME NEW n \in Name, NEW v \in Val, WriteLocal(n, v) PROVE IInv'
  BY <1>11 DEF WriteLocal
<1>12. ASSUME NEW n \in Name, Capture(n) PROVE IInv'
  BY <1>12 DEF Capture
<1>13. ASSUME NEW n \in Name, NEW v \in Val, WriteKept(n, v) PROVE IInv'
  BY <1>13 DEF WriteKept
<1>14. ASSUME NEW n \in Name, NEW v \in Val, WriteGlobals(n, v) PROVE IInv'
  BY <1>14 DEF WriteGlobals
<1>15. CASE UNCHANGED vars
  BY <1>15 DEF vars
<1>16. QED
  BY <1>1, <1>2, <1>3, <1>4, <1>5, <1>6, <1>7, <1>8, <1>9, <1>10, <1>11,
     <1>12, <1>13, <1>14, <1>15 DEF Next

\* Every script keeps the invariant.
LEMMA SlotInvariants == Spec => []IInv
  BY InitIInv, StepIInv, PTL DEF Spec

\* Slots, scope and cells hold values of their types.
THEOREM SlotTypes == Spec => []TypeOK
<1>1. IInv => TypeOK
  BY DEF IInv
<1>2. QED
  BY <1>1, SlotInvariants, PTL

\* An unassigned slot reads as null, and no slot keeps a second copy of a
\* variable while a callee that vm_sync_out prepared for runs.
THEOREM NoSecondCopies == Spec => []SlotsGiveUpValues
<1>1. IInv => SlotsGiveUpValues
  BY DEF IInv
<1>2. QED
  BY <1>1, SlotInvariants, PTL

\* A variable bound by `global`, or captured from one by a closure, stays the
\* cell of the global scope, through any calls, until the program ends.
THEOREM BindingsStayLive == Spec => []AliasesStayLive
<1>1. IInv => AliasesStayLive
  BY DEF IInv
<1>2. QED
  BY <1>1, SlotInvariants, PTL

\* A variable is a plain value or a cell of the global scope, never both.
THEOREM EveryVariableHasOneHome == Spec => []OneHome
<1>1. IInv => OneHome
  BY DEF IInv
<1>2. QED
  BY <1>1, SlotInvariants, PTL

----------------------------------------------------------------------------
(* Scripts all of whose calls are synchronised. *)

Disciplined == ~Unsynced /\ ~Failures /\ ~Unsets

\* With such calls only, an unassigned slot has no entry in the scope, and a
\* slot moved out by vm_sync_out has one for vm_sync_in to find.
RInv ==
  /\ IInv
  /\ mode # "unsynced"
  /\ mode = "top" => \A n \in Name : ~assigned[n] => ref[n] = 0
  /\ mode = "synced" =>
       \A n \in Name : assigned[n] => ref[n] # 0 \/ plain[n] # Absent

LEMMA InitRInv == Init => RInv
  BY InitIInv DEF RInv, Init, Unbound

LEMMA StepRInv == ASSUME Disciplined PROVE RInv /\ [Next]_vars => RInv'
<1> SUFFICES ASSUME RInv, [Next]_vars PROVE RInv'
  OBVIOUS
<1>0. IInv /\ IInv'
  BY StepIInv DEF RInv
<1> USE <1>0, DistinctValues
       DEF RInv, Disciplined, IInv, TypeOK, Value, Cell
<1>1. ASSUME NEW n \in Name, NEW v \in Val, Store(n, v) PROVE RInv'
  BY <1>1 DEF Store
<1>2. CASE SyncedCall
  BY <1>2 DEF SyncedCall, SyncOut
<1>3. CASE ReturnSynced
  BY <1>3 DEF ReturnSynced, SyncIn
<1>4. CASE NextCallee
  BY <1>4 DEF NextCallee
<1>5. CASE TopEnds
  BY <1>5 DEF TopEnds, SyncBack
<1>6. ASSUME NEW n \in Name, BindGlobal(n) PROVE RInv'
  BY <1>6 DEF BindGlobal
<1>7. ASSUME NEW n \in Name, NEW v \in Val, WriteLocal(n, v) PROVE RInv'
  BY <1>7 DEF WriteLocal
<1>8. ASSUME NEW n \in Name, Capture(n) PROVE RInv'
  BY <1>8 DEF Capture
<1>9. ASSUME NEW n \in Name, NEW v \in Val, WriteKept(n, v) PROVE RInv'
  BY <1>9 DEF WriteKept
<1>10. ASSUME NEW n \in Name, NEW v \in Val, WriteGlobals(n, v) PROVE RInv'
  BY <1>10 DEF WriteGlobals
<1>11. CASE UNCHANGED vars
  BY <1>11 DEF vars
<1>12. QED
  BY <1>1, <1>2, <1>3, <1>4, <1>5, <1>6, <1>7, <1>8, <1>9, <1>10, <1>11
     DEF Next, UnsetSlot, UnsyncedCall, ReturnUnsynced, CalleeFails

\* Each step of the slots is a step of one mapping, or no step of it.
LEMMA StepRefines ==
  ASSUME Disciplined PROVE RInv /\ [Next]_vars => [GV!Next]_(GV!avars)
<1> SUFFICES ASSUME RInv, [Next]_vars PROVE [GV!Next]_(GV!avars)
  OBVIOUS
<1> USE DistinctValues
       DEF RInv, Disciplined, IInv, TypeOK, AliasesStayLive, OneHome, Value,
           Cell, View, Context, GV!avars
<1>1. ASSUME NEW n \in Name, NEW v \in Val, Store(n, v)
      PROVE  GV!Assign(n, v)
  BY <1>1 DEF Store, GV!Assign
<1>2. CASE SyncedCall
  <2>1. View' = View
    BY <1>2 DEF SyncedCall, SyncOut
  <2>2. QED
    BY <1>2, <2>1 DEF SyncedCall, GV!Next, GV!Call
<1>3. CASE ReturnSynced
  <2>1. View' = View
    BY <1>3 DEF ReturnSynced, SyncIn
  <2>2. QED
    BY <1>3, <2>1 DEF ReturnSynced, GV!Next, GV!Return
<1>4. CASE NextCallee
  BY <1>4 DEF NextCallee
<1>5. CASE TopEnds
  <2>1. View' = View
    BY <1>5 DEF TopEnds, SyncBack
  <2>2. QED
    BY <1>5, <2>1 DEF TopEnds, SyncBack, GV!Next, GV!Finish
<1>6. ASSUME NEW n \in Name, BindGlobal(n) PROVE GV!Declare(n)
  <2>1. mode # "top" /\ UNCHANGED mode
    BY <1>6 DEF BindGlobal
  <2>2. View' = [View EXCEPT ![n] = IF View[n] = Absent THEN Null ELSE View[n]]
    <3>1. CASE ref[n] # 0
      <4>1. heap[n][ref[n]] # Absent
        BY <3>1
      <4>2. UNCHANGED <<mode, slots, assigned, plain, ref, heap>>
        BY <1>6, <3>1 DEF BindGlobal
      <4>3. View' = View
        BY <4>2
      <4>4. View[n] # Absent
        BY <2>1, <3>1, <4>1
      <4>5. View = [View EXCEPT ![n] = View[n]]
        OBVIOUS
      <4>6. QED
        BY <4>3, <4>4, <4>5, Zenon
    <3>2. CASE ref[n] = 0
      <4>0. made[n] + 1 \in Cell
        BY <3>2
      <4>1. /\ ref' = [ref EXCEPT ![n] = made[n] + 1]
            /\ plain' = [plain EXCEPT ![n] = Absent]
            /\ heap' = [heap EXCEPT ![n] = [@ EXCEPT ![made[n] + 1] =
                          IF plain[n] = Absent THEN Null ELSE plain[n]]]
        BY <1>6, <3>2 DEF BindGlobal
      <4>2. heap'[n][ref'[n]] = IF plain[n] = Absent THEN Null ELSE plain[n]
        BY <4>0, <4>1
      <4>3. View[n] = plain[n] /\ ref'[n] # 0
        BY <2>1, <3>2, <4>0, <4>1
      <4>4. ASSUME NEW m \in Name, m # n
            PROVE  View'[m] = View[m]
        BY <2>1, <4>1, <4>4
      <4>5. QED
        BY <2>1, <4>2, <4>3, <4>4
    <3>3. QED
      BY <3>1, <3>2
  <2>3. QED
    BY <2>1, <2>2 DEF GV!Declare
<1>7. ASSUME NEW n \in Name, NEW v \in Val, WriteLocal(n, v)
      PROVE  GV!Assign(n, v)
  <2>1. local[n] = ref[n] /\ ref[n] # 0 /\ ref[n] \in Cell /\ mode # "top"
    BY <1>7 DEF WriteLocal
  <2>2. heap' = [heap EXCEPT ![n] = [@ EXCEPT ![ref[n]] = v]]
        /\ UNCHANGED <<mode, slots, assigned, plain, ref>>
    BY <1>7, <2>1 DEF WriteLocal
  <2>3. View' = [View EXCEPT ![n] = v]
    BY <2>1, <2>2
  <2>4. QED
    BY <2>2, <2>3 DEF GV!Assign
<1>8. ASSUME NEW n \in Name, Capture(n) PROVE UNCHANGED GV!avars
  BY <1>8 DEF Capture
<1>9. ASSUME NEW n \in Name, NEW v \in Val, WriteKept(n, v)
      PROVE  GV!Assign(n, v) \/ UNCHANGED GV!avars
  <2>0. kept[n] # 0 /\ kept[n] \in Cell /\ mode # "top"
        /\ heap' = [heap EXCEPT ![n] = [@ EXCEPT ![kept[n]] = v]]
        /\ UNCHANGED <<mode, slots, assigned, plain, ref>>
    BY <1>9 DEF WriteKept
  <2>1. CASE kept[n] = ref[n]
    <3>1. View' = [View EXCEPT ![n] = v]
      BY <2>0, <2>1
    <3>2. QED
      BY <2>0, <3>1 DEF GV!Assign
  <2>2. CASE kept[n] # ref[n]
    <3>1. heap'[n][ref[n]] = heap[n][ref[n]] \/ ref[n] = 0
      BY <2>0, <2>2
    <3>2. View' = View
      BY <2>0, <3>1
    <3>3. QED
      BY <2>0, <3>2
  <2>3. QED
    BY <2>1, <2>2
<1>10. ASSUME NEW n \in Name, NEW v \in Val, WriteGlobals(n, v)
       PROVE  GV!Assign(n, v)
  <2>1. View' = [View EXCEPT ![n] = v]
    <3>1. CASE ref[n] # 0
      <4>1. /\ heap' = [heap EXCEPT ![n] = [@ EXCEPT ![ref[n]] = v]]
            /\ ref[n] \in Cell /\ mode # "top"
            /\ UNCHANGED <<mode, slots, assigned, plain, ref>>
        BY <1>10, <3>1 DEF WriteGlobals
      <4>2. QED
        BY <3>1, <4>1
    <3>2. CASE ref[n] = 0
      BY <1>10, <3>2 DEF WriteGlobals
    <3>3. QED
      BY <3>1, <3>2
  <2>2. QED
    BY <1>10, <2>1 DEF WriteGlobals, GV!Assign
<1>11. CASE UNCHANGED vars
  BY <1>11 DEF vars
<1>12. QED
  BY <1>1, <1>2, <1>3, <1>4, <1>5, <1>6, <1>7, <1>8, <1>9, <1>10, <1>11
     DEF Next, UnsetSlot, UnsyncedCall, ReturnUnsynced, CalleeFails, GV!Next

\* A script that makes synchronised calls only, ends in its own code and
\* unsets nothing sees one mapping of global variables, whatever its
\* functions and closures do to them.
THEOREM SyncedScriptsImplementGlobals ==
  ASSUME Disciplined PROVE Spec => ImplementsGlobals
<1>1. Init => GV!Init
  BY DistinctValues DEF Init, GV!Init, View, Context, Unbound
<1>2. QED
  BY <1>1, InitRInv, StepRInv, StepRefines, PTL
     DEF Spec, ImplementsGlobals, GV!Spec
=============================================================================
