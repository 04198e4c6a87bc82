------------------------------ MODULE VmSlots ------------------------------
(***************************************************************************)
(* The compiled top-level program (Chunk.top_level) and the global scope.  *)
(*                                                                         *)
(* The bytecode VM keeps the script's global variables in numbered slots;  *)
(* everything else in the engine sees them in scopes[0].  Before a call    *)
(* that leaves the VM, vm_sync_out moves the slots into the scope; after   *)
(* it, vm_sync_in moves them back; when the chunk ends, run_chunk writes   *)
(* them back for the shutdown functions.  A callee that says `global $n`   *)
(* turns the entry of scopes[0] into a shared reference cell.  Some        *)
(* operations (echo or concatenation of an object, warnings, the           *)
(* method-call fast path) run user code with no synchronisation at all.    *)
(*                                                                         *)
(* An entry of scopes[0] is either plain or a reference; the k-th cell     *)
(* ever made for n is <<n, k>>, so a cell is named by its number.          *)
(***************************************************************************)
EXTENDS Naturals

CONSTANTS
  Name,       \* the variables of the chunk (slot_names)
  Val,        \* values a program assigns
  Null,       \* Value::Null
  Absent,     \* no entry in scopes[0]
  Unsynced,   \* BOOLEAN: programs with operations that call out unsynced
  Failures,   \* BOOLEAN: programs that end inside a callee (exit, throw)
  Unsets      \* BOOLEAN: programs that unset top-level variables

ASSUME DistinctValues == /\ Null \notin Val /\ Absent \notin Val
                         /\ Null # Absent
ASSUME ProgramFlags == /\ Unsynced \in BOOLEAN /\ Failures \in BOOLEAN
                       /\ Unsets \in BOOLEAN

VARIABLES
  mode,       \* "top", "synced" or "unsynced" (user code called by the
              \* chunk), "shutdown"
  slots,      \* the chunk's slots
  assigned,   \* which of them hold a variable that exists
  plain,      \* plain entries of scopes[0]
  ref,        \* number of the cell an entry refers to, 0 when plain
  heap,       \* what each cell holds
  made,       \* how many cells have been made for a name
  local,      \* cells bound by the running callee (`global $n`), 0 for none
  kept        \* cells captured by a closure that outlives its function

vars == <<mode, slots, assigned, plain, ref, heap, made, local, kept>>

Value == Val \cup {Null}
Cell == 1..2            \* one cell per name during the script, one after it
Unbound == [n \in Name |-> 0]

TypeOK ==
  /\ mode \in {"top", "synced", "unsynced", "shutdown"}
  /\ slots \in [Name -> Value]
  /\ assigned \in [Name -> BOOLEAN]
  /\ plain \in [Name -> Value \cup {Absent}]
  /\ ref \in [Name -> Cell \cup {0}] /\ made \in [Name -> Cell \cup {0}]
  /\ local \in [Name -> Cell \cup {0}] /\ kept \in [Name -> Cell \cup {0}]
  /\ heap \in [Name -> [Cell -> Value]]

\* run_with_path and the head of run_chunk: no user variable exists yet, so
\* every slot starts unassigned.
Init ==
  /\ mode = "top"
  /\ slots = [n \in Name |-> Null] /\ assigned = [n \in Name |-> FALSE]
  /\ plain = [n \in Name |-> Absent]
  /\ ref = Unbound /\ made = Unbound /\ local = Unbound /\ kept = Unbound
  /\ heap = [n \in Name |-> [k \in Cell |-> Null]]

----------------------------------------------------------------------------
(* Operations of the chunk on its own slots. *)

Store(n, v) ==
  /\ mode = "top"
  /\ slots' = [slots EXCEPT ![n] = v]
  /\ assigned' = [assigned EXCEPT ![n] = TRUE]
  /\ UNCHANGED <<mode, plain, ref, heap, made, local, kept>>

UnsetSlot(n) ==
  /\ mode = "top" /\ Unsets
  /\ slots' = [slots EXCEPT ![n] = Null]
  /\ assigned' = [assigned EXCEPT ![n] = FALSE]
  /\ UNCHANGED <<mode, plain, ref, heap, made, local, kept>>

----------------------------------------------------------------------------
(* Leaving the VM and coming back. *)

\* Mutant: values are copied into the scope, the slots keep theirs.
SyncOutCopies ==
  /\ heap' = [n \in Name |-> IF assigned[n] /\ ref[n] # 0
                             THEN [heap[n] EXCEPT ![ref[n]] = slots[n]]
                             ELSE heap[n]]
  /\ plain' = [n \in Name |-> IF assigned[n] /\ ref[n] = 0
                              THEN slots[n] ELSE plain[n]]
  /\ UNCHANGED slots

\* Mutant: a reference is not written through.
SyncOutSkipsCells ==
  /\ plain' = [n \in Name |-> IF assigned[n] /\ ref[n] = 0
                              THEN slots[n] ELSE plain[n]]
  /\ slots' = [n \in Name |-> Null] /\ UNCHANGED heap

\* vm_sync_out: values move into the scope; a reference is written through.
SyncOut ==
  /\ heap' = [n \in Name |-> IF assigned[n] /\ ref[n] # 0
                             THEN [heap[n] EXCEPT ![ref[n]] = slots[n]]
                             ELSE heap[n]]
  /\ plain' = [n \in Name |-> IF assigned[n] /\ ref[n] = 0
                              THEN slots[n] ELSE plain[n]]
  /\ slots' = [n \in Name |-> Null]

\* Mutant: a missing entry is taken for a value.
SyncInTakesAll ==
  /\ slots' = [n \in Name |-> IF ref[n] # 0 THEN heap[n][ref[n]] ELSE plain[n]]
  /\ assigned' = [n \in Name |-> assigned[n] \/ ref[n] # 0 \/ plain[n] # Absent]
  /\ plain' = [n \in Name |-> Absent]

\* vm_sync_in: a plain entry moves out of the scope, a reference is copied.
SyncIn ==
  /\ slots' = [n \in Name |->
                 IF ref[n] # 0 THEN heap[n][ref[n]]
                 ELSE IF plain[n] # Absent THEN plain[n] ELSE slots[n]]
  /\ assigned' = [n \in Name |->
                    assigned[n] \/ ref[n] # 0 \/ plain[n] # Absent]
  /\ plain' = [n \in Name |-> Absent]

\* The end of run_chunk with sync_back: every assigned slot replaces the
\* entry of scopes[0], a reference included.
SyncBack ==
  /\ plain' = [n \in Name |-> IF assigned[n] THEN slots[n] ELSE plain[n]]
  /\ ref' = [n \in Name |-> IF assigned[n] THEN 0 ELSE ref[n]]
  /\ slots' = [n \in Name |-> Null]
  /\ mode' = "shutdown" /\ local' = Unbound
  /\ UNCHANGED <<assigned, heap, made, kept>>

\* CallFn, NewObj, CallStatic, CallMethod on the slow path, the iterator and
\* ArrayAccess methods.
SyncedCall ==
  /\ mode = "top" /\ SyncOut
  /\ mode' = "synced" /\ local' = Unbound
  /\ UNCHANGED <<assigned, ref, made, kept>>

\* Echo, CastString, concatenation and warnings that reach __toString or the
\* error handler; CallMethod on the fast path.
UnsyncedCall ==
  /\ mode = "top" /\ Unsynced
  /\ mode' = "unsynced" /\ local' = Unbound
  /\ UNCHANGED <<slots, assigned, plain, ref, heap, made, kept>>

ReturnSynced ==
  /\ mode = "synced" /\ SyncIn
  /\ mode' = "top" /\ local' = Unbound
  /\ UNCHANGED <<ref, heap, made, kept>>

ReturnUnsynced ==
  /\ mode = "unsynced"
  /\ mode' = "top" /\ local' = Unbound
  /\ UNCHANGED <<slots, assigned, plain, ref, heap, made, kept>>

\* One operation may call several functions in a row (rewind, valid, current,
\* key; several __toString in one echo; several shutdown functions).
NextCallee ==
  /\ mode # "top" /\ local # Unbound
  /\ local' = Unbound
  /\ UNCHANGED <<mode, slots, assigned, plain, ref, heap, made, kept>>

\* The chunk runs to its end, or its own code fails.
TopEnds == mode = "top" /\ SyncBack

\* exit() or an uncaught exception in a callee: `?` leaves run_chunk_inner
\* before vm_sync_in, and run_chunk still writes the slots back.
CalleeFails == mode \in {"synced", "unsynced"} /\ Failures /\ SyncBack

----------------------------------------------------------------------------
(* What a called function, walker or VM, does to global variables. *)

\* Mutant: every `global` makes a cell of its own.
BindNewCell(n) ==
  /\ mode # "top" /\ made[n] < 2
  /\ made' = [made EXCEPT ![n] = made[n] + 1]
  /\ ref' = [ref EXCEPT ![n] = made[n] + 1]
  /\ local' = [local EXCEPT ![n] = made[n] + 1]
  /\ plain' = [plain EXCEPT ![n] = Absent]
  /\ UNCHANGED <<mode, slots, assigned, heap, kept>>

\* Mutant: the plain entry stays beside the cell.
BindKeepsPlain(n) ==
  /\ mode # "top" /\ ref[n] = 0 /\ made[n] < 2
  /\ made' = [made EXCEPT ![n] = made[n] + 1]
  /\ ref' = [ref EXCEPT ![n] = made[n] + 1]
  /\ local' = [local EXCEPT ![n] = made[n] + 1]
  /\ UNCHANGED <<mode, slots, assigned, plain, heap, kept>>

\* `global $n`: the entry of scopes[0] becomes (or already is) a reference,
\* and the callee's variable is bound to its cell.
BindGlobal(n) ==
  /\ mode # "top"
  /\ IF ref[n] # 0
     THEN local' = [local EXCEPT ![n] = ref[n]]
          /\ UNCHANGED <<plain, ref, heap, made>>
     ELSE LET cell == made[n] + 1 IN
          /\ made' = [made EXCEPT ![n] = cell]
          /\ heap' = [heap EXCEPT ![n] = [@ EXCEPT ![cell] =
                        IF plain[n] = Absent THEN Null ELSE plain[n]]]
          /\ plain' = [plain EXCEPT ![n] = Absent]
          /\ ref' = [ref EXCEPT ![n] = cell]
          /\ local' = [local EXCEPT ![n] = cell]
  /\ UNCHANGED <<mode, slots, assigned, kept>>

\* A write through a variable bound to a cell.
WriteLocal(n, v) ==
  /\ mode # "top" /\ local[n] # 0
  /\ heap' = [heap EXCEPT ![n] = [@ EXCEPT ![local[n]] = v]]
  /\ UNCHANGED <<mode, slots, assigned, plain, ref, made, local, kept>>

\* function () use (&$n) { ... } in a function that declared $n global: the
\* closure shares the cell and outlives the call.
Capture(n) ==
  /\ mode # "top" /\ local[n] # 0
  /\ kept' = [kept EXCEPT ![n] = local[n]]
  /\ UNCHANGED <<mode, slots, assigned, plain, ref, heap, made, local>>

\* Such a closure runs and assigns its captured variable.
WriteKept(n, v) ==
  /\ mode # "top" /\ kept[n] # 0
  /\ heap' = [heap EXCEPT ![n] = [@ EXCEPT ![kept[n]] = v]]
  /\ UNCHANGED <<mode, slots, assigned, plain, ref, made, local, kept>>

\* $GLOBALS['n'] = v writes scopes[0], through a reference if it holds one.
WriteGlobals(n, v) ==
  /\ mode # "top"
  /\ IF ref[n] # 0
     THEN heap' = [heap EXCEPT ![n] = [@ EXCEPT ![ref[n]] = v]]
          /\ UNCHANGED plain
     ELSE plain' = [plain EXCEPT ![n] = v] /\ UNCHANGED heap
  /\ UNCHANGED <<mode, slots, assigned, ref, made, local, kept>>

Next ==
  \/ \E n \in Name : UnsetSlot(n) \/ BindGlobal(n) \/ Capture(n)
  \/ \E n \in Name, v \in Val :
       Store(n, v) \/ WriteLocal(n, v) \/ WriteKept(n, v) \/ WriteGlobals(n, v)
  \/ SyncedCall \/ UnsyncedCall \/ ReturnSynced \/ ReturnUnsynced
  \/ NextCallee \/ TopEnds \/ CalleeFails

Spec == Init /\ [][Next]_vars

----------------------------------------------------------------------------
(* Properties. *)

\* LoadQuiet (isset, ??) reads a slot without testing `assigned`, so an
\* unassigned slot must read as null at all times; and while user code called
\* with synchronisation runs, no slot may still hold a value (it would be a
\* second, stale copy of a variable the callee can change).
SlotsGiveUpValues ==
  \A n \in Name : ~assigned[n] \/ mode = "synced" => slots[n] = Null

\* Until the top-level program ends, a variable bound by `global`, or captured
\* from one by a closure in some earlier call, is the very cell scopes[0]
\* holds for that name, through any sequence of synchronised and
\* unsynchronised calls: vm_sync_out and vm_sync_in leave cells in place.
AliasesStayLive ==
  \A n \in Name : /\ local[n] # 0 => local[n] = ref[n]
                  /\ kept[n] # 0 /\ mode # "shutdown" => kept[n] = ref[n]

\* scopes[0] never holds a variable both as a plain value and as a cell; a
\* name is promoted at most once while the script runs and once more after
\* it, and a plain entry found in the scope at top level was put there by an
\* unsynchronised callee.
OneHome ==
  \A n \in Name :
    /\ ref[n] # 0 => plain[n] = Absent /\ ref[n] = made[n]
    /\ mode # "shutdown" => made[n] = ref[n] /\ ref[n] < 2
    /\ made[n] = 2 => ref[n] = 2
    /\ mode = "top" /\ plain[n] # Absent => Unsynced

\* The global variable as the running code sees it: the chunk reads its
\* slots, everything else reads scopes[0].
View ==
  [n \in Name |->
     IF mode = "top" THEN IF assigned[n] THEN slots[n] ELSE Absent
     ELSE IF ref[n] # 0 THEN heap[n][ref[n]] ELSE plain[n]]

Context == IF mode \in {"synced", "unsynced"} THEN "callee" ELSE mode

\* The slots, the scope and the cells together behave as one mapping from
\* names to values (GlobalVars): no synchronisation loses, revives or invents
\* a value.  vm.rs promises it: the VM "changes dispatch, never semantics".
GV == INSTANCE GlobalVars WITH g <- View, ctx <- Context
ImplementsGlobals == GV!Spec
=============================================================================
