--------------------------- MODULE OrderedArrays ---------------------------
(***************************************************************************)
(* What PHP arrays are to a program: every variable holds an ordered map   *)
(* of its own.  Copying a variable copies the map; the copies then change  *)
(* independently, except for elements that are references, which share a   *)
(* cell.  `next` is the key an append uses and `pos` the internal pointer. *)
(***************************************************************************)
EXTENDS Integers, FiniteSets, SequencesExt, Functions

CONSTANTS Var,      \* variables that hold arrays
          StrKey,   \* string keys; every other key is an integer
          Cell,     \* reference cells
          Val       \* plain values

VARIABLES arr,      \* [items: a sequence of <<key, element>>, next, pos]
          heap      \* what each cell holds

avars == <<arr, heap>>

Empty == [items |-> <<>>, next |-> 0, pos |-> 0]
KeysOf(items) == {items[i][1] : i \in DOMAIN items}
After(next, k) == IF k \notin StrKey /\ k >= next THEN k + 1 ELSE next

\* A freshly numbered array: integer keys become 0, 1, ... in order.
Renumbered(items) ==
  [i \in DOMAIN items |->
     <<IF items[i][1] \in StrKey THEN items[i][1]
       ELSE Cardinality({j \in 1..(i - 1) : items[j][1] \notin StrKey}), items[i][2]>>]

\* The key an append to a rebuilt array uses.
FirstFree(items) ==
  LET ints == {k \in KeysOf(items) \ StrKey : k >= 0}
  IN IF ints = {} THEN 0 ELSE Max(ints) + 1

Becomes(v, items, next, pos) ==
  arr' = [arr EXCEPT ![v] = [items |-> items, next |-> next, pos |-> pos]]

\* The array is built anew.
Holds(v, items) == Becomes(v, items, FirstFree(items), 0) /\ UNCHANGED heap

Init == arr = [v \in Var |-> Empty] /\ heap \in [Cell -> Val]

Clear(v) == arr' = [arr EXCEPT ![v] = Empty] /\ UNCHANGED heap
Copy(v, w) == arr' = [arr EXCEPT ![v] = arr[w]] /\ UNCHANGED heap

\* Element i becomes e; the key and the pointer stay, next may move.
Update(v, i, e, next) ==
  Becomes(v, [arr[v].items EXCEPT ![i] = <<@[1], e>>], next, arr[v].pos)

\* Assignment to an existing element: through the cell if it is a reference.
Put(v, k, x) ==
  \E i \in DOMAIN arr[v].items :
    LET old == arr[v].items[i][2]
    IN /\ arr[v].items[i][1] = k
       /\ IF old \in Cell
          THEN heap' = [heap EXCEPT ![old] = x] /\ Update(v, i, old, After(arr[v].next, k))
          ELSE UNCHANGED heap /\ Update(v, i, x, After(arr[v].next, k))

\* A new key goes to the end.
Extend(v, k, x) ==
  /\ k \notin KeysOf(arr[v].items)
  /\ Becomes(v, Append(arr[v].items, <<k, x>>), After(arr[v].next, k), arr[v].pos)
  /\ UNCHANGED heap

Drop(v, k) ==
  /\ \E i \in DOMAIN arr[v].items :
       /\ arr[v].items[i][1] = k
       /\ Becomes(v, RemoveAt(arr[v].items, i), arr[v].next, arr[v].pos)
  /\ UNCHANGED heap

\* An element becomes, or stops being, a reference with the same value.
Share(v, c) ==
  /\ \A w \in Var : \A i \in DOMAIN arr[w].items : arr[w].items[i][2] # c
  /\ \E i \in DOMAIN arr[v].items :
       /\ arr[v].items[i][2] \notin Cell
       /\ heap' = [heap EXCEPT ![c] = arr[v].items[i][2]]
       /\ Update(v, i, c, arr[v].next)
Unshare(v) ==
  /\ \E i \in DOMAIN arr[v].items :
       /\ arr[v].items[i][2] \in Cell
       /\ Update(v, i, heap[arr[v].items[i][2]], arr[v].next)
  /\ UNCHANGED heap
WriteCell(c, x) == heap' = [heap EXCEPT ![c] = x] /\ UNCHANGED arr

Pop(v) == arr[v].items # <<>> /\ Holds(v, Front(arr[v].items))
Shift(v) == arr[v].items # <<>> /\ Holds(v, Renumbered(Tail(arr[v].items)))
Unshift(v, x) == Holds(v, Renumbered(<< <<0, x>> >> \o arr[v].items))

\* Sorting keeps the elements; it keeps their keys or makes a list of them.
Sort(v) ==
  \E p \in Bijection(DOMAIN arr[v].items, DOMAIN arr[v].items) :
    \/ Holds(v, [i \in DOMAIN p |-> arr[v].items[p[i]]])
    \/ Holds(v, [i \in DOMAIN p |-> <<i - 1, arr[v].items[p[i]][2]>>])

\* reset, end, next, prev move the pointer of this array only.
Point(v) ==
  Becomes(v, arr[v].items, arr[v].next, arr'[v].pos) /\ UNCHANGED heap

Next ==
  \/ \E v \in Var : \/ Clear(v) \/ Pop(v) \/ Shift(v) \/ Sort(v)
                    \/ Unshare(v) \/ Point(v)
                    \/ \E w \in Var : Copy(v, w)
                    \/ \E c \in Cell : Share(v, c)
                    \/ \E k \in KeysOf(arr[v].items) \cup KeysOf(arr'[v].items) :
                         \/ Drop(v, k)
                         \/ \E x \in Val : Put(v, k, x) \/ Extend(v, k, x)
                    \/ \E x \in Val : Unshift(v, x)
  \/ \E c \in Cell, x \in Val : WriteCell(c, x)

Spec == Init /\ [][Next]_avars
============================================================================
