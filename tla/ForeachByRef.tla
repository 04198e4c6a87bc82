--------------------------- MODULE ForeachByRef ---------------------------
(***************************************************************************)
(* foreach ($arr as &$v) of the walker: a loop over an array its own body  *)
(* may grow, shrink and alias.  The loop works on a snapshot of the keys,  *)
(* then on rounds of keys found behind a cursor, until a round finds none  *)
(* or the cap on live appends is reached.  The visited element is promoted *)
(* to a reference cell that $v shares, and demoted again when the loop     *)
(* moves on and nothing else holds the cell.  Before the loop elements may  *)
(* be references already, held elsewhere, shared, or left over by an        *)
(* earlier loop.  The body changes elements of the array and takes and      *)
(* drops aliases of them; it does not assign another value to $arr itself.  *)
(***************************************************************************)
EXTENDS Naturals, Sequences, FiniteSets, SequencesExt

CONSTANTS
  Key,              \* keys the program ever uses in the array
  Start,            \* the keys before the loop, in order
  CellNo,           \* bound: numbers of the cells made for one key
  OldCell,          \* cells that may be in use before the loop
  MaxLiveAppends,   \* MAX_LIVE_APPENDS
  MaxHeld,          \* bound on cells the body aliases
  Plain             \* not a reference

ASSUME StartKeys == Start \in Seq(Key) /\ IsInjective(Start)
ASSUME LoopBounds == MaxLiveAppends \in Nat

\* A reference cell is named by the key it was made for, and a number.
Cell == Key \X CellNo
ASSUME Cells == OldCell \subseteq Cell /\ Plain \notin Cell

VARIABLES
  removes,    \* whether the body removes elements at all
  arr,        \* the array: <<key, cell or Plain>> in order
  queue,      \* keys still to visit
  visited,    \* keys taken from the queue
  scan_pos,   \* entries up to here belong to earlier rounds
  appended,   \* keys queued since the snapshot
  last,       \* key and cell of the latest visit: the body's, then `prev`
  v,          \* the cell $v is bound to, or Plain
  held,       \* cells another variable or a closure holds
  stray,      \* history: cells let go of when the loop was not at their element
  pc          \* "loop", "body", "done" (ran out), "left" (break, return, throw)

vars == <<removes, arr, queue, visited, scan_pos, appended, last, v, held, stray, pc>>

KeysOf(a) == {a[i][1] : i \in DOMAIN a}
CellsOf(a) == {a[i][2] : i \in DOMAIN a} \ {Plain}
Pos(k) == CHOOSE i \in DOMAIN arr : arr[i][1] = k
LastCell == IF last = <<>> THEN {} ELSE {last[2]}
Used == CellsOf(arr) \cup held \cup {v} \cup LastCell
FreeCell(k) == <<k, CHOOSE n \in CellNo : <<k, n>> \notin Used>>
Room(k) == \E n \in CellNo : <<k, n>> \notin Used

TypeOK ==
  /\ arr \in Seq(Key \X (Cell \cup {Plain})) /\ IsInjective([i \in DOMAIN arr |-> arr[i][1]])
  /\ queue \in Seq(Key) /\ visited \subseteq Key
  /\ scan_pos \in Nat /\ appended \in Nat
  /\ last = <<>> \/ last \in Key \X Cell
  /\ v \in Cell \cup {Plain} /\ held \subseteq Cell /\ stray \subseteq Cell
  /\ pc \in {"loop", "body", "done", "left"} /\ removes \in BOOLEAN

Init ==
  /\ removes \in BOOLEAN
  /\ \E cells \in [DOMAIN Start -> OldCell \cup {Plain}] :
       arr = [i \in DOMAIN Start |-> <<Start[i], cells[i]>>]
  /\ v \in OldCell \cup {Plain} /\ held \in SUBSET OldCell
  /\ queue = Start /\ visited = {} /\ scan_pos = Len(Start) /\ appended = 0
  /\ last = <<>> /\ stray = {} /\ pc = "loop"

----------------------------------------------------------------------------
(* The loop. *)

\* The cell element i of the array is bound through: its own, or a new one.
CellAt(i) == IF arr[i][2] = Plain THEN FreeCell(arr[i][1]) ELSE arr[i][2]
Promoted(i) == [arr EXCEPT ![i] = <<arr[i][1], CellAt(i)>>]

\* Mutant: nothing is unwrapped.
DemotedNever(a, old, bound) == a

\* Mutant: unwrapped without counting the holders.
DemotedAlways(a, old, bound) ==
  [i \in DOMAIN a |-> IF a[i] = old THEN <<a[i][1], Plain>> ELSE a[i]]

\* unwrap_element: only one element of the array and the loop itself still hold
\* the cell.
Sole(a, old) == \A i \in DOMAIN a : a[i][2] = old[2] => a[i] = old
Demoted(a, old, bound) ==
  [i \in DOMAIN a |-> IF a[i] = old /\ old[2] \notin held \cup {bound} /\ Sole(a, old)
                      THEN <<a[i][1], Plain>> ELSE a[i]]

Take == /\ pc = "loop" /\ queue # <<>>
        /\ visited' = visited \cup {Head(queue)} /\ queue' = Tail(queue)
        /\ UNCHANGED <<removes, scan_pos, appended, held>>

\* Mutant: the key stays at the head of the queue.
VisitPeeks ==
  /\ pc = "loop" /\ queue # <<>> /\ Head(queue) \in KeysOf(arr) /\ Room(Head(queue))
  /\ v' = CellAt(Pos(Head(queue))) /\ last' = <<Head(queue), v'>>
  /\ arr' = Demoted(Promoted(Pos(Head(queue))), last, v')
  /\ visited' = visited \cup {Head(queue)} /\ pc' = "body" /\ stray' = stray \ {v'}
  /\ UNCHANGED <<removes, queue, scan_pos, appended, held>>

\* The next key: the element is promoted, $v is bound to its cell, the
\* element before is demoted, and the body starts.
Visit ==
  /\ Take /\ Head(queue) \in KeysOf(arr) /\ Room(Head(queue))
  /\ LET i == Pos(Head(queue))
     IN /\ arr' = Demoted(Promoted(i), last, CellAt(i))
        /\ v' = CellAt(i) /\ last' = <<Head(queue), CellAt(i)>> /\ stray' = stray \ {CellAt(i)}
  /\ pc' = "body"

\* Assigning the key throws: the element stays promoted and nothing is demoted.
KeyThrows ==
  /\ Take /\ Head(queue) \in KeysOf(arr) /\ Room(Head(queue))
  /\ arr' = Promoted(Pos(Head(queue))) /\ stray' = stray \cup {CellAt(Pos(Head(queue)))}
  /\ pc' = "left" /\ UNCHANGED <<last, v>>

\* The element was removed after its key had been queued.
Skip ==
  /\ Take /\ Head(queue) \notin KeysOf(arr)
  /\ UNCHANGED <<arr, last, v, stray, pc>>

\* Mutant: every key behind the cursor counts as new.
FoundUnfiltered == [i \in 1..(Len(arr) - scan_pos) |-> arr[scan_pos + i][1]]

\* The keys of ks that are not in S, in their order.
Without(ks, S) ==
  LET kept[i \in 0..Len(ks)] ==
        IF i = 0 THEN <<>>
        ELSE IF ks[i] \in S THEN kept[i - 1] ELSE Append(kept[i - 1], ks[i])
  IN kept[Len(ks)]

\* The keys behind the cursor that have not been visited.
Found ==
  LET behind == SubSeq(arr, scan_pos + 1, Len(arr))
  IN Without([i \in DOMAIN behind |-> behind[i][1]], visited)

Rescan ==
  /\ pc = "loop" /\ queue = <<>>
  /\ appended < MaxLiveAppends /\ Found # <<>>
  /\ queue' = Found /\ appended' = appended + Len(Found) /\ scan_pos' = Len(arr)
  /\ UNCHANGED <<removes, arr, visited, last, v, held, stray, pc>>

\* Mutant: the loop ends with its snapshot.
FinishEarly ==
  /\ pc = "loop" /\ queue = <<>> /\ pc' = "done"
  /\ UNCHANGED <<removes, arr, queue, visited, scan_pos, appended, last, v, held, stray>>

Finish ==
  /\ pc = "loop" /\ queue = <<>>
  /\ appended >= MaxLiveAppends \/ Found = <<>>
  /\ pc' = "done"
  /\ UNCHANGED <<removes, arr, queue, visited, scan_pos, appended, last, v, held, stray>>

----------------------------------------------------------------------------
(* The body. *)

Body == pc = "body" /\ UNCHANGED <<removes, queue, visited, scan_pos, appended, last>>

\* Mutant: the key is not looked up first.
AddAgain(k) ==
  /\ Body /\ Len(arr) < Cardinality(Key) + 1
  /\ arr' = Append(arr, <<k, Plain>>)
  /\ UNCHANGED <<v, held, stray, pc>>

Add(k) ==           \* $arr[k] = ... with a new key
  /\ Body /\ k \notin KeysOf(arr)
  /\ arr' = Append(arr, <<k, Plain>>)
  /\ UNCHANGED <<v, held, stray, pc>>

UnsetKey(k) ==      \* unset($arr[k])
  /\ Body /\ removes /\ k \in KeysOf(arr)
  /\ arr' = RemoveAt(arr, Pos(k))
  /\ stray' = (stray \cup ({arr[Pos(k)][2]} \ held)) \cap CellsOf(arr')
  /\ UNCHANGED <<v, held, pc>>

Alias(k) ==         \* $r = &$arr[k]
  /\ Body /\ k \in KeysOf(arr) /\ Cardinality(held) < MaxHeld /\ Room(k)
  /\ arr' = Promoted(Pos(k))
  /\ held' = held \cup {CellAt(Pos(k))} /\ stray' = stray \ {CellAt(Pos(k))}
  /\ UNCHANGED <<v, pc>>

Capture ==          \* a closure takes $v by reference, $r = &$v
  /\ Body /\ v # Plain /\ Cardinality(held) < MaxHeld
  /\ held' = held \cup {v} /\ stray' = stray \ {v}
  /\ UNCHANGED <<arr, v, pc>>

\* unset($r), $r = &$other: the last that held the cell outside of the array
\* and the loop lets go of it.
Drop(c) ==
  /\ Body /\ held' = held \ {c}
  /\ stray' = IF c \in LastCell /\ \E i \in DOMAIN arr : arr[i] = last THEN stray
              ELSE stray \cup ({c} \cap CellsOf(arr))
  /\ UNCHANGED <<arr, v, pc>>

\* unset($v), or $v = &$other; if $v is bound to an element it is from then on
\* a variable like others, which Alias and Drop are about.
Rebind ==
  /\ Body /\ v' = Plain
  /\ UNCHANGED <<arr, held, stray, pc>>

EndBody ==          \* the end of the body, continue
  Body /\ pc' = "loop" /\ UNCHANGED <<arr, v, held, stray>>

Leave ==            \* break, return, an error
  Body /\ pc' = "left" /\ UNCHANGED <<arr, v, held, stray>>

Ended == pc \in {"done", "left"} /\ UNCHANGED vars

Loop == Visit \/ Skip \/ Rescan \/ Finish

Next ==
  \/ Loop \/ KeyThrows
  \/ \E k \in Key : Add(k) \/ UnsetKey(k) \/ Alias(k)
  \/ \E c \in held : Drop(c)
  \/ Capture \/ Rebind \/ EndBody \/ Leave \/ Ended

\* The loop runs as long as the script does; that each run of the body ends
\* is the script's own business and assumed.
Spec == Init /\ [][Next]_vars /\ WF_vars(Loop) /\ WF_vars(EndBody)

----------------------------------------------------------------------------
(* Properties. *)

\* The body never runs twice for one key, whatever it adds and removes.
NoRevisit ==
  [][pc = "loop" /\ pc' = "body" => Head(queue) \notin visited]_vars

\* "After moving on, an element whose cell has no other holder is unwrapped
\* back to a plain value": an element the loop has been at is left a reference
\* only where another variable or another element holds the cell, at the element
\* visited last, and where the last holder let go when the loop had moved on.
\* References the array came with, held or not, are no exception once the loop
\* has been at them.
RefsAreAliased ==
  \A i \in DOMAIN arr :
    \/ arr[i][1] \notin visited
    \/ arr[i][2] \in held \cup stray \cup {Plain}
    \/ arr[i] = last
    \/ \E j \in DOMAIN arr \ {i} : arr[j][2] = arr[i][2]

\* An element another variable aliases keeps its cell for as long as it is in
\* the array, whether the loop visits it, moves on from it or has ended.
AliasesSurvive ==
  [][\A i \in DOMAIN arr, j \in DOMAIN arr' :
       arr[i][1] = arr'[j][1] /\ arr[i][2] \in held => arr'[j][2] = arr[i][2]]_vars

\* "Elements appended during the loop are visited too": when a loop that only
\* grows the array has run out of keys, and not by its cap, every key in the
\* array was visited.
AppendedAreVisited ==
  ~removes /\ pc = "done" /\ appended < MaxLiveAppends => KeysOf(arr) \subseteq visited

\* A loop whose body keeps ending ends, out of keys or at the cap, also when
\* every run of the body adds elements.
Terminates == <>(pc \in {"done", "left"})
===========================================================================
