--------------------------- MODULE ForeachProofs ---------------------------
(***************************************************************************)
(* Proofs about foreach by reference, for any keys, any references the      *)
(* array starts with and any body: promoting and demoting elements loses no *)
(* reference another variable holds, and leaves none that nobody does.      *)
(***************************************************************************)
EXTENDS ForeachByRef, LeastNumbers, SequenceTheorems

\* A key is in the array once; cells may be there more often.
KeysDiffer(a) == \A i, j \in DOMAIN a : a[i][1] = a[j][1] => i = j

Entry == Key \X (Cell \cup {Plain})

FInv ==
  /\ arr \in Seq(Entry) /\ KeysDiffer(arr)
  /\ held \subseteq Cell /\ stray \subseteq Cell
  /\ last = <<>> \/ last \in Key \X Cell
  /\ v \in Cell \cup {Plain}
  /\ RefsAreAliased

\* What AliasesSurvive says of a step.
Kept == \A i \in DOMAIN arr, j \in DOMAIN arr' :
          arr[i][1] = arr'[j][1] /\ arr[i][2] \in held => arr'[j][2] = arr[i][2]

\* The cell a plain element is promoted to is new.
LEMMA FreeCellIsNew ==
  ASSUME FInv, NEW k \in Key, Room(k)
  PROVE  /\ FreeCell(k) \in Cell /\ FreeCell(k) \notin held \cup LastCell
         /\ \A i \in DOMAIN arr : arr[i][2] # FreeCell(k)
<1>1. FreeCell(k) \in Cell /\ FreeCell(k) \notin Used
  BY DEF Room, FreeCell, Cell
<1>2. \A i \in DOMAIN arr : arr[i][2] # FreeCell(k)
  BY <1>1, Cells DEF Used, CellsOf
<1>3. QED
  BY <1>1, <1>2 DEF Used

\* The place of a key that is in the array.
LEMMA PosOfKey ==
  ASSUME NEW k \in KeysOf(arr)
  PROVE  Pos(k) \in DOMAIN arr /\ arr[Pos(k)][1] = k
BY DEF KeysOf, Pos

\* Promoting an element gives it a cell nothing else has, unless it had one, and
\* changes no other.
LEMMA Promotion ==
  ASSUME FInv, NEW i \in DOMAIN arr, Room(arr[i][1])
  PROVE  /\ Promoted(i) \in Seq(Entry) /\ DOMAIN Promoted(i) = DOMAIN arr
         /\ \A j \in DOMAIN arr \ {i} : Promoted(i)[j] = arr[j]
         /\ Promoted(i)[i] = <<arr[i][1], CellAt(i)>> /\ CellAt(i) \in Cell
         /\ arr[i][2] # Plain => CellAt(i) = arr[i][2]
         /\ arr[i][2] = Plain => /\ CellAt(i) \notin held \cup LastCell
                                 /\ \A j \in DOMAIN arr : arr[j][2] # CellAt(i)
<1>1. arr \in Seq(Entry) /\ arr[i] \in Entry /\ arr[i][1] \in Key
  BY DEF FInv, Entry
<1>2. CellAt(i) \in Cell
  BY <1>1, FreeCellIsNew DEF CellAt, Entry
<1>3. <<arr[i][1], CellAt(i)>> \in Entry
  BY <1>1, <1>2 DEF Entry
<1>4. Promoted(i) = [j \in DOMAIN arr |-> IF j = i THEN <<arr[i][1], CellAt(i)>> ELSE arr[j]]
  BY DEF Promoted
<1>5. Promoted(i) \in Seq(Entry) /\ DOMAIN Promoted(i) = DOMAIN arr
  BY <1>1, <1>3 DEF Promoted
<1>6. QED
  BY <1>1, <1>2, <1>4, <1>5, FreeCellIsNew DEF CellAt

\* Element i of a has a cell another element has too.
Shared(a, i) == \E j \in DOMAIN a \ {i} : a[j][2] = a[i][2]

\* Promoting an element the loop has not come to, or for an alias: the element is
\* held or let go of, and the others are as before.
LEMMA PromotedKeeps ==
  ASSUME FInv, NEW i \in DOMAIN arr, Room(arr[i][1]), arr' = Promoted(i), last' = last,
         v' \in Cell \cup {Plain}, visited' \subseteq visited \cup {arr[i][1]},
         held \subseteq held', held' \subseteq Cell, stray' \subseteq Cell,
         stray \subseteq held' \cup stray', CellAt(i) \in held' \cup stray'
  PROVE  FInv' /\ Kept
<1> DEFINE cell == CellAt(i)
<1>1. /\ arr' \in Seq(Entry) /\ DOMAIN arr' = DOMAIN arr
      /\ \A j \in DOMAIN arr \ {i} : arr'[j] = arr[j]
      /\ arr'[i] = <<arr[i][1], cell>> /\ cell \in Cell
      /\ arr[i][2] # Plain => cell = arr[i][2]
  BY Promotion
<1> HIDE DEF cell
<1>2. \A j \in DOMAIN arr : arr'[j][1] = arr[j][1]
  BY <1>1
<1>3. KeysDiffer(arr')
  BY <1>1, <1>2 DEF FInv, KeysDiffer
<1>4. ASSUME NEW j \in DOMAIN arr, arr[j][1] \in visited', arr'[j][2] \notin held' \cup stray' \cup {Plain}
      PROVE  arr'[j] = last \/ Shared(arr', j)
  <2>1. j # i
    BY <1>1, <1>4 DEF cell
  <2>2. arr'[j] = arr[j] /\ arr[j][1] \in visited
    BY <1>1, <1>4, <2>1 DEF FInv, KeysDiffer
  <2>3. arr[j] = last \/ Shared(arr, j)
    BY <1>4, <2>2 DEF FInv, RefsAreAliased, Shared
  <2>4. ASSUME NEW l \in DOMAIN arr \ {j}, arr[l][2] = arr[j][2] PROVE arr'[l][2] = arr'[j][2]
    BY <1>1, <1>4, <2>2, <2>4
  <2>5. QED
    BY <1>1, <2>2, <2>3, <2>4 DEF Shared
<1>5. RefsAreAliased'
  BY <1>1, <1>2, <1>4 DEF RefsAreAliased, Shared
<1>6. FInv'
  BY <1>1, <1>3, <1>5 DEF FInv
<1>7. Kept
  <2>1. ASSUME NEW x \in DOMAIN arr, NEW y \in DOMAIN arr',
               arr[x][1] = arr'[y][1], arr[x][2] \in held
        PROVE  arr'[y][2] = arr[x][2]
    <3>1. x = y /\ arr[x][2] # Plain
      BY <1>1, <1>2, <2>1, Cells DEF FInv, KeysDiffer
    <3>2. QED
      BY <1>1, <3>1
  <2>2. QED
    BY <2>1 DEF Kept
<1>8. QED
  BY <1>6, <1>7

\* Visiting an element: the one before is demoted where nothing holds it.
LEMMA VisitKeeps ==
  ASSUME FInv, Visit
  PROVE  FInv' /\ Kept
<1> DEFINE i == Pos(Head(queue))  cell == CellAt(i)  B == Promoted(i)
<1>1. i \in DOMAIN arr /\ arr[i][1] = Head(queue) /\ Room(arr[i][1])
  BY PosOfKey DEF Visit
<1>2. /\ arr' = Demoted(B, last, cell)
      /\ v' = cell /\ last' = <<arr[i][1], cell>> /\ held' = held
      /\ visited' = visited \cup {arr[i][1]} /\ stray' = stray \ {cell}
  BY <1>1 DEF Visit, Take
<1> HIDE DEF i
<1>3. /\ B \in Seq(Entry) /\ DOMAIN B = DOMAIN arr /\ \A j \in DOMAIN arr \ {i} : B[j] = arr[j]
      /\ B[i] = <<arr[i][1], cell>> /\ cell \in Cell
      /\ arr[i][2] # Plain => cell = arr[i][2]
      /\ arr[i][2] = Plain => cell \notin held
  BY <1>1, Promotion
<1> HIDE DEF B, cell
<1>4. arr \in Seq(Entry) /\ \A j \in DOMAIN arr : arr[j] \in Entry
  BY DEF FInv
<1>5. /\ DOMAIN arr' = DOMAIN arr
      /\ \A j \in DOMAIN arr :
           arr'[j] = IF B[j] = last /\ last[2] \notin held \cup {cell} /\ Sole(B, last)
                     THEN <<B[j][1], Plain>> ELSE B[j]
  BY <1>2, <1>3 DEF Demoted
<1>6. arr'[i] = <<arr[i][1], cell>>
  BY <1>1, <1>3, <1>5
<1>7. ASSUME NEW j \in DOMAIN arr, j # i
      PROVE  /\ arr'[j][1] = arr[j][1] /\ arr'[j] \in Entry
             /\ arr'[j] = arr[j] \/ (arr'[j][2] = Plain /\ arr[j][2] \notin held)
  <2>1. B[j] = arr[j] /\ arr[j] \in Entry
    BY <1>3, <1>4, <1>7
  <2>2. CASE B[j] = last /\ last[2] \notin held \cup {cell} /\ Sole(B, last)
    <3>1. arr'[j] = <<arr[j][1], Plain>> /\ arr[j] = last
      BY <1>5, <2>1, <2>2
    <3>2. arr[j][2] \notin held
      BY <2>2, <3>1
    <3>3. arr'[j] \in Entry
      BY <2>1, <3>1 DEF Entry
    <3>4. QED
      BY <3>1, <3>2, <3>3
  <2>3. CASE ~(B[j] = last /\ last[2] \notin held \cup {cell} /\ Sole(B, last))
    <3>1. arr'[j] = arr[j]
      BY <1>5, <2>1, <2>3
    <3>2. QED
      BY <2>1, <3>1
  <2>4. QED
    BY <2>2, <2>3
<1>8. \A j \in DOMAIN arr : arr'[j][1] = arr[j][1] /\ arr'[j] \in Entry
  <2>1. arr'[i][1] = arr[i][1] /\ arr'[i] \in Entry
    BY <1>1, <1>3, <1>4, <1>6 DEF Entry
  <2>2. QED
    BY <1>7, <2>1
<1>9. arr' \in Seq(Entry)
  BY <1>2, <1>3, <1>4, <1>5, <1>8 DEF Demoted
<1>10. KeysDiffer(arr')
  BY <1>5, <1>8 DEF FInv, KeysDiffer
<1>11. ASSUME NEW j \in DOMAIN arr, j # i, arr[j][1] \in visited',
              arr'[j][2] \notin held \cup stray' \cup {Plain}
       PROVE  Shared(arr', j)
  <2>1. arr'[j] = arr[j] /\ B[j] = arr[j]
    BY <1>3, <1>7, <1>11
  <2>2. arr[j][1] \in visited
    BY <1>1, <1>2, <1>11 DEF FInv, KeysDiffer
  <2>3. CASE arr[j][2] = cell
    BY <1>1, <1>5, <1>6, <1>11, <2>1, <2>3 DEF Shared
  <2>4. CASE arr[j] = last /\ arr[j][2] # cell
    <3>1. ~ Sole(B, last)
      <4>1. arr'[j] # <<B[j][1], Plain>>
        BY <1>11
      <4>2. QED
        BY <1>5, <1>11, <2>1, <2>4, <4>1
    <3>2. PICK l \in DOMAIN arr : B[l][2] = last[2] /\ B[l] # last
      BY <1>3, <3>1 DEF Sole
    <3>3. arr'[l] = B[l] /\ l # j
      BY <1>5, <2>1, <2>4, <3>2
    <3>4. QED
      BY <1>5, <2>1, <2>4, <3>2, <3>3 DEF Shared
  <2>5. ASSUME NEW l \in DOMAIN arr \ {j}, arr[l][2] = arr[j][2], arr[j][2] # cell
        PROVE  arr'[l][2] = arr'[j][2]
    <3>1. l # i
      BY <1>3, <1>11, <2>1, <2>5
    <3>2. B[l] = arr[l]
      BY <1>3, <3>1
    <3>3. ~ (B[l] = last /\ Sole(B, last))
      <4>1. B[j] # B[l]
        BY <2>1, <2>5, <3>2 DEF FInv, KeysDiffer
      <4>2. B[j][2] = B[l][2]
        BY <2>1, <2>5, <3>2
      <4>3. QED
        BY <1>3, <4>1, <4>2 DEF Sole
    <3>4. arr'[l] = B[l]
      BY <1>5, <3>3
    <3>5. QED
      BY <2>1, <2>5, <3>2, <3>4
  <2>6. CASE arr[j][2] # cell /\ Shared(arr, j)
    BY <1>5, <2>5, <2>6 DEF Shared
  <2>7. arr[j][2] = cell \/ arr[j] = last \/ Shared(arr, j)
    BY <1>2, <1>11, <2>1, <2>2 DEF FInv, RefsAreAliased, Shared
  <2>8. QED
    BY <2>3, <2>4, <2>6, <2>7
<1>12. RefsAreAliased'
  BY <1>2, <1>5, <1>6, <1>8, <1>11 DEF RefsAreAliased, Shared
<1>13. last' \in Key \X Cell /\ v' \in Cell
  BY <1>1, <1>2, <1>3, <1>4 DEF Entry
<1>14. FInv'
  BY <1>2, <1>9, <1>10, <1>12, <1>13 DEF FInv
<1>15. Kept
  <2>1. ASSUME NEW x \in DOMAIN arr, NEW y \in DOMAIN arr',
               arr[x][1] = arr'[y][1], arr[x][2] \in held
        PROVE  arr'[y][2] = arr[x][2]
    <3>1. x = y
      BY <1>5, <1>8, <2>1 DEF FInv, KeysDiffer
    <3>2. CASE x = i
      BY <1>3, <1>6, <2>1, <3>1, <3>2, Cells DEF FInv
    <3>3. CASE x # i
      BY <1>7, <2>1, <3>1, <3>3
    <3>4. QED
      BY <3>2, <3>3
  <2>2. QED
    BY <2>1 DEF Kept
<1>16. QED
  BY <1>14, <1>15

\* Assigning the key throws: the element is left promoted, and let go of.
LEMMA ThrowKeeps ==
  ASSUME FInv, KeyThrows
  PROVE  FInv' /\ Kept
<1> DEFINE i == Pos(Head(queue))
<1>1. i \in DOMAIN arr /\ arr[i][1] = Head(queue) /\ Room(arr[i][1])
  BY PosOfKey DEF KeyThrows
<1>2. /\ arr' = Promoted(i) /\ stray' = stray \cup {CellAt(i)}
      /\ last' = last /\ v' = v /\ held' = held /\ visited' = visited \cup {arr[i][1]}
  BY <1>1 DEF KeyThrows, Take
<1> HIDE DEF i
<1>3. CellAt(i) \in Cell
  BY <1>1, Promotion
<1>4. QED
  BY <1>1, <1>2, <1>3, PromotedKeeps DEF FInv

\* An alias outside of the loop: the element is promoted, and held from now on.
LEMMA AliasKeeps ==
  ASSUME FInv, NEW k \in Key, Alias(k)
  PROVE  FInv' /\ Kept
<1> DEFINE i == Pos(k)
<1>1. i \in DOMAIN arr /\ arr[i][1] = k /\ Room(arr[i][1])
  BY PosOfKey DEF Alias
<1>2. /\ arr' = Promoted(i) /\ held' = held \cup {CellAt(i)} /\ stray' = stray \ {CellAt(i)}
      /\ v' = v /\ last' = last /\ visited' = visited
  BY DEF Alias, Body
<1> HIDE DEF i
<1>3. CellAt(i) \in Cell
  BY <1>1, Promotion
<1>4. QED
  BY <1>1, <1>2, <1>3, PromotedKeeps DEF FInv

\* A new element is plain.
LEMMA AddKeeps ==
  ASSUME FInv, NEW k \in Key, Add(k)
  PROVE  FInv' /\ Kept
<1>1. /\ arr \in Seq(Entry) /\ arr' = Append(arr, <<k, Plain>>) /\ k \notin KeysOf(arr)
      /\ UNCHANGED <<held, stray, v, last, visited>>
  BY DEF FInv, Add, Body
<1>2. /\ arr' \in Seq(Entry) /\ Len(arr') = Len(arr) + 1
      /\ \A j \in DOMAIN arr : arr'[j] = arr[j]
      /\ arr'[Len(arr) + 1] = <<k, Plain>>
      /\ DOMAIN arr' = DOMAIN arr \cup {Len(arr) + 1}
  BY <1>1 DEF Entry
<1>3. \A j \in DOMAIN arr : arr[j][1] # k
  BY <1>1 DEF KeysOf
<1>4. KeysDiffer(arr')
  BY <1>2, <1>3 DEF FInv, KeysDiffer
<1>5. RefsAreAliased'
  <2>1. ASSUME NEW j \in DOMAIN arr, Shared(arr, j) PROVE Shared(arr', j)
    BY <1>2, <2>1 DEF Shared
  <2>2. QED
    BY <1>1, <1>2, <2>1 DEF FInv, RefsAreAliased, Shared
<1>6. FInv'
  BY <1>1, <1>2, <1>4, <1>5 DEF FInv
<1>7. Kept
  BY <1>2, <1>3 DEF FInv, Kept, KeysDiffer
<1>8. QED
  BY <1>6, <1>7

\* What removing an element makes of a sequence.
LEMMA RemovedFrom ==
  ASSUME NEW S, NEW s \in Seq(S), NEW i \in 1..Len(s)
  PROVE  /\ RemoveAt(s, i) \in Seq(S) /\ Len(RemoveAt(s, i)) = Len(s) - 1
         /\ \A j \in 1..(Len(s) - 1) :
              RemoveAt(s, i)[j] = IF j < i THEN s[j] ELSE s[j + 1]
<1> DEFINE front == SubSeq(s, 1, i - 1)
           back == SubSeq(s, i + 1, Len(s))
<1>1. /\ front \in Seq(S) /\ Len(front) = i - 1
      /\ \A j \in 1..(i - 1) : front[j] = s[j]
  OBVIOUS
<1>2. /\ back \in Seq(S) /\ Len(back) = Len(s) - i
      /\ \A j \in 1..(Len(s) - i) : back[j] = s[i + j]
  OBVIOUS
<1>3. RemoveAt(s, i) = front \o back
  BY DEF RemoveAt
<1> HIDE DEF front, back
<1>4. /\ front \o back \in Seq(S) /\ Len(front \o back) = Len(s) - 1
      /\ \A j \in 1..(Len(s) - 1) :
           (front \o back)[j] = IF j < i THEN front[j] ELSE back[j - (i - 1)]
  <2>1. Len(s) \in Nat /\ i \in Nat
    OBVIOUS
  <2>2. /\ front \o back \in Seq(S) /\ Len(front \o back) = Len(front) + Len(back)
        /\ \A j \in 1..(Len(front) + Len(back)) :
             (front \o back)[j] = IF j <= Len(front) THEN front[j] ELSE back[j - Len(front)]
    BY <1>1, <1>2, ConcatProperties
  <2>3. QED
    BY <1>1, <1>2, <2>1, <2>2
<1>5. ASSUME NEW j \in 1..(Len(s) - 1)
      PROVE  (front \o back)[j] = IF j < i THEN s[j] ELSE s[j + 1]
  <2>1. CASE j < i
    BY <1>1, <1>4, <2>1
  <2>2. CASE ~(j < i)
    <3>1. j - (i - 1) \in 1..(Len(s) - i) /\ i + (j - (i - 1)) = j + 1
      BY <2>2
    <3>2. QED
      BY <1>2, <1>4, <2>2, <3>1
  <2>3. QED
    BY <2>1, <2>2
<1>6. QED
  BY <1>3, <1>4, <1>5

\* Removing an element moves those behind it forward and changes none; what it
\* alone shared a cell with has been let go of.
LEMMA UnsetKeeps ==
  ASSUME FInv, NEW k \in Key, UnsetKey(k)
  PROVE  FInv' /\ Kept
<1> DEFINE i == Pos(k)
<1>1. i \in DOMAIN arr
  BY PosOfKey DEF UnsetKey
<1>2. arr \in Seq(Entry) /\ arr' = RemoveAt(arr, i)
  BY DEF FInv, UnsetKey
<1>U. /\ UNCHANGED <<held, v, last, visited>>
      /\ stray' = (stray \cup ({arr[i][2]} \ held)) \cap CellsOf(arr')
  BY DEF UnsetKey, Body
<1> HIDE DEF i
<1>3. /\ arr' \in Seq(Entry) /\ Len(arr') = Len(arr) - 1
      /\ \A j \in 1..(Len(arr) - 1) : arr'[j] = IF j < i THEN arr[j] ELSE arr[j + 1]
  BY <1>1, <1>2, RemovedFrom
<1> DEFINE from(j) == IF j < i THEN j ELSE j + 1
           to(j) == IF j < i THEN j ELSE j - 1
<1>4. /\ \A j \in DOMAIN arr' : from(j) \in DOMAIN arr /\ arr'[j] = arr[from(j)]
      /\ \A j, l \in DOMAIN arr' : from(j) = from(l) => j = l
      /\ \A j \in DOMAIN arr \ {i} : to(j) \in DOMAIN arr' /\ from(to(j)) = j
  BY <1>1, <1>3, <1>2
<1> HIDE DEF from, to
<1>5. KeysDiffer(arr')
  BY <1>4 DEF FInv, KeysDiffer
<1>6. CellsOf(arr') \subseteq Cell
  BY <1>3 DEF CellsOf, Entry
<1>7. ASSUME NEW j \in DOMAIN arr', arr'[j][1] \in visited,
             arr'[j][2] \notin held \cup stray' \cup {Plain}, arr'[j] # last
      PROVE  Shared(arr', j)
  <2>1. arr'[j] = arr[from(j)] /\ from(j) \in DOMAIN arr /\ arr'[j][2] \in CellsOf(arr')
    BY <1>4, <1>7 DEF CellsOf
  <2>2. arr'[j][2] \notin stray /\ arr'[j][2] # arr[i][2]
    BY <1>U, <1>7, <2>1
  <2>3. PICK l \in DOMAIN arr \ {from(j)} : arr[l][2] = arr[from(j)][2]
    BY <1>7, <2>1, <2>2 DEF FInv, RefsAreAliased
  <2>4. l # i
    BY <2>1, <2>2, <2>3
  <2>5. to(l) \in DOMAIN arr' /\ to(l) # j /\ arr'[to(l)] = arr[l]
    BY <1>4, <2>3, <2>4
  <2>6. QED
    BY <2>1, <2>3, <2>5 DEF Shared
<1>8. RefsAreAliased'
  BY <1>U, <1>7 DEF RefsAreAliased, Shared
<1>9. FInv'
  BY <1>U, <1>3, <1>5, <1>6, <1>8 DEF FInv
<1>10. Kept
  BY <1>4 DEF FInv, Kept, KeysDiffer
<1>11. QED
  BY <1>9, <1>10

\* A step that leaves the array alone, and no element with less to hold it.
LEMMA SameArray ==
  ASSUME FInv, UNCHANGED <<arr, last>>, v' \in {v, Plain},
         held' \subseteq Cell, stray' \subseteq Cell,
         \A i \in DOMAIN arr : arr[i][1] \in visited' => arr[i][1] \in visited,
         \A i \in DOMAIN arr : arr[i][2] \in held \cup stray =>
           arr[i][2] \in held' \cup stray' \/ arr[i] = last \/ Shared(arr, i)
  PROVE  FInv' /\ Kept
<1>1. RefsAreAliased'
  BY DEF FInv, RefsAreAliased, Shared
<1>2. FInv'
  BY <1>1 DEF FInv, KeysDiffer
<1>3. Kept
  BY DEF FInv, Kept, KeysDiffer
<1>4. QED
  BY <1>2, <1>3

\* Letting go of a cell: its element has been let go of, unless the loop is there.
LEMMA DropKeeps ==
  ASSUME FInv, NEW c \in held, Drop(c)
  PROVE  FInv' /\ Kept
<1>1. UNCHANGED <<arr, last, v, visited>> /\ held' = held \ {c} /\ c \in Cell
  BY DEF Drop, Body, FInv
<1>2. stray \subseteq stray' /\ stray' \subseteq Cell
  BY <1>1 DEF Drop, FInv
<1>3. ASSUME NEW i \in DOMAIN arr, arr[i][2] = c, arr[i] # last, c \notin stray'
      PROVE  Shared(arr, i)
  <2>1. c \in CellsOf(arr)
    BY <1>1, <1>3, Cells DEF CellsOf
  <2>2. c \in LastCell /\ \E j \in DOMAIN arr : arr[j] = last
    BY <1>3, <2>1 DEF Drop
  <2>3. PICK j \in DOMAIN arr : arr[j] = last
    BY <2>2
  <2>4. last[2] = c
    BY <2>2 DEF LastCell
  <2>5. QED
    BY <1>3, <2>3, <2>4 DEF Shared
<1>4. QED
  BY <1>1, <1>2, <1>3, SameArray DEF FInv

\* Every step keeps the invariant and the cells other variables hold.
LEMMA StepKeeps ==
  ASSUME FInv, [Next]_vars
  PROVE  FInv' /\ Kept
<1>1. CASE Visit
  BY <1>1, VisitKeeps
<1>2. CASE KeyThrows
  BY <1>2, ThrowKeeps
<1>3. CASE Skip \/ Rescan \/ Finish \/ Rebind \/ EndBody \/ Leave \/ UNCHANGED vars
  <2>1. UNCHANGED <<arr, last, held, stray>> /\ v' \in {v, Plain}
    BY <1>3 DEF Skip, Take, Rescan, Finish, Rebind, EndBody, Leave, Body, vars
  <2>2. \A i \in DOMAIN arr : arr[i][1] \in visited' => arr[i][1] \in visited
    BY <1>3 DEF Skip, Take, KeysOf, Rescan, Finish, Rebind, EndBody, Leave, Body, vars
  <2>3. QED
    BY <2>1, <2>2, SameArray DEF FInv
<1>4. ASSUME NEW k \in Key, Add(k) \/ UnsetKey(k) \/ Alias(k) PROVE FInv' /\ Kept
  BY <1>4, AddKeeps, UnsetKeeps, AliasKeeps
<1>5. ASSUME NEW c \in held, Drop(c) PROVE FInv' /\ Kept
  BY <1>5, DropKeeps
<1>6. CASE Capture
  <2>1. /\ UNCHANGED <<arr, last, v, visited>> /\ v # Plain
        /\ held' = held \cup {v} /\ stray' = stray \ {v}
    BY <1>6 DEF Capture, Body
  <2>2. QED
    BY <2>1, SameArray DEF FInv
<1>7. QED
  BY <1>1, <1>2, <1>3, <1>4, <1>5, <1>6 DEF Next, Loop, Ended

\* Before the loop it has been at no element.
LEMMA InitFInv == Init => FInv
<1> SUFFICES ASSUME Init PROVE FInv
  OBVIOUS
<1>1. PICK cells \in [DOMAIN Start -> OldCell \cup {Plain}] :
        arr = [i \in DOMAIN Start |-> <<Start[i], cells[i]>>]
  BY DEF Init
<1>2. arr \in Seq(Entry)
  BY <1>1, StartKeys, Cells DEF Entry
<1>3. KeysDiffer(arr)
  BY <1>1, StartKeys DEF IsInjective, KeysDiffer
<1>4. QED
  BY <1>2, <1>3, Cells DEF Init, FInv, RefsAreAliased

\* Whatever references the array starts with, and whatever the body adds, removes,
\* aliases and drops: an element the loop has been at is left a reference only where
\* another variable or element holds the cell, at the element visited last, and
\* where the last holder let go when the loop had moved on.
THEOREM ReferencesAreCounted == Spec => []RefsAreAliased
<1>1. FInv => RefsAreAliased
  BY DEF FInv
<1>2. FInv /\ [Next]_vars => FInv'
  BY StepKeeps
<1>3. QED
  BY <1>1, <1>2, InitFInv, PTL DEF Spec

\* An element another variable aliases keeps its cell as long as it is in the
\* array: unwrap_element never takes it for an element nothing else has.
THEOREM AliasedElementsKeepCells == Spec => AliasesSurvive
<1>1. FInv /\ [Next]_vars => FInv'
  BY StepKeeps
<1>2. FInv /\ [Next]_vars =>
        [\A i \in DOMAIN arr, j \in DOMAIN arr' :
           arr[i][1] = arr'[j][1] /\ arr[i][2] \in held => arr'[j][2] = arr[i][2]]_vars
  BY StepKeeps DEF Kept
<1>3. QED
  BY <1>1, <1>2, InitFInv, PTL DEF Spec, AliasesSurvive

----------------------------------------------------------------------------
(* The queue. *)

\* What is kept of the first n keys.
KeptOf(ks, S, g, n) ==
  g = [i \in 0..n |-> IF i = 0 THEN <<>>
                      ELSE IF ks[i] \in S THEN g[i - 1] ELSE Append(g[i - 1], ks[i])]

\* The recursion of Without has a solution.
LEMMA KeptExists ==
  ASSUME NEW K, NEW ks \in Seq(K), NEW S
  PROVE  \E g : KeptOf(ks, S, g, Len(ks))
<1> DEFINE n == Len(ks)
           T == {k \in 0..n : \E g : KeptOf(ks, S, g, k)}
<1>1. n \in Nat
  OBVIOUS
<1>2. 0 \in T
  <2>1. KeptOf(ks, S, [i \in 0..0 |-> <<>>], 0)
    BY DEF KeptOf
  <2>2. QED
    BY <1>1, <2>1
<1>3. ASSUME NEW k \in 0..n, k \in T, k + 1 <= n PROVE k + 1 \in T
  <2>1. PICK g : KeptOf(ks, S, g, k)
    BY <1>3
  <2> DEFINE new == IF ks[k + 1] \in S THEN g[k] ELSE Append(g[k], ks[k + 1])
             h == [i \in 0..(k + 1) |-> IF i = k + 1 THEN new ELSE g[i]]
  <2>2. \A i \in 0..k : g[i] = IF i = 0 THEN <<>>
                               ELSE IF ks[i] \in S THEN g[i - 1] ELSE Append(g[i - 1], ks[i])
    BY <2>1 DEF KeptOf
  <2>3. \A i \in 0..(k + 1) : h[i] = IF i = 0 THEN <<>>
                               ELSE IF ks[i] \in S THEN h[i - 1] ELSE Append(h[i - 1], ks[i])
    BY <1>1, <2>2
  <2>4. KeptOf(ks, S, h, k + 1)
    BY <2>3 DEF KeptOf
  <2>5. QED
    BY <1>3, <2>4
<1>4. T = 0..n
  <2>1. T \in SUBSET (0..n)
    OBVIOUS
  <2> HIDE DEF T, n
  <2> QED
    BY <1>1, <1>2, <1>3, <2>1, InductionUpTo
<1>5. n \in T
  BY <1>1, <1>4
<1>6. QED
  BY <1>5

\* Without keeps exactly the keys that are not in S, each as often as it was.
LEMMA WithoutKeeps ==
  ASSUME NEW K, NEW ks \in Seq(K), NEW S, IsInjective(ks)
  PROVE  /\ Without(ks, S) \in Seq(K) /\ IsInjective(Without(ks, S))
         /\ \A x : (\E i \in DOMAIN Without(ks, S) : Without(ks, S)[i] = x)
                     <=> x \notin S /\ \E i \in DOMAIN ks : ks[i] = x
<1> DEFINE n == Len(ks)
           f == CHOOSE g : KeptOf(ks, S, g, n)
           Good(k) == /\ f[k] \in Seq(K) /\ IsInjective(f[k])
                      /\ \A x : (\E i \in DOMAIN f[k] : f[k][i] = x)
                                  <=> x \notin S /\ \E i \in 1..k : ks[i] = x
           T == {k \in 0..n : Good(k)}
<1>1. n \in Nat /\ DOMAIN ks = 1..n /\ \A i \in 1..n : ks[i] \in K
  OBVIOUS
<1>2. Without(ks, S) = f[n]
  BY DEF Without, KeptOf
<1>3. KeptOf(ks, S, f, n)
  BY KeptExists
<1> HIDE DEF f
<1>4. \A i \in 0..n : f[i] = IF i = 0 THEN <<>>
                             ELSE IF ks[i] \in S THEN f[i - 1] ELSE Append(f[i - 1], ks[i])
  BY <1>3 DEF KeptOf
<1>5. Good(0)
  <2>1. f[0] = <<>>
    BY <1>1, <1>4
  <2>2. QED
    BY <2>1 DEF IsInjective
<1>6. ASSUME NEW k \in 0..n, Good(k), k + 1 <= n PROVE Good(k + 1)
  <2>1. k + 1 \in 0..n /\ k + 1 \in 1..n /\ k + 1 # 0 /\ (k + 1) - 1 = k
    BY <1>1, <1>6
  <2>2. f[k + 1] = IF ks[k + 1] \in S THEN f[k] ELSE Append(f[k], ks[k + 1])
    BY <1>4, <2>1
  <2>3. \A x : (\E i \in 1..(k + 1) : ks[i] = x) <=> (\E i \in 1..k : ks[i] = x) \/ x = ks[k + 1]
    BY <2>1
  <2>4. CASE ks[k + 1] \in S
    BY <1>6, <2>2, <2>3, <2>4
  <2>5. CASE ks[k + 1] \notin S
    <3>1. f[k + 1] = Append(f[k], ks[k + 1]) /\ f[k] \in Seq(K) /\ ks[k + 1] \in K
      BY <1>1, <1>6, <2>1, <2>2, <2>5
    <3>2. /\ f[k + 1] \in Seq(K) /\ DOMAIN f[k + 1] = DOMAIN f[k] \cup {Len(f[k]) + 1}
          /\ \A i \in DOMAIN f[k] : f[k + 1][i] = f[k][i]
          /\ f[k + 1][Len(f[k]) + 1] = ks[k + 1]
      BY <3>1
    <3>3. \A x : (\E i \in DOMAIN f[k + 1] : f[k + 1][i] = x)
                   <=> (\E i \in DOMAIN f[k] : f[k][i] = x) \/ x = ks[k + 1]
      BY <3>2
    <3>4. ~ \E i \in 1..k : ks[i] = ks[k + 1]
      BY <1>1, <2>1 DEF IsInjective
    <3>5. ~ \E i \in DOMAIN f[k] : f[k][i] = ks[k + 1]
      BY <1>6, <3>4
    <3>6. IsInjective(f[k + 1])
      BY <1>6, <3>2, <3>5 DEF IsInjective
    <3>7. \A x : (\E i \in DOMAIN f[k + 1] : f[k + 1][i] = x)
                   <=> x \notin S /\ \E i \in 1..(k + 1) : ks[i] = x
      BY <1>6, <2>3, <2>5, <3>3
    <3>8. QED
      BY <3>2, <3>6, <3>7
  <2>6. QED
    BY <2>4, <2>5
<1>7. T = 0..n
  <2> HIDE DEF Good
  <2>1. T \in SUBSET (0..n) /\ 0 \in T
    BY <1>1, <1>5
  <2>2. \A k \in 0..n : k \in T /\ k + 1 <= n => k + 1 \in T
    <3>1. ASSUME NEW k \in 0..n, k \in T, k + 1 <= n PROVE k + 1 \in T
      <4>1. Good(k) /\ k + 1 \in 0..n
        BY <1>1, <3>1
      <4>2. QED
        BY <1>6, <3>1, <4>1
    <3>2. QED
      BY <3>1
  <2> HIDE DEF T, n
  <2> QED
    BY <1>1, <2>1, <2>2, InductionUpTo
<1>8. Good(n)
  BY <1>1, <1>7
<1>9. QED
  BY <1>1, <1>2, <1>8

----------------------------------------------------------------------------
(* Every key is visited once. *)

Queued(q, k) == \E j \in DOMAIN q : q[j] = k

\* What is queued has not been visited, and is queued once; in a loop that
\* removes nothing, every key in front of the cursor is visited or queued.
QInv ==
  /\ queue \in Seq(Key) /\ IsInjective(queue)
  /\ visited \subseteq Key /\ \A k \in visited : ~ Queued(queue, k)
  /\ scan_pos \in Nat /\ appended \in Nat /\ removes \in BOOLEAN
  /\ pc \in {"loop", "body", "done", "left"}
  /\ ~removes => /\ scan_pos <= Len(arr)
                 /\ \A i \in 1..scan_pos : arr[i][1] \in visited \/ Queued(queue, arr[i][1])
  /\ ~removes /\ pc = "done" /\ appended < MaxLiveAppends => KeysOf(arr) \subseteq visited

\* What a step does to the keys of the array, if it removes none.
KeysStay ==
  /\ Len(arr) <= Len(arr')
  /\ \A i \in DOMAIN arr : i \in DOMAIN arr' /\ arr'[i][1] = arr[i][1]

\* The keys Found returns are those behind the cursor that are not visited.
LEMMA FoundIs ==
  ASSUME FInv, QInv
  PROVE  /\ Found \in Seq(Key) /\ IsInjective(Found)
         /\ \A k : (\E i \in DOMAIN Found : Found[i] = k)
                     <=> k \notin visited /\ \E i \in (scan_pos + 1)..Len(arr) : arr[i][1] = k
<1> DEFINE behind == SubSeq(arr, scan_pos + 1, Len(arr))
           ks == [i \in DOMAIN behind |-> behind[i][1]]
           n == IF scan_pos <= Len(arr) THEN Len(arr) - scan_pos ELSE 0
<1>1. arr \in Seq(Entry) /\ KeysDiffer(arr) /\ scan_pos \in Nat /\ Len(arr) \in Nat
      /\ \A i \in DOMAIN arr : arr[i] \in Entry
  BY DEF FInv, QInv
<1>2. Len(behind) = n /\ DOMAIN behind = 1..n /\ \A i \in 1..n : behind[i] = arr[scan_pos + i]
  BY <1>1
<1>3. DOMAIN ks = 1..n /\ \A i \in 1..n : ks[i] = arr[scan_pos + i][1] /\ ks[i] \in Key
  BY <1>1, <1>2 DEF Entry
<1>4. n \in Nat /\ (\A i \in 1..n : scan_pos + i \in DOMAIN arr)
      /\ (\A i \in (scan_pos + 1)..Len(arr) : i - scan_pos \in 1..n /\ scan_pos + (i - scan_pos) = i)
      /\ (\A i \in 1..n : scan_pos + i \in (scan_pos + 1)..Len(arr))
      /\ (\A i, j \in 1..n : scan_pos + i = scan_pos + j => i = j)
  BY <1>1
<1>5. Found = Without(ks, visited)
  BY DEF Found
<1> HIDE DEF n, behind
<1>6. ks \in Seq(Key)
  <2>1. ks = [i \in 1..n |-> ks[i]]
    BY <1>2
  <2>2. QED
    BY <1>3, <1>4, <2>1
<1> HIDE DEF ks
<1>7. IsInjective(ks)
  <2>1. ASSUME NEW i \in 1..n, NEW j \in 1..n, ks[i] = ks[j] PROVE i = j
    <3>1. arr[scan_pos + i][1] = arr[scan_pos + j][1]
      BY <1>3, <2>1
    <3>2. scan_pos + i = scan_pos + j
      BY <1>1, <1>4, <3>1 DEF KeysDiffer
    <3>3. QED
      BY <1>4, <3>2
  <2>2. QED
    BY <1>3, <2>1 DEF IsInjective
<1>8. \A k : (\E i \in DOMAIN ks : ks[i] = k)
               <=> \E i \in (scan_pos + 1)..Len(arr) : arr[i][1] = k
  BY <1>3, <1>4
<1>9. /\ Found \in Seq(Key) /\ IsInjective(Found)
      /\ \A x : (\E i \in DOMAIN Found : Found[i] = x)
                  <=> x \notin visited /\ \E i \in DOMAIN ks : ks[i] = x
  <2>1. LET W == Without(ks, visited)
        IN /\ W \in Seq(Key) /\ IsInjective(W)
           /\ \A x : (\E i \in DOMAIN W : W[i] = x)
                       <=> x \notin visited /\ \E i \in DOMAIN ks : ks[i] = x
    BY <1>6, <1>7, WithoutKeeps
  <2> HIDE DEF n
  <2>2. QED
    BY <1>5, <2>1, Zenon
<1>10. QED
  BY <1>8, <1>9

\* Steps that take keys from the queue.
LEMMA TakeKeeps ==
  ASSUME FInv, QInv, Visit \/ Skip \/ KeyThrows, Len(arr') = Len(arr),
         \A i \in DOMAIN arr : arr'[i][1] = arr[i][1]
  PROVE  QInv' /\ Head(queue) \notin visited
<1> DEFINE k == Head(queue)
<1>1. /\ queue \in Seq(Key) /\ queue # <<>> /\ queue' = Tail(queue)
      /\ visited' = visited \cup {k} /\ pc' \in {"loop", "body", "left"}
      /\ UNCHANGED <<removes, scan_pos, appended>> /\ pc = "loop"
  BY DEF QInv, Visit, Skip, KeyThrows, Take
<1>2. k = queue[1] /\ k \in Key /\ Len(queue') = Len(queue) - 1 /\ queue' \in Seq(Key)
      /\ 1 \in DOMAIN queue /\ \A j \in DOMAIN queue' : queue'[j] = queue[j + 1] /\ j + 1 \in DOMAIN queue
  BY <1>1
<1>3. k \notin visited
  BY <1>2 DEF QInv, Queued
<1>4. \A x : Queued(queue, x) <=> Queued(queue', x) \/ x = k
  <2>1. ASSUME NEW j \in DOMAIN queue, j # 1 PROVE j - 1 \in DOMAIN queue' /\ queue'[j - 1] = queue[j]
    BY <1>1, <1>2, <2>1
  <2>2. QED
    BY <1>2, <2>1 DEF Queued
<1>5. ~ Queued(queue', k)
  <2>1. ASSUME NEW j \in DOMAIN queue' PROVE queue'[j] # k
    <3>1. j + 1 \in DOMAIN queue /\ j + 1 # 1 /\ queue'[j] = queue[j + 1]
      BY <1>1, <1>2
    <3>2. QED
      BY <1>2, <3>1 DEF QInv, IsInjective
  <2>2. QED
    BY <2>1 DEF Queued
<1>6. IsInjective(queue')
  BY <1>1, <1>2 DEF QInv, IsInjective
<1>7. \A x \in visited' : ~ Queued(queue', x)
  BY <1>1, <1>4, <1>5 DEF QInv
<1>8. ~removes' => /\ scan_pos' <= Len(arr')
                   /\ \A i \in 1..scan_pos' : arr'[i][1] \in visited' \/ Queued(queue', arr'[i][1])
  <2>1. ASSUME ~removes, NEW i \in 1..scan_pos
        PROVE  arr'[i][1] \in visited' \/ Queued(queue', arr'[i][1])
    <3>1. i \in DOMAIN arr /\ (arr[i][1] \in visited \/ Queued(queue, arr[i][1]))
      BY <2>1 DEF QInv, FInv
    <3>2. QED
      BY <1>1, <1>4, <3>1
  <2>2. QED
    BY <1>1, <2>1 DEF QInv
<1>9. QInv'
  BY <1>1, <1>2, <1>6, <1>7, <1>8 DEF QInv
<1>10. QED
  BY <1>3, <1>9

\* A round of keys found behind the cursor.
LEMMA RescanKeeps ==
  ASSUME FInv, QInv, Rescan
  PROVE  QInv'
<1>1. /\ queue' = Found /\ scan_pos' = Len(arr) /\ pc' = pc /\ pc = "loop" /\ queue = <<>>
      /\ UNCHANGED <<removes, arr, visited>> /\ appended' = appended + Len(Found)
      /\ Len(arr) \in Nat
  BY DEF Rescan, FInv
<1>2. appended' \in Nat
  BY <1>1, FoundIs DEF QInv
<1>3. \A x \in visited' : ~ Queued(queue', x)
  BY <1>1, FoundIs DEF Queued
<1>4. ASSUME ~removes, NEW i \in 1..Len(arr)
      PROVE  arr[i][1] \in visited \/ Queued(queue', arr[i][1])
  <2>1. CASE i <= scan_pos
    <3>1. i \in 1..scan_pos /\ ~ Queued(queue, arr[i][1])
      BY <1>1, <2>1 DEF QInv, Queued
    <3>2. QED
      BY <1>4, <3>1 DEF QInv
  <2>2. CASE ~(i <= scan_pos)
    <3>1. i \in (scan_pos + 1)..Len(arr)
      BY <2>2, <1>1 DEF QInv
    <3>2. QED
      BY <1>1, <3>1, FoundIs DEF Queued
  <2>3. QED
    BY <2>1, <2>2
<1>5. QED
  BY <1>1, <1>2, <1>3, <1>4, FoundIs DEF QInv

\* The loop ends when nothing is queued and nothing found, or at its cap.
LEMMA FinishKeeps ==
  ASSUME FInv, QInv, Finish
  PROVE  QInv'
<1>1. /\ UNCHANGED <<removes, arr, queue, visited, scan_pos, appended>> /\ queue = <<>> /\ pc' = "done"
      /\ appended >= MaxLiveAppends \/ Found = <<>>
  BY DEF Finish
<1>2. ASSUME ~removes, appended < MaxLiveAppends, NEW i \in DOMAIN arr PROVE arr[i][1] \in visited
  <2>1. Found = <<>>
    BY <1>1, <1>2, LoopBounds DEF QInv
  <2>2. CASE i <= scan_pos
    <3>1. i \in 1..scan_pos /\ ~ Queued(queue, arr[i][1])
      BY <1>1, <2>2 DEF QInv, FInv, Queued
    <3>2. QED
      BY <1>2, <3>1 DEF QInv
  <2>3. CASE ~(i <= scan_pos)
    <3>1. i \in (scan_pos + 1)..Len(arr)
      BY <2>3 DEF QInv, FInv
    <3>2. QED
      BY <2>1, <3>1, FoundIs
  <2>4. QED
    BY <2>2, <2>3
<1>3. \A k : Queued(queue', k) <=> Queued(queue, k)
  BY <1>1 DEF Queued
<1>4. QED
  BY <1>1, <1>2, <1>3 DEF QInv, KeysOf

\* The body changes the array only; unless it removes, keys keep their places.
LEMMA BodyKeeps ==
  ASSUME FInv, QInv, UNCHANGED <<removes, queue, visited, scan_pos, appended>>,
         pc' \in {"loop", "body", "left"}, removes \/ KeysStay, arr' \in Seq(Entry)
  PROVE  QInv'
<1>1. \A k : Queued(queue', k) <=> Queued(queue, k)
  BY DEF Queued
<1>2. ASSUME ~removes
      PROVE  /\ scan_pos <= Len(arr')
             /\ \A i \in 1..scan_pos : arr'[i][1] \in visited \/ Queued(queue, arr'[i][1])
  <2>1. scan_pos <= Len(arr) /\ Len(arr) <= Len(arr') /\ Len(arr) \in Nat /\ Len(arr') \in Nat
    BY <1>2 DEF QInv, FInv, KeysStay
  <2>2. \A i \in 1..scan_pos : i \in DOMAIN arr
    BY <2>1 DEF QInv, FInv
  <2>3. QED
    BY <1>2, <2>1, <2>2 DEF QInv, KeysStay
<1>3. QED
  BY <1>1, <1>2 DEF QInv

\* Adding and aliasing leave the keys where they are.
LEMMA BodyKeys ==
  ASSUME FInv, NEW k \in Key, Add(k) \/ Alias(k)
  PROVE  KeysStay
<1>1. CASE Add(k)
  <2>1. arr \in Seq(Entry) /\ arr' = Append(arr, <<k, Plain>>)
    BY <1>1 DEF FInv, Add
  <2>2. QED
    BY <2>1 DEF KeysStay
<1>2. CASE Alias(k)
  <2>1. Pos(k) \in DOMAIN arr /\ arr' = Promoted(Pos(k)) /\ Room(arr[Pos(k)][1])
    BY <1>2, PosOfKey DEF Alias
  <2>2. arr \in Seq(Entry) /\ arr' \in Seq(Entry) /\ DOMAIN arr' = DOMAIN arr
        /\ \A j \in DOMAIN arr : arr'[j][1] = arr[j][1]
    BY <2>1, Promotion DEF FInv
  <2>3. Len(arr') = Len(arr)
    BY <2>2
  <2>4. QED
    BY <2>2, <2>3 DEF KeysStay
<1>3. QED
  BY <1>1, <1>2

\* Promoting the next element does as well, whether the body runs or not.
LEMMA VisitKeys ==
  ASSUME FInv, Visit \/ KeyThrows
  PROVE  Len(arr') = Len(arr) /\ \A i \in DOMAIN arr : arr'[i][1] = arr[i][1]
<1> DEFINE i == Pos(Head(queue))
<1>1. i \in DOMAIN arr /\ Room(arr[i][1])
      /\ (arr' = Demoted(Promoted(i), last, CellAt(i)) \/ arr' = Promoted(i))
  BY PosOfKey DEF Visit, KeyThrows
<1> HIDE DEF i
<1>2. /\ arr \in Seq(Entry) /\ DOMAIN Promoted(i) = DOMAIN arr
      /\ \A j \in DOMAIN arr : Promoted(i)[j][1] = arr[j][1]
  BY <1>1, Promotion DEF FInv
<1>3. DOMAIN arr' = DOMAIN arr /\ \A j \in DOMAIN arr : arr'[j][1] = arr[j][1]
  BY <1>1, <1>2 DEF Demoted
<1>4. arr' \in Seq(Entry)
  BY VisitKeeps, ThrowKeeps DEF FInv
<1>5. QED
  BY <1>2, <1>3, <1>4

\* No step visits a visited key or loses one.
LEMMA StepQueues ==
  ASSUME FInv, QInv, [Next]_vars
  PROVE  QInv' /\ (pc = "loop" /\ pc' = "body" => Head(queue) \notin visited)
<1>0. FInv' /\ arr' \in Seq(Entry)
  BY StepKeeps DEF FInv
<1>1. CASE Visit \/ Skip \/ KeyThrows
  <2>1. Len(arr') = Len(arr) /\ \A i \in DOMAIN arr : arr'[i][1] = arr[i][1]
    BY <1>1, VisitKeys DEF Skip
  <2>2. QED
    BY <1>1, <2>1, TakeKeeps
<1>2. CASE Rescan
  BY <1>2, RescanKeeps DEF Rescan
<1>3. CASE Finish
  BY <1>3, FinishKeeps DEF Finish
<1>4. ASSUME NEW k \in Key, Add(k) \/ Alias(k) PROVE QInv' /\ pc = "body"
  <2>1. UNCHANGED <<removes, queue, visited, scan_pos, appended>> /\ pc = "body" /\ pc' = "body"
    BY <1>4 DEF Add, Alias, Body
  <2>2. KeysStay
    BY <1>4, BodyKeys
  <2>3. QED
    BY <1>0, <2>1, <2>2, BodyKeeps
<1>5. ASSUME NEW k \in Key, UnsetKey(k) PROVE QInv' /\ pc = "body"
  <2>1. UNCHANGED <<removes, queue, visited, scan_pos, appended>> /\ pc = "body" /\ pc' = "body" /\ removes
    BY <1>5 DEF UnsetKey, Body
  <2>2. QED
    BY <1>0, <2>1, BodyKeeps
<1>6. ASSUME Capture \/ Rebind \/ EndBody \/ Leave \/ \E c \in held : Drop(c)
      PROVE  QInv' /\ pc = "body"
  <2>1. /\ UNCHANGED <<removes, queue, visited, scan_pos, appended, arr>> /\ pc = "body"
        /\ pc' \in {"loop", "body", "left"}
    BY <1>6 DEF Capture, Rebind, EndBody, Leave, Drop, Body
  <2>2. KeysStay
    BY <2>1 DEF KeysStay, FInv
  <2>3. QED
    BY <1>0, <2>1, <2>2, BodyKeeps
<1>7. CASE UNCHANGED vars
  <2>1. UNCHANGED <<removes, queue, visited, scan_pos, appended, arr, pc>>
    BY <1>7 DEF vars
  <2>2. \A k : Queued(queue', k) <=> Queued(queue, k)
    BY <2>1 DEF Queued
  <2>3. QED
    BY <2>1, <2>2 DEF QInv, KeysOf
<1>8. QED
  BY <1>1, <1>2, <1>3, <1>4, <1>5, <1>6, <1>7 DEF Next, Loop, Ended

\* Before the loop every key is queued.
LEMMA InitQueue == Init => QInv
<1> SUFFICES ASSUME Init PROVE QInv
  OBVIOUS
<1>1. /\ (\E cells : arr = [i \in DOMAIN Start |-> <<Start[i], cells[i]>>]) /\ queue = Start
      /\ visited = {} /\ scan_pos = Len(Start) /\ appended = 0 /\ pc = "loop" /\ removes \in BOOLEAN
  BY DEF Init
<1>2. Len(arr) = Len(Start) /\ \A i \in 1..scan_pos : arr[i][1] = queue[i] /\ i \in DOMAIN queue
  BY <1>1, StartKeys
<1>3. \A i \in 1..scan_pos : Queued(queue, arr[i][1])
  BY <1>2 DEF Queued
<1>4. Len(Start) \in Nat /\ pc # "done"
  BY <1>1, StartKeys
<1>5. /\ queue \in Seq(Key) /\ IsInjective(queue) /\ visited \subseteq Key
      /\ scan_pos \in Nat /\ appended \in Nat /\ removes \in BOOLEAN
      /\ pc \in {"loop", "body", "done", "left"} /\ scan_pos <= Len(arr)
  BY <1>1, <1>2, <1>4, StartKeys
<1>6. \A k \in visited : ~ Queued(queue, k)
  BY <1>1
<1>7. QED
  BY <1>3, <1>4, <1>5, <1>6 DEF QInv

\* The fields are what their names say.
THEOREM ForeachTypes == Spec => []TypeOK
<1>1. FInv /\ QInv => TypeOK
  <2>1. SUFFICES ASSUME FInv, QInv PROVE TypeOK
    OBVIOUS
  <2>2. IsInjective([i \in DOMAIN arr |-> arr[i][1]])
    BY <2>1 DEF FInv, KeysDiffer, IsInjective
  <2>3. v \in Cell \cup {Plain}
    BY <2>1 DEF FInv, LastCell
  <2>4. QED
    BY <2>1, <2>2, <2>3 DEF FInv, QInv, TypeOK, Entry
<1>2. FInv /\ QInv /\ [Next]_vars => FInv' /\ QInv'
  BY StepKeeps, StepQueues
<1>3. QED
  BY <1>1, <1>2, InitFInv, InitQueue, PTL DEF Spec

\* The keys behind the cursor are queued again and again, the array's positions
\* move under it, and yet no key is visited twice.
THEOREM KeysAreVisitedOnce == Spec => NoRevisit
<1>1. FInv /\ QInv /\ [Next]_vars => FInv' /\ QInv'
  BY StepKeeps, StepQueues
<1>2. FInv /\ QInv /\ [Next]_vars
        => [pc = "loop" /\ pc' = "body" => Head(queue) \notin visited]_vars
  BY StepQueues
<1>3. QED
  BY <1>1, <1>2, InitFInv, InitQueue, PTL DEF Spec, NoRevisit

\* A loop that only grows the array and runs out of keys before its cap has
\* visited all of them, those added while it ran included.
THEOREM NoKeyIsMissed == Spec => []AppendedAreVisited
<1>1. FInv /\ QInv => AppendedAreVisited
  BY DEF QInv, AppendedAreVisited
<1>2. FInv /\ QInv /\ [Next]_vars => FInv' /\ QInv'
  BY StepKeeps, StepQueues
<1>3. QED
  BY <1>1, <1>2, InitFInv, InitQueue, PTL DEF Spec
=============================================================================
