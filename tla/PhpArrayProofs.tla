--------------------------- MODULE PhpArrayProofs ---------------------------
(***************************************************************************)
(* Proofs about the engine's arrays, for any keys, values, lengths and      *)
(* number of variables: the hash index is exact, and counted handles on     *)
(* shared blocks behave as ordered maps that each variable has for itself.  *)
(***************************************************************************)
EXTENDS PhpArray, LeastNumbers, SequenceTheorems

Keys == StrKey \cup (MinInt..MaxInt)
EntrySet == [key : Keys, elem : Elem]
Indices == UNION {[S -> Nat] : S \in SUBSET Keys}
ArrData == [entries : Seq(EntrySet), index : Indices, next : MinInt..MaxInt, pos : Nat]

\* The index gives the position of every key and has no other key.
Sound(d) ==
  /\ d \in ArrData /\ DOMAIN d.index = KeysOf(d.entries)
  /\ \A i \in DOMAIN d.entries : d.index[d.entries[i].key] = i

----------------------------------------------------------------------------
(* ArrData. *)

\* Integer arithmetic stays within 64 bits.
LEMMA NextIsInt ==
  ASSUME NEW next \in MinInt..MaxInt, NEW k \in Keys
  PROVE  Bump(next, k) \in MinInt..MaxInt
<1>1. MaxInt \in Int /\ MinInt \in Int /\ MinInt <= MaxInt /\ StrKey \cap Int = {}
  BY Bounds, KindsDiffer DEF MinInt
<1>2. CASE k \in StrKey
  BY <1>2 DEF Bump
<1>3. CASE k \notin StrKey
  BY <1>1, <1>3 DEF Bump, Wrap, Keys
<1>4. QED
  BY <1>2, <1>3

\* A sound index finds the place of a key.
LEMMA IndexFinds ==
  ASSUME NEW d, Sound(d), NEW k \in DOMAIN d.index
  PROVE  /\ d.index[k] \in DOMAIN d.entries /\ d.entries[d.index[k]].key = k
         /\ d.index[k] \in 1..Len(d.entries)
<1>1. PICK i \in DOMAIN d.entries : d.entries[i].key = k
  BY DEF Sound, KeysOf
<1>2. d.index[k] = i
  BY <1>1 DEF Sound
<1>3. DOMAIN d.entries = 1..Len(d.entries)
  BY DEF Sound, ArrData
<1>4. QED
  BY <1>1, <1>2, <1>3

\* An array whose index has the right keys and places is sound.
LEMMA SoundIf ==
  ASSUME NEW d, d \in [entries : Seq(EntrySet), index : {d.index}, next : MinInt..MaxInt, pos : Nat],
         NEW S, DOMAIN d.index = S, d.index \in [S -> Nat], S = KeysOf(d.entries),
         \A i \in DOMAIN d.entries : d.index[d.entries[i].key] = i
  PROVE  Sound(d)
<1>1. \A i \in DOMAIN d.entries : d.entries[i] \in EntrySet
  OBVIOUS
<1>2. S \in SUBSET Keys
  BY <1>1 DEF KeysOf, EntrySet
<1>3. d.index \in Indices
  BY <1>2 DEF Indices
<1>4. d \in ArrData
  BY <1>3 DEF ArrData
<1>5. QED
  BY <1>4 DEF Sound

\* What insert makes of an array: a new key goes to the end.
LEMMA InsertedNew ==
  ASSUME NEW d, Sound(d), NEW k \in Keys, NEW e \in Elem, ~ Has(d, k)
  PROVE  LET r == Inserted(d, k, e)
         IN /\ Sound(r) /\ r.entries = Append(d.entries, Entry(k, e))
            /\ r.next = Bump(d.next, k) /\ r.pos = d.pos
<1> DEFINE r == Inserted(d, k, e)  n == Len(d.entries)
           idx == [x \in DOMAIN d.index \cup {k} |-> IF x \in DOMAIN d.index THEN d.index[x] ELSE n + 1]
<1>1. d \in ArrData /\ DOMAIN d.index = KeysOf(d.entries) /\ n \in Nat
      /\ d.entries \in Seq(EntrySet) /\ DOMAIN d.entries = 1..n
  BY DEF Sound, ArrData
<1>2. r = [entries |-> Append(d.entries, Entry(k, e)), index |-> idx,
           next |-> Bump(d.next, k), pos |-> d.pos]
  BY DEF Inserted
<1>3. Entry(k, e) \in EntrySet /\ Entry(k, e).key = k
  BY DEF Entry, EntrySet
<1>4. Bump(d.next, k) \in MinInt..MaxInt
  BY <1>1, NextIsInt DEF ArrData
<1> HIDE DEF r
<1>5. /\ r.entries \in Seq(EntrySet) /\ DOMAIN r.entries = DOMAIN d.entries \cup {n + 1}
      /\ \A i \in DOMAIN d.entries : r.entries[i] = d.entries[i]
      /\ r.entries[n + 1].key = k
  BY <1>1, <1>2, <1>3
<1>6. KeysOf(r.entries) = DOMAIN d.index \cup {k}
  BY <1>1, <1>5 DEF KeysOf
<1>7. \A i \in DOMAIN r.entries : r.index[r.entries[i].key] = i
  <2>1. ASSUME NEW i \in DOMAIN d.entries PROVE r.index[r.entries[i].key] = i
    <3>1. r.entries[i].key \in DOMAIN d.index /\ d.index[d.entries[i].key] = i
      BY <1>1, <1>5 DEF KeysOf, Sound
    <3>2. QED
      BY <1>2, <1>5, <3>1
  <2>2. r.index[r.entries[n + 1].key] = n + 1
    BY <1>2, <1>5 DEF Has
  <2>3. QED
    BY <1>5, <2>1, <2>2
<1>8. r.index \in [DOMAIN d.index \cup {k} -> Nat]
  <2>1. \A x \in DOMAIN d.index : d.index[x] \in Nat
    BY IndexFinds, <1>1
  <2>2. QED
    BY <1>1, <1>2, <2>1
<1>9. r \in [entries : Seq(EntrySet), index : {r.index}, next : MinInt..MaxInt, pos : Nat]
  BY <1>1, <1>2, <1>4, <1>5 DEF ArrData
<1>10. Sound(r)
  BY <1>2, <1>6, <1>7, <1>8, <1>9, SoundIf
<1>11. QED
  BY <1>2, <1>10 DEF r

\* A known key keeps its place and gets another element.
LEMMA InsertedOld ==
  ASSUME NEW d, Sound(d), NEW k \in Keys, NEW e \in Elem, Has(d, k)
  PROVE  LET r == Inserted(d, k, e)
         IN /\ Sound(r) /\ r.entries = [d.entries EXCEPT ![d.index[k]] = Entry(k, e)]
            /\ r.next = Bump(d.next, k) /\ r.pos = d.pos
<1> DEFINE r == Inserted(d, k, e)  n == Len(d.entries)  j == d.index[k]
<1>1. d \in ArrData /\ DOMAIN d.index = KeysOf(d.entries) /\ n \in Nat
      /\ d.entries \in Seq(EntrySet) /\ DOMAIN d.entries = 1..n
  BY DEF Sound, ArrData
<1>2. j \in 1..n /\ d.entries[j].key = k /\ k \in DOMAIN d.index
  BY <1>1, IndexFinds DEF Has
<1>4. [x \in DOMAIN d.index \cup {k} |-> IF x \in DOMAIN d.index THEN d.index[x] ELSE n + 1] = d.index
  <2>1. PICK S \in SUBSET Keys : d.index \in [S -> Nat]
    BY <1>1 DEF ArrData, Indices
  <2>2. QED
    BY <1>2, <2>1
<1>5. r = [entries |-> [d.entries EXCEPT ![j] = Entry(k, e)], index |-> d.index,
           next |-> Bump(d.next, k), pos |-> d.pos]
  <2>1. r.index = d.index
    BY <1>4 DEF Inserted
  <2>2. QED
    BY <2>1 DEF Inserted
<1>6. Entry(k, e) \in EntrySet /\ Entry(k, e).key = k
  BY DEF Entry, EntrySet
<1>7. Bump(d.next, k) \in MinInt..MaxInt
  BY <1>1, NextIsInt DEF ArrData
<1> HIDE DEF r, j
<1>8. /\ r.entries \in Seq(EntrySet) /\ DOMAIN r.entries = DOMAIN d.entries
      /\ \A i \in DOMAIN d.entries : r.entries[i].key = d.entries[i].key
  BY <1>1, <1>2, <1>5, <1>6
<1>9. KeysOf(r.entries) = KeysOf(d.entries)
  BY <1>8 DEF KeysOf
<1>10. r \in ArrData
  BY <1>1, <1>5, <1>7, <1>8 DEF ArrData
<1>11. Sound(r)
  BY <1>1, <1>5, <1>8, <1>9, <1>10 DEF Sound
<1>12. QED
  BY <1>5, <1>11 DEF r, j

\* No two entries have the same key.
Distinct(entries) == \A i, j \in DOMAIN entries : entries[i].key = entries[j].key => i = j

LEMMA SoundKeysDiffer ==
  ASSUME NEW d, Sound(d)
  PROVE  Distinct(d.entries)
BY DEF Sound, Distinct

\* A sequence without one of its elements.
LEMMA RemovedAt ==
  ASSUME NEW S, NEW s \in Seq(S), NEW j \in 1..Len(s)
  PROVE  /\ RemoveAt(s, j) \in Seq(S) /\ Len(RemoveAt(s, j)) = Len(s) - 1
         /\ \A i \in 1..(Len(s) - 1) : RemoveAt(s, j)[i] = IF i < j THEN s[i] ELSE s[i + 1]
<1> DEFINE a == SubSeq(s, 1, j - 1)  b == SubSeq(s, j + 1, Len(s))
<1>1. a \in Seq(S) /\ Len(a) = j - 1 /\ \A i \in 1..(j - 1) : a[i] = s[i]
  OBVIOUS
<1>2. b \in Seq(S) /\ Len(b) = Len(s) - j /\ \A i \in 1..(Len(s) - j) : b[i] = s[i + j]
  OBVIOUS
<1>3. RemoveAt(s, j) = a \o b
  BY DEF RemoveAt
<1> HIDE DEF a, b
<1>4. a \o b \in Seq(S) /\ Len(a \o b) = Len(s) - 1
  <2>1. a \o b \in Seq(S) /\ Len(a \o b) = Len(a) + Len(b)
    <3>1. a \in Seq(S) /\ b \in Seq(S)
      BY <1>1, <1>2
    <3>2. QED
      BY <3>1
  <2>2. Len(s) \in Nat
    OBVIOUS
  <2>3. QED
    BY <1>1, <1>2, <2>1, <2>2
<1>5. \A i \in 1..(Len(s) - 1) : (a \o b)[i] = IF i < j THEN s[i] ELSE s[i + 1]
  BY <1>1, <1>2
<1>6. QED
  BY <1>3, <1>4, <1>5

\* reindex makes the index of any list whose keys differ exact.
LEMMA Reindexed ==
  ASSUME NEW entries \in Seq(EntrySet), Distinct(entries),
         NEW next \in MinInt..MaxInt, NEW pos \in Nat
  PROVE  Sound([entries |-> entries, index |-> Reindex(entries), next |-> next, pos |-> pos])
<1> DEFINE d == [entries |-> entries, index |-> Reindex(entries), next |-> next, pos |-> pos]
<1>1. DOMAIN Reindex(entries) = KeysOf(entries)
  BY DEF Reindex
<1>2. ASSUME NEW i \in DOMAIN entries PROVE Reindex(entries)[entries[i].key] = i
  BY <1>2 DEF Reindex, KeysOf, Distinct
<1>3. Reindex(entries) \in [KeysOf(entries) -> Nat]
  <2>1. \A k \in KeysOf(entries) : \E i \in DOMAIN entries : entries[i].key = k
    BY DEF KeysOf
  <2>2. \A k \in KeysOf(entries) : Reindex(entries)[k] \in DOMAIN entries
    BY <2>1 DEF Reindex
  <2>3. DOMAIN entries \subseteq Nat
    OBVIOUS
  <2>4. QED
    BY <2>2, <2>3 DEF Reindex
<1>4. d.entries = entries /\ d.index = Reindex(entries)
  OBVIOUS
<1>5. d \in [entries : Seq(EntrySet), index : {d.index}, next : MinInt..MaxInt, pos : Nat]
  OBVIOUS
<1> HIDE DEF d
<1>6. Sound(d)
  BY <1>1, <1>2, <1>3, <1>4, <1>5, SoundIf
<1>7. QED
  BY <1>6 DEF d

\* remove keeps the index exact.
LEMMA RemovedIs ==
  ASSUME NEW d, Sound(d), NEW k, Has(d, k)
  PROVE  LET r == Removed(d, k)
         IN /\ Sound(r) /\ r.entries = RemoveAt(d.entries, d.index[k])
            /\ r.next = d.next /\ r.pos = d.pos
<1> DEFINE r == Removed(d, k)  j == d.index[k]  es == RemoveAt(d.entries, j)
<1>1. d.entries \in Seq(EntrySet) /\ d.next \in MinInt..MaxInt /\ d.pos \in Nat
  BY DEF Sound, ArrData
<1>2. j \in 1..Len(d.entries)
  BY IndexFinds DEF Has
<1>3. r = [entries |-> es, index |-> Reindex(es), next |-> d.next, pos |-> d.pos]
  BY DEF Removed
<1> HIDE DEF r, j
<1>4. /\ es \in Seq(EntrySet) /\ Len(es) = Len(d.entries) - 1
      /\ \A i \in 1..(Len(d.entries) - 1) : es[i] = IF i < j THEN d.entries[i] ELSE d.entries[i + 1]
  <2> HIDE DEF es
  <2>1. QED
    BY <1>1, <1>2, RemovedAt DEF es
<1> HIDE DEF es
<1>5. Distinct(es)
  <2>1. Distinct(d.entries)
    BY SoundKeysDiffer
  <2>2. DOMAIN es = 1..(Len(d.entries) - 1) /\ DOMAIN d.entries = 1..Len(d.entries) /\ Len(d.entries) \in Nat
    BY <1>1, <1>4
  <2>3. ASSUME NEW i \in DOMAIN es, NEW m \in DOMAIN es, es[i].key = es[m].key PROVE i = m
    <3> DEFINE u == IF i < j THEN i ELSE i + 1  w == IF m < j THEN m ELSE m + 1
    <3>1. u \in DOMAIN d.entries /\ w \in DOMAIN d.entries
      BY <1>2, <2>2
    <3>2. es[i] = d.entries[u] /\ es[m] = d.entries[w]
      BY <1>4, <2>2
    <3>3. u = w
      BY <2>1, <2>3, <3>1, <3>2 DEF Distinct
    <3>4. QED
      BY <1>2, <2>2, <3>3
  <2>4. QED
    BY <2>3 DEF Distinct
<1>6. Sound(r)
  BY <1>1, <1>3, <1>4, <1>5, Reindexed
<1>7. QED
  BY <1>3, <1>6 DEF r, j, es

----------------------------------------------------------------------------
(* Arrays built anew. *)

\* An array without entries is sound.
LEMMA DefaultIsSound == Sound(Default) /\ Default.entries = <<>> /\ Default.next = 0 /\ Default.pos = 0
<1>1. <<>> \in [{} -> Nat] /\ DOMAIN (<<>>) = {} /\ {} \in SUBSET Keys
  OBVIOUS
<1>2. <<>> \in Indices
  BY <1>1 DEF Indices
<1>3. 0 \in MinInt..MaxInt
  BY Bounds DEF MinInt
<1>4. Default \in ArrData
  BY <1>2, <1>3 DEF Default, ArrData
<1>5. DOMAIN Default.index = KeysOf(Default.entries) /\ DOMAIN Default.entries = {}
  BY DEF Default, KeysOf
<1>6. QED
  BY <1>4, <1>5 DEF Sound, Default

\* The key insert or push gives the i-th entry of a refilled array.
KeyFor(d, k, kept) == IF k \in kept THEN k ELSE d.next

\* The arrays a refill goes through.
FilledBy(entries, kept, g, n) ==
  g = [i \in 0..n |-> IF i = 0 THEN Default
                      ELSE Inserted(g[i - 1], KeyFor(g[i - 1], entries[i].key, kept), entries[i].elem)]

LEMMA FillExists ==
  ASSUME NEW entries \in Seq(EntrySet), NEW kept
  PROVE  \E g : FilledBy(entries, kept, g, Len(entries))
<1> DEFINE n == Len(entries)
           T == {k \in 0..n : \E g : FilledBy(entries, kept, g, k)}
<1>1. n \in Nat
  OBVIOUS
<1>2. 0 \in T
  <2>1. FilledBy(entries, kept, [i \in 0..0 |-> Default], 0)
    BY DEF FilledBy
  <2>2. QED
    BY <1>1, <2>1
<1>3. ASSUME NEW k \in 0..n, k \in T, k + 1 <= n PROVE k + 1 \in T
  <2>1. PICK g : FilledBy(entries, kept, g, k)
    BY <1>3
  <2> DEFINE new == Inserted(g[k], KeyFor(g[k], entries[k + 1].key, kept), entries[k + 1].elem)
             h == [i \in 0..(k + 1) |-> IF i = k + 1 THEN new ELSE g[i]]
  <2>2. \A i \in 0..k : g[i] = IF i = 0 THEN Default
          ELSE Inserted(g[i - 1], KeyFor(g[i - 1], entries[i].key, kept), entries[i].elem)
    BY <2>1 DEF FilledBy
  <2>3. \A i \in 0..(k + 1) : h[i] = IF i = 0 THEN Default
          ELSE Inserted(h[i - 1], KeyFor(h[i - 1], entries[i].key, kept), entries[i].elem)
    BY <1>1, <2>2
  <2>4. FilledBy(entries, kept, h, k + 1)
    BY <2>3 DEF FilledBy
  <2>5. QED
    BY <1>3, <2>4
<1>4. T = 0..n
  <2>1. T \in SUBSET (0..n)
    OBVIOUS
  <2> HIDE DEF T, n
  <2> QED
    BY <1>1, <1>2, <1>3, <2>1, InductionUpTo
<1>5. n \in T
  BY <1>1, <1>4
<1>6. QED
  BY <1>5

\* So a refill is the last of them.
LEMMA RefillSteps ==
  ASSUME NEW entries \in Seq(EntrySet), NEW kept
  PROVE  \E f : /\ f[0] = Default /\ Refilled(entries, kept) = f[Len(entries)]
                /\ \A i \in 1..Len(entries) :
                     f[i] = Inserted(f[i - 1], KeyFor(f[i - 1], entries[i].key, kept), entries[i].elem)
<1> DEFINE f == CHOOSE g : FilledBy(entries, kept, g, Len(entries))
<1>1. Refilled(entries, kept) = f[Len(entries)]
  BY DEF Refilled, FilledBy, KeyFor
<1>2. FilledBy(entries, kept, f, Len(entries))
  BY FillExists
<1> HIDE DEF f
<1>3. \A i \in 0..Len(entries) : f[i] = IF i = 0 THEN Default
        ELSE Inserted(f[i - 1], KeyFor(f[i - 1], entries[i].key, kept), entries[i].elem)
  BY <1>2 DEF FilledBy
<1>4. QED
  BY <1>1, <1>3

\* A refilled array is sound, not longer than the list, and points at its first entry.
LEMMA RefilledIsSound ==
  ASSUME NEW entries \in Seq(EntrySet), NEW kept
  PROVE  LET r == Refilled(entries, kept)
         IN Sound(r) /\ Len(r.entries) <= Len(entries) /\ r.pos = 0
<1> DEFINE n == Len(entries)
<1>1. PICK f : /\ f[0] = Default /\ Refilled(entries, kept) = f[n]
               /\ \A i \in 1..n :
                    f[i] = Inserted(f[i - 1], KeyFor(f[i - 1], entries[i].key, kept), entries[i].elem)
  BY RefillSteps
<1> DEFINE Good(k) == Sound(f[k]) /\ Len(f[k].entries) <= k /\ f[k].pos = 0
           T == {k \in 0..n : Good(k)}
<1>2. n \in Nat /\ \A i \in 1..n : entries[i] \in EntrySet
  OBVIOUS
<1>3. Good(0)
  BY <1>1, DefaultIsSound
<1>4. ASSUME NEW k \in 0..n, Good(k), k + 1 <= n PROVE Good(k + 1)
  <2> DEFINE d == f[k]  key == KeyFor(d, entries[k + 1].key, kept)  e == entries[k + 1].elem
  <2>1. k + 1 \in 1..n /\ (k + 1) - 1 = k /\ k \in Nat
    BY <1>2, <1>4
  <2>2. f[k + 1] = Inserted(d, key, e)
    BY <1>1, <2>1
  <2>3. d \in ArrData /\ Sound(d) /\ Len(d.entries) \in Nat /\ Len(d.entries) <= k
    BY <1>4 DEF Sound, ArrData
  <2>4. key \in Keys /\ e \in Elem
    <3>1. entries[k + 1] \in EntrySet /\ d.next \in Keys
      BY <1>2, <2>1, <2>3 DEF ArrData, Keys
    <3>2. QED
      BY <3>1 DEF EntrySet, KeyFor
  <2> HIDE DEF d, key, e
  <2>5. CASE Has(d, key)
    <3>1. /\ Sound(f[k + 1]) /\ f[k + 1].pos = d.pos
          /\ f[k + 1].entries = [d.entries EXCEPT ![d.index[key]] = Entry(key, e)]
      BY <2>2, <2>3, <2>4, <2>5, InsertedOld
    <3>2. Len(f[k + 1].entries) = Len(d.entries)
      BY <2>3, <3>1 DEF ArrData
    <3>3. QED
      BY <1>4, <2>1, <2>3, <3>1, <3>2 DEF d
  <2>6. CASE ~ Has(d, key)
    <3>1. /\ Sound(f[k + 1]) /\ f[k + 1].pos = d.pos
          /\ f[k + 1].entries = Append(d.entries, Entry(key, e))
      BY <2>2, <2>3, <2>4, <2>6, InsertedNew
    <3>2. Len(f[k + 1].entries) = Len(d.entries) + 1
      BY <2>3, <3>1 DEF ArrData
    <3>3. QED
      BY <1>4, <2>1, <2>3, <3>1, <3>2 DEF d
  <2>7. QED
    BY <2>5, <2>6
<1>5. T = 0..n
  <2> HIDE DEF Good
  <2>1. T \in SUBSET (0..n) /\ 0 \in T
    BY <1>2, <1>3
  <2>2. \A k \in 0..n : k \in T /\ k + 1 <= n => k + 1 \in T
    <3>1. ASSUME NEW k \in 0..n, k \in T, k + 1 <= n PROVE k + 1 \in T
      <4>1. Good(k) /\ k + 1 \in 0..n
        BY <1>2, <3>1
      <4>2. QED
        BY <1>4, <3>1, <4>1
    <3>2. QED
      BY <3>1
  <2> HIDE DEF T, n
  <2> QED
    BY <1>2, <2>1, <2>2, InductionUpTo
<1>6. Good(n)
  BY <1>2, <1>5
<1>7. QED
  BY <1>1, <1>6

----------------------------------------------------------------------------
(* Blocks. *)

\* An array of this model: sound, and within the bound.
GoodArr(d) == Sound(d) /\ Len(d.entries) <= MaxLen

\* Every block holds such an array.
BlocksInv ==
  /\ ptr \in [Var -> Block] /\ block \in [Block -> ArrData]
  /\ \A b \in Block : GoodArr(block[b])

PInv == BlocksInv /\ heap \in [Cell -> Val]

LEMMA DataIsGood ==
  ASSUME BlocksInv, NEW v \in Var
  PROVE  /\ GoodArr(Data(v)) /\ Sound(Data(v)) /\ Data(v) \in ArrData
         /\ Data(v).entries \in Seq(EntrySet) /\ Data(v).next \in MinInt..MaxInt
         /\ Data(v).pos \in Nat /\ Len(Data(v).entries) \in Nat
         /\ Len(Data(v).entries) <= MaxLen /\ Data(v).next \in Keys
<1>1. GoodArr(Data(v))
  BY DEF BlocksInv, Data
<1>2. Sound(Data(v)) /\ Data(v) \in ArrData
  BY <1>1 DEF GoodArr, Sound
<1>3. QED
  BY <1>1, <1>2 DEF ArrData, GoodArr, Keys

\* A handle whose block is changed or copied for it.
LEMMA MutateKeeps ==
  ASSUME BlocksInv, NEW v \in Var, NEW d, GoodArr(d), Mutate(v, d)
  PROVE  BlocksInv'
<1>1. d \in ArrData
  BY DEF GoodArr, Sound
<1>2. CASE Holders(ptr[v]) = {v}
  <2>1. block' = [block EXCEPT ![ptr[v]] = d] /\ ptr' = ptr /\ ptr[v] \in Block
    BY <1>2 DEF Mutate, BlocksInv
  <2>2. QED
    BY <1>1, <2>1 DEF BlocksInv
<1>3. CASE Holders(ptr[v]) # {v}
  <2>1. PICK b \in Free : ptr' = [ptr EXCEPT ![v] = b] /\ block' = [block EXCEPT ![b] = d]
    BY <1>3 DEF Mutate
  <2>2. b \in Block
    BY DEF Free
  <2>3. QED
    BY <1>1, <2>1, <2>2 DEF BlocksInv
<1>4. QED
  BY <1>2, <1>3

LEMMA DefaultIsGood == GoodArr(Default)
BY DefaultIsSound, Bounds DEF GoodArr

LEMMA RefilledIsGood ==
  ASSUME NEW entries \in Seq(EntrySet), NEW kept, Len(entries) <= MaxLen
  PROVE  GoodArr(Refilled(entries, kept))
<1> DEFINE r == Refilled(entries, kept)
<1>1. Sound(r) /\ Len(r.entries) <= Len(entries)
  BY RefilledIsSound
<1>2. Len(r.entries) \in Nat /\ Len(entries) \in Nat /\ MaxLen \in Nat
  BY <1>1, Bounds DEF Sound, ArrData
<1> HIDE DEF r
<1>3. GoodArr(r)
  BY <1>1, <1>2 DEF GoodArr
<1>4. QED
  BY <1>3 DEF r

\* What an insertion may do to the length.
LEMMA InsertedIsGood ==
  ASSUME NEW d, GoodArr(d), NEW k \in Keys, NEW e \in Elem,
         Has(d, k) \/ Len(d.entries) < MaxLen
  PROVE  GoodArr(Inserted(d, k, e))
<1>1. d.entries \in Seq(EntrySet) /\ Sound(d) /\ Len(d.entries) <= MaxLen /\ MaxLen \in Nat
  BY Bounds DEF GoodArr, Sound, ArrData
<1>2. CASE Has(d, k)
  <2>1. Sound(Inserted(d, k, e)) /\ Inserted(d, k, e).entries = [d.entries EXCEPT ![d.index[k]] = Entry(k, e)]
    BY <1>1, <1>2, InsertedOld
  <2>2. Len(Inserted(d, k, e).entries) = Len(d.entries)
    BY <1>1, <2>1
  <2>3. QED
    BY <1>1, <2>1, <2>2 DEF GoodArr
<1>3. CASE ~ Has(d, k)
  <2>1. Sound(Inserted(d, k, e)) /\ Inserted(d, k, e).entries = Append(d.entries, Entry(k, e))
    BY <1>1, <1>3, InsertedNew
  <2>2. Len(Inserted(d, k, e).entries) = Len(d.entries) + 1
    BY <1>1, <2>1
  <2>3. QED
    BY <1>1, <1>3, <2>1, <2>2 DEF GoodArr
<1>4. QED
  BY <1>2, <1>3

\* Another element at the place of a key; another next key or pointer.
LEMMA ElementKeeps ==
  ASSUME NEW d, GoodArr(d), NEW k, Has(d, k), NEW e \in Elem
  PROVE  LET r == [d EXCEPT !.entries[d.index[k]].elem = e]
         IN /\ GoodArr(r) /\ r.next = d.next /\ r.pos = d.pos
            /\ r.entries = [d.entries EXCEPT ![d.index[k]] = Entry(k, e)]
<1> DEFINE j == d.index[k]
           r == [d EXCEPT !.entries[d.index[k]].elem = e]
           es == [d.entries EXCEPT ![j] = Entry(k, e)]
<1>1. d \in ArrData /\ d.entries \in Seq(EntrySet) /\ Sound(d)
  BY DEF GoodArr, Sound, ArrData
<1>2. j \in 1..Len(d.entries) /\ d.entries[j].key = k
  BY <1>1, IndexFinds DEF Has
<1>3. [d.entries EXCEPT ![j].elem = e] = es
  <2> HIDE DEF j
  <2>1. d.entries[j] \in EntrySet
    BY <1>1, <1>2
  <2>2. [d.entries[j] EXCEPT !.elem = e] = Entry(k, e)
    BY <1>2, <2>1 DEF Entry, EntrySet
  <2>3. QED
    BY <2>2
<1>4. r = [d EXCEPT !.entries = es]
  BY <1>3
<1>5. r = [entries |-> es, index |-> d.index, next |-> d.next, pos |-> d.pos]
  <2> HIDE DEF r, es
  <2>1. QED
    BY <1>1, <1>4 DEF ArrData
<1>6. Entry(k, e) \in EntrySet /\ Entry(k, e).key = k
  <2>1. d.entries[j] \in EntrySet
    BY <1>1, <1>2
  <2>2. QED
    BY <1>2, <2>1 DEF Entry, EntrySet
<1> HIDE DEF r, j
<1>7. /\ es \in Seq(EntrySet) /\ Len(es) = Len(d.entries) /\ DOMAIN es = DOMAIN d.entries
      /\ \A i \in DOMAIN d.entries : es[i].key = d.entries[i].key
  BY <1>1, <1>2, <1>6
<1> HIDE DEF es
<1>8. KeysOf(r.entries) = KeysOf(d.entries)
  BY <1>5, <1>7 DEF KeysOf
<1>9. r \in ArrData
  BY <1>1, <1>5, <1>7 DEF ArrData
<1>10. Sound(r)
  BY <1>1, <1>5, <1>7, <1>8, <1>9 DEF Sound
<1>11. QED
  BY <1>5, <1>7, <1>10 DEF GoodArr, r, es, j

LEMMA NextKeeps ==
  ASSUME NEW d, GoodArr(d), NEW n \in MinInt..MaxInt
  PROVE  LET r == [d EXCEPT !.next = n]
         IN GoodArr(r) /\ r.next = n /\ r.pos = d.pos /\ r.entries = d.entries
<1> DEFINE r == [d EXCEPT !.next = n]
<1>1. d \in ArrData /\ Sound(d)
  BY DEF GoodArr, Sound
<1>2. r = [entries |-> d.entries, index |-> d.index, next |-> n, pos |-> d.pos]
  BY <1>1 DEF ArrData
<1>3. r \in ArrData
  BY <1>1, <1>2 DEF ArrData
<1> HIDE DEF r
<1>4. QED
  BY <1>1, <1>2, <1>3 DEF GoodArr, Sound, r

LEMMA PosKeeps ==
  ASSUME NEW d, GoodArr(d), NEW p \in Nat
  PROVE  LET r == [d EXCEPT !.pos = p]
         IN GoodArr(r) /\ r.next = d.next /\ r.pos = p /\ r.entries = d.entries
<1> DEFINE r == [d EXCEPT !.pos = p]
<1>1. d \in ArrData /\ Sound(d)
  BY DEF GoodArr, Sound
<1>2. r = [entries |-> d.entries, index |-> d.index, next |-> d.next, pos |-> p]
  BY <1>1 DEF ArrData
<1>3. r \in ArrData
  BY <1>1, <1>2 DEF ArrData
<1> HIDE DEF r
<1>4. QED
  BY <1>1, <1>2, <1>3 DEF GoodArr, Sound, r

----------------------------------------------------------------------------
(* Every operation keeps every block sound. *)

\* Rearranged entries are entries.
LEMMA SortedEntries ==
  ASSUME NEW S, NEW s \in Seq(S), NEW p \in Bijection(DOMAIN s, DOMAIN s)
  PROVE  /\ [i \in DOMAIN p |-> s[p[i]]] \in Seq(S) /\ DOMAIN p = DOMAIN s
         /\ Len([i \in DOMAIN p |-> s[p[i]]]) = Len(s)
<1>1. p \in [DOMAIN s -> DOMAIN s]
  BY DEF Bijection, Injection
<1>2. DOMAIN s = 1..Len(s) /\ Len(s) \in Nat
  OBVIOUS
<1>3. QED
  BY <1>1, <1>2

LEMMA InsertKeeps ==
  ASSUME PInv, NEW v \in Var, NEW k \in Keys, NEW x \in Val,
         Has(Data(v), k) \/ Len(Data(v).entries) < MaxLen, Insert(v, k, x)
  PROVE  PInv'
<1> DEFINE d == Data(v)
<1>1. GoodArr(d) /\ d \in ArrData /\ x \in Elem
  BY DataIsGood DEF PInv, Elem
<1>2. CASE Has(d, k) /\ At(d, k) \in Cell
  <2>1. Bump(d.next, k) \in MinInt..MaxInt
    BY <1>1, NextIsInt DEF ArrData
  <2>2. GoodArr([d EXCEPT !.next = Bump(d.next, k)])
    BY <1>1, <2>1, NextKeeps
  <2>3. /\ heap' = [heap EXCEPT ![At(d, k)] = x]
        /\ Mutate(v, [d EXCEPT !.next = Bump(d.next, k)])
    BY <1>2 DEF Insert
  <2> HIDE DEF d
  <2>4. BlocksInv'
    BY <2>2, <2>3, MutateKeeps DEF PInv
  <2>5. QED
    BY <2>3, <2>4 DEF PInv
<1>3. CASE ~ (Has(d, k) /\ At(d, k) \in Cell)
  <2>1. GoodArr(Inserted(d, k, x))
    BY <1>1, InsertedIsGood
  <2>2. Mutate(v, Inserted(d, k, x)) /\ heap' = heap
    BY <1>3 DEF Insert
  <2> HIDE DEF d
  <2>3. QED
    BY <2>1, <2>2, MutateKeeps DEF PInv
<1>4. QED
  BY <1>2, <1>3

LEMMA ReplaceKeeps ==
  ASSUME PInv, NEW v \in Var, NEW d, GoodArr(d), Replace(v, d)
  PROVE  PInv'
BY MutateKeeps DEF Replace, PInv

\* A handle on another variable's block.
LEMMA CopyKeeps ==
  ASSUME PInv, NEW v \in Var, NEW w \in Var, Copy(v, w)
  PROVE  PInv'
<1>1. /\ ptr \in [Var -> Block] /\ block \in [Block -> ArrData]
      /\ ptr' = [ptr EXCEPT ![v] = ptr[w]] /\ heap' = heap
      /\ block' = [block EXCEPT ![ptr[v]] = IF Holders(ptr[v]) = {v} THEN Default ELSE block[ptr[v]]]
  BY DEF Copy, Release, PInv, BlocksInv
<1>2. Default \in ArrData /\ GoodArr(Default)
  BY DefaultIsGood DEF GoodArr, Sound
<1>3. ptr[v] \in Block /\ ptr[w] \in Block
  BY <1>1
<1>4. \A b \in Block : block'[b] = block[b] \/ block'[b] = Default
  BY <1>1, <1>3
<1>5. block' \in [Block -> ArrData] /\ ptr' \in [Var -> Block]
  BY <1>1, <1>2, <1>3
<1>6. \A b \in Block : GoodArr(block'[b])
  BY <1>2, <1>4, Zenon DEF PInv, BlocksInv
<1>7. QED
  BY <1>1, <1>5, <1>6 DEF PInv, BlocksInv

\* What the element operations find: a key of the array, an element at its place.
LEMMA Found ==
  ASSUME BlocksInv, NEW v \in Var, NEW k, Has(Data(v), k)
  PROVE  /\ k \in Keys /\ At(Data(v), k) \in Elem
         /\ Data(v).index[k] \in DOMAIN Data(v).entries
         /\ Data(v).entries[Data(v).index[k]] = Entry(k, At(Data(v), k))
<1> DEFINE d == Data(v)  j == d.index[k]
<1>1. Sound(d) /\ d.entries \in Seq(EntrySet)
  BY DataIsGood
<1>2. j \in DOMAIN d.entries /\ d.entries[j].key = k
  BY <1>1, IndexFinds DEF Has
<1> HIDE DEF d, j
<1>3. d.entries[j] \in EntrySet
  BY <1>1, <1>2
<1>4. At(d, k) = d.entries[j].elem
  BY DEF At, j
<1>5. QED
  BY <1>2, <1>3, <1>4 DEF EntrySet, Entry, d, j

\* The operations that change one element, key or pointer.
LEMMA ElementStepsKeep ==
  ASSUME PInv, NEW v \in Var,
         \/ \E x \in Val : Push(v, x)
         \/ \E k \in IntKey \cup StrKey, x \in Val : SetElement(v, k, x)
         \/ \E k \in DOMAIN Data(v).index : Unset(v, k) \/ Demote(v, k) \/ \E c \in Cell : Promote(v, k, c)
         \/ Point(v)
  PROVE  PInv'
<1>1. ASSUME NEW x \in Val, Push(v, x) PROVE PInv'
  <2>1. Data(v).next \in Keys /\ Len(Data(v).entries) < MaxLen /\ Insert(v, Data(v).next, x)
    BY <1>1, DataIsGood DEF Push, PInv
  <2>2. QED
    BY <2>1, InsertKeeps
<1>2. ASSUME NEW k \in IntKey \cup StrKey, NEW x \in Val, SetElement(v, k, x) PROVE PInv'
  <2>1. k \in Keys
    BY KindsDiffer DEF Keys
  <2>2. QED
    BY <1>2, <2>1, InsertKeeps DEF SetElement
<1>3. ASSUME NEW k \in DOMAIN Data(v).index, Unset(v, k) PROVE PInv'
  <2>1. Has(Data(v), k) /\ Replace(v, Removed(Data(v), k)) /\ GoodArr(Data(v))
    BY <1>3, DataIsGood DEF Unset, PInv
  <2>2. /\ Sound(Removed(Data(v), k)) /\ Data(v).entries \in Seq(EntrySet)
        /\ Removed(Data(v), k).entries = RemoveAt(Data(v).entries, Data(v).index[k])
        /\ Data(v).index[k] \in 1..Len(Data(v).entries)
    BY <2>1, RemovedIs, IndexFinds, DataIsGood DEF GoodArr, Has, PInv
  <2>3. Len(Removed(Data(v), k).entries) = Len(Data(v).entries) - 1
    BY <2>2, RemovedAt
  <2>4. Len(Data(v).entries) \in Nat /\ Len(Data(v).entries) <= MaxLen /\ MaxLen \in Nat
    BY DataIsGood, Bounds DEF PInv
  <2>5. GoodArr(Removed(Data(v), k))
    BY <2>2, <2>3, <2>4 DEF GoodArr
  <2>6. QED
    BY <2>1, <2>5, ReplaceKeeps
<1>4. ASSUME NEW k \in DOMAIN Data(v).index, Demote(v, k) PROVE PInv'
  <2>1. /\ Has(Data(v), k) /\ At(Data(v), k) \in Cell /\ heap' = heap
        /\ Mutate(v, [Data(v) EXCEPT !.entries[Data(v).index[k]].elem = heap[At(Data(v), k)]])
    BY <1>4 DEF Demote
  <2>2. heap[At(Data(v), k)] \in Elem /\ GoodArr(Data(v))
    BY <2>1, DataIsGood DEF PInv, Elem
  <2>3. GoodArr([Data(v) EXCEPT !.entries[Data(v).index[k]].elem = heap[At(Data(v), k)]])
    BY <2>1, <2>2, ElementKeeps
  <2>4. QED
    BY <2>1, <2>3, MutateKeeps DEF PInv
<1>5. ASSUME NEW k \in DOMAIN Data(v).index, NEW c \in Cell, Promote(v, k, c) PROVE PInv'
  <2>1. /\ Has(Data(v), k) /\ At(Data(v), k) \notin Cell
        /\ heap' = [heap EXCEPT ![c] = At(Data(v), k)]
        /\ Mutate(v, [Data(v) EXCEPT !.entries[Data(v).index[k]].elem = c])
    BY <1>5 DEF Promote
  <2>2. c \in Elem /\ GoodArr(Data(v)) /\ At(Data(v), k) \in Val
    BY <2>1, DataIsGood, Found DEF PInv, Elem
  <2>3. GoodArr([Data(v) EXCEPT !.entries[Data(v).index[k]].elem = c])
    BY <2>1, <2>2, ElementKeeps
  <2>4. BlocksInv'
    BY <2>1, <2>3, MutateKeeps DEF PInv
  <2>5. QED
    BY <2>1, <2>2, <2>4 DEF PInv
<1>6. ASSUME Point(v) PROVE PInv'
  <2> DEFINE d == Data(v)
  <2>1. PICK p \in {0, IF d.entries = <<>> THEN 0 ELSE Len(d.entries) - 1,
                    d.pos + 1, IF d.pos = 0 THEN MaxPos ELSE d.pos - 1} :
           p <= MaxPos /\ Replace(v, [d EXCEPT !.pos = p])
    BY <1>6 DEF Point
  <2>2. GoodArr(d) /\ d.pos \in Nat /\ d.entries \in Seq(EntrySet)
    BY DataIsGood DEF PInv
  <2> HIDE DEF d
  <2>3. p \in Nat
    <3>1. d.entries # <<>> => Len(d.entries) - 1 \in Nat
      BY <2>2
    <3>2. QED
      BY <2>1, <2>2, <3>1, Bounds
  <2>4. GoodArr([d EXCEPT !.pos = p])
    BY <2>2, <2>3, PosKeeps
  <2>5. QED
    BY <2>1, <2>4, ReplaceKeeps
<1>7. QED
  BY <1>1, <1>2, <1>3, <1>4, <1>5, <1>6

\* A sequence without its last element, and with one more in front.
LEMMA FrontIs ==
  ASSUME NEW S, NEW s \in Seq(S), s # <<>>
  PROVE  /\ Front(s) \in Seq(S) /\ Len(Front(s)) = Len(s) - 1
         /\ \A i \in 1..(Len(s) - 1) : Front(s)[i] = s[i]
<1>1. Len(s) \in Nat /\ Len(s) >= 1 /\ \A i \in 1..(Len(s) - 1) : s[i] \in S
  OBVIOUS
<1>2. /\ Front(s) \in Seq(S)
      /\ Len(Front(s)) = IF 1 <= Len(s) - 1 THEN (Len(s) - 1) - 1 + 1 ELSE 0
      /\ \A i \in 1..((Len(s) - 1) - 1 + 1) : Front(s)[i] = s[1 + i - 1]
  BY <1>1, SubSeqProperties DEF Front
<1>3. Len(Front(s)) = Len(s) - 1
  <2> DEFINE m == Len(Front(s))  n == Len(s)
  <2>1. n \in Nat /\ n >= 1 /\ m = IF 1 <= n - 1 THEN (n - 1) - 1 + 1 ELSE 0
    BY <1>1, <1>2
  <2> HIDE DEF m, n
  <2>2. m = n - 1
    BY <2>1
  <2>3. QED
    BY <2>2 DEF m, n
<1>4. ASSUME NEW i \in 1..(Len(s) - 1) PROVE Front(s)[i] = s[i]
  BY <1>1, <1>2
<1>5. QED
  BY <1>2, <1>3, <1>4

LEMMA PrefixedIs ==
  ASSUME NEW S, NEW s \in Seq(S), NEW x \in S
  PROVE  /\ <<x>> \o s \in Seq(S) /\ Len(<<x>> \o s) = Len(s) + 1
         /\ (<<x>> \o s)[1] = x /\ \A i \in 1..Len(s) : (<<x>> \o s)[i + 1] = s[i]
<1> DEFINE one == <<x>>
<1>1. one \in Seq(S) /\ Len(one) = 1 /\ one[1] = x /\ Len(s) \in Nat
  OBVIOUS
<1> HIDE DEF one
<1>2. /\ one \o s \in Seq(S) /\ Len(one \o s) = Len(one) + Len(s)
      /\ \A i \in 1..(Len(one) + Len(s)) :
           (one \o s)[i] = IF i <= Len(one) THEN one[i] ELSE s[i - Len(one)]
  BY <1>1, ConcatProperties
<1>3. Len(one \o s) = Len(s) + 1
  BY <1>1, <1>2
<1>4. (one \o s)[1] = x
  BY <1>1, <1>2
<1>5. ASSUME NEW i \in 1..Len(s) PROVE (one \o s)[i + 1] = s[i]
  <2>1. i + 1 \in 1..(Len(one) + Len(s)) /\ ~ (i + 1 <= Len(one)) /\ (i + 1) - Len(one) = i
    BY <1>1
  <2>2. QED
    BY <1>2, <2>1
<1>6. QED
  BY <1>2, <1>3, <1>4, <1>5 DEF one

\* The lists that array_byref builds arrays from.
LEMMA ListsAreEntries ==
  ASSUME BlocksInv, NEW v \in Var
  PROVE  LET es == Data(v).entries
         IN /\ es # <<>> => /\ Front(es) \in Seq(EntrySet) /\ Len(Front(es)) = Len(es) - 1
                            /\ \A i \in 1..(Len(es) - 1) : Front(es)[i] = es[i]
                            /\ Tail(es) \in Seq(EntrySet) /\ Len(Tail(es)) = Len(es) - 1
                            /\ \A i \in 1..(Len(es) - 1) : Tail(es)[i] = es[i + 1]
            /\ \A x \in Val : /\ <<Entry(0, x)>> \o es \in Seq(EntrySet)
                              /\ Len(<<Entry(0, x)>> \o es) = Len(es) + 1
                              /\ (<<Entry(0, x)>> \o es)[1] = Entry(0, x)
                              /\ \A i \in 1..Len(es) : (<<Entry(0, x)>> \o es)[i + 1] = es[i]
<1> DEFINE es == Data(v).entries
<1>1. es \in Seq(EntrySet)
  BY DataIsGood
<1> HIDE DEF es
<1>2. ASSUME es # <<>>
      PROVE  /\ Front(es) \in Seq(EntrySet) /\ Len(Front(es)) = Len(es) - 1
             /\ \A i \in 1..(Len(es) - 1) : Front(es)[i] = es[i]
  BY <1>1, <1>2, FrontIs
<1>3. ASSUME es # <<>>
      PROVE  /\ Tail(es) \in Seq(EntrySet) /\ Len(Tail(es)) = Len(es) - 1
             /\ \A i \in 1..(Len(es) - 1) : Tail(es)[i] = es[i + 1]
  BY <1>1, <1>3
<1>4. ASSUME NEW x \in Val
      PROVE  /\ <<Entry(0, x)>> \o es \in Seq(EntrySet)
             /\ Len(<<Entry(0, x)>> \o es) = Len(es) + 1
             /\ (<<Entry(0, x)>> \o es)[1] = Entry(0, x)
             /\ \A i \in 1..Len(es) : (<<Entry(0, x)>> \o es)[i + 1] = es[i]
  <2>1. Entry(0, x) \in EntrySet
    BY Bounds DEF Entry, EntrySet, Keys, Elem, MinInt
  <2>2. QED
    BY <1>1, <2>1, PrefixedIs
<1>5. QED
  BY <1>2, <1>3, <1>4 DEF es

\* The operations that build the array anew.
LEMMA RebuildingStepsKeep ==
  ASSUME PInv, NEW v \in Var,
         \/ Clear(v) \/ Pop(v) \/ Shift(v)
         \/ \E x \in Val : Unshift(v, x)
         \/ \E list \in BOOLEAN : Sort(v, list)
  PROVE  PInv'
<1> DEFINE es == Data(v).entries
<1>1. BlocksInv /\ es \in Seq(EntrySet) /\ Len(es) \in Nat /\ Len(es) <= MaxLen /\ MaxLen \in Nat
  BY DataIsGood, Bounds DEF PInv
<1>2. CASE Clear(v)
  BY <1>2, DefaultIsGood, ReplaceKeeps DEF Clear
<1>3. CASE Pop(v)
  <2>1. Front(es) \in Seq(EntrySet) /\ Len(Front(es)) <= MaxLen
    BY <1>1, <1>3, ListsAreEntries DEF Pop
  <2>2. QED
    BY <1>3, <2>1, RefilledIsGood, ReplaceKeeps DEF Pop, Rebuilt
<1>4. CASE Shift(v)
  <2>1. Tail(es) \in Seq(EntrySet) /\ Len(Tail(es)) <= MaxLen
    BY <1>1, <1>4, ListsAreEntries DEF Shift
  <2>2. QED
    BY <1>4, <2>1, RefilledIsGood, ReplaceKeeps DEF Shift, Renumbered
<1>5. ASSUME NEW x \in Val, Unshift(v, x) PROVE PInv'
  <2>1. <<Entry(0, x)>> \o es \in Seq(EntrySet) /\ Len(<<Entry(0, x)>> \o es) <= MaxLen
    BY <1>1, <1>5, ListsAreEntries DEF Unshift
  <2>2. QED
    BY <1>5, <2>1, RefilledIsGood, ReplaceKeeps DEF Unshift, Renumbered
<1>6. ASSUME NEW list \in BOOLEAN, Sort(v, list) PROVE PInv'
  <2>1. PICK p \in Bijection(DOMAIN es, DOMAIN es) :
           Replace(v, IF list THEN Listed([i \in DOMAIN p |-> es[p[i]]])
                              ELSE Rebuilt([i \in DOMAIN p |-> es[p[i]]]))
    BY <1>6 DEF Sort
  <2> DEFINE sorted == [i \in DOMAIN p |-> es[p[i]]]
  <2>2. sorted \in Seq(EntrySet) /\ Len(sorted) = Len(es)
    BY <1>1, SortedEntries
  <2> HIDE DEF sorted
  <2>3. GoodArr(Listed(sorted)) /\ GoodArr(Rebuilt(sorted))
    BY <1>1, <2>2, RefilledIsGood DEF Listed, Rebuilt
  <2>4. QED
    BY <2>1, <2>3, ReplaceKeeps DEF sorted
<1>7. QED
  BY <1>2, <1>3, <1>4, <1>5, <1>6

LEMMA StepKeeps == PInv /\ [Next]_vars => PInv'
<1> SUFFICES ASSUME PInv, [Next]_vars PROVE PInv'
  OBVIOUS
<1>1. CASE UNCHANGED vars
  BY <1>1 DEF PInv, BlocksInv, vars
<1>2. CASE \E v \in Var : \E w \in Var : Copy(v, w)
  BY <1>2, CopyKeeps
<1>3. CASE \E c \in Cell, x \in Val : WriteAlias(c, x)
  BY <1>3 DEF WriteAlias, PInv, BlocksInv
<1>4. CASE \E v \in Var :
             \/ \E x \in Val : Push(v, x)
             \/ \E k \in IntKey \cup StrKey, x \in Val : SetElement(v, k, x)
             \/ \E k \in DOMAIN Data(v).index :
                  Unset(v, k) \/ Demote(v, k) \/ \E c \in Cell : Promote(v, k, c)
             \/ Point(v)
  BY <1>4, ElementStepsKeep
<1>5. CASE \E v \in Var :
             \/ Clear(v) \/ Pop(v) \/ Shift(v)
             \/ \E x \in Val : Unshift(v, x)
             \/ \E list \in BOOLEAN : Sort(v, list)
  BY <1>5, RebuildingStepsKeep
<1>6. QED
  BY <1>1, <1>2, <1>3, <1>4, <1>5 DEF Next

LEMMA InitKeeps == Init => PInv
<1> SUFFICES ASSUME Init PROVE PInv
  OBVIOUS
<1>1. ptr \in [Var -> Block] /\ heap \in [Cell -> Val] /\ block = [b \in Block |-> Default]
  BY DEF Init, Injection
<1>2. Default \in ArrData /\ GoodArr(Default)
  BY DefaultIsGood DEF GoodArr, Sound
<1>3. QED
  BY <1>1, <1>2 DEF PInv, BlocksInv

LEMMA ArraysAreSound == Spec => []PInv
BY InitKeeps, StepKeeps, PTL DEF Spec

\* A block's index has as many keys as there are entries.
LEMMA SoundIsExact ==
  ASSUME NEW d, Sound(d)
  PROVE  Cardinality(DOMAIN d.index) = Len(d.entries)
<1> DEFINE n == Len(d.entries)  f == [i \in 1..n |-> d.entries[i].key]
<1>1. n \in Nat /\ DOMAIN d.entries = 1..n
  BY DEF Sound, ArrData
<1>2. f \in Bijection(1..n, DOMAIN d.index)
  <2>1. f \in [1..n -> KeysOf(d.entries)] /\ \A t \in KeysOf(d.entries) : \E i \in 1..n : f[i] = t
    BY <1>1 DEF KeysOf
  <2>2. IsInjective(f)
    BY <1>1, SoundKeysDiffer DEF IsInjective, Distinct
  <2> HIDE DEF f, n
  <2>3. QED
    BY <2>1, <2>2 DEF Bijection, Injection, Surjection, Sound
<1> HIDE DEF f, n
<1>3. IsFiniteSet(1..n) /\ Cardinality(1..n) = n
  BY <1>1, FS_Interval
<1>4. QED
  BY <1>2, <1>3, FS_Bijection DEF ExistsBijection, n

\* The hash index of every array agrees with its list of entries: a lookup finds
\* the place of its key and nothing else (Arr::insert, remove, reindex).
THEOREM IndexIsExact == Spec => []IndexExact
<1>1. PInv => IndexExact
  <2> SUFFICES ASSUME PInv, NEW b \in Block
               PROVE  /\ DOMAIN block[b].index = KeysOf(block[b].entries)
                      /\ \A k \in DOMAIN block[b].index :
                           /\ block[b].index[k] \in DOMAIN block[b].entries
                           /\ block[b].entries[block[b].index[k]].key = k
                      /\ Cardinality(DOMAIN block[b].index) = Len(block[b].entries)
    BY DEF IndexExact
  <2>1. Sound(block[b])
    BY DEF PInv, BlocksInv, GoodArr
  <2>2. QED
    BY <2>1, SoundIsExact, IndexFinds DEF Sound
<1>2. QED
  BY <1>1, ArraysAreSound, PTL

\* Every block stays an array of program values, within 64-bit integers.
THEOREM ArrayTypes == Spec => []TypeOK
<1>1. PInv => TypeOK
  <2> SUFFICES ASSUME PInv, NEW b \in Block
               PROVE  /\ Len(block[b].entries) <= MaxLen
                      /\ \A i \in DOMAIN block[b].entries : block[b].entries[i].elem \in Elem
                      /\ \A k \in DOMAIN block[b].index : k \in StrKey \/ k \in MinInt..MaxInt
                      /\ block[b].next \in MinInt..MaxInt /\ block[b].pos \in Nat
    BY DEF TypeOK, PInv, BlocksInv
  <2> DEFINE d == block[b]
  <2>1. Sound(d) /\ Len(d.entries) <= MaxLen
    BY DEF PInv, BlocksInv, GoodArr
  <2>2. d.entries \in Seq(EntrySet) /\ d.index \in Indices /\ d.next \in MinInt..MaxInt /\ d.pos \in Nat
    BY <2>1 DEF Sound, ArrData
  <2> HIDE DEF d
  <2>3. \A i \in DOMAIN d.entries : d.entries[i] \in EntrySet
    BY <2>2
  <2>4. \A k \in DOMAIN d.index : k \in Keys
    BY <2>2 DEF Indices
  <2>5. QED
    BY <2>1, <2>2, <2>3, <2>4 DEF EntrySet, Keys, d
<1>2. QED
  BY <1>1, ArraysAreSound, PTL

----------------------------------------------------------------------------
(* What a rebuilt array holds. *)

\* next is the first number above the integer keys among the first k of ks.
FreeAfter(ks, k, next) ==
  /\ next \in Nat
  /\ \A j \in 1..k : ks[j] \notin StrKey => ks[j] < next
  /\ next = 0 \/ \E j \in 1..k : ks[j] \notin StrKey /\ ks[j] = next - 1

\* There is one such number.
LEMMA FreeIsUnique ==
  ASSUME NEW ks, NEW k, NEW m, NEW n, FreeAfter(ks, k, m), FreeAfter(ks, k, n)
  PROVE  m = n
<1>1. m \in Nat /\ n \in Nat
  BY DEF FreeAfter
<1>2. ASSUME m < n PROVE FALSE
  <2>1. PICK j \in 1..k : ks[j] \notin StrKey /\ ks[j] = n - 1
    BY <1>1, <1>2 DEF FreeAfter
  <2>2. ks[j] < m
    BY <2>1 DEF FreeAfter
  <2>3. QED
    BY <1>1, <1>2, <2>1, <2>2
<1>3. ASSUME n < m PROVE FALSE
  <2>1. PICK j \in 1..k : ks[j] \notin StrKey /\ ks[j] = m - 1
    BY <1>1, <1>3 DEF FreeAfter
  <2>2. ks[j] < n
    BY <2>1 DEF FreeAfter
  <2>3. QED
    BY <1>1, <1>3, <2>1, <2>2
<1>4. QED
  BY <1>1, <1>2, <1>3

\* insert's bump keeps it so.
LEMMA BumpIsFree ==
  ASSUME NEW k \in Nat, NEW ks, \A j \in 1..(k + 1) : ks[j] \in Keys,
         NEW next, FreeAfter(ks, k, next), ks[k + 1] \notin StrKey => ks[k + 1] < MaxInt
  PROVE  FreeAfter(ks, k + 1, Bump(next, ks[k + 1]))
<1> DEFINE key == ks[k + 1]
<1>1. next \in Nat /\ k + 1 \in 1..(k + 1) /\ 1..(k + 1) = 1..k \cup {k + 1}
  BY DEF FreeAfter
<1>2. key \in Keys /\ (key \notin StrKey => key \in Int)
  BY <1>1 DEF Keys
<1>3. CASE key \in StrKey
  <2>1. Bump(next, key) = next
    BY <1>3 DEF Bump
  <2>2. QED
    BY <1>1, <1>3, <2>1 DEF FreeAfter
<1>4. CASE key \notin StrKey /\ key < next
  <2>1. Bump(next, key) = next
    BY <1>1, <1>2, <1>4 DEF Bump
  <2>2. QED
    BY <1>1, <1>4, <2>1 DEF FreeAfter
<1>5. CASE key \notin StrKey /\ key >= next
  <2>1. Bump(next, key) = key + 1
    BY <1>2, <1>5, Bounds DEF Bump, Wrap
  <2> HIDE DEF key
  <2>2. key + 1 \in Nat /\ key = (key + 1) - 1 /\ key < key + 1
    BY <1>1, <1>2, <1>5
  <2>3. ASSUME NEW j \in 1..k, ks[j] \notin StrKey PROVE ks[j] < key + 1
    <3>1. ks[j] < next /\ ks[j] \in Int
      BY <1>1, <2>3 DEF FreeAfter, Keys
    <3>2. QED
      BY <1>1, <1>2, <1>5, <3>1
  <2>4. key = ks[k + 1]
    BY DEF key
  <2>5. FreeAfter(ks, k + 1, key + 1)
    BY <1>1, <1>5, <2>2, <2>3, <2>4 DEF FreeAfter
  <2>6. QED
    BY <2>1, <2>4, <2>5
<1>6. QED
  BY <1>1, <1>2, <1>3, <1>4, <1>5

\* The numbers of this instance of the engine fit its integers: an array is
\* shorter, and the keys a program names or appends are smaller, than i64::MAX.
NoOverflow == MaxLen <= MaxInt /\ MaxNext <= MaxInt /\ \A k \in IntKey : k < MaxInt

\* The keys that inserting the entries one by one, or pushing them, gives them.
Chosen(entries, kept, ks) ==
  /\ \A i \in 1..Len(entries) : ks[i] \in Keys /\ (ks[i] \notin StrKey => ks[i] < MaxInt)
  /\ \A i, j \in 1..Len(entries) : ks[i] = ks[j] => i = j
  /\ \A i \in 1..Len(entries) : IF entries[i].key \in kept THEN ks[i] = entries[i].key
                                 ELSE FreeAfter(ks, i - 1, ks[i])

\* Refilled gives the entries the keys ks, when these are the keys that insert
\* and push would choose one after the other.
LEMMA RefilledWith ==
  ASSUME NEW entries \in Seq(EntrySet), NEW kept, NEW ks, Chosen(entries, kept, ks)
  PROVE  LET r == Refilled(entries, kept)
         IN /\ r.entries \in Seq(EntrySet) /\ Len(r.entries) = Len(entries)
            /\ \A i \in 1..Len(entries) : r.entries[i] = Entry(ks[i], entries[i].elem)
            /\ FreeAfter(ks, Len(entries), r.next)
<1>0. Chosen(entries, kept, ks)
  OBVIOUS
<1> USE DEF Chosen
<1> DEFINE n == Len(entries)
<1>1. PICK f : /\ f[0] = Default /\ Refilled(entries, kept) = f[n]
               /\ \A i \in 1..n :
                    f[i] = Inserted(f[i - 1], KeyFor(f[i - 1], entries[i].key, kept), entries[i].elem)
  BY RefillSteps
<1> DEFINE Good(k) == /\ Sound(f[k]) /\ Len(f[k].entries) = k
                      /\ \A i \in 1..k : f[k].entries[i] = Entry(ks[i], entries[i].elem)
                      /\ FreeAfter(ks, k, f[k].next)
           T == {k \in 0..n : Good(k)}
<1>2. n \in Nat /\ \A i \in 1..n : entries[i] \in EntrySet /\ entries[i].elem \in Elem
  <2>1. n \in Nat /\ \A i \in 1..n : entries[i] \in EntrySet
    OBVIOUS
  <2>2. QED
    BY <2>1 DEF EntrySet
<1>3. Good(0)
  <2>1. FreeAfter(ks, 0, 0)
    BY DEF FreeAfter
  <2>2. QED
    BY <1>1, <2>1, DefaultIsSound
<1>4. ASSUME NEW k \in 0..n, Good(k), k + 1 <= n PROVE Good(k + 1)
  <2> DEFINE d == f[k]  key == ks[k + 1]  e == entries[k + 1].elem
  <2>1. k + 1 \in 1..n /\ (k + 1) - 1 = k /\ k \in Nat /\ \A i \in 1..k : i \in 1..n /\ i # k + 1
    BY <1>2, <1>4
  <2>2. KeyFor(d, entries[k + 1].key, kept) = key
    <3>1. CASE entries[k + 1].key \in kept
      BY <2>1, <3>1 DEF KeyFor
    <3>2. CASE entries[k + 1].key \notin kept
      <4>1. FreeAfter(ks, k, key) /\ FreeAfter(ks, k, d.next)
        BY <1>4, <2>1, <3>2
      <4> HIDE DEF key
      <4>2. d.next = key
        BY <4>1, FreeIsUnique
      <4>3. QED
        BY <3>2, <4>2 DEF KeyFor
    <3>3. QED
      BY <3>1, <3>2
  <2>3. f[k + 1] = Inserted(d, key, e)
    BY <1>1, <2>1, <2>2
  <2>4. /\ d \in ArrData /\ Sound(d) /\ Len(d.entries) = k /\ d.entries \in Seq(EntrySet)
        /\ key \in Keys /\ e \in Elem
    BY <1>2, <1>4, <2>1 DEF Sound, ArrData
  <2>5. ~ Has(d, key)
    <3>1. SUFFICES ASSUME Has(d, key) PROVE FALSE
      OBVIOUS
    <3>2. PICK i \in DOMAIN d.entries : d.entries[i].key = key
      BY <3>1 , <2>4 DEF Has, Sound, KeysOf
    <3>3. i \in 1..k /\ d.entries[i] = Entry(ks[i], entries[i].elem)
      BY <1>4, <2>4
    <3>4. ks[i] = key
      BY <3>2, <3>3 DEF Entry
    <3>5. QED
      BY <2>1, <3>3, <3>4
  <2>6. /\ Sound(f[k + 1]) /\ f[k + 1].entries = Append(d.entries, Entry(key, e))
        /\ f[k + 1].next = Bump(d.next, key)
    <3> HIDE DEF d, key, e
    <3>1. QED
      BY <2>3, <2>4, <2>5, InsertedNew
  <2>7. FreeAfter(ks, k + 1, f[k + 1].next)
    <3>1. FreeAfter(ks, k, d.next) /\ \A j \in 1..(k + 1) : ks[j] \in Keys
      BY <1>4, <2>1
    <3>2. QED
      BY <2>1, <2>6, <3>1, BumpIsFree
  <2>8. /\ Len(f[k + 1].entries) = k + 1
        /\ \A i \in 1..(k + 1) : f[k + 1].entries[i] = Entry(ks[i], entries[i].elem)
    <3> DEFINE new == Entry(key, e)
    <3>1. new \in EntrySet
      BY <2>4 DEF Entry, EntrySet
    <3> HIDE DEF new
    <3>2. /\ Len(f[k + 1].entries) = k + 1 /\ f[k + 1].entries[k + 1] = new
          /\ \A i \in 1..k : f[k + 1].entries[i] = d.entries[i]
      BY <2>1, <2>4, <2>6, <3>1 DEF new
    <3>3. 1..(k + 1) = 1..k \cup {k + 1}
      BY <2>1
    <3>4. QED
      BY <1>4, <3>2, <3>3 DEF new
  <2>9. QED
    BY <2>6, <2>7, <2>8
<1>5. T = 0..n
  <2> HIDE DEF Good
  <2>1. T \in SUBSET (0..n) /\ 0 \in T
    BY <1>2, <1>3
  <2>2. \A k \in 0..n : k \in T /\ k + 1 <= n => k + 1 \in T
    <3>1. ASSUME NEW k \in 0..n, k \in T, k + 1 <= n PROVE k + 1 \in T
      <4>1. Good(k) /\ k + 1 \in 0..n
        BY <1>2, <3>1
      <4>2. QED
        BY <1>4, <3>1, <4>1
    <3>2. QED
      BY <3>1
  <2> HIDE DEF T, n
  <2> QED
    BY <1>2, <2>1, <2>2, InductionUpTo
<1>6. Good(n)
  BY <1>2, <1>5
<1>7. QED
  BY <1>1, <1>6 DEF Sound, ArrData

----------------------------------------------------------------------------
(* What a variable's array looks like to a program. *)

ItemSet == Keys \X Elem
View(d) == [items |-> Items(d.entries), next |-> d.next, pos |-> d.pos]

LEMMA ItemsAre ==
  ASSUME NEW es \in Seq(EntrySet)
  PROVE  /\ Items(es) \in Seq(ItemSet) /\ Len(Items(es)) = Len(es)
         /\ DOMAIN Items(es) = 1..Len(es) /\ DOMAIN es = 1..Len(es)
         /\ \A i \in 1..Len(es) : /\ Items(es)[i] = <<es[i].key, es[i].elem>>
                                  /\ es[i].key \in Keys /\ es[i].elem \in Elem
<1>1. DOMAIN es = 1..Len(es) /\ Len(es) \in Nat /\ \A i \in 1..Len(es) : es[i] \in EntrySet
  OBVIOUS
<1>2. \A i \in 1..Len(es) : es[i].key \in Keys /\ es[i].elem \in Elem
  BY <1>1 DEF EntrySet
<1>3. Items(es) = [i \in 1..Len(es) |-> <<es[i].key, es[i].elem>>]
  BY <1>1 DEF Items
<1>4. Items(es) \in [1..Len(es) -> ItemSet]
  BY <1>2, <1>3 DEF ItemSet
<1>5. Items(es) \in Seq(ItemSet) /\ Len(Items(es)) = Len(es)
  BY <1>1, <1>4
<1>6. QED
  BY <1>1, <1>2, <1>3, <1>5

\* Two lists that show the same keys and elements.
LEMMA ItemsEqual ==
  ASSUME NEW es \in Seq(EntrySet), NEW s \in Seq(ItemSet), Len(s) = Len(es),
         \A i \in 1..Len(es) : s[i] = <<es[i].key, es[i].elem>>
  PROVE  Items(es) = s
<1>1. /\ Items(es) \in Seq(ItemSet) /\ Len(Items(es)) = Len(s)
      /\ \A i \in 1..Len(s) : Items(es)[i] = s[i]
  BY ItemsAre
<1>2. QED
  BY <1>1, SeqEqual

LEMMA ItemsKeys ==
  ASSUME NEW es \in Seq(EntrySet)
  PROVE  OA!KeysOf(Items(es)) = KeysOf(es)
<1>1. \A i \in 1..Len(es) : Items(es)[i][1] = es[i].key
  BY ItemsAre
<1>2. QED
  BY <1>1, ItemsAre DEF OA!KeysOf, KeysOf

\* The key an append to a rebuilt array uses is the one insert has counted.
LEMMA FirstFreeIs ==
  ASSUME NEW n \in Nat, NEW items, DOMAIN items = 1..n, NEW ks,
         \A i \in 1..n : items[i][1] = ks[i] /\ ks[i] \in Keys,
         NEW next, FreeAfter(ks, n, next)
  PROVE  OA!FirstFree(items) = next
<1> DEFINE ints == {k \in OA!KeysOf(items) \ StrKey : k >= 0}
<1>1. \A k : k \in ints <=> \E i \in 1..n : k = ks[i] /\ k \notin StrKey /\ k >= 0
  BY DEF OA!KeysOf
<1>2. OA!FirstFree(items) = IF ints = {} THEN 0 ELSE (CHOOSE x \in ints : \A y \in ints : x >= y) + 1
  BY DEF OA!FirstFree, OA!Max
<1> HIDE DEF ints
<1>3. next \in Nat /\ \A i \in 1..n : ks[i] \notin StrKey => ks[i] \in Int /\ ks[i] < next
  BY DEF FreeAfter, Keys
<1>4. CASE next = 0
  <2>1. ints = {}
    BY <1>1, <1>3, <1>4
  <2>2. QED
    BY <1>2, <1>4, <2>1
<1>5. CASE next # 0
  <2>1. next - 1 \in ints
    <3>1. PICK j \in 1..n : ks[j] \notin StrKey /\ ks[j] = next - 1
      BY <1>5 DEF FreeAfter
    <3>2. next - 1 >= 0
      BY <1>3, <1>5
    <3>3. QED
      BY <1>1, <3>1, <3>2
  <2>2. \A y \in ints : y \in Int /\ y <= next - 1
    BY <1>1, <1>3
  <2>3. (CHOOSE x \in ints : \A y \in ints : x >= y) = next - 1
    <3> DEFINE m == CHOOSE x \in ints : \A y \in ints : x >= y
    <3>1. \A y \in ints : next - 1 >= y
      BY <1>3, <2>2
    <3>2. m \in ints /\ \A y \in ints : m >= y
      BY <2>1, <3>1
    <3> HIDE DEF m
    <3>3. m = next - 1
      BY <1>3, <2>1, <2>2, <3>2
    <3>4. QED
      BY <3>3 DEF m
  <2>4. OA!FirstFree(items) = (CHOOSE x \in ints : \A y \in ints : x >= y) + 1
    BY <1>2, <2>1
  <2>5. (next - 1) + 1 = next
    BY <1>3
  <2>6. QED
    BY <2>3, <2>4, <2>5
<1>6. QED
  BY <1>4, <1>5

\* The next key is above every integer key: an append never overwrites.
Above(d) == \A i \in DOMAIN d.entries : d.entries[i].key \notin StrKey => d.entries[i].key < d.next

\* A refilled array, as a program sees it.
LEMMA RefilledView ==
  ASSUME NEW entries \in Seq(EntrySet), NEW kept, NEW ks, Chosen(entries, kept, ks),
         NEW items \in Seq(ItemSet), Len(items) = Len(entries),
         \A i \in 1..Len(entries) : items[i] = <<ks[i], entries[i].elem>>
  PROVE  LET r == Refilled(entries, kept)
         IN Above(r) /\ View(r) = [items |-> items, next |-> OA!FirstFree(items), pos |-> 0]
<1> DEFINE r == Refilled(entries, kept)  n == Len(entries)
<1>1. /\ r.entries \in Seq(EntrySet) /\ Len(r.entries) = n
      /\ \A i \in 1..n : r.entries[i] = Entry(ks[i], entries[i].elem)
      /\ FreeAfter(ks, n, r.next)
  BY RefilledWith
<1>2. r.pos = 0 /\ n \in Nat
  BY RefilledIsSound
<1> HIDE DEF r
<1> USE DEF Chosen
<1>3. ASSUME NEW i \in 1..n PROVE r.entries[i].key = ks[i] /\ r.entries[i].elem = entries[i].elem
  <2>1. r.entries[i] = Entry(ks[i], entries[i].elem)
    BY <1>1
  <2>2. QED
    BY <2>1 DEF Entry
<1>4. Items(r.entries) = items
  <2>1. \A i \in 1..n : items[i] = <<ks[i], entries[i].elem>>
    OBVIOUS
  <2>2. \A i \in 1..Len(r.entries) : items[i] = <<r.entries[i].key, r.entries[i].elem>>
    BY <1>1, <1>3, <2>1
  <2>3. Len(items) = Len(r.entries) /\ r.entries \in Seq(EntrySet)
    BY <1>1
  <2>4. QED
    BY <2>2, <2>3, ItemsEqual
<1>5. DOMAIN items = 1..n /\ \A i \in 1..n : items[i][1] = ks[i]
  OBVIOUS
<1>6. OA!FirstFree(items) = r.next
  <2>1. \A i \in 1..n : items[i][1] = ks[i] /\ ks[i] \in Keys
    BY <1>5
  <2>2. FreeAfter(ks, n, r.next) /\ n \in Nat /\ DOMAIN items = 1..n
    BY <1>1, <1>2, <1>5
  <2> HIDE DEF n
  <2>3. QED
    BY <2>1, <2>2, FirstFreeIs
<1>7. Above(r)
  BY <1>1, <1>3 DEF Above, FreeAfter
<1>8. QED
  BY <1>2, <1>4, <1>6, <1>7 DEF View, r

\* Integer keys that can be followed by another.
Small(es) == \A i \in DOMAIN es : es[i].key \notin StrKey => es[i].key < MaxInt

\* Inserting entries with different keys, in a new order or without the last.
LEMMA RebuiltView ==
  ASSUME NEW es \in Seq(EntrySet), Distinct(es), Small(es)
  PROVE  /\ Above(Rebuilt(es))
         /\ View(Rebuilt(es)) = [items |-> Items(es), next |-> OA!FirstFree(Items(es)), pos |-> 0]
<1> DEFINE n == Len(es)  ks == [i \in 1..n |-> es[i].key]
<1>1. DOMAIN es = 1..n
  OBVIOUS
<1>2. \A i \in 1..n : ks[i] \in Keys /\ (ks[i] \notin StrKey => ks[i] < MaxInt)
  BY <1>1, ItemsAre DEF Small
<1>3. \A i, j \in 1..n : ks[i] = ks[j] => i = j
  BY <1>1 DEF Distinct
<1>4. \A i \in 1..n : es[i].key \in KeysOf(es) /\ ks[i] = es[i].key
  BY <1>1 DEF KeysOf
<1>6. \A i \in 1..n : IF es[i].key \in KeysOf(es) THEN ks[i] = es[i].key
                      ELSE FreeAfter(ks, i - 1, ks[i])
  BY <1>4
<1>5. /\ Items(es) \in Seq(ItemSet) /\ Len(Items(es)) = n
      /\ \A i \in 1..n : Items(es)[i] = <<ks[i], es[i].elem>>
  BY <1>4, ItemsAre
<1> DEFINE kept == KeysOf(es)  items == Items(es)
<1> HIDE DEF ks, kept, items
<1>7. /\ Above(Refilled(es, kept))
      /\ View(Refilled(es, kept)) = [items |-> items, next |-> OA!FirstFree(items), pos |-> 0]
  <2>1. \A i \in 1..n : IF es[i].key \in kept THEN ks[i] = es[i].key ELSE FreeAfter(ks, i - 1, ks[i])
    BY <1>6 DEF kept
  <2>2. /\ items \in Seq(ItemSet) /\ Len(items) = n
        /\ \A i \in 1..n : items[i] = <<ks[i], es[i].elem>>
    BY <1>5 DEF items
  <2>3. Chosen(es, kept, ks)
    BY <1>2, <1>3, <2>1 DEF Chosen
  <2>4. QED
    BY <2>2, <2>3, RefilledView
<1>8. QED
  BY <1>7 DEF Rebuilt, kept, items

\* Pushing the elements one after the other.
ListItems(es) == [i \in 1..Len(es) |-> <<i - 1, es[i].elem>>]

LEMMA ListedView ==
  ASSUME NoOverflow, NEW es \in Seq(EntrySet), Len(es) <= MaxLen
  PROVE  /\ Above(Listed(es))
         /\ View(Listed(es)) = [items |-> ListItems(es), next |-> OA!FirstFree(ListItems(es)), pos |-> 0]
<1> DEFINE n == Len(es)  ks == [i \in 1..n |-> i - 1]  items == ListItems(es)  kept == {}
<1>1. n \in Nat /\ n <= MaxInt /\ MaxInt \in Nat /\ MinInt \in Int /\ MinInt <= 0
  BY Bounds DEF NoOverflow, MinInt
<1>2. \A i \in 1..n : ks[i] \notin StrKey /\ ks[i] \in Int
  BY <1>1, KindsDiffer
<1>3. \A i \in 1..n : ks[i] \in Keys /\ ks[i] < MaxInt
  BY <1>1 DEF Keys
<1>4. \A i, j \in 1..n : ks[i] = ks[j] => i = j
  BY <1>1
<1>5. ASSUME NEW i \in 1..n PROVE FreeAfter(ks, i - 1, ks[i])
  <2>1. ks[i] \in Nat /\ \A j \in 1..(i - 1) : ks[j] < ks[i]
    BY <1>1
  <2>2. CASE i = 1
    BY <2>1, <2>2 DEF FreeAfter
  <2>3. CASE i # 1
    <3>1. i - 1 \in 1..n /\ i - 1 \in 1..(i - 1) /\ ks[i - 1] = ks[i] - 1
      BY <1>1, <2>3
    <3>2. QED
      BY <1>2, <2>1, <3>1 DEF FreeAfter
  <2>4. QED
    BY <2>2, <2>3
<1>6. \A i \in 1..n : IF es[i].key \in kept THEN ks[i] = es[i].key ELSE FreeAfter(ks, i - 1, ks[i])
  BY <1>5
<1>7. \A i \in 1..n : ks[i] \in Keys /\ (ks[i] \notin StrKey => ks[i] < MaxInt)
  BY <1>3
<1>8. \A i \in 1..n : items[i] = <<ks[i], es[i].elem>>
  BY DEF ListItems
<1>9. items \in Seq(ItemSet) /\ Len(items) = n
  <2>1. \A i \in 1..n : es[i].elem \in Elem
    BY ItemsAre
  <2>2. \A i \in 1..n : <<i - 1, es[i].elem>> \in ItemSet
    BY <1>3, <2>1 DEF ItemSet
  <2>3. items \in [1..n -> ItemSet]
    BY <2>2 DEF ListItems
  <2> HIDE DEF items
  <2>4. QED
    BY <1>1, <2>3
<1> HIDE DEF ks, items, kept
<1>12. Chosen(es, kept, ks)
  BY <1>4, <1>6, <1>7 DEF Chosen
<1>10. /\ Above(Refilled(es, kept))
       /\ View(Refilled(es, kept)) = [items |-> items, next |-> OA!FirstFree(items), pos |-> 0]
  BY <1>8, <1>9, <1>12, RefilledView
<1>11. QED
  BY <1>10 DEF Listed, kept, items

\* The abstract arrays count with the same operator.
LEMMA SameCardinality ==
  ASSUME NEW S
  PROVE  OA!Cardinality(S) = Cardinality(S)
BY DEF OA!Cardinality, Cardinality

\* Inserting string keys and pushing the elements of integer keys.
LEMMA RenumberedView ==
  ASSUME NoOverflow, NEW es \in Seq(EntrySet), Len(es) <= MaxLen,
         \A i, j \in 1..Len(es) : es[i].key \in StrKey /\ es[i].key = es[j].key => i = j
  PROVE  /\ Above(Renumbered(es))
         /\ View(Renumbered(es)) = [items |-> OA!Renumbered(Items(es)),
                                    next |-> OA!FirstFree(OA!Renumbered(Items(es))), pos |-> 0]
<1> DEFINE n == Len(es)
           P == {j \in 1..n : es[j].key \notin StrKey}
           count(i) == Cardinality(P \cap (1..i))
           ks == [i \in 1..n |-> IF es[i].key \in StrKey THEN es[i].key ELSE count(i - 1)]
           items == OA!Renumbered(Items(es))
<1>1. /\ n \in Nat /\ n <= MaxInt /\ MaxInt \in Nat /\ MinInt \in Int /\ MinInt <= 0
      /\ P \in SUBSET (1..n)
  BY Bounds DEF NoOverflow, MinInt
<1>2. ASSUME NEW i \in 0..n
      PROVE  /\ count(i) \in Nat /\ count(i) <= i
             /\ \A j \in P \cap (1..i) : count(j - 1) < count(i)
             /\ count(i) = 0 \/ \E j \in P \cap (1..i) : count(j - 1) = count(i) - 1
  <2> HIDE DEF P, n
  <2>1. QED
    BY <1>1, CountUpTo
<1> HIDE DEF count
<1>3. ASSUME NEW i \in 1..n, i \in P
      PROVE  /\ ks[i] = count(i - 1) /\ i - 1 \in 0..n /\ ks[i] \in Nat /\ ks[i] < MaxInt
             /\ ks[i] \notin StrKey /\ ks[i] \in Keys
  <2>1. i - 1 \in 0..n /\ ks[i] = count(i - 1)
    BY <1>1, <1>3
  <2> HIDE DEF ks
  <2>2. ks[i] \in Nat /\ ks[i] <= i - 1
    BY <1>2, <2>1
  <2>3. ks[i] < MaxInt
    BY <1>1, <2>2
  <2>4. ks[i] \notin StrKey /\ ks[i] \in Keys
    BY <1>1, <2>2, <2>3, KindsDiffer DEF Keys
  <2>5. QED
    BY <2>1, <2>2, <2>3, <2>4
<1>4. ASSUME NEW i \in 1..n, i \notin P
      PROVE  ks[i] = es[i].key /\ ks[i] \in StrKey /\ ks[i] \in Keys
  BY <1>4 DEF Keys
<1>5. ASSUME NEW i \in 1..n, i \in P PROVE FreeAfter(ks, i - 1, ks[i])
  <2>1. \A j \in 1..(i - 1) : j \in 1..n /\ (ks[j] \notin StrKey => j \in P)
    BY <1>1, <1>4
  <2>2. \A j \in 1..(i - 1) : ks[j] \notin StrKey => ks[j] < ks[i]
    BY <1>2, <1>3, <1>5, <2>1
  <2>3. ks[i] = 0 \/ \E j \in 1..(i - 1) : ks[j] \notin StrKey /\ ks[j] = ks[i] - 1
    BY <1>2, <1>3, <1>5
  <2>4. QED
    BY <1>3, <1>5, <2>2, <2>3 DEF FreeAfter
<1>6. ASSUME NEW i \in 1..n, NEW j \in 1..n, ks[i] = ks[j] PROVE i = j
  <2>1. CASE i \notin P
    BY <1>3, <1>4, <1>6, <2>1
  <2>2. CASE i \in P
    <3>1. j \in P
      BY <1>3, <1>4, <1>6, <2>2
    <3>2. ASSUME i < j PROVE ks[i] < ks[j]
      <4>1. i \in P \cap (1..(j - 1)) /\ j - 1 \in 0..n
        BY <2>2, <3>1, <3>2
      <4>2. count(i - 1) < count(j - 1)
        BY <1>2, <4>1
      <4>3. QED
        BY <1>3, <2>2, <3>1, <4>2
    <3>3. ASSUME j < i PROVE ks[j] < ks[i]
      <4>1. j \in P \cap (1..(i - 1)) /\ i - 1 \in 0..n
        BY <2>2, <3>1, <3>3
      <4>2. count(j - 1) < count(i - 1)
        BY <1>2, <4>1
      <4>3. QED
        BY <1>3, <2>2, <3>1, <4>2
    <3>4. ks[i] \in Nat /\ ks[j] \in Nat
      BY <1>3, <2>2, <3>1
    <3>5. QED
      BY <1>6, <3>2, <3>3, <3>4
  <2>3. QED
    BY <2>1, <2>2
<1>7. ASSUME NEW i \in 1..n PROVE items[i] = <<ks[i], es[i].elem>>
  <2>1. /\ DOMAIN Items(es) = 1..n
        /\ \A j \in 1..n : Items(es)[j][1] = es[j].key /\ Items(es)[j][2] = es[j].elem
    BY ItemsAre
  <2>2. {j \in 1..(i - 1) : Items(es)[j][1] \notin StrKey} = P \cap (1..(i - 1))
    BY <1>1, <2>1
  <2>3. items[i] = <<IF Items(es)[i][1] \in StrKey THEN Items(es)[i][1]
                     ELSE Cardinality({j \in 1..(i - 1) : Items(es)[j][1] \notin StrKey}), Items(es)[i][2]>>
    BY <2>1, SameCardinality DEF OA!Renumbered
  <2> HIDE DEF items
  <2>4. items[i] = <<IF es[i].key \in StrKey THEN es[i].key ELSE count(i - 1), es[i].elem>>
    BY <2>1, <2>2, <2>3 DEF count
  <2>5. QED
    BY <2>4
<1>8. DOMAIN items = 1..n
  BY ItemsAre DEF OA!Renumbered
<1>9. items \in Seq(ItemSet) /\ Len(items) = n
  <2>1. \A i \in 1..n : ks[i] \in Keys /\ es[i].elem \in Elem
    BY <1>3, <1>4, ItemsAre
  <2>2. items = [i \in 1..n |-> items[i]]
    BY <1>8 DEF OA!Renumbered
  <2> HIDE DEF items, ks
  <2>3. ASSUME NEW i \in 1..n PROVE items[i] \in ItemSet
    <3>1. items[i] = <<ks[i], es[i].elem>> /\ ks[i] \in Keys /\ es[i].elem \in Elem
      BY <1>7, <2>1
    <3>2. QED
      BY <3>1 DEF ItemSet
  <2>4. items \in [1..n -> ItemSet]
    BY <2>2, <2>3
  <2>5. QED
    BY <1>1, <2>4
<1>10. \A i \in 1..n : ks[i] \in Keys /\ (ks[i] \notin StrKey => ks[i] < MaxInt)
  BY <1>3, <1>4
<1>11. \A i \in 1..n : IF es[i].key \in StrKey THEN ks[i] = es[i].key ELSE FreeAfter(ks, i - 1, ks[i])
  BY <1>5
<1> HIDE DEF ks, P, items
<1>12. Chosen(es, StrKey, ks)
  BY <1>6, <1>10, <1>11 DEF Chosen
<1>13. QED
  BY <1>7, <1>9, <1>12, RefilledView DEF Renumbered, items

----------------------------------------------------------------------------
(* Every step is a step of arrays that each variable has for itself. *)

\* The invariant the refinement needs: the next key is above every integer key.
AInv == PInv /\ \A b \in Block : Above(block[b])

\* What a program sees of a variable.
LEMMA ValuesAre ==
  ASSUME BlocksInv, NEW v \in Var
  PROVE  /\ Values[v] = View(Data(v)) /\ Values[v].items = Items(Data(v).entries)
         /\ Values[v].next = Data(v).next /\ Values[v].pos = Data(v).pos
         /\ Values[v].items \in Seq(ItemSet) /\ Len(Values[v].items) = Len(Data(v).entries)
         /\ DOMAIN Values[v].items = 1..Len(Data(v).entries)
         /\ DOMAIN Data(v).entries = 1..Len(Data(v).entries)
         /\ \A i \in 1..Len(Data(v).entries) :
              /\ Values[v].items[i] = <<Data(v).entries[i].key, Data(v).entries[i].elem>>
              /\ Data(v).entries[i].key \in Keys /\ Data(v).entries[i].elem \in Elem
         /\ OA!KeysOf(Values[v].items) = KeysOf(Data(v).entries)
<1>1. Values[v] = View(Data(v))
  BY DEF Values, View
<1>2. Values[v].items = Items(Data(v).entries) /\ Values[v].next = Data(v).next /\ Values[v].pos = Data(v).pos
  BY <1>1 DEF View
<1>3. Data(v).entries \in Seq(EntrySet)
  BY DataIsGood
<1>4. QED
  BY <1>1, <1>2, <1>3, ItemsAre, ItemsKeys

\* A mutation through a handle changes what one variable shows, shared or not.
LEMMA MutateView ==
  ASSUME BlocksInv, NEW v \in Var, NEW d, Mutate(v, d)
  PROVE  /\ Values' = [Values EXCEPT ![v] = View(d)]
         /\ \A b \in Block : block'[b] = block[b] \/ block'[b] = d
<1>1. ptr \in [Var -> Block] /\ block \in [Block -> ArrData]
  BY DEF BlocksInv
<1>2. /\ \A w \in Var : block'[ptr'[w]] = IF w = v THEN d ELSE block[ptr[w]]
      /\ \A b \in Block : block'[b] = block[b] \/ block'[b] = d
  <2>1. CASE Holders(ptr[v]) = {v}
    <3>1. block' = [block EXCEPT ![ptr[v]] = d] /\ ptr' = ptr
      BY <2>1 DEF Mutate
    <3>2. \A w \in Var : w # v => ptr[w] # ptr[v]
      BY <2>1 DEF Holders
    <3>3. QED
      BY <1>1, <3>1, <3>2
  <2>2. CASE Holders(ptr[v]) # {v}
    <3>1. PICK b \in Free : ptr' = [ptr EXCEPT ![v] = b] /\ block' = [block EXCEPT ![b] = d]
      BY <2>2 DEF Mutate
    <3>2. b \in Block /\ \A w \in Var : ptr[w] # b
      BY DEF Free, Holders
    <3>3. QED
      BY <1>1, <3>1, <3>2
  <2>3. QED
    BY <2>1, <2>2
<1>3. Values' = [w \in Var |-> View(block'[ptr'[w]])]
  BY DEF Values, Data, View
<1>4. Values = [w \in Var |-> View(block[ptr[w]])]
  BY DEF Values, Data, View
<1>5. QED
  BY <1>2, <1>3, <1>4

\* So it is a step of the abstract arrays.
LEMMA Mutated ==
  ASSUME AInv, NEW v \in Var, NEW d, Mutate(v, d), Above(d), NEW i, NEW n, NEW p,
         View(d) = [items |-> i, next |-> n, pos |-> p]
  PROVE  /\ OA!Becomes(v, i, n, p) /\ \A b \in Block : Above(block'[b])
         /\ Values'[v] = View(d)
<1>1. /\ Values' = [Values EXCEPT ![v] = View(d)]
      /\ \A b \in Block : block'[b] = block[b] \/ block'[b] = d
  BY MutateView DEF AInv, PInv
<1>2. \A b \in Block : Above(block'[b])
  BY <1>1, Zenon DEF AInv
<1>3. DOMAIN Values = Var
  BY DEF Values
<1>4. QED
  BY <1>1, <1>2, <1>3 DEF OA!Becomes

\* The next key after an insertion.
LEMMA BumpIsAfter ==
  ASSUME NEW next \in MinInt..MaxInt, NEW k \in Keys, k \notin StrKey => k < MaxInt
  PROVE  /\ Bump(next, k) = OA!After(next, k) /\ Bump(next, k) \in Int /\ next <= Bump(next, k)
         /\ k \notin StrKey => k < Bump(next, k)
<1>1. MaxInt \in Int /\ MinInt \in Int /\ next \in Int
  BY Bounds DEF MinInt
<1>2. CASE k \in StrKey
  BY <1>1, <1>2 DEF Bump, OA!After
<1>3. CASE k \notin StrKey
  <2>1. k \in Int /\ k < MaxInt
    BY <1>1, <1>3 DEF Keys
  <2>2. Bump(next, k) = IF k >= next THEN k + 1 ELSE next
    BY <1>1, <1>3, <2>1 DEF Bump, Wrap
  <2>3. OA!After(next, k) = IF k >= next THEN k + 1 ELSE next
    BY <1>3 DEF OA!After
  <2>4. QED
    BY <1>1, <2>1, <2>2, <2>3
<1>4. QED
  BY <1>2, <1>3

\* An assignment to an element, and an append.
LEMMA InsertIsStep ==
  ASSUME AInv, NEW v \in Var, NEW k \in Keys, k \notin StrKey => k < MaxInt, NEW x \in Val,
         Insert(v, k, x)
  PROVE  /\ OA!Put(v, k, x) \/ OA!Extend(v, k, x)
         /\ k \in OA!KeysOf(Values[v].items) \cup OA!KeysOf(Values'[v].items)
         /\ \A b \in Block : Above(block'[b])
<1> DEFINE d == Data(v)  n == Len(d.entries)  j == d.index[k]  after == OA!After(d.next, k)
           its == Items(d.entries)
<1>1. /\ GoodArr(d) /\ Sound(d) /\ d \in ArrData /\ d.entries \in Seq(EntrySet)
      /\ d.next \in MinInt..MaxInt /\ x \in Elem /\ Above(d) /\ BlocksInv
  BY DataIsGood DEF AInv, PInv, Elem, BlocksInv, Data
<1>2. /\ Bump(d.next, k) = after /\ after \in Int /\ d.next <= after
      /\ k \notin StrKey => k < after
  BY <1>1, BumpIsAfter
<1>3. /\ Values[v].items = its /\ Values[v].next = d.next /\ Values[v].pos = d.pos
      /\ its \in Seq(ItemSet) /\ Len(its) = n /\ DOMAIN its = 1..n /\ DOMAIN d.entries = 1..n
      /\ \A i \in 1..n : its[i] = <<d.entries[i].key, d.entries[i].elem>>
      /\ \A i \in 1..n : d.entries[i].key \in Keys
      /\ OA!KeysOf(its) = KeysOf(d.entries) /\ KeysOf(d.entries) = DOMAIN d.index
  BY <1>1, ValuesAre DEF Sound
<1>5. MinInt \in Int /\ MaxInt \in Int /\ n \in Nat
  BY <1>1, Bounds DEF MinInt
<1>6. CASE Has(d, k)
  <2>1. j \in 1..n /\ d.entries[j] = Entry(k, At(d, k)) /\ d.entries[j].key = k /\ At(d, k) \in Elem
    BY <1>1, <1>3, <1>6, Found DEF Entry
  <2>2. its[j] = <<k, At(d, k)>> /\ k \in OA!KeysOf(Values[v].items)
    BY <1>3, <1>6, <2>1 DEF Entry, Has
  <2>3. CASE At(d, k) \in Cell
    <3> DEFINE r == [d EXCEPT !.next = Bump(d.next, k)]
    <3>1. Mutate(v, r) /\ heap' = [heap EXCEPT ![At(d, k)] = x]
      BY <1>6, <2>3 DEF Insert
    <3>2. Bump(d.next, k) \in MinInt..MaxInt
      BY <1>1, NextIsInt
    <3>3. r.next = after /\ r.pos = d.pos /\ r.entries = d.entries
      BY <1>1, <1>2, <3>2, NextKeeps
    <3> HIDE DEF r, d, j, n, after, its
    <3>4. Above(r)
      <4>1. ASSUME NEW i \in DOMAIN r.entries, r.entries[i].key \notin StrKey
            PROVE  r.entries[i].key < r.next
        <5>1. d.entries[i].key < d.next /\ d.entries[i].key \in Int
          BY <1>1, <1>3, <1>5, <3>3, <4>1 DEF Above, Keys
        <5>2. QED
          BY <1>1, <1>2, <1>5, <3>3, <5>1
      <4>2. QED
        BY <4>1 DEF Above
    <3>5. View(r) = [items |-> [its EXCEPT ![j] = <<its[j][1], At(d, k)>>], next |-> after, pos |-> d.pos]
      <4>1. [its EXCEPT ![j] = <<its[j][1], At(d, k)>>] = its
        <5>1. <<its[j][1], At(d, k)>> = its[j]
          BY <2>2
        <5>2. [its EXCEPT ![j] = its[j]] = its
          BY <1>3
        <5>3. QED
          BY <5>1, <5>2
      <4>2. QED
        BY <3>3, <4>1 DEF View, its
    <3>6. /\ OA!Becomes(v, [its EXCEPT ![j] = <<its[j][1], At(d, k)>>], after, d.pos)
          /\ \A b \in Block : Above(block'[b])
      BY <3>1, <3>4, <3>5, Mutated
    <3>7. OA!Update(v, j, At(d, k), after)
      BY <1>3, <3>6 DEF OA!Update
    <3>8. OA!Put(v, k, x)
      <4>1. /\ j \in DOMAIN Values[v].items /\ Values[v].items[j][1] = k
            /\ Values[v].items[j][2] = At(d, k)
        BY <1>3, <2>1, <2>2
      <4>2. heap' = [heap EXCEPT ![Values[v].items[j][2]] = x]
        BY <3>1, <4>1
      <4>3. OA!Update(v, j, Values[v].items[j][2], OA!After(Values[v].next, k))
        BY <1>3, <3>7, <4>1 DEF after
      <4>4. QED
        BY <2>3, <4>1, <4>2, <4>3 DEF OA!Put
    <3>9. QED
      BY <2>2, <3>6, <3>8
  <2>4. CASE At(d, k) \notin Cell
    <3> DEFINE r == Inserted(d, k, x)  new == Entry(k, x)
    <3>1. Mutate(v, r) /\ heap' = heap
      BY <2>4 DEF Insert
    <3>2. /\ Sound(r) /\ r.entries = [d.entries EXCEPT ![j] = new] /\ r.next = after /\ r.pos = d.pos
          /\ new \in EntrySet /\ new.key = k /\ new.elem = x
      BY <1>1, <1>2, <1>6, InsertedOld DEF Entry, EntrySet
    <3> HIDE DEF r, d, j, n, after, its, new
    <3>3. /\ r.entries \in Seq(EntrySet) /\ Len(r.entries) = n /\ DOMAIN r.entries = 1..n
          /\ \A i \in 1..n : r.entries[i] = IF i = j THEN new ELSE d.entries[i]
      BY <1>1, <1>3, <2>1, <3>2 DEF n
    <3>4. Above(r)
      <4>1. ASSUME NEW i \in DOMAIN r.entries, r.entries[i].key \notin StrKey
            PROVE  r.entries[i].key < r.next
        <5>1. r.entries[i].key = d.entries[i].key
          BY <2>1, <3>2, <3>3
        <5>2. d.entries[i].key < d.next /\ d.entries[i].key \in Int
          BY <1>1, <1>3, <1>5, <3>3, <4>1, <5>1 DEF Above, Keys
        <5>3. QED
          BY <1>1, <1>2, <1>5, <3>2, <5>1, <5>2
      <4>2. QED
        BY <4>1 DEF Above
    <3>5. View(r) = [items |-> [its EXCEPT ![j] = <<its[j][1], x>>], next |-> after, pos |-> d.pos]
      <4> DEFINE s == [its EXCEPT ![j] = <<its[j][1], x>>]
      <4>1. <<k, x>> \in ItemSet /\ its[j][1] = k
        BY <1>1, <2>2 DEF ItemSet
      <4>2. s \in Seq(ItemSet) /\ Len(s) = n
        BY <1>3, <2>1, <4>1
      <4>3. ASSUME NEW i \in 1..n PROVE s[i] = <<r.entries[i].key, r.entries[i].elem>>
        BY <1>3, <2>1, <3>2, <3>3, <4>1
      <4> HIDE DEF s
      <4>4. Items(r.entries) = s
        BY <3>3, <4>2, <4>3, ItemsEqual
      <4>5. QED
        BY <3>2, <4>4 DEF View, s
    <3>6. /\ OA!Becomes(v, [its EXCEPT ![j] = <<its[j][1], x>>], after, d.pos)
          /\ \A b \in Block : Above(block'[b])
      BY <3>1, <3>4, <3>5, Mutated
    <3>7. OA!Update(v, j, x, after)
      BY <1>3, <3>6 DEF OA!Update
    <3>8. OA!Put(v, k, x)
      BY <1>3, <2>1, <2>2, <2>4, <3>1, <3>7 DEF OA!Put, after
    <3>9. QED
      BY <2>2, <3>6, <3>8
  <2>5. QED
    BY <2>3, <2>4
<1>7. CASE ~ Has(d, k)
  <2> DEFINE r == Inserted(d, k, x)  new == Entry(k, x)
  <2>1. Mutate(v, r) /\ heap' = heap
    BY <1>7 DEF Insert
  <2>2. /\ Sound(r) /\ r.entries = Append(d.entries, new) /\ r.next = after /\ r.pos = d.pos
        /\ new \in EntrySet /\ new.key = k /\ new.elem = x
    BY <1>1, <1>2, <1>7, InsertedNew DEF Entry, EntrySet
  <2>3. k \notin OA!KeysOf(Values[v].items)
    BY <1>3, <1>7 DEF Has
  <2> HIDE DEF r, d, j, n, after, its, new
  <2>4. /\ r.entries \in Seq(EntrySet) /\ Len(r.entries) = n + 1 /\ DOMAIN r.entries = 1..n \cup {n + 1}
        /\ r.entries[n + 1] = new
        /\ \A i \in 1..n : r.entries[i] = d.entries[i]
    BY <1>1, <1>3, <1>5, <2>2 DEF n
  <2>5. Above(r)
    <3>1. ASSUME NEW i \in 1..n, r.entries[i].key \notin StrKey
          PROVE  r.entries[i].key < r.next
      <4>1. d.entries[i].key < d.next /\ d.entries[i].key \in Int
        BY <1>1, <1>3, <1>5, <2>4, <3>1 DEF Above, Keys
      <4>2. QED
        BY <1>1, <1>2, <1>5, <2>2, <2>4, <4>1
    <3>2. r.entries[n + 1].key \notin StrKey => r.entries[n + 1].key < r.next
      BY <1>2, <2>2, <2>4
    <3>3. QED
      BY <2>4, <3>1, <3>2 DEF Above
  <2>6. View(r) = [items |-> Append(its, <<k, x>>), next |-> after, pos |-> d.pos]
    <3> DEFINE s == Append(its, <<k, x>>)
    <3>1. <<k, x>> \in ItemSet
      BY <1>1 DEF ItemSet
    <3>2. /\ s \in Seq(ItemSet) /\ Len(s) = n + 1 /\ s[n + 1] = <<k, x>>
          /\ \A i \in 1..n : s[i] = its[i]
      BY <1>3, <1>5, <3>1
    <3> HIDE DEF s
    <3>3. ASSUME NEW i \in 1..(n + 1) PROVE s[i] = <<r.entries[i].key, r.entries[i].elem>>
      BY <1>3, <1>5, <2>2, <2>4, <3>2
    <3>4. Items(r.entries) = s
      BY <2>4, <3>2, <3>3, ItemsEqual
    <3>5. QED
      BY <2>2, <3>4 DEF View, s
  <2>7. /\ OA!Becomes(v, Append(its, <<k, x>>), after, d.pos)
        /\ \A b \in Block : Above(block'[b])
    BY <2>1, <2>5, <2>6, Mutated
  <2>8. OA!Extend(v, k, x)
    BY <1>3, <2>1, <2>3, <2>7 DEF OA!Extend, after
  <2>9. k \in OA!KeysOf(Values'[v].items)
    <3>1. k \in KeysOf(r.entries)
      BY <2>2, <2>4 DEF KeysOf
    <3>2. Values'[v] = View(r)
      BY <2>1, <2>5, <2>6, Mutated
    <3>3. OA!KeysOf(Values'[v].items) = KeysOf(r.entries)
      BY <2>4, <3>2, ItemsKeys DEF View
    <3>4. QED
      BY <3>1, <3>3
  <2>10. QED
    BY <2>7, <2>8, <2>9
<1>8. QED
  BY <1>6, <1>7

\* Another element at the place of a key.
LEMMA ElementView ==
  ASSUME AInv, NEW v \in Var, NEW k, Has(Data(v), k), NEW e \in Elem,
         Mutate(v, [Data(v) EXCEPT !.entries[Data(v).index[k]].elem = e])
  PROVE  /\ Data(v).index[k] \in DOMAIN Values[v].items
         /\ Values[v].items[Data(v).index[k]] = <<k, At(Data(v), k)>>
         /\ OA!Update(v, Data(v).index[k], e, Values[v].next)
         /\ \A b \in Block : Above(block'[b])
<1> DEFINE d == Data(v)  n == Len(d.entries)  j == d.index[k]  its == Items(d.entries)
           r == [d EXCEPT !.entries[d.index[k]].elem = e]  new == Entry(k, e)
<1>1. /\ GoodArr(d) /\ Sound(d) /\ d.entries \in Seq(EntrySet) /\ Above(d) /\ BlocksInv /\ n \in Nat
  BY DataIsGood DEF AInv, PInv, BlocksInv, Data
<1>2. /\ r.next = d.next /\ r.pos = d.pos /\ r.entries = [d.entries EXCEPT ![j] = new]
  BY <1>1, ElementKeeps
<1>3. /\ Values[v].items = its /\ Values[v].next = d.next /\ Values[v].pos = d.pos
      /\ its \in Seq(ItemSet) /\ Len(its) = n /\ DOMAIN its = 1..n /\ DOMAIN d.entries = 1..n
      /\ \A i \in 1..n : its[i] = <<d.entries[i].key, d.entries[i].elem>>
  BY <1>1, ValuesAre
<1>4. j \in 1..n /\ d.entries[j] = Entry(k, At(d, k)) /\ d.entries[j].key = k /\ k \in Keys
  BY <1>1, <1>3, Found DEF Entry
<1>5. its[j] = <<k, At(d, k)>>
  BY <1>3, <1>4 DEF Entry
<1>6. new \in EntrySet /\ new.key = k /\ new.elem = e
  BY <1>4 DEF Entry, EntrySet
<1>7. Mutate(v, r)
  OBVIOUS
<1> HIDE DEF r, d, j, n, its, new
<1>8. /\ r.entries \in Seq(EntrySet) /\ Len(r.entries) = n /\ DOMAIN r.entries = 1..n
      /\ \A i \in 1..n : r.entries[i] = IF i = j THEN new ELSE d.entries[i]
  BY <1>1, <1>2, <1>3, <1>4, <1>6 DEF n
<1>9. Above(r)
  <2>1. \A i \in 1..n : r.entries[i].key = d.entries[i].key
    BY <1>4, <1>6, <1>8
  <2>2. QED
    BY <1>1, <1>2, <1>3, <1>8, <2>1 DEF Above
<1>10. View(r) = [items |-> [its EXCEPT ![j] = <<its[j][1], e>>], next |-> d.next, pos |-> d.pos]
  <2> DEFINE s == [its EXCEPT ![j] = <<its[j][1], e>>]
  <2>1. <<k, e>> \in ItemSet /\ its[j][1] = k
    BY <1>4, <1>5 DEF ItemSet
  <2>2. s \in Seq(ItemSet) /\ Len(s) = n
    BY <1>3, <1>4, <2>1
  <2>3. ASSUME NEW i \in 1..n PROVE s[i] = <<r.entries[i].key, r.entries[i].elem>>
    BY <1>3, <1>4, <1>6, <1>8, <2>1
  <2> HIDE DEF s
  <2>4. Items(r.entries) = s
    BY <1>8, <2>2, <2>3, ItemsEqual
  <2>5. QED
    BY <1>2, <2>4 DEF View, s
<1>11. /\ OA!Becomes(v, [its EXCEPT ![j] = <<its[j][1], e>>], d.next, d.pos)
       /\ \A b \in Block : Above(block'[b])
  BY <1>7, <1>9, <1>10, Mutated
<1>12. OA!Update(v, j, e, Values[v].next)
  BY <1>3, <1>11 DEF OA!Update
<1>13. QED
  BY <1>3, <1>4, <1>5, <1>11, <1>12 DEF j, d

\* get_mut of a plain element that becomes a new cell: only this array has it.
LEMMA PromoteIsStep ==
  ASSUME AInv, NEW v \in Var, NEW k \in DOMAIN Data(v).index, NEW c \in Cell, Promote(v, k, c)
  PROVE  OA!Share(v, c) /\ \A b \in Block : Above(block'[b])
<1> DEFINE j == Data(v).index[k]
<1>1. /\ Has(Data(v), k) /\ At(Data(v), k) \notin Cell
      /\ \A b \in Block : \A i \in DOMAIN block[b].entries : block[b].entries[i].elem # c
      /\ heap' = [heap EXCEPT ![c] = At(Data(v), k)]
      /\ Mutate(v, [Data(v) EXCEPT !.entries[Data(v).index[k]].elem = c])
  BY DEF Promote
<1>2. c \in Elem
  BY DEF Elem
<1>3. /\ j \in DOMAIN Values[v].items /\ Values[v].items[j] = <<k, At(Data(v), k)>>
      /\ OA!Update(v, j, c, Values[v].next) /\ \A b \in Block : Above(block'[b])
  BY <1>1, <1>2, ElementView
<1>4. ASSUME NEW w \in Var, NEW i \in DOMAIN Values[w].items PROVE Values[w].items[i][2] # c
  <2>1. /\ i \in DOMAIN Data(w).entries
        /\ Values[w].items[i] = <<Data(w).entries[i].key, Data(w).entries[i].elem>>
    BY <1>4, ValuesAre DEF AInv, PInv
  <2>2. ptr[w] \in Block
    BY DEF AInv, PInv, BlocksInv
  <2>3. Data(w).entries[i].elem # c
    BY <1>1, <2>1, <2>2 DEF Data
  <2>4. QED
    BY <2>1, <2>3
<1> HIDE DEF j
<1>5. Values[v].items[j][2] = At(Data(v), k)
  BY <1>3
<1>6. QED
  BY <1>1, <1>3, <1>4, <1>5 DEF OA!Share

\* A cell that only this array still holds becomes a value again.
LEMMA DemoteIsStep ==
  ASSUME AInv, NEW v \in Var, NEW k \in DOMAIN Data(v).index, Demote(v, k)
  PROVE  OA!Unshare(v) /\ \A b \in Block : Above(block'[b])
<1> DEFINE j == Data(v).index[k]  x == heap[At(Data(v), k)]
<1>1. /\ Has(Data(v), k) /\ At(Data(v), k) \in Cell /\ heap' = heap
      /\ Mutate(v, [Data(v) EXCEPT !.entries[Data(v).index[k]].elem = x])
  BY DEF Demote
<1>2. x \in Elem
  BY <1>1 DEF Elem, AInv, PInv
<1> HIDE DEF x
<1>3. /\ j \in DOMAIN Values[v].items /\ Values[v].items[j] = <<k, At(Data(v), k)>>
      /\ OA!Update(v, j, x, Values[v].next) /\ \A b \in Block : Above(block'[b])
  BY <1>1, <1>2, ElementView
<1> HIDE DEF j
<1>4. Values[v].items[j][2] = At(Data(v), k)
  BY <1>3
<1>5. OA!Update(v, j, heap[Values[v].items[j][2]], Values[v].next)
  BY <1>3, <1>4 DEF x
<1>6. QED
  BY <1>1, <1>3, <1>4, <1>5 DEF OA!Unshare

\* remove takes one entry out.
LEMMA UnsetIsStep ==
  ASSUME AInv, NEW v \in Var, NEW k \in DOMAIN Data(v).index, Unset(v, k)
  PROVE  /\ OA!Drop(v, k) /\ k \in OA!KeysOf(Values[v].items)
         /\ \A b \in Block : Above(block'[b])
<1> DEFINE d == Data(v)  n == Len(d.entries)  j == d.index[k]  its == Items(d.entries)
           r == Removed(d, k)
<1>1. Has(d, k) /\ Mutate(v, r) /\ heap' = heap
  BY DEF Unset, Replace
<1>2. /\ Sound(d) /\ d.entries \in Seq(EntrySet) /\ Above(d) /\ BlocksInv /\ n \in Nat
  BY DataIsGood DEF AInv, PInv, BlocksInv, Data
<1>3. /\ Values[v].items = its /\ Values[v].next = d.next /\ Values[v].pos = d.pos
      /\ its \in Seq(ItemSet) /\ Len(its) = n /\ DOMAIN its = 1..n /\ DOMAIN d.entries = 1..n
      /\ \A i \in 1..n : its[i] = <<d.entries[i].key, d.entries[i].elem>>
      /\ OA!KeysOf(its) = KeysOf(d.entries)
  BY <1>2, ValuesAre
<1>4. j \in 1..n /\ d.entries[j].key = k /\ k \in KeysOf(d.entries)
  BY <1>1, <1>2, IndexFinds DEF Has, Sound
<1>5. r.entries = RemoveAt(d.entries, j) /\ r.next = d.next /\ r.pos = d.pos
  BY <1>1, <1>2, RemovedIs
<1> HIDE DEF r, d, j, its
<1>6. /\ r.entries \in Seq(EntrySet) /\ Len(r.entries) = n - 1
      /\ \A i \in 1..(n - 1) : r.entries[i] = IF i < j THEN d.entries[i] ELSE d.entries[i + 1]
  BY <1>2, <1>4, <1>5, RemovedAt
<1> HIDE DEF n
<1>7. DOMAIN r.entries = 1..(n - 1) /\ n - 1 \in Nat /\ j \in Nat
  BY <1>2, <1>4, <1>6
<1>8. Above(r)
  <2>1. ASSUME NEW i \in 1..(n - 1) PROVE \E m \in 1..n : r.entries[i] = d.entries[m]
    <3>1. i \in 1..n /\ i + 1 \in 1..n
      BY <1>2
    <3>2. QED
      BY <1>6, <3>1
  <2>2. QED
    BY <1>2, <1>3, <1>5, <1>7, <2>1 DEF Above
<1>9. View(r) = [items |-> RemoveAt(its, j), next |-> d.next, pos |-> d.pos]
  <2> DEFINE s == RemoveAt(its, j)
  <2>1. /\ s \in Seq(ItemSet) /\ Len(s) = n - 1
        /\ \A i \in 1..(n - 1) : s[i] = IF i < j THEN its[i] ELSE its[i + 1]
    BY <1>3, <1>4, RemovedAt
  <2> HIDE DEF s
  <2>2. ASSUME NEW i \in 1..(n - 1) PROVE s[i] = <<r.entries[i].key, r.entries[i].elem>>
    <3>1. i \in 1..n /\ i + 1 \in 1..n
      BY <1>2
    <3>2. QED
      BY <1>3, <1>6, <2>1, <3>1
  <2>3. Items(r.entries) = s
    BY <1>6, <2>1, <2>2, ItemsEqual
  <2>4. QED
    BY <1>5, <2>3 DEF View, s
<1>10. OA!RemoveAt(its, j) = RemoveAt(its, j)
  BY DEF OA!RemoveAt, RemoveAt
<1>11. /\ OA!Becomes(v, RemoveAt(its, j), d.next, d.pos)
       /\ \A b \in Block : Above(block'[b])
  BY <1>1, <1>8, <1>9, Mutated
<1>12. its[j][1] = k
  BY <1>3, <1>4
<1>13. OA!Drop(v, k)
  BY <1>1, <1>3, <1>4, <1>10, <1>11, <1>12 DEF OA!Drop
<1>14. QED
  BY <1>3, <1>4, <1>11, <1>13

\* Moving the pointer.
LEMMA PointIsStep ==
  ASSUME AInv, NEW v \in Var, Point(v)
  PROVE  OA!Point(v) /\ \A b \in Block : Above(block'[b])
<1> DEFINE d == Data(v)
<1>1. PICK p \in {0, IF d.entries = <<>> THEN 0 ELSE Len(d.entries) - 1,
                  d.pos + 1, IF d.pos = 0 THEN MaxPos ELSE d.pos - 1} :
         Replace(v, [d EXCEPT !.pos = p])
  BY DEF Point
<1>2. GoodArr(d) /\ d.pos \in Nat /\ d.entries \in Seq(EntrySet) /\ Above(d) /\ BlocksInv
  BY DataIsGood DEF AInv, PInv, BlocksInv, Data
<1>3. /\ Values[v].items = Items(d.entries) /\ Values[v].next = d.next
  BY <1>2, ValuesAre
<1> DEFINE r == [d EXCEPT !.pos = p]
<1>4. Mutate(v, r) /\ heap' = heap
  BY <1>1 DEF Replace
<1> HIDE DEF d
<1>5. p \in Nat
  <2>1. d.entries # <<>> => Len(d.entries) - 1 \in Nat
    BY <1>2
  <2>2. QED
    BY <1>1, <1>2, <2>1, Bounds
<1>6. r.next = d.next /\ r.pos = p /\ r.entries = d.entries
  BY <1>2, <1>5, PosKeeps
<1> HIDE DEF r
<1>7. Above(r)
  BY <1>2, <1>6 DEF Above
<1>8. View(r) = [items |-> Items(d.entries), next |-> d.next, pos |-> p]
  BY <1>6 DEF View
<1>9. /\ OA!Becomes(v, Items(d.entries), d.next, p) /\ Values'[v] = View(r)
      /\ \A b \in Block : Above(block'[b])
  BY <1>4, <1>7, <1>8, Mutated
<1>10. Values'[v].pos = p
  BY <1>8, <1>9
<1>11. OA!Becomes(v, Values[v].items, Values[v].next, Values'[v].pos)
  BY <1>3, <1>9, <1>10
<1>12. QED
  BY <1>4, <1>9, <1>11 DEF OA!Point

\* Sharing a block copies the value.
LEMMA CopyIsStep ==
  ASSUME AInv, NEW v \in Var, NEW w \in Var, Copy(v, w)
  PROVE  OA!Copy(v, w) /\ \A b \in Block : Above(block'[b])
<1>1. /\ ptr \in [Var -> Block] /\ block \in [Block -> ArrData] /\ ptr[v] # ptr[w]
      /\ ptr' = [ptr EXCEPT ![v] = ptr[w]] /\ heap' = heap
      /\ block' = [block EXCEPT ![ptr[v]] = IF Holders(ptr[v]) = {v} THEN Default ELSE block[ptr[v]]]
  BY DEF Copy, Release, AInv, PInv, BlocksInv
<1>2. Above(Default)
  BY DefaultIsSound DEF Above
<1>3. \A b \in Block : block'[b] = block[b] \/ block'[b] = Default
  BY <1>1
<1>4. \A b \in Block : Above(block'[b])
  BY <1>2, <1>3, Zenon DEF AInv
<1>5. \A x \in Var : block'[ptr'[x]] = IF x = v THEN block[ptr[w]] ELSE block[ptr[x]]
  <2>1. block'[ptr'[v]] = block[ptr[w]]
    BY <1>1
  <2>2. ASSUME NEW x \in Var, x # v PROVE block'[ptr'[x]] = block[ptr[x]]
    <3>1. CASE ptr[x] = ptr[v]
      <4>1. x \in Holders(ptr[v])
        BY <3>1 DEF Holders
      <4>2. Holders(ptr[v]) # {v}
        BY <2>2, <4>1
      <4>3. block' = block
        BY <1>1, <4>2
      <4>4. QED
        BY <1>1, <2>2, <4>3
    <3>2. CASE ptr[x] # ptr[v]
      BY <1>1, <2>2, <3>2
    <3>3. QED
      BY <3>1, <3>2
  <2>3. QED
    BY <2>1, <2>2
<1>6. Values' = [x \in Var |-> View(block'[ptr'[x]])] /\ Values = [x \in Var |-> View(block[ptr[x]])]
  BY DEF Values, Data, View
<1>7. Values' = [Values EXCEPT ![v] = Values[w]]
  BY <1>5, <1>6
<1>8. QED
  BY <1>1, <1>4, <1>7 DEF OA!Copy

\* An array built anew.
LEMMA HoldsIf ==
  ASSUME AInv, NEW v \in Var, NEW d, Replace(v, d), Above(d), NEW items,
         View(d) = [items |-> items, next |-> OA!FirstFree(items), pos |-> 0]
  PROVE  OA!Holds(v, items) /\ \A b \in Block : Above(block'[b])
<1>1. Mutate(v, d) /\ heap' = heap
  BY DEF Replace
<1>2. OA!Becomes(v, items, OA!FirstFree(items), 0) /\ \A b \in Block : Above(block'[b])
  BY <1>1, Mutated
<1>3. QED
  BY <1>1, <1>2 DEF OA!Holds

\* The entries of a variable's array.
LEMMA EntriesAre ==
  ASSUME AInv, NEW v \in Var
  PROVE  LET es == Data(v).entries
         IN /\ es \in Seq(EntrySet) /\ Len(es) \in Nat /\ Len(es) <= MaxLen
            /\ DOMAIN es = 1..Len(es) /\ Distinct(es) /\ Small(es)
            /\ Values[v].items = Items(es) /\ BlocksInv
<1> DEFINE d == Data(v)  es == d.entries
<1>1. /\ Sound(d) /\ es \in Seq(EntrySet) /\ Above(d) /\ BlocksInv /\ d.next \in MinInt..MaxInt
      /\ Len(es) \in Nat /\ Len(es) <= MaxLen
  BY DataIsGood DEF AInv, PInv, BlocksInv, Data
<1>2. Distinct(es)
  BY <1>1, SoundKeysDiffer
<1>3. DOMAIN es = 1..Len(es) /\ \A i \in 1..Len(es) : es[i].key \in Keys
  BY <1>1, ItemsAre
<1>4. Small(es)
  <2>1. ASSUME NEW i \in DOMAIN es, es[i].key \notin StrKey PROVE es[i].key < MaxInt
    <3>1. es[i].key < d.next
      BY <1>1, <2>1 DEF Above
    <3>2. es[i].key \in Int /\ d.next \in Int /\ d.next <= MaxInt /\ MaxInt \in Int
      BY <1>1, <1>3, <2>1, Bounds DEF Keys, MinInt
    <3> HIDE DEF es, d
    <3>3. QED
      BY <3>1, <3>2
  <2>2. QED
    BY <2>1 DEF Small
<1>5. Values[v].items = Items(es)
  BY <1>1, ValuesAre
<1>6. QED
  BY <1>1, <1>2, <1>3, <1>4, <1>5

LEMMA PopIsStep ==
  ASSUME AInv, NEW v \in Var, Pop(v)
  PROVE  OA!Pop(v) /\ \A b \in Block : Above(block'[b])
<1> DEFINE es == Data(v).entries  n == Len(es)  its == Items(es)  s == Front(es)
<1>1. es # <<>> /\ Replace(v, Rebuilt(s))
  BY DEF Pop
<1>2. /\ es \in Seq(EntrySet) /\ n \in Nat /\ DOMAIN es = 1..n /\ Distinct(es) /\ Small(es)
      /\ Values[v].items = its
  BY EntriesAre
<1> HIDE DEF es
<1>3. /\ its \in Seq(ItemSet) /\ Len(its) = n
      /\ \A i \in 1..n : its[i] = <<es[i].key, es[i].elem>>
  BY <1>2, ItemsAre
<1>4. /\ s \in Seq(EntrySet) /\ Len(s) = n - 1 /\ \A i \in 1..(n - 1) : s[i] = es[i]
  BY <1>1, <1>2, FrontIs
<1>5. n >= 1 /\ its # <<>>
  <2>1. n >= 1
    BY <1>1, <1>2
  <2>2. QED
    BY <1>3, <2>1
<1>6. /\ Front(its) \in Seq(ItemSet) /\ Len(Front(its)) = n - 1
      /\ \A i \in 1..(n - 1) : Front(its)[i] = its[i]
  <2> HIDE DEF its
  <2>1. QED
    BY <1>3, <1>5, FrontIs
<1> HIDE DEF s, its, n
<1>7. DOMAIN s = 1..(n - 1) /\ \A i \in 1..(n - 1) : i \in 1..n
  BY <1>2, <1>4
<1>8. Distinct(s) /\ Small(s)
  BY <1>2, <1>4, <1>7 DEF Distinct, Small
<1>9. Items(s) = Front(its)
  <2>1. \A i \in 1..(n - 1) : Front(its)[i] = <<s[i].key, s[i].elem>>
    BY <1>3, <1>4, <1>6, <1>7
  <2>2. QED
    BY <1>4, <1>6, <2>1, ItemsEqual
<1>10. /\ Above(Rebuilt(s))
       /\ View(Rebuilt(s)) = [items |-> Front(its), next |-> OA!FirstFree(Front(its)), pos |-> 0]
  BY <1>4, <1>8, <1>9, RebuiltView
<1>11. OA!Holds(v, Front(its)) /\ \A b \in Block : Above(block'[b])
  BY <1>1, <1>10, HoldsIf
<1>12. OA!Front(its) = Front(its)
  BY DEF OA!Front, Front
<1>13. QED
  BY <1>2, <1>5, <1>11, <1>12 DEF OA!Pop

LEMMA ShiftIsStep ==
  ASSUME NoOverflow, AInv, NEW v \in Var, Shift(v)
  PROVE  OA!Shift(v) /\ \A b \in Block : Above(block'[b])
<1> DEFINE es == Data(v).entries  n == Len(es)  its == Items(es)  s == Tail(es)
<1>1. es # <<>> /\ Replace(v, Renumbered(s))
  BY DEF Shift
<1>2. /\ es \in Seq(EntrySet) /\ n \in Nat /\ n <= MaxLen /\ DOMAIN es = 1..n /\ Distinct(es)
      /\ Values[v].items = its
  BY EntriesAre
<1> HIDE DEF es
<1>3. /\ its \in Seq(ItemSet) /\ Len(its) = n
      /\ \A i \in 1..n : its[i] = <<es[i].key, es[i].elem>>
  BY <1>2, ItemsAre
<1>4. /\ s \in Seq(EntrySet) /\ Len(s) = n - 1 /\ \A i \in 1..(n - 1) : s[i] = es[i + 1]
  BY <1>1, <1>2
<1>5. n >= 1 /\ its # <<>>
  <2>1. n >= 1
    BY <1>1, <1>2
  <2>2. QED
    BY <1>3, <2>1
<1>6. /\ Tail(its) \in Seq(ItemSet) /\ Len(Tail(its)) = n - 1
      /\ \A i \in 1..(n - 1) : Tail(its)[i] = its[i + 1]
  <2> HIDE DEF its
  <2>1. QED
    BY <1>3, <1>5
<1> HIDE DEF s, its, n
<1>7. n - 1 <= MaxLen /\ \A i \in 1..(n - 1) : i + 1 \in 1..n
  BY <1>2, Bounds
<1>8. \A i, j \in 1..(n - 1) : s[i].key = s[j].key => i = j
  <2>1. ASSUME NEW i \in 1..(n - 1), NEW j \in 1..(n - 1), s[i].key = s[j].key PROVE i + 1 = j + 1
    <3>1. s[i] = es[i + 1] /\ s[j] = es[j + 1] /\ i + 1 \in DOMAIN es /\ j + 1 \in DOMAIN es
      BY <1>2, <1>4, <1>7
    <3>2. es[i + 1].key = es[j + 1].key
      BY <2>1, <3>1
    <3>3. QED
      BY <1>2, <3>1, <3>2 DEF Distinct
  <2>2. ASSUME NEW i \in 1..(n - 1), NEW j \in 1..(n - 1), s[i].key = s[j].key PROVE i = j
    <3>1. i + 1 = j + 1 /\ i \in Int /\ j \in Int
      BY <2>1, <2>2
    <3>2. QED
      BY <3>1
  <2>3. QED
    BY <2>2
<1>9. Items(s) = Tail(its)
  <2>1. \A i \in 1..(n - 1) : Tail(its)[i] = <<s[i].key, s[i].elem>>
    BY <1>3, <1>4, <1>6, <1>7
  <2>2. QED
    BY <1>4, <1>6, <2>1, ItemsEqual
<1> DEFINE new == OA!Renumbered(Tail(its))
<1>10. /\ Above(Renumbered(s))
       /\ View(Renumbered(s)) = [items |-> new, next |-> OA!FirstFree(new), pos |-> 0]
  <2>1. Len(s) <= MaxLen /\ \A i, j \in 1..Len(s) : s[i].key \in StrKey /\ s[i].key = s[j].key => i = j
    BY <1>4, <1>7, <1>8
  <2>2. QED
    BY <1>4, <1>9, <2>1, RenumberedView
<1>11. OA!Holds(v, new) /\ \A b \in Block : Above(block'[b])
  BY <1>1, <1>10, HoldsIf
<1>12. QED
  BY <1>2, <1>5, <1>11 DEF OA!Shift

LEMMA UnshiftIsStep ==
  ASSUME NoOverflow, AInv, NEW v \in Var, NEW x \in Val, Unshift(v, x)
  PROVE  OA!Unshift(v, x) /\ \A b \in Block : Above(block'[b])
<1> DEFINE es == Data(v).entries  n == Len(es)  its == Items(es)  s == <<Entry(0, x)>> \o es
<1>1. n < MaxLen /\ Replace(v, Renumbered(s))
  BY DEF Unshift
<1>2. /\ es \in Seq(EntrySet) /\ n \in Nat /\ DOMAIN es = 1..n /\ Distinct(es)
      /\ Values[v].items = its
  BY EntriesAre
<1> HIDE DEF es
<1>3. /\ its \in Seq(ItemSet) /\ Len(its) = n
      /\ \A i \in 1..n : its[i] = <<es[i].key, es[i].elem>>
  BY <1>2, ItemsAre
<1>4. /\ Entry(0, x) \in EntrySet /\ Entry(0, x).key = 0 /\ Entry(0, x).elem = x
      /\ 0 \in Keys /\ 0 \notin StrKey /\ x \in Elem /\ MaxLen \in Nat
  BY Bounds, KindsDiffer DEF Entry, EntrySet, Keys, Elem, MinInt
<1>5. /\ s \in Seq(EntrySet) /\ Len(s) = n + 1 /\ s[1] = Entry(0, x)
      /\ \A i \in 1..n : s[i + 1] = es[i]
  BY <1>2, <1>4, PrefixedIs
<1> DEFINE t == << <<0, x>> >> \o its
<1>6. <<0, x>> \in ItemSet
  BY <1>4 DEF ItemSet
<1>7. /\ t \in Seq(ItemSet) /\ Len(t) = n + 1 /\ t[1] = <<0, x>>
      /\ \A i \in 1..n : t[i + 1] = its[i]
  <2> HIDE DEF its
  <2>1. QED
    BY <1>3, <1>6, PrefixedIs
<1> HIDE DEF s, its, t, n
<1>8. n + 1 <= MaxLen /\ \A i \in 1..(n + 1) : i = 1 \/ (i - 1 \in 1..n /\ (i - 1) + 1 = i)
  BY <1>1, <1>2, <1>4
<1>9. \A i, j \in 1..(n + 1) : s[i].key \in StrKey /\ s[i].key = s[j].key => i = j
  <2>1. ASSUME NEW i \in 1..(n + 1), NEW j \in 1..(n + 1), s[i].key \in StrKey, s[i].key = s[j].key
        PROVE  i = j
    <3>1. i # 1 /\ j # 1
      BY <1>4, <1>5, <2>1
    <3>2. /\ i - 1 \in 1..n /\ (i - 1) + 1 = i /\ j - 1 \in 1..n /\ (j - 1) + 1 = j
          /\ s[(i - 1) + 1] = es[i - 1] /\ s[(j - 1) + 1] = es[j - 1]
      BY <1>5, <1>8, <3>1
    <3>3. es[i - 1].key = es[j - 1].key
      BY <2>1, <3>2
    <3>4. i - 1 = j - 1
      BY <1>2, <3>2, <3>3 DEF Distinct
    <3>5. QED
      BY <3>2, <3>4
  <2>2. QED
    BY <2>1
<1>10. Items(s) = t
  <2>1. ASSUME NEW i \in 1..(n + 1) PROVE t[i] = <<s[i].key, s[i].elem>>
    <3>1. CASE i = 1
      BY <1>4, <1>5, <1>7, <3>1
    <3>2. CASE i # 1
      <4>1. /\ i - 1 \in 1..n /\ (i - 1) + 1 = i /\ s[(i - 1) + 1] = es[i - 1]
            /\ t[(i - 1) + 1] = its[i - 1]
        BY <1>5, <1>7, <1>8, <3>2
      <4>2. its[i - 1] = <<es[i - 1].key, es[i - 1].elem>>
        BY <1>3, <4>1
      <4>3. QED
        BY <4>1, <4>2
    <3>3. QED
      BY <3>1, <3>2
  <2>2. QED
    BY <1>5, <1>7, <2>1, ItemsEqual
<1> DEFINE new == OA!Renumbered(t)
<1>11. /\ Above(Renumbered(s))
       /\ View(Renumbered(s)) = [items |-> new, next |-> OA!FirstFree(new), pos |-> 0]
  <2>1. Len(s) <= MaxLen /\ \A i, j \in 1..Len(s) : s[i].key \in StrKey /\ s[i].key = s[j].key => i = j
    BY <1>5, <1>8, <1>9
  <2>2. QED
    BY <1>5, <1>10, <2>1, RenumberedView
<1>12. OA!Holds(v, new) /\ \A b \in Block : Above(block'[b])
  BY <1>1, <1>11, HoldsIf
<1>13. QED
  BY <1>2, <1>12 DEF OA!Unshift, t

\* The abstract arrays sort with the same permutations.
LEMMA SameBijections ==
  ASSUME NEW S
  PROVE  OA!Bijection(S, S) = Bijection(S, S)
BY DEF OA!Bijection, OA!Injection, OA!Surjection, OA!IsInjective,
       Bijection, Injection, Surjection, IsInjective

LEMMA SortIsStep ==
  ASSUME NoOverflow, AInv, NEW v \in Var, NEW list \in BOOLEAN, Sort(v, list)
  PROVE  OA!Sort(v) /\ \A b \in Block : Above(block'[b])
<1> DEFINE es == Data(v).entries  n == Len(es)  its == Items(es)
<1>1. PICK p \in Bijection(DOMAIN es, DOMAIN es) :
         Replace(v, IF list THEN Listed([i \in DOMAIN p |-> es[p[i]]])
                            ELSE Rebuilt([i \in DOMAIN p |-> es[p[i]]]))
  BY DEF Sort
<1> DEFINE s == [i \in DOMAIN p |-> es[p[i]]]
<1>2. /\ es \in Seq(EntrySet) /\ n \in Nat /\ n <= MaxLen /\ DOMAIN es = 1..n
      /\ Distinct(es) /\ Small(es) /\ Values[v].items = its
  BY EntriesAre
<1> HIDE DEF es
<1>3. /\ its \in Seq(ItemSet) /\ Len(its) = n /\ DOMAIN its = 1..n
      /\ \A i \in 1..n : its[i] = <<es[i].key, es[i].elem>>
  BY <1>2, ItemsAre
<1>4. p \in [1..n -> 1..n] /\ \A i, j \in 1..n : p[i] = p[j] => i = j
  BY <1>1, <1>2 DEF Bijection, Injection, IsInjective
<1>5. s \in Seq(EntrySet) /\ Len(s) = n /\ DOMAIN s = 1..n
  BY <1>1, <1>2, <1>4, SortedEntries
<1>6. \A i \in 1..n : s[i] = es[p[i]] /\ p[i] \in 1..n
  BY <1>4
<1> HIDE DEF s, its, n
<1>7. p \in OA!Bijection(DOMAIN its, DOMAIN its) /\ DOMAIN p = 1..n
  BY <1>1, <1>2, <1>3, <1>4, SameBijections
<1>8. CASE list
  <2> DEFINE t == [i \in DOMAIN p |-> <<i - 1, its[p[i]][2]>>]
  <2>1. Replace(v, Listed(s))
    BY <1>1, <1>8 DEF s
  <2>2. /\ Above(Listed(s))
        /\ View(Listed(s)) = [items |-> ListItems(s), next |-> OA!FirstFree(ListItems(s)), pos |-> 0]
    BY <1>2, <1>5, ListedView
  <2>3. ListItems(s) = t
    <3>1. \A i \in 1..n : its[p[i]][2] = s[i].elem
      BY <1>3, <1>6
    <3>2. QED
      BY <1>5, <1>7, <3>1 DEF ListItems
  <2>4. OA!Holds(v, t) /\ \A b \in Block : Above(block'[b])
    BY <2>1, <2>2, <2>3, HoldsIf
  <2>5. QED
    BY <1>2, <1>7, <2>4 DEF OA!Sort
<1>9. CASE ~ list
  <2> DEFINE t == [i \in DOMAIN p |-> its[p[i]]]
  <2>1. Replace(v, Rebuilt(s))
    BY <1>1, <1>9 DEF s
  <2>2. Distinct(s) /\ Small(s)
    BY <1>2, <1>4, <1>5, <1>6 DEF Distinct, Small
  <2>3. t \in Seq(ItemSet) /\ Len(t) = n
    <3>1. \A i \in 1..n : its[p[i]] \in ItemSet
      BY <1>3, <1>4
    <3>2. t \in [1..n -> ItemSet]
      BY <1>7, <3>1
    <3> HIDE DEF t
    <3>3. QED
      BY <1>2, <3>2
  <2>4. Items(s) = t
    <3>1. \A i \in 1..n : t[i] = <<s[i].key, s[i].elem>>
      BY <1>3, <1>6, <1>7
    <3> HIDE DEF t
    <3>2. QED
      BY <1>5, <2>3, <3>1, ItemsEqual
  <2>5. /\ Above(Rebuilt(s))
        /\ View(Rebuilt(s)) = [items |-> t, next |-> OA!FirstFree(t), pos |-> 0]
    BY <1>5, <2>2, <2>4, RebuiltView
  <2>6. OA!Holds(v, t) /\ \A b \in Block : Above(block'[b])
    BY <2>1, <2>5, HoldsIf
  <2>7. QED
    BY <1>2, <1>7, <2>6 DEF OA!Sort
<1>10. QED
  BY <1>8, <1>9

LEMMA ClearIsStep ==
  ASSUME AInv, NEW v \in Var, Clear(v)
  PROVE  OA!Clear(v) /\ \A b \in Block : Above(block'[b])
<1>1. Mutate(v, Default) /\ heap' = heap
  BY DEF Clear, Replace
<1>2. Above(Default)
  BY DefaultIsSound DEF Above
<1>3. View(Default) = OA!Empty
  BY DefaultIsSound DEF View, Items, OA!Empty
<1>4. /\ Values' = [Values EXCEPT ![v] = View(Default)]
      /\ \A b \in Block : block'[b] = block[b] \/ block'[b] = Default
  BY <1>1, MutateView DEF AInv, PInv
<1>5. \A b \in Block : Above(block'[b])
  BY <1>2, <1>4, Zenon DEF AInv
<1>6. QED
  BY <1>1, <1>3, <1>4, <1>5 DEF OA!Clear

\* Every step, while integers do not overflow.
LEMMA StepIsStep ==
  ASSUME NoOverflow, AInv, [Next]_vars
  PROVE  AInv' /\ [OA!Next]_OA!avars
<1> DEFINE AllAbove == \A b \in Block : Above(block'[b])
<1>1. PInv'
  BY StepKeeps DEF AInv
<1>2. CASE UNCHANGED vars
  <2>1. AllAbove
    BY <1>2 DEF AInv, vars
  <2>2. UNCHANGED OA!avars
    BY <1>2 DEF OA!avars, Values, Data, vars
  <2>3. QED
    BY <1>1, <2>1, <2>2 DEF AInv
<1>3. ASSUME NEW c \in Cell, NEW x \in Val, WriteAlias(c, x) PROVE OA!Next /\ AllAbove
  <2>1. heap' = [heap EXCEPT ![c] = x] /\ ptr' = ptr /\ block' = block
    BY <1>3 DEF WriteAlias
  <2>2. OA!WriteCell(c, x)
    BY <2>1 DEF OA!WriteCell, Values, Data
  <2>3. AllAbove
    BY <2>1 DEF AInv
  <2>4. QED
    BY <2>2, <2>3 DEF OA!Next
<1>4. ASSUME NEW v \in Var, NEW k \in Keys, k \notin StrKey => k < MaxInt, NEW x \in Val, Insert(v, k, x)
      PROVE  OA!Next /\ AllAbove
  <2>1. /\ OA!Put(v, k, x) \/ OA!Extend(v, k, x)
        /\ k \in OA!KeysOf(Values[v].items) \cup OA!KeysOf(Values'[v].items)
        /\ AllAbove
    BY <1>4, InsertIsStep
  <2>2. QED
    BY <2>1 DEF OA!Next
<1>5. ASSUME NEW v \in Var, NEW x \in Val, Push(v, x) PROVE OA!Next /\ AllAbove
  <2>1. Data(v).next \in Keys /\ Data(v).next < MaxNext /\ Insert(v, Data(v).next, x)
    BY <1>5, DataIsGood DEF Push, AInv, PInv
  <2>2. Data(v).next \in Int /\ MaxNext \in Int /\ MaxInt \in Int /\ MaxNext <= MaxInt
    BY DataIsGood, Bounds DEF AInv, PInv, MinInt, NoOverflow
  <2>3. Data(v).next < MaxInt
    BY <2>1, <2>2
  <2>4. QED
    BY <1>4, <2>1, <2>3
<1>6. ASSUME NEW v \in Var, NEW k \in IntKey \cup StrKey, NEW x \in Val, SetElement(v, k, x)
      PROVE  OA!Next /\ AllAbove
  <2>1. k \in Keys /\ (k \notin StrKey => k < MaxInt)
    BY KindsDiffer DEF Keys, NoOverflow
  <2>2. Insert(v, k, x)
    BY <1>6 DEF SetElement
  <2>3. QED
    BY <1>4, <2>1, <2>2
<1>7. ASSUME NEW v \in Var, NEW k \in DOMAIN Data(v).index, Unset(v, k) PROVE OA!Next /\ AllAbove
  <2>1. OA!Drop(v, k) /\ k \in OA!KeysOf(Values[v].items) /\ AllAbove
    BY <1>7, UnsetIsStep
  <2>2. QED
    BY <2>1 DEF OA!Next
<1>8. ASSUME NEW v \in Var, NEW k \in DOMAIN Data(v).index, Demote(v, k) PROVE OA!Next /\ AllAbove
  BY <1>8, DemoteIsStep DEF OA!Next
<1>9. ASSUME NEW v \in Var, NEW k \in DOMAIN Data(v).index, NEW c \in Cell, Promote(v, k, c)
      PROVE  OA!Next /\ AllAbove
  BY <1>9, PromoteIsStep DEF OA!Next
<1>10. ASSUME NEW v \in Var, NEW w \in Var, Copy(v, w) PROVE OA!Next /\ AllAbove
  BY <1>10, CopyIsStep DEF OA!Next
<1>11. ASSUME NEW v \in Var, Clear(v) PROVE OA!Next /\ AllAbove
  BY <1>11, ClearIsStep DEF OA!Next
<1>12. ASSUME NEW v \in Var, Point(v) PROVE OA!Next /\ AllAbove
  BY <1>12, PointIsStep DEF OA!Next
<1>13. ASSUME NEW v \in Var, Pop(v) PROVE OA!Next /\ AllAbove
  BY <1>13, PopIsStep DEF OA!Next
<1>14. ASSUME NEW v \in Var, Shift(v) PROVE OA!Next /\ AllAbove
  BY <1>14, ShiftIsStep DEF OA!Next
<1>15. ASSUME NEW v \in Var, NEW x \in Val, Unshift(v, x) PROVE OA!Next /\ AllAbove
  BY <1>15, UnshiftIsStep DEF OA!Next
<1>16. ASSUME NEW v \in Var, NEW list \in BOOLEAN, Sort(v, list) PROVE OA!Next /\ AllAbove
  BY <1>16, SortIsStep DEF OA!Next
<1> HIDE DEF AllAbove
<1>17. CASE Next
  <2>1. OA!Next /\ AllAbove
    BY <1>3, <1>5, <1>6, <1>7, <1>8, <1>9, <1>10, <1>11, <1>12, <1>13, <1>14, <1>15, <1>16, <1>17
       DEF Next
  <2>2. QED
    BY <1>1, <2>1 DEF AInv, AllAbove
<1>18. QED
  BY <1>2, <1>17

LEMMA InitIsInit == Init => AInv /\ OA!Init
<1> SUFFICES ASSUME Init PROVE AInv /\ OA!Init
  OBVIOUS
<1>1. PInv
  BY InitKeeps
<1>2. /\ ptr \in [Var -> Block] /\ block = [b \in Block |-> Default] /\ heap \in [Cell -> Val]
  BY DEF Init, Injection
<1>3. Above(Default)
  BY DefaultIsSound DEF Above
<1>4. View(Default) = OA!Empty
  BY DefaultIsSound DEF View, Items, OA!Empty
<1>5. Values = [v \in Var |-> View(Default)]
  BY <1>2 DEF Values, Data, View
<1>6. QED
  BY <1>1, <1>2, <1>3, <1>4, <1>5 DEF AInv, OA!Init

\* Counted handles on shared blocks with a hash index behave, towards a program,
\* as an ordered map that each variable has for itself, whose copies change
\* independently of each other except for references: Arr's promise that "visible
\* semantics stay PHP's value semantics".  It holds as long as the keys and lengths
\* in use stay below i64::MAX.
THEOREM ArraysAreValues == NoOverflow /\ Spec => ImplementsValues
<1>1. ASSUME NoOverflow PROVE Spec => ImplementsValues
  <2>1. AInv /\ [Next]_vars => AInv' /\ [OA!Next]_OA!avars
    BY <1>1, StepIsStep
  <2>2. QED
    BY <2>1, InitIsInit, PTL DEF Spec, ImplementsValues, OA!Spec
<1>2. QED
  BY <1>1
=============================================================================
