-------------------------- MODULE DispatchProofs --------------------------
(***************************************************************************)
(* Proofs about the dispatch caches, for any program: which memos and       *)
(* compiled bodies can be trusted while functions and classes are declared. *)
(***************************************************************************)
EXTENDS Dispatch, LeastNumbers

Chunk ==
  [owner : Instance, compiled : BOOLEAN,
   memo : [generation : Nat, target : Instance \cup {Unresolved}]]

\* What the tables and caches hold.
Shape ==
  /\ funcs \in [DOMAIN funcs -> Instance] /\ \A n \in DOMAIN funcs : funcs[n][1].name = n
  /\ classes \in [DOMAIN classes -> ClassDecl]
  /\ vmCache \in [DOMAIN vmCache -> Chunk] /\ \A a \in DOMAIN vmCache : vmCache[a].owner[2] = a
  /\ generation \in Nat \ {0}
  /\ source \subseteq AnonDecl \X Addr

\* Nothing is declared or remembered when the evaluator is made.
LEMMA InitShape == Init => Shape
  BY DEF Init, Shape

\* Registering functions and classes.
LEMMA DeclareShape ==
  ASSUME Shape, NEW s \in Sources, Declare(s.fns, s.classes)
  PROVE  Shape'
<1>1. PICK at \in Injection({d \in s.fns : ~d.empty}, Free) :
        funcs' = [n \in DOMAIN funcs \cup {d.name : d \in s.fns} |->
                    IF \E d \in s.fns : d.name = n
                    THEN Copy(CHOOSE d \in s.fns : d.name = n, at) ELSE funcs[n]]
  BY DEF Declare
<1>2. at \in [{d \in s.fns : ~d.empty} -> Addr] /\ s.fns \subseteq FnDecl
  BY <1>1, SourcesAreFinite DEF Injection, Free
<1>8. ASSUME NEW d \in s.fns PROVE Copy(d, at) \in Instance /\ Copy(d, at)[1] = d
  <2>1. CASE d.empty
    BY <1>2, <2>1 DEF Copy, Instance
  <2>2. CASE ~d.empty
    <3>1. at[d] \in Addr
      BY <1>2, <2>2
    <3>2. QED
      BY <1>2, <2>2, <3>1 DEF Copy, Instance
  <2>3. QED
    BY <2>1, <2>2
<1>3. ASSUME NEW n \in DOMAIN funcs' PROVE funcs'[n] \in Instance /\ funcs'[n][1].name = n
  <2>1. CASE \E d \in s.fns : d.name = n
    <3>1. PICK d \in s.fns : d = (CHOOSE e \in s.fns : e.name = n) /\ d.name = n
      BY <2>1
    <3>2. funcs'[n] = Copy(d, at)
      BY <1>1, <1>3, <2>1, <3>1
    <3>3. QED
      BY <1>8, <3>1, <3>2
  <2>2. CASE ~ \E d \in s.fns : d.name = n
    BY <1>1, <1>3, <2>2 DEF Shape
  <2>3. QED
    BY <2>1, <2>2
<1>4. funcs' \in [DOMAIN funcs' -> Instance]
  BY <1>1, <1>3
<1>5. classes' \in [DOMAIN classes' -> ClassDecl]
  <2>1. classes' = Registered(s.classes) /\ s.classes \subseteq ClassDecl
    BY SourcesAreFinite DEF Declare
  <2>2. QED
    BY <2>1 DEF Registered, Shape
<1>6. generation' \in Nat \ {0}
  <2>1. Cardinality(s.fns) \in Nat /\ Cardinality(s.classes) \in Nat
    BY SourcesAreFinite, FS_CardinalityType
  <2>2. QED
    BY <2>1 DEF Declare, Bump, Shape
<1>7. QED
  BY <1>3, <1>4, <1>5, <1>6 DEF Shape, Declare, anon

\* Loading the parents that are missing.
LEMMA LoadShape ==
  ASSUME Shape, NEW c, NEW m, FindMethodAutoload(c, m)
  PROVE  Shape'
<1>1. PICK loaded \in SUBSET Loadable :
        classes' = Registered(loaded) /\ generation' = generation + Cardinality(loaded) + 1
  BY DEF FindMethodAutoload
<1>2. Cardinality(loaded) \in Nat
  BY SourcesAreFinite, FS_Subset, FS_CardinalityType
<1>3. classes' \in [DOMAIN classes' -> ClassDecl]
  BY <1>1, SourcesAreFinite DEF Registered, Shape
<1>4. QED
  BY <1>1, <1>2, <1>3 DEF Shape, FindMethodAutoload, anon

\* A chunk just compiled: its site has no memo yet.
IsNew(chunk, i) ==
  /\ chunk.owner = i /\ chunk.compiled = Compiled(i)
  /\ chunk.memo.generation = 0 /\ chunk.memo.target = Unresolved

\* Compiling a body that is registered.
LEMMA ChunkAdded ==
  ASSUME Shape, NEW i \in Instance
  PROVE  /\ WithChunk(i) \in [DOMAIN WithChunk(i) -> Chunk]
         /\ DOMAIN WithChunk(i) = DOMAIN vmCache \cup {i[2]}
         /\ \A a \in DOMAIN vmCache : WithChunk(i)[a] = vmCache[a]
         /\ \A a \in DOMAIN WithChunk(i) \ DOMAIN vmCache : IsNew(WithChunk(i)[a], i)
<1>1. NewChunk(i) \in Chunk /\ IsNew(NewChunk(i), i)
  BY DEF NewChunk, Chunk, Compiled, IsNew
<1>2. DOMAIN WithChunk(i) = DOMAIN vmCache \cup {i[2]}
  BY DEF WithChunk, Put, Shape
<1>3. \A a \in DOMAIN WithChunk(i) :
        WithChunk(i)[a] = IF a \in DOMAIN vmCache THEN vmCache[a] ELSE NewChunk(i)
  BY DEF WithChunk, Put, Shape
<1>4. WithChunk(i) \in [DOMAIN WithChunk(i) -> Chunk]
  BY <1>1 DEF WithChunk, Put, Shape
<1>5. QED
  BY <1>1, <1>2, <1>3, <1>4

\* What a name stands for now.
Current(f) == IF f \in DOMAIN funcs THEN funcs[f] ELSE Unresolved

\* A call by name from a compiled body: its site remembers the callee, whose
\* body is compiled if it was not; no other chunk changes.
LEMMA CallFnEffect ==
  ASSUME Shape, NEW a \in DOMAIN vmCache, CallFn(a),
         NEW target, target = Current(vmCache[a].owner[1].calls)
  PROVE  /\ vmCache' \in [DOMAIN vmCache' -> Chunk]
         /\ DOMAIN vmCache \subseteq DOMAIN vmCache'
         /\ \A b \in DOMAIN vmCache \ {a} : vmCache'[b] = vmCache[b]
         /\ vmCache'[a].owner = vmCache[a].owner /\ vmCache'[a].compiled = vmCache[a].compiled
         /\ vmCache'[a].memo.generation = generation /\ vmCache'[a].memo.target = target
         /\ \A b \in DOMAIN vmCache' \ DOMAIN vmCache :
              target # Unresolved /\ b = target[2] /\ IsNew(vmCache'[b], target)
         /\ target \in Instance \cup {Unresolved}
<1> DEFINE known == IF target = Unresolved THEN vmCache ELSE WithChunk(target)
<1>1. target \in Instance \cup {Unresolved}
  BY DEF Current, Shape
<1>2. vmCache' = Put(known, a, Remembering(vmCache[a], target))
  BY DEF CallFn, Current
<1>3. /\ known \in [DOMAIN known -> Chunk]
      /\ \A b \in DOMAIN vmCache : b \in DOMAIN known /\ known[b] = vmCache[b]
      /\ \A b \in DOMAIN known \ DOMAIN vmCache :
           target # Unresolved /\ b = target[2] /\ IsNew(known[b], target)
  <2>1. CASE target = Unresolved
    BY <2>1 DEF Shape
  <2>2. CASE target # Unresolved
    <3>1. target \in Instance /\ known = WithChunk(target)
      BY <1>1, <2>2
    <3>2. QED
      BY <2>2, <3>1, ChunkAdded
  <2>3. QED
    BY <2>1, <2>2
<1> HIDE DEF known
<1>4. Remembering(vmCache[a], target) \in Chunk
  BY <1>1 DEF Remembering, Chunk, Shape
<1>5. /\ vmCache' = [b \in DOMAIN known |-> IF b = a THEN Remembering(vmCache[a], target) ELSE known[b]]
      /\ a \in DOMAIN known
  BY <1>2, <1>3 DEF Put
<1>6. vmCache' \in [DOMAIN vmCache' -> Chunk]
  BY <1>3, <1>4, <1>5
<1>7. vmCache'[a] = Remembering(vmCache[a], target)
  BY <1>5
<1>8. /\ vmCache'[a].owner = vmCache[a].owner /\ vmCache'[a].compiled = vmCache[a].compiled
      /\ vmCache'[a].memo.generation = generation /\ vmCache'[a].memo.target = target
  BY <1>7 DEF Remembering
<1>9. DOMAIN vmCache' = DOMAIN known /\ \A b \in DOMAIN known \ {a} : vmCache'[b] = known[b]
  BY <1>5
<1>10. QED
  BY <1>1, <1>3, <1>6, <1>8, <1>9

\* Every operation keeps the tables and caches in shape.
LEMMA StepShape == Shape /\ [Next]_vars => Shape'
<1> SUFFICES ASSUME Shape, [Next]_vars PROVE Shape'
  OBVIOUS
<1>1. ASSUME NEW s \in Sources, Declare(s.fns, s.classes) PROVE Shape'
  BY <1>1, DeclareShape
<1>2. ASSUME NEW c \in ClassNames, NEW e \in Alias, ClassAlias(c, e) PROVE Shape'
  <2>1. classes' \in [DOMAIN classes' -> ClassDecl]
    BY <1>2 DEF ClassAlias, Put, Shape
  <2>2. QED
    BY <1>2, <2>1 DEF ClassAlias, Shape, anon
<1>3. ASSUME NEW c, NEW m, FindMethod(c, m) PROVE Shape'
  BY <1>3 DEF FindMethod, Shape, tables, anon
<1>4. ASSUME NEW c, NEW m, FindMethodAutoload(c, m) PROVE Shape'
  BY <1>4, LoadShape
<1>5. ASSUME NEW c, ClassHasTypedProps(c) PROVE Shape'
  BY <1>5 DEF ClassHasTypedProps, Shape, tables, anon
<1>6. ASSUME NEW f \in Names, CallUser(f) PROVE Shape'
  <2>1. funcs[f] \in Instance /\ vmCache' = WithChunk(funcs[f])
    BY <1>6 DEF CallUser, Shape
  <2>2. /\ vmCache' \in [DOMAIN vmCache' -> Chunk]
        /\ DOMAIN vmCache' = DOMAIN vmCache \cup {funcs[f][2]}
        /\ \A a \in DOMAIN vmCache : vmCache'[a] = vmCache[a]
        /\ \A a \in DOMAIN vmCache' \ DOMAIN vmCache : IsNew(vmCache'[a], funcs[f])
    BY <2>1, ChunkAdded
  <2>3. \A a \in DOMAIN vmCache : vmCache'[a].owner[2] = a
    BY <2>2 DEF Shape
  <2>4. \A a \in DOMAIN vmCache' \ DOMAIN vmCache : vmCache'[a].owner[2] = a
    BY <2>2 DEF IsNew
  <2>5. QED
    BY <1>6, <2>2, <2>3, <2>4 DEF CallUser, Shape, tables, anon
<1>7. ASSUME NEW a \in DOMAIN vmCache, CallFn(a) PROVE Shape'
  <2>1. \A b \in DOMAIN vmCache' : vmCache'[b].owner[2] = b
    BY <1>7, CallFnEffect DEF IsNew, Shape
  <2>2. QED
    BY <1>7, <2>1, CallFnEffect DEF CallFn, Shape, tables, anon
<1>8. ASSUME NEW d \in AnonDecl, EvalSource(d) PROVE Shape'
  BY <1>8 DEF EvalSource, Free, Shape, tables
<1>9. ASSUME NEW i \in source, NewAnon(i) PROVE Shape'
  BY <1>9 DEF NewAnon, Shape, tables
<1>10. CASE EndSource
  BY <1>10 DEF EndSource, Shape, tables
<1>11. CASE UNCHANGED vars
  BY <1>11 DEF vars, Shape
<1>12. QED
  BY <1>1, <1>2, <1>3, <1>4, <1>5, <1>6, <1>7, <1>8, <1>9, <1>10, <1>11 DEF Next

----------------------------------------------------------------------------
(* Addresses: of what is held only empty bodies share one. *)

Unique == \A i, j \in Held \ {Unresolved} : i[2] = j[2] => i = j \/ i[2] = Dangling

\* A step after which nothing new is held keeps addresses apart.
LEMMA HeldShrinks ==
  ASSUME Unique, Held' \subseteq Held \cup {Unresolved}
  PROVE  Unique'
BY DEF Unique

\* Copies of bodies that are not empty get addresses nothing else has.
LEMMA DeclareUnique ==
  ASSUME Shape, Unique, NEW s \in Sources, Declare(s.fns, s.classes)
  PROVE  Unique'
<1>1. PICK at \in Injection({d \in s.fns : ~d.empty}, Free) :
        funcs' = [n \in DOMAIN funcs \cup {d.name : d \in s.fns} |->
                    IF \E d \in s.fns : d.name = n
                    THEN Copy(CHOOSE d \in s.fns : d.name = n, at) ELSE funcs[n]]
  BY DEF Declare
<1> DEFINE Copies == {Copy(d, at) : d \in s.fns}
           Full == {d \in s.fns : ~d.empty}
<1>2. /\ at \in [Full -> Free]
      /\ \A d, e \in Full : at[d] = at[e] => d = e
  BY <1>1 DEF Injection, IsInjective
<1>3. ASSUME NEW n \in DOMAIN funcs'
      PROVE  funcs'[n] \in Copies \/ (n \in DOMAIN funcs /\ funcs'[n] = funcs[n])
  <2>1. CASE \E d \in s.fns : d.name = n
    <3>1. PICK d \in s.fns : d = (CHOOSE e \in s.fns : e.name = n)
      BY <2>1
    <3>2. funcs'[n] = Copy(d, at)
      BY <1>1, <1>3, <2>1, <3>1
    <3>3. QED
      BY <3>1, <3>2
  <2>2. CASE ~ \E d \in s.fns : d.name = n
    BY <1>1, <1>3, <2>2
  <2>3. QED
    BY <2>1, <2>2
<1>4. Held' \subseteq Held \cup Copies
  <2>1. vmCache' = vmCache /\ source' = source
    BY DEF Declare, anon
  <2>2. Range(funcs') \subseteq Range(funcs) \cup Copies
    BY <1>3 DEF Range
  <2>3. QED
    BY <2>1, <2>2 DEF Held
<1>5. ASSUME NEW d \in s.fns
      PROVE  Copy(d, at)[2] = Dangling \/ (d \in Full /\ Copy(d, at) = <<d, at[d]>> /\ at[d] \in Free)
  BY <1>2 DEF Copy
<1>6. \A i \in Copies, j \in Held \ {Unresolved} : i[2] = j[2] => i[2] = Dangling
  BY <1>5 DEF Free
<1>7. \A i, j \in Copies : i[2] = j[2] => i = j \/ i[2] = Dangling
  BY <1>2, <1>5
<1>8. QED
  BY <1>4, <1>6, <1>7 DEF Unique

\* Every other operation keeps what it holds or takes a free address.
LEMMA StepUnique == Shape /\ Unique /\ [Next]_vars => Unique'
<1> SUFFICES ASSUME Shape, Unique, [Next]_vars PROVE Unique'
  OBVIOUS
<1>1. ASSUME NEW s \in Sources, Declare(s.fns, s.classes) PROVE Unique'
  BY <1>1, DeclareUnique
<1>2. ASSUME NEW c \in ClassNames, NEW e \in Alias, ClassAlias(c, e) PROVE Unique'
  BY <1>2, HeldShrinks DEF ClassAlias, anon, Held
<1>3. ASSUME NEW c, NEW m, FindMethod(c, m) \/ FindMethodAutoload(c, m) PROVE Unique'
  BY <1>3, HeldShrinks DEF FindMethod, FindMethodAutoload, tables, anon, Held
<1>5. ASSUME NEW c, ClassHasTypedProps(c) PROVE Unique'
  BY <1>5, HeldShrinks DEF ClassHasTypedProps, tables, anon, Held
<1>6. ASSUME NEW f \in Names, CallUser(f) PROVE Unique'
  <2>1. funcs[f] \in Instance /\ funcs[f] \in Held /\ vmCache' = WithChunk(funcs[f])
    BY <1>6 DEF CallUser, Shape, Held, Range
  <2>2. /\ DOMAIN vmCache' = DOMAIN vmCache \cup {funcs[f][2]}
        /\ \A a \in DOMAIN vmCache : vmCache'[a] = vmCache[a]
        /\ \A a \in DOMAIN vmCache' \ DOMAIN vmCache : IsNew(vmCache'[a], funcs[f])
    BY <2>1, ChunkAdded
  <2>3. \A a \in DOMAIN vmCache' \ DOMAIN vmCache :
          vmCache'[a].owner \in Held /\ vmCache'[a].memo.target = Unresolved
    BY <2>1, <2>2 DEF IsNew
  <2>4. funcs' = funcs /\ source' = source
    BY <1>6 DEF CallUser, tables, anon
  <2>5. Held' \subseteq Held \cup {Unresolved}
    BY <2>2, <2>3, <2>4 DEF Held
  <2>6. QED
    BY <2>5, HeldShrinks
<1>7. ASSUME NEW a \in DOMAIN vmCache, CallFn(a) PROVE Unique'
  <2> DEFINE target == Current(vmCache[a].owner[1].calls)
  <2>1. target \in Held \cup {Unresolved}
    BY DEF Current, Held, Range
  <2> HIDE DEF target
  <2>2. /\ \A b \in DOMAIN vmCache \ {a} : vmCache'[b] = vmCache[b]
        /\ vmCache'[a].owner = vmCache[a].owner /\ vmCache'[a].memo.target = target
        /\ \A b \in DOMAIN vmCache' \ DOMAIN vmCache :
             vmCache'[b].owner = target /\ vmCache'[b].memo.target = Unresolved
    BY <1>7, CallFnEffect DEF IsNew, target
  <2>3. funcs' = funcs /\ source' = source
    BY <1>7 DEF CallFn, tables, anon
  <2>4. \A b \in DOMAIN vmCache' : /\ vmCache'[b].owner \in Held \cup {Unresolved}
                                   /\ vmCache'[b].memo.target \in Held \cup {Unresolved}
    BY <2>1, <2>2 DEF Held
  <2>5. Held' \subseteq Held \cup {Unresolved}
    BY <2>3, <2>4 DEF Held
  <2>6. QED
    BY <2>5, HeldShrinks
<1>8. ASSUME NEW d \in AnonDecl, EvalSource(d) PROVE Unique'
  <2>1. PICK a \in Free : source' = {<<d, a>>}
    BY <1>8 DEF EvalSource
  <2>2. Held' \subseteq Held \cup {<<d, a>>}
    BY <1>8, <2>1 DEF EvalSource, tables, Held
  <2>3. \A j \in Held \ {Unresolved} : j[2] # a
    BY <2>1 DEF Free
  <2>4. QED
    BY <2>2, <2>3 DEF Unique
<1>9. ASSUME NEW i \in source, NewAnon(i) PROVE Unique'
  BY <1>9, HeldShrinks DEF NewAnon, tables, Held
<1>10. CASE EndSource
  BY <1>10, HeldShrinks DEF EndSource, tables, Held
<1>11. CASE UNCHANGED vars
  BY <1>11, HeldShrinks DEF vars, Held
<1>12. QED
  BY <1>1, <1>2, <1>3, <1>5, <1>6, <1>7, <1>8, <1>9, <1>10, <1>11 DEF Next

\* Of the functions, those with empty bodies have the address they share.
LEMMA DanglingIsEmpty ==
  ASSUME Shape, NEW i \in Held \ {Unresolved}, i[2] = Dangling
  PROVE  i[1].empty
<1>1. i \in Instance \/ i \in AnonDecl \X Addr
  BY DEF Shape, Held, Chunk, Range
<1>2. QED
  BY <1>1, EmptyBodies DEF Instance

\* A chunk holds what it was compiled from, so what is held at its address is
\* that or an empty body like it.
LEMMA PinnedChunks == Shape /\ Unique => ChunksMatchBodies
<1> SUFFICES ASSUME Shape, Unique, NEW i \in Held \ {Unresolved}, i[2] \in DOMAIN vmCache
             PROVE LET owner == vmCache[i[2]].owner IN owner = i \/ (owner[1].empty /\ i[1].empty)
  BY DEF ChunksMatchBodies
<1>1. vmCache[i[2]].owner \in Held /\ vmCache[i[2]].owner \in Instance
  BY DEF Held, Shape, Chunk
<1>2. vmCache[i[2]].owner # Unresolved
  BY <1>1, NothingIsSpecial DEF Instance
<1>3. vmCache[i[2]].owner[2] = i[2]
  BY DEF Shape
<1>4. vmCache[i[2]].owner = i \/ (i[2] = Dangling /\ vmCache[i[2]].owner[2] = Dangling)
  BY <1>1, <1>2, <1>3 DEF Unique
<1>5. QED
  BY <1>1, <1>2, <1>4, DanglingIsEmpty

----------------------------------------------------------------------------
(* Call sites: a memo is from an earlier generation or is right. *)

SitesAreKnown ==
  \A a \in DOMAIN vmCache :
    /\ vmCache[a].memo.generation <= generation
    /\ vmCache[a].memo.generation = generation =>
         vmCache[a].memo.target = Current(vmCache[a].owner[1].calls)

\* A declaration of a function starts a new generation; one of classes only
\* leaves the functions as they are.
LEMMA DeclareSites ==
  ASSUME Shape, SitesAreKnown, NEW s \in Sources, Declare(s.fns, s.classes)
  PROVE  SitesAreKnown'
<1>1. Cardinality(s.fns) \in Nat /\ Cardinality(s.classes) \in Nat
  BY SourcesAreFinite, FS_CardinalityType
<1>2. vmCache' = vmCache /\ generation' = generation + Cardinality(s.fns) + Cardinality(s.classes)
  BY DEF Declare, Bump, anon
<1>3. CASE s.fns = {}
  <2>1. DOMAIN funcs' = DOMAIN funcs /\ \A n \in DOMAIN funcs : funcs'[n] = funcs[n]
    BY <1>3 DEF Declare
  <2>2. \A f : Current(f)' = Current(f)
    BY <2>1 DEF Current
  <2>3. \A a \in DOMAIN vmCache : vmCache[a].memo.generation \in Nat
    BY DEF Shape, Chunk
  <2>4. QED
    BY <1>1, <1>2, <2>2, <2>3 DEF SitesAreKnown, Shape
<1>4. CASE s.fns # {}
  <2>1. Cardinality(s.fns) > 0
    BY <1>1, <1>4, SourcesAreFinite, FS_EmptySet
  <2>2. \A a \in DOMAIN vmCache : vmCache[a].memo.generation < generation'
    BY <1>1, <1>2, <2>1 DEF SitesAreKnown, Shape, Chunk
  <2>3. QED
    BY <1>1, <1>2, <2>2 DEF SitesAreKnown, Shape, Chunk
<1>5. QED
  BY <1>3, <1>4

\* Loading classes starts a new generation.
LEMMA LoadSites ==
  ASSUME Shape, SitesAreKnown, NEW c, NEW m, FindMethodAutoload(c, m)
  PROVE  SitesAreKnown'
<1>1. PICK loaded \in SUBSET Loadable : generation' = generation + Cardinality(loaded) + 1
  BY DEF FindMethodAutoload
<1>2. Cardinality(loaded) \in Nat
  BY SourcesAreFinite, FS_Subset, FS_CardinalityType
<1>3. vmCache' = vmCache
  BY DEF FindMethodAutoload, anon
<1>4. \A a \in DOMAIN vmCache : vmCache[a].memo.generation \in Nat
  BY DEF Shape, Chunk
<1>5. QED
  BY <1>1, <1>2, <1>3, <1>4 DEF SitesAreKnown, Shape

\* What a compiled body calls takes values, now and later.
SafeName(f) == f = NoName \/ f \in Builtin \/ \E d \in FnDecl : d.name = f /\ ~d.byRef
CompiledIsSafe ==
  \A a \in DOMAIN vmCache : vmCache[a].compiled => SafeName(vmCache[a].owner[1].calls)

\* The resolver lets a body be compiled only if its callee takes values.
LEMMA NewIsSafe ==
  ASSUME Shape, NEW chunk, NEW i, IsNew(chunk, i), chunk.compiled
  PROVE  SafeName(chunk.owner[1].calls)
<1>1. chunk.owner = i /\ (i[1].calls = NoName \/ Safe(i[1].calls))
  BY DEF IsNew, Compiled
<1>2. ASSUME Safe(i[1].calls) PROVE SafeName(i[1].calls)
  BY <1>2 DEF Safe, SafeName, Shape, Instance
<1>3. QED
  BY <1>1, <1>2 DEF SafeName

\* All declarations of a name agree, so no later one takes references.
LEMMA CompiledCallsByValue == Shape /\ CompiledIsSafe => ReferencesReachWalker
<1> SUFFICES ASSUME Shape, CompiledIsSafe, NEW a \in DOMAIN vmCache,
                    vmCache[a].compiled, vmCache[a].owner[1].calls \in DOMAIN funcs
             PROVE ~funcs[vmCache[a].owner[1].calls][1].byRef
  BY DEF ReferencesReachWalker
<1> DEFINE f == vmCache[a].owner[1].calls
<1>1. funcs[f][1] \in FnDecl /\ funcs[f][1].name = f
  BY DEF Shape, Instance
<1>2. SafeName(f)
  BY DEF CompiledIsSafe
<1> HIDE DEF f
<1>3. ASSUME NEW d \in FnDecl, SafeName(d.name) PROVE ~d.byRef
  <2>1. CASE d.name = NoName \/ d.name \in Builtin
    BY <2>1, FunctionsAgree
  <2>2. CASE \E e \in FnDecl : e.name = d.name /\ ~e.byRef
    BY <2>2, FunctionsAgree, Zenon
  <2>3. QED
    BY <1>3, <2>1, <2>2 DEF SafeName
<1>4. ~funcs[f][1].byRef
  BY <1>1, <1>2, <1>3
<1>5. QED
  BY <1>4 DEF f

----------------------------------------------------------------------------
(* The invariant. *)

IInv == Shape /\ Unique /\ SitesAreKnown /\ CompiledIsSafe /\ MethodMemoIsCurrent

\* Chunks that are only added to leave sites and callees as they were.
LEMMA ChunksAdded ==
  ASSUME Shape, SitesAreKnown, CompiledIsSafe, UNCHANGED tables,
         NEW i, DOMAIN vmCache \subseteq DOMAIN vmCache',
         \A a \in DOMAIN vmCache : vmCache'[a] = vmCache[a],
         \A a \in DOMAIN vmCache' \ DOMAIN vmCache : IsNew(vmCache'[a], i)
  PROVE  SitesAreKnown' /\ CompiledIsSafe'
<1>1. generation' = generation /\ funcs' = funcs
  BY DEF tables
<1>2. \A f : Current(f)' = Current(f)
  BY <1>1 DEF Current
<1>3. \A a \in DOMAIN vmCache' \ DOMAIN vmCache :
        vmCache'[a].memo.generation = 0 /\ (vmCache'[a].compiled => SafeName(vmCache'[a].owner[1].calls))
  BY NewIsSafe DEF IsNew
<1>4. SitesAreKnown'
  BY <1>1, <1>2, <1>3 DEF SitesAreKnown, Shape
<1>5. CompiledIsSafe'
  BY <1>3 DEF CompiledIsSafe
<1>6. QED
  BY <1>4, <1>5

\* A step that leaves chunks, functions and the generation alone.
LEMMA ChunksKept ==
  ASSUME SitesAreKnown, CompiledIsSafe, UNCHANGED <<vmCache, funcs, generation>>
  PROVE  SitesAreKnown' /\ CompiledIsSafe'
BY DEF SitesAreKnown, CompiledIsSafe, Current

\* Sites and compiled bodies, action by action.
LEMMA StepSites ==
  ASSUME Shape, SitesAreKnown, CompiledIsSafe, [Next]_vars
  PROVE  SitesAreKnown' /\ CompiledIsSafe'
<1> DEFINE Goal == SitesAreKnown' /\ CompiledIsSafe'
<1>1. ASSUME NEW s \in Sources, Declare(s.fns, s.classes) PROVE Goal
  <2>1. vmCache' = vmCache
    BY <1>1 DEF Declare
  <2>2. CompiledIsSafe'
    BY <2>1 DEF CompiledIsSafe
  <2>3. QED
    BY <1>1, <2>2, DeclareSites
<1>2. ASSUME NEW c \in ClassNames, NEW e \in Alias, ClassAlias(c, e) PROVE Goal
  BY <1>2, ChunksKept DEF ClassAlias
<1>3. ASSUME NEW c, NEW m, FindMethod(c, m) PROVE Goal
  BY <1>3, ChunksKept DEF FindMethod, tables
<1>4. ASSUME NEW c, NEW m, FindMethodAutoload(c, m) PROVE Goal
  <2>1. vmCache' = vmCache
    BY <1>4 DEF FindMethodAutoload
  <2>2. CompiledIsSafe'
    BY <2>1 DEF CompiledIsSafe
  <2>3. QED
    BY <1>4, <2>2, LoadSites
<1>5. ASSUME NEW c, ClassHasTypedProps(c) PROVE Goal
  BY <1>5, ChunksKept DEF ClassHasTypedProps, tables
<1>6. ASSUME NEW f \in Names, CallUser(f) PROVE Goal
  <2>1. funcs[f] \in Instance /\ vmCache' = WithChunk(funcs[f]) /\ UNCHANGED tables
    BY <1>6 DEF CallUser, Shape
  <2>2. /\ DOMAIN vmCache \subseteq DOMAIN vmCache'
        /\ \A a \in DOMAIN vmCache : vmCache'[a] = vmCache[a]
        /\ \A a \in DOMAIN vmCache' \ DOMAIN vmCache : IsNew(vmCache'[a], funcs[f])
    BY <2>1, ChunkAdded
  <2>3. QED
    BY <2>1, <2>2, ChunksAdded
<1>7. ASSUME NEW a \in DOMAIN vmCache, CallFn(a) PROVE Goal
  <2> DEFINE target == Current(vmCache[a].owner[1].calls)
  <2>1. /\ \A b \in DOMAIN vmCache \ {a} : vmCache'[b] = vmCache[b]
        /\ vmCache'[a].owner = vmCache[a].owner /\ vmCache'[a].compiled = vmCache[a].compiled
        /\ vmCache'[a].memo.generation = generation /\ vmCache'[a].memo.target = target
        /\ \A b \in DOMAIN vmCache' \ DOMAIN vmCache : IsNew(vmCache'[b], target)
    BY <1>7, CallFnEffect
  <2>2. generation' = generation /\ funcs' = funcs
    BY <1>7 DEF CallFn, tables
  <2>3. \A f : Current(f)' = Current(f)
    BY <2>2 DEF Current
  <2> HIDE DEF target
  <2>4. \A b \in DOMAIN vmCache' \ DOMAIN vmCache :
          vmCache'[b].memo.generation = 0 /\ (vmCache'[b].compiled => SafeName(vmCache'[b].owner[1].calls))
    BY <2>1, NewIsSafe DEF IsNew
  <2>5. ASSUME NEW b \in DOMAIN vmCache'
        PROVE  /\ vmCache'[b].memo.generation <= generation
               /\ vmCache'[b].memo.generation = generation =>
                    vmCache'[b].memo.target = Current(vmCache'[b].owner[1].calls)
    BY <2>1, <2>4 DEF SitesAreKnown, Shape, target
  <2>6. SitesAreKnown'
    BY <2>2, <2>3, <2>5 DEF SitesAreKnown
  <2>7. CompiledIsSafe'
    BY <2>1, <2>4 DEF CompiledIsSafe
  <2>8. QED
    BY <2>6, <2>7
<1>8. ASSUME NEW d \in AnonDecl, EvalSource(d) PROVE Goal
  BY <1>8, ChunksKept DEF EvalSource, tables
<1>9. ASSUME NEW i \in source, NewAnon(i) PROVE Goal
  BY <1>9, ChunksKept DEF NewAnon, tables
<1>10. CASE EndSource
  BY <1>10, ChunksKept DEF EndSource, tables
<1>11. CASE UNCHANGED vars
  BY <1>11, ChunksKept DEF vars
<1>12. QED
  BY <1>1, <1>2, <1>3, <1>4, <1>5, <1>6, <1>7, <1>8, <1>9, <1>10, <1>11 DEF Next

\* The method memo is dropped whenever a class is registered.
LEMMA StepMethods == Shape /\ MethodMemoIsCurrent /\ [Next]_vars => MethodMemoIsCurrent'
<1> SUFFICES ASSUME Shape, MethodMemoIsCurrent, [Next]_vars PROVE MethodMemoIsCurrent'
  OBVIOUS
<1>0. ASSUME UNCHANGED <<classes, methodCache, aliased>> PROVE MethodMemoIsCurrent'
  BY <1>0 DEF MethodMemoIsCurrent
<1>1. ASSUME NEW s \in Sources, Declare(s.fns, s.classes) PROVE MethodMemoIsCurrent'
  <2>1. CASE s.classes = {}
    <3>1. classes' = classes
      BY <1>1, <2>1 DEF Declare, Registered, Shape
    <3>2. QED
      BY <1>0, <1>1, <2>1, <3>1 DEF Declare, Forget
  <2>2. CASE s.classes # {}
    BY <1>1, <2>2 DEF Declare, Forget, MethodMemoIsCurrent
  <2>3. QED
    BY <2>1, <2>2
<1>2. ASSUME NEW c \in ClassNames, NEW e \in Alias, ClassAlias(c, e) PROVE MethodMemoIsCurrent'
  BY <1>2 DEF ClassAlias, MethodMemoIsCurrent
<1>3. ASSUME NEW c, NEW m, FindMethod(c, m) PROVE MethodMemoIsCurrent'
  <2>1. /\ methodCache' = [k \in DOMAIN methodCache \cup {<<c, m>>} |->
                             IF k = <<c, m>> THEN Resolve(classes, c, m) ELSE methodCache[k]]
        /\ classes' = classes /\ aliased' = aliased
    BY <1>3 DEF FindMethod, tables, Put
  <2>2. QED
    BY <2>1 DEF MethodMemoIsCurrent
<1>4. ASSUME NEW c, NEW m, FindMethodAutoload(c, m) PROVE MethodMemoIsCurrent'
  <2>1. PICK loaded : /\ classes' = Registered(loaded)
                      /\ methodCache' = [k \in {<<c, m>>} |-> Resolve(Registered(loaded), c, m)]
    BY <1>4 DEF FindMethodAutoload
  <2>2. methodCache' = [k \in {<<c, m>>} |-> Resolve(classes', c, m)]
    BY <2>1
  <2>3. QED
    BY <2>2 DEF MethodMemoIsCurrent
<1>5. ASSUME NEW c, ClassHasTypedProps(c) PROVE MethodMemoIsCurrent'
  BY <1>0, <1>5 DEF ClassHasTypedProps, tables
<1>6. ASSUME NEW f \in Names, CallUser(f) PROVE MethodMemoIsCurrent'
  BY <1>0, <1>6 DEF CallUser, tables
<1>7. ASSUME NEW a \in DOMAIN vmCache, CallFn(a) PROVE MethodMemoIsCurrent'
  BY <1>0, <1>7 DEF CallFn, tables
<1>8. ASSUME NEW d \in AnonDecl, EvalSource(d) PROVE MethodMemoIsCurrent'
  BY <1>0, <1>8 DEF EvalSource, tables
<1>9. ASSUME NEW i \in source, NewAnon(i) PROVE MethodMemoIsCurrent'
  BY <1>0, <1>9 DEF NewAnon, tables
<1>10. CASE EndSource
  BY <1>0, <1>10 DEF EndSource, tables
<1>11. CASE UNCHANGED vars
  BY <1>0, <1>11 DEF vars
<1>12. QED
  BY <1>1, <1>2, <1>3, <1>4, <1>5, <1>6, <1>7, <1>8, <1>9, <1>10, <1>11 DEF Next

\* Nothing is cached at the start.
LEMMA InitIInv == Init => IInv
<1> SUFFICES ASSUME Init PROVE IInv
  OBVIOUS
<1>1. Shape
  BY InitShape
<1>2. Unique
  BY DEF Init, Unique, Held, Range
<1>3. SitesAreKnown /\ CompiledIsSafe /\ MethodMemoIsCurrent
  BY DEF Init, SitesAreKnown, CompiledIsSafe, MethodMemoIsCurrent
<1>4. QED
  BY <1>1, <1>2, <1>3 DEF IInv

\* Every operation keeps the invariant.
LEMMA CacheInvariant == Spec => []IInv
<1>1. IInv /\ [Next]_vars => IInv'
  BY StepShape, StepUnique, StepSites, StepMethods DEF IInv
<1>2. QED
  BY <1>1, InitIInv, PTL DEF Spec

\* find_method's memo, hits and misses, holds what a lookup would find now,
\* unless class_alias ran since a class was last registered.
THEOREM MethodMemo == Spec => []MethodMemoIsCurrent
<1>1. IInv => MethodMemoIsCurrent
  BY DEF IInv
<1>2. QED
  BY <1>1, CacheInvariant, PTL

\* A memo of a call site that passes the test of its generation is the function
\* the name stands for now.
THEOREM CallSites == Spec => []SitesAreCurrent
<1>1. IInv => SitesAreCurrent
  BY DEF IInv, SitesAreKnown, SitesAreCurrent, Current
<1>2. QED
  BY <1>1, CacheInvariant, PTL

\* A compiled body is found only for the declaration it was compiled from, or
\* for another whose body is as empty as its own, although it is found by address
\* and addresses are used again.
THEOREM CachesAreCurrent == Spec => []ChunksMatchBodies
<1>1. IInv => ChunksMatchBodies
  BY PinnedChunks DEF IInv
<1>2. QED
  BY <1>1, CacheInvariant, PTL

\* No compiled call, which passes values, reaches a function that takes
\* references, in whatever order caller and callee are declared.
THEOREM CompiledCallsPassValues == Spec => []ReferencesReachWalker
<1>1. IInv => ReferencesReachWalker
  BY CompiledCallsByValue DEF IInv
<1>2. QED
  BY <1>1, CacheInvariant, PTL

----------------------------------------------------------------------------
(* Types. *)

\* Tables and caches are in shape, under names of the program.
TInv == Shape /\ TypeOK

\* An extended function's domain.
LEMMA PutDomain ==
  ASSUME NEW f, NEW x, NEW v
  PROVE  DOMAIN Put(f, x, v) = DOMAIN f \cup {x}
  BY DEF Put

\* The generation stays within its bound, and names are the program's.
LEMMA StepTypes == TInv /\ [Next]_vars => TInv'
<1> SUFFICES ASSUME TInv, [Next]_vars PROVE TInv'
  OBVIOUS
<1>0. Shape' /\ Shape
  BY StepShape DEF TInv
<1>1. /\ Range(funcs') \subseteq Instance /\ Range(classes') \subseteq ClassDecl
      /\ \A a \in DOMAIN vmCache' : /\ vmCache'[a].owner \in Instance /\ vmCache'[a].owner[2] = a
                                    /\ vmCache'[a].memo.target \in Instance \cup {Unresolved}
      /\ source' \subseteq AnonDecl \X Addr /\ generation' \in Nat \ {0}
  BY <1>0 DEF Shape, Chunk, Range
<1>2. DOMAIN vmCache' \subseteq Addr \cup {Dangling}
  BY <1>1 DEF Instance
<1> DEFINE Rest == /\ DOMAIN funcs' \subseteq Names /\ DOMAIN classes' \subseteq Known
                   /\ DOMAIN methodCache' \subseteq Known \X Methods
                   /\ generation' <= MaxGeneration /\ DOMAIN anonNames' \subseteq Addr
<1>3. ASSUME Rest PROVE TInv'
  BY <1>0, <1>1, <1>2, <1>3, Bounds DEF TInv, TypeOK
<1>4. /\ DOMAIN funcs \subseteq Names /\ DOMAIN classes \subseteq Known
      /\ DOMAIN methodCache \subseteq Known \X Methods
      /\ generation <= MaxGeneration /\ DOMAIN anonNames \subseteq Addr
  BY Bounds DEF TInv, TypeOK
<1>5. ASSUME NEW cs \in SUBSET ClassDecl
      PROVE  DOMAIN Registered(cs) \subseteq Known
  BY <1>4 DEF Registered, Known, ClassNames
<1>6. ASSUME NEW s \in Sources, Declare(s.fns, s.classes) PROVE Rest
  <2>1. s.fns \subseteq FnDecl /\ s.classes \in SUBSET ClassDecl
    BY SourcesAreFinite
  <2>2. DOMAIN funcs' \subseteq Names
    <3>1. DOMAIN funcs' = DOMAIN funcs \cup {d.name : d \in s.fns}
      BY <1>6 DEF Declare
    <3>2. QED
      BY <1>4, <2>1, <3>1 DEF Names
  <2>3. DOMAIN classes' \subseteq Known
    BY <1>5, <1>6, <2>1 DEF Declare
  <2>4. DOMAIN methodCache' \subseteq Known \X Methods
    BY <1>4, <1>6 DEF Declare, Forget
  <2>5. generation' <= MaxGeneration /\ anonNames' = anonNames
    BY <1>6 DEF Declare, Bump, anon
  <2>6. QED
    BY <1>4, <2>2, <2>3, <2>4, <2>5
<1>7. ASSUME NEW c \in ClassNames, NEW e \in Alias, ClassAlias(c, e) PROVE Rest
  <2>1. DOMAIN classes' = DOMAIN classes \cup {e}
    BY <1>7, PutDomain DEF ClassAlias
  <2>2. QED
    BY <1>4, <1>7, <2>1 DEF ClassAlias, anon, Known
<1>8. ASSUME NEW c \in Known, NEW m \in Methods, FindMethod(c, m) PROVE Rest
  <2>1. DOMAIN methodCache' = DOMAIN methodCache \cup {<<c, m>>}
    BY <1>8, PutDomain DEF FindMethod
  <2>2. QED
    BY <1>4, <1>8, <2>1 DEF FindMethod, tables, anon
<1>9. ASSUME NEW c \in Known, NEW m \in Methods, FindMethodAutoload(c, m) PROVE Rest
  <2>1. PICK loaded \in SUBSET Loadable :
          /\ classes' = Registered(loaded) /\ generation + Cardinality(loaded) + 1 <= MaxGeneration
          /\ generation' = generation + Cardinality(loaded) + 1
          /\ methodCache' = [k \in {<<c, m>>} |-> Resolve(Registered(loaded), c, m)]
    BY <1>9 DEF FindMethodAutoload
  <2>2. loaded \in SUBSET ClassDecl
    BY SourcesAreFinite
  <2>3. DOMAIN classes' \subseteq Known /\ DOMAIN methodCache' \subseteq Known \X Methods
    BY <1>5, <2>1, <2>2
  <2>4. QED
    BY <1>4, <1>9, <2>1, <2>3 DEF FindMethodAutoload, anon
<1>10. ASSUME NEW c, ClassHasTypedProps(c) PROVE Rest
  BY <1>4, <1>10 DEF ClassHasTypedProps, tables, anon
<1>11. ASSUME NEW f, CallUser(f) PROVE Rest
  BY <1>4, <1>11 DEF CallUser, tables, anon
<1>12. ASSUME NEW a, CallFn(a) PROVE Rest
  BY <1>4, <1>12 DEF CallFn, tables, anon
<1>13. ASSUME NEW d, EvalSource(d) PROVE Rest
  BY <1>4, <1>13 DEF EvalSource, tables
<1>14. ASSUME NEW i \in source, NewAnon(i) PROVE Rest
  <2>1. i[2] \in Addr
    BY <1>0 DEF Shape
  <2>2. DOMAIN anonNames' \subseteq Addr
    <3>1. anonNames' = IF i[2] \in DOMAIN anonNames THEN anonNames ELSE Put(anonNames, i[2], i[1])
      BY <1>14 DEF NewAnon
    <3>2. DOMAIN Put(anonNames, i[2], i[1]) = DOMAIN anonNames \cup {i[2]}
      BY PutDomain
    <3>3. QED
      BY <1>4, <2>1, <3>1, <3>2
  <2>3. QED
    BY <1>4, <1>14, <2>2 DEF NewAnon, tables
<1>15. ASSUME EndSource PROVE Rest
  BY <1>4, <1>15 DEF EndSource, tables
<1>16. ASSUME UNCHANGED vars PROVE Rest
  BY <1>4, <1>16 DEF vars
<1> HIDE DEF Rest
<1>17. Rest
  BY <1>6, <1>7, <1>8, <1>9, <1>10, <1>11, <1>12, <1>13, <1>14, <1>15, <1>16 DEF Next
<1>18. QED
  BY <1>3, <1>17

\* The tables, memos and addresses of the dispatch caches stay of their types,
\* and the generation within its bound.
THEOREM DispatchTypes == Spec => []TypeOK
<1>1. Init => TInv
  <2>1. Init => TypeOK
    BY Bounds DEF Init, TypeOK, Range
  <2>2. QED
    BY <2>1, InitShape DEF TInv
<1>2. TInv => TypeOK
  BY DEF TInv
<1>3. QED
  BY <1>1, <1>2, StepTypes, PTL DEF Spec

----------------------------------------------------------------------------
(* Typed properties. *)

\* The chain of parents of a class is computed one class at a time.
LEMMA AncestrySteps ==
  ASSUME NEW cl, NEW c
  PROVE  /\ DOMAIN Ancestry(cl, c) = 0..MaxChain
         /\ Ancestry(cl, c)[0] = ClassAt(cl, c)
         /\ \A i \in 1..MaxChain : Ancestry(cl, c)[i] = Above(cl, Ancestry(cl, c)[i - 1])
<1> DEFINE Climbs(g, n) ==
             g = [i \in 0..n |-> IF i = 0 THEN ClassAt(cl, c) ELSE Above(cl, g[i - 1])]
           T == {n \in 0..MaxChain : \E g : Climbs(g, n)}
<1>1. MaxChain \in Nat
  BY Bounds
<1>2. 0 \in T
  <2> DEFINE g == [i \in 0..0 |-> ClassAt(cl, c)]
  <2>1. Climbs(g, 0)
    OBVIOUS
  <2>2. 0 \in 0..MaxChain
    BY <1>1
  <2> HIDE DEF g, Climbs
  <2>3. QED
    BY <2>1, <2>2
<1>3. ASSUME NEW n \in 0..MaxChain, n \in T, n + 1 <= MaxChain PROVE n + 1 \in T
  <2>1. PICK g : Climbs(g, n)
    BY <1>3
  <2> DEFINE h == [i \in 0..(n + 1) |-> IF i <= n THEN g[i] ELSE Above(cl, g[n])]
  <2>2. ASSUME NEW i \in 0..(n + 1)
        PROVE  h[i] = IF i = 0 THEN ClassAt(cl, c) ELSE Above(cl, h[i - 1])
    <3>1. CASE i <= n
      <4>1. i \in 0..n /\ h[i] = g[i] /\ (i # 0 => i - 1 \in 0..(n + 1) /\ i - 1 <= n)
        BY <1>3, <3>1
      <4>2. g[i] = IF i = 0 THEN ClassAt(cl, c) ELSE Above(cl, g[i - 1])
        BY <2>1, <4>1
      <4>3. QED
        BY <4>1, <4>2
    <3>2. CASE i = n + 1
      BY <1>3, <3>2
    <3>3. QED
      BY <1>3, <3>1, <3>2
  <2>3. h = [i \in 0..(n + 1) |-> IF i = 0 THEN ClassAt(cl, c) ELSE Above(cl, h[i - 1])]
    <3>1. h = [i \in 0..(n + 1) |-> h[i]]
      OBVIOUS
    <3> HIDE DEF h
    <3>2. QED
      BY <2>2, <3>1
  <2>4. Climbs(h, n + 1)
    BY <2>3
  <2>5. n + 1 \in 0..MaxChain
    BY <1>3
  <2> HIDE DEF h, Climbs
  <2>6. QED
    BY <2>4, <2>5
<1>4. \E g : Climbs(g, MaxChain)
  <2>1. T \in SUBSET (0..MaxChain) /\ MaxChain \in 0..MaxChain
    BY <1>1
  <2> HIDE DEF T
  <2>2. T = 0..MaxChain
    BY <1>1, <1>2, <1>3, <2>1, InductionUpTo
  <2>3. MaxChain \in T
    BY <2>1, <2>2
  <2>4. QED
    BY <2>3 DEF T
<1> DEFINE up == Ancestry(cl, c)
<1>5. up = CHOOSE g : Climbs(g, MaxChain)
  BY DEF Ancestry
<1>6. Climbs(up, MaxChain)
  <2> HIDE DEF Climbs, up
  <2> QED
    BY <1>4, <1>5
<1>7. up = [i \in 0..MaxChain |-> IF i = 0 THEN ClassAt(cl, c) ELSE Above(cl, up[i - 1])]
  BY <1>6
<1> HIDE DEF up
<1>8. 0 \in 0..MaxChain /\ \A i \in 1..MaxChain : i \in 0..MaxChain /\ i # 0
  BY <1>1
<1>9. DOMAIN up = 0..MaxChain /\ up[0] = ClassAt(cl, c)
  BY <1>7, <1>8
<1>10. \A i \in 1..MaxChain : up[i] = Above(cl, up[i - 1])
  BY <1>7, <1>8
<1>11. QED
  BY <1>9, <1>10 DEF up

\* The table has grown: what was registered still is.
Grows(cl, cl2) == DOMAIN cl \subseteq DOMAIN cl2 /\ \A n \in DOMAIN cl : cl2[n] = cl[n]

\* A chain with no parent missing is the same in a table that has grown.
LEMMA ChainKept ==
  ASSUME NEW cl, NEW cl2, Grows(cl, cl2), NEW c \in DOMAIN cl, Missing(cl, c) = {}
  PROVE  Chain(cl2, c) = Chain(cl, c) /\ Missing(cl2, c) = {}
<1> DEFINE up == Ancestry(cl, c)
           up2 == Ancestry(cl2, c)
           T == {i \in 0..MaxChain : up2[i] = up[i]}
<1>1. /\ DOMAIN up = 0..MaxChain /\ up[0] = ClassAt(cl, c)
      /\ \A i \in 1..MaxChain : up[i] = Above(cl, up[i - 1])
      /\ DOMAIN up2 = 0..MaxChain /\ up2[0] = ClassAt(cl2, c)
      /\ \A i \in 1..MaxChain : up2[i] = Above(cl2, up2[i - 1])
  BY AncestrySteps
<1>2. Chain(cl, c) = Range(up) \ {NoDecl} /\ Chain(cl2, c) = Range(up2) \ {NoDecl}
  BY DEF Chain
<1>3. \A d \in Chain(cl, c) : d.parent \in DOMAIN cl \cup {NoName}
  BY DEF Missing
<1> HIDE DEF up, up2
<1>4. MaxChain \in Nat
  BY Bounds
<1>5. 0 \in T
  BY <1>1, <1>4 DEF ClassAt, Grows
<1>6. ASSUME NEW i \in 0..MaxChain, i \in T, i + 1 <= MaxChain PROVE i + 1 \in T
  <2>1. i + 1 \in 1..MaxChain /\ i + 1 \in 0..MaxChain /\ (i + 1) - 1 = i
    BY <1>4, <1>6
  <2>2. up[i + 1] = Above(cl, up[i]) /\ up2[i + 1] = Above(cl2, up[i])
    BY <1>1, <1>6, <2>1
  <2>3. CASE up[i] = NoDecl \/ up[i].parent = NoName
    BY <2>1, <2>2, <2>3 DEF Above
  <2>4. CASE ~(up[i] = NoDecl \/ up[i].parent = NoName)
    <3>1. up[i] \in Chain(cl, c)
      BY <1>1, <1>2, <2>4 DEF Range
    <3>2. up[i].parent \in DOMAIN cl
      BY <1>3, <2>4, <3>1
    <3>3. ClassAt(cl2, up[i].parent) = ClassAt(cl, up[i].parent)
      BY <3>2 DEF ClassAt, Grows
    <3>4. QED
      BY <2>1, <2>2, <2>4, <3>3 DEF Above
  <2>5. QED
    BY <2>3, <2>4
<1>7. T = 0..MaxChain
  <2>1. T \in SUBSET (0..MaxChain)
    OBVIOUS
  <2> HIDE DEF T
  <2>2. QED
    BY <1>4, <1>5, <1>6, <2>1, InductionUpTo
<1>8. \A i \in 0..MaxChain : up2[i] = up[i]
  BY <1>7
<1>9. Range(up2) = Range(up)
  BY <1>1, <1>8 DEF Range
<1>10. Chain(cl2, c) = Chain(cl, c)
  BY <1>2, <1>9
<1>11. Missing(cl2, c) = {}
  BY <1>3, <1>10 DEF Missing, Grows
<1>12. QED
  BY <1>10, <1>11

\* No class is declared in two ways (PHP refuses to declare a class again).
OneDeclaration == \A d, e \in ClassDecl : d.name = e.name => d = e

\* Classes are registered under their own names, aliases apart.
NamesAreOwn == \A n \in DOMAIN classes : n \notin Alias => classes[n].name = n

\* What a hierarchy with no parent missing was found to be, it still is.
TypedIsKnown ==
  \A c \in DOMAIN typedCache :
    /\ c \in DOMAIN classes
    /\ typedCache[c].whole =>
         Missing(classes, c) = {} /\ typedCache[c].typed = AnyTyped(classes, c)

HInv == Shape /\ NamesAreOwn /\ TypedIsKnown

\* Registering classes that are declared once changes none that was there.
LEMMA RegisteringGrows ==
  ASSUME OneDeclaration, Shape, NamesAreOwn, NEW cs \in SUBSET ClassDecl,
         classes' = Registered(cs)
  PROVE  Grows(classes, classes') /\ NamesAreOwn'
<1>1. /\ DOMAIN classes' = DOMAIN classes \cup {d.name : d \in cs}
      /\ \A n \in DOMAIN classes' :
           classes'[n] = IF \E d \in cs : d.name = n THEN CHOOSE d \in cs : d.name = n ELSE classes[n]
  BY DEF Registered
<1>2. ASSUME NEW n \in DOMAIN classes', \E d \in cs : d.name = n
      PROVE  /\ classes'[n] \in cs /\ classes'[n].name = n
             /\ n \in DOMAIN classes => classes'[n] = classes[n]
  <2>1. PICK d \in cs : d = (CHOOSE e \in cs : e.name = n) /\ d.name = n
    BY <1>2
  <2>2. classes'[n] = d
    BY <1>1, <1>2, <2>1
  <2>3. ASSUME n \in DOMAIN classes PROVE classes[n] = d
    <3>1. n \notin Alias /\ d \in ClassDecl
      BY <2>1, AliasesAreNew
    <3>2. classes[n].name = n /\ classes[n] \in ClassDecl
      BY <2>3, <3>1 DEF NamesAreOwn, Shape
    <3>3. QED
      BY <2>1, <3>1, <3>2 DEF OneDeclaration
  <2>4. QED
    BY <2>1, <2>2, <2>3
<1>3. ASSUME NEW n \in DOMAIN classes', ~ \E d \in cs : d.name = n
      PROVE  n \in DOMAIN classes /\ classes'[n] = classes[n]
  BY <1>1, <1>3
<1>4. Grows(classes, classes')
  BY <1>1, <1>2, <1>3 DEF Grows
<1>5. NamesAreOwn'
  BY <1>2, <1>3 DEF NamesAreOwn
<1>6. QED
  BY <1>4, <1>5

\* A table that has grown leaves the memo right.
LEMMA TypedKept ==
  ASSUME TypedIsKnown, Grows(classes, classes'), typedCache' = typedCache
  PROVE  TypedIsKnown'
<1>1. SUFFICES ASSUME NEW c \in DOMAIN typedCache
               PROVE  /\ c \in DOMAIN classes'
                      /\ typedCache[c].whole =>
                           Missing(classes', c) = {} /\ typedCache[c].typed = AnyTyped(classes', c)
  BY DEF TypedIsKnown
<1>2. c \in DOMAIN classes
  BY DEF TypedIsKnown
<1>3. c \in DOMAIN classes'
  BY <1>2 DEF Grows
<1>4. ASSUME typedCache[c].whole
      PROVE  Missing(classes', c) = {} /\ typedCache[c].typed = AnyTyped(classes', c)
  <2>1. Missing(classes, c) = {} /\ typedCache[c].typed = AnyTyped(classes, c)
    BY <1>4 DEF TypedIsKnown
  <2>2. Chain(classes', c) = Chain(classes, c) /\ Missing(classes', c) = {}
    BY <1>2, <2>1, ChainKept
  <2>3. QED
    BY <2>1, <2>2 DEF AnyTyped
<1>5. QED
  BY <1>3, <1>4

\* Every operation keeps the typed-property memo right.
LEMMA StepTyped == OneDeclaration /\ HInv /\ [Next]_vars => HInv'
<1> SUFFICES ASSUME OneDeclaration, HInv, [Next]_vars PROVE HInv'
  OBVIOUS
<1>1. Shape' /\ Shape /\ NamesAreOwn /\ TypedIsKnown
  BY StepShape DEF HInv
<1> DEFINE Rest == NamesAreOwn' /\ TypedIsKnown'
<1>2. ASSUME Grows(classes, classes'), NamesAreOwn', typedCache' = typedCache PROVE Rest
  BY <1>1, <1>2, TypedKept
<1>3. ASSUME classes' = classes, typedCache' = typedCache PROVE Rest
  BY <1>1, <1>3 DEF NamesAreOwn, TypedIsKnown
<1>4. ASSUME NEW s \in Sources, Declare(s.fns, s.classes) PROVE Rest
  <2>1. s.classes \in SUBSET ClassDecl
    BY SourcesAreFinite
  <2>2. classes' = Registered(s.classes) /\ typedCache' = typedCache
    BY <1>4 DEF Declare
  <2>3. QED
    BY <1>1, <1>2, <2>1, <2>2, RegisteringGrows
<1>5. ASSUME NEW c \in ClassNames, NEW e \in Alias, ClassAlias(c, e) PROVE Rest
  <2>1. /\ e \notin DOMAIN classes /\ typedCache' = typedCache
        /\ classes' = [n \in DOMAIN classes \cup {e} |-> IF n = e THEN classes[c] ELSE classes[n]]
    BY <1>5 DEF ClassAlias, Put
  <2>2. Grows(classes, classes')
    BY <2>1 DEF Grows
  <2>3. NamesAreOwn'
    BY <1>1, <2>1 DEF NamesAreOwn
  <2>4. QED
    BY <1>2, <2>1, <2>2, <2>3
<1>6. ASSUME NEW c, NEW m, FindMethod(c, m) PROVE Rest
  BY <1>3, <1>6 DEF FindMethod, tables
<1>7. ASSUME NEW c, NEW m, FindMethodAutoload(c, m) PROVE Rest
  <2>1. PICK loaded \in SUBSET Loadable : classes' = Registered(loaded) /\ typedCache' = typedCache
    BY <1>7 DEF FindMethodAutoload
  <2>2. loaded \in SUBSET ClassDecl
    BY SourcesAreFinite
  <2>3. QED
    BY <1>1, <1>2, <2>1, <2>2, RegisteringGrows
<1>8. ASSUME NEW c, ClassHasTypedProps(c) PROVE Rest
  <2> DEFINE memo == [typed |-> AnyTyped(classes, c), whole |-> Missing(classes, c) = {}]
  <2>1. /\ c \in DOMAIN classes /\ classes' = classes
        /\ typedCache' = [n \in DOMAIN typedCache \cup {c} |-> IF n = c THEN memo ELSE typedCache[n]]
    BY <1>8 DEF ClassHasTypedProps, tables, Put
  <2>2. memo.typed = AnyTyped(classes, c) /\ (memo.whole => Missing(classes, c) = {})
    BY Zenon
  <2> HIDE DEF memo
  <2>3. TypedIsKnown'
    BY <1>1, <2>1, <2>2 DEF TypedIsKnown
  <2>4. NamesAreOwn'
    BY <1>1, <2>1 DEF NamesAreOwn
  <2>5. QED
    BY <2>3, <2>4
<1>9. ASSUME NEW f, CallUser(f) PROVE Rest
  BY <1>3, <1>9 DEF CallUser, tables
<1>10. ASSUME NEW a, CallFn(a) PROVE Rest
  BY <1>3, <1>10 DEF CallFn, tables
<1>11. ASSUME NEW d, EvalSource(d) PROVE Rest
  BY <1>3, <1>11 DEF EvalSource, tables
<1>12. ASSUME NEW i, NewAnon(i) PROVE Rest
  BY <1>3, <1>12 DEF NewAnon, tables
<1>13. ASSUME EndSource PROVE Rest
  BY <1>3, <1>13 DEF EndSource, tables
<1>14. ASSUME UNCHANGED vars PROVE Rest
  BY <1>3, <1>14 DEF vars
<1> HIDE DEF Rest
<1>15. Rest
  BY <1>4, <1>5, <1>6, <1>7, <1>8, <1>9, <1>10, <1>11, <1>12, <1>13, <1>14 DEF Next
<1>16. QED
  BY <1>1, <1>15 DEF HInv, Rest

\* If no class is declared in two ways, a write to a property skips the checks
\* of its type only while no class of the hierarchy declares a typed property,
\* however many classes, aliases and autoloads come after the first write.
THEOREM TypedChecksRun == OneDeclaration => (Spec => []ChecksAreNotSkipped)
<1>1. SUFFICES ASSUME OneDeclaration PROVE Spec => []ChecksAreNotSkipped
  OBVIOUS
<1>2. Init => HInv
  <2>1. Init => NamesAreOwn /\ TypedIsKnown
    BY DEF Init, NamesAreOwn, TypedIsKnown
  <2>2. QED
    BY <2>1, InitShape DEF HInv
<1>3. HInv /\ [Next]_vars => HInv'
  BY <1>1, StepTyped
<1>4. HInv => ChecksAreNotSkipped
  <2>1. SUFFICES ASSUME HInv, NEW c \in DOMAIN typedCache,
                        typedCache[c].whole, ~typedCache[c].typed
                 PROVE  \A d \in Chain(classes, c) : ~d.typed
    BY DEF ChecksAreNotSkipped
  <2>2. typedCache[c].typed = AnyTyped(classes, c)
    BY <2>1 DEF HInv, TypedIsKnown
  <2>3. ~AnyTyped(classes, c)
    BY <2>1, <2>2
  <2>4. QED
    BY <2>3 DEF AnyTyped
<1>5. QED
  BY <1>2, <1>3, <1>4, PTL DEF Spec
=============================================================================
