------------------------------ MODULE Dispatch ------------------------------
(***************************************************************************)
(* The function and class tables of the evaluator, as declarations change  *)
(* them, and what is remembered about them: the method memo, the typed-    *)
(* property memo, compiled bodies, the memos of call sites, and the names  *)
(* of anonymous classes.  Compiled bodies and anonymous classes are found  *)
(* by the address of their syntax, which the allocator may use again once  *)
(* nothing holds it.  The address of a body is that of its first statement, *)
(* and all empty bodies have one: that of an empty vector, never freed.     *)
(* A declaration is abstracted to what lookups look at.  An instance of it *)
(* is the copy made when it is registered: <<declaration, address>>.       *)
(***************************************************************************)
EXTENDS Integers, FiniteSets, Functions

CONSTANTS
  FnDecl,      \* functions: [name, byRef, calls, empty], calls one function or
               \* NoName, empty if the body has no statement
  ClassDecl,   \* classes: [name, parent, trait, methods, typed]
  AnonDecl,    \* anonymous classes
  Alias,       \* second names of classes; no declaration has one
  Sources,     \* what is registered in one step: [fns, classes]
  Builtin,     \* names of built-in functions
  Loadable,    \* classes an autoloader can declare
  Addr,        \* addresses of syntax
  Dangling,    \* the address of an empty body
  MaxGeneration,   \* bound on declarations
  MaxChain,    \* the longest chain of parents; 50 in the code
  NoName, NoDecl, Unresolved

ASSUME Bounds == MaxChain \in Nat /\ MaxGeneration \in Nat \ {0}
ASSUME AliasesAreNew == \A d \in ClassDecl : d.name \notin Alias
ASSUME SourcesAreFinite ==
  /\ \A s \in Sources : /\ s.fns \subseteq FnDecl /\ IsFiniteSet(s.fns)
                       /\ s.classes \subseteq ClassDecl /\ IsFiniteSet(s.classes)
  /\ Loadable \subseteq ClassDecl /\ IsFiniteSet(Loadable)
\* All declarations of a name agree on whether it takes references, and user
\* functions with the name of a built-in one do not.
ASSUME FunctionsAgree ==
  \A d \in FnDecl : /\ d.name # NoName
                    /\ d.name \in Builtin => ~d.byRef
                    /\ \A e \in FnDecl : d.name = e.name => d.byRef = e.byRef
ASSUME EmptyBodies == Dangling \notin Addr /\ \A d \in FnDecl : d.empty => d.calls = NoName
ASSUME NothingIsSpecial ==
  Unresolved \notin (FnDecl \cup AnonDecl) \X (Addr \cup {Dangling}) /\ NoDecl \notin ClassDecl

VARIABLES
  funcs,        \* name -> instance
  classes,      \* name or alias -> declaration
  methodCache,  \* <<class, method>> -> {} or {[class, decl]}
  typedCache,   \* class -> [typed, whole]
  vmCache,      \* address -> [owner, compiled, memo]
  generation,
  source,       \* the evaluated sources whose syntax is in memory
  anonNames,    \* address -> the anonymous class registered for it
  made,         \* <<declaration, class>> of the last anonymous object
  aliased       \* history: class_alias since the method memo was cleared

tables == <<funcs, classes, generation>>
anon == <<source, anonNames, made>>
vars == <<funcs, classes, methodCache, typedCache, vmCache, generation,
          source, anonNames, made, aliased>>

Names == {d.name : d \in FnDecl}
ClassNames == {d.name : d \in ClassDecl}
Known == ClassNames \cup Alias
Methods == UNION {d.methods : d \in ClassDecl}

Init ==
  /\ funcs = <<>> /\ classes = <<>> /\ methodCache = <<>> /\ typedCache = <<>>
  /\ vmCache = <<>> /\ generation = 1
  /\ source = {} /\ anonNames = <<>> /\ made = <<>>
  /\ aliased = FALSE

Put(f, x, v) == [y \in DOMAIN f \cup {x} |-> IF y = x THEN v ELSE f[y]]

----------------------------------------------------------------------------
(* Memory.  What holds an instance keeps its address in use. *)

\* Mutant: a cached chunk does not hold the declaration it was compiled from.
HeldUnpinned ==
  Range(funcs) \cup {vmCache[a].memo.target : a \in DOMAIN vmCache} \cup source

Held ==
  Range(funcs) \cup {vmCache[a].owner : a \in DOMAIN vmCache}
  \cup {vmCache[a].memo.target : a \in DOMAIN vmCache} \cup source
Free == {a \in Addr : \A i \in Held \ {Unresolved} : i[2] # a}

----------------------------------------------------------------------------
(* Lookups. *)

ClassAt(cl, n) == IF n \in DOMAIN cl THEN cl[n] ELSE NoDecl

\* ancestry: the class, its parent, and so on, while they are registered.
Above(cl, d) == IF d = NoDecl \/ d.parent = NoName THEN NoDecl ELSE ClassAt(cl, d.parent)
Ancestry(cl, c) ==
  LET up[i \in 0..MaxChain] == IF i = 0 THEN ClassAt(cl, c) ELSE Above(cl, up[i - 1])
  IN up

\* The traits of a class come before its own methods.
Offers(cl, d, m) ==
  IF d = NoDecl THEN {}
  ELSE IF ClassAt(cl, d.trait) # NoDecl /\ m \in ClassAt(cl, d.trait).methods
  THEN {[class |-> d.name, decl |-> <<d.trait, m>>]}
  ELSE IF m \in d.methods THEN {[class |-> d.name, decl |-> <<d.name, m>>]} ELSE {}
FirstOffer(cl, up, m) ==
  LET offering == {i \in DOMAIN up : Offers(cl, up[i], m) # {}}
  IN IF offering = {} THEN {}
     ELSE Offers(cl, up[CHOOSE i \in offering : \A j \in offering : i <= j], m)
Resolve(cl, c, m) == FirstOffer(cl, Ancestry(cl, c), m)

Chain(cl, c) == Range(Ancestry(cl, c)) \ {NoDecl}
\* Mutant: only the class itself is asked.
TypedItself(cl, c) == \E d \in {ClassAt(cl, c)} \ {NoDecl} : d.typed
AnyTyped(cl, c) == \E d \in Chain(cl, c) : d.typed
Missing(cl, c) == {d.parent : d \in Chain(cl, c)} \ (DOMAIN cl \cup {NoName})

----------------------------------------------------------------------------
(* Declarations. *)

\* Mutant: the memo is kept.
ForgetNothing(cs) == UNCHANGED <<methodCache, aliased>>

\* Registering a class clears the method memo.
Forget(cs) ==
  IF cs = {} THEN UNCHANGED <<methodCache, aliased>> ELSE methodCache' = <<>> /\ aliased' = FALSE

\* Mutant: functions do not count.
BumpClasses(fs, cs) == generation' = generation + Cardinality(cs)

Bump(fs, cs) == generation' = generation + Cardinality(fs) + Cardinality(cs)

Registered(cs) ==
  [n \in DOMAIN classes \cup {d.name : d \in cs} |->
     IF \E d \in cs : d.name = n THEN CHOOSE d \in cs : d.name = n ELSE classes[n]]

Copy(d, at) == <<d, IF d.empty THEN Dangling ELSE at[d]>>

\* A source that is hoisted, or one declaration when it is executed: every
\* function and class is copied and registered under its name.  A copy of a body
\* that is not empty has an address of its own.
Declare(fs, cs) ==
  /\ generation + Cardinality(fs) + Cardinality(cs) <= MaxGeneration
  /\ \E at \in Injection({d \in fs : ~d.empty}, Free) :
       funcs' = [n \in DOMAIN funcs \cup {d.name : d \in fs} |->
                   IF \E d \in fs : d.name = n
                   THEN Copy(CHOOSE d \in fs : d.name = n, at) ELSE funcs[n]]
  /\ classes' = Registered(cs)
  /\ Forget(cs) /\ Bump(fs, cs)
  /\ UNCHANGED <<typedCache, vmCache, anon>>

\* class_alias: the class under a second name; nothing else is touched.
ClassAlias(orig, alias) ==
  /\ orig \in DOMAIN classes /\ alias \notin DOMAIN classes
  /\ classes' = Put(classes, alias, classes[orig])
  /\ aliased' = TRUE
  /\ UNCHANGED <<funcs, methodCache, typedCache, vmCache, generation, anon>>

----------------------------------------------------------------------------
(* Methods and properties. *)

FindMethod(c, m) ==
  /\ <<c, m>> \notin DOMAIN methodCache
  /\ methodCache' = Put(methodCache, <<c, m>>, Resolve(classes, c, m))
  /\ UNCHANGED <<tables, typedCache, vmCache, anon, aliased>>

\* find_method_autoload: after a miss the parents that are not there are
\* loaded, and the method is looked up again.
FindMethodAutoload(c, m) ==
  LET loaded == {d \in Loadable : d.name \in Missing(classes, c)}
  IN /\ c \in DOMAIN classes
     /\ IF <<c, m>> \in DOMAIN methodCache THEN methodCache[<<c, m>>] = {}
        ELSE Resolve(classes, c, m) = {}
     /\ loaded # {} /\ generation + Cardinality(loaded) + 1 <= MaxGeneration
     /\ classes' = Registered(loaded)
     /\ generation' = generation + Cardinality(loaded) + 1
     /\ methodCache' = [k \in {<<c, m>>} |-> Resolve(Registered(loaded), c, m)] /\ aliased' = FALSE
     /\ UNCHANGED <<funcs, typedCache, vmCache, anon>>

\* class_has_typed_props, on a write to a property of an object of class c.
ClassHasTypedProps(c) ==
  /\ c \in DOMAIN classes /\ c \notin DOMAIN typedCache
  /\ typedCache' = Put(typedCache, c, [typed |-> AnyTyped(classes, c),
                                       whole |-> Missing(classes, c) = {}])
  /\ UNCHANGED <<tables, methodCache, vmCache, anon, aliased>>

----------------------------------------------------------------------------
(* Compiled bodies. *)

\* Mutant: a function that is not declared yet counts as taking values.
SafeUnlessByRef(f) == f \notin DOMAIN funcs \/ ~funcs[f][1].byRef

\* The resolver: which functions a chunk may call by value.
Safe(f) == IF f \in DOMAIN funcs THEN ~funcs[f][1].byRef ELSE f \in Builtin

\* vm_chunk_for: compiled once per address.  A body that calls a function it
\* may not call by value, or takes references itself, stays with the walker.
Compiled(i) == ~i[1].byRef /\ (i[1].calls = NoName \/ Safe(i[1].calls))
\* Mutant: the site begins with the name of the function it calls.
NewChunkNamed(i) ==
  [owner |-> i, compiled |-> Compiled(i), memo |-> [generation |-> 0, target |-> i[1].calls]]

NewChunk(i) ==
  [owner |-> i, compiled |-> Compiled(i), memo |-> [generation |-> 0, target |-> Unresolved]]
WithChunk(i) == IF i[2] \in DOMAIN vmCache THEN vmCache ELSE Put(vmCache, i[2], NewChunk(i))

\* call_user: the body runs compiled if it can.
CallUser(f) ==
  /\ f \in DOMAIN funcs /\ vmCache' = WithChunk(funcs[f]) /\ vmCache' # vmCache
  /\ UNCHANGED <<tables, methodCache, typedCache, anon, aliased>>

Remembering(chunk, target) ==
  [owner |-> chunk.owner, compiled |-> chunk.compiled, memo |-> [generation |-> generation, target |-> target]]

\* Op::CallFn of the chunk at a: the memo of the site is good for one
\* generation.
CallFn(a) ==
  LET chunk == vmCache[a]
      callee == chunk.owner[1].calls
      target == IF callee \in DOMAIN funcs THEN funcs[callee] ELSE Unresolved
      known == IF target = Unresolved THEN vmCache ELSE WithChunk(target)
  IN /\ chunk.compiled /\ callee # NoName /\ chunk.memo.generation # generation
     /\ vmCache' = Put(known, a, Remembering(chunk, target))
     /\ UNCHANGED <<tables, methodCache, typedCache, anon, aliased>>

----------------------------------------------------------------------------
(* Anonymous classes in evaluated sources. *)

EvalSource(d) ==
  /\ source = {}
  /\ \E a \in Free : source' = {<<d, a>>}
  /\ UNCHANGED <<tables, methodCache, typedCache, vmCache, anonNames, made, aliased>>

\* Expr::NewAnon: registered at the first evaluation, under its address.
NewAnon(i) ==
  /\ anonNames' = IF i[2] \in DOMAIN anonNames THEN anonNames ELSE Put(anonNames, i[2], i[1])
  /\ made' = <<i[1], anonNames'[i[2]]>>
  /\ UNCHANGED <<tables, methodCache, typedCache, vmCache, source, aliased>>

EndSource ==
  /\ source # {} /\ source' = {}
  /\ UNCHANGED <<tables, methodCache, typedCache, vmCache, anonNames, made, aliased>>

Next ==
  \/ \E s \in Sources : Declare(s.fns, s.classes)
  \/ \E c \in ClassNames, e \in Alias : ClassAlias(c, e)
  \/ \E c \in Known, m \in Methods : FindMethod(c, m) \/ FindMethodAutoload(c, m)
  \/ \E c \in Known : ClassHasTypedProps(c)
  \/ \E f \in Names : CallUser(f)
  \/ \E a \in DOMAIN vmCache : CallFn(a)
  \/ \E d \in AnonDecl : EvalSource(d)
  \/ \E i \in source : NewAnon(i)
  \/ EndSource

Spec == Init /\ [][Next]_vars

----------------------------------------------------------------------------
(* Properties. *)

Instance ==
  {i \in FnDecl \X (Addr \cup {Dangling}) : IF i[1].empty THEN i[2] = Dangling ELSE i[2] \in Addr}
TypeOK ==
  /\ DOMAIN funcs \subseteq Names /\ Range(funcs) \subseteq Instance
  /\ DOMAIN classes \subseteq Known /\ Range(classes) \subseteq ClassDecl
  /\ DOMAIN methodCache \subseteq Known \X Methods
  /\ DOMAIN vmCache \subseteq Addr \cup {Dangling} /\ generation \in 1..MaxGeneration
  /\ \A a \in DOMAIN vmCache : /\ vmCache[a].owner \in Instance /\ vmCache[a].owner[2] = a
                               /\ vmCache[a].memo.target \in Instance \cup {Unresolved}
  /\ source \subseteq AnonDecl \X Addr /\ DOMAIN anonNames \subseteq Addr

\* What find_method remembers, hits and misses, is what it would find now
\* ("class (re)registration clears it"), unless an alias was registered since.
MethodMemoIsCurrent ==
  ~aliased => \A k \in DOMAIN methodCache : methodCache[k] = Resolve(classes, k[1], k[2])

\* A memo of a call site that passes the test of its generation is the
\* function the name stands for now ("call-site memos revalidate").
SitesAreCurrent ==
  \A a \in DOMAIN vmCache :
    LET memo == vmCache[a].memo
        callee == vmCache[a].owner[1].calls
    IN memo.generation = generation =>
         memo.target = IF callee \in DOMAIN funcs THEN funcs[callee] ELSE Unresolved

\* "every entry PINS the owning declaration (Rc) so the address can never be
\* freed and reused for a different body": what is registered at the address
\* of a chunk has the body the chunk was compiled from.  It need not be the same
\* function: empty bodies share the chunk of the first of them that was asked
\* for, and with it what the chunk says of parameters.
ChunksMatchBodies ==
  \A i \in Held \ {Unresolved} : i[2] \in DOMAIN vmCache =>
    LET owner == vmCache[i[2]].owner IN owner = i \/ (owner[1].empty /\ i[1].empty)

\* Compiled code passes values, so no compiled call reaches a function that
\* takes references, in whatever order caller and callee are declared.
ReferencesReachWalker ==
  \A a \in DOMAIN vmCache :
    vmCache[a].compiled /\ vmCache[a].owner[1].calls \in DOMAIN funcs =>
      ~funcs[vmCache[a].owner[1].calls][1].byRef

\* A write to a property skips the checks of its type only if no class of the
\* hierarchy declares one; hierarchies with parents still to be loaded when
\* they are first asked are left out.
ChecksAreNotSkipped ==
  \A c \in DOMAIN typedCache :
    typedCache[c].whole /\ ~typedCache[c].typed => \A d \in Chain(classes, c) : ~d.typed

\* DEVLOG: "distinct anon classes don't collide".
AnonIsItsOwnClass == made = <<>> \/ made[1] = made[2]
============================================================================
