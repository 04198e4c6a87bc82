-------------------------- MODULE CallStackProofs --------------------------
(***************************************************************************)
(* Proofs about CallStack, for any program, depth and nesting.             *)
(***************************************************************************)
EXTENDS CallStack, LeastNumbers, SequenceTheorems

\* What an activation can be, and what a Rust frame can remember.
ActivationType ==
  [depth : 0..MaxDepth, cur_fn : Seq(Fn), frames : Seq(Fn), cur_args : Seq(Fn),
   scopes : Seq(Fn), byref_ret : Nat, ctx : {None, File}, class : {None, Cls},
   called : {None, Cls}, quiet : Nat, prelude_depth : Nat,
   gen : {None} \cup Generators]

FrameType ==
  [kind : FrameKinds, fn : Fn \cup {None}, fin : BOOLEAN,
   flow : {"run", "ret", "throw", "exit", "engine"},
   ctx : {None, File}, class : {None, Cls}, called : {None, Cls},
   gen : {None} \cup Generators, before : ActivationType]

SwapKinds == {"include", "class_init"}

\* How the activation a above a frame fr differs from the one at fr's entry:
\* by what a frame of its kind pushes, counts or swaps, and fr remembers what
\* it swaps.
Fits(fr, a) ==
  LET b == fr.before
      call == fr.kind \in CallKinds
      walker == fr.kind = "call"
  IN /\ call => fr.fn \in Fn
     /\ fr.kind = "fast" => fr.fn \in Compiled
     /\ IF fr.kind = "writeback" THEN fr.flow # "run" ELSE fr.flow \in {"run", "ret"}
     /\ <<fr.ctx, fr.class, fr.called, fr.gen>> = <<b.ctx, b.class, b.called, b.gen>>
     /\ a.depth = b.depth + (IF call THEN 1 ELSE 0)
     /\ a.cur_fn = IF call THEN Append(b.cur_fn, fr.fn) ELSE b.cur_fn
     /\ a.frames = IF call THEN Append(b.frames, fr.fn) ELSE b.frames
     /\ a.cur_args = IF walker THEN Append(b.cur_args, fr.fn) ELSE b.cur_args
     /\ a.scopes = IF walker THEN Append(b.scopes, fr.fn) ELSE b.scopes
     /\ a.byref_ret = b.byref_ret + (IF walker THEN 1 ELSE 0)
     /\ a.ctx = b.ctx \/ fr.kind \in SwapKinds \/ (call /\ fr.fn \notin Closures)
     /\ a.class = b.class \/ fr.kind \in SwapKinds \/ (call /\ fr.fn \in Methods)
     /\ a.called = b.called \/ (call /\ fr.fn \in Methods)
     /\ a.quiet = b.quiet +
          (IF fr.kind \in QuietKinds \/ (walker /\ fr.fn \in Prelude) THEN 1 ELSE 0)
     /\ a.prelude_depth = b.prelude_depth + (IF call /\ fr.fn \in Prelude THEN 1 ELSE 0)
     /\ a.gen = IF walker /\ fr.fn \in Generators THEN fr.fn ELSE b.gen

\* Every frame of the Rust stack s fits what the next one found at its entry,
\* and the last one fits the present activation a.
Chain(s, a) ==
  \A i \in 1..Len(s) : Fits(s[i], IF i = Len(s) THEN a ELSE s[i + 1].before)

\* No call is under way, nothing is suppressed, no generator runs.
AtRest(a) == a.depth = 0 /\ a.quiet = 0 /\ a.gen = None

\* The outermost frame, and only it, is the script's; it began at rest.
Rooted(s) ==
  /\ s \in Seq(FrameType) /\ Len(s) > 0 /\ AtRest(s[1].before)
  /\ \A i \in 1..Len(s) : s[i].kind \in {"top", "stopping"} <=> i = 1
  /\ \A i \in 1..Len(s) : s[i].kind # "block_namespace"

Stacked == Rooted(native) /\ Chain(native, Activation)

\* The programs the theorems are about: no closure call whose arguments do not
\* bind, and no braced namespace.
Restoring == Features \cap {"closure_bind", "block_namespace"} = {}

IInv == TypeOK /\ Stacked

----------------------------------------------------------------------------
(* The Rust stack as a chain. *)

\* A frame pushed at the present activation extends the chain.
LEMMA Pushed ==
  ASSUME NEW s, NEW a, Rooted(s), Chain(s, a),
         NEW fr \in FrameType, NEW b, fr.before = a, Fits(fr, b),
         fr.kind \notin {"top", "stopping", "block_namespace"}
  PROVE  Rooted(Append(s, fr)) /\ Chain(Append(s, fr), b)
<1> DEFINE t == Append(s, fr)
<1>1. t \in Seq(FrameType) /\ Len(t) = Len(s) + 1 /\ t[Len(t)] = fr
      /\ \A i \in 1..Len(s) : t[i] = s[i]
  BY DEF Rooted
<1>2. Rooted(t)
  BY <1>1 DEF Rooted
<1>3. ASSUME NEW i \in 1..Len(t)
      PROVE  Fits(t[i], IF i = Len(t) THEN b ELSE t[i + 1].before)
  <2>1. CASE i = Len(t)
    BY <1>1, <2>1
  <2>2. CASE i = Len(s)
    <3>1. Fits(s[i], a)
      BY <2>2 DEF Chain, Rooted
    <3>2. QED
      BY <1>1, <2>2, <3>1 DEF Rooted
  <2>3. CASE i < Len(s)
    <3>1. i \in 1..Len(s) /\ i + 1 \in 1..Len(s) /\ i # Len(s)
      BY <1>1, <2>3 DEF Rooted
    <3>2. Fits(s[i], s[i + 1].before)
      BY <3>1 DEF Chain
    <3>3. i # Len(t)
      BY <1>1, <2>3 DEF Rooted
    <3>4. QED
      BY <1>1, <3>1, <3>2, <3>3
  <2>4. QED
    BY <1>1, <2>1, <2>2, <2>3 DEF Rooted
<1>4. QED
  BY <1>2, <1>3 DEF Chain

\* The last frame of a chain fits the present activation.
LEMMA TopFits ==
  ASSUME NEW s, NEW a, Rooted(s), Chain(s, a)
  PROVE  Last(s) \in FrameType /\ Fits(Last(s), a)
<1>1. Len(s) \in 1..Len(s)
  BY DEF Rooted
<1>2. QED
  BY <1>1 DEF Rooted, Chain, Last

\* Removing a frame that is not the script's leaves a shorter stack.
LEMMA PoppedShorter ==
  ASSUME NEW s, Rooted(s), Last(s).kind \notin {"top", "stopping"}
  PROVE  /\ Len(s) > 1 /\ Front(s) \in Seq(FrameType) /\ Len(Front(s)) = Len(s) - 1
         /\ \A i \in 1..Len(Front(s)) : Front(s)[i] = s[i]
<1>1. Len(s) > 1
  BY DEF Rooted, Last
<1>2. QED
  BY <1>1 DEF Rooted, Front

\* Without its last frame, a chain ends at that frame's entry.
LEMMA PoppedFits ==
  ASSUME NEW s, NEW a, Rooted(s), Chain(s, a), Last(s).kind \notin {"top", "stopping"}
  PROVE  Rooted(Front(s)) /\ Chain(Front(s), Last(s).before)
<1> DEFINE t == Front(s)
<1>1. Len(s) > 1
  BY PoppedShorter
<1>2. t \in Seq(FrameType) /\ Len(t) = Len(s) - 1 /\ \A i \in 1..Len(t) : t[i] = s[i]
  BY PoppedShorter
<1>3. Rooted(t)
  BY <1>1, <1>2 DEF Rooted
<1>4. ASSUME NEW i \in 1..Len(t)
      PROVE  Fits(t[i], IF i = Len(t) THEN Last(s).before ELSE t[i + 1].before)
  <2>1. i \in 1..Len(s) /\ i # Len(s)
    BY <1>1, <1>2 DEF Rooted
  <2>2. Fits(s[i], s[i + 1].before)
    BY <2>1 DEF Chain
  <2>3. CASE i = Len(t)
    BY <1>2, <2>2, <2>3 DEF Last, Rooted
  <2>4. CASE i # Len(t)
    <3>1. i + 1 \in 1..Len(t)
      BY <1>1, <1>2, <2>4 DEF Rooted
    <3>2. QED
      BY <1>2, <2>2, <2>4, <3>1
  <2>5. QED
    BY <2>3, <2>4
<1>5. QED
  BY <1>3, <1>4 DEF Chain

\* A frame that takes the place of the last one keeps its entry.
LEMMA Replaced ==
  ASSUME NEW s, NEW a, Rooted(s), Chain(s, a), Last(s).kind \notin {"top", "stopping"},
         NEW fr \in FrameType, fr.before = Last(s).before, Fits(fr, a),
         fr.kind \notin {"top", "stopping", "block_namespace"}
  PROVE  Rooted(Append(Front(s), fr)) /\ Chain(Append(Front(s), fr), a)
  BY PoppedFits, Pushed

----------------------------------------------------------------------------
(* Types. *)

\* The part of TypeOK about how control moves.
ControlOK ==
  /\ thrown \in {None, Exc, NullExc} /\ ctl \in {"run", "ret", "err", "over"}
  /\ err \in {None, "throw", "exit", "engine"} /\ (err # None <=> ctl = "err")

\* The part about the re-entrancy guards.
GuardsOK == hooks \in Seq(Methods) /\ loading \in BOOLEAN /\ handling \in BOOLEAN

\* TypeOK, part by part.
LEMMA TypeParts ==
  /\ TypeOK => Activation \in ActivationType /\ ControlOK /\ GuardsOK
  /\ Activation \in ActivationType /\ ControlOK /\ GuardsOK /\ Rooted(native) => TypeOK
<1>1. TypeOK => Activation \in ActivationType /\ ControlOK /\ GuardsOK
  BY DEF TypeOK, Activation, ActivationType, ControlOK, GuardsOK
<1>2. ASSUME Activation \in ActivationType, ControlOK, GuardsOK, Rooted(native)
      PROVE  TypeOK
  <2>1. \A i \in 1..Len(native) : native[i] \in FrameType
    BY <1>2 DEF Rooted
  <2>2. \A fr \in FrameType : fr.kind \in FrameKinds
    BY DEF FrameType
  <2>3. QED
    BY <1>2, <2>1, <2>2 DEF TypeOK, Activation, ActivationType, ControlOK, GuardsOK
<1>3. QED
  BY <1>1, <1>2

\* The same in the next state.
LEMMA NextTypeParts ==
  Activation' \in ActivationType /\ ControlOK' /\ GuardsOK' /\ Rooted(native') => TypeOK'
<1>1. SUFFICES ASSUME Activation' \in ActivationType, ControlOK', GuardsOK', Rooted(native')
               PROVE  TypeOK'
  OBVIOUS
<1>2. \A i \in 1..Len(native') : native'[i] \in FrameType
  BY <1>1 DEF Rooted
<1>3. \A fr \in FrameType : fr.kind \in FrameKinds
  BY DEF FrameType
<1>4. QED
  BY <1>1, <1>2, <1>3 DEF TypeOK, Activation, ActivationType, ControlOK, GuardsOK

\* A frame made now is a frame, and remembers the present activation.
LEMMA FrameMade ==
  ASSUME TypeOK, NEW kind \in FrameKinds, NEW fn \in Fn \cup {None}, NEW fin \in BOOLEAN
  PROVE  LET fr == Frame(kind, fn, fin, "run")
         IN /\ fr \in FrameType /\ fr.kind = kind /\ fr.fn = fn
            /\ fr.before = Activation /\ fr.flow = "run"
            /\ <<fr.ctx, fr.class, fr.called, fr.gen>> = <<ctx, class, called, gen>>
<1>1. Activation \in ActivationType
  BY TypeParts
<1>2. ctx \in {None, File} /\ class \in {None, Cls} /\ called \in {None, Cls}
      /\ gen \in {None} \cup Generators
  BY DEF TypeOK
<1>3. QED
  BY <1>1, <1>2 DEF Frame, FrameType

\* The fields of an activation, for the provers.
LEMMA Fields ==
  /\ Activation.depth = depth /\ Activation.cur_fn = cur_fn
  /\ Activation.frames = frames /\ Activation.cur_args = cur_args
  /\ Activation.scopes = scopes /\ Activation.byref_ret = byref_ret
  /\ Activation.ctx = ctx /\ Activation.class = class /\ Activation.called = called
  /\ Activation.quiet = quiet /\ Activation.prelude_depth = prelude_depth
  /\ Activation.gen = gen
  BY DEF Activation

\* The fields of an activation after a step.
LEMMA NextFields ==
  /\ Activation'.depth = depth' /\ Activation'.cur_fn = cur_fn'
  /\ Activation'.frames = frames' /\ Activation'.cur_args = cur_args'
  /\ Activation'.scopes = scopes' /\ Activation'.byref_ret = byref_ret'
  /\ Activation'.ctx = ctx' /\ Activation'.class = class' /\ Activation'.called = called'
  /\ Activation'.quiet = quiet' /\ Activation'.prelude_depth = prelude_depth'
  /\ Activation'.gen = gen'
  BY DEF Activation

\* A frame of a kind that neither pushes nor swaps fits the activation at its
\* own entry.
LEMMA PlainFits ==
  ASSUME TypeOK, NEW kind \in FrameKinds \ (CallKinds \cup QuietKinds \cup {"writeback"}),
         NEW fn \in Fn \cup {None}, NEW fin \in BOOLEAN
  PROVE  Fits(Frame(kind, fn, fin, "run"), Activation)
<1>1. Activation \in ActivationType
  BY TypeParts
<1>2. QED
  BY <1>1 DEF Frame, Fits, Activation, ActivationType, CallKinds

\* So pushing one extends the chain.
LEMMA PlainPushed ==
  ASSUME IInv,
         NEW kind \in FrameKinds \ (CallKinds \cup QuietKinds
                \cup {"writeback", "top", "stopping", "block_namespace"}),
         NEW fn \in Fn \cup {None}, NEW fin \in BOOLEAN
  PROVE  LET s == Append(native, Frame(kind, fn, fin, "run"))
         IN Rooted(s) /\ Chain(s, Activation)
<1> DEFINE fr == Frame(kind, fn, fin, "run")
<1>1. fr \in FrameType /\ fr.kind = kind /\ fr.before = Activation
  BY FrameMade DEF IInv
<1>2. Fits(fr, Activation)
  BY PlainFits DEF IInv
<1>3. QED
  BY <1>1, <1>2, Pushed DEF IInv, Stacked

----------------------------------------------------------------------------
(* Calls. *)

\* The guarantees of a step that may call: the chain, the types, and no
\* change in what Invoke does not touch.
CallOutcome ==
  /\ Rooted(native') /\ Chain(native', Activation') /\ Activation' \in ActivationType
  /\ ControlOK'

\* A refused call leaves the chain as the caller built it.
LEMMA TooDeepKeeps ==
  ASSUME TypeOK, NEW under, Rooted(under), Chain(under, Activation), TooDeep(under)
  PROVE  CallOutcome
<1>1. Activation' = Activation /\ native' = under
  BY DEF TooDeep, activation, Activation
<1>2. ControlOK'
  BY DistinctValues, TypeParts DEF TooDeep, Fail, ControlOK
<1>3. QED
  BY <1>1, <1>2, TypeParts DEF CallOutcome

\* A failed binding has undone what it pushed, except in a closure call.
LEMMA BindFailsKeeps ==
  ASSUME TypeOK, Restoring, NEW f \in Fn, NEW under, Rooted(under),
         Chain(under, Activation), BindFails(f, under)
  PROVE  CallOutcome
<1>1. "closure_bind" \notin Features
  BY DEF Restoring
<1>2. Activation' = Activation /\ native' = under
  BY <1>1 DEF BindFails, Activation
<1>3. ControlOK'
  BY DistinctValues DEF BindFails, ThrowErrorAt, Fail, ControlOK
<1>4. QED
  BY <1>2, <1>3, TypeParts DEF CallOutcome

\* Entering a function on the walker pushes a frame that fits what it set.
LEMMA EnterWalkerKeeps ==
  ASSUME TypeOK, NEW f \in Fn, NEW under, Rooted(under),
         Chain(under, Activation), EnterWalker(f, under)
  PROVE  CallOutcome
<1> DEFINE fr == Frame("call", f, FALSE, "run")
<1>1. Activation \in ActivationType
  BY TypeParts
<1>2. fr \in FrameType /\ fr.kind = "call" /\ fr.fn = f /\ fr.before = Activation
      /\ fr.flow = "run" /\ <<fr.ctx, fr.class, fr.called, fr.gen>> = <<ctx, class, called, gen>>
  BY FrameMade DEF FrameKinds, CallKinds
<1>3. Activation' \in ActivationType
  <2>1. depth' \in 0..MaxDepth
    BY Bounds DEF EnterWalker, EnterCommon, TypeOK
  <2>2. cur_fn' \in Seq(Fn) /\ frames' \in Seq(Fn) /\ cur_args' \in Seq(Fn) /\ scopes' \in Seq(Fn)
    BY DEF EnterWalker, EnterCommon, TypeOK
  <2>3. byref_ret' \in Nat /\ quiet' \in Nat /\ prelude_depth' \in Nat
    BY DEF EnterWalker, EnterCommon, TypeOK
  <2>4. ctx' \in {None, File} /\ class' \in {None, Cls} /\ called' \in {None, Cls}
        /\ gen' \in {None} \cup Generators
    BY DEF EnterWalker, EnterCommon, TypeOK, DefCtx
  <2>5. QED
    BY <2>1, <2>2, <2>3, <2>4 DEF Activation, ActivationType
<1>4. Fits(fr, Activation')
  <2> HIDE DEF fr
  <2> QED
    BY <1>2, Fields, NextFields
       DEF Fits, CallKinds, QuietKinds, EnterWalker, EnterCommon, DefCtx
<1>5. Rooted(native') /\ Chain(native', Activation')
  BY <1>2, <1>4, Pushed DEF EnterWalker
<1>6. ControlOK'
  BY DistinctValues, TypeParts DEF EnterWalker, EnterCommon, ControlOK
<1>7. QED
  BY <1>3, <1>5, <1>6 DEF CallOutcome

\* So does entering one on the VM.
LEMMA EnterFastKeeps ==
  ASSUME TypeOK, Stacked, NEW f \in Compiled \ Prelude, EnterFast(f)
  PROVE  CallOutcome
<1> DEFINE fr == Frame("fast", f, FALSE, "run")
<1>1. f \in Fn \ Closures
  BY FnKinds
<1>2. fr \in FrameType /\ fr.kind = "fast" /\ fr.fn = f /\ fr.before = Activation
      /\ fr.flow = "run" /\ <<fr.ctx, fr.class, fr.called, fr.gen>> = <<ctx, class, called, gen>>
  BY <1>1, FrameMade DEF FrameKinds, CallKinds
<1>3. Activation' \in ActivationType
  <2>1. depth' \in 0..MaxDepth
    BY Bounds DEF EnterFast, EnterCommon, TypeOK
  <2>2. cur_fn' \in Seq(Fn) /\ frames' \in Seq(Fn) /\ cur_args' \in Seq(Fn) /\ scopes' \in Seq(Fn)
    BY <1>1 DEF EnterFast, EnterCommon, TypeOK
  <2>3. byref_ret' \in Nat /\ quiet' \in Nat /\ prelude_depth' \in Nat
    BY DEF EnterFast, EnterCommon, TypeOK
  <2>4. ctx' \in {None, File} /\ class' \in {None, Cls} /\ called' \in {None, Cls}
        /\ gen' \in {None} \cup Generators
    BY DEF EnterFast, EnterCommon, TypeOK, DefCtx
  <2>5. QED
    BY <2>1, <2>2, <2>3, <2>4 DEF Activation, ActivationType
<1>4. Fits(fr, Activation')
  <2> HIDE DEF fr
  <2> QED
    BY <1>1, <1>2, Fields, NextFields
       DEF Fits, CallKinds, QuietKinds, EnterFast, EnterCommon, TypeOK
<1>5. Rooted(native') /\ Chain(native', Activation')
  BY <1>2, <1>4, Pushed DEF EnterFast, Stacked
<1>6. ControlOK'
  BY DistinctValues, TypeParts DEF EnterFast, EnterCommon, ControlOK
<1>7. QED
  BY <1>3, <1>5, <1>6 DEF CallOutcome

\* Any call, refused, failed or entered.
LEMMA InvokeKeeps ==
  ASSUME TypeOK, Restoring, NEW f \in Fn, NEW under, Rooted(under),
         Chain(under, Activation), Invoke(f, under)
  PROVE  CallOutcome
  BY TooDeepKeeps, BindFailsKeeps, EnterWalkerKeeps DEF Invoke

\* A call never shortens the Rust stack.
LEMMA InvokeGrows ==
  ASSUME NEW f, NEW under, Rooted(under), Invoke(f, under)
  PROVE  Len(native') >= Len(under)
<1>1. native' = under \/ \E fr : native' = Append(under, fr)
  BY DEF Invoke, TooDeep, BindFails, EnterWalker
<1>2. QED
  BY <1>1 DEF Rooted

----------------------------------------------------------------------------
(* Steps.  Each keeps the invariant, and one that ends a frame leaves the  *)
(* activation as it was at the frame's entry.                              *)

RestoresActivation == Len(native') = Len(native) - 1 => Activation' = Top.before
StepOK == IInv' /\ RestoresActivation

\* What IInv says of the last frame.
LEMMA TopIs ==
  ASSUME IInv
  PROVE  /\ Top \in FrameType /\ Fits(Top, Activation)
         /\ Top.before \in ActivationType /\ Activation \in ActivationType
<1>1. Top \in FrameType /\ Fits(Top, Activation)
  BY TopFits DEF IInv, Stacked, Top
<1>2. \A fr \in FrameType : fr.before \in ActivationType
  BY DEF FrameType
<1>3. QED
  BY <1>1, <1>2, TypeParts DEF IInv

\* An activation is its fields.
LEMMA SameFields ==
  ASSUME NEW b \in ActivationType,
         b.depth = depth', b.cur_fn = cur_fn', b.frames = frames',
         b.cur_args = cur_args', b.scopes = scopes', b.byref_ret = byref_ret',
         b.ctx = ctx', b.class = class', b.called = called', b.quiet = quiet',
         b.prelude_depth = prelude_depth', b.gen = gen'
  PROVE  Activation' = b
  BY DEF Activation, ActivationType

\* A step that leaves the activation and the Rust stack alone.
LEMMA Stays ==
  ASSUME IInv, UNCHANGED <<activation, native>>, ControlOK', GuardsOK'
  PROVE  StepOK
<1>1. Activation' = Activation
  BY DEF activation, Activation
<1>2. Stacked' /\ RestoresActivation
  BY <1>1 DEF IInv, Stacked, Rooted, RestoresActivation
<1>3. QED
  BY <1>1, <1>2, TypeParts, NextTypeParts DEF IInv, Stacked, StepOK

\* A step that pushes one frame, or replaces the last one, over an unchanged
\* activation.
LEMMA Rearranged ==
  ASSUME IInv, UNCHANGED activation, ControlOK', GuardsOK',
         Rooted(native'), Chain(native', Activation), Len(native') >= Len(native)
  PROVE  StepOK
<1>1. Activation' = Activation
  BY DEF activation, Activation
<1>2. Stacked'
  BY <1>1 DEF Stacked, Rooted, Chain
<1>3. RestoresActivation
  BY DEF RestoresActivation, IInv, Stacked, Rooted
<1>4. QED
  BY <1>1, <1>2, <1>3, TypeParts, NextTypeParts DEF IInv, Stacked, StepOK

\* A step that pops a frame and puts its activation back.
LEMMA PopsBack ==
  ASSUME IInv, Top.kind \notin {"top", "stopping"}, native' = Popped,
         Activation' = Top.before, ControlOK', GuardsOK'
  PROVE  StepOK
<1>1. Rooted(Popped) /\ Chain(Popped, Top.before)
  BY PoppedFits DEF IInv, Stacked, Top, Popped
<1>2. Stacked' /\ Activation' \in ActivationType
  BY <1>1, TopIs DEF Stacked
<1>3. QED
  BY <1>2, NextTypeParts DEF IInv, Stacked, StepOK, RestoresActivation

\* The activation above a frame that neither pushes nor swaps is the one at
\* its entry.
LEMMA PlainTop ==
  ASSUME IInv, Top.kind \notin CallKinds \cup SwapKinds \cup QuietKinds
  PROVE  Activation = Top.before
<1> DEFINE b == Top.before
<1>1. Fits(Top, Activation) /\ b \in ActivationType /\ Activation \in ActivationType
  BY TopIs
<1>2. /\ b.depth = Activation.depth /\ b.cur_fn = Activation.cur_fn
      /\ b.frames = Activation.frames /\ b.cur_args = Activation.cur_args
      /\ b.scopes = Activation.scopes /\ b.byref_ret = Activation.byref_ret
      /\ b.ctx = Activation.ctx /\ b.class = Activation.class
      /\ b.called = Activation.called /\ b.quiet = Activation.quiet
      /\ b.prelude_depth = Activation.prelude_depth /\ b.gen = Activation.gen
  <2>1. \A a \in ActivationType : a.depth \in Nat /\ a.byref_ret \in Nat
                                  /\ a.quiet \in Nat /\ a.prelude_depth \in Nat
    BY Bounds DEF ActivationType
  <2> DEFINE a == Activation
             fr == Top
  <2>2. a \in ActivationType /\ Fits(fr, a) /\ fr.before \in ActivationType
        /\ fr.kind \notin CallKinds \cup SwapKinds \cup QuietKinds
    BY <1>1
  <2> HIDE DEF a, fr
  <2>3. /\ fr.before.depth = a.depth /\ fr.before.cur_fn = a.cur_fn
        /\ fr.before.frames = a.frames /\ fr.before.cur_args = a.cur_args
        /\ fr.before.scopes = a.scopes /\ fr.before.byref_ret = a.byref_ret
        /\ fr.before.ctx = a.ctx /\ fr.before.class = a.class
        /\ fr.before.called = a.called /\ fr.before.quiet = a.quiet
        /\ fr.before.prelude_depth = a.prelude_depth /\ fr.before.gen = a.gen
    BY <2>1, <2>2 DEF Fits, CallKinds
  <2>4. QED
    BY <2>3 DEF a, fr
<1>3. \A x, y \in ActivationType :
        /\ x.depth = y.depth /\ x.cur_fn = y.cur_fn /\ x.frames = y.frames
        /\ x.cur_args = y.cur_args /\ x.scopes = y.scopes /\ x.byref_ret = y.byref_ret
        /\ x.ctx = y.ctx /\ x.class = y.class /\ x.called = y.called
        /\ x.quiet = y.quiet /\ x.prelude_depth = y.prelude_depth /\ x.gen = y.gen
        => x = y
  BY DEF ActivationType
<1>4. QED
  BY <1>1, <1>2, <1>3

\* A step that pops such a frame and leaves the activation alone.
LEMMA PopsPlain ==
  ASSUME IInv, Top.kind \notin CallKinds \cup SwapKinds \cup QuietKinds \cup {"top", "stopping"},
         native' = Popped, UNCHANGED activation, ControlOK', GuardsOK'
  PROVE  StepOK
<1>1. Activation' = Activation
  BY DEF activation, Activation
<1>2. QED
  BY <1>1, PlainTop, PopsBack

\* Steps that call a function from PHP code, or from a Rust frame under which
\* the callee's frame goes.
LEMMA CallSteps ==
  ASSUME IInv, Restoring, NEW f \in Fn, NEW under, Rooted(under),
         Chain(under, Activation), Len(under) >= Len(native), Invoke(f, under), GuardsOK'
  PROVE  StepOK
<1>1. CallOutcome
  BY InvokeKeeps DEF IInv
<1>2. Len(native') >= Len(under)
  BY InvokeGrows
<1>3. Len(native') \in Nat /\ Len(under) \in Nat /\ Len(native) \in Nat
  BY <1>1 DEF CallOutcome, Rooted, IInv, Stacked
<1>4. RestoresActivation
  BY <1>2, <1>3 DEF RestoresActivation
<1>5. QED
  BY <1>1, <1>4, NextTypeParts DEF CallOutcome, StepOK, IInv, Stacked

\* Calls by PHP code, the next loader or comparison, and shutdown functions.
LEMMA DirectCalls ==
  ASSUME IInv, Restoring, NEW f \in Fn, Call(f) \/ NextCallback(f) \/ Shutdown(f)
  PROVE  StepOK
<1>1. Invoke(f, native) /\ UNCHANGED <<hooks, loading, handling>>
  BY DEF Call, NextCallback, Shutdown
<1>2. Rooted(native) /\ Chain(native, Activation) /\ Len(native) >= Len(native)
  BY DEF IInv, Stacked, Rooted
<1>3. GuardsOK'
  BY <1>1, TypeParts DEF GuardsOK, IInv
<1>4. QED
  BY <1>1, <1>2, <1>3, CallSteps

\* Calls by the VM from one compiled body to another.
LEMMA FastCalls ==
  ASSUME IInv, NEW f \in Fn, FastCall(f)
  PROVE  StepOK
<1>1. f \in Compiled \ Prelude /\ EnterFast(f) /\ UNCHANGED <<hooks, loading, handling>>
  BY DEF FastCall
<1>2. CallOutcome
  BY <1>1, EnterFastKeeps DEF IInv
<1>3. GuardsOK'
  BY <1>1, TypeParts DEF GuardsOK, IInv
<1>4. RestoresActivation
  BY <1>1 DEF EnterFast, RestoresActivation, IInv, Stacked, Rooted
<1>5. QED
  BY <1>2, <1>3, <1>4, NextTypeParts DEF CallOutcome, StepOK, IInv, Stacked

\* Rust functions that call back: error handler, loaders, comparisons, hooks.
LEMMA Callbacks ==
  ASSUME IInv, Restoring, NEW f \in Fn,
         Warn(f) \/ Autoload(f) \/ UserSort(f) \/ PropHook(f)
  PROVE  StepOK
<1>1. PICK kind \in {"handler", "autoload", "usort", "hook"} :
        Invoke(f, Append(native, Frame(kind, f, FALSE, "run")))
  BY DEF Warn, Autoload, UserSort, PropHook
<1> DEFINE under == Append(native, Frame(kind, f, FALSE, "run"))
<1>2. Rooted(under) /\ Chain(under, Activation)
  BY PlainPushed DEF FrameKinds, CallbackKinds, CallKinds, QuietKinds
<1>3. Len(under) >= Len(native)
  BY DEF IInv, Stacked, Rooted
<1>4. GuardsOK'
  <2>1. GuardsOK
    BY TypeParts DEF IInv
  <2>2. hooks' = hooks \/ (f \in Methods /\ hooks' = Append(hooks, f))
    BY DEF Warn, Autoload, UserSort, PropHook
  <2>3. loading' \in {loading, TRUE} /\ handling' \in {handling, TRUE}
    BY DEF Warn, Autoload, UserSort, PropHook
  <2>4. hooks' \in Seq(Methods)
    BY <2>1, <2>2 DEF GuardsOK
  <2>5. loading' \in BOOLEAN /\ handling' \in BOOLEAN
    BY <2>1, <2>3, Zenon DEF GuardsOK
  <2>6. QED
    BY <2>4, <2>5 DEF GuardsOK
<1>5. QED
  BY <1>1, <1>2, <1>3, <1>4, CallSteps

\* Steps of the running code that touch neither activation nor Rust stack.
LEMMA QuietSteps ==
  ASSUME IInv, Raise \/ Return \/ Stop \/ Over
  PROVE  StepOK
<1>1. UNCHANGED <<activation, native>> /\ UNCHANGED <<hooks, loading, handling>>
  BY DEF Raise, Return, Stop, Over, regs, vars
<1>2. ControlOK /\ GuardsOK
  BY TypeParts DEF IInv
<1>3. GuardsOK'
  BY <1>1, <1>2 DEF GuardsOK
<1>4. ControlOK'
  <2>1. CASE Raise
    BY <1>2, <2>1, DistinctValues DEF Raise, Running, Fail, ThrowErrorAt, ControlOK
  <2>2. CASE Return
    BY <1>2, <2>2, DistinctValues DEF Return, Running, ControlOK
  <2>3. CASE Stop
    BY <1>2, <2>3, DistinctValues DEF Stop, ControlOK
  <2>4. CASE Over
    BY <1>2, <2>4 DEF Over, vars, ControlOK
  <2>5. QED
    BY <2>1, <2>2, <2>3, <2>4
<1>5. QED
  BY <1>1, <1>3, <1>4, Stays

\* A try statement begins, ends its body, or turns to a catch or finally block.
LEMMA TrySteps ==
  ASSUME IInv, (\E fin \in BOOLEAN : EnterTry(fin)) \/ EndTry \/ CatchMatches
               \/ LeaveTry \/ EndFinally
  PROVE  StepOK
<1>1. UNCHANGED activation /\ UNCHANGED <<hooks, loading, handling>>
  BY DEF EnterTry, EndTry, CatchMatches, LeaveTry, EndFinally, regs
<1>2. ControlOK /\ GuardsOK
  BY TypeParts DEF IInv
<1>3. GuardsOK'
  BY <1>1, <1>2 DEF GuardsOK
<1>4. Top \in FrameType /\ Fits(Top, Activation)
  BY TopIs
<1>5. ASSUME NEW kind \in {"catch", "finally"}, NEW flow \in {"run", "ret"},
             Top.kind \in {"try", "catch"}, ControlOK',
             native' = Append(Popped, [Top EXCEPT !.kind = kind, !.flow = flow])
      PROVE  StepOK
  <2> DEFINE fr == [Top EXCEPT !.kind = kind, !.flow = flow]
  <2>1. fr \in FrameType /\ fr.before = Top.before /\ fr.kind = kind /\ fr.flow = flow
    BY <1>4, <1>5 DEF FrameType, FrameKinds
  <2>2. /\ fr.fn = Top.fn /\ fr.ctx = Top.ctx /\ fr.class = Top.class
        /\ fr.called = Top.called /\ fr.gen = Top.gen
    BY <1>4 DEF FrameType
  <2> HIDE DEF fr
  <2>3. Fits(fr, Activation)
    BY <1>4, <1>5, <2>1, <2>2 DEF Fits, CallKinds, SwapKinds, QuietKinds
  <2>4. Rooted(native') /\ Chain(native', Activation)
    BY <1>5, <2>1, <2>3, Replaced DEF IInv, Stacked, Top, Popped, fr
  <2>5. Len(native') >= Len(native)
    <3>1. native \in Seq(FrameType)
      BY DEF IInv, Stacked, Rooted
    <3>2. Popped \in Seq(FrameType) /\ Len(Popped) = Len(native) - 1
      BY <1>5, PoppedShorter DEF IInv, Stacked, Popped, Top
    <3>3. QED
      BY <1>5, <3>1, <3>2
  <2>6. QED
    BY <1>1, <1>3, <1>5, <2>4, <2>5, Rearranged
<1>6. CASE \E fin \in BOOLEAN : EnterTry(fin)
  <2>1. PICK fin \in BOOLEAN : EnterTry(fin)
    BY <1>6
  <2>2. None \in Fn \cup {None} /\ "try" \in FrameKinds
        /\ "try" \notin CallKinds \cup QuietKinds
                        \cup {"writeback", "top", "stopping", "block_namespace"}
    BY DEF FrameKinds, CallKinds, QuietKinds
  <2>3. Rooted(native') /\ Chain(native', Activation) /\ Len(native') >= Len(native)
    <3>1. native \in Seq(FrameType)
      BY DEF IInv, Stacked, Rooted
    <3>2. native' = Append(native, Frame("try", None, fin, "run"))
      BY <2>1 DEF EnterTry
    <3>3. Len(native') >= Len(native)
      BY <3>1, <3>2
    <3>4. Rooted(native') /\ Chain(native', Activation)
      BY <2>2, <3>2, PlainPushed
    <3>5. QED
      BY <3>3, <3>4
  <2>4. ControlOK'
    BY <1>2, <2>1 DEF EnterTry, ControlOK
  <2>5. QED
    BY <1>1, <1>3, <2>3, <2>4, Rearranged
<1>7. CASE EndTry
  <2>1. ControlOK'
    BY <1>2, <1>7, DistinctValues DEF EndTry, ControlOK
  <2>2. CASE Top.fin
    BY <1>5, <1>7, <2>1, <2>2 DEF EndTry
  <2>3. CASE ~Top.fin
    BY <1>1, <1>3, <1>7, <2>1, <2>3, PopsPlain DEF EndTry, CallKinds, SwapKinds, QuietKinds
  <2>4. QED
    BY <2>2, <2>3
<1>8. CASE CatchMatches
  <2>1. ControlOK'
    BY <1>2, <1>8 DEF CatchMatches, ControlOK
  <2>2. [Top EXCEPT !.kind = "catch"] = [Top EXCEPT !.kind = "catch", !.flow = Top.flow]
    BY <1>4 DEF FrameType
  <2>3. Top.flow \in {"run", "ret"}
    BY <1>4, <1>8 DEF Fits, CatchMatches
  <2>4. QED
    BY <1>5, <1>8, <2>1, <2>2, <2>3 DEF CatchMatches
<1>9. CASE LeaveTry
  <2>1. ControlOK'
    BY <1>2, <1>9 DEF LeaveTry, ControlOK
  <2>2. QED
    BY <1>1, <1>3, <1>9, <2>1, PopsPlain DEF LeaveTry, CallKinds, SwapKinds, QuietKinds
<1>10. CASE EndFinally
  <2>1. Top.flow \in {"run", "ret"}
    BY <1>4, <1>10 DEF Fits, EndFinally
  <2>2. ControlOK'
    BY <1>2, <1>10, <2>1, DistinctValues DEF EndFinally, ControlOK
  <2>3. QED
    BY <1>1, <1>3, <1>10, <2>2, PopsPlain DEF EndFinally, CallKinds, SwapKinds, QuietKinds
<1>11. QED
  BY <1>6, <1>7, <1>8, <1>9, <1>10

\* A callback is over: its guard is cleared and control goes on.
LEMMA CallbackEnds ==
  ASSUME IInv, EndHandler \/ EndAutoload \/ EndSort \/ EndHook
  PROVE  StepOK
<1>1. UNCHANGED activation /\ native' = Popped
      /\ Top.kind \notin CallKinds \cup SwapKinds \cup QuietKinds \cup {"top", "stopping"}
  BY DEF EndHandler, EndAutoload, EndSort, EndHook, regs, CallKinds, SwapKinds, QuietKinds
<1>2. ControlOK /\ GuardsOK
  BY TypeParts DEF IInv
<1>3. ControlOK'
  BY <1>2, DistinctValues
     DEF EndHandler, EndAutoload, EndSort, EndHook, ThrowErrorAt, Fail, ControlOK
<1>4. GuardsOK'
  <2>1. hooks' = hooks \/ hooks' = Front(hooks)
    BY DEF EndHandler, EndAutoload, EndSort, EndHook, regs
  <2>2. hooks' \in Seq(Methods)
    BY <1>2, <2>1 DEF GuardsOK, Front
  <2>3. loading' \in {loading, FALSE} /\ handling' \in {handling, FALSE}
    BY DEF EndHandler, EndAutoload, EndSort, EndHook, regs
  <2>4. loading' \in BOOLEAN /\ handling' \in BOOLEAN
    BY <1>2, <2>3, Zenon DEF GuardsOK
  <2>5. QED
    BY <2>2, <2>4 DEF GuardsOK
<1>5. QED
  BY <1>1, <1>3, <1>4, PopsPlain

\* Suppression, tolerant evaluation, inclusion and class initialisers begin.
LEMMA SwapsBegin ==
  ASSUME IInv, Restoring,
         \/ Quiet \/ Include \/ ClassInit \/ BlockNamespace
         \/ \E kind \in {"suppress", "tolerant"} : Tolerate(kind)
  PROVE  StepOK
<1> DEFINE Kinds == {"quiet", "suppress", "tolerant", "include", "class_init"}
<1>1. PICK kind \in Kinds :
        /\ native' = Append(native, Frame(kind, None, FALSE, "run"))
        /\ quiet' = quiet + (IF kind \in QuietKinds THEN 1 ELSE 0)
        /\ kind \notin SwapKinds => UNCHANGED <<ctx, class>>
  <2>1. ~BlockNamespace
    BY DEF BlockNamespace, Swap, Restoring
  <2>2. quiet \in Nat
    BY DEF IInv, TypeOK
  <2>3. CASE Quiet
    <3> WITNESS "quiet" \in Kinds
    <3> QED
      BY <2>3 DEF Quiet, QuietKinds
  <2>4. CASE Include
    <3> WITNESS "include" \in Kinds
    <3> QED
      BY <2>2, <2>4 DEF Include, Swap, QuietKinds, SwapKinds
  <2>5. CASE ClassInit
    <3> WITNESS "class_init" \in Kinds
    <3> QED
      BY <2>2, <2>5 DEF ClassInit, Swap, QuietKinds, SwapKinds
  <2>6. CASE Tolerate("suppress")
    <3> WITNESS "suppress" \in Kinds
    <3> QED
      BY <2>6 DEF Tolerate, QuietKinds
  <2>7. CASE Tolerate("tolerant")
    <3> WITNESS "tolerant" \in Kinds
    <3> QED
      BY <2>7 DEF Tolerate, QuietKinds
  <2>8. QED
    BY <2>1, <2>3, <2>4, <2>5, <2>6, <2>7
<1>2. UNCHANGED <<depth, cur_fn, frames, cur_args, scopes, byref_ret, called,
                  prelude_depth, gen, hooks, loading, handling, thrown, ctl, err>>
  BY DEF Quiet, Include, ClassInit, BlockNamespace, Swap, Tolerate
<1>3. ctx' \in {ctx, File} /\ class' \in {class, Cls}
  BY DEF Quiet, Include, ClassInit, BlockNamespace, Swap, Tolerate
<1> DEFINE fr == Frame(kind, None, FALSE, "run")
<1>4. fr \in FrameType /\ fr.kind = kind /\ fr.before = Activation /\ fr.flow = "run"
      /\ <<fr.ctx, fr.class, fr.called, fr.gen>> = <<ctx, class, called, gen>>
  <2>1. kind \in FrameKinds /\ None \in Fn \cup {None}
    BY DEF FrameKinds, ExprKinds, QuietKinds
  <2>2. QED
    BY <2>1, FrameMade DEF IInv
<1>5. Activation' \in ActivationType
  BY <1>1, <1>2, <1>3 DEF IInv, TypeOK, Activation, ActivationType
<1>6. Fits(fr, Activation')
  <2>1. /\ depth' = depth + 0 /\ byref_ret' = byref_ret + 0 /\ prelude_depth' = prelude_depth + 0
    BY <1>2, Bounds DEF IInv, TypeOK
  <2> HIDE DEF fr
  <2>2. QED
    BY <1>1, <1>2, <1>4, <2>1, Fields, NextFields DEF Fits, CallKinds, SwapKinds, QuietKinds
<1>7. Rooted(native') /\ Chain(native', Activation')
  BY <1>1, <1>4, <1>6, Pushed DEF IInv, Stacked, QuietKinds
<1>8. ControlOK' /\ GuardsOK'
  BY <1>2, TypeParts DEF IInv, ControlOK, GuardsOK
<1>9. RestoresActivation
  BY <1>1 DEF RestoresActivation, IInv, Stacked, Rooted
<1>10. QED
  BY <1>5, <1>7, <1>8, <1>9, NextTypeParts DEF StepOK, IInv, Stacked

\* Suppression ends: the level is as it was.
LEMMA QuietEnds ==
  ASSUME IInv, EndQuiet \/ (EndTolerate /\ Top.kind = "suppress")
  PROVE  StepOK
<1> DEFINE fr == Top
<1>1. fr \in FrameType /\ Fits(fr, Activation) /\ fr.before \in ActivationType
      /\ fr.kind \in QuietKinds
  BY TopIs DEF EndQuiet, QuietKinds
<1>2. \A a \in ActivationType : a.depth \in Nat /\ a.byref_ret \in Nat
                                /\ a.quiet \in Nat /\ a.prelude_depth \in Nat
  BY Bounds DEF ActivationType
<1>3. /\ fr.before.depth = depth' /\ fr.before.cur_fn = cur_fn'
      /\ fr.before.frames = frames' /\ fr.before.cur_args = cur_args'
      /\ fr.before.scopes = scopes' /\ fr.before.byref_ret = byref_ret'
      /\ fr.before.ctx = ctx' /\ fr.before.class = class' /\ fr.before.called = called'
      /\ fr.before.quiet = quiet' /\ fr.before.prelude_depth = prelude_depth'
      /\ fr.before.gen = gen'
  <2> HIDE DEF fr
  <2> QED
    BY <1>1, <1>2, Fields DEF Fits, CallKinds, SwapKinds, QuietKinds, EndQuiet, EndTolerate
<1>4. Activation' = Top.before
  BY <1>1, <1>3, SameFields
<1>5. ControlOK' /\ GuardsOK'
  BY TypeParts, DistinctValues DEF IInv, ControlOK, GuardsOK, EndQuiet, EndTolerate
<1>6. QED
  BY <1>1, <1>4, <1>5, PopsBack DEF EndQuiet, EndTolerate, QuietKinds

\* A tolerant evaluation, and the write-back of by-reference arguments, end
\* over the activation they began with.
LEMMA PlainEnds ==
  ASSUME IInv, EndWriteBack \/ (EndTolerate /\ Top.kind = "tolerant")
  PROVE  StepOK
<1>1. /\ native' = Popped
      /\ Top.kind \notin CallKinds \cup SwapKinds \cup QuietKinds \cup {"top", "stopping"}
  BY DEF EndWriteBack, EndTolerate, CallKinds, SwapKinds, QuietKinds
<1>2. UNCHANGED activation
  <2>1. CASE EndWriteBack
    BY <2>1 DEF EndWriteBack, regs
  <2>2. CASE EndTolerate /\ Top.kind = "tolerant"
    <3>1. quiet' = quiet
      BY <2>2 DEF EndTolerate, IInv, TypeOK
    <3>2. QED
      BY <2>2, <3>1 DEF EndTolerate, activation
  <2>3. QED
    BY <2>1, <2>2
<1>3. GuardsOK'
  BY TypeParts DEF EndWriteBack, EndTolerate, regs, IInv, GuardsOK
<1>4. ControlOK /\ (Top.kind = "writeback" => Top.flow \in {"ret", "throw", "exit", "engine"})
  <2>1. Top \in FrameType /\ Fits(Top, Activation)
    BY TopIs
  <2>2. QED
    BY <2>1, TypeParts DEF IInv, Fits, FrameType
<1>5. ControlOK'
  <2>1. CASE EndWriteBack
    BY <1>4, <2>1, DistinctValues DEF EndWriteBack, ThrowErrorAt, Fail, ControlOK
  <2>2. CASE EndTolerate
    BY <1>4, <2>2 DEF EndTolerate, ControlOK
  <2>3. QED
    BY <2>1, <2>2
<1>6. QED
  BY <1>1, <1>2, <1>3, <1>5, PopsPlain

\* An included file or an initialiser ends: what it swapped is put back.
LEMMA SwapEnds ==
  ASSUME IInv, EndSwap
  PROVE  StepOK
<1> DEFINE fr == Top
<1>1. fr \in FrameType /\ Fits(fr, Activation) /\ fr.before \in ActivationType
      /\ fr.kind \in SwapKinds
  BY TopIs DEF EndSwap, SwapKinds
<1>2. \A a \in ActivationType : a.depth \in Nat /\ a.byref_ret \in Nat
                                /\ a.quiet \in Nat /\ a.prelude_depth \in Nat
  BY Bounds DEF ActivationType
<1>3. ctx' = fr.ctx /\ class' = fr.class
  BY DEF EndSwap
<1>4. /\ fr.before.depth = depth' /\ fr.before.cur_fn = cur_fn'
      /\ fr.before.frames = frames' /\ fr.before.cur_args = cur_args'
      /\ fr.before.scopes = scopes' /\ fr.before.byref_ret = byref_ret'
      /\ fr.before.ctx = ctx' /\ fr.before.class = class' /\ fr.before.called = called'
      /\ fr.before.quiet = quiet' /\ fr.before.prelude_depth = prelude_depth'
      /\ fr.before.gen = gen'
  <2> HIDE DEF fr
  <2> QED
    BY <1>1, <1>2, <1>3, Fields DEF Fits, CallKinds, SwapKinds, QuietKinds, EndSwap
<1>5. Activation' = Top.before
  BY <1>1, <1>4, SameFields
<1>6. ControlOK' /\ GuardsOK'
  BY TypeParts, DistinctValues DEF IInv, ControlOK, GuardsOK, EndSwap
<1>7. QED
  BY <1>5, <1>6, PopsBack DEF EndSwap

\* A call ends, by return or by any error: everything it pushed is popped,
\* and what it swapped is put back.
LEMMA CallEnds ==
  ASSUME IInv, LeaveCall
  PROVE  StepOK
<1> DEFINE fr == Top
           b == fr.before
<1>1. fr \in FrameType /\ Fits(fr, Activation) /\ b \in ActivationType
      /\ fr.kind \in CallKinds
  BY TopIs DEF LeaveCall
<1>2. \A a \in ActivationType :
        /\ a.depth \in Nat /\ a.byref_ret \in Nat
        /\ a.quiet \in Nat /\ a.prelude_depth \in Nat
        /\ a.cur_fn \in Seq(Fn) /\ a.frames \in Seq(Fn)
        /\ a.cur_args \in Seq(Fn) /\ a.scopes \in Seq(Fn)
  BY Bounds DEF ActivationType
<1>3. \A s \in Seq(Fn), f \in Fn : Front(Append(s, f)) = s
  BY DEF Front
<1>4. b.depth = depth' /\ b.byref_ret = byref_ret' /\ b.quiet = quiet'
      /\ b.prelude_depth = prelude_depth'
  <2>1. /\ b.depth \in Nat /\ depth = b.depth + 1 /\ b.byref_ret \in Nat /\ b.quiet \in Nat
        /\ b.prelude_depth \in Nat
        /\ byref_ret = b.byref_ret + (IF fr.kind = "call" THEN 1 ELSE 0)
        /\ quiet = b.quiet + (IF fr.kind = "call" /\ fr.fn \in Prelude THEN 1 ELSE 0)
        /\ prelude_depth = b.prelude_depth + (IF fr.fn \in Prelude THEN 1 ELSE 0)
    BY <1>1, <1>2, Fields DEF Fits, CallKinds, QuietKinds
  <2>2. /\ depth' = depth - 1
        /\ byref_ret' = IF fr.kind = "call" THEN byref_ret - 1 ELSE byref_ret
        /\ quiet' = quiet - (IF fr.kind = "call" /\ fr.fn \in Prelude THEN 1 ELSE 0)
        /\ prelude_depth' = prelude_depth - (IF fr.fn \in Prelude THEN 1 ELSE 0)
    BY DEF LeaveCall
  <2> HIDE DEF fr, b
  <2>3. QED
    BY <2>1, <2>2
<1>5. b.cur_fn = cur_fn' /\ b.frames = frames' /\ b.cur_args = cur_args' /\ b.scopes = scopes'
  BY <1>1, <1>2, <1>3, Fields DEF Fits, CallKinds, LeaveCall
<1>6. b.ctx = ctx' /\ b.class = class' /\ b.called = called' /\ b.gen = gen'
  BY <1>1, Fields DEF Fits, CallKinds, SwapKinds, LeaveCall
<1>7. Activation' = Top.before
  BY <1>1, <1>4, <1>5, <1>6, SameFields
<1>8. ControlOK' /\ GuardsOK'
  BY TypeParts, DistinctValues
     DEF IInv, ControlOK, GuardsOK, LeaveCall, CallResult, WriteBack, ThrowErrorAt, Fail
<1>9. CASE native' = Popped
  BY <1>1, <1>7, <1>8, <1>9, PopsBack DEF CallKinds
<1>10. CASE WriteBack
  <2> DEFINE flow == IF ctl = "ret" THEN "ret" ELSE err
             wb == [Top EXCEPT !.kind = "writeback", !.flow = flow]
  <2>1. flow \in {"ret", "throw", "exit", "engine"}
    BY TypeParts DEF IInv, ControlOK, LeaveCall
  <2>2. wb \in FrameType /\ wb.kind = "writeback" /\ wb.flow = flow
    BY <1>1, <2>1 DEF FrameType, FrameKinds, ExprKinds
  <2>3. /\ wb.before = b /\ wb.fn = fr.fn /\ wb.ctx = fr.ctx /\ wb.class = fr.class
        /\ wb.called = fr.called /\ wb.gen = fr.gen
    BY <1>1 DEF FrameType
  <2>4. native' = Append(Popped, wb)
    BY <1>10 DEF WriteBack
  <2>5. Rooted(Popped) /\ Chain(Popped, b)
    BY <1>1, PoppedFits DEF IInv, Stacked, Popped, Top, CallKinds
  <2>6. <<fr.ctx, fr.class, fr.called, fr.gen>> = <<b.ctx, b.class, b.called, b.gen>>
    BY <1>1 DEF Fits
  <2>7. b.depth \in Nat /\ b.byref_ret \in Nat /\ b.quiet \in Nat /\ b.prelude_depth \in Nat
    BY <1>1, <1>2
  <2>8. Len(native') >= Len(native)
    <3>1. native \in Seq(FrameType)
      BY DEF IInv, Stacked, Rooted
    <3>2. Popped \in Seq(FrameType) /\ Len(Popped) = Len(native) - 1
      BY <1>1, PoppedShorter DEF IInv, Stacked, Popped, Top, CallKinds
    <3> HIDE DEF wb
    <3>3. QED
      BY <2>4, <3>1, <3>2
  <2>9. Len(native) \in Nat /\ Len(native') # Len(native) - 1
    BY <2>8 DEF IInv, Stacked, Rooted
  <2> HIDE DEF wb, flow, fr, b
  <2>10. Fits(wb, b)
    BY <2>1, <2>2, <2>3, <2>6, <2>7 DEF Fits, CallKinds, QuietKinds, SwapKinds
  <2>11. Rooted(native') /\ Chain(native', b)
    BY <2>2, <2>3, <2>4, <2>5, <2>10, Pushed
  <2>12. Activation' = b /\ b \in ActivationType
    BY <1>1, <1>7 DEF b, fr
  <2>13. Stacked'
    BY <2>11, <2>12 DEF Stacked
  <2>14. QED
    BY <1>8, <2>9, <2>11, <2>12, <2>13, NextTypeParts DEF StepOK, IInv, RestoresActivation
<1>11. QED
  BY <1>9, <1>10 DEF LeaveCall, CallResult

\* The script ends, and the shutdown functions may run.
LEMMA ScriptEnds ==
  ASSUME IInv, EndScript
  PROVE  StepOK
<1>1. UNCHANGED activation /\ UNCHANGED <<hooks, loading, handling>> /\ Top.kind = "top"
  BY DEF EndScript, regs
<1>2. ControlOK' /\ GuardsOK'
  BY <1>1, TypeParts, DistinctValues DEF IInv, ControlOK, GuardsOK, EndScript
<1>3. CASE native' = native
  BY <1>1, <1>2, <1>3, Stays
<1>4. CASE native' = <<[Top EXCEPT !.kind = "stopping"]>>
  <2> DEFINE fr == [Top EXCEPT !.kind = "stopping"]
  <2>1. Top \in FrameType /\ Fits(Top, Activation)
    BY TopIs
  <2>2. Len(native) = 1
    <3>1. Len(native) \in 1..Len(native) /\ Top = native[Len(native)]
      BY DEF IInv, Stacked, Rooted, Top, Last
    <3>2. Top.kind \in {"top", "stopping"} <=> Len(native) = 1
      BY <3>1 DEF IInv, Stacked, Rooted
    <3>3. QED
      BY <1>1, <3>2
  <2>3. fr \in FrameType /\ fr.kind = "stopping"
    BY <2>1 DEF FrameType, FrameKinds, CallbackKinds
  <2>4. /\ fr.fn = Top.fn /\ fr.ctx = Top.ctx /\ fr.class = Top.class
        /\ fr.called = Top.called /\ fr.gen = Top.gen /\ fr.before = Top.before
        /\ fr.flow = Top.flow
    BY <2>1 DEF FrameType
  <2> HIDE DEF fr
  <2>5. Fits(fr, Activation)
    BY <1>1, <2>1, <2>3, <2>4 DEF Fits, CallKinds, SwapKinds, QuietKinds
  <2>6. native' \in Seq(FrameType) /\ Len(native') = 1 /\ native'[1] = fr
    BY <1>4, <2>3 DEF fr
  <2>7. Rooted(native') /\ Chain(native', Activation)
    <3>1. AtRest(Top.before)
      BY <2>2 DEF IInv, Stacked, Rooted, Top, Last
    <3>2. QED
      BY <2>3, <2>4, <2>5, <2>6, <3>1 DEF Rooted, Chain
  <2>8. QED
    BY <1>1, <1>2, <2>2, <2>6, <2>7, Rearranged
<1>5. QED
  BY <1>3, <1>4 DEF EndScript

----------------------------------------------------------------------------
(* Theorems. *)

\* The script starts with one frame, which fits.
LEMMA InitIInv == Init => IInv
<1>1. SUFFICES ASSUME Init PROVE IInv
  OBVIOUS
<1> DEFINE fr == Frame("top", None, FALSE, "run")
<1>2. Activation \in ActivationType /\ ControlOK /\ GuardsOK
  <2>1. Activation \in ActivationType
    BY <1>1, Bounds DEF Init, Activation, ActivationType
  <2>2. ControlOK
    BY <1>1, DistinctValues DEF Init, ControlOK
  <2>3. loading \in BOOLEAN /\ handling \in BOOLEAN
    BY <1>1, Zenon DEF Init
  <2>4. hooks \in Seq(Methods)
    BY <1>1 DEF Init
  <2>5. QED
    BY <2>1, <2>2, <2>3, <2>4 DEF GuardsOK
<1>3. fr \in FrameType /\ fr.kind = "top" /\ AtRest(fr.before)
  <2>1. fr \in FrameType /\ fr.kind = "top" /\ fr.before = Activation
    BY <1>1, <1>2 DEF Init, Frame, FrameType, FrameKinds
  <2>2. AtRest(Activation)
    BY <1>1 DEF Init, AtRest, Activation
  <2>3. QED
    BY <2>1, <2>2
<1>4. native = <<fr>>
  BY <1>1 DEF Init
<1>5. Rooted(native)
  <2> HIDE DEF fr
  <2>1. native \in Seq(FrameType) /\ Len(native) = 1 /\ native[1] = fr
    BY <1>3, <1>4
  <2>2. QED
    BY <1>3, <2>1 DEF Rooted
<1>6. TypeOK
  BY <1>2, <1>5, TypeParts
<1>7. Fits(fr, Activation)
  BY <1>6, PlainFits DEF FrameKinds, CallKinds, QuietKinds
<1>8. Chain(native, Activation)
  <2> HIDE DEF fr
  <2> QED
    BY <1>4, <1>7 DEF Chain
<1>9. QED
  BY <1>5, <1>6, <1>8 DEF IInv, Stacked

\* Every step keeps the chain, and restores what a frame that ends had changed.
LEMMA StepIInv ==
  ASSUME Restoring, IInv, [Next]_vars
  PROVE  StepOK
<1>1. CASE UNCHANGED vars
  <2>1. UNCHANGED <<activation, native>> /\ UNCHANGED <<hooks, loading, handling>>
        /\ UNCHANGED <<thrown, ctl, err>>
    BY <1>1 DEF vars, regs
  <2>2. ControlOK' /\ GuardsOK'
    BY <2>1, TypeParts DEF IInv, ControlOK, GuardsOK
  <2>3. QED
    BY <2>1, <2>2, Stays
<1>2. CASE Next
  <2>1. ASSUME NEW f \in Fn, Call(f) \/ NextCallback(f) \/ Shutdown(f) PROVE StepOK
    BY <2>1, DirectCalls
  <2>2. ASSUME NEW f \in Fn, FastCall(f) PROVE StepOK
    BY <2>2, FastCalls
  <2>3. ASSUME NEW f \in Fn, Warn(f) \/ Autoload(f) \/ UserSort(f) \/ PropHook(f)
        PROVE  StepOK
    BY <2>3, Callbacks
  <2>4. CASE Raise \/ Return \/ Stop \/ Over
    BY <2>4, QuietSteps
  <2>5. CASE (\E fin \in BOOLEAN : EnterTry(fin)) \/ EndTry \/ CatchMatches
             \/ LeaveTry \/ EndFinally
    BY <2>5, TrySteps
  <2>6. CASE EndHandler \/ EndAutoload \/ EndSort \/ EndHook
    BY <2>6, CallbackEnds
  <2>7. CASE \/ Quiet \/ Include \/ ClassInit \/ BlockNamespace
             \/ \E kind \in {"suppress", "tolerant"} : Tolerate(kind)
    BY <2>7, SwapsBegin
  <2>8. CASE EndQuiet \/ EndTolerate \/ EndWriteBack
    BY <2>8, QuietEnds, PlainEnds DEF EndTolerate
  <2>9. CASE EndSwap
    BY <2>9, SwapEnds
  <2>10. CASE LeaveCall
    BY <2>10, CallEnds
  <2>11. CASE EndScript
    BY <2>11, ScriptEnds
  <2>12. CASE EndBlockNamespace
    BY <2>12 DEF EndBlockNamespace, IInv, Stacked, Rooted, Top, Last
  <2>13. QED
    BY <1>2, <2>1, <2>2, <2>3, <2>4, <2>5, <2>6, <2>7, <2>8, <2>9, <2>10,
       <2>11, <2>12 DEF Next
<1>3. QED
  BY <1>1, <1>2

\* Every run of such a program keeps the invariant.
LEMMA FramesFit == Restoring => (Spec => []IInv)
<1>1. SUFFICES ASSUME Restoring PROVE Spec => []IInv
  OBVIOUS
<1>2. IInv /\ [Next]_vars => IInv'
  BY <1>1, StepIInv DEF StepOK
<1>3. QED
  BY <1>2, InitIInv, PTL DEF Spec

\* In every program without braced namespaces and closure calls that fail to
\* bind, whatever its functions and however deep its calls, callbacks and
\* errors nest: a Rust frame that ends, by return or by any error, leaves the
\* activation as it found it.
THEOREM FramesRestore == Restoring => (Spec => LeavesNoTrace)
<1>1. SUFFICES ASSUME Restoring PROVE Spec => LeavesNoTrace
  OBVIOUS
<1>2. Spec => []IInv
  BY <1>1, FramesFit
<1>3. IInv /\ [Next]_vars => [RestoresActivation]_vars
  BY <1>1, StepIInv DEF StepOK
<1>4. [RestoresActivation]_vars => [Len(native') = Len(native) - 1 => Activation' = Top.before]_vars
  BY DEF RestoresActivation
<1>5. QED
  BY <1>2, <1>3, <1>4, PTL DEF Spec, LeavesNoTrace

\* In those programs the state stays well-formed: call_depth is within
\* MAX_CALL_DEPTH, and no stack is popped that was not pushed.
THEOREM CallTypes == Restoring => (Spec => []TypeOK)
<1>1. IInv => TypeOK
  BY DEF IInv
<1>2. QED
  BY <1>1, FramesFit, PTL

----------------------------------------------------------------------------
(* The running body's own frame. *)

\* The activation the frames above the i-th one of s have been entered from.
At(s, a, i) == IF i = Len(s) THEN a ELSE s[i + 1].before

\* The tops of the stacks of activation a are the call frame fr's.
Owns(a, fr) ==
  /\ Last(a.cur_fn) = fr.fn /\ Last(a.frames) = fr.fn
  /\ fr.kind = "call" => Last(a.cur_args) = fr.fn /\ Last(a.scopes) = fr.fn

\* A call frame's own entries are on top right above it.
LEMMA OwnsAtEntry ==
  ASSUME NEW fr \in FrameType, fr.kind \in CallKinds, NEW a, Fits(fr, a)
  PROVE  Owns(a, fr)
<1>1. fr.before \in ActivationType /\ fr.fn \in Fn
  BY DEF FrameType, Fits
<1>2. /\ fr.before.cur_fn \in Seq(Fn) /\ fr.before.frames \in Seq(Fn)
      /\ fr.before.cur_args \in Seq(Fn) /\ fr.before.scopes \in Seq(Fn)
  BY <1>1 DEF ActivationType
<1>3. \A t \in Seq(Fn) : Last(Append(t, fr.fn)) = fr.fn
  BY <1>1 DEF Last
<1>4. a.cur_fn = Append(fr.before.cur_fn, fr.fn) /\ a.frames = Append(fr.before.frames, fr.fn)
  BY DEF Fits
<1>5. fr.kind = "call" => /\ a.cur_args = Append(fr.before.cur_args, fr.fn)
                          /\ a.scopes = Append(fr.before.scopes, fr.fn)
  BY DEF Fits
<1>6. QED
  BY <1>2, <1>3, <1>4, <1>5 DEF Owns

\* A frame of another kind leaves them there.
LEMMA OwnsAcross ==
  ASSUME NEW fr, NEW other, other.kind \notin CallKinds, NEW a, Fits(other, a),
         Owns(other.before, fr)
  PROVE  Owns(a, fr)
<1>1. /\ a.cur_fn = other.before.cur_fn /\ a.frames = other.before.frames
      /\ a.cur_args = other.before.cur_args /\ a.scopes = other.before.scopes
  BY DEF Fits, CallKinds
<1>2. QED
  BY <1>1 DEF Owns

\* So they are still there above all the frames that are no calls.
LEMMA OwnsToTheTop ==
  ASSUME NEW s, NEW a, Rooted(s), Chain(s, a),
         NEW c \in 1..Len(s), s[c].kind \in CallKinds,
         \A i \in 1..Len(s) : s[i].kind \in CallKinds => i <= c
  PROVE  Owns(a, s[c])
<1> DEFINE n == Len(s) - c
           T == {k \in 0..n : Owns(At(s, a, c + k), s[c])}
<1>1. Len(s) \in Nat /\ n \in Nat /\ s \in Seq(FrameType)
  BY DEF Rooted
<1>2. \A i \in 1..Len(s) : Fits(s[i], At(s, a, i))
  BY DEF Chain, At
<1>3. 0 \in T
  <2>1. s[c] \in FrameType
    BY <1>1
  <2>2. Owns(At(s, a, c), s[c])
    BY <1>2, <2>1, OwnsAtEntry
  <2>3. c + 0 = c /\ 0 \in 0..n
    BY <1>1
  <2>4. QED
    BY <2>2, <2>3
<1>4. ASSUME NEW k \in 0..n, k \in T, k + 1 <= n PROVE k + 1 \in T
  <2> DEFINE i == c + k + 1
  <2>1. i \in 1..Len(s) /\ ~ (i <= c) /\ c + k # Len(s) /\ c + k + 1 = i /\ c + (k + 1) = i
    BY <1>1, <1>4
  <2>2. At(s, a, c + k) = s[i].before
    BY <2>1 DEF At
  <2>3. Owns(s[i].before, s[c])
    BY <1>4, <2>2
  <2>4. s[i].kind \notin CallKinds /\ Fits(s[i], At(s, a, i))
    BY <1>2, <2>1
  <2> HIDE DEF i
  <2>5. Owns(At(s, a, i), s[c])
    BY <2>3, <2>4, OwnsAcross
  <2>6. QED
    BY <1>4, <2>1, <2>5
<1>5. T = 0..n
  <2>1. T \in SUBSET (0..n)
    OBVIOUS
  <2> HIDE DEF T, n
  <2> QED
    BY <1>1, <1>3, <1>4, <2>1, InductionUpTo
<1>6. n \in 0..n /\ c + n = Len(s)
  BY <1>1
<1>7. Owns(At(s, a, Len(s)), s[c])
  <2>1. n \in T
    <3> HIDE DEF T, n
    <3> QED
      BY <1>5, <1>6
  <2>2. QED
    BY <1>6, <2>1
<1>8. QED
  BY <1>7 DEF At

\* Caller is what the innermost call frame has called.
LEMMA InnermostCall ==
  ASSUME Rooted(native), Caller # None
  PROVE  \E c \in 1..Len(native) :
           /\ native[c].kind \in CallKinds /\ Caller = native[c].fn
           /\ \A i \in 1..Len(native) : native[i].kind \in CallKinds => i <= c
<1> DEFINE C == {i \in 1..Len(native) : native[i].kind \in CallKinds}
<1>1. Len(native) \in Nat /\ C # {} /\ C \in SUBSET (0..Len(native))
  BY DEF Rooted, Caller, CallerIn
<1>2. \E m \in C : \A k \in C : k <= m
  <2> HIDE DEF C
  <2> QED
    BY <1>1, GreatestNumber
<1> DEFINE c == CHOOSE i \in C : \A j \in C : j <= i
<1>3. c \in C /\ \A j \in C : j <= c
  BY <1>2
<1>4. Caller = native[c].fn
  BY <1>1 DEF Caller, CallerIn
<1>5. QED
  BY <1>3, <1>4

\* What the chain says of a running body.
LEMMA ChainOwns ==
  ASSUME IInv, Caller # None
  PROVE  OwnFrameOnTop
<1>1. PICK c \in 1..Len(native) :
        /\ native[c].kind \in CallKinds /\ Caller = native[c].fn
        /\ \A i \in 1..Len(native) : native[i].kind \in CallKinds => i <= c
  BY InnermostCall DEF IInv, Stacked
<1>2. Owns(Activation, native[c])
  BY <1>1, OwnsToTheTop DEF IInv, Stacked
<1>3. Fits(native[c], At(native, Activation, c))
  BY <1>1 DEF IInv, Stacked, Chain, At
<1>4. native[c].kind = "fast" => native[c].fn \in Compiled
  BY <1>3 DEF Fits
<1>5. native[c].kind = "call" \/ Caller \in Compiled
  BY <1>1, <1>4 DEF CallKinds
<1>6. QED
  BY <1>1, <1>2, <1>5, Fields DEF Owns, OwnFrameOnTop

\* Whatever calls, callbacks and errors went before, a body that runs finds its
\* own function name, trace frame, arguments and scope on top: __FUNCTION__,
\* static variables, traces, func_get_args and every variable access are its
\* own.  (Programs without braced namespaces and failing closure calls.)
THEOREM OwnFrames == Restoring => (Spec => []OwnFrameOnTop)
<1>1. IInv => OwnFrameOnTop
  BY ChainOwns DEF OwnFrameOnTop
<1>2. QED
  BY <1>1, FramesFit, PTL

----------------------------------------------------------------------------
(* The re-entrancy guards. *)

GuardKinds == {"handler", "autoload", "hook"}

\* A frame more on the Rust stack is a place more if it is of the kinds S, and
\* changes nothing below it.
LEMMA PlacesPush ==
  ASSUME NEW T, NEW s \in Seq(T), NEW fr, NEW S
  PROVE  /\ IsFiniteSet(PlacesIn(s, S)) /\ Cardinality(PlacesIn(s, S)) \in Nat
         /\ fr.kind \notin S => PlacesIn(Append(s, fr), S) = PlacesIn(s, S)
         /\ fr.kind \in S =>
              /\ PlacesIn(Append(s, fr), S) = PlacesIn(s, S) \cup {Len(s) + 1}
              /\ Cardinality(PlacesIn(Append(s, fr), S)) = Cardinality(PlacesIn(s, S)) + 1
<1> DEFINE t == Append(s, fr)
           P == PlacesIn(s, S)
<1>1. Len(s) \in Nat /\ Len(t) = Len(s) + 1 /\ t[Len(s) + 1] = fr
      /\ \A i \in 1..Len(s) : t[i] = s[i]
  BY AppendProperties
<1>2. P \in SUBSET (1..Len(s)) /\ Len(s) + 1 \notin P
  BY <1>1 DEF PlacesIn
<1>3. IsFiniteSet(P) /\ Cardinality(P) \in Nat
  <2>1. IsFiniteSet(1..Len(s))
    BY <1>1, FS_Interval
  <2>2. IsFiniteSet(P)
    BY <1>2, <2>1, FS_Subset
  <2>3. QED
    BY <2>2, FS_CardinalityType
<1>4. fr.kind \notin S => PlacesIn(t, S) = P
  BY <1>1 DEF PlacesIn
<1>5. fr.kind \in S => PlacesIn(t, S) = P \cup {Len(s) + 1}
  BY <1>1 DEF PlacesIn
<1>6. Cardinality(P \cup {Len(s) + 1}) = Cardinality(P) + 1
  <2> HIDE DEF P
  <2> QED
    BY <1>2, <1>3, FS_AddElement
<1>7. QED
  BY <1>3, <1>4, <1>5, <1>6

\* hook_stack lists the property hooks on the Rust stack, each once.
HooksMark(s, hks) ==
  /\ Cardinality(PlacesIn(s, {"hook"})) = Len(hks)
  /\ \A i \in PlacesIn(s, {"hook"}) : s[i].fn = hks[Cardinality(PlacesIn(s, {"hook"}) \cap 1..i)]
  /\ IsInjective(hks)

\* A flag says whether there is a frame of a kind; there is never a second.
FlagMarks(s, kind, on) == Cardinality(PlacesIn(s, {kind})) = IF on THEN 1 ELSE 0

\* The guards, part by part.
LEMMA MarkParts ==
  ASSUME NEW s, NEW hks, NEW ld, NEW hd
  PROVE  GuardsMark(s, hks, ld, hd) <=>
           /\ FlagMarks(s, "handler", hd) /\ FlagMarks(s, "autoload", ld)
           /\ HooksMark(s, hks)
  BY DEF GuardsMark, FlagMarks, HooksMark

\* A frame of another kind leaves a flag right, and it was right before.
LEMMA FlagAcross ==
  ASSUME NEW T, NEW s \in Seq(T), NEW fr, NEW kind, NEW on, fr.kind # kind
  PROVE  FlagMarks(Append(s, fr), kind, on) <=> FlagMarks(s, kind, on)
  BY PlacesPush DEF FlagMarks

\* A frame of its kind sets it, and it was clear before.
LEMMA FlagSet ==
  ASSUME NEW T, NEW s \in Seq(T), NEW fr
  PROVE  /\ FlagMarks(s, fr.kind, FALSE) => FlagMarks(Append(s, fr), fr.kind, TRUE)
         /\ \A on \in BOOLEAN : FlagMarks(Append(s, fr), fr.kind, on) => FlagMarks(s, fr.kind, FALSE)
<1>1. /\ Cardinality(PlacesIn(s, {fr.kind})) \in Nat
      /\ Cardinality(PlacesIn(Append(s, fr), {fr.kind})) = Cardinality(PlacesIn(s, {fr.kind})) + 1
  BY PlacesPush
<1>2. FlagMarks(s, fr.kind, FALSE) => FlagMarks(Append(s, fr), fr.kind, TRUE)
  BY <1>1 DEF FlagMarks
<1>3. FlagMarks(Append(s, fr), fr.kind, TRUE) => FlagMarks(s, fr.kind, FALSE)
  BY <1>1 DEF FlagMarks
<1>4. ~FlagMarks(Append(s, fr), fr.kind, FALSE)
  BY <1>1 DEF FlagMarks
<1>5. \A on \in BOOLEAN : on = TRUE \/ on = FALSE
  OBVIOUS
<1> QED
  BY <1>2, <1>3, <1>4, <1>5, Zenon

\* A frame that is no hook leaves hook_stack right, and it was right before.
LEMMA HooksAcross ==
  ASSUME NEW T, NEW s \in Seq(T), NEW fr, NEW hks, fr.kind # "hook"
  PROVE  HooksMark(Append(s, fr), hks) <=> HooksMark(s, hks)
<1>1. PlacesIn(Append(s, fr), {"hook"}) = PlacesIn(s, {"hook"})
  BY PlacesPush
<1>2. \A i \in PlacesIn(s, {"hook"}) : Append(s, fr)[i] = s[i]
  BY AppendProperties DEF PlacesIn
<1>3. QED
  BY <1>1, <1>2 DEF HooksMark

\* Below the last place, the places are those of the shorter stack, and up to
\* the last place they are all.
LEMMA HookPlaces ==
  ASSUME NEW T, NEW s \in Seq(T), NEW fr, fr.kind = "hook"
  PROVE  LET P == PlacesIn(s, {"hook"})
             Q == PlacesIn(Append(s, fr), {"hook"})
         IN /\ Q = P \cup {Len(s) + 1} /\ Cardinality(Q) = Cardinality(P) + 1
            /\ Cardinality(P) \in Nat
            /\ \A i \in P : /\ Q \cap 1..i = P \cap 1..i /\ Append(s, fr)[i] = s[i]
                            /\ Cardinality(P \cap 1..i) \in 1..Cardinality(P)
            /\ Q \cap 1..(Len(s) + 1) = Q /\ Append(s, fr)[Len(s) + 1] = fr
<1> DEFINE P == PlacesIn(s, {"hook"})
           Q == PlacesIn(Append(s, fr), {"hook"})
<1>1. Q = P \cup {Len(s) + 1} /\ Cardinality(Q) = Cardinality(P) + 1 /\ Cardinality(P) \in Nat
      /\ IsFiniteSet(P)
  BY PlacesPush
<1>2. P \in SUBSET (1..Len(s)) /\ Len(s) \in Nat
  BY DEF PlacesIn
<1>3. Append(s, fr)[Len(s) + 1] = fr /\ \A i \in P : Append(s, fr)[i] = s[i]
  BY <1>2, AppendProperties
<1>4. ASSUME NEW i \in P
      PROVE  Q \cap 1..i = P \cap 1..i /\ Cardinality(P \cap 1..i) \in 1..Cardinality(P)
  <2> HIDE DEF P, Q
  <2>1. Q \cap 1..i = P \cap 1..i
    <3>1. i \in 1..Len(s) /\ Len(s) + 1 \notin 1..i
      BY <1>2
    <3>2. QED
      BY <1>1, <3>1
  <2>2. P \cap 1..i \in SUBSET P /\ i \in P \cap 1..i
    BY <1>2
  <2>3. IsFiniteSet(P \cap 1..i) /\ Cardinality(P \cap 1..i) <= Cardinality(P)
    BY <1>1, <2>2, FS_Subset
  <2>4. Cardinality(P \cap 1..i) \in Nat
    BY <2>3, FS_CardinalityType
  <2>5. Cardinality(P \cap 1..i) # 0
    BY <2>2, <2>3, FS_EmptySet
  <2>6. QED
    BY <1>1, <2>1, <2>3, <2>4, <2>5
<1>5. Q \cap 1..(Len(s) + 1) = Q
  <2> HIDE DEF P, Q
  <2>1. 1..Len(s) \subseteq 1..(Len(s) + 1) /\ Len(s) + 1 \in 1..(Len(s) + 1)
    BY <1>2
  <2>2. QED
    BY <1>1, <1>2, <2>1
<1>6. QED
  BY <1>1, <1>3, <1>4, <1>5

\* A hook that is not on hook_stack is pushed on both stacks.
LEMMA HookPushed ==
  ASSUME NEW T, NEW s \in Seq(T), NEW fr, fr.kind = "hook", fr.fn \in Methods,
         NEW hks \in Seq(Methods), HooksMark(s, hks), ~Contains(hks, fr.fn)
  PROVE  HooksMark(Append(s, fr), Append(hks, fr.fn))
<1> DEFINE P == PlacesIn(s, {"hook"})
           Q == PlacesIn(Append(s, fr), {"hook"})
           g == Append(hks, fr.fn)
<1>1. /\ Q = P \cup {Len(s) + 1} /\ Cardinality(Q) = Cardinality(P) + 1
      /\ \A i \in P : /\ Q \cap 1..i = P \cap 1..i /\ Append(s, fr)[i] = s[i]
                      /\ Cardinality(P \cap 1..i) \in 1..Cardinality(P)
      /\ Q \cap 1..(Len(s) + 1) = Q /\ Append(s, fr)[Len(s) + 1] = fr
  BY HookPlaces
<1>2. Len(hks) \in Nat /\ Len(g) = Len(hks) + 1 /\ g[Len(hks) + 1] = fr.fn
      /\ \A i \in 1..Len(hks) : g[i] = hks[i]
  BY AppendProperties
<1>3. Cardinality(P) = Len(hks) /\ \A i \in P : s[i].fn = hks[Cardinality(P \cap 1..i)]
  BY DEF HooksMark
<1>4. IsInjective(g)
  <2>1. DOMAIN hks = 1..Len(hks) /\ DOMAIN g = 1..(Len(hks) + 1)
    BY <1>2
  <2>2. \A i \in 1..Len(hks) : hks[i] # fr.fn
    BY DEF Contains
  <2>3. IsInjective(hks)
    BY DEF HooksMark
  <2> HIDE DEF g
  <2>4. QED
    BY <1>2, <2>1, <2>2, <2>3 DEF IsInjective
<1>5. ASSUME NEW i \in Q PROVE Append(s, fr)[i].fn = g[Cardinality(Q \cap 1..i)]
  <2> HIDE DEF P, Q, g
  <2>1. CASE i \in P
    BY <1>1, <1>2, <1>3, <2>1
  <2>2. CASE i = Len(s) + 1
    BY <1>1, <1>2, <1>3, <2>2
  <2>3. QED
    BY <1>1, <2>1, <2>2
<1>6. QED
  BY <1>1, <1>2, <1>3, <1>4, <1>5 DEF HooksMark

\* A sequence without its last element.
LEMMA FrontIs ==
  ASSUME NEW T, NEW s \in Seq(T), Len(s) > 0
  PROVE  /\ Front(s) \in Seq(T) /\ Len(Front(s)) = Len(s) - 1
         /\ DOMAIN Front(s) = 1..(Len(s) - 1)
         /\ \A i \in 1..Len(Front(s)) : Front(s)[i] = s[i]
         /\ s = Append(Front(s), Last(s))
<1>1. Front(s) \in Seq(T) /\ Len(Front(s)) = Len(s) - 1
      /\ \A i \in 1..Len(Front(s)) : Front(s)[i] = s[i]
  <2> DEFINE n == Len(s) - 1
  <2>1. n \in Nat /\ Len(s) \in Nat /\ 1 \in Int
    OBVIOUS
  <2>2. \A i \in 1..n : s[i] \in T
    BY <2>1
  <2>3. Front(s) = SubSeq(s, 1, n)
    BY DEF Front
  <2> HIDE DEF n
  <2>4. /\ SubSeq(s, 1, n) \in Seq(T)
        /\ Len(SubSeq(s, 1, n)) = IF 1 <= n THEN n - 1 + 1 ELSE 0
        /\ \A i \in 1..(n - 1 + 1) : SubSeq(s, 1, n)[i] = s[1 + i - 1]
    BY <2>1, <2>2, SubSeqProperties
  <2>5. Len(Front(s)) = n
    BY <2>1, <2>3, <2>4
  <2>6. \A i \in 1..n : i \in 1..(n - 1 + 1) /\ 1 + i - 1 = i
    BY <2>1
  <2>7. QED
    BY <2>3, <2>4, <2>5, <2>6 DEF n
<1>2. Append(Front(s), Last(s)) \in Seq(T) /\ Len(Append(Front(s), Last(s))) = Len(s)
  BY <1>1 DEF Last
<1>3. \A i \in 1..Len(s) : Append(Front(s), Last(s))[i] = s[i]
  BY <1>1 DEF Last
<1>4. s = Append(Front(s), Last(s))
  BY <1>2, <1>3, SeqEqual
<1>5. QED
  BY <1>1, <1>4

\* The hook on top leaves both stacks.
LEMMA HookPopped ==
  ASSUME NEW T, NEW s \in Seq(T), NEW fr, fr.kind = "hook",
         NEW hks \in Seq(Methods), HooksMark(Append(s, fr), hks)
  PROVE  HooksMark(s, Front(hks))
<1> DEFINE P == PlacesIn(s, {"hook"})
           Q == PlacesIn(Append(s, fr), {"hook"})
           g == Front(hks)
<1>1. /\ Q = P \cup {Len(s) + 1} /\ Cardinality(Q) = Cardinality(P) + 1 /\ Cardinality(P) \in Nat
      /\ \A i \in P : /\ Q \cap 1..i = P \cap 1..i /\ Append(s, fr)[i] = s[i]
                      /\ Cardinality(P \cap 1..i) \in 1..Cardinality(P)
  BY HookPlaces
<1>2. Cardinality(Q) = Len(hks) /\ \A i \in Q : Append(s, fr)[i].fn = hks[Cardinality(Q \cap 1..i)]
  BY DEF HooksMark
<1>3. Len(hks) \in Nat /\ Len(hks) > 0
  <2> HIDE DEF P, Q
  <2> QED
    BY <1>1, <1>2
<1>4. Len(g) = Len(hks) - 1 /\ \A i \in 1..Len(g) : g[i] = hks[i]
  BY <1>3, FrontIs
<1>5. IsInjective(g)
  <2>1. DOMAIN g = 1..(Len(hks) - 1) /\ DOMAIN hks = 1..Len(hks)
    BY <1>3, FrontIs
  <2>2. IsInjective(hks)
    BY DEF HooksMark
  <2> HIDE DEF g
  <2>3. QED
    BY <1>3, <1>4, <2>1, <2>2 DEF IsInjective
<1>6. Cardinality(P) = Len(g)
  <2> HIDE DEF P, Q, g
  <2> QED
    BY <1>1, <1>2, <1>3, <1>4
<1>7. ASSUME NEW i \in P PROVE s[i].fn = g[Cardinality(P \cap 1..i)]
  <2> HIDE DEF P, Q, g
  <2>1. i \in Q /\ Append(s, fr)[i].fn = s[i].fn
    BY <1>1
  <2>2. s[i].fn = hks[Cardinality(P \cap 1..i)]
    BY <1>1, <1>2, <2>1
  <2>3. QED
    BY <1>1, <1>4, <1>6, <2>2
<1>8. QED
  BY <1>5, <1>6, <1>7 DEF HooksMark

\* A frame that is no callback with a guard changes no guard.
LEMMA MarkAcross ==
  ASSUME NEW T, NEW s \in Seq(T), NEW fr, fr.kind \notin GuardKinds,
         NEW hks, NEW ld, NEW hd
  PROVE  GuardsMark(Append(s, fr), hks, ld, hd) <=> GuardsMark(s, hks, ld, hd)
<1>1. fr.kind # "handler" /\ fr.kind # "autoload" /\ fr.kind # "hook"
  BY DEF GuardKinds
<1>2. QED
  BY <1>1, FlagAcross, HooksAcross, MarkParts

\* When the last frame ends, its guard is given up.
LEMMA MarkPop ==
  ASSUME NEW s, Rooted(s), Last(s).kind \notin {"top", "stopping"},
         NEW hks \in Seq(Methods), NEW ld \in BOOLEAN, NEW hd \in BOOLEAN,
         GuardsMark(s, hks, ld, hd)
  PROVE  /\ Last(s).kind \notin GuardKinds => GuardsMark(Front(s), hks, ld, hd)
         /\ Last(s).kind = "handler" => GuardsMark(Front(s), hks, ld, FALSE)
         /\ Last(s).kind = "autoload" => GuardsMark(Front(s), hks, FALSE, hd)
         /\ Last(s).kind = "hook" => GuardsMark(Front(s), Front(hks), ld, hd)
<1> DEFINE t == Front(s)
           fr == Last(s)
<1>1. t \in Seq(FrameType) /\ s = Append(t, fr)
  BY FrontIs DEF Rooted
<1> HIDE DEF t, fr
<1>2. FlagMarks(s, "handler", hd) /\ FlagMarks(s, "autoload", ld) /\ HooksMark(s, hks)
  BY MarkParts
<1>3. fr.kind \notin GuardKinds => GuardsMark(t, hks, ld, hd)
  <2>1. GuardsMark(Append(t, fr), hks, ld, hd)
    BY <1>1
  <2>2. QED
    BY <1>1, <2>1, MarkAcross
<1>4. ASSUME fr.kind = "handler" PROVE GuardsMark(t, hks, ld, FALSE)
  <2>1. fr.kind # "autoload" /\ fr.kind # "hook"
    BY <1>4
  <2>2. FlagMarks(t, "autoload", ld) /\ HooksMark(t, hks)
    BY <1>1, <1>2, <2>1, FlagAcross, HooksAcross
  <2>3. FlagMarks(Append(t, fr), fr.kind, hd)
    BY <1>1, <1>2, <1>4
  <2>4. FlagMarks(t, fr.kind, FALSE)
    BY <1>1, <2>3, FlagSet
  <2>5. QED
    BY <1>4, <2>2, <2>4, MarkParts
<1>5. ASSUME fr.kind = "autoload" PROVE GuardsMark(t, hks, FALSE, hd)
  <2>1. fr.kind # "handler" /\ fr.kind # "hook"
    BY <1>5
  <2>2. FlagMarks(t, "handler", hd) /\ HooksMark(t, hks)
    BY <1>1, <1>2, <2>1, FlagAcross, HooksAcross
  <2>3. FlagMarks(Append(t, fr), fr.kind, ld)
    BY <1>1, <1>2, <1>5
  <2>4. FlagMarks(t, fr.kind, FALSE)
    BY <1>1, <2>3, FlagSet
  <2>5. QED
    BY <1>5, <2>2, <2>4, MarkParts
<1>6. ASSUME fr.kind = "hook" PROVE GuardsMark(t, Front(hks), ld, hd)
  <2>1. fr.kind # "handler" /\ fr.kind # "autoload"
    BY <1>6
  <2>2. FlagMarks(t, "handler", hd) /\ FlagMarks(t, "autoload", ld)
    BY <1>1, <1>2, <2>1, FlagAcross
  <2>3. HooksMark(Append(t, fr), hks)
    BY <1>1, <1>2
  <2>4. HooksMark(t, Front(hks))
    BY <1>1, <1>6, <2>3, HookPopped
  <2>5. QED
    BY <2>2, <2>4, MarkParts
<1>7. QED
  BY <1>3, <1>4, <1>5, <1>6 DEF t, fr

\* The frame of a callback with a guard sets it, if it was not set.
LEMMA MarkPush ==
  ASSUME NEW s \in Seq(FrameType), NEW fr \in FrameType,
         NEW hks \in Seq(Methods), NEW ld \in BOOLEAN, NEW hd \in BOOLEAN,
         GuardsMark(s, hks, ld, hd)
  PROVE  /\ fr.kind = "handler" /\ ~hd => GuardsMark(Append(s, fr), hks, ld, TRUE)
         /\ fr.kind = "autoload" /\ ~ld => GuardsMark(Append(s, fr), hks, TRUE, hd)
         /\ fr.kind = "hook" /\ fr.fn \in Methods /\ ~Contains(hks, fr.fn) =>
              GuardsMark(Append(s, fr), Append(hks, fr.fn), ld, hd)
<1>1. FlagMarks(s, "handler", hd) /\ FlagMarks(s, "autoload", ld) /\ HooksMark(s, hks)
  BY MarkParts
<1>2. ASSUME fr.kind = "handler", ~hd PROVE GuardsMark(Append(s, fr), hks, ld, TRUE)
  <2>1. fr.kind # "autoload" /\ fr.kind # "hook"
    BY <1>2
  <2>2. FlagMarks(Append(s, fr), "autoload", ld) /\ HooksMark(Append(s, fr), hks)
    BY <1>1, <2>1, FlagAcross, HooksAcross
  <2>3. hd = FALSE
    BY <1>2
  <2>4. FlagMarks(s, fr.kind, FALSE)
    BY <1>1, <1>2, <2>3
  <2>5. FlagMarks(Append(s, fr), fr.kind, TRUE)
    BY <2>4, FlagSet
  <2>6. QED
    BY <1>2, <2>2, <2>5, MarkParts
<1>3. ASSUME fr.kind = "autoload", ~ld PROVE GuardsMark(Append(s, fr), hks, TRUE, hd)
  <2>1. fr.kind # "handler" /\ fr.kind # "hook"
    BY <1>3
  <2>2. FlagMarks(Append(s, fr), "handler", hd) /\ HooksMark(Append(s, fr), hks)
    BY <1>1, <2>1, FlagAcross, HooksAcross
  <2>3. ld = FALSE
    BY <1>3
  <2>4. FlagMarks(s, fr.kind, FALSE)
    BY <1>1, <1>3, <2>3
  <2>5. FlagMarks(Append(s, fr), fr.kind, TRUE)
    BY <2>4, FlagSet
  <2>6. QED
    BY <1>3, <2>2, <2>5, MarkParts
<1>4. ASSUME fr.kind = "hook", fr.fn \in Methods, ~Contains(hks, fr.fn)
      PROVE  GuardsMark(Append(s, fr), Append(hks, fr.fn), ld, hd)
  <2>1. fr.kind # "handler" /\ fr.kind # "autoload"
    BY <1>4
  <2>2. FlagMarks(Append(s, fr), "handler", hd) /\ FlagMarks(Append(s, fr), "autoload", ld)
    BY <1>1, <2>1, FlagAcross
  <2>3. HooksMark(Append(s, fr), Append(hks, fr.fn))
    BY <1>1, <1>4, HookPushed
  <2>4. QED
    BY <2>2, <2>3, MarkParts
<1>5. QED
  BY <1>2, <1>3, <1>4

\* A call changes no guard, whatever becomes of it.
LEMMA InvokeMarks ==
  ASSUME NEW f, NEW under \in Seq(FrameType), Invoke(f, under),
         NEW hks, NEW ld, NEW hd, GuardsMark(under, hks, ld, hd)
  PROVE  GuardsMark(native', hks, ld, hd)
<1>1. CASE TooDeep(under) \/ BindFails(f, under)
  <2>1. native' = under
    BY <1>1 DEF TooDeep, BindFails
  <2>2. QED
    BY <2>1
<1>2. CASE EnterWalker(f, under)
  <2> DEFINE fr == Frame("call", f, FALSE, "run")
  <2>1. native' = Append(under, fr)
    BY <1>2 DEF EnterWalker
  <2>2. fr.kind \notin GuardKinds
    BY DEF Frame, GuardKinds
  <2> HIDE DEF fr
  <2>3. GuardsMark(Append(under, fr), hks, ld, hd)
    BY <2>2, MarkAcross
  <2>4. QED
    BY <2>1, <2>3
<1>3. QED
  BY <1>1, <1>2 DEF Invoke

\* The guards mark the callbacks under way; the rest of the invariant says
\* which frames there can be.
MInv == IInv /\ GuardsMark(native, hooks, loading, handling)

\* What MInv says of the guards.
LEMMA MarksNow ==
  ASSUME MInv
  PROVE  /\ native \in Seq(FrameType) /\ Rooted(native) /\ TypeOK
         /\ hooks \in Seq(Methods) /\ loading \in BOOLEAN /\ handling \in BOOLEAN
         /\ GuardsMark(native, hooks, loading, handling)
  BY DEF MInv, IInv, Stacked, Rooted, TypeOK

\* Steps that push at most one frame, and no callback with a guard.
LEMMA PlainMarks ==
  ASSUME MInv, UNCHANGED <<hooks, loading, handling>>,
         NEW kind, kind \notin GuardKinds, NEW fn, NEW fin,
         native' = native \/ native' = Append(native, Frame(kind, fn, fin, "run"))
  PROVE  GuardsMark(native', hooks', loading', handling')
<1> DEFINE fr == Frame(kind, fn, fin, "run")
<1>1. fr.kind \notin GuardKinds
  BY DEF Frame
<1> HIDE DEF fr
<1>2. GuardsMark(Append(native, fr), hooks, loading, handling)
  BY <1>1, MarksNow, MarkAcross
<1>3. GuardsMark(native', hooks, loading, handling)
  <2>1. CASE native' = native
    BY <2>1, MarksNow
  <2>2. CASE native' = Append(native, fr)
    BY <1>2, <2>2
  <2>3. QED
    BY <2>1, <2>2 DEF fr
<1>4. QED
  BY <1>3

\* Steps of code that calls without a guard.
LEMMA CallMarks ==
  ASSUME MInv, NEW f \in Fn,
         Call(f) \/ NextCallback(f) \/ Shutdown(f) \/ FastCall(f) \/ UserSort(f)
  PROVE  GuardsMark(native', hooks', loading', handling')
<1>1. UNCHANGED <<hooks, loading, handling>>
  BY DEF Call, NextCallback, Shutdown, FastCall, UserSort
<1>2. CASE Call(f) \/ NextCallback(f) \/ Shutdown(f)
  <2>1. Invoke(f, native)
    BY <1>2 DEF Call, NextCallback, Shutdown
  <2>2. GuardsMark(native', hooks, loading, handling)
    BY <2>1, MarksNow, InvokeMarks
  <2>3. QED
    BY <1>1, <2>2
<1>3. CASE FastCall(f)
  <2>1. native' = Append(native, Frame("fast", f, FALSE, "run"))
    BY <1>3 DEF FastCall, EnterFast
  <2>2. "fast" \notin GuardKinds
    BY DEF GuardKinds
  <2>3. QED
    BY <1>1, <2>1, <2>2, PlainMarks
<1>4. CASE UserSort(f)
  <2> DEFINE fr == Frame("usort", f, FALSE, "run")
  <2>1. fr \in FrameType /\ fr.kind = "usort"
    BY MarksNow, FrameMade DEF FrameKinds, CallbackKinds
  <2>2. Invoke(f, Append(native, fr))
    BY <1>4 DEF UserSort
  <2>3. fr.kind \notin GuardKinds
    BY <2>1 DEF GuardKinds
  <2> HIDE DEF fr
  <2>4. GuardsMark(Append(native, fr), hooks, loading, handling)
    BY <2>3, MarksNow, MarkAcross
  <2>5. Append(native, fr) \in Seq(FrameType)
    BY <2>1, MarksNow, AppendProperties
  <2>6. GuardsMark(native', hooks, loading, handling)
    BY <2>2, <2>4, <2>5, InvokeMarks
  <2>7. QED
    BY <1>1, <2>6
<1>5. QED
  BY <1>2, <1>3, <1>4

\* Callbacks with a guard set it before they call.
LEMMA GuardedMarks ==
  ASSUME MInv, NEW f \in Fn, Warn(f) \/ Autoload(f) \/ PropHook(f)
  PROVE  GuardsMark(native', hooks', loading', handling')
<1>1. \A kind \in GuardKinds :
        /\ Frame(kind, f, FALSE, "run") \in FrameType
        /\ Frame(kind, f, FALSE, "run").kind = kind /\ Frame(kind, f, FALSE, "run").fn = f
  BY MarksNow, FrameMade DEF FrameKinds, CallbackKinds, GuardKinds
<1>2. CASE Warn(f)
  <2> DEFINE fr == Frame("handler", f, FALSE, "run")
  <2>1. fr \in FrameType /\ fr.kind = "handler"
    BY <1>1 DEF GuardKinds
  <2>2. Invoke(f, Append(native, fr)) /\ ~handling /\ handling' = TRUE /\ UNCHANGED <<hooks, loading>>
    BY <1>2 DEF Warn
  <2> HIDE DEF fr
  <2>3. GuardsMark(Append(native, fr), hooks, loading, TRUE)
    BY <2>1, <2>2, MarksNow, MarkPush
  <2>4. Append(native, fr) \in Seq(FrameType)
    BY <2>1, MarksNow, AppendProperties
  <2>5. GuardsMark(native', hooks, loading, TRUE)
    BY <2>2, <2>3, <2>4, InvokeMarks
  <2>6. QED
    BY <2>2, <2>5
<1>3. CASE Autoload(f)
  <2> DEFINE fr == Frame("autoload", f, FALSE, "run")
  <2>1. fr \in FrameType /\ fr.kind = "autoload"
    BY <1>1 DEF GuardKinds
  <2>2. Invoke(f, Append(native, fr)) /\ ~loading /\ loading' = TRUE /\ UNCHANGED <<hooks, handling>>
    BY <1>3 DEF Autoload
  <2> HIDE DEF fr
  <2>3. GuardsMark(Append(native, fr), hooks, TRUE, handling)
    BY <2>1, <2>2, MarksNow, MarkPush
  <2>4. Append(native, fr) \in Seq(FrameType)
    BY <2>1, MarksNow, AppendProperties
  <2>5. GuardsMark(native', hooks, TRUE, handling)
    BY <2>2, <2>3, <2>4, InvokeMarks
  <2>6. QED
    BY <2>2, <2>5
<1>4. CASE PropHook(f)
  <2> DEFINE fr == Frame("hook", f, FALSE, "run")
  <2>1. fr \in FrameType /\ fr.kind = "hook" /\ fr.fn = f
    BY <1>1 DEF GuardKinds
  <2>2. /\ Invoke(f, Append(native, fr)) /\ f \in Methods /\ ~Contains(hooks, f)
        /\ hooks' = Append(hooks, f) /\ UNCHANGED <<loading, handling>>
    BY <1>4 DEF PropHook
  <2> HIDE DEF fr
  <2>3. GuardsMark(Append(native, fr), Append(hooks, f), loading, handling)
    BY <2>1, <2>2, MarksNow, MarkPush
  <2>4. Append(native, fr) \in Seq(FrameType)
    BY <2>1, MarksNow, AppendProperties
  <2>5. GuardsMark(native', Append(hooks, f), loading, handling)
    BY <2>2, <2>3, <2>4, InvokeMarks
  <2>6. QED
    BY <2>2, <2>5
<1>5. QED
  BY <1>2, <1>3, <1>4

\* A frame that ends gives up its guard, and only its own.
LEMMA EndMarks ==
  ASSUME MInv, native' = Popped,
         \/ LeaveCall \/ EndWriteBack \/ LeaveTry \/ EndFinally \/ EndHandler \/ EndAutoload
         \/ EndSort \/ EndHook \/ EndQuiet \/ EndTolerate \/ EndSwap \/ EndBlockNamespace
  PROVE  GuardsMark(native', hooks', loading', handling')
<1>1. native' = Popped /\ Top.kind \notin {"top", "stopping"}
  BY DEF EndWriteBack, EndTolerate, LeaveCall, LeaveTry, EndFinally, EndHandler, EndAutoload, EndSort, EndHook,
         EndQuiet, EndSwap, EndBlockNamespace, CallKinds
<1>2. /\ Top.kind \notin GuardKinds => GuardsMark(Popped, hooks, loading, handling)
      /\ Top.kind = "handler" => GuardsMark(Popped, hooks, loading, FALSE)
      /\ Top.kind = "autoload" => GuardsMark(Popped, hooks, FALSE, handling)
      /\ Top.kind = "hook" => GuardsMark(Popped, Front(hooks), loading, handling)
  BY <1>1, MarksNow, MarkPop DEF Popped, Top
<1>3. CASE \/ LeaveCall \/ EndWriteBack \/ LeaveTry \/ EndFinally \/ EndSort \/ EndQuiet
           \/ EndTolerate \/ EndSwap \/ EndBlockNamespace
  <2>1. Top.kind \notin GuardKinds /\ UNCHANGED <<hooks, loading, handling>>
    BY <1>3 DEF LeaveCall, EndWriteBack, LeaveTry, EndFinally, EndSort, EndQuiet, EndTolerate,
                EndSwap, EndBlockNamespace, CallKinds, GuardKinds, regs
  <2>2. QED
    BY <1>1, <1>2, <2>1
<1>4. CASE EndHandler
  <2>1. Top.kind = "handler" /\ handling' = FALSE /\ UNCHANGED <<hooks, loading>>
    BY <1>4 DEF EndHandler
  <2>2. QED
    BY <1>1, <1>2, <2>1
<1>5. CASE EndAutoload
  <2>1. Top.kind = "autoload" /\ loading' = FALSE /\ UNCHANGED <<hooks, handling>>
    BY <1>5 DEF EndAutoload
  <2>2. QED
    BY <1>1, <1>2, <2>1
<1>6. CASE EndHook
  <2>1. Top.kind = "hook" /\ hooks' = Front(hooks) /\ UNCHANGED <<loading, handling>>
    BY <1>6 DEF EndHook
  <2>2. QED
    BY <1>1, <1>2, <2>1
<1>7. QED
  BY <1>3, <1>4, <1>5, <1>6

\* A try that goes on to its catch or finally block, and a call that goes on
\* to its write-back, hold no guard.
LEMMA TryMarks ==
  ASSUME MInv, EndTry \/ CatchMatches \/ (LeaveCall /\ WriteBack)
  PROVE  GuardsMark(native', hooks', loading', handling')
<1>1. /\ Top.kind \in {"try", "catch", "call"} /\ UNCHANGED <<hooks, loading, handling>>
      /\ Top \in FrameType
  BY TopIs DEF MInv, EndTry, CatchMatches, LeaveCall, WriteBack, regs
<1>2. Popped \in Seq(FrameType) /\ GuardsMark(Popped, hooks, loading, handling)
  <2>1. Top.kind \notin GuardKinds /\ Top.kind \notin {"top", "stopping"}
    BY <1>1 DEF GuardKinds
  <2>2. QED
    BY <2>1, MarksNow, MarkPop, PoppedShorter DEF Popped, Top
<1>3. native' = Popped \/ \E fr : /\ fr.kind \in {"catch", "finally", "writeback"}
                                  /\ native' = Append(Popped, fr)
  <2> DEFINE fin == [Top EXCEPT !.kind = "finally", !.flow = ctl]
             cat == [Top EXCEPT !.kind = "catch"]
             wb == [Top EXCEPT !.kind = "writeback", !.flow = IF ctl = "ret" THEN "ret" ELSE err]
  <2>1. fin.kind = "finally" /\ cat.kind = "catch" /\ wb.kind = "writeback"
    BY <1>1 DEF FrameType
  <2>2. \/ native' = Popped \/ native' = Append(Popped, fin)
        \/ native' = Append(Popped, cat) \/ native' = Append(Popped, wb)
    BY DEF EndTry, CatchMatches, WriteBack
  <2> HIDE DEF fin, cat, wb
  <2>3. QED
    BY <2>1, <2>2
<1>4. ASSUME NEW fr, fr.kind \in {"catch", "finally", "writeback"}, native' = Append(Popped, fr)
      PROVE  GuardsMark(native', hooks, loading, handling)
  <2>1. fr.kind \notin GuardKinds
    BY <1>4 DEF GuardKinds
  <2>2. GuardsMark(Append(Popped, fr), hooks, loading, handling)
    BY <1>2, <2>1, MarkAcross
  <2>3. QED
    BY <1>4, <2>2
<1>5. QED
  BY <1>1, <1>2, <1>3, <1>4

\* The script's own frame marks nothing, and every step keeps the marks.
LEMMA StepMarks ==
  ASSUME Restoring, MInv, [Next]_vars
  PROVE  MInv'
<1>1. IInv'
  BY StepIInv DEF MInv, StepOK
<1>2. GuardsMark(native', hooks', loading', handling')
  <2>1. CASE UNCHANGED vars
    BY <2>1, MarksNow DEF vars, regs
  <2>2. CASE \E f \in Fn : \/ Call(f) \/ NextCallback(f) \/ Shutdown(f) \/ FastCall(f)
                           \/ UserSort(f)
    BY <2>2, CallMarks
  <2>3. CASE \E f \in Fn : Warn(f) \/ Autoload(f) \/ PropHook(f)
    BY <2>3, GuardedMarks
  <2>4. CASE \/ LeaveCall /\ CallResult
             \/ EndWriteBack \/ LeaveTry \/ EndFinally \/ EndHandler \/ EndAutoload \/ EndSort
             \/ EndHook \/ EndQuiet \/ EndTolerate \/ EndSwap \/ EndBlockNamespace
    <3>1. native' = Popped
      BY <2>4 DEF CallResult, EndWriteBack, LeaveTry, EndFinally, EndHandler, EndAutoload,
                  EndSort, EndHook, EndQuiet, EndTolerate, EndSwap, EndBlockNamespace
    <3>2. QED
      BY <2>4, <3>1, EndMarks
  <2>5. CASE EndTry \/ CatchMatches \/ (LeaveCall /\ WriteBack)
    BY <2>5, TryMarks
  <2>6. CASE Raise \/ Return \/ Stop \/ Over
    <3>1. native' = native /\ UNCHANGED <<hooks, loading, handling>>
      BY <2>6 DEF Raise, Return, Stop, Over, vars, regs
    <3>2. QED
      BY <3>1, MarksNow
  <2>7. ASSUME NEW fin \in BOOLEAN, EnterTry(fin)
        PROVE  GuardsMark(native', hooks', loading', handling')
    <3>1. /\ native' = Append(native, Frame("try", None, fin, "run"))
          /\ UNCHANGED <<hooks, loading, handling>> /\ "try" \notin GuardKinds
      BY <2>7 DEF EnterTry, regs, GuardKinds
    <3>2. QED
      BY <3>1, PlainMarks
  <2>8. CASE \/ Quiet \/ Include \/ ClassInit \/ BlockNamespace
             \/ \E kind \in {"suppress", "tolerant"} : Tolerate(kind)
    <3> DEFINE Kinds == {"quiet", "include", "class_init", "block_namespace",
                         "suppress", "tolerant"}
    <3>1. \E kind \in Kinds : native' = Append(native, Frame(kind, None, FALSE, "run"))
      BY <2>8 DEF Quiet, Include, ClassInit, BlockNamespace, Swap, Tolerate
    <3>2. UNCHANGED <<hooks, loading, handling>>
      BY <2>8 DEF Quiet, Include, ClassInit, BlockNamespace, Swap, Tolerate
    <3>3. \A kind \in Kinds : kind \notin GuardKinds
      BY DEF GuardKinds
    <3>4. QED
      BY <3>1, <3>2, <3>3, PlainMarks
  <2>9. CASE EndScript
    <3>1. /\ Top.kind = "top" /\ UNCHANGED <<hooks, loading, handling>>
          /\ native' = native \/ native' = <<[Top EXCEPT !.kind = "stopping"]>>
      BY <2>9 DEF EndScript, regs
    <3>2. CASE native' = native
      BY <3>1, <3>2, MarksNow
    <3>3. CASE native' = <<[Top EXCEPT !.kind = "stopping"]>>
      <4> DEFINE fr == [Top EXCEPT !.kind = "stopping"]
      <4>1. Top \in FrameType
        BY TopIs DEF MInv
      <4>2. fr.kind = "stopping"
        BY <4>1 DEF FrameType
      <4>3. Len(native) = 1 /\ native[1] = Top
        <5>1. Len(native) \in 1..Len(native) /\ Top = native[Len(native)]
          BY MarksNow DEF Rooted, Top, Last
        <5>2. Top.kind \in {"top", "stopping"} <=> Len(native) = 1
          BY <5>1, MarksNow DEF Rooted
        <5>3. QED
          BY <3>1, <5>1, <5>2
      <4> HIDE DEF fr
      <4>4. native' = <<fr>>
        BY <3>3 DEF fr
      <4>5. ASSUME NEW S, "top" \notin S, "stopping" \notin S
            PROVE  PlacesIn(native, S) = {} /\ PlacesIn(native', S) = {}
        BY <3>1, <4>2, <4>3, <4>4, <4>5 DEF PlacesIn
      <4>6. \A S \in {{"handler"}, {"autoload"}, {"hook"}} :
              PlacesIn(native, S) = {} /\ PlacesIn(native', S) = {}
        BY <4>5
      <4>7. GuardsMark(native', hooks, loading, handling)
        BY <4>6, MarksNow DEF GuardsMark
      <4>8. QED
        BY <3>1, <4>7
    <3>4. QED
      BY <3>1, <3>2, <3>3
  <2>10. QED
    BY <2>1, <2>2, <2>3, <2>4, <2>5, <2>6, <2>7, <2>8, <2>9 DEF Next, LeaveCall
<1>3. QED
  BY <1>1, <1>2 DEF MInv

\* At the start no callback is under way.
LEMMA InitMarks == Init => MInv
<1>1. SUFFICES ASSUME Init PROVE MInv
  OBVIOUS
<1> DEFINE fr == Frame("top", None, FALSE, "run")
<1>2. fr.kind = "top"
  BY DEF Frame
<1>3. native = <<fr>> /\ hooks = <<>> /\ loading = FALSE /\ handling = FALSE
  BY <1>1 DEF Init
<1> HIDE DEF fr
<1>4. ASSUME NEW S, "top" \notin S PROVE PlacesIn(native, S) = {}
  BY <1>2, <1>3, <1>4 DEF PlacesIn
<1>5. PlacesIn(native, {"handler"}) = {} /\ PlacesIn(native, {"autoload"}) = {}
      /\ PlacesIn(native, {"hook"}) = {}
  BY <1>4
<1>6. Len(hooks) = 0 /\ DOMAIN hooks = {}
  BY <1>3
<1>7. IsInjective(hooks)
  BY <1>6 DEF IsInjective
<1>8. GuardsMark(native, hooks, loading, handling)
  BY <1>3, <1>5, <1>6, <1>7, FS_EmptySet DEF GuardsMark
<1>9. QED
  BY <1>1, <1>8, InitIInv DEF MInv

----------------------------------------------------------------------------
(* What is counted. *)

\* The frames of s up to the i-th.
CallsUpTo(s, i) == {j \in 1..i : s[j].kind \in CallKinds}
SilencesUpTo(s, i) == {j \in 1..i : Silences(s[j])}
RunsGenerator(s, i) == \E j \in 1..i : s[j].kind = "call" /\ s[j].fn \in Generators

\* Above the i-th frame, the activation counts the frames up to it.
Counts(s, a, i) ==
  /\ At(s, a, i).depth = Cardinality(CallsUpTo(s, i))
  /\ At(s, a, i).quiet = Cardinality(SilencesUpTo(s, i))
  /\ (At(s, a, i).gen # None) = RunsGenerator(s, i)

\* A set of numbers up to k + 1 is the set of those up to k, and k + 1 if it
\* is one of them.
LEMMA OneMore ==
  ASSUME NEW k \in Nat, NEW Q \in SUBSET (1..(k + 1)), NEW P, P = Q \cap 1..k
  PROVE  /\ Cardinality(P) \in Nat
         /\ Cardinality(Q) = Cardinality(P) + (IF k + 1 \in Q THEN 1 ELSE 0)
<1>1. IsFiniteSet(1..k) /\ P \in SUBSET (1..k)
  BY FS_Interval
<1>2. IsFiniteSet(P)
  BY <1>1, FS_Subset
<1>3. Cardinality(P) \in Nat
  BY <1>2, FS_CardinalityType
<1>4. k + 1 \notin P /\ \A j \in 1..(k + 1) : j \in 1..k \/ j = k + 1
  BY <1>1
<1>5. CASE k + 1 \in Q
  <2>1. Q = P \cup {k + 1}
    BY <1>4, <1>5
  <2>2. Cardinality(P \cup {k + 1}) = Cardinality(P) + 1
    BY <1>2, <1>4, FS_AddElement
  <2>3. QED
    BY <1>3, <1>5, <2>1, <2>2
<1>6. CASE k + 1 \notin Q
  <2>1. Q = P
    BY <1>4, <1>6
  <2>2. QED
    BY <1>3, <1>6, <2>1
<1>7. QED
  BY <1>5, <1>6, <1>3

\* One frame more is counted as Fits says.
LEMMA CountsStep ==
  ASSUME NEW s, NEW a, Rooted(s), Chain(s, a),
         NEW k \in 1..Len(s), k + 1 <= Len(s), Counts(s, a, k)
  PROVE  Counts(s, a, k + 1)
<1> DEFINE fr == s[k + 1]
           b == At(s, a, k + 1)
<1>1. k \in Nat /\ Len(s) \in Nat /\ k + 1 \in 1..Len(s) /\ k # Len(s) /\ k + 1 \in 1..(k + 1)
  BY DEF Rooted
<1>2. At(s, a, k) = fr.before
  BY <1>1 DEF At
<1>3. Fits(fr, b)
  BY <1>1 DEF Chain, At
<1>4. /\ CallsUpTo(s, k + 1) \in SUBSET (1..(k + 1))
      /\ CallsUpTo(s, k) = CallsUpTo(s, k + 1) \cap 1..k
      /\ SilencesUpTo(s, k + 1) \in SUBSET (1..(k + 1))
      /\ SilencesUpTo(s, k) = SilencesUpTo(s, k + 1) \cap 1..k
  BY <1>1 DEF CallsUpTo, SilencesUpTo
<1>5. /\ k + 1 \in CallsUpTo(s, k + 1) <=> fr.kind \in CallKinds
      /\ k + 1 \in SilencesUpTo(s, k + 1) <=> Silences(fr)
  BY <1>1 DEF CallsUpTo, SilencesUpTo
<1>6. RunsGenerator(s, k + 1) <=> RunsGenerator(s, k) \/ (fr.kind = "call" /\ fr.fn \in Generators)
  BY <1>1 DEF RunsGenerator
<1>7. b.depth = Cardinality(CallsUpTo(s, k + 1))
  <2>1. Cardinality(CallsUpTo(s, k + 1)) = Cardinality(CallsUpTo(s, k))
          + (IF k + 1 \in CallsUpTo(s, k + 1) THEN 1 ELSE 0)
    BY <1>1, <1>4, OneMore
  <2>2. b.depth = fr.before.depth + (IF fr.kind \in CallKinds THEN 1 ELSE 0)
    BY <1>3 DEF Fits
  <2>3. QED
    BY <1>2, <1>5, <2>1, <2>2 DEF Counts
<1>8. b.quiet = Cardinality(SilencesUpTo(s, k + 1))
  <2>1. Cardinality(SilencesUpTo(s, k + 1)) = Cardinality(SilencesUpTo(s, k))
          + (IF k + 1 \in SilencesUpTo(s, k + 1) THEN 1 ELSE 0)
    BY <1>1, <1>4, OneMore
  <2>2. b.quiet = fr.before.quiet + (IF Silences(fr) THEN 1 ELSE 0)
    BY <1>3 DEF Fits, Silences
  <2>3. QED
    BY <1>2, <1>5, <2>1, <2>2 DEF Counts
<1>9. (b.gen # None) = RunsGenerator(s, k + 1)
  <2>1. b.gen = IF fr.kind = "call" /\ fr.fn \in Generators THEN fr.fn ELSE fr.before.gen
    BY <1>3 DEF Fits
  <2>2. fr.fn \in Generators => fr.fn # None
    BY FnKinds, DistinctValues
  <2>3. (fr.before.gen # None) = RunsGenerator(s, k)
    BY <1>2 DEF Counts
  <2>4. CASE fr.kind = "call" /\ fr.fn \in Generators
    BY <1>6, <2>1, <2>2, <2>4 DEF RunsGenerator
  <2>5. CASE ~(fr.kind = "call" /\ fr.fn \in Generators)
    <3>1. b.gen = fr.before.gen
      BY <2>1, <2>5
    <3>2. RunsGenerator(s, k + 1) = RunsGenerator(s, k)
      BY <1>6, <2>5 DEF RunsGenerator
    <3>3. QED
      BY <2>3, <3>1, <3>2
  <2>6. QED
    BY <2>4, <2>5
<1>10. QED
  BY <1>7, <1>8, <1>9 DEF Counts

\* So the present activation counts all frames.
LEMMA CountsAll ==
  ASSUME NEW s, NEW a, Rooted(s), Chain(s, a)
  PROVE  Counts(s, a, Len(s))
<1> DEFINE n == Len(s) - 1
           T == {k \in 0..n : Counts(s, a, k + 1)}
<1>1. Len(s) \in Nat /\ n \in Nat /\ 1 \in 1..Len(s)
  BY DEF Rooted
<1>2. Counts(s, a, 1)
  <2>1. s[1].kind \in {"top", "stopping"} /\ AtRest(s[1].before)
    BY <1>1 DEF Rooted
  <2>2. Fits(s[1], At(s, a, 1))
    BY <1>1 DEF Chain, At
  <2>3. At(s, a, 1).depth = 0 /\ At(s, a, 1).quiet = 0 /\ At(s, a, 1).gen = None
    BY <2>1, <2>2 DEF Fits, AtRest, CallKinds, QuietKinds
  <2>4. CallsUpTo(s, 1) = {} /\ SilencesUpTo(s, 1) = {} /\ RunsGenerator(s, 1) = FALSE
    BY <2>1 DEF CallsUpTo, SilencesUpTo, RunsGenerator, Silences, CallKinds, QuietKinds
  <2>5. QED
    BY <2>3, <2>4, FS_EmptySet DEF Counts
<1>3. 0 \in T
  BY <1>1, <1>2
<1>4. ASSUME NEW k \in 0..n, k \in T, k + 1 <= n PROVE k + 1 \in T
  <2>1. k + 1 \in 1..Len(s) /\ (k + 1) + 1 <= Len(s) /\ k + 1 \in 0..n
    BY <1>1, <1>4
  <2>2. Counts(s, a, (k + 1) + 1)
    BY <1>4, <2>1, CountsStep
  <2>3. QED
    BY <2>1, <2>2
<1>5. T \in SUBSET (0..n)
  OBVIOUS
<1>6. n \in 0..n /\ n + 1 = Len(s)
  BY <1>1
<1>7. n \in T
  <2> HIDE DEF T, n
  <2>1. T = 0..n
    BY <1>1, <1>3, <1>4, <1>5, InductionUpTo
  <2>2. QED
    BY <1>6, <2>1
<1>8. QED
  BY <1>6, <1>7

\* Whatever calls, callbacks and errors went before: in_error_handler,
\* autoload_active and hook_stack mark exactly the callbacks under way, so no
\* error leaves one set and none re-enters; call_depth, the suppression level
\* and the generator buffer are those of the frames on the Rust stack.
\* (Programs without braced namespaces and failing closure calls.)
THEOREM GuardsAreExact == Restoring => (Spec => []GuardsMatchFrames)
<1>1. SUFFICES ASSUME Restoring PROVE Spec => []GuardsMatchFrames
  OBVIOUS
<1>2. Init => MInv
  BY InitMarks
<1>3. MInv /\ [Next]_vars => MInv'
  BY <1>1, StepMarks
<1>4. MInv => GuardsMatchFrames
  <2>1. SUFFICES ASSUME MInv PROVE GuardsMatchFrames
    OBVIOUS
  <2>2. Counts(native, Activation, Len(native))
    BY <2>1, CountsAll DEF MInv, IInv, Stacked
  <2>3. At(native, Activation, Len(native)) = Activation
    BY DEF At
  <2>4. /\ depth = Cardinality(CallsUpTo(native, Len(native)))
        /\ quiet = Cardinality(SilencesUpTo(native, Len(native)))
        /\ (gen # None) = RunsGenerator(native, Len(native))
    BY <2>2, <2>3, Fields DEF Counts
  <2>5. CallsUpTo(native, Len(native)) = PlacesIn(native, CallKinds)
    BY DEF CallsUpTo, PlacesIn
  <2>6. QED
    BY <2>1, <2>4, <2>5 DEF GuardsMatchFrames, MInv, SilencesUpTo, RunsGenerator
<1>5. QED
  BY <1>2, <1>3, <1>4, PTL DEF Spec

----------------------------------------------------------------------------
(* Exceptions. *)

\* The frames of Rust functions that drop the error of the PHP code they have
\* called, or hold one while other PHP code runs.
DropKinds == {"autoload", "usort", "suppress", "tolerant", "writeback"}

\* The programs without those: every error is handed on at once.
PassErrorsOn ==
  Features \cap {"autoload", "usort", "shutdown", "suppress", "tolerant", "byref"} = {}

\* A Rust stack without frames of the kinds K: only its first frame is the
\* script's.
Orderly(s, K) ==
  /\ (\E S : s \in Seq(S)) /\ Len(s) > 0
  /\ \A i \in 1..Len(s) :
       /\ {"kind", "flow"} \subseteq DOMAIN s[i]
       /\ s[i].kind \notin K
       /\ s[i].flow \in {"run", "ret"}
       /\ s[i].kind \in {"top", "stopping"} <=> i = 1

LEMMA OrderlyPush ==
  ASSUME NEW K, NEW s, Orderly(s, K),
         NEW fr, {"kind", "flow"} \subseteq DOMAIN fr, fr.flow \in {"run", "ret"},
         fr.kind \notin K, fr.kind \notin {"top", "stopping"}
  PROVE  Orderly(Append(s, fr), K)
<1>1. PICK S : s \in Seq(S)
  BY DEF Orderly
<1>2. s \in Seq(S \cup {fr}) /\ fr \in S \cup {fr}
  BY <1>1
<1>3. Append(s, fr) \in Seq(S \cup {fr}) /\ Len(Append(s, fr)) = Len(s) + 1
      /\ Append(s, fr)[Len(s) + 1] = fr /\ \A i \in 1..Len(s) : Append(s, fr)[i] = s[i]
  BY <1>2
<1>4. Len(s) \in Nat
  BY <1>1
<1>5. QED
  BY <1>3, <1>4 DEF Orderly

LEMMA OrderlyPop ==
  ASSUME NEW K, NEW s, Orderly(s, K), Last(s).kind \notin {"top", "stopping"}
  PROVE  Orderly(Front(s), K)
<1>1. PICK S : s \in Seq(S)
  BY DEF Orderly
<1>2. Len(s) > 1 /\ Len(s) \in Nat
  BY <1>1 DEF Orderly, Last
<1>3. Front(s) \in Seq(S) /\ Len(Front(s)) = Len(s) - 1
      /\ \A i \in 1..Len(Front(s)) : Front(s)[i] = s[i]
  BY <1>1, <1>2 DEF Front
<1>4. QED
  BY <1>2, <1>3 DEF Orderly

LEMMA OrderlyTop ==
  ASSUME NEW K, NEW s, Orderly(s, K)
  PROVE  /\ Last(s).kind \notin K
         /\ Last(s).flow \in {"run", "ret"} /\ {"kind", "flow"} \subseteq DOMAIN Last(s)
<1>1. Len(s) \in 1..Len(s)
  BY DEF Orderly
<1>2. QED
  BY <1>1 DEF Orderly, Last

\* A new frame of any other kind keeps the stack orderly.
LEMMA FramePush ==
  ASSUME NEW K, NEW s, Orderly(s, K), NEW kind, NEW fn, NEW fin,
         kind \notin K, kind \notin {"top", "stopping"}
  PROVE  Orderly(Append(s, Frame(kind, fn, fin, "run")), K)
<1> DEFINE fr == Frame(kind, fn, fin, "run")
<1>1. fr.kind = kind /\ fr.flow = "run" /\ {"kind", "flow"} \subseteq DOMAIN fr
  BY DEF Frame
<1> HIDE DEF fr
<1>2. Orderly(Append(s, fr), K)
  BY <1>1, OrderlyPush
<1>3. QED
  BY <1>2 DEF fr

\* So does a call, refused, failed or entered.
LEMMA InvokeOrderly ==
  ASSUME NEW K, "call" \notin K, NEW f, NEW under, Orderly(under, K), Invoke(f, under)
  PROVE  Orderly(native', K)
<1>1. CASE TooDeep(under) \/ BindFails(f, under)
  <2>1. native' = under
    BY <1>1 DEF TooDeep, BindFails
  <2>2. QED
    BY <2>1
<1>2. CASE EnterWalker(f, under)
  BY <1>2, FramePush DEF EnterWalker
<1>3. QED
  BY <1>1, <1>2 DEF Invoke

\* Kinds of frames that a program without their features never has.
Absent(K) ==
  /\ "writeback" \in K /\ "byref" \notin Features
  /\ K \subseteq DropKinds \cup {"stopping"} /\ K \cap Features = {}

\* In a program without the features of the kinds K, every step but the end
\* of the script keeps the stack free of them.
LEMMA OrderlyStep ==
  ASSUME NEW K, Absent(K), Orderly(native, K), [Next]_vars, ~EndScript
  PROVE  Orderly(native', K)
<1>1. K \cap {"call", "fast", "try", "catch", "finally", "handler", "hook", "quiet",
              "include", "block_namespace", "class_init"} = {}
  BY DEF Absent, DropKinds
<1>2. ASSUME NEW kind, NEW fn, NEW fin, kind \notin K, kind \notin {"top", "stopping"},
             native' = Append(native, Frame(kind, fn, fin, "run"))
      PROVE  Orderly(native', K)
  BY <1>2, FramePush
<1>3. ASSUME NEW f \in Fn, Call(f) \/ NextCallback(f) \/ Shutdown(f)
      PROVE  Orderly(native', K)
  BY <1>1, <1>3, InvokeOrderly DEF Call, NextCallback, Shutdown
<1>4. ASSUME NEW f \in Fn, FastCall(f)
      PROVE  Orderly(native', K)
  <2>1. native' = Append(native, Frame("fast", f, FALSE, "run"))
    BY <1>4 DEF FastCall, EnterFast
  <2>2. "fast" \notin K /\ "fast" \notin {"top", "stopping"}
    BY <1>1
  <2>3. QED
    BY <1>2, <2>1, <2>2
<1>5. ASSUME NEW f \in Fn, Warn(f) \/ Autoload(f) \/ UserSort(f) \/ PropHook(f)
      PROVE  Orderly(native', K)
  <2>1. PICK kind \in {"handler", "autoload", "usort", "hook"} :
          /\ kind \notin K
          /\ Invoke(f, Append(native, Frame(kind, f, FALSE, "run")))
    BY <1>1, <1>5 DEF Warn, Autoload, UserSort, PropHook, Absent
  <2>2. Orderly(Append(native, Frame(kind, f, FALSE, "run")), K)
    BY <2>1, FramePush
  <2>3. QED
    BY <1>1, <2>1, <2>2, InvokeOrderly
<1>6. ASSUME NEW fin \in BOOLEAN, EnterTry(fin)
      PROVE  Orderly(native', K)
  <2>1. native' = Append(native, Frame("try", None, fin, "run"))
    BY <1>6 DEF EnterTry
  <2>2. "try" \notin K /\ "try" \notin {"top", "stopping"}
    BY <1>1
  <2>3. QED
    BY <1>2, <2>1, <2>2
<1>7. CASE \/ Quiet \/ Include \/ BlockNamespace \/ ClassInit
           \/ \E kind \in {"suppress", "tolerant"} : Tolerate(kind)
  <2>1. PICK kind \in {"quiet", "include", "block_namespace", "class_init", "suppress",
                       "tolerant"} :
          /\ kind \notin K /\ native' = Append(native, Frame(kind, None, FALSE, "run"))
    BY <1>1, <1>7 DEF Quiet, Include, BlockNamespace, ClassInit, Swap, Tolerate, Absent
  <2>2. QED
    BY <1>2, <2>1
<1>8. CASE Raise \/ Return \/ Stop \/ Over \/ UNCHANGED vars
  <2>1. native' = native
    BY <1>8 DEF Raise, Return, Stop, Over, vars
  <2>2. QED
    BY <2>1
<1>9. CASE \/ LeaveCall \/ EndWriteBack \/ EndTry \/ CatchMatches \/ LeaveTry \/ EndFinally
           \/ EndHandler \/ EndAutoload \/ EndSort \/ EndHook \/ EndQuiet \/ EndTolerate
           \/ EndSwap \/ EndBlockNamespace
  <2>1. Top.kind \notin {"top", "stopping"}
    BY <1>9 DEF LeaveCall, EndWriteBack, EndTry, CatchMatches, LeaveTry, EndFinally,
                EndHandler, EndAutoload, EndSort, EndHook, EndQuiet, EndTolerate, EndSwap,
                EndBlockNamespace, CallKinds
  <2>2. Orderly(Popped, K) /\ Top.flow \in {"run", "ret"} /\ {"kind", "flow"} \subseteq DOMAIN Top
    BY <2>1, OrderlyPop, OrderlyTop DEF Popped, Top
  <2>3. CASE native' = Popped
    BY <2>2, <2>3
  <2>4. CASE EndTry
    <3> DEFINE fr == [Top EXCEPT !.kind = "finally", !.flow = ctl]
    <3>1. fr.kind = "finally" /\ fr.flow = ctl /\ DOMAIN fr = DOMAIN Top
      BY <2>2
    <3>2. native' = Popped \/ native' = Append(Popped, fr)
      BY <2>4 DEF EndTry
    <3>3. ctl \in {"run", "ret"}
      BY <2>4 DEF EndTry
    <3> HIDE DEF fr
    <3>4. Orderly(Append(Popped, fr), K)
      BY <1>1, <2>2, <3>1, <3>3, OrderlyPush
    <3>5. QED
      BY <2>2, <3>2, <3>4
  <2>5. CASE CatchMatches
    <3> DEFINE fr == [Top EXCEPT !.kind = "catch"]
    <3>1. fr.kind = "catch" /\ fr.flow = Top.flow /\ DOMAIN fr = DOMAIN Top
      BY <2>2
    <3>2. native' = Append(Popped, fr)
      BY <2>5 DEF CatchMatches
    <3> HIDE DEF fr
    <3>3. Orderly(Append(Popped, fr), K)
      BY <1>1, <2>2, <3>1, OrderlyPush
    <3>4. QED
      BY <3>2, <3>3
  <2>6. QED
    BY <1>9, <2>3, <2>4, <2>5
       DEF LeaveCall, CallResult, WriteBack, EndWriteBack, LeaveTry, EndFinally, EndHandler,
           EndAutoload, EndSort, EndHook, EndQuiet, EndTolerate, EndSwap, EndBlockNamespace,
           Absent
<1>10. QED
  BY <1>3, <1>4, <1>5, <1>6, <1>7, <1>8, <1>9 DEF Next

\* The end of the script, which makes its frame that of the shutdown functions.
LEMMA OrderlyEnd ==
  ASSUME NEW K, Orderly(native, K), EndScript
  PROVE  /\ Len(native) = 1
         /\ native' = native \/ (Len(native') = 1 /\ Top'.kind = "stopping" /\ ctl' = "run")
         /\ "stopping" \notin K => Orderly(native', K)
<1>1. Top.kind = "top" /\ Len(native) \in 1..Len(native) /\ Top = native[Len(native)]
  BY DEF EndScript, Orderly, Top, Last
<1>2. Len(native) = 1 /\ {"kind", "flow"} \subseteq DOMAIN Top /\ Top.flow \in {"run", "ret"}
  BY <1>1 DEF Orderly
<1> DEFINE fr == [Top EXCEPT !.kind = "stopping"]
<1>3. fr.kind = "stopping" /\ fr.flow = Top.flow /\ DOMAIN fr = DOMAIN Top
  BY <1>2
<1>4. native' = native \/ (native' = <<fr>> /\ ctl' = "run")
  BY DEF EndScript
<1> HIDE DEF fr
<1>5. <<fr>> \in Seq({fr}) /\ Len(<<fr>>) = 1 /\ <<fr>>[1] = fr
  OBVIOUS
<1>6. ASSUME NEW t, t \in Seq({fr}), Len(t) = 1, t[1] = fr, "stopping" \notin K
      PROVE  Orderly(t, K)
  BY <1>2, <1>3, <1>6 DEF Orderly
<1>7. native' = <<fr>> => Len(native') = 1 /\ Top'.kind = "stopping"
  BY <1>3, <1>5 DEF Top, Last
<1>8. QED
  BY <1>2, <1>4, <1>5, <1>6, <1>7

\* The script's own frame is on an orderly stack.
LEMMA InitOrderly ==
  ASSUME Init, NEW K, "top" \notin K
  PROVE  Orderly(native, K)
<1> DEFINE fr == Frame("top", None, FALSE, "run")
<1>1. fr.kind = "top" /\ fr.flow = "run" /\ {"kind", "flow"} \subseteq DOMAIN fr
  BY DEF Frame
<1>2. native = <<fr>>
  BY DEF Init
<1> HIDE DEF fr
<1>3. native \in Seq({fr}) /\ Len(native) = 1 /\ native[1] = fr
  BY <1>2
<1>4. QED
  BY <1>1, <1>3 DEF Orderly

\* In those programs an exception is pending exactly while it is in flight.
\* That is inductive only together with which frames can be on the Rust stack.
EInv ==
  /\ ControlOK
  /\ (thrown # None) <=> (err = "throw")
  /\ \/ Orderly(native, DropKinds \cup {"stopping"})
     \/ Top.kind = "stopping" /\ ctl \in {"run", "over"}

\* The part of EInv that a step of a running script must keep.
Paired == ControlOK /\ ((thrown # None) <=> (err = "throw"))

\* A call sets both or neither of sentinel and exception.
LEMMA InvokePaired ==
  ASSUME NEW f, NEW under, Paired, thrown = None, Invoke(f, under)
  PROVE  Paired'
<1>1. CASE TooDeep(under)
  BY <1>1, DistinctValues DEF TooDeep, Fail, Paired, ControlOK
<1>2. CASE BindFails(f, under)
  BY <1>2, DistinctValues DEF BindFails, ThrowErrorAt, Fail, Paired, ControlOK
<1>3. CASE EnterWalker(f, under)
  BY <1>3, DistinctValues DEF EnterWalker, EnterCommon, Paired, ControlOK
<1>4. QED
  BY <1>1, <1>2, <1>3 DEF Invoke

\* Every step keeps sentinel and exception together.
LEMMA PairedStep ==
  ASSUME PassErrorsOn, EInv, [Next]_vars
  PROVE  Paired'
<1>1. Paired /\ ControlOK /\ ((thrown # None) <=> (err = "throw"))
  BY DEF EInv, Paired
<1>2. Running => thrown = None /\ err = None
  BY <1>1, DistinctValues DEF Running, ControlOK
<1>3. Top.kind \notin DropKinds
  BY OrderlyTop DEF EInv, Top, DropKinds
<1>4. ASSUME NEW f \in Fn, Call(f) \/ Warn(f) \/ Autoload(f) \/ UserSort(f) \/ PropHook(f)
      PROVE  Paired'
  <2>1. Running /\ \E under : Invoke(f, under)
    BY <1>4 DEF Call, Warn, Autoload, UserSort, PropHook
  <2>2. QED
    BY <1>1, <1>2, <2>1, InvokePaired
<1>5. ASSUME NEW f \in Fn, FastCall(f) PROVE Paired'
  BY <1>1, <1>2, <1>5, DistinctValues DEF FastCall, EnterFast, EnterCommon, Paired, ControlOK
<1>6. \A f \in Fn : ~NextCallback(f) /\ ~Shutdown(f)
  BY <1>3 DEF NextCallback, Shutdown, PassErrorsOn, DropKinds
<1>7. ~EndAutoload /\ ~EndSort /\ ~EndTolerate /\ ~EndWriteBack
  BY <1>3 DEF EndAutoload, EndSort, EndTolerate, EndWriteBack, DropKinds
<1>8. CASE Raise \/ Return
  BY <1>1, <1>2, <1>8, DistinctValues DEF Raise, Return, Fail, ThrowErrorAt, Paired, ControlOK
<1>9. CASE LeaveCall
  <2>1. CallResult
    BY <1>9 DEF LeaveCall, WriteBack, PassErrorsOn
  <2>2. QED
    BY <1>1, <1>9, <2>1, DistinctValues
       DEF LeaveCall, CallResult, ThrowErrorAt, Fail, Paired, ControlOK
<1>10. CASE EndTry \/ CatchMatches \/ LeaveTry \/ EndFinally
  <2>1. Top.kind # "stopping"
    BY <1>10 DEF EndTry, CatchMatches, LeaveTry, EndFinally
  <2>2. Top.flow \in {"run", "ret"}
    BY <2>1, OrderlyTop DEF EInv, Top
  <2>3. QED
    BY <1>1, <1>10, <2>2, DistinctValues
       DEF EndTry, CatchMatches, LeaveTry, EndFinally, Paired, ControlOK
<1>11. CASE EndHandler \/ EndHook \/ EndQuiet \/ EndSwap \/ EndBlockNamespace
  BY <1>1, <1>11, DistinctValues
     DEF EndHandler, EndHook, EndQuiet, EndSwap, EndBlockNamespace, Paired, ControlOK
<1>12. CASE EndScript
  BY <1>1, <1>12, DistinctValues DEF EndScript, Paired, ControlOK
<1>13. CASE Stop
  <2>1. ctl = "run"
    BY <1>13, OrderlyTop DEF Stop, EInv, Top
  <2>2. QED
    BY <1>1, <1>13, <2>1, DistinctValues DEF Stop, Paired, ControlOK
<1>14. CASE \/ \E fin \in BOOLEAN : EnterTry(fin)
            \/ \E kind \in {"suppress", "tolerant"} : Tolerate(kind)
            \/ Quiet \/ Include \/ BlockNamespace \/ ClassInit \/ Over \/ UNCHANGED vars
  <2>1. UNCHANGED <<thrown, ctl, err>>
    BY <1>14 DEF EnterTry, Tolerate, Quiet, Include, BlockNamespace, ClassInit, Swap, Over, vars
  <2>2. QED
    BY <1>1, <2>1 DEF Paired, ControlOK
<1>15. QED
  BY <1>4, <1>5, <1>6, <1>7, <1>8, <1>9, <1>10, <1>11, <1>12, <1>13, <1>14 DEF Next

\* Every step keeps the invariant.
LEMMA StepE ==
  ASSUME PassErrorsOn, EInv, [Next]_vars
  PROVE  EInv'
<1> DEFINE K == DropKinds \cup {"stopping"}
<1>1. Paired'
  BY PairedStep
<1>2. CASE EndScript
  <2>1. Top.kind # "stopping"
    BY <1>2 DEF EndScript
  <2>2. Orderly(native, K)
    BY <2>1 DEF EInv
  <2>3. native' = native \/ (Top'.kind = "stopping" /\ ctl' = "run")
    BY <1>2, <2>2, OrderlyEnd
  <2>4. Orderly(native', K) \/ (Top'.kind = "stopping" /\ ctl' \in {"run", "over"})
    BY <2>2, <2>3
  <2>5. QED
    BY <1>1, <2>4 DEF EInv, Paired
<1>3. CASE ~EndScript /\ Orderly(native, K)
  <2>1. Absent(K)
    <3>1. {"writeback", "stopping"} \cap Features = {}
      BY FeatureNames DEF AllFeatures
    <3>2. QED
      BY <3>1 DEF Absent, PassErrorsOn, DropKinds
  <2>2. Orderly(native', K)
    BY <1>3, <2>1, OrderlyStep
  <2>3. QED
    BY <1>1, <2>2 DEF EInv, Paired
<1>4. CASE ~EndScript /\ Top.kind = "stopping" /\ ctl \in {"run", "over"}
  <2>1. ~Running /\ OnWalker = FALSE
    BY <1>4 DEF Running, OnWalker, CallbackKinds
  <2>2. Stop \/ Over \/ UNCHANGED vars
    BY <1>4, <2>1
       DEF Next, Call, FastCall, Warn, Autoload, PropHook, Shutdown, UserSort, NextCallback,
           EnterTry, Tolerate, Raise, Return, LeaveCall, EndWriteBack, EndTolerate, EndTry,
           CatchMatches, LeaveTry, EndFinally, EndHandler, EndAutoload, EndSort, EndHook,
           Quiet, EndQuiet, Include, BlockNamespace, ClassInit, EndSwap, EndBlockNamespace,
           CallKinds, PassErrorsOn
  <2>3. Top' = Top /\ ctl' \in {"run", "over"}
    BY <1>4, <2>2 DEF Stop, Over, vars, Top
  <2>4. QED
    BY <1>1, <1>4, <2>3 DEF EInv, Paired
<1>5. QED
  BY <1>2, <1>3, <1>4 DEF EInv

\* Nothing is pending when the script starts.
LEMMA InitE == Init => EInv
<1>1. SUFFICES ASSUME Init PROVE EInv
  OBVIOUS
<1>2. Orderly(native, DropKinds \cup {"stopping"})
  BY <1>1, InitOrderly DEF DropKinds
<1>3. QED
  BY <1>1, <1>2, DistinctValues DEF Init, EInv, ControlOK

\* Every run of a program that passes errors on keeps the invariant.
LEMMA ExceptionsPaired == PassErrorsOn => (Spec => []EInv)
<1>1. SUFFICES ASSUME PassErrorsOn PROVE Spec => []EInv
  OBVIOUS
<1>2. EInv /\ [Next]_vars => EInv'
  BY <1>1, StepE
<1>3. QED
  BY <1>2, InitE, PTL DEF Spec

\* In every program in which no Rust function drops the error of its callback
\* (autoloader, sort callback, shutdown function, `@`, a tolerant evaluation)
\* or holds one while by-reference arguments are written back, whatever else
\* it does: no exception stays pending while code runs.
THEOREM NothingStaysPending == PassErrorsOn => (Spec => []NoStaleException)
<1>1. EInv => NoStaleException
  BY DistinctValues DEF EInv, ControlOK, NoStaleException
<1>2. QED
  BY <1>1, ExceptionsPaired, PTL

\* In every program that writes back no by-reference argument, and may drop
\* errors wherever it likes: an Err that stands for a throw has its exception
\* at hand.  Whoever drops an error, raises another or catches one changes both
\* or leaves an exception too many, never one too few.
THEOREM ThrowCarriesException == "byref" \notin Features => (Spec => []ThrowHasException)
<1>1. SUFFICES ASSUME "byref" \notin Features PROVE Spec => []ThrowHasException
  OBVIOUS
<1> DEFINE K == {"writeback"}
           Inv == Orderly(native, K) /\ ThrowHasException
<1>2. Init => Inv
  BY InitOrderly, DistinctValues DEF Init, ThrowHasException
<1>3. Inv /\ [Next]_vars => Inv'
  <2>1. SUFFICES ASSUME Orderly(native, K), ThrowHasException, [Next]_vars
                 PROVE  Orderly(native', K) /\ ThrowHasException'
    OBVIOUS
  <2>2. Absent(K)
    BY <1>1, FeatureNames DEF Absent, DropKinds, AllFeatures
  <2>3. Orderly(native', K)
    BY <2>1, <2>2, OrderlyStep, OrderlyEnd
  <2>4. ASSUME NEW f, NEW under, Invoke(f, under) PROVE ThrowHasException'
    BY <2>4, DistinctValues
       DEF Invoke, TooDeep, BindFails, EnterWalker, EnterCommon, Fail, ThrowErrorAt,
           ThrowHasException
  <2>5. ASSUME NEW f, \/ Call(f) \/ Warn(f) \/ Autoload(f) \/ PropHook(f)
                      \/ Shutdown(f) \/ UserSort(f) \/ NextCallback(f)
        PROVE  ThrowHasException'
    BY <2>4, <2>5 DEF Call, Warn, Autoload, PropHook, Shutdown, UserSort, NextCallback
  <2>6. ASSUME NEW f, FastCall(f) PROVE ThrowHasException'
    BY <2>6, DistinctValues DEF FastCall, EnterFast, EnterCommon, ThrowHasException
  <2>7. ASSUME Raise \/ LeaveCall \/ EndAutoload PROVE ThrowHasException'
    BY <1>1, <2>1, <2>7, DistinctValues
       DEF Raise, LeaveCall, CallResult, WriteBack, EndAutoload, Fail, ThrowErrorAt,
           ThrowHasException
  <2>8. ~EndWriteBack
    BY <2>1, OrderlyTop DEF EndWriteBack, Top
  <2>9. ASSUME CatchMatches \/ EndSort \/ EndTolerate \/ EndScript \/ Stop
        PROVE  ThrowHasException'
    BY <2>9, DistinctValues
       DEF CatchMatches, EndSort, EndTolerate, EndScript, Stop, ThrowHasException
  <2>10. ASSUME UNCHANGED <<thrown, err>> PROVE ThrowHasException'
    BY <2>1, <2>10 DEF ThrowHasException
  <2>11. ASSUME \/ \E fin \in BOOLEAN : EnterTry(fin)
                \/ \E kind \in {"suppress", "tolerant"} : Tolerate(kind)
                \/ Return \/ EndTry \/ LeaveTry \/ EndFinally \/ EndHandler \/ EndHook
                \/ Quiet \/ EndQuiet \/ Include \/ BlockNamespace \/ ClassInit \/ EndSwap
                \/ EndBlockNamespace \/ Over \/ UNCHANGED vars
         PROVE  ThrowHasException'
    BY <2>10, <2>11
       DEF EnterTry, Tolerate, Return, EndTry, LeaveTry, EndFinally, EndHandler, EndHook,
           Quiet, EndQuiet, Include, BlockNamespace, ClassInit, Swap, EndSwap,
           EndBlockNamespace, Over, vars
  <2>12. QED
    BY <2>1, <2>3, <2>5, <2>6, <2>7, <2>8, <2>9, <2>11 DEF Next
<1>4. QED
  BY <1>2, <1>3, PTL DEF Spec

\* What the invariant says of a step that neither belongs to running code nor
\* catches: an error under way stays under way.
LEMMA ErrorsPass ==
  ASSUME PassErrorsOn, EInv, Next, ctl = "err", ~CatchMatches,
         Top.kind \notin {"top", "stopping"}
  PROVE  (err' = err /\ ctl' = "err") \/ LeaveCall
<1>1. ~Running /\ OnWalker = FALSE
  BY DEF Running, OnWalker
<1>2. Top.kind \notin DropKinds
  BY OrderlyTop DEF EInv, Top, DropKinds
<1>3. QED
  BY <1>1, <1>2
     DEF Next, Call, FastCall, Warn, Autoload, PropHook, Shutdown, UserSort, NextCallback,
         EnterTry, Tolerate, Raise, Return, EndWriteBack, EndTolerate, EndTry, LeaveTry,
         EndFinally, EndHandler, EndAutoload, EndSort, EndHook, Quiet, EndQuiet, Include,
         BlockNamespace, ClassInit, EndSwap, EndBlockNamespace, EndScript, Stop, Over,
         DropKinds, vars

\* In every program that passes errors on, no catch block takes an exit or a
\* limit: what it takes is an exception.
THEOREM ExceptionsArePaired == PassErrorsOn => (Spec => OnlyExceptionsAreCaught)
<1>1. SUFFICES ASSUME PassErrorsOn PROVE Spec => OnlyExceptionsAreCaught
  OBVIOUS
<1>2. EInv /\ [Next]_vars =>
        [Top.kind = "try" /\ ctl = "err" /\ ctl' = "run" => err = "throw"]_vars
  <2>1. ASSUME EInv, Next, Top.kind = "try", ctl = "err", ctl' = "run"
        PROVE  err = "throw"
    <3>1. ~LeaveCall
      BY <2>1 DEF LeaveCall, CallKinds
    <3>2. CatchMatches
      BY <1>1, <2>1, <3>1, ErrorsPass
    <3>3. thrown # None
      BY <3>2, DistinctValues DEF CatchMatches
    <3>4. QED
      BY <2>1, <3>3 DEF EInv
  <2>2. QED
    BY <2>1
<1>3. Spec => []EInv
  BY <1>1, ExceptionsPaired
<1>4. QED
  BY <1>2, <1>3, PTL DEF Spec, OnlyExceptionsAreCaught

\* In those programs exit() ends the script: every Rust frame it passes hands
\* it on unchanged.
THEOREM ExitEndsScript == PassErrorsOn => (Spec => ExitHalts)
<1>1. SUFFICES ASSUME PassErrorsOn PROVE Spec => ExitHalts
  OBVIOUS
<1>2. EInv /\ [Next]_vars =>
        [err = "exit" => err' = "exit" \/ Top.kind \in {"top", "stopping"}]_vars
  <2>1. ASSUME EInv, Next, err = "exit", Top.kind \notin {"top", "stopping"}
        PROVE  err' = "exit"
    <3>1. ctl = "err" /\ thrown = None
      BY <2>1, DistinctValues DEF EInv, ControlOK
    <3>2. ~CatchMatches
      BY <3>1, DistinctValues DEF CatchMatches
    <3>3. CASE LeaveCall
      BY <1>1, <2>1, <3>1, <3>3 DEF LeaveCall, CallResult, WriteBack, PassErrorsOn
    <3>4. CASE ~LeaveCall
      BY <1>1, <2>1, <3>1, <3>2, <3>4, ErrorsPass
    <3>5. QED
      BY <3>3, <3>4
  <2>2. QED
    BY <2>1
<1>3. Spec => []EInv
  BY <1>1, ExceptionsPaired
<1>4. QED
  BY <1>2, <1>3, PTL DEF Spec, ExitHalts

=============================================================================
