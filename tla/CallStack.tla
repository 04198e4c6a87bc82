----------------------------- MODULE CallStack -----------------------------
(***************************************************************************)
(* The evaluator's dynamic state across calls, errors and callbacks.       *)
(*                                                                         *)
(* Eval keeps what the running PHP code can observe of its own activation  *)
(* (nesting depth, function name, arguments, scope, class, file and        *)
(* namespace, warning suppression, generator buffer) in fields that each   *)
(* Rust function sets before it runs PHP code and puts back afterwards.    *)
(* What a Rust frame has saved, and what it does when the code it runs     *)
(* returns or fails, is a record of `native`, the stack of those frames.   *)
(* `ctl` says how control moves: PHP code runs, a `return` is on its way   *)
(* out, or an Err is.                                                      *)
(***************************************************************************)
EXTENDS Naturals, Sequences, FiniteSets, SequencesExt

CONSTANTS
  Fn,          \* the program's functions, methods and closures
  Methods,     \* those that are methods; they all belong to one class
  Closures,    \* those that are closures
  Compiled,    \* those whose bodies run on the VM and are fast_callable
  Generators,  \* those whose bodies contain yield
  Prelude,     \* those declared by the engine's own prelude
  Elsewhere,   \* those declared in another file or namespace than the script
  Features,    \* what the program does besides calling, returning, throwing
  Cls,         \* the class of Methods
  File,        \* the definition context (file, namespace, use map) of
               \* Elsewhere; the script's own is None
  None, Exc, NullExc,
  MaxDepth,    \* MAX_CALL_DEPTH
  MaxNative    \* bound on nested Rust frames

AllFeatures == {"try", "handler", "autoload", "hook", "quiet", "include",
                "block_namespace", "class_init", "closure_bind", "shutdown",
                "exit", "byref", "usort", "suppress", "tolerant"}

ASSUME FnKinds ==
  /\ Methods \subseteq Fn /\ Closures \subseteq Fn
  /\ Compiled \subseteq Fn \ Closures /\ Generators \subseteq Fn \ Compiled
  /\ Prelude \subseteq Fn \ Closures /\ Elsewhere \subseteq Fn \ Prelude /\ Methods \cap Closures = {}
ASSUME Bounds == MaxDepth \in Nat /\ MaxNative \in Nat
ASSUME FeatureNames == Features \subseteq AllFeatures
ASSUME DistinctValues == /\ None \notin {"throw", "exit", "engine"} /\ None \notin Fn
                         /\ Exc # None /\ NullExc # None /\ Exc # NullExc

VARIABLES
  depth,      \* call_depth
  cur_fn, frames, cur_args, scopes,   \* stacks, by the function that pushed
  byref_ret,  \* length of that stack
  ctx,        \* cur_file, cur_ns, use_map: None is the script's own
  class, called,                      \* current_class, called_class
  quiet, prelude_depth,
  gen,        \* gen_buf: the generator that fills it, or None
  hooks,      \* hook_stack
  loading,    \* autoload_active is non-empty (one unknown class)
  handling,   \* in_error_handler
  thrown,     \* the in-flight exception, or None
  native,     \* Rust frames that will resume
  ctl,        \* "run", "ret", "err", "over"
  err         \* which error: "throw", "exit", "engine", or None

activation == <<depth, cur_fn, frames, cur_args, scopes, byref_ret, ctx, class,
                called, quiet, prelude_depth, gen>>
regs == <<activation, hooks, loading, handling>>
vars == <<regs, thrown, native, ctl, err>>

CallKinds == {"call", "fast"}
\* Rust functions that have called back: no PHP code runs in the frame itself.
CallbackKinds == {"handler", "autoload", "usort", "hook", "stopping"}
\* Evaluations with the suppression level raised.
QuietKinds == {"quiet", "suppress"}
\* Frames that run an expression, never a statement.
ExprKinds == QuietKinds \cup {"tolerant", "class_init", "writeback"}
FrameKinds == CallKinds \cup CallbackKinds \cup ExprKinds \cup
  {"top", "try", "catch", "finally", "include", "block_namespace"}

\* What the running code can observe of its activation.
Activation ==
  [depth |-> depth, cur_fn |-> cur_fn, frames |-> frames, cur_args |-> cur_args,
   scopes |-> scopes, byref_ret |-> byref_ret, ctx |-> ctx, class |-> class,
   called |-> called, quiet |-> quiet, prelude_depth |-> prelude_depth, gen |-> gen]

\* What a Rust frame remembers: fn is what it called; ctx, class, called and
\* gen are the values to put back; fin says that a try has a finally block;
\* flow is how the statements before that block, or the body before the
\* write-back, ended.  `before` is the activation at entry; no action reads
\* it, only properties do.
Frame(kind, fn, fin, flow) ==
  [kind |-> kind, fn |-> fn, fin |-> fin, flow |-> flow, ctx |-> ctx,
   class |-> class, called |-> called, gen |-> gen, before |-> Activation]

Top == Last(native)
Popped == Front(native)
Room == Len(native) < MaxNative

\* The function of the innermost call on the Rust stack s.
CallerIn(s) ==
  LET calls == {i \in 1..Len(s) : s[i].kind \in CallKinds}
  IN IF calls = {} THEN None
     ELSE s[CHOOSE i \in calls : \A j \in calls : j <= i].fn

\* The function whose body is running.
Caller == CallerIn(native)

\* PHP code, not a Rust frame waiting for a callback, has control.
Running == ctl = "run" /\ Top.kind \notin CallbackKinds

\* Above s runs code of the walker, which alone has try, isset(expr), `@`,
\* include and namespaces, and passes arguments by reference.
WalkerCode(s) ==
  Last(s).kind \notin CallbackKinds \cup {"fast"} /\ CallerIn(s) \notin Compiled

OnWalker == Running /\ WalkerCode(native)

TypeOK ==
  /\ depth \in 0..MaxDepth
  /\ \A s \in {cur_fn, frames, cur_args, scopes} : s \in Seq(Fn)
  /\ byref_ret \in Nat /\ quiet \in Nat /\ prelude_depth \in Nat
  /\ ctx \in {None, File} /\ class \in {None, Cls} /\ called \in {None, Cls}
  /\ gen \in {None} \cup Generators /\ hooks \in Seq(Methods)
  /\ loading \in BOOLEAN /\ handling \in BOOLEAN
  /\ thrown \in {None, Exc, NullExc}
  /\ \A i \in 1..Len(native) : native[i].kind \in FrameKinds
  /\ ctl \in {"run", "ret", "err", "over"}
  /\ err \in {None, "throw", "exit", "engine"} /\ (err # None <=> ctl = "err")

\* Eval::new, after the prelude is loaded.
Init ==
  /\ depth = 0 /\ cur_fn = <<>> /\ frames = <<>> /\ cur_args = <<>>
  /\ scopes = <<>> /\ byref_ret = 0 /\ ctx = None /\ class = None
  /\ called = None /\ quiet = 0 /\ prelude_depth = 0 /\ gen = None
  /\ hooks = <<>> /\ loading = FALSE /\ handling = FALSE /\ thrown = None
  /\ native = <<Frame("top", None, FALSE, "run")>>
  /\ ctl = "run" /\ err = None

----------------------------------------------------------------------------
(* Errors. *)

Fail(kind) == ctl' = "err" /\ err' = kind

\* throw_error: builds the exception by calling its constructor from depth d;
\* when that call is refused, the exception is null.
ThrowErrorAt(d) ==
  Fail("throw") /\ thrown' = IF d = MaxDepth THEN NullExc ELSE Exc

\* Mutant: the sentinel is returned before the exception is stored.
RaiseSentinelOnly ==
  /\ Running
  /\ Fail("throw") /\ UNCHANGED <<regs, native, thrown>>

\* `throw $e`, an engine error raised as an exception, exit(), or an error
\* that is not an exception (step limit, output limit).
Raise ==
  /\ Running
  /\ \/ Fail("throw") /\ thrown' = Exc
     \/ ThrowErrorAt(depth)
     \/ "exit" \in Features /\ Fail("exit") /\ UNCHANGED thrown
     \/ Fail("engine") /\ UNCHANGED thrown
  /\ UNCHANGED <<regs, native>>

----------------------------------------------------------------------------
(* Calls.  under is the native stack the callee's frame goes on: `native`, *)
(* or `native` with the frame of the Rust function that makes a callback.  *)

\* enter_call refuses the call; nothing has been pushed.
TooDeep(under) ==
  /\ depth = MaxDepth
  /\ Fail("engine") /\ native' = under
  /\ UNCHANGED <<activation, thrown>>

\* bind_params fails (too few arguments, wrong type).  call_user and the
\* method paths undo what they pushed; call_closure leaves with `?`.
BindFails(f, under) ==
  /\ depth < MaxDepth
  /\ ThrowErrorAt(depth + 1) /\ native' = under
  /\ IF f \in Closures
     THEN /\ "closure_bind" \in Features
          /\ depth' = depth + 1 /\ cur_fn' = Append(cur_fn, f)
          /\ frames' = Append(frames, f) /\ cur_args' = Append(cur_args, f)
     ELSE UNCHANGED <<depth, cur_fn, frames, cur_args>>
  /\ UNCHANGED <<scopes, byref_ret, ctx, class, called, quiet, prelude_depth, gen>>

\* What every call sets: name, trace frame, and for methods the class scope.
EnterCommon(f) ==
  /\ depth < MaxDepth /\ depth' = depth + 1
  /\ cur_fn' = Append(cur_fn, f) /\ frames' = Append(frames, f)
  /\ class' = IF f \in Methods THEN Cls ELSE class
  /\ called' = IF f \in Methods THEN Cls ELSE called
  /\ prelude_depth' = prelude_depth + (IF f \in Prelude THEN 1 ELSE 0)
  /\ ctl' = "run" /\ err' = None /\ UNCHANGED thrown

\* call_user, call_closure, invoke_method, call_static_fw: the definition
\* context is swapped to the callee's (closures keep the caller's), prelude
\* bodies are quiet, and a generator body runs to its end into a fresh buffer.
DefCtx(f) == IF f \in Closures THEN ctx ELSE IF f \in Elsewhere THEN File ELSE None

EnterWalker(f, under) ==
  /\ EnterCommon(f)
  /\ cur_args' = Append(cur_args, f) /\ scopes' = Append(scopes, f)
  /\ byref_ret' = byref_ret + 1
  /\ ctx' = DefCtx(f)
  /\ quiet' = quiet + (IF f \in Prelude THEN 1 ELSE 0)
  /\ gen' = IF f \in Generators THEN f ELSE gen
  /\ native' = Append(under, Frame("call", f, FALSE, "run"))

\* vm_fast_call, vm_fast_method: no scope, no argument list, and no swap of
\* the context unless the chunk resolves names (needs_ctx).
EnterFast(f) ==
  /\ EnterCommon(f)
  /\ ctx' \in {ctx, DefCtx(f)}
  /\ native' = Append(native, Frame("fast", f, FALSE, "run"))
  /\ UNCHANGED <<cur_args, scopes, byref_ret, quiet, gen>>

Invoke(f, under) == TooDeep(under) \/ BindFails(f, under) \/ EnterWalker(f, under)

Call(f) ==
  /\ Running /\ Room
  /\ Invoke(f, native)
  /\ UNCHANGED <<hooks, loading, handling>>

\* The VM's own call operations, from a compiled body to a compiled body that
\* is neither a prelude function nor a method of a prelude class.
FastCall(f) ==
  /\ Running /\ Room /\ f \in Compiled \ Prelude
  /\ Top.kind \in CallKinds \cup {"top"} /\ Caller \in Compiled \cup {None}
  /\ EnterFast(f)
  /\ UNCHANGED <<hooks, loading, handling>>

\* The statement `return`.
Return ==
  /\ Running /\ Top.kind \notin ExprKinds \cup {"top"}
  /\ ctl' = "ret"
  /\ UNCHANGED <<regs, thrown, native, err>>

\* Mutant: an error leaves the trace frame behind.
LeaveCallKeepsFrame ==
  /\ Top.kind \in CallKinds /\ ctl \in {"ret", "err"}
  /\ depth' = depth - 1 /\ cur_fn' = Front(cur_fn)
  /\ frames' = IF ctl = "err" THEN frames ELSE Front(frames)
  /\ IF Top.kind = "call"
     THEN /\ cur_args' = Front(cur_args) /\ scopes' = Front(scopes)
          /\ byref_ret' = byref_ret - 1
     ELSE UNCHANGED <<cur_args, scopes, byref_ret>>
  /\ native' = Popped /\ ctl' = IF ctl = "ret" THEN "run" ELSE ctl
  /\ UNCHANGED <<ctx, class, called, quiet, prelude_depth, gen, hooks, loading,
                 handling, thrown, err>>

\* The call's outcome once everything is put back: a checked return type may
\* still fail.
CallResult ==
  /\ native' = Popped
  /\ \/ ctl = "ret" /\ ctl' = "run" /\ UNCHANGED <<err, thrown>>
     \/ ctl = "ret" /\ Top.fn \notin Closures /\ ThrowErrorAt(depth - 1)
     \/ ctl = "err" /\ UNCHANGED <<ctl, err, thrown>>

\* apply_byref: the caller's code assigns the parameters' last values to its
\* by-reference arguments, whether the body returned or failed; the body's
\* outcome is held meanwhile, the pending exception is not.
WriteBack ==
  /\ "byref" \in Features /\ Top.kind = "call" /\ Top.fn \notin Closures
  /\ WalkerCode(Popped)
  /\ native' = Append(Popped, [Top EXCEPT !.kind = "writeback",
                                 !.flow = IF ctl = "ret" THEN "ret" ELSE err])
  /\ ctl' = "run" /\ err' = None /\ UNCHANGED thrown

\* The end of a call, on either engine, whether its body returned or failed:
\* everything saved is put back.
LeaveCall ==
  /\ Top.kind \in CallKinds /\ ctl \in {"ret", "err"}
  /\ LET f == Top.fn
         walker == Top.kind = "call"
     IN /\ depth' = depth - 1
        /\ cur_fn' = Front(cur_fn) /\ frames' = Front(frames)
        /\ cur_args' = IF walker THEN Front(cur_args) ELSE cur_args
        /\ scopes' = IF walker THEN Front(scopes) ELSE scopes
        /\ byref_ret' = IF walker THEN byref_ret - 1 ELSE byref_ret
        /\ ctx' = IF f \in Closures THEN ctx ELSE Top.ctx
        /\ class' = IF f \in Methods THEN Top.class ELSE class
        /\ called' = IF f \in Methods THEN Top.called ELSE called
        /\ prelude_depth' = prelude_depth - (IF f \in Prelude THEN 1 ELSE 0)
        /\ quiet' = quiet - (IF walker /\ f \in Prelude THEN 1 ELSE 0)
        /\ gen' = IF walker /\ f \in Generators THEN Top.gen ELSE gen
  /\ CallResult \/ WriteBack
  /\ UNCHANGED <<hooks, loading, handling>>

\* `self.apply_byref(byref, wb)?; r.and_then(check_return)`: an error of the
\* write-back wins over the body's outcome, which is taken up otherwise.
EndWriteBack ==
  /\ Top.kind = "writeback" /\ ctl \in {"run", "err"}
  /\ native' = Popped
  /\ \/ (ctl = "err" \/ Top.flow = "ret") /\ UNCHANGED <<ctl, err, thrown>>
     \/ ctl = "run" /\ Top.flow = "ret" /\ ThrowErrorAt(depth)
     \/ ctl = "run" /\ Top.flow # "ret" /\ Fail(Top.flow) /\ UNCHANGED thrown
  /\ UNCHANGED regs

----------------------------------------------------------------------------
(* try / catch / finally. *)

EnterTry(fin) ==
  /\ OnWalker /\ Room /\ Top.kind \notin ExprKinds
  /\ "try" \in Features
  /\ native' = Append(native, Frame("try", None, fin, "run"))
  /\ UNCHANGED <<regs, thrown, ctl, err>>

\* The body, or the catch block that replaced it, ends without an error:
\* its finally block runs if there is one.
EndTry ==
  /\ ctl \in {"run", "ret"} /\ Top.kind \in {"try", "catch"}
  /\ IF Top.fin
     THEN native' = Append(Popped, [Top EXCEPT !.kind = "finally", !.flow = ctl])
          /\ ctl' = "run"
     ELSE native' = Popped /\ UNCHANGED ctl
  /\ UNCHANGED <<regs, thrown, err>>

\* Mutant: a catch block takes any error.
CatchAny ==
  /\ ctl = "err" /\ Top.kind = "try"
  /\ thrown' = None
  /\ native' = Append(Popped, [Top EXCEPT !.kind = "catch"])
  /\ ctl' = "run" /\ err' = None
  /\ UNCHANGED regs

\* Mutant: the caught exception stays pending.
CatchKeepsPending ==
  /\ ctl = "err" /\ Top.kind = "try" /\ thrown = Exc
  /\ native' = Append(Popped, [Top EXCEPT !.kind = "catch"])
  /\ ctl' = "run" /\ err' = None
  /\ UNCHANGED <<regs, thrown>>

\* handle_try_outcome on Err: the pending exception decides, if there is one,
\* and a catch block takes over if its type matches (null matches none).
CatchMatches ==
  /\ ctl = "err" /\ Top.kind = "try" /\ thrown = Exc
  /\ thrown' = None
  /\ native' = Append(Popped, [Top EXCEPT !.kind = "catch"])
  /\ ctl' = "run" /\ err' = None
  /\ UNCHANGED regs

\* No exception, or no catch for it, or the catch block itself failed: `?`
\* leaves the try statement at once.
LeaveTry ==
  /\ ctl = "err" /\ Top.kind \in {"try", "catch"}
  /\ native' = Popped
  /\ UNCHANGED <<regs, thrown, ctl, err>>

\* The finally block ends; a return or an error of its own wins.
EndFinally ==
  /\ Top.kind = "finally" /\ ctl \in {"run", "ret", "err"}
  /\ native' = Popped
  /\ ctl' = IF ctl = "run" THEN Top.flow ELSE ctl
  /\ UNCHANGED <<regs, thrown, err>>

----------------------------------------------------------------------------
(* Rust functions that call back into PHP code. *)

\* warn with a registered handler: silent under suppression, in an eager
\* generator body, or inside the handler itself.
Warn(f) ==
  /\ Running /\ Room /\ "handler" \in Features
  /\ quiet = 0 /\ gen = None /\ ~handling
  /\ handling' = TRUE
  /\ Invoke(f, Append(native, Frame("handler", f, FALSE, "run")))
  /\ UNCHANGED <<hooks, loading>>

\* Mutant: the guard is cleared only when the handler returns.
EndHandlerIfReturned ==
  /\ Top.kind = "handler" /\ ctl \in {"run", "err"}
  /\ handling' = (ctl = "err") /\ native' = Popped
  /\ UNCHANGED <<activation, hooks, loading, thrown, ctl, err>>

EndHandler ==
  /\ Top.kind = "handler" /\ ctl \in {"run", "err"}
  /\ handling' = FALSE /\ native' = Popped
  /\ UNCHANGED <<activation, hooks, loading, thrown, ctl, err>>

\* An unknown class is named: autoload marks it and calls a loader; while it
\* is marked, naming it again is a no-op.
Autoload(f) ==
  /\ Running /\ Room /\ "autoload" \in Features /\ ~loading
  /\ loading' = TRUE
  /\ Invoke(f, Append(native, Frame("autoload", f, FALSE, "run")))
  /\ UNCHANGED <<hooks, handling>>

\* The loader is done; `let _ =` drops its error.  If the class is still
\* unknown the caller may raise "Class not found".
EndAutoload ==
  /\ Top.kind = "autoload" /\ ctl \in {"run", "err"}
  /\ loading' = FALSE /\ native' = Popped
  /\ \/ ctl' = "run" /\ err' = None /\ UNCHANGED thrown
     \/ ThrowErrorAt(depth)
  /\ UNCHANGED <<activation, hooks, handling>>

\* usort, uasort, uksort: the comparison is PHP code; an error of it counts as
\* "equal" (unwrap_or(0)) and the sort goes on.
UserSort(f) ==
  /\ Running /\ Room /\ "usort" \in Features
  /\ Invoke(f, Append(native, Frame("usort", f, FALSE, "run")))
  /\ UNCHANGED <<hooks, loading, handling>>

EndSort ==
  /\ Top.kind = "usort" /\ ctl \in {"run", "err"}
  /\ native' = Popped /\ ctl' = "run" /\ err' = None
  /\ UNCHANGED <<regs, thrown>>

\* The next loader, or the next comparison, whatever became of the last.
NextCallback(f) ==
  /\ Top.kind \in {"autoload", "usort"} /\ ctl \in {"run", "err"} /\ Room
  /\ Invoke(f, native)
  /\ UNCHANGED <<hooks, loading, handling>>

\* A property access that has a hook; inside that hook the access is raw.
PropHook(m) ==
  /\ Running /\ Room /\ "hook" \in Features /\ m \in Methods
  /\ ~Contains(hooks, m)
  /\ hooks' = Append(hooks, m)
  /\ Invoke(m, Append(native, Frame("hook", m, FALSE, "run")))
  /\ UNCHANGED <<loading, handling>>

\* Mutant: the hook's error is dropped.
EndHookDropsError ==
  /\ Top.kind = "hook" /\ ctl \in {"run", "err"}
  /\ hooks' = Front(hooks) /\ native' = Popped /\ ctl' = "run" /\ err' = None
  /\ UNCHANGED <<activation, loading, handling, thrown>>

EndHook ==
  /\ Top.kind = "hook" /\ ctl \in {"run", "err"}
  /\ hooks' = Front(hooks) /\ native' = Popped
  /\ UNCHANGED <<activation, loading, handling, thrown, ctl, err>>

\* Mutant: suppression is not counted.
QuietUncounted ==
  /\ OnWalker /\ Room /\ "quiet" \in Features
  /\ native' = Append(native, Frame("quiet", None, FALSE, "run"))
  /\ UNCHANGED <<regs, thrown, ctl, err>>

\* eval_quiet (isset, ??, empty, by-ref returns), whose callers pass an error on.
Quiet ==
  /\ OnWalker /\ Room /\ "quiet" \in Features
  /\ quiet' = quiet + 1
  /\ native' = Append(native, Frame("quiet", None, FALSE, "run"))
  /\ UNCHANGED <<depth, cur_fn, frames, cur_args, scopes, byref_ret, ctx, class,
                 called, prelude_depth, gen, hooks, loading, handling, thrown, ctl, err>>

EndQuiet ==
  /\ Top.kind = "quiet" /\ ctl \in {"run", "err"}
  /\ quiet' = quiet - 1 /\ native' = Popped
  /\ UNCHANGED <<depth, cur_fn, frames, cur_args, scopes, byref_ret, ctx, class,
                 called, prelude_depth, gen, hooks, loading, handling, thrown, ctl, err>>

\* Evaluations whose error is dropped.  With suppression: `@expr`, and the read
\* half of a nested element's assignment or unset.  Without: the object of
\* isset, unset or an assignment of `$o->p[..]` or `C::$p[..]`, __toString in a
\* coercion, defined("C::X"), a default that Reflection evaluates.
Tolerate(kind) ==
  /\ Running /\ Room /\ kind \in Features
  /\ kind = "suppress" => OnWalker
  /\ quiet' = quiet + (IF kind = "suppress" THEN 1 ELSE 0)
  /\ native' = Append(native, Frame(kind, None, FALSE, "run"))
  /\ UNCHANGED <<depth, cur_fn, frames, cur_args, scopes, byref_ret, ctx, class,
                 called, prelude_depth, gen, hooks, loading, handling, thrown, ctl, err>>

\* Any error becomes a value (unwrap_or, .ok(), is_ok), exit and a limit too;
\* self.thrown stays as it is.
EndTolerate ==
  /\ Top.kind \in {"suppress", "tolerant"} /\ ctl \in {"run", "err"}
  /\ quiet' = quiet - (IF Top.kind = "suppress" THEN 1 ELSE 0)
  /\ native' = Popped /\ ctl' = "run" /\ err' = None
  /\ UNCHANGED <<depth, cur_fn, frames, cur_args, scopes, byref_ret, ctx, class,
                 called, prelude_depth, gen, hooks, loading, handling, thrown>>

\* run_source (include, eval) swaps the context; `namespace N { ... }` swaps
\* cur_ns for its statements; static, constant and property initialisers are
\* evaluated under their class.
Swap(kind) ==
  /\ Room /\ kind \in Features
  /\ ctx' \in IF kind = "class_init" THEN {ctx, File} ELSE {File}
  /\ class' = IF kind = "class_init" THEN Cls ELSE class
  /\ native' = Append(native, Frame(kind, None, FALSE, "run"))
  /\ UNCHANGED <<depth, cur_fn, frames, cur_args, scopes, byref_ret, called,
                 quiet, prelude_depth, gen, hooks, loading, handling, thrown, ctl, err>>

Include == OnWalker /\ Swap("include")
BlockNamespace == OnWalker /\ Top.kind \in {"top", "include"} /\ Swap("block_namespace")
ClassInit == Running /\ Swap("class_init")

\* Mutant: an error skips the restore.
EndSwapIfReturned ==
  /\ Top.kind \in {"include", "class_init"} /\ ctl \in {"run", "ret", "err"}
  /\ IF ctl = "err" THEN UNCHANGED <<ctx, class>>
     ELSE ctx' = Top.ctx /\ class' = Top.class
  /\ native' = Popped /\ ctl' = IF ctl = "ret" THEN "run" ELSE ctl
  /\ UNCHANGED <<depth, cur_fn, frames, cur_args, scopes, byref_ret, called,
                 quiet, prelude_depth, gen, hooks, loading, handling, thrown, err>>

\* run_source and the initialisers put everything back in every case; a file
\* that returns has only ended.
EndSwap ==
  /\ Top.kind \in {"include", "class_init"} /\ ctl \in {"run", "ret", "err"}
  /\ ctx' = Top.ctx /\ class' = Top.class /\ native' = Popped
  /\ ctl' = IF ctl = "ret" THEN "run" ELSE ctl
  /\ UNCHANGED <<depth, cur_fn, frames, cur_args, scopes, byref_ret, called,
                 quiet, prelude_depth, gen, hooks, loading, handling, thrown, err>>

\* `let f = self.exec_block(b)?; self.cur_ns = prev;`
EndBlockNamespace ==
  /\ Top.kind = "block_namespace" /\ ctl \in {"run", "ret", "err"}
  /\ ctx' = IF ctl = "err" THEN ctx ELSE Top.ctx
  /\ native' = Popped
  /\ UNCHANGED <<depth, cur_fn, frames, cur_args, scopes, byref_ret, class, called,
                 quiet, prelude_depth, gen, hooks, loading, handling, thrown, ctl, err>>

----------------------------------------------------------------------------
(* The end of the script (run_with_path) and shutdown functions. *)

\* A normal end, exit(), and an uncaught exception lead to the shutdown
\* functions; any other error is returned to the embedder.
EndScript ==
  /\ Top.kind = "top" /\ ctl \in {"run", "ret", "err"}
  /\ IF ctl = "err" /\ err # "exit" /\ thrown = None
     THEN ctl' = "over" /\ UNCHANGED <<thrown, native>>
     ELSE /\ ctl' = "run"
          /\ thrown' = IF ctl = "err" /\ err # "exit" THEN None ELSE thrown
          /\ native' = <<[Top EXCEPT !.kind = "stopping"]>>
  /\ err' = None
  /\ UNCHANGED regs

\* run_shutdown, and before it getTraceAsString of an uncaught exception: what
\* fails here is dropped.
Shutdown(f) ==
  /\ Top.kind = "stopping" /\ ctl \in {"run", "err"} /\ Room
  /\ "shutdown" \in Features
  /\ Invoke(f, native)
  /\ UNCHANGED <<hooks, loading, handling>>

Stop ==
  /\ Top.kind = "stopping" /\ ctl \in {"run", "err"}
  /\ ctl' = "over" /\ err' = None
  /\ UNCHANGED <<regs, thrown, native>>

Over == ctl = "over" /\ UNCHANGED vars

Next ==
  \/ \E f \in Fn : \/ Call(f) \/ FastCall(f) \/ Warn(f) \/ Autoload(f)
                   \/ PropHook(f) \/ Shutdown(f) \/ UserSort(f) \/ NextCallback(f)
  \/ \E fin \in BOOLEAN : EnterTry(fin)
  \/ \E kind \in {"suppress", "tolerant"} : Tolerate(kind)
  \/ Raise \/ Return \/ LeaveCall \/ EndWriteBack \/ EndTolerate
  \/ EndTry \/ CatchMatches \/ LeaveTry \/ EndFinally
  \/ EndHandler \/ EndAutoload \/ EndSort \/ EndHook \/ Quiet \/ EndQuiet
  \/ Include \/ BlockNamespace \/ ClassInit \/ EndSwap \/ EndBlockNamespace
  \/ EndScript \/ Stop \/ Over

Spec == Init /\ [][Next]_vars

----------------------------------------------------------------------------
(* Properties. *)

\* While the body of a function runs, the tops of the stacks are its own:
\* __FUNCTION__ and static variables read cur_fn, exception traces frames,
\* func_get_args cur_args, and every variable access scopes.  A body on the
\* VM's fast path has pushed only the first two.
OwnFrameOnTop ==
  Running /\ Caller # None =>
    /\ Last(cur_fn) = Caller /\ Last(frames) = Caller
    /\ Caller \notin Compiled => Last(cur_args) = Caller /\ Last(scopes) = Caller

\* Whenever a Rust frame that ran PHP code ends, by return or by any error,
\* what the running code can observe of its activation is as it was when the
\* frame began.
LeavesNoTrace ==
  [][Len(native') = Len(native) - 1 => Activation' = Top.before]_vars

\* Where the frames of the kinds S are on the Rust stack s.
PlacesIn(s, S) == {i \in 1..Len(s) : s[i].kind \in S}

\* The frames that add to the suppression level.
Silences(fr) == fr.kind \in QuietKinds \/ (fr.kind = "call" /\ fr.fn \in Prelude)

\* in_error_handler, autoload_active and hook_stack say which callbacks are on
\* the Rust stack: the error handler and the class loader run at most once at
\* a time, and the property hooks are hook_stack, in its order, each once.
GuardsMark(s, hks, ld, hd) ==
  LET hookAt == PlacesIn(s, {"hook"}) IN
  /\ Cardinality(PlacesIn(s, {"handler"})) = IF hd THEN 1 ELSE 0
  /\ Cardinality(PlacesIn(s, {"autoload"})) = IF ld THEN 1 ELSE 0
  /\ Cardinality(hookAt) = Len(hks)
  /\ \A i \in hookAt : s[i].fn = hks[Cardinality(hookAt \cap 1..i)]
  /\ IsInjective(hks)

\* The re-entrancy guards mark the callbacks under way, and the nesting depth,
\* the suppression level and the generator buffer count what is really on the
\* Rust stack.
GuardsMatchFrames ==
  /\ GuardsMark(native, hooks, loading, handling)
  /\ depth = Cardinality(PlacesIn(native, CallKinds))
  /\ quiet = Cardinality({i \in 1..Len(native) : Silences(native[i])})
  /\ (gen # None) = (\E i \in 1..Len(native) :
                       native[i].kind = "call" /\ native[i].fn \in Generators)

\* The sentinel error and the pending exception go together: an Err that
\* stands for a throw always has its exception at hand.  (The write-back of a
\* by-reference argument can break this: it holds the Err while other code runs.)
ThrowHasException == err = "throw" => thrown # None

\* "In-flight thrown exception (set by `throw`, cleared by a matching
\* `catch`)": no exception is pending while code runs normally.
NoStaleException == ctl = "run" => thrown = None

\* exit() and resource limits are not exceptions: no catch block takes them.
OnlyExceptionsAreCaught ==
  [][Top.kind = "try" /\ ctl = "err" /\ ctl' = "run" => err = "throw"]_vars

\* "`exit`/`die`: a normal halt": once exit() has been called, no other code
\* of the script runs than the shutdown functions.
ExitHalts ==
  [][err = "exit" => err' = "exit" \/ Top.kind \in {"top", "stopping"}]_vars

\* A finally block runs when an exception leaves its try statement, caught or
\* not.
FinallyRuns ==
  [][Top.kind \in {"try", "catch"} /\ Top.fin /\ err = "throw"
       => Len(native') = Len(native)]_vars
=============================================================================
