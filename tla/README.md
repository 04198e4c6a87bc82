# Phargo in TLA+

Phargo is a PHP engine in Rust: a lexer, a parser, a tree-walking evaluator and
a bytecode VM that takes over the bodies it can compile. This directory models
the parts of the engine where state has to stay consistent through long
sequences of calls, errors and callbacks, and the front end and libraries whose
answers can be compared with a definition that does not look like the program.
TLC checks the models; TLAPS proves the main results about seven of them. Paths
below are relative to the repository root; `eval.rs`, `parser.rs` and the like
are under `src/src/` and `src/src/lang/`.

The engine is single-threaded (big-stack worker threads are joined at once).
What makes it hard is not parallelism but *re-entrancy*: almost every operation
can call user code (`__toString`, error handlers, autoloaders, comparison
functions, property hooks, iterators), user code can fail at any point, and the
evaluator keeps the running activation in fields that Rust functions set and
put back by hand.

## Inventory

| part | where | state | operations | what makes it correct |
|---|---|---|---|---|
| Evaluator: calls, errors, callbacks | `src/lang/eval.rs` | call depth, name, trace, argument and scope stacks, class scope, file/namespace/use map, suppression level, generator buffer, re-entrancy guards, pending exception | `call_user`, `call_closure`, `invoke_method`, `call_static_fw`, `vm_fast_call/method`, `try`, `warn`, `autoload`, hooks, `usort`, include, shutdown | whatever ends, and however it ends, the state is as it was; only exceptions are caught; guards match what runs |
| VM boundary | `src/lang/eval.rs` (`run_chunk`), `src/lang/vm.rs` | slots and `assigned` of the top-level chunk, `scopes[0]`, reference cells | `Store`, `UnsetSlot`, the calls, `vm_sync_out/in`, write-back, `global`, closures, `$GLOBALS` | slots and scope together are one mapping of global variables |
| Arrays | `src/lang/value.rs` (`Arr`), `array_byref` | counted blocks: entries, hash index, next key, pointer | insert, push, remove, copy on write, sorts, pop/shift/unshift, pointer moves | every variable is an ordered map of its own |
| foreach by reference | `foreach_by_ref` | queue of keys, cursor, visited set, cells | visit, skip, rescan, body changes | every element once, aliases kept, loop ends |
| References elsewhere | `AssignRef`, by-reference parameters, statics | cells in scopes, properties, `static_vars` | binding, write-back | aliases stay aliases |
| Dispatch caches | `vm_cache`, `SiteMemo`, `method_cache`, `typed_props_cache` | entry per body, call site, method, class | lookup, invalidation by declarations | a cached answer is the current answer |
| VM compiler | `src/lang/vm.rs` | code, jump targets, iterator nesting | `compile` | operand and iterator stacks balance on every path |
| Classes, enums, hooks | `src/lang/eval.rs` | class table, static properties, enum cases | lookup, visibility, property checks | lookup order, one object per case |
| Generators | `gen_buf`, prelude class `Generator` | eager buffer | collect, replay | yields in order, buffers do not mix |
| Include, hoisting, definition contexts | `run_source`, `hoist`, `def_ctx` | included set, context per declaration | include, eval, declare | bodies run under the file that declares them |
| Output buffering, streams | `ob_stack`, `__Stream` | watermarks; buffer and cursor | start/get/clean/flush; read/write/seek | nesting; cursor inside the buffer |
| Lexer, parser, AST | `lexer.rs`, `token.rs`, `parser.rs`, `ast.rs` | position, mode | tokenize, parse | precedence, string modes |
| Values | `value.rs` | none | conversion, comparison, key normalisation | loose comparison is what the tables say |
| Pure libraries | `regex.rs`, `bcmath.rs`, `datetime.rs`, `tz.rs`, `hash.rs`, `xml.rs`, JSON, serialisation | none | | match a reference definition |
| PDO | `pdo.rs` | handles, statements | prepare, execute, fetch | cursor inside the rows |
| Heap ceiling | `lib.rs` | byte counter | allocate, free | below the ceiling |
| Scoreboard | `main.rs` | counters | run tests, match expectations | `expectf` patterns |

The evaluator calls every other part. It calls the VM through `run_chunk` and is
called back by it for every operation the VM does not do itself; arrays and
cells are shared by both through `Rc`. `PROJECT.json` lists the parts with what
is modelled of each, and the places in the code where a test would hardly reach.

## Modules

| modules | of the code | kind |
|---|---|---|
| `GlobalVars`, `VmSlots`, `VmSlotsProofs` | `run_chunk`, `vm_sync_out/in`, globals | state machine, its abstraction, proofs |
| `CallStack`, `CallStackProofs` | calls, callbacks, errors of `eval.rs` | state machine, proofs |
| `OrderedArrays`, `PhpArray`, `PhpArrayProofs` | `Arr` of `value.rs`, `array_byref` | state machine, its abstraction, proofs |
| `ForeachByRef`, `ForeachProofs` | `foreach_by_ref` | state machine with liveness, proofs |
| `LeastNumbers` | (induction, for the proofs) | lemmas |
| `Dispatch`, `DispatchProofs` | function and class tables and the caches over them | state machine, proofs |
| `Bytes`, `PhpValues` | conversions and comparisons of `value.rs`, `apply_bin`, paths of keys | operators |
| `VmCompile`, `VmCompileProofs` | `vm.rs` | operators, proofs |
| `VmMachine`, `VmMachineProofs` | `run_chunk_inner` | state machine, proofs (those about `PhpValues` among them) |
| `VmChunks`, `TreeWalk`, `VmCode` | the chunks that the compiler makes and the machine runs; `exec`/`eval`; the two against each other | composition; operators; composition |
| `CharText` | (texts as characters) | operators |
| `Lexer`, `LexemeTests` | `lexer.rs` | algorithm, generated tests |
| `Parser`, `SyntaxTests` | `parser.rs` | algorithm, generated tests |
| `Regex`, `RegexMeaning`, `RegexTests` | `regex.rs` and the `preg_` builtins | algorithm, its meaning, generated tests |
| `BcMath`, `BcMathTests` | `bcmath.rs` and the `bc` builtins | algorithm, generated tests |
| `Dates`, `DateReading`, `DateTests` | `datetime.rs`, `tz.rs`, date builtins | algorithm, generated tests |
| `Stored`, `StoredTests` | `serialize`, JSON, `var_export` in `eval.rs` | algorithm, generated tests |
| `MC...` | | instances for TLC |

### GlobalVars, VmSlots: the top-level program and the global scope

`GlobalVars` says what global variables are: one mapping, which whoever runs
reads and writes, and which no transfer of control changes. `VmSlots` is the
implementation when the top-level program runs on the VM. Each variable has a
slot with its `assigned` flag (`slots`, `assigned`), and an entry of `scopes[0]`
that is absent, a plain value (`plain`) or a reference to a cell (`ref`,
`heap`). `mode` says whose code runs: the chunk, a callee reached through
`vm_sync_out` (`SyncedCall`: `CallFn`, `NewObj`, `CallStatic`, slow
`CallMethod`, iterator methods), a callee reached without it (`UnsyncedCall`:
`__toString`, the error handler, fast `CallMethod`), or the shutdown functions.
A callee may declare a variable `global` (`BindGlobal`), assign it
(`WriteLocal`), share it with a closure that outlives the call (`Capture`,
`WriteKept`) or go through `$GLOBALS` (`WriteGlobals`). The callee ends by
returning, or with an error that ends the script (`CalleeFails`); `SyncBack` is
what `run_chunk` then writes to the scope.

Three flags select programs: with unsynchronised calls, with failing callees,
with top-level `unset`. A program that has none of them implements
`GlobalVars` (`ImplementsGlobals`); with any one of them it does not. The state invariants hold for all programs. An
exception that the top-level program itself catches does not occur: `try` is
not compiled.

### CallStack: the activation through calls, errors and callbacks

`native` is the stack of Rust frames that will resume, each with what it saved;
`ctl` is `run`, `ret` or `err`. Every call path pushes what its function pushes
(`EnterWalker` for `call_user`, `call_closure`, `invoke_method`,
`call_static_fw`; `EnterFast` for `vm_fast_call`, `vm_fast_method`) and
`LeaveCall` puts back what that function puts back. A walker call from walker code
may then assign its by-reference arguments (`WriteBack`, `EndWriteBack`): that is
code of the caller, with the callee's outcome held in a local of the Rust
function. `TooDeep` and `BindFails`
are the two ways a call fails before its body; the failing closure call is
modelled with the entries it leaves behind. Error handler, autoloaders,
comparison functions, hooks, quiet evaluations, include, namespace blocks and class
initialisers are frames of their own kinds, and so are the evaluations whose error is
dropped: `suppress` is one with warnings off (`@`, and the read half of an assignment
to a nested element, or an unset of one), `tolerant` one without (the object of such an
access to a property, `__toString` in a coercion, `defined("C::X")`, a default that
Reflection evaluates). An `Err` carries no exception: the
exception is in `thrown`, the `Err` is one of `throw` (the sentinel), `exit`
and `engine` (limits). The stacks hold the function that pushed; argument
values and statements are abstracted: at any point running code may call,
return, throw, warn, and so on, as far as the constant `Features` allows.
A composite property of the activation is compared through the history field
`before`, which no action reads.

### OrderedArrays, PhpArray: PHP arrays

`OrderedArrays` gives each variable an ordered map of its own; only elements
that are references share a cell. `PhpArray` is the engine: handles on counted
blocks, `Rc::make_mut` (`Mutate`), an index beside the entries, `next_int`, and
the by-reference builtins that take the entry list out and rebuild the array
(`Refilled`, in the forms `Rebuilt`, `Renumbered`, `Listed`). `Values` reads a variable's map out of its
block and is the refinement mapping. The order a sort produces is left open.
Integer arithmetic wraps at `MaxInt`, as a release build does.

### ForeachByRef: foreach ($arr as &$v)

The loop's queue, visited set, cursor and counter, an array of keys with their
cells, the loop variable and the set of cells held elsewhere. The array may come with
references: held by other variables, shared by two elements (arrays
spread into one another share their cells), or left over by an earlier loop, which
nobody else holds. The body adds, removes and aliases elements, drops aliases,
captures or rebinds `$v`, and ends or leaves the
loop. A reference count of two in `unwrap_element` means that neither `$v` nor
anything in `held` has the cell, nor a second element (`Sole`).

The loop demotes only the element it comes from, so an element whose last alias is
dropped after the loop has moved on stays a reference that nobody else holds, as does one
whose key could not be assigned (`KeyThrows`). `stray`, a history variable, has
these cells, and `RefsAreAliased` excepts them; the next loop over the array
demotes them.

### Dispatch: what is remembered about functions and classes

`funcs` and `classes` are the tables. A declaration is abstracted to what
lookups read: a function's name, whether it takes references, and the function
it calls; a class's parent, trait, methods, and whether it has typed
properties. A *registered* declaration is a copy at an address (`Instance`), and
the address is in use while anything holds the copy (`Held`, `Free`): this is
the part of Rust's ownership that `vm_cache` (`vmCache`) and `anon_names`
(`anonNames`) depend on, as both depend on, as both are keyed by addresses. The address of a body is the one of its first
statement, and a body without statements has the address that every empty vector has
(`Dangling`): it is always in use, and all empty bodies have one chunk
(`eval.rs:4971`). `methodCache` and
`typedCache` are memos per class; each compiled body has one call site with a
memo stamped with the `generation` it was filled in.

`Declare` is a source being hoisted or one declaration being executed;
`FindMethodAutoload` loads missing parents and looks again; `CallUser` compiles
the body of a function that is called; `CallFn` is a call from compiled code,
which fills the memo of its site and compiles the callee. `EvalSource` and
`EndSource` bring the syntax of an evaluated source into memory and free it;
`NewAnon` evaluates its anonymous class. `aliased` is a history variable: whether
`class_alias` ran since the method memo was last cleared.

### Bytes, PhpValues: values

The conversions, comparisons and binary operators shared by both ways of
executing: numeric prefixes of strings, key normalisation, arithmetic with
overflow into floats, loose and strict comparison, string forms. Floats are
counted in hundredths, which is exact for everything the models write.

### TreeWalk, VmCompile, VmMachine, VmCode: two executions of one body

`TreeWalk` evaluates syntax: `Run...` and `Eval...` take a state (variables,
cells, properties of `$this`, output) and return the value with the state after
it, in the order `exec` and `eval` do things, warnings included. `VmCompile`
turns the same syntax into operations, with the decisions of `vm.rs` (constant
folding, quiet loads, paths, the iterators to pop on a jump) and refuses what
`vm.rs` refuses. Where the compiler calls itself on the parts of a construct, the
model makes the compiler of depth n from the one of depth n - 1 (`Deeper`,
`Compiler`): `Syntax` is the set of all expressions and statements in the bodies, and
what is nested deeper than `Depth` is refused, which the instances stay clear of.
`VmMachine` executes the operations one action each, on an operand
stack, slots with `assigned`, and a stack of iterators; statics, globals,
`$this` and the output survive from one call of the body to the next. The code
is relative where `vm.rs` patches absolute targets.

`VmMachine` does not know the compiler: its chunks are a constant. What its code
needs to be is `Verified`: there is a set of places, each an index with the heights of
both stacks, that contains the beginning, is closed under the ways on from each
operation, and gives every operation the operands and iterators it takes
(`Operands`, `Results`, `Ways`, `Served` describe the operations; the proofs show
that the actions do as described). The Rust machine checks none of this: a pop of
an empty stack reads as null, and `IterNext` without an iterator panics.

`VmChunks` says which chunks there are: what the compiler makes of the bodies it
accepts (`Chunks`). `IsTyped` is what the types of `ast.rs` say of an expression or
a statement, as far as the compiler relies on it. That all chunks are `Verified`
(`CodeIsVerified`) is proved in `VmCompileProofs`. `VmCode` adds the walker. It
also computes the places that the code of each body reaches (`Reached`), and TLC
evaluates that these places verify it (`ReachedIsVerified`).

`MCVmCode` builds about sixteen hundred bodies: each loop form around each way of
leaving it, two and three loops deep, switches, every operand decision on both
sides.

### MCLibrary: programs that answer one question

Lexer, parser, regular expressions, bcmath, dates and stored values keep no
state from one call to the next. A behaviour of `MCLibrary` takes a test, asks
the modelled program, and ends with the answer; the invariants compare the
answer with an independent definition. Each `...Tests` module holds the
generated tests and that definition:

* `LexemeTests` writes lexemes from what they stand for, by PHP's rules and in
  every notation that means the same, and the lexer must read them as that:
  strings with the escapes of each quoting, numbers, runs of operators without
  blanks, HTML pages, templates with expressions that hold strings.
* `SyntaxTests` writes programs from their syntax with the fewest parentheses
  PHP's precedence table allows and lays them out as text; `Parser` over
  `Lexer` must read that syntax back, with the line of every statement. Nesting
  beyond `MaxDepth` must be refused and chains of any length must not.
* `RegexMeaning` says what a pattern means without a program or a machine: the
  ends it reaches from a position, best first, with the groups set on the way.
  The backtracking machine of `Regex` must find the first of them. The second
  property is about the `preg_` loops: the pieces of a split with the matches
  between them are the subject.
* `BcMathTests` computes with integers over a power of ten; a result must be the
  exact one truncated to its scale.
* `DateTests` counts days one by one and knows the lengths of months and the
  hours at which six zones put their clocks; fields, formats, texts and
  differences must agree with it.
* `StoredTests` has values of every kind, to the depth limits, and texts in
  every JSON notation; what is written must read back, what is cut or too deep
  must be refused whole, and each object's hooks must run once, inner objects
  first.

## Runs

| run | instance | shows |
|---|---|---|
| `vm_slots` | 2 names, 2 values, all programs | types; a slot is empty while a synchronised callee runs and null when unassigned; bound and captured variables are the cell of the scope until the top-level program ends; one home per variable |
| `vm_slots_refine` | the same, no unsynchronised call, failure or unset | implements `GlobalVars` |
| `vm_slots_unsynced` (violation) | unsynchronised calls only | does not implement it: writes are lost |
| `calls` | prelude function, plain function, compiled method, generator closure; depth 3, 5 frames; every feature but namespace blocks and failing closure binding | own entries on top, guards match frames, every ended frame leaves no trace |
| `calls_strict` | method, plain generator, closure, prelude method; depth 2, 4 frames; the callbacks that pass errors on, includes, namespace blocks, failing closure binding | a throw has its exception, no stale exception, only exceptions are caught, exit ends the script |
| `calls_finally` (violation) | `try` | an exception no catch takes skips the finally block |
| `vm_code` | some 1600 bodies, called twice each | the compiler's code is `Verified`; the machine agrees with the walker; operand and iterator stacks balance; every call returns |
| `arrays` | 2 variables, 2 blocks, 1 cell, 2 values, 3 entries, pointer to 2 | implements `OrderedArrays`; the index is exact |
| `dispatch` | 7 functions, two of them with empty bodies, 2 classes, a trait, an alias, 3 addresses, 6 generations | every cache answers from the tables; a chunk is found only for its own body, or, empty, for another empty one; compiled calls reach no function that takes references |
| `dispatch_anon` (violation) | two evaluated sources, 3 generations | an object of the second gets the class of the first |
| `library` | 37,000 patterns, 8,000 decimals, 20,000 lexemes, 14,000 programs, 34,000 moments, 9,000 stored values | the answers are the defined ones |
| `foreach` | 4 keys, 2 at the start, references to begin with, cap 2, 1 alias at a time | no key twice, additions visited, aliases survive, no reference left over; the loop ends |

Bounds. Two names and two values are enough for `VmSlots`, where no action
relates two names; the proofs remove the bound. In `CallStack`, `MaxNative`
bounds nested Rust frames and `MaxDepth` stands for 2000: five frames hold a
call in a callback in a call in a try, which is where saved values can be
confused, and three calls reach the depth limit from inside: nine million states. The stricter
statements about exceptions need one frame less: an error, the frame that
passes it on, and the try around both. For arrays, three entries give every
operation a first, middle and last one, and two variables over two blocks make
a block shared or not; `MaxLen`, `MaxNext` and `MaxPos` bound entries, next key
and pointer (where `usize::MAX` is `MaxPos`). The constraint `SharedOrLong`
explores two variables with short arrays and one variable with long ones:
sharing and reordering are independent, as `Mutate` separates the block before
anything else happens to it. In `ForeachByRef`, `MaxLiveAppends` stands for
100000, `MaxHeld` bounds the aliases held at one time and `CellNo` numbers the cells
that are made for one key; four keys let a body add one in the first
round and one in the second, which is where the cap of 2 bites. Each of the two
elements at the start is plain or has one of two cells, and so has `$v`; other variables
hold any of them. One alias at a time is taken, dropped and taken elsewhere, so
that cells become held, unheld and shared in every order.

`dispatch` has enough addresses for caller, callee and a body that replaces
one of them, and `MaxGeneration` bounds declarations. Its constraint `Focused`
explores classes apart from anonymous classes, and compiled bodies apart from
the memos over classes: no action reads one and writes the other, except the
generation, which both parts advance. `MaxChain` (50 in the code) is longer than
the chain of three classes can be.

`vm_code`: integers end at `MaxInt` = 99, so that overflow happens. Bodies are
called twice because statics, globals and unset properties show only in a
second call. The compiler has no state besides the nesting of loops, so three
levels of nesting and one construct in each operand position reach each of its
decisions from each context. `Depth` = 30 is deeper than any of the bodies goes.

`library`: `StepBudget` (2 million steps in the code) and `DepthCap` (40000) are
above what any test needs unless it is about them, `RepeatCap` (1000 in the
code) is above the counts in the tests, `MaxDepth` stands for the parser's depth limit,
`SerDepth`, `JsonDepth` and `ExportDepth` for 256, 512 and 256; values one level
deeper than each are among the tests. `NewtonRounds` (200 in the code) is enough
for the square roots asked for; `MaxDigits` bounds results as in the code.
Days run around 1970, 2000, 2100 and the year 0, so that every rule for leap
years applies; timestamps stay between 1902 and 2038, as TLC's integers have 32
bits.

Symmetry is used for names, values, variables, blocks and addresses in runs
without liveness. Fairness: `ForeachByRef` assumes that the loop's own steps,
which are Rust code, happen, and that each execution of the body ends, which
is the PHP program's business (and the step limit's). `VmMachine` assumes that the
machine goes on with the next operation; nothing else runs meanwhile. Every
other property is a safety property, and the script may stop anywhere.
Deadlock is not checked where behaviours end: a body's calls are over, a
question is answered, or declarations are at their bound.

What the failing runs show is listed under `findings` in `PROJECT.json`, with
the comment, document or test each one contradicts.

## What the passing runs leave out

The passing runs leave out programs for which the code does not do what a
property asks.

Calls, arrays, tables. The models contain these cases; enabling the feature
named here makes TLC show each of them:

* A top-level `unset` of a variable that some function declared `global` clears
  the slot only (`eval.rs:5442`); the next synchronised call brings the old
  value back. `Unsets` with `ImplementsGlobals`.
* A synchronised callee that exits or throws leaves the slots empty, and the
  write-back stores null over every global, which shutdown functions then see.
  `Failures` with `ImplementsGlobals`.
* The write-back at the end of the script replaces reference cells
  (`eval.rs:5082`), so a closure that captured a global no longer shares it with
  the shutdown functions. This is why `AliasesStayLive` speaks of the time
  before.
* A closure call whose arguments do not bind leaves its name, arguments, trace
  frame and depth behind (`eval.rs:7637`). `closure_bind` with `OwnFrameOnTop`
  and `LeavesNoTrace`.
* An exception that leaves a braced namespace leaves it in force
  (`eval.rs:3185`). `block_namespace` with `LeavesNoTrace`.
* Errors are dropped, `exit` and limits included, in comparison functions, where an
  error counts as `equal` (`eval.rs:7394`), autoloaders (`7929`), shutdown functions
  (`2184`) and the trace of an uncaught exception (`2423`); by `@` (`4158`); by the read
  half of an assignment to `$a[..][..]` or an unset of it (`6778`, `6629`); in the object of
  `isset`, `unset` or an assignment of `$o->p[..]` or `C::$p[..]` (`6670`, `6671`, `6683`);
  in `__toString` called by a coercion (`8976`), `defined("C::X")` (`11725`), and a default
  that Reflection evaluates (`12039`). The script runs on, and a dropped exception stays
  pending: a later `exit` inside a `try` is caught as that exception. `usort`,
  `autoload`, `shutdown`, `suppress` or `tolerant`, each with `NoStaleException`,
  `OnlyExceptionsAreCaught` and `ExitHalts`.
* By-reference arguments are written back after a failed call, with its error held
  in a local (`eval.rs:7795`, `8592`, `8782`), and what the write-back evaluates is code: index
  expressions, `offsetSet`, set hooks. An error of it replaces the one held, an `exit`
  too. The exception of a held throw is pending meanwhile, and code that fails and
  catches takes it: the throw goes on without an exception, which no `catch` matches. `byref`
  with `ThrowHasException`, `NoStaleException`, `OnlyExceptionsAreCaught` and `ExitHalts`.
* All functions with an empty body are called through the chunk of the first of them
  that was asked for, with its parameters (`eval.rs:4971`). If that one takes
  references, all stay with the walker; if its parameters are plain, compiled code calls
  the others without the checks of their parameters' number and types, as `vm_fast_call`
  takes both from the chunk. `ChunksMatchBodies` without its second case.
* A plain function called from a method keeps that method's class, which is
  part of the key of its static variables (`eval.rs:3158`, `7740`).
* With `i64::MAX` in use as a key, the next key wraps and an append overwrites
  (`value.rs:238`); the array runs stay below `MaxInt`.
* The cursor of foreach by reference is a position: when the body removes an
  element and adds another, the addition is skipped (`eval.rs:3739`).
  `AppendedAreVisited` without `~removes`. (The comment at `eval.rs:3704`, that additions are
  not modelled, is older than the rescan at `3718`.) The cap on live appends is tested between rounds, so
  one round can exceed it (`eval.rs:3735`).
* `class_alias` clears neither the method memo nor the generation
  (`eval.rs:9938`): a miss remembered for the alias stays. `MethodMemoIsCurrent`
  without `~aliased`.
* `typed_props_cache` remembers "no typed property" for a hierarchy whose parent
  is not loaded yet, for good (`eval.rs:8788`). `ChecksAreNotSkipped` without
  `whole`.
* A function redeclared under its name with other parameters by reference is
  outside the model (assumption `FunctionsAgree`): compiled callers would pass
  values.

Machine and walker. The bodies of `vm_code` avoid these constructs, on which the
two differ (walker first):

* a `switch` takes a `default` at once when it comes before a matching case
  (`eval.rs:2983`), the machine looks at all cases first;
* `echo f(), g()` prints between the calls, the machine after both; `$a[k()] =
  v()` evaluates the right side first, the machine the key; an element of an
  array literal evaluates its value first, the machine its key; the keys of
  `$a[i()][j()]` are evaluated last to first, the machine first to last; foreach
  binds key, then value, the machine value, then key; a nested index assignment
  evaluates its inner keys twice in the walker;
* warnings: `$u++`, and the key expressions inside `isset` and `??`, are quiet in
  one and not in the other; so are a missing key of an array held by
  reference, `$undefined[0]`, a missing intermediate key, and the last of several
  keys of `$this->p`;
* `--$null`, `++` on strings, unary minus and plus on what is no number, a template of
  one part (left as it is by the machine), a string indexed in `$this->p`, foreach
  over a closure, the class a static variable belongs to.

Both evaluate the right side of `$x ??= e` always and assign null
(`eval.rs:4685`); no body has it. The comment at `vm.rs:18-22` on what is not compiled is older
than the compiler.

Values. `is_numeric` accepts "inf" and "nan"; null loosely equals neither "",
0 nor [], though comparing them gives equal; `0 == "abc"` is false and
`0 <=> "abc"` is 0. `PhpValues` does as the code does.

Regular expressions. A loop whose body may match nothing is followed to
`RX_DEPTH_CAP`: what comes after it matches with the depth that is left
(`/(a|)*.+/` finds "b" in "bxyz"), and one that fails uses up the step budget,
which is shared by all matches of a `preg_` call, so later matches are missing.
Long subjects are matched short for the same reason (`regex.rs:562`). Groups
set in a positive lookahead stay set when what follows it fails (`regex.rs:636`).
A reference to an unset group matches nothing and succeeds; a lookbehind always
succeeds; `\A` is `^` in multiline mode; the closing delimiter is the last one,
escaped or not, where the comment at `regex.rs:768` says unescaped.

Decimals. `bcsqrt` of a number below 10^-(scale+2) divides by zero
(`bcmath.rs:419`); two hundred Newton rounds are too few above some 115 digits;
`bcpow` with a negative exponent truncates the power first, so a small one
becomes zero (`eval.rs:9657`). `bcdivmod` is not modelled, nor is the guard that ends
`powmod` with an error after 10000 halvings of the exponent (`bcmath.rs:568`).

Lexemes and programs. The closing indentation of a heredoc is computed and not
removed; a heredoc drops the backslash of `\"` and one at its end; "08" is 8; a
brace inside a string inside `{$...}` ends the expression; hexadecimal, octal
and binary literals beyond 64 bits are 0 (`lexer.rs:322`); an octal escape above
\377 is chr(0). `!$a instanceof B` is `(!$a) instanceof B` (`parser.rs:1467`);
`clone $a ** 2` clones the power; `include ('x') . 'y'` includes 'x'; `include 'x' or
die` and arrow functions end at `or` and `and`; `C::{e}` without a call is a class constant with an
empty name (`parser.rs:1948`); `public private(set)` becomes private
(`parser.rs:1129`); `<?=` does not parse inside alternative-syntax and case
bodies; the depth limit starts anew inside interpolated expressions, and
`$$$...x` does not count.

Dates. A wall time that a clock skips resolves backward west of Greenwich, though
`tz.rs:229` says forward (`DatesAreCivil` accepts either); `mktime` is wrong for months above 14 and below -9;
`diff` from the 29th to 31st may give negative days, and works on UTC fields where
`add` works on local ones; `modify("2 days ago")` adds; `modify("tomorrow")` keeps
the time of day, `strtotime` does not; `strtotime("+1 month")` clamps; `Y/m/d` is
read as m/d/Y though `datetime.rs:518` lists it; "3:05 pm" loses its pm and
"10:30 today" its minutes; `createFromFormat("Y-m-d H:i")` keeps the present's
seconds; `date_parse_from_format` ignores am and pm.

Stored values. `__serialize` that returns a list loses its keys; `var_export`
writes quotes in keys unescaped, and enum cases as calls of `__set_state`; whole floats
come back from JSON as integers, and 14 decimals are kept; `serialize` keeps no
identity; `unserialize` accepts a text whose last `}` or `;` is missing.

## Proofs

Each theorem states one property that a run checks on a small instance, for every
value of the constants. The invariants behind the theorems were checked by TLC on the
runs' instances first.

`VmSlotsProofs` proves, for any sets of names and values and with the
assumptions `DistinctValues` and `ProgramFlags` of `VmSlots`:

* `SlotTypes`, `NoSecondCopies`, `BindingsStayLive`, `EveryVariableHasOneHome`:
  the four invariants of the run `vm_slots`, for all programs. They are inductive
  only together (`IInv`, `SlotInvariants`): where a write lands depends on which
  home a name has, so `AliasesStayLive` needs `OneHome`, and `OneHome` needs the
  value invariant to know that a slot is not a second home. `StepIInv` has one
  step per action.
* `SyncedScriptsImplementGlobals`: under `Disciplined` (no unsynchronised calls,
  failures or unsets) the specification implements `GlobalVars`. The
  refinement needs more than `IInv`: `RInv` adds that at top level the scope
  holds no plain value of an assigned slot and that a cell's content is known
  to the slot. `StepRefines` maps every step to a step of the abstract
  specification or a stutter: synchronisation is `Call` and `Return`, everything
  a callee does is `Assign` or `Declare`, `Capture` is a stutter.

`CallStackProofs` proves, for any functions, depth and nesting, with the
assumptions `FnKinds`, `Bounds`, `FeatureNames` and `DistinctValues` of `CallStack`:

* `FramesRestore` and `CallTypes`: `LeavesNoTrace` and the types, for programs without
  braced namespaces and failing closure calls (`Restoring`). Type correctness is
  not inductive: that `call_depth` stays a natural number when a call ends
  needs that it was raised when the call began. The invariant is the *chain*:
  every frame of the Rust stack fits (`Fits`) what the next one found at its
  entry, and the last one fits the present activation. Pushing, popping and
  replacing a frame keep a chain (`Pushed`, `PoppedFits`, `Replaced`); each
  action is shown to be one of these.
* `OwnFrames`: `OwnFrameOnTop`, for the same programs. The innermost call frame's
  entries are on top right above it, and every frame between it and the
  present one leaves them there: an induction along the chain (`OwnsToTheTop`).
* `GuardsAreExact`: `GuardsMatchFrames`, for the same programs. What the guards
  mark is inductive beside the chain (`MInv`). The counts follow from the chain alone:
  the script began at rest (`AtRest`), and each frame adds to depth and suppression
  level what its kind adds, so they are the number of such frames (`CountsAll`); the
  generator buffer is that of the topmost frame that sets one.
* `ThrowCarriesException`: `ThrowHasException`, for programs that write back no by-reference
  argument. Errors may be dropped anywhere: whoever drops one leaves the exception, and
  whoever replaces or catches one changes the exception with it. With the write-back it
  is false, so the run `calls` does not check it.
* `NothingStaysPending`, `ExceptionsArePaired` and `ExitEndsScript`: `NoStaleException`,
  `OnlyExceptionsAreCaught` and `ExitHalts`, for programs that reach none of the places
  where the error of other code is dropped or held (`PassErrorsOn`: no autoloaders,
  sort callbacks, shutdown functions, `suppress`, `tolerant`, `byref`). The hypothesis is a
  strong one, and each of its parts is needed: see above for what the code does
  without it. An exception is pending exactly while an `Err` stands for it
  (`EInv`), which needs to know that no frame on the stack is one that drops
  errors or holds one.

`DispatchProofs` proves, for any declarations, addresses and number of
generations, with the assumptions `Bounds`, `AliasesAreNew`, `SourcesAreFinite`,
`FunctionsAgree`, `EmptyBodies` and `NothingIsSpecial` of `Dispatch`:

* `DispatchTypes`, `MethodMemo`, `CallSites`, `CachesAreCurrent` and
  `CompiledCallsPassValues`: the types, `MethodMemoIsCurrent`, `SitesAreCurrent`,
  `ChunksMatchBodies` and `ReferencesReachWalker`. The invariant `IInv` adds that
  tables and caches are in `Shape`; that no two things held share an address but
  the one of empty bodies (`Unique`, `DanglingIsEmpty`): a copy gets a free address and a chunk
  holds what it was compiled
  from, so nothing else can come to lie there; that no memo is from a later
  generation than the present one (`SitesAreKnown`): a memo is good for its
  generation only because every declaration of a function begins a new one; and that
  a compiled body calls nothing, a built-in function or a name whose
  declarations take values (`CompiledIsSafe`), which later declarations cannot
  change.
* `TypedChecksRun`: `ChecksAreNotSkipped`, for programs that declare no class in
  two ways (`OneDeclaration`). PHP refuses to declare a class again; phargo replaces
  it, and then the cache goes stale whatever it held. Under the assumption the class
  table only grows (`Grows`), and the walk up the parents (`ancestry`, capped at
  `MaxChain`) takes the same way in the larger table if it met no missing parent in
  the smaller one (`AncestrySteps`, `ChainKept`).

`ForeachProofs` proves, for any keys, any cells the array starts with and any number of
aliases, with the assumptions `StartKeys`, `LoopBounds` and `Cells` of `ForeachByRef`:

* `ReferencesAreCounted` and `AliasedElementsKeepCells`: `RefsAreAliased` and
  `AliasesSurvive`. The invariant (`FInv`) is that no key is in the array twice, and
  `RefsAreAliased` itself: of the elements the loop has been at, those that are
  references have another holder, are the one visited last, or are stray. A
  promotion takes a cell that nothing holds (`FreeCellIsNew`). A demotion takes an element
  whose cell neither another variable nor another element has, so it takes none
  that is held; that it comes for every element the loop leaves is what makes
  the exceptions of the invariant so few (`VisitKeeps`). An element that is removed, or an alias
  that is dropped, may have been the other holder: then the cell becomes stray
  (`UnsetKeeps`, `DropKeeps`).
* `ForeachTypes`, `KeysAreVisitedOnce` and `NoKeyIsMissed`: the types, `NoRevisit` and
  `AppendedAreVisited`. The invariant (`QInv`) is that the queue has no key twice and
  none that is visited, and that in a loop whose body removes nothing every key
  in front of the cursor is visited or queued. What a rescan queues is told by
  `Without`, a recursive function over the keys behind the cursor. `Terminates` stays
  with TLC.

`VmCompileProofs` proves, for any set of bodies and any depth of nesting, with the
assumptions of `VmChunks` (`DepthIsNumber`, `SyntaxIsTyped`, `LiteralsOfTheCompiler`,
`BodiesAreAccepted`, `ChunksAreCompiled`):

* `CompiledCodeIsVerified`: `CodeIsVerified`. A *height* is the number of operands and
  of iterators; `Heights` gives one to every operation of a piece of code and to its end,
  so that each operation finds what it takes and every way on leads to an operation
  with the height it leaves, or to one of the piece's exits. `Takes` says that there are such
  heights from one to another. Pieces in a row have heights if each ends where the
  next begins (`Joined`, `InARow`), and exits that lead into the next piece
  cease to be exits. So the heights are put together as the code is: the code of an
  expression adds one operand (`Turns`, `ExprTurns`), that of an effect none
  (`EffectTurns`), from whatever height, and that of a statement none at the heights of
  its place (`StmtStays`, `StmtCodeStays`): no operand, and an iterator for each
  foreach around it. Breaks and continues are told by the height they leave
  with (`Leaves`): a break of a foreach has given up its iterator, a continue has not.
  `Looped` is where they meet the loop: `FinishLoop` turns them into jumps, which arrive at
  the loop's end and at its continuation with those heights. A switch is the
  hardest construct: its tests jump into the middle of its bodies (`CaseTestsTake`,
  `BodiesStay`), and a break in it keeps the iterators. `DeeperIsSound` says that the compiler made from
  a sound one is sound, the one that refuses all is (`RefusingIsSound`), and so all are by
  induction on the depth (`CompilerIsSound`); `BodyIsVerified` reads the places off the
  heights of a body that has no refused part. As the induction is on a number, the
  recursion over syntax needs no induction over data.

`VmMachineProofs` proves, for the same chunks and any number of calls, with nothing
assumed about the code but that the compiler made it:

* `OperandsAreThere`: `StacksBalance`. The invariant (`BInv`) is that index and
  heights are one of the code's places; each action takes, leaves and goes as
  `Operands`, `Results` and `Ways` say, and `CompiledCodeIsVerified` gives the places.
  So both mistakes are caught: a compiler that forgets the iterator of a loop it
  leaves would fail the proof about the code, a machine that does would fail this one.
* `UnassignedReadsNull`: `UnassignedIsNull`, over stores, references, unset, foreach
  bindings and the next call (`UInv`). It uses from the code only that operations
  name slots and variables (`Proper`).

* `MachineTypes`: `TypeOK`, from the assumption of `VmMachine` that literals are values
  (`LiteralsAreValues`). That a slot's reference leads to a cell needs that nothing the
  machine computes is a reference. The invariant (`TInv`) says so of all it
  holds: operands, cells, properties, the entries of every iterator, and slots that
  are no references are values. `StackStep`, `ItersStep` and `StoreStep` follow the forty
  actions through it; cells are never removed, so what led to one still does.
  What that needs of `PhpValues` comes first in the module, for all values and any
  depth of nesting: conversions, arithmetic, array union, insertion, removal, reading and writing
  along a path make values of values. Values are the members of a set closed under
  taking keys and elements (`AreValues`), so nesting needs no induction over data; the
  functions that go along a path or an entry list exist and have their properties by
  induction on numbers.

`PhpArrayProofs` proves, for any variables, keys, values and lengths, with the
assumptions `EnoughBlocks`, `Bounds` and `KindsDiffer` of `PhpArray`:

* `IndexIsExact` and `ArrayTypes`: `IndexExact` and the types, overflow of the next
  key included. The invariant (`PInv`) says of every block in use that
  its index has its entries' keys and gives their places; an entry list is rebuilt by
  a recursive function (`Refilled`) that inserts entries one by one, and an insertion
  keeps the index exact whatever key the wrapped counter comes to.
* `ArraysAreValues`: the specification implements `OrderedArrays`. The
  refinement needs that the next key is above all integer keys (`AInv`), which is
  what overflow destroys, so `NoOverflow` asks that the keys and lengths in use stay
  below `MaxInt`. The heart of it is what rebuilding gives (`RefilledWith`,
  `RefilledView`): the entries in their order, with the keys that pushing and inserting
  chooses, against `OrderedArrays`, which says by counting what the keys are. That a
  changed variable changes alone is `Mutate`: a block that someone else holds is
  copied first, and `EnoughBlocks` says that there is one to copy to.

`LeastNumbers` proves what the inductions of these modules need: a set of numbers
has a least one, a bounded set a greatest one, and what holds of the first number and
is handed on holds of all. The library's induction theorems take an operator as
a parameter, which the installed provers cannot instantiate; stated with sets,
induction is within their reach, and so is what a recursive function computes (it
exists by induction on its domain, and has then the values its equation gives).

Liveness, `ENABLED` and what `RECURSIVE` operators compute stay with TLC, as the prover
supports none of them: `Terminates` and `EveryCallReturns`, the algorithms of
`library`, and the agreement of the two executions in `vm_code`, as the walker recurses
over syntax (`AgreesWithWalker`). So does
`AnonIsItsOwnClass`, which is violated.

## Not modelled

* Calls with objects: in `VmCode`, `NewObj`, `CallMethod`, `CallStatic`, static properties
  and class constants (their frames are in `CallStack`); exceptions and generators
  in compiled bodies (the compiler refuses them). In `TreeWalk`, `match`,
  `list()`, references between variables, closures.
* In `Dispatch`, the memos of method call sites, interfaces, and what a method
  does.
* The contents of generators; `Closure::call`, `bindTo`, `__call` forwarding.
* In `CallStack`, the statement form of `namespace`, which lasts to the end of
  the file and is put back by `run_source`, and `static` and class constants
  beyond the class they are evaluated in.
* In `PhpArray`, `array_splice`, `array_multisort`, `array_walk`,
  arrays inside arrays, callbacks that change the array.
* In `ForeachByRef`, a body that assigns another array to the variable.
* Floats beyond two decimals, NAN and INF, formatting, encodings: characters are
  printable ASCII, or stand for a class of characters the code treats alike.
* Of regular expressions, Unicode properties and named classes beyond those in
  `Regex`; of dates, the reading of zone files (`tz.rs:124-205`), the list of
  zones and the prelude's `DateTime` classes; of stored values, `\b` in JSON,
  cycles and the limit on the length of a text.
* In the parser, the grammar that is skipped without a trace: set-visibility,
  trait adaptation blocks.
* Output buffering, streams, PDO, XML, the scoreboard: small sequential state
  and I/O, or external libraries.
* Hash functions, the heap ceiling, the function table, examples and scripts, for
  good: fixed numeric code, a counter, tables, drivers.

## Plan

1. A proof that the machine agrees with the walker, construct by construct, with the
   walker made depth by depth as the compiler is: heights would become values. Until
   then `AgreesWithWalker` is checked on the bodies of `vm_code`.
2. `References`: cells across scopes, statics, properties and by-reference
   parameters (`alias_byref_params`, `capture_byref`, `apply_byref`).
3. `Objects`: method lookup with visibility, property hooks and enums, composed
   with `Dispatch`; then `NewObj` and `CallMethod` in `VmCode`.
4. `OutputBuffers`, `Streams`, `Includes`, `Pdo`: small state machines with
   abstract specifications; `expectf` against its meaning, as in `RegexMeaning`.
