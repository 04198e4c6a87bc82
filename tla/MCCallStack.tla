---------------------------- MODULE MCCallStack ----------------------------
\* Instances of CallStack for TLC.
EXTENDS CallStack

CONSTANTS fun, gener, method, clos, pre

\* The whole language at once: a plain function and a closure that is a
\* generator on the walker, a compiled method, a prelude function.
MixedFn == {fun, method, clos, pre}
MixedFeatures == AllFeatures \ {"closure_bind", "block_namespace"}
\* A plain generator and a prelude method beside a method and a closure;
\* no Rust function drops an error or holds one while other code runs.
StrictFn == {method, gener, clos, pre}
StrictFeatures == {"try", "handler", "hook", "quiet", "include", "class_init",
                   "exit", "closure_bind", "block_namespace"}
=============================================================================
