SPECIFICATION Spec
CONSTANTS
  fun = fun  gener = gener  method = method  clos = clos  pre = pre
  Fn <- MixedFn  Methods = {method}  Closures = {clos}  Compiled = {method}
  Generators = {clos}  Prelude = {pre}  Elsewhere = {method}
  Features = {"try"}
  Cls = Cls  File = File  None = None  Exc = Exc  NullExc = NullExc
  MaxDepth = 2  MaxNative = 4
PROPERTY FinallyRuns
