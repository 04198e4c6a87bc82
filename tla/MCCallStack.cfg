SPECIFICATION Spec
CONSTANTS
  fun = fun  gener = gener  method = method  clos = clos  pre = pre
  Fn <- MixedFn  Methods = {method}  Closures = {clos}  Compiled = {method}
  Generators = {clos}  Prelude = {pre}  Elsewhere = {method}
  Features <- MixedFeatures
  Cls = Cls  File = File  None = None  Exc = Exc  NullExc = NullExc
  MaxDepth = 3  MaxNative = 5
INVARIANTS TypeOK OwnFrameOnTop GuardsMatchFrames
PROPERTY LeavesNoTrace
