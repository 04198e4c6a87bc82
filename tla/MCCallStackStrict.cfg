SPECIFICATION Spec
CONSTANTS
  fun = fun  gener = gener  method = method  clos = clos  pre = pre
  Fn <- StrictFn  Methods = {method, pre}  Closures = {clos}  Compiled = {}
  Generators = {gener}  Prelude = {pre}  Elsewhere = {gener}
  Features <- StrictFeatures
  Cls = Cls  File = File  None = None  Exc = Exc  NullExc = NullExc
  MaxDepth = 2  MaxNative = 4
INVARIANTS NoStaleException ThrowHasException
PROPERTIES OnlyExceptionsAreCaught ExitHalts
