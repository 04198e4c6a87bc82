SPECIFICATION Spec
CONSTANTS
  f = f  g = g  h = h  k = k  p = p  q = q  u = u  strlen = strlen  A = A  B = B  T = T  e = e  m = m
  anon1 = anon1  anon2 = anon2  a1 = a1  a2 = a2  a3 = a3
  NoName = NoName  NoDecl = NoDecl  Unresolved = Unresolved
  FnDecl <- MCFnDecl  ClassDecl <- MCClassDecl  AnonDecl = {anon1, anon2}
  Alias = {e}  Builtin = {strlen}  Loadable <- MCLoadable  Sources <- MCSources
  Addr <- MCAddr  Dangling = Dangling  MaxGeneration = 6  MaxChain = 3
CONSTRAINT Focused
SYMMETRY Symmetric
INVARIANTS TypeOK MethodMemoIsCurrent SitesAreCurrent ChunksMatchBodies ReferencesReachWalker ChecksAreNotSkipped
CHECK_DEADLOCK FALSE
