SPECIFICATION Spec
CONSTANTS
  NumFn = 5
  Originals = {1, 2, 3, 4}
  PreHooked = {1}
  PostHooked = {}
  Variadic = {2, 3, 4}
  Formatted = {2, 3, 4}
  Uncompilable = {3}
  MaxVaFuncs = 2
  NumPlugins = 3
  Tables <- ThreeTables
  Page = {p1, p2, p3, p4, p5, p6}
  PageSize = 5
  TrampSize = 2
  MaxDepth = 2
SYMMETRY AnyPage
INVARIANTS TypeOK CodeApart EntriesServe WaitingReturn
CHECK_DEADLOCK FALSE
