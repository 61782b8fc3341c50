SPECIFICATION Spec
CONSTANTS
  AtStartup = 2
  MaxPlugins = 3
  MaxDepth = 3
CONSTRAINT RefusalBound
INVARIANTS TypeOK FlagMeansRequest HookedOpen
PROPERTIES RequesterProtected LoaderFound NestedContractKept
CHECK_DEADLOCK FALSE
