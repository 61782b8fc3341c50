SPECIFICATION Spec
CONSTANTS
  NumPlugins = 2
  Name = {a, b}
  MaxImages = 2
  MaxRefs = 2
INVARIANT ValidIsMapped
CHECK_DEADLOCK FALSE
