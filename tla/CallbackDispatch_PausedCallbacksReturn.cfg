SPECIFICATION Spec
CONSTANTS
  NumPlugins = 2
  Fn = {"spawn"}
  Originals = {"spawn"}
  Hooks <- AllHooks
  Answers <- Extreme
  MaxDepth = 2
INVARIANT PausedCallbacksReturn
CHECK_DEADLOCK FALSE
