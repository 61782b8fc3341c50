SPECIFICATION Spec
CONSTANTS
  NumPlugins = 2
  Fn = {"RegUserMsg"}
  Originals = {"RegUserMsg"}
  Hooks <- AllHooks
  Answers <- Deciding
  MaxDepth = 2
INVARIANTS TypeOK HandlersReturn HandlersStayLoaded
PROPERTIES SavedIdReturned ContractKept NobodySkipped
CHECK_DEADLOCK FALSE
