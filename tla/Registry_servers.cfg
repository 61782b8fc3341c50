SPECIFICATION Spec
CONSTANTS
  NumPlugins = 2
  Name = {a, b}
  MaxImages = 3
  MaxRefs = 3
SYMMETRY Symmetry
INVARIANTS TypeOK CommandsMapped EngineAgrees ValidIsLoaded
PROPERTY CommandsComeBack
CHECK_DEADLOCK FALSE
