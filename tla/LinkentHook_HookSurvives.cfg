SPECIFICATION Spec
CONSTANTS
  Thread = {s, t}
  Server = s
  None = None
INVARIANT HookSurvives
CHECK_DEADLOCK FALSE
