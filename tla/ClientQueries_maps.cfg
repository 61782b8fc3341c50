SPECIFICATION Spec
CONSTANTS
  MaxClients = 2
  MaxEdicts = 3
  Cvar = {a, b}
  MaxRequests = 3
SYMMETRY Symmetry
INVARIANTS TypeOK NotedAsked PendingNoted
PROPERTY FreshIds
