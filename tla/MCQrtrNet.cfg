SPECIFICATION Spec
CONSTANTS
  Nodes <- MCNodes
  Clients <- MCClients
  Ctrl = Ctrl
  Bcast = Bcast
  Scenarios <- MCScenarios
INVARIANTS TypeOK TablesAgree ObserverAccurate ClientsForgotten
CHECK_DEADLOCK FALSE
