SPECIFICATION Spec
CONSTANTS
  Client = {"c1", "c2", "c3"}
INVARIANTS
  DeadClientsRemoved
