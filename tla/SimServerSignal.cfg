SPECIFICATION Spec
CONSTANTS
  Client = {"c1"}
  MaxT = 1
PROPERTIES
  GracefulShutdown
