CONSTANTS
  Handlers = {h1, h2}
  Settings <- OverlapSettings
SPECIFICATION Spec
SYMMETRY Symmetry
CHECK_DEADLOCK FALSE
PROPERTY NeverBackwards
