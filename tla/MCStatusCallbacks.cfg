CONSTANTS
  Handlers = {h1, h2, h3}
  Settings <- SafetySettings
SPECIFICATION Spec
SYMMETRY Symmetry
CHECK_DEADLOCK FALSE
INVARIANTS TypeOK NoReportForgotten CountersMatch NeverUndercounted
PROPERTY ForwardsOneByOne
