SPECIFICATION Spec
CONSTANTS
  H = 3
  N = 4
  Settings <- MCSettings
  Commands <- MCCommands
  Others = {}
INVARIANTS TypeOK TerminalRestored
PROPERTIES QuitReturns ImplementsEditor
CHECK_DEADLOCK FALSE
