SPECIFICATION Spec
CHECK_DEADLOCK FALSE
INVARIANTS
  PasswordProtected
  ExitCodeTells
PROPERTIES
  TimedCommandsEnd
