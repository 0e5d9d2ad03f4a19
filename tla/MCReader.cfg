SPECIFICATION Spec
CONSTANTS
  Programs <- MCPrograms
  CodeOf <- MCCodeOf
  FunctionSlots <- MCFunctionSlots
INVARIANT RunsWhatWasTyped
CHECK_DEADLOCK FALSE
