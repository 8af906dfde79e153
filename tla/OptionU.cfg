SPECIFICATION Spec
CONSTANT Cases <- OptionCases
INVARIANT DocumentedAccepted
CHECK_DEADLOCK FALSE
