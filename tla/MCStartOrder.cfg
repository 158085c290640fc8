SPECIFICATION Spec
CONSTANTS
  N = 3
  Missing = 0
INVARIANT DependenciesFirst
PROPERTY Terminates
CHECK_DEADLOCK FALSE
