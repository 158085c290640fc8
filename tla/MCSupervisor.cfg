SPECIFICATION Spec
CONSTANTS
  Order <- MCOrder
  kind <- MCKind
  restart <- MCRestart
  depends_on <- MCDependsOn
  Pids = {2, 3, 4}
  MAX_ATTEMPTS = 3
CHECK_DEADLOCK FALSE
INVARIANTS TrackedExactly DependentsWait AllStopped
PROPERTIES StopsDependentsFirst RequestsServed AlwaysRestarted
