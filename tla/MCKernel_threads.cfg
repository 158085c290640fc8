SPECIFICATION LiveSpec
CONSTANTS
  MaxThreads = 4
  MaxProcesses = 2
  MaxRoots = 2
  MaxSleepers = 2
  MaxFutexWaiters = 2
  MsPerTick = 2
  MaxDelay = 3
  Addresses = {a1, a2}
  NoAddress = NoAddress
  Syscalls = {"yield", "exit", "thread_create", "join", "sleep", "futex"}
INVARIANTS
  RunQueueExact WaitTablesExact
PROPERTIES
  SleepsFullTime SleepsEnd ReadyRuns
