SPECIFICATION UserSpec
CONSTANTS
  MaxThreads = 4
  MaxProcesses = 3
  MaxRoots = 3
  MaxSleepers = 1
  MaxFutexWaiters = 1
  MsPerTick = 1
  MaxDelay = 1
  Addresses = {a1}
  NoAddress = NoAddress
  TlsSetters = {2}
  Creators = {1, 2, 3}
  Syscalls = {"exit", "thread_create", "process_spawn", "wait", "sleep", "terminate"}
INVARIANTS
  TypeOK JoinTargetsKept NoLostWakeup RunsOwnContext
