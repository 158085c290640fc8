SPECIFICATION UserSpec
CONSTANTS
  MaxThreads = 4
  MaxProcesses = 3
  MaxRoots = 3
  MaxSleepers = 1
  MaxFutexWaiters = 1
  MsPerTick = 1
  MaxDelay = 1
  Addresses = {a1}
  NoAddress = NoAddress
  TlsSetters = {2}
  Creators = {1, 2, 3}
  Syscalls = {"yield", "exit", "thread_create", "join", "process_spawn", "wait"}
INVARIANT StacksMapped
