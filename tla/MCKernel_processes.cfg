SPECIFICATION Spec
CONSTANTS
  MaxThreads = 5
  MaxProcesses = 4
  MaxRoots = 5
  MaxSleepers = 1
  MaxFutexWaiters = 1
  MsPerTick = 1
  MaxDelay = 1
  Addresses = {a1}
  NoAddress = NoAddress
  Syscalls = {"yield", "exit", "process_spawn", "spawn_failure", "wait", "try_wait", "reap", "sleep"}
INVARIANTS
  NoOrphans OwnAddressSpace NoZombies
PROPERTY ReapsOnlyExited
