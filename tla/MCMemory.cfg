SPECIFICATION MCSpec
CONSTANTS
  MAX_PHYSICAL_FRAMES = 4
  U64_MAX = 18
  LowMemory = 2
  MemoryMaps <- MCMaps
  Frame <- MCFrames
  Pids = {1, 2}
  Levels = 2
  HEAP_LIMIT = 12
  Image <- MCImage
  PAGE_SIZE = 4
  USER_SPACE_BASE = 4
  USER_SPACE_END = 40
  USER_TLS_BASE = 16
  TLS_MIN_ALIGN = 4
  TLS_TCB_SIZE = 2
  USER_STACK_PAGES = 1
  FileLength = 6
  MaxHeaders = 2
  Flags = {"rw", "rx"}
  Entries = {5, 9}
  Offsets = {0, 2}
  Addresses = {3, 4, 6, 9, 30}
  Sizes = {0, 1, 3, 6}
  Alignments = {0, 2, 3, 8}
  MAX_ARGUMENTS = 3
  BUFFER_LENGTH = 3
  ARGUMENT_LIMIT = 4
  WORD = 2
  STACK_TOP = 48
  Callers = {"init"}
  PassedLengths = {0, 1, 2, 3}
  MaxPassed = 4
  NameLengths = {1, 2, 4}
INVARIANTS
  FreeFramesExact OnlySafeFrames
  FramesNotShared BreakIsMapped NoForeignData NothingLeaks
  LoadedExactly ArgumentsDelivered
PROPERTY ImplementsPool
