SPECIFICATION ElfSpec
CONSTANTS
  PAGE_SIZE = 4
  USER_SPACE_BASE = 4
  USER_SPACE_END = 40
  USER_TLS_BASE = 16
  TLS_MIN_ALIGN = 4
  TLS_TCB_SIZE = 2
  USER_STACK_PAGES = 1
  FileLength = 6
  MaxHeaders = 2
  Flags = {"rw", "rx"}
  Entries = {5, 9}
  Offsets = {0, 2}
  Addresses = {3, 4, 6, 9, 30}
  Sizes = {0, 1, 3, 6}
  Alignments = {0, 2, 3, 8}
INVARIANT TlsWhereLinked
