SPECIFICATION DevicesSpec
CONSTANTS
  RING_CAPACITY = 3
  Byte = {0, 1, 2}
  PTY_COUNT = 2
  MaxPid = 2
  MaxSessions = 2
  TTY_COUNT = 2
  COLUMNS = 2
  ROWS = 2
  BlinkTicks = 2
  MaxText = 2
  Command = {identify, sector0, sector1}
  NoCommand = NoCommand
  PAGE_BYTES = 2
  VIRTIO_RING_SIZE = 2
  IndexValues = 4
  MaxRequests = 5
INVARIANTS
  FreshSession ScreenShowsActive NoTrails ReadsWhatItAsked OnlyRandomBytes FreshUnlessTimedOut
PROPERTY ImplementsQueue
