SPECIFICATION Spec
CONSTANTS
  Frame <- MCFrames
  Pids = {1, 2}
  Levels = 2
  PAGE_SIZE = 2
  HEAP_LIMIT = 6
  Image <- MCImage
PROPERTY GrowsAgain
