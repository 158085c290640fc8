SPECIFICATION Spec
CONSTANTS
  Names = {"a"}
  Byte = {1}
  Processes = {1, 2}
  MAX_FDS = 1
  MAX_RAM_FILES = 2
  MAX_RAM_FILE_SIZE = 2
  MaxPosition = 1
PROPERTIES ImplementsStore LookupsStable
