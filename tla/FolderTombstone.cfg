SPECIFICATION FolderSpec
CONSTANTS
    Paths = {p}
    None = None
    MaxMoves = 4
    MaxStops = 0
    MaxQueue = 1
CHECK_DEADLOCK FALSE
PROPERTIES
    BytesBeatTombstones
