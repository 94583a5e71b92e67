SPECIFICATION SlavesSpec
CONSTANTS
  Spread = 2
  Files <- MCFiles
INVARIANTS ConfigAsMeant FilesRefusedRightly FirstDecides RightServerAsked
CHECK_DEADLOCK FALSE
