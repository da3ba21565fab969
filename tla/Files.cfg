SPECIFICATION FairSpec
CONSTANTS
  p1 = p1  p2 = p2  prog = prog  doc = doc
  None = None
  Procs = {p1, p2}
  Names = {prog, doc}
  Programs = {prog}
  Created = {prog, doc}
  InitDir <- Directory
  InitStart <- Data
  Sectors = 4
  DirSize = 2
  MaxFds = 1
  MaxMaps = 1
INVARIANTS TypeOK CountsExact DocumentsUnharmed FreeMapExact
PROPERTY ExitEnds
CHECK_DEADLOCK FALSE
