SPECIFICATION Spec
CONSTANTS
  p1 = p1  p2 = p2  prog = prog  doc = doc
  None = None
  Procs = {p1, p2}
  Names = {prog, doc}
  Programs = {prog, doc}
  Created = {doc}
  InitDir <- Directory
  InitStart <- Data
  Sectors = 6
  DirSize = 2
  MaxFds = 1
  MaxMaps = 1
INVARIANTS ExecutableIntact
CHECK_DEADLOCK FALSE
