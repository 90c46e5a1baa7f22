SPECIFICATION MCSpec
SYMMETRY FileSymmetry
INVARIANTS
  ReadyFilesAreBuilt
CONSTANTS
  f1 = f1
  f2 = f2
  w1 = w1
  w2 = w2
  flat = flat
  pc = pc
  File = {f1, f2}
  Worker = {w1, w2}
  Fp = {flat}
  ParentChild = {}
  NLeaf = 1
  NoFile = NoFile
  NoFp = NoFp
  MaxRuns = 3
  Disturbances = {}
CHECK_DEADLOCK FALSE
