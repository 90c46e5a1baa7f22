SPECIFICATION Spec
SYMMETRY Symmetry
ACTION_CONSTRAINT FlatOrMixed
INVARIANTS
  DonorIndexWhole
  RebuildRetiresDonor
PROPERTIES
  CopiesAreAtomic
  DonorIndexStable
  TokenMovesOnRetire
CONSTANTS
  f1 = f1
  f2 = f2
  w1 = w1
  w2 = w2
  flat = flat
  pc = pc
  File = {f1, f2}
  Worker = {w1, w2}
  Fp = {flat, pc}
  ParentChild = {pc}
  NLeaf = 1
  NoFile = NoFile
  NoFp = NoFp
  MaxRuns = 3
  Disturbances = {}
CHECK_DEADLOCK FALSE
