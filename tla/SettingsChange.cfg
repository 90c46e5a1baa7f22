\* Settings change after the snapshot of the fingerprint.
SPECIFICATION Spec
INVARIANT StampsClaimNoMore
CONSTANTS
  f1 = f1
  f2 = f2
  w1 = w1
  w2 = w2
  flat = flat
  pc = pc
  File = {f1}
  Worker = {w1}
  Fp = {flat, pc}
  ParentChild = {pc}
  NLeaf = 1
  NoFile = NoFile
  NoFp = NoFp
  MaxRuns = 1
  Disturbances = {"config"}
CHECK_DEADLOCK FALSE
