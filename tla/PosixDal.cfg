\* Two file handles over two free descriptors, objects of up to two bytes,
\* with every failure the code checks except that of close().
CONSTANTS
  c1 = c1  c2 = c2
  Ctx <- MCCtx
  Fds = {3, 4}
  NoFile = NoFile
  MaxBytes = 2
  Sizes = {1}
  Offsets = {0, 1}
  MayFail = TRUE
  CloseMayFail = FALSE
SYMMETRY MCSymmetry
SPECIFICATION Spec
INVARIANTS TypeOK NoForeignWrite SyncedDurable
