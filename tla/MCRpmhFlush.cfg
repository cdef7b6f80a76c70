SPECIFICATION Spec
CONSTANTS
  c1 = c1
  c2 = c2
  t1 = t1
  a1 = a1
  a2 = a2
  b1 = b1
  b2 = b2
  b3 = b3
  Cpus = {c1, c2}
  Threads = {t1}
  Addrs = {a1}
  Vals = {1, 2}
  Batches <- FewBatches
  Ncpt = 2
  NumTcs = 2
  MaxRes = 2
  Borrowed = FALSE
  Controllers = {1, 2}
  Unset = Unset
  None = None
SYMMETRY Symmetry
INVARIANTS TypeOK SkipIsRight AllDownFlushed UsedSetWhole
