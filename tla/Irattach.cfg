SPECIFICATION FairSpec
CONSTANTS
  t = t n = n m = m c = c d = d
  i0 = i0 i1 = i1 i2 = i2 i3 = i3
  NoPid = NoPid NoIf = NoIf
  Kind <- KindOf
  Ifs <- IfsOf
  Proc = {t, n}
  Iface = {i0, i1}
  UpBefore = {i1}
  Foreground = {n}
  Discover = {t}
  MaxSignals = 2
CHECK_DEADLOCK FALSE
INVARIANTS TtyRestored IInv
PROPERTY CleanupEnds
