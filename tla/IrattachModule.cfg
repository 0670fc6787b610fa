SPECIFICATION Spec
CONSTANTS
  t = t n = n m = m c = c d = d
  i0 = i0 i1 = i1 i2 = i2 i3 = i3
  NoPid = NoPid NoIf = NoIf
  Kind <- KindOf
  Ifs <- IfsOf
  Proc = {n, m, c, d}
  Iface = {i1, i2, i3}
  UpBefore = {}
  Foreground = {}
  Discover = {m}
  MaxSignals = 1
CHECK_DEADLOCK FALSE
INVARIANT InterfaceStopped
