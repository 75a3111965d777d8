SPECIFICATION Spec
CONSTANTS
  a = a
  b = b
  x = x
  y = y
  t1 = t1
  t2 = t2
  s1 = s1
  s2 = s2
  Ids = {a, b}
  Settings = {x, y}
  Tabs = {t1, t2}
  Servers = {s1, s2}
  ServerOf <- TwoServers
  Importers = {i1}
  Missing = Missing
  Torn = Torn
  None = None
SYMMETRY Symmetric
INVARIANTS AlwaysLoads IInv
PROPERTIES CompareAndSet
