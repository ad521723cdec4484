SPECIFICATION Spec
CONSTANTS
  a = a
  b = b
  m1 = m1
  m2 = m2
  m3 = m3
  d1 = d1
  d2 = d2
  Dirs = {a, b}
  Manifests = {m1, m2, m3}
  Dlls = {d1, d2}
  DllOf <- MCDllOf
  ManifestsIn <- MCManifestsIn
  Runners = {d1}
  Commands = {c1, c2}
  Factories = {f1, pan}
  Builtins = {pan}
  Views = {map, scene}
  NoRun = NoRun
  Builtin = Builtin
  None = None
  LoadLimit = 2
  MapLimit = 2
INVARIANTS TypeOK LoadedWhileReferenced KeptStaysMapped FactoriesInstalled
