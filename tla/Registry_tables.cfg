SPECIFICATION Spec
CONSTANTS
  Threads = {t1, t2}
  Modules <- ThreeModules
  Statics <- OwnOnly
  HostFns = {f1, f2}
  Overrides <- SomeOverrides
  MaxModules = 1
  MaxDescs = 3
  MaxBindings = 1
  MaxInstances = 2
  None = None
SYMMETRY Symmetry
CHECK_DEADLOCK FALSE
INVARIANTS
  TypeOK
  InamesMirrorDescs
  FrozenSignsAgree
  LoadsAreAccounted
