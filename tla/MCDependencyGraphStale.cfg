SPECIFICATION Spec
CONSTANTS
  n1 = n1
  n2 = n2
  n3 = n3
  a = a
  b = b
  Nodes = {n1, n2, n3}
  Names = {a, b}
  NoNode = NoNode
  Uses = {}
  Sized = {}
  MayThrow = {n1, n2, n3}
  MayThrowInPool = {}
  MayResize = {}
SYMMETRY Symmetry
INVARIANT
  DirtyReachesDependents
CHECK_DEADLOCK FALSE
