SPECIFICATION Spec
CONSTANTS
  n1 = n1
  n2 = n2
  n3 = n3
  a = a
  b = b
  Nodes = {n1, n2, n3}
  Names = {a}
  NoNode = NoNode
  Uses <- NamedByOne
  Sized = {n1}
  MayThrow = {n1, n2, n3}
  MayThrowInPool = {n1}
  MayResize = {}
SYMMETRY SymmetryOthers
INVARIANTS
  TypeOK
  RunStatesSound
  CleanIsCurrent
  NoStaleCall
  DirtyReachesDependents
CHECK_DEADLOCK FALSE
