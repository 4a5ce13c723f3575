SPECIFICATION Spec
CONSTANTS
  n1 = n1
  n2 = n2
  n3 = n3
  a = a
  b = b
  Nodes = {n1, n2, n3}
  Names = {a, b}
  NoNode = NoNode
  Uses = {}
  Sized = {}
  MayThrow = {}
  MayThrowInPool = {n1}
  MayResize = {n1}
SYMMETRY SymmetryEdits
INVARIANTS
  RankExact
  EvaluationOrder
PROPERTY
  EvaluationMakesCurrent
CHECK_DEADLOCK FALSE
