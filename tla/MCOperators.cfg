SPECIFICATION Spec
CONSTANTS
  o1 = o1
  o2 = o2
  s1 = s1
  s2 = s2
  s3 = s3
  a = a
  b = b
  Ops = {o1, o2}
  Sources = {s1, s2, s3}
  Names = {a, b}
  Given <- GivenTo
  Named <- NamedFor
  Codes = {c1, c2}
  Functions = {f1, f2, f3}
  Has <- Declared
  Plain <- DeclaredPlain
  Broken = {s3}
  Jobs = TRUE
  NoSource = NoSource
  NoName = NoName
  NoCode = NoCode
  NoFunction = NoFunction
SYMMETRY Addresses
INVARIANTS
  TypeOK
  RefsExact
  CallsCurrent
  SharedUnlessDead
PROPERTY
  FunctionsFollow
CHECK_DEADLOCK FALSE
