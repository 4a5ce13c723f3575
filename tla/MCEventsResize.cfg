SPECIFICATION Spec
CONSTANTS
  e1 = e1
  h1 = h1
  h2 = h2
  m1 = m1
  a = a
  AllEvents = {e1}
  Handlers = {h1, h2}
  Nodes = {m1}
  Names = {a}
  NoNode = NoNode
  NoName = NoName
  MaxChildren = 2
  Uses <- AllUse
  Selectors <- SomeSelect
  ScopeNames <- SomeNamed
  Sized = {m1}
PROPERTY
  NoStaleCall
