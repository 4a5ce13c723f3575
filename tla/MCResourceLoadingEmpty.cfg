SPECIFICATION FairSpec
CONSTANTS
  n1 = n1
  r1 = r1
  r2 = r2
  f = f
  h = h
  Nodes = {n1}
  Requests = {r1, r2}
  Urls = {f, h}
  Http = {h}
  Size <- HttpEmpty
  Announced <- HttpEmpty
  Stores <- CachedOrOnDisk
  NoUrl = NoUrl
  NoNode = NoNode
  NoRequest = NoRequest
PROPERTY
  RequestsFinish
CHECK_DEADLOCK FALSE
