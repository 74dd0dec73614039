SPECIFICATION Spec
CONSTANTS
  b1 = b1
  b2 = b2
  v1 = v1
  v2 = v2
  Heads = {h1, h2}
  Blocks = {b1, b2}
  Values = {v1, v2}
  Image <- MCImage
  Traffic <- MCTraffic
  QueueNum = 2
  IdxMod = 4
  Latency = 2
INVARIANTS
  TypeOK
  OnePlace
  CacheCoherent
PROPERTIES
  ServesRequests
  StartedIsServed
