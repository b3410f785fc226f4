\* Does FastCache evict the least recently used path?
CONSTANTS
  p1 = p1
  p2 = p2
  p3 = p3
  p4 = p4
  x1 = x1
  x2 = x2
  NoPath = NoPath
  PPaths <- MCPPaths
  CPaths <- MCCPaths
  CacheSize <- MCCacheSize
SPECIFICATION Spec
PROPERTY ImplementsLRU
