\* With no failing requester call, Stat of an existing path must succeed;
\* findPath only resolves directories.
CONSTANTS
  a = a
  b = b
  f = f
  ea = ea
  eb = eb
  ef = ef
  junk = junk
  g1 = g1
  g2 = g2
  NoPath = NoPathValue
  NoPathValue = NoPathValue
  Goroutines <- MCGoroutines
  Names <- MCNames
  Dirs <- MCDirs
  Files <- MCFiles
  Missing <- MCMissing
  FileKind <- MCAllBlocks
  Unsupported <- MCUnsupported
  Removable <- MCNoRemoval
  Enc <- MCEnc
  Foreign <- MCForeign
  CacheSize <- MCCacheSize
  MaxOps <- MCMaxOps
  ReqErrors = FALSE
  DecryptErrors = FALSE
SPECIFICATION Spec
INVARIANT NoSpuriousErrors
