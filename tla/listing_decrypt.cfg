\* rangeInDir skips every entry whose DecryptName call fails, so a
\* transient requester failure looks like a foreign file.
CONSTANTS
  a = a
  b = b
  f = f
  ea = ea
  eb = eb
  ef = ef
  junk = junk
  g1 = g1
  g2 = g2
  NoPath = NoPathValue
  NoPathValue = NoPathValue
  Goroutines <- MCGoroutines
  Names <- MCNames
  Dirs <- MCDirs
  Files <- MCFiles
  Missing <- MCMissing
  FileKind <- MCAllBlocks
  Unsupported <- MCUnsupported
  Removable <- MCNoRemoval
  Enc <- MCEnc
  Foreign <- MCForeign
  CacheSize <- MCCacheSize
  MaxOps <- MCMaxOps
  ReqErrors = FALSE
  DecryptErrors = TRUE
SPECIFICATION Spec
INVARIANT ListingComplete
