\* Two goroutines resolving paths over a shared FastCache of capacity 2,
\* with failing requester calls but no transient DecryptName failures.
CONSTANTS
  a = a
  b = b
  f = f
  ea = ea
  eb = eb
  ef = ef
  junk = junk
  g1 = g1
  g2 = g2
  NoPath = NoPathValue
  NoPathValue = NoPathValue
  Goroutines <- MCGoroutines
  Names <- MCNames
  Dirs <- MCDirs
  Files <- MCFiles
  Missing <- MCMissing
  FileKind <- MCFileKind
  Unsupported <- MCUnsupported
  Removable <- MCRemovable
  Enc <- MCEnc
  Foreign <- MCForeign
  CacheSize <- MCCacheSize
  MaxOps <- MCMaxOps
  ReqErrors = TRUE
  DecryptErrors = FALSE
SPECIFICATION Spec
SYMMETRY MCSymmetry
INVARIANT TypeOK
INVARIANT ResolvesCorrectly
INVARIANT ListingPaged
INVARIANT CacheSound
