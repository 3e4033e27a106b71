CONSTANTS
  f1 = f1  f2 = f2  t1 = t1  t2 = t2  d1 = d1  d2 = d2  r1 = r1  r2 = r2
  Files <- MCFiles
  Threads <- MCThreads
  Domains <- MCDomains
  Regions <- MCRegions
  MaxYields = 1
  NoDomain = NoDomain
  NoThread = NoThread
  NoFile = NoFile
SYMMETRY MCSymmetry
SPECIFICATION Spec
INVARIANT OneCallerInside
INVARIANT SessionOwnership
INVARIANT MappedSegmentLive
PROPERTY SealedConfigFrozen
