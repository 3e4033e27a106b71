CONSTANTS
  mf = mf  of = of  mt = mt  ot = ot  d1 = d1  rs = rs  rp = rp
  Files <- MCAppFiles
  Threads <- MCAppThreads
  Domains <- MCAppDomains
  Regions <- MCAppRegions
  MainFile = mf
  MainThread = mt
  SharedRegion = rs
  MaxYields = 1
  NoDomain = NoDomain
  NoThread = NoThread
  NoFile = NoFile
SPECIFICATION AppSpec
INVARIANT ReplyFresh
