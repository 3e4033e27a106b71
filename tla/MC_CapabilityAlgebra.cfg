CONSTANTS
  a = a  b = b
  Domains <- MCCapDomains
  InitialDomain = a
  MemSize = 3
  MaxIndex = 5
  CapasPerDomain = 2
SPECIFICATION CapSpec
INVARIANT ExclusiveUnlessShared
INVARIANT RevokeTransitive
INVARIANT WithinQuota
CHECK_DEADLOCK FALSE
