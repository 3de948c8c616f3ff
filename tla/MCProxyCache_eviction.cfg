CONSTANTS
  t1 = t1  t2 = t2  t3 = t3
  k1 = k1  k2 = k2  k3 = k3
  a1 = a1  a2 = a2  a3 = a3
  Thread = {t1, t2}
  Key = {k1, k2, k3}
  Addr = {a1, a2, a3}
  NULL = NULL
  NoThread = NoThread
  NoKey = NoKey
  MAX_CACHE_SIZE = 2
  MAX_OBJECT_SIZE = 2
  MaxResponse = 2
SPECIFICATION FairSpec
INVARIANT CacheBounded
PROPERTY SectionEnds
