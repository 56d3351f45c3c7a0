SPECIFICATION FairSpec
CONSTANTS
  b1 = b1
  b2 = b2
  None = None
  Client = {c1, c2}
  Block = {k1, k2, k3}
  Buf = {b1, b2}
  Value = {v1, v2}
  Zero = v1
  LRU <- TwoBufs
  MaxPinned = 1
  ReadErrors = FALSE
INVARIANTS CacheInv CachedIsDisk
PROPERTIES ImplementsBlockStore BreadReturns
