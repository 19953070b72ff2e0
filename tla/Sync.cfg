SPECIFICATION FairSpec
CONSTANTS
  p = p
  q = q
  Peers = {p, q}
  Blocks = {"a1", "a2", "a3", "b2"}
  Genesis = "g"
  Prev <- MCPrev
  BadBlocks = {"a3"}
  StartBlock = "a1"
  StartHead <- MCStart
  Faulty = {q}
  MaxIds = 2
  MinIdsToPrefetch = 1
  MaxPerPeer = 1
  MaxCalls = 2
  MaxPrefetched = 1
  MaxFaults = 1
INVARIANTS RequestsKept Informed
CHECK_DEADLOCK FALSE
  
