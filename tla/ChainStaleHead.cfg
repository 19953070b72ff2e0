SPECIFICATION Spec
CONSTANTS
  t1 = t1
  t2 = t2
  t3 = t3
  t4 = t4
  w1 = w1
  w2 = w2
  w3 = w3
  Txs = {t1, t2, t3, t4}
  Witnesses = {w1, w2, w3}
  Root <- MCRoot
  Blocks <- MCBlocks
  Needs <- MCNeeds
  Expiration <- MCExpiration
  TaPoS <- MCTaPoS
  Schedule <- MCSchedule
  Executes = {}
  Size <- MCSize
  MaxBlockSize = 3
  MaxUndoHistory = 6
  InitialSize = 12
  ReplayWindow = 12
  MaxTime = 10
  MaxNum = 6
  MaxRestarts = 0
PROPERTIES ValidSuccessorAccepted
