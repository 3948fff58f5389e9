CONSTANTS
  t1 = t1
  Txs = {t1}
  None = None
  ChunkSize = 2
  MaxBlock = 4
  MaxFaults = 3
SPECIFICATION FairSpec
INVARIANTS MarksAreComplete
PROPERTIES BlocksAreIndexed MinedIsResolved ShutdownEnds
