SPECIFICATION ConsoleFairSpec
CONSTANTS
  Capacity = 2
  RecordsPerPage = 2
  GroupSize = 2
  MaxPages = 2
  MaxSequence = 2
  MaxRecords = 3
  NoPage = NoPage
  LineCapacity = 2
  RxCapacity = 2
  UartEventCapacity = 2
  ChunkCapacity = 2
  TxCapacity = 3
  TxBudget = 2
  MaxBytes = 3
INVARIANTS ConsumedIsLogged PagesServed ConsoleIsHonest
PROPERTIES WorkEnds
