\* Two replies to each operation, a clock of half milliseconds, one failure.
SPECIFICATION FairSpec
CONSTANTS
  h1 = h1  h2 = h2  x1 = x1  x2 = x2  a1 = a1
  Hosts = {h1, h2}
  Txts = {x1, x2}
  Addrs = {a1}
  None = None
  Unit = 2
  ResolveTimeout = 2
  GetaddrTimeout = 4
  MaxReplies = 2
  MaxLate = 1
  MaxFaults = 1
INVARIANTS
  BlockingBudget
  ContextOnStack
  AnswerIsNewest
  BurstsTakenWhole
PROPERTIES
  LookupEnds
