SPECIFICATION FairSpec
CONSTANTS
  p1 = p1
  p2 = p2
  t1 = t1
  t2 = t2
  t3 = t3
  Process <- MCProcess
  Thread <- MCThread
  ProcOf <- MCProcOf
  MaxDepth = 2
  MaxKept <- MCMaxKept
  NoThread = NoThread
  NoUse = NoUse
INVARIANTS
  MutualExclusion
  NothingLeaked
PROPERTIES
  ImplementsExclusiveLock
  AttemptResolves
  LockComesFree
