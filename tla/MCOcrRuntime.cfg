SPECIFICATION MCSpec
CONSTANTS
  Threads = {1, 2, 3}
  Requests <- MCRequests
  Missing = {"gone"}
  Corrupt = {"bad"}
  Libraries = {"a", "b", "old"}
  Usable = {"a", "b"}
  MaxCalls = 3
  NoLibrary = NoLibrary
  NoThread = 0
INVARIANTS TypeOK OneLibrary OnePoolPerKey PoolsAreVetted SessionsConserved NoLostWakeup
PROPERTY EveryCallReturns
