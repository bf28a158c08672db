CONSTANTS
  RootLevel = 0
  RootEntryCount = 1
  TT_ENTRY_COUNT = 2
  EL = 2
  MaxCalls = 1
  MemoryTables <- MCMemoryTables
  GcdAttributes <- MCGcd
SPECIFICATION FairSpec
INVARIANTS TypeOK IdentityMap NoTableLost MemoryMapInstalled
PROPERTIES CallsEnd ImplementsPageMap
CHECK_DEADLOCK FALSE
