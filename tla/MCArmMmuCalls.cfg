CONSTANTS
  RootLevel = 1
  RootEntryCount = 1
  TT_ENTRY_COUNT = 2
  EL = 1
  MaxCalls = 2
  MemoryTables <- MCMemoryTablesSmall
  GcdAttributes <- MCGcdAll
SPECIFICATION Spec
INVARIANTS TlbCoherent CallTakesEffect
CHECK_DEADLOCK FALSE
