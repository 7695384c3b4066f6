SPECIFICATION Spec
CONSTANTS
  t1 = t1
  t2 = t2
  np1 = np1
  np2 = np2
  np3 = np3
  nd1 = nd1
  nd2 = nd2
  NULL = NULL
  Threads <- MCThreads
  NativeParsers <- MCNativeParsers
  NativeDocs <- MCNativeDocs
  MaxSlots = 2
  GenMod = 6
  InputLengths = {3}
  CapacityRequests = {0, 1, 2}
  DefaultMaxCapacity = 3
  MinMaxCapacity = 2
  Padding = 1
  MaxUses = 3
SYMMETRY Symmetry
INVARIANTS
  BusyMatchesDoc
  DocOwnership
  ParserOwnership
  HandlesDisjoint
  HandleReuseDistance
  DocSlotsSuffice
PROPERTIES
  ArenaSurvives
  ImplementsLifecycle
