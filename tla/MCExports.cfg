SPECIFICATION MCSpec
CONSTANTS
  Goroutines = {g1, g2}
  Clients = {q1, q2}
  Address = {a1, a2, a3}
  Lengths = {1, 2}
  Programs = {q1, q2}
  Objects = {o1, o2, o3}
  IterationEnd = 1
  MaxStrays = 2
  Parsing = {p1, p2}
  Inputs <- MCInputs
  Finds <- MCFinds
  ParserCapacity = 2
  NoAddress = NoAddress
  Threads = {q1, q2}
  Addresses = {o1, o2, o3}
  Sizes = {0, 2}
  WordMod = 64
  MaxEpoch = 3
  MaxAllocs = 3
CHECK_DEADLOCK FALSE
SYMMETRY MCSymmetry
INVARIANT BlocksAccounted
INVARIANT HeldIsRegistered
INVARIANT ResultsReachCaller
INVARIANT OutputsFreeable
INVARIANT DetailsMatchCall
INVARIANT TableMirrorsHeap
INVARIANT CountersAccounted
