SPECIFICATION TelemetrySpec
CONSTANTS
  t1 = t1
  t2 = t2
  a1 = a1
  a2 = a2
  a3 = a3
  NoAddress = NoAddress
  Threads <- MCThreads
  Addresses <- MCAddresses
  Sizes = {0, 2}
  WordMod = 64
  MaxEpoch = 3
  MaxAllocs = 3
SYMMETRY Symmetry
CHECK_DEADLOCK FALSE
INVARIANTS
  LiveBytesExact
