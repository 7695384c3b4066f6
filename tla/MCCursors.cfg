SPECIFICATION Spec
CONSTANTS
  Tapes <- MCTapes
  Payload <- MCPayload
  LeaseMod = 4
  MaxSupportedDepth = 3
  Tokens <- MCTokens
  Position <- MCPosition
  MaxCount = 2
  WordBits = 8
  MantissaBits = 4
  AddressMax = 15
  MinCapacity = 2
  MaxCapacity = 5
  MaxDepth = 3
INVARIANT IndicesNameElements
INVARIANT YieldsInOrder
INVARIANT NeverStuck
INVARIANT MaterializersAgree
INVARIANT LookupsAgree
INVARIANT WildcardInOrder
INVARIANT NothingRoundedOrOverwritten
PROPERTY LeasesOnlyAdvance
