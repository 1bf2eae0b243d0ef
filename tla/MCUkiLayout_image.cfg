\* A run of the program ends.
CHECK_DEADLOCK FALSE
CONSTANTS
  Stubs <- MCStubs
  Payloads <- MCPayloads
  HeaderBytes = 1
  Word = 64
SPECIFICATION UkiSpec
INVARIANTS HeadersPointAtData NothingOverwritten
PROPERTY UkiPlaces
