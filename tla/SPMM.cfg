\* Seven blocks in words of three, so that a run crosses words.
CONSTANTS
  Total = 7
  WordBits = 3
  MaxCount = 3
SPECIFICATION Spec
INVARIANTS FreeCountExact SearchesExact
PROPERTY AllocTakesFreeBlocks
