\* A ring of two usable entries, overrun several times.
CONSTANTS
  Size = 3
  MaxTyped = 5
  MaxSerial = 2
SPECIFICATION FairSpec
INVARIANTS TypeOK KeysInOrder DropsOnlyWhenFull ArrowsStayWhole
PROPERTY AllKeysRead
