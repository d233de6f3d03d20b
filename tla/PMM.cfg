\* The kernel image ends inside a bitmap word: page 2 is unmarked.
CONSTANTS
  MaxPages = 8
  KernelEnd = 3
  WordBits = 2
  Sizes = {0, 1, 2, 3}
SPECIFICATION FairSpec
INVARIANT Inv
PROPERTIES AllocTerminates ImplementsPageAllocator
