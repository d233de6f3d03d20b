\* The registry, a list and the heap each fill up.
CONSTANTS
  Builtin <- LinkOrder
  Names = {"m", "n"}
  Heap = "BumpHeapAlloc"
  Types = {"sched", "heap", "ipc"}
  Listed = {"sched", "heap"}
  MaxMods = 5
  MaxPerType = 2
  HeapSlots = 2
  Pages = 8
  PageFailures = FALSE
  ImagePages = {1, 2}
  MaxBuilds = 5
SPECIFICATION Spec
INVARIANTS TypeOK HeadersDisjoint PagesAccounted
