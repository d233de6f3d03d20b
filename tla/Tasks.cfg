\* kernel_main, the shell and four workers for a queue of four, with faults and
\* two swaps.
CONSTANTS
  NTasks = 5
  MaxQueue = 4
  MaxSwaps = 2
SPECIFICATION FairSpec
INVARIANTS TypeOK ContextsPreserved SchedulerSound
PROPERTY EveryTaskRuns
