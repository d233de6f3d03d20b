\* One drive; power may be lost inside any write, alloc_page may fail, and the
\* drive may hold the table of an earlier use.
CONSTANTS
  ata0 = ata0  ram0 = ram0  f = f  g = g  x = x  y = y
  Drives = {ata0}
  NoDrive = NoDrive
  NotLoaded = NotLoaded
  NoFile = NoFile
  BootDrive = ata0
  Volatile = {}
  Faulty = {}
  TotalSectors <- EightSectors
  BitsPerByte = 2
  EntriesPerSector = 1
  TableSectors = 2
  SectorSize = 2
  SectorsPerPage = 1
  Names = {f, g}
  Vals = {x, y}
  ByteSizes = {1, 3}
  Blank = Blank
  OldTables <- TwoTables
  PageFailures = TRUE
  PowerFailures = TRUE
SPECIFICATION Spec
INVARIANTS TypeOK ConsistentWhenIdle
PROPERTIES ImplementsFileStore CreateIsAtomic
