\* An overwrite that does not fit, on a drive that never fails.
CONSTANTS
  ata0 = ata0  ram0 = ram0  f = f  g = g  x = x  y = y
  Drives = {ata0}
  NoDrive = NoDrive
  NotLoaded = NotLoaded
  NoFile = NoFile
  BootDrive = ata0
  Volatile = {}
  Faulty = {}
  TotalSectors <- FiveSectors
  BitsPerByte = 4
  EntriesPerSector = 1
  TableSectors = 1
  SectorSize = 2
  SectorsPerPage = 1
  Names = {f}
  Vals = {x}
  ByteSizes = {1, 3, 5}
  Blank = Blank
  OldTables <- BlankTables
  PageFailures = FALSE
  PowerFailures = FALSE
SPECIFICATION Spec
INVARIANT FreeBlocksUnclaimed
