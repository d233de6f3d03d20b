\* Two drives of different size that share the buffers; the
\* transfers of ata0 may fail after any number of sectors.
CONSTANTS
  ata0 = ata0  ram0 = ram0  f = f  g = g  x = x  y = y
  Drives = {ata0, ram0}
  NoDrive = NoDrive
  NotLoaded = NotLoaded
  NoFile = NoFile
  BootDrive = ata0
  Volatile = {ram0}
  Faulty = {ata0}
  TotalSectors <- LargerRam
  BitsPerByte = 5
  EntriesPerSector = 1
  TableSectors = 1
  SectorSize = 1
  SectorsPerPage = 2
  Names = {f, g}
  Vals = {x}
  ByteSizes = {0, 2}
  Blank = Blank
  OldTables <- BlankTables
  PageFailures = FALSE
  PowerFailures = FALSE
SPECIFICATION Spec
INVARIANT AccountingExact
PROPERTY ImplementsFileStore
