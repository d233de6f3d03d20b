\* Lines of two characters and a history of two commands.
CONSTANTS
  Printable = {a, b}
  LineMax = 2
  HistMax = 2
  MaxCmds = 3
SPECIFICATION ShellSpec
INVARIANTS ShellTypeOK HistoryIsRecent
PROPERTY DraftRestored
