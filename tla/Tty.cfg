\* Keys strike at any step of the output.
CONSTANTS
  Blank = Blank
  Width = 2
  Height = 2
  ScrollbackLines = 2
  Chars = {a}
  Strides = {1, 5}
  MaxOut = 7
SPECIFICATION Spec
INVARIANTS HistoryKept ViewShown
PROPERTY ImplementsPaper
