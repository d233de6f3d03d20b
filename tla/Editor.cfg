\* Three lines of two characters, two of them on the screen.
CONSTANTS
  a = a  Space = Space  NL = NL  CR = CR
  MaxLines = 3
  MaxCols = 3
  VisibleRows = 2
  ReadLimit = 9
  SaveLimit = 8
  Chars = {a, Space}
  Files <- FilesThatFit
  Stray <- StrayTexts
SPECIFICATION Spec
INVARIANTS TypeOK CleanMeansSaved
PROPERTIES ImplementsTextBuffer ArrowsStepOne
