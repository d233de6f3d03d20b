\* Every source of AllPrograms in a freshly started kernel; those of Recompiled
\* are each followed by every source of Recompiled, with what the first left in
\* the static tables.  The run ends when the last program has halted.
SPECIFICATION Spec
CONSTANTS
    MAX_LABELS = 32
    MAX_FIXUPS = 24
    MAX_FUNCS = 8
    MAX_STR_POOL = 32
    MAX_STR_FIXUPS = 4
    CODE_BUF_SIZE = 400
    IntMod = 256
    NodeAddress = 40000
    CharCode <- Codes
    RegMod = 65536
    Programs <- AllPrograms
    Later <- Recompiled
    Misread = FALSE
    MaxCompiles = 2
CHECK_DEADLOCK FALSE
INVARIANTS TypeOK ResultCorrect VerdictCorrect  
PROPERTY Terminates
