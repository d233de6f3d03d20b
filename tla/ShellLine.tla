----------------------------- MODULE ShellLine -----------------------------
(***************************************************************************)
(* The command line of the shell (shell_task in kernel/shell.cpp): the     *)
(* line being typed, the history that the arrow keys browse, and the draft *)
(* that browsing sets aside.  A step handles one key.                      *)
(***************************************************************************)
EXTENDS Integers, Sequences, SequencesExt

CONSTANTS Printable, \* printable characters
          LineMax,   \* characters of a line (127)
          HistMax,   \* SHELL_HIST_MAX (16)
          MaxCmds    \* bound on commands executed

ASSUME ShellLineAssumption ==
  /\ {LineMax, HistMax} \subseteq Nat \ {0}
  /\ MaxCmds \in Nat

VARIABLES line,            \* line[0..pos-1]
          shell_history, shell_hist_browse, shell_draft,
          executed,        \* ghost: the commands handed to shell_execute
          typed            \* ghost: the line when browsing began

shell_vars == <<line, shell_history, shell_hist_browse, shell_draft, executed, typed>>

ShellInit ==
  /\ line = <<>>
  /\ shell_history = <<>> /\ shell_hist_browse = -1 /\ shell_draft = <<>>
  /\ executed = <<>> /\ typed = <<>>

Browsing == shell_hist_browse # -1

CtrlC ==
  /\ line' = <<>>
  /\ shell_hist_browse' = -1 /\ shell_draft' = <<>>
  /\ UNCHANGED <<shell_history, executed, typed>>

\* Show entry b of the history.
Show(b) == shell_hist_browse' = b /\ line' = shell_history[b + 1]

\* Mutant: every step up sets the shown line aside.
UpAlwaysDrafts ==
  /\ shell_history # <<>>
  /\ shell_draft' = line
  /\ typed' = IF Browsing THEN typed ELSE line
  /\ Show(IF Browsing THEN (IF shell_hist_browse > 0 THEN shell_hist_browse - 1 ELSE 0)
          ELSE Len(shell_history) - 1)
  /\ UNCHANGED <<shell_history, executed>>

Up ==
  /\ shell_history # <<>>
  /\ shell_draft' = IF Browsing THEN shell_draft ELSE line
  /\ typed' = IF Browsing THEN typed ELSE line
  /\ Show(IF Browsing THEN (IF shell_hist_browse > 0 THEN shell_hist_browse - 1 ELSE 0)
          ELSE Len(shell_history) - 1)
  /\ UNCHANGED <<shell_history, executed>>

\* Mutant: one entry too far.
DownOffEnd ==
  /\ Browsing
  /\ IF shell_hist_browse < Len(shell_history)
     THEN shell_hist_browse' = shell_hist_browse + 1 /\ UNCHANGED line
     ELSE shell_hist_browse' = -1 /\ line' = shell_draft
  /\ UNCHANGED <<shell_history, shell_draft, executed, typed>>

Down ==
  /\ Browsing
  /\ IF shell_hist_browse < Len(shell_history) - 1
     THEN Show(shell_hist_browse + 1)
     ELSE shell_hist_browse' = -1 /\ line' = shell_draft
  /\ UNCHANGED <<shell_history, shell_draft, executed, typed>>

\* Mutant: a full history is not shifted.
RememberedStuck(cmd) ==
  IF shell_history # <<>> /\ Last(shell_history) = cmd THEN shell_history
  ELSE IF Len(shell_history) < HistMax THEN Append(shell_history, cmd)
  ELSE [shell_history EXCEPT ![HistMax] = cmd]

\* The history after cmd: a repetition of the last entry is not entered again,
\* the oldest entry makes room when the history is full.
Remembered(cmd) ==
  IF shell_history # <<>> /\ Last(shell_history) = cmd THEN shell_history
  ELSE IF Len(shell_history) < HistMax THEN Append(shell_history, cmd)
  ELSE Append(Tail(shell_history), cmd)

EnterLine ==
  /\ line # <<>> => Len(executed) < MaxCmds
  /\ shell_history' = IF line = <<>> THEN shell_history ELSE Remembered(line)
  /\ executed' = IF line = <<>> THEN executed ELSE Append(executed, line)
  /\ line' = <<>>
  /\ shell_hist_browse' = -1 /\ shell_draft' = <<>>
  /\ UNCHANGED typed

Backspace ==
  /\ line # <<>>
  /\ line' = Front(line)
  /\ UNCHANGED <<shell_history, shell_hist_browse, shell_draft, executed, typed>>

TypeChar(ch) ==
  /\ Len(line) < LineMax
  /\ line' = Append(line, ch)
  /\ UNCHANGED <<shell_history, shell_hist_browse, shell_draft, executed, typed>>

ShellNext ==
  \/ CtrlC \/ Up \/ Down \/ EnterLine \/ Backspace
  \/ \E ch \in Printable : TypeChar(ch)

ShellSpec == ShellInit /\ [][ShellNext]_shell_vars

-----------------------------------------------------------------------------
Lines == BoundedSeq(Printable, LineMax)

\* Types of the shell's statics: browse names an entry of the history or none.
ShellTypeOK ==
  /\ {line, shell_draft, typed} \subseteq Lines
  /\ \A k \in 1..Len(shell_history) : shell_history[k] \in Lines \ {<<>>}
  /\ Len(shell_history) <= HistMax
  /\ shell_hist_browse \in -1..(Len(shell_history) - 1)

\* The commands of a sequence, immediate repetitions left out.
Distinct(cmds) ==
  LET upto[k \in 0..Len(cmds)] ==
        IF k = 0 THEN <<>>
        ELSE IF k > 1 /\ cmds[k] = cmds[k - 1] THEN upto[k - 1]
        ELSE Append(upto[k - 1], cmds[k])
  IN  upto[Len(cmds)]

\* The last entries of s, as many as the history holds.
Recent(s) == SubSeq(s, IF Len(s) > HistMax THEN Len(s) - HistMax + 1 ELSE 1, Len(s))

\* The history is exactly the last commands executed, immediate repetitions
\* left out, whatever browsing, editing of old entries and Ctrl+C went on
\* between them.
HistoryIsRecent == shell_history = Recent(Distinct(executed))

\* Coming down from the history restores the line that was being typed, however
\* far the browsing went and whatever was edited on the way.
DraftRestored ==
  [][Down /\ shell_hist_browse' = -1 => line' = typed]_shell_vars
=============================================================================
