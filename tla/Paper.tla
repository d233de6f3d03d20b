------------------------------- MODULE Paper -------------------------------
(***************************************************************************)
(* What a terminal promises of its output: a roll of paper.  A character   *)
(* is put at the end of the last line, a line feed or a full line starts   *)
(* another, a backspace takes back the last character of the last line,    *)
(* and clearing tears off the end of the roll.                             *)
(***************************************************************************)
EXTENDS Integers, Sequences

CONSTANTS Chars,   \* the printable characters
          Width    \* characters of a line

VARIABLES lines    \* the lines, each a sequence of characters

Init == lines = <<<<>>>>

Last == lines[Len(lines)]

LastBecomes(l) == Append(SubSeq(lines, 1, Len(lines) - 1), l)

PutChar(c) ==
  lines' = IF Len(Last) + 1 < Width THEN LastBecomes(Append(Last, c))
           ELSE Append(LastBecomes(Append(Last, c)), <<>>)

NewLine == lines' = Append(lines, <<>>)

Backspace ==
  /\ Last # <<>>
  /\ lines' = LastBecomes(SubSeq(Last, 1, Len(Last) - 1))

Clear == \E k \in 0..(Len(lines) - 1) : lines' = Append(SubSeq(lines, 1, k), <<>>)

Next == (\E c \in Chars : PutChar(c)) \/ NewLine \/ Backspace \/ Clear

Spec == Init /\ [][Next]_lines
=============================================================================
