------------------------------- MODULE Editor -------------------------------
(***************************************************************************)
(* The full-screen editor (editor/editor.cpp) on one file of the mounted   *)
(* drive.  lines[k] is the text of line k - 1 of the code: its array of    *)
(* characters up to line_lens; total_lines is Len(lines).  A step handles  *)
(* one key and includes the adjustment of scroll_y before the next screen  *)
(* is drawn.  The cursor is counted from 0 as in the code.                 *)
(***************************************************************************)
EXTENDS Integers, Sequences

CONSTANTS MaxLines,     \* MAX_LINES (128)
          MaxCols,      \* MAX_COLS (74): a line holds one character less
          VisibleRows,  \* VISIBLE_ROWS (23)
          ReadLimit,    \* bytes read from a file (8191)
          SaveLimit,    \* bytes after which saving stops (8100)
          Chars,        \* printable characters
          Space,        \* the character a tab inserts
          NL, CR,       \* line feed and carriage return
          Files,        \* what the file may hold at first; <<>> is also no file
          Stray         \* what a failed transfer may leave in the place of a text

ASSUME EditorAssumption ==
  /\ {MaxLines, MaxCols, VisibleRows} \subseteq Nat \ {0}
  /\ {ReadLimit, SaveLimit} \subseteq Nat \ {0} /\ SaveLimit <= ReadLimit
  /\ Space \in Chars /\ NL \notin Chars /\ CR \notin Chars /\ NL # CR

VARIABLES editing,            \* inside editor_open
          lines, cur_x, cur_y, scroll_y, is_dirty,
          file,               \* the content of the file on the drive
          lost                \* ghost: shown as unmodified, but a transfer failed

vars == <<editing, lines, cur_x, cur_y, scroll_y, is_dirty, file, lost>>

Init ==
  /\ editing = FALSE
  /\ lines = <<<<>>>>
  /\ cur_x = 0 /\ cur_y = 0 /\ scroll_y = 0
  /\ is_dirty = FALSE /\ lost = FALSE
  /\ file \in Files

-----------------------------------------------------------------------------
AtMost(a, b) == IF a < b THEN a ELSE b

Line == lines[cur_y + 1]

\* One byte of load_file: CR is skipped, a line is cut at its maximum, and
\* nothing is read after the line feed that fills the last line.
LoadByte(ls, ch) ==
  LET last == ls[Len(ls)]
  IN  IF Len(ls) > MaxLines \/ ch = CR THEN ls
      ELSE IF ch = NL THEN Append(ls, <<>>)
      ELSE IF Len(last) < MaxCols - 1 THEN [ls EXCEPT ![Len(ls)] = Append(last, ch)]
      ELSE ls

\* load_file: the lines of at most ReadLimit bytes.
Parse(text) ==
  LET n == AtMost(Len(text), ReadLimit)
      upto[k \in 0..n] ==
        IF k = 0 THEN <<<<>>>> ELSE LoadByte(upto[k - 1], text[k])
  IN  upto[n]

\* The lines joined with line feeds.
TextOf(ls) ==
  LET upto[k \in 0..Len(ls)] ==
        IF k = 0 THEN <<>>
        ELSE IF k = 1 THEN ls[1] ELSE upto[k - 1] \o <<NL>> \o ls[k]
  IN  upto[Len(ls)]

\* The bytes save_file hands to the filesystem: when the limit is met inside a
\* line that is not the last, a line feed is still added.
SavedText(ls) ==
  LET t == TextOf(ls)
      cut == SubSeq(t, 1, SaveLimit)
      more == t[SaveLimit] # NL /\ \E k \in (SaveLimit + 1)..Len(t) : t[k] = NL
  IN  IF Len(t) <= SaveLimit THEN t ELSE IF more THEN Append(cut, NL) ELSE cut

\* The vertical scrolling before a screen is drawn.
Scrolled(y, s) ==
  IF y < s THEN y ELSE IF y >= s + VisibleRows THEN y - VisibleRows + 1 ELSE s

\* The cursor moves to column x of line y.
MoveTo(x, y) ==
  /\ cur_x' = x /\ cur_y' = y
  /\ scroll_y' = Scrolled(y, scroll_y)

\* What editor_open and load_file set whatever they read.
LoadsAs(ls) ==
  /\ ~editing
  /\ editing' = TRUE
  /\ lines' = ls
  /\ cur_x' = 0 /\ cur_y' = 0 /\ scroll_y' = 0
  /\ is_dirty' = FALSE
  /\ UNCHANGED file

\* The file is read; one that is empty or not there is not even asked for.
Open == LoadsAs(Parse(file)) /\ lost' = FALSE

\* read_file finds no page for its buffer: the file shows as empty.
OpenUnread == file # <<>> /\ LoadsAs(<<<<>>>>) /\ lost' = TRUE

\* read_file does not look at the result of its transfer: as many bytes as the
\* file has, of something else.
OpenGarbled ==
  /\ \E t \in Stray : Len(t) = Len(file) /\ LoadsAs(Parse(t))
  /\ lost' = TRUE

\* Ctrl+Q: leave, with or without unsaved changes.
Quit ==
  /\ editing
  /\ editing' = FALSE
  /\ lost' = FALSE
  /\ UNCHANGED <<lines, cur_x, cur_y, scroll_y, is_dirty, file>>

\* Ctrl+S.
Save ==
  /\ editing
  /\ file' = SavedText(lines)
  /\ is_dirty' = FALSE /\ lost' = FALSE
  /\ UNCHANGED <<editing, lines, cur_x, cur_y, scroll_y>>

\* write_file does not look at the result of its transfer either and reports
\* success: the file has its new length, but not the text.
SaveLost ==
  /\ editing
  /\ file' \in {t \in Stray : Len(t) = Len(SavedText(lines))}
  /\ is_dirty' = FALSE /\ lost' = TRUE
  /\ UNCHANGED <<editing, lines, cur_x, cur_y, scroll_y>>

\* Mutant: the buffer counts as saved although the write failed.
SaveFailsClean ==
  /\ editing
  /\ is_dirty' = FALSE
  /\ UNCHANGED <<editing, lines, cur_x, cur_y, scroll_y, file, lost>>

\* No file system is mounted, or it refuses.
SaveFails == editing /\ UNCHANGED vars

-----------------------------------------------------------------------------
KeyUp ==
  /\ editing /\ cur_y > 0
  /\ MoveTo(AtMost(cur_x, Len(lines[cur_y])), cur_y - 1)
  /\ UNCHANGED <<editing, lines, is_dirty, file, lost>>

KeyDown ==
  /\ editing /\ cur_y < Len(lines) - 1
  /\ MoveTo(AtMost(cur_x, Len(lines[cur_y + 2])), cur_y + 1)
  /\ UNCHANGED <<editing, lines, is_dirty, file, lost>>

KeyLeft ==
  /\ editing
  /\ \/ cur_x > 0 /\ MoveTo(cur_x - 1, cur_y)
     \/ cur_x = 0 /\ cur_y > 0 /\ MoveTo(Len(lines[cur_y]), cur_y - 1)
  /\ UNCHANGED <<editing, lines, is_dirty, file, lost>>

\* Mutant: the end of the next line instead of its start.
KeyRightToEnd ==
  /\ editing
  /\ \/ cur_x < Len(Line) /\ MoveTo(cur_x + 1, cur_y)
     \/ /\ cur_x >= Len(Line) /\ cur_y < Len(lines) - 1
        /\ MoveTo(Len(lines[cur_y + 2]), cur_y + 1)
  /\ UNCHANGED <<editing, lines, is_dirty, file, lost>>

KeyRight ==
  /\ editing
  /\ \/ cur_x < Len(Line) /\ MoveTo(cur_x + 1, cur_y)
     \/ cur_x >= Len(Line) /\ cur_y < Len(lines) - 1 /\ MoveTo(0, cur_y + 1)
  /\ UNCHANGED <<editing, lines, is_dirty, file, lost>>

\* Replace line y by the lines of s.
Splice(y, n, s) == SubSeq(lines, 1, y) \o s \o SubSeq(lines, y + n + 1, Len(lines))

BackspaceInLine ==
  /\ editing /\ cur_x > 0
  /\ lines' = Splice(cur_y, 1, <<SubSeq(Line, 1, cur_x - 1) \o SubSeq(Line, cur_x + 1, Len(Line))>>)
  /\ MoveTo(cur_x - 1, cur_y)
  /\ is_dirty' = TRUE /\ lost' = FALSE
  /\ UNCHANGED <<editing, file>>

\* Mutant: lines that do not fit are merged and cut.
BackspaceMergeCut ==
  /\ editing /\ cur_x = 0 /\ cur_y > 0
  /\ LET prev == lines[cur_y]
         all  == prev \o Line
     IN  /\ lines' = Splice(cur_y - 1, 2, <<SubSeq(all, 1, AtMost(Len(all), MaxCols - 1))>>)
         /\ MoveTo(Len(prev), cur_y - 1)
  /\ is_dirty' = TRUE /\ lost' = FALSE
  /\ UNCHANGED <<editing, file>>

\* At the start of a line: merge it into the previous one if both fit.
BackspaceMerge ==
  /\ editing /\ cur_x = 0 /\ cur_y > 0
  /\ LET prev == lines[cur_y]
     IN  /\ Len(prev) + Len(Line) < MaxCols - 1
         /\ lines' = Splice(cur_y - 1, 2, <<prev \o Line>>)
         /\ MoveTo(Len(prev), cur_y - 1)
  /\ is_dirty' = TRUE /\ lost' = FALSE
  /\ UNCHANGED <<editing, file>>

\* Mutant: the limit on lines is not looked at.
EnterUnbounded ==
  /\ editing
  /\ lines' = Splice(cur_y, 1, <<SubSeq(Line, 1, cur_x), SubSeq(Line, cur_x + 1, Len(Line))>>)
  /\ MoveTo(0, cur_y + 1)
  /\ is_dirty' = TRUE /\ lost' = FALSE
  /\ UNCHANGED <<editing, file>>

Enter ==
  /\ editing
  /\ Len(lines) < MaxLines
  /\ lines' = Splice(cur_y, 1, <<SubSeq(Line, 1, cur_x), SubSeq(Line, cur_x + 1, Len(Line))>>)
  /\ MoveTo(0, cur_y + 1)
  /\ is_dirty' = TRUE /\ lost' = FALSE
  /\ UNCHANGED <<editing, file>>

\* n characters ch at the cursor.
InsertChars(ch, n) ==
  /\ editing
  /\ n > 0
  /\ lines' = Splice(cur_y, 1, <<SubSeq(Line, 1, cur_x) \o [i \in 1..n |-> ch]
                                  \o SubSeq(Line, cur_x + 1, Len(Line))>>)
  /\ MoveTo(cur_x + n, cur_y)
  /\ is_dirty' = TRUE /\ lost' = FALSE
  /\ UNCHANGED <<editing, file>>

Room == MaxCols - 1 - Len(Line)

\* A tab inserts up to 4 spaces, as long as they fit.
Tab == InsertChars(Space, AtMost(4, Room))

\* A printable character is ignored when the line is full.
Type(ch) == Room > 0 /\ InsertChars(ch, 1)

Next ==
  \/ Open \/ OpenUnread \/ OpenGarbled \/ Quit
  \/ Save \/ SaveLost \/ SaveFails
  \/ KeyUp \/ KeyDown \/ KeyLeft \/ KeyRight
  \/ BackspaceInLine \/ BackspaceMerge \/ Enter \/ Tab
  \/ \E ch \in Chars : Type(ch)

Spec == Init /\ [][Next]_vars

-----------------------------------------------------------------------------
\* The buffer stays inside the arrays lines[MAX_LINES][MAX_COLS].
FitsArrays ==
  /\ Len(lines) \in 1..MaxLines
  /\ \A k \in 1..Len(lines) : Len(lines[k]) < MaxCols

\* Types of the editor's globals; the text fits the arrays, the cursor is inside
\* its line, and the line is on the screen.
TypeOK ==
  /\ FitsArrays
  /\ {editing, is_dirty, lost} \subseteq BOOLEAN
  /\ lines \in Seq(Seq(Chars)) /\ file \in Seq(Chars \cup {NL, CR})
  /\ cur_y \in 0..(Len(lines) - 1) /\ cur_x \in 0..Len(Line)
  /\ scroll_y \in 0..cur_y /\ cur_y < scroll_y + VisibleRows

\* The cursor as a position in the whole text.
Offset ==
  Len(TextOf(SubSeq(lines, 1, cur_y) \o <<SubSeq(Line, 1, cur_x)>>))

Buffer == INSTANCE TextBuffer
            WITH Chars <- Chars \cup {NL}, modified <- is_dirty,
                 text <- TextOf(lines), cursor <- Offset, stored <- file

\* Splitting, merging and shifting lines amount to inserting and deleting single
\* characters of one text: no key loses or reorders anything, at the limits of
\* a line and of the buffer either; what is saved is what is opened again, and
\* only a failed transfer of load_file or save_file puts anything else in the
\* place of the text or of the file.  For texts within the editor's limits.
ImplementsTextBuffer == Buffer!Spec

\* The left and right arrows step over one character, line breaks included.
ArrowsStepOne ==
  [][/\ KeyLeft  => Offset' = Offset - 1
     /\ KeyRight => Offset' = Offset + 1]_vars

\* A buffer that is not marked as modified is what the file holds, through any
\* sequence of keys, refused saves and failed transfers, unless the transfer of
\* the last load_file or save_file was the one that failed: these two go
\* unnoticed by the editor.
CleanMeansSaved == editing /\ ~is_dirty /\ ~lost => file = TextOf(lines)

\* The editor's own mark, failed transfers or not.
CleanAlwaysSaved == editing /\ ~is_dirty => file = TextOf(lines)
=============================================================================
