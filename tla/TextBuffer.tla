----------------------------- MODULE TextBuffer -----------------------------
(***************************************************************************)
(* What a text editor promises: one text and a cursor in it.  A key moves  *)
(* the cursor, or inserts characters at the cursor, or deletes the one     *)
(* before it; nothing else changes the text.  Saving stores the text, and  *)
(* opening takes it up again.  A transfer between the text and its store   *)
(* may fail unnoticed: that is marked, and nothing else may go wrong.      *)
(***************************************************************************)
EXTENDS Integers, Sequences

CONSTANTS Chars      \* the characters of a text, the line break included

VARIABLES editing,   \* is a session open?
          text,      \* the text being edited
          cursor,    \* characters before the cursor
          modified,  \* shown to the user: changed since it was opened or saved
          stored,    \* the text saved last
          lost       \* shown as not modified, but the last transfer failed

vars == <<editing, text, cursor, modified, stored, lost>>

Before == SubSeq(text, 1, cursor)
After  == SubSeq(text, cursor + 1, Len(text))

Init ==
  /\ editing = FALSE /\ text = <<>> /\ cursor = 0
  /\ modified = FALSE /\ lost = FALSE

OpenAs(failed) ==
  /\ ~editing
  /\ editing' = TRUE
  /\ cursor' = 0
  /\ modified' = FALSE /\ lost' = failed
  /\ UNCHANGED stored

Open == OpenAs(FALSE) /\ text' = stored

\* Nothing is read, or something else of the same length.
OpenLost ==
  /\ OpenAs(TRUE)
  /\ text' = <<>> \/ (text' \in Seq(Chars) /\ Len(text') = Len(stored))

Close ==
  /\ editing /\ editing' = FALSE
  /\ lost' = FALSE
  /\ UNCHANGED <<text, cursor, modified, stored>>

SaveAs(failed) ==
  /\ editing
  /\ modified' = FALSE /\ lost' = failed
  /\ UNCHANGED <<editing, text, cursor>>

Save == SaveAs(FALSE) /\ stored' = text

\* The store has something else of the same length.
SaveLost == SaveAs(TRUE) /\ stored' \in Seq(Chars) /\ Len(stored') = Len(text)

Edited == editing /\ modified' = TRUE /\ lost' = FALSE /\ UNCHANGED <<editing, stored>>

Insert(ch, k) ==
  /\ Edited
  /\ text' = Before \o [i \in 1..k |-> ch] \o After
  /\ cursor' = cursor + k

Delete ==
  /\ Edited
  /\ cursor > 0
  /\ text' = SubSeq(text, 1, cursor - 1) \o After
  /\ cursor' = cursor - 1

Move ==
  /\ editing
  /\ cursor' \in 0..Len(text)
  /\ UNCHANGED <<editing, text, modified, stored, lost>>

Next ==
  \/ Open \/ OpenLost \/ Close \/ Save \/ SaveLost \/ Delete \/ Move
  \/ \E ch \in Chars, k \in 1..4 : Insert(ch, k)

Spec == Init /\ [][Next]_vars
=============================================================================
