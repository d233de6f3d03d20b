-------------------------------- MODULE Tty --------------------------------
(***************************************************************************)
(* The text terminal (kernel/tty.cpp): the live screen, the ring of lines  *)
(* that scrolled off it, and the VGA buffer that shows one or the other.   *)
(*                                                                         *)
(* terminal_putchar runs in a task with interrupts on; the scrolling       *)
(* functions run inside the keyboard interrupt handler, which shares       *)
(* scroll_offset and the VGA buffer with it.  A step of a task ends where  *)
(* the handler can make a difference: before each read of scroll_offset    *)
(* and before each row written to the VGA buffer.  The handler never       *)
(* writes live_screen or history, and reads no row or column, so their     *)
(* updates are joined to one step.  Serial output and the hardware cursor  *)
(* are left out.                                                           *)
(***************************************************************************)
EXTENDS Integers, Sequences, FiniteSetsExt

CONSTANTS Width, Height,      \* VGA_WIDTH (80), VGA_HEIGHT (25)
          ScrollbackLines,    \* SCROLLBACK_LINES (256)
          Chars, Blank,       \* printable characters; the blank cell
          Strides,            \* lines a scrolling key moves (1 and 5)
          MaxOut              \* bound on characters put

ASSUME TtyAssumption ==
  /\ {Width, Height, ScrollbackLines} \subseteq Nat \ {0}
  /\ Blank \notin Chars
  /\ Strides \subseteq Nat \ {0} /\ MaxOut \in Nat

Rows      == 0..(Height - 1)
Columns   == 0..(Width - 1)
Slots     == 0..(ScrollbackLines - 1)
BlankRow  == [x \in Columns |-> Blank]

VARIABLES
  live_screen, terminal_row, terminal_column,
  history, history_count, history_head,
  scroll_offset,
  vga,                    \* VGA_BUFFER by row
  pc, ch,                 \* the step terminal_putchar is at, its character
  x0, y0,                 \* the cell to be copied to the VGA buffer
  start_line, y, ret,     \* terminal_render: its locals, where it returns to
  gone, out,              \* ghosts: the rows that left the screen; characters put
  crossed                 \* ghost: did a key render in the middle of a character?

screen_vars  == <<live_screen, terminal_row, terminal_column>>
history_vars == <<history, history_count, history_head, gone>>
local_vars   == <<ch, x0, y0, start_line, y, ret, out>>
vars == <<screen_vars, history_vars, scroll_offset, vga, pc, local_vars, crossed>>

Init ==
  /\ live_screen = [r \in Rows |-> BlankRow]
  /\ terminal_row = 0 /\ terminal_column = 0
  /\ history = [s \in Slots |-> BlankRow] /\ history_count = 0 /\ history_head = 0
  /\ scroll_offset = 0
  /\ vga = live_screen
  /\ pc = "idle" /\ ch = Blank /\ x0 = 0 /\ y0 = 0
  /\ start_line = 0 /\ y = 0 /\ ret = "idle"
  /\ gone = <<>> /\ out = 0 /\ crossed = FALSE

-----------------------------------------------------------------------------
(* terminal_render.                                                        *)

\* Mutant: the ring is read as if it never wrapped.
HistSlotUnwrapped(line_idx) == line_idx % ScrollbackLines

HistSlot(line_idx) ==
  IF history_count < ScrollbackLines THEN line_idx
  ELSE (history_head + line_idx) % ScrollbackLines

\* Row r of the view that begins at line from: history, then the live screen.
RowOfView(from, r) ==
  LET line_idx == from + r
  IN  IF line_idx < 0 THEN BlankRow
      ELSE IF line_idx < history_count THEN history[HistSlot(line_idx)]
      ELSE live_screen[line_idx - history_count]

\* scroll_offset is read once; the live screen is the view of offset 0.
RenderBegin ==
  /\ pc = "render"
  /\ start_line' = history_count - scroll_offset
  /\ y' = 0
  /\ pc' = "row"
  /\ UNCHANGED <<screen_vars, history_vars, scroll_offset, vga, ch, x0, y0, ret, out>>

RenderRow ==
  /\ pc = "row"
  /\ vga' = [vga EXCEPT ![y] = RowOfView(start_line, y)]
  /\ IF y = Height - 1 THEN pc' = ret /\ UNCHANGED y
                       ELSE y' = y + 1 /\ UNCHANGED pc
  /\ UNCHANGED <<screen_vars, history_vars, scroll_offset, ch, x0, y0, start_line, ret, out>>

-----------------------------------------------------------------------------
(* terminal_putchar.                                                       *)

\* Output while the view is scrolled back returns to the live screen first.
PutBegin(c) ==
  /\ pc = "idle"
  /\ out < MaxOut
  /\ out' = out + 1
  /\ ch' = c
  /\ scroll_offset' = 0
  /\ pc' = IF scroll_offset > 0 THEN "render" ELSE "put"
  /\ ret' = "put"
  /\ UNCHANGED <<screen_vars, history_vars, vga, x0, y0, start_line, y>>

\* Store a cell of the live screen; the same cell of the VGA buffer is next.
StoreCell(r, x, cell) ==
  /\ live_screen' = [live_screen EXCEPT ![r][x] = cell]
  /\ y0' = r /\ x0' = x
  /\ pc' = "vga"

PutBackspace ==
  /\ pc = "put" /\ ch = "backspace"
  /\ IF terminal_column > 0
     THEN /\ terminal_column' = terminal_column - 1
          /\ StoreCell(terminal_row, terminal_column - 1, Blank)
     ELSE /\ pc' = "idle"
          /\ UNCHANGED <<live_screen, terminal_column, x0, y0>>
  /\ UNCHANGED <<terminal_row, history_vars, scroll_offset, vga, ch, start_line, y, ret, out>>

\* Mutant: the column is kept.
PutNewLineKeepsColumn ==
  /\ pc = "put" /\ ch = "newline"
  /\ terminal_row' = terminal_row + 1
  /\ pc' = IF terminal_row + 1 = Height THEN "scroll" ELSE "idle"
  /\ UNCHANGED <<live_screen, terminal_column, history_vars, scroll_offset, vga, local_vars>>

PutNewLine ==
  /\ pc = "put" /\ ch = "newline"
  /\ terminal_column' = 0
  /\ terminal_row' = terminal_row + 1
  /\ pc' = IF terminal_row + 1 = Height THEN "scroll" ELSE "idle"
  /\ UNCHANGED <<live_screen, history_vars, scroll_offset, vga, local_vars>>

PutCell ==
  /\ pc = "put" /\ ch \in Chars
  /\ StoreCell(terminal_row, terminal_column, ch)
  /\ terminal_column' = (terminal_column + 1) % Width
  /\ terminal_row' = IF terminal_column + 1 = Width THEN terminal_row + 1 ELSE terminal_row
  /\ UNCHANGED <<history_vars, scroll_offset, vga, ch, start_line, y, ret, out>>

\* The cell goes to the VGA buffer whatever that shows by now.
CopyCell ==
  /\ pc = "vga"
  /\ vga' = [vga EXCEPT ![y0][x0] = live_screen[y0][x0]]
  /\ pc' = IF terminal_row = Height THEN "scroll" ELSE "idle"
  /\ UNCHANGED <<screen_vars, history_vars, scroll_offset, local_vars>>

\* terminal_scroll up to its call of terminal_render, with head as the new
\* history_head.
ScrollTo(head) ==
  /\ pc = "scroll"
  /\ history' = [history EXCEPT ![history_head] = live_screen[0]]
  /\ history_head' = head
  /\ history_count' = IF history_count < ScrollbackLines THEN history_count + 1 ELSE history_count
  /\ gone' = Append(gone, live_screen[0])
  /\ live_screen' = [r \in Rows |-> IF r < Height - 1 THEN live_screen[r + 1] ELSE BlankRow]
  /\ terminal_row' = Height - 1
  /\ pc' = "render" /\ ret' = "idle"
  /\ UNCHANGED <<terminal_column, scroll_offset, vga, ch, x0, y0, start_line, y, out>>

\* Mutant: the head stays once the ring is full.
ScrollKeepsHead ==
  ScrollTo(IF history_count < ScrollbackLines THEN (history_head + 1) % ScrollbackLines
           ELSE history_head)

Scroll == ScrollTo((history_head + 1) % ScrollbackLines)

\* terminal_initialize, for the clear command.  The history stays.
Clear ==
  /\ pc = "idle"
  /\ terminal_row' = 0 /\ terminal_column' = 0
  /\ scroll_offset' = 0
  /\ live_screen' = [live_screen EXCEPT ![0] = BlankRow]
  /\ y' = 0
  /\ pc' = "clear"
  /\ UNCHANGED <<history_vars, vga, ch, x0, y0, start_line, ret, out>>

ClearRow ==
  /\ pc = "clear"
  /\ live_screen' = [live_screen EXCEPT ![y] = BlankRow]
  /\ vga' = [vga EXCEPT ![y] = BlankRow]
  /\ IF y = Height - 1 THEN pc' = "idle" /\ UNCHANGED y
                       ELSE y' = y + 1 /\ UNCHANGED pc
  /\ UNCHANGED <<terminal_row, terminal_column, history_vars, scroll_offset, ch, x0, y0,
                 start_line, ret, out>>

-----------------------------------------------------------------------------
(* The scrolling functions, inside the keyboard handler.                   *)

\* A render with the task between two characters draws the whole screen.
ShowOffset(offset) ==
  /\ scroll_offset' = offset
  /\ crossed' = (pc # "idle")
  /\ vga' = [r \in Rows |-> RowOfView(history_count - offset, r)]
  /\ UNCHANGED <<screen_vars, history_vars, pc, local_vars>>

ScrollUp(lines) ==
  /\ history_count > 0
  /\ ShowOffset(IF scroll_offset + lines > history_count THEN history_count
                ELSE scroll_offset + lines)

ScrollDown(lines) ==
  /\ scroll_offset # 0
  /\ ShowOffset(IF scroll_offset < lines THEN 0 ELSE scroll_offset - lines)

\* Any key that is a character.
ScrollReset ==
  /\ scroll_offset # 0
  /\ ShowOffset(0)

-----------------------------------------------------------------------------
PutChar ==
  \/ \E c \in Chars \cup {"newline", "backspace"} : PutBegin(c)
  \/ PutBackspace \/ PutNewLine \/ PutCell \/ CopyCell \/ Scroll
  \/ RenderBegin \/ RenderRow

Next ==
  \/ (PutChar \/ Clear \/ ClearRow) /\ UNCHANGED crossed
  \/ \E lines \in Strides : ScrollUp(lines) \/ ScrollDown(lines)
  \/ ScrollReset

Spec == Init /\ [][Next]_vars

-----------------------------------------------------------------------------
IsRow(r) == r \in [Columns -> Chars \cup {Blank}]

\* Types; the view never reaches back beyond the history.
TypeOK ==
  /\ \A r \in Rows : IsRow(live_screen[r]) /\ IsRow(vga[r])
  /\ \A s \in Slots : IsRow(history[s])
  /\ terminal_row \in 0..Height /\ terminal_column \in Columns
  /\ history_count \in 0..ScrollbackLines /\ history_head \in Slots
  /\ scroll_offset \in 0..history_count
  /\ pc \in {"idle", "put", "vga", "scroll", "render", "row", "clear"}
  /\ y \in Rows /\ y0 \in Rows /\ x0 \in Columns

\* The types hold, and the history, oldest line first, is the most recent lines
\* that left the screen, before and after the ring wraps.
HistoryKept ==
  /\ TypeOK
  /\ \A k \in 0..(history_count - 1) :
       history[HistSlot(k)] = gone[Len(gone) - history_count + k + 1]

\* The rows on display: scroll_offset lines back on the roll of all lines.
Displayed ==
  [r \in Rows |-> IF r < scroll_offset THEN gone[Len(gone) - scroll_offset + r + 1]
                  ELSE live_screen[r - scroll_offset]]

\* Between characters the VGA buffer shows the lines scroll_offset back from the
\* live screen, however output, clearing and scrolling keys were mixed, unless
\* the last scrolling key came in the middle of a character.
ViewShown == pc = "idle" /\ ~crossed => vga = Displayed

\* Offset 0 means the live screen is on display.
LiveShown == pc = "idle" /\ scroll_offset = 0 => vga = live_screen

Used(r) == {x \in Columns : r[x] # Blank}

\* The characters of a row up to its last one.
TextOf(r) ==
  LET n == IF Used(r) = {} THEN 0 ELSE 1 + Max(Used(r))
  IN  [k \in 1..n |-> r[k - 1]]

\* The rows that left the screen, then the live ones down to the cursor.
AllLines ==
  [k \in 1..(Len(gone) + terminal_row + 1) |->
     IF k <= Len(gone) THEN TextOf(gone[k])
     ELSE IF k - Len(gone) - 1 \in Rows THEN TextOf(live_screen[k - Len(gone) - 1])
     ELSE <<>>]

Roll == INSTANCE Paper WITH lines <- AllLines

\* Output is a roll of paper: no character is lost, moved or left behind by
\* wrapping, scrolling, backspace or clear, also when the handler scrolls the
\* view at any point of it.
ImplementsPaper == Roll!Spec
=============================================================================
