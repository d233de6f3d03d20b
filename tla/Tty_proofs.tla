----------------------------- MODULE Tty_proofs -----------------------------
(***************************************************************************)
(* Proofs about the terminal, for every size of the screen and of the      *)
(* scrollback ring, with the scrolling keys striking at every step.        *)
(***************************************************************************)
EXTENDS Tty, TLAPS

RowSet == [Columns -> Chars \cup {Blank}]

\* TypeOK with the domains of the arrays, and what the points of
\* terminal_putchar say of its locals.
Shape ==
  /\ live_screen \in [Rows -> RowSet] /\ vga \in [Rows -> RowSet]
  /\ history \in [Slots -> RowSet] /\ gone \in Seq(RowSet)
  /\ pc \notin {"vga", "scroll"} => terminal_row \in Rows
  /\ ret \in {"idle", "put"}
  /\ pc = "row" => start_line \in 0..history_count

\* The ring: until it is full its head is its count, and it holds every row that
\* has left the screen.
RingInv ==
  /\ Len(gone) >= history_count
  /\ history_count < ScrollbackLines => history_head = history_count /\ Len(gone) = history_count

\* What the VGA buffer shows, if no key has struck in the middle of a character.
ViewInv ==
  ~crossed =>
    /\ pc # "idle" => scroll_offset = 0
    /\ pc = "idle" => vga = Displayed
    /\ pc \in {"put", "scroll"} => vga = live_screen
    /\ pc = "vga" => \A r \in Rows, x \in Columns :
                       ~(r = y0 /\ x = x0) => vga[r][x] = live_screen[r][x]
    /\ pc = "row" => start_line = history_count /\ \A r \in Rows : r < y => vga[r] = live_screen[r]
    /\ pc = "clear" => \A r \in Rows : r < y => vga[r] = live_screen[r]

IInv == HistoryKept /\ Shape /\ RingInv /\ ViewInv

HistoryRows ==
  \A k \in 0..(history_count - 1) :
    history[HistSlot(k)] = gone[Len(gone) - history_count + k + 1]

-----------------------------------------------------------------------------
\* Facts about the constants.
LEMMA Basics ==
  /\ Width \in Nat \ {0} /\ Height \in Nat \ {0} /\ ScrollbackLines \in Nat \ {0}
  /\ 0 \in Rows /\ 0 \in Columns /\ 0 \in Slots /\ Height - 1 \in Rows
  /\ BlankRow \in RowSet
BY TtyAssumption DEF Rows, Columns, Slots, BlankRow, RowSet

\* Indices of the ring wrap at most once.
LEMMA RingMod ==
  ASSUME NEW S \in Nat \ {0}, NEW h \in 0..(S - 1), NEW k \in 0..S
  PROVE  (h + k) % S = IF h + k < S THEN h + k ELSE h + k - S
<1>1. CASE h + k < S
  BY <1>1
<1>2. CASE h + k >= S
  <2>1. h + k - S \in 0..(S - 1)
    BY <1>2
  <2>2. \A j \in 0..(S - 1) : (j + S) % S = j
    OBVIOUS
  <2>3. (h + k - S) + S = h + k
    OBVIOUS
  <2> QED
    BY <1>2, <2>1, <2>2, <2>3
<1> QED
  BY <1>1, <1>2

\* The slot terminal_render reads for a line of the history is one of the ring.
LEMMA SlotInRing ==
  ASSUME TypeOK, NEW k \in 0..(history_count - 1)
  PROVE  HistSlot(k) \in Slots
<1>1. history_count \in 0..ScrollbackLines /\ history_head \in 0..(ScrollbackLines - 1)
      /\ ScrollbackLines \in Nat \ {0}
  BY Basics DEF TypeOK, Slots
<1>2. CASE history_count < ScrollbackLines
  BY <1>1, <1>2 DEF HistSlot, Slots
<1>3. CASE ~ (history_count < ScrollbackLines)
  <2>1. HistSlot(k) = (history_head + k) % ScrollbackLines
    BY <1>3 DEF HistSlot
  <2>2. (history_head + k) % ScrollbackLines =
          IF history_head + k < ScrollbackLines THEN history_head + k
          ELSE history_head + k - ScrollbackLines
    <3>1. k \in 0..ScrollbackLines
      BY <1>1
    <3> QED
      BY <1>1, <3>1, RingMod
  <2> QED
    BY <1>1, <2>1, <2>2 DEF Slots
<1> QED
  BY <1>2, <1>3

\* Every row terminal_render draws is a row of the history or of the live screen.
LEMMA ViewRow ==
  ASSUME TypeOK, Shape, NEW from \in 0..history_count, NEW r \in Rows
  PROVE  /\ RowOfView(from, r) \in RowSet
         /\ RowOfView(from, r) = IF from + r < history_count THEN history[HistSlot(from + r)]
                                 ELSE live_screen[from + r - history_count]
<1>0. history_count \in Nat /\ from \in Nat /\ r \in Nat /\ r < Height /\ Height \in Nat \ {0}
  BY Basics DEF TypeOK, Rows
<1>1. RowOfView(from, r) = IF from + r < history_count THEN history[HistSlot(from + r)]
                           ELSE live_screen[from + r - history_count]
  BY <1>0 DEF RowOfView
<1>2. CASE from + r < history_count
  <2>1. from + r \in 0..(history_count - 1)
    BY <1>0, <1>2
  <2>2. HistSlot(from + r) \in Slots
    BY <2>1, SlotInRing
  <2>3. RowOfView(from, r) = history[HistSlot(from + r)]
    BY <1>1, <1>2
  <2>4. history[HistSlot(from + r)] \in RowSet
    BY <2>2 DEF Shape
  <2> QED
    BY <1>1, <2>3, <2>4
<1>3. CASE ~ (from + r < history_count)
  <2>1. from + r - history_count \in Rows
    BY <1>0, <1>3 DEF Rows
  <2>2. live_screen[from + r - history_count] \in RowSet
    BY <2>1 DEF Shape
  <2> QED
    BY <1>1, <1>3, <2>2
<1> QED
  BY <1>2, <1>3

\* The view of offset 0 is the live screen.
LEMMA LiveView ==
  ASSUME TypeOK, Shape, NEW r \in Rows
  PROVE  RowOfView(history_count, r) = live_screen[r]
<1>0. history_count \in Nat /\ r \in Nat /\ history_count \in 0..history_count
  BY Basics DEF TypeOK, Rows
<1>1. ~ (history_count + r < history_count) /\ history_count + r - history_count = r
  BY <1>0
<1> QED
  BY <1>0, <1>1, ViewRow

\* What terminal_render draws for an offset is what the rows that left the screen,
\* and then the live ones, are.
LEMMA ViewFromRoll ==
  ASSUME HistoryKept, Shape, RingInv, NEW o \in 0..history_count, NEW r \in Rows
  PROVE  RowOfView(history_count - o, r)
           = IF r < o THEN gone[Len(gone) - o + r + 1] ELSE live_screen[r - o]
<1>0. TypeOK /\ HistoryRows
  BY DEF HistoryKept, HistoryRows
<1>1. /\ history_count \in Nat /\ o \in Nat /\ o <= history_count
      /\ Len(gone) \in Nat
  BY <1>0, Basics DEF TypeOK, Shape
<1> DEFINE from == history_count - o
<1>2. r \in Nat /\ from \in 0..history_count
  BY <1>1, Basics DEF Rows
<1>3. RowOfView(from, r) = IF from + r < history_count THEN history[HistSlot(from + r)]
                           ELSE live_screen[from + r - history_count]
  BY <1>0, <1>2, ViewRow
<1>4. CASE r < o
  <2>1. from + r \in 0..(history_count - 1) /\ from + r < history_count
    BY <1>1, <1>2, <1>4
  <2>2. history[HistSlot(from + r)] = gone[Len(gone) - history_count + (from + r) + 1]
    BY <1>0, <2>1 DEF HistoryRows
  <2>3. Len(gone) - history_count + (from + r) + 1 = Len(gone) - o + r + 1
    BY <1>1, <1>2
  <2> QED
    BY <1>3, <1>4, <2>1, <2>2, <2>3
<1>5. CASE ~ (r < o)
  <2>1. ~ (from + r < history_count) /\ from + r - history_count = r - o
    BY <1>1, <1>2, <1>5
  <2> QED
    BY <1>3, <1>5, <2>1
<1> QED
  BY <1>4, <1>5

\* With offset 0 the live screen is on display.
LEMMA LiveDisplayed ==
  ASSUME NEW live \in [Rows -> RowSet], NEW g, NEW n
  PROVE  [r \in Rows |-> IF r < 0 THEN g[n - 0 + r + 1] ELSE live[r - 0]] = live
<1>1. \A r \in Rows : ~ (r < 0) /\ r - 0 = r
  BY Basics DEF Rows
<1> QED
  BY <1>1

-----------------------------------------------------------------------------
\* A blank screen satisfies the invariant.
LEMMA InitIInv == Init => IInv
<1> SUFFICES ASSUME Init PROVE IInv
  OBVIOUS
<1> USE Basics
<1>1. Shape
  <2>1. gone \in Seq(RowSet)
    BY DEF Init
  <2> QED
    BY <2>1 DEF Init, Shape
<1>2. TypeOK
  BY <1>1 DEF Init, TypeOK, IsRow, RowSet, Shape
<1>3. RingInv
  BY DEF Init, RingInv
<1>4. HistoryKept
  BY <1>2 DEF Init, HistoryKept
<1>5. ViewInv
  <2>1. Displayed = live_screen
    BY <1>1, LiveDisplayed DEF Init, Displayed, Shape
  <2> QED
    BY <2>1 DEF Init, ViewInv
<1> QED
  BY <1>1, <1>3, <1>4, <1>5 DEF IInv


\* The scalar part of TypeOK.
Scalars ==
  /\ terminal_row \in 0..Height /\ terminal_column \in Columns
  /\ history_count \in 0..ScrollbackLines /\ history_head \in Slots
  /\ scroll_offset \in 0..history_count
  /\ pc \in {"idle", "put", "vga", "scroll", "render", "row", "clear"}
  /\ y \in Rows /\ y0 \in Rows /\ x0 \in Columns

\* The parts of the invariant make up the whole, before and after a step.
LEMMA Parts ==
  /\ IInv => TypeOK /\ Shape /\ Scalars /\ RingInv /\ HistoryRows /\ ViewInv
  /\ Shape' /\ Scalars' /\ RingInv' /\ HistoryRows' /\ ViewInv' => IInv'
<1>1. IInv => TypeOK /\ Shape /\ Scalars /\ RingInv /\ HistoryRows /\ ViewInv
  BY DEF IInv, HistoryKept, TypeOK, Scalars, HistoryRows
<1>2. Shape' /\ Scalars' => TypeOK'
  BY DEF Shape, Scalars, TypeOK, IsRow, RowSet
<1>3. Shape' /\ Scalars' /\ RingInv' /\ HistoryRows' /\ ViewInv' => IInv'
  BY <1>2 DEF IInv, HistoryKept, HistoryRows
<1> QED
  BY <1>1, <1>3

\* A step that leaves the history alone.
LEMMA HistoryUntouched ==
  ASSUME IInv, UNCHANGED history_vars
  PROVE  /\ RingInv' /\ HistoryRows'
         /\ UNCHANGED <<history, history_count, history_head, gone>>
<1>1. UNCHANGED <<history, history_count, history_head, gone>>
  BY DEF history_vars
<1>2. RingInv /\ HistoryRows
  BY Parts
<1>3. RingInv'
  BY <1>1, <1>2 DEF RingInv
<1>4. HistoryRows'
  BY <1>1, <1>2 DEF HistoryRows, HistSlot
<1> QED
  BY <1>1, <1>3, <1>4

\* With offset 0 after a step, the live screen is then on display.
LEMMA LiveOnDisplay ==
  ASSUME live_screen' \in [Rows -> RowSet], scroll_offset' = 0
  PROVE  Displayed' = live_screen'
BY LiveDisplayed DEF Displayed

\* terminal_render.
LEMMA RenderSteps ==
  ASSUME IInv, RenderBegin \/ RenderRow, crossed' = crossed
  PROVE  IInv'
<1> USE Basics
<1>0. TypeOK /\ Shape /\ Scalars /\ RingInv /\ ViewInv
  BY Parts
<1>1. RingInv' /\ HistoryRows' /\ UNCHANGED <<history, history_count, history_head, gone>>
  BY HistoryUntouched DEF RenderBegin, RenderRow
<1>2. UNCHANGED <<live_screen, terminal_row, terminal_column, scroll_offset, ch, x0, y0, ret, out>>
  BY DEF RenderBegin, RenderRow, screen_vars
<1>3. history_count \in Nat /\ scroll_offset \in 0..history_count /\ y \in Nat
  BY <1>0 DEF Scalars, Rows
<1>4. CASE RenderBegin
  <2>1. pc = "render" /\ pc' = "row" /\ y' = 0 /\ vga' = vga /\ start_line' = history_count - scroll_offset
    BY <1>4 DEF RenderBegin
  <2>2. start_line' \in 0..history_count
    BY <1>3, <2>1
  <2>3. Shape'
    BY <1>0, <1>1, <1>2, <2>1, <2>2 DEF Shape
  <2>4. Scalars'
    BY <1>0, <1>1, <1>2, <2>1 DEF Scalars
  <2>5. ViewInv'
    <3> SUFFICES ASSUME ~crossed
                 PROVE  scroll_offset = 0 /\ start_line' = history_count /\ \A r \in Rows : ~ (r < 0)
      BY <1>1, <1>2, <2>1 DEF ViewInv
    <3>1. scroll_offset = 0
      BY <1>0, <2>1 DEF ViewInv
    <3> QED
      BY <1>3, <2>1, <3>1 DEF Rows
  <2> QED
    BY <1>1, <2>3, <2>4, <2>5, Parts
<1>5. CASE RenderRow
  <2>1. /\ pc = "row" /\ vga' = [vga EXCEPT ![y] = RowOfView(start_line, y)]
        /\ start_line' = start_line
        /\ IF y = Height - 1 THEN pc' = ret /\ UNCHANGED y ELSE y' = y + 1 /\ UNCHANGED pc
    BY <1>5 DEF RenderRow
  <2>2. start_line \in 0..history_count /\ y \in Rows /\ ret \in {"idle", "put"} /\ terminal_row \in Rows
    BY <1>0, <2>1 DEF Shape, Scalars
  <2>3. RowOfView(start_line, y) \in RowSet
    BY <1>0, <2>2, ViewRow
  <2>4. /\ vga' \in [Rows -> RowSet] /\ vga'[y] = RowOfView(start_line, y)
        /\ \A r \in Rows : r # y => vga'[r] = vga[r]
    BY <1>0, <2>1, <2>2, <2>3 DEF Shape
  <2>5. y' \in Rows /\ pc' \in {"row", "idle", "put"}
    BY <2>1, <2>2 DEF Rows
  <2>6. Shape'
    BY <1>0, <1>1, <1>2, <2>1, <2>2, <2>4 DEF Shape
  <2>7. Scalars'
    BY <1>0, <1>1, <1>2, <2>5 DEF Scalars
  <2>8. ViewInv'
    <3> SUFFICES ASSUME ~crossed PROVE ViewInv'
      BY DEF ViewInv
    <3>1. scroll_offset = 0 /\ start_line = history_count /\ \A r \in Rows : r < y => vga[r] = live_screen[r]
      BY <1>0, <2>1 DEF ViewInv
    <3>2. vga'[y] = live_screen[y]
      BY <1>0, <2>2, <2>4, <3>1, LiveView
    <3>3. CASE y = Height - 1
      <4>1. \A r \in Rows : vga'[r] = live_screen[r]
        <5> SUFFICES ASSUME NEW r \in Rows PROVE vga'[r] = live_screen[r]
          OBVIOUS
        <5>1. r = y \/ r < y
          BY <3>3 DEF Rows
        <5> QED
          BY <2>4, <3>1, <3>2, <5>1, <2>2 DEF Rows
      <4>2. vga' = live_screen /\ vga' = live_screen'
        BY <1>0, <1>2, <2>4, <4>1 DEF Shape
      <4>3. Displayed' = live_screen'
        BY <1>0, <1>2, <3>1, LiveOnDisplay DEF Shape
      <4>4. pc' \in {"idle", "put"} /\ scroll_offset' = 0
        BY <1>2, <2>1, <2>2, <3>1, <3>3
      <4> QED
        BY <4>2, <4>3, <4>4 DEF ViewInv
    <3>4. CASE y # Height - 1
      <4>1. pc' = "row" /\ y' = y + 1
        BY <2>1, <3>4
      <4>2. \A r \in Rows : r < y + 1 => vga'[r] = live_screen[r]
        <5> SUFFICES ASSUME NEW r \in Rows, r < y + 1 PROVE vga'[r] = live_screen[r]
          OBVIOUS
        <5>1. r = y \/ (r < y /\ r # y)
          BY <2>2 DEF Rows
        <5> QED
          BY <2>4, <3>1, <3>2, <5>1
      <4> QED
        BY <1>1, <1>2, <2>1, <3>1, <4>1, <4>2 DEF ViewInv
    <3> QED
      BY <3>3, <3>4
  <2> QED
    BY <1>1, <2>6, <2>7, <2>8, Parts
<1> QED
  BY <1>4, <1>5

\* The start of terminal_putchar.
LEMMA BeginStep ==
  ASSUME IInv, NEW c, PutBegin(c), crossed' = crossed
  PROVE  IInv'
<1> USE Basics
<1>0. TypeOK /\ Shape /\ Scalars /\ RingInv /\ ViewInv
  BY Parts
<1>1. RingInv' /\ HistoryRows' /\ UNCHANGED <<history, history_count, history_head, gone>>
  BY HistoryUntouched DEF PutBegin
<1>2. /\ pc = "idle" /\ scroll_offset' = 0 /\ ret' = "put"
      /\ pc' = IF scroll_offset > 0 THEN "render" ELSE "put"
      /\ UNCHANGED <<live_screen, terminal_row, terminal_column, vga, x0, y0, start_line, y>>
  BY DEF PutBegin, screen_vars
<1>3. history_count \in Nat /\ scroll_offset \in Nat
  BY <1>0 DEF Scalars
<1>4. Shape'
  BY <1>0, <1>1, <1>2 DEF Shape
<1>5. Scalars'
  BY <1>0, <1>1, <1>2, <1>3 DEF Scalars
<1>6. ViewInv'
  <2> SUFFICES ASSUME ~crossed, ~ (scroll_offset > 0) PROVE vga = live_screen
    BY <1>2 DEF ViewInv
  <2>1. scroll_offset = 0
    BY <1>3
  <2>2. vga = Displayed
    BY <1>0, <1>2 DEF ViewInv
  <2> QED
    BY <1>0, <2>1, <2>2, LiveDisplayed DEF Displayed, Shape
<1> QED
  BY <1>1, <1>4, <1>5, <1>6, Parts

\* terminal_putchar storing a cell of the live screen.
LEMMA CellStep ==
  ASSUME IInv, PutBackspace \/ PutCell, crossed' = crossed
  PROVE  IInv'
<1> USE Basics
<1>0. TypeOK /\ Shape /\ Scalars /\ RingInv /\ ViewInv
  BY Parts
<1>1. RingInv' /\ HistoryRows' /\ UNCHANGED <<history, history_count, history_head, gone>>
  BY HistoryUntouched DEF PutBackspace, PutCell
<1>2. /\ pc = "put" /\ UNCHANGED <<scroll_offset, vga, ch, start_line, y, ret, out>>
  BY DEF PutBackspace, PutCell
<1>3. terminal_row \in Rows /\ terminal_column \in Columns
  BY <1>0, <1>2 DEF Shape, Scalars
<1>4. \/ /\ pc' = "idle" /\ UNCHANGED <<live_screen, terminal_row, terminal_column, x0, y0>>
      \/ \E x \in Columns, cell \in Chars \cup {Blank} :
           /\ StoreCell(terminal_row, x, cell)
           /\ terminal_column' \in Columns /\ terminal_row' \in 0..Height
  <2>1. CASE PutBackspace
    <3>1. CASE terminal_column > 0
      <4>1. terminal_column - 1 \in Columns
        BY <1>3, <3>1 DEF Columns
      <4>2. StoreCell(terminal_row, terminal_column - 1, Blank) /\ terminal_column' = terminal_column - 1
            /\ terminal_row' = terminal_row
        BY <2>1, <3>1 DEF PutBackspace
      <4>3. terminal_row \in 0..Height
        BY <1>0 DEF Scalars
      <4> QED
        BY <4>1, <4>2, <4>3
    <3>2. CASE ~ (terminal_column > 0)
      BY <2>1, <3>2 DEF PutBackspace
    <3> QED
      BY <3>1, <3>2
  <2>2. CASE PutCell
    <3>1. /\ StoreCell(terminal_row, terminal_column, ch) /\ ch \in Chars
          /\ terminal_column' = (terminal_column + 1) % Width
          /\ terminal_row' = IF terminal_column + 1 = Width THEN terminal_row + 1 ELSE terminal_row
      BY <2>2 DEF PutCell
    <3>2. (terminal_column + 1) % Width \in Columns
      BY <1>3 DEF Columns
    <3>3. terminal_row' \in 0..Height
      BY <1>3, <3>1 DEF Rows
    <3> QED
      BY <1>3, <3>1, <3>2, <3>3
  <2> QED
    BY <2>1, <2>2
<1>5. CASE pc' = "idle" /\ UNCHANGED <<live_screen, terminal_row, terminal_column, x0, y0>>
  <2>1. Shape' /\ Scalars'
    BY <1>0, <1>1, <1>2, <1>3, <1>5 DEF Shape, Scalars
  <2>2. ViewInv'
    <3> SUFFICES ASSUME ~crossed PROVE vga' = Displayed'
      BY <1>5 DEF ViewInv
    <3>1. scroll_offset = 0 /\ vga = live_screen
      BY <1>0, <1>2 DEF ViewInv
    <3> QED
      BY <1>0, <1>2, <1>5, <3>1, LiveOnDisplay DEF Shape
  <2> QED
    BY <1>1, <2>1, <2>2, Parts
<1>6. ASSUME NEW x \in Columns, NEW cell \in Chars \cup {Blank},
             StoreCell(terminal_row, x, cell),
             terminal_column' \in Columns, terminal_row' \in 0..Height
      PROVE  IInv'
  <2>1. /\ live_screen' = [live_screen EXCEPT ![terminal_row][x] = cell]
        /\ y0' = terminal_row /\ x0' = x /\ pc' = "vga"
    BY <1>6 DEF StoreCell
  <2>2. /\ live_screen' \in [Rows -> RowSet]
        /\ \A r \in Rows, z \in Columns : ~ (r = terminal_row /\ z = x) => live_screen'[r][z] = live_screen[r][z]
    BY <1>0, <1>3, <2>1 DEF Shape, RowSet
  <2>3. Shape' /\ Scalars'
    BY <1>0, <1>1, <1>2, <1>3, <1>6, <2>1, <2>2 DEF Shape, Scalars
  <2>4. ViewInv'
    <3> SUFFICES ASSUME ~crossed
                 PROVE  /\ scroll_offset' = 0
                        /\ \A r \in Rows, z \in Columns : ~ (r = y0' /\ z = x0') => vga'[r][z] = live_screen'[r][z]
      BY <2>1 DEF ViewInv
    <3>1. scroll_offset = 0 /\ vga = live_screen
      BY <1>0, <1>2 DEF ViewInv
    <3> QED
      BY <1>2, <2>1, <2>2, <3>1
  <2> QED
    BY <1>1, <2>3, <2>4, Parts
<1> QED
  BY <1>4, <1>5, <1>6

\* A line feed, and the copy of a cell to the VGA buffer.
LEMMA EndSteps ==
  ASSUME IInv, PutNewLine \/ CopyCell, crossed' = crossed
  PROVE  IInv'
<1> USE Basics
<1>0. TypeOK /\ Shape /\ Scalars /\ RingInv /\ ViewInv
  BY Parts
<1>1. RingInv' /\ HistoryRows' /\ UNCHANGED <<history, history_count, history_head, gone>>
  BY HistoryUntouched DEF PutNewLine, CopyCell
<1>2. /\ UNCHANGED <<live_screen, scroll_offset, x0, y0, start_line, y, ret>>
      /\ pc' \in {"idle", "scroll"} /\ (pc' = "idle" => terminal_row' # Height)
      /\ pc \in {"put", "vga"}
  BY DEF PutNewLine, CopyCell, local_vars, screen_vars
<1>3. terminal_row' \in 0..Height /\ terminal_column' \in Columns
  <2>1. CASE PutNewLine
    <3>1. terminal_row \in Rows
      BY <1>0, <2>1 DEF PutNewLine, Shape
    <3> QED
      BY <2>1, <3>1 DEF PutNewLine, Rows
  <2>2. CASE CopyCell
    BY <1>0, <2>2 DEF CopyCell, screen_vars, Scalars
  <2> QED
    BY <2>1, <2>2
<1>4. pc' = "idle" => terminal_row' \in Rows
  BY <1>2, <1>3 DEF Rows
<1>5. vga' \in [Rows -> RowSet] /\ (~crossed => vga' = live_screen)
  <2>1. CASE PutNewLine
    BY <1>0, <2>1 DEF PutNewLine, Shape, ViewInv
  <2>2. CASE CopyCell
    <3>1. pc = "vga" /\ vga' = [vga EXCEPT ![y0][x0] = live_screen[y0][x0]] /\ y0 \in Rows /\ x0 \in Columns
      BY <1>0, <2>2 DEF CopyCell, Scalars
    <3>2. live_screen \in [Rows -> RowSet] /\ vga \in [Rows -> RowSet]
      BY <1>0 DEF Shape
    <3>3. live_screen[y0][x0] \in Chars \cup {Blank}
      BY <3>1, <3>2 DEF RowSet
    <3>4. vga' \in [Rows -> RowSet]
      BY <3>1, <3>2, <3>3 DEF RowSet
    <3>5. ASSUME ~crossed PROVE vga' = live_screen
      <4>1. \A r \in Rows, z \in Columns : ~ (r = y0 /\ z = x0) => vga[r][z] = live_screen[r][z]
        BY <1>0, <3>1, <3>5 DEF ViewInv
      <4>2. \A r \in Rows, z \in Columns : vga'[r][z] = live_screen[r][z]
        BY <3>1, <3>2, <4>1 DEF RowSet
      <4>3. \A r \in Rows : vga'[r] = live_screen[r]
        BY <3>2, <3>4, <4>2 DEF RowSet
      <4> QED
        BY <3>2, <3>4, <4>3
    <3> QED
      BY <3>4, <3>5
  <2> QED
    BY <2>1, <2>2
<1>6. Shape'
  BY <1>0, <1>1, <1>2, <1>4, <1>5 DEF Shape
<1>7. Scalars'
  BY <1>0, <1>1, <1>2, <1>3 DEF Scalars
<1>8. ViewInv'
  <2> SUFFICES ASSUME ~crossed PROVE scroll_offset' = 0 /\ vga' = live_screen' /\ vga' = Displayed'
    BY <1>2 DEF ViewInv
  <2>1. scroll_offset = 0
    BY <1>0, <1>2 DEF ViewInv
  <2> QED
    BY <1>0, <1>2, <1>5, <2>1, LiveOnDisplay DEF Shape
<1> QED
  BY <1>1, <1>6, <1>7, <1>8, Parts

\* terminal_scroll's step on the ring: the row that leaves the screen becomes the
\* newest of the history, and the oldest goes once the ring is full.
LEMMA ScrollRing ==
  ASSUME IInv, Scroll
  PROVE  /\ RingInv' /\ HistoryRows'
         /\ history' \in [Slots -> RowSet] /\ gone' \in Seq(RowSet)
         /\ history_count' \in 0..ScrollbackLines /\ history_head' \in Slots
         /\ history_count' >= history_count
<1> DEFINE S == ScrollbackLines
           h == history_head
           c == history_count
           G == Len(gone)
           top == live_screen[0]
<1>0. TypeOK /\ Shape /\ Scalars /\ RingInv /\ HistoryRows
  BY Parts
<1>1. /\ S \in Nat \ {0} /\ h \in 0..(S - 1) /\ c \in 0..S /\ G \in Nat /\ G >= c
      /\ c < S => h = c /\ G = c
      /\ top \in RowSet
  BY <1>0, Basics DEF Scalars, Shape, RingInv, Slots
<1>2. /\ history' = [history EXCEPT ![h] = top]
      /\ history_head' = (h + 1) % S
      /\ history_count' = IF c < S THEN c + 1 ELSE c
      /\ gone' = Append(gone, top)
  BY DEF Scroll, ScrollTo
<1>3. /\ history' \in [Slots -> RowSet] /\ history'[h] = top
      /\ \A j \in Slots : j # h => history'[j] = history[j]
  BY <1>0, <1>1, <1>2 DEF Shape, Slots
<1>4. /\ gone' \in Seq(RowSet) /\ Len(gone') = G + 1 /\ gone'[G + 1] = top
      /\ \A k \in 1..G : gone'[k] = gone[k]
  BY <1>0, <1>1, <1>2 DEF Shape
<1>5. (h + 1) % S = IF h + 1 < S THEN h + 1 ELSE 0
  <2>1. 1 \in 0..S
    BY <1>1
  <2>2. (h + 1) % S = IF h + 1 < S THEN h + 1 ELSE h + 1 - S
    BY <1>1, <2>1, RingMod
  <2> QED
    BY <1>1, <2>2
<1>6. history_head' \in Slots /\ history_count' \in 0..S /\ history_count' >= c
  BY <1>1, <1>2, <1>5 DEF Slots
<1>7. \A k \in 0..(c - 1) :
        history[IF c < S THEN k ELSE (h + k) % S] = gone[G - c + k + 1]
  BY <1>0 DEF HistoryRows, HistSlot
<1> HIDE DEF S, h, c, G, top
<1>8. CASE c < S
  <2>1. h = c /\ G = c /\ history_count' = c + 1
    BY <1>1, <1>2, <1>8
  <2>2. RingInv'
    <3>1. c + 1 < S => history_head' = c + 1
      BY <1>2, <1>5, <2>1
    <3> QED
      BY <1>1, <1>4, <2>1, <3>1 DEF RingInv, S
  <2>3. HistoryRows'
    <3> SUFFICES ASSUME NEW k \in 0..c
                 PROVE  history'[IF c + 1 < S THEN k ELSE (history_head' + k) % S]
                          = gone'[(G + 1) - (c + 1) + k + 1]
      <4>1. (c + 1) - 1 = c
        BY <1>1
      <4> QED
        BY <1>4, <2>1, <4>1 DEF HistoryRows, HistSlot, S
    <3>1. (IF c + 1 < S THEN k ELSE (history_head' + k) % S) = k
      <4>1. CASE c + 1 < S
        BY <4>1
      <4>2. CASE ~ (c + 1 < S)
        <5>1. history_head' = 0 /\ k \in 0..S /\ k < S /\ 0 \in 0..(S - 1) /\ 0 + k = k
          BY <1>1, <1>2, <1>5, <1>8, <2>1, <4>2
        <5>2. (0 + k) % S = IF 0 + k < S THEN 0 + k ELSE 0 + k - S
          BY <1>1, <5>1, RingMod
        <5> QED
          BY <4>2, <5>1, <5>2
      <4> QED
        BY <4>1, <4>2
    <3>2. (G + 1) - (c + 1) + k + 1 = k + 1 /\ k \in Slots
      BY <1>1, <1>8, <2>1 DEF Slots, S
    <3>3. CASE k = c
      BY <1>3, <1>4, <2>1, <3>1, <3>2, <3>3
    <3>4. CASE k # c
      <4>1. k \in 0..(c - 1) /\ G - c + k + 1 = k + 1 /\ k + 1 \in 1..G
        BY <1>1, <2>1, <3>4
      <4>2. history[k] = gone[k + 1]
        BY <1>7, <1>8, <4>1
      <4> QED
        BY <1>3, <1>4, <2>1, <3>1, <3>2, <3>4, <4>1, <4>2
    <3> QED
      BY <3>3, <3>4
  <2> QED
    BY <1>3, <1>4, <1>6, <2>2, <2>3 DEF S, c
<1>9. CASE ~ (c < S)
  <2>1. c = S /\ history_count' = S
    BY <1>1, <1>2, <1>9
  <2>2. RingInv'
    BY <1>1, <1>4, <2>1 DEF RingInv, S
  <2>3. HistoryRows'
    <3> SUFFICES ASSUME NEW k \in 0..(S - 1)
                 PROVE  history'[(history_head' + k) % S] = gone'[(G + 1) - S + k + 1]
      <4>1. ~ (history_count' < S)
        BY <1>1, <2>1
      <4> QED
        BY <1>4, <2>1, <4>1 DEF HistoryRows, HistSlot, S
    <3>1. (history_head' + k) % S =
            IF history_head' + k < S THEN history_head' + k ELSE history_head' + k - S
      <4>1. history_head' \in 0..(S - 1) /\ k \in 0..S
        BY <1>1, <1>6 DEF Slots, S
      <4> QED
        BY <1>1, <4>1, RingMod
    <3>2. CASE k = S - 1
      <4>1. (history_head' + k) % S = h
        <5>1. CASE h + 1 < S
          <6>1. history_head' = h + 1 /\ ~ (h + 1 + k < S) /\ h + 1 + k - S = h
            BY <1>1, <1>2, <1>5, <3>2, <5>1
          <6> QED
            BY <3>1, <6>1
        <5>2. CASE ~ (h + 1 < S)
          <6>1. history_head' = 0 /\ 0 + k < S /\ 0 + k = h
            BY <1>1, <1>2, <1>5, <3>2, <5>2
          <6> QED
            BY <3>1, <6>1
        <5> QED
          BY <5>1, <5>2
      <4>2. (G + 1) - S + k + 1 = G + 1
        BY <1>1, <3>2
      <4> QED
        BY <1>3, <1>4, <4>1, <4>2
    <3>3. CASE k # S - 1
      <4>1. k + 1 \in 0..(c - 1) /\ k + 1 \in 0..S
        BY <1>1, <2>1, <3>3
      <4>2. (h + (k + 1)) % S = IF h + (k + 1) < S THEN h + (k + 1) ELSE h + (k + 1) - S
        BY <1>1, <4>1, RingMod
      <4>3. (history_head' + k) % S = (h + (k + 1)) % S
        <5>1. CASE h + 1 < S
          <6>1. history_head' = h + 1 /\ h + 1 + k = h + (k + 1)
            BY <1>1, <1>2, <1>5, <5>1
          <6> QED
            BY <6>1
        <5>2. CASE ~ (h + 1 < S)
          <6>1. history_head' = 0 /\ 0 + k < S /\ ~ (h + (k + 1) < S) /\ h + (k + 1) - S = 0 + k
            BY <1>1, <1>2, <1>5, <5>2
          <6> QED
            BY <3>1, <4>2, <6>1
        <5> QED
          BY <5>1, <5>2
      <4>4. (h + (k + 1)) % S \in Slots /\ (h + (k + 1)) % S # h
        BY <1>1, <3>3, <4>1, <4>2 DEF Slots, S
      <4>5. history[(h + (k + 1)) % S] = gone[G - c + (k + 1) + 1]
        BY <1>7, <1>9, <4>1
      <4>6. G - c + (k + 1) + 1 = (G + 1) - S + k + 1 /\ (G + 1) - S + k + 1 \in 1..G
        BY <1>1, <2>1, <3>3
      <4> QED
        BY <1>3, <1>4, <4>3, <4>4, <4>5, <4>6
    <3> QED
      BY <3>2, <3>3
  <2> QED
    BY <1>3, <1>4, <1>6, <2>2, <2>3 DEF S, c
<1> QED
  BY <1>8, <1>9

\* terminal_scroll up to its render.
LEMMA ScrollStep ==
  ASSUME IInv, Scroll, crossed' = crossed
  PROVE  IInv'
<1> USE Basics
<1>0. Shape /\ Scalars /\ ViewInv
  BY Parts
<1>1. /\ RingInv' /\ HistoryRows'
      /\ history' \in [Slots -> RowSet] /\ gone' \in Seq(RowSet)
      /\ history_count' \in 0..ScrollbackLines /\ history_head' \in Slots
      /\ history_count' >= history_count
  BY ScrollRing
<1>2. /\ pc = "scroll" /\ pc' = "render" /\ ret' = "idle" /\ terminal_row' = Height - 1
      /\ live_screen' = [r \in Rows |-> IF r < Height - 1 THEN live_screen[r + 1] ELSE BlankRow]
      /\ UNCHANGED <<terminal_column, scroll_offset, vga, x0, y0, start_line, y>>
  BY DEF Scroll, ScrollTo
<1>3. live_screen' \in [Rows -> RowSet]
  <2>1. ASSUME NEW r \in Rows, r < Height - 1 PROVE live_screen[r + 1] \in RowSet
    <3>1. r + 1 \in Rows
      BY <2>1 DEF Rows
    <3> QED
      BY <1>0, <3>1 DEF Shape
  <2> QED
    BY <1>2, <2>1
<1>4. Shape'
  BY <1>0, <1>1, <1>2, <1>3 DEF Shape
<1>5. Scalars'
  <2>1. scroll_offset' \in 0..history_count'
    BY <1>0, <1>1, <1>2 DEF Scalars
  <2>2. terminal_row' \in 0..Height
    BY <1>2
  <2> QED
    BY <1>0, <1>1, <1>2, <2>1, <2>2 DEF Scalars
<1>6. ViewInv'
  BY <1>0, <1>2 DEF ViewInv
<1> QED
  BY <1>1, <1>4, <1>5, <1>6, Parts

\* terminal_initialize.
LEMMA ClearSteps ==
  ASSUME IInv, Clear \/ ClearRow, crossed' = crossed
  PROVE  IInv'
<1> USE Basics
<1>0. Shape /\ Scalars /\ ViewInv
  BY Parts
<1>1. RingInv' /\ HistoryRows' /\ UNCHANGED <<history, history_count, history_head, gone>>
  BY HistoryUntouched DEF Clear, ClearRow
<1>2. UNCHANGED <<x0, y0, start_line, ret>>
  BY DEF Clear, ClearRow
<1>3. CASE Clear
  <2>1. /\ terminal_row' = 0 /\ terminal_column' = 0 /\ scroll_offset' = 0
        /\ live_screen' = [live_screen EXCEPT ![0] = BlankRow]
        /\ y' = 0 /\ pc' = "clear" /\ vga' = vga
    BY <1>3 DEF Clear
  <2>2. live_screen' \in [Rows -> RowSet]
    BY <1>0, <2>1 DEF Shape
  <2>3. Shape'
    BY <1>0, <1>1, <1>2, <2>1, <2>2 DEF Shape
  <2>4. Scalars'
    BY <1>0, <1>1, <1>2, <2>1 DEF Scalars
  <2>5. ViewInv'
    <3>1. \A r \in Rows : ~ (r < 0)
      BY DEF Rows
    <3> QED
      BY <2>1, <3>1 DEF ViewInv
  <2> QED
    BY <1>1, <2>3, <2>4, <2>5, Parts
<1>4. CASE ClearRow
  <2>1. /\ pc = "clear"
        /\ live_screen' = [live_screen EXCEPT ![y] = BlankRow]
        /\ vga' = [vga EXCEPT ![y] = BlankRow]
        /\ IF y = Height - 1 THEN pc' = "idle" /\ UNCHANGED y ELSE y' = y + 1 /\ UNCHANGED pc
        /\ UNCHANGED <<terminal_row, terminal_column, scroll_offset>>
    BY <1>4 DEF ClearRow
  <2>2. y \in Rows /\ terminal_row \in Rows
    BY <1>0, <2>1 DEF Scalars, Shape
  <2>3. /\ live_screen' \in [Rows -> RowSet] /\ vga' \in [Rows -> RowSet]
        /\ vga'[y] = live_screen'[y]
        /\ \A r \in Rows : r # y => vga'[r] = vga[r] /\ live_screen'[r] = live_screen[r]
    BY <1>0, <2>1, <2>2 DEF Shape
  <2>4. y' \in Rows /\ pc' \in {"clear", "idle"}
    BY <2>1, <2>2 DEF Rows
  <2>5. Shape'
    BY <1>0, <1>1, <1>2, <2>1, <2>2, <2>3, <2>4 DEF Shape
  <2>6. Scalars'
    BY <1>0, <1>1, <1>2, <2>1, <2>4 DEF Scalars
  <2>7. ASSUME ~crossed PROVE scroll_offset' = 0 /\ \A r \in Rows : r <= y => vga'[r] = live_screen'[r]
    <3>1. scroll_offset = 0 /\ \A r \in Rows : r < y => vga[r] = live_screen[r]
      BY <1>0, <2>1, <2>7 DEF ViewInv
    <3>2. ASSUME NEW r \in Rows, r <= y PROVE vga'[r] = live_screen'[r]
      <4>1. r = y \/ (r < y /\ r # y)
        BY <2>2, <3>2 DEF Rows
      <4> QED
        BY <2>3, <3>1, <4>1
    <3> QED
      BY <2>1, <3>1, <3>2
  <2>8. ViewInv'
    <3> SUFFICES ASSUME ~crossed PROVE ViewInv'
      BY DEF ViewInv
    <3>1. CASE y = Height - 1
      <4>1. \A r \in Rows : vga'[r] = live_screen'[r]
        <5>1. \A r \in Rows : r <= y
          BY <3>1 DEF Rows
        <5> QED
          BY <2>7, <5>1
      <4>2. vga' = live_screen'
        BY <2>3, <4>1
      <4> QED
        BY <2>1, <2>3, <2>7, <3>1, <4>2, LiveOnDisplay DEF ViewInv
    <3>2. CASE y # Height - 1
      <4>1. pc' = "clear" /\ y' = y + 1
        BY <2>1, <3>2
      <4>2. \A r \in Rows : r < y + 1 => r <= y
        BY <2>2 DEF Rows
      <4> QED
        BY <2>7, <4>1, <4>2 DEF ViewInv
    <3> QED
      BY <3>1, <3>2
  <2> QED
    BY <1>1, <2>5, <2>6, <2>8, Parts
<1> QED
  BY <1>3, <1>4

\* The scrolling keys, at whatever point the task is.
LEMMA KeySteps ==
  ASSUME IInv, NEW offset \in 0..history_count, ShowOffset(offset)
  PROVE  IInv'
<1> USE Basics
<1>0. TypeOK /\ Shape /\ Scalars /\ RingInv /\ HistoryKept
  BY Parts DEF IInv
<1>1. RingInv' /\ HistoryRows' /\ UNCHANGED <<history, history_count, history_head, gone>>
  BY HistoryUntouched DEF ShowOffset
<1>2. /\ scroll_offset' = offset /\ crossed' = (pc # "idle")
      /\ vga' = [r \in Rows |-> RowOfView(history_count - offset, r)]
      /\ UNCHANGED <<live_screen, terminal_row, terminal_column, pc, x0, y0, start_line, y, ret>>
  BY DEF ShowOffset, screen_vars, local_vars
<1>3. history_count - offset \in 0..history_count
  BY <1>0 DEF Scalars
<1>4. vga' \in [Rows -> RowSet]
  BY <1>0, <1>2, <1>3, ViewRow
<1>5. Shape' /\ Scalars'
  BY <1>0, <1>1, <1>2, <1>4 DEF Shape, Scalars
<1>6. ViewInv'
  <2> SUFFICES ASSUME pc = "idle" PROVE vga' = Displayed'
    BY <1>2 DEF ViewInv
  <2>1. \A r \in Rows : RowOfView(history_count - offset, r)
          = IF r < offset THEN gone[Len(gone) - offset + r + 1] ELSE live_screen[r - offset]
    BY <1>0, ViewFromRoll
  <2> QED
    BY <1>1, <1>2, <2>1 DEF Displayed
<1> QED
  BY <1>1, <1>5, <1>6, Parts

\* Every step of output, of clear and of the scrolling keys preserves the invariant.
LEMMA NextIInv == IInv /\ [Next]_vars => IInv'
<1> SUFFICES ASSUME IInv, [Next]_vars PROVE IInv'
  OBVIOUS
<1>0. TypeOK /\ Shape /\ Scalars /\ RingInv /\ HistoryRows /\ ViewInv
  BY Parts
<1>a. history_count \in Nat /\ scroll_offset \in 0..history_count
  BY <1>0, Basics DEF Scalars
<1>1. CASE PutChar /\ UNCHANGED crossed
  BY <1>1, BeginStep, CellStep, EndSteps, ScrollStep, RenderSteps DEF PutChar
<1>2. CASE (Clear \/ ClearRow) /\ UNCHANGED crossed
  BY <1>2, ClearSteps
<1>3. ASSUME NEW lines \in Strides, ScrollUp(lines) \/ ScrollDown(lines) PROVE IInv'
  <2>1. lines \in Nat
    BY TtyAssumption
  <2>2. CASE ScrollUp(lines)
    <3>1. (IF scroll_offset + lines > history_count THEN history_count ELSE scroll_offset + lines)
            \in 0..history_count
      BY <1>a, <2>1
    <3> QED
      BY <2>2, <3>1, KeySteps DEF ScrollUp
  <2>3. CASE ScrollDown(lines)
    <3>1. (IF scroll_offset < lines THEN 0 ELSE scroll_offset - lines) \in 0..history_count
      BY <1>a, <2>1
    <3> QED
      BY <2>3, <3>1, KeySteps DEF ScrollDown
  <2> QED
    BY <1>3, <2>2, <2>3
<1>4. CASE ScrollReset
  BY <1>4, <1>a, KeySteps DEF ScrollReset
<1>5. CASE UNCHANGED vars
  <2>1. UNCHANGED <<live_screen, terminal_row, terminal_column, history, history_count, history_head, gone,
                    scroll_offset, vga, pc, x0, y0, start_line, y, ret, crossed, history_vars>>
    BY <1>5 DEF vars, screen_vars, history_vars, local_vars
  <2>2. RingInv' /\ HistoryRows'
    BY <2>1, HistoryUntouched
  <2>3. Shape' /\ Scalars'
    BY <1>0, <2>1 DEF Shape, Scalars
  <2>4. Displayed' = Displayed
    BY <2>1 DEF Displayed
  <2>5. ViewInv'
    BY <1>0, <2>1, <2>4 DEF ViewInv
  <2> QED
    BY <2>2, <2>3, <2>5, Parts
<1> QED
  BY <1>1, <1>2, <1>3, <1>4, <1>5 DEF Next

\* The invariant holds in every reachable state of the terminal.
THEOREM Invariance == Spec => []IInv
BY InitIInv, NextIInv, PTL DEF Spec

-----------------------------------------------------------------------------
\* The ring of terminal_scroll holds the most recent rows that left the screen, in
\* order, however large it is and however often it has wrapped.
THEOREM History == Spec => []HistoryKept
<1>1. IInv => HistoryKept
  BY DEF IInv
<1> QED
  BY <1>1, Invariance, PTL

\* Between characters the VGA buffer shows the lines scroll_offset back from the
\* live screen, unless the last scrolling key struck in the middle of a character.
THEOREM View == Spec => []ViewShown
<1>1. IInv => ViewShown
  BY DEF IInv, ViewInv, ViewShown
<1> QED
  BY <1>1, Invariance, PTL

-----------------------------------------------------------------------------
(* The terminal is a roll of paper.                                        *)

\* The row of the cursor is filled up to the cursor, and the rows below it are
\* blank, except those that terminal_initialize has still to clear.
CursorInv ==
  /\ terminal_row \in Rows =>
       \A x \in Columns : live_screen[terminal_row][x] = Blank <=> x >= terminal_column
  /\ terminal_row = Height => terminal_column = 0
  /\ \A r \in Rows : r > terminal_row /\ (pc = "clear" => r < y) => live_screen[r] = BlankRow
  /\ pc = "clear" => terminal_row = 0 /\ terminal_column = 0
  /\ pc = "scroll" => terminal_row = Height

\* A row whose cells are filled from the left.
FilledTo(row, n) == \A x \in Columns : row[x] = Blank <=> x >= n

Texts == {TextOf(row) : row \in RowSet}

\* The roll when the rows g have left the screen and the cursor is in row n of l.
LinesOf(g, l, n) ==
  [k \in 1..(Len(g) + n + 1) |->
     IF k <= Len(g) THEN TextOf(g[k])
     ELSE IF k - Len(g) - 1 \in Rows THEN TextOf(l[k - Len(g) - 1])
     ELSE <<>>]

\* The text of a row that is filled from the left.
LEMMA TextOfFilled ==
  ASSUME NEW row \in RowSet, NEW n \in 0..Width, FilledTo(row, n)
  PROVE  TextOf(row) = [k \in 1..n |-> row[k - 1]]
<1>0. Width \in Nat \ {0}
  BY Basics
<1>1. Used(row) = 0..(n - 1)
  BY <1>0 DEF Used, FilledTo, Columns
<1>2. CASE n = 0
  <2>1. Used(row) = {}
    BY <1>1, <1>2
  <2> QED
    BY <1>2, <2>1 DEF TextOf
<1>3. CASE n > 0
  <2>1. Used(row) # {} /\ n - 1 \in Used(row)
    BY <1>0, <1>1, <1>3
  <2>2. Max(Used(row)) = n - 1
    <3>1. PICK m \in Used(row) : Max(Used(row)) = m /\ \A j \in Used(row) : m >= j
      <4>1. \A j \in Used(row) : n - 1 >= j
        BY <1>0, <1>1
      <4> QED
        BY <2>1, <4>1 DEF Max
    <3> QED
      BY <1>0, <1>1, <1>3, <2>1, <3>1
  <2> QED
    BY <1>0, <1>3, <2>1, <2>2 DEF TextOf
<1> QED
  BY <1>2, <1>3

\* A filled row as a sequence.
LEMMA FilledText ==
  ASSUME NEW row \in RowSet, NEW n \in 0..Width, FilledTo(row, n)
  PROVE  /\ TextOf(row) \in Seq(Chars \cup {Blank}) /\ Len(TextOf(row)) = n
         /\ \A k \in 1..n : TextOf(row)[k] = row[k - 1]
<1>0. Width \in Nat \ {0} /\ n \in Nat
  BY Basics
<1>1. \A k \in 1..n : row[k - 1] \in Chars \cup {Blank}
  BY <1>0 DEF RowSet, Columns
<1>2. [k \in 1..n |-> row[k - 1]] \in Seq(Chars \cup {Blank})
  BY <1>0, <1>1
<1>3. Len([k \in 1..n |-> row[k - 1]]) = n
  BY <1>0
<1> QED
  BY <1>2, <1>3, TextOfFilled

LEMMA BlankText == <<>> \in Texts /\ TextOf(BlankRow) = <<>> /\ FilledTo(BlankRow, 0)
<1>1. FilledTo(BlankRow, 0)
  BY Basics DEF FilledTo, BlankRow, Columns
<1>2. TextOf(BlankRow) \in Seq(Chars \cup {Blank}) /\ Len(TextOf(BlankRow)) = 0
  BY <1>1, Basics, FilledText
<1>3. TextOf(BlankRow) = <<>>
  BY <1>2
<1> QED
  BY <1>1, <1>3, Basics DEF Texts

\* What the members of the roll s are.
RollOf(s, g, l, n) ==
  /\ s \in Seq(Texts) /\ Len(s) = Len(g) + n + 1
  /\ \A k \in 1..Len(g) : s[k] = TextOf(g[k])
  /\ \A r \in 0..n : s[Len(g) + r + 1] = IF r \in Rows THEN TextOf(l[r]) ELSE <<>>

\* The roll is a sequence of texts.
LEMMA LinesSpec ==
  ASSUME NEW g \in Seq(RowSet), NEW l \in [Rows -> RowSet], NEW n \in 0..Height
  PROVE  RollOf(LinesOf(g, l, n), g, l, n)
<1> DEFINE Line(k) == IF k <= Len(g) THEN TextOf(g[k])
                      ELSE IF k - Len(g) - 1 \in Rows THEN TextOf(l[k - Len(g) - 1])
                      ELSE <<>>
<1>0. Len(g) \in Nat /\ n \in Nat /\ Len(g) + n + 1 \in Nat
  BY Basics
<1>1. \A k \in 1..(Len(g) + n + 1) : Line(k) \in Texts
  <2> SUFFICES ASSUME NEW k \in 1..(Len(g) + n + 1) PROVE Line(k) \in Texts
    OBVIOUS
  <2>1. CASE k <= Len(g)
    <3>1. g[k] \in RowSet
      BY <1>0, <2>1
    <3> QED
      BY <2>1, <3>1 DEF Texts
  <2>2. CASE ~ (k <= Len(g)) /\ k - Len(g) - 1 \in Rows
    <3>1. l[k - Len(g) - 1] \in RowSet
      BY <2>2
    <3> QED
      BY <2>2, <3>1 DEF Texts
  <2>3. CASE ~ (k <= Len(g)) /\ k - Len(g) - 1 \notin Rows
    BY <2>3, BlankText
  <2> QED
    BY <2>1, <2>2, <2>3
<1>2. LinesOf(g, l, n) = [k \in 1..(Len(g) + n + 1) |-> Line(k)]
  BY DEF LinesOf
<1> HIDE DEF Line
<1>3. [k \in 1..(Len(g) + n + 1) |-> Line(k)] \in Seq(Texts)
  BY <1>0, <1>1
<1>4. Len([k \in 1..(Len(g) + n + 1) |-> Line(k)]) = Len(g) + n + 1
  BY <1>0
<1>5. \A k \in 1..Len(g) : LinesOf(g, l, n)[k] = TextOf(g[k])
  BY <1>0, <1>2 DEF Line
<1>6. \A r \in 0..n : LinesOf(g, l, n)[Len(g) + r + 1] = IF r \in Rows THEN TextOf(l[r]) ELSE <<>>
  <2> SUFFICES ASSUME NEW r \in 0..n
               PROVE  LinesOf(g, l, n)[Len(g) + r + 1] = IF r \in Rows THEN TextOf(l[r]) ELSE <<>>
    OBVIOUS
  <2>1. Len(g) + r + 1 \in 1..(Len(g) + n + 1) /\ ~ (Len(g) + r + 1 <= Len(g))
        /\ (Len(g) + r + 1) - Len(g) - 1 = r
    BY <1>0
  <2>2. LinesOf(g, l, n)[Len(g) + r + 1] = Line(Len(g) + r + 1)
    BY <1>2, <2>1
  <2> QED
    BY <2>1, <2>2 DEF Line
<1> QED
  BY <1>2, <1>3, <1>4, <1>5, <1>6 DEF RollOf

\* A sequence that agrees with another in its first k members and has one more.
LEMMA PrefixThenOne ==
  ASSUME NEW S, NEW s \in Seq(S), NEW k \in 0..Len(s), NEW e \in S,
         NEW t \in Seq(S), Len(t) = k + 1,
         \A i \in 1..k : t[i] = s[i], t[k + 1] = e
  PROVE  t = Append(SubSeq(s, 1, k), e)
<1>1. SubSeq(s, 1, k) \in Seq(S) /\ Len(SubSeq(s, 1, k)) = k
      /\ \A i \in 1..k : SubSeq(s, 1, k)[i] = s[i]
  OBVIOUS
<1> DEFINE u == Append(SubSeq(s, 1, k), e)
<1>2. u \in Seq(S) /\ Len(u) = k + 1 /\ u[k + 1] = e /\ \A i \in 1..k : u[i] = s[i]
  BY <1>1
<1> HIDE DEF u
<1>3. \A i \in 1..(k + 1) : t[i] = u[i]
  BY <1>2
<1>4. t = u
  BY <1>2, <1>3
<1> QED
  BY <1>4 DEF u

LEMMA SameMembers ==
  ASSUME NEW S, NEW s \in Seq(S), NEW t \in Seq(S), Len(s) = Len(t),
         \A i \in 1..Len(s) : s[i] = t[i]
  PROVE  s = t
OBVIOUS

\* Storing a character behind the last one of a row appends it to the text.
LEMMA CellStored ==
  ASSUME NEW row \in RowSet, NEW x \in Columns, NEW c \in Chars, FilledTo(row, x)
  PROVE  /\ [row EXCEPT ![x] = c] \in RowSet
         /\ FilledTo([row EXCEPT ![x] = c], x + 1)
         /\ Len(TextOf(row)) = x
         /\ TextOf([row EXCEPT ![x] = c]) = Append(TextOf(row), c)
<1> DEFINE new == [row EXCEPT ![x] = c]
           S == Chars \cup {Blank}
<1>0. Width \in Nat \ {0} /\ x \in Nat /\ x < Width /\ c # Blank /\ c \in S
  BY Basics, TtyAssumption DEF Columns
<1>1. new \in RowSet /\ new[x] = c /\ \A j \in Columns \ {x} : new[j] = row[j]
  BY <1>0 DEF RowSet
<1> HIDE DEF new
<1>2. FilledTo(new, x + 1)
  BY <1>0, <1>1 DEF FilledTo, Columns
<1>3. TextOf(row) \in Seq(S) /\ Len(TextOf(row)) = x /\ \A k \in 1..x : TextOf(row)[k] = row[k - 1]
  BY <1>0, FilledText
<1>4. TextOf(new) \in Seq(S) /\ Len(TextOf(new)) = x + 1
      /\ \A k \in 1..(x + 1) : TextOf(new)[k] = new[k - 1]
  <2>1. x + 1 \in 0..Width
    BY <1>0
  <2> QED
    BY <1>1, <1>2, <2>1, FilledText
<1>5. \A k \in 1..x : TextOf(new)[k] = TextOf(row)[k]
  <2> SUFFICES ASSUME NEW k \in 1..x PROVE TextOf(new)[k] = TextOf(row)[k]
    OBVIOUS
  <2>1. k \in 1..(x + 1) /\ k - 1 \in Columns \ {x}
    BY <1>0 DEF Columns
  <2> QED
    BY <1>1, <1>3, <1>4, <2>1
<1>6. TextOf(new)[x + 1] = c
  BY <1>0, <1>1, <1>4
<1>7. TextOf(new) = Append(SubSeq(TextOf(row), 1, x), c)
  <2>1. x \in 0..Len(TextOf(row))
    BY <1>0, <1>3
  <2> QED
    BY <1>0, <1>3, <1>4, <1>5, <1>6, <2>1, PrefixThenOne
<1>8. SubSeq(TextOf(row), 1, x) = TextOf(row)
  BY <1>3
<1> QED
  BY <1>1, <1>2, <1>3, <1>7, <1>8 DEF new

\* Blanking the last character of a row takes it off the text.
LEMMA CellBlanked ==
  ASSUME NEW row \in RowSet, NEW x \in Columns, FilledTo(row, x + 1)
  PROVE  /\ [row EXCEPT ![x] = Blank] \in RowSet
         /\ FilledTo([row EXCEPT ![x] = Blank], x)
         /\ TextOf(row) # <<>>
         /\ TextOf([row EXCEPT ![x] = Blank]) = SubSeq(TextOf(row), 1, Len(TextOf(row)) - 1)
<1> DEFINE new == [row EXCEPT ![x] = Blank]
           S == Chars \cup {Blank}
<1>0. Width \in Nat \ {0} /\ x \in Nat /\ x < Width /\ x + 1 \in 0..Width /\ x \in 0..Width
  BY Basics DEF Columns
<1>1. new \in RowSet /\ new[x] = Blank /\ \A j \in Columns \ {x} : new[j] = row[j]
  BY <1>0 DEF RowSet
<1> HIDE DEF new
<1>2. FilledTo(new, x)
  BY <1>0, <1>1 DEF FilledTo, Columns
<1>3. TextOf(row) \in Seq(S) /\ Len(TextOf(row)) = x + 1
      /\ \A k \in 1..(x + 1) : TextOf(row)[k] = row[k - 1]
  BY <1>0, FilledText
<1>4. TextOf(new) \in Seq(S) /\ Len(TextOf(new)) = x /\ \A k \in 1..x : TextOf(new)[k] = new[k - 1]
  BY <1>0, <1>1, <1>2, FilledText
<1>5. \A k \in 1..x : TextOf(new)[k] = TextOf(row)[k]
  <2> SUFFICES ASSUME NEW k \in 1..x PROVE TextOf(new)[k] = TextOf(row)[k]
    OBVIOUS
  <2>1. k \in 1..(x + 1) /\ k - 1 \in Columns \ {x}
    BY <1>0 DEF Columns
  <2> QED
    BY <1>1, <1>3, <1>4, <2>1
<1>6. SubSeq(TextOf(row), 1, x) \in Seq(S) /\ Len(SubSeq(TextOf(row), 1, x)) = x
      /\ \A k \in 1..x : SubSeq(TextOf(row), 1, x)[k] = TextOf(row)[k]
  BY <1>0, <1>3
<1>7. TextOf(new) = SubSeq(TextOf(row), 1, x)
  BY <1>4, <1>5, <1>6, SameMembers
<1>8. Len(TextOf(row)) - 1 = x /\ TextOf(row) # <<>>
  BY <1>0, <1>3
<1> QED
  BY <1>1, <1>2, <1>7, <1>8 DEF new

\* Changing the row of the cursor changes the last line.
LEMMA LastLine ==
  ASSUME NEW g \in Seq(RowSet), NEW l \in [Rows -> RowSet], NEW r \in Rows, NEW row \in RowSet
  PROVE  /\ LinesOf(g, l, r)[Len(LinesOf(g, l, r))] = TextOf(l[r])
         /\ LinesOf(g, [l EXCEPT ![r] = row], r)
              = Append(SubSeq(LinesOf(g, l, r), 1, Len(LinesOf(g, l, r)) - 1), TextOf(row))
<1> DEFINE new == [l EXCEPT ![r] = row]
           s == LinesOf(g, l, r)
           t == LinesOf(g, new, r)
<1>0. Height \in Nat \ {0} /\ r \in Nat /\ r < Height /\ r \in 0..Height /\ Len(g) \in Nat
  BY Basics DEF Rows
<1>1. new \in [Rows -> RowSet] /\ new[r] = row /\ \A q \in Rows \ {r} : new[q] = l[q]
  OBVIOUS
<1> HIDE DEF new
<1>2a. RollOf(s, g, l, r)
  BY <1>0, LinesSpec
<1>2. /\ s \in Seq(Texts) /\ Len(s) = Len(g) + r + 1
      /\ \A k \in 1..Len(g) : s[k] = TextOf(g[k])
      /\ \A q \in 0..r : s[Len(g) + q + 1] = IF q \in Rows THEN TextOf(l[q]) ELSE <<>>
  BY <1>2a DEF RollOf
<1>3a. RollOf(t, g, new, r)
  BY <1>0, <1>1, LinesSpec
<1>3. /\ t \in Seq(Texts) /\ Len(t) = Len(g) + r + 1
      /\ \A k \in 1..Len(g) : t[k] = TextOf(g[k])
      /\ \A q \in 0..r : t[Len(g) + q + 1] = IF q \in Rows THEN TextOf(new[q]) ELSE <<>>
  BY <1>3a DEF RollOf
<1> HIDE DEF s, t
<1>4. \A k \in 1..(Len(g) + r) : t[k] = s[k]
  <2> SUFFICES ASSUME NEW k \in 1..(Len(g) + r) PROVE t[k] = s[k]
    OBVIOUS
  <2>1. CASE k <= Len(g)
    <3>1. k \in 1..Len(g)
      BY <1>0, <2>1
    <3> QED
      BY <1>2, <1>3, <3>1
  <2>2. CASE k > Len(g)
    <3>1. PICK q \in 0..(r - 1) : k = Len(g) + q + 1
      <4>1. k - Len(g) - 1 \in 0..(r - 1) /\ k = Len(g) + (k - Len(g) - 1) + 1
        BY <1>0, <2>2
      <4> QED
        BY <4>1
    <3>2. q \in 0..r /\ q \in Rows \ {r}
      BY <1>0 DEF Rows
    <3> QED
      BY <1>1, <1>2, <1>3, <3>1, <3>2
  <2> QED
    BY <1>0, <2>1, <2>2
<1>5. s[Len(g) + r + 1] = TextOf(l[r]) /\ t[Len(g) + r + 1] = TextOf(row)
  <2>1. r \in 0..r
    BY <1>0
  <2> QED
    BY <1>1, <1>2, <1>3, <2>1
<1>6. TextOf(row) \in Texts
  BY DEF Texts
<1>7. Len(g) + r \in 0..Len(s) /\ Len(s) - 1 = Len(g) + r
  BY <1>0, <1>2
<1>8. t = Append(SubSeq(s, 1, Len(g) + r), TextOf(row))
  BY <1>2, <1>3, <1>4, <1>5, <1>6, <1>7, PrefixThenOne
<1> QED
  BY <1>2, <1>5, <1>7, <1>8 DEF s, t, new

\* Moving to a blank row, or below the screen, starts a line.
LEMMA LineStarted ==
  ASSUME NEW g \in Seq(RowSet), NEW l \in [Rows -> RowSet], NEW r \in Rows,
         r + 1 \in Rows => l[r + 1] = BlankRow
  PROVE  LinesOf(g, l, r + 1) = Append(LinesOf(g, l, r), <<>>)
<1> DEFINE s == LinesOf(g, l, r)
           t == LinesOf(g, l, r + 1)
<1>0. Height \in Nat \ {0} /\ r \in Nat /\ r \in 0..Height /\ r + 1 \in 0..Height /\ Len(g) \in Nat
  BY Basics DEF Rows
<1>2a. RollOf(s, g, l, r)
  BY <1>0, LinesSpec
<1>2. /\ s \in Seq(Texts) /\ Len(s) = Len(g) + r + 1
      /\ \A k \in 1..Len(g) : s[k] = TextOf(g[k])
      /\ \A q \in 0..r : s[Len(g) + q + 1] = IF q \in Rows THEN TextOf(l[q]) ELSE <<>>
  BY <1>2a DEF RollOf
<1>3a. RollOf(t, g, l, r + 1)
  BY <1>0, LinesSpec
<1>3. /\ t \in Seq(Texts) /\ Len(t) = Len(g) + (r + 1) + 1
      /\ \A k \in 1..Len(g) : t[k] = TextOf(g[k])
      /\ \A q \in 0..(r + 1) : t[Len(g) + q + 1] = IF q \in Rows THEN TextOf(l[q]) ELSE <<>>
  BY <1>3a DEF RollOf
<1> HIDE DEF s, t
<1>4. \A k \in 1..(Len(g) + r + 1) : t[k] = s[k]
  <2> SUFFICES ASSUME NEW k \in 1..(Len(g) + r + 1) PROVE t[k] = s[k]
    OBVIOUS
  <2>1. CASE k <= Len(g)
    <3>1. k \in 1..Len(g)
      BY <1>0, <2>1
    <3> QED
      BY <1>2, <1>3, <3>1
  <2>2. CASE k > Len(g)
    <3>1. PICK q \in 0..r : k = Len(g) + q + 1
      <4>1. k - Len(g) - 1 \in 0..r /\ k = Len(g) + (k - Len(g) - 1) + 1
        BY <1>0, <2>2
      <4> QED
        BY <4>1
    <3>2. q \in 0..(r + 1)
      BY <1>0
    <3> QED
      BY <1>2, <1>3, <3>1, <3>2
  <2> QED
    BY <1>0, <2>1, <2>2
<1>5. t[Len(g) + r + 1 + 1] = <<>>
  <2>1. r + 1 \in 0..(r + 1) /\ Len(g) + (r + 1) + 1 = Len(g) + r + 1 + 1
    BY <1>0
  <2>2. t[Len(g) + (r + 1) + 1] = IF r + 1 \in Rows THEN TextOf(l[r + 1]) ELSE <<>>
    BY <1>3, <2>1
  <2>3. t[Len(g) + (r + 1) + 1] = <<>>
    BY <2>2, BlankText
  <2> QED
    BY <2>1, <2>3
<1>6. Len(s) \in 0..Len(s) /\ Len(t) = Len(s) + 1
  BY <1>0, <1>2, <1>3
<1>7. t = Append(SubSeq(s, 1, Len(s)), <<>>)
  <2>1. <<>> \in Texts
    BY BlankText
  <2> QED
    BY <1>2, <1>3, <1>4, <1>5, <1>6, <2>1, PrefixThenOne
<1>8. SubSeq(s, 1, Len(s)) = s
  BY <1>2
<1> QED
  BY <1>7, <1>8 DEF s, t

\* The roll depends only on the rows down to the cursor.
LEMMA SameLines ==
  ASSUME NEW g, NEW l, NEW m, NEW n \in 0..Height, Len(g) \in Nat, \A q \in 0..n : q \in Rows => l[q] = m[q]
  PROVE  LinesOf(g, l, n) = LinesOf(g, m, n)
<1>1. \A k \in 1..(Len(g) + n + 1) : ~ (k <= Len(g)) /\ k - Len(g) - 1 \in Rows
        => l[k - Len(g) - 1] = m[k - Len(g) - 1]
  BY Basics DEF Rows
<1> QED
  BY <1>1 DEF LinesOf

\* Clearing tears off what is on the screen.
LEMMA TornOff ==
  ASSUME NEW g \in Seq(RowSet), NEW l \in [Rows -> RowSet], NEW r \in Rows
  PROVE  LinesOf(g, [l EXCEPT ![0] = BlankRow], 0)
           = Append(SubSeq(LinesOf(g, l, r), 1, Len(g)), <<>>)
<1> DEFINE new == [l EXCEPT ![0] = BlankRow]
           s == LinesOf(g, l, r)
           t == LinesOf(g, new, 0)
<1>0. Height \in Nat \ {0} /\ r \in Nat /\ r \in 0..Height /\ 0 \in 0..Height /\ Len(g) \in Nat
      /\ 0 \in Rows /\ BlankRow \in RowSet
  BY Basics DEF Rows
<1>1. new \in [Rows -> RowSet] /\ new[0] = BlankRow
  BY <1>0
<1> HIDE DEF new
<1>2a. RollOf(s, g, l, r)
  BY <1>0, LinesSpec
<1>2. s \in Seq(Texts) /\ Len(s) = Len(g) + r + 1 /\ \A k \in 1..Len(g) : s[k] = TextOf(g[k])
  BY <1>2a DEF RollOf
<1>3a. RollOf(t, g, new, 0)
  BY <1>0, <1>1, LinesSpec
<1>3. /\ t \in Seq(Texts) /\ Len(t) = Len(g) + 0 + 1
      /\ \A k \in 1..Len(g) : t[k] = TextOf(g[k])
      /\ \A q \in 0..0 : t[Len(g) + q + 1] = IF q \in Rows THEN TextOf(new[q]) ELSE <<>>
  BY <1>3a DEF RollOf
<1> HIDE DEF s, t
<1>4. t[Len(g) + 1] = <<>>
  <2>1. t[Len(g) + 0 + 1] = TextOf(new[0])
    BY <1>0, <1>3
  <2> QED
    BY <1>0, <1>1, <2>1, BlankText
<1>5. Len(t) = Len(g) + 1 /\ Len(g) \in 0..Len(s) /\ <<>> \in Texts
  BY <1>0, <1>2, <1>3, BlankText
<1>6. t = Append(SubSeq(s, 1, Len(g)), <<>>)
  BY <1>2, <1>3, <1>4, <1>5, PrefixThenOne
<1> QED
  BY <1>6 DEF s, t, new

\* Scrolling moves the first row from the screen to the rows that have left it, and
\* changes no line.
LEMMA ScrolledLines ==
  ASSUME NEW g \in Seq(RowSet), NEW l \in [Rows -> RowSet]
  PROVE  LinesOf(Append(g, l[0]),
                 [r \in Rows |-> IF r < Height - 1 THEN l[r + 1] ELSE BlankRow], Height - 1)
           = LinesOf(g, l, Height)
<1> DEFINE new == [r \in Rows |-> IF r < Height - 1 THEN l[r + 1] ELSE BlankRow]
           h == Append(g, l[0])
           s == LinesOf(g, l, Height)
           t == LinesOf(h, new, Height - 1)
<1>0. Height \in Nat \ {0} /\ Height \in 0..Height /\ Height - 1 \in 0..Height /\ Len(g) \in Nat
      /\ 0 \in Rows /\ BlankRow \in RowSet
  BY Basics DEF Rows
<1>1. new \in [Rows -> RowSet] /\ \A r \in Rows : new[r] = IF r < Height - 1 THEN l[r + 1] ELSE BlankRow
  BY <1>0 DEF Rows
<1>2. h \in Seq(RowSet) /\ Len(h) = Len(g) + 1 /\ h[Len(g) + 1] = l[0]
      /\ \A k \in 1..Len(g) : h[k] = g[k]
  BY <1>0
<1> HIDE DEF new, h
<1>3a. RollOf(s, g, l, Height)
  BY <1>0, LinesSpec
<1>3. /\ s \in Seq(Texts) /\ Len(s) = Len(g) + Height + 1
      /\ \A k \in 1..Len(g) : s[k] = TextOf(g[k])
      /\ \A q \in 0..Height : s[Len(g) + q + 1] = IF q \in Rows THEN TextOf(l[q]) ELSE <<>>
  BY <1>3a DEF RollOf
<1>4a. RollOf(t, h, new, Height - 1)
  BY <1>0, <1>1, <1>2, LinesSpec
<1>4. /\ t \in Seq(Texts) /\ Len(t) = Len(h) + (Height - 1) + 1
      /\ \A k \in 1..Len(h) : t[k] = TextOf(h[k])
      /\ \A q \in 0..(Height - 1) : t[Len(h) + q + 1] = IF q \in Rows THEN TextOf(new[q]) ELSE <<>>
  BY <1>4a DEF RollOf
<1> HIDE DEF s, t
<1>5. Len(t) = Len(s)
  BY <1>0, <1>2, <1>3, <1>4
<1>6. ASSUME NEW k \in 1..Len(s) PROVE s[k] = t[k]
  <2>1. CASE k <= Len(g)
    <3>1. k \in 1..Len(g) /\ k \in 1..Len(h)
      BY <1>0, <1>2, <2>1
    <3> QED
      BY <1>2, <1>3, <1>4, <3>1
  <2>2. CASE k = Len(g) + 1
    <3>1. 0 \in 0..Height /\ Len(g) + 0 + 1 = k /\ k \in 1..Len(h)
      BY <1>0, <1>2, <2>2
    <3>2. s[k] = TextOf(l[0])
      BY <1>0, <1>3, <3>1
    <3>3. t[k] = TextOf(l[0])
      BY <1>2, <1>4, <2>2, <3>1
    <3> QED
      BY <3>2, <3>3
  <2>3. CASE k > Len(g) + 1
    <3>1. PICK q \in 0..(Height - 1) : k = Len(g) + (q + 1) + 1
      <4>1. k - Len(g) - 2 \in 0..(Height - 1) /\ k = Len(g) + ((k - Len(g) - 2) + 1) + 1
        BY <1>0, <1>3, <2>3
      <4> QED
        BY <4>1
    <3>2. q \in Rows /\ q + 1 \in 0..Height /\ k = Len(h) + q + 1
          /\ (q + 1 \in Rows <=> q < Height - 1)
      BY <1>0, <1>2, <3>1 DEF Rows
    <3>3. s[k] = IF q + 1 \in Rows THEN TextOf(l[q + 1]) ELSE <<>>
      BY <1>3, <3>1, <3>2
    <3>4. t[k] = TextOf(new[q])
      BY <1>4, <3>2
    <3> QED
      BY <1>1, <3>2, <3>3, <3>4, BlankText
  <2> QED
    BY <1>0, <1>6, <2>1, <2>2, <2>3
<1>7. s = t
  BY <1>3, <1>4, <1>5, <1>6, SameMembers
<1> QED
  BY <1>7 DEF s, t, new, h

LEMMA RollNow == AllLines = LinesOf(gone, live_screen, terminal_row)
BY DEF AllLines, LinesOf

LEMMA RollNext == AllLines' = LinesOf(gone', live_screen', terminal_row')
BY DEF AllLines, LinesOf

\* Steps that touch neither the screen nor the cursor.
LEMMA CursorKept ==
  ASSUME CursorInv, UNCHANGED <<live_screen, terminal_row, terminal_column, gone>>,
         pc' = "clear" <=> pc = "clear", pc = "clear" => y' = y,
         pc' = "scroll" => terminal_row = Height
  PROVE  CursorInv' /\ AllLines' = AllLines
<1>1. CursorInv'
  BY DEF CursorInv
<1>2. AllLines' = AllLines
  BY RollNow, RollNext
<1> QED
  BY <1>1, <1>2

LEMMA CursorFacts ==
  ASSUME IInv, CursorInv
  PROVE  /\ gone \in Seq(RowSet) /\ live_screen \in [Rows -> RowSet]
         /\ terminal_row \in 0..Height /\ terminal_column \in Columns /\ y \in Rows
         /\ pc \notin {"vga", "scroll"} => terminal_row \in Rows
         /\ terminal_row \in Rows => FilledTo(live_screen[terminal_row], terminal_column)
BY DEF IInv, HistoryKept, TypeOK, Shape, CursorInv, FilledTo

\* A character is put at the end of the last line.
LEMMA PutCellRoll ==
  ASSUME IInv, CursorInv, PutCell
  PROVE  CursorInv' /\ Roll!PutChar(ch) /\ ch \in Chars
<1> DEFINE r == terminal_row
           x == terminal_column
           row == [live_screen[r] EXCEPT ![x] = ch]
           new == [live_screen EXCEPT ![r] = row]
<1>0. /\ pc = "put" /\ ch \in Chars /\ pc' = "vga" /\ gone' = gone
      /\ live_screen' = new
      /\ terminal_column' = (x + 1) % Width
      /\ terminal_row' = IF x + 1 = Width THEN r + 1 ELSE r
  BY DEF PutCell, StoreCell, history_vars
<1>1. /\ gone \in Seq(RowSet) /\ live_screen \in [Rows -> RowSet] /\ r \in Rows /\ x \in Columns
      /\ FilledTo(live_screen[r], x) /\ live_screen[r] \in RowSet
  BY <1>0, CursorFacts
<1>2. Width \in Nat \ {0} /\ Height \in Nat \ {0} /\ x \in Nat /\ x < Width /\ r \in Nat /\ r < Height
  BY <1>1, Basics DEF Columns, Rows
<1>3. \A q \in Rows : q > r => live_screen[q] = BlankRow
  BY <1>0 DEF CursorInv
<1>4. row \in RowSet /\ FilledTo(row, x + 1) /\ Len(TextOf(live_screen[r])) = x
      /\ TextOf(row) = Append(TextOf(live_screen[r]), ch)
  BY <1>0, <1>1, CellStored
<1> HIDE DEF row
<1>5. new \in [Rows -> RowSet] /\ new[r] = row /\ \A q \in Rows \ {r} : new[q] = live_screen[q]
  BY <1>1, <1>4
<1>6. /\ AllLines[Len(AllLines)] = TextOf(live_screen[r])
      /\ LinesOf(gone, new, r) = Append(SubSeq(AllLines, 1, Len(AllLines) - 1), TextOf(row))
  BY <1>1, <1>4, LastLine, RollNow
<1> HIDE DEF new
<1>7. CASE x + 1 < Width
  <2>1. terminal_row' = r /\ terminal_column' = x + 1
    BY <1>0, <1>2, <1>7
  <2>2. AllLines' = LinesOf(gone, new, r)
    BY <1>0, <2>1, RollNext
  <2>3. Roll!PutChar(ch)
    BY <1>4, <1>6, <1>7, <2>2 DEF Roll!PutChar, Roll!Last, Roll!LastBecomes
  <2>4. CursorInv'
    BY <1>0, <1>2, <1>3, <1>4, <1>5, <2>1 DEF CursorInv, FilledTo, Rows
  <2> QED
    BY <1>0, <2>3, <2>4
<1>8. CASE x + 1 = Width
  <2>1. terminal_row' = r + 1 /\ terminal_column' = 0
    BY <1>0, <1>2, <1>8
  <2>2. r + 1 \in Rows => new[r + 1] = BlankRow
    BY <1>2, <1>3, <1>5
  <2>3. LinesOf(gone, new, r + 1) = Append(LinesOf(gone, new, r), <<>>)
    BY <1>1, <1>5, <2>2, LineStarted
  <2>4. AllLines' = Append(LinesOf(gone, new, r), <<>>)
    BY <1>0, <2>1, <2>3, RollNext
  <2>5. Roll!PutChar(ch)
    BY <1>4, <1>6, <1>8, <2>4 DEF Roll!PutChar, Roll!Last, Roll!LastBecomes
  <2>6. CursorInv'
    <3>1. r + 1 \in Rows => \A j \in Columns : new[r + 1][j] = Blank <=> j >= 0
      BY <1>2, <2>2 DEF BlankRow, Columns
    <3>2. \A q \in Rows : q > r + 1 => new[q] = BlankRow
      BY <1>2, <1>3, <1>5 DEF Rows
    <3> QED
      BY <1>0, <2>1, <3>1, <3>2 DEF CursorInv
  <2> QED
    BY <1>0, <2>5, <2>6
<1> QED
  BY <1>2, <1>7, <1>8

\* A backspace takes back the last character of the last line, if there is one.
LEMMA PutBackspaceRoll ==
  ASSUME IInv, CursorInv, PutBackspace
  PROVE  CursorInv' /\ (Roll!Backspace \/ UNCHANGED AllLines)
<1> DEFINE r == terminal_row
           x == terminal_column - 1
           row == [live_screen[r] EXCEPT ![x] = Blank]
           new == [live_screen EXCEPT ![r] = row]
<1>0. pc = "put" /\ gone' = gone /\ terminal_row' = r
  BY DEF PutBackspace, history_vars
<1>1. CASE terminal_column > 0
  <2>1. live_screen' = new /\ terminal_column' = x /\ pc' = "vga"
    BY <1>1 DEF PutBackspace, StoreCell
  <2>2. /\ gone \in Seq(RowSet) /\ live_screen \in [Rows -> RowSet] /\ r \in Rows
        /\ FilledTo(live_screen[r], terminal_column) /\ live_screen[r] \in RowSet
        /\ terminal_column \in Columns
    BY <1>0, CursorFacts
  <2>3. x \in Columns /\ terminal_column = x + 1 /\ r \in Nat /\ x \in Nat
    BY <1>1, <2>2, Basics DEF Columns, Rows
  <2>4. row \in RowSet /\ FilledTo(row, x) /\ TextOf(live_screen[r]) # <<>>
        /\ TextOf(row) = SubSeq(TextOf(live_screen[r]), 1, Len(TextOf(live_screen[r])) - 1)
    BY <2>2, <2>3, CellBlanked
  <2> HIDE DEF row
  <2>5. new \in [Rows -> RowSet] /\ new[r] = row /\ \A q \in Rows \ {r} : new[q] = live_screen[q]
    BY <2>2, <2>4
  <2>6. /\ AllLines[Len(AllLines)] = TextOf(live_screen[r])
        /\ LinesOf(gone, new, r) = Append(SubSeq(AllLines, 1, Len(AllLines) - 1), TextOf(row))
    BY <2>2, <2>4, LastLine, RollNow
  <2> HIDE DEF new
  <2>7. AllLines' = LinesOf(gone, new, r)
    BY <1>0, <2>1, RollNext
  <2>8. Roll!Backspace
    BY <2>4, <2>6, <2>7 DEF Roll!Backspace, Roll!Last, Roll!LastBecomes
  <2>9. CursorInv'
    <3>1. \A q \in Rows : q > r => new[q] = BlankRow
      BY <1>0, <2>3, <2>5 DEF CursorInv, Rows
    <3>2. r # Height
      BY <2>2, Basics DEF Rows
    <3> QED
      BY <1>0, <2>1, <2>4, <2>5, <3>1, <3>2 DEF CursorInv, FilledTo
  <2> QED
    BY <2>8, <2>9
<1>2. CASE ~ (terminal_column > 0)
  <2>1. UNCHANGED <<live_screen, terminal_row, terminal_column, gone>> /\ pc' = "idle"
    BY <1>0, <1>2 DEF PutBackspace
  <2> QED
    BY <1>0, <2>1, CursorKept
<1> QED
  BY <1>1, <1>2

\* A line feed starts a line.
LEMMA PutNewLineRoll ==
  ASSUME IInv, CursorInv, PutNewLine
  PROVE  CursorInv' /\ Roll!NewLine
<1>0. /\ pc = "put" /\ gone' = gone /\ live_screen' = live_screen
      /\ terminal_row' = terminal_row + 1 /\ terminal_column' = 0
      /\ pc' = IF terminal_row + 1 = Height THEN "scroll" ELSE "idle"
  BY DEF PutNewLine, history_vars
<1>1. gone \in Seq(RowSet) /\ live_screen \in [Rows -> RowSet] /\ terminal_row \in Rows
  BY <1>0, CursorFacts
<1>2. terminal_row \in Nat
  BY <1>1, Basics DEF Rows
<1>3. \A q \in Rows : q > terminal_row => live_screen[q] = BlankRow
  BY <1>0 DEF CursorInv
<1>4. terminal_row + 1 \in Rows => live_screen[terminal_row + 1] = BlankRow
  BY <1>2, <1>3
<1>5. AllLines' = Append(AllLines, <<>>)
  BY <1>0, <1>1, <1>4, LineStarted, RollNow, RollNext
<1>6. CursorInv'
  <2>1. terminal_row + 1 \in Rows =>
          \A j \in Columns : live_screen[terminal_row + 1][j] = Blank <=> j >= 0
    BY <1>4, Basics DEF BlankRow, Columns
  <2>2. \A q \in Rows : q > terminal_row + 1 => live_screen[q] = BlankRow
    BY <1>2, <1>3 DEF Rows
  <2> QED
    BY <1>0, <2>1, <2>2 DEF CursorInv
<1> QED
  BY <1>5, <1>6 DEF Roll!NewLine

\* Scrolling changes no line.
LEMMA ScrollRoll ==
  ASSUME IInv, CursorInv, Scroll
  PROVE  CursorInv' /\ AllLines' = AllLines
<1> DEFINE new == [r \in Rows |-> IF r < Height - 1 THEN live_screen[r + 1] ELSE BlankRow]
<1>0. /\ pc = "scroll" /\ pc' = "render" /\ gone' = Append(gone, live_screen[0])
      /\ live_screen' = new /\ terminal_row' = Height - 1 /\ terminal_column' = terminal_column
  BY DEF Scroll, ScrollTo
<1>1. gone \in Seq(RowSet) /\ live_screen \in [Rows -> RowSet]
  BY CursorFacts
<1>2. terminal_row = Height /\ terminal_column = 0
  BY <1>0 DEF CursorInv
<1>3. AllLines' = AllLines
  BY <1>0, <1>1, <1>2, ScrolledLines, RollNow, RollNext
<1>4. CursorInv'
  <2>1. Height \in Nat \ {0} /\ Height - 1 \in Rows /\ Height - 1 # Height
    BY Basics
  <2>2. new[Height - 1] = BlankRow /\ \A j \in Columns : BlankRow[j] = Blank /\ j >= 0
    BY <2>1, Basics DEF BlankRow, Columns
  <2>3. \A q \in Rows : ~ (q > Height - 1)
    BY <2>1 DEF Rows
  <2> QED
    BY <1>0, <1>2, <2>1, <2>2, <2>3 DEF CursorInv
<1> QED
  BY <1>3, <1>4

\* The clear command tears off the lines of the screen at once; what it clears
\* afterwards lies below the cursor.
LEMMA ClearRoll ==
  ASSUME IInv, CursorInv, Clear \/ ClearRow
  PROVE  CursorInv' /\ (Roll!Clear \/ UNCHANGED AllLines)
<1>0. /\ gone \in Seq(RowSet) /\ live_screen \in [Rows -> RowSet] /\ Len(gone) \in Nat
      /\ 0 \in Rows /\ BlankRow \in RowSet /\ Height \in Nat \ {0} /\ 0 \in 0..Height
      /\ y \in Rows
  BY CursorFacts, Basics
<1>b. \A j \in Columns : BlankRow[j] = Blank /\ j >= 0
  BY Basics DEF BlankRow, Columns
<1>1. CASE Clear
  <2>1. /\ pc = "idle" /\ pc' = "clear" /\ y' = 0 /\ gone' = gone
        /\ terminal_row' = 0 /\ terminal_column' = 0
        /\ live_screen' = [live_screen EXCEPT ![0] = BlankRow]
    BY <1>1 DEF Clear, history_vars
  <2>2. terminal_row \in Rows /\ terminal_row \in Nat /\ terminal_row \in 0..Height
    BY <2>1, CursorFacts, Basics DEF Rows
  <2>3. AllLines' = Append(SubSeq(AllLines, 1, Len(gone)), <<>>)
    BY <1>0, <2>1, <2>2, TornOff, RollNow, RollNext
  <2>4. Len(AllLines) = Len(gone) + terminal_row + 1
    <3>1. RollOf(AllLines, gone, live_screen, terminal_row)
      BY <1>0, <2>2, LinesSpec, RollNow
    <3> QED
      BY <3>1 DEF RollOf
  <2>5. Len(gone) \in 0..(Len(AllLines) - 1)
    BY <1>0, <2>2, <2>4
  <2>6. live_screen'[0] = BlankRow
    BY <1>0, <2>1
  <2>7. \A q \in Rows : ~ (q < 0)
    BY DEF Rows
  <2>8. CursorInv'
    BY <1>0, <1>b, <2>1, <2>6, <2>7 DEF CursorInv
  <2> QED
    BY <2>3, <2>5, <2>8 DEF Roll!Clear
<1>2. CASE ClearRow
  <2>1. /\ pc = "clear" /\ gone' = gone
        /\ live_screen' = [live_screen EXCEPT ![y] = BlankRow]
        /\ terminal_row' = terminal_row /\ terminal_column' = terminal_column
        /\ IF y = Height - 1 THEN pc' = "idle" /\ y' = y ELSE y' = y + 1 /\ pc' = pc
    BY <1>2 DEF ClearRow, history_vars
  <2>2. terminal_row = 0 /\ terminal_column = 0
    BY <2>1 DEF CursorInv
  <2>3. live_screen[0] = BlankRow
    <3>1. live_screen[0] \in RowSet /\ \A j \in Columns : live_screen[0][j] = Blank
      BY <1>0, <1>b, <2>2 DEF CursorInv
    <3> QED
      BY <3>1 DEF RowSet, BlankRow
  <2>4. \A q \in Rows : live_screen'[q] = IF q = y THEN BlankRow ELSE live_screen[q]
    BY <1>0, <2>1
  <2>5. live_screen'[0] = live_screen[0]
    BY <1>0, <2>3, <2>4
  <2>6. AllLines' = AllLines
    <3>1. \A q \in 0..0 : q \in Rows => live_screen'[q] = live_screen[q]
      BY <2>5
    <3> HIDE DEF Rows
    <3>2. LinesOf(gone, live_screen', 0) = LinesOf(gone, live_screen, 0)
      BY <1>0, <3>1, SameLines
    <3> QED
      BY <2>1, <2>2, <3>2, RollNow, RollNext
  <2>7. \A q \in Rows : q > 0 /\ q < y => live_screen[q] = BlankRow
    BY <2>1, <2>2 DEF CursorInv
  <2>8. \A q \in Rows : q > 0 /\ (pc' = "clear" => q < y') => live_screen'[q] = BlankRow
    BY <1>0, <2>1, <2>4, <2>7 DEF Rows
  <2>9. CursorInv'
    BY <1>0, <1>b, <2>1, <2>2, <2>3, <2>5, <2>8 DEF CursorInv
  <2> QED
    BY <2>6, <2>9
<1> QED
  BY <1>1, <1>2

\* Every step of the terminal is a step of the roll or leaves it as it is.
LEMMA NextRoll ==
  ASSUME IInv, CursorInv, [Next]_vars
  PROVE  CursorInv' /\ (Roll!Next \/ UNCHANGED AllLines)
<1>1. CASE PutCell
  BY <1>1, PutCellRoll DEF Roll!Next
<1>2. CASE PutBackspace
  BY <1>2, PutBackspaceRoll DEF Roll!Next
<1>3. CASE PutNewLine
  BY <1>3, PutNewLineRoll DEF Roll!Next
<1>4. CASE Scroll
  BY <1>4, ScrollRoll
<1>5. CASE Clear \/ ClearRow
  BY <1>5, ClearRoll DEF Roll!Next
<1>6. ASSUME NEW c \in Chars \cup {"newline", "backspace"}, PutBegin(c)
      PROVE CursorInv' /\ UNCHANGED AllLines
  BY <1>6, CursorKept DEF PutBegin, screen_vars, history_vars
<1>7. CASE RenderBegin
  BY <1>7, CursorKept DEF RenderBegin, screen_vars, history_vars
<1>8. CASE RenderRow
  <2>1. ret \in {"idle", "put"}
    BY DEF IInv, Shape
  <2> QED
    BY <1>8, <2>1, CursorKept DEF RenderRow, screen_vars, history_vars
<1>9. CASE CopyCell
  BY <1>9, CursorKept DEF CopyCell, screen_vars, history_vars
<1>10. ASSUME NEW offset, ShowOffset(offset) PROVE CursorInv' /\ UNCHANGED AllLines
  <2>1. UNCHANGED <<live_screen, terminal_row, terminal_column, gone, pc, y>>
    BY <1>10 DEF ShowOffset, screen_vars, history_vars, local_vars
  <2>2. pc = "scroll" => terminal_row = Height
    BY DEF CursorInv
  <2> QED
    BY <2>1, <2>2, CursorKept
<1>11. CASE UNCHANGED vars
  <2>1. UNCHANGED <<live_screen, terminal_row, terminal_column, gone, pc, y>>
    BY <1>11 DEF vars, screen_vars, history_vars, local_vars
  <2>2. pc = "scroll" => terminal_row = Height
    BY DEF CursorInv
  <2> QED
    BY <2>1, <2>2, CursorKept
<1> QED
  BY <1>1, <1>2, <1>3, <1>4, <1>5, <1>6, <1>7, <1>8, <1>9, <1>10, <1>11
  DEF Next, PutChar, ScrollUp, ScrollDown, ScrollReset

\* The terminal prints like a roll of paper, whatever the sizes of screen and
\* history and wherever the scrolling keys strike.
THEOREM Refinement == Spec => ImplementsPaper
<1>1. Init => CursorInv /\ Roll!Init
  <2> SUFFICES ASSUME Init PROVE CursorInv /\ Roll!Init
    OBVIOUS
  <2>1. /\ live_screen = [r \in Rows |-> BlankRow] /\ terminal_row = 0 /\ terminal_column = 0
        /\ gone = <<>> /\ pc = "idle"
    BY DEF Init
  <2>2. 0 \in Rows /\ Height \in Nat \ {0} /\ BlankRow \in RowSet
        /\ \A j \in Columns : BlankRow[j] = Blank /\ j >= 0
    BY Basics DEF BlankRow, Columns
  <2>3. CursorInv
    BY <2>1, <2>2 DEF CursorInv
  <2>4. RollOf(AllLines, <<>>, live_screen, 0)
    <3>1. live_screen \in [Rows -> RowSet] /\ <<>> \in Seq(RowSet) /\ 0 \in 0..Height
      BY <2>1, <2>2
    <3> QED
      BY <2>1, <3>1, LinesSpec, RollNow
  <2>5. AllLines \in Seq(Texts) /\ Len(AllLines) = 1 /\ AllLines[1] = TextOf(live_screen[0])
    <3>1. 0 \in 0..0 /\ Len(<<>>) + 0 + 1 = 1
      OBVIOUS
    <3> QED
      BY <2>2, <2>4, <3>1 DEF RollOf
  <2>6. AllLines = <<<<>>>>
    BY <2>1, <2>2, <2>5, BlankText
  <2> QED
    BY <2>3, <2>6 DEF Roll!Init
<1>2. IInv /\ CursorInv /\ [Next]_vars => CursorInv' /\ [Roll!Next]_AllLines
  BY NextRoll
<1> QED
  BY <1>1, <1>2, Invariance, PTL DEF Spec, ImplementsPaper, Roll!Spec
=============================================================================
