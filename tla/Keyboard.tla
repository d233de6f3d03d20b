------------------------------ MODULE Keyboard ------------------------------
(***************************************************************************)
(* Keyboard and serial input (drivers/keyboard.cpp): the interrupt handler *)
(* puts the keys of the keyboard into the ring key_buffer, get_key, polled *)
(* by the shell and the editor, takes them out and reads the serial line   *)
(* when the ring is empty.                                                 *)
(*                                                                         *)
(* The handler runs with interrupts off and is one step.  get_key is       *)
(* compiled without optimisation and takes no lock: each of its loads and  *)
(* stores of the shared indices is a step, and the handler may run between *)
(* any two.  Keys of the keyboard are numbered in the order they are put.  *)
(***************************************************************************)
EXTENDS Integers, Sequences

CONSTANTS Size,       \* entries of key_buffer (128)
          MaxTyped,   \* bound on keys put into the ring
          MaxSerial   \* bound on bursts sent over the serial line

ASSUME KeyboardAssumption ==
  /\ Size \in Nat /\ Size > 1
  /\ {MaxTyped, MaxSerial} \subseteq Nat

\* A plain character, and an arrow key as a terminal sends it.
Bursts == {<<"x">>, <<"esc", "[", "A">>}

VARIABLES
  key_buffer, read_idx, write_idx,  \* the ring
  key_state,                        \* keys held down, by class
  pc, idx, c,                       \* get_key: its next step, its registers
  uart, wire,                       \* bytes received; bytes of a burst still to come
  typed, bursts,                    \* keys put, bursts sent
  got, serial_got,                  \* ghosts: what get_key returned from ring and line
  dropped, raced,                   \* ghosts: keys overwritten; did get_key meet that?
  late                              \* ghost: did bytes of a burst arrive one at a time?

ring_vars   == <<key_buffer, read_idx, write_idx>>
line_vars   == <<uart, wire, bursts, serial_got, late>>
ghost_vars  == <<got, dropped, raced>>
vars == <<ring_vars, key_state, pc, idx, c, line_vars, typed, ghost_vars>>

\* Mutant: the index does not wrap.
Next1NoWrap(i) == i + 1

\* The index after i.
Next1(i) == (i + 1) % Size

Init ==
  /\ key_buffer = [i \in 0..(Size - 1) |-> 0]
  /\ read_idx = 0 /\ write_idx = 0
  /\ key_state = {}
  /\ pc = "poll" /\ idx = 0 /\ c = 0
  /\ uart = <<>> /\ wire = <<>> /\ typed = 0 /\ bursts = 0
  /\ got = <<>> /\ serial_got = <<>>
  /\ dropped = {} /\ raced = FALSE /\ late = FALSE

-----------------------------------------------------------------------------
(* keyboard_handler.                                                       *)

\* Does the press of a key of class k produce a character?  The scrolling keys
\* do not, and with control held only letters do.
Produces(k) ==
  \/ k = "letter"
  \/ k = "arrow" /\ key_state \cap {"shift", "ctrl"} = {}

\* Mutant: the ring counts as full one key early.
FullEarly == Next1(Next1(write_idx)) = read_idx

Full == Next1(write_idx) = read_idx

\* Mutant: a full ring is not made room in.
PutKeyOverwrites ==
  /\ key_buffer' = [key_buffer EXCEPT ![write_idx] = typed + 1]
  /\ write_idx' = Next1(write_idx)
  /\ typed' = typed + 1
  /\ UNCHANGED <<read_idx, dropped, raced>>

\* Put a character: when the ring is full the oldest one makes room.
PutKey ==
  /\ read_idx' = IF Full THEN Next1(read_idx) ELSE read_idx
  /\ key_buffer' = [key_buffer EXCEPT ![write_idx] = typed + 1]
  /\ write_idx' = Next1(write_idx)
  /\ typed' = typed + 1
  /\ dropped' = IF Full THEN dropped \cup {key_buffer[read_idx]} ELSE dropped
  /\ raced' = (raced \/ (Full /\ pc \in {"fetch", "reload", "store"}))

KeyDown(k) ==
  /\ typed < MaxTyped
  /\ key_state' = IF k \in {"shift", "ctrl"} THEN key_state \cup {k} ELSE key_state
  /\ IF Produces(k) THEN PutKey
     ELSE UNCHANGED <<ring_vars, typed, dropped, raced>>
  /\ UNCHANGED <<pc, idx, c, line_vars, got>>

KeyUp(k) ==
  /\ k \in key_state
  /\ key_state' = key_state \ {k}
  /\ UNCHANGED <<ring_vars, pc, idx, c, line_vars, typed, ghost_vars>>

-----------------------------------------------------------------------------
(* get_key: read_idx != write_idx, c = key_buffer[read_idx], then          *)
(* read_idx = (read_idx + 1) % 128.                                        *)

Goto(p) == pc' = p

LoadReadIdx(from, to) ==
  /\ pc = from
  /\ idx' = read_idx
  /\ Goto(to)
  /\ UNCHANGED <<ring_vars, key_state, c, line_vars, typed, ghost_vars>>

\* Mutant: the ring counts as empty when the write index is ahead.
CompareBelow ==
  /\ pc = "compare"
  /\ Goto(IF idx > write_idx THEN "load" ELSE "serial")
  /\ UNCHANGED <<ring_vars, key_state, idx, c, line_vars, typed, ghost_vars>>

Compare ==
  /\ pc = "compare"
  /\ Goto(IF idx # write_idx THEN "load" ELSE "serial")
  /\ UNCHANGED <<ring_vars, key_state, idx, c, line_vars, typed, ghost_vars>>

Fetch ==
  /\ pc = "fetch"
  /\ c' = key_buffer[idx]
  /\ Goto("reload")
  /\ UNCHANGED <<ring_vars, key_state, idx, line_vars, typed, ghost_vars>>

Store ==
  /\ pc = "store"
  /\ read_idx' = Next1(idx)
  /\ got' = Append(got, c)
  /\ Goto("poll")
  /\ UNCHANGED <<key_buffer, write_idx, key_state, idx, c, line_vars, typed, dropped, raced>>

\* The serial line: a byte is ready or not; an escape byte is followed up to
\* two bytes further, as far as they are there after a short delay.
Consumed ==
  IF uart = <<>> THEN 0
  ELSE IF Head(uart) # "esc" \/ Len(uart) = 1 THEN 1
  ELSE IF uart[2] # "[" \/ Len(uart) = 2 THEN 2
  ELSE 3

KeyOf(n) == IF n = 3 /\ uart[3] = "A" THEN "up" ELSE Head(uart)

\* Mutant: an escape byte is returned as it comes.
SerialByByte ==
  /\ pc = "serial"
  /\ serial_got' = IF uart = <<>> THEN serial_got ELSE Append(serial_got, Head(uart))
  /\ uart' = IF uart = <<>> THEN uart ELSE Tail(uart)
  /\ Goto("poll")
  /\ UNCHANGED <<ring_vars, key_state, idx, c, wire, bursts, late, typed, ghost_vars>>

Serial ==
  /\ pc = "serial"
  /\ serial_got' = IF Consumed = 0 THEN serial_got ELSE Append(serial_got, KeyOf(Consumed))
  /\ uart' = SubSeq(uart, Consumed + 1, Len(uart))
  /\ Goto("poll")
  /\ UNCHANGED <<ring_vars, key_state, idx, c, wire, bursts, late, typed, ghost_vars>>

GetKey ==
  \/ LoadReadIdx("poll", "compare") \/ Compare
  \/ LoadReadIdx("load", "fetch") \/ Fetch
  \/ LoadReadIdx("reload", "store") \/ Store
  \/ Serial

-----------------------------------------------------------------------------
(* The other end of the serial line: a burst is there at once, or its bytes *)
(* arrive one after the other.                                             *)

Send(b) ==
  /\ bursts < MaxSerial
  /\ wire = <<>>
  /\ bursts' = bursts + 1
  /\ \/ uart' = uart \o b /\ UNCHANGED <<wire, late>>
     \/ wire' = b /\ late' = TRUE /\ UNCHANGED uart
  /\ UNCHANGED <<ring_vars, key_state, pc, idx, c, typed, serial_got, ghost_vars>>

Arrive ==
  /\ wire # <<>>
  /\ uart' = Append(uart, Head(wire))
  /\ wire' = Tail(wire)
  /\ UNCHANGED <<ring_vars, key_state, pc, idx, c, bursts, serial_got, late, typed, ghost_vars>>

Next ==
  \/ \E k \in {"letter", "arrow", "page", "shift", "ctrl"} : KeyDown(k)
  \/ \E k \in {"shift", "ctrl"} : KeyUp(k)
  \/ GetKey
  \/ \E b \in Bursts : Send(b)
  \/ Arrive

Spec == Init /\ [][Next]_vars

\* The shell calls get_key again and again.
FairSpec == Spec /\ WF_vars(GetKey)

-----------------------------------------------------------------------------
\* Types of the ring and of get_key's registers.
TypeOK ==
  /\ key_buffer \in [0..(Size - 1) -> 0..MaxTyped]
  /\ {read_idx, write_idx, idx} \subseteq 0..(Size - 1)
  /\ key_state \subseteq {"shift", "ctrl"}
  /\ pc \in {"poll", "compare", "load", "fetch", "reload", "store", "serial"}
  /\ c \in 0..MaxTyped /\ typed \in 0..MaxTyped /\ bursts \in 0..MaxSerial
  /\ got \in Seq(1..MaxTyped) /\ dropped \subseteq 1..MaxTyped
  /\ raced \in BOOLEAN /\ late \in BOOLEAN

\* The keys in the ring, oldest first.
Pending ==
  [k \in 1..((write_idx - read_idx) % Size) |-> key_buffer[(read_idx + k - 1) % Size]]

Delivered == got \o Pending

\* Every key put is returned by get_key or still in the ring, once and in the
\* order of typing, except the oldest ones that a full ring lost; also when the
\* handler runs in the middle of get_key.  Only a handler that makes room
\* between get_key's load of read_idx and its store can break this.
KeysInOrder ==
  ~raced =>
    /\ \A j, k \in 1..Len(Delivered) : j < k => Delivered[j] < Delivered[k]
    /\ {Delivered[k] : k \in 1..Len(Delivered)} = (1..typed) \ dropped

\* Keys are lost only when typing got a ring's length ahead of reading.
DropsOnlyWhenFull ==
  ~raced => \A k \in dropped : k + Size - 1 <= typed

\* Typed keys are eventually all read.
AllKeysRead == []<>(write_idx = read_idx \/ raced)

\* An arrow key of the terminal never turns up as the characters of its escape
\* sequence.
ArrowsAlwaysWhole ==
  \A k \in 1..Len(serial_got) : serial_got[k] \in {"x", "up"}

\* The same for sequences that are there when get_key reads their first byte,
\* wherever the keyboard handler runs in between and whatever precedes them.
ArrowsStayWhole == ~late => ArrowsAlwaysWhole
=============================================================================
