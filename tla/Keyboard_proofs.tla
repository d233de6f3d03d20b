-------------------------- MODULE Keyboard_proofs --------------------------
(***************************************************************************)
(* Proofs about the keyboard driver, for every size of the ring, every     *)
(* number of keys and every interleaving of the handler with get_key.      *)
(***************************************************************************)
EXTENDS Keyboard, TLAPS

\* The keys in the ring.
Count == IF write_idx >= read_idx THEN write_idx - read_idx ELSE write_idx - read_idx + Size

\* The place of the k-th key in the ring, counted from 0.
Slot(k) == IF read_idx + k < Size THEN read_idx + k ELSE read_idx + k - Size

\* The ring holds the last Count keys typed, oldest first.
RingHoldsLast ==
  ~raced => /\ Count <= typed
            /\ \A k \in 0..(Count - 1) : key_buffer[Slot(k)] = typed - Count + 1 + k

\* The keys before those were returned or dropped, and returned in order.
EarlierKeysGone ==
  ~raced => /\ \A j, k \in 1..Len(got) : j < k => got[j] < got[k]
            /\ \A j \in 1..Len(got) : got[j] \in (1..(typed - Count)) \ dropped
            /\ \A v \in (1..(typed - Count)) \ dropped : \E j \in 1..Len(got) : got[j] = v
            /\ dropped \subseteq 1..(typed - Count)

\* Slots are written in turn, so only a ring not yet filled once has unwritten ones.
SlotsWritten ==
  /\ typed < Size => write_idx = typed
  /\ \A s \in 0..(Size - 1) : s < typed => key_buffer[s] > 0
  /\ raced => typed >= Size

\* What get_key has loaded: it fetches only from a ring that holds a key, and
\* its copy of read_idx is current unless the handler made room meanwhile.
GetKeySteps ==
  /\ pc = "compare" /\ idx # write_idx => read_idx # write_idx
  /\ pc \in {"load", "fetch", "reload", "store"} /\ ~raced => read_idx # write_idx
  /\ pc \in {"fetch", "store"} /\ ~raced => idx = read_idx
  /\ pc \in {"reload", "store"} => c > 0 /\ (~raced => c = key_buffer[read_idx])

\* The bytes received are whole bursts: every escape byte is followed by the
\* rest of its sequence, and the bytes of a sequence occur only there.
LineWhole ==
  ~late => /\ wire = <<>>
           /\ uart \in Seq({"x", "esc", "[", "A"})
           /\ \A i \in 1..Len(uart) :
                /\ uart[i] = "esc" => i + 2 <= Len(uart) /\ uart[i + 1] = "[" /\ uart[i + 2] = "A"
                /\ uart[i] = "[" => i > 1 /\ uart[i - 1] = "esc"
                /\ uart[i] = "A" => i > 1 /\ uart[i - 1] = "["
           /\ serial_got \in Seq({"x", "up"})

RingInv ==
  TypeOK /\ RingHoldsLast /\ EarlierKeysGone /\ SlotsWritten /\ GetKeySteps /\ DropsOnlyWhenFull

LineInv == (late \in BOOLEAN) /\ LineWhole

-----------------------------------------------------------------------------
\* When the oldest key is dropped, the same keys remain to be returned.
LEMMA OneMoreGone ==
  ASSUME NEW n \in Nat, NEW D \in SUBSET (1..n)
  PROVE  /\ (1..(n + 1)) \ (D \cup {n + 1}) = (1..n) \ D
         /\ D \cup {n + 1} \subseteq 1..(n + 1)
OBVIOUS

\* The index after i, without the modulus.
LEMMA NextIndex ==
  ASSUME NEW i \in 0..(Size - 1)
  PROVE  Next1(i) = (IF i + 1 = Size THEN 0 ELSE i + 1)
<1> USE KeyboardAssumption DEF KeyboardAssumption
<1>1. CASE i + 1 = Size
  BY <1>1 DEF Next1
<1>2. CASE i + 1 # Size
  BY <1>2 DEF Next1
<1> QED
  BY <1>1, <1>2

\* Count and Slot are what the modulus of Pending computes.
LEMMA PendingIndices ==
  ASSUME TypeOK
  PROVE  /\ (write_idx - read_idx) % Size = Count
         /\ Count \in 0..(Size - 1)
         /\ \A k \in 1..Count : (read_idx + k - 1) % Size = Slot(k - 1)
<1> USE KeyboardAssumption DEF KeyboardAssumption
<1>0. read_idx \in 0..(Size - 1) /\ write_idx \in 0..(Size - 1)
  BY DEF TypeOK
<1>1. (write_idx - read_idx) % Size = Count /\ Count \in 0..(Size - 1)
  <2>1. CASE write_idx >= read_idx
    BY <1>0, <2>1 DEF Count
  <2>2. CASE write_idx < read_idx
    BY <1>0, <2>2 DEF Count
  <2> QED
    BY <1>0, <2>1, <2>2
<1>2. ASSUME NEW k \in 1..Count PROVE (read_idx + k - 1) % Size = Slot(k - 1)
  <2>0. k \in Nat /\ k <= Size - 1 /\ k > 0
    BY <1>1
  <2>1. CASE read_idx + (k - 1) < Size
    BY <1>0, <2>0, <2>1 DEF Slot
  <2>2. CASE read_idx + (k - 1) >= Size
    BY <1>0, <2>0, <2>2 DEF Slot
  <2> QED
    BY <1>0, <2>0, <2>1, <2>2
<1> QED
  BY <1>1, <1>2

\* The invariant of the ring holds at start.
LEMMA InitRing == Init => RingInv
<1> SUFFICES ASSUME Init PROVE RingInv
  OBVIOUS
<1> USE KeyboardAssumption DEF KeyboardAssumption, Init
<1>1. TypeOK
  <2>1. key_buffer \in [0..(Size - 1) -> 0..MaxTyped]
    OBVIOUS
  <2>2. {read_idx, write_idx, idx} \subseteq 0..(Size - 1) /\ key_state \subseteq {"shift", "ctrl"}
    OBVIOUS
  <2>3. c \in 0..MaxTyped /\ typed \in 0..MaxTyped /\ bursts \in 0..MaxSerial
    OBVIOUS
  <2>4. got \in Seq(1..MaxTyped) /\ dropped \subseteq 1..MaxTyped
    OBVIOUS
  <2>5. raced \in BOOLEAN /\ late \in BOOLEAN
    OBVIOUS
  <2>6. pc \in {"poll", "compare", "load", "fetch", "reload", "store", "serial"}
    OBVIOUS
  <2> QED
    BY <2>1, <2>2, <2>3, <2>4, <2>5, <2>6 DEF TypeOK
<1>2. Count = 0
  BY DEF Count
<1>3. RingHoldsLast /\ EarlierKeysGone
  BY <1>2 DEF RingHoldsLast, EarlierKeysGone
<1> QED
  BY <1>1, <1>3 DEF RingInv, SlotsWritten, GetKeySteps, DropsOnlyWhenFull

\* The handler puts a key, at any point of get_key.
LEMMA PutKeyRing ==
  ASSUME RingInv, typed < MaxTyped, PutKey, key_state' \subseteq {"shift", "ctrl"},
         UNCHANGED <<pc, idx, c, line_vars, got>>
  PROVE  RingInv'
<1> USE KeyboardAssumption DEF KeyboardAssumption
<1>0. TypeOK
  BY DEF RingInv
<1>1. read_idx \in 0..(Size - 1) /\ write_idx \in 0..(Size - 1) /\ typed \in 0..MaxTyped
      /\ idx \in 0..(Size - 1) /\ key_buffer \in [0..(Size - 1) -> 0..MaxTyped]
      /\ got \in Seq(1..MaxTyped) /\ dropped \subseteq 1..MaxTyped /\ raced \in BOOLEAN
  BY <1>0 DEF TypeOK
<1> DEFINE W == IF write_idx + 1 = Size THEN 0 ELSE write_idx + 1
           R == IF read_idx + 1 = Size THEN 0 ELSE read_idx + 1
<1>2. Next1(write_idx) = W /\ Next1(read_idx) = R /\ W \in 0..(Size - 1) /\ R \in 0..(Size - 1)
  BY <1>1, NextIndex
<1>3. /\ read_idx' = (IF W = read_idx THEN R ELSE read_idx)
      /\ write_idx' = W
      /\ key_buffer' = [key_buffer EXCEPT ![write_idx] = typed + 1]
      /\ typed' = typed + 1
      /\ dropped' = (IF W = read_idx THEN dropped \cup {key_buffer[read_idx]} ELSE dropped)
      /\ raced' = (raced \/ (W = read_idx /\ pc \in {"fetch", "reload", "store"}))
      /\ UNCHANGED <<pc, idx, c, got, bursts, late>>
  BY <1>2 DEF PutKey, Full, line_vars
<1>4. Count \in 0..(Size - 1) /\ (W = read_idx <=> Count = Size - 1)
  BY <1>1 DEF Count
<1>5. Count' = IF W = read_idx THEN Count ELSE Count + 1
  BY <1>1, <1>3 DEF Count
<1>6. W = read_idx => key_buffer[read_idx] > 0 /\ (~raced => key_buffer[read_idx] = typed - Count + 1)
  <2>1. ~raced /\ W = read_idx => Count > 0 /\ Slot(0) = read_idx
    BY <1>1, <1>4 DEF Slot
  <2>2. ~raced /\ W = read_idx => Count <= typed /\ key_buffer[read_idx] = typed - Count + 1
    <3> SUFFICES ASSUME ~raced, W = read_idx
                 PROVE  Count <= typed /\ key_buffer[read_idx] = typed - Count + 1
      OBVIOUS
    <3>1. Count <= typed /\ \A k \in 0..(Count - 1) : key_buffer[Slot(k)] = typed - Count + 1 + k
      BY DEF RingInv, RingHoldsLast
    <3>2. 0 \in 0..(Count - 1)
      BY <1>4, <2>1
    <3>3. key_buffer[Slot(0)] = typed - Count + 1 + 0
      BY <3>1, <3>2
    <3> QED
      BY <1>1, <1>4, <2>1, <3>1, <3>3
  <2>3. raced => key_buffer[read_idx] > 0
    BY <1>1 DEF RingInv, SlotsWritten
  <2> QED
    BY <1>1, <1>4, <2>2, <2>3
<1>7. TypeOK'
  <2>1. key_buffer' \in [0..(Size - 1) -> 0..MaxTyped]
    BY <1>1, <1>3
  <2>4. dropped' \subseteq 1..MaxTyped
    <3>1. W = read_idx => key_buffer[read_idx] \in 1..MaxTyped
      BY <1>1, <1>6
    <3> QED
      BY <1>1, <1>3, <3>1
  <2>2. {read_idx', write_idx', idx'} \subseteq 0..(Size - 1) /\ typed' \in 0..MaxTyped
    BY <1>1, <1>2, <1>3
  <2>3. raced' \in BOOLEAN
    BY <1>3
  <2> QED
    BY <1>0, <1>3, <2>1, <2>2, <2>3, <2>4 DEF TypeOK
<1>8. RingHoldsLast'
  <2> SUFFICES ASSUME ~raced'
               PROVE  /\ Count' <= typed'
                      /\ \A k \in 0..(Count' - 1) : key_buffer'[Slot(k)'] = typed' - Count' + 1 + k
    BY DEF RingHoldsLast
  <2>1. ~raced
    BY <1>1, <1>3
  <2>2. Count <= typed /\ \A k \in 0..(Count - 1) : key_buffer[Slot(k)] = typed - Count + 1 + k
    BY <2>1 DEF RingInv, RingHoldsLast
  <2>3. ASSUME NEW k \in 0..(Count' - 1) PROVE key_buffer'[Slot(k)'] = typed' - Count' + 1 + k
    <3>1. CASE W # read_idx /\ k < Count
      <4>1. Slot(k)' = Slot(k) /\ Slot(k) # write_idx /\ Slot(k) \in 0..(Size - 1)
        BY <1>1, <1>3, <1>4, <3>1 DEF Slot, Count
      <4>2. key_buffer[Slot(k)] = typed - Count + 1 + k
        BY <1>4, <2>2, <3>1
      <4> QED
        BY <1>1, <1>3, <1>4, <1>5, <3>1, <4>1, <4>2
    <3>2. CASE W # read_idx /\ k = Count
      <4>1. Slot(k)' = write_idx
        BY <1>1, <1>3, <1>4, <3>2 DEF Slot, Count
      <4> QED
        BY <1>1, <1>3, <1>4, <1>5, <3>2, <4>1
    <3>3. CASE W = read_idx /\ k < Count - 1
      <4>1. Slot(k)' = Slot(k + 1) /\ Slot(k + 1) # write_idx /\ Slot(k + 1) \in 0..(Size - 1)
        BY <1>1, <1>3, <1>4, <3>3 DEF Slot, Count
      <4>2. key_buffer[Slot(k + 1)] = typed - Count + 1 + (k + 1)
        BY <1>4, <2>2, <3>3
      <4> QED
        BY <1>1, <1>3, <1>4, <1>5, <3>3, <4>1, <4>2
    <3>4. CASE W = read_idx /\ k = Count - 1
      <4>1. Slot(k)' = write_idx
        BY <1>1, <1>3, <1>4, <3>4 DEF Slot, Count
      <4> QED
        BY <1>1, <1>3, <1>4, <1>5, <3>4, <4>1
    <3> QED
      BY <1>4, <1>5, <3>1, <3>2, <3>3, <3>4
  <2> QED
    BY <1>1, <1>3, <1>4, <1>5, <2>2, <2>3
<1>9. EarlierKeysGone'
  <2> SUFFICES ASSUME ~raced' PROVE EarlierKeysGone'
    BY DEF EarlierKeysGone
  <2>1. ~raced /\ EarlierKeysGone
    BY <1>1, <1>3 DEF RingInv
  <2>2. CASE W # read_idx
    <3>1. typed' - Count' = typed - Count /\ dropped' = dropped /\ got' = got
      BY <1>1, <1>3, <1>4, <1>5, <2>2
    <3> QED
      BY <2>1, <3>1 DEF EarlierKeysGone
  <2>3. CASE W = read_idx
    <3>1. typed' - Count' = typed - Count + 1 /\ got' = got
          /\ dropped' = dropped \cup {typed - Count + 1} /\ Count <= typed
      BY <1>1, <1>3, <1>4, <1>5, <1>6, <2>1, <2>3 DEF RingInv, RingHoldsLast
    <3> QED
      <4>1. typed - Count \in Nat
        BY <1>1, <1>4, <3>1
      <4>2. dropped \subseteq 1..(typed - Count)
        BY <2>1 DEF EarlierKeysGone
      <4>3. /\ (1..(typed' - Count')) \ dropped' = (1..(typed - Count)) \ dropped
            /\ dropped' \subseteq 1..(typed' - Count')
        BY <3>1, <4>1, <4>2, OneMoreGone
      <4> QED
        BY <2>1, <3>1, <4>3 DEF EarlierKeysGone
  <2> QED
    BY <2>2, <2>3
<1>10. SlotsWritten'
  <2>1. raced' => typed' >= Size
    <3>1. ~raced /\ W = read_idx => Count <= typed
      BY DEF RingInv, RingHoldsLast
    <3> QED
      BY <1>1, <1>3, <1>4, <3>1 DEF RingInv, SlotsWritten
  <2>2. typed' < Size => write_idx' = typed'
    BY <1>1, <1>3 DEF RingInv, SlotsWritten
  <2>3. \A s \in 0..(Size - 1) : s < typed' => key_buffer'[s] > 0
    BY <1>1, <1>3 DEF RingInv, SlotsWritten
  <2> QED
    BY <2>1, <2>2, <2>3 DEF SlotsWritten
<1>11. GetKeySteps'
  <2>1. read_idx' # write_idx'
    BY <1>1, <1>3
  <2>2. pc \in {"fetch", "reload", "store"} /\ ~raced' => read_idx' = read_idx /\ read_idx # write_idx
    BY <1>1, <1>3 DEF RingInv, GetKeySteps
  <2>3. read_idx # write_idx => key_buffer'[read_idx] = key_buffer[read_idx]
    BY <1>1, <1>3
  <2> QED
    BY <1>1, <1>3, <2>1, <2>2, <2>3 DEF RingInv, GetKeySteps
<1>12. DropsOnlyWhenFull'
  BY <1>1, <1>3, <1>4, <1>6, SMTT(30) DEF RingInv, DropsOnlyWhenFull
<1> QED
  BY <1>7, <1>8, <1>9, <1>10, <1>11, <1>12 DEF RingInv

\* get_key stores the new read_idx and returns the key it fetched.
LEMMA StoreRing ==
  ASSUME RingInv, Store
  PROVE  RingInv'
<1> USE KeyboardAssumption DEF KeyboardAssumption
<1>0. TypeOK
  BY DEF RingInv
<1>1. read_idx \in 0..(Size - 1) /\ write_idx \in 0..(Size - 1) /\ typed \in 0..MaxTyped
      /\ idx \in 0..(Size - 1) /\ key_buffer \in [0..(Size - 1) -> 0..MaxTyped]
      /\ got \in Seq(1..MaxTyped) /\ c \in 1..MaxTyped
  BY <1>0, SMTT(30) DEF TypeOK, RingInv, GetKeySteps, Store
<1> DEFINE I == IF idx + 1 = Size THEN 0 ELSE idx + 1
<1>2. Next1(idx) = I /\ I \in 0..(Size - 1)
  BY <1>1, NextIndex
<1>3. /\ pc = "store" /\ read_idx' = I /\ got' = Append(got, c) /\ pc' = "poll"
      /\ UNCHANGED <<key_buffer, write_idx, key_state, idx, c, bursts, late, typed, dropped, raced>>
  BY <1>2 DEF Store, Goto, line_vars
<1>4. TypeOK'
  BY <1>0, <1>1, <1>2, <1>3, SMTT(30) DEF TypeOK
<1>5. ~raced => /\ idx = read_idx /\ Count > 0 /\ Count' = Count - 1 /\ Count \in 0..(Size - 1)
                /\ c = typed - Count + 1 /\ Count <= typed
  <2>1. ~raced => idx = read_idx /\ read_idx # write_idx /\ c = key_buffer[read_idx]
    BY <1>3 DEF RingInv, GetKeySteps
  <2>2. ~raced => Count > 0 /\ Count' = Count - 1 /\ Count \in 0..(Size - 1) /\ Slot(0) = read_idx
    BY <1>1, <1>3, <2>1 DEF Count, Slot
  <2> QED
    <3> SUFFICES ASSUME ~raced
                 PROVE  c = typed - Count + 1 /\ Count <= typed
      BY <2>1, <2>2
    <3>1. Count <= typed /\ \A k \in 0..(Count - 1) : key_buffer[Slot(k)] = typed - Count + 1 + k
      BY DEF RingInv, RingHoldsLast
    <3>2. 0 \in 0..(Count - 1)
      BY <2>2
    <3>3. key_buffer[Slot(0)] = typed - Count + 1 + 0
      BY <3>1, <3>2
    <3> QED
      BY <1>1, <2>1, <2>2, <3>1, <3>3, SMTT(30)
<1>6. RingHoldsLast'
  <2> SUFFICES ASSUME ~raced
               PROVE  /\ Count' <= typed'
                      /\ \A k \in 0..(Count' - 1) : key_buffer'[Slot(k)'] = typed' - Count' + 1 + k
    BY <1>3 DEF RingHoldsLast
  <2>1. ASSUME NEW k \in 0..(Count' - 1) PROVE key_buffer'[Slot(k)'] = typed' - Count' + 1 + k
    <3>0. read_idx' = (IF read_idx + 1 = Size THEN 0 ELSE read_idx + 1)
      BY <1>3, <1>5
    <3>1. k + 1 \in 0..(Count - 1) /\ k \in 0..(Size - 3)
      BY <1>5
    <3>4. Slot(k)' = Slot(k + 1)
      BY <1>1, <3>0, <3>1 DEF Slot
    <3>2. key_buffer[Slot(k + 1)] = typed - Count + 1 + (k + 1)
      BY <3>1 DEF RingInv, RingHoldsLast
    <3> QED
      <4>1. key_buffer'[Slot(k)'] = typed - Count + 1 + (k + 1)
        BY <1>3, <3>2, <3>4
      <4>2. typed' = typed /\ Count' = Count - 1 /\ typed \in Int /\ Count \in Int /\ k \in Int
        BY <1>1, <1>3, <1>5, <3>1
      <4> QED
        BY <4>1, <4>2
  <2> QED
    BY <1>1, <1>3, <1>5, <2>1
<1>7. EarlierKeysGone'
  <2> SUFFICES ASSUME ~raced PROVE EarlierKeysGone'
    BY <1>3 DEF EarlierKeysGone
  <2>1. EarlierKeysGone /\ Len(got) \in Nat
    BY <1>1 DEF RingInv
  <2>2. typed' - Count' = typed - Count + 1 /\ dropped' = dropped /\ c = typed - Count + 1
        /\ typed - Count \in Nat
    BY <1>1, <1>3, <1>5, SMTT(30)
  <2>3. Len(got') = Len(got) + 1 /\ got'[Len(got) + 1] = c
        /\ \A j \in 1..Len(got) : got'[j] = got[j]
    BY <1>1, <1>3
  <2>4. \A j \in 1..Len(got) : got[j] \in (1..(typed - Count)) \ dropped
    BY <2>1 DEF EarlierKeysGone
  <2>5. \A j, k \in 1..Len(got') : j < k => got'[j] < got'[k]
    <3> SUFFICES ASSUME NEW j \in 1..(Len(got) + 1), NEW k \in 1..(Len(got) + 1), j < k
                 PROVE  got'[j] < got'[k]
      BY <2>3
    <3>1. j \in 1..Len(got) /\ got'[j] = got[j] /\ got[j] \in 1..(typed - Count)
      BY <2>1, <2>3, <2>4
    <3>2. CASE k = Len(got) + 1
      BY <2>2, <2>3, <3>1, <3>2
    <3>3. CASE k \in 1..Len(got)
      BY <2>1, <2>3, <3>1, <3>3 DEF EarlierKeysGone
    <3> QED
      BY <2>1, <3>2, <3>3
  <2>6. c \notin dropped
    BY <2>1, <2>2 DEF EarlierKeysGone
  <2>7. \A j \in 1..Len(got') : got'[j] \in (1..(typed' - Count')) \ dropped'
    BY <2>1, <2>2, <2>3, <2>4, <2>6
  <2>8. \A v \in (1..(typed' - Count')) \ dropped' : \E j \in 1..Len(got') : got'[j] = v
    <3> SUFFICES ASSUME NEW v \in (1..(typed' - Count')) \ dropped'
                 PROVE  \E j \in 1..Len(got') : got'[j] = v
      OBVIOUS
    <3>1. CASE v = c
      BY <2>1, <2>3, <3>1
    <3>2. CASE v # c
      <4>1. v \in (1..(typed - Count)) \ dropped
        BY <2>2, <3>2
      <4>2. PICK j \in 1..Len(got) : got[j] = v
        BY <2>1, <4>1 DEF EarlierKeysGone
      <4>3. j \in 1..Len(got') /\ got'[j] = v
        BY <2>1, <2>3, <4>2
      <4> QED
        BY <4>3
    <3> QED
      BY <3>1, <3>2
  <2>9. dropped' \subseteq 1..(typed' - Count')
    BY <2>1, <2>2 DEF EarlierKeysGone
  <2> QED
    BY <2>5, <2>7, <2>8, <2>9 DEF EarlierKeysGone
<1> QED
  BY <1>1, <1>3, <1>4, <1>6, <1>7 DEF RingInv, SlotsWritten, GetKeySteps, DropsOnlyWhenFull

\* Every step of the handler, of get_key and of the line preserves it.
LEMMA StepRing == RingInv /\ [Next]_vars => RingInv'
<1> SUFFICES ASSUME RingInv, [Next]_vars PROVE RingInv'
  OBVIOUS
<1> USE KeyboardAssumption DEF KeyboardAssumption
<1> DEFINE Kept == UNCHANGED <<key_buffer, read_idx, write_idx, key_state, bursts, late, typed,
                               got, dropped, raced>>
<1>0. RingInv /\ UNCHANGED <<key_buffer, read_idx, write_idx, pc, idx, c, typed, got, dropped, raced>>
      /\ key_state' \subseteq {"shift", "ctrl"} /\ bursts' \in 0..MaxSerial /\ late' \in BOOLEAN
      => RingInv'
  <2> SUFFICES ASSUME UNCHANGED <<key_buffer, read_idx, write_idx, pc, idx, c, typed, got,
                                  dropped, raced>>,
                      key_state' \subseteq {"shift", "ctrl"}, bursts' \in 0..MaxSerial,
                      late' \in BOOLEAN
               PROVE  RingInv'
    OBVIOUS
  <2>1. TypeOK'
    BY DEF RingInv, TypeOK
  <2>2. Count' = Count /\ \A k : Slot(k)' = Slot(k)
    BY DEF Count, Slot
  <2>3. RingHoldsLast' /\ EarlierKeysGone'
    BY <2>2 DEF RingInv, RingHoldsLast, EarlierKeysGone
  <2> QED
    BY <2>1, <2>3 DEF RingInv, SlotsWritten, GetKeySteps, DropsOnlyWhenFull
<1>1. RingInv => key_state \subseteq {"shift", "ctrl"} /\ bursts \in 0..MaxSerial /\ late \in BOOLEAN
  BY DEF RingInv, TypeOK
<1>2. ASSUME NEW k \in {"letter", "arrow", "page", "shift", "ctrl"}, KeyDown(k) PROVE RingInv'
  <2>1. key_state' \subseteq {"shift", "ctrl"} /\ typed < MaxTyped
    BY <1>1, <1>2 DEF KeyDown
  <2>2. CASE Produces(k)
    BY <1>2, <2>1, <2>2, PutKeyRing DEF KeyDown
  <2>3. CASE ~Produces(k)
    BY <1>0, <1>1, <1>2, <2>1, <2>3 DEF KeyDown, ring_vars, line_vars
  <2> QED
    BY <2>2, <2>3
<1>3. ASSUME NEW k \in {"shift", "ctrl"}, KeyUp(k) PROVE RingInv'
  BY <1>0, <1>1, <1>3 DEF KeyUp, ring_vars, line_vars, ghost_vars
<1>4. ASSUME Kept, NEW p \in {"compare", "fetch", "store"}, pc' = p, idx' = read_idx, c' = c,
             \/ p = "compare"
             \/ p = "fetch" /\ pc = "load"
             \/ p = "store" /\ pc = "reload"
      PROVE  RingInv'
  BY <1>4 DEF RingInv, TypeOK, RingHoldsLast, EarlierKeysGone, SlotsWritten, GetKeySteps,
              DropsOnlyWhenFull, Count, Slot
<1>5. CASE LoadReadIdx("poll", "compare") \/ LoadReadIdx("load", "fetch")
           \/ LoadReadIdx("reload", "store")
  BY <1>4, <1>5 DEF LoadReadIdx, Goto, ring_vars, line_vars, ghost_vars
<1>6. CASE Compare
  BY <1>6 DEF Compare, Goto, ring_vars, line_vars, ghost_vars, RingInv, TypeOK, RingHoldsLast,
              EarlierKeysGone, SlotsWritten, GetKeySteps, DropsOnlyWhenFull, Count, Slot
<1>7. CASE Fetch
  <2>1. /\ pc = "fetch" /\ pc' = "reload" /\ c' = key_buffer[idx]
        /\ Kept /\ idx' = idx
    BY <1>7 DEF Fetch, Goto, ring_vars, line_vars, ghost_vars
  <2>2. TypeOK /\ idx \in 0..(Size - 1) /\ key_buffer \in [0..(Size - 1) -> 0..MaxTyped]
        /\ typed \in 0..MaxTyped /\ raced \in BOOLEAN
    BY DEF RingInv, TypeOK
  <2>3. ~raced => idx = read_idx /\ read_idx # write_idx
    BY <2>1 DEF RingInv, GetKeySteps
  <2>4. c' > 0
    <3>1. CASE raced
      BY <2>1, <2>2, <3>1 DEF RingInv, SlotsWritten
    <3>2. CASE ~raced
      <4>1. Count > 0 /\ Slot(0) = read_idx /\ Count \in Nat
        <5>1. read_idx \in 0..(Size - 1) /\ write_idx \in 0..(Size - 1) /\ read_idx # write_idx
          BY <2>2, <2>3, <3>2 DEF TypeOK
        <5> QED
          BY <5>1 DEF Count, Slot
      <4>2. key_buffer[Slot(0)] = typed - Count + 1 + 0 /\ Count <= typed
        <5>1. 0 \in 0..(Count - 1)
          BY <4>1
        <5> QED
          BY <3>2, <5>1 DEF RingInv, RingHoldsLast
      <4> QED
        BY <2>1, <2>2, <2>3, <3>2, <4>1, <4>2, SMTT(30)
    <3> QED
      BY <3>1, <3>2
  <2>5. TypeOK'
    BY <2>1, <2>2 DEF TypeOK
  <2> QED
    BY <2>1, <2>2, <2>3, <2>4, <2>5 DEF RingInv, RingHoldsLast, EarlierKeysGone, SlotsWritten,
       GetKeySteps, DropsOnlyWhenFull, Count, Slot
<1>8. CASE Store
  BY <1>8, StoreRing
<1>9. CASE Serial
  BY <1>9 DEF Serial, Goto, ring_vars, line_vars, ghost_vars, RingInv, TypeOK, RingHoldsLast,
              EarlierKeysGone, SlotsWritten, GetKeySteps, DropsOnlyWhenFull, Count, Slot
<1>10. ASSUME NEW b \in Bursts, Send(b) PROVE RingInv'
  <2>1. bursts' \in 0..MaxSerial /\ late' \in BOOLEAN
    <3>1. bursts' \in 0..MaxSerial
      BY <1>1, <1>10 DEF Send
    <3>2. late' \in BOOLEAN
      BY <1>1, <1>10 DEF Send
    <3> QED
      BY <3>1, <3>2
  <2> QED
    BY <1>0, <1>1, <1>10, <2>1 DEF Send, ring_vars, ghost_vars
<1>11. CASE Arrive
  BY <1>0, <1>1, <1>11 DEF Arrive, ring_vars, ghost_vars
<1>12. CASE UNCHANGED vars
  BY <1>0, <1>1, <1>12 DEF vars, ring_vars, line_vars, ghost_vars
<1> QED
  BY <1>2, <1>3, <1>5, <1>6, <1>7, <1>8, <1>9, <1>10, <1>11, <1>12 DEF Next, GetKey

\* The bytes on the serial line stay whole, wherever get_key takes them up.
LEMMA StepLine == LineInv /\ [Next]_vars => LineInv'
<1> SUFFICES ASSUME LineInv, [Next]_vars PROVE LineInv'
  OBVIOUS
<1>0. LineInv /\ UNCHANGED line_vars => LineInv'
  BY DEF LineInv, LineWhole, line_vars
<1>1. CASE Serial
  <2>1. late' = late /\ wire' = wire
    BY <1>1 DEF Serial
  <2> SUFFICES ASSUME ~late PROVE LineWhole'
    BY <2>1 DEF LineInv, LineWhole
  <2>2. /\ wire = <<>> /\ serial_got \in Seq({"x", "up"})
        /\ uart \in Seq({"x", "esc", "[", "A"})
        /\ \A i \in 1..Len(uart) :
             /\ uart[i] = "esc" => i + 2 <= Len(uart) /\ uart[i + 1] = "[" /\ uart[i + 2] = "A"
             /\ uart[i] = "[" => i > 1 /\ uart[i - 1] = "esc"
             /\ uart[i] = "A" => i > 1 /\ uart[i - 1] = "["
    BY DEF LineInv, LineWhole
  <2>3. CASE uart = <<>>
    <3>1. Consumed = 0 /\ Len(uart) = 0
      BY <2>3 DEF Consumed
    <3>2. serial_got' = serial_got /\ uart' = SubSeq(uart, 1, 0)
      BY <1>1, <3>1 DEF Serial
    <3>3. uart' = <<>>
      BY <2>3, <3>2
    <3> QED
      BY <2>1, <2>2, <3>2, <3>3 DEF LineWhole
  <2>4. CASE uart # <<>>
    <3>1. Len(uart) \in Nat /\ Len(uart) > 0 /\ Head(uart) = uart[1] /\ uart[1] \in {"x", "esc"}
      BY <2>2, <2>4
    <3>2. \/ uart[1] = "x" /\ Consumed = 1
          \/ /\ uart[1] = "esc" /\ Consumed = 3
             /\ Len(uart) >= 3 /\ uart[2] = "[" /\ uart[3] = "A"
      <4>1. uart[1] = "esc" => Len(uart) >= 3 /\ uart[2] = "[" /\ uart[3] = "A"
        BY <2>2, <3>1
      <4>2. uart[1] = "x" => Consumed = 1
        BY <2>4, <3>1 DEF Consumed
      <4>3. uart[1] = "esc" => Consumed = 3
        BY <2>4, <3>1, <4>1 DEF Consumed
      <4> QED
        BY <3>1, <4>1, <4>2, <4>3
    <3>3. KeyOf(Consumed) \in {"x", "up"}
      BY <3>1, <3>2 DEF KeyOf
    <3> DEFINE n == Consumed
               rest == SubSeq(uart, n + 1, Len(uart))
    <3>4. n \in 1..Len(uart)
      BY <3>1, <3>2
    <3>5. serial_got' = Append(serial_got, KeyOf(n)) /\ uart' = rest
      BY <1>1, <3>2 DEF Serial
    <3>6. serial_got' \in Seq({"x", "up"})
      BY <2>2, <3>3, <3>5
    <3>7. (n = 1 /\ uart[1] = "x") \/ (n = 3 /\ uart[2] = "[" /\ uart[3] = "A")
      BY <3>2
    <3> HIDE DEF n
    <3>8. /\ rest \in Seq({"x", "esc", "[", "A"}) /\ Len(rest) = Len(uart) - n
          /\ \A i \in 1..Len(rest) : rest[i] = uart[n + i]
      BY <2>2, <3>1, <3>4
    <3> HIDE DEF rest
    <3>9. ASSUME NEW i \in 1..Len(rest)
          PROVE  /\ rest[i] = "esc" => i + 2 <= Len(rest) /\ rest[i + 1] = "[" /\ rest[i + 2] = "A"
                 /\ rest[i] = "[" => i > 1 /\ rest[i - 1] = "esc"
                 /\ rest[i] = "A" => i > 1 /\ rest[i - 1] = "["
      <4>1. n + i \in 1..Len(uart) /\ rest[i] = uart[n + i] /\ i \in Nat /\ n \in Nat
        BY <3>1, <3>4, <3>8
      <4>2. ASSUME rest[i] = "esc" PROVE i + 2 <= Len(rest) /\ rest[i + 1] = "[" /\ rest[i + 2] = "A"
        <5>1. n + i + 2 <= Len(uart) /\ uart[n + i + 1] = "[" /\ uart[n + i + 2] = "A"
          BY <2>2, <4>1, <4>2
        <5>2. i + 1 \in 1..Len(rest) /\ i + 2 \in 1..Len(rest)
          BY <3>1, <3>8, <4>1, <5>1
        <5>3. rest[i + 1] = uart[n + (i + 1)] /\ rest[i + 2] = uart[n + (i + 2)]
          BY <3>8, <5>2
        <5> QED
          BY <4>1, <5>1, <5>2, <5>3
      <4>3. ASSUME rest[i] \in {"[", "A"} PROVE i > 1
        <5>1. i = 1 => uart[n] \in {"x", "A"}
          BY <3>7, <4>1
        <5>2. uart[n + i - 1] \in {"esc", "["}
          BY <2>2, <4>1, <4>3
        <5> QED
          BY <4>1, <5>1, <5>2
      <4>4. i > 1 => rest[i - 1] = uart[n + i - 1]
        BY <3>1, <3>8, <4>1
      <4> DEFINE m == n + i
      <4>5. uart[m] = "[" => uart[m - 1] = "esc"
        BY <2>2, <4>1
      <4>6. uart[m] = "A" => uart[m - 1] = "["
        BY <2>2, <4>1
      <4> QED
        BY <4>1, <4>2, <4>3, <4>4, <4>5, <4>6
    <3> QED
      BY <2>1, <2>2, <3>5, <3>6, <3>8, <3>9 DEF LineWhole
  <2> QED
    BY <2>3, <2>4
<1>2. ASSUME NEW b \in Bursts, Send(b) PROVE LineInv'
  <2>1. late' \in BOOLEAN
    BY <1>2 DEF Send, LineInv
  <2> SUFFICES ASSUME ~late' PROVE LineWhole'
    BY <2>1 DEF LineInv, LineWhole
  <2>2. ~late /\ wire' = wire /\ uart' = uart \o b /\ serial_got' = serial_got
    BY <1>2 DEF Send
  <2>3. b \in Seq({"x", "esc", "[", "A"})
        /\ (b = <<"x">> \/ b = <<"esc", "[", "A">>)
    <3>1. b = <<"x">> \/ b = <<"esc", "[", "A">>
      BY DEF Bursts
    <3>2. <<"x">> \in Seq({"x", "esc", "[", "A"})
      OBVIOUS
    <3>3. <<"esc", "[", "A">> \in Seq({"x", "esc", "[", "A"})
      OBVIOUS
    <3> QED
      BY <3>1, <3>2, <3>3
  <2>4. /\ uart' \in Seq({"x", "esc", "[", "A"}) /\ Len(uart') = Len(uart) + Len(b)
        /\ Len(uart) \in Nat
        /\ \A i \in 1..Len(uart') : uart'[i] = IF i <= Len(uart) THEN uart[i] ELSE b[i - Len(uart)]
    BY <2>2, <2>3 DEF LineInv, LineWhole
  <2>5. ASSUME NEW i \in 1..Len(uart')
        PROVE  /\ uart'[i] = "esc" => i + 2 <= Len(uart') /\ uart'[i + 1] = "[" /\ uart'[i + 2] = "A"
               /\ uart'[i] = "[" => i > 1 /\ uart'[i - 1] = "esc"
               /\ uart'[i] = "A" => i > 1 /\ uart'[i - 1] = "["
    <3>1. CASE i <= Len(uart)
      BY <2>2, <2>3, <2>4, <3>1 DEF LineInv, LineWhole
    <3>2. CASE b = <<"x">> /\ i > Len(uart)
      BY <2>4, <3>2
    <3>3. CASE b = <<"esc", "[", "A">> /\ i > Len(uart)
      <4>1. Len(uart') = Len(uart) + 3
        BY <2>4, <3>3
      <4>2. /\ uart'[Len(uart) + 1] = "esc" /\ uart'[Len(uart) + 2] = "[" /\ uart'[Len(uart) + 3] = "A"
        BY <2>4, <3>3, <4>1, SMTT(30)
      <4>3. i = Len(uart) + 1 \/ i = Len(uart) + 2 \/ i = Len(uart) + 3
        BY <2>4, <3>3, <4>1, SMTT(30)
      <4> QED
        BY <2>4, <4>1, <4>2, <4>3
    <3> QED
      BY <2>3, <2>4, <3>1, <3>2, <3>3
  <2> QED
    BY <2>2, <2>4, <2>5 DEF LineInv, LineWhole
<1>3. CASE Arrive
  <2>1. late
    BY <1>3 DEF Arrive, LineInv, LineWhole
  <2> QED
    BY <1>3, <2>1 DEF Arrive, LineInv, LineWhole
<1>4. ASSUME NEW k \in {"letter", "arrow", "page", "shift", "ctrl"}, KeyDown(k) PROVE LineInv'
  BY <1>0, <1>4 DEF KeyDown
<1>5. ASSUME NEW k \in {"shift", "ctrl"}, KeyUp(k) PROVE LineInv'
  BY <1>0, <1>5 DEF KeyUp
<1>6. CASE LoadReadIdx("poll", "compare") \/ LoadReadIdx("load", "fetch")
           \/ LoadReadIdx("reload", "store") \/ Compare \/ Fetch \/ Store
  BY <1>0, <1>6 DEF LoadReadIdx, Compare, Fetch, Store
<1>7. CASE UNCHANGED vars
  BY <1>0, <1>7 DEF vars
<1> QED
  BY <1>1, <1>2, <1>3, <1>4, <1>5, <1>6, <1>7 DEF Next, GetKey

-----------------------------------------------------------------------------
\* The ring and get_key's registers are always well typed; no key is returned
\* that was never put.
THEOREM Typing == Spec => []TypeOK
<1>1. RingInv => TypeOK
  BY DEF RingInv
<1> QED
  BY InitRing, StepRing, <1>1, PTL DEF Spec

\* A ring of any size, overrun by any number of keys, with the handler running
\* between any two steps of get_key: keys come out once and in order, and only
\* the oldest of a full ring are lost.
THEOREM OrderKept == Spec => []KeysInOrder
<1>1. RingInv => KeysInOrder
  <2> SUFFICES ASSUME RingInv, ~raced
               PROVE  /\ \A j, k \in 1..Len(Delivered) : j < k => Delivered[j] < Delivered[k]
                      /\ {Delivered[k] : k \in 1..Len(Delivered)} = (1..typed) \ dropped
    BY DEF KeysInOrder
  <2>1. TypeOK /\ Count <= typed /\ typed \in Nat /\ got \in Seq(1..MaxTyped) /\ Len(got) \in Nat
        /\ \A k \in 0..(Count - 1) : key_buffer[Slot(k)] = typed - Count + 1 + k
    BY DEF RingInv, RingHoldsLast, TypeOK
  <2>2. Count \in Nat /\ Pending = [k \in 1..Count |-> key_buffer[(read_idx + k - 1) % Size]]
    BY <2>1, PendingIndices DEF Pending
  <2>3. Pending = [k \in 1..Count |-> typed - Count + k]
    <3>1. ASSUME NEW k \in 1..Count PROVE key_buffer[(read_idx + k - 1) % Size] = typed - Count + k
      <4>1. (read_idx + k - 1) % Size = Slot(k - 1)
        BY <2>1, PendingIndices
      <4>2. k - 1 \in 0..(Count - 1)
        BY <2>2
      <4>3. key_buffer[Slot(k - 1)] = typed - Count + 1 + (k - 1)
        BY <2>1, <4>2
      <4> QED
        BY <2>1, <2>2, <4>1, <4>3
    <3> QED
      BY <2>2, <3>1
  <2> DEFINE P == [k \in 1..Count |-> typed - Count + k]
  <2>4. P \in Seq(Int) /\ Len(P) = Count
    BY <2>1, <2>2
  <2>5. Delivered = got \o P
    BY <2>3 DEF Delivered
  <2>6. /\ Len(Delivered) = Len(got) + Count
        /\ \A k \in 1..Len(got) : Delivered[k] = got[k]
        /\ \A k \in (Len(got) + 1)..(Len(got) + Count) : Delivered[k] = typed - Count + (k - Len(got))
    BY <2>1, <2>2, <2>4, <2>5
  <2>7. /\ \A j, k \in 1..Len(got) : j < k => got[j] < got[k]
        /\ \A j \in 1..Len(got) : got[j] \in (1..(typed - Count)) \ dropped
        /\ \A v \in (1..(typed - Count)) \ dropped : \E j \in 1..Len(got) : got[j] = v
        /\ dropped \subseteq 1..(typed - Count)
    BY DEF RingInv, EarlierKeysGone
  <2> DEFINE G == Len(got)
             D == Delivered
  <2> HIDE DEF P, G, D
  <2>0. /\ G \in Nat /\ Count \in Nat /\ typed \in Nat /\ Count <= typed
        /\ Len(D) = G + Count
        /\ \A k \in 1..G : D[k] \in (1..(typed - Count)) \ dropped
        /\ \A j, k \in 1..G : j < k => D[j] < D[k]
        /\ \A k \in (G + 1)..(G + Count) : D[k] = typed - Count + (k - G)
    BY <2>1, <2>2, <2>6, <2>7 DEF G, D
  <2>8. ASSUME NEW j \in 1..Len(D), NEW k \in 1..Len(D), j < k
        PROVE  D[j] < D[k]
    <3>0. j \in 1..(G + Count) /\ k \in 1..(G + Count)
      BY <2>0
    <3>1. CASE k <= G
      BY <2>0, <2>8, <3>0, <3>1
    <3>2. CASE j <= G /\ k > G
      <4>1. D[j] \in 1..(typed - Count)
        BY <2>0, <3>0, <3>2
      <4>2. D[k] = typed - Count + (k - G)
        BY <2>0, <3>0, <3>2
      <4> QED
        BY <2>0, <3>0, <3>2, <4>1, <4>2
    <3>3. CASE j > G
      <4>1. D[j] = typed - Count + (j - G) /\ D[k] = typed - Count + (k - G)
        BY <2>0, <2>8, <3>0, <3>3
      <4> QED
        BY <2>0, <2>8, <3>0, <4>1
    <3> QED
      BY <2>0, <3>0, <3>1, <3>2, <3>3
  <2>9. ASSUME NEW k \in 1..Len(D) PROVE D[k] \in (1..typed) \ dropped
    <3>1. CASE k <= G
      BY <2>0, <3>1
    <3>2. CASE k > G
      <4>1. D[k] = typed - Count + (k - G) /\ k \in 1..(G + Count)
        BY <2>0, <3>2
      <4>2. D[k] \in 1..typed /\ D[k] > typed - Count
        BY <2>0, <3>2, <4>1
      <4> QED
        BY <2>0, <2>7, <4>2
    <3> QED
      BY <2>0, <3>1, <3>2
  <2>10. ASSUME NEW v \in (1..typed) \ dropped PROVE \E k \in 1..Len(Delivered) : Delivered[k] = v
    <3>1. CASE v <= typed - Count
      <4>1. PICK j \in 1..Len(got) : got[j] = v
        BY <2>1, <2>2, <2>7, <3>1
      <4> QED
        BY <2>1, <2>2, <2>6, <4>1
    <3>2. CASE v > typed - Count
      <4> DEFINE k == v - (typed - Count) + Len(got)
      <4>1. k \in (Len(got) + 1)..(Len(got) + Count) /\ k \in 1..Len(Delivered)
        BY <2>1, <2>2, <2>6, <3>2
      <4>2. Delivered[k] = typed - Count + (k - Len(got))
        BY <2>6, <4>1
      <4>3. Delivered[k] = v
        BY <2>1, <2>2, <4>2
      <4> QED
        BY <4>1, <4>3
    <3> QED
      BY <2>1, <2>2, <3>1, <3>2
  <2> QED
    BY <2>8, <2>9, <2>10 DEF D
<1> QED
  BY InitRing, StepRing, <1>1, PTL DEF Spec

\* A key is lost only when Size - 1 keys were typed after it and not read.
THEOREM DropsBounded == Spec => []DropsOnlyWhenFull
<1>1. RingInv => DropsOnlyWhenFull
  BY DEF RingInv
<1> QED
  BY InitRing, StepRing, <1>1, PTL DEF Spec

\* An arrow key sent in one piece over the serial line is always returned as one
\* key, whatever precedes it and wherever the keyboard handler runs.
THEOREM ArrowsWhole == Spec => []ArrowsStayWhole
<1>1. Init => LineInv
  <2> SUFFICES ASSUME Init PROVE LineInv
    OBVIOUS
  <2>1. late \in BOOLEAN /\ wire = <<>> /\ uart = <<>> /\ serial_got = <<>>
    BY DEF Init
  <2> QED
    BY <2>1 DEF LineInv, LineWhole
<1>2. LineInv => ArrowsStayWhole
  BY DEF LineInv, LineWhole, ArrowsStayWhole, ArrowsAlwaysWhole
<1> QED
  BY <1>1, StepLine, <1>2, PTL DEF Spec
=============================================================================
