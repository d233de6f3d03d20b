-------------------------- MODULE TextEntry_proofs --------------------------
(***************************************************************************)
(* Proofs about the shell's command line and the editor, for lines, texts, *)
(* histories and screens of any size.                                      *)
(***************************************************************************)
EXTENDS Editor, ShellLine, SequenceTheorems, WellFoundedInduction, TLAPS

\* Induction over the natural numbers, for a set.
LEMMA Induction ==
  ASSUME NEW S, 0 \in S, \A n \in Nat : n \in S => n + 1 \in S
  PROVE  \A n \in Nat : n \in S
<1> DEFINE R == {ss \in Nat \X Nat : ss[1] < ss[2]}
           B == Nat \ S
<1>1. IsWellFoundedOn(R, Nat)
  BY NatLessThanWellFounded, Zenon DEF OpToRel
<1> HIDE DEF R
<1> SUFFICES ASSUME B # {} PROVE FALSE
  OBVIOUS
<1>2. B \subseteq Nat
  OBVIOUS
<1>3. PICK x \in B : \A y \in B : ~ (<<y, x>> \in R)
  BY <1>1, <1>2, WFMin
<1>4. \A a, b \in Nat : ~ (<<a, b>> \in R) => b <= a
  BY DEF R
<1>5. x \in Nat /\ x # 0 /\ x - 1 \in Nat
  BY <1>3
<1>6. x - 1 \in B
  BY <1>3, <1>5
<1>7. ~ (<<x - 1, x>> \in R)
  BY <1>3, <1>6
<1>8. x <= x - 1
  BY <1>4, <1>5, <1>7
<1> QED
  BY <1>5, <1>8

\* f is a run of a loop of n iterations, each a function of the state before it
\* and of its number; T is the set of states.
IsRun(f, n, T, zero, step) ==
  /\ f \in [0..n -> T] /\ f[0] = zero
  /\ \A k \in 1..n : f[k] = step[<<f[k - 1], k>>]

\* Such a loop has a run.
LEMMA LoopRuns ==
  ASSUME NEW n \in Nat, NEW T, NEW zero \in T, NEW step \in [T \X (1..n) -> T]
  PROVE  \E f : IsRun(f, n, T, zero, step)
<1> DEFINE Run(f, m) == IsRun(f, m, T, zero, step)
           S == {m \in Nat : m <= n => \E f : Run(f, m)}
<1> USE DEF IsRun
<1>1. 0 \in S
  <2>1. Run([k \in 0..0 |-> zero], 0)
    OBVIOUS
  <2> QED
    BY <2>1
<1>2. ASSUME NEW m \in Nat, m \in S PROVE m + 1 \in S
  <2>0. m + 1 \in Nat
    OBVIOUS
  <2> SUFFICES ASSUME m + 1 <= n PROVE \E f : Run(f, m + 1)
    BY <2>0
  <2>1. PICK f : Run(f, m)
    BY <1>2
  <2> DEFINE h == [k \in 0..(m + 1) |-> IF k = m + 1 THEN step[<<f[m], m + 1>>] ELSE f[k]]
  <2>2. h \in [0..(m + 1) -> T]
    <3>1. f[m] \in T /\ m + 1 \in 1..n
      BY <2>1
    <3>2. step[<<f[m], m + 1>>] \in T
      BY <3>1
    <3> QED
      BY <2>1, <3>2
  <2>3. ASSUME NEW k \in 1..(m + 1) PROVE h[k] = step[<<h[k - 1], k>>]
    <3>1. h[k - 1] = f[k - 1]
      OBVIOUS
    <3>2. CASE k = m + 1
      <4>1. h[k] = step[<<f[m], m + 1>>]
        BY <3>2
      <4>2. k - 1 = m
        BY <3>2
      <4> QED
        BY <3>1, <3>2, <4>1, <4>2
    <3>3. CASE k # m + 1
      BY <2>1, <3>1, <3>3
    <3> QED
      BY <3>2, <3>3
  <2>4. h[0] = zero
    BY <2>1
  <2>5. Run(h, m + 1)
    <3> HIDE DEF h
    <3> QED
      BY <2>2, <2>3, <2>4
  <2> QED
    BY <2>5
<1> HIDE DEF S
<1>3. n \in S
  BY <1>1, <1>2, Induction
<1> QED
  BY <1>3 DEF S

\* Whatever starts like the loop and steps like it on states is in a state always.
LEMMA LoopStates ==
  ASSUME NEW n \in Nat, NEW T, NEW g, g[0] \in T,
         \A k \in 1..n : g[k - 1] \in T => g[k] \in T
  PROVE  \A k \in 0..n : g[k] \in T
<1> DEFINE A == {k \in Nat : k <= n => g[k] \in T}
<1>1. 0 \in A
  OBVIOUS
<1>2. ASSUME NEW k \in Nat, k \in A PROVE k + 1 \in A
  <2> SUFFICES ASSUME k + 1 <= n PROVE g[k + 1] \in T
    OBVIOUS
  <2>1. g[k] \in T /\ (k + 1) - 1 = k /\ k + 1 \in 1..n
    BY <1>2
  <2> QED
    BY <2>1
<1> HIDE DEF A
<1>3. \A k \in Nat : k \in A
  BY <1>1, <1>2, Induction
<1> QED
  BY <1>3 DEF A

-----------------------------------------------------------------------------
(* The command line of the shell.                                          *)

\* What a line of the shell is.
LEMMA LinesAre ==
  \A s : s \in Lines <=> s \in Seq(Printable) /\ Len(s) <= LineMax
  BY ShellLineAssumption DEF ShellLineAssumption, Lines, BoundedSeq, SeqOf

LEMMA EmptyLine == <<>> \in Lines
<1>1. <<>> \in Seq(Printable) /\ Len(<<>>) <= LineMax
  BY ShellLineAssumption DEF ShellLineAssumption
<1> QED
  BY <1>1, LinesAre, Zenon

\* Distinct, command by command: its last entry is the last command.
LEMMA DistinctSteps ==
  ASSUME NEW S, NEW cmds \in Seq(S)
  PROVE  \E f \in [0..Len(cmds) -> Seq(S)] :
           /\ f[Len(cmds)] = Distinct(cmds)
           /\ f[0] = <<>>
           /\ \A k \in 1..Len(cmds) :
                f[k] = IF k > 1 /\ cmds[k] = cmds[k - 1] THEN f[k - 1]
                       ELSE Append(f[k - 1], cmds[k])
<1> DEFINE N == Len(cmds)
           T == Seq(S)
           Body(t, k) == IF k > 1 /\ cmds[k] = cmds[k - 1] THEN t ELSE Append(t, cmds[k])
           step == [p \in T \X (1..N) |-> Body(p[1], p[2])]
           Def(g) == [k \in 0..N |-> IF k = 0 THEN <<>>
                                     ELSE IF k > 1 /\ cmds[k] = cmds[k - 1] THEN g[k - 1]
                                     ELSE Append(g[k - 1], cmds[k])]
<1>1. N \in Nat /\ <<>> \in T
  OBVIOUS
<1>2. step \in [T \X (1..N) -> T]
  <2>1. ASSUME NEW t \in T, NEW k \in 1..N PROVE Body(t, k) \in T
    <3>1. cmds[k] \in S
      OBVIOUS
    <3> QED
      BY <3>1
  <2> QED
    BY <2>1
<1>3. PICK f : IsRun(f, N, T, <<>>, step)
  <2> HIDE DEF T, step, N
  <2> QED
    BY <1>1, <1>2, LoopRuns
<1>4. \A k \in 1..N : f[k] = Body(f[k - 1], k)
  <2>1. \A k \in 1..N : f[k - 1] \in T
    BY <1>3 DEF IsRun
  <2> QED
    BY <1>3, <2>1 DEF IsRun
<1>5. f = Def(f)
  <2>1. \A k \in 0..N : k # 0 => k \in 1..N
    OBVIOUS
  <2>2. \A k \in 0..N : f[k] = Def(f)[k]
    BY <1>3, <1>4, <2>1, Zenon DEF IsRun
  <2>3. DOMAIN f = 0..N /\ DOMAIN Def(f) = 0..N
    BY <1>3 DEF IsRun
  <2> HIDE DEF N, T
  <2> QED
    BY <1>3, <2>2, <2>3 DEF IsRun
<1> DEFINE g == CHOOSE h : h = Def(h)
<1>6. g = Def(g)
  BY <1>5, Zenon
<1>7. g[N] = Distinct(cmds)
  BY DEF Distinct
<1> HIDE DEF g
<1>8. /\ g[0] = <<>>
      /\ \A k \in 1..N : g[k] = Body(g[k - 1], k)
  <2>1. \A k \in 0..N : g[k] = Def(g)[k]
    BY <1>6
  <2>2. 0 \in 0..N /\ \A k \in 1..N : k \in 0..N /\ k # 0
    BY <1>1
  <2> HIDE DEF N
  <2> QED
    BY <2>1, <2>2
<1>9. g \in [0..N -> T]
  <2>1. \A t \in T, k \in 1..N : Body(t, k) \in T
    OBVIOUS
  <2> HIDE DEF T, N, Body
  <2>2. \A k \in 0..N : g[k] \in T
    BY <1>1, <1>8, <2>1, LoopStates
  <2>3. DOMAIN g = 0..N /\ g = [k \in DOMAIN g |-> g[k]]
    BY <1>6
  <2> QED
    BY <2>2, <2>3
<1> QED
  BY <1>7, <1>8, <1>9

\* One more command: a repetition of the last one adds nothing.
LEMMA DistinctAppend ==
  ASSUME NEW S, NEW cmds \in Seq(S), NEW c \in S
  PROVE  /\ Distinct(cmds) \in Seq(S)
         /\ Distinct(Append(cmds, c)) =
              IF cmds # <<>> /\ cmds[Len(cmds)] = c THEN Distinct(cmds)
              ELSE Append(Distinct(cmds), c)
<1> DEFINE N == Len(cmds)
           more == Append(cmds, c)
<1>1. N \in Nat /\ more \in Seq(S) /\ Len(more) = N + 1 /\ more[N + 1] = c
      /\ \A k \in 1..N : more[k] = cmds[k]
  OBVIOUS
<1>2. PICK f \in [0..N -> Seq(S)] :
        /\ f[N] = Distinct(cmds) /\ f[0] = <<>>
        /\ \A k \in 1..N : f[k] = IF k > 1 /\ cmds[k] = cmds[k - 1] THEN f[k - 1]
                                  ELSE Append(f[k - 1], cmds[k])
  BY DistinctSteps
<1> HIDE DEF more
<1>3. PICK g \in [0..(N + 1) -> Seq(S)] :
        /\ g[N + 1] = Distinct(more) /\ g[0] = <<>>
        /\ \A k \in 1..(N + 1) : g[k] = IF k > 1 /\ more[k] = more[k - 1] THEN g[k - 1]
                                        ELSE Append(g[k - 1], more[k])
  <2>1. more \in Seq(S) /\ Len(more) = N + 1
    BY <1>1
  <2>2. \E g \in [0..Len(more) -> Seq(S)] :
          /\ g[Len(more)] = Distinct(more) /\ g[0] = <<>>
          /\ \A k \in 1..Len(more) : g[k] = IF k > 1 /\ more[k] = more[k - 1] THEN g[k - 1]
                                            ELSE Append(g[k - 1], more[k])
    BY <2>1, DistinctSteps, Zenon
  <2> QED
    BY <2>1, <2>2
<1>4. \A k \in 0..N : g[k] = f[k]
  <2> DEFINE A == {k \in Nat : k <= N => g[k] = f[k]}
  <2>1. 0 \in A
    BY <1>2, <1>3
  <2>2. ASSUME NEW k \in Nat, k \in A PROVE k + 1 \in A
    <3> SUFFICES ASSUME k + 1 <= N PROVE g[k + 1] = f[k + 1]
      OBVIOUS
    <3>1. g[k] = f[k] /\ (k + 1) - 1 = k /\ k + 1 \in 1..N /\ k + 1 \in 1..(N + 1)
      BY <2>2
    <3>2. more[k + 1] = cmds[k + 1] /\ (k + 1 > 1 => more[k] = cmds[k])
      BY <1>1, <3>1
    <3>3. g[k + 1] = IF k + 1 > 1 /\ more[k + 1] = more[k] THEN g[k] ELSE Append(g[k], more[k + 1])
      BY <1>3, <3>1
    <3>4. f[k + 1] = IF k + 1 > 1 /\ cmds[k + 1] = cmds[k] THEN f[k] ELSE Append(f[k], cmds[k + 1])
      BY <1>2, <3>1
    <3> QED
      BY <3>1, <3>2, <3>3, <3>4
  <2> HIDE DEF A
  <2>3. \A k \in Nat : k \in A
    BY <2>1, <2>2, Induction
  <2> QED
    BY <1>1, <2>3 DEF A
<1>5. g[N] = Distinct(cmds) /\ Distinct(cmds) \in Seq(S)
  BY <1>1, <1>2, <1>4
<1>6. g[N + 1] = IF N + 1 > 1 /\ more[N + 1] = more[N] THEN g[N] ELSE Append(g[N], more[N + 1])
  <2>1. N + 1 \in 1..(N + 1) /\ (N + 1) - 1 = N
    BY <1>1
  <2> QED
    BY <1>3, <2>1
<1>7. cmds # <<>> <=> N + 1 > 1
  BY <1>1
<1>8. N + 1 > 1 => more[N] = cmds[N]
  BY <1>1
<1> QED
  BY <1>1, <1>3, <1>5, <1>6, <1>7, <1>8 DEF more

\* Nothing remains of no command; otherwise the last command does, at the end.
LEMMA DistinctLast ==
  ASSUME NEW S, NEW cmds \in Seq(S)
  PROVE  /\ cmds = <<>> => Distinct(cmds) = <<>>
         /\ cmds # <<>> => /\ Distinct(cmds) # <<>>
                           /\ Distinct(cmds)[Len(Distinct(cmds))] = cmds[Len(cmds)]
<1> DEFINE N == Len(cmds)
<1>1. N \in Nat
  OBVIOUS
<1>2. PICK f \in [0..N -> Seq(S)] :
        /\ f[N] = Distinct(cmds) /\ f[0] = <<>>
        /\ \A k \in 1..N : f[k] = IF k > 1 /\ cmds[k] = cmds[k - 1] THEN f[k - 1]
                                  ELSE Append(f[k - 1], cmds[k])
  BY DistinctSteps
<1> DEFINE Ends(k) == Len(f[k]) > 0 /\ f[k][Len(f[k])] = cmds[k]
           A == {k \in Nat : k \in 1..N => Ends(k)}
<1>3. 0 \in A
  OBVIOUS
<1>4. ASSUME NEW k \in Nat, k \in A PROVE k + 1 \in A
  <2> SUFFICES ASSUME k + 1 <= N PROVE Ends(k + 1)
    OBVIOUS
  <2>1. f[k] \in Seq(S) /\ (k + 1) - 1 = k /\ k + 1 \in 1..N /\ cmds[k + 1] \in S
    BY <1>2
  <2>2. f[k + 1] = IF k + 1 > 1 /\ cmds[k + 1] = cmds[k] THEN f[k] ELSE Append(f[k], cmds[k + 1])
    BY <1>2, <2>1
  <2>3. CASE k + 1 > 1 /\ cmds[k + 1] = cmds[k]
    <3>1. Ends(k)
      BY <1>4, <2>3
    <3> QED
      BY <2>2, <2>3, <3>1
  <2>4. CASE ~(k + 1 > 1 /\ cmds[k + 1] = cmds[k])
    BY <2>1, <2>2, <2>4
  <2> QED
    BY <2>3, <2>4
<1> HIDE DEF A
<1>5. \A k \in Nat : k \in A
  BY <1>3, <1>4, Induction
<1>6. N # 0 => Ends(N)
  BY <1>1, <1>5 DEF A
<1>7. cmds = <<>> <=> N = 0
  OBVIOUS
<1> QED
  BY <1>1, <1>2, <1>6, <1>7

\* What Recent keeps: the end of the sequence; one more entry pushes out the
\* oldest one when it is full.
LEMMA RecentAppend ==
  ASSUME NEW S, NEW s \in Seq(S), NEW c \in S
  PROVE  /\ Recent(s) \in Seq(S) /\ Len(Recent(s)) <= HistMax
         /\ Recent(s) = <<>> <=> s = <<>>
         /\ s # <<>> => Recent(s)[Len(Recent(s))] = s[Len(s)]
         /\ Recent(Append(s, c)) =
              IF Len(Recent(s)) < HistMax THEN Append(Recent(s), c)
              ELSE Append(Tail(Recent(s)), c)
<1> USE ShellLineAssumption DEF ShellLineAssumption
<1>1. HistMax \in Nat /\ HistMax > 0 /\ Len(s) \in Nat
  OBVIOUS
<1> DEFINE lo == IF Len(s) > HistMax THEN (Len(s) - HistMax) + 1 ELSE 1
           r == Recent(s)
<1>2. r = SubSeq(s, lo, Len(s)) /\ lo \in 1..(Len(s) + 1)
  BY <1>1 DEF Recent
<1>3. /\ r \in Seq(S) /\ Len(r) = (Len(s) - lo) + 1
      /\ \A k \in 1..Len(r) : r[k] = s[(lo + k) - 1]
  <2> HIDE DEF lo, r
  <2> QED
    BY <1>1, <1>2
<1>11. lo \in Nat /\ lo >= 1 /\ Len(r) \in Nat /\ Len(r) + lo = Len(s) + 1
  <2>1. lo \in Nat /\ lo >= 1
    BY <1>1
  <2>2. Len(r) \in Nat
    BY <1>3
  <2> HIDE DEF lo, r
  <2> QED
    BY <1>1, <1>3, <2>1, <2>2
<1>12. IF Len(s) > HistMax THEN lo = (Len(s) - HistMax) + 1 ELSE lo = 1
  OBVIOUS
<1> HIDE DEF r, lo
<1>4. Len(r) <= HistMax /\ (r = <<>> <=> s = <<>>)
  BY <1>1, <1>3, <1>11, <1>12
<1>5. s # <<>> => r[Len(r)] = s[Len(s)]
  <2> SUFFICES ASSUME s # <<>> PROVE r[Len(r)] = s[Len(s)]
    OBVIOUS
  <2>1. Len(r) \in Nat /\ Len(r) # 0
    BY <1>3, <1>4
  <2>2. Len(r) \in 1..Len(r) /\ (lo + Len(r)) - 1 = Len(s)
    BY <1>1, <1>11, <2>1
  <2> QED
    BY <1>3, <2>2
<1> DEFINE t == Append(s, c)
           hi == IF Len(t) > HistMax THEN (Len(t) - HistMax) + 1 ELSE 1
<1>6. t \in Seq(S) /\ Len(t) = Len(s) + 1 /\ t[Len(s) + 1] = c /\ \A k \in 1..Len(s) : t[k] = s[k]
  OBVIOUS
<1> HIDE DEF t
<1>7. Recent(t) = SubSeq(t, hi, Len(t)) /\ hi \in 1..Len(t)
  BY <1>1, <1>6 DEF Recent
<1>8. /\ Recent(t) \in Seq(S) /\ Len(Recent(t)) = (Len(t) - hi) + 1
      /\ \A k \in 1..Len(Recent(t)) : Recent(t)[k] = t[(hi + k) - 1]
  <2> HIDE DEF hi
  <2> QED
    BY <1>1, <1>6, <1>7
<1>9. CASE Len(r) < HistMax
  <2>1. Len(s) < HistMax /\ lo = 1 /\ hi = 1
    BY <1>1, <1>6, <1>9, <1>11, <1>12
  <2>2. Len(Recent(t)) = Len(r) + 1
    <3>1. Len(Recent(t)) = (Len(t) - hi) + 1 /\ Len(t) = Len(s) + 1
      BY <1>6, <1>8
    <3> HIDE DEF hi
    <3> QED
      BY <1>1, <1>11, <2>1, <3>1
  <2>3. Append(r, c) \in Seq(S) /\ Len(Append(r, c)) = Len(r) + 1 /\ Append(r, c)[Len(r) + 1] = c
        /\ \A k \in 1..Len(r) : Append(r, c)[k] = r[k]
    BY <1>3
  <2>4. \A k \in 1..Len(Recent(t)) : Recent(t)[k] = Append(r, c)[k]
    <3> SUFFICES ASSUME NEW k \in 1..Len(Recent(t)) PROVE Recent(t)[k] = Append(r, c)[k]
      OBVIOUS
    <3>1. Recent(t)[k] = t[k] /\ Len(r) = Len(s) /\ k \in 1..(Len(r) + 1)
      BY <1>1, <1>3, <1>8, <2>1, <2>2
    <3>2. CASE k = Len(r) + 1
      BY <1>6, <2>3, <3>1, <3>2
    <3>3. CASE k # Len(r) + 1
      <4>1. k \in 1..Len(r) /\ (lo + k) - 1 = k
        BY <1>1, <2>1, <3>1, <3>3
      <4> QED
        BY <1>3, <1>6, <2>3, <3>1, <4>1
    <3> QED
      BY <3>2, <3>3
  <2>5. Recent(t) = Append(r, c)
    BY <1>8, <2>2, <2>3, <2>4, SeqEqual
  <2> QED
    BY <1>3, <1>4, <1>5, <1>9, <2>5 DEF r, t
<1>10. CASE ~(Len(r) < HistMax)
  <2>1. Len(r) = HistMax /\ r # <<>> /\ hi = lo + 1
    <3>1. Len(r) = HistMax /\ Len(s) >= HistMax
      BY <1>1, <1>4, <1>10, <1>11, <1>12
    <3>2. r # <<>>
      BY <1>1, <3>1
    <3> QED
      BY <1>1, <1>6, <1>12, <3>1, <3>2
  <2>2. Len(Recent(t)) = Len(r)
    <3>1. Len(Recent(t)) = (Len(t) - hi) + 1 /\ Len(t) = Len(s) + 1
      BY <1>6, <1>8
    <3> HIDE DEF hi
    <3> QED
      BY <1>1, <1>11, <2>1, <3>1
  <2>3. /\ Tail(r) \in Seq(S) /\ Len(Tail(r)) = Len(r) - 1
        /\ \A k \in 1..(Len(r) - 1) : Tail(r)[k] = r[k + 1]
    BY <1>3, <2>1, HeadTailProperties
  <2> DEFINE u == Tail(r)
  <2>4. Append(u, c) \in Seq(S) /\ Len(Append(u, c)) = Len(u) + 1 /\ Append(u, c)[Len(u) + 1] = c
        /\ \A k \in 1..Len(u) : Append(u, c)[k] = u[k]
    <3> HIDE DEF u
    <3> QED
      BY <2>3 DEF u
  <2> HIDE DEF u
  <2>5. \A k \in 1..Len(Recent(t)) : Recent(t)[k] = Append(u, c)[k]
    <3> SUFFICES ASSUME NEW k \in 1..Len(Recent(t)) PROVE Recent(t)[k] = Append(u, c)[k]
      OBVIOUS
    <3>1. Recent(t)[k] = t[(hi + k) - 1]
      BY <1>8
    <3>2. CASE k = Len(r)
      <4>1. (hi + k) - 1 = Len(s) + 1 /\ Len(u) + 1 = k
        BY <1>1, <1>3, <1>6, <1>11, <2>1, <2>3, <3>2 DEF u
      <4> QED
        BY <1>6, <2>4, <3>1, <4>1
    <3>3. CASE k # Len(r)
      <4>1. k \in 1..Len(u) /\ k + 1 \in 1..Len(r) /\ k \in 1..(Len(r) - 1)
        BY <1>3, <2>2, <2>3, <3>3 DEF u
      <4>2. u[k] = r[k + 1] /\ r[k + 1] = s[(lo + (k + 1)) - 1]
        BY <1>3, <2>3, <4>1 DEF u
      <4>3. (lo + (k + 1)) - 1 = (hi + k) - 1 /\ (hi + k) - 1 \in 1..Len(s)
        <5>1. lo \in Int /\ lo >= 1 /\ hi = lo + 1 /\ Len(r) = (Len(s) - lo) + 1 /\ k \in Int /\ k >= 1 /\ k + 1 <= Len(r)
          BY <1>1, <1>11, <2>1, <4>1
        <5> HIDE DEF hi
        <5> QED
          BY <1>1, <5>1
      <4> QED
        BY <1>6, <2>4, <3>1, <4>1, <4>2, <4>3
    <3> QED
      BY <3>2, <3>3
  <2>6. Recent(t) = Append(u, c)
    <3>1. Len(Recent(t)) = Len(Append(u, c))
      BY <1>3, <2>2, <2>3, <2>4 DEF u
    <3> QED
      BY <1>8, <2>4, <2>5, <3>1, SeqEqual
  <2> QED
    BY <1>3, <1>4, <1>5, <1>10, <2>6 DEF r, t, u
<1> QED
  BY <1>9, <1>10

Commands == Lines \ {<<>>}

\* The shell's invariant: beside what the runs check, the history is a sequence
\* of commands, and what browsing set aside is the line it began with.
ShellInv ==
  /\ ShellTypeOK /\ HistoryIsRecent
  /\ executed \in Seq(Commands) /\ shell_history \in Seq(Commands)
  /\ Browsing => shell_draft = typed

\* What Enter makes of the history is what HistoryIsRecent asks for.
LEMMA RememberedIsRecent ==
  ASSUME ShellInv, line \in Commands
  PROVE  /\ Remembered(line) = Recent(Distinct(Append(executed, line)))
         /\ Remembered(line) \in Seq(Commands) /\ Len(Remembered(line)) <= HistMax
<1> DEFINE D == Distinct(executed)
           E == Distinct(Append(executed, line))
<1>1. /\ executed \in Seq(Commands) /\ shell_history = Recent(D)
  BY DEF ShellInv, HistoryIsRecent
<1>2. /\ D \in Seq(Commands)
      /\ E = IF executed # <<>> /\ executed[Len(executed)] = line THEN D ELSE Append(D, line)
  BY <1>1, DistinctAppend
<1>3. /\ executed = <<>> => D = <<>>
      /\ executed # <<>> => D # <<>> /\ D[Len(D)] = executed[Len(executed)]
  BY <1>1, DistinctLast
<1>4. E \in Seq(Commands)
  BY <1>1, <1>2, DistinctAppend
<1> HIDE DEF D, E
<1>5. /\ Recent(D) = <<>> <=> D = <<>>
      /\ D # <<>> => Recent(D)[Len(Recent(D))] = D[Len(D)]
      /\ Recent(Append(D, line)) = IF Len(Recent(D)) < HistMax THEN Append(Recent(D), line)
                                   ELSE Append(Tail(Recent(D)), line)
  BY <1>2, RecentAppend
<1>6. Recent(E) \in Seq(Commands) /\ Len(Recent(E)) <= HistMax
  BY <1>4, RecentAppend
<1>7. shell_history # <<>> /\ Last(shell_history) = line
        <=> executed # <<>> /\ executed[Len(executed)] = line
  BY <1>1, <1>3, <1>5 DEF Last
<1>8. Remembered(line) = Recent(E)
  BY <1>1, <1>2, <1>5, <1>7 DEF Remembered
<1> QED
  BY <1>6, <1>8 DEF E

LEMMA ShellInitInv == ShellInit => ShellInv
<1> SUFFICES ASSUME ShellInit PROVE ShellInv
  OBVIOUS
<1> USE ShellLineAssumption DEF ShellLineAssumption, ShellInit
<1>1. <<>> \in Lines
  BY EmptyLine
<1>2. Distinct(<<>>) = <<>>
  <2>1. <<>> \in Seq(Printable)
    OBVIOUS
  <2> QED
    BY <2>1, DistinctLast, Zenon
<1>3. Recent(<<>>) = <<>>
  BY DEF Recent
<1> QED
  BY <1>1, <1>2, <1>3 DEF ShellInv, ShellTypeOK, HistoryIsRecent, Browsing

LEMMA ShellStepInv == ShellInv /\ [ShellNext]_shell_vars => ShellInv'
<1> SUFFICES ASSUME ShellInv, [ShellNext]_shell_vars PROVE ShellInv'
  OBVIOUS
<1> USE ShellLineAssumption DEF ShellLineAssumption
<1>1. /\ line \in Lines /\ shell_draft \in Lines /\ typed \in Lines
      /\ shell_history \in Seq(Commands) /\ Len(shell_history) <= HistMax
      /\ \A k \in 1..Len(shell_history) : shell_history[k] \in Lines
      /\ shell_hist_browse \in -1..(Len(shell_history) - 1)
      /\ Len(shell_history) \in Nat
  BY DEF ShellInv, ShellTypeOK, Commands
<1>2. <<>> \in Lines
  BY EmptyLine
\* An action that leaves the history alone.
<1>3. ASSUME UNCHANGED <<shell_history, executed>>,
             line' \in Lines, shell_draft' \in Lines, typed' \in Lines,
             shell_hist_browse' \in -1..(Len(shell_history) - 1),
             shell_hist_browse' # -1 => shell_draft' = typed'
      PROVE  ShellInv'
  BY <1>3 DEF ShellInv, ShellTypeOK, HistoryIsRecent, Browsing
<1>4. CASE CtrlC
  BY <1>1, <1>2, <1>3, <1>4 DEF CtrlC
<1>5. CASE Up
  <2> DEFINE b == IF Browsing THEN (IF shell_hist_browse > 0 THEN shell_hist_browse - 1 ELSE 0)
                  ELSE Len(shell_history) - 1
  <2>1. b \in 0..(Len(shell_history) - 1) /\ b + 1 \in 1..Len(shell_history)
    <3>1. Len(shell_history) > 0
      BY <1>1, <1>5 DEF Up
    <3> QED
      BY <1>1, <3>1
  <2>2. shell_hist_browse' = b /\ line' = shell_history[b + 1]
    BY <1>5 DEF Up, Show
  <2>3. shell_draft' \in Lines /\ typed' \in Lines /\ shell_draft' = typed'
    BY <1>1, <1>5 DEF Up, ShellInv
  <2>4. UNCHANGED <<shell_history, executed>>
    BY <1>5 DEF Up
  <2> HIDE DEF b
  <2> QED
    BY <1>1, <1>3, <2>1, <2>2, <2>3, <2>4
<1>6. CASE Down
  <2>1. UNCHANGED <<shell_history, executed, shell_draft, typed>> /\ Browsing
    BY <1>6 DEF Down
  <2>2. CASE shell_hist_browse < Len(shell_history) - 1
    <3>1. /\ shell_hist_browse' = shell_hist_browse + 1
          /\ line' = shell_history[(shell_hist_browse + 1) + 1]
      BY <1>6, <2>2 DEF Down, Show
    <3>2. (shell_hist_browse + 1) + 1 \in 1..Len(shell_history)
          /\ shell_hist_browse + 1 \in -1..(Len(shell_history) - 1)
      BY <1>1, <2>1, <2>2 DEF Browsing
    <3> QED
      BY <1>1, <1>3, <2>1, <3>1, <3>2 DEF ShellInv
  <2>3. CASE ~(shell_hist_browse < Len(shell_history) - 1)
    <3>1. shell_hist_browse' = -1 /\ line' = shell_draft
      BY <1>6, <2>3 DEF Down
    <3> QED
      BY <1>1, <1>3, <2>1, <3>1
  <2> QED
    BY <2>2, <2>3
<1>7. CASE EnterLine
  <2>1. /\ line' = <<>> /\ shell_hist_browse' = -1 /\ shell_draft' = <<>> /\ typed' = typed
    BY <1>7 DEF EnterLine
  <2>2. CASE line = <<>>
    <3>1. UNCHANGED <<shell_history, executed>>
      BY <1>7, <2>2 DEF EnterLine
    <3> QED
      BY <1>1, <1>2, <1>3, <2>1, <3>1
  <2>3. CASE line # <<>>
    <3>1. line \in Commands
      BY <1>1, <2>3 DEF Commands
    <3>2. shell_history' = Remembered(line) /\ executed' = Append(executed, line)
      BY <1>7, <2>3 DEF EnterLine
    <3>3. /\ shell_history' = Recent(Distinct(executed'))
          /\ shell_history' \in Seq(Commands) /\ Len(shell_history') <= HistMax
      BY <3>1, <3>2, RememberedIsRecent
    <3>4. executed' \in Seq(Commands)
      BY <3>1, <3>2 DEF ShellInv
    <3>5. \A k \in 1..Len(shell_history') : shell_history'[k] \in Lines \ {<<>>}
      BY <3>3 DEF Commands
    <3>6. -1 \in -1..(Len(shell_history') - 1)
      BY <3>3
    <3> QED
      BY <1>1, <1>2, <2>1, <3>3, <3>4, <3>5, <3>6
      DEF ShellInv, ShellTypeOK, HistoryIsRecent, Browsing
  <2> QED
    BY <2>2, <2>3
<1>8. CASE Backspace
  <2>1. line' \in Lines
    <3>1. line \in Seq(Printable) /\ Len(line) <= LineMax /\ line # <<>>
      BY <1>1, <1>8, LinesAre DEF Backspace
    <3>2. line' = SubSeq(line, 1, Len(line) - 1)
      BY <1>8 DEF Backspace, Front
    <3>3. line' \in Seq(Printable) /\ Len(line') <= LineMax
      BY <3>1, <3>2
    <3> QED
      BY <3>3, LinesAre
  <2> QED
    BY <1>1, <1>3, <1>8, <2>1 DEF Backspace, ShellInv, Browsing
<1>9. ASSUME NEW ch \in Printable, TypeChar(ch) PROVE ShellInv'
  <2>1. line' \in Lines
    <3>1. line \in Seq(Printable) /\ Len(line) < LineMax /\ line' = Append(line, ch)
      BY <1>1, <1>9, LinesAre DEF TypeChar
    <3>2. line' \in Seq(Printable) /\ Len(line') <= LineMax
      BY <3>1
    <3> QED
      BY <3>2, LinesAre
  <2> QED
    BY <1>1, <1>3, <1>9, <2>1 DEF TypeChar, ShellInv, Browsing
<1>10. CASE UNCHANGED shell_vars
  BY <1>1, <1>3, <1>10 DEF shell_vars, ShellInv, Browsing
<1> QED
  BY <1>4, <1>5, <1>6, <1>7, <1>8, <1>9, <1>10 DEF ShellNext

\* The line, the draft and every entry of the history fit their buffers, the
\* history has no more entries than its array, and browsing shows one of them.
THEOREM ShellTyping == ShellSpec => []ShellTypeOK
<1>1. ShellInv => ShellTypeOK
  BY DEF ShellInv
<1> QED
  BY ShellInitInv, ShellStepInv, <1>1, PTL DEF ShellSpec

\* The history is exactly the last commands executed, immediate repetitions left
\* out, for any number of commands and any size of the history.
THEOREM HistoryExact == ShellSpec => []HistoryIsRecent
<1>1. ShellInv => HistoryIsRecent
  BY DEF ShellInv
<1> QED
  BY ShellInitInv, ShellStepInv, <1>1, PTL DEF ShellSpec

\* Coming down from the history restores the line that was being typed.
THEOREM DraftComesBack == ShellSpec => DraftRestored
<1>1. ShellInv /\ [ShellNext]_shell_vars =>
        [Down /\ shell_hist_browse' = -1 => line' = typed]_shell_vars
  <2> SUFFICES ASSUME ShellInv, Down, shell_hist_browse' = -1 PROVE line' = typed
    OBVIOUS
  <2>1. Len(shell_history) \in Nat /\ shell_hist_browse \in -1..(Len(shell_history) - 1)
    BY DEF ShellInv, ShellTypeOK
  <2>2. ~(shell_hist_browse < Len(shell_history) - 1)
    BY <2>1 DEF Down, Show, Browsing
  <2> QED
    BY <2>2 DEF Down, ShellInv
<1> QED
  BY ShellInitInv, ShellStepInv, <1>1, PTL DEF ShellSpec, DraftRestored

-----------------------------------------------------------------------------
(* Texts and their lines.                                                  *)

Bytes == Chars \cup {NL, CR}
Text  == Seq(Bytes)

\* TextOf, line by line.
LEMMA TextSteps ==
  ASSUME NEW ls \in Seq(Text)
  PROVE  \E f \in [0..Len(ls) -> Text] :
           /\ f[Len(ls)] = TextOf(ls)
           /\ f[0] = <<>>
           /\ \A k \in 1..Len(ls) :
                f[k] = IF k = 1 THEN ls[1] ELSE f[k - 1] \o <<NL>> \o ls[k]
<1> DEFINE N == Len(ls)
           Body(t, k) == IF k = 1 THEN ls[1] ELSE t \o <<NL>> \o ls[k]
           step == [p \in Text \X (1..N) |-> Body(p[1], p[2])]
           Def(g) == [k \in 0..N |-> IF k = 0 THEN <<>>
                                     ELSE IF k = 1 THEN ls[1] ELSE g[k - 1] \o <<NL>> \o ls[k]]
<1>1. N \in Nat /\ <<>> \in Text /\ <<NL>> \in Text
  BY DEF Text, Bytes
<1>2. \A t \in Text, k \in 1..N : Body(t, k) \in Text
  <2> SUFFICES ASSUME NEW t \in Text, NEW k \in 1..N PROVE Body(t, k) \in Text
    OBVIOUS
  <2>1. ls[k] \in Text /\ (k = 1 => ls[1] \in Text)
    OBVIOUS
  <2>2. t \o <<NL>> \in Text
    BY <1>1, ConcatProperties DEF Text
  <2>3. (t \o <<NL>>) \o ls[k] \in Text
    BY <2>1, <2>2, ConcatProperties DEF Text
  <2> QED
    BY <2>1, <2>3
<1>3. step \in [Text \X (1..N) -> Text]
  BY <1>2
<1>4. PICK f : IsRun(f, N, Text, <<>>, step)
  <2> HIDE DEF step, N
  <2> QED
    BY <1>1, <1>3, LoopRuns
<1>5. \A k \in 1..N : f[k] = Body(f[k - 1], k)
  <2>1. \A k \in 1..N : f[k - 1] \in Text
    BY <1>4 DEF IsRun
  <2> QED
    BY <1>4, <2>1 DEF IsRun
<1>6. f = Def(f)
  <2>1. \A k \in 0..N : k # 0 => k \in 1..N
    OBVIOUS
  <2>2. \A k \in 0..N : f[k] = Def(f)[k]
    BY <1>4, <1>5, <2>1 DEF IsRun
  <2>3. DOMAIN f = 0..N /\ DOMAIN Def(f) = 0..N
    BY <1>4, SMTT(30) DEF IsRun
  <2> HIDE DEF N
  <2> QED
    BY <1>4, <2>2, <2>3 DEF IsRun
<1> DEFINE g == CHOOSE h : h = Def(h)
<1>7. g = Def(g)
  BY <1>6, Zenon
<1>8. g[N] = TextOf(ls)
  BY DEF TextOf
<1> HIDE DEF g
<1>9. /\ g[0] = <<>>
      /\ \A k \in 1..N : g[k] = Body(g[k - 1], k)
  <2>1. \A k \in 0..N : g[k] = Def(g)[k]
    BY <1>7
  <2>2. 0 \in 0..N /\ \A k \in 1..N : k \in 0..N /\ k # 0
    BY <1>1
  <2> HIDE DEF N
  <2> QED
    BY <2>1, <2>2
<1>10. g \in [0..N -> Text]
  <2> HIDE DEF N, Body
  <2>2. \A k \in 0..N : g[k] \in Text
    BY <1>1, <1>2, <1>9, LoopStates
  <2>3. DOMAIN g = 0..N /\ g = [k \in DOMAIN g |-> g[k]]
    BY <1>7
  <2> QED
    BY <2>2, <2>3
<1> QED
  BY <1>8, <1>9, <1>10

\* Concatenation, under a name that the provers do not take apart.
Cat(s, t) == s \o t

LineFeed == <<NL>>

\* The text before a line: the lines above it, each with its line feed.
Above(A) == IF A = <<>> THEN <<>> ELSE Cat(TextOf(A), LineFeed)

\* The text after a line.
Below(B) == IF B = <<>> THEN <<>> ELSE Cat(LineFeed, TextOf(B))

\* One more line at the end.
LEMMA TextAppend ==
  ASSUME NEW ls \in Seq(Text), NEW x \in Text
  PROVE  /\ TextOf(ls) \in Text /\ Above(ls) \in Text
         /\ TextOf(Append(ls, x)) = Cat(Above(ls), x)
<1> DEFINE N == Len(ls)
           more == Append(ls, x)
<1>1. N \in Nat /\ more \in Seq(Text) /\ Len(more) = N + 1 /\ more[N + 1] = x
      /\ \A k \in 1..N : more[k] = ls[k]
  OBVIOUS
<1>2. PICK f \in [0..N -> Text] :
        /\ f[N] = TextOf(ls) /\ f[0] = <<>>
        /\ \A k \in 1..N : f[k] = IF k = 1 THEN ls[1] ELSE f[k - 1] \o <<NL>> \o ls[k]
  BY TextSteps
<1> HIDE DEF more
<1>3. PICK g \in [0..(N + 1) -> Text] :
        /\ g[N + 1] = TextOf(more) /\ g[0] = <<>>
        /\ \A k \in 1..(N + 1) : g[k] = IF k = 1 THEN more[1] ELSE g[k - 1] \o <<NL>> \o more[k]
  <2>1. more \in Seq(Text) /\ Len(more) = N + 1
    BY <1>1
  <2>2. \E g \in [0..Len(more) -> Text] :
          /\ g[Len(more)] = TextOf(more) /\ g[0] = <<>>
          /\ \A k \in 1..Len(more) :
               g[k] = IF k = 1 THEN more[1] ELSE g[k - 1] \o <<NL>> \o more[k]
    BY <2>1, TextSteps, Zenon
  <2> QED
    BY <2>1, <2>2
<1>4. \A k \in 0..N : g[k] = f[k]
  <2> DEFINE A == {k \in Nat : k <= N => g[k] = f[k]}
  <2>1. 0 \in A
    BY <1>2, <1>3
  <2>2. ASSUME NEW k \in Nat, k \in A PROVE k + 1 \in A
    <3> SUFFICES ASSUME k + 1 <= N PROVE g[k + 1] = f[k + 1]
      OBVIOUS
    <3>1. g[k] = f[k] /\ (k + 1) - 1 = k /\ k + 1 \in 1..N /\ k + 1 \in 1..(N + 1) /\ 1 \in 1..N
      BY <2>2
    <3>2. more[k + 1] = ls[k + 1] /\ more[1] = ls[1]
      BY <1>1, <3>1
    <3>3. g[k + 1] = IF k + 1 = 1 THEN more[1] ELSE g[k] \o <<NL>> \o more[k + 1]
      BY <1>3, <3>1
    <3>4. f[k + 1] = IF k + 1 = 1 THEN ls[1] ELSE f[k] \o <<NL>> \o ls[k + 1]
      BY <1>2, <3>1
    <3> QED
      BY <3>1, <3>2, <3>3, <3>4
  <2> HIDE DEF A
  <2>3. \A k \in Nat : k \in A
    BY <2>1, <2>2, Induction
  <2> QED
    BY <1>1, <2>3 DEF A
<1>5. g[N] = TextOf(ls) /\ TextOf(ls) \in Text
  BY <1>1, <1>2, <1>4
<1>6. g[N + 1] = IF N + 1 = 1 THEN more[1] ELSE g[N] \o <<NL>> \o more[N + 1]
  <2>1. N + 1 \in 1..(N + 1) /\ (N + 1) - 1 = N
    BY <1>1
  <2> QED
    BY <1>3, <2>1
<1>7. ls = <<>> <=> N + 1 = 1
  BY <1>1
<1>8. Above(ls) \in Text
  <2>1. <<NL>> \in Text /\ <<>> \in Text
    BY DEF Text, Bytes
  <2> QED
    BY <1>5, <2>1, ConcatProperties DEF Above, Text, Cat, LineFeed
<1>9. TextOf(more) = Cat(Above(ls), x)
  <2>1. CASE ls = <<>>
    <3>1. Above(ls) = <<>> /\ TextOf(more) = x
      BY <1>1, <1>3, <1>6, <1>7, <2>1 DEF Above
    <3> QED
      BY <3>1, ConcatEmptySeq DEF Text, Cat
  <2>2. CASE ls # <<>>
    BY <1>1, <1>3, <1>5, <1>6, <1>7, <2>2 DEF Above, Cat, LineFeed
  <2> QED
    BY <2>1, <2>2
<1> QED
  BY <1>5, <1>8, <1>9 DEF more

\* Texts are closed under concatenation.
LEMMA Glue ==
  /\ <<>> \in Text /\ LineFeed \in Text /\ Len(LineFeed) = 1 /\ Len(<<>>) = 0
  /\ \A s, t \in Text : Cat(s, t) \in Text /\ Len(Cat(s, t)) = Len(s) + Len(t)
  /\ \A s \in Text : Cat(s, <<>>) = s /\ Cat(<<>>, s) = s /\ Len(s) \in Nat
<1>1. /\ <<>> \in Text /\ LineFeed \in Text /\ Len(LineFeed) = 1 /\ Len(<<>>) = 0
  BY DEF Text, Bytes, LineFeed
<1>2. \A s, t \in Text : Cat(s, t) \in Text /\ Len(Cat(s, t)) = Len(s) + Len(t)
  BY ConcatProperties DEF Text, Cat
<1>3. \A s \in Text : Cat(s, <<>>) = s /\ Cat(<<>>, s) = s /\ Len(s) \in Nat
  BY ConcatEmptySeq DEF Text, Cat
<1> QED
  BY <1>1, <1>2, <1>3

\* Concatenation is associative.
LEMMA Regroup ==
  \A s, t, u \in Text : Cat(Cat(s, t), u) = Cat(s, Cat(t, u))
  BY ConcatAssociative DEF Text, Cat

\* Above and Below, one more line at the end.
LEMMA AboveBelow ==
  ASSUME NEW A \in Seq(Text), NEW x \in Text
  PROVE  /\ Above(A) \in Text /\ Below(A) \in Text /\ TextOf(A) \in Text
         /\ Above(Append(A, x)) = Cat(Above(A), Cat(x, LineFeed))
         /\ Below(Append(A, x)) = Cat(Below(A), Cat(LineFeed, x))
         /\ TextOf(<<x>>) = x
<1>1. /\ TextOf(A) \in Text /\ Above(A) \in Text
      /\ TextOf(Append(A, x)) = Cat(Above(A), x)
  BY TextAppend
<1>2. Append(A, x) # <<>>
  BY AppendProperties
<1>3. Below(A) \in Text
  BY <1>1, Glue DEF Below
<1>4. Above(Append(A, x)) = Cat(Above(A), Cat(x, LineFeed))
  <2>1. Above(Append(A, x)) = Cat(Cat(Above(A), x), LineFeed)
    BY <1>1, <1>2 DEF Above
  <2> QED
    BY <1>1, <2>1, Glue, Regroup
<1>5. Below(Append(A, x)) = Cat(LineFeed, Cat(Above(A), x))
  BY <1>1, <1>2 DEF Below
<1>6. Below(Append(A, x)) = Cat(Below(A), Cat(LineFeed, x))
  <2>1. CASE A = <<>>
    BY <1>5, <2>1, Glue DEF Above, Below
  <2>2. CASE A # <<>>
    <3>1. Above(A) = Cat(TextOf(A), LineFeed) /\ Below(A) = Cat(LineFeed, TextOf(A))
      BY <2>2 DEF Above, Below
    <3> QED
      BY <1>1, <1>5, <3>1, Glue, Regroup
  <2> QED
    BY <2>1, <2>2
<1>7. TextOf(<<x>>) = x
  <2>1. <<>> \in Seq(Text) /\ Append(<<>>, x) = <<x>>
    OBVIOUS
  <2>2. TextOf(Append(<<>>, x)) = Cat(Above(<<>>), x)
    BY <2>1, TextAppend, Zenon
  <2> QED
    BY <2>1, <2>2, Glue DEF Above
<1> QED
  BY <1>1, <1>3, <1>4, <1>6, <1>7

\* A sequence ends with its last element.
LEMMA LastLine ==
  ASSUME NEW T, NEW n \in Nat, NEW b \in Seq(T), Len(b) = n + 1
  PROVE  /\ SubSeq(b, 1, n) \in Seq(T) /\ Len(SubSeq(b, 1, n)) = n /\ b[n + 1] \in T
         /\ b = Append(SubSeq(b, 1, n), b[n + 1])
<1> DEFINE c == SubSeq(b, 1, n)
<1>1. c \in Seq(T) /\ Len(c) = n /\ b[n + 1] \in T /\ \A i \in 1..n : c[i] = b[i]
  OBVIOUS
<1> HIDE DEF c
<1>2. Append(c, b[n + 1]) \in Seq(T) /\ Len(Append(c, b[n + 1])) = n + 1
      /\ \A i \in 1..(n + 1) : Append(c, b[n + 1])[i] = b[i]
  BY <1>1
<1>3. b = Append(c, b[n + 1])
  BY <1>2, SeqEqual
<1> QED
  BY <1>1, <1>3 DEF c

\* A text around one of its lines.
LEMMA TextAround ==
  ASSUME NEW A \in Seq(Text), NEW x \in Text, NEW B \in Seq(Text)
  PROVE  TextOf(A \o <<x>> \o B) = Cat(Above(A), Cat(x, Below(B)))
<1> DEFINE Good(b) == TextOf(A \o <<x>> \o b) = Cat(Above(A), Cat(x, Below(b)))
           S == {n \in Nat : \A b \in Seq(Text) : Len(b) = n => Good(b)}
<1>1. 0 \in S
  <2> SUFFICES ASSUME NEW b \in Seq(Text), Len(b) = 0 PROVE Good(b)
    OBVIOUS
  <2>1. b = <<>>
    OBVIOUS
  <2>2. A \o <<x>> \o b = Append(A, x)
    BY <2>1
  <2>3. Cat(x, Below(b)) = x
    BY <2>1, Glue DEF Below
  <2> QED
    BY <2>2, <2>3, TextAppend
<1>2. ASSUME NEW n \in Nat, n \in S PROVE n + 1 \in S
  <2>0. ASSUME NEW b \in Seq(Text), Len(b) = n + 1 PROVE Good(b)
    <3> DEFINE c == SubSeq(b, 1, n)
               y == b[n + 1]
    <3>1. c \in Seq(Text) /\ Len(c) = n /\ y \in Text /\ b = Append(c, y)
      BY <2>0, LastLine
    <3>2. Good(c)
      BY <1>2, <3>1
    <3> HIDE DEF c, y
    <3>3. A \o <<x>> \o c \in Seq(Text) /\ A \o <<x>> \o c # <<>>
      BY <3>1
    <3>4. A \o <<x>> \o b = Append(A \o <<x>> \o c, y)
      BY <3>1
    <3> DEFINE t == A \o <<x>> \o c
    <3>5. TextOf(Append(t, y)) = Cat(Cat(TextOf(t), LineFeed), y)
      <4> HIDE DEF t
      <4> QED
        BY <3>1, <3>3, TextAppend DEF Above, t
    <3>6. Above(A) \in Text /\ Below(c) \in Text /\ Below(b) = Cat(Below(c), Cat(LineFeed, y))
      BY <3>1, AboveBelow
    <3>7. Cat(Cat(Cat(Above(A), Cat(x, Below(c))), LineFeed), y)
            = Cat(Above(A), Cat(x, Cat(Below(c), Cat(LineFeed, y))))
      <4> DEFINE p == Above(A)
                 q == Below(c)
                 X == Cat(x, q)
                 Z == Cat(LineFeed, y)
      <4>1. p \in Text /\ q \in Text /\ y \in Text /\ X \in Text /\ Z \in Text /\ Cat(p, X) \in Text
        BY <3>1, <3>6, Glue
      <4>2. Cat(Cat(Cat(p, X), LineFeed), y) = Cat(Cat(p, X), Z)
        BY <4>1, Glue, Regroup
      <4>3. Cat(Cat(p, X), Z) = Cat(p, Cat(X, Z)) /\ Cat(X, Z) = Cat(x, Cat(q, Z))
        BY <4>1, Regroup
      <4> QED
        BY <4>2, <4>3
    <3> QED
      BY <3>2, <3>4, <3>5, <3>6, <3>7
  <2>1. n + 1 \in Nat
    OBVIOUS
  <2> HIDE DEF Good
  <2> QED
    BY <2>0, <2>1
<1> HIDE DEF S
<1>3. \A n \in Nat : n \in S
  BY <1>1, <1>2, Induction
<1>4. Len(B) \in S
  <2>1. Len(B) \in Nat
    OBVIOUS
  <2> QED
    BY <1>3, <2>1
<1> HIDE DEF Good
<1>5. Good(B)
  BY <1>4 DEF S
<1> QED
  BY <1>5 DEF Good

\* What is before, after and at position n of a text t of three parts, column x
\* of the middle one.
CutAt(t, n, p, l, q, x) ==
  /\ t \in Text /\ Len(t) = (Len(p) + Len(l)) + Len(q) /\ n \in 0..Len(t)
  /\ SubSeq(t, 1, n) = Cat(p, SubSeq(l, 1, x))
  /\ SubSeq(t, n + 1, Len(t)) = Cat(SubSeq(l, x + 1, Len(l)), q)
  /\ x < Len(l) => t[n + 1] = l[x + 1]
  /\ x = Len(l) /\ q # <<>> => t[n + 1] = q[1]

\* Cutting a text inside its middle part.
LEMMA CutText ==
  ASSUME NEW p \in Text, NEW l \in Text, NEW q \in Text, NEW x \in 0..Len(l)
  PROVE  CutAt(Cat(p, Cat(l, q)), Len(p) + x, p, l, q, x)
<1> DEFINE t == Cat(p, Cat(l, q))
           n == Len(p) + x
<1>1. Len(p) \in Nat /\ Len(l) \in Nat /\ Len(q) \in Nat /\ x \in Nat /\ x <= Len(l)
  BY DEF Text
<1>2. t \in Text /\ Len(t) = (Len(p) + Len(l)) + Len(q) /\ n \in 0..Len(t)
  <2>1. Cat(l, q) \in Text /\ Len(Cat(l, q)) = Len(l) + Len(q)
    BY Glue
  <2>2. t \in Text /\ Len(t) = Len(p) + Len(Cat(l, q))
    BY <2>1, Glue
  <2> HIDE DEF t
  <2> QED
    BY <1>1, <2>1, <2>2
<1>3. /\ \A i \in 1..Len(p) : t[i] = p[i]
      /\ \A i \in 1..Len(l) : t[Len(p) + i] = l[i]
      /\ \A i \in 1..Len(q) : t[(Len(p) + Len(l)) + i] = q[i]
  <2> DEFINE m == l \o q
  <2>1. m \in Seq(Bytes) /\ Len(m) = Len(l) + Len(q)
        /\ (\A i \in 1..Len(l) : m[i] = l[i]) /\ (\A i \in 1..Len(q) : m[Len(l) + i] = q[i])
    BY <1>1 DEF Text
  <2>2. t = p \o m
    BY DEF Cat
  <2> HIDE DEF m, t
  <2>3. /\ \A i \in 1..Len(p) : t[i] = p[i]
        /\ \A i \in 1..Len(m) : t[Len(p) + i] = m[i]
    BY <1>1, <2>1, <2>2 DEF Text
  <2>4. ASSUME NEW i \in 1..Len(l) PROVE t[Len(p) + i] = l[i]
    BY <1>1, <2>1, <2>3
  <2>5. ASSUME NEW i \in 1..Len(q) PROVE t[(Len(p) + Len(l)) + i] = q[i]
    <3>1. Len(l) + i \in 1..Len(m) /\ (Len(p) + Len(l)) + i = Len(p) + (Len(l) + i)
      BY <1>1, <2>1
    <3> QED
      BY <2>1, <2>3, <3>1
  <2> QED
    BY <2>3, <2>4, <2>5
<1> HIDE DEF t
<1>4. SubSeq(t, 1, n) = Cat(p, SubSeq(l, 1, x))
  <2> DEFINE a == SubSeq(t, 1, n)
             b == SubSeq(l, 1, x)
  <2>1. a \in Seq(Bytes) /\ Len(a) = n /\ \A i \in 1..n : a[i] = t[i]
    BY <1>1, <1>2 DEF Text
  <2>2. b \in Seq(Bytes) /\ Len(b) = x /\ \A i \in 1..x : b[i] = l[i]
    BY <1>1 DEF Text
  <2> HIDE DEF a, b
  <2>3. /\ p \o b \in Seq(Bytes) /\ Len(p \o b) = n
        /\ \A i \in 1..n : (p \o b)[i] = IF i <= Len(p) THEN p[i] ELSE b[i - Len(p)]
    <3>1. p \in Seq(Bytes) /\ Len(p) + Len(b) = n
      BY <2>2 DEF Text
    <3>2. /\ p \o b \in Seq(Bytes) /\ Len(p \o b) = Len(p) + Len(b)
          /\ \A i \in 1..Len(p) + Len(b) : (p \o b)[i] = IF i <= Len(p) THEN p[i] ELSE b[i - Len(p)]
      BY <2>2, <3>1, ConcatProperties, Zenon
    <3> QED
      BY <3>1, <3>2
  <2>4. ASSUME NEW i \in 1..n PROVE a[i] = (p \o b)[i]
    <3>1. CASE i <= Len(p)
      BY <1>1, <1>3, <2>1, <2>3, <3>1
    <3>2. CASE ~(i <= Len(p))
      <4>1. i - Len(p) \in 1..x /\ Len(p) + (i - Len(p)) = i /\ i - Len(p) \in 1..Len(l)
        BY <1>1, <3>2
      <4>2. t[Len(p) + (i - Len(p))] = l[i - Len(p)]
        BY <1>3, <4>1
      <4> QED
        BY <2>1, <2>2, <2>3, <3>2, <4>1, <4>2
    <3> QED
      BY <3>1, <3>2
  <2>5. a = p \o b
    BY <2>1, <2>3, <2>4, SeqEqual
  <2> QED
    BY <2>5 DEF a, b, Cat
<1>5. SubSeq(t, n + 1, Len(t)) = Cat(SubSeq(l, x + 1, Len(l)), q)
  <2> DEFINE a == SubSeq(t, n + 1, Len(t))
             b == SubSeq(l, x + 1, Len(l))
             m == Len(l) - x
  <2>0. m \in Nat /\ Len(t) = (n + m) + Len(q)
    BY <1>1, <1>2
  <2>1. a \in Seq(Bytes) /\ Len(a) = m + Len(q) /\ \A i \in 1..(m + Len(q)) : a[i] = t[n + i]
    <3>1. n \in Nat /\ Len(t) \in Nat /\ t \in Seq(Bytes)
      BY <1>1, <1>2 DEF Text
    <3> HIDE DEF n, m
    <3> QED
      BY <1>1, <2>0, <3>1
  <2>2. b \in Seq(Bytes) /\ Len(b) = m /\ \A i \in 1..m : b[i] = l[x + i]
    BY <1>1 DEF Text
  <2> HIDE DEF a, b
  <2>3. /\ b \o q \in Seq(Bytes) /\ Len(b \o q) = m + Len(q)
        /\ \A i \in 1..(m + Len(q)) : (b \o q)[i] = IF i <= m THEN b[i] ELSE q[i - m]
    <3>1. q \in Seq(Bytes) /\ Len(b) + Len(q) = m + Len(q)
      BY <2>2 DEF Text
    <3> HIDE DEF m
    <3> QED
      BY <2>2, <3>1, ConcatProperties
  <2>4. ASSUME NEW i \in 1..(m + Len(q)) PROVE a[i] = (b \o q)[i]
    <3>1. CASE i <= m
      <4>1. x + i \in 1..Len(l) /\ n + i = Len(p) + (x + i) /\ i \in 1..m
        BY <1>1, <2>0, <3>1
      <4>2. t[Len(p) + (x + i)] = l[x + i]
        BY <1>3, <4>1
      <4> QED
        BY <2>1, <2>2, <2>3, <3>1, <4>1, <4>2
    <3>2. CASE ~(i <= m)
      <4>1. i - m \in 1..Len(q) /\ n + i = (Len(p) + Len(l)) + (i - m)
        BY <1>1, <2>0, <3>2
      <4>2. t[(Len(p) + Len(l)) + (i - m)] = q[i - m]
        BY <1>3, <4>1
      <4> QED
        BY <2>1, <2>3, <3>2, <4>1, <4>2
    <3> QED
      BY <3>1, <3>2
  <2>5. a = b \o q
    <3> HIDE DEF m
    <3> QED
      BY <2>0, <2>1, <2>3, <2>4, SeqEqual
  <2> QED
    BY <2>5 DEF a, b, Cat
<1>6. x < Len(l) => t[n + 1] = l[x + 1]
  <2> SUFFICES ASSUME x < Len(l) PROVE t[n + 1] = l[x + 1]
    OBVIOUS
  <2>1. x + 1 \in 1..Len(l) /\ n + 1 = Len(p) + (x + 1)
    BY <1>1
  <2> QED
    BY <1>3, <2>1
<1>7. x = Len(l) /\ q # <<>> => t[n + 1] = q[1]
  <2> SUFFICES ASSUME x = Len(l), q # <<>> PROVE t[n + 1] = q[1]
    OBVIOUS
  <2>1. Len(q) # 0
    BY DEF Text
  <2>2. 1 \in 1..Len(q) /\ n + 1 = (Len(p) + Len(l)) + 1
    BY <1>1, <2>1
  <2> QED
    BY <1>3, <2>2
<1> QED
  BY <1>2, <1>4, <1>5, <1>6, <1>7 DEF t, CutAt

\* The position in the text of column x of line y + 1.
Pos(ls, x, y) == Len(Above(SubSeq(ls, 1, y))) + x

\* The lines A, the line l and the lines B.
Put(A, l, B) == A \o <<l>> \o B

\* The lines before and after line y + 1.
Before(ls, y) == SubSeq(ls, 1, y)
After(ls, y)  == SubSeq(ls, y + 2, Len(ls))

\* What the lines ls = Put(A, l, B) are.
Parts(T, ls, A, l, B) ==
  /\ ls \in Seq(T) /\ Len(ls) = (Len(A) + 1) + Len(B)
  /\ ls[Len(A) + 1] = l /\ Before(ls, Len(A)) = A
  /\ \A k \in 1..Len(A) : ls[k] = A[k]
  /\ \A k \in 1..Len(B) : ls[(Len(A) + 1) + k] = B[k]

\* Lines put together around one of them.
LEMMA Assemble ==
  ASSUME NEW T, NEW A \in Seq(T), NEW l \in T, NEW B \in Seq(T)
  PROVE  Parts(T, Put(A, l, B), A, l, B)
<1> DEFINE a == A \o <<l>>
           ls == Put(A, l, B)
<1>0. ls = a \o B
  BY DEF Put
<1>1. Len(A) \in Nat /\ Len(B) \in Nat
  OBVIOUS
<1>2. /\ a \in Seq(T) /\ Len(a) = Len(A) + 1 /\ a[Len(A) + 1] = l
      /\ \A k \in 1..Len(A) : a[k] = A[k]
  OBVIOUS
<1> HIDE DEF a
<1>3. /\ ls \in Seq(T) /\ Len(ls) = Len(a) + Len(B)
      /\ \A i \in 1..(Len(a) + Len(B)) : ls[i] = IF i <= Len(a) THEN a[i] ELSE B[i - Len(a)]
  <2>1. /\ a \o B \in Seq(T) /\ Len(a \o B) = Len(a) + Len(B)
        /\ \A i \in 1..Len(a) + Len(B) : (a \o B)[i] = IF i <= Len(a) THEN a[i] ELSE B[i - Len(a)]
    BY <1>2, ConcatProperties
  <2> QED
    BY <1>0, <2>1
<1> HIDE DEF ls
<1>4. ls[Len(A) + 1] = l /\ \A k \in 1..Len(A) : ls[k] = A[k]
  BY <1>1, <1>2, <1>3
<1>5. ASSUME NEW k \in 1..Len(B) PROVE ls[(Len(A) + 1) + k] = B[k]
  <2>1. (Len(A) + 1) + k \in 1..(Len(a) + Len(B)) /\ ~((Len(A) + 1) + k <= Len(a))
        /\ ((Len(A) + 1) + k) - Len(a) = k
    BY <1>1, <1>2
  <2> QED
    BY <1>3, <2>1
<1>6. SubSeq(ls, 1, Len(A)) = A
  <2> DEFINE s == SubSeq(ls, 1, Len(A))
  <2>1. s \in Seq(T) /\ Len(s) = Len(A) /\ \A i \in 1..Len(A) : s[i] = ls[i]
    BY <1>1, <1>2, <1>3
  <2> HIDE DEF s
  <2>2. s = A
    BY <1>4, <2>1, SeqEqual
  <2> QED
    BY <2>2 DEF s
<1> QED
  BY <1>1, <1>2, <1>3, <1>4, <1>5, <1>6 DEF ls, Before, Parts

\* Lines taken apart around one of them.
LEMMA TakeApart ==
  ASSUME NEW T, NEW ls \in Seq(T), NEW y \in 0..(Len(ls) - 1)
  PROVE  /\ Before(ls, y) \in Seq(T) /\ Len(Before(ls, y)) = y
         /\ After(ls, y) \in Seq(T) /\ Len(After(ls, y)) = (Len(ls) - y) - 1
         /\ ls[y + 1] \in T
         /\ ls = Put(Before(ls, y), ls[y + 1], After(ls, y))
<1> DEFINE A == Before(ls, y)
           B == After(ls, y)
           l == ls[y + 1]
<1>1. y \in Nat /\ Len(ls) \in Nat /\ y < Len(ls) /\ l \in T
  OBVIOUS
<1>2. A \in Seq(T) /\ Len(A) = y /\ \A i \in 1..y : A[i] = ls[i]
  BY <1>1 DEF Before
<1>3. B \in Seq(T) /\ Len(B) = (Len(ls) - y) - 1 /\ \A i \in 1..Len(B) : B[i] = ls[(y + 1) + i]
  BY <1>1 DEF After
<1> HIDE DEF A, B, l
<1> DEFINE m == Put(A, l, B)
<1>4. /\ m \in Seq(T) /\ Len(m) = (y + 1) + Len(B) /\ m[y + 1] = l
      /\ \A k \in 1..y : m[k] = A[k]
      /\ \A k \in 1..Len(B) : m[(y + 1) + k] = B[k]
  <2>1. A \in Seq(T) /\ B \in Seq(T) /\ l \in T /\ Len(A) = y
    BY <1>1, <1>2, <1>3
  <2>2. Parts(T, m, A, l, B)
    BY <2>1, Assemble
  <2> HIDE DEF m
  <2> QED
    BY <2>1, <2>2 DEF Parts
<1> HIDE DEF m
<1>5. Len(m) = Len(ls)
  BY <1>1, <1>3, <1>4
<1>6. ASSUME NEW i \in 1..Len(ls) PROVE ls[i] = m[i]
  <2>1. CASE i <= y
    <3>1. i \in 1..y
      BY <1>1, <2>1
    <3> QED
      BY <1>2, <1>4, <3>1
  <2>2. CASE i = y + 1
    BY <1>4, <2>2 DEF l
  <2>3. CASE i > y + 1
    <3>1. i - (y + 1) \in 1..Len(B) /\ (y + 1) + (i - (y + 1)) = i
      BY <1>1, <1>3, <2>3
    <3> QED
      BY <1>3, <1>4, <3>1, ZenonT(30)
  <2> QED
    BY <1>1, <2>1, <2>2, <2>3
<1>7. ls = m
  BY <1>4, <1>5, <1>6, SeqEqual
<1> QED
  BY <1>1, <1>2, <1>3, <1>7 DEF A, B, l, m

\* The text around column x of line y + 1.
TextAt(ls, x, y) ==
  /\ TextOf(ls) = Cat(Above(Before(ls, y)), Cat(ls[y + 1], Below(After(ls, y))))
  /\ Above(Before(ls, y)) \in Text /\ Below(After(ls, y)) \in Text
  /\ ls[y + 1] \in Text /\ TextOf(ls) \in Text
  /\ Pos(ls, x, y) = Len(Above(Before(ls, y))) + x /\ Pos(ls, x, y) \in 0..Len(TextOf(ls))
  /\ Pos(ls, x, y) = Len(TextOf(Before(ls, y) \o <<SubSeq(ls[y + 1], 1, x)>>))
  /\ SubSeq(TextOf(ls), 1, Pos(ls, x, y)) = Cat(Above(Before(ls, y)), SubSeq(ls[y + 1], 1, x))
  /\ SubSeq(TextOf(ls), 1, Pos(ls, x, y))
       = TextOf(Append(Before(ls, y), SubSeq(ls[y + 1], 1, x)))
  /\ SubSeq(TextOf(ls), Pos(ls, x, y) + 1, Len(TextOf(ls)))
       = Cat(SubSeq(ls[y + 1], x + 1, Len(ls[y + 1])), Below(After(ls, y)))

LEMMA Around ==
  ASSUME NEW ls \in Seq(Text), NEW y \in 0..(Len(ls) - 1), NEW x \in 0..Len(ls[y + 1])
  PROVE  TextAt(ls, x, y)
<1> DEFINE A == Before(ls, y)
           B == After(ls, y)
           l == ls[y + 1]
           t == TextOf(ls)
           n == Pos(ls, x, y)
           k == SubSeq(l, 1, x)
<1>1. A \in Seq(Text) /\ B \in Seq(Text) /\ l \in Text /\ ls = Put(A, l, B)
  BY TakeApart
<1>2. x \in 0..Len(l)
  OBVIOUS
<1>3. n = Len(Above(A)) + x
  BY DEF Pos, Before
<1> HIDE DEF A, B, l, n
<1>4. t = Cat(Above(A), Cat(l, Below(B)))
  BY <1>1, TextAround DEF Put
<1>5. Above(A) \in Text /\ Below(B) \in Text
  BY <1>1, AboveBelow
<1>6. k \in Text /\ Len(k) = x
  BY <1>1, <1>2 DEF Text
<1>9. /\ t \in Text /\ n \in 0..Len(t)
      /\ SubSeq(t, 1, n) = Cat(Above(A), k)
      /\ SubSeq(t, n + 1, Len(t)) = Cat(SubSeq(l, x + 1, Len(l)), Below(B))
  <2> DEFINE p == Above(A)
             q == Below(B)
  <2>1. p \in Text /\ q \in Text /\ l \in Text /\ x \in 0..Len(l) /\ t = Cat(p, Cat(l, q)) /\ n = Len(p) + x
    BY <1>1, <1>2, <1>3, <1>4, <1>5
  <2> HIDE DEF p, q, t
  <2>2. CutAt(Cat(p, Cat(l, q)), Len(p) + x, p, l, q, x)
    BY <2>1, CutText
  <2>3. CutAt(t, n, p, l, q, x)
    BY <2>1, <2>2
  <2> QED
    BY <2>3 DEF p, q, CutAt
<1> HIDE DEF k, t
<1>7. A \o <<k>> = Append(A, k) /\ TextOf(Append(A, k)) = Cat(Above(A), k)
  <2>1. A \o <<k>> = Append(A, k)
    BY <1>1, <1>6, AppendIsConcat
  <2> QED
    BY <1>1, <1>6, <2>1, TextAppend
<1>8. Len(Cat(Above(A), k)) = n
  BY <1>3, <1>5, <1>6, Glue
<1> QED
  BY <1>1, <1>3, <1>4, <1>5, <1>7, <1>8, <1>9 DEF A, B, l, t, n, k, TextAt

-----------------------------------------------------------------------------
(* The editor's state.                                                     *)

\* A line as the arrays hold it.
ALine == {s \in Seq(Chars) : Len(s) < MaxCols}

\* TypeOK, as the proofs use it.
EditorTypes ==
  /\ lines \in Seq(ALine) /\ Len(lines) \in 1..MaxLines
  /\ cur_y \in 0..(Len(lines) - 1) /\ cur_x \in 0..Len(lines[cur_y + 1])
  /\ scroll_y \in 0..cur_y /\ cur_y < scroll_y + VisibleRows
  /\ editing \in BOOLEAN /\ is_dirty \in BOOLEAN /\ file \in Text

LEMMA LinesAreTexts ==
  /\ ALine \subseteq Text /\ Seq(ALine) \subseteq Seq(Text)
  /\ \A s \in ALine : s \in Seq(Chars) /\ Len(s) < MaxCols /\ Len(s) \in Nat
<1>1. Seq(Chars) \subseteq Seq(Bytes)
  BY SeqMonotonic DEF Bytes
<1>2. ALine \subseteq Text
  BY <1>1 DEF ALine, Text
<1> QED
  BY <1>2, SeqMonotonic DEF ALine

LEMMA TypesAre == EditorTypes /\ lost \in BOOLEAN <=> TypeOK
<1>1. ASSUME EditorTypes, lost \in BOOLEAN PROVE TypeOK
  <2>1. lines \in Seq(Seq(Chars))
    <3>1. ALine \subseteq Seq(Chars)
      BY DEF ALine
    <3> QED
      BY <1>1, <3>1, SeqMonotonic DEF EditorTypes
  <2>2. \A k \in 1..Len(lines) : Len(lines[k]) < MaxCols
    BY <1>1 DEF EditorTypes, ALine
  <2> QED
    BY <1>1, <2>1, <2>2 DEF EditorTypes, TypeOK, FitsArrays, Line, Text, Bytes
<1>2. ASSUME TypeOK PROVE EditorTypes /\ lost \in BOOLEAN
  <2>1. lines \in Seq(ALine)
    <3>1. lines \in Seq(Seq(Chars)) /\ \A k \in 1..Len(lines) : Len(lines[k]) < MaxCols
      BY <1>2 DEF TypeOK, FitsArrays
    <3>2. \A k \in 1..Len(lines) : lines[k] \in ALine
      BY <3>1 DEF ALine
    <3>3. Len(lines) \in Nat /\ lines \in [1..Len(lines) -> ALine]
      BY <3>1, <3>2
    <3> QED
      BY <3>3
  <2> QED
    BY <1>2, <2>1 DEF EditorTypes, TypeOK, FitsArrays, Line, Text, Bytes
<1> QED
  BY <1>1, <1>2

\* After the adjustment of scroll_y, line y is on the screen.
LEMMA ScrolledShows ==
  ASSUME NEW y \in Nat, NEW s \in Nat
  PROVE  Scrolled(y, s) \in 0..y /\ y < Scrolled(y, s) + VisibleRows
<1>1. VisibleRows \in Nat /\ VisibleRows > 0
  BY EditorAssumption DEF EditorAssumption
<1> QED
  BY <1>1 DEF Scrolled

\* What a state with the cursor in column x of line l between the lines A and B is.
StateIs(A, l, B, x) ==
  /\ lines = Put(A, l, B) /\ cur_y = Len(A) /\ cur_x = x
  /\ TextOf(lines) = Cat(Above(A), Cat(l, Below(B)))
  /\ Offset = Len(Above(A)) + x
  /\ TextOf(lines) \in Text /\ Offset \in 0..Len(TextOf(lines))
  /\ SubSeq(TextOf(lines), 1, Offset) = Cat(Above(A), SubSeq(l, 1, x))
  /\ SubSeq(TextOf(lines), Offset + 1, Len(TextOf(lines))) = Cat(SubSeq(l, x + 1, Len(l)), Below(B))

\* The lines around the cursor.
CurA == Before(lines, cur_y)
CurB == After(lines, cur_y)

\* The state around the cursor.
LEMMA AroundCursor ==
  ASSUME EditorTypes
  PROVE  /\ CurA \in Seq(ALine) /\ CurB \in Seq(ALine) /\ Line \in ALine /\ cur_x \in 0..Len(Line)
         /\ Len(CurA) = cur_y /\ Len(lines) = (Len(CurA) + 1) + Len(CurB)
         /\ StateIs(CurA, Line, CurB, cur_x)
<1>1. /\ lines \in Seq(ALine) /\ lines \in Seq(Text)
      /\ cur_y \in 0..(Len(lines) - 1) /\ cur_x \in 0..Len(lines[cur_y + 1])
      /\ Len(lines) \in Nat /\ cur_y \in Nat
  BY LinesAreTexts DEF EditorTypes
<1>2. /\ CurA \in Seq(ALine) /\ CurB \in Seq(ALine) /\ Line \in ALine
      /\ Len(CurA) = cur_y /\ Len(CurB) = (Len(lines) - cur_y) - 1
      /\ lines = Put(CurA, Line, CurB)
  BY <1>1, TakeApart DEF CurA, CurB, Line
<1>3. TextAt(lines, cur_x, cur_y)
  BY <1>1, Around
<1>4. Offset = Pos(lines, cur_x, cur_y)
  BY <1>3 DEF TextAt, Offset, Line, Before
<1>5. StateIs(CurA, Line, CurB, cur_x)
  BY <1>2, <1>3, <1>4 DEF StateIs, TextAt, CurA, CurB, Line
<1> QED
  BY <1>1, <1>2, <1>5 DEF Line

\* What the next state is when the cursor gets to column x of line l between the
\* lines A and B.
BecomesState(A, l, B, x) ==
  /\ EditorTypes'
  /\ TextOf(lines') = Cat(Above(A), Cat(l, Below(B)))
  /\ Offset' = Len(Above(A)) + x
  /\ TextOf(lines') \in Text /\ Offset' \in 0..Len(TextOf(lines'))

\* A key that changes the lines keeps the types.
LEMMA AfterKey ==
  ASSUME EditorTypes,
         NEW A \in Seq(ALine), NEW l \in ALine, NEW B \in Seq(ALine), NEW x \in 0..Len(l),
         lines' = Put(A, l, B), (Len(A) + 1) + Len(B) <= MaxLines,
         MoveTo(x, Len(A)), is_dirty' \in BOOLEAN, UNCHANGED <<editing, file>>
  PROVE  BecomesState(A, l, B, x)
<1>1. Len(A) \in Nat /\ Len(B) \in Nat
  OBVIOUS
<1>2. Parts(ALine, lines', A, l, B)
  BY Assemble
<1>3. /\ lines' \in Seq(ALine) /\ lines' \in Seq(Text) /\ Len(lines') = (Len(A) + 1) + Len(B)
      /\ lines'[Len(A) + 1] = l /\ Before(lines', Len(A)) = A
  BY <1>2, LinesAreTexts DEF Parts
<1>4. cur_x' = x /\ cur_y' = Len(A) /\ scroll_y' = Scrolled(Len(A), scroll_y)
  BY DEF MoveTo
<1>5. scroll_y' \in 0..Len(A) /\ Len(A) < scroll_y' + VisibleRows
  <2>1. scroll_y \in Nat
    BY DEF EditorTypes
  <2> QED
    BY <1>1, <1>4, <2>1, ScrolledShows
<1>6. Len(lines') \in 1..MaxLines /\ cur_y' \in 0..(Len(lines') - 1)
  <2>1. MaxLines \in Nat
    BY EditorAssumption DEF EditorAssumption
  <2> QED
    BY <1>1, <1>3, <1>4, <2>1
<1>7. EditorTypes'
  BY <1>1, <1>3, <1>4, <1>5, <1>6 DEF EditorTypes
<1>8. TextOf(lines') = Cat(Above(A), Cat(l, Below(B)))
  BY TextAround, LinesAreTexts DEF Put
<1> DEFINE t == TextOf(lines')
<1>9. Offset' = Len(Above(A)) + x /\ t \in Text /\ Offset' \in 0..Len(t)
  <2> DEFINE ls == lines'
             y == Len(A)
  <2>1. ls \in Seq(Text) /\ y \in 0..(Len(ls) - 1) /\ ls[y + 1] = l /\ Before(ls, y) = A
    BY <1>1, <1>3
  <2> HIDE DEF ls, y
  <2>2. x \in 0..Len(ls[y + 1])
    BY <2>1
  <2>3. TextAt(ls, x, y)
    BY <2>1, <2>2, Around
  <2>4. Offset' = Len(TextOf(Before(ls, y) \o <<SubSeq(ls[y + 1], 1, x)>>))
    BY <1>4 DEF Offset, Line, Before, ls, y
  <2> QED
    BY <2>1, <2>3, <2>4 DEF TextAt, ls
<1> QED
  BY <1>7, <1>8, <1>9 DEF BecomesState

\* The end of a line and the start of the next one.
LEMMA LineBreak ==
  ASSUME NEW T, T \subseteq Text, NEW ls \in Seq(T), NEW y \in 1..(Len(ls) - 1)
  PROVE  /\ y - 1 \in 0..(Len(ls) - 1) /\ Before(ls, y - 1) \in Seq(T)
         /\ Len(Before(ls, y - 1)) = y - 1 /\ ls[y] \in T
         /\ Before(ls, y) = Append(Before(ls, y - 1), ls[y])
         /\ Pos(ls, 0, y) = Pos(ls, Len(ls[y]), y - 1) + 1
         /\ Pos(ls, Len(ls[y]), y - 1) \in Nat
<1> DEFINE b == Before(ls, y)
           c == Before(ls, y - 1)
           n == y - 1
<1>1. n \in Nat /\ y \in Nat /\ y = n + 1 /\ Len(ls) \in Nat /\ y < Len(ls) /\ n \in 0..(Len(ls) - 1)
  OBVIOUS
<1>2. /\ b \in Seq(T) /\ Len(b) = y /\ c \in Seq(T) /\ Len(c) = n /\ ls[y] \in T
      /\ (\A i \in 1..y : b[i] = ls[i]) /\ (\A i \in 1..n : c[i] = ls[i])
  BY <1>1 DEF Before
<1> HIDE DEF b, c, n
<1>3. /\ Append(c, ls[y]) \in Seq(T) /\ Len(Append(c, ls[y])) = y
      /\ \A i \in 1..y : Append(c, ls[y])[i] = b[i]
  BY <1>1, <1>2
<1>4. b = Append(c, ls[y])
  BY <1>2, <1>3, SeqEqual
<1>5. c \in Seq(Text) /\ ls[y] \in Text
  BY <1>2, SeqMonotonic
<1>6. /\ Above(c) \in Text /\ Above(b) = Cat(Above(c), Cat(ls[y], LineFeed))
  BY <1>4, <1>5, AboveBelow
<1>7. /\ Len(Above(b)) = Len(Above(c)) + (Len(ls[y]) + 1)
      /\ Len(Above(c)) \in Nat /\ Len(ls[y]) \in Nat
  <2> DEFINE m == Cat(ls[y], LineFeed)
  <2>1. m \in Text /\ Len(m) = Len(ls[y]) + 1 /\ Len(ls[y]) \in Nat /\ Len(Above(c)) \in Nat
    BY <1>5, <1>6, Glue
  <2> HIDE DEF m
  <2>2. Len(Cat(Above(c), m)) = Len(Above(c)) + Len(m)
    BY <1>6, <2>1, Glue, Zenon
  <2> QED
    BY <1>6, <2>1, <2>2 DEF m
<1>8. /\ Pos(ls, 0, y) = Pos(ls, Len(ls[y]), n) + 1
      /\ Pos(ls, Len(ls[y]), n) \in Nat
  <2>1. Pos(ls, 0, y) = Len(Above(b)) + 0 /\ Pos(ls, Len(ls[y]), n) = Len(Above(c)) + Len(ls[y])
    BY DEF Pos, Before, b, c, n
  <2>2. Len(Above(b)) \in Nat
    BY <1>7
  <2> QED
    BY <1>7, <2>1, <2>2
<1> QED
  BY <1>1, <1>2, <1>4, <1>8 DEF b, c, n

\* What a key that moves the cursor to column x of line y + 1 does.
Moved(x, y) ==
  /\ EditorTypes' /\ lines' = lines /\ file' = file /\ editing' = editing
  /\ Offset' = Pos(lines, x, y) /\ Offset' \in 0..Len(TextOf(lines))

LEMMA AfterMove ==
  ASSUME EditorTypes, NEW y \in 0..(Len(lines) - 1), NEW x \in 0..Len(lines[y + 1]),
         MoveTo(x, y), UNCHANGED <<editing, lines, is_dirty, file>>
  PROVE  Moved(x, y)
<1>1. /\ lines \in Seq(ALine) /\ lines \in Seq(Text) /\ Len(lines) \in Nat /\ y \in Nat
      /\ scroll_y \in Nat
  BY LinesAreTexts DEF EditorTypes
<1>2. cur_x' = x /\ cur_y' = y /\ scroll_y' = Scrolled(y, scroll_y)
  BY DEF MoveTo
<1>3. scroll_y' \in 0..y /\ y < scroll_y' + VisibleRows
  BY <1>1, <1>2, ScrolledShows
<1>4. EditorTypes'
  BY <1>1, <1>2, <1>3 DEF EditorTypes
<1>5. TextAt(lines, x, y)
  BY <1>1, Around
<1>6. Offset' = Len(TextOf(Before(lines, y) \o <<SubSeq(lines[y + 1], 1, x)>>))
  BY <1>2 DEF Offset, Line, Before
<1> QED
  BY <1>4, <1>5, <1>6 DEF Moved, TextAt

\* The cursor's position.
LEMMA CursorPos ==
  ASSUME EditorTypes
  PROVE  /\ Offset = Pos(lines, cur_x, cur_y) /\ Len(lines) \in Nat
         /\ Offset = Len(Above(Before(lines, cur_y))) + cur_x
         /\ Len(Above(Before(lines, cur_y))) \in Nat /\ cur_x \in Nat /\ cur_y \in Nat
         /\ lines \in Seq(ALine) /\ ALine \subseteq Text /\ cur_y < Len(lines)
<1>1. /\ lines \in Seq(ALine) /\ lines \in Seq(Text) /\ ALine \subseteq Text
      /\ cur_y \in 0..(Len(lines) - 1) /\ cur_x \in 0..Len(lines[cur_y + 1])
      /\ Len(lines) \in Nat /\ cur_y \in Nat
  BY LinesAreTexts DEF EditorTypes
<1>2. TextAt(lines, cur_x, cur_y)
  BY <1>1, Around
<1>3. Offset = Pos(lines, cur_x, cur_y)
  BY <1>2 DEF TextAt, Offset, Line, Before
<1>4. lines[cur_y + 1] \in Text /\ Len(lines[cur_y + 1]) \in Nat
  BY <1>1, Glue
<1>5. cur_x \in Nat
  BY <1>1, <1>4
<1>6. Len(Above(Before(lines, cur_y))) \in Nat
  BY <1>2, Glue DEF TextAt
<1> QED
  BY <1>1, <1>2, <1>3, <1>5, <1>6 DEF TextAt

\* What any key that moves the cursor does.
JustMoves ==
  /\ EditorTypes' /\ lines' = lines /\ file' = file /\ editing' = editing
  /\ Offset' \in 0..Len(TextOf(lines))

LEMMA LeftMoves ==
  ASSUME EditorTypes, KeyLeft
  PROVE  JustMoves /\ Offset' = Offset - 1
<1>0. /\ UNCHANGED <<editing, lines, is_dirty, file>>
      /\ Offset = Pos(lines, cur_x, cur_y) /\ cur_x \in Nat /\ cur_y \in Nat /\ Len(lines) \in Nat
      /\ lines \in Seq(ALine) /\ ALine \subseteq Text /\ cur_y < Len(lines)
      /\ cur_x \in 0..Len(lines[cur_y + 1])
  BY CursorPos DEF KeyLeft, EditorTypes
<1>1. CASE cur_x > 0 /\ MoveTo(cur_x - 1, cur_y)
  <2> DEFINE x == cur_x - 1
  <2>1. cur_y \in 0..(Len(lines) - 1) /\ x \in 0..Len(lines[cur_y + 1])
    BY <1>0, <1>1
  <2>2. Moved(x, cur_y)
    <3> HIDE DEF x
    <3>1. MoveTo(x, cur_y)
      BY <1>1 DEF x
    <3> QED
      BY <1>0, <2>1, <3>1, AfterMove
  <2>3. Offset' = Offset - 1
    <3>1. Len(Above(Before(lines, cur_y))) \in Nat
      BY CursorPos
    <3> QED
      BY <1>0, <2>2, <3>1 DEF Moved, Pos, Before
  <2> QED
    BY <2>2, <2>3 DEF Moved, JustMoves
<1>2. CASE cur_x = 0 /\ cur_y > 0 /\ MoveTo(Len(lines[cur_y]), cur_y - 1)
  <2>1. cur_y \in 1..(Len(lines) - 1)
    BY <1>0, <1>2
  <2>2. /\ cur_y - 1 \in 0..(Len(lines) - 1) /\ lines[cur_y] \in ALine
        /\ Pos(lines, 0, cur_y) = Pos(lines, Len(lines[cur_y]), cur_y - 1) + 1
        /\ Pos(lines, Len(lines[cur_y]), cur_y - 1) \in Nat
    BY <1>0, <2>1, LineBreak
  <2> DEFINE y == cur_y - 1
  <2>3. (cur_y - 1) + 1 = cur_y
    BY <1>0
  <2>4. Len(lines[cur_y]) \in 0..Len(lines[y + 1])
    BY <2>2, <2>3, LinesAreTexts
  <2>5. Moved(Len(lines[cur_y]), y)
    <3> HIDE DEF y
    <3>1. MoveTo(Len(lines[cur_y]), y) /\ y \in 0..(Len(lines) - 1)
      BY <1>2, <2>2 DEF y
    <3> QED
      BY <1>0, <2>4, <3>1, AfterMove
  <2> QED
    BY <1>0, <1>2, <2>2, <2>5 DEF Moved, JustMoves
<1> QED
  BY <1>1, <1>2 DEF KeyLeft

LEMMA RightMoves ==
  ASSUME EditorTypes, KeyRight
  PROVE  JustMoves /\ Offset' = Offset + 1
<1>0. /\ UNCHANGED <<editing, lines, is_dirty, file>>
      /\ Offset = Pos(lines, cur_x, cur_y) /\ cur_x \in Nat /\ cur_y \in Nat /\ Len(lines) \in Nat
      /\ lines \in Seq(ALine) /\ ALine \subseteq Text /\ cur_y < Len(lines)
      /\ cur_x \in 0..Len(lines[cur_y + 1]) /\ Len(lines[cur_y + 1]) \in Nat
  <2>1. lines[cur_y + 1] \in Text
    BY CursorPos
  <2> QED
    BY <2>1, CursorPos, Glue DEF KeyRight, EditorTypes
<1>1. CASE cur_x < Len(Line) /\ MoveTo(cur_x + 1, cur_y)
  <2> DEFINE x == cur_x + 1
  <2>1. cur_y \in 0..(Len(lines) - 1) /\ x \in 0..Len(lines[cur_y + 1])
    BY <1>0, <1>1 DEF Line
  <2>2. Moved(x, cur_y)
    <3> HIDE DEF x
    <3>1. MoveTo(x, cur_y)
      BY <1>1 DEF x
    <3> QED
      BY <1>0, <2>1, <3>1, AfterMove
  <2>3. Offset' = Offset + 1
    <3>1. Len(Above(Before(lines, cur_y))) \in Nat
      BY CursorPos
    <3> QED
      BY <1>0, <2>2, <3>1 DEF Moved, Pos, Before
  <2> QED
    BY <2>2, <2>3 DEF Moved, JustMoves
<1>2. CASE cur_x >= Len(Line) /\ cur_y < Len(lines) - 1 /\ MoveTo(0, cur_y + 1)
  <2> DEFINE y == cur_y + 1
  <2>1. y \in 1..(Len(lines) - 1) /\ y - 1 = cur_y /\ y \in 0..(Len(lines) - 1) /\ y + 1 \in 1..Len(lines)
    BY <1>0, <1>2
  <2>2. Pos(lines, 0, y) = Pos(lines, Len(lines[y]), y - 1) + 1
    <3> HIDE DEF y
    <3> QED
      BY <1>0, <2>1, LineBreak
  <2>3. cur_x = Len(lines[y])
    BY <1>0, <1>2 DEF Line
  <2>4. Moved(0, y)
    <3> HIDE DEF y
    <3>1. MoveTo(0, y)
      BY <1>2 DEF y
    <3>2. 0 \in 0..Len(lines[y + 1])
      <4>1. lines[y + 1] \in Text
        BY <1>0, <2>1
      <4>2. Len(lines[y + 1]) \in Nat
        BY <4>1, Glue, Zenon
      <4> QED
        BY <4>2
    <3> QED
      BY <1>0, <2>1, <3>1, <3>2, AfterMove
  <2> HIDE DEF y
  <2> QED
    BY <1>0, <2>1, <2>2, <2>3, <2>4 DEF Moved, JustMoves
<1> QED
  BY <1>1, <1>2 DEF KeyRight

LEMMA UpDownMove ==
  ASSUME EditorTypes, KeyUp \/ KeyDown
  PROVE  JustMoves
<1>0. /\ cur_x \in Nat /\ cur_y \in Nat /\ Len(lines) \in Nat
      /\ lines \in Seq(ALine) /\ ALine \subseteq Text /\ cur_y < Len(lines)
      /\ \A k \in 1..Len(lines) : Len(lines[k]) \in Nat
      /\ UNCHANGED <<editing, lines, is_dirty, file>>
  BY CursorPos, LinesAreTexts DEF KeyUp, KeyDown
<1>1. CASE KeyUp
  <2> DEFINE y == cur_y - 1
             x == AtMost(cur_x, Len(lines[cur_y]))
  <2>1. y \in 0..(Len(lines) - 1) /\ y + 1 = cur_y /\ cur_y \in 1..Len(lines)
    BY <1>0, <1>1 DEF KeyUp
  <2>2. x \in 0..Len(lines[y + 1])
    BY <1>0, <2>1 DEF AtMost
  <2>3. MoveTo(x, y)
    BY <1>1 DEF KeyUp
  <2> HIDE DEF x, y
  <2>4. Moved(x, y)
    BY <1>0, <2>1, <2>2, <2>3, AfterMove
  <2> QED
    BY <2>4 DEF Moved, JustMoves
<1>2. CASE KeyDown
  <2> DEFINE y == cur_y + 1
             x == AtMost(cur_x, Len(lines[cur_y + 2]))
  <2>1. y \in 0..(Len(lines) - 1) /\ y + 1 = cur_y + 2 /\ cur_y + 2 \in 1..Len(lines)
    BY <1>0, <1>2 DEF KeyDown
  <2>2. x \in 0..Len(lines[y + 1])
    BY <1>0, <2>1 DEF AtMost
  <2>3. MoveTo(x, y)
    BY <1>2 DEF KeyDown
  <2> HIDE DEF x, y
  <2>4. Moved(x, y)
    BY <1>0, <2>1, <2>2, <2>3, AfterMove
  <2> QED
    BY <2>4 DEF Moved, JustMoves
<1> QED
  BY <1>1, <1>2

\* Concatenation of five texts.
LEMMA RegroupFive ==
  ASSUME NEW p \in Text, NEW a \in Text, NEW m \in Text, NEW b \in Text, NEW q \in Text
  PROVE  /\ Cat(p, Cat(Cat(Cat(a, m), b), q)) = Cat(Cat(Cat(p, a), m), Cat(b, q))
         /\ Cat(p, Cat(Cat(a, b), q)) = Cat(Cat(p, a), Cat(b, q))
<1>1. /\ Cat(a, m) \in Text /\ Cat(p, a) \in Text /\ Cat(b, q) \in Text
      /\ Cat(m, Cat(b, q)) \in Text
  BY Glue
<1>2. Cat(Cat(a, b), q) = Cat(a, Cat(b, q))
  BY Regroup
<1>3. Cat(p, Cat(Cat(a, b), q)) = Cat(Cat(p, a), Cat(b, q))
  BY <1>1, <1>2, Regroup
<1>4. Cat(Cat(Cat(a, m), b), q) = Cat(Cat(a, m), Cat(b, q))
  BY <1>1, Regroup
<1>5. Cat(Cat(a, m), Cat(b, q)) = Cat(a, Cat(m, Cat(b, q)))
  BY <1>1, Regroup
<1>6. Cat(p, Cat(a, Cat(m, Cat(b, q)))) = Cat(Cat(p, a), Cat(m, Cat(b, q)))
  BY <1>1, Regroup
<1>7. Cat(Cat(p, a), Cat(m, Cat(b, q))) = Cat(Cat(Cat(p, a), m), Cat(b, q))
  BY <1>1, Regroup
<1> QED
  BY <1>3, <1>4, <1>5, <1>6, <1>7

\* Replacing the line of the cursor.
LEMMA SpliceLine ==
  ASSUME EditorTypes
  PROVE  \A s : Splice(cur_y, 1, s) = (CurA \o s) \o CurB
<1>1. cur_y \in Nat /\ (cur_y + 1) + 1 = cur_y + 2
  BY CursorPos
<1> QED
  BY <1>1 DEF Splice, CurA, CurB, Before, After

\* What a key does that deletes the character before the cursor.
Deletes ==
  /\ EditorTypes' /\ file' = file /\ editing' = editing /\ is_dirty' = TRUE
  /\ Offset > 0 /\ Offset' = Offset - 1
  /\ TextOf(lines') = Cat(SubSeq(TextOf(lines), 1, Offset - 1),
                          SubSeq(TextOf(lines), Offset + 1, Len(TextOf(lines))))

\* What a key does that inserts m at the cursor.
Inserts(m) ==
  /\ EditorTypes' /\ file' = file /\ editing' = editing /\ is_dirty' = TRUE
  /\ Offset' = Offset + Len(m)
  /\ TextOf(lines') = Cat(Cat(SubSeq(TextOf(lines), 1, Offset), m),
                          SubSeq(TextOf(lines), Offset + 1, Len(TextOf(lines))))

\* The two parts of the line of the cursor.
LEMMA LineParts ==
  ASSUME NEW l \in ALine, NEW x \in 0..Len(l)
  PROVE  /\ SubSeq(l, 1, x) \in Seq(Chars) /\ Len(SubSeq(l, 1, x)) = x
         /\ SubSeq(l, x + 1, Len(l)) \in Seq(Chars) /\ Len(SubSeq(l, x + 1, Len(l))) = Len(l) - x
         /\ SubSeq(l, 1, x) \in ALine /\ SubSeq(l, x + 1, Len(l)) \in ALine
         /\ SubSeq(l, 1, x) \in Text /\ SubSeq(l, x + 1, Len(l)) \in Text
<1>1. l \in Seq(Chars) /\ Len(l) < MaxCols /\ Len(l) \in Nat /\ MaxCols \in Nat
  BY LinesAreTexts, EditorAssumption DEF EditorAssumption
<1>2. /\ SubSeq(l, 1, x) \in Seq(Chars) /\ Len(SubSeq(l, 1, x)) = x
      /\ SubSeq(l, x + 1, Len(l)) \in Seq(Chars) /\ Len(SubSeq(l, x + 1, Len(l))) = Len(l) - x
  BY <1>1
<1>3. x < MaxCols /\ Len(l) - x < MaxCols
  BY <1>1
<1>4. SubSeq(l, 1, x) \in ALine /\ SubSeq(l, x + 1, Len(l)) \in ALine
  BY <1>2, <1>3 DEF ALine
<1> QED
  BY <1>2, <1>4, LinesAreTexts

\* n times the character ch.
LEMMA CharRun ==
  ASSUME NEW S, NEW ch \in S, NEW n \in Nat
  PROVE  [i \in 1..n |-> ch] \in Seq(S) /\ Len([i \in 1..n |-> ch]) = n
  OBVIOUS

\* A tab or a character inserts itself.
LEMMA InsertInserts ==
  ASSUME EditorTypes, NEW ch \in Chars, NEW n \in Nat, n <= Room, InsertChars(ch, n)
  PROVE  Inserts([i \in 1..n |-> ch])
<1> DEFINE A == CurA
           B == CurB
           l == Line
           x == cur_x
           a == SubSeq(l, 1, x)
           b == SubSeq(l, x + 1, Len(l))
           m == [i \in 1..n |-> ch]
           k == (a \o m) \o b
<1>1. /\ A \in Seq(ALine) /\ B \in Seq(ALine) /\ l \in ALine /\ x \in 0..Len(l)
      /\ Len(A) = cur_y /\ Len(lines) = (Len(A) + 1) + Len(B)
      /\ StateIs(A, l, B, x)
  BY AroundCursor
<1>2. m \in Seq(Chars) /\ Len(m) = n /\ m \in Text
  <2>1. m \in Seq(Chars) /\ Len(m) = n
    BY CharRun
  <2> HIDE DEF m
  <2> QED
    BY <2>1, SeqMonotonic DEF Text, Bytes
<1>3. lines' = (A \o <<k>>) \o B /\ MoveTo(x + n, cur_y) /\ is_dirty' = TRUE
      /\ UNCHANGED <<editing, file>>
  BY SpliceLine DEF InsertChars
<1>4. n <= MaxCols - 1 - Len(l)
  BY DEF Room
<1> HIDE DEF A, B, l, x, m
<1>5. /\ a \in Seq(Chars) /\ Len(a) = x /\ b \in Seq(Chars) /\ Len(b) = Len(l) - x
      /\ a \in Text /\ b \in Text
  BY <1>1, LineParts
<1> HIDE DEF a, b
<1>6. k \in ALine /\ x + n \in 0..Len(k) /\ k = Cat(Cat(a, m), b)
  <2>0. MaxCols \in Nat /\ Len(l) \in Nat
    BY <1>1, LinesAreTexts, EditorAssumption DEF EditorAssumption
  <2>1. a \o m \in Seq(Chars) /\ Len(a \o m) = x + n
    BY <1>2, <1>5, ConcatProperties
  <2>2. k \in Seq(Chars) /\ Len(k) = (x + n) + (Len(l) - x)
    <3> DEFINE d == a \o m
    <3> HIDE DEF d
    <3>1. d \in Seq(Chars) /\ Len(d) = x + n
      BY <2>1 DEF d
    <3>2. d \o b \in Seq(Chars) /\ Len(d \o b) = Len(d) + Len(b)
      BY <1>5, <3>1, ConcatProperties
    <3> QED
      BY <1>5, <3>1, <3>2 DEF d
  <2>3. Len(k) = Len(l) + n /\ x + n \in 0..(Len(l) + n) /\ Len(l) + n < MaxCols
    BY <1>1, <1>4, <2>0, <2>2
  <2> HIDE DEF k
  <2>4. k = Cat(Cat(a, m), b)
    BY DEF k, Cat
  <2> QED
    BY <2>2, <2>3, <2>4 DEF ALine
<1> HIDE DEF k
<1>7. BecomesState(A, k, B, x + n)
  <2> DEFINE z == x + n
  <2>1. (Len(A) + 1) + Len(B) <= MaxLines
    BY <1>1 DEF EditorTypes
  <2>2. lines' = Put(A, k, B) /\ MoveTo(z, Len(A)) /\ is_dirty' \in BOOLEAN /\ z \in 0..Len(k)
    BY <1>1, <1>3, <1>6 DEF Put
  <2> HIDE DEF z
  <2>3. BecomesState(A, k, B, z)
    BY <1>1, <1>3, <1>6, <2>1, <2>2, AfterKey
  <2> QED
    BY <2>3 DEF z
<1>8. Above(A) \in Text /\ Below(B) \in Text
  BY <1>1, LinesAreTexts, AboveBelow
<1>9. TextOf(lines') = Cat(Cat(Cat(Above(A), a), m), Cat(b, Below(B)))
  BY <1>2, <1>5, <1>6, <1>7, <1>8, RegroupFive, SMTT(30) DEF BecomesState
<1>10. Offset' = Offset + n
  <2>1. Len(Above(A)) \in Nat /\ x \in Nat
    BY <1>1, <1>8, Glue
  <2>2. Offset' = Len(Above(A)) + (x + n) /\ Offset = Len(Above(A)) + x
    BY <1>1, <1>7 DEF BecomesState, StateIs
  <2> QED
    BY <2>1, <2>2
<1>11. SubSeq(TextOf(lines), 1, Offset) = Cat(Above(A), a)
       /\ SubSeq(TextOf(lines), Offset + 1, Len(TextOf(lines))) = Cat(b, Below(B))
  BY <1>1 DEF StateIs, a, b
<1> QED
  BY <1>2, <1>3, <1>7, <1>9, <1>10, <1>11 DEF Inserts, BecomesState, m

\* A sequence of two.
LEMMA Pair ==
  ASSUME NEW T, NEW a \in T, NEW b \in T
  PROVE  <<a>> \in Seq(T) /\ <<b>> \in Seq(T) /\ <<a>> \o <<b>> = <<a, b>>
<1>1. <<a>> \in Seq(T) /\ <<b>> \in Seq(T)
  OBVIOUS
<1> DEFINE s == <<a>> \o <<b>>
           p == <<a, b>>
<1>2. p \in Seq(T) /\ Len(p) = 2 /\ p[1] = a /\ p[2] = b
  OBVIOUS
<1>3. s \in Seq(T) /\ Len(s) = 2 /\ s[1] = a /\ s[2] = b
  BY <1>1
<1> HIDE DEF s, p
<1>4. \A i \in 1..2 : i = 1 \/ i = 2
  OBVIOUS
<1>5. s = p
  BY <1>2, <1>3, <1>4, SeqEqual
<1> QED
  BY <1>1, <1>5 DEF s, p

\* Enter inserts a line feed.
LEMMA EnterInserts ==
  ASSUME EditorTypes, Enter
  PROVE  Inserts(LineFeed)
<1> DEFINE A == CurA
           B == CurB
           l == Line
           x == cur_x
           a == SubSeq(l, 1, x)
           b == SubSeq(l, x + 1, Len(l))
           C == Append(A, a)
<1>1. /\ A \in Seq(ALine) /\ B \in Seq(ALine) /\ l \in ALine /\ x \in 0..Len(l)
      /\ Len(A) = cur_y /\ Len(lines) = (Len(A) + 1) + Len(B)
      /\ StateIs(A, l, B, x)
  BY AroundCursor
<1>2. /\ lines' = (A \o <<a, b>>) \o B /\ MoveTo(0, cur_y + 1) /\ is_dirty' = TRUE
      /\ UNCHANGED <<editing, file>> /\ Len(lines) < MaxLines
  BY SpliceLine DEF Enter
<1> HIDE DEF A, B, l, x
<1>3. /\ a \in ALine /\ b \in ALine /\ a \in Text /\ b \in Text /\ Len(a) = x
  BY <1>1, LineParts
<1> HIDE DEF a, b
<1>4. C \in Seq(ALine) /\ Len(C) = Len(A) + 1 /\ A \o <<a, b>> = C \o <<b>>
  <2>1. C \in Seq(ALine) /\ Len(C) = Len(A) + 1
    BY <1>1, <1>3
  <2>2. <<a>> \in Seq(ALine) /\ <<b>> \in Seq(ALine) /\ <<a>> \o <<b>> = <<a, b>>
    BY <1>3, Pair
  <2>3. C = A \o <<a>>
    BY <1>1, <1>3, AppendIsConcat
  <2>4. (A \o <<a>>) \o <<b>> = A \o (<<a>> \o <<b>>)
    BY <1>1, <2>2, ConcatAssociative, SMTT(30)
  <2> HIDE DEF C
  <2> QED
    BY <2>1, <2>2, <2>3, <2>4, Zenon
<1>5. Above(C) = Cat(Above(A), Cat(a, LineFeed)) /\ Above(A) \in Text /\ Below(B) \in Text
  BY <1>1, <1>3, LinesAreTexts, AboveBelow
<1> HIDE DEF C
<1>6. BecomesState(C, b, B, 0)
  <2>1. (Len(C) + 1) + Len(B) <= MaxLines
    <3>1. MaxLines \in Nat /\ Len(A) \in Nat /\ Len(B) \in Nat
      BY <1>1, EditorAssumption DEF EditorAssumption
    <3> QED
      BY <1>1, <1>2, <1>4, <3>1, SMTT(30)
  <2>2. lines' = Put(C, b, B) /\ MoveTo(0, Len(C)) /\ is_dirty' \in BOOLEAN /\ 0 \in 0..Len(b)
    <3>1. Len(b) \in Nat
      BY <1>3, LinesAreTexts
    <3>2. lines' = Put(C, b, B)
      BY <1>2, <1>4, Zenon DEF Put
    <3>3. MoveTo(0, Len(C))
      BY <1>1, <1>2, <1>4
    <3> QED
      BY <1>2, <3>1, <3>2, <3>3, SMTT(30)
  <2> QED
    BY <1>1, <1>2, <1>3, <1>4, <2>1, <2>2, AfterKey
<1>7. Cat(Above(C), Cat(b, Below(B))) = Cat(Cat(Cat(Above(A), a), LineFeed), Cat(b, Below(B)))
  <2>1. Cat(Cat(Above(A), a), LineFeed) = Cat(Above(A), Cat(a, LineFeed))
    BY <1>3, <1>5, Glue, Regroup
  <2> QED
    BY <1>5, <2>1
<1>8. Offset' = Offset + Len(LineFeed)
  <2> DEFINE p == Above(A)
             r == Cat(a, LineFeed)
  <2>1. p \in Text /\ r \in Text /\ Len(r) = x + 1 /\ Len(p) \in Nat /\ x \in Nat /\ Len(LineFeed) = 1
    <3>1. p \in Text /\ r \in Text /\ Len(r) = Len(a) + Len(LineFeed) /\ Len(LineFeed) = 1
      BY <1>3, <1>5, Glue, Zenon
    <3>2. Len(p) \in Nat /\ Len(l) \in Nat
      BY <1>1, <3>1, LinesAreTexts, Glue, Zenon
    <3> HIDE DEF p, r
    <3> QED
      BY <1>1, <1>3, <3>1, <3>2
  <2> HIDE DEF p, r
  <2>2. Len(Cat(p, r)) = Len(p) + Len(r)
    BY <2>1, Glue, Zenon
  <2>3. Offset' = Len(Cat(p, r)) + 0 /\ Offset = Len(p) + x
    BY <1>1, <1>5, <1>6 DEF BecomesState, StateIs, p, r
  <2> QED
    BY <2>1, <2>2, <2>3
<1>9. SubSeq(TextOf(lines), 1, Offset) = Cat(Above(A), a)
       /\ SubSeq(TextOf(lines), Offset + 1, Len(TextOf(lines))) = Cat(b, Below(B))
  BY <1>1 DEF StateIs, a, b
<1> QED
  BY <1>2, <1>6, <1>7, <1>8, <1>9 DEF Inserts, BecomesState

\* Backspace inside a line deletes.
LEMMA BackspaceDeletes ==
  ASSUME EditorTypes, BackspaceInLine
  PROVE  Deletes
<1> DEFINE A == CurA
           B == CurB
           l == Line
           x == cur_x
           z == cur_x - 1
           a == SubSeq(l, 1, z)
           b == SubSeq(l, x + 1, Len(l))
           k == a \o b
           t == TextOf(lines)
<1>1. /\ A \in Seq(ALine) /\ B \in Seq(ALine) /\ l \in ALine /\ x \in 0..Len(l)
      /\ Len(A) = cur_y /\ Len(lines) = (Len(A) + 1) + Len(B)
      /\ StateIs(A, l, B, x)
  BY AroundCursor
<1>2. lines' = (A \o <<k>>) \o B /\ MoveTo(z, cur_y) /\ is_dirty' = TRUE /\ x > 0
      /\ UNCHANGED <<editing, file>>
  BY SpliceLine DEF BackspaceInLine
<1>3. Pos(lines, z, cur_y) = Len(Above(A)) + z
      /\ SubSeq(t, 1, Pos(lines, z, cur_y)) = Cat(Above(A), a)
  <2>1. lines \in Seq(Text) /\ cur_y \in 0..(Len(lines) - 1)
    BY LinesAreTexts DEF EditorTypes
  <2>2. z \in 0..Len(lines[cur_y + 1])
    <3>1. Len(l) \in Nat
      BY <1>1, LinesAreTexts
    <3> QED
      BY <1>1, <1>2, <3>1 DEF Line
  <2> HIDE DEF z
  <2>3. TextAt(lines, z, cur_y)
    BY <2>1, <2>2, Around
  <2> QED
    BY <2>3 DEF TextAt, CurA, Line
<1>4. z \in 0..Len(l) /\ x \in Nat /\ z = x - 1 /\ z < x
  <2>1. Len(l) \in Nat
    BY <1>1, LinesAreTexts
  <2> QED
    BY <1>1, <1>2, <2>1
<1> HIDE DEF A, B, l, x, z
<1>5. /\ a \in Seq(Chars) /\ Len(a) = z /\ b \in Seq(Chars) /\ Len(b) = Len(l) - x
      /\ a \in Text /\ b \in Text
  BY <1>1, <1>4, LineParts
<1> HIDE DEF a, b
<1>6. k \in ALine /\ z \in 0..Len(k) /\ k = Cat(a, b)
  <2>0. MaxCols \in Nat /\ Len(l) \in Nat /\ Len(l) < MaxCols
    BY <1>1, LinesAreTexts, EditorAssumption DEF EditorAssumption
  <2>1. k \in Seq(Chars) /\ Len(k) = z + (Len(l) - x)
    BY <1>5, ConcatProperties
  <2>2. z \in 0..(z + (Len(l) - x)) /\ z + (Len(l) - x) < MaxCols
    BY <1>1, <1>4, <2>0
  <2> HIDE DEF k
  <2>4. k = Cat(a, b)
    BY DEF k, Cat
  <2> QED
    BY <2>1, <2>2, <2>4 DEF ALine
<1> HIDE DEF k
<1>7. BecomesState(A, k, B, z)
  <2>1. (Len(A) + 1) + Len(B) <= MaxLines
    BY <1>1 DEF EditorTypes
  <2>2. lines' = Put(A, k, B) /\ MoveTo(z, Len(A)) /\ is_dirty' \in BOOLEAN
    BY <1>1, <1>2 DEF Put
  <2> QED
    BY <1>1, <1>2, <1>6, <2>1, <2>2, AfterKey
<1>8. Above(A) \in Text /\ Below(B) \in Text /\ Len(Above(A)) \in Nat
  BY <1>1, LinesAreTexts, AboveBelow, Glue
<1>9. TextOf(lines') = Cat(Cat(Above(A), a), Cat(b, Below(B)))
  BY <1>5, <1>6, <1>7, <1>8, RegroupFive DEF BecomesState
<1>10. Offset' = Offset - 1 /\ Offset > 0 /\ Offset - 1 = Pos(lines, z, cur_y)
  <2>1. Offset' = Len(Above(A)) + z /\ Offset = Len(Above(A)) + x
    BY <1>1, <1>7 DEF BecomesState, StateIs
  <2> QED
    BY <1>2, <1>3, <1>4, <1>8, <2>1
<1>11. SubSeq(t, Offset + 1, Len(t)) = Cat(b, Below(B))
  BY <1>1 DEF StateIs, b
<1> QED
  BY <1>2, <1>3, <1>7, <1>9, <1>10, <1>11 DEF Deletes, BecomesState

\* Backspace at the start of a line deletes the line feed before it.
LEMMA MergeDeletes ==
  ASSUME EditorTypes, BackspaceMerge
  PROVE  Deletes
<1> DEFINE A == CurA
           B == CurB
           l == Line
           y == cur_y - 1
           C == Before(lines, y)
           p == lines[cur_y]
           k == p \o l
           t == TextOf(lines)
<1>1. /\ A \in Seq(ALine) /\ B \in Seq(ALine) /\ l \in ALine
      /\ Len(A) = cur_y /\ Len(lines) = (Len(A) + 1) + Len(B)
      /\ StateIs(A, l, B, cur_x)
  BY AroundCursor
<1>2. /\ cur_y > 0 /\ cur_x = 0 /\ cur_y \in Nat /\ is_dirty' = TRUE /\ UNCHANGED <<editing, file>>
      /\ MoveTo(Len(p), y) /\ Len(p) + Len(l) < MaxCols - 1
      /\ lines' = Splice(cur_y - 1, 2, <<k>>)
  BY CursorPos DEF BackspaceMerge
<1>3. lines' = (C \o <<k>>) \o B
  <2>1. ((cur_y - 1) + 2) + 1 = cur_y + 2
    BY <1>2
  <2>2. Splice(cur_y - 1, 2, <<k>>) = (C \o <<k>>) \o B
    BY <2>1 DEF Splice, CurB, Before, After
  <2> QED
    BY <1>2, <2>2
<1>4. /\ C \in Seq(ALine) /\ Len(C) = y /\ p \in ALine
      /\ A = Append(C, p) /\ y \in 0..(Len(lines) - 1) /\ y + 1 = cur_y
      /\ Pos(lines, 0, cur_y) = Pos(lines, Len(p), y) + 1 /\ Pos(lines, Len(p), y) \in Nat
  <2>1. cur_y \in 1..(Len(lines) - 1) /\ lines \in Seq(ALine) /\ ALine \subseteq Text /\ y + 1 = cur_y
    BY <1>2, LinesAreTexts DEF EditorTypes
  <2> QED
    BY <2>1, LineBreak DEF CurA
<1>5. Offset = Pos(lines, 0, cur_y)
  BY <1>2, CursorPos
<1>6. SubSeq(t, 1, Pos(lines, Len(p), y)) = Cat(Above(C), p) /\ Pos(lines, Len(p), y) = Len(Above(C)) + Len(p)
  <2>1. lines \in Seq(Text) /\ Len(p) \in 0..Len(lines[y + 1])
    BY <1>4, LinesAreTexts DEF EditorTypes
  <2> DEFINE x == Len(p)
  <2> HIDE DEF y, x
  <2>2. TextAt(lines, x, y)
    BY <1>4, <2>1, Around DEF x
  <2>3. lines[y + 1] = p
    BY <1>4
  <2>4. SubSeq(p, 1, x) = p
    BY <1>4, LinesAreTexts DEF x
  <2> QED
    BY <2>2, <2>3, <2>4 DEF TextAt, x
<1> HIDE DEF A, B, l, y, C, p
<1>7. Len(p) \in Nat /\ Len(l) \in Nat /\ p \in Text /\ l \in Text
  BY <1>1, <1>4, LinesAreTexts
<1>8. k \in ALine /\ Len(p) \in 0..Len(k) /\ k = Cat(p, l)
  <2>0. MaxCols \in Nat /\ p \in Seq(Chars) /\ l \in Seq(Chars)
    BY <1>1, <1>4, LinesAreTexts, EditorAssumption DEF EditorAssumption
  <2>1. k \in Seq(Chars) /\ Len(k) = Len(p) + Len(l)
    BY <2>0, ConcatProperties
  <2> HIDE DEF k
  <2>2. k = Cat(p, l)
    BY DEF k, Cat
  <2>3. Len(p) + Len(l) < MaxCols /\ Len(p) \in 0..(Len(p) + Len(l))
    BY <1>2, <1>7, <2>0
  <2> QED
    BY <2>1, <2>2, <2>3 DEF ALine
<1> HIDE DEF k
<1>9. BecomesState(C, k, B, Len(p))
  <2> DEFINE x == Len(p)
  <2>1. (Len(C) + 1) + Len(B) <= MaxLines
    <3>1. MaxLines \in Nat /\ Len(B) \in Nat /\ Len(lines) <= MaxLines /\ y \in Nat
      BY <1>1, <1>4, EditorAssumption DEF EditorAssumption, EditorTypes
    <3> QED
      BY <1>1, <1>4, <3>1
  <2>2. lines' = Put(C, k, B) /\ MoveTo(x, Len(C)) /\ is_dirty' \in BOOLEAN /\ x \in 0..Len(k)
    BY <1>2, <1>3, <1>4, <1>8 DEF Put
  <2> HIDE DEF x
  <2>3. BecomesState(C, k, B, x)
    BY <1>1, <1>2, <1>4, <1>8, <2>1, <2>2, AfterKey
  <2> QED
    BY <2>3 DEF x
<1>10. Above(C) \in Text /\ Below(B) \in Text
  BY <1>1, <1>4, LinesAreTexts, AboveBelow
<1>11. TextOf(lines') = Cat(Cat(Above(C), p), Cat(l, Below(B)))
  BY <1>7, <1>8, <1>9, <1>10, RegroupFive DEF BecomesState
<1>12. Offset' = Offset - 1 /\ Offset > 0 /\ Offset - 1 = Pos(lines, Len(p), y)
  <2>1. Offset' = Len(Above(C)) + Len(p)
    BY <1>9 DEF BecomesState
  <2> QED
    BY <1>4, <1>5, <1>6, <2>1
<1>13. SubSeq(t, Offset + 1, Len(t)) = Cat(l, Below(B))
  <2>1. SubSeq(l, 0 + 1, Len(l)) = l
    BY <1>1, <1>7, LinesAreTexts
  <2> QED
    BY <1>1, <1>2, <2>1 DEF StateIs
<1> QED
  BY <1>2, <1>6, <1>9, <1>11, <1>12, <1>13 DEF Deletes, BecomesState

-----------------------------------------------------------------------------
(* Loading a file.                                                         *)

\* The lines while a file is loaded.
Loaded == {ls \in Seq(ALine) : Len(ls) \in 1..(MaxLines + 1)}

\* One byte more.
LEMMA LoadByteIs ==
  ASSUME NEW ls \in Loaded, NEW ch \in Bytes
  PROVE  /\ LoadByte(ls, ch) \in Loaded
         /\ Len(LoadByte(ls, ch)) <= Len(ls) + 1
         /\ ch # NL => Len(LoadByte(ls, ch)) = Len(ls)
<1> DEFINE n == Len(ls)
           last == ls[n]
           more == Append(last, ch)
           upd == [ls EXCEPT ![n] = more]
<1>1. /\ ls \in Seq(ALine) /\ n \in Nat /\ n \in 1..(MaxLines + 1) /\ last \in ALine
      /\ MaxLines \in Nat /\ MaxCols \in Nat
  BY EditorAssumption DEF EditorAssumption, Loaded
<1>2. last \in Seq(Chars) /\ Len(last) \in Nat
  BY <1>1, LinesAreTexts
<1>3. <<>> \in ALine
  <2>1. MaxCols > 0
    BY EditorAssumption DEF EditorAssumption
  <2> QED
    BY <2>1 DEF ALine
<1>4. CASE n > MaxLines \/ ch = CR
  BY <1>1, <1>4 DEF LoadByte
<1>5. CASE ~(n > MaxLines \/ ch = CR) /\ ch = NL
  <2>1. LoadByte(ls, ch) = Append(ls, <<>>)
    BY <1>5 DEF LoadByte
  <2>2. Append(ls, <<>>) \in Seq(ALine) /\ Len(Append(ls, <<>>)) = n + 1
    BY <1>1, <1>3, AppendProperties
  <2>3. n + 1 \in 1..(MaxLines + 1)
    BY <1>1, <1>5
  <2> QED
    BY <1>1, <1>5, <2>1, <2>2, <2>3 DEF Loaded
<1>6. CASE ~(n > MaxLines \/ ch = CR) /\ ch # NL
  <2>1. CASE Len(last) < MaxCols - 1
    <3>1. LoadByte(ls, ch) = upd
      BY <1>6, <2>1 DEF LoadByte
    <3>2. ch \in Chars
      BY <1>6 DEF Bytes
    <3>3. more \in ALine
      <4>1. more \in Seq(Chars) /\ Len(more) = Len(last) + 1
        BY <1>2, <3>2, AppendProperties
      <4>2. Len(last) + 1 < MaxCols
        BY <1>1, <1>2, <2>1
      <4> HIDE DEF more
      <4> QED
        BY <4>1, <4>2 DEF ALine
    <3> HIDE DEF more
    <3>4. upd \in Seq(ALine) /\ Len(upd) = n
      BY <1>1, <3>3
    <3> HIDE DEF upd
    <3> QED
      BY <1>1, <3>1, <3>4 DEF Loaded
  <2>2. CASE ~(Len(last) < MaxCols - 1)
    <3>1. LoadByte(ls, ch) = ls
      BY <1>6, <2>2 DEF LoadByte
    <3> QED
      BY <1>1, <3>1
  <2> QED
    BY <2>1, <2>2
<1> QED
  BY <1>4, <1>5, <1>6

\* f are the lines after each byte of the text that is loaded.
Loads(f, text, n) ==
  /\ n = AtMost(Len(text), ReadLimit) /\ n \in 0..Len(text)
  /\ f \in [0..n -> Loaded] /\ f[n] = Parse(text) /\ f[0] = <<<<>>>>
  /\ \A k \in 1..n : text[k] \in Bytes /\ f[k] = LoadByte(f[k - 1], text[k])

\* Parse, byte by byte.
LEMMA ParseSteps ==
  ASSUME NEW text \in Text
  PROVE  \E f : Loads(f, text, AtMost(Len(text), ReadLimit))
<1> DEFINE n == AtMost(Len(text), ReadLimit)
           zero == <<<<>>>>
           step == [p \in Loaded \X (1..n) |-> LoadByte(p[1], text[p[2]])]
           Def(g) == [k \in 0..n |-> IF k = 0 THEN <<<<>>>> ELSE LoadByte(g[k - 1], text[k])]
<1>1. n \in Nat /\ n \in 0..Len(text) /\ \A k \in 1..n : text[k] \in Bytes
  <2>1. Len(text) \in Nat /\ ReadLimit \in Nat
    BY EditorAssumption DEF EditorAssumption, Text
  <2>2. n \in Nat /\ n \in 0..Len(text)
    BY <2>1 DEF AtMost
  <2> HIDE DEF n
  <2> QED
    BY <2>2 DEF Text
<1>2. zero \in Loaded
  <2>1. MaxCols > 0 /\ MaxLines \in Nat
    BY EditorAssumption DEF EditorAssumption
  <2>2. <<>> \in ALine
    BY <2>1 DEF ALine
  <2> QED
    BY <2>1, <2>2 DEF Loaded
<1> HIDE DEF n
<1>3. \A ls \in Loaded, k \in 1..n : LoadByte(ls, text[k]) \in Loaded
  BY <1>1, LoadByteIs
<1>4. step \in [Loaded \X (1..n) -> Loaded]
  BY <1>3
<1>5. PICK f : IsRun(f, n, Loaded, zero, step)
  <2> HIDE DEF step, zero
  <2> QED
    BY <1>1, <1>2, <1>4, LoopRuns
<1>6. \A k \in 1..n : f[k] = LoadByte(f[k - 1], text[k])
  <2>1. \A k \in 1..n : f[k - 1] \in Loaded
    BY <1>5, <1>1 DEF IsRun
  <2> QED
    BY <1>5, <2>1 DEF IsRun
<1>7. f = Def(f)
  <2>1. \A k \in 0..n : k # 0 => k \in 1..n
    BY <1>1
  <2>2. \A k \in 0..n : f[k] = Def(f)[k]
    BY <1>5, <1>6, <2>1 DEF IsRun
  <2>3. DOMAIN f = 0..n /\ DOMAIN Def(f) = 0..n
    BY <1>5 DEF IsRun
  <2> QED
    BY <1>5, <2>2, <2>3 DEF IsRun
<1> DEFINE g == CHOOSE h : h = Def(h)
<1>8. g = Def(g)
  BY <1>7
<1>9. g[n] = Parse(text)
  BY DEF Parse, n
<1> HIDE DEF g
<1>10. /\ g[0] = zero
       /\ \A k \in 1..n : g[k] = LoadByte(g[k - 1], text[k])
  <2>1. \A k \in 0..n : g[k] = Def(g)[k]
    BY <1>8
  <2>2. 0 \in 0..n /\ \A k \in 1..n : k \in 0..n /\ k # 0
    BY <1>1
  <2> QED
    BY <2>1, <2>2
<1>11. g \in [0..n -> Loaded]
  <2> HIDE DEF zero
  <2>1. \A k \in 0..n : g[k] \in Loaded
    BY <1>1, <1>2, <1>3, <1>10, LoopStates
  <2>2. DOMAIN g = 0..n /\ g = [k \in DOMAIN g |-> g[k]]
    BY <1>8
  <2> QED
    BY <2>1, <2>2
<1>12. Loads(g, text, n)
  BY <1>1, <1>9, <1>10, <1>11 DEF Loads, n
<1> QED
  BY <1>12 DEF n

\* The byte at a position of a text, and whether the text ends there.
NextByte(ls, x, y) ==
  /\ Pos(ls, x, y) \in Nat
  /\ x < Len(ls[y + 1]) => /\ Pos(ls, x, y) + 1 \in 1..Len(TextOf(ls))
                           /\ TextOf(ls)[Pos(ls, x, y) + 1] = ls[y + 1][x + 1]
                           /\ Pos(ls, x + 1, y) = Pos(ls, x, y) + 1
  /\ x = Len(ls[y + 1]) /\ y + 1 < Len(ls) =>
       /\ Pos(ls, x, y) + 1 \in 1..Len(TextOf(ls))
       /\ TextOf(ls)[Pos(ls, x, y) + 1] = NL
       /\ Pos(ls, 0, y + 1) = Pos(ls, x, y) + 1
  /\ x = Len(ls[y + 1]) /\ y + 1 = Len(ls) => Pos(ls, x, y) = Len(TextOf(ls))

LEMMA ByteAt ==
  ASSUME NEW ls \in Seq(Text), NEW y \in 0..(Len(ls) - 1), NEW x \in 0..Len(ls[y + 1])
  PROVE  NextByte(ls, x, y)
<1> DEFINE A == Before(ls, y)
           B == After(ls, y)
           l == ls[y + 1]
           t == TextOf(ls)
           n == Pos(ls, x, y)
           p == Above(A)
           q == Below(B)
<1>1. /\ A \in Seq(Text) /\ B \in Seq(Text) /\ l \in Text /\ Len(B) = (Len(ls) - y) - 1
  BY TakeApart
<1>2. t = Cat(p, Cat(l, q)) /\ n = Len(p) + x /\ p \in Text /\ q \in Text /\ t \in Text
  <2>1. TextAt(ls, x, y)
    BY Around
  <2> QED
    BY <2>1 DEF TextAt
<1>3. x \in 0..Len(l) /\ Len(l) \in Nat /\ Len(p) \in Nat /\ Len(q) \in Nat /\ Len(ls) \in Nat /\ y \in Nat
  <2>1. Len(l) \in Nat /\ Len(p) \in Nat /\ Len(q) \in Nat
    BY <1>1, <1>2, Glue, Zenon
  <2> QED
    BY <2>1
<1>4. Pos(ls, x + 1, y) = Len(p) + (x + 1)
  BY DEF Pos, Before
<1> HIDE DEF A, l, t, n, p
<1>5. CutAt(t, n, p, l, q, x)
  <2> HIDE DEF q
  <2>1. CutAt(Cat(p, Cat(l, q)), Len(p) + x, p, l, q, x)
    BY <1>1, <1>2, <1>3, CutText
  <2> QED
    BY <1>2, <2>1
<1>6. y + 1 < Len(ls) => q # <<>> /\ q[1] = NL /\ Len(q) > 0
  <2> SUFFICES ASSUME y + 1 < Len(ls) PROVE q # <<>> /\ q[1] = NL /\ Len(q) > 0
    OBVIOUS
  <2> HIDE DEF B
  <2>1. B # <<>>
    BY <1>1, <1>3
  <2>2. q = <<NL>> \o TextOf(B) /\ TextOf(B) \in Text
    BY <1>1, <2>1, AboveBelow DEF Below, Cat, LineFeed
  <2> HIDE DEF q
  <2> QED
    BY <2>2 DEF Text, Bytes
<1>7. y + 1 = Len(ls) => Len(q) = 0
  <2> SUFFICES ASSUME y + 1 = Len(ls) PROVE Len(q) = 0
    OBVIOUS
  <2> HIDE DEF B
  <2>1. Len(B) = 0
    BY <1>1, <1>3
  <2>2. B = <<>>
    BY <1>1, <2>1
  <2> QED
    BY <2>2, Glue DEF Below
<1> HIDE DEF q, B
<1>8. Len(t) = (Len(p) + Len(l)) + Len(q) /\ n \in 0..Len(t)
      /\ (x < Len(l) => t[n + 1] = l[x + 1]) /\ (x = Len(l) /\ q # <<>> => t[n + 1] = q[1])
  BY <1>5 DEF CutAt
<1>9. n \in Nat /\ (x < Len(l) => n + 1 \in 1..Len(t) /\ t[n + 1] = l[x + 1] /\ Pos(ls, x + 1, y) = n + 1)
  BY <1>2, <1>3, <1>4, <1>8
<1>10. x = Len(l) /\ y + 1 < Len(ls) =>
         n + 1 \in 1..Len(t) /\ t[n + 1] = NL /\ Pos(ls, 0, y + 1) = n + 1
  <2> SUFFICES ASSUME x = Len(l), y + 1 < Len(ls)
               PROVE  n + 1 \in 1..Len(t) /\ t[n + 1] = NL /\ Pos(ls, 0, y + 1) = n + 1
    OBVIOUS
  <2>1. n + 1 \in 1..Len(t) /\ t[n + 1] = NL
    BY <1>2, <1>3, <1>6, <1>8
  <2> DEFINE z == y + 1
  <2>2. z \in 1..(Len(ls) - 1) /\ z - 1 = y
    BY <1>3
  <2>3. Pos(ls, 0, z) = Pos(ls, Len(ls[z]), z - 1) + 1
    <3> HIDE DEF z
    <3> QED
      BY <2>2, LineBreak
  <2> QED
    BY <2>1, <2>2, <2>3 DEF n, l
<1>11. x = Len(l) /\ y + 1 = Len(ls) => n = Len(t)
  BY <1>2, <1>3, <1>7, <1>8
<1> QED
  BY <1>9, <1>10, <1>11 DEF NextByte, n, t, l

\* What is kept from every byte of a text to the next one holds everywhere.
LEMMA WalkText ==
  ASSUME NEW ls \in Seq(Text), Len(ls) > 0, NEW W, <<0, 0, 0>> \in W,
         \A y \in 0..(Len(ls) - 1) : \A x \in 0..Len(ls[y + 1]) :
           <<Pos(ls, x, y), x, y>> \in W =>
             /\ x < Len(ls[y + 1]) => <<Pos(ls, x, y) + 1, x + 1, y>> \in W
             /\ x = Len(ls[y + 1]) /\ y + 1 < Len(ls) => <<Pos(ls, x, y) + 1, 0, y + 1>> \in W
  PROVE  \A k \in 0..Len(TextOf(ls)) :
           \E y \in 0..(Len(ls) - 1) : \E x \in 0..Len(ls[y + 1]) :
             k = Pos(ls, x, y) /\ <<k, x, y>> \in W
<1> DEFINE At(k) == \E y \in 0..(Len(ls) - 1) : \E x \in 0..Len(ls[y + 1]) :
                      k = Pos(ls, x, y) /\ <<k, x, y>> \in W
           N == Len(TextOf(ls))
           S == {k \in Nat : k <= N => At(k)}
<1>0. Len(ls) \in Nat /\ \A k \in 1..Len(ls) : Len(ls[k]) \in Nat
  BY DEF Text
<1>1. 0 \in S
  <2>1. 0 \in 0..(Len(ls) - 1) /\ 0 \in 0..Len(ls[0 + 1])
    BY <1>0
  <2>2. Pos(ls, 0, 0) = 0
    <3>1. SubSeq(ls, 1, 0) = <<>>
      OBVIOUS
    <3> QED
      BY <3>1, Glue DEF Pos, Above
  <2>3. At(0)
    BY <2>1, <2>2
  <2> QED
    BY <2>3
<1>2. ASSUME NEW k \in Nat, k \in S PROVE k + 1 \in S
  <2> HIDE DEF At, N
  <2> SUFFICES ASSUME k + 1 <= N PROVE At(k + 1)
    OBVIOUS
  <2> USE DEF At, N
  <2>0. N \in Nat
    <3>1. TextOf(ls) \in Text
      BY TextAppend, Glue
    <3> QED
      BY <3>1, Glue
  <2>1. PICK y \in 0..(Len(ls) - 1) : \E x \in 0..Len(ls[y + 1]) :
          k = Pos(ls, x, y) /\ <<k, x, y>> \in W
    <3> HIDE DEF At, N
    <3>1. At(k)
      BY <1>2, <2>0
    <3> QED
      BY <3>1 DEF At
  <2>2. PICK x \in 0..Len(ls[y + 1]) : k = Pos(ls, x, y) /\ <<k, x, y>> \in W
    BY <2>1
  <2>3. NextByte(ls, x, y)
    BY ByteAt
  <2>4. y + 1 \in 1..Len(ls) /\ Len(ls[y + 1]) \in Nat /\ y \in Nat
    BY <1>0
  <2>5. CASE x < Len(ls[y + 1])
    <3>1. x + 1 \in 0..Len(ls[y + 1])
      BY <2>4, <2>5
    <3>2. k + 1 = Pos(ls, x + 1, y) /\ <<k + 1, x + 1, y>> \in W
      BY <2>2, <2>3, <2>5 DEF NextByte
    <3> QED
      BY <3>1, <3>2
  <2>6. CASE x = Len(ls[y + 1]) /\ y + 1 < Len(ls)
    <3>1. y + 1 \in 0..(Len(ls) - 1) /\ 0 \in 0..Len(ls[(y + 1) + 1])
      <4>1. (y + 1) + 1 \in 1..Len(ls)
        BY <1>0, <2>4, <2>6
      <4>2. Len(ls[(y + 1) + 1]) \in Nat
        BY <1>0, <4>1
      <4> QED
        BY <1>0, <2>4, <2>6, <4>2
    <3>2. k + 1 = Pos(ls, 0, y + 1) /\ <<k + 1, 0, y + 1>> \in W
      BY <2>2, <2>3, <2>6 DEF NextByte
    <3> QED
      BY <3>1, <3>2
  <2>7. CASE x = Len(ls[y + 1]) /\ y + 1 = Len(ls)
    <3>1. k = N
      BY <2>2, <2>3, <2>7 DEF NextByte
    <3> QED
      BY <2>0, <3>1
  <2>8. x < Len(ls[y + 1]) \/ x = Len(ls[y + 1])
    BY <2>4
  <2>9. y + 1 < Len(ls) \/ y + 1 = Len(ls)
    BY <1>0, <2>4
  <2> HIDE DEF At
  <2> QED
    BY <2>5, <2>6, <2>7, <2>8, <2>9
<1> HIDE DEF S, At
<1>3. \A k \in Nat : k \in S
  BY <1>1, <1>2, Induction
<1>4. \A k \in 0..N : At(k)
  <2>1. N \in Nat
    <3>1. TextOf(ls) \in Text
      BY TextAppend, Glue
    <3> QED
      BY <3>1, Glue
  <2> HIDE DEF N
  <2> QED
    BY <1>3, <2>1 DEF S
<1> QED
  BY <1>4 DEF At

\* One character appended to the last line, or a new line.
LEMMA LoadByteAtEnd ==
  ASSUME NEW A \in Seq(ALine), NEW a \in ALine, Len(A) < MaxLines, NEW ch
  PROVE  /\ ch \in Chars /\ Len(a) < MaxCols - 1 =>
              LoadByte(Append(A, a), ch) = Append(A, Append(a, ch))
         /\ LoadByte(Append(A, a), NL) = Append(Append(A, a), <<>>)
<1> DEFINE ls == Append(A, a)
           n == Len(A) + 1
<1>1. /\ ls \in Seq(ALine) /\ Len(ls) = n /\ ls[n] = a /\ n \in Nat /\ MaxLines \in Nat /\ n <= MaxLines
      /\ \A i \in 1..Len(A) : ls[i] = A[i]
  BY EditorAssumption, AppendProperties DEF EditorAssumption
<1>2. NL # CR /\ NL \notin Chars /\ CR \notin Chars
  BY EditorAssumption DEF EditorAssumption
<1> HIDE DEF ls, n
<1>3. LoadByte(ls, NL) = Append(ls, <<>>)
  BY <1>1, <1>2 DEF LoadByte
<1>4. ASSUME ch \in Chars, Len(a) < MaxCols - 1 PROVE LoadByte(ls, ch) = Append(A, Append(a, ch))
  <2> DEFINE m == Append(a, ch)
             u == [ls EXCEPT ![n] = m]
             v == Append(A, m)
  <2>1. LoadByte(ls, ch) = u
    BY <1>1, <1>2, <1>4 DEF LoadByte
  <2>2. m \in Seq(Chars)
    BY <1>4, LinesAreTexts, AppendProperties
  <2> HIDE DEF m
  <2>3. A \in Seq(Seq(Chars)) /\ ls \in Seq(Seq(Chars))
    <3>1. ALine \subseteq Seq(Chars)
      BY DEF ALine
    <3> QED
      BY <1>1, <3>1, SeqMonotonic
  <2>4. u \in Seq(Seq(Chars)) /\ Len(u) = n /\ u[n] = m /\ \A i \in 1..Len(A) : u[i] = A[i]
    <3>1. n \in 1..n /\ \A i \in 1..Len(A) : i # n /\ i \in 1..n
      BY <1>1 DEF n
    <3> QED
      BY <1>1, <2>2, <2>3, <3>1
  <2>5. v \in Seq(Seq(Chars)) /\ Len(v) = n /\ v[n] = m /\ \A i \in 1..Len(A) : v[i] = A[i]
    BY <2>2, <2>3, AppendProperties DEF n
  <2> HIDE DEF u, v
  <2>6. \A i \in 1..n : i = n \/ i \in 1..Len(A)
    BY <1>1 DEF n
  <2>7. u = v
    BY <2>4, <2>5, <2>6, SeqEqual
  <2> QED
    BY <2>1, <2>7 DEF v, m
<1> QED
  BY <1>3, <1>4 DEF ls

\* One more element of a sequence.
LEMMA OneMore ==
  ASSUME NEW T, NEW l \in Seq(T), NEW x \in Nat, x < Len(l)
  PROVE  Append(SubSeq(l, 1, x), l[x + 1]) = SubSeq(l, 1, x + 1) /\ l[x + 1] \in T
<1> DEFINE b == SubSeq(l, 1, x + 1)
           c == SubSeq(l, 1, x)
<1>1. b \in Seq(T) /\ Len(b) = x + 1 /\ \A i \in 1..(x + 1) : b[i] = l[i]
  OBVIOUS
<1>2. c \in Seq(T) /\ Len(c) = x /\ l[x + 1] \in T /\ \A i \in 1..x : c[i] = l[i]
  OBVIOUS
<1> HIDE DEF b, c
<1>3. Append(c, l[x + 1]) \in Seq(T) /\ Len(Append(c, l[x + 1])) = x + 1
      /\ \A i \in 1..(x + 1) : Append(c, l[x + 1])[i] = b[i]
  BY <1>1, <1>2
<1>4. b = Append(c, l[x + 1])
  BY <1>1, <1>3, SeqEqual
<1> QED
  BY <1>2, <1>4 DEF b, c

\* The lines of a text within the limits come back as they were.
LEMMA ReadBack ==
  ASSUME NEW ls \in Seq(ALine), Len(ls) \in 1..MaxLines, Len(TextOf(ls)) <= ReadLimit
  PROVE  Parse(TextOf(ls)) = ls
<1> DEFINE t == TextOf(ls)
           n == Len(t)
           N == Len(ls)
           Cut(x, y) == Append(Before(ls, y), SubSeq(ls[y + 1], 1, x))
<1>1. ls \in Seq(Text) /\ t \in Text /\ n \in Nat /\ N \in Nat /\ MaxLines \in Nat /\ MaxCols \in Nat
  <2>1. ls \in Seq(Text)
    BY LinesAreTexts
  <2>2. t \in Text
    BY <2>1, TextAppend, Glue
  <2> HIDE DEF t
  <2> QED
    BY <2>1, <2>2, Glue, EditorAssumption DEF EditorAssumption
<1>2. \A y \in 0..(N - 1) : /\ y \in Nat /\ ls[y + 1] \in ALine /\ Len(ls[y + 1]) \in Nat
                            /\ Before(ls, y) \in Seq(ALine) /\ Len(Before(ls, y)) = y
  BY TakeApart, LinesAreTexts
<1>3. PICK f : Loads(f, t, AtMost(n, ReadLimit))
  <2> HIDE DEF t
  <2> QED
    BY <1>1, ParseSteps
<1>4. AtMost(n, ReadLimit) = n
  BY <1>1, EditorAssumption DEF EditorAssumption, AtMost
<1> HIDE DEF t, n
<1>5. /\ f[n] = Parse(t) /\ f[0] = <<<<>>>>
      /\ \A k \in 1..n : f[k] = LoadByte(f[k - 1], t[k])
  BY <1>3, <1>4 DEF Loads, n
<1> DEFINE W == {w \in Nat \X Nat \X Nat : f[w[1]] = Cut(w[2], w[3])}
<1> HIDE DEF Cut
<1>6. \A k, x, y \in Nat : <<k, x, y>> \in W <=> f[k] = Cut(x, y)
  OBVIOUS
<1> HIDE DEF W
<1>7. <<0, 0, 0>> \in W
  <2>1. Before(ls, 0) = <<>> /\ SubSeq(ls[0 + 1], 1, 0) = <<>>
    <3>1. ls[0 + 1] \in Seq(Chars)
      BY <1>2, LinesAreTexts
    <3> QED
      BY <3>1 DEF Before
  <2>2. Append(<<>>, <<>>) = <<<<>>>>
    OBVIOUS
  <2> QED
    BY <1>5, <1>6, <2>1, <2>2 DEF Cut
<1>8. ASSUME NEW y \in 0..(N - 1), NEW x \in 0..Len(ls[y + 1]), <<Pos(ls, x, y), x, y>> \in W
      PROVE  /\ x < Len(ls[y + 1]) => <<Pos(ls, x, y) + 1, x + 1, y>> \in W
             /\ x = Len(ls[y + 1]) /\ y + 1 < N => <<Pos(ls, x, y) + 1, 0, y + 1>> \in W
  <2> DEFINE k == Pos(ls, x, y)
             A == Before(ls, y)
             l == ls[y + 1]
             a == SubSeq(l, 1, x)
  <2>1. /\ y \in Nat /\ l \in ALine /\ Len(l) \in Nat /\ x \in Nat
        /\ A \in Seq(ALine) /\ Len(A) = y /\ y < MaxLines
    BY <1>1, <1>2
  <2>2. NextByte(ls, x, y)
    BY <1>1, ByteAt
  <2>3. k \in Nat
    BY <2>2 DEF NextByte
  <2>4. f[k] = Append(A, a)
    <3>1. f[k] = Cut(x, y)
      BY <1>6, <1>8, <2>1, <2>3
    <3> QED
      BY <3>1 DEF Cut
  <2>5. a \in ALine /\ Len(a) = x
    BY <2>1, LineParts
  <2>6. ASSUME x < Len(l) PROVE <<k + 1, x + 1, y>> \in W
    <3>1. k + 1 \in 1..n /\ t[k + 1] = l[x + 1]
      BY <2>2, <2>6 DEF NextByte, n, t
    <3> HIDE DEF A, l, a, k
    <3>2. f[k + 1] = LoadByte(Append(A, a), l[x + 1])
      <4>1. (k + 1) - 1 = k
        BY <2>3
      <4>2. f[k + 1] = LoadByte(f[(k + 1) - 1], t[k + 1])
        BY <1>5, <3>1
      <4> QED
        BY <2>4, <3>1, <4>1, <4>2
    <3>3. l[x + 1] \in Chars /\ Append(a, l[x + 1]) = SubSeq(l, 1, x + 1)
      BY <2>1, <2>6, LinesAreTexts, OneMore DEF a
    <3>4. Len(a) < MaxCols - 1
      <4>1. Len(l) < MaxCols
        BY <2>1, LinesAreTexts
      <4> QED
        BY <1>1, <2>1, <2>5, <2>6, <4>1
    <3>5. LoadByte(Append(A, a), l[x + 1]) = Append(A, Append(a, l[x + 1]))
      BY <2>1, <2>5, <3>3, <3>4, LoadByteAtEnd
    <3>6. f[k + 1] = Cut(x + 1, y)
      BY <3>2, <3>3, <3>5 DEF Cut, A, l
    <3> QED
      BY <1>6, <2>1, <2>3, <3>6
  <2>7. ASSUME x = Len(l), y + 1 < N PROVE <<k + 1, 0, y + 1>> \in W
    <3>1. k + 1 \in 1..n /\ t[k + 1] = NL
      BY <2>2, <2>7 DEF NextByte, n, t
    <3>2. Before(ls, y + 1) = Append(A, l)
      <4> DEFINE z == y + 1
      <4>1. z \in 1..(Len(ls) - 1) /\ z - 1 = y
        BY <1>1, <2>1, <2>7
      <4>2. Before(ls, z) = Append(Before(ls, z - 1), ls[z])
        <5> HIDE DEF z
        <5> QED
          BY <1>1, <4>1, LineBreak
      <4> QED
        BY <4>1, <4>2
    <3>3. SubSeq(ls[(y + 1) + 1], 1, 0) = <<>>
      <4>1. y + 1 \in 0..(N - 1)
        BY <1>1, <2>1, <2>7
      <4>2. ls[(y + 1) + 1] \in Seq(Chars)
        BY <1>2, <4>1, LinesAreTexts
      <4> QED
        BY <4>2
    <3>4. a = l
      BY <2>1, <2>7, LinesAreTexts
    <3> HIDE DEF A, l, a, k
    <3>5. f[k + 1] = LoadByte(Append(A, l), NL)
      <4>1. (k + 1) - 1 = k
        BY <2>3
      <4>2. f[k + 1] = LoadByte(f[(k + 1) - 1], t[k + 1])
        BY <1>5, <3>1
      <4> QED
        BY <2>4, <3>1, <3>4, <4>1, <4>2
    <3>6. LoadByte(Append(A, l), NL) = Append(Append(A, l), <<>>)
      BY <2>1, LoadByteAtEnd
    <3>7. f[k + 1] = Cut(0, y + 1)
      BY <3>2, <3>3, <3>5, <3>6 DEF Cut
    <3> QED
      BY <1>6, <2>1, <2>3, <3>7
  <2> QED
    BY <2>6, <2>7
<1>9. PICK y \in 0..(N - 1) : \E x \in 0..Len(ls[y + 1]) :
        n = Pos(ls, x, y) /\ <<n, x, y>> \in W
  <2>1. \A k \in 0..Len(TextOf(ls)) :
           \E y \in 0..(Len(ls) - 1) : \E x \in 0..Len(ls[y + 1]) :
             k = Pos(ls, x, y) /\ <<k, x, y>> \in W
    <3>1. Len(ls) > 0 /\ ls \in Seq(Text)
      BY <1>1
    <3>2. \A y \in 0..(Len(ls) - 1) : \A x \in 0..Len(ls[y + 1]) :
            <<Pos(ls, x, y), x, y>> \in W =>
              /\ x < Len(ls[y + 1]) => <<Pos(ls, x, y) + 1, x + 1, y>> \in W
              /\ x = Len(ls[y + 1]) /\ y + 1 < Len(ls) => <<Pos(ls, x, y) + 1, 0, y + 1>> \in W
      BY <1>8, Zenon
    <3> QED
      BY <1>7, <3>1, <3>2, WalkText
  <2>2. n \in 0..Len(TextOf(ls))
    BY <1>1 DEF n, t
  <2> QED
    BY <2>1, <2>2
<1>10. PICK x \in 0..Len(ls[y + 1]) : n = Pos(ls, x, y) /\ <<n, x, y>> \in W
  BY <1>9
<1>11. y \in Nat /\ x \in Nat /\ Len(ls[y + 1]) \in Nat /\ ls[y + 1] \in ALine
  BY <1>2
<1>12. x = Len(ls[y + 1]) /\ y + 1 = N
  <2>1. NextByte(ls, x, y)
    BY <1>1, ByteAt
  <2>2. ~(n + 1 \in 1..n)
    BY <1>1
  <2>3. ~(x < Len(ls[y + 1])) /\ ~(x = Len(ls[y + 1]) /\ y + 1 < N)
    BY <1>10, <2>1, <2>2 DEF NextByte, n, t
  <2> QED
    BY <1>1, <1>11, <2>3
<1>13. f[n] = Append(Before(ls, y), ls[y + 1])
  <2>1. f[n] = Cut(x, y)
    BY <1>1, <1>6, <1>10, <1>11
  <2>2. SubSeq(ls[y + 1], 1, x) = ls[y + 1]
    BY <1>11, <1>12, LinesAreTexts
  <2> QED
    BY <2>1, <2>2 DEF Cut
<1>14. ls = Append(SubSeq(ls, 1, y), ls[y + 1])
  BY <1>11, <1>12, LastLine
<1> QED
  BY <1>5, <1>13, <1>14 DEF t, Before

\* Texts of no more lines than the editor has.
ShortText(text) ==
  \E ls \in Seq(Seq(Chars \cup {CR})) : Len(ls) \in 1..MaxLines /\ text = TextOf(ls)

\* Such a text fits the arrays, its lines cut where they are too long.
LEMMA ShortTextLoads ==
  ASSUME NEW text, ShortText(text)
  PROVE  text \in Text /\ Parse(text) \in Seq(ALine) /\ Len(Parse(text)) \in 1..MaxLines
<1> DEFINE T == Seq(Chars \cup {CR})
<1>1. PICK ls \in Seq(T) : Len(ls) \in 1..MaxLines /\ text = TextOf(ls)
  BY DEF ShortText
<1> DEFINE n == AtMost(Len(text), ReadLimit)
           N == Len(ls)
<1>2. ls \in Seq(Text) /\ T \subseteq Text /\ N \in Nat /\ MaxLines \in Nat
  <2>1. T \subseteq Text
    <3>1. Chars \cup {CR} \subseteq Bytes
      BY DEF Bytes
    <3> QED
      BY <3>1, SeqMonotonic DEF Text
  <2> HIDE DEF T
  <2> QED
    BY <1>1, <2>1, SeqMonotonic, EditorAssumption DEF EditorAssumption
<1> HIDE DEF T
<1>3. text \in Text
  BY <1>1, <1>2, TextAppend, Glue
<1>4. PICK f : Loads(f, text, n)
  BY <1>3, ParseSteps
<1> HIDE DEF n
<1>5. /\ n \in 0..Len(text) /\ f \in [0..n -> Loaded] /\ f[n] = Parse(text) /\ f[0] = <<<<>>>>
      /\ \A k \in 1..n : text[k] \in Bytes /\ f[k] = LoadByte(f[k - 1], text[k])
      /\ Len(text) \in Nat /\ n \in Nat
  <2>1. Len(text) \in Nat
    BY <1>3, Glue
  <2> QED
    BY <1>4, <2>1 DEF Loads
<1> DEFINE W == {w \in Nat \X Nat \X Nat : w[1] <= n => Len(f[w[1]]) <= w[3] + 1}
<1>6. \A k, x, y \in Nat : <<k, x, y>> \in W <=> (k <= n => Len(f[k]) <= y + 1)
  OBVIOUS
<1> HIDE DEF W
<1>7. <<0, 0, 0>> \in W
  <2>1. Len(f[0]) = 1
    BY <1>5
  <2>2. 0 \in Nat /\ (0 <= n => Len(f[0]) <= 0 + 1)
    BY <2>1
  <2> QED
    BY <1>6, <2>2, Zenon
<1>8. ASSUME NEW y \in 0..(N - 1), NEW x \in 0..Len(ls[y + 1]), <<Pos(ls, x, y), x, y>> \in W
      PROVE  /\ x < Len(ls[y + 1]) => <<Pos(ls, x, y) + 1, x + 1, y>> \in W
             /\ x = Len(ls[y + 1]) /\ y + 1 < N => <<Pos(ls, x, y) + 1, 0, y + 1>> \in W
  <2> DEFINE k == Pos(ls, x, y)
  <2>1. y \in Nat /\ x \in Nat /\ Len(ls[y + 1]) \in Nat /\ ls[y + 1] \in T /\ y + 1 \in Nat /\ x + 1 \in Nat
    <3>1. ls[y + 1] \in T
      BY <1>2
    <3>2. Len(ls[y + 1]) \in Nat
      BY <3>1 DEF T
    <3> QED
      BY <1>2, <3>1, <3>2
  <2>2. NextByte(ls, x, y)
    BY <1>2, ByteAt
  <2>3. k \in Nat
    BY <2>2 DEF NextByte
  <2> HIDE DEF k
  <2>4. k <= n => Len(f[k]) <= y + 1
    BY <1>6, <1>8, <2>1, <2>3 DEF k
  <2>5. k + 1 <= n => /\ f[k] \in Loaded /\ Len(f[k]) \in Nat /\ text[k + 1] \in Bytes
                      /\ f[k + 1] = LoadByte(f[k], text[k + 1])
    <3> SUFFICES ASSUME k + 1 <= n
                 PROVE  /\ f[k] \in Loaded /\ Len(f[k]) \in Nat /\ text[k + 1] \in Bytes
                        /\ f[k + 1] = LoadByte(f[k], text[k + 1])
      OBVIOUS
    <3>1. k + 1 \in 1..n /\ k \in 0..n /\ (k + 1) - 1 = k
      BY <1>5, <2>3
    <3>2. f[k] \in Loaded
      BY <1>5, <3>1
    <3>3. Len(f[k]) \in Nat
      BY <3>2 DEF Loaded
    <3> QED
      BY <1>5, <3>1, <3>2, <3>3
  <2>6. ASSUME x < Len(ls[y + 1]) PROVE <<k + 1, x + 1, y>> \in W
    <3>1. text[k + 1] = ls[y + 1][x + 1]
      BY <1>1, <2>2, <2>6 DEF NextByte, k
    <3>2. text[k + 1] # NL
      <4>1. ls[y + 1][x + 1] \in Chars \cup {CR}
        <5>1. x + 1 \in 1..Len(ls[y + 1])
          BY <2>1, <2>6
        <5> QED
          BY <2>1, <5>1 DEF T
      <4> QED
        BY <3>1, <4>1, EditorAssumption DEF EditorAssumption
    <3>3. k + 1 <= n => Len(f[k + 1]) = Len(f[k]) /\ k <= n
      BY <1>5, <2>3, <2>5, <3>2, LoadByteIs
    <3>4. k + 1 <= n => Len(f[k + 1]) <= y + 1
      BY <2>4, <3>3
    <3> QED
      BY <1>6, <2>1, <2>3, <3>4
  <2>7. ASSUME x = Len(ls[y + 1]), y + 1 < N PROVE <<k + 1, 0, y + 1>> \in W
    <3>3. k + 1 <= n => Len(f[k + 1]) <= Len(f[k]) + 1 /\ k <= n
      BY <1>5, <2>3, <2>5, LoadByteIs, SMTT(30)
    <3>4. k + 1 <= n => Len(f[k + 1]) \in Nat
      <4>1. k + 1 <= n => f[k + 1] \in Loaded
        BY <1>5, <2>3
      <4> QED
        BY <4>1 DEF Loaded
    <3>5. k + 1 <= n => Len(f[k + 1]) <= (y + 1) + 1
      BY <2>1, <2>4, <2>5, <3>3, <3>4
    <3> QED
      BY <1>6, <2>1, <2>3, <3>5
  <2> QED
    BY <2>6, <2>7 DEF k
<1>9. PICK y \in 0..(N - 1) : \E x \in 0..Len(ls[y + 1]) :
        n = Pos(ls, x, y) /\ <<n, x, y>> \in W
  <2>1. \A k \in 0..Len(TextOf(ls)) :
           \E y \in 0..(Len(ls) - 1) : \E x \in 0..Len(ls[y + 1]) :
             k = Pos(ls, x, y) /\ <<k, x, y>> \in W
    <3>1. Len(ls) > 0 /\ ls \in Seq(Text)
      BY <1>1, <1>2
    <3>2. \A y \in 0..(Len(ls) - 1) : \A x \in 0..Len(ls[y + 1]) :
            <<Pos(ls, x, y), x, y>> \in W =>
              /\ x < Len(ls[y + 1]) => <<Pos(ls, x, y) + 1, x + 1, y>> \in W
              /\ x = Len(ls[y + 1]) /\ y + 1 < Len(ls) => <<Pos(ls, x, y) + 1, 0, y + 1>> \in W
      BY <1>8, Zenon
    <3> QED
      BY <1>7, <3>1, <3>2, WalkText
  <2>2. n \in 0..Len(TextOf(ls))
    BY <1>1, <1>5
  <2> QED
    BY <2>1, <2>2
<1>10. Len(f[n]) <= y + 1
  <2>1. PICK x \in 0..Len(ls[y + 1]) : <<n, x, y>> \in W
    BY <1>9
  <2>2. x \in Nat /\ y \in Nat
    <3>1. Len(ls[y + 1]) \in Nat
      BY <1>2, Glue
    <3> QED
      BY <1>2, <3>1
  <2> QED
    BY <1>5, <1>6, <2>1, <2>2
<1>11. f[n] \in Seq(ALine) /\ Len(f[n]) \in Nat /\ Len(f[n]) >= 1
  <2>1. f[n] \in Loaded
    BY <1>5
  <2> QED
    BY <2>1 DEF Loaded
<1>12. Len(f[n]) <= MaxLines
  BY <1>1, <1>2, <1>10, <1>11
<1> QED
  BY <1>2, <1>3, <1>5, <1>11, <1>12

\* Every position of a text is a column of one of its lines.
LEMMA Positions ==
  ASSUME NEW ls \in Seq(Text), Len(ls) > 0, NEW k \in 0..Len(TextOf(ls))
  PROVE  \E y \in 0..(Len(ls) - 1) : \E x \in 0..Len(ls[y + 1]) : k = Pos(ls, x, y)
<1> DEFINE W == Nat \X Nat \X Nat
<1>1. \A i, x, y \in Nat : <<i, x, y>> \in W
  OBVIOUS
<1> HIDE DEF W
<1>2. <<0, 0, 0>> \in W
  BY <1>1
<1>3. ASSUME NEW y \in 0..(Len(ls) - 1), NEW x \in 0..Len(ls[y + 1])
      PROVE  <<Pos(ls, x, y) + 1, x + 1, y>> \in W /\ <<Pos(ls, x, y) + 1, 0, y + 1>> \in W
  <2>1. NextByte(ls, x, y)
    BY ByteAt
  <2>2. Pos(ls, x, y) \in Nat
    BY <2>1 DEF NextByte
  <2>3. ls[y + 1] \in Text
    OBVIOUS
  <2>4. Len(ls[y + 1]) \in Nat
    BY <2>3, Glue, Zenon
  <2>5. y \in Nat /\ x \in Nat
    BY <2>4
  <2> QED
    BY <1>1, <2>2, <2>5
<1>4. \A y \in 0..(Len(ls) - 1) : \A x \in 0..Len(ls[y + 1]) :
        <<Pos(ls, x, y), x, y>> \in W =>
          /\ x < Len(ls[y + 1]) => <<Pos(ls, x, y) + 1, x + 1, y>> \in W
          /\ x = Len(ls[y + 1]) /\ y + 1 < Len(ls) => <<Pos(ls, x, y) + 1, 0, y + 1>> \in W
  BY <1>3, Zenon
<1>5. \A i \in 0..Len(TextOf(ls)) :
        \E y \in 0..(Len(ls) - 1) : \E x \in 0..Len(ls[y + 1]) :
          i = Pos(ls, x, y) /\ <<i, x, y>> \in W
  BY <1>2, <1>4, WalkText
<1> QED
  BY <1>5

\* Lines of the editor are lines of a short text.
LEMMA LinesAreShort ==
  ASSUME NEW ls \in Seq(ALine), Len(ls) \in 1..MaxLines
  PROVE  ShortText(TextOf(ls))
<1>1. ALine \subseteq Seq(Chars \cup {CR})
  <2>1. Seq(Chars) \subseteq Seq(Chars \cup {CR})
    BY SeqMonotonic
  <2> QED
    BY <2>1 DEF ALine
<1>2. ls \in Seq(Seq(Chars \cup {CR}))
  BY <1>1, SeqMonotonic
<1> QED
  BY <1>2 DEF ShortText

\* Saving never makes more lines, even where it stops at its limit.
LEMMA SavedIsShort ==
  ASSUME NEW ls \in Seq(ALine), Len(ls) \in 1..MaxLines
  PROVE  ShortText(SavedText(ls))
<1> DEFINE t == TextOf(ls)
           n == SaveLimit
           cut == SubSeq(t, 1, n)
           more == t[n] # NL /\ \E k \in (n + 1)..Len(t) : t[k] = NL
<1>1. ls \in Seq(Text) /\ Len(ls) > 0 /\ Len(ls) \in Nat /\ n \in Nat /\ MaxLines \in Nat /\ n > 0
  BY LinesAreTexts, EditorAssumption DEF EditorAssumption
<1>2. t \in Text /\ Len(t) \in Nat
  <2>1. t \in Text
    BY <1>1, TextAppend, Glue
  <2> HIDE DEF t
  <2> QED
    BY <2>1, Glue
<1>3. SavedText(ls) = IF Len(t) <= n THEN t ELSE IF more THEN Append(cut, NL) ELSE cut
  BY DEF SavedText
<1>4. CASE Len(t) <= n
  BY <1>3, <1>4, LinesAreShort
<1>5. CASE ~(Len(t) <= n)
  <2>1. n \in 0..Len(TextOf(ls))
    BY <1>1, <1>2, <1>5
  <2>2. PICK y \in 0..(Len(ls) - 1) : \E x \in 0..Len(ls[y + 1]) : n = Pos(ls, x, y)
    <3> HIDE DEF n
    <3> QED
      BY <1>1, <2>1, Positions
  <2>3. PICK x \in 0..Len(ls[y + 1]) : n = Pos(ls, x, y)
    BY <2>2
  <2> DEFINE l == ls[y + 1]
             A == Before(ls, y)
             a == SubSeq(l, 1, x)
             b == SubSeq(l, x + 1, Len(l))
             C == Append(A, a)
  <2>4. /\ A \in Seq(ALine) /\ Len(A) = y /\ y \in Nat /\ l \in ALine
        /\ Len(After(ls, y)) = (Len(ls) - y) - 1 /\ After(ls, y) \in Seq(ALine)
    BY TakeApart
  <2>5. TextAt(ls, x, y)
    BY <1>1, Around
  <2>6. cut = TextOf(C) /\ SubSeq(t, n + 1, Len(t)) = Cat(b, Below(After(ls, y)))
    BY <2>3, <2>5 DEF TextAt
  <2> HIDE DEF A, l, t, n
  <2>7. a \in ALine /\ b \in ALine /\ b \in Seq(Chars) /\ b \in Text
    <3>1. x \in 0..Len(l)
      BY DEF l
    <3> QED
      BY <2>4, <3>1, LineParts
  <2> HIDE DEF a, b, cut
  <2>8. C \in Seq(ALine) /\ Len(C) = y + 1
    BY <2>4, <2>7, AppendProperties
  <2> HIDE DEF C
  <2>9. Len(C) \in 1..MaxLines
    BY <1>1, <2>4, <2>8
  <2>10. CASE ~more
    <3>1. SavedText(ls) = TextOf(C)
      BY <1>3, <1>5, <2>6, <2>10
    <3> QED
      BY <2>8, <2>9, <3>1, LinesAreShort
  <2>11. CASE more
    <3>1. y + 1 < Len(ls)
      <4> SUFFICES ASSUME y + 1 = Len(ls) PROVE FALSE
        BY <1>1, <2>4
      <4>1. Len(After(ls, y)) = 0
        BY <1>1, <2>4
      <4>2. After(ls, y) = <<>>
        <5> DEFINE B == After(ls, y)
        <5> HIDE DEF B
        <5>1. B \in Seq(ALine) /\ Len(B) = 0
          BY <2>4, <4>1 DEF B
        <5>2. B = <<>>
          BY <5>1
        <5> QED
          BY <5>2 DEF B
      <4>3. SubSeq(t, n + 1, Len(t)) = b
        BY <2>6, <2>7, <4>2, Glue DEF Below
      <4>4. PICK k \in (n + 1)..Len(t) : t[k] = NL
        BY <2>11
      <4> DEFINE r == SubSeq(t, n + 1, Len(t))
      <4>5. k - n \in 1..(Len(t) - n) /\ n + (k - n) = k
        BY <1>1, <1>2
      <4>6. Len(r) = Len(t) - n /\ \A i \in 1..(Len(t) - n) : r[i] = t[n + i]
        BY <1>1, <1>2, <1>5 DEF Text
      <4>7. r[k - n] = NL /\ k - n \in 1..Len(r)
        BY <4>4, <4>5, <4>6
      <4> HIDE DEF r
      <4>8. r = b
        BY <4>3 DEF r
      <4>9. NL \in Chars
        BY <2>7, <4>7, <4>8
      <4> QED
        BY <4>9, EditorAssumption DEF EditorAssumption
    <3> DEFINE D == Append(C, <<>>)
    <3>2. <<>> \in ALine
      <4>1. MaxCols > 0
        BY EditorAssumption DEF EditorAssumption
      <4> QED
        BY <4>1 DEF ALine
    <3>3. D \in Seq(ALine) /\ Len(D) = (y + 1) + 1
      BY <2>8, <3>2, AppendProperties
    <3>4. TextOf(D) = Cat(Above(C), <<>>) /\ Above(C) \in Text /\ TextOf(C) \in Text
      BY <2>8, LinesAreTexts, TextAppend, Glue
    <3> HIDE DEF D
    <3>5. Len(D) \in 1..MaxLines
      BY <1>1, <2>4, <3>1, <3>3
    <3>6. Above(C) = Cat(cut, LineFeed)
      <4>1. C # <<>>
        BY <2>4, <2>8
      <4> QED
        BY <2>6, <4>1 DEF Above
    <3>7. Cat(cut, LineFeed) = Append(cut, NL)
      <4>1. cut \in Seq(Bytes) /\ NL \in Bytes
        BY <2>6, <3>4 DEF Text, Bytes
      <4> QED
        BY <4>1, AppendIsConcat DEF Cat, LineFeed
    <3>8. SavedText(ls) = TextOf(D)
      <4>1. SavedText(ls) = Append(cut, NL)
        BY <1>3, <1>5, <2>11
      <4>2. Cat(Above(C), <<>>) = Above(C)
        BY <3>4, Glue
      <4> QED
        BY <3>4, <3>6, <3>7, <4>1, <4>2
    <3> QED
      BY <3>3, <3>5, <3>8, LinesAreShort
  <2> HIDE DEF more
  <2> QED
    BY <2>10, <2>11
<1> QED
  BY <1>4, <1>5

-----------------------------------------------------------------------------
(* The editor.                                                             *)

\* What a step does that leaves the lines and the cursor alone.
LEMMA SameCursor ==
  ASSUME lines' = lines, cur_x' = cur_x, cur_y' = cur_y
  PROVE  Offset' = Offset
  BY DEF Offset, Line

\* The cursor of a freshly opened text.
LEMMA CursorAtStart ==
  ASSUME NEW ls \in Seq(ALine), Len(ls) > 0
  PROVE  Len(TextOf(SubSeq(ls, 1, 0) \o <<SubSeq(ls[0 + 1], 1, 0)>>)) = 0
<1>1. ls \in Seq(Text) /\ 0 \in 0..(Len(ls) - 1) /\ 0 \in 0..Len(ls[0 + 1])
  <2>1. ls \in Seq(Text) /\ Len(ls) \in Nat /\ ls[1] \in Text
    BY LinesAreTexts
  <2>2. Len(ls[1]) \in Nat
    BY <2>1, Glue
  <2> QED
    BY <2>1, <2>2
<1>2. TextAt(ls, 0, 0)
  BY <1>1, Around
<1>3. Pos(ls, 0, 0) = 0
  <2>1. SubSeq(ls, 1, 0) = <<>>
    OBVIOUS
  <2> QED
    BY <2>1, Glue DEF Pos, Above
<1> QED
  BY <1>2, <1>3 DEF TextAt, Before

\* What opening a file does when it comes as lines ls that fit.
Opens(ls) ==
  /\ EditorTypes' /\ editing' = TRUE /\ is_dirty' = FALSE /\ file' = file /\ Offset' = 0
  /\ lines' = ls

LEMMA OpenOpens ==
  ASSUME EditorTypes, NEW ls \in Seq(ALine), Len(ls) \in 1..MaxLines, LoadsAs(ls)
  PROVE  Opens(ls)
<1>1. /\ lines' = ls /\ cur_x' = 0 /\ cur_y' = 0 /\ scroll_y' = 0
      /\ editing' = TRUE /\ is_dirty' = FALSE /\ file' = file
  BY DEF LoadsAs
<1>2. ls \in Seq(ALine) /\ Len(ls) \in 1..MaxLines
  OBVIOUS
<1>3. 0 \in 0..(Len(ls) - 1) /\ 0 \in 0..Len(ls[0 + 1]) /\ Len(ls) > 0
  <2>1. Len(ls) \in Nat /\ Len(ls) > 0
    BY <1>2
  <2>2. ls[1] \in ALine
    BY <1>2, <2>1
  <2>3. Len(ls[1]) \in Nat
    BY <2>2, LinesAreTexts
  <2> QED
    BY <2>1, <2>3
<1>4. VisibleRows \in Nat /\ VisibleRows > 0
  BY EditorAssumption DEF EditorAssumption
<1>5. EditorTypes'
  <2>1. 0 \in 0..0 /\ 0 < 0 + VisibleRows /\ TRUE \in BOOLEAN /\ FALSE \in BOOLEAN /\ file \in Text
    BY <1>4 DEF EditorTypes
  <2> QED
    BY <1>1, <1>2, <1>3, <2>1, Zenon DEF EditorTypes
<1>6. Offset' = 0
  <2>1. Offset' = Len(TextOf(SubSeq(ls, 1, 0) \o <<SubSeq(ls[0 + 1], 1, 0)>>))
    BY <1>1 DEF Offset, Line
  <2> QED
    BY <1>2, <1>3, <2>1, CursorAtStart
<1> QED
  BY <1>1, <1>5, <1>6 DEF Opens

\* The keys that insert: the character is inserted one to four times.
LEMMA TabTypeInsert ==
  ASSUME EditorTypes, Tab \/ \E ch \in Chars : Type(ch)
  PROVE  \E ch \in Chars, k \in 1..4 : Inserts([i \in 1..k |-> ch])
<1>1. Room \in Int
  <2>1. Line \in ALine /\ MaxCols \in Nat
    BY AroundCursor, EditorAssumption DEF EditorAssumption
  <2>2. Len(Line) \in Nat
    BY <2>1, LinesAreTexts
  <2> QED
    BY <2>1, <2>2 DEF Room
<1>2. CASE Tab
  <2> DEFINE k == AtMost(4, Room)
  <2>1. InsertChars(Space, k)
    BY <1>2 DEF Tab
  <2>2. k > 0
    BY <2>1 DEF InsertChars
  <2>3. k \in 1..4 /\ k <= Room /\ k \in Nat /\ Space \in Chars
    BY <1>1, <2>2, EditorAssumption DEF AtMost, EditorAssumption
  <2> HIDE DEF k
  <2>4. Inserts([i \in 1..k |-> Space])
    BY <2>1, <2>3, InsertInserts
  <2> QED
    BY <2>3, <2>4
<1>3. CASE \E ch \in Chars : Type(ch)
  <2>1. PICK ch \in Chars : Type(ch)
    BY <1>3
  <2> DEFINE k == 1
  <2>2. InsertChars(ch, k) /\ k <= Room /\ k \in Nat /\ k \in 1..4
    BY <1>1, <2>1 DEF Type
  <2> HIDE DEF k
  <2>3. Inserts([i \in 1..k |-> ch])
    BY <2>2, InsertInserts
  <2> QED
    BY <2>2, <2>3
<1> QED
  BY <1>2, <1>3

\* What a key does that inserts.
InsertsSome == \E ch \in Chars \cup {NL}, k \in 1..4 : Inserts([i \in 1..k |-> ch])

\* A key that changes the text shows it.
Edits == is_dirty' = TRUE /\ lost' = FALSE

\* What any step inside a session does, other than saving.
LEMMA KeysKeepTypes ==
  ASSUME EditorTypes,
         \/ KeyUp \/ KeyDown \/ KeyLeft \/ KeyRight
         \/ BackspaceInLine \/ BackspaceMerge \/ Enter \/ Tab
         \/ \E ch \in Chars : Type(ch)
  PROVE  /\ EditorTypes' /\ file' = file /\ editing' = editing
         /\ JustMoves \/ Deletes \/ InsertsSome
         /\ \/ Edits /\ (Deletes \/ InsertsSome)
            \/ lines' = lines /\ UNCHANGED <<is_dirty, lost>> /\ JustMoves
<1>1. CASE KeyUp \/ KeyDown \/ KeyLeft \/ KeyRight
  <2>1. JustMoves
    BY <1>1, UpDownMove, LeftMoves, RightMoves
  <2>2. UNCHANGED <<is_dirty, lost>>
    BY <1>1 DEF KeyUp, KeyDown, KeyLeft, KeyRight
  <2> QED
    BY <2>1, <2>2 DEF JustMoves
<1>2. CASE BackspaceInLine \/ BackspaceMerge
  <2>1. Deletes
    BY <1>2, BackspaceDeletes, MergeDeletes
  <2>3. Edits
    BY <1>2 DEF BackspaceInLine, BackspaceMerge, Edits
  <2>2. EditorTypes' /\ file' = file /\ editing' = editing /\ is_dirty' = TRUE
    BY <2>1 DEF Deletes
  <2> QED
    BY <2>1, <2>2, <2>3, Zenon
<1>3. CASE Enter
  <2>1. Inserts(LineFeed)
    BY <1>3, EnterInserts
  <2>2. [i \in 1..1 |-> NL] = LineFeed
    BY DEF LineFeed
  <2> DEFINE k == 1
  <2>3. Inserts([i \in 1..k |-> NL]) /\ k \in 1..4
    BY <2>1, <2>2
  <2> HIDE DEF k
  <2>4. EditorTypes' /\ file' = file /\ editing' = editing /\ is_dirty' = TRUE
    BY <2>1 DEF Inserts
  <2>5. InsertsSome
    <3>1. NL \in Chars \cup {NL}
      OBVIOUS
    <3> QED
      BY <2>3, <3>1, Zenon DEF InsertsSome
  <2>6. Edits
    BY <1>3 DEF Enter, Edits
  <2> QED
    BY <2>4, <2>5, <2>6, Zenon
<1>4. CASE Tab \/ \E ch \in Chars : Type(ch)
  <2>1. PICK ch \in Chars, k \in 1..4 : Inserts([i \in 1..k |-> ch])
    BY <1>4, TabTypeInsert
  <2>2. EditorTypes' /\ file' = file /\ editing' = editing /\ is_dirty' = TRUE
    BY <2>1 DEF Inserts
  <2>3. InsertsSome
    <3>1. ch \in Chars \cup {NL}
      OBVIOUS
    <3> QED
      BY <2>1, <3>1, Zenon DEF InsertsSome
  <2>4. Edits
    BY <1>4 DEF Tab, Type, InsertChars, Edits
  <2> QED
    BY <2>2, <2>3, <2>4, Zenon
<1> QED
  BY <1>1, <1>2, <1>3, <1>4

\* The lines of an empty text.
LEMMA EmptyLines ==
  LET ls == <<<<>>>>
  IN  /\ ls \in Seq(ALine) /\ Len(ls) = 1 /\ ls[1] = <<>> /\ Len(ls) \in 1..MaxLines
      /\ TextOf(ls) = <<>>
<1> DEFINE ls == <<<<>>>>
<1>2. MaxCols > 0 /\ MaxLines \in Nat /\ MaxLines > 0
  BY EditorAssumption DEF EditorAssumption
<1>3. <<>> \in ALine /\ <<>> \in Text
  <2>1. <<>> \in ALine
    BY <1>2 DEF ALine
  <2> QED
    BY <2>1, Glue
<1>4. ls \in Seq(ALine) /\ Len(ls) = 1 /\ ls[1] = <<>>
  BY <1>3
<1>5. TextOf(ls) = <<>>
  <2> DEFINE e == <<>>
  <2>1. e \in Seq(Text) /\ e \in Text
    BY <1>3
  <2>2. TextOf(<<e>>) = e
    <3> HIDE DEF e
    <3> QED
      BY <2>1, AboveBelow
  <2> QED
    BY <2>2
<1> HIDE DEF ls
<1>6. Len(ls) \in 1..MaxLines
  BY <1>2, <1>4
<1> QED
  BY <1>4, <1>5, <1>6 DEF ls

\* The empty buffer the editor starts with.
LEMMA EmptyBuffer ==
  ASSUME Init, file \in Text
  PROVE  EditorTypes /\ TextOf(lines) = <<>> /\ Offset = 0
<1> DEFINE ls == <<<<>>>>
<1>1. lines = ls /\ cur_x = 0 /\ cur_y = 0 /\ scroll_y = 0 /\ editing = FALSE /\ is_dirty = FALSE
  BY DEF Init
<1>2. MaxLines \in Nat /\ MaxLines > 0 /\ VisibleRows \in Nat /\ VisibleRows > 0
  BY EditorAssumption DEF EditorAssumption
<1>4. ls \in Seq(ALine) /\ Len(ls) = 1 /\ ls[1] = <<>>
  BY EmptyLines
<1>5. TextOf(ls) = <<>>
  BY EmptyLines
<1> HIDE DEF ls
<1>6. EditorTypes
  <2>1. Len(ls) \in 1..MaxLines /\ 0 \in 0..(Len(ls) - 1) /\ 0 \in 0..0 /\ 0 < 0 + VisibleRows
    BY <1>2, <1>4
  <2>2. 0 \in 0..Len(ls[0 + 1])
    BY <1>4, Glue
  <2> QED
    BY <1>1, <1>4, <2>1, <2>2, Zenon DEF EditorTypes
<1>7. Offset = 0
  <2>1. Offset = Len(TextOf(SubSeq(ls, 1, 0) \o <<SubSeq(ls[0 + 1], 1, 0)>>))
    BY <1>1 DEF Offset, Line
  <2>2. Len(ls) > 0
    BY <1>4
  <2> QED
    BY <1>4, <2>1, <2>2, CursorAtStart
<1> QED
  BY <1>1, <1>5, <1>6, <1>7

\* What holds of the editor always: its types, and the file has no more lines
\* than the buffer.
EditorInv == EditorTypes /\ lost \in BOOLEAN /\ ShortText(file)

\* No failed transfer leaves more lines than the buffer has.
ShortStray == \A t \in Stray : ShortText(t)

LEMMA EditorStepInv == ShortStray /\ EditorInv /\ [Next]_vars => EditorInv'
<1> SUFFICES ASSUME ShortStray, EditorInv, [Next]_vars PROVE EditorInv'
  OBVIOUS
<1>0. EditorTypes /\ ShortText(file) /\ file \in Text /\ lines \in Seq(ALine) /\ Len(lines) \in 1..MaxLines
      /\ lost \in BOOLEAN
  BY DEF EditorInv, EditorTypes
<1>7. ASSUME NEW t, ShortText(t), LoadsAs(Parse(t)), lost' \in BOOLEAN PROVE EditorInv'
  <2>1. Parse(t) \in Seq(ALine) /\ Len(Parse(t)) \in 1..MaxLines
    BY <1>7, ShortTextLoads
  <2>2. Opens(Parse(t))
    BY <1>0, <1>7, <2>1, OpenOpens
  <2> QED
    BY <1>0, <1>7, <2>2 DEF Opens, EditorInv
<1>1. CASE Open
  BY <1>0, <1>1, <1>7 DEF Open
<1>8. CASE OpenUnread
  <2> DEFINE ls == <<<<>>>>
  <2>1. LoadsAs(ls) /\ lost' = TRUE
    BY <1>8 DEF OpenUnread
  <2>2. ls \in Seq(ALine) /\ Len(ls) \in 1..MaxLines
    BY EmptyLines
  <2> HIDE DEF ls
  <2>3. Opens(ls)
    BY <1>0, <2>1, <2>2, OpenOpens
  <2> QED
    BY <1>0, <2>1, <2>3 DEF Opens, EditorInv
<1>9. CASE OpenGarbled
  <2>1. PICK t \in Stray : LoadsAs(Parse(t))
    BY <1>9 DEF OpenGarbled
  <2>2. lost' \in BOOLEAN /\ ShortText(t)
    BY <1>9 DEF OpenGarbled, ShortStray
  <2> QED
    BY <1>7, <2>1, <2>2
<1>2. CASE Quit
  BY <1>0, <1>2 DEF Quit, EditorInv, EditorTypes
<1>10. ASSUME NEW t, ShortText(t), file' = t, is_dirty' = FALSE, lost' \in BOOLEAN,
              UNCHANGED <<editing, lines, cur_x, cur_y, scroll_y>>
       PROVE  EditorInv'
  <2>1. t \in Text
    BY <1>10, ShortTextLoads
  <2>2. EditorTypes'
    BY <1>0, <1>10, <2>1 DEF EditorTypes
  <2> QED
    BY <1>10, <2>2 DEF EditorInv
<1>3. CASE Save
  <2>1. ShortText(SavedText(lines))
    BY <1>0, SavedIsShort
  <2> QED
    BY <1>3, <1>10, <2>1 DEF Save
<1>11. CASE SaveLost
  <2>1. PICK t \in Stray : file' = t
    BY <1>11 DEF SaveLost
  <2> QED
    BY <1>10, <1>11, <2>1 DEF SaveLost, ShortStray
<1>4. CASE UNCHANGED vars
  BY <1>0, <1>4 DEF vars, EditorInv, EditorTypes
<1>5. CASE SaveFails
  BY <1>4, <1>5 DEF SaveFails
<1>6. CASE \/ KeyUp \/ KeyDown \/ KeyLeft \/ KeyRight
           \/ BackspaceInLine \/ BackspaceMerge \/ Enter \/ Tab
           \/ \E ch \in Chars : Type(ch)
  <2>1. EditorTypes' /\ file' = file /\ (Edits \/ lost' = lost)
    BY <1>0, <1>6, KeysKeepTypes
  <2> QED
    BY <1>0, <2>1 DEF EditorInv, Edits
<1> QED
  BY <1>1, <1>2, <1>3, <1>4, <1>5, <1>6, <1>8, <1>9, <1>11 DEF Next

LEMMA EditorInitInv ==
  ASSUME \A f \in Files : ShortText(f)
  PROVE  Init => EditorInv
<1> SUFFICES ASSUME Init PROVE EditorInv
  OBVIOUS
<1>1. ShortText(file) /\ lost \in BOOLEAN
  BY DEF Init
<1>2. file \in Text
  BY <1>1, ShortTextLoads
<1> QED
  BY <1>1, <1>2, EmptyBuffer DEF EditorInv

\* For files of no more lines than MAX_LINES, of any length, the text stays
\* inside the arrays lines and line_lens, and the cursor inside the text and on
\* the screen, whatever is typed, saved (in full or cut at the limit of
\* save_file) and opened again, with and without failing transfers.
THEOREM EditorTyping ==
  ASSUME \A f \in Files : ShortText(f), ShortStray
  PROVE  Spec => []TypeOK
<1>1. Init => EditorInv
  BY EditorInitInv
<1>2. EditorInv => TypeOK
  BY TypesAre DEF EditorInv
<1> QED
  BY <1>1, <1>2, EditorStepInv, PTL DEF Spec

\* The arrow keys step over exactly one character of the text, a line break
\* counting as one.
THEOREM ArrowsExact ==
  ASSUME \A f \in Files : ShortText(f), ShortStray
  PROVE  Spec => ArrowsStepOne
<1>1. Init => EditorInv
  BY EditorInitInv
<1>2. EditorInv /\ [Next]_vars => [/\ KeyLeft  => Offset' = Offset - 1
                                   /\ KeyRight => Offset' = Offset + 1]_vars
  BY LeftMoves, RightMoves DEF EditorInv
<1> QED
  BY <1>1, <1>2, EditorStepInv, PTL DEF Spec, ArrowsStepOne

-----------------------------------------------------------------------------
(* The editor as one text.                                                 *)

\* The text of a file that the editor shows as it is.
FitText(text) ==
  \E ls \in Seq(ALine) : /\ Len(ls) \in 1..MaxLines /\ text = TextOf(ls)
                         /\ Len(text) <= ReadLimit

\* The text of the editor's lines has no carriage returns.
LEMMA PlainText ==
  ASSUME NEW ls \in Seq(ALine), Len(ls) > 0
  PROVE  TextOf(ls) \in Seq(Chars \cup {NL})
<1> DEFINE t == TextOf(ls)
           n == Len(t)
<1>1. ls \in Seq(Text) /\ t \in Text
  BY LinesAreTexts, TextAppend
<1>2. n \in Nat /\ t \in [1..n -> Bytes]
  <2> HIDE DEF t
  <2> QED
    BY <1>1 DEF Text
<1>3. ASSUME NEW k \in 1..n PROVE t[k] \in Chars \cup {NL}
  <2>1. k - 1 \in 0..n /\ (k - 1) + 1 = k /\ k - 1 # n
    BY <1>2
  <2>2. PICK y \in 0..(Len(ls) - 1) : \E x \in 0..Len(ls[y + 1]) : k - 1 = Pos(ls, x, y)
    BY <1>1, <2>1, Positions
  <2>3. PICK x \in 0..Len(ls[y + 1]) : k - 1 = Pos(ls, x, y)
    BY <2>2
  <2>4. NextByte(ls, x, y)
    BY <1>1, ByteAt
  <2>5. /\ ls[y + 1] \in Seq(Chars) /\ Len(ls[y + 1]) \in Nat /\ x \in 0..Len(ls[y + 1])
        /\ y + 1 <= Len(ls)
    <3>1. ls[y + 1] \in ALine /\ y + 1 <= Len(ls)
      OBVIOUS
    <3> QED
      BY <3>1, LinesAreTexts
  <2>6. CASE x < Len(ls[y + 1])
    <3>1. t[k] = ls[y + 1][x + 1]
      BY <2>1, <2>3, <2>4, <2>6 DEF NextByte
    <3>2. ls[y + 1][x + 1] \in Chars
      BY <2>5, <2>6
    <3> QED
      BY <3>1, <3>2
  <2>7. CASE x = Len(ls[y + 1]) /\ y + 1 < Len(ls)
    BY <2>1, <2>3, <2>4, <2>7 DEF NextByte
  <2>8. CASE x = Len(ls[y + 1]) /\ y + 1 = Len(ls)
    BY <2>1, <2>3, <2>4, <2>8 DEF NextByte
  <2>9. Len(ls) \in Nat /\ y \in Nat
    OBVIOUS
  <2> QED
    BY <2>5, <2>6, <2>7, <2>8, <2>9
<1> HIDE DEF t
<1>4. t \in [1..n -> Chars \cup {NL}]
  BY <1>2, <1>3
<1> QED
  BY <1>2, <1>4 DEF t

LEMMA FitTextLoads ==
  ASSUME NEW text, FitText(text)
  PROVE  /\ text \in Text /\ Parse(text) \in Seq(ALine) /\ Len(Parse(text)) \in 1..MaxLines
         /\ TextOf(Parse(text)) = text /\ text \in Seq(Chars \cup {NL})
<1>1. PICK ls \in Seq(ALine) : /\ Len(ls) \in 1..MaxLines /\ text = TextOf(ls)
                               /\ Len(text) <= ReadLimit
  BY DEF FitText
<1>2. Parse(text) = ls
  BY <1>1, ReadBack
<1>3. text \in Text
  BY <1>1, LinesAreTexts, TextAppend, Glue
<1>4. text \in Seq(Chars \cup {NL})
  BY <1>1, PlainText
<1> QED
  BY <1>1, <1>2, <1>3, <1>4

\* The text is small enough to be saved in full.
SaveFits == Len(TextOf(lines)) <= SaveLimit

BufferInv == EditorTypes /\ FitText(file) /\ CleanMeansSaved

\* What a failed transfer leaves fits the editor as well.
FitStray == \A t \in Stray : FitText(t)

LEMMA BufferInitInv ==
  ASSUME \A f \in Files : FitText(f)
  PROVE  Init => BufferInv
<1> SUFFICES ASSUME Init PROVE BufferInv
  OBVIOUS
<1>1. FitText(file) /\ ~editing
  BY DEF Init
<1>2. file \in Text
  BY <1>1, FitTextLoads
<1> QED
  BY <1>1, <1>2, EmptyBuffer DEF BufferInv, CleanMeansSaved

\* What each step does to the buffer.
OpensAs(text, failed) ==
  /\ ~editing /\ editing' = TRUE /\ is_dirty' = FALSE /\ file' = file /\ Offset' = 0
  /\ TextOf(lines') = text /\ lost' = failed

SavesAs(text, failed) ==
  /\ editing /\ is_dirty' = FALSE /\ file' = text /\ lost' = failed
  /\ Offset' = Offset /\ UNCHANGED <<editing, lines>>

BufferStep ==
  \/ OpensAs(file, FALSE)
  \/ OpensAs(<<>>, TRUE)
  \/ \E t \in Seq(Chars \cup {NL}) : Len(t) = Len(file) /\ OpensAs(t, TRUE)
  \/ Quit /\ Offset' = Offset
  \/ SavesAs(TextOf(lines), FALSE)
  \/ \E t \in Seq(Chars \cup {NL}) : Len(t) = Len(TextOf(lines)) /\ SavesAs(t, TRUE)
  \/ UNCHANGED vars /\ Offset' = Offset
  \/ JustMoves /\ UNCHANGED <<is_dirty, lost>> /\ editing
  \/ Deletes /\ Edits /\ editing
  \/ InsertsSome /\ Edits /\ editing

LEMMA BufferSteps ==
  ASSUME FitStray, BufferInv, SaveFits, [Next]_vars
  PROVE  BufferStep /\ BufferInv'
<1>0. /\ EditorTypes /\ FitText(file) /\ file \in Text /\ lines \in Seq(ALine)
      /\ Len(lines) \in 1..MaxLines
      /\ (editing /\ ~is_dirty /\ ~lost => file = TextOf(lines))
  BY DEF BufferInv, EditorTypes, CleanMeansSaved
<1>7. ASSUME NEW ls \in Seq(ALine), Len(ls) \in 1..MaxLines, LoadsAs(ls),
             NEW failed \in BOOLEAN, lost' = failed, failed \/ TextOf(ls) = file
      PROVE  OpensAs(TextOf(ls), failed) /\ BufferInv'
  <2>1. Opens(ls)
    BY <1>0, <1>7, OpenOpens
  <2>2. ~editing
    BY <1>7 DEF LoadsAs
  <2>3. EditorTypes' /\ file' = file /\ lines' = ls
    BY <2>1 DEF Opens
  <2>4. CleanMeansSaved'
    BY <1>7, <2>3 DEF CleanMeansSaved
  <2>5. BufferInv'
    BY <1>0, <2>3, <2>4 DEF BufferInv
  <2> QED
    BY <1>7, <2>1, <2>2, <2>5 DEF OpensAs, Opens
<1>1. CASE Open
  <2>1. Parse(file) \in Seq(ALine) /\ Len(Parse(file)) \in 1..MaxLines /\ TextOf(Parse(file)) = file
    BY <1>0, FitTextLoads
  <2>2. LoadsAs(Parse(file)) /\ lost' = FALSE
    BY <1>1 DEF Open
  <2>3. OpensAs(TextOf(Parse(file)), FALSE) /\ BufferInv'
    BY <1>7, <2>1, <2>2
  <2> QED
    BY <2>1, <2>3 DEF BufferStep
<1>8. CASE OpenUnread
  <2> DEFINE ls == <<<<>>>>
  <2>1. LoadsAs(ls) /\ lost' = TRUE
    BY <1>8 DEF OpenUnread
  <2>2. ls \in Seq(ALine) /\ Len(ls) \in 1..MaxLines /\ TextOf(ls) = <<>>
    BY EmptyLines
  <2> HIDE DEF ls
  <2>3. OpensAs(TextOf(ls), TRUE) /\ BufferInv'
    BY <1>7, <2>1, <2>2
  <2> QED
    BY <2>2, <2>3 DEF BufferStep
<1>9. CASE OpenGarbled
  <2>1. PICK t \in Stray : Len(t) = Len(file) /\ LoadsAs(Parse(t))
    BY <1>9 DEF OpenGarbled
  <2>2. lost' = TRUE
    BY <1>9 DEF OpenGarbled
  <2>3. FitText(t)
    BY DEF FitStray
  <2>4. /\ Parse(t) \in Seq(ALine) /\ Len(Parse(t)) \in 1..MaxLines /\ TextOf(Parse(t)) = t
        /\ t \in Seq(Chars \cup {NL})
    BY <2>3, FitTextLoads
  <2>5. OpensAs(TextOf(Parse(t)), TRUE) /\ BufferInv'
    BY <1>7, <2>1, <2>2, <2>4
  <2> QED
    BY <2>1, <2>4, <2>5 DEF BufferStep
<1>2. CASE Quit
  <2>1. editing' = FALSE /\ UNCHANGED <<lines, cur_x, cur_y, scroll_y, is_dirty, file>>
    BY <1>2 DEF Quit
  <2>2. Offset' = Offset
    BY <2>1, SameCursor
  <2>3. BufferInv'
    BY <1>0, <2>1 DEF BufferInv, EditorTypes, CleanMeansSaved
  <2> QED
    BY <1>2, <2>2, <2>3 DEF BufferStep
<1>10. ASSUME NEW t, FitText(t), editing, file' = t, is_dirty' = FALSE,
              NEW failed \in BOOLEAN, lost' = failed, failed \/ t = TextOf(lines),
              UNCHANGED <<editing, lines, cur_x, cur_y, scroll_y>>
       PROVE  SavesAs(t, failed) /\ BufferInv'
  <2>1. t \in Text
    BY <1>10, FitTextLoads
  <2>2. EditorTypes'
    BY <1>0, <1>10, <2>1 DEF EditorTypes
  <2>3. Offset' = Offset
    BY <1>10, SameCursor
  <2>4. BufferInv'
    BY <1>10, <2>2 DEF BufferInv, CleanMeansSaved
  <2> QED
    BY <1>10, <2>3, <2>4 DEF SavesAs
<1>12. SavedText(lines) = TextOf(lines)
  BY DEF SavedText, SaveFits
<1>3. CASE Save
  <2>1. TextOf(lines) \in Text
    BY <1>0, AroundCursor DEF StateIs
  <2>2. FitText(TextOf(lines))
    <3>1. Len(TextOf(lines)) <= ReadLimit
      <4>1. Len(TextOf(lines)) \in Nat
        BY <2>1, Glue
      <4> QED
        BY <4>1, EditorAssumption DEF EditorAssumption, SaveFits
    <3> QED
      BY <1>0, <3>1 DEF FitText
  <2>3. /\ editing /\ file' = TextOf(lines) /\ is_dirty' = FALSE /\ lost' = FALSE
        /\ UNCHANGED <<editing, lines, cur_x, cur_y, scroll_y>>
    BY <1>3, <1>12 DEF Save
  <2>4. SavesAs(TextOf(lines), FALSE) /\ BufferInv'
    BY <1>10, <2>2, <2>3
  <2> QED
    BY <2>4 DEF BufferStep
<1>11. CASE SaveLost
  <2>1. PICK t \in Stray : file' = t /\ Len(t) = Len(TextOf(lines))
    BY <1>11, <1>12 DEF SaveLost
  <2>2. FitText(t)
    BY DEF FitStray
  <2>3. t \in Seq(Chars \cup {NL})
    BY <2>2, FitTextLoads
  <2>4. /\ editing /\ is_dirty' = FALSE /\ lost' = TRUE
        /\ UNCHANGED <<editing, lines, cur_x, cur_y, scroll_y>>
    BY <1>11 DEF SaveLost
  <2>5. SavesAs(t, TRUE) /\ BufferInv'
    BY <1>10, <2>1, <2>2, <2>4
  <2> QED
    BY <2>1, <2>3, <2>5 DEF BufferStep
<1>4. CASE UNCHANGED vars
  <2>1. Offset' = Offset
    BY <1>4, SameCursor DEF vars
  <2>2. BufferInv'
    BY <1>0, <1>4 DEF vars, BufferInv, EditorTypes, CleanMeansSaved
  <2> QED
    BY <1>4, <2>1, <2>2 DEF BufferStep
<1>5. CASE SaveFails
  BY <1>4, <1>5 DEF SaveFails
<1>6. CASE \/ KeyUp \/ KeyDown \/ KeyLeft \/ KeyRight
           \/ BackspaceInLine \/ BackspaceMerge \/ Enter \/ Tab
           \/ \E ch \in Chars : Type(ch)
  <2>1. /\ EditorTypes' /\ file' = file /\ editing' = editing
        /\ \/ Edits /\ (Deletes \/ InsertsSome)
           \/ lines' = lines /\ UNCHANGED <<is_dirty, lost>> /\ JustMoves
    BY <1>0, <1>6, KeysKeepTypes
  <2>2. editing
    BY <1>6 DEF KeyUp, KeyDown, KeyLeft, KeyRight, BackspaceInLine, BackspaceMerge,
                Enter, Tab, Type, InsertChars
  <2>3. BufferInv'
    <3>1. CASE Edits
      BY <1>0, <2>1, <3>1 DEF BufferInv, CleanMeansSaved, Edits
    <3>2. CASE lines' = lines /\ UNCHANGED <<is_dirty, lost>>
      BY <1>0, <2>1, <3>2 DEF BufferInv, CleanMeansSaved
    <3> QED
      BY <2>1, <3>1, <3>2
  <2> QED
    BY <2>1, <2>2, <2>3 DEF BufferStep
<1> QED
  BY <1>1, <1>2, <1>3, <1>4, <1>5, <1>6, <1>8, <1>9, <1>11 DEF Next

\* For texts the editor shows as they are (no carriage returns, lines and text
\* within its limits), and as long as the text is within the limit of save_file:
\* a buffer without the mark of unsaved changes is exactly what the file holds,
\* whatever reads and writes failed before, unless the last one did.
THEOREM CleanIsSaved ==
  ASSUME \A f \in Files : FitText(f), FitStray
  PROVE  Spec /\ []SaveFits => []CleanMeansSaved
<1>1. Init => BufferInv
  BY BufferInitInv
<1>2. BufferInv /\ SaveFits /\ [Next]_vars => BufferInv'
  BY BufferSteps
<1>3. BufferInv => CleanMeansSaved
  BY DEF BufferInv
<1> QED
  BY <1>1, <1>2, <1>3, PTL DEF Spec

\* Under the same conditions the editor is one text with a cursor: every key
\* moves the cursor, inserts characters at it or deletes the one before it, and
\* nothing but these and a transfer that failed in load_file or save_file
\* changes the text or puts another in its place.
THEOREM EditorIsTextBuffer ==
  ASSUME \A f \in Files : FitText(f), FitStray
  PROVE  Spec /\ []SaveFits => ImplementsTextBuffer
<1>1. Init => BufferInv
  BY BufferInitInv
<1>2. BufferInv /\ SaveFits /\ [Next]_vars => BufferInv'
  BY BufferSteps
<1>3. Init /\ BufferInv => Buffer!Init
  <2> SUFFICES ASSUME Init, BufferInv PROVE Buffer!Init
    OBVIOUS
  <2>1. file \in Text /\ editing = FALSE /\ is_dirty = FALSE /\ lost = FALSE
    BY DEF BufferInv, EditorTypes, Init
  <2> QED
    BY <2>1, EmptyBuffer DEF Buffer!Init
<1>4. BufferInv /\ SaveFits /\ [Next]_vars => [Buffer!Next]_(Buffer!vars)
  <2> SUFFICES ASSUME BufferStep
               PROVE  Buffer!Next \/ UNCHANGED Buffer!vars
    BY BufferSteps
  <2>1. CASE OpensAs(file, FALSE)
    <3>1. Buffer!Open
      BY <2>1 DEF OpensAs, Buffer!Open, Buffer!OpenAs
    <3> QED
      BY <3>1 DEF Buffer!Next
  <2>2. CASE OpensAs(<<>>, TRUE)
    <3>1. Buffer!OpenLost
      BY <2>2 DEF OpensAs, Buffer!OpenLost, Buffer!OpenAs
    <3> QED
      BY <3>1 DEF Buffer!Next
  <2>3. CASE \E t \in Seq(Chars \cup {NL}) : Len(t) = Len(file) /\ OpensAs(t, TRUE)
    <3>1. Buffer!OpenLost
      BY <2>3 DEF OpensAs, Buffer!OpenLost, Buffer!OpenAs
    <3> QED
      BY <3>1 DEF Buffer!Next
  <2>4. CASE Quit /\ Offset' = Offset
    <3>1. Buffer!Close
      BY <2>4 DEF Quit, Buffer!Close
    <3> QED
      BY <3>1 DEF Buffer!Next
  <2>5. CASE SavesAs(TextOf(lines), FALSE)
    <3>1. Buffer!Save
      BY <2>5 DEF SavesAs, Buffer!Save, Buffer!SaveAs
    <3> QED
      BY <3>1 DEF Buffer!Next
  <2>6. CASE \E t \in Seq(Chars \cup {NL}) : Len(t) = Len(TextOf(lines)) /\ SavesAs(t, TRUE)
    <3>1. Buffer!SaveLost
      BY <2>6 DEF SavesAs, Buffer!SaveLost, Buffer!SaveAs
    <3> QED
      BY <3>1 DEF Buffer!Next
  <2>7. CASE UNCHANGED vars /\ Offset' = Offset
    BY <2>7 DEF vars, Buffer!vars
  <2>8. CASE JustMoves /\ UNCHANGED <<is_dirty, lost>> /\ editing
    <3>1. Buffer!Move
      BY <2>8 DEF JustMoves, Buffer!Move
    <3> QED
      BY <3>1 DEF Buffer!Next
  <2>9. CASE Deletes /\ Edits /\ editing
    <3>1. Buffer!Delete
      BY <2>9 DEF Deletes, Edits, Buffer!Edited, Buffer!Delete, Buffer!After, Cat
    <3> QED
      BY <3>1 DEF Buffer!Next
  <2>10. CASE InsertsSome /\ Edits /\ editing
    <3>1. PICK ch \in Chars \cup {NL}, k \in 1..4 : Inserts([i \in 1..k |-> ch])
      BY <2>10 DEF InsertsSome
    <3>2. Len([i \in 1..k |-> ch]) = k
      BY CharRun
    <3>3. Buffer!Insert(ch, k)
      BY <2>10, <3>1, <3>2
         DEF Inserts, Edits, Buffer!Edited, Buffer!Insert, Buffer!Before, Buffer!After, Cat
    <3> QED
      BY <3>1, <3>3 DEF Buffer!Next
  <2> QED
    BY <2>1, <2>2, <2>3, <2>4, <2>5, <2>6, <2>7, <2>8, <2>9, <2>10 DEF BufferStep
<1> QED
  BY <1>1, <1>2, <1>3, <1>4, PTL DEF Spec, ImplementsTextBuffer, Buffer!Spec
=============================================================================
