---------------------------- MODULE CompiledCode ----------------------------
(***************************************************************************)
(* Compiling and running programs, one after the other, on one booted      *)
(* kernel: compile_c_code (modules Lexer, Parser, Sema and Codegen) with   *)
(* the statics the last compilation left, then the processor executing the *)
(* image from its init_offset, one instruction a step.                     *)
(*                                                                         *)
(* What a C source means is in module CSource.  The two must agree on the  *)
(* returned value and the output.                                          *)
(*                                                                         *)
(* Registers have RegMod values and an int has IntMod; the code has 2^64   *)
(* and 2^32.  The stack is a sequence of cells that grows to the right: a  *)
(* pushed register takes one, each 4 bytes of the local area one.          *)
(***************************************************************************)
EXTENDS Codegen, Sema, CSource

CONSTANTS Programs,      \* sources: a tree, its text, and whether it is C
          Later,         \* those compiled one after the other
          MaxCompiles,   \* bound on the number of compilations
          Misread,       \* may the name of an earlier struct read as a word of the source?
          IntMod, RegMod

VARIABLES fixups,        \* static Fixup fixups[MAX_FIXUPS]
          front,         \* the parser's statics that are not reset
          program,       \* the source compiled last
          verdict,       \* how its compilation ended
          image,         \* the generator's tables and the init_offset
          cpu,           \* registers, stack, status; ghost left: the values that the
                         \* statements of each open call have left on the stack
          out,           \* what the program printed
          compiles

vars == <<fixups, front, program, verdict, image, cpu, out, compiles>>

ASSUME WidthAssumption == /\ IntMod \in Nat /\ RegMod \in Nat
                          /\ 0 < IntMod /\ IntMod < RegMod /\ RegMod % IntMod = 0

\* What an unwritten cell or register holds: no value of a C expression, and
\* nothing computed from it is one.
Junk == -RegMod
HaltPC == 0              \* the return address of the module's caller

SignedIn(v, mod) == IF v < mod \div 2 THEN v ELSE v - mod
AsInt(v) == IF v = Junk THEN Junk ELSE SignedIn(v % IntMod, IntMod)
AsReg(v) == v % RegMod

---------------------------------------------------------------------------
(* The processor *)

Cell(pos) == image.gen.code[pos - Header + 1]
InImage(pos) == pos >= Header /\ pos < CodeLen(image.gen)

Fault == [cpu EXCEPT !.status = "fault"]

\* The characters from pos up to the terminating NUL.
RECURSIVE TextAt(_)
TextAt(pos) ==
    IF ~InImage(pos) \/ Cell(pos).arg = NUL THEN <<>> ELSE <<Cell(pos).arg>> \o TextAt(pos + 1)

Top == Last(cpu.stack)
Popped == Front(cpu.stack)

Jumps(op) ==
    LET a == SignedIn(cpu.flags[1], RegMod)
        b == SignedIn(cpu.flags[2], RegMod)
    IN CASE op = "je" -> a = b [] op = "jne" -> a # b [] op = "jl" -> a < b
         [] op = "jg" -> a > b [] op = "jle" -> a <= b [] op = "jge" -> a >= b

ParamCell(i) == cpu.rbp - 2 - i
LocalCell(i) == cpu.rbp + i

\* What the instruction at pc leaves in the registers and on the stack.
AfterInstr(c, ins) ==
    LET op == ins.op
        a == SignedIn(c.rax, RegMod)
        b == SignedIn(c.rbx, RegMod)
        Result(v) == IF Junk \in {c.rax, c.rbx} THEN Junk ELSE AsReg(v)
    IN CASE op = "mov"  -> [c EXCEPT !.rax = AsReg(ins.arg)]
         [] op = "lea"  -> [c EXCEPT !.rax = AsReg(c.pc + ins.arg)]
         [] op = "push" -> [c EXCEPT !.stack = Append(@, c.rax),
                                     !.left = IF c.pc \in image.gen.dropped
                                              THEN [@ EXCEPT ![Len(@)] = @ + 1] ELSE @]
         [] op = "pop"  -> [c EXCEPT ![ins.arg] = Top, !.stack = Popped]
         [] op = "poparg" -> [c EXCEPT !.args[ins.arg] = Top, !.stack = Popped]
         [] op = "argzero" -> [c EXCEPT !.args[ins.arg] = 0]
         [] op = "+"    -> [c EXCEPT !.rax = Result(a + b)]
         [] op = "-"    -> [c EXCEPT !.rax = Result(a - b)]
         [] op = "*"    -> [c EXCEPT !.rax = Result(a * b)]
         [] op = "/"    -> IF b = 0 THEN Fault ELSE [c EXCEPT !.rax = Result(Quotient(a, b))]
         [] op = "cmp"  -> [c EXCEPT !.flags = <<c.rax, c.rbx>>]
         [] op = "test" -> [c EXCEPT !.flags = <<c.rax, 0>>]
         [] op = "load64"  -> [c EXCEPT !.rax = c.stack[ParamCell(ins.arg)]]
         [] op = "load32"  -> [c EXCEPT !.rax = c.stack[LocalCell(ins.arg)]]
         [] op = "store64" -> [c EXCEPT !.stack[ParamCell(ins.arg)] = c.rax]
         [] op = "store32" -> [c EXCEPT !.stack[LocalCell(ins.arg)] =
                                         IF c.rax = Junk THEN Junk ELSE c.rax % IntMod]
         [] op = "enter" -> [c EXCEPT !.rbp = Len(c.stack) + 1, !.left = Append(@, 0),
                                      !.stack = @ \o <<c.rbp>> \o [i \in 1..ins.arg |-> Junk]]
         [] op = "leave" -> [c EXCEPT !.rbp = c.stack[c.rbp], !.left = Front(@),
                                      !.stack = SubSeq(@, 1, c.rbp - 1)]
         [] op = "ret"   -> [c EXCEPT !.pc = Top, !.stack = Popped]
         [] op = "jmp"   -> [c EXCEPT !.pc = @ + ins.arg]
         [] op \in {"je", "jne", "jl", "jg", "jle", "jge"} ->
              IF Junk \in ToSet(c.flags) THEN Fault
              ELSE IF Jumps(op) THEN [c EXCEPT !.pc = @ + ins.arg] ELSE c
         [] op = "call"  -> [c EXCEPT !.stack = Append(@, c.pc), !.pc = @ + ins.arg]
         [] op = "addrsp" -> [c EXCEPT !.stack = SubSeq(@, 1, Len(@) - ins.arg)]
         [] op = "native" -> [c EXCEPT !.rax = Junk]
         [] OTHER -> Fault

\* What a kernel function called by the code prints.
Shown(fn) ==
    LET regs == [i \in DOMAIN cpu.args |-> AsInt(cpu.args[i])]
    IN CASE fn \in {"print_str", "kprintf"} -> Printed(TextAt(cpu.args[1]), Tail(regs))
         [] OTHER -> Printed(<<fn, "%d">>, regs)

FreshFixup == [label_id |-> 0, patch_pos |-> 0, is_func_call |-> FALSE, func_name |-> ""]
FreshFixups == [i \in 0..MAX_FIXUPS - 1 |-> FreshFixup]

NoImage == [gen |-> NullNode, init_offset |-> 0]
Idle == [status |-> "idle", pc |-> 0, rax |-> Junk, rbx |-> Junk, rbp |-> 0,
         flags |-> <<0, 0>>, args |-> [i \in 1..6 |-> Junk], stack |-> <<>>, left |-> <<>>]

FreshFront == [symtab |-> <<>>, struct_table |-> <<>>, gbr |-> 1048576]
NoSource == [tree |-> <<>>, text |-> <<>>, valid |-> FALSE]

Init ==
    /\ fixups = FreshFixups
    /\ front = FreshFront
    /\ program = NoSource
    /\ verdict = "none"
    /\ image = NoImage
    /\ cpu = Idle
    /\ out = <<>>
    /\ compiles = 0

\* comp_reset_arena gives the names of earlier structs away: each reads as
\* some word of the new source, or as none.
StaleNames(text) ==
    [DOMAIN front.struct_table ->
        {""} \cup IF Misread THEN {c \in ToSet(text) : IsWord(c)} ELSE {}]

\* What the parser left, p, goes through semantic analysis and generator.
AfterParsing(p, fix) ==
    LET status == CASE p.status # "ok" -> p.status [] SemaPasses(p) -> "ok" [] OTHER -> "exit"
    IN [status |-> status,
        front |-> [symtab |-> p.symtab, struct_table |-> p.struct_table, gbr |-> p.gbr],
        image |-> IF status = "ok" THEN CodegenEmit(p.global_table, fix) ELSE NoImage]

\* compile_c_code on a source, with the given statics.  An error leaves by
\* longjmp.
CompileText(text, statics, fix) ==
    LET toks == InitLexer(text)
    IN IF Overrun(toks) THEN [status |-> "undefined", front |-> statics, image |-> NoImage]
       ELSE AfterParsing(ParseTopLevel(toks, statics), fix)

\* The compile command.  A compiler that hangs keeps the processor.
Compile(S, names) ==
    /\ cpu.status \in {"idle", "halt"}
    /\ compiles < MaxCompiles
    /\ compiles' = compiles + 1
    /\ program' = S
    /\ LET structs == [i \in DOMAIN names |-> [front.struct_table[i] EXCEPT !.name = names[i]]]
       IN \E r \in {CompileText(S.text, [front EXCEPT !.struct_table = structs], fixups)} :
            /\ verdict' = r.status
            /\ front' = r.front
            /\ image' = r.image
            /\ fixups' = IF r.status = "ok" THEN r.image.gen.fixups ELSE fixups
            /\ cpu' = [Idle EXCEPT !.status = CASE r.status = "ok" -> "loaded"
                                               [] r.status = "hang" -> "hang"
                                               [] OTHER -> "idle"]
    /\ out' = <<>>

\* The run command calls the entry of the image just written.
RunImage ==
    /\ cpu.status = "loaded"
    /\ cpu' = [Idle EXCEPT !.status = "run", !.pc = image.init_offset, !.stack = <<HaltPC>>]
    /\ UNCHANGED <<fixups, front, program, verdict, image, out, compiles>>

Step ==
    /\ cpu.status = "run"
    /\ cpu.pc # HaltPC
    /\ UNCHANGED <<fixups, front, program, verdict, image, compiles>>
    /\ IF InImage(cpu.pc)
       THEN LET ins == Cell(cpu.pc)
            IN /\ cpu' = AfterInstr([cpu EXCEPT !.pc = @ + 1], ins)
               /\ out' = IF ins.op = "native" THEN Append(out, Shown(ins.arg)) ELSE out
       ELSE cpu' = Fault /\ UNCHANGED out

\* The code has returned to its caller.
Halt ==
    /\ cpu.status = "run"
    /\ cpu.pc = HaltPC
    /\ cpu' = [cpu EXCEPT !.status = "halt"]
    /\ UNCHANGED <<fixups, front, program, verdict, image, out, compiles>>

\* The sources the compile command may be given now.
Offered == CASE compiles = 0 -> Programs [] program \in Later -> Later [] OTHER -> {}

Next == Step \/ Halt \/ RunImage
        \/ \E S \in Offered : \E names \in StaleNames(S.text) : Compile(S, names)

\* The processor goes on executing.
Spec == Init /\ [][Next]_vars /\ WF_vars(Step \/ Halt)

---------------------------------------------------------------------------
(* Type invariant: the generator's tables stay within their arrays, no     *)
(* hole lies behind the end of the code, and the processor never leaves    *)
(* the image.                                                              *)
TypeOK ==
    /\ fixups \in [0..MAX_FIXUPS - 1 ->
                      [label_id : Nat, patch_pos : Nat, is_func_call : BOOLEAN,
                       func_name : STRING]]
    /\ cpu.status \in {"idle", "loaded", "run", "halt"}
    /\ compiles \in 0..MaxCompiles
    /\ image # NoImage =>
         /\ image.gen.num_fixups \in 0..MAX_FIXUPS
         /\ Len(image.gen.pool) <= MAX_STR_POOL
         /\ \A i \in 0..image.gen.num_fixups - 1 : InImage(image.gen.fixups[i].patch_pos)

(* The compiled program returns what the C source means and prints the     *)
(* same (gen_code_x86 and gen_condition as a whole).                       *)
ResultCorrect ==
    cpu.status = "halt" =>
        /\ AsInt(cpu.rax) = Meaning(program.tree).value
        /\ out = Meaning(program.tree).out

\* The place a branch or a loop goes on, and the end of the frame there.
AtLabel == cpu.status = "run" /\ \E l \in DOMAIN image.gen.label_pos :
                                     image.gen.label_pos[l] = cpu.pc

FrameEnd ==
    LET entries == {image.gen.funcs[f].offset : f \in DOMAIN image.gen.funcs}
    IN cpu.rbp + Cell(Max({e \in entries : e <= cpu.pc})).arg


(* Every loop runs in constant space: at a label the stack ends with the   *)
(* frame (the end of NODE_CALL in gen_code_x86).                           *)
BalancedAtLabels == AtLabel => Len(cpu.stack) = FrameEnd

(* Every jump of an image leads to a label its own code marked and every   *)
(* call to the entry of one of its functions: patch_fixups left no hole    *)
(* and filled none with another's target.                                  *)
JumpsResolved ==
    image # NoImage =>
        \A i \in DOMAIN image.gen.code :
            LET ins == image.gen.code[i]
                target == Header + i + ins.arg
            IN /\ ins.op \in {"jmp", "je", "jne", "jl", "jg", "jle", "jge"} =>
                     \E l \in DOMAIN image.gen.label_pos : image.gen.label_pos[l] = target
               /\ ins.op = "call" =>
                     \E f \in DOMAIN image.gen.funcs : image.gen.funcs[f].offset = target

(* A compilation ends with an image for a program that is C and with an    *)
(* error for one that is not (parser.c and sema.c as a whole).             *)
VerdictCorrect == verdict # "none" => (verdict = "ok") = program.valid

\* The holes behind the test of a value that count as calls, because a call of
\* an earlier compilation had the entry of fixups[].
Mistaken ==
    {i \in 0..image.gen.num_fixups - 1 :
        /\ image.gen.fixups[i].is_func_call
        /\ Cell(image.gen.fixups[i].patch_pos - 1).op = "test"}

\* Verdict and image are those of the first compilation after the start of the
\* kernel.
AsFresh ==
    \E fresh \in {CompileText(program.text, FreshFront, FreshFixups)} :
        /\ verdict = fresh.status
        /\ verdict = "ok" => /\ image.gen.code = fresh.image.gen.code
                             /\ image.init_offset = fresh.image.init_offset

Compiled == verdict # "none" /\ cpu.status \in {"idle", "loaded"}


(* What was compiled before has no influence at all.                       *)
AlwaysHistoryFree == Compiled => AsFresh

(* The compiler comes back, and a program whose source terminates runs to  *)
(* its end: no jump of the compiled loops and calls goes astray.           *)
Terminates == (cpu.status \in {"run", "hang"}) ~> (cpu.status = "halt")
============================================================================
