------------------------------ MODULE Codegen ------------------------------
(***************************************************************************)
(* The x86-64 code generator (compiler/codegen_x86.c): one pass over the   *)
(* syntax tree emits stack-machine code, leaves holes for the jumps, calls *)
(* and strings whose place is not known yet, and patches the holes at the  *)
(* end.  The model emits one cell per instruction instead of bytes, so a   *)
(* displacement counts cells from the next instruction.                    *)
(*                                                                         *)
(* The tables of the generator are static C arrays.  codegen_x86_emit      *)
(* resets every counter and the label table, but not the entries of        *)
(* fixups[]: what the previous compilation wrote there is still there.     *)
(*                                                                         *)
(* It reads the trees of module Parser.                                    *)
(***************************************************************************)
EXTENDS Parser

CONSTANTS MAX_LABELS, MAX_FIXUPS, MAX_FUNCS, MAX_STR_POOL, MAX_STR_FIXUPS,
          CODE_BUF_SIZE

\* Byte 0..63 of the image is the DiskModuleHeader; code starts behind it.
Header == 64

---------------------------------------------------------------------------
(* Emitters.  g is the generator's static state:                           *)
(*   code, fixups, num_fixups, label_pos, next_label, funcs, pool, strs;   *)
(* and a ghost, dropped: the places where an expression that is a statement *)
(* has just left its value on the stack.                                   *)

CodeLen(g) == Header + Len(g.code)

Instr(op, arg) == [op |-> op, arg |-> arg]

\* emit_byte and its callers: a full buffer swallows what does not fit.
EmitAll(list, g) ==
    LET room == CODE_BUF_SIZE - CodeLen(g)
    IN [g EXCEPT !.code = @ \o SubSeq(list, 1, IF Len(list) < room THEN Len(list) ELSE room)]

Emit(ins, g) == EmitAll(<<ins>>, g)

PushRax == Instr("push", "rax")
PopRax == Instr("pop", "rax")
PopRbx == Instr("pop", "rbx")

\* Parameters have negative offsets -12, -16, ...; locals 0, 4, ...
IsParam(offset) == offset < 0
ArgIndex(offset) == (-12 - offset) \div 4

LoadLocal(offset) ==
    << IF IsParam(offset) THEN Instr("load64", ArgIndex(offset))
                          ELSE Instr("load32", (offset + 8) \div 4), PushRax >>


StoreLocal(offset) ==
    << PopRax, IF IsParam(offset) THEN Instr("store64", ArgIndex(offset))
                                  ELSE Instr("store32", (offset + 8) \div 4) >>

\* push rbp; mov rsp, rbp; sub: the local area, in 4-byte cells, is rounded
\* up to a multiple of 16 bytes.
Prologue(local_bytes) == << Instr("enter", ((local_bytes + 15) \div 16) * 4) >>

Epilogue == << Instr("leave", 0), Instr("ret", 0) >>

---------------------------------------------------------------------------
(* Labels and holes *)

AllocLabel(g) ==
    [g EXCEPT !.next_label = @ + 1,
              !.label_pos = IF g.next_label < MAX_LABELS
                            THEN [@ EXCEPT ![g.next_label] = -1] ELSE @]

MarkLabel(id, g) ==
    IF id < MAX_LABELS THEN [g EXCEPT !.label_pos[id] = CodeLen(g)] ELSE g

\* Writes the given fields of the next entry of fixups[]; the others keep
\* what an earlier compilation left in them.
AddFixup(fields, g) ==
    IF g.num_fixups < MAX_FIXUPS
    THEN LET old == g.fixups[g.num_fixups]
             new == [k \in DOMAIN old |-> IF k \in DOMAIN fields THEN fields[k] ELSE old[k]]
         IN [g EXCEPT !.fixups[g.num_fixups] = new, !.num_fixups = @ + 1]
    ELSE g


\* A hole for a jump is recorded at the instruction that holds it.
JumpFixup(label, g) ==
    AddFixup([label_id |-> label, patch_pos |-> CodeLen(g), is_func_call |-> FALSE], g)

EmitJmp(label, g) == Emit(Instr("jmp", 0), JumpFixup(label, g))

\* The jump instruction a comparison selects; any other operator gives jne.
JumpOf(op) ==
    CASE op = "<" -> "jl" [] op = ">" -> "jg" [] op = "<=" -> "jle"
      [] op = ">=" -> "jge" [] op = "==" -> "je" [] OTHER -> "jne"

EmitCondJump(op, label, g) ==
    LET g1 == EmitAll(<<PopRbx, PopRax, Instr("cmp", 0)>>, g)
    IN Emit(Instr(JumpOf(op), 0), JumpFixup(label, g1))

FindFunc(name, g) ==
    LET I == {i \in DOMAIN g.funcs : g.funcs[i].name = name}
    IN IF I = {} THEN -1 ELSE g.funcs[Min(I)].offset

RegisterFunc(name, g) ==
    IF Len(g.funcs) < MAX_FUNCS
    THEN [g EXCEPT !.funcs = Append(@, [name |-> name, offset |-> CodeLen(g)])]
    ELSE g

\* Where fixup f points, or -1 when it stays a hole (rel 0).
FixupTarget(f, g) ==
    IF f.is_func_call THEN FindFunc(f.func_name, g)
    ELSE IF f.label_id < MAX_LABELS THEN g.label_pos[f.label_id] ELSE -1

\* Plausible slip: the address itself is written instead of the distance.
PatchAbsolute(pos, target, g) ==
    IF target = -1 \/ pos >= CodeLen(g) THEN g
    ELSE [g EXCEPT !.code[pos - Header + 1].arg = target]

\* A hole without a target stays 0.  One that emit_u32 could not place any
\* more lies behind the buffer, where the code writes all the same.
Patch(pos, target, g) ==
    IF target = -1 \/ pos >= CodeLen(g) THEN g
    ELSE [g EXCEPT !.code[pos - Header + 1].arg = target - (pos + 1)]

PatchFixups(g) ==
    FoldLeft(LAMBDA acc, i : Patch(g.fixups[i].patch_pos, FixupTarget(g.fixups[i], g), acc),
             g, [i \in 1..g.num_fixups |-> i - 1])

---------------------------------------------------------------------------
(* The string pool.  A literal is a sequence of characters with its quotes *)
(* and its backslashes; NUL ends it in the pool.                           *)

NUL == "NUL"

Escaped(c) ==
    CASE c = "n" -> "LF" [] c = "t" -> "TAB" [] c = "r" -> "CR" [] c = "0" -> NUL
      [] OTHER -> c

\* One character of raw starting at i: what it stores and where it goes on.
Unescape(raw, i, end) ==
    IF raw[i] = "\\" /\ i + 1 <= end
    THEN [char |-> Escaped(raw[i + 1]), next |-> i + 2]
    ELSE [char |-> raw[i], next |-> i + 1]

RECURSIVE CopyString(_, _, _, _)
CopyString(raw, i, end, pool) ==
    IF i <= end /\ Len(pool) < MAX_STR_POOL - 2
    THEN LET u == Unescape(raw, i, end)
         IN CopyString(raw, u.next, end, Append(pool, u.char))
    ELSE Append(pool, NUL)

AddToPool(raw, pool) ==
    LET first == IF raw[1] = "\"" THEN 2 ELSE 1
        end == IF Len(raw) >= first /\ Last(raw) = "\"" THEN Len(raw) - 1 ELSE Len(raw)
    IN CopyString(raw, first, end, pool)

PatchStrings(start, g) ==
    FoldLeft(LAMBDA acc, s : Patch(s.pos, start + s.offset, acc), g, g.strs)

---------------------------------------------------------------------------
(* AST traversal *)

RECURSIVE GenCode(_, _)

Inverted(op) ==
    CASE op = "<" -> ">=" [] op = ">" -> "<=" [] op = "<=" -> ">" [] op = ">=" -> "<"
      [] op = "==" -> "!=" [] op = "!=" -> "==" [] OTHER -> op

\* A statement.  The value of an expression stays on the stack.
GenStatement(n, g) ==
    LET g1 == GenCode(n, g)
    IN IF n.type \in {"NODE_INT", "NODE_VAR", "NODE_BIN", "NODE_CALL", "NODE_POINTER", "NODE_STR"}
       THEN [g1 EXCEPT !.dropped = @ \cup {CodeLen(g1)}] ELSE g1

\* gen_condition(cond, label, 0): both callers jump when cond is FALSE.  The
\* test branch does not write is_func_call of its fixup.
GenCondition(cond, label, g) ==
    IF cond = NullNode THEN g
    ELSE IF cond.type = "NODE_BIN"
    THEN EmitCondJump(Inverted(cond.op), label, GenCode(cond.right, GenCode(cond.left, g)))
    ELSE LET g1 == EmitAll(<<PopRax, Instr("test", 0)>>, GenCode(cond, g))
         IN Emit(Instr("je", 0),
                 AddFixup([label_id |-> label, patch_pos |-> CodeLen(g1)], g1))

\* Any operator but the four arithmetic ones leaves the left operand.
GenBin(n, g) ==
    LET g1 == EmitAll(<<PopRbx, PopRax>>, GenCode(n.right, GenCode(n.left, g)))
        g2 == IF n.op \in {"+", "-", "*", "/"} THEN Emit(Instr(n.op, 0), g1) ELSE g1
    IN Emit(PushRax, g2)

\* The parser binds the offset in the assignment node, where 0 also means
\* "not bound" and sends the generator to the left side.  A dereference has
\* its operand in unary.expr, and the pointer.value read here stays NULL.
GenAssign(n, g) ==
    LET g1 == GenCode(n.right, g)
    IN CASE n.left.type = "NODE_VAR" ->
              EmitAll(StoreLocal(IF n.offset # 0 THEN n.offset ELSE n.left.offset), g1)
         [] n.left.type = "NODE_POINTER" ->
              EmitAll(<<PopRax, PopRbx, Instr("poke", 0)>>, GenCode(n.left.value, g1))
         [] OTHER -> g1

GenReturn(n, g) ==
    EmitAll(Epilogue,
            IF n.value = NullNode THEN Emit(Instr("mov", 0), g)
                                  ELSE Emit(PopRax, GenCode(n.value, g)))

GenIf(n, g) ==
    LET lbl_else == g.next_label
        lbl_exit == g.next_label + 1
        hasElse == n.else_stmt # NullNode
        g1 == GenCondition(n.cond, IF hasElse THEN lbl_else ELSE lbl_exit,
                           AllocLabel(AllocLabel(g)))
        g2 == GenStatement(n.then_stmt, g1)
        g3 == IF hasElse
              THEN GenStatement(n.else_stmt, MarkLabel(lbl_else, EmitJmp(lbl_exit, g2)))
              ELSE g2
    IN MarkLabel(lbl_exit, g3)

\* Plausible slip: the test jumps to the wrong one of the two labels.
GenWhileWrongLabel(n, g) ==
    LET lbl_start == g.next_label
        lbl_exit == g.next_label + 1
        g1 == GenCondition(n.cond, lbl_start, MarkLabel(lbl_start, AllocLabel(AllocLabel(g))))
        g2 == EmitJmp(lbl_start, GenCode(n.then_stmt, g1))
    IN MarkLabel(lbl_exit, g2)

GenWhile(n, g) ==
    LET lbl_start == g.next_label
        lbl_exit == g.next_label + 1
        g1 == GenCondition(n.cond, lbl_exit, MarkLabel(lbl_start, AllocLabel(AllocLabel(g))))
        g2 == EmitJmp(lbl_start, GenStatement(n.then_stmt, g1))
    IN MarkLabel(lbl_exit, g2)

\* A declaration stores its initialiser, if any, and leaves nothing behind.
GenStmt(n, g) ==
    IF n.type # "NODE_VAR" THEN GenStatement(n, g)
    ELSE IF n.value = NullNode THEN g
    ELSE EmitAll(StoreLocal(n.offset), GenCode(n.value, g))

\* The statements one by one; the second test is always false and makes TLC
\* evaluate the code so far before it goes on.
RECURSIVE GenStmts(_, _)
GenStmts(stmts, g) ==
    IF stmts = <<>> \/ CodeLen(g) > CODE_BUF_SIZE THEN g
    ELSE GenStmts(Tail(stmts), GenStmt(Head(stmts), g))

GenBlock(n, g) == GenStmts(n.body, g)

GenArgsReversed(args, g) == FoldLeft(LAMBDA acc, a : GenCode(a, acc), g, Reverse(args))

PopArg(i) == Instr("poparg", i)

\* A call of a kernel function: its address in rbx, its result pushed.
CallNative(fn) == << Instr("native", fn), PushRax >>

\* printf: one argument is a string to print; more go to kprintf in up to
\* six registers.
GenPrintf(args, g) ==
    CASE Len(args) = 0 -> Emit(PushRax, g)
      [] Len(args) = 1 -> EmitAll(<<PopArg(1)>> \o CallNative("print_str"), GenCode(args[1], g))
      [] OTHER -> LET n == IF Len(args) < 6 THEN Len(args) ELSE 6
                  IN EmitAll([i \in 1..n |-> PopArg(i)] \o <<Instr("mov", 0)>>
                               \o CallNative("kprintf"), GenArgsReversed(args, g))

\* print, kprintf and putc take their first argument, or 0.
GenPrint(fn, args, g) ==
    LET g1 == IF args = <<>> THEN Emit(Instr("argzero", 1), g)
                             ELSE Emit(PopArg(1), GenCode(args[1], g))
    IN EmitAll(CallNative(fn), g1)

\* A function already emitted is called directly, another through a fixup.
GenUserCall(name, args, g) ==
    LET g1 == GenArgsReversed(args, g)
        pos == CodeLen(g1)
        target == FindFunc(name, g1)
        g2 == IF target # -1
              THEN Emit(Instr("call", target - (pos + 1)), g1)
              ELSE Emit(Instr("call", 0),
                        AddFixup([is_func_call |-> TRUE, func_name |-> name,
                                  patch_pos |-> pos], g1))
        g3 == IF args = <<>> THEN g2 ELSE Emit(Instr("addrsp", Len(args)), g2)
    IN Emit(PushRax, g3)

\* At most 32 arguments are looked at.
GenCall(n, g) ==
    LET args == SubSeq(n.args, 1, IF Len(n.args) < 32 THEN Len(n.args) ELSE 32)
    IN CASE n.name = "printf" -> GenPrintf(args, g)
         [] n.name \in {"print", "kprintf"} -> GenPrint("print", args, g)
         [] n.name = "putc" -> GenPrint("putc", args, g)
         [] OTHER -> GenUserCall(n.name, args, g)

GenStr(n, g) ==
    LET g1 == [g EXCEPT !.pool = AddToPool(n.string, @)]
        g2 == IF Len(g.strs) < MAX_STR_FIXUPS
              THEN [g1 EXCEPT !.strs = Append(@, [pos |-> CodeLen(g), offset |-> Len(g.pool)])]
              ELSE g1
    IN EmitAll(<<Instr("lea", 0), PushRax>>, g2)

\* Nodes of any other kind (break, continue, ++, &, arrays, structs, global
\* variables) generate nothing.
GenCode(n, g) ==
    CASE n.type = "NODE_INT"    -> EmitAll(<<Instr("mov", n.int_val), PushRax>>, g)
      [] n.type = "NODE_VAR"    -> EmitAll(LoadLocal(n.offset), g)
      [] n.type = "NODE_BIN"    -> GenBin(n, g)
      [] n.type = "NODE_ASSIGN" -> GenAssign(n, g)
      [] n.type = "NODE_RETURN" -> GenReturn(n, g)
      [] n.type = "NODE_IF"     -> GenIf(n, g)
      [] n.type = "NODE_WHILE"  -> GenWhile(n, g)
      [] n.type = "NODE_BLOCK"  -> GenBlock(n, g)
      [] n.type = "NODE_CALL"   -> GenCall(n, g)
      [] n.type = "NODE_POINTER" -> EmitAll(<<PopRbx, Instr("peek", 0), PushRax>>,
                                            GenCode(n.value, g))
      [] n.type = "NODE_STR"    -> GenStr(n, g)
      [] OTHER -> g

---------------------------------------------------------------------------
(* The driver *)

\* One function of the global table; a prototype has a NullNode body and
\* still gets an entry and a frame.
GenFunction(fn, g) ==
    EmitAll(Epilogue,
            GenCode(fn.body, EmitAll(Prologue(fn.localvarbyte + 32), RegisterFunc(fn.name, g))))

RECURSIVE GenFunctions(_, _)
GenFunctions(functions, g) ==
    IF functions = <<>> \/ CodeLen(g) > CODE_BUF_SIZE THEN g
    ELSE GenFunctions(Tail(functions), GenFunction(Head(functions), g))

RECURSIVE AlignCode(_)
AlignCode(g) == IF CodeLen(g) % 8 = 0 THEN g ELSE AlignCode(Emit(Instr("nop", 0), g))

FirstFound(names, g) ==
    LET I == {i \in DOMAIN names : FindFunc(names[i], g) # -1}
    IN IF I = {} THEN Header ELSE FindFunc(names[Min(I)], g)

\* codegen_x86_emit on the functions of the global table, with whatever the
\* static fixups[] holds.
CodegenEmit(global_table, fixups) ==
    LET functions == SelectSeq(global_table, LAMBDA n : n.type = "NODE_FUNC")
        g0 == [code |-> <<>>, fixups |-> fixups, num_fixups |-> 0,
               label_pos |-> [i \in 0..MAX_LABELS - 1 |-> -1], next_label |-> 1,
               funcs |-> <<>>, pool |-> <<>>, strs |-> <<>>, dropped |-> {}]
        g1 == AlignCode(GenFunctions(functions, g0))
        g2 == EmitAll([i \in DOMAIN g1.pool |-> Instr("data", g1.pool[i])], g1)
        g3 == PatchStrings(CodeLen(g1), PatchFixups(g2))
    IN [gen |-> g3, init_offset |-> FirstFound(<<"main", "module_init", "init">>, g3)]

============================================================================
