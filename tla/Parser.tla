------------------------------- MODULE Parser -------------------------------
(***************************************************************************)
(* The recursive-descent and Pratt parser (compiler/parser.c).  Every      *)
(* parse function is an operator on the parser's static state s:           *)
(*   toks, tp1      the tokens and the next one                            *)
(*   bp             the next free offset of the frame                      *)
(*   symtab, sp     symbols; entries behind sp are left from earlier       *)
(*   global_table   functions and global variables                        *)
(*   struct_table   all structs since the start of the kernel: init_parser *)
(*                  does not reset st_count                                *)
(*   gbr            the next global's address, never reset either          *)
(*   node           what the last parse function returned                  *)
(*   status         "ok", "exit" (exit(1): the longjmp to the driver),     *)
(*                  "hang" (a loop that no token ends), or "undefined"     *)
(*                                                                         *)
(* Statement functions return the list that the code links by next.  A     *)
(* node's token_id is kept as tok, the first token where the code leaves   *)
(* it 0 (and for postfix ++ and --, where it is the number of the operator *)
(* and read only if x++ is called); the tokens are counted from 1.         *)
(***************************************************************************)
EXTENDS Lexer

CONSTANTS CharCode,      \* the code of a character
          NodeAddress    \* stands for the address of a node, read as a long

NullNode == [type |-> "NULL"]

IntNode(v, t) == [type |-> "NODE_INT", int_val |-> v, tok |-> t]
BinNode(op, l, r) == [type |-> "NODE_BIN", op |-> op, left |-> l, right |-> r, tok |-> 1]
UnaryNode(t, e, k) == [type |-> t, expr |-> e, value |-> NullNode, tok |-> k]
BlockNode(stmts) == [type |-> "NODE_BLOCK", body |-> stmts, tok |-> 1]

TypeAt(s, i) == IF i <= Len(s.toks) THEN s.toks[i].type ELSE "T_EOF"
Peek(s) == TypeAt(s, s.tp1)
Match(t, s) == s.status = "ok" /\ Peek(s) = t
NameAt(s, i) == Head(s.toks[i].text)

Fail(why, s) == IF s.status = "ok" THEN [s EXCEPT !.status = why, !.node = NullNode] ELSE s
Returning(n, s) == [s EXCEPT !.node = n]

\* Goes on with F from the state s, unless parsing has ended; Wrap makes the
\* node that is returned from the one in s.
Then(s, F(_)) == IF s.status = "ok" THEN F(s) ELSE s
Wrap(s, N(_)) == IF s.status = "ok" THEN [s EXCEPT !.node = N(@)] ELSE s

\* advance does not move at the end, and then returns nothing.
Advance(s) ==
    CASE s.status # "ok" -> s
      [] Peek(s) = "T_EOF" -> Fail("undefined", s)
      [] OTHER -> [s EXCEPT !.tp1 = @ + 1]

Consume(t, s) == IF Match(t, s) THEN [s EXCEPT !.tp1 = @ + 1] ELSE Fail("exit", s)

\* A separator that may be missing.
Skip(t, s) == IF Match(t, s) THEN Advance(s) ELSE s

RECURSIVE SkipAll(_, _)
SkipAll(t, s) == IF Match(t, s) THEN SkipAll(t, Advance(s)) ELSE s

---------------------------------------------------------------------------
(* Tables *)

ZeroRecord == [name |-> "", type |-> "T_EOF", offset |-> 0, is_global |-> FALSE,
               ptrlvl |-> 0, dim0 |-> 0, struct_id |-> 0]

\* Fields that are not given keep what was there.
AddToSymtab(name, offset, isg, type, lvl, s) ==
    LET old == IF s.sp < Len(s.symtab) THEN s.symtab[s.sp + 1] ELSE ZeroRecord
        new == [old EXCEPT !.name = name, !.type = type, !.offset = offset,
                           !.is_global = isg, !.ptrlvl = lvl]
    IN IF s.status # "ok" THEN s
       ELSE [s EXCEPT !.symtab = SubSeq(@, 1, s.sp) \o <<new>> \o SubSeq(@, s.sp + 2, Len(@)),
                      !.sp = @ + 1]

\* The last symbol of the name in the whole program so far, or 0: no scope
\* is ever closed.
FindSymbol(name, s) ==
    SelectLastInSubSeq(s.symtab, 1, s.sp, LAMBDA r : r.name = name)

FindStruct(name, s) ==
    SelectInSeq(s.struct_table, LAMBDA e : e.name = name) - 1

IsType(s) ==
    \/ Peek(s) \in {"int", "char", "void", "struct"}
    \/ Peek(s) = "T_IDENTIFIER" /\ FindStruct(NameAt(s, s.tp1), s) # -1

\* Only the head of a list of global declarations is entered.
AppendNode(n, s) == [s EXCEPT !.global_table = Append(@, n)]

---------------------------------------------------------------------------
(* Expressions *)

\* Plausible slip: all arithmetic operators bind alike.
GetPrecedenceFlat(t) ==
    CASE t \in {"++", "--", "(", "[", ".", "->"} -> 80
      [] t \in {"*", "/", "%", "+", "-"} -> 60
      [] t \in {"<", ">", "<=", ">="} -> 30
      [] t \in {"==", "!="} -> 20
      [] OTHER -> 0

GetPrecedence(t) ==
    CASE t \in {"++", "--", "(", "[", ".", "->"} -> 80
      [] t \in {"*", "/", "%"} -> 60
      [] t \in {"+", "-"} -> 40
      [] t \in {"<", ">", "<=", ">="} -> 30
      [] t \in {"==", "!="} -> 20
      [] OTHER -> 0

RECURSIVE ParseExpression(_, _), LedLoop(_, _), ParseList(_, _, _), Subscripts(_)

\* Expressions up to the token stop, with or without commas between them.
ParseList(stop, acc, s) ==
    IF s.status # "ok" \/ Match(stop, s) THEN Consume(stop, Returning(acc, s))
    ELSE Then(ParseExpression(0, s),
              LAMBDA r : ParseList(stop, Append(acc, r.node), Skip(",", r)))

\* [e] after a variable: the index hangs on the node and nothing reads it.
Subscripts(s) ==
    IF ~Match("[", s) THEN s
    ELSE Subscripts(Wrap(Consume("]", ParseExpression(0, Advance(s))),
                         LAMBDA e : [s.node EXCEPT !.index = Append(@, e)]))

CharValue(text) ==
    IF text[2] # "\\" THEN CharCode[text[2]]
    ELSE CASE text[3] = "n" -> 10 [] text[3] = "t" -> 9 [] text[3] = "0" -> 0
           [] OTHER -> CharCode[text[3]]

\* A name that is not declared gets offset 0 here.
IdentifierNode(name, t, s) ==
    LET id == FindSymbol(name, s)
        r == IF id = 0 THEN ZeroRecord ELSE s.symtab[id]
    IN [type |-> IF r.is_global THEN "NODE_GVAR" ELSE "NODE_VAR", name |-> name,
        offset |-> r.offset, dt |-> r.type, value |-> NullNode, rest |-> <<>>,
        index |-> <<>>, tok |-> t]

UnaryType == [t \in {"*", "&", "++", "--"} |->
                 CASE t = "*" -> "NODE_POINTER" [] t = "&" -> "NODE_ADDR"
                   [] t = "++" -> "NODE_PREINC" [] t = "--" -> "NODE_PREDEC"]

Nud(s) ==
    LET t == Peek(s)
        text == s.toks[s.tp1].text
    IN CASE s.status # "ok" -> s
         [] t \in DOMAIN UnaryType ->
              Wrap(ParseExpression(IF t \in {"++", "--"} THEN 70 ELSE 90, Advance(s)),
                   LAMBDA e : UnaryNode(UnaryType[t], e, s.tp1))
         [] t = "-" -> Wrap(ParseExpression(90, Advance(s)),
                            LAMBDA e : BinNode("-", IntNode(0, 1), e))
         [] t = "T_INT" -> Returning(IntNode(Atoi(text), s.tp1), Advance(s))
         [] t = "(" -> Consume(")", ParseExpression(0, Advance(s)))
         [] t = "T_CHAR" -> Returning(IntNode(CharValue(text), s.tp1), Advance(s))
         [] t = "T_IDENTIFIER" ->
              Subscripts(Returning(IdentifierNode(Head(text), s.tp1, s), Advance(s)))
         [] t = "\"" -> Returning([type |-> "NODE_STR", string |-> text, tok |-> s.tp1],
                                  Advance(s))
         [] OTHER -> Fail("exit", s)

\* The struct of the expression left of . or ->, or -1.
StructOf(left, s) ==
    CASE left.type \in {"NODE_VAR", "NODE_GVAR"} ->
           LET id == FindSymbol(NameAt(s, left.tok), s)
           IN IF id = 0 THEN -1 ELSE s.symtab[id].struct_id
      [] left.type = "NODE_MEM_ACCESS" -> left.struct_id
      [] OTHER -> -1

\* A name that is no member is read before the arrays of the entry, where a
\* zero (T_EOF) is found as its type.
MemberAccess(op, left, name, s) ==
    LET id == StructOf(left, s)
        members == s.struct_table[id + 1].members
        m == SelectInSeq(members, LAMBDA e : e.name = name)
        dt == IF m = 0 THEN "T_EOF" ELSE members[m].type
    IN IF id = -1 \/ id >= Len(s.struct_table) THEN Fail(IF id = -1 THEN "exit" ELSE "undefined", s)
       ELSE Returning([type |-> "NODE_MEM_ACCESS", par_expr |-> left, op |-> op, dt |-> dt,
                       offset |-> IF m = 0 THEN s.struct_table[id + 1].size ELSE members[m].offset,
                       struct_id |-> IF dt = "struct" THEN FindStruct(members[m].struct_name, s)
                                                      ELSE -1,
                       tok |-> left.tok], s)

\* The callee is the token that left came from, whatever left is.
Led(s) ==
    LET op == Peek(s)
        left == s.node
        s1 == Advance(s)
    IN CASE op = "(" ->
              Wrap(ParseList(")", <<>>, s1),
                   LAMBDA args : [type |-> "NODE_CALL", name |-> NameAt(s, left.tok),
                                  args |-> args, tok |-> 1])
         [] op \in {".", "->"} ->
              Then(Consume("T_IDENTIFIER", s1),
                   LAMBDA r : MemberAccess(op, left, NameAt(r, r.tp1 - 1), r))
         [] op = "++" -> Returning(UnaryNode("NODE_POSTINC", left, 1), s1)
         [] op = "--" -> Returning(UnaryNode("NODE_POSTDEC", left, 1), s1)
         [] OTHER -> Wrap(ParseExpression(GetPrecedence(op), s1),
                          LAMBDA e : BinNode(op, left, e))

LedLoop(p, s) ==
    IF s.status = "ok" /\ GetPrecedence(Peek(s)) > p THEN LedLoop(p, Led(s)) ELSE s

ParseExpression(p, s) == LedLoop(p, Nud(s))

---------------------------------------------------------------------------
(* Declarations *)

\* Sets a field of the symbol added last.
SetSymbol(f, v, s) ==
    IF s.status # "ok" THEN s ELSE [s EXCEPT !.symtab[s.sp] = [@ EXCEPT ![f] = v]]

\* One bound, of which the "[" has been read.
Bound(isg, dc, n, s) ==
    LET s1 == IF dc = 0 THEN SetSymbol("dim0", n, s) ELSE s
    IN CASE Match("T_INT", s) -> Advance(s1)
         [] ~isg /\ dc > 0 -> Fail("exit", s1)
         [] OTHER -> s1

\* Bounds [n] and []: returns the number of elements; only the first bound
\* of an array is looked at later.
RECURSIVE Dimensions(_, _, _, _)
Dimensions(isg, dc, te, s) ==
    IF ~Match("[", s) THEN Returning(te, s)
    ELSE LET s1 == Advance(s)
             n == Atoi(s1.toks[s1.tp1].text)
         IN IF Match("T_INT", s1)
            THEN Dimensions(isg, dc + 1, te * n, Consume("]", Bound(isg, dc, n, s1)))
            ELSE Dimensions(isg, dc + 1, te, Consume("]", Bound(isg, dc, 0, s1)))

\* The elements of a list.  Each is an integer node whose value is
\* overwritten with the address of the expression.
InitializerList(te, s) ==
    LET count == Len(s.node)
        open == s.symtab[s.sp].dim0 = 0
        elements == [i \in 1..count |-> [type |-> "NODE_INT", int_val |-> NodeAddress,
                                         expr |-> s.node[i], tok |-> 1]]
    IN Returning([values |-> elements, te |-> IF open THEN count ELSE te],
                 IF open THEN SetSymbol("dim0", count, s) ELSE s)

\* The nodes of an initializer of a variable of s.node elements.
Initializer(s) ==
    LET te == s.node
        s1 == Advance(s)
    IN CASE ~Match("=", s) -> Returning([values |-> <<>>, te |-> te], s)
         [] Match("{", s1) -> Then(ParseList("}", <<>>, Advance(s1)),
                                   LAMBDA list : InitializerList(te, list))
         [] OTHER -> Wrap(ParseExpression(0, s1), LAMBDA e : [values |-> <<e>>, te |-> te])

VarNode(t, name, offset, dt, values, tok) ==
    [type |-> t, name |-> name, offset |-> offset, dt |-> dt,
     value |-> IF values = <<>> THEN NullNode ELSE Head(values),
     rest |-> IF values = <<>> THEN <<>> ELSE Tail(values), index |-> <<>>, tok |-> tok]

\* The variable that the token before s names, with its symbol, bounds and
\* initializer: returns its node and the number of its elements.
Variable(isg, t, count, place, s) ==
    LET tok == s.tp1 - 1
        s1 == AddToSymtab(NameAt(s, tok), place, isg, t.base, count, s)
    IN Wrap(Then(Dimensions(isg, 0, 1, s1), Initializer),
            LAMBDA v : [te |-> v.te,
                        var |-> VarNode(IF isg THEN "NODE_GVAR" ELSE "NODE_VAR", NameAt(s, tok),
                                        place, IF isg THEN t.named ELSE t.base, v.values, tok)])

RECURSIVE Declarators(_, _, _, _, _, _)

\* What follows a declarator, whose Variable ended in s.
AfterDeclarator(isg, t, size, off, acc, s) ==
    LET bytes == size * s.node.te
        list == Append(acc, s.node.var)
        s1 == [SetSymbol("struct_id", t.sid, s) EXCEPT !.gbr = IF isg THEN @ + bytes ELSE @]
    IN CASE Match(",", s) -> Declarators(isg, t, size, off + bytes, list, Advance(s1))
         [] Match(";", s) -> Returning(list, [Advance(s1) EXCEPT
                                                  !.bp = IF isg THEN @ ELSE @ + off + bytes])
         [] OTHER -> Fail("exit", s1)

\* The declarators of one declaration with type t (from TypeName).  size is
\* that of the type, or 4 from the first pointer on; off is the room the
\* earlier ones take.
Declarators(isg, t, size0, off, acc, s) ==
    LET stars == SkipAll("*", s)
        count == stars.tp1 - s.tp1
        size == IF count > 0 THEN 4 ELSE size0
    IN Then(Then(Consume("T_IDENTIFIER", stars),
                 LAMBDA r : Variable(isg, t, count, IF isg THEN r.gbr ELSE r.bp + off, r)),
            LAMBDA r : AfterDeclarator(isg, t, size, off, acc, r))

\* A type that starts with the token base and ends before s.
TypeEnding(base, s) ==
    LET isStruct == base \in {"struct", "T_IDENTIFIER"}
        sid == IF isStruct THEN FindStruct(NameAt(s, s.tp1 - 1), s) ELSE -1
    IN IF isStruct /\ sid = -1 THEN Fail("exit", s)
       ELSE Returning([base |-> base, sid |-> sid, named |-> TypeAt(s, s.tp1 - 1)], s)

\* The type in front of declarators and parameters: returns its base type,
\* the struct's number or -1, and the token that names it.
TypeName(s) ==
    Then(IF Peek(s) = "struct" THEN Consume("T_IDENTIFIER", Advance(s)) ELSE Advance(s),
         LAMBDA r : TypeEnding(Peek(s), r))

Declaration(isg, s) ==
    Then(TypeName(s),
         LAMBDA r : Declarators(isg, r.node,
                                IF r.node.sid = -1 THEN 4 ELSE r.struct_table[r.node.sid + 1].size,
                                0, <<>>, r))

ParseDeclaration(s) == Declaration(FALSE, s)
ParseGlobalDeclaration(s) == Declaration(TRUE, s)

---------------------------------------------------------------------------
(* Statements *)

RECURSIVE ParseStatement(_), BlockLoop(_, _), BaseVar(_)

BlockLoop(acc, s) ==
    IF s.status # "ok" \/ Match("}", s) THEN Returning(acc, s)
    ELSE Then(ParseStatement(s), LAMBDA r : BlockLoop(acc \o r.node, r))

ParseBlock(s) ==
    Wrap(Consume("}", BlockLoop(<<>>, Consume("{", s))), LAMBDA body : <<BlockNode(body)>>)

ParseReturn(s) ==
    LET s1 == Advance(s)
    IN Wrap(Consume(";", IF Match(";", s1) THEN Returning(NullNode, s1) ELSE ParseExpression(0, s1)),
            LAMBDA v : << [type |-> "NODE_RETURN", value |-> v, tok |-> 1] >>)

Condition(s) == Consume(")", ParseExpression(0, Consume("(", Advance(s))))

\* Of what ParseStatement returns, the first statement is taken; its list goes
\* on behind it, but only a block or a for reads it.
ParseElse(s) ==
    IF Match("else", s) THEN ParseStatement(Advance(s)) ELSE Returning(<<NullNode>>, s)

ParseIf(s) ==
    Then(Condition(s), LAMBDA c :
        Then(ParseStatement(c), LAMBDA t :
            Wrap(ParseElse(t), LAMBDA e :
                << [type |-> "NODE_IF", cond |-> c.node, then_stmt |-> Head(t.node),
                    else_stmt |-> Head(e), tok |-> s.tp1] >>)))

WhileNode(c, b, t) ==
    [type |-> "NODE_WHILE", cond |-> c, then_stmt |-> b, else_stmt |-> NullNode, tok |-> t]

ParseWhile(s) ==
    Then(Condition(s), LAMBDA c :
        Wrap(ParseStatement(c), LAMBDA b : <<WhileNode(c.node, Head(b), s.tp1)>>))

BaseVar(n) == IF n.type = "NODE_POINTER" THEN BaseVar(n.expr) ELSE n

\* left = e, bound to the offset of the symbol that token t names.
AssignNode(left, t, s) ==
    LET id == FindSymbol(NameAt(s, t), s)
    IN Wrap(ParseExpression(0, Advance(s)),
            LAMBDA r : [type |-> "NODE_ASSIGN", left |-> left, right |-> r, tok |-> t,
                        offset |-> IF id = 0 THEN 0 ELSE s.symtab[id].offset])

\* An expression, or an assignment to it.
ForPost(s) ==
    Then(ParseExpression(0, s), LAMBDA r :
        IF Match("=", r) THEN AssignNode(r.node, r.node.tok, r) ELSE r)

\* { init; while (cond) { body; post; } }, where the loop takes the place of
\* what followed the first variable of the initialization.
ForNode(init, cond, post, body, tok) ==
    LET stmts == IF Head(body).type = "NODE_BLOCK" THEN Head(body).body ELSE body
    IN BlockNode(<<init, WhileNode(cond, BlockNode(Append(stmts, post)), tok)>>)

ParseFor(s) ==
    Then(ParseStatement(Consume("(", Advance(s))), LAMBDA init :
        Then(Consume(";", ParseExpression(0, init)), LAMBDA cond :
            Then(ForPost(cond), LAMBDA post :
                Wrap(ParseStatement(Consume(")", post)), LAMBDA body :
                    <<ForNode(Head(init.node), cond.node, post.node, body, s.tp1)>>))))

\* break and continue.
ParseJump(t, s) ==
    Returning(<< [type |-> t, expr |-> NullNode, tok |-> 1] >>, Consume(";", Advance(s)))

ParseExpressionStatement(s) ==
    Wrap(Consume(";", Then(ParseExpression(0, s), LAMBDA r :
                          IF Match("=", r) THEN AssignNode(r.node, BaseVar(r.node).tok, r)
                                           ELSE r)),
         LAMBDA e : <<e>>)

ParseStatement(s) ==
    CASE s.status # "ok" -> s
      [] IsType(s) -> ParseDeclaration(s)
      [] Match("{", s) -> ParseBlock(s)
      [] Match("if", s) -> ParseIf(s)
      [] Match("while", s) -> ParseWhile(s)
      [] Match("break", s) -> ParseJump("NODE_BREAK", s)
      [] Match("continue", s) -> ParseJump("NODE_CONTINUE", s)
      [] Match("for", s) -> ParseFor(s)
      [] Match("return", s) -> ParseReturn(s)
      [] OTHER -> ParseExpressionStatement(s)

---------------------------------------------------------------------------
(* The top level *)

\* A parameter of type t whose name ends before s.
AddParameter(t, count, s) ==
    LET s1 == AddToSymtab(NameAt(s, s.tp1 - 1), s.bp, FALSE, t.named, count, s)
    IN Returning(VarNode("NODE_VAR", NameAt(s, s.tp1 - 1), 0, t.named, <<>>, s.tp1 - 1),
                 [SetSymbol("struct_id", t.sid, s1) EXCEPT !.bp = @ - 4])

ParseParameter(s) ==
    Then(TypeName(s), LAMBDA t :
        LET stars == SkipAll("*", t)
        IN Then(Consume("T_IDENTIFIER", stars), LAMBDA r :
               AddParameter(t.node, stars.tp1 - t.tp1, r)))

\* Parameters up to the closing parenthesis.  A token that starts no type and
\* is no comma is never passed.
RECURSIVE Parameters(_, _)
Parameters(args, s) ==
    CASE s.status # "ok" \/ Match(")", s) -> Consume(")", Returning(args, s))
      [] IsType(s) -> Then(ParseParameter(s),
                           LAMBDA r : Parameters(Append(args, r.node), Skip(",", r)))
      [] Match(",", s) -> Parameters(args, Advance(s))
      [] OTHER -> Fail("hang", s)

\* The body, or the ";" of a prototype, which leaves body and localvarbyte 0.
FunctionBody(s) ==
    IF Match(";", s) THEN Returning([stmt |-> NullNode, bytes |-> 0], Advance(s))
    ELSE Then(ParseBlock([s EXCEPT !.bp = 0]),
              LAMBDA r : Returning([stmt |-> Head(r.node), bytes |-> r.bp], r))

ParseFunction(s) ==
    Then(Consume("T_IDENTIFIER", Advance(s)), LAMBDA r :
        LET name == NameAt(r, r.tp1 - 1)
            s1 == AddToSymtab(name, Len(r.global_table), TRUE, Peek(s), 0, r)
        IN Then(Parameters(<<>>, Consume("(", [s1 EXCEPT !.bp = -12])), LAMBDA a :
               Wrap(FunctionBody(a), LAMBDA b :
                   [type |-> "NODE_FUNC", name |-> name, args |-> a.node, returntype |-> Peek(s),
                    body |-> b.stmt, localvarbyte |-> b.bytes, tok |-> 1])))

\* The last number between [ and ] is the bound.
RECURSIVE MemberBound(_, _), MemberSize(_, _), Members(_, _, _)
MemberBound(n, s) ==
    IF s.status # "ok" \/ Match("]", s) THEN Returning(n, s)
    ELSE MemberBound(Atoi(s.toks[s.tp1].text), Consume("T_INT", s))

MemberSize(size, s) ==
    IF ~Match("[", s) THEN Returning(size, s)
    ELSE LET r == MemberBound(0, Advance(s)) IN MemberSize(size * r.node, Consume("]", r))

\* A member named before s, of type t or, without stars, of struct sname.
Member(t, sname, isptr, members, off, s) ==
    LET sid == FindStruct(sname, s)
        base == IF t = "struct" /\ isptr = 0 THEN s.struct_table[sid + 1].size ELSE 4
        member == [name |-> NameAt(s, s.tp1 - 1), type |-> t, struct_name |-> sname,
                   isptr |-> isptr, offset |-> off]
    IN Then(MemberSize(base, s), LAMBDA r :
           Members(Append(members, member), off + ((r.node + 3) \div 4) * 4, Consume(";", r)))

\* Any token is taken for a member's type; all but struct take 4 bytes.
Members(members, off, s) ==
    LET t == Peek(s)
        last == Len(s.struct_table)
    IN IF s.status # "ok" \/ Match("}", s)
       THEN Consume("}", [s EXCEPT !.struct_table[last].size = off,
                                   !.struct_table[last].members = members])
       ELSE Then(IF t = "struct" THEN Consume("T_IDENTIFIER", Advance(s)) ELSE Advance(s),
                 LAMBDA r :
                    LET stars == SkipAll("*", r)
                        sname == IF t = "struct" THEN NameAt(r, r.tp1 - 1) ELSE ""
                    IN IF t = "struct" /\ stars.tp1 = r.tp1 /\ FindStruct(sname, r) = -1
                       THEN Fail("exit", r)
                       ELSE Then(Consume("T_IDENTIFIER", stars), LAMBDA m :
                                Member(t, sname, stars.tp1 - r.tp1, members, off, m)))

\* The entry is taken at once and kept even when the definition is wrong.
\* No name is "".
ParseStructDef(s) ==
    LET s1 == Consume("struct", s)
        name == IF Match("T_IDENTIFIER", s1) THEN NameAt(s1, s1.tp1) ELSE ""
        s2 == [Skip("T_IDENTIFIER", s1) EXCEPT
                  !.struct_table = Append(@, [name |-> name, size |-> 0, members |-> <<>>])]
    IN Members(<<>>, 0, Consume("{", s2))

\* The alias of the struct defined last.  A struct that has a name gets a
\* second entry under it.
TypedefAlias(s) ==
    LET s1 == Consume(";", Consume("T_IDENTIFIER", s))
        entry == [Last(s.struct_table) EXCEPT !.name = NameAt(s, s.tp1)]
    IN CASE s1.status # "ok" -> s1
         [] Last(s.struct_table).name = "" -> [s1 EXCEPT !.struct_table[Len(s1.struct_table)] = entry]
         [] OTHER -> [s1 EXCEPT !.struct_table = Append(@, entry)]

ParseTypedef(s) ==
    IF TypeAt(s, s.tp1 + 1) # "struct" THEN Fail("exit", s)
    ELSE Then(ParseStructDef(Advance(s)), TypedefAlias)

\* Tokens that start nothing are skipped.
RECURSIVE TopLevel(_)
TopLevel(s) ==
    LET third == TypeAt(s, s.tp1 + 2)
    IN IF s.status # "ok" \/ Peek(s) = "T_EOF" THEN s
       ELSE TopLevel(CASE Peek(s) = "struct" /\ third = "{" -> ParseStructDef(s)
                       [] Peek(s) = "typedef" -> ParseTypedef(s)
                       [] IsType(s) /\ third = "(" -> Then(ParseFunction(s), LAMBDA r : AppendNode(r.node, r))
                       [] IsType(s) -> Then(ParseGlobalDeclaration(s), LAMBDA r : AppendNode(Head(r.node), r))
                       [] OTHER -> Advance(s))

\* Plausible slip: sp keeps its value.
ParseTopLevelKeepsSymbols(toks, front) ==
    TopLevel([toks |-> toks, tp1 |-> 1, bp |-> 0, symtab |-> front.symtab,
              sp |-> Len(front.symtab), global_table |-> <<>>,
              struct_table |-> front.struct_table, gbr |-> front.gbr,
              node |-> NullNode, status |-> "ok"])

\* parse_top_level on the tokens, with the statics an earlier run left:
\* init_parser resets tp1, sp, gt_count and bp.
ParseTopLevel(toks, front) ==
    TopLevel([toks |-> toks, tp1 |-> 1, bp |-> 0, symtab |-> front.symtab, sp |-> 0,
              global_table |-> <<>>, struct_table |-> front.struct_table, gbr |-> front.gbr,
              node |-> NullNode, status |-> "ok"])
============================================================================
