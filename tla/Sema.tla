-------------------------------- MODULE Sema --------------------------------
(***************************************************************************)
(* Semantic analysis (compiler/sema.c): a walk over the trees of the       *)
(* global table with the symbols as parsing left them at its end.          *)
(*                                                                         *)
(* A type is a base (the type of the token that names it, or of a literal) *)
(* and a number of pointer levels, which the code adds as multiples of     *)
(* 1000.  Analyze(list, i, fn, s) is sema_analyze on the i-th of the nodes *)
(* that next links, inside function fn; an error exits, a result of kind   *)
(* Wrong here.                                                             *)
(*                                                                         *)
(* Most cases return before they follow next: of the statements of a block *)
(* the walk sees the first, and goes on only behind blocks and the node    *)
(* kinds it does not know.                                                 *)
(***************************************************************************)
EXTENDS Parser

Type(base, lvl) == <<base, lvl>>
Wrong == Type("error", 0)
TVoid == Type("T_VOID", 0)
TInt == Type("T_INT", 0)
TString == Type("T_STRING", 0)
KInt == Type("int", 0)

Failed(t) == t = Wrong

SymbolType(name, s) ==
    LET id == FindSymbol(name, s)
    IN IF id = 0 THEN Wrong ELSE Type(s.symtab[id].type, s.symtab[id].ptrlvl)

Pointed(t) == IF Failed(t) \/ t[2] = 0 THEN Wrong ELSE Type(t[1], t[2] - 1)
PointerTo(t) == IF Failed(t) THEN Wrong ELSE Type(t[1], t[2] + 1)

RECURSIVE GetNodeType(_, _), Analyze(_, _, _, _)

\* The type of an operand of =: that of a call is void.
GetNodeType(n, s) ==
    CASE n.type = "NODE_INT" -> TInt
      [] n.type = "NODE_STR" -> TString
      [] n.type = "NODE_VAR" -> SymbolType(NameAt(s, n.tok), s)
      [] n.type = "NODE_GVAR" -> SymbolType(n.name, s)
      [] n.type = "NODE_POINTER" -> Pointed(GetNodeType(n.expr, s))
      [] n.type = "NODE_ADDR" -> PointerTo(GetNodeType(n.expr, s))
      [] n.type = "NODE_BIN" -> TInt
      [] n.type = "NODE_MEM_ACCESS" -> Type(n.dt, 0)
      [] OTHER -> TVoid

\* Integers and integer literals go together; a char takes a literal.
SameOrInt(expected, actual) ==
    ~Failed(actual) /\ (expected = actual \/ {expected, actual} = {KInt, TInt})

StringPointer(expected, actual) == expected = Type("char", 1) /\ actual = TString

Assignable(expected, actual) ==
    /\ ~Failed(actual) /\ ~Failed(expected)
    /\ \/ SameOrInt(expected, actual) \/ StringPointer(expected, actual)
       \/ expected = Type("char", 0) /\ actual = TInt

\* types_are_compatible, and the test of an initializer.
TypesAreCompatible(expected, actual) ==
    /\ ~Failed(actual) /\ ~Failed(expected)
    /\ \/ StringPointer(expected, actual)
       \/ /\ expected[2] = actual[2]
          /\ \/ expected[1] = actual[1]
             \/ <<expected[1], actual[1]>> \in {<<"int", "T_INT">>, <<"T_INT", "int">>,
                                                <<"char", "T_INT">>}

\* A declaration, or a variable used as an expression.
AnalyzeVar(n, fn, s) ==
    LET my == SymbolType(NameAt(s, n.tok), s)
        r == s.symtab[FindSymbol(NameAt(s, n.tok), s)]
        list == <<n.value>> \o n.rest
        members == s.struct_table[r.struct_id + 1].members
        Elem(i) == Analyze(<<list[i].expr>>, 1, fn, s)
        fits == CASE n.value = NullNode -> TRUE
                  [] n.rest = <<>> -> TypesAreCompatible(my, Analyze(list, 1, fn, s))
                  [] r.struct_id # -1 ->
                       /\ Len(list) <= Len(members)
                       /\ \A i \in DOMAIN list :
                            TypesAreCompatible(Type(members[i].type, members[i].isptr), Elem(i))
                  [] OTHER -> /\ \A i \in DOMAIN list : TypesAreCompatible(my, Elem(i))
                              /\ r.dim0 > 0 => Len(list) <= r.dim0
    IN IF ~Failed(my) /\ fits THEN my ELSE Wrong

AnalyzeBin(n, fn, s) ==
    LET l == Analyze(<<n.left>>, 1, fn, s)
        r == Analyze(<<n.right>>, 1, fn, s)
    IN IF ~Failed(l) /\ l # TString /\ SameOrInt(l, r) THEN TInt ELSE Wrong

\* Plausible slip: the number of the arguments is not compared.
AnalyzeCallAnyCount(n, fn, s) ==
    LET target == SelectInSeq(s.global_table, LAMBDA g : g.name = n.name)
        params == s.global_table[target].args
        ok == /\ target # 0
              /\ \A i \in DOMAIN params \cap DOMAIN n.args :
                    SameOrInt(Type(params[i].dt, 0), Analyze(n.args, i, fn, s))
    IN IF n.name = "printf"
       THEN IF n.args = <<>> \/ Analyze(n.args, 1, fn, s) = TString THEN TVoid ELSE Wrong
       ELSE IF ok THEN Type(s.global_table[target].returntype, 0) ELSE Wrong

\* The first entry of the name; of printf only the first argument is looked
\* at.  A parameter's type is compared without its pointer levels.
AnalyzeCall(n, fn, s) ==
    LET target == SelectInSeq(s.global_table, LAMBDA g : g.name = n.name)
        params == s.global_table[target].args
        ok == /\ target # 0
              /\ Len(params) = Len(n.args)
              /\ \A i \in DOMAIN params :
                    SameOrInt(Type(params[i].dt, 0), Analyze(n.args, i, fn, s))
    IN IF n.name = "printf"
       THEN IF n.args = <<>> \/ Analyze(n.args, 1, fn, s) = TString THEN TVoid ELSE Wrong
       ELSE IF ok THEN Type(s.global_table[target].returntype, 0) ELSE Wrong

\* A return without a value needs the type T_VOID, which no function has.
AnalyzeReturn(n, fn, s) ==
    IF n.value # NullNode /\ SameOrInt(Type(fn.returntype, 0), Analyze(<<n.value>>, 1, fn, s))
    THEN TVoid ELSE Wrong

AnalyzeFlow(n, fn, s) ==
    LET parts == <<n.cond, n.then_stmt, n.else_stmt>>
        types == [i \in 1..3 |-> Analyze(<<parts[i]>>, 1, fn, s)]
    IN IF types[1] = TString \/ \E i \in 1..3 : Failed(types[i]) THEN Wrong ELSE TVoid

\* if (n->next) sema_analyze(n->next).
Follow(list, i, fn, s) ==
    IF i < Len(list) /\ Failed(Analyze(list, i + 1, fn, s)) THEN Wrong ELSE TVoid

Analyze(list, i, fn, s) ==
    IF list = <<>> THEN TVoid ELSE
    LET n == list[i]
    IN CASE n.type = "NULL" -> TVoid
         [] n.type = "NODE_INT" -> TInt
         [] n.type = "NODE_STR" -> TString
         [] n.type = "NODE_ASSIGN" ->
              LET r == GetNodeType(n.right, s)
              IN IF Assignable(GetNodeType(n.left, s), r) THEN r ELSE Wrong
         [] n.type = "NODE_BLOCK" ->
              IF Failed(Analyze(n.body, 1, fn, s)) THEN Wrong ELSE Follow(list, i, fn, s)
         [] n.type = "NODE_FUNC" -> Analyze(<<n.body>>, 1, n, s)
         [] n.type = "NODE_GVAR" -> Type(n.dt, 0)
         [] n.type = "NODE_VAR" -> AnalyzeVar(n, fn, s)
         [] n.type = "NODE_ADDR" -> PointerTo(Analyze(<<n.expr>>, 1, fn, s))
         [] n.type = "NODE_POINTER" -> Pointed(Analyze(<<n.expr>>, 1, fn, s))
         [] n.type = "NODE_BIN" -> AnalyzeBin(n, fn, s)
         [] n.type = "NODE_MEM_ACCESS" -> Analyze(<<n.par_expr>>, 1, fn, s)
         [] n.type \in {"NODE_IF", "NODE_WHILE"} -> AnalyzeFlow(n, fn, s)
         [] n.type = "NODE_CALL" -> AnalyzeCall(n, fn, s)
         [] n.type = "NODE_RETURN" -> AnalyzeReturn(n, fn, s)
         [] OTHER -> Follow(list, i, fn, s)

\* sema_run_global_analysis: every entry must pass.
SemaPasses(s) ==
    \A i \in DOMAIN s.global_table : ~Failed(Analyze(s.global_table, i, NullNode, s))
============================================================================
