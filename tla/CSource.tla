------------------------------- MODULE CSource ------------------------------
(***************************************************************************)
(* The C programs the compiler is given, as the C standard reads them: a   *)
(* tree with names, its text (Text), and its value and output (Meaning).   *)
(* Nothing here is taken from the compiler; it is what the compiler has to *)
(* agree with.                                                             *)
(***************************************************************************)
EXTENDS Integers, Sequences, FiniteSets, SequencesExt

NoTree == [k |-> "none"]
I(v) == [k |-> "int", v |-> v]
V(name) == [k |-> "var", name |-> name]
Bin(op, l, r) == [k |-> "bin", op |-> op, l |-> l, r |-> r]
Neg(e) == [k |-> "neg", e |-> e]
Call(f, args) == [k |-> "call", f |-> f, args |-> args]
Str(chars) == [k |-> "str", chars |-> chars]

\* Declarations: a sequence of names with their initializers, or NoTree.
Decls(vars) == [k |-> "decl", vars |-> vars]
Decl(name, e) == Decls(<< <<name, e>> >>)
Assign(name, e) == [k |-> "assign", name |-> name, e |-> e]
Return(e) == [k |-> "return", e |-> e]
If(c, t, e) == [k |-> "if", c |-> c, t |-> t, e |-> e]
While(c, b) == [k |-> "while", c |-> c, b |-> b]
For(init, c, post, b) == [k |-> "for", init |-> init, c |-> c, post |-> post, b |-> b]
Block(body) == [k |-> "block", body |-> body]
Do(e) == [k |-> "expr", e |-> e]

\* A declaration or a comment that has no part in what the program does.
Raw(cells) == [k |-> "raw", cells |-> cells]

\* Top level: functions, prototypes (no body) and Raw.
Fn(f, params, body) == [k |-> "fn", name |-> f, params |-> params, body |-> Block(body)]
Prototype(f, params) == [k |-> "fn", name |-> f, params |-> params, body |-> NoTree]

---------------------------------------------------------------------------
(* Text.  Blanks only where two words or two minus signs would touch.      *)

RECURSIVE Number(_), ExprText(_, _), StmtText(_)
Number(v) ==
    (IF v < 10 THEN <<>> ELSE Number(v \div 10))
      \o << <<"0", "1", "2", "3", "4", "5", "6", "7", "8", "9">>[(v % 10) + 1] >>

OpText(op) == IF op \in {"<=", ">=", "==", "!="}
              THEN << CASE op = "<=" -> "<" [] op = ">=" -> ">" [] op = "==" -> "="
                        [] op = "!=" -> "!", "=" >>
              ELSE <<op>>

Binding(op) ==
    CASE op \in {"*", "/"} -> 4 [] op \in {"+", "-"} -> 3
      [] op \in {"<", ">", "<=", ">="} -> 2 [] OTHER -> 1

Joined(texts) == FoldLeft(LAMBDA acc, i : acc \o (IF i > 1 THEN <<",">> ELSE <<>>) \o texts[i],
                          <<>>, [i \in DOMAIN texts |-> i])

\* In parentheses where e binds less than level.
ExprText(e, level) ==
    CASE e.k = "int" -> Number(e.v)
      [] e.k = "var" -> <<e.name>>
      [] e.k = "neg" -> <<" ", "-">> \o ExprText(e.e, 5)
      [] e.k = "str" -> <<"\"">> \o e.chars \o <<"\"">>
      [] e.k = "call" ->
           <<e.f, "(">> \o Joined([i \in DOMAIN e.args |-> ExprText(e.args[i], 0)]) \o <<")">>
      [] e.k = "bin" ->
           LET b == Binding(e.op)
               t == ExprText(e.l, b) \o OpText(e.op) \o ExprText(e.r, b + 1)
           IN IF b < level THEN <<"(">> \o t \o <<")">> ELSE t

Assignment(n) == <<n.name, "=">> \o ExprText(n.e, 0)

\* A branch starts behind a blank: the word before it may be else.
StmtText(n) ==
    CASE n.k = "raw" -> n.cells
      [] n.k = "decl" ->
           <<"int", " ">>
             \o Joined([i \in DOMAIN n.vars |->
                          <<n.vars[i][1]>> \o IF n.vars[i][2] = NoTree THEN <<>>
                                              ELSE <<"=">> \o ExprText(n.vars[i][2], 0)])
             \o <<";">>
      [] n.k = "assign" -> Assignment(n) \o <<";">>
      [] n.k = "return" -> <<"return", " ">> \o ExprText(n.e, 0) \o <<";">>
      [] n.k = "expr" -> ExprText(n.e, 0) \o <<";">>
      [] n.k = "block" -> <<"{">> \o FlattenSeq([i \in DOMAIN n.body |-> StmtText(n.body[i])])
                            \o <<"}">>
      [] n.k = "if" -> <<"if", "(">> \o ExprText(n.c, 0) \o <<")">> \o StmtText(n.t)
                         \o IF n.e = NoTree THEN <<>> ELSE <<"else", " ">> \o StmtText(n.e)
      [] n.k = "while" -> <<"while", "(">> \o ExprText(n.c, 0) \o <<")">> \o StmtText(n.b)
      [] n.k = "for" -> <<"for", "(">> \o StmtText(n.init) \o ExprText(n.c, 0) \o <<";">>
                          \o Assignment(n.post) \o <<")">> \o StmtText(n.b)

ItemText(n) ==
    IF n.k = "raw" THEN n.cells
    ELSE <<"int", " ", n.name, "(">>
           \o Joined([i \in DOMAIN n.params |-> <<"int", " ", n.params[i]>>]) \o <<")">>
           \o IF n.body = NoTree THEN <<";">> ELSE StmtText(n.body)

Text(P) == FlattenSeq([i \in DOMAIN P |-> ItemText(P[i])])

---------------------------------------------------------------------------
(* Meaning *)

\* C division truncates toward zero.
Quotient(a, b) ==
    LET q == (IF a < 0 THEN -a ELSE a) \div (IF b < 0 THEN -b ELSE b)
    IN IF (a < 0) = (b < 0) THEN q ELSE -q

Compare(op, a, b) ==
    CASE op = "<" -> a < b [] op = ">" -> a > b [] op = "<=" -> a <= b
      [] op = ">=" -> a >= b [] op = "==" -> a = b [] op = "!=" -> a # b

Arith(op, a, b) ==
    CASE op = "+" -> a + b [] op = "-" -> a - b [] op = "*" -> a * b
      [] op = "/" -> Quotient(a, b)
      [] OTHER -> IF Compare(op, a, b) THEN 1 ELSE 0

\* What printf shows: the text and the values its directives take.
Printed(s, args) ==
    [text |-> s, values |-> SubSeq(args, 1, Cardinality({i \in DOMAIN s : s[i] = "%d"}))]

\* The characters of a literal.
RECURSIVE Contents(_)
Contents(chars) ==
    CASE chars = <<>> -> <<>>
      [] Head(chars) = "\\" /\ Len(chars) > 1 ->
           << CASE chars[2] = "n" -> "LF" [] chars[2] = "t" -> "TAB" [] OTHER -> chars[2] >>
              \o Contents(SubSeq(chars, 3, Len(chars)))
      [] OTHER -> <<Head(chars)>> \o Contents(Tail(chars))

FunctionNamed(name, P) ==
    P[CHOOSE i \in DOMAIN P : P[i].k = "fn" /\ P[i].name = name /\ P[i].body # NoTree]

\* State of the evaluation of one function: its open scopes, the innermost
\* last, the output, whether it returned, and the value of the last
\* expression.
RECURSIVE Run(_, _, _)

ScopeOf(name, scopes) == SelectLastInSeq(scopes, LAMBDA env : name \in DOMAIN env)

Declared(name, v, s) ==
    [s EXCEPT !.scopes[Len(s.scopes)] =
        [x \in DOMAIN @ \cup {name} |-> IF x = name THEN v ELSE @[x]]]

EvalArgs(args, P, s) ==
    FoldRight(LAMBDA a, acc : LET r == Run(a, P, acc.s)
                              IN [s |-> r, values |-> <<r.value>> \o acc.values],
              args, [s |-> s, values |-> <<>>])

CallFunction(fn, args, P, s) ==
    LET env == [x \in {fn.params[i] : i \in DOMAIN fn.params} |->
                   args[CHOOSE i \in DOMAIN fn.params : fn.params[i] = x]]
        r == Run(fn.body, P, [scopes |-> <<env>>, out |-> s.out, done |-> FALSE, value |-> 0])
    IN [s EXCEPT !.out = r.out, !.value = r.value]

RunCall(n, P, s) ==
    LET a == EvalArgs(n.args, P, s)
    IN IF n.f = "printf"
       THEN [a.s EXCEPT !.out = Append(@, Printed(a.values[1], Tail(a.values)))]
       ELSE CallFunction(FunctionNamed(n.f, P), a.values, P, a.s)

RunStmts(stmts, P, s) ==
    FoldLeft(LAMBDA acc, x : IF acc.done THEN acc ELSE Run(x, P, acc), s, stmts)

\* Statements in a scope of their own.
Scoped(stmts, P, s) ==
    LET r == RunStmts(stmts, P, [s EXCEPT !.scopes = Append(@, <<>>)])
    IN [r EXCEPT !.scopes = Front(@)]

RunLoop(n, post, P, s) ==
    LET c == Run(n.c, P, s)
        b == RunStmts(<<n.b>> \o post, P, c)
    IN IF c.value = 0 THEN c ELSE IF b.done THEN b ELSE Run([n EXCEPT !.k = "while"], P, b)

Run(n, P, s) ==
    CASE n.k = "int" -> [s EXCEPT !.value = n.v]
      [] n.k = "str" -> [s EXCEPT !.value = Contents(n.chars)]
      [] n.k = "var" -> [s EXCEPT !.value = s.scopes[ScopeOf(n.name, s.scopes)][n.name]]
      [] n.k = "neg" -> LET r == Run(n.e, P, s) IN [r EXCEPT !.value = -@]
      [] n.k = "bin" -> LET l == Run(n.l, P, s)
                            r == Run(n.r, P, l)
                        IN [r EXCEPT !.value = Arith(n.op, l.value, r.value)]
      [] n.k = "call" -> RunCall(n, P, s)
      [] n.k = "raw" -> s
      [] n.k = "decl" ->
           FoldLeft(LAMBDA acc, d : IF d[2] = NoTree THEN Declared(d[1], 0, acc)
                                    ELSE LET r == Run(d[2], P, acc)
                                         IN Declared(d[1], r.value, r), s, n.vars)
      [] n.k = "assign" ->
           LET r == Run(n.e, P, s)
           IN [r EXCEPT !.scopes[ScopeOf(n.name, r.scopes)][n.name] = r.value]
      [] n.k = "return" -> [Run(n.e, P, s) EXCEPT !.done = TRUE]
      [] n.k = "expr" -> Run(n.e, P, s)
      [] n.k = "block" -> Scoped(n.body, P, s)
      [] n.k = "if" ->
           LET c == Run(n.c, P, s)
           IN IF c.value # 0 THEN Run(n.t, P, c) ELSE IF n.e = NoTree THEN c ELSE Run(n.e, P, c)
      [] n.k = "while" -> RunLoop(n, IF "post" \in DOMAIN n THEN <<n.post>> ELSE <<>>, P, s)
      [] n.k = "for" -> Scoped(<<n.init, [n EXCEPT !.k = "while"]>>, P, s)

\* What main returns and prints.
Meaning(P) ==
    CallFunction(FunctionNamed("main", P), <<>>, P,
                 [scopes |-> <<>>, out |-> <<>>, done |-> FALSE, value |-> 0])
============================================================================
