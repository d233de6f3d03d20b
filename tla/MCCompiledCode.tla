--------------------------- MODULE MCCompiledCode ---------------------------
(***************************************************************************)
(* Programs for CompiledCode.                                              *)
(***************************************************************************)
EXTENDS CompiledCode

Codes == [A |-> 65, n |-> 110]

x == V("x")
y == V("y")
p == V("p")
q == V("q")
SetX(e) == Assign("x", e)
SetY(e) == Assign("y", e)

\* int main() { int x = a; int y = b; s; return x * 3 + y; }
Main(a, b, s) ==
    Fn("main", <<>>, <<Decl("x", I(a)), Decl("y", I(b)), s,
                       Return(Bin("+", Bin("*", x, I(3)), y))>>)

Comparisons == {Bin(op, x, y) : op \in {"<", ">", "<=", ">=", "==", "!="}}

\* int f(int p, int q) { if (p > q) return p - q; return q * 2; }
F == Fn("f", <<"p", "q">>, <<If(Bin(">", p, q), Return(Bin("-", p, q)), NoTree),
                             Return(Bin("*", q, I(2)))>>)

\* int fact(int p) { if (p <= 1) return 1; return p * fact(p - 1); }
Fact == Fn("fact", <<"p">>, <<If(Bin("<=", p, I(1)), Return(I(1)), NoTree),
                              Return(Bin("*", p, Call("fact", <<Bin("-", p, I(1))>>)))>>)

\* even and odd call each other; the first call is ahead of its target.
Even == Fn("even", <<"p">>, <<If(Bin("==", p, I(0)), Return(I(1)), NoTree),
                              Return(Call("odd", <<Bin("-", p, I(1))>>))>>)
Odd == Fn("odd", <<"p">>, <<If(Bin("==", p, I(0)), Return(I(0)), NoTree),
                            Return(Call("even", <<Bin("-", p, I(1))>>))>>)

\* while (x < y) { if (x == 1) y = y - 1; else x = x + 1; }, and the loop
\* that leaves its function from inside.
Loop == While(Bin("<", x, y),
              Block(<<If(Bin("==", x, I(1)), SetY(Bin("-", y, I(1))),
                         SetX(Bin("+", x, I(1))))>>))
LoopReturn == While(Bin("<=", x, y),
                    Block(<<If(Bin(">=", x, I(2)), Return(Bin("+", x, I(10))), NoTree),
                            SetX(Bin("+", x, I(1)))>>))
Countdown == While(x, SetX(Bin("-", x, I(1))))

\* for (int i = 0; i < n; i = i + 1) b
Count(i, n, b) == For(Decl(i, I(0)), Bin("<", V(i), n), Assign(i, Bin("+", V(i), I(1))), b)

\* for (int i = 0; i < 2; i = i + 1) { int k = i; x = x + k; }, and one
\* whose body is no block.
ForLoops ==
    {Count("i", I(2), b) :
        b \in {Block(<<Decl("k", V("i")), SetX(Bin("+", x, V("k")))>>),
               SetY(Bin("+", y, V("i")))}}

\* Loops in loops, an if in the else of an if, blocks in blocks.
Nested == {Count("i", I(2), Count("j", V("i"), SetX(Bin("+", x, y)))),
           If(Bin("<", x, y), SetX(I(4)), If(Bin("==", x, y), SetX(I(5)), Block(<<SetX(I(6))>>))),
           Block(<<Decl("k", Bin("+", x, I(1))), Block(<<Decl("m", V("k")), SetY(V("m"))>>),
                   SetX(V("k"))>>)}

Branches == {If(c, SetX(Bin("-", x, I(2))), NoTree) : c \in Comparisons}
            \cup {If(c, SetX(Bin("+", x, I(5))), SetY(Bin("/", y, Bin("+", x, I(1))))) :
                      c \in Comparisons \cup {x, Call("f", <<x, y>>)}}

\* Operators of one level group from the left, and a sign binds tightest.
Groupings == {SetX(Bin("-", Bin("-", I(9), x), y)), SetX(Bin("-", I(9), Bin("-", x, y))),
              SetX(Bin("-", Bin("+", I(20), y), Bin("*", x, Bin("+", y, I(2))))),
              SetX(Bin("-", x, Neg(Bin("+", y, Neg(I(3))))))}

\* Calls whose result nobody takes: in a loop, of a function with branches; as
\* the branches of an if; of printf, in a loop that calls in its condition too.
CallStatements ==
    {Count("i", I(2), Block(<<Do(Call("f", <<x, V("i")>>)), SetX(Bin("+", x, I(1)))>>)),
     If(Bin("<", x, y), Do(Call("even", <<y>>)), Do(Call("fact", <<x>>))),
     While(Bin("<", Call("f", <<y, x>>), I(2)),
           Block(<<Do(Call("printf", <<Str(<<"%d">>), x>>)), SetX(Bin("+", x, I(1))),
                   SetY(Bin("+", y, I(2)))>>))}

Statements == Branches \cup ForLoops \cup Nested \cup Groupings
              \cup {Loop, LoopReturn, Countdown,
                    SetX(Bin("-", Call("f", <<x, Bin("+", y, I(1))>>), Call("fact", <<y>>))),
                    SetY(Call("even", <<Bin("+", x, y)>>))}
              \cup CallStatements

\* The demonstration program of the README, and two strings.
Hello == <<Raw(<<"/", "/", " ", "int", "{", "LF">>),
           Fn("main", <<>>, <<Decls(<< <<"x", NoTree>>, <<"y", NoTree>> >>),
                              SetX(I(100)), SetY(I(23)),
                              Do(Call("printf", <<Str(<<"E", "%d", "\\", "n">>), Bin("+", x, y)>>)),
                              Do(Call("printf", <<Str(<<"k">>)>>)),
                              Return(Bin("+", x, y))>>)>>

\* Declarations that take room between the variables in use.
Layout == <<Raw(<<"struct", " ", "S", "{", "int", " ", "a", "[", "3", "]", ";", "char", "*", "b",
                  ";", "}", ";">>),
            Raw(<<"typedef", " ", "struct", "{", "struct", " ", "S", " ", "s", ";", "int", " ",
                  "c", ";", "}", "T", ";">>),
            Raw(<<"int", " ", "g", "[", "]", "=", "{", "1", ",", "2", "}", ",", "h", ";">>),
            Fn("main", <<>>, <<Decl("x", I(1)), Raw(<<"T", " ", "t", ",", "*", "r", ";">>),
                               Decl("y", I(2)), Raw(<<"int", " ", "a", "[", "2", "]", ";">>),
                               Decl("z", I(4)), Raw(<<"a", "[", "0", "]", "=", "'", "A", "'", ";">>),
                               Return(Bin("+", Bin("+", x, y), V("z")))>>)>>

Small == 0..2

Source(P) == [tree |-> P, text |-> Text(P), valid |-> TRUE]

\* Texts that are not C: one word, sign or argument missing, or too much.
NotC(cells) == [tree |-> <<>>, text |-> cells, valid |-> FALSE]
InMain(cells) == NotC(<<"int", " ", "main", "(", ")", "{">> \o cells \o <<"}">>)
Invalid ==
    {InMain(<<"int", " ", "x", " ", "return", " ", "x", ";">>),
     InMain(<<"return", " ", "x", ";">>),
     InMain(<<"if", "(", "1", "return", " ", "1", ";">>),
     InMain(<<"struct", " ", "S", " ", "s", ";">>),
     InMain(<<"return", "\"", "A", "\"", ";">>),
     InMain(<<"return", "*", "1", ";">>),
     NotC(<<"int", " ", "main", "(", ")", "{", "int", " ", "x", ";">>),
     NotC(<<"int", " ", "f", "(", "int", " ", "p", ")", "{", "return", " ", "f", "(", ")", ";", "}">>)}

\* Tests of values that take entries of fixups[] which no source of Recompiled
\* uses for a call: the second entry, and in the last also the fourth.
Tests ==
    {Source(<<F, Main(2, 1, If(Call("f", <<x, y>>), SetX(I(7)), SetY(I(8))))>>),
     Source(<<Main(2, 1, Block(<<If(Bin("<", x, y), SetX(I(7)), NoTree), Countdown,
                                 If(y, SetY(I(3)), NoTree)>>))>>)}

\* For several compilations: forward calls, tests of values, structs and global
\* variables, and sources with an error.
Recompiled ==
    {Source(<<Main(1, 2, s), Odd, Even, Fact, F>>) :
         s \in {Loop, SetY(Call("even", <<x>>)), SetX(Call("fact", <<y>>))}}
    \cup {Source(<<Main(2, 1, If(Bin("<", x, y), SetX(I(7)), SetY(I(8))))>>), Source(Hello), Source(Layout)}
    \cup Tests \cup Invalid

\* Callees before main and behind it.
AllPrograms ==
    {Source(<<F, Fact, Even, Odd, Main(a, b, s)>>) : a \in Small, b \in Small, s \in Statements}
    \cup {Source(<<Main(a, b, s), Odd, Even, Fact, F>>) :
             a \in Small, b \in Small, s \in Statements}
    \cup Recompiled

\* A forward call, and a condition that is a variable.
CallThenTest ==
    {Source(<<Fn("main", <<>>, <<Return(Call("f", <<I(1), I(2)>>))>>), F>>),
     Source(<<Main(2, 1, Countdown)>>)}

\* if (a - b) ...
ArithmeticCondition ==
    {Source(<<Main(1, 2, If(Bin("-", x, y), SetX(I(7)), SetY(I(8))))>>)}

\* x = 1 - 2; if (x < 1) ...
NegativeLocal ==
    {Source(<<Main(1, 2, Block(<<SetX(Bin("-", x, y)),
                                 If(Bin("<", x, I(1)), SetY(I(7)), SetY(I(8)))>>))>>)}

\* A valid text whose value is not looked at.
ValidText(cells) == [tree |-> <<>>, text |-> cells, valid |-> TRUE]

\* x declared again in an inner block; f declared before it is defined.
Redeclared ==
    {Source(<<Main(1, 2, Block(<<Decl("x", I(5)), SetX(I(6))>>))>>),
     Source(<<Prototype("f", <<"p", "q">>), Fn("main", <<>>, <<Return(Call("f", <<I(3), I(1)>>))>>),
              F>>)}

\* A loop that calls f in a statement and drops what it returns.
CallInLoop ==
    {Source(<<F, Main(0, 2, While(Bin("<", x, y), Block(<<Do(Call("f", <<x, y>>)),
                                                         SetX(Bin("+", x, I(1)))>>)))>>)}

\* The four together.
Miscompiled == ArithmeticCondition \cup NegativeLocal \cup Redeclared \cup CallInLoop

\* struct S{int a;}; and, in a program that does not define it, struct S s;
StructThenNone ==
    {ValidText(<<"struct", " ", "S", "{", "int", " ", "a", ";", "}", ";", "int", " ", "main", "(",
                 ")", "{", "return", " ", "1", ";", "}">>),
     InMain(<<"struct", " ", "S", " ", "s", ";">>)}

\* int main(void), a name nobody declared in a second statement, and the structs.
Misjudged ==
    {ValidText(<<"int", " ", "main", "(", "void", ")", "{", "return", " ", "1", ";", "}">>),
     InMain(<<"int", " ", "x", ";", "x", "=", "q", ";", "return", " ", "x", ";">>)}
    \cup StructThenNone

\* for (int i = 0; i < 2; i++) x = i;, and int f(x), a parameter without a type.
NeverEnding ==
    {ValidText(<<"int", " ", "main", "(", ")", "{", "int", " ", "x", ";", "for", "(", "int", " ",
                 "i", "=", "0", ";", "i", "<", "2", ";", "i", "+", "+", ")", "x", "=", "i", ";",
                 "return", " ", "x", ";", "}">>),
     NotC(<<"int", " ", "f", "(", "x", ")", "{", "return", " ", "1", ";", "}">>)}
============================================================================
