------------------------------- MODULE Lexer -------------------------------
(***************************************************************************)
(* The tokenizer (compiler/lexer.c).  A source text is a sequence of       *)
(* cells: a letter, a digit, an operator or a blank is one, and so is a    *)
(* whole run of letters, digits and underscores that starts with a letter, *)
(* a word.  The character after the last cell is the terminating NUL.      *)
(*                                                                         *)
(* A token keeps its characters, where the code keeps index and length.    *)
(* Keyword tokens have the word as their type (K_INT is "int"), operators  *)
(* their characters (T_LEQ is "<="), the others the names of the code.     *)
(***************************************************************************)
EXTENDS Integers, Sequences, FiniteSets, SequencesExt

Digits == {"0", "1", "2", "3", "4", "5", "6", "7", "8", "9"}
Blanks == {" ", "TAB", "CR", "LF"}
Punctuation == {"(", ")", "{", "}", "[", "]", ";", ",", ".", "+", "-", "*", "/", "%",
                "<", ">", "=", "!", "&", "\"", "'", "\\"}
IsWord(c) == c \notin Digits \cup Blanks \cup Punctuation \cup {"EOS"}

\* The character at i; the text ends with a NUL.
At(c, i) == IF i <= Len(c) THEN c[i] ELSE "EOS"

RECURSIVE DigitRun(_, _)
DigitRun(c, i) == IF At(c, i) \in Digits THEN 1 + DigitRun(c, i + 1) ELSE 0

\* Distance from i to the next character of stops.
RECURSIVE Until(_, _, _)
Until(c, i, stops) == IF At(c, i) \in stops THEN 0 ELSE 1 + Until(c, i + 1, stops)

\* A literal without its closing quote is one longer than the text.
FindLen(c, i) ==
    LET pair == <<At(c, i), At(c, i + 1)>>
    IN CASE pair \in {<<"-", ">">>, <<"+", "+">>, <<"-", "-">>, <<">", ">">>, <<"<", "<">>} -> 2
         [] pair[1] \in {"<", ">", "=", "!", "+", "-"} /\ pair[2] = "=" -> 2
         [] pair[1] \in {"\"", "'"} -> Until(c, i + 1, {pair[1], "EOS"}) + 2
         [] pair[1] \in Digits -> DigitRun(c, i)
         [] OTHER -> 1

Keywords == {"if", "do", "for", "int", "void", "char", "else", "case", "goto", "long", "auto",
             "while", "break", "short", "const", "return", "extern", "static", "struct",
             "switch", "signed", "default", "typedef", "unsigned", "volatile", "register",
             "continue"}

\* += , -= , << and >> have two characters and the type of the first.
TokenTypeAt(c, i) ==
    LET pair == <<At(c, i), At(c, i + 1)>>
    IN CASE pair = <<"+", "+">> -> "++"
         [] pair = <<"-", "-">> -> "--"
         [] pair = <<"-", ">">> -> "->"
         [] pair[1] \in Digits -> "T_INT"
         [] pair = <<"<", "=">> -> "<="
         [] pair = <<">", "=">> -> ">="
         [] pair = <<"=", "=">> -> "=="
         [] pair = <<"!", "=">> -> "!="
         [] IsWord(pair[1]) -> IF pair[1] \in Keywords THEN pair[1] ELSE "T_IDENTIFIER"
         [] pair[1] = "'" -> "T_CHAR"
         [] OTHER -> pair[1]

EofToken == [type |-> "T_EOF", text |-> <<"EOS">>]

\* The tokens from p on.
RECURSIVE Tokens(_, _)
Tokens(c, p) ==
    CASE p > Len(c) -> <<EofToken>>
      [] c[p] \in Blanks -> Tokens(c, p + 1)
      [] c[p] = "/" /\ At(c, p + 1) = "/" -> Tokens(c, p + 2 + Until(c, p + 2, {"LF", "EOS"}))
      [] OTHER -> LET l == FindLen(c, p)
                  IN << [type |-> TokenTypeAt(c, p), text |-> [k \in 1..l |-> At(c, p + k - 1)]] >>
                        \o Tokens(c, p + l)

InitLexer(c) == Tokens(c, 1)

\* A literal took in the NUL: the scan went on behind the text, in whatever
\* the buffer has there.
Overrun(toks) == \E i \in 1..Len(toks) - 1 : Last(toks[i].text) = "EOS"

\* atoi: the digits a token starts with.
DigitValue == [d \in Digits |-> CHOOSE v \in 0..9 : <<"0", "1", "2", "3", "4", "5", "6", "7",
                                                      "8", "9">>[v + 1] = d]
Atoi(text) ==
    FoldLeft(LAMBDA acc, d : acc * 10 + DigitValue[d], 0, SubSeq(text, 1, DigitRun(text, 1)))
============================================================================
