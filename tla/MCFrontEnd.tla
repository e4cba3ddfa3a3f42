---- MODULE MCFrontEnd ----
(***************************************************************************)
(* The sources of FrontEnd: every short text over the characters the       *)
(* tokenizer treats differently; pairs of words under every layout; short  *)
(* sequences of words, alone and inside openings they may not close;       *)
(* every expression two operators deep and pairs of statements, written    *)
(* out by Grammar.                                                         *)
(***************************************************************************)
EXTENDS FrontEnd, SequencesExt

CONSTANTS TextLength,   \* how long the texts of arbitrary characters are
          WordCount     \* how long the sequences of arbitrary words are

Arbitrary(text) == [text |-> text, known |-> "nothing", words |-> <<>>, trees |-> <<>>]
Written(text, words) == [text |-> text, known |-> "words", words |-> words, trees |-> <<>>]

StringOf(chars) == FoldLeft(LAMBDA done, c : done \o c, "", chars)
Spaced(words) == FoldLeft(LAMBDA done, w : IF done = "" THEN w ELSE done \o " " \o w, "", words)

Characters == {"/", "*", "\n", " ", "\"", "'", "\\", "1", "e", ".", "_", "-", "n"}
Literally == {"tant  que x", "tant quex", "tant\nque", "tant", "agir\tselon", "agir selons", "agir", "1_0e+2", "1e9", "1e10",
              "9999", "10_000", "1.a", "'\\u{e9}'", "\"\\u{d800}\"", "\"\\u{110000}\"", "'\\u{}'", "\"\\u{0000041}\"",
              "\"\\u41\"", "''", "'ab' x", "'\n'", "\"a\nb\" c", "/**/ a", "/***/ a", "/** a\n * b\n */ c", "/* /* */ x */",
              "#", "! !=", "\"\\\n\" x", "<=> ==="}
Texts == {Arbitrary(StringOf(cs)) : cs \in UNION {[1..n -> Characters] : n \in 0..TextLength}}
         \cup {Arbitrary(t) : t \in Literally}

\* Two words and what is written around them.
Words == {"soit", "tant que", "agir selon", "tante", "x", "12", "1.5e2", "\"a\\n\"", "'b'", "->", "-", "<",
          "<=", "=", "==", "/", ".", "}", "/**d*/"}
Gaps == {" ", "\n", "\t\r\n", "/* c\n*/", "// c /*\n", ""}
Ends == {"", " // end", "\n/*"}
WordChar(c) == c \in AlphaContinue
RunTogether(a, b) ==
    LET l == SubSeq(a, Len(a), Len(a))
        f == SubSeq(b, 1, 1)
    IN (WordChar(l) /\ WordChar(f)) \/ l \o f \in {"->", "==", "<=", "//", "/*"}
Layouts ==
    {Written(x[1] \o x[3] \o x[2] \o x[4], <<x[1], x[2]>>) :
        x \in {y \in Words \X Words \X Gaps \X Ends :
                  /\ ~RunTogether(y[1], IF y[3] = "" THEN y[2] ELSE y[3])
                  /\ y[4] # "" => ~RunTogether(y[2], y[4])}}

\* Sequences of words, most of which are not programs.
Vocabulary == {"x", "1", "(", ")", "{", "}", "[", "]", ",", ":", ".", "=", "->", "-", "soit", "fonction",
               "si", "sinon", "retourne", "en", "ou", "propager", "prive", "/**d*/"}
Contexts == {<<>>, <<"fonction", "f", "(", ")", "{">>, <<"agir selon", "x", "{", "1">>, <<"soit", "x", "=">>,
             <<"classe", "C", ":">>, <<"interface", "I", "{">>, <<"importer", "m">>, <<"remplace">>,
             <<"x", "est", "T">>, <<"f", "(", "x">>, <<"[", "x">>, <<"pour", "chaque", "x">>, <<"type">>, <<"ignorer">>}
Sequences_ ==
    LET words(n) == UNION {{SubSeq(w, 1, k) : w \in [1..k -> Vocabulary]} : k \in 0..n} IN
    {Written(Spaced(w), w) : w \in words(WordCount)}
    \cup {Written(Spaced(c \o w \o e), c \o w \o e) :
            c \in Contexts, w \in words(WordCount), e \in {<<>>, <<"}", "soit", "y">>}}

-----------------------------------------------------------------------------
(* Trees.                                                                    *)
A == Leaf("identifier", "a")
One == Leaf("literal", "1")
T == Leaf("named", "T")
List_ == Node("generic", "L", <<T, Leaf("integer", "3")>>)
Either == Node("union", "", <<T, List_>>)
Return_(x) == Node("retourne", "", <<x>>)
Block_(ss) == Node("block", "", ss)
Parameter_(name, type, default) == Node("parameter", name, <<type, default>>)
Argument_(name, x) == Node("argument", name, <<x>>)
Branch_(p, b) == Node("branch", "", <<p, b>>)
Value_(x) == Node("value", "", <<x>>)
Token_(l) == Leaf("token", l)

BinaryOperators == {"ou", "et", "!=", "<=", "-", "*"}
Shapes(S) ==
    {Node("binary", op, <<x, y>>) : op \in BinaryOperators, x \in S, y \in S}
    \cup {Node("binary", "=", <<x, y>>) : x \in {z \in S : z.n \in Assignable}, y \in S}
    \cup UNION {
        {Node("prefix", "non", <<x>>), Node("prefix", "-", <<x>>), Node("propager", "", <<x>>),
         Node("est", "", <<x, Either>>), Node("en", "", <<x, List_>>), Node("call", "", <<x>>),
         Node("call", "", <<A, Argument_("", x), Argument_("si", A)>>), Node("member", "en", <<x>>),
         Node("index", "", <<x, A>>), Node("index", "", <<A, x>>), Node("list", "", <<x, A>>),
         Node("set", "", <<x>>), Node("set", "", <<A, x>>), Node("dictionary", "", <<x, A, A, x>>),
         Node("lambda", "", <<x, Nothing>>), Node("lambda", "", <<x, List_, Parameter_("p", T, x)>>),
         Node("lambda", "", <<Block_(<<Return_(x)>>), T>>),
         Node("agir", "", <<x, Branch_(Value_(x), Block_(<<x>>)), Node("sinon", "", <<x>>)>>),
         Node("agir", "", <<A, Branch_(Node("result", "Succes", <<Token_("v"), T>>), Return_(x)),
                            Branch_(Node("typed", "t", <<T>>), Leaf("terminator", "propager")),
                            Branch_(Leaf("rien", "rien"), x)>>)} : x \in S}
Simple == Shapes({A}) \cup {A, One}
Expressions == Shapes(Simple)

Bodies == {Block_(<<>>), Block_(<<Node("soit", "v", <<Nothing, A>>), Return_(Nothing)>>)}
Function_(body, type) == Node("fonction", "f", <<body, type, Parameter_("p", T, Nothing)>>)
Members_ == {Node("field", "c", <<T>>), Marked("prive", Node("field", "c", <<List_>>)),
             Marked("public", Function_(Block_(<<A>>), Nothing)),
             Marked("remplace", Marked("prive", Function_(Block_(<<>>), T)))}
StatementTrees ==
    {A, Node("prefix", "-", <<A>>), Node("list", "", <<A>>), Node("set", "", <<A>>),
     Node("lambda", "", <<A, Nothing>>), Node("binary", "=", <<A, One>>),
     Node("soit", "v", <<Nothing, Nothing>>), Node("soit", "v", <<T, Nothing>>),
     Marked("fixe", Node("soit", "v", <<Either, A>>)), Marked("public", Node("soit", "v", <<Nothing, A>>)),
     Node("type", "U", <<Either>>), Marked("public", Node("type", "U", <<T>>)),
     Node("importer", "m", <<>>), Node("importer", "m", <<Token_("n")>>),
     Node("importer", "m", <<Node("member", "x", <<Nothing>>), Node("member", "y", <<Token_("z")>>)>>),
     Node("si", "", <<A, Block_(<<>>), Node("si", "", <<Node("set", "", <<A>>), Block_(<<A>>), Block_(<<>>)>>)>>),
     Node("tant que", "", <<Node("lambda", "", <<A, Nothing>>), Block_(<<Leaf("jump", "arreter")>>)>>),
     Node("pour", "i", <<A, Block_(<<Leaf("jump", "continuer")>>)>>),
     Node("agir", "", <<A>>), Return_(A), Return_(Nothing), Node("ignorer", "", <<A>>),
     Function_(Nothing, Nothing), Function_(Nothing, T), Marked("documented", Function_(Block_(<<>>), Nothing)),
     Node("classe", "C", <<Block_(<<Node("field", "c", <<T>>)>>), List_, T, T>>),
     Node("classe", "C", <<Block_(<<>>), Nothing>>),
     Node("interface", "I", <<Function_(Nothing, T), Function_(Nothing, Nothing)>>),
     Marked("public", Node("interface", "I", <<>>))}
    \cup {Block_(<<m>>) : m \in Members_} \cup Bodies
Programs ==
    {p \in {<<e>> : e \in Expressions} \cup {<<s, t>> : s \in StatementTrees, t \in StatementTrees}
           \cup {<<Block_(<<s, t>>)>> : s \in StatementTrees, t \in StatementTrees} :
        Separate(IF p[1].n = "block" THEN p[1].kids ELSE p)}

MCSources ==
    Texts \cup Layouts \cup Sequences_
    \cup {[text |-> Spaced(ProgramWords(p)), known |-> "trees", words |-> ProgramWords(p), trees |-> p] : p \in Programs}
====
