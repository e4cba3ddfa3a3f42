---- MODULE Grammar ----
(***************************************************************************)
(* How a tree is written: the reference the parser is judged against.  It  *)
(* is not a translation of parser.cpp but the other direction, from the    *)
(* table of precedences (docs/parser-and-ast.md, "Expression precedence    *)
(* structure"): the words of a tree, with parentheses exactly where an     *)
(* operand binds less tightly than its place requires.  The language has   *)
(* no separator between statements, so a sequence also has a condition:    *)
(* no statement may be continued by the first word of the next one.        *)
(***************************************************************************)
EXTENDS Naturals, Sequences
LOCAL INSTANCE SequencesExt

LOCAL Precedences ==
    <<{"=", "propager", "lambda"}, {"ou"}, {"et"}, {"non"}, {"==", "!="}, {"<", "<=", ">", ">=", "est"},
      {"+", "-"}, {"*", "/", "%"}, {"negation"}, {"en"}, {"call", "member", "index"}>>
LOCAL Loosest == 1
LOCAL Tightest == Len(Precedences) + 1
LOCAL OperatorOf(t) ==
    CASE t.n = "binary" -> t.label
      [] t.n = "prefix" -> IF t.label = "non" THEN "non" ELSE "negation"
      [] t.n = "lambda" -> IF t.kids[1].n = "block" THEN "closed lambda" ELSE "lambda"
      [] OTHER -> t.n
Strength(t) ==
    IF \E p \in DOMAIN Precedences : OperatorOf(t) \in Precedences[p]
    THEN CHOOSE p \in DOMAIN Precedences : OperatorOf(t) \in Precedences[p]
    ELSE Tightest

LOCAL Parens(words) == <<"(">> \o words \o <<")">>
LOCAL Commas(parts) ==
    FoldLeft(LAMBDA done, part : IF done = <<>> THEN part ELSE done \o <<",">> \o part, <<>>, parts)
LOCAL Absent(t) == t.n = "nothing"
LOCAL Guarded(openers, words) == IF words[1] \in openers THEN Parens(words) ELSE words

RECURSIVE Expr(_, _), Bare(_), TypeWords(_), Stmt(_)

LOCAL All(Write(_), trees) == [k \in DOMAIN trees |-> Write(trees[k])]
LOCAL Loose(t) == Expr(t, Loosest)
LOCAL IfAny(word, t, words) == IF Absent(t) THEN <<>> ELSE <<word>> \o words

TypeWords(t) ==
    CASE t.n \in {"named", "integer"} -> <<t.label>>
      [] t.n = "generic" -> <<t.label, "[">> \o Commas(All(TypeWords, t.kids)) \o <<"]">>
      [] t.n = "union" ->
           FoldLeft(LAMBDA done, a : IF done = <<>> THEN TypeWords(a) ELSE done \o <<"|">> \o TypeWords(a),
                    <<>>, t.kids)
      [] t.n = "nothing" -> <<>>

LOCAL ParameterWords(p) ==
    <<p.label, ":">> \o TypeWords(p.kids[1]) \o IfAny("=", p.kids[2], Loose(p.kids[2]))
LOCAL SignatureWords(kids) ==
    Parens(Commas(All(ParameterWords, Tail(kids)))) \o IfAny("->", kids[1], TypeWords(kids[1]))
LOCAL ArgumentWords(a) == (IF a.label = "" THEN <<>> ELSE <<a.label, ":">>) \o Loose(a.kids[1])
LOCAL PatternWords(p) ==
    CASE p.n = "result" ->
           <<p.label, "(", p.kids[1].label>> \o IfAny(":", p.kids[2], TypeWords(p.kids[2])) \o <<")">>
      [] p.n = "rien" -> <<"rien">>
      [] p.n = "typed" -> <<p.label, ":">> \o TypeWords(p.kids[1])
      [] p.n = "value" -> Loose(p.kids[1])
\* A body that is an expression must not look like a block.
LOCAL BodyWords(b) ==
    CASE b.n \in {"block", "retourne"} -> Stmt(b)
      [] b.n = "terminator" -> <<b.label>>
      [] OTHER -> Guarded({"{"}, Loose(b))
LOCAL BranchWords(b) ==
    (IF b.n = "sinon" THEN <<"sinon">> ELSE Commas(All(PatternWords, Front(b.kids))))
    \o <<"->">> \o BodyWords(Last(b.kids))

Bare(t) ==
    CASE t.n \in {"literal", "identifier"} -> <<t.label>>
      [] t.n = "binary" /\ t.label = "=" -> Expr(t.kids[1], 2) \o <<"=">> \o Loose(t.kids[2])
      [] t.n = "binary" /\ t.label # "=" ->
           Expr(t.kids[1], Strength(t)) \o <<t.label>> \o Expr(t.kids[2], Strength(t) + 1)
      [] t.n = "propager" -> Expr(t.kids[1], 2) \o <<"ou", "propager">>
      [] t.n = "prefix" -> <<t.label>> \o Expr(t.kids[1], Strength(t))
      [] t.n \in {"est", "en"} -> Expr(t.kids[1], Strength(t)) \o <<t.n>> \o TypeWords(t.kids[2])
      [] t.n = "call" -> Expr(t.kids[1], Strength(t)) \o Parens(Commas(All(ArgumentWords, Tail(t.kids))))
      [] t.n = "member" -> Expr(t.kids[1], Strength(t)) \o <<".", t.label>>
      [] t.n = "index" -> Expr(t.kids[1], Strength(t)) \o <<"[">> \o Loose(t.kids[2]) \o <<"]">>
      [] t.n = "list" -> <<"[">> \o Commas(All(Loose, t.kids)) \o <<"]">>
      [] t.n = "set" -> <<"{">> \o Commas(All(Loose, t.kids)) \o <<"}">>
      [] t.n = "dictionary" ->
           <<"{">> \o Commas([k \in 1 .. Len(t.kids) \div 2 |->
                                 Loose(t.kids[2 * k - 1]) \o <<":">> \o Loose(t.kids[2 * k])]) \o <<"}">>
      [] t.n = "lambda" ->
           <<"fonction">> \o SignatureWords(Tail(t.kids))
           \o (IF Absent(t.kids[2]) THEN BodyWords(t.kids[1])
               ELSE IF t.kids[1].n = "block" THEN Stmt(t.kids[1])
               ELSE Guarded({"{", "["}, Loose(t.kids[1])))
      [] t.n = "agir" ->
           <<"agir selon">> \o Loose(t.kids[1]) \o <<"{">>
           \o FlattenSeq(All(BranchWords, Tail(t.kids))) \o <<"}">>
Expr(t, place) == IF Strength(t) < place THEN Parens(Bare(t)) ELSE Bare(t)

LOCAL MemberWords_(m) == <<m.label>> \o IfAny("comme", m.kids[1], <<m.kids[1].label>>)
Stmt(t) ==
    CASE t.n = "block" -> <<"{">> \o FlattenSeq(All(Stmt, t.kids)) \o <<"}">>
      [] t.n = "soit" -> <<"soit", t.label>> \o IfAny(":", t.kids[1], TypeWords(t.kids[1]))
                         \o IfAny("=", t.kids[2], Loose(t.kids[2]))
      [] t.n = "fixe" -> <<"soit", "fixe">> \o Tail(Stmt(t.kids[1]))
      [] t.n \in {"public", "prive", "remplace"} -> <<t.n>> \o Stmt(t.kids[1])
      [] t.n = "documented" -> <<"/** */">> \o Stmt(t.kids[1])
      [] t.n = "field" -> <<t.label, ":">> \o TypeWords(t.kids[1])
      [] t.n = "fonction" -> <<"fonction", t.label>> \o SignatureWords(Tail(t.kids))
                             \o (IF Absent(t.kids[1]) THEN <<>> ELSE Stmt(t.kids[1]))
      [] t.n = "classe" ->
           <<"classe", t.label>> \o IfAny(":", t.kids[2], TypeWords(t.kids[2]))
           \o (IF Len(t.kids) = 2 THEN <<>>
               ELSE <<"realise">> \o Commas(All(TypeWords, Tail(Tail(t.kids)))))
           \o Stmt(t.kids[1])
      [] t.n = "interface" -> <<"interface", t.label, "{">> \o FlattenSeq(All(Stmt, t.kids)) \o <<"}">>
      [] t.n = "type" -> <<"type", t.label, "=">> \o TypeWords(t.kids[1])
      [] t.n = "importer" ->
           <<"importer", t.label>>
           \o (CASE t.kids = <<>> -> <<>>
                 [] t.kids # <<>> /\ t.kids[1].n = "token" -> <<"comme", t.kids[1].label>>
                 [] OTHER -> <<".", "{">> \o Commas(All(MemberWords_, t.kids)) \o <<"}">>)
      [] t.n = "si" -> <<"si">> \o Loose(t.kids[1]) \o Stmt(t.kids[2]) \o IfAny("sinon", t.kids[3], Stmt(t.kids[3]))
      [] t.n = "tant que" -> <<"tant que">> \o Loose(t.kids[1]) \o Stmt(t.kids[2])
      [] t.n = "pour" -> <<"pour", "chaque", t.label, "dans">> \o Loose(t.kids[1]) \o Stmt(t.kids[2])
      [] t.n \in {"retourne", "ignorer"} -> IfAny(t.n, t.kids[1], Loose(t.kids[1]))
                                            \o (IF Absent(t.kids[1]) THEN <<t.n>> ELSE <<>>)
      [] t.n = "jump" -> <<t.label>>
      [] t.n = "nothing" -> <<>>
      [] t.n = "agir" -> Bare(t)
      [] OTHER -> Guarded({"{", "fonction", "agir selon"}, Loose(t))

ProgramWords(trees) == FlattenSeq(All(Stmt, trees))

-----------------------------------------------------------------------------
(* What may follow a statement: an expression goes on with '(', '[' or '-', *)
(* a type with '[', a signature with a body, a bare retourne with a value.  *)
RECURSIVE Continuations(_)
Continuations(t) ==
    LET expression == {"(", "[", "-"} IN
    CASE t.n \in {"public", "prive", "remplace", "fixe", "documented"} -> Continuations(t.kids[1])
      [] t.n = "soit" -> IF ~Absent(t.kids[2]) THEN expression
                         ELSE IF Absent(t.kids[1]) THEN {} ELSE {"["}
      [] t.n \in {"field", "type"} -> {"["}
      [] t.n = "fonction" -> IF ~Absent(t.kids[1]) THEN {}
                             ELSE IF Absent(t.kids[2]) THEN {"{"} ELSE {"{", "["}
      [] t.n \in {"classe", "interface", "si", "tant que", "pour", "block", "jump", "agir", "importer",
                  "terminator"} -> {}
      [] t.n = "retourne" /\ Absent(t.kids[1]) -> {"anything"}
      [] OTHER -> expression
Separate(trees) ==
    \A k \in 1 .. Len(trees) - 1 :
        /\ "anything" \notin Continuations(trees[k])
        /\ Stmt(trees[k + 1])[1] \notin Continuations(trees[k])
====
