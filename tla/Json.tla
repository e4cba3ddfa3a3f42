---- MODULE Json ----
(***************************************************************************)
(* JSON (interpreter/stdlib/json.cpp): the parser, with the place of its   *)
(* errors, and the encoder, which walks values that share and may contain  *)
(* one another.  An Entier is at most MaxEntier; a Décimal is a number and *)
(* a power of ten, written without exponent.                               *)
(***************************************************************************)
EXTENDS Scalars
LOCAL INSTANCE SequencesExt
LOCAL INSTANCE FiniteSetsExt

CONSTANT MaxEntier   \* INT64_MAX

(* A value, with every field of every kind; keys go with the kids of a dictionary. *)
Rien == [t |-> "rien", n |-> 0, e |-> 0, text |-> <<>>, keys |-> <<>>, kids |-> <<>>]
Logique(b) == [Rien EXCEPT !.t = "logique", !.n = IF b THEN 1 ELSE 0]
Entier(n) == [Rien EXCEPT !.t = "entier", !.n = n]
RECURSIVE Decimal(_, _)
Decimal(n, e) == IF n = 0 THEN [Rien EXCEPT !.t = "décimal"]
                 ELSE IF n % 10 = 0 THEN Decimal(n \div 10, e + 1)
                 ELSE [Rien EXCEPT !.t = "décimal", !.n = n, !.e = e]
Texte(text) == [Rien EXCEPT !.t = "texte", !.text = text]
Liste(kids) == [Rien EXCEPT !.t = "liste", !.kids = kids]
Dictionnaire(keys, kids) == [Rien EXCEPT !.t = "dictionnaire", !.keys = keys, !.kids = kids]

-----------------------------------------------------------------------------
(* JsonParser.  A rule answers where it stands, or where it failed.         *)
Read(i, v) == [ok |-> TRUE, at |-> i, v |-> v]
Fail(i) == [ok |-> FALSE, at |-> i]
\* The first failure is the answer.
Then(r, Continue(_)) == IF r.ok THEN Continue(r) ELSE r
Skip(s, i) == Min({k \in i..(Len(s) + 1) : At(s, k) \notin {" ", "\t", "\n", "\r"}})
EndOfFigures(s, i) == Min({k \in i..(Len(s) + 1) : At(s, k) \notin Figures})
NumberIn(s, i, j) == FoldLeft(LAMBDA n, k : 10 * n + FigureOf(s[k]), 0, [k \in 1..(j - i) |-> i + k - 1])

Place(s, i) ==
    LET breaks == {k \in 1..(i - 1) : s[k] = "\n"} IN
    [ligne |-> 1 + Cardinality(breaks), colonne |-> i - Max(breaks \cup {0})]

\* expect_literal consumes the scalar that differs.
Word(s, i, word, v) ==
    LET wrong == {k \in 1..Len(word) : At(s, i + k - 1) # word[k]} IN
    IF wrong = {} THEN Read(i + Len(word), v) ELSE Fail(Min({i + Min(wrong), Len(s) + 1}))

HexDigit == [c \in Figures |-> FigureOf(c)] @@ [c \in Between("a", "f") |-> 10 + Code[c] - Code["a"]]
            @@ [c \in Between("A", "F") |-> 10 + Code[c] - Code["A"]]
Hex4(s, i) ==
    LET wrong == {k \in 0..3 : At(s, i + k) \notin DOMAIN HexDigit} IN
    IF wrong = {} THEN Read(i + 4, FoldLeft(LAMBDA n, k : 16 * n + HexDigit[s[i + k]], 0, <<0, 1, 2, 3>>))
    ELSE Fail(Min({i + Min(wrong) + 1, Len(s) + 1}))
Escapes == ("\"" :> "\"") @@ ("\\" :> "\\") @@ ("/" :> "/") @@ [b |-> "BS", f |-> "\f", n |-> "\n", r |-> "\r", t |-> "\t"]
\* After "\u": a scalar, or a pair of surrogates that makes one.
Unicode(s, i) ==
    Then(Hex4(s, i), LAMBDA high :
        CASE high.v \in 56320..57343 -> Fail(high.at)
          [] high.v \notin 55296..57343 -> Read(high.at, high.v)
          [] high.v \in 55296..56319 /\ At(s, i + 4) # "\\" -> Fail(i + 4)
          [] high.v \in 55296..56319 /\ At(s, i + 4) = "\\" /\ At(s, i + 5) # "u" -> Fail(i + 5)
          [] OTHER -> Then(Hex4(s, i + 6), LAMBDA low :
                 IF low.v \notin 56320..57343 THEN Fail(low.at)
                 ELSE Read(low.at, 65536 + 1024 * (high.v - 55296) + (low.v - 56320))))
RECURSIVE StringFrom(_, _, _)
StringFrom(s, i, out) ==
    LET c == At(s, i)
        e == At(s, i + 1)
    IN CASE c = End -> Fail(i)
         [] c = "\"" -> Read(i + 1, out)
         [] c = "\\" /\ e \in DOMAIN Escapes -> StringFrom(s, i + 2, Append(out, Escapes[e]))
         [] c = "\\" /\ e = "u" ->
                Then(Unicode(s, i + 2), LAMBDA u : StringFrom(s, u.at, Append(out, Scalar[u.v])))
         [] c = "\\" /\ e # "u" /\ e \notin DOMAIN Escapes -> Fail(Min({i + 2, Len(s) + 1}))
         [] c # "\\" /\ Code[c] < 32 -> Fail(i)
         [] OTHER -> StringFrom(s, i + 1, Append(out, c))
String(s, i) == IF At(s, i) = "\"" THEN StringFrom(s, i + 1, <<>>) ELSE Fail(i)

Number(s, i) ==
    LET negative == At(s, i) = "-"
        first    == IF negative THEN i + 1 ELSE i
        whole    == IF At(s, first) = "0" THEN first + 1 ELSE EndOfFigures(s, first)
        dotted   == At(s, whole) = "."
        tail     == IF dotted THEN EndOfFigures(s, whole + 1) ELSE whole
        powered  == At(s, tail) \in {"e", "E"}
        minus    == At(s, tail + 1) = "-"
        power    == IF At(s, tail + 1) \in {"+", "-"} THEN tail + 2 ELSE tail + 1
        last     == IF powered THEN EndOfFigures(s, power) ELSE tail
        sign     == IF negative THEN -1 ELSE 1
        integer  == sign * NumberIn(s, first, whole)
        fraction == IF dotted THEN tail - whole - 1 ELSE 0
        digits   == NumberIn(s, first, whole) * 10^fraction + (IF dotted THEN NumberIn(s, whole + 1, tail) ELSE 0)
        exponent == IF powered THEN (IF minus THEN -1 ELSE 1) * NumberIn(s, power, last) ELSE 0
    IN CASE At(s, first) \notin Figures -> Fail(first)
         [] At(s, first) = "0" /\ At(s, whole) \in Figures -> Fail(whole)
         [] dotted /\ tail = whole + 1 -> Fail(tail)
         [] powered /\ last = power -> Fail(last)
         [] ~dotted /\ ~powered -> IF integer \in (-MaxEntier - 1)..MaxEntier THEN Read(last, Entier(integer))
                                   ELSE Fail(last)
         [] OTHER -> Read(last, Decimal(sign * digits, exponent - fraction))

RECURSIVE Value(_, _), Items(_, _, _), Members(_, _, _, _)
\* parse_array after an item's beginning: items up to the bracket.
Items(s, i, kids) ==
    Then(Value(s, i), LAMBDA v :
        LET next == Skip(s, v.at) IN
        CASE At(s, next) = "," -> Items(s, next + 1, Append(kids, v.v))
          [] At(s, next) = "]" -> Read(next + 1, Liste(Append(kids, v.v)))
          [] OTHER -> Fail(next))
Members(s, i, keys, kids) ==
    Then(String(s, Skip(s, i)), LAMBDA key :
        LET colon == Skip(s, key.at) IN
        IF key.v \in ToSet(keys) THEN Fail(key.at)
        ELSE IF At(s, colon) # ":" THEN Fail(colon)
        ELSE Then(Value(s, colon + 1), LAMBDA v :
            LET next == Skip(s, v.at) IN
            CASE At(s, next) = "," -> Members(s, next + 1, Append(keys, key.v), Append(kids, v.v))
              [] At(s, next) = "}" -> Read(next + 1, Dictionnaire(Append(keys, key.v), Append(kids, v.v)))
              [] OTHER -> Fail(next)))
Value(s, from) ==
    LET i == Skip(s, from)
        c == At(s, i)
        inner == Skip(s, i + 1)
    IN CASE c = "{" -> IF At(s, inner) = "}" THEN Read(inner + 1, Dictionnaire(<<>>, <<>>)) ELSE Members(s, inner, <<>>, <<>>)
         [] c = "[" -> IF At(s, inner) = "]" THEN Read(inner + 1, Liste(<<>>)) ELSE Items(s, inner, <<>>)
         [] c = "\"" -> Then(String(s, i), LAMBDA text : Read(text.at, Texte(text.v)))
         [] c = "t" -> Word(s, i, Chars("true"), Logique(TRUE))
         [] c = "f" -> Word(s, i, Chars("false"), Logique(FALSE))
         [] c = "n" -> Word(s, i, Chars("null"), Rien)
         [] c = "-" \/ c \in Figures -> Number(s, i)
         [] OTHER -> Fail(i)
Analyser(s) ==
    Then(Value(s, 1), LAMBDA v : IF Skip(s, v.at) <= Len(s) THEN Fail(Skip(s, v.at)) ELSE v)

-----------------------------------------------------------------------------
(* The encoder.  A heap gives the node of each address; the kids of a node  *)
(* are addresses.  A key that is not a text is NoText.                      *)
NoText == <<"a key that is no text">>
Digits(n) == Chars(ToString(n))
Hex(n) == Chars("0123456789abcdef")[n + 1]
Escaped(c) ==
    CASE c \in {"\"", "\\"} -> <<"\\", c>>
      [] c \in {"BS", "\f", "\n", "\r", "\t"} -> <<"\\", CHOOSE e \in DOMAIN Escapes : Escapes[e] = c>>
      [] c \notin {"BS", "\f", "\n", "\r", "\t"} /\ Code[c] < 32 ->
             <<"\\", "u", "0", "0", Hex(Code[c] \div 16), Hex(Code[c] % 16)>>
      [] OTHER -> <<c>>
EscapeText(text) == <<"\"">> \o FlattenSeq([k \in DOMAIN text |-> Escaped(text[k])]) \o <<"\"">>
\* decimal_to_text: the digits with their point, ".0" when there is none.
DecimalText(n, e) ==
    LET abs  == IF n < 0 THEN -n ELSE n
        sign == IF n < 0 THEN <<"-">> ELSE <<>>
    IN sign \o (IF e >= 0 THEN Digits(abs * 10^e) \o <<".", "0">>
                ELSE LET low == Digits(10^(-e) + (abs % 10^(-e)))
                     IN Digits(abs \div 10^(-e)) \o <<".">> \o Tail(low))

Compact == -1
NewLine(indent, depth) == IF indent = Compact THEN <<>> ELSE <<"\n">> \o [k \in 1..(indent * depth) |-> " "]
Wrote(out) == [ok |-> TRUE, out |-> out]
Refused(cause, path) == [ok |-> FALSE, cause |-> cause, path |-> path]

\* Mutant: a value that was met anywhere, not only above, counts as a cycle.
SeenBefore(ancestors, path, id) == Len(path) > 1
\* The value is being encoded, further up on the path.
Above(ancestors, path, id) == id \in ToSet(ancestors)
RECURSIVE Encode(_, _, _, _, _), EncodeKids(_, _, _, _, _, _)
EncodeKids(heap, id, k, path, ancestors, indent) ==
    LET node  == heap[id]
        depth == Len(path)
    IN IF k > Len(node.kids) THEN Wrote(IF node.kids = <<>> THEN <<>> ELSE NewLine(indent, depth))
       ELSE IF node.t = "dictionnaire" /\ node.keys[k] = NoText THEN Refused("clé", path)
       ELSE LET kid  == Encode(heap, node.kids[k], Append(path, k), Append(ancestors, id), indent)
                rest == EncodeKids(heap, id, k + 1, path, ancestors, indent)
                key  == IF node.t = "liste" THEN <<>>
                        ELSE EscapeText(node.keys[k]) \o (IF indent = Compact THEN <<":">> ELSE <<":", " ">>)
            IN CASE ~kid.ok -> kid
                 [] ~rest.ok -> rest
                 [] OTHER -> Wrote((IF k = 1 THEN <<>> ELSE <<",">>) \o NewLine(indent, depth + 1) \o key
                                   \o kid.out \o rest.out)
Encode(heap, id, path, ancestors, indent) ==
    LET node == heap[id]
        kids == EncodeKids(heap, id, 1, path, ancestors, indent)
    IN CASE node.t = "rien" -> Wrote(Chars("null"))
         [] node.t = "logique" -> Wrote(Chars(IF node.n = 1 THEN "true" ELSE "false"))
         [] node.t = "entier" -> Wrote(Digits(node.n))
         [] node.t = "décimal" -> Wrote(DecimalText(node.n, node.e))
         [] node.t = "texte" -> Wrote(EscapeText(node.text))
         [] node.t \in {"liste", "dictionnaire"} ->
                IF Above(ancestors, path, id) THEN Refused("cycle", path)
                ELSE IF ~kids.ok THEN kids
                ELSE IF node.t = "liste" THEN Wrote(<<"[">> \o kids.out \o <<"]">>)
                ELSE Wrote(<<"{">> \o kids.out \o <<"}">>)
         [] OTHER -> Refused("type", path)   \* infini and non_nombre, and the kinds that JSON lacks
Encoder(heap, root, indent) == Encode(heap, root, <<>>, <<>>, indent)
====
