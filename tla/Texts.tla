---- MODULE Texts ----
(***************************************************************************)
(* Characters and their bytes (parser/utf8.cpp), operations on Texte       *)
(* (stdlib/texte.cpp), conversions between texts and values                *)
(* (runtime/conversions.cpp) and paths (stdlib/chemin.cpp).                *)
(* A text is the bytes of its UTF-8 form, and every operation works on     *)
(* these; positions and lengths count characters.                          *)
(***************************************************************************)
EXTENDS Scalars, Numerics
LOCAL INSTANCE SequencesExt
LOCAL INSTANCE FiniteSetsExt
LOCAL J == INSTANCE Json

\* Résultat: a value, or why there is none.
Success(v) == [ok |-> TRUE, v |-> v]
Failure == [ok |-> FALSE, v |-> J!Rien]

-----------------------------------------------------------------------------
(* utf8.cpp.  Here a text is the sequence of its bytes, which are numbers.  *)
NoCharacter == [some |-> FALSE, n |-> 0, next |-> 0]
\* A first byte: how many bytes the character takes, and its high bits.
Lead(first) ==
    CASE first \div 128 = 0 -> <<1, first>>
      [] first \div 32 = 6  -> <<2, first % 32>>
      [] first \div 16 = 14 -> <<3, first % 16>>
      [] first \div 8 = 30  -> <<4, first % 8>>
      [] OTHER -> <<0, 0>>
Canonical(width, n) ==
    /\ width = 2 => n >= 128
    /\ width = 3 => n >= 2048 /\ n \notin 55296..57343
    /\ width = 4 => n >= 65536 /\ n <= 1114111
DecodeOne(text, offset) ==
    LET width == Lead(text[offset + 1])[1]
        rest  == SubSeq(text, offset + 2, offset + width)
        value == FoldLeft(LAMBDA n, byte : n * 64 + (byte % 64), Lead(text[offset + 1])[2], rest)
    IN IF \/ width = 0 \/ offset + width > Len(text)
          \/ \E k \in DOMAIN rest : rest[k] \div 64 # 2
          \/ ~Canonical(width, value)
       THEN NoCharacter ELSE [some |-> TRUE, n |-> value, next |-> offset + width]
DecodeSingle(text) ==
    IF text # <<>> /\ DecodeOne(text, 0).next = Len(text) THEN Success(J!Entier(DecodeOne(text, 0).n)) ELSE Failure
RECURSIVE CharacterAtFrom(_, _, _), CountFrom(_, _, _)
CharacterAtFrom(text, index, offset) ==
    IF offset >= Len(text) \/ ~DecodeOne(text, offset).some THEN NoCharacter
    ELSE IF index = 0 THEN DecodeOne(text, offset)
    ELSE CharacterAtFrom(text, index - 1, DecodeOne(text, offset).next)
CharacterAt(text, index) == CharacterAtFrom(text, index, 0)
CountFrom(text, count, offset) ==
    IF offset >= Len(text) THEN Just(count)
    ELSE IF ~DecodeOne(text, offset).some THEN Nothing
    ELSE CountFrom(text, count + 1, DecodeOne(text, offset).next)
CharacterCount(text) == CountFrom(text, 0, 0)
EncodeCharacter(n) ==
    LET Low(k) == 128 + ((n \div 64^k) % 64) IN
    IF n < 128 THEN <<n>>
    ELSE IF n < 2048 THEN <<192 + n \div 64, Low(0)>>
    ELSE IF n < 65536 THEN <<224 + n \div 4096, Low(1), Low(0)>>
    ELSE <<240 + n \div 262144, Low(2), Low(1), Low(0)>>

-----------------------------------------------------------------------------
\* The bytes of each character: e' and e^ are letters with an accent, E' the capital of the first.
Bytes == [c \in {"a", "A", " ", "\n", "e'", "E'", "e^"} |->
             CASE c = "e'" -> <<"c3", "a9">> [] c = "E'" -> <<"c3", "89">> [] c = "e^" -> <<"c3", "aa">> [] OTHER -> <<c>>]
Continuation == {"a9", "89", "aa"}
Pairs == {<<"A", "a">>, <<"E'", "e'">>}    \* kCasePairs
Encode(chars) == FlattenSeq([i \in DOMAIN chars |-> Bytes[chars[i]]])

Found(bytes) == [ok |-> TRUE, text |-> bytes]
Refused == [ok |-> FALSE, text |-> <<>>]

-----------------------------------------------------------------------------
(* texte.cpp.  Offsets count from 0, as those of std::string.               *)

\* character_offsets: where each character begins, and the end of the text.
Offsets(bytes) ==
    SelectSeq([i \in 1..(Len(bytes) + 1) |-> i - 1],
              LAMBDA i : i = Len(bytes) \/ bytes[i + 1] \notin Continuation)
Taille(bytes) == Len(Offsets(bytes)) - 1
Substr(bytes, at, length) == SubSeq(bytes, at + 1, Min({at + length, Len(bytes)}))
\* std::string::find; Len(bytes) + 1 is npos.
Find(bytes, needle, from) ==
    Min({Len(bytes) + 1} \cup {p \in from..(Len(bytes) - Len(needle)) : Substr(bytes, p, Len(needle)) = needle})
Contient(bytes, needle) == Find(bytes, needle, 0) <= Len(bytes)
IndexDe(bytes, needle) == IF Contient(bytes, needle) THEN Taille(Substr(bytes, 0, Find(bytes, needle, 0))) ELSE -1
CommencePar(bytes, prefix) == Len(prefix) <= Len(bytes) /\ Substr(bytes, 0, Len(prefix)) = prefix
FinitPar(bytes, suffix) ==
    Len(bytes) >= Len(suffix) /\ Substr(bytes, Len(bytes) - Len(suffix), Len(suffix)) = suffix

RECURSIVE SplitFrom(_, _, _), ReplaceFrom(_, _, _, _)
SplitFrom(bytes, separator, start) ==
    LET p == Find(bytes, separator, start) IN
    IF p > Len(bytes) THEN <<Substr(bytes, start, Len(bytes))>>
    ELSE <<Substr(bytes, start, p - start)>> \o SplitFrom(bytes, separator, p + Len(separator))
\* An empty separator and an empty target are errors.
Separer(bytes, separator) == SplitFrom(bytes, separator, 0)
SeparerLignes(bytes) == SplitFrom(bytes, <<"\n">>, 0)
Replaced(bytes, p, needle, by) == Substr(bytes, 0, p) \o by \o Substr(bytes, p + Len(needle), Len(bytes))
Remplacer(bytes, needle, by) ==
    IF Contient(bytes, needle) THEN Replaced(bytes, Find(bytes, needle, 0), needle, by) ELSE bytes
ReplaceFrom(bytes, needle, by, from) ==
    LET p == Find(bytes, needle, from) IN
    IF p > Len(bytes) THEN bytes ELSE ReplaceFrom(Replaced(bytes, p, needle, by), needle, by, p + Len(by))
RemplacerTout(bytes, needle, by) == ReplaceFrom(bytes, needle, by, 0)

\* std::isspace, of one byte.
Blank == {" ", "\n"}
ElaguerGauche(bytes) ==
    LET p == SelectInSeq(bytes, LAMBDA b : b \notin Blank) IN IF p = 0 THEN <<>> ELSE SubSeq(bytes, p, Len(bytes))
ElaguerDroite(bytes) == SubSeq(bytes, 1, SelectLastInSeq(bytes, LAMBDA b : b \notin Blank))
Elaguer(bytes) == ElaguerDroite(ElaguerGauche(bytes))

Character(bytes, k) == LET o == Offsets(bytes) IN Substr(bytes, o[k], o[k + 1] - o[k])
\* map_case.
MapCase(bytes, from, to) ==
    FlattenSeq([k \in 1..Taille(bytes) |->
        LET c == Character(bytes, k)
            p == {pair \in Pairs : Bytes[pair[from]] = c}
        IN IF p = {} THEN c ELSE Bytes[(CHOOSE pair \in p : TRUE)[to]]])
Minuscules(bytes) == MapCase(bytes, 1, 2)
Majuscules(bytes) == MapCase(bytes, 2, 1)
Inverser(bytes) == FlattenSeq([k \in 1..Taille(bytes) |-> Character(bytes, Taille(bytes) + 1 - k)])
\* `limit` is the most bytes that a repetition may make.
Repeter(bytes, count, limit) ==
    IF count < 0 \/ (bytes # <<>> /\ count > limit \div Len(bytes)) THEN Refused
    ELSE Found(FlattenSeq([k \in 1..count |-> bytes]))
Inserer(bytes, at, fragment) ==
    IF at \notin 0..Taille(bytes) THEN Refused
    ELSE LET p == Offsets(bytes)[at + 1] IN Found(Substr(bytes, 0, p) \o fragment \o Substr(bytes, p, Len(bytes)))
Supprimer(bytes, at, length) ==
    IF at \notin 0..Taille(bytes) \/ length < 0 THEN Refused
    ELSE LET o == Offsets(bytes)
             last == at + Min({length, Taille(bytes) - at})
         IN Found(Substr(bytes, 0, o[at + 1]) \o Substr(bytes, o[last + 1], Len(bytes)))
SousTexte(bytes, at, length) ==
    IF at \notin 0..Taille(bytes) \/ length \notin 0..(Taille(bytes) - at) THEN Refused
    ELSE LET o == Offsets(bytes) IN Found(Substr(bytes, o[at + 1], o[at + length + 1] - o[at + 1]))

-----------------------------------------------------------------------------
(* numeric.hpp and conversions.cpp.  Here a text is the sequence of its     *)
(* characters, and a value a record of Json, which has no Symbole.          *)
Symbole(code) == [J!Rien EXCEPT !.t = "symbole", !.n = code]
SuccessOf(option, v) == IF option.some THEN Success(v) ELSE Failure

FiguresOnly(s) == s # <<>> /\ ToSet(s) \subseteq Figures
NumberOf(s) == FoldLeft(LAMBDA n, c : 10 * n + FigureOf(c), 0, s)
Without(s, signs) == IF s # <<>> /\ Head(s) \in signs THEN Tail(s) ELSE s
Signed(s, n) == IF s # <<>> /\ Head(s) = "-" THEN -n ELSE n
\* std::from_chars, of a whole text.
FromChars(s) ==
    LET figures == Without(s, {"-"}) IN
    IF FiguresOnly(figures) THEN Exact(Signed(s, NumberOf(figures))) ELSE Nothing
DecimalFromChars(s) ==
    LET body     == Without(s, {"-"})
        e        == SelectInSeq(body, LAMBDA c : c \in {"e", "E"})
        mantissa == IF e = 0 THEN body ELSE SubSeq(body, 1, e - 1)
        power    == IF e = 0 THEN <<"0">> ELSE SubSeq(body, e + 1, Len(body))
        point    == SelectInSeq(mantissa, LAMBDA c : c = ".")
        figures  == IF point = 0 THEN mantissa ELSE RemoveAt(mantissa, point)
        exponent == Without(power, {"+", "-"})
    IN IF FiguresOnly(figures) /\ FiguresOnly(exponent)
       THEN Success(J!Decimal(Signed(s, NumberOf(figures)),
                              Signed(power, NumberOf(exponent)) - (IF point = 0 THEN 0 ELSE Len(mantissa) - point)))
       ELSE Failure
\* std::stoll, and how much it reads.
Stoll(s) ==
    LET start   == SelectInSeq(s, LAMBDA c : c \notin Blank)
        body    == IF start = 0 THEN <<>> ELSE SubSeq(s, start, Len(s))
        signed  == Without(body, {"+", "-"})
        end     == SelectInSeq(signed, LAMBDA c : c \notin Figures)
        figures == IF end = 0 THEN signed ELSE SubSeq(signed, 1, end - 1)
    IN [whole |-> end = 0, number |-> IF figures = <<>> THEN Nothing ELSE Exact(Signed(body, NumberOf(figures)))]

ParseInteger(s) == FromChars(Without(s, {"+"}))
ParseDecimal(s) == DecimalFromChars(Without(s, {"+"}))
\* to_integer: towards zero.
ToInteger(v) == Exact(IF v.e >= 0 THEN v.n * 10^v.e ELSE Quotient(v.n, 10^(-v.e)))

EnEntier(s) == SuccessOf(ParseInteger(s), J!Entier(ParseInteger(s).n))
EnDecimal(s) == ParseDecimal(s)
EnLogique(s) == IF s \in {Chars("vrai"), Chars("faux")} THEN Success(J!Logique(s = Chars("vrai"))) ELSE Failure

ToEntier(v) ==
    CASE v.t = "entier"  -> Success(v)
      [] v.t = "décimal" -> SuccessOf(ToInteger(v), J!Entier(ToInteger(v).n))
      [] v.t = "symbole" -> Success(J!Entier(v.n))
      [] v.t = "texte"   -> LET read == Stoll(v.text) IN
                            IF read.whole THEN SuccessOf(read.number, J!Entier(read.number.n)) ELSE Failure
      [] OTHER -> Failure
ToDecimal(v) ==
    CASE v.t = "décimal" -> Success(v)
      [] v.t = "entier"  -> Success(J!Decimal(v.n, 0))
      [] v.t = "texte"   -> ParseDecimal(v.text)
      [] OTHER -> Failure
ToLogique(v) == IF v.t = "logique" THEN Success(v) ELSE IF v.t = "texte" THEN EnLogique(v.text) ELSE Failure
ToSymbole(v) ==
    CASE v.t = "symbole" -> Success(v)
      [] v.t = "entier"  -> IF v.n \in 0..55295 \/ v.n \in 57344..1114111 THEN Success(Symbole(v.n)) ELSE Failure
      [] v.t = "texte"   -> IF Len(v.text) = 1 THEN Success(Symbole(Code[v.text[1]])) ELSE Failure
      [] OTHER -> Failure
ToTexte(v) ==
    CASE v.t = "entier"  -> J!Digits(v.n)
      [] v.t = "décimal" -> J!DecimalText(v.n, v.e)
      [] v.t = "logique" -> Chars(IF v.n = 1 THEN "vrai" ELSE "faux")
      [] v.t = "symbole" -> <<Scalar[v.n]>>
      [] v.t = "texte"   -> v.text
      [] OTHER -> Chars("rien")
\* convert: `v en target`.
Convert(v, target) ==
    CASE target = "entier"  -> ToEntier(v)
      [] target = "décimal" -> ToDecimal(v)
      [] target = "logique" -> ToLogique(v)
      [] target = "symbole" -> ToSymbole(v)
      [] target = "texte"   -> Success(J!Texte(ToTexte(v)))
      [] OTHER -> Success(v)

-----------------------------------------------------------------------------
(* chemin.cpp.  A path is absolute or not, and its names; the last one is   *)
(* "" where the text ends in a separator.                                   *)
Path(root, names) == [root |-> root, names |-> names]
NoPath == [root |-> FALSE, names |-> <<"refused">>]

\* std::filesystem::path::lexically_normal.
Normaliser(path) ==
    LET Enter(s, name) ==
            IF name \in {"", "."} THEN [s EXCEPT !.open = TRUE]
            ELSE IF name # ".." THEN [names |-> Append(s.names, name), open |-> FALSE]
            ELSE IF s.names # <<>> /\ Last(s.names) # ".." THEN [names |-> Front(s.names), open |-> TRUE]
            ELSE IF path.root THEN s
            ELSE [names |-> Append(s.names, name), open |-> FALSE]
        end == FoldLeft(Enter, [names |-> <<>>, open |-> FALSE], path.names)
    IN Path(path.root,
            IF end.names = <<>> THEN IF path.root THEN <<>> ELSE <<".">>
            ELSE IF end.open /\ Last(end.names) # ".." THEN Append(end.names, "") ELSE end.names)
\* operator/=, of a relative path.
Slash(path, segment) ==
    Path(path.root, (IF path.names # <<>> /\ Last(path.names) = "" THEN Front(path.names) ELSE path.names) \o segment.names)
\* Only the first segment may be absolute, and none is empty.
Joindre(segments) ==
    IF \E i \in 2..Len(segments) : segments[i].root THEN NoPath
    ELSE Normaliser(FoldLeft(Slash, Path(segments[1].root, <<>>), segments))
Nom(path) == IF path.names = <<>> THEN "" ELSE Last(path.names)
Dossier(path) == Path(path.root, IF path.names = <<>> THEN <<>> ELSE Front(path.names))
Parties(path) == SelectSeq(Normaliser(path).names, LAMBDA name : name # "")
====
