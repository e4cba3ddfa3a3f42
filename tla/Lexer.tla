---- MODULE Lexer ----
(***************************************************************************)
(* Scanner and Tokenizer (src/lexer): one token out of a text, and what is *)
(* skipped before it.  A text is a TLA+ string, a character one of its     *)
(* positions; letters outside ASCII, which the code reads byte by byte and *)
(* lets continue a word, and their keywords are left out.  A scanner is    *)
(* m_current (from 1), m_line and m_column; a token keeps its first and    *)
(* one-past-last position, its line and column, and the decoded body of a  *)
(* literal.  A Decimal literal is judged by its exponent alone.            *)
(***************************************************************************)
EXTENDS Naturals, Sequences, FiniteSets, TLC
LOCAL INSTANCE FiniteSetsExt

CONSTANTS MaxEntier,    \* the largest Entier a literal may name
          MaxExponent   \* the largest decimal exponent a Decimal holds
ASSUME LimitsAreNumbers == MaxEntier \in Nat /\ MaxExponent \in Nat

Digits == {"0", "1", "2", "3", "4", "5", "6", "7", "8", "9"}
LettersOf(s) == {SubSeq(s, k, k) : k \in 1..Len(s)}
AlphaStart == LettersOf("abcdefghijklmnopqrstuvwxyzABCDEFGHIJKLMNOPQRSTUVWXYZ_")
AlphaContinue == AlphaStart \cup Digits
HexDigits == Digits \cup LettersOf("abcdefABCDEF")

StartOfText == [at |-> 1, line |-> 1, col |-> 1]
AtEnd(text, i) == i > Len(text)
Peek(text, i) == IF AtEnd(text, i) THEN "end of text" ELSE SubSeq(text, i, i)
Slice(text, i, j) == SubSeq(text, i, Min({j - 1, Len(text)}))

\* Mutant: the column after a newline starts at zero.
OverFromZero(text, s, j, marks) ==
    LET ends == {k \in s.at .. j - 1 : Peek(text, k) = "\n"} IN
    IF marks /\ ends # {}
    THEN [at |-> j, line |-> s.line + Cardinality(ends), col |-> j - Max(ends) - 1]
    ELSE [at |-> j, line |-> s.line, col |-> s.col + (j - s.at)]
\* The scanner advanced to position j; when the caller marks line ends, every
\* newline passed over starts a line and the column restarts after it.
Over(text, s, j, marks) ==
    LET ends == {k \in s.at .. j - 1 : Peek(text, k) = "\n"} IN
    IF marks /\ ends # {}
    THEN [at |-> j, line |-> s.line + Cardinality(ends), col |-> j - Max(ends)]
    ELSE [at |-> j, line |-> s.line, col |-> s.col + (j - s.at)]

\* The first position from i on whose character satisfies Stops, or the end.
Until(text, i, Stops(_)) ==
    Min({k \in i .. Len(text) : Stops(Peek(text, k))} \cup {IF i > Len(text) THEN i ELSE Len(text) + 1})
\* The position of the first "*/" from i on, or the end.
CommentEnd(text, i) ==
    Min({k \in i .. Len(text) : Slice(text, k, k + 2) = "*/"} \cup {Len(text) + 1})

AtDocumentation(text, i) == Slice(text, i, i + 3) = "/**"
AfterBlock(text, i) == IF AtEnd(text, i) THEN i ELSE i + 2

\* skip_whitespace_and_comments: a documentation comment stops it.
RECURSIVE SkipLayout(_, _)
SkipLayout(text, s) ==
    LET here == Peek(text, s.at)
        two  == Slice(text, s.at, s.at + 2)
    IN CASE AtEnd(text, s.at) -> s
         [] here \in {" ", "\t", "\r", "\n"} -> SkipLayout(text, Over(text, s, s.at + 1, TRUE))
         [] two = "//" ->
              SkipLayout(text, Over(text, s, Until(text, s.at, LAMBDA c : c = "\n"), FALSE))
         [] two = "/*" /\ ~AtDocumentation(text, s.at) ->
              SkipLayout(text, Over(text, s, AfterBlock(text, CommentEnd(text, s.at + 2)), TRUE))
         [] OTHER -> s

-----------------------------------------------------------------------------
(* What scanning a token gives: its kind, the scanner after it, its body.   *)
Scanned(kind, s) == [kind |-> kind, to |-> s, decoded |-> <<>>]
Failed(s) == Scanned("ERREUR", s)

ScanDocumentation(text, s) ==
    LET body == IF Slice(text, s.at, s.at + 4) = "/**/" THEN s.at + 2 ELSE s.at + 3
        in   == Over(text, s, body, FALSE)
    IN Scanned("DOCUMENTATION",
               LET e == Over(text, in, Max({CommentEnd(text, body), body}), TRUE)
               IN IF AtEnd(text, e.at) THEN e ELSE Over(text, e, e.at + 2, FALSE))

HexDigit == [c \in HexDigits |->
    CHOOSE v \in 0..15 : \/ SubSeq("0123456789abcdef", v + 1, v + 1) = c
                         \/ SubSeq("0123456789ABCDEF", v + 1, v + 1) = c]
\* What digits are worth in a base, their separators aside.
RECURSIVE NumberOf(_, _)
NumberOf(digits, base) ==
    IF digits = "" THEN 0
    ELSE LET last == SubSeq(digits, Len(digits), Len(digits))
             rest == NumberOf(SubSeq(digits, 1, Len(digits) - 1), base)
         IN IF last = "_" THEN rest ELSE rest * base + HexDigit[last]

\* decode_unicode_escape, i just after the 'u': the position after it and the
\* code point, or where it stopped.
UnicodeEscape(text, i) ==
    LET end    == Until(text, i + 1, LAMBDA c : c \notin HexDigits)
        digits == Slice(text, i + 1, end)
        point  == NumberOf(digits, 16)
        refused(at) == [ok |-> FALSE, at |-> at, char |-> ""]
    IN CASE Peek(text, i) # "{" -> refused(i)
         [] Len(digits) > 6 -> refused(i + 7)
         [] Peek(text, end) # "}" -> refused(end)
         [] digits = "" -> refused(end)
         [] point > 1114111 \/ point \in 55296..57343 -> refused(end + 1)
         [] OTHER -> [ok |-> TRUE, at |-> end + 1, char |-> "U+" \o ToString(point)]

\* decode_escape_sequence, i just after the backslash.  A character it does not
\* know is consumed before it is refused, a newline like any other.
Escape(text, i) ==
    LET c == Peek(text, i) IN
    CASE AtEnd(text, i) -> [ok |-> FALSE, at |-> i, char |-> ""]
      [] c = "u" -> UnicodeEscape(text, i + 1)
      [] c \in {"n", "t", "r", "\\", "\"", "'", "0"} -> [ok |-> TRUE, at |-> i + 1, char |-> "\\" \o c]
      [] OTHER -> [ok |-> FALSE, at |-> i + 1, char |-> ""]

\* The body of a literal up to its quote (not consumed), the end of the text, an
\* escape that is refused or, in a symbol, a newline.
RECURSIVE Body(_, _, _, _)
Body(text, s, quote, out) ==
    LET c == Peek(text, s.at)
        e == Escape(text, s.at + 1)
    IN CASE AtEnd(text, s.at) \/ (c = "\n" /\ quote = "'") -> [ok |-> FALSE, to |-> s, out |-> out]
         [] c = quote -> [ok |-> TRUE, to |-> s, out |-> out]
         [] c = "\\" ->
              IF e.ok THEN Body(text, Over(text, s, e.at, FALSE), quote, Append(out, e.char))
              ELSE [ok |-> FALSE, to |-> Over(text, s, e.at, FALSE), out |-> out]
         [] OTHER -> Body(text, Over(text, s, s.at + 1, TRUE), quote, Append(out, c))

\* The quote that ends the body is taken; a body that is refused ends its token.
Closed(text, b, kind) ==
    IF b.ok THEN [kind |-> kind, to |-> Over(text, b.to, b.to.at + 1, FALSE), decoded |-> b.out] ELSE Failed(b.to)
ScanString(text, s) == Closed(text, Body(text, Over(text, s, s.at + 1, FALSE), "\"", <<>>), "TEXTE_LIT")
\* A symbol of more or less than one character leaves its closing quote behind.
OneCharacter(b) == [b EXCEPT !.ok = b.ok /\ Len(b.out) = 1]
ScanSymbol(text, s) ==
    Closed(text, OneCharacter(Body(text, Over(text, s, s.at + 1, FALSE), "'", <<>>)), "SYMBOLE_LIT")

\* The end of a run of digits: a "_" belongs to it only before a digit.
RECURSIVE DigitsEnd(_, _)
DigitsEnd(text, i) ==
    IF \/ Peek(text, i) \in Digits
       \/ Peek(text, i) = "_" /\ Peek(text, i + 1) \in Digits
    THEN DigitsEnd(text, i + 1) ELSE i

ScanNumber(text, s) ==
    LET whole == DigitsEnd(text, s.at)
        point == Peek(text, whole) = "." /\ Peek(text, whole + 1) \in Digits
        fraction == IF point THEN DigitsEnd(text, whole + 1) ELSE whole
        digit == IF Peek(text, fraction + 1) \in {"+", "-"} THEN fraction + 2 ELSE fraction + 1
        exponent == Peek(text, fraction) \in {"e", "E"} /\ Peek(text, digit) \in Digits
        end == IF exponent THEN DigitsEnd(text, digit) ELSE fraction
        fits == IF exponent THEN NumberOf(Slice(text, digit, end), 10) <= MaxExponent
                ELSE point \/ NumberOf(Slice(text, s.at, whole), 10) <= MaxEntier
    IN IF Peek(text, end) \in AlphaStart \/ ~fits THEN Failed(Over(text, s, end, FALSE))
       ELSE Scanned(IF point \/ exponent THEN "DECIMAL_LIT" ELSE "ENTIER_LIT", Over(text, s, end, FALSE))

Keywords ==
    [soit |-> "SOIT", fixe |-> "FIXE", fonction |-> "FONCTION", retourne |-> "RETOURNE",
     classe |-> "CLASSE", interface |-> "INTERFACE", type |-> "TYPE", realise |-> "REALISE",
     remplace |-> "REMPLACE", public |-> "PUBLIC", prive |-> "PRIVE", si |-> "SI",
     sinon |-> "SINON", pour |-> "POUR", chaque |-> "CHAQUE", dans |-> "DANS",
     arreter |-> "ARRETER", continuer |-> "CONTINUER", vrai |-> "VRAI", faux |-> "FAUX",
     rien |-> "RIEN", ici |-> "ICI", parent |-> "PARENT", en |-> "EN", importer |-> "IMPORTER",
     comme |-> "COMME", est |-> "EST", et |-> "ET", ou |-> "OU", non |-> "NON",
     propager |-> "PROPAGER", ignorer |-> "IGNORER"]

\* "tant" and "agir" are words only with the one that follows them on their line;
\* alone they are refused where they end.
SecondWord == [tant |-> [word |-> "que", kind |-> "TANT_QUE"],
               agir |-> [word |-> "selon", kind |-> "AGIR_SELON"]]

ScanWord(text, s) ==
    LET end    == Until(text, s.at, LAMBDA c : c \notin AlphaContinue)
        word   == Slice(text, s.at, end)
        next   == Until(text, end, LAMBDA c : c \notin {" ", "\t"})
        second == SecondWord[word]
        after  == next + Len(second.word)
    IN CASE word \in DOMAIN Keywords -> Scanned(Keywords[word], Over(text, s, end, FALSE))
         [] word \notin DOMAIN Keywords \cup DOMAIN SecondWord ->
              Scanned("IDENT", Over(text, s, end, FALSE))
         [] OTHER ->
              IF Slice(text, next, after) = second.word /\ Peek(text, after) \notin AlphaContinue
              THEN Scanned(second.kind, Over(text, s, after, FALSE))
              ELSE Failed(Over(text, s, end, FALSE))

Singles == ("(" :> "PAREN_OUV") @@ (")" :> "PAREN_FERM") @@ ("{" :> "ACCOLADE_OUV")
           @@ ("}" :> "ACCOLADE_FERM") @@ ("[" :> "CROCHET_OUV") @@ ("]" :> "CROCHET_FERM")
           @@ ("," :> "VIRGULE") @@ ("%" :> "MODULO") @@ ("*" :> "ETOILE") @@ ("+" :> "PLUS")
           @@ ("&" :> "AMPERSAND") @@ ("|" :> "PIPE") @@ (":" :> "DEUX_POINTS") @@ ("." :> "POINT")
           @@ ("/" :> "SLASH") @@ ("=" :> "EGAL") @@ ("<" :> "INFERIEUR")
           @@ (">" :> "SUPERIEUR") @@ ("-" :> "MOINS")
Doubles == ("==" :> "EGAL_EGAL") @@ ("!=" :> "BANG_EGAL") @@ ("<=" :> "INFERIEUR_EGAL")
           @@ (">=" :> "SUPERIEUR_EGAL") @@ ("->" :> "FLECHE")

Unknown(text, s) == Failed(Over(text, s, s.at + 1, FALSE))

\* scan_token: the longest operator first, anything unknown is one refused character.
ScanToken(text, s) ==
    LET c   == Peek(text, s.at)
        two == Slice(text, s.at, s.at + 2)
    IN CASE AtDocumentation(text, s.at) -> ScanDocumentation(text, s)
         [] c = "\"" -> ScanString(text, s)
         [] c = "'" -> ScanSymbol(text, s)
         [] c \in Digits -> ScanNumber(text, s)
         [] c \in AlphaStart -> ScanWord(text, s)
         [] two \in DOMAIN Doubles -> Scanned(Doubles[two], Over(text, s, s.at + 2, FALSE))
         [] two \notin DOMAIN Doubles /\ c \in DOMAIN Singles /\ ~AtDocumentation(text, s.at) ->
              Scanned(Singles[c], Over(text, s, s.at + 1, FALSE))
         [] OTHER -> Unknown(text, s)

TokenAt(text, s, scanned) ==
    [type |-> scanned.kind, lexeme |-> Slice(text, s.at, scanned.to.at), decoded |-> scanned.decoded,
     from |-> s.at, to |-> scanned.to.at, line |-> s.line, col |-> s.col]

\* One turn of tokenise: the layout, then a token unless the text ends there.
Found(text, start, scanned) == [found |-> TRUE, to |-> scanned.to, token |-> TokenAt(text, start, scanned)]
TokenFrom(text, start) ==
    IF AtEnd(text, start.at) THEN [found |-> FALSE, to |-> start] ELSE Found(text, start, ScanToken(text, start))
NextToken(text, s) == TokenFrom(text, SkipLayout(text, s))

EndOfFile(s) == [type |-> "FIN_FICHIER", lexeme |-> "", decoded |-> <<>>,
                 from |-> s.at, to |-> s.at, line |-> s.line, col |-> s.col]
====
