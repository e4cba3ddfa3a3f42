---- MODULE FrontEnd ----
(***************************************************************************)
(* From a text to its tree: Lexer::tokenise, one token at a time, then     *)
(* Parser::parse, one top-level statement at a time, resuming after each   *)
(* error.  analyze_source stops at lexical errors; the module loaders of   *)
(* both engines parse all the same and look only at had_error.             *)
(***************************************************************************)
EXTENDS Lexer, Parser, Grammar
LOCAL INSTANCE SequencesExt

CONSTANTS Sources   \* what is compiled: a text, and the words or the trees it was written from
ASSUME SourcesAreTexts ==
    \A s \in Sources : s.known \in {"nothing", "words", "trees"} /\ Len(s.text) \in Nat

VARIABLES source, phase, scanner, tokens, current, statements, blamed
vars == <<source, phase, scanner, tokens, current, statements, blamed>>

Init ==
    /\ source \in Sources
    /\ phase = "lexing" /\ scanner = StartOfText /\ tokens = <<>>
    /\ current = 1 /\ statements = <<>> /\ blamed = <<>>

Refused == \E k \in 1..Len(tokens) : tokens[k].type = "ERREUR"
HadError == blamed # <<>>

Tokenise ==
    /\ phase = "lexing"
    /\ \E next \in {NextToken(source.text, scanner)} :
       /\ scanner' = next.to
       /\ IF next.found THEN tokens' = Append(tokens, next.token) /\ phase' = "lexing"
          ELSE tokens' = Append(tokens, EndOfFile(next.to)) /\ phase' = "lexed"
    /\ UNCHANGED <<source, current, statements, blamed>>

\* analyze_source keeps the lexical errors and goes no further.
StopAtLexicalErrors ==
    /\ phase = "lexed" /\ Refused
    /\ phase' = "stopped"
    /\ UNCHANGED <<source, scanner, tokens, current, statements, blamed>>

StartParsing ==
    /\ phase = "lexed"
    /\ phase' = "parsing"
    /\ UNCHANGED <<source, scanner, tokens, current, statements, blamed>>

Unfinished == phase = "parsing" /\ Kind(tokens, current) # "FIN_FICHIER"
ParseStatement ==
    /\ Unfinished
    /\ \E r \in {Statement(tokens, current)} :
       /\ r.ok
       /\ current' = r.i /\ statements' = Append(statements, r.t)
    /\ UNCHANGED <<source, phase, scanner, tokens, blamed>>
Recover ==
    /\ Unfinished
    /\ \E r \in {Statement(tokens, current)} :
       /\ ~r.ok
       /\ current' = Resume(tokens, current, r.i) /\ blamed' = Append(blamed, r.blamed)
    /\ UNCHANGED <<source, phase, scanner, tokens, statements>>
\* One error is enough for parse to return no statement.
Finish ==
    /\ phase = "parsing" /\ Kind(tokens, current) = "FIN_FICHIER"
    /\ phase' = "parsed"
    /\ statements' = IF HadError THEN <<>> ELSE statements
    /\ UNCHANGED <<source, scanner, tokens, current, blamed>>

Next == Tokenise \/ StopAtLexicalErrors \/ StartParsing \/ ParseStatement \/ Recover \/ Finish

Spec == Init /\ [][Next]_vars
-----------------------------------------------------------------------------
LexemesOf(ts) == [k \in 1 .. Len(ts) - 1 |-> ts[k].lexeme]

\* Whatever blanks, newlines and comments are written between words, and nothing
\* where two words cannot run together, tokenise gives back the words: no rule of
\* the tokenizer takes a character of the next word or leaves one of its own.
LayoutIsInvisible ==
    phase # "lexing" /\ source.known # "nothing" =>
        LexemesOf(tokens) = source.words /\ ~Refused

\* Every token carries the line and the column of its first character, as
\* diagnostics print them, up to the first refused token that holds a newline (an
\* escape that is refused consumes a newline without counting it).
NewlinesBefore(i) == {k \in 1 .. i - 1 : Peek(source.text, k) = "\n"}
PositionOf(i) ==
    LET lines == NewlinesBefore(i)
        start == IF lines = {} THEN 0 ELSE CHOOSE k \in lines : \A l \in lines : l <= k
    IN [line |-> Cardinality(lines) + 1, col |-> i - start]
HoldsNewline(t) == NewlinesBefore(t.to) # NewlinesBefore(t.from)
LinesAreExact ==
    \A k \in DOMAIN tokens :
        (\A l \in 1 .. k - 1 : tokens[l].type = "ERREUR" => ~HoldsNewline(tokens[l]))
        => [line |-> tokens[k].line, col |-> tokens[k].col] = PositionOf(tokens[k].from)

\* The spans of the tokens follow each other without overlap, and a token's own
\* characters, read again alone, are that token: what tools cut out of a source by
\* its offsets means what it meant in place.
TokensStandAlone ==
    \A k \in DOMAIN tokens :
        /\ k > 1 => tokens[k - 1].to <= tokens[k].from
        /\ tokens[k].type \notin {"ERREUR", "FIN_FICHIER"} =>
               \E again \in {NextToken(tokens[k].lexeme, StartOfText)} :
               /\ again.found /\ AtEnd(tokens[k].lexeme, again.to.at)
               /\ again.token.type = tokens[k].type /\ again.token.decoded = tokens[k].decoded

\* What tokenise makes of a text is its words, each where it stands and readable alone.
TokensAreExact == LayoutIsInvisible /\ LinesAreExact /\ TokensStandAlone

\* The layers of the parser are the table of precedences: whatever tree is written
\* down with the parentheses the table asks for is the tree that is read.
TreesComeBack ==
    phase = "parsed" /\ source.known = "trees" => ~HadError /\ statements = source.trees

\* What parse accepts it has read entirely: the words of the trees are the words of
\* the source but for parentheses, documentation and visibility, in order, and a
\* refused token is never among them.  The module loaders rely on it: they look at
\* had_error and never at the diagnostics of the lexer.
Substance(words) ==
    FoldLeft(LAMBDA done, w : IF w \in {"(", ")", "public", "prive"} \/ AtDocumentation(w, 1)
                              THEN done ELSE done \o w, "", words)
NothingIsLost ==
    phase = "parsed" /\ ~HadError =>
        ~Refused /\ Substance(LexemesOf(tokens)) = Substance(ProgramWords(statements))

\* Recovery goes forward: no two errors blame the same token and they come in the
\* order of the source, although the parser resumes on the token it stopped at.
DiagnosticsAdvance ==
    \A k \in 1 .. Len(blamed) - 1 : blamed[k] < blamed[k + 1]

\* Whether parse accepts a text or goes on after its errors, it accounts for every token once
\* (parser.cpp 156-210, and every rule that takes tokens).
EveryTokenIsAccountedFor == NothingIsLost /\ DiagnosticsAdvance
====
