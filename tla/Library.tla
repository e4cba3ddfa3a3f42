---- MODULE Library ----
(***************************************************************************)
(* Calls of the pure data libraries.  A request is what a program passes   *)
(* to one of them; a step answers it with the algorithms of Regex, Temps   *)
(* and Json, and the properties hold the answer against what the library   *)
(* promises (RegexMeaning, LibraryMeaning).                                *)
(***************************************************************************)
EXTENDS LibraryMeaning
LOCAL INSTANCE SequencesExt
LOCAL INSTANCE FiniteSetsExt

CONSTANTS
    MaxBound,       \* of a repetition in a pattern
    Patterns,       \* trees of patterns
    Subjects,       \* texts they are searched in
    Instants, Formats,
    IsoForms,       \* what may follow the seconds of an ISO 8601 text, with the milliseconds and seconds it means
    Footers, Moments,   \* rules of time zones, and instants in seconds
    TableYears,     \* years that the longer table of a zone covers
    Heaps,          \* of JSON values; 1 is the root
    Indents,
    Hash,           \* of each key of a table
    TableSizes, TableCalls,   \* keys that a table holds at first, and the most calls on it then
    MaxText,        \* of a JSON text that is read
    Characters, MaxWord,   \* texts, and the longest that is looked for in one
    Segments,       \* of a path
    Convertibles,   \* values
    LeadBytes, NextBytes,   \* of a text that may be UTF-8
    CodePoints,
    Messages, FrameLists,   \* that are sent
    MaxRead,        \* bytes that one recv gives
    Routings,       \* the routes of a server, with a method and a path that are asked for
    Hosts, Ports, Targets,   \* of addresses
    TokenLists      \* values of a header
R == INSTANCE RegexMeaning
K == INSTANCE KeyedTables
X == INSTANCE Texts

VARIABLES request, answer
vars == <<request, answer>>

\* Every text up to MaxText long of either alphabet, and the beginnings of those that are JSON.
TextsOver(chars) == UNION {{SubSeq(w, 1, n) : w \in [1..n -> chars]} : n \in 0..MaxText}
JsonTexts == TextsOver({"[", "]", ",", "0", "\n"}) \cup TextsOver({"{", "}", ":", ",", "\""})
JsonReads == ArrayTexts(2 * MaxText + 1) \cup ObjectTexts(2 * MaxText + 1)
JsonBeginnings == Beginnings(JsonReads, MaxText)

\* Sets and erasures of any keys, after the first keys were set in order.
Calls == [op : {"set", "erase"}, key : DOMAIN Hash]
BoundedCalls == UNION {{SubSeq(c, 1, n) : c \in [1..n -> Calls]} : n \in 0..TableCalls}
Filling(n) == [k \in 1..n |-> [op |-> "set", key |-> k]]

\* The sizes of the first piece and of the others in which `size` bytes come.
Cuts(size) == {<<1, 1>>, <<1, 3>>} \cup ((1..Min({size, MaxRead})) \X {MaxRead})

NoAnswer == [to |-> "nobody"]
Request(kind, of) == [kind |-> kind] @@ of
Init ==
    /\ answer = NoAnswer
    /\ \/ \E a, b \in Entier : request = Request("numbers", [a |-> a, b |-> b])
       \/ \E t \in Patterns : request = Request("pattern", [tree |-> t])
       \/ \E i \in Instants, f \in Formats : request = Request("instant", [instant |-> i, format |-> f])
       \/ \E i \in Instants, form \in IsoForms : request = Request("iso", [instant |-> i, form |-> form])
       \/ \E f \in Footers, at \in Moments : request = Request("zone", [footer |-> f, at |-> at])
       \/ \E h \in Heaps, n \in Indents : request = Request("value", [heap |-> h, indent |-> n])
       \/ \E n \in TableSizes, calls \in BoundedCalls : request = Request("table", [size |-> n, calls |-> calls])
       \/ \E s \in JsonTexts : request = Request("json", [text |-> s])
       \/ \E s \in BoundedSeq(Characters, MaxWord + 1), w \in BoundedSeq(Characters, MaxWord) :
             request = Request("text", [text |-> s, word |-> w])
       \/ \E v \in Convertibles : request = Request("conversion", [v |-> v])
       \/ \E b \in LeadBytes : request = Request("bytes", [lead |-> b])
       \/ \E m, n \in CodePoints : request = Request("characters", [points |-> <<m, n>>])
       \/ \E a, b \in Segments, c \in Segments : request = Request("path", [segments |-> <<a, b, c>>])
       \/ \E m \in Messages : request = Request("message", [message |-> m])
       \/ \E f \in FrameLists, side \in {"client", "server"} : request = Request("frames", [frames |-> f, side |-> side])
       \/ \E r \in Routings : request = Request("route", r)
       \/ \E h \in Hosts, p \in Ports, t \in Targets : request = Request("address", [host |-> h, port |-> p, target |-> t])
       \/ \E l \in TokenLists : request = Request("tokens", [tokens |-> l])

Asked(kind) == answer = NoAnswer /\ request.kind = kind
Reply(to) == answer' = to /\ UNCHANGED request
Answers(kind, to) == Asked(kind) /\ Reply(to)

\* The arithmetic operators on two integers, and the sums and differences of Temps.
Compute ==
    Answers("numbers",
        LET a == request.a
            b == request.b
        IN [to |-> "numbers", sums |-> {Add(a, b), Ajouter(a, b)}, opposite |-> Negate(a),
            differences |-> {Subtract(a, b), Soustraire(a, b), Entre(b, a)},
            products |-> {Multiply(a, b), IF b > 0 THEN DurationOf(a, b) ELSE Multiply(b, a)},
            quotient |-> Divide(a, b), rest |-> Remainder(a, b), size |-> Absolu(a), fits |-> IntervalFits(a, b),
            power |-> IF b < 0 THEN Nothing ELSE IntegerPower(a, b),
            rounded |-> IF b <= 0 THEN <<>> ELSE <<Plancher(a, b), Arrondir(a, b), Plafond(a, b), Tronquer(a, b)>>])
\* Regex.analyser, then trouver_tous and remplacer_tout on every subject.
Searched(parsed, program, groups) ==
    [to |-> "pattern", parsed |-> parsed,
     found |-> [w \in Subjects |-> R!TrouverTous(program, groups, w)],
     replaced |-> [w \in Subjects |-> R!RemplacerTout(program, groups, w, <<"<", "$", "0", ">">>)]]
SearchPattern ==
    /\ Asked("pattern")
    /\ \E parsed \in {R!ParsePattern(R!Write(request.tree))} :
        Reply(Searched(parsed, R!ProgramOf(parsed.t), parsed.g - 1))
\* Temps.formater, then analyser with the same format.
WriteInstant ==
    Answers("instant",
        LET text == T!FormatInstant(request.instant, request.format) IN
        [to |-> "instant", text |-> text, back |-> T!ParseInstant(text, request.format)])
\* Temps.formater_iso8601 and analyser_iso8601, of that text and of one with another fraction and zone.
WriteIso ==
    Answers("iso",
        LET text  == T!FormatIso(request.instant)
            other == SubSeq(text, 1, Len(text) - 5) \o request.form.text
        IN [to |-> "iso", text |-> text, back |-> T!ParseIso(text), other |-> T!ParseIso(other),
            cut |-> {T!ParseIso(SubSeq(text, 1, k)).ok : k \in 0..(Len(text) - 1)}])
\* Temps.dans_fuseau: the offset of a zone at an instant.
LocateInstant ==
    /\ Asked("zone")
    /\ \E f \in {T!Footer(request.footer)} :
        Reply([to |-> "zone", footer |-> f,
             offsets |-> {T!ZoneOffset(TabledZone(f, years), request.at) : years \in {{Min(TableYears)}, TableYears}}])
\* Json.encoder, then analyser.
WriteValue ==
    /\ Asked("value")
    /\ \E wrote \in {J!Encoder(request.heap, 1, request.indent)} :
        Reply([to |-> "value", wrote |-> wrote, back |-> IF wrote.ok THEN J!Analyser(wrote.out) ELSE J!Fail(1)])
\* Json.analyser, with the line and the column of an error.
ReadText ==
    /\ Asked("json")
    /\ \E read \in {J!Analyser(request.text)} :
        Reply([to |-> "json", read |-> read, place |-> J!Place(request.text, read.at)])
\* DictData and EnsembleData under a sequence of calls; the value set is the number of the call.
UseTable ==
    Answers("table",
        LET calls == Filling(request.size) \o request.calls
            table == K!Called(calls)[Len(calls)]
        IN [to |-> "table", entries |-> table.entries, at |-> [key \in DOMAIN Hash |-> K!Find(table, key)]])
\* Texte.index_de, separer, remplacer, inserer, sous_texte and the others, at every position.
UseText ==
    Answers("text",
        LET s == X!Encode(request.text)
            w == X!Encode(request.word)
            places == -1..(Len(request.text) + 1)
        IN [to |-> "text", taille |-> X!Taille(s), index |-> X!IndexDe(s, w), contains |-> X!Contient(s, w),
            starts |-> X!CommencePar(s, w), ends |-> X!FinitPar(s, w),
            pieces |-> IF w = <<>> THEN X!SeparerLignes(s) ELSE X!Separer(s, w),
            first |-> IF w = <<>> THEN s ELSE X!Remplacer(s, w, w \o w),
            all |-> IF w = <<>> THEN s ELSE X!RemplacerTout(s, w, w \o w),
            trimmed |-> X!Elaguer(s), reversed |-> X!Inverser(s), lower |-> X!Minuscules(s), upper |-> X!Majuscules(s),
            inserted |-> [n \in places |-> X!Inserer(s, n, w)],
            removed |-> [n \in places, m \in places |-> X!Supprimer(s, n, m)],
            part |-> [n \in places, m \in places |-> X!SousTexte(s, n, m)],
            repeated |-> [n \in -1..3 |-> X!Repeter(s, n, 7)]])
\* `en` each type, and what then comes of the text; Texte.en_entier and the others, of that text.
Conversions == {"entier", "décimal", "logique", "symbole", "texte"}
ConvertValue ==
    Answers("conversion",
        LET v == request.v
            text == X!ToTexte(v)
        IN [to |-> "conversion", text |-> text, en |-> [type \in Conversions |-> X!Convert(v, type)],
            back |-> [type \in Conversions |-> X!Convert(J!Texte(text), type)],
            method |-> [type \in {"entier", "décimal", "logique"} |->
                CASE type = "entier" -> X!EnEntier(text) [] type = "décimal" -> X!EnDecimal(text) [] OTHER -> X!EnLogique(text)]])
\* utf8::decode_one, of every text of at most four bytes that begins with one.
DecodeBytes ==
    Answers("bytes",
        LET texts == {<<request.lead>> \o w : w \in BoundedSeq(NextBytes, 3)} IN
        [to |-> "bytes", decoded |-> [w \in texts |-> X!DecodeOne(w, 0)]])
\* utf8::encode_character of two code points, and what is read of their bytes.
EncodePoints ==
    Answers("characters",
        LET bytes == [i \in 1..2 |-> X!EncodeCharacter(request.points[i])]
            text == bytes[1] \o bytes[2]
        IN [to |-> "characters", count |-> X!CharacterCount(text), cut |-> X!CharacterCount(Front(text)),
            at |-> [k \in 0..2 |-> X!CharacterAt(text, k)],
            single |-> X!DecodeSingle(bytes[1]), pair |-> X!DecodeSingle(text)])
\* Chemin.joindre, of three segments and of what it made of two of them.
JoinPath ==
    Answers("path",
        LET s == request.segments
            Join(segments) == IF X!NoPath \in ToSet(segments) THEN X!NoPath ELSE X!Joindre(segments)
        IN [to |-> "path", whole |-> X!Joindre(s), parts |-> X!Parties(X!Joindre(s)),
            left |-> Join(<<X!Joindre(<<s[1], s[2]>>), s[3]>>),
            right |-> Join(<<s[1], X!Joindre(<<s[2], s[3]>>)>>),
            name |-> X!Nom(X!Joindre(s)), folder |-> X!Dossier(X!Joindre(s))])
\* LumiNet.HTTP.requête and ServeurHTTP.écouter, or RéponseServeurHTTP and LumiNet.HTTP.requête: what
\* one side sends and the other reads, in pieces of every size, or up to where it was cut short.
MaySend(m) == IF m.is = "request" THEN H!MayAsk(m.headers) ELSE H!MayRespond(m.kept, m.headers)
BytesOf(m) ==
    IF m.is = "request" THEN H!SendHttpRequest("POST", Target(m.path, m.query), <<"h">>, m.headers, m.body)
    ELSE H!SendHttpResponse(m.status, m.body, m.kept, m.headers)
Read(m, pieces) ==
    LET received == H!RecvHttpMessage(pieces) IN
    IF m.is = "request" THEN (IF received.to = "refuse" THEN H!NoRequest ELSE H!ParseHttpRequest(received.data))
    ELSE (IF received.to = "refuse" THEN H!NoResponse ELSE H!ParseHttpResponse(received.data))
MessageRead(m, bytes) ==
    [to |-> "message", bytes |-> bytes, read |-> {Read(m, Pieces(bytes, c[1], c[2])) : c \in Cuts(Len(bytes))},
     cut |-> {Read(m, Pieces(SubSeq(bytes, 1, k), MaxRead, MaxRead)).ok : k \in 1..(Len(bytes) - 1)}]
ReadMessage ==
    /\ Asked("message")
    /\ \E bytes \in {BytesOf(request.message)} :
        Reply(IF MaySend(request.message) THEN MessageRead(request.message, bytes) ELSE [to |-> "nothing sent"])
\* Canal.connecter or écouter of a server: a handshake, then the frames that the other side sends.
FramesAfter(side, frames, first, rest) ==
    LET pieces == IF side = "client" THEN Pieces(H!HandshakeResponse("key") \o frames, first, rest)
                  ELSE Pieces(H!HandshakeRequest(<<"/">>, <<"h">>, "key"), first, rest)
        read == FoldLeft(H!Receive, H!Reading, pieces)
        taken == SubSeq(pieces, read.used + 1, Len(pieces))
        kept == H!From(read.data, read.head + 4)
    IN [accepted |-> IF side = "client" THEN H!ClientAccepts(H!ParseHttpResponse(read.data), "key")
                     ELSE H!ServerAccepts(H!ParseHttpRequest(read.data)),
        came |-> H!RecvFrames(IF side = "client" THEN H!Stream(kept, taken)
                              ELSE H!Stream(<<>>, IF frames = <<>> THEN <<>> ELSE Pieces(frames, first, rest)))]
FramesRead(side, bytes) ==
    [to |-> "frames", read |-> {FramesAfter(side, FlattenSeq(bytes), c[1], c[2]) : c \in Cuts(MaxRead)},
     sizes |-> [k \in DOMAIN bytes |-> Len(bytes[k])],
     cut |-> [k \in 0..(Len(FlattenSeq(bytes)) - 1) |->
                FramesAfter(side, SubSeq(FlattenSeq(bytes), 1, k), MaxRead, MaxRead).came]]
ReadFrames ==
    /\ Asked("frames")
    /\ \E key \in {IF request.side = "server" THEN <<1, 0, 255, 90>> ELSE <<>>} :
        Reply(FramesRead(request.side,
                 [k \in DOMAIN request.frames |-> H!SendFrame(request.frames[k][1], request.frames[k][2], key)]))
\* The choice of a handler in ServeurHTTP.écouter.
MatchRoute ==
    Answers("route",
        [to |-> "route", where |-> H!RouteTo(request.canals, request.routes, request.method, request.path)])
\* Adresse.analyser and the URL of a request, of what an AdresseRéseau writes and of a host alone.
ReadAddress ==
    Answers("address",
        LET h == request.host
            Url(authority) == H!ParseHttpUrl(<<"http", ":", "/", "/">> \o authority \o request.target)
            written == H!WriteAddress(h, request.port)
        IN [to |-> "address", address |-> H!ParseHostPort(written), url |-> Url(written),
            bare |-> Url(IF ":" \in ToSet(h) THEN <<"[">> \o h \o <<"]">> ELSE h)])
\* header_contains_token.
FindToken ==
    Answers("tokens",
        [to |-> "tokens",
         found |-> H!HeaderContainsToken(<<<<<<"connection">>, JoinWith(<<",", "SP">>, request.tokens)>>>>,
                                         <<"Connection">>, <<"Upgrade">>)])

Next == Compute \/ SearchPattern \/ WriteInstant \/ WriteIso \/ LocateInstant \/ WriteValue \/ ReadText \/ UseTable \/ UseText
        \/ ConvertValue \/ DecodeBytes \/ EncodePoints \/ JoinPath \/ ReadMessage \/ ReadFrames \/ MatchRoute \/ ReadAddress \/ FindToken
Spec == Init /\ [][Next]_vars

-----------------------------------------------------------------------------
\* Every operation gives the exact result when an Entier can hold it and an error otherwise, and
\* a quotient and its remainder make the dividend again (numeric.hpp 60-150, temps.cpp): the
\* questions asked before computing stay in range themselves, at the minimum too.
ArithmeticIsExact ==
    answer.to = "numbers" =>
        LET a == request.a
            b == request.b
            q == answer.quotient
        IN /\ answer.sums = {Exact(a + b)} /\ answer.differences = {Exact(a - b)}
           /\ answer.products = {Exact(a * b)} /\ answer.opposite = Exact(-a)
           /\ b = 0 => q = Nothing /\ answer.rest = Nothing
           /\ b # 0 => /\ q.some <=> Quotient(a, b) \in Entier
                       /\ answer.rest.some /\ Abs(answer.rest.n) < Abs(b) /\ answer.rest.n * a >= 0
                       /\ q.some => q.n * b + answer.rest.n = a

\* A power is exact whenever an Entier can hold it, whatever the squares on the way to it; the four
\* roundings of a number lie around it, a half away from zero; an interval may be chosen from when
\* its size is an Entier (maths.cpp 14-200, aleatoire.cpp 60-77).
PowersAndRoundingsAreExact ==
    answer.to = "numbers" =>
        LET a == request.a
            b == request.b
            Times(p, k) == IF p.some /\ p.n * a \in Entier THEN Just(p.n * a) ELSE Nothing
            r == answer.rounded
        IN /\ b >= 0 => answer.power = FoldLeft(Times, Just(1), [k \in 1..b |-> k])
           /\ answer.fits <=> (a <= b /\ b - a <= MaxEntier)
           /\ answer.size = Exact(Abs(a))
           /\ b > 0 => /\ \A i \in 1..4 : r[i].some
                       /\ r[1].n * b <= a /\ a <= r[3].n * b /\ r[3].n - r[1].n = (IF a % b = 0 THEN 0 ELSE 1)
                       /\ r[2].n \in {r[1].n, r[3].n} /\ r[4].n = (IF a < 0 THEN r[3].n ELSE r[1].n)
                       /\ \/ 2 * Abs(r[2].n * b - a) < b
                          \/ 2 * Abs(r[2].n * b - a) = b /\ Abs(r[2].n * b) > Abs(a)

\* What is printed is read back: `en` its type gives a value again from its text, and so do the
\* methods of Texte.  The methods and `en` read the same texts the same way, but for two kinds that
\* only one of them takes: blanks in front (std::stoll skips them) and "+-" (parse_integer takes the
\* "+" off and lets std::from_chars have the "-").  A Décimal becomes the Entier next to it towards
\* zero, and a text of an Entier is one of the same Décimal (conversions.cpp, numeric.hpp 141-300).
ConversionsComeBack ==
    answer.to = "conversion" =>
        LET v    == request.v
            text == answer.text
            odd  == text # <<>> /\ (Head(text) \in X!Blank \/ IsPrefix(<<"+", "-">>, text))
        IN /\ answer.en[v.t] = X!Success(v) /\ answer.back[v.t] = X!Success(v)
           /\ v.t \in DOMAIN answer.method => answer.method[v.t] = X!Success(v)
           /\ \A type \in DOMAIN answer.method :
                  answer.back[type] = answer.method[type] \/ (type = "entier" /\ odd)
           /\ odd => ~(answer.back["entier"].ok /\ answer.method["entier"].ok)
           /\ answer.method["entier"].ok =>
                  answer.method["décimal"] = X!Success(J!Decimal(answer.method["entier"].v.n, 0))
           /\ v.t = "décimal" /\ v.e <= 0 /\ answer.en["entier"].ok =>
                  LET n == answer.en["entier"].v.n * 10^(-v.e) IN
                  Abs(v.n - n) < 10^(-v.e) /\ Abs(n) <= Abs(v.n)

\* A pattern is read as it is written, and a search finds the matches a pattern means, the
\* preferred one at the first start that has any, with its groups, then on from its end; what
\* lies between those it found is kept when they are replaced.  Threads, their order and the
\* marks that survive from one search to the next must not show (regex.cpp 830-1130).  A match is
\* missed only behind a position where none can begin because of an anchor: a search ends at the
\* first position without a thread (860-863), so that "$" is found in an empty text alone, where
\* 842-845 and stdlib-foundations.md:450 promise the leftmost match anywhere.  A pattern that
\* begins with no anchor misses none.  Left out: a loop whose body may be empty, where the order
\* of its empty turns is the matcher's own.
SearchesFindWhatPatternsMean ==
    answer.to = "pattern" =>
        LET t == request.tree
            n == answer.parsed.g - 1
            Given(w) == LET m == answer.found[w] IN [k \in DOMAIN m |-> R!Answered(m[k], n)]
            From(found, k) == IF k = 1 THEN 0 ELSE R!Resume(found[k - 1])
            Marked(w, m, k) == <<"<">> \o SubSeq(w, m[k].start + 1, m[k].end) \o <<">">>
                               \o SubSeq(w, m[k].end + 1, IF k = Len(m) THEN Len(w) ELSE m[k + 1].start)
        IN /\ answer.parsed.ok /\ answer.parsed.t = t
           /\ ~R!LoopsOverEmpty(t) =>
                  \A w \in Subjects :
                      LET meant == R!Matches(t, n, w, 0)
                          found == Given(w)
                          next  == Len(found) + 1
                      IN /\ IsPrefix(found, meant)
                         /\ found # meant => \E i \in From(found, next) .. (meant[next].start - 1) : ~R!Opens(t, w, i)
                         /\ \A k \in DOMAIN found : R!Opens(t, w, From(found, k))
                         /\ answer.replaced[w].out =
                                IF found = <<>> THEN w
                                ELSE SubSeq(w, 1, found[1].start)
                                     \o FlattenSeq([k \in DOMAIN found |-> Marked(w, found, k)])

\* What formater writes analyser reads back, up to the fields the format does not name; ISO
\* 8601 texts come back exactly when the year has four figures, in every form of fraction and
\* zone, and no beginning of one is taken for an instant (temps.cpp 128-297 and 1165-1290).
InstantsComeBack ==
    /\ answer.to = "instant" =>
           LET named == Named(request.format) IN
           IF {"year", "month", "day"} \subseteq named /\ T!Parts(request.instant).year \in 0..9999
           THEN answer.back = T!Known(Truncated(request.instant, named))
           ELSE ~answer.back.ok
    /\ answer.to = "iso" =>
           LET whole == [request.instant EXCEPT !.ms = @ - (@ % 1000) + request.form.ms] IN
           IF T!Parts(request.instant).year \in 0..9999
           THEN /\ answer.back = T!Known(request.instant)
                /\ answer.other = T!Known(T!Instant(whole.day, whole.ms - request.form.seconds * 1000))
                /\ answer.cut = {FALSE}
           ELSE ~answer.back.ok /\ ~answer.other.ok

\* Whatever part of the past its table covers, a zone is at the offset that the last change
\* of its rules brought, on both hemispheres and to the second (temps.cpp 540-720, 915-1010).
OffsetsFollowTheRules ==
    answer.to = "zone" => answer.offsets = {LawfulOffset(answer.footer, request.at)}

\* A value is refused exactly when it contains itself or what JSON cannot say, a cycle by a path
\* that does come back to where it was; otherwise it is written so that reading gives its tree
\* back, whatever it shares and however it is indented (json.cpp).
ValuesComeBack ==
    answer.to = "value" =>
        LET heap == request.heap
            wrote == answer.wrote
            cyclic == HasCycle(heap, 1)
            writable == \A a \in Reached(heap, 1) : Writable(heap[a])
            there == Along(heap, 1, wrote.path)
        IN IF cyclic \/ ~writable
           THEN /\ ~wrote.ok
                /\ wrote.cause = "cycle" => Last(there) \in ToSet(Front(there))
                /\ wrote.cause # "cycle" => ~Writable(heap[Last(there)])
           ELSE wrote.ok /\ answer.back.ok /\ answer.back.v = Unfold(heap, 1)

\* Whatever was set and erased, in whatever order and with whatever collisions, a table lists its
\* entries in the order in which they came and finds each where it is: the index that is made at
\* eight entries, grows with them and is dropped below eight must not show (value.cpp 63-466).
TablesFindWhatTheyHold ==
    answer.to = "table" =>
        LET calls == Filling(request.size) \o request.calls
            Do(m, k) == IF calls[k].op = "set" THEN SetIn(m, calls[k].key, k) ELSE EraseFrom(m, calls[k].key)
            map == FoldLeft(Do, <<>>, [k \in DOMAIN calls |-> k])
        IN /\ answer.entries = map
           /\ \A key \in DOMAIN Hash : answer.at[key] = SelectInSeq(map, LAMBDA e : e.key = key)
           /\ K!TellsTheLastCalls(calls)

\* A text is read when it is JSON; otherwise the error is at its first character that no JSON
\* text has there, and the line and the column lead to it (json.cpp 30-420).
ErrorsAreAtTheFirstWrongCharacter ==
    answer.to = "json" =>
        LET s  == request.text
            at == answer.read.at
            lineStart == Max({0} \cup {k \in DOMAIN s : s[k] = "\n" /\ Cardinality({j \in 1..k : s[j] = "\n"}) = answer.place.ligne - 1})
        IN IF s \in JsonReads THEN answer.read.ok
           ELSE /\ ~answer.read.ok
                /\ SubSeq(s, 1, at - 1) \in JsonBeginnings
                /\ at <= Len(s) => SubSeq(s, 1, at) \notin JsonBeginnings
                /\ at = lineStart + answer.place.colonne
                /\ "\n" \notin ToSet(SubSeq(s, lineStart + 1, at - 1))

\* Every operation on the bytes of a text is one on its characters, wherever the ones of several
\* bytes stand: positions, lengths, searches from the left that do not overlap, replacements that
\* are not searched again (texte.cpp 18-40 and 202-520).
TextsAreCharacters ==
    answer.to = "text" =>
        LET s == request.text
            w == request.word
            E(chars) == X!Encode(chars)
            Holds(chars, p) == SubSeq(chars, p + 1, p + Len(w)) = w
            starts == {p \in 0..(Len(s) - Len(w)) : Holds(s, p)}
            Blanks(i, j) == \A k \in i..j : s[k] \in X!Blank
            trims == {ij \in (1..(Len(s) + 1)) \X (0..Len(s)) :
                        Blanks(1, ij[1] - 1) /\ Blanks(ij[2] + 1, Len(s)) /\ ij[1] <= ij[2] + 1}
            Mapped(from, to) == [i \in DOMAIN s |-> LET p == {pair \in X!Pairs : pair[from] = s[i]} IN
                                    IF p = {} THEN s[i] ELSE (CHOOSE pair \in p : TRUE)[to]]
            pieces == answer.pieces
            n == Len(pieces)
            Glued(by) == FlattenSeq([k \in 1..n |-> IF k = n THEN pieces[k] ELSE pieces[k] \o by])
            Placed(outcome, ok, chars) == outcome.ok = ok /\ (ok => outcome.text = E(chars))
            size == Len(s)
        IN /\ answer.taille = size
           /\ answer.index = Min(starts \cup {size + 1}) - (IF starts = {} THEN size + 2 ELSE 0)
           /\ answer.contains = (starts # {}) /\ answer.starts = (0 \in starts)
           /\ answer.ends = (size - Len(w) \in starts)
           /\ w # <<>> =>
                  /\ Glued(E(w)) = E(s)
                  /\ \A k \in 1..n : X!Find(pieces[k] \o (IF k = n THEN <<>> ELSE E(w)), E(w), 0) = Len(pieces[k]) + (IF k = n THEN 1 ELSE 0)
                  /\ answer.all = Glued(E(w \o w))
                  /\ answer.first = IF starts = {} THEN E(s)
                                    ELSE LET p == Min(starts) IN E(SubSeq(s, 1, p) \o w \o SubSeq(s, p + 1, size))
           /\ answer.reversed = E(Reverse(s)) /\ answer.lower = E(Mapped(1, 2)) /\ answer.upper = E(Mapped(2, 1))
           /\ LET t == CHOOSE t \in trims : \A u \in trims : t[2] - t[1] <= u[2] - u[1] IN
              answer.trimmed = E(SubSeq(s, t[1], t[2]))
           /\ \A at \in -1..(size + 1) :
                  /\ Placed(answer.inserted[at], at \in 0..size, SubSeq(s, 1, at) \o w \o SubSeq(s, at + 1, size))
                  /\ \A m \in -1..(size + 1) :
                         /\ Placed(answer.part[at, m], at >= 0 /\ m >= 0 /\ at + m <= size, SubSeq(s, at + 1, at + m))
                         /\ Placed(answer.removed[at, m], at \in 0..size /\ m >= 0, SubSeq(s, 1, at) \o SubSeq(s, at + m + 1, size))
           /\ \A k \in -1..3 : Placed(answer.repeated[k], k >= 0 /\ k * Len(E(s)) <= 7, FlattenSeq([j \in 1..k |-> s]))

\* Bytes are a character exactly when they are the ones that the character is written with, and
\* nothing cut short or longer than it need be is one; characters are counted and found where they
\* were put (utf8.cpp).
BytesAndCharactersAgree ==
    /\ answer.to = "bytes" =>
           \A w \in DOMAIN answer.decoded :
               LET c == answer.decoded[w]
                   legal == {n \in CodePoints : IsPrefix(X!EncodeCharacter(n), w)}
               IN /\ c.some => c.n <= 1114111 /\ c.n \notin 55296..57343 /\ X!EncodeCharacter(c.n) = SubSeq(w, 1, c.next)
                  /\ legal # {} => c.some /\ legal = {c.n}
    /\ answer.to = "characters" =>
           LET p == request.points IN
           /\ answer.count = Just(2) /\ answer.cut = (IF p[2] < 128 THEN Just(1) ELSE Nothing)
           /\ answer.at[0].n = p[1] /\ answer.at[1].n = p[2] /\ ~answer.at[2].some
           /\ answer.single = X!Success(J!Entier(p[1])) /\ ~answer.pair.ok

\* A path that is joined in several calls is the one that a single call joins, absolute when its
\* first segment is, and with every ".." before its first name (chemin.cpp 42-92).
PathsJoinInAnyGrouping ==
    answer.to = "path" =>
        LET s == request.segments
            whole == answer.whole
        IN IF s[2].root \/ s[3].root THEN whole = X!NoPath
           ELSE /\ answer.left = whole /\ answer.right = whole /\ X!Normaliser(whole) = whole
                /\ whole.root = s[1].root /\ (whole.root => ".." \notin ToSet(whole.names))
                /\ \A i \in 2..Len(whole.names) : whole.names[i] = ".." => whole.names[i - 1] = ".."
                /\ answer.name # "" => X!Joindre(<<answer.folder, X!Path(FALSE, <<answer.name>>)>>) = whole
                /\ ToSet(answer.parts) \cup {""} = ToSet(whole.names) \cup {""}

\* Whatever the pieces in which it arrives, a message is read as it was sent when its head leaves room
\* for one more piece and its body is not too long; it is refused when the head or the body is too
\* long or when it comes in chunks, and nothing that was cut short is taken for a message
\* (protocol.cpp 450-546 and 389-448, http_canal.cpp 111-149, http_values.cpp 243-316).
MessagesAreWhatWasSent ==
    answer.to = "message" /\ Speakable(request.message) =>
        LET m == request.message
            head == H!Find(answer.bytes, H!HeadEnd) + 3
            headers == m.headers \o m.kept
            Received(r) ==
                /\ r.ok /\ r.body = m.body
                /\ \A k \in DOMAIN headers :
                       H!HeaderValueOrEmpty(r.headers, headers[k][1]) = H!Trim(FirstOf(headers, headers[k][1]))
                /\ IF m.is = "request" THEN r.method = <<"POST">> /\ r.path = m.path /\ r.query = m.query
                   ELSE r.status = m.status
        IN /\ Measured(m) /\ head + MaxRead <= MaxHead /\ Len(m.body) <= MaxBody => \A r \in answer.read : Received(r)
           /\ ~Measured(m) \/ head > MaxHead \/ Len(m.body) > MaxBody => \A r \in answer.read : ~r.ok
           /\ answer.cut = {FALSE}

\* Both sides accept the handshake of the other; the frames that follow come as they were sent, the
\* bytes that arrive with the answer to a handshake included, and a stream that ends elsewhere than
\* between two frames is an error and not an end (protocol.cpp 548-706, http_canal.cpp 256-291).
FramesAreWhatWasSent ==
    answer.to = "frames" =>
        /\ answer.read = {[accepted |-> TRUE, came |-> [frames |-> request.frames, to |-> "end"]]}
        /\ \A k \in DOMAIN answer.cut :
               LET n == WholeFrames(answer.sizes, k)
                   between == FoldLeft(+, 0, SubSeq(answer.sizes, 1, n)) = k
               IN answer.cut[k] = [frames |-> SubSeq(request.frames, 1, n), to |-> IF between THEN "end" ELSE "refuse"]

\* A request goes to the first Canal, and then to the first route of its method, of which something
\* put for the parameters makes its path, and the parameters it is given make that path
\* (protocol.cpp 342-387, http_server.cpp 172-200).
RoutesFitTheirPaths ==
    answer.to = "route" =>
        LET where == answer.where
            canals == {k \in DOMAIN request.canals : FitsPath(request.canals[k], request.path)}
            routes == {k \in DOMAIN request.routes :
                          request.routes[k].method = request.method /\ FitsPath(request.routes[k].pattern, request.path)}
            pattern == H!Parts(IF where.to = "canal" THEN request.canals[where.at] ELSE request.routes[where.at].pattern)
        IN /\ where.to = (IF canals # {} THEN "canal" ELSE IF routes # {} THEN "route" ELSE "nowhere")
           /\ where.to # "nowhere" =>
                  /\ where.at = Min(IF where.to = "canal" THEN canals ELSE routes)
                  /\ Len(where.params) = Cardinality(Parameters(pattern))
                  /\ Filled(pattern, PutBack(pattern, where.params)) = H!Parts(request.path)

\* What an address writes is read back, in a URL too and with brackets where they are needed, and only
\* a port of sixteen bits (protocol.cpp 136-155, foundation.cpp 379-508).
AddressesComeBack ==
    answer.to = "address" =>
        LET valid == request.host # <<>> /\ request.port <= MaxPort
            target == IF request.target = <<>> THEN <<"/">> ELSE request.target
            Url(port) == [ok |-> TRUE, scheme |-> <<"http">>, host |-> request.host, port |-> port, target |-> target]
        IN /\ answer.address.ok = valid /\ answer.url.ok = valid /\ answer.bare.ok = (request.host # <<>>)
           /\ valid => answer.address = [ok |-> TRUE, host |-> request.host, port |-> request.port]
                       /\ answer.url = Url(request.port) /\ answer.bare = Url(80)

\* A word is found in the list of a header exactly when it is one of the list, whatever its capitals
\* and whatever is quoted beside it.  Left out: a first element that has a comma between its quotes,
\* after which the code takes the closing quote for an opening one (protocol.cpp 216-262).
TokensAreFound ==
    answer.to = "tokens" =>
        LET tokens == request.tokens IN
        ({",", "\""} \subseteq ToSet(tokens[1])) \/ answer.found = (<<"upgrade">> \in {H!Lowered(tokens[k]) : k \in DOMAIN tokens})

-----------------------------------------------------------------------------
(* What the runs check of each library.                                     *)

\* Numbers: what is computed is exact, and what is converted comes back (numeric.hpp, maths.cpp,
\* conversions.cpp).
NumbersAreExact == ArithmeticIsExact /\ PowersAndRoundingsAreExact /\ ConversionsComeBack

\* Temps: instants survive being written and read, and local times follow the rules of their
\* zone (temps.cpp 128-1290).
TimesAreExact == InstantsComeBack /\ OffsetsFollowTheRules

\* Json, Texte and Chemin: a JSON text that is written is read back and one that is none is refused
\* where it goes wrong; an operation on bytes or on a path is the one on characters or on names
\* (json.cpp 30-746, utf8.cpp, texte.cpp 18-520, chemin.cpp 42-208).
TextsMeanTheirParts ==
    /\ ValuesComeBack /\ ErrorsAreAtTheFirstWrongCharacter
    /\ TextsAreCharacters /\ BytesAndCharactersAgree /\ PathsJoinInAnyGrouping

\* LumiNet: what one side sends is what the other reads, whatever the pieces in which it arrives
\* (luminet/protocol.cpp, foundation.cpp 379-508, http_values.cpp, http_canal.cpp).
MessagesComeThrough ==
    /\ MessagesAreWhatWasSent /\ FramesAreWhatWasSent /\ RoutesFitTheirPaths /\ AddressesComeBack /\ TokensAreFound
====
