---- MODULE HttpMessages ----
(***************************************************************************)
(* What LumiNet writes to a connection and reads from one: HTTP messages   *)
(* read in the pieces in which they arrive, WebSocket frames, and the      *)
(* texts inside them (stdlib/luminet/protocol.cpp, foundation.cpp,         *)
(* http_values.cpp, http_canal.cpp).                                       *)
(* A text is a sequence of atoms: separators, names and numbers, each of   *)
(* which counts for one byte; a number of Scalars is one atom.  Positions  *)
(* count from 1, and 0 is npos.                                            *)
(***************************************************************************)
EXTENDS Scalars
LOCAL INSTANCE SequencesExt
LOCAL INSTANCE FiniteSetsExt
LOCAL INSTANCE Bitwise

CONSTANTS MaxHead, MaxBody   \* the limits on the head of a message and on its body

Blanks == {"SP", "CR", "LF"}
Break == <<"CR", "LF">>
HeadEnd == Break \o Break
\* The names that have capitals.
Small == [c \in {"Content-Length", "Content-Type", "Connection", "Upgrade", "Transfer-Encoding", "Host", "X-A"} |->
             CASE c = "Content-Length" -> "content-length"
               [] c = "Content-Type" -> "content-type"
               [] c = "Connection" -> "connection"
               [] c = "Upgrade" -> "upgrade"
               [] c = "Transfer-Encoding" -> "transfer-encoding"
               [] c = "Host" -> "host"
               [] c = "X-A" -> "x-a"]
Lowered(text) == [k \in DOMAIN text |-> IF text[k] \in DOMAIN Small THEN Small[text[k]] ELSE text[k]]
Trim(text) ==
    LET kept == {k \in DOMAIN text : text[k] \notin Blanks} IN
    IF kept = {} THEN <<>> ELSE SubSeq(text, Min(kept), Max(kept))
From(text, k) == SubSeq(text, k, Len(text))
FindFrom(text, part, from) ==
    LET at == {k \in from..(Len(text) - Len(part) + 1) : SubSeq(text, k, k + Len(part) - 1) = part} IN
    IF at = {} THEN 0 ELSE Min(at)
Find(text, part) == FindFrom(text, part, 1)
\* What comes before the position of a separator, which may be nowhere, and after it.
UpTo(text, k) == IF k = 0 THEN text ELSE SubSeq(text, 1, k - 1)
Past(text, k) == IF k = 0 THEN <<>> ELSE From(text, k + 1)
Split(text, separator) ==
    LET cuts == {0, Len(text) + 1} \cup {k \in DOMAIN text : text[k] = separator}
        ends == [k \in 1..Cardinality(cuts) |-> CHOOSE c \in cuts : Cardinality({d \in cuts : d <= c}) = k]
    IN [k \in 1..(Len(ends) - 1) |-> SubSeq(text, ends[k] + 1, ends[k + 1] - 1)]
NotEmpty(pieces) == SelectSeq(pieces, LAMBDA p : p # <<>>)
\* >> into strings.
Words(text) == NotEmpty(Split([k \in DOMAIN text |-> IF text[k] \in Blanks THEN "SP" ELSE text[k]], "SP"))
\* getline, and the return that it leaves.
Lines(text) ==
    LET pieces == Split(text, "LF")
        read == IF Last(pieces) = <<>> THEN Front(pieces) ELSE pieces
    IN [k \in DOMAIN read |-> IF read[k] # <<>> /\ Last(read[k]) = "CR" THEN Front(read[k]) ELSE read[k]]

\* std::stoull and std::stoll of a text: a whole number is one atom, and comes first.
IsNumber(text) == text # <<>> /\ text[1] \in DOMAIN Numbers
NumberIn(text) == Numbers[text[1]]

-----------------------------------------------------------------------------
(* recv_http_message.                                                       *)

Unknown == 0
\* The pieces used, the position of HeadEnd, the size to reach and what becomes of the message.
Reading == [data |-> <<>>, used |-> 0, head |-> 0, required |-> Unknown, to |-> "go on"]
ValueAt(headers, key, at) ==
    LET end == FindFrom(headers, Break, at) IN
    Trim(SubSeq(headers, at + Len(key), IF end = 0 THEN Len(headers) ELSE end - 1))
ContentLength == <<"content-length", ":">>
TransferEncoding == <<"transfer-encoding", ":">>
\* The size that a head announces.
Sized(s, value) ==
    IF ~IsNumber(value) \/ NumberIn(value) > MaxBody THEN [s EXCEPT !.to = "refuse"]
    ELSE [s EXCEPT !.required = s.head + 3 + NumberIn(value)]
Unsized(s, lower) ==
    LET at == Find(lower, TransferEncoding) IN
    IF at # 0 /\ ValueAt(lower, TransferEncoding, at) = <<"chunked">> THEN [s EXCEPT !.to = "refuse"]
    ELSE [s EXCEPT !.required = s.head + 3]
Announced(s, lower) ==
    LET at == Find(lower, ContentLength) IN
    IF at # 0 THEN Sized(s, ValueAt(lower, ContentLength, at)) ELSE Unsized(s, lower)
LookForHead(s) ==
    IF s.head = 0 THEN s ELSE Announced(s, Lowered(SubSeq(s.data, 1, s.head - 1)))
StopWhenWhole(s) ==
    IF s.to = "go on" /\ s.required # Unknown /\ Len(s.data) >= s.required THEN [s EXCEPT !.to = "return"] ELSE s
\* Mutant: the end of the head is looked for in the piece that has just arrived.
Receive_LooksInThePiece(s, piece) ==
    LET longer == [s EXCEPT !.data = @ \o piece, !.used = @ + 1]
        at == Find(piece, HeadEnd)
    IN IF s.to # "go on" THEN s
       ELSE IF s.head = 0 /\ Len(longer.data) > MaxHead THEN [longer EXCEPT !.to = "refuse"]
       ELSE StopWhenWhole(IF s.head # 0 THEN longer
                          ELSE LookForHead([longer EXCEPT !.head = IF at = 0 THEN 0 ELSE at + Len(s.data)]))
Receive(s, piece) ==
    LET longer == [s EXCEPT !.data = @ \o piece, !.used = @ + 1] IN
    IF s.to # "go on" THEN s
    ELSE IF s.head = 0 /\ Len(longer.data) > MaxHead THEN [longer EXCEPT !.to = "refuse"]
    ELSE StopWhenWhole(IF s.head # 0 THEN longer ELSE LookForHead([longer EXCEPT !.head = Find(longer.data, HeadEnd)]))
\* The peer sends nothing more.
AtTheEnd(s) ==
    IF s.to = "go on" THEN [s EXCEPT !.to = IF s.required # Unknown THEN "refuse" ELSE "return"] ELSE s
RecvHttpMessage(pieces) == AtTheEnd(FoldLeft(Receive, Reading, pieces))

-----------------------------------------------------------------------------
(* Heads.                                                                   *)
HeaderOf(line) ==
    LET colon == Find(line, <<":">>) IN <<Trim(UpTo(line, colon)), Trim(Past(line, colon))>>
\* parse_http_headers_block, and the second half of parse_http_request.
HeadersOf(head) ==
    LET lines == SelectSeq(Tail(Lines(head)), LAMBDA line : ":" \in ToSet(line)) IN
    [k \in DOMAIN lines |-> HeaderOf(lines[k])]
HeaderValueOrEmpty(headers, name) ==
    LET at == {k \in DOMAIN headers : Lowered(headers[k][1]) = Lowered(name)} IN
    IF at = {} THEN <<>> ELSE headers[Min(at)][2]
\* header_contains_token: a value is cut at its commas, but for what is quoted after the first one.
Comma == <<",">>
Quote == <<"\"">>
RECURSIVE TokenFrom(_, _, _, _)
TokenFrom(value, token, start, quoted) ==
    LET comma == FindFrom(value, Comma, start)
        quote == FindFrom(value, Quote, IF quoted THEN start ELSE comma + 1)
    IN IF quoted THEN quote # 0 /\ TokenFrom(value, token, quote + 1, FALSE)
       ELSE \/ Trim(SubSeq(value, start, IF comma = 0 THEN Len(value) ELSE comma - 1)) = token
            \/ comma # 0 /\ IF quote # 0 /\ FindFrom(value, Comma, comma + 1) \notin 1..quote
                            THEN TokenFrom(value, token, quote + 1, TRUE)
                            ELSE TokenFrom(value, token, comma + 1, FALSE)
HeaderContainsToken(headers, name, token) ==
    TokenFrom(Lowered(HeaderValueOrEmpty(headers, name)), Lowered(token), 1, FALSE)

\* parse_query_pairs.
PairOf(item) == LET eq == Find(item, <<"=">>) IN <<UpTo(item, eq), Past(item, eq)>>
QueryPairs(query) ==
    LET items == NotEmpty(Split(query, "&")) IN [k \in DOMAIN items |-> PairOf(items[k])]
NoRequest == [ok |-> FALSE, method |-> <<>>, path |-> <<>>, query |-> <<>>, headers |-> <<>>, body |-> <<>>]
RequestOf(words, head, body) ==
    LET qmark == Find(words[2], <<"?">>) IN
    [ok |-> TRUE, method |-> words[1], path |-> UpTo(words[2], qmark), query |-> QueryPairs(Past(words[2], qmark)),
     headers |-> HeadersOf(head), body |-> body]
Headed(words, head, body) == IF Len(words) < 2 THEN NoRequest ELSE RequestOf(words, head, body)
RequestLine(head) == IF Lines(head) = <<>> THEN <<>> ELSE Words(Lines(head)[1])
ParseHttpRequest(raw) ==
    LET at == Find(raw, HeadEnd) IN
    IF at = 0 THEN NoRequest ELSE Headed(RequestLine(UpTo(raw, at)), UpTo(raw, at), From(raw, at + 4))

\* parse_http_status_line; 0 where it throws.
StatusOf(words) ==
    IF Len(words) >= 2 /\ words[1] = <<"HTTP/1.1">> /\ IsNumber(words[2]) THEN NumberIn(words[2]) ELSE 0
NoResponse == [ok |-> FALSE, status |-> 0, headers |-> <<>>, body |-> <<>>]
ResponseOf(status, head, body) ==
    IF status = 0 THEN NoResponse ELSE [ok |-> TRUE, status |-> status, headers |-> HeadersOf(head), body |-> body]
\* What make_http_request and Canal.connecter do with a message.
ParseHttpResponse(raw) ==
    LET at == Find(raw, HeadEnd) IN
    IF at = 0 THEN NoResponse ELSE ResponseOf(StatusOf(RequestLine(UpTo(raw, at))), UpTo(raw, at), From(raw, at + 4))

-----------------------------------------------------------------------------
(* Writing.  A header is a pair of texts.                                   *)
HeaderLine(header) == header[1] \o <<":", "SP">> \o header[2] \o Break
HeaderLines(headers) == FlattenSeq([k \in DOMAIN headers |-> HeaderLine(headers[k])])
OneLine(text) == "CR" \notin ToSet(text) /\ "LF" \notin ToSet(text)
Separators == {":", "/", "?", "=", ",", "SP", "CR", "LF", "[", "]", "\""}
\* validate_http_header.
MayBeSent(header) == header[1] # <<>> /\ ToSet(header[1]) \cap Separators = {} /\ OneLine(header[2])
Has(headers, name) == \E k \in DOMAIN headers : Lowered(headers[k][1]) = name
When(condition, headers) == IF condition THEN headers ELSE <<>>
Type == <<<<"Content-Type">>, <<"text/plain">>>>
Length(body) == <<<<"Content-Length">>, <<Spelled[Len(body)]>>>>
Close == <<<<"Connection">>, <<"close">>>>
Bodyless(status) == status \in 100..199 \cup {204, 304}

\* send_http_response: the headers of the method come first, then those that définir_entête has kept.
SentHeaders(status, body, kept, headers) ==
    headers
    \o When(~Has(kept \o headers, <<"content-type">>) /\ ~Bodyless(status), <<Type>>)
    \o When(~Has(headers, <<"content-length">>) /\ ~Bodyless(status), <<Length(body)>>)
    \o kept \o <<Close>>
MayRespond(kept, headers) ==
    /\ \A k \in DOMAIN kept : MayBeSent(kept[k]) /\ Lowered(kept[k][1]) \notin {<<"content-length">>, <<"connection">>}
    /\ \A k \in DOMAIN headers : MayBeSent(headers[k])
SendHttpResponse(status, body, kept, headers) ==
    <<"HTTP/1.1", "SP", Spelled[status], "SP", "reason">> \o Break
    \o HeaderLines(SentHeaders(status, body, kept, headers)) \o Break \o body

\* make_http_request.
AskedHeaders(host, headers, body) ==
    <<<<<<"Host">>, host>>, Close>> \o headers
    \o When(body # <<>> /\ ~Has(headers, <<"content-length">>), <<Length(body)>>)
MayAsk(headers) == \A k \in DOMAIN headers : OneLine(headers[k][1]) /\ OneLine(headers[k][2])
SendHttpRequest(method, target, host, headers, body) ==
    <<method, "SP">> \o target \o <<"SP", "HTTP/1.1">> \o Break
    \o HeaderLines(AskedHeaders(host, headers, body)) \o Break \o body

\* The handshake of a Canal: Canal.connecter, and écouter of the two servers.
AcceptKey(key) == <<"digest", key>>
Upgrading == <<<<<<"Upgrade">>, <<"websocket">>>>, <<<<"Connection">>, <<"Upgrade">>>>>>
HandshakeRequest(target, host, key) ==
    <<"GET", "SP">> \o target \o <<"SP", "HTTP/1.1">> \o Break
    \o HeaderLines(<<<<<<"Host">>, host>>>> \o Upgrading \o
                   <<<<<<"Sec-WebSocket-Key">>, <<key>>>>, <<<<"Sec-WebSocket-Version">>, <<"13">>>>>>) \o Break
HandshakeResponse(key) ==
    <<"HTTP/1.1", "SP", "101", "SP", "reason">> \o Break
    \o HeaderLines(Upgrading \o <<<<<<"Sec-WebSocket-Accept">>, AcceptKey(key)>>>>) \o Break
IsUpgrade(headers) ==
    /\ Lowered(HeaderValueOrEmpty(headers, <<"Upgrade">>)) = <<"websocket">>
    /\ HeaderContainsToken(headers, <<"Connection">>, <<"Upgrade">>)
ServerAccepts(request) ==
    /\ request.ok /\ request.method = <<"GET">> /\ IsUpgrade(request.headers)
    /\ HeaderValueOrEmpty(request.headers, <<"Sec-WebSocket-Key">>) # <<>>
ClientAccepts(response, key) ==
    /\ response.ok /\ response.status = 101 /\ IsUpgrade(response.headers)
    /\ HeaderValueOrEmpty(response.headers, <<"Sec-WebSocket-Accept">>) = AcceptKey(key)

-----------------------------------------------------------------------------
(* Frames.  Their bytes are numbers, and so are their atoms.                *)
Octets(bytes) == [k \in DOMAIN bytes |-> Spelled[bytes[k]]]
Masked(payload, key) ==
    IF key = <<>> THEN payload ELSE [k \in DOMAIN payload |-> payload[k] ^^ key[((k - 1) % 4) + 1]]
Longest == 65535
SizeBytes(size) == IF size < 126 THEN <<size>> ELSE <<126, size \div 256, size % 256>>
WithMask(bytes, key) == IF key = <<>> THEN bytes ELSE [bytes EXCEPT ![1] = @ + 128] \o key
\* send_websocket_frame, of a payload no longer than Longest; a client has a masking key.
SendFrame(opcode, payload, key) ==
    Octets(<<128 + opcode>> \o WithMask(SizeBytes(Len(payload)), key) \o Masked(payload, key))

\* What is still to be read: the bytes that came with the handshake, then the pieces to come.
Stream(pending, pieces) == [pending |-> pending, pieces |-> pieces]
\* One recv of at most `size` bytes, with the next piece at most.
RECURSIVE RecvMore(_, _, _)
RecvMore(bytes, pieces, size) ==
    IF Len(bytes) = size \/ pieces = <<>> THEN [bytes |-> bytes, rest |-> Stream(<<>>, pieces)]
    ELSE IF Len(pieces[1]) <= size - Len(bytes) THEN RecvMore(bytes \o pieces[1], Tail(pieces), size)
    ELSE RecvMore(bytes \o SubSeq(pieces[1], 1, size - Len(bytes)),
                  <<From(pieces[1], size - Len(bytes) + 1)>> \o Tail(pieces), size)
RecvExactBytes(stream, size) ==
    IF Len(stream.pending) >= size
    THEN [bytes |-> SubSeq(stream.pending, 1, size), rest |-> [stream EXCEPT !.pending = From(@, size + 1)]]
    ELSE RecvMore(stream.pending, stream.pieces, size)
Got(read, size) == Len(read.bytes) = size

\* recv_websocket_frame: a frame, the end of the stream, or a frame that is cut short.
Frame(to, opcode, payload, rest) == [to |-> to, opcode |-> opcode, payload |-> payload, rest |-> rest]
EndOfFrames == Frame("end", 0, <<>>, Stream(<<>>, <<>>))
FrameCut == Frame("refuse", 0, <<>>, Stream(<<>>, <<>>))
NumbersIn(atoms) == [k \in DOMAIN atoms |-> Numbers[atoms[k]]]
PayloadOf(read, size, opcode, key) ==
    IF ~Got(read, size) THEN FrameCut
    ELSE Frame("frame", opcode, Masked(NumbersIn(read.bytes), key), read.rest)
AfterKey(read, size, opcode, keyed) ==
    IF ~Got(read, keyed) THEN FrameCut
    ELSE PayloadOf(RecvExactBytes(read.rest, size), size, opcode, NumbersIn(read.bytes))
AfterSize(rest, size, opcode, masked) ==
    IF masked THEN AfterKey(RecvExactBytes(rest, 4), size, opcode, 4)
    ELSE PayloadOf(RecvExactBytes(rest, size), size, opcode, <<>>)
AfterLongSize(read, opcode, masked) ==
    IF ~Got(read, 2) THEN FrameCut
    ELSE AfterSize(read.rest, NumbersIn(read.bytes)[1] * 256 + NumbersIn(read.bytes)[2], opcode, masked)
AfterHeader(first, second, rest) ==
    CASE second % 128 = 127 -> FrameCut
      [] second % 128 = 126 -> AfterLongSize(RecvExactBytes(rest, 2), first % 16, second >= 128)
      [] OTHER -> AfterSize(rest, second % 128, first % 16, second >= 128)
Header(read) ==
    IF ~Got(read, 2) THEN FrameCut
    ELSE AfterHeader(Numbers[read.bytes[1]], Numbers[read.bytes[2]], read.rest)
RecvFrame(stream) ==
    IF stream.pending = <<>> /\ stream.pieces = <<>> THEN EndOfFrames ELSE Header(RecvExactBytes(stream, 2))
\* Every frame up to the end, as run_canal_loop asks for them.
RECURSIVE FramesFrom(_, _)
FramesFrom(frame, before) ==
    IF frame.to = "frame" THEN FramesFrom(RecvFrame(frame.rest), Append(before, <<frame.opcode, frame.payload>>))
    ELSE [frames |-> before, to |-> frame.to]
RecvFrames(stream) == FramesFrom(RecvFrame(stream), <<>>)

-----------------------------------------------------------------------------
(* Routes and addresses.                                                    *)

\* match_route_pattern: the parameters, when the pattern matches.
Parts(path) == NotEmpty(Split(path, "/"))
IsParameter(part) == part[1] = ":"
Fits(pattern, path) ==
    /\ Len(pattern) = Len(path)
    /\ \A k \in DOMAIN pattern : IsParameter(pattern[k]) \/ pattern[k] = path[k]
Bound(pattern, path) ==
    LET at == SelectSeq([k \in DOMAIN pattern |-> k], LAMBDA k : IsParameter(pattern[k])) IN
    [k \in DOMAIN at |-> <<Tail(pattern[at[k]]), path[at[k]]>>]
MatchRoutePattern(pattern, path) ==
    IF Fits(Parts(pattern), Parts(path)) THEN [ok |-> TRUE, params |-> Bound(Parts(pattern), Parts(path))]
    ELSE [ok |-> FALSE, params |-> <<>>]

\* ServeurHTTP.écouter: a Canal of the path comes before a route of the method and the path.
Matching(patterns, path) == {k \in DOMAIN patterns : MatchRoutePattern(patterns[k], path).ok}
To(where, at, pattern, path) == [to |-> where, at |-> at, params |-> MatchRoutePattern(pattern, path).params]
Nowhere == [to |-> "nowhere", at |-> 0, params |-> <<>>]
RouteTo(canals, routes, method, path) ==
    LET channels == Matching(canals, path)
        handlers == {k \in Matching([r \in DOMAIN routes |-> routes[r].pattern], path) : routes[k].method = method}
    IN IF channels # {} THEN To("canal", Min(channels), canals[Min(channels)], path)
       ELSE IF handlers # {} THEN To("route", Min(handlers), routes[Min(handlers)].pattern, path)
       ELSE Nowhere

NoAddress == [ok |-> FALSE, host |-> <<>>, port |-> 0]
AddressOf(host, port) ==
    IF IsNumber(port) /\ NumberIn(port) <= MaxPort THEN [ok |-> TRUE, host |-> host, port |-> NumberIn(port)] ELSE NoAddress
\* parse_host_port.
ParseHostPort(text) ==
    LET closing == Find(text, <<"]">>)
        colons == {k \in DOMAIN text : text[k] = ":"}
    IN IF text # <<>> /\ text[1] = "["
       THEN IF closing = 0 \/ Len(text) <= closing \/ text[closing + 1] # ":" THEN NoAddress
            ELSE AddressOf(SubSeq(text, 2, closing - 1), From(text, closing + 2))
       ELSE IF Cardinality(colons) # 1 \/ colons \cap {1, Len(text)} # {} THEN NoAddress
            ELSE AddressOf(UpTo(text, Min(colons)), Past(text, Min(colons)))
\* en_texte of an AdresseRéseau.
WriteAddress(host, port) ==
    (IF ":" \in ToSet(host) THEN <<"[">> \o host \o <<"]">> ELSE host) \o <<":", Spelled[port]>>

\* parse_http_url.
NoUrl == [ok |-> FALSE, scheme |-> <<>>, host |-> <<>>, port |-> 0, target |-> <<>>]
Located(scheme, address, target) ==
    IF ~address.ok \/ address.host = <<>> THEN NoUrl
    ELSE [ok |-> TRUE, scheme |-> scheme, host |-> address.host, port |-> address.port, target |-> target]
Authority(text) ==
    LET closing == Find(text, <<"]">>)
        colons == {k \in DOMAIN text : text[k] = ":"}
        default == <<Spelled[80]>>
    IN CASE text = <<>> -> NoAddress
         [] text # <<>> /\ text[1] = "[" ->
            IF closing = 0 \/ (closing < Len(text) /\ text[closing + 1] # ":") THEN NoAddress
            ELSE AddressOf(SubSeq(text, 2, closing - 1), IF closing < Len(text) THEN From(text, closing + 2) ELSE default)
         [] OTHER -> IF Cardinality(colons) = 1 THEN AddressOf(UpTo(text, Min(colons)), Past(text, Min(colons)))
                     ELSE AddressOf(text, default)
ParseHttpUrl(url) ==
    LET scheme == Find(url, <<":", "/", "/">>)
        remainder == From(url, scheme + 3)
        slash == Find(remainder, <<"/">>)
    IN IF scheme = 0 THEN NoUrl
       ELSE Located(UpTo(url, scheme), Authority(UpTo(remainder, slash)),
                    IF slash = 0 THEN <<"/">> ELSE From(remainder, slash))
====
