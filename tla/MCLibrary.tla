---- MODULE MCLibrary ----
(* Small requests of every library for TLC. *)
EXTENDS Library
LOCAL INSTANCE SequencesExt

-----------------------------------------------------------------------------
(* Patterns over one letter, its complement and any scalar, under every     *)
(* quantifier, alone, in groups, next to one another and as alternatives,   *)
(* and with anchors anywhere: behind, in front and in one alternative.      *)
A == R!Literal("a")
NotA == R!Class_({<<Code["a"], Code["a"]>>}, TRUE)
AnyOne == R!Of("any", <<>>)
Concat(ts) == R!Of("concat", ts)
Quantified(ts) ==
    ts \cup {R!Of(q, <<t>>) : q \in {"star", "opt", "plus"}, t \in ts}
       \cup {R!Repeat_(b[1], b[2], t) : b \in {<<1, 2>>, <<0, R!Unbounded>>}, t \in ts}
AtStart == R!Of("start", <<>>)
AtEnd == R!Of("end", <<>>)
Plain == Quantified({A, NotA}) \cup {AnyOne}
Bodies == {Concat(<<A>>), Concat(<<A, AnyOne>>), Concat(<<R!Of("star", <<A>>)>>),
           R!Of("alt", <<Concat(<<A>>), Concat(<<A, R!Literal("b")>>)>>), R!Of("alt", <<Concat(<<>>), Concat(<<NotA>>)>>)}
Grouped(g) == Quantified({R!Group_(g, b) : b \in Bodies})
MCPatterns ==
    {Concat(<<x>>) : x \in Plain \cup Grouped(1)}
    \cup {Concat(<<x, y>>) : x \in Plain, y \in Plain \cup Grouped(1)}
    \cup {Concat(<<x, y>>) : x \in Grouped(1), y \in Plain \cup Grouped(2)}
    \cup {R!Of("alt", <<Concat(<<x>>), y>>) :
            x \in Plain, y \in {Concat(<<A>>), Concat(<<A, R!Literal("b")>>), Concat(<<NotA, AtEnd>>), Concat(<<>>)}}
    \cup {Concat(<<AtStart, x, AtEnd>>) : x \in Plain \cup Grouped(1)}
    \cup {Concat(<<AtEnd, x>>) : x \in Plain}
    \cup {Concat(ts) : ts \in {<<AtEnd>>, <<AtStart>>, <<R!Of("opt", <<AtStart>>), A>>, <<R!Of("opt", <<AtEnd>>), A>>,
                               <<R!Group_(1, Concat(<<AtEnd>>))>>,
                               <<R!Group_(1, R!Of("alt", <<Concat(<<AtStart, A>>), Concat(<<AtEnd>>)>>)), AtEnd>>}}
    \cup {R!Of("alt", alts) : alts \in
            {<<Concat(<<AtEnd>>), Concat(<<x>>)>> : x \in Plain} \cup {<<Concat(<<x>>), Concat(<<AtEnd>>)>> : x \in Plain}
            \cup {<<Concat(<<AtStart>> \o ts), Concat(<<AtEnd>>)>> : ts \in {<<A>>, <<NotA>>, <<A, A, NotA>>}}}
MCSubjects == UNION {{SubSeq(w, 1, n) : w \in [1..n -> {"a", "b"}]} : n \in 0..3}

-----------------------------------------------------------------------------
(* Instants at the ends of years, of February and of days.                  *)
MCInstants ==
    {[day |-> d, ms |-> ms] :
        d \in UNION {{T!DayNumber(y, 1, 1), T!DayNumber(y, 2, 28), T!DayNumber(y, 2, 28) + 1, T!DayNumber(y, 12, 31)} :
                     y \in {-5, -1, 0, 1, 1900, 1970, 2000, 2024, 9999, 10000, 10001}},
        ms \in {0, 1, 43200045, 86399999}}
MCFormats == {"AAAA-MM-JJ HH:mm:ss.SSS", "JJ/MM/AAAA", "AAAAMMJJHHmmssSSS", "HH:mm", "AAAAA MM le JJJ", "MMAAAASSSS-JJm"}
MCIsoForms ==
    {[text |-> f[1] \o z[1], ms |-> f[2], seconds |-> z[2]] :
        f \in {<<"", 0>>, <<".5", 500>>, <<".07", 70>>, <<".123", 123>>, <<".98765", 987>>},
        z \in {<<"Z", 0>>, <<"z", 0>>, <<"+05", 18000>>, <<"-0330", -12600>>, <<"+14:00", 50400>>}}
(* Rules north and south of the equator, with negative summer time and none. *)
MCFooters == {"CET-1CEST,M3.5.0,M10.5.0/3", "EST5EDT,M3.2.0,M11.1.0", "AEST-10AEDT,M10.1.0,M4.1.0/3",
              "IST-1GMT0,M10.5.0,M3.5.0/1", "<-03>3", "<+0330>-3:30", "<+1030>-10:30<+11>-11,M10.1.0,M4.1.0"}
MCMoments ==
    UNION {{c.at + d : d \in {-1, 0, 1}} : c \in UNION {LET f == T!Footer(z) IN
        IF f.hasDst THEN Firings(f, 2003) \cup Firings(f, 2023) ELSE {} : z \in MCFooters}}
    \cup {T!DayNumber(y, 1, 1) * 86400 + s : y \in {2001, 2005, 2024}, s \in {-1, 0, 15552000}}

-----------------------------------------------------------------------------
(* JSON values of three nodes that share or contain one another, and leaves *)
(* of every scalar and of numbers near a power of ten.                      *)
Leaves == {J!Rien, J!Texte(<<"a">>), [J!Rien EXCEPT !.t = "fonction"]}
Node == Leaves \cup {J!Liste(kids) : kids \in {<<>>} \cup {<<k>> : k \in 1..3} \cup ((1..3) \X (1..3))}
               \cup {J!Dictionnaire(<<key>>, <<k>>) : key \in {<<"b">>, J!NoText}, k \in 1..3}
               \cup {J!Dictionnaire(<<<<>>, <<"b">>>>, <<2, 3>>)}
MCHeaps ==
    {<<root, second, third>> : root \in Node \ Leaves, second \in Node, third \in Node}
    \cup {<<J!Texte(<<c>>)>> : c \in DOMAIN Code}
    \cup {<<J!Entier(n)>> : n \in {0, -1, 10, MaxEntier, MinEntier}}
    \cup {<<J!Decimal(n, e)>> : n \in {0, 1, -5, 10, 123}, e \in -3..2}
(* Keys of which many fall on the last slots, so that the probes wrap.      *)
MCHash == [key \in 1..14 |-> (CASE key % 3 = 0 -> 15 [] key % 3 = 1 -> 30 [] OTHER -> key)]
MCIndents == {J!Compact, 2}

-----------------------------------------------------------------------------
(* Values of every scalar type, and short texts that are numbers or almost. *)
Almost == {"+", "-", "1", "0", " ", ".", "e"}
MCConvertibles ==
    {J!Entier(n) : n \in Entier} \cup {J!Logique(b) : b \in BOOLEAN} \cup {X!Symbole(Code[c]) : c \in DOMAIN Code}
    \cup {J!Decimal(n, e) : n \in {0, 1, -1, 19, -29, 123, -205}, e \in -2..1}
    \cup {J!Texte(s) : s \in {Chars("vrai"), Chars("faux")} \cup BoundedSeq(Almost, 4)}

-----------------------------------------------------------------------------
(* First bytes of every width and of none, next ones at the ends of their   *)
(* ranges, and code points where the width changes.                         *)
MCLeadBytes == {65, 127, 128, 191, 192, 193, 194, 223, 224, 237, 238, 240, 244, 245, 248, 255}
MCNextBytes == {65, 128, 143, 144, 159, 160, 191, 194}
MCCodePoints == {0, 65, 127, 128, 2047, 2048, 4096, 55295, 57344, 65535, 65536, 1114111}

-----------------------------------------------------------------------------
(* Paths of one or two names, from the root or not, with or without a final *)
(* separator.                                                               *)
MCSegments ==
    {X!Path(root, names) : root \in BOOLEAN,
        names \in {<<x>> : x \in {"a", "..", "."}} \cup ({"a", "b", ".."} \X {"a", "..", ".", ""})}
    \cup {X!Path(TRUE, <<>>)}

-----------------------------------------------------------------------------
(* Requests and responses with no header, headers of the same name and a    *)
(* head that is too long, and a body that looks like the end of a head.     *)
Word(w, n) == [k \in 1..n |-> w]
A1 == <<<<"X-A">>, <<"1">>>>
HeaderLists ==
    {<<>>, <<A1>>, <<<<<<"x-a">>, <<"SP", ":", "2", "SP">>>>, A1>>, <<<<<<"X-A">>, Word("v", 6)>>>>,
     <<<<<<"X-A">>, Word("v", 40)>>>>, <<<<<<"X-A">>, <<"1", "CR", "LF", "LF">>>>>>, <<<<<<"Transfer-Encoding">>, <<"chunked">>>>>>}
BodyTexts == {<<>>, <<"b">>, <<"CR", "LF", "CR", "LF">>, Word("b", MaxBody), Word("b", MaxBody + 1)}
Message == [is |-> "request", path |-> <<>>, query |-> <<>>, status |-> 200, headers |-> <<>>, kept |-> <<>>, body |-> <<>>]
MCMessages ==
    {[Message EXCEPT !.path = p, !.query = q, !.headers = h, !.body = b] :
        p \in {<<"/">>, <<"/", "a", "/", "b">>},
        q \in {<<>>, <<<<<<"a">>, <<"1">>>>>>, <<<<<<"a">>, <<>>>>, <<<<"a">>, <<"b", "=", "c">>>>>>},
        h \in HeaderLists, b \in BodyTexts}
    \cup {[Message EXCEPT !.is = "response", !.status = s, !.headers = h, !.kept = k, !.body = b] :
            s \in {101, 200, 204, 304, 404}, h \in {<<>>, <<<<<<"Content-Type">>, <<"json">>>>>>, <<<<<<"Location">>, <<"/">>>>>>},
            k \in HeaderLists, b \in BodyTexts}
(* Frames of no byte, of one and around the size where a length takes two   *)
(* more bytes.                                                              *)
Payload(n) == [k \in 1..n |-> (k * 37) % 256]
MCFrameLists ==
    {<<>>} \cup {<<<<1, Payload(n)>>>> : n \in {0, 1, 5, 125, 126}}
    \cup {<<<<2, Payload(m)>>, <<9, Payload(n)>>>> : m, n \in {0, 3}}
    \cup {<<<<1, Payload(130)>>, <<8, Payload(1)>>, <<10, Payload(0)>>>>}

-----------------------------------------------------------------------------
(* Routes with parameters and without, in any order.                        *)
Patterns_ == {<<"/", "a">>, <<"/", ":", "x">>, <<"a", "/", "/", ":", "x", "/">>, <<"/", ":", "x", "/", ":", "y">>}
PathTexts == {<<"/">>, <<"/", "a">>, <<"/", "b">>, <<"/", "a", "/", "b">>, <<"/", "a", "/", "a", "/">>}
RouteLists == {<<>>} \cup {<<[method |-> m, pattern |-> p]>> : m \in {"GET", "POST"}, p \in Patterns_}
              \cup {<<[method |-> m, pattern |-> p], [method |-> "GET", pattern |-> q]>> : m \in {"GET", "POST"}, p, q \in Patterns_}
MCRoutings == [canals : {<<>>, <<<<"/", "a">>>>, <<<<":", "x", "/", "b">>>>, <<<<"/", "c">>, <<"/", ":", "x">>>>}, routes : RouteLists,
               method : {"GET", "POST"}, path : PathTexts]

MCHosts == {<<>>, <<"h">>, <<"127", ".", "1">>, <<":", ":", "1">>}
MCPorts == {0, 80, 443, 65535, 65536}
MCTargets == {<<>>, <<"/">>, <<"/", "a", ":", "1">>, <<"/", "[", ":", ":", "]">>}

MCTokenLists ==
    BoundedSeq({<<"upgrade">>, <<"Upgrade">>, <<"close">>, <<"\"", "upgrade", ",", "close", "\"">>, <<"a", "=", "\"", "upgrade", "\"">>,
                <<"\"", "b", ",", "upgrade", ",", "\"">>}, 4) \ {<<>>}
====
