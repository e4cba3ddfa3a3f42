---- MODULE LibraryMeaning ----
(***************************************************************************)
(* What the data libraries promise, defined without their algorithms: the  *)
(* firings of daylight-saving rules, the values a heap denotes, the texts  *)
(* that are JSON and the routes a path takes.  (For patterns, see          *)
(* RegexMeaning.)                                                          *)
(***************************************************************************)
EXTENDS Scalars, Numerics
LOCAL INSTANCE SequencesExt
LOCAL INSTANCE FiniteSetsExt

CONSTANTS MaxHead, MaxBody   \* of an HTTP message

T == INSTANCE Temps
J == INSTANCE Json
H == INSTANCE HttpMessages

-----------------------------------------------------------------------------
(* Time.                                                                    *)

\* The fields of an instant that a format names; the others are zero.
Named(format) == {T!Marks[k].part : k \in UNION {T!MarkAt(format, i) : i \in 1..Len(format)}}
Truncated(i, named) ==
    T!InstantOf([k \in DOMAIN T!NoParts |-> IF k \in named THEN T!Parts(i)[k] ELSE 0])

\* The day of `year` on which a rule fires: its weekday for the n-th time in the month, or the last.
FiringDay(rule, year) ==
    LET days == {d \in 1..T!MonthLength(year, rule.month) :
                    T!Weekday(T!DayNumber(year, rule.month, d)) = rule.day}
    IN T!DayNumber(year, rule.month,
           IF rule.week = 5 THEN Max(days)
           ELSE CHOOSE d \in days : Cardinality({e \in days : e <= d}) = rule.week)
\* Every change of the offset around a year, and the offset it brings.
Firings(f, year) ==
    {[at |-> FiringDay(f.start, y) * 86400 + f.start.time - f.std, offset |-> f.dst] : y \in (year - 1)..(year + 1)}
    \cup {[at |-> FiringDay(f.end, y) * 86400 + f.end.time - f.dst, offset |-> f.std] : y \in (year - 1)..(year + 1)}
LawfulOffset(f, seconds) ==
    IF ~f.hasDst THEN f.std
    ELSE LET past == {c \in Firings(f, T!YearOf(seconds \div 86400)) : c.at <= seconds} IN
         (CHOOSE c \in past : \A other \in past : other.at <= c.at).offset
\* A zone whose table holds the firings of f in some years, and whose footer is f.
TabledZone(f, years) ==
    LET table == IF ~f.hasDst THEN <<>>
                 ELSE SetToSortSeq({c \in UNION {Firings(f, y) : y \in years} : T!YearOf(c.at \div 86400) \in years},
                                   LAMBDA a, b : a.at < b.at)
    IN [types |-> <<[offset |-> f.dst, dst |-> TRUE], [offset |-> f.std, dst |-> FALSE]>>,
        transitions |-> [k \in DOMAIN table |-> [at |-> table[k].at, type |-> IF table[k].offset = f.dst THEN 1 ELSE 2]],
        footer |-> f]

-----------------------------------------------------------------------------
(* JSON values.                                                             *)

\* The nodes reached from an address by one step or more.
RECURSIVE Beyond(_, _)
Beyond(heap, from) ==
    LET next == from \cup UNION {ToSet(heap[a].kids) : a \in from} IN
    IF next = from THEN from ELSE Beyond(heap, next)
Below(heap, a) == Beyond(heap, ToSet(heap[a].kids))
Reached(heap, a) == Below(heap, a) \cup {a}
HasCycle(heap, a) == \E b \in Reached(heap, a) : b \in Below(heap, b)
Writable(node) == /\ node.t \in {"rien", "logique", "entier", "décimal", "texte", "liste", "dictionnaire"}
                  /\ J!NoText \notin ToSet(node.keys)
\* The value, as a tree, that an address of an acyclic heap denotes.
RECURSIVE Unfold(_, _)
Unfold(heap, a) == [heap[a] EXCEPT !.kids = [k \in DOMAIN @ |-> Unfold(heap, @[k])]]
\* The addresses along a path of positions.
RECURSIVE Along(_, _, _)
Along(heap, a, path) == <<a>> \o (IF path = <<>> THEN <<>> ELSE Along(heap, heap[a].kids[path[1]], Tail(path)))

-----------------------------------------------------------------------------
(* A table is a sequence of entries whose keys differ.                      *)
SetIn(map, key, value) ==
    IF \E e \in ToSet(map) : e.key = key
    THEN [k \in DOMAIN map |-> IF map[k].key = key THEN [key |-> key, value |-> value] ELSE map[k]]
    ELSE Append(map, [key |-> key, value |-> value])
EraseFrom(map, key) == SelectSeq(map, LAMBDA e : e.key # key)

-----------------------------------------------------------------------------
(* The JSON texts of each length over an alphabet that has brackets, a      *)
(* figure and the end of a line, or braces and quotes.                      *)
Repeat(c, n) == [k \in 1..n |-> c]
Joined(parts, more) == {p \o q : p \in parts, q \in more}
Spaced(values, n) ==   \* a value between ends of lines
    UNION {{Repeat("\n", a) \o v \o Repeat("\n", b) : v \in values[n - a - b]} :
           <<a, b>> \in {ab \in (0..n) \X (0..n) : ab[1] + ab[2] < n}}
Sequences_(items, m) ==   \* items between commas
    LET f[k \in 0..m] == IF k = 0 THEN {}
                         ELSE items[k] \cup UNION {Joined(Joined(items[j], {<<",">>}), f[k - j - 1]) : j \in 1..(k - 1)}
    IN f[m]
ArrayTexts(bound) ==
    LET v[n \in 0..bound] ==
            CASE n = 0 -> {}
              [] n = 1 -> {<<"0">>}
              [] OTHER -> LET spaced == [k \in 0..(n - 2) |-> Spaced([j \in 0..k |-> v[j]], k)] IN
                          Joined(Joined({<<"[">>}, Sequences_(spaced, n - 2) \cup {Repeat("\n", n - 2)}), {<<"]">>})
    IN UNION {Spaced(v, n) : n \in 1..bound}
ObjectTexts(bound) ==
    LET string(n) == IF n < 2 THEN {}
                     ELSE Joined(Joined({<<"\"">>}, {SubSeq(w, 1, n - 2) : w \in [1..(n - 2) -> {"{", "}", ":", ","}]}), {<<"\"">>})
        v[n \in 0..bound] ==
            IF n < 2 THEN {}
            ELSE LET members == [k \in 0..(n - 2) |->
                                    UNION {Joined(Joined(string(j), {<<":">>}), v[k - j - 1]) : j \in 0..(k - 1)}]
                 IN string(n) \cup Joined(Joined({<<"{">>}, Sequences_(members, n - 2) \cup (IF n = 2 THEN {<<>>} ELSE {})), {<<"}">>})
    IN UNION {v[n] : n \in 1..bound}
Beginnings(texts, bound) == UNION {{p \in Prefixes(x) : Len(p) <= bound} : x \in texts}

-----------------------------------------------------------------------------
(* What LumiNet sends and receives.                                         *)
JoinWith(separator, texts) ==
    FlattenSeq([k \in DOMAIN texts |-> IF k = 1 THEN texts[k] ELSE separator \o texts[k]])
Target(path, query) ==
    path \o (IF query = <<>> THEN <<>>
             ELSE <<"?">> \o JoinWith(<<"&">>, [k \in DOMAIN query |-> query[k][1] \o <<"=">> \o query[k][2]]))
\* Bytes as they are read: `first` of them, then `rest` of them at a time.
Pieces(bytes, first, rest) ==
    LET more == IF Len(bytes) <= first THEN 0 ELSE (Len(bytes) - first + rest - 1) \div rest IN
    [k \in 1..(more + 1) |->
        SubSeq(bytes, IF k = 1 THEN 1 ELSE first + (k - 2) * rest + 1, Min({Len(bytes), first + (k - 1) * rest}))]
\* The value that a list of pairs gives first to a name, whatever its capitals.
FirstOf(headers, name) ==
    headers[Min({k \in DOMAIN headers : H!Lowered(headers[k][1]) = H!Lowered(name)})][2]
\* What a program may put in a message that it wants to come through: names that are names, none that
\* ends with the one by which the receiver looks for a length, and a body where one may stand.
Speakable(message) ==
    LET headers == message.headers \o message.kept IN
    /\ \A h \in ToSet(headers) :
           /\ h[1] # <<>> /\ ToSet(h[1]) \cap H!Separators = {}
           /\ Last(H!Lowered(h[1])) \notin {"content-length", "connection", "host"}
    /\ H!Bodyless(message.status) => message.body = <<>>
\* Its length is announced, or it is not said to come in chunks.
Measured(message) ==
    \/ IF message.is = "request" THEN message.body # <<>> ELSE ~H!Bodyless(message.status)
    \/ \A h \in ToSet(message.headers \o message.kept) : H!Lowered(h[1]) # <<"transfer-encoding">>
\* The frames that are whole in the first `size` bytes, whose frames have these sizes.
WholeFrames(sizes, size) ==
    CHOOSE n \in 0..Len(sizes) :
        /\ FoldLeft(+, 0, SubSeq(sizes, 1, n)) <= size
        /\ n < Len(sizes) => FoldLeft(+, 0, SubSeq(sizes, 1, n + 1)) > size

\* A path fits a pattern when something, put for each of its parameters, makes the path.
Filled(pattern, values) == [k \in DOMAIN pattern |-> IF k \in DOMAIN values THEN values[k] ELSE pattern[k]]
Parameters(pattern) == {k \in DOMAIN pattern : pattern[k][1] = ":"}
FitsPath(pattern, path) ==
    \E values \in [Parameters(H!Parts(pattern)) -> ToSet(H!Parts(path))] :
        Filled(H!Parts(pattern), values) = H!Parts(path)
\* The values of a list of parameters, at the places where the pattern has them.
PutBack(pattern, params) ==
    LET at == Parameters(pattern) IN
    [k \in at |-> params[Cardinality({j \in at : j <= k})][2]]
====
