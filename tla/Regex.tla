---- MODULE Regex ----
(***************************************************************************)
(* Regular expressions (interpreter/stdlib/regex.cpp): the parser of       *)
(* patterns, the compiler into a program of threads, the matcher, and the  *)
(* searches and replacements built on it.  Positions in a text count from  *)
(* 0, as début and fin do, instructions from 1.                            *)
(***************************************************************************)
EXTENDS Scalars
LOCAL INSTANCE SequencesExt
LOCAL INSTANCE FiniteSetsExt

CONSTANT MaxBound   \* the largest bound of a repetition, 100000 in the code

Pairs(bounds) == {<<Code[b[1]], Code[b[2]]>> : b \in bounds}
Shorthand ==
    [d |-> Pairs({<<"0", "9">>}), w |-> Pairs({<<"0", "9">>, <<"A", "Z">>, <<"_", "_">>, <<"a", "z">>}),
     s |-> Pairs({<<"\t", "\r">>, <<" ", " ">>})]
Controls == [n |-> "\n", t |-> "\t", r |-> "\r", f |-> "\f", v |-> "VT"] @@ ("0" :> "NUL")

-----------------------------------------------------------------------------
(* The tree of a pattern: RegexNode, with every field of every kind.        *)
Unbounded == -1
Blank == [n |-> "", c |-> "", ranges |-> {}, negated |-> FALSE, index |-> 0, min |-> 0, max |-> 0, kids |-> <<>>]
Literal(c) == [Blank EXCEPT !.n = "literal", !.c = c]
Of(kind, kids) == [Blank EXCEPT !.n = kind, !.kids = kids]
Class_(ranges, negated) == [Blank EXCEPT !.n = "class", !.ranges = ranges, !.negated = negated]
Group_(index, t) == [Blank EXCEPT !.n = "group", !.index = index, !.kids = <<t>>]
Repeat_(min, max, t) == [Blank EXCEPT !.n = "repeat", !.min = min, !.max = max, !.kids = <<t>>]

\* A rule gives the next position, the number of the next group and a tree, or fails.
Parsed(i, g, t) == [ok |-> TRUE, i |-> i, g |-> g, t |-> t]
Failed == [ok |-> FALSE]
Then(r, Continue(_, _, _)) == IF r.ok THEN Continue(r.i, r.g, r.t) ELSE r

RECURSIVE Number(_, _, _), ClassMembers(_, _, _, _), Terms(_, _, _, _), Alternatives(_, _, _, _)

\* The digits from i on: where they end and their value, which must not exceed MaxBound.
Number(p, i, value) ==
    IF At(p, i) \in Figures /\ value <= MaxBound
    THEN Number(p, i + 1, 10 * value + FigureOf(p[i]))
    ELSE [ok |-> value <= MaxBound, i |-> i, value |-> value]

\* try_parse_bound after a '{': anything else than {m}, {m,} or {m,n} is no bound.
Bounds(p, low, high) ==
    IF low.ok /\ high.ok /\ At(p, high.i) = "}"
    THEN [ok |-> TRUE, i |-> high.i + 1, min |-> low.value, max |-> high.value]
    ELSE Failed
UpperBound(p, low) ==
    IF At(p, low.i) # "," THEN low
    ELSE IF At(p, low.i + 1) \in Figures THEN Number(p, low.i + 1, 0)
    ELSE [ok |-> TRUE, i |-> low.i + 1, value |-> Unbounded]
BoundFrom(p, low) == Bounds(p, low, UpperBound(p, low))
Bound(p, i) == IF At(p, i) \in Figures THEN BoundFrom(p, Number(p, i, 0)) ELSE Failed

Repeated(i, g, atom, b) ==
    IF ~b.ok THEN Parsed(i, g, atom)
    ELSE IF b.max # Unbounded /\ b.max < b.min THEN Failed
    ELSE Parsed(b.i, g, Repeat_(b.min, b.max, atom))
Quantifier(p, i, g, atom) ==
    CASE At(p, i) = "*" -> Parsed(i + 1, g, Of("star", <<atom>>))
      [] At(p, i) = "+" -> Parsed(i + 1, g, Of("plus", <<atom>>))
      [] At(p, i) = "?" -> Parsed(i + 1, g, Of("opt", <<atom>>))
      [] At(p, i) = "{" -> Repeated(i, g, atom, Bound(p, i + 1))
      [] OTHER -> Parsed(i, g, atom)

\* push_class_char: the member lo, already read, or the range that a '-' begins.
ClassMember(p, i, lo) ==
    IF At(p, i) # "-" \/ i = Len(p) \/ At(p, i + 1) = "]"
    THEN [ok |-> TRUE, i |-> i, ranges |-> Pairs({<<lo, lo>>})]
    ELSE LET escaped == p[i + 1] = "\\"
             j == IF escaped THEN i + 2 ELSE i + 1
         IN IF j > Len(p) \/ (escaped /\ p[j] \in Alphanumeric) \/ Code[p[j]] < Code[lo] THEN Failed
            ELSE [ok |-> TRUE, i |-> j + 1, ranges |-> Pairs({<<lo, p[j]>>})]
ClassMembers(p, i, ranges, first) ==
    LET c == At(p, i)
        e == At(p, i + 1)
        member == CASE c # "\\" -> ClassMember(p, i + 1, c)
                    [] e \in DOMAIN Shorthand -> [ok |-> TRUE, i |-> i + 2, ranges |-> Shorthand[e]]
                    [] OTHER -> ClassMember(p, i + 2, e)
    IN CASE i > Len(p) \/ (c = "]" /\ first) -> Failed
         [] c = "]" -> [ok |-> TRUE, i |-> i + 1, ranges |-> ranges]
         [] c = "\\" /\ (i = Len(p) \/ e \in Alphanumeric \ DOMAIN Shorthand) -> Failed
         [] ~member.ok -> Failed
         [] OTHER -> ClassMembers(p, member.i, ranges \cup member.ranges, FALSE)
Class(p, i, g) ==
    LET negated == At(p, i) = "^"
        r == ClassMembers(p, IF negated THEN i + 1 ELSE i, {}, TRUE)
    IN IF r.ok THEN Parsed(r.i, g, Class_(r.ranges, negated)) ELSE Failed

Escape(p, i, g) ==
    LET c == At(p, i) IN
    CASE i > Len(p) -> Failed
      [] c \in DOMAIN Shorthand -> Parsed(i + 1, g, Class_(Shorthand[c], FALSE))
      [] c \in {"D", "W", "S"} ->
             Parsed(i + 1, g, Class_(Shorthand[CASE c = "D" -> "d" [] c = "W" -> "w" [] c = "S" -> "s"], TRUE))
      [] c \in DOMAIN Controls -> Parsed(i + 1, g, Literal(Controls[c]))
      [] c \notin Alphanumeric -> Parsed(i + 1, g, Literal(c))
      [] OTHER -> Failed

Alternation(p, i, g) == Alternatives(p, i, g, <<>>)
Atom(p, i, g) ==
    LET c == At(p, i) IN
    CASE c = "." -> Parsed(i + 1, g, Of("any", <<>>))
      [] c = "^" -> Parsed(i + 1, g, Of("start", <<>>))
      [] c = "$" -> Parsed(i + 1, g, Of("end", <<>>))
      [] c = "(" -> Then(Alternation(p, i + 1, g + 1), LAMBDA j, h, t :
                        IF At(p, j) = ")" THEN Parsed(j + 1, h, Group_(g, t)) ELSE Failed)
      [] c = "[" -> Class(p, i + 1, g)
      [] c = "\\" -> Escape(p, i + 1, g)
      [] c \in {End, "*", "+", "?", ")"} -> Failed
      [] OTHER -> Parsed(i + 1, g, Literal(c))
\* parse_concat and parse_alternation.
Terms(p, i, g, done) ==
    IF At(p, i) \in {End, "|", ")"} THEN Parsed(i, g, Of("concat", done))
    ELSE Then(Atom(p, i, g), LAMBDA j, h, atom :
         Then(Quantifier(p, j, h, atom), LAMBDA k, l, t : Terms(p, k, l, Append(done, t))))
Alternatives(p, i, g, done) ==
    Then(Terms(p, i, g, <<>>), LAMBDA j, h, t :
        IF At(p, j) = "|" THEN Alternatives(p, j + 1, h, Append(done, t))
        ELSE Parsed(j, h, IF done = <<>> THEN t ELSE Of("alt", Append(done, t))))

\* Regex.analyser up to the tree; g - 1 is the number of groups.
ParsePattern(p) ==
    Then(Alternation(p, 1, 1), LAMBDA i, g, t : IF i > Len(p) THEN Parsed(i, g, t) ELSE Failed)

-----------------------------------------------------------------------------
(* The program of a tree: what compile_node emits when it stands at `at`.   *)
Inst(op) == [op |-> op, c |-> "", ranges |-> {}, negated |-> FALSE, x |-> 0, y |-> 0, slot |-> 0]
Split(x, y) == [Inst("SPLIT") EXCEPT !.x = x, !.y = y]
Jump(x) == [Inst("JMP") EXCEPT !.x = x]
Save(slot) == [Inst("SAVE") EXCEPT !.slot = slot]

RECURSIVE Compile(_, _), CompileAlt(_, _), Copies(_, _, _), Options(_, _, _, _)

CompileStar(child, at) ==
    LET body == Compile(child, at + 1) IN
    <<Split(at + 1, at + Len(body) + 2)>> \o body \o <<Jump(at)>>
CompileAlt(alts, at) ==
    IF Len(alts) = 1 THEN Compile(alts[1], at)
    ELSE LET body == Compile(alts[1], at + 1)
             rest == CompileAlt(Tail(alts), at + Len(body) + 2)
         IN <<Split(at + 1, at + Len(body) + 2)>> \o body \o <<Jump(at + Len(body) + 2 + Len(rest))>> \o rest
Copies(child, n, at) ==
    IF n = 0 THEN <<>>
    ELSE LET one == Compile(child, at) IN one \o Copies(child, n - 1, at + Len(one))
Options(child, n, at, end) ==
    IF n = 0 THEN <<>>
    ELSE LET one == <<Split(at + 1, end)>> \o Compile(child, at + 1) IN
         one \o Options(child, n - 1, at + Len(one), end)
CompileRepeat(node, at) ==
    LET child == node.kids[1]
        must  == Copies(child, node.min, at)
        here  == at + Len(must)
        size  == 1 + Len(Compile(child, here))
    IN must \o (IF node.max = Unbounded THEN CompileStar(child, here)
                ELSE Options(child, node.max - node.min, here, here + (node.max - node.min) * size))

Compile(node, at) ==
    CASE node.n = "literal" -> <<[Inst("CHAR") EXCEPT !.c = node.c]>>
      [] node.n = "any" -> <<Inst("ANY")>>
      [] node.n = "class" -> <<[Inst("CLASS") EXCEPT !.ranges = node.ranges, !.negated = node.negated]>>
      [] node.n = "start" -> <<Inst("BOL")>>
      [] node.n = "end" -> <<Inst("EOL")>>
      [] node.n = "concat" -> FoldLeft(LAMBDA done, t : done \o Compile(t, at + Len(done)), <<>>, node.kids)
      [] node.n = "alt" -> CompileAlt(node.kids, at)
      [] node.n = "star" -> CompileStar(node.kids[1], at)
      [] node.n = "plus" -> LET body == Compile(node.kids[1], at) IN
                            body \o <<Split(at, at + Len(body) + 1)>>
      [] node.n = "opt" -> LET body == Compile(node.kids[1], at + 1) IN
                           <<Split(at + 1, at + 1 + Len(body))>> \o body
      [] node.n = "repeat" -> CompileRepeat(node, at)
      [] node.n = "group" -> <<Save(2 * node.index)>> \o Compile(node.kids[1], at + 1) \o <<Save(2 * node.index + 1)>>

ProgramOf(t) == LET body == Compile(t, 2) IN <<Save(0)>> \o body \o <<Save(1), Inst("MATCH")>>

-----------------------------------------------------------------------------
(* RegexMatcher.  Its m_visited and m_gen outlive a run.                    *)
Fresh(program) == [visited |-> [pc \in DOMAIN program |-> -1], gen |-> 0]
Untouched(groups) == [slot \in 0 .. 2 * groups + 1 |-> -1]
NoMatch == [start |-> -1, end |-> -1, saved |-> <<>>]

Accepts(inst, c) ==
    CASE inst.op = "CHAR" -> c = inst.c
      [] inst.op = "ANY" -> TRUE
      [] inst.op = "CLASS" -> (\E r \in inst.ranges : r[1] <= Code[c] /\ Code[c] <= r[2]) # inst.negated
      [] OTHER -> FALSE

\* What add_thread asks of the position before it follows an instruction that reads nothing.
Holds(inst, sp, n) ==
    CASE inst.op = "BOL" -> sp = 0
      [] inst.op = "EOL" -> sp = n
      [] OTHER -> TRUE
RECURSIVE AddThread(_, _, _, _, _, _)
AddThread(program, n, st, pc, sp, saved) ==
    IF st.visited[pc] = st.gen THEN st
    ELSE LET inst == program[pc]
             seen == [st EXCEPT !.visited[pc] = st.gen]
         IN CASE inst.op = "JMP" -> AddThread(program, n, seen, inst.x, sp, saved)
              [] inst.op = "SPLIT" ->
                     AddThread(program, n, AddThread(program, n, seen, inst.x, sp, saved), inst.y, sp, saved)
              [] inst.op = "SAVE" -> AddThread(program, n, seen, pc + 1, sp, [saved EXCEPT ![inst.slot] = sp])
              [] inst.op \in {"BOL", "EOL"} ->
                     IF Holds(inst, sp, n) THEN AddThread(program, n, seen, pc + 1, sp, saved) ELSE seen
              [] OTHER -> [seen EXCEPT !.list = Append(@, [pc |-> pc, saved |-> saved])]

\* One turn of run: the threads of clist, by priority, on the scalar at sp; those behind
\* a thread that matches are dropped.
StepThreads(program, text, st, sp) ==
    LET n      == Len(text)
        hits   == {k \in DOMAIN st.list : program[st.list[k].pc].op = "MATCH"}
        before == IF hits = {} THEN st.list ELSE SubSeq(st.list, 1, Min(hits) - 1)
        start  == [visited |-> st.visited, gen |-> st.gen + 1, list |-> <<>>]
    IN [found |-> hits # {},
        match |-> IF hits = {} THEN NoMatch
                  ELSE LET t == st.list[Min(hits)] IN [start |-> t.saved[0], end |-> sp, saved |-> t.saved],
        next  |-> FoldLeft(LAMBDA to, t :
                      IF sp < n /\ Accepts(program[t.pc], text[sp + 1])
                      THEN AddThread(program, n, to, t.pc + 1, sp + 1, t.saved) ELSE to, start, before)]

WouldTry(matched, unanchored, sp, from) == matched = NoMatch /\ (unanchored \/ sp = from)

RECURSIVE RunFrom(_, _, _, _, _, _, _, _)
RunFrom(program, text, groups, st, sp, from, unanchored, matched) ==
    IF sp > Len(text) THEN [matcher |-> st, match |-> matched]
    ELSE LET tried == IF WouldTry(matched, unanchored, sp, from)
                      THEN AddThread(program, Len(text), st, 1, sp, Untouched(groups)) ELSE st
         IN IF tried.list = <<>> THEN [matcher |-> tried, match |-> matched]
            ELSE LET step == StepThreads(program, text, tried, sp) IN
                 RunFrom(program, text, groups, step.next, sp + 1, from, unanchored,
                         IF step.found THEN step.match ELSE matched)
Run(program, text, groups, matcher, from, unanchored) ==
    LET r == RunFrom(program, text, groups, [visited |-> matcher.visited, gen |-> matcher.gen, list |-> <<>>],
                     from, from, unanchored, NoMatch)
    IN [matcher |-> [visited |-> r.matcher.visited, gen |-> r.matcher.gen], match |-> r.match]

-----------------------------------------------------------------------------
(* The functions of the module, on a parsed pattern.                        *)
Correspond(program, groups, text) ==
    LET m == Run(program, text, groups, Fresh(program), 0, FALSE).match IN
    m # NoMatch /\ m.start = 0 /\ m.end = Len(text)
Chercher(program, groups, text) == Run(program, text, groups, Fresh(program), 0, TRUE).match

\* The loop of trouver_tous and remplacer_tout: after an empty match it moves on by one.
Resume(m) == IF m.end > m.start THEN m.end ELSE m.end + 1
\* Mutant: each search numbers its steps from zero again, over the marks of the one before.
AgainFromZero(matcher) == [matcher EXCEPT !.gen = 0]
Again(matcher) == matcher
RECURSIVE FindFrom(_, _, _, _, _)
FindFrom(program, groups, text, matcher, pos) ==
    IF pos > Len(text) THEN <<>>
    ELSE LET r == Run(program, text, groups, matcher, pos, TRUE) IN
         IF r.match = NoMatch THEN <<>>
         ELSE <<r.match>> \o FindFrom(program, groups, text, Again(r.matcher), Resume(r.match))
TrouverTous(program, groups, text) == FindFrom(program, groups, text, Fresh(program), 0)

Span(text, i, j) == IF i < 0 \/ j < 0 THEN <<>> ELSE SubSeq(text, i + 1, j)
Rien == "rien"
\* A Correspondance keeps the texts of its groups; a group that took no part is rien.
GroupText(text, m, g) ==
    IF m.saved[2 * g] < 0 \/ m.saved[2 * g + 1] < 0 THEN Rien
    ELSE Span(text, m.saved[2 * g], m.saved[2 * g + 1])
Correspondance(text, m, groups) ==
    [texte |-> Span(text, m.start, m.end), debut |-> m.start, fin |-> m.end,
     groupes |-> [g \in 1..groups |-> GroupText(text, m, g)]]
\* expand_replacement: $$, $0, $1 to $99; a group beyond the last is an error.
RECURSIVE Expand(_, _, _, _, _)
Expand(template, i, text, m, groups) ==
    IF i > Len(template) THEN [ok |-> TRUE, out |-> <<>>]
    ELSE LET more(piece, j) == LET rest == Expand(template, j, text, m, groups) IN
                               IF rest.ok THEN [ok |-> TRUE, out |-> piece \o rest.out] ELSE rest
             next == IF i < Len(template) THEN template[i + 1] ELSE ""
             two  == i + 1 < Len(template) /\ template[i + 2] \in Figures
             number == IF two THEN 10 * FigureOf(template[i + 1]) + FigureOf(template[i + 2])
                       ELSE FigureOf(template[i + 1])
         IN CASE template[i] = "$" /\ next = "$" -> more(<<"$">>, i + 2)
              [] template[i] = "$" /\ next \in Figures ->
                     IF number > groups THEN [ok |-> FALSE, out |-> <<>>]
                     ELSE more(IF number = 0 THEN Span(text, m.start, m.end)
                               ELSE Span(text, m.saved[2 * number], m.saved[2 * number + 1]),
                               IF two THEN i + 3 ELSE i + 2)
              [] OTHER -> more(<<template[i]>>, i + 1)
\* bind_replace: what lies between the matches is copied, the rest of the text at the end.
RECURSIVE ReplaceFrom(_, _, _, _, _, _)
ReplaceFrom(matches, k, copied, text, template, groups) ==
    IF k > Len(matches) THEN [ok |-> TRUE, out |-> Span(text, copied, Len(text))]
    ELSE LET m    == matches[k]
             here == Expand(template, 1, text, m, groups)
             rest == ReplaceFrom(matches, k + 1, m.end, text, template, groups)
         IN IF here.ok /\ rest.ok THEN [ok |-> TRUE, out |-> Span(text, copied, m.start) \o here.out \o rest.out]
            ELSE [ok |-> FALSE, out |-> <<>>]
RemplacerTout(program, groups, text, template) ==
    ReplaceFrom(TrouverTous(program, groups, text), 1, 0, text, template, groups)
Remplacer(program, groups, text, template) ==
    LET m == Chercher(program, groups, text) IN
    ReplaceFrom(IF m = NoMatch THEN <<>> ELSE <<m>>, 1, 0, text, template, groups)
====
