---- MODULE RegexMeaning ----
(***************************************************************************)
(* What a pattern means, read off its tree without threads or programs:    *)
(* the ends a pattern can reach from a position, the preferred ones first, *)
(* and the way a tree is written.  The properties of Regex compare the     *)
(* matcher with these definitions.                                         *)
(***************************************************************************)
EXTENDS Regex
LOCAL INSTANCE SequencesExt
LOCAL INSTANCE FiniteSetsExt

-----------------------------------------------------------------------------
(* The text of a tree.                                                      *)
Quoted(c) == IF c \in Alphanumeric THEN <<c>> ELSE <<"\\", c>>
RECURSIVE Digits(_), Write(_)
Digits(n) == IF n < 10 THEN <<Scalar[Code["0"] + n]>> ELSE Digits(n \div 10) \o Digits(n % 10)
WriteRange(r) == Quoted(Scalar[r[1]]) \o <<"-">> \o Quoted(Scalar[r[2]])
Write(t) ==
    LET Kid == Write(t.kids[1]) IN
    CASE t.n = "literal" -> Quoted(t.c)
      [] t.n = "any" -> <<".">>
      [] t.n = "start" -> <<"^">>
      [] t.n = "end" -> <<"$">>
      [] t.n = "class" -> <<"[">> \o (IF t.negated THEN <<"^">> ELSE <<>>)
                          \o FlattenSeq([k \in 1..Cardinality(t.ranges) |-> WriteRange(SetToSeq(t.ranges)[k])])
                          \o <<"]">>
      [] t.n = "group" -> <<"(">> \o Kid \o <<")">>
      [] t.n = "star" -> Append(Kid, "*")
      [] t.n = "plus" -> Append(Kid, "+")
      [] t.n = "opt" -> Append(Kid, "?")
      [] t.n = "repeat" -> Kid \o <<"{">> \o Digits(t.min) \o <<",">>
                           \o (IF t.max = Unbounded THEN <<>> ELSE Digits(t.max)) \o <<"}">>
      [] t.n = "concat" -> FlattenSeq([k \in DOMAIN t.kids |-> Write(t.kids[k])])
      [] t.n = "alt" -> Tail(FlattenSeq([k \in DOMAIN t.kids |-> <<"|">> \o Write(t.kids[k])]))

-----------------------------------------------------------------------------
(* The ends of t on the text from position i, in order of preference, each  *)
(* with the groups it sets.                                                 *)
Reads(t, c) == t.n = "any" \/ (t.n = "literal" /\ t.c = c)
               \/ (t.n = "class" /\ t.negated # \E r \in t.ranges : Code[c] \in r[1]..r[2])
RECURSIVE Ends(_, _, _, _)
Follow(ends, t, text) == FlattenSeq([k \in DOMAIN ends |-> Ends(t, text, ends[k].end, ends[k].groups)])
Ends(t, text, i, groups) ==
    LET here  == <<[end |-> i, groups |-> groups]>>
        kid   == t.kids[1]
        Of1   == Ends(kid, text, i, groups)
    IN CASE t.n \in {"literal", "any", "class"} ->
                IF i < Len(text) /\ Reads(t, text[i + 1]) THEN <<[end |-> i + 1, groups |-> groups]>> ELSE <<>>
         [] t.n = "start" -> IF i = 0 THEN here ELSE <<>>
         [] t.n = "end" -> IF i = Len(text) THEN here ELSE <<>>
         [] t.n = "concat" -> FoldLeft(LAMBDA ends, u : Follow(ends, u, text), here, t.kids)
         [] t.n = "alt" -> FlattenSeq([k \in DOMAIN t.kids |-> Ends(t.kids[k], text, i, groups)])
         [] t.n = "opt" -> Of1 \o here
         [] t.n = "star" -> Follow(SelectSeq(Of1, LAMBDA e : e.end > i), t, text) \o here
         [] t.n = "plus" -> Follow(Of1, Of("star", t.kids), text)
         [] t.n = "repeat" ->
                IF t.max = 0 THEN here
                ELSE LET more == Repeat_(IF t.min = 0 THEN 0 ELSE t.min - 1,
                                         IF t.max = Unbounded THEN Unbounded ELSE t.max - 1, kid)
                     IN CASE t.min > 0 -> Follow(Of1, more, text)
                          [] t.max = Unbounded -> Ends(Of("star", t.kids), text, i, groups)
                          [] OTHER -> Follow(Of1, more, text) \o here
         [] t.n = "group" ->
                [k \in DOMAIN Of1 |-> [end |-> Of1[k].end,
                                       groups |-> [Of1[k].groups EXCEPT ![t.index] = <<i, Of1[k].end>>]]]

NoGroups(n) == [g \in 1..n |-> <<-1, -1>>]
\* The starts from `from` on at which t matches, and the preferred match at the first.
MatchingStarts(t, n, text, from) == {i \in from..Len(text) : Ends(t, text, i, NoGroups(n)) # <<>>}
RECURSIVE Matches(_, _, _, _)
Matches(t, n, text, from) ==
    LET starts == MatchingStarts(t, n, text, from) IN
    IF starts = {} THEN <<>>
    ELSE LET i == Min(starts)
             best == Ends(t, text, i, NoGroups(n))[1]
         IN <<[start |-> i, end |-> best.end, groups |-> best.groups]>>
            \o Matches(t, n, text, IF best.end > i THEN best.end ELSE i + 1)

\* The answer of the matcher, in the same form.
Answered(m, n) == [start |-> m.start, end |-> m.end,
                   groups |-> [g \in 1..n |-> <<m.saved[2 * g], m.saved[2 * g + 1]>>]]

\* What a thread may do on t without reading, where the given anchors hold: get through it, or
\* come to stand before something that reads.
AnchorsAt(text, i) == {a \in {"start", "end"} : i = (IF a = "start" THEN 0 ELSE Len(text))}
RECURSIVE MayPass(_, _), MayStand(_, _), LoopsOverEmpty(_)
MayPass(t, anchors) ==
    CASE t.n \in {"start", "end"} -> t.n \in anchors
      [] t.n \in {"star", "opt"} -> TRUE
      [] t.n = "concat" -> \A k \in DOMAIN t.kids : MayPass(t.kids[k], anchors)
      [] t.n = "alt" -> \E k \in DOMAIN t.kids : MayPass(t.kids[k], anchors)
      [] t.n = "repeat" -> t.min = 0 \/ MayPass(t.kids[1], anchors)
      [] t.n \in {"plus", "group"} -> MayPass(t.kids[1], anchors)
      [] OTHER -> FALSE
MayStand(t, anchors) ==
    CASE t.n \in {"literal", "any", "class"} -> TRUE
      [] t.n \in {"start", "end"} -> FALSE
      [] t.n = "concat" -> \E k \in DOMAIN t.kids : /\ MayStand(t.kids[k], anchors)
                                                    /\ \A j \in 1..(k - 1) : MayPass(t.kids[j], anchors)
      [] t.n = "repeat" -> t.max # 0 /\ MayStand(t.kids[1], anchors)
      [] OTHER -> \E k \in DOMAIN t.kids : MayStand(t.kids[k], anchors)
\* A match can begin at i as far as the anchors in front tell, whatever the text is from there.
Opens(t, text, i) == MayPass(t, AnchorsAt(text, i)) \/ MayStand(t, AnchorsAt(text, i))

\* A loop whose body may read nothing: which of its empty turns a matcher tries is its own affair.
LoopsOverEmpty(t) ==
    \/ t.n \in {"star", "plus", "repeat"} /\ MayPass(t.kids[1], {"start", "end"})
    \/ \E k \in DOMAIN t.kids : LoopsOverEmpty(t.kids[k])
====
