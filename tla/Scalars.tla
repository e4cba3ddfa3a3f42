---- MODULE Scalars ----
(***************************************************************************)
(* The Unicode scalars of the library models.  A scalar is a one-character *)
(* string, or a name where TLA+ has no string for it; a text is a sequence *)
(* of scalars.  The backquote is left out: it cannot stand in a string.    *)
(***************************************************************************)
EXTENDS Integers, Sequences, FiniteSets, TLC
LOCAL INSTANCE SequencesExt

Upper == " !\"#$%&'()*+,-./0123456789:;<=>?@ABCDEFGHIJKLMNOPQRSTUVWXYZ[\\]^_"
Lower == "abcdefghijklmnopqrstuvwxyz{|}~"
Chars(s) == [k \in 1..Len(s) |-> SubSeq(s, k, k)]
Table(chars, first) == [c \in ToSet(chars) |-> first - 1 + CHOOSE k \in DOMAIN chars : chars[k] = c]

\* The code point of each scalar, and the scalar of a code point.
Code == Table(Chars(Upper), 32) @@ Table(Chars(Lower), 97)
        @@ Table(<<"BS", "\t", "\n", "VT", "\f", "\r">>, 8) @@ ("NUL" :> 0) @@ ("US" :> 31)
        @@ ("e acute" :> 233) @@ ("smile" :> 128512)
Scalar == [n \in {Code[c] : c \in DOMAIN Code} |-> CHOOSE c \in DOMAIN Code : Code[c] = n]
Between(a, b) == {c \in DOMAIN Code : Code[a] <= Code[c] /\ Code[c] <= Code[b]}
Figures == Between("0", "9")
Alphanumeric == Figures \cup Between("a", "z") \cup Between("A", "Z")
FigureOf(c) == Code[c] - Code["0"]

\* The scalar at a position, and what stands past the end of a text.
End == "end of text"
At(text, i) == IF i > Len(text) THEN End ELSE text[i]

\* Numbers that are written in one piece: bytes and statuses, and ports at the end of their range.
MaxPort == 65535
Written == 0..599 \cup {MaxPort, MaxPort + 1}
Spelled == [n \in Written |-> ToString(n)]
Numbers == [t \in {Spelled[n] : n \in Written} |-> CHOOSE n \in Written : Spelled[n] = t]
====
