------------------------- MODULE MCBytecodeEmitter --------------------------
EXTENDS BytecodeEmitter

\* One opcode of every shape the verifier decodes, then those of the other forms the emitter
\* writes.  Bytes 0 to 5 double as small operands.
Forms == <<"RETURN", "JUMP", "JUMP_IF_FALSE", "ADD", "PROPAGATE", "GET_LOCAL", "CLEAR_LOCALS", "CLOSURE", "CALL",
           "CALL_GLOBAL", "LIST", "CLASS", "ASSERT_TYPE_LONG", "CONSTANT", "CONSTANT_LONG", "NIL", "GET_GLOBAL",
           "GET_GLOBAL_LONG", "CALL_MEMBER", "CALL_MEMBER_LONG", "GET_CAPTURE", "ASSERT_TYPE">>

Tabled == [t \in Tables |-> CASE t = "constants" -> 2 * Base
                              [] t \in {"globals", "members"} -> Base + 1
                              [] t = "annotations" -> Base + 1
                              [] t \in {"interfaces", "namespaces", "types", "captures"} -> 1
                              [] OTHER -> 2]

\* A class whose methods capture what the function captures, and one whose descriptor names a
\* local the function does not have; annotations that have their type, and one that has not.
Sources == [class \in 0..1 |-> {IF class = 0 THEN [fromCapture |-> TRUE, index |-> 0]
                                            ELSE [fromCapture |-> FALSE, index |-> 2]}]
Annotated == [annotation \in 0..Base |-> IF annotation = 2 THEN 1 ELSE 0]

Strings(lengths, bytes) == {[length |-> n, bytes |-> bytes] : n \in lengths}

\* Every code of at most 3 bytes over the shapes and a byte that is no opcode; of 4 and 5 bytes with
\* at most one opcode beside the first five; of 6 bytes over the branches and one more opcode; of 7
\* bytes over a closure and its return.
ShortCodes == Strings(0..3, 0..12 \cup {20, 21, Len(Forms)})
              \cup UNION {Strings(4..5, (0..4) \cup {b}) : b \in 5..12}
              \cup UNION {Strings({6}, {0, 2, 3, b}) : b \in {1, 5, 6, 8}}
              \cup Strings({7}, {0, 1, 7})

Plain(op) == [op |-> op, index |-> 0, args |-> <<>>, sources |-> <<>>, count |-> 1]
FromLocal(index)   == [fromCapture |-> FALSE, index |-> index]
FromCapture(index) == [fromCapture |-> TRUE, index |-> index]

Instrs == {Plain(op) : op \in {"CONSTANT", "NIL", "GET_LOCAL", "CLEAR_LOCALS", "ADD", "CLASS",
                               "LIST", "PROPAGATE", "GET_CAPTURE", "ASSERT_TYPE"}}
          \cup {[Plain("GET_GLOBAL") EXCEPT !.index = i] : i \in {Base - 1, Base}}
          \cup {[Plain("CALL_MEMBER") EXCEPT !.index = i, !.args = <<1>>] : i \in {1, Base}}
          \cup {[Plain("CALL") EXCEPT !.args = <<1, 0>>],
                [Plain("CLOSURE") EXCEPT !.sources = <<FromCapture(0), FromLocal(1)>>]}

Terms == {[kind |-> k, targets |-> <<>>] : k \in {"RETURN_NIL", "RETURN_VALUE"}}
         \cup {[kind |-> "JUMP", targets |-> <<b>>] : b \in 1..2}
         \cup {[kind |-> "BRANCH", targets |-> <<1, 2>>]}

\* Constants enough to come up to the last short index, or just past it.
Pool(n) == [i \in 1..n |-> Plain("CONSTANT")]

\* Two blocks: the pool, an instruction and one more constant; then one
\* instruction of a length the operands decide.
Seconds == {i \in Instrs : i.op \in {"CONSTANT", "GET_GLOBAL", "CALL_MEMBER", "PROPAGATE"}}
TwoBlocks == {<<[instrs |-> Pool(n) \o <<first, Plain("CONSTANT")>>, term |-> t],
                [instrs |-> <<second>>, term |-> u]>> :
                 n \in {0, Base - 1}, first \in Instrs, second \in Seconds, t \in Terms, u \in Terms}

\* A second block at the last offset two bytes can name, or one further.
Closures == [i \in 1..26 |-> [Plain("CLOSURE") EXCEPT !.sources = [c \in 1..8 |-> FromLocal(0)]]]
            \o [i \in 1..5 |-> Plain("ADD")]
Huge(rest) == <<[instrs |-> Closures \o rest, term |-> [kind |-> "JUMP", targets |-> <<2>>]],
                [instrs |-> <<>>, term |-> [kind |-> "RETURN_NIL", targets |-> <<>>]]>>

Functions == TwoBlocks \cup {Huge(<<>>), Huge(<<Plain("ADD")>>)}
=============================================================================
