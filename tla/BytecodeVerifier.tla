-------------------------- MODULE BytecodeVerifier --------------------------
(***************************************************************************)
(* verify_module on one function, then the interpreter on what it let      *)
(* through.  The verifier walks the code once, checking every operand and  *)
(* noting where instructions start and where jumps lead; the interpreter   *)
(* then reads opcodes and operands without testing that they are there.    *)
(* The two decode the same bytes with two separate switches, translated    *)
(* separately here: that they agree is what has to be checked.             *)
(*                                                                         *)
(* Only the interpreter's control is modelled: where ip goes, which bytes  *)
(* it reads, and the bounds checks it still makes, on operands and on what *)
(* an operand leads to.  Values are not: a branch goes either way and any  *)
(* instruction may raise a language error (the checks of a global's value, *)
(* of an initialiser's or an interface's body are among those).  A call    *)
(* leaves ip after its operands and control comes back there, so one frame *)
(* is enough.                                                              *)
(***************************************************************************)
EXTENDS Integers, Sequences, FiniteSets

(***************************************************************************)
(* The bytecode of one function: a vector of bytes holding opcodes and     *)
(* their operands.  Offsets count from 0, as in the code; a TLA+ sequence  *)
(* counts from 1, and only Byte knows it.                                  *)
(*                                                                         *)
(* A byte takes Base values (256 in the code); wider operands are big      *)
(* endian.  Encoding lists the enumerators in use, byte b naming           *)
(* Encoding[b + 1]: the code has all of Opcode, an instance for the model  *)
(* checker keeps a few, so that short codes reach every shape.             *)
(***************************************************************************)
GlobalOps     == {"GET_GLOBAL", "SET_GLOBAL", "INIT_GLOBAL"}
GlobalLongOps == {"GET_GLOBAL_LONG", "SET_GLOBAL_LONG", "INIT_GLOBAL_LONG"}
LocalOps      == {"GET_LOCAL", "SET_LOCAL"}
CaptureOps    == {"GET_CAPTURE", "SET_CAPTURE"}
SequenceOps   == {"LIST", "DICTIONARY", "ENSEMBLE"}
MemberOps     == {"GET_MEMBER", "GET_PARENT", "SET_MEMBER"}
MemberLongOps == {"GET_MEMBER_LONG", "GET_PARENT_LONG", "SET_MEMBER_LONG"}
TypeOps       == {"CAST", "TYPE_CHECK", "RESULT_FAILURE_TYPE"}
TypeLongOps   == {"CAST_LONG", "TYPE_CHECK_LONG", "RESULT_FAILURE_TYPE_LONG"}
MemberCallOps     == {"CALL_MEMBER", "CALL_PARENT"}
MemberCallLongOps == {"CALL_MEMBER_LONG", "CALL_PARENT_LONG"}

\* Opcodes without an operand.
PlainOps == {"NIL", "TRUE_VALUE", "FALSE_VALUE", "NEGATE", "NOT", "ADD", "SUBTRACT", "MULTIPLY",
             "DIVIDE", "MODULO", "EQUAL", "NOT_EQUAL", "LESS", "LESS_EQUAL", "GREATER",
             "GREATER_EQUAL", "ITERATION_SNAPSHOT", "SEQUENCE_LENGTH", "INDEX_GET", "INDEX_SET",
             "RESULT_IS_SUCCESS", "RESULT_PAYLOAD", "POP", "IGNORE_RESULT"}

Opcode == GlobalOps \cup GlobalLongOps \cup LocalOps \cup CaptureOps \cup SequenceOps
          \cup MemberOps \cup MemberLongOps \cup TypeOps \cup TypeLongOps
          \cup MemberCallOps \cup MemberCallLongOps \cup PlainOps
          \cup {"CONSTANT", "CONSTANT_LONG", "CLEAR_LOCALS", "CLOSURE", "JUMP", "JUMP_IF_FALSE",
                "CALL", "CALL_GLOBAL", "CALL_GLOBAL_LONG", "CLASS", "INTERFACE", "NAMESPACE",
                "ASSERT_TYPE", "ASSERT_TYPE_LONG", "MATCH_ERROR", "PROPAGATE", "RETURN"}

CONSTANTS Base, Encoding

ASSUME BaseAssumption     == Base \in Nat /\ Base > 1
ASSUME EncodingAssumption == Encoding \in Seq(Opcode) /\ Len(Encoding) <= Base

\* The tables of a module and of a function that an operand indexes.
Tables == {"constants", "globals", "locals", "captures", "members", "classes", "interfaces",
           "namespaces", "annotations", "types", "functions", "argument_names"}

IsByte(b) == b \in Nat /\ b < Base

\* chunk.code[at]
Byte(code, at) == code[at + 1]
U16(code, at)  == Byte(code, at) * Base + Byte(code, at + 1)
U24(code, at)  == (Byte(code, at) * Base + Byte(code, at + 1)) * Base + Byte(code, at + 2)

IsOpcode(byte) == byte < Len(Encoding)
OpcodeAt(code, at) == IF IsOpcode(Byte(code, at)) THEN Encoding[Byte(code, at) + 1] ELSE "unknown"

-----------------------------------------------------------------------------

CONSTANTS CodeShapes,  \* the codes handed to the verifier: all those of a length over some bytes
          TableSize,   \* how many entries each table has
          MethodSources,   \* the capture sources of the methods of each class
          AnnotationTypes  \* the index of the type of each annotation

ASSUME CodeShapesAssumption ==
    \A shape \in CodeShapes : shape.length \in Nat /\ \A b \in shape.bytes : IsByte(b)
ASSUME TableSizeAssumption == TableSize \in [Tables -> Nat]

\* A capture is a local of the frame that closes over it, or one of the
\* frame's own captures.
IsSource(source) == source.fromCapture \in BOOLEAN /\ source.index \in Nat

\* Descriptors the verifier does not enter: class.methods[i].capture_sources
\* and annotation.type_index.
ASSUME DescriptorsAssumption ==
    /\ DOMAIN MethodSources = 0..TableSize["classes"] - 1
    /\ \A class \in DOMAIN MethodSources : \A source \in MethodSources[class] : IsSource(source)
    /\ DOMAIN AnnotationTypes = 0..TableSize["annotations"] - 1
    /\ \A annotation \in DOMAIN AnnotationTypes : AnnotationTypes[annotation] \in Nat

VARIABLES
    code,     \* m_chunk.code
    offset,   \* m_offset
    starts,   \* the offsets where m_starts is true
    jumps,    \* the targets of m_jumps
    last,     \* the opcode step read last
    verdict,  \* "walking", "accepted" or "refused"
    ip,       \* frame.ip
    run,      \* the frame: "idle", "running" or how it ended
    frameCaptures  \* frame.captures.size()

vars == <<code, offset, starts, jumps, last, verdict, ip, run, frameCaptures>>

-----------------------------------------------------------------------------
(* The verifier's switch: what an opcode's operands must be, at the offset *)
(* after the opcode.                                                       *)

Available(at, bytes) == at + bytes <= Len(code)

Operand(at, width) == CASE width = 1 -> Byte(code, at)
                        [] width = 2 -> U16(code, at)
                        [] OTHER     -> U24(code, at)

\* Mutant: the index may be the size of the table.
IndexOk_LessOrEqual(at, width, limit) == Available(at, width) /\ Operand(at, width) <= limit
IndexOk(at, width, limit) == Available(at, width) /\ Operand(at, width) < limit

\* The operands that are one index: how wide it is ...
IndexWidth(op) ==
    CASE op \in {"CONSTANT", "ASSERT_TYPE"} \cup GlobalOps \cup LocalOps \cup CaptureOps
                \cup MemberOps \cup TypeOps -> 1
      [] op \in {"CLASS", "INTERFACE", "NAMESPACE"} -> 2
      [] op \in {"CONSTANT_LONG", "ASSERT_TYPE_LONG"} \cup GlobalLongOps \cup MemberLongOps
                \cup TypeLongOps -> 3
      [] OTHER -> 0

\* ... and the table it is an index of.
IndexTable(op) ==
    CASE op \in {"CONSTANT", "CONSTANT_LONG"}      -> "constants"
      [] op \in GlobalOps \cup GlobalLongOps       -> "globals"
      [] op \in LocalOps                           -> "locals"
      [] op \in CaptureOps                         -> "captures"
      [] op \in MemberOps \cup MemberLongOps       -> "members"
      [] op = "CLASS"                              -> "classes"
      [] op = "INTERFACE"                          -> "interfaces"
      [] op = "NAMESPACE"                          -> "namespaces"
      [] op \in {"ASSERT_TYPE", "ASSERT_TYPE_LONG"} -> "annotations"
      [] OTHER                                     -> "types"

CallOps == {"CALL", "CALL_GLOBAL", "CALL_GLOBAL_LONG"} \cup MemberCallOps \cup MemberCallLongOps

CalleeWidth(op) == CASE op = "CALL" -> 0
                     [] op \in {"CALL_GLOBAL_LONG"} \cup MemberCallLongOps -> 3
                     [] OTHER -> 1

CalleeTable(op) == IF op \in {"CALL_GLOBAL", "CALL_GLOBAL_LONG"} THEN "globals" ELSE "members"

LocalRangeOk(at) == Available(at, 2) /\ Byte(code, at) + Byte(code, at + 1) <= TableSize["locals"]

\* Each capture is a source flag and an index into that source.
ClosureOk(at) == /\ IndexOk(at, 2, TableSize["functions"])
                 /\ Available(at + 2, 1)
                 /\ Available(at + 3, Byte(code, at + 2) * 2)

\* One argument-name index per argument; one past the table is let through.
CallOk(op, at) ==
    LET arity == at + CalleeWidth(op)
    IN  /\ CalleeWidth(op) # 0 => IndexOk(at, CalleeWidth(op), TableSize[CalleeTable(op)])
        /\ Available(arity, 1)
        /\ \A i \in 0..Byte(code, arity) - 1 :
              IndexOk(arity + 1 + 2 * i, 2, TableSize["argument_names"] + 1)

OperandsOk(op, at) ==
    CASE IndexWidth(op) # 0    -> IndexOk(at, IndexWidth(op), TableSize[IndexTable(op)])
      [] op = "CLEAR_LOCALS"   -> LocalRangeOk(at)
      [] op \in SequenceOps    -> Available(at, 1)
      [] op = "CLOSURE"        -> ClosureOk(at)
      [] op = "JUMP"           -> Available(at, 2)
      [] op = "JUMP_IF_FALSE"  -> Available(at, 4)
      [] op \in CallOps        -> CallOk(op, at)
      [] OTHER                 -> TRUE

\* How many bytes step moves m_offset over, once the operands are right.
OperandBytes(op, at) ==
    CASE IndexWidth(op) # 0    -> IndexWidth(op)
      [] op = "CLEAR_LOCALS"   -> 2
      [] op \in SequenceOps    -> 1
      [] op = "CLOSURE"        -> 3 + Byte(code, at + 2) * 2
      [] op = "JUMP"           -> 2
      [] op = "JUMP_IF_FALSE"  -> 4
      [] op \in CallOps        -> CalleeWidth(op) + 1 + 2 * Byte(code, at + CalleeWidth(op))
      [] OTHER                 -> 0

JumpTargets(op, at) == CASE op = "JUMP"          -> {U16(code, at)}
                         [] op = "JUMP_IF_FALSE" -> {U16(code, at), U16(code, at + 2)}
                         [] OTHER                -> {}

\* The opcodes a function may end on.
MayEndOn == {"RETURN", "JUMP", "JUMP_IF_FALSE", "PROPAGATE", "MATCH_ERROR"}

-----------------------------------------------------------------------------
Refuse == /\ verdict' = "refused"
          /\ UNCHANGED <<code, offset, starts, jumps, last, ip, run, frameCaptures>>

\* "le code est vide"
VerifyEmpty == verdict = "walking" /\ code = <<>> /\ Refuse

\* One turn of the walk: an opcode nobody knows, or an operand that is
\* missing or out of its table, ends it.
StepRefused ==
    LET op == OpcodeAt(code, offset)
    IN  /\ verdict = "walking" /\ offset < Len(code)
        /\ \/ ~IsOpcode(Byte(code, offset))
           \/ ~OperandsOk(op, offset + 1)
        /\ Refuse

\* Mutant: m_offset is moved over the operands but not over the opcode.
Step_OpcodeNotConsumed ==
    LET op == OpcodeAt(code, offset)
    IN  /\ verdict = "walking" /\ offset < Len(code)
        /\ IsOpcode(Byte(code, offset))
        /\ OperandsOk(op, offset + 1)
        /\ starts' = starts \cup {offset}
        /\ jumps'  = jumps \cup JumpTargets(op, offset + 1)
        /\ last'   = op
        /\ offset' = offset + OperandBytes(op, offset + 1)
        /\ UNCHANGED <<code, verdict, ip, run, frameCaptures>>

Step ==
    LET op == OpcodeAt(code, offset)
    IN  /\ verdict = "walking" /\ offset < Len(code)
        /\ IsOpcode(Byte(code, offset))
        /\ OperandsOk(op, offset + 1)
        /\ starts' = starts \cup {offset}
        /\ jumps'  = jumps \cup JumpTargets(op, offset + 1)
        /\ last'   = op
        /\ offset' = offset + 1 + OperandBytes(op, offset + 1)
        /\ UNCHANGED <<code, verdict, ip, run, frameCaptures>>

\* Mutant: a target need only be inside the code, as the interpreter tests.
WalkIsSound_InsideIsEnough == /\ offset = Len(code)
                              /\ last \in MayEndOn
                              /\ \A target \in jumps : target < Len(code)

\* What verify checks when the walk has reached the end of the code.
WalkIsSound == /\ offset = Len(code)
               /\ last \in MayEndOn
               /\ \A target \in jumps : target \in starts

FinishWalk ==
    /\ verdict = "walking" /\ code # <<>> /\ offset >= Len(code)
    /\ IF WalkIsSound
         THEN verdict' = "accepted" /\ UNCHANGED <<code, offset, starts, jumps, last, ip, run, frameCaptures>>
         ELSE Refuse

-----------------------------------------------------------------------------
(* The interpreter's switch: what it reads and where ip is afterwards.     *)

ReadsByte == {"CONSTANT", "ASSERT_TYPE", "LIST", "DICTIONARY", "ENSEMBLE"} \cup GlobalOps
             \cup LocalOps \cup CaptureOps \cup MemberOps \cup TypeOps
ReadsU16  == {"CLASS", "INTERFACE", "NAMESPACE", "JUMP"}
ReadsU24  == {"CONSTANT_LONG", "ASSERT_TYPE_LONG"} \cup GlobalLongOps \cup MemberLongOps \cup TypeLongOps

\* The width of the callee a call reads before its arity.
ReadsCallee(op) == CASE op = "CALL" -> 0
                     [] op \in {"CALL_GLOBAL", "CALL_MEMBER", "CALL_PARENT"} -> 1
                     [] OTHER -> 3

\* ip past the operands of the instruction at ip.
AfterOperands(op) ==
    ip + 1 + CASE op \in ReadsByte -> 1
               [] op \in ReadsU16  -> 2
               [] op \in ReadsU24  -> 3
               [] op = "CLEAR_LOCALS"  -> 2
               [] op = "JUMP_IF_FALSE" -> 4
               [] op = "CLOSURE" -> 3 + 2 * Byte(code, ip + 3)
               [] op \in CallOps -> ReadsCallee(op) + 1 + 2 * Byte(code, ip + 1 + ReadsCallee(op))
               [] OTHER -> 0

\* Reading a count at the end of the code is already outside it.
CountOutside(op) == \/ op = "CLOSURE" /\ ip + 3 >= Len(code)
                    \/ op \in CallOps /\ ip + 1 + ReadsCallee(op) >= Len(code)

ReadsOutside(op) == CountOutside(op) \/ AfterOperands(op) > Len(code)

\* The table checks the interpreter repeats, on operands it has read.
IndexRead(op) == CASE op \in ReadsByte -> Byte(code, ip + 1)
                   [] op \in ReadsU16  -> U16(code, ip + 1)
                   [] OTHER            -> U24(code, ip + 1)

\* A capture is looked for in the frame, everything else in the module's and
\* the function's tables.
FailsTableCheck(op) ==
    \/ op \in CaptureOps /\ IndexRead(op) >= frameCaptures
    \/ /\ op \in (ReadsByte \cup ReadsU16 \cup ReadsU24) \ (SequenceOps \cup CaptureOps \cup {"JUMP"})
       /\ IndexRead(op) >= TableSize[IndexTable(op)]
    \/ op = "CLOSURE" /\ U16(code, ip + 1) >= TableSize["functions"]
    \/ /\ op \in CallOps \ {"CALL"}
       /\ (IF ReadsCallee(op) = 1 THEN Byte(code, ip + 1) ELSE U24(code, ip + 1))
             >= TableSize[CalleeTable(op)]

\* An argument name is looked up for every argument of a call.
FailsNameCheck(op) ==
    /\ op \in CallOps
    /\ \E i \in 0..Byte(code, ip + 1 + ReadsCallee(op)) - 1 :
          U16(code, ip + 2 + ReadsCallee(op) + 2 * i) >= TableSize["argument_names"]

\* CallFrame::capture: the frame has no such local or capture.
SourceOutside(fromCapture, index) ==
    index >= (IF fromCapture THEN frameCaptures ELSE TableSize["locals"])

\* A closure takes its captures from where its bytes say, a class those of
\* its methods from where its descriptor says.
FailsSourceCheck(op) ==
    \/ /\ op = "CLOSURE"
       /\ \E i \in 0..Byte(code, ip + 3) - 1 :
             SourceOutside(Byte(code, ip + 4 + 2 * i) # 0, Byte(code, ip + 5 + 2 * i))
    \/ /\ op = "CLASS"
       /\ \E source \in MethodSources[IndexRead(op)] : SourceOutside(source.fromCapture, source.index)

\* An assertion goes on to the type its annotation names.
FailsTypeCheck(op) ==
    op \in {"ASSERT_TYPE", "ASSERT_TYPE_LONG"} /\ AnnotationTypes[IndexRead(op)] >= TableSize["types"]

Targets(op) == CASE op = "JUMP"          -> {U16(code, ip + 1)}
                 [] op = "JUMP_IF_FALSE" -> {U16(code, ip + 1), U16(code, ip + 3)}
                 [] OTHER                -> {AfterOperands(op)}

\* What comes of reading the operands of the instruction at ip.
Outcome(op) == IF ReadsOutside(op) THEN "read_outside"
               ELSE IF FailsTableCheck(op) THEN "check_failed"
               ELSE IF FailsNameCheck(op) THEN "bad_name"
               ELSE IF FailsSourceCheck(op) THEN "bad_source"
               ELSE IF FailsTypeCheck(op) THEN "bad_type"
               ELSE "passes"

\* Only the jumps test that they stay inside the code.
FailsTargetCheck(op, target) == op \in {"JUMP", "JUMP_IF_FALSE"} /\ target >= Len(code)

-----------------------------------------------------------------------------
Ends(how) == run' = how /\ UNCHANGED <<code, offset, starts, jumps, last, verdict, ip, frameCaptures>>

\* execute calls run only on a module that verify_module let through.  The
\* captures are those of the closure or the method that is called, whatever
\* made it: a frame is pushed only if they are as many as the function has.
Start ==
    /\ verdict = "accepted" /\ run = "idle"
    /\ \E supplied \in 0..TableSize["captures"] + 1 :
          IF supplied = TableSize["captures"]
            THEN run' = "running" /\ frameCaptures' = supplied
            ELSE run' = "wrong_captures" /\ frameCaptures' = frameCaptures
    /\ ip' = 0
    /\ UNCHANGED <<code, offset, starts, jumps, last, verdict>>

\* "fonction terminée sans RETURN"
FallOff == run = "running" /\ ip >= Len(code) /\ Ends("fell_off")

Executing(op) == run = "running" /\ ip < Len(code) /\ op = OpcodeAt(code, ip)

\* An operand lies outside the code, or one of the interpreter's own checks
\* throws.
CheckFails == \E op \in Opcode : Executing(op) /\ Outcome(op) # "passes" /\ Ends(Outcome(op))

\* RETURN pops the frame; a failed result makes PROPAGATE pop it too.
Return == \E op \in {"RETURN", "PROPAGATE"} : Executing(op) /\ Ends("returned")

\* A language error: an empty stack, a value of the wrong kind, MATCH_ERROR ...
\* Those of a call may come before its argument names are looked up, those
\* of a class before the sources of its methods.
Raise == \E op \in Opcode \ {"RETURN", "NIL"} :
    /\ Executing(op)
    /\ \/ Outcome(op) \in {"passes", "bad_name"}
       \/ Outcome(op) = "bad_source" /\ op = "CLASS"
    /\ Ends("raised")

\* An opcode the switch does not list is skipped.
Advance == \E op \in (Opcode \ {"RETURN", "MATCH_ERROR"}) \cup {"unknown"} :
    /\ Executing(op) /\ Outcome(op) = "passes"
    /\ \E target \in Targets(op) :
          IF FailsTargetCheck(op, target) THEN run' = "check_failed" /\ ip' = ip
                                          ELSE run' = run /\ ip' = target
    /\ UNCHANGED <<code, offset, starts, jumps, last, verdict, frameCaptures>>

-----------------------------------------------------------------------------
InitWalk ==
        /\ offset = 0 /\ starts = {} /\ jumps = {} /\ last = "RETURN"
        /\ verdict = "walking" /\ ip = 0 /\ run = "idle" /\ frameCaptures = 0

Init == /\ \E shape \in CodeShapes : code \in [1..shape.length -> shape.bytes]
        /\ InitWalk

Verify == VerifyEmpty \/ StepRefused \/ Step \/ FinishWalk
Run    == Start \/ FallOff \/ CheckFails \/ Return \/ Raise \/ Advance

Next == Verify \/ Run

Spec == Init /\ [][Next]_vars

\* The walk is one loop of straight-line code: nothing interrupts it.
FairSpec == Spec /\ WF_vars(Verify)
-----------------------------------------------------------------------------
(* Properties *)

\* The verifier's and the interpreter's state have their types.
TypeOK == /\ DOMAIN code = 1..Len(code) /\ \A i \in DOMAIN code : IsByte(code[i])
          /\ offset \in 0..Len(code) /\ starts \subseteq 0..(Len(code) - 1)
          /\ jumps \subseteq Nat /\ last \in Opcode
          /\ verdict \in {"walking", "accepted", "refused"}
          /\ ip \in 0..Len(code)
          /\ run \in {"idle", "running", "returned", "raised", "fell_off", "read_outside",
                     "check_failed", "bad_name", "bad_source", "bad_type", "wrong_captures"}
          /\ frameCaptures \in Nat

\* In code the verifier let through, the interpreter only ever fetches an
\* opcode where the walk found an instruction to start.  The one place it can
\* reach beside those is the end of the code, past a final PROPAGATE: vm.cpp
\* 2562 falls through on a success, and verifier.cpp 56 lets it come last.
FetchesInstructionStarts ==
    run # "idle" => ip \in starts \/ (ip = Len(code) /\ last = "PROPAGATE")

\* The interpreter reads no byte outside the code, and none of the checks it
\* repeats on an operand the verifier has checked can fail: an index in its
\* table, a capture in its frame (vm.cpp 1271 lets no frame start with
\* another number of them), a target inside the code (verifier.hpp: every
\* operand present in the stream, every table index in range, every jump
\* landing on the first byte of an instruction).  Four checks of the
\* interpreter may still fail in accepted code, and are outcomes apart:
\* "bad_name", an index one past the argument names, which verifier.cpp 273
\* lets through; "bad_source", since verifier.cpp 253 skips the captures of
\* a closure and nothing reads those of a class's methods; "bad_type", since
\* nothing reads the types of annotations; and "wrong_captures", the number
\* a caller gives.
NothingLeftToCheck == run \notin {"read_outside", "check_failed"}

\* The walk of every code ends in a verdict: each turn consumes a byte.
VerificationEnds == <>(verdict # "walking")
=============================================================================
