-------------------------- MODULE BytecodeEmitter ---------------------------
(***************************************************************************)
(* LirToBytecode on one function, then the verifier and the interpreter on *)
(* what it emits.  The emitter lays a function out twice: a first pass     *)
(* computes where each block will start from the sizes instructions are    *)
(* going to have, a second writes them, and jumps written by the second go *)
(* where the first one said.                                               *)
(*                                                                         *)
(* A LIR function is a sequence of blocks [instrs, term]; an instruction   *)
(* is [op, index, count, args, sources], op being the opcode of its        *)
(* one-byte form, args the argument names of a call and sources where a    *)
(* closure takes its captures, each two bytes.  A constant is "CONSTANT",  *)
(* or "NIL" when its value is nil or a boolean.  A terminator is           *)
(* [kind, targets], targets being blocks.                                  *)
(***************************************************************************)
EXTENDS BytecodeVerifier

CONSTANT LirFunctions  \* the functions the lowering hands over

VARIABLE lir           \* the one that is emitted; none when the code comes from elsewhere

U8Max  == Base - 1                 \* 0xFF
U16Max == Base * Base - 1          \* 0xFFFF
U24Max == Base * Base * Base - 1   \* 0xFFFFFF

\* The opcodes whose index takes three bytes when it does not fit in one, and
\* the opcode of the long form.
LongForms == {"CONSTANT", "ASSERT_TYPE", "CALL_GLOBAL"} \cup GlobalOps \cup MemberOps \cup TypeOps \cup MemberCallOps

LongForm(op) ==
    CASE op = "CONSTANT"    -> "CONSTANT_LONG"    [] op = "ASSERT_TYPE" -> "ASSERT_TYPE_LONG"
      [] op = "GET_GLOBAL"  -> "GET_GLOBAL_LONG"  [] op = "SET_GLOBAL"  -> "SET_GLOBAL_LONG"
      [] op = "INIT_GLOBAL" -> "INIT_GLOBAL_LONG" [] op = "CALL_GLOBAL" -> "CALL_GLOBAL_LONG"
      [] op = "GET_MEMBER"  -> "GET_MEMBER_LONG"  [] op = "GET_PARENT"  -> "GET_PARENT_LONG"
      [] op = "SET_MEMBER"  -> "SET_MEMBER_LONG"  [] op = "CAST"        -> "CAST_LONG"
      [] op = "TYPE_CHECK"  -> "TYPE_CHECK_LONG"  [] op = "RESULT_FAILURE_TYPE" -> "RESULT_FAILURE_TYPE_LONG"
      [] op = "CALL_MEMBER" -> "CALL_MEMBER_LONG" [] op = "CALL_PARENT" -> "CALL_PARENT_LONG"

CallLike == {"CALL", "CALL_GLOBAL"} \cup MemberCallOps

-----------------------------------------------------------------------------
(* First pass: sizes and block offsets.                                    *)

InstrSize(instr, constants) ==
    LET index == IF instr.op = "CONSTANT" THEN constants ELSE instr.index
    IN  CASE instr.op \in CallLike \cap LongForms ->
               (IF index <= U8Max THEN 3 ELSE 5) + 2 * Len(instr.args)
          [] instr.op \in LongForms \ CallLike -> IF index <= U8Max THEN 2 ELSE 4
          [] instr.op = "CALL"                       -> 2 + 2 * Len(instr.args)
          [] instr.op = "CLOSURE"                    -> 4 + 2 * Len(instr.sources)
          [] instr.op \in {"CLEAR_LOCALS", "CLASS", "INTERFACE", "NAMESPACE"} -> 3
          [] instr.op \in LocalOps \cup CaptureOps \cup SequenceOps           -> 2
          [] OTHER                                                            -> 1

TermSize(term) == CASE term.kind = "JUMP"       -> 3
                    [] term.kind = "BRANCH"     -> 5
                    [] term.kind = "RETURN_NIL" -> 2
                    [] OTHER                    -> 1

\* Mutant: every constant counts, nil and the booleans too.
LaidOut_CountsNil(layout, instr) ==
    [offset    |-> layout.offset + InstrSize(instr, layout.constants),
     constants |-> layout.constants + (IF instr.op \in {"CONSTANT", "NIL"} THEN 1 ELSE 0)]
\* constant_count counts the constants that go to the pool, in block order.
LaidOut(layout, instr) ==
    [offset    |-> layout.offset + InstrSize(instr, layout.constants),
     constants |-> layout.constants + (IF instr.op = "CONSTANT" THEN 1 ELSE 0)]

\* The layout before the first instruction of a block, and after each.
InBlock(layout, instrs) ==
    LET at[i \in 0..Len(instrs)] == IF i = 0 THEN layout ELSE LaidOut(at[i - 1], instrs[i])
    IN  at

AfterBlock(layout, block) ==
    LET body == InBlock(layout, block.instrs)[Len(block.instrs)]
    IN  [body EXCEPT !.offset = @ + TermSize(block.term)]

Layouts(function) ==
    LET at[b \in 0..Len(function)] ==
            IF b = 0 THEN [offset |-> 0, constants |-> 0] ELSE AfterBlock(at[b - 1], function[b])
    IN  at

\* block_offsets
BlockOffset(function, block) == Layouts(function)[block - 1].offset

-----------------------------------------------------------------------------
(* Second pass: the bytes.  A chunk is [code, constants, failed]: an index *)
(* or an offset too large for its operand raises a compile error.          *)

OpcodeByte(op) == (CHOOSE i \in 1..Len(Encoding) : Encoding[i] = op) - 1

Write(chunk, bytes)  == [chunk EXCEPT !.code = @ \o bytes]
Require(chunk, fits) == [chunk EXCEPT !.failed = @ \/ ~fits]

WriteU8(chunk, value)  == Write(Require(chunk, value <= U8Max), <<value % Base>>)
WriteU16(chunk, value) ==
    Write(Require(chunk, value <= U16Max), <<(value \div Base) % Base, value % Base>>)
WriteU24(chunk, value) ==
    Write(Require(chunk, value <= U24Max),
          <<(value \div (Base * Base)) % Base, (value \div Base) % Base, value % Base>>)

WriteOpcode(chunk, op) == Write(chunk, <<OpcodeByte(op)>>)

\* write_index_ref: the short form as long as the index fits in a byte.
WriteIndexRef(chunk, op, index) ==
    IF index <= U8Max THEN WriteU8(WriteOpcode(chunk, op), index)
                      ELSE WriteU24(WriteOpcode(chunk, LongForm(op)), index)

\* The arity is narrowed to a byte: the lowering refuses more than 255
\* arguments.  The index of each argument's name follows.
WriteArguments(chunk, args) ==
    Write(Require(Write(chunk, <<Len(args) % Base>>), \A i \in 1..Len(args) : args[i] <= U16Max),
          [k \in 1..(2 * Len(args)) |->
              LET name == args[(k + 1) \div 2]
              IN  IF k % 2 = 1 THEN (name \div Base) % Base ELSE name % Base])

\* A source flag and an index for each capture.
WriteSources(chunk, sources) ==
    Write(Require(chunk, \A i \in 1..Len(sources) : sources[i].index <= U8Max),
          [k \in 1..(2 * Len(sources)) |->
              LET source == sources[(k + 1) \div 2]
              IN  IF k % 2 = 0 THEN source.index % Base ELSE IF source.fromCapture THEN 1 ELSE 0])

EmitInstr(chunk, instr) ==
    CASE instr.op = "CONSTANT" ->
           [WriteIndexRef(chunk, "CONSTANT", chunk.constants) EXCEPT !.constants = @ + 1]
      [] instr.op = "CALL" -> WriteArguments(WriteOpcode(chunk, "CALL"), instr.args)
      [] instr.op \in CallLike \ {"CALL"} ->
           WriteArguments(WriteIndexRef(chunk, instr.op, instr.index), instr.args)
      [] instr.op \in LongForms \ (CallLike \cup {"CONSTANT"}) ->
           WriteIndexRef(chunk, instr.op, instr.index)
      [] instr.op = "CLOSURE" ->
           WriteSources(WriteU8(WriteU16(WriteOpcode(chunk, "CLOSURE"), instr.index), Len(instr.sources)),
                        instr.sources)
      [] instr.op = "CLEAR_LOCALS" ->
           WriteU8(WriteU8(WriteOpcode(chunk, instr.op), instr.index), instr.count)
      [] instr.op \in {"CLASS", "INTERFACE", "NAMESPACE"} ->
           WriteU16(WriteOpcode(chunk, instr.op), instr.index)
      [] instr.op \in LocalOps \cup CaptureOps -> WriteU8(WriteOpcode(chunk, instr.op), instr.index)
      [] instr.op \in SequenceOps -> Write(WriteOpcode(chunk, instr.op), <<instr.count % Base>>)
      [] OTHER -> WriteOpcode(chunk, instr.op)

\* Mutant: nothing is written for a block that returns the value on the stack.
EmitTerm_NoReturn(chunk, term, function) ==
    CASE term.kind = "JUMP" ->
           WriteU16(WriteOpcode(chunk, "JUMP"), BlockOffset(function, term.targets[1]))
      [] term.kind = "BRANCH" ->
           WriteU16(WriteU16(WriteOpcode(chunk, "JUMP_IF_FALSE"), BlockOffset(function, term.targets[1])),
                    BlockOffset(function, term.targets[2]))
      [] term.kind = "RETURN_NIL" -> WriteOpcode(WriteOpcode(chunk, "NIL"), "RETURN")
      [] OTHER -> chunk
EmitTerm(chunk, term, function) ==
    CASE term.kind = "JUMP" ->
           WriteU16(WriteOpcode(chunk, "JUMP"), BlockOffset(function, term.targets[1]))
      [] term.kind = "BRANCH" ->
           WriteU16(WriteU16(WriteOpcode(chunk, "JUMP_IF_FALSE"), BlockOffset(function, term.targets[1])),
                    BlockOffset(function, term.targets[2]))
      [] term.kind = "RETURN_NIL" -> WriteOpcode(WriteOpcode(chunk, "NIL"), "RETURN")
      [] OTHER -> WriteOpcode(chunk, "RETURN")

\* The chunk before the first instruction of a block, and after each.
EmitInstrs(chunk, instrs) ==
    LET at[i \in 0..Len(instrs)] == IF i = 0 THEN chunk ELSE EmitInstr(at[i - 1], instrs[i])
    IN  at

\* emit_fn: the chunk before the first block, and after each.
Emit(function) ==
    LET at[b \in 0..Len(function)] ==
            IF b = 0 THEN [code |-> <<>>, constants |-> 0, failed |-> FALSE]
            ELSE LET instrs == function[b].instrs
                 IN  EmitTerm(EmitInstrs(at[b - 1], instrs)[Len(instrs)], function[b].term, function)
    IN  at

-----------------------------------------------------------------------------
(* What the lowering hands over.  An operand refers to an entity that has  *)
(* been added to its table, a source of a capture to a local or a capture  *)
(* of the function, and the pool of the function holds the constants the   *)
(* layout counts.                                                          *)

LirOps == Opcode \ ({LongForm(op) : op \in LongForms} \cup {"JUMP", "JUMP_IF_FALSE", "RETURN"})

Encoded(op) == \E i \in 1..Len(Encoding) : Encoding[i] = op

\* resolve_for_child answers with a local or a capture of this function.
HasSource(source) == source.index < TableSize[IF source.fromCapture THEN "captures" ELSE "locals"]

\* What the entry of a table holds is there as well: the sources of a class's
\* methods, resolved like those of a closure, and the type of an annotation.
EntryOk(op, index) ==
    /\ op = "CLASS" => \A source \in MethodSources[index] : HasSource(source)
    /\ op \in {"ASSERT_TYPE", "ASSERT_TYPE_LONG"} => AnnotationTypes[index] < TableSize["types"]

\* The table an index is of; a constant gets its index when it is emitted.
InTable(instr) ==
    CASE instr.op = "CONSTANT"          -> TRUE
      [] instr.op \in CallLike \ {"CALL"} -> instr.index < TableSize[CalleeTable(instr.op)]
      [] instr.op = "CLOSURE"           -> /\ instr.index < TableSize["functions"]
                                           /\ \A i \in 1..Len(instr.sources) : HasSource(instr.sources[i])
      [] instr.op = "CLEAR_LOCALS"      -> instr.index + instr.count <= TableSize["locals"]
      [] IndexWidth(instr.op) # 0       -> /\ instr.index < TableSize[IndexTable(instr.op)]
                                           /\ EntryOk(instr.op, instr.index)
      [] OTHER                          -> TRUE

WellFormedInstr(instr) ==
    /\ instr.op \in LirOps /\ instr.index \in Nat /\ instr.count \in Nat /\ instr.args \in Seq(Nat)
    /\ Len(instr.sources) \in Nat /\ \A i \in 1..Len(instr.sources) : IsSource(instr.sources[i])
    /\ Encoded(instr.op) /\ (instr.op \in LongForms => Encoded(LongForm(instr.op)))
    /\ InTable(instr)
    /\ instr.op \in CallLike => /\ Len(instr.args) <= U8Max
                                /\ \A i \in 1..Len(instr.args) : instr.args[i] < TableSize["argument_names"]

WellFormedTerm(term, function) ==
    /\ \/ term.kind = "JUMP" /\ Encoded("JUMP") /\ Len(term.targets) = 1
       \/ term.kind = "BRANCH" /\ Encoded("JUMP_IF_FALSE") /\ Len(term.targets) = 2
       \/ term.kind = "RETURN_NIL" /\ Encoded("NIL") /\ Encoded("RETURN")
       \/ term.kind = "RETURN_VALUE" /\ Encoded("RETURN")
    /\ term.targets \in Seq(1..Len(function))

WellFormed(function) ==
    /\ Len(function) \in Nat \ {0}
    /\ \A b \in 1..Len(function) :
          LET instrs == function[b].instrs
          IN  /\ Len(instrs) \in Nat /\ \A i \in 1..Len(instrs) : WellFormedInstr(instrs[i])
              /\ WellFormedTerm(function[b].term, function)
    /\ Layouts(function)[Len(function)].constants <= TableSize["constants"]

ASSUME LirFunctionsAssumption == \A function \in LirFunctions : WellFormed(function)

-----------------------------------------------------------------------------
(* A function that compiles goes to the verifier, and then runs; so does   *)
(* any string of bytes that was not emitted.                               *)

EmitInit == /\ lir \in LirFunctions
            /\ LET chunk == Emit(lir)[Len(lir)] IN ~chunk.failed /\ code = chunk.code
            /\ InitWalk

CodeInit == Init /\ lir = <<>>

CodeSpec == (EmitInit \/ CodeInit) /\ [][Next /\ UNCHANGED lir]_<<vars, lir>>

FairCodeSpec == CodeSpec /\ WF_vars(Verify)

-----------------------------------------------------------------------------
(* Properties *)

Emitted == lir # <<>>

\* The verifier refuses nothing the emitter writes: both passes, the write
\* functions and the verifier agree on every form of every instruction.
EmittedIsAccepted == Emitted => verdict # "refused"

\* The code of a function is never more than the lowering asked for: running
\* it ends by RETURN, by a failed result PROPAGATE passes on or by a language
\* error, never by one of the checks that malformed bytecode is refused for:
\* neither those the verifier makes too nor those it leaves to the
\* interpreter (argument names, sources of captures, types of annotations).
\* A frame refused because its caller brings another number of captures has
\* run nothing.
EmittedRunsClean ==
    Emitted => run \notin {"fell_off", "read_outside", "check_failed", "bad_name", "bad_source", "bad_type"}
=============================================================================
