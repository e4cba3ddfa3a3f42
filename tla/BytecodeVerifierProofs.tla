----------------------- MODULE BytecodeVerifierProofs -----------------------
(***************************************************************************)
(* Verified code is decoded one way: for every code, every table size and  *)
(* every encoding, the interpreter fetches opcodes only where the          *)
(* verifier's walk found an instruction, reads nothing outside the code,   *)
(* and repeats no check of an operand, in a table, in the frame or of a    *)
(* target, that could fail.  What the verifier leaves unchecked (names one *)
(* past their table, the sources of captures, the types of annotations)    *)
(* comes out as an outcome of its own.                                     *)
(***************************************************************************)
EXTENDS BytecodeVerifier, TLAPS

CodeOK == code \in Seq(Nat) /\ \A i \in 1..Len(code) : IsByte(code[i])

-----------------------------------------------------------------------------
(* The operands of one instruction.                                        *)

\* The opcodes whose operand is one index, by its width.
Index1 == {"CONSTANT", "ASSERT_TYPE"} \cup GlobalOps \cup LocalOps \cup CaptureOps \cup MemberOps \cup TypeOps
Index2 == {"CLASS", "INTERFACE", "NAMESPACE"}
Index3 == {"CONSTANT_LONG", "ASSERT_TYPE_LONG"} \cup GlobalLongOps \cup MemberLongOps \cup TypeLongOps
NoOperand == PlainOps \cup {"MATCH_ERROR", "PROPAGATE", "RETURN"}

\* A byte read inside the code is a natural number.
LEMMA ByteInNat ==
    ASSUME CodeOK, NEW at \in Nat, at < Len(code)
    PROVE  Byte(code, at) \in Nat
  BY DEF CodeOK, Byte

\* So do two bytes.
LEMMA U16InNat ==
    ASSUME NEW at, Byte(code, at) \in Nat, Byte(code, at + 1) \in Nat
    PROVE  U16(code, at) \in Nat
  BY BaseAssumption DEF U16

\* Three bytes make a number.
LEMMA U24InNat ==
    ASSUME NEW at, Byte(code, at) \in Nat, Byte(code, at + 1) \in Nat, Byte(code, at + 2) \in Nat
    PROVE  U24(code, at) \in Nat
  <1> DEFINE high == Byte(code, at) * Base + Byte(code, at + 1)
  <1>1. high \in Nat
    BY BaseAssumption
  <1> HIDE DEF high
  <1>2. high * Base + Byte(code, at + 2) \in Nat
    BY <1>1, BaseAssumption
  <1> QED BY <1>2 DEF high, U24

\* The shapes of Bytecode are all there is.
LEMMA Shapes ==
    ASSUME NEW op \in Opcode
    PROVE  \/ op \in Index1 \/ op \in Index2 \/ op \in Index3
           \/ op = "CLEAR_LOCALS" \/ op \in SequenceOps \/ op = "CLOSURE"
           \/ op = "JUMP" \/ op = "JUMP_IF_FALSE" \/ op \in CallOps \/ op \in NoOperand
  BY Zenon DEF Opcode, Index1, Index2, Index3, CallOps, NoOperand

\* The two switches give each shape the same widths.
LEMMA ShapeWidths ==
    ASSUME NEW op \in Opcode
    PROVE  /\ op \in Index1 <=> IndexWidth(op) = 1
           /\ op \in Index2 <=> IndexWidth(op) = 2
           /\ op \in Index3 <=> IndexWidth(op) = 3
           /\ IndexWidth(op) \in 0..3
  BY DEF Index1, Index2, Index3, IndexWidth, GlobalOps, LocalOps, CaptureOps, MemberOps, TypeOps, GlobalLongOps, MemberLongOps, TypeLongOps

\* ... and take the same bytes for operands.
LEMMA ShapeReads ==
    ASSUME NEW op \in Opcode
    PROVE  /\ op \in ReadsByte <=> op \in Index1 \/ op \in SequenceOps
           /\ op \in ReadsU16 <=> op \in Index2 \/ op = "JUMP"
           /\ op \in ReadsU24 <=> op \in Index3
  BY DEF Index1, Index2, Index3, ReadsByte, ReadsU16, ReadsU24, GlobalOps, LocalOps, CaptureOps,
         MemberOps, TypeOps, GlobalLongOps, MemberLongOps, TypeLongOps, SequenceOps

\* No opcode has two shapes.
Rest == {"CLEAR_LOCALS", "CLOSURE", "JUMP", "JUMP_IF_FALSE"}
\* An opcode has one shape of operands.
LEMMA ShapesDisjoint ==
    ASSUME NEW op \in Opcode
    PROVE  /\ op \in Index1 => op \notin Index2 /\ op \notin Index3 /\ op \notin SequenceOps
                               /\ op \notin CallOps /\ op \notin Rest
           /\ op \in Index2 => op \notin Index3 /\ op \notin SequenceOps /\ op \notin CallOps /\ op \notin Rest
           /\ op \in Index3 => op \notin SequenceOps /\ op \notin CallOps /\ op \notin Rest
           /\ op \in SequenceOps => op \notin CallOps /\ op \notin Rest
           /\ op \in CallOps => op \notin Rest
           /\ op \in NoOperand => /\ op \notin Index1 /\ op \notin Index2 /\ op \notin Index3
                                  /\ op \notin SequenceOps /\ op \notin CallOps /\ op \notin Rest
  BY DEF Index1, Index2, Index3, NoOperand, PlainOps, Rest, CallOps, MemberCallOps, MemberCallLongOps,
         GlobalOps, LocalOps, CaptureOps, MemberOps, TypeOps, GlobalLongOps, MemberLongOps,
         TypeLongOps, SequenceOps

\* The index of a capture is one byte.
LEMMA CapturesAreRead == CaptureOps \subseteq Index1
  BY DEF Index1

\* ... in the table of the function's captures.
LEMMA CapturesTable == \A op \in CaptureOps : IndexTable(op) = "captures"
  BY DEF IndexTable, GlobalOps, GlobalLongOps, LocalOps, CaptureOps, MemberOps, MemberLongOps

\* A call reads as wide a callee as the verifier checked.
LEMMA CalleeWidths ==
    ASSUME NEW op \in CallOps
    PROVE  /\ ReadsCallee(op) = CalleeWidth(op)
           /\ CalleeWidth(op) \in {0, 1, 3}
           /\ CalleeWidth(op) = 0 <=> op = "CALL"
  BY DEF CallOps, ReadsCallee, CalleeWidth, MemberCallOps, MemberCallLongOps

\* The frame has as many captures as its function.
Captured == frameCaptures = TableSize["captures"]

\* What the interpreter does at s is what the verifier checked there.
Agree(op, s) ==
    /\ OperandBytes(op, s + 1) \in Nat
    /\ s + 1 + OperandBytes(op, s + 1) <= Len(code)
    /\ ip = s => /\ AfterOperands(op) = s + 1 + OperandBytes(op, s + 1)
                 /\ ~ReadsOutside(op)
                 /\ Captured => ~FailsTableCheck(op)

\* An operand that is one index is read as it was checked: the same bytes,
\* and a number inside its table.
LEMMA IndexIsRead ==
    ASSUME CodeOK, NEW s \in Nat, s < Len(code), ip = s,
           NEW op \in Opcode, op \in Index1 \/ op \in Index2 \/ op \in Index3, OperandsOk(op, s + 1)
    PROVE  /\ IndexRead(op) = Operand(s + 1, IndexWidth(op)) /\ IndexRead(op) \in Nat
           /\ IndexRead(op) < TableSize[IndexTable(op)]
  <1> DEFINE w == IndexWidth(op)
  <1>0. Len(code) \in Nat
    BY DEF CodeOK
  <1>1. w \in 1..3 /\ w # 0
    BY ShapeWidths
  <1>2. IndexOk(s + 1, w, TableSize[IndexTable(op)])
    BY <1>1, ShapesDisjoint DEF OperandsOk, Rest
  <1>3. s + 1 + w <= Len(code) /\ Operand(s + 1, w) < TableSize[IndexTable(op)]
    BY <1>2 DEF IndexOk, Available
  <1>4. IndexRead(op) = Operand(s + 1, w)
    <2>1. CASE op \in Index1
      BY <2>1, ShapeReads, ShapeWidths, ShapesDisjoint DEF IndexRead, Operand, Rest
    <2>2. CASE op \in Index2
      BY <2>2, ShapeReads, ShapeWidths, ShapesDisjoint DEF IndexRead, Operand, Rest
    <2>3. CASE op \in Index3
      BY <2>3, ShapeReads, ShapeWidths, ShapesDisjoint DEF IndexRead, Operand, Rest
    <2> QED BY <2>1, <2>2, <2>3
  <1>5. Operand(s + 1, w) \in Nat
    <2>1. CASE w = 1
      BY <2>1, <1>3, <1>0, ByteInNat DEF Operand
    <2> HIDE DEF w
    <2>2. CASE w = 2
      <3>1. Byte(code, s + 1) \in Nat /\ Byte(code, s + 2) \in Nat
        BY <2>2, <1>3, <1>0, ByteInNat
      <3>2. s + 1 + 1 = s + 2
        OBVIOUS
      <3>3. U16(code, s + 1) \in Nat
        BY <3>1, <3>2, U16InNat
      <3> QED BY <3>3, <2>2 DEF Operand
    <2>3. CASE w = 3
      <3>1. Byte(code, s + 1) \in Nat /\ Byte(code, s + 2) \in Nat /\ Byte(code, s + 3) \in Nat
        BY <2>3, <1>3, <1>0, ByteInNat
      <3>2. s + 1 + 1 = s + 2 /\ s + 1 + 2 = s + 3
        OBVIOUS
      <3>3. U24(code, s + 1) \in Nat
        BY <3>1, <3>2, U24InNat
      <3> QED BY <3>3, <2>3 DEF Operand
    <2> QED BY <2>1, <2>2, <2>3, <1>1
  <1> HIDE DEF w
  <1>6. IndexRead(op) \in Nat /\ IndexRead(op) < TableSize[IndexTable(op)]
    BY <1>3, <1>4, <1>5
  <1> QED BY <1>4, <1>6 DEF w

\* An operand that is one index, of one, two or three bytes.
LEMMA IndexAgrees ==
    ASSUME CodeOK, NEW s \in Nat, s < Len(code), ip \in Nat,
           NEW op \in Opcode, op \in Index1 \/ op \in Index2 \/ op \in Index3, OperandsOk(op, s + 1)
    PROVE  Agree(op, s)
  <1> DEFINE w == IndexWidth(op)
  <1>0. Len(code) \in Nat
    BY DEF CodeOK
  <1>1. w \in 1..3 /\ w # 0
    BY ShapeWidths
  <1>2. IndexOk(s + 1, w, TableSize[IndexTable(op)])
    BY <1>1, ShapesDisjoint DEF OperandsOk, Rest
  <1>3. OperandBytes(op, s + 1) = w
    BY <1>1, ShapesDisjoint DEF OperandBytes, Rest
  <1>4. s + 1 + w <= Len(code)
    BY <1>2 DEF IndexOk, Available
  <1>5. ASSUME ip = s PROVE AfterOperands(op) = s + 1 + w
    <2>1. CASE op \in Index1
      BY <2>1, <1>5, ShapeReads, ShapeWidths, ShapesDisjoint DEF AfterOperands, Rest
    <2>2. CASE op \in Index2
      BY <2>2, <1>5, ShapeReads, ShapeWidths, ShapesDisjoint DEF AfterOperands, Rest
    <2>3. CASE op \in Index3
      BY <2>3, <1>5, ShapeReads, ShapeWidths, ShapesDisjoint DEF AfterOperands, Rest
    <2> QED BY <2>1, <2>2, <2>3
  <1>6. op \notin CallOps /\ op # "CLOSURE"
    BY ShapesDisjoint DEF Rest
  <1>7. ASSUME ip = s PROVE ~ReadsOutside(op)
    BY <1>0, <1>1, <1>4, <1>5, <1>6, <1>7 DEF ReadsOutside, CountOutside
  <1>8. TableSize[IndexTable(op)] \in Nat
    BY TableSizeAssumption DEF IndexTable, Tables
  <1>9. ASSUME ip = s, Captured PROVE ~FailsTableCheck(op)
    <2>1. IndexRead(op) \in Nat /\ IndexRead(op) < TableSize[IndexTable(op)]
      BY <1>9, IndexIsRead
    <2>2. op \in CaptureOps => IndexTable(op) = "captures"
      BY CapturesTable
    <2>3. ~(IndexRead(op) >= TableSize[IndexTable(op)])
      BY <1>8, <2>1
    <2>4. ~(op \in CaptureOps /\ IndexRead(op) >= frameCaptures)
      BY <2>2, <2>3, <1>9 DEF Captured
    <2> QED BY <1>6, <2>3, <2>4 DEF FailsTableCheck
  <1> QED
    BY <1>1, <1>3, <1>4, <1>5, <1>7, <1>9 DEF Agree

\* The count of a literal's elements.
LEMMA SequenceAgrees ==
    ASSUME CodeOK, NEW s \in Nat, s < Len(code), ip \in Nat,
           NEW op \in Opcode, op \in SequenceOps, OperandsOk(op, s + 1)
    PROVE  Agree(op, s)
  <1>0. Len(code) \in Nat
    BY DEF CodeOK
  <1>1. IndexWidth(op) = 0 /\ op \notin ReadsByte \ SequenceOps /\ op \notin ReadsU24
        /\ op \notin ReadsU16 \ {"JUMP"}
    BY ShapeWidths, ShapeReads, ShapesDisjoint DEF Rest
  <1>2. OperandBytes(op, s + 1) = 1
    BY <1>1, ShapesDisjoint DEF OperandBytes, Rest
  <1>3. s + 1 + 1 <= Len(code)
    BY <1>0, <1>1, ShapesDisjoint DEF OperandsOk, Available, Rest
  <1>4. ASSUME ip = s PROVE AfterOperands(op) = s + 1 + 1
    BY <1>1, <1>4, ShapeReads, ShapesDisjoint DEF AfterOperands, Rest
  <1>5. op \notin CallOps /\ op # "CLOSURE"
    BY ShapesDisjoint DEF Rest
  <1>6. ASSUME ip = s PROVE ~ReadsOutside(op)
    BY <1>0, <1>3, <1>4, <1>5, <1>6 DEF ReadsOutside, CountOutside
  <1>7. ~FailsTableCheck(op)
    BY <1>1, <1>5, CapturesAreRead, ShapesDisjoint DEF FailsTableCheck, Rest
  <1> QED
    BY <1>2, <1>3, <1>4, <1>6, <1>7 DEF Agree

\* A range of local slots.
LEMMA ClearLocalsAgrees ==
    ASSUME CodeOK, NEW s \in Nat, s < Len(code), ip \in Nat,
           NEW op \in Opcode, op = "CLEAR_LOCALS", OperandsOk(op, s + 1)
    PROVE  Agree(op, s)
  <1>0. Len(code) \in Nat
    BY DEF CodeOK
  <1>1. IndexWidth(op) = 0 /\ op \notin ReadsByte \ SequenceOps /\ op \notin ReadsU24
        /\ op \notin ReadsU16 \ {"JUMP"}
    BY ShapeWidths, ShapeReads, ShapesDisjoint DEF Rest
  <1>2. OperandBytes(op, s + 1) = 2
    BY <1>1, ShapesDisjoint DEF OperandBytes, Rest
  <1>3. s + 1 + 2 <= Len(code)
    BY <1>0, <1>1, ShapesDisjoint DEF OperandsOk, LocalRangeOk, Available, Rest
  <1>4. ASSUME ip = s PROVE AfterOperands(op) = s + 1 + 2
    BY <1>1, <1>4, ShapeReads, ShapesDisjoint DEF AfterOperands, Rest
  <1>5. op \notin CallOps /\ op # "CLOSURE"
    BY ShapesDisjoint DEF Rest
  <1>6. ASSUME ip = s PROVE ~ReadsOutside(op)
    BY <1>0, <1>3, <1>4, <1>5, <1>6 DEF ReadsOutside, CountOutside
  <1>7. ~FailsTableCheck(op)
    BY <1>1, <1>5, CapturesAreRead, ShapesDisjoint DEF FailsTableCheck, Rest
  <1> QED
    BY <1>2, <1>3, <1>4, <1>6, <1>7 DEF Agree

\* A target of two bytes.
LEMMA JumpAgrees ==
    ASSUME CodeOK, NEW s \in Nat, s < Len(code), ip \in Nat,
           NEW op \in Opcode, op = "JUMP", OperandsOk(op, s + 1)
    PROVE  Agree(op, s)
  <1>0. Len(code) \in Nat
    BY DEF CodeOK
  <1>1. IndexWidth(op) = 0 /\ op \notin ReadsByte \ SequenceOps /\ op \notin ReadsU24
        /\ op \notin ReadsU16 \ {"JUMP"}
    BY ShapeWidths, ShapeReads, ShapesDisjoint DEF Rest
  <1>2. OperandBytes(op, s + 1) = 2
    BY <1>1, ShapesDisjoint DEF OperandBytes, Rest
  <1>3. s + 1 + 2 <= Len(code)
    BY <1>0, <1>1, ShapesDisjoint DEF OperandsOk, Available, Rest
  <1>4. ASSUME ip = s PROVE AfterOperands(op) = s + 1 + 2
    BY <1>1, <1>4, ShapeReads, ShapesDisjoint DEF AfterOperands, Rest
  <1>5. op \notin CallOps /\ op # "CLOSURE"
    BY ShapesDisjoint DEF Rest
  <1>6. ASSUME ip = s PROVE ~ReadsOutside(op)
    BY <1>0, <1>3, <1>4, <1>5, <1>6 DEF ReadsOutside, CountOutside
  <1>7. ~FailsTableCheck(op)
    BY <1>1, <1>5, CapturesAreRead, ShapesDisjoint DEF FailsTableCheck, Rest
  <1> QED
    BY <1>2, <1>3, <1>4, <1>6, <1>7 DEF Agree

\* Two targets of two bytes each.
LEMMA BranchAgrees ==
    ASSUME CodeOK, NEW s \in Nat, s < Len(code), ip \in Nat,
           NEW op \in Opcode, op = "JUMP_IF_FALSE", OperandsOk(op, s + 1)
    PROVE  Agree(op, s)
  <1>0. Len(code) \in Nat
    BY DEF CodeOK
  <1>1. IndexWidth(op) = 0 /\ op \notin ReadsByte \ SequenceOps /\ op \notin ReadsU24
        /\ op \notin ReadsU16 \ {"JUMP"}
    BY ShapeWidths, ShapeReads, ShapesDisjoint DEF Rest
  <1>2. OperandBytes(op, s + 1) = 4
    BY <1>1, ShapesDisjoint DEF OperandBytes, Rest
  <1>3. s + 1 + 4 <= Len(code)
    BY <1>0, <1>1, ShapesDisjoint DEF OperandsOk, Available, Rest
  <1>4. ASSUME ip = s PROVE AfterOperands(op) = s + 1 + 4
    BY <1>1, <1>4, ShapeReads, ShapesDisjoint DEF AfterOperands, Rest
  <1>5. op \notin CallOps /\ op # "CLOSURE"
    BY ShapesDisjoint DEF Rest
  <1>6. ASSUME ip = s PROVE ~ReadsOutside(op)
    BY <1>0, <1>3, <1>4, <1>5, <1>6 DEF ReadsOutside, CountOutside
  <1>7. ~FailsTableCheck(op)
    BY <1>1, <1>5, CapturesAreRead, ShapesDisjoint DEF FailsTableCheck, Rest
  <1> QED
    BY <1>2, <1>3, <1>4, <1>6, <1>7 DEF Agree

\* No operand.
LEMMA PlainAgrees ==
    ASSUME CodeOK, NEW s \in Nat, s < Len(code), ip \in Nat,
           NEW op \in Opcode, op \in NoOperand, OperandsOk(op, s + 1)
    PROVE  Agree(op, s)
  <1>0. Len(code) \in Nat
    BY DEF CodeOK
  <1>1. IndexWidth(op) = 0 /\ op \notin ReadsByte \ SequenceOps /\ op \notin ReadsU24
        /\ op \notin ReadsU16 \ {"JUMP"}
    BY ShapeWidths, ShapeReads, ShapesDisjoint DEF Rest
  <1>2. OperandBytes(op, s + 1) = 0
    BY <1>1, ShapesDisjoint DEF OperandBytes, Rest
  <1>3. s + 1 + 0 <= Len(code)
    BY <1>0, <1>1, ShapesDisjoint DEF OperandsOk, Available, Rest
  <1>4. ASSUME ip = s PROVE AfterOperands(op) = s + 1 + 0
    BY <1>1, <1>4, ShapeReads, ShapesDisjoint DEF AfterOperands, Rest
  <1>5. op \notin CallOps /\ op # "CLOSURE"
    BY ShapesDisjoint DEF Rest
  <1>6. ASSUME ip = s PROVE ~ReadsOutside(op)
    BY <1>0, <1>3, <1>4, <1>5, <1>6 DEF ReadsOutside, CountOutside
  <1>7. ~FailsTableCheck(op)
    BY <1>1, <1>5, CapturesAreRead, ShapesDisjoint DEF FailsTableCheck, Rest
  <1> QED
    BY <1>2, <1>3, <1>4, <1>6, <1>7 DEF Agree

\* A function, a number of captures, and two bytes for each.
LEMMA ClosureAgrees ==
    ASSUME CodeOK, NEW s \in Nat, s < Len(code), ip \in Nat,
           NEW op \in Opcode, op = "CLOSURE", OperandsOk(op, s + 1)
    PROVE  Agree(op, s)
  <1> DEFINE captures == Byte(code, s + 3)
  <1>0. Len(code) \in Nat
    BY DEF CodeOK
  <1>1. /\ IndexWidth(op) = 0 /\ op \notin ReadsByte /\ op \notin ReadsU16 /\ op \notin ReadsU24
        /\ op \notin SequenceOps /\ op \notin CallOps
    BY ShapeWidths, ShapeReads, ShapesDisjoint DEF Rest
  <1>2. ClosureOk(s + 1)
    BY <1>1 DEF OperandsOk
  <1>3. U16(code, s + 1) < TableSize["functions"] /\ s + 3 < Len(code)
    BY <1>0, <1>2 DEF ClosureOk, IndexOk, Available, Operand
  <1>4. captures \in Nat
    BY <1>0, <1>3, ByteInNat
  <1>5. s + 4 + captures * 2 <= Len(code)
    BY <1>0, <1>2, <1>4 DEF ClosureOk, Available
  <1>6. OperandBytes(op, s + 1) = 3 + captures * 2
    BY <1>1 DEF OperandBytes
  <1>7. ASSUME ip = s PROVE AfterOperands(op) = s + 1 + (3 + captures * 2)
    BY <1>1, <1>4, <1>7 DEF AfterOperands
  <1>8. ASSUME ip = s PROVE ~ReadsOutside(op)
    BY <1>0, <1>1, <1>3, <1>4, <1>5, <1>7, <1>8 DEF ReadsOutside, CountOutside
  <1>9. ASSUME ip = s PROVE ~FailsTableCheck(op)
    <2>1. Byte(code, s + 1) \in Nat /\ Byte(code, s + 2) \in Nat
      BY <1>0, <1>3, ByteInNat
    <2>2. U16(code, s + 1) \in Nat
      BY <2>1, BaseAssumption DEF U16
    <2>3. TableSize["functions"] \in Nat
      BY TableSizeAssumption DEF Tables
    <2>4. op \notin CaptureOps
      BY DEF CaptureOps
    <2> QED BY <2>2, <2>3, <2>4, <1>1, <1>3, <1>9 DEF FailsTableCheck
  <1> HIDE DEF captures
  <1> QED
    BY <1>0, <1>4, <1>5, <1>6, <1>7, <1>8, <1>9 DEF Agree

\* A callee, an arity, and two bytes for each argument.
LEMMA CallAgrees ==
    ASSUME CodeOK, NEW s \in Nat, s < Len(code), ip \in Nat,
           NEW op \in Opcode, op \in CallOps, OperandsOk(op, s + 1)
    PROVE  Agree(op, s)
  <1> DEFINE w     == CalleeWidth(op)
             arity == Byte(code, s + 1 + w)
  <1>0. Len(code) \in Nat
    BY DEF CodeOK
  <1>1. /\ IndexWidth(op) = 0 /\ op \notin ReadsByte /\ op \notin ReadsU16 /\ op \notin ReadsU24
        /\ op \notin SequenceOps /\ op \notin Rest
    BY ShapeWidths, ShapeReads, ShapesDisjoint DEF Rest
  <1>2. w \in {0, 1, 3} /\ ReadsCallee(op) = w /\ (w = 0 <=> op = "CALL")
    BY CalleeWidths
  <1>3. CallOk(op, s + 1)
    BY <1>1 DEF OperandsOk, Rest
  <1>4. s + 1 + w < Len(code)
    BY <1>0, <1>2, <1>3 DEF CallOk, Available
  <1>5. arity \in Nat
    BY <1>0, <1>2, <1>4, ByteInNat
  <1>6. s + 1 + w + 1 + 2 * arity <= Len(code)
    <2>1. CASE arity = 0
      BY <2>1, <1>0, <1>2, <1>4
    <2>2. CASE arity # 0
      <3>1. arity - 1 \in 0..arity - 1
        BY <2>2, <1>5
      <3>2. IndexOk(s + 1 + w + 1 + 2 * (arity - 1), 2, TableSize["argument_names"] + 1)
        BY <3>1, <1>3 DEF CallOk
      <3>3. s + 1 + w + 1 + 2 * (arity - 1) + 2 <= Len(code)
        BY <3>2 DEF IndexOk, Available
      <3> HIDE DEF arity, w
      <3> QED BY <3>3, <1>0, <1>2, <1>5
    <2> QED BY <2>1, <2>2
  <1>7. OperandBytes(op, s + 1) = w + 1 + 2 * arity
    BY <1>1 DEF OperandBytes, Rest
  <1>8. ASSUME ip = s PROVE AfterOperands(op) = s + 1 + (w + 1 + 2 * arity)
    BY <1>1, <1>2, <1>5, <1>8 DEF AfterOperands, Rest
  <1>9. ASSUME ip = s PROVE ~ReadsOutside(op)
    <2>1. op # "CLOSURE"
      BY <1>1 DEF Rest
    <2> HIDE DEF arity, w
    <2> QED BY <2>1, <1>0, <1>2, <1>4, <1>5, <1>6, <1>8, <1>9 DEF ReadsOutside, CountOutside
  <1>10. ASSUME ip = s, op # "CALL" PROVE
            ~((IF ReadsCallee(op) = 1 THEN Byte(code, ip + 1) ELSE U24(code, ip + 1))
               >= TableSize[CalleeTable(op)])
    <2>1. IndexOk(s + 1, w, TableSize[CalleeTable(op)])
      BY <1>2, <1>3, <1>10 DEF CallOk
    <2>2. TableSize[CalleeTable(op)] \in Nat
      BY TableSizeAssumption DEF CalleeTable, Tables
    <2>3. CASE w = 1
      <3>1. Byte(code, s + 1) \in Nat /\ Byte(code, s + 1) < TableSize[CalleeTable(op)]
        BY <2>1, <2>3, <1>0, ByteInNat DEF IndexOk, Operand, Available
      <3> QED BY <3>1, <2>2, <2>3, <1>2, <1>10
    <2>4. CASE w = 3
      <3>1. Byte(code, s + 1) \in Nat /\ Byte(code, s + 2) \in Nat /\ Byte(code, s + 3) \in Nat
        BY <2>1, <2>4, <1>0, ByteInNat DEF IndexOk, Available
      <3>2. U24(code, s + 1) \in Nat
        <4>1. s \in Nat /\ s + 1 + 1 = s + 2 /\ s + 1 + 2 = s + 3
          BY <1>0
        <4> QED BY <3>1, <4>1, U24InNat
      <3>3. U24(code, s + 1) < TableSize[CalleeTable(op)]
        BY <2>1, <2>4 DEF IndexOk, Operand
      <3> QED BY <3>2, <3>3, <2>2, <2>4, <1>2, <1>10
    <2> QED BY <2>3, <2>4, <1>2, <1>10
  <1>11. ASSUME ip = s PROVE ~FailsTableCheck(op)
    BY <1>1, <1>10, <1>11, CapturesAreRead, ShapesDisjoint DEF FailsTableCheck, Rest
  <1> HIDE DEF arity, w
  <1> QED
    BY <1>0, <1>2, <1>5, <1>6, <1>7, <1>8, <1>9, <1>11 DEF Agree

\* The two switches agree on every opcode whose operands the verifier passed.
LEMMA SwitchesAgree ==
    ASSUME CodeOK, NEW s \in Nat, s < Len(code), ip \in Nat,
           NEW op \in Opcode, OperandsOk(op, s + 1)
    PROVE  Agree(op, s)
  BY Shapes, IndexAgrees, SequenceAgrees, ClearLocalsAgrees, JumpAgrees, BranchAgrees,
     PlainAgrees, ClosureAgrees, CallAgrees

\* The targets the verifier noted are those the interpreter takes.
LEMMA TargetsAgree ==
    ASSUME CodeOK, NEW s \in Nat, s < Len(code), ip = s,
           NEW op \in Opcode, OperandsOk(op, s + 1)
    PROVE  /\ op \in {"JUMP", "JUMP_IF_FALSE"} => Targets(op) = JumpTargets(op, s + 1)
           /\ op \notin {"JUMP", "JUMP_IF_FALSE"} => Targets(op) = {s + 1 + OperandBytes(op, s + 1)}
  <1>1. Agree(op, s)
    BY SwitchesAgree
  <1>2. s + 1 + 2 = s + 3
    OBVIOUS
  <1> QED
    BY <1>1, <1>2 DEF Agree, Targets, JumpTargets

\* A target is an offset.
LEMMA JumpTargetsInNat ==
    ASSUME CodeOK, NEW s \in Nat, s < Len(code), NEW op \in Opcode, OperandsOk(op, s + 1)
    PROVE  JumpTargets(op, s + 1) \subseteq Nat
  <1>0. Len(code) \in Nat
    BY DEF CodeOK
  <1>1. CASE op = "JUMP"
    <2>1. s + 3 <= Len(code)
      BY <1>0, <1>1, ShapesDisjoint, ShapeWidths DEF OperandsOk, Available, Rest
    <2>2. Byte(code, s + 1) \in Nat /\ Byte(code, s + 2) \in Nat
      BY <1>0, <2>1, ByteInNat
    <2>3. U16(code, s + 1) \in Nat
      BY <2>2, BaseAssumption DEF U16
    <2> QED BY <2>3, <1>1 DEF JumpTargets
  <1>2. CASE op = "JUMP_IF_FALSE"
    <2>1. s + 5 <= Len(code)
      BY <1>0, <1>2, ShapesDisjoint, ShapeWidths DEF OperandsOk, Available, Rest
    <2>2. /\ Byte(code, s + 1) \in Nat /\ Byte(code, s + 2) \in Nat
          /\ Byte(code, s + 3) \in Nat /\ Byte(code, s + 4) \in Nat
      BY <1>0, <2>1, ByteInNat
    <2>3. U16(code, s + 1) \in Nat /\ U16(code, s + 3) \in Nat
      <3>1. s + 1 + 1 = s + 2 /\ s + 3 + 1 = s + 4
        BY <1>0
      <3> QED BY <2>2, <3>1, U16InNat
    <2> QED BY <2>3, <1>2 DEF JumpTargets
  <1>3. CASE op \notin {"JUMP", "JUMP_IF_FALSE"}
    BY <1>3 DEF JumpTargets
  <1> QED BY <1>1, <1>2, <1>3

\* A byte that names an opcode names one of Opcode.
LEMMA OpcodeInRange ==
    ASSUME CodeOK, NEW s \in Nat, s < Len(code), IsOpcode(Byte(code, s))
    PROVE  OpcodeAt(code, s) \in Opcode
  <1>1. Byte(code, s) \in Nat
    BY ByteInNat
  <1> QED
    BY <1>1, EncodingAssumption DEF OpcodeAt, IsOpcode

-----------------------------------------------------------------------------
(* The inductive invariant.                                                *)

Op(s)  == OpcodeAt(code, s)
End(s) == s + 1 + OperandBytes(Op(s), s + 1)

\* What the walk has established of an instruction it has passed.
Passed(s) ==
    /\ s \in Nat /\ s < Len(code)
    /\ IsOpcode(Byte(code, s)) /\ OperandsOk(Op(s), s + 1)
    /\ JumpTargets(Op(s), s + 1) \subseteq jumps
    /\ End(s) <= offset
    /\ End(s) \in starts \/ (End(s) = offset /\ last = Op(s))

Walked == /\ offset \in Nat /\ offset <= Len(code)
          /\ last \in Opcode /\ jumps \subseteq Nat
          /\ offset = 0 \/ 0 \in starts
          /\ \A s \in starts : Passed(s)

Judged == /\ verdict \in {"walking", "accepted", "refused"}
          /\ verdict = "accepted" => code # <<>> /\ WalkIsSound

\* How a frame on accepted code may be.
Endings == {"returned", "raised", "fell_off", "bad_name", "bad_source", "bad_type"}

Placed == /\ run \in {"idle", "running", "wrong_captures"} \cup Endings
          /\ ip \in 0..Len(code)
          /\ frameCaptures \in Nat
          /\ run \in {"running"} \cup Endings => Captured
          /\ run # "idle" => /\ verdict = "accepted"
                             /\ ip \in starts \/ (ip = Len(code) /\ last = "PROPAGATE")

IInv == CodeOK /\ Walked /\ Judged /\ Placed

\* A walk that has not begun has passed no instruction.
LEMMA WalkBegins ==
    ASSUME CodeOK, InitWalk
    PROVE  IInv
  <1>1. Len(code) \in Nat
    BY DEF CodeOK
  <1>2. Walked
    BY <1>1 DEF InitWalk, Walked, Opcode
  <1>3. Judged /\ Placed
    BY <1>1 DEF InitWalk, Judged, Placed, Endings
  <1> QED
    BY <1>2, <1>3 DEF IInv

\* The initial states satisfy it: the codes are bytes.
LEMMA InitHolds == Init => IInv
  <1> SUFFICES ASSUME Init PROVE IInv
    OBVIOUS
  <1>1. PICK shape \in CodeShapes : code \in [1..shape.length -> shape.bytes]
    BY DEF Init
  <1>2. shape.length \in Nat /\ \A b \in shape.bytes : b \in Nat /\ IsByte(b)
    BY CodeShapesAssumption DEF IsByte
  <1>3. code \in Seq(Nat) /\ Len(code) = shape.length
    BY <1>1, <1>2
  <1>4. CodeOK
    BY <1>1, <1>2, <1>3 DEF CodeOK
  <1> QED
    BY <1>4, WalkBegins DEF Init

\* One turn of the walk passes one more instruction.
LEMMA StepHolds ==
    ASSUME IInv, Step
    PROVE  IInv'
  <1> DEFINE op == OpcodeAt(code, offset)
  <1>0. Len(code) \in Nat /\ offset \in Nat /\ offset < Len(code) /\ code' = code
    BY DEF IInv, CodeOK, Walked, Step
  <1>1. IsOpcode(Byte(code, offset)) /\ op \in Opcode /\ OperandsOk(op, offset + 1)
    BY <1>0, OpcodeInRange DEF IInv, Step
  <1>2. OperandBytes(op, offset + 1) \in Nat /\ offset + 1 + OperandBytes(op, offset + 1) <= Len(code)
    BY <1>0, <1>1, SwitchesAgree DEF IInv, Agree, Placed
  <1>3. /\ offset' = End(offset) /\ starts' = starts \cup {offset} /\ last' = op
        /\ jumps' = jumps \cup JumpTargets(op, offset + 1)
    BY DEF Step, End, Op
  <1>4. End(offset) \in Nat /\ End(offset) <= Len(code) /\ offset < End(offset)
    BY <1>0, <1>2 DEF End, Op
  <1>5. \A s : End(s)' = End(s) /\ Op(s)' = Op(s) /\ (OperandsOk(Op(s), s + 1))' = OperandsOk(Op(s), s + 1)
    BY <1>0 DEF End, Op, OpcodeAt, OperandBytes, OperandsOk, IndexOk, Available, Operand, LocalRangeOk,
                ClosureOk, CallOk
  <1>6. \A s : JumpTargets(Op(s), s + 1)' = JumpTargets(Op(s), s + 1)
    BY <1>0, <1>5 DEF JumpTargets
  <1>7. ASSUME NEW s \in starts' PROVE Passed(s)'
    <2>1. CASE s = offset
      BY <2>1, <1>0, <1>1, <1>3, <1>4, <1>5, <1>6 DEF Passed, Op
    <2>2. CASE s \in starts
      <3>1. Passed(s)
        BY <2>2 DEF IInv, Walked
      <3>2. End(s) \in Nat
        BY <3>1, <1>0, SwitchesAgree, OpcodeInRange DEF IInv, Placed, Agree, Passed, End, Op
      <3> QED BY <3>1, <3>2, <1>0, <1>3, <1>4, <1>5, <1>6 DEF Passed
    <2> QED BY <2>1, <2>2, <1>3
  <1>8. jumps' \subseteq Nat
    BY <1>0, <1>1, <1>3, JumpTargetsInNat DEF IInv, Walked
  <1>9. Walked'
    BY <1>0, <1>1, <1>3, <1>4, <1>7, <1>8 DEF IInv, Walked
  <1>10. CodeOK' /\ Judged' /\ Placed'
    BY <1>0 DEF IInv, CodeOK, Judged, Placed, Captured, Step
  <1> QED
    BY <1>9, <1>10 DEF IInv

\* What only reads the code and the walk leaves what they establish.
LEMMA WalkKept ==
    ASSUME IInv, UNCHANGED <<code, offset, starts, jumps, last>>
    PROVE  CodeOK' /\ Walked'
  BY DEF IInv, CodeOK, Walked, Passed, Op, End, OpcodeAt, OperandBytes, OperandsOk, IndexOk, Available,
         Operand, LocalRangeOk, ClosureOk, CallOk, JumpTargets

\* Judging the walk writes nothing but the verdict.
LEMMA VerdictHolds ==
    ASSUME IInv, VerifyEmpty \/ StepRefused \/ FinishWalk
    PROVE  IInv'
  <1>1. UNCHANGED <<code, offset, starts, jumps, last, ip, run, frameCaptures>>
    BY DEF VerifyEmpty, StepRefused, FinishWalk, Refuse
  <1>2. verdict = "walking" /\ run = "idle"
    BY DEF IInv, Placed, VerifyEmpty, StepRefused, FinishWalk
  <1>3. verdict' = "refused" \/ (verdict' = "accepted" /\ code # <<>> /\ WalkIsSound)
    BY DEF VerifyEmpty, StepRefused, FinishWalk, Refuse
  <1>4. Judged'
    BY <1>1, <1>3 DEF Judged, WalkIsSound
  <1>5. Placed'
    BY <1>1, <1>2 DEF IInv, Placed, Endings
  <1> QED
    BY <1>1, <1>4, <1>5, WalkKept DEF IInv

\* Where a frame is, an instruction the walk passed is read as it was walked.
LEMMA AtInstruction ==
    ASSUME IInv, NEW op, Executing(op), op \in Opcode \cup {"unknown"}
    PROVE  /\ verdict = "accepted" /\ ip \in starts /\ Passed(ip)
           /\ op = Op(ip) /\ op \in Opcode /\ Agree(op, ip) /\ Captured
  <1>0. Len(code) \in Nat /\ ip \in Nat /\ ip < Len(code) /\ op = Op(ip) /\ run = "running"
    BY DEF IInv, CodeOK, Placed, Executing, Op
  <1>1. verdict = "accepted" /\ ip \in starts
    BY <1>0 DEF IInv, Placed
  <1>2. Passed(ip)
    BY <1>1 DEF IInv, Walked
  <1>3. op \in Opcode
    BY <1>0, <1>2, OpcodeInRange DEF IInv, Passed, Op
  <1>4. Captured
    BY <1>0 DEF IInv, Placed
  <1> QED
    BY <1>0, <1>1, <1>2, <1>3, <1>4, SwitchesAgree DEF IInv, Passed

\* In accepted code only what the verifier does not read can be missing: an
\* argument name, the source of a capture, the type of an annotation.
LEMMA OutcomeIsFine ==
    ASSUME IInv, NEW op, Executing(op), op \in Opcode \cup {"unknown"}
    PROVE  Outcome(op) \in {"passes", "bad_name", "bad_source", "bad_type"}
  BY AtInstruction DEF Agree, Outcome

\* Control goes from an instruction the walk passed to another one, or past a
\* final PROPAGATE.
LEMMA AdvanceHolds ==
    ASSUME IInv, Advance
    PROVE  IInv'
  <1>1. PICK op \in (Opcode \ {"RETURN", "MATCH_ERROR"}) \cup {"unknown"} :
          /\ Executing(op)
          /\ \E target \in Targets(op) :
                IF FailsTargetCheck(op, target) THEN run' = "check_failed" /\ ip' = ip
                                                ELSE run' = run /\ ip' = target
    BY DEF Advance
  <1>2. PICK target \in Targets(op) :
          IF FailsTargetCheck(op, target) THEN run' = "check_failed" /\ ip' = ip
                                          ELSE run' = run /\ ip' = target
    BY <1>1
  <1>3. UNCHANGED <<code, offset, starts, jumps, last, verdict, frameCaptures>>
    BY DEF Advance
  <1>4. /\ verdict = "accepted" /\ ip \in starts /\ Passed(ip) /\ run = "running"
        /\ op = Op(ip) /\ op \in Opcode /\ Agree(op, ip) /\ Captured /\ frameCaptures \in Nat
    BY <1>1, AtInstruction DEF Executing, IInv, Placed
  <1>5. WalkIsSound /\ Len(code) \in Nat
    BY <1>4 DEF IInv, Judged, CodeOK
  <1>6. ASSUME op \in {"JUMP", "JUMP_IF_FALSE"} PROVE Placed'
    <2>1. target \in JumpTargets(op, ip + 1)
      BY <1>2, <1>4, <1>6, TargetsAgree DEF IInv, Passed, Op
    <2>2. target \in starts
      BY <2>1, <1>4, <1>5 DEF Passed, WalkIsSound, Op
    <2>3. target \in Nat /\ target < Len(code)
      BY <2>2 DEF IInv, Walked, Passed
    <2>4. run' = run /\ ip' = target
      BY <2>3, <1>2, <1>5 DEF FailsTargetCheck
    <2>5. ip' \in 0..Len(code') /\ ip' \in starts'
      BY <2>2, <2>3, <2>4, <1>3, <1>5
    <2> QED BY <2>4, <2>5, <1>3, <1>4 DEF Placed, Captured
  <1>7. ASSUME op \notin {"JUMP", "JUMP_IF_FALSE"} PROVE Placed'
    <2>1. target = End(ip) /\ run' = run /\ ip' = target
      BY <1>2, <1>4, <1>7, TargetsAgree DEF IInv, Passed, Op, End, FailsTargetCheck
    <2>2. End(ip) \in Nat /\ End(ip) <= Len(code)
      BY <1>4, <1>5 DEF Agree, Passed, End, Op
    <2>3. End(ip) \in starts \/ (End(ip) = Len(code) /\ last = op)
      BY <1>4, <1>5 DEF Passed, WalkIsSound
    <2>4. last = op => op = "PROPAGATE"
      <3>1. op # "RETURN" /\ op # "MATCH_ERROR"
        BY <1>1
      <3> QED BY <3>1, <1>5, <1>7 DEF WalkIsSound, MayEndOn
    <2>5. ip' \in 0..Len(code') /\ (ip' \in starts' \/ (ip' = Len(code') /\ last' = "PROPAGATE"))
      BY <2>1, <2>2, <2>3, <2>4, <1>3, <1>5
    <2> QED BY <2>1, <2>5, <1>3, <1>4 DEF Placed, Captured
  <1>8. Placed'
    BY <1>6, <1>7, <1>4
  <1>9. Judged'
    BY <1>3 DEF IInv, Judged, WalkIsSound
  <1> QED
    BY <1>3, <1>8, <1>9, WalkKept DEF IInv

\* The rest of the interpreter leaves ip alone, or starts the frame.
LEMMA RunHolds ==
    ASSUME IInv, Run
    PROVE  IInv'
  <1>1. CASE Start
    <2>1. WalkIsSound /\ code # <<>> /\ Len(code) \in Nat /\ verdict = "accepted"
      BY <1>1 DEF Start, IInv, Judged, CodeOK
    <2>2. Len(code) # 0
      BY <2>1 DEF IInv, CodeOK
    <2>3. 0 \in starts
      BY <2>1, <2>2 DEF IInv, Walked, WalkIsSound
    <2>4. UNCHANGED <<code, offset, starts, jumps, last, verdict>> /\ ip' = 0
      BY <1>1 DEF Start
    <2>5. /\ run' \in {"running", "wrong_captures"} /\ frameCaptures' \in Nat
          /\ run' = "running" => frameCaptures' = TableSize["captures"]
      <3>1. frameCaptures \in Nat /\ TableSize["captures"] \in Nat
        BY TableSizeAssumption DEF IInv, Placed, Tables
      <3> QED BY <1>1, <3>1 DEF Start
    <2>6. Placed'
      BY <2>1, <2>3, <2>4, <2>5 DEF Placed, Captured, Endings
    <2>7. Judged'
      BY <2>4 DEF IInv, Judged, WalkIsSound
    <2> QED BY <2>4, <2>6, <2>7, WalkKept DEF IInv
  <1>2. CASE Advance
    BY <1>2, AdvanceHolds
  <1>3. ASSUME run' \in Endings, run = "running",
               UNCHANGED <<code, offset, starts, jumps, last, verdict, ip, frameCaptures>>
        PROVE  IInv'
    <2>1. Placed'
      BY <1>3 DEF IInv, Placed, Captured
    <2>2. Judged'
      BY <1>3 DEF IInv, Judged, WalkIsSound
    <2> QED BY <1>3, <2>1, <2>2, WalkKept DEF IInv
  <1>4. CASE FallOff
    BY <1>3, <1>4 DEF FallOff, Ends, Endings
  <1>5. CASE CheckFails
    <2>1. PICK op \in Opcode : Executing(op) /\ Outcome(op) # "passes" /\ Ends(Outcome(op))
      BY <1>5 DEF CheckFails
    <2>2. Outcome(op) \in {"bad_name", "bad_source", "bad_type"}
      BY <2>1, OutcomeIsFine
    <2> QED BY <2>1, <2>2, <1>3 DEF Ends, Executing, Endings
  <1>6. CASE Return
    BY <1>3, <1>6 DEF Return, Executing, Ends, Endings
  <1>7. CASE Raise
    BY <1>3, <1>7 DEF Raise, Executing, Ends, Endings
  <1> QED
    BY <1>1, <1>2, <1>4, <1>5, <1>6, <1>7 DEF Run

\* Every step keeps the invariant.
LEMMA NextHolds ==
    ASSUME IInv, [Next]_vars
    PROVE  IInv'
  <1>1. CASE Step
    BY <1>1, StepHolds
  <1>2. CASE VerifyEmpty \/ StepRefused \/ FinishWalk
    BY <1>2, VerdictHolds
  <1>3. CASE Run
    BY <1>3, RunHolds
  <1>4. CASE UNCHANGED vars
    <2>1. UNCHANGED <<code, offset, starts, jumps, last, verdict, ip, run, frameCaptures>>
      BY <1>4 DEF vars
    <2>2. Judged' /\ Placed'
      BY <2>1 DEF IInv, Judged, Placed, Captured, WalkIsSound
    <2> QED BY <2>1, <2>2, WalkKept DEF IInv
  <1> QED BY <1>1, <1>2, <1>3, <1>4 DEF Next, Verify

-----------------------------------------------------------------------------
\* For every code and every table, the walk and the frame keep the invariant.
THEOREM InductiveInvariant == Spec => []IInv
  <1>1. IInv /\ [Next]_vars => IInv'
    BY NextHolds
  <1> QED
    BY <1>1, InitHolds, PTL DEF Spec

\* The verifier's and the interpreter's state keep their types.
THEOREM TypeCorrect == Spec => []TypeOK
  <1>1. IInv => TypeOK
    <2> SUFFICES ASSUME IInv PROVE TypeOK
      OBVIOUS
    <2>1. DOMAIN code = 1..Len(code) /\ Len(code) \in Nat
      BY DEF IInv, CodeOK
    <2>2. starts \subseteq 0..(Len(code) - 1)
      <3>1. \A s \in starts : Passed(s)
        BY DEF IInv, Walked
      <3>2. \A s \in starts : s \in Nat /\ s < Len(code)
        BY <3>1 DEF Passed
      <3> QED BY <2>1, <3>2
    <2>3. \A i \in DOMAIN code : IsByte(code[i])
      BY <2>1 DEF IInv, CodeOK
    <2>4. offset \in 0..Len(code) /\ jumps \subseteq Nat /\ last \in Opcode
      BY <2>1 DEF IInv, Walked
    <2>5. ip \in 0..Len(code) /\ verdict \in {"walking", "accepted", "refused"}
      BY DEF IInv, Judged, Placed
    <2>6. run \in {"idle", "running", "returned", "raised", "fell_off", "read_outside",
                  "check_failed", "bad_name", "bad_source", "bad_type", "wrong_captures"}
          /\ frameCaptures \in Nat
      BY DEF IInv, Placed, Endings
    <2> QED BY <2>1, <2>2, <2>3, <2>4, <2>5, <2>6 DEF TypeOK
  <1> QED
    BY <1>1, InductiveInvariant, PTL

\* Verified code is fetched only at the instructions the walk found, or past
\* a final PROPAGATE.
THEOREM DecodedOneWay == Spec => []FetchesInstructionStarts
  <1>1. IInv => FetchesInstructionStarts
    BY DEF IInv, Placed, FetchesInstructionStarts
  <1> QED
    BY <1>1, InductiveInvariant, PTL

\* In verified code no operand is outside the code, and none of the checks
\* the interpreter repeats on an operand the verifier has checked can fail:
\* table indexes, the captures of the frame and jump targets.
THEOREM UncheckedReadsAreSafe == Spec => []NothingLeftToCheck
  <1>1. IInv => NothingLeftToCheck
    BY DEF IInv, Placed, Endings, NothingLeftToCheck
  <1> QED
    BY <1>1, InductiveInvariant, PTL
=============================================================================
