----------------------- MODULE BytecodeEmitterProofs ------------------------
(***************************************************************************)
(* The emitter and the verifier agree on every function: whatever          *)
(* well-formed function the lowering hands over, of any number of blocks,  *)
(* instructions, arguments and constants, the code that is emitted for it  *)
(* is accepted, and running it ends in none of the ways malformed code is  *)
(* refused for.                                                            *)
(*                                                                         *)
(* The bytes of each instruction, once written, are an instruction the     *)
(* verifier lets through; instructions of a block, and then blocks, follow *)
(* each other without a gap; and the second pass writes each block where   *)
(* the first one said, so that every jump leads to the first instruction   *)
(* of one.                                                                 *)
(***************************************************************************)
EXTENDS BytecodeEmitter, BytecodeVerifierProofs, FiniteSetTheorems, WellFoundedInduction

-----------------------------------------------------------------------------
(* Numbers written as bytes and read back.                                 *)

Bytes == {b \in Nat : b < Base}

\* Quotient and remainder make up the dividend.
LEMMA DivMod ==
    ASSUME NEW a \in Nat, NEW b \in Nat, b > 0
    PROVE  a \div b \in Nat /\ a % b \in Nat /\ a % b < b /\ (a \div b) * b + (a % b) = a
  <1>1. a \div b \in Nat
    OBVIOUS
  <1>2. a % b \in Nat /\ a % b < b
    OBVIOUS
  <1>3. a - b * (a \div b) = a % b
    OBVIOUS
  <1> DEFINE q == a \div b
             r == a % b
  <1> HIDE DEF q, r
  <1>4. q \in Nat /\ r \in Nat /\ a - b * q = r
    BY <1>1, <1>2, <1>3 DEF q, r
  <1>5. q * b + r = a
    <2> DEFINE product == b * q
    <2>1. product \in Nat /\ product = q * b
      BY <1>4
    <2> HIDE DEF product
    <2>2. a - product = r
      BY <1>4 DEF product
    <2>3. product + r = a
      BY <1>4, <2>1, <2>2
    <2> QED BY <2>1, <2>3
  <1> QED BY <1>1, <1>2, <1>5 DEF q, r

\* What is written is bytes.
LEMMA Narrowed ==
    ASSUME NEW value \in Nat
    PROVE  value % Base \in Bytes /\ (value \div Base) % Base \in Bytes
           /\ (value \div (Base * Base)) % Base \in Bytes
  <1>1. \A v \in Nat : v % Base \in Bytes
    BY BaseAssumption DEF Bytes
  <1>2. Base * Base \in Nat /\ Base * Base > 0
    BY BaseAssumption
  <1>3. value \div Base \in Nat /\ value \div (Base * Base) \in Nat
    BY <1>2, BaseAssumption, DivMod
  <1> QED BY <1>1, <1>3

\* A number that fits in a byte is not narrowed.
LEMMA FitsInByte ==
    ASSUME NEW value \in Nat, value < Base
    PROVE  value % Base = value
  BY BaseAssumption

\* One byte is read back as it was written.
LEMMA ReadBack8 ==
    ASSUME NEW value \in Nat, value <= U8Max
    PROVE  value % Base = value
  BY BaseAssumption, FitsInByte DEF U8Max

\* The quotient of a number below a square.
LEMMA Below ==
    ASSUME NEW value \in Nat, NEW bound \in Nat, value < bound * Base
    PROVE  value \div Base < bound
  <1> DEFINE q == value \div Base
             r == value % Base
  <1>1. q \in Nat /\ r \in Nat /\ q * Base + r = value
    BY BaseAssumption, DivMod
  <1> HIDE DEF q, r
  <1>2. ASSUME q >= bound PROVE FALSE
    <2>1. PICK d \in Nat : q = bound + d
      <3>1. q - bound \in Nat /\ q = bound + (q - bound)
        BY <1>1, <1>2
      <3> QED BY <3>1
    <2>2. q * Base = bound * Base + d * Base
      BY <2>1, BaseAssumption
    <2>3. d * Base \in Nat /\ bound * Base \in Nat
      BY BaseAssumption
    <2> QED BY <1>1, <2>2, <2>3
  <1> QED BY <1>1, <1>2 DEF q

\* Two bytes are read back as they were written.
LEMMA ReadBack16 ==
    ASSUME NEW value \in Nat, value <= U16Max
    PROVE  ((value \div Base) % Base) * Base + (value % Base) = value
  <1>1. value < Base * Base
    BY BaseAssumption DEF U16Max
  <1>2. value \div Base \in Nat /\ (value \div Base) * Base + (value % Base) = value
    BY BaseAssumption, DivMod
  <1>3. value \div Base < Base
    BY <1>1, BaseAssumption, Below
  <1>4. (value \div Base) % Base = value \div Base
    BY <1>2, <1>3, FitsInByte
  <1> QED BY <1>2, <1>4

\* Three bytes are.
LEMMA ReadBack24 ==
    ASSUME NEW value \in Nat, value <= U24Max
    PROVE  (((value \div (Base * Base)) % Base) * Base + ((value \div Base) % Base)) * Base + (value % Base) = value
  <1> DEFINE high == value \div Base
  <1>1. high \in Nat /\ high * Base + (value % Base) = value
    BY BaseAssumption, DivMod
  <1>2. value < (Base * Base) * Base
    BY BaseAssumption DEF U24Max
  <1>3. Base * Base \in Nat
    BY BaseAssumption
  <1>4. high < Base * Base
    BY <1>2, <1>3, Below
  <1>5. value \div (Base * Base) = high \div Base
    BY BaseAssumption
  <1> HIDE DEF high
  <1>6. high <= U16Max
    BY <1>1, <1>3, <1>4 DEF U16Max
  <1>7. ((high \div Base) % Base) * Base + (high % Base) = high
    BY <1>1, <1>6, ReadBack16
  <1>8. (((high \div Base) % Base) * Base + (high % Base)) * Base + (value % Base) = value
    BY <1>1, <1>7
  <1> QED BY <1>5, <1>8 DEF high

-----------------------------------------------------------------------------
(* What a write function does to the chunk, and what is known of the code  *)
(* once the chunk is all of it, or its beginning.                          *)

Chunks == [code : Seq(Bytes), constants : Nat, failed : BOOLEAN]

Prefix(bytes) == Len(code) \in Nat /\ Len(bytes) <= Len(code) /\ \A i \in 1..Len(bytes) : bytes[i] = code[i]

\* The chunk is the beginning of the code of a function that compiled.
Kept(chunk) == /\ ~chunk.failed /\ Prefix(chunk.code)
               /\ chunk.constants <= TableSize["constants"]

\* after is chunk and n more bytes.
Appends(chunk, after, n) ==
    /\ after \in Chunks
    /\ Len(after.code) = Len(chunk.code) + n
    /\ after.constants = chunk.constants
    /\ Kept(after) => Kept(chunk)

\* Two writes, one after the other.
LEMMA AppendsOn ==
    ASSUME NEW chunk \in Chunks, NEW middle, NEW after, NEW n \in Nat, NEW m \in Nat,
           Appends(chunk, middle, n), Appends(middle, after, m)
    PROVE  Appends(chunk, after, n + m)
  <1>1. Len(chunk.code) \in Nat
    BY DEF Chunks
  <1>2. Len(after.code) = Len(chunk.code) + n + m
    BY DEF Appends
  <1>3. Len(after.code) = Len(chunk.code) + (n + m)
    <2> DEFINE old == Len(chunk.code)
    <2>1. old \in Nat
      BY <1>1
    <2> HIDE DEF old
    <2>2. old + n + m = old + (n + m)
      BY <2>1
    <2> QED BY <1>2, <2>2 DEF old
  <1> QED BY <1>3 DEF Appends

\* write_byte, as often as there are bytes.
LEMMA WriteAppends ==
    ASSUME NEW chunk \in Chunks, NEW bytes \in Seq(Bytes)
    PROVE  /\ Appends(chunk, Write(chunk, bytes), Len(bytes))
           /\ Kept(Write(chunk, bytes)) =>
                 \A k \in 1..Len(bytes) : code[Len(chunk.code) + k] = bytes[k]
  <1> DEFINE old == chunk.code
             new == old \o bytes
             after == Write(chunk, bytes)
  <1>1. old \in Seq(Bytes) /\ chunk.constants \in Nat /\ chunk.failed \in BOOLEAN
    BY DEF Chunks
  <1>2. after = [chunk EXCEPT !.code = new]
    BY DEF Write
  <1>3. after.code = new /\ after.constants = chunk.constants /\ after.failed = chunk.failed
    BY <1>2 DEF Chunks
  <1>4. new \in Seq(Bytes) /\ Len(new) = Len(old) + Len(bytes) /\ Len(old) \in Nat /\ Len(bytes) \in Nat
    BY ONLY <1>1, bytes \in Seq(Bytes)
  <1>5. \A i \in 1..Len(old) : new[i] = old[i]
    BY ONLY <1>1, bytes \in Seq(Bytes)
  <1>6. \A k \in 1..Len(bytes) : new[Len(old) + k] = bytes[k] /\ Len(old) + k \in 1..Len(new)
    BY ONLY <1>1, bytes \in Seq(Bytes)
  <1>7. after \in Chunks
    BY <1>1, <1>2, <1>4 DEF Chunks
  <1> HIDE DEF old, new, after
  <1>8. ASSUME Kept(after) PROVE Kept(chunk) /\ \A k \in 1..Len(bytes) : code[Len(old) + k] = bytes[k]
    <2>1. ~after.failed /\ Len(code) \in Nat /\ Len(new) <= Len(code) /\ \A i \in 1..Len(new) : new[i] = code[i]
      BY <1>3, <1>8 DEF Kept, Prefix
    <2>2. \A i \in 1..Len(old) : i \in 1..Len(new)
      BY <1>4
    <2>3. Prefix(old)
      <3>1. Len(old) <= Len(new)
        BY <1>4
      <3>2. Len(old) <= Len(code)
        BY <2>1, <3>1, <1>4 DEF Kept, Prefix
      <3>3. \A i \in 1..Len(old) : old[i] = code[i]
        BY <1>5, <2>1, <2>2
      <3> QED BY <2>1, <3>2, <3>3 DEF Prefix
    <2>4. Kept(chunk)
      BY <2>1, <2>3, <1>3, <1>8 DEF Kept, old
    <2>5. \A k \in 1..Len(bytes) : code[Len(old) + k] = bytes[k]
      BY <1>6, <2>1
    <2> QED BY <2>4, <2>5
  <1> QED BY <1>3, <1>4, <1>7, <1>8 DEF Appends, old, after

\* What is required holds of a function that compiled.
LEMMA RequireAppends ==
    ASSUME NEW chunk \in Chunks, NEW fits \in BOOLEAN
    PROVE  /\ Require(chunk, fits) \in Chunks
           /\ Require(chunk, fits).code = chunk.code
           /\ Require(chunk, fits).constants = chunk.constants
           /\ Kept(Require(chunk, fits)) => Kept(chunk) /\ fits
  <1>1. Require(chunk, fits) \in Chunks
    BY DEF Require, Chunks
  <1>2. /\ Require(chunk, fits).code = chunk.code
        /\ Require(chunk, fits).constants = chunk.constants
        /\ Require(chunk, fits).failed = (chunk.failed \/ ~fits)
    BY DEF Require, Chunks
  <1>3. Kept(Require(chunk, fits)) => Kept(chunk) /\ fits
    BY <1>2 DEF Kept
  <1> QED BY <1>1, <1>2, <1>3

\* write_u8, write_u16 and write_u24.
LEMMA WriteU8Appends ==
    ASSUME NEW chunk \in Chunks, NEW value \in Nat
    PROVE  /\ Appends(chunk, WriteU8(chunk, value), 1)
           /\ Kept(WriteU8(chunk, value)) => value <= U8Max /\ Byte(code, Len(chunk.code)) = value
  <1> DEFINE checked == Require(chunk, value <= U8Max)
             bytes   == <<value % Base>>
             after   == WriteU8(chunk, value)
  <1>1. checked \in Chunks /\ checked.code = chunk.code /\ checked.constants = chunk.constants
        /\ (Kept(checked) => Kept(chunk) /\ value <= U8Max)
    <2>1. (value <= U8Max) \in BOOLEAN
      OBVIOUS
    <2> QED BY <2>1, RequireAppends
  <1>2. bytes \in Seq(Bytes) /\ Len(bytes) = 1 /\ bytes[1] = value % Base
    BY Narrowed
  <1>3. after = Write(checked, bytes)
    BY DEF WriteU8
  <1>4. value <= U8Max => value % Base = value
    BY ReadBack8
  <1> HIDE DEF checked, bytes, after
  <1>5. /\ Appends(checked, after, 1)
        /\ Kept(after) => \A k \in 1..1 : code[Len(checked.code) + k] = bytes[k]
    BY <1>1, <1>2, <1>3, WriteAppends
  <1>6. Appends(chunk, after, 1)
    BY <1>1, <1>5 DEF Appends
  <1>7. Kept(after) => value <= U8Max /\ code[Len(chunk.code) + 1] = value
    BY <1>1, <1>2, <1>4, <1>5 DEF Appends
  <1> QED BY <1>6, <1>7 DEF Byte, after

\* Two bytes, of an offset or an index within 65535.
LEMMA WriteU16Appends ==
    ASSUME NEW chunk \in Chunks, NEW value \in Nat
    PROVE  /\ Appends(chunk, WriteU16(chunk, value), 2)
           /\ Kept(WriteU16(chunk, value)) => value <= U16Max /\ U16(code, Len(chunk.code)) = value
  <1> DEFINE checked == Require(chunk, value <= U16Max)
             high    == (value \div Base) % Base
             low     == value % Base
             bytes   == <<high, low>>
             after   == WriteU16(chunk, value)
  <1>0. Len(chunk.code) \in Nat
    BY DEF Chunks
  <1>1. checked \in Chunks /\ checked.code = chunk.code /\ checked.constants = chunk.constants
        /\ (Kept(checked) => Kept(chunk) /\ value <= U16Max)
    <2>1. (value <= U16Max) \in BOOLEAN
      OBVIOUS
    <2> QED BY <2>1, RequireAppends
  <1>2. high \in Bytes /\ low \in Bytes
    BY Narrowed
  <1>3. after = Write(checked, bytes)
    BY DEF WriteU16
  <1>4. value <= U16Max => high * Base + low = value
    <2> SUFFICES ASSUME value <= U16Max PROVE high * Base + low = value
      OBVIOUS
    <2> QED BY ReadBack16
  <1> HIDE DEF checked, high, low, after
  <1>5. bytes \in Seq(Bytes) /\ Len(bytes) = 2 /\ bytes[1] = high /\ bytes[2] = low
    BY <1>2
  <1> HIDE DEF bytes
  <1>6. /\ Appends(checked, after, 2)
        /\ Kept(after) => \A k \in 1..2 : code[Len(checked.code) + k] = bytes[k]
    <2>1. checked \in Chunks /\ bytes \in Seq(Bytes)
      BY <1>1, <1>5
    <2>2. /\ Appends(checked, Write(checked, bytes), Len(bytes))
          /\ Kept(Write(checked, bytes)) =>
                \A k \in 1..Len(bytes) : code[Len(checked.code) + k] = bytes[k]
      BY <2>1, WriteAppends
    <2>3. Len(bytes) = 2
      BY <1>5
    <2> QED BY <1>3, <2>2, <2>3, Zenon
  <1>7. Appends(chunk, after, 2)
    BY <1>1, <1>6 DEF Appends
  <1>8. Kept(after) => code[Len(chunk.code) + 1] = high /\ code[Len(chunk.code) + 2] = low
    BY <1>1, <1>5, <1>6
  <1>9. Kept(after) => U16(code, Len(chunk.code)) = high * Base + low
    BY <1>0, <1>8 DEF U16, Byte
  <1>10. Kept(after) => value <= U16Max
    BY <1>1, <1>6 DEF Appends
  <1>11. Kept(after) => value <= U16Max /\ U16(code, Len(chunk.code)) = value
    BY <1>4, <1>9, <1>10
  <1> QED BY <1>7, <1>11 DEF after

\* Three bytes, of the long form of an index.
LEMMA WriteU24Appends ==
    ASSUME NEW chunk \in Chunks, NEW value \in Nat
    PROVE  /\ Appends(chunk, WriteU24(chunk, value), 3)
           /\ Kept(WriteU24(chunk, value)) => U24(code, Len(chunk.code)) = value
  <1> DEFINE checked == Require(chunk, value <= U24Max)
             high    == (value \div (Base * Base)) % Base
             middle  == (value \div Base) % Base
             low     == value % Base
             bytes   == <<high, middle, low>>
             after   == WriteU24(chunk, value)
  <1>0. Len(chunk.code) \in Nat
    BY DEF Chunks
  <1>1. checked \in Chunks /\ checked.code = chunk.code /\ checked.constants = chunk.constants
        /\ (Kept(checked) => Kept(chunk) /\ value <= U24Max)
    <2>1. (value <= U24Max) \in BOOLEAN
      OBVIOUS
    <2> QED BY <2>1, RequireAppends
  <1>2. high \in Bytes /\ middle \in Bytes /\ low \in Bytes
    BY Narrowed
  <1>3. after = Write(checked, bytes)
    BY DEF WriteU24
  <1>4. value <= U24Max => (high * Base + middle) * Base + low = value
    <2> SUFFICES ASSUME value <= U24Max PROVE (high * Base + middle) * Base + low = value
      OBVIOUS
    <2> QED BY ReadBack24
  <1> HIDE DEF checked, high, middle, low, after
  <1>5. bytes \in Seq(Bytes) /\ Len(bytes) = 3 /\ bytes[1] = high /\ bytes[2] = middle /\ bytes[3] = low
    BY <1>2
  <1> HIDE DEF bytes
  <1>6. /\ Appends(checked, after, 3)
        /\ Kept(after) => \A k \in 1..3 : code[Len(checked.code) + k] = bytes[k]
    <2>1. checked \in Chunks /\ bytes \in Seq(Bytes)
      BY <1>1, <1>5
    <2>2. /\ Appends(checked, Write(checked, bytes), Len(bytes))
          /\ Kept(Write(checked, bytes)) =>
                \A k \in 1..Len(bytes) : code[Len(checked.code) + k] = bytes[k]
      BY <2>1, WriteAppends
    <2>3. Len(bytes) = 3
      BY <1>5
    <2> QED BY <1>3, <2>2, <2>3, Zenon
  <1>7. Appends(chunk, after, 3)
    BY <1>1, <1>6 DEF Appends
  <1>8. Kept(after) => /\ code[Len(chunk.code) + 1] = high /\ code[Len(chunk.code) + 2] = middle
                       /\ code[Len(chunk.code) + 3] = low
    BY <1>1, <1>5, <1>6
  <1>9. Kept(after) => U24(code, Len(chunk.code)) = (high * Base + middle) * Base + low
    BY <1>0, <1>8 DEF U24, Byte
  <1>10. Kept(after) => value <= U24Max
    BY <1>1, <1>6 DEF Appends
  <1>11. Kept(after) => U24(code, Len(chunk.code)) = value
    BY <1>4, <1>9, <1>10
  <1> QED BY <1>7, <1>11 DEF after

\* The byte of an opcode names it.
LEMMA OpcodeByteNames ==
    ASSUME NEW op, Encoded(op)
    PROVE  /\ OpcodeByte(op) \in Bytes /\ OpcodeByte(op) < Len(Encoding)
           /\ Encoding[OpcodeByte(op) + 1] = op
  <1> DEFINE i == CHOOSE i \in 1..Len(Encoding) : Encoding[i] = op
  <1>1. i \in 1..Len(Encoding) /\ Encoding[i] = op
    BY DEF Encoded
  <1>2. OpcodeByte(op) = i - 1
    BY DEF OpcodeByte
  <1> HIDE DEF i
  <1>3. Len(Encoding) \in Nat /\ Len(Encoding) <= Base
    BY EncodingAssumption
  <1>4. i - 1 \in Nat /\ i - 1 < Len(Encoding) /\ i - 1 < Base /\ i - 1 + 1 = i
    BY <1>1, <1>3, BaseAssumption
  <1> QED BY <1>1, <1>2, <1>4 DEF Bytes

\* An instruction that has op as its opcode starts at the offset.
Starts(at, op) == IsOpcode(Byte(code, at)) /\ OpcodeAt(code, at) = op

\* write_opcode.
LEMMA WriteOpcodeAppends ==
    ASSUME NEW chunk \in Chunks, NEW op, Encoded(op)
    PROVE  /\ Appends(chunk, WriteOpcode(chunk, op), 1)
           /\ Kept(WriteOpcode(chunk, op)) => Starts(Len(chunk.code), op)
  <1> DEFINE byte  == OpcodeByte(op)
             bytes == <<byte>>
             after == WriteOpcode(chunk, op)
  <1>1. byte \in Bytes /\ byte < Len(Encoding) /\ Encoding[byte + 1] = op
    BY OpcodeByteNames
  <1>2. after = Write(chunk, bytes)
    BY DEF WriteOpcode
  <1> HIDE DEF byte, after
  <1>3. bytes \in Seq(Bytes) /\ Len(bytes) = 1 /\ bytes[1] = byte
    BY <1>1
  <1> HIDE DEF bytes
  <1>4. Appends(chunk, after, 1) /\ (Kept(after) => \A k \in 1..1 : code[Len(chunk.code) + k] = bytes[k])
    BY <1>2, <1>3, WriteAppends
  <1>5. Kept(after) => Byte(code, Len(chunk.code)) = byte
    BY <1>3, <1>4 DEF Byte
  <1>6. Kept(after) => Starts(Len(chunk.code), op)
    BY <1>1, <1>5 DEF Starts, IsOpcode, OpcodeAt
  <1> QED BY <1>4, <1>6 DEF after

\* The form an instruction with an index takes, and how wide its index is.
Form(op, index)  == IF index <= U8Max THEN op ELSE LongForm(op)
FormWidth(index) == IF index <= U8Max THEN 1 ELSE 3

\* write_index_ref.
LEMMA WriteIndexRefAppends ==
    ASSUME NEW chunk \in Chunks, NEW op, NEW index \in Nat, Encoded(op), Encoded(LongForm(op))
    PROVE  /\ Appends(chunk, WriteIndexRef(chunk, op, index), 1 + FormWidth(index))
           /\ Kept(WriteIndexRef(chunk, op, index)) =>
                 /\ Starts(Len(chunk.code), Form(op, index))
                 /\ Operand(Len(chunk.code) + 1, FormWidth(index)) = index
  <1> DEFINE after == WriteIndexRef(chunk, op, index)
             at    == Len(chunk.code)
  <1>0. at \in Nat
    BY DEF Chunks
  <1> HIDE DEF at
  <1>1. CASE index <= U8Max
    <2> DEFINE named == WriteOpcode(chunk, op)
    <2>1. Appends(chunk, named, 1) /\ (Kept(named) => Starts(at, op))
      BY WriteOpcodeAppends DEF at
    <2>2. after = WriteU8(named, index)
      BY <1>1 DEF WriteIndexRef
    <2> HIDE DEF named, after
    <2>3. named \in Chunks /\ Len(named.code) = at + 1
      BY <2>1 DEF Appends, at
    <2>4. Appends(named, after, 1) /\ (Kept(after) => Byte(code, at + 1) = index)
      BY <2>2, <2>3, WriteU8Appends
    <2>5. Appends(chunk, after, 2)
      BY <2>1, <2>3, <2>4, AppendsOn
    <2>6. Kept(after) => Starts(at, op) /\ Operand(at + 1, 1) = index
      BY <2>1, <2>4 DEF Appends, Operand
    <2> QED BY <1>1, <2>5, <2>6 DEF Form, FormWidth, after, at
  <1>2. CASE ~(index <= U8Max)
    <2> DEFINE long  == LongForm(op)
               named == WriteOpcode(chunk, long)
    <2>1. Appends(chunk, named, 1) /\ (Kept(named) => Starts(at, long))
      BY WriteOpcodeAppends DEF at
    <2>2. after = WriteU24(named, index)
      BY <1>2 DEF WriteIndexRef
    <2> HIDE DEF named, after
    <2>3. named \in Chunks /\ Len(named.code) = at + 1
      BY <2>1 DEF Appends, at
    <2>4. Appends(named, after, 3) /\ (Kept(after) => U24(code, at + 1) = index)
      BY <2>2, <2>3, WriteU24Appends
    <2>5. Appends(chunk, after, 4)
      BY <2>1, <2>3, <2>4, AppendsOn
    <2>6. Kept(after) => Starts(at, long) /\ Operand(at + 1, 3) = index
      BY <2>1, <2>4 DEF Appends, Operand
    <2> QED BY <1>2, <2>5, <2>6 DEF Form, FormWidth, after, at
  <1> QED BY <1>1, <1>2

\* The arity and the argument names of a call.
LEMMA WriteArgumentsAppends ==
    ASSUME NEW chunk \in Chunks, NEW args \in Seq(Nat)
    PROVE  /\ Appends(chunk, WriteArguments(chunk, args), 1 + 2 * Len(args))
           /\ Kept(WriteArguments(chunk, args)) /\ Len(args) <= U8Max =>
                 /\ Byte(code, Len(chunk.code)) = Len(args)
                 /\ \A i \in 0..Len(args) - 1 : U16(code, Len(chunk.code) + 1 + 2 * i) = args[i + 1]
  <1> DEFINE n       == Len(args)
             at      == Len(chunk.code)
             arity   == <<n % Base>>
             counted == Write(chunk, arity)
             fits    == \A i \in 1..n : args[i] <= U16Max
             checked == Require(counted, fits)
             name(k) == args[(k + 1) \div 2]
             names   == [k \in 1..(2 * n) |-> IF k % 2 = 1 THEN (name(k) \div Base) % Base ELSE name(k) % Base]
             after   == WriteArguments(chunk, args)
  <1>0. at \in Nat /\ n \in Nat /\ 2 * n \in Nat
    BY DEF Chunks
  <1>1. after = Write(checked, names)
    BY DEF WriteArguments
  <1>2. arity \in Seq(Bytes) /\ Len(arity) = 1 /\ arity[1] = n % Base
    BY <1>0, Narrowed
  <1>3. names \in Seq(Bytes) /\ Len(names) = 2 * n
    <2>1. \A k \in 1..(2 * n) : name(k) \in Nat
      <3> SUFFICES ASSUME NEW k \in 1..(2 * n) PROVE name(k) \in Nat
        OBVIOUS
      <3>1. (k + 1) \div 2 \in 1..n
        BY <1>0
      <3> QED BY <3>1
    <2> HIDE DEF name
    <2>2. \A k \in 1..(2 * n) : names[k] \in Bytes
      BY <2>1, Narrowed
    <2>3. names \in [1..(2 * n) -> Bytes]
      BY <2>2
    <2> HIDE DEF names, n
    <2> QED BY <1>0, <2>3
  <1>4. \A i \in 0..n - 1 : /\ names[2 * i + 1] = (args[i + 1] \div Base) % Base
                            /\ names[2 * i + 2] = args[i + 1] % Base
    <2> SUFFICES ASSUME NEW i \in 0..n - 1
                 PROVE  /\ names[2 * i + 1] = (args[i + 1] \div Base) % Base
                        /\ names[2 * i + 2] = args[i + 1] % Base
      OBVIOUS
    <2>1. 2 * i + 1 \in 1..(2 * n) /\ 2 * i + 2 \in 1..(2 * n)
      BY <1>0
    <2>2. (2 * i + 1 + 1) \div 2 = i + 1 /\ (2 * i + 2 + 1) \div 2 = i + 1
      BY <1>0
    <2>3. (2 * i + 1) % 2 = 1 /\ (2 * i + 2) % 2 = 0
      BY <1>0
    <2>4. names[2 * i + 1] = (name(2 * i + 1) \div Base) % Base
      BY <2>1, <2>3
    <2>5. names[2 * i + 2] = name(2 * i + 2) % Base
      BY <2>1, <2>3
    <2> QED BY <2>2, <2>4, <2>5
  <1> HIDE DEF arity, counted, checked, name, names, after
  <1>5. Appends(chunk, counted, 1) /\ (Kept(counted) => \A k \in 1..1 : code[at + k] = arity[k])
    BY <1>2, WriteAppends DEF counted
  <1>6. counted \in Chunks /\ Len(counted.code) = at + 1
    BY <1>5 DEF Appends
  <1>7. /\ checked \in Chunks /\ checked.code = counted.code /\ checked.constants = counted.constants
        /\ (Kept(checked) => Kept(counted) /\ fits)
    <2>1. fits \in BOOLEAN
      OBVIOUS
    <2> HIDE DEF fits
    <2> QED BY <1>6, <2>1, RequireAppends DEF checked
  <1>8. /\ Appends(checked, after, 2 * n)
        /\ Kept(after) => \A k \in 1..(2 * n) : code[at + 1 + k] = names[k]
    <2>1. /\ Appends(checked, after, Len(names))
          /\ Kept(after) => \A k \in 1..Len(names) : code[Len(checked.code) + k] = names[k]
      BY <1>1, <1>3, <1>7, WriteAppends
    <2>2. Len(checked.code) = at + 1
      BY <1>6, <1>7
    <2> HIDE DEF at, n
    <2> QED BY <2>1, <2>2, <1>3
  <1>9. Appends(counted, after, 2 * n)
    BY <1>7, <1>8 DEF Appends
  <1>10. Appends(chunk, after, 1 + 2 * n)
    BY <1>0, <1>5, <1>6, <1>9, AppendsOn
  <1>11. ASSUME Kept(after), n <= U8Max
         PROVE  Byte(code, at) = n
    <2>1. code[at + 1] = n % Base
      BY <1>2, <1>5, <1>9, <1>11 DEF Appends
    <2> QED BY <1>0, <1>11, <2>1, ReadBack8 DEF Byte
  <1>12. ASSUME Kept(after), NEW i \in 0..n - 1
         PROVE  U16(code, at + 1 + 2 * i) = args[i + 1]
    <2> DEFINE value == args[i + 1]
    <2>1. value \in Nat /\ value <= U16Max
      <3>1. i + 1 \in 1..n
        BY <1>0
      <3> QED BY <3>1, <1>7, <1>8, <1>12 DEF Appends
    <2>2. code[at + 1 + (2 * i + 1)] = (value \div Base) % Base /\ code[at + 1 + (2 * i + 2)] = value % Base
      <3>1. 2 * i + 1 \in 1..(2 * n) /\ 2 * i + 2 \in 1..(2 * n)
        BY <1>0
      <3> QED BY <3>1, <1>4, <1>8, <1>12
    <2> HIDE DEF value
    <2> HIDE DEF at
    <2>3. at + 1 + (2 * i + 1) = at + 1 + 2 * i + 1 /\ at + 1 + (2 * i + 2) = at + 1 + 2 * i + 1 + 1
      BY <1>0
    <2>4. U16(code, at + 1 + 2 * i) = ((value \div Base) % Base) * Base + (value % Base)
      BY <2>2, <2>3 DEF U16, Byte
    <2> QED BY <2>1, <2>4, ReadBack16 DEF value, at
  <1> QED BY <1>10, <1>11, <1>12 DEF after

\* What is written of a list of sources.
AreSources(sources) == Len(sources) \in Nat /\ \A i \in 1..Len(sources) : IsSource(sources[i])

\* The flag and the index of each source of a closure's captures.
LEMMA WriteSourcesAppends ==
    ASSUME NEW chunk \in Chunks, NEW sources, AreSources(sources)
    PROVE  /\ Appends(chunk, WriteSources(chunk, sources), 2 * Len(sources))
           /\ Kept(WriteSources(chunk, sources)) =>
                 \A i \in 0..Len(sources) - 1 :
                    /\ Byte(code, Len(chunk.code) + 2 * i) = IF sources[i + 1].fromCapture THEN 1 ELSE 0
                    /\ Byte(code, Len(chunk.code) + 2 * i + 1) = sources[i + 1].index
  <1> DEFINE n         == Len(sources)
             at        == Len(chunk.code)
             fits      == \A i \in 1..n : sources[i].index <= U8Max
             checked   == Require(chunk, fits)
             source(k) == sources[(k + 1) \div 2]
             bytes     == [k \in 1..(2 * n) |-> IF k % 2 = 0 THEN source(k).index % Base
                                                ELSE IF source(k).fromCapture THEN 1 ELSE 0]
             after     == WriteSources(chunk, sources)
  <1>0. at \in Nat /\ n \in Nat /\ 2 * n \in Nat
    BY DEF Chunks, AreSources
  <1>1. after = Write(checked, bytes)
    BY DEF WriteSources
  <1>2. bytes \in Seq(Bytes) /\ Len(bytes) = 2 * n
    <2>1. \A k \in 1..(2 * n) : source(k).index \in Nat
      <3> SUFFICES ASSUME NEW k \in 1..(2 * n) PROVE source(k).index \in Nat
        OBVIOUS
      <3>1. (k + 1) \div 2 \in 1..n
        BY <1>0
      <3> QED BY <3>1 DEF AreSources, IsSource
    <2> HIDE DEF source
    <2>2. \A k \in 1..(2 * n) : source(k).index % Base \in Bytes
      BY <2>1, Narrowed
    <2>3. 0 \in Bytes /\ 1 \in Bytes
      BY BaseAssumption DEF Bytes
    <2>4. \A k \in 1..(2 * n) : bytes[k] \in Bytes
      BY <2>2, <2>3
    <2>5. bytes \in [1..(2 * n) -> Bytes]
      BY <2>4
    <2> HIDE DEF bytes, n
    <2> QED BY <1>0, <2>5
  <1>3. \A i \in 0..n - 1 : /\ bytes[2 * i + 1] = IF sources[i + 1].fromCapture THEN 1 ELSE 0
                            /\ bytes[2 * i + 2] = sources[i + 1].index % Base
    <2> SUFFICES ASSUME NEW i \in 0..n - 1
                 PROVE  /\ bytes[2 * i + 1] = IF sources[i + 1].fromCapture THEN 1 ELSE 0
                        /\ bytes[2 * i + 2] = sources[i + 1].index % Base
      OBVIOUS
    <2>1. 2 * i + 1 \in 1..(2 * n) /\ 2 * i + 2 \in 1..(2 * n)
      BY <1>0
    <2>2. (2 * i + 1 + 1) \div 2 = i + 1 /\ (2 * i + 2 + 1) \div 2 = i + 1
      BY <1>0
    <2>3. (2 * i + 1) % 2 = 1 /\ (2 * i + 2) % 2 = 0
      BY <1>0
    <2>4. bytes[2 * i + 1] = IF source(2 * i + 1).fromCapture THEN 1 ELSE 0
      BY <2>1, <2>3
    <2>5. bytes[2 * i + 2] = source(2 * i + 2).index % Base
      BY <2>1, <2>3
    <2> QED BY <2>2, <2>4, <2>5
  <1> HIDE DEF source, bytes, after
  <1>4. /\ checked \in Chunks /\ checked.code = chunk.code /\ checked.constants = chunk.constants
        /\ (Kept(checked) => Kept(chunk) /\ fits)
    <2>1. fits \in BOOLEAN
      OBVIOUS
    <2> HIDE DEF fits
    <2> QED BY <2>1, RequireAppends
  <1> HIDE DEF checked
  <1>5. /\ Appends(checked, after, 2 * n)
        /\ Kept(after) => \A k \in 1..(2 * n) : code[at + k] = bytes[k]
    <2>1. /\ Appends(checked, after, Len(bytes))
          /\ Kept(after) => \A k \in 1..Len(bytes) : code[Len(checked.code) + k] = bytes[k]
      BY <1>1, <1>2, <1>4, WriteAppends
    <2>2. Len(checked.code) = at
      BY <1>4
    <2> HIDE DEF at, n
    <2> QED BY <2>1, <2>2, <1>2
  <1>6. Appends(chunk, after, 2 * n)
    BY <1>4, <1>5 DEF Appends
  <1>7. ASSUME Kept(after), NEW i \in 0..n - 1
        PROVE  /\ Byte(code, at + 2 * i) = IF sources[i + 1].fromCapture THEN 1 ELSE 0
               /\ Byte(code, at + 2 * i + 1) = sources[i + 1].index
    <2> DEFINE index == sources[i + 1].index
               flag  == IF sources[i + 1].fromCapture THEN 1 ELSE 0
    <2>1. index \in Nat /\ index <= U8Max
      <3>1. i + 1 \in 1..n
        BY <1>0
      <3>2. fits
        BY <1>4, <1>5, <1>7 DEF Appends
      <3> QED BY <3>1, <3>2 DEF AreSources, IsSource
    <2>2. code[at + (2 * i + 1)] = flag /\ code[at + (2 * i + 2)] = index % Base
      <3>1. 2 * i + 1 \in 1..(2 * n) /\ 2 * i + 2 \in 1..(2 * n)
        BY <1>0
      <3> QED BY <3>1, <1>3, <1>5, <1>7
    <2> HIDE DEF index, flag, at
    <2>3. at + (2 * i + 1) = at + 2 * i + 1 /\ at + (2 * i + 2) = at + 2 * i + 1 + 1
      BY <1>0
    <2>4. index % Base = index
      BY <2>1, ReadBack8
    <2>5. Byte(code, at + 2 * i) = flag /\ Byte(code, at + 2 * i + 1) = index
      BY <2>2, <2>3, <2>4 DEF Byte
    <2> QED BY <2>5 DEF flag, index
  <1> QED BY <1>6, <1>7 DEF after, at

-----------------------------------------------------------------------------
(* What one instruction comes to: an instruction the verifier lets         *)
(* through, up to where the next one starts.                               *)

\* Every argument name of a call is in its table.
NamesOk(s) ==
    Op(s) \in CallOps =>
        \A i \in 0..Byte(code, s + 1 + CalleeWidth(Op(s))) - 1 :
            /\ U16(code, s + 2 + CalleeWidth(Op(s)) + 2 * i) \in Nat
            /\ U16(code, s + 2 + CalleeWidth(Op(s)) + 2 * i) < TableSize["argument_names"]

\* Every capture of a closure is taken where there is one.
SourcesOk(s) ==
    Op(s) = "CLOSURE" =>
        \A i \in 0..Byte(code, s + 3) - 1 :
            /\ Byte(code, s + 5 + 2 * i) \in Nat
            /\ Byte(code, s + 5 + 2 * i)
                 < TableSize[IF Byte(code, s + 4 + 2 * i) # 0 THEN "captures" ELSE "locals"]

\* The entry an index leads to has what the interpreter goes on to.
EntriesOk(s) == IndexWidth(Op(s)) # 0 => EntryOk(Op(s), Operand(s + 1, IndexWidth(Op(s))))

\* What the verifier leaves to the interpreter.
LeftOk(s) == NamesOk(s) /\ SourcesOk(s) /\ EntriesOk(s)

\* The instruction at s goes up to z.
Sound(s, z) == /\ s \in Nat /\ s < z /\ z <= Len(code)
               /\ IsOpcode(Byte(code, s)) /\ OperandsOk(Op(s), s + 1) /\ LeftOk(s)
               /\ End(s) = z

\* ... and control goes on there.
Instruction(s, z) == Sound(s, z) /\ JumpTargets(Op(s), s + 1) = {}

\* Most instructions leave nothing unchecked.
LEMMA NothingLeft ==
    ASSUME NEW s, IndexWidth(Op(s)) = 0, Op(s) \notin CallOps, Op(s) # "CLOSURE"
    PROVE  LeftOk(s)
  BY DEF LeftOk, NamesOk, SourcesOk, EntriesOk

\* An operand that is one index.
LEMMA IndexIsSound ==
    ASSUME NEW s \in Nat, NEW op \in Opcode, IndexWidth(op) # 0, Starts(s, op),
           s + 1 + IndexWidth(op) <= Len(code),
           Operand(s + 1, IndexWidth(op)) < TableSize[IndexTable(op)],
           EntryOk(op, Operand(s + 1, IndexWidth(op)))
    PROVE  Instruction(s, s + 1 + IndexWidth(op))
  <1> DEFINE w == IndexWidth(op)
  <1>1. w \in 0..3 /\ (op \in Index1 \/ op \in Index2 \/ op \in Index3)
    BY ShapeWidths
  <1>2. op \notin SequenceOps /\ op \notin CallOps /\ op \notin Rest
    BY <1>1, ShapesDisjoint
  <1>3. Op(s) = op /\ IsOpcode(Byte(code, s))
    BY DEF Starts, Op
  <1>4. OperandsOk(op, s + 1)
    BY <1>2 DEF OperandsOk, IndexOk, Available, Rest
  <1>5. OperandBytes(op, s + 1) = w
    BY <1>2 DEF OperandBytes, Rest
  <1>6. JumpTargets(op, s + 1) = {} /\ LeftOk(s)
    BY <1>2, <1>3 DEF JumpTargets, LeftOk, NamesOk, SourcesOk, EntriesOk, Rest
  <1>7. s < s + 1 + w
    BY <1>1
  <1> QED BY <1>3, <1>4, <1>5, <1>6, <1>7 DEF Instruction, Sound, End

\* No operand.
LEMMA PlainIsSound ==
    ASSUME NEW s \in Nat, NEW op \in NoOperand, op \in Opcode, Starts(s, op), s + 1 <= Len(code)
    PROVE  Instruction(s, s + 1)
  <1>1. IndexWidth(op) = 0 /\ op \notin SequenceOps /\ op \notin CallOps /\ op \notin Rest
    BY ShapeWidths, ShapesDisjoint
  <1>2. Op(s) = op /\ IsOpcode(Byte(code, s))
    BY DEF Starts, Op
  <1>3. OperandsOk(op, s + 1) /\ OperandBytes(op, s + 1) = 0
    BY <1>1 DEF OperandsOk, OperandBytes, Rest
  <1>4. JumpTargets(op, s + 1) = {} /\ LeftOk(s)
    BY <1>1, <1>2, NothingLeft DEF JumpTargets, Rest
  <1> QED BY <1>2, <1>3, <1>4 DEF Instruction, Sound, End

\* A count.
LEMMA SequenceIsSound ==
    ASSUME NEW s \in Nat, NEW op \in SequenceOps, op \in Opcode, Starts(s, op), s + 2 <= Len(code)
    PROVE  Instruction(s, s + 2)
  <1>1. IndexWidth(op) = 0 /\ op \notin CallOps /\ op \notin Rest
    BY ShapeWidths, ShapesDisjoint
  <1>2. Op(s) = op /\ IsOpcode(Byte(code, s))
    BY DEF Starts, Op
  <1>3. s + 1 + 1 = s + 2 /\ s < s + 2
    OBVIOUS
  <1>4. OperandsOk(op, s + 1) /\ OperandBytes(op, s + 1) = 1
    BY <1>1, <1>3 DEF OperandsOk, OperandBytes, Available, Rest
  <1>5. JumpTargets(op, s + 1) = {} /\ LeftOk(s)
    BY <1>1, <1>2, NothingLeft DEF JumpTargets, Rest
  <1> QED BY <1>2, <1>3, <1>4, <1>5 DEF Instruction, Sound, End

\* A range of local slots.
LEMMA ClearLocalsIsSound ==
    ASSUME NEW s \in Nat, Starts(s, "CLEAR_LOCALS"), s + 3 <= Len(code),
           Byte(code, s + 1) + Byte(code, s + 2) <= TableSize["locals"]
    PROVE  Instruction(s, s + 3)
  <1> DEFINE op == "CLEAR_LOCALS"
  <1>0. op \in Opcode
    BY DEF Opcode
  <1>1. IndexWidth(op) = 0 /\ op \notin CallOps /\ op \notin SequenceOps
    BY <1>0, ShapeWidths, ShapesDisjoint DEF Rest
  <1>2. Op(s) = op /\ IsOpcode(Byte(code, s))
    BY DEF Starts, Op
  <1>3. s + 1 + 2 = s + 3 /\ s < s + 3 /\ s + 1 + 1 = s + 2
    OBVIOUS
  <1>4. OperandsOk(op, s + 1) /\ OperandBytes(op, s + 1) = 2
    BY <1>1, <1>3 DEF OperandsOk, OperandBytes, LocalRangeOk, Available
  <1>5. JumpTargets(op, s + 1) = {} /\ LeftOk(s)
    BY <1>1, <1>2, NothingLeft DEF JumpTargets
  <1> QED BY <1>2, <1>3, <1>4, <1>5 DEF Instruction, Sound, End

\* A function, and as many captures as are announced, each taken where there
\* is one.
LEMMA ClosureIsSound ==
    ASSUME NEW s \in Nat, NEW captures \in Nat, Starts(s, "CLOSURE"), Len(code) \in Nat,
           U16(code, s + 1) < TableSize["functions"], Byte(code, s + 3) = captures,
           s + 4 + 2 * captures <= Len(code), SourcesOk(s)
    PROVE  Instruction(s, s + 4 + 2 * captures)
  <1> DEFINE op == "CLOSURE"
  <1>0. op \in Opcode
    BY DEF Opcode
  <1>1. IndexWidth(op) = 0 /\ op \notin CallOps /\ op \notin SequenceOps
    BY <1>0, ShapeWidths, ShapesDisjoint DEF Rest
  <1>2. Op(s) = op /\ IsOpcode(Byte(code, s))
    BY DEF Starts, Op
  <1>3. s + 1 + 2 = s + 3 /\ s + 1 + 3 = s + 4 /\ s < s + 4 + 2 * captures /\ s + 3 + 1 = s + 4
    OBVIOUS
  <1>4. s + 3 <= Len(code) /\ s + 4 <= Len(code) /\ s + 4 + captures * 2 <= Len(code)
    OBVIOUS
  <1>5. ClosureOk(s + 1)
    BY <1>3, <1>4 DEF ClosureOk, IndexOk, Available, Operand
  <1>6. OperandsOk(op, s + 1)
    BY <1>1, <1>5 DEF OperandsOk
  <1>7. OperandBytes(op, s + 1) = 3 + captures * 2
    BY <1>1, <1>3 DEF OperandBytes
  <1>8. s + 1 + (3 + captures * 2) = s + 4 + 2 * captures
    OBVIOUS
  <1>9. JumpTargets(op, s + 1) = {} /\ LeftOk(s)
    BY <1>1, <1>2 DEF JumpTargets, LeftOk, NamesOk, EntriesOk
  <1> QED BY <1>2, <1>3, <1>6, <1>7, <1>8, <1>9 DEF Instruction, Sound, End

\* What a call to n arguments reads from s on: its callee, if it is not on the
\* stack, in w bytes, its arity and the name of each argument.
CallReads(s, op, w, n) ==
    /\ w # 0 => Operand(s + 1, w) < TableSize[CalleeTable(op)]
    /\ Byte(code, s + 1 + w) = n
    /\ \A i \in 0..n - 1 : /\ U16(code, s + 2 + w + 2 * i) \in Nat
                           /\ U16(code, s + 2 + w + 2 * i) < TableSize["argument_names"]

\* A callee, if it is not on the stack, an arity and a name for each argument.
LEMMA CallIsSound ==
    ASSUME NEW s \in Nat, NEW op \in CallOps, op \in Opcode, Starts(s, op), Len(code) \in Nat,
           NEW w, w = CalleeWidth(op), NEW n \in Nat, CallReads(s, op, w, n),
           s + 2 + w + 2 * n <= Len(code)
    PROVE  Instruction(s, s + 2 + w + 2 * n)
  <1>1. IndexWidth(op) = 0 /\ op \notin SequenceOps /\ op \notin Rest
    BY ShapeWidths, ShapesDisjoint
  <1>2. Op(s) = op /\ IsOpcode(Byte(code, s))
    BY DEF Starts, Op
  <1>3. w \in {0, 1, 3}
    BY CalleeWidths
  <1>4. s + 1 + w = s + w + 1 /\ s + 1 + w + 1 = s + 2 + w /\ s < s + 2 + w + 2 * n
        /\ s + 1 + w <= Len(code) /\ s + 1 + w + 1 <= Len(code)
    <2>1. w \in Nat
      BY <1>3
    <2>2. s + 1 + w = s + w + 1 /\ s + 1 + w + 1 = s + 2 + w
      BY <2>1
    <2>3. s < s + 2 + w + 2 * n
      BY <2>1
    <2>4. s + 1 + w <= Len(code) /\ s + 1 + w + 1 <= Len(code)
      BY <2>1
    <2> QED BY <2>2, <2>3, <2>4
  <1>5. LeftOk(s)
    <2>1. NamesOk(s)
      BY <1>2, <1>4 DEF CallReads, NamesOk
    <2>2. SourcesOk(s) /\ EntriesOk(s)
      BY <1>1, <1>2 DEF SourcesOk, EntriesOk, Rest
    <2> QED BY <2>1, <2>2 DEF LeftOk
  <1>6. \A i \in 0..n - 1 : /\ s + 1 + w + 1 + 2 * i = s + 2 + w + 2 * i
                            /\ s + 2 + w + 2 * i + 2 <= Len(code)
    <2>1. w \in Nat
      BY <1>3
    <2> DEFINE length == Len(code)
               before == s + 2 + w
    <2>2. length \in Nat /\ before \in Nat /\ before + 2 * n <= length
      BY <2>1
    <2>3. s + 1 + w + 1 = before
      BY <2>1
    <2> HIDE DEF length, before
    <2> SUFFICES ASSUME NEW i \in 0..n - 1
                 PROVE  before + 2 * i + 2 <= length
      BY <2>3 DEF length, before
    <2>4. i \in Nat /\ i + 1 <= n
      OBVIOUS
    <2> QED BY <2>2, <2>4
  <1>7. ASSUME NEW i \in 0..n - 1
        PROVE  IndexOk(s + 1 + w + 1 + 2 * i, 2, TableSize["argument_names"] + 1)
    <2>1. TableSize["argument_names"] \in Nat
      BY TableSizeAssumption DEF Tables
    <2>2. s + 1 + w + 1 + 2 * i = s + 2 + w + 2 * i /\ s + 2 + w + 2 * i + 2 <= Len(code)
      BY <1>6
    <2>3. U16(code, s + 2 + w + 2 * i) < TableSize["argument_names"] + 1
      <3>1. /\ U16(code, s + 2 + w + 2 * i) \in Nat
            /\ U16(code, s + 2 + w + 2 * i) < TableSize["argument_names"]
        BY DEF CallReads
      <3> QED BY <2>1, <3>1
    <2> QED BY <2>2, <2>3 DEF IndexOk, Available, Operand
  <1>8. CallOk(op, s + 1)
    BY <1>4, <1>7 DEF CallReads, CallOk, IndexOk, Available
  <1>9. OperandsOk(op, s + 1)
    BY <1>1, <1>8 DEF OperandsOk, Rest
  <1>10. OperandBytes(op, s + 1) = w + 1 + 2 * n
    BY <1>1, <1>4 DEF CallReads, OperandBytes, Rest
  <1>11. s + 1 + (w + 1 + 2 * n) = s + 2 + w + 2 * n
    BY <1>3
  <1>12. JumpTargets(op, s + 1) = {}
    BY <1>1 DEF JumpTargets, Rest
  <1> QED BY <1>2, <1>4, <1>5, <1>9, <1>10, <1>11, <1>12 DEF Instruction, Sound, End

-----------------------------------------------------------------------------
(* The instructions of the lowering, by what the emitter makes of them.    *)

Indexed == {"ASSERT_TYPE"} \cup GlobalOps \cup MemberOps \cup TypeOps
Callees == {"CALL_GLOBAL"} \cup MemberCallOps
Framed  == LocalOps \cup CaptureOps
Single  == {"CONSTANT", "CALL", "CLOSURE", "CLEAR_LOCALS"}

\* The long forms, and the opcodes the emitter alone writes, are none of the lowering's.
LEMMA LongFormsAreOpcodes ==
    ASSUME NEW op \in GlobalLongOps \cup MemberLongOps \cup TypeLongOps \cup MemberCallLongOps
                        \cup {"CONSTANT_LONG", "ASSERT_TYPE_LONG", "CALL_GLOBAL_LONG"}
    PROVE  \E short \in LongForms : op = LongForm(short)
  <1>1. /\ LongForm("CONSTANT") = "CONSTANT_LONG" /\ LongForm("ASSERT_TYPE") = "ASSERT_TYPE_LONG"
        /\ LongForm("CALL_GLOBAL") = "CALL_GLOBAL_LONG"
    BY DEF LongForm
  <1>2. /\ LongForm("GET_GLOBAL") = "GET_GLOBAL_LONG" /\ LongForm("SET_GLOBAL") = "SET_GLOBAL_LONG"
        /\ LongForm("INIT_GLOBAL") = "INIT_GLOBAL_LONG"
    BY DEF LongForm
  <1>3. /\ LongForm("GET_MEMBER") = "GET_MEMBER_LONG" /\ LongForm("GET_PARENT") = "GET_PARENT_LONG"
        /\ LongForm("SET_MEMBER") = "SET_MEMBER_LONG"
    BY DEF LongForm
  <1>4. /\ LongForm("CAST") = "CAST_LONG" /\ LongForm("TYPE_CHECK") = "TYPE_CHECK_LONG"
        /\ LongForm("RESULT_FAILURE_TYPE") = "RESULT_FAILURE_TYPE_LONG"
    BY DEF LongForm
  <1>5. /\ LongForm("CALL_MEMBER") = "CALL_MEMBER_LONG" /\ LongForm("CALL_PARENT") = "CALL_PARENT_LONG"
    BY DEF LongForm
  <1>6. CASE op \in {"CONSTANT_LONG", "ASSERT_TYPE_LONG", "CALL_GLOBAL_LONG"}
    BY <1>6, <1>1 DEF LongForms
  <1>7. CASE op \in GlobalLongOps
    BY <1>7, <1>2 DEF LongForms, GlobalLongOps, GlobalOps
  <1>8. CASE op \in MemberLongOps
    BY <1>8, <1>3 DEF LongForms, MemberLongOps, MemberOps
  <1>9. CASE op \in TypeLongOps
    BY <1>9, <1>4 DEF LongForms, TypeLongOps, TypeOps
  <1>10. CASE op \in MemberCallLongOps
    BY <1>10, <1>5 DEF LongForms, MemberCallLongOps, MemberCallOps
  <1> QED BY <1>6, <1>7, <1>8, <1>9, <1>10

\* What the lowering uses falls into the shapes below.
LEMMA LirShape ==
    ASSUME NEW op \in LirOps
    PROVE  /\ op \in Opcode
           /\ \/ op \in Indexed \/ op \in Callees \/ op \in Framed \/ op \in Index2
              \/ op \in SequenceOps \/ op \in Single \/ op \in NoOperand
  <1>1. op \in Opcode /\ op \notin {"JUMP", "JUMP_IF_FALSE"}
    BY DEF LirOps
  <1>2. op \notin GlobalLongOps \cup MemberLongOps \cup TypeLongOps \cup MemberCallLongOps
                  \cup {"CONSTANT_LONG", "ASSERT_TYPE_LONG", "CALL_GLOBAL_LONG"}
    BY LongFormsAreOpcodes DEF LirOps
  <1> QED BY <1>1, <1>2, Zenon DEF Opcode, Indexed, Callees, Framed, Index2, Single, NoOperand

\* No opcode is emitted two ways.
LEMMA LirShapesDisjoint ==
    ASSUME NEW op
    PROVE  /\ op \in Indexed => /\ op \notin Callees /\ op \notin Framed /\ op \notin Index2
                                /\ op \notin SequenceOps /\ op \notin Single
           /\ op \in Callees => op \notin Framed /\ op \notin Index2 /\ op \notin SequenceOps /\ op \notin Single
           /\ op \in Framed => op \notin Index2 /\ op \notin SequenceOps /\ op \notin Single
           /\ op \in Index2 => op \notin SequenceOps /\ op \notin Single
           /\ op \in SequenceOps => op \notin Single
           /\ op \in NoOperand => /\ op \notin Indexed /\ op \notin Callees /\ op \notin Framed
                                  /\ op \notin Index2 /\ op \notin SequenceOps /\ op \notin Single
  BY DEF Indexed, Callees, Framed, Index2, SequenceOps, Single, NoOperand, PlainOps, MemberCallOps,
         GlobalOps, MemberOps, TypeOps, LocalOps, CaptureOps

\* The sets the emitter's cases are written with.
LEMMA LirSets ==
    ASSUME NEW op
    PROVE  /\ op \in LongForms <=> op = "CONSTANT" \/ op \in Indexed \/ op \in Callees
           /\ op \in CallLike <=> op = "CALL" \/ op \in Callees
           /\ op \in LocalOps \cup CaptureOps <=> op \in Framed
           /\ op \in {"CLASS", "INTERFACE", "NAMESPACE"} <=> op \in Index2
  BY DEF LongForms, CallLike, Indexed, Callees, Framed, Index2

\* A long form has the same table as the short one, and three bytes to index it.
LEMMA FormOfIndex ==
    ASSUME NEW op, op = "CONSTANT" \/ op \in Indexed, NEW index
    PROVE  /\ Form(op, index) \in Opcode
           /\ IndexWidth(Form(op, index)) = FormWidth(index)
           /\ IndexTable(Form(op, index)) = IndexTable(op)
           /\ IndexWidth(op) = 1
  <1>1. op \in Opcode /\ LongForm(op) \in Opcode
    BY DEF Opcode, LongForm, Indexed, GlobalOps, MemberOps, TypeOps, GlobalLongOps, MemberLongOps, TypeLongOps
  <1>2. op \in Index1
    BY DEF Index1, Indexed
  <1>3. LongForm(op) \in Index3
    BY DEF Index3, LongForm, Indexed, GlobalOps, MemberOps, TypeOps, GlobalLongOps, MemberLongOps, TypeLongOps
  <1>4. IndexWidth(op) = 1 /\ IndexWidth(LongForm(op)) = 3
    BY <1>1, <1>2, <1>3, ShapeWidths
  <1>5. IndexTable(LongForm(op)) = IndexTable(op)
    <2>1. CASE op = "CONSTANT"
      BY <2>1 DEF LongForm, IndexTable, GlobalOps, GlobalLongOps, LocalOps, CaptureOps, MemberOps, MemberLongOps
    <2>2. CASE op = "ASSERT_TYPE"
      BY <2>2 DEF LongForm, IndexTable, GlobalOps, GlobalLongOps, LocalOps, CaptureOps, MemberOps, MemberLongOps
    <2>3. CASE op \in GlobalOps
      BY <2>3 DEF LongForm, IndexTable, GlobalOps, GlobalLongOps, LocalOps, CaptureOps, MemberOps, MemberLongOps
    <2>4. CASE op \in MemberOps
      BY <2>4 DEF LongForm, IndexTable, GlobalOps, GlobalLongOps, LocalOps, CaptureOps, MemberOps, MemberLongOps
    <2>5. CASE op \in TypeOps
      BY <2>5 DEF LongForm, IndexTable, TypeOps, GlobalOps, GlobalLongOps, LocalOps, CaptureOps, MemberOps, MemberLongOps
    <2> QED BY <2>1, <2>2, <2>3, <2>4, <2>5 DEF Indexed
  <1> QED BY <1>1, <1>4, <1>5 DEF Form, FormWidth

\* ... and of an assertion, the same annotation.
LEMMA FormOfEntry ==
    ASSUME NEW op, op = "CONSTANT" \/ op \in Indexed, NEW index, EntryOk(op, index)
    PROVE  EntryOk(Form(op, index), index)
  <1>1. CASE op = "ASSERT_TYPE"
    BY <1>1 DEF EntryOk, Form, LongForm
  <1>2. CASE op \in {"CONSTANT"} \cup GlobalOps \cup MemberOps \cup TypeOps
    <2>1. op \notin {"CLASS", "ASSERT_TYPE", "ASSERT_TYPE_LONG"}
      BY <1>2 DEF GlobalOps, MemberOps, TypeOps
    <2>2. LongForm(op) \notin {"CLASS", "ASSERT_TYPE", "ASSERT_TYPE_LONG"}
      BY <1>2 DEF LongForm, GlobalOps, MemberOps, TypeOps
    <2> QED BY <2>1, <2>2 DEF EntryOk, Form
  <1> QED BY <1>1, <1>2 DEF Indexed

\* So does the long form of a call.
LEMMA FormOfCall ==
    ASSUME NEW op \in Callees, NEW index
    PROVE  /\ Form(op, index) \in Opcode /\ Form(op, index) \in CallOps
           /\ CalleeWidth(Form(op, index)) = FormWidth(index)
           /\ CalleeTable(Form(op, index)) = CalleeTable(op)
  <1>1. op \in {"CALL_GLOBAL", "CALL_MEMBER", "CALL_PARENT"}
    BY DEF Callees, MemberCallOps
  <1>2. op \in Opcode /\ LongForm(op) \in Opcode /\ op \in CallOps /\ LongForm(op) \in CallOps
    BY <1>1 DEF Opcode, CallOps, LongForm, MemberCallOps, MemberCallLongOps
  <1>3. CalleeWidth(op) = 1 /\ CalleeWidth(LongForm(op)) = 3
    BY <1>1 DEF CalleeWidth, LongForm, MemberCallLongOps
  <1>4. CalleeTable(LongForm(op)) = CalleeTable(op)
    BY <1>1 DEF CalleeTable, LongForm
  <1> QED BY <1>2, <1>3, <1>4 DEF Form, FormWidth

-----------------------------------------------------------------------------
(* Each instruction is written in as many bytes as the layout counts.      *)

Counted(instr) == IF instr.op = "CONSTANT" THEN 1 ELSE 0

Lays(chunk, after, instr) ==
    /\ after \in Chunks /\ InstrSize(instr, chunk.constants) \in Nat
    /\ Len(after.code) = Len(chunk.code) + InstrSize(instr, chunk.constants)
    /\ after.constants = chunk.constants + Counted(instr)
    /\ Kept(after) => Kept(chunk) /\ Instruction(Len(chunk.code), Len(after.code))

\* An instruction that appends size bytes, other than a constant.
LEMMA LaysOf ==
    ASSUME NEW chunk \in Chunks, NEW after, NEW instr, NEW size \in Nat, instr.op # "CONSTANT",
           Appends(chunk, after, size), InstrSize(instr, chunk.constants) = size,
           Kept(after) => Instruction(Len(chunk.code), Len(chunk.code) + size)
    PROVE  Lays(chunk, after, instr)
  <1>1. chunk.constants \in Nat
    BY DEF Chunks
  <1>2. chunk.constants = chunk.constants + Counted(instr)
    BY <1>1 DEF Counted
  <1> QED BY <1>2 DEF Lays, Appends

\* Where a kept chunk ends is in the code.
LEMMA EndsInside ==
    ASSUME NEW chunk \in Chunks, NEW after, NEW n \in Nat, Appends(chunk, after, n), Kept(after)
    PROVE  Len(chunk.code) \in Nat /\ Len(code) \in Nat /\ Len(chunk.code) + n <= Len(code)
  BY DEF Appends, Kept, Prefix, Chunks

\* An instruction without operands is written as its opcode.
LEMMA PlainLays ==
    ASSUME NEW chunk \in Chunks, NEW instr, WellFormedInstr(instr), instr.op \in NoOperand
    PROVE  Lays(chunk, EmitInstr(chunk, instr), instr)
  <1> DEFINE op    == instr.op
             after == EmitInstr(chunk, instr)
             at    == Len(chunk.code)
  <1>1. op \in Opcode /\ Encoded(op)
    BY LirShape DEF WellFormedInstr
  <1>2. /\ op \notin Indexed /\ op \notin Callees /\ op \notin Framed /\ op \notin Index2
        /\ op \notin SequenceOps /\ op \notin Single
    BY LirShapesDisjoint
  <1>3. /\ op \notin LongForms /\ op \notin CallLike /\ op \notin LocalOps \cup CaptureOps
        /\ op \notin {"CLASS", "INTERFACE", "NAMESPACE"} /\ op # "CALL" /\ op # "CONSTANT"
        /\ op # "CLOSURE" /\ op # "CLEAR_LOCALS"
    BY <1>2, LirSets DEF Single
  <1>4. after = WriteOpcode(chunk, op)
    BY <1>2, <1>3 DEF EmitInstr
  <1>5. InstrSize(instr, chunk.constants) = 1
    BY <1>2, <1>3 DEF InstrSize
  <1> HIDE DEF op, after
  <1>6. Appends(chunk, after, 1) /\ (Kept(after) => Starts(at, op))
    BY <1>1, <1>4, WriteOpcodeAppends
  <1>7. ASSUME Kept(after) PROVE Instruction(at, at + 1)
    <2>1. at \in Nat /\ at + 1 <= Len(code)
      BY <1>6, <1>7, EndsInside
    <2> HIDE DEF at
    <2> QED BY <1>1, <1>6, <1>7, <2>1, PlainIsSound DEF op
  <1> QED BY <1>3, <1>5, <1>6, <1>7, LaysOf DEF op, after

\* An instruction with one index takes the short or the long form in both
\* passes.
LEMMA IndexedLays ==
    ASSUME NEW chunk \in Chunks, NEW instr, WellFormedInstr(instr), instr.op \in Indexed
    PROVE  Lays(chunk, EmitInstr(chunk, instr), instr)
  <1> DEFINE op    == instr.op
             index == instr.index
             form  == Form(op, index)
             w     == FormWidth(index)
             after == EmitInstr(chunk, instr)
             at    == Len(chunk.code)
  <1>1. op \notin Callees /\ op \notin Framed /\ op \notin Index2 /\ op \notin SequenceOps /\ op \notin Single
    BY LirShapesDisjoint
  <1>2. /\ op \in LongForms /\ op \notin CallLike /\ op \notin LocalOps \cup CaptureOps
        /\ op \notin {"CLASS", "INTERFACE", "NAMESPACE"} /\ op # "CALL" /\ op # "CONSTANT"
        /\ op # "CLOSURE" /\ op # "CLEAR_LOCALS"
    BY <1>1, LirSets DEF Single
  <1>3. index \in Nat /\ Encoded(op) /\ Encoded(LongForm(op))
    BY <1>2 DEF WellFormedInstr
  <1>4. /\ form \in Opcode /\ IndexWidth(form) = w /\ IndexTable(form) = IndexTable(op) /\ IndexWidth(op) = 1
    BY FormOfIndex
  <1>5. index < TableSize[IndexTable(op)] /\ EntryOk(form, index)
    <2>1. index < TableSize[IndexTable(op)] /\ EntryOk(op, index)
      BY <1>2, <1>4 DEF WellFormedInstr, InTable
    <2> QED BY <2>1, FormOfEntry
  <1>6. after = WriteIndexRef(chunk, op, index)
    BY <1>1, <1>2 DEF EmitInstr
  <1>7. InstrSize(instr, chunk.constants) = 1 + w /\ w \in {1, 3} /\ 1 + w \in Nat
    <2>1. InstrSize(instr, chunk.constants) = IF index <= U8Max THEN 2 ELSE 4
      BY <1>1, <1>2 DEF InstrSize
    <2>2. w = IF index <= U8Max THEN 1 ELSE 3
      BY DEF FormWidth
    <2> HIDE DEF w
    <2> QED BY <2>1, <2>2
  <1> HIDE DEF op, index, form, w, after
  <1>8. /\ Appends(chunk, after, 1 + w)
        /\ Kept(after) => Starts(at, form) /\ Operand(at + 1, w) = index
    BY <1>3, <1>6, WriteIndexRefAppends DEF form, w
  <1>9. ASSUME Kept(after) PROVE Instruction(at, at + (1 + w))
    <2>1. at \in Nat /\ at + (1 + w) <= Len(code)
      BY <1>7, <1>8, <1>9, EndsInside
    <2> HIDE DEF at
    <2>2. at + 1 + w = at + (1 + w) /\ w # 0
      BY <1>7, <2>1
    <2>3. /\ Starts(at, form) /\ Operand(at + 1, IndexWidth(form)) < TableSize[IndexTable(form)]
          /\ EntryOk(form, Operand(at + 1, IndexWidth(form)))
      BY <1>4, <1>5, <1>8, <1>9
    <2>4. Instruction(at, at + 1 + IndexWidth(form))
      BY <1>4, <2>1, <2>2, <2>3, IndexIsSound
    <2> QED BY <1>4, <2>2, <2>4
  <1> QED BY <1>2, <1>7, <1>8, <1>9, LaysOf DEF op, after

\* A constant goes to the next place of the pool, the one the layout counted.
LEMMA ConstantLays ==
    ASSUME NEW chunk \in Chunks, NEW instr, WellFormedInstr(instr), instr.op = "CONSTANT"
    PROVE  Lays(chunk, EmitInstr(chunk, instr), instr)
  <1> DEFINE index   == chunk.constants
             form    == Form("CONSTANT", index)
             w       == FormWidth(index)
             written == WriteIndexRef(chunk, "CONSTANT", index)
             after   == EmitInstr(chunk, instr)
             at      == Len(chunk.code)
  <1>1. "CONSTANT" \in LongForms /\ "CONSTANT" \notin CallLike
    BY LirSets, LirShapesDisjoint DEF Single
  <1>2. index \in Nat /\ Encoded("CONSTANT") /\ Encoded(LongForm("CONSTANT"))
    BY <1>1 DEF WellFormedInstr, Chunks
  <1>3. /\ form \in Opcode /\ IndexWidth(form) = w /\ IndexTable(form) = IndexTable("CONSTANT")
        /\ EntryOk(form, index)
    <2>1. EntryOk("CONSTANT", index)
      BY DEF EntryOk
    <2> QED BY <2>1, FormOfIndex, FormOfEntry
  <1>4. IndexTable("CONSTANT") = "constants" /\ TableSize["constants"] \in Nat
    BY TableSizeAssumption DEF IndexTable, Tables, GlobalOps, GlobalLongOps, LocalOps, CaptureOps, MemberOps, MemberLongOps
  <1>5. after = [written EXCEPT !.constants = @ + 1]
    BY <1>1, LirSets, LirShapesDisjoint DEF EmitInstr, Single
  <1>6. InstrSize(instr, chunk.constants) = 1 + w /\ w \in {1, 3} /\ 1 + w \in Nat
    <2>1. InstrSize(instr, chunk.constants) = IF index <= U8Max THEN 2 ELSE 4
      BY <1>1, LirSets, LirShapesDisjoint DEF InstrSize, Single
    <2>2. w = IF index <= U8Max THEN 1 ELSE 3
      BY DEF FormWidth
    <2> HIDE DEF w
    <2> QED BY <2>1, <2>2
  <1> HIDE DEF form, w, written, after, index
  <1>7. /\ Appends(chunk, written, 1 + w)
        /\ Kept(written) => Starts(at, form) /\ Operand(at + 1, w) = index
    BY <1>2, WriteIndexRefAppends DEF form, w, written
  <1>8. /\ after \in Chunks /\ after.code = written.code /\ after.failed = written.failed
        /\ after.constants = index + 1 /\ written.constants = index
    <2>1. written \in Chunks /\ written.constants = index
      BY <1>7 DEF Appends, index
    <2> QED BY <1>2, <1>5, <2>1 DEF Chunks
  <1>9. ASSUME Kept(after)
        PROVE  Kept(chunk) /\ Instruction(at, at + (1 + w))
    <2>1. Kept(written) /\ index < TableSize["constants"]
      <3>1. index + 1 <= TableSize["constants"]
        BY <1>8, <1>9 DEF Kept
      <3>2. index < TableSize["constants"] /\ index <= TableSize["constants"]
        BY <1>2, <1>4, <3>1
      <3> QED BY <1>8, <1>9, <3>2 DEF Kept
    <2>2. at \in Nat /\ at + (1 + w) <= Len(code)
      BY <1>6, <1>7, <2>1, EndsInside
    <2>3. Kept(chunk)
      BY <1>7, <2>1 DEF Appends
    <2> HIDE DEF at
    <2>4. at + 1 + w = at + (1 + w) /\ w # 0
      BY <1>6, <2>2
    <2>5. /\ Starts(at, form) /\ Operand(at + 1, IndexWidth(form)) < TableSize[IndexTable(form)]
          /\ EntryOk(form, Operand(at + 1, IndexWidth(form)))
      BY <1>3, <1>4, <1>7, <2>1
    <2>6. Instruction(at, at + 1 + IndexWidth(form))
      BY <1>3, <2>2, <2>4, <2>5, IndexIsSound
    <2> QED BY <1>3, <2>3, <2>4, <2>6
  <1>10. Len(after.code) = at + (1 + w)
    BY <1>7, <1>8 DEF Appends
  <1> QED BY <1>6, <1>8, <1>9, <1>10 DEF Lays, Counted, after, index

\* The arguments after a callee that is w bytes wide make up a call.
LEMMA ArgumentsLay ==
    ASSUME NEW chunk \in Chunks, NEW named, NEW op \in CallOps, op \in Opcode,
           NEW w, w = CalleeWidth(op), Appends(chunk, named, 1 + w), NEW args \in Seq(Nat),
           Kept(named) => Starts(Len(chunk.code), op)
                          /\ (w # 0 => Operand(Len(chunk.code) + 1, w) < TableSize[CalleeTable(op)]),
           Len(args) <= U8Max, \A i \in 1..Len(args) : args[i] < TableSize["argument_names"]
    PROVE  /\ Appends(chunk, WriteArguments(named, args), 2 + w + 2 * Len(args))
           /\ Kept(WriteArguments(named, args)) =>
                 Instruction(Len(chunk.code), Len(chunk.code) + (2 + w + 2 * Len(args)))
  <1> DEFINE at    == Len(chunk.code)
             n     == Len(args)
             after == WriteArguments(named, args)
             size  == 2 + w + 2 * n
  <1>0. n \in Nat /\ w \in {0, 1, 3} /\ at \in Nat
    BY CalleeWidths DEF Chunks
  <1>1. named \in Chunks /\ Len(named.code) = at + (1 + w)
    BY DEF Appends
  <1>2. /\ Appends(named, after, 1 + 2 * n)
        /\ Kept(after) /\ n <= U8Max =>
              /\ Byte(code, Len(named.code)) = n
              /\ \A i \in 0..n - 1 : U16(code, Len(named.code) + 1 + 2 * i) = args[i + 1]
    BY <1>1, WriteArgumentsAppends
  <1> HIDE DEF at, n, after
  <1>3. Appends(chunk, after, size)
    <2>1. 1 + w \in Nat /\ 1 + 2 * n \in Nat /\ (1 + w) + (1 + 2 * n) = size
      BY <1>0
    <2>2. Appends(chunk, after, (1 + w) + (1 + 2 * n))
      BY <1>2, <2>1, AppendsOn
    <2> QED BY <2>1, <2>2
  <1>4. size \in Nat
    BY <1>0
  <1>5. ASSUME Kept(after) PROVE Instruction(at, at + size)
    <2>1. at + size <= Len(code) /\ Len(code) \in Nat
      BY <1>3, <1>4, <1>5, EndsInside DEF at
    <2>2. /\ Starts(at, op) /\ (w # 0 => Operand(at + 1, w) < TableSize[CalleeTable(op)])
      BY <1>2, <1>5 DEF Appends, at
    <2>3. at + (1 + w) = at + 1 + w /\ at + (1 + w) + 1 = at + 2 + w /\ at + size = at + 2 + w + 2 * n
      <3> DEFINE names == 2 * n
      <3>1. w \in Nat /\ names \in Nat
        BY <1>0
      <3> HIDE DEF names
      <3>2. at + (1 + w) = at + 1 + w /\ at + (1 + w) + 1 = at + 2 + w
        BY <1>0, <3>1
      <3>3. at + (2 + w + names) = at + 2 + w + names
        BY <1>0, <3>1
      <3> QED BY <3>2, <3>3 DEF names
    <2>4. Byte(code, at + 1 + w) = n
      BY <1>1, <1>2, <1>5, <2>3 DEF n
    <2>5. ASSUME NEW i \in 0..n - 1
          PROVE  /\ U16(code, at + 2 + w + 2 * i) \in Nat
                 /\ U16(code, at + 2 + w + 2 * i) < TableSize["argument_names"]
      <3>1. U16(code, at + 2 + w + 2 * i) = args[i + 1]
        BY <1>1, <1>2, <1>5, <2>3 DEF n
      <3>2. i + 1 \in 1..n
        BY <1>0
      <3> QED BY <3>1, <3>2 DEF n
    <2>6. at + 2 + w + 2 * n <= Len(code)
      BY <2>1, <2>3
    <2> HIDE DEF size
    <2>7. Instruction(at, at + 2 + w + 2 * n)
      <3>1. CallReads(at, op, w, n)
        BY <2>2, <2>4, <2>5 DEF CallReads
      <3> QED BY <1>0, <2>1, <2>2, <2>6, <3>1, CallIsSound
    <2> QED BY <2>3, <2>7
  <1> QED BY <1>3, <1>5 DEF at, n, after

\* A call of a value on the stack: its arity and the argument names.
LEMMA CallLays ==
    ASSUME NEW chunk \in Chunks, NEW instr, WellFormedInstr(instr), instr.op = "CALL"
    PROVE  Lays(chunk, EmitInstr(chunk, instr), instr)
  <1> DEFINE op    == "CALL"
             args  == instr.args
             named == WriteOpcode(chunk, op)
             after == EmitInstr(chunk, instr)
             size  == 2 + 0 + 2 * Len(args)
  <1>1. /\ op \notin Indexed /\ op \notin Callees /\ op \notin Framed /\ op \notin Index2
        /\ op \notin SequenceOps
    BY LirShapesDisjoint DEF Single
  <1>2. /\ op \notin LongForms /\ op \in CallLike /\ op \notin LocalOps \cup CaptureOps
        /\ op \notin {"CLASS", "INTERFACE", "NAMESPACE"}
    BY <1>1, LirSets
  <1>3. /\ args \in Seq(Nat) /\ Encoded(op) /\ Len(args) <= U8Max
        /\ \A i \in 1..Len(args) : args[i] < TableSize["argument_names"]
    BY <1>2 DEF WellFormedInstr
  <1>4. op \in CallOps /\ op \in Opcode /\ CalleeWidth(op) = 0
    BY DEF CallOps, Opcode, CalleeWidth, MemberCallLongOps
  <1>5. after = WriteArguments(named, args)
    BY <1>1, <1>2 DEF EmitInstr
  <1>6. InstrSize(instr, chunk.constants) = 2 + 2 * Len(args)
    BY <1>1, <1>2 DEF InstrSize
  <1>7. Len(args) \in Nat
    BY <1>3
  <1> HIDE DEF args, named, after
  <1>8. Appends(chunk, named, 1 + 0) /\ (Kept(named) => Starts(Len(chunk.code), op))
    BY <1>3, WriteOpcodeAppends DEF named
  <1>9. /\ Appends(chunk, after, size)
        /\ Kept(after) => Instruction(Len(chunk.code), Len(chunk.code) + size)
    BY <1>3, <1>4, <1>5, <1>8, ArgumentsLay
  <1>10. size \in Nat /\ size = 2 + 2 * Len(args)
    BY <1>7
  <1> HIDE DEF size
  <1> QED BY <1>6, <1>9, <1>10, LaysOf DEF after

\* A call by a global's or a member's name, in the short or the long form.
LEMMA CalleeLays ==
    ASSUME NEW chunk \in Chunks, NEW instr, WellFormedInstr(instr), instr.op \in Callees
    PROVE  Lays(chunk, EmitInstr(chunk, instr), instr)
  <1> DEFINE op    == instr.op
             index == instr.index
             args  == instr.args
             form  == Form(op, index)
             w     == FormWidth(index)
             named == WriteIndexRef(chunk, op, index)
             after == EmitInstr(chunk, instr)
             size  == 2 + w + 2 * Len(args)
  <1>1. op \notin Indexed /\ op \notin Framed /\ op \notin Index2 /\ op \notin SequenceOps /\ op \notin Single
    BY LirShapesDisjoint
  <1>2. /\ op \in LongForms /\ op \in CallLike /\ op \notin LocalOps \cup CaptureOps
        /\ op \notin {"CLASS", "INTERFACE", "NAMESPACE"} /\ op # "CALL" /\ op # "CONSTANT"
        /\ op # "CLOSURE" /\ op # "CLEAR_LOCALS"
    BY <1>1, LirSets DEF Single
  <1>3. /\ index \in Nat /\ args \in Seq(Nat) /\ Encoded(op) /\ Encoded(LongForm(op)) /\ Len(args) <= U8Max
        /\ \A i \in 1..Len(args) : args[i] < TableSize["argument_names"]
    BY <1>2 DEF WellFormedInstr
  <1>4. /\ form \in Opcode /\ form \in CallOps /\ CalleeWidth(form) = w /\ CalleeTable(form) = CalleeTable(op)
    BY FormOfCall
  <1>5. index < TableSize[CalleeTable(op)]
    <2>1. InTable(instr) = (instr.index < TableSize[CalleeTable(instr.op)])
      <3>1. op \in Opcode
        BY LirShape DEF WellFormedInstr
      <3>2. op \in CallOps
        BY DEF CallOps, Callees
      <3>3. IndexWidth(op) = 0
        BY <3>1, <3>2, ShapeWidths, ShapesDisjoint
      <3> QED BY <1>2, <3>3 DEF InTable
    <2> QED BY <2>1 DEF WellFormedInstr
  <1>6. after = WriteArguments(named, args)
    BY <1>1, <1>2 DEF EmitInstr
  <1>7. InstrSize(instr, chunk.constants) = (IF index <= U8Max THEN 3 ELSE 5) + 2 * Len(args)
    BY <1>1, <1>2 DEF InstrSize
  <1>8. w = (IF index <= U8Max THEN 1 ELSE 3) /\ Len(args) \in Nat
    BY <1>3 DEF FormWidth
  <1> HIDE DEF op, index, args, form, w, named, after
  <1>9. /\ Appends(chunk, named, 1 + w)
        /\ Kept(named) => Starts(Len(chunk.code), form) /\ Operand(Len(chunk.code) + 1, w) = index
    BY <1>3, WriteIndexRefAppends DEF form, w, named
  <1>10. /\ Appends(chunk, after, size)
         /\ Kept(after) => Instruction(Len(chunk.code), Len(chunk.code) + size)
    BY <1>3, <1>4, <1>5, <1>6, <1>9, ArgumentsLay
  <1>11. size \in Nat /\ size = (IF index <= U8Max THEN 3 ELSE 5) + 2 * Len(args)
    BY <1>8
  <1> HIDE DEF size
  <1> QED BY <1>2, <1>7, <1>10, <1>11, LaysOf DEF op, after

\* A closure: the function, the number of captures, and a source for each.
LEMMA ClosureLays ==
    ASSUME NEW chunk \in Chunks, NEW instr, WellFormedInstr(instr), instr.op = "CLOSURE"
    PROVE  Lays(chunk, EmitInstr(chunk, instr), instr)
  <1> DEFINE op       == "CLOSURE"
             index    == instr.index
             sources  == instr.sources
             n        == Len(sources)
             named    == WriteOpcode(chunk, op)
             indexed  == WriteU16(named, index)
             counted  == WriteU8(indexed, n)
             after    == EmitInstr(chunk, instr)
             at       == Len(chunk.code)
             size     == 1 + 2 + 1 + 2 * n
  <1>1. /\ op \notin Indexed /\ op \notin Callees /\ op \notin Framed /\ op \notin Index2
        /\ op \notin SequenceOps
    BY LirShapesDisjoint DEF Single
  <1>2. /\ op \notin LongForms /\ op \notin CallLike /\ op \notin LocalOps \cup CaptureOps
        /\ op \notin {"CLASS", "INTERFACE", "NAMESPACE"}
    BY <1>1, LirSets
  <1>3. index \in Nat /\ AreSources(sources) /\ Encoded(op)
    BY <1>2 DEF WellFormedInstr, AreSources
  <1>4. index < TableSize["functions"] /\ \A i \in 1..n : HasSource(sources[i])
    <2>1. op \in Opcode
      BY DEF Opcode
    <2>2. IndexWidth(op) = 0
      BY <2>1, ShapeWidths, ShapesDisjoint DEF Rest
    <2> QED BY <1>2, <2>2 DEF WellFormedInstr, InTable
  <1>5. after = WriteSources(counted, sources)
    BY <1>1, <1>2 DEF EmitInstr
  <1>6. InstrSize(instr, chunk.constants) = 4 + 2 * n
    BY <1>1, <1>2 DEF InstrSize
  <1>7. n \in Nat /\ at \in Nat
    BY <1>3 DEF Chunks, AreSources
  <1> HIDE DEF index, sources, n, named, indexed, counted, after, at
  <1>8. Appends(chunk, named, 1) /\ (Kept(named) => Starts(at, op)) /\ named \in Chunks /\ Len(named.code) = at + 1
    BY <1>3, WriteOpcodeAppends DEF named, at, Appends
  <1>9. /\ Appends(named, indexed, 2) /\ (Kept(indexed) => U16(code, at + 1) = index)
        /\ indexed \in Chunks /\ Len(indexed.code) = at + 3
    <2>1. Appends(named, indexed, 2) /\ (Kept(indexed) => U16(code, Len(named.code)) = index)
      BY <1>3, <1>8, WriteU16Appends DEF indexed
    <2>2. indexed \in Chunks /\ Len(indexed.code) = at + 1 + 2 /\ at + 1 + 2 = at + 3
      BY <1>7, <1>8, <2>1 DEF Appends
    <2> QED BY <1>8, <2>1, <2>2
  <1>10. /\ Appends(indexed, counted, 1) /\ (Kept(counted) => Byte(code, at + 3) = n)
         /\ counted \in Chunks /\ Len(counted.code) = at + 4
    <2>1. Appends(indexed, counted, 1) /\ (Kept(counted) => Byte(code, Len(indexed.code)) = n)
      BY <1>7, <1>9, WriteU8Appends DEF counted
    <2>2. counted \in Chunks /\ Len(counted.code) = at + 3 + 1 /\ at + 3 + 1 = at + 4
      BY <1>7, <1>9, <2>1 DEF Appends
    <2> QED BY <1>9, <2>1, <2>2
  <1>11. /\ Appends(counted, after, 2 * n)
         /\ Kept(after) =>
               \A i \in 0..n - 1 :
                  /\ Byte(code, at + 4 + 2 * i) = IF sources[i + 1].fromCapture THEN 1 ELSE 0
                  /\ Byte(code, at + 4 + 2 * i + 1) = sources[i + 1].index
    <2> DEFINE end == Len(counted.code)
    <2>1. /\ Appends(counted, after, 2 * n)
          /\ Kept(after) =>
                \A i \in 0..n - 1 :
                   /\ Byte(code, end + 2 * i) = IF sources[i + 1].fromCapture THEN 1 ELSE 0
                   /\ Byte(code, end + 2 * i + 1) = sources[i + 1].index
      BY <1>3, <1>5, <1>10, WriteSourcesAppends, Zenon DEF n
    <2>2. end = at + 4
      BY <1>10
    <2> HIDE DEF end
    <2> QED BY <2>1, <2>2, Zenon
  <1>12. Appends(chunk, after, size)
    <2>1. Appends(chunk, indexed, 1 + 2)
      BY <1>8, <1>9, AppendsOn
    <2>2. Appends(chunk, counted, 1 + 2 + 1)
      BY <1>10, <2>1, AppendsOn
    <2>3. 1 + 2 + 1 \in Nat /\ 2 * n \in Nat
      BY <1>7
    <2> QED BY <1>11, <2>2, <2>3, AppendsOn
  <1>13. size \in Nat /\ size = 4 + 2 * n /\ at + size = at + 4 + 2 * n
    BY <1>7
  <1> HIDE DEF size
  <1>14. ASSUME Kept(after) PROVE Instruction(at, at + size)
    <2>1. at + size <= Len(code) /\ Len(code) \in Nat
      BY <1>12, <1>13, <1>14, EndsInside DEF at
    <2>2. Kept(counted) /\ Kept(indexed) /\ Kept(named)
      BY <1>9, <1>10, <1>11, <1>14 DEF Appends
    <2>3. U16(code, at + 1) < TableSize["functions"]
      BY <1>4, <1>9, <2>2
    <2>4. Starts(at, "CLOSURE") /\ Byte(code, at + 3) = n
      BY <1>8, <1>10, <2>2
    <2>5. ASSUME NEW i \in 0..n - 1
          PROVE  /\ Byte(code, at + 5 + 2 * i) \in Nat
                 /\ Byte(code, at + 5 + 2 * i)
                      < TableSize[IF Byte(code, at + 4 + 2 * i) # 0 THEN "captures" ELSE "locals"]
      <3> DEFINE source == sources[i + 1]
      <3>1. IsSource(source) /\ HasSource(source)
        <4>1. i + 1 \in 1..n
          BY <1>7
        <4> QED BY <4>1, <1>3, <1>4 DEF AreSources, n
      <3>2. at + 4 + 2 * i + 1 = at + 5 + 2 * i
        BY <1>7
      <3>3. /\ Byte(code, at + 4 + 2 * i) = IF source.fromCapture THEN 1 ELSE 0
            /\ Byte(code, at + 5 + 2 * i) = source.index
        BY <1>11, <1>14, <3>2
      <3> HIDE DEF source
      <3>4. Byte(code, at + 4 + 2 * i) # 0 <=> source.fromCapture
        BY <3>1, <3>3 DEF IsSource
      <3> QED BY <3>1, <3>3, <3>4 DEF IsSource, HasSource
    <2>6. SourcesOk(at)
      BY <2>4, <2>5 DEF SourcesOk
    <2>7. Instruction(at, at + 4 + 2 * n)
      BY <1>7, <1>13, <2>1, <2>3, <2>4, <2>6, ClosureIsSound
    <2> QED BY <1>13, <2>7
  <1> QED BY <1>6, <1>12, <1>13, <1>14, LaysOf DEF after, at

\* The slots a loop body starts from empty: the first and how many.
LEMMA ClearLocalsLays ==
    ASSUME NEW chunk \in Chunks, NEW instr, WellFormedInstr(instr), instr.op = "CLEAR_LOCALS"
    PROVE  Lays(chunk, EmitInstr(chunk, instr), instr)
  <1> DEFINE op       == "CLEAR_LOCALS"
             index    == instr.index
             count    == instr.count
             named    == WriteOpcode(chunk, op)
             indexed  == WriteU8(named, index)
             after    == EmitInstr(chunk, instr)
             at       == Len(chunk.code)
  <1>1. /\ op \notin Indexed /\ op \notin Callees /\ op \notin Framed /\ op \notin Index2
        /\ op \notin SequenceOps
    BY LirShapesDisjoint DEF Single
  <1>2. /\ op \notin LongForms /\ op \notin CallLike /\ op \notin LocalOps \cup CaptureOps
        /\ op \notin {"CLASS", "INTERFACE", "NAMESPACE"}
    BY <1>1, LirSets
  <1>3. index \in Nat /\ count \in Nat /\ Encoded(op)
    BY <1>2 DEF WellFormedInstr
  <1>4. index + count <= TableSize["locals"]
    <2>1. op \in Opcode
      BY DEF Opcode
    <2>2. IndexWidth(op) = 0
      BY <2>1, ShapeWidths, ShapesDisjoint DEF Rest
    <2> QED BY <1>2, <2>2 DEF WellFormedInstr, InTable
  <1>5. after = WriteU8(indexed, count)
    BY <1>1, <1>2 DEF EmitInstr
  <1>6. InstrSize(instr, chunk.constants) = 3
    BY <1>1, <1>2 DEF InstrSize
  <1>7. at \in Nat
    BY DEF Chunks
  <1> HIDE DEF index, count, named, indexed, after, at
  <1>8. Appends(chunk, named, 1) /\ (Kept(named) => Starts(at, op)) /\ named \in Chunks /\ Len(named.code) = at + 1
    BY <1>3, WriteOpcodeAppends DEF named, at, Appends
  <1>9. /\ Appends(named, indexed, 1) /\ (Kept(indexed) => Byte(code, at + 1) = index)
        /\ indexed \in Chunks /\ Len(indexed.code) = at + 2
    <2>1. Appends(named, indexed, 1) /\ (Kept(indexed) => Byte(code, Len(named.code)) = index)
      BY <1>3, <1>8, WriteU8Appends DEF indexed
    <2>2. indexed \in Chunks /\ Len(indexed.code) = at + 1 + 1 /\ at + 1 + 1 = at + 2
      BY <1>7, <1>8, <2>1 DEF Appends
    <2> QED BY <1>8, <2>1, <2>2
  <1>10. Appends(indexed, after, 1) /\ (Kept(after) => Byte(code, at + 2) = count)
    BY <1>3, <1>5, <1>9, WriteU8Appends
  <1>11. Appends(chunk, after, 3)
    <2>1. Appends(chunk, indexed, 1 + 1)
      BY <1>8, <1>9, AppendsOn
    <2>2. Appends(chunk, after, 1 + 1 + 1)
      BY <1>10, <2>1, AppendsOn
    <2> QED BY <2>2
  <1>12. ASSUME Kept(after) PROVE Instruction(at, at + 3)
    <2>1. at + 3 <= Len(code)
      BY <1>11, <1>12, EndsInside DEF at
    <2>2. Starts(at, op) /\ Byte(code, at + 1) = index /\ Byte(code, at + 2) = count
      BY <1>8, <1>9, <1>10, <1>12 DEF Appends
    <2> QED BY <1>4, <1>7, <2>1, <2>2, ClearLocalsIsSound
  <1> QED BY <1>6, <1>11, <1>12, LaysOf DEF after, at

\* A declaration of a class, an interface or a namespace has a two-byte index.
LEMMA DeclarationLays ==
    ASSUME NEW chunk \in Chunks, NEW instr, WellFormedInstr(instr), instr.op \in Index2
    PROVE  Lays(chunk, EmitInstr(chunk, instr), instr)
  <1> DEFINE op    == instr.op
             index == instr.index
             named == WriteOpcode(chunk, op)
             after == EmitInstr(chunk, instr)
             at    == Len(chunk.code)
  <1>1. /\ op \notin Indexed /\ op \notin Callees /\ op \notin Framed /\ op \notin SequenceOps /\ op \notin Single
    BY LirShapesDisjoint
  <1>2. /\ op \notin LongForms /\ op \notin CallLike /\ op \notin LocalOps \cup CaptureOps
        /\ op \in {"CLASS", "INTERFACE", "NAMESPACE"} /\ op # "CALL" /\ op # "CONSTANT"
        /\ op # "CLOSURE" /\ op # "CLEAR_LOCALS"
    BY <1>1, LirSets DEF Single
  <1>3. index \in Nat /\ Encoded(op) /\ op \in Opcode
    BY LirShape DEF WellFormedInstr
  <1>4. IndexWidth(op) = 2
    BY <1>3, ShapeWidths
  <1>5. index < TableSize[IndexTable(op)] /\ EntryOk(op, index)
    BY <1>2, <1>4 DEF WellFormedInstr, InTable
  <1>6. after = WriteU16(named, index)
    BY <1>1, <1>2 DEF EmitInstr
  <1>7. InstrSize(instr, chunk.constants) = 3
    BY <1>1, <1>2 DEF InstrSize
  <1>8. at \in Nat
    BY DEF Chunks
  <1> HIDE DEF op, index, named, after, at
  <1>9. Appends(chunk, named, 1) /\ (Kept(named) => Starts(at, op)) /\ named \in Chunks /\ Len(named.code) = at + 1
    BY <1>3, WriteOpcodeAppends DEF named, at, Appends
  <1>10. Appends(named, after, 2) /\ (Kept(after) => U16(code, at + 1) = index)
    BY <1>3, <1>6, <1>9, WriteU16Appends
  <1>11. Appends(chunk, after, 3)
    <2>1. Appends(chunk, after, 1 + 2)
      BY <1>9, <1>10, AppendsOn
    <2> QED BY <2>1
  <1>12. ASSUME Kept(after) PROVE Instruction(at, at + 3)
    <2>1. at + 3 <= Len(code) /\ at + 1 + 2 = at + 3
      BY <1>8, <1>11, <1>12, EndsInside DEF at
    <2>2. /\ Starts(at, op) /\ Operand(at + 1, 2) < TableSize[IndexTable(op)]
          /\ EntryOk(op, Operand(at + 1, 2))
      BY <1>5, <1>9, <1>10, <1>12 DEF Appends, Operand
    <2>3. Instruction(at, at + 1 + 2)
      BY <1>3, <1>4, <1>8, <2>1, <2>2, IndexIsSound
    <2> QED BY <2>1, <2>3
  <1> QED BY <1>2, <1>7, <1>11, <1>12, LaysOf DEF op, after, at

\* A local or a capture has a one-byte index, and no long form.
LEMMA FramedLays ==
    ASSUME NEW chunk \in Chunks, NEW instr, WellFormedInstr(instr), instr.op \in Framed
    PROVE  Lays(chunk, EmitInstr(chunk, instr), instr)
  <1> DEFINE op    == instr.op
             index == instr.index
             named == WriteOpcode(chunk, op)
             after == EmitInstr(chunk, instr)
             at    == Len(chunk.code)
  <1>1. /\ op \notin Indexed /\ op \notin Callees /\ op \notin Index2 /\ op \notin SequenceOps /\ op \notin Single
    BY LirShapesDisjoint
  <1>2. /\ op \notin LongForms /\ op \notin CallLike /\ op \in LocalOps \cup CaptureOps
        /\ op \notin {"CLASS", "INTERFACE", "NAMESPACE"} /\ op # "CALL" /\ op # "CONSTANT"
        /\ op # "CLOSURE" /\ op # "CLEAR_LOCALS"
    BY <1>1, LirSets DEF Single
  <1>3. index \in Nat /\ Encoded(op) /\ op \in Opcode
    BY LirShape DEF WellFormedInstr
  <1>4. IndexWidth(op) = 1
    BY <1>3, ShapeWidths DEF Index1, Framed
  <1>5. index < TableSize[IndexTable(op)] /\ EntryOk(op, index)
    BY <1>2, <1>4 DEF WellFormedInstr, InTable
  <1>6. after = WriteU8(named, index)
    BY <1>1, <1>2 DEF EmitInstr
  <1>7. InstrSize(instr, chunk.constants) = 2
    BY <1>1, <1>2 DEF InstrSize
  <1>8. at \in Nat
    BY DEF Chunks
  <1> HIDE DEF op, index, named, after, at
  <1>9. Appends(chunk, named, 1) /\ (Kept(named) => Starts(at, op)) /\ named \in Chunks /\ Len(named.code) = at + 1
    BY <1>3, WriteOpcodeAppends DEF named, at, Appends
  <1>10. Appends(named, after, 1) /\ (Kept(after) => Byte(code, at + 1) = index)
    BY <1>3, <1>6, <1>9, WriteU8Appends
  <1>11. Appends(chunk, after, 2)
    <2>1. Appends(chunk, after, 1 + 1)
      BY <1>9, <1>10, AppendsOn
    <2> QED BY <2>1
  <1>12. ASSUME Kept(after) PROVE Instruction(at, at + 2)
    <2>1. at + 2 <= Len(code) /\ at + 1 + 1 = at + 2
      BY <1>8, <1>11, <1>12, EndsInside DEF at
    <2>2. /\ Starts(at, op) /\ Operand(at + 1, 1) < TableSize[IndexTable(op)]
          /\ EntryOk(op, Operand(at + 1, 1))
      BY <1>5, <1>9, <1>10, <1>12 DEF Appends, Operand
    <2>3. Instruction(at, at + 1 + 1)
      BY <1>3, <1>4, <1>8, <2>1, <2>2, IndexIsSound
    <2> QED BY <2>1, <2>3
  <1> QED BY <1>2, <1>7, <1>11, <1>12, LaysOf DEF op, after, at

\* A literal list, dictionary or set: how many elements it takes.
LEMMA SequenceLays ==
    ASSUME NEW chunk \in Chunks, NEW instr, WellFormedInstr(instr), instr.op \in SequenceOps
    PROVE  Lays(chunk, EmitInstr(chunk, instr), instr)
  <1> DEFINE op    == instr.op
             bytes == <<instr.count % Base>>
             named == WriteOpcode(chunk, op)
             after == EmitInstr(chunk, instr)
             at    == Len(chunk.code)
  <1>1. /\ op \notin Indexed /\ op \notin Callees /\ op \notin Framed /\ op \notin Index2 /\ op \notin Single
    BY LirShapesDisjoint
  <1>2. /\ op \notin LongForms /\ op \notin CallLike /\ op \notin LocalOps \cup CaptureOps
        /\ op \notin {"CLASS", "INTERFACE", "NAMESPACE"} /\ op # "CALL" /\ op # "CONSTANT"
        /\ op # "CLOSURE" /\ op # "CLEAR_LOCALS"
    BY <1>1, LirSets DEF Single
  <1>3. Encoded(op) /\ op \in Opcode
    BY LirShape DEF WellFormedInstr
  <1>4. bytes \in Seq(Bytes) /\ Len(bytes) = 1
    <2>1. instr.count \in Nat
      BY DEF WellFormedInstr
    <2> QED BY <2>1, Narrowed
  <1>5. after = Write(named, bytes)
    BY <1>1, <1>2 DEF EmitInstr
  <1>6. InstrSize(instr, chunk.constants) = 2
    BY <1>1, <1>2 DEF InstrSize
  <1>7. at \in Nat
    BY DEF Chunks
  <1> HIDE DEF op, bytes, named, after, at
  <1>8. Appends(chunk, named, 1) /\ (Kept(named) => Starts(at, op)) /\ named \in Chunks
    BY <1>3, WriteOpcodeAppends DEF named, at, Appends
  <1>9. Appends(named, after, 1)
    BY <1>4, <1>5, <1>8, WriteAppends
  <1>10. Appends(chunk, after, 2)
    <2>1. Appends(chunk, after, 1 + 1)
      BY <1>8, <1>9, AppendsOn
    <2> QED BY <2>1
  <1>11. ASSUME Kept(after) PROVE Instruction(at, at + 2)
    <2>1. at + 2 <= Len(code)
      BY <1>10, <1>11, EndsInside DEF at
    <2>2. Starts(at, op)
      BY <1>8, <1>9, <1>11 DEF Appends
    <2> QED BY <1>3, <1>7, <2>1, <2>2, SequenceIsSound DEF op
  <1> QED BY <1>2, <1>6, <1>10, <1>11, LaysOf DEF op, after, at

\* emit_instr writes what instr_size counted, and the verifier lets it through.
LEMMA InstrLays ==
    ASSUME NEW chunk \in Chunks, NEW instr, WellFormedInstr(instr)
    PROVE  Lays(chunk, EmitInstr(chunk, instr), instr)
  <1>1. instr.op \in LirOps
    BY DEF WellFormedInstr
  <1>2. CASE instr.op \in Single
    BY <1>2, CallLays, ClosureLays, ClearLocalsLays, ConstantLays DEF Single
  <1>3. CASE instr.op \in Indexed
    BY <1>3, IndexedLays
  <1>4. CASE instr.op \in Callees
    BY <1>4, CalleeLays
  <1>5. CASE instr.op \in Framed
    BY <1>5, FramedLays
  <1>6. CASE instr.op \in Index2
    BY <1>6, DeclarationLays
  <1>7. CASE instr.op \in SequenceOps
    BY <1>7, SequenceLays
  <1>8. CASE instr.op \in NoOperand
    BY <1>8, PlainLays
  <1> QED BY <1>1, <1>2, <1>3, <1>4, <1>5, <1>6, <1>7, <1>8, LirShape

-----------------------------------------------------------------------------
(* What is laid out or written step by step.                               *)

\* Every nonempty set of numbers has a least one.
LEMMA HasLeast ==
    ASSUME NEW T, T \subseteq Nat, T # {}
    PROVE  \E x \in T : \A y \in T : x <= y
PROOF
  <1> PICK m \in T : m \in Nat
    OBVIOUS
  <1> DEFINE U == {x \in T : x <= m}
             F == {1 .. x : x \in U}
  <1>1. IsFiniteSet(1 .. m) /\ m \in Nat
    BY FS_Interval, m \in Int, 1 \in Int
  <1>2. F \subseteq FiniteSubsetsOf(1 .. m)
    <2>1. \A x \in U : 1 .. x \subseteq 1 .. m
      BY <1>1
    <2>2. F \subseteq SUBSET (1 .. m)
      BY <2>1
    <2> QED
      BY <1>1, <2>2, FS_Subset DEF FiniteSubsetsOf
  <1>3. IsWellFoundedOn(StrictSubsetOrdering(1 .. m), FiniteSubsetsOf(1 .. m))
    BY FS_StrictSubsetOrderingWellFounded
  <1>4. F # {}
    <2>1. m \in U
      BY <1>1
    <2> QED BY <2>1
  <1> HIDE DEF F
  <1>5. PICK s \in F : \A t \in F : ~(<<t, s>> \in StrictSubsetOrdering(1 .. m))
    BY <1>2, <1>3, <1>4, WFMin
  <1>6. PICK x \in U : s = 1 .. x
    BY DEF F
  <1>7. ASSUME NEW y \in T, y < x
        PROVE  FALSE
    <2>1. y \in U
      BY <1>1, <1>6, <1>7
    <2>2. 1 .. y \in F
      BY <2>1 DEF F
    <2>3. 1 .. y \subseteq 1 .. x /\ x \in 1 .. x /\ x \notin 1 .. y /\ 1 .. x \subseteq 1 .. m
      BY <1>1, <1>6, <1>7
    <2>4. <<1 .. y, s>> \in StrictSubsetOrdering(1 .. m)
      BY <1>6, <2>3 DEF StrictSubsetOrdering
    <2> QED
      BY <1>5, <2>2, <2>4
  <1> QED
    BY <1>7

\* A set of numbers with 0 in it and the next of each is all of them.
LEMMA Induction ==
    ASSUME NEW T, T \subseteq Nat, 0 \in T, \A k \in T : k + 1 \in T
    PROVE  T = Nat
PROOF
  <1> SUFFICES ASSUME Nat \ T # {} PROVE FALSE
    OBVIOUS
  <1>1. PICK x \in Nat \ T : \A y \in Nat \ T : x <= y
    BY HasLeast
  <1>2. x # 0 /\ x - 1 \in Nat
    BY <1>1
  <1>3. x - 1 \in T
    BY <1>1, <1>2
  <1>4. x - 1 + 1 = x
    BY <1>1
  <1> QED BY <1>1, <1>3, <1>4

\* What holds at first and is passed on holds up to n.
LEMMA Climb ==
    ASSUME NEW n \in Nat, NEW T, 0 \in T, \A k \in 1..n : k - 1 \in T => k \in T
    PROVE  0..n \subseteq T
  <1> DEFINE U == {k \in Nat : k <= n => k \in T}
  <1>1. 0 \in U
    OBVIOUS
  <1>2. ASSUME NEW k \in U PROVE k + 1 \in U
    <2>1. CASE k + 1 <= n
      <3>1. k \in Nat /\ k \in T /\ k + 1 \in 1..n /\ k + 1 - 1 = k
        BY <1>2, <2>1
      <3> QED BY <3>1
    <2>2. CASE ~(k + 1 <= n)
      BY <2>2
    <2> QED BY <2>1, <2>2
  <1>3. U \subseteq Nat
    OBVIOUS
  <1> HIDE DEF U
  <1>4. U = Nat
    BY <1>1, <1>2, <1>3, Induction
  <1> QED BY <1>4 DEF U

\* What holds at the end and is passed back held all along.
LEMMA Descend ==
    ASSUME NEW n \in Nat, NEW T, n \in T, \A k \in 1..n : k \in T => k - 1 \in T
    PROVE  0..n \subseteq T
  <1> DEFINE U == {k \in 0..n : n - k \in T}
  <1>1. 0 \in U
    OBVIOUS
  <1>2. ASSUME NEW k \in 1..n, k - 1 \in U PROVE k \in U
    <2>1. n - (k - 1) \in 1..n /\ n - (k - 1) \in T /\ n - (k - 1) - 1 = n - k
      BY <1>2
    <2>2. n - k \in T
      BY <2>1
    <2> QED BY <2>2
  <1> HIDE DEF U
  <1>3. 0..n \subseteq U
    BY <1>1, <1>2, Climb
  <1>4. ASSUME NEW k \in 0..n PROVE k \in T
    <2>1. n - k \in 0..n /\ n - (n - k) = k
      OBVIOUS
    <2>2. n - k \in U
      BY <1>3, <2>1
    <2> QED BY <2>1, <2>2 DEF U
  <1> QED BY <1>4

\* What the steps F make of a beginning b, 0 to n times: there is such a
\* function, so a recursive definition of this form has the value it says.
Iterations(S, b, F, n) == {g \in [0..n -> S] : g[0] = b /\ \A k \in 1..n : g[k] = F[k][g[k - 1]]}
\* There is such a function for every number of steps.
LEMMA Iterates ==
    ASSUME NEW S, NEW b \in S, NEW n \in Nat, NEW F \in [1..n -> [S -> S]]
    PROVE  Iterations(S, b, F, n) # {}
  <1> DEFINE P(m) == \E g \in [0..m -> S] : g[0] = b /\ \A k \in 1..m : g[k] = F[k][g[k - 1]]
             T == {m \in 0..n : P(m)}
  <1>1. P(0)
    <2>1. [k \in 0..0 |-> b] \in [0..0 -> S] /\ [k \in 0..0 |-> b][0] = b
      OBVIOUS
    <2>2. 1..0 = {}
      OBVIOUS
    <2> QED BY <2>1, <2>2
  <1>2. ASSUME NEW m \in 1..n, P(m - 1)
        PROVE  P(m)
    <2>1. PICK g \in [0..m - 1 -> S] : g[0] = b /\ \A k \in 1..m - 1 : g[k] = F[k][g[k - 1]]
      BY <1>2
    <2> DEFINE h == [k \in 0..m |-> IF k = m THEN F[m][g[m - 1]] ELSE g[k]]
    <2>2. h \in [0..m -> S]
      <3>1. g[m - 1] \in S
        OBVIOUS
      <3>2. F[m][g[m - 1]] \in S
        BY <3>1
      <3> QED BY <3>2
    <2>3. h[0] = b
      BY <2>1
    <2>4. ASSUME NEW k \in 1..m
          PROVE  h[k] = F[k][h[k - 1]]
      <3>1. k - 1 \in 0..m - 1 /\ h[k - 1] = g[k - 1]
        OBVIOUS
      <3>2. CASE k = m
        <4>1. h[m] = F[m][g[m - 1]]
          OBVIOUS
        <4> HIDE DEF h
        <4> QED BY <3>1, <3>2, <4>1
      <3>3. CASE k # m
        <4>1. k \in 1..m - 1 /\ h[k] = g[k]
          BY <3>3
        <4> QED BY <2>1, <3>1, <4>1
      <3> QED BY <3>2, <3>3
    <2> HIDE DEF h
    <2> QED BY <2>2, <2>3, <2>4
  <1> HIDE DEF P
  <1>3. 0 \in T /\ \A m \in 1..n : m - 1 \in T => m \in T
    BY <1>1, <1>2
  <1> HIDE DEF T
  <1>4. n \in T
    <2>1. 0..n \subseteq T
      BY <1>3, Climb, Zenon
    <2> QED BY <2>1
  <1> QED BY <1>4 DEF P, T, Iterations

-----------------------------------------------------------------------------
(* The two passes, step by step.                                           *)

Layout == [offset : Nat, constants : Nat]

\* The instructions of a block, as the lowering hands them over.
WellFormedInstrs(instrs) == Len(instrs) \in Nat /\ \A i \in 1..Len(instrs) : WellFormedInstr(instrs[i])

\* instr_size is a number of bytes.
LEMMA SizeInNat ==
    ASSUME NEW instr, WellFormedInstr(instr), NEW constants \in Nat
    PROVE  InstrSize(instr, constants) \in Nat
  <1> DEFINE chunk == [code |-> <<>>, constants |-> constants, failed |-> FALSE]
  <1>1. chunk \in Chunks /\ chunk.constants = constants
    BY DEF Chunks
  <1> HIDE DEF chunk
  <1>2. Lays(chunk, EmitInstr(chunk, instr), instr)
    BY <1>1, InstrLays
  <1> QED BY <1>1, <1>2 DEF Lays

\* An instruction moves the layout to an offset and a constant further on.
LEMMA LaidOutInLayout ==
    ASSUME NEW instr, WellFormedInstr(instr), NEW layout \in Layout
    PROVE  LaidOut(layout, instr) \in Layout
  <1>1. layout.offset \in Nat /\ layout.constants \in Nat
    BY DEF Layout
  <1>2. InstrSize(instr, layout.constants) \in Nat
    BY <1>1, SizeInNat
  <1> QED BY <1>1, <1>2 DEF LaidOut, Layout

\* The layout of a block goes from one instruction to the next.
LEMMA InBlockIs ==
    ASSUME NEW instrs, WellFormedInstrs(instrs), NEW layout \in Layout
    PROVE  /\ InBlock(layout, instrs)[0] = layout
           /\ \A i \in 1..Len(instrs) :
                 InBlock(layout, instrs)[i] = LaidOut(InBlock(layout, instrs)[i - 1], instrs[i])
           /\ \A i \in 0..Len(instrs) : InBlock(layout, instrs)[i] \in Layout
  <1> DEFINE n == Len(instrs)
             f == InBlock(layout, instrs)
             F == [k \in 1..n |-> [x \in Layout |-> LaidOut(x, instrs[k])]]
             R(g) == [i \in 0..n |-> IF i = 0 THEN layout ELSE LaidOut(g[i - 1], instrs[i])]
  <1>1. n \in Nat /\ \A i \in 1..n : WellFormedInstr(instrs[i])
    BY DEF WellFormedInstrs
  <1>2. \A k \in 1..n : \A x \in Layout : LaidOut(x, instrs[k]) \in Layout
    BY <1>1, LaidOutInLayout
  <1>3. F \in [1..n -> [Layout -> Layout]]
    BY <1>2
  <1>4. \A k \in 1..n : \A x \in Layout : F[k][x] = LaidOut(x, instrs[k])
    OBVIOUS
  <1> HIDE DEF n, F
  <1>5. PICK g \in [0..n -> Layout] : g[0] = layout /\ \A k \in 1..n : g[k] = F[k][g[k - 1]]
    <2>1. n \in Nat
      BY <1>1
    <2>2. Iterations(Layout, layout, F, n) # {}
      BY <2>1, <1>3, Iterates
    <2> QED BY <2>2 DEF Iterations
  <1>6. g = R(g)
    <2>1. \A k \in 1..n : g[k] = LaidOut(g[k - 1], instrs[k])
      BY <1>1, <1>4, <1>5
    <2> QED BY <1>1, <1>5, <2>1
  <1>7. f = R(f)
    BY <1>6 DEF InBlock, n
  <1> HIDE DEF f
  <1>8. f[0] = layout /\ \A i \in 1..n : f[i] = LaidOut(f[i - 1], instrs[i])
    BY <1>1, <1>7
  <1>9. \A i \in 0..n : f[i] \in Layout
    <2> DEFINE T == {i \in 0..n : f[i] \in Layout}
    <2>1. 0 \in T /\ \A k \in 1..n : k - 1 \in T => k \in T
      BY <1>1, <1>2, <1>8
    <2> HIDE DEF T
    <2>2. 0..n \subseteq T
      BY <1>1, <2>1, Climb
    <2> QED BY <2>2 DEF T
  <1> QED BY <1>8, <1>9 DEF f, n

\* The chunk of a block goes from one instruction to the next.
LEMMA EmitInstrsIs ==
    ASSUME NEW instrs, WellFormedInstrs(instrs), NEW chunk \in Chunks
    PROVE  /\ EmitInstrs(chunk, instrs)[0] = chunk
           /\ \A i \in 1..Len(instrs) :
                 EmitInstrs(chunk, instrs)[i] = EmitInstr(EmitInstrs(chunk, instrs)[i - 1], instrs[i])
           /\ \A i \in 0..Len(instrs) : EmitInstrs(chunk, instrs)[i] \in Chunks
  <1> DEFINE n == Len(instrs)
             f == EmitInstrs(chunk, instrs)
             F == [k \in 1..n |-> [x \in Chunks |-> EmitInstr(x, instrs[k])]]
             R(g) == [i \in 0..n |-> IF i = 0 THEN chunk ELSE EmitInstr(g[i - 1], instrs[i])]
  <1>1. n \in Nat /\ \A i \in 1..n : WellFormedInstr(instrs[i])
    BY DEF WellFormedInstrs
  <1>2. \A k \in 1..n : \A x \in Chunks : EmitInstr(x, instrs[k]) \in Chunks
    BY <1>1, InstrLays DEF Lays
  <1>3. F \in [1..n -> [Chunks -> Chunks]]
    BY <1>2
  <1>4. \A k \in 1..n : \A x \in Chunks : F[k][x] = EmitInstr(x, instrs[k])
    OBVIOUS
  <1> HIDE DEF n, F
  <1>5. PICK g \in [0..n -> Chunks] : g[0] = chunk /\ \A k \in 1..n : g[k] = F[k][g[k - 1]]
    BY <1>1, <1>3, Iterates DEF Iterations
  <1>6. g = R(g)
    <2>1. \A k \in 1..n : g[k] = EmitInstr(g[k - 1], instrs[k])
      BY <1>1, <1>4, <1>5
    <2> QED BY <1>1, <1>5, <2>1
  <1>7. f = R(f)
    BY <1>6 DEF EmitInstrs, n
  <1> HIDE DEF f
  <1>8. f[0] = chunk /\ \A i \in 1..n : f[i] = EmitInstr(f[i - 1], instrs[i])
    BY <1>1, <1>7
  <1>9. \A i \in 0..n : f[i] \in Chunks
    <2> DEFINE T == {i \in 0..n : f[i] \in Chunks}
    <2>1. 0 \in T /\ \A k \in 1..n : k - 1 \in T => k \in T
      BY <1>1, <1>2, <1>8
    <2> HIDE DEF T
    <2>2. 0..n \subseteq T
      BY <1>1, <2>1, Climb
    <2> QED BY <2>2 DEF T
  <1> QED BY <1>8, <1>9 DEF f, n

\* What is known of a block that the lowering hands over.
LEMMA BlockIsWellFormed ==
    ASSUME NEW function, WellFormed(function), NEW b \in 1..Len(function)
    PROVE  WellFormedInstrs(function[b].instrs) /\ WellFormedTerm(function[b].term, function)
  BY DEF WellFormed, WellFormedInstrs

\* So does a block.
LEMMA AfterBlockInLayout ==
    ASSUME NEW layout \in Layout, NEW block, WellFormedInstrs(block.instrs), TermSize(block.term) \in Nat
    PROVE  AfterBlock(layout, block) \in Layout
  <1> DEFINE n    == Len(block.instrs)
             body == InBlock(layout, block.instrs)[n]
  <1>1. n \in 0..n
    BY DEF WellFormedInstrs
  <1>2. body \in Layout
    BY <1>1, InBlockIs
  <1> HIDE DEF body
  <1>3. [body EXCEPT !.offset = @ + TermSize(block.term)] \in Layout
    BY <1>2 DEF Layout
  <1> QED BY <1>3 DEF AfterBlock, body

\* term_size is a number of bytes.
LEMMA TermSizeInNat ==
    ASSUME NEW term
    PROVE  TermSize(term) \in Nat
  BY DEF TermSize

\* The first pass goes from one block to the next.
LEMMA LayoutsIs ==
    ASSUME NEW function, WellFormed(function)
    PROVE  /\ Layouts(function)[0] = [offset |-> 0, constants |-> 0]
           /\ \A b \in 1..Len(function) : Layouts(function)[b] = AfterBlock(Layouts(function)[b - 1], function[b])
           /\ \A b \in 0..Len(function) : Layouts(function)[b] \in Layout
  <1> DEFINE n == Len(function)
             first == [offset |-> 0, constants |-> 0]
             f == Layouts(function)
             F == [k \in 1..n |-> [x \in Layout |-> AfterBlock(x, function[k])]]
             R(g) == [b \in 0..n |-> IF b = 0 THEN first ELSE AfterBlock(g[b - 1], function[b])]
  <1>1. n \in Nat /\ first \in Layout
    BY DEF WellFormed, Layout
  <1>2. \A k \in 1..n : \A x \in Layout : AfterBlock(x, function[k]) \in Layout
    BY BlockIsWellFormed, TermSizeInNat, AfterBlockInLayout
  <1>3. F \in [1..n -> [Layout -> Layout]]
    BY <1>2
  <1>4. \A k \in 1..n : \A x \in Layout : F[k][x] = AfterBlock(x, function[k])
    OBVIOUS
  <1> HIDE DEF n, F, first
  <1>5. PICK g \in [0..n -> Layout] : g[0] = first /\ \A k \in 1..n : g[k] = F[k][g[k - 1]]
    BY <1>1, <1>3, Iterates DEF Iterations
  <1>6. g = R(g)
    <2>1. \A k \in 1..n : g[k] = AfterBlock(g[k - 1], function[k])
      BY <1>1, <1>4, <1>5
    <2> QED BY <1>1, <1>5, <2>1
  <1>7. f = R(f)
    BY <1>6 DEF Layouts, n, first
  <1> HIDE DEF f
  <1>8. f[0] = first /\ \A b \in 1..n : f[b] = AfterBlock(f[b - 1], function[b])
    BY <1>1, <1>7
  <1>9. \A b \in 0..n : f[b] \in Layout
    <2> DEFINE T == {b \in 0..n : f[b] \in Layout}
    <2>1. 0 \in T /\ \A k \in 1..n : k - 1 \in T => k \in T
      BY <1>1, <1>2, <1>8
    <2> HIDE DEF T
    <2>2. 0..n \subseteq T
      BY <1>1, <2>1, Climb
    <2> QED BY <2>2 DEF T
  <1> QED BY <1>8, <1>9 DEF f, n, first

\* The first pass gives every block an offset.
LEMMA BlockOffsetInNat ==
    ASSUME NEW function, WellFormed(function), NEW b \in 1..Len(function)
    PROVE  BlockOffset(function, b) \in Nat
  <1>1. Len(function) \in Nat
    BY DEF WellFormed
  <1>2. b - 1 \in 0..Len(function)
    BY <1>1
  <1>3. Layouts(function)[b - 1] \in Layout
    BY <1>2, LayoutsIs
  <1> QED BY <1>3 DEF BlockOffset, Layout

-----------------------------------------------------------------------------
(* What a terminator comes to: one instruction control does not fall out   *)
(* of, which leads to the first instruction of a block.                    *)

FinalOps == {"RETURN", "JUMP", "JUMP_IF_FALSE"}

BlockOffsets(function) == {BlockOffset(function, b) : b \in 1..Len(function)}

Exit(s, z, T) == Sound(s, z) /\ JumpTargets(Op(s), s + 1) \subseteq T /\ Op(s) \in FinalOps

\* A jump is sound wherever it leads.
LEMMA JumpIsSound ==
    ASSUME NEW s \in Nat, Starts(s, "JUMP"), s + 3 <= Len(code), NEW T, U16(code, s + 1) \in T
    PROVE  Exit(s, s + 3, T)
  <1> DEFINE op == "JUMP"
  <1>0. op \in Opcode
    BY DEF Opcode
  <1>1. IndexWidth(op) = 0 /\ op \notin CallOps /\ op \notin SequenceOps
    BY <1>0, ShapeWidths, ShapesDisjoint DEF Rest
  <1>2. Op(s) = op /\ IsOpcode(Byte(code, s))
    BY DEF Starts, Op
  <1>3. s + 1 + 2 = s + 3 /\ s < s + 3
    OBVIOUS
  <1>4. OperandsOk(op, s + 1) /\ OperandBytes(op, s + 1) = 2
    BY <1>1, <1>3 DEF OperandsOk, OperandBytes, Available
  <1>5. JumpTargets(op, s + 1) = {U16(code, s + 1)} /\ LeftOk(s)
    BY <1>1, <1>2, NothingLeft DEF JumpTargets
  <1> QED BY <1>2, <1>3, <1>4, <1>5 DEF Exit, Sound, End, FinalOps

\* A branch is sound when both its targets are.
LEMMA BranchIsSound ==
    ASSUME NEW s \in Nat, Starts(s, "JUMP_IF_FALSE"), s + 5 <= Len(code), NEW T,
           U16(code, s + 1) \in T, U16(code, s + 3) \in T
    PROVE  Exit(s, s + 5, T)
  <1> DEFINE op == "JUMP_IF_FALSE"
  <1>0. op \in Opcode
    BY DEF Opcode
  <1>1. IndexWidth(op) = 0 /\ op \notin CallOps /\ op \notin SequenceOps
    BY <1>0, ShapeWidths, ShapesDisjoint DEF Rest
  <1>2. Op(s) = op /\ IsOpcode(Byte(code, s))
    BY DEF Starts, Op
  <1>3. s + 1 + 4 = s + 5 /\ s < s + 5 /\ s + 1 + 2 = s + 3
    OBVIOUS
  <1>4. OperandsOk(op, s + 1) /\ OperandBytes(op, s + 1) = 4
    BY <1>1, <1>3 DEF OperandsOk, OperandBytes, Available
  <1>5. JumpTargets(op, s + 1) = {U16(code, s + 1), U16(code, s + 3)} /\ LeftOk(s)
    BY <1>1, <1>2, <1>3, NothingLeft DEF JumpTargets
  <1> QED BY <1>2, <1>3, <1>4, <1>5 DEF Exit, Sound, End, FinalOps

\* A return leads nowhere.
LEMMA ReturnIsSound ==
    ASSUME NEW s \in Nat, Starts(s, "RETURN"), s + 1 <= Len(code), NEW T
    PROVE  Exit(s, s + 1, T)
  <1>1. "RETURN" \in NoOperand /\ "RETURN" \in Opcode
    BY DEF NoOperand, Opcode
  <1>2. Instruction(s, s + 1)
    BY <1>1, PlainIsSound
  <1>3. Op(s) = "RETURN"
    BY DEF Starts, Op
  <1> QED BY <1>2, <1>3 DEF Exit, Instruction, FinalOps

\* The last instruction of a block, after NIL in one that returns nothing.
Closes(at, z, T) == \/ Exit(at, z, T)
                    \/ Instruction(at, at + 1) /\ Exit(at + 1, z, T)

TermLays(chunk, after, term, T) ==
    /\ Appends(chunk, after, TermSize(term))
    /\ Kept(after) => Closes(Len(chunk.code), Len(after.code), T)

\* A terminator that appends size bytes.
LEMMA TermLaysOf ==
    ASSUME NEW chunk \in Chunks, NEW after, NEW term, NEW T, NEW size \in Nat,
           Appends(chunk, after, size), TermSize(term) = size,
           Kept(after) => Closes(Len(chunk.code), Len(chunk.code) + size, T)
    PROVE  TermLays(chunk, after, term, T)
  BY DEF TermLays, Appends

\* A jump is written with the offset the first pass gave its block.
LEMMA JumpLays ==
    ASSUME NEW chunk \in Chunks, NEW function, WellFormed(function), NEW term,
           WellFormedTerm(term, function), term.kind = "JUMP"
    PROVE  TermLays(chunk, EmitTerm(chunk, term, function), term, BlockOffsets(function))
  <1> DEFINE block  == term.targets[1]
             target == BlockOffset(function, block)
             named  == WriteOpcode(chunk, "JUMP")
             after  == EmitTerm(chunk, term, function)
             at     == Len(chunk.code)
             T      == BlockOffsets(function)
  <1>1. block \in 1..Len(function) /\ Encoded("JUMP")
    BY DEF WellFormedTerm
  <1>2. target \in Nat /\ target \in T
    BY <1>1, BlockOffsetInNat DEF BlockOffsets
  <1>3. after = WriteU16(named, target)
    BY DEF EmitTerm
  <1>4. TermSize(term) = 3
    BY DEF TermSize
  <1>5. at \in Nat
    BY DEF Chunks
  <1> HIDE DEF block, target, named, after, at, T
  <1>6. Appends(chunk, named, 1) /\ (Kept(named) => Starts(at, "JUMP")) /\ named \in Chunks /\ Len(named.code) = at + 1
    BY <1>1, WriteOpcodeAppends DEF named, at, Appends
  <1>7. Appends(named, after, 2) /\ (Kept(after) => U16(code, at + 1) = target)
    BY <1>2, <1>3, <1>6, WriteU16Appends
  <1>8. Appends(chunk, after, 3)
    <2>1. Appends(chunk, after, 1 + 2)
      BY <1>6, <1>7, AppendsOn
    <2> QED BY <2>1
  <1>9. ASSUME Kept(after) PROVE Closes(at, at + 3, T)
    <2>1. at + 3 <= Len(code)
      BY <1>8, <1>9, EndsInside DEF at
    <2>2. Starts(at, "JUMP") /\ U16(code, at + 1) \in T
      BY <1>2, <1>6, <1>7, <1>9 DEF Appends
    <2>3. Exit(at, at + 3, T)
      BY <1>5, <2>1, <2>2, JumpIsSound
    <2> QED BY <2>3 DEF Closes
  <1> QED BY <1>4, <1>8, <1>9, TermLaysOf DEF after, at, T

\* A branch is written with the offsets of both its blocks.
LEMMA BranchLays ==
    ASSUME NEW chunk \in Chunks, NEW function, WellFormed(function), NEW term,
           WellFormedTerm(term, function), term.kind = "BRANCH"
    PROVE  TermLays(chunk, EmitTerm(chunk, term, function), term, BlockOffsets(function))
  <1> DEFINE yes    == BlockOffset(function, term.targets[1])
             no     == BlockOffset(function, term.targets[2])
             named  == WriteOpcode(chunk, "JUMP_IF_FALSE")
             middle == WriteU16(named, yes)
             after  == EmitTerm(chunk, term, function)
             at     == Len(chunk.code)
             T      == BlockOffsets(function)
  <1>1. term.targets[1] \in 1..Len(function) /\ term.targets[2] \in 1..Len(function) /\ Encoded("JUMP_IF_FALSE")
    BY DEF WellFormedTerm
  <1>2. yes \in Nat /\ yes \in T /\ no \in Nat /\ no \in T
    BY <1>1, BlockOffsetInNat DEF BlockOffsets
  <1>3. after = WriteU16(middle, no)
    BY DEF EmitTerm
  <1>4. TermSize(term) = 5
    BY DEF TermSize
  <1>5. at \in Nat
    BY DEF Chunks
  <1> HIDE DEF yes, no, named, middle, after, at, T
  <1>6. /\ Appends(chunk, named, 1) /\ (Kept(named) => Starts(at, "JUMP_IF_FALSE"))
        /\ named \in Chunks /\ Len(named.code) = at + 1
    BY <1>1, WriteOpcodeAppends DEF named, at, Appends
  <1>7. /\ Appends(named, middle, 2) /\ (Kept(middle) => U16(code, at + 1) = yes)
        /\ middle \in Chunks /\ Len(middle.code) = at + 3
    <2>1. Appends(named, middle, 2) /\ (Kept(middle) => U16(code, at + 1) = yes)
      BY <1>2, <1>6, WriteU16Appends DEF middle
    <2>2. middle \in Chunks /\ Len(middle.code) = at + 1 + 2 /\ at + 1 + 2 = at + 3
      BY <1>5, <1>6, <2>1 DEF Appends
    <2> QED BY <2>1, <2>2
  <1>8. Appends(middle, after, 2) /\ (Kept(after) => U16(code, at + 3) = no)
    BY <1>2, <1>3, <1>7, WriteU16Appends
  <1>9. Appends(chunk, after, 5)
    <2>1. Appends(chunk, middle, 1 + 2)
      BY <1>6, <1>7, AppendsOn
    <2>2. Appends(chunk, after, 1 + 2 + 2)
      BY <1>8, <2>1, AppendsOn
    <2> QED BY <2>2
  <1>10. ASSUME Kept(after) PROVE Closes(at, at + 5, T)
    <2>1. at + 5 <= Len(code)
      BY <1>9, <1>10, EndsInside DEF at
    <2>2. Starts(at, "JUMP_IF_FALSE") /\ U16(code, at + 1) \in T /\ U16(code, at + 3) \in T
      BY <1>2, <1>6, <1>7, <1>8, <1>10 DEF Appends
    <2>3. Exit(at, at + 5, T)
      BY <1>5, <2>1, <2>2, BranchIsSound
    <2> QED BY <2>3 DEF Closes
  <1> QED BY <1>4, <1>9, <1>10, TermLaysOf DEF after, at, T

\* A return is one byte, and NIL before it when there is no value.
LEMMA ReturnLays ==
    ASSUME NEW chunk \in Chunks, NEW function, NEW term,
           WellFormedTerm(term, function), term.kind \in {"RETURN_NIL", "RETURN_VALUE"}
    PROVE  TermLays(chunk, EmitTerm(chunk, term, function), term, BlockOffsets(function))
  <1> DEFINE after == EmitTerm(chunk, term, function)
             at    == Len(chunk.code)
             T     == BlockOffsets(function)
  <1>0. at \in Nat /\ Encoded("RETURN")
    BY DEF Chunks, WellFormedTerm
  <1> HIDE DEF at
  <1>1. CASE term.kind = "RETURN_VALUE"
    <2>1. after = WriteOpcode(chunk, "RETURN") /\ TermSize(term) = 1
      BY <1>1 DEF EmitTerm, TermSize
    <2> HIDE DEF after, T
    <2>2. Appends(chunk, after, 1) /\ (Kept(after) => Starts(at, "RETURN"))
      BY <1>0, <2>1, WriteOpcodeAppends DEF at
    <2>3. ASSUME Kept(after) PROVE Closes(at, at + 1, T)
      <3>1. at + 1 <= Len(code)
        BY <2>2, <2>3, EndsInside DEF at
      <3>2. Exit(at, at + 1, T)
        BY <1>0, <2>2, <2>3, <3>1, ReturnIsSound
      <3> QED BY <3>2 DEF Closes
    <2> QED BY <2>1, <2>2, <2>3, TermLaysOf DEF after, at, T
  <1>2. CASE term.kind = "RETURN_NIL"
    <2> DEFINE nil == WriteOpcode(chunk, "NIL")
    <2>1. after = WriteOpcode(nil, "RETURN") /\ TermSize(term) = 2 /\ Encoded("NIL")
      BY <1>2 DEF EmitTerm, TermSize, WellFormedTerm
    <2> HIDE DEF after, T, nil
    <2>2. Appends(chunk, nil, 1) /\ (Kept(nil) => Starts(at, "NIL")) /\ nil \in Chunks /\ Len(nil.code) = at + 1
      BY <2>1, WriteOpcodeAppends DEF nil, at, Appends
    <2>3. Appends(nil, after, 1) /\ (Kept(after) => Starts(at + 1, "RETURN"))
      BY <1>0, <2>1, <2>2, WriteOpcodeAppends
    <2>4. Appends(chunk, after, 2)
      <3>1. Appends(chunk, after, 1 + 1)
        BY <2>2, <2>3, AppendsOn
      <3> QED BY <3>1
    <2>5. ASSUME Kept(after) PROVE Closes(at, at + 2, T)
      <3>1. at + 2 <= Len(code) /\ Len(code) \in Nat
        BY <2>4, <2>5, EndsInside DEF at
      <3>2. Starts(at, "NIL") /\ Starts(at + 1, "RETURN")
        BY <2>2, <2>3, <2>5 DEF Appends
      <3>3. at + 1 <= Len(code) /\ at + 1 \in Nat /\ at + 1 + 1 = at + 2
        BY <1>0, <3>1
      <3>4. "NIL" \in NoOperand /\ "NIL" \in Opcode
        BY DEF NoOperand, PlainOps, Opcode
      <3>5. Instruction(at, at + 1)
        BY <1>0, <3>2, <3>3, <3>4, PlainIsSound
      <3>6. Exit(at + 1, at + 1 + 1, T)
        BY <3>1, <3>2, <3>3, ReturnIsSound
      <3> QED BY <3>3, <3>5, <3>6 DEF Closes
    <2> QED BY <2>1, <2>4, <2>5, TermLaysOf DEF after, at, T
  <1> QED BY <1>1, <1>2

\* emit_term writes what term_size counted, and leads to blocks.
LEMMA EveryTermLays ==
    ASSUME NEW chunk \in Chunks, NEW function, WellFormed(function), NEW term, WellFormedTerm(term, function)
    PROVE  TermLays(chunk, EmitTerm(chunk, term, function), term, BlockOffsets(function))
  <1>1. term.kind \in {"JUMP", "BRANCH", "RETURN_NIL", "RETURN_VALUE"}
    BY DEF WellFormedTerm
  <1> QED BY <1>1, JumpLays, BranchLays, ReturnLays


-----------------------------------------------------------------------------
(* The second pass, block by block.                                        *)

\* What is written of one block: its instructions, then its terminator.
Body(chunk, block) == EmitInstrs(chunk, block.instrs)[Len(block.instrs)]
EmitBlock(chunk, block, function) == EmitTerm(Body(chunk, block), block.term, function)

\* A block is written onto a chunk.
LEMMA EmitBlockInChunks ==
    ASSUME NEW chunk \in Chunks, NEW function, WellFormed(function), NEW b \in 1..Len(function)
    PROVE  /\ Body(chunk, function[b]) \in Chunks
           /\ EmitBlock(chunk, function[b], function) \in Chunks
  <1> DEFINE block == function[b]
  <1>1. WellFormedInstrs(block.instrs) /\ WellFormedTerm(block.term, function)
    BY BlockIsWellFormed
  <1> HIDE DEF block
  <1>2. Len(block.instrs) \in 0..Len(block.instrs)
    BY <1>1 DEF WellFormedInstrs
  <1>3. Body(chunk, block) \in Chunks
    BY <1>1, <1>2, EmitInstrsIs DEF Body
  <1>4. EmitBlock(chunk, block, function) \in Chunks
    BY <1>1, <1>3, EveryTermLays DEF TermLays, Appends, EmitBlock
  <1> QED BY <1>3, <1>4 DEF block

\* emit_fn goes from one block to the next.
LEMMA EmitIs ==
    ASSUME NEW function, WellFormed(function)
    PROVE  /\ Emit(function)[0] = [code |-> <<>>, constants |-> 0, failed |-> FALSE]
           /\ \A b \in 1..Len(function) :
                 Emit(function)[b] = EmitBlock(Emit(function)[b - 1], function[b], function)
           /\ \A b \in 0..Len(function) : Emit(function)[b] \in Chunks
  <1> DEFINE n == Len(function)
             first == [code |-> <<>>, constants |-> 0, failed |-> FALSE]
             f == Emit(function)
             F == [k \in 1..n |-> [x \in Chunks |-> EmitBlock(x, function[k], function)]]
             R(g) == [b \in 0..n |-> IF b = 0 THEN first ELSE EmitBlock(g[b - 1], function[b], function)]
  <1>1. n \in Nat /\ first \in Chunks
    BY DEF WellFormed, Chunks
  <1>2. \A k \in 1..n : \A x \in Chunks : EmitBlock(x, function[k], function) \in Chunks
    BY EmitBlockInChunks
  <1>3. F \in [1..n -> [Chunks -> Chunks]]
    BY <1>2
  <1>4. \A k \in 1..n : \A x \in Chunks : F[k][x] = EmitBlock(x, function[k], function)
    OBVIOUS
  <1> HIDE DEF n, F, first
  <1>5. PICK g \in [0..n -> Chunks] : g[0] = first /\ \A k \in 1..n : g[k] = F[k][g[k - 1]]
    BY <1>1, <1>3, Iterates DEF Iterations
  <1>6. g = R(g)
    <2>1. \A k \in 1..n : g[k] = EmitBlock(g[k - 1], function[k], function)
      BY <1>1, <1>4, <1>5
    <2> QED BY <1>1, <1>5, <2>1
  <1>7. f = R(f)
    BY <1>6 DEF Emit, EmitBlock, Body, n, first
  <1> HIDE DEF f
  <1>8. f[0] = first /\ \A b \in 1..n : f[b] = EmitBlock(f[b - 1], function[b], function)
    BY <1>1, <1>7
  <1>9. \A b \in 0..n : f[b] \in Chunks
    <2> DEFINE T == {b \in 0..n : f[b] \in Chunks}
    <2>1. 0 \in T /\ \A k \in 1..n : k - 1 \in T => k \in T
      BY <1>1, <1>2, <1>8
    <2> HIDE DEF T
    <2>2. 0..n \subseteq T
      BY <1>1, <2>1, Climb
    <2> QED BY <2>2 DEF T
  <1> QED BY <1>8, <1>9 DEF f, n, first

-----------------------------------------------------------------------------
(* Instructions that follow each other without a gap.                      *)

\* The instructions that start at the offsets in S take up the code from a to
\* z, and their jumps lead into T.
Unbroken(S, a, z, T) ==
    /\ a \in Nat /\ z \in Nat /\ a <= z
    /\ \A s \in S : a <= s /\ s < z
    /\ a \in S \cup {z}
    /\ \A s \in S : Sound(s, End(s)) /\ JumpTargets(Op(s), s + 1) \subseteq T /\ End(s) \in S \cup {z}
    /\ \A s \in S : \A t \in S : s < t => End(s) <= t

Runs(a, z, T) == {S \in SUBSET Nat : Unbroken(S, a, z, T)}

\* Control does not go on past the last of them.
ClosedRuns(a, z, T) == {S \in Runs(a, z, T) : \A s \in S : End(s) = z => Op(s) \in FinalOps}

\* No instruction takes up nothing.
LEMMA NoRun ==
    ASSUME NEW a \in Nat, NEW T
    PROVE  {} \in Runs(a, a, T)
  BY DEF Runs, Unbroken

\* One instruction.
LEMMA OneRuns ==
    ASSUME NEW s \in Nat, NEW z \in Nat, NEW T, Sound(s, z), JumpTargets(Op(s), s + 1) \subseteq T
    PROVE  {s} \in Runs(s, z, T)
  <1>1. End(s) = z /\ s < z
    BY DEF Sound
  <1> QED BY <1>1 DEF Runs, Unbroken

\* An instruction of a run ends no further than the run.
LEMMA EndsInRun ==
    ASSUME NEW a, NEW z, NEW T, NEW S \in Runs(a, z, T), NEW s \in S
    PROVE  End(s) \in Nat /\ End(s) <= z /\ s < End(s)
  <1>1. Unbroken(S, a, z, T) /\ S \subseteq Nat
    BY DEF Runs
  <1>2. Sound(s, End(s)) /\ End(s) \in S \cup {z} /\ z \in Nat
    BY <1>1 DEF Unbroken
  <1>3. \A t \in S : t < z
    BY <1>1 DEF Unbroken
  <1>4. s < End(s)
    BY <1>2 DEF Sound
  <1> DEFINE e == End(s)
  <1> HIDE DEF e
  <1>5. e \in S \cup {z} /\ s < e
    BY <1>2, <1>4 DEF e
  <1>6. e \in Nat /\ e <= z
    <2>1. CASE e = z
      BY <2>1, <1>2
    <2>2. CASE e \in S
      <3>1. e \in Nat /\ e < z
        BY <2>2, <1>1, <1>3
      <3> QED BY <3>1, <1>2
    <2> QED BY <2>1, <2>2, <1>5
  <1> QED BY <1>5, <1>6 DEF e

\* Instructions that follow others.
LEMMA RunsFollow ==
    ASSUME NEW a, NEW m, NEW z, NEW T, NEW S \in Runs(a, m, T), NEW R \in Runs(m, z, T)
    PROVE  S \cup R \in Runs(a, z, T)
  <1>1. Unbroken(S, a, m, T) /\ Unbroken(R, m, z, T) /\ S \subseteq Nat /\ R \subseteq Nat
    BY DEF Runs
  <1>2. a \in Nat /\ m \in Nat /\ z \in Nat /\ a <= m /\ m <= z
    BY <1>1 DEF Unbroken
  <1>3. (\A s \in S : a <= s /\ s < m) /\ \A s \in R : m <= s /\ s < z
    BY <1>1 DEF Unbroken
  <1>4. \A s \in S \cup R : a <= s /\ s < z
    BY <1>1, <1>2, <1>3
  <1>5. m \in R \cup {z} /\ a \in S \cup {m}
    BY <1>1 DEF Unbroken
  <1>6. ASSUME NEW s \in S \cup R
        PROVE  Sound(s, End(s)) /\ JumpTargets(Op(s), s + 1) \subseteq T /\ End(s) \in (S \cup R) \cup {z}
    <2>1. CASE s \in S
      BY <2>1, <1>1, <1>5 DEF Unbroken
    <2>2. CASE s \in R
      BY <2>2, <1>1 DEF Unbroken
    <2> QED BY <2>1, <2>2
  <1>7. ASSUME NEW s \in S \cup R, NEW t \in S \cup R, s < t
        PROVE  End(s) <= t
    <2>1. CASE s \in S /\ t \in S
      BY <2>1, <1>1, <1>7 DEF Unbroken
    <2>2. CASE s \in R /\ t \in R
      BY <2>2, <1>1, <1>7 DEF Unbroken
    <2>3. CASE s \in S /\ t \in R
      <3>1. End(s) \in Nat /\ End(s) <= m
        BY <2>3, EndsInRun
      <3> QED BY <3>1, <2>3, <1>1, <1>2, <1>3
    <2>4. CASE s \in R /\ t \in S
      BY <2>4, <1>1, <1>2, <1>3, <1>7
    <2> QED BY <2>1, <2>2, <2>3, <2>4
  <1>8. a \in (S \cup R) \cup {z}
    BY <1>5
  <1>9. a <= z
    BY <1>2
  <1>10. Unbroken(S \cup R, a, z, T)
    BY <1>2, <1>4, <1>6, <1>7, <1>8, <1>9 DEF Unbroken
  <1> QED BY <1>1, <1>10 DEF Runs

\* The last ones decide where control can go.
LEMMA ClosedRunsFollow ==
    ASSUME NEW a, NEW m, NEW z, NEW T, NEW S \in Runs(a, m, T), NEW R \in ClosedRuns(m, z, T), m < z
    PROVE  S \cup R \in ClosedRuns(a, z, T)
  <1>1. R \in Runs(m, z, T) /\ \A s \in R : End(s) = z => Op(s) \in FinalOps
    BY DEF ClosedRuns
  <1>2. S \cup R \in Runs(a, z, T)
    BY <1>1, RunsFollow
  <1>3. m \in Nat /\ z \in Nat
    BY <1>1 DEF Runs, Unbroken
  <1>4. \A s \in S : End(s) \in Nat /\ End(s) <= m
    BY EndsInRun
  <1>5. \A s \in S : End(s) # z
    BY <1>3, <1>4
  <1> QED BY <1>1, <1>2, <1>5 DEF ClosedRuns

\* The end of a block.
LEMMA ClosesRuns ==
    ASSUME NEW at \in Nat, NEW z \in Nat, NEW T, Closes(at, z, T)
    PROVE  at < z /\ ClosedRuns(at, z, T) # {}
  <1>1. ASSUME NEW s \in Nat, Exit(s, z, T)
        PROVE  s < z /\ {s} \in ClosedRuns(s, z, T)
    <2>1. Sound(s, z) /\ JumpTargets(Op(s), s + 1) \subseteq T /\ Op(s) \in FinalOps
      BY <1>1 DEF Exit
    <2>2. {s} \in Runs(s, z, T)
      BY <2>1, OneRuns
    <2> QED BY <2>1, <2>2 DEF ClosedRuns, Sound
  <1>2. CASE Exit(at, z, T)
    BY <1>1, <1>2
  <1>3. CASE Instruction(at, at + 1) /\ Exit(at + 1, z, T)
    <2>1. at + 1 \in Nat
      OBVIOUS
    <2>2. at + 1 < z /\ {at + 1} \in ClosedRuns(at + 1, z, T)
      BY <1>1, <1>3, <2>1
    <2>3. Sound(at, at + 1) /\ JumpTargets(Op(at), at + 1) \subseteq T
      BY <1>3 DEF Instruction
    <2>4. {at} \in Runs(at, at + 1, T)
      BY <2>1, <2>3, OneRuns
    <2>5. {at} \cup {at + 1} \in ClosedRuns(at, z, T)
      BY <2>2, <2>4, ClosedRunsFollow
    <2> QED BY <2>2, <2>5
  <1> QED BY <1>2, <1>3 DEF Closes

-----------------------------------------------------------------------------
(* A block, and then a function.                                           *)

\* The layout and the chunk are at the same place.
Matches(layout, chunk) == layout.offset = Len(chunk.code) /\ layout.constants = chunk.constants

\* The two passes stay at the same place over an instruction ...
LEMMA InstrMatches ==
    ASSUME NEW chunk \in Chunks, NEW layout \in Layout, Matches(layout, chunk),
           NEW instr, WellFormedInstr(instr)
    PROVE  Matches(LaidOut(layout, instr), EmitInstr(chunk, instr))
  <1> DEFINE after == EmitInstr(chunk, instr)
             next  == LaidOut(layout, instr)
  <1>1. /\ Len(after.code) = Len(chunk.code) + InstrSize(instr, chunk.constants)
        /\ after.constants = chunk.constants + Counted(instr)
    BY InstrLays DEF Lays
  <1>2. /\ next.offset = layout.offset + InstrSize(instr, layout.constants)
        /\ next.constants = layout.constants + Counted(instr)
    BY DEF LaidOut, Counted
  <1> HIDE DEF after, next
  <1>3. Matches(next, after)
    BY <1>1, <1>2 DEF Matches
  <1> QED BY <1>3 DEF next, after

\* ... over the instructions of a block ...
LEMMA BodyMatches ==
    ASSUME NEW chunk \in Chunks, NEW layout \in Layout, Matches(layout, chunk),
           NEW instrs, WellFormedInstrs(instrs)
    PROVE  Matches(InBlock(layout, instrs)[Len(instrs)], EmitInstrs(chunk, instrs)[Len(instrs)])
  <1> DEFINE n == Len(instrs)
             l == InBlock(layout, instrs)
             c == EmitInstrs(chunk, instrs)
             T == {i \in 0..n : Matches(l[i], c[i])}
  <1>1. n \in Nat /\ \A i \in 1..n : WellFormedInstr(instrs[i])
    BY DEF WellFormedInstrs
  <1>2. /\ l[0] = layout /\ \A i \in 1..n : l[i] = LaidOut(l[i - 1], instrs[i])
        /\ \A i \in 0..n : l[i] \in Layout
    BY InBlockIs
  <1>3. /\ c[0] = chunk /\ \A i \in 1..n : c[i] = EmitInstr(c[i - 1], instrs[i])
        /\ \A i \in 0..n : c[i] \in Chunks
    BY EmitInstrsIs
  <1> HIDE DEF n, l, c
  <1>4. 0 \in T
    BY <1>1, <1>2, <1>3
  <1>5. ASSUME NEW k \in 1..n, k - 1 \in T
        PROVE  k \in T
    <2>1. k - 1 \in 0..n /\ k \in 0..n
      BY <1>1
    <2>2. Matches(l[k - 1], c[k - 1]) /\ l[k - 1] \in Layout /\ c[k - 1] \in Chunks
      BY <1>2, <1>3, <1>5, <2>1
    <2>3. Matches(LaidOut(l[k - 1], instrs[k]), EmitInstr(c[k - 1], instrs[k]))
      BY <1>1, <2>2, InstrMatches
    <2> QED BY <1>2, <1>3, <2>1, <2>3
  <1> HIDE DEF T
  <1>6. 0..n \subseteq T
    BY <1>1, <1>4, <1>5, Climb
  <1>7. Matches(l[n], c[n])
    BY <1>1, <1>6 DEF T
  <1> QED BY <1>7 DEF n, l, c

\* ... and over the block.
LEMMA BlockMatches ==
    ASSUME NEW chunk \in Chunks, NEW layout \in Layout, Matches(layout, chunk),
           NEW function, WellFormed(function), NEW b \in 1..Len(function)
    PROVE  Matches(AfterBlock(layout, function[b]), EmitBlock(chunk, function[b], function))
  <1> DEFINE block == function[b]
             n     == Len(block.instrs)
             laid  == InBlock(layout, block.instrs)[n]
             body  == Body(chunk, block)
             after == EmitBlock(chunk, block, function)
  <1>1. WellFormedInstrs(block.instrs) /\ WellFormedTerm(block.term, function)
    BY BlockIsWellFormed
  <1> HIDE DEF block
  <1>2. Matches(laid, body)
    BY <1>1, BodyMatches DEF Body
  <1>3. laid \in Layout
    <2>1. n \in 0..n
      BY <1>1 DEF WellFormedInstrs
    <2> QED BY <1>1, <2>1, InBlockIs
  <1>4. body \in Chunks
    BY EmitBlockInChunks DEF block
  <1>5. Appends(body, after, TermSize(block.term))
    BY <1>1, <1>4, EveryTermLays DEF TermLays, EmitBlock
  <1>6. AfterBlock(layout, block) = [laid EXCEPT !.offset = @ + TermSize(block.term)]
    BY DEF AfterBlock
  <1> HIDE DEF laid, body, after
  <1>7. /\ AfterBlock(layout, block).offset = laid.offset + TermSize(block.term)
        /\ AfterBlock(layout, block).constants = laid.constants
    BY <1>3, <1>6 DEF Layout
  <1>8. Matches(AfterBlock(layout, block), after)
    BY <1>2, <1>5, <1>7 DEF Matches, Appends
  <1> QED BY <1>8 DEF after, block

\* The instructions of a block follow each other.
LEMMA BodyRuns ==
    ASSUME NEW chunk \in Chunks, NEW instrs, WellFormedInstrs(instrs), NEW T,
           Kept(EmitInstrs(chunk, instrs)[Len(instrs)])
    PROVE  /\ Kept(chunk)
           /\ Runs(Len(chunk.code), Len(EmitInstrs(chunk, instrs)[Len(instrs)].code), T) # {}
  <1> DEFINE n == Len(instrs)
             c == EmitInstrs(chunk, instrs)
             K == {i \in 0..n : Kept(c[i])}
             R == {i \in 0..n : Runs(Len(chunk.code), Len(c[i].code), T) # {}}
  <1>1. n \in Nat /\ \A i \in 1..n : WellFormedInstr(instrs[i])
    BY DEF WellFormedInstrs
  <1>2. /\ c[0] = chunk /\ \A i \in 1..n : c[i] = EmitInstr(c[i - 1], instrs[i])
        /\ \A i \in 0..n : c[i] \in Chunks
    BY EmitInstrsIs
  <1>3. Kept(c[n])
    OBVIOUS
  <1> HIDE DEF n, c
  <1>4. \A k \in 1..n : Lays(c[k - 1], c[k], instrs[k])
    <2> TAKE k \in 1..n
    <2>1. k - 1 \in 0..n
      BY <1>1
    <2>2. Lays(c[k - 1], EmitInstr(c[k - 1], instrs[k]), instrs[k])
      BY <1>1, <1>2, <2>1, InstrLays
    <2> QED BY <1>2, <2>2
  <1>5. n \in K /\ \A k \in 1..n : k \in K => k - 1 \in K
    <2>1. \A k \in 1..n : k - 1 \in 0..n
      BY <1>1
    <2>2. \A k \in 1..n : Kept(c[k]) => Kept(c[k - 1])
      BY <1>4 DEF Lays
    <2> QED BY <1>1, <1>3, <2>1, <2>2
  <1>6. \A i \in 0..n : Kept(c[i])
    <2> HIDE DEF K
    <2>1. 0..n \subseteq K
      BY <1>1, <1>5, Descend
    <2> QED BY <2>1 DEF K
  <1>7. \A i \in 0..n : Len(c[i].code) \in Nat
    BY <1>2 DEF Chunks
  <1>8. 0 \in R
    <2>1. {} \in Runs(Len(c[0].code), Len(c[0].code), T)
      BY <1>1, <1>7, NoRun
    <2> QED BY <1>1, <1>2, <2>1
  <1>9. ASSUME NEW k \in 1..n, k - 1 \in R
        PROVE  k \in R
    <2>1. k - 1 \in 0..n /\ k \in 0..n
      BY <1>1
    <2> DEFINE m == Len(c[k - 1].code)
               z == Len(c[k].code)
    <2>2. m \in Nat /\ z \in Nat
      BY <1>7, <2>1
    <2>3. Instruction(m, z)
      BY <1>4, <1>6, <2>1 DEF Lays
    <2>4. PICK S \in Runs(Len(chunk.code), m, T) : TRUE
      BY <1>9
    <2> HIDE DEF m, z
    <2>5. {m} \in Runs(m, z, T)
      BY <2>2, <2>3, OneRuns DEF Instruction
    <2>6. S \cup {m} \in Runs(Len(chunk.code), z, T)
      BY <2>5, RunsFollow
    <2> QED BY <2>1, <2>6 DEF z
  <1> HIDE DEF R
  <1>10. 0..n \subseteq R
    BY <1>1, <1>8, <1>9, Climb
  <1>11. Kept(chunk) /\ Runs(Len(chunk.code), Len(c[n].code), T) # {}
    BY <1>1, <1>2, <1>6, <1>10 DEF R
  <1> QED BY <1>11 DEF n, c

\* A block starts at an instruction, and control does not go on past its end.
LEMMA BlockRuns ==
    ASSUME NEW chunk \in Chunks, NEW function, WellFormed(function), NEW b \in 1..Len(function),
           Kept(EmitBlock(chunk, function[b], function))
    PROVE  /\ Kept(chunk)
           /\ Len(chunk.code) < Len(EmitBlock(chunk, function[b], function).code)
           /\ ClosedRuns(Len(chunk.code), Len(EmitBlock(chunk, function[b], function).code),
                         BlockOffsets(function)) # {}
  <1> DEFINE block == function[b]
             body  == Body(chunk, block)
             after == EmitBlock(chunk, block, function)
             T     == BlockOffsets(function)
             a     == Len(chunk.code)
             m     == Len(body.code)
             z     == Len(after.code)
  <1>1. WellFormedInstrs(block.instrs) /\ WellFormedTerm(block.term, function)
    BY BlockIsWellFormed
  <1>2. body \in Chunks /\ after \in Chunks
    BY EmitBlockInChunks
  <1>3. Kept(after)
    OBVIOUS
  <1> HIDE DEF block
  <1>4. TermLays(body, after, block.term, T)
    BY <1>1, <1>2, EveryTermLays DEF EmitBlock
  <1>5. Kept(body) /\ Closes(m, z, T)
    BY <1>3, <1>4 DEF TermLays, Appends
  <1>6. Kept(chunk) /\ Runs(a, m, T) # {}
    BY <1>1, <1>5, BodyRuns DEF Body
  <1>7. a \in Nat /\ m \in Nat /\ z \in Nat
    BY <1>2 DEF Chunks
  <1> HIDE DEF body, after, T, a, m, z
  <1>8. m < z /\ ClosedRuns(m, z, T) # {}
    BY <1>5, <1>7, ClosesRuns
  <1>9. PICK S \in Runs(a, m, T) : TRUE
    BY <1>6
  <1>10. PICK R \in ClosedRuns(m, z, T) : TRUE
    BY <1>8
  <1>11. S \cup R \in ClosedRuns(a, z, T)
    BY <1>8, ClosedRunsFollow
  <1>12. a <= m
    BY <1>9 DEF Runs, Unbroken
  <1>13. a < z
    BY <1>7, <1>8, <1>12
  <1> QED BY <1>6, <1>11, <1>13 DEF a, z, T, after, block

\* The second pass is where the first one said, before and after each block.
LEMMA PassesMatch ==
    ASSUME NEW function, WellFormed(function)
    PROVE  \A b \in 0..Len(function) : Matches(Layouts(function)[b], Emit(function)[b])
  <1> DEFINE n == Len(function)
             l == Layouts(function)
             c == Emit(function)
             T == {b \in 0..n : Matches(l[b], c[b])}
  <1>1. n \in Nat
    BY DEF WellFormed
  <1>2. /\ l[0] = [offset |-> 0, constants |-> 0]
        /\ \A b \in 1..n : l[b] = AfterBlock(l[b - 1], function[b])
        /\ \A b \in 0..n : l[b] \in Layout
    BY LayoutsIs
  <1>3. /\ c[0] = [code |-> <<>>, constants |-> 0, failed |-> FALSE]
        /\ \A b \in 1..n : c[b] = EmitBlock(c[b - 1], function[b], function)
        /\ \A b \in 0..n : c[b] \in Chunks
    BY EmitIs
  <1> HIDE DEF l, c
  <1>4. 0 \in T
    BY <1>1, <1>2, <1>3 DEF Matches
  <1>5. ASSUME NEW k \in 1..n, k - 1 \in T
        PROVE  k \in T
    <2>1. k - 1 \in 0..n /\ k \in 0..n
      BY <1>1
    <2>2. Matches(l[k - 1], c[k - 1]) /\ l[k - 1] \in Layout /\ c[k - 1] \in Chunks
      BY <1>2, <1>3, <1>5, <2>1
    <2>3. Matches(AfterBlock(l[k - 1], function[k]), EmitBlock(c[k - 1], function[k], function))
      BY <2>2, BlockMatches
    <2> QED BY <1>2, <1>3, <2>1, <2>3
  <1> HIDE DEF T, n
  <1>6. 0..n \subseteq T
    BY <1>1, <1>4, <1>5, Climb
  <1> QED BY <1>6 DEF T, n, l, c

\* The code of a function is all there is of its last chunk.
Compiled(function) ==
    /\ WellFormed(function)
    /\ ~Emit(function)[Len(function)].failed
    /\ code = Emit(function)[Len(function)].code

\* All the chunks of a function that compiled are the beginning of its code,
\* which holds only bytes.
LEMMA CompiledIsKept ==
    ASSUME NEW function, Compiled(function)
    PROVE  /\ CodeOK
           /\ \A b \in 0..Len(function) : Kept(Emit(function)[b])
  <1> DEFINE n == Len(function)
             c == Emit(function)
             K == {b \in 0..n : Kept(c[b])}
  <1>1. n \in Nat /\ WellFormed(function)
    BY DEF Compiled, WellFormed
  <1>2. n \in 0..n
    BY <1>1
  <1>3. /\ \A b \in 1..n : c[b] = EmitBlock(c[b - 1], function[b], function)
        /\ \A b \in 0..n : c[b] \in Chunks
    BY <1>1, EmitIs
  <1>4. Layouts(function)[n].constants <= TableSize["constants"]
    BY <1>1 DEF WellFormed
  <1>5. Matches(Layouts(function)[n], c[n])
    BY <1>1, <1>2, PassesMatch
  <1>6. code \in Seq(Bytes) /\ code = c[n].code /\ ~c[n].failed
    BY <1>2, <1>3 DEF Compiled, Chunks
  <1> HIDE DEF n, c
  <1>7. CodeOK
    <2>1. code \in Seq(Nat) /\ \A i \in 1..Len(code) : code[i] \in Bytes
      BY ONLY <1>6 DEF Bytes
    <2> QED BY <2>1 DEF CodeOK, IsByte, Bytes
  <1>8. Kept(c[n])
    <2>1. c[n].constants <= TableSize["constants"]
      BY <1>4, <1>5 DEF Matches
    <2>2. Prefix(c[n].code)
      <3>1. Len(code) \in Nat
        BY <1>6
      <3> QED BY <3>1, <1>6 DEF Prefix
    <2> QED BY <2>1, <2>2, <1>6 DEF Kept
  <1>9. n \in K /\ \A k \in 1..n : k \in K => k - 1 \in K
    <2>1. ASSUME NEW k \in 1..n, Kept(c[k])
          PROVE  k - 1 \in 0..n /\ Kept(c[k - 1])
      <3>1. k - 1 \in 0..n
        BY <1>1
      <3>2. c[k - 1] \in Chunks /\ Kept(EmitBlock(c[k - 1], function[k], function))
        BY <1>3, <2>1, <3>1
      <3>3. k \in 1..Len(function)
        BY DEF n
      <3> QED BY <1>1, <3>1, <3>2, <3>3, BlockRuns
    <2> QED BY <1>2, <1>8, <2>1
  <1> HIDE DEF K
  <1>10. 0..n \subseteq K
    BY <1>1, <1>9, Descend
  <1>11. \A b \in 0..n : Kept(c[b])
    BY <1>10 DEF K
  <1> QED BY <1>7, <1>11 DEF n, c

\* The code of a function is instructions that follow each other without a
\* gap; control does not go on past the last, and no jump leads anywhere but
\* to one of them.
THEOREM FunctionRuns ==
    ASSUME NEW function, Compiled(function)
    PROVE  /\ 0 < Len(code)
           /\ \E S \in ClosedRuns(0, Len(code), BlockOffsets(function)) : BlockOffsets(function) \subseteq S
  <1> DEFINE n    == Len(function)
             c    == Emit(function)
             T    == BlockOffsets(function)
             z(b) == Len(c[b].code)
             B    == {b \in 0..n : \E S \in Runs(0, z(b), T) :
                                      /\ \A d \in 1..b : BlockOffset(function, d) \in S
                                      /\ b # 0 => S \in ClosedRuns(0, z(b), T) /\ 0 < z(b)}
  <1>1. WellFormed(function)
    BY DEF Compiled
  <1>2. n \in Nat /\ n # 0
    BY <1>1 DEF WellFormed
  <1>3. /\ c[0] = [code |-> <<>>, constants |-> 0, failed |-> FALSE]
        /\ \A b \in 1..n : c[b] = EmitBlock(c[b - 1], function[b], function)
        /\ \A b \in 0..n : c[b] \in Chunks
    BY <1>1, EmitIs
  <1>4. \A b \in 0..n : Kept(c[b])
    BY CompiledIsKept
  <1>5. \A b \in 1..n : BlockOffset(function, b) = z(b - 1)
    <2> TAKE b \in 1..n
    <2>1. b - 1 \in 0..Len(function)
      BY <1>2
    <2>2. Matches(Layouts(function)[b - 1], c[b - 1])
      BY <1>1, <2>1, PassesMatch
    <2> QED BY <2>2 DEF Matches, BlockOffset
  <1>6. ASSUME NEW b \in 1..n
        PROVE  z(b - 1) < z(b) /\ ClosedRuns(z(b - 1), z(b), T) # {}
    <2>1. b - 1 \in 0..n /\ b \in 0..n /\ b \in 1..Len(function)
      BY <1>2
    <2>2. c[b - 1] \in Chunks /\ Kept(EmitBlock(c[b - 1], function[b], function))
      BY <1>3, <1>4, <2>1
    <2> HIDE DEF c, T, n
    <2>3. /\ Len(c[b - 1].code) < Len(EmitBlock(c[b - 1], function[b], function).code)
          /\ ClosedRuns(Len(c[b - 1].code), Len(EmitBlock(c[b - 1], function[b], function).code),
                        BlockOffsets(function)) # {}
      BY <1>1, <2>1, <2>2, BlockRuns
    <2>4. c[b] = EmitBlock(c[b - 1], function[b], function)
      BY <1>3
    <2> QED BY <2>3, <2>4 DEF T
  <1>7. code = c[n].code
    BY DEF Compiled
  <1>8. \A b \in 0..n : z(b) \in Nat
    BY <1>3 DEF Chunks
  <1>9. z(0) = 0
    BY <1>3
  <1> HIDE DEF n, c, T, z
  <1>10. 0 \in B
    <2>1. {} \in Runs(0, z(0), T)
      BY <1>9, NoRun
    <2> QED BY <2>1, <1>2
  <1>11. ASSUME NEW b \in 1..n, b - 1 \in B
         PROVE  b \in B
    <2>1. PICK S \in Runs(0, z(b - 1), T) : \A d \in 1..(b - 1) : BlockOffset(function, d) \in S
      BY <1>11
    <2>2. z(b - 1) < z(b) /\ b - 1 \in 0..n /\ b \in 0..n
      BY <1>2, <1>6
    <2>3. PICK R \in ClosedRuns(z(b - 1), z(b), T) : TRUE
      BY <1>6
    <2>4. S \cup R \in ClosedRuns(0, z(b), T)
      BY <2>2, ClosedRunsFollow
    <2>5. S \cup R \in Runs(0, z(b), T)
      BY <2>4 DEF ClosedRuns
    <2>6. z(b - 1) \in R
      <3>1. Unbroken(R, z(b - 1), z(b), T)
        BY <2>3 DEF ClosedRuns, Runs
      <3>2. z(b - 1) \in R \cup {z(b)}
        BY <3>1 DEF Unbroken
      <3> QED BY <3>2, <2>2, <1>8
    <2>7. \A d \in 1..b : BlockOffset(function, d) \in S \cup R
      <3> TAKE d \in 1..b
      <3>1. CASE d = b
        BY <3>1, <2>6, <1>5
      <3>2. CASE d # b
        <4>1. d \in 1..(b - 1)
          BY <3>2, <1>2
        <4> QED BY <4>1, <2>1
      <3> QED BY <3>1, <3>2
    <2>8. 0 < z(b)
      BY <2>2, <1>8
    <2> QED BY <2>2, <2>4, <2>5, <2>7, <2>8
  <1>12. n \in B
    <2> HIDE DEF B
    <2>1. 0..n \subseteq B
      BY <1>2, <1>10, <1>11, Climb
    <2> QED BY <2>1, <1>2
  <1>13. PICK S \in ClosedRuns(0, z(n), T) : \A d \in 1..n : BlockOffset(function, d) \in S
    BY <1>12, <1>2
  <1>14. 0 < z(n)
    BY <1>12, <1>2
  <1>15. T \subseteq S
    BY <1>13 DEF T, BlockOffsets, n
  <1> QED BY <1>7, <1>13, <1>14, <1>15 DEF z, T

-----------------------------------------------------------------------------
(* The walk over the code of a function, and its frame.                    *)

\* The offsets of the instructions of the code.
Laid == {S \in ClosedRuns(0, Len(code), BlockOffsets(lir)) : BlockOffsets(lir) \subseteq S}

\* The walk goes from one of the instructions to the next.
Follows(S) ==
    /\ starts \subseteq S /\ jumps \subseteq S /\ offset \in S \cup {Len(code)}
    /\ \A s \in S : s < offset => s \in starts
    /\ offset = Len(code) => last \in FinalOps

\* Where nothing has been refused.
Clean == verdict # "refused" /\ run \notin {"fell_off", "bad_name", "bad_source", "bad_type"}

EmittedInv == Emitted => 0 < Len(code) /\ Laid # {} /\ (\E S \in Laid : Follows(S)) /\ Clean

\* What is known of an instruction of the code.
LEMMA LaidInstruction ==
    ASSUME NEW S \in Laid, NEW s \in S
    PROVE  /\ s \in Nat /\ s < Len(code) /\ IsOpcode(Byte(code, s)) /\ OperandsOk(Op(s), s + 1) /\ LeftOk(s)
           /\ JumpTargets(Op(s), s + 1) \subseteq S
           /\ End(s) \in S \cup {Len(code)} /\ s < End(s)
           /\ End(s) = Len(code) => Op(s) \in FinalOps
           /\ \A t \in S : s < t => End(s) <= t
  <1>1. S \in ClosedRuns(0, Len(code), BlockOffsets(lir)) /\ BlockOffsets(lir) \subseteq S
    BY DEF Laid
  <1>2. S \in Runs(0, Len(code), BlockOffsets(lir)) /\ (End(s) = Len(code) => Op(s) \in FinalOps)
    BY <1>1 DEF ClosedRuns
  <1>3. Unbroken(S, 0, Len(code), BlockOffsets(lir)) /\ S \subseteq Nat
    BY <1>2 DEF Runs
  <1>4. /\ Sound(s, End(s)) /\ JumpTargets(Op(s), s + 1) \subseteq BlockOffsets(lir)
        /\ End(s) \in S \cup {Len(code)} /\ s < Len(code)
        /\ \A t \in S : s < t => End(s) <= t
    BY <1>3 DEF Unbroken
  <1>5. IsOpcode(Byte(code, s)) /\ OperandsOk(Op(s), s + 1) /\ LeftOk(s) /\ s < End(s)
    BY <1>4 DEF Sound
  <1>6. JumpTargets(Op(s), s + 1) \subseteq S
    BY <1>1, <1>4
  <1> QED BY <1>2, <1>3, <1>4, <1>5, <1>6

\* A frame at one of them passes the checks the verifier leaves.
LEMMA LaidPasses ==
    ASSUME IInv, NEW S \in Laid, ip \in S, NEW op \in Opcode, Executing(op)
    PROVE  ~FailsNameCheck(op) /\ ~FailsSourceCheck(op) /\ ~FailsTypeCheck(op)
  <1>1. /\ ip \in Nat /\ ip < Len(code) /\ op = Op(ip) /\ OperandsOk(op, ip + 1)
        /\ NamesOk(ip) /\ SourcesOk(ip) /\ EntriesOk(ip) /\ CodeOK /\ Captured
    BY LaidInstruction, AtInstruction DEF LeftOk, IInv
  <1>2. \A t \in Tables : TableSize[t] \in Nat
    BY TableSizeAssumption
  <1>3. ASSUME FailsNameCheck(op) PROVE FALSE
    <2>1. op \in CallOps
      BY <1>3 DEF FailsNameCheck
    <2>2. ReadsCallee(op) = CalleeWidth(op)
      BY <2>1, CalleeWidths
    <2>3. PICK i \in 0..Byte(code, ip + 1 + CalleeWidth(op)) - 1 :
            U16(code, ip + 2 + CalleeWidth(op) + 2 * i) >= TableSize["argument_names"]
      BY <1>3, <2>2 DEF FailsNameCheck
    <2> DEFINE name == U16(code, ip + 2 + CalleeWidth(op) + 2 * i)
    <2>4. name \in Nat /\ name < TableSize["argument_names"]
      BY <1>1, <2>1 DEF NamesOk
    <2>5. TableSize["argument_names"] \in Nat
      BY <1>2 DEF Tables
    <2> HIDE DEF name
    <2>6. name >= TableSize["argument_names"]
      BY <2>3 DEF name
    <2> QED BY <2>4, <2>5, <2>6
  <1>4. ASSUME op = "CLOSURE", FailsSourceCheck(op) PROVE FALSE
    <2>1. PICK i \in 0..Byte(code, ip + 3) - 1 :
            SourceOutside(Byte(code, ip + 4 + 2 * i) # 0, Byte(code, ip + 5 + 2 * i))
      BY <1>4 DEF FailsSourceCheck
    <2> DEFINE index == Byte(code, ip + 5 + 2 * i)
               flag  == Byte(code, ip + 4 + 2 * i)
               table == IF flag # 0 THEN "captures" ELSE "locals"
    <2>2. index \in Nat /\ index < TableSize[table]
      BY <1>1, <1>4 DEF SourcesOk
    <2>3. TableSize[table] \in Nat
      BY <1>2 DEF Tables
    <2> HIDE DEF index, flag
    <2>4. index >= TableSize[table]
      BY <2>1, <1>1 DEF SourceOutside, Captured, index, flag
    <2> HIDE DEF table
    <2> QED BY <2>2, <2>3, <2>4
  <1>5. ASSUME op = "CLASS", FailsSourceCheck(op) PROVE FALSE
    <2>1. op \in Index2 /\ IndexWidth(op) = 2 /\ IndexTable(op) = "classes"
      <3>1. op \in Index2
        BY <1>5 DEF Index2
      <3>2. IndexTable("CLASS") = "classes"
        BY DEF IndexTable, GlobalOps, GlobalLongOps, LocalOps, CaptureOps, MemberOps, MemberLongOps
      <3> QED BY <3>1, <3>2, <1>5, ShapeWidths
    <2>2. /\ IndexRead(op) = Operand(ip + 1, IndexWidth(op)) /\ IndexRead(op) \in Nat
          /\ IndexRead(op) < TableSize[IndexTable(op)]
      BY <1>1, <2>1, IndexIsRead
    <2> DEFINE class == IndexRead(op)
    <2>3. class \in Nat /\ class < TableSize["classes"]
      BY <2>1, <2>2
    <2>4. EntryOk(op, class)
      BY <1>1, <2>1, <2>2 DEF EntriesOk
    <2> HIDE DEF class
    <2>5. class \in DOMAIN MethodSources
      BY <1>2, <2>3, DescriptorsAssumption DEF Tables
    <2>6. PICK source \in MethodSources[class] : SourceOutside(source.fromCapture, source.index)
      BY <1>5 DEF FailsSourceCheck, class
    <2>7. IsSource(source) /\ HasSource(source)
      BY <1>5, <2>4, <2>5, DescriptorsAssumption DEF EntryOk
    <2>8. source.index \in Nat /\ TableSize["captures"] \in Nat /\ TableSize["locals"] \in Nat
      BY <1>2, <2>7 DEF IsSource, Tables
    <2> QED BY <2>6, <2>7, <2>8, <1>1 DEF HasSource, SourceOutside, Captured
  <1>6. ASSUME FailsTypeCheck(op) PROVE FALSE
    <2>1. op \in {"ASSERT_TYPE", "ASSERT_TYPE_LONG"}
      BY <1>6 DEF FailsTypeCheck
    <2>2. (op \in Index1 \/ op \in Index3) /\ IndexTable(op) = "annotations"
      <3>1. op \in Index1 \/ op \in Index3
        BY <2>1 DEF Index1, Index3
      <3>2. \A form \in {"ASSERT_TYPE", "ASSERT_TYPE_LONG"} : IndexTable(form) = "annotations"
        BY DEF IndexTable, GlobalOps, GlobalLongOps, LocalOps, CaptureOps, MemberOps, MemberLongOps
      <3> QED BY <2>1, <3>1, <3>2
    <2>3. /\ IndexRead(op) = Operand(ip + 1, IndexWidth(op)) /\ IndexRead(op) \in Nat
          /\ IndexRead(op) < TableSize[IndexTable(op)]
      BY <1>1, <2>2, IndexIsRead
    <2> DEFINE annotation == IndexRead(op)
    <2>4. annotation \in Nat /\ annotation < TableSize["annotations"]
      BY <2>2, <2>3
    <2>5. EntryOk(op, annotation)
      <3>1. IndexWidth(op) # 0
        BY <2>2, ShapeWidths
      <3> QED BY <1>1, <2>3, <3>1 DEF EntriesOk
    <2> HIDE DEF annotation
    <2>6. annotation \in DOMAIN AnnotationTypes
      BY <1>2, <2>4, DescriptorsAssumption DEF Tables
    <2> DEFINE type == AnnotationTypes[annotation]
    <2>7. type \in Nat /\ TableSize["types"] \in Nat
      BY <1>2, <2>6, DescriptorsAssumption DEF Tables
    <2>8. type < TableSize["types"]
      BY <2>1, <2>5 DEF EntryOk
    <2>9. type >= TableSize["types"]
      BY <1>6 DEF FailsTypeCheck, annotation
    <2> HIDE DEF type
    <2> QED BY <2>7, <2>8, <2>9
  <1>7. FailsSourceCheck(op) => op \in {"CLOSURE", "CLASS"}
    BY DEF FailsSourceCheck
  <1> QED BY <1>3, <1>4, <1>5, <1>6, <1>7

\* The offsets depend on the code alone.
LEMMA LaidKept ==
    ASSUME code' = code, lir' = lir
    PROVE  Laid' = Laid
  BY DEF Laid, ClosedRuns, Runs, Unbroken, Sound, LeftOk, NamesOk, SourcesOk, EntriesOk, Op, End, OpcodeAt,
         OperandBytes, OperandsOk, IndexOk, Available, Operand, LocalRangeOk, ClosureOk, CallOk, JumpTargets, BlockOffsets

\* The walk of the code of a function refuses nothing.
LEMMA WalkFollows ==
    ASSUME IInv, EmittedInv, Emitted, Verify, lir' = lir
    PROVE  EmittedInv'
  <1>1. PICK S \in Laid : Follows(S)
    BY DEF EmittedInv
  <1>2. 0 < Len(code) /\ Clean /\ code' = code /\ Len(code) \in Nat /\ code # <<>>
    BY DEF EmittedInv, Verify, VerifyEmpty, StepRefused, Step, FinishWalk, Refuse, IInv, CodeOK
  <1>3. Laid' = Laid
    BY <1>2, LaidKept
  <1>4. /\ starts \subseteq S /\ jumps \subseteq S /\ offset \in S \cup {Len(code)}
        /\ \A s \in S : s < offset => s \in starts
        /\ offset = Len(code) => last \in FinalOps
    BY <1>1 DEF Follows
  <1>5. run' = run
    BY DEF Verify, VerifyEmpty, StepRefused, Step, FinishWalk, Refuse
  <1>6. offset \in Nat
    BY DEF IInv, Walked
  <1>7. ASSUME Follows(S)', verdict' # "refused"
        PROVE  EmittedInv'
    <2>1. Clean'
      BY <1>2, <1>5, <1>7 DEF Clean
    <2>2. (0 < Len(code))' /\ (Laid # {})' /\ (\E R \in Laid : Follows(R))'
      BY <1>1, <1>2, <1>3, <1>7
    <2> QED BY <2>1, <2>2 DEF EmittedInv
  <1>8. ASSUME offset < Len(code)
        PROVE  /\ offset \in S
               /\ ~StepRefused
    <2>1. offset \in S
      BY <1>2, <1>4, <1>6, <1>8
    <2>2. IsOpcode(Byte(code, offset)) /\ OperandsOk(Op(offset), offset + 1)
      BY <2>1, LaidInstruction
    <2> QED BY <2>1, <2>2 DEF StepRefused, Op
  <1>9. CASE VerifyEmpty
    BY <1>2, <1>9 DEF VerifyEmpty
  <1>10. CASE StepRefused
    <2>1. offset < Len(code)
      BY <1>10 DEF StepRefused
    <2> QED BY <2>1, <1>8, <1>10
  <1>11. CASE Step
    <2>1. /\ offset < Len(code) /\ starts' = starts \cup {offset} /\ last' = Op(offset)
          /\ jumps' = jumps \cup JumpTargets(Op(offset), offset + 1)
          /\ offset' = End(offset) /\ verdict' = verdict
      BY <1>11 DEF Step, Op, End
    <2>2. offset \in S
      BY <2>1, <1>8
    <2>3. /\ JumpTargets(Op(offset), offset + 1) \subseteq S
          /\ End(offset) \in S \cup {Len(code)} /\ offset < End(offset)
          /\ End(offset) = Len(code) => Op(offset) \in FinalOps
          /\ \A t \in S : offset < t => End(offset) <= t
      BY <2>2, LaidInstruction
    <2>4. \A s \in S : s \in Nat
      BY LaidInstruction
    <2>5. End(offset) \in Nat
      BY <2>3, <2>4, <1>2
    <2>6. \A s \in S : s < offset' => s \in starts'
      <3> TAKE s \in S
      <3> HAVE s < offset'
      <3>1. s \in Nat /\ s < End(offset)
        BY <2>1, <2>4
      <3>2. ~(offset < s)
        BY <2>3, <2>5, <3>1
      <3>3. s < offset \/ s = offset
        BY <3>1, <3>2, <1>6
      <3> QED BY <3>3, <2>1, <1>4
    <2>7. starts' \subseteq S /\ jumps' \subseteq S /\ offset' \in S \cup {Len(code')}
      BY <2>1, <2>2, <2>3, <1>2, <1>4
    <2>8. offset' = Len(code') => last' \in FinalOps
      BY <2>1, <2>3, <1>2
    <2>9. Follows(S)'
      BY <2>6, <2>7, <2>8 DEF Follows
    <2>10. verdict' # "refused"
      BY <2>1, <1>2 DEF Clean
    <2> QED BY <2>9, <2>10, <1>7
  <1>12. CASE FinishWalk
    <2>1. offset = Len(code)
      <3>1. offset <= Len(code)
        BY DEF IInv, Walked
      <3> QED BY <3>1, <1>2, <1>6, <1>12 DEF FinishWalk
    <2>2. \A target \in jumps : target \in starts
      <3> TAKE target \in jumps
      <3>1. target \in S
        BY <1>4
      <3>2. target < Len(code)
        BY <3>1, LaidInstruction
      <3> QED BY <3>1, <3>2, <2>1, <1>4
    <2>3. last \in MayEndOn
      BY <2>1, <1>4 DEF FinalOps, MayEndOn
    <2>4. WalkIsSound
      BY <2>1, <2>2, <2>3 DEF WalkIsSound
    <2>5. verdict' = "accepted" /\ UNCHANGED <<code, offset, starts, jumps, last, ip, run, frameCaptures>>
      BY <2>4, <1>12 DEF FinishWalk
    <2>6. Follows(S)'
      BY <2>5, <1>1 DEF Follows
    <2> QED BY <2>5, <2>6, <1>7
  <1> QED BY <1>9, <1>10, <1>11, <1>12 DEF Verify

\* Running it ends in no check.
LEMMA RunFollows ==
    ASSUME IInv, EmittedInv, Emitted, Run, lir' = lir
    PROVE  EmittedInv'
  <1>1. PICK S \in Laid : Follows(S)
    BY DEF EmittedInv
  <1>2. UNCHANGED <<code, offset, starts, jumps, last, verdict>>
    <2>1. ASSUME NEW how, Ends(how)
          PROVE  UNCHANGED <<code, offset, starts, jumps, last, verdict>>
      BY <2>1 DEF Ends
    <2>2. CASE Start
      BY <2>2 DEF Start
    <2>3. CASE FallOff
      BY <2>1, <2>3 DEF FallOff
    <2>4. CASE CheckFails
      BY <2>1, <2>4 DEF CheckFails
    <2>5. CASE Return
      BY <2>1, <2>5 DEF Return
    <2>6. CASE Raise
      BY <2>1, <2>6 DEF Raise
    <2>7. CASE Advance
      BY <2>7 DEF Advance
    <2> QED BY <2>2, <2>3, <2>4, <2>5, <2>6, <2>7 DEF Run
  <1>3. Laid' = Laid
    BY <1>2, LaidKept
  <1>4. 0 < Len(code) /\ Clean
    BY DEF EmittedInv
  <1>5. Follows(S)'
    BY <1>1, <1>2 DEF Follows
  <1>6. ASSUME run' \notin {"fell_off", "bad_name", "bad_source", "bad_type"}
        PROVE  EmittedInv'
    <2>1. Clean'
      BY <1>2, <1>4, <1>6 DEF Clean
    <2>2. (0 < Len(code))' /\ (Laid # {})' /\ (\E R \in Laid : Follows(R))'
      BY <1>1, <1>2, <1>3, <1>4, <1>5
    <2> QED BY <2>1, <2>2 DEF EmittedInv
  <1>7. CASE Start
    BY <1>6, <1>7 DEF Start
  <1>8. CASE FallOff
    <2>1. run = "running" /\ ip >= Len(code)
      BY <1>8 DEF FallOff
    <2>2. verdict = "accepted" /\ (ip \in starts \/ last = "PROPAGATE") /\ ip \in Nat /\ Len(code) \in Nat
      BY <2>1 DEF IInv, Placed, CodeOK
    <2>3. last \in FinalOps
      <3>1. offset = Len(code)
        BY <2>2 DEF IInv, Judged, WalkIsSound
      <3> QED BY <3>1, <1>1 DEF Follows
    <2>4. ip \in starts
      BY <2>2, <2>3 DEF FinalOps
    <2>5. ip < Len(code)
      BY <2>4 DEF IInv, Walked, Passed
    <2> QED BY <2>1, <2>2, <2>5
  <1>9. CASE CheckFails
    <2>1. PICK op \in Opcode : Executing(op) /\ Outcome(op) # "passes" /\ Ends(Outcome(op))
      BY <1>9 DEF CheckFails
    <2>2. Outcome(op) \in {"bad_name", "bad_source", "bad_type"}
      BY <2>1, OutcomeIsFine
    <2>3. ip \in S
      <3>1. ip \in starts
        BY <2>1, AtInstruction
      <3> QED BY <3>1, <1>1 DEF Follows
    <2>4. ~FailsNameCheck(op) /\ ~FailsSourceCheck(op) /\ ~FailsTypeCheck(op)
      BY <2>1, <2>3, LaidPasses
    <2> QED BY <2>2, <2>4 DEF Outcome
  <1>10. CASE Return
    BY <1>6, <1>10 DEF Return, Ends
  <1>11. CASE Raise
    BY <1>6, <1>11 DEF Raise, Ends
  <1>12. CASE Advance
    <2>1. run' = "check_failed" \/ run' = run
      BY <1>12 DEF Advance
    <2> QED BY <2>1, <1>4, <1>6 DEF Clean
  <1> QED BY <1>7, <1>8, <1>9, <1>10, <1>11, <1>12 DEF Run

\* What holds of the walk and of the frame, whoever wrote the code.
CodeIInv == IInv /\ EmittedInv

\* A function that compiled is laid out before the walk begins.
LEMMA CodeBegins ==
    ASSUME EmitInit \/ CodeInit
    PROVE  CodeIInv
  <1>1. CASE CodeInit
    <2>1. ~Emitted
      BY <1>1 DEF CodeInit, Emitted
    <2> QED BY <1>1, <2>1, InitHolds DEF CodeInit, CodeIInv, EmittedInv
  <1>2. CASE EmitInit
    <2>1. Compiled(lir) /\ InitWalk
      BY <1>2, LirFunctionsAssumption DEF EmitInit, Compiled
    <2>2. CodeOK /\ 0 < Len(code)
      BY <2>1, CompiledIsKept, FunctionRuns
    <2>3. IInv
      BY <2>1, <2>2, WalkBegins
    <2>4. PICK S \in ClosedRuns(0, Len(code), BlockOffsets(lir)) : BlockOffsets(lir) \subseteq S
      BY <2>1, FunctionRuns
    <2>5. S \in Laid
      BY <2>4 DEF Laid
    <2>6. Unbroken(S, 0, Len(code), BlockOffsets(lir)) /\ S \subseteq Nat
      BY <2>4 DEF ClosedRuns, Runs
    <2>7. 0 \in S
      BY <2>2, <2>6 DEF Unbroken
    <2>8. Follows(S) /\ Clean
      BY <2>1, <2>2, <2>6, <2>7 DEF InitWalk, Follows, Clean
    <2> QED BY <2>2, <2>3, <2>5, <2>8 DEF CodeIInv, EmittedInv
  <1> QED BY <1>1, <1>2

\* Every step keeps it: what the verifier sees and what runs is one walk.
LEMMA CodeNextHolds ==
    ASSUME CodeIInv, [Next /\ UNCHANGED lir]_<<vars, lir>>
    PROVE  CodeIInv'
  <1>1. [Next]_vars /\ lir' = lir
    OBVIOUS
  <1>2. IInv'
    BY <1>1, NextHolds DEF CodeIInv
  <1>3. CASE ~Emitted
    BY <1>1, <1>2, <1>3 DEF Emitted, CodeIInv, EmittedInv
  <1>4. CASE Emitted /\ Next
    BY <1>1, <1>2, <1>4, WalkFollows, RunFollows DEF Next, CodeIInv
  <1>5. CASE UNCHANGED vars
    <2>1. UNCHANGED <<code, offset, starts, jumps, last, verdict, ip, run, frameCaptures>>
      BY <1>5 DEF vars
    <2>2. Laid' = Laid
      BY <1>1, <2>1, LaidKept
    <2>3. EmittedInv' = EmittedInv
      BY <1>1, <2>1, <2>2 DEF EmittedInv, Emitted, Follows, Clean
    <2> QED BY <1>2, <2>3 DEF CodeIInv
  <1> QED BY <1>1, <1>3, <1>4, <1>5

\* Whatever code the verifier is given, a function's or any other, the walk
\* and the frame keep the invariant.
THEOREM CodeInductiveInvariant == CodeSpec => []CodeIInv
  <1>1. EmitInit \/ CodeInit => CodeIInv
    BY CodeBegins
  <1>2. CodeIInv /\ [Next /\ UNCHANGED lir]_<<vars, lir>> => CodeIInv'
    BY CodeNextHolds
  <1> QED BY <1>1, <1>2, PTL DEF CodeSpec

\* The verifier refuses nothing the emitter writes, whatever well-formed
\* function it is given: both passes, the write functions and the verifier
\* agree on every form of every instruction.
THEOREM NothingEmittedIsRefused == CodeSpec => []EmittedIsAccepted
  <1>1. CodeIInv => EmittedIsAccepted
    BY DEF CodeIInv, EmittedInv, Clean, EmittedIsAccepted
  <1> QED BY <1>1, CodeInductiveInvariant, PTL

\* Running what the emitter writes never ends by one of the checks malformed
\* bytecode is refused for: no operand lies outside the code, no index outside
\* its table, no capture is taken from where there is none, be it of a closure
\* or of a class's methods, every annotation has its type, and control never
\* goes past the last instruction.
THEOREM NothingEmittedFailsACheck == CodeSpec => []EmittedRunsClean
  <1>1. CodeIInv => EmittedRunsClean
    BY DEF CodeIInv, EmittedInv, Clean, IInv, Placed, Endings, EmittedRunsClean
  <1> QED BY <1>1, CodeInductiveInvariant, PTL

\* Whoever wrote the code, emitted or not, what the verifier lets through is
\* fetched only at the instructions its walk found.
THEOREM EmittedDecodedOneWay == CodeSpec => []FetchesInstructionStarts
  <1>1. CodeIInv => FetchesInstructionStarts
    BY DEF CodeIInv, IInv, Placed, FetchesInstructionStarts
  <1> QED BY <1>1, CodeInductiveInvariant, PTL

\* ... and none of the checks the interpreter repeats on what the verifier has
\* checked can fail.
THEOREM EmittedReadsAreSafe == CodeSpec => []NothingLeftToCheck
  <1>1. CodeIInv => NothingLeftToCheck
    BY DEF CodeIInv, IInv, Placed, Endings, NothingLeftToCheck
  <1> QED BY <1>1, CodeInductiveInvariant, PTL
=============================================================================
