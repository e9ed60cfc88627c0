------------------------------ MODULE RvInteger ------------------------------
(***************************************************************************)
(* The integer instructions of the RV32 emulator: the base set, M, Zba,    *)
(* Zbb and Zbs, with their encodings.                                      *)
(*                                                                         *)
(* A byte has Y bits and a register four bytes (Y = 8 in the code).  An    *)
(* encoding is the fields op, f3, f7, rd, rs1, rs2 of the instruction.     *)
(***************************************************************************)
EXTENDS Integers, Bitwise

CONSTANT Y

XLEN == 4 * Y
Reg == 2 ^ XLEN
Words == 0 .. Reg - 1
Msb == 2 ^ (XLEN - 1)
Ones == Reg - 1

Wrap(v) == v % Reg
Low(v, bits) == v % 2 ^ bits
SignExtend(v, bits) == Wrap(IF Low(v, bits) >= 2 ^ (bits - 1) THEN Low(v, bits) - 2 ^ bits ELSE Low(v, bits))
ToInt(v) == IF v >= Msb THEN v - Reg ELSE v
Flip(v) == Ones - v
Bool(p) == IF p THEN 1 ELSE 0
Abs(v) == IF v < 0 THEN -v ELSE v

Shl(v, n) == Wrap(v * 2 ^ n)
Shr(v, n) == v \div 2 ^ n
Sar(v, n) == Wrap(ToInt(v) \div 2 ^ n)
Bit(n) == 2 ^ n
Has(v, n) == Shr(v, n) % 2 = 1

\* C's division truncates toward zero.
TruncDiv(a, b) ==
    LET q == Abs(a) \div Abs(b) IN IF (a < 0) = (b < 0) THEN q ELSE -q

-----------------------------------------------------------------------------
\* The M extension, by f3

MulDiv(f3, a, b) ==
    LET sa == ToInt(a)
        sb == ToInt(b)
        overflow == a = Msb /\ b = Ones
    IN CASE f3 = 0 -> Wrap(a * b)
         [] f3 = 1 -> Wrap((sa * sb) \div Reg)
         [] f3 = 2 -> Wrap((sa * b) \div Reg)
         [] f3 = 3 -> (a * b) \div Reg
         [] f3 = 4 -> IF b = 0 THEN Ones ELSE IF overflow THEN Msb ELSE Wrap(TruncDiv(sa, sb))
         [] f3 = 5 -> IF b = 0 THEN Ones ELSE a \div b
         [] f3 = 6 -> IF b = 0 THEN a ELSE IF overflow THEN 0 ELSE Wrap(sa - sb * TruncDiv(sa, sb))
         [] f3 = 7 -> IF b = 0 THEN a ELSE a % b

-----------------------------------------------------------------------------
\* Zba, Zbb and Zbs

Rotr(v, n) == Shr(v, n) + (v % 2 ^ n) * 2 ^ (XLEN - n)
Rotl(v, n) == IF n = 0 THEN v ELSE Rotr(v, XLEN - n)
Clz(v) == XLEN - (IF v = 0 THEN 0 ELSE 1 + CHOOSE n \in 0 .. XLEN - 1 : Has(v, n) /\ Shr(v, n) = 1)
Ctz(v) == IF v = 0 THEN XLEN ELSE CHOOSE n \in 0 .. XLEN - 1 : Has(v, n) /\ v % 2 ^ n = 0

ByteAt(v, k) == Shr(v, k * Y) % 2 ^ Y
Bytes(b0, b1, b2, b3) == b0 + b1 * 2 ^ Y + b2 * 2 ^ (2 * Y) + b3 * 2 ^ (3 * Y)
Rev8(v) == Bytes(ByteAt(v, 3), ByteAt(v, 2), ByteAt(v, 1), ByteAt(v, 0))

OrcByte(b) == IF b = 0 THEN 0 ELSE 2 ^ Y - 1
Orcb(v) == Bytes(OrcByte(ByteAt(v, 0)), OrcByte(ByteAt(v, 1)), OrcByte(ByteAt(v, 2)), OrcByte(ByteAt(v, 3)))

CountOnes[v \in Nat] == IF v = 0 THEN 0 ELSE (v % 2) + CountOnes[v \div 2]

BitSet(v, n) == v | Bit(n)
BitClear(v, n) == IF Has(v, n) THEN v - Bit(n) ELSE v
BitInvert(v, n) == IF Has(v, n) THEN v - Bit(n) ELSE v + Bit(n)
BitExtract(v, n) == Bool(Has(v, n))

No == -1        \* not one of these encodings

BitmanipReg(i, a, b) ==
    LET n == b % XLEN
        f == <<i.f7, i.f3>>
    IN CASE f = <<4, 4>> /\ i.rs2 = 0 -> Low(a, 2 * Y)
         [] f = <<5, 4>> -> IF ToInt(a) < ToInt(b) THEN a ELSE b
         [] f = <<5, 5>> -> IF a < b THEN a ELSE b
         [] f = <<5, 6>> -> IF ToInt(a) > ToInt(b) THEN a ELSE b
         [] f = <<5, 7>> -> IF a > b THEN a ELSE b
         [] f = <<16, 2>> -> Wrap(Shl(a, 1) + b)
         [] f = <<16, 4>> -> Wrap(Shl(a, 2) + b)
         [] f = <<16, 6>> -> Wrap(Shl(a, 3) + b)
         [] f = <<20, 1>> -> BitSet(a, n)
         [] f = <<32, 4>> -> Flip(a ^^ b)
         [] f = <<32, 6>> -> a | Flip(b)
         [] f = <<32, 7>> -> a & Flip(b)
         [] f = <<36, 1>> -> BitClear(a, n)
         [] f = <<36, 5>> -> BitExtract(a, n)
         [] f = <<48, 1>> -> Rotl(a, n)
         [] f = <<48, 5>> -> Rotr(a, n)
         [] f = <<52, 1>> -> BitInvert(a, n)
         [] OTHER -> No

BitmanipImm(i, a) ==
    LET n == i.rs2
        f == <<i.f7, i.f3>>
    IN CASE f = <<20, 1>> -> BitSet(a, n)
         [] f = <<20, 5>> /\ n = 7 -> Orcb(a)
         [] f = <<36, 1>> -> BitClear(a, n)
         [] f = <<36, 5>> -> BitExtract(a, n)
         [] f = <<48, 5>> -> Rotr(a, n)
         [] f = <<48, 1>> /\ n = 0 -> Clz(a)
         [] f = <<48, 1>> /\ n = 1 -> Ctz(a)
         [] f = <<48, 1>> /\ n = 2 -> CountOnes[a]
         [] f = <<48, 1>> /\ n = 4 -> SignExtend(a, Y)
         [] f = <<48, 1>> /\ n = 5 -> SignExtend(a, 2 * Y)
         [] f = <<52, 1>> -> BitInvert(a, n)
         [] f = <<52, 5>> /\ n = 24 -> Rev8(a)
         [] OTHER -> No

-----------------------------------------------------------------------------
\* OP and OP-IMM: the base decoder first, the bit manipulation when it declines.

BaseReg(i, a, b) ==
    LET n == b % XLEN
        f == <<i.f7, i.f3>>
    IN CASE i.f7 = 1 -> MulDiv(i.f3, a, b)
         [] f = <<0, 0>> -> Wrap(a + b)
         [] f = <<32, 0>> -> Wrap(a - b)
         [] f = <<0, 1>> -> Shl(a, n)
         [] f = <<0, 2>> -> Bool(ToInt(a) < ToInt(b))
         [] f = <<0, 3>> -> Bool(a < b)
         [] f = <<0, 4>> -> a ^^ b
         [] f = <<0, 5>> -> Shr(a, n)
         [] f = <<32, 5>> -> Sar(a, n)
         [] f = <<0, 6>> -> a | b
         [] f = <<0, 7>> -> a & b
         [] OTHER -> No

OpReg(i, a, b, bitmanip) ==
    LET r == BaseReg(i, a, b)
    IN IF r # No THEN r ELSE IF bitmanip THEN BitmanipReg(i, a, b) ELSE No

\* imm is the sign-extended immediate; the shifts find their amount in rs2.
BaseImm(i, a, imm) ==
    LET f == <<i.f7, i.f3>>
    IN CASE i.f3 = 0 -> Wrap(a + imm)
         [] i.f3 = 2 -> Bool(ToInt(a) < ToInt(imm))
         [] i.f3 = 3 -> Bool(a < imm)
         [] i.f3 = 4 -> a ^^ imm
         [] i.f3 = 6 -> a | imm
         [] i.f3 = 7 -> a & imm
         [] f = <<0, 1>> -> Shl(a, i.rs2)
         [] f = <<0, 5>> -> Shr(a, i.rs2)
         [] f = <<32, 5>> -> Sar(a, i.rs2)
         [] OTHER -> No

OpImm(i, a, imm, bitmanip) ==
    LET r == BaseImm(i, a, imm)
    IN IF r # No THEN r ELSE IF bitmanip THEN BitmanipImm(i, a) ELSE No

Taken(f3, a, b) ==
    CASE f3 = 0 -> a = b
      [] f3 = 1 -> a # b
      [] f3 = 4 -> ToInt(a) < ToInt(b)
      [] f3 = 5 -> ToInt(a) >= ToInt(b)
      [] f3 = 6 -> a < b
      [] f3 = 7 -> a >= b

\* Atomic read-modify-write, by funct5
Amo(funct5, old, b) ==
    CASE funct5 = 0 -> Wrap(old + b)
      [] funct5 = 1 -> b
      [] funct5 = 4 -> old ^^ b
      [] funct5 = 8 -> old | b
      [] funct5 = 12 -> old & b
      [] funct5 = 16 -> IF ToInt(old) < ToInt(b) THEN old ELSE b
      [] funct5 = 20 -> IF ToInt(old) > ToInt(b) THEN old ELSE b
      [] funct5 = 24 -> IF old < b THEN old ELSE b
      [] funct5 = 28 -> IF old > b THEN old ELSE b
      [] OTHER -> No
=============================================================================
