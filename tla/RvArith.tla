------------------------------- MODULE RvArith -------------------------------
(***************************************************************************)
(* One integer instruction of the RV32 emulator on any operands, compared  *)
(* with what the integers say.                                             *)
(***************************************************************************)
EXTENDS RvInteger

CONSTANTS Values,       \* operands tried
          Amounts       \* immediate shift amounts tried

VARIABLES insn, a, b, out
rvArithVars == <<insn, a, b, out>>

Fields(op, f7, f3, rs2) == [op |-> op, f7 |-> f7, f3 |-> f3, rs2 |-> rs2]

ArithInit ==
    /\ insn = Fields("none", 0, 0, 0)
    /\ a \in Values
    /\ b \in Values
    /\ out = 0

Runs(i, r) ==
    /\ insn' = i
    /\ out' = r
    /\ UNCHANGED <<a, b>>

Funct7 == {0, 1, 4, 5, 16, 20, 32, 36, 48, 52, 2}
Selectors == {0, 1, 2, 4, 5, 7, 24}

ArithNext ==
    /\ insn.op = "none"
    /\ \/ \E f7 \in Funct7, f3 \in 0 .. 7, rs2 \in {0, 1} :
              LET i == Fields("reg", f7, f3, rs2) IN Runs(i, OpReg(i, a, b, TRUE))
       \/ \E f7 \in Funct7, f3 \in 0 .. 7, rs2 \in Amounts :
              LET i == Fields("imm", f7, f3, rs2) IN Runs(i, OpImm(i, a, b, TRUE))
       \/ \E rs2 \in Selectors, f \in {<<48, 1>>, <<20, 5>>, <<52, 5>>} :
              LET i == Fields("imm", f[1], f[2], rs2) IN Runs(i, OpImm(i, a, b, TRUE))
       \/ \E funct5 \in 0 .. 28 :
              LET i == Fields("amo", funct5, 2, 0) IN Runs(i, Amo(funct5, a, b))

ArithSpec == ArithInit /\ [][ArithNext]_rvArithVars

-----------------------------------------------------------------------------
\* The decoders for the base set and for the bit manipulation never both claim
\* an encoding, so the order in which exec() tries them does not matter
\* (bitmanip_reg's and exec's comments).
DecodersDisjoint ==
    /\ insn.op = "reg" => ~(BaseReg(insn, a, b) # No /\ BitmanipReg(insn, a, b) # No)
    /\ insn.op = "imm" /\ insn.f3 \in {1, 5} => ~(BaseImm(insn, a, b) # No /\ BitmanipImm(insn, a) # No)

Is(op, f7, f3) == insn.op = op /\ insn.f7 = f7 /\ insn.f3 = f3
SA == ToInt(a)
SB == ToInt(b)
Result == ToInt(out)
BitsOf(v) == {n \in 0 .. XLEN - 1 : Has(v, n)}
Amount == b % XLEN

\* The high halves of the products complete the low half.
MultiplyExact ==
    LET low == BaseReg([insn EXCEPT !.f3 = 0], a, b)
    IN /\ Is("reg", 1, 1) => SA * SB = Result * Reg + low
       /\ Is("reg", 1, 2) => SA * b = Result * Reg + low
       /\ Is("reg", 1, 3) => a * b = out * Reg + low

\* Division by zero and the one overflow aside, quotient and remainder recompose
\* the dividend, and the remainder has its sign.
DivideExact ==
    LET i(f3) == BaseReg([insn EXCEPT !.f3 = f3], a, b)
        r == ToInt(i(6))
    IN /\ Is("reg", 1, 4) /\ b # 0 =>
              /\ Wrap(Result * SB + r) = a
              /\ Abs(r) < Abs(SB)
              /\ r = 0 \/ (r < 0) = (SA < 0)
              /\ ~(a = Msb /\ b = Ones) => Result * SB + r = SA
       /\ Is("reg", 1, 5) /\ b # 0 => a = out * b + i(7) /\ i(7) < b
       /\ Is("reg", 1, 4) /\ b = 0 => Result = -1 /\ i(6) = a
       /\ Is("reg", 1, 5) /\ b = 0 => out = Ones /\ i(7) = a

\* Rotations, shifts and single-bit instructions move or change the bits they name
\* and no other; counts count; the byte instructions act on every byte.
BitsExact ==
    /\ Is("reg", 48, 5) => BitsOf(out) = {(n - Amount) % XLEN : n \in BitsOf(a)}
    /\ Is("reg", 48, 1) => BitsOf(out) = {(n + Amount) % XLEN : n \in BitsOf(a)}
    /\ Is("reg", 0, 1) => BitsOf(out) = {n + Amount : n \in {m \in BitsOf(a) : m + Amount < XLEN}}
    /\ Is("reg", 0, 5) => BitsOf(out) = {n - Amount : n \in {m \in BitsOf(a) : m >= Amount}}
    /\ Is("reg", 32, 5) => Result = SA \div 2 ^ Amount
    /\ Is("reg", 20, 1) => BitsOf(out) = BitsOf(a) \union {Amount}
    /\ Is("reg", 36, 1) => BitsOf(out) = BitsOf(a) \ {Amount}
    /\ Is("reg", 52, 1) => BitsOf(out) = (BitsOf(a) \ {Amount}) \union ({Amount} \ BitsOf(a))
    /\ Is("reg", 32, 4) => BitsOf(out) = {n \in 0 .. XLEN - 1 : Has(a, n) = Has(b, n)}
    /\ Is("reg", 32, 6) => BitsOf(out) = BitsOf(a) \union ((0 .. XLEN - 1) \ BitsOf(b))
    /\ Is("reg", 32, 7) => BitsOf(out) = BitsOf(a) \ BitsOf(b)
    /\ Is("imm", 48, 1) /\ insn.rs2 = 0 => \A n \in 0 .. XLEN - 1 : n >= XLEN - out <=> \A m \in n .. XLEN - 1 : ~Has(a, m)
    /\ Is("imm", 48, 1) /\ insn.rs2 = 1 => \A n \in 0 .. XLEN : n <= out <=> \A m \in 0 .. n - 1 : ~Has(a, m)
    /\ Is("imm", 52, 5) /\ insn.rs2 = 24 => \A k \in 0 .. 3 : ByteAt(out, k) = ByteAt(a, 3 - k)
    /\ Is("imm", 20, 5) /\ insn.rs2 = 7 => \A k \in 0 .. 3 : ByteAt(out, k) = IF ByteAt(a, k) = 0 THEN 0 ELSE 2 ^ Y - 1

\* Multiplication, division and the bit-manipulation instructions of the RV32
\* emulator compute what the integers and the bits say for every operand, division
\* by zero and the overflowing quotient included, and no encoding is claimed by two
\* decoders (exec, bitmanip_reg, bitmanip_imm).
RvArithmeticExact == DecodersDisjoint /\ MultiplyExact /\ DivideExact /\ BitsExact
=============================================================================
