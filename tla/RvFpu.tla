------------------------------- MODULE RvFpu ---------------------------------
(***************************************************************************)
(* One floating-point instruction of the RV32 emulator on any operands.    *)
(*                                                                         *)
(* The instruction, its operands and its result are remembered in last, so *)
(* that they can be compared with the exact result, rounded once.          *)
(***************************************************************************)
EXTENDS RvFloat

CONSTANTS Operands,     \* floats tried in every place
          Addends       \* floats tried as the addend of a fused instruction

VARIABLES frm, fflags, last
fpuVars == <<frm, fflags, last>>

FpuInit ==
    /\ frm \in {RDN, Dyn}
    /\ fflags = {"DZ"}
    /\ last = [op |-> "none", a |-> 0, b |-> 0, c |-> 0, rm |-> RNE, bits |-> 0, flags |-> {}]

Ran(op, a, b, c, rm, r) ==
    /\ fflags' = fflags \union r.flags
    /\ last' = [op |-> op, a |-> a, b |-> b, c |-> c, rm |-> rm, bits |-> r.bits, flags |-> r.flags]
    /\ UNCHANGED frm

\* x is the integer operand of a conversion, held in a.
Instruction(op, a, b, c, field) ==
    LET rm == IF op \in Rounding THEN ResolveRm(frm, field) ELSE RNE
    IN IF rm = -1 THEN Ran("illegal", a, b, c, field, Over({}, 0))
       ELSE Ran(op, a, b, c, rm, FloatResult(op, a, b, c, a, rm))

Unary == {"fsqrt", "fcvt.w", "fcvt.wu", "fcvt.s.w", "fcvt.s.wu", "fclass", "fmv.x", "fmv.w"}

FpuNext ==
    /\ last.op = "none"
    /\ \/ \E op \in Unary, a \in Bits, field \in Modes : frm = RDN /\ Instruction(op, a, 0, 0, field)
       \/ \E op \in Rounding \cap {"fadd", "fsub", "fmul", "fdiv"}, a, b \in Operands, field \in Modes :
              frm = RDN /\ Instruction(op, a, b, 0, field)
       \/ \E op \in FloatOps \ (Rounding \union Unary), a, b \in Operands :
              frm = RDN /\ Instruction(op, a, b, 0, RNE)
       \/ \E op \in Fused, a, b \in Operands, c \in Addends : frm = RDN /\ Instruction(op, a, b, c, Dyn)
       \/ \E op \in Rounding, field \in {5, 6, Dyn} : Instruction(op, 2 ^ MW + 1, 3, 1, field)

FpuSpec == FpuInit /\ [][FpuNext]_fpuVars

-----------------------------------------------------------------------------
\* The exact result, in halves of the least float: its whole part h, and whether
\* that is all of it.

Half == Least \div 2
Exactly(n, d) == [h |-> n \div d, exact |-> n % d = 0]

Steps(b) == IF b = PosInf THEN 2 ^ (U + Bias + 1) \div Half ELSE MagUnits(b) \div Half
AtLeast(e, s) == e.h >= s
Is(e, s) == e.h = s /\ e.exact

\* Rounding once: b and b + 1 are the floats on both sides of the exact result.
Nearest(e, b) ==
    LET mid == (Steps(b) + Steps(b + 1)) \div 2
    IN CASE Is(e, mid) -> "tie" [] ~Is(e, mid) /\ AtLeast(e, mid) -> "upper" [] ~AtLeast(e, mid) -> "lower"

Chosen(e, b, rm, sign) ==
    CASE rm = RNE -> IF Nearest(e, b) = "tie" THEN (IF b % 2 = 0 THEN b ELSE b + 1)
                     ELSE IF Nearest(e, b) = "upper" THEN b + 1 ELSE b
      [] rm = RMM -> IF Nearest(e, b) = "lower" THEN b ELSE b + 1
      [] rm = RTZ -> b
      [] rm = RDN -> IF sign = 1 THEN b + 1 ELSE b
      [] rm = RUP -> IF sign = 1 THEN b ELSE b + 1

Beyond(rm, sign) ==
    IF rm \in {RNE, RMM} \/ (rm = RUP /\ sign = 0) \/ (rm = RDN /\ sign = 1) THEN PosInf ELSE MaxFinite

RoundedOnce(e, rm, sign) ==
    LET b == CHOOSE k \in 0 .. PosInf : AtLeast(e, Steps(k)) /\ (k = PosInf \/ ~AtLeast(e, Steps(k + 1)))
        r == IF Is(e, Steps(b)) \/ b = PosInf THEN b ELSE Chosen(e, b, rm, sign)
        s == sign * SignBit
    IN IF r = PosInf THEN Over({"OF", "NX"}, Beyond(rm, sign) + s)
       ELSE Over(IF Is(e, Steps(b)) THEN {}
                 ELSE IF r < 2 ^ MW THEN {"NX", "UF"} ELSE {"NX"}, r + s)

Finite(b) == ~IsNan(b) /\ ~IsInf(b)
RootOf(n) == CHOOSE j \in 0 .. n : j * j <= n /\ (j + 1) * (j + 1) > n

SignOf(v) == IF v < 0 THEN 1 ELSE 0
RoundedSum(v) ==
    v # 0 => [bits |-> last.bits, flags |-> last.flags] =
             RoundedOnce(Exactly(Abs(v), Half), last.rm, SignOf(v))

=============================================================================
