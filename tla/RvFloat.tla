------------------------------- MODULE RvFloat -------------------------------
(***************************************************************************)
(* The single-precision unit of the RV32 emulator, in integers.            *)
(*                                                                         *)
(* A float has a sign bit, EW bits of exponent and MW of mantissa (8 and   *)
(* 23 in the code) and is its bit pattern, a natural.  The value of a      *)
(* finite float is a whole number of units of 2^-U.  The double the code   *)
(* computes in holds Digits significant bits (53 in the code).  Its        *)
(* arithmetic is the host's and is modelled by what IEEE 754 says of it:   *)
(* the exact result rounded to the nearest double, ties to even.           *)
(***************************************************************************)
EXTENDS Integers

CONSTANTS EW, MW, Digits, U

P == MW + 1                             \* bits of a significand
ExpMax == 2 ^ EW - 1
Bias == 2 ^ (EW - 1) - 1
Emin == 1 - Bias                        \* -126
SignBit == 2 ^ (EW + MW)
Bits == 0 .. 2 * SignBit - 1
PosInf == ExpMax * 2 ^ MW
CanonNan == PosInf + 2 ^ (MW - 1)
MaxFinite == PosInf - 1

Sign(b) == b \div SignBit
Magnitude(b) == b % SignBit
ExpOf(b) == Magnitude(b) \div 2 ^ MW
ManOf(b) == b % 2 ^ MW
Quiet(b) == ManOf(b) >= 2 ^ (MW - 1)
IsNan(b) == ExpOf(b) = ExpMax /\ ManOf(b) # 0
IsSnan(b) == IsNan(b) /\ ~Quiet(b)
IsInf(b) == Magnitude(b) = PosInf
IsZero(b) == Magnitude(b) = 0
Neg(b) == (b + SignBit) % (2 * SignBit)

\* The value of a finite float, in units.
MagUnits(b) ==
    IF ExpOf(b) = 0 THEN ManOf(b) * 2 ^ (U + Emin - MW)
    ELSE (2 ^ MW + ManOf(b)) * 2 ^ (U + Emin + ExpOf(b) - 1 - MW)
Val(b) == IF Sign(b) = 1 THEN -MagUnits(b) ELSE MagUnits(b)

\* The float with a magnitude that has one: (float)mag, exact.
Encode(sign, mag) ==
    sign * SignBit + CHOOSE b \in 0 .. MaxFinite : MagUnits(b) = mag

Abs(x) == IF x < 0 THEN -x ELSE x
Width(n) == IF n = 0 THEN 0 ELSE CHOOSE w \in 1 .. 31 : 2 ^ (w - 1) <= n /\ (w = 31 \/ n < 2 ^ w)
Over(f, bits) == [bits |-> bits, flags |-> f]

\* The double nearest to n / d units, n >= 0.
NearestMultiple(n, d, q) ==
    LET t == n \div (d * q)
        r == n % (d * q)
        up == 2 * r > d * q \/ (2 * r = d * q /\ t % 2 = 1)
    IN (IF up THEN t + 1 ELSE t) * q
Spare(w) == IF w > Digits THEN w - Digits ELSE 0
NearestDouble(n, d) == NearestMultiple(n, d, 2 ^ Spare(Width(n \div d)))
Double(n) == (IF n < 0 THEN -1 ELSE 1) * NearestDouble(Abs(n), 1)

-----------------------------------------------------------------------------
\* Rounding modes, and f32_round: hi carries the value, the sign of lo says on
\* which side of hi the exact value is.

RNE == 0
RTZ == 1
RDN == 2
RUP == 3
RMM == 4
Dyn == 7
Modes == RNE .. RMM

\* -1 when the mode is invalid.
ResolveRm(frm, rm) ==
    LET m == IF rm = Dyn THEN frm ELSE rm IN IF m > RMM THEN -1 ELSE m

Signed(sign, b) == sign * SignBit + b

Frac(r, half, lo) ==
    CASE r = 0 /\ lo = 0 -> "zero"
      [] r = 0 /\ lo > 0 -> "below"
      [] r = 0 /\ lo < 0 -> "above"
      [] r # 0 /\ r < half -> "below"
      [] r # 0 /\ r > half -> "above"
      [] r # 0 /\ r = half -> IF lo > 0 THEN "above" ELSE IF lo < 0 THEN "below" ELSE "half"

RoundsUp(rm, sign, frac, ip) ==
    CASE rm = RNE -> frac = "above" \/ (frac = "half" /\ ip % 2 = 1)
      [] rm = RTZ -> FALSE
      [] rm = RDN -> sign = 1 /\ frac # "zero"
      [] rm = RUP -> sign = 0 /\ frac # "zero"
      [] rm = RMM -> frac \in {"above", "half"}

Overflowed(rm, sign) ==
    Over({"OF", "NX"},
         Signed(sign, IF rm = RTZ \/ (rm = RDN /\ sign = 0) \/ (rm = RUP /\ sign = 1)
                      THEN MaxFinite ELSE PosInf))


\* The exponent of a double a: 2^(e-1) <= a < 2^e, one less when the exact value
\* is just below a power of two.
Exponent(a, lo) ==
    LET e == Width(a) - U IN IF a = 2 ^ (Width(a) - 1) /\ lo < 0 THEN e - 1 ELSE e

\* Below 2^Emin a bit of precision is lost with every step of the exponent.
Quantum(e) == 2 ^ (U + (IF e > Emin THEN e - P ELSE Emin - MW))

\* A rounded magnitude as a float, with the flags it raises.
Packed(mag, frac, rm, sign) ==
    LET tiny == IF mag < 2 ^ (U + Emin) THEN {"NX", "UF"} ELSE {"NX"}
    IN IF mag >= 2 ^ (U + Bias + 1) THEN Overflowed(rm, sign)
       ELSE Over(IF frac = "zero" THEN {} ELSE tiny, Encode(sign, mag))

\* ip quanta and a fraction, to ip or ip + 1 of them.
Chopped(ip, frac, q, rm, sign) ==
    Packed((IF RoundsUp(rm, sign, frac, ip) THEN ip + 1 ELSE ip) * q, frac, rm, sign)

RoundTo(a, lo, q, rm, sign) ==
    Chopped(IF a % q = 0 /\ lo < 0 THEN a \div q - 1 ELSE a \div q, Frac(a % q, q \div 2, lo), q, rm, sign)
RoundNonZero(a, lo, rm, sign) == RoundTo(a, lo, Quantum(Exponent(a, lo)), rm, sign)

F32Round(hi, lo, rm, signOfZero) ==
    IF hi = 0 /\ lo = 0 THEN Over({}, Signed(signOfZero, 0))
    ELSE LET negative == hi < 0 \/ (hi = 0 /\ lo < 0)
         IN RoundNonZero(IF hi = 0 THEN Abs(lo) ELSE Abs(hi),
                         IF hi = 0 THEN 0 ELSE IF negative THEN -lo ELSE lo, rm, IF negative THEN 1 ELSE 0)

-----------------------------------------------------------------------------
\* The operations.  Each gives the float and the flags it raises.

NV == {"NV"}
Quietly(a, b) == IF IsSnan(a) \/ IsSnan(b) THEN NV ELSE {}
Nan(f) == Over(f, CanonNan)
DownZero(rm) == IF rm = RDN THEN 1 ELSE 0
Xor(s, t) == (s + t) % 2

\* two_sum: the double nearest to the sum and what it leaves out.
TwoSum(exact, s, rm) == F32Round(s, exact - s, rm, DownZero(rm))
SumRounded(x, y, rm) == TwoSum(x + y, Double(x + y), rm)

AnyNan(a, b) == IsNan(a) \/ IsNan(b)

FpAdd(a, b, rm) ==
    IF AnyNan(a, b) THEN Nan(Quietly(a, b))
    ELSE IF IsInf(a) /\ IsInf(b) /\ Sign(a) # Sign(b) THEN Nan(NV)
    ELSE IF IsInf(a) \/ IsInf(b) THEN Over({}, IF IsInf(a) THEN a ELSE b)
    ELSE IF IsZero(a) /\ IsZero(b)
         THEN Over({}, IF Sign(a) = Sign(b) THEN a ELSE Signed(DownZero(rm), 0))
    ELSE SumRounded(Val(a), Val(b), rm)

\* The product of two floats is a double.  Values are multiples of the least float.
Least == 2 ^ (U + Emin - MW)
Product(a, b) == (Val(a) \div Least) * (Val(b) \div Least) * 2 ^ (U + 2 * (Emin - MW))

FpMul(a, b, rm) ==
    LET sign == Xor(Sign(a), Sign(b))
    IN IF AnyNan(a, b) THEN Nan(Quietly(a, b))
       ELSE IF IsInf(a) \/ IsInf(b)
            THEN IF IsZero(a) \/ IsZero(b) THEN Nan(NV) ELSE Over({}, Signed(sign, PosInf))
       ELSE IF IsZero(a) \/ IsZero(b) THEN Over({}, Signed(sign, 0))
       ELSE F32Round(Product(a, b), 0, rm, sign)

\* The quotient as a double; its remainder tells on which side of it the exact
\* quotient is.
WithRemainder(q, r, rm, sign) == F32Round((1 - 2 * sign) * q, (1 - 2 * sign) * r, rm, sign)
Quotient(n, d, q, rm, sign) == WithRemainder(q, n - q * d, rm, sign)
QuotientRounded(x, y, rm, sign) ==
    LET n == (Abs(x) \div Least) * 2 ^ U
        d == Abs(y) \div Least
    IN Quotient(n, d, NearestDouble(n, d), rm, sign)

FpDiv(a, b, rm) ==
    LET sign == Xor(Sign(a), Sign(b))
    IN IF AnyNan(a, b) THEN Nan(Quietly(a, b))
       ELSE IF (IsInf(a) /\ IsInf(b)) \/ (IsZero(a) /\ IsZero(b)) THEN Nan(NV)
       ELSE IF IsInf(a) THEN Over({}, Signed(sign, PosInf))
       ELSE IF IsInf(b) \/ IsZero(a) THEN Over({}, Signed(sign, 0))
       ELSE IF IsZero(b) THEN Over({"DZ"}, Signed(sign, PosInf))
       ELSE QuotientRounded(Val(a), Val(b), rm, sign)

\* The square root as a double: t + 1 or t, of Digits bits, for the integer root t of
\* the operand scaled by 4^k.
HalfExp == (Emin - MW) \div 2
IntegerRoot(m) == CHOOSE j \in 2 ^ (Digits - 1) .. 2 ^ Digits : j * j <= m /\ (j + 1) * (j + 1) > m
NearestRoot(m, t) == IF m > t * t + t THEN t + 1 ELSE t
RootFrom(m, k, q, rm) == F32Round(q * 2 ^ (U + HalfExp - k), m - q * q, rm, 0)
Root(m, k, rm) == RootFrom(m, k, NearestRoot(m, IntegerRoot(m)), rm)
Scale(n) == CHOOSE j \in 0 .. Digits : n * 4 ^ j >= 4 ^ (Digits - 1) /\ (j = 0 \/ n * 4 ^ (j - 1) < 4 ^ (Digits - 1))
ScaledRoot(n, k, rm) == Root(n * 4 ^ k, k, rm)
RootRounded(x, rm) ==
    LET n == (x \div Least) * 2 ^ (Emin - MW - 2 * HalfExp) IN ScaledRoot(n, Scale(n), rm)

FpSqrt(a, rm) ==
    IF IsNan(a) THEN Nan(Quietly(a, a))
    ELSE IF IsZero(a) THEN Over({}, a)
    ELSE IF Sign(a) = 1 THEN Nan(NV)
    ELSE IF IsInf(a) THEN Over({}, a)
    ELSE RootRounded(Val(a), rm)

FpFma(a, b, c, rm) ==
    LET sign    == Xor(Sign(a), Sign(b))
        invalid == (IsInf(a) /\ IsZero(b)) \/ (IsZero(a) /\ IsInf(b))
    IN IF invalid THEN Nan(NV)
       ELSE IF AnyNan(a, b) \/ IsNan(c) THEN Nan(Quietly(a, b) \union Quietly(c, c))
       ELSE IF IsInf(a) \/ IsInf(b)
            THEN IF IsInf(c) /\ Sign(c) # sign THEN Nan(NV) ELSE Over({}, Signed(sign, PosInf))
       ELSE IF IsInf(c) THEN Over({}, c)
       ELSE IF Product(a, b) = 0 /\ IsZero(c)
            THEN Over({}, Signed(IF sign = Sign(c) THEN sign ELSE DownZero(rm), 0))
       ELSE SumRounded(Product(a, b), Val(c), rm)

-----------------------------------------------------------------------------
\* Comparison, conversion, classification

\* Floats that are not NaN order as their values: infinities last, zeros equal.
Rank(b) == IF Sign(b) = 1 THEN -Magnitude(b) ELSE Magnitude(b)

MinMax(a, b, max) ==
    IF IsZero(a) /\ IsZero(b) THEN IF (Sign(a) = 1) = max THEN b ELSE a
    ELSE IF max THEN IF Rank(a) > Rank(b) THEN a ELSE b
    ELSE IF Rank(a) < Rank(b) THEN a ELSE b

FpMinMax(a, b, max) ==
    Over(Quietly(a, b),
         IF IsNan(a) /\ IsNan(b) THEN CanonNan
         ELSE IF IsNan(a) THEN b
         ELSE IF IsNan(b) THEN a
         ELSE MinMax(a, b, max))

Truth(p) == IF p THEN 1 ELSE 0
FpCompare(op, a, b) ==
    IF op = "feq" THEN Over(Quietly(a, b), Truth(~AnyNan(a, b) /\ Rank(a) = Rank(b)))
    ELSE IF AnyNan(a, b) THEN Over(NV, 0)
    ELSE Over({}, Truth(IF op = "flt" THEN Rank(a) < Rank(b) ELSE Rank(a) <= Rank(b)))

\* d units rounded to a whole number.
RoundIntegral(d, rm) ==
    LET one  == 2 ^ U
        f    == d \div one
        diff == d % one
        odd  == f % 2 = 1
        up   == CASE rm = RTZ -> d < 0 /\ diff > 0
                  [] rm = RDN -> FALSE
                  [] rm = RUP -> diff > 0
                  [] rm = RMM -> 2 * diff > one \/ (2 * diff = one /\ d >= 0)
                  [] rm = RNE -> 2 * diff > one \/ (2 * diff = one /\ odd)
    IN IF up THEN f + 1 ELSE f

Word == 2 * SignBit                     \* 2^32: an integer register is as wide
Least0(unsigned) == IF unsigned THEN 0 ELSE -SignBit
Most(unsigned) == IF unsigned THEN Word - 1 ELSE SignBit - 1

Converted(a, r, unsigned) ==
    LET lowest  == Over(NV, Least0(unsigned) % Word)
        highest == Over(NV, Most(unsigned))
    IN IF IsNan(a) THEN highest
       ELSE IF IsInf(a) THEN IF Sign(a) = 1 THEN lowest ELSE highest
       ELSE IF r < Least0(unsigned) THEN lowest
       ELSE IF r > Most(unsigned) THEN highest
       ELSE Over(IF r * 2 ^ U # Val(a) THEN {"NX"} ELSE {}, r % Word)
FpToInt(a, unsigned, rm) == Converted(a, RoundIntegral(Val(a), rm), unsigned)

ToSigned(x) == IF x >= SignBit THEN x - Word ELSE x
FpFromInt(x, unsigned, rm) ==
    LET v == IF unsigned THEN x ELSE ToSigned(x) IN F32Round(v * 2 ^ U, 0, rm, 0)

\* The one bit fclass.s sets.
FpClass(a) ==
    LET s == Sign(a) = 1
    IN IF ExpOf(a) = ExpMax
       THEN IF ManOf(a) = 0 THEN IF s THEN 0 ELSE 7 ELSE IF Quiet(a) THEN 9 ELSE 8
       ELSE IF ExpOf(a) = 0
       THEN IF ManOf(a) = 0 THEN IF s THEN 3 ELSE 4 ELSE IF s THEN 2 ELSE 5
       ELSE IF s THEN 1 ELSE 6

SignInject(op, a, b) ==
    CASE op = "fsgnj" -> Signed(Sign(b), Magnitude(a))
      [] op = "fsgnjn" -> Signed(1 - Sign(b), Magnitude(a))
      [] op = "fsgnjx" -> Signed(Xor(Sign(a), Sign(b)), Magnitude(a))

-----------------------------------------------------------------------------
\* The floating-point cases of exec().  i.op names the instruction, a, b and c are
\* float registers, x an integer one, rm a valid mode.

Fused == {"fmadd", "fmsub", "fnmsub", "fnmadd"}
Rounding == {"fadd", "fsub", "fmul", "fdiv", "fsqrt", "fcvt.w", "fcvt.wu", "fcvt.s.w", "fcvt.s.wu"} \union Fused
ToInteger == {"feq", "flt", "fle", "fcvt.w", "fcvt.wu", "fmv.x", "fclass"}
FloatOps == Rounding \union ToInteger
            \union {"fsgnj", "fsgnjn", "fsgnjx", "fmin", "fmax", "fmv.w"}

\* The sign of the product, or of the addend, is flipped first.
FusedOp(op, a, b, c, rm) ==
    FpFma(IF op \in {"fnmsub", "fnmadd"} THEN Neg(a) ELSE a, b,
          IF op \in {"fmsub", "fnmadd"} THEN Neg(c) ELSE c, rm)

FloatResult(op, a, b, c, x, rm) ==
    CASE op = "fadd" -> FpAdd(a, b, rm)
      [] op = "fsub" -> FpAdd(a, Neg(b), rm)
      [] op = "fmul" -> FpMul(a, b, rm)
      [] op = "fdiv" -> FpDiv(a, b, rm)
      [] op = "fsqrt" -> FpSqrt(a, rm)
      [] op \in Fused -> FusedOp(op, a, b, c, rm)
      [] op \in {"fsgnj", "fsgnjn", "fsgnjx"} -> Over({}, SignInject(op, a, b))
      [] op \in {"fmin", "fmax"} -> FpMinMax(a, b, op = "fmax")
      [] op \in {"feq", "flt", "fle"} -> FpCompare(op, a, b)
      [] op \in {"fcvt.w", "fcvt.wu"} -> FpToInt(a, op = "fcvt.wu", rm)
      [] op \in {"fcvt.s.w", "fcvt.s.wu"} -> FpFromInt(x, op = "fcvt.s.wu", rm)
      [] op = "fclass" -> Over({}, 2 ^ FpClass(a))
      [] op = "fmv.x" -> Over({}, a)
      [] op = "fmv.w" -> Over({}, x)
=============================================================================
