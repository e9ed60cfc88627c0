-------------------------------- MODULE CfAlu --------------------------------
(***************************************************************************)
(* The arithmetic of the ColdFire emulator: operand sizes, condition       *)
(* codes, shifts, multiplication, division, the multiply-accumulate unit.  *)
(*                                                                         *)
(* A byte has B bits, so that a word has 2B and a long 4B: the code has    *)
(* B = 8, and nothing in it depends on B but the masks.  Operands are      *)
(* naturals below 2^(4B).  The status register is the set of its one bits. *)
(***************************************************************************)
EXTENDS Integers, Bitwise

CONSTANT B     \* bits of a byte

Byte == 1
Word == 2
Long == 4
Sizes == {Byte, Word, Long}

Mod(sz) == 2 ^ (sz * B)
SizeMask(v, sz) == v % Mod(sz)
Msb(v, sz) == (v \div 2 ^ (sz * B - 1)) % 2 = 1
Signed(v, sz) == IF Msb(v, sz) THEN SizeMask(v, sz) - Mod(sz) ELSE SizeMask(v, sz)
SignExtend(v, sz) == Signed(v, sz) % Mod(Long)

\* What write_ea leaves in a data register that held old.
Merge(old, v, sz) == old - SizeMask(old, sz) + SizeMask(v, sz)

-----------------------------------------------------------------------------
\* Condition codes

SetFlag(sr, f, cond) == IF cond THEN sr \union {f} ELSE sr \ {f}

SetNZ(sr, res, sz) ==
    SetFlag(SetFlag(sr, "N", Msb(res, sz)), "Z", SizeMask(res, sz) = 0)

SetFlagsMove(sr, res, sz) == SetNZ(sr, res, sz) \ {"V", "C"}

SetFlagsAdd(sr, src, dst, res, sz) ==
    LET sm == Msb(src, sz)
        dm == Msb(dst, sz)
        rm == Msb(res, sz)
        c  == (sm /\ dm) \/ (~rm /\ (sm \/ dm))
    IN SetFlag(SetFlag(SetFlag(SetNZ(sr, res, sz), "V", sm = dm /\ rm # sm), "C", c), "X", c)


SetFlagsCmp(sr, src, dst, res, sz) ==
    LET sm == Msb(src, sz)
        dm == Msb(dst, sz)
        rm == Msb(res, sz)
    IN SetFlag(SetFlag(SetNZ(sr, res, sz), "V", sm # dm /\ rm = sm),
               "C", (~dm /\ sm) \/ (rm /\ (~dm \/ sm)))

SetFlagsSub(sr, src, dst, res, sz) ==
    LET t == SetFlagsCmp(sr, src, dst, res, sz) IN SetFlag(t, "X", "C" \in t)

Conditions == {"T", "F", "HI", "LS", "CC", "CS", "NE", "EQ", "VC", "VS", "PL", "MI",
               "GE", "LT", "GT", "LE"}

EvalCC(sr, cc) ==
    LET n == "N" \in sr
        z == "Z" \in sr
        v == "V" \in sr
        c == "C" \in sr
    IN CASE cc = "T"  -> TRUE
         [] cc = "F"  -> FALSE
         [] cc = "HI" -> ~c /\ ~z
         [] cc = "LS" -> c \/ z
         [] cc = "CC" -> ~c
         [] cc = "CS" -> c
         [] cc = "NE" -> ~z
         [] cc = "EQ" -> z
         [] cc = "VC" -> ~v
         [] cc = "VS" -> v
         [] cc = "PL" -> ~n
         [] cc = "MI" -> n
         [] cc = "GE" -> n = v
         [] cc = "LT" -> n # v
         [] cc = "GT" -> ~z /\ n = v
         [] cc = "LE" -> z \/ n # v

-----------------------------------------------------------------------------
\* Two-operand arithmetic: a result and a new status register.

Result(res, sr) == [res |-> res, sr |-> sr]

AddOp(sr, src, dst, sz) ==
    LET res == (dst + src) % Mod(Long) IN Result(res, SetFlagsAdd(sr, src, dst, res, sz))

SubOp(sr, src, dst, sz) ==
    LET res == (dst - src) % Mod(Long) IN Result(res, SetFlagsSub(sr, src, dst, res, sz))

CmpOp(sr, src, dst, sz) ==
    LET res == (dst - src) % Mod(Long) IN Result(dst, SetFlagsCmp(sr, src, dst, res, sz))

LogicOp(op, sr, src, dst, sz) ==
    LET res == CASE op = "or" -> src | dst [] op = "and" -> src & dst [] op = "eor" -> src ^^ dst
    IN Result(res, SetFlagsMove(sr, res, sz))

X(sr) == IF "X" \in sr THEN 1 ELSE 0

\* The flags of the extended operations: Z is only ever cleared.
Extended(sr, res, carry, overflow) ==
    LET t == SetFlag(SetFlag(SetFlag(sr, "C", carry), "X", carry), "V", overflow)
        u == SetFlag(t, "N", Msb(res, Long))
    IN Result(res, IF res # 0 THEN u \ {"Z"} ELSE u)

AddX(sr, src, dst) ==
    LET sum == dst + src + X(sr)
        res == sum % Mod(Long)
        sm  == Msb(src, Long)
    IN Extended(sr, res, sum >= Mod(Long), sm = Msb(dst, Long) /\ Msb(res, Long) # sm)

SubX(sr, src, dst) ==
    LET diff == dst - src - X(sr)
        res  == diff % Mod(Long)
        sm   == Msb(src, Long)
    IN Extended(sr, res, diff < 0, sm # Msb(dst, Long) /\ Msb(res, Long) = sm)

NegX(sr, src) ==
    LET diff == 0 - src - X(sr)
        res  == diff % Mod(Long)
    IN Extended(sr, res, diff < 0, Msb(res, Long) /\ Msb(src, Long))

-----------------------------------------------------------------------------
\* Shifts: what the loops of exec_groupE leave in res and last_out.

Shifted(v, n, sz, one(_), lost(_)) ==
    LET after[k \in 0 .. n] ==
            IF k = 0 THEN [v |-> v, out |-> FALSE]
            ELSE LET p == after[k - 1] IN [v |-> one(p.v), out |-> lost(p.v)]
    IN [after[n] EXCEPT !.v = SizeMask(@, sz)]

Odd(v) == v % 2 = 1
ShiftLeft(v, n, sz) == Shifted(v, n, sz, LAMBDA u : (2 * u) % Mod(Long), LAMBDA u : Msb(u, sz))
ShiftRight(v, n, sz) == Shifted(v, n, sz, LAMBDA u : u \div 2, Odd)
RotateRight(v, n, sz) == Shifted(v, n, sz, LAMBDA u : u \div 2 + (u % 2) * 2 ^ (sz * B - 1), Odd)

Shifts == {"asl", "asr", "lsl", "lsr", "ror"}

ShiftOp(op, sr, val, count, sz) ==
    LET r == CASE op \in {"asl", "lsl"} -> ShiftLeft(val, count, sz)
               [] op = "asr" -> ShiftRight(Signed(val, sz), count, sz)
               [] op = "lsr" -> ShiftRight(val, count, sz)
               [] op = "ror" -> RotateRight(val, count, sz)
        t == SetFlag(SetNZ(sr, r.v, sz), "C", r.out) \ {"V"}
    IN IF count = 0 THEN Result(val, SetFlagsMove(sr, val, sz))
       ELSE Result(r.v, IF op = "ror" THEN t ELSE SetFlag(t, "X", r.out))

-----------------------------------------------------------------------------
\* Multiplication and division.  C division truncates towards zero.

Abs(i) == IF i < 0 THEN -i ELSE i
TruncDiv(a, b) == IF (a < 0) = (b < 0) THEN Abs(a) \div Abs(b) ELSE -(Abs(a) \div Abs(b))
TruncRem(a, b) == a - TruncDiv(a, b) * b

MulLong(sr, src, dst) ==
    LET res == (dst * src) % Mod(Long) IN Result(res, SetFlagsMove(sr, res, Long))

MulWord(signed, sr, src, dst) ==
    LET v(i) == IF signed THEN Signed(i, Word) ELSE SizeMask(i, Word)
        res  == (v(dst) * v(src)) % Mod(Long)
    IN Result(res, SetFlagsMove(sr, res, Long))

\* The quotient of the most negative number by -1 does not fit.
Unrepresentable(src, dst, sz) == dst = Mod(Long) \div 2 /\ Signed(src, sz) = -1

\* Long division, for a divisor that is not zero: quotient, remainder, flags.
DivLong(signed, sr, src, dst) ==
    LET v(i) == IF signed THEN Signed(i, Long) ELSE i
        q == TruncDiv(v(dst), v(src)) % Mod(Long)
        r == TruncRem(v(dst), v(src)) % Mod(Long)
    IN IF signed /\ Unrepresentable(src, dst, Long)
       THEN [done |-> FALSE, q |-> dst, r |-> 0, sr |-> (sr \union {"V", "N"}) \ {"Z"}]
       ELSE [done |-> TRUE, q |-> q, r |-> r, sr |-> SetFlagsMove(sr, q, Long)]

\* Word division: remainder and quotient share the destination.  The signed form
\* leaves the destination alone when the quotient does not fit in a word; the
\* unsigned form does not look.
DivWord(signed, sr, src, dst) ==
    LET v == IF signed THEN Signed(src, Word) ELSE SizeMask(src, Word)
        d == IF signed THEN Signed(dst, Long) ELSE dst
        q == TruncDiv(d, v)
        r == TruncRem(d, v)
    IN CASE signed /\ Unrepresentable(src, dst, Word) ->
              Result(dst, (sr \union {"V", "N"}) \ {"Z"})
         [] signed /\ ~Unrepresentable(src, dst, Word)
                   /\ (q >= Mod(Word) \div 2 \/ q < -(Mod(Word) \div 2)) ->
              Result(dst, sr \union {"V"})
         [] OTHER ->
              Result((SizeMask(r, Word) * Mod(Word) + SizeMask(q, Word)) % Mod(Long),
                     SetFlagsMove(sr, SizeMask(q, Word), Word))

-----------------------------------------------------------------------------
\* One-operand register instructions

\* find-first-one: leading zeroes, all 4B of them for zero
FirstOne(v) ==
    IF v = 0 THEN 4 * B ELSE CHOOSE n \in 0 .. 4 * B - 1 : v \div 2 ^ (4 * B - 1 - n) = 1

ByteOf(v, i) == (v \div 2 ^ (i * B)) % 2 ^ B
ByteRev(v) == ByteOf(v, 3) + ByteOf(v, 2) * 2 ^ B + ByteOf(v, 1) * 2 ^ (2 * B) + ByteOf(v, 0) * 2 ^ (3 * B)

SwapHalves(v) == (v \div Mod(Word)) + SizeMask(v, Word) * Mod(Word)

BitTest(v, bit) == (v \div 2 ^ bit) % 2 = 1
BitChange(op, v, bit) ==
    CASE op = "btst" -> v
      [] op = "bchg" -> IF BitTest(v, bit) THEN v - 2 ^ bit ELSE v + 2 ^ bit
      [] op = "bclr" -> IF BitTest(v, bit) THEN v - 2 ^ bit ELSE v
      [] op = "bset" -> IF BitTest(v, bit) THEN v ELSE v + 2 ^ bit

-----------------------------------------------------------------------------
\* The multiply-accumulate unit.  An accumulator is a signed number of 6B bits.
\* macsr is a set: "OMC" saturate, "SU" unsigned, "FI" fractional, the flags N, Z,
\* V and EV, and the sticky overflow bits Pav(n) of the accumulators.

Pav(n) == <<"PAV0", "PAV1", "PAV2", "PAV3">>[n + 1]

SignExtendTo(v, bits) ==
    LET u == v % 2 ^ bits IN IF u >= 2 ^ (bits - 1) THEN u - 2 ^ bits ELSE u

SignExtend48(v) == SignExtendTo(v, 6 * B)
AccLow(acc) == acc % Mod(Long)
AccExt(acc) == (acc \div Mod(Long)) % Mod(Word)
WithExt(acc, ext) == SignExtend48(ext * Mod(Long) + AccLow(acc))

\* Loading an accumulator sets its extension from the mode.
LoadAcc(macsr, val) ==
    LET ext == CASE "FI" \in macsr -> IF Msb(val, Long) THEN Mod(Word) - Mod(Byte) ELSE 0
                 [] "FI" \notin macsr /\ "SU" \in macsr -> 0
                 [] OTHER -> IF Msb(val, Long) THEN Mod(Word) - 1 ELSE 0
    IN SignExtend48(ext * Mod(Long) + val)

SetMacNZ(macsr, acc) == SetFlag(SetFlag(macsr, "Z", acc = 0), "N", acc < 0)

AfterLoad(macsr, n, acc) == SetMacNZ(macsr \ {"V", "EV", Pav(n)}, acc)

\* The product is an int64: an unsigned one of 2^63 and more turns negative.
Int64(v) == SignExtendTo(v, 8 * B)
Product(macsr, rx, ry, scale) ==
    LET p == IF "SU" \in macsr THEN Int64(rx * ry) ELSE Signed(rx, Long) * Signed(ry, Long)
    IN CASE scale = "left" -> Int64(2 * p) [] scale = "right" -> p \div 2 [] OTHER -> p

MaxAcc == 2 ^ (6 * B - 1) - 1
MinAcc == -(2 ^ (6 * B - 1))

\* A plausible slip: a result out of range is stored as it is.
ConfineNot(macsr, result) ==
    IF "OMC" \in macsr /\ result > MaxAcc THEN MaxAcc ELSE result

Confine(macsr, result) ==
    CASE result \in MinAcc .. MaxAcc -> result
      [] result > MaxAcc -> IF "OMC" \in macsr THEN MaxAcc ELSE SignExtend48(result)
      [] result < MinAcc -> IF "OMC" \in macsr THEN MinAcc ELSE SignExtend48(result)

\* MAC and MSAC on accumulator n.
Mac(macsr, n, acc, rx, ry, scale, subtract) ==
    LET p      == Product(macsr, rx, ry, scale)
        exact  == Int64(IF subtract THEN acc - p ELSE acc + p)
        result == Confine(macsr, exact)
        over   == exact > MaxAcc \/ exact < MinAcc
        m      == IF over THEN macsr \union {Pav(n)} ELSE macsr
        ev     == CASE "FI" \in m -> result # SignExtendTo(result, 5 * B)
                    [] "FI" \notin m /\ "SU" \in m -> result \notin 0 .. Mod(Long) - 1
                    [] OTHER -> result # SignExtendTo(result, 4 * B)
    IN [acc |-> result,
        macsr |-> SetMacNZ(SetFlag(SetFlag(m, "V", Pav(n) \in m), "EV", ev), result)]
=============================================================================
