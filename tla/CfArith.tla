------------------------------- MODULE CfArith -------------------------------
(***************************************************************************)
(* One arithmetic instruction of the ColdFire emulator on any operands.    *)
(*                                                                         *)
(* Two data registers and the status register hold anything.  An           *)
(* instruction reads both, writes its result and the condition codes, and  *)
(* is remembered with its operands in last, so that the result can be      *)
(* compared with what the integers say.                                    *)
(***************************************************************************)
EXTENDS CfAlu

CONSTANT Counts      \* shift counts tried

VARIABLES dx, dy, sr, last
arithVars == <<dx, dy, sr, last>>

Longs == 0 .. Mod(Long) - 1

ArithInit ==
    /\ dx \in Longs
    /\ dy \in Longs
    /\ sr \in SUBSET {"X", "Z"}
    /\ last = [op |-> "none", sz |-> Long, src |-> 0, dst |-> 0, sr |-> {}, rem |-> 0]

Ran(op, sz, src, dst, rem) ==
    last' = [op |-> op, sz |-> sz, src |-> src, dst |-> dst, sr |-> sr, rem |-> rem]

\* The operands of a sized instruction: both masked, the result merged into dx.
Sized(op, sz) ==
    LET src == SizeMask(dy, sz)
        dst == SizeMask(dx, sz)
        r   == CASE op = "add" -> AddOp(sr, src, dst, sz)
                 [] op = "sub" -> SubOp(sr, src, dst, sz)
                 [] op = "cmp" -> CmpOp(sr, src, dst, sz)
                 [] OTHER -> LogicOp(op, sr, src, dst, sz)
    IN /\ dx' = Merge(dx, r.res, sz)
       /\ sr' = r.sr
       /\ Ran(op, sz, src, dst, 0)

ExtendedStep(op) ==
    LET r == CASE op = "addx" -> AddX(sr, dy, dx)
               [] op = "subx" -> SubX(sr, dy, dx)
               [] op = "negx" -> NegX(sr, dx)
    IN /\ dx' = r.res
       /\ sr' = r.sr
       /\ Ran(op, Long, dy, dx, 0)

ShiftStep(op, sz, count) ==
    LET r == ShiftOp(op, sr, SizeMask(dx, sz), count, sz)
    IN /\ dx' = Merge(dx, r.res, sz)
       /\ sr' = r.sr
       /\ Ran(op, sz, count, SizeMask(dx, sz), 0)

MulStep(op) ==
    LET r == CASE op = "mul" -> MulLong(sr, dy, dx)
               [] op = "muls" -> MulWord(TRUE, sr, dy, dx)
               [] op = "mulu" -> MulWord(FALSE, sr, dy, dx)
    IN /\ dx' = r.res
       /\ sr' = r.sr
       /\ Ran(op, Long, dy, dx, 0)

DivLongStep(signed) ==
    LET r == DivLong(signed, sr, dy, dx)
    IN /\ dy # 0
       /\ dx' = r.q
       /\ sr' = r.sr
       /\ Ran(IF signed THEN "divs" ELSE "divu", Long, dy, dx, r.r)

DivWordStep(signed) ==
    LET r == DivWord(signed, sr, dy, dx)
    IN /\ SizeMask(dy, Word) # 0
       /\ dx' = r.res
       /\ sr' = r.sr
       /\ Ran(IF signed THEN "divsw" ELSE "divuw", Word, dy, dx, r.res \div Mod(Word))

UnaryStep(op) ==
    /\ dx' = CASE op = "ff1" -> FirstOne(dx)
               [] op = "byterev" -> ByteRev(dx)
               [] op = "swap" -> SwapHalves(dx)
    /\ sr' = IF op = "swap" THEN SetFlagsMove(sr, SwapHalves(dx), Long) ELSE sr
    /\ Ran(op, Long, 0, dx, 0)

ArithNext ==
    /\ last.op = "none"
    /\ UNCHANGED dy
    /\ \/ \E op \in {"add", "sub", "cmp", "and", "or", "eor"}, sz \in Sizes : Sized(op, sz)
       \/ \E op \in {"addx", "subx", "negx"} : ExtendedStep(op)
       \/ \E op \in Shifts, sz \in Sizes, n \in Counts : ShiftStep(op, sz, n)
       \/ \E op \in {"mul", "muls", "mulu"} : MulStep(op)
       \/ \E signed \in BOOLEAN : DivLongStep(signed)
       \/ \E signed \in BOOLEAN : DivWordStep(signed)
       \/ \E op \in {"ff1", "byterev", "swap"} : UnaryStep(op)

ArithSpec == ArithInit /\ [][ArithNext]_arithVars

-----------------------------------------------------------------------------
\* What the integers say

Got == SizeMask(dx, last.sz)
C == IF "C" \in sr THEN 1 ELSE 0
Fits(i, sz) == i \in -(Mod(sz) \div 2) .. Mod(sz) \div 2 - 1
NZ(res, sz) == ("Z" \in sr <=> res = 0) /\ ("N" \in sr <=> Signed(res, sz) < 0)
SignedDst == Signed(last.dst, last.sz)
SignedSrc == Signed(last.src, last.sz)
OldX == IF "X" \in last.sr THEN 1 ELSE 0

AddExact ==
    last.op = "add" =>
        /\ Got + C * Mod(last.sz) = last.dst + last.src
        /\ "V" \in sr <=> ~Fits(SignedDst + SignedSrc, last.sz)
        /\ "X" \in sr <=> "C" \in sr
        /\ NZ(Got, last.sz)

SubExact ==
    last.op = "sub" =>
        /\ Got - C * Mod(last.sz) = last.dst - last.src
        /\ "V" \in sr <=> ~Fits(SignedDst - SignedSrc, last.sz)
        /\ "X" \in sr <=> "C" \in sr
        /\ NZ(Got, last.sz)

\* After a comparison every condition says how the operands compare.
CompareMeans ==
    last.op = "cmp" =>
        /\ Got = last.dst
        /\ "X" \in sr <=> "X" \in last.sr
        /\ EvalCC(sr, "HI") <=> last.dst > last.src
        /\ EvalCC(sr, "LS") <=> last.dst <= last.src
        /\ EvalCC(sr, "CC") <=> last.dst >= last.src
        /\ EvalCC(sr, "CS") <=> last.dst < last.src
        /\ EvalCC(sr, "EQ") <=> last.dst = last.src
        /\ EvalCC(sr, "NE") <=> last.dst # last.src
        /\ EvalCC(sr, "GE") <=> SignedDst >= SignedSrc
        /\ EvalCC(sr, "LT") <=> SignedDst < SignedSrc
        /\ EvalCC(sr, "GT") <=> SignedDst > SignedSrc
        /\ EvalCC(sr, "LE") <=> SignedDst <= SignedSrc

\* The extended forms chain: carry in, carry out, and a Z that a chain of them
\* leaves set only when every part of the result was zero.
ExtendedExact ==
    last.op \in {"addx", "subx", "negx"} =>
        LET exact  == CASE last.op = "addx" -> last.dst + last.src + OldX
                        [] last.op = "subx" -> last.dst - last.src - OldX
                        [] last.op = "negx" -> -last.dst - OldX
            wanted == CASE last.op = "addx" -> SignedDst + SignedSrc + OldX
                        [] last.op = "subx" -> SignedDst - SignedSrc - OldX
                        [] last.op = "negx" -> -SignedDst - OldX
        IN /\ dx = exact % Mod(Long)
           /\ "C" \in sr <=> (exact < 0 \/ exact >= Mod(Long))
           /\ "X" \in sr <=> "C" \in sr
           /\ "V" \in sr <=> ~Fits(wanted, Long)
           /\ "Z" \in sr <=> ("Z" \in last.sr /\ dx = 0)

\* A shift is a multiplication or a division by a power of two; C is the last
\* bit out, and X follows it, but for rotates and for a count of zero.
ShiftExact ==
    last.op \in Shifts =>
        LET n    == last.src
            bits == last.sz * B
            k    == n % bits
            in   == last.dst
        IN /\ Got = CASE last.op \in {"asl", "lsl"} -> (in * 2 ^ n) % Mod(last.sz)
                      [] last.op = "lsr" -> in \div 2 ^ n
                      [] last.op = "asr" -> (SignedDst \div 2 ^ n) % Mod(last.sz)
                      [] last.op = "ror" -> in \div 2 ^ k + (in % 2 ^ k) * 2 ^ (bits - k)
           /\ NZ(Got, last.sz)
           /\ "V" \notin sr
           /\ "C" \in sr <=>
                  /\ n > 0
                  /\ CASE last.op \in {"asl", "lsl"} -> ((in * 2 ^ n) \div Mod(last.sz)) % 2 = 1
                       [] last.op = "lsr" -> (in \div 2 ^ (n - 1)) % 2 = 1
                       [] last.op = "asr" -> (SignedDst \div 2 ^ (n - 1)) % 2 = 1
                       [] last.op = "ror" -> Msb(Got, last.sz)
           /\ "X" \in sr <=> IF n > 0 /\ last.op # "ror" THEN "C" \in sr ELSE "X" \in last.sr

\* A division that is carried out gives the truncated quotient and a remainder
\* of the sign of the dividend.
DivideExact ==
    /\ last.op = "divu" => last.dst = dx * last.src + last.rem /\ last.rem < last.src
    /\ last.op = "divs" =>
           LET q == Signed(dx, Long)
               r == Signed(last.rem, Long)
           IN IF "V" \in sr THEN dx = last.dst /\ ~Fits(-SignedDst, Long)
              ELSE /\ SignedDst = q * SignedSrc + r
                   /\ Abs(r) < Abs(SignedSrc)
                   /\ r = 0 \/ (r < 0 <=> SignedDst < 0)
    /\ last.op = "divsw" /\ "V" \in sr =>
           /\ dx = last.dst
           /\ ~Fits(TruncDiv(Signed(last.dst, Long), Signed(last.src, Word)), Word)
    /\ last.op = "divsw" /\ "V" \notin sr =>
           Signed(last.dst, Long) =
               Signed(dx, Word) * Signed(last.src, Word) + Signed(last.rem, Word)
    /\ last.op = "divuw" =>
           (last.dst - last.rem - SizeMask(dx, Word) * SizeMask(last.src, Word))
               % (Mod(Word) * SizeMask(last.src, Word)) = 0

\* Add, subtract, compare, shift, divide and their extended forms compute what the
\* integers say for every operand and size, in the result and in every condition code
\* (set_flags_add, set_flags_sub, set_flags_cmp, eval_cc, exec_groupE, the divisions).
ArithmeticExact ==
    AddExact /\ SubExact /\ CompareMeans /\ ExtendedExact /\ ShiftExact /\ DivideExact
=============================================================================
