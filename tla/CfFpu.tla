-------------------------------- MODULE CfFpu --------------------------------
(***************************************************************************)
(* The floating-point unit of the ColdFire emulator (exec_groupF).         *)
(*                                                                         *)
(* A double is what comparisons tell apart: not a number, an infinity, or  *)
(* one of a few ordered finite numbers.  The arithmetic itself is the      *)
(* host's, so its results are any double.  Memory is a row of doubles and  *)
(* the address register a place in it.                                     *)
(***************************************************************************)
EXTENDS Integers, Sequences, SequencesExt

CONSTANTS Regs,      \* the floating-point registers used, an interval from 0
          Finite,    \* the finite numbers told apart, a set of integers
          Slots,     \* doubles of memory
          MaxFpu     \* bound on the instructions of a behaviour

VARIABLES fp, fpsr, fpcr, mem, a, d, fault, fsteps, cmp
fpuVars == <<fp, fpsr, fpcr, mem, a, d, fault, fsteps, cmp>>

Num(v) == [k |-> "num", v |-> v]
Nan == [k |-> "nan", v |-> 0]
Inf(sign) == [k |-> "inf", v |-> sign]
Doubles == {Num(v) : v \in Finite} \union {Nan, Inf(1), Inf(-1)}

Less(x, y) ==
    CASE x.k = "nan" \/ y.k = "nan" -> FALSE
      [] x.k = "num" /\ y.k = "num" -> x.v < y.v
      [] x.k = "inf" /\ y.k = "num" -> x.v < 0
      [] x.k = "num" /\ y.k = "inf" -> y.v > 0
      [] x.k = "inf" /\ y.k = "inf" -> x.v < y.v
Same(x, y) == x.k # "nan" /\ x = y

Negate(x) == [x EXCEPT !.v = -x.v]
Magnitude(x) == IF x.v < 0 THEN Negate(x) ELSE x

NoCmp == [kind |-> "none", x |-> Nan, y |-> Nan]

FpuInit ==
    /\ fp = [i \in Regs |-> Num(0)]
    /\ fpsr = {}
    /\ fpcr = 0
    /\ mem = [s \in 0 .. Slots - 1 |-> Num(0)]
    /\ a = Slots
    /\ d = 0
    /\ fault = FALSE
    /\ fsteps = 0
    /\ cmp = NoCmp

Running == ~fault /\ fsteps < MaxFpu /\ fsteps' = fsteps + 1
FpuStep == Running /\ cmp' = NoCmp

\* FCMP goes by the sign of the difference, which is not a number when both
\* operands are the same infinity.
Fcmp(x, y) ==
    (CASE x.k = "nan" \/ y.k = "nan" \/ (x.k = "inf" /\ x = y) -> {"NAN"}
       [] OTHER -> IF Less(x, y) THEN {"N"} ELSE IF Same(x, y) THEN {"Z"} ELSE {})
    \union IF x.k = "inf" \/ y.k = "inf" THEN {"I"} ELSE {}

Ftst(x) ==
    (CASE x.k = "nan" -> {"NAN"}
       [] OTHER -> IF Less(x, Num(0)) THEN {"N"} ELSE IF Same(x, Num(0)) THEN {"Z"} ELSE {})
    \union IF x.k = "inf" THEN {"I"} ELSE {}

\* A plausible slip: an unordered result satisfies an ordered condition.
EvalFpccUnordered(cc, fn, fz, fnan) ==
    CASE cc = "OGE" -> fz \/ ~fn
      [] OTHER -> cc = "T"

EvalFpcc(cc, fn, fz, fnan) ==
    CASE cc = "F"   -> FALSE
      [] cc = "EQ"  -> fz
      [] cc = "OGT" -> ~(fnan \/ fz \/ fn)
      [] cc = "OGE" -> fz \/ ~(fnan \/ fn)
      [] cc = "OLT" -> fn /\ ~(fnan \/ fz)
      [] cc = "OLE" -> fz \/ (fn /\ ~fnan)
      [] cc = "OGL" -> ~(fnan \/ fz)
      [] cc = "OR"  -> ~fnan
      [] cc = "UN"  -> fnan
      [] cc = "UEQ" -> fnan \/ fz
      [] cc = "UGT" -> fnan \/ ~(fn \/ fz)
      [] cc = "UGE" -> fnan \/ fz \/ ~fn
      [] cc = "ULT" -> fnan \/ (fn /\ ~fz)
      [] cc = "ULE" -> fnan \/ fz \/ fn
      [] cc = "NE"  -> ~fz
      [] cc = "T"   -> TRUE

Holds(cc) == EvalFpcc(cc, "N" \in fpsr, "Z" \in fpsr, "NAN" \in fpsr)

-----------------------------------------------------------------------------
\* Instructions

\* The general form: an operation on a register from a register or from memory.
Operate(op, dst, x) ==
    /\ fp' = [fp EXCEPT ![dst] = CASE op = "fmove" -> x [] op = "fabs" -> Magnitude(x) [] op = "fneg" -> Negate(x)]
    /\ FpuStep
    /\ UNCHANGED <<fpsr, fpcr, mem, d, fault>>

\* FADD, FSUB, FMUL, FDIV, FSQRT, FINT, FINTRZ and their rounding variants.
HostArithmetic(dst, result) ==
    /\ FpuStep
    /\ fp' = [fp EXCEPT ![dst] = result]
    /\ UNCHANGED <<fpsr, fpcr, mem, d, fault>>

Compare(dst, x) ==
    /\ Running
    /\ fpsr' = Fcmp(fp[dst], x)
    /\ cmp' = [kind |-> "fcmp", x |-> fp[dst], y |-> x]
    /\ UNCHANGED <<fp, fpcr, mem, d, fault>>

Test(x) ==
    /\ Running
    /\ fpsr' = Ftst(x)
    /\ cmp' = [kind |-> "ftst", x |-> x, y |-> Num(0)]
    /\ UNCHANGED <<fp, fpcr, mem, d, fault>>

General(dst, x) ==
    \/ \E op \in {"fmove", "fabs", "fneg"} : Operate(op, dst, x)
    \/ \E r \in Doubles : HostArithmetic(dst, r)
    \/ Compare(dst, x)
    \/ Test(x)

FromRegister(dst, src) == General(dst, fp[src]) /\ UNCHANGED a
FromMemory(dst) == a < Slots /\ General(dst, mem[a]) /\ UNCHANGED a
FromMemoryPost(dst) == a < Slots /\ General(dst, mem[a]) /\ a' = a + 1
FromInteger(dst) == General(dst, Num(d)) /\ UNCHANGED a

StoreDouble(src) ==
    /\ FpuStep
    /\ a < Slots
    /\ mem' = [mem EXCEPT ![a] = fp[src]]
    /\ UNCHANGED <<fp, fpsr, fpcr, a, d, fault>>

StoreDoublePre(src) ==
    /\ FpuStep
    /\ a > 0
    /\ a' = a - 1
    /\ mem' = [mem EXCEPT ![a - 1] = fp[src]]
    /\ UNCHANGED <<fp, fpsr, fpcr, d, fault>>

\* The conversion of anything but a number that fits is undefined in C.
StoreInteger(src) ==
    /\ FpuStep
    /\ d' \in IF fp[src].k = "num" THEN {fp[src].v} ELSE Finite
    /\ UNCHANGED <<fp, fpsr, fpcr, mem, a, fault>>

ControlRegisters ==
    /\ FpuStep
    /\ \/ fpcr' = d /\ UNCHANGED d
       \/ d' = fpcr /\ UNCHANGED fpcr
    /\ UNCHANGED <<fp, fpsr, mem, a, fault>>

Ordered(list) == SetToSortSeq(list, <)

\* FMOVEM stores the lowest register first: upwards from (An), downwards with -(An).
StoreList(list) ==
    LET regs == Ordered(list)
    IN /\ FpuStep
       /\ a + Len(regs) <= Slots
       /\ mem' = [s \in DOMAIN mem |-> IF s - a \in 0 .. Len(regs) - 1 THEN fp[regs[s - a + 1]] ELSE mem[s]]
       /\ UNCHANGED <<fp, fpsr, fpcr, a, d, fault>>

StoreListPre(list) ==
    LET regs == Ordered(list)
    IN /\ FpuStep
       /\ a >= Len(regs)
       /\ a' = a - Len(regs)
       /\ mem' = [s \in DOMAIN mem |-> IF a - s \in 1 .. Len(regs) THEN fp[regs[a - s]] ELSE mem[s]]
       /\ UNCHANGED <<fp, fpsr, fpcr, d, fault>>

Loaded(list) ==
    LET regs == Ordered(list)
    IN [i \in Regs |-> IF i \in list THEN mem[a + (CHOOSE j \in DOMAIN regs : regs[j] = i) - 1] ELSE fp[i]]

LoadList(list) ==
    /\ FpuStep
    /\ a + Len(Ordered(list)) <= Slots
    /\ fp' = Loaded(list)
    /\ UNCHANGED <<fpsr, fpcr, mem, a, d, fault>>

\* Another coprocessor, a source format or an operation the unit does not have.
LineF ==
    /\ FpuStep
    /\ fault' = TRUE
    /\ UNCHANGED <<fp, fpsr, fpcr, mem, a, d>>

FpuNext ==
    \/ \E dst \in Regs, src \in Regs : FromRegister(dst, src)
    \/ \E dst \in Regs : FromMemory(dst) \/ FromMemoryPost(dst) \/ FromInteger(dst)
    \/ \E src \in Regs : StoreDouble(src) \/ StoreDoublePre(src) \/ StoreInteger(src)
    \/ ControlRegisters
    \/ \E list \in SUBSET Regs \ {{}} : StoreList(list) \/ StoreListPre(list) \/ LoadList(list)
    \/ LineF

FpuSpec == FpuInit /\ [][FpuNext]_fpuVars

-----------------------------------------------------------------------------
\* After FCMP or FTST each condition says how the operands compare: the ordered ones
\* fail and the unordered ones hold when one is not a number.  (Two infinities of one
\* sign also compare unordered: the difference FCMP tests is not a number.)
FpConditionsMean ==
    cmp.kind # "none" =>
        LET x  == cmp.x
            y  == cmp.y
            un == x.k = "nan" \/ y.k = "nan" \/ (x.k = "inf" /\ x = y)
            eq == ~un /\ Same(x, y)
            gt == ~un /\ Less(y, x)
            lt == ~un /\ Less(x, y)
        IN /\ Holds("EQ") <=> eq
           /\ Holds("NE") <=> ~eq
           /\ Holds("OGT") <=> gt
           /\ Holds("OGE") <=> gt \/ eq
           /\ Holds("OLT") <=> lt
           /\ Holds("OLE") <=> lt \/ eq
           /\ Holds("OGL") <=> lt \/ gt
           /\ Holds("OR") <=> ~un
           /\ Holds("UN") <=> un
           /\ Holds("UEQ") <=> un \/ eq
           /\ Holds("UGT") <=> un \/ gt
           /\ Holds("UGE") <=> un \/ gt \/ eq
           /\ Holds("ULT") <=> un \/ lt
           /\ Holds("ULE") <=> un \/ lt \/ eq
=============================================================================
