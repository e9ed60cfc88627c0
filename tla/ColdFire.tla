------------------------------ MODULE ColdFire -------------------------------
(***************************************************************************)
(* The ColdFire core: registers, memory, effective addresses, exceptions   *)
(* and the instructions of every opcode group but the multiply-accumulate  *)
(* and floating-point units, which have modules of their own.              *)
(*                                                                         *)
(* The processor is one record, as it is one struct in the code; exec      *)
(* functions map it to the next.  An instruction is given decoded: what    *)
(* the words at pc hold is the environment's choice, and fetching them     *)
(* moves pc.  Memory is a big-endian row of bytes; the bus reads zero and  *)
(* ignores writes where there is none.                                     *)
(***************************************************************************)
EXTENDS CfAlu, Sequences, FiniteSetsExt

CONSTANTS Ram,        \* the addresses that are memory
          Table,      \* [vector -> handler address]
          TraceCap,   \* events the trace ring holds
          CfStarts,   \* [set name -> states of the processor to start in]
          CfTried,    \* [set name -> instructions tried]
          Fuel        \* [set name -> bound on the steps of a behaviour]

ASSUME WordHoldsSr == 2 * B >= 12

VARIABLES cpu, isa, fuel
cfVars == <<cpu, isa, fuel>>

Illegal == 4
AddressError == 3
ZeroDivide == 5
Privilege == 8
LineA == 10
FormatError == 14
Trap(n) == 32 + n
Autovector(n) == 24 + n

\* Where the bits of the status register lie in a word.
Place == [C |-> 0, V |-> 1, Z |-> 2, N |-> 3, X |-> 4, I0 |-> B, I1 |-> B + 1, I2 |-> B + 2,
          S |-> B + 3, T |-> B + 4]
Ccr == {"C", "V", "Z", "N", "X"}
SrWord(sr) == MapThenSumSet(LAMBDA f : 2 ^ Place[f], sr)
SrOf(w) == {f \in DOMAIN Place : (w \div 2 ^ Place[f]) % 2 = 1}

Super(c) == "S" \in c.sr
Wrap(v) == v % Mod(Long)

-----------------------------------------------------------------------------
\* Bus and fetch

ByteAt(c, addr) == IF Wrap(addr) \in Ram THEN c.mem[Wrap(addr)] ELSE 0

Read(c, addr, sz) ==
    CASE sz = Byte -> ByteAt(c, addr)
      [] sz = Word -> ByteAt(c, addr) * 2 ^ B + ByteAt(c, addr + 1)
      [] sz = Long -> ((ByteAt(c, addr) * 2 ^ B + ByteAt(c, addr + 1)) * 2 ^ B
                          + ByteAt(c, addr + 2)) * 2 ^ B + ByteAt(c, addr + 3)

Write(c, addr, sz, v) ==
    [c EXCEPT !.mem = [x \in Ram |-> IF Wrap(x - addr) < sz THEN ByteOf(v, sz - 1 - Wrap(x - addr))
                                     ELSE c.mem[x]]]

Fetch(c, words) == [c EXCEPT !.pc = Wrap(@ + 2 * words)]

Push(c, v) == Write([c EXCEPT !.a[7] = Wrap(@ - 4)], c.a[7] - 4, Long, v)

-----------------------------------------------------------------------------
\* What a frame on a stack promises to whoever takes it off again: ghost state.
\* It is recorded when pushed, and checked when popped untouched.

Ssp(c) == IF Super(c) THEN c.a[7] ELSE c.usp

Framed(before, after, kind, size, keep) ==
    [after EXCEPT !.frames = Append(@,
        [kind |-> kind, at |-> after.a[7], size |-> size, pc |-> before.pc, sr |-> before.sr,
         sp |-> IF kind = "exception" THEN Ssp(before) ELSE before.a[7],
         bytes |-> [k \in 0 .. size - 1 |-> ByteAt(after, after.a[7] + k)],
         inRam |-> \A k \in 0 .. size - 1 : Wrap(after.a[7] + k) \in Ram,
         keep |-> keep, d |-> before.d, a |-> before.a])]

Top(c) == c.frames[Len(c.frames)]

Untouched(c, at, kind) ==
    /\ c.frames # <<>>
    /\ Top(c).kind = kind /\ Top(c).at = at /\ Top(c).inRam
    /\ \A k \in 0 .. Top(c).size - 1 : ByteAt(c, at + k) = Top(c).bytes[k]

Unframed(c, after, at, kind, restored) ==
    IF Untouched(c, at, kind)
    THEN [after EXCEPT !.frames = SubSeq(@, 1, Len(@) - 1), !.broken = @ \/ ~restored]
    ELSE after

-----------------------------------------------------------------------------
\* Exceptions

UpdateSp(c, sr) ==
    IF ("S" \in sr) = Super(c) THEN c ELSE [c EXCEPT !.a[7] = c.usp, !.usp = c.a[7]]

SetSr(c, sr) == [UpdateSp(c, sr) EXCEPT !.sr = sr]

\* cf_trace_push on the ring; seen is everything ever pushed
TracePush(c, type) ==
    [c EXCEPT !.ring[c.head % TraceCap] = type, !.head = @ + 1, !.seen = Append(@, type)]

TraceCount(c) == IF c.head < TraceCap THEN c.head ELSE TraceCap
TracePeek(c, i) == c.ring[((IF c.head <= TraceCap THEN 0 ELSE c.head) + i) % TraceCap]

Traced(vector) == vector \in {3, 4, 5, 8, 10, 11, 14} \union 32 .. 47

DoubleFault(c) ==
    [TracePush(c, 0) EXCEPT !.fault = TRUE, !.halted = TRUE, !.inexc = FALSE]

\* The stack pointer moves down, then the value is stored.
PushSized(c, sz, v) == Write([c EXCEPT !.a[7] = Wrap(@ - sz)], c.a[7] - sz, sz, v)
Vectored(c, r, vector) ==
    Framed(c, [r EXCEPT !.pc = Read(r, r.vbr + vector * 4, Long), !.halted = FALSE], "exception", 8, {})
FormatWord(vector) == 4 * 2 ^ (2 * B - 4) + vector * 4
Elevated(c) == SetSr(c, (c.sr \union {"S"}) \ {"T"})

\* A plausible slip: the status register is saved after it changed.
EnterSavesNew(c, vector) ==
    LET pushed(s) == PushSized(Push(s, c.pc), Word, SrWord(s.sr))
    IN Vectored(c, PushSized(pushed(Elevated(c)), Word, FormatWord(vector)), vector)

Enter(c, vector) ==
    LET pushed == PushSized(Push(Elevated(c), c.pc), Word, SrWord(c.sr))
    IN Vectored(c, PushSized(pushed, Word, FormatWord(vector)), vector)

Exception(c, vector) ==
    LET take(t) == IF c.inexc THEN DoubleFault(t) ELSE Enter(t, vector)
    IN take(IF Traced(vector) THEN TracePush(c, vector) ELSE c)

Resumed(c, e) ==
    Unframed(c, e, c.a[7], "exception", e.pc = Top(c).pc /\ e.sr = Top(c).sr /\ Ssp(e) = Top(c).sp)
Rte(c) ==
    LET sr == SrOf(Read(c, c.a[7] + 2, Word))
        pc == Read(c, c.a[7] + 4, Long)
        formatted == Read(c, c.a[7], Word) \div 2 ^ (2 * B - 4) = 4
    IN IF Super(c) /\ formatted THEN Resumed(c, [SetSr([c EXCEPT !.a[7] = Wrap(@ + 8)], sr) EXCEPT !.pc = pc])
       ELSE Exception(c, IF Super(c) THEN FormatError ELSE Privilege)

-----------------------------------------------------------------------------
\* Effective addresses.  ea = [m, r, x, xr]: mode, register, what its extension
\* words say (displacement, address or immediate) and the index register of an
\* indexed mode: [addr, reg, scale, ok], ok when its extension word is well formed.

Loc(type, reg, addr, imm) == [type |-> type, reg |-> reg, addr |-> Wrap(addr), imm |-> imm]
Bad == Loc("dn", 0, 0, 0)

Index(c, xr) == Signed(IF xr.addr THEN c.a[xr.reg] ELSE c.d[xr.reg], Long) * xr.scale

StepOf(r, sz) == IF r = 7 /\ sz < 2 THEN 2 ELSE sz

DecodeEa(c, ea, sz) ==
    LET at(k, addr) == [c |-> k, loc |-> Loc("mem", 0, addr, 0)]
        r == ea.r
    IN CASE ea.m = "dn" -> [c |-> c, loc |-> Loc("dn", r, 0, 0)]
         [] ea.m = "an" -> [c |-> c, loc |-> Loc("an", r, 0, 0)]
         [] ea.m = "ind" -> at(c, c.a[r])
         [] ea.m = "post" -> at([c EXCEPT !.a[r] = Wrap(@ + StepOf(r, sz))], c.a[r])
         [] ea.m = "pre" -> at([c EXCEPT !.a[r] = Wrap(@ - StepOf(r, sz))], c.a[r] - StepOf(r, sz))
         [] ea.m = "disp" -> at(Fetch(c, 1), c.a[r] + ea.x)
         [] ea.m = "index" /\ ea.xr.ok -> at(Fetch(c, 1), c.a[r] + Index(c, ea.xr) + ea.x)
         [] ea.m = "index" /\ ~ea.xr.ok ->
              [c |-> [Exception(Fetch(c, 1), AddressError) EXCEPT !.fault = TRUE], loc |-> Bad]
         [] ea.m = "abs" -> at(Fetch(c, 2), ea.x)
         [] ea.m = "absw" -> at(Fetch(c, 1), Signed(ea.x, Word))
         [] ea.m = "pcdisp" -> at(Fetch(c, 1), c.pc + ea.x)
         [] ea.m = "pcindex" -> at(Fetch(c, 1), c.pc + Index(c, ea.xr) + ea.x)
         [] ea.m = "imm" -> [c |-> Fetch(c, IF sz = Long THEN 2 ELSE 1), loc |-> Loc("imm", 0, 0, SizeMask(ea.x, sz))]
         [] ea.m = "bad" -> [c |-> Exception(c, Illegal), loc |-> Bad]

ReadEa(c, loc, sz) ==
    CASE loc.type = "dn" -> SizeMask(c.d[loc.reg], sz)
      [] loc.type = "an" -> c.a[loc.reg]
      [] loc.type = "mem" -> Read(c, loc.addr, sz)
      [] loc.type = "imm" -> SizeMask(loc.imm, sz)

WriteEa(c, loc, sz, v) ==
    CASE loc.type = "dn" -> [c EXCEPT !.d[loc.reg] = Merge(@, v, sz)]
      [] loc.type = "an" -> [c EXCEPT !.a[loc.reg] = v]
      [] loc.type = "mem" -> Write(c, loc.addr, sz, v)
      [] loc.type = "imm" -> c

-----------------------------------------------------------------------------
\* Instructions: i = [op, sz, ea, to, n, list].  Those that read an operand and
\* write one back share their shape.

\* Decode, read, compute, write back, set the condition codes.
WriteBack(e, sz, r) == [WriteEa(e.c, e.loc, sz, r.res) EXCEPT !.sr = r.sr]
UpdateAt(e, sz, f(_, _)) == WriteBack(e, sz, f(e.c.sr, ReadEa(e.c, e.loc, sz)))
Update(c, ea, sz, f(_, _)) == UpdateAt(DecodeEa(c, ea, sz), sz, f)

\* Decode and read into a data register.
ReadAt(e, sz, f(_, _)) == f(e.c, ReadEa(e.c, e.loc, sz))
Into(c, ea, sz, f(_, _)) == ReadAt(DecodeEa(c, ea, sz), sz, f)

Flags(c, sr) == [c EXCEPT !.sr = sr]
SetD(c, n, v, sz) == [c EXCEPT !.d[n] = Merge(@, v, sz)]

Alu(op, sr, src, dst, sz) ==
    CASE op = "add" -> AddOp(sr, src, dst, sz)
      [] op = "sub" -> SubOp(sr, src, dst, sz)
      [] op = "cmp" -> CmpOp(sr, src, dst, sz)
      [] OTHER -> LogicOp(op, sr, src, dst, sz)

\* <ea> op Dn -> Dn, and Dn op <ea> -> <ea>
ToRegister(c, i, op) ==
    LET put(k, r) == Flags(IF op = "cmp" THEN k ELSE SetD(k, i.n, r.res, i.sz), r.sr)
    IN Into(c, i.ea, i.sz, LAMBDA k, src : put(k, Alu(op, k.sr, src, SizeMask(k.d[i.n], i.sz), i.sz)))

ToMemory(c, i, op) ==
    Update(c, i.ea, i.sz, LAMBDA sr, dst : Alu(op, sr, SizeMask(c.d[i.n], i.sz), dst, i.sz))

\* BTST, BCHG, BCLR, BSET: bit modulo the width of a register or of a byte
BitOpOn(e, op, sz, v, b) ==
    LET k == Flags(e.c, SetFlag(e.c.sr, "Z", ~BitTest(v, b)))
    IN IF op = "btst" THEN k ELSE WriteEa(k, e.loc, sz, BitChange(op, v, b))
BitOpAt(e, op, sz, bit) == BitOpOn(e, op, sz, ReadEa(e.c, e.loc, sz), bit % (sz * B))
BitOp(c, op, ea, bit) ==
    LET sz == IF ea.m = "dn" THEN Long ELSE Byte IN BitOpAt(DecodeEa(c, ea, sz), op, sz, bit)

ImmediateOps == [ori |-> "or", andi |-> "and", subi |-> "sub", addi |-> "add", eori |-> "eor", cmpi |-> "cmp"]
ExecGroup0(c, i) ==
    CASE i.op \in {"btst", "bchg", "bclr", "bset"} -> BitOp(Fetch(c, 1), i.op, i.ea, i.n)
      [] i.op = "ff1" -> [c EXCEPT !.d[i.n] = FirstOne(@)]
      [] i.op = "byterev" -> [c EXCEPT !.d[i.n] = ByteRev(@)]
      [] i.op \in DOMAIN ImmediateOps ->
           LET k == Fetch(c, IF i.sz = Long THEN 2 ELSE 1)
           IN IF i.op = "cmpi"
              THEN Into(k, i.ea, i.sz, LAMBDA u, dst :
                       Flags(u, CmpOp(u.sr, SizeMask(i.n, i.sz), dst, i.sz).sr))
              ELSE Update(k, i.ea, i.sz, LAMBDA sr, dst :
                              Alu(ImmediateOps[i.op], sr, SizeMask(i.n, i.sz), dst, i.sz))
      [] i.op = "bad0" -> Exception(c, Illegal)

ExecBitReg(c, i) == BitOp(c, i.op, i.ea, c.d[i.n])

ExecMove(c, i) ==
    Into(c, i.ea, i.sz, LAMBDA k, v :
        CASE i.to.m = "an" /\ i.sz = Byte -> Exception(k, Illegal)
          [] i.to.m = "an" /\ i.sz # Byte -> [k EXCEPT !.a[i.to.r] = SignExtend(v, i.sz)]
          [] OTHER -> Update(k, i.to, i.sz, LAMBDA sr, old : Result(v, SetFlagsMove(sr, v, i.sz))))

\* ADDQ, SUBQ and Scc
ExecGroup5(c, i) ==
    LET sub == i.op = "subq"
    IN CASE i.op = "scc" -> IF i.ea.m = "dn" THEN SetD(c, i.ea.r, IF EvalCC(c.sr, i.cc) THEN Mod(Byte) - 1 ELSE 0, Byte)
                            ELSE Exception(c, Illegal)
         [] i.op # "scc" /\ i.ea.m = "an" -> [c EXCEPT !.a[i.ea.r] = Wrap(IF sub THEN @ - i.n ELSE @ + i.n)]
         [] OTHER -> Update(c, i.ea, i.sz, LAMBDA sr, dst :
                                Alu(IF sub THEN "sub" ELSE "add", sr, i.n, dst, i.sz))

\* Branches: i.n the displacement, i.sz the words it takes (0 when in the opcode)
Call(c, back, target) ==
    LET p == Push(c, back.pc) IN Framed(back, [p EXCEPT !.pc = Wrap(target)], "call", 4, {})

ExecGroup6(c, i) ==
    LET k == Fetch(c, i.sz)
    IN CASE i.op = "bra" -> [k EXCEPT !.pc = Wrap(c.pc + i.n)]
         [] i.op = "bsr" -> Call(k, k, c.pc + i.n)
         [] i.op = "bcc" -> IF EvalCC(k.sr, i.cc) THEN [k EXCEPT !.pc = Wrap(c.pc + i.n)] ELSE k

\* MOVEQ, MVS and MVZ
ExecGroup7(c, i) ==
    LET put(k, v) == Flags([k EXCEPT !.d[i.n] = v], SetFlagsMove(k.sr, v, Long))
    IN CASE i.op = "moveq" -> put(c, SignExtend(i.ea.x, Byte))
         [] i.op = "mvs" -> Into(c, i.ea, i.sz, LAMBDA k, v : put(k, SignExtend(v, i.sz)))
         [] i.op = "mvz" -> Into(c, i.ea, i.sz, LAMBDA k, v : put(k, SizeMask(v, i.sz)))

\* OR, AND, EOR, ADD, SUB, CMP with their register and memory forms, and the
\* divisions and multiplications of groups 8 and C
Arith == {"or", "and", "eor", "add", "sub", "cmp"}

PutResult(c, n, r) == Flags([c EXCEPT !.d[n] = r.res], r.sr)
ExecArith(c, i) ==
    CASE i.op \in Arith /\ i.dir = 0 -> ToRegister(c, i, i.op)
      [] i.op \in Arith /\ i.dir = 1 -> ToMemory(c, i, i.op)
      [] i.op \in {"adda", "suba"} ->
           Into(c, i.ea, i.sz, LAMBDA k, src :
               [k EXCEPT !.a[i.n] = Wrap(IF i.op = "adda" THEN @ + SignExtend(src, i.sz) ELSE @ - SignExtend(src, i.sz))])
      [] i.op = "cmpa" ->
           Into(c, i.ea, i.sz, LAMBDA k, src :
               Flags(k, CmpOp(k.sr, SignExtend(src, i.sz), k.a[i.n], Long).sr))
      [] i.op \in {"addx", "subx"} ->
           PutResult(c, i.n, IF i.op = "addx" THEN AddX(c.sr, c.d[i.ea.r], c.d[i.n])
                             ELSE SubX(c.sr, c.d[i.ea.r], c.d[i.n]))
      [] i.op \in {"divs.w", "divu.w"} ->
           Into(c, i.ea, Word, LAMBDA k, src :
               IF SizeMask(src, Word) = 0 THEN Exception(k, ZeroDivide)
               ELSE PutResult(k, i.n, DivWord(i.op = "divs.w", k.sr, src, k.d[i.n])))
      [] i.op \in {"muls.w", "mulu.w"} ->
           Into(c, i.ea, Word, LAMBDA k, src :
               PutResult(k, i.n, MulWord(i.op = "muls.w", k.sr, src, k.d[i.n])))

\* EXG: two data registers, two address registers, one of each
Exg(c, i) ==
    CASE i.ea.m = "dn" /\ i.to.m = "dn" -> [c EXCEPT !.d[i.ea.r] = c.d[i.to.r], !.d[i.to.r] = c.d[i.ea.r]]
      [] i.ea.m = "an" /\ i.to.m = "an" -> [c EXCEPT !.a[i.ea.r] = c.a[i.to.r], !.a[i.to.r] = c.a[i.ea.r]]
      [] i.ea.m = "dn" /\ i.to.m = "an" -> [c EXCEPT !.d[i.ea.r] = c.a[i.to.r], !.a[i.to.r] = c.d[i.ea.r]]

\* The count is an immediate, or a register modulo 64.
ExecGroupE(c, i) ==
    LET count  == IF i.dir = 0 THEN i.n ELSE c.d[i.n] % 64
        put(r) == Flags(SetD(c, i.ea.r, r.res, i.sz), r.sr)
    IN IF i.op \in Shifts THEN put(ShiftOp(i.op, c.sr, SizeMask(c.d[i.ea.r], i.sz), count, i.sz))
       ELSE Exception(c, Illegal)

\* MOV3Q, a hypercall the host takes, and one it leaves to the (idle) unit
ExecGroupA(c, i) ==
    LET v == IF i.n = 0 THEN Mod(Long) - 1 ELSE i.n
    IN CASE i.op = "mov3q" /\ i.ea.m = "an" -> [c EXCEPT !.a[i.ea.r] = v]
         [] i.op = "mov3q" /\ i.ea.m # "an" ->
              Update(c, i.ea, Long, LAMBDA sr, old : Result(v, SetFlagsMove(sr, v, Long)))
         [] i.op = "hypercall" -> c

-----------------------------------------------------------------------------
\* Group 4

Privileged(c, e) == IF Super(c) THEN e ELSE Exception(c, Privilege)

InRegister(c, i, f(_), sz) ==
    LET v == f(c.d[i.n]) IN Flags(SetD(c, i.n, v, IF sz = Word THEN Word ELSE Long), SetFlagsMove(c.sr, v, sz))

RegisterOps(c, i) ==
    CASE i.op = "neg" -> PutResult(c, i.n, SubOp(c.sr, c.d[i.n], 0, Long))
      [] i.op = "negx" -> PutResult(c, i.n, NegX(c.sr, c.d[i.n]))
      [] i.op = "not" -> InRegister(c, i, LAMBDA v : Mod(Long) - 1 - v, Long)
      [] i.op = "ext.w" -> InRegister(c, i, LAMBDA v : SizeMask(SignExtend(v, Byte), Word), Word)
      [] i.op = "ext.l" -> InRegister(c, i, LAMBDA v : SignExtend(v, Word), Long)
      [] i.op = "extb.l" -> InRegister(c, i, LAMBDA v : SignExtend(v, Byte), Long)
      [] i.op = "swap" -> InRegister(c, i, SwapHalves, Long)

Memory(c, i) ==
    CASE i.op = "tas" -> Update(c, i.ea, Byte, LAMBDA sr, v :
                                    Result(IF Msb(v, Byte) THEN v ELSE v + 2 ^ (B - 1), SetFlagsMove(sr, v, Byte)))
      [] i.op = "tst" -> Into(c, i.ea, i.sz, LAMBDA k, v : Flags(k, SetFlagsMove(k.sr, v, i.sz)))
      [] i.op = "clr" -> Update(c, i.ea, i.sz, LAMBDA sr, v : Result(0, (sr \ {"N", "V", "C"}) \union {"Z"}))
      [] i.op = "pea" -> LET pea(e) == Push(e.c, e.loc.addr) IN pea(DecodeEa(c, i.ea, Long))
      [] i.op = "lea" -> LET lea(e) == [e.c EXCEPT !.a[i.n] = e.loc.addr] IN lea(DecodeEa(c, i.ea, Long))

\* MOVEM: registers 0-7 are D0-D7, 8-15 are A0-A7; each is moved with the state
\* the ones before it left.
Reg(c, r) == IF r < 8 THEN c.d[r] ELSE c.a[r - 8]
PutReg(c, r, v) == IF r < 8 THEN [c EXCEPT !.d[r] = v] ELSE [c EXCEPT !.a[r - 8] = v]

RECURSIVE StorePre(_, _, _)
StorePre(c, an, list) ==
    IF list = {} THEN c
    ELSE LET r == Max(list)
             k == [c EXCEPT !.a[an] = Wrap(@ - 4)]
         IN StorePre(Write(k, k.a[an], Long, Reg(k, r)), an, list \ {r})

RECURSIVE LoadPost(_, _, _)
LoadPost(c, an, list) ==
    IF list = {} THEN c
    ELSE LET r == Min(list)
             k == PutReg(c, r, Read(c, c.a[an], Long))
         IN LoadPost([k EXCEPT !.a[an] = Wrap(@ + 4)], an, list \ {r})

RECURSIVE StoreAt(_, _, _)
StoreAt(c, addr, list) ==
    IF list = {} THEN c
    ELSE LET r == Min(list) IN StoreAt(Write(c, addr, Long, Reg(c, r)), addr + 4, list \ {r})

RECURSIVE LoadAt(_, _, _)
LoadAt(c, addr, list) ==
    IF list = {} THEN c
    ELSE LET r == Min(list) IN LoadAt(PutReg(c, r, Read(c, addr, Long)), addr + 4, list \ {r})

Saved(k, an, list, after) ==
    IF an = 7 /\ 15 \notin list THEN Framed(k, after, "registers", 4 * Cardinality(list), list) ELSE after
Restored(c, an, list, load) ==
    IF an = 7 /\ c.frames # <<>> /\ Top(c).keep = list
    THEN Unframed(c, load, c.a[7], "registers",
                  load.a[7] = Top(c).sp /\ \A r \in list : Reg(load, r) = Reg(Top(c), r))
    ELSE load
Movem(c, i) ==
    LET k     == Fetch(c, 1)
        at(e) == IF i.dir = 0 THEN StoreAt(e.c, e.loc.addr, i.list) ELSE LoadAt(e.c, e.loc.addr, i.list)
    IN CASE i.ea.m = "pre" /\ i.dir = 0 -> Saved(k, i.ea.r, i.list, StorePre(k, i.ea.r, i.list))
         [] i.ea.m = "post" /\ i.dir = 1 -> Restored(c, i.ea.r, i.list, LoadPost(k, i.ea.r, i.list))
         [] i.ea.m \in {"ind", "disp"} -> at(DecodeEa(k, i.ea, Long))
         [] OTHER -> Exception(k, Illegal)

\* Calls, frames and returns
Linked(k, p, n, x) ==
    [Framed(k, [p EXCEPT !.a[n] = p.a[7]], "link", 4, {8 + n}) EXCEPT !.a[7] = Wrap(@ + x)]
Unlinked(c, u, n) ==
    Unframed(c, u, c.a[n], "link", Top(c).keep = {8 + n} => u.a[7] = Top(c).sp /\ u.a[n] = Top(c).a[n])
Returned(c, r) == Unframed(c, r, c.a[7], "call", r.pc = Top(c).pc /\ r.a[7] = Top(c).sp)
Flow(c, i) ==
    LET k == Fetch(c, 1)
        q == [k EXCEPT !.a[7] = Wrap(@ - 4)]
        t == [c EXCEPT !.a[7] = c.a[i.n]]
        jsr(e) == Call(e.c, e.c, e.loc.addr)
        jmp(e) == [e.c EXCEPT !.pc = e.loc.addr]
    IN CASE i.op = "link" -> Linked(k, Write(q, q.a[7], Long, q.a[i.n]), i.n, i.ea.x)
         [] i.op = "unlk" ->
              Unlinked(c, [[t EXCEPT !.a[i.n] = Read(t, t.a[7], Long)] EXCEPT !.a[7] = Wrap(@ + 4)], i.n)
         [] i.op = "rts" -> Returned(c, [c EXCEPT !.pc = Read(c, c.a[7], Long), !.a[7] = Wrap(@ + 4)])
         [] i.op = "jsr" -> jsr(DecodeEa(c, i.ea, Long))
         [] i.op = "jmp" -> jmp(DecodeEa(c, i.ea, Long))

Control(c, i) ==
    CASE i.op = "halt" -> Privileged(c, [c EXCEPT !.halted = TRUE])
      [] i.op = "stop" -> Privileged(c, [SetSr(Fetch(c, 1), SrOf(i.n)) EXCEPT !.halted = TRUE])
      [] i.op = "rte" -> Rte(c)
      [] i.op = "trap" -> Exception(c, Trap(i.n))
      [] i.op = "illegal" -> Exception(c, Illegal)
      [] i.op = "nop" -> c


StatusMoves(c, i) ==
    CASE i.op = "from sr" ->
           LET save(e) == WriteEa(e.c, e.loc, Word, SrWord(e.c.sr)) IN Privileged(c, save(DecodeEa(c, i.ea, Word)))
      [] i.op = "to ccr" ->
           Into(c, i.ea, Word, LAMBDA k, v : Flags(k, (k.sr \ Ccr) \union (SrOf(SizeMask(v, Byte)) \cap Ccr)))
      [] i.op = "to sr" ->
           IF Super(c) THEN Into(c, i.ea, Word, LAMBDA k, v : SetSr(k, SrOf(SizeMask(v, Word))))
           ELSE Exception(c, Privilege)
      [] i.op = "to usp" -> Privileged(c, [c EXCEPT !.usp = c.a[i.n]])
      [] i.op = "from usp" -> Privileged(c, [c EXCEPT !.a[i.n] = c.usp])

\* MOVEC: VBR is the control register that changes what the core does; CACR is
\* only stored, the others read 0.
Movec(c, i) ==
    LET k == Fetch(c, 1)
    IN Privileged(c, CASE i.op = "to vbr" -> [k EXCEPT !.vbr = k.d[i.n] - (k.d[i.n] % 2 ^ (4 * B - 12))]
                       [] i.op = "from vbr" -> [k EXCEPT !.d[i.n] = k.vbr]
                       [] i.op = "from acr" -> [k EXCEPT !.d[i.n] = 0]
                       [] i.op = "to acr" -> k)

\* MULS.L, MULU.L, DIVS.L, DIVU.L, REMS.L, REMU.L: quotient to n, remainder to rem
Long4(c, i) ==
    Into(Fetch(c, 1), i.ea, Long, LAMBDA k, src :
        LET put(q) == IF ~q.done THEN Flags(k, q.sr)
                      ELSE IF i.rem = i.n THEN Flags([k EXCEPT !.d[i.n] = q.q], q.sr)
                      ELSE Flags([k EXCEPT !.d[i.n] = q.q, !.d[i.rem] = q.r], q.sr)
        IN IF i.op = "mul.l" THEN PutResult(k, i.n, MulLong(k.sr, src, k.d[i.n]))
           ELSE IF src = 0 THEN Exception(k, ZeroDivide)
           ELSE put(DivLong(i.op = "divs.l", k.sr, src, k.d[i.n])))

-----------------------------------------------------------------------------
\* cf_step: the opcode is fetched, its group executes.
Groups ==
    [zero |-> {"btst", "bchg", "bclr", "bset", "ff1", "byterev", "ori", "andi", "subi", "addi",
               "eori", "cmpi", "bad0"},
     bitreg |-> {"btst.r", "bchg.r", "bclr.r", "bset.r"},
     register |-> {"neg", "negx", "not", "ext.w", "ext.l", "extb.l", "swap"},
     memory |-> {"tas", "tst", "clr", "pea", "lea"},
     flow |-> {"link", "unlk", "rts", "jsr", "jmp"},
     control |-> {"halt", "stop", "rte", "trap", "illegal", "nop"},
     status |-> {"from sr", "to ccr", "to sr", "to usp", "from usp"},
     movec |-> {"to vbr", "from vbr", "to acr", "from acr"},
     long |-> {"mul.l", "divs.l", "divu.l"},
     five |-> {"scc", "addq", "subq"},
     six |-> {"bra", "bsr", "bcc"},
     seven |-> {"moveq", "mvs", "mvz"},
     arith |-> Arith \union {"adda", "suba", "cmpa", "addx", "subx", "divs.w", "divu.w", "muls.w", "mulu.w"},
     shift |-> Shifts \union {"rol", "rox"},
     lineA |-> {"mov3q", "hypercall"}]

Plain(op) == CASE op = "btst.r" -> "btst" [] op = "bchg.r" -> "bchg" [] op = "bclr.r" -> "bclr" [] op = "bset.r" -> "bset"

Exec(c, i) ==
    CASE i.op \in Groups.zero -> ExecGroup0(c, i)
      [] i.op \in Groups.bitreg -> ExecBitReg(c, [i EXCEPT !.op = Plain(@)])
      [] i.op = "move" -> ExecMove(c, i)
      [] i.op \in Groups.register -> RegisterOps(c, i)
      [] i.op \in Groups.memory -> Memory(c, i)
      [] i.op = "movem" -> Movem(c, i)
      [] i.op \in Groups.flow -> Flow(c, i)
      [] i.op \in Groups.control -> Control(c, i)
      [] i.op \in Groups.status -> StatusMoves(c, i)
      [] i.op \in Groups.movec -> Movec(c, i)
      [] i.op \in Groups.long -> Long4(c, i)
      [] i.op \in Groups.five -> ExecGroup5(c, i)
      [] i.op \in Groups.six -> ExecGroup6(c, i)
      [] i.op \in Groups.seven -> ExecGroup7(c, i)
      [] i.op \in Groups.arith -> ExecArith(c, i)
      [] i.op = "exg" -> Exg(c, i)
      [] i.op \in Groups.shift -> ExecGroupE(c, i)
      [] i.op \in Groups.lineA -> ExecGroupA(c, i)

CfInit ==
    /\ isa \in DOMAIN CfTried
    /\ cpu \in CfStarts[isa]
    /\ fuel = Fuel[isa]

CfStep(i) ==
    /\ ~cpu.halted /\ ~cpu.fault
    /\ fuel > 0
    /\ fuel' = fuel - 1
    /\ cpu' = Exec(Fetch(cpu, 1), i)
    /\ UNCHANGED isa

\* The host raises an interrupt between two instructions, halted or not.
Interrupt ==
    /\ ~cpu.fault
    /\ fuel > 0
    /\ fuel' = fuel - 1
    /\ cpu' = Exception(cpu, Autovector(4))
    /\ UNCHANGED isa

CfNext == (\E i \in CfTried[isa] : CfStep(i)) \/ Interrupt

CfSpec == CfInit /\ [][CfNext]_cfVars

-----------------------------------------------------------------------------
\* Taking an untouched frame off its stack restores what it was pushed for: RTE the
\* interrupted pc, status register and supervisor stack pointer, RTS the return
\* address, UNLK the frame and stack pointers, MOVEM the saved registers, however
\* exceptions, interrupts and changes of privilege nested in between (cf_exception,
\* update_sp, RTE, BSR, JSR, RTS, LINK, UNLK, MOVEM).  The trace ring lists the last
\* events in the order they happened.
FramesRestore ==
    /\ ~cpu.broken
    /\ \A k \in 0 .. TraceCount(cpu) - 1 :
           TracePeek(cpu, k) = cpu.seen[Len(cpu.seen) - TraceCount(cpu) + k + 1]

\* User code becomes supervisor code only in the handler of an exception vector, its
\* own pc and status register on the supervisor stack (is_supervisor guards HALT,
\* STOP, RTE, MOVE to and from SR, MOVE USP, MOVEC).
SupervisorStep ==
    ~Super(cpu) /\ Super(cpu') =>
        \E v \in DOMAIN Table :
            /\ cpu'.pc = Read(cpu', cpu'.vbr + v * 4, Long)
            /\ cpu'.a[7] = Wrap(cpu.usp - 8)
SupervisorByException == [][SupervisorStep]_cfVars
=============================================================================
