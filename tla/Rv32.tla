-------------------------------- MODULE Rv32 ---------------------------------
(***************************************************************************)
(* The RV32 emulator's core: traps, interrupts, the memory bus, CSRs,      *)
(* atomics, the push and pop of Zcmp, and the step that runs them.         *)
(*                                                                         *)
(* The processor is one record, rv, with the names of rv_cpu.  The guest's *)
(* code is not stored: a step runs any instruction of Programs[plan], of   *)
(* i.len bytes.  An instruction is its opcode and fields, the immediate    *)
(* already decoded (RvCompressed has the decoders).  The bits of mstatus,  *)
(* mie and mip keep their meaning and not their positions.                 *)
(*                                                                         *)
(* Left out: the trace ring, a diagnostic.  Added, for the properties:     *)
(* back, linked, redo and broken.                                          *)
(***************************************************************************)
EXTENDS RvInteger, Sequences

CONSTANTS EW, MW, Digits, U,     \* the float format, see RvFloat
          Programs,         \* [plan -> instructions its steps may run]
          Starts,           \* [plan -> processors to start from]
          Raised,           \* [plan -> interrupt lines the host drives]
          Fuels             \* [plan -> bound on the steps]

Fl == INSTANCE RvFloat

VARIABLES rv, plan, rvfuel
rvVars == <<rv, plan, rvfuel>>

MIE == 1
MPIE == 2
MPP == 4
FS == 8
Lines == [ext |-> 4, soft |-> 1, timer |-> 2]   \* their bits in mip and mie
On(bits, b) == (bits & b) # 0
Without(bits, b) == bits - (bits & b)

-----------------------------------------------------------------------------
\* Traps and interrupts

Vector(mtvec, cause) ==
    Wrap(mtvec - (mtvec % 4) + (IF mtvec % 4 = 1 /\ cause >= Msb THEN 4 * (cause - Msb) ELSE 0))

Entered(mstatus) ==
    (Without(mstatus, MIE + MPIE) | MPP) | (IF On(mstatus, MIE) THEN MPIE ELSE 0)

\* Control moves to the handler; who was interrupted is remembered in back.
Redirect(c, cause, tval) ==
    IF c.in_trap THEN [c EXCEPT !.halted = TRUE]
    ELSE [c EXCEPT !.mepc = c.pc, !.mcause = cause, !.mtval = tval,
                   !.mstatus = Entered(c.mstatus), !.waiting = FALSE, !.pc = Vector(c.mtvec, cause),
                   !.in_trap = TRUE,
                   !.back = [ok |-> TRUE, pc |-> c.pc, mie |-> On(c.mstatus, MIE)],
                   !.linked.trapped = TRUE]

\* The trap also forgets the reservation.
Trap(c, cause, tval) == [Redirect(c, cause, tval) EXCEPT !.res_valid = @ /\ c.in_trap]

Illegal(c, i) == Trap(c, 2, i.enc)

IrqPending(c) ==
    LET ready == c.mip & c.mie
    IN IF ~On(c.mstatus, MIE) THEN 0
       ELSE IF On(ready, Lines.ext) THEN Msb + 11
       ELSE IF On(ready, Lines.soft) THEN Msb + 3
       ELSE IF On(ready, Lines.timer) THEN Msb + 7
       ELSE 0

Claim(c, what, ok) == IF ok THEN c ELSE [c EXCEPT !.broken = @ \union {what}]

\* mret; a handler that left mepc and mstatus alone resumes what it interrupted.
Mret(c) ==
    LET on == On(c.mstatus, MPIE)
        r  == [c EXCEPT !.mstatus = Without(c.mstatus, MIE) | (MPIE + (IF on THEN MIE ELSE 0)),
                        !.pc = c.mepc, !.back.ok = FALSE]
    IN Claim(r, "resume", c.back.ok => r.pc = c.back.pc /\ On(r.mstatus, MIE) = c.back.mie)

-----------------------------------------------------------------------------
\* The memory bus.  The probe denies the bytes of denied, and writing those of
\* readonly; memory is flat, and its end is checked as machine.c does.

Span(addr, size) == {Wrap(addr + k) : k \in 0 .. size - 1}
Denied(c, addr, size) == Span(addr, size) \cap c.denied # {}
DeniedWrite(c, addr, size) == Span(addr, size) \cap (c.denied \union c.readonly) # {}

\* The bytes an access touches: an aligned one all or none of its span.
Reached(c, addr, size) ==
    LET inside == Span(addr, size) \cap DOMAIN c.mem
    IN IF addr % size = 0 /\ inside # Span(addr, size) THEN {} ELSE inside

Gathered(c, addr, in) ==
    LET byte(k) == LET p == Wrap(addr + k) IN IF p \in in THEN c.mem[p] ELSE 0
    IN Bytes(byte(0), byte(1), byte(2), byte(3))
Scattered(c, addr, in, val) ==
    [c EXCEPT !.mem = [p \in DOMAIN c.mem |-> IF p \in in THEN ByteAt(val, (p - addr) % Reg) ELSE @[p]]]

\* The cause of the trap the access takes, No if it takes none.
FaultOf(c, addr, size, misaligned, denied, refused) ==
    IF c.trap_misaligned /\ addr % size # 0 THEN misaligned ELSE IF denied THEN refused ELSE No
Read(c, addr, size, fault) ==
    IF fault # No THEN [ok |-> FALSE, v |-> 0, cpu |-> Trap(c, fault, addr)]
    ELSE [ok |-> TRUE, v |-> Gathered(c, addr, Reached(c, addr, size)), cpu |-> c]
Write(c, addr, size, val, fault) ==
    IF fault # No THEN [ok |-> FALSE, cpu |-> Trap(c, fault, addr)]
    ELSE [ok |-> TRUE, cpu |-> Scattered(c, addr, Reached(c, addr, size), val)]

MemRead(c, addr, size) == Read(c, addr, size, FaultOf(c, addr, size, 4, Denied(c, addr, size), 5))
MemWrite(c, addr, size, val) ==
    Write(c, addr, size, val, FaultOf(c, addr, size, 6, DeniedWrite(c, addr, size), 7))

-----------------------------------------------------------------------------
\* CSRs

Unknown == -1
ReadOnlyCsrs == {"cycle", "cycleh", "time", "timeh", "instret", "instreth", "mhartid"}
Frm(c) == c.fcsr \div 32
FlagBits(s) ==
    (IF "NX" \in s THEN 1 ELSE 0) + (IF "UF" \in s THEN 2 ELSE 0) + (IF "OF" \in s THEN 4 ELSE 0)
    + (IF "DZ" \in s THEN 8 ELSE 0) + (IF "NV" \in s THEN 16 ELSE 0)

CsrRead(c, csr) ==
    CASE csr = "fflags" -> c.fcsr % 32
      [] csr = "frm" -> Frm(c)
      [] csr = "fcsr" -> c.fcsr
      [] csr \in {"cycle", "mcycle", "time"} -> c.mcycle % Reg
      [] csr \in {"cycleh", "mcycleh", "timeh"} -> c.mcycle \div Reg
      [] csr \in {"instret", "minstret"} -> c.minstret % Reg
      [] csr \in {"instreth", "minstreth"} -> c.minstret \div Reg
      [] csr = "misa" -> 4 + Bool(c.atomics) + 2 * Bool(c.bitmanip)
      [] csr \in {"mstatus", "mie", "mtvec", "mscratch", "mepc", "mcause", "mtval", "mip"} -> c[csr]
      [] csr = "mhartid" -> 0
      [] OTHER -> Unknown

CsrWrite(c, csr, val) ==
    CASE csr = "fflags" -> [c EXCEPT !.fcsr = (@ - (@ % 32)) + (val % 32)]
      [] csr = "frm" -> [c EXCEPT !.fcsr = (@ % 32) + 32 * (val % 8)]
      [] csr = "fcsr" -> [c EXCEPT !.fcsr = val % 256]
      [] csr = "mstatus" -> [c EXCEPT !.mstatus = val, !.back.ok = FALSE]
      [] csr = "mepc" -> [c EXCEPT !.mepc = val - (val % 2), !.back.ok = FALSE]
      [] csr \in {"mie", "mtvec", "mscratch", "mcause", "mtval", "mip"} -> [c EXCEPT ![csr] = val]
      [] csr = "mcycle" -> [c EXCEPT !.mcycle = (@ - (@ % Reg)) + val]
      [] csr = "mcycleh" -> [c EXCEPT !.mcycle = (@ % Reg) + Reg * val]
      [] csr = "minstret" -> [c EXCEPT !.minstret = (@ - (@ % Reg)) + val]
      [] csr = "minstreth" -> [c EXCEPT !.minstret = (@ % Reg) + Reg * val]
      [] csr = "misa" -> c
Writable(csr) == csr \notin ReadOnlyCsrs /\ csr # "none"

-----------------------------------------------------------------------------
\* exec(), one operator per opcode.  Each leaves the program counter where the
\* next instruction is, unless a trap has moved it.

Go(c, to) == [c EXCEPT !.pc = Wrap(to)]
After(c, i) == Wrap(c.pc + i.len)
SetX(c, i, v) == [Go(c, After(c, i)) EXCEPT !.x[i.rd] = v]
OrIllegal(c, i, v) == IF v = No THEN Illegal(c, i) ELSE SetX(c, i, v)

Jump(c, i, to) == [SetX(c, i, After(c, i)) EXCEPT !.pc = Wrap(to)]

LoadSizes == [f \in {0, 1, 2, 4, 5} |-> CASE f \in {0, 4} -> 1 [] f \in {1, 5} -> 2 [] f = 2 -> 4]
Loaded(c, i, r) ==
    IF ~r.ok THEN r.cpu
    ELSE SetX(c, i, IF i.f3 \in {0, 1} THEN SignExtend(r.v, LoadSizes[i.f3] * Y) ELSE r.v)
Stored(c, i, r) == IF ~r.ok THEN r.cpu ELSE Go(r.cpu, After(c, i))
Address(c, i) == Wrap(c.x[i.rs1] + i.imm)
ExecLoad(c, i) ==
    IF i.f3 \notin DOMAIN LoadSizes THEN Illegal(c, i)
    ELSE Loaded(c, i, MemRead(c, Address(c, i), LoadSizes[i.f3]))
ExecStore(c, i) ==
    IF i.f3 \notin 0 .. 2 THEN Illegal(c, i)
    ELSE Stored(c, i, MemWrite(c, Address(c, i), 2 ^ i.f3, c.x[i.rs2]))

\* i.f7 holds funct5.  linked remembers the lr.w and whether a trap came since.
Reserved(c, i, addr, r) ==
    IF ~r.ok THEN r.cpu
    ELSE [SetX(c, i, r.v) EXCEPT !.res_addr = addr, !.res_valid = TRUE,
                                 !.linked = [addr |-> addr, trapped |-> FALSE]]
LoadReserved(c, i, addr) ==
    IF i.rs2 # 0 THEN Illegal(c, i) ELSE Reserved(c, i, addr, MemRead(c, addr, 4))

Conditional(c, i, addr, won, r) ==
    IF won /\ ~r.ok THEN r.cpu
    ELSE Claim([SetX(IF won THEN r.cpu ELSE c, i, IF won THEN 0 ELSE 1)
                    EXCEPT !.res_valid = FALSE, !.linked = [addr |-> No, trapped |-> FALSE]],
               "reserve", won => c.linked = [addr |-> addr, trapped |-> FALSE])
StoreConditional(c, i, addr) ==
    Conditional(c, i, addr, c.res_valid /\ c.res_addr = addr, MemWrite(c, addr, 4, c.x[i.rs2]))

Exchanged(i, old, w) == IF ~w.ok THEN w.cpu ELSE SetX(w.cpu, i, old)
Modify(c, i, addr, old, v) == IF v = No THEN Illegal(c, i) ELSE Exchanged(i, old, MemWrite(c, addr, 4, v))
AmoRead(c, i, addr, r) == IF ~r.ok THEN r.cpu ELSE Modify(c, i, addr, r.v, Amo(i.f7, r.v, c.x[i.rs2]))
ReadModifyWrite(c, i, addr) == AmoRead(c, i, addr, MemRead(c, addr, 4))

ExecAmo(c, i) ==
    LET addr == c.x[i.rs1]
    IN IF ~c.atomics \/ i.f3 # 2 THEN Illegal(c, i)
       ELSE IF addr % 4 # 0 THEN Trap(c, IF i.f7 = 2 THEN 4 ELSE 6, addr)
       ELSE IF i.f7 = 2 THEN LoadReserved(c, i, addr)
       ELSE IF i.f7 = 3 THEN StoreConditional(c, i, addr)
       ELSE ReadModifyWrite(c, i, addr)

LoadedFp(c, i, r) == IF ~r.ok THEN r.cpu ELSE [Go(c, After(c, i)) EXCEPT !.f[i.rd] = r.v]
ExecLoadFp(c, i) == IF i.f3 # 2 THEN Illegal(c, i) ELSE LoadedFp(c, i, MemRead(c, Address(c, i), 4))
ExecStoreFp(c, i) ==
    IF i.f3 # 2 THEN Illegal(c, i) ELSE Stored(c, i, MemWrite(c, Address(c, i), 4, c.f[i.rs2]))

\* i.name is the instruction, i.f3 the rounding mode, i.list the third operand.
SetResult(d, i, bits) ==
    IF i.name \in Fl!ToInteger THEN [d EXCEPT !.x[i.rd] = bits] ELSE [d EXCEPT !.f[i.rd] = bits]
SetFlags(c, i, r) == SetResult([Go(c, After(c, i)) EXCEPT !.fcsr = @ | FlagBits(r.flags)], i, r.bits)
ExecRounding(c, i, rm) ==
    IF i.name \notin Fl!FloatOps \/ rm = -1 THEN Illegal(c, i)
    ELSE SetFlags(c, i, Fl!FloatResult(i.name, c.f[i.rs1], c.f[i.rs2], c.f[i.list], c.x[i.rs1], rm))
ExecFp(c, i) == ExecRounding(c, i, IF i.name \in Fl!Rounding THEN Fl!ResolveRm(Frm(c), i.f3) ELSE 0)

\* machine.c's system calls: write, exit, anything else.
Ecall(c, i) ==
    LET d == Go(c, After(c, i))
    IN IF ~c.ecall THEN Trap(c, 11, 0)
       ELSE IF c.x[17] = 64 THEN [d EXCEPT !.x[10] = c.x[12]]
       ELSE IF c.x[17] \in {93, 94} THEN [d EXCEPT !.halted = TRUE, !.exit_code = c.x[10]]
       ELSE [d EXCEPT !.x[10] = Wrap(-38)]

\* i.name is the register, i.f3 the form, i.rs1 the source or the immediate.
ExecCsr(c, i) ==
    LET form == i.f3 % 4
        src  == IF i.f3 >= 4 THEN i.rs1 ELSE c.x[i.rs1]
        skip == form = 1 /\ i.rd = 0
        old  == IF skip THEN 0 ELSE CsrRead(c, i.name)
        val  == CASE form = 1 -> src [] form = 2 -> old | src [] form = 3 -> old & Flip(src)
    IN IF i.f3 = 4 \/ old = Unknown THEN Illegal(c, i)
       ELSE IF form # 1 /\ i.rs1 = 0 THEN SetX(c, i, old)
       ELSE IF ~Writable(i.name) THEN Illegal(c, i)
       ELSE SetX(CsrWrite(c, i.name, val), i, old)

ExecSystem(c, i) ==
    CASE i.f3 # 0 -> ExecCsr(c, i)
      [] i.f3 = 0 /\ i.name = "ecall" -> Ecall(c, i)
      [] i.f3 = 0 /\ i.name = "ebreak" -> Trap(c, 3, 0)
      [] i.f3 = 0 /\ i.name = "mret" -> Mret(c)
      [] i.f3 = 0 /\ i.name = "wfi" -> [Go(c, After(c, i)) EXCEPT !.waiting = TRUE]
      [] i.f3 = 0 /\ i.name = "none" -> Illegal(c, i)

Exec(c, i) ==
    LET a == c.x[i.rs1]
        b == c.x[i.rs2]
    IN CASE i.op = "LUI" -> SetX(c, i, Wrap(i.imm))
         [] i.op = "AUIPC" -> SetX(c, i, Wrap(c.pc + i.imm))
         [] i.op = "JAL" -> Jump(c, i, c.pc + i.imm)
         [] i.op = "JALR" -> LET t == Wrap(a + i.imm) IN IF i.f3 # 0 THEN Illegal(c, i) ELSE Jump(c, i, t - (t % 2))
         [] i.op = "BRANCH" -> IF i.f3 \in {2, 3} THEN Illegal(c, i)
                               ELSE Go(c, IF Taken(i.f3, a, b) THEN c.pc + i.imm ELSE After(c, i))
         [] i.op = "LOAD" -> ExecLoad(c, i)
         [] i.op = "STORE" -> ExecStore(c, i)
         [] i.op = "IMM" -> OrIllegal(c, i, OpImm(i, a, Wrap(i.imm), c.bitmanip))
         [] i.op = "REG" -> OrIllegal(c, i, OpReg(i, a, b, c.bitmanip))
         [] i.op = "AMO" -> ExecAmo(c, i)
         [] i.op = "MISC_MEM" -> IF i.f3 \in {0, 1} THEN Go(c, After(c, i)) ELSE Illegal(c, i)
         [] i.op = "LOAD_FP" -> ExecLoadFp(c, i)
         [] i.op = "STORE_FP" -> ExecStoreFp(c, i)
         [] i.op = "FP" -> ExecFp(c, i)
         [] i.op = "SYSTEM" -> ExecSystem(c, i)
         [] i.op = "BAD" -> Illegal(c, i)

-----------------------------------------------------------------------------
\* Zcmp.  i.name is the instruction, i.list its rlist (or the first register of a
\* move pair) and i.imm its spimm (or the second).

SavedRegs == <<8, 9, 18, 19, 20, 21, 22, 23, 24, 25, 26, 27>>
ZcmpRegs(rlist) == <<1>> \o SubSeq(SavedRegs, 1, IF rlist = 15 THEN 12 ELSE rlist - 4)
ZcmpStackAdj(rlist, spimm) ==
    16 * spimm + (CASE rlist <= 7 -> 16
                    [] rlist \in 8 .. 11 -> 32
                    [] rlist \in 12 .. 14 -> 48
                    [] rlist = 15 -> 64)

MovePairs == {"mvsa01", "mva01s"}
Pops == {"pop", "popretz", "popret"}
ZcmpValid(i) ==
    \/ i.name \in MovePairs /\ i.list # i.imm
    \/ i.name \in Pops \union {"push"} /\ i.list >= 4

\* The stores, or the loads, one by one until one faults.
RECURSIVE PushFrom(_, _, _)
PushFrom(c, addr, regs) ==
    LET then(w) == IF ~w.ok THEN w.cpu ELSE PushFrom(w.cpu, Wrap(addr + 4), Tail(regs))
    IN IF regs = <<>> THEN c ELSE then(MemWrite(c, addr, 4, c.x[Head(regs)]))

RECURSIVE PopFrom(_, _, _)
PopFrom(c, addr, regs) ==
    LET then(r) == IF ~r.ok THEN r.cpu
                   ELSE PopFrom([c EXCEPT !.x[Head(regs)] = r.v], Wrap(addr + 4), Tail(regs))
    IN IF regs = <<>> THEN c ELSE then(MemRead(c, addr, 4))

Pushed(d, next, adj) == IF d.in_trap THEN d ELSE [Go(d, next) EXCEPT !.x[2] = Wrap(@ - adj)]
Push(c, i) ==
    LET regs == ZcmpRegs(i.list)
    IN Pushed(PushFrom(c, Wrap(c.x[2] - 4 * Len(regs)), regs), After(c, i), ZcmpStackAdj(i.list, i.imm))

Popped(d, next, sp, name) ==
    IF d.in_trap THEN d
    ELSE [Go(d, IF name = "pop" THEN next ELSE d.x[1]) EXCEPT !.x[2] = sp, !.x[10] = IF name = "popretz" THEN 0 ELSE @]
PopTo(c, i, regs, sp) == Popped(PopFrom(c, Wrap(sp - 4 * Len(regs)), regs), After(c, i), sp, i.name)
Pop(c, i) == PopTo(c, i, ZcmpRegs(i.list), Wrap(c.x[2] + ZcmpStackAdj(i.list, i.imm)))

ExecZcmp(c, i) ==
    LET r1 == SavedRegs[i.list + 1]
        r2 == SavedRegs[i.imm + 1]
        d  == Go(c, After(c, i))
    IN CASE i.name = "mvsa01" -> [d EXCEPT !.x[r1] = c.x[10], !.x[r2] = c.x[11]]
         [] i.name = "mva01s" -> [d EXCEPT !.x[10] = c.x[r1], !.x[11] = c.x[r2]]
         [] i.name = "push" -> Push(c, i)
         [] i.name \in Pops -> Pop(c, i)

-----------------------------------------------------------------------------
\* rv_step

Retire(c) == [c EXCEPT !.x[0] = 0, !.mcycle = @ + 1, !.minstret = @ + 1]

\* i.zcb marks a compressed form that is Zcb's, op C_BAD one that is no instruction.
RejectedC(c, i) == i.len = 2 /\ (i.op \in {"C_BAD", "ZCMP"} \/ (i.zcb /\ ~c.zcb))
Execute(c, i) ==
    IF i.op = "ZCMP" /\ c.zcmp
    THEN IF ZcmpValid(i) THEN Retire(ExecZcmp(c, i)) ELSE Illegal(c, i)
    ELSE IF RejectedC(c, i) THEN Illegal(c, i)
    ELSE Retire(Exec(c, i))

FetchAndExecute(c, i) ==
    IF c.pc % 2 = 1 THEN Trap(c, 0, c.pc)
    ELSE IF Denied(c, c.pc, 2) THEN Trap(c, 1, c.pc)
    ELSE IF i.len = 4 /\ Denied(c, Wrap(c.pc + 2), 2) THEN Trap(c, 1, Wrap(c.pc + 2))
    ELSE Execute(c, i)

\* A load or store that an access fault stopped is remembered in redo with what
\* it would have done.  When it runs again on the registers and the memory the
\* fault left, it must do that.
Effect(c) == <<c.x, c.f, c.mem, c.pc>>
NoRedo == [i |-> "none"]
Restarted(c, i) == "left" \in DOMAIN c.redo /\ c.redo.i = i /\ c.redo.left = <<c.x, c.f, c.mem>> /\ c.redo.pc = c.pc

Unhindered(c) == [c EXCEPT !.denied = {}, !.readonly = {}]
Noted(c, i, d, restarted) ==
    IF d.in_trap /\ d.mcause \in {5, 7} /\ ~(i.op = "AMO" /\ i.f7 = 3)
    THEN [d EXCEPT !.redo = [i |-> i, pc |-> c.pc, left |-> <<d.x, d.f, d.mem>>,
                             want |-> IF restarted THEN c.redo.want ELSE Effect(Execute(Unhindered(c), i))]]
    ELSE IF restarted /\ ~d.in_trap
    THEN Claim([d EXCEPT !.redo = NoRedo], "restart", Effect(d) = c.redo.want)
    ELSE d
Watched(c, i) == Noted(c, i, FetchAndExecute(c, i), Restarted(c, i))

Step(c, i) ==
    LET d == [c EXCEPT !.in_trap = FALSE]
    IN IF IrqPending(d) # 0 THEN Trap(d, IrqPending(d), 0) ELSE Watched(d, i)

Burn == rvfuel > 0 /\ rvfuel' = rvfuel - 1 /\ UNCHANGED plan

RvInit ==
    /\ plan \in DOMAIN Programs
    /\ rv \in Starts[plan]
    /\ rvfuel = Fuels[plan]

RvStep(i) == ~rv.halted /\ Burn /\ rv' = Step(rv, i)

\* The host between two steps: rv_set_irq, the probe's answers, rv_reset.
SetIrq(line, up) ==
    /\ Burn
    /\ On(rv.mip, Lines[line]) # up
    /\ rv' = [rv EXCEPT !.mip = IF up THEN @ | Lines[line] ELSE Without(@, Lines[line])]

Allow ==
    /\ Burn
    /\ rv.denied \union rv.readonly # {}
    /\ \/ rv.denied # {} /\ rv' = [rv EXCEPT !.denied = {a \in @ : \E b \in @ : b < a /\ b \div 4 # a \div 4}]
       \/ rv.readonly # {} /\ rv' = [rv EXCEPT !.readonly = {}]

Reset ==
    /\ Burn
    /\ rv.halted
    /\ rv' = [rv EXCEPT !.x = [r \in DOMAIN @ |-> 0], !.f = [r \in DOMAIN @ |-> 0], !.pc = 100, !.fcsr = 0,
                        !.mstatus = MPP + FS, !.mtvec = 0, !.mepc = 0, !.mcause = 0, !.mtval = 0, !.mscratch = 0,
                        !.mie = 0, !.mip = 0, !.mcycle = 0, !.minstret = 0, !.halted = FALSE, !.in_trap = FALSE,
                        !.waiting = FALSE, !.res_valid = FALSE, !.res_addr = 0,
                        !.back.ok = FALSE, !.redo = NoRedo]

RvNext ==
    \/ \E i \in Programs[plan] : RvStep(i)
    \/ \E line \in Raised[plan], up \in BOOLEAN : SetIrq(line, up)
    \/ Allow
    \/ Reset

RvSpec == RvInit /\ [][RvNext]_rvVars

\* Traps are transparent to the code they interrupt: a handler that leaves mepc
\* and mstatus alone returns to the instruction that was interrupted, with
\* interrupts enabled as they were; a store conditional succeeds only where the
\* last load reserved, with no trap in between; an instruction that an access fault
\* stopped half way (a push, a pop, an atomic) can be run again and does what it
\* would have done at first; and x0 reads zero (rv_trap, exec, exec_zcmp).
TrapsTransparent == rv.broken = {} /\ rv.x[0] = 0
=============================================================================
