----------------------------- MODULE MCMachines ------------------------------
(***************************************************************************)
(* Small instances of the emulated processors and their units.  The first  *)
(* state picks a program, and only that program's module runs; the state   *)
(* of the others does not change.                                          *)
(***************************************************************************)
EXTENDS ColdFire

\* Instructions and starting states for the ColdFire core.
NoIndex == [addr |-> FALSE, reg |-> 0, scale |-> 1, ok |-> TRUE]
Ea(m, r, x) == [m |-> m, r |-> r, x |-> x, xr |-> NoIndex]
Indexed(m, r, x, xr) == [m |-> m, r |-> r, x |-> x, xr |-> xr]
None == Ea("dn", 0, 0)

Ins(op, sz, ea, n) ==
    [op |-> op, sz |-> sz, ea |-> ea, to |-> None, n |-> n, list |-> {}, dir |-> 0, cc |-> "T", rem |-> n]

D(r) == Ea("dn", r, 0)
A(r) == Ea("an", r, 0)
Ind(r) == Ea("ind", r, 0)

MCTable == [v \in {3, 4, 5, 8, 14, 28, 32} |-> 1000 + 4 * v]

VectorBytes == UNION {v * 4 .. v * 4 + 3 : v \in DOMAIN MCTable}
MCRam == VectorBytes \union 200 .. 231 \union 240 .. 279

EmptyRam == [x \in MCRam |-> IF x \in VectorBytes THEN ByteOf(MCTable[x \div 4], 3 - (x % 4)) ELSE 0]

Cpu(sr, a7, usp, inexc) ==
    [d |-> [r \in 0 .. 7 |-> CASE r = 0 -> 3 [] r = 1 -> Mod(Long) - 2 [] r = 2 -> SrWord({"S"}) [] OTHER -> 0],
     a |-> [r \in 0 .. 7 |-> CASE r = 0 -> 204 [] r = 7 -> a7 [] OTHER -> 0],
     pc |-> 600, sr |-> sr, usp |-> usp, halted |-> FALSE, fault |-> FALSE, inexc |-> inexc,
     vbr |-> 0, mem |-> EmptyRam, ring |-> [k \in 0 .. TraceCap - 1 |-> 0], head |-> 0, seen |-> <<>>,
     frames |-> <<>>, broken |-> FALSE]

User == Cpu({}, 232, 280, FALSE)
Supervisor == Cpu({"S", "I0", "I1", "I2"}, 280, 232, FALSE)
\* in_exception set, as test_coldfire.c does to provoke a double fault.
InException == Cpu({"S"}, 280, 232, TRUE)
MCStart == [all |-> {User, Supervisor, InException}, nest |-> {User, Supervisor}, link |-> {User, Supervisor},
            products |-> {Supervisor}]

Modes == {D(0), A(0), Ind(0), Ea("post", 0, 0), Ea("pre", 0, 0), Ea("disp", 0, 2), Ea("absw", 0, 204),
          Ea("abs", 0, 204), Ea("pcdisp", 0, -400), Ea("imm", 0, 9), Ea("bad", 0, 0),
          Indexed("index", 0, 1, [addr |-> FALSE, reg |-> 0, scale |-> 2, ok |-> TRUE]),
          Indexed("index", 0, 1, [addr |-> FALSE, reg |-> 0, scale |-> 2, ok |-> FALSE]),
          Indexed("pcindex", 0, -400, [addr |-> TRUE, reg |-> 0, scale |-> 1, ok |-> TRUE])}

\* Every instruction once, and one of each shape in every addressing mode.
All ==
    {Ins(op, sz, D(1), 5) : op \in {"ori", "andi", "subi", "addi", "eori", "cmpi"}, sz \in Sizes}
    \union {Ins(op, Long, ea, 1) : op \in {"btst", "bchg", "bclr", "bset"} \union Groups.bitreg, ea \in {D(0), Ind(0)}}
    \union {[Ins("move", sz, ea, 0) EXCEPT !.to = D(1)] : sz \in Sizes, ea \in Modes}
    \union {[Ins("move", sz, D(1), 0) EXCEPT !.to = ea] : sz \in Sizes, ea \in Modes}
    \union {Ins(op, Long, D(1), 1) : op \in Groups.register \union {"ff1", "byterev", "bad0", "swap"}}
    \union {Ins(op, sz, ea, 1) : op \in {"tas", "tst", "clr"}, sz \in Sizes, ea \in {D(1), Ind(0), Ea("post", 7, 0)}}
    \union {Ins(op, Long, Ea("disp", 0, 2), 1) : op \in {"pea", "lea", "jsr", "jmp"}}
    \union {[Ins("movem", Long, ea, 0) EXCEPT !.list = {0, 1, 9}, !.dir = dir] :
                ea \in {Ind(0), Ea("disp", 0, 2), Ea("pre", 0, 0), Ea("post", 0, 0)}, dir \in {0, 1}}
    \union {Ins(op, Long, D(0), 1) : op \in {"divs.l", "divu.l"}} \union {[Ins("divu.l", Long, D(0), 1) EXCEPT !.rem = 3]}
    \union {Ins(op, Long, D(3), 1) : op \in {"divs.l", "divu.l"}}
    \union {Ins(op, sz, ea, 1) : op \in {"addq", "subq"}, sz \in Sizes, ea \in {D(0), A(0), Ind(0)}}
    \union {[Ins("scc", Byte, ea, 1) EXCEPT !.cc = cc] : cc \in Conditions, ea \in {D(0), Ind(0)}}
    \union {[Ins(op, n, None, 8) EXCEPT !.cc = cc] : op \in Groups.six, cc \in {"EQ", "GT", "CS"}, n \in 0 .. 2}
    \union {Ins(op, Word, Ea("imm", 0, 61), 1) : op \in Groups.seven}
    \union {[Ins(op, sz, ea, 1) EXCEPT !.dir = dir] : op \in Arith, sz \in Sizes, ea \in {D(0), Ind(0)}, dir \in {0, 1}}
    \union {Ins(op, Word, D(0), 1) : op \in Groups.arith \ Arith}
    \union {[Ins("exg", Long, p[1], 0) EXCEPT !.to = p[2]] : p \in {<<D(0), D(1)>>, <<A(0), A(7)>>, <<D(0), A(0)>>}}
    \union {[Ins(op, sz, D(1), 0) EXCEPT !.dir = 1] : op \in Groups.shift, sz \in Sizes}
    \union {Ins("mov3q", Long, ea, n) : ea \in {D(0), A(1), Ind(0)}, n \in {0, 3}}
    \union {Ins("hypercall", Long, None, 0)}
    \union {Ins(op, Long, D(2), 0) : op \in Groups.control \union Groups.status \union Groups.movec}

\* Exceptions, interrupts and changes of privilege, for longer programs.
Nest ==
    {Ins("rte", Long, None, 0), Ins("trap", Long, None, 0), Ins("to sr", Long, D(3), 0),
     Ins("bsr", 1, None, 8), Ins("rts", Long, None, 0),
     [Ins("movem", Long, Ea("pre", 7, 0), 0) EXCEPT !.list = {0, 14}],
     [Ins("movem", Long, Ea("post", 7, 0), 0) EXCEPT !.list = {0, 14}, !.dir = 1]}

\* Frame pointers, both stack pointers, faults and stopping.
Link ==
    {Ins("link", Long, Ea("dn", 0, -4), 6), Ins("unlk", Long, None, 6), Ins("trap", Long, None, 0),
     Ins("rte", Long, None, 0), Ins("to usp", Long, None, 7), Ins("from usp", Long, None, 7),
     Ins("stop", Long, None, SrWord({"S"})), Ins("divu.l", Long, D(3), 1), Ins("addq", Long, D(0), 1)}

\* Alone, on the small operands of the start: their product fits TLC's integers.
Products == {Ins("mul.l", Long, ea, 0) : ea \in {D(0), Ind(0), Ea("imm", 0, 5)}}

MCSteps == [all |-> All, nest |-> Nest, link |-> Link, products |-> Products]
MCFuel == [all |-> 1, nest |-> 5, link |-> 4, products |-> 1]

----------------------------------------------------------------------------
VARIABLES program, v1, v2, v3, v4, v5, v6, v7, v8, v9

pool == <<v1, v2, v3, v4, v5, v6, v7, v8, v9>>
all == <<program, pool, cfVars>>

Unused == "unused"
tail8 == <<v8, v9>>
tail5 == <<v5, v6, v7, tail8>>
tail4 == <<v4, tail5>>
tail3 == <<v3, tail4>>
Off8 == v8 = Unused /\ v9 = Unused
Off5 == v5 = Unused /\ v6 = Unused /\ v7 = Unused /\ Off8
Off4 == v4 = Unused /\ Off5
Off3 == v3 = Unused /\ Off4
PoolOff == v1 = Unused /\ v2 = Unused /\ Off3
CfOff == cpu = Unused /\ isa = Unused /\ fuel = Unused

Integers1 == INSTANCE CfArith WITH
    B <- 1, Counts <- {0, 1, 2, 3, 5}, dx <- v1, dy <- v2, sr <- v3, last <- v4

Accumulator == INSTANCE CfEmac WITH
    B <- 1, Operands <- {7, 8}, MaxEmac <- 4,
    Modes <- {{}, {"OMC"}, {"SU"}, {"FI"}, {"SU", "OMC"}},
    acc <- v1, macsr <- v2, mask <- v3, d <- v4, ccr <- v5, steps <- v6, did <- v7

Float == INSTANCE CfFpu WITH
    Regs <- {0, 1}, Finite <- {-1, 0, 1}, Slots <- 2, MaxFpu <- 3,
    fp <- v1, fpsr <- v2, fpcr <- v3, mem <- v4, a <- v5, d <- v6, fault <- v7,
    fsteps <- v8, cmp <- v9

Given == INSTANCE MCInputs

Rv == INSTANCE Rv32 WITH
    Y <- 2, EW <- 3, MW <- 4, Digits <- 11, U <- 20, Programs <- Given!MCRvPrograms, Starts <- Given!MCRvStarts,
    Raised <- Given!MCRvRaised, Fuels <- Given!MCRvFuels, rv <- v1, plan <- v2, rvfuel <- v3

RvFloats == INSTANCE RvFpu WITH
    EW <- 3, MW <- 4, Digits <- 11, U <- 20,
    Operands <- {0, 1, 15, 17, 47, 63, 111, 112, 120, 177},
    Addends <- {0, 1, 111, 176}, frm <- v1, fflags <- v2, last <- v3

RvIntegers == INSTANCE RvArith WITH
    Y <- 2, Values <- {0, 1, 3, 20, 100, 127, 128, 255}, Amounts <- {0, 1, 5, 7},
    insn <- v1, a <- v2, b <- v3, out <- v4

RvEncodings == INSTANCE RvCompressed WITH c <- v1, insn <- v2

MachineInit ==
    \/ program = "coldfire" /\ CfInit /\ PoolOff
    \/ /\ CfOff
       /\ \/ program = "integers" /\ Integers1!ArithInit /\ Off5
          \/ program = "accumulator" /\ Accumulator!EmacInit /\ Off8
          \/ program = "float" /\ Float!FpuInit
          \/ program = "rv32" /\ Rv!RvInit /\ Off4
          \/ program = "rv floats" /\ RvFloats!FpuInit /\ Off4
          \/ program = "rv integers" /\ RvIntegers!ArithInit /\ Off5
          \/ program = "rv encodings" /\ RvEncodings!DecodeInit /\ Off3

MachineNext ==
    /\ UNCHANGED program
    /\ \/ program = "coldfire" /\ CfNext /\ UNCHANGED pool
       \/ /\ UNCHANGED cfVars
          /\ \/ program = "integers" /\ Integers1!ArithNext /\ UNCHANGED tail5
             \/ program = "accumulator" /\ Accumulator!EmacNext /\ UNCHANGED tail8
             \/ program = "float" /\ Float!FpuNext
             \/ program = "rv32" /\ Rv!RvNext /\ UNCHANGED tail4
             \/ program = "rv floats" /\ RvFloats!FpuNext /\ UNCHANGED tail4
             \/ program = "rv integers" /\ RvIntegers!ArithNext /\ UNCHANGED tail5
             \/ program = "rv encodings" /\ RvEncodings!DecodeNext /\ UNCHANGED tail3

MachineSpec == MachineInit /\ [][MachineNext]_all

----------------------------------------------------------------------------

\* Returning from an exception restores what its frame saved (ColdFire).
ReturnsRestore == program = "coldfire" => FramesRestore


\* A handler returns to what it interrupted, a reservation does not survive a
\* trap, and a faulted instruction can be run again (Rv32).
TrapsTransparent == program = "rv32" => Rv!TrapsTransparent


=============================================================================
