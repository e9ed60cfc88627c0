---------------------------- MODULE RvCompressed -----------------------------
(***************************************************************************)
(* How the RV32 emulator reads instructions: the immediates of the 32-bit  *)
(* formats, and the expansion of the 16-bit ones into them.                *)
(*                                                                         *)
(* A 32-bit encoding is a record of its fields: f7, rs2, rs1, f3, rd, op.  *)
(* Immediates are integers, U-type ones without their twelve zero bits.    *)
(***************************************************************************)
EXTENDS Integers, Sequences

Field(v, low, bits) == (v \div 2 ^ low) % 2 ^ bits
Extend(v, bits) == IF v >= 2 ^ (bits - 1) THEN v - 2 ^ bits ELSE v
Enc(f7, rs2, rs1, f3, rd, op) ==
    [f7 |-> f7, rs2 |-> rs2, rs1 |-> rs1, f3 |-> f3, rd |-> rd, op |-> op]

LOAD == 3
LOAD_FP == 7
MISC_MEM == 15
IMM == 19
AUIPC == 23
STORE == 35
STORE_FP == 39
AMO == 47
REG == 51
LUI == 55
MADD == 67
FP == 83
BRANCH == 99
JALR == 103
JAL == 111
SYSTEM == 115

-----------------------------------------------------------------------------
\* Immediate decoders

ImmI(i) == Extend(i.f7 * 32 + i.rs2, 12)
ImmS(i) == Extend(i.f7 * 32 + i.rd, 12)
ImmB(i) == Extend(Field(i.f7, 6, 1) * 4096 + Field(i.rd, 0, 1) * 2048 + (i.f7 % 64) * 32 + Field(i.rd, 1, 4) * 2, 13)
ImmU(i) == Extend(i.f7 * 2 ^ 13 + i.rs2 * 256 + i.rs1 * 8 + i.f3, 20)
ImmJ(i) ==
    Extend(Field(i.f7, 6, 1) * 2 ^ 20 + (i.rs1 * 8 + i.f3) * 4096 + (i.rs2 % 2) * 2048
           + (i.f7 % 64) * 32 + Field(i.rs2, 1, 4) * 2, 21)

\* Encoders: enc_i, enc_s, enc_b, enc_j, enc_r
EncI(imm, rs1, f3, rd, op) == Enc(Field(imm, 5, 7), imm % 32, rs1, f3, rd, op)
EncS(imm, rs2, rs1, f3, op) == Enc(Field(imm, 5, 7), rs2, rs1, f3, imm % 32, op)
EncB(imm, rs2, rs1, f3, op) ==
    Enc(Field(imm, 12, 1) * 64 + Field(imm, 5, 6), rs2, rs1, f3, Field(imm, 1, 4) * 2 + Field(imm, 11, 1), op)
EncJ(imm, rd, op) ==
    Enc(Field(imm, 20, 1) * 64 + Field(imm, 5, 6), Field(imm, 1, 4) * 2 + Field(imm, 11, 1),
        Field(imm, 15, 5), Field(imm, 12, 3), rd, op)
EncR(f7, rs2, rs1, f3, rd, op) == Enc(f7, rs2, rs1, f3, rd, op)
EncU(imm, rd, op) == Enc(Field(imm, 13, 7), Field(imm, 8, 5), Field(imm, 3, 5), imm % 8, rd, op)

None == Enc(0, 0, 0, 0, 0, 0)

-----------------------------------------------------------------------------
\* Compressed instructions

Rs1P(c) == Field(c, 7, 3) + 8
Rs2P(c) == Field(c, 2, 3) + 8
Crd(c) == Field(c, 7, 5)
Crs2(c) == Field(c, 2, 5)
F3(c) == Field(c, 13, 3)
On(c, n) == Field(c, n, 1) = 1

\* Zcb: byte and halfword accesses, one-operand arithmetic and c.mul
ZcbMemory(c) ==
    LET byte == Field(c, 6, 1) + Field(c, 5, 1) * 2
        half == Field(c, 5, 1) * 2
        kind == Field(c, 10, 2)
    IN CASE On(c, 12) -> None
         [] ~On(c, 12) /\ kind = 0 -> EncI(byte, Rs1P(c), 4, Rs2P(c), LOAD)
         [] ~On(c, 12) /\ kind = 1 -> EncI(half, Rs1P(c), IF On(c, 6) THEN 1 ELSE 5, Rs2P(c), LOAD)
         [] ~On(c, 12) /\ kind = 2 -> EncS(byte, Rs2P(c), Rs1P(c), 0, STORE)
         [] ~On(c, 12) /\ kind = 3 -> IF On(c, 6) THEN None ELSE EncS(half, Rs2P(c), Rs1P(c), 1, STORE)

ZcbArith(c) ==
    LET r == Rs1P(c)
        which == Field(c, 5, 2)
        unary == Field(c, 2, 3)
    IN CASE which = 2 -> EncR(1, Rs2P(c), r, 0, r, REG)
         [] which = 3 /\ unary = 0 -> EncI(255, r, 7, r, IMM)
         [] which = 3 /\ unary = 1 -> EncI(48 * 32 + 4, r, 1, r, IMM)
         [] which = 3 /\ unary = 2 -> EncR(4, 0, r, 4, r, REG)
         [] which = 3 /\ unary = 3 -> EncI(48 * 32 + 5, r, 1, r, IMM)
         [] which = 3 /\ unary = 5 -> EncI(4095, r, 4, r, IMM)
         [] OTHER -> None

ExpandZcb(c) ==
    IF F3(c) # 4 THEN None
    ELSE IF c % 4 = 0 THEN ZcbMemory(c)
    ELSE IF c % 4 = 1 /\ Field(c, 10, 3) = 7 THEN ZcbArith(c)
    ELSE None

\* Quadrant 0: stack address, word loads and stores
Quadrant0(c) ==
    LET spn  == Field(c, 7, 4) * 64 + Field(c, 11, 2) * 16 + Field(c, 5, 1) * 8 + Field(c, 6, 1) * 4
        word == Field(c, 10, 3) * 8 + Field(c, 6, 1) * 4 + Field(c, 5, 1) * 64
    IN CASE F3(c) = 0 /\ spn # 0 -> EncI(spn, 2, 0, Rs2P(c), IMM)
         [] F3(c) = 2 -> EncI(word, Rs1P(c), 2, Rs2P(c), LOAD)
         [] F3(c) = 3 -> EncI(word, Rs1P(c), 2, Rs2P(c), LOAD_FP)
         [] F3(c) = 6 -> EncS(word, Rs2P(c), Rs1P(c), 2, STORE)
         [] F3(c) = 7 -> EncS(word, Rs2P(c), Rs1P(c), 2, STORE_FP)
         [] OTHER -> None

\* Quadrant 1: immediates, arithmetic, jumps and branches
Six(c) == Extend(Field(c, 12, 1) * 32 + Field(c, 2, 5), 6)


JumpImm(c) ==
    Extend(Field(c, 12, 1) * 2048 + Field(c, 11, 1) * 16 + Field(c, 9, 2) * 256 + Field(c, 8, 1) * 1024
           + Field(c, 7, 1) * 64 + Field(c, 6, 1) * 128 + Field(c, 3, 3) * 2 + Field(c, 2, 1) * 32, 12)
BranchImm(c) ==
    Extend(Field(c, 12, 1) * 256 + Field(c, 10, 2) * 8 + Field(c, 5, 2) * 64 + Field(c, 3, 2) * 2
           + Field(c, 2, 1) * 32, 9)
StackImm(c) ==
    Extend(Field(c, 12, 1) * 512 + Field(c, 6, 1) * 16 + Field(c, 5, 1) * 64 + Field(c, 3, 2) * 128
           + Field(c, 2, 1) * 32, 10)

\* c.addi16sp and c.lui
StackOrLui(c) ==
    CASE Crd(c) = 2 /\ StackImm(c) # 0 -> EncI(StackImm(c), 2, 0, 2, IMM)
      [] Crd(c) # 2 /\ Six(c) # 0 -> EncU(Six(c), Crd(c), LUI)
      [] OTHER -> None

Arithmetic(c) ==
    LET r == Rs1P(c)
        kind == Field(c, 10, 2)
        reg(f7, f3) == EncR(f7, Rs2P(c), r, f3, r, REG)
    IN CASE kind \in {0, 1} /\ ~On(c, 12) -> EncI(Field(c, 2, 5) + kind * 1024, r, 5, r, IMM)
         [] kind = 2 -> EncI(Six(c), r, 7, r, IMM)
         [] kind = 3 /\ ~On(c, 12) /\ Field(c, 5, 2) = 0 -> reg(32, 0)
         [] kind = 3 /\ ~On(c, 12) /\ Field(c, 5, 2) = 1 -> reg(0, 4)
         [] kind = 3 /\ ~On(c, 12) /\ Field(c, 5, 2) = 2 -> reg(0, 6)
         [] kind = 3 /\ ~On(c, 12) /\ Field(c, 5, 2) = 3 -> reg(0, 7)
         [] OTHER -> None

Quadrant1(c) ==
    CASE F3(c) = 0 -> EncI(Six(c), Crd(c), 0, Crd(c), IMM)
      [] F3(c) = 1 -> EncJ(JumpImm(c), 1, JAL)
      [] F3(c) = 2 -> EncI(Six(c), 0, 0, Crd(c), IMM)
      [] F3(c) = 3 -> StackOrLui(c)
      [] F3(c) = 4 -> Arithmetic(c)
      [] F3(c) = 5 -> EncJ(JumpImm(c), 0, JAL)
      [] F3(c) \in {6, 7} -> EncB(BranchImm(c), 0, Rs1P(c), F3(c) - 6, BRANCH)

\* Quadrant 2: stack loads and stores, register moves, indirect jumps
JumpOrMove(c) ==
    CASE Crs2(c) # 0 -> EncR(0, Crs2(c), IF On(c, 12) THEN Crd(c) ELSE 0, 0, Crd(c), REG)
      [] Crs2(c) = 0 /\ Crd(c) # 0 -> EncI(0, Crd(c), 0, Field(c, 12, 1), JALR)
      [] Crs2(c) = 0 /\ Crd(c) = 0 -> IF On(c, 12) THEN EncI(1, 0, 0, 0, SYSTEM) ELSE None

Quadrant2(c) ==
    LET load  == Field(c, 12, 1) * 32 + Field(c, 4, 3) * 4 + Field(c, 2, 2) * 64
        store == Field(c, 9, 4) * 4 + Field(c, 7, 2) * 64
    IN CASE F3(c) = 0 /\ ~On(c, 12) -> EncI(Field(c, 2, 5), Crd(c), 1, Crd(c), IMM)
         [] F3(c) = 2 /\ Crd(c) # 0 -> EncI(load, 2, 2, Crd(c), LOAD)
         [] F3(c) = 3 -> EncI(load, 2, 2, Crd(c), LOAD_FP)
         [] F3(c) = 4 -> JumpOrMove(c)
         [] F3(c) = 6 -> EncS(store, Crs2(c), 2, 2, STORE)
         [] F3(c) = 7 -> EncS(store, Crs2(c), 2, 2, STORE_FP)
         [] OTHER -> None

ExpandC(c) ==
    CASE c = 0 \/ c % 4 = 3 -> None
      [] c # 0 /\ c % 4 = 0 -> Quadrant0(c)
      [] c % 4 = 1 -> Quadrant1(c)
      [] c % 4 = 2 -> Quadrant2(c)

\* Zcmp lives in the double-precision part of quadrant 2.
IsZcmp(c) ==
    c % 4 = 2 /\ F3(c) = 5 /\ (Field(c, 10, 3) = 3 \/ Field(c, 11, 2) = 3)

----------------------------------------------------------------------------
\* Every 16-bit encoding, expanded as rv_step() does.
VARIABLES c, insn
decodeVars == <<c, insn>>

\* rv_step: Zcmp is executed directly, the base set is tried before Zcb.
Expand(h) ==
    IF IsZcmp(h) THEN None
    ELSE IF ExpandC(h) # None THEN ExpandC(h) ELSE ExpandZcb(h)

Unread == [None EXCEPT !.op = -1]

\* An encoding is read a byte at a time, so that the states fan out.
DecodeInit ==
    /\ c \in {h * 256 : h \in 0 .. 255}
    /\ insn = Unread

DecodeNext ==
    /\ insn = Unread
    /\ \E low \in 0 .. 255 :
           /\ low % 4 # 3
           /\ c' = c + low
           /\ insn' = Expand(c + low)

DecodeSpec == DecodeInit /\ [][DecodeNext]_decodeVars

-----------------------------------------------------------------------------
\* What exec() accepts, with every extension on.
Accepted(i) ==
    LET f == <<i.f7, i.f3>>
    IN \/ i.op = LOAD /\ i.f3 \in {0, 1, 2, 4, 5}
       \/ i.op = STORE /\ i.f3 \in {0, 1, 2}
       \/ i.op \in {LOAD_FP, STORE_FP} /\ i.f3 = 2
       \/ i.op = IMM /\ (i.f3 \notin {1, 5} \/ f \in {<<0, 1>>, <<0, 5>>, <<32, 5>>})
       \/ i.op = IMM /\ f = <<48, 1>> /\ i.rs2 \in {0, 1, 2, 4, 5}
       \/ i.op = REG /\ (i.f7 \in {0, 1} \/ f = <<32, 0>> \/ (f = <<4, 4>> /\ i.rs2 = 0))
       \/ i.op \in {LUI, JAL}
       \/ i.op = JALR /\ i.f3 = 0
       \/ i.op = BRANCH /\ i.f3 \in {0, 1}
       \/ i = Enc(0, 1, 0, 0, 0, SYSTEM)

\* The offset whose bits, from bit 12 or below of the encoding down, are at these
\* places.
RECURSIVE Gather(_, _, _)
Gather(h, top, places) ==
    IF places = <<>> THEN 0
    ELSE (IF Head(places) >= 0 THEN Field(h, top, 1) * 2 ^ Head(places) ELSE 0)
         + Gather(h, top - 1, Tail(places))

Skip3 == <<-1, -1, -1>>
Offsets ==
    LET j == <<11, 4, 9, 8, 10, 6, 7, 3, 2, 1, 5>>
    IN [jal    |-> Extend(Gather(c, 12, j), 12),
        branch |-> Extend(Gather(c, 12, <<8, 4, 3>> \o Skip3 \o <<7, 6, 2, 1, 5>>), 9),
        word   |-> Gather(c, 12, <<5, 4, 3>> \o Skip3 \o <<2, 6>>),
        spn    |-> Gather(c, 12, <<5, 4, 9, 8, 7, 6, 2, 3>>),
        sp     |-> Extend(Gather(c, 12, <<9, -1>> \o Skip3 \o <<-1, 4, 6, 8, 7, 5>>), 10),
        load   |-> Gather(c, 12, <<5, -1, -1>> \o Skip3 \o <<4, 3, 2, 7, 6>>),
        store  |-> Gather(c, 12, <<5, 4, 3, 2, 7, 6>>)]

Flipped(n) == IF On(c, n) THEN c - 2 ^ n ELSE c + 2 ^ n

\* A compressed encoding is claimed by at most one of Zcmp, the base expander and the
\* Zcb expander, and what it expands to is an instruction exec() accepts whose
\* immediate decoder reads back the offset the encoding scatters; two encodings that
\* differ in one bit never expand alike unless they write x0 (rv_expand_c,
\* rv_expand_zcb, is_zcmp, imm_i, imm_s, imm_b, imm_j).
ExpansionExact ==
    insn # Unread /\ (insn # None \/ IsZcmp(c)) =>
        /\ ~(ExpandC(c) # None /\ ExpandZcb(c) # None)
        /\ IsZcmp(c) => ExpandC(c) = None /\ ExpandZcb(c) = None
        /\ insn # None =>
            /\ Accepted(insn)
            /\ insn.op = JAL => ImmJ(insn) = Offsets.jal
            /\ insn.op = BRANCH => ImmB(insn) = Offsets.branch
            /\ insn.op \in {LOAD, LOAD_FP} /\ insn.f3 = 2 => ImmI(insn) = IF c % 4 = 0 THEN Offsets.word ELSE Offsets.load
            /\ insn.op \in {STORE, STORE_FP} /\ insn.f3 = 2 => ImmS(insn) = IF c % 4 = 0 THEN Offsets.word ELSE Offsets.store
            /\ insn.op = IMM /\ c % 4 = 0 => ImmI(insn) = Offsets.spn
            /\ insn.op = IMM /\ c % 4 = 1 /\ F3(c) = 3 => ImmI(insn) = Offsets.sp
            /\ insn.op = LUI => ImmU(insn) = Six(c)
            /\ insn.rd # 0 => \A n \in {2, 4, 5, 6, 7, 11, 12} : Expand(Flipped(n)) # insn
=============================================================================
