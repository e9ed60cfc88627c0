------------------------------ MODULE CfBackend ------------------------------
(***************************************************************************)
(* The m68k back end of the portable compiler (portable-compiler/demo/     *)
(* backend): linear-scan register allocation (regalloc_cf.c) and the       *)
(* instructions each intermediate instruction becomes (cf_emit.c).  The    *)
(* number of registers, NUM_REGS in the code, is a parameter so that small *)
(* programs spill.  An instruction is a tuple of a mnemonic and operands.  *)
(***************************************************************************)
EXTENDS Integers, Sequences, FiniteSetsExt, SequencesExt

FIRST_REG == 2

\* Where a temp is first defined, and where it is last seen.
Positions(fn, t) == {p \in DOMAIN fn.code : fn.code[p].dst = t}
Seen(fn, t) == {p \in DOMAIN fn.code : t \in {fn.code[p].dst, fn.code[p].a, fn.code[p].b}}
Interval(fn, t) ==
    LET start == Min(Positions(fn, t))
    IN  [temp |-> t, start |-> start, end |-> Max(Seen(fn, t) \union {start})]

\* sort_by_start: an instruction defines one temp, so no two starts are equal.
Intervals(fn) ==
    LET starts == SelectSeq([p \in 1 .. Len(fn.code) |-> p],
                            LAMBDA p : fn.code[p].dst >= 0 /\ p = Min(Positions(fn, fn.code[p].dst)))
    IN  [k \in 1 .. Len(starts) |-> Interval(fn, fn.code[starts[k]].dst)]

\* Registers come back from the intervals that ended before this one starts.
ExpireEarly(s, iv) ==
    LET over == {k \in DOMAIN s.active : s.active[k].end <= iv.start}
    IN  [s EXCEPT !.active = SelectSeq(@, LAMBDA x : x.end > iv.start),
                  !.pool = @ \union {s.reg[s.active[k].temp] : k \in over}]

Expire(s, iv) ==
    LET over == {k \in DOMAIN s.active : s.active[k].end < iv.start}
    IN  [s EXCEPT !.active = SelectSeq(@, LAMBDA x : x.end >= iv.start),
                  !.pool = @ \union {s.reg[s.active[k].temp] : k \in over}]

\* The active list stays in the order of the ends.
InsertActive(active, iv) ==
    LET later == {k \in DOMAIN active : active[k].end > iv.end}
    IN  InsertAt(active, IF later = {} THEN Len(active) + 1 ELSE Min(later), iv)

Spill(s, t) == [s EXCEPT !.reg[t] = -1, !.spill[t] = 4 * s.nspills, !.nspills = @ + 1]

\* One interval: a free register, the register of the active interval that ends
\* last, or a spill slot.
Allocate(s0, iv) ==
    LET s == Expire(s0, iv)
        sp == Last(s.active)
        out == Spill(s, sp.temp)
    IN  IF s.pool # {}
        THEN [s EXCEPT !.reg[iv.temp] = Min(s.pool), !.pool = @ \ {Min(s.pool)}, !.active = InsertActive(@, iv)]
        ELSE IF sp.end > iv.end
        THEN [out EXCEPT !.reg[iv.temp] = s.reg[sp.temp], !.active = InsertActive(Front(@), iv)]
        ELSE Spill(s, iv.temp)

RECURSIVE LinearScan(_, _)
LinearScan(s, ivs) ==
    IF ivs = <<>> THEN s
    ELSE CHOOSE done \in {LinearScan(t, Tail(ivs)) : t \in {Allocate(s, Head(ivs))}} : TRUE

Regalloc(fn, nregs) ==
    LET none == [t \in 0 .. fn.ntemps - 1 |-> -1]
    IN  LinearScan([active |-> <<>>, pool |-> FIRST_REG .. FIRST_REG + nregs - 1, reg |-> none,
                    spill |-> none, nspills |-> 0], Intervals(fn))

----------------------------------------------------------------------------
\* The frame.  Operands: a register, an immediate, d(An), -(sp), (sp)+, a symbol.
Dn(n) == <<"r", n>>
A0 == <<"r", 8>>
FP == <<"r", 14>>
SP == <<"r", 15>>
Imm(v) == <<"#", v>>
At(off, r) == <<"at", off, r[2]>>
Push == <<"push">>
Pop == <<"pop">>
Sym(s) == <<"sym", s>>

Aligned(bytes) == 4 * ((bytes + 3) \div 4)
SlotSum(fn, from, to) == FoldFunctionOnSet(+, 0, [k \in DOMAIN fn.slots |-> Aligned(fn.slots[k])], from .. to)
LocalsSize(fn) == SlotSum(fn, fn.nparams + 1, Len(fn.slots))
SlotOffset(fn, slot) ==
    IF slot < fn.nparams THEN 8 + 4 * slot ELSE -SlotSum(fn, fn.nparams + 1, slot + 1)
SpillAt(fn, t) == At(-LocalsSize(fn) - (fn.spill[t] + 4), FP)

\* rs, rd, wd: a temp as a source, as a destination, and its write back.
Spilled(fn, t) == fn.reg[t] < 0
Rs(fn, t, scratch) == IF Spilled(fn, t) THEN Dn(scratch) ELSE Dn(fn.reg[t])
Fetch(fn, t, scratch) == IF Spilled(fn, t) THEN <<<<"move.l", SpillAt(fn, t), Dn(scratch)>>>> ELSE <<>>
Rd(fn, t) == Rs(fn, t, 0)
Wd(fn, t) == IF Spilled(fn, t) THEN <<<<"move.l", Dn(0), SpillAt(fn, t)>>>> ELSE <<>>
MoveTo(s, d) == IF s = d THEN <<>> ELSE <<<<"move.l", s, d>>>>

Fetch2(fn, i) == Fetch(fn, i.a, 0) \o Fetch(fn, i.b, 1)

EmitBinop(fn, i, mnem) ==
    LET sa == Rs(fn, i.a, 0)
        sd == Rd(fn, i.dst)
        clash == Rs(fn, i.b, 1) = sd /\ sa # sd
        sb == IF clash THEN Dn(1) ELSE Rs(fn, i.b, 1)
    IN  Fetch2(fn, i) \o (IF clash THEN <<<<"move.l", sd, Dn(1)>>>> ELSE <<>>)
        \o MoveTo(sa, sd) \o <<<<mnem, sb, sd>>>> \o Wd(fn, i.dst)

EmitUnop(fn, i, mnem) ==
    LET sd == Rd(fn, i.dst)
    IN  Fetch(fn, i.a, 0) \o MoveTo(Rs(fn, i.a, 0), sd) \o <<<<mnem, sd>>>> \o Wd(fn, i.dst)

EmitCmp(fn, i, scc) ==
    LET sd == Rd(fn, i.dst)
    IN  Fetch2(fn, i) \o <<<<"move.l", Imm(0), sd>>, <<"cmp.l", Rs(fn, i.b, 1), Rs(fn, i.a, 0)>>,
                           <<"scc", scc, sd>>, <<"neg.b", sd>>>> \o Wd(fn, i.dst)

EmitMod(fn, i) ==
    LET sa == Rs(fn, i.a, 0)
        sd == Rd(fn, i.dst)
    IN  Fetch2(fn, i) \o MoveTo(Rs(fn, i.b, 1), Dn(1))
        \o <<<<"move.l", sa, Push>>, <<"move.l", sa, Dn(0)>>, <<"divs.l", Dn(1), Dn(0)>>, <<"muls.l", Dn(1), Dn(0)>>,
             <<"move.l", Pop, sd>>, <<"sub.l", Dn(0), sd>>>> \o Wd(fn, i.dst)

EmitLoad(fn, i, size) ==
    LET sd == Rd(fn, i.dst)
    IN  Fetch(fn, i.a, 0) \o <<<<"move.l", Rs(fn, i.a, 0), A0>>>>
        \o (IF size = "move.b" THEN <<<<"move.l", Imm(0), sd>>>> ELSE <<>>)
        \o <<<<size, At(0, A0), sd>>>> \o Wd(fn, i.dst)

EmitStore(fn, i, size) ==
    Fetch2(fn, i) \o <<<<"move.l", Rs(fn, i.a, 0), A0>>, <<size, Rs(fn, i.b, 1), At(0, A0)>>>>

EmitEpilogue == <<<<"movem out">>, <<"unlk">>, <<"rts">>>>
EmitPrologue(fn) == <<<<"link", LocalsSize(fn) + 4 * fn.nspills>>, <<"movem in">>>>

\* emit_call_flush: the arguments, last first, the call, and the result.
ResultFrom0(fn, t) == MoveTo(Dn(0), Rd(fn, t)) \o Wd(fn, t)
EmitCallFlush(fn, i, args) ==
    FlattenSeq([k \in 1 .. Len(args) |->
        LET t == args[Len(args) + 1 - k] IN Append(Fetch(fn, t, 0), <<"move.l", Rs(fn, t, 0), Push>>)])
    \o (IF i.op = "CALLI"
        THEN Fetch(fn, i.a, 0) \o <<<<"move.l", Rs(fn, i.a, 0), A0>>, <<"jsr", At(0, A0)>>>>
        ELSE <<<<"jsr", Sym(i.sym)>>>>)
    \o (IF args = <<>> THEN <<>> ELSE <<<<"lea", At(4 * Len(args), SP), SP>>>>)
    \o ResultFrom0(fn, i.dst)

\* The address of a label or of a slot, through a0.
LeaTo(fn, src, t) == <<<<"lea", src, A0>>, <<"move.l", A0, Rd(fn, t)>>>> \o Wd(fn, t)

EmitMark(fn, i, prefix) ==
    LET off == SlotOffset(fn, i.slot)
    IN  <<<<"move.l", FP, At(off, FP)>>, <<"lea", At(0, SP), A0>>, <<"move.l", A0, At(off + 4, FP)>>,
          <<"lea", <<"label", <<prefix, "mark", i.label>>>>, A0>>, <<"move.l", A0, At(off + 8, FP)>>,
          <<"lea", At(off, FP), A0>>, <<"move.l", A0, Sym("__cont_mark_sp")>>, <<"move.l", Imm(0), Dn(0)>>,
          <<"label", <<prefix, "mark", i.label>>>>>> \o ResultFrom0(fn, i.dst)

Calls == {"CALL", "CALLI"}
Mnemonic == ("ADD" :> "add.l" @@ "SUB" :> "sub.l" @@ "MUL" :> "muls.l" @@ "AND" :> "and.l" @@ "OR" :> "or.l" @@
    "XOR" :> "eor.l" @@ "SHL" :> "lsl.l" @@ "SHRS" :> "asr.l" @@ "DIVS" :> "divs.l")
Scc == ("CMPEQ" :> "eq" @@ "CMPNE" :> "ne" @@ "CMPLTS" :> "lt" @@ "CMPLES" :> "le" @@ "CMPGTS" :> "gt" @@
    "CMPGES" :> "ge")

\* emit_insn, of the instructions that the front ends produce.
EmitInsn(fn, i, prefix, args) ==
    LET sd == Rd(fn, i.dst)
        label == <<prefix, "L", i.label>>
    IN  CASE i.op = "LIC" -> <<<<"move.l", Imm(i.imm), sd>>>> \o Wd(fn, i.dst)
          [] i.op = "LEA" -> LeaTo(fn, Sym(i.sym), i.dst)
          [] i.op = "ADL" -> LeaTo(fn, At(SlotOffset(fn, i.slot), FP), i.dst)
          [] i.op = "MOV" -> Fetch(fn, i.a, 0) \o MoveTo(Rs(fn, i.a, 0), sd) \o Wd(fn, i.dst)
          [] i.op \in DOMAIN Mnemonic -> EmitBinop(fn, i, Mnemonic[i.op])
          [] i.op \in DOMAIN Scc -> EmitCmp(fn, i, Scc[i.op])
          [] i.op = "MODS" -> EmitMod(fn, i)
          [] i.op = "NEG" -> EmitUnop(fn, i, "neg.l")
          [] i.op = "NOT" -> EmitUnop(fn, i, "not.l")
          [] i.op = "LB" -> EmitLoad(fn, i, "move.b")
          [] i.op = "LW" -> EmitLoad(fn, i, "move.l")
          [] i.op = "SB" -> EmitStore(fn, i, "move.b")
          [] i.op = "SW" -> EmitStore(fn, i, "move.l")
          [] i.op = "LDL" -> <<<<"move.l", At(SlotOffset(fn, i.slot), FP), sd>>>> \o Wd(fn, i.dst)
          [] i.op = "STL" -> Append(Fetch(fn, i.a, 0), <<"move.l", Rs(fn, i.a, 0), At(SlotOffset(fn, i.slot), FP)>>)
          [] i.op = "JMP" -> <<<<"bra", label>>>>
          [] i.op = "BNZ" -> Fetch(fn, i.a, 0) \o <<<<"tst.l", Rs(fn, i.a, 0)>>, <<"bne", label>>>>
          [] i.op = "LABEL" -> <<<<"label", label>>>>
          [] i.op \in Calls -> EmitCallFlush(fn, i, args)
          [] i.op = "RET" -> EmitEpilogue
          [] i.op = "RETV" -> Fetch(fn, i.a, 0) \o MoveTo(Rs(fn, i.a, 0), Dn(0)) \o EmitEpilogue
          [] i.op = "MARK" -> EmitMark(fn, i, prefix)
          [] i.op = "CAPTURE" -> <<<<"movem in">>, <<"jsr", Sym("__cont_capture")>>, <<"movem out">>>>
                                 \o ResultFrom0(fn, i.dst)
          [] i.op = "RESUME" -> Fetch2(fn, i) \o <<<<"move.l", Rs(fn, i.b, 1), Push>>,
                                    <<"move.l", Rs(fn, i.a, 0), Push>>, <<"jsr", Sym("__cont_resume")>>>>
          [] i.op \in {"FUNC", "ENDF", "ARG"} -> <<>>

\* arg_temps: the ARGs since the last call, emptied by the call that pushes them.
ArgTemps(fn, k) ==
    LET from == Max({0} \union {j \in 1 .. k - 1 : fn.code[j].op \in Calls})
        args == SelectSeq(SubSeq(fn.code, from + 1, k), LAMBDA i : i.op = "ARG")
    IN  [n \in 1 .. Len(args) |-> args[n].a]

\* The text of the instructions from one to another.
RECURSIVE EmitInsns(_, _, _, _)
EmitInsns(fn, prefix, from, to) ==
    IF from = to THEN EmitInsn(fn, fn.code[from], prefix, ArgTemps(fn, from))
    ELSE LET mid == (from + to) \div 2 IN EmitInsns(fn, prefix, from, mid) \o EmitInsns(fn, prefix, mid + 1, to)

\* emit_function: an epilogue unless the last instruction, labels apart, returned.
EmitFunction(fn, prefix) ==
    LET last == Max({k \in DOMAIN fn.code : fn.code[k].op \notin {"FUNC", "ENDF", "LABEL"}})
    IN  <<<<"label", <<0, fn.name, 0>>>>>> \o EmitPrologue(fn)
        \o EmitInsns(fn, prefix, 1, Len(fn.code))
        \o (IF fn.code[last].op \in {"RET", "RETV"} THEN <<>> ELSE EmitEpilogue)

\* cf_emit
Allocated(fn, nregs) ==
    LET ra == Regalloc(fn, nregs)
    IN  [name |-> fn.name, nparams |-> fn.nparams, slots |-> fn.slots, code |-> fn.code,
         reg |-> ra.reg, spill |-> ra.spill, nspills |-> ra.nspills]
CfEmit(fns) == FlattenSeq([k \in 1 .. Len(fns) |-> EmitFunction(fns[k], k)])
=============================================================================
