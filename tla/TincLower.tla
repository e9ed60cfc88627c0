------------------------------ MODULE TincLower ------------------------------
(***************************************************************************)
(* The front end of the TinC compiler after parsing (portable-compiler/    *)
(* demo/tinc/lower.c, ir/ir.c): a syntax tree becomes a flat list of       *)
(* three-address instructions over numbered temps, labels and frame slots. *)
(* A node is a tuple that starts with its kind.  A program that the        *)
(* compiler rejects (die) is outside the model.                            *)
(***************************************************************************)
EXTENDS Integers, Sequences, FiniteSetsExt, SequencesExt

\* ir_emit: an instruction with nothing set.
Insn(op) == [op |-> op, dst |-> -1, a |-> -1, b |-> -1, imm |-> 0, sym |-> "", slot |-> -1, label |-> -1]

\* The function being lowered: its code and how many temps and labels it has
\* (ir_new_temp, ir_new_label), the sizes of its slots, and the program's strings.
NewFunc(strings) == [code |-> <<>>, temps |-> 0, labels |-> 0, slots |-> <<>>, strs |-> strings]

Emit(st, i) == [st EXCEPT !.code = Append(@, i)]
Define(st, i) ==
    [t |-> st.temps, st |-> [st EXCEPT !.code = Append(@, [i EXCEPT !.dst = st.temps]), !.temps = @ + 1]]
Op2(st, op, a, b) == Define(st, [Insn(op) EXCEPT !.a = a, !.b = b])
Op1(st, op, a) == Define(st, [Insn(op) EXCEPT !.a = a])
LowerConst(st, v) == Define(st, [Insn("LIC") EXCEPT !.imm = v])
EmitArgs(st, ts) == [st EXCEPT !.code = @ \o [k \in 1 .. Len(ts) |-> [Insn("ARG") EXCEPT !.a = ts[k]]]]
EmitLabel(st, l) == Emit(st, [Insn("LABEL") EXCEPT !.label = l])
EmitJmp(st, l) == Emit(st, [Insn("JMP") EXCEPT !.label = l])
EmitBnz(st, t, l) == Emit(st, [Insn("BNZ") EXCEPT !.a = t, !.label = l])
AllocSlot(st, bytes) == [st EXCEPT !.slots = Append(@, bytes)]
StrName(k) == <<"__str_0", "__str_1", "__str_2", "__str_3">>[k + 1]

\* struct val, and an address with the type of what it points to.
MkVal(temp, type, ptr) == [temp |-> temp, type |-> type, ptr |-> ptr, arr |-> FALSE]
ElemWidth(v) == IF (v.ptr \/ v.arr) /\ v.type = "char" THEN 1 ELSE 4
LoadOf(type) == IF type = "char" THEN "LB" ELSE "LW"

\* find_lsym takes the last local of a name, find_gsym the first global.
Locals(cx, x) == {k \in DOMAIN cx.ls : cx.ls[k].name = x}
FindL(cx, x) == cx.ls[Max(Locals(cx, x))]
FindG(cx, x) == cx.gs[Min({k \in DOMAIN cx.gs : cx.gs[k].name = x})]

BinOpForTok == ("+" :> "ADD" @@ "-" :> "SUB" @@ "*" :> "MUL" @@ "/" :> "DIVS" @@ "%" :> "MODS" @@
    "&" :> "AND" @@ "|" :> "OR" @@ "^" :> "XOR" @@ "<<" :> "SHL" @@ ">>" :> "SHRS" @@ "==" :> "CMPEQ" @@
    "!=" :> "CMPNE" @@ "<" :> "CMPLTS" @@ "<=" :> "CMPLES" @@ ">" :> "CMPGTS" @@ ">=" :> "CMPGES")

\* An index or an offset times the width of an element.
Scaled(st, w, t) ==
    IF w = 1 THEN [st |-> st, t |-> t]
    ELSE LET c == LowerConst(st, w) IN Op2(c.st, "MUL", t, c.t)

RECURSIVE LowerExpr(_, _, _), LowerCond(_, _, _, _, _)

\* Two subexpressions, left then right.
Both(st, cx, a, b) ==
    CHOOSE both \in UNION {{[st |-> r.st, l |-> l.v, r |-> r.v] : r \in {LowerExpr(l.st, cx, b)}} :
                               l \in {LowerExpr(st, cx, a)}} : TRUE

\* lower_addr
Addr(d, type) == [st |-> d.st, temp |-> d.t, type |-> type]
Offset(base, i) == Addr(Op2(i.st, "ADD", base.temp, i.t), base.type)
Element(p) == Offset(p.l, Scaled(p.st, ElemWidth(p.l), p.r.temp))
Pointee(p) == [st |-> p.st, temp |-> p.v.temp, type |-> p.v.type]
LowerAddr(st, cx, n) ==
    CASE n[1] = "name" /\ Locals(cx, n[2]) # {} ->
            Addr(Define(st, [Insn("ADL") EXCEPT !.slot = FindL(cx, n[2]).slot]), FindL(cx, n[2]).type)
      [] n[1] = "name" /\ Locals(cx, n[2]) = {} ->
            Addr(Define(st, [Insn("LEA") EXCEPT !.sym = n[2]]), FindG(cx, n[2]).type)
      [] n[1] = "index" -> Element(Both(st, cx, n[2], n[3]))
      [] n[1] = "un" -> Pointee(LowerExpr(st, cx, n[3]))

Value(d, type, ptr) == [st |-> d.st, v |-> MkVal(d.t, type, ptr)]
ArrayValue(d, type) == [st |-> d.st, v |-> [MkVal(d.t, type, TRUE) EXCEPT !.arr = TRUE]]

\* A name: an array is its address, a local a slot, a global a load.
LowerName(st, cx, x) ==
    LET l == FindL(cx, x)
        g == FindG(cx, x)
        lea == Define(st, [Insn("LEA") EXCEPT !.sym = x])
    IN  CASE Locals(cx, x) # {} /\ l.arr ->
                ArrayValue(Define(st, [Insn("ADL") EXCEPT !.slot = l.slot]), l.type)
          [] Locals(cx, x) # {} /\ ~l.arr ->
                Value(Define(st, [Insn("LDL") EXCEPT !.slot = l.slot]), l.type, l.ptr)
          [] Locals(cx, x) = {} /\ g.func -> Value(lea, "int", TRUE)
          [] Locals(cx, x) = {} /\ ~g.func /\ g.arr -> ArrayValue(lea, g.type)
          [] Locals(cx, x) = {} /\ ~g.func /\ ~g.arr ->
                Value(Op1(lea.st, LoadOf(g.type), lea.t), g.type, g.ptr)

\* lower_shortcircuit
OneOrZero(one, k) ==
    LET zero == Emit(EmitLabel(EmitJmp(one.st, k + 2), k + 1), [Insn("LIC") EXCEPT !.dst = one.t, !.imm = 0])
    IN  [st |-> EmitLabel(zero, k + 2), v |-> MkVal(one.t, "int", FALSE)]
LowerShortcircuit(st, cx, n) ==
    LET k == st.labels
    IN  OneOrZero(LowerConst(EmitLabel(LowerCond([st EXCEPT !.labels = @ + 3], cx, n, k, k + 1), k), 1), k)

\* ! as a value: the comparison is emitted before the constant it compares with.
BangOf(d) == [st |-> LowerConst(d.st, 0).st, v |-> MkVal(d.t, "int", FALSE)]

\* A load through an address; the address itself, as a pointer.
LoadFrom(ad) == Value(Op1(ad.st, LoadOf(ad.type), ad.temp), ad.type, FALSE)
PointerTo(ad) == [st |-> ad.st, v |-> MkVal(ad.temp, ad.type, TRUE)]

UnopOf(op, l) ==
    CASE op = "*" -> LoadFrom(Pointee(l))
      [] op = "-" -> Value(Op1(l.st, "NEG", l.v.temp), "int", FALSE)
      [] op = "~" -> Value(Op1(l.st, "NOT", l.v.temp), "int", FALSE)
      [] op = "!" -> BangOf(Op2(l.st, "CMPEQ", l.v.temp, l.st.temps + 1))
LowerUnop(st, cx, n) ==
    IF n[2] = "&" THEN PointerTo(LowerAddr(st, cx, n[3])) ELSE UnopOf(n[2], LowerExpr(st, cx, n[3]))

\* The right side of a pointer plus or minus an integer is scaled.
Points(v) == v.ptr \/ v.arr
Combined(op, l, r) ==
    LET pointer == op \in {"+", "-"} /\ Points(l)
    IN  Value(Op2(r.st, BinOpForTok[op], l.temp, r.t), IF pointer THEN l.type ELSE "int", pointer)
BinopOf(op, p) ==
    Combined(op, p.l, IF op \in {"+", "-"} /\ Points(p.l) /\ ~Points(p.r)
                      THEN Scaled(p.st, ElemWidth(p.l), p.r.temp)
                      ELSE [st |-> p.st, t |-> p.r.temp])
LowerBinop(st, cx, n) ==
    IF n[2] \in {"&&", "||"} THEN LowerShortcircuit(st, cx, n) ELSE BinopOf(n[2], Both(st, cx, n[3], n[4]))

\* The right side, then the address, then the store; a scalar local is its slot.
StoreAt(ad, t) == Emit(ad.st, [Insn(IF ad.type = "char" THEN "SB" ELSE "SW") EXCEPT !.a = ad.temp, !.b = t])
AssignTo(cx, to, r) ==
    LET local == to[1] = "name" /\ Locals(cx, to[2]) # {}
    IN  [st |-> IF local /\ ~FindL(cx, to[2]).arr
                THEN Emit(r.st, [Insn("STL") EXCEPT !.a = r.v.temp, !.slot = FindL(cx, to[2]).slot])
                ELSE StoreAt(LowerAddr(r.st, cx, to), r.v.temp),
         v |-> r.v]
LowerAssign(st, cx, n) == AssignTo(cx, n[2], LowerExpr(st, cx, n[3]))

\* Expressions left to right, and the temps they are in.
RECURSIVE LowerAll(_, _, _, _)
LowerAll(st, cx, es, ts) ==
    IF es = <<>> THEN [st |-> st, ts |-> ts]
    ELSE CHOOSE all \in {LowerAll(r.st, cx, Tail(es), Append(ts, r.v.temp)) : r \in {LowerExpr(st, cx, Head(es))}} : TRUE

\* A call: the intrinsics, or the arguments left to right, their ARGs, and the
\* call by name or, after the callee has been computed, through a temp.
CallThrough(callee) == Value(Op1(callee.st, "CALLI", callee.v.temp), "int", FALSE)
CallWith(cx, callee, all) ==
    IF callee = <<"name", "__resume">>
    THEN [st |-> Emit(all.st, [Insn("RESUME") EXCEPT !.a = all.ts[1], !.b = all.ts[2]]), v |-> MkVal(0, "int", FALSE)]
    ELSE IF callee[1] = "name"
    THEN Value(Define(EmitArgs(all.st, all.ts), [Insn("CALL") EXCEPT !.sym = callee[2]]), "int", FALSE)
    ELSE CallThrough(LowerExpr(EmitArgs(all.st, all.ts), cx, callee))
LowerCall(st, cx, n) ==
    LET mark == Define(AllocSlot(st, 12), [Insn("MARK") EXCEPT !.slot = Len(st.slots), !.label = st.labels])
    IN  CASE n[2] = <<"name", "__mark">> -> Value([mark EXCEPT !.st.labels = @ + 1], "int", FALSE)
          [] n[2] = <<"name", "__capture">> -> Value(Define(st, Insn("CAPTURE")), "int", FALSE)
          [] OTHER -> CallWith(cx, n[2], LowerAll(st, cx, n[3], <<>>))

\* lower_expr
LowerExprFrom(st, cx, n) ==
    CASE n[1] = "num" -> Value(LowerConst(st, n[2]), "int", FALSE)
      [] n[1] = "str" -> LET s == [st EXCEPT !.strs = Append(@, n[2])]
                         IN  Value(Define(s, [Insn("LEA") EXCEPT !.sym = StrName(Len(st.strs))]), "char", TRUE)
      [] n[1] = "name" -> LowerName(st, cx, n[2])
      [] n[1] = "index" -> LoadFrom(LowerAddr(st, cx, n))
      [] n[1] = "un" -> LowerUnop(st, cx, n)
      [] n[1] = "bin" -> LowerBinop(st, cx, n)
      [] n[1] = "assign" -> LowerAssign(st, cx, n)
      [] n[1] = "call" -> LowerCall(st, cx, n)
\* Lowering goes on from the state built so far.
LowerExpr(st, cx, n) == CASE st.temps \in Nat -> LowerExprFrom(st, cx, n)

\* lower_cond: jump to one of two labels.
LowerCondFrom(st, cx, n, ltrue, lfalse) ==
    LET mid == st.labels
        s == [st EXCEPT !.labels = @ + 1]
        is(op) == n[1] = "bin" /\ n[2] = op
        fork(v) == EmitJmp(EmitBnz(v.st, v.v.temp, ltrue), lfalse)
    IN  IF is("&&")
        THEN LowerCond(EmitLabel(LowerCond(s, cx, n[3], mid, lfalse), mid), cx, n[4], ltrue, lfalse)
        ELSE IF is("||")
        THEN LowerCond(EmitLabel(LowerCond(s, cx, n[3], ltrue, mid), mid), cx, n[4], ltrue, lfalse)
        ELSE IF n[1] = "un" /\ n[2] = "!" THEN LowerCond(st, cx, n[3], lfalse, ltrue)
        ELSE fork(LowerExpr(st, cx, n))
LowerCond(st, cx, n, ltrue, lfalse) == CASE st.temps \in Nat -> LowerCondFrom(st, cx, n, ltrue, lfalse)

----------------------------------------------------------------------------
\* lower_stmt
RECURSIVE LowerStmt(_, _, _), LowerStmts(_, _, _)

LowerIf(st, cx, n) ==
    LET k == st.labels
        then == LowerStmt(EmitLabel(LowerCond([st EXCEPT !.labels = @ + 3], cx, n[2], k, k + 1), k), cx, n[3])
    IN  IF n[4] = <<"none">> THEN EmitLabel(then, k + 1)
        ELSE EmitLabel(LowerStmt(EmitLabel(EmitJmp(then, k + 2), k + 1), cx, n[4]), k + 2)

LowerWhile(st, cx, n) ==
    LET top == st.labels
        brk == top + 1
        s == EmitLabel([st EXCEPT !.labels = @ + 2], top)
        forever == n[2][1] = "num" /\ n[2][2] # 0
        tested == IF forever THEN s
                  ELSE EmitLabel(LowerCond([s EXCEPT !.labels = @ + 1], cx, n[2], brk + 1, brk), brk + 1)
        body == LowerStmt(tested, [cx EXCEPT !.loops = Append(@, [brk |-> brk, cont |-> top])], n[3])
    IN  EmitLabel(EmitJmp(body, top), brk)

LowerStmts(st, cx, ss) ==
    IF ss = <<>> THEN st
    ELSE LowerStmts(LowerStmt(st, cx, Head(ss)), cx, Tail(ss))

LowerStmtFrom(st, cx, n) ==
    CASE n[1] = "block" -> LowerStmts(st, cx, n[2])
      [] n[1] = "expr" -> LowerExpr(st, cx, n[2]).st
      [] n[1] = "empty" -> st
      [] n[1] = "if" -> LowerIf(st, cx, n)
      [] n[1] = "while" -> LowerWhile(st, cx, n)
      [] n[1] = "break" -> EmitJmp(st, Last(cx.loops).brk)
      [] n[1] = "continue" -> EmitJmp(st, Last(cx.loops).cont)
      [] n[1] = "return" -> LET ret(v) == Emit(v.st, [Insn("RETV") EXCEPT !.a = v.v.temp])
                            IN  ret(LowerExpr(st, cx, n[2]))
      [] n[1] = "return void" -> Emit(st, Insn("RET"))
LowerStmt(st, cx, n) == CASE st.temps \in Nat -> LowerStmtFrom(st, cx, n)

\* collect_local_decls and the parameters: a slot each, parameters first.
SlotBytes(d) == IF d.size = 0 THEN 4 ELSE IF d.type = "char" THEN d.size ELSE 4 * d.size
LSym(d, slot) == [name |-> d.name, slot |-> slot, type |-> d.type, ptr |-> d.ptr, arr |-> d.size > 0]
GSym(d) == [name |-> d.name, func |-> FALSE, type |-> d.type, ptr |-> d.ptr, arr |-> d.size > 0]
FSym(f) == [name |-> f.name, func |-> TRUE, type |-> "int", ptr |-> FALSE, arr |-> FALSE]

\* lower_function: what runs off the end returns 0.
ReturnConst(zero) == Emit(zero.st, [Insn("RETV") EXCEPT !.a = zero.t])
Ended(body) == IF Last(body.code).op \in {"RET", "RETV"} THEN body ELSE ReturnConst(LowerConst(body, 0))
FuncOf(f, done) ==
    [name |-> f.name, nparams |-> Len(f.params), slots |-> done.slots, ntemps |-> done.temps,
     code |-> Append(done.code, Insn("ENDF")), strs |-> done.strs]
LowerFunction(f, gs, strings) ==
    LET vars == f.params \o f.locals
        cx == [ls |-> [k \in 1 .. Len(vars) |-> LSym(vars[k], k - 1)], gs |-> gs, loops |-> <<>>]
        st == Emit([NewFunc(strings) EXCEPT !.slots = [k \in 1 .. Len(vars) |-> SlotBytes(vars[k])]], Insn("FUNC"))
    IN  FuncOf(f, Ended(LowerStmt(st, cx, f.body)))

\* lower_program: globals and functions are known before any body is lowered.
RECURSIVE LowerFunctions(_, _, _)
LowerFunctions(fs, gs, strings) ==
    IF fs = <<>> THEN <<>>
    ELSE CHOOSE all \in {<<f>> \o LowerFunctions(Tail(fs), gs, f.strs) : f \in {LowerFunction(Head(fs), gs, strings)}} : TRUE

ProgramOf(p, fs) == [funcs |-> fs, globals |-> p.globals, strs |-> Last(fs).strs]
LowerProgram(p) ==
    LET gs == [k \in 1 .. Len(p.globals) |-> GSym(p.globals[k])] \o [k \in 1 .. Len(p.funcs) |-> FSym(p.funcs[k])]
    IN  ProgramOf(p, LowerFunctions(p.funcs, gs, <<>>))
=============================================================================
