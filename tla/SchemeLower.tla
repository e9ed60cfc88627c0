----------------------------- MODULE SchemeLower -----------------------------
(***************************************************************************)
(* The TinScheme front end after reading (portable-compiler/demo/scheme/   *)
(* lower.c): expressions over tagged values become the same intermediate   *)
(* instructions that TinC uses.  A fixnum n is 4n + 1, #f is 2, #t is 6,   *)
(* nil 0.  Lambdas are lifted to functions of their own.                   *)
(***************************************************************************)
EXTENDS Integers, Sequences, FiniteSetsExt, SequencesExt

\* The builder of instructions is the one of ir.c; a state also holds the lambdas
\* that were lifted so far.
Ir == INSTANCE TincLower
NewFn(slots, lifted) ==
    [Ir!NewFunc(<<>>) EXCEPT !.slots = slots, !.code = <<Ir!Insn("FUNC")>>] @@ [lifted |-> lifted]
LambdaName(k) == <<"__lambda_0", "__lambda_1", "__lambda_2", "__lambda_3">>[k + 1]

Const(st, v) == Ir!LowerConst(st, v)
MoveInto(st, dst, t) == Ir!Emit(st, [Ir!Insn("MOV") EXCEPT !.dst = dst, !.a = t])
BranchNz(st, t, label) == Ir!Emit(st, [Ir!Insn("BNZ") EXCEPT !.a = t, !.label = label])
LeaOf(st, x) == Ir!Define(st, [Ir!Insn("LEA") EXCEPT !.sym = x])
LoadGlobal(st, x) == LET load(d) == Ir!Op1(d.st, "LW", d.t) IN load(LeaOf(st, x))

CmpOf == ("=" :> "CMPEQ" @@ "<" :> "CMPLTS" @@ ">" :> "CMPGTS" @@ "<=" :> "CMPLES" @@ ">=" :> "CMPGES")

RECURSIVE LowerScheme(_, _, _), LowerEach(_, _, _, _), LowerBody(_, _, _)

\* Expressions one after the other; the last one's temp is the result.
LowerBody(before, cx, es) ==
    IF es = <<>> THEN before
    ELSE CHOOSE end \in {LowerBody(r, cx, Tail(es)) : r \in {LowerScheme(before.st, cx, Head(es))}} : TRUE

\* The operands of a form, left to right.
LowerEach(st, cx, es, ts) ==
    IF es = <<>> THEN [st |-> st, ts |-> ts]
    ELSE CHOOSE all \in {LowerEach(r.st, cx, Tail(es), Append(ts, r.t)) : r \in {LowerScheme(st, cx, Head(es))}} : TRUE
LowerArgs(st, cx, es) == LowerEach(st, cx, es, <<>>)

\* bool_from_cmp: 0 or 1 to #f or #t.
BoolFromCmp(d) ==
    LET tag(sh, two) == Ir!Op2(sh.st, "OR", sh.t, two)
        shift(two) == tag(Ir!Op2(two.st, "SHL", d.t, two.t), two.t)
    IN  shift(Const(d.st, 2))

\* lower_add, lower_sub, lower_mul, lower_cmp.
\* x op an immediate.
WithConst(d, op, v) == LET with(c) == Ir!Op2(c.st, op, d.t, c.t) IN with(Const(d.st, v))
Tagged(a, op) == Ir!Op2(a.st, op, a.ts[1], a.ts[2])
\* (x >> 2) * (y - 1) + 1, with the one of the subtraction.
MulTagged(a) ==
    LET sum(z, one) == Ir!Op2(z.st, "ADD", z.t, one)
        times(y, x, one) == sum(Ir!Op2(y.st, "MUL", x, y.t), one)
        untag(one, x) == times(Ir!Op2(one.st, "SUB", a.ts[2], one.t), x, one.t)
        first(x) == untag(Const(x.st, 1), x.t)
    IN  first(WithConst([st |-> a.st, t |-> a.ts[1]], "SHRS", 2))
NegTagged(a) == LET from(two) == Ir!Op2(two.st, "SUB", two.t, a.ts[1]) IN from(Const(a.st, 2))
OpOn(a, op, n) ==
    CASE op = "+" -> WithConst(Tagged(a, "ADD"), "SUB", 1)
      [] op = "-" /\ n = 1 -> NegTagged(a)
      [] op = "-" /\ n > 1 -> WithConst(Tagged(a, "SUB"), "ADD", 1)
      [] op = "*" -> MulTagged(a)
      [] op \in DOMAIN CmpOf -> BoolFromCmp(Tagged(a, CmpOf[op]))
LowerOp(st, cx, op, es) == OpOn(LowerArgs(st, cx, es), op, Len(es))

\* lower_if: a comparison is branched on directly, anything else against #f.
MovedTo(r, dst) == MoveInto(r.st, dst, r.t)
LowerSchemeIf(st, cx, e) ==
    LET k == st.labels
        s == [st EXCEPT !.labels = @ + 3]
        direct == e[2][1] = "op" /\ e[2][2] \in DOMAIN CmpOf
        test == IF direct THEN Tagged(LowerArgs(s, cx, e[2][3]), CmpOf[e[2][2]])
                ELSE WithConst(LowerScheme(s, cx, e[2]), "SUB", 2)
        fork(t) == [Ir!EmitJmp(BranchNz(t.st, t.t, k), k + 1) EXCEPT !.temps = @ + 1]
        mid(f, result) ==
            Ir!EmitLabel(Ir!EmitJmp(MovedTo(LowerScheme(Ir!EmitLabel(f, k), cx, e[3]), result), k + 2), k + 1)
        out(m, result) == IF e[4] = <<"none">> THEN Ir!Emit(m, [Ir!Insn("LIC") EXCEPT !.dst = result, !.imm = 0])
                          ELSE MovedTo(LowerScheme(m, cx, e[4]), result)
        whole(f, result) == [st |-> Ir!EmitLabel(out(mid(f, result), result), k + 2), t |-> result]
        branches(f) == whole(f, f.temps - 1)
    IN  branches(fork(test))

\* lower_call: a local or a variable is called through a temp loaded after the
\* arguments were passed, a function by name.
CallTemp(f) == Ir!Op1(f.st, "CALLI", f.t)
LowerSchemeCall(st, cx, e) ==
    LET passed(a) == Ir!EmitArgs(a.st, a.ts)
        call(s) == IF e[2][1] = "sym" /\ e[2][2] \notin DOMAIN cx.slot /\ e[2][2] \in cx.funcs
                   THEN Ir!Define(s, [Ir!Insn("CALL") EXCEPT !.sym = e[2][2]])
                   ELSE CallTemp(LowerScheme(s, cx, e[2]))
    IN  call(passed(LowerArgs(st, cx, e[3])))

\* lower_reset: the body at the first return of the mark, the handler at the next.
LowerReset(st, cx, e) ==
    LET k == st.labels
        result == st.temps
        s == [Ir!AllocSlot(st, 12) EXCEPT !.labels = @ + 3, !.temps = @ + 1]
        mark == Ir!Define(s, [Ir!Insn("MARK") EXCEPT !.slot = Len(st.slots), !.label = k + 2])
        body == MovedTo(LowerScheme(BranchNz(mark.st, mark.t, k), cx, e[2]), result)
        handler == LowerScheme(Ir!EmitLabel(Ir!EmitJmp(body, k + 1), k), cx, e[3])
        call(h) == Ir!Op1(Ir!Emit(h.st, [Ir!Insn("ARG") EXCEPT !.a = mark.t]), "CALLI", h.t)
    IN  [st |-> Ir!EmitLabel(MovedTo(call(handler), result), k + 1), t |-> result]

\* lower_resume: a temp that nothing defines stands for the value it never returns.
LowerResume(st, cx, e) ==
    LET resume(a) == Ir!Emit(a.st, [Ir!Insn("RESUME") EXCEPT !.a = a.ts[1], !.b = a.ts[2]])
        never(s) == [st |-> [s EXCEPT !.temps = @ + 1], t |-> s.temps]
    IN  never(resume(LowerArgs(st, cx, <<e[2], e[3]>>)))

LowerSym(st, cx, x) ==
    IF x \in DOMAIN cx.slot THEN Ir!Define(st, [Ir!Insn("LDL") EXCEPT !.slot = cx.slot[x]])
    ELSE IF x \in cx.funcs THEN LeaOf(st, x) ELSE LoadGlobal(st, x)

\* lower_expr
LowerForm(st, cx, e) ==
    CASE e[1] = "fix" -> Const(st, 4 * e[2] + 1)
      [] e[1] = "bool" -> Const(st, 4 * e[2] + 2)
      [] e[1] = "nil" -> Const(st, 0)
      [] e[1] = "sym" -> LowerSym(st, cx, e[2])
      [] e[1] = "op" -> LowerOp(st, cx, e[2], e[3])
      [] e[1] = "if" -> LowerSchemeIf(st, cx, e)
      [] e[1] = "lambda" -> LeaOf([st EXCEPT !.lifted = Append(@, [params |-> e[2], body |-> e[3]])],
                                  LambdaName(Len(st.lifted)))
      [] e[1] = "begin" -> LowerBody(Const(st, 0), cx, e[2])
      [] e[1] = "reset" -> LowerReset(st, cx, e)
      [] e[1] = "shift" -> Ir!Define(st, Ir!Insn("CAPTURE"))
      [] e[1] = "resume" -> LowerResume(st, cx, e)
      [] e[1] = "call" -> LowerSchemeCall(st, cx, e)
\* Lowering goes on from the state built so far.
LowerScheme(st, cx, e) == CASE st.temps \in Nat -> LowerForm(st, cx, e)

----------------------------------------------------------------------------
Finished(name, nparams, st) ==
    [name |-> name, nparams |-> nparams, slots |-> st.slots, ntemps |-> st.temps,
     code |-> Append(st.code, Ir!Insn("ENDF"))]
ReturnOf(r) == Ir!Emit(r.st, [Ir!Insn("RETV") EXCEPT !.a = r.t])
Done(name, nparams, st) == [fn |-> Finished(name, nparams, st), lifted |-> st.lifted]

\* lower_function: a slot for each parameter, the last expression is the result.
LowerDefined(name, params, body, funcs, lifted) ==
    LET cx == [slot |-> [x \in Range(params) |-> (CHOOSE k \in DOMAIN params : params[k] = x) - 1], funcs |-> funcs]
        st == NewFn([k \in 1 .. Len(params) |-> 4], lifted)
        result(all) == ReturnOf(IF all.t >= 0 THEN all ELSE Const(all.st, 0))
    IN  Done(name, Len(params), result(LowerBody([st |-> st, t |-> -1], cx, body)))

\* One form of main: a definition stores its value, an expression becomes the result.
MainForm(acc, e, cx) ==
    LET store(at, v) == [acc EXCEPT !.st = Ir!Emit(at.st, [Ir!Insn("SW") EXCEPT !.a = at.t, !.b = v.t])]
        form(v) == IF e[1] = "define" THEN store(LeaOf(v.st, e[2]), v) ELSE v
    IN  form(LowerScheme(acc.st, cx, IF e[1] = "define" THEN e[3] ELSE e))

RECURSIVE MainForms(_, _, _)
MainForms(acc, forms, cx) ==
    IF forms = <<>> THEN acc
    ELSE CHOOSE end \in {MainForms(r, Tail(forms), cx) : r \in {MainForm(acc, Head(forms), cx)}} : TRUE

\* main: its result is untagged.
LowerMain(forms, funcs, lifted) ==
    LET cx == [slot |-> [x \in {} |-> 0], funcs |-> funcs]
        result(all) == ReturnOf(IF all.t >= 0 THEN WithConst(all, "SHRS", 2) ELSE Const(all.st, 0))
    IN  Done("main", 0, result(MainForms([st |-> NewFn(<<>>, lifted), t |-> -1], forms, cx)))

\* The lambdas, and the lambdas inside them, after everything else.
RECURSIVE LowerLifted(_, _, _)
LowerLifted(k, funcs, lifted) ==
    IF k = Len(lifted) THEN <<>>
    ELSE LET then(r) == <<r.fn>> \o LowerLifted(k + 1, funcs, r.lifted)
         IN  then(LowerDefined(LambdaName(k), lifted[k + 1].params, lifted[k + 1].body, funcs, lifted))

RECURSIVE LowerDefines(_, _, _)
LowerDefines(fs, funcs, done) ==
    IF fs = <<>> THEN done
    ELSE CHOOSE end \in {LowerDefines(Tail(fs), funcs, [lifted |-> r.lifted, out |-> Append(done.out, r.fn)]) :
             r \in {LowerDefined(Head(fs).name, Head(fs).params, Head(fs).body, funcs, done.lifted)}} : TRUE

\* scm_lower: the functions, main, then the lambdas.
ScmLower(p) ==
    LET funcs == {p.funcs[k].name : k \in DOMAIN p.funcs}
        link(defs, main) == defs.out \o <<main.fn>> \o LowerLifted(0, funcs, main.lifted)
        rest(defs) == link(defs, LowerMain(p.forms, funcs, defs.lifted))
    IN  rest(LowerDefines(p.funcs, funcs, [lifted |-> <<>>, out |-> <<>>]))
=============================================================================
