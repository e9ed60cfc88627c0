------------------------------ MODULE MCInputs ------------------------------
(***************************************************************************)
(* The programs that the RV32 core and the portable compiler are run on.   *)
(***************************************************************************)
EXTENDS Integers, Sequences, FiniteSets

\* Instructions and starting states for the RV32 core.  Words of 8 bits: bytes
\* have 2 bits and floats 3 of exponent and 4 of mantissa.
Insn(op, f3, rd, rs1, rs2, imm) ==
    [op |-> op, f3 |-> f3, f7 |-> 0, rd |-> rd, rs1 |-> rs1, rs2 |-> rs2, imm |-> imm, name |-> "none", list |-> 0,
     len |-> 4, zcb |-> FALSE, enc |-> 77]
Named(op, name, f3, rd, rs1) == [Insn(op, f3, rd, rs1, 0, 0) EXCEPT !.name = name]
Cm(name, list, imm) == [Insn("ZCMP", 0, 0, 0, 0, imm) EXCEPT !.name = name, !.list = list, !.len = 2]
AmoW(funct5, f3, rs1, rs2) == [Insn("AMO", f3, 10, rs1, rs2, 0) EXCEPT !.f7 = funct5]
System(name) == Named("SYSTEM", name, 0, 0, 0)

\* x1 ra, x2 sp, x8 and x9 saved, x10 to x12 and x17 arguments; x5 to x7 temporaries
RvRegs == {0, 1, 2, 5, 6, 7, 8, 9, 10, 11, 12, 17}
RvData == 64 .. 79

Start ==
    [x |-> [r \in RvRegs |-> CASE r = 1 -> 120 [] r = 2 -> 64 [] r = 5 -> 68 [] r = 6 -> 200 [] r = 7 -> 70
                               [] r = 8 -> 27 [] r = 9 -> 3 [] r = 10 -> 4 [] r = 11 -> 255 [] r = 17 -> 64
                               [] OTHER -> 0],
     f |-> [r \in 0 .. 3 |-> CASE r = 0 -> 0 [] r = 1 -> 49 [] r = 2 -> 170 [] r = 3 -> 119],
     pc |-> 100, fcsr |-> 0, mstatus |-> 4 + 8, mtvec |-> 32, mepc |-> 0, mcause |-> 0, mtval |-> 0, mscratch |-> 9,
     mie |-> 7, mip |-> 0, mcycle |-> 250, minstret |-> 250, halted |-> FALSE, in_trap |-> FALSE,
     waiting |-> FALSE, trap_misaligned |-> FALSE, zcmp |-> TRUE, zcb |-> TRUE, atomics |-> TRUE, bitmanip |-> TRUE,
     ecall |-> TRUE, exit_code |-> -1, res_valid |-> FALSE, res_addr |-> 0,
     mem |-> [a \in RvData |-> IF a % 4 = 0 THEN 2 + ((a \div 4) % 2) ELSE (a % 4) - 1],
     denied |-> {}, readonly |-> {},
     back |-> [ok |-> FALSE, pc |-> 0, mie |-> FALSE], linked |-> [addr |-> -1, trapped |-> FALSE],
     redo |-> [i |-> "none"], broken |-> {}]

\* Interrupts on, vectored; a smaller machine; memory the probe denies.
Enabled == [Start EXCEPT !.mstatus = 1 + 4 + 8, !.mtvec = 33]
Plain == [Start EXCEPT !.zcmp = FALSE, !.zcb = FALSE, !.atomics = FALSE, !.bitmanip = FALSE, !.ecall = FALSE,
                       !.trap_misaligned = TRUE, !.x[17] = 7]
Protected == [Start EXCEPT !.denied = {76}, !.readonly = {72}, !.x[2] = 80]
Exiting == [Start EXCEPT !.x[17] = 93, !.fcsr = 5 * 32]
OddPc == [Start EXCEPT !.pc = 101, !.x[17] = 9]
NoCode == {[Start EXCEPT !.denied = {p}] : p \in {101, 102}}

RvFloats == {"fadd", "fsub", "fmul", "fdiv", "fsqrt", "fsgnj", "fsgnjn", "fsgnjx", "fmin", "fmax", "feq", "flt", "fle",
             "fcvt.w", "fcvt.wu", "fcvt.s.w", "fcvt.s.wu", "fmv.x", "fmv.w", "fclass",
             "fmadd", "fmsub", "fnmsub", "fnmadd", "none"}
RvCsrs == {"fflags", "frm", "fcsr", "cycle", "cycleh", "mcycle", "mcycleh", "time", "timeh", "instret", "instreth",
           "minstret", "minstreth", "mstatus", "misa", "mie", "mtvec", "mscratch", "mepc", "mcause", "mtval", "mip",
           "mhartid", "none"}

\* Every instruction once.
Each ==
    {Insn(op, f3, 10, 7, 9, 2) : op \in {"BRANCH", "LOAD", "STORE", "REG", "MISC_MEM"}, f3 \in 0 .. 7}
    \union {Insn(op, f3, 2, 7, 1, 2) : op \in {"LOAD_FP", "STORE_FP"}, f3 \in {2, 3}}
    \union {Insn(op, f3, rd, 5, 9, -3) : op \in {"LUI", "AUIPC", "JAL", "JALR"}, f3 \in {0, 1}, rd \in {0, 5}}
    \union {Insn("IMM", f3, 0, 7, 2, -3) : f3 \in 0 .. 7}
    \union {[Insn(op, f3, 12, 6, 1, 3) EXCEPT !.f7 = f7] : op \in {"IMM", "REG"}, f3 \in 0 .. 7, f7 \in {1, 32, 48}}
    \union {AmoW(f, f3, 5, rs2) : f \in {0, 1, 2, 3, 4, 5, 8, 12, 16, 20, 24, 28}, f3 \in {2, 3}, rs2 \in {0, 9}}
    \union {AmoW(f, 2, 7, 9) : f \in {0, 2, 3}}
    \union {[Named("FP", op, f3, 2, 1) EXCEPT !.rs2 = 2, !.list = 3] : op \in RvFloats, f3 \in {0, 7}}
    \union {System(name) : name \in {"ecall", "ebreak", "mret", "wfi", "none"}}
    \union {Named("SYSTEM", csr, f3, rd, rs1) : csr \in RvCsrs, f3 \in 1 .. 7, rd \in {0, 6}, rs1 \in {0, 9}}
    \union {Cm(name, list, 1) : name \in {"push", "pop", "popret", "popretz"}, list \in 3 .. 6}
    \union {Cm(name, list, imm) : name \in {"mvsa01", "mva01s"}, list \in {0, 1}, imm \in {0, 1}}
    \union {Cm("none", 5, 0), Insn("BAD", 0, 0, 0, 0, 0), [Insn("C_BAD", 0, 0, 0, 0, 0) EXCEPT !.len = 2],
            [Insn("LOAD", 4, 10, 7, 0, 1) EXCEPT !.len = 2, !.zcb = TRUE]}

\* A handler and the code it interrupts: reservations, interrupt enables, traps.
Traps ==
    {AmoW(2, 2, 5, 0), AmoW(3, 2, 5, 9), System("mret"), System("ebreak"), System("wfi"),
     Named("SYSTEM", "mstatus", 6, 0, 1), Named("SYSTEM", "mip", 5, 0, 0), Insn("JAL", 0, 0, 0, 0, 8)}

\* Frames pushed and popped over memory that faults.
Frames ==
    {Cm("push", 6, 0), Cm("popretz", 6, 0), AmoW(0, 2, 5, 9), System("mret")}

MCRvPrograms == [each |-> Each, traps |-> Traps, frames |-> Frames]
MCRvStarts == [each |-> {Start, Plain, Protected, Exiting, OddPc} \union NoCode,
               traps |-> {Enabled}, frames |-> {Protected, [Protected EXCEPT !.x[2] = 64]}]
MCRvRaised == [each |-> {"ext"}, traps |-> {"ext", "timer", "soft"}, frames |-> {}]
MCRvFuels == [each |-> 1, traps |-> 5, frames |-> 7]

----------------------------------------------------------------------------
\* Programs for the portable compiler: every pair and some triples of operators
\* over operands that spill, every small condition, and one program for each of
\* the tests of the repository and for each feature they leave out.

\* TinC syntax trees.
N(v) == IF v < 0 THEN <<"un", "-", <<"num", -v>>>> ELSE <<"num", v>>
V(x) == <<"name", x>>
Bin(op, a, b) == <<"bin", op, a, b>>
Not(a) == <<"un", "!", a>>
Deref(a) == <<"un", "*", a>>
AddrOf(a) == <<"un", "&", a>>
At(a, i) == <<"index", a, i>>
Set(a, b) == <<"expr", <<"assign", a, b>>>>
Call(f, args) == <<"call", V(f), args>>
If(c, s, t) == <<"if", c, s, t>>
While(c, s) == <<"while", c, s>>
Block(ss) == <<"block", ss>>
Return(e) == <<"return", e>>
NoElse == <<"none">>

Var(x) == [name |-> x, type |-> "int", ptr |-> FALSE, size |-> 0]
PtrTo(type, x) == [name |-> x, type |-> type, ptr |-> TRUE, size |-> 0]
Array(type, x, n) == [name |-> x, type |-> type, ptr |-> FALSE, size |-> n]
Global(d, init, text) ==
    [name |-> d.name, type |-> d.type, ptr |-> d.ptr, size |-> d.size, init |-> init, text |-> text]
Func(f, params, locals, body) == [name |-> f, params |-> params, locals |-> locals, body |-> Block(body)]
Tinc(globals, funcs) ==
    [lang |-> "tinc", globals |-> globals, funcs |-> funcs, forms |-> <<>>, status |-> "meaning", value |-> 0]
Ints(xs) == [k \in 1 .. Len(xs) |-> Var(xs[k])]

----------------------------------------------------------------------------
\* Expressions.  A divisor is made odd and a shift count small.
Arith == {"+", "-", "*", "/", "%", "&", "|", "^", "<<", ">>"}
Compare == {"==", "!=", "<", "<=", ">", ">="}
Logic == {"&&", "||"}
Guarded(op, a, b) ==
    CASE op \in {"/", "%"} -> Bin(op, a, Bin("|", b, N(1)))
      [] op \in {"<<", ">>"} -> Bin(op, a, Bin("&", b, N(3)))
      [] op \notin {"/", "%", "<<", ">>"} -> Bin(op, a, b)

Deep(o1, o2) == Guarded(o1, V("x"), Guarded(o2, V("g"), Bin("-", V("y"), At(V("a"), N(1)))))
Wide(o1, o2, o3) == Guarded(o1, Guarded(o2, V("x"), V("y")), Guarded(o3, At(V("a"), V("i")), V("g")))

Evaluate(e, x, y) ==
    Tinc(<<Global(Var("g"), <<6>>, FALSE)>>,
         <<Func("main", <<>>, Ints(<<"x", "y", "i">>) \o <<Array("int", "a", 2)>>,
                <<Set(V("x"), N(x)), Set(V("y"), N(y)), Set(V("i"), N(0)),
                  Set(At(V("a"), V("i")), N(9)), Set(At(V("a"), N(1)), N(-2)), Return(e)>>)>>)

Expressions ==
    {Evaluate(Deep(o1, o2), -7, 2) : o1 \in Arith \union Compare \union Logic,
                                     o2 \in Arith \union Compare \union Logic}
    \union {Evaluate(Wide(o1, o2, o3), -7, 2) : o1 \in {"-", "%", "<=", "||"}, o2 \in Arith \union Compare,
                                               o3 \in {"-", "*", ">>", "=="}}

\* Conditions of an if and of a while, over all truth values.
Conditions ==
    {Bin(l, a, b) : l \in Logic, a \in {V("x"), Not(V("x")), Bin("<", V("x"), V("y"))},
                    b \in {V("y"), Not(Bin("&&", V("x"), V("y"))), Bin("||", V("y"), Not(V("x")))}}
Choose(c, x, y) ==
    Tinc(<<>>, <<Func("main", <<>>, Ints(<<"x", "y", "n">>),
        <<Set(V("x"), N(x)), Set(V("y"), N(y)), Set(V("n"), N(0)),
          While(c, Block(<<If(Bin(">", V("n"), N(3)), <<"break">>, NoElse), Set(V("n"), Bin("+", V("n"), N(1))),
                           Set(V("x"), Bin("-", V("n"), V("x")))>>)),
          If(c, Set(V("n"), Bin("+", V("n"), N(10))), Set(V("n"), Bin("+", V("n"), N(20)))), Return(V("n"))>>)>>)
Decisions == {Choose(c, x, y) : c \in Conditions, x \in {0, 1}, y \in {0, 1}}

----------------------------------------------------------------------------
\* One program for each feature.
Factorial ==
    Tinc(<<>>, <<Func("fact", <<Var("n")>>, <<>>,
                      <<If(Bin("<=", V("n"), N(1)), Return(N(1)), NoElse),
                        Return(Bin("*", V("n"), Call("fact", <<Bin("-", V("n"), N(1))>>)))>>),
                 Func("main", <<>>, <<>>, <<Return(Call("fact", <<N(4)>>))>>)>>)

\* spill.tc with three arguments, nested twice.
Nested ==
    LET x(k) == Bin("+", V("x"), N(k))
    IN  Tinc(<<>>, <<Func("sum", Ints(<<"a", "b", "c">>), <<>>,
                          <<Return(Bin("-", Bin("+", V("a"), V("b")), V("c")))>>),
                     Func("mix", <<Var("x")>>, <<>>,
                          <<Return(Call("sum", <<Call("sum", <<x(1), x(2), x(3)>>),
                                                 Bin("*", V("x"), N(2)),
                                                 Call("sum", <<Call("sum", <<x(4), x(5), x(6)>>), x(7), x(8)>>)>>))>>),
                     Func("main", <<>>, <<>>, <<Return(Bin("*", Call("mix", <<N(3)>>), Call("mix", <<N(5)>>)))>>)>>)

\* A loop without a test, continue, and a global count.
Loop ==
    Tinc(<<Global(Var("seen"), <<>>, FALSE)>>,
         <<Func("note", <<Var("k")>>, <<>>,
                <<Set(V("seen"), Bin("+", V("seen"), V("k"))), <<"return void">>>>),
           Func("main", <<>>, Ints(<<"i">>),
                <<Set(V("i"), N(0)),
                  While(N(1), Block(<<Set(V("i"), Bin("+", V("i"), N(1))),
                                      If(Bin("==", Bin("%", V("i"), N(3)), N(0)), <<"continue">>, NoElse),
                                      If(Bin(">", V("i"), N(7)), <<"break">>, NoElse),
                                      <<"expr", Call("note", <<V("i")>>)>>>>)),
                  Return(V("seen"))>>)>>)

\* memcpy.tc: pointers to char and to int, a string, address and index.
Copy ==
    Tinc(<<Global(Array("int", "w", 3), <<7, -4>>, FALSE), Global(Array("char", "buf", 6), <<>>, FALSE),
           Global(Array("char", "name", 4), <<3, 6, 2, 0>>, TRUE)>>,
         <<Func("copy", <<PtrTo("char", "d"), PtrTo("char", "s")>>, <<Var("n")>>,
                <<Set(V("n"), N(0)),
                  While(Set(At(V("d"), V("n")), Deref(Bin("+", V("s"), V("n"))))[2],
                        Set(V("n"), Bin("+", V("n"), N(1)))),
                  Return(V("n"))>>),
           Func("swap", <<PtrTo("int", "p"), PtrTo("int", "q")>>, <<Var("t")>>,
                <<Set(V("t"), Deref(V("p"))), Set(Deref(V("p")), Deref(V("q"))), Set(Deref(V("q")), V("t"))>>),
           Func("main", <<>>, <<Var("n"), Array("char", "l", 5), Var("m")>>,
                <<Set(V("n"), Call("copy", <<Bin("+", V("buf"), N(1)), V("name")>>)),
                  <<"expr", Call("copy", <<V("l"), <<"str", <<1, 5>>, "s">>>>)>>,
                  Set(V("m"), N(100)),
                  <<"expr", Call("swap", <<AddrOf(V("m")), AddrOf(At(V("w"), N(1)))>>)>>,
                  <<"expr", Call("swap", <<V("w"), Bin("+", V("w"), N(2))>>)>>,
                  Return(Bin("+", Bin("+", Bin("*", At(V("buf"), N(2)), N(8)), At(V("l"), N(1))),
                             Bin("+", Bin("*", V("m"), V("n")), Bin("-", At(V("w"), N(1)), At(V("w"), N(2))))))>>)>>)

\* Side effects of conditions that are or are not reached; a table of functions.
Effects ==
    Tinc(<<Global(Var("c"), <<2>>, FALSE)>>,
         <<Func("inc", <<>>, <<>>, <<Return(<<"assign", V("c"), Bin("+", V("c"), N(1))>>)>>),
           Func("main", <<>>, <<Var("r"), Array("int", "t", 2)>>,
                <<Set(V("r"), Bin("||", Bin("&&", Call("inc", <<>>), N(0)), Call("inc", <<>>))),
                  Set(V("r"), Bin("+", V("r"), Bin("&&", N(0), Call("inc", <<>>)))),
                  Set(At(V("t"), N(1)), V("inc")),
                  <<"expr", <<"call", At(V("t"), N(1)), <<>>>>>>,
                  <<"empty">>, Return(Bin("+", Bin("*", V("c"), N(10)), V("r")))>>)>>)

\* cont.tc, and a captured stack that is resumed after more was done.
Continued(v) ==
    [Tinc(<<>>, <<Func("produce", <<Var("z")>>, <<Var("k")>>,
                       <<Set(V("k"), Bin("+", V("z"), Call("__capture", <<>>))), Return(Bin("+", V("k"), N(100)))>>),
                  Func("main", <<>>, Ints(<<"buf", "r">>),
                       <<Set(V("buf"), Call("__mark", <<>>)),
                         If(V("buf"), Set(V("r"), Call("__resume", <<V("buf"), N(v)>>)), NoElse),
                         Set(V("r"), Bin("-", N(500), Call("produce", <<N(30)>>))), Return(V("r"))>>)>>)
     EXCEPT !.status = "stated", !.value = 370 - v]

\* ! used as a value.
Negated == Evaluate(Bin("+", Not(V("x")), V("y")), 5, 3)

Features == {Factorial, Negated, Nested, Loop, Copy, Effects, Continued(42), Continued(-5)}

----------------------------------------------------------------------------
\* TinScheme.
Fixn(n) == <<"fix", n>>
Sym(x) == <<"sym", x>>
Op(o, es) == <<"op", o, es>>
SIf(c, a, b) == <<"if", c, a, b>>
SCall(f, es) == <<"call", f, es>>
Defun(f, params, body) == [name |-> f, params |-> params, body |-> body]
Scheme(funcs, forms) ==
    [lang |-> "scheme", globals |-> <<>>, funcs |-> funcs, forms |-> forms, status |-> "meaning", value |-> 0]

SFact == Scheme(<<Defun("fact", <<"n">>, <<SIf(Op("=", <<Sym("n"), Fixn(0)>>), Fixn(1),
                                              Op("*", <<Sym("n"), SCall(Sym("fact"), <<Op("-", <<Sym("n"), Fixn(1)>>)>>)>>))>>)>>,
                <<Op("-", <<SCall(Sym("fact"), <<Fixn(4)>>), Fixn(20)>>)>>)

\* Operators and tests over fixnums, a variable and a boolean.
SOps == {Scheme(<<Defun("f", <<"a", "b">>, <<Op(o2, <<Sym("a"), Op("-", <<Sym("b")>>)>>)>>)>>,
                <<<<"define", "v", Op("+", <<Fixn(x), Fixn(2)>>)>>,
                  SIf(Op(o1, <<Sym("v"), SCall(Sym("f"), <<Sym("v"), Fixn(-3)>>)>>),
                      Op("*", <<Sym("v"), Fixn(7)>>), <<"begin", <<Fixn(1), Op("-", <<Sym("v")>>)>>>>)>>) :
            o1 \in {"=", "<", ">", "<=", ">="}, o2 \in {"+", "-", "*"}, x \in {-4, 1, 300}}
STruth == {Scheme(<<>>, <<SIf(c, Fixn(1), Fixn(0)), Op(o, <<Fixn(3), Fixn(x)>>)>>) :
              c \in {<<"bool", 0>>, <<"bool", 1>>, Fixn(0)}, o \in {"=", "<"}, x \in {3, 4}}
STest(c) == Scheme(<<>>, <<SIf(c, Fixn(5), SIf(Op(">", <<Fixn(1), Fixn(0)>>), Fixn(6), Fixn(7)))>>)
SThunk == Scheme(<<>>, <<<<"define", "t", <<"lambda", <<>>, <<SCall(<<"lambda", <<>>, <<Fixn(8)>>>>, <<>>)>>>>>>,
                         Op("+", <<SCall(Sym("t"), <<>>), Fixn(2)>>)>>)
SApply == Scheme(<<Defun("app", <<"f", "x">>, <<SCall(Sym("f"), <<Sym("x")>>)>>),
                   Defun("dbl", <<"y">>, <<Op("*", <<Sym("y"), Fixn(2)>>)>>)>>,
                 <<SCall(Sym("app"), <<Sym("dbl"), Fixn(9)>>)>>)

\* scm_shift.scm, and a reset whose body does not shift.
SShift(body, v) ==
    [Scheme(<<Defun("produce", <<>>, <<Op("+", <<<<"shift">>, Fixn(100)>>)>>),
              Defun("plain", <<>>, <<Fixn(33)>>),
              Defun("handler", <<"k">>, <<<<"resume", Sym("k"), Fixn(42)>>>>)>>,
            <<Op("-", <<<<"reset", SCall(Sym(body), <<>>), Sym("handler")>>, Fixn(140)>>)>>)
     EXCEPT !.status = "stated", !.value = v]

SchemePrograms == SOps \union STruth \union {STest(<<"bool", b>>) : b \in {0, 1}}
                  \union {SFact, SThunk, SApply, SShift("produce", 2), SShift("plain", -107)}

ManyPrograms == Expressions \union Decisions \union Features \union SchemePrograms

----------------------------------------------------------------------------
(* Scenes for the rasterizer. *)

Put(op) == [op |-> op]
Setting(to) == [op |-> "set", to |-> to]
Vx(x, y) == [x |-> x, y |-> y, z |-> 0, w |-> 1, b |-> 8, a |-> 255, pb |-> 0, pa |-> 0, s |-> 0, t |-> 0]
Tri(p, q, r) == [op |-> "triangles", mode |-> "TRIANGLES", v |-> <<p, q, r>>]
\* A fan around an inner point: coordinates whose low bits are 0 or above the pixel's centre.
Fan(c, around) == {Tri(Vx(c[1], c[2]), Vx(around[i][1], around[i][2]), Vx(around[1 + (i % Len(around))][1], around[1 + (i % Len(around))][2])) : i \in DOMAIN around}
Flat(v, z, b, a) == [k \in {1, 2, 3} |-> [v[k] EXCEPT !.z = z, !.b = b, !.a = a]]
Big == <<Vx(0, 0), Vx(64, 0), Vx(0, 48)>>
Low == <<Vx(64, 48), Vx(0, 48), Vx(0, 16)>>
Layers == {[op |-> "triangles", mode |-> "TRIANGLES", v |-> Flat(v, z, b, a)] :
              <<v, z, b, a>> \in {<<Big, 30000, 16, 255>>, <<Low, 20000, 40, 255>>, <<Big, 20000, 64, 255>>, <<Low, 10000, 72, 0>>}}
All == <<"XY", "Z", "W", "A", "RGB", "ST0">>
Formats == {"RGB_565", "ARGB_1555", "ARGB_4444", "INTENSITY_8", "ALPHA_8", "P_8"}
Download(f, l, a, start, data) == [op |-> "texDownload", start |-> start, lod |-> l, aspect |-> a, format |-> f, data |-> data]
TexSource(f, l, a, start) == [op |-> "texSource", start |-> start, lod |-> l, aspect |-> a, format |-> f]
Functions12 == {"ZERO", "LOCAL", "LOCAL_ALPHA", "SCALE_OTHER", "BLEND_OTHER", "SCALE_OTHER_ADD_LOCAL",
   "SCALE_OTHER_ADD_LOCAL_ALPHA", "SCALE_OTHER_MINUS_LOCAL", "SCALE_OTHER_MINUS_LOCAL_ADD_LOCAL",
   "SCALE_OTHER_MINUS_LOCAL_ADD_LOCAL_ALPHA", "SCALE_MINUS_LOCAL_ADD_LOCAL", "SCALE_MINUS_LOCAL_ADD_LOCAL_ALPHA"}
Factors == {"ZERO", "LOCAL", "OTHER_ALPHA", "LOCAL_ALPHA", "TEXTURE_ALPHA", "ONE", "ONE_MINUS_LOCAL", "ONE_MINUS_OTHER_ALPHA", "ONE_MINUS_LOCAL_ALPHA", "ONE_MINUS_TEXTURE_ALPHA"}
Units == {[function |-> f, factor |-> k, local |-> "ITERATED", other |-> "TEXTURE", invert |-> i] : f \in Functions12, k \in Factors, i \in BOOLEAN}
   \cup {[function |-> f, factor |-> "OTHER_ALPHA", local |-> l, other |-> o, invert |-> FALSE] :
             f \in Functions12, l \in {"CONSTANT", "NONE"}, o \in {"ITERATED", "CONSTANT", "NONE"}}
Dot == [op |-> "triangles", mode |-> "TRIANGLES", v |-> [k \in {1, 2, 3} |-> [Big[k] EXCEPT !.b = 102, !.a = 204]]]
Dotted(w) == [Dot EXCEPT !.v = [k \in {1, 2, 3} |-> [Dot.v[k] EXCEPT !.w = w]]]
Paint(b) == [op |-> "point", v |-> <<[Vx(16, 16) EXCEPT !.b = b]>>]
FrameCalls == {Put("winOpen"), Put("winClose"), [op |-> "swap", interval |-> 1], [op |-> "swap", interval |-> 0], [op |-> "renderBuffer", buffer |-> "FRONT"],
   [op |-> "renderBuffer", buffer |-> "BACK"], [op |-> "clear", b |-> 80, z |-> 7], Paint(40),
   [op |-> "lfbWrite", buffer |-> "BACK", x |-> -1, y |-> 1, w |-> 3, h |-> 4, pixel |-> <<3, 9>>],
   [op |-> "lfbWrite", buffer |-> "FRONT", x |-> 2, y |-> 0, w |-> 1, h |-> 1, pixel |-> <<4>>]}
Meshes == [plain |-> [around |-> <<<<0, 0>>, <<64, 0>>, <<64, 48>>, <<0, 48>>>>, centre |-> <<32, 16>>],
           skew |-> [around |-> <<<<-8, 12>>, <<41, -6>>, <<60, 48>>, <<0, 44>>>>, centre |-> <<28, 28>>]]
Added == [src |-> "ONE", dst |-> "ONE"]
GlideScenes ==
    {[name |-> n, kind |-> "mesh", once |-> TRUE, count |-> 13] : n \in {"plain", "skew"}} \cup
    {[name |-> n, kind |-> "depth", once |-> TRUE, count |-> 13] : n \in {"LESS", "LEQUAL"}} \cup
    {[name |-> n, kind |-> "pixel", once |-> FALSE, count |-> 13] : n \in {"ARGB_4444", "ALPHA_8"}} \cup
    {[name |-> n, kind |-> n, once |-> FALSE, count |-> 9] : n \in {"line", "texture"}} \cup
    {[name |-> "fog", kind |-> "pixel", once |-> FALSE, count |-> 9],
     [name |-> "frames", kind |-> "frames", once |-> FALSE, count |-> 11]}
GlideTried ==
    [n \in {s.name : s \in GlideScenes} |-> [i \in 1 .. 13 |->
        CASE i = 1 -> {Put("winOpen")}
          [] i \in 2 .. 7 -> {[op |-> "layout", param |-> All[i - 1], mode |-> "ENABLE"]}
          [] n \in DOMAIN Meshes /\ i = 8 -> {Setting([ab |-> Added])}
          [] n \in DOMAIN Meshes /\ i = 9 -> {Setting([cull_mode |-> c]) : c \in {"DISABLE", "POSITIVE", "NEGATIVE"}}
          [] n \in DOMAIN Meshes -> Fan(Meshes[n].centre, Meshes[n].around)
          [] n \in {"LESS", "LEQUAL"} /\ i = 8 ->
                 {Setting([depth_mode |-> "ZBUFFER", depth_func |-> n, alpha_func |-> "GREATER", origin |-> o]) :
                      o \in {"UPPER_LEFT", "LOWER_LEFT"}}
          [] n \in {"LESS", "LEQUAL"} /\ i = 9 -> {[op |-> "clear", b |-> 0, z |-> 65535]}
          [] n \in {"LESS", "LEQUAL"} -> Layers
          [] n = "line" /\ i = 8 -> {[op |-> "clip", x0 |-> x, y0 |-> -1, x1 |-> 9, y1 |-> 3] : x \in {-2, 1}}
          [] n = "line" -> {[op |-> "line", v |-> <<Vx(x0, y0), Vx(x1, y1)>>] :
                                x0, x1 \in {-20, 0, 23, 40, 60}, y0, y1 \in {-9, 0, 24, 40}}
          [] n = "texture" /\ i = 8 -> {TexSource(f, l, a, 2) : f \in Formats, l \in 0 .. 2, a \in -2 .. 3}
          [] n = "texture" -> {Setting([clamp_s |-> s, clamp_t |-> t]) : s, t \in {"WRAP", "CLAMP"}}
                \cup {[op |-> "texRequired", format |-> f, large |-> 2, small |-> 0, aspect |-> a] : f \in Formats, a \in {-1, 0, 2}}
          [] n = "fog" /\ i = 8 -> {Setting([fog_mode |-> "TABLE", fog_color |-> 250, fog_table |-> [k \in 0 .. 5 |-> 51 * k]])}
          [] n = "fog" -> {Dotted(w) : w \in {-1, 0, 1, 2}}
          [] n = "frames" -> FrameCalls
          [] i = 8 -> {Download(n, 1, 0, 0, <<170, 20, 190, 153>>)}
          [] i = 9 -> {TexSource(n, 1, 0, 0)}
          [] i = 10 -> {Setting([constant |-> [b |-> 51, a |-> 153], ab |-> x]) :
                            x \in {[src |-> "ONE", dst |-> "ZERO"], [src |-> "SRC_ALPHA", dst |-> "ONE_MINUS_SRC_ALPHA"]}}
          [] i = 11 -> {Setting([cc |-> u]) : u \in Units} \cup {Setting([ac |-> u]) : u \in Units}
          [] i = 12 -> {[op |-> "clear", b |-> 210, z |-> 0]}
          [] OTHER -> {Dot}]]
=============================================================================
