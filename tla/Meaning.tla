------------------------------- MODULE Meaning -------------------------------
(***************************************************************************)
(* What a program says, read off its syntax tree: the reference that the   *)
(* portable compiler's two front ends are held against.  TinC: variables   *)
(* are objects of one or more elements, a pointer is an object and an      *)
(* offset in it.  TinScheme: fixnums, booleans and functions without free  *)
(* variables.  Integers wrap at the width of the target.                   *)
(***************************************************************************)
EXTENDS Integers, Sequences, FiniteSetsExt, SequencesExt

CONSTANT B \* bits in a byte; an int has 4 * B

\* A result as an integer of a number of bits, two's complement.
Fits(v, bits) == LET u == v % (2 ^ bits) IN IF u >= 2 ^ (bits - 1) THEN u - 2 ^ bits ELSE u
IntOf(v) == Fits(v, 4 * B)
Truth(b) == IF b THEN 1 ELSE 0
Magnitude(x) == IF x < 0 THEN -x ELSE x
Towards0(x, y) ==
    LET q == Magnitude(x) \div Magnitude(y) IN IF (x < 0) = (y < 0) THEN q ELSE -q
Conj(x, y) ==
    IntOf(FoldFunctionOnSet(+, 0, [k \in 0 .. 4 * B - 1 |->
            2 ^ k * (((x \div 2 ^ k) % 2) * ((y \div 2 ^ k) % 2))], 0 .. 4 * B - 1))

Binary(op, x, y) ==
    CASE op = "+" -> IntOf(x + y)
      [] op = "-" -> IntOf(x - y)
      [] op = "*" -> IntOf(x * y)
      [] op = "/" -> IntOf(Towards0(x, y))
      [] op = "%" -> x - Towards0(x, y) * y
      [] op = "&" -> Conj(x, y)
      [] op = "|" -> IntOf(x + y - Conj(x, y))
      [] op = "^" -> IntOf(x + y - 2 * Conj(x, y))
      [] op = "<<" -> IntOf(x * 2 ^ y)
      [] op = ">>" -> x \div 2 ^ y
      [] op = "==" -> Truth(x = y)
      [] op = "!=" -> Truth(x # y)
      [] op = "<" -> Truth(x < y)
      [] op = "<=" -> Truth(x <= y)
      [] op = ">" -> Truth(x > y)
      [] op = ">=" -> Truth(x >= y)

----------------------------------------------------------------------------
\* TinC.  A frame is a function and its depth; p is the program.
Own(fr, x) == {k \in DOMAIN fr.vars : fr.vars[k].name = x}
Globals(p, x) == {k \in DOMAIN p.globals : p.globals[k].name = x}
Decl(p, fr, x) == IF Own(fr, x) # {} THEN fr.vars[Max(Own(fr, x))] ELSE p.globals[Min(Globals(p, x))]
Object(fr, x) == <<IF Own(fr, x) # {} THEN fr.depth ELSE 0, x>>
IsFunction(p, fr, x) == Own(fr, x) = {} /\ Globals(p, x) = {}

RECURSIVE Points(_, _, _)
Points(p, fr, e) ==
    CASE e[1] = "name" -> ~IsFunction(p, fr, e[2]) /\ (Decl(p, fr, e[2]).ptr \/ Decl(p, fr, e[2]).size > 0)
      [] e[1] = "un" -> e[2] = "&"
      [] e[1] = "str" -> TRUE
      [] e[1] = "bin" -> e[2] \in {"+", "-"} /\ Points(p, fr, e[3])
      [] e[1] = "assign" -> Points(p, fr, e[3])
      [] e[1] \in {"num", "index", "call"} -> FALSE

\* An element of a char array keeps one byte.
Elements(m, obj) == m[obj].elems
Put(m, at, v) ==
    [m EXCEPT ![at[1]].elems[at[2] + 1] = IF m[at[1]].bytes THEN v % (2 ^ B) ELSE v]
NewObject(d) == [bytes |-> d.type = "char" /\ ~d.ptr,
                 elems |-> [k \in 1 .. Max({1, d.size}) |-> 0]]
NewGlobal(d) ==
    LET o == NewObject(d)
    IN  [o EXCEPT !.elems = [k \in 1 .. Max({Len(@), Len(d.init)}) |-> IF k \in DOMAIN d.init THEN d.init[k] ELSE 0]]

RECURSIVE Eval(_, _, _, _), Exec(_, _, _, _), Apply(_, _, _, _, _)

\* The place an lvalue names.
Lvalue(p, m, fr, e) ==
    CASE e[1] = "name" -> [m |-> m, v |-> <<Object(fr, e[2]), 0>>]
      [] e[1] = "un" -> Eval(p, m, fr, e[3])
      [] e[1] = "index" -> LET a == Eval(p, m, fr, e[2])
                               i == Eval(p, a.m, fr, e[3])
                           IN  [m |-> i.m, v |-> <<a.v[1], a.v[2] + i.v>>]
Contents(r) == [m |-> r.m, v |-> Elements(r.m, r.v[1])[r.v[2] + 1]]

EvalBinary(p, m, fr, e) ==
    LET l == Eval(p, m, fr, e[3])
        r == Eval(p, l.m, fr, e[4])
    IN  CASE e[2] = "&&" -> IF l.v = 0 THEN [m |-> l.m, v |-> 0] ELSE [m |-> r.m, v |-> Truth(r.v # 0)]
          [] e[2] = "||" -> IF l.v # 0 THEN [m |-> l.m, v |-> 1] ELSE [m |-> r.m, v |-> Truth(r.v # 0)]
          [] e[2] \in {"+", "-"} /\ Points(p, fr, e[3]) ->
                [m |-> r.m, v |-> <<l.v[1], IF e[2] = "+" THEN l.v[2] + r.v ELSE l.v[2] - r.v>>]
          [] e[2] \notin {"&&", "||"} /\ ~(e[2] \in {"+", "-"} /\ Points(p, fr, e[3])) ->
                [m |-> r.m, v |-> Binary(e[2], l.v, r.v)]

EvalUnary(p, m, fr, e) ==
    LET x == Eval(p, m, fr, e[3])
    IN  CASE e[2] = "*" -> Contents(x)
          [] e[2] = "&" -> Lvalue(p, m, fr, e[3])
          [] e[2] = "-" -> [x EXCEPT !.v = IntOf(-@)]
          [] e[2] = "~" -> [x EXCEPT !.v = -1 - @]
          [] e[2] = "!" -> [x EXCEPT !.v = Truth(@ = 0)]

RECURSIVE EvalAll(_, _, _, _, _)
EvalAll(p, m, fr, es, vs) ==
    IF es = <<>> THEN [m |-> m, vs |-> vs]
    ELSE CHOOSE all \in {EvalAll(p, r.m, fr, Tail(es), Append(vs, r.v)) : r \in {Eval(p, m, fr, Head(es))}} : TRUE

EvalCall(p, m, fr, e) ==
    LET args == EvalAll(p, m, fr, e[3], <<>>)
        callee == Eval(p, args.m, fr, e[2])
    IN  Apply(p, callee.m, callee.v[2], args.vs, fr.depth + 1)

Eval(p, m, fr, e) ==
    CASE e[1] = "num" -> [m |-> m, v |-> e[2]]
      [] e[1] = "name" ->
            IF IsFunction(p, fr, e[2]) THEN [m |-> m, v |-> <<"function", e[2]>>]
            ELSE IF Decl(p, fr, e[2]).size > 0 THEN [m |-> m, v |-> <<Object(fr, e[2]), 0>>]
            ELSE Contents([m |-> m, v |-> <<Object(fr, e[2]), 0>>])
      [] e[1] = "str" -> [m |-> (<<-1, e[3]>> :> [bytes |-> TRUE, elems |-> Append(e[2], 0)]) @@ m,
                          v |-> <<<<-1, e[3]>>, 0>>]
      [] e[1] = "index" -> Contents(Lvalue(p, m, fr, e))
      [] e[1] = "un" -> EvalUnary(p, m, fr, e)
      [] e[1] = "bin" -> EvalBinary(p, m, fr, e)
      [] e[1] = "assign" -> LET r == Eval(p, m, fr, e[3])
                                at == Lvalue(p, r.m, fr, e[2])
                            IN  [m |-> Put(at.m, at.v, r.v), v |-> r.v]
      [] e[1] = "call" -> EvalCall(p, m, fr, e)

\* How a statement ends: next, break, continue, or return with a value.
Exec(p, m, fr, s) ==
    CASE s[1] = "block" ->
            IF s[2] = <<>> THEN [m |-> m, how |-> "next", v |-> 0]
            ELSE CHOOSE end \in {IF one.how = "next" THEN Exec(p, one.m, fr, <<"block", Tail(s[2])>>) ELSE one :
                                     one \in {Exec(p, m, fr, Head(s[2]))}} : TRUE
      [] s[1] = "expr" -> [m |-> Eval(p, m, fr, s[2]).m, how |-> "next", v |-> 0]
      [] s[1] \in {"empty", "none"} -> [m |-> m, how |-> "next", v |-> 0]
      [] s[1] = "if" -> LET c == Eval(p, m, fr, s[2]) IN Exec(p, c.m, fr, IF c.v # 0 THEN s[3] ELSE s[4])
      [] s[1] = "while" ->
            LET c == Eval(p, m, fr, s[2])
                b == Exec(p, c.m, fr, s[3])
            IN  IF c.v = 0 THEN [m |-> c.m, how |-> "next", v |-> 0]
                ELSE IF b.how = "break" THEN [b EXCEPT !.how = "next"]
                ELSE IF b.how = "return" THEN b ELSE Exec(p, b.m, fr, s)
      [] s[1] \in {"break", "continue"} -> [m |-> m, how |-> s[1], v |-> 0]
      [] s[1] = "return void" -> [m |-> m, how |-> "return", v |-> 0]
      [] s[1] = "return" -> LET r == Eval(p, m, fr, s[2]) IN [m |-> r.m, how |-> "return", v |-> r.v]

Apply(p, m, name, args, depth) ==
    LET f == p.funcs[CHOOSE k \in DOMAIN p.funcs : p.funcs[k].name = name]
        vars == f.params \o f.locals
        fresh == [o \in {<<depth, vars[k].name>> : k \in DOMAIN vars} |->
                     LET k == CHOOSE j \in DOMAIN vars : vars[j].name = o[2]
                         obj == NewObject(vars[k])
                     IN  IF k \in DOMAIN args THEN [obj EXCEPT !.elems = <<args[k]>>] ELSE obj]
        run == Exec(p, fresh @@ m, [vars |-> vars, depth |-> depth], f.body)
    IN  [m |-> run.m, v |-> run.v]

TincMeans(p) ==
    LET data == [o \in {<<0, p.globals[k].name>> : k \in DOMAIN p.globals} |->
                    NewGlobal(p.globals[CHOOSE k \in DOMAIN p.globals : p.globals[k].name = o[2]])]
    IN  Apply(p, data, "main", <<>>, 1).v

----------------------------------------------------------------------------
\* TinScheme.  A value is tagged; a program is definitions and expressions.
Fix(n) == <<"fix", Fits(n, 4 * B - 2)>>

RECURSIVE SchemeEval(_, _, _)
SchemeApply(p, f, args) == SchemeEval(p, [x \in Range(f[2]) |-> args[CHOOSE k \in DOMAIN f[2] : f[2][k] = x]], Last(f[3]))

Arithmetic(op, a) ==
    LET x == a[1][2]
        y == a[2][2]
    IN  CASE op = "+" -> Fix(x + y)
          [] op = "-" /\ Len(a) = 1 -> Fix(-x)
          [] op = "-" /\ Len(a) = 2 -> Fix(x - y)
          [] op = "*" -> Fix(x * y)
          [] op = "=" -> <<"bool", Truth(x = y)>>
          [] op \in {"<", ">", "<=", ">="} -> <<"bool", Binary(op, x, y)>>

SchemeEval(p, env, e) ==
    CASE e[1] \in {"fix", "bool"} -> e
      [] e[1] = "sym" -> IF e[2] \in DOMAIN env THEN env[e[2]] ELSE p.defs[e[2]]
      [] e[1] = "lambda" -> <<"fn", e[2], e[3]>>
      [] e[1] = "if" -> IF SchemeEval(p, env, e[2]) # <<"bool", 0>> THEN SchemeEval(p, env, e[3])
                        ELSE SchemeEval(p, env, e[4])
      [] e[1] = "begin" -> SchemeEval(p, env, Last(e[2]))
      [] e[1] = "op" -> Arithmetic(e[2], [k \in DOMAIN e[3] |-> SchemeEval(p, env, e[3][k])])
      [] e[1] = "call" -> SchemeApply(p, SchemeEval(p, env, e[2]),
                                      [k \in DOMAIN e[3] |-> SchemeEval(p, env, e[3][k])])

\* The value of the last top-level expression, as main returns it: a fixnum's
\* number, 1 for true and 0 for false or when there is none.
SchemeMeans(p) ==
    LET functions == [x \in {p.funcs[k].name : k \in DOMAIN p.funcs} |->
                         LET f == p.funcs[CHOOSE k \in DOMAIN p.funcs : p.funcs[k].name = x]
                         IN  <<"fn", f.params, f.body>>]
        run == FoldLeft(LAMBDA acc, e :
                            LET none == [x \in {} |-> 0]
                            IN  IF e[1] = "define"
                                THEN [acc EXCEPT !.defs = (e[2] :> SchemeEval(acc, none, e[3])) @@ @]
                                ELSE [acc EXCEPT !.last = SchemeEval(acc, none, e)[2]],
                        [defs |-> functions, last |-> 0], p.forms)
    IN  run.last
=============================================================================
