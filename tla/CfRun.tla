-------------------------------- MODULE CfRun --------------------------------
(***************************************************************************)
(* What the code of the portable compiler does when it runs: the m68k      *)
(* instructions that cf_emit.c uses, and the runtime that start.S links    *)
(* in, with the stack switching of delimited continuations.  A byte has B  *)
(* bits, so a long has 4 * B; memory is a row of longs, big-endian.        *)
(***************************************************************************)
EXTENDS Integers, Sequences, FiniteSetsExt, SequencesExt

CONSTANTS B,          \* bits in a byte
          Cells,      \* longs of memory
          ArenaCells, \* longs in __cont_arena
          LogFuel     \* 2^LogFuel instructions, and a program counts as not ending

Long == 2 ^ (4 * B)
Signed(v) == IF v >= Long \div 2 THEN v - Long ELSE v
Wrap(v) == v % Long

\* What a register or a stack cell holds before anything is put there.
Junk == Long \div 3

----------------------------------------------------------------------------
\* emit_globals and the linker: longs of data from address 4 up, each symbol
\* aligned; a string and its terminator, initial values and zeros for the rest.
ByteArray(g) == g.type = "char" /\ g.size > 0
DataBytes(g) ==
    IF ByteArray(g) THEN (IF g.text THEN Len(g.init) ELSE Max({g.size, Len(g.init)}))
    ELSE 4 * Max({g.size, 1, Len(g.init)})
CellsOf(g) == (DataBytes(g) + 3) \div 4
InitAt(g, k) == IF k \in DOMAIN g.init THEN g.init[k] ELSE 0
CellInit(g, c) ==
    IF ByteArray(g)
    THEN ((InitAt(g, 4 * c + 1) * 2 ^ B + InitAt(g, 4 * c + 2)) * 2 ^ B + InitAt(g, 4 * c + 3)) * 2 ^ B
         + InitAt(g, 4 * c + 4)
    ELSE Wrap(InitAt(g, c + 1))

\* The image of the data: where each symbol is, and the longs.
Image(globals) ==
    FoldLeft(LAMBDA acc, g :
                 [at |-> (g.name :> 4 * (Len(acc.longs) + 1)) @@ acc.at,
                  longs |-> acc.longs \o [c \in 1 .. CellsOf(g) |-> CellInit(g, c - 1)]],
             [at |-> "" :> 0, longs |-> <<>>], globals)

StringGlobal(name, bytes) ==
    [name |-> name, type |-> "char", ptr |-> FALSE, size |-> Len(bytes) + 1, text |-> TRUE, init |-> Append(bytes, 0)]
Variable(name, size) == [name |-> name, type |-> "int", ptr |-> FALSE, size |-> size, text |-> FALSE, init |-> <<>>]

----------------------------------------------------------------------------
\* Memory.
LoadL(m, a) == m.mem[a \div 4]
StoreL(m, a, v) == [m EXCEPT !.mem[a \div 4] = v]
Place(a) == 2 ^ (B * (3 - (a % 4)))
LowByte(v) == v % (2 ^ B)
WithByte(v, b) == (v - LowByte(v)) + b
LoadB(m, a) == LowByte(LoadL(m, a) \div Place(a))
StoreB(m, a, v) ==
    LET old == LoadL(m, a) IN StoreL(m, a, old + (LowByte(v) - LoadB(m, a)) * Place(a))

Address(m, o, code, at) ==
    CASE o[1] = "at" -> Wrap(m.r[o[3]] + o[2])
      [] o[1] = "sym" /\ o[2] \in DOMAIN at -> at[o[2]]
      [] o[1] = "sym" /\ o[2] \notin DOMAIN at -> code[<<0, o[2], 0>>]
      [] o[1] = "label" -> code[o[2]]

Reg(m, n, v) == [m EXCEPT !.r[n] = v]

\* The value of a source, and a value put into a destination.
Source(m, o, code, at) ==
    CASE o[1] = "r" -> m.r[o[2]]
      [] o[1] = "#" -> Wrap(o[2])
      [] o[1] = "pop" -> LoadL(m, m.r[15])
      [] o[1] \in {"at", "sym"} -> LoadL(m, Address(m, o, code, at))
Dest(m, o, v, code, at) ==
    CASE o[1] = "r" -> Reg(m, o[2], v)
      [] o[1] = "push" -> StoreL(Reg(m, 15, m.r[15] - 4), m.r[15] - 4, v)
      [] o[1] \in {"at", "sym"} -> StoreL(m, Address(m, o, code, at), v)
Popped(m, o) == IF o[1] = "pop" THEN Reg(m, 15, m.r[15] + 4) ELSE m

\* Bitwise operations of two longs.
Bit(v, k) == (v \div 2 ^ k) % 2
OfBits(f) == FoldFunctionOnSet(+, 0, [k \in 0 .. 4 * B - 1 |-> f[k] * 2 ^ k], 0 .. 4 * B - 1)
AndL(x, y) == OfBits([k \in 0 .. 4 * B - 1 |-> Bit(x, k) * Bit(y, k)])

\* Division towards zero.
Abs(x) == IF x < 0 THEN -x ELSE x
Quotient(x, y) == IF (x < 0) = (y < 0) THEN Abs(x) \div Abs(y) ELSE -(Abs(x) \div Abs(y))

Alu(op, s, d) ==
    CASE op = "add.l" -> Wrap(d + s)
      [] op = "sub.l" -> Wrap(d - s)
      [] op = "muls.l" -> Wrap(Signed(d) * Signed(s))
      [] op = "divs.l" -> Wrap(Quotient(Signed(d), Signed(s)))
      [] op = "and.l" -> AndL(d, s)
      [] op = "or.l" -> d + s - AndL(d, s)
      [] op = "eor.l" -> d + s - 2 * AndL(d, s)
      [] op = "lsl.l" -> IF s % 64 >= 4 * B THEN 0 ELSE Wrap(d * 2 ^ (s % 64))
      [] op = "asr.l" -> Wrap(Signed(d) \div 2 ^ Min({s % 64, 4 * B}))

Compared(c, x, y) ==
    CASE c = "eq" -> x = y
      [] c = "ne" -> x # y
      [] c = "lt" -> x < y
      [] c = "le" -> x <= y
      [] c = "gt" -> x > y
      [] c = "ge" -> x >= y

----------------------------------------------------------------------------
\* start.S.  A range of longs copied from one address to another.
Copied(m, from, to, bytes) ==
    [m EXCEPT !.mem = [c \in to \div 4 .. (to + bytes) \div 4 - 1 |-> m.mem[c - to \div 4 + from \div 4]] @@ @]

\* What both routines leave in the registers: a result, a frame and a stack, and
\* nothing of use in the rest.
Switched(m, result, fp, sp) ==
    [m EXCEPT !.r = (0 :> result @@ 14 :> fp @@ 15 :> sp) @@ [n \in 1 .. 9 |-> Junk] @@ @]

\* __cont_capture: what is on the stack since the mark goes into the arena with
\* its stack and frame pointers, and the mark is returned from again.
ContCapture(m, at) ==
    LET mark == LoadL(m, at["__cont_mark_sp"])
        sp == LoadL(m, mark + 4)
        buf == LoadL(m, at["__cont_arena_ptr"])
        size == sp - m.r[15]
        head == StoreL(StoreL(StoreL(m, buf, m.r[15]), buf + 4, m.r[14]), buf + 8, size)
        body == Copied(StoreL(head, at["__cont_arena_ptr"], buf + 12 + size), m.r[15], buf + 12, size)
    IN  [Switched(body, buf, LoadL(m, mark), sp) EXCEPT !.pc = LoadL(m, mark + 8)]

\* __cont_resume: the captured stack is put back where it was and returned into.
ContResume(m) ==
    LET buf == LoadL(m, m.r[15] + 4)
        sp == LoadL(m, buf)
        back == Copied(m, buf + 12, sp, LoadL(m, buf + 8))
    IN  [Switched(back, LoadL(m, m.r[15] + 8), LoadL(m, buf + 4), sp + 4) EXCEPT !.pc = LoadL(back, sp)]

\* movem of the registers the allocator may use, and a subroutine call.
MovemIn(m, nregs) ==
    LET base == m.r[15] \div 4 - nregs
    IN  [m EXCEPT !.mem = [c \in base .. base + nregs - 1 |-> m.r[2 + c - base]] @@ @, !.r[15] = 4 * base]
MovemOut(m, nregs) ==
    [m EXCEPT !.r = (15 :> m.r[15] + 4 * nregs) @@ [n \in 2 .. 1 + nregs |-> m.mem[m.r[15] \div 4 + n - 2]] @@ @]
Jsr(m, o, code, at) ==
    LET pushed == Dest(m, <<"push">>, m.pc, code, at)
    IN  CASE o = <<"sym", "__cont_capture">> -> ContCapture(pushed, at)
          [] o = <<"sym", "__cont_resume">> -> ContResume(pushed)
          [] o \notin {<<"sym", "__cont_capture">>, <<"sym", "__cont_resume">>} ->
                [pushed EXCEPT !.pc = Address(m, o, code, at)]

\* One instruction; pc is already that of the next.
Execute(m, i, code, at, nregs) ==
    CASE i[1] = "move.l" -> Dest(Popped(m, i[2]), i[3], Source(m, i[2], code, at), code, at)
      [] i[1] = "move.b" /\ i[3][1] = "r" ->
            Reg(m, i[3][2], WithByte(m.r[i[3][2]], LoadB(m, Address(m, i[2], code, at))))
      [] i[1] = "move.b" /\ i[3][1] # "r" -> StoreB(m, Address(m, i[3], code, at), m.r[i[2][2]])
      [] i[1] = "lea" -> Reg(m, i[3][2], Address(m, i[2], code, at))
      [] i[1] \in {"add.l", "sub.l", "muls.l", "divs.l", "and.l", "or.l", "eor.l", "lsl.l", "asr.l"} ->
            Reg(m, i[3][2], Alu(i[1], m.r[i[2][2]], m.r[i[3][2]]))
      [] i[1] = "neg.l" -> Reg(m, i[2][2], Wrap(-m.r[i[2][2]]))
      [] i[1] = "not.l" -> Reg(m, i[2][2], Long - 1 - m.r[i[2][2]])
      [] i[1] = "neg.b" -> LET d == m.r[i[2][2]] IN Reg(m, i[2][2], WithByte(d, LowByte(-d)))
      [] i[1] = "cmp.l" -> [m EXCEPT !.cc = <<Signed(m.r[i[3][2]]), Signed(m.r[i[2][2]])>>]
      [] i[1] = "tst.l" -> [m EXCEPT !.cc = <<Signed(m.r[i[2][2]]), 0>>]
      [] i[1] = "scc" -> LET b == IF Compared(i[2], m.cc[1], m.cc[2]) THEN 2 ^ B - 1 ELSE 0
                         IN  Reg(m, i[3][2], WithByte(m.r[i[3][2]], b))
      [] i[1] = "bra" -> [m EXCEPT !.pc = code[i[2]]]
      [] i[1] = "bne" -> IF m.cc[1] # m.cc[2] THEN [m EXCEPT !.pc = code[i[2]]] ELSE m
      [] i[1] = "link" -> LET p == Dest(m, <<"push">>, m.r[14], code, at)
                          IN  [p EXCEPT !.r[14] = p.r[15], !.r[15] = @ - i[2]]
      [] i[1] = "unlk" -> [m EXCEPT !.r[14] = LoadL(m, m.r[14]), !.r[15] = m.r[14] + 4]
      [] i[1] = "movem in" -> MovemIn(m, nregs)
      [] i[1] = "movem out" -> MovemOut(m, nregs)
      [] i[1] = "rts" -> [m EXCEPT !.pc = LoadL(m, m.r[15]), !.r[15] = @ + 4]
      [] i[1] = "jsr" -> Jsr(m, i[2], code, at)
      [] i[1] = "label" -> m

\* _start calls main; the program is over when main returns, its status in d0.
\* A number of instructions that is a power of two is half of them, twice.
RECURSIVE RunFrom(_, _, _, _, _, _)
RunFrom(m, text, code, at, nregs, log) ==
    IF m.pc = 0 THEN m
    ELSE IF log = 0 THEN Execute([m EXCEPT !.pc = @ + 1], text[m.pc], code, at, nregs)
    ELSE CHOOSE end \in {RunFrom(half, text, code, at, nregs, log - 1) :
                             half \in {RunFrom(m, text, code, at, nregs, log - 1)}} : TRUE

Labels(text) ==
    LET places == {k \in DOMAIN text : text[k][1] = "label"}
    IN  [l \in {text[k][2] : k \in places} |-> CHOOSE k \in places : text[k][2] = l]

Start(text, image) ==
    LET top == 4 * Cells - 16
        arena == Len(image.longs) - ArenaCells + 1
        m == [pc |-> Labels(text)[<<0, "main", 0>>], cc |-> <<0, 0>>,
              r |-> (15 :> top - 4) @@ [n \in 0 .. 15 |-> Junk],
              mem |-> image.longs @@ [c \in 0 .. Cells - 1 |-> Junk]]
    IN  StoreL(StoreL(m, top - 4, 0), image.at["__cont_arena_ptr"], 4 * arena)

Runtime == <<Variable("__cont_mark_sp", 0), Variable("__cont_arena_ptr", 0), Variable("__cont_arena", ArenaCells)>>

\* The exit status of a program, or that it did not end.
RunProgram(text, globals, strs, names, nregs) ==
    LET image == Image(globals \o [k \in 1 .. Len(strs) |-> StringGlobal(names[k], strs[k])] \o Runtime)
        end == RunFrom(Start(text, image), text, Labels(text), image.at, nregs, LogFuel)
    IN  [ended |-> end.pc = 0, status |-> Signed(end.r[0])]
=============================================================================
