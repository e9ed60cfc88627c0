------------------------------ MODULE Compiler ------------------------------
(***************************************************************************)
(* The portable compiler from a syntax tree to an exit status: a TinC or a *)
(* TinScheme program is lowered, its temps are given registers or spill    *)
(* slots, code is emitted, and the code is run (tinc/main.c, scheme/       *)
(* main.c).  The result is held against the meaning of the program.        *)
(***************************************************************************)
EXTENDS Integers, Sequences, FiniteSetsExt, SequencesExt

CONSTANTS B, Cells, ArenaCells, LogFuel,
          Programs,  \* the source programs: [lang, globals, funcs, forms, status]
          RegCounts  \* how many registers the allocator may use

VARIABLES prog, stage, nregs, fns, data, status

vars == <<prog, stage, nregs, fns, data, status>>

C == INSTANCE TincLower
S == INSTANCE SchemeLower
G == INSTANCE CfBackend
R == INSTANCE CfRun
Says == INSTANCE Meaning

Init == /\ prog \in Programs
        /\ nregs \in RegCounts
        /\ stage = "source"
        /\ fns = <<>>
        /\ data = [globals |-> <<>>, strs |-> <<>>]
        /\ status = [ended |-> FALSE, status |-> 0]

SchemeGlobals == LET defs == SelectSeq(prog.forms, LAMBDA e : e[1] = "define")
                 IN  [k \in 1 .. Len(defs) |-> R!Variable(defs[k][2], 0)]

\* lower_program, scm_lower
Lower == /\ stage = "source"
         /\ stage' = "lowered"
         /\ \E ir \in {IF prog.lang = "tinc" THEN C!LowerProgram(prog)
                       ELSE [funcs |-> S!ScmLower(prog), globals |-> SchemeGlobals, strs |-> <<>>]} :
               /\ fns' = ir.funcs
               /\ data' = [globals |-> ir.globals, strs |-> ir.strs]
         /\ UNCHANGED <<prog, nregs, status>>

\* regalloc of every function
AllocateRegs == /\ stage = "lowered"
                /\ stage' = "allocated"
                /\ fns' = [k \in 1 .. Len(fns) |-> G!Allocated(fns[k], nregs)]
                /\ UNCHANGED <<prog, nregs, data, status>>

\* cf_emit, and the program runs.
EmitAndRun == /\ stage = "allocated"
              /\ stage' = "ran"
              /\ \E text \in {G!CfEmit(fns)} :
                    status' = R!RunProgram(text, data.globals, data.strs,
                                           [k \in 1 .. Len(data.strs) |-> C!StrName(k - 1)], nregs)
              /\ UNCHANGED <<prog, nregs, fns, data>>

Next == Lower \/ AllocateRegs \/ EmitAndRun

Spec == Init /\ [][Next]_vars

----------------------------------------------------------------------------
\* Code that the back end does not translate, as the project's README lists it:
\* a comparison whose result and left side are both spilled, a remainder whose
\* result is spilled, ! used as a value, and an argument of a call through a
\* pointer whose register is given away while the pointer is computed.
UnsafeInsn(fn, k) ==
    LET i == fn.code[k]
    IN  \/ i.op \in DOMAIN G!Scc /\ fn.reg[i.dst] < 0 /\ fn.reg[i.a] < 0
        \/ i.op = "MODS" /\ fn.reg[i.dst] < 0
        \/ \E t \in {i.a, i.b} \ {-1} : G!Positions(fn, t) # {} /\ Min(G!Positions(fn, t)) > k
        \/ i.op = "CALLI" /\ k > 1 /\ \E j \in 1 .. k - 1 :
              /\ fn.code[j].op = "ARG"
              /\ \A n \in j .. k - 1 : fn.code[n].op \notin {"CALL", "CALLI"}
              /\ \E n \in j + 1 .. k - 1 : fn.code[n].dst >= 0 /\ fn.reg[fn.code[n].dst] = fn.reg[fn.code[j].a]
Unsafe == \E f \in DOMAIN fns : \E k \in DOMAIN fns[f].code : UnsafeInsn(fns[f], k)

\* Two temps that are alive at once are never in one register or one spill slot.
PlacesApart ==
    \A f \in DOMAIN fns :
        LET fn == fns[f]
            live == {G!Interval(fn, t) : t \in {u \in DOMAIN fn.reg : G!Positions(fn, u) # {}}}
        IN  \A i, j \in live :
                (i.temp < j.temp /\ i.start <= j.end /\ j.start <= i.end) =>
                    \/ fn.reg[i.temp] # fn.reg[j.temp]
                    \/ fn.reg[i.temp] < 0 /\ fn.spill[i.temp] # fn.spill[j.temp]

Expected == IF prog.status # "meaning" THEN prog.value
            ELSE IF prog.lang = "tinc" THEN Says!TincMeans(prog) ELSE Says!SchemeMeans(prog)

\* The allocator keeps values that are alive together apart, whatever the number
\* of registers, and the code of a program, run to its end, returns what the
\* program says: spills, calls, short circuits, loops and captured stacks included.
CompiledExactly == /\ stage = "allocated" => PlacesApart
                   /\ (stage = "ran" /\ ~Unsafe) => status = [ended |-> TRUE, status |-> Expected]
=============================================================================
