------------------------------- MODULE CfEmac --------------------------------
(***************************************************************************)
(* The enhanced multiply-accumulate unit of the ColdFire emulator: two of  *)
(* its accumulators (a pair shares an extension register), MACSR, MASK and *)
(* the data register the instructions move to and from.                    *)
(***************************************************************************)
EXTENDS CfAlu

CONSTANTS Operands,  \* what a program loads into a data register
          Modes,     \* what a program writes into MACSR
          MaxEmac    \* bound on the instructions of a behaviour

VARIABLES acc, macsr, mask, d, ccr, steps,
          did        \* the last step's signed multiply-accumulate and its exact sum
emacVars == <<acc, macsr, mask, d, ccr, steps, did>>

NoMac == [n |-> 2, exact |-> 0]

EmacInit ==
    /\ acc = [n \in {0, 1} |-> 0]
    /\ macsr = {}
    /\ mask = Mod(Long) - 1
    /\ d = 0
    /\ ccr = {}
    /\ steps = 0
    /\ did = NoMac

\* A step of the unit; every instruction but a multiply-accumulate forgets the last one.
Counted == steps < MaxEmac /\ steps' = steps + 1
EmacStep == Counted /\ did' = NoMac

\* Anything that puts a number into the data register.
SetD(v) == EmacStep /\ d' = v /\ UNCHANGED <<acc, macsr, mask, ccr>>

ReadAcc(n) == EmacStep /\ d' = AccLow(acc[n]) /\ UNCHANGED <<acc, macsr, mask, ccr>>

MovClr(n) ==
    /\ EmacStep
    /\ d' = AccLow(acc[n])
    /\ acc' = [acc EXCEPT ![n] = 0]
    /\ macsr' = macsr \ {Pav(n)}
    /\ UNCHANGED <<mask, ccr>>

WriteAcc(n) ==
    /\ EmacStep
    /\ acc' = [acc EXCEPT ![n] = LoadAcc(macsr, d)]
    /\ macsr' = AfterLoad(macsr, n, LoadAcc(macsr, d))
    /\ UNCHANGED <<mask, d, ccr>>

AccExtPair(pair) == (AccExt(pair[1]) * Mod(Word) + AccExt(pair[0])) % Mod(Long)

ReadExt == EmacStep /\ d' = AccExtPair(acc) /\ UNCHANGED <<acc, macsr, mask, ccr>>

SetAccExtPair(pair, val) ==
    [n \in {0, 1} |-> WithExt(pair[n], IF n = 0 THEN SizeMask(val, Word) ELSE val \div Mod(Word))]

WriteExt ==
    /\ EmacStep
    /\ acc' = SetAccExtPair(acc, d)
    /\ UNCHANGED <<macsr, mask, d, ccr>>

WriteMacsr(m) == EmacStep /\ macsr' = m /\ UNCHANGED <<acc, mask, d, ccr>>

WriteMask == EmacStep /\ mask' = d /\ UNCHANGED <<acc, macsr, d, ccr>>

MacsrToCcr == EmacStep /\ ccr' = macsr \cap {"N", "Z", "V"} /\ UNCHANGED <<acc, macsr, mask, d>>

MacStep(n, rx, scale, subtract) ==
    LET r == Mac(macsr, n, acc[n], rx, d, scale, subtract)
        p == CASE scale = "left" -> 2 * Signed(rx, Long) * Signed(d, Long)
               [] scale = "right" -> (Signed(rx, Long) * Signed(d, Long)) \div 2
               [] OTHER -> Signed(rx, Long) * Signed(d, Long)
        sum == IF subtract THEN acc[n] - p ELSE acc[n] + p
    IN /\ Counted
       /\ acc' = [acc EXCEPT ![n] = r.acc]
       /\ macsr' = r.macsr
       /\ did' = IF "SU" \in macsr \/ p # Int64(p) \/ sum # Int64(sum) THEN NoMac
                 ELSE [n |-> n, exact |-> sum]
       /\ UNCHANGED <<mask, d, ccr>>

EmacNext ==
    \/ \E v \in Operands : SetD(v)
    \/ \E n \in {0, 1} : ReadAcc(n) \/ MovClr(n) \/ WriteAcc(n)
    \/ ReadExt
    \/ WriteExt
    \/ \E m \in Modes : WriteMacsr(m)
    \/ WriteMask
    \/ MacsrToCcr
    \/ \E n \in {0, 1}, rx \in Operands, scale \in {"none", "left", "right"}, s \in BOOLEAN :
           MacStep(n, rx, scale, s)

EmacSpec == EmacInit /\ [][EmacNext]_emacVars

-----------------------------------------------------------------------------
InRange(v) == v \in MinAcc .. MaxAcc

\* An accumulator always holds 48 bits.  A signed multiply-accumulate gives the exact
\* sum when it fits, its nearest limit when saturation is on, and otherwise a number
\* congruent to it; only an exact sum out of range marks the accumulator, and the
\* flags describe the number stored.  (What does not fit an int64 is left out: an
\* unsigned product of 2^63, the square of the most negative number scaled left, and
\* the sums next to them come out negative and saturate at the wrong limit.)  Saving an accumulator as its low word and its
\* extension and loading both again restores it whatever mode the load runs in
\* (exec_groupA, acc_ext_pair, set_acc_ext_pair).
EmacExact ==
    /\ \A n \in {0, 1} : InRange(acc[n])
    /\ \A n \in {0, 1}, m \in Modes :
           SetAccExtPair([acc EXCEPT ![n] = LoadAcc(m, AccLow(acc[n]))], AccExtPair(acc)) = acc
    /\ did # NoMac =>
           LET v == acc[did.n]
           IN /\ InRange(did.exact) => v = did.exact
              /\ ~InRange(did.exact) /\ "OMC" \in macsr =>
                     v = IF did.exact > 0 THEN MaxAcc ELSE MinAcc
              /\ ~InRange(did.exact) => Pav(did.n) \in macsr
              /\ "OMC" \notin macsr => (v - did.exact) % 2 ^ (6 * B) = 0
              /\ "V" \in macsr <=> Pav(did.n) \in macsr
              /\ "Z" \in macsr <=> v = 0
              /\ "N" \in macsr <=> v < 0
              /\ "FI" \notin macsr => ("EV" \in macsr <=> v # Signed(AccLow(v), Long))
=============================================================================
