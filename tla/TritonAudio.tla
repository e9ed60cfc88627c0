---------------------------- MODULE TritonAudio ----------------------------
(***************************************************************************)
(* The Triton sound mixer (src/triton-audio/demo/triton_audio.c) and the   *)
(* main loop that drives it (triton.c).  A guest program on the emulated   *)
(* CPU starts notes and reads status registers; the mixer advances every   *)
(* playing channel and records loop and end events in irq_pending; the     *)
(* main loop turns pending events into interrupts between CPU batches.     *)
(*                                                                         *)
(* With Threaded = FALSE the loop is the headless one, which calls the     *)
(* mixer itself between two batches.  With Threaded = TRUE the mixer runs  *)
(* in the audio thread of SDL, and every load and store of the fields both *)
(* threads touch is a step of its own.  Sample values and volumes are left *)
(* out: only the position and the events decide the control flow.          *)
(***************************************************************************)
EXTENDS Integers, FiniteSets

CONSTANTS Channels,   \* 0 .. n - 1 (AUDIO_NUM_CHANNELS = 16)
          High,       \* channels whose bit is in the high byte of a register
          Notes,      \* register settings a guest keys a channel on with
          Unit,       \* one sample of position in FREQUENCY units (256)
          Frames,     \* sample frames in one call of the mixer (735)
          Threaded,   \* the mixer runs in the audio thread
          MaxGuest,   \* bound: guest accesses to the device
          MaxBatches  \* bound: batches of cf_run

VARIABLES chan,        \* triton_audio_chan of each channel
          regs,        \* the channel registers the mixer reads
          gctrl,       \* GLOBAL_CTRL: a subset of {"ENABLE", "IRQ_EN"}
          IRQ_ENABLE, IRQ_STATUS, irq_pending,   \* sets of channels
          main,        \* where the main loop stands
          cpu,         \* [halted, vblank_wait, running]
          mixer,       \* where triton_audio_mix stands, and its locals
          fired,       \* local of triton_audio_check_irq
          guest, batches,        \* used up of MaxGuest and MaxBatches
          unserved, unread       \* ghosts: events without an interrupt, bits not read

devs == <<chan, regs, gctrl, IRQ_ENABLE, IRQ_STATUS, irq_pending>>
audioVars == <<chan, regs, gctrl, IRQ_ENABLE, IRQ_STATUS, irq_pending, main,
               cpu, mixer, fired, guest, batches, unserved, unread>>

Idle == [phase |-> "idle", f |-> 0, c |-> 0, steps |-> 0, held |-> 0,
         flags |-> {}]
Silent == [position |-> 0, frac |-> 0, status |-> {}]
NoNote == [len |-> 0, loop_start |-> 0, loop |-> FALSE, enable |-> FALSE,
           freq |-> 0]

AudioInit ==
    /\ chan = [c \in Channels |-> Silent]
    /\ regs = [c \in Channels |-> NoNote]
    /\ gctrl = {} /\ IRQ_ENABLE = {} /\ IRQ_STATUS = {} /\ irq_pending = {}
    /\ main = "run"
    /\ cpu = [halted |-> FALSE, vblank_wait |-> FALSE, running |-> TRUE]
    /\ mixer = Idle /\ fired = {}
    /\ guest = 0 /\ batches = 0 /\ unserved = {} /\ unread = {}

----------------------------------------------------------------------------
(* The guest, inside cf_run.                                               *)

Runs == main = "run" /\ ~cpu.halted /\ guest < MaxGuest

\* triton_audio_write of the control registers.
WriteGlobal(g, e) ==
    /\ Runs
    /\ gctrl' = g /\ IRQ_ENABLE' = e
    /\ guest' = guest + 1
    /\ UNCHANGED <<chan, regs, IRQ_STATUS, irq_pending, main, cpu, mixer,
                   fired, batches, unserved, unread>>

\* The guest sets a channel up and writes CONTROL with KEY_ON last: the
\* channel restarts and KEY_ON clears itself.
KeyOn(c, note) ==
    /\ Runs
    /\ regs' = [regs EXCEPT ![c] = note]
    /\ chan' = [chan EXCEPT ![c] = [Silent EXCEPT !.status = {"PLAYING"}]]
    /\ guest' = guest + 1
    /\ UNCHANGED <<gctrl, IRQ_ENABLE, IRQ_STATUS, irq_pending, main, cpu, mixer,
                   fired, batches, unserved, unread>>

\* triton_audio_read of STATUS clears the sticky bits.
ReadStatus(c) ==
    /\ Runs
    /\ chan' = [chan EXCEPT ![c].status = @ \cap {"PLAYING"}]
    /\ guest' = guest + 1
    /\ UNCHANGED <<regs, gctrl, IRQ_ENABLE, IRQ_STATUS, irq_pending, main, cpu,
                   mixer, fired, batches, unserved, unread>>

ByteOfRegister == {High, Channels \ High} \ {{}}

\* triton_audio_read of one byte of IRQ_STATUS clears that byte.
ReadIrqStatus(byte) ==
    /\ Runs
    /\ IRQ_STATUS' = IRQ_STATUS \ byte
    /\ unread' = unread \ (byte \cap IRQ_STATUS)
    /\ guest' = guest + 1
    /\ UNCHANGED <<chan, regs, gctrl, IRQ_ENABLE, irq_pending, main, cpu, mixer,
                   fired, batches, unserved>>

\* STOP halts the CPU; grBufferSwap halts it and asks for a vertical blank.
Halt(swap) ==
    /\ Runs
    /\ cpu' = [cpu EXCEPT !.halted = TRUE, !.vblank_wait = swap]
    /\ guest' = guest + 1
    /\ UNCHANGED <<devs, main, mixer, fired, batches, unserved, unread>>

Guest ==
    \/ \E g \in SUBSET {"ENABLE", "IRQ_EN"}, e \in SUBSET Channels :
         WriteGlobal(g, e)
    \/ \E c \in Channels, note \in Notes : KeyOn(c, note)
    \/ \E c \in Channels : ReadStatus(c)
    \/ \E byte \in ByteOfRegister : ReadIrqStatus(byte)
    \/ \E swap \in BOOLEAN : Halt(swap)

----------------------------------------------------------------------------
(* triton_audio_mix and advance_channel, one access to shared state a step. *)

Next1(m) ==
    IF m.c + 1 \in Channels THEN [m EXCEPT !.c = @ + 1, !.phase = "scan"]
    ELSE IF m.f + 1 < Frames
         THEN [m EXCEPT !.c = 0, !.f = @ + 1, !.phase = "scan"]
         ELSE Idle

StartMix == [Idle EXCEPT !.phase = "scan"]

\* A call that finds the mixer disabled only writes silence.
MixSkips == "ENABLE" \notin gctrl

Scan ==
    /\ mixer.phase = "scan"
    /\ LET c == mixer.c
           on == "PLAYING" \in chan[c].status /\ regs[c].enable
           frac == chan[c].frac + regs[c].freq
           m == [mixer EXCEPT !.steps = frac \div Unit, !.phase = "load"]
       IN /\ chan' = IF on THEN [chan EXCEPT ![c].frac = frac % Unit] ELSE chan
          /\ mixer' = IF on /\ m.steps > 0 THEN m ELSE Next1(mixer)
    /\ UNCHANGED <<regs, gctrl, IRQ_ENABLE, IRQ_STATUS, irq_pending, main, cpu,
                   fired, guest, batches, unserved, unread>>

\* ch->position++ and the test against sample_len.
LoadPosition ==
    /\ mixer.phase = "load"
    /\ mixer' = [mixer EXCEPT !.held = chan[mixer.c].position + 1,
                              !.phase = "position"]
    /\ UNCHANGED <<devs, main, cpu, fired, guest, batches, unserved, unread>>

Looping(c) == regs[c].loop

StorePosition ==
    /\ mixer.phase = "position"
    /\ LET c == mixer.c
           r == regs[c]
           hit == r.len > 0 /\ mixer.held >= r.len
           at == IF ~hit THEN mixer.held
                 ELSE IF Looping(c) THEN r.loop_start ELSE r.len
           more == [mixer EXCEPT !.steps = @ - 1, !.phase = "load"]
       IN /\ chan' = [chan EXCEPT ![c].position = at]
          /\ mixer' = IF hit
                      THEN [mixer EXCEPT !.flags = chan[c].status,
                                         !.phase = "status"]
                      ELSE IF more.steps > 0 THEN more ELSE Next1(mixer)
    /\ UNCHANGED <<regs, gctrl, IRQ_ENABLE, IRQ_STATUS, irq_pending, main, cpu,
                   fired, guest, batches, unserved, unread>>

\* ch->status, and the load of au->irq_pending |= (1u << ch_idx).  The event
\* happens here.
StoreStatus ==
    /\ mixer.phase = "status"
    /\ LET c == mixer.c
           s == IF Looping(c) THEN mixer.flags \cup {"LOOP_HIT"}
                ELSE (mixer.flags \ {"PLAYING"}) \cup {"END_HIT"}
       IN chan' = [chan EXCEPT ![c].status = s]
    /\ mixer' = [mixer EXCEPT !.flags = irq_pending, !.phase = "pending"]
    /\ UNCHANGED <<regs, gctrl, IRQ_ENABLE, IRQ_STATUS, irq_pending, main, cpu,
                   fired, guest, batches, unserved, unread>>

\* The value stored by au->irq_pending |= (1u << ch_idx).
PendingWith(c) == mixer.flags \cup {c}

StorePending ==
    /\ mixer.phase = "pending"
    /\ LET c == mixer.c
           more == [mixer EXCEPT !.steps = @ - 1, !.phase = "load",
                                 !.flags = {}]
       IN /\ irq_pending' = PendingWith(c)
          /\ unserved' = unserved \cup {c}
          /\ mixer' = IF Looping(c) /\ more.steps > 0 THEN more
                      ELSE Next1([mixer EXCEPT !.flags = {}])
    /\ UNCHANGED <<chan, regs, gctrl, IRQ_ENABLE, IRQ_STATUS, main, cpu, fired,
                   guest, batches, unread>>

\* The audio thread asks for sound whenever its buffer runs low.
SdlCallback ==
    /\ Threaded /\ cpu.running
    /\ mixer.phase = "idle" /\ ~MixSkips
    /\ mixer' = StartMix
    /\ UNCHANGED <<devs, main, cpu, fired, guest, batches, unserved, unread>>

Mix == Scan \/ LoadPosition \/ StorePosition \/ StoreStatus \/ StorePending

----------------------------------------------------------------------------
(* The main loop.                                                          *)

\* cf_run returns; the headless loop first ends a vertical blank and mixes
\* one frame of sound, the SDL loop goes on to the interrupts.
BatchEnds ==
    /\ main = "run" /\ batches < MaxBatches
    /\ batches' = batches + 1
    /\ main' = IF Threaded THEN "check" ELSE "mixing"
    /\ cpu' = IF ~Threaded /\ cpu.vblank_wait
              THEN [cpu EXCEPT !.vblank_wait = FALSE, !.halted = FALSE]
              ELSE cpu
    /\ mixer' = IF Threaded \/ MixSkips THEN mixer ELSE StartMix
    /\ UNCHANGED <<devs, fired, guest, unserved, unread>>

Mixed ==
    /\ main = "mixing" /\ mixer.phase = "idle"
    /\ main' = "check"
    /\ UNCHANGED <<devs, cpu, mixer, fired, guest, batches, unserved, unread>>

Selected == irq_pending \cap IRQ_ENABLE

\* triton_audio_check_irq up to the load of au->irq_pending &= ~fired.
CheckIrq ==
    /\ main = "check"
    /\ IF "IRQ_EN" \in gctrl /\ Selected # {}
       THEN /\ fired' = Selected
            /\ IRQ_STATUS' = IRQ_STATUS \cup Selected
            /\ unread' = unread \cup Selected
            /\ main' = "mask"
       ELSE /\ main' = "decide"
            /\ UNCHANGED <<fired, IRQ_STATUS, unread>>
    /\ UNCHANGED <<chan, regs, gctrl, IRQ_ENABLE, irq_pending, cpu, mixer,
                   guest, batches, unserved>>

\* The value left in irq_pending by the acknowledgement.
Acknowledged(pending) == pending \ fired

\* The acknowledgement loads irq_pending, clears the fired bits and stores it;
\* held back between the two by fired, which from here on is what remains.
LoadMask ==
    /\ main = "mask"
    /\ fired' = Acknowledged(irq_pending)
    /\ main' = "raise"
    /\ UNCHANGED <<devs, cpu, mixer, guest, batches, unserved, unread>>

\* raise_irq enters the handler, which ends a STOP and finds in IRQ_STATUS
\* every channel it is told about.
Raise ==
    /\ main = "raise"
    /\ irq_pending' = fired /\ fired' = {}
    /\ unserved' = unserved \ IRQ_STATUS
    /\ cpu' = [cpu EXCEPT !.halted = FALSE]
    /\ main' = "decide"
    /\ UNCHANGED <<chan, regs, gctrl, IRQ_ENABLE, IRQ_STATUS, mixer, guest,
                   batches, unread>>

\* The SDL loop shows the frame and resumes a guest that waits for the
\* vertical blank; a guest that is still halted ends the emulation.
Decide ==
    /\ main = "decide"
    /\ cpu' = IF cpu.vblank_wait
              THEN [cpu EXCEPT !.vblank_wait = FALSE, !.halted = FALSE]
              ELSE [cpu EXCEPT !.running = ~cpu.halted]
    /\ main' = IF cpu'.running THEN "run" ELSE "end"
    /\ UNCHANGED <<devs, mixer, fired, guest, batches, unserved, unread>>

Loop == BatchEnds \/ Mixed \/ CheckIrq \/ LoadMask \/ Raise \/ Decide

AudioNext == Guest \/ SdlCallback \/ Mix \/ Loop
AudioSpec == AudioInit /\ [][AudioNext]_audioVars

----------------------------------------------------------------------------
\* Every loop or end of a note that the mixer recorded waits in irq_pending
\* until an interrupt is fired for it, and the interrupt's bit stays in
\* IRQ_STATUS until the guest reads the byte it is in: an event on a channel
\* whose interrupt is disabled, or that comes while another one is being
\* acknowledged, is delivered later and never dropped.
NoEventLost ==
    /\ unserved \subseteq irq_pending \cup
         (IF main \in {"mask", "raise"} THEN IRQ_STATUS ELSE {})
    /\ unread \subseteq IRQ_STATUS

\* The notes of a small instance: one sample, that ends or loops.
ShortNotes == {[len |-> 1, loop_start |-> 0, loop |-> p, enable |-> TRUE, freq |-> 2] : p \in BOOLEAN}
=============================================================================
