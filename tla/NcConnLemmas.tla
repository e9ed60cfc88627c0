---------------------------- MODULE NcConnLemmas ----------------------------
(***************************************************************************)
(* Lemmas about the operators of NcConn, for every number of event slots,  *)
(* control frames, channels and ids: the types of a connection and of a    *)
(* packet, and what queueing a frame, processing the frames of a packet    *)
(* and building a packet may change.                                       *)
(*                                                                         *)
(* parse_frames and the loop over the channels in netchan_send_next are    *)
(* recursive functions.  What they compute is proved by the least          *)
(* counterexample: NatMin gives a least element of any set of naturals.    *)
(***************************************************************************)
EXTENDS NcConnection, NaturalsInduction, WellFoundedInduction, FiniteSetTheorems, TLAPS

\* A set of naturals that is not empty has a least element.
LEMMA NatMin ==
    ASSUME NEW T, T \subseteq Nat, T # {}
    PROVE  \E x \in T : \A y \in T : x <= y
<1>1. PICK x \in T : \A y \in T : ~(<<y, x>> \in OpToRel(<, Nat))
  BY NatLessThanWellFounded, WFMin, Zenon
<1>2. \A y \in T : ~(y < x)
  BY <1>1, ZenonT(30) DEF OpToRel
<1> QED
  BY <1>2

\* Induction over the naturals for a set.
LEMMA NatSetInduction ==
    ASSUME NEW S, 0 \in S, \A n \in Nat : n \in S => n + 1 \in S
    PROVE  \A n \in Nat : n \in S
<1> DEFINE T == Nat \ S
<1> SUFFICES ASSUME T # {} PROVE FALSE
  OBVIOUS
<1>1. PICK k \in T : \A y \in T : k <= y
  BY NatMin, ZenonT(30)
<1>2. k # 0 /\ k - 1 \in Nat
  BY <1>1
<1>3. k - 1 \in S
  BY <1>1, <1>2
<1> QED
  BY <1>1, <1>2, <1>3

-----------------------------------------------------------------------------
(* Types. *)

FrameTypes == {"init", "accept", "redirect", "disc", "ping", "pong", "open", "close",
               "data", "win"}
Frames == [f : FrameTypes, v : Nat]
EventNames == {"CONNECTED", "DISCONNECTED", "REDIRECT", "CHAN_OPEN", "CHAN_CLOSE", "DATA"}
Channels == [id : Nat, role : {"send", "recv"},
             state : {"opening", "open", "closing", "closed"}, out : Nat]
Times == 0 .. ClockMod - 1
Conns == [server : BOOLEAN, state : States, local_id : Nat, remote_id : Nat, peer : Nat,
          next_chan_id : Nat, chans : SUBSET Channels, ctrl : Seq(Frames),
          events : Seq(EventNames), attempts : Nat, connect_sent : Times,
          last_recv : Times, last_send : Times, ping_sent : Times, ping_opaque : Nat]
Packets == [init : BOOLEAN, id : Nat, from : Nat, to : Nat, frames : Seq(Frames)]

\* The channel table: bounded, one entry for an id.
Table(c) ==
    /\ IsFiniteSet(c.chans) /\ Cardinality(c.chans) <= MaxChan
    /\ \A a, b \in c.chans : a.id = b.id => a = b

\* A frame of type f with argument v is among the frames.
Has(frames, f, v) == \E i \in DOMAIN frames : frames[i].f = f /\ frames[i].v = v

\* The control frames are answers: none of them opens or accepts anything.
Quiet(c) == \A i \in DOMAIN c.ctrl : c.ctrl[i].f \notin {"open", "accept"}

-----------------------------------------------------------------------------
(* What the helpers of NcConn do to a connection. *)

LEMMA PushFacts ==
    ASSUME NEW c \in Conns, NEW e \in EventNames
    PROVE  /\ Push(c, e) \in Conns
           /\ Push(c, e) = [c EXCEPT !.events = Push(c, e).events]
<1>1. CASE Push(c, e) = c
  BY <1>1 DEF Conns
<1>2. CASE Push(c, e) = [c EXCEPT !.events = Append(@, e)]
  <2>1. c.events \in Seq(EventNames)
    BY DEF Conns
  <2>2. Append(c.events, e) \in Seq(EventNames)
    BY <2>1
  <2> QED  BY <1>2, <2>2, ZenonT(30) DEF Conns
<1> QED
  BY <1>1, <1>2 DEF Push

LEMMA QueueFacts ==
    ASSUME NEW c \in Conns, NEW f \in FrameTypes, NEW v \in Nat
    PROVE  /\ Queue(c, f, v) \in Conns
           /\ Queue(c, f, v) = [c EXCEPT !.ctrl = Queue(c, f, v).ctrl]
           /\ Queue(c, f, v).ctrl \in {c.ctrl, Append(c.ctrl, Frame(f, v))}
<1>1. CASE Queue(c, f, v) = c
  BY <1>1 DEF Conns
<1>2. CASE Queue(c, f, v) = [c EXCEPT !.ctrl = Append(@, Frame(f, v))]
  <2>1. c.ctrl \in Seq(Frames) /\ Frame(f, v) \in Frames
    BY DEF Conns, Frame, Frames
  <2>2. Append(c.ctrl, Frame(f, v)) \in Seq(Frames)
    BY <2>1
  <2> QED  BY <1>2, <2>2, ZenonT(30) DEF Conns
<1> QED
  BY <1>1, <1>2 DEF Queue

\* A frame queued behind others: what is among them afterwards.
LEMMA AppendHas ==
    ASSUME NEW s \in Seq(Frames), NEW f \in FrameTypes, NEW v \in Nat
    PROVE  \A g, w : Has(Append(s, Frame(f, v)), g, w) <=> Has(s, g, w) \/ (g = f /\ w = v)
<1>1. /\ DOMAIN s = 1 .. Len(s) /\ Len(s) \in Nat
      /\ DOMAIN Append(s, Frame(f, v)) = 1 .. Len(s) + 1
      /\ \A i \in 1 .. Len(s) : Append(s, Frame(f, v))[i] = s[i]
      /\ Append(s, Frame(f, v))[Len(s) + 1] = Frame(f, v)
  BY DEF Frame, Frames
<1>2. Frame(f, v).f = f /\ Frame(f, v).v = v
  BY DEF Frame
<1> HIDE DEF Frame
<1>3. \A i : i \in 1 .. Len(s) + 1 <=> i \in 1 .. Len(s) \/ i = Len(s) + 1
  BY <1>1
<1> QED
  BY <1>1, <1>2, <1>3 DEF Has

LEMMA ChanFacts ==
    ASSUME NEW c \in Conns, NEW id, Known(c, id)
    PROVE  Chan(c, id) \in c.chans /\ Chan(c, id) \in Channels /\ Chan(c, id).id = id
<1>1. Chan(c, id) \in c.chans /\ Chan(c, id).id = id
  BY DEF Known, Chan
<1> QED
  BY <1>1 DEF Conns

\* An entry is replaced by one with its id, or a new one is added where there is room.
LEMMA UpdateFacts ==
    ASSUME NEW c \in Conns, Table(c), NEW ch \in Channels,
           Known(c, ch.id) \/ Room(c)
    PROVE  /\ Update(c, ch) \in Conns
           /\ Update(c, ch) = [c EXCEPT !.chans = Update(c, ch).chans]
           /\ Table(Update(c, ch))
           /\ \A v : Known(Update(c, ch), v) <=> Known(c, v) \/ v = ch.id
<1> DEFINE rest == {x \in c.chans : x.id # ch.id}
           new  == rest \union {ch}
<1>1. new \in SUBSET Channels
  BY DEF Conns
<1>2. Update(c, ch) = [c EXCEPT !.chans = new]
  BY DEF Update
<1>3. Update(c, ch) \in Conns /\ Update(c, ch).chans = new
  BY <1>1, <1>2, SMTT(30) DEF Conns
<1>4. IsFiniteSet(rest) /\ Cardinality(rest) <= Cardinality(c.chans) /\ ch \notin rest
  BY FS_Subset DEF Table
<1>5. IsFiniteSet(new) /\ Cardinality(new) = Cardinality(rest) + 1
  BY <1>4, FS_AddElement, ZenonT(30)
<1>6. Cardinality(c.chans) \in Nat /\ Cardinality(rest) \in Nat
  BY <1>4, FS_CardinalityType DEF Table
<1>7. Cardinality(new) <= MaxChan
  <2>1. CASE Known(c, ch.id)
    <3>1. PICK old \in c.chans : old.id = ch.id
      BY <2>1 DEF Known
    <3>2. rest \subseteq c.chans \ {old}
      BY <3>1
    <3>3. /\ IsFiniteSet(c.chans \ {old})
          /\ Cardinality(c.chans \ {old}) = Cardinality(c.chans) - 1
      BY <3>1, FS_RemoveElement, ZenonT(30) DEF Table
    <3>4. Cardinality(rest) <= Cardinality(c.chans) - 1
      BY <3>2, <3>3, FS_Subset
    <3> QED
      BY <3>4, <1>5, <1>6, ConnSizes DEF Table
  <2>2. CASE Room(c)
    BY <2>2, <1>4, <1>5, <1>6, ConnSizes DEF Room
  <2> QED
    BY <2>1, <2>2
<1>8. \A a, b \in new : a.id = b.id => a = b
  BY DEF Table
<1> QED
  BY <1>2, <1>3, <1>5, <1>7, <1>8 DEF Table, Known

-----------------------------------------------------------------------------
(* Received frames. *)

\* What the frames of a packet may do to a connection: a client keeps its id and
\* is connected only by an ACCEPT, channels are only added, and only by an OPEN,
\* and the frames queued in reply neither open nor accept.
Evolves(c, d, frames) ==
    /\ d \in Conns /\ Table(d)
    /\ d.server = c.server /\ d.next_chan_id = c.next_chan_id /\ d.peer = c.peer
    /\ c.server \/ d.local_id = c.local_id
    /\ \A v : Known(c, v) => Known(d, v)
    /\ \A v : Known(d, v) => Known(c, v) \/ Has(frames, "open", v)
    /\ Quiet(c) => Quiet(d)
    /\ ~c.server /\ d.state = "CONNECTED"
        => \/ c.state = "CONNECTED" /\ d.remote_id = c.remote_id
           \/ Has(frames, "accept", d.remote_id)

\* An answer queued or an event raised changes none of that.
LEMMA QueueEvolves ==
    ASSUME NEW c \in Conns, Table(c), NEW f \in FrameTypes \ {"open", "accept"}, NEW v \in Nat,
           NEW frames
    PROVE  Evolves(c, Queue(c, f, v), frames)
<1> DEFINE d == Queue(c, f, v)
<1>1. d \in Conns /\ d = [c EXCEPT !.ctrl = d.ctrl] /\ d.ctrl \in {c.ctrl, Append(c.ctrl, Frame(f, v))}
  BY QueueFacts
<1> HIDE DEF d
<1>2. /\ d.server = c.server /\ d.next_chan_id = c.next_chan_id /\ d.peer = c.peer
      /\ d.local_id = c.local_id /\ d.remote_id = c.remote_id /\ d.chans = c.chans
      /\ d.state = c.state
  BY <1>1, ZenonT(30) DEF Conns
<1>3. Quiet(c) => Quiet(d)
  <2>1. CASE d.ctrl = c.ctrl
    BY <2>1 DEF Quiet
  <2>2. CASE d.ctrl = Append(c.ctrl, Frame(f, v))
    <3>1. c.ctrl \in Seq(Frames)
      BY DEF Conns
    <3>2. \A i \in DOMAIN d.ctrl : (i \in DOMAIN c.ctrl /\ d.ctrl[i] = c.ctrl[i]) \/ d.ctrl[i] = Frame(f, v)
      BY <2>2, <3>1
    <3> QED
      BY <3>2 DEF Quiet, Frame
  <2> QED
    BY <1>1, <2>1, <2>2
<1>4. Table(d) /\ \A v_1 : Known(d, v_1) <=> Known(c, v_1)
  BY <1>2 DEF Table, Known
<1> QED
  BY <1>1, <1>2, <1>3, <1>4 DEF Evolves, d

LEMMA PushEvolves ==
    ASSUME NEW c \in Conns, Table(c), NEW e \in EventNames, NEW frames
    PROVE  Evolves(c, Push(c, e), frames)
<1> DEFINE d == Push(c, e)
<1>1. d \in Conns /\ d = [c EXCEPT !.events = d.events]
  BY PushFacts
<1> HIDE DEF d
<1>2. /\ d.server = c.server /\ d.next_chan_id = c.next_chan_id /\ d.peer = c.peer
      /\ d.local_id = c.local_id /\ d.remote_id = c.remote_id /\ d.chans = c.chans
      /\ d.state = c.state /\ d.ctrl = c.ctrl
  BY <1>1, SMTT(30) DEF Conns
<1>3. Table(d) /\ \A v : Known(d, v) <=> Known(c, v)
  BY <1>2 DEF Table, Known
<1> QED
  BY <1>1, <1>2, <1>3 DEF Evolves, Quiet, d

\* An entry of the table replaced, or added by an OPEN.
LEMMA UpdateEvolves ==
    ASSUME NEW c \in Conns, Table(c), NEW ch \in Channels, NEW frames,
           Known(c, ch.id) \/ (Room(c) /\ Has(frames, "open", ch.id))
    PROVE  Evolves(c, Update(c, ch), frames)
<1> DEFINE d == Update(c, ch)
<1>1. /\ d \in Conns /\ d = [c EXCEPT !.chans = d.chans] /\ Table(d)
      /\ \A v : Known(d, v) <=> Known(c, v) \/ v = ch.id
  BY UpdateFacts
<1> HIDE DEF d
<1>2. /\ d.server = c.server /\ d.next_chan_id = c.next_chan_id /\ d.peer = c.peer
      /\ d.local_id = c.local_id /\ d.remote_id = c.remote_id
      /\ d.state = c.state /\ d.ctrl = c.ctrl
  BY <1>1, SMTT(30) DEF Conns
<1> QED
  BY <1>1, <1>2 DEF Evolves, Quiet, d

LEMMA EvolvesTransitive ==
    ASSUME NEW c, NEW d, NEW e, NEW frames, Evolves(c, d, frames), Evolves(d, e, frames)
    PROVE  Evolves(c, e, frames)
  BY DEF Evolves

\* One frame of a packet.
LEMMA ProcessEvolves ==
    ASSUME NEW c \in Conns, Table(c), NEW frames \in Seq(Frames), NEW n \in DOMAIN frames,
           NEW fresh \in Nat
    PROVE  /\ Evolves(c, ProcessFrame(c, frames[n], fresh).c, frames)
           /\ ProcessFrame(c, frames[n], fresh).ok \in BOOLEAN
<1> DEFINE fr == frames[n]
           Good(r) == Evolves(c, r.c, frames) /\ r.ok \in BOOLEAN
<1>1. fr \in Frames
  OBVIOUS
<1>2. fr.f \in FrameTypes /\ fr.v \in Nat
  BY <1>1 DEF Frames
<1>3. Has(frames, fr.f, fr.v)
  BY DEF Has
<1> SUFFICES Good(ProcessFrame(c, fr, fresh))
  OBVIOUS
<1> HIDE DEF fr
<1>same. Evolves(c, c, frames)
  BY DEF Evolves
<1>ok. \A d : Ok(d).c = d /\ Ok(d).ok \in BOOLEAN /\ Proto(d).c = d /\ Proto(d).ok \in BOOLEAN
  BY DEF Ok, Proto
<1>init. CASE fr.f = "init"
  <2>1. ProcessFrame(c, fr, fresh) = ConnectInit(c, fr.v, fresh)
    BY <1>init DEF ProcessFrame
  <2>2. CASE ~c.server
    BY <2>1, <2>2, <1>same, <1>ok DEF ConnectInit
  <2>3. CASE c.server /\ c.state = "NEW"
    <3> DEFINE d == [c EXCEPT !.remote_id = fr.v, !.local_id = fresh, !.state = "CONNECTING"]
    <3>1. /\ d \in Conns /\ d.chans = c.chans /\ d.ctrl = c.ctrl /\ d.server = c.server
          /\ d.next_chan_id = c.next_chan_id /\ d.peer = c.peer
      BY <1>2, ZenonT(30) DEF Conns, States
    <3>2. ProcessFrame(c, fr, fresh) = Ok(d)
      BY <2>1, <2>3 DEF ConnectInit
    <3> HIDE DEF d
    <3>3. Evolves(c, d, frames)
      BY <3>1, <2>3 DEF Evolves, Table, Known, Quiet
    <3> QED  BY <3>2, <3>3, <1>ok
  <2>4. CASE c.server /\ c.state # "NEW"
    <3> DEFINE d == [c EXCEPT !.remote_id = fr.v]
    <3>1. /\ d \in Conns /\ d.chans = c.chans /\ d.ctrl = c.ctrl /\ d.server = c.server
          /\ d.next_chan_id = c.next_chan_id /\ d.peer = c.peer
      BY <1>2, ZenonT(30) DEF Conns
    <3>2. ProcessFrame(c, fr, fresh) = Ok(d)
      BY <2>1, <2>4 DEF ConnectInit
    <3> HIDE DEF d
    <3>3. Evolves(c, d, frames)
      BY <3>1, <2>4 DEF Evolves, Table, Known, Quiet
    <3> QED  BY <3>2, <3>3, <1>ok
  <2> QED  BY <2>2, <2>3, <2>4
<1>accept. CASE fr.f = "accept"
  <2>1. ProcessFrame(c, fr, fresh) = ConnectAccept(c, fr.v)
    BY <1>accept DEF ProcessFrame
  <2>2. CASE c.server
    BY <2>1, <2>2, <1>same, <1>ok DEF ConnectAccept
  <2>3. CASE ~c.server
    <3> DEFINE d == [c EXCEPT !.remote_id = fr.v, !.state = "CONNECTED"]
    <3>1. /\ d \in Conns /\ d.chans = c.chans /\ d.ctrl = c.ctrl /\ d.server = c.server
          /\ d.next_chan_id = c.next_chan_id /\ d.peer = c.peer /\ d.local_id = c.local_id
          /\ d.remote_id = fr.v
      BY <1>2, ZenonT(30) DEF Conns, States
    <3>2. ProcessFrame(c, fr, fresh) = Ok(Push(d, "CONNECTED"))
      BY <2>1, <2>3 DEF ConnectAccept
    <3> HIDE DEF d
    <3>3. Evolves(c, d, frames)
      BY <3>1, <2>3, <1>3, <1>accept, SMTT(30) DEF Evolves, Table, Known, Quiet
    <3>4. Evolves(d, Push(d, "CONNECTED"), frames)
      BY <3>1, <3>3, PushEvolves, SMTT(30) DEF Evolves, EventNames
    <3> QED  BY <3>2, <3>3, <3>4, EvolvesTransitive, <1>ok
  <2> QED  BY <2>2, <2>3
<1>redirect. CASE fr.f = "redirect"
  <2>1. ProcessFrame(c, fr, fresh) = Ok(Push(c, "REDIRECT"))
    BY <1>redirect DEF ProcessFrame, ConnectRedirect
  <2> QED  BY <2>1, PushEvolves, <1>ok DEF EventNames
<1>disc. CASE fr.f = "disc"
  <2> DEFINE d == [c EXCEPT !.state = "CLOSED"]
  <2>1. ProcessFrame(c, fr, fresh) = Ok(Push(d, "DISCONNECTED"))
    BY <1>disc DEF ProcessFrame, Disconnect
  <2>2. /\ d \in Conns /\ d.chans = c.chans /\ d.ctrl = c.ctrl /\ d.server = c.server
        /\ d.next_chan_id = c.next_chan_id /\ d.peer = c.peer /\ d.local_id = c.local_id
        /\ d.state = "CLOSED"
    BY ZenonT(30) DEF Conns, States
  <2> HIDE DEF d
  <2>3. Evolves(c, d, frames)
    BY <2>2 DEF Evolves, Table, Known, Quiet
  <2>4. Evolves(d, Push(d, "DISCONNECTED"), frames)
    BY <2>2, <2>3, PushEvolves, ZenonT(30) DEF Evolves, EventNames
  <2> QED  BY <2>1, <2>3, <2>4, EvolvesTransitive, <1>ok
<1>ping. CASE fr.f = "ping"
  <2>1. ProcessFrame(c, fr, fresh) = Ok(Queue(c, "pong", fr.v))
    BY <1>ping DEF ProcessFrame, Ping
  <2> QED  BY <2>1, <1>2, QueueEvolves, <1>ok DEF FrameTypes
<1>pong. CASE fr.f = "pong"
  <2>1. PICK d : /\ ProcessFrame(c, fr, fresh) = Ok(d)
                 /\ d \in {c, [c EXCEPT !.ping_sent = 0]}
    BY <1>pong DEF ProcessFrame, Pong
  <2>2. /\ d \in Conns /\ d.chans = c.chans /\ d.ctrl = c.ctrl /\ d.server = c.server
        /\ d.next_chan_id = c.next_chan_id /\ d.peer = c.peer /\ d.local_id = c.local_id
        /\ d.state = c.state /\ d.remote_id = c.remote_id
    <3>1. 0 \in Times
      BY ClockAssumption DEF Times
    <3>2. CASE d = c
      BY <3>2
    <3>3. CASE d = [c EXCEPT !.ping_sent = 0]
      BY <3>1, <3>3, ZenonT(30) DEF Conns
    <3> QED  BY <2>1, <3>2, <3>3
  <2>3. Evolves(c, d, frames)
    BY <2>2 DEF Evolves, Table, Known, Quiet
  <2> QED  BY <2>1, <2>3, <1>ok
<1>open. CASE fr.f = "open"
  <2>1. ProcessFrame(c, fr, fresh) = ChannelOpen(c, fr.v)
    BY <1>open DEF ProcessFrame
  <2>2. CASE Known(c, fr.v) \/ ~Room(c)
    <3>1. ProcessFrame(c, fr, fresh) = Ok(Queue(c, "close", fr.v))
      BY <2>1, <2>2 DEF ChannelOpen
    <3> QED  BY <3>1, <1>2, QueueEvolves, <1>ok DEF FrameTypes
  <2>3. CASE ~Known(c, fr.v) /\ Room(c)
    <3> DEFINE ch == NewChan(fr.v, "recv", "open")
               d  == Update(c, ch)
               u  == Queue(d, "win", fr.v)
    <3>1. ch \in Channels /\ ch.id = fr.v
      BY <1>2 DEF NewChan, Channels
    <3>2. ProcessFrame(c, fr, fresh) = Ok(Push(u, "CHAN_OPEN"))
      BY <2>1, <2>3, SMTT(30) DEF ChannelOpen
    <3> HIDE DEF ch
    <3>3. Evolves(c, d, frames)
      BY <3>1, <2>3, <1>3, <1>open, UpdateEvolves
    <3> HIDE DEF d
    <3>4. Evolves(d, u, frames)
      BY <3>3, <1>2, QueueEvolves, ZenonT(30) DEF Evolves, FrameTypes
    <3> HIDE DEF u
    <3>5. Evolves(u, Push(u, "CHAN_OPEN"), frames)
      BY <3>4, PushEvolves DEF Evolves, EventNames
    <3> QED  BY <3>2, <3>3, <3>4, <3>5, EvolvesTransitive, <1>ok, SMTT(30)
  <2> QED  BY <2>2, <2>3
<1>close. CASE fr.f = "close"
  <2>1. ProcessFrame(c, fr, fresh) = ChannelClose(c, fr.v)
    BY <1>close DEF ProcessFrame
  <2>2. CASE ~Known(c, fr.v)
    BY <2>1, <2>2, <1>same, <1>ok, SMTT(30) DEF ChannelClose
  <2>3. CASE Known(c, fr.v)
    <3> DEFINE ch == [Chan(c, fr.v) EXCEPT !.state = "closed"]
               d  == Update(c, ch)
    <3>1. ch \in Channels /\ ch.id = fr.v
      BY <2>3, ChanFacts, SMTT(30) DEF Channels
    <3>2. ProcessFrame(c, fr, fresh) = Ok(Push(d, "CHAN_CLOSE"))
      BY <2>1, <2>3 DEF ChannelClose
    <3> HIDE DEF ch
    <3>3. Evolves(c, d, frames)
      BY <3>1, <2>3, UpdateEvolves
    <3> HIDE DEF d
    <3>4. Evolves(d, Push(d, "CHAN_CLOSE"), frames)
      BY <3>3, PushEvolves, ZenonT(30) DEF Evolves, EventNames
    <3> QED  BY <3>2, <3>3, <3>4, EvolvesTransitive, <1>ok
  <2> QED  BY <2>2, <2>3
<1>data. CASE fr.f = "data"
  <2>1. PICK d \in {c, Push(c, "DATA")} : ProcessFrame(c, fr, fresh) = Ok(d)
    BY <1>data DEF ProcessFrame, Data
  <2> QED  BY <2>1, <1>same, PushEvolves, <1>ok DEF EventNames
<1>win. CASE fr.f = "win"
  <2>1. ProcessFrame(c, fr, fresh) = WindowUpdate(c, fr.v)
    BY <1>win DEF ProcessFrame
  <2>2. CASE ProcessFrame(c, fr, fresh) = Ok(c)
    BY <2>2, <1>same, <1>ok
  <2>3. CASE ProcessFrame(c, fr, fresh) # Ok(c)
    <3> DEFINE ch == [Chan(c, fr.v) EXCEPT !.state = "open"]
    <3>1. Known(c, fr.v) /\ ProcessFrame(c, fr, fresh) = Ok(Update(c, ch))
      BY <2>1, <2>3 DEF WindowUpdate
    <3>2. ch \in Channels /\ ch.id = fr.v
      BY <3>1, ChanFacts DEF Channels
    <3> HIDE DEF ch
    <3>3. Evolves(c, Update(c, ch), frames)
      BY <3>1, <3>2, UpdateEvolves
    <3> QED  BY <3>1, <3>3, <1>ok
  <2> QED  BY <2>2, <2>3
<1> QED
  BY <1>2, <1>init, <1>accept, <1>redirect, <1>disc, <1>ping, <1>pong, <1>open, <1>close,
     <1>data, <1>win DEF FrameTypes

\* r holds the results of the first k frames, one after the other.
ParseRun(r, k, c, frames, fresh) ==
    r = [n \in 0 .. k |-> IF n = 0 THEN Ok(c) ELSE ParseNext(r[n - 1], frames[n], fresh)]

LEMMA ParseRunExists ==
    ASSUME NEW c, NEW frames, NEW fresh
    PROVE  \A k \in Nat : \E r : ParseRun(r, k, c, frames, fresh)
<1> DEFINE S == {k \in Nat : \E r : ParseRun(r, k, c, frames, fresh)}
<1>1. 0 \in S
  <2> DEFINE g == [n \in 0 .. 0 |-> Ok(c)]
  <2>1. g = [n \in 0 .. 0 |-> IF n = 0 THEN Ok(c) ELSE ParseNext(g[n - 1], frames[n], fresh)]
    OBVIOUS
  <2> HIDE DEF g
  <2>2. ParseRun(g, 0, c, frames, fresh)
    BY <2>1 DEF ParseRun
  <2> QED
    BY <2>2
<1>2. ASSUME NEW k \in Nat, k \in S
      PROVE  k + 1 \in S
  <2>1. PICK g : ParseRun(g, k, c, frames, fresh)
    BY <1>2
  <2> DEFINE h == [n \in 0 .. k + 1 |->
                     IF n = k + 1 THEN ParseNext(g[k], frames[k + 1], fresh) ELSE g[n]]
  <2>2. h = [n \in 0 .. k + 1 |-> IF n = 0 THEN Ok(c) ELSE ParseNext(h[n - 1], frames[n], fresh)]
    <3> SUFFICES ASSUME NEW n \in 0 .. k + 1
                 PROVE  h[n] = IF n = 0 THEN Ok(c) ELSE ParseNext(h[n - 1], frames[n], fresh)
      OBVIOUS
    <3>1. CASE n = k + 1
      <4>1. n # 0 /\ n - 1 = k /\ h[n] = ParseNext(g[k], frames[k + 1], fresh) /\ h[k] = g[k]
        BY <3>1
      <4> QED  BY <4>1, <3>1
    <3>2. CASE n # k + 1
      <4>1. n \in 0 .. k /\ h[n] = g[n]
        BY <3>2
      <4>2. g[n] = IF n = 0 THEN Ok(c) ELSE ParseNext(g[n - 1], frames[n], fresh)
        BY <2>1, <4>1 DEF ParseRun
      <4>3. n # 0 => h[n - 1] = g[n - 1]
        BY <4>1
      <4> QED  BY <4>1, <4>2, <4>3
    <3> QED  BY <3>1, <3>2
  <2> HIDE DEF h
  <2>3. ParseRun(h, k + 1, c, frames, fresh)
    BY <2>2 DEF ParseRun
  <2> QED
    BY <2>3
<1> HIDE DEF S
<1>3. \A k \in Nat : k \in S
  BY <1>1, <1>2, NatSetInduction
<1> QED
  BY <1>3 DEF S

\* parse_frames returns the connection after the last frame.
LEMMA ParseFramesRun ==
    ASSUME NEW c, NEW frames \in Seq(Frames), NEW fresh
    PROVE  \E r : /\ ParseRun(r, Len(frames), c, frames, fresh)
                  /\ ParseFrames(c, frames, fresh) = r[Len(frames)].c
<1> DEFINE h == CHOOSE r : ParseRun(r, Len(frames), c, frames, fresh)
<1>1. ParseRun(h, Len(frames), c, frames, fresh)
  BY ParseRunExists
<1>2. ParseFrames(c, frames, fresh) = h[Len(frames)].c
  BY Zenon DEF ParseFrames, ParseRun
<1> QED
  BY <1>1, <1>2, ZenonT(30)

\* A whole packet.
LEMMA ParseEvolves ==
    ASSUME NEW c \in Conns, Table(c), NEW frames \in Seq(Frames), NEW fresh \in Nat
    PROVE  Evolves(c, ParseFrames(c, frames, fresh), frames)
<1>1. PICK r : /\ ParseRun(r, Len(frames), c, frames, fresh)
               /\ ParseFrames(c, frames, fresh) = r[Len(frames)].c
  BY ParseFramesRun
<1>2. Len(frames) \in Nat
  OBVIOUS
<1> DEFINE S == {n \in Nat : n <= Len(frames) => Evolves(c, r[n].c, frames)}
<1>3. 0 \in S
  <2>1. r[0] = Ok(c)
    BY <1>1, <1>2 DEF ParseRun
  <2> QED
    BY <2>1 DEF Evolves, Ok
<1>4. ASSUME NEW n \in Nat, n \in S
      PROVE  n + 1 \in S
  <2> SUFFICES ASSUME n + 1 <= Len(frames)
               PROVE  Evolves(c, r[n + 1].c, frames)
    OBVIOUS
  <2>1. Evolves(c, r[n].c, frames)
    BY <1>2, <1>4
  <2>2. r[n + 1] = ParseNext(r[n], frames[n + 1], fresh)
    BY <1>1, <1>2 DEF ParseRun
  <2>3. CASE r[n].ok
    <3>1. r[n + 1] = ProcessFrame(r[n].c, frames[n + 1], fresh)
      BY <2>2, <2>3, SMTT(30) DEF ParseNext
    <3>2. n + 1 \in DOMAIN frames /\ r[n].c \in Conns /\ Table(r[n].c)
      BY <1>2, <2>1, SMTT(30) DEF Evolves
    <3>3. Evolves(r[n].c, r[n + 1].c, frames)
      BY <3>1, <3>2, ProcessEvolves
    <3> QED
      BY <2>1, <3>3, EvolvesTransitive
  <2>4. CASE ~r[n].ok
    BY <2>1, <2>2, <2>4 DEF ParseNext
  <2> QED
    BY <2>3, <2>4
<1>5. Len(frames) \in S
  <2> HIDE DEF S
  <2> QED  BY <1>2, <1>3, <1>4, NatSetInduction
<1> QED
  BY <1>1, <1>2, <1>5

-----------------------------------------------------------------------------
(* Sent packets. *)

DataOnly == [f : {"data"}, v : Nat]

\* q holds what the channels with the first k ids add to a packet.
DataNext(c, q, n) ==
    IF \E ch \in Sendable(c) : ch.id = n - 1 THEN Append(q, Frame("data", n - 1)) ELSE q
DataRun(q, k, c) == q = [n \in 0 .. k |-> IF n = 0 THEN <<>> ELSE DataNext(c, q[n - 1], n)]

LEMMA DataRunExists ==
    ASSUME NEW c
    PROVE  \A k \in Nat : \E q : DataRun(q, k, c)
<1> DEFINE S == {k \in Nat : \E q : DataRun(q, k, c)}
<1>1. 0 \in S
  <2> DEFINE g == [n \in 0 .. 0 |-> <<>>]
  <2>1. g = [n \in 0 .. 0 |-> IF n = 0 THEN <<>> ELSE DataNext(c, g[n - 1], n)]
    OBVIOUS
  <2> HIDE DEF g
  <2>2. DataRun(g, 0, c)
    BY <2>1 DEF DataRun
  <2> QED
    BY <2>2
<1>2. ASSUME NEW k \in Nat, k \in S
      PROVE  k + 1 \in S
  <2>1. PICK g : DataRun(g, k, c)
    BY <1>2
  <2> DEFINE h == [n \in 0 .. k + 1 |-> IF n = k + 1 THEN DataNext(c, g[k], k + 1) ELSE g[n]]
  <2>2. h = [n \in 0 .. k + 1 |-> IF n = 0 THEN <<>> ELSE DataNext(c, h[n - 1], n)]
    <3> SUFFICES ASSUME NEW n \in 0 .. k + 1
                 PROVE  h[n] = IF n = 0 THEN <<>> ELSE DataNext(c, h[n - 1], n)
      OBVIOUS
    <3>1. CASE n = k + 1
      <4>1. n # 0 /\ n - 1 = k /\ h[n] = DataNext(c, g[k], k + 1) /\ h[k] = g[k]
        BY <3>1
      <4> QED  BY <4>1, <3>1
    <3>2. CASE n # k + 1
      <4>1. n \in 0 .. k /\ h[n] = g[n]
        BY <3>2
      <4>2. g[n] = IF n = 0 THEN <<>> ELSE DataNext(c, g[n - 1], n)
        BY <2>1, <4>1 DEF DataRun
      <4>3. n # 0 => h[n - 1] = g[n - 1]
        BY <4>1
      <4> QED  BY <4>1, <4>2, <4>3
    <3> QED  BY <3>1, <3>2
  <2> HIDE DEF h
  <2>3. DataRun(h, k + 1, c)
    BY <2>2 DEF DataRun
  <2> QED
    BY <2>3
<1> HIDE DEF S
<1>3. \A k \in Nat : k \in S
  BY <1>1, <1>2, NatSetInduction
<1> QED
  BY <1>3 DEF S

\* The loop over the channels adds DATA frames and nothing else.
LEMMA DataFramesType ==
    ASSUME NEW c
    PROVE  DataFrames(c) \in Seq(DataOnly)
<1> DEFINE h == CHOOSE q : DataRun(q, IdSpace, c)
<1>0. IdSpace \in Nat
  BY ConnSizes
<1>1. DataRun(h, IdSpace, c)
  BY <1>0, DataRunExists
<1>2. DataFrames(c) = h[IdSpace]
  BY Zenon DEF DataFrames, DataRun, DataNext
<1> HIDE DEF h
<1> DEFINE S == {n \in Nat : n <= IdSpace => h[n] \in Seq(DataOnly)}
<1>3. 0 \in S
  BY <1>0, <1>1 DEF DataRun
<1>4. ASSUME NEW n \in Nat, n \in S
      PROVE  n + 1 \in S
  <2> SUFFICES ASSUME n + 1 <= IdSpace
               PROVE  h[n + 1] \in Seq(DataOnly)
    OBVIOUS
  <2>1. h[n] \in Seq(DataOnly)
    BY <1>0, <1>4
  <2>2. h[n + 1] = DataNext(c, h[n], n + 1)
    BY <1>0, <1>1 DEF DataRun
  <2>3. Frame("data", n) \in DataOnly
    BY DEF Frame, DataOnly
  <2>4. Append(h[n], Frame("data", n)) \in Seq(DataOnly)
    BY <2>1, <2>3
  <2> QED
    BY <2>1, <2>2, <2>4 DEF DataNext
<1>5. IdSpace \in S
  <2> HIDE DEF S
  <2> QED  BY <1>0, <1>3, <1>4, NatSetInduction
<1> QED
  BY <1>0, <1>2, <1>5

\* A packet carries the control frames, and beyond them only DATA.
LEMMA PacketFacts ==
    ASSUME NEW c \in Conns, NEW from \in Nat
    PROVE  /\ Packet(c, from) \in Packets
           /\ Packet(c, from).from = from /\ Packet(c, from).to = c.peer
           /\ c.server => ~Packet(c, from).init /\ Packet(c, from).id = c.remote_id
           /\ \A f \in {"open", "accept"} :
                \A v : Has(Packet(c, from).frames, f, v) <=> Has(c.ctrl, f, v)
<1> DEFINE p == Packet(c, from)
           d == DataFrames(c)
<1>1. c.ctrl \in Seq(Frames) /\ d \in Seq(Frames) /\ d \in Seq(DataOnly)
  <2>1. d \in Seq(DataOnly) /\ DataOnly \subseteq Frames
    BY DataFramesType DEF DataOnly, Frames, FrameTypes
  <2> QED  BY <2>1 DEF Conns
<1>2. p.frames = c.ctrl \o d
  BY DEF Packet
<1> HIDE DEF d
<1>3. /\ p.frames \in Seq(Frames)
      /\ DOMAIN p.frames = 1 .. Len(c.ctrl) + Len(d)
      /\ \A i \in 1 .. Len(c.ctrl) : p.frames[i] = c.ctrl[i]
      /\ \A i \in Len(c.ctrl) + 1 .. Len(c.ctrl) + Len(d) : p.frames[i] = d[i - Len(c.ctrl)]
  BY <1>1, <1>2
<1>4. /\ p.from = from /\ p.to = c.peer /\ p.init \in BOOLEAN /\ p.id \in Nat
      /\ c.server => ~p.init /\ p.id = c.remote_id
      /\ p = [init |-> p.init, id |-> p.id, from |-> p.from, to |-> p.to, frames |-> p.frames]
  BY ZenonT(30) DEF Packet, Conns
<1>5. p \in Packets
  BY <1>3, <1>4 DEF Packets, Conns
<1>6. ASSUME NEW f \in {"open", "accept"}, NEW v
      PROVE  Has(p.frames, f, v) <=> Has(c.ctrl, f, v)
  <2>1. \A i \in DOMAIN d : d[i].f = "data"
    <3>1. \A i \in DOMAIN d : d[i] \in DataOnly
      BY <1>1
    <3> QED  BY <3>1 DEF DataOnly
  <2>2. \A i \in DOMAIN p.frames : p.frames[i].f = f => i \in 1 .. Len(c.ctrl)
    <3> SUFFICES ASSUME NEW i \in DOMAIN p.frames, i \notin 1 .. Len(c.ctrl)
                 PROVE  p.frames[i].f = "data"
      OBVIOUS
    <3>1. Len(c.ctrl) \in Nat /\ Len(d) \in Nat /\ DOMAIN d = 1 .. Len(d)
      BY <1>1
    <3>2. i \in Len(c.ctrl) + 1 .. Len(c.ctrl) + Len(d) /\ i - Len(c.ctrl) \in DOMAIN d
      BY <1>3, <3>1, SMTT(30)
    <3> QED
      BY <1>3, <2>1, <3>2
  <2>3. DOMAIN c.ctrl = 1 .. Len(c.ctrl) /\ DOMAIN c.ctrl \subseteq DOMAIN p.frames
    BY <1>1, <1>3
  <2> QED
    BY <1>3, <2>2, <2>3, ZenonT(30) DEF Has
<1> QED
  BY <1>4, <1>5, <1>6

\* What is sent is forgotten: the ids, the state and the table stay.
LEMMA AfterSendFacts ==
    ASSUME NEW c \in Conns, Table(c), NEW t \in Times
    PROVE  /\ AfterSend(c, t) \in Conns /\ Table(AfterSend(c, t))
           /\ AfterSend(c, t) = [c EXCEPT !.ctrl = <<>>, !.last_send = t,
                                          !.chans = AfterSend(c, t).chans]
           /\ \A v : Known(AfterSend(c, t), v) <=> Known(c, v)
<1> DEFINE Sent(ch) == IF ch \in Sendable(c) THEN [ch EXCEPT !.out = @ - 1] ELSE ch
           g        == [ch \in c.chans |-> Sent(ch)]
           new      == {Sent(ch) : ch \in c.chans}
<1>1. ASSUME NEW ch \in c.chans
      PROVE  Sent(ch) \in Channels /\ Sent(ch).id = ch.id
  <2>1. ch \in Channels
    BY DEF Conns
  <2>2. CASE ch \in Sendable(c)
    <3>1. ch.out \in Nat /\ ch.out > 0 /\ ch.out - 1 \in Nat
      BY <2>1, <2>2 DEF Sendable, Channels
    <3> QED  BY <2>1, <2>2, <3>1 DEF Channels
  <2>3. CASE ch \notin Sendable(c)
    BY <2>1, <2>3
  <2> QED  BY <2>2, <2>3
<1>2. AfterSend(c, t) = [c EXCEPT !.ctrl = <<>>, !.last_send = t, !.chans = new]
  BY DEF AfterSend
<1> HIDE DEF Sent
<1>3. new \in SUBSET Channels
  BY <1>1
<1>4. new = {g[ch] : ch \in c.chans}
  BY ZenonT(30)
<1>5. IsFiniteSet(new) /\ Cardinality(new) <= Cardinality(c.chans)
  <2>1. g \in Surjection(c.chans, new)
    BY SMTT(30) DEF Surjection
  <2> QED
    BY <2>1, FS_Surjection DEF Table, ExistsSurjection
<1>6. \A a, b \in new : a.id = b.id => a = b
  BY <1>1 DEF Table
<1>7. Cardinality(c.chans) \in Nat /\ Cardinality(new) \in Nat
  BY <1>5, FS_CardinalityType DEF Table
<1> HIDE DEF new, g
<1>8. AfterSend(c, t) \in Conns /\ AfterSend(c, t).chans = new
  <2>1. <<>> \in Seq(Frames)
    OBVIOUS
  <2> QED  BY <1>2, <1>3, <2>1, ZenonT(30) DEF Conns
<1>9. \A v : Known(AfterSend(c, t), v) <=> Known(c, v)
  BY <1>1, <1>8 DEF Known, new
<1> QED
  BY <1>2, <1>5, <1>6, <1>7, <1>8, <1>9, ConnSizes DEF Table

-----------------------------------------------------------------------------
(* Handlers that leave the ids, the peer and the known channels alone. *)

\* The arguments of the frames of type f.
Args(frames, f) == {frames[i].v : i \in {j \in DOMAIN frames : frames[j].f = f}}
Opened(p) == Args(p.frames, "open")

LEMMA ArgsHas ==
    ASSUME NEW frames, NEW f
    PROVE  \A v : v \in Args(frames, f) <=> Has(frames, f, v)
  BY DEF Args, Has

Mild(c, d) ==
    /\ d \in Conns /\ Table(d)
    /\ d.server = c.server /\ d.next_chan_id = c.next_chan_id
    /\ \A v : Known(d, v) <=> Known(c, v)
    /\ Quiet(d)
    /\ d.state = "CONNECTED" => /\ c.state = "CONNECTED"
                                /\ d.local_id = c.local_id /\ d.remote_id = c.remote_id

LEMMA QuietArgs ==
    ASSUME NEW c, Quiet(c)
    PROVE  Args(c.ctrl, "open") = {} /\ Args(c.ctrl, "accept") = {}
  BY DEF Quiet, Args

LEMMA DrainedFacts ==
    ASSUME NEW c \in Conns
    PROVE  LET d == Drained(c)
           IN /\ d \in Conns /\ d.events = <<>> /\ d.ctrl = c.ctrl /\ d.chans = c.chans
              /\ d.server = c.server /\ d.next_chan_id = c.next_chan_id /\ d.peer = c.peer
              /\ d.state = c.state /\ d.local_id = c.local_id /\ d.remote_id = c.remote_id
<1>1. <<>> \in Seq(EventNames)
  OBVIOUS
<1> QED
  BY <1>1, ZenonT(30) DEF Drained, Conns

\* What depends on the channel table and the control queue alone.
LEMMA SameTable ==
    ASSUME NEW c, NEW d, d.chans = c.chans
    PROVE  (Table(d) <=> Table(c)) /\ \A v : Known(d, v) <=> Known(c, v)
  BY DEF Table, Known

LEMMA EmptyQuiet ==
    ASSUME NEW c, c.ctrl = <<>>
    PROVE  Quiet(c)
  BY DEF Quiet

\* The part of netchan_feed before parse_frames: the peer and the time.
LEMMA FedFacts ==
    ASSUME NEW c \in Conns, NEW p \in Packets, NEW t \in Times
    PROVE  LET b == [FirstPeer(Migrated(c, p), p.from) EXCEPT !.last_recv = t]
           IN /\ b \in Conns /\ b.chans = c.chans /\ b.ctrl = c.ctrl /\ b.server = c.server
              /\ b.next_chan_id = c.next_chan_id /\ b.peer \in {c.peer, p.from}
              /\ b.local_id = c.local_id /\ b.remote_id = c.remote_id /\ b.state = c.state
<1> DEFINE m == Migrated(c, p)
           a == FirstPeer(m, p.from)
           b == [a EXCEPT !.last_recv = t]
<1>1. p.from \in Nat
  BY DEF Packets
<1>2. m \in {c, [c EXCEPT !.peer = p.from]}
  BY DEF Migrated
<1> HIDE DEF m
<1>3. /\ m \in Conns /\ m.chans = c.chans /\ m.ctrl = c.ctrl /\ m.server = c.server
      /\ m.next_chan_id = c.next_chan_id /\ m.peer \in {c.peer, p.from}
      /\ m.local_id = c.local_id /\ m.remote_id = c.remote_id /\ m.state = c.state
  BY <1>1, <1>2 DEF Conns
<1>4. a \in {m, [m EXCEPT !.peer = p.from]}
  BY DEF FirstPeer
<1> HIDE DEF a
<1>5. /\ a \in Conns /\ a.chans = m.chans /\ a.ctrl = m.ctrl /\ a.server = m.server
      /\ a.next_chan_id = m.next_chan_id /\ a.peer \in {m.peer, p.from}
      /\ a.local_id = m.local_id /\ a.remote_id = m.remote_id /\ a.state = m.state
  BY <1>1, <1>3, <1>4, ZenonT(30) DEF Conns
<1>6. /\ b \in Conns /\ b.chans = a.chans /\ b.ctrl = a.ctrl /\ b.server = a.server
      /\ b.next_chan_id = a.next_chan_id /\ b.peer = a.peer
      /\ b.local_id = a.local_id /\ b.remote_id = a.remote_id /\ b.state = a.state
  BY <1>5, ZenonT(30) DEF Conns
<1> HIDE DEF b
<1>7. /\ b \in Conns /\ b.chans = c.chans /\ b.ctrl = c.ctrl /\ b.server = c.server
      /\ b.next_chan_id = c.next_chan_id /\ b.peer \in {c.peer, p.from}
      /\ b.local_id = c.local_id /\ b.remote_id = c.remote_id /\ b.state = c.state
  BY <1>3, <1>5, <1>6, SMTT(30)
<1> QED
  BY <1>7 DEF b, a, m

\* netchan_service: a CONNECT_INIT again, a PING, or the end of the connection.
LEMMA ServiceMild ==
    ASSUME NEW c \in Conns, Table(c), c.ctrl = <<>>, NEW due, NEW t \in Times, NEW nonce \in Nat
    PROVE  Mild(c, Service(c, due, t, nonce)) /\ Service(c, due, t, nonce).peer = c.peer
<1> DEFINE d == Service(c, due, t, nonce)
<1>q. Quiet(c)
  BY DEF Quiet
<1>0. Mild(c, c)
  BY <1>q DEF Mild
<1>1. CASE d = GiveUp(c)
  <2> DEFINE b == [c EXCEPT !.state = "CLOSED"]
  <2>1. /\ b \in Conns /\ b.chans = c.chans /\ b.ctrl = c.ctrl /\ b.server = c.server
        /\ b.next_chan_id = c.next_chan_id /\ b.peer = c.peer /\ b.state = "CLOSED"
    BY SMTT(30) DEF Conns, States
  <2>2. d = Push(b, "DISCONNECTED")
    BY <1>1 DEF GiveUp
  <2> HIDE DEF b, d
  <2>3. d \in Conns /\ d = [b EXCEPT !.events = d.events]
    BY <2>1, <2>2, PushFacts DEF EventNames
  <2>4. /\ d.chans = c.chans /\ d.ctrl = c.ctrl /\ d.server = c.server
        /\ d.next_chan_id = c.next_chan_id /\ d.peer = c.peer /\ d.state = "CLOSED"
    BY <2>1, <2>3, ZenonT(30) DEF Conns
  <2> QED
    BY <2>3, <2>4, <1>q DEF Mild, Table, Known, Quiet, d
<1>2. ASSUME NEW f \in {"init", "ping"}, NEW v \in Nat, NEW b,
             b = Queue(c, f, v)
      PROVE  /\ b \in Conns /\ b.chans = c.chans /\ b.server = c.server /\ Quiet(b)
             /\ b.next_chan_id = c.next_chan_id /\ b.peer = c.peer /\ b.state = c.state
             /\ b.local_id = c.local_id /\ b.remote_id = c.remote_id
  <2>1. b \in Conns /\ b = [c EXCEPT !.ctrl = b.ctrl] /\ Evolves(c, b, <<>>)
    <3>1. f \in FrameTypes \ {"open", "accept"}
      BY <1>2 DEF FrameTypes
    <3>2. f \in FrameTypes
      BY <3>1, SMTT(30)
    <3> QED  BY <1>2, <3>1, <3>2, QueueFacts, QueueEvolves
  <2> QED
    BY <2>1, <1>q, SMTT(30) DEF Conns, Evolves
<1>3. CASE d = [Queue(c, "init", c.local_id) EXCEPT !.connect_sent = t, !.attempts = @ + 1]
  <2>1. c.local_id \in Nat
    BY SMTT(30) DEF Conns
  <2> DEFINE b == Queue(c, "init", c.local_id)
  <2>2. /\ b \in Conns /\ b.chans = c.chans /\ b.server = c.server /\ Quiet(b)
        /\ b.next_chan_id = c.next_chan_id /\ b.peer = c.peer /\ b.state = c.state
        /\ b.local_id = c.local_id /\ b.remote_id = c.remote_id
    BY <1>2, <2>1
  <2>3. d = [b EXCEPT !.connect_sent = t, !.attempts = @ + 1]
    BY <1>3
  <2> HIDE DEF b, d
  <2>4. /\ d \in Conns /\ d.chans = b.chans /\ d.server = b.server /\ d.ctrl = b.ctrl
        /\ d.next_chan_id = b.next_chan_id /\ d.peer = b.peer /\ d.state = b.state
        /\ d.local_id = b.local_id /\ d.remote_id = b.remote_id
    <3>1. b.attempts + 1 \in Nat
      BY <2>2, SMTT(30) DEF Conns
    <3> QED  BY <2>2, <2>3, <3>1, ZenonT(30) DEF Conns
  <2> QED
    BY <2>2, <2>4 DEF Mild, Table, Known, Quiet, d
<1>4. CASE d = [Queue(c, "ping", nonce) EXCEPT !.ping_opaque = nonce, !.ping_sent = t]
  <2> DEFINE b == Queue(c, "ping", nonce)
  <2>2. /\ b \in Conns /\ b.chans = c.chans /\ b.server = c.server /\ Quiet(b)
        /\ b.next_chan_id = c.next_chan_id /\ b.peer = c.peer /\ b.state = c.state
        /\ b.local_id = c.local_id /\ b.remote_id = c.remote_id
    BY <1>2
  <2>3. d = [b EXCEPT !.ping_opaque = nonce, !.ping_sent = t]
    BY <1>4
  <2> HIDE DEF b, d
  <2>4. /\ d \in Conns /\ d.chans = b.chans /\ d.server = b.server /\ d.ctrl = b.ctrl
        /\ d.next_chan_id = b.next_chan_id /\ d.peer = b.peer /\ d.state = b.state
        /\ d.local_id = b.local_id /\ d.remote_id = b.remote_id
    BY <2>2, <2>3, ZenonT(30) DEF Conns
  <2> QED
    BY <2>2, <2>4 DEF Mild, Table, Known, Quiet, d
<1>5. CASE d = c
  BY <1>0, <1>5, SMTT(30)
<1> QED
  BY <1>1, <1>3, <1>4, <1>5 DEF Service, Keepalive

\* An entry of the channel table changes, and perhaps an answer is queued.
LEMMA UpdateMild ==
    ASSUME NEW c \in Conns, Table(c), c.ctrl = <<>>, NEW ch \in Channels, Known(c, ch.id)
    PROVE  /\ Mild(c, Update(c, ch)) /\ Update(c, ch).peer = c.peer
           /\ LET d == Queue(Update(c, ch), "close", ch.id) IN Mild(c, d) /\ d.peer = c.peer
<1> DEFINE b == Update(c, ch)
           d == Queue(b, "close", ch.id)
<1>1. /\ b \in Conns /\ Table(b) /\ b = [c EXCEPT !.chans = b.chans]
      /\ \A v : Known(b, v) <=> Known(c, v) \/ v = ch.id
  BY UpdateFacts
<1> HIDE DEF b
<1>2. /\ b.server = c.server /\ b.next_chan_id = c.next_chan_id /\ b.peer = c.peer
      /\ b.state = c.state /\ b.local_id = c.local_id /\ b.remote_id = c.remote_id
      /\ b.ctrl = c.ctrl
  BY <1>1, SMTT(30) DEF Conns
<1>3. Mild(c, b)
  BY <1>1, <1>2 DEF Mild, Quiet
<1>4. ch.id \in Nat
  BY DEF Channels
<1>5. d \in Conns /\ d = [b EXCEPT !.ctrl = d.ctrl] /\ Evolves(b, d, <<>>)
  <2>1. "close" \in FrameTypes /\ "close" \in FrameTypes \ {"open", "accept"}
    BY DEF FrameTypes
  <2> QED  BY <1>1, <1>4, <2>1, QueueFacts, QueueEvolves
<1> HIDE DEF d
<1>6. /\ d.server = b.server /\ d.next_chan_id = b.next_chan_id /\ d.peer = b.peer
      /\ d.state = b.state /\ d.local_id = b.local_id /\ d.remote_id = b.remote_id
      /\ d.chans = b.chans
  BY <1>1, <1>5, ZenonT(30) DEF Conns
<1>7. Quiet(d)
  BY <1>3, <1>5 DEF Mild, Evolves
<1>8. Mild(c, d)
  BY <1>3, <1>5, <1>6, <1>7 DEF Mild, Known, Table
<1> QED
  BY <1>2, <1>3, <1>6, <1>8 DEF b, d

\* The next channel id keeps its parity through the wrap of the 8-bit counter.
LEMMA NextChanId ==
    ASSUME NEW id \in Nat, id < IdSpace
    PROVE  /\ (id + 2) % IdSpace \in Nat /\ (id + 2) % IdSpace < IdSpace
           /\ ((id + 2) % IdSpace) % 2 = id % 2
<1> DEFINE r == (id + 2) % IdSpace
           q == (id + 2) \div IdSpace
<1>1. IdSpace \in Nat /\ IdSpace > 1 /\ IdSpace % 2 = 0
  BY ConnSizes
<1>2. r \in 0 .. IdSpace - 1 /\ q \in Int /\ id + 2 = IdSpace * q + r
  BY <1>1
<1> HIDE DEF r, q
<1>3. q = 0 \/ q = 1 \/ (q = 2 /\ IdSpace = 2)
  <2>1. q >= 0
    <3> SUFFICES ASSUME q <= -1 PROVE FALSE
      BY <1>2
    <3>1. IdSpace * q <= -IdSpace
      BY <1>1, <1>2
    <3> QED  BY <1>1, <1>2, <3>1
  <2>2. q <= 2 /\ (q = 2 => IdSpace = 2)
    <3>1. ASSUME q >= 3 PROVE FALSE
      <4>1. IdSpace * q >= 3 * IdSpace
        BY <1>1, <1>2, <3>1
      <4> QED  BY <1>1, <1>2, <4>1
    <3>2. q = 2 => id + 2 >= 2 * IdSpace
      BY <1>1, <1>2
    <3> QED  BY <1>1, <1>2, <3>1, <3>2
  <2> QED  BY <1>2, <2>1, <2>2
<1>4. r = id + 2 \/ r = id + 2 - IdSpace \/ (IdSpace = 2 /\ r = id - 2)
  BY <1>1, <1>2, <1>3
<1>5. r % 2 = id % 2
  BY <1>1, <1>2, <1>4, SMTT(30)
<1> QED
  BY <1>1, <1>2, <1>5, SMTT(30) DEF r

\* netchan_accept: nothing, or one ACCEPT for the pair the server has.
LEMMA AcceptFacts ==
    ASSUME NEW c \in Conns, Table(c), Quiet(c)
    PROVE  LET d == Accept(c)
           IN /\ d \in Conns /\ Table(d)
              /\ d.server = c.server /\ d.next_chan_id = c.next_chan_id /\ d.peer = c.peer
              /\ d.local_id = c.local_id /\ d.remote_id = c.remote_id
              /\ \A v : Known(d, v) <=> Known(c, v)
              /\ Args(d.ctrl, "open") = {}
              /\ \A v \in Args(d.ctrl, "accept") : v = c.local_id /\ d # c
              /\ ~c.server => d = c
<1> DEFINE b == Queue(c, "accept", c.local_id)
           a == [b EXCEPT !.state = "CONNECTED"]
           d == Accept(c)
<1>1. CASE ~c.server \/ c.state # "CONNECTING"
  <2>1. d = c
    BY <1>1 DEF Accept
  <2> QED  BY <2>1, QuietArgs
<1>2. CASE c.server /\ c.state = "CONNECTING"
  <2>1. c.local_id \in Nat /\ c.ctrl \in Seq(Frames)
    BY DEF Conns
  <2>2. /\ b \in Conns /\ b = [c EXCEPT !.ctrl = b.ctrl]
        /\ b.ctrl \in {c.ctrl, Append(c.ctrl, Frame("accept", c.local_id))}
    <3>1. "accept" \in FrameTypes
      BY DEF FrameTypes
    <3> QED  BY <2>1, <3>1, QueueFacts
  <2> HIDE DEF b
  <2>3. /\ a \in Conns /\ a.ctrl = b.ctrl /\ a.chans = c.chans /\ a.server = c.server
        /\ a.next_chan_id = c.next_chan_id /\ a.peer = c.peer /\ a.local_id = c.local_id
        /\ a.remote_id = c.remote_id /\ a.state = "CONNECTED"
    BY <2>2, ZenonT(30) DEF Conns, States
  <2>4. d = Push(a, "CONNECTED")
    BY <1>2 DEF Accept, b
  <2> HIDE DEF a, d
  <2>5. d \in Conns /\ d = [a EXCEPT !.events = d.events]
    BY <2>3, <2>4, PushFacts DEF EventNames
  <2>6. /\ d.ctrl = b.ctrl /\ d.chans = c.chans /\ d.server = c.server
        /\ d.next_chan_id = c.next_chan_id /\ d.peer = c.peer /\ d.local_id = c.local_id
        /\ d.remote_id = c.remote_id /\ d.state = "CONNECTED"
    BY <2>3, <2>5, ZenonT(30) DEF Conns
  <2>7. d # c
    BY <1>2, <2>6
  <2>8. Args(d.ctrl, "open") = {} /\ \A v \in Args(d.ctrl, "accept") : v = c.local_id
    <3>1. Args(c.ctrl, "open") = {} /\ Args(c.ctrl, "accept") = {}
      BY QuietArgs, SMTT(30)
    <3>2. CASE d.ctrl = c.ctrl
      BY <3>1, <3>2, SMTT(30)
    <3>3. CASE d.ctrl = Append(c.ctrl, Frame("accept", c.local_id))
      BY <3>1, <3>3, <2>1, AppendHas, ArgsHas, SMTT(30) DEF FrameTypes
    <3> QED  BY <2>2, <2>6, <3>2, <3>3, SMTT(30)
  <2>9. Table(d) /\ \A v : Known(d, v) <=> Known(c, v)
    BY <2>6 DEF Table, Known
  <2> QED
    BY <1>2, <2>5, <2>6, <2>7, <2>8, <2>9, SMTT(30) DEF d
<1> QED
  BY <1>1, <1>2, SMTT(30)
=============================================================================
