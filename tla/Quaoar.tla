------------------------------- MODULE Quaoar -------------------------------
(***************************************************************************)
(* The Quaoar display (programmable-display-protocols/demo): applications  *)
(* that use libquaoar.c send commands through a socket to                  *)
(* quaoar-server.c, which passes them on to a browser running              *)
(* quaoar-client.html with the number of the application in front, and     *)
(* returns the browser's events.  The server is one poll() loop; a         *)
(* descriptor is a number that the next accept() may give out again.       *)
(***************************************************************************)
EXTENDS Integers, Sequences, FiniteSetsExt, SequencesExt

CONSTANTS Slots,          \* MAX_APPS
          MaxFd,          \* descriptors for accepted connections: 1 .. MaxFd
          BufUnits,       \* BUF_SIZE, in halves of a message
          MaxHandlers,    \* MAX_HANDLERS
          MaxInputs,      \* bound: connections, commands and frames together
          ProbeWhileShown \* may a connection that is no WebSocket come while a browser is there

VARIABLES conn,           \* every connection ever made
          file,           \* the server's descriptors: a connection, or 0
          tcpq, unixq,    \* connections that wait to be accepted
          ws_fd, apps, next_app_id,
          batch,          \* what poll() reported and the loop has still to look at
          stray           \* has a handler been called for a widget of another connection

quVars == <<conn, file, tcpq, unixq, ws_fd, apps, next_app_id, batch, stray>>

Fds == 1 .. MaxFd
None == [fd |-> 0, id |-> 0, rbuf |-> <<>>]

\* A connection: the server's end is queued, served or closed, the other end is
\* open or not, and what is on the way.  An application also has the widgets it
\* made and removed and the ids it has handlers for, a browser what it shows and
\* the number the next application had when it came.
Opened(kind) ==
    [kind |-> kind, st |-> "queued", open |-> TRUE, up |-> <<>>, down |-> <<>>,
     next_id |-> 1, gone |-> {}, on |-> {0},
     widgets |-> {}, since |-> 0, sent |-> 0]

QuInit == /\ conn = <<>>
          /\ file = [f \in Fds |-> 0]
          /\ tcpq = <<>> /\ unixq = <<>>
          /\ ws_fd = -1
          /\ apps = [i \in Slots |-> None]
          /\ next_app_id = 1
          /\ batch = <<>>
          /\ stray = FALSE

Of(kind) == {c \in DOMAIN conn : conn[c].kind = kind}

\* What the environment has done so far.
Inputs == Len(conn) + FoldFunctionOnSet(+, 0, [c \in DOMAIN conn |-> conn[c].sent], DOMAIN conn)

----------------------------------------------------------------------------
\* libquaoar.c.  A message is two units, so that a read may end inside one.
Netstring(m) == <<<<m, 1>>, <<m, 2>>>>
Writes(c, units) == [conn EXCEPT ![c].up = @ \o units, ![c].sent = @ + 1]
Serving(c) == conn[c].open /\ conn[c].st # "closed"
ServerSame == UNCHANGED <<file, tcpq, ws_fd, apps, next_app_id, batch>>

AppConnect == /\ Inputs < MaxInputs
              /\ conn' = Append(conn, Opened("app"))
              /\ unixq' = Append(unixq, Len(conn) + 1)
              /\ ServerSame /\ UNCHANGED stray

\* qu_on_event: the table of handlers has an end.
OnEvent(on, id) == IF Cardinality(on) < MaxHandlers THEN on \union {id} ELSE on

\* qu_window and the other widgets, then qu_on_event.
AppMakes(c) ==
    LET id == conn[c].next_id
        sent == Writes(c, Netstring([op |-> "window", id |-> id]))
    IN  /\ conn' = [sent EXCEPT ![c].next_id = id + 1,
                                ![c].on = OnEvent(@, id)]
        /\ UNCHANGED stray

\* qu_remove
AppRemoves(c) ==
    /\ \E id \in (1 .. conn[c].next_id - 1) \ conn[c].gone :
          conn' = [Writes(c, Netstring([op |-> "remove", id |-> id])) EXCEPT ![c].gone = @ \union {id}]
    /\ UNCHANGED stray

\* An application without the library sends what is no netstring.
AppGarbles(c) == /\ conn' = Writes(c, [k \in 1 .. BufUnits |-> <<"bad", 0>>])
                 /\ UNCHANGED stray

\* dispatch_event calls a handler; is it for a widget of another connection?
DispatchedWrong(c, m) == m.id \in conn[c].on /\ m.of \notin {c, 0}

\* qu_process: what came is read, and each event to the handler of its
\* id (reading several is reading them one by one); at the end of the stream the application disconnects.
AppProcess(c) ==
    \/ /\ conn[c].down = <<>> /\ conn[c].st = "closed"
       /\ conn' = [conn EXCEPT ![c].open = FALSE]
       /\ UNCHANGED stray
    \/ /\ conn[c].down # <<>>
       /\ conn' = [conn EXCEPT ![c].down = Tail(@)]
       /\ stray' = (stray \/ DispatchedWrong(c, Head(conn[c].down)))

AppExit(c) == /\ conn' = [conn EXCEPT ![c].open = FALSE]
              /\ UNCHANGED stray

App == \E c \in Of("app") :
           /\ conn[c].open
           /\ ServerSame /\ UNCHANGED unixq
           /\ \/ Serving(c) /\ Inputs < MaxInputs /\ (AppMakes(c) \/ AppRemoves(c) \/ AppGarbles(c))
              \/ AppProcess(c)
              \/ AppExit(c)

----------------------------------------------------------------------------
\* quaoar-client.html.  A browser connects and sends its request: a second one, or
\* the same again.
BrowserConnect == /\ Inputs < MaxInputs
                  /\ conn' = Append(conn, Opened("browser"))
                  /\ tcpq' = Append(tcpq, Len(conn) + 1)
                  /\ UNCHANGED <<file, unixq, ws_fd, apps, next_app_id, batch, stray>>

\* A request that is not the one of a WebSocket, or a connection closed before its
\* request: the handshake will fail.
ProbeConnect == /\ Inputs < MaxInputs
                /\ ProbeWhileShown \/ (ws_fd < 0 /\ tcpq = <<>>)
                /\ conn' = Append(conn, Opened("probe"))
                /\ tcpq' = Append(tcpq, Len(conn) + 1)
                /\ UNCHANGED <<file, unixq, ws_fd, apps, next_app_id, batch, stray>>

\* handleMessage
Shown(widgets, m) ==
    CASE m.op = "window" -> widgets \union {[app |-> m.app, id |-> m.id, of |-> m.of]}
      [] m.op = "remove" -> {w \in widgets : ~(w.app = m.app /\ w.id = m.id)}
      [] m.op = "disconnect" -> {w \in widgets : w.app # m.id}
      [] m.op \in {"hello", "pong"} -> widgets

\* onmessage, and onclose with its clearAll.
BrowserReceives(b) ==
    \/ /\ conn[b].down # <<>>
       /\ conn' = [conn EXCEPT ![b].down = Tail(@), ![b].widgets = Shown(@, Head(conn[b].down))]
    \/ /\ conn[b].down = <<>> /\ conn[b].st = "closed"
       /\ conn' = [conn EXCEPT ![b].open = FALSE, ![b].widgets = {}]

\* sendEvent, the broadcast paste, and the close and ping frames of the browser.
Event(w) == [op |-> "text", to |-> w.app, id |-> w.id, of |-> w.of]
Paste == [op |-> "text", to |-> -1, id |-> 0, of |-> 0]
Control == {[op |-> x, to |-> 0, id |-> 0, of |-> 0] : x \in {"close", "ping"}}
BrowserSends(b) ==
    /\ conn[b].st = "served"
    /\ Inputs < MaxInputs
    /\ \E m \in {Event(w) : w \in conn[b].widgets} \union {Paste} \union Control :
          conn' = [conn EXCEPT ![b].up = Append(@, m), ![b].sent = @ + 1]

\* The tab is closed, the machine is gone.
BrowserGone(b) == conn' = [conn EXCEPT ![b].open = FALSE, ![b].widgets = {}]

Browser == \E b \in Of("browser") :
               /\ conn[b].open
               /\ ServerSame /\ UNCHANGED <<unixq, stray>>
               /\ BrowserReceives(b) \/ BrowserSends(b) \/ BrowserGone(b)

----------------------------------------------------------------------------
\* quaoar-server.c.  The descriptors and what is behind them, as one handler sees
\* and changes them.
World == [conn |-> conn, file |-> file, apps |-> apps]
Become(w) == conn' = w.conn /\ file' = w.file /\ apps' = w.apps

\* accept(): the lowest number that is free.
Free == {f \in Fds : file[f] = 0}
Accepted(c, f) == [World EXCEPT !.file[f] = c, !.conn[c].st = "served"]
Close(w, f) == IF f \in Fds /\ w.file[f] # 0
               THEN [w EXCEPT !.conn[w.file[f]].st = "closed", !.file[f] = 0]
               ELSE w

\* A write to a descriptor; a closed one, or a peer that is gone, is an error that
\* nobody looks at.
Write(w, f, m) == IF f \in Fds /\ w.file[f] # 0 /\ w.conn[w.file[f]].open
                  THEN [w EXCEPT !.conn[w.file[f]].down = Append(@, m)]
                  ELSE w

Refuse(w, f) == Close(w, f)

\* app_remove, of the applications of a set of slots in order.
AppRemove(w, i, ws) ==
    IF w.apps[i].fd <= 0 THEN w
    ELSE LET told == Write(w, ws, [op |-> "disconnect", app |-> -1, id |-> w.apps[i].id, of |-> 0])
         IN  [Close(told, w.apps[i].fd) EXCEPT !.apps[i] = None]
RemoveAll(w, ws) == FoldLeft(LAMBDA x, i : AppRemove(x, i, ws), w, SetToSortSeq(Slots, <))

\* poll(): the listeners, the applications slot by slot, the browser.
Readable(f) == f \in Fds /\ file[f] # 0 /\ (conn[file[f]].up # <<>> \/ ~conn[file[f]].open)
Poll ==
    LET slots == SelectSeq(SetToSortSeq(Slots, <), LAMBDA i : apps[i].fd > 0 /\ Readable(apps[i].fd))
    IN  /\ batch = <<>>
        /\ batch' = (IF tcpq # <<>> THEN <<-1>> ELSE <<>>) \o (IF unixq # <<>> THEN <<-2>> ELSE <<>>)
                    \o [k \in 1 .. Len(slots) |-> apps[slots[k]].fd] \o (IF Readable(ws_fd) THEN <<ws_fd>> ELSE <<>>)
        /\ batch' # <<>>
        /\ UNCHANGED <<conn, file, tcpq, unixq, ws_fd, apps, next_app_id, stray>>

\* ws_handshake succeeds for the request of a browser, which has been sent even if
\* the browser is gone since.
WsHandshake(c) == conn[c].kind = "browser"

\* A connection on the WebSocket port: an earlier browser and every application
\* are dropped, then the handshake succeeds or fails.
AcceptBrowser ==
    LET c == Head(tcpq)
        f == Min(Free)
        dropped == IF ws_fd > 0 THEN RemoveAll(Close(Accepted(c, f), ws_fd), ws_fd) ELSE Accepted(c, f)
        handshake == WsHandshake(c)
        hello == Write([dropped EXCEPT !.conn[c].since = next_app_id], f,
                       [op |-> "hello", app |-> -1, id |-> 0, of |-> 0])
    IN  /\ batch # <<>> /\ Head(batch) = -1
        /\ batch' = Tail(batch)
        /\ tcpq' = Tail(tcpq)
        /\ \/ handshake /\ Become(hello) /\ ws_fd' = f
           \/ ~handshake /\ Become(Refuse(dropped, f)) /\ UNCHANGED ws_fd
        /\ UNCHANGED <<unixq, next_app_id, stray>>

\* A connection on the socket of the applications: app_add.
AcceptApp ==
    LET c == Head(unixq)
        f == Min(Free)
        vacant == {i \in Slots : apps[i].fd <= 0}
        added == [Accepted(c, f) EXCEPT !.apps[Min(vacant)] = [fd |-> f, id |-> next_app_id, rbuf |-> <<>>]]
    IN  /\ batch # <<>> /\ Head(batch) = -2
        /\ batch' = Tail(batch)
        /\ unixq' = Tail(unixq)
        /\ \/ vacant # {} /\ Become(added) /\ next_app_id' = next_app_id + 1
           \/ vacant = {} /\ Become(Refuse(Accepted(c, f), f)) /\ UNCHANGED next_app_id
        /\ UNCHANGED <<tcpq, ws_fd, stray>>

Looking(f) == batch # <<>> /\ Head(batch) = f /\ batch' = Tail(batch)

\* forward_to_app: to every application, or to the one with the number.
ForwardToApp(m) ==
    LET wanted == SelectSeq(SetToSortSeq(Slots, <), LAMBDA i : apps[i].fd > 0 /\ (m.to < 0 \/ apps[i].id = m.to))
    IN  FoldLeft(LAMBDA w, i : Write(w, apps[i].fd, [op |-> "event", id |-> m.id, of |-> m.of]), World, wanted)

\* ws_read: a frame, or "close" for the end of the stream, a closed descriptor and
\* what is no frame.
WsRead(c) == IF c = 0 THEN "close"
             ELSE IF conn[c].kind # "browser" \/ conn[c].up = <<>> THEN "close" ELSE Head(conn[c].up).op

\* A frame from the browser.  ws_read waits for one; the end of the stream or a
\* close frame end the session of the applications too.
FromBrowser ==
    LET c == file[ws_fd]
        taken == IF c # 0 /\ conn[c].up # <<>> THEN [World EXCEPT !.conn[c].up = Tail(@)] ELSE World
        read == WsRead(c)
    IN  /\ ws_fd > 0
        /\ Looking(ws_fd)
        /\ c # 0 => conn[c].up # <<>> \/ ~conn[c].open
        /\ \/ /\ read = "close"
              /\ Become(RemoveAll(Close(taken, ws_fd), -1)) /\ ws_fd' = -1
           \/ /\ read = "ping"
              /\ Become(Write(taken, ws_fd, [op |-> "pong", app |-> 0, id |-> 0, of |-> 0])) /\ UNCHANGED ws_fd
           \/ /\ read = "text"
              /\ Become([ForwardToApp(Head(conn[c].up)) EXCEPT !.conn[c].up = Tail(@)]) /\ UNCHANGED ws_fd
        /\ UNCHANGED <<tcpq, unixq, next_app_id, stray>>

\* ns_decode finds a whole message at the front.
Whole(rbuf) == Len(rbuf) > 1 /\ rbuf[1][2] = 1

\* forward_to_ws, for the application of a slot.
ForwardToWs(w, i, m) ==
    Write(w, ws_fd, [op |-> m.op, app |-> w.apps[i].id, id |-> m.id, of |-> w.file[w.apps[i].fd]])

\* app_process: every whole message goes to the browser, if there is one; what is
\* not a whole message stays.
RECURSIVE AppProcessed(_, _)
AppProcessed(w, i) ==
    LET rbuf == w.apps[i].rbuf
    IN  IF ~Whole(rbuf) THEN w
        ELSE AppProcessed([ForwardToWs(w, i, rbuf[1][1]) EXCEPT !.apps[i].rbuf = SubSeq(@, 3, Len(@))], i)

\* Something from an application: read() waits for it, and takes what there is up
\* to the room that is left.
FromApp(i) ==
    LET f == apps[i].fd
        c == file[f]
        space == BufUnits - Len(apps[i].rbuf)
    IN  /\ f > 0 /\ f # ws_fd /\ \A j \in Slots : apps[j].fd = f => i <= j
        /\ Looking(f)
        /\ \/ space <= 0 /\ Become(AppRemove(World, i, ws_fd))
           \/ space > 0 /\ conn[c].up = <<>> /\ ~conn[c].open /\ Become(AppRemove(World, i, ws_fd))
           \/ /\ space > 0
              /\ \E n \in 1 .. Min({space, Len(conn[c].up)}) :
                    Become(AppProcessed([World EXCEPT !.conn[c].up = SubSeq(@, n + 1, Len(@)),
                                                      !.apps[i].rbuf = @ \o SubSeq(conn[c].up, 1, n)], i))
        /\ UNCHANGED <<tcpq, unixq, ws_fd, next_app_id, stray>>

\* A descriptor that nobody has any more.
FromNobody == /\ batch # <<>> /\ Head(batch) > 0 /\ Head(batch) # ws_fd
              /\ \A i \in Slots : apps[i].fd # Head(batch)
              /\ batch' = Tail(batch)
              /\ UNCHANGED <<conn, file, tcpq, unixq, ws_fd, apps, next_app_id, stray>>

Server == Poll \/ AcceptBrowser \/ AcceptApp \/ FromBrowser \/ (\E i \in Slots : FromApp(i)) \/ FromNobody

QuNext == AppConnect \/ App \/ BrowserConnect \/ ProbeConnect \/ Browser \/ Server

QuSpec == QuInit /\ [][QuNext]_quVars

----------------------------------------------------------------------------
\* Every open descriptor belongs to the browser or to one application.
DescriptorsOwned ==
    /\ \A f \in Fds : file[f] # 0 => Cardinality({i \in Slots : apps[i].fd = f}) = IF f = ws_fd THEN 0 ELSE 1
    /\ \A i \in Slots : apps[i].fd > 0 => file[apps[i].fd] # 0

\* Nothing is on its way and nobody is gone unnoticed.
Arrived(c) == /\ c.st = "served" => c.open /\ c.up = <<>>
              /\ c.open => c.st = "served" /\ c.down = <<>>
Settled == batch = <<>> /\ tcpq = <<>> /\ unixq = <<>> /\ \A c \in DOMAIN conn : Arrived(conn[c])

\* The browser then shows the widgets of the applications that came after it, all
\* of them and no others' but those of applications still connected.
Present(b) ==
    LET heard == {i \in Slots : apps[i].fd > 0 /\ apps[i].id >= conn[b].since /\ apps[i].rbuf = <<>>}
        made(c) == (1 .. conn[c].next_id - 1) \ conn[c].gone
    IN  /\ \A w \in conn[b].widgets : \E i \in Slots : apps[i].fd > 0 /\ apps[i].id = w.app /\ file[apps[i].fd] = w.of
        /\ \A i \in heard : {w.id : w \in {v \in conn[b].widgets : v.app = apps[i].id}} = made(file[apps[i].fd])

=============================================================================
