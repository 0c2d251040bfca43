---------------------------------- MODULE Hub ----------------------------------
(***************************************************************************)
(* The WebSocket clients of SocketServer (socket.go).                      *)
(*                                                                         *)
(* A connection has a goroutine that listens and one that pings.  Handlers *)
(* and those two write frames to it under SocketClient.mu: a text frame in *)
(* two writes, its header and its payload.  A write has five seconds; one  *)
(* that is cut leaves a part of a frame, and nobody is told.               *)
(***************************************************************************)
EXTENDS Naturals, Sequences

CONSTANTS
    Conns,     \* connections; each is opened once
    Writers,   \* handlers, goroutines of onConnect and onMessage
    Lengths,   \* lengths of payloads
    MaxSends,  \* bound: sends and broadcasts
    MaxPings,  \* bound: pings and pongs
    MaxTexts   \* bound: text frames read

VARIABLES
    conns,   \* SocketServer.clients and the connections
    wire,    \* per connection the pieces that were written to it
    tasks,   \* per writer what it is at
    sends, pings, texts,
    pending  \* goroutines of onMessage that have not begun

hubVars == <<conns, wire, tasks, sends, pings, texts, pending>>

-----------------------------------------------------------------------------
New == [open |-> FALSE, stored |-> FALSE, listener |-> "none", pinger |-> "none", stop |-> FALSE,
        mu |-> "free", cut |-> FALSE]
Idle == [at |-> "idle", to |-> "none", length |-> 0, all |-> FALSE, done |-> {}]

\* Mutation of Header: one too many for the second byte.
HeaderOver(length) ==
    IF length <= 126 THEN <<"header", length, 0>>
    ELSE <<"header", IF length <= 65535 THEN 126 ELSE 127, length>>

\* writeFrame: the length in the second byte, or a mark and the length behind it.
Header(length) ==
    IF length <= 125 THEN <<"header", length, 0>>
    ELSE <<"header", IF length <= 65535 THEN 126 ELSE 127, length>>
Payload(length) == <<"payload", length>>

\* How a peer reads it, and how readFrame does.
Decoded(header) ==
    CASE header[2] = 126 -> header[3] % 65536
      [] header[2] = 127 -> header[3]
      [] OTHER -> header[2]

InitHub ==
    /\ conns = [c \in Conns |-> New]
    /\ wire = [c \in Conns |-> <<>>]
    /\ tasks = [w \in Writers |-> Idle]
    /\ sends = 0 /\ pings = 0 /\ texts = 0
    /\ pending = 0

Set(c, new) == conns' = [conns EXCEPT ![c] = new]

-----------------------------------------------------------------------------
(***************************************************************************)
(* A connection                                                            *)
(***************************************************************************)
\* ServeHTTP: the handshake, and the client is known.
Connect(c) ==
    /\ conns[c] = New
    /\ Set(c, [New EXCEPT !.open = TRUE, !.stored = TRUE, !.listener = "welcomes"])
    /\ UNCHANGED <<wire, tasks, sends, pings, texts, pending>>

\* The welcome, unless the deadline cuts it, which nobody notices; then the two goroutines begin.
Welcome(c) ==
    /\ conns[c].listener = "welcomes" /\ conns[c].mu = "free"
    /\ \E cut \in BOOLEAN :
          /\ Set(c, [conns[c] EXCEPT !.listener = "runs", !.pinger = "runs", !.cut = @ \/ cut])
          /\ wire' = IF cut THEN wire ELSE [wire EXCEPT ![c] = @ \o <<Header(126), Payload(126)>>]
    /\ UNCHANGED <<tasks, sends, pings, texts, pending>>

\* pingLoop: a ping, or the connection is closed when it fails.
Ping(c) ==
    /\ conns[c].pinger = "runs" /\ conns[c].mu = "free" /\ pings < MaxPings
    /\ pings' = pings + 1
    /\ \/ /\ conns[c].open
          /\ wire' = [wire EXCEPT ![c] = Append(@, <<"ping">>)]
          /\ UNCHANGED conns
       \/ /\ Set(c, [conns[c] EXCEPT !.open = FALSE, !.pinger = "ended"])
          /\ UNCHANGED wire
    /\ UNCHANGED <<tasks, sends, texts, pending>>

PingStops(c) ==
    /\ conns[c].pinger = "runs" /\ conns[c].stop
    /\ Set(c, [conns[c] EXCEPT !.pinger = "ended"])
    /\ UNCHANGED <<wire, tasks, sends, pings, texts, pending>>

Listening(c) == conns[c].listener = "runs"

\* A ping of the peer is answered, or its deadline cuts the answer; that error is dropped.
ReadPing(c) ==
    /\ Listening(c) /\ conns[c].open /\ conns[c].mu = "free" /\ pings < MaxPings
    /\ pings' = pings + 1
    /\ \/ /\ wire' = [wire EXCEPT ![c] = Append(@, <<"pong">>)]
          /\ UNCHANGED conns
       \/ /\ Set(c, [conns[c] EXCEPT !.cut = TRUE])
          /\ UNCHANGED wire
    /\ UNCHANGED <<tasks, sends, texts, pending>>

\* A text goes to onMessage, in a goroutine of its own.
ReadText(c) ==
    /\ Listening(c) /\ conns[c].open /\ texts < MaxTexts
    /\ texts' = texts + 1
    /\ pending' = pending + 1
    /\ UNCHANGED <<conns, wire, tasks, sends, pings>>

\* SocketClient.Close, by a handler.
Close(c) ==
    /\ conns[c].open
    /\ Set(c, [conns[c] EXCEPT !.open = FALSE])
    /\ UNCHANGED <<wire, tasks, sends, pings, texts, pending>>

\* Mutation of ListenEnds: the client is not taken out.
ListenEndsStored(c) ==
    /\ Listening(c)
    /\ Set(c, [conns[c] EXCEPT !.stop = TRUE, !.open = FALSE, !.listener = "over"])
    /\ UNCHANGED <<wire, tasks, sends, pings, texts, pending>>

\* A close frame, twenty seconds without a frame, an error: the client is taken out,
\* the pings stop and the connection is closed.
ListenEnds(c) ==
    /\ Listening(c)
    /\ Set(c, [conns[c] EXCEPT !.stored = FALSE, !.stop = TRUE, !.open = FALSE, !.listener = "over"])
    /\ UNCHANGED <<wire, tasks, sends, pings, texts, pending>>

-----------------------------------------------------------------------------
(***************************************************************************)
(* Send, EmitJSON and Broadcast                                            *)
(***************************************************************************)
Free(w) == tasks[w].at = "idle" /\ sends < MaxSends /\ sends' = sends + 1

\* A handler sends to one client that it knows, or to all.
Begin(w) ==
    /\ Free(w)
    /\ \E length \in Lengths, all \in BOOLEAN :
          tasks' = [tasks EXCEPT ![w] = [Idle EXCEPT !.at = "next", !.length = length, !.all = all]]
    /\ pending' \in {pending, IF pending > 0 THEN pending - 1 ELSE 0}
    /\ UNCHANGED <<conns, wire, pings, texts>>

\* Mutation of Lock: Send does not lock.
LockNot(w) ==
    /\ tasks[w].at = "next"
    /\ \E c \in Conns \ tasks[w].done :
          /\ conns[c] # New
          /\ tasks[w].all => conns[c].stored
          /\ tasks' = [tasks EXCEPT ![w].at = "header", ![w].to = c]
    /\ UNCHANGED <<conns, wire, sends, pings, texts, pending>>

\* The next client of Range, or the one; it is locked.
Lock(w) ==
    /\ tasks[w].at = "next"
    /\ \E c \in Conns \ tasks[w].done :
          /\ conns[c] # New /\ conns[c].mu = "free"
          /\ tasks[w].all => conns[c].stored
          /\ Set(c, [conns[c] EXCEPT !.mu = w])
          /\ tasks' = [tasks EXCEPT ![w].at = "header", ![w].to = c]
    /\ UNCHANGED <<wire, sends, pings, texts, pending>>

Unlocked(w) == [conns[tasks[w].to] EXCEPT !.mu = "free"]
Sent(w) ==
    LET next == [tasks[w] EXCEPT !.at = "next", !.done = tasks[w].done \cup {tasks[w].to}]
    IN  tasks' = [tasks EXCEPT ![w] = IF tasks[w].all THEN next ELSE Idle]

WriteHeader(w) ==
    LET c == tasks[w].to
    IN  /\ tasks[w].at = "header" /\ conns[c].open
        /\ wire' = [wire EXCEPT ![c] = Append(@, Header(tasks[w].length))]
        /\ tasks' = [tasks EXCEPT ![w].at = "payload"]
        /\ UNCHANGED <<conns, sends, pings, texts, pending>>

WritePayload(w) ==
    LET c == tasks[w].to
    IN  /\ tasks[w].at = "payload" /\ conns[c].open
        /\ wire' = [wire EXCEPT ![c] = Append(@, Payload(tasks[w].length))]
        /\ Set(c, Unlocked(w))
        /\ Sent(w)
        /\ UNCHANGED <<sends, pings, texts, pending>>

\* The connection is closed, or its deadline cuts a write; the error is dropped.
WriteFails(w) ==
    LET c == tasks[w].to
    IN  /\ tasks[w].at \in {"header", "payload"}
        /\ Set(c, [Unlocked(w) EXCEPT !.cut = TRUE])
        /\ Sent(w)
        /\ UNCHANGED <<wire, sends, pings, texts, pending>>

\* Range has visited every client.
RangeEnds(w) ==
    /\ tasks[w].at = "next" /\ tasks[w].all
    /\ {c \in Conns : conns[c].stored} \subseteq tasks[w].done
    /\ tasks' = [tasks EXCEPT ![w] = Idle]
    /\ UNCHANGED <<conns, wire, sends, pings, texts, pending>>

HubNext ==
    \/ \E c \in Conns :
          \/ Connect(c) \/ Welcome(c) \/ Ping(c) \/ PingStops(c)
          \/ ReadPing(c) \/ ReadText(c) \/ Close(c) \/ ListenEnds(c)
    \/ \E w \in Writers :
          Begin(w) \/ Lock(w) \/ WriteHeader(w) \/ WritePayload(w) \/ WriteFails(w) \/ RangeEnds(w)

HubSpec == InitHub /\ [][HubNext]_hubVars

-----------------------------------------------------------------------------
(***************************************************************************)
(* Properties                                                              *)
(***************************************************************************)
\* The variables have their types.
HubTypeOK ==
    /\ \A c \in Conns : conns[c].listener \in {"none", "welcomes", "runs", "over"}
    /\ \A w \in Writers : tasks[w].at \in {"idle", "next", "header", "payload"}
    /\ sends \in 0..MaxSends /\ pings \in 0..MaxPings /\ texts \in 0..MaxTexts

\* Whoever writes, each header on a connection is followed at once by the payload whose
\* length it gives, to a peer that reads it - until a deadline has cut a write.
FramesWhole ==
    \A c \in Conns : ~conns[c].cut =>
        \A i \in DOMAIN wire[c] :
            wire[c][i][1] = "header" /\ i < Len(wire[c]) =>
                wire[c][i + 1] = Payload(Decoded(wire[c][i]))

\* A client that is known has somebody who will take it out; when that is done, the
\* connection is closed and the pings will stop.
KnownAreServed ==
    \A c \in Conns :
        /\ conns[c].stored <=> conns[c].listener \in {"welcomes", "runs"}
        /\ conns[c].listener = "over" => ~conns[c].open /\ (conns[c].stop \/ conns[c].pinger = "ended")

\* The two together.
HubSound == FramesWhole /\ KnownAreServed

-----------------------------------------------------------------------------
(***************************************************************************)
(* What always holds: who is at a header or a payload has the connection   *)
(* locked, and a header at the end is that of the writer who is at the     *)
(* payload.                                                                *)
(***************************************************************************)
AnyLength == Lengths \cup {126}
Pieces ==
    {Header(length) : length \in AnyLength} \cup {Payload(length) : length \in AnyLength}
        \cup {<<"ping">>, <<"pong">>}

Connections ==
    [open : BOOLEAN, stored : BOOLEAN, listener : {"none", "welcomes", "runs", "over"},
     pinger : {"none", "runs", "ended"}, stop : BOOLEAN, mu : Writers \cup {"free"}, cut : BOOLEAN]
Jobs ==
    [at : {"idle", "next", "header", "payload"}, to : Conns \cup {"none"}, length : Lengths \cup {0},
     all : BOOLEAN, done : SUBSET Conns]

HubShapes ==
    /\ conns \in [Conns -> Connections]
    /\ wire \in [Conns -> Seq(Pieces)]
    /\ tasks \in [Writers -> Jobs]

Writing(w) == tasks[w].at \in {"header", "payload"}
Halfway(w, c) == tasks[w].at = "payload" /\ tasks[w].to = c

Locked ==
    /\ \A w \in Writers : Writing(w) => tasks[w].to \in Conns /\ conns[tasks[w].to].mu = w
    /\ \A w \in Writers : tasks[w].at # "idle" => tasks[w].length \in Lengths

\* The first n pieces are whole frames.
WholeTo(pieces, n) ==
    \A i \in 1..n : pieces[i][1] = "header" => i < n /\ pieces[i + 1] = Payload(Decoded(pieces[i]))

\* The frames are whole, or all but the last, whose header stands at the end.
HalfAtEnd(pieces, length) ==
    pieces # <<>> /\ WholeTo(pieces, Len(pieces) - 1) /\ pieces[Len(pieces)] = Header(length)
FramesSoFar ==
    \A c \in Conns : ~conns[c].cut =>
        /\ \/ \E w \in Writers : Halfway(w, c)
           \/ WholeTo(wire[c], Len(wire[c]))
        /\ \A w \in Writers : Halfway(w, c) => HalfAtEnd(wire[c], tasks[w].length)

HubInv == HubShapes /\ Locked /\ FramesSoFar /\ KnownAreServed
=============================================================================
