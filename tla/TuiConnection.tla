---------------------------- MODULE TuiConnection -----------------------------
(***************************************************************************)
(* The terminal client's connection to one room: edits that go out as they *)
(* are made, a socket that drops, the loop that reconnects, and the        *)
(* handshake that carries to the server what it lacks.                     *)
(*                                                                         *)
(* tui/src/bartleby_tui/connection.py, with what app.py does to a          *)
(* connection: opening another note closes it and drops the document, and  *)
(* an exception in the poll of the notes list ends the client.             *)
(*                                                                         *)
(* A document is the set of its operations, so a state vector is that set  *)
(* too and an update is a difference.  The server (Hocuspocus with its     *)
(* SQLite extension) is external: it answers the messages of a socket in   *)
(* order once the socket's token was accepted, and reloads what was stored *)
(* last when it restarts.                                                  *)
(*                                                                         *)
(* The sends that follow a connect do not suspend (the buffer of a new     *)
(* socket is empty), so they are one step with it.                         *)
(***************************************************************************)
EXTENDS Naturals, Sequences, SequencesExt

CONSTANTS
    Ours,           \* operations the user of this client makes
    Theirs,         \* operations of the room's other clients
    Polls,          \* the notes list is polled (BARTLEBY_HTTP_URL is set)
    MaxFaults       \* bound: drops, restarts and expiries

ConnectionAssumption ==
    /\ Ours \cap Theirs = {}
    /\ Polls \in BOOLEAN
    /\ MaxFaults \in Nat

VARIABLES
    app,            \* "running", or how the client left the room
    doc,            \* the operations in the client's document
    connected, pending, synced, closed,    \* fields of the connection
    loop,           \* the task that opens sockets
    recv,           \* the receive loop runs
    sends,          \* updates whose send task has not run
    sock,           \* the current socket
    up, down,       \* frames on their way, each direction in order
    tokenOk,        \* the bearer token has not expired
    net,            \* the server can be reached
    sdoc, saved,    \* the server's document, and its stored state
    faults

connVars == <<app, doc, connected, pending, synced, closed, loop, recv, sends,
          sock, up, down, tokenOk, net, sdoc, saved, faults>>
status == <<connected, pending, synced, closed>>
world == <<tokenOk, net, faults>>
wire == <<up, down>>
server == <<sdoc, saved>>

------------------------------------------------------------------------------
(* State.                                                                  *)

Ops == Ours \cup Theirs
Frame == [type: {"auth", "step1", "step2", "update"}, ops: SUBSET Ops]
FrameOf(t, ops) == [type |-> t, ops |-> ops]

\* open: the transport is up; accepted: the server took its token;
\* answered: the client has answered the server's SyncStep1 on it.
Socket == [open: BOOLEAN, accepted: BOOLEAN, answered: BOOLEAN]
NoSocket == [open |-> FALSE, accepted |-> FALSE, answered |-> FALSE]

ConnTypeOK ==
    /\ app \in {"running", "left", "crashed"}
    /\ doc \in SUBSET Ops /\ sdoc \in SUBSET Ops /\ saved \in SUBSET Ops
    /\ connected \in BOOLEAN /\ synced \in BOOLEAN /\ closed \in BOOLEAN
    /\ pending \in Nat
    /\ loop \in {"enter", "connect", "backoff", "idle", "dead"}
    /\ recv \in BOOLEAN
    /\ sends \in SUBSET Ours
    /\ sock \in Socket
    /\ up \in Seq(Frame) /\ down \in Seq(Frame)
    /\ tokenOk \in BOOLEAN /\ net \in BOOLEAN
    /\ faults \in 0 .. MaxFaults

ConnInit ==
    /\ app = "running"
    /\ doc = {} /\ sdoc = {} /\ saved = {}
    /\ connected = FALSE /\ pending = 0 /\ synced = FALSE /\ closed = FALSE
    /\ loop = "enter" /\ recv = FALSE /\ sends = {}
    /\ sock = NoSocket /\ up = <<>> /\ down = <<>>
    /\ tokenOk = TRUE /\ net = TRUE /\ faults = 0

Fault == faults < MaxFaults /\ faults' = faults + 1

------------------------------------------------------------------------------
(* Opening a socket: the first time from __aenter__, then from the         *)
(* reconnect loop.                                                         *)

\* The handshake starts at once, and the backlog counts as drained.
ConnectOk ==
    /\ loop \in {"enter", "connect"}
    /\ app = "running" \/ loop = "connect"
    /\ net
    /\ sock' = [NoSocket EXCEPT !.open = TRUE]
    /\ up' = <<FrameOf("auth", {}), FrameOf("step1", doc)>> /\ down' = <<>>
    /\ connected' = TRUE
    /\ pending' = IF connected THEN pending ELSE 0
    /\ recv' = TRUE
    /\ loop' = "idle"
    /\ UNCHANGED <<app, doc, synced, closed, sends, world, server>>

\* An OSError: the first connect passes it to the app, which ends; the loop
\* waits and tries again.
ConnectRefused ==
    /\ loop \in {"enter", "connect"}
    /\ ~net
    /\ IF loop = "enter"
       THEN app' = "crashed" /\ loop' = "dead"
       ELSE loop' = "backoff" /\ UNCHANGED app
    /\ UNCHANGED <<doc, status, recv, sends, sock, wire, world, server>>

\* Any other exception, such as the invalid response of a proxy whose
\* server is restarting, ends the loop as well.
ConnectInvalid ==
    /\ loop = "connect"
    /\ ~net
    /\ loop' = "dead"
    /\ UNCHANGED <<app, doc, status, recv, sends, sock, wire, world, server>>

\* The wait is over; the loop goes on unless the connection was closed.
Retry ==
    /\ loop = "backoff"
    /\ loop' = IF closed THEN "dead" ELSE "connect"
    /\ UNCHANGED <<app, doc, status, recv, sends, sock, wire, world, server>>

------------------------------------------------------------------------------
(* The receive loop.                                                       *)

\* Faulty: what the client lacks is sent.
LacksSwapped(f) == f.ops \ doc

\* encode_state_as_update against the state vector of a SyncStep1.
Lacks(f) == doc \ f.ops

\* SyncStep1: answered with everything the server lacks.  SyncStep2 and
\* SyncUpdate: applied without being sent back.
Receive ==
    /\ recv
    /\ down # <<>>
    /\ down' = Tail(down)
    /\ LET f == Head(down) IN
        \/ /\ f.type = "step1"
           /\ sock.open
           /\ up' = Append(up, FrameOf("step2", Lacks(f)))
           /\ sock' = [sock EXCEPT !.answered = TRUE]
           /\ UNCHANGED <<doc, synced>>
        \/ /\ f.type = "step1"
           /\ ~sock.open                   \* the send raises ConnectionClosed
           /\ UNCHANGED <<doc, synced, up, sock>>
        \/ /\ f.type \in {"step2", "update"}
           /\ doc' = doc \cup f.ops
           /\ synced' = (synced \/ f.type = "step2")
           /\ UNCHANGED <<up, sock>>
    /\ UNCHANGED <<app, connected, pending, closed, loop, recv, sends, world, server>>

\* Faulty: no task is spawned.
ReceiveEndsQuietly ==
    /\ recv
    /\ ~sock.open /\ down = <<>>
    /\ recv' = FALSE
    /\ connected' = FALSE
    /\ UNCHANGED <<app, doc, pending, synced, closed, loop, sends, sock, wire, world, server>>

\* The socket is gone and everything that arrived was read: unless the app
\* closed the connection, a task is spawned that reconnects.
ReceiveEnds ==
    /\ recv
    /\ ~sock.open /\ down = <<>>
    /\ recv' = FALSE
    /\ connected' = FALSE
    /\ loop' = IF closed THEN loop ELSE "connect"
    /\ UNCHANGED <<app, doc, pending, synced, closed, sends, sock, wire, world, server>>

------------------------------------------------------------------------------
(* Local edits.                                                            *)

\* Sent by a task of its own while the connection counts as up, else counted.
Edit(o) ==
    /\ app = "running" /\ loop # "enter"
    /\ o \in Ours \ doc
    /\ doc' = doc \cup {o}
    /\ IF connected
       THEN sends' = sends \cup {o} /\ UNCHANGED pending
       ELSE pending' = pending + 1 /\ UNCHANGED sends
    /\ UNCHANGED <<app, connected, synced, closed, loop, recv, sock, wire, world, server>>

\* Nothing is sent on a closed connection, and sending on a dead socket
\* raises in a task nobody awaits.
SendUpdate(o) ==
    /\ o \in sends
    /\ sends' = sends \ {o}
    /\ up' = IF closed \/ ~sock.open THEN up ELSE Append(up, FrameOf("update", {o}))
    /\ UNCHANGED <<app, doc, status, loop, recv, sock, down, world, server>>

------------------------------------------------------------------------------
(* The app.                                                                *)

\* Another note is opened, or the app quits: __aexit__, after which the
\* document is dropped.  What is already in the socket still goes out; a
\* reconnect under way is not cancelled.
Leave ==
    /\ app = "running"
    /\ loop # "enter"
    /\ app' = "left"
    /\ closed' = TRUE
    /\ recv' = FALSE /\ connected' = FALSE
    /\ sock' = [sock EXCEPT !.open = FALSE]
    /\ down' = <<>>
    /\ UNCHANGED <<doc, pending, synced, loop, sends, up, world, server>>

\* The poll's request fails and nothing catches it.
PollFails ==
    /\ Polls
    /\ app = "running" /\ loop # "enter"
    /\ ~net
    /\ app' = "crashed"
    /\ closed' = TRUE
    /\ recv' = FALSE /\ connected' = FALSE
    /\ loop' = "dead"
    /\ sock' = NoSocket /\ up' = <<>> /\ down' = <<>>
    /\ UNCHANGED <<doc, pending, synced, sends, world, server>>

------------------------------------------------------------------------------
(* The server and the network.                                             *)

\* A socket's frames wait until its token is accepted; with an expired one
\* none of them is ever read.
ServerAuth ==
    /\ up # <<>> /\ Head(up).type = "auth"
    /\ tokenOk
    /\ up' = Tail(up)
    /\ sock' = [sock EXCEPT !.accepted = TRUE]
    /\ UNCHANGED <<app, doc, status, loop, recv, sends, down, world, server>>

\* SyncStep1 is answered with what the client lacks and the server's own
\* SyncStep1; updates are merged.
ServerReceive ==
    /\ up # <<>> /\ sock.accepted
    /\ LET f == Head(up) IN
        \/ /\ f.type = "step1"
           /\ down' = IF sock.open
                      THEN down \o <<FrameOf("step2", sdoc \ f.ops), FrameOf("step1", sdoc)>>
                      ELSE down
           /\ UNCHANGED sdoc
        \/ /\ f.type \in {"step2", "update"}
           /\ sdoc' = sdoc \cup f.ops
           /\ UNCHANGED down
    /\ up' = Tail(up)
    /\ UNCHANGED <<app, doc, status, loop, recv, sends, sock, world, saved>>

\* Another client's operation is merged and passed on.
PeerEdit(o) ==
    /\ o \in Theirs \ sdoc
    /\ sdoc' = sdoc \cup {o}
    /\ down' = IF sock.open /\ sock.accepted
               THEN Append(down, FrameOf("update", {o})) ELSE down
    /\ UNCHANGED <<app, doc, status, loop, recv, sends, sock, up, world, saved>>

Store ==
    /\ saved # sdoc
    /\ saved' = sdoc
    /\ UNCHANGED <<app, doc, status, loop, recv, sends, sock, wire, world, sdoc>>

\* A prefix of what the server sent has arrived; what it has not read is lost.
Drop(n) ==
    /\ sock.open
    /\ Fault
    /\ net' = FALSE
    /\ sock' = [sock EXCEPT !.open = FALSE]
    /\ up' = <<>> /\ down' = SubSeq(down, 1, n)
    /\ UNCHANGED <<app, doc, status, loop, recv, sends, tokenOk, server>>

\* The server stops without storing, and every socket with it.
ServerCrash ==
    /\ net
    /\ Fault
    /\ net' = FALSE
    /\ sdoc' = saved
    /\ sock' = [sock EXCEPT !.open = FALSE]
    /\ up' = <<>>
    /\ UNCHANGED <<app, doc, status, loop, recv, sends, down, tokenOk, saved>>

Back ==
    /\ ~net
    /\ net' = TRUE
    /\ UNCHANGED <<app, doc, status, loop, recv, sends, sock, wire, tokenOk, server, faults>>

\* The connection keeps the token it was made with.
TokenExpires ==
    /\ tokenOk
    /\ Fault
    /\ tokenOk' = FALSE
    /\ UNCHANGED <<app, doc, status, loop, recv, sends, sock, wire, net, server>>

ClientStep ==
    \/ ConnectOk \/ ConnectRefused \/ ConnectInvalid \/ Retry
    \/ Receive \/ ReceiveEnds
    \/ \E o \in Ours : SendUpdate(o)

ServerStep == ServerAuth \/ ServerReceive

ConnNext ==
    \/ ClientStep \/ ServerStep
    \/ \E o \in Ours : Edit(o)
    \/ \E o \in Theirs : PeerEdit(o)
    \/ Store \/ Back \/ TokenExpires \/ Leave \/ PollFails \/ ServerCrash
    \/ \E n \in 0 .. Len(down) : Drop(n)

ConnSpec == ConnInit /\ [][ConnNext]_connVars

\* Tasks of the event loop run, the server reads what it was sent, and an
\* outage ends.  Nothing makes a user edit or leave, or a fault happen.
ConnFairness ==
    /\ WF_connVars(ConnectOk)
    /\ WF_connVars(ConnectRefused)
    /\ WF_connVars(Retry)
    /\ WF_connVars(Receive)
    /\ WF_connVars(ReceiveEnds)
    /\ \A o \in Ours : WF_connVars(SendUpdate(o))
    /\ WF_connVars(ServerAuth)
    /\ WF_connVars(ServerReceive)
    /\ WF_connVars(Back)

ConnFairSpec == ConnSpec /\ ConnFairness

------------------------------------------------------------------------------
(* Properties.                                                             *)

\* Operations on their way to the server.
InFlight == sends \cup UNION {f.ops : f \in {g \in ToSet(up) : g.type # "step1"}}

\* Once the handshake of the socket is answered, nothing the document holds
\* is known to the client alone: it is on the server, or in a frame or a
\* send task that goes there.  Edits made offline, edits made between two
\* steps of the handshake, edits sent to a socket that died and operations a
\* crash of the server took back are all covered by the one answer.
HandshakeCarriesAll ==
    sock.open /\ sock.answered => doc \subseteq sdoc \cup InFlight

\* The ways in which this client stops trying.
Over == app # "running" \/ loop = "dead" \/ ~tokenOk

\* Every edit reaches the server for good, through drops and through crashes
\* that take back what the server had not stored, as long as the client
\* stays in the room, its token stays valid and connecting fails with
\* nothing but an OSError.
EditsReachServer ==
    \A o \in Ours : <>[](o \in doc => o \in sdoc \/ Over)

==============================================================================
