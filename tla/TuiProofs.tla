------------------------------- MODULE TuiProofs -------------------------------
(***************************************************************************)
(* Proofs about the terminal's connection and its editor, which share the  *)
(* document: TuiConnection keeps its operations, for any of this client    *)
(* and of the others and any number of faults, TuiEditor its content, for  *)
(* any text.                                                               *)
(*                                                                         *)
(* The editor: the primitives of editing.py act on places, whatever the    *)
(* runs, their marks and the atoms; a letter lands at the caret; and the   *)
(* caret of a document with blocks stands on a leaf, within its text.  The *)
(* primitives are recursions over the segments of a leaf.  Facts about all *)
(* sequences are shown by induction over a set: NatInduct and SeqInduct    *)
(* take the set of the values for which the fact holds.                    *)
(***************************************************************************)
EXTENDS TuiConnection, TuiEditor, SequenceTheorems, WellFoundedInduction, TLAPS


------------------------------------------------------------------------------
(* The connection: the inductive invariant. *)

Carried == UNION {f.ops : f \in {g \in ToSet(up) : g.type # "step1"}}

(* On an open socket: what the server has sent it still holds, the client  *)
(* counts as connected, and a token's frame carries nothing.               *)
OpenInv ==
    sock.open =>
        /\ connected
        /\ \A f \in ToSet(down) : f.ops \subseteq sdoc
        /\ \A f \in ToSet(up) : f.type = "auth" => f.ops = {}

(* A closed connection takes no more edits, and may reconnect all the      *)
(* same: what its send tasks drop, the handshake carries.                  *)
ClosedInv ==
    closed =>
        /\ app # "running"
        /\ sock.open /\ sock.answered => doc \subseteq sdoc \cup Carried

IInv == ConnTypeOK /\ HandshakeCarriesAll /\ OpenInv /\ ClosedInv

------------------------------------------------------------------------------
(* Lemmas about sequences of frames. *)

LEMMA Pushed ==
    ASSUME NEW S, NEW s \in Seq(S), NEW e \in S
    PROVE  Append(s, e) \in Seq(S) /\ ToSet(Append(s, e)) = ToSet(s) \cup {e}
<1>1. Append(s, e) \in Seq(S) /\ Len(Append(s, e)) = Len(s) + 1 /\ Len(s) \in Nat
  OBVIOUS
<1>2. \A i \in 1 .. Len(s) : Append(s, e)[i] = s[i]
  OBVIOUS
<1>3. Append(s, e)[Len(s) + 1] = e
  OBVIOUS
<1>. QED BY <1>1, <1>2, <1>3 DEF ToSet

LEMMA Popped ==
    ASSUME NEW S, NEW s \in Seq(S), s # <<>>
    PROVE  /\ Head(s) \in S /\ Tail(s) \in Seq(S)
           /\ ToSet(s) = ToSet(Tail(s)) \cup {Head(s)}
<1>1. /\ Head(s) = s[1] /\ Head(s) \in S /\ Tail(s) \in Seq(S)
      /\ Len(Tail(s)) = Len(s) - 1 /\ Len(s) \in Nat /\ Len(s) > 0
  OBVIOUS
<1>2. \A i \in 1 .. Len(s) - 1 : Tail(s)[i] = s[i + 1]
  OBVIOUS
<1>3. \A i \in 2 .. Len(s) : i - 1 \in 1 .. Len(s) - 1 /\ s[i] = Tail(s)[i - 1]
  BY <1>1, <1>2
<1>4. ASSUME NEW x \in ToSet(s) PROVE x \in ToSet(Tail(s)) \cup {Head(s)}
  <2>1. PICK i \in 1 .. Len(s) : x = s[i]
    BY <1>4 DEF ToSet
  <2>2. i = 1 \/ i \in 2 .. Len(s)
    BY <1>1
  <2>3. CASE i = 1
    BY <1>1, <2>1, <2>3
  <2>4. CASE i \in 2 .. Len(s)
    <3>1. i - 1 \in DOMAIN Tail(s)
      BY <1>1, <1>3, <2>4
    <3>2. x = Tail(s)[i - 1]
      BY <1>3, <2>1, <2>4
    <3>. QED BY <3>1, <3>2 DEF ToSet
  <2>. QED BY <2>2, <2>3, <2>4
<1>5. ASSUME NEW x \in ToSet(Tail(s)) PROVE x \in ToSet(s)
  <2>1. PICK i \in 1 .. Len(s) - 1 : x = Tail(s)[i]
    BY <1>1, <1>5 DEF ToSet
  <2>2. i + 1 \in 1 .. Len(s) /\ x = s[i + 1]
    BY <1>1, <1>2, <2>1
  <2>. QED BY <2>2 DEF ToSet
<1>6. Head(s) \in ToSet(s)
  BY <1>1 DEF ToSet
<1>. QED BY <1>1, <1>4, <1>5, <1>6

LEMMA OneMore ==
    ASSUME NEW S, NEW s \in Seq(S), NEW x \in S, NEW y \in S
    PROVE  s \o <<x, y>> \in Seq(S) /\ ToSet(s \o <<x, y>>) \subseteq ToSet(s) \cup {x, y}
BY DEF ToSet

LEMMA CutWire ==
    ASSUME NEW S, NEW s \in Seq(S), NEW n \in 0 .. Len(s)
    PROVE  SubSeq(s, 1, n) \in Seq(S)
OBVIOUS

LEMMA NoFrames == <<>> \in Seq(Frame)
OBVIOUS

------------------------------------------------------------------------------
LEMMA InitHolds == ConnectionAssumption /\ ConnInit => IInv
<1>. SUFFICES ASSUME ConnectionAssumption, ConnInit PROVE IInv
  OBVIOUS
<1>1. ~sock.open /\ sock \in Socket
  BY DEF ConnInit, NoSocket, Socket
<1>2. up \in Seq(Frame) /\ down \in Seq(Frame)
  BY NoFrames DEF ConnInit
<1>3. /\ connected \in BOOLEAN /\ synced \in BOOLEAN /\ closed \in BOOLEAN
      /\ recv \in BOOLEAN /\ tokenOk \in BOOLEAN /\ net \in BOOLEAN
  BY DEF ConnInit
<1>4. faults \in 0 .. MaxFaults
  BY DEF ConnectionAssumption, ConnInit
<1>5. ConnTypeOK
  BY <1>1, <1>2, <1>3, <1>4 DEF ConnInit, ConnTypeOK
<1>. QED BY <1>1, <1>5 DEF ConnInit, IInv, HandshakeCarriesAll, OpenInv, ClosedInv

LEMMA Faults ==
    ASSUME ConnectionAssumption, IInv, Fault \/ UNCHANGED faults
    PROVE  faults' \in 0 .. MaxFaults
BY DEF ConnectionAssumption, IInv, ConnTypeOK, Fault

(* The socket's frames are as they were, or there is no open socket.       *)
LEMMA WireAlone ==
    ASSUME IInv, UNCHANGED <<doc, sends, connected, closed, app, sock, up, down, sdoc>>
    PROVE  HandshakeCarriesAll' /\ OpenInv' /\ ClosedInv'
BY DEF IInv, HandshakeCarriesAll, OpenInv, ClosedInv, InFlight, Carried

LEMMA NoOpenSocket ==
    ASSUME IInv, ~sock'.open, closed' => app' # "running"
    PROVE  HandshakeCarriesAll' /\ OpenInv' /\ ClosedInv'
BY DEF HandshakeCarriesAll, OpenInv, ClosedInv

------------------------------------------------------------------------------
(* Opening a socket. *)

LEMMA ConnectKeeps ==
    ASSUME IInv, ConnectOk PROVE IInv'
<1>. DEFINE a == FrameOf("auth", {})
            b == FrameOf("step1", doc)
<1>1. /\ sock' = [NoSocket EXCEPT !.open = TRUE]
      /\ up' = <<a, b>> /\ down' = <<>> /\ connected' = TRUE
      /\ pending' = (IF connected THEN pending ELSE 0) /\ recv' = TRUE /\ loop' = "idle"
      /\ UNCHANGED <<app, doc, synced, closed, sends, tokenOk, net, faults, sdoc, saved>>
  BY DEF ConnectOk, world, server
<1>2. a \in Frame /\ b \in Frame /\ a.ops = {} /\ b.type = "step1"
  BY DEF IInv, ConnTypeOK, FrameOf, Frame
<1>3. sock' \in Socket /\ ~sock'.answered
  BY <1>1 DEF NoSocket, Socket
<1>. HIDE DEF a, b
<1>4. up' \in Seq(Frame) /\ down' \in Seq(Frame) /\ ToSet(up') = {a, b} /\ ToSet(down') = {}
  BY <1>1, <1>2 DEF ToSet
<1>5. ConnTypeOK'
  BY <1>1, <1>3, <1>4 DEF IInv, ConnTypeOK
<1>6. OpenInv'
  BY <1>1, <1>2, <1>4 DEF OpenInv, FrameOf, b
<1>7. HandshakeCarriesAll' /\ ClosedInv'
  BY <1>1, <1>3 DEF IInv, HandshakeCarriesAll, ClosedInv
<1>. QED BY <1>5, <1>6, <1>7 DEF IInv

LEMMA LoopKeeps ==
    ASSUME IInv, ConnectRefused \/ ConnectInvalid \/ Retry PROVE IInv'
<1>1. UNCHANGED <<doc, connected, pending, synced, closed, recv, sends, sock, up, down,
                  tokenOk, net, faults, sdoc, saved>>
  BY DEF ConnectRefused, ConnectInvalid, Retry, status, wire, world, server
<1>2. loop' \in {"connect", "backoff", "dead"}
      /\ (app' = app \/ app' = "crashed")
  BY DEF ConnectRefused, ConnectInvalid, Retry
<1>3. ConnTypeOK'
  BY <1>1, <1>2 DEF IInv, ConnTypeOK
<1>4. HandshakeCarriesAll' /\ OpenInv' /\ ClosedInv'
  BY <1>1, <1>2 DEF IInv, HandshakeCarriesAll, OpenInv, ClosedInv, InFlight, Carried
<1>. QED BY <1>3, <1>4 DEF IInv

------------------------------------------------------------------------------
(* The receive loop. *)

(* The answer to a SyncStep1 holds whatever of the document the server has *)
(* not: the state vector in it is one the server still covers.             *)
LEMMA ReceiveKeeps ==
    ASSUME IInv, Receive PROVE IInv'
<1>. DEFINE f == Head(down)
            g == FrameOf("step2", Lacks(f))
<1>0. /\ down' = Tail(down)
      /\ UNCHANGED <<app, connected, pending, closed, loop, recv, sends, tokenOk, net,
                     faults, sdoc, saved>>
  BY DEF Receive, world, server
<1>1. /\ f \in Frame /\ down' \in Seq(Frame)
      /\ ToSet(down) = ToSet(down') \cup {f}
  BY <1>0, Popped DEF IInv, ConnTypeOK, Receive
<1>2. sock.open => f.ops \subseteq sdoc /\ \A h \in ToSet(down') : h.ops \subseteq sdoc
  BY <1>1 DEF IInv, OpenInv
<1>3. CASE f.type = "step1" /\ sock.open
  <2>. DEFINE k == [sock EXCEPT !.answered = TRUE]
  <2>1. up' = Append(up, g) /\ sock' = k /\ UNCHANGED <<doc, synced>>
    BY <1>3 DEF Receive
  <2>2. g \in Frame /\ g.type = "step2" /\ g.ops = doc \ f.ops
    BY DEF IInv, ConnTypeOK, FrameOf, Frame, Lacks
  <2>3. k \in Socket /\ k.open = sock.open
    BY DEF IInv, ConnTypeOK, Socket
  <2>. HIDE DEF f, g, k
  <2>4. up' \in Seq(Frame) /\ ToSet(up') = ToSet(up) \cup {g}
    BY <2>1, <2>2, Pushed DEF IInv, ConnTypeOK
  <2>5. doc' \subseteq sdoc' \cup Carried'
    BY <1>0, <1>2, <1>3, <2>1, <2>2, <2>4 DEF Carried
  <2>6. ConnTypeOK'
    BY <1>0, <1>1, <2>1, <2>3, <2>4 DEF IInv, ConnTypeOK
  <2>7. HandshakeCarriesAll' /\ ClosedInv'
    BY <1>0, <2>5 DEF IInv, HandshakeCarriesAll, ClosedInv, InFlight, Carried
  <2>8. OpenInv'
    BY <1>0, <1>2, <1>3, <2>1, <2>2, <2>3, <2>4 DEF IInv, OpenInv
  <2>. QED BY <2>6, <2>7, <2>8 DEF IInv
<1>4. CASE f.type = "step1" /\ ~sock.open
  <2>1. UNCHANGED <<doc, synced, up, sock>>
    BY <1>4 DEF Receive
  <2>2. ConnTypeOK'
    BY <1>0, <1>1, <2>1 DEF IInv, ConnTypeOK
  <2>. QED BY <1>0, <1>4, <2>1, <2>2, NoOpenSocket DEF IInv, ClosedInv
<1>5. CASE f.type \in {"step2", "update"}
  <2>1. doc' = doc \cup f.ops /\ synced' = (synced \/ f.type = "step2") /\ UNCHANGED <<up, sock>>
    BY <1>5 DEF Receive
  <2>2. synced' \in BOOLEAN
    BY <2>1
  <2>3. f.ops \subseteq Ops
    BY <1>1 DEF Frame
  <2>. HIDE DEF f
  <2>4. ConnTypeOK'
    BY <1>0, <1>1, <2>1, <2>2, <2>3 DEF IInv, ConnTypeOK
  <2>5. HandshakeCarriesAll' /\ ClosedInv'
    BY <1>0, <1>2, <2>1 DEF IInv, HandshakeCarriesAll, ClosedInv, InFlight, Carried
  <2>6. OpenInv'
    BY <1>0, <1>2, <2>1 DEF IInv, OpenInv
  <2>. QED BY <2>4, <2>5, <2>6 DEF IInv
<1>. QED BY <1>3, <1>4, <1>5 DEF Receive

LEMMA ReceiveEndsKeeps ==
    ASSUME IInv, ReceiveEnds PROVE IInv'
<1>1. /\ ~sock.open /\ recv' = FALSE /\ connected' = FALSE /\ loop' \in {loop, "connect"}
      /\ UNCHANGED <<app, doc, pending, synced, closed, sends, sock, up, down, tokenOk,
                     net, faults, sdoc, saved>>
  BY DEF ReceiveEnds, wire, world, server
<1>2. ConnTypeOK'
  BY <1>1 DEF IInv, ConnTypeOK
<1>. QED BY <1>1, <1>2, NoOpenSocket DEF IInv, ClosedInv

------------------------------------------------------------------------------
(* Local edits. *)

LEMMA EditKeeps ==
    ASSUME IInv, NEW o \in Ours, Edit(o) PROVE IInv'
<1>1. /\ app = "running" /\ doc' = doc \cup {o}
      /\ UNCHANGED <<app, connected, synced, closed, loop, recv, sock, up, down, tokenOk,
                     net, faults, sdoc, saved>>
  BY DEF Edit, wire, world, server
<1>2. /\ connected => sends' = sends \cup {o} /\ pending' = pending
      /\ ~connected => sends' = sends /\ pending' = pending + 1
  BY DEF Edit
<1>3. ConnTypeOK'
  BY <1>1, <1>2 DEF IInv, ConnTypeOK, Ops
<1>4. HandshakeCarriesAll'
  BY <1>1, <1>2 DEF IInv, HandshakeCarriesAll, OpenInv, InFlight
<1>5. OpenInv' /\ ClosedInv'
  BY <1>1 DEF IInv, OpenInv, ClosedInv
<1>. QED BY <1>3, <1>4, <1>5 DEF IInv

LEMMA SendKeeps ==
    ASSUME IInv, NEW o \in Ours, SendUpdate(o) PROVE IInv'
<1>. DEFINE g == FrameOf("update", {o})
<1>1. /\ sends' = sends \ {o}
      /\ up' = IF closed \/ ~sock.open THEN up ELSE Append(up, g)
      /\ UNCHANGED <<app, doc, connected, pending, synced, closed, loop, recv, sock, down,
                     tokenOk, net, faults, sdoc, saved>>
  BY DEF SendUpdate, status, world, server
<1>2. g \in Frame /\ g.type = "update" /\ g.ops = {o}
  BY DEF FrameOf, Frame, Ops
<1>. HIDE DEF g
<1>3. CASE closed \/ ~sock.open
  <2>1. up' = up
    BY <1>1, <1>3
  <2>2. ConnTypeOK'
    BY <1>1, <2>1 DEF IInv, ConnTypeOK
  <2>3. HandshakeCarriesAll' /\ OpenInv' /\ ClosedInv'
    BY <1>1, <1>3, <2>1
       DEF IInv, HandshakeCarriesAll, OpenInv, ClosedInv, InFlight, Carried
  <2>. QED BY <2>2, <2>3 DEF IInv
<1>4. CASE ~closed /\ sock.open
  <2>1. up' \in Seq(Frame) /\ ToSet(up') = ToSet(up) \cup {g}
    BY <1>1, <1>2, <1>4, Pushed DEF IInv, ConnTypeOK
  <2>2. ConnTypeOK'
    BY <1>1, <2>1 DEF IInv, ConnTypeOK
  <2>3. InFlight \subseteq InFlight'
    BY <1>1, <1>2, <2>1 DEF InFlight
  <2>4. HandshakeCarriesAll'
    BY <1>1, <2>3 DEF IInv, HandshakeCarriesAll
  <2>5. OpenInv' /\ ClosedInv'
    BY <1>1, <1>2, <1>4, <2>1 DEF IInv, OpenInv, ClosedInv
  <2>. QED BY <2>2, <2>4, <2>5 DEF IInv
<1>. QED BY <1>3, <1>4

------------------------------------------------------------------------------
(* The app. *)

LEMMA LeaveKeeps ==
    ASSUME IInv, Leave PROVE IInv'
<1>1. /\ app' = "left" /\ closed' = TRUE /\ recv' = FALSE /\ connected' = FALSE
      /\ sock' = [sock EXCEPT !.open = FALSE] /\ down' = <<>>
      /\ UNCHANGED <<doc, pending, synced, loop, sends, up, tokenOk, net, faults, sdoc, saved>>
  BY DEF Leave, world, server
<1>2. sock' \in Socket /\ ~sock'.open
  BY <1>1 DEF IInv, ConnTypeOK, Socket
<1>3. ConnTypeOK'
  BY <1>1, <1>2, NoFrames DEF IInv, ConnTypeOK
<1>. QED BY <1>1, <1>2, <1>3, NoOpenSocket DEF IInv

LEMMA PollFailsKeeps ==
    ASSUME IInv, PollFails PROVE IInv'
<1>1. /\ app' = "crashed" /\ closed' = TRUE /\ recv' = FALSE /\ connected' = FALSE
      /\ loop' = "dead" /\ sock' = NoSocket /\ up' = <<>> /\ down' = <<>>
      /\ UNCHANGED <<doc, pending, synced, sends, tokenOk, net, faults, sdoc, saved>>
  BY DEF PollFails, world, server
<1>2. sock' \in Socket /\ ~sock'.open
  BY <1>1 DEF NoSocket, Socket
<1>3. ConnTypeOK'
  BY <1>1, <1>2, NoFrames DEF IInv, ConnTypeOK
<1>. QED BY <1>1, <1>2, <1>3, NoOpenSocket DEF IInv

------------------------------------------------------------------------------
(* The server and the network. *)

LEMMA ServerAuthKeeps ==
    ASSUME IInv, ServerAuth PROVE IInv'
<1>. DEFINE k == [sock EXCEPT !.accepted = TRUE]
<1>1. /\ up # <<>> /\ Head(up).type = "auth" /\ up' = Tail(up) /\ sock' = k
      /\ UNCHANGED <<app, doc, connected, pending, synced, closed, loop, recv, sends, down,
                     tokenOk, net, faults, sdoc, saved>>
  BY DEF ServerAuth, status, world, server
<1>2. up' \in Seq(Frame) /\ ToSet(up) = ToSet(up') \cup {Head(up)}
  BY <1>1, Popped DEF IInv, ConnTypeOK
<1>3. k \in Socket /\ k.open = sock.open /\ k.answered = sock.answered
  BY DEF IInv, ConnTypeOK, Socket
<1>. HIDE DEF k
<1>4. sock.open => Carried \subseteq Carried'
  BY <1>1, <1>2 DEF IInv, OpenInv, Carried
<1>5. ConnTypeOK'
  BY <1>1, <1>2, <1>3 DEF IInv, ConnTypeOK
<1>6. HandshakeCarriesAll' /\ ClosedInv'
  BY <1>1, <1>3, <1>4 DEF IInv, HandshakeCarriesAll, ClosedInv, InFlight, Carried
<1>7. OpenInv'
  BY <1>1, <1>2, <1>3 DEF IInv, OpenInv
<1>. QED BY <1>5, <1>6, <1>7 DEF IInv

LEMMA ServerReceiveKeeps ==
    ASSUME IInv, ServerReceive PROVE IInv'
<1>. DEFINE f == Head(up)
            x == FrameOf("step2", sdoc \ f.ops)
            y == FrameOf("step1", sdoc)
<1>1. /\ up # <<>> /\ up' = Tail(up)
      /\ UNCHANGED <<app, doc, connected, pending, synced, closed, loop, recv, sends, sock,
                     tokenOk, net, faults, saved>>
  BY DEF ServerReceive, status, world
<1>2. f \in Frame /\ up' \in Seq(Frame) /\ ToSet(up) = ToSet(up') \cup {f}
  BY <1>1, Popped DEF IInv, ConnTypeOK
<1>3. CASE f.type = "step1"
  <2>1. sdoc' = sdoc /\ down' = IF sock.open THEN down \o <<x, y>> ELSE down
    BY <1>3 DEF ServerReceive
  <2>2. x \in Frame /\ y \in Frame /\ x.ops \subseteq sdoc /\ y.ops = sdoc
    BY DEF IInv, ConnTypeOK, FrameOf, Frame
  <2>. HIDE DEF x, y
  <2>3. down' \in Seq(Frame) /\ \A h \in ToSet(down') : h \in ToSet(down) \/ h \in {x, y}
    BY <2>1, <2>2, OneMore DEF IInv, ConnTypeOK
  <2>4. Carried' = Carried
    BY <1>2, <1>3 DEF Carried
  <2>. HIDE DEF f
  <2>5. ConnTypeOK'
    BY <1>1, <1>2, <2>1, <2>3 DEF IInv, ConnTypeOK
  <2>6. HandshakeCarriesAll' /\ ClosedInv'
    BY <1>1, <2>1, <2>4 DEF IInv, HandshakeCarriesAll, ClosedInv, InFlight, Carried
  <2>7. OpenInv'
    BY <1>1, <1>2, <2>1, <2>2, <2>3 DEF IInv, OpenInv
  <2>. QED BY <2>5, <2>6, <2>7 DEF IInv
<1>4. CASE f.type \in {"step2", "update"}
  <2>1. sdoc' = sdoc \cup f.ops /\ down' = down
    BY <1>4 DEF ServerReceive
  <2>2. f.ops \subseteq Ops
    BY <1>2 DEF Frame
  <2>3. Carried \subseteq Carried' \cup f.ops
    BY <1>2 DEF Carried
  <2>. HIDE DEF f
  <2>4. ConnTypeOK'
    BY <1>1, <1>2, <2>1, <2>2 DEF IInv, ConnTypeOK
  <2>5. HandshakeCarriesAll' /\ ClosedInv'
    BY <1>1, <2>1, <2>3 DEF IInv, HandshakeCarriesAll, ClosedInv, InFlight, Carried
  <2>6. OpenInv'
    BY <1>1, <1>2, <2>1 DEF IInv, OpenInv
  <2>. QED BY <2>4, <2>5, <2>6 DEF IInv
<1>. QED BY <1>3, <1>4 DEF ServerReceive

LEMMA PeerEditKeeps ==
    ASSUME IInv, NEW o \in Theirs, PeerEdit(o) PROVE IInv'
<1>. DEFINE g == FrameOf("update", {o})
<1>1. /\ sdoc' = sdoc \cup {o}
      /\ down' = Append(down, g) \/ down' = down
      /\ UNCHANGED <<app, doc, connected, pending, synced, closed, loop, recv, sends, sock,
                     up, tokenOk, net, faults, saved>>
  BY DEF PeerEdit, status, world
<1>2. g \in Frame /\ g.ops = {o}
  BY DEF FrameOf, Frame, Ops
<1>. HIDE DEF g
<1>3. down' \in Seq(Frame) /\ \A h \in ToSet(down') : h \in ToSet(down) \/ h = g
  <2>1. CASE down' = down
    BY <2>1 DEF IInv, ConnTypeOK
  <2>2. CASE down' = Append(down, g)
    BY <1>2, <2>2, Pushed DEF IInv, ConnTypeOK
  <2>. QED BY <1>1, <2>1, <2>2
<1>4. ConnTypeOK'
  BY <1>1, <1>3 DEF IInv, ConnTypeOK, Ops
<1>5. HandshakeCarriesAll' /\ ClosedInv'
  BY <1>1 DEF IInv, HandshakeCarriesAll, ClosedInv, InFlight, Carried
<1>6. OpenInv'
  BY <1>1, <1>2, <1>3 DEF IInv, OpenInv
<1>. QED BY <1>4, <1>5, <1>6 DEF IInv

LEMMA WorldKeeps ==
    ASSUME ConnectionAssumption, IInv, Store \/ Back \/ TokenExpires PROVE IInv'
<1>1. UNCHANGED <<app, doc, connected, pending, synced, closed, loop, recv, sends, sock,
                  up, down, sdoc>>
  BY DEF Store, Back, TokenExpires, status, wire, server
<1>2. /\ saved' \in {saved, sdoc} /\ net' \in BOOLEAN /\ tokenOk' \in BOOLEAN
      /\ (faults' = faults \/ Fault)
  BY DEF Store, Back, TokenExpires, world, server, IInv, ConnTypeOK
<1>3. ConnTypeOK'
  BY <1>1, <1>2, Faults DEF IInv, ConnTypeOK
<1>. QED BY <1>1, <1>3, WireAlone DEF IInv

LEMMA DropKeeps ==
    ASSUME ConnectionAssumption, IInv, NEW n \in 0 .. Len(down), Drop(n) PROVE IInv'
<1>1. /\ Fault /\ net' = FALSE /\ sock' = [sock EXCEPT !.open = FALSE]
      /\ up' = <<>> /\ down' = SubSeq(down, 1, n)
      /\ UNCHANGED <<app, doc, connected, pending, synced, closed, loop, recv, sends,
                     tokenOk, sdoc, saved>>
  BY DEF Drop, status, server
<1>2. sock' \in Socket /\ ~sock'.open
  BY <1>1 DEF IInv, ConnTypeOK, Socket
<1>3. down' \in Seq(Frame)
  BY <1>1, CutWire DEF IInv, ConnTypeOK
<1>4. ConnTypeOK'
  BY <1>1, <1>2, <1>3, NoFrames, Faults DEF IInv, ConnTypeOK
<1>. QED BY <1>1, <1>2, <1>4, NoOpenSocket DEF IInv, ClosedInv

LEMMA ServerCrashKeeps ==
    ASSUME ConnectionAssumption, IInv, ServerCrash PROVE IInv'
<1>1. /\ Fault /\ net' = FALSE /\ sdoc' = saved /\ sock' = [sock EXCEPT !.open = FALSE]
      /\ up' = <<>>
      /\ UNCHANGED <<app, doc, connected, pending, synced, closed, loop, recv, sends, down,
                     tokenOk, saved>>
  BY DEF ServerCrash, status
<1>2. sock' \in Socket /\ ~sock'.open
  BY <1>1 DEF IInv, ConnTypeOK, Socket
<1>3. ConnTypeOK'
  BY <1>1, <1>2, NoFrames, Faults DEF IInv, ConnTypeOK
<1>. QED BY <1>1, <1>2, <1>3, NoOpenSocket DEF IInv, ClosedInv

LEMMA StutterKeeps ==
    ASSUME IInv, UNCHANGED connVars PROVE IInv'
<1>1. ConnTypeOK'
  BY DEF IInv, ConnTypeOK, connVars
<1>. QED BY <1>1, WireAlone DEF IInv, connVars

LEMMA StepKeeps == ConnectionAssumption /\ IInv /\ [ConnNext]_connVars => IInv'
<1>. SUFFICES ASSUME ConnectionAssumption, IInv, [ConnNext]_connVars PROVE IInv'
  OBVIOUS
<1>1. ASSUME ClientStep PROVE IInv'
  BY <1>1, ConnectKeeps, LoopKeeps, ReceiveKeeps, ReceiveEndsKeeps, SendKeeps DEF ClientStep
<1>2. ASSUME ServerStep PROVE IInv'
  BY <1>2, ServerAuthKeeps, ServerReceiveKeeps DEF ServerStep
<1>3. ASSUME NEW o \in Ours, Edit(o) PROVE IInv'
  BY <1>3, EditKeeps
<1>4. ASSUME NEW o \in Theirs, PeerEdit(o) PROVE IInv'
  BY <1>4, PeerEditKeeps
<1>5. ASSUME NEW n \in 0 .. Len(down), Drop(n) PROVE IInv'
  BY <1>5, DropKeeps
<1>. QED BY <1>1, <1>2, <1>3, <1>4, <1>5, WorldKeeps, LeaveKeeps, PollFailsKeeps,
            ServerCrashKeeps, StutterKeeps DEF ConnNext

------------------------------------------------------------------------------
(* The connection: theorems. *)

(* The strengthened invariant holds of every reachable state.              *)
THEOREM ConnInvariant == ConnectionAssumption => (ConnSpec => []IInv)
<1>. SUFFICES ASSUME ConnectionAssumption PROVE ConnSpec => []IInv
  OBVIOUS
<1>1. ConnInit => IInv
  BY InitHolds
<1>2. IInv /\ [ConnNext]_connVars => IInv'
  BY StepKeeps
<1>. QED BY <1>1, <1>2, PTL DEF ConnSpec

(* Every variable keeps its type.                                          *)
THEOREM ConnTypeCorrect == ConnectionAssumption => (ConnSpec => []ConnTypeOK)
<1>. SUFFICES ASSUME ConnectionAssumption PROVE ConnSpec => []ConnTypeOK
  OBVIOUS
<1>1. IInv => ConnTypeOK
  BY DEF IInv
<1>. QED BY <1>1, ConnInvariant, PTL

(* For any edits and any drops, crashes and reconnects, a client that has  *)
(* answered the handshake holds nothing that is not on the server or on    *)
(* its way there (connection.py _handle_frame, _on_local_transaction).     *)
THEOREM HandshakeAlwaysCarriesAll ==
    ConnectionAssumption => (ConnSpec => []HandshakeCarriesAll)
<1>. SUFFICES ASSUME ConnectionAssumption PROVE ConnSpec => []HandshakeCarriesAll
  OBVIOUS
<1>1. IInv => HandshakeCarriesAll
  BY DEF IInv
<1>. QED BY <1>1, ConnInvariant, PTL


------------------------------------------------------------------------------
(* The editor: induction.                                                  *)

\* A set that has 0 and the successor of each of its naturals has them all.
LEMMA NatInduct ==
    ASSUME NEW T, 0 \in T, \A n \in Nat : n \in T => n + 1 \in T
    PROVE  Nat \subseteq T
<1>. DEFINE B == Nat \ T
<1>. SUFFICES ASSUME B # {} PROVE FALSE
  OBVIOUS
<1>1. \E x \in B : \A y \in B : ~(<<y, x>> \in OpToRel(<, Nat))
  BY WFMin, NatLessThanWellFounded
<1>2. PICK x \in B : \A y \in B : ~(<<y, x>> \in OpToRel(<, Nat))
  BY <1>1
<1>3. \A y \in B : ~(y < x)
  BY <1>2 DEF OpToRel
<1>4. x # 0 /\ x - 1 \in Nat
  OBVIOUS
<1>5. x - 1 \in T
  BY <1>3, <1>4
<1>6. x - 1 + 1 \in T
  BY <1>4, <1>5
<1>. QED BY <1>6

\* A set that has the empty sequence and is closed under Append has every
\* sequence.
LEMMA SeqInduct ==
    ASSUME NEW S, NEW T, <<>> \in T,
           \A u \in Seq(S) : \A e \in S : u \in T => Append(u, e) \in T
    PROVE  Seq(S) \subseteq T
<1>. DEFINE N == {n \in Nat : \A s \in Seq(S) : Len(s) = n => s \in T}
<1>1. 0 \in N
  <2>1. \A s \in Seq(S) : Len(s) = 0 => s = <<>>
    BY EmptySeq
  <2>. QED BY <2>1
<1>2. ASSUME NEW n \in Nat, n \in N PROVE n + 1 \in N
  <2>. SUFFICES ASSUME NEW s \in Seq(S), Len(s) = n + 1 PROVE s \in T
    OBVIOUS
  <2>1. s # <<>>
    BY <1>2, EmptySeq
  <2>2. PICK u \in Seq(S), e \in S : s = Append(u, e)
    BY <2>1, SequenceEmptyOrAppend
  <2>3. Len(s) = Len(u) + 1 /\ Len(u) \in Nat
    BY <2>2, AppendProperties, LenProperties
  <2>4. u \in T
    BY <1>2, <2>3
  <2>. QED BY <2>2, <2>4
<1>3. Nat \subseteq N
  <2>. HIDE DEF N
  <2>. QED BY <1>1, <1>2, NatInduct
<1>. QED BY <1>3, LenProperties

------------------------------------------------------------------------------
(* FlattenSeq.                                                             *)

FlatBy(g, ss, n) == g = [i \in 1 .. n |-> IF i = 1 THEN ss[i] ELSE g[i - 1] \o ss[i]]

LEMMA FlatRead ==
    ASSUME NEW g, NEW ss, NEW n, FlatBy(g, ss, n)
    PROVE  \A i \in 1 .. n : g[i] = IF i = 1 THEN ss[i] ELSE g[i - 1] \o ss[i]
<1>1. g = [i \in 1 .. n |-> IF i = 1 THEN ss[i] ELSE g[i - 1] \o ss[i]]
  BY DEF FlatBy
<1>. DEFINE G == [i \in 1 .. n |-> IF i = 1 THEN ss[i] ELSE g[i - 1] \o ss[i]]
<1>2. \A i \in 1 .. n : G[i] = IF i = 1 THEN ss[i] ELSE g[i - 1] \o ss[i]
  OBVIOUS
<1>3. g = G
  BY <1>1
<1>. HIDE DEF G
<1>. QED BY <1>2, <1>3

LEMMA FlatExists ==
    ASSUME NEW ss, NEW N \in Nat
    PROVE  \E g : FlatBy(g, ss, N)
<1>. DEFINE T == {n \in Nat : \E g : FlatBy(g, ss, n)}
<1>1. 0 \in T
  <2>1. FlatBy([i \in 1 .. 0 |-> <<>>], ss, 0)
    BY DEF FlatBy
  <2>. QED BY <2>1
<1>2. ASSUME NEW n \in Nat, n \in T PROVE n + 1 \in T
  <2>1. PICK g : FlatBy(g, ss, n)
    BY <1>2
  <2>. DEFINE next == IF n = 0 THEN ss[1] ELSE g[n] \o ss[n + 1]
              h == [i \in 1 .. n + 1 |-> IF i = n + 1 THEN next ELSE g[i]]
  <2>2. \A i \in 1 .. n + 1 : h[i] = IF i = 1 THEN ss[i] ELSE h[i - 1] \o ss[i]
    <3>. TAKE i \in 1 .. n + 1
    <3>1. CASE i = n + 1
      <4>1. h[i] = next /\ (i # 1 => h[i - 1] = g[i - 1])
        BY <3>1
      <4>. QED BY <3>1, <4>1
    <3>2. CASE i # n + 1
      <4>1. i \in 1 .. n /\ h[i] = g[i]
        BY <3>2
      <4>2. i # 1 => i - 1 \in 1 .. n + 1 /\ i - 1 # n + 1 /\ h[i - 1] = g[i - 1]
        BY <4>1
      <4>3. g[i] = IF i = 1 THEN ss[i] ELSE g[i - 1] \o ss[i]
        BY <2>1, <4>1, FlatRead
      <4>. QED BY <4>1, <4>2, <4>3
    <3>. QED BY <3>1, <3>2
  <2>3. FlatBy(h, ss, n + 1)
    <3>1. h = [i \in 1 .. n + 1 |-> h[i]]
      OBVIOUS
    <3>. HIDE DEF h
    <3>2. [i \in 1 .. n + 1 |-> h[i]]
          = [i \in 1 .. n + 1 |-> IF i = 1 THEN ss[i] ELSE h[i - 1] \o ss[i]]
      BY <2>2
    <3>. QED BY <3>1, <3>2 DEF FlatBy
  <2>. QED BY <2>3
<1>3. Nat \subseteq T
  <2>. HIDE DEF T
  <2>. QED BY <1>1, <1>2, NatInduct
<1>. QED BY <1>3

LEMMA FlatUnfold ==
    ASSUME NEW S, NEW ss \in Seq(S), ss # <<>>
    PROVE  \E g : FlatBy(g, ss, Len(ss)) /\ FlattenSeq(ss) = g[Len(ss)]
<1>1. Len(ss) \in Nat /\ Len(ss) # 0
  BY EmptySeq
<1>2. \E g : FlatBy(g, ss, Len(ss))
  BY <1>1, FlatExists
<1>. DEFINE G == CHOOSE g : FlatBy(g, ss, Len(ss))
<1>3. FlatBy(G, ss, Len(ss))
  BY <1>2
<1>4. FlattenSeq(ss) = G[Len(ss)]
  BY <1>1 DEF FlattenSeq, FlatBy
<1>. QED BY <1>3, <1>4

\* Associativity as a predicate, so that a leaf names the sequences it is about.
Assoc(s, t, u) == (s \o t) \o u = s \o (t \o u)
LEMMA Associative ==
    ASSUME NEW S, NEW s \in Seq(S), NEW t \in Seq(S), NEW u \in Seq(S)
    PROVE  Assoc(s, t, u)
BY ConcatAssociative DEF Assoc

LEMMA FlatEmpty == FlattenSeq(<<>>) = <<>>
BY EmptySeq DEF FlattenSeq

LEMMA FlatAppend ==
    ASSUME NEW E, NEW ss \in Seq(Seq(E)), NEW s \in Seq(E)
    PROVE  FlattenSeq(Append(ss, s)) = FlattenSeq(ss) \o s
<1>. DEFINE n == Len(ss)
<1>1. PICK tt : tt = Append(ss, s)
  OBVIOUS
<1>2. /\ tt \in Seq(Seq(E)) /\ tt # <<>> /\ Len(tt) = n + 1 /\ n \in Nat
      /\ \A i \in 1 .. n : tt[i] = ss[i]
      /\ tt[n + 1] = s
  BY <1>1, AppendProperties, LenProperties
<1>3. PICK h : FlatBy(h, tt, n + 1) /\ FlattenSeq(tt) = h[n + 1]
  BY <1>2, FlatUnfold
<1>4. CASE ss = <<>>
  <2>1. n = 0
    BY <1>4, EmptySeq
  <2>2. h[1] = tt[1]
    BY <1>3, <2>1, FlatRead
  <2>3. <<>> \o s = s
    BY ConcatEmptySeq
  <2>. QED BY <1>1, <1>2, <1>3, <1>4, <2>1, <2>2, <2>3, FlatEmpty
<1>5. CASE ss # <<>>
  <2>1. PICK g : FlatBy(g, ss, n) /\ FlattenSeq(ss) = g[n]
    BY <1>5, FlatUnfold
  <2>. DEFINE T == {i \in Nat : i \in 1 .. n => h[i] = g[i]}
  <2>2. 0 \in T
    OBVIOUS
  <2>3. ASSUME NEW i \in Nat, i \in T PROVE i + 1 \in T
    <3>. SUFFICES ASSUME i + 1 \in 1 .. n PROVE h[i + 1] = g[i + 1]
      OBVIOUS
    <3>1. h[i + 1] = IF i + 1 = 1 THEN tt[i + 1] ELSE h[i + 1 - 1] \o tt[i + 1]
      <4>1. i + 1 \in 1 .. n + 1
        BY <1>2
      <4>2. FlatBy(h, tt, n + 1)
        BY <1>3
      <4>3. PICK N : N = n + 1
        OBVIOUS
      <4>4. \A k \in 1 .. N : h[k] = IF k = 1 THEN tt[k] ELSE h[k - 1] \o tt[k]
        BY <4>2, <4>3, FlatRead
      <4>5. PICK j : j = i + 1
        OBVIOUS
      <4>6. j \in 1 .. N
        BY <4>1, <4>3, <4>5
      <4>7. h[j] = IF j = 1 THEN tt[j] ELSE h[j - 1] \o tt[j]
        BY <4>4, <4>6
      <4>. QED BY <4>5, <4>7
    <3>2. g[i + 1] = IF i + 1 = 1 THEN ss[i + 1] ELSE g[i + 1 - 1] \o ss[i + 1]
      BY <2>1, FlatRead
    <3>3. tt[i + 1] = ss[i + 1] /\ i + 1 - 1 = i
      BY <1>2
    <3>4. i + 1 # 1 => h[i] = g[i]
      BY <2>3
    <3>. QED BY <3>1, <3>2, <3>3, <3>4
  <2>4. Nat \subseteq T
    <3>. HIDE DEF T
    <3>. QED BY <2>2, <2>3, NatInduct
  <2>5. n # 0 /\ n \in 1 .. n
    BY <1>2, <1>5, EmptySeq
  <2>6. h[n] = g[n]
    BY <1>2, <2>4, <2>5
  <2>7. h[n + 1] = h[n] \o tt[n + 1]
    <3>1. PICK m : m = n + 1
      OBVIOUS
    <3>2. m \in 1 .. m /\ m # 1 /\ m - 1 = n
      BY <1>2, <2>5, <3>1
    <3>3. \A i \in 1 .. m : h[i] = IF i = 1 THEN tt[i] ELSE h[i - 1] \o tt[i]
      BY <1>3, <3>1, FlatRead
    <3>4. h[m] = h[n] \o tt[m]
      BY <3>2, <3>3
    <3>. QED BY <3>1, <3>4
  <2>. QED BY <1>1, <1>2, <1>3, <2>1, <2>6, <2>7
<1>. QED BY <1>4, <1>5

LEMMA FlatOne ==
    ASSUME NEW E, NEW s \in Seq(E)
    PROVE  FlattenSeq(<<s>>) = s
<1>1. Append(<<>>, s) = <<s>> /\ <<>> \in Seq(Seq(E))
  OBVIOUS
<1>2. <<>> \o s = s
  BY ConcatEmptySeq
<1>. QED BY <1>1, <1>2, FlatEmpty, FlatAppend

LEMMA FlatType ==
    ASSUME NEW E, NEW ss \in Seq(Seq(E))
    PROVE  FlattenSeq(ss) \in Seq(E)
<1>. DEFINE T == {rr \in Seq(Seq(E)) : FlattenSeq(rr) \in Seq(E)}
<1>1. <<>> \in T
  BY FlatEmpty, EmptySeq
<1>2. ASSUME NEW u \in Seq(Seq(E)), NEW e \in Seq(E), u \in T PROVE Append(u, e) \in T
  <2>1. FlattenSeq(Append(u, e)) = FlattenSeq(u) \o e
    BY FlatAppend
  <2>2. FlattenSeq(u) \o e \in Seq(E)
    BY <1>2, ConcatProperties
  <2>3. Append(u, e) \in Seq(Seq(E))
    BY AppendProperties
  <2>. QED BY <2>1, <2>2, <2>3
<1>3. Seq(Seq(E)) \subseteq T
  <2>. HIDE DEF T
  <2>. QED BY <1>1, <1>2, SeqInduct
<1>. QED BY <1>3

LEMMA FlatConcat ==
    ASSUME NEW E, NEW ss \in Seq(Seq(E)), NEW tt \in Seq(Seq(E))
    PROVE  FlattenSeq(ss \o tt) = FlattenSeq(ss) \o FlattenSeq(tt)
<1>. DEFINE T == {rr \in Seq(Seq(E)) : FlattenSeq(ss \o rr) = FlattenSeq(ss) \o FlattenSeq(rr)}
<1>0. FlattenSeq(ss) \in Seq(E)
  BY FlatType
<1>1. <<>> \in T
  <2>1. ss \o <<>> = ss
    BY ConcatEmptySeq
  <2>2. FlattenSeq(ss) \o <<>> = FlattenSeq(ss)
    BY <1>0, ConcatEmptySeq
  <2>3. <<>> \in Seq(Seq(E))
    BY EmptySeq
  <2>. QED BY <2>1, <2>2, <2>3, FlatEmpty
<1>2. ASSUME NEW u \in Seq(Seq(E)), NEW e \in Seq(E), u \in T PROVE Append(u, e) \in T
  <2>1. Append(u, e) = u \o <<e>> /\ Append(ss \o u, e) = (ss \o u) \o <<e>>
        /\ ss \o u \in Seq(Seq(E)) /\ <<e>> \in Seq(Seq(E))
    BY AppendIsConcat, ConcatProperties
  <2>2. ss \o Append(u, e) = Append(ss \o u, e)
    <3>1. Assoc(ss, u, <<e>>)
      BY <2>1, Associative
    <3>. QED BY <2>1, <3>1 DEF Assoc
  <2>3. FlattenSeq(Append(ss \o u, e)) = FlattenSeq(ss \o u) \o e
    BY <2>1, FlatAppend
  <2>4. FlattenSeq(Append(u, e)) = FlattenSeq(u) \o e
    BY FlatAppend
  <2>5. FlattenSeq(u) \in Seq(E)
    BY FlatType
  <2>6. (FlattenSeq(ss) \o FlattenSeq(u)) \o e = FlattenSeq(ss) \o (FlattenSeq(u) \o e)
    <3>1. Assoc(FlattenSeq(ss), FlattenSeq(u), e)
      BY <1>0, <2>5, Associative
    <3>. QED BY <3>1 DEF Assoc
  <2>7. Append(u, e) \in Seq(Seq(E))
    BY AppendProperties
  <2>. QED BY <1>2, <2>2, <2>3, <2>4, <2>6, <2>7
<1>3. Seq(Seq(E)) \subseteq T
  <2>. HIDE DEF T
  <2>. QED BY <1>1, <1>2, SeqInduct
<1>. QED BY <1>3

\* The sequences of one element each give the sequence of the elements.
LEMMA FlatSingles ==
    ASSUME NEW E, NEW q \in Seq(E)
    PROVE  /\ [k \in 1 .. Len(q) |-> <<q[k]>>] \in Seq(Seq(E))
           /\ FlattenSeq([k \in 1 .. Len(q) |-> <<q[k]>>]) = q
<1>. DEFINE One(u) == [k \in 1 .. Len(u) |-> <<u[k]>>]
            T == {u \in Seq(E) : One(u) \in Seq(Seq(E)) /\ FlattenSeq(One(u)) = u}
<1>1. <<>> \in T
  <2>1. <<>> \in Seq(E) /\ <<>> \in Seq(Seq(E)) /\ One(<<>>) = <<>>
    BY EmptySeq
  <2>. QED BY <2>1, FlatEmpty
<1>2. ASSUME NEW u \in Seq(E), NEW e \in E, u \in T PROVE Append(u, e) \in T
  <2>1. PICK w : w = Append(u, e)
    OBVIOUS
  <2>2. w \in Seq(E) /\ Len(w) = Len(u) + 1 /\ Len(u) \in Nat
        /\ (\A k \in 1 .. Len(u) : w[k] = u[k]) /\ w[Len(u) + 1] = e
    BY <2>1, AppendProperties, LenProperties
  <2>3. PICK x : x = One(u)
    OBVIOUS
  <2>4. x \in Seq(Seq(E)) /\ Len(x) = Len(u) /\ FlattenSeq(x) = u
        /\ \A k \in 1 .. Len(u) : x[k] = <<u[k]>>
    BY <1>2, <2>2, <2>3
  <2>5. <<e>> \in Seq(E)
    OBVIOUS
  <2>6. PICK y : y = Append(x, <<e>>)
    OBVIOUS
  <2>7. y \in Seq(Seq(E)) /\ Len(y) = Len(u) + 1 /\ (\A k \in 1 .. Len(u) : y[k] = x[k])
        /\ y[Len(u) + 1] = <<e>>
    BY <2>4, <2>5, <2>6, AppendProperties
  <2>8. One(w) = y
    <3>1. y = [k \in 1 .. Len(y) |-> y[k]]
      BY <2>7, LenProperties
    <3>2. \A k \in 1 .. Len(u) + 1 : y[k] = <<w[k]>>
      <4>. TAKE k \in 1 .. Len(u) + 1
      <4>1. k \in 1 .. Len(u) \/ k = Len(u) + 1
        BY <2>2
      <4>. QED BY <2>2, <2>4, <2>7, <4>1
    <3>. QED BY <2>2, <2>7, <3>1, <3>2
  <2>9. FlattenSeq(y) = u \o <<e>>
    BY <2>4, <2>5, <2>6, FlatAppend
  <2>10. w = u \o <<e>>
    BY <2>1, AppendIsConcat
  <2>. QED BY <2>1, <2>2, <2>7, <2>8, <2>9, <2>10
<1>3. Seq(E) \subseteq T
  <2>. HIDE DEF T
  <2>. QED BY <1>1, <1>2, SeqInduct
<1>. QED BY <1>3

\* Empty sequences give the empty sequence.
LEMMA FlatEmpties ==
    ASSUME NEW E, NEW ss \in Seq(Seq(E)), \A k \in 1 .. Len(ss) : ss[k] = <<>>
    PROVE  FlattenSeq(ss) = <<>>
<1>. DEFINE T == {u \in Seq(Seq(E)) : (\A k \in 1 .. Len(u) : u[k] = <<>>) => FlattenSeq(u) = <<>>}
<1>1. <<>> \in T
  BY FlatEmpty, EmptySeq
<1>2. ASSUME NEW u \in Seq(Seq(E)), NEW e \in Seq(E), u \in T PROVE Append(u, e) \in T
  <2>1. PICK w : w = Append(u, e)
    OBVIOUS
  <2>2. w \in Seq(Seq(E)) /\ Len(w) = Len(u) + 1 /\ Len(u) \in Nat
        /\ (\A k \in 1 .. Len(u) : w[k] = u[k]) /\ w[Len(u) + 1] = e
    BY <2>1, AppendProperties, LenProperties
  <2>3. ASSUME \A k \in 1 .. Len(w) : w[k] = <<>> PROVE FlattenSeq(w) = <<>>
    <3>0. Len(u) + 1 \in 1 .. Len(w)
      BY <2>2
    <3>1. w[Len(u) + 1] = <<>>
      BY <2>3, <3>0
    <3>9. e = <<>>
      BY <2>2, <3>1
    <3>2. \A k \in 1 .. Len(u) : u[k] = <<>>
      <4>. TAKE k \in 1 .. Len(u)
      <4>1. k \in 1 .. Len(w)
        BY <2>2
      <4>. QED BY <2>2, <2>3, <4>1
    <3>3. FlattenSeq(u) = <<>>
      BY <1>2, <3>2
    <3>4. FlattenSeq(w) = <<>> \o <<>>
      BY <2>1, <3>9, <3>3, FlatAppend
    <3>5. <<>> \o <<>> = <<>>
      BY ConcatEmptySeq, EmptySeq
    <3>. QED BY <3>4, <3>5
  <2>. QED BY <2>1, <2>2, <2>3
<1>3. Seq(Seq(E)) \subseteq T
  <2>. HIDE DEF T
  <2>. QED BY <1>1, <1>2, SeqInduct
<1>. QED BY <1>3

\* A function mapped over a sequence, and the results put together.
Mapped(f, u) == [i \in 1 .. Len(u) |-> f[u[i]]]

LEMMA MappedEmpty == ASSUME NEW f PROVE Mapped(f, <<>>) = <<>>
BY EmptySeq DEF Mapped

LEMMA MappedType ==
    ASSUME NEW A, NEW B, NEW f, \A a \in A : f[a] \in B, NEW u \in Seq(A)
    PROVE  Mapped(f, u) \in Seq(B)
BY LenProperties DEF Mapped

LEMMA MappedShape ==
    ASSUME NEW f, NEW A, NEW u \in Seq(A)
    PROVE  /\ Len(Mapped(f, u)) = Len(u)
           /\ \A i \in 1 .. Len(u) : Mapped(f, u)[i] = f[u[i]]
BY LenProperties DEF Mapped

LEMMA MappedAppend ==
    ASSUME NEW f, NEW A, NEW u \in Seq(A), NEW e \in A
    PROVE  Mapped(f, Append(u, e)) = Append(Mapped(f, u), f[e])
<1>. PICK B : \A a \in A : f[a] \in B
  <2>1. \A a \in A : f[a] \in {f[c] : c \in A}
    OBVIOUS
  <2>. QED BY <2>1
<1>1. PICK w : w = Append(u, e)
  OBVIOUS
<1>2. w \in Seq(A) /\ Len(w) = Len(u) + 1 /\ Len(u) \in Nat
      /\ (\A k \in 1 .. Len(u) : w[k] = u[k]) /\ w[Len(u) + 1] = e
  BY <1>1, AppendProperties, LenProperties
<1>3. PICK x : x = Mapped(f, u)
  OBVIOUS
<1>0. x \in Seq(B) /\ Len(x) = Len(u) /\ \A k \in 1 .. Len(u) : x[k] = f[u[k]]
  <2>1. Mapped(f, u) \in Seq(B)
    BY MappedType
  <2>. QED BY <1>3, <2>1, MappedShape
<1>4. f[e] \in B
  OBVIOUS
<1>5. PICK y : y = Append(x, f[e])
  OBVIOUS
<1>6. y \in Seq(B) /\ Len(y) = Len(u) + 1 /\ (\A k \in 1 .. Len(u) : y[k] = f[u[k]])
      /\ y[Len(u) + 1] = f[e]
  BY <1>0, <1>4, <1>5, AppendProperties
<1>7. PICK z : z = Mapped(f, w)
  OBVIOUS
<1>8. z \in Seq(B) /\ Len(z) = Len(u) + 1 /\ \A k \in 1 .. Len(u) + 1 : z[k] = f[w[k]]
  <2>1. Mapped(f, w) \in Seq(B)
    BY <1>2, MappedType
  <2>2. Len(z) = Len(w) /\ \A k \in 1 .. Len(w) : z[k] = f[w[k]]
    BY <1>2, <1>7, MappedShape
  <2>. QED BY <1>2, <1>7, <2>1, <2>2
<1>9. \A k \in 1 .. Len(u) + 1 : y[k] = z[k]
  <2>. TAKE k \in 1 .. Len(u) + 1
  <2>1. k \in 1 .. Len(u) \/ k = Len(u) + 1
    BY <1>2
  <2>. QED BY <1>2, <1>6, <1>8, <2>1
<1>10. y = z
  BY <1>6, <1>8, <1>9, SeqEqual
<1>. QED BY <1>1, <1>3, <1>5, <1>7, <1>10

LEMMA MappedConcat ==
    ASSUME NEW f, NEW A, NEW u \in Seq(A), NEW v \in Seq(A)
    PROVE  Mapped(f, u \o v) = Mapped(f, u) \o Mapped(f, v)
<1>. PICK B : \A a \in A : f[a] \in B
  <2>1. \A a \in A : f[a] \in {f[c] : c \in A}
    OBVIOUS
  <2>. QED BY <2>1
<1>1. PICK w : w = u \o v
  OBVIOUS
<1>2. w \in Seq(A) /\ Len(w) = Len(u) + Len(v) /\ Len(u) \in Nat /\ Len(v) \in Nat
      /\ \A k \in 1 .. Len(u) + Len(v) : w[k] = IF k <= Len(u) THEN u[k] ELSE v[k - Len(u)]
  BY <1>1, ConcatProperties, LenProperties
<1>3. PICK x, y : x = Mapped(f, u) /\ y = Mapped(f, v)
  OBVIOUS
<1>30. x \in Seq(B) /\ Len(x) = Len(u) /\ \A i \in 1 .. Len(u) : x[i] = f[u[i]]
  <2>1. Mapped(f, u) \in Seq(B)
    BY MappedType
  <2>. QED BY <1>3, <2>1, MappedShape
<1>31. y \in Seq(B) /\ Len(y) = Len(v) /\ \A i \in 1 .. Len(v) : y[i] = f[v[i]]
  <2>1. Mapped(f, v) \in Seq(B)
    BY MappedType
  <2>. QED BY <1>3, <2>1, MappedShape
<1>4. /\ x \in Seq(B) /\ Len(x) = Len(u) /\ \A i \in 1 .. Len(u) : x[i] = f[u[i]]
      /\ y \in Seq(B) /\ Len(y) = Len(v) /\ \A i \in 1 .. Len(v) : y[i] = f[v[i]]
  BY <1>30, <1>31
<1>5. PICK z : z = x \o y
  OBVIOUS
<1>6. z \in Seq(B) /\ Len(z) = Len(u) + Len(v)
      /\ \A k \in 1 .. Len(u) + Len(v) : z[k] = IF k <= Len(u) THEN x[k] ELSE y[k - Len(u)]
  <2>1. /\ x \o y \in Seq(B) /\ Len(x \o y) = Len(x) + Len(y)
        /\ \A k \in 1 .. Len(x) + Len(y) : (x \o y)[k] = IF k <= Len(x) THEN x[k] ELSE y[k - Len(x)]
    <3>1. x \in Seq(B) /\ y \in Seq(B)
      BY <1>4
    <3>. QED BY <3>1, ConcatProperties
  <2>. QED BY <1>4, <1>5, <2>1
<1>7. PICK m : m = Mapped(f, w)
  OBVIOUS
<1>8. m \in Seq(B) /\ Len(m) = Len(u) + Len(v) /\ \A k \in 1 .. Len(u) + Len(v) : m[k] = f[w[k]]
  <2>1. Mapped(f, w) \in Seq(B)
    BY <1>2, MappedType
  <2>2. Len(m) = Len(w) /\ \A k \in 1 .. Len(w) : m[k] = f[w[k]]
    BY <1>2, <1>7, MappedShape
  <2>. QED BY <1>2, <1>7, <2>1, <2>2
<1>9. \A k \in 1 .. Len(u) + Len(v) : m[k] = z[k]
  <2>. TAKE k \in 1 .. Len(u) + Len(v)
  <2>1. CASE k <= Len(u)
    <3>1. k \in 1 .. Len(u)
      BY <1>2, <2>1
    <3>2. z[k] = x[k] /\ m[k] = f[w[k]] /\ w[k] = u[k]
      BY <1>2, <1>6, <1>8, <2>1
    <3>. QED BY <1>4, <3>1, <3>2
  <2>2. CASE ~(k <= Len(u))
    <3>1. k - Len(u) \in 1 .. Len(v)
      BY <1>2, <2>2
    <3>2. z[k] = y[k - Len(u)] /\ m[k] = f[w[k]] /\ w[k] = v[k - Len(u)]
      BY <1>2, <1>6, <1>8, <2>2
    <3>. QED BY <1>4, <3>1, <3>2
  <2>. QED BY <2>1, <2>2
<1>10. m = z
  BY <1>6, <1>8, <1>9, SeqEqual
<1>. QED BY <1>1, <1>3, <1>5, <1>7, <1>10

FlatMap(f, u) == FlattenSeq(Mapped(f, u))

LEMMA FlatMapEmpty == ASSUME NEW f PROVE FlatMap(f, <<>>) = <<>>
BY MappedEmpty, FlatEmpty DEF FlatMap

LEMMA FlatMapType ==
    ASSUME NEW A, NEW E, NEW f, \A a \in A : f[a] \in Seq(E), NEW u \in Seq(A)
    PROVE  FlatMap(f, u) \in Seq(E)
<1>1. Mapped(f, u) \in Seq(Seq(E))
  BY MappedType
<1>2. FlattenSeq(Mapped(f, u)) \in Seq(E)
  BY <1>1, FlatType
<1>. QED BY <1>2 DEF FlatMap

LEMMA FlatMapAppend ==
    ASSUME NEW A, NEW E, NEW f, \A a \in A : f[a] \in Seq(E), NEW u \in Seq(A), NEW e \in A
    PROVE  FlatMap(f, Append(u, e)) = FlatMap(f, u) \o f[e]
<1>1. Mapped(f, u) \in Seq(Seq(E))
  BY MappedType
<1>2. Mapped(f, Append(u, e)) = Append(Mapped(f, u), f[e])
  BY MappedAppend
<1>3. f[e] \in Seq(E)
  OBVIOUS
<1>4. FlattenSeq(Append(Mapped(f, u), f[e])) = FlattenSeq(Mapped(f, u)) \o f[e]
  BY <1>1, <1>3, FlatAppend
<1>. QED BY <1>2, <1>4 DEF FlatMap

LEMMA FlatMapConcat ==
    ASSUME NEW A, NEW E, NEW f \in [A -> Seq(E)], NEW u \in Seq(A), NEW v \in Seq(A)
    PROVE  FlatMap(f, u \o v) = FlatMap(f, u) \o FlatMap(f, v)
<1>0. \A a \in A : f[a] \in Seq(E)
  OBVIOUS
<1>1. Mapped(f, u) \in Seq(Seq(E)) /\ Mapped(f, v) \in Seq(Seq(E))
  BY <1>0, MappedType
<1>2. Mapped(f, u \o v) = Mapped(f, u) \o Mapped(f, v)
  BY MappedConcat
<1>3. FlattenSeq(Mapped(f, u) \o Mapped(f, v)) = FlattenSeq(Mapped(f, u)) \o FlattenSeq(Mapped(f, v))
  BY <1>1, FlatConcat
<1>. QED BY <1>2, <1>3 DEF FlatMap

------------------------------------------------------------------------------
(* Places and texts.                                                       *)

Spot == (Char \cup {"mention", "backlink"}) \X SUBSET {"strong", "link"}

LEMMA SegTypes ==
    ASSUME NEW s \in Seg
    PROVE  /\ s.kind \in {"text", "mention", "backlink"} /\ s.text \in Seq(Char)
           /\ s.marks \in SUBSET {"strong", "link"}
           /\ s = [kind |-> s.kind, text |-> s.text, marks |-> s.marks]
BY DEF Seg

LEMMA PlacesOfType ==
    ASSUME NEW s \in Seg
    PROVE  PlacesOf(s) \in Seq(Spot) /\ Len(PlacesOf(s)) = Width(s) /\ Width(s) \in Nat
<1>1. CASE IsText(s)
  <2>1. s.text \in Seq(Char) /\ Len(s.text) \in Nat
    BY SegTypes, LenProperties
  <2>2. \A k \in 1 .. Len(s.text) : s.text[k] \in Char
    BY <2>1, ElementOfSeq
  <2>3. \A k \in 1 .. Len(s.text) : <<s.text[k], s.marks>> \in Spot
    BY <2>2, SegTypes DEF Spot
  <2>. QED BY <1>1, <2>1, <2>3 DEF PlacesOf, Width
<1>2. CASE ~IsText(s)
  <2>1. s.kind \in {"mention", "backlink"}
    BY <1>2, SegTypes DEF IsText
  <2>2. <<s.kind, {}>> \in Spot
    BY <2>1 DEF Spot
  <2>. QED BY <1>2, <2>2 DEF PlacesOf, Width
<1>. QED BY <1>1, <1>2

PlaceMap == [s \in Seg |-> PlacesOf(s)]

LEMMA PlaceMapType == \A s \in Seg : PlaceMap[s] = PlacesOf(s) /\ PlaceMap[s] \in Seq(Spot)
BY PlacesOfType DEF PlaceMap

LEMMA PlacesIsMap ==
    ASSUME NEW segs \in Seq(Seg)
    PROVE  Places(segs) = FlatMap(PlaceMap, segs)
<1>1. \A i \in 1 .. Len(segs) : segs[i] \in Seg
  BY ElementOfSeq
<1>2. \A i \in 1 .. Len(segs) : PlaceMap[segs[i]] = PlacesOf(segs[i])
  BY <1>1, PlaceMapType
<1>3. [i \in 1 .. Len(segs) |-> PlacesOf(segs[i])] = [i \in 1 .. Len(segs) |-> PlaceMap[segs[i]]]
  BY <1>2
<1>. QED BY <1>3 DEF Places, FlatMap, Mapped

LEMMA PlacesEmpty == Places(<<>>) = <<>>
<1>1. <<>> \in Seq(Seg)
  BY EmptySeq
<1>. QED BY <1>1, PlacesIsMap, FlatMapEmpty

LEMMA PlacesType ==
    ASSUME NEW segs \in Seq(Seg)
    PROVE  Places(segs) \in Seq(Spot) /\ Len(Places(segs)) \in Nat
<1>1. FlatMap(PlaceMap, segs) \in Seq(Spot)
  BY PlaceMapType, FlatMapType
<1>. QED BY <1>1, PlacesIsMap, LenProperties

LEMMA PlacesAppend ==
    ASSUME NEW segs \in Seq(Seg), NEW s \in Seg
    PROVE  /\ Places(Append(segs, s)) = Places(segs) \o PlacesOf(s)
           /\ Len(Places(Append(segs, s))) = Len(Places(segs)) + Width(s)
<1>1. FlatMap(PlaceMap, Append(segs, s)) = FlatMap(PlaceMap, segs) \o PlaceMap[s]
  BY PlaceMapType, FlatMapAppend
<1>2. Append(segs, s) \in Seq(Seg)
  BY AppendProperties
<1>3. Places(Append(segs, s)) = Places(segs) \o PlacesOf(s)
  BY <1>1, <1>2, PlaceMapType, PlacesIsMap
<1>4. Places(segs) \in Seq(Spot) /\ PlacesOf(s) \in Seq(Spot) /\ Len(PlacesOf(s)) = Width(s)
  BY PlacesType, PlacesOfType
<1>5. Len(Places(segs) \o PlacesOf(s)) = Len(Places(segs)) + Len(PlacesOf(s))
  BY <1>4, ConcatProperties
<1>. QED BY <1>3, <1>4, <1>5

LEMMA PlacesConcat ==
    ASSUME NEW u \in Seq(Seg), NEW v \in Seq(Seg)
    PROVE  Places(u \o v) = Places(u) \o Places(v)
<1>0. PlaceMap \in [Seg -> Seq(Spot)]
  BY PlacesOfType DEF PlaceMap
<1>1. FlatMap(PlaceMap, u \o v) = FlatMap(PlaceMap, u) \o FlatMap(PlaceMap, v)
  BY <1>0, FlatMapConcat
<1>2. u \o v \in Seq(Seg)
  BY ConcatProperties
<1>. QED BY <1>1, <1>2, PlacesIsMap

LEMMA PlacesOne ==
    ASSUME NEW s \in Seg
    PROVE  <<s>> \in Seq(Seg) /\ Places(<<s>>) = PlacesOf(s)
<1>1. <<>> \in Seq(Seg) /\ Append(<<>>, s) = <<s>> /\ <<s>> \in Seq(Seg)
  OBVIOUS
<1>2. Places(<<s>>) = <<>> \o PlacesOf(s)
  BY <1>1, PlacesAppend, PlacesEmpty
<1>3. <<>> \o PlacesOf(s) = PlacesOf(s)
  BY PlacesOfType, ConcatEmptySeq
<1>. QED BY <1>1, <1>2, <1>3

\* A sequence is what is before one of its elements, that element, and the rest.
LEMMA Around ==
    ASSUME NEW S, NEW q \in Seq(S), NEW i \in 1 .. Len(q)
    PROVE  /\ SubSeq(q, 1, i - 1) \in Seq(S) /\ SubSeq(q, i + 1, Len(q)) \in Seq(S)
           /\ Len(SubSeq(q, 1, i - 1)) = i - 1 /\ Len(SubSeq(q, i + 1, Len(q))) = Len(q) - i
           /\ SubSeq(q, 1, i) = Append(SubSeq(q, 1, i - 1), q[i])
           /\ q = SubSeq(q, 1, i) \o SubSeq(q, i + 1, Len(q))
           /\ q[i] \in S
<1>1. Len(q) \in Nat /\ \A k \in 1 .. Len(q) : q[k] \in S
  BY LenProperties, ElementOfSeq
<1>2. /\ SubSeq(q, 1, i - 1) \in Seq(S)
      /\ Len(SubSeq(q, 1, i - 1)) = IF 1 <= i - 1 THEN i - 1 - 1 + 1 ELSE 0
  <2>1. \A k \in 1 .. i - 1 : q[k] \in S
    BY <1>1
  <2>2. i - 1 \in Int
    OBVIOUS
  <2>. QED BY <2>1, <2>2, SubSeqProperties
<1>3. /\ SubSeq(q, i + 1, Len(q)) \in Seq(S)
      /\ Len(SubSeq(q, i + 1, Len(q))) = IF i + 1 <= Len(q) THEN Len(q) - (i + 1) + 1 ELSE 0
  <2>1. \A k \in i + 1 .. Len(q) : q[k] \in S
    BY <1>1
  <2>2. i + 1 \in Int /\ Len(q) \in Int
    BY <1>1
  <2>. QED BY <2>1, <2>2, SubSeqProperties
<1>4. SubSeq(q, 1, i) = Append(SubSeq(q, 1, i - 1), q[i])
  <2>1. 1 \in 1 .. Len(q) /\ i \in 1 .. Len(q)
    BY <1>1
  <2>2. SubSeq(q, 1, i) = SubSeq(q, 1, i - 1) \o <<q[i]>>
    BY <2>1, SubSeqRecursiveSecond
  <2>3. Append(SubSeq(q, 1, i - 1), q[i]) = SubSeq(q, 1, i - 1) \o <<q[i]>>
    BY <1>1, <1>2, AppendIsConcat
  <2>. QED BY <2>2, <2>3
<1>5. q = SubSeq(q, 1, i) \o SubSeq(q, i + 1, Len(q))
  <2>1. 1 \in 1 .. Len(q) + 1 /\ i \in 1 - 1 .. Len(q) /\ Len(q) \in i .. Len(q)
    BY <1>1
  <2>2. SubSeq(q, 1, i) \o SubSeq(q, i + 1, Len(q)) = SubSeq(q, 1, Len(q))
    BY <2>1, ConcatAdjacentSubSeq
  <2>. QED BY <2>2, SubSeqFull
<1>6. Len(SubSeq(q, 1, i - 1)) = i - 1 /\ Len(SubSeq(q, i + 1, Len(q))) = Len(q) - i
  BY <1>1, <1>2, <1>3
<1>. QED BY <1>1, <1>2, <1>3, <1>4, <1>5, <1>6

------------------------------------------------------------------------------
(* The place of a segment.                                                 *)

PosBy(g, segs) == g = [n \in 0 .. Len(segs) |-> IF n = 0 THEN 0 ELSE g[n - 1] + Width(segs[n])]

LEMMA PosRead ==
    ASSUME NEW g, NEW segs, PosBy(g, segs)
    PROVE  \A n \in 0 .. Len(segs) : g[n] = IF n = 0 THEN 0 ELSE g[n - 1] + Width(segs[n])
<1>. DEFINE G == [n \in 0 .. Len(segs) |-> IF n = 0 THEN 0 ELSE g[n - 1] + Width(segs[n])]
<1>1. \A n \in 0 .. Len(segs) : G[n] = IF n = 0 THEN 0 ELSE g[n - 1] + Width(segs[n])
  OBVIOUS
<1>2. g = G
  BY DEF PosBy
<1>. HIDE DEF G
<1>. QED BY <1>1, <1>2

\* The places before a segment.
LEMMA PosIsPlaces ==
    ASSUME NEW segs \in Seq(Seg), NEW i \in 1 .. Len(segs) + 1
    PROVE  Pos(segs, i) = Len(Places(SubSeq(segs, 1, i - 1))) /\ Pos(segs, i) \in Nat
<1>. DEFINE N == Len(segs)
            Before(n) == Len(Places(SubSeq(segs, 1, n)))
            w == [n \in 0 .. N |-> Before(n)]
<1>0. N \in Nat
  BY LenProperties
<1>1. Before(0) = 0
  <2>1. SubSeq(segs, 1, 0) = <<>>
    BY SubSeqEmpty
  <2>. QED BY <2>1, PlacesEmpty, EmptySeq
<1>2. ASSUME NEW n \in 1 .. N PROVE Before(n) = Before(n - 1) + Width(segs[n])
  <2>1. SubSeq(segs, 1, n - 1) \in Seq(Seg) /\ segs[n] \in Seg
        /\ SubSeq(segs, 1, n) = Append(SubSeq(segs, 1, n - 1), segs[n])
    BY Around
  <2>. QED BY <2>1, PlacesAppend
<1>3. ASSUME NEW n \in 0 .. N PROVE Before(n) \in Nat
  <2>1. \A k \in 1 .. n : segs[k] \in Seg
    BY <1>0, ElementOfSeq
  <2>2. SubSeq(segs, 1, n) \in Seq(Seg)
    BY <2>1, <1>0, SubSeqProperties
  <2>. QED BY <2>2, PlacesType
<1>4. PosBy(w, segs)
  <2>1. \A n \in 0 .. N : Before(n) = IF n = 0 THEN 0 ELSE w[n - 1] + Width(segs[n])
    <3>. TAKE n \in 0 .. N
    <3>1. CASE n = 0
      BY <1>1, <3>1
    <3>2. CASE n # 0
      <4>1. n \in 1 .. N /\ n - 1 \in 0 .. N
        BY <1>0, <3>2
      <4>2. w[n - 1] = Before(n - 1)
        BY <4>1
      <4>. QED BY <1>2, <3>2, <4>1, <4>2
    <3>. QED BY <3>1, <3>2
  <2>. HIDE DEF Before
  <2>. QED BY <2>1 DEF PosBy
<1>5. PICK g : PosBy(g, segs) /\ Pos(segs, i) = g[i - 1]
  <2>. DEFINE G == CHOOSE g : PosBy(g, segs)
  <2>1. PosBy(G, segs)
    BY <1>4
  <2>2. Pos(segs, i) = G[i - 1]
    BY DEF Pos, PosBy
  <2>. QED BY <2>1, <2>2
<1>. DEFINE T == {n \in Nat : n \in 0 .. N => g[n] = Before(n)}
<1>6. 0 \in T
  <2>1. g[0] = 0
    BY <1>0, <1>5, PosRead
  <2>. QED BY <1>1, <2>1
<1>7. ASSUME NEW n \in Nat, n \in T PROVE n + 1 \in T
  <2>. SUFFICES ASSUME n + 1 \in 0 .. N PROVE g[n + 1] = Before(n + 1)
    OBVIOUS
  <2>1. PICK m : m = n + 1
    OBVIOUS
  <2>2. m \in 1 .. N /\ m \in 0 .. N /\ m # 0 /\ m - 1 = n /\ n \in 0 .. N
    BY <1>0, <2>1
  <2>3. g[m] = g[n] + Width(segs[m])
    BY <1>5, <2>2, PosRead
  <2>4. Before(m) = Before(n) + Width(segs[m])
    BY <1>2, <2>2
  <2>5. g[n] = Before(n)
    BY <1>7, <2>2
  <2>. QED BY <2>1, <2>3, <2>4, <2>5
<1>8. Nat \subseteq T
  <2>. HIDE DEF T
  <2>. QED BY <1>6, <1>7, NatInduct
<1>9. i - 1 \in Nat /\ i - 1 \in 0 .. N
  BY <1>0
<1>10. g[i - 1] = Before(i - 1)
  BY <1>8, <1>9
<1>. QED BY <1>3, <1>5, <1>9, <1>10

LEMMA PosFacts ==
    ASSUME NEW segs \in Seq(Seg)
    PROVE  /\ Pos(segs, 1) = 0
           /\ Pos(segs, Len(segs) + 1) = Len(Places(segs))
           /\ \A i \in 1 .. Len(segs) :
                /\ Pos(segs, i) \in Nat /\ Width(segs[i]) \in Nat
                /\ Pos(segs, i + 1) = Pos(segs, i) + Width(segs[i])
                /\ Places(SubSeq(segs, 1, i)) = Places(SubSeq(segs, 1, i - 1)) \o PlacesOf(segs[i])
<1>0. Len(segs) \in Nat
  BY LenProperties
<1>1. Pos(segs, 1) = 0
  <2>1. SubSeq(segs, 1, 1 - 1) = <<>>
    BY SubSeqEmpty
  <2>2. 1 \in 1 .. Len(segs) + 1
    BY <1>0
  <2>. QED BY <2>1, <2>2, PosIsPlaces, PlacesEmpty, EmptySeq
<1>2. Pos(segs, Len(segs) + 1) = Len(Places(segs))
  <2>1. PICK m : m = Len(segs) + 1
    OBVIOUS
  <2>2. m \in 1 .. Len(segs) + 1 /\ m - 1 = Len(segs)
    BY <1>0, <2>1
  <2>3. SubSeq(segs, 1, m - 1) = segs
    BY <2>2, SubSeqFull
  <2>. QED BY <2>1, <2>2, <2>3, PosIsPlaces
<1>3. ASSUME NEW i \in 1 .. Len(segs)
      PROVE  /\ Pos(segs, i) \in Nat /\ Width(segs[i]) \in Nat
             /\ Pos(segs, i + 1) = Pos(segs, i) + Width(segs[i])
             /\ Places(SubSeq(segs, 1, i)) = Places(SubSeq(segs, 1, i - 1)) \o PlacesOf(segs[i])
  <2>1. SubSeq(segs, 1, i - 1) \in Seq(Seg) /\ segs[i] \in Seg
        /\ SubSeq(segs, 1, i) = Append(SubSeq(segs, 1, i - 1), segs[i])
    BY Around
  <2>2. /\ Places(SubSeq(segs, 1, i)) = Places(SubSeq(segs, 1, i - 1)) \o PlacesOf(segs[i])
        /\ Len(Places(SubSeq(segs, 1, i))) = Len(Places(SubSeq(segs, 1, i - 1))) + Width(segs[i])
    BY <2>1, PlacesAppend
  <2>3. PICK m : m = i + 1
    OBVIOUS
  <2>4. m \in 1 .. Len(segs) + 1 /\ m - 1 = i /\ i \in 1 .. Len(segs) + 1
    BY <1>0, <2>3
  <2>5. Pos(segs, m) = Len(Places(SubSeq(segs, 1, i)))
    BY <2>4, PosIsPlaces
  <2>6. Pos(segs, i) = Len(Places(SubSeq(segs, 1, i - 1))) /\ Pos(segs, i) \in Nat
    BY <2>4, PosIsPlaces
  <2>. QED BY <2>1, <2>2, <2>3, <2>5, <2>6, PlacesOfType
<1>. QED BY <1>1, <1>2, <1>3

------------------------------------------------------------------------------
(* Segments written anew keep their places.                                *)

Run(t, m) == [k \in 1 .. Len(t) |-> <<t[k], m>>]

LEMMA RunType ==
    ASSUME NEW t \in Seq(Char), NEW m \in SUBSET {"strong", "link"}
    PROVE  Run(t, m) \in Seq(Spot) /\ Len(Run(t, m)) = Len(t)
           /\ \A k \in 1 .. Len(t) : Run(t, m)[k] = <<t[k], m>>
<1>1. Len(t) \in Nat /\ \A k \in 1 .. Len(t) : t[k] \in Char
  BY LenProperties, ElementOfSeq
<1>2. \A k \in 1 .. Len(t) : <<t[k], m>> \in Spot
  BY <1>1 DEF Spot
<1>. QED BY <1>1, <1>2 DEF Run

RunSplits(t, v, m) == Run(t \o v, m) = Run(t, m) \o Run(v, m)
LEMMA RunConcat ==
    ASSUME NEW t \in Seq(Char), NEW v \in Seq(Char), NEW m
    PROVE  RunSplits(t, v, m)
<1>. DEFINE f == [c \in Char |-> <<c, m>>]
<1>1. ASSUME NEW w \in Seq(Char) PROVE Run(w, m) = Mapped(f, w)
  <2>1. \A k \in 1 .. Len(w) : w[k] \in Char
    BY ElementOfSeq
  <2>2. \A k \in 1 .. Len(w) : f[w[k]] = <<w[k], m>>
    BY <2>1
  <2>. HIDE DEF f
  <2>. QED BY <2>2 DEF Run, Mapped
<1>2. t \o v \in Seq(Char)
  BY ConcatProperties
<1>3. Mapped(f, t \o v) = Mapped(f, t) \o Mapped(f, v)
  BY MappedConcat
<1>. HIDE DEF f
<1>. QED BY <1>1, <1>2, <1>3 DEF RunSplits

LEMMA RunPlaces ==
    ASSUME NEW s \in Seg, IsText(s)
    PROVE  PlacesOf(s) = Run(s.text, s.marks)
BY DEF PlacesOf, Run

LEMMA TextSeg ==
    ASSUME NEW t \in Seq(Char), NEW m \in SUBSET {"strong", "link"}
    PROVE  /\ Text(t, m) \in Seg /\ IsText(Text(t, m)) /\ Text(t, m).text = t /\ Text(t, m).marks = m
           /\ PlacesOf(Text(t, m)) = Run(t, m)
BY DEF Text, Seg, IsText, PlacesOf, Run

LEMMA KeptFacts ==
    ASSUME NEW s \in Seg
    PROVE  Kept(s) \in Seq(Seg) /\ Places(Kept(s)) = PlacesOf(s)
<1>1. CASE IsText(s) /\ s.text = <<>>
  <2>1. PlacesOf(s) = <<>>
    BY <1>1, EmptySeq DEF PlacesOf
  <2>2. Kept(s) = <<>> /\ <<>> \in Seq(Seg)
    BY <1>1, EmptySeq DEF Kept
  <2>. QED BY <2>1, <2>2, PlacesEmpty
<1>2. CASE ~(IsText(s) /\ s.text = <<>>)
  <2>1. Kept(s) = <<s>>
    BY <1>2 DEF Kept
  <2>. QED BY <2>1, PlacesOne
<1>. QED BY <1>1, <1>2

KeptMap == [s \in Seg |-> Kept(s)]

LEMMA EmittedIsMap ==
    ASSUME NEW segs \in Seq(Seg)
    PROVE  Emitted(segs) = FlatMap(KeptMap, segs)
<1>1. \A i \in 1 .. Len(segs) : segs[i] \in Seg
  BY ElementOfSeq
<1>2. \A i \in 1 .. Len(segs) : KeptMap[segs[i]] = Kept(segs[i])
  BY <1>1 DEF KeptMap
<1>3. [i \in 1 .. Len(segs) |-> Kept(segs[i])] = [i \in 1 .. Len(segs) |-> KeptMap[segs[i]]]
  BY <1>2
<1>. QED BY <1>3 DEF Emitted, FlatMap, Mapped

\* What is written anew has the places of what was read.
LEMMA EmittedKeepsPlaces ==
    ASSUME NEW segs \in Seq(Seg)
    PROVE  Emitted(segs) \in Seq(Seg) /\ Places(Emitted(segs)) = Places(segs)
<1>. DEFINE T == {u \in Seq(Seg) : Emitted(u) \in Seq(Seg) /\ Places(Emitted(u)) = Places(u)}
<1>1. <<>> \in T
  <2>1. <<>> \in Seq(Seg)
    BY EmptySeq
  <2>2. Emitted(<<>>) = <<>>
    BY <2>1, EmittedIsMap, FlatMapEmpty
  <2>. QED BY <2>1, <2>2
<1>2. ASSUME NEW u \in Seq(Seg), NEW e \in Seg, u \in T PROVE Append(u, e) \in T
  <2>1. \A s \in Seg : KeptMap[s] \in Seq(Seg) /\ KeptMap[s] = Kept(s)
    BY KeptFacts DEF KeptMap
  <2>2. Append(u, e) \in Seq(Seg)
    BY AppendProperties
  <2>3. FlatMap(KeptMap, Append(u, e)) = FlatMap(KeptMap, u) \o KeptMap[e]
    <3>1. \A s \in Seg : KeptMap[s] \in Seq(Seg)
      BY <2>1
    <3>. QED BY <3>1, FlatMapAppend
  <2>4. Emitted(Append(u, e)) = Emitted(u) \o Kept(e)
    BY <2>1, <2>2, <2>3, EmittedIsMap
  <2>5. Emitted(u) \in Seq(Seg) /\ Kept(e) \in Seq(Seg) /\ Emitted(u) \o Kept(e) \in Seq(Seg)
    BY <1>2, KeptFacts, ConcatProperties
  <2>6. Places(Emitted(u) \o Kept(e)) = Places(Emitted(u)) \o Places(Kept(e))
    BY <2>5, PlacesConcat
  <2>7. Places(Append(u, e)) = Places(u) \o PlacesOf(e)
    BY PlacesAppend
  <2>. QED BY <1>2, <2>2, <2>4, <2>5, <2>6, <2>7, KeptFacts
<1>3. Seq(Seg) \subseteq T
  <2>. HIDE DEF T
  <2>. QED BY <1>1, <1>2, SeqInduct
<1>. QED BY <1>3

LEMMA JoinedFacts ==
    ASSUME NEW out \in Seq(Seg), NEW s \in Seg
    PROVE  Joined(out, s) \in Seq(Seg) /\ Places(Joined(out, s)) = Places(out) \o PlacesOf(s)
<1>1. CASE out # <<>> /\ IsText(s) /\ IsText(Last(out)) /\ Last(out).marks = s.marks
  <2>1. PICK u \in Seq(Seg), l \in Seg : out = Append(u, l)
    BY <1>1, SequenceEmptyOrAppend
  <2>2. Len(out) = Len(u) + 1 /\ Len(u) \in Nat /\ (\A k \in 1 .. Len(u) : out[k] = u[k])
        /\ out[Len(out)] = l
    BY <2>1, AppendProperties, LenProperties
  <2>3. IsText(l) /\ l.marks = s.marks
    BY <1>1, <2>2 DEF Last
  <2>. DEFINE l2 == [l EXCEPT !.text = @ \o s.text]
  <2>4. l.text \o s.text \in Seq(Char)
    BY SegTypes, ConcatProperties
  <2>5. l2 \in Seg /\ IsText(l2) /\ l2.text = l.text \o s.text /\ l2.marks = l.marks
    BY <2>3, <2>4 DEF Seg, IsText
  <2>6. PlacesOf(l2) = PlacesOf(l) \o PlacesOf(s)
    <3>1. Run(l.text \o s.text, s.marks) = Run(l.text, s.marks) \o Run(s.text, s.marks)
      <4>1. l.text \in Seq(Char) /\ s.text \in Seq(Char)
        BY SegTypes
      <4>2. RunSplits(l.text, s.text, s.marks)
        BY <4>1, RunConcat
      <4>. QED BY <4>2 DEF RunSplits
    <3>. HIDE DEF l2
    <3>. QED BY <1>1, <2>3, <2>5, <3>1, RunPlaces
  <2>7. Joined(out, s) = Append(u, l2)
    <3>1. Joined(out, s) = [out EXCEPT ![Len(out)].text = @ \o s.text]
      BY <1>1 DEF Joined
    <3>2. Len(out) \in 1 .. Len(out)
      BY <2>2
    <3>3. PICK x : x = [out EXCEPT ![Len(out)] = l2]
      OBVIOUS
    <3>4. [out EXCEPT ![Len(out)].text = @ \o s.text] = x
      BY <2>2, <3>3
    <3>. HIDE DEF l2
    <3>5. x \in Seq(Seg) /\ Len(x) = Len(out) /\ \A j \in 1 .. Len(out) : x[j] = IF j = Len(out) THEN l2 ELSE out[j]
      BY <2>5, <3>2, <3>3, ExceptSeq
    <3>6. PICK y : y = Append(u, l2)
      OBVIOUS
    <3>7. y \in Seq(Seg) /\ Len(y) = Len(u) + 1 /\ (\A k \in 1 .. Len(u) : y[k] = u[k]) /\ y[Len(u) + 1] = l2
      BY <2>5, <3>6, AppendProperties
    <3>8. \A j \in 1 .. Len(x) : x[j] = y[j]
      <4>. TAKE j \in 1 .. Len(x)
      <4>1. CASE j = Len(out)
        BY <2>2, <3>5, <3>7, <4>1
      <4>2. CASE j # Len(out)
        <5>1. j \in 1 .. Len(u)
          BY <2>2, <3>5, <4>2
        <5>. QED BY <2>2, <3>5, <3>7, <4>2, <5>1
      <4>. QED BY <4>1, <4>2
    <3>9. x = y
      BY <2>2, <3>5, <3>7, <3>8, SeqEqual
    <3>. QED BY <3>1, <3>4, <3>6, <3>9
  <2>. HIDE DEF l2
  <2>8. Places(Append(u, l2)) = Places(u) \o (PlacesOf(l) \o PlacesOf(s))
    BY <2>5, <2>6, PlacesAppend
  <2>9. Places(out) = Places(u) \o PlacesOf(l)
    BY <2>1, PlacesAppend
  <2>10. (Places(u) \o PlacesOf(l)) \o PlacesOf(s) = Places(u) \o (PlacesOf(l) \o PlacesOf(s))
    <3>1. Places(u) \in Seq(Spot) /\ PlacesOf(l) \in Seq(Spot) /\ PlacesOf(s) \in Seq(Spot)
      BY PlacesType, PlacesOfType
    <3>2. Assoc(Places(u), PlacesOf(l), PlacesOf(s))
      BY <3>1, Associative
    <3>. QED BY <3>2 DEF Assoc
  <2>11. Append(u, l2) \in Seq(Seg)
    BY <2>5, AppendProperties
  <2>. QED BY <2>7, <2>8, <2>9, <2>10, <2>11
<1>2. CASE ~(out # <<>> /\ IsText(s) /\ IsText(Last(out)) /\ Last(out).marks = s.marks)
  <2>1. Joined(out, s) = Append(out, s)
    BY <1>2 DEF Joined
  <2>. QED BY <2>1, AppendProperties, PlacesAppend
<1>. QED BY <1>1, <1>2

JoinBy(g, segs, n) == g = [k \in 0 .. n |-> IF k = 0 THEN <<>> ELSE Joined(g[k - 1], segs[k])]

LEMMA JoinRead ==
    ASSUME NEW g, NEW segs, NEW n, JoinBy(g, segs, n)
    PROVE  \A k \in 0 .. n : g[k] = IF k = 0 THEN <<>> ELSE Joined(g[k - 1], segs[k])
<1>. DEFINE G == [k \in 0 .. n |-> IF k = 0 THEN <<>> ELSE Joined(g[k - 1], segs[k])]
<1>1. \A k \in 0 .. n : G[k] = IF k = 0 THEN <<>> ELSE Joined(g[k - 1], segs[k])
  OBVIOUS
<1>2. g = G
  BY DEF JoinBy
<1>. HIDE DEF G
<1>. QED BY <1>1, <1>2

LEMMA JoinExists ==
    ASSUME NEW segs, NEW N \in Nat
    PROVE  \E g : JoinBy(g, segs, N)
<1>. DEFINE T == {n \in Nat : \E g : JoinBy(g, segs, n)}
<1>1. 0 \in T
  <2>1. JoinBy([k \in 0 .. 0 |-> <<>>], segs, 0)
    BY DEF JoinBy
  <2>. QED BY <2>1
<1>2. ASSUME NEW n \in Nat, n \in T PROVE n + 1 \in T
  <2>1. PICK g : JoinBy(g, segs, n)
    BY <1>2
  <2>. DEFINE next == Joined(g[n], segs[n + 1])
              h == [k \in 0 .. n + 1 |-> IF k = n + 1 THEN next ELSE g[k]]
  <2>2. \A k \in 0 .. n + 1 : h[k] = IF k = 0 THEN <<>> ELSE Joined(h[k - 1], segs[k])
    <3>. TAKE k \in 0 .. n + 1
    <3>1. CASE k = n + 1
      <4>1. h[k] = next /\ h[k - 1] = g[k - 1] /\ k # 0 /\ k - 1 = n
        BY <3>1
      <4>. QED BY <3>1, <4>1
    <3>2. CASE k # n + 1
      <4>1. k \in 0 .. n /\ h[k] = g[k]
        BY <3>2
      <4>2. k # 0 => k - 1 \in 0 .. n + 1 /\ k - 1 # n + 1 /\ h[k - 1] = g[k - 1]
        BY <4>1
      <4>3. g[k] = IF k = 0 THEN <<>> ELSE Joined(g[k - 1], segs[k])
        BY <2>1, <4>1, JoinRead
      <4>. QED BY <4>1, <4>2, <4>3
    <3>. QED BY <3>1, <3>2
  <2>3. JoinBy(h, segs, n + 1)
    <3>1. h = [k \in 0 .. n + 1 |-> h[k]]
      OBVIOUS
    <3>. HIDE DEF h
    <3>2. [k \in 0 .. n + 1 |-> h[k]] = [k \in 0 .. n + 1 |-> IF k = 0 THEN <<>> ELSE Joined(h[k - 1], segs[k])]
      BY <2>2
    <3>. QED BY <3>1, <3>2 DEF JoinBy
  <2>. QED BY <2>3
<1>3. Nat \subseteq T
  <2>. HIDE DEF T
  <2>. QED BY <1>1, <1>2, NatInduct
<1>. QED BY <1>3

\* Runs that are put together have the places they had apart.
LEMMA CoalesceKeepsPlaces ==
    ASSUME NEW segs \in Seq(Seg)
    PROVE  Coalesce(segs) \in Seq(Seg) /\ Places(Coalesce(segs)) = Places(segs)
<1>. DEFINE N == Len(segs)
<1>0. N \in Nat
  BY LenProperties
<1>1. PICK g : JoinBy(g, segs, N) /\ Coalesce(segs) = g[N]
  <2>. DEFINE G == CHOOSE g : JoinBy(g, segs, N)
  <2>1. \E g : JoinBy(g, segs, N)
    BY <1>0, JoinExists
  <2>2. JoinBy(G, segs, N)
    BY <2>1
  <2>3. Coalesce(segs) = G[N]
    BY DEF Coalesce, JoinBy
  <2>. QED BY <2>2, <2>3
<1>. DEFINE T == {n \in Nat : n \in 0 .. N => g[n] \in Seq(Seg) /\ Places(g[n]) = Places(SubSeq(segs, 1, n))}
<1>2. 0 \in T
  <2>1. g[0] = <<>>
    BY <1>0, <1>1, JoinRead
  <2>2. SubSeq(segs, 1, 0) = <<>> /\ <<>> \in Seq(Seg)
    BY SubSeqEmpty, EmptySeq
  <2>. QED BY <2>1, <2>2
<1>3. ASSUME NEW n \in Nat, n \in T PROVE n + 1 \in T
  <2>. SUFFICES ASSUME n + 1 \in 0 .. N
                PROVE  g[n + 1] \in Seq(Seg) /\ Places(g[n + 1]) = Places(SubSeq(segs, 1, n + 1))
    OBVIOUS
  <2>1. PICK m : m = n + 1
    OBVIOUS
  <2>2. m \in 1 .. N /\ m \in 0 .. N /\ m # 0 /\ m - 1 = n /\ n \in 0 .. N
    BY <1>0, <2>1
  <2>3. g[m] = Joined(g[n], segs[m])
    BY <1>1, <2>2, JoinRead
  <2>4. g[n] \in Seq(Seg) /\ Places(g[n]) = Places(SubSeq(segs, 1, n))
    BY <1>3, <2>2
  <2>5. segs[m] \in Seg
    BY <2>2, ElementOfSeq
  <2>6. g[m] \in Seq(Seg) /\ Places(g[m]) = Places(g[n]) \o PlacesOf(segs[m])
    BY <2>3, <2>4, <2>5, JoinedFacts
  <2>7. Places(SubSeq(segs, 1, m)) = Places(SubSeq(segs, 1, m - 1)) \o PlacesOf(segs[m])
    BY <2>2, PosFacts
  <2>. QED BY <2>1, <2>2, <2>4, <2>6, <2>7
<1>4. Nat \subseteq T
  <2>. HIDE DEF T
  <2>. QED BY <1>2, <1>3, NatInduct
<1>5. N \in T /\ N \in 0 .. N
  BY <1>0, <1>4
<1>6. g[N] \in Seq(Seg) /\ Places(g[N]) = Places(SubSeq(segs, 1, N))
  BY <1>5
<1>7. SubSeq(segs, 1, N) = segs
  BY SubSeqFull
<1>. QED BY <1>1, <1>6, <1>7

------------------------------------------------------------------------------
(* Maps that know the place of what they map.                              *)

OffMap(f, q, o) == [k \in 1 .. Len(q) |-> f[<<o + k, q[k]>>]]

LEMMA OffMapShape ==
    ASSUME NEW f, NEW q, Len(q) \in Nat, NEW o
    PROVE  Len(OffMap(f, q, o)) = Len(q) /\ \A k \in 1 .. Len(q) : OffMap(f, q, o)[k] = f[<<o + k, q[k]>>]
BY DEF OffMap

LEMMA OffMapType ==
    ASSUME NEW S, NEW B, NEW f, \A x \in Nat \X S : f[x] \in B, NEW q \in Seq(S), NEW o \in Nat
    PROVE  OffMap(f, q, o) \in Seq(B)
<1>1. Len(q) \in Nat /\ \A k \in 1 .. Len(q) : q[k] \in S
  BY LenProperties, ElementOfSeq
<1>2. \A k \in 1 .. Len(q) : f[<<o + k, q[k]>>] \in B
  BY <1>1
<1>. QED BY <1>1, <1>2 DEF OffMap

LEMMA OffMapConcat ==
    ASSUME NEW f, NEW S, NEW q \in Seq(S), NEW r \in Seq(S), NEW o \in Nat
    PROVE  OffMap(f, q \o r, o) = OffMap(f, q, o) \o OffMap(f, r, o + Len(q))
<1>. PICK B : \A x \in Nat \X S : f[x] \in B
  <2>1. \A x \in Nat \X S : f[x] \in {f[y] : y \in Nat \X S}
    OBVIOUS
  <2>. QED BY <2>1
<1>1. PICK w : w = q \o r
  OBVIOUS
<1>2. w \in Seq(S) /\ Len(w) = Len(q) + Len(r) /\ Len(q) \in Nat /\ Len(r) \in Nat
      /\ \A k \in 1 .. Len(q) + Len(r) : w[k] = IF k <= Len(q) THEN q[k] ELSE r[k - Len(q)]
  BY <1>1, ConcatProperties, LenProperties
<1>3. PICK x, y : x = OffMap(f, q, o) /\ y = OffMap(f, r, o + Len(q))
  OBVIOUS
<1>4. o + Len(q) \in Nat
  BY <1>2
<1>5. x \in Seq(B) /\ y \in Seq(B)
  BY <1>3, <1>4, OffMapType
<1>6. Len(x) = Len(q) /\ \A k \in 1 .. Len(q) : x[k] = f[<<o + k, q[k]>>]
  BY <1>2, <1>3 DEF OffMap
<1>7. Len(y) = Len(r) /\ \A k \in 1 .. Len(r) : y[k] = f[<<o + Len(q) + k, r[k]>>]
  BY <1>2, <1>3 DEF OffMap
<1>8. PICK z : z = x \o y
  OBVIOUS
<1>9. z \in Seq(B) /\ Len(z) = Len(q) + Len(r)
      /\ \A k \in 1 .. Len(q) + Len(r) : z[k] = IF k <= Len(q) THEN x[k] ELSE y[k - Len(q)]
  <2>1. /\ x \o y \in Seq(B) /\ Len(x \o y) = Len(x) + Len(y)
        /\ \A k \in 1 .. Len(x) + Len(y) : (x \o y)[k] = IF k <= Len(x) THEN x[k] ELSE y[k - Len(x)]
    BY <1>5, ConcatProperties
  <2>. QED BY <1>6, <1>7, <1>8, <2>1
<1>10. PICK m : m = OffMap(f, w, o)
  OBVIOUS
<1>11. m \in Seq(B)
  BY <1>2, <1>10, OffMapType
<1>12. Len(m) = Len(w) /\ \A k \in 1 .. Len(w) : m[k] = f[<<o + k, w[k]>>]
  BY <1>2, <1>10 DEF OffMap
<1>13. \A k \in 1 .. Len(m) : m[k] = z[k]
  <2>. TAKE k \in 1 .. Len(m)
  <2>1. CASE k <= Len(q)
    <3>1. k \in 1 .. Len(q) /\ w[k] = q[k] /\ z[k] = x[k]
      BY <1>2, <1>9, <1>12, <2>1
    <3>. QED BY <1>6, <1>12, <3>1
  <2>2. CASE ~(k <= Len(q))
    <3>1. PICK j : j = k - Len(q)
      OBVIOUS
    <3>2. j \in 1 .. Len(r) /\ w[k] = r[j] /\ z[k] = y[j] /\ o + Len(q) + j = o + k
      BY <1>2, <1>9, <1>12, <2>2, <3>1
    <3>. QED BY <1>7, <1>12, <3>2
  <2>. QED BY <2>1, <2>2
<1>14. m = z
  BY <1>2, <1>9, <1>11, <1>12, <1>13, SeqEqual
<1>. QED BY <1>1, <1>3, <1>8, <1>10, <1>14

------------------------------------------------------------------------------
(* A run against a range of places.                                        *)

\* What editing.py cuts a run at.
CutFrom(p, a, n) == Least(Minus(a, p), n)
CutTo(p, a, b, n) == Most(CutFrom(p, a, n), Least(Minus(b, p), n))

LEMMA CutBounds ==
    ASSUME NEW p \in Nat, NEW a \in Nat, NEW b \in Nat, NEW n \in Nat, a <= b
    PROVE  /\ CutFrom(p, a, n) \in 0 .. n
           /\ CutTo(p, a, b, n) \in CutFrom(p, a, n) .. n
           /\ \A k \in 1 .. CutFrom(p, a, n) : p + k \notin a + 1 .. b
           /\ \A k \in CutFrom(p, a, n) + 1 .. CutTo(p, a, b, n) : p + k \in a + 1 .. b
           /\ \A k \in CutTo(p, a, b, n) + 1 .. n : p + k \notin a + 1 .. b
BY DEF CutFrom, CutTo, Least, Most, Minus

\* A sequence cut twice is its three parts.
LEMMA ThreeParts ==
    ASSUME NEW S, NEW t \in Seq(S), NEW c \in Nat, NEW d \in Nat, c <= d, d <= Len(t)
    PROVE  /\ SubSeq(t, 1, c) \in Seq(S) /\ Len(SubSeq(t, 1, c)) = c
           /\ SubSeq(t, c + 1, d) \in Seq(S) /\ Len(SubSeq(t, c + 1, d)) = d - c
           /\ SubSeq(t, d + 1, Len(t)) \in Seq(S) /\ Len(SubSeq(t, d + 1, Len(t))) = Len(t) - d
<1>1. Len(t) \in Nat /\ \A k \in 1 .. Len(t) : t[k] \in S
  BY LenProperties, ElementOfSeq
<1>2. SubSeq(t, 1, c) \in Seq(S) /\ Len(SubSeq(t, 1, c)) = IF 1 <= c THEN c - 1 + 1 ELSE 0
  <2>1. c \in Int /\ \A k \in 1 .. c : t[k] \in S
    BY <1>1
  <2>. QED BY <2>1, SubSeqProperties
<1>3. SubSeq(t, c + 1, d) \in Seq(S) /\ Len(SubSeq(t, c + 1, d)) = IF c + 1 <= d THEN d - (c + 1) + 1 ELSE 0
  <2>1. c + 1 \in Int /\ d \in Int /\ \A k \in c + 1 .. d : t[k] \in S
    BY <1>1
  <2>. QED BY <2>1, SubSeqProperties
<1>4. /\ SubSeq(t, d + 1, Len(t)) \in Seq(S)
      /\ Len(SubSeq(t, d + 1, Len(t))) = IF d + 1 <= Len(t) THEN Len(t) - (d + 1) + 1 ELSE 0
  <2>1. d + 1 \in Int /\ Len(t) \in Int /\ \A k \in d + 1 .. Len(t) : t[k] \in S
    BY <1>1
  <2>. QED BY <2>1, SubSeqProperties
<1>8. Len(SubSeq(t, 1, c)) = c
  BY <1>2
<1>9. Len(SubSeq(t, c + 1, d)) = d - c
  BY <1>1, <1>3
<1>10. Len(SubSeq(t, d + 1, Len(t))) = Len(t) - d
  BY <1>1, <1>4
<1>. QED BY <1>2, <1>3, <1>4, <1>8, <1>9, <1>10

LEMMA ThreePartsJoin ==
    ASSUME NEW S, NEW t \in Seq(S), NEW c \in Nat, NEW d \in Nat, c <= d, d <= Len(t)
    PROVE  t = SubSeq(t, 1, c) \o (SubSeq(t, c + 1, d) \o SubSeq(t, d + 1, Len(t)))
<1>1. Len(t) \in Nat
  BY LenProperties
<1>5. SubSeq(t, c + 1, d) \o SubSeq(t, d + 1, Len(t)) = SubSeq(t, c + 1, Len(t))
  <2>1. PICK e : e = c + 1
    OBVIOUS
  <2>2. e \in 1 .. Len(t) + 1 /\ d \in e - 1 .. Len(t) /\ Len(t) \in d .. Len(t)
    BY <1>1, <2>1
  <2>3. SubSeq(t, e, d) \o SubSeq(t, d + 1, Len(t)) = SubSeq(t, e, Len(t))
    BY <2>2, ConcatAdjacentSubSeq
  <2>. QED BY <2>1, <2>3
<1>6. SubSeq(t, 1, c) \o SubSeq(t, c + 1, Len(t)) = SubSeq(t, 1, Len(t))
  <2>1. 1 \in 1 .. Len(t) + 1 /\ c \in 1 - 1 .. Len(t) /\ Len(t) \in c .. Len(t)
    BY <1>1
  <2>. QED BY <2>1, ConcatAdjacentSubSeq
<1>7. SubSeq(t, 1, Len(t)) = t
  BY SubSeqFull
<1>. QED BY <1>5, <1>6, <1>7

\* The letters of a text are not atoms.
LEMMA NoAtomInRun ==
    ASSUME NEW t \in Seq(Char), NEW m \in SUBSET {"strong", "link"}
    PROVE  \A k \in 1 .. Len(t) : ~IsAtom(Run(t, m)[k])
<1>1. \A c \in Char : c \notin {"mention", "backlink"}
  BY EditAssumption DEF Char
<1>2. \A k \in 1 .. Len(t) : t[k] \in Char
  BY ElementOfSeq
<1>. QED BY <1>1, <1>2, RunType DEF IsAtom

LEMMA AtomPlaces ==
    ASSUME NEW s \in Seg, ~IsText(s)
    PROVE  /\ Len(PlacesOf(s)) = 1 /\ IsAtom(PlacesOf(s)[1])
<1>1. s.kind \in {"mention", "backlink"}
  BY SegTypes DEF IsText
<1>. QED BY <1>1 DEF PlacesOf, IsAtom

------------------------------------------------------------------------------
(* A range that is deleted.                                                *)

Dropper(a, b) ==
    [x \in Nat \X Spot |-> IF x[1] \in a + 1 .. b /\ ~IsAtom(x[2]) THEN <<>> ELSE <<x[2]>>]
DeletedAt(q, o, a, b) == FlattenSeq(OffMap(Dropper(a, b), q, o))

LEMMA DropType == \A a, b : \A x \in Nat \X Spot : Dropper(a, b)[x] \in Seq(Spot)
<1>. TAKE a, b
<1>1. \A x \in Nat \X Spot : <<x[2]>> \in Seq(Spot) /\ <<>> \in Seq(Spot)
  OBVIOUS
<1>. QED BY <1>1 DEF Dropper

LEMMA DeletedIsAt ==
    ASSUME NEW ps \in Seq(Spot), NEW a \in Nat, NEW b \in Nat
    PROVE  Deleted(ps, a, b) = DeletedAt(ps, 0, a, b)
<1>1. Len(ps) \in Nat /\ \A k \in 1 .. Len(ps) : ps[k] \in Spot
  BY LenProperties, ElementOfSeq
<1>2. \A k \in 1 .. Len(ps) :
        Dropper(a, b)[<<0 + k, ps[k]>>] = IF k \in a + 1 .. b /\ ~IsAtom(ps[k]) THEN <<>> ELSE <<ps[k]>>
  <2>. TAKE k \in 1 .. Len(ps)
  <2>1. <<0 + k, ps[k]>> \in Nat \X Spot /\ 0 + k = k
    BY <1>1
  <2>2. PICK x : x = <<0 + k, ps[k]>>
    OBVIOUS
  <2>3. x \in Nat \X Spot /\ x[1] = k /\ x[2] = ps[k]
    BY <2>1, <2>2
  <2>4. Dropper(a, b)[x] = IF x[1] \in a + 1 .. b /\ ~IsAtom(x[2]) THEN <<>> ELSE <<x[2]>>
    BY <2>3 DEF Dropper
  <2>. QED BY <2>2, <2>3, <2>4
<1>3. [k \in 1 .. Len(ps) |-> IF k \in a + 1 .. b /\ ~IsAtom(ps[k]) THEN <<>> ELSE <<ps[k]>>]
      = [k \in 1 .. Len(ps) |-> Dropper(a, b)[<<0 + k, ps[k]>>]]
  BY <1>2
<1>. QED BY <1>3 DEF Deleted, DeletedAt, OffMap

DropsAt(q, o, a, b, k) ==
    OffMap(Dropper(a, b), q, o)[k] = IF o + k \in a + 1 .. b /\ ~IsAtom(q[k]) THEN <<>> ELSE <<q[k]>>
LEMMA DropRead ==
    ASSUME NEW q \in Seq(Spot), NEW o \in Nat, NEW a \in Nat, NEW b \in Nat, NEW k \in 1 .. Len(q)
    PROVE  DropsAt(q, o, a, b, k)
<1>1. q[k] \in Spot /\ o + k \in Nat
  BY ElementOfSeq
<1>2. OffMap(Dropper(a, b), q, o)[k] = Dropper(a, b)[<<o + k, q[k]>>]
  BY DEF OffMap
<1>3. PICK x : x = <<o + k, q[k]>>
  OBVIOUS
<1>4. x \in Nat \X Spot /\ x[1] = o + k /\ x[2] = q[k]
  BY <1>1, <1>3
<1>5. Dropper(a, b)[x] = IF x[1] \in a + 1 .. b /\ ~IsAtom(x[2]) THEN <<>> ELSE <<x[2]>>
  BY <1>4 DEF Dropper
<1>. QED BY <1>2, <1>3, <1>4, <1>5 DEF DropsAt

DeletedSplits(q, r, o, a, b) ==
    DeletedAt(q \o r, o, a, b) = DeletedAt(q, o, a, b) \o DeletedAt(r, o + Len(q), a, b)
LEMMA DeletedAtConcat ==
    ASSUME NEW q \in Seq(Spot), NEW r \in Seq(Spot), NEW o \in Nat, NEW a \in Nat, NEW b \in Nat
    PROVE  DeletedSplits(q, r, o, a, b) /\ DeletedAt(q, o, a, b) \in Seq(Spot)
<1>1. \A x \in Nat \X Spot : Dropper(a, b)[x] \in Seq(Spot)
  BY DropType
<1>2. o + Len(q) \in Nat
  BY LenProperties
<1>3. OffMap(Dropper(a, b), q \o r, o) = OffMap(Dropper(a, b), q, o) \o OffMap(Dropper(a, b), r, o + Len(q))
  BY OffMapConcat
<1>4. OffMap(Dropper(a, b), q, o) \in Seq(Seq(Spot)) /\ OffMap(Dropper(a, b), r, o + Len(q)) \in Seq(Seq(Spot))
  BY <1>1, <1>2, OffMapType
<1>5. FlattenSeq(OffMap(Dropper(a, b), q, o) \o OffMap(Dropper(a, b), r, o + Len(q)))
      = FlattenSeq(OffMap(Dropper(a, b), q, o)) \o FlattenSeq(OffMap(Dropper(a, b), r, o + Len(q)))
  BY <1>4, FlatConcat
<1>6. FlattenSeq(OffMap(Dropper(a, b), q, o)) \in Seq(Spot)
  BY <1>4, FlatType
<1>. QED BY <1>3, <1>5, <1>6 DEF DeletedAt, DeletedSplits

\* Atoms and what is outside of the range stay.
LEMMA DeletedAtStays ==
    ASSUME NEW q \in Seq(Spot), NEW o \in Nat, NEW a \in Nat, NEW b \in Nat,
           \A k \in 1 .. Len(q) : o + k \notin a + 1 .. b \/ IsAtom(q[k])
    PROVE  DeletedAt(q, o, a, b) = q
<1>1. \A k \in 1 .. Len(q) : OffMap(Dropper(a, b), q, o)[k] = <<q[k]>>
  <2>. TAKE k \in 1 .. Len(q)
  <2>1. OffMap(Dropper(a, b), q, o)[k] = IF o + k \in a + 1 .. b /\ ~IsAtom(q[k]) THEN <<>> ELSE <<q[k]>>
    <3>1. DropsAt(q, o, a, b, k)
      BY DropRead
    <3>. QED BY <3>1 DEF DropsAt
  <2>. QED BY <2>1
<1>2. OffMap(Dropper(a, b), q, o) = [k \in 1 .. Len(q) |-> <<q[k]>>]
  <2>1. OffMap(Dropper(a, b), q, o) = [k \in 1 .. Len(q) |-> OffMap(Dropper(a, b), q, o)[k]]
    BY DEF OffMap
  <2>. QED BY <1>1, <2>1
<1>3. FlattenSeq([k \in 1 .. Len(q) |-> <<q[k]>>]) = q
  BY FlatSingles
<1>. QED BY <1>2, <1>3 DEF DeletedAt

\* The characters in the range go.
LEMMA DeletedAtGoes ==
    ASSUME NEW q \in Seq(Spot), NEW o \in Nat, NEW a \in Nat, NEW b \in Nat,
           \A k \in 1 .. Len(q) : o + k \in a + 1 .. b /\ ~IsAtom(q[k])
    PROVE  DeletedAt(q, o, a, b) = <<>>
<1>1. PICK x : x = OffMap(Dropper(a, b), q, o)
  OBVIOUS
<1>2. \A k \in 1 .. Len(q) : x[k] = <<>>
  <2>1. \A k \in 1 .. Len(q) : DropsAt(q, o, a, b, k)
    BY DropRead
  <2>. QED BY <1>1, <2>1 DEF DropsAt
<1>3. \A y \in Nat \X Spot : Dropper(a, b)[y] \in Seq(Spot)
  BY DropType
<1>4. x \in Seq(Seq(Spot))
  BY <1>1, <1>3, OffMapType
<1>5. Len(x) = Len(q)
  BY <1>1, OffMapShape, LenProperties
<1>6. FlattenSeq(x) = <<>>
  BY <1>2, <1>4, <1>5, FlatEmpties
<1>. QED BY <1>1, <1>6 DEF DeletedAt

\* c and d are where the range cuts the run t at place p.
CutsAt(t, p, a, b, c, d) ==
    /\ \A k \in 1 .. c : p + k \notin a + 1 .. b
    /\ \A k \in c + 1 .. d : p + k \in a + 1 .. b
    /\ \A k \in d + 1 .. Len(t) : p + k \notin a + 1 .. b

CutLeaves(t, m, p, a, b, c, d) ==
    Run(SubSeq(t, 1, c) \o SubSeq(t, d + 1, Len(t)), m) = DeletedAt(Run(t, m), p, a, b)
LEMMA CutRun ==
    ASSUME NEW t \in Seq(Char), NEW m \in SUBSET {"strong", "link"},
           NEW p \in Nat, NEW a \in Nat, NEW b \in Nat,
           NEW c \in 0 .. Len(t), NEW d \in c .. Len(t), CutsAt(t, p, a, b, c, d)
    PROVE  /\ SubSeq(t, 1, c) \o SubSeq(t, d + 1, Len(t)) \in Seq(Char)
           /\ CutLeaves(t, m, p, a, b, c, d)
<1>1. Len(t) \in Nat
  BY LenProperties
<1>2. /\ c \in 0 .. Len(t) /\ d \in c .. Len(t)
      /\ \A k \in 1 .. c : p + k \notin a + 1 .. b
      /\ \A k \in c + 1 .. d : p + k \in a + 1 .. b
      /\ \A k \in d + 1 .. Len(t) : p + k \notin a + 1 .. b
  BY DEF CutsAt
<1>3. PICK t1, t2, t3 : t1 = SubSeq(t, 1, c) /\ t2 = SubSeq(t, c + 1, d) /\ t3 = SubSeq(t, d + 1, Len(t))
  OBVIOUS
<1>4. /\ t1 \in Seq(Char) /\ Len(t1) = c /\ t2 \in Seq(Char) /\ Len(t2) = d - c
      /\ t3 \in Seq(Char) /\ Len(t3) = Len(t) - d
      /\ t = t1 \o (t2 \o t3)
  <2>1. c \in Nat /\ d \in Nat /\ c <= d /\ d <= Len(t)
    BY <1>1, <1>2
  <2>2. SubSeq(t, 1, c) \in Seq(Char) /\ Len(SubSeq(t, 1, c)) = c
    BY <2>1, ThreeParts
  <2>3. SubSeq(t, c + 1, d) \in Seq(Char) /\ Len(SubSeq(t, c + 1, d)) = d - c
    BY <2>1, ThreeParts
  <2>4. SubSeq(t, d + 1, Len(t)) \in Seq(Char) /\ Len(SubSeq(t, d + 1, Len(t))) = Len(t) - d
    BY <2>1, ThreeParts
  <2>5. t = SubSeq(t, 1, c) \o (SubSeq(t, c + 1, d) \o SubSeq(t, d + 1, Len(t)))
    BY <2>1, ThreePartsJoin
  <2>. QED BY <1>3, <2>2, <2>3, <2>4, <2>5
<1>5. PICK r1, r2, r3 : r1 = Run(t1, m) /\ r2 = Run(t2, m) /\ r3 = Run(t3, m)
  OBVIOUS
<1>6. r1 \in Seq(Spot) /\ Len(r1) = c /\ \A k \in 1 .. c : ~IsAtom(r1[k])
  BY <1>4, <1>5, RunType, NoAtomInRun
<1>7. r2 \in Seq(Spot) /\ Len(r2) = d - c /\ \A k \in 1 .. d - c : ~IsAtom(r2[k])
  BY <1>4, <1>5, RunType, NoAtomInRun
<1>8. r3 \in Seq(Spot) /\ Len(r3) = Len(t) - d
  BY <1>4, <1>5, RunType
<1>9. Run(t, m) = r1 \o (r2 \o r3)
  <2>1. t2 \o t3 \in Seq(Char)
    BY <1>4, ConcatProperties
  <2>2. Run(t2 \o t3, m) = r2 \o r3
    <3>1. t2 \in Seq(Char) /\ t3 \in Seq(Char)
      BY <1>4
    <3>2. Run(t2 \o t3, m) = Run(t2, m) \o Run(t3, m)
      <4>1. RunSplits(t2, t3, m)
        BY <3>1, RunConcat
      <4>. QED BY <4>1 DEF RunSplits
    <3>. QED BY <1>5, <3>2
  <2>3. Run(t1 \o (t2 \o t3), m) = r1 \o Run(t2 \o t3, m)
    <3>1. PICK u : u = t2 \o t3
      OBVIOUS
    <3>2. t1 \in Seq(Char) /\ u \in Seq(Char)
      BY <1>4, <2>1, <3>1
    <3>3. Run(t1 \o u, m) = Run(t1, m) \o Run(u, m)
      <4>1. RunSplits(t1, u, m)
        BY <3>2, RunConcat
      <4>. QED BY <4>1 DEF RunSplits
    <3>. QED BY <1>5, <3>1, <3>3
  <2>. QED BY <1>4, <2>2, <2>3
<1>10. r2 \o r3 \in Seq(Spot)
  BY <1>7, <1>8, ConcatProperties
<1>11. DeletedAt(r1 \o (r2 \o r3), p, a, b) = DeletedAt(r1, p, a, b) \o DeletedAt(r2 \o r3, p + c, a, b)
  <2>1. PICK u : u = r2 \o r3
    OBVIOUS
  <2>2. r1 \in Seq(Spot) /\ u \in Seq(Spot)
    BY <1>6, <1>10, <2>1
  <2>3. DeletedAt(r1 \o u, p, a, b) = DeletedAt(r1, p, a, b) \o DeletedAt(u, p + Len(r1), a, b)
    <3>1. DeletedSplits(r1, u, p, a, b)
      BY <2>2, DeletedAtConcat
    <3>. QED BY <3>1 DEF DeletedSplits
  <2>. QED BY <1>6, <2>1, <2>3
<1>12. p + c \in Nat /\ p + c + (d - c) = p + d /\ p + d \in Nat
  BY <1>1, <1>2
<1>13. DeletedAt(r2 \o r3, p + c, a, b) = DeletedAt(r2, p + c, a, b) \o DeletedAt(r3, p + d, a, b)
  <2>1. PICK o : o = p + c
    OBVIOUS
  <2>2. r2 \in Seq(Spot) /\ r3 \in Seq(Spot) /\ o \in Nat
    BY <1>7, <1>8, <1>12, <2>1
  <2>3. DeletedAt(r2 \o r3, o, a, b) = DeletedAt(r2, o, a, b) \o DeletedAt(r3, o + Len(r2), a, b)
    <3>1. DeletedSplits(r2, r3, o, a, b)
      BY <2>2, DeletedAtConcat
    <3>. QED BY <3>1 DEF DeletedSplits
  <2>. QED BY <1>7, <1>12, <2>1, <2>3
<1>14. DeletedAt(r1, p, a, b) = r1
  BY <1>2, <1>6, DeletedAtStays
<1>15. DeletedAt(r2, p + c, a, b) = <<>>
  <2>1. \A k \in 1 .. d - c : p + c + k \in a + 1 .. b
    <3>. TAKE k \in 1 .. d - c
    <3>1. PICK j : j = c + k
      OBVIOUS
    <3>2. j \in c + 1 .. d /\ p + c + k = p + j
      BY <1>2, <3>1
    <3>. QED BY <1>2, <3>2
  <2>. QED BY <1>7, <1>12, <2>1, DeletedAtGoes
<1>16. DeletedAt(r3, p + d, a, b) = r3
  <2>1. \A k \in 1 .. Len(t) - d : p + d + k \notin a + 1 .. b
    <3>. TAKE k \in 1 .. Len(t) - d
    <3>1. PICK j : j = d + k
      OBVIOUS
    <3>2. j \in d + 1 .. Len(t) /\ p + d + k = p + j
      BY <1>1, <1>2, <3>1
    <3>. QED BY <1>2, <3>2
  <2>2. \A k \in 1 .. Len(r3) : p + d + k \notin a + 1 .. b
    BY <1>8, <2>1
  <2>3. r3 \in Seq(Spot) /\ p + d \in Nat
    BY <1>8, <1>12
  <2>. QED BY <2>2, <2>3, DeletedAtStays
<1>17. <<>> \o r3 = r3
  BY <1>8, ConcatEmptySeq
<1>18. DeletedAt(Run(t, m), p, a, b) = r1 \o r3
  BY <1>9, <1>11, <1>13, <1>14, <1>15, <1>16, <1>17
<1>19. t1 \o t3 \in Seq(Char) /\ Run(t1 \o t3, m) = r1 \o r3
  <2>1. t1 \in Seq(Char) /\ t3 \in Seq(Char)
    BY <1>4
  <2>2. t1 \o t3 \in Seq(Char)
    BY <2>1, ConcatProperties
  <2>3. Run(t1 \o t3, m) = Run(t1, m) \o Run(t3, m)
    <3>1. RunSplits(t1, t3, m)
      BY <2>1, RunConcat
    <3>. QED BY <3>1 DEF RunSplits
  <2>. QED BY <1>5, <2>2, <2>3
<1>. QED BY <1>3, <1>18, <1>19 DEF CutLeaves

\* Where editing.py cuts a run.
LEMMA CutsThere ==
    ASSUME NEW t \in Seq(Char), NEW p \in Nat, NEW a \in Nat, NEW b \in Nat, a <= b
    PROVE  /\ CutFrom(p, a, Len(t)) \in 0 .. Len(t)
           /\ CutTo(p, a, b, Len(t)) \in CutFrom(p, a, Len(t)) .. Len(t)
           /\ CutsAt(t, p, a, b, CutFrom(p, a, Len(t)), CutTo(p, a, b, Len(t)))
<1>1. Len(t) \in Nat
  BY LenProperties
<1>2. PICK n \in Nat : n = Len(t)
  BY <1>1
<1>3. /\ CutFrom(p, a, n) \in 0 .. n
      /\ CutTo(p, a, b, n) \in CutFrom(p, a, n) .. n
      /\ \A k \in 1 .. CutFrom(p, a, n) : p + k \notin a + 1 .. b
      /\ \A k \in CutFrom(p, a, n) + 1 .. CutTo(p, a, b, n) : p + k \in a + 1 .. b
      /\ \A k \in CutTo(p, a, b, n) + 1 .. n : p + k \notin a + 1 .. b
  BY CutBounds
<1>. QED BY <1>2, <1>3 DEF CutsAt

LEMMA CutFacts ==
    ASSUME NEW segs \in Seq(Seg), NEW i \in 1 .. Len(segs), IsText(segs[i]),
           NEW a \in Nat, NEW b \in Nat, a <= b
    PROVE  /\ Cut(segs, a, b, i) \in Seg /\ IsText(Cut(segs, a, b, i))
           /\ PlacesOf(Cut(segs, a, b, i)) = DeletedAt(PlacesOf(segs[i]), Pos(segs, i), a, b)
<1>1. PICK s, t, m, p : s = segs[i] /\ t = s.text /\ m = s.marks /\ p = Pos(segs, i)
  OBVIOUS
<1>2. s \in Seg /\ IsText(s) /\ t \in Seq(Char) /\ m \in SUBSET {"strong", "link"} /\ p \in Nat
  <2>1. segs[i] \in Seg
    BY ElementOfSeq
  <2>2. Pos(segs, i) \in Nat
    BY PosFacts
  <2>. QED BY <1>1, <2>1, <2>2, SegTypes
<1>3. PICK c, d : c = CutFrom(p, a, Len(t)) /\ d = CutTo(p, a, b, Len(t))
  OBVIOUS
<1>4. c \in 0 .. Len(t) /\ d \in c .. Len(t) /\ CutsAt(t, p, a, b, c, d)
  BY <1>2, <1>3, CutsThere
<1>5. PICK v : v = SubSeq(t, 1, c) \o SubSeq(t, d + 1, Len(t))
  OBVIOUS
<1>6. v \in Seq(Char) /\ Run(v, m) = DeletedAt(Run(t, m), p, a, b)
  <2>1. /\ SubSeq(t, 1, c) \o SubSeq(t, d + 1, Len(t)) \in Seq(Char)
        /\ CutLeaves(t, m, p, a, b, c, d)
    BY <1>2, <1>4, CutRun
  <2>. QED BY <1>5, <2>1 DEF CutLeaves
<1>7. Cut(segs, a, b, i) = [s EXCEPT !.text = v]
  BY <1>1, <1>3, <1>5 DEF Cut, CutFrom, CutTo
<1>8. PICK x : x = [s EXCEPT !.text = v]
  OBVIOUS
<1>9. x \in Seg /\ IsText(x) /\ x.text = v /\ x.marks = m
  BY <1>1, <1>2, <1>6, <1>8 DEF Seg, IsText
<1>10. PlacesOf(x) = Run(v, m) /\ PlacesOf(s) = Run(t, m)
  BY <1>1, <1>2, <1>9, RunPlaces
<1>. QED BY <1>1, <1>6, <1>7, <1>8, <1>9, <1>10

LEMMA AtomStays ==
    ASSUME NEW s \in Seg, ~IsText(s), NEW p \in Nat, NEW a \in Nat, NEW b \in Nat
    PROVE  DeletedAt(PlacesOf(s), p, a, b) = PlacesOf(s)
<1>1. PlacesOf(s) \in Seq(Spot)
  BY PlacesOfType
<1>2. Len(PlacesOf(s)) = 1 /\ IsAtom(PlacesOf(s)[1])
  BY AtomPlaces
<1>3. \A k \in 1 .. Len(PlacesOf(s)) : p + k \notin a + 1 .. b \/ IsAtom(PlacesOf(s)[k])
  BY <1>2
<1>. QED BY <1>1, <1>3, DeletedAtStays

\* A range that is deleted loses its characters and nothing else.
LEMMA DeleteAtPlaces ==
    ASSUME NEW segs \in Seq(Seg), NEW a \in Nat, NEW b \in Nat, a <= b
    PROVE  /\ DeleteRange(segs, a, b) \in Seq(Seg) /\ Len(DeleteRange(segs, a, b)) = Len(segs)
           /\ Places(DeleteRange(segs, a, b)) = Deleted(Places(segs), a, b)
<1>1. PICK D, N : D = DeleteRange(segs, a, b) /\ N = Len(segs)
  OBVIOUS
<1>2. N \in Nat
  BY <1>1, LenProperties
<1>3. ASSUME NEW i \in 1 .. N
      PROVE  /\ D[i] \in Seg
             /\ PlacesOf(D[i]) = DeletedAt(PlacesOf(segs[i]), Pos(segs, i), a, b)
  <2>0. i \in 1 .. Len(segs)
    BY <1>1
  <2>1. D[i] = IF IsText(segs[i]) THEN Cut(segs, a, b, i) ELSE segs[i]
    BY <1>1, <2>0 DEF DeleteRange
  <2>2. segs[i] \in Seg /\ Pos(segs, i) \in Nat
    BY <2>0, ElementOfSeq, PosFacts
  <2>3. CASE IsText(segs[i])
    BY <2>0, <2>1, <2>3, CutFacts
  <2>4. CASE ~IsText(segs[i])
    BY <2>1, <2>2, <2>4, AtomStays
  <2>. QED BY <2>3, <2>4
<1>4. D \in Seq(Seg) /\ Len(D) = N
  BY <1>1, <1>2, <1>3 DEF DeleteRange
<1>. DEFINE T == {n \in Nat : n \in 0 .. N =>
                    Places(SubSeq(D, 1, n)) = DeletedAt(Places(SubSeq(segs, 1, n)), 0, a, b)}
<1>5. 0 \in T
  <2>1. SubSeq(D, 1, 0) = <<>> /\ SubSeq(segs, 1, 0) = <<>>
    BY SubSeqEmpty
  <2>2. DeletedAt(<<>>, 0, a, b) = <<>>
    <3>1. <<>> \in Seq(Spot) /\ Len(<<>>) = 0
      BY EmptySeq
    <3>2. \A k \in 1 .. Len(<<>>) : 0 + k \notin a + 1 .. b \/ IsAtom(<<>>[k])
      BY <3>1
    <3>3. 0 \in Nat
      OBVIOUS
    <3>. QED BY <3>1, <3>2, <3>3, DeletedAtStays
  <2>. QED BY <2>1, <2>2, PlacesEmpty
<1>6. ASSUME NEW n \in Nat, n \in T PROVE n + 1 \in T
  <2>. SUFFICES ASSUME n + 1 \in 0 .. N
                PROVE  Places(SubSeq(D, 1, n + 1)) = DeletedAt(Places(SubSeq(segs, 1, n + 1)), 0, a, b)
    OBVIOUS
  <2>1. PICK i : i = n + 1
    OBVIOUS
  <2>2. i \in 1 .. N /\ i - 1 = n /\ n \in 0 .. N /\ i \in 1 .. Len(segs) + 1
    BY <1>1, <1>2, <2>1
  <2>3. Places(SubSeq(D, 1, i)) = Places(SubSeq(D, 1, i - 1)) \o PlacesOf(D[i])
    BY <1>4, <2>2, PosFacts
  <2>4. Places(SubSeq(segs, 1, i)) = Places(SubSeq(segs, 1, i - 1)) \o PlacesOf(segs[i])
    BY <1>1, <2>2, PosFacts
  <2>5. PICK q, r : q = Places(SubSeq(segs, 1, n)) /\ r = PlacesOf(segs[i])
    OBVIOUS
  <2>6. q \in Seq(Spot) /\ r \in Seq(Spot) /\ Len(q) = Pos(segs, i) /\ Pos(segs, i) \in Nat
    <3>1. SubSeq(segs, 1, i - 1) \in Seq(Seg) /\ segs[i] \in Seg
      BY <1>1, <2>2, Around
    <3>2. Pos(segs, i) = Len(Places(SubSeq(segs, 1, i - 1))) /\ Pos(segs, i) \in Nat
      BY <2>2, PosIsPlaces
    <3>. QED BY <2>2, <2>5, <3>1, <3>2, PlacesType, PlacesOfType
  <2>7. DeletedAt(q \o r, 0, a, b) = DeletedAt(q, 0, a, b) \o DeletedAt(r, 0 + Len(q), a, b)
    <3>1. q \in Seq(Spot) /\ r \in Seq(Spot)
      BY <2>6
    <3>2. \A o \in Nat : DeletedSplits(q, r, o, a, b)
      BY <3>1, DeletedAtConcat
    <3>. QED BY <3>2 DEF DeletedSplits
  <2>8. 0 + Len(q) = Pos(segs, i)
    BY <2>6
  <2>9. Places(SubSeq(D, 1, n)) = DeletedAt(q, 0, a, b)
    BY <1>6, <2>2, <2>5
  <2>10. PlacesOf(D[i]) = DeletedAt(r, Pos(segs, i), a, b)
    BY <1>3, <2>2, <2>5
  <2>. QED BY <2>1, <2>2, <2>3, <2>4, <2>5, <2>7, <2>8, <2>9, <2>10
<1>7. Nat \subseteq T
  <2>. HIDE DEF T
  <2>. QED BY <1>5, <1>6, NatInduct
<1>8. N \in T /\ N \in 0 .. N
  BY <1>2, <1>7
<1>9. Places(SubSeq(D, 1, N)) = DeletedAt(Places(SubSeq(segs, 1, N)), 0, a, b)
  BY <1>8
<1>10. SubSeq(D, 1, N) = D /\ SubSeq(segs, 1, N) = segs
  BY <1>1, <1>4, SubSeqFull
<1>11. Deleted(Places(segs), a, b) = DeletedAt(Places(segs), 0, a, b)
  BY PlacesType, DeletedIsAt
<1>. QED BY <1>1, <1>4, <1>9, <1>10, <1>11

------------------------------------------------------------------------------
(* An atom that takes a place.                                             *)

LEMMA FirstIsLeast ==
    ASSUME NEW T \in SUBSET Nat, T # {}
    PROVE  First(T) \in T /\ \A j \in T : First(T) <= j
<1>1. \E x \in T : \A y \in T : ~(<<y, x>> \in OpToRel(<, Nat))
  BY WFMin, NatLessThanWellFounded
<1>2. PICK x \in T : \A y \in T : ~(<<y, x>> \in OpToRel(<, Nat))
  BY <1>1
<1>3. \A y \in T : ~(y < x)
  BY <1>2 DEF OpToRel
<1>4. \A y \in T : x <= y
  BY <1>3
<1>5. \E i \in T : \A j \in T : i <= j
  BY <1>4
<1>. QED BY <1>5 DEF First

\* The two parts of a concatenation.
LEMMA ConcatParts ==
    ASSUME NEW S, NEW l \in Seq(S), NEW r \in Seq(S)
    PROVE  /\ SubSeq(l \o r, 1, Len(l)) = l
           /\ SubSeq(l \o r, Len(l) + 1, Len(l) + Len(r)) = r
           /\ Len(l \o r) = Len(l) + Len(r)
<1>1. PICK w, m, n : w = l \o r /\ m = Len(l) /\ n = Len(r)
  OBVIOUS
<1>2. w \in Seq(S) /\ Len(w) = m + n /\ m \in Nat /\ n \in Nat
      /\ \A i \in 1 .. m + n : w[i] = IF i <= m THEN l[i] ELSE r[i - m]
  BY <1>1, ConcatProperties, LenProperties
<1>3. \A i \in 1 .. m + n : w[i] \in S
  BY <1>2, ElementOfSeq
<1>4. PICK x : x = SubSeq(w, 1, m)
  OBVIOUS
<1>5. x \in Seq(S) /\ Len(x) = (IF 1 <= m THEN m - 1 + 1 ELSE 0) /\ \A i \in 1 .. m - 1 + 1 : x[i] = w[1 + i - 1]
  <2>1. m \in Int /\ \A i \in 1 .. m : w[i] \in S
    BY <1>2, <1>3
  <2>. QED BY <1>4, <2>1, SubSeqProperties
<1>6. Len(x) = m /\ \A i \in 1 .. m : x[i] = l[i]
  <2>1. Len(x) = m
    BY <1>2, <1>5
  <2>2. ASSUME NEW i \in 1 .. m PROVE x[i] = l[i]
    <3>1. i \in 1 .. m - 1 + 1 /\ 1 + i - 1 = i /\ i \in 1 .. m + n /\ i <= m
      BY <1>2
    <3>. QED BY <1>2, <1>5, <3>1
  <2>. QED BY <2>1, <2>2
<1>7. x = l
  BY <1>1, <1>5, <1>6, SeqEqual
<1>80. PICK e, f : e = m + 1 /\ f = m + n
  OBVIOUS
<1>8. PICK y : y = SubSeq(w, e, f)
  OBVIOUS
<1>9. y \in Seq(S) /\ Len(y) = (IF e <= f THEN f - e + 1 ELSE 0) /\ \A i \in 1 .. f - e + 1 : y[i] = w[e + i - 1]
  <2>1. e \in Int /\ f \in Int /\ \A i \in e .. f : w[i] \in S
    BY <1>2, <1>3, <1>80
  <2>. QED BY <1>8, <2>1, SubSeqProperties
<1>10. Len(y) = n /\ \A i \in 1 .. n : y[i] = r[i]
  <2>1. Len(y) = n
    <3>1. e <= f => f - e + 1 = n
      BY <1>2, <1>80
    <3>2. ~(e <= f) => n = 0
      BY <1>2, <1>80
    <3>. QED BY <1>9, <3>1, <3>2
  <2>2. ASSUME NEW i \in 1 .. n PROVE y[i] = r[i]
    <3>1. PICK j : j = m + i
      OBVIOUS
    <3>2. i \in 1 .. f - e + 1 /\ e + i - 1 = j /\ j \in 1 .. m + n /\ ~(j <= m) /\ j - m = i
      BY <1>2, <1>80, <3>1
    <3>3. y[i] = w[j]
      BY <1>9, <3>2
    <3>. QED BY <1>2, <3>2, <3>3
  <2>. QED BY <2>1, <2>2
<1>11. y = r
  BY <1>1, <1>9, <1>10, SeqEqual
<1>. QED BY <1>1, <1>2, <1>4, <1>7, <1>8, <1>80, <1>11

LEMMA AppendToOne ==
    ASSUME NEW S, NEW x \in S, NEW y \in S
    PROVE  Append(<<x>>, y) = <<x, y>>
<1>1. <<x>> \in Seq(S) /\ Len(<<x>>) = 1 /\ <<x>>[1] = x
  OBVIOUS
<1>2. PICK u, v : u = Append(<<x>>, y) /\ v = <<x, y>>
  OBVIOUS
<1>3. u \in Seq(S) /\ Len(u) = 1 + 1 /\ u[1] = x /\ u[1 + 1] = y
  <2>1. PICK w : w = <<x>>
    OBVIOUS
  <2>2. u \in Seq(S) /\ Len(u) = Len(w) + 1 /\ (\A i \in 1 .. Len(w) : u[i] = w[i]) /\ u[Len(w) + 1] = y
    BY <1>1, <1>2, <2>1, AppendProperties
  <2>. QED BY <1>1, <2>1, <2>2
<1>4. v \in Seq(S) /\ Len(v) = 2 /\ v[1] = x /\ v[2] = y
  BY <1>2
<1>5. u = v
  BY <1>3, <1>4, SeqEqual
<1>. QED BY <1>2, <1>5

LEMMA AppendToTwo ==
    ASSUME NEW S, NEW x \in S, NEW y \in S, NEW z \in S
    PROVE  Append(<<x, y>>, z) = <<x, y, z>>
<1>1. <<x, y>> \in Seq(S) /\ Len(<<x, y>>) = 2 /\ <<x, y>>[1] = x /\ <<x, y>>[2] = y
  OBVIOUS
<1>2. PICK u, v : u = Append(<<x, y>>, z) /\ v = <<x, y, z>>
  OBVIOUS
<1>3. u \in Seq(S) /\ Len(u) = 2 + 1 /\ u[1] = x /\ u[2] = y /\ u[2 + 1] = z
  <2>1. PICK w : w = <<x, y>>
    OBVIOUS
  <2>2. u \in Seq(S) /\ Len(u) = Len(w) + 1 /\ (\A i \in 1 .. Len(w) : u[i] = w[i]) /\ u[Len(w) + 1] = z
    BY <1>1, <1>2, <2>1, AppendProperties
  <2>. QED BY <1>1, <2>1, <2>2
<1>4. v \in Seq(S) /\ Len(v) = 3 /\ v[1] = x /\ v[2] = y /\ v[3] = z
  BY <1>2
<1>5. u = v
  BY <1>3, <1>4, SeqEqual
<1>. QED BY <1>2, <1>5

\* What is inserted after the first part of a sequence.
LEMMA InsertBetween ==
    ASSUME NEW S, NEW l \in Seq(S), NEW r \in Seq(S), NEW x
    PROVE  InsertAt(l \o r, Len(l) + 1, x) = (l \o <<x>>) \o r
<1>1. PICK w, m : w = l \o r /\ m = Len(l) + 1
  OBVIOUS
<1>2. Len(l) \in Nat
  BY LenProperties
<1>3. m - 1 = Len(l)
  BY <1>1, <1>2
<1>4. SubSeq(w, 1, m - 1) = l /\ SubSeq(w, m, Len(w)) = r
  BY <1>1, <1>3, ConcatParts
<1>5. InsertAt(w, m, x) = SubSeq(w, 1, m - 1) \o <<x>> \o SubSeq(w, m, Len(w))
  BY DEF InsertAt
<1>. QED BY <1>1, <1>4, <1>5

LEMMA AtomSeg ==
    ASSUME NEW a \in {"mention", "backlink"}
    PROVE  /\ Atom(a) \in Seg /\ ~IsText(Atom(a)) /\ PlacesOf(Atom(a)) = << <<a, {}>> >>
           /\ <<a, {}>> \in Spot
<1>1. <<>> \in Seq(Char)
  BY EmptySeq
<1>. QED BY <1>1 DEF Atom, Seg, IsText, PlacesOf, Spot

LEMMA ReachedFacts ==
    ASSUME NEW segs \in Seq(Seg), NEW o \in Nat, Reached(segs, o) # {}
    PROVE  First(Reached(segs, o)) \in Reached(segs, o) /\ Reached(segs, o) \subseteq 1 .. Len(segs)
<1>1. Reached(segs, o) \subseteq 1 .. Len(segs)
  BY DEF Reached
<1>2. Reached(segs, o) \in SUBSET Nat
  BY <1>1
<1>. QED BY <1>1, <1>2, FirstIsLeast

\* The parts of a run around an offset.
LEMMA TwoParts ==
    ASSUME NEW S, NEW t \in Seq(S), NEW c \in Nat, c <= Len(t)
    PROVE  /\ SubSeq(t, 1, c) \in Seq(S) /\ Len(SubSeq(t, 1, c)) = c
           /\ SubSeq(t, c + 1, Len(t)) \in Seq(S) /\ Len(SubSeq(t, c + 1, Len(t))) = Len(t) - c
           /\ SubSeq(t, 1, c) \o SubSeq(t, c + 1, Len(t)) = t
<1>1. Len(t) \in Nat
  BY LenProperties
<1>2. SubSeq(t, 1, c) \in Seq(S) /\ Len(SubSeq(t, 1, c)) = c
  BY <1>1, ThreeParts
<1>3. SubSeq(t, c + 1, Len(t)) \in Seq(S) /\ Len(SubSeq(t, c + 1, Len(t))) = Len(t) - c
  BY <1>1, ThreeParts
<1>4. SubSeq(t, 1, c) \o SubSeq(t, c + 1, Len(t)) = SubSeq(t, 1, Len(t))
  <2>1. 1 \in 1 .. Len(t) + 1 /\ c \in 1 - 1 .. Len(t) /\ Len(t) \in c .. Len(t)
    BY <1>1
  <2>. QED BY <2>1, ConcatAdjacentSubSeq
<1>. QED BY <1>2, <1>3, <1>4, SubSeqFull

\* What stands for the segment that is reached.
LEMMA SplitSeg ==
    ASSUME NEW s \in Seg, NEW x \in Seg, NEW c \in Nat, IsText(s) => c <= Len(s.text), ~IsText(s) => c = 0
    PROVE  LET new == IF IsText(s)
                      THEN <<[s EXCEPT !.text = SubSeq(@, 1, c)], x, [s EXCEPT !.text = SubSeq(@, c + 1, Len(@))]>>
                      ELSE <<x, s>>
           IN /\ new \in Seq(Seg)
              /\ \E l \in Seq(Spot) : \E r \in Seq(Spot) :
                    Len(l) = c /\ PlacesOf(s) = l \o r /\ Places(new) = (l \o PlacesOf(x)) \o r
<1>0. PlacesOf(x) \in Seq(Spot) /\ PlacesOf(s) \in Seq(Spot) /\ <<x>> \in Seq(Seg) /\ Places(<<x>>) = PlacesOf(x)
  BY PlacesOfType, PlacesOne
<1>1. CASE IsText(s)
  <2>1. PICK t, m : t = s.text /\ m = s.marks
    OBVIOUS
  <2>2. t \in Seq(Char) /\ m \in SUBSET {"strong", "link"}
    BY <2>1, SegTypes
  <2>3. PICK t1, t2 : t1 = SubSeq(t, 1, c) /\ t2 = SubSeq(t, c + 1, Len(t))
    OBVIOUS
  <2>4. c \in Nat /\ c <= Len(t)
    BY <1>1, <2>1
  <2>5. t1 \in Seq(Char) /\ Len(t1) = c /\ t2 \in Seq(Char) /\ t1 \o t2 = t
    BY <2>2, <2>3, <2>4, TwoParts
  <2>6. PICK u, v : u = [s EXCEPT !.text = t1] /\ v = [s EXCEPT !.text = t2]
    OBVIOUS
  <2>7. /\ u \in Seg /\ IsText(u) /\ u.text = t1 /\ u.marks = m
        /\ v \in Seg /\ IsText(v) /\ v.text = t2 /\ v.marks = m
    BY <1>1, <2>1, <2>5, <2>6 DEF Seg, IsText
  <2>8. PICK l, r : l = Run(t1, m) /\ r = Run(t2, m)
    OBVIOUS
  <2>9. l \in Seq(Spot) /\ r \in Seq(Spot) /\ Len(l) = c
    BY <2>2, <2>5, <2>8, RunType
  <2>10. PlacesOf(s) = l \o r
    <3>1. Run(t1 \o t2, m) = Run(t1, m) \o Run(t2, m)
      <4>1. RunSplits(t1, t2, m)
        BY <2>5, RunConcat
      <4>. QED BY <4>1 DEF RunSplits
    <3>. QED BY <1>1, <2>1, <2>5, <2>8, <3>1, RunPlaces
  <2>11. PlacesOf(u) = l /\ PlacesOf(v) = r
    BY <2>7, <2>8, RunPlaces
  <2>12. <<u>> \in Seq(Seg) /\ <<v>> \in Seq(Seg) /\ Places(<<u>>) = l /\ Places(<<v>>) = r
    BY <2>7, <2>11, PlacesOne
  <2>13. <<u, x>> \in Seq(Seg) /\ <<u, x, v>> \in Seq(Seg)
    BY <2>7
  <2>14. Places(<<u, x>>) = l \o PlacesOf(x)
    <3>1. Append(<<u>>, x) = <<u, x>>
      BY <2>7, AppendToOne
    <3>2. Places(Append(<<u>>, x)) = Places(<<u>>) \o PlacesOf(x)
      BY <2>12, PlacesAppend
    <3>. QED BY <2>12, <3>1, <3>2
  <2>15. Places(<<u, x, v>>) = (l \o PlacesOf(x)) \o r
    <3>1. Append(<<u, x>>, v) = <<u, x, v>>
      BY <2>7, AppendToTwo
    <3>2. Places(Append(<<u, x>>, v)) = Places(<<u, x>>) \o PlacesOf(v)
      BY <2>7, <2>13, PlacesAppend
    <3>. QED BY <2>11, <2>14, <3>1, <3>2
  <2>. QED BY <1>1, <2>1, <2>3, <2>6, <2>9, <2>10, <2>13, <2>15
<1>2. CASE ~IsText(s)
  <2>1. PICK l, r : l = <<>> /\ r = PlacesOf(s)
    OBVIOUS
  <2>2. l \in Seq(Spot) /\ Len(l) = 0 /\ r \in Seq(Spot) /\ l \o r = r /\ l \o PlacesOf(x) = PlacesOf(x)
    BY <1>0, <2>1, EmptySeq, ConcatEmptySeq
  <2>3. <<x, s>> \in Seq(Seg) /\ Append(<<x>>, s) = <<x, s>>
    BY AppendToOne
  <2>4. Places(Append(<<x>>, s)) = Places(<<x>>) \o PlacesOf(s)
    BY <1>0, PlacesAppend
  <2>5. Places(<<x, s>>) = (l \o PlacesOf(x)) \o r
    BY <1>0, <2>1, <2>2, <2>3, <2>4
  <2>. QED BY <1>2, <2>1, <2>2, <2>3, <2>5
<1>. QED BY <1>1, <1>2

\* A sequence in four parts, and the same with something put in its middle.
Regrouped(p, l, r, q) == (p \o (l \o r)) \o q = (p \o l) \o (r \o q)
LEMMA Regroup ==
    ASSUME NEW S, NEW p \in Seq(S), NEW l \in Seq(S), NEW r \in Seq(S), NEW q \in Seq(S)
    PROVE  Regrouped(p, l, r, q)
<1>1. PICK u : u = p \o l
  OBVIOUS
<1>2. u \in Seq(S)
  BY <1>1, ConcatProperties
<1>3. Assoc(p, l, r)
  BY Associative
<1>4. Assoc(u, r, q)
  BY <1>2, Associative
<1>. QED BY <1>1, <1>3, <1>4 DEF Assoc, Regrouped

RegroupedWith(p, l, e, r, q) == (p \o ((l \o e) \o r)) \o q = ((p \o l) \o e) \o (r \o q)
LEMMA RegroupWith ==
    ASSUME NEW S, NEW p \in Seq(S), NEW l \in Seq(S), NEW e \in Seq(S), NEW r \in Seq(S), NEW q \in Seq(S)
    PROVE  RegroupedWith(p, l, e, r, q)
<1>1. PICK z : z = l \o e
  OBVIOUS
<1>2. z \in Seq(S)
  BY <1>1, ConcatProperties
<1>3. Regrouped(p, z, r, q)
  BY <1>2, Regroup
<1>4. Assoc(p, l, e)
  BY Associative
<1>. QED BY <1>1, <1>3, <1>4 DEF Assoc, Regrouped, RegroupedWith

\* Where the offset is reached: the segment, and how far into it.
LEMMA ReachedAt ==
    ASSUME NEW segs \in Seq(Seg), NEW o \in Nat, NEW i \in Reached(segs, o)
    PROVE  /\ i \in 1 .. Len(segs) /\ segs[i] \in Seg
           /\ Pos(segs, i) \in Nat /\ o - Pos(segs, i) \in Nat
           /\ IsText(segs[i]) => o - Pos(segs, i) <= Len(segs[i].text)
           /\ ~IsText(segs[i]) => o - Pos(segs, i) = 0
<1>1. i \in 1 .. Len(segs)
  BY DEF Reached
<1>2. segs[i] \in Seg /\ Pos(segs, i) \in Nat
  BY <1>1, ElementOfSeq, PosFacts
<1>3. IF IsText(segs[i]) THEN Pos(segs, i) <= o /\ o <= Pos(segs, i) + Len(segs[i].text) ELSE Pos(segs, i) = o
  BY DEF Reached
<1>4. IsText(segs[i]) => Len(segs[i].text) \in Nat
  BY <1>2, SegTypes, LenProperties
<1>. QED BY <1>1, <1>2, <1>3, <1>4

\* At a segment that is reached the atom takes its place.
LEMMA SplitWhereReached ==
    ASSUME NEW segs \in Seq(Seg), NEW o \in Nat, NEW a \in {"mention", "backlink"}, Reached(segs, o) # {}
    PROVE  /\ SplitAndInsert(segs, o, a) \in Seq(Seg)
           /\ Places(SplitAndInsert(segs, o, a)) = InsertAt(Places(segs), o + 1, <<a, {}>>)
<1>1. PICK i : i = First(Reached(segs, o))
  OBVIOUS
<1>2. i \in Reached(segs, o)
  BY <1>1, ReachedFacts
<1>3. PICK s, c, x : s = segs[i] /\ c = o - Pos(segs, i) /\ x = Atom(a)
  OBVIOUS
<1>4. /\ i \in 1 .. Len(segs) /\ s \in Seg /\ c \in Nat /\ Pos(segs, i) \in Nat /\ Pos(segs, i) + c = o
      /\ IsText(s) => c <= Len(s.text)
      /\ ~IsText(s) => c = 0
  BY <1>2, <1>3, ReachedAt
<1>5. x \in Seg /\ PlacesOf(x) = << <<a, {}>> >> /\ <<a, {}>> \in Spot
  BY <1>3, AtomSeg
<1>6. PICK new : new = IF IsText(s)
                       THEN <<[s EXCEPT !.text = SubSeq(@, 1, c)], x, [s EXCEPT !.text = SubSeq(@, c + 1, Len(@))]>>
                       ELSE <<x, s>>
  OBVIOUS
<1>7. /\ new \in Seq(Seg)
      /\ \E l \in Seq(Spot) : \E r \in Seq(Spot) :
            Len(l) = c /\ PlacesOf(s) = l \o r /\ Places(new) = (l \o PlacesOf(x)) \o r
  BY <1>4, <1>5, <1>6, SplitSeg
<1>8. PICK pre, rest : pre = SubSeq(segs, 1, i - 1) /\ rest = SubSeq(segs, i + 1, Len(segs))
  OBVIOUS
<1>9. /\ pre \in Seq(Seg) /\ rest \in Seq(Seg) /\ SubSeq(segs, 1, i) = Append(pre, s)
      /\ segs = SubSeq(segs, 1, i) \o rest
  BY <1>3, <1>4, <1>8, Around
<1>10. SplitAndInsert(segs, o, a) = Emitted((pre \o new) \o rest)
  BY <1>1, <1>3, <1>6, <1>8 DEF SplitAndInsert
<1>11. pre \o new \in Seq(Seg) /\ (pre \o new) \o rest \in Seq(Seg) /\ Append(pre, s) \in Seq(Seg)
  <2>1. pre \o new \in Seq(Seg)
    BY <1>7, <1>9, ConcatProperties
  <2>2. Append(pre, s) \in Seq(Seg)
    BY <1>4, <1>9, AppendProperties
  <2>. QED BY <1>9, <2>1, <2>2, ConcatProperties
<1>12. PICK l \in Seq(Spot) : \E r \in Seq(Spot) :
          Len(l) = c /\ PlacesOf(s) = l \o r /\ Places(new) = (l \o PlacesOf(x)) \o r
  BY <1>7
<1>120. PICK r \in Seq(Spot) : Len(l) = c /\ PlacesOf(s) = l \o r /\ Places(new) = (l \o PlacesOf(x)) \o r
  BY <1>12
<1>13. PICK p, q, e : p = Places(pre) /\ q = Places(rest) /\ e = <<a, {}>>
  OBVIOUS
<1>14. p \in Seq(Spot) /\ q \in Seq(Spot) /\ e \in Spot /\ Len(p) = Pos(segs, i)
  <2>1. p \in Seq(Spot) /\ q \in Seq(Spot)
    BY <1>9, <1>13, PlacesType
  <2>2. Len(p) = Pos(segs, i)
    BY <1>4, <1>8, <1>13, PosIsPlaces
  <2>. QED BY <1>5, <1>13, <2>1, <2>2
<1>15. Places(segs) = (p \o (l \o r)) \o q
  <2>1. Places(Append(pre, s)) = p \o (l \o r)
    BY <1>4, <1>9, <1>120, <1>13, PlacesAppend
  <2>2. Places(Append(pre, s) \o rest) = Places(Append(pre, s)) \o q
    BY <1>9, <1>11, <1>13, PlacesConcat
  <2>. QED BY <1>9, <2>1, <2>2
<1>16. Places((pre \o new) \o rest) = (p \o ((l \o <<e>>) \o r)) \o q
  <2>1. Places(pre \o new) = p \o ((l \o <<e>>) \o r)
    BY <1>5, <1>7, <1>9, <1>120, <1>13, PlacesConcat
  <2>2. Places((pre \o new) \o rest) = Places(pre \o new) \o q
    BY <1>9, <1>11, <1>13, PlacesConcat
  <2>. QED BY <2>1, <2>2
<1>17. PICK L, R : L = p \o l /\ R = r \o q
  OBVIOUS
<1>18. /\ (p \o (l \o r)) \o q = L \o R
       /\ (p \o ((l \o <<e>>) \o r)) \o q = (L \o <<e>>) \o R
       /\ L \in Seq(Spot) /\ R \in Seq(Spot) /\ Len(L) = o
  <2>1. p \in Seq(Spot) /\ q \in Seq(Spot) /\ e \in Spot /\ l \in Seq(Spot) /\ r \in Seq(Spot)
    BY <1>14
  <2>2. Regrouped(p, l, r, q)
    BY <2>1, Regroup
  <2>20. PICK ee : ee = <<e>>
    OBVIOUS
  <2>21. ee \in Seq(Spot)
    BY <2>1, <2>20
  <2>3. RegroupedWith(p, l, ee, r, q)
    BY <2>1, <2>21, RegroupWith
  <2>4. L \in Seq(Spot) /\ Len(L) = Len(p) + Len(l)
    BY <1>17, <2>1, ConcatProperties
  <2>5. R \in Seq(Spot)
    BY <1>17, <2>1, ConcatProperties
  <2>6. Len(L) = o
    BY <1>4, <1>120, <1>14, <2>4
  <2>. QED BY <1>17, <2>2, <2>20, <2>3, <2>4, <2>5, <2>6 DEF Regrouped, RegroupedWith
<1>180. InsertAt(L \o R, o + 1, e) = (L \o <<e>>) \o R
  <2>1. InsertAt(L \o R, Len(L) + 1, e) = (L \o <<e>>) \o R
    BY <1>18, InsertBetween
  <2>. QED BY <1>18, <2>1
<1>19. /\ Emitted((pre \o new) \o rest) \in Seq(Seg)
       /\ Places(Emitted((pre \o new) \o rest)) = Places((pre \o new) \o rest)
  BY <1>11, EmittedKeepsPlaces
<1>. QED BY <1>10, <1>13, <1>15, <1>16, <1>18, <1>180, <1>19

\* An offset within the places that no segment reaches is their end.
LEMMA NotReached ==
    ASSUME NEW segs \in Seq(Seg), NEW o \in Nat, o <= Len(Places(segs)), Reached(segs, o) = {}
    PROVE  o = Len(Places(segs))
<1>. DEFINE N == Len(segs)
            T == {n \in Nat : n <= N => Pos(segs, n + 1) <= o}
<1>0. N \in Nat
  BY LenProperties
<1>1. 0 \in T
  <2>1. Pos(segs, 1) = 0 /\ 0 + 1 = 1
    BY PosFacts
  <2>. QED BY <2>1
<1>2. ASSUME NEW n \in Nat, n \in T PROVE n + 1 \in T
  <2>. SUFFICES ASSUME n + 1 <= N PROVE Pos(segs, (n + 1) + 1) <= o
    OBVIOUS
  <2>1. PICK i : i = n + 1
    OBVIOUS
  <2>2. i \in 1 .. Len(segs) /\ i \in Nat
    BY <1>0, <2>1
  <2>3. Pos(segs, i) <= o
    <3>1. n <= N
      BY <1>0
    <3>. QED BY <1>2, <2>1, <3>1
  <2>4. Pos(segs, i) \in Nat /\ Width(segs[i]) \in Nat /\ Pos(segs, i + 1) = Pos(segs, i) + Width(segs[i])
    BY <2>2, PosFacts
  <2>5. i \notin Reached(segs, o)
    OBVIOUS
  <2>6. ~(IF IsText(segs[i]) THEN Pos(segs, i) <= o /\ o <= Pos(segs, i) + Len(segs[i].text) ELSE Pos(segs, i) = o)
    BY <2>2, <2>5 DEF Reached
  <2>7. Pos(segs, i) + Width(segs[i]) <= o
    <3>1. CASE IsText(segs[i])
      <4>1. Width(segs[i]) = Len(segs[i].text)
        BY <3>1 DEF Width
      <4>. QED BY <2>3, <2>4, <2>6, <3>1, <4>1
    <3>2. CASE ~IsText(segs[i])
      <4>1. Width(segs[i]) = 1
        BY <3>2 DEF Width
      <4>. QED BY <2>3, <2>4, <2>6, <3>2, <4>1
    <3>. QED BY <3>1, <3>2
  <2>. QED BY <2>1, <2>4, <2>7
<1>3. Nat \subseteq T
  <2>. HIDE DEF T
  <2>. QED BY <1>1, <1>2, NatInduct
<1>4. N \in T
  BY <1>0, <1>3
<1>5. Pos(segs, N + 1) <= o
  BY <1>0, <1>4
<1>6. Pos(segs, N + 1) = Len(Places(segs)) /\ Len(Places(segs)) \in Nat
  BY PosFacts, PlacesType
<1>. QED BY <1>5, <1>6

\* An atom takes its place, and is a segment wherever it is put.
LEMMA SplitAtPlace ==
    ASSUME NEW segs \in Seq(Seg), NEW o \in Nat, NEW a \in {"mention", "backlink"}
    PROVE  /\ SplitAndInsert(segs, o, a) \in Seq(Seg)
           /\ o <= Len(Places(segs)) =>
                Places(SplitAndInsert(segs, o, a)) = InsertAt(Places(segs), o + 1, <<a, {}>>)
<1>1. CASE Reached(segs, o) # {}
  BY <1>1, SplitWhereReached
<1>2. CASE Reached(segs, o) = {}
  <2>1. PICK x, e, ps : x = Atom(a) /\ e = <<a, {}>> /\ ps = Places(segs)
    OBVIOUS
  <2>2. x \in Seg /\ PlacesOf(x) = <<e>> /\ e \in Spot /\ ps \in Seq(Spot)
    BY <2>1, AtomSeg, PlacesType
  <2>3. SplitAndInsert(segs, o, a) = Append(segs, x)
    BY <1>2, <2>1 DEF SplitAndInsert
  <2>4. Append(segs, x) \in Seq(Seg)
    BY <2>2, AppendProperties
  <2>5. Places(Append(segs, x)) = ps \o <<e>>
    BY <2>1, <2>2, PlacesAppend
  <2>6. PICK y, z : y = <<>> /\ z = <<e>>
    OBVIOUS
  <2>7. y \in Seq(Spot) /\ z \in Seq(Spot)
    BY <2>2, <2>6, EmptySeq
  <2>8. ps \o y = ps /\ (ps \o z) \o y = ps \o z
    <3>1. ps \o z \in Seq(Spot)
      BY <2>2, <2>7, ConcatProperties
    <3>. QED BY <2>2, <2>6, <3>1, ConcatEmptySeq
  <2>9. InsertAt(ps \o y, Len(ps) + 1, e) = (ps \o <<e>>) \o y
    BY <2>2, <2>7, InsertBetween
  <2>10. ASSUME o <= Len(Places(segs)) PROVE o = Len(ps)
    BY <1>2, <2>1, <2>10, NotReached
  <2>11. InsertAt(ps, Len(ps) + 1, e) = ps \o <<e>>
    BY <2>6, <2>8, <2>9
  <2>. QED BY <2>1, <2>3, <2>4, <2>5, <2>10, <2>11
<1>. QED BY <1>1, <1>2

------------------------------------------------------------------------------
(* A mark that is toggled.                                                 *)

NewMarks(marks, m, r) == IF r THEN marks \ {m} ELSE marks \cup {m}
Marker(a, b, m, r) ==
    [x \in Nat \X Spot |-> IF x[1] \in a + 1 .. b /\ ~IsAtom(x[2]) THEN <<x[2][1], NewMarks(x[2][2], m, r)>> ELSE x[2]]
MarkedAt(q, o, a, b, m, r) == OffMap(Marker(a, b, m, r), q, o)

LEMMA NewMarksType ==
    ASSUME NEW marks \in SUBSET {"strong", "link"}, NEW m \in {"strong", "link"}, NEW r
    PROVE  NewMarks(marks, m, r) \in SUBSET {"strong", "link"}
BY DEF NewMarks

LEMMA MarkerType ==
    ASSUME NEW a, NEW b, NEW m \in {"strong", "link"}, NEW r
    PROVE  \A x \in Nat \X Spot : Marker(a, b, m, r)[x] \in Spot
<1>. TAKE x \in Nat \X Spot
<1>1. PICK p : p = x[2]
  OBVIOUS
<1>2. p \in Spot /\ p[1] \in Char \cup {"mention", "backlink"} /\ p[2] \in SUBSET {"strong", "link"}
  BY <1>1 DEF Spot
<1>3. PICK w : w = NewMarks(p[2], m, r)
  OBVIOUS
<1>4. w \in SUBSET {"strong", "link"}
  BY <1>2, <1>3, NewMarksType
<1>5. <<p[1], w>> \in Spot
  BY <1>2, <1>4 DEF Spot
<1>6. Marker(a, b, m, r)[x] = IF x[1] \in a + 1 .. b /\ ~IsAtom(p) THEN <<p[1], w>> ELSE p
  BY <1>1, <1>3 DEF Marker
<1>. QED BY <1>2, <1>5, <1>6

MarksAt(q, o, a, b, m, r, k) ==
    MarkedAt(q, o, a, b, m, r)[k] =
        IF o + k \in a + 1 .. b /\ ~IsAtom(q[k]) THEN <<q[k][1], NewMarks(q[k][2], m, r)>> ELSE q[k]
LEMMA MarkRead ==
    ASSUME NEW q \in Seq(Spot), NEW o \in Nat, NEW a \in Nat, NEW b \in Nat, NEW m, NEW r, NEW k \in 1 .. Len(q)
    PROVE  MarksAt(q, o, a, b, m, r, k)
<1>1. q[k] \in Spot /\ o + k \in Nat
  BY ElementOfSeq
<1>2. MarkedAt(q, o, a, b, m, r)[k] = Marker(a, b, m, r)[<<o + k, q[k]>>]
  BY DEF OffMap, MarkedAt
<1>3. PICK x : x = <<o + k, q[k]>>
  OBVIOUS
<1>4. x \in Nat \X Spot /\ x[1] = o + k /\ x[2] = q[k]
  BY <1>1, <1>3
<1>5. Marker(a, b, m, r)[x] = IF x[1] \in a + 1 .. b /\ ~IsAtom(x[2]) THEN <<x[2][1], NewMarks(x[2][2], m, r)>> ELSE x[2]
  BY <1>4 DEF Marker
<1>. QED BY <1>2, <1>3, <1>4, <1>5 DEF MarksAt

LEMMA MarkedAtShape ==
    ASSUME NEW q \in Seq(Spot), NEW o \in Nat, NEW a \in Nat, NEW b \in Nat, NEW m \in {"strong", "link"}, NEW r
    PROVE  MarkedAt(q, o, a, b, m, r) \in Seq(Spot) /\ Len(MarkedAt(q, o, a, b, m, r)) = Len(q)
<1>1. \A x \in Nat \X Spot : Marker(a, b, m, r)[x] \in Spot
  BY MarkerType
<1>2. OffMap(Marker(a, b, m, r), q, o) \in Seq(Spot)
  BY <1>1, OffMapType
<1>3. Len(OffMap(Marker(a, b, m, r), q, o)) = Len(q)
  BY LenProperties, OffMapShape
<1>. QED BY <1>2, <1>3 DEF MarkedAt

MarkSplits(q, s, o, a, b, m, r) ==
    MarkedAt(q \o s, o, a, b, m, r) = MarkedAt(q, o, a, b, m, r) \o MarkedAt(s, o + Len(q), a, b, m, r)
LEMMA MarkedAtConcat ==
    ASSUME NEW q \in Seq(Spot), NEW s \in Seq(Spot), NEW o \in Nat, NEW a, NEW b, NEW m, NEW r
    PROVE  MarkSplits(q, s, o, a, b, m, r)
<1>1. PICK f : f = Marker(a, b, m, r)
  OBVIOUS
<1>2. OffMap(f, q \o s, o) = OffMap(f, q, o) \o OffMap(f, s, o + Len(q))
  BY OffMapConcat
<1>. QED BY <1>1, <1>2 DEF MarkedAt, MarkSplits

LEMMA MarkedAtStays ==
    ASSUME NEW q \in Seq(Spot), NEW o \in Nat, NEW a \in Nat, NEW b \in Nat, NEW m \in {"strong", "link"}, NEW r,
           \A k \in 1 .. Len(q) : o + k \notin a + 1 .. b \/ IsAtom(q[k])
    PROVE  MarkedAt(q, o, a, b, m, r) = q
<1>1. PICK x : x = MarkedAt(q, o, a, b, m, r)
  OBVIOUS
<1>2. x \in Seq(Spot) /\ Len(x) = Len(q)
  BY <1>1, MarkedAtShape
<1>3. \A k \in 1 .. Len(q) : x[k] = q[k]
  <2>. SUFFICES ASSUME NEW k \in 1 .. Len(q) PROVE x[k] = q[k]
    OBVIOUS
  <2>0. MarkedAt(q, o, a, b, m, r)[k] =
          IF o + k \in a + 1 .. b /\ ~IsAtom(q[k]) THEN <<q[k][1], NewMarks(q[k][2], m, r)>> ELSE q[k]
    <3>1. MarksAt(q, o, a, b, m, r, k)
      BY MarkRead
    <3>. QED BY <3>1 DEF MarksAt
  <2>1. x[k] = IF o + k \in a + 1 .. b /\ ~IsAtom(q[k]) THEN <<q[k][1], NewMarks(q[k][2], m, r)>> ELSE q[k]
    BY <1>1, <2>0
  <2>. QED BY <2>1
<1>4. x = q
  BY <1>2, <1>3, SeqEqual
<1>. QED BY <1>1, <1>4

\* A run that lies in the range gets the new marks.
MarksRun(t, marks, o, a, b, m, r) == MarkedAt(Run(t, marks), o, a, b, m, r) = Run(t, NewMarks(marks, m, r))
LEMMA MarkedRun ==
    ASSUME NEW t \in Seq(Char), NEW marks \in SUBSET {"strong", "link"}, NEW o \in Nat, NEW a \in Nat, NEW b \in Nat,
           NEW m \in {"strong", "link"}, NEW r, \A k \in 1 .. Len(t) : o + k \in a + 1 .. b
    PROVE  MarksRun(t, marks, o, a, b, m, r)
<1>1. PICK x, q, w : x = MarkedAt(q, o, a, b, m, r) /\ q = Run(t, marks) /\ w = NewMarks(marks, m, r)
  OBVIOUS
<1>2. w \in SUBSET {"strong", "link"}
  BY <1>1, NewMarksType
<1>3. q \in Seq(Spot) /\ Len(q) = Len(t) /\ (\A k \in 1 .. Len(t) : q[k] = <<t[k], marks>>)
  BY <1>1, RunType
<1>4. \A k \in 1 .. Len(t) : ~IsAtom(q[k])
  BY <1>1, NoAtomInRun
<1>5. PICK y : y = Run(t, w)
  OBVIOUS
<1>6. y \in Seq(Spot) /\ Len(y) = Len(t) /\ (\A k \in 1 .. Len(t) : y[k] = <<t[k], w>>)
  BY <1>2, <1>5, RunType
<1>7. x \in Seq(Spot) /\ Len(x) = Len(q)
  BY <1>1, <1>3, MarkedAtShape
<1>8. \A k \in 1 .. Len(t) : x[k] = y[k]
  <2>. TAKE k \in 1 .. Len(t)
  <2>1. k \in 1 .. Len(q)
    BY <1>3
  <2>20. q \in Seq(Spot)
    BY <1>3
  <2>21. MarkedAt(q, o, a, b, m, r)[k] =
           IF o + k \in a + 1 .. b /\ ~IsAtom(q[k]) THEN <<q[k][1], NewMarks(q[k][2], m, r)>> ELSE q[k]
    <3>1. MarksAt(q, o, a, b, m, r, k)
      BY <2>1, <2>20, MarkRead
    <3>. QED BY <3>1 DEF MarksAt
  <2>2. x[k] = IF o + k \in a + 1 .. b /\ ~IsAtom(q[k]) THEN <<q[k][1], NewMarks(q[k][2], m, r)>> ELSE q[k]
    BY <1>1, <2>21
  <2>3. q[k] = <<t[k], marks>> /\ o + k \in a + 1 .. b /\ ~IsAtom(q[k]) /\ y[k] = <<t[k], w>>
    BY <1>3, <1>4, <1>6
  <2>4. q[k][1] = t[k] /\ q[k][2] = marks
    BY <2>3
  <2>. QED BY <1>1, <2>2, <2>3, <2>4
<1>9. x = y
  BY <1>3, <1>6, <1>7, <1>8, SeqEqual
<1>. QED BY <1>1, <1>5, <1>9 DEF MarksRun

\* A run is the runs of its three parts.
RunsOf(t, m, c, d) ==
    Run(t, m) = Run(SubSeq(t, 1, c), m) \o (Run(SubSeq(t, c + 1, d), m) \o Run(SubSeq(t, d + 1, Len(t)), m))
LEMMA RunInThree ==
    ASSUME NEW t \in Seq(Char), NEW m \in SUBSET {"strong", "link"}, NEW c \in 0 .. Len(t), NEW d \in c .. Len(t),
           NEW t1, NEW t2, NEW t3,
           t1 = SubSeq(t, 1, c), t2 = SubSeq(t, c + 1, d), t3 = SubSeq(t, d + 1, Len(t))
    PROVE  /\ t1 \in Seq(Char) /\ Len(t1) = c /\ t2 \in Seq(Char) /\ Len(t2) = d - c
           /\ t3 \in Seq(Char) /\ Len(t3) = Len(t) - d
           /\ RunsOf(t, m, c, d)
<1>1. Len(t) \in Nat
  BY LenProperties
<1>4. /\ t1 \in Seq(Char) /\ Len(t1) = c /\ t2 \in Seq(Char) /\ Len(t2) = d - c
      /\ t3 \in Seq(Char) /\ Len(t3) = Len(t) - d
      /\ t = t1 \o (t2 \o t3)
  <2>1. c \in Nat /\ d \in Nat /\ c <= d /\ d <= Len(t)
    BY <1>1
  <2>2. SubSeq(t, 1, c) \in Seq(Char) /\ Len(SubSeq(t, 1, c)) = c
    BY <2>1, ThreeParts
  <2>3. SubSeq(t, c + 1, d) \in Seq(Char) /\ Len(SubSeq(t, c + 1, d)) = d - c
    BY <2>1, ThreeParts
  <2>4. SubSeq(t, d + 1, Len(t)) \in Seq(Char) /\ Len(SubSeq(t, d + 1, Len(t))) = Len(t) - d
    BY <2>1, ThreeParts
  <2>5. t = SubSeq(t, 1, c) \o (SubSeq(t, c + 1, d) \o SubSeq(t, d + 1, Len(t)))
    BY <2>1, ThreePartsJoin
  <2>. QED BY <2>2, <2>3, <2>4, <2>5
<1>5. PICK u : u = t2 \o t3
  OBVIOUS
<1>6. u \in Seq(Char)
  BY <1>4, <1>5, ConcatProperties
<1>7. Run(t2 \o t3, m) = Run(t2, m) \o Run(t3, m)
  <2>1. t2 \in Seq(Char) /\ t3 \in Seq(Char)
    BY <1>4
  <2>2. RunSplits(t2, t3, m)
    BY <2>1, RunConcat
  <2>. QED BY <2>2 DEF RunSplits
<1>8. Run(t1 \o u, m) = Run(t1, m) \o Run(u, m)
  <2>1. t1 \in Seq(Char) /\ u \in Seq(Char)
    BY <1>4, <1>6
  <2>2. RunSplits(t1, u, m)
    BY <2>1, RunConcat
  <2>. QED BY <2>2 DEF RunSplits
<1>. QED BY <1>4, <1>5, <1>7, <1>8 DEF RunsOf

\* The pieces of a run: the one in the range has the new marks.
PiecesFit(t, marks, p, a, b, m, r, c, d) ==
    LET w == NewMarks(marks, m, r)
        y == Kept(Text(SubSeq(t, 1, c), marks)) \o Kept(Text(SubSeq(t, c + 1, d), w))
             \o Kept(Text(SubSeq(t, d + 1, Len(t)), marks))
    IN y \in Seq(Seg) /\ Places(y) = MarkedAt(Run(t, marks), p, a, b, m, r)
LEMMA PiecesOfRun ==
    ASSUME NEW t \in Seq(Char), NEW marks \in SUBSET {"strong", "link"}, NEW m \in {"strong", "link"}, NEW r,
           NEW p \in Nat, NEW a \in Nat, NEW b \in Nat,
           NEW c \in 0 .. Len(t), NEW d \in c .. Len(t), CutsAt(t, p, a, b, c, d)
    PROVE  PiecesFit(t, marks, p, a, b, m, r, c, d)
<1>0. PICK t1, t2, t3, w : /\ t1 = SubSeq(t, 1, c) /\ t2 = SubSeq(t, c + 1, d) /\ t3 = SubSeq(t, d + 1, Len(t))
                           /\ w = NewMarks(marks, m, r)
  OBVIOUS
<1>1. Len(t) \in Nat
  BY LenProperties
<1>2. /\ c \in 0 .. Len(t) /\ d \in c .. Len(t)
      /\ \A k \in 1 .. c : p + k \notin a + 1 .. b
      /\ \A k \in c + 1 .. d : p + k \in a + 1 .. b
      /\ \A k \in d + 1 .. Len(t) : p + k \notin a + 1 .. b
  BY DEF CutsAt
<1>3. /\ t1 \in Seq(Char) /\ Len(t1) = c /\ t2 \in Seq(Char) /\ Len(t2) = d - c
      /\ t3 \in Seq(Char) /\ Len(t3) = Len(t) - d
      /\ Run(t, marks) = Run(t1, marks) \o (Run(t2, marks) \o Run(t3, marks))
      /\ w \in SUBSET {"strong", "link"}
  <2>1. t1 \in Seq(Char) /\ Len(t1) = c /\ t2 \in Seq(Char) /\ Len(t2) = d - c
    BY <1>0, RunInThree
  <2>2. t3 \in Seq(Char) /\ Len(t3) = Len(t) - d
    BY <1>0, RunInThree
  <2>3. Run(t, marks) = Run(t1, marks) \o (Run(t2, marks) \o Run(t3, marks))
    <3>1. RunsOf(t, marks, c, d)
      BY <1>0, RunInThree, ZenonT(20)
    <3>. QED BY <1>0, <3>1 DEF RunsOf
  <2>4. w \in SUBSET {"strong", "link"}
    BY <1>0, NewMarksType
  <2>. QED BY <2>1, <2>2, <2>3, <2>4
<1>4. PICK r1, r2, r3, x2 : r1 = Run(t1, marks) /\ r2 = Run(t2, marks) /\ r3 = Run(t3, marks) /\ x2 = Run(t2, w)
  OBVIOUS
<1>5. /\ r1 \in Seq(Spot) /\ Len(r1) = c /\ r2 \in Seq(Spot) /\ Len(r2) = d - c
      /\ r3 \in Seq(Spot) /\ Len(r3) = Len(t) - d /\ x2 \in Seq(Spot)
  BY <1>3, <1>4, RunType
<1>6. PICK k1, k2, k3 : k1 = Kept(Text(t1, marks)) /\ k2 = Kept(Text(t2, w)) /\ k3 = Kept(Text(t3, marks))
  OBVIOUS
<1>7. ASSUME NEW v \in Seq(Char), NEW y \in SUBSET {"strong", "link"}
      PROVE  Kept(Text(v, y)) \in Seq(Seg) /\ Places(Kept(Text(v, y))) = Run(v, y)
  <2>1. PICK s : s = Text(v, y)
    OBVIOUS
  <2>2. s \in Seg /\ PlacesOf(s) = Run(v, y)
    BY <2>1, TextSeg
  <2>. QED BY <2>1, <2>2, KeptFacts
<1>8. /\ k1 \in Seq(Seg) /\ Places(k1) = r1 /\ k2 \in Seq(Seg) /\ Places(k2) = x2
      /\ k3 \in Seq(Seg) /\ Places(k3) = r3
  BY <1>3, <1>4, <1>6, <1>7
<1>9. k1 \o k2 \in Seq(Seg)
  BY <1>8, ConcatProperties
<1>10. (k1 \o k2) \o k3 \in Seq(Seg)
  BY <1>8, <1>9, ConcatProperties
<1>11. Places((k1 \o k2) \o k3) = (r1 \o x2) \o r3
  <2>1. Places(k1 \o k2) = Places(k1) \o Places(k2)
    BY <1>8, PlacesConcat
  <2>2. Places((k1 \o k2) \o k3) = Places(k1 \o k2) \o Places(k3)
    BY <1>8, <1>9, PlacesConcat
  <2>. QED BY <1>8, <2>1, <2>2
<1>12. PICK u : u = r2 \o r3
  OBVIOUS
<1>13. u \in Seq(Spot)
  BY <1>5, <1>12, ConcatProperties
<1>14. MarkSplits(r1, u, p, a, b, m, r)
  BY <1>5, <1>13, MarkedAtConcat
<1>15. PICK o : o = p + c
  OBVIOUS
<1>16. o \in Nat /\ o = p + Len(r1) /\ p + d \in Nat /\ o + Len(r2) = p + d
  BY <1>1, <1>2, <1>5, <1>15
<1>17. MarkSplits(r2, r3, o, a, b, m, r)
  BY <1>5, <1>16, MarkedAtConcat
<1>18. MarkedAt(r1, p, a, b, m, r) = r1
  <2>1. \A k \in 1 .. Len(r1) : p + k \notin a + 1 .. b
    BY <1>2, <1>5
  <2>2. r1 \in Seq(Spot)
    BY <1>5
  <2>. QED BY <2>1, <2>2, MarkedAtStays
<1>19. MarkedAt(r2, o, a, b, m, r) = x2
  <2>1. \A k \in 1 .. Len(t2) : o + k \in a + 1 .. b
    <3>. TAKE k \in 1 .. Len(t2)
    <3>1. PICK j : j = c + k
      OBVIOUS
    <3>2. j \in c + 1 .. d /\ o + k = p + j
      BY <1>2, <1>3, <1>15, <3>1
    <3>. QED BY <1>2, <3>2
  <2>2. t2 \in Seq(Char) /\ o \in Nat
    BY <1>3, <1>16
  <2>3. MarksRun(t2, marks, o, a, b, m, r)
    BY <2>1, <2>2, MarkedRun
  <2>. QED BY <1>0, <1>4, <2>3 DEF MarksRun
<1>20. PICK e : e = p + d
  OBVIOUS
<1>21. MarkedAt(r3, e, a, b, m, r) = r3
  <2>1. \A k \in 1 .. Len(r3) : e + k \notin a + 1 .. b
    <3>. TAKE k \in 1 .. Len(r3)
    <3>1. PICK j : j = d + k
      OBVIOUS
    <3>2. j \in d + 1 .. Len(t) /\ e + k = p + j
      BY <1>1, <1>2, <1>5, <1>20, <3>1
    <3>. QED BY <1>2, <3>2
  <2>2. r3 \in Seq(Spot) /\ e \in Nat
    BY <1>5, <1>16, <1>20
  <2>. QED BY <2>1, <2>2, MarkedAtStays
<1>22. MarkedAt(Run(t, marks), p, a, b, m, r) = r1 \o (x2 \o r3)
  BY <1>3, <1>4, <1>12, <1>14, <1>16, <1>17, <1>18, <1>19, <1>20, <1>21 DEF MarkSplits
<1>23. Assoc(r1, x2, r3)
  BY <1>5, Associative
<1>. QED BY <1>0, <1>6, <1>10, <1>11, <1>22, <1>23 DEF Assoc, PiecesFit

\* What a toggle makes of one segment.
TogglePieces(segs, a, b, m, r, i) ==
    IF IsText(segs[i]) THEN Pieces(segs, a, b, i, NewMarks(segs[i].marks, m, r)) ELSE <<segs[i]>>

LEMMA PieceFacts ==
    ASSUME NEW segs \in Seq(Seg), NEW i \in 1 .. Len(segs), NEW m \in {"strong", "link"}, NEW r,
           NEW a \in Nat, NEW b \in Nat, a <= b
    PROVE  /\ TogglePieces(segs, a, b, m, r, i) \in Seq(Seg)
           /\ Places(TogglePieces(segs, a, b, m, r, i)) = MarkedAt(PlacesOf(segs[i]), Pos(segs, i), a, b, m, r)
<1>1. PICK s, t, marks, p : s = segs[i] /\ t = s.text /\ marks = s.marks /\ p = Pos(segs, i)
  OBVIOUS
<1>2. s \in Seg /\ t \in Seq(Char) /\ marks \in SUBSET {"strong", "link"} /\ p \in Nat
  <2>1. segs[i] \in Seg
    BY ElementOfSeq
  <2>2. Pos(segs, i) \in Nat
    BY PosFacts
  <2>. QED BY <1>1, <2>1, <2>2, SegTypes
<1>3. CASE IsText(s)
  <2>1. PICK c, d : c = CutFrom(p, a, Len(t)) /\ d = CutTo(p, a, b, Len(t))
    OBVIOUS
  <2>2. c \in 0 .. Len(t) /\ d \in c .. Len(t) /\ CutsAt(t, p, a, b, c, d)
    BY <1>2, <2>1, CutsThere
  <2>3. PiecesFit(t, marks, p, a, b, m, r, c, d)
    BY <1>2, <2>2, PiecesOfRun
  <2>4. PICK y : y = Kept(Text(SubSeq(t, 1, c), marks)) \o Kept(Text(SubSeq(t, c + 1, d), NewMarks(marks, m, r)))
                     \o Kept(Text(SubSeq(t, d + 1, Len(t)), marks))
    OBVIOUS
  <2>5. TogglePieces(segs, a, b, m, r, i) = y
    BY <1>1, <1>3, <2>1, <2>4 DEF TogglePieces, Pieces, CutFrom, CutTo
  <2>6. y \in Seq(Seg) /\ Places(y) = MarkedAt(Run(t, marks), p, a, b, m, r)
    BY <2>3, <2>4 DEF PiecesFit
  <2>8. PlacesOf(s) = Run(t, marks)
    BY <1>1, <1>2, <1>3, RunPlaces
  <2>. QED BY <1>1, <2>5, <2>6, <2>8
<1>4. CASE ~IsText(s)
  <2>1. TogglePieces(segs, a, b, m, r, i) = <<s>>
    BY <1>1, <1>4 DEF TogglePieces
  <2>2. <<s>> \in Seq(Seg) /\ Places(<<s>>) = PlacesOf(s)
    BY <1>2, PlacesOne
  <2>3. PICK q : q = PlacesOf(s)
    OBVIOUS
  <2>4. q \in Seq(Spot) /\ Len(q) = 1 /\ IsAtom(q[1])
    BY <1>2, <1>4, <2>3, PlacesOfType, AtomPlaces
  <2>5. \A k \in 1 .. Len(q) : p + k \notin a + 1 .. b \/ IsAtom(q[k])
    BY <2>4
  <2>6. q \in Seq(Spot)
    BY <2>4
  <2>7. MarkedAt(q, p, a, b, m, r) = q
    BY <1>2, <2>5, <2>6, MarkedAtStays
  <2>. QED BY <1>1, <2>1, <2>2, <2>3, <2>7
<1>. QED BY <1>3, <1>4

\* The segments of a toggle, in order.
ToggleAll(segs, a, b, m, r) == [i \in 1 .. Len(segs) |-> TogglePieces(segs, a, b, m, r, i)]
LEMMA ToggleAllPlaces ==
    ASSUME NEW segs \in Seq(Seg), NEW m \in {"strong", "link"}, NEW r, NEW a \in Nat, NEW b \in Nat, a <= b
    PROVE  /\ FlattenSeq(ToggleAll(segs, a, b, m, r)) \in Seq(Seg)
           /\ Places(FlattenSeq(ToggleAll(segs, a, b, m, r))) = MarkedAt(Places(segs), 0, a, b, m, r)
<1>1. PICK D, N : D = ToggleAll(segs, a, b, m, r) /\ N = Len(segs)
  OBVIOUS
<1>2. N \in Nat
  BY <1>1, LenProperties
<1>3. ASSUME NEW i \in 1 .. N
      PROVE  /\ D[i] \in Seq(Seg)
             /\ Places(D[i]) = MarkedAt(PlacesOf(segs[i]), Pos(segs, i), a, b, m, r)
  <2>1. i \in 1 .. Len(segs)
    BY <1>1
  <2>2. D[i] = TogglePieces(segs, a, b, m, r, i)
    BY <1>1, <2>1 DEF ToggleAll
  <2>. QED BY <2>1, <2>2, PieceFacts
<1>4. D \in Seq(Seq(Seg)) /\ Len(D) = N
  BY <1>1, <1>2, <1>3 DEF ToggleAll
<1>. DEFINE T == {n \in Nat : n \in 0 .. N =>
                    /\ FlattenSeq(SubSeq(D, 1, n)) \in Seq(Seg)
                    /\ Places(FlattenSeq(SubSeq(D, 1, n))) = MarkedAt(Places(SubSeq(segs, 1, n)), 0, a, b, m, r)}
<1>5. 0 \in T
  <2>1. SubSeq(D, 1, 0) = <<>> /\ SubSeq(segs, 1, 0) = <<>>
    BY SubSeqEmpty
  <2>2. MarkedAt(<<>>, 0, a, b, m, r) = <<>>
    <3>1. <<>> \in Seq(Spot) /\ Len(<<>>) = 0
      BY EmptySeq
    <3>2. \A k \in 1 .. Len(<<>>) : 0 + k \notin a + 1 .. b \/ IsAtom(<<>>[k])
      BY <3>1
    <3>3. PICK q : q = <<>>
      OBVIOUS
    <3>4. q \in Seq(Spot) /\ (\A k \in 1 .. Len(q) : 0 + k \notin a + 1 .. b \/ IsAtom(q[k]))
      BY <3>1, <3>2, <3>3
    <3>5. MarkedAt(q, 0, a, b, m, r) = q
      BY <3>4, MarkedAtStays
    <3>. QED BY <3>3, <3>5
  <2>3. <<>> \in Seq(Seg)
    BY EmptySeq
  <2>. QED BY <2>1, <2>2, <2>3, PlacesEmpty, FlatEmpty
<1>6. ASSUME NEW n \in Nat, n \in T PROVE n + 1 \in T
  <2>. SUFFICES ASSUME n + 1 \in 0 .. N
                PROVE  /\ FlattenSeq(SubSeq(D, 1, n + 1)) \in Seq(Seg)
                       /\ Places(FlattenSeq(SubSeq(D, 1, n + 1))) = MarkedAt(Places(SubSeq(segs, 1, n + 1)), 0, a, b, m, r)
    OBVIOUS
  <2>1. PICK i : i = n + 1
    OBVIOUS
  <2>2. i \in 1 .. N /\ i - 1 = n /\ n \in 0 .. N /\ i \in 1 .. Len(segs) /\ i \in 1 .. Len(D)
    BY <1>1, <1>2, <1>4, <2>1
  <2>3. PICK d, x : d = SubSeq(D, 1, n) /\ x = D[i]
    OBVIOUS
  <2>4. d \in Seq(Seq(Seg)) /\ SubSeq(D, 1, i) = Append(d, x) /\ x \in Seq(Seg)
    <3>1. SubSeq(D, 1, i - 1) \in Seq(Seq(Seg)) /\ SubSeq(D, 1, i) = Append(SubSeq(D, 1, i - 1), D[i])
      BY <1>4, <2>2, Around
    <3>. QED BY <1>3, <2>2, <2>3, <3>1
  <2>5. FlattenSeq(SubSeq(D, 1, i)) = FlattenSeq(d) \o x
    BY <2>4, FlatAppend
  <2>6. FlattenSeq(d) \in Seq(Seg) /\ Places(FlattenSeq(d)) = MarkedAt(Places(SubSeq(segs, 1, n)), 0, a, b, m, r)
    BY <1>6, <2>2, <2>3
  <2>7. PICK f : f = FlattenSeq(d)
    OBVIOUS
  <2>8. f \o x \in Seq(Seg)
    BY <2>4, <2>6, <2>7, ConcatProperties
  <2>80. Places(f \o x) = Places(f) \o Places(x)
    BY <2>4, <2>6, <2>7, PlacesConcat
  <2>9. Places(SubSeq(segs, 1, i)) = Places(SubSeq(segs, 1, i - 1)) \o PlacesOf(segs[i])
    BY <2>2, PosFacts
  <2>10. PICK q, s : q = Places(SubSeq(segs, 1, n)) /\ s = PlacesOf(segs[i])
    OBVIOUS
  <2>11. q \in Seq(Spot) /\ s \in Seq(Spot) /\ Len(q) = Pos(segs, i) /\ Pos(segs, i) \in Nat
    <3>1. SubSeq(segs, 1, i - 1) \in Seq(Seg) /\ segs[i] \in Seg
      BY <2>2, Around
    <3>2. Pos(segs, i) = Len(Places(SubSeq(segs, 1, i - 1))) /\ Pos(segs, i) \in Nat
      <4>1. i \in 1 .. Len(segs) + 1
        BY <1>1, <1>2, <2>2
      <4>. QED BY <4>1, PosIsPlaces
    <3>. QED BY <2>2, <2>10, <3>1, <3>2, PlacesType, PlacesOfType
  <2>12. \A o \in Nat : MarkSplits(q, s, o, a, b, m, r)
    <3>1. q \in Seq(Spot) /\ s \in Seq(Spot)
      BY <2>11
    <3>. QED BY <3>1, MarkedAtConcat
  <2>13. MarkedAt(q \o s, 0, a, b, m, r) = MarkedAt(q, 0, a, b, m, r) \o MarkedAt(s, 0 + Len(q), a, b, m, r)
    BY <2>12 DEF MarkSplits
  <2>14. 0 + Len(q) = Pos(segs, i)
    BY <2>11
  <2>15. Places(x) = MarkedAt(s, Pos(segs, i), a, b, m, r)
    BY <1>3, <2>2, <2>3, <2>10
  <2>. QED BY <2>1, <2>2, <2>5, <2>6, <2>7, <2>8, <2>80, <2>9, <2>10, <2>13, <2>14, <2>15
<1>7. Nat \subseteq T
  <2>. HIDE DEF T
  <2>. QED BY <1>5, <1>6, NatInduct
<1>8. N \in T /\ N \in 0 .. N
  BY <1>2, <1>7
<1>9. /\ FlattenSeq(SubSeq(D, 1, N)) \in Seq(Seg)
      /\ Places(FlattenSeq(SubSeq(D, 1, N))) = MarkedAt(Places(SubSeq(segs, 1, N)), 0, a, b, m, r)
  BY <1>8
<1>10. SubSeq(D, 1, N) = D /\ SubSeq(segs, 1, N) = segs
  BY <1>1, <1>4, SubSeqFull
<1>. QED BY <1>1, <1>9, <1>10

\* The places of a segment are where the segment stands.
LEMMA PlaceInSeg ==
    ASSUME NEW segs \in Seq(Seg), NEW i \in 1 .. Len(segs), NEW j \in 1 .. Width(segs[i])
    PROVE  /\ Pos(segs, i) + j \in 1 .. Len(Places(segs))
           /\ Places(segs)[Pos(segs, i) + j] = PlacesOf(segs[i])[j]
<1>1. PICK pre, rest, s : pre = SubSeq(segs, 1, i - 1) /\ rest = SubSeq(segs, i + 1, Len(segs)) /\ s = segs[i]
  OBVIOUS
<1>2. /\ pre \in Seq(Seg) /\ rest \in Seq(Seg) /\ s \in Seg /\ SubSeq(segs, 1, i) = Append(pre, s)
      /\ segs = SubSeq(segs, 1, i) \o rest
  BY <1>1, Around
<1>3. Append(pre, s) \in Seq(Seg)
  BY <1>2, AppendProperties
<1>4. Places(segs) = Places(Append(pre, s)) \o Places(rest)
  BY <1>2, <1>3, PlacesConcat
<1>5. Places(Append(pre, s)) = Places(pre) \o PlacesOf(s)
  BY <1>2, PlacesAppend
<1>6. PICK p, q, e : p = Places(pre) /\ q = Places(rest) /\ e = PlacesOf(s)
  OBVIOUS
<1>7. p \in Seq(Spot) /\ q \in Seq(Spot) /\ e \in Seq(Spot) /\ Len(e) = Width(s)
  BY <1>2, <1>6, PlacesType, PlacesOfType
<1>8. Len(p) = Pos(segs, i)
  <2>1. i \in 1 .. Len(segs) + 1
    BY LenProperties
  <2>. QED BY <1>1, <1>6, <2>1, PosIsPlaces
<1>9. PICK u : u = p \o e
  OBVIOUS
<1>10. u \in Seq(Spot) /\ Len(u) = Len(p) + Len(e)
       /\ \A k \in 1 .. Len(p) + Len(e) : u[k] = IF k <= Len(p) THEN p[k] ELSE e[k - Len(p)]
  <2>1. p \in Seq(Spot) /\ e \in Seq(Spot)
    BY <1>7
  <2>. QED BY <1>9, <2>1, ConcatProperties
<1>11. PICK v : v = u \o q
  OBVIOUS
<1>12. v \in Seq(Spot) /\ Len(v) = Len(u) + Len(q)
       /\ \A k \in 1 .. Len(u) + Len(q) : v[k] = IF k <= Len(u) THEN u[k] ELSE q[k - Len(u)]
  <2>1. u \in Seq(Spot) /\ q \in Seq(Spot)
    BY <1>7, <1>10
  <2>. QED BY <1>11, <2>1, ConcatProperties
<1>13. PICK k : k = Pos(segs, i) + j
  OBVIOUS
<1>14. Len(p) \in Nat /\ Len(e) \in Nat /\ Len(q) \in Nat
  BY <1>7, LenProperties
<1>15. j \in 1 .. Len(e)
  BY <1>1, <1>7
<1>16. k \in 1 .. Len(p) + Len(e) /\ ~(k <= Len(p)) /\ k - Len(p) = j
  BY <1>8, <1>13, <1>14, <1>15
<1>17. k \in 1 .. Len(u) + Len(q) /\ k <= Len(u)
  BY <1>10, <1>14, <1>16
<1>18. v[k] = e[j]
  BY <1>10, <1>12, <1>16, <1>17
<1>19. k \in 1 .. Len(v)
  BY <1>12, <1>17
<1>. QED BY <1>1, <1>4, <1>5, <1>6, <1>9, <1>11, <1>13, <1>18, <1>19

\* Every place is a place of a segment.
LEMMA SegOfPlace ==
    ASSUME NEW segs \in Seq(Seg), NEW k \in 1 .. Len(Places(segs))
    PROVE  \E i \in 1 .. Len(segs) : \E j \in 1 .. Width(segs[i]) : k = Pos(segs, i) + j
<1>. DEFINE N == Len(segs)
            Found == \E i \in 1 .. N : \E j \in 1 .. Width(segs[i]) : k = Pos(segs, i) + j
            T == {n \in Nat : n <= N /\ k <= Pos(segs, n + 1) => Found}
<1>0. N \in Nat /\ Len(Places(segs)) \in Nat
  BY LenProperties, PlacesType
<1>1. 0 \in T
  <2>1. Pos(segs, 1) = 0 /\ 0 + 1 = 1
    BY PosFacts
  <2>2. ~(k <= 0)
    BY <1>0
  <2>. QED BY <2>1, <2>2
<1>2. ASSUME NEW n \in Nat, n \in T PROVE n + 1 \in T
  <2>. SUFFICES ASSUME n + 1 <= N, k <= Pos(segs, (n + 1) + 1) PROVE Found
    OBVIOUS
  <2>1. PICK i : i = n + 1
    OBVIOUS
  <2>2. i \in 1 .. Len(segs) /\ n <= N
    BY <1>0, <2>1
  <2>3. Pos(segs, i) \in Nat /\ Width(segs[i]) \in Nat /\ Pos(segs, i + 1) = Pos(segs, i) + Width(segs[i])
    BY <2>2, PosFacts
  <2>4. CASE k <= Pos(segs, i)
    BY <1>2, <2>1, <2>2, <2>4
  <2>5. CASE ~(k <= Pos(segs, i))
    <3>1. PICK j : j = k - Pos(segs, i)
      OBVIOUS
    <3>2. k <= Pos(segs, i) + Width(segs[i])
      BY <2>1, <2>3
    <3>3. j \in 1 .. Width(segs[i]) /\ k = Pos(segs, i) + j
      BY <1>0, <2>3, <2>5, <3>1, <3>2
    <3>. QED BY <2>2, <3>3
  <2>. QED BY <2>4, <2>5
<1>3. Nat \subseteq T
  <2>. HIDE DEF T
  <2>. QED BY <1>1, <1>2, NatInduct
<1>4. N \in T
  BY <1>0, <1>3
<1>5. Pos(segs, N + 1) = Len(Places(segs))
  BY PosFacts
<1>6. k <= Pos(segs, N + 1)
  BY <1>0, <1>5
<1>. QED BY <1>0, <1>4, <1>6

\* The characters of a range: those of the runs the range overlaps.
RangeOf(ps, a, b) == {k \in DOMAIN ps : k \in a + 1 .. b /\ ~IsAtom(ps[k])}

LEMMA RunInRange ==
    ASSUME NEW segs \in Seq(Seg), NEW a \in Nat, NEW b \in Nat, NEW i \in InRange(segs, a, b)
    PROVE  \E k \in RangeOf(Places(segs), a, b) : Places(segs)[k][2] = segs[i].marks
<1>1. i \in 1 .. Len(segs) /\ IsText(segs[i])
      /\ Least(Pos(segs, i) + Len(segs[i].text), b) > Most(Pos(segs, i), a)
  BY DEF InRange
<1>2. PICK s, t, p, n : s = segs[i] /\ t = s.text /\ p = Pos(segs, i) /\ n = Len(t)
  OBVIOUS
<1>3. s \in Seg /\ p \in Nat /\ t \in Seq(Char) /\ s.marks \in SUBSET {"strong", "link"}
  <2>1. segs[i] \in Seg
    BY <1>1, ElementOfSeq
  <2>2. Pos(segs, i) \in Nat
    BY <1>1, PosFacts
  <2>. QED BY <1>2, <2>1, <2>2, SegTypes
<1>4. n \in Nat
  BY <1>2, <1>3, LenProperties
<1>5. PICK j : j = Most(p, a) + 1 - p
  OBVIOUS
<1>6. j \in 1 .. n /\ p + j \in a + 1 .. b
  <2>1. (IF p + n < b THEN p + n ELSE b) > (IF p > a THEN p ELSE a)
    BY <1>1, <1>2 DEF Least, Most
  <2>2. j = (IF p > a THEN p ELSE a) + 1 - p
    BY <1>5 DEF Most
  <2>3. p \in Nat
    BY <1>3
  <2>4. CASE p > a
    <3>1. j = 1
      BY <2>2, <2>3, <2>4
    <3>. QED BY <1>4, <2>1, <2>3, <2>4, <3>1
  <2>5. CASE ~(p > a)
    <3>1. j = a + 1 - p /\ p <= a
      BY <2>2, <2>3, <2>5
    <3>. QED BY <1>4, <2>1, <2>3, <2>5, <3>1
  <2>. QED BY <2>4, <2>5
<1>7. Width(s) = n
  BY <1>1, <1>2 DEF Width
<1>8. PICK k : k = p + j
  OBVIOUS
<1>9. k \in 1 .. Len(Places(segs)) /\ Places(segs)[k] = PlacesOf(s)[j]
  BY <1>1, <1>2, <1>6, <1>7, <1>8, PlaceInSeg
<1>10. PlacesOf(s) = Run(t, s.marks)
  BY <1>1, <1>2, <1>3, RunPlaces
<1>11. Run(t, s.marks)[j] = <<t[j], s.marks>> /\ ~IsAtom(Run(t, s.marks)[j])
  BY <1>2, <1>3, <1>6, RunType, NoAtomInRun
<1>12. DOMAIN Places(segs) = 1 .. Len(Places(segs))
  BY PlacesType, LenProperties
<1>13. k \in RangeOf(Places(segs), a, b)
  BY <1>6, <1>8, <1>9, <1>10, <1>11, <1>12 DEF RangeOf
<1>. QED BY <1>2, <1>9, <1>10, <1>11, <1>13

LEMMA RangeInRun ==
    ASSUME NEW segs \in Seq(Seg), NEW a \in Nat, NEW b \in Nat, NEW k \in RangeOf(Places(segs), a, b)
    PROVE  \E i \in InRange(segs, a, b) : Places(segs)[k][2] = segs[i].marks
<1>1. DOMAIN Places(segs) = 1 .. Len(Places(segs))
  BY PlacesType, LenProperties
<1>2. k \in 1 .. Len(Places(segs)) /\ k \in a + 1 .. b /\ ~IsAtom(Places(segs)[k])
  BY <1>1 DEF RangeOf
<1>3. PICK i \in 1 .. Len(segs) : \E j \in 1 .. Width(segs[i]) : k = Pos(segs, i) + j
  BY <1>2, SegOfPlace
<1>4. PICK j \in 1 .. Width(segs[i]) : k = Pos(segs, i) + j
  BY <1>3
<1>5. PICK s, t, p, n : s = segs[i] /\ t = s.text /\ p = Pos(segs, i) /\ n = Len(t)
  OBVIOUS
<1>6. s \in Seg /\ p \in Nat /\ t \in Seq(Char) /\ s.marks \in SUBSET {"strong", "link"}
  <2>1. segs[i] \in Seg
    BY ElementOfSeq
  <2>2. Pos(segs, i) \in Nat
    BY PosFacts
  <2>. QED BY <1>5, <2>1, <2>2, SegTypes
<1>7. n \in Nat
  BY <1>5, <1>6, LenProperties
<1>8. Places(segs)[k] = PlacesOf(s)[j]
  BY <1>4, <1>5, PlaceInSeg
<1>9. IsText(s)
  <2>. SUFFICES ASSUME ~IsText(s) PROVE FALSE
    OBVIOUS
  <2>1. Width(s) = 1 /\ IsAtom(PlacesOf(s)[1])
    BY <1>6, AtomPlaces DEF Width
  <2>2. j = 1
    BY <1>5, <2>1
  <2>. QED BY <1>2, <1>8, <2>1, <2>2
<1>10. j \in 1 .. n
  BY <1>5, <1>9 DEF Width
<1>11. PlacesOf(s)[j] = <<t[j], s.marks>>
  <2>1. PlacesOf(s) = Run(t, s.marks)
    BY <1>5, <1>6, <1>9, RunPlaces
  <2>2. Run(t, s.marks)[j] = <<t[j], s.marks>>
    BY <1>5, <1>6, <1>10, RunType
  <2>. QED BY <2>1, <2>2
<1>12. Least(p + n, b) > Most(p, a)
  <2>1. p \in Nat /\ n \in Nat /\ j \in 1 .. n /\ p + j \in a + 1 .. b
    BY <1>2, <1>4, <1>5, <1>6, <1>7, <1>10
  <2>. QED BY <2>1 DEF Least, Most
<1>13. i \in InRange(segs, a, b)
  BY <1>5, <1>9, <1>12 DEF InRange
<1>. QED BY <1>5, <1>8, <1>11, <1>13

\* What toggle_mark goes by: every place of the range carries the mark.
SaysMarked(r, ps, a, b, m) ==
    RangeOf(ps, a, b) # {} => (r <=> \A k \in RangeOf(ps, a, b) : m \in ps[k][2])

\* A toggle is what the primitive makes of each place.
LEMMA ToggledIsMarked ==
    ASSUME NEW ps \in Seq(Spot), NEW a \in Nat, NEW b \in Nat, NEW m \in {"strong", "link"}, NEW r,
           SaysMarked(r, ps, a, b, m)
    PROVE  Toggled(ps, a, b, m) = MarkedAt(ps, 0, a, b, m, r)
<1>1. Len(ps) \in Nat /\ DOMAIN ps = 1 .. Len(ps)
  BY LenProperties
<1>2. PICK x, range, rem : /\ x = MarkedAt(ps, 0, a, b, m, r) /\ range = RangeOf(ps, a, b)
                           /\ rem = \A k \in RangeOf(ps, a, b) : m \in ps[k][2]
  OBVIOUS
<1>3. x \in Seq(Spot) /\ Len(x) = Len(ps)
  BY <1>2, MarkedAtShape
<1>4. PICK y : y = [k \in DOMAIN ps |-> IF k \notin range THEN ps[k] ELSE <<ps[k][1], NewMarks(ps[k][2], m, rem)>>]
  OBVIOUS
<1>5. Toggled(ps, a, b, m) = y
  BY <1>2, <1>4 DEF Toggled, RangeOf, NewMarks
<1>6. ASSUME NEW k \in 1 .. Len(ps) PROVE x[k] = y[k]
  <2>1. MarkedAt(ps, 0, a, b, m, r)[k] =
          IF 0 + k \in a + 1 .. b /\ ~IsAtom(ps[k]) THEN <<ps[k][1], NewMarks(ps[k][2], m, r)>> ELSE ps[k]
    <3>1. ASSUME NEW o \in Nat
          PROVE  MarksAt(ps, o, a, b, m, r, k)
      BY MarkRead
    <3>. QED BY <3>1 DEF MarksAt
  <2>2. y[k] = IF k \notin range THEN ps[k] ELSE <<ps[k][1], NewMarks(ps[k][2], m, rem)>>
    BY <1>1, <1>4
  <2>3. k \in range <=> k \in a + 1 .. b /\ ~IsAtom(ps[k])
    BY <1>1, <1>2 DEF RangeOf
  <2>4. 0 + k = k
    OBVIOUS
  <2>5. k \in range => NewMarks(ps[k][2], m, r) = NewMarks(ps[k][2], m, rem)
    BY <1>2 DEF NewMarks, SaysMarked
  <2>. QED BY <1>2, <2>1, <2>2, <2>3, <2>4, <2>5
<1>7. y \in Seq(Spot) /\ Len(y) = Len(ps)
  <2>1. Len(y) = Len(ps) /\ DOMAIN y = 1 .. Len(ps)
    BY <1>1, <1>4
  <2>2. \A k \in 1 .. Len(ps) : x[k] \in Spot
    BY <1>3, ElementOfSeq
  <2>3. \A k \in 1 .. Len(ps) : y[k] \in Spot
    BY <1>6, <2>2
  <2>4. y = [k \in 1 .. Len(ps) |-> y[k]]
    BY <1>1, <1>4
  <2>. QED BY <1>1, <2>1, <2>3, <2>4
<1>8. x = y
  BY <1>3, <1>6, <1>7, SeqEqual
<1>. QED BY <1>2, <1>5, <1>8

\* A toggle changes one mark in its range and leaves segments.
LEMMA ToggleAtPlaces ==
    ASSUME NEW segs \in Seq(Seg), NEW m \in {"strong", "link"}, NEW a \in Nat, NEW b \in Nat, a <= b
    PROVE  /\ ToggleMark(segs, a, b, m) \in Seq(Seg)
           /\ Places(ToggleMark(segs, a, b, m)) = Toggled(Places(segs), a, b, m)
<1>1. PICK S, r, ps : /\ S = InRange(segs, a, b) /\ ps = Places(segs)
                      /\ r = (InRange(segs, a, b) # {} /\ \A i \in InRange(segs, a, b) : m \in segs[i].marks)
  OBVIOUS
<1>2. ps \in Seq(Spot)
  BY <1>1, PlacesType
<1>3. PICK D : D = ToggleAll(segs, a, b, m, r)
  OBVIOUS
<1>4. ToggleMark(segs, a, b, m) = Coalesce(FlattenSeq(D))
  BY <1>1, <1>3 DEF ToggleMark, ToggleAll, TogglePieces, NewMarks
<1>5. FlattenSeq(D) \in Seq(Seg) /\ Places(FlattenSeq(D)) = MarkedAt(ps, 0, a, b, m, r)
  BY <1>1, <1>3, ToggleAllPlaces
<1>6. Coalesce(FlattenSeq(D)) \in Seq(Seg) /\ Places(Coalesce(FlattenSeq(D))) = Places(FlattenSeq(D))
  BY <1>5, CoalesceKeepsPlaces
<1>7. RangeOf(ps, a, b) # {} => (r <=> \A k \in RangeOf(ps, a, b) : m \in ps[k][2])
  <2>. SUFFICES ASSUME RangeOf(ps, a, b) # {} PROVE r <=> \A k \in RangeOf(ps, a, b) : m \in ps[k][2]
    OBVIOUS
  <2>1. \A k \in RangeOf(ps, a, b) : \E i \in InRange(segs, a, b) : ps[k][2] = segs[i].marks
    BY <1>1, RangeInRun
  <2>2. \A i \in InRange(segs, a, b) : \E k \in RangeOf(ps, a, b) : ps[k][2] = segs[i].marks
    BY <1>1, RunInRange
  <2>3. InRange(segs, a, b) # {}
    BY <2>1
  <2>. QED BY <1>1, <2>1, <2>2, <2>3
<1>8. Toggled(ps, a, b, m) = MarkedAt(ps, 0, a, b, m, r)
  <2>1. SaysMarked(r, ps, a, b, m)
    BY <1>7 DEF SaysMarked
  <2>. QED BY <1>2, <2>1, ToggledIsMarked
<1>. QED BY <1>1, <1>4, <1>5, <1>6, <1>8

------------------------------------------------------------------------------
(* The text of a leaf.                                                     *)

TextMap == [s \in Seg |-> IF IsText(s) THEN s.text ELSE <<>>]
LEMMA TextMapType == TextMap \in [Seg -> Seq(Char)]
<1>1. ASSUME NEW s \in Seg PROVE (IF IsText(s) THEN s.text ELSE <<>>) \in Seq(Char)
  <2>1. <<>> \in Seq(Char) /\ s.text \in Seq(Char)
    BY EmptySeq, SegTypes
  <2>. QED BY <2>1
<1>. QED BY <1>1 DEF TextMap

TextOf(segs) == FlatMap(TextMap, segs)

LEMMA LeafTextIs ==
    ASSUME NEW b \in Block
    PROVE  LeafText(b) = TextOf(b.segs) /\ b.segs \in Seq(Seg)
<1>1. b.segs \in Seq(Seg)
  BY DEF Block
<1>2. \A i \in 1 .. Len(b.segs) : b.segs[i] \in Seg
  BY <1>1, ElementOfSeq
<1>3. \A i \in 1 .. Len(b.segs) : TextMap[b.segs[i]] = IF IsText(b.segs[i]) THEN b.segs[i].text ELSE <<>>
  BY <1>2 DEF TextMap
<1>4. [i \in 1 .. Len(b.segs) |-> IF IsText(b.segs[i]) THEN b.segs[i].text ELSE <<>>]
      = [i \in 1 .. Len(b.segs) |-> TextMap[b.segs[i]]]
  BY <1>3
<1>. QED BY <1>1, <1>4 DEF LeafText, TextOf, FlatMap, Mapped

LEMMA TextOfType ==
    ASSUME NEW segs \in Seq(Seg)
    PROVE  TextOf(segs) \in Seq(Char)
<1>1. \A s \in Seg : TextMap[s] \in Seq(Char)
  BY TextMapType
<1>. QED BY <1>1, FlatMapType DEF TextOf

LEMMA LeafTextType ==
    ASSUME NEW b \in Block
    PROVE  LeafText(b) \in Seq(Char) /\ TextLen(b) \in Nat
<1>1. LeafText(b) \in Seq(Char)
  BY LeafTextIs, TextOfType
<1>. QED BY <1>1, LenProperties DEF TextLen

LEMMA DepthType == ASSUME NEW b \in Block PROVE Depth(b) \in 1 .. 3
<1>1. b.wrap \in Wraps
  BY DEF Block
<1>. QED BY <1>1 DEF Depth, Wraps

------------------------------------------------------------------------------
(* Types of what the keys write.                                           *)

LEMMA InsertAtType ==
    ASSUME NEW S, NEW q \in Seq(S), NEW k \in 1 .. Len(q) + 1, NEW x \in S
    PROVE  InsertAt(q, k, x) \in Seq(S)
<1>1. Len(q) \in Nat
  BY LenProperties
<1>2. PICK c : c = k - 1
  OBVIOUS
<1>3. c \in Nat /\ c <= Len(q) /\ k = c + 1
  BY <1>1, <1>2
<1>4. SubSeq(q, 1, c) \in Seq(S) /\ SubSeq(q, c + 1, Len(q)) \in Seq(S)
  BY <1>3, TwoParts
<1>5. PICK u, v, w : u = SubSeq(q, 1, k - 1) /\ v = <<x>> /\ w = SubSeq(q, k, Len(q))
  OBVIOUS
<1>6. u \in Seq(S) /\ v \in Seq(S) /\ w \in Seq(S)
  BY <1>2, <1>3, <1>4, <1>5
<1>7. u \o v \in Seq(S)
  BY <1>6, ConcatProperties
<1>8. (u \o v) \o w \in Seq(S)
  BY <1>6, <1>7, ConcatProperties
<1>. QED BY <1>5, <1>8 DEF InsertAt

LEMMA RemoveAtType ==
    ASSUME NEW S, NEW q \in Seq(S), NEW k \in 1 .. Len(q)
    PROVE  RemoveAt(q, k) \in Seq(S)
<1>1. SubSeq(q, 1, k - 1) \in Seq(S) /\ SubSeq(q, k + 1, Len(q)) \in Seq(S)
  BY Around
<1>2. PICK u, w : u = SubSeq(q, 1, k - 1) /\ w = SubSeq(q, k + 1, Len(q))
  OBVIOUS
<1>3. u \o w \in Seq(S)
  BY <1>1, <1>2, ConcatProperties
<1>. QED BY <1>2, <1>3 DEF RemoveAt

LEMMA CoveringFacts ==
    ASSUME NEW segs \in Seq(Seg), NEW o \in Nat, Covering(segs, o) # {}, CanInsert(segs, o)
    PROVE  LET i == First(Covering(segs, o))
           IN /\ i \in 1 .. Len(segs) /\ segs[i] \in Seg /\ IsText(segs[i]) /\ Pos(segs, i) \in Nat
              /\ o - Pos(segs, i) \in 0 .. Len(segs[i].text)
              /\ \A j \in Covering(segs, o) : i <= j
<1>1. PICK i : i = First(Covering(segs, o))
  OBVIOUS
<1>2. Covering(segs, o) \in SUBSET Nat
  BY DEF Covering
<1>3. i \in Covering(segs, o) /\ \A j \in Covering(segs, o) : i <= j
  BY <1>1, <1>2, FirstIsLeast
<1>4. i \in 1 .. Len(segs) /\ IsText(segs[i]) /\ o <= Pos(segs, i) + Len(segs[i].text)
  BY <1>3 DEF Covering
<1>5. o >= Pos(segs, i)
  BY <1>1 DEF CanInsert
<1>6. segs[i] \in Seg /\ Pos(segs, i) \in Nat
  BY <1>4, ElementOfSeq, PosFacts
<1>7. Len(segs[i].text) \in Nat
  BY <1>6, SegTypes, LenProperties
<1>8. o - Pos(segs, i) \in 0 .. Len(segs[i].text)
  BY <1>4, <1>5, <1>6, <1>7
<1>. QED BY <1>1, <1>3, <1>4, <1>6, <1>8

LEMMA InsertTextType ==
    ASSUME NEW segs \in Seq(Seg), NEW o \in Nat, NEW c \in Char, CanInsert(segs, o)
    PROVE  InsertText(segs, o, c) \in Seq(Seg)
<1>1. CASE Covering(segs, o) = {}
  <2>1. PICK x : x = Text(<<c>>, {})
    OBVIOUS
  <2>2. x \in Seg
    BY <2>1 DEF Text, Seg
  <2>3. Append(segs, x) \in Seq(Seg)
    BY <2>2, AppendProperties
  <2>. QED BY <1>1, <2>1, <2>3 DEF InsertText
<1>2. CASE Covering(segs, o) # {}
  <2>1. PICK i, k, t : i = First(Covering(segs, o)) /\ k = o - Pos(segs, i) + 1 /\ t = segs[i].text
    OBVIOUS
  <2>2. /\ i \in 1 .. Len(segs) /\ segs[i] \in Seg /\ Pos(segs, i) \in Nat
        /\ o - Pos(segs, i) \in 0 .. Len(segs[i].text)
    BY <1>2, <2>1, CoveringFacts
  <2>3. t \in Seq(Char) /\ Len(t) \in Nat
    BY <2>1, <2>2, SegTypes, LenProperties
  <2>4. k \in 1 .. Len(t) + 1
    BY <2>1, <2>2, <2>3
  <2>5. PICK v : v = InsertAt(t, k, c)
    OBVIOUS
  <2>6. v \in Seq(Char)
    BY <2>3, <2>4, <2>5, InsertAtType
  <2>7. [segs[i] EXCEPT !.text = v] \in Seg
    BY <2>2, <2>6 DEF Seg
  <2>8. InsertText(segs, o, c) = [segs EXCEPT ![i] = [segs[i] EXCEPT !.text = v]]
    BY <1>2, <2>1, <2>5 DEF InsertText
  <2>9. PICK x : x = [segs[i] EXCEPT !.text = v]
    OBVIOUS
  <2>10. [segs EXCEPT ![i] = x] \in Seq(Seg)
    BY <2>2, <2>7, <2>9
  <2>. QED BY <2>8, <2>9, <2>10
<1>. QED BY <1>1, <1>2

------------------------------------------------------------------------------
(* The type invariant.                                                     *)

\* The document and the caret.
DocTyped ==
    /\ blocks \in Seq(Block) /\ top \in Nat /\ depth \in 1 .. 3 /\ off \in Nat
    /\ CaretOnLeaf

\* What refresh_view leaves for a document.
LEMMA PaintType ==
    ASSUME NEW bs \in Seq(Block), NEW t \in Nat, NEW d \in 1 .. 3, NEW o \in Nat, Paint(bs, t, d, o)
    PROVE  /\ top' \in Nat /\ depth' \in 1 .. 3 /\ off' \in Nat
           /\ bs # <<>> => /\ top' \in 1 .. Len(bs) /\ depth' = Depth(bs[top'])
                           /\ off' <= TextLen(bs[top'])
<1>0. Len(bs) \in Nat /\ \A i \in 1 .. Len(bs) : bs[i] \in Block
  BY LenProperties, ElementOfSeq
<1>1. \A i \in 1 .. Len(bs) : Depth(bs[i]) \in 1 .. 3 /\ TextLen(bs[i]) \in Nat
  BY <1>0, DepthType, LeafTextType
<1>2. ASSUME NEW n \in Nat PROVE Least(o, n) \in Nat /\ Least(o, n) <= n
  BY DEF Least
<1>3. CASE t \in 1 .. Len(bs) /\ d = Depth(bs[t])
  <2>1. top' = t /\ depth' = d /\ off' = Least(o, TextLen(bs[t]))
    BY <1>3 DEF Paint
  <2>. QED BY <1>1, <1>2, <1>3, <2>1
<1>4. CASE ~(t \in 1 .. Len(bs) /\ d = Depth(bs[t])) /\ bs = <<>>
  <2>1. top' = 1 /\ depth' = 1 /\ off' = 0
    BY <1>4 DEF Paint
  <2>. QED BY <1>4, <2>1
<1>5. CASE ~(t \in 1 .. Len(bs) /\ d = Depth(bs[t])) /\ bs # <<>>
  <2>1. top' = 1 /\ depth' = Depth(bs[1]) /\ off' = Least(o, TextLen(bs[1]))
    BY <1>5 DEF Paint
  <2>2. 1 \in 1 .. Len(bs)
    BY <1>0, <1>5, EmptySeq
  <2>. QED BY <1>1, <1>2, <2>1, <2>2
<1>. QED BY <1>3, <1>4, <1>5

\* A document that is painted is typed, with the caret on a leaf.
LEMMA Painted ==
    ASSUME NEW bs \in Seq(Block), NEW t \in Nat, NEW d \in 1 .. 3, NEW o \in Nat,
           blocks' = bs, Paint(bs, t, d, o)
    PROVE  DocTyped' /\ CaretOnLeaf'
<1>1. top' \in Nat /\ depth' \in 1 .. 3 /\ off' \in Nat
  BY PaintType
<1>2. bs # <<>> => top' \in 1 .. Len(bs) /\ depth' = Depth(bs[top']) /\ off' <= TextLen(bs[top'])
  BY PaintType
<1>. QED BY <1>1, <1>2 DEF DocTyped, CaretOnLeaf, OnLeaf, Here

LEMMA Crashed ==
    ASSUME DocTyped, Crash
    PROVE  DocTyped' /\ CaretOnLeaf'
BY DEF DocTyped, Crash, CaretOnLeaf, OnLeaf, Here, caret

LEMMA HereType ==
    ASSUME DocTyped, top \in 1 .. Len(blocks)
    PROVE  Here \in Block /\ Here.segs \in Seq(Seg) /\ LeafText(Here) \in Seq(Char) /\ TextLen(Here) \in Nat
<1>1. Here \in Block
  BY ElementOfSeq DEF DocTyped, Here
<1>2. LeafText(Here) \in Seq(Char) /\ TextLen(Here) \in Nat
  BY <1>1, LeafTextType
<1>. QED BY <1>1, <1>2 DEF Block

LEMMA BlockPut ==
    ASSUME NEW bs \in Seq(Block), NEW i \in 1 .. Len(bs), NEW b \in Block
    PROVE  [bs EXCEPT ![i] = b] \in Seq(Block)
OBVIOUS

LEMMA SegsPut ==
    ASSUME NEW b \in Block, NEW segs \in Seq(Seg)
    PROVE  [b EXCEPT !.segs = segs] \in Block
BY DEF Block

\* New segments at the caret.
LEMMA PutsType ==
    ASSUME DocTyped, top \in 1 .. Len(blocks), NEW segs \in Seq(Seg), NEW o \in Nat, Puts(segs, o)
    PROVE  DocTyped' /\ CaretOnLeaf' /\ alive' = alive
<1>1. PICK bs, b : bs = [blocks EXCEPT ![top].segs = segs] /\ b = [Here EXCEPT !.segs = segs]
  OBVIOUS
<1>2. b \in Block
  BY <1>1, HereType, SegsPut
<1>3. bs = [blocks EXCEPT ![top] = b]
  BY <1>1 DEF Here
<1>4. bs \in Seq(Block)
  BY <1>2, <1>3, BlockPut DEF DocTyped
<1>5. blocks' = bs /\ Paint(bs, top, depth, o) /\ alive' = alive
  BY <1>1 DEF Puts
<1>6. top \in Nat /\ depth \in 1 .. 3
  BY DEF DocTyped
<1>. QED BY <1>4, <1>5, <1>6, Painted

LEMMA TypesType ==
    ASSUME DocTyped, NEW c \in Char, Types(c)
    PROVE  DocTyped' /\ CaretOnLeaf' /\ alive' \in {alive, FALSE}
<1>1. CASE blocks = <<>> \/ ~CanInsert(Here.segs, off)
  <2>1. Crash
    BY <1>1 DEF Types
  <2>. QED BY <2>1, Crashed DEF Crash
<1>2. CASE ~(blocks = <<>> \/ ~CanInsert(Here.segs, off))
  <2>1. Puts(InsertText(Here.segs, off, c), off + 1)
    BY <1>2 DEF Types
  <2>2. top \in 1 .. Len(blocks) /\ CanInsert(Here.segs, off) /\ off \in Nat /\ off + 1 \in Nat
    BY <1>2 DEF OnLeaf, DocTyped, CaretOnLeaf
  <2>3. PICK segs : segs = InsertText(Here.segs, off, c)
    OBVIOUS
  <2>4. Here.segs \in Seq(Seg)
    BY <2>2, HereType
  <2>5. segs \in Seq(Seg)
    BY <2>2, <2>3, <2>4, InsertTextType
  <2>. QED BY <2>1, <2>2, <2>3, <2>5, PutsType
<1>. QED BY <1>1, <1>2

\* A paint of the document as it is.
LEMMA PaintSame ==
    ASSUME DocTyped, NEW t \in Nat, NEW d \in 1 .. 3, NEW o \in Nat, UNCHANGED blocks, Paint(blocks, t, d, o)
    PROVE  DocTyped' /\ CaretOnLeaf'
<1>1. PICK bs : bs = blocks
  OBVIOUS
<1>2. bs \in Seq(Block) /\ blocks' = bs /\ Paint(bs, t, d, o)
  BY <1>1 DEF DocTyped
<1>. QED BY <1>2, Painted

LEMMA LeafFacts ==
    ASSUME DocTyped, blocks # <<>>
    PROVE  /\ Leaf \in 1 .. Len(blocks) /\ Len(blocks) \in Nat
           /\ \A i \in 1 .. Len(blocks) : Depth(blocks[i]) \in 1 .. 3 /\ TextLen(blocks[i]) \in Nat
<1>1. blocks \in Seq(Block) /\ Len(blocks) \in Nat
  BY LenProperties DEF DocTyped
<1>2. \A i \in 1 .. Len(blocks) : blocks[i] \in Block
  BY <1>1, ElementOfSeq
<1>3. \A i \in 1 .. Len(blocks) : Depth(blocks[i]) \in 1 .. 3 /\ TextLen(blocks[i]) \in Nat
  BY <1>2, DepthType, LeafTextType
<1>4. 1 \in 1 .. Len(blocks)
  BY <1>1, EmptySeq
<1>. QED BY <1>1, <1>3, <1>4 DEF Leaf, OnLeaf

LEMMA LeftType ==
    ASSUME DocTyped, Left, UNCHANGED blocks
    PROVE  DocTyped' /\ CaretOnLeaf'
<1>1. top \in Nat /\ depth \in 1 .. 3 /\ off \in Nat
  BY DEF DocTyped
<1>2. CASE off > 0
  <2>1. Paint(blocks, top, depth, off - 1) /\ off - 1 \in Nat
    BY <1>1, <1>2 DEF Left
  <2>. QED BY <1>1, <2>1, PaintSame
<1>3. CASE ~(off > 0) /\ blocks # <<>> /\ Leaf > 1
  <2>1. PICK t : t = Leaf - 1
    OBVIOUS
  <2>2. Paint(blocks, t, Depth(blocks[t]), TextLen(blocks[t]))
    BY <1>3, <2>1 DEF Left
  <2>3. t \in 1 .. Len(blocks) /\ t \in Nat
    BY <1>3, <2>1, LeafFacts
  <2>4. Depth(blocks[t]) \in 1 .. 3 /\ TextLen(blocks[t]) \in Nat
    BY <1>3, <2>3, LeafFacts
  <2>. QED BY <2>2, <2>3, <2>4, PaintSame
<1>4. CASE ~(off > 0) /\ ~(blocks # <<>> /\ Leaf > 1)
  <2>1. Paint(blocks, top, depth, off)
    BY <1>4 DEF Left
  <2>. QED BY <1>1, <2>1, PaintSame
<1>. QED BY <1>2, <1>3, <1>4

LEMMA RightType ==
    ASSUME DocTyped, Right, UNCHANGED blocks
    PROVE  DocTyped' /\ CaretOnLeaf'
<1>1. top \in Nat /\ depth \in 1 .. 3 /\ off \in Nat /\ Len(blocks) \in Nat
  BY LenProperties DEF DocTyped
<1>2. CASE blocks # <<>> /\ off < TextLen(blocks[Leaf])
  <2>1. Paint(blocks, top, depth, off + 1) /\ off + 1 \in Nat
    BY <1>1, <1>2 DEF Right
  <2>. QED BY <1>1, <2>1, PaintSame
<1>3. CASE ~(blocks # <<>> /\ off < TextLen(blocks[Leaf])) /\ Leaf < Len(blocks)
  <2>1. PICK t : t = Leaf + 1
    OBVIOUS
  <2>2. Paint(blocks, t, Depth(blocks[t]), 0)
    BY <1>3, <2>1 DEF Right
  <2>3. blocks # <<>>
    <3>. SUFFICES ASSUME blocks = <<>> PROVE FALSE
      OBVIOUS
    <3>1. Len(blocks) = 0
      OBVIOUS
    <3>2. Leaf \in Nat
      BY <1>1 DEF Leaf
    <3>. QED BY <1>3, <3>1, <3>2
  <2>4. t \in 1 .. Len(blocks) /\ t \in Nat
    BY <1>3, <2>1, <2>3, LeafFacts
  <2>5. Depth(blocks[t]) \in 1 .. 3 /\ 0 \in Nat
    BY <2>3, <2>4, LeafFacts
  <2>. QED BY <2>2, <2>4, <2>5, PaintSame
<1>4. CASE ~(blocks # <<>> /\ off < TextLen(blocks[Leaf])) /\ ~(Leaf < Len(blocks))
  <2>1. Paint(blocks, top, depth, off)
    BY <1>4 DEF Right
  <2>. QED BY <1>1, <2>1, PaintSame
<1>. QED BY <1>2, <1>3, <1>4

LEMMA VerticalType ==
    ASSUME DocTyped, NEW t, Vertical(t), UNCHANGED blocks
    PROVE  DocTyped' /\ CaretOnLeaf'
<1>1. top \in Nat /\ depth \in 1 .. 3 /\ off \in Nat /\ Len(blocks) \in Nat
  BY LenProperties DEF DocTyped
<1>2. CASE t \in 1 .. Len(blocks)
  <2>1. Paint(blocks, t, Depth(blocks[t]), off)
    BY <1>2 DEF Vertical
  <2>2. blocks # <<>>
    BY <1>1, <1>2
  <2>3. t \in Nat /\ Depth(blocks[t]) \in 1 .. 3
    BY <1>1, <1>2, <2>2, LeafFacts
  <2>. QED BY <1>1, <2>1, <2>3, PaintSame
<1>3. CASE t \notin 1 .. Len(blocks)
  <2>1. Paint(blocks, top, depth, off)
    BY <1>3 DEF Vertical
  <2>. QED BY <1>1, <2>1, PaintSame
<1>. QED BY <1>2, <1>3

LEMMA ToggleType ==
    ASSUME DocTyped, NEW m \in {"strong", "link"}, Toggle(m)
    PROVE  DocTyped' /\ CaretOnLeaf' /\ alive' = alive
<1>1. top \in Nat /\ depth \in 1 .. 3 /\ off \in Nat
  BY DEF DocTyped
<1>2. CASE blocks = <<>> \/ TextLen(Here) = 0
  <2>1. UNCHANGED <<blocks, alive>> /\ Paint(blocks, top, depth, off)
    BY <1>2 DEF Toggle
  <2>. QED BY <1>1, <2>1, PaintSame
<1>3. CASE ~(blocks = <<>> \/ TextLen(Here) = 0)
  <2>1. PICK n, segs : n = TextLen(Here) /\ segs = Emitted(ToggleMark(Here.segs, 0, n, m))
    OBVIOUS
  <2>2. Puts(segs, off)
    BY <1>3, <2>1 DEF Toggle
  <2>3. top \in 1 .. Len(blocks)
    BY <1>3 DEF OnLeaf, DocTyped, CaretOnLeaf
  <2>4. Here.segs \in Seq(Seg) /\ n \in Nat
    BY <2>1, <2>3, HereType
  <2>5. PICK x, y : x = Here.segs /\ y = ToggleMark(x, 0, n, m)
    OBVIOUS
  <2>6. y \in Seq(Seg)
    <3>1. x \in Seq(Seg) /\ 0 \in Nat /\ 0 <= n
      BY <2>4, <2>5
    <3>. QED BY <2>4, <2>5, <3>1, ToggleAtPlaces
  <2>7. segs \in Seq(Seg)
    BY <2>1, <2>5, <2>6, EmittedKeepsPlaces
  <2>. QED BY <1>1, <2>2, <2>3, <2>7, PutsType
<1>. QED BY <1>2, <1>3

\* A rule that fires: the trigger goes, and the block has a new kind or wrap.
LEMMA RuledType ==
    ASSUME DocTyped, top \in 1 .. Len(blocks), Rule # "none"
    PROVE  Ruled \in Block
<1>1. PICK h, n, x, b : h = Here /\ n = TextLen(h) /\ x = DeleteRange(h.segs, 0, n) /\ b = [h EXCEPT !.segs = x]
  OBVIOUS
<1>2. h \in Block /\ h.segs \in Seq(Seg) /\ n \in Nat
  BY <1>1, HereType
<1>3. x \in Seq(Seg)
  <2>1. 0 \in Nat /\ 0 <= n
    BY <1>2
  <2>. QED BY <1>1, <1>2, <2>1, DeleteAtPlaces
<1>4. b \in Block /\ b.segs = x
  BY <1>1, <1>2, <1>3, SegsPut DEF Block
<1>5. Emitted(x) \in Seq(Seg)
  BY <1>3, EmittedKeepsPlaces
<1>6. Rule \in {"heading", "list", "quote"}
  BY DEF Rule, RuleOf
<1>7. SetBlockType(b, "heading") \in Block
  <2>1. SetBlockType(b, "heading") = [b EXCEPT !.kind = "heading", !.segs = Emitted(x)]
    BY <1>4 DEF SetBlockType
  <2>. QED BY <1>4, <1>5, <2>1 DEF Block
<1>8. ASSUME Rule \in {"list", "quote"} PROVE Wrap(b, Rule) \in Block
  <2>1. Wrap(b, Rule) = [b EXCEPT !.wrap = Rule, !.segs = Emitted(x)]
    BY <1>4 DEF Wrap
  <2>. QED BY <1>4, <1>5, <1>8, <2>1 DEF Block, Wraps
<1>9. Ruled = IF Rule = "heading" THEN SetBlockType(b, "heading") ELSE Wrap(b, Rule)
  BY <1>1 DEF Ruled
<1>. QED BY <1>6, <1>7, <1>8, <1>9

LEMMA ParagraphType == Paragraph \in Block
<1>1. <<>> \in Seq(Seg)
  BY EmptySeq
<1>. QED BY <1>1 DEF Paragraph, Block, Wraps

LEMMA CharTypes == \A c \in {"@", "[", "#", "-", ">", " ", "peer"} : c \in Char
BY DEF Char

LEMMA SpaceType ==
    ASSUME DocTyped, Space
    PROVE  DocTyped' /\ CaretOnLeaf' /\ alive' \in {alive, FALSE}
<1>1. top \in Nat /\ depth \in 1 .. 3 /\ off \in Nat /\ blocks \in Seq(Block)
  BY DEF DocTyped
<1>2. CASE InTask /\ off = 0
  <2>1. top \in 1 .. Len(blocks)
    BY <1>2 DEF InTask
  <2>2. PICK bs, b : bs = [blocks EXCEPT ![top].checked = ~@] /\ b = [Here EXCEPT !.checked = ~Here.checked]
    OBVIOUS
  <2>3. Here \in Block
    BY <2>1, HereType
  <2>4. b \in Block
    BY <2>2, <2>3 DEF Block
  <2>5. bs = [blocks EXCEPT ![top] = b]
    BY <2>2 DEF Here
  <2>6. bs \in Seq(Block)
    BY <1>1, <2>1, <2>4, <2>5, BlockPut
  <2>7. blocks' = bs /\ Paint(blocks', top, depth, off) /\ alive' = alive
    BY <1>2, <2>2 DEF Space
  <2>8. Paint(bs, top, depth, off)
    BY <2>7 DEF Paint
  <2>. QED BY <1>1, <2>6, <2>7, <2>8, Painted
<1>3. CASE ~(InTask /\ off = 0) /\ Rule = "none"
  <2>1. Types(" ")
    BY <1>3 DEF Space
  <2>. QED BY <2>1, TypesType, CharTypes
<1>4. CASE ~(InTask /\ off = 0) /\ Rule # "none"
  <2>1. PICK bs : bs = [blocks EXCEPT ![top] = Ruled]
    OBVIOUS
  <2>2. blocks' = bs /\ Paint(bs, top, Depth(bs[top]), 0) /\ alive' = alive
    BY <1>4, <2>1 DEF Space
  <2>3. top \in 1 .. Len(blocks)
    BY <1>4 DEF Rule, OnLeaf
  <2>4. Ruled \in Block
    BY <1>4, <2>3, RuledType
  <2>5. bs \in Seq(Block) /\ bs[top] \in Block
    BY <1>1, <2>1, <2>3, <2>4, BlockPut
  <2>6. Depth(bs[top]) \in 1 .. 3 /\ 0 \in Nat
    BY <2>5, DepthType
  <2>. QED BY <1>1, <2>2, <2>5, <2>6, Painted
<1>. QED BY <1>2, <1>3, <1>4

LEMMA EnterType ==
    ASSUME DocTyped, Enter
    PROVE  DocTyped' /\ CaretOnLeaf' /\ alive' \in {alive, FALSE}
<1>1. top \in Nat /\ blocks \in Seq(Block) /\ Len(blocks) \in Nat
  BY LenProperties DEF DocTyped
<1>2. CASE top > Len(blocks)
  <2>1. Crash
    BY <1>2 DEF Enter
  <2>. QED BY <2>1, Crashed DEF Crash
<1>3. CASE ~(top > Len(blocks))
  <2>1. PICK bs, t : t = top + 1 /\ bs = InsertAt(blocks, t, Paragraph)
    OBVIOUS
  <2>2. blocks' = bs /\ Paint(bs, t, 1, 0) /\ alive' = alive
    BY <1>3, <2>1 DEF Enter
  <2>3. t \in 1 .. Len(blocks) + 1 /\ t \in Nat /\ 1 \in 1 .. 3 /\ 0 \in Nat
    BY <1>1, <1>3, <2>1
  <2>4. bs \in Seq(Block)
    BY <1>1, <2>1, <2>3, ParagraphType, InsertAtType
  <2>. QED BY <2>2, <2>3, <2>4, Painted
<1>. QED BY <1>2, <1>3

LEMMA BackspaceType ==
    ASSUME DocTyped, Backspace
    PROVE  DocTyped' /\ CaretOnLeaf' /\ alive' \in {alive, FALSE}
<1>1. CASE off = 0
  <2>1. Left /\ UNCHANGED blocks /\ alive' = alive
    BY <1>1 DEF Backspace
  <2>. QED BY <2>1, LeftType
<1>2. CASE off # 0 /\ blocks = <<>>
  <2>1. Crash
    BY <1>2 DEF Backspace
  <2>. QED BY <2>1, Crashed DEF Crash
<1>3. CASE off # 0 /\ blocks # <<>>
  <2>1. PICK o, x, segs : o = off - 1 /\ x = Here.segs /\ segs = DeleteRange(x, o, off)
    OBVIOUS
  <2>2. Puts(segs, o)
    BY <1>3, <2>1 DEF Backspace
  <2>3. off \in Nat /\ o \in Nat /\ o <= off
    BY <1>3, <2>1 DEF DocTyped
  <2>4. top \in 1 .. Len(blocks)
    BY <1>3 DEF OnLeaf, DocTyped, CaretOnLeaf
  <2>5. x \in Seq(Seg)
    BY <2>1, <2>4, HereType
  <2>6. segs \in Seq(Seg)
    BY <2>1, <2>3, <2>5, DeleteAtPlaces
  <2>. QED BY <2>2, <2>3, <2>4, <2>6, PutsType
<1>. QED BY <1>1, <1>2, <1>3

LEMMA PickType ==
    ASSUME DocTyped, picker \in {"none", "mention", "backlink"}, Pick
    PROVE  DocTyped' /\ CaretOnLeaf' /\ alive' \in {alive, FALSE}
<1>1. PICK o : o = Minus(off, IF picker = "mention" THEN 1 ELSE 2)
  OBVIOUS
<1>2. off \in Nat /\ o \in Nat /\ o <= off /\ o + 1 \in Nat
  BY <1>1 DEF DocTyped, Minus
<1>3. CASE blocks = <<>>
  <2>1. Crash
    BY <1>3 DEF Pick
  <2>. QED BY <2>1, Crashed DEF Crash
<1>4. CASE blocks # <<>>
  <2>1. PICK x, y, segs : x = Here.segs /\ y = DeleteRange(x, o, off) /\ segs = SplitAndInsert(y, o, picker)
    OBVIOUS
  <2>2. Puts(segs, o + 1)
    BY <1>1, <1>4, <2>1 DEF Pick
  <2>3. top \in 1 .. Len(blocks)
    BY <1>4 DEF OnLeaf, DocTyped, CaretOnLeaf
  <2>4. x \in Seq(Seg)
    BY <2>1, <2>3, HereType
  <2>5. y \in Seq(Seg)
    BY <1>2, <2>1, <2>4, DeleteAtPlaces
  <2>6. picker \in {"mention", "backlink"}
    BY DEF Pick
  <2>7. segs \in Seq(Seg)
    BY <1>2, <2>1, <2>5, <2>6, SplitAtPlace
  <2>. QED BY <1>2, <2>2, <2>3, <2>7, PutsType
<1>. QED BY <1>3, <1>4

\* What another client may leave of a block is a block.
LEMMA TouchedType ==
    ASSUME NEW b \in Block
    PROVE  Touched(b) \subseteq Block
<1>1. PICK q : q = b.segs
  OBVIOUS
<1>2. q \in Seq(Seg)
  BY <1>1 DEF Block
<1>3. ASSUME NEW s \in Seg PROVE [b EXCEPT !.segs = <<s>> \o @] \in Block
  <2>1. PICK e : e = <<s>>
    OBVIOUS
  <2>2. e \in Seq(Seg)
    BY <2>1
  <2>3. e \o q \in Seq(Seg)
    BY <1>2, <2>2, ConcatProperties
  <2>4. [b EXCEPT !.segs = <<s>> \o @] = [b EXCEPT !.segs = e \o q]
    BY <1>1, <2>1
  <2>. QED BY <2>3, <2>4, SegsPut
<1>4. "peer" \in Char /\ <<"peer">> \in Seq(Char)
  <2>1. "peer" \in Char
    BY DEF Char
  <2>. QED BY <2>1
<1>5. Text(<<"peer">>, {}) \in Seg /\ Atom("mention") \in Seg
  BY <1>4, TextSeg, AtomSeg
<1>6. ASSUME q # <<>>, NEW t \in Seq(Char) PROVE [b EXCEPT !.segs[1].text = t] \in Block
  <2>1. 1 \in 1 .. Len(q)
    BY <1>2, <1>6, EmptySeq
  <2>2. PICK x : x = [q[1] EXCEPT !.text = t]
    OBVIOUS
  <2>20. q[1] \in Seg
    BY <1>2, <2>1, ElementOfSeq
  <2>3. x \in Seg
    BY <1>6, <2>20, <2>2 DEF Seg
  <2>4. [q EXCEPT ![1] = x] \in Seq(Seg)
    BY <1>2, <2>1, <2>3
  <2>5. [b EXCEPT !.segs[1].text = t] = [b EXCEPT !.segs = [q EXCEPT ![1] = x]]
    BY <1>1, <2>2
  <2>. QED BY <2>4, <2>5, SegsPut
<1>7. ASSUME q # <<>>, IsText(q[1]), q[1].text # <<>>
      PROVE  \A t \in {Tail(q[1].text), <<"peer">> \o q[1].text, Append(q[1].text, "peer")} : t \in Seq(Char)
  <2>1. 1 \in 1 .. Len(q)
    BY <1>2, <1>7, EmptySeq
  <2>2. PICK t : t = q[1].text
    OBVIOUS
  <2>20. q[1] \in Seg
    BY <1>2, <2>1, ElementOfSeq
  <2>3. t \in Seq(Char) /\ t # <<>>
    BY <1>7, <2>20, <2>2, SegTypes
  <2>4. Tail(t) \in Seq(Char)
    BY <2>3, HeadTailProperties
  <2>5. <<"peer">> \o t \in Seq(Char)
    BY <1>4, <2>3, ConcatProperties
  <2>6. Append(t, "peer") \in Seq(Char)
    BY <1>4, <2>3, AppendProperties
  <2>. QED BY <2>2, <2>4, <2>5, <2>6
<1>8. ASSUME NEW x \in Touched(b) PROVE x \in Block
  <2>1. CASE x \in {[b EXCEPT !.segs = <<Text(<<"peer">>, {})>> \o @], [b EXCEPT !.segs = <<Atom("mention")>> \o @]}
    BY <1>3, <1>5, <2>1
  <2>2. CASE x \notin {[b EXCEPT !.segs = <<Text(<<"peer">>, {})>> \o @], [b EXCEPT !.segs = <<Atom("mention")>> \o @]}
    <3>1. PICK t : /\ t \in IF q # <<>> /\ IsText(q[1]) /\ q[1].text # <<>>
                           THEN {Tail(q[1].text), <<"peer">> \o q[1].text, Append(q[1].text, "peer")} ELSE {}
                   /\ x = [b EXCEPT !.segs[1].text = t]
      BY <1>1, <2>2 DEF Touched
    <3>2. q # <<>> /\ IsText(q[1]) /\ q[1].text # <<>>
      BY <3>1
    <3>3. t \in Seq(Char)
      BY <1>7, <3>1, <3>2
    <3>. QED BY <1>6, <3>1, <3>2, <3>3
  <2>. QED BY <2>1, <2>2
<1>. QED BY <1>8

LEMMA PeerWritesType ==
    ASSUME DocTyped, PeerWrites
    PROVE  DocTyped' /\ CaretOnLeaf' /\ alive' = alive
<1>1. blocks \in Seq(Block) /\ Len(blocks) \in Nat
  BY LenProperties DEF DocTyped
<1>2. blocks' \in Seq(Block)
  <2>1. CASE \E i \in 1 .. Len(blocks) : \E b \in Touched(blocks[i]) : blocks' = [blocks EXCEPT ![i] = b]
    <3>1. PICK i \in 1 .. Len(blocks) : \E b \in Touched(blocks[i]) : blocks' = [blocks EXCEPT ![i] = b]
      BY <2>1
    <3>2. PICK b \in Touched(blocks[i]) : blocks' = [blocks EXCEPT ![i] = b]
      BY <3>1
    <3>3. blocks[i] \in Block
      BY <1>1, ElementOfSeq
    <3>4. b \in Block
      BY <3>3, TouchedType
    <3>. QED BY <1>1, <3>2, <3>4, BlockPut
  <2>2. CASE \E i \in 1 .. Len(blocks) : blocks' = RemoveAt(blocks, i)
    BY <1>1, <2>2, RemoveAtType
  <2>3. CASE \E i \in 1 .. Len(blocks) + 1 : blocks' = InsertAt(blocks, i, Paragraph)
    BY <1>1, <2>3, ParagraphType, InsertAtType
  <2>. QED BY <2>1, <2>2, <2>3 DEF PeerWrites
<1>3. PICK bs : bs = blocks'
  OBVIOUS
<1>4. bs \in Seq(Block) /\ blocks' = bs /\ alive' = alive /\ Paint(bs, top, depth, off)
  BY <1>2, <1>3 DEF PeerWrites
<1>5. top \in Nat /\ depth \in 1 .. 3 /\ off \in Nat
  BY DEF DocTyped
<1>. QED BY <1>4, <1>5, Painted

LEMMA EditInitType == EditInit => EditTypeOK
<1>. SUFFICES ASSUME EditInit PROVE EditTypeOK
  OBVIOUS
<1>1. PICK b \in {[Paragraph EXCEPT !.wrap = "task"],
                  [Paragraph EXCEPT !.segs = <<Atom("mention"), Text(<<"peer">>, {})>>]} : blocks = <<b, Paragraph>>
  BY DEF EditInit
<1>2. <<Atom("mention"), Text(<<"peer">>, {})>> \in Seq(Seg)
  <2>1. "peer" \in Char
    BY DEF Char
  <2>2. <<"peer">> \in Seq(Char)
    BY <2>1
  <2>3. Text(<<"peer">>, {}) \in Seg /\ Atom("mention") \in Seg
    BY <2>2, TextSeg, AtomSeg
  <2>. QED BY <2>3
<1>3. b \in Block
  <2>1. [Paragraph EXCEPT !.wrap = "task"] \in Block
    BY ParagraphType DEF Block, Wraps
  <2>2. [Paragraph EXCEPT !.segs = <<Atom("mention"), Text(<<"peer">>, {})>>] \in Block
    BY <1>2, ParagraphType, SegsPut
  <2>. QED BY <2>1, <2>2
<1>4. blocks \in Seq(Block) /\ Len(blocks) = 2 /\ blocks[1] = b
  BY <1>1, <1>3, ParagraphType
<1>5. top = 1 /\ depth = Depth(b) /\ off = 0
  BY <1>4 DEF EditInit
<1>6. Depth(b) \in 1 .. 3 /\ TextLen(b) \in Nat
  BY <1>3, DepthType, LeafTextType
<1>7. CaretOnLeaf
  BY <1>4, <1>5, <1>6 DEF CaretOnLeaf, OnLeaf, Here
<1>8. 0 \in 0 .. Len(Letters) /\ 0 \in 0 .. MaxKeys /\ 0 \in 0 .. MaxPeer
  <2>1. Len(Letters) \in Nat /\ MaxKeys \in Nat /\ MaxPeer \in Nat
    BY EditAssumption, LenProperties
  <2>. QED BY <2>1
<1>9. top \in Nat /\ depth \in 1 .. 3 /\ off \in Nat
  BY <1>5, <1>6
<1>. QED BY <1>4, <1>7, <1>8, <1>9 DEF EditInit, EditTypeOK

\* The parts of the state beside the document and the caret.
RestTyped ==
    /\ mode \in {"insert", "normal"} /\ link \in BOOLEAN
    /\ picker \in {"none", "mention", "backlink"}
    /\ alive \in BOOLEAN
    /\ typed \in 0 .. Len(Letters)
    /\ keys \in 0 .. MaxKeys /\ peer \in 0 .. MaxPeer

LEMMA LetterType ==
    ASSUME NEW i \in 1 .. Len(Letters)
    PROVE  Letters[i] \in Char
<1>1. i \in DOMAIN Letters
  BY EditAssumption
<1>. QED BY <1>1 DEF Char, Range

LEMMA EditNextType ==
    ASSUME EditTypeOK, EditNext
    PROVE  EditTypeOK'
<1>1. DocTyped /\ RestTyped
  BY DEF EditTypeOK, DocTyped, RestTyped
<1>. USE <1>1
<1>2. SUFFICES DocTyped' /\ CaretOnLeaf' /\ RestTyped'
  BY DEF EditTypeOK, DocTyped, RestTyped
<1>3. Len(Letters) \in Nat /\ MaxKeys \in Nat /\ MaxPeer \in Nat
  BY EditAssumption, LenProperties
<1>4. ASSUME Pressed PROVE alive /\ keys' \in 0 .. MaxKeys
  BY <1>3, <1>4 DEF Pressed, RestTyped
<1>5. top \in Nat /\ depth \in 1 .. 3 /\ off \in Nat
  BY DEF DocTyped
<1>6. CASE TypeLetter
  <2>1. typed' \in 1 .. Len(Letters) /\ Types(Letters[typed'])
    BY <1>3, <1>6 DEF TypeLetter, RestTyped
  <2>2. PICK c : c = Letters[typed']
    OBVIOUS
  <2>3. c \in Char /\ Types(c)
    BY <2>1, <2>2, LetterType
  <2>4. DocTyped' /\ CaretOnLeaf' /\ alive' \in {alive, FALSE}
    BY <2>3, TypesType
  <2>5. RestTyped'
    <3>1. typed' \in 0 .. Len(Letters)
      BY <1>3, <2>1
    <3>. QED BY <1>4, <1>6, <2>4, <3>1 DEF TypeLetter, RestTyped
  <2>. QED BY <2>4, <2>5
<1>7. CASE Space
  <2>1. DocTyped' /\ CaretOnLeaf' /\ alive' \in {alive, FALSE}
    BY <1>7, SpaceType
  <2>2. RestTyped'
    BY <1>4, <1>7, <2>1 DEF Space, InsertKey, RestTyped
  <2>. QED BY <2>1, <2>2
<1>8. CASE Enter
  <2>1. DocTyped' /\ CaretOnLeaf' /\ alive' \in {alive, FALSE}
    BY <1>8, EnterType
  <2>2. RestTyped'
    BY <1>4, <1>8, <2>1 DEF Enter, InsertKey, RestTyped
  <2>. QED BY <2>1, <2>2
<1>9. CASE Move
  <2>1. UNCHANGED blocks /\ (Left \/ Right \/ Vertical(Leaf - 1) \/ Vertical(Leaf + 1))
    BY <1>9 DEF Move
  <2>2. DocTyped' /\ CaretOnLeaf'
    BY <2>1, LeftType, RightType, VerticalType
  <2>3. RestTyped'
    BY <1>4, <1>9 DEF Move, RestTyped
  <2>. QED BY <2>2, <2>3
<1>10. CASE Backspace
  <2>1. DocTyped' /\ CaretOnLeaf' /\ alive' \in {alive, FALSE}
    BY <1>10, BackspaceType
  <2>2. RestTyped'
    BY <1>4, <1>10, <2>1 DEF Backspace, InsertKey, RestTyped
  <2>. QED BY <2>1, <2>2
<1>11. CASE Mark
  <2>1. DocTyped' /\ CaretOnLeaf' /\ alive' = alive
    BY <1>11, ToggleType DEF Mark
  <2>2. RestTyped'
    BY <1>4, <1>11, <2>1 DEF Mark, RestTyped
  <2>. QED BY <2>1, <2>2
<1>12. CASE AskLink
  <2>1. DocTyped' /\ CaretOnLeaf'
    BY <1>5, <1>12, PaintSame DEF AskLink
  <2>2. RestTyped'
    BY <1>4, <1>12 DEF AskLink, RestTyped
  <2>. QED BY <2>1, <2>2
<1>13. CASE EndLink
  <2>1. Toggle("link") \/ (UNCHANGED <<blocks, alive>> /\ Paint(blocks, top, depth, off))
    BY <1>13 DEF EndLink
  <2>2. DocTyped' /\ CaretOnLeaf' /\ alive' = alive
    <3>1. CASE Toggle("link")
      BY <3>1, ToggleType
    <3>2. CASE UNCHANGED <<blocks, alive>> /\ Paint(blocks, top, depth, off)
      BY <1>5, <3>2, PaintSame
    <3>. QED BY <2>1, <3>1, <3>2
  <2>3. RestTyped'
    BY <1>4, <1>13, <2>2 DEF EndLink, RestTyped
  <2>. QED BY <2>2, <2>3
<1>14. CASE SwitchMode
  <2>1. DocTyped' /\ CaretOnLeaf'
    BY <1>5, <1>14, PaintSame DEF SwitchMode
  <2>2. RestTyped'
    BY <1>4, <1>14 DEF SwitchMode, RestTyped
  <2>. QED BY <2>1, <2>2
<1>15. CASE Pick
  <2>1. DocTyped' /\ CaretOnLeaf' /\ alive' \in {alive, FALSE}
    BY <1>15, PickType DEF RestTyped
  <2>2. RestTyped'
    BY <1>15, <2>1 DEF Pick, RestTyped
  <2>. QED BY <2>1, <2>2
<1>16. CASE DismissPicker
  BY <1>16 DEF DismissPicker, DocTyped, RestTyped, EditTypeOK, CaretOnLeaf, OnLeaf, Here, caret
<1>17. CASE PeerWrites
  <2>1. DocTyped' /\ CaretOnLeaf' /\ alive' = alive
    BY <1>17, PeerWritesType
  <2>2. RestTyped'
    BY <1>3, <1>17, <2>1 DEF PeerWrites, RestTyped
  <2>. QED BY <2>1, <2>2
<1>18. ASSUME NEW c \in Triggers, TypeTrigger(c) PROVE DocTyped' /\ CaretOnLeaf' /\ RestTyped'
  <2>1. c \in Char
    BY EditAssumption, CharTypes
  <2>2. DocTyped' /\ CaretOnLeaf' /\ alive' \in {alive, FALSE}
    BY <1>18, <2>1, TypesType DEF TypeTrigger
  <2>3. picker' \in {picker, "mention", "backlink"}
    BY <1>18 DEF TypeTrigger
  <2>4. RestTyped'
    BY <1>4, <1>18, <2>2, <2>3 DEF TypeTrigger, InsertKey, RestTyped
  <2>. QED BY <2>2, <2>4
<1>. QED BY <1>6, <1>7, <1>8, <1>9, <1>10, <1>11, <1>12, <1>13, <1>14, <1>15, <1>16, <1>17, <1>18 DEF EditNext

LEMMA EditStutters ==
    ASSUME EditTypeOK, UNCHANGED editVars
    PROVE  EditTypeOK'
BY DEF editVars, caret, EditTypeOK, CaretOnLeaf, OnLeaf, Here

\* Whatever keys and other clients do, the document stays a document of runs
\* and atoms, and the caret stands on a leaf, within its text (refresh_view
\* and the primitives of editing.py).
THEOREM EditTypeCorrect == EditSpec => []EditTypeOK
<1>1. EditInit => EditTypeOK
  BY EditInitType
<1>2. EditTypeOK /\ [EditNext]_editVars => EditTypeOK'
  BY EditNextType, EditStutters
<1>. QED BY <1>1, <1>2, PTL DEF EditSpec

\* The three primitives of editing.py work on places, on every document and
\* for every range: of the runs a key or another client may have left.
THEOREM PrimitivesAct == EditSpec => []PrimitivesAtPlaces
<1>1. EditTypeOK => PrimitivesAtPlaces
  <2>. SUFFICES ASSUME EditTypeOK, OnLeaf(blocks),
                       NEW a \in 0 .. Len(Places(Here.segs)), NEW b \in 0 .. Len(Places(Here.segs)), a <= b
                PROVE  /\ Places(DeleteRange(Here.segs, a, b)) = Deleted(Places(Here.segs), a, b)
                       /\ Places(SplitAndInsert(Here.segs, a, "mention"))
                          = InsertAt(Places(Here.segs), a + 1, <<"mention", {}>>)
                       /\ Places(ToggleMark(Here.segs, a, b, "strong")) = Toggled(Places(Here.segs), a, b, "strong")
    BY DEF PrimitivesAtPlaces
  <2>1. PICK segs : segs = Here.segs
    OBVIOUS
  <2>2. segs \in Seq(Seg)
    BY <2>1, HereType DEF EditTypeOK, DocTyped, OnLeaf
  <2>3. Len(Places(segs)) \in Nat
    BY <2>2, PlacesType
  <2>4. a \in Nat /\ b \in Nat /\ a <= Len(Places(segs))
    BY <2>1, <2>3
  <2>5. Places(DeleteRange(segs, a, b)) = Deleted(Places(segs), a, b)
    BY <2>2, <2>4, DeleteAtPlaces
  <2>6. Places(SplitAndInsert(segs, a, "mention")) = InsertAt(Places(segs), a + 1, <<"mention", {}>>)
    BY <2>2, <2>4, SplitAtPlace
  <2>7. Places(ToggleMark(segs, a, b, "strong")) = Toggled(Places(segs), a, b, "strong")
    BY <2>2, <2>4, ToggleAtPlaces
  <2>. QED BY <2>1, <2>5, <2>6, <2>7
<1>. QED BY <1>1, EditTypeCorrect, PTL

------------------------------------------------------------------------------
(* A letter that is typed.                                                 *)

LEMMA TextOfAppend ==
    ASSUME NEW u \in Seq(Seg), NEW s \in Seg
    PROVE  TextOf(Append(u, s)) = TextOf(u) \o TextMap[s]
<1>1. \A x \in Seg : TextMap[x] \in Seq(Char)
  BY TextMapType
<1>2. FlatMap(TextMap, Append(u, s)) = FlatMap(TextMap, u) \o TextMap[s]
  BY <1>1, FlatMapAppend
<1>. QED BY <1>2 DEF TextOf

LEMMA TextOfConcat ==
    ASSUME NEW u \in Seq(Seg), NEW v \in Seq(Seg)
    PROVE  TextOf(u \o v) = TextOf(u) \o TextOf(v)
<1>1. FlatMap(TextMap, u \o v) = FlatMap(TextMap, u) \o FlatMap(TextMap, v)
  BY TextMapType, FlatMapConcat
<1>. QED BY <1>1 DEF TextOf

LEMMA TextOfEmpty == TextOf(<<>>) = <<>>
BY FlatMapEmpty DEF TextOf

\* Where only runs are, the text counts the places.
LEMMA TextCountsPlaces ==
    ASSUME NEW segs \in Seq(Seg), \A k \in 1 .. Len(segs) : IsText(segs[k])
    PROVE  Len(TextOf(segs)) = Len(Places(segs))
<1>. DEFINE T == {u \in Seq(Seg) : (\A k \in 1 .. Len(u) : IsText(u[k])) => Len(TextOf(u)) = Len(Places(u))}
<1>1. <<>> \in T
  <2>1. <<>> \in Seq(Seg)
    BY EmptySeq
  <2>. QED BY <2>1, TextOfEmpty, PlacesEmpty
<1>2. ASSUME NEW u \in Seq(Seg), NEW e \in Seg, u \in T PROVE Append(u, e) \in T
  <2>1. PICK w : w = Append(u, e)
    OBVIOUS
  <2>2. w \in Seq(Seg) /\ Len(w) = Len(u) + 1 /\ Len(u) \in Nat
        /\ (\A k \in 1 .. Len(u) : w[k] = u[k]) /\ w[Len(u) + 1] = e
    BY <2>1, AppendProperties, LenProperties
  <2>. SUFFICES ASSUME \A k \in 1 .. Len(w) : IsText(w[k]) PROVE Len(TextOf(w)) = Len(Places(w))
    BY <2>1, <2>2
  <2>3. IsText(e) /\ \A k \in 1 .. Len(u) : IsText(u[k])
    BY <2>2
  <2>4. Len(TextOf(u)) = Len(Places(u))
    BY <1>2, <2>3
  <2>5. PICK x, t : x = TextOf(u) /\ t = e.text
    OBVIOUS
  <2>6. x \in Seq(Char) /\ t \in Seq(Char) /\ TextMap[e] = t /\ Width(e) = Len(t)
    BY <2>3, <2>5, TextOfType, SegTypes DEF TextMap, Width
  <2>7. Len(x \o t) = Len(x) + Len(t)
    BY <2>6, ConcatProperties
  <2>8. TextOf(w) = x \o t
    BY <2>1, <2>5, <2>6, TextOfAppend
  <2>9. Len(Places(w)) = Len(Places(u)) + Width(e)
    BY <2>1, PlacesAppend
  <2>. QED BY <2>4, <2>5, <2>6, <2>7, <2>8, <2>9
<1>3. Seq(Seg) \subseteq T
  <2>. HIDE DEF T
  <2>. QED BY <1>1, <1>2, SeqInduct
<1>. QED BY <1>3

\* Before a run with no atom before it, the place counts the text.
LEMMA PosCountsText ==
    ASSUME NEW segs \in Seq(Seg), NEW i \in 1 .. Len(segs), \A k \in 1 .. i : IsText(segs[k])
    PROVE  Pos(segs, i) = Len(TextOf(SubSeq(segs, 1, i - 1)))
<1>1. PICK u : u = SubSeq(segs, 1, i - 1)
  OBVIOUS
<1>2. Len(segs) \in Nat
  BY LenProperties
<1>3. u \in Seq(Seg) /\ Len(u) = i - 1
  BY <1>1, Around
<1>4. \A k \in 1 .. Len(u) : u[k] = segs[k]
  <2>. TAKE k \in 1 .. Len(u)
  <2>1. i - 1 \in Int /\ k \in 1 .. i - 1 /\ \A j \in 1 .. i - 1 : segs[j] \in Seg
    BY <1>2, <1>3, ElementOfSeq
  <2>2. PICK n : n = i - 1
    OBVIOUS
  <2>3. \A j \in 1 .. n - 1 + 1 : SubSeq(segs, 1, n)[j] = segs[1 + j - 1]
    BY <2>1, <2>2, SubSeqProperties
  <2>4. k \in 1 .. n - 1 + 1 /\ 1 + k - 1 = k
    BY <1>2, <2>1, <2>2
  <2>. QED BY <1>1, <2>2, <2>3, <2>4
<1>5. \A k \in 1 .. Len(u) : k \in 1 .. i
  BY <1>2, <1>3
<1>6. Len(TextOf(u)) = Len(Places(u))
  BY <1>3, <1>4, <1>5, TextCountsPlaces
<1>7. i \in 1 .. Len(segs) + 1
  BY <1>2
<1>. QED BY <1>1, <1>6, <1>7, PosIsPlaces

\* With no atom before the run of the caret, the caret is in the first run
\* that covers it.
LEMMA CaretInRun ==
    ASSUME NEW segs \in Seq(Seg), NEW o \in Nat, NEW i \in Covering(segs, o), \A k \in 1 .. i : IsText(segs[k])
    PROVE  /\ CanInsert(segs, o) /\ Covering(segs, o) # {}
           /\ \A k \in 1 .. First(Covering(segs, o)) : IsText(segs[k])
<1>1. PICK f : f = First(Covering(segs, o))
  OBVIOUS
<1>2. Covering(segs, o) \in SUBSET Nat
  BY DEF Covering
<1>3. f \in Covering(segs, o) /\ \A j \in Covering(segs, o) : f <= j
  BY <1>1, <1>2, FirstIsLeast
<1>4. f \in 1 .. Len(segs) /\ i \in 1 .. Len(segs) /\ f <= i /\ Len(segs) \in Nat
  BY <1>3, LenProperties DEF Covering
<1>5. \A k \in 1 .. f : IsText(segs[k])
  BY <1>4
<1>6. o >= Pos(segs, f)
  <2>1. CASE f = 1
    <3>1. Pos(segs, 1) = 0
      BY PosFacts
    <3>. QED BY <2>1, <3>1
  <2>2. CASE f # 1
    <3>1. PICK g : g = f - 1
      OBVIOUS
    <3>2. g \in 1 .. Len(segs) /\ g + 1 = f /\ g \in 1 .. f /\ ~(f <= g)
      BY <1>4, <2>2, <3>1
    <3>3. g \notin Covering(segs, o) /\ IsText(segs[g])
      BY <1>3, <1>5, <3>2
    <3>4. ~(o <= Pos(segs, g) + Len(segs[g].text))
      BY <3>2, <3>3 DEF Covering
    <3>5. /\ Pos(segs, g) \in Nat /\ Width(segs[g]) \in Nat
          /\ Pos(segs, g + 1) = Pos(segs, g) + Width(segs[g])
      BY <3>2, PosFacts
    <3>6. Width(segs[g]) = Len(segs[g].text)
      BY <3>3 DEF Width
    <3>. QED BY <3>2, <3>4, <3>5, <3>6
  <2>. QED BY <2>1, <2>2
<1>. QED BY <1>1, <1>5, <1>6 DEF CanInsert

\* The text of segments, one of which gets another text.
LEMMA TextAround ==
    ASSUME NEW segs \in Seq(Seg), NEW i \in 1 .. Len(segs), NEW x \in Seg, IsText(segs[i]), IsText(x)
    PROVE  LET pre == TextOf(SubSeq(segs, 1, i - 1))
               rest == TextOf(SubSeq(segs, i + 1, Len(segs)))
           IN /\ pre \in Seq(Char) /\ rest \in Seq(Char)
              /\ TextOf(segs) = (pre \o segs[i].text) \o rest
              /\ TextOf([segs EXCEPT ![i] = x]) = (pre \o x.text) \o rest
<1>1. PICK p, q, s : p = SubSeq(segs, 1, i - 1) /\ q = SubSeq(segs, i + 1, Len(segs)) /\ s = segs[i]
  OBVIOUS
<1>2. p \in Seq(Seg) /\ q \in Seq(Seg) /\ s \in Seg /\ Len(p) = i - 1 /\ Len(q) = Len(segs) - i
  BY <1>1, Around
<1>3. segs = Append(p, s) \o q
  <2>1. SubSeq(segs, 1, i) = Append(SubSeq(segs, 1, i - 1), segs[i])
    BY Around
  <2>2. segs = SubSeq(segs, 1, i) \o SubSeq(segs, i + 1, Len(segs))
    BY Around
  <2>. QED BY <1>1, <2>1, <2>2
<1>4. [segs EXCEPT ![i] = x] = Append(p, x) \o q
  <2>1. PICK n, w, v : n = Len(segs) /\ w = [segs EXCEPT ![i] = x] /\ v = Append(p, x) \o q
    OBVIOUS
  <2>2. n \in Nat /\ i \in 1 .. n /\ w \in Seq(Seg) /\ Len(w) = n
        /\ \A k \in 1 .. n : w[k] = IF k = i THEN x ELSE segs[k]
    BY <2>1, LenProperties
  <2>3. PICK a, b : a = Append(p, s) /\ b = Append(p, x)
    OBVIOUS
  <2>4. a \in Seq(Seg) /\ Len(a) = i /\ (\A k \in 1 .. i - 1 : a[k] = p[k]) /\ a[i] = s
    <3>1. a \in Seq(Seg) /\ Len(a) = Len(p) + 1 /\ (\A k \in 1 .. Len(p) : a[k] = p[k]) /\ a[Len(p) + 1] = s
      BY <1>2, <2>3, AppendProperties
    <3>2. Len(p) + 1 = i
      BY <1>2, <2>2
    <3>. QED BY <1>2, <3>1, <3>2
  <2>5. b \in Seq(Seg) /\ Len(b) = i /\ (\A k \in 1 .. i - 1 : b[k] = p[k]) /\ b[i] = x
    <3>1. b \in Seq(Seg) /\ Len(b) = Len(p) + 1 /\ (\A k \in 1 .. Len(p) : b[k] = p[k]) /\ b[Len(p) + 1] = x
      BY <1>2, <2>3, AppendProperties
    <3>2. Len(p) + 1 = i
      BY <1>2, <2>2
    <3>. QED BY <1>2, <3>1, <3>2
  <2>6. PICK y : y = a \o q
    OBVIOUS
  <2>7. \A k \in 1 .. Len(a) + Len(q) : y[k] = IF k <= Len(a) THEN a[k] ELSE q[k - Len(a)]
    BY <1>2, <2>4, <2>6, ConcatProperties
  <2>8. v \in Seq(Seg) /\ Len(v) = Len(b) + Len(q)
        /\ \A k \in 1 .. Len(b) + Len(q) : v[k] = IF k <= Len(b) THEN b[k] ELSE q[k - Len(b)]
    <3>1. b \in Seq(Seg) /\ q \in Seq(Seg) /\ v = b \o q
      BY <1>2, <2>1, <2>3, <2>5
    <3>. QED BY <3>1, ConcatProperties
  <2>9. Len(a) + Len(q) = n /\ Len(b) + Len(q) = n
    BY <1>2, <2>1, <2>2, <2>4, <2>5
  <2>10. y = segs
    BY <1>3, <2>3, <2>6
  <2>11. ASSUME NEW k \in 1 .. n PROVE w[k] = v[k]
    <3>1. segs[k] = IF k <= i THEN a[k] ELSE q[k - i]
      BY <2>4, <2>7, <2>9, <2>10
    <3>2. v[k] = IF k <= i THEN b[k] ELSE q[k - i]
      BY <2>5, <2>8, <2>9
    <3>3. w[k] = IF k = i THEN x ELSE segs[k]
      BY <2>2
    <3>4. CASE k = i
      BY <2>2, <2>5, <3>2, <3>3, <3>4
    <3>5. CASE k < i
      <4>1. k \in 1 .. i - 1
        BY <2>2, <3>5
      <4>. QED BY <2>2, <2>4, <2>5, <3>1, <3>2, <3>3, <3>5, <4>1
    <3>6. CASE k > i
      BY <2>2, <3>1, <3>2, <3>3, <3>6
    <3>. QED BY <2>2, <3>4, <3>5, <3>6
  <2>12. w = v
    BY <2>2, <2>8, <2>9, <2>11, SeqEqual
  <2>. QED BY <2>1, <2>12
<1>5. ASSUME NEW y \in Seg, IsText(y)
      PROVE  TextOf(Append(p, y) \o q) = (TextOf(p) \o y.text) \o TextOf(q)
  <2>1. PICK a : a = Append(p, y)
    OBVIOUS
  <2>2. a \in Seq(Seg)
    BY <1>2, <2>1, AppendProperties
  <2>3. TextOf(a) = TextOf(p) \o TextMap[y]
    BY <1>2, <2>1, TextOfAppend
  <2>4. TextMap[y] = y.text
    BY <1>5 DEF TextMap
  <2>5. TextOf(a \o q) = TextOf(a) \o TextOf(q)
    BY <1>2, <2>2, TextOfConcat
  <2>. QED BY <2>1, <2>3, <2>4, <2>5
<1>6. TextOf(p) \in Seq(Char) /\ TextOf(q) \in Seq(Char)
  BY <1>2, TextOfType
<1>7. TextOf(segs) = (TextOf(p) \o s.text) \o TextOf(q)
  BY <1>1, <1>2, <1>3, <1>5
<1>8. TextOf([segs EXCEPT ![i] = x]) = (TextOf(p) \o x.text) \o TextOf(q)
  BY <1>4, <1>5
<1>. QED BY <1>1, <1>6, <1>7, <1>8

\* A character put into the run of the caret.
Lands(segs, o, c) ==
    /\ TextOf(InsertText(segs, o, c)) = InsertAt(TextOf(segs), o + 1, c)
    /\ Len(TextOf(InsertText(segs, o, c))) = Len(TextOf(segs)) + 1

LEMMA InsertInRun ==
    ASSUME NEW segs \in Seq(Seg), NEW o \in Nat, NEW c \in Char, NEW i \in Covering(segs, o),
           \A k \in 1 .. i : IsText(segs[k])
    PROVE  Lands(segs, o, c)
<1>1. PICK f, t, k : f = First(Covering(segs, o)) /\ t = segs[f].text /\ k = o - Pos(segs, f)
  OBVIOUS
<1>2. /\ CanInsert(segs, o) /\ Covering(segs, o) # {}
      /\ \A j \in 1 .. f : IsText(segs[j])
  BY <1>1, CaretInRun
<1>3. /\ f \in 1 .. Len(segs) /\ segs[f] \in Seg /\ IsText(segs[f]) /\ Pos(segs, f) \in Nat
      /\ k \in 0 .. Len(t)
  BY <1>1, <1>2, CoveringFacts
<1>4. t \in Seq(Char) /\ Len(t) \in Nat
  BY <1>1, <1>3, SegTypes, LenProperties
<1>5. k \in Nat /\ k <= Len(t) /\ Pos(segs, f) + k = o /\ k + 1 \in 1 .. Len(t) + 1
  BY <1>1, <1>3, <1>4
<1>6. PICK t1, t2, e : t1 = SubSeq(t, 1, k) /\ t2 = SubSeq(t, k + 1, Len(t)) /\ e = <<c>>
  OBVIOUS
<1>7. t1 \in Seq(Char) /\ Len(t1) = k /\ t2 \in Seq(Char) /\ t1 \o t2 = t
  BY <1>4, <1>5, <1>6, TwoParts
<1>8. e \in Seq(Char) /\ Len(e) = 1
  BY <1>6
<1>9. PICK v : v = InsertAt(t, k + 1, c)
  OBVIOUS
<1>10. v \in Seq(Char)
  <2>1. PICK n : n = k + 1
    OBVIOUS
  <2>2. n \in 1 .. Len(t) + 1
    BY <1>5, <2>1
  <2>. QED BY <1>4, <1>9, <2>1, <2>2, InsertAtType
<1>11. v = (t1 \o e) \o t2
  <2>1. InsertAt(t1 \o t2, Len(t1) + 1, c) = (t1 \o <<c>>) \o t2
    BY <1>7, InsertBetween
  <2>. QED BY <1>6, <1>7, <1>9, <2>1
<1>12. PICK x : x = [segs[f] EXCEPT !.text = v]
  OBVIOUS
<1>13. x \in Seg /\ IsText(x) /\ x.text = v
  BY <1>3, <1>10, <1>12 DEF Seg, IsText
<1>14. InsertText(segs, o, c) = [segs EXCEPT ![f] = x]
  BY <1>1, <1>2, <1>9, <1>12 DEF InsertText
<1>15. PICK p, q : p = TextOf(SubSeq(segs, 1, f - 1)) /\ q = TextOf(SubSeq(segs, f + 1, Len(segs)))
  OBVIOUS
<1>16. /\ p \in Seq(Char) /\ q \in Seq(Char)
       /\ TextOf(segs) = (p \o t) \o q
       /\ TextOf([segs EXCEPT ![f] = x]) = (p \o v) \o q
  BY <1>1, <1>3, <1>13, <1>15, TextAround
<1>17. Len(p) = Pos(segs, f)
  BY <1>2, <1>3, <1>15, PosCountsText
<1>18. PICK L, R : L = p \o t1 /\ R = t2 \o q
  OBVIOUS
<1>19. L \in Seq(Char) /\ Len(L) = Len(p) + Len(t1)
  BY <1>7, <1>16, <1>18, ConcatProperties
<1>20. R \in Seq(Char)
  BY <1>7, <1>16, <1>18, ConcatProperties
<1>21. Len(L) = o
  BY <1>5, <1>7, <1>17, <1>19
<1>22. TextOf(segs) = L \o R
  <2>1. Regrouped(p, t1, t2, q)
    BY <1>7, <1>16, Regroup
  <2>. QED BY <1>7, <1>16, <1>18, <2>1 DEF Regrouped
<1>23. TextOf(InsertText(segs, o, c)) = (L \o e) \o R
  <2>1. RegroupedWith(p, t1, e, t2, q)
    BY <1>7, <1>8, <1>16, RegroupWith
  <2>. QED BY <1>11, <1>14, <1>16, <1>18, <2>1 DEF RegroupedWith
<1>24. InsertAt(L \o R, o + 1, c) = (L \o e) \o R
  <2>1. InsertAt(L \o R, Len(L) + 1, c) = (L \o <<c>>) \o R
    BY <1>19, <1>20, InsertBetween
  <2>. QED BY <1>6, <1>21, <2>1
<1>25. Len((L \o e) \o R) = Len(L \o R) + 1
  <2>1. PICK u : u = L \o e
    OBVIOUS
  <2>20. L \in Seq(Char)
    BY <1>19
  <2>21. u \in Seq(Char) /\ Len(u) = Len(L) + Len(e)
    BY <1>8, <2>20, <2>1, ConcatProperties
  <2>2. u \in Seq(Char) /\ Len(u) = Len(L) + 1
    BY <1>8, <2>21
  <2>3. Len(u \o R) = Len(u) + Len(R)
    BY <1>20, <2>2, ConcatProperties
  <2>4. Len(L \o R) = Len(L) + Len(R)
    BY <1>19, <1>20, ConcatProperties
  <2>5. Len(L) \in Nat /\ Len(R) \in Nat
    BY <1>19, <1>20, LenProperties
  <2>. QED BY <2>1, <2>2, <2>3, <2>4, <2>5
<1>. QED BY <1>22, <1>23, <1>24, <1>25 DEF Lands

\* The first character of a leaf that holds nothing.
LEMMA InsertInNothing ==
    ASSUME NEW c \in Char
    PROVE  CanInsert(<<>>, 0) /\ Lands(<<>>, 0, c)
<1>1. <<>> \in Seq(Seg) /\ <<>> \in Seq(Char) /\ Len(<<>>) = 0
  BY EmptySeq
<1>2. Covering(<<>>, 0) = {}
  BY <1>1 DEF Covering
<1>3. PICK x, e : x = Text(<<c>>, {}) /\ e = <<c>>
  OBVIOUS
<1>4. e \in Seq(Char) /\ Len(e) = 1
  BY <1>3
<1>5. x \in Seg /\ IsText(x) /\ x.text = e
  BY <1>3, <1>4, TextSeg
<1>6. InsertText(<<>>, 0, c) = Append(<<>>, x)
  BY <1>2, <1>3 DEF InsertText
<1>7. TextOf(Append(<<>>, x)) = TextOf(<<>>) \o TextMap[x]
  BY <1>1, <1>5, TextOfAppend
<1>8. TextMap[x] = e
  BY <1>5 DEF TextMap
<1>9. <<>> \o e = e
  BY <1>4, ConcatEmptySeq
<1>10. TextOf(InsertText(<<>>, 0, c)) = e
  BY <1>6, <1>7, <1>8, <1>9, TextOfEmpty
<1>11. InsertAt(<<>>, 0 + 1, c) = e
  <2>1. PICK y : y = <<>>
    OBVIOUS
  <2>2. y \in Seq(Char) /\ Len(y) = 0
    BY <1>1, <2>1
  <2>3. InsertAt(y \o y, Len(y) + 1, c) = (y \o <<c>>) \o y
    BY <2>2, InsertBetween
  <2>4. y \o y = y /\ y \o e = e /\ e \o y = e
    BY <1>4, <2>1, <2>2, ConcatEmptySeq
  <2>5. InsertAt(y, Len(y) + 1, c) = e
    BY <1>3, <2>3, <2>4
  <2>. QED BY <2>1, <2>2, <2>5
<1>12. CanInsert(<<>>, 0)
  BY <1>2 DEF CanInsert
<1>13. TextOf(InsertText(<<>>, 0, c)) = InsertAt(TextOf(<<>>), 0 + 1, c)
  BY <1>10, <1>11, TextOfEmpty
<1>14. Len(TextOf(InsertText(<<>>, 0, c))) = Len(TextOf(<<>>)) + 1
  <2>1. Len(TextOf(InsertText(<<>>, 0, c))) = 1
    BY <1>4, <1>10
  <2>2. PICK y, n : y = TextOf(<<>>) /\ n = Len(y)
    OBVIOUS
  <2>3. n = 0
    BY <1>1, <2>2, TextOfEmpty
  <2>4. Len(TextOf(<<>>)) = n
    BY <2>2
  <2>5. 1 = n + 1
    BY <2>3
  <2>. QED BY <2>1, <2>4, <2>5
<1>. QED BY <1>12, <1>13, <1>14 DEF Lands

\* At a caret within the text, with no atom before its run.
Clear(segs, o) ==
    \/ \A i \in DOMAIN segs : IsText(segs[i])
    \/ \E i \in DOMAIN segs :
         (\A j \in 1 .. i : IsText(segs[j])) /\ o \in Pos(segs, i) .. Pos(segs, i) + Len(segs[i].text)

LEMMA InsertLands ==
    ASSUME NEW segs \in Seq(Seg), NEW o \in Nat, NEW c \in Char, o <= Len(TextOf(segs)), Clear(segs, o)
    PROVE  CanInsert(segs, o) /\ Lands(segs, o, c)
<1>0. DOMAIN segs = 1 .. Len(segs) /\ Len(segs) \in Nat
  BY LenProperties
<1>1. CASE segs = <<>>
  <2>1. Len(TextOf(segs)) = 0
    BY <1>1, TextOfEmpty
  <2>2. o = 0
    BY <2>1
  <2>. QED BY <1>1, <2>2, InsertInNothing
<1>2. CASE segs # <<>> /\ \A i \in DOMAIN segs : IsText(segs[i])
  <2>1. PICK n : n = Len(segs)
    OBVIOUS
  <2>2. n \in 1 .. Len(segs)
    BY <1>0, <1>2, <2>1, EmptySeq
  <2>3. Len(TextOf(segs)) = Len(Places(segs))
    BY <1>0, <1>2, TextCountsPlaces
  <2>4. Pos(segs, n + 1) = Len(Places(segs))
    BY <2>1, PosFacts
  <2>5. Pos(segs, n) \in Nat /\ Width(segs[n]) \in Nat /\ Pos(segs, n + 1) = Pos(segs, n) + Width(segs[n])
    BY <2>2, PosFacts
  <2>6. IsText(segs[n]) /\ Width(segs[n]) = Len(segs[n].text)
    BY <1>0, <1>2, <2>2 DEF Width
  <2>7. n \in Covering(segs, o)
    BY <2>2, <2>3, <2>4, <2>5, <2>6 DEF Covering
  <2>8. \A k \in 1 .. n : IsText(segs[k])
    BY <1>0, <1>2, <2>1
  <2>9. CanInsert(segs, o)
    BY <2>7, <2>8, CaretInRun
  <2>10. Lands(segs, o, c)
    BY <2>7, <2>8, InsertInRun
  <2>. QED BY <2>9, <2>10
<1>3. CASE \E i \in DOMAIN segs :
             (\A j \in 1 .. i : IsText(segs[j])) /\ o \in Pos(segs, i) .. Pos(segs, i) + Len(segs[i].text)
  <2>1. PICK i \in 1 .. Len(segs) :
          (\A j \in 1 .. i : IsText(segs[j])) /\ o \in Pos(segs, i) .. Pos(segs, i) + Len(segs[i].text)
    BY <1>0, <1>3
  <2>2. IsText(segs[i]) /\ o <= Pos(segs, i) + Len(segs[i].text)
    BY <2>1
  <2>3. i \in Covering(segs, o)
    BY <2>2 DEF Covering
  <2>4. \A k \in 1 .. i : IsText(segs[k])
    BY <2>1
  <2>5. CanInsert(segs, o)
    BY <2>3, <2>4, CaretInRun
  <2>6. Lands(segs, o, c)
    BY <2>3, <2>4, InsertInRun
  <2>. QED BY <2>5, <2>6
<1>. QED BY <1>1, <1>2, <1>3 DEF Clear

LEMMA TypedLetter ==
    ASSUME EditTypeOK, TypeLetter, blocks # <<>>, NoAtomBefore
    PROVE  /\ alive'
           /\ LeafText(blocks'[top]) = InsertAt(LeafText(Here), off + 1, Letters[typed'])
           /\ top' = top /\ off' = off + 1
<1>1. DocTyped /\ CaretOnLeaf /\ off \in Nat /\ blocks \in Seq(Block)
  BY DEF EditTypeOK, DocTyped
<1>2. alive /\ Types(Letters[typed'])
  BY DEF TypeLetter, Pressed
<1>3. OnLeaf(blocks) /\ off <= TextLen(Here)
  BY <1>1, <1>2 DEF CaretOnLeaf
<1>4. top \in 1 .. Len(blocks) /\ depth = Depth(Here)
  BY <1>3 DEF OnLeaf, Here
<1>5. PICK h, segs, c : h = Here /\ segs = h.segs /\ c = Letters[typed']
  OBVIOUS
<1>6. h \in Block /\ segs \in Seq(Seg) /\ LeafText(h) = TextOf(segs) /\ TextLen(h) = Len(TextOf(segs))
  BY <1>1, <1>4, <1>5, HereType, LeafTextIs DEF TextLen
<1>7. c \in Char
  <2>1. typed' \in 1 .. Len(Letters)
    <3>1. Len(Letters) \in Nat
      BY EditAssumption, LenProperties
    <3>. QED BY <3>1 DEF TypeLetter, EditTypeOK
  <2>. QED BY <1>5, <2>1, LetterType
<1>8. Clear(segs, off)
  BY <1>5 DEF NoAtomBefore, Clear
<1>9. CanInsert(segs, off) /\ Lands(segs, off, c)
  BY <1>1, <1>3, <1>5, <1>6, <1>7, <1>8, InsertLands
<1>10. PICK new, bs : new = InsertText(segs, off, c) /\ bs = [blocks EXCEPT ![top].segs = new]
  OBVIOUS
<1>11. Puts(new, off + 1)
  BY <1>2, <1>3, <1>5, <1>9, <1>10 DEF Types
<1>12. blocks' = bs /\ Paint(bs, top, depth, off + 1) /\ alive' = alive
  BY <1>10, <1>11 DEF Puts
<1>13. new \in Seq(Seg)
  BY <1>1, <1>6, <1>7, <1>9, <1>10, InsertTextType
<1>14. PICK b : b = [h EXCEPT !.segs = new]
  OBVIOUS
<1>15. b \in Block /\ b.segs = new /\ Depth(b) = Depth(h)
  <2>1. b \in Block
    BY <1>6, <1>13, <1>14, SegsPut
  <2>2. b.segs = new /\ b.wrap = h.wrap
    BY <1>6, <1>14 DEF Block
  <2>. QED BY <2>1, <2>2 DEF Depth
<1>16. bs[top] = b /\ Len(bs) = Len(blocks)
  BY <1>1, <1>4, <1>5, <1>10, <1>14 DEF Here
<1>17. LeafText(b) = TextOf(new) /\ TextLen(b) = Len(TextOf(new))
  BY <1>15, LeafTextIs DEF TextLen
<1>18. TextOf(new) = InsertAt(TextOf(segs), off + 1, c) /\ Len(TextOf(new)) = Len(TextOf(segs)) + 1
  BY <1>9, <1>10 DEF Lands
<1>19. top' = top /\ off' = Least(off + 1, TextLen(b))
  BY <1>4, <1>5, <1>12, <1>15, <1>16 DEF Paint
<1>20. Least(off + 1, TextLen(b)) = off + 1
  <2>1. TextLen(h) \in Nat /\ TextLen(b) = TextLen(h) + 1 /\ off <= TextLen(h)
    BY <1>3, <1>5, <1>6, <1>17, <1>18, LeafTextType
  <2>. QED BY <1>1, <2>1 DEF Least
<1>. QED BY <1>2, <1>5, <1>6, <1>12, <1>16, <1>17, <1>18, <1>19, <1>20

\* A letter that is typed lands at the caret and moves it on, however edits
\* and marks have split the text into runs (_insert_text of editor.py,
\* insert_text of editing.py).
THEOREM LettersLand == EditSpec => TypingLands
<1>1. EditTypeOK /\ [EditNext]_editVars =>
        [(typed' # typed /\ blocks # <<>> /\ NoAtomBefore) =>
            /\ alive'
            /\ LeafText(blocks'[top]) = InsertAt(LeafText(Here), off + 1, Letters[typed'])
            /\ top' = top /\ off' = off + 1]_editVars
  <2>. SUFFICES ASSUME EditTypeOK, EditNext, typed' # typed, blocks # <<>>, NoAtomBefore
                PROVE  /\ alive'
                       /\ LeafText(blocks'[top]) = InsertAt(LeafText(Here), off + 1, Letters[typed'])
                       /\ top' = top /\ off' = off + 1
    OBVIOUS
  <2>1. TypeLetter
    BY DEF EditNext, Space, Enter, Move, Backspace, Mark, AskLink, EndLink, SwitchMode, Pick,
           DismissPicker, PeerWrites, TypeTrigger
  <2>. QED BY <2>1, TypedLetter
<1>. QED BY <1>1, EditTypeCorrect, PTL DEF EditSpec, TypingLands

==============================================================================
