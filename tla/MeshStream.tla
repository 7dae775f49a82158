------------------------------ MODULE MeshStream ------------------------------
(***************************************************************************)
(* One mesh TCP stream from a client's socket to a container's, across one  *)
(* or two tunnels:                                                          *)
(*   forward       central opens to an agent                (tunnel 2)      *)
(*   reverse_local an agent opens to central's own docker   (tunnel 1)      *)
(*   relay         an agent opens through central to another (1, then 2)    *)
(* The client's end is MeshService.openCrossNode.  A tunnel has a near end  *)
(* that opens (PilotTunnelBridge's TcpStream on 2, the switchboard's        *)
(* ReverseTcpStreamHandle on 1) and a far end that accepts (the             *)
(* switchboard's onTcpOpen on 2, the bridge's reverse streams on 1).        *)
(*                                                                         *)
(* A chunk is its number.  A tunnel delivers frames in order until it goes  *)
(* down, which loses the ones under way.  A full send buffer is a choice at *)
(* each write.                                                              *)
(***************************************************************************)
EXTENDS Naturals, Sequences, SequencesExt

CONSTANTS
    Routes,        \* subset of {"forward", "reverse_local", "relay"}
    Openers,       \* "waits": openCrossNode; "eager": a peer that sends at once
    MaxUp,         \* bound: chunks the client sends
    MaxDown,       \* bound: chunks the container sends
    MaxPending,    \* STREAM_PENDING_DATA_MAX_BYTES, in chunks
    Faults         \* subset of {"tunnel", "idle"}

VARIABLES
    route, opener,
    ws,            \* the tunnels' WebSockets
    up, down,      \* frames under way, towards the container and back
    near, far,     \* the stream's entry in the maps of either end
    resolving,     \* accept is inside its await
    held,          \* pendingData of the far entry
    awaits,        \* the near handle is to be told 'drain'
    src,           \* openCrossNode and the client's socket
    sock,          \* the container's socket
    broken         \* history: what ended the stream other than its two ends

tunnels == <<ws, up, down>>
entries == <<near, far, resolving, held, awaits>>
vars == <<route, opener, tunnels, entries, src, sock, broken>>

Hops == {1, 2}
Ingress == IF route = "forward" THEN 2 ELSE 1
Egress == IF route = "reverse_local" THEN 1 ELSE 2
Relays(h) == route = "relay" /\ h = 1

Frame(t) == [t |-> t, n |-> 0]
Data(n) == [t |-> "data", n |-> n]

Opened == {"opening", "accepted"}                \* near
Dialled == {"dialing", "connected"}              \* far, with a socket
Relaying == {"relaying", "relayed"}              \* far, with a target stream

Put(q, h, f) == IF ws[h] = "open" THEN [q EXCEPT ![h] = Append(@, f)] ELSE q
(* Mutant: a flush writes the first chunk of the list only.                *)
PutAllMutant(q, h, chunks) ==
    IF ws[h] = "open" /\ chunks # <<>> THEN [q EXCEPT ![h] = Append(@, Data(Head(chunks)))] ELSE q

PutAll(q, h, chunks) ==
    IF ws[h] = "open" THEN [q EXCEPT ![h] = @ \o [i \in DOMAIN chunks |-> Data(chunks[i])]] ELSE q

Destroyed(s) == [s EXCEPT !.st = "closed", !.paused = FALSE]
SockGone == IF sock.st = "none" THEN sock ELSE Destroyed(sock)

Init ==
    /\ route \in Routes /\ opener \in Openers
    /\ ws = [h \in Hops |-> "open"]
    /\ up = [h \in Hops |-> <<>>] /\ down = [h \in Hops |-> <<>>]
    /\ near = [h \in Hops |-> "none"] /\ far = [h \in Hops |-> "none"]
    /\ resolving = [h \in Hops |-> FALSE]
    /\ held = [h \in Hops |-> <<>>]
    /\ awaits = [h \in Hops |-> FALSE]
    /\ src = [st |-> "open", out |-> 0, in |-> <<>>, paused |-> FALSE,
              tcpOpen |-> FALSE, closed |-> FALSE, pending |-> <<>>]
    /\ sock = [st |-> "none", out |-> 0, in |-> <<>>, paused |-> FALSE]
    /\ broken = {}

-----------------------------------------------------------------------------
(* The client's end: openCrossNode. *)

\* dialMeshTcpStream over a tunnel that is there: openReverseStream, or
\* openTcpStream on a registered bridge.  Nothing is awaited but the microtasks.
Dial ==
    /\ near[Ingress] = "none" /\ src.st = "open"
    /\ IF ws[Ingress] = "open"
       THEN /\ near' = [near EXCEPT ![Ingress] = "opening"]
            /\ up' = Put(up, Ingress, Frame("open"))
            /\ UNCHANGED src
       ELSE /\ src' = Destroyed(src)
            /\ UNCHANGED <<near, up>>
    /\ UNCHANGED <<route, opener, ws, down, far, resolving, held, awaits, sock, broken>>

\* ensureBridge finds no bridge on central: openCrossNode awaits the dial of a
\* proxy-mode tunnel, and src has no listener yet.
EnsureBridge ==
    /\ route = "forward" /\ opener = "waits" /\ near[2] = "none" /\ src.st = "open"
    /\ near' = [near EXCEPT ![2] = "dialing"]
    /\ UNCHANGED <<route, opener, tunnels, far, resolving, held, awaits, src, sock, broken>>

\* The client leaves meanwhile, and nobody hears it.  (A client that had sent
\* bytes is heard later: its 'end' waits behind the bytes nobody has read.)
SrcLeaves ==
    /\ near[Ingress] = "dialing" /\ src.st = "open"
    /\ src' = [src EXCEPT !.st = "left"]
    /\ UNCHANGED <<route, opener, tunnels, entries, sock, broken>>

\* The dial returns: null, or a bridge, whose stream is opened whatever became of src.
BridgeReady ==
    /\ near[2] = "dialing"
    /\ \/ /\ src' = Destroyed(src)
          /\ near' = [near EXCEPT ![2] = "none"]
          /\ UNCHANGED up
       \/ /\ ws[2] = "open"
          /\ near' = [near EXCEPT ![2] = "opening"]
          /\ up' = Put(up, 2, Frame("open"))
          /\ UNCHANGED src
    /\ UNCHANGED <<route, opener, ws, down, far, resolving, held, awaits, sock, broken>>

\* openCrossNode has attached its listeners to src.
Listens == near[Ingress] \notin {"none", "dialing"}

(* Mutant: the peer is not told.                                           *)
CloseNearMutant(h) ==
    IF near[h] \in Opened
    THEN /\ near' = [near EXCEPT ![h] = "gone"]
         /\ awaits' = [awaits EXCEPT ![h] = FALSE]
         /\ UNCHANGED up
    ELSE UNCHANGED <<near, awaits, up>>

\* tcpStream.destroy: _closeTcpStream, or the handle's sendClose.
CloseNear(h) ==
    IF near[h] \in Opened
    THEN /\ near' = [near EXCEPT ![h] = "gone"]
         /\ awaits' = [awaits EXCEPT ![h] = FALSE]
         /\ up' = Put(up, h, Frame("close"))
    ELSE UNCHANGED <<near, awaits, up>>

(* Mutant: only the first chunk waits for the ack.                         *)
MustHoldMutant == ~src.tcpOpen /\ opener = "waits" /\ src.pending = <<>>

\* Bytes are not written through before 'open'.
MustHold == ~src.tcpOpen /\ opener = "waits"

\* src.on('data').
SrcData ==
    LET n == src.out + 1
        read == [src EXCEPT !.out = n]
    IN /\ Listens /\ src.st \in {"open", "ended"} /\ ~src.paused /\ src.out < MaxUp
       /\ \/ \* The tunnel stream is gone: drop the bytes and close.
             /\ src.closed
             /\ src' = Destroyed(read)
             /\ UNCHANGED <<near, awaits, up>>
          \/ \* tcpStream.write; `full' is a send buffer over the mark.
             /\ ~src.closed /\ ~MustHold
             /\ up' = Put(up, Ingress, Data(n))
             /\ \E full \in BOOLEAN :
                   /\ IF opener = "eager" THEN ~full ELSE ws[Ingress] # "open" => full
                   /\ src' = [read EXCEPT !.paused = full]
                   /\ awaits' = [awaits EXCEPT ![Ingress] = full /\ ws[Ingress] = "open"]
             /\ UNCHANGED near
          \/ \* Hold it until tcp_open_ack.
             /\ ~src.closed /\ MustHold /\ Len(src.pending) < MaxPending
             /\ src' = [read EXCEPT !.pending = Append(@, n)]
             /\ UNCHANGED <<near, awaits, up>>
          \/ /\ ~src.closed /\ MustHold /\ Len(src.pending) >= MaxPending
             /\ src' = Destroyed(read)
             /\ CloseNear(Ingress)
       /\ UNCHANGED <<route, opener, ws, down, far, resolving, held, sock, broken>>

\* src 'end', 'close' or 'error': the client is done.
SrcCloses ==
    /\ Listens /\ src.st \in {"open", "ended"}
    /\ src' = Destroyed(src)
    /\ CloseNear(Ingress)
    /\ UNCHANGED <<route, opener, ws, down, far, resolving, held, sock, broken>>

\* The timer on tcp_open_ack.
OpenTimeout ==
    /\ near[Ingress] = "opening" /\ ~src.tcpOpen
    /\ src' = Destroyed(src)
    /\ CloseNear(Ingress)
    /\ UNCHANGED <<route, opener, ws, down, far, resolving, held, sock, broken>>

\* checkDrain of the near end, which a dead tunnel does not stop before its
\* cleanup: 'drain' on a handle that reported a full buffer.
DrainNear ==
    /\ awaits[Ingress] /\ near[Ingress] = "accepted"
    /\ awaits' = [awaits EXCEPT ![Ingress] = FALSE]
    /\ src' = [src EXCEPT !.paused = FALSE]
    /\ UNCHANGED <<route, opener, tunnels, near, far, resolving, held, sock, broken>>

-----------------------------------------------------------------------------
(* What the user of a near handle does when the handle ends.  The user of   *)
(* tunnel 2's handle on a relay is the far entry of tunnel 1; `q' is what    *)
(* is left of `down'.                                                       *)

(* Mutant: a paused source is not resumed.                                 *)
EndedMutant(s) == [s EXCEPT !.closed = TRUE, !.st = IF @ = "open" THEN "ended" ELSE @]

\* 'close': releaseSrc, then src.end.
Ended(s) == [s EXCEPT !.closed = TRUE, !.paused = FALSE, !.st = IF @ = "open" THEN "ended" ELSE @]

\* 'error' and 'close' ("nack"), or 'close' alone.
UserEnds(h, event, q) ==
    IF h = Ingress
    THEN /\ src' = IF event = "nack" THEN [Destroyed(src) EXCEPT !.closed = TRUE] ELSE Ended(src)
         /\ down' = q
         /\ UNCHANGED far
    ELSE /\ far' = IF far[1] \in Relaying THEN [far EXCEPT ![1] = "gone"] ELSE far
         /\ down' = IF far[1] \in Relaying THEN Put(q, 1, Frame(event)) ELSE q
         /\ UNCHANGED src

-----------------------------------------------------------------------------
(* Frames towards the client. *)

NearIs(h, t) == ws[h] = "open" /\ down[h] # <<>> /\ Head(down[h]).t = t
Taken(q, h) == [q EXCEPT ![h] = Tail(@)]

\* tcp_open_ack ok: 'open'.  Flush what was held, in order, before anything later.
NearAck(h) ==
    /\ NearIs(h, "ack")
    /\ IF near[h] \notin Opened
       THEN /\ down' = Taken(down, h) /\ UNCHANGED <<near, far, held, src, up>>
       ELSE /\ near' = [near EXCEPT ![h] = "accepted"]
            /\ IF h = Ingress
               THEN /\ src' = [src EXCEPT !.tcpOpen = TRUE, !.pending = <<>>]
                    /\ up' = PutAll(up, h, src.pending)
                    /\ down' = Taken(down, h)
                    /\ UNCHANGED <<far, held>>
               ELSE /\ far' = [far EXCEPT ![1] = IF @ = "relaying" THEN "relayed" ELSE @]
                    /\ held' = IF far[1] = "relaying" THEN [held EXCEPT ![1] = <<>>] ELSE held
                    /\ up' = IF far[1] = "relaying" THEN PutAll(up, h, held[1]) ELSE up
                    /\ down' = IF far[1] = "relaying" THEN Put(Taken(down, h), 1, Frame("ack")) ELSE Taken(down, h)
                    /\ UNCHANGED src
    /\ UNCHANGED <<route, opener, ws, resolving, awaits, sock, broken>>

\* tcp_open_ack not ok, or tcp_close: the entry goes, then the events.
NearEnds(h) ==
    /\ NearIs(h, "nack") \/ NearIs(h, "close")
    /\ IF near[h] \notin Opened
       THEN down' = Taken(down, h) /\ UNCHANGED <<near, awaits, far, src>>
       ELSE /\ near' = [near EXCEPT ![h] = "gone"]
            /\ awaits' = [awaits EXCEPT ![h] = FALSE]
            /\ UserEnds(h, Head(down[h]).t, Taken(down, h))
    /\ UNCHANGED <<route, opener, ws, up, resolving, held, sock, broken>>

NearData(h) ==
    /\ NearIs(h, "data")
    /\ LET taken == Taken(down, h)
       IN IF near[h] \notin Opened
          THEN down' = taken /\ UNCHANGED src
          ELSE IF h = Ingress
          THEN /\ down' = taken
               /\ src' = IF src.st = "open" THEN [src EXCEPT !.in = Append(@, Head(down[h]).n)] ELSE src
          ELSE /\ down' = IF far[1] \in Relaying THEN Put(taken, 1, Head(down[h])) ELSE taken
               /\ UNCHANGED src
    /\ UNCHANGED <<route, opener, ws, up, entries, sock, broken>>

\* http_err on a mesh stream id: no case of the agent's switchboard.
NearOther(h) ==
    /\ NearIs(h, "http_err")
    /\ down' = Taken(down, h)
    /\ UNCHANGED <<route, opener, ws, up, entries, src, sock, broken>>

-----------------------------------------------------------------------------
(* Frames towards the container. *)

FarIs(h, t) == ws[h] = "open" /\ up[h] # <<>> /\ Head(up[h]).t = t

\* tcp_open, tcp_open_reverse: at the stream cap a refusal, else the reservation.
FarOpen(h) ==
    /\ FarIs(h, "open")
    /\ up' = Taken(up, h)
    /\ \/ /\ far' = [far EXCEPT ![h] = "gone"]
          /\ down' = Put(down, h, Frame("nack"))
          /\ UNCHANGED resolving
       \/ /\ far' = [far EXCEPT ![h] = "reserved"]
          /\ resolving' = [resolving EXCEPT ![h] = TRUE]
          /\ UNCHANGED down
    /\ UNCHANGED <<route, opener, ws, near, held, awaits, src, sock, broken>>

Room(h) == Len(held[h]) < MaxPending

\* handleBinaryFrame.  No entry: the frame is dropped.  No socket or target
\* yet: it is held, and over the cap the stream is dropped and the peer told.
FarData(h) ==
    LET n == Head(up[h]).n
        waiting == far[h] \in {"reserved", "relaying"}
    IN /\ FarIs(h, "data")
       /\ \/ /\ far[h] \in {"none", "gone"}
             /\ up' = Taken(up, h)
             /\ UNCHANGED <<far, held, down, sock>>
          \/ /\ waiting /\ Room(h)
             /\ held' = [held EXCEPT ![h] = Append(@, n)]
             /\ up' = Taken(up, h)
             /\ UNCHANGED <<far, down, sock>>
          \/ /\ waiting /\ ~Room(h)
             /\ far' = [far EXCEPT ![h] = "gone"]
             /\ held' = [held EXCEPT ![h] = <<>>]
             /\ down' = Put(down, h, Frame("close"))
             /\ up' = Taken(up, h)
             /\ UNCHANGED sock
          \/ /\ far[h] \in Dialled
             /\ sock' = [sock EXCEPT !.in = Append(@, n)]
             /\ up' = Taken(up, h)
             /\ UNCHANGED <<far, held, down>>
          \/ /\ far[h] = "relayed"
             /\ up' = IF near[2] \in Opened THEN Put(Taken(up, h), 2, Head(up[h])) ELSE Taken(up, h)
             /\ UNCHANGED <<far, held, down, sock>>
       /\ UNCHANGED <<route, opener, ws, near, resolving, awaits, src, broken>>

\* The far entry goes, with its socket or its target stream; q is the rest of `up'.
DropFar(h, q) ==
    /\ far' = [far EXCEPT ![h] = "gone"]
    /\ held' = [held EXCEPT ![h] = <<>>]
    /\ sock' = IF far[h] \in Dialled THEN SockGone ELSE sock
    /\ IF far[h] \in Relaying /\ near[2] \in Opened
       THEN /\ near' = [near EXCEPT ![2] = "gone"]
            /\ awaits' = [awaits EXCEPT ![2] = FALSE]
            /\ up' = Put(q, 2, Frame("close"))
       ELSE up' = q /\ UNCHANGED <<near, awaits>>

\* tcp_close.
FarClose(h) ==
    /\ FarIs(h, "close")
    /\ IF far[h] \in {"none", "gone"}
       THEN up' = Taken(up, h) /\ UNCHANGED <<far, held, sock, near, awaits>>
       ELSE DropFar(h, Taken(up, h))
    /\ UNCHANGED <<route, opener, ws, down, resolving, src, broken>>

-----------------------------------------------------------------------------
(* The far end dials. *)

(* Mutant: the reservation is not looked at again after the await.         *)
ReservedMutant(h) == TRUE

Reserved(h) == far[h] = "reserved"

\* resolveTarget or resolveContainerIp returns.  A failure is reported also when
\* the reservation is gone; a success is then dropped.
Resolve(h) ==
    /\ resolving[h] /\ ~Relays(h)
    /\ resolving' = [resolving EXCEPT ![h] = FALSE]
    /\ \/ /\ far' = IF Reserved(h) THEN [far EXCEPT ![h] = "gone"] ELSE far
          /\ held' = [held EXCEPT ![h] = <<>>]
          /\ down' = Put(down, h, Frame("nack"))
          /\ UNCHANGED sock
       \/ /\ Reserved(h)
          /\ far' = [far EXCEPT ![h] = "dialing"]
          /\ sock' = [sock EXCEPT !.st = "connecting"]
          /\ UNCHANGED <<down, held>>
       \/ ~Reserved(h) /\ UNCHANGED <<far, held, down, sock>>
    /\ UNCHANGED <<route, opener, ws, up, near, awaits, src, broken>>

\* acceptReverseRelay: ensureBridge returns.
ResolveRelay ==
    /\ resolving[1] /\ Relays(1)
    /\ resolving' = [resolving EXCEPT ![1] = FALSE]
    /\ \/ /\ far' = IF Reserved(1) THEN [far EXCEPT ![1] = "gone"] ELSE far
          /\ held' = [held EXCEPT ![1] = <<>>]
          /\ down' = Put(down, 1, Frame("nack"))
          /\ UNCHANGED <<up, near>>
       \/ /\ Reserved(1) /\ ws[2] = "open"
          /\ far' = [far EXCEPT ![1] = "relaying"]
          /\ near' = [near EXCEPT ![2] = "opening"]
          /\ up' = Put(up, 2, Frame("open"))
          /\ UNCHANGED <<down, held>>
       \/ ~Reserved(1) /\ UNCHANGED <<far, held, down, up, near>>
    /\ UNCHANGED <<route, opener, ws, awaits, src, sock, broken>>

\* 'connect': what was held is written, then the ack is sent.
Connect(h) ==
    /\ far[h] = "dialing" /\ sock.st = "connecting"
    /\ far' = [far EXCEPT ![h] = "connected"]
    /\ sock' = [sock EXCEPT !.st = "open", !.in = @ \o held[h]]
    /\ held' = [held EXCEPT ![h] = <<>>]
    /\ down' = Put(down, h, Frame("ack"))
    /\ UNCHANGED <<route, opener, ws, up, near, resolving, awaits, src, broken>>

\* 'error' or 'timeout' before 'connect'.
ConnectFails(h) ==
    /\ far[h] = "dialing" /\ sock.st = "connecting"
    /\ far' = [far EXCEPT ![h] = "gone"]
    /\ sock' = SockGone
    /\ held' = [held EXCEPT ![h] = <<>>]
    /\ down' = Put(down, h, Frame("nack"))
    /\ UNCHANGED <<route, opener, ws, up, near, resolving, awaits, src, broken>>

\* Bound: an eager peer's stream is of interest for what the peer sends.
Replies == IF opener = "eager" THEN 0 ELSE MaxDown

(* Mutant: a chunk read while the buffer is full is not sent.              *)
SockDataMutant ==
    /\ sock.st = "open" /\ ~sock.paused /\ sock.out < Replies /\ far[Egress] = "connected"
    /\ \E full \in BOOLEAN :
          /\ sock' = [sock EXCEPT !.out = @ + 1, !.paused = full]
          /\ down' = IF full THEN down ELSE Put(down, Egress, Data(sock.out + 1))
    /\ UNCHANGED <<route, opener, ws, up, entries, src, broken>>

\* socket.on('data'): send it, and stop reading while the buffer is full.
SockData ==
    /\ sock.st = "open" /\ ~sock.paused /\ sock.out < Replies /\ far[Egress] = "connected"
    /\ down' = Put(down, Egress, Data(sock.out + 1))
    /\ \E full \in BOOLEAN : sock' = [sock EXCEPT !.out = @ + 1, !.paused = full]
    /\ UNCHANGED <<route, opener, ws, up, entries, src, broken>>

\* checkDrain of the far end: also on a tunnel that is down.
DrainFar ==
    /\ sock.paused
    /\ sock' = [sock EXCEPT !.paused = FALSE]
    /\ UNCHANGED <<route, opener, tunnels, entries, src, broken>>

\* The container ends the connection, everything it sent having been read.
SockCloses ==
    /\ sock.st = "open" /\ ~sock.paused /\ far[Egress] = "connected"
    /\ sock' = Destroyed(sock)
    /\ far' = [far EXCEPT ![Egress] = "gone"]
    /\ down' = Put(down, Egress, Frame("close"))
    /\ UNCHANGED <<route, opener, ws, up, near, resolving, held, awaits, src, broken>>

\* 'error' on the open connection.
SockErrors ==
    /\ sock.st = "open" /\ far[Egress] = "connected"
    /\ sock' = Destroyed(sock)
    /\ far' = [far EXCEPT ![Egress] = "gone"]
    /\ down' = Put(down, Egress, Frame("close"))
    /\ UNCHANGED <<route, opener, ws, up, near, resolving, held, awaits, src, broken>>

-----------------------------------------------------------------------------
(* Idle timers and dying tunnels. *)

Quiet(h) == up[h] = <<>> /\ down[h] = <<>>

\* onStreamIdle of the near end: error unless a TcpStream was accepted, close, tcp_close.
NearIdle(h) ==
    /\ "idle" \in Faults /\ Quiet(h) /\ near[h] \in Opened /\ ws[h] = "open"
    /\ near' = [near EXCEPT ![h] = "gone"]
    /\ awaits' = [awaits EXCEPT ![h] = FALSE]
    /\ UserEnds(h, IF h = 2 /\ near[h] = "accepted" THEN "close" ELSE "nack", down)
    /\ up' = Put(up, h, Frame("close"))
    /\ broken' = broken \cup {"idle"}
    /\ UNCHANGED <<route, opener, ws, resolving, held, sock>>

\* onStreamIdle of the far end: the switchboard sends tcp_close; the bridge,
\* whose entry is neither 'tcp' nor 'ws', http_err.
FarIdle(h) ==
    /\ "idle" \in Faults /\ Quiet(h) /\ far[h] \notin {"none", "gone"} /\ ws[h] = "open"
    /\ DropFar(h, up)
    /\ down' = Put(down, h, Frame(IF h = 2 THEN "close" ELSE "http_err"))
    /\ broken' = broken \cup {"idle", IF h = 2 THEN "idle" ELSE "bridge idle"}
    /\ UNCHANGED <<route, opener, ws, resolving, src>>

\* The WebSocket dies with the frames under way.
TunnelDown(h) ==
    /\ "tunnel" \in Faults /\ ws[h] = "open" /\ \A g \in Hops : ws[g] = "open"
    /\ ws' = [ws EXCEPT ![h] = "down"]
    /\ up' = [up EXCEPT ![h] = <<>>] /\ down' = [down EXCEPT ![h] = <<>>]
    /\ broken' = broken \cup {"tunnel"}
    /\ UNCHANGED <<route, opener, entries, src, sock>>

\* close of the bridge, cleanup of the switchboard: the near handles end ...
NearDown(h) ==
    /\ ws[h] = "down" /\ near[h] \in Opened
    /\ near' = [near EXCEPT ![h] = "gone"]
    /\ awaits' = [awaits EXCEPT ![h] = FALSE]
    /\ UserEnds(h, IF h = 2 /\ near[h] = "accepted" THEN "close" ELSE "nack", down)
    /\ UNCHANGED <<route, opener, ws, up, resolving, held, sock, broken>>

\* ... and the far entries go, at the other end, in their own time.
FarDown(h) ==
    /\ ws[h] = "down" /\ far[h] \notin {"none", "gone"}
    /\ DropFar(h, up)
    /\ UNCHANGED <<route, opener, ws, down, resolving, src, broken>>

-----------------------------------------------------------------------------
Receive(h) ==
    \/ NearAck(h) \/ NearEnds(h) \/ NearData(h) \/ NearOther(h)
    \/ FarOpen(h) \/ FarData(h) \/ FarClose(h)
Progress(h) == Resolve(h) \/ Connect(h) \/ ConnectFails(h) \/ NearDown(h) \/ FarDown(h)

Next ==
    \/ Dial \/ EnsureBridge \/ SrcLeaves \/ BridgeReady \/ SrcData \/ SrcCloses \/ OpenTimeout \/ DrainNear
    \/ \E h \in Hops : Receive(h) \/ Progress(h) \/ NearIdle(h) \/ FarIdle(h) \/ TunnelDown(h)
    \/ ResolveRelay \/ SockData \/ DrainFar \/ SockCloses \/ SockErrors

Spec == Init /\ [][Next]_vars
\* The event loop runs what is due, sockets connect or fail, the handshake of a
\* new tunnel is answered or times out, links drain.  The idle timers are left
\* out: nothing below waits for them.
Fairness ==
    /\ \A h \in Hops : WF_vars(Receive(h)) /\ WF_vars(Progress(h))
    /\ WF_vars(Dial) /\ WF_vars(BridgeReady) /\ WF_vars(ResolveRelay) /\ WF_vars(DrainNear) /\ WF_vars(DrainFar)

FairSpec == Spec /\ Fairness

-----------------------------------------------------------------------------
Upto(n) == [i \in 1..n |-> i]
Chunks(q) ==
    LET data == SelectSeq(q, LAMBDA f : f.t = "data") IN [i \in DOMAIN data |-> data[i].n]
Frames == [t : {"open", "ack", "nack", "data", "close", "http_err"}, n : 0..(MaxUp + MaxDown)]
Used == {Ingress, Egress}

(* The maps hold the entries their code puts there, frames carry chunks.    *)
TypeOK ==
    /\ route \in Routes /\ opener \in Openers
    /\ ws \in [Hops -> {"open", "down"}]
    /\ near \in [Hops -> {"none", "dialing", "gone"} \cup Opened]
    /\ far \in [Hops -> {"none", "reserved", "gone"} \cup Dialled \cup Relaying]
    /\ resolving \in [Hops -> BOOLEAN] /\ awaits \in [Hops -> BOOLEAN]
    /\ \A h \in Hops : /\ \A i \in DOMAIN up[h] : up[h][i] \in Frames
                       /\ \A i \in DOMAIN down[h] : down[h][i] \in Frames
                       /\ Len(held[h]) <= MaxPending
    /\ src.st \in {"open", "left", "ended", "closed"} /\ src.out \in 0..MaxUp /\ Len(src.pending) <= MaxPending
    /\ sock.st \in {"none", "connecting", "open", "closed"} /\ sock.out \in 0..MaxDown

(* Bytes arrive in order and without gaps or repeats, both ways, whatever    *)
(* was held, relayed, refused or cut off on the way.                        *)
InOrder ==
    /\ src.in = Upto(Len(src.in)) /\ Len(src.in) <= sock.out
    /\ opener = "waits" => sock.in = Upto(Len(sock.in)) /\ Len(sock.in) <= src.out

(* While every part of the stream is in place each byte read at one end is   *)
(* delivered, on a tunnel or held, exactly once and in order.               *)
Intact == src.st # "left" /\ \A h \in Used : ws[h] = "open" /\ near[h] # "gone" /\ far[h] # "gone"
NothingLost ==
    Intact /\ opener = "waits" =>
        /\ sock.in \o held[2] \o Chunks(up[2]) \o held[1] \o Chunks(up[1]) \o src.pending = Upto(src.out)
        /\ src.in \o Chunks(down[1]) \o Chunks(down[2]) = Upto(sock.out)

(* When no tunnel failed and no timer fired, a client told that the         *)
(* container closed has had everything the container sent.                  *)
ResponseComplete ==
    opener = "waits" /\ broken = {} /\ sock.st = "closed" /\ src.st = "ended" => src.in = Upto(sock.out)

(* On a tunnel that is up, with no frame under way, the two maps agree: an   *)
(* entry whose other half is gone is gone too.  (The bridge's idle timer on  *)
(* a reverse stream is BridgeIdleIsTold's.)                                  *)
HalfOpen(h) ==
    /\ ws[h] = "open" /\ Quiet(h) /\ ~resolving[h]
    /\ \/ far[h] = "gone" /\ near[h] \in Opened
       \/ near[h] = "gone" /\ far[h] \notin {"none", "gone"}
NoHalfOpen == \A h \in Hops : h = 2 \/ "bridge idle" \notin broken => ~HalfOpen(h)

(* The stream that central opened for a relay is always in the hands of the  *)
(* stream it relays.                                                        *)
NoOrphan ==
    opener = "waits" /\ route = "relay" /\ near[2] \in Opened => far[1] \in Relaying

(* What every state keeps of the stream: its entries and frames, every byte  *)
(* in exactly one place while the stream is whole, and an owner for the      *)
(* second half of a relay.                                                   *)
StreamInvariant == TypeOK /\ NothingLost /\ NoOrphan

(* Without the idle timers' help: when the container's connection ends, the  *)
(* client's is ended; when the client's is closed, every entry, frame and    *)
(* connection of the stream goes; and a client that left while the tunnel    *)
(* was dialled leaves nothing either, or a stream that reached the container *)
(* and that only the container, an idle timer or the tunnel will end.        *)
Released ==
    /\ sock.st \in {"none", "closed"}
    /\ \A h \in Hops : /\ near[h] \in {"none", "gone"} /\ far[h] \in {"none", "gone"}
                       /\ Quiet(h)
Abandoned ==
    src.st = "left" /\ near[Ingress] = "accepted" /\ far[Egress] = "connected" /\ sock.st = "open"
Assumed == opener = "eager" \/ "bridge idle" \in broken
EndsTogether ==
    /\ sock.st = "closed" ~> src.st # "open" \/ Assumed
    /\ src.st = "closed" ~> Released \/ Assumed
    /\ src.st = "left" ~> Released \/ Abandoned

(* A socket paused for a full tunnel is read again, or closed.               *)
PausedResumes ==
    /\ src.paused ~> ~src.paused
    /\ sock.paused ~> ~sock.paused

(* As InOrder, for a peer that sends before the ack.                         *)
EarlyDataInOrder == sock.in = Upto(Len(sock.in))

(* A far end whose idle timer fires tells the near end.                      *)
BridgeIdleIsTold == \A h \in Hops : ~HalfOpen(h)

(* As NoOrphan, for a peer that sends before the ack.                        *)
EarlyDataNoOrphan == route = "relay" /\ near[2] \in Opened => far[1] \in Relaying
==============================================================================
