----------------------------- MODULE BidiStream -----------------------------
(***************************************************************************)
(* One WebSocket bridged to one bidirectional gRPC stream: InvokeStream    *)
(* and proxyBidi of transport/gateway/proxy_stream.go.  Two goroutines     *)
(* pump the directions; they share the stream's context, the socket, the   *)
(* one-slot channel encodingC and the errgroup, which keeps the first      *)
(* error.  A goroutine's last calls (cancel, ws.Close) run before the      *)
(* errgroup sees its error, so leaving a pump takes two steps.             *)
(*                                                                         *)
(* The WebSocket client and the gRPC upstream are the environment.  A      *)
(* frame is its type, text or binary; a gRPC message has no content.       *)
(***************************************************************************)
EXTENDS Naturals, Sequences

CONSTANTS
    MaxFrames,   \* bound: frames the client sends
    MaxMsgs,     \* bound: messages the upstream sends
    Window,      \* messages that SendMsg buffers before it blocks
    PeerWindow   \* frames that WriteMessage buffers before it blocks

ASSUME BidiAssumption ==
    MaxFrames \in Nat /\ MaxMsgs \in Nat /\ Window \in Nat \ {0} /\ PeerWindow \in Nat \ {0}

Frame == {"text", "binary"}
none  == "none"

VARIABLES
    phase,       \* InvokeStream: opening, bridged, ended
    connHeld,    \* the release callback of pickConn has not run yet
    cancelled,   \* the stream's context is done
    wsClosed,    \* ws.Close has run
    encodingC,   \* the channel: the type of the first frame, or none
    client,      \* client pump: [pc, err]
    server,      \* server pump: [pc, err, encoding]
    result,      \* the errgroup's first error, "nil" while there is none
    peer,        \* WebSocket client: [state, sent, frames, unread], frames still
                 \* to be read by the client pump, unread by the peer
    upstream,    \* gRPC server: [state, sent, msgs, buffered]
    first,       \* history: the type of the first frame read, or none
    written      \* history: the types of the frames written to the client

shared  == <<phase, connHeld>>
history == <<first, written>>
vars == <<shared, cancelled, wsClosed, encodingC, client, server, result,
          peer, upstream, history>>

Init ==
    /\ phase = "opening" /\ connHeld = TRUE
    /\ cancelled = FALSE /\ wsClosed = FALSE /\ encodingC = none
    /\ client = [pc |-> "read", err |-> "nil"]
    /\ server = [pc |-> "select", err |-> "nil", encoding |-> "text"]
    /\ result = "nil"
    /\ peer = [state |-> "open", sent |-> 0, frames |-> <<>>, unread |-> 0]
    /\ upstream = [state |-> "open", sent |-> 0, msgs |-> 0, buffered |-> 0]
    /\ first = none /\ written = {}

-----------------------------------------------------------------------------
(* InvokeStream around the bridge: its deferred release and cancel run on   *)
(* every return.                                                            *)

Opened ==
    /\ phase = "opening"
    /\ phase' = "bridged"
    /\ UNCHANGED <<connHeld, cancelled, wsClosed, encodingC, client, server, result,
                   peer, upstream, history>>

\* The dial, the claims or NewStream fail: the handler returns and the websocket
\* library closes the socket.
OpenFails ==
    /\ phase = "opening"
    /\ phase' = "ended" /\ connHeld' = FALSE /\ cancelled' = TRUE /\ wsClosed' = TRUE
    /\ result' = "unavailable"
    /\ UNCHANGED <<encodingC, client, server, peer, upstream, history>>

\* Fault: a cancelled stream counts as a normal end.
isNormalStreamCloseOrCanceled(err) == err \in {"io.EOF", "close frame", "canceled"}

\* The expected ends, which Wait turns into nil.
isNormalStreamClose(err) == err \in {"io.EOF", "close frame"}

\* g.Wait returns once both pumps have.
Wait ==
    /\ phase = "bridged" /\ client.pc = "done" /\ server.pc = "done"
    /\ phase' = "ended" /\ connHeld' = FALSE /\ cancelled' = TRUE
    /\ result' = IF isNormalStreamClose(result) THEN "nil" ELSE result
    /\ UNCHANGED <<wsClosed, encodingC, client, server, peer, upstream, history>>

-----------------------------------------------------------------------------
(* client -> server *)

\* ReadMessage fails: the peer closed or dropped the socket, or ws.Close ran.
ReadError ==
    IF wsClosed THEN "use of closed connection"
    ELSE IF peer.state = "closed" THEN "close frame" ELSE "abnormal closure"

\* Fault: the stream's context is not cancelled.
ClientReadFailsNoCancel ==
    /\ phase = "bridged" /\ client.pc = "read"
    /\ wsClosed \/ (peer.frames = <<>> /\ peer.state # "open")
    /\ client' = [pc |-> "returning", err |-> ReadError]
    /\ UNCHANGED <<shared, cancelled, wsClosed, encodingC, server, result, peer, upstream,
                   history>>

ClientReadFails ==
    /\ phase = "bridged" /\ client.pc = "read"
    /\ wsClosed \/ (peer.frames = <<>> /\ peer.state # "open")
    /\ client' = [pc |-> "returning", err |-> ReadError]
    /\ cancelled' = TRUE
    /\ UNCHANGED <<shared, wsClosed, encodingC, server, result, peer, upstream, history>>

\* The channel after a frame is read: only the first one announces its type.
Announce(frame) == IF first = none THEN frame ELSE encodingC

\* Fault: a frame that does not decode leaves the context alone.
ClientReadsNoCancel ==
    /\ phase = "bridged" /\ client.pc = "read"
    /\ ~ wsClosed /\ peer.frames # <<>>
    /\ peer' = [peer EXCEPT !.frames = Tail(@)]
    /\ first' = IF first = none THEN Head(peer.frames) ELSE first
    /\ encodingC' = Announce(Head(peer.frames))
    /\ \/ client' = [client EXCEPT !.pc = "send"]
       \/ client' = [pc |-> "returning", err |-> "invalid frame"]
    /\ UNCHANGED <<shared, cancelled, wsClosed, server, result, upstream, written>>

\* A frame is read; the first one decides the encoding.  It decodes or not.
ClientReads ==
    /\ phase = "bridged" /\ client.pc = "read"
    /\ ~ wsClosed /\ peer.frames # <<>>
    /\ peer' = [peer EXCEPT !.frames = Tail(@)]
    /\ first' = IF first = none THEN Head(peer.frames) ELSE first
    /\ encodingC' = Announce(Head(peer.frames))
    /\ \/ client' = [client EXCEPT !.pc = "send"] /\ UNCHANGED cancelled
       \/ client' = [pc |-> "returning", err |-> "invalid frame"] /\ cancelled' = TRUE
    /\ UNCHANGED <<shared, wsClosed, server, result, upstream, written>>

\* SendMsg waits for the upstream to read: the stream goes on and the window is full.
SendBlocked ==
    client.pc = "send" /\ ~ cancelled /\ upstream.state = "open" /\ upstream.buffered = Window

\* SendMsg reports a broken stream as io.EOF, and blocks while the window is full.
ClientSends ==
    /\ client.pc = "send"
    /\ IF cancelled \/ upstream.state # "open"
       THEN client' = [pc |-> "returning", err |-> "io.EOF"] /\ UNCHANGED upstream
       ELSE /\ upstream.buffered < Window
            /\ upstream' = [upstream EXCEPT !.buffered = @ + 1]
            /\ client' = [client EXCEPT !.pc = "read"]
    /\ UNCHANGED <<shared, cancelled, wsClosed, encodingC, server, result, peer, history>>

\* SendMsg refuses the message itself (it is too large, or does not encode): any other
\* error, and the client library ends the RPC on its side.
SendRefused ==
    /\ client.pc = "send"
    /\ client' = [pc |-> "returning", err |-> "send error"]
    /\ upstream' = [upstream EXCEPT !.state = IF @ = "open" THEN "aborted" ELSE @]
    /\ UNCHANGED <<shared, cancelled, wsClosed, encodingC, server, result, peer, history>>

\* The errgroup records the pump's error if it is the first.
ClientReturns ==
    /\ client.pc = "returning"
    /\ result' = IF result = "nil" THEN client.err ELSE result
    /\ client' = [client EXCEPT !.pc = "done"]
    /\ UNCHANGED <<shared, cancelled, wsClosed, encodingC, server, peer, upstream, history>>

-----------------------------------------------------------------------------
(* server -> client *)

\* Fault: the socket stays open.
ServerLeavesSocketOpen(err) ==
    /\ server' = [server EXCEPT !.pc = "returning", !.err = err]
    /\ UNCHANGED wsClosed

\* Leaving the server pump runs its deferred ws.Close.
ServerLeaves(err) ==
    /\ server' = [server EXCEPT !.pc = "returning", !.err = err]
    /\ wsClosed' = TRUE

\* Fault: the pump does not wait for the first frame.
ServerSelectsNoWait ==
    /\ phase = "bridged" /\ server.pc = "select"
    /\ server' = [server EXCEPT !.pc = "recv", !.encoding = IF encodingC = none THEN @ ELSE encodingC]
    /\ encodingC' = none
    /\ UNCHANGED <<shared, cancelled, wsClosed, client, result, peer, upstream, history>>

\* The select between encodingC and ctx.Done: either, if both are ready.
ServerSelects ==
    /\ phase = "bridged" /\ server.pc = "select"
    /\ \/ /\ encodingC # none
          /\ server' = [server EXCEPT !.pc = "recv", !.encoding = encodingC]
          /\ encodingC' = none
          /\ UNCHANGED wsClosed
       \/ /\ cancelled
          /\ ServerLeaves("nil")
          /\ UNCHANGED encodingC
    /\ UNCHANGED <<shared, cancelled, client, result, peer, upstream, history>>

\* RecvMsg: a message, which marshalWSFrame encodes or not, or the end of the stream once
\* they are all read; a stream that this side ended may be noticed before either.
ServerReceives ==
    /\ server.pc = "recv"
    /\ \/ /\ upstream.msgs > 0
          /\ upstream' = [upstream EXCEPT !.msgs = @ - 1]
          /\ \/ server' = [server EXCEPT !.pc = "write"] /\ UNCHANGED wsClosed
             \/ ServerLeaves("marshal error")
       \/ /\ upstream.msgs = 0 /\ upstream.state = "ended"
          /\ ServerLeaves("io.EOF") /\ UNCHANGED upstream
       \/ /\ upstream.msgs = 0 /\ upstream.state = "failed"
          /\ ServerLeaves("status") /\ UNCHANGED upstream
       \/ /\ upstream.state = "aborted"
          /\ ServerLeaves("status") /\ UNCHANGED upstream
       \/ /\ cancelled
          /\ ServerLeaves("canceled") /\ UNCHANGED upstream
    /\ UNCHANGED <<shared, cancelled, encodingC, client, result, peer, history>>

\* WriteMessage waits for a peer that stays and does not read.
WriteBlocked == server.pc = "write" /\ peer.state = "open" /\ peer.unread = PeerWindow

\* WriteMessage: the frame takes the type of the first client frame.  The write fails
\* once the peer has gone, at the latest when the buffers are full.
ServerWrites ==
    /\ server.pc = "write"
    /\ \/ /\ peer.unread < PeerWindow
          /\ peer' = [peer EXCEPT !.unread = @ + 1]
          /\ written' = written \cup {server.encoding}
          /\ server' = [server EXCEPT !.pc = "recv"]
          /\ UNCHANGED wsClosed
       \/ peer.state # "open" /\ ServerLeaves("write error") /\ UNCHANGED <<peer, written>>
    /\ UNCHANGED <<shared, cancelled, encodingC, client, result, upstream, first>>

ServerReturns ==
    /\ server.pc = "returning"
    /\ result' = IF result = "nil" THEN server.err ELSE result
    /\ server' = [server EXCEPT !.pc = "done"]
    /\ UNCHANGED <<shared, cancelled, wsClosed, encodingC, client, peer, upstream, history>>

-----------------------------------------------------------------------------
(* The environment. *)

PeerSends ==
    /\ peer.state = "open" /\ peer.sent < MaxFrames
    /\ \E frame \in Frame :
          peer' = [peer EXCEPT !.sent = @ + 1, !.frames = Append(@, frame)]
    /\ UNCHANGED <<shared, cancelled, wsClosed, encodingC, client, server, result,
                   upstream, history>>

PeerReads ==
    /\ peer.state = "open" /\ peer.unread > 0
    /\ peer' = [peer EXCEPT !.unread = @ - 1]
    /\ UNCHANGED <<shared, cancelled, wsClosed, encodingC, client, server, result,
                   upstream, history>>

\* The peer ends the connection with a close frame, or it just goes away.
PeerLeaves ==
    /\ peer.state = "open"
    /\ \E how \in {"closed", "dropped"} : peer' = [peer EXCEPT !.state = how]
    /\ UNCHANGED <<shared, cancelled, wsClosed, encodingC, client, server, result,
                   upstream, history>>

UpstreamSends ==
    /\ phase = "bridged" /\ upstream.state = "open" /\ upstream.sent < MaxMsgs
    /\ upstream' = [upstream EXCEPT !.sent = @ + 1, !.msgs = @ + 1]
    /\ UNCHANGED <<shared, cancelled, wsClosed, encodingC, client, server, result,
                   peer, history>>

UpstreamConsumes ==
    /\ upstream.state = "open" /\ upstream.buffered > 0
    /\ upstream' = [upstream EXCEPT !.buffered = @ - 1]
    /\ UNCHANGED <<shared, cancelled, wsClosed, encodingC, client, server, result,
                   peer, history>>

\* The RPC returns, with OK or with another status.
UpstreamEnds ==
    /\ phase = "bridged" /\ upstream.state = "open"
    /\ \E how \in {"ended", "failed"} : upstream' = [upstream EXCEPT !.state = how]
    /\ UNCHANGED <<shared, cancelled, wsClosed, encodingC, client, server, result,
                   peer, history>>

ClientPump == ClientReadFails \/ ClientReads \/ ClientSends \/ ClientReturns
ServerPump == ServerSelects \/ ServerReceives \/ ServerWrites \/ ServerReturns
Bridge     == Opened \/ OpenFails \/ Wait
Environment ==
    \/ PeerSends \/ PeerReads \/ PeerLeaves
    \/ UpstreamSends \/ UpstreamConsumes \/ UpstreamEnds

Next == Bridge \/ ClientPump \/ SendRefused \/ ServerPump \/ Environment

Spec == Init /\ [][Next]_vars

\* Goroutines are scheduled.  Nothing is asked of the environment: neither side has to
\* send, to read or to leave, and SendMsg need not refuse a message.
Fairness == WF_vars(Bridge) /\ WF_vars(ClientPump) /\ WF_vars(ServerPump)

FairSpec == Spec /\ Fairness

-----------------------------------------------------------------------------
(* Properties. *)

ClientErrors == {"nil", "use of closed connection", "close frame", "abnormal closure",
                 "invalid frame", "io.EOF", "send error"}
ServerErrors == {"nil", "io.EOF", "status", "canceled", "marshal error", "write error"}

CallTypeOK ==
    /\ phase \in {"opening", "bridged", "ended"}
    /\ connHeld \in BOOLEAN /\ cancelled \in BOOLEAN /\ wsClosed \in BOOLEAN
    /\ result \in ClientErrors \cup ServerErrors \cup {"unavailable"}

EncodingTypeOK ==
    encodingC \in Frame \cup {none} /\ first \in Frame \cup {none} /\ written \subseteq Frame

PumpsTypeOK ==
    /\ client \in [pc : {"read", "send", "returning", "done"}, err : ClientErrors]
    /\ server \in [pc : {"select", "recv", "write", "returning", "done"}, err : ServerErrors,
                   encoding : Frame]

PeerTypeOK ==
    /\ peer \in [state : {"open", "closed", "dropped"}, sent : 0 .. MaxFrames, frames : Seq(Frame),
                unread : 0 .. PeerWindow]
    /\ Len(peer.frames) <= peer.sent

UpstreamTypeOK ==
    /\ upstream \in [state : {"open", "ended", "failed", "aborted"}, sent : 0 .. MaxMsgs,
                     msgs : 0 .. MaxMsgs, buffered : 0 .. Window]
    /\ upstream.msgs <= upstream.sent

TypeOK == CallTypeOK /\ EncodingTypeOK /\ PumpsTypeOK /\ PeerTypeOK /\ UpstreamTypeOK

\* Every frame written to the client has the type of the first frame the client
\* sent, although the two are handled by different goroutines.
EncodingMirrored == written \subseteq {first}

\* "When one finishes it unblocks the other": once a pump is leaving, the other is not
\* left in the call that only the first one, or the far side, can end: the server pump's
\* select and RecvMsg, the client pump's ReadMessage.  (SendMsg to an upstream that stops
\* reading, and WriteMessage to a peer that does, are ended by nobody here.)
PumpsUnblockEachOther ==
    /\ client.pc \in {"returning", "done"} =>
          /\ server.pc = "select" => cancelled \/ encodingC # none
          /\ server.pc = "recv"   => cancelled \/ upstream.state # "open"
    /\ server.pc \in {"returning", "done"} /\ client.pc = "read" => wsClosed

\* A nil error means that the upstream's RPC is over or that the peer sent a close
\* frame: an invalid frame, a refused message, a dropped socket, a cancelled context or a
\* failed write never passes for a normal end, whichever pump the errgroup hears first.
\* Neither does a status that the server pump saw, unless the peer was leaving too or the
\* client pump was sending and got SendMsg's io.EOF for the same failure.
NilMeansNormalEnd ==
    (phase = "ended" /\ result = "nil") =>
        /\ upstream.state \in {"ended", "failed"} \/ peer.state = "closed"
        /\ server.err = "status" => peer.state # "open" \/ client.err = "io.EOF"

\* A peer that leaves ends the stream, and the pooled connection is given back, whatever
\* the upstream sends or leaves unsaid, with one exception: an upstream that stays and
\* stops reading holds the client pump in SendMsg, and then nobody notices the leaving.
PeerLeavingEndsStream ==
    \/ <>[]SendBlocked
    \/ (phase = "bridged" /\ peer.state # "open") ~> (phase = "ended" /\ ~ connHeld)

\* The end of the upstream's RPC, normal or not, closes the WebSocket once the client
\* has sent its first frame, unless the peer stays and stops reading what is written to
\* it.  (Before the first frame the server pump does not look at the stream.)
ServerEndClosesWebSocket ==
    \/ <>[]WriteBlocked
    \/ (phase = "bridged" /\ upstream.state # "open" /\ first # none) ~> wsClosed
=============================================================================
