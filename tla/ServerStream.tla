---------------------------- MODULE ServerStream ----------------------------
(***************************************************************************)
(* Server-streaming RPCs relayed as Server-Sent Events: InvokeServerStream *)
(* of transport/gateway/proxy_stream.go.  The handler opens the stream and *)
(* returns; the body writer, which fasthttp runs in a goroutine of its     *)
(* own, relays the messages and only then hands the connection back.       *)
(*                                                                         *)
(* The stream's context does not depend on the request: the writer notices *)
(* that its client has left when it flushes the next message.              *)
(***************************************************************************)
EXTENDS Naturals, FiniteSets

CONSTANTS
    Clients,  \* clients, each with one request
    Conns,    \* pooled connections
    NoConn,   \* none of them
    MaxMsgs   \* bound: messages that the upstream sends on one stream

VARIABLES
    open,     \* the pooled connections that have not been closed
    inflight, \* inflight[conn]: what the route's balancer counts
    client    \* client[c]: the request

\* pc: where handler or writer is.  pool: the connections of the route; claims: the
\* required claims are there; conn: the pooled connection it holds; ctx: the stream's context;
\* gone: the client has left; msgs: sent by the upstream and not yet received; ended: the
\* upstream has ended the stream.
Request == [pc : {"idle", "pick", "bind", "claims", "open", "send", "recv", "flush", "done"},
            pool : SUBSET Conns, claims : BOOLEAN, conn : Conns \cup {NoConn},
            ctx : {"none", "live", "cancelled"}, gone : BOOLEAN,
            msgs : 0 .. MaxMsgs, sent : 0 .. MaxMsgs, ended : BOOLEAN]

Idle == [pc |-> "idle", pool |-> {}, claims |-> FALSE, conn |-> NoConn, ctx |-> "none",
         gone |-> FALSE, msgs |-> 0, sent |-> 0, ended |-> FALSE]

Init ==
    /\ inflight = [k \in Conns |-> 0]
    /\ client = [c \in Clients |-> Idle]

\* The chain of handlers has let the request through to the route.
Begin(c, pool, claims) ==
    /\ client[c].pc = "idle"
    /\ client' = [client EXCEPT ![c].pc = "pick", ![c].pool = pool, ![c].claims = claims]
    /\ UNCHANGED inflight

At(c, pc) == client[c].pc = pc
Go(c, pc) == client' = [client EXCEPT ![c].pc = pc]

\* What release does; it does nothing for a connection that was dialed.
released(c) ==
    IF client[c].conn = NoConn THEN inflight ELSE [inflight EXCEPT ![client[c].conn] = @ - 1]

\* The pooled connection was closed under the request.
Closed(c) == client[c].conn # NoConn /\ client[c].conn \notin open

\* Fault: an error path that forgets to release.
returnsKeeping(c) ==
    /\ client' = [client EXCEPT ![c].pc = "done", ![c].conn = NoConn,
                                ![c].ctx = IF @ = "live" THEN "cancelled" ELSE @]
    /\ UNCHANGED inflight

\* The handler answers with an error, or the writer returns: cancel and release.
returns(c) ==
    /\ client' = [client EXCEPT ![c].pc = "done", ![c].conn = NoConn,
                                ![c].ctx = IF @ = "live" THEN "cancelled" ELSE @]
    /\ inflight' = released(c)

\* pickConn takes one of the pool; without a pool the target is dialed, which may fail.
PickConn(c) ==
    /\ At(c, "pick")
    /\ \/ \E k \in client[c].pool :
            /\ client' = [client EXCEPT ![c].pc = "bind", ![c].conn = k]
            /\ inflight' = [inflight EXCEPT ![k] = @ + 1]
       \/ client[c].pool = {} /\ Go(c, "bind") /\ UNCHANGED inflight
       \/ client[c].pool = {} /\ returns(c)

\* Fault: see BindRequest.
BindRequestKeeping(c) ==
    /\ At(c, "bind")
    /\ \/ client' = [client EXCEPT ![c].pc = "claims", ![c].ctx = "live"] /\ UNCHANGED inflight
       \/ returnsKeeping(c)

\* bindProtoRequest: the payload of body, query and path fits the message or not.  Then
\* the stream gets a context of its own.
BindRequest(c) ==
    /\ At(c, "bind")
    /\ \/ client' = [client EXCEPT ![c].pc = "claims", ![c].ctx = "live"] /\ UNCHANGED inflight
       \/ returns(c)

Claims(c) ==
    /\ At(c, "claims")
    /\ IF client[c].claims THEN Go(c, "open") /\ UNCHANGED inflight ELSE returns(c)

\* NewStream, which fails on a closed connection and may fail on any.
NewStream(c) ==
    /\ At(c, "open")
    /\ (~ Closed(c) /\ Go(c, "send") /\ UNCHANGED inflight) \/ returns(c)

\* SendMsg, CloseSend; the writer takes over.
SendMsg(c) ==
    /\ At(c, "send")
    /\ (~ Closed(c) /\ Go(c, "recv") /\ UNCHANGED inflight) \/ returns(c)

\* Fault: only the end of the stream ends the writer.
RecvMsgUntilEOF(c) ==
    /\ At(c, "recv")
    /\ \/ /\ client[c].msgs > 0
          /\ client' = [client EXCEPT ![c].pc = "flush", ![c].msgs = @ - 1]
          /\ UNCHANGED inflight
       \/ client[c].ended /\ returns(c)

\* RecvMsg and the encoding of the message.  The end of the stream, a closed connection
\* and a message that cannot be encoded end the writer.
RecvMsg(c) ==
    /\ At(c, "recv")
    /\ \/ /\ client[c].msgs > 0
          /\ client' = [client EXCEPT ![c].pc = "flush", ![c].msgs = @ - 1]
          /\ UNCHANGED inflight
       \/ /\ client[c].msgs > 0 \/ client[c].ended \/ Closed(c)
          /\ returns(c)

\* Fault: an error of Flush is ignored.
FlushBlind(c) == At(c, "flush") /\ Go(c, "recv") /\ UNCHANGED inflight

\* Flush fails once the client has left.  If the client stays, it returns when there is room
\* for the message: see Unread.
Flush(c) ==
    /\ At(c, "flush")
    /\ IF client[c].gone THEN returns(c) ELSE Go(c, "recv") /\ UNCHANGED inflight

\* Nothing bounds Flush while the client stays and does not read.
Unread(c) == At(c, "flush") /\ ~ client[c].gone

\* The handler or the writer may have to wait: for the client, or for an upstream that does
\* not take the call while the connection is there.
Waits(c) == Unread(c) \/ (client[c].pc \in {"open", "send"} /\ ~ Closed(c))

Step(c) == \/ PickConn(c) \/ BindRequest(c) \/ Claims(c) \/ NewStream(c) \/ SendMsg(c)
           \/ RecvMsg(c) \/ Flush(c)

-----------------------------------------------------------------------------
(* The client and the upstream (external). *)

Leaves(c) ==
    /\ client[c].pc \notin {"idle", "done"} /\ ~ client[c].gone
    /\ client' = [client EXCEPT ![c].gone = TRUE]
    /\ UNCHANGED inflight

Streaming(c) == client[c].pc \in {"recv", "flush"}

UpstreamSends(c) ==
    /\ Streaming(c) /\ ~ client[c].ended /\ client[c].sent < MaxMsgs
    /\ client' = [client EXCEPT ![c].msgs = @ + 1, ![c].sent = @ + 1]
    /\ UNCHANGED inflight

UpstreamEnds(c) ==
    /\ Streaming(c) /\ ~ client[c].ended
    /\ client' = [client EXCEPT ![c].ended = TRUE]
    /\ UNCHANGED inflight

Environment(c) == Leaves(c) \/ UpstreamSends(c) \/ UpstreamEnds(c)

-----------------------------------------------------------------------------
(* Properties. *)

TypeOK == client \in [Clients -> Request] /\ inflight \in [Conns -> Nat]

\* Whatever way a request ends, its connection is handed back exactly once and its
\* context is cancelled: the balancer counts the requests that hold a connection, and
\* only they have a live context.
NothingLeaked ==
    /\ \A k \in Conns : inflight[k] = Cardinality({c \in Clients : client[c].conn = k})
    /\ \A c \in Clients : client[c].pc = "done" => client[c].conn = NoConn /\ client[c].ctx # "live"

\* A stream whose client has left ends with the next message of the upstream, and with
\* it the connection is given back.
LeavingEndsStream ==
    \A c \in Clients : (client[c].gone /\ client[c].msgs > 0) ~> client[c].pc = "done"
=============================================================================
