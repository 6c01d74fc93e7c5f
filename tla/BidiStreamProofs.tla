-------------------------- MODULE BidiStreamProofs --------------------------
(***************************************************************************)
(* TLAPS proofs about BidiStream, for any number of frames and messages    *)
(* and any window.                                                         *)
(***************************************************************************)
EXTENDS BidiStream, TLAPS

\* The type of the first frame is in the channel, then with the server pump, and the
\* pump neither receives nor writes without it.
FirstFrameDecides ==
    /\ encodingC # none => encodingC = first
    /\ server.pc \in {"recv", "write"} => first = server.encoding
    /\ EncodingMirrored

\* A pump has an error once it leaves, and what the error says about the outside is true.
ErrorsExplained ==
    /\ client.err # "nil" <=> client.pc \in {"returning", "done"}
    /\ server.pc \in {"select", "recv", "write"} => server.err = "nil"
    /\ client.err = "io.EOF" => upstream.state \in {"ended", "failed"}
    /\ client.err = "close frame" => peer.state = "closed"
    /\ server.err = "io.EOF" => upstream.state \in {"ended", "failed"}
    /\ upstream.state = "aborted" => client.err = "send error"

\* While the pumps run only the client pump cancels the context, as its last act, and
\* it sends at no other time.
CancelledByClient ==
    /\ phase = "bridged" /\ cancelled => client.pc \in {"returning", "done"}
    /\ phase # "bridged" => client.pc # "send"

\* The errgroup's error is that of a pump; the client pump has always left one.
ResultFromPump ==
    /\ phase = "opening" => result = "nil" /\ ~ cancelled
    /\ phase = "opening" \/ result = "unavailable" => client.pc = "read" /\ server.pc = "select"
    /\ phase = "bridged" => /\ result \in {"nil", client.err, server.err}
                            /\ client.pc = "done" => result # "nil"
    /\ phase = "ended" /\ result # "unavailable" => client.pc = "done" /\ server.pc = "done"

\* What a leaving pump leaves behind for the other to notice: an ended context, an RPC
\* that is over or a closed socket; and the first frame's type waits for the server pump.
LeavingTells ==
    /\ client.pc \in {"returning", "done"} =>
          /\ cancelled \/ upstream.state # "open"
          /\ cancelled \/ first # none
    /\ server.pc \in {"returning", "done"} => wsClosed
    /\ client.pc = "send" => first # none
    /\ server.pc = "select" /\ first # none => encodingC # none

IInv ==
    /\ TypeOK
    /\ FirstFrameDecides
    /\ ErrorsExplained
    /\ CancelledByClient
    /\ ResultFromPump
    /\ LeavingTells
    /\ NilMeansNormalEnd

-----------------------------------------------------------------------------
LEMMA InitIInv == Init => IInv
<1> SUFFICES ASSUME Init PROVE IInv
  OBVIOUS
<1> USE BidiAssumption DEF Init, none
<1>1. CallTypeOK /\ EncodingTypeOK /\ PumpsTypeOK
  BY DEF CallTypeOK, EncodingTypeOK, PumpsTypeOK, ClientErrors, ServerErrors, Frame
<1>2. PeerTypeOK
  <2>1. <<>> \in Seq(Frame) /\ Len(<<>>) = 0
    OBVIOUS
  <2> QED BY <2>1 DEF PeerTypeOK
<1>3. UpstreamTypeOK
  BY DEF UpstreamTypeOK
<1>4. FirstFrameDecides /\ ErrorsExplained /\ CancelledByClient /\ ResultFromPump
  BY DEF FirstFrameDecides, EncodingMirrored, ErrorsExplained, CancelledByClient, ResultFromPump
<1>5. LeavingTells /\ NilMeansNormalEnd
  BY DEF LeavingTells, NilMeansNormalEnd
<1> QED BY <1>1, <1>2, <1>3, <1>4, <1>5 DEF IInv, TypeOK

\* InvokeStream around the pumps: Wait turns the pumps' errors into its own.
LEMMA BridgeKeepsIInv ==
    ASSUME IInv, Bridge
    PROVE  IInv'
<1> USE DEF IInv, TypeOK, Bridge, Opened, OpenFails, Wait, history, isNormalStreamClose
<1>1. CallTypeOK'
  BY DEF CallTypeOK, ClientErrors, ServerErrors
<1>2. EncodingTypeOK' /\ PumpsTypeOK' /\ PeerTypeOK' /\ UpstreamTypeOK'
  BY DEF EncodingTypeOK, PumpsTypeOK, PeerTypeOK, UpstreamTypeOK
<1>3. FirstFrameDecides' /\ ErrorsExplained'
  BY DEF FirstFrameDecides, EncodingMirrored, ErrorsExplained
<1>4. CancelledByClient'
  <2>1. CASE Opened
    <3>1. ~ cancelled'
      BY <2>1 DEF ResultFromPump
    <3> QED BY <2>1, <3>1 DEF CancelledByClient
  <2>2. CASE OpenFails \/ Wait
    BY <2>2 DEF CancelledByClient, ResultFromPump
  <2> QED BY <2>1, <2>2
<1>5. ResultFromPump'
  BY DEF ResultFromPump, PumpsTypeOK, ClientErrors, ServerErrors
<1>6. LeavingTells'
  BY DEF LeavingTells
<1>7. NilMeansNormalEnd'
  BY DEF NilMeansNormalEnd, ResultFromPump, ErrorsExplained, PumpsTypeOK, ClientErrors, ServerErrors
<1> QED BY <1>1, <1>2, <1>3, <1>4, <1>5, <1>6, <1>7

\* The client pump leaves with its error, or reads the frame that decides the encoding.
LEMMA ClientReadFailsKeepsIInv ==
    ASSUME IInv, ClientReadFails
    PROVE  IInv'
<1> USE DEF IInv, TypeOK, ClientReadFails, shared, history, ReadError
<1>1. CallTypeOK' /\ EncodingTypeOK' /\ PeerTypeOK' /\ UpstreamTypeOK'
  BY DEF CallTypeOK, EncodingTypeOK, PeerTypeOK, UpstreamTypeOK
<1>2. PumpsTypeOK'
  BY DEF PumpsTypeOK, ClientErrors
<1>3. FirstFrameDecides'
  BY DEF FirstFrameDecides, EncodingMirrored
<1>4. ErrorsExplained'
  BY DEF ErrorsExplained, PeerTypeOK
<1>5. CancelledByClient' /\ ResultFromPump'
  BY DEF CancelledByClient, ResultFromPump, ErrorsExplained
<1>6. LeavingTells' /\ NilMeansNormalEnd'
  BY DEF LeavingTells, NilMeansNormalEnd
<1> QED BY <1>1, <1>2, <1>3, <1>4, <1>5, <1>6

LEMMA ClientReadsKeepsIInv ==
    ASSUME IInv, ClientReads
    PROVE  IInv'
<1> USE DEF IInv, TypeOK, shared
<1>1. /\ phase = "bridged" /\ client.pc = "read"
      /\ peer' = [peer EXCEPT !.frames = Tail(peer.frames)]
      /\ \/ client' = [client EXCEPT !.pc = "send"] /\ UNCHANGED cancelled
         \/ client' = [pc |-> "returning", err |-> "invalid frame"] /\ cancelled' = TRUE
      /\ UNCHANGED <<phase, connHeld, wsClosed, server, result, upstream, written>>
  BY DEF ClientReads
<1>2. PICK frame \in Frame :
        /\ first' = IF first = none THEN frame ELSE first
        /\ encodingC' = IF first = none THEN frame ELSE encodingC
  <2>1. peer.frames \in Seq(Frame) /\ peer.frames # <<>>
    BY DEF PeerTypeOK, ClientReads
  <2>2. Head(peer.frames) \in Frame
    BY <2>1
  <2> QED BY <2>2 DEF ClientReads, Announce
<1>3. peer' \in [state : {"open", "closed", "dropped"}, sent : 0 .. MaxFrames, frames : Seq(Frame),
                   unread : 0 .. PeerWindow]
      /\ peer'.state = peer.state
      /\ Len(peer'.frames) <= peer'.sent
  <2>1. peer.frames \in Seq(Frame) /\ peer.frames # <<>>
    BY DEF PeerTypeOK, ClientReads
  <2>2. Tail(peer.frames) \in Seq(Frame) /\ Len(Tail(peer.frames)) = Len(peer.frames) - 1
    BY <2>1
  <2>3. Len(peer.frames) \in Nat
    BY <2>1
  <2>4. peer.sent \in Nat
    BY BidiAssumption DEF PeerTypeOK
  <2>5. Len(Tail(peer.frames)) <= peer.sent
    BY <2>2, <2>3, <2>4 DEF PeerTypeOK
  <2> QED BY <1>1, <2>2, <2>5 DEF PeerTypeOK
<1>4. CallTypeOK' /\ EncodingTypeOK' /\ UpstreamTypeOK'
  BY <1>1, <1>2 DEF CallTypeOK, EncodingTypeOK, UpstreamTypeOK
<1>5. /\ PumpsTypeOK'
      /\ \/ client'.pc = "send" /\ client'.err = client.err /\ UNCHANGED cancelled
         \/ client'.pc = "returning" /\ client'.err = "invalid frame" /\ cancelled' = TRUE
  <2>1. CASE client' = [client EXCEPT !.pc = "send"] /\ UNCHANGED cancelled
    BY <1>1, <2>1 DEF PumpsTypeOK
  <2>2. CASE client' = [pc |-> "returning", err |-> "invalid frame"] /\ cancelled' = TRUE
    BY <1>1, <2>2 DEF PumpsTypeOK, ClientErrors
  <2> QED BY <1>1, <2>1, <2>2
<1>6. PeerTypeOK'
  BY <1>3 DEF PeerTypeOK
<1>7. FirstFrameDecides'
  BY <1>1, <1>2 DEF FirstFrameDecides, EncodingMirrored, EncodingTypeOK, PumpsTypeOK, Frame, none
<1>8. ErrorsExplained'
  BY <1>1, <1>3, <1>5 DEF ErrorsExplained
<1>9. CancelledByClient'
  <2>1. ~ cancelled
    BY <1>1 DEF CancelledByClient
  <2>2. cancelled' = cancelled \/ client'.pc = "returning"
    BY <1>5
  <2>3. ~ cancelled' \/ client'.pc = "returning"
    BY <2>1, <2>2, Zenon
  <2> QED BY <1>1, <2>3 DEF CancelledByClient
<1>10. ResultFromPump'
  <2>1. client.err = "nil"
    BY <1>1 DEF ErrorsExplained
  <2>2. result \in {"nil", server.err} /\ result # "unavailable"
    BY <1>1, <2>1 DEF ResultFromPump, PumpsTypeOK, ServerErrors
  <2> QED BY <1>1, <1>5, <2>2 DEF ResultFromPump
<1>11. LeavingTells' /\ NilMeansNormalEnd'
  <2>1. first' # none /\ (server.pc = "select" => encodingC' # none)
    BY <1>2 DEF LeavingTells, Frame, none
  <2> QED BY <1>1, <1>5, <2>1 DEF LeavingTells, NilMeansNormalEnd
<1> QED BY <1>4, <1>5, <1>6, <1>7, <1>8, <1>9, <1>10, <1>11

LEMMA ClientSendsKeepsIInv ==
    ASSUME IInv, ClientSends
    PROVE  IInv'
<1> USE DEF IInv, TypeOK, ClientSends, shared, history
<1>1. CallTypeOK' /\ EncodingTypeOK' /\ PeerTypeOK'
  BY DEF CallTypeOK, EncodingTypeOK, PeerTypeOK
<1>2. client.pc = "send" /\ phase = "bridged" /\ ~ cancelled /\ client.err = "nil"
  BY DEF CancelledByClient, ErrorsExplained
<1>3. /\ PumpsTypeOK'
      /\ upstream'.state = upstream.state
      /\ \/ /\ client'.pc = "returning" /\ client'.err = "io.EOF"
            /\ upstream.state \in {"ended", "failed"}
         \/ client'.pc = "read" /\ client'.err = client.err
  <2>1. CASE upstream.state # "open"
    <3>1. client' = [pc |-> "returning", err |-> "io.EOF"] /\ UNCHANGED <<upstream, server>>
      BY <2>1
    <3>2. upstream.state \in {"ended", "failed"}
      BY <1>2, <2>1 DEF ErrorsExplained, UpstreamTypeOK
    <3> QED BY <3>1, <3>2 DEF PumpsTypeOK, ClientErrors
  <2>2. CASE upstream.state = "open"
    BY <1>2, <2>2 DEF PumpsTypeOK, UpstreamTypeOK
  <2> QED BY <2>1, <2>2
<1>4. UpstreamTypeOK'
  BY BidiAssumption DEF UpstreamTypeOK
<1>5. FirstFrameDecides'
  BY DEF FirstFrameDecides, EncodingMirrored
<1>6. ErrorsExplained'
  BY <1>2, <1>3 DEF ErrorsExplained
<1>7. CancelledByClient' /\ ResultFromPump'
  BY <1>2, <1>3 DEF CancelledByClient, ResultFromPump
<1>8. LeavingTells' /\ NilMeansNormalEnd'
  BY <1>2, <1>3 DEF LeavingTells, NilMeansNormalEnd
<1> QED BY <1>1, <1>3, <1>4, <1>5, <1>6, <1>7, <1>8

LEMMA SendRefusedKeepsIInv ==
    ASSUME IInv, SendRefused
    PROVE  IInv'
<1> USE DEF IInv, TypeOK, SendRefused, shared, history
<1>1. CallTypeOK' /\ EncodingTypeOK' /\ PeerTypeOK'
  BY DEF CallTypeOK, EncodingTypeOK, PeerTypeOK
<1>2. client.pc = "send" /\ phase = "bridged" /\ client.err = "nil"
  BY DEF CancelledByClient, ErrorsExplained
<1>3. PumpsTypeOK' /\ client'.pc = "returning" /\ client'.err = "send error"
  BY DEF PumpsTypeOK, ClientErrors
<1>4. /\ UpstreamTypeOK' /\ upstream'.state # "open"
      /\ upstream.state \in {"ended", "failed"} => upstream'.state = upstream.state
  BY DEF UpstreamTypeOK
<1>5. FirstFrameDecides'
  BY DEF FirstFrameDecides, EncodingMirrored
<1>6. ErrorsExplained'
  BY <1>2, <1>3, <1>4 DEF ErrorsExplained
<1>7. CancelledByClient' /\ ResultFromPump'
  BY <1>2, <1>3 DEF CancelledByClient, ResultFromPump
<1>8. LeavingTells' /\ NilMeansNormalEnd'
  BY <1>2, <1>3, <1>4 DEF LeavingTells, NilMeansNormalEnd
<1> QED BY <1>1, <1>3, <1>4, <1>5, <1>6, <1>7, <1>8

\* The errgroup hears of a pump's end.
LEMMA ReturnsKeepIInv ==
    ASSUME IInv, ClientReturns \/ ServerReturns
    PROVE  IInv'
<1> USE DEF IInv, TypeOK, ClientReturns, ServerReturns, shared, history
<1>1. CallTypeOK'
  BY DEF CallTypeOK, PumpsTypeOK
<1>2. EncodingTypeOK' /\ PeerTypeOK' /\ UpstreamTypeOK'
  BY DEF EncodingTypeOK, PeerTypeOK, UpstreamTypeOK
<1>3. PumpsTypeOK'
  BY DEF PumpsTypeOK
<1>4. FirstFrameDecides' /\ ErrorsExplained'
  BY DEF FirstFrameDecides, EncodingMirrored, ErrorsExplained, PumpsTypeOK
<1>5. phase = "bridged"
  BY DEF ResultFromPump, CallTypeOK
<1>6. CancelledByClient'
  BY <1>5 DEF CancelledByClient, PumpsTypeOK
<1>7. ResultFromPump'
  <2>1. client'.err = client.err /\ server'.err = server.err
    BY DEF PumpsTypeOK
  <2>2. client'.pc = "done" => client.pc = "done" \/ ClientReturns
    BY DEF PumpsTypeOK
  <2> QED BY <1>5, <2>1, <2>2 DEF ResultFromPump, ErrorsExplained, PumpsTypeOK, ClientErrors, ServerErrors
<1>8. LeavingTells' /\ NilMeansNormalEnd'
  BY <1>5 DEF LeavingTells, NilMeansNormalEnd, PumpsTypeOK
<1> QED BY <1>1, <1>2, <1>3, <1>4, <1>6, <1>7, <1>8

\* The server pump waits for the encoding, then relays, and closes the socket as it leaves.
LEMMA ServerPumpKeepsIInv ==
    ASSUME IInv, ServerSelects \/ ServerReceives \/ ServerWrites
    PROVE  IInv'
<1> USE DEF IInv, TypeOK, ServerSelects, ServerReceives, ServerWrites, ServerLeaves, shared, history
<1>1. CallTypeOK'
  BY DEF CallTypeOK
<1>2. EncodingTypeOK'
  BY DEF EncodingTypeOK, PumpsTypeOK
<1>3. PumpsTypeOK'
  BY DEF PumpsTypeOK, EncodingTypeOK, ServerErrors
<1>4. PeerTypeOK' /\ peer'.state = peer.state
  <2>1. CASE ServerWrites
    <3>1. peer.unread \in Nat /\ (peer.unread < PeerWindow => peer.unread + 1 \in 0 .. PeerWindow)
      BY BidiAssumption DEF PeerTypeOK
    <3> QED BY <2>1, <3>1 DEF PeerTypeOK
  <2>2. CASE UNCHANGED peer
    BY <2>2 DEF PeerTypeOK
  <2> QED BY <2>1, <2>2
<1>5. UpstreamTypeOK' /\ upstream'.state = upstream.state
  BY BidiAssumption DEF UpstreamTypeOK
<1>6. FirstFrameDecides'
  BY DEF FirstFrameDecides, EncodingMirrored, PumpsTypeOK
<1>7. ErrorsExplained'
  BY <1>4, <1>5 DEF ErrorsExplained, PumpsTypeOK, UpstreamTypeOK
<1>8. phase = "bridged"
  BY DEF ResultFromPump, CallTypeOK
<1>9. CancelledByClient'
  BY <1>8 DEF CancelledByClient
<1>10. ResultFromPump'
  BY <1>8 DEF ResultFromPump, ErrorsExplained, PumpsTypeOK
<1>11. LeavingTells' /\ NilMeansNormalEnd'
  BY <1>5, <1>8 DEF LeavingTells, NilMeansNormalEnd, PumpsTypeOK
<1> QED BY <1>1, <1>2, <1>3, <1>4, <1>5, <1>6, <1>7, <1>9, <1>10, <1>11

\* What peer and upstream do leaves the pumps alone; neither comes back.
LEMMA EnvironmentKeepsIInv ==
    ASSUME IInv, Environment
    PROVE  IInv'
<1> USE DEF IInv, TypeOK
<1>1. UNCHANGED <<phase, connHeld, cancelled, wsClosed, encodingC, client, server, result, first, written>>
  BY DEF Environment, PeerSends, PeerReads, PeerLeaves, UpstreamSends, UpstreamConsumes,
         UpstreamEnds, shared, history
<1>2. CallTypeOK' /\ EncodingTypeOK' /\ PumpsTypeOK'
  BY <1>1 DEF CallTypeOK, EncodingTypeOK, PumpsTypeOK
<1>3. PeerTypeOK' /\ (peer.state # "open" => peer'.state = peer.state)
  <2>1. CASE PeerSends
    <3>1. PICK frame \in Frame :
             peer' = [peer EXCEPT !.sent = peer.sent + 1, !.frames = Append(peer.frames, frame)]
      BY <2>1 DEF PeerSends
    <3>2. peer.frames \in Seq(Frame) /\ peer.sent \in 0 .. MaxFrames /\ peer.sent < MaxFrames
      BY <2>1 DEF PeerTypeOK, PeerSends
    <3>3. /\ Append(peer.frames, frame) \in Seq(Frame)
          /\ Len(Append(peer.frames, frame)) = Len(peer.frames) + 1
          /\ Len(peer.frames) \in Nat
      BY <3>2
    <3>4. peer.sent + 1 \in 0 .. MaxFrames
      BY <3>2, BidiAssumption
    <3>5. Len(peer.frames) + 1 <= peer.sent + 1
      BY <3>2, <3>3 DEF PeerTypeOK
    <3> QED BY <3>1, <3>3, <3>4, <3>5 DEF PeerTypeOK
  <2>2. CASE PeerLeaves
    BY <2>2 DEF PeerTypeOK, PeerLeaves
  <2>3. CASE UNCHANGED peer
    BY <2>3 DEF PeerTypeOK
  <2>4. CASE PeerReads
    <3>1. peer.unread \in 0 .. PeerWindow /\ peer.unread > 0
      BY <2>4 DEF PeerTypeOK, PeerReads
    <3>2. peer.unread - 1 \in 0 .. PeerWindow
      BY <3>1, BidiAssumption
    <3> QED BY <2>4, <3>2 DEF PeerTypeOK, PeerReads
  <2> QED BY <2>1, <2>2, <2>3, <2>4 DEF Environment, UpstreamSends, UpstreamConsumes, UpstreamEnds
<1>4. /\ UpstreamTypeOK' /\ (upstream.state # "open" => upstream'.state = upstream.state)
      /\ upstream'.state = "aborted" => upstream.state = "aborted"
  <2>1. CASE UpstreamSends
    <3>1. /\ upstream.sent \in 0 .. MaxMsgs /\ upstream.msgs \in 0 .. MaxMsgs
          /\ upstream.sent < MaxMsgs /\ upstream.msgs <= upstream.sent
      BY <2>1 DEF UpstreamTypeOK, UpstreamSends
    <3>2. /\ upstream.sent + 1 \in 0 .. MaxMsgs /\ upstream.msgs + 1 \in 0 .. MaxMsgs
          /\ upstream.msgs + 1 <= upstream.sent + 1
      BY <3>1, BidiAssumption
    <3> QED BY <2>1, <3>2 DEF UpstreamTypeOK, UpstreamSends
  <2>2. CASE UpstreamConsumes
    <3>1. upstream.buffered \in 0 .. Window /\ upstream.buffered > 0
      BY <2>2 DEF UpstreamTypeOK, UpstreamConsumes
    <3>2. upstream.buffered - 1 \in 0 .. Window
      BY <3>1, BidiAssumption
    <3> QED BY <2>2, <3>2 DEF UpstreamTypeOK, UpstreamConsumes
  <2>3. CASE UpstreamEnds
    BY <2>3 DEF UpstreamTypeOK, UpstreamEnds
  <2>4. CASE UNCHANGED upstream
    BY <2>4 DEF UpstreamTypeOK
  <2> QED BY <2>1, <2>2, <2>3, <2>4 DEF Environment, PeerSends, PeerReads, PeerLeaves
<1>5. FirstFrameDecides'
  BY <1>1 DEF FirstFrameDecides, EncodingMirrored
<1>6. ErrorsExplained'
  BY <1>1, <1>3, <1>4 DEF ErrorsExplained
<1>7. CancelledByClient' /\ ResultFromPump' /\ LeavingTells'
  BY <1>1, <1>4 DEF CancelledByClient, ResultFromPump, LeavingTells
<1>8. NilMeansNormalEnd'
  BY <1>1, <1>3, <1>4 DEF NilMeansNormalEnd
<1> QED BY <1>2, <1>3, <1>4, <1>5, <1>6, <1>7, <1>8

LEMMA StutterKeepsIInv == IInv /\ UNCHANGED vars => IInv'
<1> SUFFICES ASSUME IInv, UNCHANGED vars PROVE IInv'
  OBVIOUS
<1> USE DEF IInv, TypeOK, vars, shared, history
<1>1. TypeOK'
  BY DEF CallTypeOK, EncodingTypeOK, PumpsTypeOK, PeerTypeOK, UpstreamTypeOK
<1>2. FirstFrameDecides' /\ ErrorsExplained' /\ CancelledByClient' /\ ResultFromPump'
  BY DEF FirstFrameDecides, EncodingMirrored, ErrorsExplained, CancelledByClient, ResultFromPump
<1>3. LeavingTells' /\ NilMeansNormalEnd'
  BY DEF LeavingTells, NilMeansNormalEnd
<1> QED BY <1>1, <1>2, <1>3

LEMMA InvariantHolds == Spec => []IInv
<1>1. IInv /\ [Next]_vars => IInv'
  BY BridgeKeepsIInv, ClientReadFailsKeepsIInv, ClientReadsKeepsIInv, ClientSendsKeepsIInv,
     SendRefusedKeepsIInv, ReturnsKeepIInv, ServerPumpKeepsIInv, EnvironmentKeepsIInv, StutterKeepsIInv
  DEF Next, ClientPump, ServerPump
<1> QED BY InitIInv, <1>1, PTL DEF Spec

-----------------------------------------------------------------------------
\* The frames that proxyBidi writes have the type of the first frame that it read, however
\* the two pumps are scheduled.
THEOREM BidiEncodingMirrored == Spec => []EncodingMirrored
<1>1. IInv => EncodingMirrored
  BY DEF IInv, FirstFrameDecides
<1> QED BY InvariantHolds, <1>1, PTL

\* What proxyBidi's comment promises: a pump that finishes unblocks the other one's select,
\* RecvMsg or ReadMessage, however it finished.
THEOREM BidiPumpsUnblock == Spec => []PumpsUnblockEachOther
<1>1. IInv => PumpsUnblockEachOther
  BY DEF IInv, LeavingTells, PumpsUnblockEachOther
<1> QED BY InvariantHolds, <1>1, PTL

\* What isNormalStreamClose turns into nil was the end of the upstream's RPC or the peer's
\* close frame, whichever pump's error the errgroup heard first.
THEOREM BidiNilMeansNormalEnd == Spec => []NilMeansNormalEnd
<1>1. IInv => NilMeansNormalEnd
  BY DEF IInv
<1> QED BY InvariantHolds, <1>1, PTL
=============================================================================
