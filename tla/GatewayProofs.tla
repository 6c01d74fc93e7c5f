---------------------------- MODULE GatewayProofs ----------------------------
(***************************************************************************)
(* TLAPS proofs about Gateway, for any configurations, registrations and   *)
(* requests and any number of streaming clients.                           *)
(***************************************************************************)
EXTENDS Gateway, FiniteSetTheorems, SequenceTheorems, TLAPS

-----------------------------------------------------------------------------
(* The inductive invariant. *)

\* A request whose connections come from P.
RequestOn(P) ==
    [pc : {"idle", "pick", "bind", "claims", "open", "send", "recv", "flush", "done"},
     pool : SUBSET P, claims : BOOLEAN, conn : P \cup {NoConn},
     ctx : {"none", "live", "cancelled"}, gone : BOOLEAN,
     msgs : Int, sent : Int, ended : BOOLEAN]

Holding(requests, k) == {c \in Clients : requests[c].conn = k}

\* The balancers count the requests that hold a connection.
Counted == inflight \in [Conns -> Int] /\ \A k \in Conns : inflight[k] = Cardinality(Holding(client, k))

\* No connection before one is picked; neither connection nor context after the end.
HoldsWhileRunning ==
    \A c \in Clients :
        /\ client[c].pc \in {"idle", "pick", "done"} => client[c].conn = NoConn
        /\ client[c].pc = "done" => client[c].ctx # "live"

StreamInv(P) == client \in [Clients -> RequestOn(P)] /\ Counted /\ HoldsWhileRunning

\* The connections that Stop knows of.
Pooled == UNION {Pool(i, routes[i]) : i \in DOMAIN routes}

\* As long as Init has not failed, every connection it dialed belongs to a mounted route.
DialedIsPooled ==
    /\ \E R : routes \in Seq(R)
    /\ phase \notin {"failed", "stopped"} => open \subseteq Pooled
    /\ phase = "stopped" => open = {}

GatewayInv == (\E P : StreamInv(P)) /\ DialedIsPooled

-----------------------------------------------------------------------------
(* Connections are counted. *)

LEMMA HoldingFinite ==
  ASSUME NEW requests, NEW k
  PROVE  IsFiniteSet(Holding(requests, k)) /\ Cardinality(Holding(requests, k)) \in Nat
<1>1. Holding(requests, k) \in SUBSET Clients
  BY DEF Holding
<1>2. IsFiniteSet(Holding(requests, k))
  BY <1>1, GatewayAssumption, FS_Subset
<1> QED
  BY <1>2, FS_CardinalityType

\* A counter of a connection that no balancer knows does not exist.
LEMMA CountChange ==
  ASSUME inflight \in [Conns -> Int], NEW k, NEW n, k \in Conns => n \in Int,
         inflight' = [inflight EXCEPT ![k] = n]
  PROVE  /\ inflight' \in [Conns -> Int]
         /\ \A j \in Conns : inflight'[j] = IF j = k THEN n ELSE inflight[j]
<1>1. CASE k \in Conns
  BY <1>1
<1>2. CASE k \notin Conns
  <2>1. inflight' = inflight
    BY <1>2
  <2> QED
    BY <1>2, <2>1
<1> QED
  BY <1>1, <1>2

\* A request goes on with the connection it has.
LEMMA MoveKeepsCount ==
  ASSUME Counted, NEW c \in Clients, \A d \in Clients : d # c => client'[d] = client[d],
         client'[c].conn = client[c].conn, inflight' = inflight
  PROVE  Counted'
<1>1. \A k : Holding(client', k) = Holding(client, k)
  BY DEF Holding
<1> QED
  BY <1>1 DEF Counted

\* A request that has none takes the connection k.
LEMMA TakeKeepsCount ==
  ASSUME Counted, NEW c \in Clients, NEW k, \A d \in Clients : d # c => client'[d] = client[d],
         client[c].conn = NoConn, client'[c].conn = k, inflight' = [inflight EXCEPT ![k] = @ + 1]
  PROVE  Counted'
<1>1. NoConn \notin Conns /\ inflight \in [Conns -> Int]
  BY GatewayAssumption DEF Counted
<1>2. /\ inflight' \in [Conns -> Int]
      /\ \A j \in Conns : inflight'[j] = IF j = k THEN inflight[j] + 1 ELSE inflight[j]
  <2> DEFINE n == inflight[k] + 1
  <2>1. (k \in Conns => n \in Int) /\ inflight' = [inflight EXCEPT ![k] = n]
    BY <1>1
  <2> HIDE DEF n
  <2>2. /\ inflight' \in [Conns -> Int]
        /\ \A j \in Conns : inflight'[j] = IF j = k THEN n ELSE inflight[j]
    BY <1>1, <2>1, CountChange
  <2> QED
    BY <2>2 DEF n
<1>3. ASSUME NEW j \in Conns, j # k PROVE Holding(client', j) = Holding(client, j)
  BY <1>1, <1>3 DEF Holding
<1>4. ASSUME k \in Conns PROVE Cardinality(Holding(client', k)) = Cardinality(Holding(client, k)) + 1
  <2>1. Holding(client', k) = Holding(client, k) \cup {c} /\ c \notin Holding(client, k)
    BY <1>1, <1>4 DEF Holding
  <2>2. IsFiniteSet(Holding(client, k))
    BY HoldingFinite
  <2> QED
    BY <2>1, <2>2, FS_AddElement, ZenonT(30)
<1> QED
  BY <1>2, <1>3, <1>4 DEF Counted

\* A request gives back the connection it has, if any.
LEMMA ReleaseKeepsCount ==
  ASSUME Counted, NEW c \in Clients, \A d \in Clients : d # c => client'[d] = client[d],
         client'[c].conn = NoConn, inflight' = S!released(c)
  PROVE  Counted'
<1> DEFINE k == client[c].conn
<1>1. NoConn \notin Conns /\ inflight \in [Conns -> Int]
  BY GatewayAssumption DEF Counted
<1>2. /\ inflight' \in [Conns -> Int]
      /\ \A j \in Conns : inflight'[j] = IF j = k THEN inflight[j] - 1 ELSE inflight[j]
  <2>1. CASE k = NoConn
    BY <1>1, <2>1 DEF S!released
  <2>2. CASE k # NoConn
    <3> DEFINE n == inflight[k] - 1
    <3>1. (k \in Conns => n \in Int) /\ inflight' = [inflight EXCEPT ![k] = n]
      BY <1>1, <2>2 DEF S!released
    <3> HIDE DEF k, n
    <3>2. /\ inflight' \in [Conns -> Int]
          /\ \A j \in Conns : inflight'[j] = IF j = k THEN n ELSE inflight[j]
      BY <1>1, <3>1, CountChange
    <3> QED
      BY <3>2 DEF n
  <2> QED
    BY <2>1, <2>2
<1>3. ASSUME NEW j \in Conns, j # k PROVE Holding(client', j) = Holding(client, j)
  BY <1>1, <1>3 DEF Holding
<1>4. ASSUME k \in Conns PROVE Cardinality(Holding(client', k)) = Cardinality(Holding(client, k)) - 1
  <2>1. Holding(client', k) = Holding(client, k) \ {c} /\ c \in Holding(client, k)
    BY <1>1, <1>4 DEF Holding
  <2> HIDE DEF k
  <2> QED
    BY <2>1, HoldingFinite, FS_RemoveElement
<1> HIDE DEF k
<1> QED
  BY <1>2, <1>3, <1>4 DEF Counted

-----------------------------------------------------------------------------
(* The steps of a stream. *)

\* The request of c changes, and keeps its connection.
LEMMA MoveKeepsStream ==
  ASSUME NEW P, StreamInv(P), NEW c \in Clients, client' \in [Clients -> RequestOn(P)],
         \A d \in Clients : d # c => client'[d] = client[d],
         client'[c].conn = client[c].conn, inflight' = inflight,
         client'[c].pc \in {"idle", "pick", "done"} => client[c].pc \in {"idle", "pick", "done"},
         client'[c].pc = "done" => client'[c].ctx # "live"
  PROVE  StreamInv(P)'
<1>1. Counted'
  BY MoveKeepsCount DEF StreamInv
<1>2. HoldsWhileRunning'
  BY DEF StreamInv, HoldsWhileRunning
<1> QED
  BY <1>1, <1>2 DEF StreamInv

\* The request of c becomes r.
LEMMA RequestChange ==
  ASSUME NEW P, client \in [Clients -> RequestOn(P)], NEW c \in Clients, NEW r \in RequestOn(P),
         client' = [client EXCEPT ![c] = r]
  PROVE  /\ client' \in [Clients -> RequestOn(P)] /\ client'[c] = r
         /\ \A d \in Clients : d # c => client'[d] = client[d]
OBVIOUS

\* The handler or the writer of c goes on at pc.
LEMMA GoKeepsStream ==
  ASSUME NEW P, StreamInv(P), NEW c \in Clients,
         NEW pc \in {"bind", "open", "send", "recv"}, S!Go(c, pc), inflight' = inflight
  PROVE  StreamInv(P)'
<1>1. client \in [Clients -> RequestOn(P)] /\ client' = [client EXCEPT ![c].pc = pc]
  BY DEF StreamInv, S!Go
<1>2. /\ client' \in [Clients -> RequestOn(P)] /\ \A d \in Clients : d # c => client'[d] = client[d]
      /\ client'[c].conn = client[c].conn /\ client'[c].pc = pc
  BY <1>1 DEF RequestOn
<1> QED
  BY <1>2, MoveKeepsStream

\* cancel and release.
LEMMA ReturnKeepsStream ==
  ASSUME NEW P, StreamInv(P), NEW c \in Clients, S!returns(c)
  PROVE  StreamInv(P)'
<1>1. /\ client \in [Clients -> RequestOn(P)] /\ inflight' = S!released(c)
      /\ client' = [client EXCEPT ![c].pc = "done", ![c].conn = NoConn,
                                  ![c].ctx = IF @ = "live" THEN "cancelled" ELSE @]
  BY DEF StreamInv, S!returns
<1>2. /\ client' \in [Clients -> RequestOn(P)] /\ \A d \in Clients : d # c => client'[d] = client[d]
      /\ client'[c].conn = NoConn /\ client'[c].pc = "done" /\ client'[c].ctx # "live"
  <2> DEFINE r == [client[c] EXCEPT !.pc = "done", !.conn = NoConn,
                                    !.ctx = IF @ = "live" THEN "cancelled" ELSE @]
  <2>1. client' = [client EXCEPT ![c] = r]
    BY <1>1
  <2>2. client[c] \in RequestOn(P)
    BY <1>1
  <2>3. r \in RequestOn(P) /\ r.conn = NoConn /\ r.pc = "done" /\ r.ctx # "live"
    BY <2>2 DEF RequestOn
  <2> HIDE DEF r
  <2> QED
    BY <1>1, <2>1, <2>3, RequestChange
<1>3. Counted'
  BY <1>1, <1>2, ReleaseKeepsCount DEF StreamInv
<1>4. HoldsWhileRunning'
  BY <1>2 DEF StreamInv, HoldsWhileRunning
<1> QED
  BY <1>2, <1>3, <1>4 DEF StreamInv

LEMMA PickKeepsStream ==
  ASSUME NEW P, StreamInv(P), NEW c \in Clients, S!PickConn(c)
  PROVE  StreamInv(P)'
<1>1. client \in [Clients -> RequestOn(P)] /\ client[c].pc = "pick" /\ client[c].conn = NoConn
  BY DEF StreamInv, HoldsWhileRunning, S!PickConn, S!At
<1>2. ASSUME NEW k \in client[c].pool, client' = [client EXCEPT ![c].pc = "bind", ![c].conn = k],
             inflight' = [inflight EXCEPT ![k] = @ + 1]
      PROVE  StreamInv(P)'
  <2>1. k \in P
    BY <1>1 DEF RequestOn
  <2>2. /\ client' \in [Clients -> RequestOn(P)] /\ \A d \in Clients : d # c => client'[d] = client[d]
        /\ client'[c].conn = k /\ client'[c].pc = "bind"
    <3> DEFINE r == [client[c] EXCEPT !.pc = "bind", !.conn = k]
    <3>1. client' = [client EXCEPT ![c] = r]
      BY <1>1, <1>2
    <3>2. client[c] \in RequestOn(P)
      BY <1>1
    <3>3. r \in RequestOn(P) /\ r.conn = k /\ r.pc = "bind"
      BY <2>1, <3>2 DEF RequestOn
    <3> HIDE DEF r
    <3> QED
      BY <1>1, <3>1, <3>3, RequestChange
  <2>3. Counted'
    BY <1>1, <1>2, <2>2, TakeKeepsCount DEF StreamInv
  <2>4. HoldsWhileRunning'
    BY <2>2 DEF StreamInv, HoldsWhileRunning
  <2> QED
    BY <2>2, <2>3, <2>4 DEF StreamInv
<1> QED
  BY <1>2, GoKeepsStream, ReturnKeepsStream DEF S!PickConn

LEMMA StepKeepsStream ==
  ASSUME NEW P, StreamInv(P), NEW c \in Clients, S!Step(c)
  PROVE  StreamInv(P)'
<1>1. client \in [Clients -> RequestOn(P)]
  BY DEF StreamInv
<1>2. CASE client' = [client EXCEPT ![c].pc = "claims", ![c].ctx = "live"] /\ inflight' = inflight
           /\ client[c].pc = "bind"
  <2>1. /\ client' \in [Clients -> RequestOn(P)] /\ \A d \in Clients : d # c => client'[d] = client[d]
        /\ client'[c].conn = client[c].conn /\ client'[c].pc = "claims"
    <3> DEFINE r == [client[c] EXCEPT !.pc = "claims", !.ctx = "live"]
    <3>1. client' = [client EXCEPT ![c] = r]
      BY <1>1, <1>2
    <3>2. client[c] \in RequestOn(P)
      BY <1>1
    <3>3. r \in RequestOn(P) /\ r.conn = client[c].conn /\ r.pc = "claims"
      BY <3>2 DEF RequestOn
    <3> HIDE DEF r
    <3> QED
      BY <1>1, <3>1, <3>3, RequestChange
  <2> QED
    BY <1>2, <2>1, MoveKeepsStream
<1>3. CASE client' = [client EXCEPT ![c].pc = "flush", ![c].msgs = @ - 1] /\ inflight' = inflight
  <2>1. /\ client' \in [Clients -> RequestOn(P)] /\ \A d \in Clients : d # c => client'[d] = client[d]
        /\ client'[c].conn = client[c].conn /\ client'[c].pc = "flush"
    BY <1>1, <1>3 DEF RequestOn
  <2> QED
    BY <1>3, <2>1, MoveKeepsStream
<1>4. CASE S!PickConn(c)
  BY <1>4, PickKeepsStream
<1>5. CASE S!BindRequest(c)
  BY <1>2, <1>5, ReturnKeepsStream DEF S!BindRequest, S!At
<1>6. CASE S!Claims(c)
  BY <1>6, GoKeepsStream, ReturnKeepsStream DEF S!Claims
<1>7. CASE S!NewStream(c) \/ S!SendMsg(c)
  BY <1>7, GoKeepsStream, ReturnKeepsStream DEF S!NewStream, S!SendMsg
<1>8. CASE S!RecvMsg(c)
  BY <1>3, <1>8, ReturnKeepsStream DEF S!RecvMsg
<1>9. CASE S!Flush(c)
  BY <1>9, GoKeepsStream, ReturnKeepsStream DEF S!Flush
<1> QED
  BY <1>4, <1>5, <1>6, <1>7, <1>8, <1>9 DEF S!Step

LEMMA EnvironmentKeepsStream ==
  ASSUME NEW P, StreamInv(P), NEW c \in Clients, S!Environment(c)
  PROVE  StreamInv(P)'
<1>1. client \in [Clients -> RequestOn(P)] /\ inflight' = inflight
  BY DEF StreamInv, S!Environment, S!Leaves, S!UpstreamSends, S!UpstreamEnds
<1>2. /\ client' \in [Clients -> RequestOn(P)] /\ \A d \in Clients : d # c => client'[d] = client[d]
      /\ client'[c].conn = client[c].conn /\ client'[c].pc = client[c].pc
      /\ client'[c].ctx = client[c].ctx
  <2>0. client[c] \in RequestOn(P)
    BY <1>1
  <2>1. CASE client' = [client EXCEPT ![c].gone = TRUE]
    <3> DEFINE r == [client[c] EXCEPT !.gone = TRUE]
    <3>1. client' = [client EXCEPT ![c] = r]
      BY <1>1, <2>1
    <3>2. r \in RequestOn(P) /\ r.conn = client[c].conn /\ r.pc = client[c].pc /\ r.ctx = client[c].ctx
      BY <2>0 DEF RequestOn
    <3> HIDE DEF r
    <3> QED
      BY <1>1, <3>1, <3>2, RequestChange
  <2>2. CASE client' = [client EXCEPT ![c].msgs = @ + 1, ![c].sent = @ + 1]
    <3> DEFINE m == client[c].msgs + 1
               n == client[c].sent + 1
               r == [client[c] EXCEPT !.msgs = m, !.sent = n]
    <3>0. m \in Int /\ n \in Int
      BY <2>0 DEF RequestOn
    <3>1. client' = [client EXCEPT ![c] = r]
      BY <1>1, <2>2
    <3> HIDE DEF m, n
    <3>2. r \in RequestOn(P) /\ r.conn = client[c].conn /\ r.pc = client[c].pc /\ r.ctx = client[c].ctx
      BY <2>0, <3>0 DEF RequestOn
    <3> HIDE DEF r
    <3> QED
      BY <1>1, <3>1, <3>2, RequestChange
  <2>3. CASE client' = [client EXCEPT ![c].ended = TRUE]
    <3> DEFINE r == [client[c] EXCEPT !.ended = TRUE]
    <3>1. client' = [client EXCEPT ![c] = r]
      BY <1>1, <2>3
    <3>2. r \in RequestOn(P) /\ r.conn = client[c].conn /\ r.pc = client[c].pc /\ r.ctx = client[c].ctx
      BY <2>0 DEF RequestOn
    <3> HIDE DEF r
    <3> QED
      BY <1>1, <3>1, <3>2, RequestChange
  <2> QED
    BY <2>1, <2>2, <2>3 DEF S!Environment, S!Leaves, S!UpstreamSends, S!UpstreamEnds
<1>3. client'[c].pc = "done" => client'[c].ctx # "live"
  BY <1>2 DEF StreamInv, HoldsWhileRunning
<1> QED
  BY <1>1, <1>2, <1>3, MoveKeepsStream

\* A request begins, on connections that may be new to the invariant.
LEMMA BeginKeepsStream ==
  ASSUME NEW P, StreamInv(P), NEW c \in Clients, NEW pool, NEW claims \in BOOLEAN,
         S!Begin(c, pool, claims)
  PROVE  StreamInv(P \cup pool)'
<1>1. /\ client \in [Clients -> RequestOn(P)] /\ client[c].pc = "idle" /\ inflight' = inflight
      /\ client' = [client EXCEPT ![c].pc = "pick", ![c].pool = pool, ![c].claims = claims]
  BY DEF StreamInv, S!Begin
<1>2. RequestOn(P) \subseteq RequestOn(P \cup pool)
  BY DEF RequestOn
<1>3. client \in [Clients -> RequestOn(P \cup pool)]
  BY <1>1, <1>2
<1>4. StreamInv(P \cup pool)
  BY <1>3 DEF StreamInv
<1>5. /\ client' \in [Clients -> RequestOn(P \cup pool)]
      /\ \A d \in Clients : d # c => client'[d] = client[d]
      /\ client'[c].conn = client[c].conn /\ client'[c].pc = "pick"
  <2> DEFINE r == [client[c] EXCEPT !.pc = "pick", !.pool = pool, !.claims = claims]
  <2>1. client' = [client EXCEPT ![c] = r]
    BY <1>1
  <2>2. client[c] \in RequestOn(P \cup pool)
    BY <1>3
  <2>3. r \in RequestOn(P \cup pool) /\ r.conn = client[c].conn /\ r.pc = "pick"
    BY <2>2 DEF RequestOn
  <2> HIDE DEF r
  <2> QED
    BY <1>3, <2>1, <2>3, RequestChange
<1> QED
  BY <1>1, <1>4, <1>5, MoveKeepsStream

-----------------------------------------------------------------------------
(* The connections that Stop closes. *)

LEMMA SeqOfMore ==
  ASSUME NEW R, NEW Q, R \subseteq Q, NEW s \in Seq(R)
  PROVE  s \in Seq(Q)
<1>1. Len(s) \in Nat /\ s \in [1 .. Len(s) -> R]
  BY LenProperties, SeqDef
<1>2. s \in [1 .. Len(s) -> Q]
  BY <1>1
<1> QED
  BY <1>1, <1>2, SeqDef

\* A mounted route brings its pool; the pools of the others stay what they are.
LEMMA MountPools ==
  ASSUME NEW R, routes \in Seq(R), NEW r, routes' = Append(routes, r)
  PROVE  /\ routes' \in Seq(R \cup {r})
         /\ Pooled \cup Pool(Len(routes) + 1, r) \subseteq Pooled'
<1> DEFINE Q == R \cup {r}
           n == Len(routes) + 1
<1>1. routes \in Seq(Q) /\ r \in Q
  BY SeqOfMore
<1>2. /\ routes' \in Seq(Q) /\ Len(routes') = n /\ routes'[n] = r /\ Len(routes) \in Nat
      /\ \A i \in 1 .. Len(routes) : routes'[i] = routes[i]
  BY <1>1, AppendProperties, LenProperties
<1>3. DOMAIN routes = 1 .. Len(routes) /\ DOMAIN routes' = 1 .. n
  BY <1>1, <1>2, LenProperties
<1>4. n \in DOMAIN routes' /\ DOMAIN routes \subseteq DOMAIN routes'
  BY <1>2, <1>3
<1>5. Pool(n, r) \subseteq Pooled'
  BY <1>2, <1>4 DEF Pooled
<1>6. Pooled \subseteq Pooled'
  <2>1. \A i \in DOMAIN routes : i \in DOMAIN routes' /\ routes'[i] = routes[i]
    BY <1>2, <1>3, <1>4, SMTT(30)
  <2> QED
    BY <2>1 DEF Pooled
<1> QED
  BY <1>2, <1>5, <1>6

LEMMA MountRouteKeepsPooled ==
  ASSUME DialedIsPooled, MountRoute
  PROVE  DialedIsPooled'
<1> DEFINE i == Len(routes) + 1
           route == newProxyRoute(cfg.routes[i])
<1>1. open \subseteq Pooled /\ phase = "routes"
  BY DEF DialedIsPooled, MountRoute
<1>2. CASE phase' = "failed" /\ routes' = routes
  BY <1>2 DEF DialedIsPooled
<1>3. ASSUME NEW dialed \in 0 .. poolSize(route.val), dialPool(i, route.val, dialed),
             dialed = poolSize(route.val), routes' = Append(routes, route.val),
             phase' = "failed" \/ phase' = phase
      PROVE  DialedIsPooled'
  <2>1. PICK R : routes \in Seq(R)
    BY DEF DialedIsPooled
  <2> HIDE DEF i, route
  <2>2. routes' \in Seq(R \cup {route.val}) /\ Pooled \cup Pool(i, route.val) \subseteq Pooled'
    BY <1>3, <2>1, MountPools DEF i
  <2>3. open' \subseteq Pooled'
    <3>1. {i} \X (1 .. dialed) \subseteq Pool(i, route.val)
      BY <1>3 DEF Pool
    <3> QED
      BY <1>1, <1>3, <2>2, <3>1 DEF dialPool
  <2>4. phase' # "stopped"
    BY <1>1, <1>3
  <2> QED
    BY <2>2, <2>3, <2>4 DEF DialedIsPooled
<1> QED
  BY <1>2, <1>3, SMTT(30) DEF MountRoute

\* The other steps mount no route and dial no connection.
LEMMA StepKeepsPooled ==
  ASSUME DialedIsPooled, routes' = routes, open' \subseteq open,
         phase' = "failed" \/ phase \notin {"failed", "stopped"} \/ phase' = phase,
         phase' = "stopped" => open' = {}
  PROVE  DialedIsPooled'
BY DEF DialedIsPooled, Pooled

LEMMA NextKeepsPooled ==
  ASSUME DialedIsPooled, [Next]_vars
  PROVE  DialedIsPooled'
<1>1. CASE UNCHANGED vars
  BY <1>1, StepKeepsPooled DEF vars, mounted, DialedIsPooled
<1>2. CASE Register
  BY <1>2, StepKeepsPooled DEF Register, mounted
<1>3. CASE MountGlobalPlugins
  <2>1. phase = "init" /\ phase' \in {"routes", "failed"} /\ routes' = routes /\ open' = open
    BY <1>3 DEF MountGlobalPlugins
  <2> QED
    BY <2>1, StepKeepsPooled
<1>4. CASE MountRoute
  BY <1>4, MountRouteKeepsPooled
<1>5. CASE MountCustomRoutes
  BY <1>5, StepKeepsPooled DEF MountCustomRoutes
<1>6. CASE Start \/ Stop \/ Drained
  BY <1>6, StepKeepsPooled DEF Start, Stop, Drained, mounted
<1>7. CASE CloseConn
  <2>1. phase = "closing" /\ routes' = routes /\ open \subseteq Pooled
    BY <1>7 DEF CloseConn, mounted, DialedIsPooled
  <2>2. CASE toClose = {} /\ phase' = "stopped" /\ open' = open
    <3>1. open' = {}
      BY <2>1, <2>2 DEF toClose, Pooled
    <3> QED
      BY <2>1, <2>2, <3>1, StepKeepsPooled
  <2>3. CASE phase' = phase /\ \E k \in toClose : open' = open \ {k}
    BY <2>1, <2>3, StepKeepsPooled
  <2> QED
    BY <1>7, <2>2, <2>3 DEF CloseConn
<1>8. CASE \E c \in Clients : Request(c) \/ Relay(c) \/ Environment(c)
  <2>1. phase' = phase /\ routes' = routes /\ open' = open
    BY <1>8 DEF Request, Relay, Environment, mounted
  <2> QED
    BY <2>1, StepKeepsPooled DEF DialedIsPooled
<1> QED
  BY <1>1, <1>2, <1>3, <1>4, <1>5, <1>6, <1>7, <1>8 DEF Next

-----------------------------------------------------------------------------
(* The gateway. *)

LEMMA InitGateway == Init => GatewayInv
<1> SUFFICES ASSUME Init PROVE GatewayInv
  OBVIOUS
<1>1. /\ inflight = [k \in Conns |-> 0] /\ client = [c \in Clients |-> S!Idle]
      /\ routes = <<>> /\ open = {} /\ phase = "new"
  BY DEF Init, S!Init
<1>2. StreamInv({})
  <2>1. client \in [Clients -> RequestOn({})]
    BY <1>1 DEF S!Idle, RequestOn
  <2>2. HoldsWhileRunning
    BY <1>1 DEF S!Idle, HoldsWhileRunning
  <2>3. ASSUME NEW k \in Conns PROVE Cardinality(Holding(client, k)) = 0
    <3>1. Holding(client, k) = {}
      BY <1>1, GatewayAssumption DEF S!Idle, Holding
    <3> QED
      BY <3>1, FS_EmptySet
  <2> QED
    BY <1>1, <2>1, <2>2, <2>3 DEF StreamInv, Counted
<1>3. DialedIsPooled
  <2>1. routes \in Seq({})
    BY <1>1
  <2> QED
    BY <1>1, <2>1 DEF DialedIsPooled
<1> QED
  BY <1>2, <1>3 DEF GatewayInv

LEMMA NextKeepsStream ==
  ASSUME NEW P, StreamInv(P), [Next]_vars
  PROVE  (\E Q : StreamInv(Q))'
<1>1. CASE UNCHANGED streams
  <2>1. StreamInv(P)'
    BY <1>1 DEF streams, StreamInv, Counted, HoldsWhileRunning
  <2> QED
    BY <2>1
<1>2. ASSUME NEW c \in Clients, Request(c) PROVE (\E Q : StreamInv(Q))'
  <2>1. ASSUME NEW x, NEW req PROVE forwarded(x, req).ok \in BOOLEAN
    BY DEF forwarded, outgoing, Ok, Err
  <2>2. \E pool : \E claims \in BOOLEAN : S!Begin(c, pool, claims)
    <3>1. PICK req \in Requests :
              S!Begin(c, Pool(exchange(req).route, routes[exchange(req).route]),
                      forwarded(exchange(req), req).ok)
      BY <1>2 DEF Request
    <3> QED
      BY <2>1, <3>1
  <2>3. PICK pool : \E claims \in BOOLEAN : S!Begin(c, pool, claims)
    BY <2>2
  <2>4. StreamInv(P \cup pool)'
    BY <2>3, BeginKeepsStream
  <2> QED
    BY <2>4
<1>3. ASSUME NEW c \in Clients, Relay(c) PROVE (\E Q : StreamInv(Q))'
  <2>1. S!Step(c)
    BY <1>3 DEF Relay
  <2>2. StreamInv(P)'
    BY <2>1, StepKeepsStream
  <2> QED
    BY <2>2
<1>4. ASSUME NEW c \in Clients, Environment(c) PROVE (\E Q : StreamInv(Q))'
  <2>1. S!Environment(c)
    BY <1>4 DEF Environment
  <2>2. StreamInv(P)'
    BY <2>1, EnvironmentKeepsStream
  <2> QED
    BY <2>2
<1>5. CASE Register \/ MountGlobalPlugins \/ MountRoute \/ MountCustomRoutes
           \/ Start \/ Stop \/ Drained \/ CloseConn \/ UNCHANGED vars
  <2>1. UNCHANGED streams
    BY <1>5, Zenon DEF Register, MountGlobalPlugins, MountRoute, MountCustomRoutes, Start, Stop,
                       Drained, CloseConn, vars
  <2> QED
    BY <1>1, <2>1
<1> QED
  BY <1>2, <1>3, <1>4, <1>5, Zenon DEF Next

LEMMA NextKeepsGateway == GatewayInv /\ [Next]_vars => GatewayInv'
<1> SUFFICES ASSUME GatewayInv, [Next]_vars PROVE GatewayInv'
  OBVIOUS
<1>1. (\E P : StreamInv(P))'
  BY NextKeepsStream DEF GatewayInv
<1>2. DialedIsPooled'
  BY NextKeepsPooled DEF GatewayInv
<1> QED
  BY <1>1, <1>2 DEF GatewayInv

\* However a stream ends, and whatever Stop and Init do meanwhile, the balancer's counters
\* are those of the requests that hold a connection, a request that is over holds none and
\* its context is cancelled; a gateway that has stopped has closed what its Init dialed.
THEOREM StreamsGiveBack == Spec => []NothingLeaked
<1>1. GatewayInv => NothingLeaked
  <2> SUFFICES ASSUME GatewayInv PROVE NothingLeaked
    OBVIOUS
  <2>1. Counted /\ HoldsWhileRunning /\ DialedIsPooled
    BY DEF GatewayInv, StreamInv
  <2>2. \A k \in Conns : inflight[k] = Cardinality({c \in Clients : client[c].conn = k})
    BY <2>1 DEF Counted, Holding
  <2>3. \A c \in Clients : client[c].pc = "done" => client[c].conn = NoConn /\ client[c].ctx # "live"
    BY <2>1 DEF HoldsWhileRunning
  <2>4. phase = "stopped" => open = {}
    BY <2>1 DEF DialedIsPooled
  <2>5. ASSUME NEW T PROVE S!Cardinality(T) = Cardinality(T)
    BY Zenon DEF Cardinality, S!Cardinality
  <2> QED
    BY <2>2, <2>3, <2>4, <2>5 DEF NothingLeaked, S!NothingLeaked
<1> QED
  BY InitGateway, NextKeepsGateway, <1>1, PTL DEF Spec
-----------------------------------------------------------------------------
(* Claims. *)

\* Only the subject of the token "user" has a text, and only behind the jwt plugin.
LEMMA TextIsVerified ==
  ASSUME NEW x, NEW req, NEW key, claimText(localClaims(x, req), key).ok
  PROVE  /\ claimText(localClaims(x, req), key).val = "alice" /\ req.token = "user"
         /\ "jwt" \in Range(ranNames(x))
<1> DEFINE claims == localClaims(x, req)
<1>1. key \in DOMAIN claims /\ claimToString(claims[key]).ok
  BY DEF claimText, Err
<1>2. (\E k \in DOMAIN x.ran : x.ran[k].name = "jwt") /\ claims = claimsOf(req.token)
  BY <1>1 DEF localClaims
<1>3. "jwt" \in Range(ranNames(x))
  BY <1>2 DEF Range, ranNames
<1>4. claims[key].type \in {"string", "bool", "float64", "json.Number"}
  BY <1>1 DEF claimToString, Err
<1>5. req.token = "user" /\ claims[key].val = "alice"
  <2>1. CASE req.token = "user"
    BY <1>1, <1>2, <2>1 DEF claimsOf
  <2>2. CASE req.token = "odd"
    BY <1>1, <1>2, <1>4, <2>2 DEF claimsOf
  <2>3. CASE req.token \notin {"user", "odd"}
    BY <1>1, <1>2, <2>3 DEF claimsOf
  <2> QED
    BY <2>1, <2>2, <2>3
<1>6. claimText(claims, key).val = claims[key].val
  BY <1>1, <1>4 DEF claimText, claimToString, Ok
<1> QED
  BY <1>3, <1>5, <1>6

\* The metadata, if there is no error.
LEMMA SentIs ==
  ASSUME NEW pairs, NEW claims, outgoing(pairs, claims).ok
  PROVE  /\ \A p \in pairs : claimText(claims, p.claim).ok \/ p.default # "nil" \/ ~ p.required
         /\ outgoing(pairs, claims).val =
                {<<p.header, IF claimText(claims, p.claim).ok THEN claimText(claims, p.claim).val
                             ELSE p.default>> :
                    p \in {q \in pairs : claimText(claims, q.claim).ok \/ q.default # "nil"}}
<1>1. ~ \E p \in pairs : ~ claimText(claims, p.claim).ok /\ p.default = "nil" /\ p.required
  BY DEF outgoing, Err
<1> QED
  BY <1>1 DEF outgoing, Ok

\* A claim that goes upstream is the subject of a verified token or a configured default,
\* and a required claim without default is never missing: for every route, request and
\* chain of plugins.
THEOREM UpstreamTrustsClaims == Spec => []ClaimsVerified
<1>1. ClaimsVerified
  <2> SUFFICES ASSUME NEW req \in Requests, forwarded(exchange(req), req).ok
               PROVE  LET x      == exchange(req)
                          claims == Range(routes[x.route].claims)
                          sent   == forwarded(x, req)
                      IN  /\ \A m \in sent.val :
                                 \/ m[2] = "alice" /\ req.token = "user" /\ "jwt" \in Range(ranNames(x))
                                 \/ \E p \in claims : m[2] = p.default /\ p.default # "nil"
                          /\ \A p \in claims :
                                 p.claim # "" /\ p.required /\ p.default = "nil" =>
                                     <<IF p.header = "" THEN p.claim ELSE p.header, "alice">> \in sent.val
    BY DEF ClaimsVerified
  <2> DEFINE x == exchange(req)
             claims == Range(routes[x.route].claims)
             sent == forwarded(x, req)
             pairs == buildClaimForwarder(routes[x.route].claims)
             local == localClaims(x, req)
             has(p) == claimText(local, p.claim).ok
             text(p) == IF has(p) THEN claimText(local, p.claim).val ELSE p.default
             headerOf(p) == IF p.header = "" THEN p.claim ELSE p.header
             pairOf(p) == [claim |-> p.claim, header |-> headerOf(p),
                           required |-> p.required, default |-> p.default]
  <2>1. sent = outgoing(pairs, local) /\ sent.ok
    BY DEF forwarded
  <2>2. pairs = {pairOf(p) : p \in {s \in claims : s.claim # ""}}
    BY DEF buildClaimForwarder
  <2>3. \A p : has(p) => /\ claimText(local, p.claim).val = "alice" /\ req.token = "user"
                         /\ "jwt" \in Range(ranNames(x))
    BY TextIsVerified
  <2> HIDE DEF x, pairs, local
  <2>4. /\ \A p \in pairs : has(p) \/ p.default # "nil" \/ ~ p.required
        /\ sent.val = {<<p.header, text(p)>> : p \in {q \in pairs : has(q) \/ q.default # "nil"}}
    BY <2>1, SentIs
  <2> HIDE DEF claims, sent, has
  <2>5. ASSUME NEW m \in sent.val
        PROVE  \/ m[2] = "alice" /\ req.token = "user" /\ "jwt" \in Range(ranNames(x))
               \/ \E p \in claims : m[2] = p.default /\ p.default # "nil"
    <3>1. PICK p \in pairs : m = <<p.header, text(p)>> /\ (has(p) \/ p.default # "nil")
      BY <2>4
    <3>2. PICK q \in claims : p = pairOf(q)
      BY <2>2
    <3>3. CASE has(p)
      BY <2>3, <3>1, <3>3
    <3>4. CASE ~ has(p)
      BY <3>1, <3>2, <3>4
    <3> QED
      BY <3>3, <3>4
  <2>6. ASSUME NEW p \in claims, p.claim # "", p.required, p.default = "nil"
        PROVE  <<headerOf(p), "alice">> \in sent.val
    <3>1. pairOf(p) \in pairs
      BY <2>2, <2>6
    <3>2. has(pairOf(p))
      BY <2>4, <2>6, <3>1
    <3>3. <<pairOf(p).header, text(pairOf(p))>> \in sent.val
      BY <2>4, <3>1, <3>2
    <3>4. text(pairOf(p)) = "alice"
      BY <2>3, <3>2
    <3> QED
      BY <3>3, <3>4
  <2> QED
    BY <2>5, <2>6 DEF x, claims, sent
<1> QED
  BY <1>1, PTL
-----------------------------------------------------------------------------
(* Errors. *)

\* The switch of FromGRPCError is the inverse of the grpcMap that a process starts with.
LEMMA SwitchInvertsMap ==
  ASSUME NEW grpc, grpc # "OK"
  PROVE  /\ \A code \in DOMAIN grpcMap : grpcMap[code] = grpc =>
                code = IF grpc \in DOMAIN fromGRPC THEN fromGRPC[grpc] ELSE "INTERNAL"
         /\ grpc \notin Range(grpcMap) => grpc \notin DOMAIN fromGRPC
<1>1. DOMAIN grpcMap = {"OK", "INVALID_ARGUMENT", "UNAUTHENTICATED", "PERMISSION_DENIED", "NOT_FOUND",
                        "CONFLICT", "RATE_LIMITED", "UNAVAILABLE", "DEADLINE_EXCEEDED",
                        "FAILED_PRECONDITION", "INTERNAL"}
  BY DEF grpcMap
<1>2. DOMAIN fromGRPC = {"InvalidArgument", "Unauthenticated", "PermissionDenied", "NotFound",
                         "AlreadyExists", "ResourceExhausted", "Unavailable", "DeadlineExceeded",
                         "FailedPrecondition"}
  BY DEF fromGRPC
<1>3. ASSUME NEW code \in DOMAIN grpcMap, grpcMap[code] = grpc
      PROVE  code = IF grpc \in DOMAIN fromGRPC THEN fromGRPC[grpc] ELSE "INTERNAL"
  BY <1>1, <1>3 DEF grpcMap, fromGRPC
<1>4. ASSUME grpc \in DOMAIN fromGRPC PROVE grpc \in Range(grpcMap)
  <2>1. fromGRPC[grpc] \in DOMAIN grpcMap /\ grpcMap[fromGRPC[grpc]] = grpc
    BY <1>2, <1>4 DEF grpcMap, fromGRPC
  <2> QED
    BY <2>1 DEF Range
<1> QED
  BY <1>3, <1>4

\* What the gateway makes of the status that ErrorInterceptor returns.
LEMMA AnswerOf ==
  ASSUME NEW map, NEW err
  PROVE  LET grpc == IF err.type = "app" THEN GRPCCode(map, err.code) ELSE "Internal"
         IN  failure(ErrorInterceptor(map, err)).code =
                 IF grpc \in DOMAIN fromGRPC THEN fromGRPC[grpc] ELSE "INTERNAL"
<1> DEFINE grpc == IF err.type = "app" THEN GRPCCode(map, err.code) ELSE "Internal"
<1>1. ErrorInterceptor(map, err) = [type |-> "status", code |-> grpc]
  BY DEF ErrorInterceptor, ToGRPCError
<1>2. failure(ErrorInterceptor(map, err)).code =
          IF grpc \in DOMAIN fromGRPC THEN fromGRPC[grpc] ELSE "INTERNAL"
  <2> HIDE DEF grpc
  <2> QED
    BY <1>1 DEF failure, FromGRPCError, New
<1> QED
  BY <1>2

\* Whatever error a service returns, on whatever route, and whatever codes were registered on
\* either side: the gRPC code that the service has for the error decides the status of the
\* gateway's answer.
THEOREM CodeDecidesStatus == Spec => []StatusSurvives
<1>1. StatusSurvives
  <2> SUFFICES ASSUME NEW req \in Requests, NEW err \in Errors, forwarded(exchange(req), req).ok,
                      (IF err.type = "app" THEN GRPCCode(registered.grpc, err.code) ELSE "Internal") # "OK"
               PROVE  LET grpc == IF err.type = "app" THEN GRPCCode(registered.grpc, err.code) ELSE "Internal"
                          status == answerStatus(exchange(req), req, err)
                      IN  /\ \A code \in DOMAIN grpcMap :
                                 grpcMap[code] = grpc => status = HTTPStatus(registered.http, code)
                          /\ grpc \notin Range(grpcMap) => status = HTTPStatus(registered.http, "INTERNAL")
    BY DEF StatusSurvives
  <2>1. PICK grpc, status :
           /\ grpc = IF err.type = "app" THEN GRPCCode(registered.grpc, err.code) ELSE "Internal"
           /\ status = answerStatus(exchange(req), req, err)
    OBVIOUS
  <2> DEFINE back == IF grpc \in DOMAIN fromGRPC THEN fromGRPC[grpc] ELSE "INTERNAL"
  <2>2. failure(ErrorInterceptor(registered.grpc, err)).code = back
    BY <2>1, AnswerOf, Zenon
  <2>3. status = HTTPStatus(registered.http, failure(ErrorInterceptor(registered.grpc, err)).code)
    BY <2>1 DEF answerStatus
  <2>4. status = HTTPStatus(registered.http, back)
    BY <2>2, <2>3, Zenon
  <2>5. \A code \in DOMAIN grpcMap : grpcMap[code] = grpc => code = back
    BY <2>1, SwitchInvertsMap
  <2>6. grpc \notin Range(grpcMap) => back = "INTERNAL"
    BY <2>1, SwitchInvertsMap
  <2> HIDE DEF back
  <2> QED
    BY <2>1, <2>4, <2>5, <2>6, Zenon
<1> QED
  BY <1>1, PTL

-----------------------------------------------------------------------------
(* Induction.  The library has it only with an operator as a parameter, which
   no prover here can instantiate, so a property is the set of what has it. *)

\* A set of natural numbers has a least element: what the prover has of induction.
LEMMA LeastOf ==
  ASSUME NEW T \in SUBSET Nat, T # {}
  PROVE  \E x \in T : \A y \in T : x <= y
<1> DEFINE R == {ss \in Nat \X Nat : ss[1] < ss[2]}
<1>1. IsWellFoundedOn(R, Nat)
  BY NatLessThanWellFounded DEF OpToRel
<1>2. \A x, y \in Nat : x < y => <<x, y>> \in R
  OBVIOUS
<1> HIDE DEF R
<1>3. PICK x \in T : \A y \in T : ~ (<<y, x>> \in R)
  BY <1>1, WFMin
<1>4. ASSUME NEW y \in T, ~ (x <= y) PROVE FALSE
  <2>1. x \in Nat /\ y \in Nat /\ y < x
    BY <1>4
  <2> QED
    BY <1>2, <1>3, <2>1
<1> QED
  BY <1>4

\* Induction over a sequence: Q holds the empty one and all that are longer by one.
LEMMA SeqInduction ==
  ASSUME NEW V, NEW Q, <<>> \in Q, \A s \in Seq(V), e \in V : s \in Q => Append(s, e) \in Q,
         NEW seq \in Seq(V)
  PROVE  seq \in Q
<1> DEFINE T == {n \in Nat : \E s \in Seq(V) : Len(s) = n /\ s \notin Q}
<1> SUFFICES ASSUME seq \notin Q PROVE FALSE
  OBVIOUS
<1>1. Len(seq) \in T
  BY LenProperties
<1>2. PICK n \in T : \A m \in T : n <= m
  BY <1>1, LeastOf, Zenon
<1>3. PICK s \in Seq(V) : Len(s) = n /\ s \notin Q
  OBVIOUS
<1>4. \A t \in Seq(V) : Len(t) < n => t \in Q
  <2> SUFFICES ASSUME NEW t \in Seq(V), Len(t) < n, t \notin Q PROVE FALSE
    OBVIOUS
  <2>1. Len(t) \in Nat /\ n \in Nat
    BY LenProperties
  <2>2. Len(t) \in T
    BY <2>1
  <2> HIDE DEF T
  <2> QED
    BY <1>2, <2>1, <2>2
<1>5. PICK t \in Seq(V), e \in V : s = Append(t, e)
  BY <1>3, SequenceEmptyOrAppend
<1>6. Len(t) \in Nat /\ Len(s) = Len(t) + 1
  BY <1>5, AppendProperties, LenProperties
<1> QED
  BY <1>3, <1>4, <1>5, <1>6

-----------------------------------------------------------------------------
(* Concatenation: FlattenSeq, of which the prover knows the definition only. *)

\* f[i] is the concatenation of the first i sequences of s.
Flattens(f, s) ==
    f = [i \in 1 .. Len(s) |-> IF i = 1 THEN s[i] ELSE f[i - 1] \o s[i]]

\* The same, for the first n places.
Concats(f, s, n) == \A i \in 1 .. n : f[i] = IF i = 1 THEN s[i] ELSE f[i - 1] \o s[i]

\* The equation of FlattenSeq, place by place.
LEMMA FlattensAt ==
  ASSUME NEW s, NEW f, Flattens(f, s), NEW i \in 1 .. Len(s)
  PROVE  f[i] = IF i = 1 THEN s[i] ELSE f[i - 1] \o s[i]
<1> DEFINE h == [j \in 1 .. Len(s) |-> IF j = 1 THEN s[j] ELSE f[j - 1] \o s[j]]
<1>1. f = h
  BY Zenon DEF Flattens
<1>2. h[i] = IF i = 1 THEN s[i] ELSE f[i - 1] \o s[i]
  BY Zenon
<1> HIDE DEF h
<1> QED
  BY <1>1, <1>2, Zenon

\* FlattenSeq chooses a function: there is one.
LEMMA FlattenExists ==
  ASSUME NEW V, NEW s \in Seq(Seq(V))
  PROVE  \E f \in [1 .. Len(s) -> Seq(V)] : Flattens(f, s)
<1> DEFINE ok(u) == \E f \in [1 .. Len(u) -> Seq(V)] : Flattens(f, u)
           Q == {u \in Seq(Seq(V)) : ok(u)}
<1>1. <<>> \in Q
  <2> DEFINE f == [i \in 1 .. 0 |-> <<>>]
  <2>1. f \in [1 .. Len(<<>>) -> Seq(V)] /\ Flattens(f, <<>>)
    BY DEF Flattens
  <2> HIDE DEF f
  <2> QED
    BY <2>1, EmptySeq, Zenon
<1>2. ASSUME NEW u \in Seq(Seq(V)), NEW e \in Seq(V), ok(u) PROVE ok(Append(u, e))
  <2>1. PICK f \in [1 .. Len(u) -> Seq(V)] : Flattens(f, u)
    BY <1>2
  <2>2. PICK n \in Nat : n = Len(u)
    BY LenProperties
  <2> DEFINE v == Append(u, e)
             last == IF n = 0 THEN e ELSE f[n] \o e
             g == [i \in 1 .. n + 1 |-> IF i = n + 1 THEN last ELSE f[i]]
  <2>3. Len(v) = n + 1 /\ v[n + 1] = e /\ \A i \in 1 .. n : v[i] = u[i]
    BY <2>2, AppendProperties
  <2>4. \A i \in 1 .. n : f[i] \in Seq(V) /\ f[i] = IF i = 1 THEN u[i] ELSE f[i - 1] \o u[i]
    BY <2>2, <2>1, FlattensAt
  <2>5. last \in Seq(V)
    <3>1. CASE n = 0
      BY <3>1
    <3>2. CASE n # 0
      <4>1. f[n] \in Seq(V)
        <5>1. n \in 1 .. n
          BY <3>2
        <5> QED
          BY <2>4, <5>1
      <4> QED
        BY <3>2, <4>1, ConcatProperties
    <3> QED
      BY <3>1, <3>2
  <2> HIDE DEF v
  <2>6. ASSUME NEW i \in 1 .. n + 1 PROVE g[i] = IF i = 1 THEN v[i] ELSE g[i - 1] \o v[i]
    <3>1. CASE i \in 1 .. n
      <4>1. v[i] = u[i] /\ f[i] = IF i = 1 THEN u[i] ELSE f[i - 1] \o u[i]
        BY <2>3, <2>4, <3>1
      <4>2. g[i] = f[i] /\ (i # 1 => g[i - 1] = f[i - 1])
        BY <3>1
      <4> HIDE DEF g
      <4> QED
        BY <4>1, <4>2
    <3>2. CASE i = n + 1
      <4>1. g[i] = last /\ v[i] = e /\ (i = 1 <=> n = 0) /\ i - 1 = n
        <5>1. i \notin 1 .. n /\ (i = 1 <=> n = 0) /\ i - 1 = n
          BY <3>2
        <5>2. v[i] = e
          BY <2>3, <3>2
        <5>3. g[i] = last
          <6> HIDE DEF last
          <6> QED
            BY <5>1
        <5> QED
          BY <5>1, <5>2, <5>3
      <4>2. n # 0 => g[n] = f[n]
        OBVIOUS
      <4> HIDE DEF g
      <4> QED
        BY <4>1, <4>2
    <3> QED
      BY <3>1, <3>2
  <2>7. g \in [1 .. n + 1 -> Seq(V)]
    BY <2>2, <2>4, <2>5
  <2>8. Flattens(g, v)
    <3>1. g = [i \in 1 .. n + 1 |-> g[i]]
      OBVIOUS
    <3> HIDE DEF g
    <3>2. g = [i \in 1 .. n + 1 |-> IF i = 1 THEN v[i] ELSE g[i - 1] \o v[i]]
      BY <2>6, <3>1
    <3>3. Len(v) = n + 1
      BY <2>3
    <3> QED
      BY <3>2, <3>3, Zenon DEF Flattens
  <2> QED
    BY <2>3, <2>7, <2>8 DEF v
<1>3. \A u \in Seq(Seq(V)), e \in Seq(V) : u \in Q => Append(u, e) \in Q
  BY <1>2, AppendProperties
<1> HIDE DEF ok
<1>4. s \in Q
  <2> HIDE DEF Q
  <2> QED
  BY <1>1, <1>3, SeqInduction
<1> QED
  BY <1>4 DEF ok

\* Its last value is the flattened sequence.
LEMMA FlattenIs ==
  ASSUME NEW V, NEW s \in Seq(Seq(V)), s # <<>>
  PROVE  \E f : Flattens(f, s) /\ FlattenSeq(s) = f[Len(s)]
<1> DEFINE f == CHOOSE g : g = [i \in 1 .. Len(s) |-> IF i = 1 THEN s[i] ELSE g[i - 1] \o s[i]]
<1>1. \E g : Flattens(g, s)
  BY FlattenExists, Zenon
<1>2. Flattens(f, s)
  BY <1>1, Zenon DEF Flattens
<1>3. Len(s) # 0
  BY EmptySeq
<1>4. FlattenSeq(s) = f[Len(s)]
  BY <1>3, Zenon DEF FlattenSeq
<1> HIDE DEF f
<1> QED
  BY <1>2, <1>4

\* There is only one such f.
LEMMA FlattenUnique ==
  ASSUME NEW s, NEW f, NEW g, NEW n \in Nat,
         Concats(f, s, n), Concats(g, s, n)
  PROVE  \A i \in 1 .. n : f[i] = g[i]
<1> DEFINE T == {i \in 1 .. n : f[i] # g[i]}
<1> SUFFICES ASSUME T # {} PROVE FALSE
  OBVIOUS
<1>1. PICK x \in T : \A y \in T : x <= y
  <2>1. T \in SUBSET Nat
    OBVIOUS
  <2> QED
    BY <2>1, LeastOf, Zenon
<1>2. x # 1 => f[x - 1] = g[x - 1]
  BY <1>1
<1> QED
  BY <1>2 DEF Concats

\* Nothing is nothing.
LEMMA FlattenEmpty == FlattenSeq(<<>>) = <<>>
BY DEF FlattenSeq

\* One more sequence comes at the end.
LEMMA FlattenAppend ==
  ASSUME NEW V, NEW s \in Seq(Seq(V)), NEW e \in Seq(V)
  PROVE  FlattenSeq(Append(s, e)) = FlattenSeq(s) \o e
<1> DEFINE t == Append(s, e)
<1>1. PICK n \in Nat : n = Len(s)
  BY LenProperties
<1>2. /\ t \in Seq(Seq(V)) /\ t # <<>> /\ Len(t) = n + 1 /\ t[n + 1] = e
      /\ \A i \in 1 .. n : t[i] = s[i]
  BY <1>1, AppendProperties
<1> HIDE DEF t
<1>3. PICK g : Flattens(g, t) /\ FlattenSeq(t) = g[Len(t)]
  BY <1>2, FlattenIs
<1>4. g[n + 1] = IF n + 1 = 1 THEN e ELSE g[n] \o e
  BY <1>2, <1>3, FlattensAt
<1>5. CASE n = 0
  <2>1. s = <<>>
    BY <1>1, <1>5, EmptySeq
  <2> QED
    BY <1>2, <1>3, <1>4, <1>5, <2>1, FlattenEmpty, ConcatEmptySeq DEF t
<1>6. CASE n > 0
  <2>1. PICK f : Flattens(f, s) /\ FlattenSeq(s) = f[n]
    BY <1>1, <1>6, FlattenIs, EmptySeq
  <2>2. f[n] = g[n]
    <3>1. Concats(f, s, n)
      BY <1>1, <2>1, FlattensAt DEF Concats
    <3>2. Concats(g, s, n)
      <4> SUFFICES ASSUME NEW i \in 1 .. n PROVE g[i] = IF i = 1 THEN s[i] ELSE g[i - 1] \o s[i]
        BY DEF Concats
      <4>1. i \in 1 .. Len(t) /\ t[i] = s[i]
        BY <1>2
      <4> QED
        BY <1>3, <4>1, FlattensAt
    <3>3. \A i \in 1 .. n : f[i] = g[i]
      BY <3>1, <3>2, FlattenUnique
    <3> QED
      BY <1>6, <3>3
  <2> QED
    BY <1>2, <1>3, <1>4, <1>6, <2>1, <2>2 DEF t
<1> QED
  BY <1>5, <1>6

\* The elements are those of the sequences.
LEMMA FlattenType ==
  ASSUME NEW V, NEW s \in Seq(Seq(V))
  PROVE  FlattenSeq(s) \in Seq(V)
<1> DEFINE Q == {u \in Seq(Seq(V)) : FlattenSeq(u) \in Seq(V)}
<1>1. <<>> \in Q
  BY FlattenEmpty, EmptySeq
<1>2. ASSUME NEW u \in Seq(Seq(V)), NEW e \in Seq(V), u \in Q PROVE Append(u, e) \in Q
  BY <1>2, FlattenAppend, AppendProperties, ConcatProperties
<1>3. s \in Q
  <2> HIDE DEF Q
  <2> QED
    BY <1>1, <1>2, SeqInduction
<1> QED
  BY <1>3

\* The sequences may be put together in two parts.
LEMMA FlattenConcat ==
  ASSUME NEW V, NEW s \in Seq(Seq(V)), NEW t \in Seq(Seq(V))
  PROVE  FlattenSeq(s \o t) = FlattenSeq(s) \o FlattenSeq(t)
<1> DEFINE Q == {u \in Seq(Seq(V)) : FlattenSeq(s \o u) = FlattenSeq(s) \o FlattenSeq(u)}
<1>1. FlattenSeq(s) \in Seq(V)
  BY FlattenType
<1>2. <<>> \in Q
  BY <1>1, FlattenEmpty, EmptySeq, ConcatEmptySeq
<1>3. ASSUME NEW u \in Seq(Seq(V)), NEW e \in Seq(V), u \in Q PROVE Append(u, e) \in Q
  <2>1. s \o u \in Seq(Seq(V)) /\ Append(u, e) \in Seq(Seq(V)) /\ FlattenSeq(u) \in Seq(V)
    BY ConcatProperties, AppendProperties, FlattenType
  <2>2. s \o Append(u, e) = Append(s \o u, e)
    <3>1. s \o Append(u, e) \in Seq(Seq(V)) /\ Append(s \o u, e) \in Seq(Seq(V))
      BY <2>1, ConcatProperties, AppendProperties
    <3> QED
      BY <3>1, SMTT(30)
  <2>3. FlattenSeq(s \o Append(u, e)) = (FlattenSeq(s) \o FlattenSeq(u)) \o e
    BY <1>3, <2>1, <2>2, FlattenAppend, ZenonT(30)
  <2>4. FlattenSeq(Append(u, e)) = FlattenSeq(u) \o e
    BY FlattenAppend
  <2>5. ASSUME NEW a \in Seq(V), NEW b \in Seq(V) PROVE (a \o b) \o e = a \o (b \o e)
    BY SMTT(30)
  <2> QED
    BY <1>1, <2>1, <2>3, <2>4, <2>5
<1>4. t \in Q
  <2> HIDE DEF Q
  <2> QED
    BY <1>2, <1>3, SeqInduction
<1> QED
  BY <1>4

\* Empty sequences add nothing.
LEMMA FlattenNothing ==
  ASSUME NEW V, NEW s \in Seq(Seq(V)), \A k \in 1 .. Len(s) : s[k] = <<>>
  PROVE  FlattenSeq(s) = <<>>
<1> DEFINE Q == {u \in Seq(Seq(V)) : (\A k \in 1 .. Len(u) : u[k] = <<>>) => FlattenSeq(u) = <<>>}
<1>1. <<>> \in Q
  BY FlattenEmpty, EmptySeq
<1>2. ASSUME NEW u \in Seq(Seq(V)), NEW e \in Seq(V), u \in Q PROVE Append(u, e) \in Q
  <2>1. PICK n \in Nat : n = Len(u)
    BY LenProperties
  <2> DEFINE v == Append(u, e)
  <2>2. v \in Seq(Seq(V)) /\ Len(v) = n + 1 /\ v[n + 1] = e /\ \A k \in 1 .. n : v[k] = u[k]
    BY <2>1, AppendProperties
  <2>3. FlattenSeq(v) = FlattenSeq(u) \o e
    BY FlattenAppend
  <2> HIDE DEF v
  <2>4. ASSUME \A k \in 1 .. Len(v) : v[k] = <<>> PROVE FlattenSeq(v) = <<>>
    <3>1. (\A k \in 1 .. Len(u) : u[k] = <<>>) /\ e = <<>>
      BY <2>1, <2>2, <2>4
    <3>2. FlattenSeq(u) = <<>>
      BY <1>2, <3>1
    <3> QED
      BY <2>3, <3>1, <3>2, EmptySeq, ConcatEmptySeq
  <2> QED
    BY <2>2, <2>4 DEF v
<1>3. s \in Q
  <2> HIDE DEF Q
  <2> QED
    BY <1>1, <1>2, SeqInduction
<1> QED
  BY <1>3

\* All sequences but one are empty.
LEMMA FlattenOne ==
  ASSUME NEW V, NEW s \in Seq(Seq(V)), NEW i \in 1 .. Len(s), \A k \in 1 .. Len(s) : k # i => s[k] = <<>>
  PROVE  FlattenSeq(s) = s[i]
<1> DEFINE ok(u) == \A j \in 1 .. Len(u) :
                        (\A k \in 1 .. Len(u) : k # j => u[k] = <<>>) => FlattenSeq(u) = u[j]
           Q == {u \in Seq(Seq(V)) : ok(u)}
<1>1. <<>> \in Q
  BY EmptySeq
<1>2. ASSUME NEW u \in Seq(Seq(V)), NEW e \in Seq(V), ok(u) PROVE ok(Append(u, e))
  <2>1. PICK n \in Nat : n = Len(u)
    BY LenProperties
  <2> DEFINE v == Append(u, e)
  <2>2. Len(v) = n + 1 /\ v[n + 1] = e /\ \A k \in 1 .. n : v[k] = u[k]
    BY <2>1, AppendProperties
  <2>3. FlattenSeq(v) = FlattenSeq(u) \o e
    BY FlattenAppend
  <2> HIDE DEF v
  <2>4. ASSUME NEW j \in 1 .. n + 1, \A k \in 1 .. n + 1 : k # j => v[k] = <<>>
        PROVE  FlattenSeq(v) = v[j]
    <3>1. CASE j = n + 1
      <4>1. \A k \in 1 .. Len(u) : u[k] = <<>>
        BY <2>1, <2>2, <2>4, <3>1
      <4>2. FlattenSeq(u) = <<>>
        BY <4>1, FlattenNothing
      <4> QED
        BY <2>2, <2>3, <3>1, <4>2, ConcatEmptySeq
    <3>2. CASE j \in 1 .. n
      <4>1. e = <<>>
        BY <2>2, <2>4, <3>2
      <4>2. \A k \in 1 .. Len(u) : k # j => u[k] = <<>>
        BY <2>1, <2>2, <2>4, <3>2
      <4>3. FlattenSeq(u) = u[j] /\ u[j] \in Seq(V)
        BY <1>2, <2>1, <3>2, <4>2, ElementOfSeq
      <4> QED
        BY <2>2, <2>3, <3>2, <4>1, <4>3, ConcatEmptySeq
    <3> QED
      BY <3>1, <3>2, SMTT(30)
  <2> QED
    BY <2>2, <2>4 DEF v
<1>3. \A u \in Seq(Seq(V)), e \in Seq(V) : u \in Q => Append(u, e) \in Q
  BY <1>2, AppendProperties
<1> HIDE DEF ok
<1>4. s \in Q
  <2> HIDE DEF Q
  <2> QED
    BY <1>1, <1>3, SeqInduction
<1>5. ok(s)
  BY <1>4
<1> QED
  BY <1>5 DEF ok

-----------------------------------------------------------------------------
(* Keep. *)

\* What is kept of one element.
OneIn(e, T) == IF e \in T THEN <<e>> ELSE <<>>

\* One element or none.
LEMMA OneType ==
  ASSUME NEW V, NEW e \in V, NEW T
  PROVE  OneIn(e, T) \in Seq(V \cap T) /\ OneIn(e, T) \in Seq(V)
<1>1. CASE e \in T
  BY <1>1 DEF OneIn
<1>2. CASE e \notin T
  BY <1>2 DEF OneIn
<1> QED
  BY <1>1, <1>2

\* Keep one element after the other.
LEMMA KeepAppend ==
  ASSUME NEW V, NEW s \in Seq(V), NEW e \in V, NEW T
  PROVE  Keep(Append(s, e), T) = Keep(s, T) \o OneIn(e, T)
<1> DEFINE ones(u) == [k \in DOMAIN u |-> OneIn(u[k], T)]
           v == Append(s, e)
<1>1. PICK n \in Nat : n = Len(s) /\ DOMAIN s = 1 .. n
  BY LenProperties
<1>2. /\ v \in Seq(V) /\ DOMAIN v = 1 .. n + 1 /\ v[n + 1] = e
      /\ \A k \in 1 .. n : v[k] = s[k]
  BY <1>1, AppendProperties, LenProperties
<1>3. \A x \in V : OneIn(x, T) \in Seq(V)
  BY OneType
<1>4. ones(s) \in Seq(Seq(V)) /\ OneIn(e, T) \in Seq(V)
  <2>1. \A k \in 1 .. n : s[k] \in V
    BY <1>1, ElementOfSeq
  <2> QED
    BY <1>1, <1>3, <2>1
<1> HIDE DEF v
<1>5. ones(v) = Append(ones(s), OneIn(e, T))
  <2> DEFINE w == Append(ones(s), OneIn(e, T))
  <2>1. Len(ones(s)) = n
    BY <1>1
  <2>2. w \in Seq(Seq(V)) /\ Len(w) = n + 1 /\ w[n + 1] = OneIn(e, T) /\ \A k \in 1 .. n : w[k] = OneIn(s[k], T)
    BY <1>1, <1>4, <2>1
  <2>3. ones(v) \in Seq(Seq(V)) /\ Len(ones(v)) = n + 1
    <3>1. \A k \in 1 .. n + 1 : v[k] \in V
      BY <1>2, ElementOfSeq, LenProperties
    <3> QED
      BY <1>2, <1>3, <3>1
  <2>4. ones(v)[n + 1] = OneIn(e, T) /\ \A k \in 1 .. n : ones(v)[k] = OneIn(s[k], T)
    BY <1>2
  <2> HIDE DEF w, ones
  <2>5. \A k \in 1 .. n + 1 : ones(v)[k] = w[k]
    <3>1. \A k \in 1 .. n : ones(v)[k] = w[k]
      BY <2>2, <2>4
    <3>2. ones(v)[n + 1] = w[n + 1]
      BY <2>2, <2>4
    <3>3. \A k \in 1 .. n + 1 : k \in 1 .. n \/ k = n + 1
      OBVIOUS
    <3> QED
      BY <3>1, <3>2, <3>3
  <2> QED
    BY <2>2, <2>3, <2>5, SeqEqual DEF w
<1>6. FlattenSeq(ones(v)) = FlattenSeq(ones(s)) \o OneIn(e, T)
  <2> HIDE DEF ones
  <2> QED
  BY <1>4, <1>5, FlattenAppend
<1> QED
  BY <1>6 DEF Keep, OneIn, v

\* Nothing is kept of nothing.
LEMMA KeepEmpty == ASSUME NEW T PROVE Keep(<<>>, T) = <<>>
<1>1. [k \in DOMAIN <<>> |-> IF <<>>[k] \in T THEN <<<<>>[k]>> ELSE <<>>] = <<>>
  OBVIOUS
<1> QED
  BY <1>1, FlattenEmpty DEF Keep

\* What is kept is in T.
LEMMA KeepType ==
  ASSUME NEW V, NEW s \in Seq(V), NEW T
  PROVE  Keep(s, T) \in Seq(V \cap T)
<1> DEFINE Q == {u \in Seq(V) : Keep(u, T) \in Seq(V \cap T)}
<1>1. <<>> \in Q
  BY KeepEmpty, EmptySeq
<1>2. ASSUME NEW u \in Seq(V), NEW e \in V, u \in Q PROVE Append(u, e) \in Q
  <2>1. Keep(Append(u, e), T) = Keep(u, T) \o OneIn(e, T)
    BY KeepAppend
  <2>2. Keep(u, T) \o OneIn(e, T) \in Seq(V \cap T)
    BY <1>2, OneType, ConcatProperties
  <2> QED
    BY <2>1, <2>2, AppendProperties
<1>3. s \in Q
  <2> HIDE DEF Q
  <2> QED
    BY <1>1, <1>2, SeqInduction
<1> QED
  BY <1>3

\* Two sequences may be kept apart.
LEMMA KeepConcat ==
  ASSUME NEW V, NEW s \in Seq(V), NEW t \in Seq(V), NEW T
  PROVE  Keep(s \o t, T) = Keep(s, T) \o Keep(t, T)
<1> DEFINE Q == {u \in Seq(V) : Keep(s \o u, T) = Keep(s, T) \o Keep(u, T)}
<1>1. Keep(s, T) \in Seq(V \cap T)
  BY KeepType
<1>2. <<>> \in Q
  BY <1>1, KeepEmpty, EmptySeq, ConcatEmptySeq
<1>3. ASSUME NEW u \in Seq(V), NEW e \in V, u \in Q PROVE Append(u, e) \in Q
  <2>1. s \o u \in Seq(V) /\ Append(u, e) \in Seq(V)
    BY ConcatProperties, AppendProperties
  <2>2. s \o Append(u, e) = Append(s \o u, e)
    <3>1. s \o Append(u, e) \in Seq(V) /\ Append(s \o u, e) \in Seq(V)
      BY <2>1, ConcatProperties, AppendProperties
    <3> QED
      BY <3>1
  <2>3. Keep(s \o Append(u, e), T) = (Keep(s, T) \o Keep(u, T)) \o OneIn(e, T)
    <3>1. Keep(Append(s \o u, e), T) = Keep(s \o u, T) \o OneIn(e, T)
      BY <2>1, KeepAppend
    <3>2. Keep(s \o u, T) = Keep(s, T) \o Keep(u, T)
      BY <1>3
    <3> QED
      BY <2>2, <3>1, <3>2
  <2>4. Keep(Append(u, e), T) = Keep(u, T) \o OneIn(e, T)
    BY KeepAppend
  <2>5. Keep(u, T) \in Seq(V \cap T) /\ OneIn(e, T) \in Seq(V \cap T)
    BY KeepType, OneType
  <2>6. (Keep(s, T) \o Keep(u, T)) \o OneIn(e, T) = Keep(s, T) \o (Keep(u, T) \o OneIn(e, T))
    <3>1. PICK a, b, c : a = Keep(s, T) /\ b = Keep(u, T) /\ c = OneIn(e, T)
      OBVIOUS
    <3>2. PICK R : R = V \cap T
      OBVIOUS
    <3>3. a \in Seq(R) /\ b \in Seq(R) /\ c \in Seq(R)
      BY <1>1, <2>5, <3>1, <3>2
    <3>4. (a \o b) \o c = a \o (b \o c)
      BY <3>3, ConcatAssociative, SMTT(30)
    <3> QED
      BY <3>1, <3>4
  <2> QED
    BY <2>1, <2>3, <2>4, <2>6
<1>4. t \in Q
  <2> HIDE DEF Q
  <2> QED
    BY <1>2, <1>3, SeqInduction
<1> QED
  BY <1>4

\* One element is kept or not.
LEMMA KeepOne ==
  ASSUME NEW e, NEW T
  PROVE  Keep(<<e>>, T) = OneIn(e, T)
<1>1. <<e>> = Append(<<>>, e) /\ <<>> \in Seq({e}) /\ e \in {e}
  OBVIOUS
<1>2. OneIn(e, T) \in Seq({e}) /\ <<>> \o OneIn(e, T) = OneIn(e, T)
  BY <1>1, OneType, ConcatEmptySeq
<1>3. Keep(Append(<<>>, e), T) = Keep(<<>>, T) \o OneIn(e, T)
  BY <1>1, KeepAppend
<1> QED
  BY <1>1, <1>2, <1>3, KeepEmpty

\* To keep twice is to keep what is in both sets.
LEMMA KeepKeep ==
  ASSUME NEW V, NEW s \in Seq(V), NEW T, NEW U
  PROVE  Keep(Keep(s, T), U) = Keep(s, T \cap U)
<1> DEFINE Q == {u \in Seq(V) : Keep(Keep(u, T), U) = Keep(u, T \cap U)}
<1>1. <<>> \in Q
  BY KeepEmpty, EmptySeq
<1>2. ASSUME NEW u \in Seq(V), NEW e \in V, u \in Q PROVE Append(u, e) \in Q
  <2>1. Keep(Append(u, e), T) = Keep(u, T) \o OneIn(e, T)
    BY KeepAppend
  <2>2. Keep(u, T) \in Seq(V \cap T) /\ OneIn(e, T) \in Seq(V \cap T)
    BY KeepType, OneType
  <2>3. Keep(Keep(Append(u, e), T), U) = Keep(Keep(u, T), U) \o Keep(OneIn(e, T), U)
    BY <2>1, <2>2, KeepConcat, SMTT(30)
  <2>4. Keep(OneIn(e, T), U) = OneIn(e, T \cap U)
    BY KeepOne, KeepEmpty DEF OneIn
  <2>5. Keep(Append(u, e), T \cap U) = Keep(u, T \cap U) \o OneIn(e, T \cap U)
    BY KeepAppend
  <2> QED
    BY <1>2, <2>3, <2>4, <2>5, AppendProperties
<1>3. s \in Q
  <2> HIDE DEF Q
  <2> QED
    BY <1>1, <1>2, SeqInduction
<1> QED
  BY <1>3

\* Only the elements of the sequence matter.
LEMMA KeepSame ==
  ASSUME NEW s, NEW T, NEW U, \A x \in Range(s) : x \in T <=> x \in U
  PROVE  Keep(s, T) = Keep(s, U)
<1>1. \A k \in DOMAIN s : s[k] \in T <=> s[k] \in U
  BY DEF Range
<1>2. [k \in DOMAIN s |-> IF s[k] \in T THEN <<s[k]>> ELSE <<>>]
        = [k \in DOMAIN s |-> IF s[k] \in U THEN <<s[k]>> ELSE <<>>]
  BY <1>1
<1> QED
  BY <1>2, Zenon DEF Keep

\* All of it is kept.
LEMMA KeepAll ==
  ASSUME NEW V, NEW s \in Seq(V), NEW T, V \subseteq T
  PROVE  Keep(s, T) = s
<1> DEFINE Q == {u \in Seq(V) : Keep(u, T) = u}
<1>1. <<>> \in Q
  BY KeepEmpty, EmptySeq
<1>2. ASSUME NEW u \in Seq(V), NEW e \in V, u \in Q PROVE Append(u, e) \in Q
  <2>1. Keep(Append(u, e), T) = Keep(u, T) \o OneIn(e, T)
    BY KeepAppend
  <2>2. OneIn(e, T) = <<e>>
    BY DEF OneIn
  <2> QED
    BY <1>2, <2>1, <2>2, AppendProperties, AppendIsConcat
<1>3. s \in Q
  <2> HIDE DEF Q
  <2> QED
    BY <1>1, <1>2, SeqInduction
<1> QED
  BY <1>3

-----------------------------------------------------------------------------
(* Values along a sequence. *)

\* f gives every element of V a value in R; and its values along a sequence.
Maps(f, V, R) == \A x \in V : f[x] \in R

Mapped(f, s) == [k \in DOMAIN s |-> f[s[k]]]

\* The values are in R.
LEMMA MapSeq ==
  ASSUME NEW V, NEW R, NEW f, Maps(f, V, R), NEW s \in Seq(V)
  PROVE  Mapped(f, s) \in Seq(R)
<1>1. Len(s) \in Nat /\ DOMAIN s = 1 .. Len(s) /\ \A k \in 1 .. Len(s) : s[k] \in V
  BY LenProperties, ElementOfSeq
<1> QED
  BY <1>1 DEF Mapped, Maps

\* There is one value for every element.
LEMMA MapLen ==
  ASSUME NEW V, NEW f, NEW s \in Seq(V)
  PROVE  Len(Mapped(f, s)) = Len(s)
BY LenProperties DEF Mapped

\* The value at a place.
LEMMA MapAt ==
  ASSUME NEW V, NEW f, NEW s \in Seq(V), NEW k \in 1 .. Len(s)
  PROVE  Mapped(f, s)[k] = f[s[k]]
BY LenProperties DEF Mapped

\* Values along two sequences, one after the other.
LEMMA MapConcat ==
  ASSUME NEW V, NEW R, NEW f, Maps(f, V, R), NEW s \in Seq(V), NEW t \in Seq(V)
  PROVE  Mapped(f, s \o t) = Mapped(f, s) \o Mapped(f, t)
<1>1. PICK u : u = s \o t
  OBVIOUS
<1>2. u \in Seq(V) /\ Len(u) = Len(s) + Len(t) /\ Len(s) \in Nat /\ Len(t) \in Nat
  BY <1>1, ConcatProperties, LenProperties
<1>3. \A k \in 1 .. Len(s) + Len(t) : u[k] = IF k <= Len(s) THEN s[k] ELSE t[k - Len(s)]
  BY <1>1, ConcatProperties
<1> DEFINE a == Mapped(f, s)
           b == Mapped(f, t)
           v == Mapped(f, u)
<1>4. a \in Seq(R) /\ b \in Seq(R) /\ v \in Seq(R)
  BY <1>2, MapSeq
<1>5. Len(a) = Len(s) /\ Len(b) = Len(t) /\ Len(v) = Len(s) + Len(t)
  BY <1>2, MapLen
<1>6. /\ \A k \in 1 .. Len(s) : a[k] = f[s[k]]
      /\ \A k \in 1 .. Len(t) : b[k] = f[t[k]]
      /\ \A k \in 1 .. Len(s) + Len(t) : v[k] = f[u[k]]
  <2>1. ASSUME NEW w \in Seq(V), NEW k \in 1 .. Len(w) PROVE Mapped(f, w)[k] = f[w[k]]
    BY MapAt
  <2> QED
    BY <1>2, <2>1
<1> HIDE DEF a, b, v
<1>7. /\ a \o b \in Seq(R) /\ Len(a \o b) = Len(s) + Len(t)
      /\ \A k \in 1 .. Len(s) + Len(t) : (a \o b)[k] = IF k <= Len(s) THEN a[k] ELSE b[k - Len(s)]
  <2>1. /\ a \o b \in Seq(R) /\ Len(a \o b) = Len(a) + Len(b)
        /\ \A k \in 1 .. Len(a) + Len(b) : (a \o b)[k] = IF k <= Len(a) THEN a[k] ELSE b[k - Len(a)]
    BY <1>4, ConcatProperties
  <2> QED
    BY <1>5, <2>1, Zenon
<1>8. ASSUME NEW k \in 1 .. Len(s) + Len(t) PROVE v[k] = (a \o b)[k]
  <2>1. CASE k <= Len(s)
    <3>1. k \in 1 .. Len(s)
      BY <1>2, <2>1
    <3>2. u[k] = s[k] /\ (a \o b)[k] = a[k]
      BY <1>3, <1>7, <2>1
    <3> QED
      BY <1>6, <3>1, <3>2
  <2>2. CASE ~ (k <= Len(s))
    <3>1. k - Len(s) \in 1 .. Len(t)
      BY <1>2, <2>2
    <3>2. u[k] = t[k - Len(s)] /\ (a \o b)[k] = b[k - Len(s)]
      BY <1>3, <1>7, <2>2
    <3> QED
      BY <1>6, <3>1, <3>2
  <2> QED
    BY <2>1, <2>2
<1> QED
  BY <1>1, <1>4, <1>5, <1>7, <1>8, SeqEqual DEF a, b, v

\* The value of one element and of none.
LEMMA MapOne ==
  ASSUME NEW f, NEW e
  PROVE  Mapped(f, <<e>>) = <<f[e]>> /\ Mapped(f, <<>>) = <<>>
BY DEF Mapped

\* To keep those with a value in T is to keep those in U.
Selects(f, V, T, U) == \A x \in V : x \in U <=> f[x] \in T

\* Values may be taken before or after.
LEMMA KeepMap ==
  ASSUME NEW V, NEW R, NEW f, Maps(f, V, R), NEW s \in Seq(V), NEW T, NEW U, Selects(f, V, T, U)
  PROVE  Keep(Mapped(f, s), T) = Mapped(f, Keep(s, U))
<1> DEFINE Q == {u \in Seq(V) : Keep(Mapped(f, u), T) = Mapped(f, Keep(u, U))}
<1>1. ASSUME NEW a \in Seq(V), NEW b \in Seq(V)
      PROVE  Mapped(f, a \o b) = Mapped(f, a) \o Mapped(f, b)
  BY MapConcat
<1>2. ASSUME NEW a \in Seq(R), NEW b \in Seq(R)
      PROVE  Keep(a \o b, T) = Keep(a, T) \o Keep(b, T)
  BY KeepConcat
<1>3. <<>> \in Q
  BY KeepEmpty, MapOne, EmptySeq
<1>4. ASSUME NEW u \in Seq(V), NEW e \in V, u \in Q PROVE Append(u, e) \in Q
  <2>1. Append(u, e) \in Seq(V) /\ Append(u, e) = u \o <<e>> /\ <<e>> \in Seq(V)
    BY AppendProperties, AppendIsConcat
  <2>2. f[e] \in R /\ (e \in U <=> f[e] \in T)
    BY DEF Maps, Selects
  <2>3. Mapped(f, u) \in Seq(R) /\ <<f[e]>> \in Seq(R)
    BY <2>2, MapSeq
  <2>4. Mapped(f, Append(u, e)) = Mapped(f, u) \o <<f[e]>>
    <3>1. Mapped(f, u \o <<e>>) = Mapped(f, u) \o Mapped(f, <<e>>)
      BY <1>1, <2>1
    <3> QED
      BY <2>1, <3>1, MapOne, Zenon
  <2>5. Keep(Mapped(f, Append(u, e)), T) = Keep(Mapped(f, u), T) \o OneIn(f[e], T)
    <3>1. Keep(Mapped(f, u) \o <<f[e]>>, T) = Keep(Mapped(f, u), T) \o Keep(<<f[e]>>, T)
      BY <1>2, <2>3
    <3> QED
      BY <2>4, <3>1, KeepOne, Zenon
  <2>6. Keep(u, U) \in Seq(V) /\ OneIn(e, U) \in Seq(V)
    <3>1. Keep(u, U) \in Seq(V \cap U)
      BY KeepType
    <3> QED
      BY <3>1, OneType, SeqMonotonic
  <2>7. Mapped(f, Keep(Append(u, e), U)) = Mapped(f, Keep(u, U)) \o Mapped(f, OneIn(e, U))
    <3>1. Mapped(f, Keep(u, U) \o OneIn(e, U)) = Mapped(f, Keep(u, U)) \o Mapped(f, OneIn(e, U))
      BY <1>1, <2>6
    <3>2. Keep(Append(u, e), U) = Keep(u, U) \o OneIn(e, U)
      BY KeepAppend
    <3> QED
      BY <3>1, <3>2, Zenon
  <2>8. Mapped(f, OneIn(e, U)) = OneIn(f[e], T)
    BY <2>2, MapOne DEF OneIn
  <2> QED
    BY <1>4, <2>1, <2>5, <2>7, <2>8
<1>5. s \in Q
  <2> HIDE DEF Q
  <2> QED
    BY <1>3, <1>4, SeqInduction
<1> QED
  BY <1>5

-----------------------------------------------------------------------------
(* What the registry builds. *)

\* The built-in plugins have a handler, and the project's own has none.
LEMMA FactoryHandler ==
  ASSUME NEW name, NEW s, factory(name, s).ok
  PROVE  factory(name, s).val.handler <=> name \in Builtins
<1>1. CASE name \in Builtins
  <2>1. ASSUME NEW r, r \in {recoveryFactory(s), accesslogFactory(s), corsFactory(s), ratelimitFactory(s),
                             apikeyFactory(s), jwtFactory(s), metricsFactory(s)}, r.ok
        PROVE  r.val.handler
    <3>1. CASE r = recoveryFactory(s)
      BY <3>1 DEF recoveryFactory, Ok, Plugin
    <3>2. CASE r = accesslogFactory(s)
      BY <2>1, <3>2 DEF accesslogFactory, Ok, Err, Plugin
    <3>3. CASE r = corsFactory(s)
      BY <2>1, <3>3 DEF corsFactory, Ok, Err, Plugin
    <3>4. CASE r = ratelimitFactory(s)
      BY <2>1, <3>4 DEF ratelimitFactory, Ok, Err, Plugin
    <3>5. CASE r = apikeyFactory(s)
      BY <2>1, <3>5 DEF apikeyFactory, Ok, Err, Plugin
    <3>6. CASE r = jwtFactory(s)
      BY <2>1, <3>6 DEF jwtFactory, Ok, Err, Plugin
    <3>7. CASE r = metricsFactory(s)
      BY <2>1, <3>7 DEF metricsFactory, Ok, Err, Plugin
    <3> QED
      BY <2>1, <3>1, <3>2, <3>3, <3>4, <3>5, <3>6, <3>7
  <2>2. factory(name, s) \in {recoveryFactory(s), accesslogFactory(s), corsFactory(s), ratelimitFactory(s),
                              apikeyFactory(s), jwtFactory(s), metricsFactory(s)}
    BY <1>1 DEF factory, Builtins
  <2> QED
    BY <1>1, <2>1, <2>2
<1>2. CASE name \notin Builtins
  <2>1. factory(name, s) = customFactory(s)
    BY <1>2 DEF factory, Builtins
  <2>2. ~ customFactory(s).val.handler
    BY DEF customFactory, Ok, Plugin
  <2> QED
    BY <1>2, <2>1, <2>2
<1> QED
  BY <1>1, <1>2

\* What Build makes of the enabled entries.
LEMMA BuiltIs ==
  ASSUME NEW reg, NEW specs, Build(reg, specs).ok
  PROVE  LET E  == Keep(specs, {s \in Range(specs) : IsEnabled(s)})
             bo == [s \in Range(E) |-> buildOne(reg, s).val]
         IN  /\ Build(reg, specs).val = Mapped(bo, E)
             /\ \A s \in Range(E) : /\ bo[s].name = s.name[1]
                                    /\ (bo[s].plugin.handler <=> s.name[1] \in Builtins)
<1> DEFINE E  == Keep(specs, {s \in Range(specs) : IsEnabled(s)})
           bo == [s \in Range(E) |-> buildOne(reg, s).val]
           built == [i \in DOMAIN E |-> buildOne(reg, E[i])]
<1>1. Build(reg, specs) = IF \A i \in DOMAIN built : built[i].ok
                          THEN Ok([i \in DOMAIN built |-> built[i].val]) ELSE Err
  BY Zenon DEF Build
<1> HIDE DEF E
<1>2. \A i \in DOMAIN E : buildOne(reg, E[i]).ok
  BY <1>1 DEF Err
<1>3. Build(reg, specs).val = [i \in DOMAIN E |-> buildOne(reg, E[i]).val]
  BY <1>1, <1>2 DEF Ok
<1>4. \A i \in DOMAIN E : E[i] \in Range(E)
  BY DEF Range
<1>5. Build(reg, specs).val = Mapped(bo, E)
  BY <1>3, <1>4 DEF Mapped
<1>6. ASSUME NEW s \in Range(E)
      PROVE  bo[s].name = s.name[1] /\ (bo[s].plugin.handler <=> s.name[1] \in Builtins)
  <2> DEFINE r == factory(s.name[1], s.config)
  <2>1. buildOne(reg, s).ok
    BY <1>2 DEF Range
  <2>2. r.ok /\ buildOne(reg, s) = Ok([name |-> s.name[1], plugin |-> r.val])
    BY <2>1 DEF buildOne, normalized, Err
  <2>3. r.val.handler <=> s.name[1] \in Builtins
    BY <2>2, FactoryHandler
  <2> HIDE DEF r
  <2> QED
    BY <2>2, <2>3 DEF Ok
<1> HIDE DEF bo
<1> QED
  BY <1>5, <1>6, Zenon DEF E, bo

\* The names of some plugins, and the plugins whose name is not in a set.
Names(s) == [k \in DOMAIN s |-> s[k].name]

Without(s, opted) == Keep(s, {b \in Range(s) : b.name \notin opted})

\* The names of the handlers that run are those that the list says, without the opted ones.
LEMMA ChainNames ==
  ASSUME NEW reg, NEW specs, IsList(specs), Build(reg, specs).ok, NEW opted
  PROVE  Names(Without(handlers(Build(reg, specs).val), opted)) = Keep(listed(specs), Builtins \ opted)
<1> DEFINE on == {s \in Range(specs) : IsEnabled(s)}
           E  == Keep(specs, on)
           V  == Range(E)
           bo == [s \in V |-> buildOne(reg, s).val]
           R  == {bo[s] : s \in V}
           B  == Build(reg, specs).val
           H  == handlers(B)
           K  == Keep(H, {b \in Range(H) : b.name \notin opted})
           raw == [s \in Range(specs) |-> s.name[1]]
           Bi == {s \in Range(specs) : s.name[1] \in Builtins}
           U  == {s \in V : s.name[1] \in Builtins /\ s.name[1] \notin opted}
<1>1. specs \in Seq(Range(specs))
  BY DEF IsList
<1>2. B = Mapped(bo, E) /\ \A s \in V : /\ bo[s].name = s.name[1]
                                        /\ (bo[s].plugin.handler <=> s.name[1] \in Builtins)
  BY BuiltIs, Zenon
<1>3. E \in Seq(Range(specs) \cap on)
  BY <1>1, KeepType, Zenon
<1>4. E \in Seq(V) /\ V \subseteq Range(specs)
  <2> HIDE DEF E
  <2>1. Range(E) \subseteq Range(specs) \cap on
    BY <1>3, RangeOfSeq
  <2> QED
    BY <1>3, <2>1, SeqOfRange
<1>5. Maps(bo, V, R)
  BY DEF Maps
<1> HIDE DEF E, bo
<1>6. B \in Seq(R)
  <2> HIDE DEF V, R
  <2> QED
  BY <1>2, <1>4, <1>5, MapSeq
<1> DEFINE Hd == {b \in R : b.plugin.handler}
           N == {b \in R : b.name \notin opted}
<1>7. H = Keep(B, Hd)
  <2>1. Range(B) \subseteq R
    <3> HIDE DEF R, B
    <3> QED
      BY <1>6, RangeOfSeq
  <2> HIDE DEF B, R
  <2>2. \A b \in Range(B) : b \in {c \in Range(B) : c.plugin.handler} <=> b \in Hd
    BY <2>1
  <2> QED
    BY <2>2, KeepSame DEF handlers
<1>8. H \in Seq(R \cap Hd)
  <2> HIDE DEF B, R, H, Hd
  <2> QED
    BY <1>6, <1>7, KeepType
<1>9. K = Keep(H, N)
  <2>1. Range(H) \subseteq R
    <3> HIDE DEF R, H, Hd
    <3>1. Range(H) \subseteq R \cap Hd
      BY <1>8, RangeOfSeq
    <3> QED
      BY <3>1
  <2> HIDE DEF H, R
  <2>2. \A b \in Range(H) : b \in {c \in Range(H) : c.name \notin opted} <=> b \in N
    BY <2>1
  <2> QED
    BY <2>2, KeepSame
<1>10. K = Keep(B, Hd \cap N)
  <2> HIDE DEF B, R, H, Hd, K, N
  <2> QED
    BY <1>6, <1>7, <1>9, KeepKeep
<1>11. K = Mapped(bo, Keep(E, U))
  <2>1. Selects(bo, V, Hd \cap N, U)
    BY <1>2 DEF Selects
  <2> HIDE DEF B, R, H, Hd, K, N, V, U
  <2> QED
    BY <1>2, <1>4, <1>5, <1>10, <2>1, KeepMap
<1>12. [k \in DOMAIN K |-> K[k].name] = Mapped(raw, Keep(E, U))
  <2> DEFINE X == Keep(E, U)
  <2>1. X \in Seq(V \cap U)
    <3> HIDE DEF V, U
    <3> QED
      BY <1>4, KeepType
  <2>2. \A k \in DOMAIN X : X[k] \in V
    <3> HIDE DEF X, V, U
    <3> QED
      BY <2>1, LenProperties, ElementOfSeq
  <2>3. \A s \in V : bo[s].name = raw[s]
    BY <1>2, <1>4
  <2> HIDE DEF X, raw, V, K
  <2> QED
    BY <1>11, <2>2, <2>3 DEF Mapped, X
<1>13. listed(specs) = Mapped(raw, Keep(E, Bi))
  <2>1. on \cap Bi = {s \in Range(specs) : s.enabled # "false" /\ s.name[1] \in Builtins}
    BY DEF IsEnabled
  <2> DEFINE Y == Keep(specs, on \cap Bi)
  <2>2. listed(specs) = [k \in DOMAIN Y |-> Y[k].name[1]]
    BY <2>1, Zenon DEF listed
  <2>3. Y \in Seq(Range(specs) \cap (on \cap Bi))
    BY <1>1, KeepType, Zenon
  <2>4. Y = Keep(E, Bi)
    <3> HIDE DEF on, Bi
    <3> QED
      BY <1>1, KeepKeep DEF E
  <2> HIDE DEF Y
  <2>5. \A k \in DOMAIN Y : Y[k] \in Range(specs)
    <3> HIDE DEF on, Bi
    <3> QED
      BY <2>3, LenProperties, ElementOfSeq
  <2>6. Mapped(raw, Y) = [k \in DOMAIN Y |-> Y[k].name[1]]
    BY <2>5 DEF Mapped
  <2> QED
    BY <2>2, <2>4, <2>6
<1> DEFINE Nn == Builtins \ opted
<1>14. Keep(listed(specs), Nn) = Mapped(raw, Keep(Keep(E, Bi), U))
  <2>1. Keep(E, Bi) \in Seq(V \cap Bi)
    <3> HIDE DEF V, Bi
    <3> QED
      BY <1>4, KeepType
  <2>2. Maps(raw, V \cap Bi, Builtins)
    BY DEF Maps
  <2>3. Selects(raw, V \cap Bi, Nn, U)
    BY DEF Selects
  <2> HIDE DEF V, Bi, Nn, U, raw
  <2> QED
    BY <1>13, <2>1, <2>2, <2>3, KeepMap
<1>15. Keep(Keep(E, Bi), U) = Keep(E, U)
  <2>1. Bi \cap U = U
    BY <1>4
  <2> HIDE DEF V, Bi, U
  <2> QED
    BY <1>4, <2>1, KeepKeep
<1> QED
  BY <1>12, <1>14, <1>15, Zenon DEF Names, Without

\* Any sequence is a list.
LEMMA ListOf == ASSUME NEW R, NEW s \in Seq(R) PROVE IsList(s)
BY SeqOfRange DEF IsList

\* The plugins that Build returns, and their handlers.
LEMMA BuiltList ==
  ASSUME NEW reg, NEW specs, IsList(specs), Build(reg, specs).ok
  PROVE  LET B == Build(reg, specs).val
         IN  IsList(B) /\ \A b \in Range(B) : b.plugin.handler => b.name \in Builtins
<1> DEFINE on == {s \in Range(specs) : IsEnabled(s)}
           E  == Keep(specs, on)
           V  == Range(E)
           bo == [s \in V |-> buildOne(reg, s).val]
           R  == {bo[s] : s \in V}
           B  == Build(reg, specs).val
<1>1. B = Mapped(bo, E) /\ \A s \in V : /\ bo[s].name = s.name[1]
                                        /\ (bo[s].plugin.handler <=> s.name[1] \in Builtins)
  BY BuiltIs, Zenon
<1>2. specs \in Seq(Range(specs))
  BY DEF IsList
<1>3. E \in Seq(Range(specs) \cap on)
  BY <1>2, KeepType, Zenon
<1>4. E \in Seq(V)
  <2> HIDE DEF E
  <2> QED
    BY <1>3, SeqOfRange
<1>5. Maps(bo, V, R)
  BY DEF Maps
<1> HIDE DEF E, bo
<1>6. B \in Seq(R)
  <2> HIDE DEF V, R
  <2> QED
  BY <1>1, <1>4, <1>5, MapSeq
<1>7. IsList(B) /\ Range(B) \subseteq R
  <2> HIDE DEF R, B
  <2> QED
    BY <1>6, ListOf, RangeOfSeq
<1> HIDE DEF B
<1>8. ASSUME NEW b \in Range(B), b.plugin.handler PROVE b.name \in Builtins
  BY <1>1, <1>7, <1>8
<1> QED
  BY <1>7, <1>8 DEF B

\* What is kept of a list is a list.
LEMMA KeepList ==
  ASSUME NEW s, IsList(s), NEW T
  PROVE  /\ IsList(Keep(s, T)) /\ Range(Keep(s, T)) \subseteq Range(s) \cap T
<1>1. Keep(s, T) \in Seq(Range(s) \cap T)
  BY KeepType DEF IsList
<1> QED
  BY <1>1, ListOf, RangeOfSeq

\* The handlers of some plugins.
LEMMA HandlersAre ==
  ASSUME NEW B, IsList(B)
  PROVE  IsList(handlers(B)) /\ \A b \in Range(handlers(B)) : b \in Range(B) /\ b.plugin.handler
<1> DEFINE T == {b \in Range(B) : b.plugin.handler}
<1>1. handlers(B) = Keep(B, T)
  BY DEF handlers
<1>2. IsList(handlers(B)) /\ Range(handlers(B)) \subseteq Range(B) \cap T
  <2> HIDE DEF T
  <2> QED
    BY <1>1, KeepList
<1> QED
  BY <1>2

-----------------------------------------------------------------------------
(* What Init mounts. *)

\* An entry that is mounted before the chain.
Exempt(e) == e.steps = <<>> /\ e.end \in {"health", "endpoint"} /\ e.route = 0

\* What the plugin list of a configured route builds.
RouteBuilt(i) == Build(registered.plugin, cfg.routes[i].plugins)

\* An entry that is mounted after the chain: a project's own route,
\* the endpoint of a plugin of a route, or the route itself.
Late(e) ==
    \/ e.end = "custom" /\ e.route = 0
    \/ e.end = "endpoint" /\ e.route # 0
    \/ \E i \in DOMAIN routes : RouteBuilt(i).ok /\ e = routeEntry(i, routes[i], RouteBuilt(i).val)

\* The entries of the endpoints.
LEMMA EndpointsAre ==
  ASSUME NEW B, IsList(B), NEW i
  PROVE  /\ IsList(endpoints(B, i))
         /\ \A k \in DOMAIN endpoints(B, i) : /\ endpoints(B, i)[k].steps = <<>>
                                              /\ endpoints(B, i)[k].end = "endpoint"
                                              /\ endpoints(B, i)[k].route = i
<1> DEFINE own == Keep(B, {b \in Range(B) : b.plugin.endpoint # ""})
           entry(k) == Entry("GET", own[k].plugin.endpoint, <<>>, "endpoint", i)
           es == [k \in DOMAIN own |-> entry(k)]
<1>1. endpoints(B, i) = es
  BY Zenon DEF endpoints, mounting
<1>2. IsList(own)
  BY KeepList, Zenon
<1>3. Len(own) \in Nat /\ DOMAIN own = 1 .. Len(own)
  <2> HIDE DEF own
  <2> QED
    BY <1>2, LenProperties DEF IsList
<1> HIDE DEF own
<1>4. es \in Seq({entry(k) : k \in DOMAIN own})
  <2> HIDE DEF entry
  <2> QED
    BY <1>3
<1>5. IsList(es)
  <2> HIDE DEF es
  <2> QED
    BY <1>4, ListOf
<1> QED
  BY <1>1, <1>5 DEF Entry

\* The handlers of the global plugins.
Chain == handlers(Build(registered.plugin, cfg.plugins).val)

\* The first a entries are exempt, then comes the chain, then what is mounted later.
StackParts(a) ==
    /\ a + Len(Chain) <= Len(stack)
    /\ \A k \in 1 .. a : Exempt(stack[k])
    /\ \A k \in 1 .. Len(Chain) : stack[a + k] = Entry("ALL", "ALL", <<Chain[k]>>, "next", 0)
    /\ \A k \in a + Len(Chain) + 1 .. Len(stack) : Late(stack[k])

\* The stack as long as Init has not failed.
StackIs ==
    /\ Build(registered.plugin, cfg.plugins).ok /\ IsList(stack)
    /\ \E a \in 0 .. Len(stack) : StackParts(a)

\* The mounted routes are those of the config, checked and with their defaults.
RoutesAre ==
    /\ IsList(routes)
    /\ \A i \in DOMAIN routes :
           i \in DOMAIN cfg.routes /\ newProxyRoute(cfg.routes[i]) = Ok(routes[i])

\* The route has a name in its skip list.
Opts(route) == skipOf(route).all \/ skipOf(route).names # {}

\* The skip lists are those of the mounted routes that have one.
SkipsAre ==
    /\ IsList(globalSkips)
    /\ \A g \in Range(globalSkips) : \E j \in DOMAIN routes : Opts(routes[j]) /\ g = skipOf(routes[j])
    /\ \A j \in DOMAIN routes : Opts(routes[j]) => skipOf(routes[j]) \in Range(globalSkips)

\* What Init has mounted so far: the inductive invariant of this part.
MountInv ==
    /\ cfg \in Configs
    /\ phase \in {"new", "init"} => routes = <<>> /\ globalSkips = <<>>
    /\ phase \in {"routes", "ready"} => StackIs /\ RoutesAre /\ SkipsAre

-----------------------------------------------------------------------------
(* Every action keeps it. *)

\* The chain is a list of built-in plugins.
LEMMA ChainList ==
  ASSUME cfg \in Configs, Build(registered.plugin, cfg.plugins).ok
  PROVE  /\ IsList(Build(registered.plugin, cfg.plugins).val) /\ IsList(Chain)
         /\ Len(Chain) \in Nat /\ DOMAIN Chain = 1 .. Len(Chain)
         /\ \A b \in Range(Chain) : b.name \in Builtins
<1>1. IsList(cfg.plugins)
  BY GatewayAssumption
<1> DEFINE B == Build(registered.plugin, cfg.plugins).val
<1>2. IsList(B) /\ \A b \in Range(B) : b.plugin.handler => b.name \in Builtins
  BY <1>1, BuiltList, Zenon
<1> HIDE DEF B
<1>3. IsList(Chain) /\ \A b \in Range(Chain) : b \in Range(B) /\ b.plugin.handler
  BY <1>2, HandlersAre DEF Chain, B
<1>4. Len(Chain) \in Nat /\ DOMAIN Chain = 1 .. Len(Chain)
  BY <1>3, LenProperties DEF IsList
<1> QED
  BY <1>2, <1>3, <1>4 DEF B

\* u is the list s and then the list t.
Joined(u, s, t) ==
    /\ IsList(u) /\ Len(u) = Len(s) + Len(t) /\ Len(s) \in Nat /\ Len(t) \in Nat
    /\ DOMAIN t = 1 .. Len(t)
    /\ \A k \in 1 .. Len(s) : u[k] = s[k]
    /\ \A k \in 1 .. Len(t) : u[Len(s) + k] = t[k]

\* A list with another after it.
LEMMA ConcatLists ==
  ASSUME NEW s, IsList(s), NEW t, IsList(t)
  PROVE  Joined(s \o t, s, t)
<1> DEFINE R == Range(s) \cup Range(t)
<1>1. s \in Seq(R) /\ t \in Seq(R)
  BY SeqMonotonic DEF IsList
<1> HIDE DEF R
<1>2. /\ s \o t \in Seq(R) /\ Len(s \o t) = Len(s) + Len(t)
      /\ Len(s) \in Nat /\ Len(t) \in Nat /\ DOMAIN t = 1 .. Len(t)
  BY <1>1, ConcatProperties, LenProperties
<1>3. \A k \in 1 .. Len(s) + Len(t) : (s \o t)[k] = IF k <= Len(s) THEN s[k] ELSE t[k - Len(s)]
  BY <1>1, ConcatProperties
<1>4. IsList(s \o t)
  BY <1>2, ListOf
<1>5. ASSUME NEW k \in 1 .. Len(s) PROVE (s \o t)[k] = s[k]
  BY <1>2, <1>3
<1>6. ASSUME NEW k \in 1 .. Len(t) PROVE (s \o t)[Len(s) + k] = t[k]
  <2>1. Len(s) + k \in 1 .. Len(s) + Len(t) /\ ~ (Len(s) + k <= Len(s)) /\ Len(s) + k - Len(s) = k
    BY <1>2
  <2> QED
    BY <1>3, <2>1
<1> QED
  BY <1>2, <1>4, <1>5, <1>6 DEF Joined

\* One element is a list.
LEMMA OneList == ASSUME NEW e PROVE IsList(<<e>>) /\ Len(<<e>>) = 1 /\ <<e>>[1] = e
<1>1. <<e>> \in Seq({e})
  OBVIOUS
<1> QED
  BY <1>1, ListOf

\* Entries that come after the chain.
LEMMA MountLate ==
  ASSUME StackIs, UNCHANGED <<cfg, registered>>, NEW more, IsList(more), stack' = stack \o more,
         \A e : Late(e) => Late(e)', \A k \in DOMAIN more : Late(more[k])', cfg \in Configs
  PROVE  StackIs'
<1>1. PICK a \in 0 .. Len(stack) : StackParts(a)
  BY DEF StackIs
<1>2. Build(registered.plugin, cfg.plugins).ok' /\ Chain' = Chain /\ IsList(stack)
  BY DEF StackIs, Chain
<1>3. /\ IsList(stack') /\ Len(stack') = Len(stack) + Len(more) /\ Len(stack) \in Nat /\ Len(more) \in Nat
      /\ DOMAIN more = 1 .. Len(more)
      /\ \A k \in 1 .. Len(stack) : stack'[k] = stack[k]
      /\ \A k \in 1 .. Len(more) : stack'[Len(stack) + k] = more[k]
  <2>1. Joined(stack \o more, stack, more)
    BY <1>2, ConcatLists
  <2> QED
    BY <2>1 DEF Joined
<1>4. Len(Chain) \in Nat
  BY ChainList DEF StackIs
<1>5. StackParts(a)'
  <2>1. a + Len(Chain) <= Len(stack) /\ a + Len(Chain) <= Len(stack')
    BY <1>1, <1>3, <1>4 DEF StackParts
  <2>2. ASSUME NEW k \in 1 .. a PROVE Exempt(stack[k])'
    <3>1. k \in 1 .. Len(stack) /\ Exempt(stack[k])
      BY <1>1, <1>3 DEF StackParts
    <3> QED
      BY <1>3, <3>1 DEF Exempt
  <2>3. ASSUME NEW k \in 1 .. Len(Chain)
        PROVE  stack'[a + k] = Entry("ALL", "ALL", <<Chain[k]>>, "next", 0)
    <3>1. a + k \in 1 .. Len(stack)
      BY <1>3, <1>4, <2>1
    <3> QED
      BY <1>1, <1>3, <3>1 DEF StackParts
  <2>4. ASSUME NEW k \in a + Len(Chain) + 1 .. Len(stack') PROVE Late(stack[k])'
    <3>1. CASE k <= Len(stack)
      <4>1. k \in 1 .. Len(stack) /\ Late(stack[k])
        BY <1>1, <1>3, <1>4, <3>1 DEF StackParts
      <4> QED
        BY <1>3, <4>1
    <3>2. CASE k > Len(stack)
      <4>1. PICK j \in 1 .. Len(more) : k = Len(stack) + j
        <5>1. k - Len(stack) \in 1 .. Len(more) /\ k = Len(stack) + (k - Len(stack))
          BY <1>3, <1>4, <3>2
        <5> QED
          BY <5>1
      <4> QED
        BY <1>3, <4>1
    <3> QED
      BY <1>3, <1>4, <3>1, <3>2
  <2> QED
    BY <1>2, <2>1, <2>2, <2>3, <2>4 DEF StackParts
<1>6. a \in 0 .. Len(stack')
  BY <1>3
<1> QED
  BY <1>2, <1>3, <1>5, <1>6 DEF StackIs

\* The global plugins: endpoints first, then the chain.
LEMMA MountGlobalKeeps ==
  ASSUME MountInv, MountGlobalPlugins
  PROVE  MountInv'
<1>1. /\ cfg \in Configs /\ phase = "init" /\ cfg' = cfg /\ registered' = registered
      /\ routes = <<>> /\ routes' = <<>> /\ globalSkips' = <<>> /\ phase' \in {"routes", "failed"}
  BY DEF MountInv, MountGlobalPlugins
<1>2. ASSUME phase' = "routes" PROVE (StackIs /\ RoutesAre /\ SkipsAre)'
  <2> DEFINE B == Build(registered.plugin, cfg.plugins).val
             health == Entry("GET", "/health", <<>>, "health", 0)
             es == endpoints(B, 0)
             ch == [k \in DOMAIN Chain |-> Entry("ALL", "ALL", <<Chain[k]>>, "next", 0)]
  <2>1. Build(registered.plugin, cfg.plugins).ok /\ stack' = <<health>> \o (es \o ch)
    BY <1>1, <1>2 DEF MountGlobalPlugins, globalEntries, Chain
  <2>2. IsList(B) /\ Len(Chain) \in Nat /\ DOMAIN Chain = 1 .. Len(Chain) /\ IsList(cfg.plugins)
    BY <1>1, <2>1, ChainList, GatewayAssumption
  <2>3. /\ IsList(es)
        /\ \A k \in DOMAIN es : es[k].steps = <<>> /\ es[k].end = "endpoint" /\ es[k].route = 0
    <3> HIDE DEF B
    <3> QED
      BY <2>2, EndpointsAre
  <2>4. IsList(ch) /\ Len(ch) = Len(Chain)
    <3>1. ch \in Seq({Entry("ALL", "ALL", <<Chain[k]>>, "next", 0) : k \in DOMAIN Chain})
      BY <2>2
    <3>2. Len(ch) = Len(Chain)
      BY <2>2
    <3> HIDE DEF ch
    <3> QED
      BY <3>1, <3>2, ListOf
  <2>5. \A k \in 1 .. Len(Chain) : ch[k] = Entry("ALL", "ALL", <<Chain[k]>>, "next", 0)
    BY <2>2
  <2> HIDE DEF B, es, ch, health
  <2>6. PICK g : g = es \o ch
    OBVIOUS
  <2>7. /\ IsList(g) /\ Len(g) = Len(es) + Len(Chain) /\ Len(es) \in Nat /\ DOMAIN es = 1 .. Len(es)
        /\ \A k \in 1 .. Len(es) : g[k] = es[k]
        /\ \A k \in 1 .. Len(Chain) : g[Len(es) + k] = ch[k]
    <3>1. DOMAIN es = 1 .. Len(es)
      BY <2>3, LenProperties DEF IsList
    <3>2. /\ IsList(es \o ch) /\ Len(es \o ch) = Len(es) + Len(ch) /\ Len(es) \in Nat
          /\ \A k \in 1 .. Len(es) : (es \o ch)[k] = es[k]
          /\ \A k \in 1 .. Len(ch) : (es \o ch)[Len(es) + k] = ch[k]
      <4>1. IsList(es) /\ IsList(ch)
        BY <2>3, <2>4
      <4>2. Joined(es \o ch, es, ch)
        BY <4>1, ConcatLists
      <4> QED
        BY <4>2, Zenon DEF Joined
    <3> QED
      BY <2>4, <2>6, <3>1, <3>2, Zenon
  <2>8. /\ IsList(stack') /\ Len(stack') = 1 + Len(g)
        /\ stack'[1] = health /\ \A k \in 1 .. Len(g) : stack'[1 + k] = g[k]
    <3>1. IsList(<<health>>) /\ Len(<<health>>) = 1 /\ <<health>>[1] = health
      BY OneList
    <3>2. PICK hd : hd = <<health>>
      OBVIOUS
    <3>3. IsList(hd) /\ Len(hd) = 1 /\ hd[1] = health /\ stack' = hd \o g
      BY <2>1, <2>6, <3>1, <3>2
    <3>4. /\ IsList(hd \o g) /\ Len(hd \o g) = Len(hd) + Len(g)
          /\ \A k \in 1 .. Len(hd) : (hd \o g)[k] = hd[k]
          /\ \A k \in 1 .. Len(g) : (hd \o g)[Len(hd) + k] = g[k]
      <4>1. IsList(hd) /\ IsList(g)
        BY <2>7, <3>3
      <4>2. Joined(hd \o g, hd, g)
        BY <4>1, ConcatLists
      <4> QED
        BY <4>2, Zenon DEF Joined
    <3> QED
      BY <3>3, <3>4
  <2>9. PICK a \in Nat : a = 1 + Len(es)
    BY <2>7
  <2>10. StackParts(a)'
    <3>1. Chain' = Chain
      BY <1>1 DEF Chain
    <3>2. a + Len(Chain) = Len(stack')
      BY <2>9, <2>2, <2>7, <2>8
    <3>3. ASSUME NEW k \in 1 .. a PROVE Exempt(stack[k])'
      <4>1. CASE k = 1
        BY <2>8, <4>1 DEF Exempt, Entry, health
      <4>2. CASE k # 1
        <5>1. k - 1 \in 1 .. Len(es) /\ k - 1 \in 1 .. Len(g) /\ k = 1 + (k - 1)
          BY <2>9, <2>2, <2>7, <4>2
        <5>2. stack'[k] = es[k - 1]
          BY <2>7, <2>8, <5>1
        <5> QED
          BY <2>3, <2>7, <5>1, <5>2 DEF Exempt
      <4> QED
        BY <4>1, <4>2
    <3>4. ASSUME NEW k \in 1 .. Len(Chain)
          PROVE  stack'[a + k] = Entry("ALL", "ALL", <<Chain[k]>>, "next", 0)
      <4>1. Len(es) + k \in 1 .. Len(g) /\ a + k = 1 + (Len(es) + k)
        BY <2>9, <2>2, <2>7
      <4> QED
        BY <2>5, <2>7, <2>8, <4>1
    <3>5. \A k \in a + Len(Chain) + 1 .. Len(stack') : Late(stack[k])'
      BY <2>9, <2>2, <2>7, <3>2
    <3> QED
      BY <2>9, <2>2, <2>7, <3>1, <3>2, <3>3, <3>4, <3>5 DEF StackParts
  <2>11. a \in 0 .. Len(stack')
    BY <2>9, <2>2, <2>7, <2>8
  <2>12. StackIs'
    BY <1>1, <2>1, <2>8, <2>10, <2>11 DEF StackIs
  <2>13. (RoutesAre /\ SkipsAre)'
    <3>1. <<>> \in Seq({}) /\ DOMAIN <<>> = {}
      OBVIOUS
    <3>2. IsList(<<>>) /\ Range(<<>>) = {}
      BY <3>1, ListOf DEF Range
    <3> QED
      BY <1>1, <3>1, <3>2 DEF RoutesAre, SkipsAre
  <2> QED
    BY <2>12, <2>13
<1> QED
  BY <1>1, <1>2 DEF MountInv

\* An element is appended to a list.
LEMMA AppendList ==
  ASSUME NEW s, IsList(s), NEW e
  PROVE  /\ IsList(Append(s, e)) /\ DOMAIN Append(s, e) = 1 .. Len(s) + 1 /\ Append(s, e)[Len(s) + 1] = e
         /\ Len(s) \in Nat /\ DOMAIN s = 1 .. Len(s) /\ \A k \in 1 .. Len(s) : Append(s, e)[k] = s[k]
         /\ Range(Append(s, e)) = Range(s) \cup {e}
<1> DEFINE R == Range(s) \cup {e}
<1>1. s \in Seq(R) /\ e \in R
  BY SeqMonotonic DEF IsList
<1> HIDE DEF R
<1>2. PICK t : t = Append(s, e)
  OBVIOUS
<1>3. /\ t \in Seq(R) /\ Len(t) = Len(s) + 1 /\ t[Len(s) + 1] = e /\ \A k \in 1 .. Len(s) : t[k] = s[k]
      /\ Len(s) \in Nat /\ DOMAIN s = 1 .. Len(s) /\ DOMAIN t = 1 .. Len(s) + 1
  BY <1>1, <1>2, AppendProperties, LenProperties
<1>4. Range(t) = Range(s) \cup {e}
  BY <1>3 DEF Range
<1>5. IsList(t)
  BY <1>3, ListOf
<1> QED
  BY <1>2, <1>3, <1>4, <1>5

\* Three lists, one after the other.
LEMMA ConcatAgain ==
  ASSUME NEW s, IsList(s), NEW t, IsList(t), NEW u, IsList(u)
  PROVE  (s \o t) \o u = s \o (t \o u)
<1> DEFINE R == Range(s) \cup Range(t) \cup Range(u)
<1>1. s \in Seq(R) /\ t \in Seq(R) /\ u \in Seq(R)
  BY SeqMonotonic DEF IsList
<1> HIDE DEF R
<1> QED
  BY <1>1, ConcatAssociative

\* The list u is the list s and then e.
Longer(u, s, e) ==
    /\ IsList(u) /\ DOMAIN u = 1 .. Len(s) + 1 /\ Len(s) \in Nat /\ DOMAIN s = 1 .. Len(s)
    /\ \A k \in 1 .. Len(s) : u[k] = s[k]
    /\ u[Len(s) + 1] = e

\* A list and one more element.
LEMMA OneMore ==
  ASSUME NEW s, IsList(s), NEW e
  PROVE  Longer(s \o <<e>>, s, e)
<1>1. PICK n \in Nat : n = Len(s) /\ DOMAIN s = 1 .. n
  BY LenProperties DEF IsList
<1>2. IsList(<<e>>) /\ Len(<<e>>) = 1 /\ <<e>>[1] = e
  BY OneList
<1>3. PICK one, more : one = <<e>> /\ more = s \o one
  OBVIOUS
<1>4. /\ IsList(s \o one) /\ Len(s \o one) = Len(s) + Len(one)
      /\ \A k \in 1 .. Len(s) : (s \o one)[k] = s[k]
      /\ \A k \in 1 .. Len(one) : (s \o one)[Len(s) + k] = one[k]
  <2>1. IsList(one)
    BY <1>2, <1>3
  <2>2. Joined(s \o one, s, one)
    BY <2>1, ConcatLists
  <2> QED
    BY <2>2, Zenon DEF Joined
<1>5. Len(one) = 1 /\ one[1] = e /\ more = s \o one /\ 1 \in 1 .. Len(one)
  BY <1>2, <1>3
<1>6. IsList(more) /\ Len(more) = n + 1
  BY <1>1, <1>4, <1>5
<1>7. \A k \in 1 .. n : more[k] = s[k]
  BY <1>1, <1>4, <1>5
<1>8. more[n + 1] = e
  BY <1>1, <1>4, <1>5
<1>9. DOMAIN more = 1 .. n + 1
  BY <1>6, LenProperties DEF IsList
<1>10. Longer(more, s, e)
  BY <1>1, <1>6, <1>7, <1>8, <1>9 DEF Longer
<1> QED
  BY <1>3, <1>10

\* A route: its skip list, its entries, and the route itself, until a step fails.
LEMMA MountRouteKeeps ==
  ASSUME MountInv, MountRoute
  PROVE  MountInv'
<1> DEFINE i == Len(routes) + 1
           got == newProxyRoute(cfg.routes[i])
           built == Build(registered.plugin, cfg.routes[i].plugins)
<1>1. /\ cfg \in Configs /\ phase = "routes" /\ cfg' = cfg /\ registered' = registered
      /\ phase' \in {"routes", "failed"} /\ StackIs /\ RoutesAre /\ SkipsAre
      /\ i <= Len(cfg.routes) /\ globalSkips' = IF got.ok THEN registerPluginSkip(got.val) ELSE globalSkips
  BY DEF MountInv, MountRoute
<1>2. ASSUME phase' = "routes" PROVE (StackIs /\ RoutesAre /\ SkipsAre)'
  <2>1. /\ got.ok /\ routes' = Append(routes, got.val) /\ built.ok
        /\ stack' = stack \o endpoints(built.val, i) \o <<routeEntry(i, got.val, built.val)>>
    BY <1>1, <1>2, Zenon DEF MountRoute
  <2>2. PICK n : n = i /\ n = Len(routes) + 1
    OBVIOUS
  <2>3. PICK r : r = got.val
    OBVIOUS
  <2>4. got = Ok(r)
    BY <2>1, <2>3, Zenon DEF newProxyRoute, Ok, Err
  <2>5. /\ n \in Nat \ {0} /\ n \in DOMAIN cfg.routes /\ IsList(cfg.routes[n].plugins)
        /\ IsList(routes) /\ Len(routes) \in Nat
    <3>1. IsList(cfg.routes) /\ IsList(routes)
      BY <1>1, GatewayAssumption DEF RoutesAre
    <3>2. Len(cfg.routes) \in Nat /\ DOMAIN cfg.routes = 1 .. Len(cfg.routes) /\ Len(routes) \in Nat
      BY <3>1, LenProperties DEF IsList
    <3>3. n \in 1 .. Len(cfg.routes)
      BY <1>1, <2>2, <3>2
    <3> QED
      BY <1>1, <3>1, <3>2, <3>3, GatewayAssumption
  <2> HIDE DEF i
  <2>6. /\ routes' = Append(routes, r) /\ IsList(routes') /\ DOMAIN routes' = 1 .. n /\ routes'[n] = r
        /\ DOMAIN routes = 1 .. n - 1 /\ \A j \in DOMAIN routes : routes'[j] = routes[j]
    <3>1. routes' = Append(routes, r) /\ IsList(routes)
      BY <2>1, <2>3, <2>5
    <3>2. /\ IsList(routes') /\ DOMAIN routes' = 1 .. Len(routes) + 1 /\ routes'[Len(routes) + 1] = r
          /\ DOMAIN routes = 1 .. Len(routes) /\ \A k \in 1 .. Len(routes) : routes'[k] = routes[k]
      BY <3>1, AppendList
    <3>3. n - 1 = Len(routes)
      BY <2>2, <2>5
    <3> QED
      BY <2>2, <3>1, <3>2, <3>3, SMTT(30)
  <2>7. DOMAIN routes' = DOMAIN routes \cup {n}
    BY <2>5, <2>6
  <2>8. RoutesAre'
    BY <1>1, <2>2, <2>4, <2>5, <2>6, <2>7 DEF RoutesAre
  <2>9. SkipsAre'
    <3>1. CASE Opts(r)
      <4>1. globalSkips' = Append(globalSkips, skipOf(r)) /\ IsList(globalSkips)
        BY <1>1, <2>1, <2>3, <3>1, Zenon DEF registerPluginSkip, Opts, SkipsAre
      <4>2. IsList(globalSkips') /\ Range(globalSkips') = Range(globalSkips) \cup {skipOf(r)}
        BY <4>1, AppendList
      <4>3. \A g \in Range(globalSkips') : \E j \in DOMAIN routes' : Opts(routes'[j]) /\ g = skipOf(routes'[j])
        BY <1>1, <2>6, <2>7, <3>1, <4>2, SMTT(30) DEF SkipsAre
      <4>4. \A j \in DOMAIN routes' : Opts(routes'[j]) => skipOf(routes'[j]) \in Range(globalSkips')
        BY <1>1, <2>6, <2>7, <4>2, SMTT(30) DEF SkipsAre
      <4> QED
        BY <4>2, <4>3, <4>4 DEF SkipsAre
    <3>2. CASE ~ Opts(r)
      <4>1. globalSkips' = globalSkips
        BY <1>1, <2>1, <2>3, <3>2 DEF registerPluginSkip, Opts
      <4> QED
        BY <1>1, <2>6, <2>7, <3>2, <4>1 DEF SkipsAre
    <3> QED
      BY <3>1, <3>2
  <2>10. StackIs'
    <3>1. PICK es : es = endpoints(built.val, i)
      OBVIOUS
    <3>2. PICK e : e = routeEntry(i, got.val, built.val)
      OBVIOUS
    <3>3. IsList(built.val)
      BY <2>1, <2>2, <2>5, BuiltList, Zenon
    <3>4. IsList(es) /\ \A k \in DOMAIN es : es[k].end = "endpoint" /\ es[k].route = i
      <4> HIDE DEF built
      <4> QED
        BY <3>3, <3>1, EndpointsAre
    <3>5. Late(e)'
      <4>1. e = routeEntry(n, routes'[n], RouteBuilt(n)'.val) /\ RouteBuilt(n)'.ok /\ n \in DOMAIN routes'
        BY <1>1, <2>1, <2>2, <2>3, <2>6, <2>7, <3>2, Zenon DEF RouteBuilt
      <4> QED
        BY <4>1, Zenon DEF Late
    <3>6. \A x : Late(x) => Late(x)'
      BY <1>1, <2>6, <2>7 DEF Late, RouteBuilt
    <3>7. PICK more : more = es \o <<e>>
      OBVIOUS
    <3>8. PICK one : one = <<e>>
      OBVIOUS
    <3>9. IsList(stack) /\ IsList(one) /\ Len(one) = 1 /\ one[1] = e
      BY <1>1, <3>8, OneList DEF StackIs
    <3>10. stack' = stack \o more
      <4>1. (stack \o es) \o one = stack \o (es \o one)
        BY <3>4, <3>9, ConcatAgain
      <4> QED
        BY <2>1, <3>1, <3>2, <3>7, <3>8, <4>1, Zenon
    <3>11. /\ IsList(more) /\ DOMAIN more = 1 .. Len(es) + 1 /\ Len(es) \in Nat /\ DOMAIN es = 1 .. Len(es)
           /\ \A k \in 1 .. Len(es) : more[k] = es[k]
           /\ more[Len(es) + 1] = e
      <4>1. Longer(es \o <<e>>, es, e)
        BY <3>4, OneMore
      <4> QED
        BY <3>7, <4>1, Zenon DEF Longer
    <3>12. ASSUME NEW k \in DOMAIN more PROVE Late(more[k])'
      <4>1. CASE k = Len(es) + 1
        BY <3>5, <3>11, <4>1
      <4>2. CASE k \in DOMAIN es
        BY <2>2, <2>5, <3>4, <3>11, <4>2 DEF Late
      <4> QED
        BY <3>11, <4>1, <4>2
    <3> QED
      BY <1>1, <3>6, <3>10, <3>11, <3>12, MountLate
  <2> QED
    BY <2>8, <2>9, <2>10, Zenon
<1> QED
  BY <1>1, <1>2, SMTT(30) DEF MountInv

\* The project's own routes.
LEMMA MountCustomKeeps ==
  ASSUME MountInv, MountCustomRoutes
  PROVE  MountInv'
<1> DEFINE entry(k) == Entry("GET", cfg.custom[k], <<>>, "custom", 0)
<1>1. PICK more : more = [k \in DOMAIN cfg.custom |-> entry(k)]
  OBVIOUS
<1>2. /\ cfg \in Configs /\ phase = "routes" /\ phase' = "ready" /\ StackIs /\ RoutesAre /\ SkipsAre
      /\ UNCHANGED <<cfg, registered, routes, globalSkips>> /\ stack' = stack \o more
  BY <1>1 DEF MountInv, MountCustomRoutes
<1>3. Len(cfg.custom) \in Nat /\ DOMAIN cfg.custom = 1 .. Len(cfg.custom)
  BY <1>2, GatewayAssumption, LenProperties DEF IsList
<1>4. more \in Seq({entry(k) : k \in DOMAIN cfg.custom})
  <2> HIDE DEF entry
  <2> QED
    BY <1>1, <1>3
<1>5. \A e : Late(e) => Late(e)'
  BY <1>2 DEF Late, RouteBuilt
<1>6. \A k \in DOMAIN more : Late(more[k])'
  BY <1>1 DEF Late, Entry
<1>7. IsList(more)
  BY <1>4, ListOf
<1>8. StackIs'
  BY <1>2, <1>5, <1>6, <1>7, MountLate
<1>9. (RoutesAre /\ SkipsAre)'
  BY <1>2 DEF RoutesAre, SkipsAre
<1> QED
  BY <1>2, <1>8, <1>9 DEF MountInv

\* Nothing is mounted at first.
LEMMA InitMount == Init => MountInv
BY DEF Init, MountInv

\* The other actions leave what is mounted alone.
LEMMA NextKeepsMount == MountInv /\ [Next]_vars => MountInv'
<1> SUFFICES ASSUME MountInv, [Next]_vars PROVE MountInv'
  OBVIOUS
<1>1. CASE /\ UNCHANGED <<cfg, registered, mounted>>
           /\ phase' = phase \/ phase' \notin {"new", "init", "routes", "ready"}
  <2>1. UNCHANGED <<cfg, registered, stack, globalSkips, routes>>
    BY <1>1 DEF mounted
  <2>2. CASE phase' \notin {"new", "init", "routes", "ready"}
    BY <2>1, <2>2 DEF MountInv
  <2>3. CASE phase' = phase
    <3>1. (StackIs => StackIs') /\ (RoutesAre => RoutesAre') /\ (SkipsAre => SkipsAre')
      BY <2>1 DEF StackIs, StackParts, Chain, Late, RouteBuilt, RoutesAre, SkipsAre
    <3> QED
      BY <2>1, <2>3, <3>1 DEF MountInv
  <2> QED
    BY <1>1, <2>2, <2>3
<1>2. CASE Register
  BY <1>2 DEF Register, MountInv, mounted
<1>3. CASE MountGlobalPlugins
  BY <1>3, MountGlobalKeeps
<1>4. CASE MountRoute
  BY <1>4, MountRouteKeeps
<1>5. CASE MountCustomRoutes
  BY <1>5, MountCustomKeeps
<1>6. CASE Start \/ Stop \/ Drained
  BY <1>1, <1>6 DEF Start, Stop, Drained
<1>7. CASE CloseConn
  BY <1>1, <1>7 DEF CloseConn
<1>8. CASE \E c \in Clients : Request(c) \/ Relay(c) \/ Environment(c)
  BY <1>1, <1>8 DEF Request, Relay, Environment
<1>9. CASE UNCHANGED vars
  BY <1>1, <1>9 DEF vars, mounted
<1> QED
  BY <1>2, <1>3, <1>4, <1>5, <1>6, <1>7, <1>8, <1>9 DEF Next

-----------------------------------------------------------------------------
(* The way of a request. *)

\* What a request runs through, before anything refuses it.
StepsMet(req) ==
    [k \in DOMAIN stack |-> IF k \in visited(req) THEN stepsOf(stack[k], req) ELSE <<>>]

\* The entries it meets that would serve it.
Endings(req) == {k \in visited(req) : stack[k].end # "next"}

\* The parts of an exchange.
LEMMA ExchangeIs ==
  ASSUME NEW req
  PROVE  LET steps   == FlattenSeq(StepsMet(req))
             refuses == {k \in DOMAIN steps : verdict(steps[k], req) # "next"}
             served  == refuses = {} /\ Endings(req) # {}
             last    == stack[CHOOSE k \in Endings(req) : TRUE]
         IN  /\ refuses = {} => exchange(req).ran = steps
             /\ served => exchange(req).end = last.end /\ exchange(req).route = last.route
             /\ ~ served => exchange(req).end = "refused" /\ exchange(req).route = 0
<1> DEFINE steps   == FlattenSeq(StepsMet(req))
           refuses == {k \in DOMAIN steps : verdict(steps[k], req) # "next"}
           served  == refuses = {} /\ Endings(req) # {}
           last    == stack[CHOOSE k \in Endings(req) : TRUE]
<1>1. exchange(req) =
          [ran   |-> IF refuses = {} THEN steps
                     ELSE SubSeq(steps, 1, CHOOSE k \in refuses : \A l \in refuses : k <= l),
           end   |-> IF served THEN last.end ELSE "refused",
           route |-> IF served THEN last.route ELSE 0]
  BY Zenon DEF exchange, StepsMet, Endings
<1> HIDE DEF steps, refuses, last
<1>2. /\ refuses = {} => exchange(req).ran = steps
      /\ served => exchange(req).end = last.end /\ exchange(req).route = last.route
      /\ ~ served => exchange(req).end = "refused" /\ exchange(req).route = 0
  BY <1>1
<1> QED
  BY <1>2, Zenon DEF steps, refuses, last

\* A route serves what reaches it.
LEMMA RouteEntryIs ==
  ASSUME NEW i, NEW route, NEW built
  PROVE  routeEntry(i, route, built).end \in {"bidi", "sse", "unary"}
BY DEF routeEntry, Entry

\* For every configuration and every registration: no plugin stands in front of the health
\* endpoint or of the endpoints of the global plugins.
THEOREM EndpointsStayOpen == Spec => []EndpointsExempt
<1>1. MountInv => EndpointsExempt
  <2> SUFFICES ASSUME MountInv, phase = "ready", NEW req \in Requests, NEW m \in DOMAIN stack,
                      stack[m].end \in {"health", "endpoint"}, stack[m].route = 0,
                      matches(stack[m].method, stack[m].pattern, req)
               PROVE  exchange(req).ran = <<>> /\ exchange(req).end \in {"health", "endpoint"}
    BY DEF EndpointsExempt
  <2>1. IsList(stack) /\ cfg \in Configs /\ Build(registered.plugin, cfg.plugins).ok /\ RoutesAre
    BY DEF MountInv, StackIs
  <2>2. PICK a \in 0 .. Len(stack) : StackParts(a)
    BY DEF MountInv, StackIs
  <2>3. Len(stack) \in Nat /\ DOMAIN stack = 1 .. Len(stack) /\ Len(Chain) \in Nat
    BY <2>1, LenProperties, ChainList DEF IsList
  <2>4. m \in 1 .. a
    <3>1. ASSUME NEW k \in 1 .. Len(Chain), m = a + k PROVE FALSE
      <4>1. stack[a + k] = Entry("ALL", "ALL", <<Chain[k]>>, "next", 0)
        BY <2>2 DEF StackParts
      <4>2. stack[a + k].end = "next"
        BY <4>1 DEF Entry
      <4> QED
        BY <3>1, <4>2
    <3>2. ASSUME Late(stack[m]) PROVE FALSE
      <4>1. PICK i \in DOMAIN routes : stack[m] = routeEntry(i, routes[i], RouteBuilt(i).val)
        BY <3>2 DEF Late
      <4>2. stack[m].end \in {"bidi", "sse", "unary"}
        <5>1. routeEntry(i, routes[i], RouteBuilt(i).val).end \in {"bidi", "sse", "unary"}
          BY RouteEntryIs
        <5> QED
          BY <4>1, <5>1, Zenon
      <4> QED
        BY <4>2
    <3>3. CASE m > a /\ m <= a + Len(Chain)
      <4>1. m - a \in 1 .. Len(Chain) /\ m = a + (m - a)
        BY <2>3, <3>3
      <4> QED
        BY <3>1, <4>1
    <3>4. CASE m > a + Len(Chain)
      BY <2>2, <2>3, <3>2, <3>4 DEF StackParts
    <3> QED
      BY <2>3, <3>3, <3>4
  <2> DEFINE hits == {k \in DOMAIN stack : matches(stack[k].method, stack[k].pattern, req)}
  <2>5. visited(req) = {k \in hits : \A l \in hits : l < k => stack[l].end = "next"}
    BY DEF visited
  <2>6. m \in hits /\ hits \in SUBSET Nat
    BY <2>3
  <2> HIDE DEF hits
  <2>7. \A k \in 1 .. a : Exempt(stack[k])
    BY <2>2 DEF StackParts
  <2>8. visited(req) \subseteq 1 .. a
    <3> SUFFICES ASSUME NEW k \in visited(req) PROVE k \in 1 .. a
      OBVIOUS
    <3>1. k \in DOMAIN stack /\ ~ (m < k)
      BY <2>4, <2>5, <2>6, <2>7 DEF Exempt, hits
    <3> QED
      BY <2>3, <2>4, <3>1
  <2>9. Endings(req) # {}
    <3>1. PICK k \in hits : \A l \in hits : k <= l
      BY <2>6, LeastOf
    <3>2. \A l \in hits : ~ (l < k)
      BY <2>6, <3>1
    <3>3. k \in visited(req)
      BY <2>5, <3>2
    <3> QED
      BY <2>7, <2>8, <3>3 DEF Endings, Exempt
  <2>10. FlattenSeq(StepsMet(req)) = <<>>
    <3>1. \A k \in DOMAIN stack : StepsMet(req)[k] = <<>>
      BY <2>7, <2>8 DEF StepsMet, stepsOf, Exempt
    <3>2. StepsMet(req) \in Seq(Seq({})) /\ Len(StepsMet(req)) = Len(stack)
      <4>1. StepsMet(req) = [k \in 1 .. Len(stack) |-> StepsMet(req)[k]]
        BY <2>3 DEF StepsMet
      <4>2. \A k \in 1 .. Len(stack) : StepsMet(req)[k] \in Seq({})
        BY <2>3, <3>1, EmptySeq
      <4> QED
        BY <2>3, <4>1, <4>2
    <3> QED
      BY <2>3, <3>1, <3>2, FlattenNothing
  <2>11. {k \in DOMAIN FlattenSeq(StepsMet(req)) : verdict(FlattenSeq(StepsMet(req))[k], req) # "next"} = {}
    BY <2>10
  <2> DEFINE t == CHOOSE k \in Endings(req) : TRUE
  <2>12. exchange(req).ran = <<>> /\ exchange(req).end = stack[t].end
    BY <2>9, <2>10, <2>11, ExchangeIs, Zenon
  <2>13. t \in Endings(req)
    BY <2>9, Zenon
  <2>14. t \in 1 .. a
    BY <2>8, <2>13 DEF Endings
  <2> HIDE DEF t
  <2> QED
    BY <2>7, <2>12, <2>14 DEF Exempt
<1> QED
  BY InitMount, NextKeepsMount, <1>1, PTL DEF Spec

-----------------------------------------------------------------------------
(* Which handlers run. *)

\* The sequences of z are those of mid from place a + 1 on, one at t after them, and empty else.
Parts(z, mid, a, t) ==
    /\ t \in a + Len(mid) + 1 .. Len(z)
    /\ \A k \in 1 .. a : z[k] = <<>>
    /\ \A k \in 1 .. Len(mid) : z[a + k] = mid[k]
    /\ \A k \in a + Len(mid) + 1 .. Len(z) : k # t => z[k] = <<>>

\* Such a sequence of sequences comes down to mid and the one at t.
LEMMA FlattenParts ==
  ASSUME NEW V, NEW z \in Seq(Seq(V)), NEW mid \in Seq(Seq(V)), NEW a \in Nat, NEW t, Parts(z, mid, a, t)
  PROVE  FlattenSeq(z) = FlattenSeq(mid) \o z[t] /\ FlattenSeq(mid) \in Seq(V) /\ z[t] \in Seq(V)
<1>1. PICK h \in Nat : h = Len(mid)
  BY LenProperties
<1>2. /\ t \in a + h + 1 .. Len(z)
      /\ \A k \in 1 .. a : z[k] = <<>>
      /\ \A k \in 1 .. h : z[a + k] = mid[k]
      /\ \A k \in a + h + 1 .. Len(z) : k # t => z[k] = <<>>
  BY <1>1 DEF Parts
<1> USE <1>1, <1>2
<1>3. PICK n \in Nat : n = Len(z)
  BY LenProperties
<1>4. PICK m \in Nat : m = n - (a + h) /\ t - (a + h) \in 1 .. m
  <2>1. t \in a + h + 1 .. n
    BY <1>3, <1>2
  <2>2. n - (a + h) \in Nat /\ t - (a + h) \in 1 .. n - (a + h)
    BY <2>1
  <2> QED
    BY <2>2
<1>5. PICK j \in 1 .. m : j = t - (a + h)
  BY <1>4
<1> DEFINE pre == [k \in 1 .. a |-> <<>>]
           post == [k \in 1 .. m |-> z[a + h + k]]
<1>6. pre \in Seq(Seq(V)) /\ Len(pre) = a
  BY EmptySeq
<1>7. \A k \in 1 .. n : z[k] \in Seq(V)
  BY <1>3, ElementOfSeq
<1>8. post \in Seq(Seq(V)) /\ Len(post) = m
  <2>1. \A k \in 1 .. m : z[a + h + k] \in Seq(V)
    BY <1>3, <1>4, <1>7
  <2> QED
    BY <2>1
<1>9. \A k \in 1 .. a : pre[k] = <<>>
  OBVIOUS
<1>10. \A k \in 1 .. m : post[k] = z[a + h + k]
  OBVIOUS
<1> HIDE DEF pre, post
<1>11. FlattenSeq(pre) = <<>>
  BY <1>6, <1>9, FlattenNothing
<1>12. FlattenSeq(post) = z[t] /\ z[t] \in Seq(V)
  <2>1. post[j] = z[t]
    BY <1>4, <1>5, <1>10
  <2>2. \A k \in 1 .. m : k # j => post[k] = <<>>
    <3> SUFFICES ASSUME NEW k \in 1 .. m, k # j PROVE post[k] = <<>>
      OBVIOUS
    <3>1. a + h + k \in a + h + 1 .. Len(z) /\ a + h + k # t
      BY <1>3, <1>4, <1>5
    <3>2. z[a + h + k] = <<>>
      BY <1>2, <3>1
    <3> QED
      BY <1>10, <3>2
  <2>3. FlattenSeq(post) = post[j]
    BY <1>5, <1>8, <2>2, FlattenOne
  <2> QED
    BY <1>3, <1>7, <2>1, <2>3
<1>13. PICK u : u = pre \o mid
  OBVIOUS
<1>14. u \in Seq(Seq(V)) /\ Len(u) = a + h
  BY <1>6, <1>13, ConcatProperties
<1>15. \A k \in 1 .. a + h : u[k] = IF k <= a THEN pre[k] ELSE mid[k - a]
  <2>1. \A k \in 1 .. Len(pre) + Len(mid) :
            (pre \o mid)[k] = IF k <= Len(pre) THEN pre[k] ELSE mid[k - Len(pre)]
    BY <1>6, ConcatProperties, ZenonT(30)
  <2> QED
    BY <1>6, <1>13, <2>1
<1>16. ASSUME NEW k \in 1 .. a + h PROVE u[k] = z[k]
  <2>1. CASE k <= a
    <3>1. k \in 1 .. a
      BY <2>1
    <3>2. u[k] = pre[k]
      BY <1>15, <2>1
    <3> QED
      BY <1>9, <3>1, <3>2
  <2>2. CASE ~ (k <= a)
    <3>1. k - a \in 1 .. h /\ a + (k - a) = k
      BY <2>2
    <3>2. u[k] = mid[k - a]
      BY <1>15, <2>2
    <3>3. z[a + (k - a)] = mid[k - a]
      BY <1>2, <3>1
    <3> QED
      BY <3>1, <3>2, <3>3
  <2> QED
    BY <2>1, <2>2
<1>17. PICK v : v = u \o post
  OBVIOUS
<1>18. v \in Seq(Seq(V)) /\ Len(v) = n
  <2>1. u \o post \in Seq(Seq(V)) /\ Len(u \o post) = Len(u) + Len(post)
    BY <1>8, <1>14, ConcatProperties
  <2>2. Len(u) + Len(post) = n
    BY <1>4, <1>8, <1>14
  <2> QED
    BY <1>17, <2>1, <2>2
<1>19. \A k \in 1 .. a + h + m : v[k] = IF k <= a + h THEN u[k] ELSE post[k - (a + h)]
  <2>1. \A k \in 1 .. Len(u) + Len(post) : (u \o post)[k] = IF k <= Len(u) THEN u[k] ELSE post[k - Len(u)]
    BY <1>8, <1>14, ConcatProperties
  <2> QED
    BY <1>8, <1>14, <1>17, <2>1
<1>20. ASSUME NEW k \in 1 .. n PROVE v[k] = z[k]
  <2>1. k \in 1 .. a + h + m
    BY <1>4
  <2>2. CASE k <= a + h
    <3>1. k \in 1 .. a + h
      BY <2>2
    <3> QED
      BY <1>16, <1>19, <2>1, <2>2, <3>1
  <2>3. CASE ~ (k <= a + h)
    <3>1. k - (a + h) \in 1 .. m /\ a + h + (k - (a + h)) = k
      BY <2>1, <2>3
    <3> QED
      BY <1>10, <1>19, <2>1, <2>3, <3>1
  <2> QED
    BY <2>2, <2>3
<1>21. v = z
  BY <1>3, <1>18, <1>20, SeqEqual
<1>22. FlattenSeq(mid) \in Seq(V)
  BY FlattenType
<1>23. FlattenSeq(u) = FlattenSeq(mid)
  <2>1. FlattenSeq(pre \o mid) = FlattenSeq(pre) \o FlattenSeq(mid)
    BY <1>6, FlattenConcat
  <2> QED
    BY <1>11, <1>13, <1>22, <2>1, ConcatEmptySeq
<1>24. FlattenSeq(u \o post) = FlattenSeq(u) \o FlattenSeq(post)
  BY <1>8, <1>14, FlattenConcat
<1> QED
  BY <1>12, <1>17, <1>21, <1>22, <1>23, <1>24

\* The names in a list of the config.
LEMMA ListedType ==
  ASSUME NEW specs, IsList(specs)
  PROVE  listed(specs) \in Seq(Builtins)
<1> DEFINE on == {s \in Range(specs) : s.enabled # "false" /\ s.name[1] \in Builtins}
<1>1. Keep(specs, on) \in Seq(Range(specs) \cap on)
  BY KeepType DEF IsList
<1>2. PICK K : K = Keep(specs, on)
  OBVIOUS
<1>3. K \in Seq(on)
  BY <1>1, <1>2, SeqMonotonic
<1>4. \A k \in 1 .. Len(K) : K[k] \in on
  BY <1>3, ElementOfSeq
<1>5. \A k \in 1 .. Len(K) : K[k].name[1] \in Builtins
  BY <1>4
<1>6. listed(specs) = [k \in DOMAIN K |-> K[k].name[1]]
  BY <1>2, Zenon DEF listed
<1>7. Len(K) \in Nat /\ DOMAIN K = 1 .. Len(K)
  BY <1>3, LenProperties
<1> QED
  BY <1>5, <1>6, <1>7

\* The handlers of a route's own plugins are those that its list says.
LEMMA RouteNames ==
  ASSUME NEW reg, NEW specs, IsList(specs), Build(reg, specs).ok
  PROVE  Names(handlers(Build(reg, specs).val)) = listed(specs)
<1>1. PICK H : H = handlers(Build(reg, specs).val)
  OBVIOUS
<1>2. IsList(H)
  <2>1. IsList(Build(reg, specs).val)
    BY BuiltList, Zenon
  <2> QED
    BY <1>1, <2>1, HandlersAre
<1>3. Names(Without(H, {})) = Keep(listed(specs), Builtins \ {})
  BY <1>1, ChainNames
<1>4. Without(H, {}) = H
  <2>1. Range(H) \subseteq {b \in Range(H) : b.name \notin {}}
    OBVIOUS
  <2> QED
    BY <1>2, <2>1, KeepAll DEF IsList, Without
<1>5. Keep(listed(specs), Builtins \ {}) = listed(specs)
  <2>1. Builtins \subseteq Builtins \ {}
    OBVIOUS
  <2> QED
    BY <2>1, KeepAll, ListedType
<1> QED
  BY <1>1, <1>3, <1>4, <1>5

\* A mounted route has the skip list of its config.
LEMMA RouteConfig ==
  ASSUME RoutesAre, cfg \in Configs, NEW j \in DOMAIN routes
  PROVE  j \in DOMAIN cfg.routes /\ routes[j].skips = cfg.routes[j].skips
<1> DEFINE r == cfg.routes[j]
           meth == IF r.method # "" THEN r.method ELSE IF r.stream # "" THEN "GET" ELSE "POST"
           val == [r EXCEPT !.rpc = normalizeRPC(@).val,
                            !.method = IF @ # "" THEN @ ELSE IF r.stream # "" THEN "GET" ELSE "POST"]
<1>1. j \in DOMAIN cfg.routes /\ newProxyRoute(r) = Ok(routes[j])
  BY DEF RoutesAre
<1>2. DOMAIN r = RouteFields
  BY <1>1, GatewayAssumption
<1>3. newProxyRoute(r) = Err \/ newProxyRoute(r) = Ok(val)
  BY DEF newProxyRoute
<1>4. val.skips = r.skips
  BY <1>2 DEF RouteFields
<1> HIDE DEF val, r
<1>5. Ok(routes[j]) = Ok(val)
  <2>1. Err.ok = FALSE /\ Ok(routes[j]).ok = TRUE
    BY DEF Err, Ok
  <2> QED
    BY <1>1, <1>3, <2>1
<1>6. routes[j] = val
  <2>1. Ok(routes[j]).val = routes[j] /\ Ok(val).val = val
    BY DEF Ok
  <2> QED
    BY <1>5, <2>1
<1> QED
  BY <1>1, <1>4, <1>6 DEF r

\* A built-in plugin is in the parsed skip list iff the list says so.
LEMMA SkipsName ==
  ASSUME NEW route, NEW name \in Builtins
  PROVE  (skipOf(route).all \/ name \in skipOf(route).names)
            <=> \E n \in Range(route.skips) : n[1] \in {name, "*"}
<1> DEFINE names == {normalized(n) : n \in Range(route.skips)}
<1>1. /\ skipOf(route).all <=> "*" \in names
      /\ skipOf(route).names = names \ {"*", ""}
  BY DEF skipOf
<1>2. name # "*" /\ name # ""
  BY DEF Builtins
<1> QED
  BY <1>1, <1>2 DEF normalized

\* The request that a route serves skips what the route opts out of, if no other skip list
\* applies to it.
LEMMA SkipIffOpted ==
  ASSUME RoutesAre, SkipsAre, cfg \in Configs, NEW req,
         NEW i \in DOMAIN routes, matches(routes[i].method, routes[i].path, req),
         \A j \in DOMAIN cfg.routes \ {i} :
             cfg.routes[j].skips # <<>> => ~ matches(routes[j].method, routes[j].path, req),
         NEW name \in Builtins
  PROVE  skipsGlobalPlugin(name, req) <=> optedOut(i, name)
<1>1. ASSUME NEW j \in DOMAIN routes
      PROVE  (skipOf(routes[j]).all \/ name \in skipOf(routes[j]).names) <=> optedOut(j, name)
  <2>1. routes[j].skips = cfg.routes[j].skips
    BY RouteConfig
  <2> QED
    BY <2>1, SkipsName DEF optedOut
<1>2. ASSUME NEW j \in DOMAIN routes
      PROVE  skipOf(routes[j]).method = routes[j].method /\ skipOf(routes[j]).pattern = routes[j].path
  BY DEF skipOf
<1>3. ASSUME skipsGlobalPlugin(name, req) PROVE optedOut(i, name)
  <2>1. PICK k \in DOMAIN globalSkips :
            /\ globalSkips[k].all \/ name \in globalSkips[k].names
            /\ matches(globalSkips[k].method, globalSkips[k].pattern, req)
    BY <1>3, Zenon DEF skipsGlobalPlugin
  <2>2. globalSkips[k] \in Range(globalSkips)
    BY DEF Range
  <2>3. PICK j \in DOMAIN routes : globalSkips[k] = skipOf(routes[j])
    BY <2>2 DEF SkipsAre
  <2>4. skipOf(routes[j]).all \/ name \in skipOf(routes[j]).names
    BY <2>1, <2>3
  <2>5. optedOut(j, name)
    BY <1>1, <2>4
  <2>6. matches(routes[j].method, routes[j].path, req)
    BY <1>2, <2>1, <2>3
  <2>7. cfg.routes[j].skips # <<>>
    BY <2>5 DEF optedOut, Range
  <2>8. j \in DOMAIN cfg.routes
    BY RouteConfig
  <2> QED
    BY <2>5, <2>6, <2>7, <2>8
<1>4. ASSUME optedOut(i, name) PROVE skipsGlobalPlugin(name, req)
  <2>1. skipOf(routes[i]).all \/ name \in skipOf(routes[i]).names
    BY <1>1, <1>4
  <2>2. skipOf(routes[i]) \in Range(globalSkips)
    BY <2>1 DEF SkipsAre, Opts
  <2>3. PICK k \in DOMAIN globalSkips : globalSkips[k] = skipOf(routes[i])
    BY <2>2 DEF Range
  <2>4. matches(globalSkips[k].method, globalSkips[k].pattern, req)
    BY <1>2, <2>3
  <2> QED
    BY <2>1, <2>3, <2>4, Zenon DEF skipsGlobalPlugin
<1> QED
  BY <1>3, <1>4

\* What is mounted after the chain does not pass the request on.
LEMMA LateEnds == ASSUME NEW e, Late(e) PROVE e.end # "next"
<1>1. ASSUME NEW i \in DOMAIN routes, e = routeEntry(i, routes[i], RouteBuilt(i).val)
      PROVE  e.end # "next"
  <2>1. routeEntry(i, routes[i], RouteBuilt(i).val).end # "next"
    BY RouteEntryIs
  <2> QED
    BY <1>1, <2>1, Zenon
<1> QED
  BY <1>1 DEF Late

\* A request that a route serves has met the whole chain and the entry of the route, and nothing else.
LEMMA Serving ==
  ASSUME StackIs, cfg \in Configs, NEW a \in 0 .. Len(stack), StackParts(a), NEW req,
         exchange(req).route # 0, exchange(req).end # "endpoint"
  PROVE  /\ exchange(req).ran = FlattenSeq(StepsMet(req))
         /\ \E i \in DOMAIN routes, t \in a + Len(Chain) + 1 .. Len(stack) :
                /\ RouteBuilt(i).ok /\ stack[t] = routeEntry(i, routes[i], RouteBuilt(i).val)
                /\ exchange(req).route = i /\ exchange(req).end = stack[t].end
                /\ matches(stack[t].method, stack[t].pattern, req)
                /\ visited(req) = (a + 1 .. a + Len(Chain)) \cup {t}
<1>1. Len(stack) \in Nat /\ DOMAIN stack = 1 .. Len(stack) /\ Len(Chain) \in Nat
  BY LenProperties, ChainList DEF IsList, StackIs
<1>2. PICK h \in Nat : h = Len(Chain)
  BY <1>1, Zenon
<1>3. PICK n \in Nat : n = Len(stack)
  BY <1>1, Zenon
<1>4. PICK t : t = CHOOSE k \in Endings(req) : TRUE
  OBVIOUS
<1>5. /\ exchange(req).ran = FlattenSeq(StepsMet(req))
      /\ Endings(req) # {} /\ exchange(req).end = stack[t].end /\ exchange(req).route = stack[t].route
  BY <1>4, ExchangeIs, Zenon
<1>6. t \in Endings(req)
  BY <1>4, <1>5
<1> DEFINE hits == {k \in DOMAIN stack : matches(stack[k].method, stack[k].pattern, req)}
<1>7. visited(req) = {k \in hits : \A l \in hits : l < k => stack[l].end = "next"}
  BY DEF visited
<1>8. t \in 1 .. n /\ t \in hits /\ stack[t].end # "next" /\ \A l \in hits : l < t => stack[l].end = "next"
  BY <1>1, <1>3, <1>6, <1>7 DEF Endings
<1>9. \A k \in 1 .. a : stack[k].end # "next" /\ stack[k].route = 0
  BY DEF StackParts, Exempt
<1>10. ASSUME NEW k \in a + 1 .. a + h
       PROVE  /\ k \in 1 .. n /\ stack[k].end = "next"
              /\ matches(stack[k].method, stack[k].pattern, req)
  <2>1. k - a \in 1 .. h /\ a + (k - a) = k
    BY <1>2
  <2>2. stack[k] = Entry("ALL", "ALL", <<Chain[k - a]>>, "next", 0)
    BY <1>2, <2>1 DEF StackParts
  <2>3. stack[k].end = "next" /\ stack[k].method = "ALL" /\ stack[k].pattern = "ALL"
    BY <2>2 DEF Entry
  <2>4. a + h <= n
    BY <1>2, <1>3 DEF StackParts
  <2> QED
    BY <1>2, <1>3, <2>3, <2>4 DEF matches
<1>11. ASSUME NEW k \in a + h + 1 .. n PROVE Late(stack[k])
  BY <1>2, <1>3 DEF StackParts
<1>12. t \in a + h + 1 .. n
  <2>1. ~ (t \in 1 .. a)
    BY <1>5, <1>9
  <2>2. ~ (t \in a + 1 .. a + h)
    BY <1>8, <1>10
  <2> QED
    BY <1>2, <1>3, <1>8, <2>1, <2>2
<1>13. PICK i \in DOMAIN routes : RouteBuilt(i).ok /\ stack[t] = routeEntry(i, routes[i], RouteBuilt(i).val)
  BY <1>5, <1>11, <1>12 DEF Late
<1>14. stack[t].route = i
  <2>1. routeEntry(i, routes[i], RouteBuilt(i).val).route = i
    BY DEF routeEntry, Entry
  <2> QED
    BY <1>13, <2>1
<1>15. visited(req) = (a + 1 .. a + h) \cup {t}
  <2>1. ASSUME NEW k \in visited(req) PROVE k \in (a + 1 .. a + h) \cup {t}
    <3>1. k \in 1 .. n /\ k \in hits /\ \A l \in hits : l < k => stack[l].end = "next"
      BY <1>1, <1>3, <1>7
    <3>2. ~ (t < k)
      BY <1>8, <3>1
    <3>3. k < t => stack[k].end = "next"
      BY <1>8, <3>1
    <3>4. k < t => ~ (k \in 1 .. a)
      BY <1>9, <3>3
    <3>5. k < t => ~ (k \in a + h + 1 .. n)
      BY <1>11, <3>3, LateEnds
    <3> HIDE DEF hits
    <3> QED
      BY <1>12, <3>1, <3>2, <3>4, <3>5
  <2>2. t \in visited(req)
    BY <1>6 DEF Endings
  <2>3. ASSUME NEW k \in a + 1 .. a + h PROVE k \in visited(req)
    <3>1. k \in hits
      BY <1>1, <1>3, <1>10
    <3>2. ASSUME NEW l \in hits, l < k PROVE stack[l].end = "next"
      <4>1. l \in 1 .. n
        BY <1>1, <1>3
      <4> HIDE DEF hits
      <4>2. l < t
        BY <1>12, <3>2, <4>1
      <4> QED
        BY <1>8, <4>2
    <3> QED
      BY <1>7, <3>1, <3>2
  <2> QED
    BY <2>1, <2>2, <2>3
<1> QED
  BY <1>2, <1>3, <1>5, <1>8, <1>12, <1>13, <1>14, <1>15

\* It runs through the handlers of the chain that it does not skip and then through those of the route.
LEMMA StepsRun ==
  ASSUME StackIs, cfg \in Configs, NEW a \in 0 .. Len(stack), StackParts(a), NEW req,
         NEW t \in a + Len(Chain) + 1 .. Len(stack),
         visited(req) = (a + 1 .. a + Len(Chain)) \cup {t},
         stack[t].end # "next", IsList(stack[t].steps),
         NEW opted, \A name \in Builtins : skipsGlobalPlugin(name, req) <=> name \in opted
  PROVE  FlattenSeq(StepsMet(req)) = Without(Chain, opted) \o stack[t].steps
<1>1. /\ Len(stack) \in Nat /\ DOMAIN stack = 1 .. Len(stack)
      /\ IsList(Chain) /\ Len(Chain) \in Nat /\ DOMAIN Chain = 1 .. Len(Chain)
      /\ \A b \in Range(Chain) : b.name \in Builtins
  BY LenProperties, ChainList DEF IsList, StackIs
<1>2. PICK h \in Nat : h = Len(Chain)
  BY <1>1, Zenon
<1>3. PICK n \in Nat : n = Len(stack)
  BY <1>1, Zenon
<1>4. PICK C : C = Chain
  OBVIOUS
<1>5. PICK last : last = stack[t].steps
  OBVIOUS
<1> DEFINE T == {b \in Range(C) : b.name \notin opted}
           U == Range(C) \cup Range(last)
           z == StepsMet(req)
<1>6. PICK mid : mid = [k \in DOMAIN C |-> IF C[k] \in T THEN <<C[k]>> ELSE <<>>]
  OBVIOUS
<1>7. /\ t \in a + h + 1 .. n /\ a \in Nat
      /\ \A k \in 1 .. n : k \in visited(req) <=> k \in a + 1 .. a + h \/ k = t
  BY <1>2, <1>3
<1>8. \A k \in 1 .. n : z[k] = IF k \in visited(req) THEN stepsOf(stack[k], req) ELSE <<>>
  BY <1>1, <1>3 DEF StepsMet
<1>9. DOMAIN z = 1 .. n
  BY <1>1, <1>3 DEF StepsMet
<1>10. \A k \in 1 .. h : C[k] \in Range(C) /\ C[k].name \in Builtins
  BY <1>1, <1>2, <1>4 DEF Range
<1>11. DOMAIN mid = 1 .. h /\ \A k \in 1 .. h : mid[k] = IF C[k] \in T THEN <<C[k]>> ELSE <<>>
  BY <1>1, <1>2, <1>4, <1>6
<1>12. ASSUME NEW k \in 1 .. a PROVE z[k] = <<>>
  BY <1>7, <1>8
<1>13. ASSUME NEW k \in 1 .. h PROVE z[a + k] = mid[k]
  <2>1. a + k \in 1 .. n /\ a + k \in visited(req)
    <3>1. a + k \in a + 1 .. a + h /\ a + k \in 1 .. n
      BY <1>7
    <3> QED
      BY <1>7, <3>1
  <2>2. z[a + k] = stepsOf(stack[a + k], req)
    BY <1>8, <2>1
  <2>3. stack[a + k] = Entry("ALL", "ALL", <<C[k]>>, "next", 0)
    BY <1>2, <1>4 DEF StackParts
  <2>4. stack[a + k].end = "next" /\ stack[a + k].steps = <<C[k]>>
    BY <2>3 DEF Entry
  <2>5. stepsOf(stack[a + k], req) = IF skipsGlobalPlugin(C[k].name, req) THEN <<>> ELSE <<C[k]>>
    BY <2>4 DEF stepsOf
  <2>6. C[k] \in T <=> ~ skipsGlobalPlugin(C[k].name, req)
    BY <1>10
  <2> QED
    BY <1>11, <2>2, <2>5, <2>6
<1>14. ASSUME NEW k \in a + h + 1 .. n, k # t PROVE z[k] = <<>>
  BY <1>7, <1>8, <1>14
<1>15. z[t] = last
  <2>1. z[t] = stepsOf(stack[t], req)
    BY <1>7, <1>8
  <2> QED
    BY <1>5, <2>1 DEF stepsOf
<1>16. last \in Seq(U)
  BY <1>5, SeqMonotonic DEF IsList
<1>17. mid \in Seq(Seq(U)) /\ Len(mid) = h
  <2>1. \A k \in 1 .. h : mid[k] \in Seq(U)
    <3> SUFFICES ASSUME NEW k \in 1 .. h PROVE mid[k] \in Seq(U)
      OBVIOUS
    <3>1. C[k] \in U
      BY <1>10
    <3>2. mid[k] = <<C[k]>> \/ mid[k] = <<>>
      BY <1>11
    <3> HIDE DEF U
    <3>3. <<C[k]>> \in Seq(U) /\ <<>> \in Seq(U)
      BY <3>1
    <3> QED
      BY <3>2, <3>3
  <2>2. mid = [k \in 1 .. h |-> mid[k]]
    BY <1>1, <1>2, <1>4, <1>6
  <2> HIDE DEF U, T
  <2>3. mid \in Seq(Seq(U))
    <3>1. PICK W : W = Seq(U)
      OBVIOUS
    <3>2. \A k \in 1 .. h : mid[k] \in W
      BY <2>1, <3>1
    <3>3. mid \in Seq(W)
      BY <2>2, <3>2, SMTT(30)
    <3> QED
      BY <3>1, <3>3
  <2>4. Len(mid) = h
    BY <2>2
  <2> QED
    BY <2>3, <2>4
<1>18. Keep(C, T) = FlattenSeq(mid)
  BY <1>6 DEF Keep
<1> HIDE DEF T
<1>19. z \in Seq(Seq(U)) /\ Len(z) = n
  <2>1. ASSUME NEW k \in 1 .. n PROVE z[k] \in Seq(U)
    <3>1. CASE k \in 1 .. a
      BY <1>12, <3>1, EmptySeq
    <3>2. CASE k \in a + 1 .. a + h
      <4>1. k - a \in 1 .. h /\ a + (k - a) = k
        BY <1>7, <3>2
      <4>2. mid[k - a] \in Seq(U)
        BY <1>17, <4>1, ElementOfSeq
      <4> QED
        BY <1>13, <4>1, <4>2
    <3>3. CASE k \in a + h + 1 .. n
      BY <1>14, <1>15, <1>16, <3>3, EmptySeq
    <3> QED
      BY <1>7, <3>1, <3>2, <3>3
  <2>2. z = [k \in 1 .. n |-> z[k]]
    BY <1>9 DEF StepsMet
  <2> HIDE DEF z, U
  <2>3. PICK W : W = Seq(U)
    OBVIOUS
  <2>4. \A k \in 1 .. n : z[k] \in W
    BY <2>1, <2>3
  <2>5. z \in Seq(W) /\ Len(z) = n
    BY <2>2, <2>4, SMTT(30)
  <2> QED
    BY <2>3, <2>5
<1> HIDE DEF z, U
<1>20. FlattenSeq(z) = FlattenSeq(mid) \o z[t]
  <2>1. \A k \in 1 .. a : z[k] = <<>>
    BY <1>12
  <2>2. \A k \in 1 .. h : z[a + k] = mid[k]
    BY <1>13
  <2>3. \A k \in a + h + 1 .. Len(z) : k # t => z[k] = <<>>
    BY <1>14, <1>19
  <2>4. t \in a + h + 1 .. Len(z) /\ a \in Nat
    BY <1>7, <1>19
  <2>5. Parts(z, mid, a, t)
    BY <1>17, <2>1, <2>2, <2>3, <2>4 DEF Parts
  <2>6. PICK y \in Seq(Seq(U)) : y = z
    BY <1>19
  <2>7. Parts(y, mid, a, t)
    BY <2>5, <2>6
  <2>8. mid \in Seq(Seq(U)) /\ a \in Nat
    BY <1>17, <2>4
  <2>9. FlattenSeq(y) = FlattenSeq(mid) \o y[t]
    BY <2>7, <2>8, FlattenParts
  <2> QED
    BY <2>6, <2>9
<1> QED
  BY <1>4, <1>5, <1>15, <1>18, <1>20 DEF z, T, Without

\* The names of two lists, one after the other.
LEMMA NamesConcat ==
  ASSUME NEW s, IsList(s), NEW t, IsList(t)
  PROVE  /\ Names(s \o t) = Names(s) \o Names(t) /\ IsList(Names(s))
<1> DEFINE U == Range(s) \cup Range(t)
           f == [b \in U |-> b.name]
           R == {f[b] : b \in U}
<1>1. s \in Seq(U) /\ t \in Seq(U)
  BY SeqMonotonic DEF IsList
<1>2. Maps(f, U, R)
  BY DEF Maps
<1>3. ASSUME NEW u \in Seq(U) PROVE Names(u) = Mapped(f, u)
  <2>1. \A k \in DOMAIN u : u[k] \in U
    <3> HIDE DEF U
    <3> QED
      BY LenProperties, ElementOfSeq
  <2> HIDE DEF U
  <2> QED
    BY <2>1 DEF Names, Mapped
<1> HIDE DEF U, f, R
<1>4. s \o t \in Seq(U)
  BY <1>1, ConcatProperties
<1>5. Mapped(f, s \o t) = Mapped(f, s) \o Mapped(f, t)
  BY <1>1, <1>2, MapConcat
<1>6. Mapped(f, s) \in Seq(R)
  BY <1>1, <1>2, MapSeq
<1>7. IsList(Mapped(f, s))
  BY <1>6, ListOf
<1>8. Names(s) = Mapped(f, s) /\ Names(t) = Mapped(f, t) /\ Names(s \o t) = Mapped(f, s \o t)
  BY <1>1, <1>3, <1>4
<1> QED
  BY <1>5, <1>7, <1>8

\* The name of one.
LEMMA NamesOne == ASSUME NEW e PROVE Names(<<e>>) = <<e.name>>
BY DEF Names

\* What FullChain says, for one request.
LEMMA ServedNames ==
  ASSUME MountInv, phase = "ready", NEW req,
         NEW x, x = exchange(req), x.route # 0, x.end # "endpoint",
         \A j \in DOMAIN cfg.routes \ {x.route} :
             cfg.routes[j].skips # <<>> => ~ matches(routes[j].method, routes[j].path, req),
         x.end = "bidi" => routes[x.route].method = "GET"
  PROVE  Names(x.ran) = Keep(listed(cfg.plugins), {n \in Builtins : ~ optedOut(x.route, n)})
                           \o (IF x.end = "bidi" THEN <<"upgrade guard">> ELSE <<>>)
                           \o listed(cfg.routes[x.route].plugins)
<1>1. /\ StackIs /\ RoutesAre /\ SkipsAre /\ cfg \in Configs
      /\ Build(registered.plugin, cfg.plugins).ok /\ IsList(cfg.plugins)
  BY GatewayAssumption DEF MountInv, StackIs
<1>2. PICK a \in 0 .. Len(stack) : StackParts(a)
  BY <1>1 DEF StackIs
<1>3. /\ x.ran = FlattenSeq(StepsMet(req))
      /\ \E i \in DOMAIN routes, t \in a + Len(Chain) + 1 .. Len(stack) :
             /\ RouteBuilt(i).ok /\ stack[t] = routeEntry(i, routes[i], RouteBuilt(i).val)
             /\ x.route = i /\ x.end = stack[t].end
             /\ matches(stack[t].method, stack[t].pattern, req)
             /\ visited(req) = (a + 1 .. a + Len(Chain)) \cup {t}
  BY <1>1, <1>2, Serving
<1>4. PICK i \in DOMAIN routes, t \in a + Len(Chain) + 1 .. Len(stack) :
          /\ RouteBuilt(i).ok /\ stack[t] = routeEntry(i, routes[i], RouteBuilt(i).val)
          /\ x.route = i /\ x.end = stack[t].end
          /\ matches(stack[t].method, stack[t].pattern, req)
          /\ visited(req) = (a + 1 .. a + Len(Chain)) \cup {t}
  BY <1>3
<1>5. PICK H : H = handlers(RouteBuilt(i).val)
  OBVIOUS
<1>6. PICK guard : guard = [name |-> "upgrade guard", plugin |-> Plugin]
  OBVIOUS
<1>7. /\ stack[t].pattern = routes[i].path /\ stack[t].end \in {"bidi", "sse", "unary"}
      /\ x.end = "bidi" => stack[t].method = "GET" /\ stack[t].steps = <<guard>> \o H
      /\ x.end # "bidi" => stack[t].method = routes[i].method /\ stack[t].steps = H
  <2>1. PICK e : e = routeEntry(i, routes[i], RouteBuilt(i).val)
    OBVIOUS
  <2>2. /\ e.pattern = routes[i].path /\ e.end \in {"bidi", "sse", "unary"}
        /\ e.end = "bidi" => e.method = "GET" /\ e.steps = <<guard>> \o H
        /\ e.end # "bidi" => e.method = routes[i].method /\ e.steps = H
    <3>1. PICK r, b : r = routes[i] /\ b = RouteBuilt(i).val
      OBVIOUS
    <3>2. e = routeEntry(i, r, b) /\ H = handlers(b)
      BY <1>5, <2>1, <3>1
    <3>3. /\ e.pattern = r.path /\ e.end \in {"bidi", "sse", "unary"}
          /\ e.end = "bidi" => e.method = "GET" /\ e.steps = <<guard>> \o H
          /\ e.end # "bidi" => e.method = r.method /\ e.steps = H
      <4>1. CASE r.stream = "bidi"
        BY <1>6, <3>2, <4>1 DEF routeEntry, Entry
      <4>2. CASE r.stream = "sse"
        BY <3>2, <4>2 DEF routeEntry, Entry
      <4>3. CASE r.stream \notin {"bidi", "sse"}
        BY <3>2, <4>3 DEF routeEntry, Entry
      <4> QED
        BY <4>1, <4>2, <4>3
    <3> QED
      BY <3>1, <3>3
  <2> QED
    BY <1>4, <2>1, <2>2
<1>8. matches(routes[i].method, routes[i].path, req)
  BY <1>4, <1>7
<1>9. PICK O : O = {n \in Builtins : optedOut(i, n)}
  OBVIOUS
<1>10. \A n \in Builtins : skipsGlobalPlugin(n, req) <=> n \in O
  <2>1. ASSUME NEW n \in Builtins PROVE skipsGlobalPlugin(n, req) <=> optedOut(i, n)
    BY <1>1, <1>4, <1>8, SkipIffOpted
  <2> QED
    BY <1>9, <2>1
<1>11. i \in DOMAIN cfg.routes /\ IsList(cfg.routes[i].plugins)
  BY <1>1, RouteConfig, GatewayAssumption
<1>12. IsList(H) /\ Names(H) = listed(cfg.routes[i].plugins)
  <2>1. IsList(RouteBuilt(i).val)
    BY <1>4, <1>11, BuiltList, Zenon DEF RouteBuilt
  <2>2. IsList(H)
    BY <1>5, <2>1, HandlersAre
  <2>3. Names(H) = listed(cfg.routes[i].plugins)
    BY <1>4, <1>5, <1>11, RouteNames DEF RouteBuilt
  <2> QED
    BY <2>2, <2>3
<1>13. IsList(<<guard>>) /\ Names(<<guard>>) = <<"upgrade guard">>
  <2>1. IsList(<<guard>>)
    BY OneList
  <2>2. guard.name = "upgrade guard"
    BY <1>6
  <2>3. Names(<<guard>>) = <<guard.name>>
    BY NamesOne
  <2> QED
    BY <2>1, <2>2, <2>3
<1>14. IsList(stack[t].steps) /\ stack[t].end # "next"
  <2>1. IsList(<<guard>> \o H)
    <3>1. Joined(<<guard>> \o H, <<guard>>, H)
      BY <1>12, <1>13, ConcatLists
    <3> QED
      BY <3>1 DEF Joined
  <2> QED
    BY <1>7, <1>12, <2>1
<1>15. x.ran = Without(Chain, O) \o stack[t].steps
  <2>1. FlattenSeq(StepsMet(req)) = Without(Chain, O) \o stack[t].steps
    BY <1>1, <1>2, <1>4, <1>10, <1>14, StepsRun
  <2> QED
    BY <1>3, <2>1
<1>16. PICK W : W = Without(Chain, O)
  OBVIOUS
<1>17. IsList(W)
  <2>1. IsList(Chain)
    BY <1>1, ChainList
  <2> QED
    BY <1>16, <2>1, KeepList DEF Without
<1>18. Names(W) = Keep(listed(cfg.plugins), {n \in Builtins : ~ optedOut(x.route, n)})
  <2>1. Names(W) = Keep(listed(cfg.plugins), Builtins \ O)
    <3>1. ASSUME NEW reg, NEW specs, IsList(specs), Build(reg, specs).ok
          PROVE  Names(Without(handlers(Build(reg, specs).val), O)) = Keep(listed(specs), Builtins \ O)
      BY <3>1, ChainNames, ZenonT(40)
    <3> QED
      BY <1>1, <1>16, <3>1 DEF Chain
  <2>2. Builtins \ O = {n \in Builtins : ~ optedOut(x.route, n)}
    BY <1>4, <1>9
  <2> QED
    BY <2>1, <2>2
<1>19. IsList(Names(W)) /\ IsList(Names(H)) /\ IsList(<<"upgrade guard">>)
  <2>1. IsList(Names(W)) /\ IsList(Names(H))
    BY <1>12, <1>17, NamesConcat
  <2> QED
    BY <2>1, OneList
<1>20. CASE x.end = "bidi"
  <2>1. x.ran = W \o (<<guard>> \o H) /\ IsList(<<guard>> \o H)
    BY <1>7, <1>14, <1>15, <1>16, <1>20
  <2>2. Names(W \o (<<guard>> \o H)) = Names(W) \o Names(<<guard>> \o H)
    BY <1>17, <2>1, NamesConcat
  <2>3. Names(<<guard>> \o H) = <<"upgrade guard">> \o Names(H)
    BY <1>12, <1>13, NamesConcat
  <2>4. (Names(W) \o <<"upgrade guard">>) \o Names(H) = Names(W) \o (<<"upgrade guard">> \o Names(H))
    <3>1. PICK g : g = <<"upgrade guard">>
      OBVIOUS
    <3>2. PICK u, w : u = Names(W) /\ w = Names(H)
      OBVIOUS
    <3>3. IsList(u) /\ IsList(g) /\ IsList(w)
      BY <1>19, <3>1, <3>2
    <3>4. (u \o g) \o w = u \o (g \o w)
      BY <3>3, ConcatAgain, SMTT(30)
    <3> QED
      BY <3>1, <3>2, <3>4
  <2>5. Names(x.ran) = (Names(W) \o <<"upgrade guard">>) \o Names(H)
    BY <2>1, <2>2, <2>3, <2>4
  <2> QED
    BY <1>4, <1>12, <1>18, <1>20, <2>5
<1>21. CASE x.end # "bidi"
  <2>1. x.ran = W \o H
    BY <1>7, <1>15, <1>16, <1>21
  <2>2. Names(W \o H) = Names(W) \o Names(H)
    BY <1>12, <1>17, NamesConcat
  <2>3. Names(W) \o <<>> = Names(W)
    BY <1>19, ConcatEmptySeq DEF IsList
  <2> QED
    BY <1>4, <1>12, <1>18, <1>21, <2>1, <2>2, <2>3
<1> QED
  BY <1>20, <1>21

\* For every configuration and every registration: a request that a configured route serves
\* has run through the whole chain, in the order of the config and without what the route
\* opts out of, and then through the plugins of the route.
THEOREM RequestsRunTheChain == Spec => []FullChain
<1>1. MountInv => FullChain
  <2> SUFFICES ASSUME MountInv, phase = "ready", NEW req \in Requests,
                      NEW x, x = exchange(req), x.route # 0, x.end # "endpoint",
                      \A j \in DOMAIN cfg.routes \ {x.route} :
                          cfg.routes[j].skips # <<>> => ~ matches(routes[j].method, routes[j].path, req),
                      x.end = "bidi" => routes[x.route].method = "GET"
               PROVE  ranNames(x) = Keep(listed(cfg.plugins), {n \in Builtins : ~ optedOut(x.route, n)})
                                      \o (IF x.end = "bidi" THEN <<"upgrade guard">> ELSE <<>>)
                                      \o listed(cfg.routes[x.route].plugins)
    BY DEF FullChain
  <2>1. ranNames(x) = Names(x.ran)
    BY DEF ranNames, Names
  <2> QED
    BY <2>1, ServedNames
<1> QED
  BY InitMount, NextKeepsMount, <1>1, PTL DEF Spec
=============================================================================
