-------------------------- MODULE UnaryProxyProofs --------------------------
(***************************************************************************)
(* TLAPS proofs about UnaryProxy, for any goroutines, any configuration of *)
(* breaker, pool and retries, any outcomes of the invoker and any targets. *)
(*                                                                         *)
(* What CircuitBreakerProofs and BalancerProofs prove of a step of the     *)
(* breaker and of the balancer is used here through instances of the two,  *)
(* whose assumptions ProxyAssumption implies.                              *)
(***************************************************************************)
EXTENDS UnaryProxy, FiniteSetTheorems, TLAPS

CBP == INSTANCE CircuitBreakerProofs WITH Caller <- Goroutine
BP  == INSTANCE BalancerProofs WITH Picker <- Goroutine

-----------------------------------------------------------------------------
(* The instances of a module in UnaryProxy and here define the same. *)

LEMMA SameFinite ==
    /\ CBP!IsFiniteSet(Goroutine) /\ BP!IsFiniteSet(Goroutine)
    /\ \A S : CBP!Cardinality(S) = Cardinality(S) /\ BP!Cardinality(S) = Cardinality(S)
<1>1. CBP!IsFiniteSet(Goroutine) /\ BP!IsFiniteSet(Goroutine)
  BY ProxyAssumption, Zenon DEF CBP!IsFiniteSet, BP!IsFiniteSet, IsFiniteSet
<1>2. \A S : CBP!Cardinality(S) = Cardinality(S) /\ BP!Cardinality(S) = Cardinality(S)
  BY Zenon DEF CBP!Cardinality, BP!Cardinality, Cardinality, CBP!IsFiniteSet, BP!IsFiniteSet, IsFiniteSet
<1> QED BY <1>1, <1>2

LEMMA SameBreaker ==
    /\ CB!Init => CBP!Init
    /\ CB!Tick => CBP!Tick
    /\ \A g \in Goroutine : CB!BeforeRequest(g) => CBP!BeforeRequest(g)
    /\ \A g \in Goroutine, success \in BOOLEAN : CB!AfterRequest(g, success) => CBP!AfterRequest(g, success)
    /\ CB!NoToken = CBP!NoToken
<1> USE DEF CB!stateClosed, CBP!stateClosed, CB!stateOpen, CBP!stateOpen, CB!stateHalfOpen, CBP!stateHalfOpen,
            CB!NoExpiry, CBP!NoExpiry, CB!NoToken, CBP!NoToken, CB!OrDefault, CBP!OrDefault
<1> USE DEF CB!minRequests, CBP!minRequests, CB!ratioNum, CBP!ratioNum, CB!ratioDen, CBP!ratioDen,
            CB!window, CBP!window, CB!openTimeout, CBP!openTimeout,
            CB!halfOpenMaxCalls, CBP!halfOpenMaxCalls
<1>1. CB!Init => CBP!Init
  BY Zenon DEF CB!Init, CBP!Init
<1>2. CB!Tick => CBP!Tick
  BY Zenon DEF CB!Tick, CBP!Tick
<1> USE DEF CB!currentState, CBP!currentState, CB!setState, CBP!setState, CB!toNewGeneration, CBP!toNewGeneration
<1>3. \A g \in Goroutine : CB!BeforeRequest(g) => CBP!BeforeRequest(g)
  BY Zenon DEF CB!BeforeRequest, CBP!BeforeRequest, CB!Rejects, CBP!Rejects
<1>4. \A g \in Goroutine, success \in BOOLEAN : CB!AfterRequest(g, success) => CBP!AfterRequest(g, success)
  BY ZenonT(60) DEF CB!AfterRequest, CBP!AfterRequest, CB!afterRequest, CBP!afterRequest,
               CB!onSuccess, CBP!onSuccess, CB!onFailure, CBP!onFailure, CB!readyToTrip, CBP!readyToTrip
<1> QED BY <1>1, <1>2, <1>3, <1>4, Zenon

LEMMA SameBalancer ==
    /\ B!Init => BP!Init
    /\ \A g \in Goroutine : B!Pick(g) => BP!Pick(g)
    /\ \A g \in Goroutine : B!Release(g) => BP!Release(g)
    /\ B!NoConn = BP!NoConn /\ B!Conn = BP!Conn /\ B!lbLeastConn = BP!lbLeastConn
<1> USE DEF B!lbRoundRobin, BP!lbRoundRobin, B!lbLeastConn, BP!lbLeastConn, B!lbRandom, BP!lbRandom,
            B!Conn, BP!Conn, B!NoConn, BP!NoConn, B!NotScanning, BP!NotScanning
<1>1. B!Init => BP!Init
  BY Zenon DEF B!Init, BP!Init, B!buildBalancer, BP!buildBalancer
<1>2. \A g \in Goroutine : B!Release(g) => BP!Release(g)
  BY Zenon DEF B!Release, BP!Release, B!Released, BP!Released
<1> USE DEF B!Idle, BP!Idle
<1>3. \A g \in Goroutine : B!Pick(g) => BP!Pick(g)
  BY Zenon DEF B!Pick, BP!Pick, B!PickRoundRobin, BP!PickRoundRobin, B!Slot, BP!Slot,
               B!PickRandom, BP!PickRandom, B!ScanFirst, BP!ScanFirst, B!ScanStep, BP!ScanStep,
               B!LessLoaded, BP!LessLoaded, B!ScanClaim, BP!ScanClaim
<1> QED BY <1>1, <1>2, <1>3, Zenon

-----------------------------------------------------------------------------
(* The inductive invariant. *)

RequestTypeOK == req \in [Goroutine -> Request] /\ guarded \in BOOLEAN /\ fragile \in BOOLEAN

\* The breaker's own invariant, unless a panic may have lost a token.
BreakerInv == CBP!TypeOK /\ (~ fragile => CBP!AlwaysBalanced)

\* A goroutine has a token exactly while it has a request, if there is a breaker.
TokenPerRequest == \A g \in Goroutine : token[g] # CB!NoToken <=> guarded /\ req[g].pc # "idle"

\* The balancer's own invariant, and a goroutine holds a connection exactly while it is in
\* the invoker.
PoolInv ==
    PoolSize > 1 =>
        BP!IInv /\ \A g \in Goroutine : held[g] # B!NoConn <=> req[g].pc = "call"

\* The goroutines between the two critical sections of DialTarget, for target t.
Between(d, t) == {g \in Goroutine : d[g].pc = "new" /\ d[g].target = t}

\* A target without a kept connection has never had one; one that has is only dialed by
\* those that had looked before it was kept.
DialInv ==
    /\ D!TypeOK
    /\ \A g \in Goroutine : D!Underway(g) => dial[g].target \in Targets
    /\ \A t \in Targets : t \notin conns => opened[t] = 0
    /\ \A t \in Targets : opened[t] + Cardinality(Between(dial, t)) <= Cardinality(Goroutine)

ProxyInv == RequestTypeOK /\ BreakerInv /\ TokenPerRequest /\ PoolInv /\ DialInv

-----------------------------------------------------------------------------
(* The steps of the parts. *)

LEMMA BreakerStep ==
    ASSUME BreakerInv, [CBP!Next]_(CBP!vars), fragile' = fragile
    PROVE  BreakerInv'
<1>1. CBP!TypeOK'
  BY SameFinite, ProxyAssumption, CBP!StepKeepsType DEF BreakerInv
<1>2. ~ fragile => CBP!AlwaysBalanced'
  BY SameFinite, ProxyAssumption, CBP!NextBalanced DEF BreakerInv
<1> QED BY <1>1, <1>2 DEF BreakerInv

LEMMA PoolStep ==
    ASSUME PoolSize > 1, BP!IInv, [BP!Next]_(BP!vars)
    PROVE  BP!IInv'
<1>1. PoolSize \in Nat \ {0}
  BY ProxyAssumption
<1> QED BY <1>1, SameFinite, ProxyAssumption, BP!NextKeepsIInv

\* The goroutines between the two sections can be counted, and are at most all.
LEMMA BetweenFinite ==
    ASSUME NEW d, NEW t
    PROVE  /\ IsFiniteSet(Between(d, t)) /\ Cardinality(Between(d, t)) \in Nat
           /\ Cardinality(Between(d, t)) <= Cardinality(Goroutine) /\ Cardinality(Goroutine) \in Nat
<1>1. Between(d, t) \subseteq Goroutine
  BY DEF Between
<1> QED BY <1>1, ProxyAssumption, FS_Subset, FS_CardinalityType

LEMMA DiscoveryKeepsDialInv == DialInv /\ D!Discovery => DialInv'
<1> SUFFICES ASSUME DialInv, D!Discovery PROVE DialInv'
  OBVIOUS
<1>1. instances' \subseteq Targets /\ UNCHANGED <<direct, conns, opened, dial>>
  BY DEF D!Discovery, D!Register, D!Deregister, DialInv, D!TypeOK
<1> QED BY <1>1 DEF DialInv, D!TypeOK, D!Underway, Between

\* DialService and a DialTarget that finds the connection leave nobody new in between.
LEMMA LookupKeepsDialInv ==
    ASSUME DialInv, NEW g \in Goroutine, NEW d \in D!Dials,
           d.pc # "new", d.pc = "lookup" => d.target \in Targets,
           dial' = [dial EXCEPT ![g] = d], UNCHANGED <<direct, instances, conns, opened>>
    PROVE  DialInv'
<1>1. D!TypeOK'
  BY DEF DialInv, D!TypeOK
<1>2. \A h \in Goroutine : dial'[h] = IF h = g THEN d ELSE dial[h]
  BY DEF DialInv, D!TypeOK
<1>3. \A h \in Goroutine : dial'[h].pc \in {"lookup", "new"} => dial'[h].target \in Targets
  BY <1>2 DEF DialInv, D!Underway
<1>4. \A t \in Targets : opened[t] \in Nat
  BY DEF DialInv, D!TypeOK
<1>5. \A t \in Targets : opened'[t] + Cardinality(Between(dial', t)) <= Cardinality(Goroutine)
  <2> SUFFICES ASSUME NEW t \in Targets
               PROVE  opened[t] + Cardinality(Between(dial', t)) <= Cardinality(Goroutine)
    OBVIOUS
  <2>1. Between(dial', t) \subseteq Between(dial, t)
    BY <1>2 DEF Between
  <2>2. Cardinality(Between(dial', t)) <= Cardinality(Between(dial, t))
    BY <2>1, BetweenFinite, FS_Subset
  <2>3. opened[t] + Cardinality(Between(dial, t)) <= Cardinality(Goroutine)
    BY DEF DialInv
  <2>4. /\ Cardinality(Between(dial', t)) \in Nat /\ Cardinality(Between(dial, t)) \in Nat
        /\ Cardinality(Goroutine) \in Nat /\ opened[t] \in Nat
    BY <1>4, BetweenFinite
  <2> QED BY <2>2, <2>3, <2>4
<1> QED BY <1>1, <1>3, <1>5 DEF DialInv, D!Underway, Between

\* A goroutine goes between the sections only for a target that has never been dialed.
LEMMA MissKeepsDialInv ==
    ASSUME DialInv, NEW g \in Goroutine, dial[g].pc = "lookup", dial[g].target \notin conns,
           dial' = [dial EXCEPT ![g] = [dial[g] EXCEPT !.pc = "new"]], UNCHANGED <<direct, instances, conns, opened>>
    PROVE  DialInv'
<1>1. dial \in [Goroutine -> D!Dials] /\ dial[g].target \in Targets
  BY DEF DialInv, D!TypeOK, D!Underway
<1>2. [dial[g] EXCEPT !.pc = "new"] \in D!Dials
  BY <1>1 DEF D!Dials
<1>3. D!TypeOK'
  BY <1>2 DEF DialInv, D!TypeOK
<1>4. /\ dial'[g].pc = "new" /\ dial'[g].target = dial[g].target
      /\ \A h \in Goroutine \ {g} : dial'[h] = dial[h]
  BY <1>1 DEF D!Dials
<1>5. \A h \in Goroutine : dial'[h].pc \in {"lookup", "new"} => dial'[h].target \in Targets
  BY <1>1, <1>4 DEF DialInv, D!Underway
<1>6. \A t \in Targets : opened'[t] + Cardinality(Between(dial', t)) <= Cardinality(Goroutine)
  <2> SUFFICES ASSUME NEW t \in Targets
               PROVE  opened[t] + Cardinality(Between(dial', t)) <= Cardinality(Goroutine)
    OBVIOUS
  <2>1. CASE t = dial[g].target
    <3>1. opened[t] = 0
      BY <2>1 DEF DialInv
    <3> QED BY <3>1, BetweenFinite
  <2>2. CASE t # dial[g].target
    <3>1. Between(dial', t) = Between(dial, t)
      BY <1>4, <2>2 DEF Between
    <3> QED BY <3>1 DEF DialInv
  <2> QED BY <2>1, <2>2
<1> QED BY <1>3, <1>5, <1>6 DEF DialInv, D!Underway, Between

\* Whoever inserts a connection leaves the place between the sections: the sum stays.
LEMMA InsertKeepsDialInv ==
    ASSUME DialInv, NEW g \in Goroutine, dial[g].pc = "new", D!Insert(g),
           dial' = [dial EXCEPT ![g] = D!Returned("done")], UNCHANGED <<direct, instances>>
    PROVE  DialInv'
<1> DEFINE u == dial[g].target
<1>1. u \in Targets /\ dial \in [Goroutine -> D!Dials] /\ opened \in [Targets -> Nat]
      /\ conns \subseteq Targets /\ instances \subseteq Targets
  BY DEF DialInv, D!TypeOK, D!Underway
<1>2. D!Returned("done") \in D!Dials /\ D!Returned("done").pc = "done"
  BY DEF D!Returned, D!Dials
<1>3. /\ opened' = [opened EXCEPT ![u] = opened[u] + 1] /\ conns' = conns \cup {u}
  BY DEF D!Insert
<1>4. \A h \in Goroutine : dial'[h] = IF h = g THEN D!Returned("done") ELSE dial[h]
  BY <1>1
<1>5. g \in Between(dial, u)
  BY DEF Between
<1> HIDE DEF u
<1>6. D!TypeOK'
  BY <1>1, <1>2, <1>3 DEF D!TypeOK, DialInv
<1>7. \A h \in Goroutine : dial'[h].pc \in {"lookup", "new"} => dial'[h].target \in Targets
  BY <1>2, <1>4 DEF DialInv, D!Underway
<1>8. \A t \in Targets : t \notin conns' => opened'[t] = 0
  BY <1>1, <1>3 DEF DialInv
<1>9. \A t \in Targets : opened'[t] + Cardinality(Between(dial', t)) <= Cardinality(Goroutine)
  <2> SUFFICES ASSUME NEW t \in Targets
               PROVE  opened'[t] + Cardinality(Between(dial', t)) <= Cardinality(Goroutine)
    OBVIOUS
  <2>0. /\ Cardinality(Between(dial', t)) \in Nat /\ Cardinality(Between(dial, t)) \in Nat
        /\ Cardinality(Goroutine) \in Nat /\ opened[t] \in Nat
        /\ opened[t] + Cardinality(Between(dial, t)) <= Cardinality(Goroutine)
    BY <1>1, BetweenFinite DEF DialInv
  <2>1. CASE t = u
    <3>1. Between(dial', t) = Between(dial, t) \ {g}
      BY <1>2, <1>4 DEF Between
    <3>2. Cardinality(Between(dial', t)) = Cardinality(Between(dial, t)) - 1
      BY <1>5, <2>1, <3>1, BetweenFinite, FS_RemoveElement
    <3>3. opened'[t] = opened[t] + 1
      BY <1>1, <1>3, <2>1
    <3> QED BY <2>0, <3>2, <3>3
  <2>2. CASE t # u
    <3>1. Between(dial', t) = Between(dial, t)
      BY <1>2, <1>4, <2>2 DEF Between, u
    <3>2. opened'[t] = opened[t]
      BY <1>1, <1>3, <2>2
    <3> QED BY <2>0, <3>1, <3>2
  <2> QED BY <2>1, <2>2
<1> QED BY <1>6, <1>7, <1>8, <1>9 DEF DialInv, D!Underway, Between

LEMMA DialingKeepsDialInv ==
    ASSUME DialInv, NEW g \in Goroutine, D!Dialing(g)
    PROVE  DialInv'
<1>1. /\ dial \in [Goroutine -> D!Dials] /\ instances \cup ({direct} \ {NoTarget}) \subseteq Targets
      /\ D!Returned("done") \in D!Dials /\ D!Returned("done").pc = "done"
      /\ D!Returned("failed") \in D!Dials /\ D!Returned("failed").pc = "failed"
  BY DEF DialInv, D!TypeOK, D!Returned, D!Dials
<1>2. CASE D!DialService(g)
  <2>1. CASE dial' = [dial EXCEPT ![g] = D!Returned("failed")]
    BY <1>1, <1>2, <2>1, LookupKeepsDialInv DEF D!DialService
  <2>2. ASSUME NEW t \in instances \cup ({direct} \ {NoTarget}),
               dial' = [dial EXCEPT ![g] = [pc |-> "lookup", target |-> t]]
        PROVE  DialInv'
    <3>1. PICK d : d = [pc |-> "lookup", target |-> t]
      OBVIOUS
    <3>2. d \in D!Dials /\ d.pc = "lookup" /\ d.target \in Targets
      BY <1>1, <3>1 DEF D!Dials
    <3> QED BY <1>2, <2>2, <3>1, <3>2, LookupKeepsDialInv DEF D!DialService
  <2> QED BY <1>2, <2>1, <2>2 DEF D!DialService, D!Resolve
<1>3. CASE D!DialTarget(g)
  <2>1. CASE dial[g].target \in conns
    BY <1>1, <1>3, <2>1, LookupKeepsDialInv DEF D!DialTarget
  <2>2. CASE dial[g].target \notin conns
    BY <1>3, <2>2, MissKeepsDialInv DEF D!DialTarget
  <2> QED BY <2>1, <2>2
<1>4. CASE D!NewClient(g)
  <2>1. CASE D!Insert(g) /\ dial' = [dial EXCEPT ![g] = D!Returned("done")]
    BY <1>4, <2>1, InsertKeepsDialInv DEF D!NewClient
  <2>2. CASE dial' = [dial EXCEPT ![g] = D!Returned("failed")] /\ UNCHANGED <<conns, opened>>
    BY <1>1, <1>4, <2>2, LookupKeepsDialInv DEF D!NewClient
  <2> QED BY <1>4, <2>1, <2>2 DEF D!NewClient
<1> QED BY <1>2, <1>3, <1>4 DEF D!Dialing

LEMMA UnchangedParts ==
    /\ DialInv /\ UNCHANGED dialerVars => DialInv'
    /\ PoolSize > 1 /\ BP!IInv /\ Unpicked => BP!IInv'
    /\ BreakerInv /\ Unconsulted /\ fragile' = fragile => BreakerInv'
<1>1. DialInv /\ UNCHANGED dialerVars => DialInv'
  BY DEF DialInv, dialerVars, D!TypeOK, D!Underway, Between
<1>2. PoolSize > 1 /\ BP!IInv /\ Unpicked => BP!IInv'
  BY PoolStep DEF Unpicked, balancerVars, BP!vars
<1>3. BreakerInv /\ Unconsulted /\ fragile' = fragile => BreakerInv'
  BY BreakerStep DEF Unconsulted, breakerVars, CBP!vars
<1> QED BY <1>1, <1>2, <1>3

-----------------------------------------------------------------------------
(* The steps of a request. *)

LEMMA NoRequestType == NoRequest \in Request
<1>1. 0 \in 0 .. maxAttempts - 1
  BY ProxyAssumption DEF maxAttempts
<1> QED BY <1>1 DEF NoRequest, Request

LEMMA NextTurnType ==
    ASSUME NEW r \in Request, NEW err \in Outcome \cup Code \cup {"nil"}
    PROVE  NextTurn(r, err) \in Request /\ NextTurn(r, err).pc \in {"attempt", "backoff", "return"}
<1>1. maxAttempts \in Nat \ {0}
  BY ProxyAssumption DEF maxAttempts
<1>2. r.attempt \in 0 .. maxAttempts - 1
  BY DEF Request
<1> DEFINE again == retryable(err) /\ r.attempt + 1 < maxAttempts
           n == IF again THEN r.attempt + 1 ELSE r.attempt
           pc == IF ~ again THEN "return" ELSE IF CfgBackoff > 0 THEN "backoff" ELSE "attempt"
<1>3. n \in 0 .. maxAttempts - 1
  BY <1>1, <1>2
<1>4. pc \in {"attempt", "backoff", "return"}
  OBVIOUS
<1>5. NextTurn(r, err) = [r EXCEPT !.err = err, !.attempt = n, !.pc = pc]
  BY DEF NextTurn
<1> HIDE DEF n, pc
<1> QED BY <1>3, <1>4, <1>5 DEF Request

LEMMA RequestChange ==
    ASSUME RequestTypeOK, NEW g \in Goroutine, NEW r \in Request,
           req' = [req EXCEPT ![g] = r], UNCHANGED fixed
    PROVE  /\ RequestTypeOK' /\ fragile' = fragile /\ guarded' = guarded
           /\ req'[g] = r /\ \A h \in Goroutine \ {g} : req'[h] = req[h]
<1>1. fragile' = fragile /\ guarded' = guarded
  BY Zenon DEF fixed
<1>2. guarded' \in BOOLEAN /\ fragile' \in BOOLEAN
  BY <1>1, Zenon DEF RequestTypeOK
<1>3. /\ req' \in [Goroutine -> Request]
      /\ req'[g] = r /\ \A h \in Goroutine \ {g} : req'[h] = req[h]
  BY DEF RequestTypeOK
<1> QED BY <1>1, <1>2, <1>3 DEF RequestTypeOK

\* A step within a request leaves its token alone.
LEMMA MoveKeepsTokens ==
    ASSUME ProxyInv, NEW g \in Goroutine, NEW r \in Request, req' = [req EXCEPT ![g] = r], UNCHANGED fixed,
           req[g].pc # "idle", r.pc # "idle", Unconsulted
    PROVE  RequestTypeOK' /\ TokenPerRequest' /\ BreakerInv'
<1>1. /\ RequestTypeOK' /\ fragile' = fragile /\ guarded' = guarded
      /\ req'[g] = r /\ \A h \in Goroutine \ {g} : req'[h] = req[h]
  BY RequestChange DEF ProxyInv
<1>2. token' = token /\ CB!NoToken' = CB!NoToken
  BY DEF Unconsulted, breakerVars, CB!NoToken
<1>3. TokenPerRequest'
  BY <1>1, <1>2 DEF ProxyInv, TokenPerRequest, CB!NoToken
<1> QED BY <1>1, <1>3, UnchangedParts DEF ProxyInv

\* A step outside the invoker leaves the balancer alone.
LEMMA MoveKeepsPool ==
    ASSUME ProxyInv, NEW g \in Goroutine, NEW r \in Request, req' = [req EXCEPT ![g] = r], UNCHANGED fixed,
           req[g].pc # "call", r.pc # "call" \/ PoolSize <= 1, Unpicked
    PROVE  PoolInv'
<1>1. req'[g] = r /\ \A h \in Goroutine \ {g} : req'[h] = req[h]
  BY RequestChange DEF ProxyInv
<1>2. held' = held
  BY DEF Unpicked, balancerVars
<1>3. PoolSize > 1 => BP!IInv'
  BY UnchangedParts DEF ProxyInv, PoolInv
<1> QED BY <1>1, <1>2, <1>3, ProxyAssumption DEF ProxyInv, PoolInv, B!NoConn

LEMMA InvokeKeepsProxyInv ==
    ASSUME ProxyInv, NEW g \in Goroutine, Invoke(g)
    PROVE  ProxyInv'
<1> DEFINE r == [NoRequest EXCEPT !.pc = "attempt"]
<1>1. r \in Request /\ r.pc = "attempt"
  BY NoRequestType DEF Request
<1>2. /\ req[g].pc = "idle" /\ UNCHANGED <<dialerVars, fixed>> /\ Unpicked
      /\ req' = IF guarded /\ token'[g] = CB!NoToken THEN req ELSE [req EXCEPT ![g] = r]
      /\ (~ guarded /\ Unconsulted) \/ (guarded /\ CB!BeforeRequest(g))
  BY DEF Invoke, route
<1> HIDE DEF r
<1>3. DialInv'
  BY <1>2, UnchangedParts DEF ProxyInv
<1>4. req' = [req EXCEPT ![g] = req[g]] \/ req' = [req EXCEPT ![g] = r]
  BY <1>2 DEF ProxyInv, RequestTypeOK
<1>5. req[g] \in Request
  BY DEF ProxyInv, RequestTypeOK
<1>6. PICK q \in Request : q \in {req[g], r} /\ req' = [req EXCEPT ![g] = q]
  BY <1>1, <1>4, <1>5
<1>7. /\ RequestTypeOK' /\ fragile' = fragile /\ guarded' = guarded
      /\ req'[g] = q /\ \A h \in Goroutine \ {g} : req'[h] = req[h]
  BY <1>2, <1>6, RequestChange DEF ProxyInv
<1>8. PoolInv'
  BY <1>1, <1>2, <1>6, MoveKeepsPool
<1>9. BreakerInv'
  <2>1. CASE Unconsulted
    BY <1>7, <2>1, UnchangedParts DEF ProxyInv
  <2>2. CASE CB!BeforeRequest(g)
    <3>1. CBP!Next
      BY <2>2, SameBreaker DEF CBP!Next
    <3> QED BY <1>7, <3>1, BreakerStep DEF ProxyInv
  <2> QED BY <1>2, <2>1, <2>2
<1>10. TokenPerRequest'
  <2>1. CASE ~ guarded /\ Unconsulted
    <3>1. token' = token
      BY <2>1 DEF Unconsulted, breakerVars
    <3> QED BY <1>7, <2>1, <3>1 DEF ProxyInv, TokenPerRequest, CB!NoToken
  <2>2. CASE guarded /\ CB!BeforeRequest(g)
    <3>1. token' = token \/ \E x : token' = [token EXCEPT ![g] = x]
      BY <2>2 DEF CB!BeforeRequest
    <3>2. \A h \in Goroutine \ {g} : token'[h] = token[h]
      BY <3>1 DEF ProxyInv, BreakerInv, CBP!TypeOK
    <3>3. token'[g] # CB!NoToken <=> req'[g].pc # "idle"
      <4>1. CASE token'[g] = CB!NoToken
        BY <1>2, <2>2, <4>1
      <4>2. CASE token'[g] # CB!NoToken
        <5>1. req' = [req EXCEPT ![g] = r]
          BY <1>2, <4>2
        <5>2. req'[g] = r
          BY <5>1 DEF ProxyInv, RequestTypeOK
        <5> QED BY <1>1, <4>2, <5>2
      <4> QED BY <4>1, <4>2
    <3> QED BY <1>7, <2>2, <3>2, <3>3 DEF ProxyInv, TokenPerRequest, CB!NoToken
  <2> QED BY <1>2, <2>1, <2>2
<1> QED BY <1>3, <1>7, <1>8, <1>9, <1>10 DEF ProxyInv

LEMMA PickConnKeepsProxyInv ==
    ASSUME ProxyInv, NEW g \in Goroutine, PickConn(g)
    PROVE  ProxyInv'
<1> DEFINE r == [req[g] EXCEPT !.pc = "call"]
<1>1. /\ req[g].pc = "attempt" /\ UNCHANGED <<dialerVars, fixed>> /\ Unconsulted
      /\ IF PoolSize > 1 THEN B!Pick(g) ELSE Unpicked
      /\ req' = IF PoolSize > 1 /\ held'[g] = B!NoConn THEN req ELSE [req EXCEPT ![g] = r]
  BY DEF PickConn, route
<1>2. req[g] \in Request /\ req \in [Goroutine -> Request]
  BY DEF ProxyInv, RequestTypeOK
<1>3. r \in Request /\ r.pc = "call"
  BY <1>2 DEF Request
<1> HIDE DEF r
<1>4. PICK q \in Request : q \in {req[g], r} /\ req' = [req EXCEPT ![g] = q]
  <2>1. req' = [req EXCEPT ![g] = req[g]] \/ req' = [req EXCEPT ![g] = r]
    BY <1>1, <1>2
  <2> QED BY <1>2, <1>3, <2>1
<1>5. RequestTypeOK' /\ TokenPerRequest' /\ BreakerInv'
  BY <1>1, <1>3, <1>4, MoveKeepsTokens
<1>6. DialInv'
  BY <1>1, UnchangedParts DEF ProxyInv
<1>7. req'[g] = q /\ \A h \in Goroutine \ {g} : req'[h] = req[h]
  BY <1>1, <1>4, RequestChange DEF ProxyInv
<1>8. CASE PoolSize > 1
  <2>1. B!Pick(g) /\ BP!IInv /\ \A h \in Goroutine : held[h] # B!NoConn <=> req[h].pc = "call"
    BY <1>1, <1>8 DEF ProxyInv, PoolInv
  <2>2. BP!Next
    BY <2>1, SameBalancer DEF BP!Next
  <2>3. BP!IInv'
    BY <1>8, <2>1, <2>2, PoolStep
  <2>4. held' = held \/ \E c : held' = [held EXCEPT ![g] = c]
    BY <2>1 DEF B!Pick, B!PickRoundRobin, B!PickRandom, B!ScanFirst, B!ScanStep, B!ScanClaim
  <2>5. \A h \in Goroutine \ {g} : held'[h] = held[h]
    BY <2>1, <2>4 DEF BP!IInv, BP!TypeOK
  <2>6. held'[g] # B!NoConn <=> req'[g].pc = "call"
    <3>1. CASE held'[g] = B!NoConn
      BY <1>1, <1>8, <3>1
    <3>2. CASE held'[g] # B!NoConn
      <4>1. req'[g] = r
        BY <1>1, <1>2, <3>2
      <4> QED BY <1>3, <3>2, <4>1
    <3> QED BY <3>1, <3>2
  <2>7. PoolInv'
    BY <1>7, <2>1, <2>3, <2>5, <2>6 DEF PoolInv, B!NoConn
  <2> QED BY <1>5, <1>6, <2>7 DEF ProxyInv
<1>9. CASE ~ (PoolSize > 1)
  BY <1>5, <1>6, <1>9 DEF ProxyInv, PoolInv
<1> QED BY <1>8, <1>9

LEMMA DialKeepsProxyInv ==
    ASSUME ProxyInv, NEW g \in Goroutine, Dial(g)
    PROVE  ProxyInv'
<1>1. /\ req[g].pc = "attempt" /\ PoolSize = 0 /\ D!Dialing(g) /\ UNCHANGED fixed /\ Unconsulted
      /\ req' = CASE dial'[g].pc = "done"   -> [req EXCEPT ![g] = [req[g] EXCEPT !.pc = "call"]]
                  [] dial'[g].pc = "failed" -> [req EXCEPT ![g] = NextTurn(req[g], "UNAVAILABLE")]
                  [] OTHER                  -> req
  BY DEF Dial
<1>2. req[g] \in Request /\ req \in [Goroutine -> Request]
  BY DEF ProxyInv, RequestTypeOK
<1>3. [req[g] EXCEPT !.pc = "call"] \in Request /\ [req[g] EXCEPT !.pc = "call"].pc = "call"
  BY <1>2 DEF Request
<1>4. NextTurn(req[g], "UNAVAILABLE") \in Request /\ NextTurn(req[g], "UNAVAILABLE").pc # "idle"
  <2>1. "UNAVAILABLE" \in Outcome \cup Code \cup {"nil"}
    BY DEF Code
  <2> QED BY <1>2, <2>1, NextTurnType
<1>5. PICK q \in Request : q.pc # "idle" /\ req' = [req EXCEPT ![g] = q]
  <2>1. req = [req EXCEPT ![g] = req[g]]
    BY <1>2
  <2>2. CASE req' = req
    BY <1>1, <1>2, <2>1, <2>2
  <2>3. CASE req' = [req EXCEPT ![g] = [req[g] EXCEPT !.pc = "call"]]
    BY <1>3, <2>3
  <2>4. CASE req' = [req EXCEPT ![g] = NextTurn(req[g], "UNAVAILABLE")]
    BY <1>4, <2>4
  <2> QED BY <1>1, <2>2, <2>3, <2>4
<1>6. RequestTypeOK' /\ TokenPerRequest' /\ BreakerInv'
  BY <1>1, <1>5, MoveKeepsTokens
<1>7. DialInv'
  BY <1>1, DialingKeepsDialInv DEF ProxyInv
<1>8. PoolInv'
  BY <1>1 DEF PoolInv
<1> QED BY <1>6, <1>7, <1>8 DEF ProxyInv

\* The deferred release, after which the goroutine is out of the invoker.
LEMMA ReleaseKeepsPool ==
    ASSUME ProxyInv, NEW g \in Goroutine, NEW r \in Request, req' = [req EXCEPT ![g] = r], UNCHANGED fixed,
           ReleaseConn(g), r.pc # "call"
    PROVE  PoolInv'
<1>1. req'[g] = r /\ \A h \in Goroutine \ {g} : req'[h] = req[h]
  BY RequestChange DEF ProxyInv
<1>2. CASE PoolSize > 1
  <2>1. B!Release(g) /\ BP!IInv /\ \A h \in Goroutine : held[h] # B!NoConn <=> req[h].pc = "call"
    BY <1>2 DEF ReleaseConn, ProxyInv, PoolInv
  <2>2. BP!Next
    BY <2>1, SameBalancer DEF BP!Next
  <2>3. BP!IInv'
    BY <1>2, <2>1, <2>2, PoolStep
  <2>4. held'[g] = B!NoConn /\ \A h \in Goroutine \ {g} : held'[h] = held[h]
    BY <2>1 DEF B!Release, BP!IInv, BP!TypeOK
  <2> QED BY <1>1, <2>1, <2>3, <2>4 DEF PoolInv, B!NoConn
<1>3. CASE ~ (PoolSize > 1)
  BY <1>3 DEF PoolInv
<1> QED BY <1>2, <1>3

LEMMA EndAttemptKeepsProxyInv ==
    ASSUME ProxyInv, NEW g \in Goroutine, NEW err \in Outcome, EndAttempt(g, err)
    PROVE  ProxyInv'
<1>1. /\ req[g].pc = "call" /\ ReleaseConn(g) /\ req' = [req EXCEPT ![g] = NextTurn(req[g], err)]
      /\ UNCHANGED <<dialerVars, fixed>> /\ Unconsulted
  BY DEF EndAttempt, route
<1>2. NextTurn(req[g], err) \in Request /\ NextTurn(req[g], err).pc \in {"attempt", "backoff", "return"}
  BY NextTurnType DEF ProxyInv, RequestTypeOK
<1>3. RequestTypeOK' /\ TokenPerRequest' /\ BreakerInv'
  BY <1>1, <1>2, MoveKeepsTokens
<1>4. PoolInv'
  BY <1>1, <1>2, ReleaseKeepsPool
<1>5. DialInv'
  BY <1>1, UnchangedParts DEF ProxyInv
<1> QED BY <1>3, <1>4, <1>5 DEF ProxyInv

LEMMA BackoffKeepsProxyInv ==
    ASSUME ProxyInv, NEW g \in Goroutine, Backoff(g)
    PROVE  ProxyInv'
<1>1. /\ req[g].pc = "backoff" /\ UNCHANGED <<dialerVars, fixed>> /\ Unconsulted /\ Unpicked
      /\ \/ req' = [req EXCEPT ![g] = [req[g] EXCEPT !.pc = "attempt"]]
         \/ req' = [req EXCEPT ![g] = [req[g] EXCEPT !.pc = "return", !.err = "DEADLINE_EXCEEDED"]]
  BY DEF Backoff, route
<1>2. req[g] \in Request
  BY DEF ProxyInv, RequestTypeOK
<1>3. PICK q \in Request : q.pc \in {"attempt", "return"} /\ req' = [req EXCEPT ![g] = q]
  <2>1. [req[g] EXCEPT !.pc = "attempt"] \in Request /\ [req[g] EXCEPT !.pc = "attempt"].pc = "attempt"
    BY <1>2 DEF Request
  <2>2. /\ [req[g] EXCEPT !.pc = "return", !.err = "DEADLINE_EXCEEDED"] \in Request
        /\ [req[g] EXCEPT !.pc = "return", !.err = "DEADLINE_EXCEEDED"].pc = "return"
    BY <1>2 DEF Request, Code
  <2> QED BY <1>1, <2>1, <2>2
<1>4. RequestTypeOK' /\ TokenPerRequest' /\ BreakerInv'
  BY <1>1, <1>3, MoveKeepsTokens
<1>5. PoolInv'
  BY <1>1, <1>3, MoveKeepsPool
<1>6. DialInv'
  BY <1>1, UnchangedParts DEF ProxyInv
<1> QED BY <1>4, <1>5, <1>6 DEF ProxyInv

LEMMA ReturnKeepsProxyInv ==
    ASSUME ProxyInv, NEW g \in Goroutine, Return(g)
    PROVE  ProxyInv'
<1> DEFINE success == ~ isBreakerFailure(req[g].err)
<1>1. /\ req[g].pc = "return" /\ req' = [req EXCEPT ![g] = NoRequest]
      /\ UNCHANGED <<dialerVars, fixed>> /\ Unpicked
      /\ IF guarded THEN CB!AfterRequest(g, success) ELSE Unconsulted
  BY DEF Return, route
<1>2. success \in BOOLEAN
  BY Zenon DEF isBreakerFailure
<1> HIDE DEF success
<1>3. NoRequest.pc = "idle"
  BY DEF NoRequest
<1>4. /\ RequestTypeOK' /\ fragile' = fragile /\ guarded' = guarded
      /\ req'[g] = NoRequest /\ \A h \in Goroutine \ {g} : req'[h] = req[h]
  BY <1>1, NoRequestType, RequestChange DEF ProxyInv
<1>5. PoolInv'
  BY <1>1, <1>3, NoRequestType, MoveKeepsPool
<1>6. DialInv'
  BY <1>1, UnchangedParts DEF ProxyInv
<1>7. CASE guarded
  <2>1. CB!AfterRequest(g, success)
    BY <1>1, <1>7
  <2>2. CBP!Next
    BY <1>2, <2>1, SameBreaker DEF CBP!Next
  <2>3. BreakerInv'
    BY <1>4, <2>2, BreakerStep DEF ProxyInv
  <2>4. token' = [token EXCEPT ![g] = CB!NoToken]
    BY <2>1 DEF CB!AfterRequest
  <2>5. token'[g] = CB!NoToken /\ \A h \in Goroutine \ {g} : token'[h] = token[h]
    BY <2>4 DEF ProxyInv, BreakerInv, CBP!TypeOK
  <2>6. TokenPerRequest'
    BY <1>3, <1>4, <2>5 DEF ProxyInv, TokenPerRequest, CB!NoToken
  <2> QED BY <1>4, <1>5, <1>6, <2>3, <2>6 DEF ProxyInv
<1>8. CASE ~ guarded
  <2>1. Unconsulted
    BY <1>1, <1>8
  <2>2. BreakerInv' /\ token' = token
    BY <1>4, <2>1, UnchangedParts DEF ProxyInv, Unconsulted, breakerVars
  <2>3. TokenPerRequest'
    BY <1>4, <1>8, <2>2 DEF ProxyInv, TokenPerRequest, CB!NoToken
  <2> QED BY <1>4, <1>5, <1>6, <2>2, <2>3 DEF ProxyInv
<1> QED BY <1>7, <1>8

LEMMA PanicKeepsProxyInv ==
    ASSUME ProxyInv, NEW g \in Goroutine, Panic(g)
    PROVE  ProxyInv'
<1>1. /\ fragile /\ req[g].pc = "call" /\ req' = [req EXCEPT ![g] = NoRequest] /\ ReleaseConn(g)
      /\ UNCHANGED <<dialerVars, fixed, breaker>> /\ token' = [token EXCEPT ![g] = CB!NoToken]
  BY DEF Panic, route
<1>2. NoRequest.pc = "idle" /\ CB!NoToken = CBP!NoToken
  BY SameBreaker DEF NoRequest
<1>3. /\ RequestTypeOK' /\ fragile' = fragile /\ guarded' = guarded
      /\ req'[g] = NoRequest /\ \A h \in Goroutine \ {g} : req'[h] = req[h]
  BY <1>1, NoRequestType, RequestChange DEF ProxyInv
<1>4. PoolInv'
  BY <1>1, <1>2, NoRequestType, ReleaseKeepsPool
<1>5. DialInv'
  BY <1>1, UnchangedParts DEF ProxyInv
<1>6. CBP!TypeOK'
  BY <1>1, <1>2 DEF ProxyInv, BreakerInv, CBP!TypeOK
<1>7. BreakerInv'
  BY <1>1, <1>3, <1>6 DEF BreakerInv
<1>8. token'[g] = CB!NoToken /\ \A h \in Goroutine \ {g} : token'[h] = token[h]
  BY <1>1 DEF ProxyInv, BreakerInv, CBP!TypeOK
<1>9. TokenPerRequest'
  BY <1>2, <1>3, <1>8 DEF ProxyInv, TokenPerRequest, CB!NoToken
<1> QED BY <1>3, <1>4, <1>5, <1>7, <1>9 DEF ProxyInv

LEMMA ExpireKeepsProxyInv ==
    ASSUME ProxyInv, NEW g \in Goroutine, Expire(g)
    PROVE  ProxyInv'
<1> DEFINE r == [req[g] EXCEPT !.expired = TRUE]
<1>1. /\ req[g].pc # "idle" /\ req' = [req EXCEPT ![g] = r]
      /\ UNCHANGED <<dialerVars, fixed>> /\ Unconsulted /\ Unpicked
  BY DEF Expire, route
<1>2. r \in Request /\ r.pc = req[g].pc
  BY DEF ProxyInv, RequestTypeOK, Request
<1> HIDE DEF r
<1>3. RequestTypeOK' /\ TokenPerRequest' /\ BreakerInv'
  BY <1>1, <1>2, MoveKeepsTokens
<1>4. req'[g].pc = req[g].pc /\ \A h \in Goroutine \ {g} : req'[h] = req[h]
  BY <1>1, <1>2, RequestChange DEF ProxyInv
<1>5. held' = held /\ (PoolSize > 1 => BP!IInv')
  BY <1>1, UnchangedParts DEF ProxyInv, PoolInv, Unpicked, balancerVars
<1>6. PoolInv'
  BY <1>4, <1>5 DEF ProxyInv, PoolInv, B!NoConn
<1>7. DialInv'
  BY <1>1, UnchangedParts DEF ProxyInv
<1> QED BY <1>3, <1>6, <1>7 DEF ProxyInv

\* Time, and the registry.
LEMMA OutsideKeepsProxyInv == ProxyInv /\ (Tick \/ Discovery \/ UNCHANGED vars) => ProxyInv'
<1> SUFFICES ASSUME ProxyInv, Tick \/ Discovery \/ UNCHANGED vars PROVE ProxyInv'
  OBVIOUS
<1>1. UNCHANGED <<fixed, req>> /\ Unpicked
  BY DEF Tick, Discovery, vars, route, Unpicked
<1>2. fragile' = fragile /\ guarded' = guarded /\ req' = req
  BY <1>1 DEF fixed
<1>3. RequestTypeOK'
  BY <1>2 DEF ProxyInv, RequestTypeOK
<1>4. DialInv'
  BY UnchangedParts, DiscoveryKeepsDialInv DEF ProxyInv, Tick, Discovery, vars, route
<1>5. BreakerInv' /\ token' = token
  <2>1. CASE Tick
    <3>1. CBP!Next /\ token' = token
      BY <2>1, SameBreaker DEF Tick, CBP!Next, CB!Tick
    <3> QED BY <1>2, <3>1, BreakerStep DEF ProxyInv
  <2>2. CASE Unconsulted
    BY <1>2, <2>2, UnchangedParts DEF ProxyInv, Unconsulted, breakerVars
  <2> QED BY <2>1, <2>2 DEF Discovery, vars, Unconsulted
<1>6. TokenPerRequest'
  BY <1>2, <1>5 DEF ProxyInv, TokenPerRequest, CB!NoToken
<1>7. held' = held /\ (PoolSize > 1 => BP!IInv')
  BY <1>1, UnchangedParts DEF ProxyInv, PoolInv, Unpicked, balancerVars
<1>8. PoolInv'
  BY <1>2, <1>7 DEF ProxyInv, PoolInv, B!NoConn
<1> QED BY <1>3, <1>4, <1>5, <1>6, <1>8 DEF ProxyInv

-----------------------------------------------------------------------------
(* The theorems. *)

LEMMA InitProxyInv == Init => ProxyInv
<1> SUFFICES ASSUME Init PROVE ProxyInv
  OBVIOUS
<1>1. RequestTypeOK
  <2>1. req \in [Goroutine -> Request]
    BY NoRequestType DEF Init
  <2>2. guarded \in BOOLEAN /\ fragile \in BOOLEAN
    BY ProxyAssumption DEF Init
  <2> QED BY <2>1, <2>2 DEF RequestTypeOK
<1>2. CBP!AlwaysBalanced
  BY SameBreaker, SameFinite, ProxyAssumption, CBP!InitBalanced DEF Init
<1>3. BreakerInv
  BY <1>2 DEF BreakerInv, CBP!AlwaysBalanced, CBP!Balanced, CBP!TypeOK
<1>4. TokenPerRequest
  BY DEF Init, CB!Init, TokenPerRequest, NoRequest
<1>5. PoolInv
  <2>1. PoolSize > 1 => BP!IInv
    <3>1. PoolSize > 1 => PoolSize \in Nat \ {0}
      BY ProxyAssumption
    <3> QED BY <3>1, SameBalancer, SameFinite, ProxyAssumption, BP!InitIInv DEF Init
  <2> QED BY <2>1 DEF Init, B!Init, PoolInv, NoRequest
<1>6. DialInv
  <2>1. D!Init /\ D!Returned("idle") \in D!Dials /\ D!Returned("idle").pc = "idle"
    BY DEF Init, D!Returned, D!Dials
  <2>2. D!TypeOK
    BY <2>1 DEF D!Init, D!TypeOK
  <2>3. \A t \in Targets : Cardinality(Between(dial, t)) = 0
    <3>1. \A t \in Targets : Between(dial, t) = {}
      BY <2>1 DEF D!Init, Between
    <3> QED BY <3>1, FS_EmptySet
  <2>4. Cardinality(Goroutine) \in Nat
    BY ProxyAssumption, FS_CardinalityType
  <2> QED BY <2>1, <2>2, <2>3, <2>4 DEF D!Init, DialInv, D!Underway
<1> QED BY <1>1, <1>3, <1>4, <1>5, <1>6 DEF ProxyInv

LEMMA NextKeepsProxyInv == ProxyInv /\ [Next]_vars => ProxyInv'
<1> SUFFICES ASSUME ProxyInv, [Next]_vars PROVE ProxyInv'
  OBVIOUS
<1>1. CASE Tick \/ Discovery \/ UNCHANGED vars
  BY <1>1, OutsideKeepsProxyInv
<1>2. ASSUME NEW g \in Goroutine, Invoke(g) \/ Progress(g) \/ Panic(g) \/ Expire(g) PROVE ProxyInv'
  BY <1>2, InvokeKeepsProxyInv, PickConnKeepsProxyInv, DialKeepsProxyInv, EndAttemptKeepsProxyInv,
     BackoffKeepsProxyInv, ReturnKeepsProxyInv, PanicKeepsProxyInv, ExpireKeepsProxyInv DEF Progress
<1> QED BY <1>1, <1>2 DEF Next

LEMMA ProxyInvariant == Spec => []ProxyInv
BY InitProxyInv, NextKeepsProxyInv, PTL DEF Spec

\* The breaker counts a request once, whatever its retries, and the counts are balanced as
\* long as no invoker panics.
THEOREM ProxyCountsRequestsOnce == Spec => []OneOutcomePerRequest
<1>1. ProxyInv => OneOutcomePerRequest
  <2> SUFFICES ASSUME ProxyInv, guarded, ~ fragile
               PROVE  /\ \A g \in Goroutine : token[g] # CB!NoToken <=> req[g].pc # "idle"
                      /\ CB!CallsAccounted
    BY DEF OneOutcomePerRequest
  <2>1. \A g \in Goroutine : token[g] # CB!NoToken <=> req[g].pc # "idle"
    BY DEF ProxyInv, TokenPerRequest
  <2>2. CBP!AlwaysBalanced
    BY DEF ProxyInv, BreakerInv
  <2>3. CBP!CallsAccounted
    BY <2>2, Zenon DEF CBP!AlwaysBalanced, CBP!Balanced, CBP!CallsAccounted, CBP!InFlight
  <2>4. CB!CallsAccounted
    BY <2>3, Zenon DEF CBP!CallsAccounted, CBP!InFlight, CBP!Holders, CBP!Cardinality, CBP!IsFiniteSet,
                       CB!CallsAccounted, CB!InFlight, CB!Holders, CB!Cardinality, CB!IsFiniteSet
  <2> QED BY <2>1, <2>4
<1> QED BY <1>1, ProxyInvariant, PTL

\* However an attempt ends, by a result, an error, a retry or a panic, its pooled connection
\* has been given back.
THEOREM ProxyReturnsConnections == Spec => []ConnectionsReturned
<1>1. ProxyInv => ConnectionsReturned
  <2> SUFFICES ASSUME ProxyInv, PoolSize > 1
               PROVE  /\ \A g \in Goroutine : held[g] # B!NoConn <=> req[g].pc = "call"
                      /\ balancer = B!lbLeastConn =>
                           \A i \in B!Conn : inflight[i] = Cardinality({g \in Goroutine : held[g] = i})
    BY DEF ConnectionsReturned
  <2>1. BP!IInv /\ \A g \in Goroutine : held[g] # B!NoConn <=> req[g].pc = "call"
    BY DEF ProxyInv, PoolInv
  <2>2. BP!InflightExact
    BY <2>1 DEF BP!IInv
  <2>3. balancer = B!lbLeastConn =>
           \A i \in B!Conn : inflight[i] = Cardinality({g \in Goroutine : held[g] = i})
    BY <2>2, SameBalancer, SameFinite DEF BP!InflightExact
  <2> QED BY <2>1, <2>3
<1> QED BY <1>1, ProxyInvariant, PTL

\* However requests race for a target, retry and find the registry changed, no more
\* connections are made to it than there are goroutines.
THEOREM ProxyDialsBounded == Spec => []DialsBounded
<1>1. ProxyInv => DialsBounded
  <2> SUFFICES ASSUME ProxyInv, NEW t \in Targets PROVE opened[t] <= D!Cardinality(Goroutine)
    BY DEF DialsBounded, D!DialsBounded
  <2>1. D!Cardinality(Goroutine) = Cardinality(Goroutine)
    BY Zenon DEF D!Cardinality, Cardinality, D!IsFiniteSet, IsFiniteSet
  <2>2. opened[t] + Cardinality(Between(dial, t)) <= Cardinality(Goroutine) /\ opened[t] \in Nat
    BY DEF ProxyInv, DialInv, D!TypeOK
  <2> QED BY <2>1, <2>2, BetweenFinite
<1> QED BY <1>1, ProxyInvariant, PTL

\* The breaker opens or counts a failure only in the step in which a request is answered
\* with a server-side or transport error, in no other step of any goroutine.
THEOREM ProxyCountsServerFailures == Spec => OnlyServerFailuresCount
<1> DEFINE Counts == (breaker'.phase = "open" /\ breaker.phase # "open") \/ breaker'.failures > breaker.failures
           Answered == \E g \in Goroutine :
                           /\ req[g].pc = "return" /\ req'[g].pc = "idle"
                           /\ errorCode(req[g].err) \in {"UNAVAILABLE", "DEADLINE_EXCEEDED", "INTERNAL"}
                           /\ req[g].err # "nil"
           Calm == breaker'.failures <= breaker.failures /\ (breaker'.phase = "open" => breaker.phase = "open")
<1>1. ASSUME ProxyInv, [Next]_vars PROVE [Counts => Answered]_vars
  <2>1. breaker.failures \in Nat /\ breaker'.failures \in Nat
    <3>1. CBP!TypeOK /\ CBP!TypeOK'
      BY <1>1, NextKeepsProxyInv DEF ProxyInv, BreakerInv
    <3> QED BY <3>1 DEF CBP!TypeOK, CBP!Breaker
  <2>2. Calm => ~ Counts
    BY <2>1
  <2>3. breaker' = breaker => Calm
    BY <2>1
  <2>4. ASSUME CBP!Tick \/ \E g \in Goroutine : CBP!BeforeRequest(g) \/ CBP!AfterRequest(g, TRUE)
        PROVE  Calm
    BY <1>1, <2>4, SameFinite, ProxyAssumption, CBP!CalmStep DEF ProxyInv, BreakerInv, CBP!stateOpen
  <2>5. CASE UNCHANGED vars
    BY <2>5
  <2>6. CASE Tick
    BY <2>2, <2>4, <2>6, SameBreaker DEF Tick
  <2>7. CASE Discovery
    BY <2>2, <2>3, <2>7 DEF Discovery, Unconsulted, breakerVars
  <2>8. ASSUME NEW g \in Goroutine, Invoke(g) PROVE ~ Counts
    BY <2>2, <2>3, <2>4, <2>8, SameBreaker DEF Invoke, Unconsulted, breakerVars
  <2>9. ASSUME NEW g \in Goroutine,
               \/ PickConn(g) \/ Dial(g) \/ (\E err \in Outcome : EndAttempt(g, err)) \/ Backoff(g)
               \/ Panic(g) \/ Expire(g)
        PROVE  ~ Counts
    <3>1. breaker' = breaker
      BY <2>9 DEF PickConn, Dial, EndAttempt, Backoff, Panic, Expire, Unconsulted, breakerVars
    <3> QED BY <2>2, <2>3, <3>1
  <2>10. ASSUME NEW g \in Goroutine, Return(g) PROVE Counts => Answered
    <3>1. CASE guarded /\ ~ isBreakerFailure(req[g].err)
      <4>1. CB!AfterRequest(g, TRUE)
        BY <2>10, <3>1 DEF Return
      <4> QED BY <2>2, <2>4, <4>1, SameBreaker
    <3>2. CASE ~ guarded
      BY <2>2, <2>3, <2>10, <3>2 DEF Return, Unconsulted, breakerVars
    <3>3. CASE isBreakerFailure(req[g].err)
      <4>1. req[g].pc = "return" /\ req'[g].pc = "idle"
        BY <1>1, <2>10 DEF Return, ProxyInv, RequestTypeOK, NoRequest
      <4> QED BY <3>3, <4>1 DEF isBreakerFailure
    <3> QED BY <3>1, <3>2, <3>3
  <2> HIDE DEF Counts, Answered, Calm
  <2> QED BY <1>1, <2>5, <2>6, <2>7, <2>8, <2>9, <2>10 DEF Next, Progress
<1> QED BY <1>1, ProxyInvariant, PTL DEF Spec, OnlyServerFailuresCount
=============================================================================
