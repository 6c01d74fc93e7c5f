----------------------------- MODULE UnaryProxy -----------------------------
(***************************************************************************)
(* A unary proxy route of the gateway (transport/gateway/proxy.go): the    *)
(* request goroutines of one route, each running Gateway.Handle ->         *)
(* grpcProxy.Invoke -> invokeWithRetry -> invokeOnce, composed with the    *)
(* route's circuit breaker and load balancer, which they share.            *)
(*                                                                         *)
(* An attempt ends with a nil error, an *AppError (written as its code) or *)
(* a gRPC status error (written as its status).                            *)
(***************************************************************************)
EXTENDS Integers, FiniteSets

CONSTANTS
    Goroutine,        \* request goroutines of the route
    WithBreaker,      \* the circuit_breaker settings considered: present or not
    CfgMinRequests, CfgRatioNum, CfgRatioDen, CfgWindow, CfgOpenTimeout,
    CfgHalfOpenMaxCalls, MaxRequests, MaxGeneration,        \* see CircuitBreaker
    PoolSize,         \* pooled connections; 0: the route dials on demand
    LoadBalance, CounterRange,                              \* see Balancer
    Targets, NoTarget, MaxDials,                            \* see Dialer
    CfgMaxAttempts, CfgBackoff, CfgRetryOn,                 \* config.RetryConfig
    HasDeadline,      \* the request context carries a deadline
    Outcome,          \* errors the invoker may return, "nil" among them
    CanPanic          \* the invokers considered: may panic under the recovery plugin or not

ASSUME ProxyAssumption ==
    /\ IsFiniteSet(Goroutine)
    /\ {CfgMinRequests, CfgRatioNum, CfgWindow, CfgOpenTimeout, CfgHalfOpenMaxCalls} \subseteq Int
    /\ CfgRatioDen \in Nat \ {0} /\ MaxRequests \in Nat /\ MaxGeneration \in Nat
    /\ PoolSize \in Nat /\ CounterRange \in Nat \ {0}
    /\ MaxDials \in Nat /\ NoTarget \notin Targets
    /\ CfgMaxAttempts \in Int /\ CfgBackoff \in Int
    /\ WithBreaker \subseteq BOOLEAN
    /\ HasDeadline \in BOOLEAN /\ CanPanic \subseteq BOOLEAN

VARIABLES
    breaker, token,                              \* the route's circuitBreaker
    balancer, next, inflight, scan, held, quiet, \* the route's balancer
    direct, instances, conns, opened, dial,      \* the gateway's dialer and the registry
    guarded,                                     \* route.breaker # nil
    fragile,                                     \* the route's invoker may panic
    req                                          \* each goroutine's call of Handle

CB == INSTANCE CircuitBreaker WITH Caller <- Goroutine
B  == INSTANCE Balancer WITH Picker <- Goroutine
D  == INSTANCE Dialer WITH Caller <- Goroutine

breakerVars  == <<breaker, token>>
balancerVars == <<balancer, next, inflight, scan, held, quiet>>
dialerVars   == <<direct, instances, conns, opened, dial>>
fixed        == <<guarded, fragile>>
route        == <<dialerVars, fixed>>
vars         == <<breakerVars, balancerVars, route, req>>

-----------------------------------------------------------------------------
(* Error classification and the retry policy. *)

Code == {"INVALID_ARGUMENT", "UNAUTHENTICATED", "PERMISSION_DENIED", "NOT_FOUND",
         "CONFLICT", "RATE_LIMITED", "UNAVAILABLE", "DEADLINE_EXCEEDED",
         "FAILED_PRECONDITION", "INTERNAL"}

\* The statuses that have a framework code; every other one is INTERNAL.
FromGRPCError(status) ==
    CASE status = "InvalidArgument"    -> "INVALID_ARGUMENT"
      [] status = "Unauthenticated"    -> "UNAUTHENTICATED"
      [] status = "PermissionDenied"   -> "PERMISSION_DENIED"
      [] status = "NotFound"           -> "NOT_FOUND"
      [] status = "AlreadyExists"      -> "CONFLICT"
      [] status = "ResourceExhausted"  -> "RATE_LIMITED"
      [] status = "Unavailable"        -> "UNAVAILABLE"
      [] status = "DeadlineExceeded"   -> "DEADLINE_EXCEEDED"
      [] status = "FailedPrecondition" -> "FAILED_PRECONDITION"
      [] OTHER                         -> "INTERNAL"

errorCode(err) == IF err \in Code THEN err ELSE FromGRPCError(err)

\* Fault: every error counts against the service.
isBreakerFailureAnyError(err) == err # "nil"

isBreakerFailure(err) ==
    err # "nil" /\ errorCode(err) \in {"UNAVAILABLE", "DEADLINE_EXCEEDED", "INTERNAL"}

\* buildRetryPolicy.  Without a policy invokeWithRetry makes one attempt.
maxAttempts == IF CfgMaxAttempts <= 1 THEN 1 ELSE CfgMaxAttempts
retryOn     == IF CfgRetryOn = {} THEN {"UNAVAILABLE", "DEADLINE_EXCEEDED"} ELSE CfgRetryOn \ {""}

retryable(err) == err # "nil" /\ errorCode(err) \in retryOn

-----------------------------------------------------------------------------
(* Where a goroutine is:                                                   *)
(*   idle     no request                                                   *)
(*   attempt  invokeOnce has begun, no connection yet                      *)
(*   call     in the invoker, on a connection                              *)
(*   backoff  waiting between two attempts                                 *)
(*   return   invokeWithRetry has returned err                             *)

Request == [pc : {"idle", "attempt", "call", "backoff", "return"},
            attempt : 0 .. maxAttempts - 1, \* attempts made before this one
            err : Outcome \cup Code \cup {"nil"},
            expired : BOOLEAN]              \* the request context is done

NoRequest == [pc |-> "idle", attempt |-> 0, err |-> "nil", expired |-> FALSE]

Init ==
    /\ CB!Init
    /\ B!Init
    /\ D!Init
    /\ guarded \in WithBreaker /\ fragile \in CanPanic
    /\ req = [g \in Goroutine |-> NoRequest]

Unpicked    == UNCHANGED balancerVars
Unconsulted == UNCHANGED breakerVars

\* Invoke up to the first attempt; a rejected request is answered UNAVAILABLE.
Invoke(g) ==
    /\ req[g].pc = "idle"
    /\ \/ ~ guarded /\ Unconsulted
       \/ guarded /\ CB!BeforeRequest(g)
    /\ req' = IF guarded /\ token'[g] = CB!NoToken
              THEN req
              ELSE [req EXCEPT ![g] = [NoRequest EXCEPT !.pc = "attempt"]]
    /\ UNCHANGED route /\ Unpicked

\* pickConn: the balancer if there are several connections, the only one, or nil.
PickConn(g) ==
    /\ req[g].pc = "attempt"
    /\ PoolSize > 0
    /\ IF PoolSize > 1 THEN B!Pick(g) ELSE Unpicked
    /\ req' = IF PoolSize > 1 /\ held'[g] = B!NoConn
              THEN req
              ELSE [req EXCEPT ![g].pc = "call"]
    /\ UNCHANGED route /\ Unconsulted

\* Fault: attempts are not counted.
NextTurnUncounted(r, err) ==
    [r EXCEPT !.err = err, !.pc = IF retryable(err) THEN "attempt" ELSE "return"]

\* The end of one turn of invokeWithRetry's loop, with the attempt's error: r is
\* the goroutine's request once the deferred release has run.
NextTurn(r, err) ==
    LET again == retryable(err) /\ r.attempt + 1 < maxAttempts
    IN  [r EXCEPT !.err = err,
                  !.attempt = IF again THEN @ + 1 ELSE @,
                  !.pc = IF ~ again THEN "return"
                         ELSE IF CfgBackoff > 0 THEN "backoff" ELSE "attempt"]

\* With no pool, invokeOnce dials, in the several steps of DialService; a dial that
\* fails ends the attempt.
Dial(g) ==
    /\ req[g].pc = "attempt"
    /\ PoolSize = 0
    /\ D!Dialing(g)
    /\ req' = CASE dial'[g].pc = "done"   -> [req EXCEPT ![g].pc = "call"]
                [] dial'[g].pc = "failed" -> [req EXCEPT ![g] = NextTurn(@, "UNAVAILABLE")]
                [] OTHER                  -> req
    /\ UNCHANGED fixed /\ Unpicked /\ Unconsulted

\* Fault: the connection is not given back.
ReleaseConnNever(g) == Unpicked

\* The deferred release of invokeOnce.
ReleaseConn(g) == IF PoolSize > 1 THEN B!Release(g) ELSE Unpicked

\* claims.outgoing rejects the request, or the invoker returns.
EndAttempt(g, err) ==
    /\ req[g].pc = "call"
    /\ ReleaseConn(g)
    /\ req' = [req EXCEPT ![g] = NextTurn(@, err)]
    /\ UNCHANGED route /\ Unconsulted

\* The select between time.After(backoff) and ctx.Done: either, if both are ready.
Backoff(g) ==
    /\ req[g].pc = "backoff"
    /\ \/ req' = [req EXCEPT ![g].pc = "attempt"]
       \/ /\ req[g].expired
          /\ req' = [req EXCEPT ![g].pc = "return", ![g].err = "DEADLINE_EXCEEDED"]
    /\ UNCHANGED route /\ Unpicked /\ Unconsulted

\* Fault: only failures are reported to the breaker.
ReturnFailuresOnly(g) ==
    /\ req[g].pc = "return"
    /\ IF guarded /\ isBreakerFailure(req[g].err) THEN CB!AfterRequest(g, FALSE) ELSE Unconsulted
    /\ req' = [req EXCEPT ![g] = NoRequest]
    /\ UNCHANGED route /\ Unpicked

\* Invoke after invokeWithRetry: the breaker hears of the final error only.
Return(g) ==
    /\ req[g].pc = "return"
    /\ IF guarded THEN CB!AfterRequest(g, ~ isBreakerFailure(req[g].err)) ELSE Unconsulted
    /\ req' = [req EXCEPT ![g] = NoRequest]
    /\ UNCHANGED route /\ Unpicked

\* The invoker panics.  Deferred calls run, so the connection is released, but
\* afterRequest is not deferred; the recovery plugin answers INTERNAL.
Panic(g) ==
    /\ fragile
    /\ req[g].pc = "call"
    /\ ReleaseConn(g)
    /\ token' = [token EXCEPT ![g] = CB!NoToken]
    /\ req' = [req EXCEPT ![g] = NoRequest]
    /\ UNCHANGED <<breaker, route>>

\* The deadline of Gateway.Handle's context passes.
Expire(g) ==
    /\ HasDeadline
    /\ req[g].pc # "idle" /\ ~ req[g].expired
    /\ req' = [req EXCEPT ![g].expired = TRUE]
    /\ UNCHANGED route /\ Unpicked /\ Unconsulted

Tick == CB!Tick /\ UNCHANGED <<route, req>> /\ Unpicked

\* Instances of the service come and go.
Discovery ==
    /\ PoolSize = 0
    /\ D!Discovery
    /\ UNCHANGED <<fixed, req>> /\ Unpicked /\ Unconsulted

Progress(g) ==
    PickConn(g) \/ Dial(g) \/ (\E err \in Outcome : EndAttempt(g, err)) \/ Backoff(g) \/ Return(g)

Next ==
    \/ Tick
    \/ Discovery
    \/ \E g \in Goroutine : Invoke(g) \/ Progress(g) \/ Panic(g) \/ Expire(g)

Spec == Init /\ [][Next]_vars

\* Goroutines are scheduled, every attempt ends (attemptTimeout bounds it), time
\* passes, and requests keep arriving.
Fairness ==
    /\ WF_vars(Tick)
    /\ WF_vars(\E g \in Goroutine : Invoke(g))
    /\ \A g \in Goroutine : WF_vars(Progress(g))

FairSpec == Spec /\ Fairness

-----------------------------------------------------------------------------
(* Properties. *)

TypeOK ==
    /\ CB!TypeOK /\ B!TypeOK /\ D!TypeOK
    /\ {guarded, fragile} \subseteq BOOLEAN
    /\ req \in [Goroutine -> Request]

\* However many attempts a request makes, the breaker counts it once: its token
\* is out exactly while the request is, and every request of the generation is
\* either still running or has had one outcome counted, as long as no invoker
\* panics.
OneOutcomePerRequest ==
    (guarded /\ ~ fragile) =>
               /\ \A g \in Goroutine : token[g] # CB!NoToken <=> req[g].pc # "idle"
               /\ CB!CallsAccounted

\* Every exit of an attempt, by success, error or panic, gives the connection
\* back: the balancer's counters are the requests that are in the invoker now.
ConnectionsReturned ==
    PoolSize > 1 =>
        /\ \A g \in Goroutine : held[g] # B!NoConn <=> req[g].pc = "call"
        /\ balancer = B!lbLeastConn =>
               \A i \in B!Conn :
                   inflight[i] = Cardinality({g \in Goroutine : held[g] = i})

\* Only a request that is answered with a server-side or transport error opens the
\* breaker or counts as a failure; a retried error that a later attempt made good
\* does not.
OnlyServerFailuresCount ==
    [][(breaker'.phase = "open" /\ breaker.phase # "open")
          \/ breaker'.failures > breaker.failures
       => \E g \in Goroutine :
              /\ req[g].pc = "return" /\ req'[g].pc = "idle"
              /\ errorCode(req[g].err) \in {"UNAVAILABLE", "DEADLINE_EXCEEDED", "INTERNAL"}
              /\ req[g].err # "nil"]_vars

\* Two requests that dial the same instance at once make at most one connection
\* each, and requests that come later, retries included, none.
DialsBounded == D!DialsBounded

\* Every request is answered: the retry loop ends and nobody waits for anybody.
EveryRequestAnswered ==
    \A g \in Goroutine : req[g].pc # "idle" ~> req[g].pc = "idle"

\* What beforeRequest's comment says: a half-open breaker rejects because its probe
\* budget is in flight.  Stated for a budget of one call.
RejectsForProbesInFlight ==
    (guarded /\ CB!halfOpenMaxCalls = 1 /\ breaker.phase = "half-open" /\ CB!Rejects(breaker))
        => CB!InFlight # {}
=============================================================================
