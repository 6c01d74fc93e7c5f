--------------------------- MODULE CircuitBreaker ---------------------------
(***************************************************************************)
(* The per-route circuit breaker of the gateway                            *)
(* (transport/gateway/circuitbreaker.go) under concurrent callers.         *)
(*                                                                         *)
(* Every method runs under the breaker's mutex, so each one is a function  *)
(* from the breaker struct to the breaker struct, and a call is two steps  *)
(* of its goroutine: BeforeRequest takes a generation token, AfterRequest  *)
(* hands it back with the outcome.  Anything may happen in between.        *)
(*                                                                         *)
(* The struct's expiry is an instant that is only ever compared with the   *)
(* clock, so the model keeps the time left until it: 0 once it has passed, *)
(* NoExpiry for the zero time.Time.                                        *)
(***************************************************************************)
EXTENDS Integers, FiniteSets

CONSTANTS
    Caller,                      \* request goroutines of one route
    CfgMinRequests,              \* the fields of config.CircuitBreakerConfig;
    CfgRatioNum, CfgRatioDen,    \*   the failure ratio is the fraction Num / Den
    CfgWindow, CfgOpenTimeout, CfgHalfOpenMaxCalls,
    MaxRequests,                 \* bound: calls counted in one generation
    MaxGeneration                \* bound: no call is started after this generation

ASSUME BreakerAssumption ==
    /\ IsFiniteSet(Caller)
    /\ {CfgMinRequests, CfgRatioNum, CfgWindow, CfgOpenTimeout, CfgHalfOpenMaxCalls} \subseteq Int
    /\ CfgRatioDen \in Nat \ {0}
    /\ MaxRequests \in Nat /\ MaxGeneration \in Nat

\* newCircuitBreaker: a value that is not positive is replaced by its default.
OrDefault(value, default) == IF value <= 0 THEN default ELSE value

minRequests      == OrDefault(CfgMinRequests, 20)
ratioNum         == OrDefault(CfgRatioNum, 1)
ratioDen         == IF CfgRatioNum <= 0 THEN 2 ELSE CfgRatioDen
window           == OrDefault(CfgWindow, 10)
openTimeout      == OrDefault(CfgOpenTimeout, 5)
halfOpenMaxCalls == OrDefault(CfgHalfOpenMaxCalls, 1)

stateClosed   == "closed"
stateHalfOpen == "half-open"
stateOpen     == "open"

NoExpiry == -1
NoToken  == -1

VARIABLES
    breaker,   \* the circuitBreaker struct
    token      \* token[c]: the generation c's call was admitted in, or NoToken

vars == <<breaker, token>>

Breaker == [phase : {stateClosed, stateHalfOpen, stateOpen},
            generation : Nat,
            requests : Nat, successes : Nat, failures : Nat,   \* breakerCounts
            expiry : Nat \cup {NoExpiry}]

-----------------------------------------------------------------------------
(* The methods that require the lock, as functions of the struct. *)

toNewGeneration(b) ==
    [phase |-> b.phase,
     generation |-> b.generation + 1,
     requests |-> 0, successes |-> 0, failures |-> 0,
     expiry |-> CASE b.phase = stateClosed -> window
                  [] b.phase = stateOpen   -> openTimeout
                  [] OTHER                 -> NoExpiry]

setState(b, phase) ==
    IF b.phase = phase THEN b ELSE toNewGeneration([b EXCEPT !.phase = phase])

readyToTrip(b) ==
    /\ b.requests >= minRequests
    /\ b.failures * ratioDen >= ratioNum * b.requests

\* Fault: the open timeout closes the breaker without a trial call.
currentStateSkippingProbes(b) ==
    CASE b.phase = stateClosed /\ b.expiry = NoExpiry -> [b EXCEPT !.expiry = window]
      [] b.phase = stateClosed /\ b.expiry = 0        -> toNewGeneration(b)
      [] b.phase = stateOpen /\ b.expiry = 0          -> setState(b, stateClosed)
      [] OTHER                                        -> b

\* The pending time-driven transition, applied by every operation first.
currentState(b) ==
    CASE b.phase = stateClosed /\ b.expiry = NoExpiry -> [b EXCEPT !.expiry = window]
      [] b.phase = stateClosed /\ b.expiry = 0        -> toNewGeneration(b)
      [] b.phase = stateOpen /\ b.expiry = 0          -> setState(b, stateHalfOpen)
      [] OTHER                                        -> b

\* Fault: one success too many is needed to close a half-open breaker.
onSuccessOffByOne(b) ==
    LET counted == [b EXCEPT !.successes = @ + 1]
    IN  IF b.phase = stateHalfOpen /\ counted.successes > halfOpenMaxCalls
        THEN setState(counted, stateClosed)
        ELSE counted

onSuccess(b) ==
    LET counted == [b EXCEPT !.successes = @ + 1]
    IN  IF b.phase = stateHalfOpen /\ counted.successes >= halfOpenMaxCalls
        THEN setState(counted, stateClosed)
        ELSE counted

onFailure(b) ==
    LET counted == [b EXCEPT !.failures = @ + 1]
    IN  CASE b.phase = stateClosed   -> IF readyToTrip(counted)
                                        THEN setState(counted, stateOpen)
                                        ELSE counted
          [] b.phase = stateHalfOpen -> setState(b, stateOpen)
          [] b.phase = stateOpen     -> b

\* Fault: the probe budget is exceeded by one.
RejectsOffByOne(b) ==
    \/ b.phase = stateOpen
    \/ b.phase = stateHalfOpen /\ b.requests > halfOpenMaxCalls

\* beforeRequest's verdict on the state that currentState returned.
Rejects(b) ==
    \/ b.phase = stateOpen
    \/ b.phase = stateHalfOpen /\ b.requests >= halfOpenMaxCalls

\* Fault: an outcome from an earlier generation is counted.
afterRequestAnyGeneration(b, gen, success) ==
    LET cur == currentState(b)
    IN  IF success THEN onSuccess(cur) ELSE onFailure(cur)

afterRequest(b, gen, success) ==
    LET cur == currentState(b)
    IN  IF cur.generation # gen THEN cur
        ELSE IF success THEN onSuccess(cur) ELSE onFailure(cur)

-----------------------------------------------------------------------------
(* The operations. *)

Init ==
    /\ breaker = [phase |-> stateClosed, generation |-> 0,
                  requests |-> 0, successes |-> 0, failures |-> 0,
                  expiry |-> NoExpiry]
    /\ token = [c \in Caller |-> NoToken]

\* beforeRequest of a goroutine with no call in flight.
BeforeRequest(c) ==
    LET cur == currentState(breaker)
    IN  /\ token[c] = NoToken
        /\ breaker.generation < MaxGeneration
        /\ IF Rejects(cur)
           THEN breaker' = cur /\ UNCHANGED token
           ELSE /\ cur.requests < MaxRequests
                /\ breaker' = [cur EXCEPT !.requests = @ + 1]
                /\ token' = [token EXCEPT ![c] = cur.generation]

\* afterRequest: the call's outcome is known.
AfterRequest(c, success) ==
    /\ token[c] # NoToken
    /\ breaker' = afterRequest(breaker, token[c], success)
    /\ token' = [token EXCEPT ![c] = NoToken]

\* state(), the observer, also applies a pending transition.
State ==
    /\ breaker.generation < MaxGeneration
    /\ breaker' = currentState(breaker)
    /\ UNCHANGED token

\* One unit of time passes.
Tick ==
    /\ breaker' = [breaker EXCEPT !.expiry = IF @ > 0 THEN @ - 1 ELSE @]
    /\ UNCHANGED token

Next ==
    \/ Tick
    \/ State
    \/ \E c \in Caller : BeforeRequest(c)
    \/ \E c \in Caller, success \in BOOLEAN : AfterRequest(c, success)

Spec == Init /\ [][Next]_vars

\* Time passes, every admitted call ends (each attempt has a deadline), and
\* requests keep arriving.
Fairness ==
    /\ WF_vars(Tick)
    /\ WF_vars(\E c \in Caller : BeforeRequest(c))
    /\ \A c \in Caller : WF_vars(\E success \in BOOLEAN : AfterRequest(c, success))

FairSpec == Spec /\ Fairness

-----------------------------------------------------------------------------
(* Properties. *)

TypeOK ==
    /\ breaker \in Breaker
    /\ token \in [Caller -> Nat \cup {NoToken}]

\* The calls whose outcome the breaker will still take into account.
Holders(b, t) == {c \in Caller : t[c] = b.generation}

InFlight == Holders(breaker, token)

\* Every call counted in the current generation is in flight or has had its
\* outcome counted, exactly once, whatever windows and trips its goroutine has
\* slept through: beforeRequest's requests++ and afterRequest's successes++ or
\* failures++ balance, so the trip ratio is over calls of this generation only.
CallsAccounted ==
    breaker.requests = Cardinality(InFlight) + breaker.successes + breaker.failures

\* A half-open breaker never has more trial calls in flight than it still needs
\* successes (half_open_max_calls), and an open one takes no outcome at all into
\* account, although calls admitted before the trip are still running.
ProbeLimit ==
    /\ breaker.phase = stateHalfOpen =>
           Cardinality(InFlight) + breaker.successes <= halfOpenMaxCalls
    /\ breaker.phase = stateOpen => InFlight = {}

\* What makes the two invariants above inductive, for a breaker b and tokens t:
\* no token is from the future, the counts balance, and the counts of a phase
\* are the ones its transitions leave possible.
Balanced(b, t) ==
    /\ b \in Breaker
    /\ t \in [Caller -> Nat \cup {NoToken}]
    /\ \A c \in Caller : t[c] <= b.generation
    /\ b.requests = Cardinality(Holders(b, t)) + b.successes + b.failures
    /\ b.phase = stateOpen => b.requests = 0
    /\ b.phase = stateHalfOpen =>
           b.failures = 0 /\ b.requests <= halfOpenMaxCalls /\ b.successes < halfOpenMaxCalls

\* The inductive invariant: the breaker is balanced after every operation.
AlwaysBalanced == Balanced(breaker, token)

\* The generation counter implements the contract: forgetting the calls in
\* flight at each transition is what comparing tokens achieves.
Contract == INSTANCE BreakerContract WITH
    ProbeBudget <- halfOpenMaxCalls,
    mode        <- breaker.phase,
    live        <- InFlight,
    passed      <- IF breaker.phase = stateHalfOpen THEN breaker.successes ELSE 0

ImplementsContract == Contract!Spec

\* An open or half-open breaker never gets stuck: its generation ends, by the
\* open timeout or by the outcome of a trial call, as long as requests arrive.
NeverStuck ==
    \A g \in 0 .. MaxGeneration - 1 :
        (breaker.generation = g /\ breaker.phase # stateClosed)
            ~> (breaker.generation # g)
=============================================================================
