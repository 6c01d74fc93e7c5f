------------------------ MODULE CircuitBreakerProofs ------------------------
(***************************************************************************)
(* TLAPS proofs about CircuitBreaker, for every set of callers, every      *)
(* configuration and every bound.                                          *)
(***************************************************************************)
EXTENDS CircuitBreaker, FiniteSetTheorems, TLAPS

\* newCircuitBreaker leaves no knob at zero or below, whatever the configuration.
LEMMA ConfigPositive ==
    {minRequests, window, openTimeout, halfOpenMaxCalls} \subseteq Nat \ {0}
BY BreakerAssumption DEF minRequests, window, openTimeout, halfOpenMaxCalls, OrDefault

\* toNewGeneration keeps the phase, bumps the generation and clears the counts.
LEMMA NewGeneration ==
    ASSUME NEW b \in Breaker
    PROVE  LET n == toNewGeneration(b) IN
           /\ n \in Breaker
           /\ n.phase = b.phase /\ n.generation = b.generation + 1
           /\ n.requests = 0 /\ n.successes = 0 /\ n.failures = 0
<1> DEFINE armed == CASE b.phase = stateClosed -> window
                     [] b.phase = stateOpen   -> openTimeout
                     [] OTHER                 -> NoExpiry
<1>1. armed \in Nat \cup {NoExpiry}
  BY ConfigPositive DEF stateClosed, stateOpen
<1>2. toNewGeneration(b) =
        [phase |-> b.phase, generation |-> b.generation + 1,
         requests |-> 0, successes |-> 0, failures |-> 0, expiry |-> armed]
  BY DEF toNewGeneration
<1> HIDE DEF armed
<1> QED BY <1>1, <1>2 DEF Breaker

\* setState to another phase starts that phase's first generation.
LEMMA SetState ==
    ASSUME NEW b \in Breaker, NEW p \in {stateClosed, stateHalfOpen, stateOpen}, b.phase # p
    PROVE  LET n == setState(b, p) IN
           /\ n \in Breaker
           /\ n.phase = p /\ n.generation = b.generation + 1
           /\ n.requests = 0 /\ n.successes = 0 /\ n.failures = 0
<1> DEFINE m == [b EXCEPT !.phase = p]
<1>1. m \in Breaker /\ m.phase = p /\ m.generation = b.generation
  BY DEF Breaker
<1>2. setState(b, p) = toNewGeneration(m)
  BY DEF setState
<1> HIDE DEF m
<1> QED BY <1>1, <1>2, NewGeneration

\* currentState changes nothing but the expiry, or starts a new generation: a
\* new window of a closed breaker, or an open breaker turned half-open.
LEMMA CurrentState ==
    ASSUME NEW b \in Breaker
    PROVE  LET n == currentState(b) IN
           /\ n \in Breaker
           /\ \/ /\ n.phase = b.phase /\ n.generation = b.generation
                 /\ n.requests = b.requests /\ n.successes = b.successes
                 /\ n.failures = b.failures
              \/ /\ n.generation = b.generation + 1
                 /\ n.requests = 0 /\ n.successes = 0 /\ n.failures = 0
                 /\ \/ b.phase = stateClosed /\ n.phase = stateClosed
                    \/ b.phase = stateOpen /\ n.phase = stateHalfOpen
<1>1. CASE b.phase = stateClosed /\ b.expiry = NoExpiry
  BY <1>1, ConfigPositive DEF currentState, Breaker, NoExpiry
<1>2. CASE b.phase = stateClosed /\ b.expiry = 0
  <2>1. currentState(b) = toNewGeneration(b)
    BY <1>2 DEF currentState, NoExpiry, stateClosed, stateOpen
  <2> QED BY <2>1, <1>2, NewGeneration
<1>3. CASE b.phase = stateOpen /\ b.expiry = 0
  <2>1. currentState(b) = setState(b, stateHalfOpen)
    BY <1>3 DEF currentState, NoExpiry, stateClosed, stateOpen
  <2>2. b.phase # stateHalfOpen
    BY <1>3 DEF stateOpen, stateHalfOpen
  <2> QED BY <2>1, <2>2, <1>3, SetState
<1>4. CASE ~(b.phase = stateClosed /\ b.expiry \in {0, NoExpiry})
           /\ ~(b.phase = stateOpen /\ b.expiry = 0)
  <2>1. currentState(b) = b
    BY <1>4 DEF currentState
  <2> QED BY <2>1
<1> QED BY <1>1, <1>2, <1>3, <1>4

-----------------------------------------------------------------------------
(* Cardinalities of the set of calls that hold the current generation. *)

\* Callers are finitely many, and so are the holders of a generation.
LEMMA HoldersFinite ==
    ASSUME NEW b, NEW t
    PROVE  /\ IsFiniteSet(Holders(b, t))
           /\ Cardinality(Holders(b, t)) \in Nat
           /\ Holders(b, t) = {} <=> Cardinality(Holders(b, t)) = 0
<1>1. Holders(b, t) \subseteq Caller
  BY DEF Holders
<1>2. IsFiniteSet(Holders(b, t))
  BY <1>1, BreakerAssumption, FS_Subset
<1> QED BY <1>2, FS_CardinalityType, FS_EmptySet

\* A new generation has no holders.
LEMMA NoHolders ==
    ASSUME NEW b \in Breaker, NEW t \in [Caller -> Nat \cup {NoToken}],
           \A c \in Caller : t[c] < b.generation
    PROVE  Holders(b, t) = {} /\ Cardinality(Holders(b, t)) = 0
<1>1. Holders(b, t) = {}
  BY DEF Holders, Breaker, NoToken
<1> QED BY <1>1, FS_EmptySet

\* The tokens once c has been given the token of b's generation.
Take(b, t, c) == [t EXCEPT ![c] = b.generation]

\* An admitted call becomes a holder of the current generation.
LEMMA HolderAdded ==
    ASSUME NEW b \in Breaker, NEW t \in [Caller -> Nat \cup {NoToken}], NEW c \in Caller,
           t[c] = NoToken
    PROVE  /\ Take(b, t, c) \in [Caller -> Nat \cup {NoToken}]
           /\ Holders(b, Take(b, t, c)) = Holders(b, t) \cup {c}
           /\ Cardinality(Holders(b, Take(b, t, c))) = Cardinality(Holders(b, t)) + 1
<1>1. b.generation \in Nat
  BY DEF Breaker
<1>2. Holders(b, Take(b, t, c)) = Holders(b, t) \cup {c} /\ c \notin Holders(b, t)
  BY <1>1 DEF Holders, Take, NoToken
<1>3. Cardinality(Holders(b, t) \cup {c}) = Cardinality(Holders(b, t)) + 1
  BY <1>2, HoldersFinite, FS_AddElement
<1>4. Take(b, t, c) \in [Caller -> Nat \cup {NoToken}]
  BY <1>1 DEF Take
<1> QED BY <1>2, <1>3, <1>4

\* The tokens once c has handed its token in.
Drop(t, c) == [t EXCEPT ![c] = NoToken]

\* A call whose outcome is handed in stops being a holder, if it was one.
LEMMA HolderRemoved ==
    ASSUME NEW b \in Breaker, NEW t \in [Caller -> Nat \cup {NoToken}], NEW c \in Caller
    PROVE  /\ Drop(t, c) \in [Caller -> Nat \cup {NoToken}]
           /\ Holders(b, Drop(t, c)) = Holders(b, t) \ {c}
<1>1. b.generation \in Nat
  BY DEF Breaker
<1> QED BY <1>1 DEF Drop, Holders, NoToken

\* There is one holder fewer once a holder is removed.
LEMMA HolderRemovedCardinality ==
    ASSUME NEW b \in Breaker, NEW t, NEW c \in Caller, t[c] = b.generation
    PROVE  Cardinality(Holders(b, t) \ {c}) = Cardinality(Holders(b, t)) - 1
<1>1. c \in Holders(b, t)
  BY DEF Holders
<1> QED BY <1>1, HoldersFinite, FS_RemoveElement

-----------------------------------------------------------------------------
(* Each part of an operation keeps the breaker balanced. *)

\* A breaker that just started a generation no call has a token of is balanced.
LEMMA FreshBalanced ==
    ASSUME NEW b \in Breaker, NEW t \in [Caller -> Nat \cup {NoToken}],
           \A c \in Caller : t[c] < b.generation,
           b.requests = 0, b.successes = 0, b.failures = 0
    PROVE  Balanced(b, t)
<1>1. b.generation \in Nat /\ \A c \in Caller : t[c] <= b.generation
  BY DEF Breaker, NoToken
<1> QED BY <1>1, NoHolders, ConfigPositive DEF Balanced

\* Balance does not depend on the expiry.
LEMMA ExpiryIrrelevant ==
    ASSUME NEW b, NEW t, Balanced(b, t), NEW n \in Breaker,
           n.phase = b.phase, n.generation = b.generation,
           n.requests = b.requests, n.successes = b.successes, n.failures = b.failures
    PROVE  Balanced(n, t) /\ Holders(n, t) = Holders(b, t)
<1>1. Holders(n, t) = Holders(b, t)
  BY DEF Holders
<1> QED BY <1>1 DEF Balanced

\* The lazy time-driven transition keeps the breaker balanced.
LEMMA CurrentBalanced ==
    ASSUME NEW b, NEW t, Balanced(b, t)
    PROVE  Balanced(currentState(b), t)
<1>0. b \in Breaker /\ t \in [Caller -> Nat \cup {NoToken}] /\ b.generation \in Nat
  BY DEF Balanced, Breaker
<1>1. PICK n \in Breaker : n = currentState(b)
  BY <1>0, CurrentState
<1>2. CASE n.generation = b.generation
  BY <1>0, <1>1, <1>2, CurrentState, ExpiryIrrelevant
<1>3. CASE n.generation # b.generation
  <2>1. /\ n.generation = b.generation + 1
        /\ n.requests = 0 /\ n.successes = 0 /\ n.failures = 0
    BY <1>0, <1>1, <1>3, CurrentState
  <2>2. \A c \in Caller : t[c] < n.generation
    BY <1>0, <2>1 DEF Balanced, NoToken
  <2> QED BY <2>1, <2>2, <1>0, <1>1, FreshBalanced
<1> QED BY <1>2, <1>3

\* Admitting a call that beforeRequest does not reject keeps it balanced.
LEMMA AdmitBalanced ==
    ASSUME NEW b, NEW t, NEW c \in Caller,
           Balanced(b, t), t[c] = NoToken, ~ Rejects(b)
    PROVE  Balanced([b EXCEPT !.requests = @ + 1], Take(b, t, c))
<1> DEFINE n == [b EXCEPT !.requests = @ + 1]
           u == Take(b, t, c)
<1>0. b \in Breaker /\ t \in [Caller -> Nat \cup {NoToken}]
  BY DEF Balanced
<1>1. /\ n \in Breaker /\ n.phase = b.phase /\ n.generation = b.generation
      /\ n.requests = b.requests + 1
      /\ n.successes = b.successes /\ n.failures = b.failures
  BY <1>0 DEF Breaker
<1>2. Holders(n, u) = Holders(b, u)
  BY <1>1 DEF Holders
<1>3. /\ u \in [Caller -> Nat \cup {NoToken}]
      /\ Cardinality(Holders(b, u)) = Cardinality(Holders(b, t)) + 1
  BY <1>0, HolderAdded
<1>4. \A d \in Caller : u[d] <= b.generation
  BY <1>0 DEF Balanced, Breaker, NoToken, Take
<1>5. /\ n.phase # stateOpen
      /\ n.phase = stateHalfOpen => b.requests < halfOpenMaxCalls
  <2>1. b.requests \in Nat
    BY <1>0 DEF Breaker
  <2> QED BY <2>1, <1>1, ConfigPositive DEF Rejects
<1>6. /\ {b.requests, b.successes, b.failures, halfOpenMaxCalls} \subseteq Nat
      /\ Cardinality(Holders(b, t)) \in Nat
  BY <1>0, HoldersFinite, ConfigPositive DEF Breaker
<1> HIDE DEF n, u
<1>7. Balanced(n, u)
  BY <1>1, <1>2, <1>3, <1>4, <1>5, <1>6 DEF Balanced
<1> QED BY <1>7 DEF n, u

\* A call with the current token is one the breaker counted: it is not open, and
\* one more outcome still fits the counts.
LEMMA HolderCounted ==
    ASSUME NEW b, NEW t, NEW c \in Caller, Balanced(b, t), t[c] = b.generation
    PROVE  b.phase # stateOpen /\ b.successes + b.failures + 1 <= b.requests
<1>1. b \in Breaker
  BY DEF Balanced
<1>2. Holders(b, t) # {}
  BY DEF Holders
<1>3. Cardinality(Holders(b, t)) \in Nat /\ Cardinality(Holders(b, t)) # 0
  BY <1>2, HoldersFinite
<1>4. {b.requests, b.successes, b.failures} \subseteq Nat
  BY <1>1 DEF Breaker
<1> QED BY <1>3, <1>4 DEF Balanced

\* A new generation n forgets every token, the one handed in included.
LEMMA ForgetBalanced ==
    ASSUME NEW b, NEW t, NEW c \in Caller, Balanced(b, t),
           NEW n \in Breaker, n.generation = b.generation + 1,
           n.requests = 0, n.successes = 0, n.failures = 0
    PROVE  Balanced(n, Drop(t, c)) /\ Holders(n, Drop(t, c)) = {}
<1>0. b \in Breaker /\ t \in [Caller -> Nat \cup {NoToken}] /\ b.generation \in Nat
  BY DEF Balanced, Breaker
<1>1. Drop(t, c) \in [Caller -> Nat \cup {NoToken}]
  BY <1>0, HolderRemoved
<1>2. \A d \in Caller : Drop(t, c)[d] < n.generation
  BY <1>0 DEF Balanced, NoToken, Drop
<1> QED BY <1>1, <1>2, FreshBalanced, NoHolders

\* Counting the outcome of a current call, in n, within the same generation.
LEMMA OutcomeBalanced ==
    ASSUME NEW b, NEW t, NEW c \in Caller, Balanced(b, t), t[c] = b.generation,
           NEW n \in Breaker,
           n.phase = b.phase, n.generation = b.generation, n.requests = b.requests,
           \/ n.successes = b.successes + 1 /\ n.failures = b.failures
           \/ n.successes = b.successes /\ n.failures = b.failures + 1,
           n.phase = stateHalfOpen => n.failures = 0 /\ n.successes < halfOpenMaxCalls
    PROVE  Balanced(n, Drop(t, c)) /\ Holders(n, Drop(t, c)) = Holders(b, t) \ {c}
<1>0. b \in Breaker /\ t \in [Caller -> Nat \cup {NoToken}] /\ b.generation \in Nat
  BY DEF Balanced, Breaker
<1>1. /\ Drop(t, c) \in [Caller -> Nat \cup {NoToken}]
      /\ Holders(b, Drop(t, c)) = Holders(b, t) \ {c}
  BY <1>0, HolderRemoved
<1>2. Holders(n, Drop(t, c)) = Holders(b, Drop(t, c))
  BY DEF Holders
<1>3. /\ {b.requests, b.successes, b.failures, n.successes, n.failures} \subseteq Nat
      /\ Cardinality(Holders(b, t)) \in Nat
  BY <1>0, HoldersFinite DEF Breaker
<1>4. \A d \in Caller : Drop(t, c)[d] <= n.generation
  BY <1>0 DEF Balanced, NoToken, Drop
<1>5. n.requests = Cardinality(Holders(n, Drop(t, c))) + n.successes + n.failures
  <2>1. Cardinality(Holders(n, Drop(t, c))) = Cardinality(Holders(b, t)) - 1
    BY <1>0, <1>1, <1>2, HolderRemovedCardinality
  <2> QED BY <2>1, <1>3 DEF Balanced
<1>6. n.phase # stateOpen
  BY HolderCounted
<1>7. Balanced(n, Drop(t, c))
  BY <1>1, <1>4, <1>5, <1>6 DEF Balanced
<1> QED BY <1>1, <1>2, <1>7

\* A stale token is dropped without a trace.
LEMMA StaleBalanced ==
    ASSUME NEW b, NEW t, NEW c \in Caller, Balanced(b, t), t[c] # b.generation
    PROVE  Balanced(b, Drop(t, c)) /\ Holders(b, Drop(t, c)) = Holders(b, t)
<1>1. b \in Breaker /\ t \in [Caller -> Nat \cup {NoToken}] /\ b.generation \in Nat
  BY DEF Balanced, Breaker
<1>2. Holders(b, t) \ {c} = Holders(b, t)
  BY DEF Holders
<1>3. /\ Drop(t, c) \in [Caller -> Nat \cup {NoToken}]
      /\ Holders(b, Drop(t, c)) = Holders(b, t) \ {c}
  BY <1>1, HolderRemoved
<1>4. Holders(b, Drop(t, c)) = Holders(b, t)
  BY <1>2, <1>3
<1>5. \A d \in Caller : Drop(t, c)[d] <= b.generation
  BY <1>1 DEF Balanced, Drop, NoToken
<1> QED BY <1>3, <1>4, <1>5 DEF Balanced

\* afterRequest's onSuccess for a current call: the outcome is counted, or the
\* last trial call closes the breaker.
LEMMA OnSuccess ==
    ASSUME NEW b, NEW t, NEW c \in Caller, Balanced(b, t), t[c] = b.generation,
           NEW n, n = onSuccess(b)
    PROVE  /\ Balanced(n, Drop(t, c))
           /\ \/ /\ n.phase = b.phase /\ n.successes = b.successes + 1
                 /\ b.phase = stateHalfOpen => b.successes + 1 < halfOpenMaxCalls
                 /\ Holders(n, Drop(t, c)) = Holders(b, t) \ {c}
              \/ /\ b.phase = stateHalfOpen /\ b.successes + 1 >= halfOpenMaxCalls
                 /\ n.phase = stateClosed /\ Holders(n, Drop(t, c)) = {}
<1>0. b \in Breaker
  BY DEF Balanced
<1>1. PICK m : m = [b EXCEPT !.successes = @ + 1]
  OBVIOUS
<1>2. /\ m \in Breaker
      /\ m.phase = b.phase /\ m.generation = b.generation /\ m.requests = b.requests
      /\ m.successes = b.successes + 1 /\ m.failures = b.failures
  BY <1>0, <1>1 DEF Breaker
<1>3. {b.successes, b.failures, m.successes} \subseteq Nat
  BY <1>0, <1>2 DEF Breaker
<1>4. CASE b.phase = stateHalfOpen /\ m.successes >= halfOpenMaxCalls
  <2>1. n = setState(m, stateClosed) /\ m.phase # stateClosed
    BY <1>1, <1>2, <1>4 DEF onSuccess, stateHalfOpen, stateClosed
  <2>2. /\ n \in Breaker /\ n.phase = stateClosed /\ n.generation = b.generation + 1
        /\ n.requests = 0 /\ n.successes = 0 /\ n.failures = 0
    BY <2>1, <1>2, SetState
  <2> QED BY <2>2, <1>2, <1>4, ForgetBalanced
<1>5. CASE ~ (b.phase = stateHalfOpen /\ m.successes >= halfOpenMaxCalls)
  <2>1. n = m
    BY <1>1, <1>5 DEF onSuccess
  <2>2. b.phase = stateHalfOpen => m.failures = 0 /\ m.successes < halfOpenMaxCalls
    BY <1>2, <1>3, <1>5, ConfigPositive DEF Balanced
  <2>3. Balanced(m, Drop(t, c)) /\ Holders(m, Drop(t, c)) = Holders(b, t) \ {c}
    BY <2>2, <1>2, OutcomeBalanced
  <2> QED BY <2>1, <2>2, <2>3, <1>2
<1> QED BY <1>4, <1>5

\* afterRequest's onFailure for a current call: the outcome is counted, or the
\* breaker opens.
LEMMA OnFailure ==
    ASSUME NEW b, NEW t, NEW c \in Caller, Balanced(b, t), t[c] = b.generation,
           NEW n, n = onFailure(b)
    PROVE  /\ Balanced(n, Drop(t, c))
           /\ \/ /\ b.phase = stateClosed /\ n.phase = stateClosed
                 /\ Holders(n, Drop(t, c)) = Holders(b, t) \ {c}
              \/ n.phase = stateOpen /\ Holders(n, Drop(t, c)) = {}
<1>0. b \in Breaker /\ b.phase # stateOpen
  BY HolderCounted DEF Balanced
<1>1. PICK m : m = [b EXCEPT !.failures = @ + 1]
  OBVIOUS
<1>2. /\ m \in Breaker
      /\ m.phase = b.phase /\ m.generation = b.generation /\ m.requests = b.requests
      /\ m.successes = b.successes /\ m.failures = b.failures + 1
  BY <1>0, <1>1 DEF Breaker
<1>3. ASSUME NEW x \in Breaker, x.generation = b.generation, x.phase # stateOpen,
             n = setState(x, stateOpen)
      PROVE  n.phase = stateOpen /\ Balanced(n, Drop(t, c)) /\ Holders(n, Drop(t, c)) = {}
  <2>1. /\ n \in Breaker /\ n.phase = stateOpen /\ n.generation = b.generation + 1
        /\ n.requests = 0 /\ n.successes = 0 /\ n.failures = 0
    BY <1>3, SetState
  <2> QED BY <2>1, ForgetBalanced
<1>4. CASE b.phase = stateHalfOpen
  <2>1. n = setState(b, stateOpen)
    BY <1>4 DEF onFailure, stateClosed, stateHalfOpen, stateOpen
  <2> QED BY <2>1, <1>0, <1>3
<1>5. CASE b.phase = stateClosed /\ readyToTrip(m)
  <2>1. n = setState(m, stateOpen)
    BY <1>1, <1>5 DEF onFailure, stateClosed, stateHalfOpen, stateOpen
  <2> QED BY <2>1, <1>0, <1>2, <1>3
<1>6. CASE b.phase = stateClosed /\ ~ readyToTrip(m)
  <2>1. n = m
    BY <1>1, <1>6 DEF onFailure, stateClosed, stateHalfOpen, stateOpen
  <2>2. m.phase # stateHalfOpen
    BY <1>2, <1>6 DEF stateClosed, stateHalfOpen
  <2>3. Balanced(m, Drop(t, c)) /\ Holders(m, Drop(t, c)) = Holders(b, t) \ {c}
    BY <2>2, <1>2, OutcomeBalanced
  <2> QED BY <2>1, <2>3, <1>2, <1>6
<1> QED BY <1>0, <1>4, <1>5, <1>6 DEF Breaker

-----------------------------------------------------------------------------
(* What holds of a breaker that is not balanced, as when a call never hands its token in. *)

\* A success never opens the breaker and adds no failure.
LEMMA SuccessIsNoFailure ==
    ASSUME NEW b \in Breaker, NEW n, n = onSuccess(b)
    PROVE  n \in Breaker /\ n.failures <= b.failures /\ (n.phase = stateOpen => b.phase = stateOpen)
<1>1. PICK m : m = [b EXCEPT !.successes = @ + 1]
  OBVIOUS
<1>2. m \in Breaker /\ m.phase = b.phase /\ m.failures = b.failures /\ b.failures \in Nat
  BY <1>1 DEF Breaker
<1>3. CASE b.phase = stateHalfOpen /\ m.successes >= halfOpenMaxCalls
  <2>1. n = setState(m, stateClosed) /\ m.phase # stateClosed
    BY <1>1, <1>2, <1>3 DEF onSuccess, stateHalfOpen, stateClosed
  <2>2. n \in Breaker /\ n.phase = stateClosed /\ n.failures = 0
    BY <2>1, <1>2, SetState
  <2> QED BY <1>2, <2>2 DEF stateClosed, stateOpen
<1>4. CASE ~ (b.phase = stateHalfOpen /\ m.successes >= halfOpenMaxCalls)
  <2>1. n = m
    BY <1>1, <1>4 DEF onSuccess
  <2> QED BY <1>2, <2>1
<1> QED BY <1>3, <1>4

LEMMA FailureType ==
    ASSUME NEW b \in Breaker
    PROVE  onFailure(b) \in Breaker
<1>1. PICK m : m = [b EXCEPT !.failures = @ + 1]
  OBVIOUS
<1>2. m \in Breaker /\ m.phase = b.phase
  BY <1>1 DEF Breaker
<1>3. CASE b.phase = stateHalfOpen
  <2>1. onFailure(b) = setState(b, stateOpen) /\ b.phase # stateOpen
    BY <1>3 DEF onFailure, stateClosed, stateHalfOpen, stateOpen
  <2> QED BY <2>1, SetState
<1>4. CASE b.phase = stateClosed
  <2>1. onFailure(b) \in {setState(m, stateOpen), m} /\ m.phase # stateOpen
    BY <1>1, <1>2, <1>4 DEF onFailure, stateClosed, stateHalfOpen, stateOpen
  <2>2. setState(m, stateOpen) \in Breaker
    BY <1>2, <2>1, SetState
  <2> QED BY <1>2, <2>1, <2>2
<1>5. CASE b.phase = stateOpen
  BY <1>5 DEF onFailure, stateClosed, stateHalfOpen, stateOpen
<1> QED BY <1>3, <1>4, <1>5 DEF Breaker

\* Time, a request that comes and a success that is handed in never open the breaker and
\* add no failure.
LEMMA CalmStep ==
    ASSUME TypeOK, Tick \/ State \/ \E c \in Caller : BeforeRequest(c) \/ AfterRequest(c, TRUE)
    PROVE  TypeOK' /\ breaker'.failures <= breaker.failures /\ (breaker'.phase = stateOpen => breaker.phase = stateOpen)
<1>1. breaker \in Breaker /\ token \in [Caller -> Nat \cup {NoToken}] /\ breaker.failures \in Nat
  BY DEF TypeOK, Breaker
<1>2. PICK cur : cur = currentState(breaker)
  OBVIOUS
<1>3. /\ cur \in Breaker /\ cur.failures <= breaker.failures /\ cur.failures \in Nat /\ cur.generation \in Nat
      /\ cur.phase = stateOpen => breaker.phase = stateOpen
  <2>1. cur \in Breaker
    BY <1>1, <1>2, CurrentState
  <2>2. cur.failures \in {breaker.failures, 0}
    BY <1>1, <1>2, CurrentState
  <2>3. cur.phase = stateOpen => breaker.phase = stateOpen
    BY <1>1, <1>2, CurrentState DEF stateOpen, stateClosed, stateHalfOpen
  <2> QED BY <1>1, <2>1, <2>2, <2>3 DEF Breaker
<1>4. CASE Tick
  <2>1. breaker' \in Breaker /\ breaker'.failures = breaker.failures /\ breaker'.phase = breaker.phase
    BY <1>1, <1>4 DEF Tick, Breaker, NoExpiry
  <2>2. token' \in [Caller -> Nat \cup {NoToken}]
    BY <1>1, <1>4 DEF Tick
  <2>3. breaker'.failures <= breaker.failures
    BY <1>1, <2>1
  <2> QED BY <2>1, <2>2, <2>3 DEF TypeOK
<1>5. ASSUME breaker' = cur, token' \in [Caller -> Nat \cup {NoToken}]
      PROVE  TypeOK' /\ breaker'.failures <= breaker.failures /\ (breaker'.phase = stateOpen => breaker.phase = stateOpen)
  BY <1>3, <1>5 DEF TypeOK
<1>6. CASE State
  BY <1>1, <1>2, <1>5, <1>6 DEF State
<1>7. ASSUME NEW c \in Caller, BeforeRequest(c)
      PROVE  TypeOK' /\ breaker'.failures <= breaker.failures /\ (breaker'.phase = stateOpen => breaker.phase = stateOpen)
  <2>1. \/ breaker' = cur /\ token' = token
        \/ breaker' = [cur EXCEPT !.requests = @ + 1] /\ token' = [token EXCEPT ![c] = cur.generation]
    BY <1>2, <1>7 DEF BeforeRequest
  <2>2. CASE breaker' = cur /\ token' = token
    BY <1>1, <1>5, <2>2
  <2>3. CASE breaker' = [cur EXCEPT !.requests = @ + 1] /\ token' = [token EXCEPT ![c] = cur.generation]
    <3>1. breaker' \in Breaker /\ breaker'.failures = cur.failures /\ breaker'.phase = cur.phase
      BY <1>3, <2>3 DEF Breaker
    <3> QED BY <1>1, <1>3, <2>3, <3>1 DEF TypeOK
  <2> QED BY <2>1, <2>2, <2>3
<1>8. ASSUME NEW c \in Caller, AfterRequest(c, TRUE)
      PROVE  TypeOK' /\ breaker'.failures <= breaker.failures /\ (breaker'.phase = stateOpen => breaker.phase = stateOpen)
  <2>1. token' \in [Caller -> Nat \cup {NoToken}]
    BY <1>1, <1>8 DEF AfterRequest
  <2>2. CASE breaker' = cur
    BY <1>5, <2>1, <2>2
  <2>3. CASE breaker' = onSuccess(cur)
    <3>1. /\ breaker' \in Breaker /\ breaker'.failures <= cur.failures
          /\ breaker'.phase = stateOpen => cur.phase = stateOpen
      BY <1>3, <2>3, SuccessIsNoFailure
    <3>2. breaker'.failures \in Nat
      BY <3>1 DEF Breaker
    <3> QED BY <1>1, <1>3, <2>1, <3>1, <3>2 DEF TypeOK
  <2> QED BY <1>2, <1>8, <2>2, <2>3 DEF AfterRequest, afterRequest
<1> QED BY <1>4, <1>6, <1>7, <1>8

\* Every operation keeps the types.
LEMMA StepKeepsType == TypeOK /\ [Next]_vars => TypeOK'
<1> SUFFICES ASSUME TypeOK, [Next]_vars PROVE TypeOK'
  OBVIOUS
<1>1. CASE Tick \/ State \/ \E c \in Caller : BeforeRequest(c) \/ AfterRequest(c, TRUE)
  BY <1>1, CalmStep
<1>2. ASSUME NEW c \in Caller, AfterRequest(c, FALSE) PROVE TypeOK'
  <2>1. PICK cur : cur = currentState(breaker)
    OBVIOUS
  <2>2. cur \in Breaker /\ onFailure(cur) \in Breaker
    BY <2>1, CurrentState, FailureType DEF TypeOK
  <2>3. breaker' \in {cur, onFailure(cur)}
    BY <1>2, <2>1 DEF AfterRequest, afterRequest
  <2>4. token' \in [Caller -> Nat \cup {NoToken}]
    BY <1>2 DEF AfterRequest, TypeOK
  <2> QED BY <2>2, <2>3, <2>4 DEF TypeOK
<1>3. CASE UNCHANGED vars
  BY <1>3 DEF vars, TypeOK
<1> QED BY <1>1, <1>2, <1>3 DEF Next

-----------------------------------------------------------------------------
(* The invariants. *)

\* A new breaker is balanced.
LEMMA InitBalanced == Init => AlwaysBalanced
<1> SUFFICES ASSUME Init PROVE AlwaysBalanced
  OBVIOUS
<1>1. breaker \in Breaker /\ breaker.generation = 0 /\ breaker.phase = stateClosed
      /\ breaker.requests = 0 /\ breaker.successes = 0 /\ breaker.failures = 0
  BY DEF Init, Breaker
<1>2. token \in [Caller -> Nat \cup {NoToken}] /\ \A c \in Caller : token[c] < 0
  BY DEF Init, NoToken
<1> QED BY <1>1, <1>2, FreshBalanced DEF AlwaysBalanced

\* afterRequest, with a current or a stale token, keeps the breaker balanced.
LEMMA AfterRequestBalanced ==
    ASSUME AlwaysBalanced, NEW c \in Caller, NEW success \in BOOLEAN,
           AfterRequest(c, success)
    PROVE  AlwaysBalanced'
<1>1. PICK cur : cur = currentState(breaker)
  OBVIOUS
<1>2. Balanced(cur, token)
  BY <1>1, CurrentBalanced DEF AlwaysBalanced
<1>3. token' = Drop(token, c)
  BY DEF AfterRequest, Drop
<1>4. CASE cur.generation # token[c]
  <2>1. breaker' = cur
    BY <1>1, <1>4 DEF AfterRequest, afterRequest
  <2> QED BY <1>2, <1>3, <1>4, <2>1, StaleBalanced DEF AlwaysBalanced
<1>5. CASE cur.generation = token[c] /\ success
  <2>1. breaker' = onSuccess(cur)
    BY <1>1, <1>5 DEF AfterRequest, afterRequest
  <2> QED BY <1>2, <1>3, <1>5, <2>1, OnSuccess DEF AlwaysBalanced
<1>6. CASE cur.generation = token[c] /\ ~ success
  <2>1. breaker' = onFailure(cur)
    BY <1>1, <1>6 DEF AfterRequest, afterRequest
  <2> QED BY <1>2, <1>3, <1>6, <2>1, OnFailure DEF AlwaysBalanced
<1> QED BY <1>4, <1>5, <1>6

\* Every operation, and the passage of time, keeps the breaker balanced.
LEMMA NextBalanced == AlwaysBalanced /\ [Next]_vars => AlwaysBalanced'
<1> SUFFICES ASSUME AlwaysBalanced, [Next]_vars PROVE AlwaysBalanced'
  OBVIOUS
<1>0. breaker \in Breaker
  BY DEF AlwaysBalanced, Balanced
<1>1. CASE Tick
  <2>1. /\ breaker' \in Breaker /\ breaker'.phase = breaker.phase
        /\ breaker'.generation = breaker.generation
        /\ breaker'.requests = breaker.requests
        /\ breaker'.successes = breaker.successes
        /\ breaker'.failures = breaker.failures
    BY <1>0, <1>1 DEF Tick, Breaker, NoExpiry
  <2> QED BY <1>1, <2>1, ExpiryIrrelevant DEF AlwaysBalanced, Tick
<1>2. CASE State
  BY <1>2, CurrentBalanced DEF State, AlwaysBalanced
<1>3. ASSUME NEW c \in Caller, BeforeRequest(c) PROVE AlwaysBalanced'
  <2>1. Balanced(currentState(breaker), token)
    BY CurrentBalanced DEF AlwaysBalanced
  <2>2. CASE Rejects(currentState(breaker))
    BY <1>3, <2>1, <2>2 DEF BeforeRequest, AlwaysBalanced
  <2>3. CASE ~ Rejects(currentState(breaker))
    BY <1>3, <2>1, <2>3, AdmitBalanced DEF BeforeRequest, AlwaysBalanced, Take
  <2> QED BY <2>2, <2>3
<1>4. ASSUME NEW c \in Caller, NEW success \in BOOLEAN, AfterRequest(c, success)
      PROVE  AlwaysBalanced'
  BY <1>4, AfterRequestBalanced
<1>5. CASE UNCHANGED vars
  BY <1>5 DEF vars, AlwaysBalanced
<1> QED BY <1>1, <1>2, <1>3, <1>4, <1>5 DEF Next

\* The breaker is balanced in every reachable state.
THEOREM BreakerBalanced == Spec => []AlwaysBalanced
BY InitBalanced, NextBalanced, PTL DEF Spec

\* The struct and the tokens keep their types whatever the interleaving.
THEOREM BreakerTypeCorrect == Spec => []TypeOK
<1>1. AlwaysBalanced => TypeOK
  BY DEF AlwaysBalanced, Balanced, TypeOK
<1> QED BY <1>1, BreakerBalanced, PTL

\* The counts of a generation are exactly the calls admitted in it.
THEOREM BreakerAccountsForCalls == Spec => []CallsAccounted
<1>1. AlwaysBalanced => CallsAccounted
  BY DEF AlwaysBalanced, Balanced, CallsAccounted, InFlight
<1> QED BY <1>1, BreakerBalanced, PTL

\* A half-open breaker never exceeds its probe budget, an open one counts nobody.
THEOREM BreakerLimitsProbes == Spec => []ProbeLimit
<1>1. AlwaysBalanced => ProbeLimit
  <2> SUFFICES ASSUME AlwaysBalanced PROVE ProbeLimit
    OBVIOUS
  <2>1. /\ Cardinality(InFlight) \in Nat
        /\ InFlight = {} <=> Cardinality(InFlight) = 0
    BY HoldersFinite DEF InFlight
  <2>2. {breaker.requests, breaker.successes, breaker.failures} \subseteq Nat
    BY DEF AlwaysBalanced, Balanced, Breaker
  <2>3. breaker.requests = Cardinality(InFlight) + breaker.successes + breaker.failures
    BY DEF AlwaysBalanced, Balanced, InFlight
  <2>4. CASE breaker.phase = stateHalfOpen
    <3>1. breaker.failures = 0 /\ breaker.requests <= halfOpenMaxCalls
      BY <2>4 DEF AlwaysBalanced, Balanced
    <3> QED BY <2>1, <2>2, <2>3, <2>4, <3>1 DEF ProbeLimit, stateHalfOpen, stateOpen
  <2>5. CASE breaker.phase = stateOpen
    <3>1. breaker.requests = 0
      BY <2>5 DEF AlwaysBalanced, Balanced
    <3>2. Cardinality(InFlight) = 0
      BY <2>1, <2>2, <2>3, <3>1
    <3> QED BY <2>1, <2>5, <3>2 DEF ProbeLimit, stateHalfOpen, stateOpen
  <2> QED BY <2>4, <2>5 DEF ProbeLimit
<1> QED BY <1>1, BreakerBalanced, PTL

-----------------------------------------------------------------------------
(* The refinement: Abs(b, t) is the contract's state. *)

Abs(b, t) == [mode   |-> b.phase,
              live   |-> Holders(b, t),
              passed |-> IF b.phase = stateHalfOpen THEN b.successes ELSE 0]

\* The contract's Become, when its primed state is Abs of the primed variables.
LEMMA BecomeAbs ==
    ASSUME NEW v, v = Abs(breaker', token')
    PROVE  Contract!Become(v.mode, v.live, v.passed)
BY DEF Contract!Become, Abs, InFlight

\* The lazy transition of currentState shows one of the contract's views.
LEMMA CurrentIsView ==
    ASSUME AlwaysBalanced
    PROVE  Abs(currentState(breaker), token) \in Contract!Views
<1>0. breaker \in Breaker /\ breaker.generation \in Nat
      /\ token \in [Caller -> Nat \cup {NoToken}]
  BY DEF AlwaysBalanced, Balanced, Breaker
<1>1. PICK cur \in Breaker : cur = currentState(breaker)
  BY <1>0, CurrentState
<1>2. CASE cur.generation = breaker.generation
  <2>1. /\ cur.phase = breaker.phase /\ cur.successes = breaker.successes
        /\ Holders(cur, token) = InFlight
    BY <1>0, <1>1, <1>2, CurrentState DEF Holders, InFlight
  <2>2. Abs(cur, token) = Contract!Now
    BY <2>1 DEF Abs, Contract!Now
  <2> QED BY <1>1, <2>2 DEF Contract!Views
<1>3. CASE cur.generation # breaker.generation
  <2>1. /\ cur.generation = breaker.generation + 1 /\ cur.successes = 0
        /\ \/ breaker.phase = stateClosed /\ cur.phase = stateClosed
           \/ breaker.phase = stateOpen /\ cur.phase = stateHalfOpen
    BY <1>0, <1>1, <1>3, CurrentState
  <2>2. \A c \in Caller : token[c] < cur.generation
    BY <1>0, <2>1 DEF AlwaysBalanced, Balanced, NoToken
  <2>3. Holders(cur, token) = {}
    BY <1>0, <2>2, NoHolders
  <2>4. CASE breaker.phase = stateClosed
    <3>1. cur.phase = stateClosed
      BY <2>1, <2>4 DEF stateClosed, stateOpen
    <3>2. Abs(cur, token) = Contract!NewWindow
      BY <2>1, <2>3, <3>1 DEF Abs, Contract!NewWindow, stateClosed, stateHalfOpen
    <3> QED BY <1>1, <2>4, <3>2 DEF Contract!Views, stateClosed
  <2>5. CASE breaker.phase = stateOpen
    <3>1. cur.phase = stateHalfOpen
      BY <2>1, <2>5 DEF stateClosed, stateOpen
    <3>2. Abs(cur, token) = Contract!HalfOpen
      BY <2>1, <2>3, <3>1 DEF Abs, Contract!HalfOpen, stateHalfOpen
    <3> QED BY <1>1, <2>5, <3>2 DEF Contract!Views, stateOpen
  <2> QED BY <2>1, <2>4, <2>5
<1> QED BY <1>2, <1>3

\* A step that leaves the breaker as currentState showed it is the contract's
\* Elapse: the observer, a rejected call, a stale outcome.
LEMMA ElapseStep ==
    ASSUME AlwaysBalanced, Abs(breaker', token') = Abs(currentState(breaker), token)
    PROVE  Contract!Next
<1>1. PICK v \in Contract!Views : v = Abs(breaker', token')
  BY CurrentIsView
<1>2. Contract!Elapse
  BY <1>1, BecomeAbs DEF Contract!Elapse
<1> QED BY <1>2 DEF Contract!Next

\* A call that beforeRequest lets through is the contract's Admit.
LEMMA AdmitStep ==
    ASSUME AlwaysBalanced, NEW c \in Caller, BeforeRequest(c),
           ~ Rejects(currentState(breaker))
    PROVE  Contract!Admit(c)
<1>1. PICK cur : cur = currentState(breaker)
  OBVIOUS
<1>2. Balanced(cur, token)
  BY <1>1, CurrentBalanced DEF AlwaysBalanced
<1>3. /\ cur \in Breaker /\ token \in [Caller -> Nat \cup {NoToken}]
      /\ {cur.generation, cur.requests, cur.successes, cur.failures} \subseteq Nat
  BY <1>2 DEF Balanced, Breaker
<1>4. /\ token[c] = NoToken
      /\ breaker' = [cur EXCEPT !.requests = @ + 1]
      /\ token' = Take(cur, token, c)
  BY <1>1 DEF BeforeRequest, Take
<1>5. PICK v \in Contract!Views : v = Abs(cur, token)
  BY <1>1, CurrentIsView
<1>6. /\ v.mode = cur.phase /\ v.live = Holders(cur, token)
      /\ v.passed = IF cur.phase = stateHalfOpen THEN cur.successes ELSE 0
  BY <1>5 DEF Abs
<1>7. c \notin InFlight
  <2>1. breaker.generation \in Nat
    BY DEF AlwaysBalanced, Balanced, Breaker
  <2> QED BY <1>4, <2>1 DEF InFlight, Holders, NoToken
<1>8. v.mode # "open"
  BY <1>1, <1>6 DEF Rejects, stateOpen
<1>9. v.mode = "half-open" => Cardinality(v.live) + v.passed < halfOpenMaxCalls
  <2> SUFFICES ASSUME cur.phase = stateHalfOpen
               PROVE  Cardinality(Holders(cur, token)) + cur.successes < halfOpenMaxCalls
    BY <1>6 DEF stateHalfOpen
  <2>1. cur.requests < halfOpenMaxCalls
    BY <1>1, <1>3, ConfigPositive DEF Rejects
  <2>2. cur.requests = Cardinality(Holders(cur, token)) + cur.successes /\ cur.failures = 0
    <3>1. cur.requests = Cardinality(Holders(cur, token)) + cur.successes + cur.failures
          /\ cur.failures = 0
      BY <1>2 DEF Balanced
    <3> QED BY <3>1, <1>3, HoldersFinite
  <2> QED BY <2>1, <2>2
<1>10. /\ breaker'.phase = cur.phase /\ breaker'.generation = cur.generation
       /\ breaker'.successes = cur.successes
  BY <1>3, <1>4 DEF Breaker
<1>11. Holders(breaker', token') = v.live \cup {c}
  <2>1. Holders(breaker', token') = Holders(cur, token')
    BY <1>10 DEF Holders
  <2>2. Holders(cur, Take(cur, token, c)) = Holders(cur, token) \cup {c}
    BY <1>3, <1>4, HolderAdded
  <2> QED BY <1>4, <1>6, <2>1, <2>2
<1>12. Contract!Become(v.mode, v.live \cup {c}, v.passed)
  BY <1>6, <1>10, <1>11 DEF Contract!Become, InFlight
<1>13. Contract!Cardinality(v.live) = Cardinality(v.live)
  BY DEF Contract!Cardinality, Cardinality
<1> QED BY <1>7, <1>8, <1>9, <1>12, <1>13 DEF Contract!Admit

\* A current token means that no transition was pending.
LEMMA CurrentToken ==
    ASSUME AlwaysBalanced, NEW c \in Caller, NEW cur, cur = currentState(breaker),
           token[c] = cur.generation
    PROVE  /\ Balanced(cur, token) /\ c \in InFlight
           /\ cur.phase = breaker.phase /\ cur.successes = breaker.successes
           /\ Holders(cur, token) = InFlight
<1>1. /\ breaker \in Breaker /\ breaker.generation \in Nat
      /\ token[c] <= breaker.generation
  BY DEF AlwaysBalanced, Balanced, Breaker
<1>2. cur.generation = breaker.generation
  BY <1>1, CurrentState
<1>3. Holders(cur, token) = InFlight /\ c \in InFlight
  BY <1>2 DEF Holders, InFlight
<1>4. cur.phase = breaker.phase /\ cur.successes = breaker.successes
  BY <1>1, <1>2, CurrentState
<1> QED BY <1>3, <1>4, CurrentBalanced DEF AlwaysBalanced

\* The success of a current call is the contract's Succeed.
LEMMA SucceedStep ==
    ASSUME AlwaysBalanced, NEW c \in Caller, AfterRequest(c, TRUE),
           token[c] = currentState(breaker).generation
    PROVE  Contract!Succeed(c)
<1>1. PICK cur : cur = currentState(breaker)
  OBVIOUS
<1>2. /\ Balanced(cur, token) /\ c \in InFlight
      /\ cur.phase = breaker.phase /\ cur.successes = breaker.successes
      /\ Holders(cur, token) = InFlight
  BY <1>1, CurrentToken
<1>3. breaker' = onSuccess(cur) /\ token' = Drop(token, c)
  BY <1>1 DEF AfterRequest, afterRequest, Drop
<1>4. \/ /\ breaker'.phase = cur.phase /\ breaker'.successes = cur.successes + 1
         /\ cur.phase = stateHalfOpen => cur.successes + 1 < halfOpenMaxCalls
         /\ Holders(breaker', token') = Holders(cur, token) \ {c}
      \/ /\ cur.phase = stateHalfOpen /\ cur.successes + 1 >= halfOpenMaxCalls
         /\ breaker'.phase = stateClosed /\ Holders(breaker', token') = {}
  BY <1>1, <1>2, <1>3, OnSuccess
<1>5. cur.phase \in {stateClosed, stateHalfOpen}
  BY <1>1, <1>2, HolderCounted DEF Balanced, Breaker
<1>6. InFlight' = Holders(breaker', token')
  BY DEF InFlight
<1> QED BY <1>2, <1>4, <1>5, <1>6
        DEF Contract!Succeed, Contract!Become, stateClosed, stateHalfOpen

\* The failure of a current call is the contract's Fail.
LEMMA FailStep ==
    ASSUME AlwaysBalanced, NEW c \in Caller, AfterRequest(c, FALSE),
           token[c] = currentState(breaker).generation
    PROVE  Contract!Fail(c)
<1>1. PICK cur : cur = currentState(breaker)
  OBVIOUS
<1>2. /\ Balanced(cur, token) /\ c \in InFlight
      /\ cur.phase = breaker.phase /\ cur.successes = breaker.successes
      /\ Holders(cur, token) = InFlight
  BY <1>1, CurrentToken
<1>3. breaker' = onFailure(cur) /\ token' = Drop(token, c)
  BY <1>1 DEF AfterRequest, afterRequest, Drop
<1>4. \/ /\ cur.phase = stateClosed /\ breaker'.phase = stateClosed
         /\ Holders(breaker', token') = Holders(cur, token) \ {c}
      \/ breaker'.phase = stateOpen /\ Holders(breaker', token') = {}
  BY <1>1, <1>2, <1>3, OnFailure
<1>5. cur.phase # stateOpen
  BY <1>1, <1>2, HolderCounted
<1>6. InFlight' = Holders(breaker', token')
  BY DEF InFlight
<1> QED BY <1>2, <1>4, <1>5, <1>6
        DEF Contract!Fail, Contract!Become, stateClosed, stateHalfOpen, stateOpen

\* Every step of the breaker is a step of the contract, or changes nothing of it.
LEMMA StepSimulation == AlwaysBalanced /\ [Next]_vars => [Contract!Next]_(Contract!vars)
<1> SUFFICES ASSUME AlwaysBalanced, [Next]_vars PROVE [Contract!Next]_(Contract!vars)
  OBVIOUS
<1>1. CASE Tick
  <2>1. /\ breaker'.phase = breaker.phase /\ breaker'.generation = breaker.generation
        /\ breaker'.successes = breaker.successes /\ token' = token
    BY <1>1 DEF Tick, AlwaysBalanced, Balanced, Breaker
  <2>2. InFlight' = InFlight
    BY <2>1 DEF InFlight, Holders
  <2> QED BY <2>1, <2>2 DEF Contract!vars
<1>2. CASE State
  BY <1>2, ElapseStep DEF State
<1>3. ASSUME NEW c \in Caller, BeforeRequest(c) PROVE Contract!Next
  <2>1. CASE Rejects(currentState(breaker))
    BY <1>3, <2>1, ElapseStep DEF BeforeRequest
  <2>2. CASE ~ Rejects(currentState(breaker))
    BY <1>3, <2>2, AdmitStep DEF Contract!Next
  <2> QED BY <2>1, <2>2
<1>4. ASSUME NEW c \in Caller, NEW success \in BOOLEAN, AfterRequest(c, success)
      PROVE  Contract!Next
  <2>1. CASE token[c] # currentState(breaker).generation
    <3>1. breaker' = currentState(breaker) /\ token' = Drop(token, c)
      BY <1>4, <2>1 DEF AfterRequest, afterRequest, Drop
    <3>2. Holders(breaker', token') = Holders(currentState(breaker), token)
      BY <2>1, <3>1, CurrentBalanced, StaleBalanced DEF AlwaysBalanced
    <3>3. Abs(breaker', token') = Abs(currentState(breaker), token)
      BY <3>1, <3>2 DEF Abs
    <3> QED BY <3>3, ElapseStep
  <2>2. CASE token[c] = currentState(breaker).generation /\ success
    BY <1>4, <2>2, SucceedStep DEF Contract!Next
  <2>3. CASE token[c] = currentState(breaker).generation /\ ~ success
    <3>1. AfterRequest(c, FALSE)
      BY <1>4, <2>3
    <3> QED BY <2>3, <3>1, FailStep DEF Contract!Next
  <2> QED BY <2>1, <2>2, <2>3
<1>5. CASE UNCHANGED vars
  BY <1>5 DEF vars, Contract!vars, InFlight
<1> QED BY <1>1, <1>2, <1>3, <1>4, <1>5 DEF Next

\* Generation tokens implement the contract: a call admitted before a trip, a
\* window change or a recovery can never influence the breaker afterwards.
THEOREM BreakerImplementsContract == Spec => ImplementsContract
<1>1. Init => Contract!Init
  <2> SUFFICES ASSUME Init PROVE Contract!Init
    OBVIOUS
  <2>1. InFlight = {}
    BY DEF Init, InFlight, Holders, NoToken
  <2> QED BY <2>1 DEF Init, Contract!Init, stateClosed, stateHalfOpen
<1> QED BY <1>1, StepSimulation, BreakerBalanced, PTL
        DEF Spec, ImplementsContract, Contract!Spec
=============================================================================
