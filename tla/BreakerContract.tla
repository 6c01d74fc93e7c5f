--------------------------- MODULE BreakerContract ---------------------------
(***************************************************************************)
(* What a circuit breaker promises, with no counters, clocks or tokens:    *)
(* the classic closed / half-open / open machine over the set of calls     *)
(* whose outcome still matters.  A call stops mattering as soon as the     *)
(* breaker changes state or starts a new window.  CircuitBreaker           *)
(* implements this contract with generation numbers.                       *)
(***************************************************************************)
EXTENDS Naturals, FiniteSets

CONSTANTS
    Caller,       \* the request goroutines that share one breaker
    ProbeBudget   \* successful trial calls needed to close a half-open breaker

VARIABLES
    mode,         \* "closed", "half-open" or "open"
    live,         \* callers whose outcome will be taken into account
    passed        \* trial calls that succeeded since the breaker half-opened

vars == <<mode, live, passed>>

Become(m, l, p) == mode' = m /\ live' = l /\ passed' = p

Init == mode = "closed" /\ live = {} /\ passed = 0

(***************************************************************************)
(* The passage of time may start a new window, which forgets every call in *)
(* flight, or turn an open breaker half-open.  It is noticed lazily, by    *)
(* the next operation, so each operation acts on one of these views.       *)
(***************************************************************************)
View == [mode : {"closed", "half-open", "open"}, live : SUBSET Caller, passed : Nat]

Now       == [mode |-> mode, live |-> live, passed |-> passed]
NewWindow == [mode |-> "closed", live |-> {}, passed |-> 0]
HalfOpen  == [mode |-> "half-open", live |-> {}, passed |-> 0]

Views == {Now} \cup (IF mode = "closed" THEN {NewWindow} ELSE {})
               \cup (IF mode = "open" THEN {HalfOpen} ELSE {})

Elapse == \E v \in Views : Become(v.mode, v.live, v.passed)

\* A call is let through: never while open, and while half-open only within
\* the probe budget.
Admit(c) ==
    \E v \in Views :
        /\ c \notin live
        /\ v.mode # "open"
        /\ v.mode = "half-open" => Cardinality(v.live) + v.passed < ProbeBudget
        /\ Become(v.mode, v.live \cup {c}, v.passed)

\* A call that matters succeeds; the last missing trial call closes the breaker.
Succeed(c) ==
    /\ c \in live
    /\ \/ mode = "closed" /\ Become("closed", live \ {c}, 0)
       \/ mode = "half-open" /\ passed + 1 < ProbeBudget
            /\ Become("half-open", live \ {c}, passed + 1)
       \/ mode = "half-open" /\ passed + 1 >= ProbeBudget
            /\ Become("closed", {}, 0)

\* A call that matters fails: one failed trial call reopens a half-open
\* breaker, a closed breaker may trip.
Fail(c) ==
    /\ c \in live
    /\ \/ mode = "closed" /\ Become("closed", live \ {c}, 0)
       \/ mode # "open" /\ Become("open", {}, 0)

Next == Elapse \/ \E c \in Caller : Admit(c) \/ Succeed(c) \/ Fail(c)

Spec == Init /\ [][Next]_vars
=============================================================================
