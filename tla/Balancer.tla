------------------------------ MODULE Balancer ------------------------------
(***************************************************************************)
(* The load balancers of a pooled route (transport/gateway/balancer.go)    *)
(* under concurrent pickers.  A picker is a request goroutine: it picks a  *)
(* connection for one attempt and calls the release callback when the      *)
(* attempt ends.                                                           *)
(*                                                                         *)
(* least_conn reads its in-flight counters one atomic load at a time and   *)
(* then adds one to the counter it settled on, so other pickers may claim  *)
(* and release between any two of its loads: each load is a step.          *)
(***************************************************************************)
EXTENDS Integers, FiniteSets

CONSTANTS
    Picker,       \* request goroutines that share the route's balancer
    PoolSize,     \* n, the number of pooled connections
    LoadBalance,  \* the load_balance settings considered
    CounterRange  \* 2^64 in the code: the range of the round-robin counter

ASSUME BalancerAssumption ==
    /\ IsFiniteSet(Picker)
    /\ PoolSize \in Nat \ {0}
    /\ CounterRange \in Nat \ {0}

Conn   == 0 .. PoolSize - 1
NoConn == -1

lbRoundRobin == "round_robin"
lbLeastConn  == "least_conn"
lbRandom     == "random"

\* An unknown or empty setting is round-robin.
buildBalancer(setting) ==
    IF setting \in {lbLeastConn, lbRandom} THEN setting ELSE lbRoundRobin

VARIABLES
    balancer,   \* the route's balancer, fixed when the route is mounted
    next,       \* roundRobinBalancer.next
    inflight,   \* leastConnBalancer.inflight, one counter per connection
    scan,       \* the loop of a least_conn pick: [i, best, min] of each picker
    held,       \* held[p]: the connection p holds until it calls release, or NoConn
    quiet       \* history: pickers whose scan no claim or release has disturbed

vars == <<balancer, next, inflight, scan, held, quiet>>

\* i = 0: not picking; i = n: every counter has been read.
Scan == [i : 0 .. PoolSize, best : Conn, min : Int]

NotScanning == [i |-> 0, best |-> 0, min |-> 0]

Init ==
    /\ balancer \in {buildBalancer(setting) : setting \in LoadBalance}
    /\ next = 0
    /\ inflight = [i \in Conn |-> 0]
    /\ scan = [p \in Picker |-> NotScanning]
    /\ held = [p \in Picker |-> NoConn]
    /\ quiet = {}

Idle(p) == held[p] = NoConn /\ scan[p].i = 0

\* Fault: the counter is used as an index.
SlotUnreduced(counter) == counter

\* The connection a counter value stands for.
Slot(counter) == counter % PoolSize

\* roundRobinBalancer.pick: one atomic add, which wraps.
PickRoundRobin(p) ==
    /\ balancer = lbRoundRobin /\ Idle(p)
    /\ next' = (next + 1) % CounterRange
    /\ held' = [held EXCEPT ![p] = Slot(next')]
    /\ UNCHANGED <<balancer, inflight, scan, quiet>>

\* randomBalancer.pick.
PickRandom(p) ==
    /\ balancer = lbRandom /\ Idle(p)
    /\ \E i \in Conn : held' = [held EXCEPT ![p] = i]
    /\ UNCHANGED <<balancer, next, inflight, scan, quiet>>

\* leastConnBalancer.pick: the load of counter 0.
ScanFirst(p) ==
    /\ balancer = lbLeastConn /\ Idle(p)
    /\ scan' = [scan EXCEPT ![p] = [i |-> 1, best |-> 0, min |-> inflight[0]]]
    /\ quiet' = quiet \cup {p}
    /\ UNCHANGED <<balancer, next, inflight, held>>

\* Fault: the last of several equally loaded connections wins.
LessLoadedOrEqual(i, s) == inflight[i] <= s.min

LessLoaded(i, s) == inflight[i] < s.min

\* One turn of its loop: a later counter replaces the best only if it is smaller.
ScanStep(p) ==
    LET i == scan[p].i
    IN  /\ i \in 1 .. PoolSize - 1
        /\ scan' = [scan EXCEPT ![p] =
                      IF LessLoaded(i, scan[p])
                      THEN [i |-> i + 1, best |-> i, min |-> inflight[i]]
                      ELSE [i |-> i + 1, best |-> scan[p].best, min |-> scan[p].min]]
        /\ UNCHANGED <<balancer, next, inflight, held, quiet>>

\* The add that claims the best connection found, however loaded it is by now.
ScanClaim(p) ==
    /\ scan[p].i = PoolSize
    /\ inflight' = [inflight EXCEPT ![scan[p].best] = @ + 1]
    /\ held' = [held EXCEPT ![p] = scan[p].best]
    /\ scan' = [scan EXCEPT ![p] = NotScanning]
    /\ quiet' = {}
    /\ UNCHANGED <<balancer, next>>

Pick(p) == PickRoundRobin(p) \/ PickRandom(p) \/ ScanFirst(p) \/ ScanStep(p) \/ ScanClaim(p)

\* Fault: the release callback of least_conn does nothing.
ReleasedNever(i) == inflight

\* The counters after the release callback of connection i: a no-op except for
\* least_conn.
Released(i) ==
    IF balancer = lbLeastConn THEN [inflight EXCEPT ![i] = @ - 1] ELSE inflight

\* The attempt ends and calls release.
Release(p) ==
    /\ held[p] # NoConn
    /\ inflight' = Released(held[p])
    /\ held' = [held EXCEPT ![p] = NoConn]
    /\ quiet' = {}
    /\ UNCHANGED <<balancer, next, scan>>

Next == \E p \in Picker : Pick(p) \/ Release(p)

Spec == Init /\ [][Next]_vars

-----------------------------------------------------------------------------
(* Properties. *)

TypeOK ==
    /\ balancer \in {lbRoundRobin, lbLeastConn, lbRandom}
    /\ next \in Nat
    /\ inflight \in [Conn -> Int]
    /\ scan \in [Picker -> Scan]
    /\ held \in [Picker -> Conn \cup {NoConn}]
    /\ quiet \in SUBSET Picker

\* A least_conn counter is exactly the number of attempts on its connection: no
\* increment is lost and no release runs twice, so the counters never drift and
\* never go negative.
InflightExact ==
    balancer = lbLeastConn =>
        \A i \in Conn : inflight[i] = Cardinality({p \in Picker : held[p] = i})

\* A scan that no other goroutine has disturbed remembers the least loaded of the
\* connections read so far, the first one among equals.
QuietScanIsRight ==
    \A p \in quiet :
        /\ inflight[scan[p].best] = scan[p].min
        /\ \A i \in 0 .. scan[p].i - 1 :
               /\ inflight[i] >= scan[p].min
               /\ i < scan[p].best => inflight[i] > scan[p].min
=============================================================================
