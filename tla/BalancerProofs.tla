--------------------------- MODULE BalancerProofs ---------------------------
(***************************************************************************)
(* TLAPS proofs about Balancer, for every set of request goroutines, every *)
(* pool size and every counter range.                                      *)
(***************************************************************************)
EXTENDS Balancer, FiniteSetTheorems, TLAPS

\* A goroutine in the loop of a least_conn pick holds no connection yet, and the
\* best connection of its scan is one it has read.
ScansAreUnderway ==
    \A p \in Picker :
        scan[p].i # 0 => held[p] = NoConn /\ scan[p].best < scan[p].i

IInv ==
    /\ TypeOK
    /\ ScansAreUnderway
    /\ InflightExact
    /\ QuietScanIsRight

\* The pickers that hold connection i under the assignment h.
Holders(h, i) == {p \in Picker : h[p] = i}

-----------------------------------------------------------------------------
(* What the balancers index by, and what a change of holder does to a count. *)

\* A counter value reduced by the pool size is the index of a pooled connection.
LEMMA SlotInPool ==
    ASSUME NEW counter \in Nat
    PROVE  Slot(counter) \in Conn
BY BalancerAssumption DEF Slot, Conn

\* The holders of a connection can be counted.
LEMMA HoldersFinite ==
    ASSUME NEW h, NEW i
    PROVE  IsFiniteSet(Holders(h, i)) /\ Cardinality(Holders(h, i)) \in Nat
<1>1. Holders(h, i) \in SUBSET Picker
  BY DEF Holders
<1>2. IsFiniteSet(Holders(h, i))
  BY <1>1, BalancerAssumption, FS_Subset
<1> QED BY <1>2, FS_CardinalityType

\* A picker that held nothing and takes c adds one to the holders of c alone.
LEMMA TakeCounts ==
    ASSUME held \in [Picker -> Conn \cup {NoConn}], NEW p \in Picker, NEW c \in Conn,
           held[p] = NoConn, held' = [held EXCEPT ![p] = c], NEW i \in Conn
    PROVE  Cardinality(Holders(held', i)) =
             IF i = c THEN Cardinality(Holders(held, i)) + 1 ELSE Cardinality(Holders(held, i))
<1>1. NoConn \notin Conn
  BY DEF Conn, NoConn
<1>2. CASE i = c
  <2>1. Holders(held', i) = Holders(held, i) \cup {p}
    BY <1>2 DEF Holders
  <2>2. p \notin Holders(held, i)
    BY <1>1 DEF Holders
  <2>3. IsFiniteSet(Holders(held, i))
    BY HoldersFinite
  <2>4. Cardinality(Holders(held', i)) = Cardinality(Holders(held, i)) + 1
    BY <2>1, <2>2, <2>3, FS_AddElement
  <2> QED BY <1>2, <2>4
<1>3. CASE i # c
  <2>1. Holders(held', i) = Holders(held, i)
    BY <1>1, <1>3 DEF Holders
  <2> QED BY <1>3, <2>1
<1> QED BY <1>2, <1>3

\* A picker that gives its connection back removes one holder of it alone.
LEMMA GiveBackCounts ==
    ASSUME held \in [Picker -> Conn \cup {NoConn}], NEW p \in Picker,
           held' = [held EXCEPT ![p] = NoConn], NEW i \in Conn
    PROVE  Cardinality(Holders(held', i)) =
             IF i = held[p] THEN Cardinality(Holders(held, i)) - 1 ELSE Cardinality(Holders(held, i))
<1>1. NoConn \notin Conn
  BY DEF Conn, NoConn
<1>2. CASE i = held[p]
  <2>1. Holders(held', i) = Holders(held, i) \ {p}
    BY <1>1, <1>2 DEF Holders
  <2>2. p \in Holders(held, i)
    BY <1>2 DEF Holders
  <2>3. IsFiniteSet(Holders(held, i))
    BY HoldersFinite
  <2>4. Cardinality(Holders(held', i)) = Cardinality(Holders(held, i)) - 1
    BY <2>1, <2>2, <2>3, FS_RemoveElement
  <2> QED BY <1>2, <2>4
<1>3. CASE i # held[p]
  <2>1. Holders(held', i) = Holders(held, i)
    BY <1>1, <1>3 DEF Holders
  <2> QED BY <1>3, <2>1
<1> QED BY <1>2, <1>3

\* InflightExact, said with Holders.
LEMMA InflightCountsHolders ==
    /\ InflightExact <=>
         (balancer = lbLeastConn =>
            \A i \in Conn : inflight[i] = Cardinality(Holders(held, i)))
    /\ InflightExact' <=>
         (balancer' = lbLeastConn =>
            \A i \in Conn : inflight'[i] = Cardinality(Holders(held', i)))
BY DEF InflightExact, Holders

-----------------------------------------------------------------------------
(* The invariant. *)

LEMMA InitIInv == Init => IInv
<1> SUFFICES ASSUME Init PROVE IInv
  OBVIOUS
<1> USE BalancerAssumption DEF Init
<1>1. TypeOK
  <2>1. NotScanning \in Scan
    BY DEF NotScanning, Scan, Conn
  <2> QED BY <2>1 DEF TypeOK, buildBalancer
<1>2. ScansAreUnderway
  BY DEF ScansAreUnderway, NotScanning
<1>3. InflightExact
  <2>1. ASSUME NEW i \in Conn PROVE {p \in Picker : held[p] = i} = {}
    BY DEF Conn, NoConn
  <2> QED BY <2>1, FS_EmptySet DEF InflightExact
<1>4. QuietScanIsRight
  BY DEF QuietScanIsRight
<1> QED BY <1>1, <1>2, <1>3, <1>4 DEF IInv

\* round_robin and random touch no counter and disturb no scan.
LEMMA PickOthersKeepIInv ==
    ASSUME IInv, NEW p \in Picker, PickRoundRobin(p) \/ PickRandom(p)
    PROVE  IInv'
<1> USE DEF IInv, TypeOK
<1>1. PICK c \in Conn : held' = [held EXCEPT ![p] = c]
  BY SlotInPool, BalancerAssumption DEF PickRoundRobin, PickRandom
<1>2. /\ UNCHANGED <<balancer, inflight, scan, quiet>>
      /\ balancer # lbLeastConn /\ Idle(p)
  BY DEF PickRoundRobin, PickRandom, lbRoundRobin, lbRandom, lbLeastConn
<1>3. next' \in Nat
  BY BalancerAssumption DEF PickRoundRobin, PickRandom
<1>4. TypeOK'
  BY <1>1, <1>2, <1>3
<1>5. ScansAreUnderway'
  BY <1>1, <1>2 DEF ScansAreUnderway, Idle
<1>6. InflightExact'
  BY <1>2 DEF InflightExact
<1>7. QuietScanIsRight'
  BY <1>2 DEF QuietScanIsRight
<1> QED BY <1>4, <1>5, <1>6, <1>7

LEMMA ScanFirstKeepsIInv ==
    ASSUME IInv, NEW p \in Picker, ScanFirst(p)
    PROVE  IInv'
<1> USE BalancerAssumption DEF IInv, TypeOK
<1> DEFINE s == [i |-> 1, best |-> 0, min |-> inflight[0]]
<1>1. /\ scan' = [scan EXCEPT ![p] = s] /\ quiet' = quiet \cup {p}
      /\ UNCHANGED <<balancer, next, inflight, held>> /\ held[p] = NoConn
  BY DEF ScanFirst, Idle
<1>2. s \in Scan /\ s.i = 1 /\ s.best = 0 /\ s.min = inflight[0]
  BY DEF Scan, Conn
<1> HIDE DEF s
<1>3. TypeOK'
  BY <1>1, <1>2
<1>4. ScansAreUnderway'
  BY <1>1, <1>2 DEF ScansAreUnderway
<1>5. InflightExact'
  BY <1>1 DEF InflightExact
<1>6. QuietScanIsRight'
  <2> SUFFICES ASSUME NEW q \in quiet'
               PROVE  /\ inflight'[scan'[q].best] = scan'[q].min
                      /\ \A i \in 0 .. scan'[q].i - 1 :
                             /\ inflight'[i] >= scan'[q].min
                             /\ i < scan'[q].best => inflight'[i] > scan'[q].min
    BY DEF QuietScanIsRight
  <2>1. CASE q = p
    BY <1>1, <1>2, <2>1 DEF Conn
  <2>2. CASE q # p
    BY <1>1, <2>2 DEF QuietScanIsRight
  <2> QED BY <2>1, <2>2
<1> QED BY <1>3, <1>4, <1>5, <1>6

LEMMA ScanStepKeepsIInv ==
    ASSUME IInv, NEW p \in Picker, ScanStep(p)
    PROVE  IInv'
<1> USE BalancerAssumption DEF IInv, TypeOK
<1> DEFINE k == scan[p].i
           s == IF LessLoaded(k, scan[p])
                THEN [i |-> k + 1, best |-> k, min |-> inflight[k]]
                ELSE [i |-> k + 1, best |-> scan[p].best, min |-> scan[p].min]
<1>1. /\ scan' = [scan EXCEPT ![p] = s] /\ k \in 1 .. PoolSize - 1
      /\ UNCHANGED <<balancer, next, inflight, held, quiet>>
  BY DEF ScanStep
<1>2. /\ s \in Scan /\ s.i = k + 1
      /\ \/ inflight[k] < scan[p].min /\ s.best = k /\ s.min = inflight[k]
         \/ inflight[k] >= scan[p].min /\ s.best = scan[p].best /\ s.min = scan[p].min
  <2>1. scan[p] \in Scan /\ k \in Conn /\ inflight[k] \in Int
    BY <1>1 DEF Conn
  <2>2. CASE LessLoaded(k, scan[p])
    BY <1>1, <2>1, <2>2 DEF LessLoaded, Scan, Conn
  <2>3. CASE ~LessLoaded(k, scan[p])
    BY <1>1, <2>1, <2>3 DEF LessLoaded, Scan, Conn
  <2> QED BY <2>2, <2>3
<1>3. scan[p].best < k /\ held[p] = NoConn
  BY <1>1 DEF ScansAreUnderway
<1>4. scan[p] \in Scan /\ s \in Scan
  BY <1>2
<1> HIDE DEF s
<1>5. TypeOK'
  BY <1>1, <1>4
<1>6. ScansAreUnderway'
  <2>1. s.best < s.i
    BY <1>1, <1>2, <1>3, <1>4 DEF Scan, Conn
  <2> QED BY <1>1, <1>2, <1>3, <2>1 DEF ScansAreUnderway
<1>7. InflightExact'
  BY <1>1 DEF InflightExact
<1>8. QuietScanIsRight'
  <2> SUFFICES ASSUME NEW q \in quiet
               PROVE  /\ inflight[scan'[q].best] = scan'[q].min
                      /\ \A i \in 0 .. scan'[q].i - 1 :
                             /\ inflight[i] >= scan'[q].min
                             /\ i < scan'[q].best => inflight[i] > scan'[q].min
    BY <1>1 DEF QuietScanIsRight
  <2>1. CASE q = p
    <3>1. /\ inflight[scan[p].best] = scan[p].min
          /\ \A i \in 0 .. k - 1 : /\ inflight[i] >= scan[p].min
                                   /\ i < scan[p].best => inflight[i] > scan[p].min
      BY <2>1 DEF QuietScanIsRight
    <3>2. scan'[q] = s
      BY <1>1, <2>1
    <3>3. \A i \in 0 .. k : inflight[i] \in Int
      BY <1>1 DEF Conn
    <3>4. scan[p].min \in Int /\ scan[p].best \in Int
      BY <1>4 DEF Scan, Conn
    <3> QED BY <1>1, <1>2, <1>3, <3>1, <3>2, <3>3, <3>4
  <2>2. CASE q # p
    BY <1>1, <2>2 DEF QuietScanIsRight
  <2> QED BY <2>1, <2>2
<1> QED BY <1>5, <1>6, <1>7, <1>8

LEMMA ScanClaimKeepsIInv ==
    ASSUME IInv, NEW p \in Picker, ScanClaim(p)
    PROVE  IInv'
<1> USE BalancerAssumption DEF IInv, TypeOK
<1> DEFINE c == scan[p].best
<1>1. /\ scan' = [scan EXCEPT ![p] = NotScanning] /\ quiet' = {}
      /\ held' = [held EXCEPT ![p] = c]
      /\ inflight' = [inflight EXCEPT ![c] = inflight[c] + 1]
      /\ UNCHANGED <<balancer, next>>
  BY DEF ScanClaim
<1>2. NotScanning \in Scan /\ NotScanning.i = 0
  BY DEF NotScanning, Scan, Conn
<1>3. c \in Conn
  BY DEF Scan
<1>4. held[p] = NoConn
  BY DEF ScanClaim, ScansAreUnderway
<1> HIDE DEF c
<1>5. TypeOK'
  BY <1>1, <1>2, <1>3
<1>6. ScansAreUnderway'
  BY <1>1, <1>2 DEF ScansAreUnderway
<1>7. InflightExact'
  <2> SUFFICES ASSUME balancer = lbLeastConn, NEW i \in Conn
               PROVE  inflight'[i] = Cardinality(Holders(held', i))
    BY <1>1, InflightCountsHolders
  <2>1. inflight[i] = Cardinality(Holders(held, i))
    BY InflightCountsHolders
  <2>2. inflight'[i] = IF i = c THEN inflight[i] + 1 ELSE inflight[i]
    BY <1>1, <1>3
  <2>3. Cardinality(Holders(held', i)) =
          IF i = c THEN Cardinality(Holders(held, i)) + 1 ELSE Cardinality(Holders(held, i))
    <3>1. held \in [Picker -> Conn \cup {NoConn}]
      OBVIOUS
    <3>2. held' = [held EXCEPT ![p] = c]
      BY <1>1
    <3> QED BY <1>3, <1>4, <3>1, <3>2, TakeCounts
  <2> QED BY <2>1, <2>2, <2>3
<1>8. QuietScanIsRight'
  BY <1>1 DEF QuietScanIsRight
<1> QED BY <1>5, <1>6, <1>7, <1>8

LEMMA ReleaseKeepsIInv ==
    ASSUME IInv, NEW p \in Picker, Release(p)
    PROVE  IInv'
<1> USE DEF IInv, TypeOK
<1> DEFINE c == held[p]
<1>1. /\ held' = [held EXCEPT ![p] = NoConn] /\ quiet' = {} /\ inflight' = Released(c)
      /\ UNCHANGED <<balancer, next, scan>>
  BY DEF Release
<1>2. c \in Conn
  BY DEF Release
<1> HIDE DEF c
<1>3. inflight' \in [Conn -> Int]
  BY <1>1, <1>2 DEF Released
<1>4. TypeOK'
  BY <1>1, <1>3
<1>5. ScansAreUnderway'
  BY <1>1 DEF ScansAreUnderway
<1>6. InflightExact'
  <2> SUFFICES ASSUME balancer = lbLeastConn, NEW i \in Conn
               PROVE  inflight'[i] = Cardinality(Holders(held', i))
    BY <1>1, InflightCountsHolders
  <2>1. inflight[i] = Cardinality(Holders(held, i))
    BY InflightCountsHolders
  <2>2. inflight'[i] = IF i = c THEN inflight[i] - 1 ELSE inflight[i]
    BY <1>1, <1>2 DEF Released
  <2>3. Cardinality(Holders(held', i)) =
          IF i = c THEN Cardinality(Holders(held, i)) - 1 ELSE Cardinality(Holders(held, i))
    <3>1. held \in [Picker -> Conn \cup {NoConn}] /\ held' = [held EXCEPT ![p] = NoConn]
      BY <1>1
    <3> QED BY <3>1, GiveBackCounts DEF c
  <2> QED BY <2>1, <2>2, <2>3
<1>7. QuietScanIsRight'
  BY <1>1 DEF QuietScanIsRight
<1> QED BY <1>4, <1>5, <1>6, <1>7

LEMMA StutterKeepsIInv == IInv /\ UNCHANGED vars => IInv'
BY DEF IInv, TypeOK, ScansAreUnderway, InflightExact, QuietScanIsRight, vars

-----------------------------------------------------------------------------
(* The theorems. *)

\* Every step of a picker keeps the strengthened invariant.
LEMMA NextKeepsIInv == IInv /\ [Next]_vars => IInv'
<1> SUFFICES ASSUME IInv, Next PROVE IInv'
  BY StutterKeepsIInv
<1>1. PICK p \in Picker : Pick(p) \/ Release(p)
  BY DEF Next
<1> QED BY <1>1, PickOthersKeepIInv, ScanFirstKeepsIInv, ScanStepKeepsIInv,
           ScanClaimKeepsIInv, ReleaseKeepsIInv DEF Pick

\* The strengthened invariant holds in every reachable state.
LEMMA InvariantHolds == Spec => []IInv
BY InitIInv, NextKeepsIInv, PTL DEF Spec

\* Every variable keeps its type: in particular each balancer hands out indices
\* of the pool, also after the round-robin counter has wrapped.
THEOREM BalancerTypeCorrect == Spec => []TypeOK
<1>1. IInv => TypeOK
  BY DEF IInv
<1> QED BY <1>1, InvariantHolds, PTL

\* The least_conn counters equal the attempts in flight on each connection, for
\* any number of goroutines picking and releasing at once.
THEOREM BalancerInflightExact == Spec => []InflightExact
<1>1. IInv => InflightExact
  BY DEF IInv
<1> QED BY <1>1, InvariantHolds, PTL

\* An undisturbed least_conn scan settles on the first least loaded connection of
\* those it has read, for every pool size.
THEOREM BalancerQuietScanRight == Spec => []QuietScanIsRight
<1>1. IInv => QuietScanIsRight
  BY DEF IInv
<1> QED BY <1>1, InvariantHolds, PTL
=============================================================================
