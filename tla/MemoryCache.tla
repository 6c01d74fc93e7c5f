----------------------------- MODULE MemoryCache -----------------------------
(***************************************************************************)
(* The in-memory cache, locker and rate limiter (adapters/memory/cache.go) *)
(* seen through one key; keys do not interact.  Every operation holds the  *)
(* mutex while it touches the maps, but Allow reads the clock before it    *)
(* asks for the mutex, so it takes two steps and may use an old time.      *)
(*                                                                         *)
(* An instant is kept as the time left until it, which is negative once it *)
(* has passed; NoDeadline is the zero time.Time.  A value is kept as its   *)
(* first byte, the only part that Allow reads.                             *)
(***************************************************************************)
EXTENDS Integers, FiniteSetsExt

CONSTANTS
    Client,      \* goroutines that share the cache
    TTL,         \* the ttl arguments of Set and Lock
    Limit,       \* the limit argument of Allow
    Window,      \* the window argument of Allow
    ByteRange,   \* 256 in the code: the counter is stored in one byte
    MaxDelay     \* bound: time between Allow's time.Now() and its Lock()

ASSUME CacheAssumption ==
    /\ TTL \subseteq Int
    /\ {Limit, Window, MaxDelay} \subseteq Nat /\ MaxDelay <= Window
    /\ ByteRange \in Nat \ {0}

NoDeadline == -2
Passed     == -1
NotCalling == -1
None       == [value |-> 0, left |-> Passed]   \* no entry: reads like an expired one

Left == Passed .. Max(TTL \cup {Window}) \cup {NoDeadline}
Age  == 0 .. Window - MaxDelay

VARIABLES
    item,     \* items[key]
    lock,     \* locks[key]: the time left, Passed when there is no entry
    delay,    \* delay[c]: time since c's Allow read the clock, or NotCalling
    lease,    \* what c knows of its own lock: the time left of its ttl
    handle,   \* clients that hold a Lock and have not called Unlock
    late,     \* history: a client called Unlock after its own ttl had run out
    recent    \* history: recent[a]: calls of Allow granted in the last a time units

vars == <<item, lock, delay, lease, handle, late, recent>>

NothingRecent == [a \in Age |-> 0]

Init ==
    /\ item = None /\ lock = Passed
    /\ delay = [c \in Client |-> NotCalling]
    /\ lease = [c \in Client |-> Passed]
    /\ handle = {} /\ late = FALSE
    /\ recent = NothingRecent

-----------------------------------------------------------------------------
expired(left) == left = Passed

deadline(ttl) == IF ttl <= 0 THEN NoDeadline ELSE ttl

Set(value, ttl) ==
    /\ item' = [value |-> value, left |-> deadline(ttl)]
    /\ recent' = NothingRecent
    /\ UNCHANGED <<lock, delay, lease, handle, late>>

Delete ==
    /\ item' = None
    /\ recent' = NothingRecent
    /\ UNCHANGED <<lock, delay, lease, handle, late>>

\* Fault: a lock that was taken is not looked at.
HeldNever(left) == FALSE

\* time.Now().Before(until), which is false for the zero time.
Held(left) == left > 0

\* Lock, when the key is not held; otherwise it returns an error.
Lock(c, ttl) ==
    /\ c \notin handle
    /\ ~ Held(lock)
    /\ lock' = deadline(ttl)
    /\ lease' = [lease EXCEPT ![c] = ttl]
    /\ handle' = handle \cup {c}
    /\ UNCHANGED <<item, delay, late, recent>>

\* Unlock deletes the entry, whoever it belongs to by now.
Unlock(c) ==
    /\ c \in handle
    /\ lock' = Passed
    /\ late' = (late \/ lease[c] <= 0)
    /\ lease' = [lease EXCEPT ![c] = Passed]
    /\ handle' = handle \ {c}
    /\ UNCHANGED <<item, delay, recent>>

\* Allow reads the clock; with a limit that is not positive it has returned false.
AllowBegin(c) ==
    /\ Limit > 0
    /\ delay[c] = NotCalling
    /\ delay' = [delay EXCEPT ![c] = 0]
    /\ UNCHANGED <<item, lock, lease, handle, late, recent>>

\* Fault: one call too many is granted.
GrantedOffByOne(count) == count <= Limit

Granted(count) == count < Limit

\* The counter is stored in one byte.
byte(count) == count % ByteRange

\* The rest of Allow, under the mutex.  The entry lasts for a window from the
\* time that was read at the start.
AllowEnd(c) ==
    LET count == IF expired(item.left) THEN 0 ELSE item.value
        left  == Window - delay[c]
    IN  /\ delay[c] # NotCalling
        /\ delay' = [delay EXCEPT ![c] = NotCalling]
        /\ IF Granted(count)
           THEN /\ item' = [value |-> byte(count + 1), left |-> left]
                /\ recent' = [a \in Age |-> recent[a] + 1]
           ELSE UNCHANGED <<item, recent>>
        /\ UNCHANGED <<lock, lease, handle, late>>

\* One unit of time passes.
Later(left) == IF left >= 0 THEN left - 1 ELSE left

Tick ==
    /\ \A c \in Client : delay[c] < MaxDelay
    /\ item' = [item EXCEPT !.left = Later(@)]
    /\ lock' = Later(lock)
    /\ lease' = [c \in Client |-> Later(lease[c])]
    /\ delay' = [c \in Client |-> IF delay[c] = NotCalling THEN NotCalling ELSE delay[c] + 1]
    /\ recent' = [a \in Age |-> IF a = 0 THEN 0 ELSE recent[a - 1]]
    /\ UNCHANGED <<handle, late>>

Next ==
    \/ Tick \/ Delete
    \/ \E value \in 0 .. ByteRange - 1, ttl \in TTL : Set(value, ttl)
    \/ \E c \in Client : Unlock(c) \/ AllowBegin(c) \/ AllowEnd(c)
    \/ \E c \in Client, ttl \in TTL : Lock(c, ttl)

Spec == Init /\ [][Next]_vars

-----------------------------------------------------------------------------
(* Properties. *)

TypeOK ==
    /\ item \in [value : 0 .. ByteRange - 1, left : Left]
    /\ lock \in Left
    /\ delay \in [Client -> NotCalling .. MaxDelay]
    /\ lease \in [Client -> Left]
    /\ handle \subseteq Client /\ late \in BOOLEAN
    /\ recent \in [Age -> Nat]

\* The lock excludes: as long as no client has unlocked after its own ttl ran out,
\* at most one client is within the ttl of a lock it took.
LockExcludes ==
    ~ late => Cardinality({c \in handle : lease[c] > 0}) <= 1

\* The limiter limits: since the key was last set or deleted, no span as long as
\* the window, less the time a call may wait for the mutex with an old clock
\* reading, has seen more calls granted than the limit.
LimitHolds == \A a \in Age : recent[a] <= Limit
=============================================================================
