----------------------------- MODULE StoreProofs -----------------------------
(***************************************************************************)
(* TLAPS proofs about the two stores that live in a process's memory:      *)
(* MemoryCache, for any number of clients, any ttls, limit and window, and *)
(* TodoService, for any number of clients, any number of ids, in whatever  *)
(* base they are written, and any page sizes.                              *)
(***************************************************************************)
EXTENDS MemoryCache, TodoService, FiniteSetTheorems, TLAPS

Span == Window - MaxDelay

\* The parts of the state that the locker uses.
LockTypes ==
    /\ lock \in Int /\ lease \in [Client -> Int]
    /\ handle \subseteq Client /\ late \in BOOLEAN

\* A holder within its ttl knows the entry's deadline, and is alone.
HolderKnows ==
    ~ late => /\ \A c \in handle : lease[c] > 0 => lock = lease[c]
              /\ \A c, d \in handle : lease[c] > 0 /\ lease[d] > 0 => c = d

LockInv == LockTypes /\ HolderKnows

\* The parts that the limiter uses.
LimitTypes ==
    /\ item \in [value : Nat, left : Int]
    /\ delay \in [Client -> NotCalling .. MaxDelay]
    /\ recent \in [Age -> Nat]

\* A longer span has seen as many calls.
Cumulative == \A a, b \in Age : a <= b => recent[a] <= recent[b]

\* The entry outlives the calls that it counts: a call granted within the last a time units
\* leaves it at least the rest of the span, and it counts all calls of the span.
EntryCounts ==
    \A a \in Age : recent[a] > 0 => item.left >= Span - a /\ item.value >= recent[Span]

LimitInv == LimitTypes /\ Cumulative /\ EntryCounts /\ LimitHolds

-----------------------------------------------------------------------------
LEMMA CacheTypes ==
    /\ Limit \in Nat /\ Window \in Nat /\ MaxDelay \in Nat /\ MaxDelay <= Window
    /\ Span \in Nat /\ Age = 0 .. Span /\ Span \in Age /\ 0 \in Age
    /\ TTL \subseteq Int /\ ByteRange \in Nat
  BY CacheAssumption DEF Span, Age

\* The counter does not wrap below the range of a byte.
LEMMA ByteKeeps ==
  ASSUME NEW n \in Nat, n < ByteRange
  PROVE  byte(n) = n
  BY CacheTypes DEF byte

-----------------------------------------------------------------------------
(* The locker. *)

LEMMA LockInit == Init => LockInv
<1> SUFFICES ASSUME Init PROVE LockInv
  OBVIOUS
<1>1. lock \in Int /\ lease \in [Client -> Int]
  BY DEF Init, Passed
<1>2. handle = {} /\ late \in BOOLEAN
  BY DEF Init
<1> QED
  BY <1>1, <1>2 DEF LockInv, LockTypes, HolderKnows

LEMMA LockStep == LockInv /\ [Next]_vars => LockInv'
<1> SUFFICES ASSUME LockInv, [Next]_vars PROVE LockInv'
  OBVIOUS
<1>1. /\ lock \in Int /\ lease \in [Client -> Int] /\ handle \subseteq Client /\ late \in BOOLEAN
      /\ HolderKnows
  BY DEF LockInv, LockTypes
<1>2. CASE UNCHANGED <<lock, lease, handle, late>>
  BY <1>2 DEF LockInv, LockTypes, HolderKnows
<1>3. ASSUME NEW c \in Client, NEW ttl \in TTL, Lock(c, ttl) PROVE LockInv'
  <2>1. /\ c \notin handle /\ ~ (lock > 0) /\ lock' = deadline(ttl)
        /\ lease' = [lease EXCEPT ![c] = ttl] /\ handle' = handle \cup {c} /\ late' = late
    BY <1>3 DEF Lock, Held
  <2>2. /\ ttl \in Int /\ deadline(ttl) \in Int /\ (ttl > 0 => deadline(ttl) = ttl)
    BY CacheTypes DEF deadline, NoDeadline
  <2>3. /\ lease' \in [Client -> Int] /\ lease'[c] = ttl
        /\ \A d \in Client : d # c => lease'[d] = lease[d]
    BY <1>1, <2>1, <2>2
  <2>4. LockTypes'
    BY <1>1, <2>1, <2>2, <2>3 DEF LockTypes
  <2>5. ~ late => \A d \in handle : ~ (lease[d] > 0)
    BY <1>1, <2>1 DEF HolderKnows
  <2>6. ~ late' => \A d \in handle' : lease'[d] > 0 => d = c
    BY <1>1, <2>1, <2>3, <2>5
  <2>7. HolderKnows'
    BY <2>1, <2>2, <2>3, <2>6 DEF HolderKnows
  <2> QED
    BY <2>4, <2>7 DEF LockInv
<1>4. ASSUME NEW c \in Client, Unlock(c) PROVE LockInv'
  <2>1. /\ c \in handle /\ lock' = Passed /\ late' = (late \/ lease[c] <= 0)
        /\ lease' = [lease EXCEPT ![c] = Passed] /\ handle' = handle \ {c}
    BY <1>4 DEF Unlock
  <2>2. /\ lease' \in [Client -> Int] /\ \A d \in Client : d # c => lease'[d] = lease[d]
    BY <1>1, <2>1 DEF Passed
  <2>3. LockTypes'
    BY <1>1, <2>1, <2>2 DEF LockTypes, Passed
  <2>4. ~ late' => ~ late /\ lease[c] > 0
    <3>1. ~ late' => ~ late /\ ~ (lease[c] <= 0)
      BY <2>1, Zenon
    <3> QED
      BY <1>1, <3>1
  <2>5. ~ late' => \A d \in handle' : ~ (lease'[d] > 0)
    BY <1>1, <2>1, <2>2, <2>4 DEF HolderKnows
  <2>6. HolderKnows'
    BY <2>5 DEF HolderKnows
  <2> QED
    BY <2>3, <2>6 DEF LockInv
<1>5. CASE Tick
  <2>1. /\ lock' = Later(lock) /\ lease' = [c \in Client |-> Later(lease[c])]
        /\ handle' = handle /\ late' = late
    BY <1>5 DEF Tick
  <2>2. \A x \in Int : Later(x) \in Int /\ (Later(x) > 0 => x > 0)
    BY DEF Later
  <2>3. lease' \in [Client -> Int] /\ \A c \in Client : lease'[c] = Later(lease[c])
    BY <1>1, <2>1, <2>2
  <2>4. LockTypes'
    BY <1>1, <2>1, <2>2, <2>3 DEF LockTypes
  <2>5. \A c \in handle : lease[c] \in Int /\ lease'[c] = Later(lease[c]) /\ (lease'[c] > 0 => lease[c] > 0)
    BY <1>1, <2>2, <2>3
  <2>6. HolderKnows'
    BY <1>1, <2>1, <2>5 DEF HolderKnows
  <2> QED
    BY <2>4, <2>6 DEF LockInv
<1> QED
  BY <1>2, <1>3, <1>4, <1>5 DEF Next, Set, Delete, AllowBegin, AllowEnd, vars

\* As long as nobody unlocks after its own ttl ran out, at most one client is within the ttl
\* of a lock it took, however Lock, Unlock and the passing of time are interleaved.
THEOREM AtMostOneHolder == Spec => []LockExcludes
<1>1. LockInv => LockExcludes
  <2> SUFFICES ASSUME LockInv, ~ late
               PROVE  Cardinality({c \in handle : lease[c] > 0}) <= 1
    BY DEF LockExcludes
  <2> DEFINE holders == {c \in handle : lease[c] > 0}
  <2>1. \A c, d \in holders : c = d
    BY DEF LockInv, HolderKnows
  <2> HIDE DEF holders
  <2>2. Cardinality(holders) <= 1
    <3>1. CASE holders = {}
      BY <3>1, FS_EmptySet
    <3>2. CASE holders # {}
      <4>1. PICK c : c \in holders
        BY <3>2
      <4>2. holders = {c}
        BY <2>1, <4>1
      <4> QED
        BY <4>2, FS_Singleton
    <3> QED
      BY <3>1, <3>2
  <2> QED
    BY <2>2 DEF holders
<1> QED
  BY LockInit, LockStep, <1>1, PTL DEF Spec

-----------------------------------------------------------------------------
(* The limiter. *)

LEMMA NothingRecentIsCalm ==
  ASSUME recent = NothingRecent
  PROVE  recent \in [Age -> Nat] /\ Cumulative /\ EntryCounts /\ LimitHolds
<1>1. recent \in [Age -> Nat] /\ \A a \in Age : recent[a] = 0
  BY DEF NothingRecent
<1>2. 0 <= Limit /\ 0 <= 0 /\ ~ (0 > 0)
  BY CacheTypes
<1> QED
  BY <1>1, <1>2 DEF Cumulative, EntryCounts, LimitHolds

LEMMA LimitInit == Init => LimitInv
<1> SUFFICES ASSUME Init PROVE LimitInv
  OBVIOUS
<1>1. item \in [value : Nat, left : Int]
  BY DEF Init, None, Passed
<1>2. delay \in [Client -> NotCalling .. MaxDelay]
  <2>1. NotCalling \in NotCalling .. MaxDelay
    BY CacheTypes DEF NotCalling
  <2> QED
    BY <2>1 DEF Init
<1>3. recent = NothingRecent
  BY DEF Init
<1> QED
  BY <1>1, <1>2, <1>3, NothingRecentIsCalm DEF LimitInv, LimitTypes

\* Set and Delete start afresh.
LEMMA FreshKeepsLimit ==
  ASSUME LimitInv, Delete \/ \E value \in 0 .. ByteRange - 1, ttl \in TTL : Set(value, ttl)
  PROVE  LimitInv'
<1>1. item' \in [value : Nat, left : Int]
  <2>1. CASE Delete
    BY <2>1 DEF Delete, None, Passed
  <2>2. ASSUME NEW value \in 0 .. ByteRange - 1, NEW ttl \in TTL, Set(value, ttl)
        PROVE  item' \in [value : Nat, left : Int]
    <3>1. value \in Nat /\ deadline(ttl) \in Int
      BY CacheTypes DEF deadline, NoDeadline
    <3> QED
      BY <2>2, <3>1 DEF Set
  <2> QED
    BY <2>1, <2>2
<1>2. recent' = NothingRecent /\ delay' = delay
  BY DEF Delete, Set
<1>3. (recent \in [Age -> Nat] /\ Cumulative /\ EntryCounts /\ LimitHolds)'
  <2>1. recent' \in [Age -> Nat] /\ \A a \in Age : recent'[a] = 0
    BY <1>2 DEF NothingRecent
  <2>2. 0 <= Limit /\ 0 <= 0 /\ ~ (0 > 0)
    BY CacheTypes
  <2> QED
    BY <2>1, <2>2 DEF Cumulative, EntryCounts, LimitHolds
<1> QED
  BY <1>1, <1>2, <1>3 DEF LimitInv, LimitTypes

LEMMA TickKeepsLimit ==
  ASSUME LimitInv, Tick
  PROVE  LimitInv'
<1>1. /\ item \in [value : Nat, left : Int] /\ recent \in [Age -> Nat]
      /\ delay \in [Client -> NotCalling .. MaxDelay]
      /\ Cumulative /\ EntryCounts /\ LimitHolds
  BY DEF LimitInv, LimitTypes
<1>2. /\ item' = [item EXCEPT !.left = Later(item.left)]
      /\ delay' = [c \in Client |-> IF delay[c] = NotCalling THEN NotCalling ELSE delay[c] + 1]
      /\ recent' = [a \in Age |-> IF a = 0 THEN 0 ELSE recent[a - 1]]
      /\ \A c \in Client : delay[c] < MaxDelay
  BY DEF Tick
<1>3. /\ item' \in [value : Nat, left : Int] /\ item'.value = item.value
      /\ item'.left = Later(item.left) /\ item.left \in Int /\ item.value \in Nat
  BY <1>1, <1>2 DEF Later
<1>4. delay' \in [Client -> NotCalling .. MaxDelay]
  <2>1. \A c \in Client : (IF delay[c] = NotCalling THEN NotCalling ELSE delay[c] + 1) \in NotCalling .. MaxDelay
    BY <1>1, <1>2, CacheTypes DEF NotCalling
  <2> QED
    BY <1>2, <2>1
<1>5. /\ \A a \in Age : a # 0 => a - 1 \in Age
      /\ \A a \in Age : a \in Int /\ a >= 0 /\ a <= Span
  BY CacheTypes
<1>6. /\ \A a \in Age : recent'[a] = IF a = 0 THEN 0 ELSE recent[a - 1]
      /\ recent' \in [Age -> Nat]
  <2>1. \A a \in Age : (IF a = 0 THEN 0 ELSE recent[a - 1]) \in Nat
    BY <1>1, <1>5
  <2> QED
    BY <1>2, <2>1
<1>7. LimitHolds'
  BY <1>1, <1>5, <1>6, CacheTypes DEF LimitHolds
<1>8. Cumulative'
  <2> SUFFICES ASSUME NEW a \in Age, NEW b \in Age, a <= b PROVE recent'[a] <= recent'[b]
    BY DEF Cumulative
  <2>1. CASE a = 0
    BY <1>6, <2>1, CacheTypes
  <2>2. CASE a # 0
    <3>1. b # 0 /\ a - 1 \in Age /\ b - 1 \in Age /\ a - 1 <= b - 1
      BY <1>5, <2>2
    <3> QED
      BY <1>1, <1>6, <2>2, <3>1 DEF Cumulative
  <2> QED
    BY <2>1, <2>2
<1>9. EntryCounts'
  <2> SUFFICES ASSUME NEW a \in Age, recent'[a] > 0
               PROVE  item'.left >= Span - a /\ item'.value >= recent'[Span]
    BY DEF EntryCounts
  <2>1. a # 0
    BY <1>6
  <2>2. a - 1 \in Age /\ recent[a - 1] > 0
    BY <1>5, <1>6, <2>1
  <2>3. item.left >= Span - (a - 1) /\ item.value >= recent[Span]
    BY <1>1, <2>2 DEF EntryCounts
  <2>4. item'.left >= Span - a
    BY <1>3, <1>5, <2>3, CacheTypes DEF Later
  <2>5. recent'[Span] <= recent[Span]
    <3>1. Span # 0 /\ Span - 1 \in Age /\ Span - 1 <= Span
      BY <1>5, <2>1, CacheTypes
    <3> QED
      BY <1>1, <1>6, <3>1, CacheTypes DEF Cumulative
  <2>6. recent'[Span] \in Nat /\ recent[Span] \in Nat
    BY <1>1, <1>6, CacheTypes
  <2> QED
    BY <1>3, <2>3, <2>4, <2>5, <2>6
<1> QED
  BY <1>3, <1>4, <1>6, <1>7, <1>8, <1>9 DEF LimitInv, LimitTypes

LEMMA AllowKeepsLimit ==
  ASSUME LimitInv, Limit < ByteRange, NEW c \in Client, AllowEnd(c)
  PROVE  LimitInv'
<1> DEFINE count == IF expired(item.left) THEN 0 ELSE item.value
           left  == Window - delay[c]
<1>1. /\ item \in [value : Nat, left : Int] /\ recent \in [Age -> Nat]
      /\ delay \in [Client -> NotCalling .. MaxDelay]
      /\ Cumulative /\ EntryCounts /\ LimitHolds
  BY DEF LimitInv, LimitTypes
<1>2. /\ delay[c] # NotCalling /\ delay' = [delay EXCEPT ![c] = NotCalling]
      /\ \/ /\ count < Limit /\ item' = [value |-> byte(count + 1), left |-> left]
            /\ recent' = [a \in Age |-> recent[a] + 1]
         \/ UNCHANGED <<item, recent>>
  BY DEF AllowEnd, Granted
<1>3. delay' \in [Client -> NotCalling .. MaxDelay]
  <2>1. NotCalling \in NotCalling .. MaxDelay
    BY CacheTypes DEF NotCalling
  <2> QED
    BY <1>1, <1>2, <2>1
<1>4. CASE UNCHANGED <<item, recent>>
  BY <1>1, <1>3, <1>4 DEF LimitInv, LimitTypes, Cumulative, EntryCounts, LimitHolds
<1>5. CASE /\ count < Limit /\ item' = [value |-> byte(count + 1), left |-> left]
           /\ recent' = [a \in Age |-> recent[a] + 1]
  <2>1. count \in Nat /\ left \in Int /\ left >= Span
    <3>1. delay[c] \in 0 .. MaxDelay
      BY <1>1, <1>2, CacheTypes DEF NotCalling
    <3> QED
      BY <1>1, <3>1, CacheTypes DEF Span
  <2>2. recent[Span] \in Nat /\ count >= recent[Span]
    <3>1. recent[Span] \in Nat
      BY <1>1, CacheTypes
    <3>2. recent[Span] > 0 => item.left >= 0 /\ item.value >= recent[Span]
      BY <1>1, CacheTypes DEF EntryCounts
    <3>3. item.left >= 0 => ~ expired(item.left)
      BY DEF expired, Passed
    <3> QED
      BY <2>1, <3>1, <3>2, <3>3
  <2> HIDE DEF count, left
  <2>3. count + 1 \in Nat /\ count + 1 <= Limit /\ byte(count + 1) = count + 1
    BY <1>5, <2>1, ByteKeeps, CacheTypes
  <2>4. /\ item' \in [value : Nat, left : Int] /\ item'.value = count + 1 /\ item'.left = left
    BY <1>5, <2>1, <2>3
  <2>5. /\ recent' \in [Age -> Nat] /\ \A a \in Age : recent'[a] = recent[a] + 1
    BY <1>1, <1>5
  <2>6. \A a \in Age : recent[a] \in Nat /\ recent[a] <= recent[Span] /\ a \in Nat
    BY <1>1, CacheTypes DEF Cumulative
  <2>7. Cumulative'
    BY <1>1, <2>5, <2>6 DEF Cumulative
  <2>8. LimitHolds'
    <3>1. recent[Span] <= count
      BY <2>2
    <3>2. ASSUME NEW a \in Age PROVE recent'[a] <= Limit
      <4>1. recent'[a] = recent[a] + 1 /\ recent[a] \in Nat /\ recent[a] <= recent[Span]
        BY <2>5, <2>6
      <4>2. recent[Span] \in Nat /\ count \in Int /\ Limit \in Nat
        BY <2>1, <2>6, CacheTypes
      <4> QED
        BY <2>3, <3>1, <4>1, <4>2
    <3> QED
      BY <3>2 DEF LimitHolds
  <2>9. EntryCounts'
    <3>1. \A a \in Age : left >= Span - a
      BY <2>1, <2>6, CacheTypes
    <3>2. count + 1 >= recent'[Span]
      BY <2>1, <2>2, <2>5, CacheTypes
    <3> QED
      BY <2>4, <3>1, <3>2 DEF EntryCounts
  <2> QED
    BY <1>3, <2>4, <2>5, <2>7, <2>8, <2>9 DEF LimitInv, LimitTypes
<1> QED
  BY <1>2, <1>4, <1>5

LEMMA LimitStep == Limit < ByteRange /\ LimitInv /\ [Next]_vars => LimitInv'
<1> SUFFICES ASSUME Limit < ByteRange, LimitInv, [Next]_vars PROVE LimitInv'
  OBVIOUS
<1>1. ASSUME UNCHANGED <<item, recent>>, delay' \in [Client -> NotCalling .. MaxDelay] PROVE LimitInv'
  BY <1>1 DEF LimitInv, LimitTypes, Cumulative, EntryCounts, LimitHolds
<1>2. ASSUME NEW c \in Client, AllowBegin(c) PROVE LimitInv'
  <2>1. UNCHANGED <<item, recent>> /\ delay' = [delay EXCEPT ![c] = 0]
    BY <1>2 DEF AllowBegin
  <2>2. 0 \in NotCalling .. MaxDelay
    BY CacheTypes DEF NotCalling
  <2>3. delay' \in [Client -> NotCalling .. MaxDelay]
    BY <2>1, <2>2 DEF LimitInv, LimitTypes
  <2> QED
    BY <1>1, <2>1, <2>3
<1>3. CASE UNCHANGED <<item, recent, delay>>
  BY <1>1, <1>3 DEF LimitInv, LimitTypes
<1> QED
  BY <1>2, <1>3, FreshKeepsLimit, TickKeepsLimit, AllowKeepsLimit DEF Next, Lock, Unlock, vars

\* A limit that fits in the byte of the counter holds: since the key was last set or deleted, no
\* span of the window less the time a call may wait for the mutex has seen more calls granted,
\* however many clients call with clock readings of different age.
THEOREM LimiterLimits == Limit < ByteRange => (Spec => []LimitHolds)
<1> SUFFICES ASSUME Limit < ByteRange PROVE Spec => []LimitHolds
  OBVIOUS
<1>1. LimitInv /\ [Next]_vars => LimitInv'
  BY LimitStep
<1>2. LimitInv => LimitHolds
  BY DEF LimitInv
<1> QED
  BY LimitInit, <1>1, <1>2, PTL DEF Spec

-----------------------------------------------------------------------------
(* The repository. *)

\* The repository has what was created and not deleted; only deleted ids are missing.
KeptIDs ==
    /\ seq \in Nat /\ seq <= MaxSeq
    /\ deleted \subseteq 1 .. seq
    /\ DOMAIN todos = (1 .. seq) \ deleted
    /\ missing \subseteq deleted

\* Todos and the copies that updates work on are todos; an update is of an id that was
\* given out.
KeptTodos ==
    /\ \A id \in DOMAIN todos : todos[id] \in Todo
    /\ call \in [Clients -> [id : Nat, todo : Todo]]
    /\ \A c \in Clients : call[c].id <= seq

\* An undisturbed update is of a todo that exists, and its copy has the title that
\* the todo has, or the new one.
QuietCopies ==
    /\ quiet \subseteq Clients
    /\ \A c \in quiet : /\ call[c].id \in DOMAIN todos
                        /\ call[c].todo.title \in {todos[call[c].id].title, "title"}

TodoInv == KeptIDs /\ KeptTodos /\ QuietCopies

LEMMA NoCallType == NoCall \in [id : Nat, todo : Todo] /\ NoCall.id = 0
BY DEF NoCall, Todo

LEMMA TodoInitInv == TodoInit => TodoInv
<1> SUFFICES ASSUME TodoInit PROVE TodoInv
  OBVIOUS
<1> DEFINE a == [title |-> "seed", done |-> TRUE]
           b == [title |-> "seed", done |-> FALSE]
<1>1. a \in Todo /\ b \in Todo
  BY DEF Todo
<1> HIDE DEF a, b
<1>2. /\ todos = <<a, b, b>> \/ todos = <<b, b>>
      /\ seq = Len(todos)
  BY DEF TodoInit, seedTodos, seedItems, a, b
<1>3. /\ seq \in Nat /\ seq <= MaxSeq /\ DOMAIN todos = 1 .. seq
      /\ \A id \in DOMAIN todos : todos[id] \in Todo
  BY <1>1, <1>2, TodoAssumption
<1>4. KeptIDs
  BY <1>3 DEF KeptIDs, TodoInit
<1>5. KeptTodos
  BY <1>3, NoCallType DEF KeptTodos, TodoInit
<1>6. QuietCopies
  BY DEF QuietCopies, TodoInit
<1> QED BY <1>4, <1>5, <1>6 DEF TodoInv

\* What answers leave behind: NOT_FOUND is said of ids that are not in the repository.
LEMMA AnswerKeeps ==
    ASSUME KeptIDs, NEW id, NEW code,
           Answer(code, id), code = "NOT_FOUND" => id \notin DOMAIN todos
    PROVE  missing' \subseteq deleted
BY DEF KeptIDs, Answer

\* A step that changes neither todos nor calls.
LEMMA AnswerOnlyKeeps ==
    ASSUME TodoInv, UNCHANGED <<seq, todos, call, deleted, quiet>>, missing' \subseteq deleted
    PROVE  TodoInv'
BY DEF TodoInv, KeptIDs, KeptTodos, QuietCopies

\* An id that is asked for and was given out is deleted or in the repository.
LEMMA RequestedIDs ==
    ASSUME TodoInv, NEW id \in Requested
    PROVE  /\ id \in Nat /\ (id \in DOMAIN todos => id <= seq)
           /\ id \notin DOMAIN todos => {id} \cap (1 .. seq) \subseteq deleted
BY DEF Requested, TodoInv, KeptIDs

LEMMA CreateKeeps ==
    ASSUME TodoInv, NEW title \in Titles, createTodo(title)
    PROVE  TodoInv'
<1>1. CASE validateTitle(title)
  <2> DEFINE todo == [title |-> title, done |-> FALSE]
  <2>1. /\ seq < MaxSeq /\ seq' = seq + 1
        /\ todos' = [id \in DOMAIN todos \cup {seq + 1} |-> IF id = seq + 1 THEN todo ELSE todos[id]]
        /\ missing' = missing /\ UNCHANGED <<call, deleted, quiet>>
    BY <1>1 DEF createTodo, Create, Answer, history
  <2>2. todo \in Todo
    BY <1>1 DEF validateTitle, Titles, Todo
  <2> HIDE DEF todo
  <2>3. seq + 1 \notin DOMAIN todos /\ seq + 1 \notin deleted
    BY DEF TodoInv, KeptIDs
  <2>4. /\ DOMAIN todos' = DOMAIN todos \cup {seq + 1}
        /\ todos'[seq + 1] = todo
        /\ \A id \in DOMAIN todos : todos'[id] = todos[id]
    BY <2>1, <2>3
  <2>5. KeptIDs'
    <3>1. seq' \in Nat /\ seq' <= MaxSeq /\ 1 .. seq' = (1 .. seq) \cup {seq + 1}
      BY <2>1, TodoAssumption DEF TodoInv, KeptIDs
    <3> QED BY <2>1, <2>3, <2>4, <3>1 DEF TodoInv, KeptIDs
  <2>6. KeptTodos'
    BY <2>1, <2>2, <2>4 DEF TodoInv, KeptTodos, KeptIDs
  <2>7. QuietCopies'
    BY <2>1, <2>4 DEF TodoInv, QuietCopies
  <2> QED BY <2>5, <2>6, <2>7 DEF TodoInv
<1>2. CASE ~ validateTitle(title)
  BY <1>2, AnswerOnlyKeeps DEF createTodo, history, TodoInv, KeptIDs, Answer, toGRPCError
<1> QED BY <1>1, <1>2

LEMMA GetKeeps ==
    ASSUME TodoInv, NEW id \in Requested, getTodo(id)
    PROVE  TodoInv'
<1>1. missing' \subseteq deleted
  BY AnswerKeeps DEF getTodo, TodoInv, FindByID, Requested, Answer, KeptIDs
<1> QED BY <1>1, AnswerOnlyKeeps DEF getTodo, history

LEMMA ListKeeps ==
    ASSUME TodoInv, NEW p, NEW pageSize, listPage(p, pageSize)
    PROVE  TodoInv'
<1>1. missing' = missing /\ UNCHANGED <<seq, todos, call, deleted, quiet>>
  BY DEF listPage, Answer, history
<1> QED BY <1>1, AnswerOnlyKeeps DEF TodoInv, KeptIDs

LEMMA DeleteKeeps ==
    ASSUME TodoInv, NEW id \in Requested, deleteTodo(id)
    PROVE  TodoInv'
<1>1. CASE id \in DOMAIN todos
  <2>1. /\ todos' = [i \in DOMAIN todos \ {id} |-> todos[i]]
        /\ missing' = missing /\ deleted' = deleted \cup {id}
        /\ quiet' = {u \in quiet : call[u].id # id} /\ UNCHANGED <<seq, call>>
    BY <1>1 DEF deleteTodo, DeleteTodoRepo, Answer, Disturb, FindByID
  <2>2. /\ DOMAIN todos' = DOMAIN todos \ {id}
        /\ \A i \in DOMAIN todos' : todos'[i] = todos[i]
    BY <2>1
  <2>3. KeptIDs'
    BY <1>1, <2>1, <2>2 DEF TodoInv, KeptIDs
  <2>4. KeptTodos'
    BY <2>1, <2>2 DEF TodoInv, KeptTodos
  <2>5. QuietCopies'
    BY <2>1, <2>2 DEF TodoInv, QuietCopies
  <2> QED BY <2>3, <2>4, <2>5 DEF TodoInv
<1>2. CASE id \notin DOMAIN todos
  <2>1. Answer("NOT_FOUND", id) /\ UNCHANGED <<seq, todos, call, deleted, quiet>>
    BY <1>2 DEF deleteTodo, DeleteTodoRepo, history, toGRPCError
  <2>2. missing' \subseteq deleted
    BY <1>2, <2>1 DEF Answer, TodoInv, KeptIDs, Requested
  <2> QED BY <2>1, <2>2, AnswerOnlyKeeps
<1> QED BY <1>1, <1>2

\* The copy of an update, and the title it has.
LEMMA EditType ==
    ASSUME NEW todo \in Todo, NEW input, input.title \in Titles,
           input.title = "" \/ validateTitle(input.title)
    PROVE  /\ input.done \in BOOLEAN => /\ editTodo(todo, input) \in Todo
                                        /\ editTodo(todo, input).title \in {todo.title, "title"}
           /\ editItem(todo, input) \in Todo
           /\ editItem(todo, input).title \in {todo.title, "title"}
<1>1. input.title \in {"", "title"}
  BY DEF Titles, validateTitle
<1>2. todo.title \in {"seed", "title"} /\ todo.done \in BOOLEAN
  BY DEF Todo
<1>3. input.done \in BOOLEAN => /\ editTodo(todo, input) \in Todo
                                /\ editTodo(todo, input).title \in {todo.title, "title"}
  BY <1>1, <1>2 DEF editTodo, Todo
<1>4. editItem(todo, input) \in Todo /\ editItem(todo, input).title \in {todo.title, "title"}
  BY <1>1, <1>2 DEF editItem, Todo
<1> QED BY <1>3, <1>4

LEMMA ReadKeeps ==
    ASSUME TodoInv, NEW c \in Clients, NEW id \in Requested, NEW title, NEW edited,
           id \in DOMAIN todos /\ (title = "" \/ validateTitle(title)) =>
               edited \in Todo /\ edited.title \in {todos[id].title, "title"},
           readTodo(c, id, title, edited)
    PROVE  TodoInv'
<1>1. CASE UNCHANGED <<call, quiet>>
  <2>1. missing' = missing \/ (id \notin DOMAIN todos /\ missing' = missing \cup ({id} \cap (1 .. seq)))
    BY DEF readTodo, Answer, toGRPCError, FindByID
  <2>2. missing' \subseteq deleted
    <3>1. missing \subseteq deleted
      BY DEF TodoInv, KeptIDs
    <3>2. id \notin DOMAIN todos => {id} \cap (1 .. seq) \subseteq deleted
      BY RequestedIDs
    <3> QED BY <2>1, <3>1, <3>2
  <2> QED BY <1>1, <2>2, AnswerOnlyKeeps DEF readTodo
<1>2. CASE ~ UNCHANGED <<call, quiet>>
  <2> DEFINE r == [id |-> id, todo |-> edited]
  <2>1. /\ id \in DOMAIN todos /\ (title = "" \/ validateTitle(title))
        /\ call' = [call EXCEPT ![c] = r] /\ quiet' = quiet \cup {c}
        /\ UNCHANGED <<seq, todos, missing, deleted>>
    BY <1>2 DEF readTodo, FindByID
  <2>2. /\ r \in [id : Nat, todo : Todo] /\ r.id = id /\ r.id <= seq
        /\ r.todo.title \in {todos[id].title, "title"}
    <3>1. id \in Nat /\ id <= seq
      BY <2>1, RequestedIDs
    <3>2. edited \in Todo /\ edited.title \in {todos[id].title, "title"}
      BY <2>1
    <3> QED BY <3>1, <3>2
  <2> HIDE DEF r
  <2>3. KeptIDs'
    BY <2>1 DEF TodoInv, KeptIDs
  <2>4. KeptTodos'
    BY <2>1, <2>2 DEF TodoInv, KeptTodos
  <2>5. QuietCopies'
    BY <2>1, <2>2 DEF TodoInv, QuietCopies, KeptTodos
  <2> QED BY <2>3, <2>4, <2>5 DEF TodoInv
<1> QED BY <1>1, <1>2

LEMMA UpdateKeeps ==
    ASSUME TodoInv, NEW c \in Clients, UpdateTodo(c) \/ UpdateItem(c)
    PROVE  TodoInv'
<1>1. CASE UpdateTodo(c)
  <2>1. PICK id \in Requested, input \in [title : Titles, done : BOOLEAN] :
            readTodo(c, id, input.title, editTodo(todos[id], input))
    BY <1>1 DEF UpdateTodo
  <2>2. id \in DOMAIN todos => todos[id] \in Todo
    BY DEF TodoInv, KeptTodos
  <2>3. input.title \in Titles /\ input.done \in BOOLEAN
    OBVIOUS
  <2> QED BY <2>1, <2>2, <2>3, EditType, ReadKeeps
<1>2. CASE UpdateItem(c)
  <2>1. PICK id \in Requested, input \in [title : Titles] :
            readTodo(c, id, input.title, editItem(todos[id], input))
    BY <1>2 DEF UpdateItem
  <2>2. id \in DOMAIN todos => todos[id] \in Todo
    BY DEF TodoInv, KeptTodos
  <2>3. input.title \in Titles
    OBVIOUS
  <2> QED BY <2>1, <2>2, <2>3, EditType, ReadKeeps
<1> QED BY <1>1, <1>2

LEMMA SaveKeeps ==
    ASSUME TodoInv, NEW c \in Clients, saveTodo(c)
    PROVE  TodoInv'
<1> DEFINE id == call[c].id
           todo == call[c].todo
<1>1. call' = [call EXCEPT ![c] = NoCall] /\ UNCHANGED <<seq, deleted>> /\ id # 0
  BY DEF saveTodo
<1>2. id \in 0 .. seq /\ todo \in Todo
  BY DEF TodoInv, KeptTodos, KeptIDs
<1>3. CASE id \in DOMAIN todos
  <2>1. /\ todos' = [todos EXCEPT ![id] = todo] /\ missing' = missing
        /\ quiet' = {u \in quiet : call[u].id # id}
    BY <1>3 DEF saveTodo, Update, Answer, Disturb, FindByID
  <2> HIDE DEF id, todo
  <2>2. DOMAIN todos' = DOMAIN todos /\ \A i \in DOMAIN todos : todos'[i] = IF i = id THEN todo ELSE todos[i]
    BY <2>1
  <2>3. KeptIDs'
    BY <1>1, <2>1, <2>2 DEF TodoInv, KeptIDs
  <2>4. KeptTodos'
    BY <1>1, <1>2, <2>2, NoCallType DEF TodoInv, KeptTodos, KeptIDs
  <2>5. QuietCopies'
    <3>1. \A u \in quiet' : u \in quiet /\ u \in Clients /\ u # c /\ call[u].id # id
      BY <2>1 DEF id, TodoInv, QuietCopies
    <3>2. \A u \in quiet' : call'[u] = call[u] /\ todos'[call[u].id] = todos[call[u].id]
      BY <1>1, <2>2, <3>1 DEF TodoInv, KeptTodos, QuietCopies
    <3> QED BY <2>2, <3>1, <3>2 DEF TodoInv, QuietCopies
  <2> QED BY <2>3, <2>4, <2>5 DEF TodoInv
<1>4. CASE id \notin DOMAIN todos
  <2>1. todos' = todos /\ Answer("NOT_FOUND", id) /\ quiet' = quiet \ {c}
    BY <1>4 DEF saveTodo, Update, toGRPCError
  <2> HIDE DEF id
  <2>2. missing' \subseteq deleted
    <3>1. id \in deleted \cup {0}
      BY <1>2, <1>4 DEF TodoInv, KeptIDs
    <3>2. missing' = missing \cup ({id} \cap (1 .. seq))
      BY <2>1 DEF Answer
    <3> QED BY <1>1, <3>1, <3>2 DEF TodoInv, KeptIDs
  <2>3. KeptIDs'
    BY <1>1, <2>1, <2>2 DEF TodoInv, KeptIDs
  <2>4. KeptTodos'
    BY <1>1, <2>1, NoCallType DEF TodoInv, KeptTodos, KeptIDs
  <2>5. QuietCopies'
    BY <1>1, <2>1 DEF TodoInv, QuietCopies, KeptTodos
  <2> QED BY <2>3, <2>4, <2>5 DEF TodoInv
<1> QED BY <1>3, <1>4

LEMMA TodoNextInv == TodoInv /\ [TodoNext]_todoVars => TodoInv'
<1> SUFFICES ASSUME TodoInv, [TodoNext]_todoVars PROVE TodoInv'
  OBVIOUS
<1>1. CASE UNCHANGED todoVars
  BY <1>1, AnswerOnlyKeeps DEF todoVars, TodoInv, KeptIDs
<1>2. CASE CreateTodo \/ CreateItem
  BY <1>2, CreateKeeps DEF CreateTodo, CreateItem
<1>3. CASE GetTodo \/ GetItem
  BY <1>3, GetKeeps DEF GetTodo, GetItem
<1>4. CASE ListTodos \/ ListItems
  BY <1>4, ListKeeps DEF ListTodos, ListItems
<1>5. CASE DeleteTodo \/ DeleteItem
  BY <1>5, DeleteKeeps DEF DeleteTodo, DeleteItem
<1>6. CASE \E c \in Clients : UpdateTodo(c) \/ UpdateItem(c) \/ saveTodo(c)
  BY <1>6, UpdateKeeps, SaveKeeps
<1> QED BY <1>1, <1>2, <1>3, <1>4, <1>5, <1>6 DEF TodoNext

LEMMA TodoInvHolds == TodoSpec => []TodoInv
BY TodoInitInv, TodoNextInv, PTL DEF TodoSpec

\* The repository holds exactly what was created and not deleted, whatever updates were
\* in progress, and NOT_FOUND stays true of every id that had been given out, for any
\* number of clients.
THEOREM DeletedTodosStayDeleted == TodoSpec => []DeletedStaysDeleted
<1>1. TodoInv => DeletedStaysDeleted
  BY DEF TodoInv, KeptIDs, DeletedStaysDeleted
<1> QED BY <1>1, TodoInvHolds, PTL

\* The end of an update that nobody disturbed.
LEMMA QuietSaveKeepsTitle ==
    ASSUME TodoInv, TodoNext, NEW c \in quiet, call'[c].id = 0, call[c].id \in DOMAIN todos
    PROVE  todos'[call[c].id].title \in {todos[call[c].id].title, "title"}
<1>1. /\ c \in Clients /\ call[c].id # 0
      /\ call[c].todo.title \in {todos[call[c].id].title, "title"}
  BY DEF TodoInv, QuietCopies, KeptIDs
<1>2. call' # call
  BY <1>1
<1>3. PICK d \in Clients : UpdateTodo(d) \/ UpdateItem(d) \/ saveTodo(d)
  BY <1>2 DEF TodoNext, CreateTodo, CreateItem, createTodo, GetTodo, GetItem, getTodo,
              ListTodos, ListItems, listPage, DeleteTodo, DeleteItem, deleteTodo
<1>4. ASSUME UpdateTodo(d) \/ UpdateItem(d) PROVE FALSE
  <2>1. PICK id, edited : call' = [call EXCEPT ![d] = [id |-> id, todo |-> edited]] /\ call[d].id = 0
    BY <1>2, <1>4 DEF UpdateTodo, UpdateItem, readTodo
  <2>2. c # d
    BY <1>1, <2>1
  <2> QED BY <1>1, <2>1, <2>2
<1>5. saveTodo(d) /\ call' = [call EXCEPT ![d] = NoCall]
  BY <1>3, <1>4 DEF saveTodo
<1>6. c = d
  BY <1>1, <1>5
<1>7. todos' = [todos EXCEPT ![call[c].id] = call[c].todo]
  BY <1>5, <1>6 DEF saveTodo, Update, FindByID
<1> QED BY <1>1, <1>7

\* An undisturbed update keeps the title unless it was given another.
THEOREM UpdatesKeepTitles == TodoSpec => UndisturbedUpdateKeepsTitle
<1>1. TodoInv /\ [TodoNext]_todoVars =>
        [\A c \in quiet : call'[c].id = 0 /\ call[c].id \in DOMAIN todos =>
           todos'[call[c].id].title \in {todos[call[c].id].title, "title"}]_todoVars
  BY QuietSaveKeepsTitle
<1> QED BY <1>1, TodoInvHolds, PTL DEF TodoSpec, UndisturbedUpdateKeepsTitle

-----------------------------------------------------------------------------
(* Ids as text.  Induction goes by least elements: a set of counterexamples *)
(* would have a least one.                                                  *)

\* Every nonempty set of natural numbers has a least element.
LEMMA LeastOf ==
  ASSUME NEW T \in SUBSET Nat, T # {}
  PROVE \E x \in T : \A y \in T : x <= y
<1> DEFINE R == {ss \in Nat \X Nat : ss[1] < ss[2]}
<1>1. IsWellFoundedOn(R, Nat)
  BY NatLessThanWellFounded DEF OpToRel
<1>2. \A x, y \in Nat : x < y => <<x, y>> \in R
  OBVIOUS
<1> HIDE DEF R
<1>3. PICK x \in T : \A y \in T : ~ (<<y, x>> \in R)
  BY <1>1, WFMin
<1>4. \A y \in T : x <= y
  <2> SUFFICES ASSUME NEW y \in T, ~ (x <= y) PROVE FALSE
    OBVIOUS
  <2>1. x \in Nat /\ y \in Nat /\ y < x
    OBVIOUS
  <2> QED BY <1>2, <1>3, <2>1
<1> QED BY <1>4

\* Dividing by the radix makes a number smaller.
LEMMA Quotient ==
  ASSUME NEW n \in Nat, n >= Radix
  PROVE  /\ n \div Radix \in 0 .. n - 1 /\ n % Radix \in 0 .. Radix - 1
         /\ n = Radix * (n \div Radix) + (n % Radix)
<1>1. /\ n \div Radix \in Int /\ n % Radix \in 0 .. Radix - 1
      /\ n = Radix * (n \div Radix) + (n % Radix)
  BY TodoAssumption
<1>2. ASSUME NEW q \in Int, NEW r \in 0 .. Radix - 1, n = Radix * q + r PROVE q \in 0 .. n - 1
  <2>1. Radix \in Int /\ Radix >= 2
    BY TodoAssumption
  <2>2. CASE q < 0
    <3>1. Radix * q <= -Radix
      BY <2>1, <2>2
    <3> QED BY <1>2, <2>1, <3>1
  <2>3. CASE q >= n
    <3>1. Radix * q >= 2 * q
      BY <2>1, <2>3
    <3> QED BY <1>2, <2>1, <2>3, <3>1
  <2> QED BY <2>2, <2>3
<1> QED BY <1>1, <1>2

DigitsUpTo(f, m) ==
    f = [n \in 0 .. m |-> IF n < Radix THEN <<n>> ELSE Append(f[n \div Radix], n % Radix)]

\* The recursion of formatInt ends: there is a function that satisfies its equation.
LEMMA DigitsExist ==
    ASSUME NEW m \in Nat
    PROVE  \E f : DigitsUpTo(f, m)
<1> DEFINE T == {n \in Nat : ~ \E f : DigitsUpTo(f, n)}
<1> SUFFICES ASSUME T # {} PROVE FALSE
  OBVIOUS
<1>1. PICK x \in T : \A y \in T : x <= y
  BY LeastOf, Zenon
<1>2. x \in Nat /\ ~ \E f : DigitsUpTo(f, x)
  OBVIOUS
<1>3. \A y \in Nat : y < x => \E f : DigitsUpTo(f, y)
  BY <1>1
<1> HIDE DEF T
<1>4. CASE x = 0
  <2> DEFINE f == [n \in 0 .. 0 |-> <<n>>]
  <2>1. DigitsUpTo(f, 0)
    BY TodoAssumption DEF DigitsUpTo
  <2> QED BY <1>2, <1>4, <2>1
<1>5. CASE x > 0
  <2>1. PICK f : DigitsUpTo(f, x - 1)
    BY <1>2, <1>3, <1>5
  <2> DEFINE d(n) == IF n < Radix THEN <<n>> ELSE Append(f[n \div Radix], n % Radix)
             g == [n \in 0 .. x |-> d(n)]
  <2>2. \A n \in 0 .. x - 1 : f[n] = d(n)
    BY <2>1 DEF DigitsUpTo
  <2> HIDE DEF d
  <2>3. \A n \in 0 .. x : n >= Radix => n \div Radix \in 0 .. x - 1
    BY <1>2, Quotient
  <2>4. \A n \in 0 .. x - 1 : g[n] = f[n]
    BY <1>2, <2>2
  <2>5. \A n \in 0 .. x : d(n) = IF n < Radix THEN <<n>> ELSE Append(g[n \div Radix], n % Radix)
    <3> SUFFICES ASSUME NEW n \in 0 .. x
                 PROVE  d(n) = IF n < Radix THEN <<n>> ELSE Append(g[n \div Radix], n % Radix)
      OBVIOUS
    <3>1. CASE n < Radix
      BY <3>1 DEF d
    <3>2. CASE ~ (n < Radix)
      <4>1. n >= Radix
        BY <1>2, <3>2, TodoAssumption
      <4>2. g[n \div Radix] = f[n \div Radix]
        BY <2>3, <2>4, <4>1
      <4> QED BY <3>2, <4>2 DEF d
    <3> QED BY <3>1, <3>2
  <2>6. DigitsUpTo(g, x)
    BY <2>5, Zenon DEF DigitsUpTo
  <2> QED BY <1>2, <2>6
<1> QED BY <1>2, <1>4, <1>5

\* formatInt satisfies its equation.
LEMMA FormatInt ==
    ASSUME NEW n \in 0 .. MaxSeq
    PROVE  /\ n < Radix => formatInt[n] = <<n>>
           /\ n >= Radix => formatInt[n] = Append(formatInt[n \div Radix], n % Radix)
<1>1. \E f : DigitsUpTo(f, MaxSeq)
  BY DigitsExist, TodoAssumption
<1>2. DigitsUpTo(formatInt, MaxSeq)
  BY <1>1, Zenon DEF formatInt, DigitsUpTo
<1>3. formatInt[n] = IF n < Radix THEN <<n>> ELSE Append(formatInt[n \div Radix], n % Radix)
  BY <1>2 DEF DigitsUpTo
<1>4. n >= Radix => ~ (n < Radix)
  BY TodoAssumption
<1> QED BY <1>3, <1>4

LEMMA Longer ==
    ASSUME NEW s \in Seq(Nat), NEW a \in Nat
    PROVE  /\ Append(s, a) \in Seq(Nat) /\ Append(s, a) # <<>>
           /\ Len(Append(s, a)) = Len(s) + 1 /\ Len(s) \in Nat
<1>1. Len(Append(s, a)) = Len(s) + 1 /\ Len(s) \in Nat /\ Append(s, a) \in Seq(Nat)
  OBVIOUS
<1>2. Len(Append(s, a)) # 0
  BY <1>1
<1> QED BY <1>1, <1>2

\* An id is written with at least one digit, and an id that does not fit in one
\* with more.
LEMMA FormatType ==
    ASSUME NEW n \in 0 .. MaxSeq
    PROVE  formatInt[n] \in Seq(Nat) /\ formatInt[n] # <<>>
<1> DEFINE T == {k \in 0 .. MaxSeq : ~ (formatInt[k] \in Seq(Nat) /\ formatInt[k] # <<>>)}
<1> SUFFICES ASSUME T # {} PROVE FALSE
  OBVIOUS
<1>1. T \in SUBSET Nat
  BY TodoAssumption
<1>2. PICK x \in T : \A y \in T : x <= y
  BY <1>1, LeastOf
<1>3. x \in 0 .. MaxSeq /\ ~ (formatInt[x] \in Seq(Nat) /\ formatInt[x] # <<>>)
  OBVIOUS
<1>4. \A y \in 0 .. MaxSeq : y < x => formatInt[y] \in Seq(Nat)
  BY <1>2, TodoAssumption
<1> HIDE DEF T
<1>5. CASE x < Radix
  <2>1. formatInt[x] = <<x>>
    BY <1>3, <1>5, FormatInt
  <2> QED BY <1>3, <2>1, TodoAssumption
<1>6. CASE x >= Radix
  <2>1. formatInt[x] = Append(formatInt[x \div Radix], x % Radix)
    BY <1>3, <1>6, FormatInt
  <2>2. x \div Radix \in 0 .. x - 1 /\ x % Radix \in 0 .. Radix - 1
    BY <1>3, <1>6, Quotient, TodoAssumption
  <2>3. x \div Radix \in 0 .. MaxSeq /\ x \div Radix < x /\ x % Radix \in Nat
    BY <1>3, <2>2, TodoAssumption
  <2>4. formatInt[x \div Radix] \in Seq(Nat)
    BY <1>4, <2>3
  <2> QED BY <1>3, <2>1, <2>3, <2>4, Longer
<1> QED BY <1>3, <1>5, <1>6, TodoAssumption

\* What the digits say of the number.
LEMMA FormatCases ==
    ASSUME NEW n \in 0 .. MaxSeq
    PROVE  /\ n < Radix => formatInt[n] = <<n>>
           /\ n >= Radix => /\ n \div Radix \in 0 .. MaxSeq /\ n \div Radix < n
                            /\ n = Radix * (n \div Radix) + (n % Radix)
                            /\ Len(formatInt[n]) = Len(formatInt[n \div Radix]) + 1
                            /\ formatInt[n] = Append(formatInt[n \div Radix], n % Radix)
                            /\ Len(formatInt[n]) > 1
<1>1. n < Radix => formatInt[n] = <<n>>
  BY FormatInt
<1>2. ASSUME n >= Radix
      PROVE  /\ n \div Radix \in 0 .. MaxSeq /\ n \div Radix < n
             /\ n = Radix * (n \div Radix) + (n % Radix)
             /\ Len(formatInt[n]) = Len(formatInt[n \div Radix]) + 1
             /\ formatInt[n] = Append(formatInt[n \div Radix], n % Radix)
             /\ Len(formatInt[n]) > 1
  <2>1. formatInt[n] = Append(formatInt[n \div Radix], n % Radix)
    BY <1>2, FormatInt
  <2>2. /\ n \div Radix \in 0 .. n - 1 /\ n % Radix \in 0 .. Radix - 1
        /\ n = Radix * (n \div Radix) + (n % Radix)
    BY <1>2, Quotient, TodoAssumption
  <2>3. n \div Radix \in 0 .. MaxSeq /\ n \div Radix < n /\ n % Radix \in Nat
    BY <2>2, TodoAssumption
  <2>4. formatInt[n \div Radix] \in Seq(Nat) /\ formatInt[n \div Radix] # <<>>
    BY <2>3, FormatType
  <2>5. Len(formatInt[n]) = Len(formatInt[n \div Radix]) + 1 /\ Len(formatInt[n]) > 1
    <3>1. Len(formatInt[n \div Radix]) \in Nat /\ Len(formatInt[n \div Radix]) # 0
      BY <2>4
    <3>2. Len(formatInt[n]) = Len(formatInt[n \div Radix]) + 1
      BY <2>1, <2>3, <2>4, Longer
    <3> QED BY <3>1, <3>2
  <2> QED BY <2>1, <2>2, <2>3, <2>5
<1> QED BY <1>1, <1>2

LEMMA AppendSame ==
    ASSUME NEW s \in Seq(Nat), NEW t \in Seq(Nat), NEW a \in Nat, NEW b \in Nat,
           Append(s, a) = Append(t, b)
    PROVE  s = t /\ a = b
<1>1. Len(Append(s, a)) = Len(s) + 1 /\ Len(Append(t, b)) = Len(t) + 1
  OBVIOUS
<1>2. Len(s) = Len(t) /\ Len(s) \in Nat
  BY <1>1
<1>3. a = b
  BY <1>2
<1>4. \A i \in 1 .. Len(s) : Append(s, a)[i] = s[i] /\ Append(t, b)[i] = t[i]
  BY <1>2
<1>5. s = t
  BY <1>2, <1>4
<1> QED BY <1>3, <1>5

\* Different ids are written differently.
LEMMA FormatInjective ==
    ASSUME NEW m \in 0 .. MaxSeq, NEW n \in 0 .. MaxSeq, formatInt[m] = formatInt[n]
    PROVE  m = n
<1> DEFINE T == {k \in 0 .. MaxSeq : \E j \in 0 .. MaxSeq : formatInt[j] = formatInt[k] /\ j # k}
<1> SUFFICES ASSUME T # {} PROVE FALSE
  OBVIOUS
<1>1. T \in SUBSET Nat
  BY TodoAssumption
<1>2. PICK x \in T : \A y \in T : x <= y
  BY <1>1, LeastOf
<1>3. PICK j \in 0 .. MaxSeq : formatInt[j] = formatInt[x] /\ j # x
  OBVIOUS
<1>4. x \in 0 .. MaxSeq
  OBVIOUS
<1>5. \A y, z \in 0 .. MaxSeq : y < x /\ formatInt[y] = formatInt[z] => y = z
  BY <1>2, <1>4, TodoAssumption
<1> HIDE DEF T
<1>6. CASE x < Radix
  <2>1. formatInt[x] = <<x>> /\ Len(<<x>>) = 1
    BY <1>4, <1>6, FormatCases
  <2>2. Len(formatInt[j]) = 1
    BY <1>3, <2>1
  <2>3. j >= Radix => Len(formatInt[j]) > 1
    BY FormatCases
  <2>4. j < Radix
    BY <2>2, <2>3, TodoAssumption
  <2>5. <<j>> = <<x>>
    BY <1>3, <2>1, <2>4, FormatCases
  <2> QED BY <1>3, <2>5
<1>7. CASE x >= Radix
  <2>1. /\ x \div Radix \in 0 .. MaxSeq /\ x \div Radix < x
        /\ x = Radix * (x \div Radix) + (x % Radix)
        /\ formatInt[x] = Append(formatInt[x \div Radix], x % Radix)
        /\ Len(formatInt[x]) > 1
    BY <1>4, <1>7, FormatCases
  <2>2. j >= Radix
    <3>1. j < Radix => Len(formatInt[j]) = 1
      <4>1. j < Radix => formatInt[j] = <<j>>
        BY FormatCases
      <4> QED BY <4>1
    <3> QED BY <1>3, <2>1, <3>1, TodoAssumption
  <2>3. /\ j \div Radix \in 0 .. MaxSeq
        /\ j = Radix * (j \div Radix) + (j % Radix)
        /\ formatInt[j] = Append(formatInt[j \div Radix], j % Radix)
    BY <2>2, FormatCases
  <2>4. x % Radix \in Nat /\ j % Radix \in Nat
    BY <1>4, <1>7, <2>2, Quotient, TodoAssumption
  <2>5. formatInt[x \div Radix] \in Seq(Nat) /\ formatInt[j \div Radix] \in Seq(Nat)
    BY <2>1, <2>3, FormatType
  <2> DEFINE fx == formatInt[x \div Radix]
             fj == formatInt[j \div Radix]
             dx == x % Radix
             dj == j % Radix
  <2>6. fx \in Seq(Nat) /\ fj \in Seq(Nat) /\ dx \in Nat /\ dj \in Nat /\ Append(fx, dx) = Append(fj, dj)
    BY <1>3, <2>1, <2>3, <2>4, <2>5
  <2>7. formatInt[x \div Radix] = formatInt[j \div Radix] /\ x % Radix = j % Radix
    <3> HIDE DEF fx, fj, dx, dj
    <3>1. fx = fj /\ dx = dj
      BY <2>6, AppendSame
    <3> QED BY <3>1 DEF fx, fj, dx, dj
  <2>8. x \div Radix = j \div Radix
    BY <1>5, <2>1, <2>3, <2>7
  <2> QED BY <1>3, <2>1, <2>3, <2>7, <2>8
<1> QED BY <1>4, <1>6, <1>7, TodoAssumption

-----------------------------------------------------------------------------
(* The order of a listing. *)

\* Go's < orders texts strictly.
LEMMA TextLessIrreflexive ==
    ASSUME NEW s \in Seq(Nat)
    PROVE  ~ TextLess(s, s)
BY DEF TextLess

\* Texts that agree before place i, where the first ends or has the smaller digit.
LEMMA TextLessAt ==
    ASSUME NEW s, NEW t, NEW i \in 1 .. Len(t), i <= Len(s) + 1,
           \A j \in 1 .. i - 1 : s[j] = t[j], i = Len(s) + 1 \/ s[i] < t[i]
    PROVE  TextLess(s, t)
BY DEF TextLess

\* The first place where s or t ends or has the smaller digit decides about s and u.
LEMMA TextLessChain ==
    ASSUME NEW s, NEW t, NEW u, NEW a \in Nat, NEW b \in Nat, NEW c \in Nat,
           a = Len(s), b = Len(t), c = Len(u),
           \A j \in 1 .. a : s[j] \in Nat, \A j \in 1 .. b : t[j] \in Nat, \A j \in 1 .. c : u[j] \in Nat,
           NEW i \in 1 .. b, i <= a + 1, \A j \in 1 .. i - 1 : s[j] = t[j], i = a + 1 \/ s[i] < t[i],
           NEW k \in 1 .. c, k <= b + 1, \A j \in 1 .. k - 1 : t[j] = u[j], k = b + 1 \/ t[k] < u[k]
    PROVE  TextLess(s, u)
<1>1. CASE i < k
  <2>1. i \in 1 .. c /\ i \in 1 .. k - 1
    BY <1>1
  <2>2. t[i] = u[i]
    BY <2>1
  <2>3. \A j \in 1 .. i - 1 : s[j] = u[j]
    BY <2>1
  <2> QED BY <2>1, <2>2, <2>3, TextLessAt
<1>2. CASE i = k
  <2>1. t[k] < u[k]
    BY <1>2
  <2>2. \A j \in 1 .. i - 1 : s[j] = u[j]
    BY <1>2
  <2>3. i = a + 1 \/ s[i] < u[i]
    <3> SUFFICES ASSUME i # a + 1 PROVE s[i] < u[i]
      OBVIOUS
    <3>1. i \in 1 .. a /\ i \in 1 .. c
      BY <1>2
    <3>2. s[i] \in Nat /\ t[i] \in Nat /\ u[i] \in Nat /\ s[i] < t[i] /\ t[i] < u[i]
      BY <1>2, <2>1, <3>1
    <3> QED BY <3>2
  <2> QED BY <1>2, <2>2, <2>3, TextLessAt
<1>3. CASE i > k
  <2>1. k \in 1 .. i - 1 /\ k <= a + 1 /\ k # b + 1
    BY <1>3
  <2>2. s[k] = t[k] /\ t[k] < u[k]
    BY <2>1
  <2>3. \A j \in 1 .. k - 1 : s[j] = u[j]
    BY <2>1
  <2> QED BY <2>1, <2>2, <2>3, TextLessAt
<1> QED BY <1>1, <1>2, <1>3

LEMMA TextType ==
    ASSUME NEW s \in Seq(Nat)
    PROVE  Len(s) \in Nat /\ \A j \in 1 .. Len(s) : s[j] \in Nat
OBVIOUS

LEMMA TextLessTransitive ==
    ASSUME NEW s \in Seq(Nat), NEW t \in Seq(Nat), NEW u \in Seq(Nat),
           TextLess(s, t), TextLess(t, u)
    PROVE  TextLess(s, u)
<1>1. PICK i \in 1 .. Len(t) : /\ i <= Len(s) + 1
                               /\ \A j \in 1 .. i - 1 : s[j] = t[j]
                               /\ i = Len(s) + 1 \/ s[i] < t[i]
  BY DEF TextLess
<1>2. PICK k \in 1 .. Len(u) : /\ k <= Len(t) + 1
                               /\ \A j \in 1 .. k - 1 : t[j] = u[j]
                               /\ k = Len(t) + 1 \/ t[k] < u[k]
  BY DEF TextLess
<1>3. /\ Len(s) \in Nat /\ \A j \in 1 .. Len(s) : s[j] \in Nat
      /\ Len(t) \in Nat /\ \A j \in 1 .. Len(t) : t[j] \in Nat
      /\ Len(u) \in Nat /\ \A j \in 1 .. Len(u) : u[j] \in Nat
  BY TextType
<1> QED BY <1>1, <1>2, <1>3, TextLessChain

\* Texts that differ at some place are ordered by the first such place.
LEMMA TextsDiffer ==
    ASSUME NEW s, NEW t, NEW a \in Nat, NEW b \in Nat, a = Len(s), b = Len(t),
           \A j \in 1 .. a : s[j] \in Nat, \A j \in 1 .. b : t[j] \in Nat,
           NEW i \in 1 .. a, i <= b, s[i] # t[i]
    PROVE  TextLess(s, t) \/ TextLess(t, s)
<1> DEFINE D == {j \in 1 .. a : j <= b /\ s[j] # t[j]}
<1>1. D \in SUBSET Nat /\ D # {}
  <2>1. \A j \in 1 .. a : j \in Nat
    OBVIOUS
  <2>2. i \in D
    OBVIOUS
  <2> QED BY <2>1, <2>2
<1>2. PICK x \in D : \A y \in D : x <= y
  BY <1>1, LeastOf
<1>3. x \in 1 .. a /\ x \in 1 .. b /\ s[x] # t[x]
  OBVIOUS
<1>4. \A j \in 1 .. x - 1 : s[j] = t[j]
  <2> SUFFICES ASSUME NEW j \in 1 .. x - 1, s[j] # t[j] PROVE FALSE
    OBVIOUS
  <2>1. j \in 1 .. a /\ j <= b /\ ~ (x <= j)
    BY <1>3
  <2> QED BY <1>2, <2>1
<1> HIDE DEF D
<1>5. s[x] \in Nat /\ t[x] \in Nat
  BY <1>3
<1>6. s[x] < t[x] \/ t[x] < s[x]
  BY <1>3, <1>5
<1>7. x <= a + 1 /\ x <= b + 1
  BY <1>3
<1>8. CASE s[x] < t[x]
  BY <1>3, <1>4, <1>7, <1>8, TextLessAt
<1>9. CASE t[x] < s[x]
  BY <1>3, <1>4, <1>7, <1>9, TextLessAt
<1> QED BY <1>6, <1>8, <1>9

LEMMA TextLessTotal ==
    ASSUME NEW s \in Seq(Nat), NEW t \in Seq(Nat), s # t
    PROVE  TextLess(s, t) \/ TextLess(t, s)
<1> DEFINE D == {i \in 1 .. Len(s) : i <= Len(t) /\ s[i] # t[i]}
<1>1. Len(s) \in Nat /\ Len(t) \in Nat
  BY TextType
<1>2. CASE D # {}
  <2>1. PICK i \in 1 .. Len(s) : i <= Len(t) /\ s[i] # t[i]
    BY <1>2
  <2> QED BY <1>1, <2>1, TextType, TextsDiffer
<1>3. CASE D = {}
  <2>1. \A i \in 1 .. Len(s) : i <= Len(t) => s[i] = t[i]
    BY <1>3
  <2> HIDE DEF D
  <2>2. CASE Len(s) < Len(t)
    <3>1. Len(s) + 1 \in 1 .. Len(t) /\ \A j \in 1 .. (Len(s) + 1) - 1 : s[j] = t[j]
      BY <1>1, <2>1, <2>2
    <3>2. Len(s) + 1 <= Len(s) + 1 /\ Len(t) + 1 <= Len(t) + 1
      BY <1>1
    <3> QED BY <3>1, <3>2, TextLessAt
  <2>3. CASE Len(t) < Len(s)
    <3>1. Len(t) + 1 \in 1 .. Len(s) /\ \A j \in 1 .. (Len(t) + 1) - 1 : t[j] = s[j]
      BY <1>1, <2>1, <2>3
    <3>2. Len(s) + 1 <= Len(s) + 1 /\ Len(t) + 1 <= Len(t) + 1
      BY <1>1
    <3> QED BY <3>1, <3>2, TextLessAt
  <2>4. Len(s) # Len(t)
    <3> SUFFICES ASSUME Len(s) = Len(t) PROVE s = t
      OBVIOUS
    <3>1. \A i \in 1 .. Len(s) : s[i] = t[i]
      BY <1>1, <2>1
    <3> QED BY <1>1, <3>1
  <2> QED BY <1>1, <2>2, <2>3, <2>4
<1> QED BY <1>2, <1>3

-----------------------------------------------------------------------------
\* How many ids a listing shows before id: fewer than there are, and different
\* numbers for different ids.
LEMMA BeforeGrows ==
    ASSUME NEW ids \in SUBSET (0 .. MaxSeq), NEW a \in ids, NEW b \in ids,
           TextLess(formatInt[a], formatInt[b])
    PROVE  before(ids, b) \cup {b} \subseteq before(ids, a) /\ b \notin before(ids, b)
<1>1. \A i \in ids : formatInt[i] \in Seq(Nat)
  BY FormatType
<1>2. b \notin before(ids, b)
  BY <1>1, TextLessIrreflexive DEF before
<1>3. ASSUME NEW i \in ids, TextLess(formatInt[b], formatInt[i])
      PROVE  TextLess(formatInt[a], formatInt[i])
  BY <1>1, <1>3, TextLessTransitive
<1> QED BY <1>2, <1>3 DEF before

LEMMA BeforeFinite ==
    ASSUME NEW ids \in SUBSET (0 .. MaxSeq), NEW a \in ids
    PROVE  /\ IsFiniteSet(ids) /\ Cardinality(ids) \in Nat
           /\ IsFiniteSet(before(ids, a)) /\ Cardinality(before(ids, a)) \in 0 .. Cardinality(ids) - 1
<1>1. IsFiniteSet(ids) /\ Cardinality(ids) \in Nat
  <2>1. IsFiniteSet(0 .. MaxSeq)
    BY TodoAssumption, FS_Interval
  <2>2. IsFiniteSet(ids)
    BY <2>1, FS_Subset
  <2> QED BY <2>2, FS_CardinalityType
<1>2. formatInt[a] \in Seq(Nat)
  BY FormatType
<1>3. before(ids, a) \in SUBSET (ids \ {a})
  BY <1>2, TextLessIrreflexive DEF before
<1>4. IsFiniteSet(ids \ {a}) /\ Cardinality(ids \ {a}) = Cardinality(ids) - 1
  BY <1>1, FS_RemoveElement
<1>5. IsFiniteSet(before(ids, a)) /\ Cardinality(before(ids, a)) <= Cardinality(ids) - 1
  BY <1>3, <1>4, FS_Subset
<1>6. Cardinality(before(ids, a)) \in Nat
  BY <1>5, FS_CardinalityType
<1> QED BY <1>1, <1>5, <1>6

LEMMA RanksDiffer ==
    ASSUME NEW ids \in SUBSET (0 .. MaxSeq), NEW a \in ids, NEW b \in ids,
           TextLess(formatInt[a], formatInt[b])
    PROVE  Cardinality(before(ids, b)) # Cardinality(before(ids, a))
<1>1. before(ids, b) \cup {b} \in SUBSET before(ids, a) /\ b \notin before(ids, b)
  BY BeforeGrows
<1>2. /\ IsFiniteSet(before(ids, a)) /\ Cardinality(before(ids, a)) \in Nat
      /\ IsFiniteSet(before(ids, b)) /\ Cardinality(before(ids, b)) \in Nat
  BY BeforeFinite
<1>3. Cardinality(before(ids, b) \cup {b}) = Cardinality(before(ids, b)) + 1
  BY <1>1, <1>2, FS_AddElement
<1>4. Cardinality(before(ids, b) \cup {b}) <= Cardinality(before(ids, a))
  BY <1>1, <1>2, FS_Subset
<1> QED BY <1>2, <1>3, <1>4

\* The sorted ids are the ids, each once.
LEMMA SortedOnce ==
    ASSUME NEW ids \in SUBSET (0 .. MaxSeq), NEW n, n = Cardinality(ids)
    PROVE  /\ n \in Nat /\ sorted(ids) \in [1 .. n -> ids]
           /\ \A k, l \in 1 .. n : sorted(ids)[k] = sorted(ids)[l] => k = l
           /\ \A id \in ids : \E k \in 1 .. n : sorted(ids)[k] = id
<1> DEFINE rank == [id \in ids |-> Cardinality(before(ids, id))]
<1>1. IsFiniteSet(ids) /\ n \in Nat
  <2>1. IsFiniteSet(0 .. MaxSeq)
    BY TodoAssumption, FS_Interval
  <2>2. IsFiniteSet(ids)
    BY <2>1, FS_Subset
  <2> QED BY <2>2, FS_CardinalityType
<1>2. rank \in [ids -> 0 .. n - 1]
  BY BeforeFinite
<1>3. ASSUME NEW a \in ids, NEW b \in ids, a # b PROVE rank[a] # rank[b]
  <2>1. formatInt[a] \in Seq(Nat) /\ formatInt[b] \in Seq(Nat)
    BY FormatType
  <2>2. formatInt[a] # formatInt[b]
    BY <1>3, FormatInjective
  <2>3. TextLess(formatInt[a], formatInt[b]) \/ TextLess(formatInt[b], formatInt[a])
    BY <2>1, <2>2, TextLessTotal
  <2> QED BY <2>3, RanksDiffer
<1>4. \A id \in ids : rank[id] = Cardinality(before(ids, id))
  OBVIOUS
<1> HIDE DEF rank
<1>5. rank \in Injection(ids, 0 .. n - 1)
  BY <1>2, <1>3 DEF Injection, IsInjective
<1>6. IsFiniteSet(0 .. n - 1) /\ Cardinality(0 .. n - 1) = n
  <2>1. 0 \in Int /\ n - 1 \in Int
    BY <1>1
  <2>2. Cardinality(0 .. n - 1) = IF 0 > n - 1 THEN 0 ELSE (n - 1) - 0 + 1
    BY <2>1, FS_Interval
  <2>3. Cardinality(0 .. n - 1) = n
    BY <1>1, <2>2
  <2> QED BY <2>1, <2>3, FS_Interval
<1>7. rank \in Surjection(ids, 0 .. n - 1)
  BY <1>5, <1>6, FS_Injection
<1>8. \A r \in 0 .. n - 1 : \E id \in ids : rank[id] = r
  BY <1>7 DEF Surjection
<1>9. ASSUME NEW k \in 1 .. n PROVE sorted(ids)[k] \in ids /\ rank[sorted(ids)[k]] = k - 1
  <2>1. k - 1 \in 0 .. n - 1
    BY <1>1
  <2>2. \E id \in ids : Cardinality(before(ids, id)) = k - 1
    BY <1>4, <1>8, <2>1
  <2>3. sorted(ids)[k] = CHOOSE id \in ids : Cardinality(before(ids, id)) = k - 1
    BY DEF sorted
  <2>4. sorted(ids)[k] \in ids /\ Cardinality(before(ids, sorted(ids)[k])) = k - 1
    BY <2>2, <2>3
  <2> QED BY <1>4, <2>4
<1>10. sorted(ids) \in [1 .. n -> ids]
  BY <1>9 DEF sorted
<1>11. \A k, l \in 1 .. n : sorted(ids)[k] = sorted(ids)[l] => k = l
  <2> SUFFICES ASSUME NEW k \in 1 .. n, NEW l \in 1 .. n, sorted(ids)[k] = sorted(ids)[l]
               PROVE  k = l
    OBVIOUS
  <2>1. k - 1 = l - 1
    BY <1>9
  <2> QED BY <1>1, <2>1
<1>12. ASSUME NEW id \in ids PROVE \E k \in 1 .. n : sorted(ids)[k] = id
  <2>1. rank[id] \in 0 .. n - 1
    BY <1>2
  <2>2. rank[id] + 1 \in 1 .. n /\ (rank[id] + 1) - 1 = rank[id]
    BY <1>1, <2>1
  <2>3. sorted(ids)[rank[id] + 1] \in ids /\ rank[sorted(ids)[rank[id] + 1]] = rank[id]
    BY <1>9, <2>2
  <2>4. sorted(ids)[rank[id] + 1] = id
    BY <1>3, <2>3
  <2> QED BY <2>2, <2>4
<1> QED BY <1>1, <1>10, <1>11, <1>12

-----------------------------------------------------------------------------
(* Pages. *)

\* Page by offset and limit: the places of s after offset, at most limit of them.
LEMMA PageSlice ==
    ASSUME NEW s \in Seq(Nat), NEW offset \in Nat, NEW limit \in Nat, NEW k
    PROVE  /\ k \in DOMAIN pageOf(s, offset, limit) <=> k \in 1 .. limit /\ offset + k <= Len(s)
           /\ k \in DOMAIN pageOf(s, offset, limit) => pageOf(s, offset, limit)[k] = s[offset + k]
<1> DEFINE n == Len(s)
<1>1. n \in Nat
  OBVIOUS
<1> HIDE DEF n
<1>2. CASE offset >= n
  <2>1. pageOf(s, offset, limit) = <<>>
    BY <1>2 DEF pageOf, n
  <2>2. ~ (k \in 1 .. limit /\ offset + k <= n)
    BY <1>1, <1>2
  <2>3. DOMAIN <<>> = {}
    OBVIOUS
  <2> QED BY <2>1, <2>2, <2>3 DEF n
<1>3. CASE offset < n
  <2> DEFINE end == IF offset + limit < n THEN offset + limit ELSE n
  <2>1. pageOf(s, offset, limit) = SubSeq(s, offset + 1, end)
    <3>1. ~ (offset >= n)
      BY <1>1, <1>3
    <3> QED BY <3>1 DEF pageOf, n
  <2>2. end \in offset .. n /\ end <= offset + limit /\ (end < n => end = offset + limit)
    BY <1>1, <1>3
  <2> HIDE DEF end
  <2>3. SubSeq(s, offset + 1, end) = [i \in 1 .. end - offset |-> s[offset + i]]
    BY <1>1, <2>2 DEF n
  <2>4. k \in 1 .. end - offset <=> k \in 1 .. limit /\ offset + k <= n
    BY <1>1, <1>3, <2>2
  <2> QED BY <2>1, <2>3, <2>4 DEF n
<1> QED BY <1>1, <1>2, <1>3

\* The pages up to the last one have offsets that fit in an int32.
LEMMA Offset ==
    ASSUME (MaxSeq - 1) * maxPageSize < IntHalf,
           NEW p \in 1 .. MaxSeq, NEW z \in 1 .. maxPageSize
    PROVE  offsetOf([page |-> p, pageSize |-> z]) = (p - 1) * z /\ (p - 1) * z \in Nat
<1> DEFINE x == (p - 1) * z
<1>1. p \in Int /\ z \in Int /\ maxPageSize \in Nat /\ IntHalf \in Nat /\ MaxSeq \in Nat
  BY TodoAssumption
<1>2. x \in Nat
  BY <1>1
<1>3. x <= (MaxSeq - 1) * z
  BY <1>1
<1>4. (MaxSeq - 1) * z <= (MaxSeq - 1) * maxPageSize
  BY <1>1
<1>5. x < IntHalf
  <2> DEFINE y == (MaxSeq - 1) * z
             w == (MaxSeq - 1) * maxPageSize
  <2>1. y \in Int /\ w \in Int /\ x <= y /\ y <= w /\ w < IntHalf
    BY <1>1, <1>3, <1>4
  <2> HIDE DEF x, y, w
  <2> QED BY <1>1, <1>2, <2>1
<1>6. offsetOf([page |-> p, pageSize |-> z]) = ((x + IntHalf) % (2 * IntHalf)) - IntHalf
  BY DEF offsetOf
<1> HIDE DEF x
<1>7. x + IntHalf \in 0 .. 2 * IntHalf - 1 /\ 2 * IntHalf \in Nat \ {0}
  BY <1>1, <1>2, <1>5
<1>8. ASSUME NEW a \in Int, NEW b \in Nat, a \in 0 .. b - 1 PROVE a % b = a
  BY <1>8
<1>9. (x + IntHalf) % (2 * IntHalf) = x + IntHalf
  BY <1>1, <1>2, <1>7, <1>8
<1> QED BY <1>1, <1>2, <1>6, <1>9 DEF x

LEMMA NormalPage ==
    ASSUME NEW p \in 1 .. MaxSeq, NEW pageSize \in PageSizes
    PROVE  \E z \in 1 .. maxPageSize : \A q \in 1 .. MaxSeq :
               normalizePage(q, pageSize) = [page |-> q, pageSize |-> z]
BY TodoAssumption DEF normalizePage, PageSizes

\* A place in the listing is a place on one page.
LEMMA Place ==
    ASSUME NEW z \in Nat \ {0}, NEW i \in Nat \ {0}
    PROVE  \E p \in 1 .. i, k \in 1 .. z : (p - 1) * z + k = i
<1> DEFINE q == (i - 1) \div z
           r == (i - 1) % z
<1>1. q \in Int /\ r \in 0 .. z - 1 /\ i - 1 = z * q + r
  OBVIOUS
<1> HIDE DEF q, r
<1>2. q >= 0
  <2> SUFFICES ASSUME q < 0 PROVE FALSE
    BY <1>1
  <2>1. z * q <= -z
    BY <1>1
  <2> QED BY <1>1, <2>1
<1>3. q <= i - 1
  <2>1. z * q >= q
    BY <1>1, <1>2
  <2> QED BY <1>1, <2>1
<1>4. q + 1 \in 1 .. i /\ r + 1 \in 1 .. z /\ ((q + 1) - 1) * z + (r + 1) = i
  BY <1>1, <1>2, <1>3
<1> QED BY <1>4

LEMMA SamePlace ==
    ASSUME NEW z \in Nat \ {0}, NEW p \in Nat, NEW q \in Nat, NEW k \in 1 .. z, NEW l \in 1 .. z,
           (p - 1) * z + k = (q - 1) * z + l
    PROVE  p = q /\ k = l
<1>1. ASSUME NEW a \in Int, NEW b \in Int, a < b PROVE a * z <= b * z - z
  <2>1. b * z - a * z = (b - a) * z
    OBVIOUS
  <2>2. (b - a) * z >= z
    BY <1>1
  <2> QED BY <2>1, <2>2
<1>2. ~ (p < q)
  BY <1>1
<1>3. ~ (q < p)
  BY <1>1
<1>4. p = q
  BY <1>2, <1>3
<1> QED BY <1>4

\* The pages of one listing, of z todos each.
Placed(ids, z) == {at \in (1 .. MaxSeq) \X (1 .. z) : (at[1] - 1) * z + at[2] <= Cardinality(ids)}

LEMMA ListShows ==
    ASSUME NEW onlyPending, NEW offset, NEW limit
    PROVE  List(onlyPending, offset, limit).todos = pageOf(sorted(matching(onlyPending)), offset, limit)
BY DEF List

\* One page of a listing is cut out of the sorted ids that match.
LEMMA PageCut ==
    ASSUME (MaxSeq - 1) * maxPageSize < IntHalf,
           NEW onlyPending \in BOOLEAN, NEW pageSize, NEW p \in 1 .. MaxSeq, NEW z \in 1 .. maxPageSize,
           normalizePage(p, pageSize) = [page |-> p, pageSize |-> z],
           NEW ids, ids = matching(onlyPending /\ kind = "todo")
    PROVE  (IF kind = "todo" THEN listTodos(onlyPending, p, pageSize).todos
            ELSE listItems(p, pageSize).todos) = pageOf(sorted(ids), (p - 1) * z, z)
<1>1. offsetOf([page |-> p, pageSize |-> z]) = (p - 1) * z
  BY Offset
<1>2. CASE kind = "todo"
  <2>1. ids = matching(onlyPending)
    BY <1>2 DEF matching
  <2>2. listTodos(onlyPending, p, pageSize) = List(onlyPending, (p - 1) * z, z)
    BY <1>1 DEF listTodos
  <2> QED BY <1>2, <2>1, <2>2, ListShows
<1>3. CASE kind # "todo"
  <2>1. ids = matching(FALSE)
    BY <1>3 DEF matching
  <2>2. listItems(p, pageSize) = List(FALSE, (p - 1) * z, z)
    BY <1>1 DEF listItems, ListItemRepo
  <2>3. List(FALSE, (p - 1) * z, z).todos = pageOf(sorted(matching(FALSE)), (p - 1) * z, z)
    BY ListShows
  <2> QED BY <1>3, <2>1, <2>2, <2>3
<1> QED BY <1>2, <1>3

\* All pages of a listing together.
LEMMA PageShows ==
    ASSUME (MaxSeq - 1) * maxPageSize < IntHalf, TodoInv,
           NEW onlyPending \in BOOLEAN, NEW pageSize \in PageSizes
    PROVE  \E ids \in SUBSET (1 .. MaxSeq), z \in 1 .. maxPageSize :
               /\ ids = matching(onlyPending /\ kind = "todo")
               /\ Shown(onlyPending, pageSize) =
                     {<<at[1], at[2], sorted(ids)[(at[1] - 1) * z + at[2]]>> : at \in Placed(ids, z)}
<1>1. PICK ids, s : ids = matching(onlyPending /\ kind = "todo") /\ s = sorted(ids)
  OBVIOUS
<1>2. ids \in SUBSET (1 .. MaxSeq)
  <2>1. ids \in SUBSET DOMAIN todos
    BY <1>1 DEF matching
  <2> QED BY <2>1, TodoAssumption DEF TodoInv, KeptIDs
<1>3. PICK n : n = Cardinality(ids)
  OBVIOUS
<1>4. n \in Nat /\ s \in [1 .. n -> ids]
  <2>1. ids \in SUBSET (0 .. MaxSeq)
    BY <1>2
  <2> QED BY <1>3, <1>1, <2>1, SortedOnce
<1>5. PICK z \in 1 .. maxPageSize : \A q \in 1 .. MaxSeq :
          normalizePage(q, pageSize) = [page |-> q, pageSize |-> z]
  BY NormalPage, TodoAssumption
<1> DEFINE page(p) == IF kind = "todo" THEN listTodos(onlyPending, p, pageSize).todos
                      ELSE listItems(p, pageSize).todos
<1>6. Shown(onlyPending, pageSize) = UNION {{<<p, k, page(p)[k]>> : k \in DOMAIN page(p)} : p \in 1 .. MaxSeq}
  BY DEF Shown
<1>7. ASSUME NEW p \in 1 .. MaxSeq
      PROVE  /\ \A k : k \in DOMAIN page(p) <=> k \in 1 .. z /\ (p - 1) * z + k <= n
             /\ \A k \in DOMAIN page(p) : page(p)[k] = s[(p - 1) * z + k]
  <2>1. page(p) = pageOf(s, (p - 1) * z, z)
    BY <1>5, <1>1, PageCut
  <2> HIDE DEF page
  <2>2. PICK o \in Nat : o = (p - 1) * z
    BY Offset
  <2>3. z \in Nat
    BY TodoAssumption
  <2>4. ASSUME NEW k
        PROVE  /\ k \in DOMAIN pageOf(s, o, z) <=> k \in 1 .. z /\ o + k <= n
               /\ k \in DOMAIN pageOf(s, o, z) => pageOf(s, o, z)[k] = s[o + k]
    <3>1. s \in Seq(Nat) /\ Len(s) = n
      <4>1. \A id \in ids : id \in Nat
        BY <1>2
      <4>2. s \in [1 .. n -> Nat]
        BY <1>4, <4>1
      <4> QED BY <1>4, <4>2
    <3> QED BY <2>3, <3>1, PageSlice
  <2> QED BY <2>1, <2>2, <2>4
<1> HIDE DEF page
<1>8. ASSUME NEW x
      PROVE  x \in Shown(onlyPending, pageSize) <=>
               \E at \in Placed(ids, z) : x = <<at[1], at[2], s[(at[1] - 1) * z + at[2]]>>
  <2>1. ASSUME NEW p \in 1 .. MaxSeq, NEW k \in DOMAIN page(p), x = <<p, k, page(p)[k]>>
        PROVE  \E at \in Placed(ids, z) : x = <<at[1], at[2], s[(at[1] - 1) * z + at[2]]>>
    <3>1. k \in 1 .. z /\ (p - 1) * z + k <= n /\ page(p)[k] = s[(p - 1) * z + k]
      BY <1>7
    <3>2. <<p, k>> \in Placed(ids, z)
      BY <1>3, <3>1 DEF Placed
    <3>3. x = <<p, k, s[(p - 1) * z + k]>>
      BY <2>1, <3>1
    <3> WITNESS <<p, k>> \in Placed(ids, z)
    <3> QED BY <3>3
  <2>2. ASSUME NEW at \in Placed(ids, z), x = <<at[1], at[2], s[(at[1] - 1) * z + at[2]]>>
        PROVE  \E p \in 1 .. MaxSeq : \E k \in DOMAIN page(p) : x = <<p, k, page(p)[k]>>
    <3>1. at[1] \in 1 .. MaxSeq /\ at[2] \in 1 .. z /\ (at[1] - 1) * z + at[2] <= n
      BY <1>3 DEF Placed
    <3>2. at[2] \in DOMAIN page(at[1]) /\ page(at[1])[at[2]] = s[(at[1] - 1) * z + at[2]]
      BY <1>7, <3>1
    <3> QED BY <2>2, <3>1, <3>2
  <2> QED BY <1>6, <2>1, <2>2
<1>9. Shown(onlyPending, pageSize) =
          {<<at[1], at[2], s[(at[1] - 1) * z + at[2]]>> : at \in Placed(ids, z)}
  BY <1>8
<1> QED BY <1>2, <1>9, <1>1

LEMMA PagesPartitioned ==
    ASSUME (MaxSeq - 1) * maxPageSize < IntHalf, TodoInv
    PROVE  PagesPartition
<1> SUFFICES ASSUME NEW onlyPending \in BOOLEAN, NEW pageSize \in PageSizes
             PROVE  /\ {s[3] : s \in Shown(onlyPending, pageSize)} = matching(onlyPending /\ kind = "todo")
                    /\ \A s, t \in Shown(onlyPending, pageSize) : s[3] = t[3] => s = t
  BY DEF PagesPartition
<1>1. PICK ids \in SUBSET (1 .. MaxSeq), z \in 1 .. maxPageSize :
          /\ ids = matching(onlyPending /\ kind = "todo")
          /\ Shown(onlyPending, pageSize) =
                {<<at[1], at[2], sorted(ids)[(at[1] - 1) * z + at[2]]>> : at \in Placed(ids, z)}
  BY PageShows
<1>2. PICK n, order, shown : /\ n = Cardinality(ids) /\ order = sorted(ids)
                             /\ shown = Shown(onlyPending, pageSize)
  OBVIOUS
<1>3. ids \in SUBSET (1 .. MaxSeq)
  OBVIOUS
<1>4. shown = {<<at[1], at[2], order[(at[1] - 1) * z + at[2]]>> : at \in Placed(ids, z)}
  BY <1>1, <1>2
<1>5. z \in Nat \ {0}
  BY TodoAssumption
<1>6. /\ n \in Nat /\ order \in [1 .. n -> ids]
      /\ \A k, l \in 1 .. n : order[k] = order[l] => k = l
      /\ \A id \in ids : \E k \in 1 .. n : order[k] = id
  <2>1. ids \in SUBSET (0 .. MaxSeq)
    BY <1>3
  <2> QED BY <1>2, <2>1, SortedOnce
<1>7. n <= MaxSeq
  <2>1. IsFiniteSet(1 .. MaxSeq) /\ Cardinality(1 .. MaxSeq) = MaxSeq
    BY TodoAssumption, FS_Interval
  <2> QED BY <1>3, <1>2, <2>1, FS_Subset
<1>8. ASSUME NEW at \in Placed(ids, z)
      PROVE  /\ at = <<at[1], at[2]>> /\ at[1] \in Nat /\ at[2] \in 1 .. z
             /\ (at[1] - 1) * z + at[2] \in 1 .. n
  <2>1. /\ at = <<at[1], at[2]>> /\ at[1] \in 1 .. MaxSeq /\ at[2] \in 1 .. z
        /\ (at[1] - 1) * z + at[2] <= n
    BY <1>2, SMT DEF Placed
  <2>2. (at[1] - 1) * z \in Nat
    BY <1>5, <2>1
  <2> QED BY <1>5, <1>6, <2>1, <2>2
<1>9. ASSUME NEW s \in shown, NEW t \in shown, s[3] = t[3] PROVE s = t
  <2>1. PICK a \in Placed(ids, z) : s = <<a[1], a[2], order[(a[1] - 1) * z + a[2]]>>
    BY <1>4
  <2>2. PICK b \in Placed(ids, z) : t = <<b[1], b[2], order[(b[1] - 1) * z + b[2]]>>
    BY <1>4
  <2>3. order[(a[1] - 1) * z + a[2]] = order[(b[1] - 1) * z + b[2]]
    BY <1>9, <2>1, <2>2
  <2>4. (a[1] - 1) * z + a[2] = (b[1] - 1) * z + b[2]
    BY <1>6, <1>8, <2>3
  <2>5. a[1] = b[1] /\ a[2] = b[2]
    BY <1>5, <1>8, <2>4, SamePlace
  <2> QED BY <2>1, <2>2, <2>5
<1>10. ASSUME NEW s \in shown PROVE s[3] \in ids
  <2>1. PICK a \in Placed(ids, z) : s = <<a[1], a[2], order[(a[1] - 1) * z + a[2]]>>
    BY <1>4
  <2>2. (a[1] - 1) * z + a[2] \in 1 .. n
    BY <1>8
  <2> QED BY <1>6, <2>1, <2>2
<1>11. ASSUME NEW id \in ids PROVE \E s \in shown : s[3] = id
  <2>1. PICK i \in 1 .. n : order[i] = id
    BY <1>6
  <2>2. i \in Nat \ {0}
    BY <1>6
  <2>3. PICK p \in 1 .. i, k \in 1 .. z : (p - 1) * z + k = i
    BY <1>5, <2>2, Place
  <2>4. p \in 1 .. MaxSeq
    BY <1>6, <1>7, TodoAssumption
  <2>5. <<p, k>> \in Placed(ids, z)
    BY <1>2, <2>3, <2>4 DEF Placed
  <2>6. <<p, k, order[(p - 1) * z + k]>> \in shown
    BY <1>4, <2>5
  <2> QED BY <2>1, <2>3, <2>6
<1>12. {s[3] : s \in shown} = ids
  BY <1>10, <1>11
<1> QED BY <1>9, <1>12, <1>1, <1>2

\* As long as the offset of the last page fits in an int32, the pages of a listing show each
\* matching todo once and nothing else, in whatever base ids are written.
THEOREM PagesArePartition ==
    (MaxSeq - 1) * maxPageSize < IntHalf => (TodoSpec => []PagesPartition)
<1> SUFFICES ASSUME (MaxSeq - 1) * maxPageSize < IntHalf
             PROVE  TodoSpec => []PagesPartition
  OBVIOUS
<1>1. TodoInv => PagesPartition
  BY PagesPartitioned
<1> QED BY <1>1, TodoInvHolds, PTL
=============================================================================
