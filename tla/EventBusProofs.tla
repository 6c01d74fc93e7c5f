--------------------------- MODULE EventBusProofs ---------------------------
(***************************************************************************)
(* TLAPS proofs about EventBus, for any subscribers, messages and topics.  *)
(***************************************************************************)
EXTENDS EventBus, SequenceTheorems, TLAPS

-----------------------------------------------------------------------------
(* The in-memory bus. *)

\* The loop of Publish has called the handlers before next; while there is no call nothing
\* has happened, and after one the handlers that were called are a prefix of the copy.
LoopInv ==
    \A m \in Messages :
        /\ publish[m].pc = "idle" => publish[m].copy = <<>> /\ called[m] = <<>>
        /\ publish[m].pc = "loop" =>
             /\ publish[m].next \in 1 .. Len(publish[m].copy) + 1
             /\ called[m] = SubSeq(publish[m].copy, 1, publish[m].next - 1)

MemoryInv == M!TypeOK /\ LoopInv /\ ReachesAll

\* A prefix of a sequence that is made longer by the next element.
LEMMA PrefixGrows ==
    ASSUME NEW S, NEW s \in Seq(S), NEW n \in 1 .. Len(s)
    PROVE  Append(SubSeq(s, 1, n - 1), s[n]) = SubSeq(s, 1, n)
<1>1. n - 1 \in Int /\ n - 1 <= Len(s) /\ s[n] \in S /\ n \in n .. Len(s) /\ 1 \in 1 .. Len(s) /\ n \in 1 .. Len(s)
  OBVIOUS
<1>2. \A i \in 1 .. n - 1 : s[i] \in S
  OBVIOUS
<1>3. SubSeq(s, 1, n - 1) \in Seq(S)
  BY <1>1, <1>2, SubSeqProperties
<1>4. SubSeq(s, 1, n) = SubSeq(s, 1, n - 1) \o <<s[n]>>
  BY <1>1, SubSeqRecursiveSecond
<1> QED BY <1>1, <1>3, <1>4, AppendIsConcat

LEMMA InitMemoryInv == M!Init => MemoryInv
<1> SUFFICES ASSUME M!Init PROVE MemoryInv
  OBVIOUS
<1> USE DEF M!Init
<1>1. M!TypeOK
  BY DEF M!TypeOK
<1>2. LoopInv
  BY DEF LoopInv
<1>3. ReachesAll
  <2>1. SubSeq(<<>>, 1, 0) = <<>> /\ Len(<<>>) = 0
    BY SubSeqEmpty
  <2> QED BY <2>1 DEF ReachesAll, M!ReachesAll
<1> QED BY <1>1, <1>2, <1>3 DEF MemoryInv

LEMMA SubscribeKeepsMemoryInv ==
    ASSUME MemoryInv, NEW s \in Subscribers, M!Subscribe(s)
    PROVE  MemoryInv'
<1> USE DEF MemoryInv, M!Subscribe
<1>1. M!TypeOK'
  <2>1. Topic[s] \in M!Topics
    BY DEF M!Topics
  <2>2. Append(handlers[Topic[s]], s) \in Seq(Subscribers)
    BY <2>1, AppendProperties DEF M!TypeOK
  <2> QED BY <2>2 DEF M!TypeOK
<1>2. LoopInv' /\ ReachesAll'
  BY DEF LoopInv, ReachesAll, M!ReachesAll
<1> QED BY <1>1, <1>2

LEMMA PublishKeepsMemoryInv ==
    ASSUME MemoryInv, NEW m \in Messages, M!Publish(m)
    PROVE  MemoryInv'
<1> DEFINE copy == handlers[Topic[m]]
<1>1. /\ publish' = [publish EXCEPT ![m] = [pc |-> "loop", copy |-> copy, next |-> 1]]
      /\ publish[m].pc = "idle" /\ UNCHANGED <<handlers, called>>
  BY DEF M!Publish
<1>2. copy \in Seq(Subscribers)
  <2>1. Topic[m] \in M!Topics
    BY DEF M!Topics
  <2> QED BY <2>1 DEF MemoryInv, M!TypeOK
<1> HIDE DEF copy
<1>3. M!TypeOK'
  BY <1>1, <1>2 DEF MemoryInv, M!TypeOK
<1>4. called[m] = <<>> /\ SubSeq(copy, 1, 0) = <<>> /\ Len(copy) \in Nat
  BY <1>1, <1>2, SubSeqEmpty DEF MemoryInv, LoopInv
<1>5. publish'[m] = [pc |-> "loop", copy |-> copy, next |-> 1]
      /\ \A n \in Messages \ {m} : publish'[n] = publish[n]
  BY <1>1 DEF MemoryInv, M!TypeOK
<1>6. LoopInv'
  <2>1. 1 - 1 = 0 /\ 1 \in 1 .. Len(copy) + 1
    BY <1>4
  <2>2. /\ publish'[m].pc = "loop" /\ publish'[m].copy = copy /\ publish'[m].next = 1
        /\ called'[m] = SubSeq(copy, 1, 0)
    BY <1>1, <1>4, <1>5
  <2> HIDE DEF MemoryInv
  <2> SUFFICES ASSUME NEW n \in Messages
               PROVE  /\ publish'[n].pc = "idle" => publish'[n].copy = <<>> /\ called'[n] = <<>>
                      /\ publish'[n].pc = "loop" =>
                           /\ publish'[n].next \in 1 .. Len(publish'[n].copy) + 1
                           /\ called'[n] = SubSeq(publish'[n].copy, 1, publish'[n].next - 1)
    BY DEF LoopInv
  <2>3. CASE n = m
    BY <2>1, <2>2, <2>3
  <2>4. CASE n # m
    BY <1>1, <1>5, <2>4 DEF MemoryInv, LoopInv
  <2> QED BY <2>3, <2>4
<1>7. ReachesAll'
  BY <1>1, <1>4, <1>5 DEF MemoryInv, ReachesAll, M!ReachesAll
<1> QED BY <1>3, <1>6, <1>7 DEF MemoryInv

LEMMA CallHandlerKeepsMemoryInv ==
    ASSUME MemoryInv, NEW m \in Messages, M!CallHandler(m)
    PROVE  MemoryInv'
<1> DEFINE copy == publish[m].copy
           next == publish[m].next
<1>1. /\ copy \in Seq(Subscribers) /\ Len(copy) \in Nat /\ next \in 1 .. Len(copy) + 1
      /\ called[m] = SubSeq(copy, 1, next - 1) /\ called[m] \in Seq(Subscribers)
      /\ publish[m].pc = "loop" /\ UNCHANGED handlers
      /\ publish \in [Messages -> [pc : {"idle", "loop", "nil", "error"}, copy : Seq(Subscribers), next : Nat]]
      /\ called \in [Messages -> Seq(Subscribers)]
  BY DEF MemoryInv, M!TypeOK, LoopInv, M!CallHandler
<1>2. CASE next > Len(copy)
  <2>1. publish' = [publish EXCEPT ![m].pc = "nil"] /\ called' = called
    BY <1>2 DEF M!CallHandler, M!toCall
  <2>2. /\ publish'[m].pc = "nil" /\ publish'[m].copy = copy
        /\ \A n \in Messages \ {m} : publish'[n] = publish[n]
    BY <1>1, <2>1
  <2>3. called[m] = copy
    <3>1. next - 1 = Len(copy)
      BY <1>1, <1>2
    <3> QED BY <1>1, <3>1, SubSeqFull
  <2>4. called[m] = SubSeq(copy, 1, Len(copy)) /\ Len(copy) \in 0 .. Len(copy)
    BY <1>1, <2>3, SubSeqFull
  <2>5. M!TypeOK'
    BY <1>1, <2>1 DEF MemoryInv, M!TypeOK
  <2>6. LoopInv'
    BY <2>1, <2>2 DEF MemoryInv, LoopInv
  <2>7. ReachesAll'
    BY <2>1, <2>2, <2>3, <2>4 DEF MemoryInv, ReachesAll, M!ReachesAll
  <2> QED BY <2>5, <2>6, <2>7 DEF MemoryInv
<1>3. CASE next <= Len(copy)
  <2>1. /\ called' = [called EXCEPT ![m] = Append(called[m], copy[next])]
        /\ \/ publish' = [publish EXCEPT ![m].next = next + 1]
           \/ publish' = [publish EXCEPT ![m].pc = "error"]
    BY <1>1, <1>3 DEF M!CallHandler, M!toCall
  <2>2. next \in 1 .. Len(copy) /\ copy[next] \in Subscribers
    BY <1>1, <1>3
  <2>3. called'[m] = SubSeq(copy, 1, next) /\ called' \in [Messages -> Seq(Subscribers)]
        /\ \A n \in Messages \ {m} : called'[n] = called[n]
    <3>1. Append(called[m], copy[next]) = SubSeq(copy, 1, next)
      BY <1>1, <2>2, PrefixGrows
    <3>2. Append(called[m], copy[next]) \in Seq(Subscribers)
      BY <1>1, <2>2, AppendProperties
    <3> QED BY <1>1, <2>1, <3>1, <3>2
  <2>4. /\ publish'[m].copy = copy
        /\ \/ publish'[m].pc = "loop" /\ publish'[m].next = next + 1
           \/ publish'[m].pc = "error"
        /\ \A n \in Messages \ {m} : publish'[n] = publish[n]
        /\ publish' \in [Messages -> [pc : {"idle", "loop", "nil", "error"}, copy : Seq(Subscribers), next : Nat]]
    <3>1. CASE publish' = [publish EXCEPT ![m].next = next + 1]
      <4> DEFINE up == next + 1
      <4>1. up \in Nat
        BY <1>1
      <4>2. publish' = [publish EXCEPT ![m].next = up]
        BY <3>1
      <4> HIDE DEF up
      <4>3. /\ publish'[m].copy = copy /\ publish'[m].pc = "loop" /\ publish'[m].next = up
            /\ \A n \in Messages \ {m} : publish'[n] = publish[n]
        BY <1>1, <4>2
      <4>4. publish' \in [Messages -> [pc : {"idle", "loop", "nil", "error"}, copy : Seq(Subscribers), next : Nat]]
        BY <1>1, <4>1, <4>2
      <4> QED BY <4>3, <4>4 DEF up
    <3>2. CASE publish' = [publish EXCEPT ![m].pc = "error"]
      BY <1>1, <3>2
    <3> QED BY <2>1, <3>1, <3>2
  <2>5. M!TypeOK'
    BY <1>1, <2>3, <2>4 DEF MemoryInv, M!TypeOK
  <2>6. (next + 1) - 1 = next /\ next + 1 \in 1 .. Len(copy) + 1 /\ next \in 0 .. Len(copy)
    BY <1>1, <2>2
  <2> HIDE DEF copy, next
  <2>7. LoopInv'
    <3>1. ASSUME NEW n \in Messages \ {m}
          PROVE  publish'[n] = publish[n] /\ called'[n] = called[n]
      BY <2>3, <2>4
    <3>2. publish'[m].pc = "loop" =>
            /\ publish'[m].next \in 1 .. Len(publish'[m].copy) + 1
            /\ called'[m] = SubSeq(publish'[m].copy, 1, publish'[m].next - 1)
      BY <2>3, <2>4, <2>6
    <3>3. publish'[m].pc # "idle"
      BY <2>4
    <3> QED BY <3>1, <3>2, <3>3 DEF MemoryInv, LoopInv
  <2>8. ReachesAll'
    <3>1. ASSUME NEW n \in Messages \ {m}
          PROVE  /\ publish'[n].pc = "nil" => called'[n] = publish'[n].copy
                 /\ \E l \in 0 .. Len(publish'[n].copy) : called'[n] = SubSeq(publish'[n].copy, 1, l)
      <4>1. publish'[n] = publish[n] /\ called'[n] = called[n]
        BY <2>3, <2>4
      <4> QED BY <4>1 DEF MemoryInv, ReachesAll, M!ReachesAll
    <3>2. publish'[m].pc # "nil"
      BY <2>4
    <3>3. \E l \in 0 .. Len(publish'[m].copy) : called'[m] = SubSeq(publish'[m].copy, 1, l)
      BY <2>3, <2>4, <2>6
    <3> QED BY <3>1, <3>2, <3>3 DEF ReachesAll, M!ReachesAll
  <2> QED BY <2>5, <2>7, <2>8 DEF MemoryInv
<1> QED BY <1>1, <1>2, <1>3

-----------------------------------------------------------------------------
(* RabbitMQ.  What NothingLost needs to be inductive: a goroutine holds a message exactly
   while its handler runs, nothing is in the buffer of a queue before it is consumed (so
   that Consume, which fills the buffer from the queue, overwrites nothing), and nothing
   has been routed before the module is ready (so that a channel opens with nothing to
   lose). *)

HandlerHolds == \A s \in Subscribers : sub[s].pc # "handler" <=> sub[s].msg = NoMsg

BufferedIsConsumed == \A s \in Subscribers : ~ R!Consumed(s) => buffer[s] = <<>>

RoutedWhenReady ==
    module \in {"new", "dialed", "opened"} => \A s \in Subscribers : routed[s] = {}

RabbitInv == R!TypeOK /\ HandlerHolds /\ BufferedIsConsumed /\ RoutedWhenReady /\ NothingLost

\* Where a routed message is accounted for.
Kept(s, m) ==
    \/ R!inSeq(m, queue[s]) \/ R!inSeq(m, buffer[s]) \/ m = sub[s].msg
    \/ m \in acked[s] \cap handled[s]

LEMMA InSeqAppend ==
    ASSUME NEW S, NEW seq \in Seq(S), NEW x \in S, NEW m
    PROVE  R!inSeq(m, Append(seq, x)) <=> R!inSeq(m, seq) \/ m = x
<1>1. /\ Len(Append(seq, x)) = Len(seq) + 1 /\ Append(seq, x)[Len(seq) + 1] = x
      /\ \A i \in 1 .. Len(seq) : Append(seq, x)[i] = seq[i]
      /\ DOMAIN Append(seq, x) = 1 .. Len(seq) + 1 /\ DOMAIN seq = 1 .. Len(seq) /\ Len(seq) \in Nat
  BY AppendProperties
<1>2. \A i \in 1 .. Len(seq) + 1 : i \in 1 .. Len(seq) \/ i = Len(seq) + 1
  BY <1>1
<1>3. Len(seq) + 1 \in 1 .. Len(seq) + 1 /\ \A i \in 1 .. Len(seq) : i \in 1 .. Len(seq) + 1
  BY <1>1
<1> QED BY <1>1, <1>2, <1>3 DEF R!inSeq

LEMMA InSeqTail ==
    ASSUME NEW S, NEW seq \in Seq(S), seq # <<>>, NEW m, R!inSeq(m, seq)
    PROVE  m = Head(seq) \/ R!inSeq(m, Tail(seq))
<1>1. PICK i \in 1 .. Len(seq) : seq[i] = m
  BY DEF R!inSeq
<1>2. CASE i = 1
  BY <1>1, <1>2
<1>3. CASE i # 1
  <2>1. i - 1 \in 1 .. Len(Tail(seq)) /\ Tail(seq)[i - 1] = m /\ DOMAIN Tail(seq) = 1 .. Len(Tail(seq))
    BY <1>1, <1>3, HeadTailProperties
  <2> QED BY <2>1 DEF R!inSeq
<1> QED BY <1>2, <1>3

LEMMA InitRabbitInv == R!Init => RabbitInv
<1> SUFFICES ASSUME R!Init PROVE RabbitInv
  OBVIOUS
<1> USE EventBusAssumption DEF R!Init
<1>1. R!LifeTypeOK
  <2>1. module = "new" /\ fails \in 0 .. MaxFails
    OBVIOUS
  <2>2. conn \in BOOLEAN /\ channel \in BOOLEAN
    BY Zenon
  <2> QED BY <2>1, <2>2 DEF R!LifeTypeOK
<1>2. R!SubTypeOK
  BY DEF R!SubTypeOK
<1>3. R!BrokerTypeOK
  BY DEF R!BrokerTypeOK
<1>4. HandlerHolds
  BY DEF HandlerHolds
<1>5. BufferedIsConsumed /\ RoutedWhenReady /\ NothingLost
  BY DEF BufferedIsConsumed, RoutedWhenReady, NothingLost, R!NothingLost
<1> QED BY <1>1, <1>2, <1>3, <1>4, <1>5 DEF RabbitInv, R!TypeOK

\* NothingLost, one message at a time.
LEMMA LostNothing == NothingLost <=> (channel => \A s \in Subscribers : \A m \in routed[s] : Kept(s, m))
  BY DEF NothingLost, R!NothingLost, Kept

LEMMA ConnectKeepsRabbitInv == RabbitInv /\ R!Connect => RabbitInv'
<1> SUFFICES ASSUME RabbitInv, R!Connect PROVE RabbitInv'
  OBVIOUS
<1>1. UNCHANGED <<sub, queue, buffer, acked, routed, handled, fails>>
  BY DEF R!Connect, R!broker
<1>2. R!LifeTypeOK'
  BY <1>1 DEF R!Connect, R!abandon, RabbitInv, R!TypeOK, R!LifeTypeOK
<1>3. R!SubTypeOK' /\ R!BrokerTypeOK'
  BY <1>1 DEF RabbitInv, R!TypeOK, R!SubTypeOK, R!BrokerTypeOK
<1>4. HandlerHolds' /\ BufferedIsConsumed'
  BY <1>1 DEF RabbitInv, HandlerHolds, BufferedIsConsumed, R!Consumed
<1>5. module \in {"new", "dialed", "opened"}
  BY DEF R!Connect
<1>6. \A s \in Subscribers : routed[s] = {}
  BY <1>5 DEF RabbitInv, RoutedWhenReady
<1>7. RoutedWhenReady' /\ NothingLost'
  BY <1>1, <1>6 DEF RoutedWhenReady, NothingLost, R!NothingLost
<1> QED BY <1>2, <1>3, <1>4, <1>7 DEF RabbitInv, R!TypeOK

\* With the channel its queues are gone: there is nothing left that could be lost.
LEMMA ClosingKeepsBrokerInv ==
    ASSUME RabbitInv, R!ChannelCloses, UNCHANGED handled,
           \A s \in Subscribers : R!Consumed(s) => R!Consumed(s)'
    PROVE  channel' = FALSE /\ R!BrokerTypeOK' /\ BufferedIsConsumed' /\ NothingLost'
<1>1. channel' = FALSE /\ queue' = [s \in Subscribers |-> <<>>] /\ UNCHANGED <<acked, routed>>
  BY DEF R!ChannelCloses
<1>2. ASSUME NEW s \in Subscribers
      PROVE  buffer'[s] \in Seq(Messages) /\ (buffer[s] = <<>> => buffer'[s] = <<>>)
  <2>1. buffer[s] \in Seq(Messages)
    BY DEF RabbitInv, R!TypeOK, R!BrokerTypeOK
  <2>2. PICK n \in 0 .. Len(buffer[s]) : buffer'[s] = SubSeq(buffer[s], 1, n)
    BY DEF R!ChannelCloses, R!handedOver
  <2>3. buffer'[s] \in Seq(Messages)
    BY <2>1, <2>2
  <2>4. Len(buffer'[s]) = n
    BY <2>1, <2>2
  <2>5. buffer[s] = <<>> => buffer'[s] = <<>>
    BY <2>2, <2>3, <2>4, EmptySeq
  <2> QED BY <2>3, <2>5
<1>3. R!BrokerTypeOK'
  <2>1. buffer' \in [Subscribers -> Seq(Messages)]
    BY <1>2 DEF R!ChannelCloses
  <2> QED BY <1>1, <2>1 DEF RabbitInv, R!TypeOK, R!BrokerTypeOK
<1>4. NothingLost'
  BY <1>1 DEF NothingLost, R!NothingLost
<1>5. BufferedIsConsumed'
  BY <1>2 DEF RabbitInv, BufferedIsConsumed
<1> QED BY <1>1, <1>3, <1>4, <1>5

LEMMA ClosingKeepsRabbitInv == RabbitInv /\ (R!Stop \/ R!ConnectionLost) => RabbitInv'
<1> SUFFICES ASSUME RabbitInv, R!Stop \/ R!ConnectionLost PROVE RabbitInv'
  OBVIOUS
<1>1. /\ module' \in {"ready", "stopped"} /\ conn' = FALSE /\ R!ChannelCloses
      /\ UNCHANGED <<sub, handled, fails>>
  BY DEF R!Stop, R!ConnectionLost
<1>2. channel' = FALSE /\ R!BrokerTypeOK' /\ BufferedIsConsumed' /\ NothingLost'
  BY <1>1, ClosingKeepsBrokerInv DEF R!Consumed
<1>3. R!LifeTypeOK'
  BY <1>1, <1>2 DEF RabbitInv, R!TypeOK, R!LifeTypeOK
<1>4. R!SubTypeOK' /\ HandlerHolds' /\ RoutedWhenReady'
  BY <1>1 DEF RabbitInv, R!TypeOK, R!SubTypeOK, HandlerHolds, RoutedWhenReady
<1> QED BY <1>2, <1>3, <1>4 DEF RabbitInv, R!TypeOK

LEMMA PublishKeepsRabbitInv ==
    ASSUME RabbitInv, NEW m \in Messages, R!Publish(m)
    PROVE  RabbitInv'
<1> DEFINE to == {s \in Subscribers : R!Bound(s) /\ Topic[s] = Topic[m]}
<1>1. /\ module = "ready" /\ UNCHANGED <<module, conn, channel, sub, acked, handled, fails>>
      /\ queue' = [s \in Subscribers |-> IF s \in {t \in to : ~ R!Consumed(t)} THEN Append(queue[s], m) ELSE queue[s]]
      /\ buffer' = [s \in Subscribers |-> IF s \in {t \in to : R!Consumed(t)} THEN Append(buffer[s], m) ELSE buffer[s]]
      /\ routed' = [s \in Subscribers |-> IF s \in to THEN routed[s] \cup {m} ELSE routed[s]]
  BY DEF R!Publish, R!life
<1> HIDE DEF to
<1>2. /\ queue \in [Subscribers -> Seq(Messages)] /\ buffer \in [Subscribers -> Seq(Messages)]
      /\ acked \in [Subscribers -> SUBSET Messages] /\ routed \in [Subscribers -> SUBSET Messages]
      /\ handled \in [Subscribers -> SUBSET Messages]
  BY DEF RabbitInv, R!TypeOK, R!BrokerTypeOK
<1>3. R!LifeTypeOK' /\ R!SubTypeOK' /\ HandlerHolds' /\ RoutedWhenReady'
  BY <1>1 DEF RabbitInv, R!TypeOK, R!LifeTypeOK, R!SubTypeOK, HandlerHolds, RoutedWhenReady
<1>4. R!BrokerTypeOK'
  <2>1. \A s \in Subscribers : Append(queue[s], m) \in Seq(Messages) /\ Append(buffer[s], m) \in Seq(Messages)
    BY <1>2, AppendProperties
  <2>2. queue' \in [Subscribers -> Seq(Messages)] /\ buffer' \in [Subscribers -> Seq(Messages)]
    BY <1>1, <1>2, <2>1
  <2>3. routed' \in [Subscribers -> SUBSET Messages]
    BY <1>1, <1>2
  <2> QED BY <1>1, <1>2, <2>2, <2>3 DEF R!BrokerTypeOK
<1>5. BufferedIsConsumed'
  BY <1>1 DEF RabbitInv, BufferedIsConsumed, R!Consumed
<1>6. NothingLost'
  <2> SUFFICES ASSUME channel', NEW s \in Subscribers, NEW n \in routed'[s] PROVE Kept(s, n)'
    BY DEF NothingLost, R!NothingLost, Kept
  <2>1. CASE n = m /\ s \in to
    <3>1. R!inSeq(m, Append(queue[s], m)) /\ R!inSeq(m, Append(buffer[s], m))
      BY <1>2, InSeqAppend
    <3>2. queue'[s] = Append(queue[s], m) \/ buffer'[s] = Append(buffer[s], m)
      BY <1>1, <2>1
    <3>3. R!inSeq(n, queue'[s]) \/ R!inSeq(n, buffer'[s])
      BY <2>1, <3>1, <3>2
    <3> QED BY <3>3 DEF Kept, R!inSeq
  <2>2. CASE ~ (n = m /\ s \in to)
    <3>1. n \in routed[s]
      BY <1>1, <2>2
    <3>2. Kept(s, n)
      BY <1>1, <3>1, LostNothing DEF RabbitInv
    <3>3. /\ R!inSeq(n, queue[s]) => R!inSeq(n, Append(queue[s], m))
          /\ R!inSeq(n, buffer[s]) => R!inSeq(n, Append(buffer[s], m))
      BY <1>2, InSeqAppend
    <3>4. /\ queue'[s] \in {queue[s], Append(queue[s], m)}
          /\ buffer'[s] \in {buffer[s], Append(buffer[s], m)}
      BY <1>1
    <3>5. /\ R!inSeq(n, queue[s]) => R!inSeq(n, queue'[s])
          /\ R!inSeq(n, buffer[s]) => R!inSeq(n, buffer'[s])
      BY <3>3, <3>4
    <3> QED BY <1>1, <3>2, <3>5 DEF Kept, R!inSeq
  <2> QED BY <2>1, <2>2
<1> QED BY <1>3, <1>4, <1>5, <1>6 DEF RabbitInv, R!TypeOK

\* What a step of subscriber s changes of sub, when it sets pc.
LEMMA GoesType ==
    ASSUME R!SubTypeOK, NEW s \in Subscribers,
           NEW pc \in {"none", "declared", "bound", "select", "handler", "left", "error"},
           NEW msg \in Messages \cup {NoMsg},
           sub' = [sub EXCEPT ![s].pc = pc, ![s].msg = msg]
    PROVE  /\ R!SubTypeOK' /\ sub'[s].pc = pc /\ sub'[s].msg = msg
           /\ \A t \in Subscribers \ {s} : sub'[t] = sub[t]
  BY DEF R!SubTypeOK

LEMMA SubscribeKeepsRabbitInv ==
    ASSUME RabbitInv, NEW s \in Subscribers, R!Subscribe(s)
    PROVE  RabbitInv'
<1>1. /\ sub[s].pc \in {"none", "declared", "bound"} /\ module = "ready" /\ UNCHANGED <<module, conn, handled, fails>>
      /\ \E pc \in {"declared", "bound", "select", "error"} : sub' = [sub EXCEPT ![s].pc = pc]
  BY DEF R!Subscribe, R!Goes, R!life
<1>2. PICK pc \in {"declared", "bound", "select", "error"} : sub' = [sub EXCEPT ![s].pc = pc]
  BY <1>1
<1>3. R!SubTypeOK' /\ sub'[s].pc = pc /\ sub'[s].msg = sub[s].msg /\ \A t \in Subscribers \ {s} : sub'[t] = sub[t]
  BY <1>2 DEF RabbitInv, R!TypeOK, R!SubTypeOK
<1>4. \A t \in Subscribers : sub'[t].msg = sub[t].msg /\ (sub'[t].pc = "handler" <=> sub[t].pc = "handler")
  BY <1>1, <1>3
<1>5. HandlerHolds' /\ RoutedWhenReady'
  BY <1>1, <1>4 DEF RabbitInv, HandlerHolds, RoutedWhenReady
<1>6. /\ queue \in [Subscribers -> Seq(Messages)] /\ buffer \in [Subscribers -> Seq(Messages)]
      /\ acked \in [Subscribers -> SUBSET Messages] /\ routed \in [Subscribers -> SUBSET Messages]
      /\ handled \in [Subscribers -> SUBSET Messages]
  BY DEF RabbitInv, R!TypeOK, R!BrokerTypeOK
<1>7. buffer[s] = <<>>
  BY <1>1 DEF RabbitInv, BufferedIsConsumed, R!Consumed
<1>8. CASE UNCHANGED <<channel, queue, buffer, acked, routed>> /\ pc \in {"declared", "bound"}
  <2>1. R!LifeTypeOK' /\ R!BrokerTypeOK'
    BY <1>1, <1>8 DEF RabbitInv, R!TypeOK, R!LifeTypeOK, R!BrokerTypeOK
  <2>2. BufferedIsConsumed'
    BY <1>1, <1>3, <1>7, <1>8 DEF RabbitInv, BufferedIsConsumed, R!Consumed
  <2>3. NothingLost'
    BY <1>1, <1>4, <1>8 DEF RabbitInv, NothingLost, R!NothingLost
  <2> QED BY <1>3, <1>5, <2>1, <2>2, <2>3 DEF RabbitInv, R!TypeOK
<1>9. CASE /\ pc = "select" /\ UNCHANGED <<channel, acked, routed>>
           /\ buffer' = [buffer EXCEPT ![s] = queue[s]] /\ queue' = [queue EXCEPT ![s] = <<>>]
  <2>1. R!LifeTypeOK' /\ R!BrokerTypeOK'
    BY <1>1, <1>6, <1>9 DEF RabbitInv, R!TypeOK, R!LifeTypeOK, R!BrokerTypeOK
  <2>2. BufferedIsConsumed'
    BY <1>3, <1>6, <1>9 DEF RabbitInv, BufferedIsConsumed, R!Consumed
  <2>3. NothingLost'
    <3> SUFFICES ASSUME channel', NEW t \in Subscribers, NEW m \in routed'[t] PROVE Kept(t, m)'
      BY DEF NothingLost, R!NothingLost, Kept
    <3>1. Kept(t, m)
      BY <1>9, LostNothing DEF RabbitInv
    <3>2. CASE t = s
      <4>1. ~ R!inSeq(m, buffer[s])
        BY <1>7 DEF R!inSeq
      <4>2. buffer'[s] = queue[s]
        BY <1>6, <1>9
      <4>3. R!inSeq(m, buffer'[s]) \/ m = sub[s].msg \/ m \in acked[s] \cap handled[s]
        BY <3>1, <3>2, <4>1, <4>2 DEF Kept
      <4> QED BY <1>1, <1>3, <1>9, <3>2, <4>3 DEF Kept, R!inSeq
    <3>3. CASE t # s
      <4>1. queue'[t] = queue[t] /\ buffer'[t] = buffer[t]
        BY <1>6, <1>9, <3>3
      <4> QED BY <1>1, <1>3, <1>9, <3>1, <3>3, <4>1 DEF Kept, R!inSeq
    <3> QED BY <3>2, <3>3
  <2> QED BY <1>3, <1>5, <2>1, <2>2, <2>3 DEF RabbitInv, R!TypeOK
<1>10. CASE R!ChannelCloses
  <2>1. channel' = FALSE /\ R!BrokerTypeOK' /\ BufferedIsConsumed' /\ NothingLost'
    BY <1>1, <1>3, <1>10, ClosingKeepsBrokerInv DEF R!Consumed
  <2>2. R!LifeTypeOK'
    BY <1>1, <2>1 DEF RabbitInv, R!TypeOK, R!LifeTypeOK
  <2> QED BY <1>3, <1>5, <2>1, <2>2 DEF RabbitInv, R!TypeOK
<1>11. \A q \in {"declared", "bound", "select", "error"} : sub' = [sub EXCEPT ![s].pc = q] => pc = q
  BY <1>3 DEF RabbitInv, R!TypeOK, R!SubTypeOK
<1> QED BY <1>8, <1>9, <1>10, <1>11 DEF R!Subscribe, R!Goes, R!life, R!broker

LEMMA CancelKeepsRabbitInv ==
    ASSUME RabbitInv, NEW s \in Subscribers, R!Cancel(s) \/ R!Leave(s)
    PROVE  RabbitInv'
<1>1. UNCHANGED <<module, conn, channel, queue, buffer, acked, routed, handled, fails>>
  BY DEF R!Cancel, R!Leave, R!life, R!broker
<1>2. /\ R!SubTypeOK'
      /\ \A t \in Subscribers : /\ sub'[t].msg = sub[t].msg /\ (sub'[t].pc = "handler" <=> sub[t].pc = "handler")
                                /\ R!Consumed(t) => sub'[t].pc \in {"select", "handler", "left"}
  <2>1. CASE R!Cancel(s)
    BY <2>1 DEF R!Cancel, RabbitInv, R!TypeOK, R!SubTypeOK, R!Consumed
  <2>2. CASE R!Leave(s)
    BY <2>2 DEF R!Leave, R!Goes, RabbitInv, R!TypeOK, R!SubTypeOK, R!Consumed
  <2> QED BY <2>1, <2>2
<1>3. R!LifeTypeOK' /\ R!BrokerTypeOK'
  BY <1>1 DEF RabbitInv, R!TypeOK, R!LifeTypeOK, R!BrokerTypeOK
<1>4. HandlerHolds' /\ RoutedWhenReady'
  BY <1>1, <1>2 DEF RabbitInv, HandlerHolds, RoutedWhenReady
<1>5. BufferedIsConsumed'
  BY <1>1, <1>2 DEF RabbitInv, BufferedIsConsumed, R!Consumed
<1>6. NothingLost'
  BY <1>1, <1>2 DEF RabbitInv, NothingLost, R!NothingLost
<1> QED BY <1>2, <1>3, <1>4, <1>5, <1>6 DEF RabbitInv, R!TypeOK

LEMMA TakeKeepsRabbitInv ==
    ASSUME RabbitInv, NEW s \in Subscribers, R!Take(s)
    PROVE  RabbitInv'
<1>1. /\ UNCHANGED <<module, conn, channel, queue, acked, routed, handled, fails>>
      /\ sub[s].pc = "select" /\ buffer[s] # <<>>
      /\ sub' = [sub EXCEPT ![s].pc = "handler", ![s].msg = Head(buffer[s])]
      /\ buffer' = [buffer EXCEPT ![s] = Tail(buffer[s])]
  BY DEF R!Take, R!life
<1>2. buffer \in [Subscribers -> Seq(Messages)] /\ R!SubTypeOK
  BY DEF RabbitInv, R!TypeOK, R!BrokerTypeOK
<1>3. Head(buffer[s]) \in Messages /\ Tail(buffer[s]) \in Seq(Messages)
  BY <1>1, <1>2, HeadTailProperties
<1>4. /\ R!SubTypeOK' /\ sub'[s].pc = "handler" /\ sub'[s].msg = Head(buffer[s])
      /\ \A t \in Subscribers \ {s} : sub'[t] = sub[t]
  BY <1>1, <1>2, <1>3, GoesType
<1>5. R!LifeTypeOK' /\ R!BrokerTypeOK'
  BY <1>1, <1>3 DEF RabbitInv, R!TypeOK, R!LifeTypeOK, R!BrokerTypeOK
<1>6. HandlerHolds' /\ RoutedWhenReady'
  BY <1>1, <1>3, <1>4, EventBusAssumption DEF RabbitInv, HandlerHolds, RoutedWhenReady
<1>7. BufferedIsConsumed'
  BY <1>1, <1>2, <1>4 DEF RabbitInv, BufferedIsConsumed, R!Consumed
<1>8. NothingLost'
  <2> SUFFICES ASSUME channel', NEW t \in Subscribers, NEW m \in routed'[t] PROVE Kept(t, m)'
    BY DEF NothingLost, R!NothingLost, Kept
  <2>1. Kept(t, m) /\ m \in Messages
    BY <1>1, LostNothing DEF RabbitInv, R!TypeOK, R!BrokerTypeOK
  <2>2. CASE t = s
    <3>1. m # sub[s].msg
      BY <1>1, <2>1, EventBusAssumption DEF RabbitInv, HandlerHolds
    <3>2. R!inSeq(m, buffer[s]) => m = Head(buffer[s]) \/ R!inSeq(m, Tail(buffer[s]))
      BY <1>1, <1>2, InSeqTail
    <3>3. buffer'[s] = Tail(buffer[s])
      BY <1>1, <1>2
    <3>4. R!inSeq(m, queue[s]) \/ R!inSeq(m, buffer'[s]) \/ m = sub'[s].msg \/ m \in acked[s] \cap handled[s]
      BY <1>4, <2>1, <2>2, <3>1, <3>2, <3>3 DEF Kept
    <3> QED BY <1>1, <2>2, <3>4 DEF Kept, R!inSeq
  <2>3. CASE t # s
    <3>1. buffer'[t] = buffer[t]
      BY <1>1, <1>2, <2>3
    <3> QED BY <1>1, <1>4, <2>1, <2>3, <3>1 DEF Kept, R!inSeq
  <2> QED BY <2>2, <2>3
<1> QED BY <1>4, <1>5, <1>6, <1>7, <1>8 DEF RabbitInv, R!TypeOK

LEMMA HandlerFailsKeepsRabbitInv ==
    ASSUME RabbitInv, NEW s \in Subscribers, R!HandlerFails(s)
    PROVE  RabbitInv'
<1> DEFINE msg == sub[s].msg
<1>1. /\ UNCHANGED <<module, conn, channel, queue, acked, routed, handled>>
      /\ sub[s].pc = "handler"
      /\ sub' = [sub EXCEPT ![s].pc = "select", ![s].msg = NoMsg]
      /\ buffer' = IF channel THEN [buffer EXCEPT ![s] = Append(buffer[s], msg)] ELSE buffer
  BY DEF R!HandlerFails, R!Nack, R!continue, R!life
<1>2. buffer \in [Subscribers -> Seq(Messages)] /\ R!SubTypeOK /\ fails \in 0 .. MaxFails
  BY DEF RabbitInv, R!TypeOK, R!LifeTypeOK, R!BrokerTypeOK
<1>3. msg \in Messages /\ Append(buffer[s], msg) \in Seq(Messages)
  <2>1. msg \in Messages
    BY <1>1, <1>2 DEF RabbitInv, HandlerHolds, R!SubTypeOK
  <2> QED BY <1>2, <2>1, AppendProperties
<1>4. /\ R!SubTypeOK' /\ sub'[s].pc = "select" /\ sub'[s].msg = NoMsg
      /\ \A t \in Subscribers \ {s} : sub'[t] = sub[t]
  BY <1>1, <1>2, GoesType
<1> HIDE DEF msg
<1>5. fails' \in 0 .. MaxFails
  BY <1>2, EventBusAssumption DEF R!HandlerFails
<1>6. R!LifeTypeOK' /\ R!BrokerTypeOK'
  BY <1>1, <1>3, <1>5 DEF RabbitInv, R!TypeOK, R!LifeTypeOK, R!BrokerTypeOK
<1>7. HandlerHolds' /\ RoutedWhenReady'
  BY <1>1, <1>4 DEF RabbitInv, HandlerHolds, RoutedWhenReady
<1>8. \A t \in Subscribers \ {s} : buffer'[t] = buffer[t]
  BY <1>1, <1>2
<1>9. BufferedIsConsumed'
  BY <1>4, <1>8 DEF RabbitInv, BufferedIsConsumed, R!Consumed
<1>10. NothingLost'
  <2> SUFFICES ASSUME channel', NEW t \in Subscribers, NEW m \in routed'[t] PROVE Kept(t, m)'
    BY DEF NothingLost, R!NothingLost, Kept
  <2>1. Kept(t, m)
    BY <1>1, LostNothing DEF RabbitInv
  <2>2. CASE t = s
    <3>1. buffer'[s] = Append(buffer[s], msg)
      BY <1>1, <1>2
    <3>2. R!inSeq(m, buffer'[s]) <=> R!inSeq(m, buffer[s]) \/ m = msg
      BY <1>2, <1>3, <3>1, InSeqAppend
    <3>3. R!inSeq(m, queue[s]) \/ R!inSeq(m, buffer'[s]) \/ m \in acked[s] \cap handled[s]
      BY <2>1, <2>2, <3>2 DEF Kept, msg
    <3> QED BY <1>1, <2>2, <3>3 DEF Kept, R!inSeq
  <2>3. CASE t # s
    BY <1>1, <1>4, <1>8, <2>1, <2>3 DEF Kept, R!inSeq
  <2> QED BY <2>2, <2>3
<1> QED BY <1>4, <1>6, <1>7, <1>9, <1>10 DEF RabbitInv, R!TypeOK

LEMMA HandlerSucceedsKeepsRabbitInv ==
    ASSUME RabbitInv, NEW s \in Subscribers, R!HandlerSucceeds(s)
    PROVE  RabbitInv'
<1> DEFINE msg == sub[s].msg
<1>1. /\ UNCHANGED <<module, conn, channel, queue, buffer, routed, fails>>
      /\ sub[s].pc = "handler"
      /\ sub' = [sub EXCEPT ![s].pc = "select", ![s].msg = NoMsg]
      /\ handled' = [handled EXCEPT ![s] = handled[s] \cup {msg}]
      /\ acked' = IF channel THEN [acked EXCEPT ![s] = acked[s] \cup {msg}] ELSE acked
  BY DEF R!HandlerSucceeds, R!life
<1>2. /\ acked \in [Subscribers -> SUBSET Messages] /\ handled \in [Subscribers -> SUBSET Messages]
      /\ R!SubTypeOK
  BY DEF RabbitInv, R!TypeOK, R!BrokerTypeOK
<1>3. msg \in Messages
  BY <1>1, <1>2 DEF RabbitInv, HandlerHolds, R!SubTypeOK
<1>4. /\ R!SubTypeOK' /\ sub'[s].pc = "select" /\ sub'[s].msg = NoMsg
      /\ \A t \in Subscribers \ {s} : sub'[t] = sub[t]
  BY <1>1, <1>2, GoesType
<1> HIDE DEF msg
<1>5. R!LifeTypeOK' /\ R!BrokerTypeOK'
  BY <1>1, <1>3 DEF RabbitInv, R!TypeOK, R!LifeTypeOK, R!BrokerTypeOK
<1>6. HandlerHolds' /\ RoutedWhenReady'
  BY <1>1, <1>4 DEF RabbitInv, HandlerHolds, RoutedWhenReady
<1>7. BufferedIsConsumed'
  BY <1>1, <1>4 DEF RabbitInv, BufferedIsConsumed, R!Consumed
<1>8. NothingLost'
  <2> SUFFICES ASSUME channel', NEW t \in Subscribers, NEW m \in routed'[t] PROVE Kept(t, m)'
    BY DEF NothingLost, R!NothingLost, Kept
  <2>1. Kept(t, m)
    BY <1>1, LostNothing DEF RabbitInv
  <2>2. acked'[t] = (IF t = s THEN acked[t] \cup {msg} ELSE acked[t])
        /\ handled'[t] = (IF t = s THEN handled[t] \cup {msg} ELSE handled[t])
    BY <1>1, <1>2
  <2>3. m \in acked[t] \cap handled[t] => m \in acked'[t] \cap handled'[t]
    BY <2>2
  <2>4. m = sub[t].msg => m = sub'[t].msg \/ m \in acked'[t] \cap handled'[t]
    BY <1>4, <2>2 DEF msg
  <2> QED BY <1>1, <2>1, <2>3, <2>4 DEF Kept, R!inSeq
<1> QED BY <1>4, <1>5, <1>6, <1>7, <1>8 DEF RabbitInv, R!TypeOK

-----------------------------------------------------------------------------
(* The two together. *)

LEMMA EventBusInductive == (MemoryInv /\ RabbitInv) /\ [Next]_vars => (MemoryInv /\ RabbitInv)'
<1> SUFFICES ASSUME MemoryInv, RabbitInv, [Next]_vars PROVE (MemoryInv /\ RabbitInv)'
  OBVIOUS
<1>1. UNCHANGED memory => MemoryInv'
  BY DEF memory, MemoryInv, M!TypeOK, LoopInv, ReachesAll, M!ReachesAll
<1>2. UNCHANGED rabbit => RabbitInv'
  BY DEF rabbit, RabbitInv, R!TypeOK, R!LifeTypeOK, R!SubTypeOK, R!BrokerTypeOK, HandlerHolds,
         BufferedIsConsumed, RoutedWhenReady, NothingLost, R!NothingLost, R!Consumed, R!inSeq
<1>3. CASE Memory
  <2>1. MemoryInv'
    BY <1>3, SubscribeKeepsMemoryInv, PublishKeepsMemoryInv, CallHandlerKeepsMemoryInv DEF Memory, M!Step
  <2> QED BY <1>2, <1>3, <2>1 DEF Memory
<1>4. CASE Rabbitmq
  <2>1. RabbitInv'
    BY <1>4, ConnectKeepsRabbitInv, ClosingKeepsRabbitInv, PublishKeepsRabbitInv, SubscribeKeepsRabbitInv,
       CancelKeepsRabbitInv, TakeKeepsRabbitInv, HandlerFailsKeepsRabbitInv, HandlerSucceedsKeepsRabbitInv
       DEF Rabbitmq, R!Step, R!Goroutine
  <2> QED BY <1>1, <1>4, <2>1 DEF Rabbitmq
<1>5. CASE UNCHANGED vars
  BY <1>1, <1>2, <1>5 DEF vars
<1> QED BY <1>3, <1>4, <1>5 DEF Next

LEMMA EventBusInvariant == Spec => [](MemoryInv /\ RabbitInv)
<1>1. Init => MemoryInv /\ RabbitInv
  BY InitMemoryInv, InitRabbitInv DEF Init
<1> QED BY <1>1, EventBusInductive, PTL DEF Spec

\* A message on the in-memory bus reaches the subscribers that its topic had when Publish
\* was called, in their order and each once, up to the first that fails.
THEOREM MemoryReachesAll == Spec => []ReachesAll
<1>1. MemoryInv => ReachesAll
  BY DEF MemoryInv
<1> QED BY <1>1, EventBusInvariant, PTL

\* While the AMQP channel is open, no message that was routed to a subscriber is lost by the
\* goroutine that handles, acknowledges or requeues it.
THEOREM RabbitNothingLost == Spec => []NothingLost
<1>1. RabbitInv => NothingLost
  BY DEF RabbitInv
<1> QED BY <1>1, EventBusInvariant, PTL
=============================================================================
