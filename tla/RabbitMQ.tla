------------------------------ MODULE RabbitMQ ------------------------------
(***************************************************************************)
(* The RabbitMQ event bus (adapters/rabbitmq/rabbitmq.go) with the broker  *)
(* and the client library as its environment.                              *)
(*                                                                         *)
(* One AMQP channel serves all subscribers.  A subscriber has a queue that *)
(* is exclusive and auto-delete, so the queue and what is in it goes with  *)
(* the channel; an error of the broker closes the channel.  There is no    *)
(* limit on unacknowledged deliveries, so that the broker sends a message  *)
(* on as soon as there is a consumer, and the client library buffers it.   *)
(***************************************************************************)
EXTENDS Naturals, Sequences

CONSTANTS
    Subscribers,  \* subscribers, each with one handler and one goroutine
    Messages,     \* messages, each published once
    Topic,        \* Topic[x]: the topic of subscriber or message x
    Poison,       \* the messages on which every handler fails
    NoMsg,        \* no message
    MaxFails      \* bound: failures of a handler on another message

VARIABLES
    module,     \* the module: new, dialed, opened, ready, failed, stopped
    conn,       \* the connection is open
    channel,    \* the channel is open
    sub,        \* sub[s]: [pc, msg, done]: Subscribe, then the goroutine
    queue,      \* queue[s]: messages at the broker, which wait for a consumer
    buffer,     \* buffer[s]: on the way to the goroutine
    acked,      \* acked[s]: messages that the broker has forgotten
    routed,     \* history: routed[s], messages that came into the queue
    handled,    \* history: handled[s], messages on which the handler succeeded
    fails       \* how often handlers have failed on messages other than poison

life     == <<module, conn, channel>>
broker   == <<queue, buffer, acked, routed>>

Init ==
    /\ module = "new" /\ conn = FALSE /\ channel = FALSE
    /\ sub = [s \in Subscribers |-> [pc |-> "none", msg |-> NoMsg, done |-> FALSE]]
    /\ queue = [s \in Subscribers |-> <<>>] /\ buffer = queue
    /\ acked = [s \in Subscribers |-> {}] /\ routed = acked /\ handled = acked
    /\ fails = 0

-----------------------------------------------------------------------------
(* Init and Stop of the module. *)

\* New closes what it has opened before it returns an error.
abandon == module' = "failed" /\ conn' = FALSE /\ channel' = FALSE

\* New: dial, open a channel, declare the exchange.
Connect ==
    /\ \/ module = "new" /\ module' = "dialed" /\ conn' = TRUE /\ UNCHANGED channel
       \/ module = "dialed" /\ module' = "opened" /\ channel' = TRUE /\ UNCHANGED conn
       \/ module = "opened" /\ module' = "ready" /\ UNCHANGED <<conn, channel>>
       \/ module \in {"new", "dialed", "opened"} /\ abandon
    /\ UNCHANGED <<sub, broker, handled, fails>>

\* What the client library still hands over of a buffer after the channel has closed.
handedOver(s) == {SubSeq(buffer[s], 1, n) : n \in 0 .. Len(buffer[s])}

\* The channel closes: the queues are gone, and so is the rest of the buffers.
ChannelCloses ==
    /\ channel' = FALSE
    /\ queue' = [s \in Subscribers |-> <<>>]
    /\ buffer' \in [Subscribers -> UNION {handedOver(s) : s \in Subscribers}]
    /\ \A s \in Subscribers : buffer'[s] \in handedOver(s)
    /\ UNCHANGED <<acked, routed>>

\* Close; it does not wait for the goroutines.
Stop ==
    /\ module = "ready" /\ module' = "stopped"
    /\ conn' = FALSE /\ ChannelCloses
    /\ UNCHANGED <<sub, handled, fails>>

\* The broker or the network takes the connection away; nothing opens it again.
ConnectionLost ==
    /\ module = "ready" /\ conn
    /\ conn' = FALSE /\ ChannelCloses
    /\ UNCHANGED <<module, sub, handled, fails>>

-----------------------------------------------------------------------------
(* Publish and Subscribe. *)

Goes(s, pc) == sub' = [sub EXCEPT ![s].pc = pc]

\* A queue gets messages once it is bound, whether it is consumed or not.
Bound(s) == sub[s].pc \notin {"none", "declared", "error"}

Consumed(s) == sub[s].pc \in {"select", "handler", "left"}

\* A message for which there is no queue is dropped, without an error.
Publish(m) ==
    /\ channel /\ module = "ready" /\ \A s \in Subscribers : m \notin routed[s]
    /\ LET to  == {s \in Subscribers : Bound(s) /\ Topic[s] = Topic[m]}
           add(f, S) == [s \in Subscribers |-> IF s \in S THEN Append(f[s], m) ELSE f[s]]
       IN  /\ queue' = add(queue, {s \in to : ~ Consumed(s)})
           /\ buffer' = add(buffer, {s \in to : Consumed(s)})
           /\ routed' = [s \in Subscribers |-> IF s \in to THEN routed[s] \cup {m} ELSE routed[s]]
    /\ UNCHANGED <<life, sub, acked, handled, fails>>

\* QueueDeclare, QueueBind, Consume; then the goroutine starts.
Subscribe(s) ==
    /\ module = "ready"
    /\ \/ sub[s].pc = "none" /\ channel /\ Goes(s, "declared") /\ UNCHANGED <<life, broker>>
       \/ sub[s].pc = "declared" /\ channel /\ Goes(s, "bound") /\ UNCHANGED <<life, broker>>
       \/ /\ sub[s].pc = "bound" /\ channel /\ Goes(s, "select")
          /\ buffer' = [buffer EXCEPT ![s] = queue[s]] /\ queue' = [queue EXCEPT ![s] = <<>>]
          /\ UNCHANGED <<life, acked, routed>>
       \/ /\ sub[s].pc \in {"none", "declared", "bound"} /\ Goes(s, "error")
          /\ ChannelCloses /\ UNCHANGED <<module, conn>>
    /\ UNCHANGED <<handled, fails>>

-----------------------------------------------------------------------------
(* The goroutine. *)

Cancel(s) ==
    /\ sub[s].pc \in {"select", "handler"} /\ ~ sub[s].done
    /\ sub' = [sub EXCEPT ![s].done = TRUE]
    /\ UNCHANGED <<life, broker, handled, fails>>

\* ctx is done, or deliveries is closed.
Leave(s) ==
    /\ sub[s].pc = "select" /\ (sub[s].done \/ (~ channel /\ buffer[s] = <<>>))
    /\ Goes(s, "left")
    /\ UNCHANGED <<life, broker, handled, fails>>

\* Consume does not acknowledge for the goroutine.
Take(s) ==
    /\ sub[s].pc = "select" /\ buffer[s] # <<>>
    /\ sub' = [sub EXCEPT ![s].pc = "handler", ![s].msg = Head(buffer[s])]
    /\ buffer' = [buffer EXCEPT ![s] = Tail(@)]
    /\ UNCHANGED <<life, queue, acked, routed, handled, fails>>

\* Fault: Nack without the requeue flag.
NackDrops(s) == UNCHANGED buffer

\* The message goes back to the queue and from there to its consumer again.  An error,
\* of a channel that is closed, is ignored.
Nack(s) == buffer' = IF channel THEN [buffer EXCEPT ![s] = Append(@, sub[s].msg)] ELSE buffer

\* Fault: the goroutine ends with the first error.
continueReturns == "left"

\* The loop goes on after an error.
continue == "select"

HandlerFails(s) ==
    /\ sub[s].pc = "handler"
    /\ IF sub[s].msg \in Poison THEN UNCHANGED fails ELSE fails < MaxFails /\ fails' = fails + 1
    /\ sub' = [sub EXCEPT ![s].pc = continue, ![s].msg = NoMsg]
    /\ Nack(s)
    /\ UNCHANGED <<life, queue, acked, routed, handled>>

\* Ack, whose error is ignored.
HandlerSucceeds(s) ==
    /\ sub[s].pc = "handler" /\ sub[s].msg \notin Poison
    /\ handled' = [handled EXCEPT ![s] = @ \cup {sub[s].msg}]
    /\ acked' = IF channel THEN [acked EXCEPT ![s] = @ \cup {sub[s].msg}] ELSE acked
    /\ sub' = [sub EXCEPT ![s].pc = "select", ![s].msg = NoMsg]
    /\ UNCHANGED <<life, queue, buffer, routed, fails>>

Goroutine(s) == Leave(s) \/ Take(s) \/ HandlerFails(s) \/ HandlerSucceeds(s)

Step ==
    \/ Connect \/ Stop \/ ConnectionLost
    \/ \E m \in Messages : Publish(m)
    \/ \E s \in Subscribers : Subscribe(s) \/ Cancel(s) \/ Goroutine(s)

-----------------------------------------------------------------------------
(* Properties. *)

inSeq(m, seq) == \E k \in DOMAIN seq : seq[k] = m

LifeTypeOK ==
    /\ module \in {"new", "dialed", "opened", "ready", "failed", "stopped"}
    /\ conn \in BOOLEAN /\ channel \in BOOLEAN /\ fails \in 0 .. MaxFails

SubTypeOK ==
    sub \in [Subscribers ->
                [pc : {"none", "declared", "bound", "select", "handler", "left", "error"},
                 msg : Messages \cup {NoMsg}, done : BOOLEAN]]

BrokerTypeOK ==
    /\ queue \in [Subscribers -> Seq(Messages)] /\ buffer \in [Subscribers -> Seq(Messages)]
    /\ acked \in [Subscribers -> SUBSET Messages] /\ routed \in [Subscribers -> SUBSET Messages]
    /\ handled \in [Subscribers -> SUBSET Messages]

TypeOK == LifeTypeOK /\ SubTypeOK /\ BrokerTypeOK

\* While the channel is open no message that came into a subscriber's queue is lost: it is
\* at the broker, in the buffer or in the handler, or it is acknowledged and the handler has
\* succeeded on it, whatever handlers return before.
NothingLost ==
    channel => \A s \in Subscribers : \A m \in routed[s] :
        \/ inSeq(m, queue[s]) \/ inSeq(m, buffer[s]) \/ m = sub[s].msg
        \/ m \in acked[s] \cap handled[s]

\* A subscriber gets every message in its queue handled although others fail for ever,
\* unless it cancels or the channel closes.
PoisonDoesNotStarve ==
    \A s \in Subscribers, m \in Messages \ Poison :
        (sub[s].pc = "select" /\ m \in routed[s] /\ channel)
            ~> (m \in handled[s] \/ sub[s].done \/ ~ channel)
=============================================================================
