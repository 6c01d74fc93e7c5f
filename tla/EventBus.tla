------------------------------ MODULE EventBus ------------------------------
(***************************************************************************)
(* The event bus of an application: the in-memory one or RabbitMQ, as the  *)
(* component list of the configuration says.  Both set the runtime values  *)
(* "eventbus", "publisher" and "subscriber" to themselves.                 *)
(***************************************************************************)
EXTENDS Naturals, Sequences

CONSTANTS Subscribers, Messages, Topic, Poison, NoMsg, MaxFails

ASSUME EventBusAssumption ==
    Poison \subseteq Messages /\ NoMsg \notin Messages /\ MaxFails \in Nat

VARIABLES
    provider,                                   \* memory or rabbitmq
    handlers, publish, called,                  \* see MemoryEventBus
    module, conn, channel, sub, queue, buffer,  \* see RabbitMQ
    acked, routed, handled, fails

M == INSTANCE MemoryEventBus
R == INSTANCE RabbitMQ

memory == <<handlers, publish, called>>
rabbit == <<module, conn, channel, sub, queue, buffer, acked, routed, handled, fails>>
vars   == <<provider, memory, rabbit>>

Init == provider \in {"memory", "rabbitmq"} /\ M!Init /\ R!Init

Memory   == provider = "memory" /\ M!Step /\ UNCHANGED <<provider, rabbit>>
Rabbitmq == provider = "rabbitmq" /\ R!Step /\ UNCHANGED <<provider, memory>>

Next == Memory \/ Rabbitmq

Spec == Init /\ [][Next]_vars

\* A subscriber's goroutine is scheduled and its handler returns.
FairSpec ==
    Spec /\ \A s \in Subscribers : WF_vars(R!Goroutine(s) /\ UNCHANGED <<provider, memory>>)

-----------------------------------------------------------------------------
(* Properties: those of the two, which see. *)

TypeOK == M!TypeOK /\ R!TypeOK
ReachesAll == M!ReachesAll
NothingLost == R!NothingLost
PoisonDoesNotStarve == R!PoisonDoesNotStarve
=============================================================================
