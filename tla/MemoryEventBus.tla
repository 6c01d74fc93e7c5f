--------------------------- MODULE MemoryEventBus ---------------------------
(***************************************************************************)
(* The in-memory event bus (adapters/memory/eventbus.go).  Publish copies  *)
(* the topic's handlers under the read lock and then calls them one after  *)
(* the other, without the lock; Subscribe appends under the write lock.    *)
(***************************************************************************)
EXTENDS Naturals, Sequences

CONSTANTS
    Subscribers,  \* subscribers, each with one handler
    Messages,     \* messages, each published once
    Topic         \* Topic[x]: the topic of subscriber or message x

VARIABLES
    handlers,  \* handlers[topic]: its subscribers, in order
    publish,   \* publish[m]: the call of Publish: [pc, copy, next]
    called     \* history: called[m], the handlers that were called, in order

Topics == {Topic[x] : x \in Subscribers \cup Messages}

Init ==
    /\ handlers = [t \in Topics |-> <<>>]
    /\ publish = [m \in Messages |-> [pc |-> "idle", copy |-> <<>>, next |-> 1]]
    /\ called = [m \in Messages |-> <<>>]

Subscribed(s) == \E k \in DOMAIN handlers[Topic[s]] : handlers[Topic[s]][k] = s

\* A handler may call it too: no lock is held while handlers run.
Subscribe(s) ==
    /\ ~ Subscribed(s)
    /\ handlers' = [handlers EXCEPT ![Topic[s]] = Append(@, s)]
    /\ UNCHANGED <<publish, called>>

\* The copy.
Publish(m) ==
    /\ publish[m].pc = "idle"
    /\ publish' = [publish EXCEPT ![m] = [pc |-> "loop", copy |-> handlers[Topic[m]], next |-> 1]]
    /\ UNCHANGED <<handlers, called>>

\* Fault: the loop goes over the list as it is now.
toCallLive(m) == handlers[Topic[m]]

\* The handlers that the loop goes over.
toCall(m) == publish[m].copy

\* One turn of the loop: the first error is what Publish returns.
CallHandler(m) ==
    /\ publish[m].pc = "loop"
    /\ IF publish[m].next > Len(toCall(m))
       THEN publish' = [publish EXCEPT ![m].pc = "nil"] /\ UNCHANGED called
       ELSE /\ called' = [called EXCEPT ![m] = Append(@, toCall(m)[publish[m].next])]
            /\ \/ publish' = [publish EXCEPT ![m].next = @ + 1]
               \/ publish' = [publish EXCEPT ![m].pc = "error"]
    /\ UNCHANGED handlers

Step ==
    \/ \E s \in Subscribers : Subscribe(s)
    \/ \E m \in Messages : Publish(m) \/ CallHandler(m)

-----------------------------------------------------------------------------
(* Properties. *)

TypeOK ==
    /\ handlers \in [Topics -> Seq(Subscribers)]
    /\ publish \in [Messages -> [pc : {"idle", "loop", "nil", "error"}, copy : Seq(Subscribers), next : Nat]]
    /\ called \in [Messages -> Seq(Subscribers)]

\* A message reaches the subscribers that its topic had when Publish was called, in the
\* order in which they subscribed and each once: all of them if Publish returns nil, and
\* those up to the one that failed otherwise.  Subscribers that come while it runs wait
\* for the next message.
ReachesAll ==
    \A m \in Messages :
        /\ publish[m].pc = "nil" => called[m] = publish[m].copy
        /\ \E n \in 0 .. Len(publish[m].copy) : called[m] = SubSeq(publish[m].copy, 1, n)
=============================================================================
