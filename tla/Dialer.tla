------------------------------- MODULE Dialer -------------------------------
(***************************************************************************)
(* The gRPC client dialer (transport/grpcclient/client.go), which keeps    *)
(* one connection per target for the routes without a pool, and the        *)
(* registry it resolves service names with (adapters/memory/registry.go).  *)
(*                                                                         *)
(* DialTarget looks in the map and inserts into it in two critical         *)
(* sections; the call of grpc.NewClient lies between them.                 *)
(***************************************************************************)
EXTENDS Naturals, FiniteSets

CONSTANTS
    Caller,     \* goroutines that dial
    Targets,    \* addresses at which instances of the service may run
    NoTarget,   \* none of them
    MaxDials    \* bound: connections made to one target

VARIABLES
    direct,     \* the target that is dialed without asking the registry: the route's own, or
                \* the service's name if the dialer has no resolver; NoTarget for none
    instances,  \* the registry: targets at which an instance is registered
    conns,      \* Dialer.conns: targets for which a connection is kept
    opened,     \* opened[t]: connections made to target t; none is ever closed
    dial        \* dial[c]: the call of DialService that c makes

dialerVars == <<direct, instances, conns, opened, dial>>

Dials  == [pc : {"idle", "lookup", "new", "done", "failed"}, target : Targets \cup {NoTarget}]
Returned(how) == [pc |-> how, target |-> NoTarget]

Init ==
    /\ direct \in Targets \cup {NoTarget}
    /\ instances \in SUBSET Targets
    /\ conns = {}
    /\ opened = [t \in Targets |-> 0]
    /\ dial = [c \in Caller |-> Returned("idle")]

-----------------------------------------------------------------------------
(* The registry.  A gRPC server registers when it starts and deregisters when it *)
(* stops; Consul's agent also drops an instance that fails its checks.           *)

Register(t) ==
    /\ instances' = instances \cup {t} /\ instances' # instances
    /\ UNCHANGED <<direct, conns, opened, dial>>

Deregister(t) ==
    /\ instances' = instances \ {t} /\ instances' # instances
    /\ UNCHANGED <<direct, conns, opened, dial>>

\* The order of the answer is that of a map: any instance may be the first.
Resolve == instances

-----------------------------------------------------------------------------
(* The dialer. *)

Underway(c) == dial[c].pc \in {"lookup", "new"}

\* Resolves the service, unless the target is known without; that fails if the registry
\* does or if there is no instance.
DialService(c) ==
    /\ ~ Underway(c)
    /\ \/ /\ direct # NoTarget
          /\ dial' = [dial EXCEPT ![c] = [pc |-> "lookup", target |-> direct]]
       \/ /\ direct = NoTarget
          /\ \E t \in Resolve : dial' = [dial EXCEPT ![c] = [pc |-> "lookup", target |-> t]]
       \/ direct = NoTarget /\ dial' = [dial EXCEPT ![c] = Returned("failed")]
    /\ UNCHANGED <<direct, instances, conns, opened>>

\* The first critical section of DialTarget: the target's connection is there or not.
DialTarget(c) ==
    /\ dial[c].pc = "lookup"
    /\ dial' = [dial EXCEPT ![c] = IF @.target \in conns THEN Returned("done") ELSE [@ EXCEPT !.pc = "new"]]
    /\ UNCHANGED <<direct, instances, conns, opened>>

\* Fault: the connection is used but not kept.
InsertForgotten(c) ==
    /\ opened' = [opened EXCEPT ![dial[c].target] = @ + 1]
    /\ UNCHANGED conns

\* NewClient and the second critical section.  A connection that another goroutine
\* has put there meanwhile is replaced.
Insert(c) ==
    /\ opened' = [opened EXCEPT ![dial[c].target] = @ + 1]
    /\ conns' = conns \cup {dial[c].target}

NewClient(c) ==
    /\ dial[c].pc = "new"
    /\ \/ /\ opened[dial[c].target] < MaxDials
          /\ Insert(c)
          /\ dial' = [dial EXCEPT ![c] = Returned("done")]
       \/ /\ dial' = [dial EXCEPT ![c] = Returned("failed")]
          /\ UNCHANGED <<conns, opened>>
    /\ UNCHANGED <<direct, instances>>

Dialing(c) == DialService(c) \/ DialTarget(c) \/ NewClient(c)
Discovery  == \E t \in Targets : Register(t) \/ Deregister(t)

Next == Discovery \/ \E c \in Caller : Dialing(c)

Spec == Init /\ [][Next]_dialerVars

-----------------------------------------------------------------------------
(* Properties. *)

TypeOK ==
    /\ direct \in Targets \cup {NoTarget}
    /\ instances \subseteq Targets /\ conns \subseteq Targets
    /\ opened \in [Targets -> Nat]
    /\ dial \in [Caller -> Dials]

\* The race between the two critical sections costs at most one connection per
\* goroutine and target, however often they dial and the registry changes; after
\* that the kept one is used.
DialsBounded == \A t \in Targets : opened[t] <= Cardinality(Caller)
=============================================================================
