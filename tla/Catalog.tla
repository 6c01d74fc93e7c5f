------------------------------- MODULE Catalog -------------------------------
(***************************************************************************)
(* The module catalog (core/module/catalog.go, adapters/catalog.go) and    *)
(* what the runtime sees of the modules it holds: the runtime values that  *)
(* Init sets, which calls may fail, and whether Health asks a server       *)
(* outside.  A module is named by component and provider, lower-cased and  *)
(* trimmed as key does.                                                    *)
(***************************************************************************)
EXTENDS Sequences

\* BaseModule: nothing set, no call fails.
BaseModule == [sets |-> {}, mayFail |-> {}, pings |-> FALSE]

redis    == [sets |-> {"cache", "redis"}, mayFail |-> {"Init", "Stop"}, pings |-> TRUE]
postgres == [sets |-> {"store", "tx_manager", "gorm"}, mayFail |-> {"Init", "Stop"}, pings |-> TRUE]
rabbitmq == [sets |-> {"eventbus", "publisher", "subscriber"},
             mayFail |-> {"Init", "Stop"}, pings |-> TRUE]
consul   == [sets |-> {"registry", "registrar", "resolver"}, mayFail |-> {"Init"}, pings |-> TRUE]
otel     == [sets |-> {"tracing"}, mayFail |-> {"Init", "Stop"}, pings |-> FALSE]

CacheModule    == [BaseModule EXCEPT !.sets = {"cache", "locker", "rate_limiter"}]
EventBusModule == [BaseModule EXCEPT !.sets = {"eventbus", "publisher", "subscriber"}]
RegistryModule == [BaseModule EXCEPT !.sets = {"registry", "registrar", "resolver"}]

\* The no-op adapter of a component sets its main value only.
noop(name) == [BaseModule EXCEPT !.sets = {name}]

\* The components and their providers.
Registered ==
    ({"cache", "eventbus", "registry"} \X {"memory"})
        \cup ({"cache", "store", "eventbus", "registry", "tracing"} \X {"noop"})
        \cup {<<"cache", "redis">>, <<"store", "postgres">>, <<"eventbus", "rabbitmq">>,
              <<"registry", "consul">>, <<"tracing", "otel">>}

DefaultCatalog ==
    [m \in Registered |->
        CASE m[2] = "redis"    -> redis
          [] m[2] = "postgres" -> postgres
          [] m[2] = "rabbitmq" -> rabbitmq
          [] m[2] = "consul"   -> consul
          [] m[2] = "otel"     -> otel
          [] m[2] = "noop"     -> noop(m[1])
          [] m = <<"cache", "memory">>    -> CacheModule
          [] m = <<"eventbus", "memory">> -> EventBusModule
          [] m = <<"registry", "memory">> -> RegistryModule]

\* An entry of the list of components.
ComponentConfig == [name : STRING, provider : STRING, enabled : BOOLEAN]

\* Build skips a component that is not enabled.
enabledOf(specs) == SelectSeq(specs, LAMBDA s : s.enabled)

\* The modules of the enabled components, in order; an unknown one is an error.
Build(specs) ==
    LET enabled == enabledOf(specs)
        key(s)  == <<s.name, s.provider>>
    IN  [ok      |-> \A i \in DOMAIN enabled : key(enabled[i]) \in DOMAIN DefaultCatalog,
         modules |-> [i \in DOMAIN enabled |-> key(enabled[i])]]
=============================================================================
