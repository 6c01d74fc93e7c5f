----------------------------- MODULE MCLifecycle -----------------------------
(***************************************************************************)
(* Instances of Lifecycle for TLC.                                         *)
(***************************************************************************)
EXTENDS Lifecycle

on(name, provider)  == [name |-> name, provider |-> provider, enabled |-> TRUE]
off(name, provider) == [name |-> name, provider |-> provider, enabled |-> FALSE]

MCLists == [
    external |-> <<on("store", "postgres"), on("registry", "consul")>>,
    memory   |-> <<on("registry", "memory"), off("cache", "redis"), on("tracing", "otel")>>,
    two      |-> <<on("registry", "consul"), on("registry", "memory")>>,
    same     |-> <<on("eventbus", "rabbitmq"), on("eventbus", "rabbitmq")>>,
    noop     |-> <<on("registry", "noop"), on("cache", "memory")>>,
    unknown  |-> <<on("cache", "unknown")>>]

redisAddr == <<"modules", "redis", "addr">>

Documents ==
    {Components :> list @@ OtelEnabled :> "true" : list \in DOMAIN MCLists}
        \cup {OtelEnabled :> "false", redisAddr :> "localhost", Components :> "text",
              <<"runtime">> :> "null" @@ <<"modules">> :> "null",
              <<"runtime">> :> "text"}

MCContents ==
    {[state |-> s, doc |-> << >>] : s \in {"missing", "bad"}}
        \cup {[state |-> "ok", doc |-> d] : d \in Documents}
=============================================================================
