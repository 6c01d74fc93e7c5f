------------------------------ MODULE MCGateway ------------------------------
(***************************************************************************)
(* Instances of Gateway for TLC: eight configurations, five of which Init  *)
(* can mount.                                                              *)
(***************************************************************************)
EXTENDS Gateway

Val(type, val) == [type |-> type, val |-> val]
Spec1(name, config) == [name |-> <<name, "lower">>, enabled |-> "nil", config |-> config]

Jwt     == Spec1("jwt", "secret" :> Val("string", "s"))
ApiKey  == Spec1("api_key", "keys" :> Val("[]any", <<"k">>))
Metrics == Spec1("metrics", "path" :> Val("nil", ""))
Limit   == Spec1("rate_limit", "max" :> Val("float64", 5) @@ "window" :> Val("string", "1m"))
Log     == Spec1("access_log", "skip_paths" :> Val("[]string", <<"/users/me">>))
Origins == Spec1("cors", "allow_origins" :> Val("[]any", <<"o">>))
Cors    == Spec1("cors", "allow_credentials" :> Val("bool", TRUE))
Own     == [Spec1("own", <<>>) EXCEPT !.name = <<"own", "upper">>]
Off(spec) == [spec EXCEPT !.enabled = "false"]

Sub(required, default) == [claim |-> "sub", header |-> "x-user", required |-> required, default |-> default]

Route(path, rpc, stream) ==
    [path |-> path, rpc |-> <<rpc, "slash">>, stream |-> stream, method |-> "", service |-> TRUE,
     target |-> FALSE, pool |-> 0, claims |-> <<>>, skips |-> <<>>, plugins |-> <<>>]

Feed   == [Route("/feed", "Feed", "sse") EXCEPT !.target = TRUE, !.pool = 2]
Users  == [Route("/users/:id", "Users", "") EXCEPT !.method = "GET"]
Me     == [Users EXCEPT !.path = "/users/me"]
Create == [Users EXCEPT !.method = "", !.skips = <<<<"*", "lower">>>>]
Chat   == [Route("/chat", "Chat", "bidi") EXCEPT !.target = TRUE]

Conf(plugins, rs) == [plugins |-> plugins, routes |-> rs, custom |-> <<"/custom">>]

MCConfigs == {
    \* Claims on a pooled stream; one method of a path is public.
    Conf(<<Spec1("recovery", <<>>), Metrics, Jwt, Limit>>,
         <<[Feed EXCEPT !.claims = <<Sub(TRUE, "nil")>>], Create, Users>>),
    \* Overlapping patterns, names in upper case, a default for a required claim.
    Conf(<<Jwt, Log, Metrics>>,
         <<[Me EXCEPT !.claims = <<Sub(FALSE, "nil")>>],
           [Users EXCEPT !.skips = <<<<"jwt", "upper">>, <<"", "lower">>>>,
                         !.claims = <<Sub(TRUE, "guest")>>]>>),
    \* No pool; route plugins; a public WebSocket.
    Conf(<<ApiKey, Own, Off(Limit)>>,
         <<[Feed EXCEPT !.target = FALSE, !.plugins = <<Jwt>>, !.claims = <<Sub(TRUE, "nil")>>],
           [Chat EXCEPT !.skips = <<<<"*", "lower">>>>, !.plugins = <<Metrics, Own>>]>>),
    \* Preflight requests are answered before the token is asked for.
    Conf(<<Origins, Jwt>>, <<Users>>),
    \* Two routes with pools, the second of which may fail to dial.
    Conf(<<>>, <<[Feed EXCEPT !.pool = 1], Chat>>),
    \* Init fails: in a global plugin, in a route plugin after its dial, in the route.
    Conf(<<Spec1("api_key", <<>>)>>, <<>>),
    Conf(<<>>, <<[Feed EXCEPT !.plugins = <<Cors>>]>>),
    Conf(<<>>, <<[Users EXCEPT !.rpc = <<"Users", "malformed">>]>>)}

Reg(what, name, form) == [what |-> what, name |-> <<name, form>>]

Map(what, code, value) == [what |-> what, code |-> code, value |-> value]

MCOwnCodes == {"CUSTOM", "QUOTA", "UNREGISTERED"}

\* All there is; the stream of /feed registered as another kind later, with codes of the
\* project's own and changed ones of the framework; an RPC misspelt.
MCRegistrations ==
    LET all == <<Reg("invoker", "Users", "bare"), Reg("sse", "Feed", "slash"),
                 Reg("bidi", "Chat", "slash"), Reg("plugin", "own", "lower")>>
        codes == <<Map("http", "CUSTOM", 418), Map("grpc", "CUSTOM", "Aborted"),
                   Map("http", "QUOTA", 402), Map("grpc", "QUOTA", "ResourceExhausted"),
                   Map("http", "CONFLICT", 422), Map("grpc", "UNAVAILABLE", "DeadlineExceeded"),
                   Map("grpc", "NOT_FOUND", "OK")>>
    IN  {all, Append(all, Reg("bidi", "Feed", "bare")) \o codes,
         <<Reg("invoker", "Users", "malformed")>> \o Tail(all)}

MCCovers ==
    [p \in {"/feed", "/users/me", "/chat", "/health", "/metrics", "/custom"} |-> {p}]
        @@ "/users/:id" :> {"/users/1", "/users/me"}

MCRequests ==
    [method : {"GET", "POST"}, path : {"/feed", "/users/1", "/users/me", "/chat"},
     token : {"none", "user", "odd"}, key : {"", "k"}, limited : BOOLEAN, upgrade : BOOLEAN]
    \cup
    [method : {"GET"}, path : {"/health", "/metrics", "/custom", "/none"},
     token : {"none", "anonymous"}, key : {""}, limited : BOOLEAN, upgrade : {FALSE}]
    \cup
    [method : {"OPTIONS"}, path : {"/feed", "/users/1"},
     token : {"none"}, key : {""}, limited : {FALSE}, upgrade : {FALSE}]
=============================================================================
