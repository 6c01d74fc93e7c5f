--------------------------- MODULE GatewayPlugins ---------------------------
(***************************************************************************)
(* The plugins of the gateway: their typed settings and the registry that  *)
(* builds them (transport/gateway/plugin), the built-in ones (plugins/),   *)
(* and the forwarding of verified claims (claimforward.go).                *)
(*                                                                         *)
(* A name as somebody typed it is <<name, spelling>>.  A YAML value is     *)
(* [type, val]; a number with a fraction has the type "fraction" and a     *)
(* list that does not hold strings only the type "mixed".  A request is    *)
(* [method, path, token, key, limited, upgrade]: limited says that the     *)
(* limiter of fiber has seen too many requests from this address; one with *)
(* the method OPTIONS is a preflight request of a browser.                 *)
(***************************************************************************)
EXTENDS Integers, Sequences, FiniteSets, Functions, TLC, SequencesExt, Errors

Ok(value) == [ok |-> TRUE, val |-> value]
Err       == [ok |-> FALSE]

\* The elements of the sequence s that are in T, in their order.
Keep(s, T) == FlattenSeq([k \in DOMAIN s |-> IF s[k] \in T THEN <<s[k]>> ELSE <<>>])

\* strings.ToLower(strings.TrimSpace(name))
normalized(typed) == typed[1]

-----------------------------------------------------------------------------
(* Settings: the default if the key is absent or null, an error if the value  *)
(* has the wrong type.                                                        *)

setting(s, key, def, types) ==
    IF key \notin DOMAIN s \/ s[key].type = "nil" THEN Ok(def)
    ELSE IF s[key].type \in types THEN Ok(s[key].val) ELSE Err

String(s, key, def) == setting(s, key, def, {"string"})
Bool(s, key, def)   == setting(s, key, def, {"bool"})
IntOf(s, key, def)  == setting(s, key, def, {"int", "int64", "float64"})
Strings(s, key)     == setting(s, key, <<>>, {"[]string", "[]any"})

\* The durations that time.ParseDuration (external) accepts, in seconds.
ParseDuration == [d \in {"0s", "1m"} |-> IF d = "0s" THEN 0 ELSE 60]

Duration(s, key, def) ==
    IF key \in DOMAIN s /\ s[key].type = "string"
    THEN IF s[key].val \in DOMAIN ParseDuration THEN Ok(ParseDuration[s[key].val]) ELSE Err
    ELSE setting(s, key, def, {"int", "int64"})

-----------------------------------------------------------------------------
(* The factories.  A plugin has a handler, an endpoint of its own, or both.  *)

Plugin == [handler |-> TRUE, endpoint |-> "", keys |-> {}, skip |-> {}]

recoveryFactory(s) == Ok(Plugin)

accesslogFactory(s) ==
    LET skip == Strings(s, "skip_paths")
    IN  IF skip.ok THEN Ok([Plugin EXCEPT !.skip = Range(skip.val)]) ELSE Err

ratelimitFactory(s) ==
    LET max    == IntOf(s, "max", 100)
        window == Duration(s, "window", 60)
    IN  IF max.ok /\ window.ok /\ max.val > 0 /\ window.val > 0 THEN Ok(Plugin) ELSE Err

apikeyFactory(s) ==
    LET keys == Strings(s, "keys")
    IN  IF /\ keys.ok /\ keys.val # <<>>
           /\ String(s, "header", "X-API-Key").ok /\ String(s, "query", "").ok
        THEN Ok([Plugin EXCEPT !.keys = Range(keys.val)]) ELSE Err

\* Credentials are not allowed for all origins, which is what the default allows.
corsFactory(s) ==
    LET origins     == Strings(s, "allow_origins")
        credentials == Bool(s, "allow_credentials", FALSE)
    IN  IF /\ \A key \in {"allow_origins", "allow_methods", "allow_headers", "expose_headers"} :
                  Strings(s, key).ok
           /\ credentials.ok /\ (credentials.val => origins.val \notin {<<>>, <<"*">>})
           /\ IntOf(s, "max_age", 0).ok
        THEN Ok(Plugin) ELSE Err

jwtFactory(s) ==
    LET secret    == String(s, "secret", "")
        algorithm == String(s, "algorithm", "HS256")
    IN  IF /\ secret.ok /\ secret.val # ""
           /\ algorithm.ok /\ algorithm.val \in {"HS256", "HS384", "HS512"}
           /\ \A key \in {"issuer", "audience", "header", "scheme"} : String(s, key, "").ok
        THEN Ok(Plugin) ELSE Err

metricsFactory(s) ==
    LET path == String(s, "path", "/metrics")
    IN  IF path.ok /\ String(s, "namespace", "gateway").ok
        THEN Ok([Plugin EXCEPT !.endpoint = path.val]) ELSE Err

\* What RegisterBuiltins puts into the default registry.
Builtins == {"recovery", "access_log", "cors", "rate_limit", "api_key", "jwt", "metrics"}

\* A project's own factory (external): here a plugin with an endpoint and no handler.
customFactory(s) == Ok([Plugin EXCEPT !.handler = FALSE, !.endpoint = "/custom"])

factory(name, s) ==
    CASE name = "recovery"   -> recoveryFactory(s)
      [] name = "access_log" -> accesslogFactory(s)
      [] name = "cors"       -> corsFactory(s)
      [] name = "rate_limit" -> ratelimitFactory(s)
      [] name = "api_key"    -> apikeyFactory(s)
      [] name = "jwt"        -> jwtFactory(s)
      [] name = "metrics"    -> metricsFactory(s)
      [] OTHER               -> customFactory(s)

-----------------------------------------------------------------------------
(* Registry.Build. *)

IsEnabled(spec) == spec.enabled # "false"

\* One entry: the name has to be registered, and it is the normalised name that the
\* plugin gets.
buildOne(registered, spec) ==
    LET name  == normalized(spec.name)
        built == factory(name, spec.config)
    IN  IF name \in registered /\ built.ok THEN Ok([name |-> name, plugin |-> built.val]) ELSE Err

\* The enabled entries in config order; the first error is the result.
Build(registered, specs) ==
    LET enabled == Keep(specs, {s \in Range(specs) : IsEnabled(s)})
        built   == [i \in DOMAIN enabled |-> buildOne(registered, enabled[i])]
    IN  IF \A i \in DOMAIN built : built[i].ok
        THEN Ok([i \in DOMAIN built |-> built[i].val]) ELSE Err

-----------------------------------------------------------------------------
(* The handlers.  A verdict of "next" means that the handler calls Next; any  *)
(* other is what it answers instead.                                          *)

\* An empty candidate matches no key.
matchesAny(candidate, keys) == candidate # "" /\ candidate \in keys

\* Tokens that the parser (external) accepts.
ValidTokens == {"user", "anonymous", "odd"}

apikeyHandler(item, req) ==
    IF matchesAny(req.key, item.plugin.keys) THEN "next" ELSE "UNAUTHENTICATED"

\* Its claims go to the locals of the request.
jwtHandler(req) == IF req.token \in ValidTokens THEN "next" ELSE "UNAUTHENTICATED"

\* fiber's handler (external) answers preflight requests itself.
corsHandler(req) == IF req.method = "OPTIONS" THEN "204" ELSE "next"

verdict(item, req) ==
    CASE item.name = "api_key"       -> apikeyHandler(item, req)
      [] item.name = "jwt"           -> jwtHandler(req)
      [] item.name = "cors"          -> corsHandler(req)
      [] item.name = "rate_limit"    -> IF req.limited THEN "RATE_LIMITED" ELSE "next"
      [] item.name = "upgrade guard" -> IF req.upgrade THEN "next" ELSE "426"
      [] OTHER                       -> "next"

-----------------------------------------------------------------------------
(* Claims.  The claims of a token: "user" has a subject, that of "odd" is not  *)
(* a scalar, "anonymous" has none.                                             *)

claimsOf(token) ==
    CASE token = "user" -> [sub |-> [type |-> "string", val |-> "alice"]]
      [] token = "odd"  -> [sub |-> [type |-> "object", val |-> "alice"]]
      [] OTHER          -> <<>>

\* A claim's text; only scalars have one.
claimToString(value) ==
    IF value.type \in {"string", "bool", "float64", "json.Number"} THEN Ok(value.val) ELSE Err

claimText(claims, key) == IF key \in DOMAIN claims THEN claimToString(claims[key]) ELSE Err

\* The configured pairs: an entry without a claim is dropped, the header is the claim
\* unless it is set.
buildClaimForwarder(specs) ==
    {[claim |-> spec.claim, header |-> IF spec.header = "" THEN spec.claim ELSE spec.header,
      required |-> spec.required, default |-> spec.default] :
        spec \in {s \in Range(specs) : s.claim # ""}}

\* Fault: a required claim that is missing is skipped like an optional one.
outgoingOptional(pairs, claims) ==
    Ok({<<p.header, claimText(claims, p.claim).val>> :
            p \in {q \in pairs : claimText(claims, q.claim).ok}})

\* The metadata to send.  For a claim without text the default is sent (unless it is nil), else a
\* required one is an error.
outgoing(pairs, claims) ==
    LET has(p)  == claimText(claims, p.claim).ok
        text(p) == IF has(p) THEN claimText(claims, p.claim).val ELSE p.default
    IN  IF \E p \in pairs : ~ has(p) /\ p.default = "nil" /\ p.required THEN Err
        ELSE Ok({<<p.header, text(p)>> : p \in {q \in pairs : has(q) \/ q.default # "nil"}})
=============================================================================
