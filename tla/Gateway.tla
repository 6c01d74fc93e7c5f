------------------------------- MODULE Gateway -------------------------------
(***************************************************************************)
(* The gateway module (transport/gateway/gateway.go): Init mounts global   *)
(* plugins (plugin_chain.go), their skip lists (pluginskip.go) and the     *)
(* configured routes on the fiber application; Stop shuts the application  *)
(* down and closes the pooled connections.  Between them requests run      *)
(* through the chain of handlers; those for a server-streaming route go on *)
(* as ServerStream.                                                        *)
(*                                                                         *)
(* fiber is the environment.  An entry of its stack is [method, pattern,   *)
(* steps, end, route]; a request meets the entries that match it in the    *)
(* order of registration, up to the first whose end is not "next".  What   *)
(* follows on a unary route is UnaryProxy and on a WebSocket BidiStream.   *)
(***************************************************************************)
EXTENDS GatewayPlugins

CONSTANTS
    Configs,        \* configurations to try: [plugins, routes, custom]
    Registrations,  \* lists of what a project registers before Init: [what, name], for a
                    \* code's HTTP status or gRPC code [what, code, value]
    Requests,       \* requests that clients send
    Covers,         \* Covers[p]: the paths that fiber matches with pattern p
    Clients,        \* clients of server-streaming routes
    NoConn,         \* no connection
    MaxMsgs         \* bound: messages that the upstream sends on one stream

VARIABLES
    cfg,         \* the configuration
    registered,  \* [invoker, stream, plugin, http, grpc]: rpcs, <<rpc, kind>> pairs, names,
                 \* the gateway's httpMap and the grpcMap of the services behind it
    phase,       \* new, init, routes, ready, serving, draining, closing, stopped; failed
    stack,       \* fiber's stack
    globalSkips, \* Gateway.globalSkips
    routes,      \* Gateway.configuredRoutes
    open, inflight, client   \* see ServerStream

mounted == <<stack, globalSkips, routes>>
streams == <<inflight, client>>
vars == <<cfg, registered, phase, mounted, open, streams>>

\* The size of a route's pool; only a route with a target has one.
poolSize(r) == IF ~ r.target THEN 0 ELSE IF r.pool <= 0 THEN 1 ELSE r.pool

Pool(i, r) == {i} \X (1 .. poolSize(r))
Conns == UNION {UNION {Pool(i, c.routes[i]) : i \in DOMAIN c.routes} : c \in Configs}

\* A list of the configuration, and the fields of a route in it.
IsList(s) == s \in Seq(Range(s))
RouteFields == {"path", "rpc", "stream", "method", "service", "target", "pool", "claims", "skips", "plugins"}

ASSUME GatewayAssumption ==
    /\ Configs # {} /\ MaxMsgs \in Nat
    /\ IsFiniteSet(Clients) /\ NoConn \notin Conns
    /\ \A c \in Configs :
           /\ IsList(c.plugins) /\ IsList(c.routes) /\ IsList(c.custom)
           /\ \A i \in DOMAIN c.routes :
                  /\ DOMAIN c.routes[i] = RouteFields
                  /\ IsList(c.routes[i].plugins) /\ IsList(c.routes[i].skips)

S == INSTANCE ServerStream

Init ==
    /\ cfg \in Configs
    /\ registered = [invoker |-> {}, stream |-> {}, plugin |-> Builtins,
                     http |-> httpMap, grpc |-> grpcMap]
    /\ phase = "new"
    /\ stack = <<>> /\ globalSkips = <<>> /\ routes = <<>> /\ open = {}
    /\ S!Init

-----------------------------------------------------------------------------
(* What a project registers before the gateway is initialised. *)

\* /package.Service/Method with or without the first slash; anything else is an error.
normalizeRPC(typed) == IF typed[2] = "malformed" THEN Err ELSE Ok(typed[1])

\* A plugin's name is taken once.  An RPC has to be well-formed, and a later
\* registration of a stream replaces an earlier one.
registerOne(reg, r) ==
    LET rpc == normalizeRPC(r.name)
    IN  CASE r.what = "http"    -> [reg EXCEPT !.http = RegisterHTTPStatus(@, r.code, r.value)]
          [] r.what = "grpc"    -> [reg EXCEPT !.grpc = RegisterGRPCCode(@, r.code, r.value)]
          [] r.what = "plugin"  -> [reg EXCEPT !.plugin = @ \cup {normalized(r.name)}]
          [] ~ rpc.ok           -> reg
          [] r.what = "invoker" -> [reg EXCEPT !.invoker = @ \cup {rpc.val}]
          [] OTHER              -> [reg EXCEPT !.stream = {p \in @ : p[1] # rpc.val} \cup
                                                         {<<rpc.val, r.what>>}]

Register ==
    /\ phase = "new" /\ phase' = "init"
    /\ \E list \in Registrations : registered' = FoldLeft(registerOne, registered, list)
    /\ UNCHANGED <<cfg, mounted, open, streams>>

-----------------------------------------------------------------------------
(* Init. *)

Entry(method, pattern, steps, end, route) ==
    [method |-> method, pattern |-> pattern, steps |-> steps, end |-> end, route |-> route]

\* The plugins that have a Mount.
mounting(built) == Keep(built, {b \in Range(built) : b.plugin.endpoint # ""})

\* Their endpoints, mounted for route i or, if 0, globally.
endpoints(built, i) ==
    LET own == mounting(built)
    IN  [k \in DOMAIN own |-> Entry("GET", own[k].plugin.endpoint, <<>>, "endpoint", i)]

\* What is mounted before a Mount that fails; those of the built-in plugins never do.
endpointsBeforeError(built, i) ==
    {SubSeq(endpoints(built, i), 1, k - 1) :
        k \in {l \in DOMAIN mounting(built) : mounting(built)[l].name \notin Builtins}}

handlers(built) == Keep(built, {b \in Range(built) : b.plugin.handler})

\* Fault: each plugin's endpoint is mounted next to its handler.
globalEntriesInterleaved(built) ==
    FlattenSeq([k \in DOMAIN built |->
        (IF built[k].plugin.handler THEN <<Entry("ALL", "ALL", <<built[k]>>, "next", 0)>> ELSE <<>>)
            \o endpoints(<<built[k]>>, 0)])

\* All endpoints first, so that they are exempt from the chain, then the chain.
globalEntries(built) ==
    endpoints(built, 0) \o
    [k \in DOMAIN handlers(built) |-> Entry("ALL", "ALL", <<handlers(built)[k]>>, "next", 0)]

MountGlobalPlugins ==
    /\ phase = "init"
    /\ LET built == Build(registered.plugin, cfg.plugins)
           health == Entry("GET", "/health", <<>>, "health", 0)
       IN  \/ built.ok /\ phase' = "routes" /\ stack' = <<health>> \o globalEntries(built.val)
           \/ /\ built.ok /\ phase' = "failed"
              /\ \E before \in endpointsBeforeError(built.val, 0) : stack' = <<health>> \o before
           \/ ~ built.ok /\ phase' = "failed" /\ stack' = <<health>>
    /\ UNCHANGED <<cfg, registered, globalSkips, routes, open, streams>>

\* Checks a route's config; the method defaults to GET for a stream and POST otherwise.
newProxyRoute(r) ==
    IF r.path = "" \/ ~ normalizeRPC(r.rpc).ok \/ ~ (r.service \/ r.target) THEN Err
    ELSE Ok([r EXCEPT !.rpc = normalizeRPC(@).val,
                      !.method = IF @ # "" THEN @ ELSE IF r.stream # "" THEN "GET" ELSE "POST"])

\* What a route opts out of.
skipOf(route) ==
    LET names == {normalized(n) : n \in Range(route.skips)}
    IN  [method |-> route.method, pattern |-> route.path,
         all |-> "*" \in names, names |-> names \ {"*", ""}]

\* A list without a name in it is no list.
registerPluginSkip(route) ==
    IF skipOf(route).all \/ skipOf(route).names # {}
    THEN Append(globalSkips, skipOf(route)) ELSE globalSkips

\* A unary route needs an invoker for its RPC, a stream route a codec of its kind.
proxyRegistered(route) ==
    IF route.stream = "" THEN route.rpc \in registered.invoker
    ELSE <<route.rpc, route.stream>> \in registered.stream

\* The handlers of route i: on a WebSocket the upgrade guard comes first, and the
\* method is always GET.
routeEntry(i, route, built) ==
    IF route.stream = "bidi"
    THEN Entry("GET", route.path, <<[name |-> "upgrade guard", plugin |-> Plugin]>> \o handlers(built),
               "bidi", i)
    ELSE Entry(route.method, route.path, handlers(built),
               IF route.stream = "sse" THEN "sse" ELSE "unary", i)

\* The connections of the pool are dialed one by one until one fails.
dialPool(i, route, dialed) == open' = open \cup {i} \X (1 .. dialed)

\* One turn of the loop in mountConfiguredRoutes.  Init fails where the route does, and
\* what was done before stays: the skip list, the connections, the route itself.
MountRoute ==
    LET i == Len(routes) + 1
        route == newProxyRoute(cfg.routes[i])
        built == Build(registered.plugin, cfg.routes[i].plugins)
    IN  /\ phase = "routes" /\ i <= Len(cfg.routes)
        /\ globalSkips' = IF route.ok THEN registerPluginSkip(route.val) ELSE globalSkips
        /\ IF ~ route.ok \/ ~ proxyRegistered(route.val)
           THEN phase' = "failed" /\ UNCHANGED <<stack, routes, open>>
           ELSE \E dialed \in 0 .. poolSize(route.val) :
                /\ dialPool(i, route.val, dialed)
                /\ IF dialed # poolSize(route.val)
                   THEN phase' = "failed" /\ UNCHANGED <<stack, routes>>
                   ELSE /\ routes' = Append(routes, route.val)
                        /\ \/ /\ built.ok /\ UNCHANGED phase
                              /\ stack' = stack \o endpoints(built.val, i)
                                               \o <<routeEntry(i, route.val, built.val)>>
                           \/ /\ built.ok /\ phase' = "failed"
                              /\ \E before \in endpointsBeforeError(built.val, i) :
                                    stack' = stack \o before
                           \/ ~ built.ok /\ phase' = "failed" /\ UNCHANGED stack
        /\ UNCHANGED <<cfg, registered, streams>>

\* The project's own routes come last.
MountCustomRoutes ==
    /\ phase = "routes" /\ Len(routes) = Len(cfg.routes)
    /\ stack' = stack \o [k \in DOMAIN cfg.custom |-> Entry("GET", cfg.custom[k], <<>>, "custom", 0)]
    /\ phase' = "ready"
    /\ UNCHANGED <<cfg, registered, globalSkips, routes, open, streams>>

-----------------------------------------------------------------------------
(* The way of a request through the stack. *)

\* fiber.RoutePatternMatch and fiber's router (external).
matches(method, pattern, req) ==
    method \in {"ALL", req.method} /\ (pattern = "ALL" \/ req.path \in Covers[pattern])

\* Fault: the method is not looked at.
skipsGlobalPluginAnyMethod(name, req) ==
    \E k \in DOMAIN globalSkips :
        /\ globalSkips[k].all \/ name \in globalSkips[k].names
        /\ req.path \in Covers[globalSkips[k].pattern]

\* Some route that opted out of the plugin matches the request.
skipsGlobalPlugin(name, req) ==
    \E k \in DOMAIN globalSkips :
        /\ globalSkips[k].all \/ name \in globalSkips[k].names
        /\ matches(globalSkips[k].method, globalSkips[k].pattern, req)

\* Where on the stack the entries are that a request meets: those that match, up to the
\* first that would serve it.
visited(req) ==
    LET hits == {k \in DOMAIN stack : matches(stack[k].method, stack[k].pattern, req)}
    IN  {k \in hits : \A l \in hits : l < k => stack[l].end = "next"}

\* wrapGlobalPlugin: a global plugin that the request skips does nothing.
stepsOf(entry, req) ==
    IF entry.end = "next" /\ skipsGlobalPlugin(entry.steps[1].name, req) THEN <<>> ELSE entry.steps

\* What happens to a request: the handlers that run, and the entry that serves it unless a
\* handler answers instead or there is none.
exchange(req) ==
    LET met     == visited(req)
        steps   == FlattenSeq([k \in DOMAIN stack |->
                                   IF k \in met THEN stepsOf(stack[k], req) ELSE <<>>])
        refuses == {k \in DOMAIN steps : verdict(steps[k], req) # "next"}
        ends    == {k \in met : stack[k].end # "next"}
        served  == refuses = {} /\ ends # {}
        last    == stack[CHOOSE k \in ends : TRUE]
    IN  [ran   |-> IF refuses = {} THEN steps
                   ELSE SubSeq(steps, 1, CHOOSE k \in refuses : \A l \in refuses : k <= l),
         end   |-> IF served THEN last.end ELSE "refused",
         route |-> IF served THEN last.route ELSE 0]

ranNames(x) == [k \in DOMAIN x.ran |-> x.ran[k].name]

\* The claims in the locals of the request: those of the token, if the plugin ran.
localClaims(x, req) ==
    IF \E k \in DOMAIN x.ran : x.ran[k].name = "jwt" THEN claimsOf(req.token) ELSE <<>>

\* The metadata that goes upstream on a configured route, or an error.
forwarded(x, req) == outgoing(buildClaimForwarder(routes[x.route].claims), localClaims(x, req))

\* Handle: the status of the answer on a unary route if the service returns err.
answerStatus(x, req, err) ==
    HTTPStatus(registered.http,
               failure(IF forwarded(x, req).ok THEN ErrorInterceptor(registered.grpc, err)
                       ELSE New("UNAUTHENTICATED")).code)

-----------------------------------------------------------------------------
(* Serving and stopping. *)

Start ==
    /\ phase = "ready" /\ phase' = "serving"
    /\ UNCHANGED <<cfg, registered, mounted, open, streams>>

\* A request that the chain lets through to a server-streaming route.
Request(c) ==
    /\ phase = "serving" /\ client[c].pc = "idle"
    /\ \E req \in Requests :
        LET x == exchange(req)
        IN  /\ x.end = "sse"
            /\ S!Begin(c, Pool(x.route, routes[x.route]), forwarded(x, req).ok)
    /\ UNCHANGED <<cfg, registered, phase, mounted, open>>

Relay(c) ==
    /\ S!Step(c)
    /\ UNCHANGED <<cfg, registered, phase, mounted, open>>

Environment(c) ==
    /\ S!Environment(c)
    /\ UNCHANGED <<cfg, registered, phase, mounted, open>>

\* Stop is called: no more requests are accepted.
Stop ==
    /\ phase = "serving" /\ phase' = "draining"
    /\ UNCHANGED <<cfg, registered, mounted, open, streams>>

\* ShutdownWithContext returns: the requests are done or the time is up.
Drained ==
    /\ phase = "draining" /\ phase' = "closing"
    /\ UNCHANGED <<cfg, registered, mounted, open, streams>>

\* The connections of the configured routes.
toClose == open \cap UNION {Pool(i, routes[i]) : i \in DOMAIN routes}

\* Stop closes one connection after the other.
CloseConn ==
    /\ phase = "closing"
    /\ IF toClose = {} THEN phase' = "stopped" /\ UNCHANGED open
       ELSE UNCHANGED phase /\ \E k \in toClose : open' = open \ {k}
    /\ UNCHANGED <<cfg, registered, mounted, streams>>

Next ==
    \/ Register \/ MountGlobalPlugins \/ MountRoute \/ MountCustomRoutes
    \/ Start \/ Stop \/ Drained \/ CloseConn
    \/ \E c \in Clients : Request(c) \/ Relay(c) \/ Environment(c)

Spec == Init /\ [][Next]_vars

\* Handlers and writers are scheduled unless they wait for somebody else, and Stop, once
\* called, goes on: its context expires.
FairSpec ==
    /\ Spec
    /\ WF_vars(Drained) /\ WF_vars(CloseConn)
    /\ \A c \in Clients : WF_vars(Relay(c) /\ ~ S!Waits(c))

-----------------------------------------------------------------------------
(* Properties. *)

TypeOK ==
    /\ cfg \in Configs
    /\ phase \in {"new", "init", "routes", "ready", "serving", "draining", "closing", "stopped", "failed"}
    /\ Len(routes) <= Len(cfg.routes) /\ open \subseteq Conns
    /\ S!TypeOK

\* Streams give back what they hold, and a gateway that has stopped has closed every
\* connection its Init has dialed.
NothingLeaked == S!NothingLeaked /\ (phase = "stopped" => open = {})

\* See ServerStream.
LeavingEndsStream == S!LeavingEndsStream

\* The names that the route opts out of, from its config alone.
optedOut(i, name) == \E n \in Range(cfg.routes[i].skips) : n[1] \in {name, "*"}

\* The plugins with a handler in a list of the config.
listed(specs) ==
    LET on == Keep(specs, {s \in Range(specs) : s.enabled # "false" /\ s.name[1] \in Builtins})
    IN  [k \in DOMAIN on |-> on[k].name[1]]

\* A request that a configured route serves has run through the global plugins in the
\* order of the config, without those that the route opts out of, and then through the
\* route's own; on a WebSocket the upgrade guard is between them.  Two cases are excepted:
\* another route with a skip list that also matches the request, whose list applies too,
\* and a WebSocket with a method other than GET, which is mounted on GET while its list is
\* kept under its method.
FullChain ==
    phase = "ready" => \A req \in Requests :
        LET x == exchange(req) IN
        (/\ x.route # 0 /\ x.end # "endpoint"
         /\ \A j \in DOMAIN cfg.routes \ {x.route} :
                cfg.routes[j].skips # <<>> => ~ matches(routes[j].method, routes[j].path, req)
         /\ x.end = "bidi" => routes[x.route].method = "GET")
        => ranNames(x) = Keep(listed(cfg.plugins), {n \in Builtins : ~ optedOut(x.route, n)})
                           \o (IF x.end = "bidi" THEN <<"upgrade guard">> ELSE <<>>)
                           \o listed(cfg.routes[x.route].plugins)

\* The health endpoint and the endpoints of the global plugins answer every request that
\* matches them, whatever the plugins before or after them in the list would say.
EndpointsExempt ==
    phase = "ready" => \A req \in Requests :
        (\E k \in DOMAIN stack :
            /\ stack[k].end \in {"health", "endpoint"} /\ stack[k].route = 0
            /\ matches(stack[k].method, stack[k].pattern, req))
        => exchange(req).ran = <<>> /\ exchange(req).end \in {"health", "endpoint"}

\* What the upstream gets as a claim is the subject of a token that was verified or a
\* configured default, and it always gets a required claim that has no default.
ClaimsVerified ==
    phase = "ready" => \A req \in Requests :
        LET x      == exchange(req)
            claims == Range(routes[x.route].claims)
            sent   == forwarded(x, req)
        IN  (x.end \in {"unary", "sse", "bidi"} /\ sent.ok) =>
                /\ \A m \in sent.val :
                       \/ m[2] = "alice" /\ req.token = "user" /\ "jwt" \in Range(ranNames(x))
                       \/ \E p \in claims : m[2] = p.default /\ p.default # "nil"
                /\ \A p \in claims :
                       p.claim # "" /\ p.required /\ p.default = "nil" =>
                           <<IF p.header = "" THEN p.claim ELSE p.header, "alice">> \in sent.val

\* The gRPC code that the service gives to an error decides the HTTP status of the gateway's
\* answer: it is the status that the gateway has for the framework code which has this gRPC
\* code by default, and that of an internal error if there is none.  So a code of the
\* framework gets its own status unless the service has given it another gRPC code; a code
\* of the project never gets the status registered for it, but that of the framework code
\* with the same gRPC code; a wrapped error is internal.
StatusSurvives ==
    phase = "ready" => \A req \in Requests, err \in Errors :
        LET x      == exchange(req)
            grpc   == IF err.type = "app" THEN GRPCCode(registered.grpc, err.code) ELSE "Internal"
            status == answerStatus(x, req, err)
        IN  (x.end = "unary" /\ forwarded(x, req).ok /\ grpc # "OK") =>
                /\ \A code \in DOMAIN grpcMap :
                       grpcMap[code] = grpc => status = HTTPStatus(registered.http, code)
                /\ grpc \notin Range(grpcMap) => status = HTTPStatus(registered.http, "INTERNAL")

\* Stop ends the streams on pooled connections, even if their upstream is silent.  Only a
\* client that stays and never reads what was sent to it keeps its writer for ever.
StopEndsStreams ==
    \A c \in Clients :
        \/ <>[]S!Unread(c)
        \/ (phase = "closing" /\ client[c].conn # NoConn) ~> client[c].pc = "done"
=============================================================================
