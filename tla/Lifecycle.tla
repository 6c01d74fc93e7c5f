------------------------------ MODULE Lifecycle ------------------------------
(***************************************************************************)
(* The life of a service process.  The main that the generator writes      *)
(* (templates/generator.go) loads the configuration (Config), builds the   *)
(* modules of the configured components (Catalog) and adds the service's   *)
(* own module and the gRPC server (transport/grpcserver/server.go).        *)
(* Application.Run (core/app/app.go) takes them through Init, Start and    *)
(* Stop, and the server announces itself in the service registry that      *)
(* another module provides.                                                *)
(*                                                                         *)
(* The server's Serve and GracefulStop run in goroutines of their own,     *)
(* RPCs arrive meanwhile, and another goroutine may ask for a health       *)
(* report (core/health/health.go) at any moment.  google.golang.org/grpc,  *)
(* the registry's agent and the RPC clients are the environment.  So is    *)
(* what the author adds to the service's module: any of its calls may fail.*)
(***************************************************************************)
EXTENDS Naturals, FiniteSets, Config, Catalog

CONSTANTS
    Lists,         \* the component lists that a file may hold, by name
    Contents,      \* what a configuration file may be
    MaxReports,    \* bound: health reports asked for
    MaxHandlers    \* bound: RPC handlers running at once

\* Lists are sequences of components, and so are their enabled entries.
ASSUME LifecycleAssumption ==
    /\ MaxHandlers \in Nat /\ MaxReports \in Nat
    /\ \A specs \in {Lists[l] : l \in DOMAIN Lists} \cup {<< >>} :
           specs \in Seq(ComponentConfig) /\ enabledOf(specs) \in Seq(ComponentConfig)

VARIABLES
    files,       \* base, envs, services and local configuration, until they are read
    modules,     \* Application.modules
    otelOn,      \* the configuration enables the OpenTelemetry module
    values,      \* values[k]: which module set the runtime value k, 0 if none did
    run,         \* main and Application.Run: [pc, i], i counts the modules of this phase
    outcome,     \* what Run returned: "", "nil" or "error"
    module,      \* module[m]: new, inited, started, stopped
    server,      \* grpcserver.Module
    graceful,    \* the goroutine in Stop: none, pending, draining, done
    registered,  \* the registry lists this instance
    handlers,    \* RPC handlers running
    report,      \* the health report that is being made, or the last one
    lost         \* history: a Deregister call has failed

application == <<files, modules, otelOn, values>>

vars == <<files, modules, otelOn, values, run, outcome, module, server, graceful,
          registered, handlers, report, lost>>

Files == 1 .. 4
N     == Len(modules)

grpcserver == <<"transport", "grpcserver">>
service    == <<"service", "service">>

Position(m) == CHOOSE i \in 1 .. N : modules[i] = m
Server      == Position(grpcserver)

\* What the runtime sees of the i-th module; OpenTelemetry that is not enabled does
\* nothing but read its configuration.
Traits(i) ==
    CASE modules[i] = service    -> [BaseModule EXCEPT !.mayFail = {"Init", "Start", "Stop"}]
      [] modules[i] = grpcserver -> BaseModule
      [] modules[i] = <<"tracing", "otel">> /\ ~ otelOn -> [BaseModule EXCEPT !.mayFail = {"Init"}]
      [] OTHER                   -> DefaultCatalog[modules[i]]

RuntimeKeys == UNION {DefaultCatalog[m].sets : m \in DOMAIN DefaultCatalog}

bystanders == <<application, registered, handlers, report, lost>>

\* pc: where the server's Start or Stop is; registrar: the module it registers with,
\* 0 for none; serves: the service's handler is registered; serviceID: set or not;
\* serve: the Serve goroutine; health: the status is SERVING; forced: server.Stop has run.
ServerModule == [pc : {"idle", "register", "select"},
                 registrar : 0 .. N, serves : BOOLEAN, serviceID : BOOLEAN,
                 listener : {"nil", "open", "closed"},
                 serve : {"none", "pending", "running", "returned"},
                 health : BOOLEAN, forced : BOOLEAN]

Init ==
    /\ files \in [Files -> Contents]
    /\ modules = << >> /\ otelOn = FALSE
    /\ values = [k \in RuntimeKeys |-> 0]
    /\ run = [pc |-> "main", i |-> 1] /\ outcome = ""
    /\ module = << >>
    /\ server = [pc |-> "idle", registrar |-> 0, serves |-> FALSE, serviceID |-> FALSE,
                 listener |-> "nil", serve |-> "none",
                 health |-> FALSE, forced |-> FALSE]
    /\ graceful = "none"
    /\ registered = FALSE /\ handlers = 0 /\ lost = FALSE
    /\ report = [count |-> 0, pending |-> {}, status |-> "ok"]

-----------------------------------------------------------------------------
(* main. *)

\* Fault: the server comes before the service it is to serve.
mainModulesServerFirst(mods) == mods \o <<grpcserver, service>>

\* The configured modules, then the service's, then the server.
mainModules(mods) == mods \o <<service, grpcserver>>

\* A configuration that does not load, has something else where the list of components
\* goes or names an unknown component ends main.
Main ==
    /\ run.pc = "main"
    /\ LET cfg   == Load(files)
           built == Build(IF cfg.components = "null" THEN << >> ELSE Lists[cfg.components])
       IN  IF cfg.ok /\ cfg.components \in DOMAIN Lists \cup {"null"} /\ built.ok
           THEN /\ modules' = mainModules(built.modules)
                /\ module' = [m \in 1 .. Len(modules') |-> "new"]
                /\ otelOn' = cfg.otel
                /\ run' = [run EXCEPT !.pc = "init"] /\ UNCHANGED outcome
           ELSE /\ run' = [run EXCEPT !.pc = "returned"] /\ outcome' = "error"
                /\ UNCHANGED <<modules, module, otelOn>>
    /\ files' = << >>
    /\ UNCHANGED <<values, server, graceful, registered, handlers, report, lost>>

-----------------------------------------------------------------------------
(* Application. *)

\* The loop of this phase goes on to the next module, or Run to the next phase.
NextModule(nextPhase) ==
    run' = IF run.i < N THEN [run EXCEPT !.i = @ + 1] ELSE [pc |-> nextPhase, i |-> 1]

\* Init or Start fails: Run returns the error and stops nothing.
Abort ==
    /\ run' = [run EXCEPT !.pc = "returned"]
    /\ outcome' = "error"

\* The server's Init picks up the registrar that an earlier Init has set, if any,
\* and has the service register its handler, which does nothing before the
\* service's own Init.
InitServer == [server EXCEPT !.registrar = values["registrar"],
                             !.serves = module[Position(service)] = "inited"]

\* Runtime.Set: the values of module i replace those of earlier modules.
SetValues(i) == [k \in RuntimeKeys |-> IF k \in Traits(i).sets THEN i ELSE values[k]]

\* mod.Init.
InitModule ==
    /\ run.pc = "init"
    /\ \/ /\ module' = [module EXCEPT ![run.i] = "inited"]
          /\ values' = SetValues(run.i)
          /\ server' = IF run.i = Server THEN InitServer ELSE server
          /\ NextModule("start") /\ UNCHANGED outcome
       \/ "Init" \in Traits(run.i).mayFail /\ Abort /\ UNCHANGED <<module, server, values>>
    /\ UNCHANGED <<files, modules, otelOn, graceful, registered, handlers, report, lost>>

\* mod.Start of a module other than the server.
StartModule ==
    /\ run.pc = "start" /\ run.i # Server
    /\ \/ module' = [module EXCEPT ![run.i] = "started"] /\ NextModule("wait") /\ UNCHANGED outcome
       \/ "Start" \in Traits(run.i).mayFail /\ Abort /\ UNCHANGED module
    /\ UNCHANGED <<server, graceful, bystanders>>

\* A signal arrives or Run's context is cancelled.
Shutdown ==
    /\ run.pc = "wait"
    /\ run' = [pc |-> "stop", i |-> 1]
    /\ UNCHANGED <<outcome, module, server, graceful, bystanders>>

\* Fault: modules stop in list order.
moduleToStopForward(k) == k

\* Stop walks the list backwards: the module it stops as its k-th.
moduleToStop(k) == N + 1 - k

\* Fault: an error ends the loop.
AfterStopFirstError(failed) ==
    IF run.i < N /\ ~ failed
    THEN run' = [run EXCEPT !.i = @ + 1] /\ UNCHANGED outcome
    ELSE run' = [run EXCEPT !.pc = "returned"] /\ outcome' = "nil"

\* The loop of Stop goes on whether mod.Stop failed or not: the error is logged.
AfterStop(failed) ==
    IF run.i < N
    THEN run' = [run EXCEPT !.i = @ + 1] /\ UNCHANGED outcome
    ELSE run' = [run EXCEPT !.pc = "returned"] /\ outcome' = "nil"

Stopping(m) == run.pc = "stop" /\ moduleToStop(run.i) = m

\* mod.Stop of a module other than the server.
StopModule ==
    \E m \in 1 .. N, failed \in BOOLEAN :
        /\ Stopping(m) /\ m # Server
        /\ failed => "Stop" \in Traits(m).mayFail
        /\ module' = [module EXCEPT ![m] = "stopped"]
        /\ AfterStop(failed)
        /\ UNCHANGED <<server, graceful, bystanders>>

-----------------------------------------------------------------------------
(* grpcserver.Module. *)

\* The end of Start: the Serve goroutine is created.
Started == [server EXCEPT !.pc = "idle", !.listener = "open", !.health = TRUE,
                          !.serve = "pending"]

\* net.Listen, and Start up to the call of Register if there is a registrar.
StartListen ==
    /\ run.pc = "start" /\ run.i = Server /\ server.pc = "idle"
    /\ \/ /\ server.registrar # 0
          /\ server' = [server EXCEPT !.pc = "register", !.listener = "open", !.health = TRUE,
                                      !.serviceID = TRUE]
          /\ UNCHANGED <<run, outcome, module>>
       \/ /\ server.registrar = 0
          /\ server' = Started
          /\ module' = [module EXCEPT ![Server] = "started"]
          /\ NextModule("wait") /\ UNCHANGED outcome
       \/ Abort /\ UNCHANGED <<server, module>>
    /\ UNCHANGED <<graceful, bystanders>>

\* registrar.Register answers; only an agent outside the process can fail.  An error leaves the listener open, and the agent
\* may have registered the instance all the same.
StartRegister ==
    /\ run.pc = "start" /\ server.pc = "register"
    /\ \/ /\ registered' = TRUE
          /\ server' = Started
          /\ module' = [module EXCEPT ![Server] = "started"]
          /\ NextModule("wait") /\ UNCHANGED outcome
       \/ /\ Traits(server.registrar).pings /\ registered' \in BOOLEAN
          /\ server' = [server EXCEPT !.pc = "idle"]
          /\ Abort /\ UNCHANGED module
    /\ UNCHANGED <<application, graceful, handlers, report, lost>>

\* Fault: Deregister is left for the end of Stop.
StopDeregisterLate ==
    /\ Stopping(Server) /\ server.pc = "idle"
    /\ server' = [server EXCEPT !.pc = "select", !.health = FALSE]
    /\ graceful' = "pending"
    /\ UNCHANGED <<run, outcome, module, bystanders>>

\* Stop reports NOT_SERVING and deregisters, ignoring an error.
StopDeregister ==
    /\ Stopping(Server) /\ server.pc = "idle"
    /\ server' = [server EXCEPT !.pc = "select", !.health = FALSE]
    /\ graceful' = "pending"
    /\ IF server.registrar # 0 /\ server.serviceID
       THEN \/ registered' = FALSE /\ UNCHANGED lost
            \/ Traits(server.registrar).pings /\ lost' = TRUE /\ UNCHANGED registered
       ELSE UNCHANGED <<registered, lost>>
    /\ UNCHANGED <<application, run, outcome, module, handlers, report>>

\* Fault: the select has no timeout.
SelectStoppedOnly ==
    /\ Stopping(Server) /\ server.pc = "select" /\ graceful = "done"
    /\ module' = [module EXCEPT ![Server] = "stopped"]
    /\ server' = [server EXCEPT !.pc = "idle"]
    /\ AfterStop(FALSE)
    /\ UNCHANGED <<graceful, bystanders>>

\* A stopped grpc.Server (external) closes the listeners that Serve has taken over, and no
\* other: a Serve call still to come finds the server stopped and closes its own.
closeListeners(s) ==
    IF s.serve = "pending" THEN s ELSE [s EXCEPT !.listener = "closed", !.serve = "returned"]

\* The select in Stop: GracefulStop is done, or the 15 s shutdown context or the
\* 10 s timer, either of which may fire whatever else is ready, ends the wait and
\* server.Stop closes listeners and connections at once.
Select ==
    /\ Stopping(Server) /\ server.pc = "select"
    /\ \/ graceful = "done" /\ server' = [server EXCEPT !.pc = "idle"]
       \/ server' = [closeListeners(server) EXCEPT !.pc = "idle", !.forced = TRUE]
    /\ module' = [module EXCEPT ![Server] = "stopped"]
    /\ AfterStop(FALSE)
    /\ UNCHANGED <<graceful, bystanders>>

-----------------------------------------------------------------------------
(* grpc.Server (external) and its clients. *)

\* The goroutine calls Serve, which closes the listener and returns on a stopped server.
Serve ==
    /\ server.serve = "pending"
    /\ server' = IF graceful \in {"draining", "done"} \/ server.forced
                 THEN [server EXCEPT !.serve = "returned", !.listener = "closed"]
                 ELSE [server EXCEPT !.serve = "running"]
    /\ UNCHANGED <<run, outcome, module, graceful, bystanders>>

\* GracefulStop closes the listeners, then waits for the handlers.
GracefulStop ==
    /\ \/ /\ graceful = "pending"
          /\ graceful' = "draining"
          /\ server' = closeListeners(server)
       \/ graceful = "draining" /\ handlers = 0 /\ graceful' = "done" /\ UNCHANGED server
    /\ UNCHANGED <<run, outcome, module, bystanders>>

\* A client that resolved the instance, now or earlier, calls it.
HandlerStarts ==
    /\ server.serve = "running" /\ server.listener = "open" /\ handlers < MaxHandlers
    /\ handlers' = handlers + 1
    /\ UNCHANGED <<application, run, outcome, module, server, graceful, registered, report, lost>>

HandlerEnds ==
    /\ handlers > 0
    /\ handlers' = handlers - 1
    /\ UNCHANGED <<application, run, outcome, module, server, graceful, registered, report, lost>>

-----------------------------------------------------------------------------
(* health.Registry: the report of Application.Health. *)

\* WithModules adds a checker per module; one of the same name replaces the earlier.
Checkers == {i \in 1 .. N : \A j \in i + 1 .. N : modules[j] # modules[i]}

\* Whether Health of the i-th module may return an error, and nil: a module that
\* asks a server outside does so from its Init on, the gRPC server looks whether it
\* has ever listened, the others always answer nil.
Unhealthy(i) ==
    CASE modules[i] = grpcserver -> {server.listener = "nil"}
      [] Traits(i).pings /\ module[i] # "new" -> BOOLEAN
      [] OTHER -> {FALSE}

\* Check takes a snapshot of the checkers.
CheckBegins ==
    /\ run.pc \notin {"main", "returned"}
    /\ report.pending = {} /\ report.count < MaxReports
    /\ report' = [count |-> report.count + 1, pending |-> Checkers, status |-> "ok"]
    /\ UNCHANGED <<application, run, outcome, module, server, graceful, registered,
                   handlers, lost>>

\* Fault: the last answer decides the status.
statusAfterLast(failed) == IF failed THEN "degraded" ELSE "ok"

statusAfter(failed) == IF failed THEN "degraded" ELSE report.status

\* One turn of the loop of Check, over a map and so in any order.
CheckOne ==
    /\ run.pc \notin {"main", "returned"}
    /\ \E i \in report.pending : \E failed \in Unhealthy(i) :
           report' = [report EXCEPT !.pending = @ \ {i}, !.status = statusAfter(failed)]
    /\ UNCHANGED <<application, run, outcome, module, server, graceful, registered,
                   handlers, lost>>

\* Stop waits for something that is not the framework's: Deregister asks the agent of a
\* registry outside without a deadline (adapters/consul/consul.go), and the Stop of a
\* module that may fail closes connections or runs the author's code.
CallsOutside ==
    \/ /\ Stopping(Server) /\ server.pc = "idle"
       /\ server.registrar # 0 /\ Traits(server.registrar).pings
    \/ \E m \in 1 .. N : Stopping(m) /\ "Stop" \in Traits(m).mayFail

StopSteps == StopModule \/ StopDeregister \/ Select

Next == Main \/ InitModule \/ StartModule \/ StartListen \/ StartRegister
            \/ Shutdown \/ StopSteps \/ Serve \/ GracefulStop
            \/ HandlerStarts \/ HandlerEnds \/ CheckBegins \/ CheckOne

Spec == Init /\ [][Next]_vars

\* Run and the goroutines are scheduled and the timers run; no handler has to end, and no
\* call to the outside has to return.
FairSpec ==
    Spec /\ WF_vars(StopSteps /\ ~ CallsOutside) /\ WF_vars(Serve) /\ WF_vars(GracefulStop)

-----------------------------------------------------------------------------
(* Properties. *)

RunTypeOK ==
    /\ run \in [pc : {"main", "init", "start", "wait", "stop", "returned"}, i : Nat]
    /\ run.pc \in {"init", "start", "stop"} => run.i \in 1 .. N
    /\ outcome \in {"", "nil", "error"}
    /\ module \in [1 .. N -> {"new", "inited", "started", "stopped"}]

ServerTypeOK ==
    /\ server \in ServerModule
    /\ graceful \in {"none", "pending", "draining", "done"}
    /\ handlers \in 0 .. MaxHandlers
    /\ registered \in BOOLEAN /\ lost \in BOOLEAN

ReportTypeOK ==
    report \in [count : 0 .. MaxReports, pending : SUBSET (1 .. N), status : {"ok", "degraded"}]

TypeOK ==
    /\ files \in [Files -> Contents] \cup {<< >>}
    /\ values \in [RuntimeKeys -> 0 .. N] /\ otelOn \in BOOLEAN
    /\ RunTypeOK /\ ServerTypeOK /\ ReportTypeOK

\* What the most specific file that says anything about a setting makes of it: a
\* file that empties a section around it takes it away.
setting(path) ==
    LET says == {i \in Files : /\ files[i].state = "ok"
                               /\ \E p \in DOMAIN files[i].doc : Overlap(p, path)}
    IN  IF says = {} \/ path \notin DOMAIN files[Max(says)].doc THEN "null"
        ELSE files[Max(says)].doc[path]

\* The modules that run are the enabled components of the most specific file that
\* decides on them, in its order and whatever else the files of the other layers say
\* about neighbouring settings, then the service and the server.
LastFileDecides ==
    [][run.pc = "main" /\ run'.pc = "init" =>
           LET list == setting(Components)
               mods == enabledOf(IF list = "null" THEN << >> ELSE Lists[list])
           IN  /\ Len(modules') = Len(mods) + 2
               /\ \A i \in DOMAIN mods : modules'[i] = <<mods[i].name, mods[i].provider>>
               /\ otelOn' = (setting(OtelEnabled) = "true")]_vars

\* A service that is up serves its own RPCs and is announced if any configured
\* module can announce it: the server's Init needs values and handlers that other
\* modules' Inits leave behind.
UpIsAnnounced ==
    run.pc = "wait" =>
        /\ server.serves
        /\ (\E m \in 1 .. N : "registrar" \in Traits(m).sets) => registered

\* A health report is not "ok" before the service has come up: although the modules are
\* asked one after the other, in any order and while they start, and most answer nil before
\* their Init, "ok" means that the server has listened and that every other module has been
\* started.  (Of a service that stops it says nothing: server and modules go on answering
\* nil after their Stop.)
OkMeansStarted ==
    report.count > 0 /\ report.pending = {} /\ report.status = "ok" =>
        /\ server.listener # "nil"
        /\ \A m \in 1 .. N \ {Server} : module[m] \in {"started", "stopped"}

\* An instance that the registry lists or the health service reports as serving
\* accepts connections: Start listens before
\* it registers, Stop deregisters before it closes, and only a failed Deregister
\* leaves a stale entry.
DiscoverableIsListening ==
    /\ registered => server.listener = "open" \/ lost
    /\ server.health => server.listener = "open"

\* The modules that come before the server in the list (stores, caches, the
\* registry, the service) outlive the RPC handlers and the server's own Deregister,
\* unless the shutdown had to be forced.
DependenciesOutliveServer ==
    (\E m \in 1 .. N : module[m] = "stopped" /\ m < Server) =>
        /\ module[Server] = "stopped"
        /\ handlers = 0 \/ server.forced

\* A Run that returns nil has stopped every module, although any of the Stop calls may
\* have failed, has taken the instance off the registry unless Deregister failed, and has
\* closed the listener, unless Stop outran the goroutine of Start, whose Serve call is still
\* to come and will close it.
CleanShutdownStopsAll ==
    outcome = "nil" => /\ \A m \in 1 .. N : module[m] = "stopped"
                       /\ registered => lost
                       /\ server.listener = "closed" \/ server.serve = "pending"

\* Shutdown completes even if handlers never return: only a call to the outside that never
\* returns (Deregister, a module's own Stop) holds it.
ShutdownCompletes == <>[]CallsOutside \/ (run.pc = "stop" ~> run.pc = "returned")
=============================================================================
