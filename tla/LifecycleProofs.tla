--------------------------- MODULE LifecycleProofs ---------------------------
(***************************************************************************)
(* TLAPS proofs about Lifecycle, for any lists of components in any files  *)
(* and any number of RPC handlers.                                         *)
(***************************************************************************)
EXTENDS Lifecycle, SequenceTheorems, TLAPS

-----------------------------------------------------------------------------
(* The inductive invariant. *)

\* What main makes of the configuration: the server is last, the service before it, and
\* neither is anywhere else.
Built(mods) ==
    /\ Len(mods) \in Nat /\ Len(mods) >= 2
    /\ mods[Len(mods)] = grpcserver /\ mods[Len(mods) - 1] = service
    /\ \A i \in 1 .. Len(mods) - 1 : mods[i] # grpcserver
    /\ \A i \in 1 .. Len(mods) - 2 : mods[i] # service

NoModules == modules = << >>

\* There are modules once main is through, unless it failed.
Shape ==
    \/ NoModules /\ run.pc = "main" /\ run.i = 1 /\ outcome = ""
    \/ NoModules /\ run.pc = "returned" /\ outcome = "error"
    \/ Built(modules) /\ run.pc # "main"

\* Nothing has happened to the server, as before main is through.
Untouched ==
    /\ server.pc = "idle" /\ server.registrar = 0 /\ server.listener = "nil"
    /\ ~ server.health /\ ~ server.forced
    /\ graceful = "none" /\ ~ registered /\ report.count = 0

\* The modules before the one that the loop of this phase is at are one state ahead; Stop
\* goes backwards.
Phases ==
    /\ run.pc = "init" => \A m \in 1 .. N : module[m] = IF m < run.i THEN "inited" ELSE "new"
    /\ run.pc = "start" => \A m \in 1 .. N : module[m] = IF m < run.i THEN "started" ELSE "inited"
    /\ run.pc = "wait" => \A m \in 1 .. N : module[m] = "started"
    /\ run.pc = "stop" => \A m \in 1 .. N : module[m] = IF m > moduleToStop(run.i) THEN "stopped" ELSE "started"
    /\ run.pc # "returned" => outcome = ""
    /\ run.pc = "returned" /\ outcome = "nil" => \A m \in 1 .. N : module[m] = "stopped"
    /\ run.pc = "returned" /\ outcome # "nil" => \A m \in 1 .. N : module[m] # "stopped"

Announces(m) == "registrar" \in Traits(m).sets

\* The registrar is known as soon as a module that sets it has been initialised.
RegistrarKnown ==
    /\ values \in [RuntimeKeys -> 0 .. N]
    /\ run.pc = "init" => (values["registrar"] # 0 <=> \E m \in 1 .. run.i - 1 : Announces(m))
    /\ run.pc \in {"start", "wait"} =>
           server.serves /\ (server.registrar # 0 <=> \E m \in 1 .. N : Announces(m))

\* Where the server is when Run is there.
ServerFollowsRun ==
    /\ run.pc \in {"main", "init", "start", "wait"} => graceful = "none" /\ ~ server.forced
    /\ run.pc = "wait" => server.listener = "open"
    /\ server.pc = "register" =>
           /\ run.pc = "start" /\ run.i = N
           /\ server.listener = "open" /\ server.registrar # 0 /\ server.serviceID
    /\ server.pc = "select" => graceful # "none" /\ run.pc = "stop" /\ run.i = 1
    /\ server.listener # "nil" => \A m \in 1 .. N - 1 : module[m] \in {"started", "stopped"}
    /\ server.listener = "nil" => run.pc \in {"main", "init", "start", "returned"} /\ outcome # "nil"
    /\ run.pc = "wait" /\ (\E m \in 1 .. N : Announces(m)) => registered

\* Stop and GracefulStop take the server off the network in this order.
ServerStops ==
    /\ graceful = "none" => ~ server.forced /\ (registered \/ server.health => server.listener = "open")
    /\ graceful # "none" => ~ server.health /\ (registered => lost) /\ server.listener # "nil"
    /\ registered => server.registrar # 0 /\ server.serviceID
    /\ graceful \in {"draining", "done"} \/ server.forced =>
           server.listener = "closed" \/ server.serve = "pending"
    /\ graceful = "done" => handlers = 0
    /\ \A m \in 1 .. N : m = N /\ module[m] = "stopped" => graceful = "done" \/ server.forced

\* Once the server's checker has answered, "ok" means that it has listened.
ReportKnows ==
    /\ report.count > 0 => Built(modules)
    /\ report.count > 0 /\ N \notin report.pending /\ report.status = "ok" => server.listener # "nil"

LifeInv ==
    /\ RunTypeOK /\ ServerTypeOK /\ ReportTypeOK
    /\ Shape /\ (NoModules => Untouched)
    /\ Phases /\ RegistrarKnown /\ ServerFollowsRun /\ ServerStops /\ ReportKnows

-----------------------------------------------------------------------------
(* What the four files come to. *)

\* What a file that is read says about a setting.
Says(i, path) == files[i].state = "ok" /\ \E p \in DOMAIN files[i].doc : Overlap(p, path)

\* Both settings are paths, and a path overlaps itself.
LEMMA PathsOverlap ==
  ASSUME NEW path \in {Components, OtelEnabled}
  PROVE  Overlap(path, path)
<1>1. Len(path) <= Len(path)
  BY DEF Components, OtelEnabled
<1> QED
  BY <1>1 DEF Overlap, IsPrefix

\* Merging a file over what was read before: the file decides if it says anything.
LEMMA MergeDecides ==
  ASSUME NEW path \in {Components, OtelEnabled}, NEW raw, NEW i
  PROVE  decode(mergeFile(raw, files[i]), path)
             = IF Says(i, path) THEN decode(files[i].doc, path) ELSE decode(raw, path)
<1> DEFINE src  == files[i].doc
           kept == {q \in DOMAIN raw : \A p \in DOMAIN src : ~ Overlap(p, q)}
           m    == mergeMap(raw, src)
<1>1. CASE files[i].state # "ok"
  BY <1>1 DEF mergeFile, Says
<1>2. CASE files[i].state = "ok"
  <2>1. mergeFile(raw, files[i]) = m
    BY <1>2 DEF mergeFile
  <2>2. /\ DOMAIN m = kept \cup DOMAIN src
        /\ \A q \in kept \cup DOMAIN src : m[q] = IF q \in DOMAIN src THEN src[q] ELSE raw[q]
    BY DEF mergeMap
  <2>3. path \in DOMAIN src => Says(i, path)
    BY <1>2, PathsOverlap DEF Says
  <2>4. Says(i, path) => path \notin kept
    BY DEF Says
  <2>5. ~ Says(i, path) => (path \in kept <=> path \in DOMAIN raw)
    BY <1>2 DEF Says
  <2> HIDE DEF m, kept, src
  <2>6. decode(m, path) = IF Says(i, path) THEN decode(src, path) ELSE decode(raw, path)
    BY <2>2, <2>3, <2>4, <2>5 DEF decode
  <2> QED
    BY <2>1, <2>6 DEF src
<1> QED
  BY <1>1, <1>2

\* What the four files come to is what the last of them that says anything says.
LEMMA MergedIsSetting ==
  ASSUME NEW path \in {Components, OtelEnabled}
  PROVE  decode(merged(files), path) = setting(path)
<1> DEFINE says == {i \in Files : files[i].state = "ok" /\ \E p \in DOMAIN files[i].doc : Overlap(p, path)}
           doc(i) == decode(files[i].doc, path)
<1>1. setting(path) = IF says = {} THEN "null" ELSE doc(Max(says))
  BY DEF setting, decode
<1>2. \A i \in Files : i \in says <=> Says(i, path)
  BY DEF Says
<1>3. decode(<< >>, path) = "null"
  BY DEF decode
<1>4. decode(merged(files), path) =
        IF Says(4, path) THEN doc(4)
        ELSE IF Says(3, path) THEN doc(3)
        ELSE IF Says(2, path) THEN doc(2)
        ELSE IF Says(1, path) THEN doc(1) ELSE "null"
  <2> DEFINE r1 == mergeFile(<< >>, files[1])
             r2 == mergeFile(r1, files[2])
             r3 == mergeFile(r2, files[3])
             r4 == mergeFile(r3, files[4])
  <2>0. merged(files) = r4
    BY DEF merged
  <2>1. decode(r1, path) = IF Says(1, path) THEN doc(1) ELSE "null"
    BY <1>3, MergeDecides
  <2> HIDE DEF r1
  <2>2. decode(r2, path) = IF Says(2, path) THEN doc(2) ELSE decode(r1, path)
    BY MergeDecides
  <2> HIDE DEF r2
  <2>3. decode(r3, path) = IF Says(3, path) THEN doc(3) ELSE decode(r2, path)
    BY MergeDecides
  <2> HIDE DEF r3
  <2>4. decode(r4, path) = IF Says(4, path) THEN doc(4) ELSE decode(r3, path)
    BY MergeDecides
  <2> HIDE DEF r4, doc
  <2> QED
    BY <2>0, <2>1, <2>2, <2>3, <2>4
<1>5. says \subseteq 1 .. 4 /\ Files = 1 .. 4
  BY DEF Files
<1> HIDE DEF says, doc
<1>6. ASSUME NEW k \in says, \A j \in says : k >= j
      PROVE  Max(says) = k
  <2>1. Max(says) \in says /\ \A j \in says : Max(says) >= j
    BY <1>6 DEF Max
  <2>2. PICK m : m = Max(says)
    OBVIOUS
  <2>3. m \in 1 .. 4 /\ k \in 1 .. 4 /\ m >= k /\ k >= m
    BY <1>5, <1>6, <2>1, <2>2
  <2>4. m = k
    BY <2>3
  <2> QED
    BY <2>2, <2>4
<1>7. CASE 4 \in says
  BY <1>1, <1>2, <1>4, <1>5, <1>6, <1>7
<1>8. CASE 4 \notin says /\ 3 \in says
  BY <1>1, <1>2, <1>4, <1>5, <1>6, <1>8
<1>9. CASE 4 \notin says /\ 3 \notin says /\ 2 \in says
  BY <1>1, <1>2, <1>4, <1>5, <1>6, <1>9
<1>10. CASE 4 \notin says /\ 3 \notin says /\ 2 \notin says /\ 1 \in says
  BY <1>1, <1>2, <1>4, <1>5, <1>6, <1>10
<1>11. CASE 4 \notin says /\ 3 \notin says /\ 2 \notin says /\ 1 \notin says
  BY <1>1, <1>2, <1>4, <1>5, <1>11
<1> QED
  BY <1>7, <1>8, <1>9, <1>10, <1>11

-----------------------------------------------------------------------------
(* The list of modules. *)

\* The catalog holds neither the server nor the service: main adds them.
LEMMA CatalogNames ==
    /\ grpcserver \notin DOMAIN DefaultCatalog
    /\ service \notin DOMAIN DefaultCatalog
    /\ <<"registry", "memory">> \in DOMAIN DefaultCatalog
  BY DEF DefaultCatalog, Registered, grpcserver, service

\* Some module of the catalog sets the registrar.
LEMMA RegistrarIsKey == "registrar" \in RuntimeKeys
<1>1. DefaultCatalog[<<"registry", "memory">>] = RegistryModule
  BY DEF DefaultCatalog, Registered
<1>2. "registrar" \in RegistryModule.sets
  BY DEF RegistryModule, BaseModule
<1> QED
  BY <1>1, <1>2, CatalogNames DEF RuntimeKeys

\* main's list.
LEMMA MainBuilds ==
  ASSUME NEW mods \in Seq(STRING \X STRING), \A i \in 1 .. Len(mods) : mods[i] \in DOMAIN DefaultCatalog
  PROVE  Built(mainModules(mods))
<1> DEFINE Names == (STRING \X STRING) \cup {service, grpcserver}
           tail  == <<service, grpcserver>>
           all   == mods \o tail
<1>0. mods \in Seq(Names) /\ service \in Names /\ grpcserver \in Names /\ service # grpcserver
  <2>1. service # grpcserver
    BY DEF service, grpcserver
  <2>2. (STRING \X STRING) \subseteq Names
    OBVIOUS
  <2>3. mods \in Seq(Names)
    BY <2>2, SeqMonotonic
  <2> QED
    BY <2>1, <2>3
<1> HIDE DEF Names
<1>1. /\ tail \in Seq(Names) /\ Len(tail) = 2
      /\ tail[1] = service /\ tail[2] = grpcserver
  BY <1>0
<1> HIDE DEF tail
<1>2. /\ all \in Seq(Names) /\ Len(all) = Len(mods) + 2
      /\ Len(mods) \in Nat
      /\ \A i \in 1 .. Len(mods) + 2 :
             all[i] = IF i <= Len(mods) THEN mods[i] ELSE tail[i - Len(mods)]
  <2>1. Len(mods) \in Nat
    BY <1>0, LenProperties
  <2>2. /\ mods \o tail \in Seq(Names) /\ Len(mods \o tail) = Len(mods) + Len(tail)
        /\ \A i \in 1 .. Len(mods) + Len(tail) :
               (mods \o tail)[i] = IF i <= Len(mods) THEN mods[i] ELSE tail[i - Len(mods)]
    BY <1>0, <1>1, ConcatProperties
  <2> QED
    BY <1>1, <2>1, <2>2
<1> HIDE DEF all
<1>3. /\ all[Len(all)] = grpcserver /\ all[Len(all) - 1] = service /\ Len(all) >= 2
  BY <1>1, <1>2
<1>4. \A i \in 1 .. Len(all) - 2 : all[i] # service /\ all[i] # grpcserver
  BY <1>2, CatalogNames
<1>5. \A i \in 1 .. Len(all) - 1 : all[i] # grpcserver
  BY <1>0, <1>2, <1>3, <1>4
<1>6. all = mainModules(mods)
  BY DEF all, tail, mainModules
<1> QED
  BY <1>2, <1>3, <1>4, <1>5, <1>6 DEF Built

\* Where the server and the service are in main's list.
LEMMA Places ==
  ASSUME Built(modules)
  PROVE  /\ N \in Nat /\ N >= 2 /\ Server = N /\ Position(service) = N - 1
         /\ N \in Checkers /\ ~ NoModules /\ modules[N] = grpcserver
<1>1. N \in Nat /\ N >= 2 /\ modules[N] = grpcserver /\ modules[N - 1] = service
  BY LenProperties DEF Built, N
<1>2. \A i \in 1 .. N : (modules[i] = grpcserver <=> i = N) /\ (modules[i] = service <=> i = N - 1)
  <2>1. service # grpcserver
    BY DEF service, grpcserver
  <2> QED
    BY <1>1, <2>1 DEF Built, N
<1>3. Server = N /\ Position(service) = N - 1
  BY <1>1, <1>2 DEF Server, Position
<1>4. N \in Checkers
  BY <1>1 DEF Checkers
<1>5. ~ NoModules
  BY <1>1 DEF N, NoModules
<1> QED
  BY <1>1, <1>3, <1>4, <1>5

\* Build's modules, one for each enabled component.
LEMMA BuiltList ==
  ASSUME NEW specs \in {Lists[l] : l \in DOMAIN Lists} \cup {<< >>}
  PROVE  LET mods  == enabledOf(specs)
             built == Build(specs).modules
         IN  /\ built \in Seq(STRING \X STRING) /\ Len(built) = Len(mods)
             /\ DOMAIN built = DOMAIN mods
             /\ \A i \in DOMAIN mods : built[i] = <<mods[i].name, mods[i].provider>>
<1> DEFINE mods  == enabledOf(specs)
           built == Build(specs).modules
<1>1. mods \in Seq(ComponentConfig)
  BY LifecycleAssumption
<1>2. Len(mods) \in Nat /\ DOMAIN mods = 1 .. Len(mods)
      /\ \A i \in 1 .. Len(mods) : mods[i] \in ComponentConfig
  BY <1>1, LenProperties, ElementOfSeq
<1>3. built = [i \in DOMAIN mods |-> <<mods[i].name, mods[i].provider>>]
  BY DEF Build
<1> HIDE DEF mods, built
<1>4. built \in [1 .. Len(mods) -> STRING \X STRING]
  BY <1>2, <1>3 DEF ComponentConfig
<1>5. built \in Seq(STRING \X STRING) /\ Len(built) = Len(mods)
  BY <1>2, <1>4
<1> QED
  BY <1>2, <1>3, <1>5 DEF mods, built

\* main's list: the modules of the enabled components, then the service and the server.
LEMMA MainLists ==
  ASSUME NEW specs \in {Lists[l] : l \in DOMAIN Lists} \cup {<< >>}
  PROVE  LET mods == enabledOf(specs)
             all  == mainModules(Build(specs).modules)
         IN  /\ Len(all) = Len(mods) + 2
             /\ \A i \in DOMAIN mods : all[i] = <<mods[i].name, mods[i].provider>>
<1> DEFINE mods  == enabledOf(specs)
           built == Build(specs).modules
           tail  == <<service, grpcserver>>
           Names == (STRING \X STRING) \cup {service, grpcserver}
<1>1. /\ built \in Seq(STRING \X STRING) /\ Len(built) = Len(mods) /\ DOMAIN built = DOMAIN mods
      /\ \A i \in DOMAIN mods : built[i] = <<mods[i].name, mods[i].provider>>
  BY BuiltList
<1> HIDE DEF mods, built
<1>2. built \in Seq(Names)
  BY <1>1, SeqMonotonic
<1>3. service \in Names /\ grpcserver \in Names
  OBVIOUS
<1> HIDE DEF Names
<1>4. tail \in Seq(Names) /\ Len(tail) = 2
  BY <1>3
<1> HIDE DEF tail
<1>5. /\ Len(built \o tail) = Len(built) + Len(tail)
      /\ \A i \in 1 .. Len(built) + Len(tail) :
             (built \o tail)[i] = IF i <= Len(built) THEN built[i] ELSE tail[i - Len(built)]
  BY <1>2, <1>4, ConcatProperties
<1>6. DOMAIN built = 1 .. Len(built) /\ Len(built) \in Nat
  BY <1>1, LenProperties
<1>7. mainModules(built) = built \o tail
  BY DEF mainModules, tail
<1>8. PICK all : all = built \o tail
  OBVIOUS
<1>9. \A i \in DOMAIN mods : all[i] = built[i]
  BY <1>1, <1>4, <1>5, <1>6, <1>8
<1> QED
  BY <1>1, <1>4, <1>5, <1>7, <1>8, <1>9 DEF mods, built

\* What Build returns of a list without unknown components.
LEMMA BuildKnows ==
  ASSUME NEW specs \in {Lists[l] : l \in DOMAIN Lists} \cup {<< >>}, Build(specs).ok
  PROVE  Built(mainModules(Build(specs).modules))
<1> DEFINE mods == Build(specs).modules
<1>1. mods \in Seq(STRING \X STRING)
  BY BuiltList
<1>2. \A i \in DOMAIN mods : mods[i] \in DOMAIN DefaultCatalog
  BY DEF Build
<1>3. DOMAIN mods = 1 .. Len(mods)
  BY <1>1, LenProperties
<1> QED
  BY <1>1, <1>2, <1>3, MainBuilds

\* The server sets no runtime value and asks no other server.
LEMMA ServerTraits ==
  ASSUME NEW m, modules[m] = grpcserver
  PROVE  Traits(m).sets = {} /\ ~ Traits(m).pings
<1>1. grpcserver # service /\ grpcserver # <<"tracing", "otel">>
  BY DEF grpcserver, service
<1>2. Traits(m) = BaseModule
  BY <1>1 DEF Traits
<1> QED
  BY <1>2 DEF BaseModule

\* Which module announces the service does not change once main is through.
LEMMA SameTraits ==
  ASSUME modules' = modules, otelOn' = otelOn
  PROVE  \A m : Announces(m)' = Announces(m)
  BY DEF Announces, Traits

-----------------------------------------------------------------------------
(* The invariant holds initially. *)

LEMMA Bounds == MaxHandlers \in Nat /\ MaxReports \in Nat
  BY LifecycleAssumption

LEMMA InitLife == Init => LifeInv
<1> SUFFICES ASSUME Init PROVE LifeInv
  OBVIOUS
<1>1. NoModules /\ N = 0 /\ module = << >>
  BY EmptySeq DEF Init, NoModules, N
<1>2. Untouched /\ run = [pc |-> "main", i |-> 1] /\ outcome = ""
  BY DEF Init, Untouched
<1>3. RunTypeOK
  <2>1. 1 .. N = {}
    BY <1>1
  <2>2. module \in [1 .. N -> {"new", "inited", "started", "stopped"}]
    BY <1>1, <2>1
  <2> QED
    BY <1>2, <2>2 DEF RunTypeOK
<1>4. ServerTypeOK
  <2> DEFINE s == [pc |-> "idle", registrar |-> 0, serves |-> FALSE, serviceID |-> FALSE,
                   listener |-> "nil", serve |-> "none", health |-> FALSE, forced |-> FALSE]
  <2>1. server = s /\ handlers = 0 /\ registered \in BOOLEAN /\ lost \in BOOLEAN /\ graceful = "none"
    BY DEF Init
  <2>2. 0 \in 0 .. N /\ 0 \in 0 .. MaxHandlers
    BY <1>1, Bounds
  <2>3. s \in ServerModule
    BY <2>2 DEF ServerModule
  <2> QED
    BY <2>1, <2>2, <2>3 DEF ServerTypeOK
<1>5. ReportTypeOK
  <2>1. 0 \in 0 .. MaxReports
    BY Bounds
  <2>2. report = [count |-> 0, pending |-> {}, status |-> "ok"]
    BY DEF Init
  <2> QED
    BY <2>1, <2>2 DEF ReportTypeOK
<1>6. Phases
  BY <1>2 DEF Phases
<1>7. RegistrarKnown
  <2>1. values = [k \in RuntimeKeys |-> 0] /\ 0 \in 0 .. N
    <3>1. 0 \in 0 .. N
      BY <1>1
    <3> QED
      BY <3>1 DEF Init
  <2>2. values \in [RuntimeKeys -> 0 .. N]
    BY <2>1
  <2> QED
    BY <1>2, <2>2 DEF RegistrarKnown
<1>8. ServerFollowsRun
  BY <1>1, <1>2 DEF ServerFollowsRun, Untouched
<1>9. ServerStops
  <2>1. ~ registered /\ ~ server.health /\ ~ server.forced /\ graceful = "none"
    BY DEF Init
  <2>2. N = 0
    BY <1>1
  <2> QED
    BY <2>1, <2>2 DEF ServerStops
<1>10. ReportKnows
  <2>1. report.count = 0
    BY <1>2 DEF Untouched
  <2> QED
    BY <2>1 DEF ReportKnows
<1> QED
  BY <1>1, <1>2, <1>3, <1>4, <1>5, <1>6, <1>7, <1>8, <1>9, <1>10 DEF LifeInv, Shape

-----------------------------------------------------------------------------
(* What a step that leaves a part of the state alone keeps. *)

\* While Run is at work there are modules, with the server last.
LEMMA AtWork ==
  ASSUME LifeInv, run.pc \notin {"main", "returned"}
  PROVE  /\ Built(modules) /\ N \in Nat /\ N >= 2 /\ Server = N /\ Position(service) = N - 1
         /\ N \in Checkers /\ ~ NoModules /\ modules[N] = grpcserver
<1>1. Built(modules)
  BY DEF LifeInv, Shape
<1> QED
  BY <1>1, Places

\* A step that leaves main, Run and the modules alone.
LEMMA RunUntouched ==
  ASSUME LifeInv, UNCHANGED <<modules, run, outcome, module>>
  PROVE  RunTypeOK' /\ Shape' /\ Phases'
<1>1. RunTypeOK'
  BY DEF LifeInv, RunTypeOK, N
<1>2. Shape'
  BY DEF LifeInv, Shape, NoModules
<1>3. Phases'
  BY DEF LifeInv, Phases, N, moduleToStop
<1> QED
  BY <1>1, <1>2, <1>3

\* A step that leaves the server alone.
LEMMA ServerUntouched ==
  ASSUME LifeInv, UNCHANGED <<modules, server, graceful, handlers, registered, lost>>
  PROVE  ServerTypeOK'
  BY DEF LifeInv, ServerTypeOK, ServerModule, N

\* A step that makes no report; the server never forgets that it listened.
LEMMA ReportUntouched ==
  ASSUME LifeInv, UNCHANGED <<modules, report>>,
         server.listener # "nil" => server'.listener # "nil"
  PROVE  ReportTypeOK' /\ ReportKnows'
<1>1. ReportTypeOK'
  BY DEF LifeInv, ReportTypeOK, N
<1>2. ReportKnows'
  BY DEF LifeInv, ReportKnows, N
<1> QED
  BY <1>1, <1>2

\* A step of the server, of a handler or of a report, not of Run.
LEMMA RegistrarUntouched ==
  ASSUME LifeInv, UNCHANGED <<modules, otelOn, values, run>>,
         server'.serves = server.serves, server'.registrar = server.registrar
  PROVE  RegistrarKnown'
<1>1. \A m : Announces(m)' = Announces(m)
  BY SameTraits
<1>2. RegistrarKnown
  BY DEF LifeInv
<1> QED
  BY <1>1, <1>2 DEF RegistrarKnown, N

-----------------------------------------------------------------------------
(* The grpc.Server, its clients and the health reports. *)

LEMMA ServeKeepsLife == LifeInv /\ Serve => LifeInv'
<1> SUFFICES ASSUME LifeInv, Serve PROVE LifeInv'
  OBVIOUS
<1>1. /\ server \in ServerModule /\ server.serve = "pending"
      /\ server' = IF graceful \in {"draining", "done"} \/ server.forced
                   THEN [server EXCEPT !.serve = "returned", !.listener = "closed"]
                   ELSE [server EXCEPT !.serve = "running"]
      /\ UNCHANGED <<files, modules, otelOn, values, run, outcome, module, graceful, registered,
                     handlers, report, lost>>
  BY DEF Serve, bystanders, application, LifeInv, ServerTypeOK
<1>2. /\ server'.pc = server.pc /\ server'.registrar = server.registrar
      /\ server'.serves = server.serves /\ server'.serviceID = server.serviceID
      /\ server'.health = server.health /\ server'.forced = server.forced
      /\ server' \in ServerModule
      /\ server'.listener = IF graceful \in {"draining", "done"} \/ server.forced
                            THEN "closed" ELSE server.listener
  BY <1>1 DEF ServerModule
<1>3. graceful \in {"draining", "done"} \/ server.forced =>
           graceful # "none" /\ server.listener # "nil" /\ run.pc \notin {"main", "init", "start", "wait"}
  BY DEF LifeInv, ServerStops, ServerFollowsRun
<1>4. RunTypeOK' /\ Shape' /\ Phases'
  BY <1>1, RunUntouched
<1>5. ServerTypeOK'
  BY <1>1, <1>2 DEF LifeInv, ServerTypeOK, ServerModule, N
<1>6. ReportTypeOK' /\ ReportKnows'
  <2>1. server.listener # "nil" => server'.listener # "nil"
    BY <1>2
  <2> QED
    BY <1>1, <2>1, ReportUntouched
<1>7. RegistrarKnown'
  BY <1>1, <1>2, RegistrarUntouched
<1>8. (NoModules => Untouched)'
  BY <1>1, <1>2, <1>3 DEF LifeInv, NoModules, Untouched
<1>9. ServerFollowsRun'
  <2>1. \A m : Announces(m)' = Announces(m)
    BY <1>1, SameTraits
  <2> QED
    BY <1>1, <1>2, <1>3, <2>1 DEF LifeInv, ServerFollowsRun, N
<1>10. ServerStops'
  BY <1>1, <1>2, <1>3 DEF LifeInv, ServerStops, N
<1> QED
  BY <1>4, <1>5, <1>6, <1>7, <1>8, <1>9, <1>10 DEF LifeInv

LEMMA GracefulStopKeepsLife == LifeInv /\ GracefulStop => LifeInv'
<1> SUFFICES ASSUME LifeInv, GracefulStop PROVE LifeInv'
  OBVIOUS
<1>1. /\ server \in ServerModule
      /\ UNCHANGED <<files, modules, otelOn, values, run, outcome, module, registered,
                     handlers, report, lost>>
      /\ \/ /\ graceful = "pending" /\ graceful' = "draining"
            /\ server' = closeListeners(server)
         \/ graceful = "draining" /\ handlers = 0 /\ graceful' = "done" /\ server' = server
  BY DEF GracefulStop, bystanders, application, LifeInv, ServerTypeOK
<1>2. /\ server'.pc = server.pc /\ server'.registrar = server.registrar
      /\ server'.serves = server.serves /\ server'.serviceID = server.serviceID
      /\ server'.health = server.health /\ server'.forced = server.forced
      /\ server' \in ServerModule
  BY <1>1 DEF ServerModule, closeListeners
<1>3. /\ graceful # "none" /\ server.listener # "nil" /\ server'.listener # "nil"
      /\ server'.listener = "closed" \/ server'.serve = "pending"
      /\ ~ server.health /\ (registered => lost)
  <2>1. ServerStops
    BY DEF LifeInv
  <2>2. graceful # "none"
    BY <1>1
  <2>3. server'.listener # "nil" /\ (server'.listener = "closed" \/ server'.serve = "pending")
    BY <1>1, <2>1, <2>2 DEF ServerStops, ServerModule, closeListeners
  <2> QED
    BY <2>1, <2>2, <2>3 DEF ServerStops
<1>4. RunTypeOK' /\ Shape' /\ Phases'
  BY <1>1, RunUntouched
<1>5. ServerTypeOK'
  BY <1>1, <1>2 DEF LifeInv, ServerTypeOK, ServerModule, N
<1>6. ReportTypeOK' /\ ReportKnows'
  BY <1>1, <1>3, ReportUntouched
<1>7. RegistrarKnown'
  BY <1>1, <1>2, RegistrarUntouched
<1>8. (NoModules => Untouched)'
  BY <1>1, <1>3 DEF LifeInv, NoModules, Untouched
<1>9. ServerFollowsRun'
  <2>1. \A m : Announces(m)' = Announces(m)
    BY <1>1, SameTraits
  <2>2. run.pc \notin {"main", "init", "start", "wait"}
    BY <1>3 DEF LifeInv, ServerFollowsRun
  <2> QED
    BY <1>1, <1>2, <1>3, <2>1, <2>2 DEF LifeInv, ServerFollowsRun, N
<1>10. ServerStops'
  BY <1>1, <1>2, <1>3 DEF LifeInv, ServerStops, N
<1> QED
  BY <1>4, <1>5, <1>6, <1>7, <1>8, <1>9, <1>10 DEF LifeInv

\* A step of a handler or of a report.
LEMMA OutsideServer ==
  ASSUME LifeInv,
         UNCHANGED <<modules, otelOn, values, run, outcome, module, server, graceful, registered, lost>>
  PROVE  RunTypeOK' /\ Shape' /\ Phases' /\ RegistrarKnown' /\ ServerFollowsRun'
<1>1. RunTypeOK' /\ Shape' /\ Phases'
  BY RunUntouched
<1>2. RegistrarKnown'
  BY RegistrarUntouched
<1>3. ServerFollowsRun'
  <2>1. \A m : Announces(m)' = Announces(m)
    BY SameTraits
  <2> QED
    BY <2>1 DEF LifeInv, ServerFollowsRun, N
<1> QED
  BY <1>1, <1>2, <1>3

LEMMA HandlerKeepsLife == LifeInv /\ (HandlerStarts \/ HandlerEnds) => LifeInv'
<1> SUFFICES ASSUME LifeInv, HandlerStarts \/ HandlerEnds PROVE LifeInv'
  OBVIOUS
<1>1. UNCHANGED <<modules, otelOn, values, run, outcome, module, server, graceful, registered,
                  report, lost>>
  BY DEF HandlerStarts, HandlerEnds, application
<1>2. handlers \in 0 .. MaxHandlers /\ handlers' \in 0 .. MaxHandlers
  <2>1. handlers \in 0 .. MaxHandlers
    BY DEF LifeInv, ServerTypeOK
  <2>2. \/ handlers < MaxHandlers /\ handlers' = handlers + 1
        \/ handlers > 0 /\ handlers' = handlers - 1
    BY DEF HandlerStarts, HandlerEnds
  <2> QED
    BY <2>1, <2>2, Bounds
<1>3. graceful = "done" => FALSE
  <2>1. graceful = "done" => handlers = 0 /\ (server.listener = "closed" \/ server.serve = "pending")
    BY DEF LifeInv, ServerStops
  <2>2. (server.listener = "open" /\ server.serve = "running") \/ handlers > 0
    BY DEF HandlerStarts, HandlerEnds
  <2> QED
    BY <2>1, <2>2
<1>4. RunTypeOK' /\ Shape' /\ Phases' /\ RegistrarKnown' /\ ServerFollowsRun'
  BY <1>1, OutsideServer
<1>5. ServerTypeOK'
  BY <1>1, <1>2 DEF LifeInv, ServerTypeOK, ServerModule, N
<1>6. ReportTypeOK' /\ ReportKnows'
  BY <1>1, ReportUntouched
<1>7. (NoModules => Untouched)'
  BY <1>1 DEF LifeInv, NoModules, Untouched
<1>8. ServerStops'
  BY <1>1, <1>3 DEF LifeInv, ServerStops, N
<1> QED
  BY <1>4, <1>5, <1>6, <1>7, <1>8 DEF LifeInv

LEMMA CheckBeginsKeepsLife == LifeInv /\ CheckBegins => LifeInv'
<1> SUFFICES ASSUME LifeInv, CheckBegins PROVE LifeInv'
  OBVIOUS
<1>1. UNCHANGED <<modules, otelOn, values, run, outcome, module, server, graceful, registered,
                  handlers, lost>>
  BY DEF CheckBegins, application
<1>2. /\ Built(modules) /\ N \in Checkers /\ ~ NoModules
  BY AtWork DEF CheckBegins
<1>3. /\ report' = [count |-> report.count + 1, pending |-> Checkers, status |-> "ok"]
      /\ report.count + 1 \in 0 .. MaxReports
      /\ Checkers \subseteq 1 .. N
  <2>1. report.count \in 0 .. MaxReports /\ report.count < MaxReports
    BY DEF CheckBegins, LifeInv, ReportTypeOK
  <2>2. report.count + 1 \in 0 .. MaxReports
    BY <2>1, Bounds
  <2> QED
    BY <2>2 DEF CheckBegins, Checkers
<1>4. RunTypeOK' /\ Shape' /\ Phases' /\ RegistrarKnown' /\ ServerFollowsRun'
  BY <1>1, OutsideServer
<1>5. ServerTypeOK'
  BY <1>1, ServerUntouched
<1>6. ReportTypeOK'
  BY <1>1, <1>3 DEF ReportTypeOK, N
<1>7. ReportKnows'
  BY <1>1, <1>2, <1>3 DEF ReportKnows, N
<1>8. (NoModules => Untouched)'
  BY <1>1, <1>2 DEF NoModules
<1>9. ServerStops'
  BY <1>1 DEF LifeInv, ServerStops, N
<1> QED
  BY <1>4, <1>5, <1>6, <1>7, <1>8, <1>9 DEF LifeInv

LEMMA CheckOneKeepsLife == LifeInv /\ CheckOne => LifeInv'
<1> SUFFICES ASSUME LifeInv, CheckOne PROVE LifeInv'
  OBVIOUS
<1>1. UNCHANGED <<modules, otelOn, values, run, outcome, module, server, graceful, registered,
                  handlers, lost>>
  BY DEF CheckOne, application
<1>2. Built(modules) /\ ~ NoModules /\ modules[N] = grpcserver
  BY AtWork DEF CheckOne
<1>3. PICK i \in report.pending : \E failed \in Unhealthy(i) :
          report' = [report EXCEPT !.pending = @ \ {i}, !.status = statusAfter(failed)]
  BY DEF CheckOne
<1>4. PICK failed \in Unhealthy(i) :
          report' = [report EXCEPT !.pending = @ \ {i}, !.status = statusAfter(failed)]
  BY <1>3
<1>5. /\ report \in [count : 0 .. MaxReports, pending : SUBSET (1 .. N), status : {"ok", "degraded"}]
      /\ report'.count = report.count /\ report'.pending = report.pending \ {i}
      /\ report'.status = statusAfter(failed) /\ report' \in [count : 0 .. MaxReports, pending : SUBSET (1 .. N), status : {"ok", "degraded"}]
  BY <1>4 DEF LifeInv, ReportTypeOK, statusAfter
<1>6. i = N => failed = (server.listener = "nil")
  <2> SUFFICES ASSUME i = N PROVE failed = (server.listener = "nil")
    OBVIOUS
  <2> DEFINE deaf == {server.listener = "nil"}
             asks == Traits(i).pings /\ module[i] # "new"
  <2>1. Unhealthy(i) = CASE modules[i] = grpcserver -> deaf [] asks -> BOOLEAN [] OTHER -> {FALSE}
    BY Zenon DEF Unhealthy
  <2>2. modules[i] = grpcserver /\ ~ asks
    BY <1>2, ServerTraits
  <2> HIDE DEF deaf, asks
  <2>3. failed \in deaf
    BY <2>1, <2>2
  <2> QED
    BY <2>3, Zenon DEF deaf
<1>7. report'.status = "ok" => report.status = "ok" /\ ~ failed
  BY <1>5 DEF statusAfter
<1>8. RunTypeOK' /\ Shape' /\ Phases' /\ RegistrarKnown' /\ ServerFollowsRun'
  BY <1>1, OutsideServer
<1>9. ServerTypeOK'
  BY <1>1, ServerUntouched
<1>10. ReportTypeOK'
  BY <1>1, <1>5 DEF ReportTypeOK, N
<1>11. ReportKnows'
  <2>1. ReportKnows
    BY DEF LifeInv
  <2> QED
    BY <1>1, <1>2, <1>5, <1>6, <1>7, <2>1 DEF ReportKnows, N
<1>12. (NoModules => Untouched)'
  BY <1>1, <1>2 DEF NoModules
<1>13. ServerStops'
  BY <1>1 DEF LifeInv, ServerStops, N
<1> QED
  BY <1>8, <1>9, <1>10, <1>11, <1>12, <1>13 DEF LifeInv

-----------------------------------------------------------------------------
(* main and Application.Run. *)

LEMMA MainKeepsLife == LifeInv /\ Main => LifeInv'
<1> SUFFICES ASSUME LifeInv, Main PROVE LifeInv'
  OBVIOUS
<1>1. /\ UNCHANGED <<values, server, graceful, registered, handlers, report, lost>>
      /\ run.pc = "main"
  BY DEF Main
<1>2. /\ NoModules /\ run.i = 1 /\ outcome = "" /\ N = 0
  <2>1. NoModules /\ run.i = 1 /\ outcome = ""
    BY <1>1 DEF LifeInv, Shape
  <2> QED
    BY <2>1, EmptySeq DEF NoModules, N
<1>0. N = 0
  BY <1>2
<1>3. Untouched /\ Untouched'
  BY <1>1, <1>2 DEF LifeInv, Untouched
<1>4. /\ run \in [pc : {"main", "init", "start", "wait", "stop", "returned"}, i : Nat]
      /\ server \in ServerModule /\ values \in [RuntimeKeys -> 0 .. N]
  BY DEF LifeInv, RunTypeOK, ServerTypeOK, RegistrarKnown
<1>5. \/ /\ Built(modules') /\ module' = [m \in 1 .. Len(modules') |-> "new"]
         /\ run' = [run EXCEPT !.pc = "init"] /\ outcome' = outcome
      \/ /\ run' = [run EXCEPT !.pc = "returned"] /\ outcome' = "error"
         /\ UNCHANGED <<modules, module>>
  <2> DEFINE cfg   == Load(files)
             specs == IF cfg.components = "null" THEN << >> ELSE Lists[cfg.components]
  <2>1. \/ /\ cfg.components \in DOMAIN Lists \cup {"null"} /\ Build(specs).ok
           /\ modules' = mainModules(Build(specs).modules)
           /\ module' = [m \in 1 .. Len(modules') |-> "new"]
           /\ run' = [run EXCEPT !.pc = "init"] /\ outcome' = outcome
        \/ /\ run' = [run EXCEPT !.pc = "returned"] /\ outcome' = "error"
           /\ UNCHANGED <<modules, module>>
    BY DEF Main
  <2>2. cfg.components \in DOMAIN Lists \cup {"null"} =>
            specs \in {Lists[l] : l \in DOMAIN Lists} \cup {<< >>}
    OBVIOUS
  <2> HIDE DEF specs, cfg
  <2> QED
    BY <2>1, <2>2, BuildKnows
<1>6. CASE /\ Built(modules') /\ module' = [m \in 1 .. Len(modules') |-> "new"]
           /\ run' = [run EXCEPT !.pc = "init"] /\ outcome' = outcome
  <2>1. N' \in Nat /\ N' >= 2 /\ (~ NoModules)'
    <3>1. N' \in Nat /\ N' >= 2
      BY <1>6 DEF Built, N
    <3> QED
      BY <3>1, EmptySeq DEF N, NoModules
  <2>2. /\ run' = [pc |-> "init", i |-> 1] /\ outcome' = ""
        /\ module' = [m \in 1 .. N' |-> "new"]
    BY <1>2, <1>4, <1>6 DEF N
  <2>3. /\ 0 .. N = {0} /\ {0} \subseteq 0 .. N'
    <3>1. N' \in Nat
      BY <2>1
    <3> QED
      BY <1>0, <3>1
  <2>0. 1 \in Nat /\ 1 \in 1 .. N'
    BY <2>1
  <2>4. RunTypeOK'
    <3>1. run' \in [pc : {"main", "init", "start", "wait", "stop", "returned"}, i : Nat]
      BY <2>2, <2>0
    <3>2. run'.i \in 1 .. N' /\ outcome' \in {"", "nil", "error"}
      BY <2>2, <2>0
    <3>3. module' \in [1 .. N' -> {"new", "inited", "started", "stopped"}]
      BY <2>2
    <3> QED
      BY <3>1, <3>2, <3>3 DEF RunTypeOK
  <2>5. server' \in [pc : {"idle", "register", "select"},
                 registrar : 0 .. N', serves : BOOLEAN, serviceID : BOOLEAN,
                 listener : {"nil", "open", "closed"},
                 serve : {"none", "pending", "running", "returned"},
                 health : BOOLEAN, forced : BOOLEAN]
    BY <1>1, <1>4, <2>3 DEF ServerModule
  <2>6. ServerTypeOK'
    BY <1>1, <2>5 DEF LifeInv, ServerTypeOK, ServerModule
  <2>7. ReportTypeOK'
    <3>1. 1 .. N = {}
      BY <1>0
    <3> QED
      BY <1>1, <3>1 DEF LifeInv, ReportTypeOK
  <2>8. Shape'
    BY <1>6, <2>2 DEF Shape
  <2>9. Phases'
    <3>1. \A m \in 1 .. N' : ~ (m < 1)
      BY <2>1
    <3>2. /\ run'.pc = "init" /\ outcome' = ""
          /\ \A m \in 1 .. N' : module'[m] = IF m < run'.i THEN "inited" ELSE "new"
      BY <2>2, <3>1
    <3> QED
      BY <3>2 DEF Phases
  <2>10. RegistrarKnown'
    <3>1. values' \in [RuntimeKeys -> 0 .. N'] /\ values["registrar"] = 0
      BY <1>1, <1>4, <2>3, RegistrarIsKey
    <3>2. 1 .. run'.i - 1 = {}
      <4>1. run'.i = 1
        BY <2>2
      <4> QED
        BY <4>1
    <3> QED
      BY <1>1, <2>2, <3>1, <3>2 DEF RegistrarKnown
  <2>11. ServerFollowsRun'
    BY <1>3, <2>2 DEF ServerFollowsRun, Untouched
  <2>12. ServerStops'
    BY <1>3, <2>1, <2>2 DEF ServerStops, Untouched
  <2>13. ReportKnows'
    BY <1>3 DEF ReportKnows, Untouched
  <2> QED
    BY <1>3, <2>4, <2>6, <2>7, <2>8, <2>9, <2>10, <2>11, <2>12, <2>13 DEF LifeInv
<1>7. CASE /\ run' = [run EXCEPT !.pc = "returned"] /\ outcome' = "error"
           /\ UNCHANGED <<modules, module>>
  <2>1. N' = 0 /\ NoModules'
    BY <1>2, <1>7 DEF N, NoModules
  <2>2. run'.pc = "returned" /\ run'.i = 1
    BY <1>2, <1>4, <1>7
  <2>3. RunTypeOK'
    BY <1>4, <1>7, <2>2 DEF LifeInv, RunTypeOK, N
  <2>4. ServerTypeOK'
    BY <1>1, <1>7, ServerUntouched
  <2>5. ReportTypeOK' /\ ReportKnows'
    BY <1>1, <1>7, ReportUntouched
  <2>6. Shape'
    BY <1>7, <2>1, <2>2 DEF Shape
  <2>7. Phases'
    BY <1>7, <2>1, <2>2 DEF Phases
  <2>8. RegistrarKnown'
    BY <1>1, <1>4, <1>7, <2>2 DEF RegistrarKnown, N
  <2>9. ServerFollowsRun'
    BY <1>3, <1>7, <2>2 DEF ServerFollowsRun, Untouched
  <2>10. ServerStops'
    BY <1>3, <2>1 DEF ServerStops, Untouched
  <2> QED
    BY <1>3, <2>3, <2>4, <2>5, <2>6, <2>7, <2>8, <2>9, <2>10 DEF LifeInv
<1> QED
  BY <1>5, <1>6, <1>7

\* Run gives up before it has stopped anything.
LEMMA AbortKeeps ==
  ASSUME LifeInv, Abort, run.pc \in {"init", "start"}, UNCHANGED <<modules, otelOn, values, module>>
  PROVE  /\ RunTypeOK' /\ Shape' /\ Phases' /\ RegistrarKnown'
         /\ run'.pc = "returned" /\ outcome' = "error"
<1>1. /\ run \in [pc : {"main", "init", "start", "wait", "stop", "returned"}, i : Nat]
      /\ module \in [1 .. N -> {"new", "inited", "started", "stopped"}]
      /\ Built(modules) /\ values \in [RuntimeKeys -> 0 .. N]
  BY AtWork DEF LifeInv, RunTypeOK, RegistrarKnown
<1>2. run' = [run EXCEPT !.pc = "returned"] /\ outcome' = "error"
  BY DEF Abort
<1>3. /\ run' \in [pc : {"main", "init", "start", "wait", "stop", "returned"}, i : Nat]
      /\ run'.pc = "returned"
  BY <1>1, <1>2
<1>4. \A m \in 1 .. N : module[m] # "stopped"
  BY DEF LifeInv, Phases
<1>5. RunTypeOK'
  BY <1>1, <1>2, <1>3 DEF RunTypeOK, N
<1>6. Shape' /\ Phases'
  BY <1>1, <1>2, <1>3, <1>4 DEF Shape, Phases, N
<1>7. RegistrarKnown'
  BY <1>1, <1>3 DEF RegistrarKnown, N
<1> QED
  BY <1>2, <1>3, <1>5, <1>6, <1>7

\* Before the server's Start nothing is known of it.
LEMMA ServerQuiet ==
  ASSUME LifeInv, run.pc = "init" \/ (run.pc = "start" /\ run.i # N)
  PROVE  /\ server.listener = "nil" /\ server.pc = "idle" /\ graceful = "none"
         /\ ~ registered /\ ~ server.health /\ ~ server.forced
<1>1. N \in Nat /\ N >= 2
  BY AtWork
<1>2. run.i \in 1 .. N
  BY DEF LifeInv, RunTypeOK
<1>3. PICK m \in 1 .. N - 1 : module[m] \in {"new", "inited"}
  <2>1. CASE run.pc = "init"
    <3>1. 1 \in 1 .. N - 1 /\ 1 \in 1 .. N
      BY <1>1
    <3>2. module[1] \in {"new", "inited"}
      BY <2>1, <3>1 DEF LifeInv, Phases
    <3> QED
      BY <3>1, <3>2
  <2>2. CASE run.pc = "start" /\ run.i # N
    <3>1. run.i \in 1 .. N - 1 /\ ~ (run.i < run.i)
      BY <1>1, <1>2, <2>2
    <3>2. module[run.i] = "inited"
      BY <1>2, <2>2, <3>1 DEF LifeInv, Phases
    <3> QED
      BY <3>1, <3>2
  <2> QED
    BY <2>1, <2>2
<1>4. server.listener = "nil"
  BY <1>3 DEF LifeInv, ServerFollowsRun
<1>5. server.pc = "idle"
  <2>1. server.pc \in {"idle", "register", "select"}
    BY DEF LifeInv, ServerTypeOK, ServerModule
  <2> QED
    BY <1>4, <2>1 DEF LifeInv, ServerFollowsRun
<1>6. graceful = "none" /\ ~ server.forced
  BY DEF LifeInv, ServerFollowsRun
<1>7. ~ registered /\ ~ server.health
  BY <1>4, <1>6 DEF LifeInv, ServerStops
<1> QED
  BY <1>4, <1>5, <1>6, <1>7

\* The loop of a phase: the next module, or the next phase.
LEMMA LoopGoesOn ==
  ASSUME LifeInv, run.pc \in {"init", "start"}, NEW phase \in {"start", "wait"}, NextModule(phase)
  PROVE  /\ run.i \in 1 .. N
         /\ run' \in [pc : {"main", "init", "start", "wait", "stop", "returned"}, i : Nat]
         /\ run'.i \in 1 .. N
         /\ \/ run.i < N /\ run'.pc = run.pc /\ run'.i = run.i + 1
            \/ run.i = N /\ run'.pc = phase /\ run'.i = 1
<1>1. /\ run \in [pc : {"main", "init", "start", "wait", "stop", "returned"}, i : Nat]
      /\ run.i \in 1 .. N
  BY DEF LifeInv, RunTypeOK
<1>2. N \in Nat /\ N >= 2
  BY AtWork
<1>3. CASE run.i < N
  <2>1. run' = [run EXCEPT !.i = run.i + 1]
    BY <1>3 DEF NextModule
  <2>2. run.i + 1 \in Nat /\ run.i + 1 \in 1 .. N
    BY <1>1, <1>2, <1>3
  <2> QED
    BY <1>1, <1>3, <2>1, <2>2
<1>4. CASE ~ (run.i < N)
  <2>1. run.i = N /\ 1 \in Nat /\ 1 \in 1 .. N
    BY <1>1, <1>2, <1>4
  <2>2. run' = [pc |-> phase, i |-> 1]
    BY <1>4 DEF NextModule
  <2> QED
    BY <1>1, <2>1, <2>2
<1> QED
  BY <1>3, <1>4

LEMMA InitKeepsLife == LifeInv /\ InitModule => LifeInv'
<1> SUFFICES ASSUME LifeInv, InitModule PROVE LifeInv'
  OBVIOUS
<1>1. /\ run.pc = "init"
      /\ UNCHANGED <<modules, otelOn, graceful, registered, handlers, report, lost>>
  BY DEF InitModule
<1>2. /\ N \in Nat /\ N >= 2 /\ Server = N /\ Position(service) = N - 1 /\ ~ NoModules
      /\ modules[N] = grpcserver /\ Built(modules)
  BY <1>1, AtWork
<1>3. N' = N /\ (~ NoModules)' /\ Built(modules)' /\ \A m : Announces(m)' = Announces(m)
  BY <1>1, <1>2, SameTraits DEF N, NoModules
<1>4. /\ server.listener = "nil" /\ server.pc = "idle" /\ graceful = "none"
      /\ ~ registered /\ ~ server.health /\ ~ server.forced
  BY <1>1, ServerQuiet
<1>5. /\ server \in ServerModule /\ values \in [RuntimeKeys -> 0 .. N]
      /\ module \in [1 .. N -> {"new", "inited", "started", "stopped"}]
      /\ run.i \in 1 .. N
      /\ \A m \in 1 .. N : module[m] = IF m < run.i THEN "inited" ELSE "new"
      /\ values["registrar"] # 0 <=> \E m \in 1 .. run.i - 1 : Announces(m)
  BY <1>1 DEF LifeInv, ServerTypeOK, RunTypeOK, RegistrarKnown, Phases
<1>6. CASE /\ module' = [module EXCEPT ![run.i] = "inited"] /\ values' = SetValues(run.i)
           /\ server' = IF run.i = Server THEN InitServer ELSE server
           /\ NextModule("start") /\ UNCHANGED outcome
  <2>1. /\ run' \in [pc : {"main", "init", "start", "wait", "stop", "returned"}, i : Nat]
        /\ run'.i \in 1 .. N
        /\ \/ run.i < N /\ run'.pc = "init" /\ run'.i = run.i + 1
           \/ run.i = N /\ run'.pc = "start" /\ run'.i = 1
    BY <1>1, <1>6, LoopGoesOn
  <2>2. outcome' = "" /\ outcome = ""
    BY <1>1, <1>6 DEF LifeInv, Phases
  <2>3. /\ module' \in [1 .. N -> {"new", "inited", "started", "stopped"}]
        /\ module'[run.i] = "inited"
        /\ \A m \in 1 .. N : m # run.i => module'[m] = module[m]
    BY <1>5, <1>6
  <2>4. \A m \in 1 .. N : module'[m] = IF m <= run.i THEN "inited" ELSE "new"
    BY <1>2, <1>5, <2>3
  <2>5. /\ values' \in [RuntimeKeys -> 0 .. N]
        /\ values'["registrar"] = IF Announces(run.i) THEN run.i ELSE values["registrar"]
    <3>1. run.i \in 0 .. N
      BY <1>2, <1>5
    <3> QED
      BY <1>5, <1>6, <3>1, RegistrarIsKey DEF SetValues, Announces
  <2>6. values'["registrar"] # 0 <=> \E m \in 1 .. run.i : Announces(m)
    BY <1>2, <1>5, <2>5
  <2>7. ~ Announces(N)
    BY <1>2, ServerTraits DEF Announces
  <2>8. /\ server' \in ServerModule
        /\ server'.pc = "idle" /\ server'.listener = "nil" /\ ~ server'.health /\ ~ server'.forced
        /\ run.i = N => server'.registrar = values["registrar"] /\ server'.serves
    <3>1. CASE run.i = Server
      <4>1. server' = [server EXCEPT !.registrar = values["registrar"],
                                     !.serves = module[Position(service)] = "inited"]
        BY <1>6, <3>1 DEF InitServer
      <4>2. values["registrar"] \in 0 .. N
        BY <1>5, RegistrarIsKey
      <4>3. module[Position(service)] = "inited"
        <5>1. N - 1 \in 1 .. N /\ N - 1 < N
          BY <1>2
        <5> QED
          BY <1>2, <1>5, <3>1, <5>1
      <4>4. server' = [server EXCEPT !.registrar = values["registrar"], !.serves = TRUE]
        BY <4>1, <4>3, Zenon
      <4> QED
        BY <1>4, <1>5, <4>2, <4>4 DEF ServerModule
    <3>2. CASE run.i # Server
      BY <1>2, <1>4, <1>5, <1>6, <3>2
    <3> QED
      BY <3>1, <3>2
  <2>9. RunTypeOK'
    BY <1>3, <2>1, <2>2, <2>3 DEF RunTypeOK
  <2>10. ServerTypeOK'
    BY <1>1, <1>3, <2>8 DEF LifeInv, ServerTypeOK, ServerModule
  <2>11. ReportTypeOK' /\ ReportKnows'
    BY <1>1, <1>4, ReportUntouched
  <2>12. Shape'
    BY <1>3, <2>1 DEF Shape
  <2>13. Phases'
    <3>1. CASE run.i < N
      <4>1. \A m \in 1 .. N : m <= run.i <=> m < run.i + 1
        BY <1>2, <1>5
      <4>2. run'.pc = "init" /\ \A m \in 1 .. N : module'[m] = IF m < run'.i THEN "inited" ELSE "new"
        BY <1>5, <2>1, <2>4, <3>1, <4>1
      <4> QED
        BY <1>3, <2>2, <4>2 DEF Phases
    <3>2. CASE run.i = N
      <4>1. \A m \in 1 .. N : m <= run.i /\ ~ (m < 1)
        BY <1>2, <3>2
      <4>2. run'.pc = "start" /\ \A m \in 1 .. N : module'[m] = IF m < run'.i THEN "started" ELSE "inited"
        BY <1>5, <2>1, <2>4, <3>2, <4>1
      <4> QED
        BY <1>3, <2>2, <4>2 DEF Phases
    <3> QED
      BY <2>1, <3>1, <3>2
  <2>14. RegistrarKnown'
    <3>1. CASE run.i < N
      <4>1. run'.pc = "init" /\ run'.i - 1 = run.i
        BY <1>5, <2>1, <3>1
      <4> QED
        BY <1>3, <2>5, <2>6, <4>1 DEF RegistrarKnown
    <3>2. CASE run.i = N
      <4>1. run'.pc = "start"
        BY <1>2, <2>1, <3>2
      <4>2. server'.serves /\ (server'.registrar # 0 <=> \E m \in 1 .. N - 1 : Announces(m))
        BY <1>5, <2>8, <3>2
      <4>3. (\E m \in 1 .. N - 1 : Announces(m)) <=> (\E m \in 1 .. N : Announces(m))
        BY <1>2, <2>7
      <4> QED
        BY <1>3, <2>5, <4>1, <4>2, <4>3 DEF RegistrarKnown
    <3> QED
      BY <2>1, <3>1, <3>2
  <2>15. ServerFollowsRun'
    BY <1>1, <1>3, <1>4, <2>1, <2>2, <2>8 DEF ServerFollowsRun
  <2>16. ServerStops'
    BY <1>1, <1>3, <1>4, <2>4, <2>8 DEF ServerStops
  <2> QED
    BY <1>3, <2>9, <2>10, <2>11, <2>12, <2>13, <2>14, <2>15, <2>16 DEF LifeInv
<1>7. CASE Abort /\ UNCHANGED <<module, server, values>>
  <2>1. /\ RunTypeOK' /\ Shape' /\ Phases' /\ RegistrarKnown'
        /\ run'.pc = "returned" /\ outcome' = "error"
    BY <1>1, <1>7, AbortKeeps
  <2>2. ServerTypeOK'
    BY <1>1, <1>7, ServerUntouched
  <2>3. ReportTypeOK' /\ ReportKnows'
    BY <1>1, <1>7, ReportUntouched
  <2>4. ServerFollowsRun'
    BY <1>1, <1>4, <1>7, <2>1 DEF ServerFollowsRun
  <2>5. ServerStops'
    BY <1>1, <1>3, <1>7 DEF LifeInv, ServerStops
  <2> QED
    BY <1>3, <2>1, <2>2, <2>3, <2>4, <2>5 DEF LifeInv
<1> QED
  BY <1>6, <1>7 DEF InitModule

LEMMA StartModuleKeepsLife == LifeInv /\ StartModule => LifeInv'
<1> SUFFICES ASSUME LifeInv, StartModule PROVE LifeInv'
  OBVIOUS
<1>1. /\ run.pc = "start" /\ run.i # Server
      /\ UNCHANGED <<modules, otelOn, values, server, graceful, registered, handlers, report, lost>>
  BY DEF StartModule, bystanders, application
<1>2. N \in Nat /\ N >= 2 /\ Server = N /\ ~ NoModules /\ Built(modules)
  BY <1>1, AtWork
<1>3. N' = N /\ (~ NoModules)' /\ Built(modules)' /\ \A m : Announces(m)' = Announces(m)
  BY <1>1, <1>2, SameTraits DEF N, NoModules
<1>4. /\ server.listener = "nil" /\ server.pc = "idle" /\ graceful = "none"
      /\ ~ registered /\ ~ server.health /\ ~ server.forced
  BY <1>1, <1>2, ServerQuiet
<1>5. /\ module \in [1 .. N -> {"new", "inited", "started", "stopped"}]
      /\ run.i \in 1 .. N
      /\ \A m \in 1 .. N : module[m] = IF m < run.i THEN "started" ELSE "inited"
  BY <1>1 DEF LifeInv, RunTypeOK, Phases
<1>6. ServerTypeOK' /\ ReportTypeOK' /\ ReportKnows'
  BY <1>1, ServerUntouched, ReportUntouched
<1>7. CASE module' = [module EXCEPT ![run.i] = "started"] /\ NextModule("wait") /\ UNCHANGED outcome
  <2>1. /\ run' \in [pc : {"main", "init", "start", "wait", "stop", "returned"}, i : Nat]
        /\ run'.i \in 1 .. N /\ run'.pc = "start" /\ run'.i = run.i + 1
    BY <1>1, <1>2, <1>7, LoopGoesOn
  <2>2. outcome' = ""
    BY <1>1, <1>7 DEF LifeInv, Phases
  <2>3. /\ module' \in [1 .. N -> {"new", "inited", "started", "stopped"}]
        /\ module'[run.i] = "started"
        /\ \A m \in 1 .. N : m # run.i => module'[m] = module[m]
    BY <1>5, <1>7
  <2>4. \A m \in 1 .. N : module'[m] = IF m < run.i + 1 THEN "started" ELSE "inited"
    BY <1>2, <1>5, <2>3
  <2>5. RunTypeOK'
    BY <1>3, <2>1, <2>2, <2>3 DEF RunTypeOK
  <2>6. Shape' /\ Phases'
    BY <1>3, <2>1, <2>2, <2>4 DEF Shape, Phases
  <2>7. RegistrarKnown'
    BY <1>1, <1>3, <2>1 DEF LifeInv, RegistrarKnown
  <2>8. ServerFollowsRun'
    BY <1>1, <1>3, <1>4, <2>1, <2>2 DEF ServerFollowsRun
  <2>9. ServerStops'
    BY <1>1, <1>3, <1>4, <2>4 DEF ServerStops
  <2> QED
    BY <1>3, <1>6, <2>5, <2>6, <2>7, <2>8, <2>9 DEF LifeInv
<1>8. CASE Abort /\ UNCHANGED module
  <2>1. /\ RunTypeOK' /\ Shape' /\ Phases' /\ RegistrarKnown'
        /\ run'.pc = "returned" /\ outcome' = "error"
    BY <1>1, <1>8, AbortKeeps
  <2>2. ServerFollowsRun'
    BY <1>1, <1>4, <2>1 DEF ServerFollowsRun
  <2>3. ServerStops'
    BY <1>1, <1>3, <1>8 DEF LifeInv, ServerStops
  <2> QED
    BY <1>3, <1>6, <2>1, <2>2, <2>3 DEF LifeInv
<1> QED
  BY <1>7, <1>8 DEF StartModule

\* The server's Start returns nil: it listens, and is registered if it has a registrar.
LEMMA ServerUp ==
  ASSUME LifeInv, run.pc = "start", run.i = N, server' = Started,
         module' = [module EXCEPT ![Server] = "started"], NextModule("wait"),
         registered' \in BOOLEAN, registered' <=> server.registrar # 0,
         server.registrar # 0 => server.serviceID,
         UNCHANGED <<modules, otelOn, values, outcome, graceful, handlers, report, lost>>
  PROVE  LifeInv'
<1>1. N \in Nat /\ N >= 2 /\ Server = N /\ ~ NoModules /\ Built(modules)
  BY AtWork
<1>2. N' = N /\ (~ NoModules)' /\ Built(modules)' /\ \A m : Announces(m)' = Announces(m)
  BY <1>1, SameTraits DEF N, NoModules
<1>3. /\ module \in [1 .. N -> {"new", "inited", "started", "stopped"}]
      /\ \A m \in 1 .. N : module[m] = IF m < N THEN "started" ELSE "inited"
      /\ server \in ServerModule
  BY DEF LifeInv, RunTypeOK, Phases, ServerTypeOK
<1>4. graceful = "none" /\ ~ server.forced /\ outcome = ""
  BY DEF LifeInv, ServerFollowsRun, Phases
<1>5. /\ run' \in [pc : {"main", "init", "start", "wait", "stop", "returned"}, i : Nat]
      /\ run'.i \in 1 .. N /\ run'.pc = "wait"
  BY <1>1, LoopGoesOn
<1>6. /\ server' = [server EXCEPT !.pc = "idle", !.listener = "open", !.health = TRUE,
                                  !.serve = "pending"]
      /\ server' \in ServerModule
      /\ server'.pc = "idle" /\ server'.listener = "open" /\ server'.forced = server.forced
      /\ server'.registrar = server.registrar /\ server'.serviceID = server.serviceID
      /\ server'.serves = server.serves
  BY <1>3 DEF Started, ServerModule
<1>7. /\ module' \in [1 .. N -> {"new", "inited", "started", "stopped"}]
      /\ \A m \in 1 .. N : module'[m] = "started"
  <2>1. /\ module' \in [1 .. N -> {"new", "inited", "started", "stopped"}]
        /\ module'[N] = "started" /\ \A m \in 1 .. N : m # N => module'[m] = module[m]
    BY <1>1, <1>3
  <2> QED
    BY <1>1, <1>3, <2>1
<1>8. RunTypeOK'
  BY <1>2, <1>4, <1>5, <1>7 DEF RunTypeOK
<1>9. ServerTypeOK'
  BY <1>2, <1>6 DEF LifeInv, ServerTypeOK, ServerModule
<1>10. ReportTypeOK' /\ ReportKnows'
  BY <1>6, ReportUntouched
<1>11. Shape' /\ Phases'
  BY <1>2, <1>4, <1>5, <1>7 DEF Shape, Phases
<1>12. RegistrarKnown'
  BY <1>2, <1>5, <1>6 DEF LifeInv, RegistrarKnown
<1>13. ServerFollowsRun'
  <2>1. server.registrar # 0 <=> \E m \in 1 .. N : Announces(m)
    BY DEF LifeInv, RegistrarKnown
  <2>2. \A m \in 1 .. N - 1 : m \in 1 .. N
    BY <1>1
  <2>3. /\ run'.pc = "wait" /\ server'.pc = "idle" /\ server'.listener = "open"
        /\ graceful' = "none" /\ ~ server'.forced
    BY <1>4, <1>5, <1>6
  <2>4. \A m \in (1 .. N - 1)' : module'[m] = "started"
    BY <1>2, <1>7, <2>2
  <2>5. (\E m \in 1 .. N : Announces(m))' => registered'
    BY <1>2, <2>1
  <2> QED
    BY <2>3, <2>4, <2>5 DEF ServerFollowsRun
<1>14. ServerStops'
  BY <1>2, <1>4, <1>6, <1>7 DEF ServerStops
<1> QED
  BY <1>2, <1>8, <1>9, <1>10, <1>11, <1>12, <1>13, <1>14 DEF LifeInv

LEMMA StartListenKeepsLife == LifeInv /\ StartListen => LifeInv'
<1> SUFFICES ASSUME LifeInv, StartListen PROVE LifeInv'
  OBVIOUS
<1>1. /\ run.pc = "start" /\ run.i = Server /\ server.pc = "idle"
      /\ UNCHANGED <<modules, otelOn, values, graceful, registered, handlers, report, lost>>
  BY DEF StartListen, bystanders, application
<1>2. N \in Nat /\ N >= 2 /\ Server = N /\ ~ NoModules /\ Built(modules)
  BY <1>1, AtWork
<1>3. N' = N /\ (~ NoModules)' /\ Built(modules)' /\ \A m : Announces(m)' = Announces(m)
  BY <1>1, <1>2, SameTraits DEF N, NoModules
<1>4. /\ server \in ServerModule /\ registered \in BOOLEAN
      /\ graceful = "none" /\ ~ server.forced
      /\ registered => server.registrar # 0
  BY <1>1 DEF LifeInv, ServerTypeOK, ServerFollowsRun, ServerStops
<1>5. CASE /\ server.registrar # 0 /\ UNCHANGED <<run, outcome, module>>
           /\ server' = [server EXCEPT !.pc = "register", !.listener = "open", !.health = TRUE,
                                       !.serviceID = TRUE]
  <2>1. /\ server' \in ServerModule
        /\ server'.pc = "register" /\ server'.listener = "open" /\ server'.forced = server.forced
        /\ server'.registrar = server.registrar /\ server'.serviceID
        /\ server'.serves = server.serves
    BY <1>4, <1>5 DEF ServerModule
  <2>2. RunTypeOK' /\ Shape' /\ Phases'
    BY <1>1, <1>5, RunUntouched
  <2>3. ServerTypeOK'
    BY <1>1, <1>3, <2>1 DEF LifeInv, ServerTypeOK, ServerModule
  <2>4. ReportTypeOK' /\ ReportKnows'
    BY <1>1, <2>1, ReportUntouched
  <2>5. RegistrarKnown'
    BY <1>1, <1>5, <2>1, RegistrarUntouched
  <2>6. ServerFollowsRun'
    <3>1. \A m \in 1 .. N - 1 : m \in 1 .. N /\ m < N
      BY <1>2
    <3>2. \A m \in 1 .. N - 1 : module[m] = "started"
      BY <1>1, <1>2, <3>1 DEF LifeInv, Phases
    <3>3. run' = run /\ run.pc = "start" /\ run.i = N
      BY <1>1, <1>2, <1>5
    <3> QED
      BY <1>1, <1>3, <1>4, <1>5, <2>1, <3>2, <3>3 DEF ServerFollowsRun
  <2>7. ServerStops'
    BY <1>1, <1>3, <1>4, <1>5, <2>1 DEF LifeInv, ServerStops
  <2> QED
    BY <1>3, <2>2, <2>3, <2>4, <2>5, <2>6, <2>7 DEF LifeInv
<1>6. CASE /\ server.registrar = 0 /\ server' = Started
           /\ module' = [module EXCEPT ![Server] = "started"]
           /\ NextModule("wait") /\ UNCHANGED outcome
  <2>1. registered' <=> server.registrar # 0
    BY <1>1, <1>4, <1>6
  <2> QED
    BY <1>1, <1>2, <1>4, <1>6, <2>1, ServerUp
<1>7. CASE Abort /\ UNCHANGED <<server, module>>
  <2>1. /\ RunTypeOK' /\ Shape' /\ Phases' /\ RegistrarKnown'
        /\ run'.pc = "returned" /\ outcome' = "error"
    BY <1>1, <1>7, AbortKeeps
  <2>2. ServerTypeOK' /\ ReportTypeOK' /\ ReportKnows'
    BY <1>1, <1>7, ServerUntouched, ReportUntouched
  <2>3. ServerFollowsRun'
    BY <1>1, <1>3, <1>7, <2>1 DEF LifeInv, ServerFollowsRun
  <2>4. ServerStops'
    BY <1>1, <1>3, <1>7 DEF LifeInv, ServerStops
  <2> QED
    BY <1>3, <2>1, <2>2, <2>3, <2>4 DEF LifeInv
<1> QED
  BY <1>5, <1>6, <1>7 DEF StartListen

LEMMA StartRegisterKeepsLife == LifeInv /\ StartRegister => LifeInv'
<1> SUFFICES ASSUME LifeInv, StartRegister PROVE LifeInv'
  OBVIOUS
<1>1. /\ run.pc = "start" /\ server.pc = "register"
      /\ UNCHANGED <<modules, otelOn, values, graceful, handlers, report, lost>>
  BY DEF StartRegister, application
<1>2. /\ run.i = N /\ server.listener = "open" /\ server.registrar # 0 /\ server.serviceID
      /\ server \in ServerModule /\ graceful = "none" /\ ~ server.forced
  BY <1>1 DEF LifeInv, ServerTypeOK, ServerFollowsRun
<1>3. N \in Nat /\ N >= 2 /\ Server = N /\ ~ NoModules /\ Built(modules)
  BY <1>1, AtWork
<1>4. N' = N /\ (~ NoModules)' /\ Built(modules)' /\ \A m : Announces(m)' = Announces(m)
  BY <1>1, <1>3, SameTraits DEF N, NoModules
<1>5. CASE /\ registered' = TRUE /\ server' = Started
           /\ module' = [module EXCEPT ![Server] = "started"]
           /\ NextModule("wait") /\ UNCHANGED outcome
  BY <1>1, <1>2, <1>5, ServerUp
<1>6. CASE /\ registered' \in BOOLEAN /\ server' = [server EXCEPT !.pc = "idle"]
           /\ Abort /\ UNCHANGED module
  <2>1. /\ server' \in ServerModule
        /\ server'.pc = "idle" /\ server'.listener = "open" /\ server'.forced = server.forced
        /\ server'.registrar = server.registrar /\ server'.serviceID = server.serviceID
    BY <1>2, <1>6 DEF ServerModule
  <2>2. /\ RunTypeOK' /\ Shape' /\ Phases' /\ RegistrarKnown'
        /\ run'.pc = "returned" /\ outcome' = "error"
    BY <1>1, <1>6, AbortKeeps
  <2>3. ServerTypeOK'
    BY <1>1, <1>4, <1>6, <2>1 DEF LifeInv, ServerTypeOK, ServerModule
  <2>4. ReportTypeOK' /\ ReportKnows'
    BY <1>1, <2>1, ReportUntouched
  <2>5. ServerFollowsRun'
    BY <1>1, <1>2, <1>4, <1>6, <2>1, <2>2 DEF LifeInv, ServerFollowsRun
  <2>6. ServerStops'
    BY <1>1, <1>2, <1>4, <1>6, <2>1 DEF LifeInv, ServerStops
  <2> QED
    BY <1>4, <2>2, <2>3, <2>4, <2>5, <2>6 DEF LifeInv
<1> QED
  BY <1>5, <1>6 DEF StartRegister

LEMMA ShutdownKeepsLife == LifeInv /\ Shutdown => LifeInv'
<1> SUFFICES ASSUME LifeInv, Shutdown PROVE LifeInv'
  OBVIOUS
<1>1. /\ run.pc = "wait" /\ run' = [pc |-> "stop", i |-> 1]
      /\ UNCHANGED <<modules, otelOn, values, outcome, module, server, graceful, registered,
                     handlers, report, lost>>
  BY DEF Shutdown, bystanders, application
<1>2. N \in Nat /\ N >= 2 /\ ~ NoModules /\ Built(modules)
  BY <1>1, AtWork
<1>3. N' = N /\ (~ NoModules)' /\ Built(modules)' /\ \A m : Announces(m)' = Announces(m)
  BY <1>1, <1>2, SameTraits DEF N, NoModules
<1>4. run'.pc = "stop" /\ run'.i = 1 /\ 1 \in 1 .. N
  BY <1>1, <1>2
<1>5. /\ \A m \in 1 .. N : module[m] = "started"
      /\ server.listener = "open" /\ outcome = ""
      /\ server.pc \notin {"register", "select"}
  BY <1>1 DEF LifeInv, Phases, ServerFollowsRun
<1>6. RunTypeOK'
  BY <1>1, <1>3, <1>4 DEF LifeInv, RunTypeOK
<1>7. ServerTypeOK' /\ ReportTypeOK' /\ ReportKnows'
  BY <1>1, ServerUntouched, ReportUntouched
<1>8. Shape'
  BY <1>3, <1>4 DEF Shape
<1>9. Phases'
  <2>1. moduleToStop(run.i)' = N
    BY <1>2, <1>3, <1>4 DEF moduleToStop
  <2>2. \A m \in 1 .. N : ~ (m > N)
    BY <1>2
  <2> QED
    BY <1>1, <1>3, <1>4, <1>5, <2>1, <2>2 DEF Phases
<1>10. RegistrarKnown'
  BY <1>1, <1>3, <1>4 DEF LifeInv, RegistrarKnown
<1>11. ServerFollowsRun'
  BY <1>1, <1>3, <1>4, <1>5 DEF LifeInv, ServerFollowsRun
<1>12. ServerStops'
  BY <1>1, <1>3 DEF LifeInv, ServerStops
<1> QED
  BY <1>3, <1>6, <1>7, <1>8, <1>9, <1>10, <1>11, <1>12 DEF LifeInv

\* The loop of Stop goes on, or Run returns.
LEMMA StopGoesOn ==
  ASSUME LifeInv, run.pc = "stop", NEW failed, AfterStop(failed),
         module' = [module EXCEPT ![moduleToStop(run.i)] = "stopped"],
         UNCHANGED <<modules, otelOn, values>>
  PROVE  /\ RunTypeOK' /\ Shape' /\ Phases' /\ RegistrarKnown'
         /\ run'.pc \in {"stop", "returned"} /\ (run'.pc = "stop" => run'.i # 1)
         /\ \A m \in 1 .. N : m # moduleToStop(run.i) => module'[m] = module[m]
         /\ \A m \in 1 .. N : module'[m] \in {"started", "stopped"}
<1> DEFINE last == moduleToStop(run.i)
<1>1. N \in Nat /\ N >= 2 /\ Built(modules)
  BY AtWork
<1>2. N' = N /\ Built(modules)'
  BY <1>1 DEF N
<1>3. /\ run \in [pc : {"main", "init", "start", "wait", "stop", "returned"}, i : Nat]
      /\ run.i \in 1 .. N /\ outcome = ""
      /\ module \in [1 .. N -> {"new", "inited", "started", "stopped"}]
      /\ \A m \in 1 .. N : module[m] = IF m > last THEN "stopped" ELSE "started"
  BY DEF LifeInv, RunTypeOK, Phases
<1>4. last = N + 1 - run.i /\ last \in 1 .. N
  <2>1. run.i \in 1 .. N
    BY <1>3
  <2>2. last = N + 1 - run.i
    BY DEF moduleToStop
  <2> HIDE DEF last
  <2> QED
    BY <1>1, <2>1, <2>2
<1> HIDE DEF last
<1>0. /\ run.i \in 1 .. N /\ run.i \in Nat
      /\ \A m \in 1 .. N : module[m] = IF m > last THEN "stopped" ELSE "started"
  BY <1>3
<1>5. /\ module' \in [1 .. N -> {"new", "inited", "started", "stopped"}]
      /\ module'[last] = "stopped" /\ \A m \in 1 .. N : m # last => module'[m] = module[m]
  <2>1. module' = [module EXCEPT ![last] = "stopped"]
    BY DEF last
  <2> QED
    BY <1>3, <1>4, <2>1
<1>6. \A m \in 1 .. N : module'[m] = IF m > last - 1 THEN "stopped" ELSE "started"
  BY <1>0, <1>1, <1>4, <1>5
<1>7. CASE run.i < N
  <2>1. run' = [run EXCEPT !.i = run.i + 1] /\ outcome' = ""
    BY <1>3, <1>7 DEF AfterStop
  <2>2. run.i + 1 \in Nat /\ run.i + 1 \in 1 .. N /\ run.i + 1 # 1
    BY <1>0, <1>1, <1>7
  <2>3. /\ run' \in [pc : {"main", "init", "start", "wait", "stop", "returned"}, i : Nat]
        /\ run'.pc = "stop" /\ run'.i = run.i + 1
    BY <1>3, <2>1, <2>2
  <2>4. moduleToStop(run.i)' = last - 1
    <3>1. run'.i = run.i + 1
      BY <2>3
    <3>2. moduleToStop(run.i)' = N + 1 - (run.i + 1)
      BY <1>2, <3>1 DEF moduleToStop
    <3>3. run.i \in Nat
      BY <1>3
    <3> QED
      BY <1>1, <1>4, <3>2, <3>3
  <2>5. RunTypeOK' /\ Shape'
    BY <1>2, <1>5, <2>1, <2>2, <2>3 DEF RunTypeOK, Shape
  <2>6. Phases'
    BY <1>2, <1>6, <2>1, <2>3, <2>4 DEF Phases
  <2>7. RegistrarKnown'
    BY <1>2, <2>3 DEF LifeInv, RegistrarKnown
  <2> QED
    BY <1>5, <1>6, <2>2, <2>3, <2>5, <2>6, <2>7 DEF last
<1>8. CASE ~ (run.i < N)
  <2>1. /\ run' = [run EXCEPT !.pc = "returned"] /\ outcome' = "nil"
    BY <1>8 DEF AfterStop
  <2>2. /\ run' \in [pc : {"main", "init", "start", "wait", "stop", "returned"}, i : Nat]
        /\ run'.pc = "returned"
    BY <1>3, <2>1
  <2>3. \A m \in 1 .. N : module'[m] = "stopped"
    <3>1. last = 1
      BY <1>0, <1>1, <1>4, <1>8
    <3> QED
      BY <1>6, <3>1
  <2>4. RunTypeOK' /\ Shape'
    BY <1>2, <1>5, <2>1, <2>2 DEF RunTypeOK, Shape
  <2>5. Phases'
    BY <1>2, <2>1, <2>2, <2>3 DEF Phases
  <2>6. RegistrarKnown'
    BY <1>2, <2>2 DEF LifeInv, RegistrarKnown
  <2> QED
    BY <1>5, <2>2, <2>3, <2>4, <2>5, <2>6 DEF last
<1> QED
  BY <1>7, <1>8

LEMMA StopModuleKeepsLife == LifeInv /\ StopModule => LifeInv'
<1> SUFFICES ASSUME LifeInv, NEW k \in 1 .. N, NEW failed \in BOOLEAN, Stopping(k), k # Server,
                    module' = [module EXCEPT ![k] = "stopped"], AfterStop(failed),
                    UNCHANGED <<server, graceful, bystanders>>
             PROVE  LifeInv'
  BY DEF StopModule
<1>1. /\ run.pc = "stop" /\ moduleToStop(run.i) = k
      /\ UNCHANGED <<modules, otelOn, values, server, graceful, registered, handlers, report, lost>>
  BY DEF Stopping, bystanders, application
<1>2. N \in Nat /\ N >= 2 /\ Server = N /\ ~ NoModules /\ Built(modules)
  BY <1>1, AtWork
<1>3. N' = N /\ (~ NoModules)' /\ \A m : Announces(m)' = Announces(m)
  BY <1>1, <1>2, SameTraits DEF N, NoModules
<1>4. /\ RunTypeOK' /\ Shape' /\ Phases' /\ RegistrarKnown'
      /\ run'.pc \in {"stop", "returned"}
      /\ \A m \in 1 .. N : m # k => module'[m] = module[m]
      /\ \A m \in 1 .. N : module'[m] \in {"started", "stopped"}
  BY <1>1, StopGoesOn
<1>5. run.i # 1
  BY <1>1, <1>2 DEF moduleToStop
<1>6. server.pc \notin {"register", "select"} /\ server.listener # "nil"
  BY <1>1, <1>5 DEF LifeInv, ServerFollowsRun
<1>7. ServerTypeOK' /\ ReportTypeOK' /\ ReportKnows'
  BY <1>1, ServerUntouched, ReportUntouched
<1>8. ServerFollowsRun'
  <2>1. \A m \in 1 .. N - 1 : m \in 1 .. N
    BY <1>2
  <2> QED
    BY <1>1, <1>3, <1>4, <1>6, <2>1 DEF ServerFollowsRun
<1>9. ServerStops'
  BY <1>1, <1>2, <1>3, <1>4 DEF LifeInv, ServerStops
<1> QED
  BY <1>3, <1>4, <1>7, <1>8, <1>9 DEF LifeInv

LEMMA StopDeregisterKeepsLife == LifeInv /\ StopDeregister => LifeInv'
<1> SUFFICES ASSUME LifeInv, StopDeregister PROVE LifeInv'
  OBVIOUS
<1>1. /\ run.pc = "stop" /\ moduleToStop(run.i) = Server
      /\ server' = [server EXCEPT !.pc = "select", !.health = FALSE]
      /\ graceful' = "pending"
      /\ UNCHANGED <<modules, otelOn, values, run, outcome, module, handlers, report>>
  BY DEF StopDeregister, Stopping, application
<1>2. N \in Nat /\ N >= 2 /\ Server = N /\ ~ NoModules /\ Built(modules)
  BY <1>1, AtWork
<1>3. N' = N /\ (~ NoModules)' /\ \A m : Announces(m)' = Announces(m)
  BY <1>1, <1>2, SameTraits DEF N, NoModules
<1>4. run.i = 1
  <2>1. run.i \in 1 .. N
    BY <1>1 DEF LifeInv, RunTypeOK
  <2>2. N + 1 - run.i = N
    BY <1>1, <1>2 DEF moduleToStop
  <2> QED
    BY <1>2, <2>1, <2>2
<1>5. server \in ServerModule /\ registered \in BOOLEAN /\ lost \in BOOLEAN
  BY DEF LifeInv, ServerTypeOK
<1>6. server.listener # "nil"
  BY <1>1 DEF LifeInv, ServerFollowsRun
<1>7. /\ server' \in ServerModule
      /\ server'.pc = "select" /\ ~ server'.health
      /\ server'.registrar = server.registrar /\ server'.serviceID = server.serviceID
      /\ server'.serves = server.serves /\ server'.listener = server.listener
      /\ server'.forced = server.forced
  BY <1>1, <1>5 DEF ServerModule
<1>8. /\ registered' \in BOOLEAN /\ lost' \in BOOLEAN
      /\ registered' => lost' /\ server.registrar # 0 /\ server.serviceID
  <2>1. registered => server.registrar # 0 /\ server.serviceID
    BY DEF LifeInv, ServerStops
  <2>2. CASE server.registrar # 0 /\ server.serviceID
    <3>1. (registered' = FALSE /\ lost' = lost) \/ (lost' = TRUE /\ registered' = registered)
      BY <2>2 DEF StopDeregister
    <3> QED
      BY <1>5, <2>2, <3>1
  <2>3. CASE ~ (server.registrar # 0 /\ server.serviceID)
    <3>1. registered' = registered /\ lost' = lost
      BY <2>3 DEF StopDeregister
    <3> QED
      BY <1>5, <2>1, <2>3, <3>1
  <2> QED
    BY <2>2, <2>3
<1>9. RunTypeOK' /\ Shape' /\ Phases'
  BY <1>1, RunUntouched
<1>10. ServerTypeOK'
  BY <1>1, <1>3, <1>7, <1>8 DEF LifeInv, ServerTypeOK, ServerModule
<1>11. ReportTypeOK' /\ ReportKnows'
  BY <1>1, <1>7, ReportUntouched
<1>12. RegistrarKnown'
  BY <1>1, <1>7, RegistrarUntouched
<1>13. ServerFollowsRun'
  BY <1>1, <1>3, <1>4, <1>6, <1>7 DEF LifeInv, ServerFollowsRun
<1>14. ServerStops'
  <2>1. \A m \in 1 .. N : m = N => module[m] = "started"
    <3>1. moduleToStop(run.i) = N /\ ~ (N > N)
      BY <1>1, <1>2
    <3>2. \A m \in 1 .. N : module[m] = IF m > moduleToStop(run.i) THEN "stopped" ELSE "started"
      BY <1>1 DEF LifeInv, Phases
    <3> QED
      BY <3>1, <3>2
  <2> QED
    BY <1>1, <1>3, <1>6, <1>7, <1>8, <2>1 DEF LifeInv, ServerStops
<1> QED
  BY <1>3, <1>9, <1>10, <1>11, <1>12, <1>13, <1>14 DEF LifeInv

LEMMA SelectKeepsLife == LifeInv /\ Select => LifeInv'
<1> SUFFICES ASSUME LifeInv, Select PROVE LifeInv'
  OBVIOUS
<1>1. /\ run.pc = "stop" /\ moduleToStop(run.i) = Server /\ server.pc = "select"
      /\ module' = [module EXCEPT ![Server] = "stopped"] /\ AfterStop(FALSE)
      /\ UNCHANGED <<modules, otelOn, values, graceful, registered, handlers, report, lost>>
  BY DEF Select, Stopping, bystanders, application
<1>2. N \in Nat /\ N >= 2 /\ Server = N /\ ~ NoModules /\ Built(modules)
  BY <1>1, AtWork
<1>3. N' = N /\ (~ NoModules)' /\ \A m : Announces(m)' = Announces(m)
  BY <1>1, <1>2, SameTraits DEF N, NoModules
<1>4. /\ RunTypeOK' /\ Shape' /\ Phases' /\ RegistrarKnown'
      /\ run'.pc \in {"stop", "returned"}
      /\ \A m \in 1 .. N : m # N => module'[m] = module[m]
      /\ \A m \in 1 .. N : module'[m] \in {"started", "stopped"}
  BY <1>1, <1>2, StopGoesOn
<1>5. /\ server \in ServerModule /\ graceful # "none" /\ server.listener # "nil"
      /\ ~ server.health /\ (registered => lost)
      /\ registered => server.registrar # 0 /\ server.serviceID
      /\ graceful = "done" => handlers = 0 /\ (server.listener = "closed" \/ server.serve = "pending")
      /\ graceful = "draining" => server.listener = "closed" \/ server.serve = "pending"
  BY <1>1 DEF LifeInv, ServerTypeOK, ServerFollowsRun, ServerStops
<1>6. /\ server' \in ServerModule
      /\ server'.pc = "idle" /\ server'.health = server.health
      /\ server'.registrar = server.registrar /\ server'.serviceID = server.serviceID
      /\ server'.listener # "nil"
      /\ graceful \in {"draining", "done"} \/ server'.forced =>
             server'.listener = "closed" \/ server'.serve = "pending"
      /\ graceful = "done" \/ server'.forced
  <2>1. CASE graceful = "done" /\ server' = [server EXCEPT !.pc = "idle"]
    BY <1>5, <2>1 DEF ServerModule
  <2>2. CASE server' = [closeListeners(server) EXCEPT !.pc = "idle", !.forced = TRUE]
    BY <1>5, <2>2 DEF ServerModule, closeListeners
  <2> QED
    BY <2>1, <2>2 DEF Select
<1>7. ServerTypeOK'
  BY <1>1, <1>3, <1>6 DEF LifeInv, ServerTypeOK, ServerModule
<1>8. ReportTypeOK' /\ ReportKnows'
  BY <1>1, <1>6, ReportUntouched
<1>9. ServerFollowsRun'
  <2>1. \A m \in 1 .. N - 1 : m \in 1 .. N
    BY <1>2
  <2> QED
    BY <1>1, <1>3, <1>4, <1>6, <2>1 DEF ServerFollowsRun
<1>10. ServerStops'
  BY <1>1, <1>3, <1>5, <1>6 DEF ServerStops
<1> QED
  BY <1>3, <1>4, <1>7, <1>8, <1>9, <1>10 DEF LifeInv

-----------------------------------------------------------------------------
(* Every step keeps the invariant. *)

LEMMA StutterKeepsLife == LifeInv /\ UNCHANGED vars => LifeInv'
<1> SUFFICES ASSUME LifeInv, UNCHANGED vars PROVE LifeInv'
  OBVIOUS
<1>1. UNCHANGED <<modules, otelOn, values, run, outcome, module, server, graceful, registered,
                  handlers, report, lost>>
  BY DEF vars
<1>2. RunTypeOK' /\ Shape' /\ Phases' /\ RegistrarKnown' /\ ServerFollowsRun'
  BY <1>1, OutsideServer
<1>3. ServerTypeOK' /\ ReportTypeOK' /\ ReportKnows'
  BY <1>1, ServerUntouched, ReportUntouched
<1>4. (NoModules => Untouched)'
  BY <1>1 DEF LifeInv, NoModules, Untouched
<1>5. ServerStops'
  BY <1>1 DEF LifeInv, ServerStops, N
<1> QED
  BY <1>2, <1>3, <1>4, <1>5 DEF LifeInv

LEMMA LifeInvariant == Spec => []LifeInv
<1>1. LifeInv /\ [Next]_vars => LifeInv'
  BY MainKeepsLife, InitKeepsLife, StartModuleKeepsLife, StartListenKeepsLife,
     StartRegisterKeepsLife, ShutdownKeepsLife, StopModuleKeepsLife, StopDeregisterKeepsLife,
     SelectKeepsLife, ServeKeepsLife, GracefulStopKeepsLife, HandlerKeepsLife,
     CheckBeginsKeepsLife, CheckOneKeepsLife, StutterKeepsLife
  DEF Next, StopSteps
<1> QED
  BY InitLife, <1>1, PTL DEF Spec

-----------------------------------------------------------------------------
(* The theorems. *)

\* An instance that the registry lists, or that the health service reports as serving, has its
\* listener open, whatever modules are configured and however Start and Stop are interleaved
\* with Serve, GracefulStop and the handlers; only a failed Deregister leaves a stale entry.
THEOREM AnnouncedListens == Spec => []DiscoverableIsListening
<1>1. LifeInv => DiscoverableIsListening
  <2> SUFFICES ASSUME LifeInv PROVE DiscoverableIsListening
    OBVIOUS
  <2>1. ServerStops
    BY DEF LifeInv
  <2> QED
    BY <2>1 DEF ServerStops, DiscoverableIsListening
<1> QED
  BY LifeInvariant, <1>1, PTL

\* No module that comes before the server is stopped while the server or a handler still runs,
\* unless the shutdown had to be forced.
THEOREM ServerStopsFirst == Spec => []DependenciesOutliveServer
<1>1. LifeInv => DependenciesOutliveServer
  <2> SUFFICES ASSUME LifeInv, NEW m \in 1 .. N, module[m] = "stopped", m < Server
               PROVE  module[Server] = "stopped" /\ (handlers = 0 \/ server.forced)
    BY DEF DependenciesOutliveServer
  <2>1. Built(modules)
    <3>1. CASE NoModules
      <4>1. N = 0
        BY <3>1, EmptySeq DEF NoModules, N
      <4> QED
        BY <4>1
    <3> QED
      BY <3>1 DEF LifeInv, Shape
  <2>2. N \in Nat /\ N >= 2 /\ Server = N /\ N \in 1 .. N
    BY <2>1, Places
  <2>3. module[N] = "stopped"
    <3>1. run.pc \in {"main", "init", "start", "wait", "stop", "returned"}
      BY DEF LifeInv, RunTypeOK
    <3>2. run.pc = "stop" \/ (run.pc = "returned" /\ outcome = "nil")
      <4>1. run.pc # "main"
        BY <2>1, Places DEF LifeInv, Shape
      <4> QED
        BY <3>1, <4>1 DEF LifeInv, Phases
    <3>3. CASE run.pc = "stop"
      <4>1. moduleToStop(run.i) \in Nat
        <5>1. run.i \in 1 .. N
          BY <3>3 DEF LifeInv, RunTypeOK
        <5> QED
          BY <2>2, <5>1 DEF moduleToStop
      <4>2. m > moduleToStop(run.i)
        BY <3>3 DEF LifeInv, Phases
      <4>3. N > moduleToStop(run.i)
        BY <2>2, <4>1, <4>2
      <4> QED
        BY <2>2, <3>3, <4>3 DEF LifeInv, Phases
    <3>4. CASE run.pc = "returned" /\ outcome = "nil"
      BY <2>2, <3>4 DEF LifeInv, Phases
    <3> QED
      BY <3>2, <3>3, <3>4
  <2> QED
    BY <2>2, <2>3 DEF LifeInv, ServerStops
<1> QED
  BY LifeInvariant, <1>1, PTL

\* A Run that returns nil has called Stop on every module, although any of them may have failed,
\* the registry lists the instance only if Deregister failed, and its listener is closed or the
\* Serve call that will close it is still to come.
THEOREM NilMeansStopped == Spec => []CleanShutdownStopsAll
<1>1. LifeInv => CleanShutdownStopsAll
  <2> SUFFICES ASSUME LifeInv, outcome = "nil"
               PROVE  /\ \A m \in 1 .. N : module[m] = "stopped"
                      /\ registered => lost
                      /\ server.listener = "closed" \/ server.serve = "pending"
    BY DEF CleanShutdownStopsAll
  <2>1. run.pc = "returned" /\ \A m \in 1 .. N : module[m] = "stopped"
    BY DEF LifeInv, Phases
  <2>2. N \in 1 .. N
    <3>1. Built(modules)
      BY <2>1 DEF LifeInv, Shape
    <3> QED
      BY <3>1, Places
  <2>3. graceful = "done" \/ server.forced
    BY <2>1, <2>2 DEF LifeInv, ServerStops
  <2>4. graceful # "none" /\ (registered => lost)
        /\ (server.listener = "closed" \/ server.serve = "pending")
    BY <2>3 DEF LifeInv, ServerStops
  <2> QED
    BY <2>1, <2>4
<1> QED
  BY LifeInvariant, <1>1, PTL

\* Whatever the order of the components in the configuration, a service that is up serves its
\* RPCs, and the registry lists it if any of the modules provides a registrar.
THEOREM UpServesAnnounced == Spec => []UpIsAnnounced
<1>1. LifeInv => UpIsAnnounced
  BY DEF LifeInv, RegistrarKnown, ServerFollowsRun, UpIsAnnounced, Announces
<1> QED
  BY LifeInvariant, <1>1, PTL

\* A health report of "ok", made in any order while the modules start and stop, means that the
\* server has listened and every other module has been started.
THEOREM OkReportMeansStarted == Spec => []OkMeansStarted
<1>1. LifeInv => OkMeansStarted
  <2> SUFFICES ASSUME LifeInv, report.count > 0, report.pending = {}, report.status = "ok"
               PROVE  /\ server.listener # "nil"
                      /\ \A m \in 1 .. N \ {Server} : module[m] \in {"started", "stopped"}
    BY DEF OkMeansStarted
  <2>1. Built(modules) /\ server.listener # "nil"
    BY DEF LifeInv, ReportKnows
  <2>2. N \in Nat /\ Server = N
    BY <2>1, Places
  <2>3. \A m \in 1 .. N \ {Server} : m \in 1 .. N - 1
    BY <2>2
  <2> QED
    BY <2>1, <2>3 DEF LifeInv, ServerFollowsRun
<1> QED
  BY LifeInvariant, <1>1, PTL

\* Only main leads from main to Init.
LEMMA MainLeads ==
  ASSUME [Next]_vars, run.pc = "main", run'.pc = "init"
  PROVE  Main
<1>1. ~ (InitModule \/ StartModule \/ StartListen \/ StartRegister \/ StopSteps)
  <2>1. ~ (InitModule \/ StartModule)
    BY DEF InitModule, StartModule
  <2>2. ~ (StartListen \/ StartRegister)
    BY DEF StartListen, StartRegister
  <2>3. ~ (StopModule \/ StopDeregister \/ Select)
    BY DEF StopModule, StopDeregister, Select, Stopping
  <2> QED
    BY <2>1, <2>2, <2>3 DEF StopSteps
<1>2. ~ (Shutdown \/ Serve \/ GracefulStop)
  BY DEF Shutdown, Serve, GracefulStop
<1>3. ~ (HandlerStarts \/ HandlerEnds \/ CheckBegins \/ CheckOne)
  BY DEF HandlerStarts, HandlerEnds, CheckBegins, CheckOne
<1>4. ~ UNCHANGED vars
  BY DEF vars
<1> QED
  BY <1>1, <1>2, <1>3, <1>4 DEF Next

\* The modules that run are the enabled components of the most specific file that decides on
\* them, and OpenTelemetry is on if the most specific file that decides on it says so, whatever
\* documents the four files hold.
THEOREM MostSpecificFileDecides == Spec => LastFileDecides
<1> DEFINE list  == setting(Components)
           specs == IF list = "null" THEN << >> ELSE Lists[list]
           mods  == enabledOf(specs)
           Decided == /\ Len(modules') = Len(mods) + 2
                      /\ \A i \in DOMAIN mods : modules'[i] = <<mods[i].name, mods[i].provider>>
                      /\ otelOn' = (setting(OtelEnabled) = "true")
<1>1. ASSUME LifeInv, [Next]_vars, run.pc = "main", run'.pc = "init"
      PROVE  Decided
  <2>1. Main
    BY <1>1, MainLeads
  <2>2. /\ Load(files).components = setting(Components)
        /\ Load(files).otel = (setting(OtelEnabled) = "true")
    BY MergedIsSetting DEF Load
  <2>3. /\ list \in DOMAIN Lists \cup {"null"}
        /\ modules' = mainModules(Build(specs).modules)
        /\ otelOn' = Load(files).otel
    <3>1. run'.pc # "returned" /\ run \in [pc : {"main", "init", "start", "wait", "stop", "returned"}, i : Nat]
      BY <1>1 DEF LifeInv, RunTypeOK
    <3>2. run' # [run EXCEPT !.pc = "returned"]
      BY <3>1
    <3> QED
      BY <2>1, <2>2, <3>2 DEF Main
  <2>4. specs \in {Lists[l] : l \in DOMAIN Lists} \cup {<< >>}
    BY <2>3
  <2> HIDE DEF specs
  <2> QED
    BY <2>2, <2>3, <2>4, MainLists
<1>2. LifeInv /\ [Next]_vars => [run.pc = "main" /\ run'.pc = "init" => Decided]_vars
  BY <1>1
<1> QED
  BY LifeInvariant, <1>2, PTL DEF Spec, LastFileDecides
=============================================================================
