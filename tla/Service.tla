------------------------------ MODULE Service ------------------------------
(***************************************************************************)
(* How the background service comes and goes, and how its clients find it: *)
(* corescout-service/main.rs, product-api (endpoint.rs, http.rs,           *)
(* client.rs), the bridge of corescout-mcp/main.rs, the desktop shell's    *)
(* service.rs, and the hook of corescout-cli/watch.rs.                     *)
(*                                                                         *)
(* A service opens the store, which one process can have open at a time,   *)
(* binds a port, writes where it is into the endpoint file, and serves.    *)
(* An endpoint is identified with the service that wrote it: its token is  *)
(* its own, its port may be given to another one after its death.  Clients *)
(* read the file, ask at the port whether somebody is alive, and start a   *)
(* service when nobody is.  Inside the service its threads and its         *)
(* requests take turns at the engine.                                      *)
(***************************************************************************)
EXTENDS Naturals, FiniteSets

CONSTANTS
    Process,          \* instances of the service; a bound, as each starts once
    Port,
    Thread,           \* of the service: mirror, store, persist
    MaxCrashes,       \* bound: services that die by themselves
    MaxCalls          \* bound: calls of the desktop window

None == "none"
Torn == "torn"        \* an endpoint file cut short
Client == {"bridge", "desktop", "hook"}

VARIABLES
    stage,            \* of each service, in the order of run() in main.rs
    port,             \* what it has bound
    bounded,          \* whether it was started with --ticks
    file,             \* the endpoint file: None, Torn or whose it is
    engine,           \* who holds the mutex of the engine
    client,           \* of each client: where it is
    holds,            \* the endpoint each client has read
    child,            \* Service::child of the desktop
    crashes, calls,   \* ghost: bounds
    withdrawn,        \* ghost: services whose file the desktop has removed
    served            \* ghost: services that have served

service == <<stage, port, bounded>>
clients == <<client, holds, child>>
past == <<withdrawn, served>>
vars == <<service, file, engine, clients, crashes, calls, past>>

HasStore == {"open", "bound", "publishing", "published", "serving", "stopping", "withdrawing"}
Listening == HasStore \ {"open"}

Init ==
    /\ stage = [s \in Process |-> "unborn"] /\ port = [s \in Process |-> None]
    /\ bounded = [s \in Process |-> FALSE]
    /\ file = None /\ engine = None
    /\ client = [c \in Client |-> IF c = "desktop" THEN "idle" ELSE "connecting"]
    /\ holds = [c \in Client |-> None] /\ child = None
    /\ crashes = 0 /\ calls = 0 /\ withdrawn = {} /\ served = {}

-----------------------------------------------------------------------------
(* The service.                                                            *)

To(s, from, to) == stage[s] = from /\ stage' = [stage EXCEPT ![s] = to]

\* A new process, started by somebody.
Spawn(s, b) ==
    /\ To(s, "unborn", "starting")
    /\ bounded' = [bounded EXCEPT ![s] = b]

\* Engine::open_default fails while another process has the store open.
OpenStore(s) ==
    /\ IF \E t \in Process : stage[t] \in HasStore
       THEN To(s, "starting", "dead") ELSE To(s, "starting", "open")
    /\ UNCHANGED <<port, bounded, file, engine, clients, crashes, calls, past>>

\* Server::bind; the kernel gives a port nobody listens at.
Bind(s) ==
    /\ To(s, "open", "bound")
    /\ \E p \in Port :
        /\ \A t \in Process : port[t] = p => stage[t] \notin Listening
        /\ port' = [port EXCEPT ![s] = p]
    /\ UNCHANGED <<bounded, file, engine, clients, crashes, calls, past>>

\* Endpoint::publish: the file is truncated, then written; a file that has been
\* removed in between stays away.
Publish(s) ==
    /\ \/ To(s, "bound", "publishing") /\ file' = Torn
       \/ To(s, "publishing", "published") /\ file' = IF file = Torn THEN s ELSE file
    /\ UNCHANGED <<port, bounded, engine, clients, crashes, calls, past>>

\* Server::serve, which a bounded run never calls.
Serve(s) ==
    /\ ~bounded[s] /\ To(s, "published", "serving")
    /\ served' = served \cup {s}
    /\ UNCHANGED <<port, bounded, file, engine, clients, crashes, calls, withdrawn>>

StopMutant(s) == \* the file goes when the store has already been let go
    /\ bounded[s]
    /\ \/ To(s, "published", "stopping") /\ UNCHANGED file /\ engine = None
       \/ To(s, "stopping", "dead") /\ UNCHANGED file
       \/ stage[s] = "dead" /\ file' = None /\ UNCHANGED stage
    /\ UNCHANGED <<port, bounded, engine, clients, crashes, calls, past>>

\* The end of a bounded run: the last persist, then the file goes, then the
\* process, and with it the store.
Stop(s) ==
    /\ bounded[s]
    /\ \/ /\ To(s, "published", "stopping") /\ UNCHANGED file
          /\ engine = None
       \/ To(s, "stopping", "withdrawing") /\ file' = None
       \/ To(s, "withdrawing", "dead") /\ UNCHANGED file
    /\ UNCHANGED <<port, bounded, engine, clients, crashes, calls, past>>

DiesMutant(s) == \* the turn of its thread goes on
    stage' = [stage EXCEPT ![s] = "dead"] /\ UNCHANGED engine

\* Death of s, whoever held its engine.
Dies(s) ==
    /\ stage' = [stage EXCEPT ![s] = "dead"]
    /\ engine' = IF stage[s] \in HasStore THEN None ELSE engine

Crash(s) ==
    /\ stage[s] \notin {"unborn", "dead"} /\ crashes < MaxCrashes
    /\ Dies(s) /\ crashes' = crashes + 1
    /\ UNCHANGED <<port, bounded, file, clients, calls, past>>

\* The observation, licence and persist threads, each for as long as its turn
\* at the engine takes: the licence thread asks the Store during its turn.
TakesTurn(t) ==
    /\ engine = None
    /\ \E s \in Process : stage[s] \in {"published", "serving"}
    /\ engine' = t
    /\ UNCHANGED <<service, file, clients, crashes, calls, past>>

EndsTurnMutant(t) == \* a turn that fails keeps the engine
    /\ engine = t /\ engine' = t
    /\ UNCHANGED <<service, file, clients, crashes, calls, past>>

EndsTurn(t) ==
    /\ engine = t /\ engine' = None
    /\ UNCHANGED <<service, file, clients, crashes, calls, past>>

-----------------------------------------------------------------------------
(* What a client can find out.                                             *)

At(c, from, to) == client[c] = from /\ client' = [client EXCEPT ![c] = to]

\* Endpoint::discover: what the file says, if it can be read.
ReadFile == IF file = Torn THEN None ELSE file

\* Who answers at the port of an endpoint, and who only lets it connect.
Answering(e) == {s \in Process : e # None /\ port[s] = port[e] /\ stage[s] = "serving"}
Silent(e) == {s \in Process : e # None /\ port[s] = port[e] /\ stage[s] \in Listening \ {"serving"}}

IsAliveMutant(e) == Answering(e) \cup Silent(e) # {}  \* to connect is enough

\* Client::is_alive: nobody's token is asked for.
IsAlive(e) == Answering(e) # {}

\* Reads the file and is then at `found', or at `not' when there is nothing.
Reads(c, from, found, not) ==
    /\ holds' = [holds EXCEPT ![c] = ReadFile]
    /\ At(c, from, IF ReadFile = None THEN not ELSE found)

\* Where a client only connects, it waits until the service serves; a bounded
\* run never does, and is waited for until it ends or the time for it is over.
Waits(e) == \E s \in Silent(e) : ~bounded[s]

Probes(c, from, alive, not) ==
    /\ IsAlive(holds[c]) \/ ~Waits(holds[c])
    /\ At(c, from, IF IsAlive(holds[c]) THEN alive ELSE not)
    /\ UNCHANGED holds

\* Client::call: the token is checked, then the engine is waited for.
CallsIn(c, from, waiting, refused) ==
    /\ ~Waits(holds[c])
    /\ At(c, from, IF holds[c] \in Answering(holds[c]) THEN waiting ELSE refused)
    /\ UNCHANGED holds

\* A request has its turn, and its answer.  A connection to a service that has
\* died is closed.
Answered(c, from, to) ==
    /\ At(c, from, to) /\ (stage[holds[c]] = "dead" \/ engine = None)
    /\ UNCHANGED holds

-----------------------------------------------------------------------------
(* The bridge, which an agent has started.                                 *)

\* Bridge::connect.
BridgeConnects ==
    /\ \/ Reads("bridge", "connecting", "probing", "spawning")
       \/ Probes("bridge", "probing", "connected", "spawning")
    /\ UNCHANGED <<service, file, engine, child, crashes, calls, past>>

\* start_service, unless it may not or cannot.
BridgeStarts ==
    /\ \/ At("bridge", "spawning", "waiting") /\ (\E s \in Process : Spawn(s, FALSE))
       \/ At("bridge", "spawning", "without") /\ UNCHANGED <<stage, bounded>>
    /\ UNCHANGED <<port, file, engine, holds, child, crashes, calls, past>>

\* wait_for_service.
BridgeWaits ==
    /\ \/ Reads("bridge", "waiting", "looking", "waiting")
       \/ Probes("bridge", "looking", "connected", "waiting")
    /\ UNCHANGED <<service, file, engine, child, crashes, calls, past>>

BridgeGivesUp ==
    /\ At("bridge", "waiting", "without") /\ holds' = [holds EXCEPT !["bridge"] = None]
    /\ UNCHANGED <<service, file, engine, child, crashes, calls, past>>

\* Bridge::call, with the client it has got for good.
BridgeCalls ==
    /\ \/ CallsIn("bridge", "connected", "calling", "connected")
       \/ Answered("bridge", "calling", "connected")
    /\ UNCHANGED <<service, file, engine, child, crashes, calls, past>>

-----------------------------------------------------------------------------
(* The desktop shell.  Its own mutex is held while it finds the service,   *)
(* not while it calls it.                                                  *)

\* corescout_call, and Service::client, which tries the client it has first.
DesktopCalls ==
    /\ calls < MaxCalls /\ calls' = calls + 1
    /\ At("desktop", "idle", IF holds["desktop"] = None THEN "finding" ELSE "checking")
    /\ UNCHANGED <<service, file, engine, holds, child, crashes, past>>

\* Service::ensure_running.
DesktopFinds ==
    /\ \/ Probes("desktop", "checking", "ready", "finding")
       \/ Reads("desktop", "finding", "probing", "spawning")
       \/ Probes("desktop", "probing", "ready", "spawning")
       \/ Reads("desktop", "waiting", "looking", "waiting")
       \/ Probes("desktop", "looking", "ready", "waiting")
    /\ UNCHANGED <<service, file, engine, child, crashes, calls, past>>

DesktopStarts ==
    /\ holds' = [holds EXCEPT !["desktop"] = None]
    /\ \/ /\ At("desktop", "spawning", "waiting")
          /\ \E s \in Process : Spawn(s, FALSE) /\ child' = s
       \/ At("desktop", "spawning", "idle") /\ UNCHANGED <<stage, bounded, child>>
    /\ UNCHANGED <<port, file, engine, crashes, calls, past>>

DesktopGivesUp ==
    /\ At("desktop", "waiting", "idle") /\ holds' = [holds EXCEPT !["desktop"] = None]
    /\ UNCHANGED <<service, file, engine, child, crashes, calls, past>>

DesktopIsAnswered ==
    /\ \/ CallsIn("desktop", "ready", "calling", "idle")
       \/ Answered("desktop", "calling", "idle")
    /\ UNCHANGED <<service, file, engine, child, crashes, calls, past>>

\* Service::stop.  What was started is killed, and the file goes.
Quit ==
    /\ client["desktop"] \in {"idle", "ready", "calling"}
    /\ client' = [client EXCEPT !["desktop"] = IF child = None THEN "gone" ELSE "withdrawing"]
    /\ holds' = [holds EXCEPT !["desktop"] = None]
    /\ IF child # None /\ stage[child] # "dead" THEN Dies(child) ELSE UNCHANGED <<stage, engine>>
    /\ UNCHANGED <<port, bounded, file, child, crashes, calls, past>>

Withdraw ==
    /\ At("desktop", "withdrawing", "gone")
    /\ file' = None
    /\ withdrawn' = withdrawn \cup {s \in Process : file = s \/ stage[s] = "publishing"}
    /\ UNCHANGED <<service, engine, holds, child, crashes, calls, served>>

-----------------------------------------------------------------------------
(* The hook, which asks nothing first.                                     *)

Hook ==
    /\ \/ Reads("hook", "connecting", "ready", "done")
       \/ CallsIn("hook", "ready", "calling", "done")
       \/ Answered("hook", "calling", "done")
    /\ UNCHANGED <<service, file, engine, child, crashes, calls, past>>

-----------------------------------------------------------------------------
\* The smoke check of the installer.
SmokeCheck(s) ==
    /\ Spawn(s, TRUE)
    /\ UNCHANGED <<port, file, engine, clients, crashes, calls, past>>

ServiceStep(s) == OpenStore(s) \/ Bind(s) \/ Publish(s) \/ Serve(s) \/ Stop(s)
BridgeStep == BridgeConnects \/ BridgeStarts \/ BridgeWaits
DesktopStep == DesktopFinds \/ DesktopStarts \/ DesktopIsAnswered \/ Withdraw

Next ==
    \/ \E s \in Process : ServiceStep(s) \/ SmokeCheck(s) \/ Crash(s)
    \/ \E t \in Thread : TakesTurn(t) \/ EndsTurn(t)
    \/ BridgeStep \/ BridgeGivesUp \/ BridgeCalls
    \/ DesktopStep \/ DesktopCalls \/ DesktopGivesUp \/ Quit
    \/ Hook

Spec == Init /\ [][Next]_vars

\* A process that runs takes its steps, the Store answers, and the threads,
\* which sleep between their turns, leave turns to the requests.  A loop that
\* waits looks at its deadline again and again.
FairSpec ==
    /\ Spec
    /\ \A s \in Process : WF_vars(ServiceStep(s))
    /\ \A t \in Thread : WF_vars(EndsTurn(t))
    /\ WF_vars(BridgeStep) /\ SF_vars(BridgeGivesUp) /\ SF_vars(BridgeCalls)
    /\ SF_vars(DesktopStep) /\ SF_vars(DesktopGivesUp) /\ SF_vars(Hook)

-----------------------------------------------------------------------------
(* Properties.                                                             *)

\* Every variable keeps its type, and who answers has the store open.
TypeOK ==
    /\ stage \in [Process -> {"unborn", "starting", "dead"} \cup HasStore]
    /\ port \in [Process -> Port \cup {None}] /\ bounded \in [Process -> BOOLEAN]
    /\ file \in Process \cup {None, Torn} /\ engine \in Thread \cup {None}
    /\ holds \in [Client -> Process \cup {None}] /\ child \in Process \cup {None}
    /\ engine # None => \E s \in Process : stage[s] \in {"published", "serving"}

\* While a service runs the endpoint file leads to it, whoever starts, fails to
\* start, stops or dies meanwhile -- but for what the desktop removes when it
\* quits (main.rs run, endpoint.rs).
Discoverable ==
    \A s \in Process :
        stage[s] \in {"published", "serving", "stopping"} /\ s \notin withdrawn => file = s

\* client.rs, is_alive: a client that has found somebody alive has found the
\* service its endpoint is of, which serves or has served, or else that one is
\* dead and one that has served was given its port; it never settles on a
\* process that has yet to answer, and where nobody ever did.
AliveMeansServed ==
    \A c \in {"bridge", "desktop"} :
        client[c] \in {"connected", "ready"} =>
            \/ holds[c] \in served
            \/ stage[holds[c]] = "dead" /\ \E s \in served : port[s] = port[holds[c]]

\* endpoint.rs:31, of the pid in the file: it is there "so a stale file can be
\* recognised" -- a client that has asked at the port of an endpoint settles on
\* it only while the service it is of serves, as no other takes its token.
StaleIsRecognised ==
    [][\A c \in {"bridge", "desktop"} :
        client[c] \in {"probing", "looking", "checking"} /\ client'[c] \in {"connected", "ready"}
            => stage[holds[c]] = "serving"]_vars

\* Everything a client starts comes to an end: the bridge knows whether it has
\* a service, a call of the window has an answer or an error, a hook lets its
\* agent go on.  (Calls are bounded here, so all of them are settled at a time.)
Settled == {"idle", "gone", "connected", "without", "done"}
ClientsSettle == []<>(\A c \in Client : client[c] \in Settled)

\* service.rs, stop: "A service that was already running when the window opened
\* is left alone" -- what the desktop has not started can still be found.
OthersAreLeftAlone == \A s \in withdrawn : stage[s] = "dead"
=============================================================================
