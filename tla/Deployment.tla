----------------------------- MODULE Deployment -----------------------------
(***************************************************************************)
(* The processes of a deployment, from start to exit.  Each Python service *)
(* runs a gRPC and an HTTP server under one asyncio.run (main.py and       *)
(* grpc_server.py of stt, llm and tts; the HTTP server is uvicorn).  The   *)
(* gateway (cmd/gateway/main.go) opens a client per service, serves, and   *)
(* shuts down on a signal; GET /health asks all services at once           *)
(* (internal/health/aggregator.go).                                        *)
(*                                                                         *)
(* The gateway's only plain request is one health check at a time.  Its    *)
(* WebSocket sessions are hijacked connections, which Shutdown neither     *)
(* sees nor waits for; they end with the process.                          *)
(*                                                                         *)
(* Bounds: only the services in Faulty may fail or be interrupted, so only *)
(* their HTTP requests matter.                                             *)
(***************************************************************************)
EXTENDS Naturals, FiniteSets

CONSTANTS
    Services,  \* stt, llm and tts in the code
    Warmed,    \* those that load a model before they serve: stt
    Threaded,  \* those that work on threads of the executor: stt and tts
    Faulty

ASSUME ServicesAssumption ==
    IsFiniteSet(Services) /\ Warmed \cup Threaded \cup Faulty \subseteq Services

VARIABLES
    proc,     \* asyncio.run(main()) of each service
    grpc,     \* serve_grpc
    http,     \* serve_http
    posts,    \* services with an HTTP request in flight
    threads,  \* services with a thread of the executor at work
    mood,     \* how a HealthCheck finds a service: hung is a loop that stands still
    gateway,  \* run() of the gateway
    clients,  \* gRPC clients open; they are opened in order and closed in reverse
    hurried,  \* run did not wait for the request in flight
    check,    \* Aggregator.Check: the answers so far
    report,   \* its status, pending while it runs
    seen      \* auxiliary: what each service was during the check

serviceVars == <<proc, grpc, http, posts, threads, mood>>
healthVars  == <<check, report>>
gatewayVars == <<gateway, clients, hurried>>
vars == <<serviceVars, gatewayVars, healthVars, seen>>

TypeOK ==
    /\ proc \in [Services -> {"starting", "running", "cancelling", "exited"}]
    /\ grpc \in [Services -> {"off", "serving", "failed", "stopping", "stopped"}]
    /\ http \in [Services -> {"off", "serving", "failed", "draining", "stopped"}]
    /\ posts \subseteq Services /\ threads \subseteq Services
    /\ mood \in [Services -> {"fit", "unfit", "hung"}]
    /\ gateway \in {"connecting", "serving", "draining", "closing", "exited"}
    /\ clients \in 0..Cardinality(Services)
    /\ hurried \in BOOLEAN
    /\ check \in [Services -> {"idle", "asking", "healthy", "unhealthy"}]
    /\ report \in {"none", "pending", "ok", "degraded"}
    /\ seen \in [Services -> SUBSET {"good", "bad"}]

Init ==
    /\ proc = [s \in Services |-> "starting"]
    /\ grpc = [s \in Services |-> "off"]
    /\ http = [s \in Services |-> "off"]
    /\ posts = {} /\ threads = {}
    /\ mood = [s \in Services |-> "fit"]
    /\ gateway = "connecting" /\ clients = 0 /\ hurried = FALSE
    /\ check = [s \in Services |-> "idle"]
    /\ report = "none"
    /\ seen = [s \in Services |-> {}]

-----------------------------------------------------------------------------
(* A Python service.                                                       *)

\* main: the default model is loaded, if this service does that, which may
\* fail; then gather starts both servers.
Start(s) ==
    /\ proc[s] = "starting"
    /\ \E next \in {"running"} \cup (IF s \in Warmed THEN {"exited"} ELSE {}) :
          proc' = [proc EXCEPT ![s] = next]
    /\ UNCHANGED <<grpc, http, posts, threads, mood>>

\* serve_grpc: its port is taken, or it listens; it may still fail then.
GrpcStarts(s) ==
    /\ proc[s] = "running" /\ grpc[s] = "off"
    /\ grpc' = [grpc EXCEPT ![s] = "serving"]
    /\ UNCHANGED <<proc, http, posts, threads, mood>>

GrpcFails(s) ==
    /\ s \in Faulty /\ proc[s] = "running" /\ grpc[s] \in {"off", "serving"}
    /\ grpc' = [grpc EXCEPT ![s] = "failed"]
    /\ UNCHANGED <<proc, http, posts, threads, mood>>

\* serve_http, likewise.
HttpStarts(s) ==
    /\ proc[s] = "running" /\ http[s] = "off"
    /\ http' = [http EXCEPT ![s] = "serving"]
    /\ UNCHANGED <<proc, grpc, posts, threads, mood>>

HttpFails(s) ==
    /\ s \in Faulty /\ proc[s] = "running" /\ http[s] \in {"off", "serving"}
    /\ http' = [http EXCEPT ![s] = "failed"]
    /\ UNCHANGED <<proc, grpc, posts, threads, mood>>

\* Requests of either server come and go; some work on a thread.
PostBegins(s) ==
    /\ s \in Faulty /\ proc[s] = "running" /\ http[s] = "serving"
    /\ posts' = posts \cup {s}
    /\ UNCHANGED <<proc, grpc, http, threads, mood>>

PostEnds(s) ==
    /\ s \in posts
    /\ posts' = posts \ {s}
    /\ UNCHANGED <<proc, grpc, http, threads, mood>>

ThreadBegins(s) ==
    /\ s \in Threaded /\ proc[s] = "running" /\ (grpc[s] = "serving" \/ s \in posts)
    /\ threads' = threads \cup {s}
    /\ UNCHANGED <<proc, grpc, http, posts, mood>>

ThreadEnds(s) ==
    /\ s \in threads
    /\ threads' = threads \ {s}
    /\ UNCHANGED <<proc, grpc, http, posts, mood>>

\* SIGINT: uvicorn's handler; it accepts nothing more and waits for requests.
Interrupt(s) ==
    /\ s \in Faulty /\ proc[s] = "running" /\ http[s] = "serving"
    /\ http' = [http EXCEPT ![s] = "draining"]
    /\ UNCHANGED <<proc, grpc, posts, threads, mood>>

\* asyncio.run cancels every task that is left; serve_grpc has a finally.
CancelTasks(s) ==
    /\ proc' = [proc EXCEPT ![s] = "cancelling"]
    /\ grpc' = [grpc EXCEPT ![s] = IF @ = "serving" THEN "stopping" ELSE @]
    /\ posts' = posts \ {s}

\* Its requests are done: uvicorn raises the signal again.
HttpStops(s) ==
    /\ proc[s] = "running" /\ http[s] = "draining" /\ s \notin posts
    /\ http' = [http EXCEPT ![s] = "stopped"]
    /\ CancelTasks(s)
    /\ UNCHANGED <<threads, mood>>

LenientCrash(s) ==   \* mutant: gather(..., return_exceptions=True)
    /\ proc[s] = "running" /\ {grpc[s], http[s]} \subseteq {"failed", "stopped"}
    /\ CancelTasks(s)
    /\ UNCHANGED <<http, threads, mood>>

\* gather raises as soon as one of them has failed.
Crash(s) ==
    /\ proc[s] = "running" /\ "failed" \in {grpc[s], http[s]}
    /\ http' = [http EXCEPT ![s] = IF @ \in {"serving", "draining"} THEN "stopped" ELSE @]
    /\ CancelTasks(s)
    /\ UNCHANGED <<threads, mood>>

\* server.stop(grace=None): calls are cancelled.
GrpcStops(s) ==
    /\ grpc[s] = "stopping"
    /\ grpc' = [grpc EXCEPT ![s] = "stopped"]
    /\ UNCHANGED <<proc, http, posts, threads, mood>>

AbruptExit(s) ==   \* mutant: no finally, the server is left to its finalizer
    /\ proc[s] = "cancelling" /\ s \notin threads
    /\ proc' = [proc EXCEPT ![s] = "exited"]
    /\ UNCHANGED <<grpc, http, posts, threads, mood>>

\* All tasks are done, and asyncio.run has joined the executor's threads.
Exit(s) ==
    /\ proc[s] = "cancelling" /\ grpc[s] # "stopping" /\ s \notin threads
    /\ proc' = [proc EXCEPT ![s] = "exited"]
    /\ UNCHANGED <<grpc, http, posts, threads, mood>>

\* Models or Ollama go and come; the loop loads a model and answers nothing.
MoodChanges(s) ==
    /\ proc[s] = "running"
    /\ \E next \in {"fit", "unfit", "hung"} \ {mood[s]} : mood' = [mood EXCEPT ![s] = next]
    /\ UNCHANGED <<proc, grpc, http, posts, threads>>

Service(s) == /\ \/ Start(s) \/ GrpcStarts(s) \/ GrpcFails(s) \/ HttpStarts(s) \/ HttpFails(s)
                 \/ PostBegins(s) \/ PostEnds(s) \/ ThreadBegins(s) \/ ThreadEnds(s)
                 \/ Interrupt(s) \/ HttpStops(s) \/ Crash(s) \/ GrpcStops(s) \/ Exit(s)
                 \/ MoodChanges(s)
              /\ UNCHANGED <<gatewayVars, healthVars>>

-----------------------------------------------------------------------------
(* GET /health.                                                            *)

AllOpen == clients = Cardinality(Services)

\* Check: one goroutine per service.
CheckBegins ==
    /\ gateway = "serving" /\ report # "pending"
    /\ report' = "pending"
    /\ check' = [s \in Services |-> "asking"]
    /\ UNCHANGED <<serviceVars, gatewayVars>>

\* The HealthCheck servicer: STT wants a model, LLM wants Ollama, TTS is fine
\* unless listing its voices raises.
Answer(s) ==
    /\ check[s] = "asking" /\ AllOpen /\ grpc[s] = "serving" /\ mood[s] # "hung"
    /\ check' = [check EXCEPT ![s] = IF mood[s] = "fit" THEN "healthy" ELSE "unhealthy"]
    /\ UNCHANGED <<serviceVars, gatewayVars, report>>

PatientNoAnswer(s) ==   \* mutant: no deadline
    /\ check[s] = "asking" /\ (~AllOpen \/ grpc[s] # "serving")
    /\ check' = [check EXCEPT ![s] = "unhealthy"]
    /\ UNCHANGED <<serviceVars, gatewayVars, report>>

\* Nobody answers, within HealthCheck's three seconds if it must be.
NoAnswer(s) ==
    /\ check[s] = "asking"
    /\ ~AllOpen \/ grpc[s] # "serving" \/ mood[s] = "hung"
    /\ check' = [check EXCEPT ![s] = "unhealthy"]
    /\ UNCHANGED <<serviceVars, gatewayVars, report>>

HastyReport ==   \* mutant: the first answers decide
    /\ report = "pending" /\ \E s \in Services : check[s] # "asking"
    /\ report' = IF \E s \in Services : check[s] = "unhealthy" THEN "degraded" ELSE "ok"
    /\ check' = [s \in Services |-> "idle"]
    /\ UNCHANGED <<serviceVars, gatewayVars>>

\* wg.Wait() returns: 200 or 503.
Report ==
    /\ report = "pending" /\ \A s \in Services : check[s] # "asking"
    /\ report' = IF \A s \in Services : check[s] = "healthy" THEN "ok" ELSE "degraded"
    /\ check' = [s \in Services |-> "idle"]
    /\ UNCHANGED <<serviceVars, gatewayVars>>

Asking(s) == Answer(s) \/ NoAnswer(s)

-----------------------------------------------------------------------------
(* The gateway process.                                                    *)

DoubleConnect ==   \* mutant: one client too many
    /\ gateway = "connecting"
    /\ \/ clients' = clients + 1 /\ gateway' = gateway
       \/ gateway' = "closing" /\ clients' = clients
    /\ UNCHANGED <<serviceVars, healthVars, hurried>>

\* NewClient, in order; an error returns, and the deferred closes run.
Connect ==
    /\ gateway = "connecting" /\ ~AllOpen
    /\ \/ clients' = clients + 1 /\ gateway' = gateway
       \/ gateway' = "closing" /\ clients' = clients
    /\ UNCHANGED <<serviceVars, healthVars, hurried>>

\* ListenAndServe, or its error through serveErr.
Listen ==
    /\ gateway = "connecting" /\ AllOpen
    /\ gateway' \in {"serving", "closing"}
    /\ UNCHANGED <<serviceVars, healthVars, clients, hurried>>

\* The listener fails: serveErr, and run returns at once.
ServeFails ==
    /\ gateway = "serving"
    /\ gateway' = "closing" /\ hurried' = (report = "pending")
    /\ UNCHANGED <<serviceVars, healthVars, clients>>

\* SIGINT or SIGTERM: Shutdown closes the listener.
Signal ==
    /\ gateway = "serving"
    /\ gateway' = "draining"
    /\ UNCHANGED <<serviceVars, healthVars, clients, hurried>>

\* No request is in flight; sessions are not looked at.
Drained ==
    /\ gateway = "draining" /\ report # "pending"
    /\ gateway' = "closing"
    /\ UNCHANGED <<serviceVars, healthVars, clients, hurried>>

\* Ten seconds have passed.
ShutdownExpires ==
    /\ gateway = "draining" /\ report = "pending"
    /\ gateway' = "closing" /\ hurried' = TRUE
    /\ UNCHANGED <<serviceVars, healthVars, clients>>

\* The deferred closes; then main returns, and with it every session.
CloseClient ==
    /\ gateway = "closing" /\ clients > 0
    /\ clients' = clients - 1
    /\ UNCHANGED <<serviceVars, healthVars, gateway, hurried>>

GatewayExits ==
    /\ gateway = "closing" /\ clients = 0
    /\ gateway' = "exited"
    /\ UNCHANGED <<serviceVars, healthVars, clients, hurried>>

Closing == Drained \/ ShutdownExpires \/ CloseClient \/ GatewayExits
Gateway == \/ Connect \/ Listen \/ ServeFails \/ Signal \/ Closing
           \/ gateway # "exited" /\ (CheckBegins \/ Report)
           \/ gateway # "exited" /\ \E s \in Services : Asking(s)

-----------------------------------------------------------------------------
Good(s) == grpc[s] = "serving" /\ mood[s] = "fit"

\* Auxiliary: every state of the check counts, its first one included.
Watch == seen' = [s \in Services |->
                    IF report' # "pending" THEN {}
                    ELSE seen[s] \cup {IF Good(s)' THEN "good" ELSE "bad"}]

\* All that may be stopped has stopped.
Terminated == /\ gateway = "exited" /\ \A s \in Faulty : proc[s] = "exited"
              /\ UNCHANGED vars

Next == \/ (Gateway \/ \E s \in Services : Service(s)) /\ Watch
        \/ Terminated

(* Timers expire, tasks and goroutines are scheduled, HTTP requests and    *)
(* threads of a service that stops come to an end.  Nothing has to start,  *)
(* fail or be asked to stop, so that services not in Faulty never stop.    *)
Fairness ==
    /\ WF_gatewayVars(Closing)
    /\ WF_healthVars(gateway # "exited" /\ Report)
    /\ \A s \in Services : WF_healthVars(gateway # "exited" /\ Asking(s))
    /\ \A s \in Faulty :
          /\ WF_serviceVars(PostEnds(s)) /\ WF_serviceVars(ThreadEnds(s))
          /\ WF_serviceVars(HttpStops(s) \/ Crash(s) \/ GrpcStops(s) \/ Exit(s))

Spec == Init /\ [][Next]_vars
FairSpec == Spec /\ Fairness

-----------------------------------------------------------------------------
(* Correctness.                                                            *)

(* The report says ok only if every service was serving and fit at some    *)
(* moment of the check, and a service is found unhealthy only if it was    *)
(* not, or the gateway was closing its clients: a backend that hangs makes *)
(* no other look unhealthy (aggregator.go:38-85).                          *)
HealthIsTruthful ==
    [][/\ report = "pending" /\ report' = "ok" => \A s \in Services : "good" \in seen[s]
       /\ \A s \in Services : check[s] = "asking" /\ check'[s] = "unhealthy" =>
             "bad" \in seen[s] \/ hurried]_vars

(* A check is answered although backends hang, are gone or come back while *)
(* it runs (aggregator.go:39, stt/client.go:239).                          *)
HealthReturns == report = "pending" ~> report # "pending" \/ gateway = "exited"

(* Nothing is left to a finalizer: a service that has exited stopped its   *)
(* gRPC server while the loop ran, and has no thread; the gateway has      *)
(* closed the clients on every path out of run, and closes them under a    *)
(* request only if its listener failed or Shutdown ran out of time         *)
(* (stt/grpc_server.py:29-39, main.go:35-38, 108-123).                     *)
ExitIsClean ==
    /\ \A s \in Services : proc[s] = "exited" =>
          /\ grpc[s] \in {"off", "failed", "stopped"}
          /\ http[s] \in {"off", "failed", "stopped"}
          /\ s \notin posts \cup threads
    /\ gateway = "exited" => clients = 0
    /\ report = "pending" /\ ~AllOpen => hurried

(* A service does not run by half: when one of its servers fails, or it is *)
(* interrupted, both are down and the process is gone in the end, although *)
(* requests and threads are at work; and so is the gateway after a signal, *)
(* whatever its backends do (stt/main.py:38-40, main.go:102-128).          *)
StopsWhole ==
    /\ \A s \in Services :
          (grpc[s] = "failed" \/ http[s] \in {"failed", "draining"}) ~> proc[s] = "exited"
    /\ gateway = "draining" ~> gateway = "exited"
=============================================================================
