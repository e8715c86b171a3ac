-------------------------- MODULE DeploymentProofs --------------------------
(***************************************************************************)
(* Proofs about Deployment, for every set of services: processes exit      *)
(* clean, health reports are true, and every variable keeps its type.      *)
(***************************************************************************)
EXTENDS Deployment, TLAPS, FiniteSetTheorems

ServiceTypes ==
    /\ proc \in [Services -> {"starting", "running", "cancelling", "exited"}]
    /\ grpc \in [Services -> {"off", "serving", "failed", "stopping", "stopped"}]
    /\ http \in [Services -> {"off", "serving", "failed", "draining", "stopped"}]
    /\ posts \subseteq Services /\ threads \subseteq Services
    /\ mood \in [Services -> {"fit", "unfit", "hung"}]

\* Servers and requests belong to a process that runs; one that is being
\* cancelled has only its gRPC server to stop.
ProcessOwns ==
    \A s \in Services :
        /\ proc[s] = "starting" =>
              grpc[s] = "off" /\ http[s] = "off" /\ s \notin threads
        /\ proc[s] # "running" =>
              s \notin posts /\ http[s] \in {"off", "failed", "stopped"}
        /\ proc[s] = "cancelling" => grpc[s] # "serving"
        /\ proc[s] = "exited" =>
              grpc[s] \in {"off", "failed", "stopped"} /\ s \notin threads

\* Clients are closed only once no check runs, or in a hurry.
GatewayOwns ==
    /\ gateway \in {"connecting", "serving", "draining", "closing", "exited"}
    /\ gateway = "connecting" => report # "pending"
    /\ gateway \in {"serving", "draining"} => AllOpen
    /\ gateway \in {"closing", "exited"} => (report = "pending" => hurried)
    /\ gateway = "exited" => clients = 0

ExitInv == ServiceTypes /\ ProcessOwns /\ GatewayOwns

-----------------------------------------------------------------------------
(* Clean exits.                                                            *)

LEMMA ExitInvInit == Init => ExitInv
BY DEF Init, ExitInv, ServiceTypes, ProcessOwns, GatewayOwns

\* A step of a service.
LEMMA ServiceStep ==
    ASSUME ServiceTypes, ProcessOwns, NEW s \in Services, Service(s)
    PROVE  ServiceTypes' /\ ProcessOwns'
<1> USE DEF ServiceTypes, ProcessOwns
<1>1. CASE Start(s) \/ GrpcStarts(s) \/ GrpcFails(s) \/ HttpStarts(s) \/ HttpFails(s)
  BY <1>1 DEF Start, GrpcStarts, GrpcFails, HttpStarts, HttpFails
<1>2. CASE PostBegins(s) \/ PostEnds(s) \/ ThreadBegins(s) \/ ThreadEnds(s)
  BY <1>2 DEF PostBegins, PostEnds, ThreadBegins, ThreadEnds
<1>3. CASE Interrupt(s) \/ HttpStops(s) \/ Crash(s)
  BY <1>3 DEF Interrupt, HttpStops, Crash, CancelTasks
<1>4. CASE GrpcStops(s) \/ Exit(s) \/ MoodChanges(s)
  BY <1>4 DEF GrpcStops, Exit, MoodChanges
<1> QED
  BY <1>1, <1>2, <1>3, <1>4 DEF Service

\* A step of the gateway.
LEMMA GatewayStep ==
    ASSUME GatewayOwns, Gateway
    PROVE  GatewayOwns' /\ UNCHANGED serviceVars
<1> USE DEF GatewayOwns
<1>1. CASE Connect \/ Listen \/ ServeFails \/ Signal
  BY <1>1 DEF Connect, Listen, ServeFails, Signal, AllOpen, healthVars
<1>2. CASE Closing
  BY <1>2 DEF Closing, Drained, ShutdownExpires, CloseClient, GatewayExits, AllOpen, healthVars
<1>3. CASE CheckBegins \/ Report
  BY <1>3 DEF CheckBegins, Report, AllOpen, gatewayVars
<1>4. CASE \E s \in Services : Asking(s)
  BY <1>4 DEF Asking, Answer, NoAnswer, AllOpen, gatewayVars
<1> QED
  BY <1>1, <1>2, <1>3, <1>4 DEF Gateway

LEMMA ExitInvStep == ExitInv /\ [Next]_vars => ExitInv'
<1> SUFFICES ASSUME ExitInv, [Next]_vars
             PROVE  ServiceTypes' /\ ProcessOwns' /\ GatewayOwns'
  BY DEF ExitInv
<1> USE DEF ExitInv
<1>1. CASE Gateway
  BY <1>1, GatewayStep DEF ServiceTypes, ProcessOwns, serviceVars
<1>2. ASSUME NEW s \in Services, Service(s)
      PROVE  ServiceTypes' /\ ProcessOwns' /\ GatewayOwns'
  <2>1. UNCHANGED <<gatewayVars, healthVars>>
    BY <1>2 DEF Service
  <2> QED
    BY <1>2, <2>1, ServiceStep DEF GatewayOwns, AllOpen, gatewayVars, healthVars
<1>3. CASE UNCHANGED vars
  BY <1>3 DEF vars, serviceVars, gatewayVars, healthVars, ServiceTypes, ProcessOwns,
              GatewayOwns, AllOpen
<1> QED
  BY <1>1, <1>2, <1>3 DEF Next, Terminated

\* On every path to its exit a service has stopped its servers and threads, and
\* the gateway has closed its clients, and not under a request unless it had to
\* (stt/grpc_server.py:29-39, main.go:35-38, 108-123).
THEOREM ExitIsCleanCorrect == Spec => []ExitIsClean
<1>1. ExitInv => ExitIsClean
  BY DEF ExitInv, ProcessOwns, GatewayOwns, ExitIsClean
<1> QED
  BY <1>1, ExitInvInit, ExitInvStep, PTL DEF Spec

-----------------------------------------------------------------------------
(* True reports.                                                           *)

\* While a check runs, what was seen of a service includes what it is now; who
\* was found healthy was once good.
Witnessed ==
    /\ check \in [Services -> {"idle", "asking", "healthy", "unhealthy"}]
    /\ seen \in [Services -> SUBSET {"good", "bad"}]
    /\ report # "pending" => \A s \in Services : check[s] = "idle"
    /\ report = "pending" => \A s \in Services :
          /\ IF Good(s) THEN "good" \in seen[s] ELSE "bad" \in seen[s]
          /\ check[s] = "healthy" => "good" \in seen[s]

\* Watch records the state a step leads to.
LEMMA WatchRecords ==
    ASSUME Witnessed, Watch
    PROVE  /\ seen' \in [Services -> SUBSET {"good", "bad"}]
           /\ report' = "pending" => \A s \in Services :
                 /\ seen[s] \subseteq seen'[s]
                 /\ IF Good(s)' THEN "good" \in seen'[s] ELSE "bad" \in seen'[s]
BY DEF Witnessed, Watch

LEMMA WitnessedStep == Witnessed /\ [Next]_vars => Witnessed'
<1> SUFFICES ASSUME Witnessed, [Next]_vars PROVE Witnessed'
  OBVIOUS
<1>1. ASSUME NEW s \in Services, Service(s), Watch PROVE Witnessed'
  <2>1. UNCHANGED healthVars
    BY <1>1 DEF Service
  <2> QED
    BY <1>1, <2>1, WatchRecords DEF Witnessed, healthVars
<1>2. CASE (Connect \/ Listen \/ ServeFails \/ Signal \/ Closing) /\ Watch
  <2>1. UNCHANGED healthVars
    BY <1>2 DEF Connect, Listen, ServeFails, Signal, Closing, Drained, ShutdownExpires,
                CloseClient, GatewayExits
  <2> QED
    BY <1>2, <2>1, WatchRecords DEF Witnessed, healthVars
<1>3. CASE (CheckBegins \/ Report) /\ Watch
  BY <1>3, WatchRecords DEF CheckBegins, Report, Witnessed
<1>4. ASSUME NEW s \in Services, Asking(s), Watch PROVE Witnessed'
  <2>1. /\ check[s] = "asking" /\ report' = report
        /\ \/ check' = [check EXCEPT ![s] = "healthy"] /\ Good(s)
           \/ check' = [check EXCEPT ![s] = "unhealthy"]
    BY <1>4 DEF Asking, Answer, NoAnswer, Good
  <2> QED
    BY <1>4, <2>1, WatchRecords DEF Witnessed
<1>5. CASE UNCHANGED vars
  BY <1>5 DEF vars, serviceVars, healthVars, Witnessed, Good
<1> QED
  BY <1>1, <1>2, <1>3, <1>4, <1>5 DEF Next, Gateway, Terminated

\* Who answers unhealthy, or does not answer, was bad at some moment of the
\* check, unless the gateway was closing its clients in a hurry.
LEMMA UnhealthyIsBad ==
    ASSUME ExitInv, Witnessed, [Next]_vars, NEW s \in Services,
           check[s] = "asking", check'[s] = "unhealthy"
    PROVE  "bad" \in seen[s] \/ hurried
<1>1. report = "pending"
  BY DEF Witnessed
<1>2. PICK q \in Services : Asking(q)
  <2>1. ~UNCHANGED check /\ ~CheckBegins /\ ~Report
    BY DEF CheckBegins, Report, Witnessed
  <2> QED
    BY <2>1 DEF Next, Gateway, Terminated, Service, Connect, Listen, ServeFails, Signal,
                Closing, Drained, ShutdownExpires, CloseClient, GatewayExits,
                healthVars, gatewayVars, vars
<1>3. q = s
  BY <1>2 DEF Asking, Answer, NoAnswer, Witnessed
<1>4. ~AllOpen \/ ~Good(s)
  BY <1>2, <1>3 DEF Asking, Answer, NoAnswer, Good, Witnessed
<1>5. ExitIsClean
  BY DEF ExitInv, ProcessOwns, GatewayOwns, ExitIsClean
<1> QED
  BY <1>1, <1>4, <1>5 DEF Witnessed, ExitIsClean

\* A report of ok had every service good during its check, and no service is
\* found unhealthy for another's sake (aggregator.go:38-85).
THEOREM HealthIsTruthfulCorrect == Spec => HealthIsTruthful
<1> DEFINE Truthful ==
        /\ report = "pending" /\ report' = "ok" => \A s \in Services : "good" \in seen[s]
        /\ \A s \in Services : check[s] = "asking" /\ check'[s] = "unhealthy" =>
              "bad" \in seen[s] \/ hurried
<1>1. Init => ExitInv /\ Witnessed
  BY ExitInvInit DEF Init, Witnessed
<1>2. ExitInv /\ Witnessed /\ [Next]_vars => (ExitInv /\ Witnessed)'
  BY ExitInvStep, WitnessedStep
<1>3. ExitInv /\ Witnessed /\ [Next]_vars => [Truthful]_vars
  <2> SUFFICES ASSUME ExitInv, Witnessed, [Next]_vars PROVE Truthful
    OBVIOUS
  <2>1. ASSUME report = "pending", report' = "ok", NEW s \in Services
        PROVE  "good" \in seen[s]
    <3>1. Report
      BY <2>1 DEF Next, Gateway, Terminated, Service, Connect, Listen, ServeFails, Signal,
                  Closing, Drained, ShutdownExpires, CloseClient, GatewayExits,
                  CheckBegins, Asking, Answer, NoAnswer, healthVars, vars
    <3> QED
      BY <2>1, <3>1 DEF Report, Witnessed
  <2> QED
    BY <2>1, UnhealthyIsBad
<1> QED
  BY <1>1, <1>2, <1>3, PTL DEF Spec, HealthIsTruthful

-----------------------------------------------------------------------------
(* Every variable keeps its type.                                          *)

GatewayTypes ==
    /\ gateway \in {"connecting", "serving", "draining", "closing", "exited"}
    /\ clients \in 0..Cardinality(Services)
    /\ hurried \in BOOLEAN

LEMMA ServicesCount == Cardinality(Services) \in Nat
BY FS_CardinalityType, ServicesAssumption

\* Clients are counted up to all of them while connecting, and down to none.
LEMMA GatewayTypesStep == GatewayTypes /\ [Next]_vars => GatewayTypes'
<1> SUFFICES ASSUME GatewayTypes, [Next]_vars PROVE GatewayTypes'
  OBVIOUS
<1>0. PICK count \in Nat : count = Cardinality(Services)
  BY ServicesCount
<1>1. clients \in 0..count
  BY <1>0 DEF GatewayTypes
<1>2. CASE Connect
  <2>1. clients # count /\ clients' \in {clients, clients + 1}
    BY <1>0, <1>2 DEF Connect, AllOpen
  <2>2. clients' \in 0..count
    BY <1>1, <2>1
  <2> QED
    BY <1>0, <1>2, <2>2 DEF Connect, GatewayTypes
<1>3. CASE CloseClient
  <2>1. clients' \in 0..count
    BY <1>1, <1>3 DEF CloseClient
  <2> QED
    BY <1>0, <1>3, <2>1 DEF CloseClient, GatewayTypes
<1>4. CASE Listen \/ ServeFails \/ Signal \/ Drained \/ ShutdownExpires \/ GatewayExits
  BY <1>4 DEF Listen, ServeFails, Signal, Drained, ShutdownExpires, GatewayExits, GatewayTypes
<1>5. CASE UNCHANGED gatewayVars
  BY <1>5 DEF gatewayVars, GatewayTypes
<1>6. ASSUME NEW s \in Services, Service(s) \/ Asking(s) PROVE UNCHANGED gatewayVars
  BY <1>6 DEF Service, Asking, Answer, NoAnswer
<1> QED
  BY <1>2, <1>3, <1>4, <1>5, <1>6
     DEF Next, Gateway, Closing, Terminated, vars, CheckBegins, Report

ReportTypes == report \in {"none", "pending", "ok", "degraded"}

LEMMA ReportTypesStep == ReportTypes /\ [Next]_vars => ReportTypes'
<1> SUFFICES ASSUME ReportTypes, [Next]_vars PROVE ReportTypes'
  OBVIOUS
<1>1. CASE CheckBegins \/ Report
  BY <1>1 DEF CheckBegins, Report, ReportTypes
<1>2. CASE UNCHANGED report
  BY <1>2 DEF ReportTypes
<1>3. ASSUME NEW s \in Services, Service(s) \/ Asking(s) PROVE UNCHANGED report
  BY <1>3 DEF Service, Asking, Answer, NoAnswer, healthVars
<1> QED
  BY <1>1, <1>2, <1>3
     DEF Next, Gateway, Terminated, vars, healthVars, Connect, Listen, ServeFails, Signal,
         Closing, Drained, ShutdownExpires, CloseClient, GatewayExits

\* Every variable keeps its type: no client is opened twice or closed twice,
\* wherever run stops (main.go:47-128, aggregator.go:38-85).
THEOREM TypeCorrect == Spec => []TypeOK
<1> DEFINE Inv == ExitInv /\ Witnessed /\ GatewayTypes /\ ReportTypes
<1>1. Init => Inv
  <2>1. PICK count \in Nat : count = Cardinality(Services)
    BY ServicesCount
  <2>2. 0 \in 0..Cardinality(Services)
    BY <2>1
  <2>3. Init => GatewayTypes
    BY <2>2 DEF Init, GatewayTypes
  <2> QED
    BY <2>3, ExitInvInit DEF Init, Witnessed, ReportTypes
<1>2. Inv /\ [Next]_vars => Inv'
  BY ExitInvStep, WitnessedStep, GatewayTypesStep, ReportTypesStep
<1>3. Inv => TypeOK
  BY DEF ExitInv, ServiceTypes, Witnessed, GatewayTypes, ReportTypes, TypeOK
<1> QED
  BY <1>1, <1>2, <1>3, PTL DEF Spec

=============================================================================
