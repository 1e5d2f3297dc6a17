---------------------------- MODULE GatewayMain -----------------------------
(***************************************************************************)
(* gateway/__main__.py: the process runs the gateway over the backend that *)
(* OWA_GATEWAY_BACKEND names, the EC2 one (module Gateway) or              *)
(* gateway/fake_backend.py, whose operations are here.  The fake's calls   *)
(* are coroutines that never suspend: no other task runs before they       *)
(* return.  _started_at is kept as its age in ticks, stuck at BootTicks.   *)
(***************************************************************************)
EXTENDS Gateway

CONSTANT BootTicks      \* boot_seconds, in ticks

ASSUME MainAssumption == BootTicks \in Nat

VARIABLES
    backend,        \* the backend of the running process
    startedAt       \* age of _started_at, or None

mainVars == <<gatewayVars, backend, startedAt>>

MainTypeOK ==
    /\ GatewayTypeOK
    /\ backend \in {"fake", "ec2"}
    /\ startedAt \in 0..BootTicks \cup {None}

(* base_url is given to the fake, and found out by the EC2 backend. *)
UrlAtFirst(name) == IF name = "fake" THEN Url ELSE NoUrl

MainInit ==
    /\ ControllerInit
    /\ backend \in {"fake", "ec2"} /\ startedAt = None
    /\ instance = "stopped" /\ vllm = FALSE
    /\ baseUrl = UrlAtFirst(backend) /\ call = "sent"
    /\ http = [c \in Clients |-> "none"]

-----------------------------------------------------------------------------
(* fake_backend.py *)

FakeStarts(c) ==
    /\ StartReturns(c)
    /\ startedAt' = IF startedAt = None THEN 0 ELSE startedAt
    /\ UNCHANGED <<ec2Vars, http>>

FakeStopsInName ==
    /\ StopReturns
    /\ UNCHANGED <<ec2Vars, http, startedAt>>

FakeStops ==
    /\ StopReturns
    /\ startedAt' = None
    /\ UNCHANGED <<ec2Vars, http>>

Booted == startedAt # None /\ startedAt >= BootTicks

FakeFoundHealthy(c) ==
    /\ Booted
    /\ HealthTrue(c)
    /\ Goes(c, "body")
    /\ UNCHANGED <<ec2Vars, startedAt>>

FakeWarmingUp(c) ==
    /\ ~Booted
    /\ HealthFalse(c)
    /\ Goes(c, "503")
    /\ UNCHANGED <<ec2Vars, startedAt>>

(* Requests go to the server at base_url, which the fake does not manage.  *)
OllamaAnswers(c) ==
    /\ http[c] = "post"
    /\ Goes(c, "200")
    /\ UNCHANGED <<controllerVars, ec2Vars>>

-----------------------------------------------------------------------------
(* The tasks of the process, over either backend *)

NobodyRunning == backend = "fake" => InBackendCall = {}

MainArrives(c) == NobodyRunning /\ Arrives(c) /\ UNCHANGED <<backend, startedAt>>

MainUnauthorized(c) ==
    NobodyRunning /\ Unauthorized(c) /\ UNCHANGED <<backend, startedAt>>

FakeHandlerStep(c) ==
    \/ FakeStarts(c) \/ FakeFoundHealthy(c) \/ FakeWarmingUp(c)
    \/ /\ NobodyRunning
       /\ \/ TakesLock(c) \/ FoundReady(c)
          \/ ReadsBody(c) \/ ClientDisconnects(c)
          \/ OllamaAnswers(c) \/ UpstreamFails(c)
       /\ UNCHANGED startedAt

MainHandlerStep(c) ==
    /\ \/ backend = "ec2" /\ HandlerStep(c) /\ UNCHANGED startedAt
       \/ backend = "fake" /\ FakeHandlerStep(c)
    /\ UNCHANGED backend

MainReaperStep ==
    /\ \/ backend = "ec2" /\ ReaperTaskStep /\ UNCHANGED startedAt
       \/ backend = "fake" /\ FakeStops
       \/ backend = "fake" /\ NobodyRunning /\ ReaperRuns /\ UNCHANGED startedAt
    /\ UNCHANGED backend

MainTick ==
    /\ TimePasses
    /\ startedAt' = IF startedAt \in 0..BootTicks - 1 THEN startedAt + 1 ELSE startedAt
    /\ UNCHANGED backend

MainShutsDown == ShutsDown /\ UNCHANGED <<backend, startedAt>>

(* The environment may name another backend next time. *)
Relaunches(name) ==
    /\ ProcessEnds
    /\ backend' = name /\ startedAt' = None
    /\ baseUrl' = UrlAtFirst(name) /\ call' = "sent"
    /\ UNCHANGED <<instance, vllm>>

(* The box goes on by itself, whatever backend looks at it. *)
MainBoxStep == BoxStep /\ UNCHANGED <<backend, startedAt>>

MainNext ==
    \/ \E c \in Clients :
          MainArrives(c) \/ MainUnauthorized(c) \/ MainHandlerStep(c)
    \/ MainReaperStep \/ MainTick \/ MainShutsDown
    \/ \E name \in {"fake", "ec2"} : Relaunches(name)
    \/ MainBoxStep

(* As PersistentGatewaySpec, for either backend. *)
MainSpec ==
    /\ MainInit /\ [][MainNext]_mainVars
    /\ \A c \in Clients : WF_mainVars(MainHandlerStep(c)) /\ WF_mainVars(MainArrives(c))
    /\ WF_mainVars(MainReaperStep)
    /\ WF_mainVars(MainTick)
    /\ WF_mainVars(MainBoxStep)

-----------------------------------------------------------------------------
(* Properties *)

(* What the controller reports is true of the simulated box: READY only of *)
(* one that has booted, STOPPED of none that still counts as started, so   *)
(* that every wake-up pays its cold start again (fake_backend.py 3-9).     *)
FakeIsTrue ==
    backend = "fake" =>
        /\ state = "ready" => Booted
        /\ state = "stopped" => startedAt = None

(* On EC2 READY means serving, also when another backend ran before.       *)
ReadyMeansServing == backend = "ec2" => ReadyIsServing

(* A cold start completes as long as every client keeps asking, on the     *)
(* fake whatever the boot time, on EC2 once the instance is on its way.    *)
EveryColdStartCompletes ==
    state = "starting" /\ (backend = "ec2" => instance \in {"pending", "running"})
        ~> state = "ready" \/ stopEvent
=============================================================================
