------------------------------ MODULE Gateway -------------------------------
(***************************************************************************)
(* The gateway process: the requests of gateway/app.py, the controller and *)
(* reaper of gateway/state.py (GatewayController) and the EC2 backend with *)
(* its instance (EC2Backend).  Every step of the controller is taken       *)
(* together with the backend call it awaited, so this module implements    *)
(* GatewayController by construction and adds what is promised to the      *)
(* clients of the proxy and to whoever pays for the box.                   *)
(***************************************************************************)
EXTENDS GatewayController, EC2Backend

VARIABLE http       \* http[c]: where c's request is, or its last answer

gatewayVars == <<controllerVars, ec2Vars, http>>

InHandler == {"ensure", "body", "post"}
Answer == {"none", "200", "401", "500", "503"}

GatewayTypeOK ==
    /\ ControllerTypeOK
    /\ EC2TypeOK
    /\ http \in [Clients -> InHandler \cup Answer]

GatewayInit ==
    /\ ControllerInit
    /\ EC2Init
    /\ http = [c \in Clients |-> "none"]

Outside(c) == http[c] \in Answer

Goes(c, where) == http' = [http EXCEPT ![c] = where]

-----------------------------------------------------------------------------
(* POST /v1/chat/completions, up to ensure_ready() *)

Unauthorized(c) ==
    /\ Outside(c) /\ ~stopEvent
    /\ Goes(c, "401")
    /\ UNCHANGED <<controllerVars, ec2Vars>>

Arrives(c) ==
    /\ Outside(c)
    /\ EnterEnsureReady(c)
    /\ Goes(c, "ensure")
    /\ UNCHANGED ec2Vars

TakesLock(c) ==
    /\ FindStopped(c) \/ FindStarting(c)
    /\ UNCHANGED <<ec2Vars, http>>

FoundReady(c) ==
    /\ FindReady(c)
    /\ Goes(c, "body")
    /\ UNCHANGED ec2Vars

BoxStarts(c) ==
    /\ task[c] = "start"
    /\ StartInstances
    /\ UNCHANGED <<controllerVars, http>>

Started(c) ==
    /\ StartReturns(c)
    /\ StartInstancesReturns
    /\ UNCHANGED http

StartFailed(c) ==
    /\ StartRaises(c)
    /\ StartInstancesRaises
    /\ Goes(c, "500")

Described(c) ==
    /\ task[c] = "health"
    /\ DescribeRunning
    /\ UNCHANGED <<controllerVars, http>>

FoundHealthy(c) ==
    /\ HealthTrue(c)
    /\ HealthAnswers
    /\ Goes(c, "body")

WarmingUp(c) ==
    /\ HealthFalse(c)
    /\ DescribeNotRunning \/ HealthDoesNotAnswer
    /\ Goes(c, "503")

-----------------------------------------------------------------------------
(* POST /v1/chat/completions, after ensure_ready() returned True *)

ReadsBody(c) ==
    /\ http[c] = "body"
    /\ baseUrl # NoUrl
    /\ Goes(c, "post")
    /\ UNCHANGED <<controllerVars, ec2Vars>>

(* base_url was cleared while the body came in: httpx refuses the URL. *)
ReadsBodyTooLate(c) ==
    /\ http[c] = "body"
    /\ baseUrl = NoUrl
    /\ Goes(c, "500")
    /\ UNCHANGED <<controllerVars, ec2Vars>>

ClientDisconnects(c) ==
    /\ http[c] = "body"
    /\ Goes(c, "none")
    /\ UNCHANGED <<controllerVars, ec2Vars>>

UpstreamAnswers(c) ==
    /\ http[c] = "post"
    /\ vllm
    /\ Goes(c, "200")
    /\ UNCHANGED <<controllerVars, ec2Vars>>

(* The box is gone, or httpx's default timeout is over. *)
UpstreamFails(c) ==
    /\ http[c] = "post"
    /\ Goes(c, "500")
    /\ UNCHANGED <<controllerVars, ec2Vars>>

-----------------------------------------------------------------------------
(* The reaper task, the process and its environment *)

ReaperRuns ==
    /\ ReaperPolls \/ ReaperFindsIdle \/ ReaperFindsBusy \/ ReaperWakes
    /\ UNCHANGED <<ec2Vars, http>>

ReaperStopsBox ==
    /\ reaper = "stop"
    /\ StopInstances
    /\ UNCHANGED <<controllerVars, http>>

ReaperStopped ==
    /\ StopReturns
    /\ StopInstancesReturns
    /\ UNCHANGED http

ReaperFailsToStop ==
    /\ StopRaises
    /\ StopInstancesRaises
    /\ UNCHANGED http

TimePasses == Tick /\ UNCHANGED <<ec2Vars, http>>

(* uvicorn lets every request finish before it ends the lifespan. *)
ShutsDown ==
    /\ \A c \in Clients : Outside(c)
    /\ Shutdown
    /\ UNCHANGED <<ec2Vars, http>>

(* After a shutdown the process ends when the reaper task has; a crash     *)
(* ends it anywhere and resets the connections.                            *)
ProcessEnds ==
    /\ "crash" \in Faults \/ (stopEvent /\ reaper \in {"exited", "dead"})
    /\ Restart
    /\ http' = [c \in Clients |-> IF Outside(c) THEN http[c] ELSE "none"]

RestartsProcess == ProcessEnds /\ NewBackend

BoxStep ==
    /\ Boots \/ LoadsModel \/ Halts
    /\ UNCHANGED <<controllerVars, http>>

BoxFault ==
    /\ VllmFails \/ Backstop
    /\ UNCHANGED <<controllerVars, http>>

-----------------------------------------------------------------------------
HandlerStep(c) ==
    \/ TakesLock(c) \/ FoundReady(c)
    \/ BoxStarts(c) \/ Started(c) \/ StartFailed(c)
    \/ Described(c) \/ FoundHealthy(c) \/ WarmingUp(c)
    \/ ReadsBody(c) \/ ReadsBodyTooLate(c) \/ ClientDisconnects(c)
    \/ UpstreamAnswers(c) \/ UpstreamFails(c)

ReaperTaskStep ==
    ReaperRuns \/ ReaperStopsBox \/ ReaperStopped \/ ReaperFailsToStop

GatewayNext ==
    \/ \E c \in Clients : Unauthorized(c) \/ Arrives(c) \/ HandlerStep(c)
    \/ ReaperTaskStep
    \/ TimePasses \/ ShutsDown \/ RestartsProcess
    \/ BoxStep \/ BoxFault

GatewaySpec == GatewayInit /\ [][GatewayNext]_gatewayVars

(* The event loop runs what can run, every await of the handler ends (the  *)
(* body arrives or its client goes away, httpx has timeouts), time passes, *)
(* and EC2 finishes the transitions it began.  No request need ever come.  *)
GatewayFairness ==
    /\ \A c \in Clients : WF_gatewayVars(HandlerStep(c))
    /\ WF_gatewayVars(ReaperTaskStep)
    /\ WF_gatewayVars(TimePasses)
    /\ WF_gatewayVars(BoxStep)

FairGatewaySpec == GatewaySpec /\ GatewayFairness

(* The client does what a 503 with Retry-After asks for: it comes back. *)
PersistentGatewaySpec ==
    FairGatewaySpec /\ \A c \in Clients : WF_gatewayVars(Arrives(c))

-----------------------------------------------------------------------------
(* Properties *)

(* READY is never reported before is_healthy() has found the address that  *)
(* requests are proxied to, and an instance that is still booting is never *)
(* taken for READY (ec2_backend.py 62-70, state.py 59-62).                 *)
ReadyHasAddress == state = "ready" => baseUrl = Url /\ instance # "pending"

(* When a process that has commanded the box says STOPPED, the box is off  *)
(* or on its way: stop() failing is not mistaken for a stop, and no later  *)
(* start() is forgotten (state.py 55-57 and 75-76).                        *)
StoppedMeansOff ==
    state = "stopped" /\ command # "none" => instance \in {"stopping", "stopped"}

(* app.py reads base_url only after `await request.body()`.  The reaper    *)
(* may have cleared it meanwhile, but only for a request whose body took   *)
(* longer to arrive than idle_timeout_seconds.                             *)
AddressWhileLeased ==
    \A c \in Clients : http[c] = "body" /\ lease[c] > 0 => baseUrl = Url

(* A box that nothing disturbs is serving whenever the gateway says READY  *)
(* and is not just stopping it (README 67: "only starts serving once the   *)
(* model is actually ready").                                              *)
ReadyIsServing ==
    state = "ready" /\ reaper # "stop" => instance = "running" /\ vllm

(* Every request gets an answer or loses its connection, whatever fails    *)
(* around it; README 66: not "hanging or timing out silently".             *)
EveryRequestAnswered == \A c \in Clients : ~Outside(c) ~> Outside(c)

(* When requests stop coming, the gateway does not go on holding a READY   *)
(* box (README 35: "stops it after an idle timeout").  A gateway that is   *)
(* itself shutting down leaves the box as it is, and so does one whose     *)
(* stop() has raised.                                                      *)
ReadyBoxGivenUp ==
    <>[](\A c \in Clients : Outside(c))
        => <>[](state # "ready" \/ stopEvent \/ reaper = "dead")

-----------------------------------------------------------------------------
(* What the documentation says and the code does not do *)

(* state.py 49 "Wake the backend if needed. Returns True once ready" and   *)
(* README 35 "wakes the GPU on the first request": a wake-up ends in READY *)
(* when the clients keep asking.  start() raising leaves STARTING behind,  *)
(* from which start() is never called again.                               *)
WakeSucceeds == state = "starting" ~> state = "ready" \/ stopEvent

(* README 35 "stops it after an idle timeout": a box that was woken and    *)
(* then left alone is stopped again.  The reaper only looks at READY.      *)
AbandonedStartReaped ==
    <>[](\A c \in Clients : Outside(c)) => []<>(state # "starting" \/ stopEvent)

(* README 35 "wakes the GPU on the first request": when the nightly stop   *)
(* took the box away, clients that keep asking get it woken again.  READY  *)
(* is never checked against the box.                                       *)
BackstoppedBoxWoken ==
    state = "ready" /\ instance = "stopped"
        ~> state # "ready" \/ instance # "stopped" \/ stopEvent

(* README 60 counts "an idle reaper inside the gateway" among the "hard    *)
(* backstops against a forgotten GPU": an API error does not disarm it.    *)
(* The exception out of stop() ends the reaper task and nobody starts      *)
(* another.                                                                *)
BoxGivenUpAfterErrors ==
    <>[](\A c \in Clients : Outside(c)) => <>[](state # "ready" \/ stopEvent)
=============================================================================
