------------------------- MODULE GatewayMainProofs --------------------------
(***************************************************************************)
(* Proofs about GatewayMain: over either backend, and over one after the   *)
(* other, the process is a controller as GatewayControllerProofs knows it; *)
(* what it says of the fake is true, for any boot time; and what it says   *)
(* of the EC2 box is true as long as no API call fails.                    *)
(***************************************************************************)
EXTENDS GatewayMain, GatewayProofs

LEMMA FakeHandlerIsController ==
    ASSUME NEW c \in Clients, FakeHandlerStep(c)
    PROVE  ControllerNext \/ UNCHANGED controllerVars
  BY DEF FakeHandlerStep, FakeStarts, FakeFoundHealthy, FakeWarmingUp,
         TakesLock, FoundReady, ReadsBody, ClientDisconnects, OllamaAnswers,
         UpstreamFails, ControllerNext, EnsureReadyStep

LEMMA MainStepIsControllerStep ==
    [MainNext]_mainVars => [ControllerNext]_controllerVars
<1>. SUFFICES ASSUME [MainNext]_mainVars
              PROVE  ControllerNext \/ UNCHANGED controllerVars
  OBVIOUS
<1>1. ASSUME NEW c \in Clients, MainArrives(c) \/ MainUnauthorized(c)
      PROVE  ControllerNext \/ UNCHANGED controllerVars
  BY <1>1 DEF MainArrives, MainUnauthorized, Arrives, Unauthorized, ControllerNext
<1>2. ASSUME NEW c \in Clients, HandlerStep(c)
      PROVE  ControllerNext \/ UNCHANGED controllerVars
  BY <1>2 DEF HandlerStep, TakesLock, FoundReady, BoxStarts, Started,
         StartFailed, Described, FoundHealthy, WarmingUp, ReadsBody,
         ReadsBodyTooLate, ClientDisconnects, UpstreamAnswers, UpstreamFails,
         ControllerNext, EnsureReadyStep
<1>3. ASSUME NEW c \in Clients, MainHandlerStep(c)
      PROVE  ControllerNext \/ UNCHANGED controllerVars
  BY <1>2, <1>3, FakeHandlerIsController DEF MainHandlerStep
<1>4. CASE MainReaperStep
  BY <1>4 DEF MainReaperStep, FakeStops, ReaperTaskStep, ReaperRuns,
         ReaperStopsBox, ReaperStopped, ReaperFailsToStop, ControllerNext,
         ReaperStep
<1>5. CASE MainTick \/ MainShutsDown \/ MainBoxStep
  BY <1>5 DEF MainTick, TimePasses, MainShutsDown, ShutsDown, MainBoxStep,
         BoxStep, ControllerNext
<1>6. ASSUME NEW name \in {"fake", "ec2"}, Relaunches(name)
      PROVE  ControllerNext
  BY <1>6 DEF Relaunches, ProcessEnds, ControllerNext
<1>7. CASE UNCHANGED mainVars
  BY <1>7 DEF mainVars, gatewayVars
<1>. QED
  BY <1>1, <1>3, <1>4, <1>5, <1>6, <1>7 DEF MainNext

(* The process implements GatewayController, whichever backend it runs     *)
(* over (__main__.py 12-34).                                               *)
THEOREM MainImplementsController == MainSpec => ControllerSpec
<1>1. MainInit => ControllerInit
  BY DEF MainInit
<1>. QED
  BY <1>1, MainStepIsControllerStep, PTL DEF MainSpec, ControllerSpec

(* The process that is run, with either backend and from one launch to the *)
(* next, calls it serially, starts the box once per wake-up, and stops it  *)
(* under nobody who was told READY less than the timeout ago (state.py     *)
(* 36-77).                                                                 *)
THEOREM MainHonoursLease ==
    MainSpec => ([]BackendSerial) /\ StartsOnce /\ LeaseHonoured
BY MainImplementsController, BackendCallsSerial, WakeStartsOnce, ControllerHonoursLease, PTL

-----------------------------------------------------------------------------
StartedType == startedAt \in 0..BootTicks \cup {None}

FakeInv == StartedType /\ FakeIsTrue

LEMMA FakeHandlerKeepsInv ==
    ASSUME ControllerInv, FakeInv, NEW c \in Clients, FakeHandlerStep(c),
           UNCHANGED backend
    PROVE  FakeInv'
<1>. USE MainAssumption, ControllerAssumption DEF FakeInv, StartedType, FakeIsTrue, Booted
(* start() is awaited in STARTING only. *)
<1>1. CASE FakeStarts(c)
  BY <1>1 DEF FakeStarts, StartReturns, ControllerInv, CallState
<1>2. CASE FakeFoundHealthy(c)
  BY <1>2 DEF FakeFoundHealthy, HealthTrue, Admit
<1>3. CASE FakeWarmingUp(c)
  BY <1>3 DEF FakeWarmingUp, HealthFalse
<1>4. CASE TakesLock(c) /\ UNCHANGED startedAt
  BY <1>4 DEF TakesLock, FindStopped, FindStarting
<1>5. CASE FoundReady(c) /\ UNCHANGED startedAt
  BY <1>5 DEF FoundReady, FindReady, Admit
<1>6. CASE /\ ReadsBody(c) \/ ClientDisconnects(c) \/ OllamaAnswers(c) \/ UpstreamFails(c)
           /\ UNCHANGED startedAt
  BY <1>6 DEF ReadsBody, ClientDisconnects, OllamaAnswers, UpstreamFails, controllerVars
<1>. QED
  BY <1>1, <1>2, <1>3, <1>4, <1>5, <1>6 DEF FakeHandlerStep

LEMMA FakeInvStep ==
    ASSUME ControllerInv, FakeInv, [MainNext]_mainVars
    PROVE  FakeInv'
<1>. USE MainAssumption, ControllerAssumption DEF FakeInv, StartedType, FakeIsTrue, Booted
<1>1. ASSUME NEW c \in Clients, MainArrives(c) \/ MainUnauthorized(c)
      PROVE  FakeInv'
  BY <1>1 DEF MainArrives, MainUnauthorized, Arrives, Unauthorized,
         EnterEnsureReady, controllerVars
<1>2. ASSUME NEW c \in Clients, MainHandlerStep(c)
      PROVE  FakeInv'
  BY <1>2, FakeHandlerKeepsInv DEF MainHandlerStep
<1>3. CASE MainReaperStep
  <2>1. CASE backend = "ec2" /\ UNCHANGED <<backend, startedAt>>
    BY <2>1
  <2>2. CASE FakeStops /\ UNCHANGED backend
    BY <2>2 DEF FakeStops, StopReturns
  <2>3. CASE ReaperRuns /\ UNCHANGED <<backend, startedAt>>
    BY <2>3 DEF ReaperRuns, ReaperPolls, ReaperFindsIdle, ReaperFindsBusy, ReaperWakes
  <2>. QED
    BY <1>3, <2>1, <2>2, <2>3 DEF MainReaperStep
<1>4. CASE MainTick
  BY <1>4 DEF MainTick, TimePasses, Tick
<1>5. CASE MainShutsDown \/ MainBoxStep
  BY <1>5 DEF MainShutsDown, ShutsDown, Shutdown, MainBoxStep, BoxStep, controllerVars
<1>6. ASSUME NEW name \in {"fake", "ec2"}, Relaunches(name)
      PROVE  FakeInv'
  BY <1>6 DEF Relaunches, ProcessEnds, Restart
<1>7. CASE UNCHANGED mainVars
  BY <1>7 DEF mainVars, gatewayVars, controllerVars
<1>. QED
  BY <1>1, <1>2, <1>3, <1>4, <1>5, <1>6, <1>7 DEF MainNext

(* READY is said only of a fake box that has booted, STOPPED only of one   *)
(* that will have to boot again (fake_backend.py 23-33).                   *)
THEOREM FakeStateIsTrue == MainSpec => []FakeIsTrue
<1>1. MainInit => FakeInv
  BY MainAssumption DEF MainInit, ControllerInit, FakeInv, StartedType, FakeIsTrue
<1>2. FakeInv => FakeIsTrue
  BY DEF FakeInv
<1>. QED
  BY <1>1, <1>2, FakeInvStep, MainImplementsController, ControllerInvariance, PTL
     DEF MainSpec

-----------------------------------------------------------------------------
(* Either backend: the steps are those of module Gateway, the fake's own   *)
(* calls, and the launch of a process.                                     *)

FakeCall ==
    \/ \E c \in Clients :
          FakeStarts(c) \/ FakeFoundHealthy(c) \/ FakeWarmingUp(c) \/ OllamaAnswers(c)
    \/ FakeStops

LEMMA MainStepCases ==
    MainNext =>
        \/ GatewayNext /\ UNCHANGED backend
        \/ FakeCall /\ backend = "fake" /\ UNCHANGED backend
        \/ \E name \in {"fake", "ec2"} : Relaunches(name)
<1>1. ASSUME NEW c \in Clients,
             MainArrives(c) \/ MainUnauthorized(c) \/ MainHandlerStep(c)
      PROVE  \/ GatewayNext /\ UNCHANGED backend
             \/ FakeCall /\ backend = "fake" /\ UNCHANGED backend
  BY <1>1 DEF MainArrives, MainUnauthorized, MainHandlerStep, FakeHandlerStep,
         HandlerStep, GatewayNext, FakeCall
<1>2. MainReaperStep =>
          \/ GatewayNext /\ UNCHANGED backend
          \/ FakeCall /\ backend = "fake" /\ UNCHANGED backend
  BY DEF MainReaperStep, ReaperTaskStep, GatewayNext, FakeCall
<1>3. MainTick \/ MainShutsDown \/ MainBoxStep => GatewayNext /\ UNCHANGED backend
  BY DEF MainTick, MainShutsDown, MainBoxStep, GatewayNext
<1>. QED  BY <1>1, <1>2, <1>3 DEF MainNext

MainTyped ==
    /\ EC2TypeOK /\ HttpType
    /\ backend \in {"fake", "ec2"}

LEMMA MainTypedStep == MainTyped /\ [MainNext]_mainVars => MainTyped'
<1>. SUFFICES ASSUME MainTyped, [MainNext]_mainVars PROVE MainTyped'
  OBVIOUS
<1>. USE DEF MainTyped
<1>1. CASE GatewayNext /\ UNCHANGED backend
  BY <1>1, EC2TypeStep, HttpTypeStep
<1>2. CASE FakeCall /\ UNCHANGED backend
  <2>1. EC2TypeOK'
    BY <1>2 DEF FakeCall, FakeStarts, FakeFoundHealthy, FakeWarmingUp,
           OllamaAnswers, FakeStops, ec2Vars, EC2TypeOK
  <2>2. HttpType'
    BY <1>2 DEF FakeCall, FakeStarts, FakeFoundHealthy, FakeWarmingUp,
           OllamaAnswers, FakeStops, Goes, HttpType, InHandler, Answer
  <2>. QED  BY <1>2, <2>1, <2>2
<1>3. ASSUME NEW name \in {"fake", "ec2"}, Relaunches(name) PROVE MainTyped'
  BY <1>3 DEF Relaunches, ProcessEnds, UrlAtFirst, Outside, EC2TypeOK, HttpType,
         InHandler, Answer
<1>4. CASE UNCHANGED mainVars
  BY <1>4 DEF mainVars, gatewayVars, ec2Vars, EC2TypeOK, HttpType
<1>. QED  BY <1>1, <1>2, <1>3, <1>4, MainStepCases

(* The process keeps its types over either backend, and from one launch to *)
(* the next.                                                               *)
THEOREM MainTypeCorrect == MainSpec => []MainTypeOK
<1>1. MainInit => MainTyped
  BY DEF MainInit, MainTyped, EC2TypeOK, HttpType, Answer, UrlAtFirst
<1>2. MainInit => FakeInv
  BY MainAssumption DEF MainInit, ControllerInit, FakeInv, StartedType, FakeIsTrue
<1>3. MainTyped /\ FakeInv /\ ControllerInv => MainTypeOK
  BY DEF MainTyped, FakeInv, StartedType, ControllerInv, MainTypeOK,
         GatewayTypeOK, HttpType
<1>. QED
  BY <1>1, <1>2, <1>3, MainTypedStep, FakeInvStep, MainImplementsController,
     ControllerInvariance, PTL DEF MainSpec

-----------------------------------------------------------------------------
(* READY on EC2: the box serves until the reaper's own call has taken      *)
(* effect, which the lock keeps anybody from undoing.                      *)
ServingInv ==
    /\ vllm => instance = "running"
    /\ backend = "ec2" /\ state = "ready" /\ ~(reaper = "stop" /\ call = "done")
          => vllm

LEMMA ServingHandler ==
    ASSUME ControllerInv, ServingInv, NEW c \in Clients,
           Unauthorized(c) \/ Arrives(c) \/ HandlerStep(c), UNCHANGED backend
    PROVE  ServingInv'
<1>. USE DEF ServingInv
<1>1. CASE BoxStarts(c)
  BY <1>1 DEF BoxStarts, StartInstances, PowerOn, controllerVars, ControllerInv,
         CallState
<1>2. CASE Started(c) \/ StartFailed(c)
  BY <1>2 DEF Started, StartFailed, StartReturns, StartRaises,
         StartInstancesReturns, StartInstancesRaises, ControllerInv, CallState
<1>3. CASE Described(c) \/ WarmingUp(c)
  BY <1>3 DEF Described, WarmingUp, HealthFalse, DescribeRunning,
         DescribeNotRunning, HealthDoesNotAnswer, controllerVars, ec2Vars,
         ControllerInv, CallState
<1>4. CASE FoundHealthy(c)
  BY <1>4 DEF FoundHealthy, HealthAnswers
<1>5. CASE TakesLock(c) \/ FoundReady(c)
  BY <1>5 DEF TakesLock, FindStopped, FindStarting, FoundReady, FindReady, Admit,
         ec2Vars
<1>6. CASE \/ Unauthorized(c) \/ Arrives(c)
           \/ ReadsBody(c) \/ ReadsBodyTooLate(c) \/ ClientDisconnects(c)
           \/ UpstreamAnswers(c) \/ UpstreamFails(c)
  BY <1>6 DEF Unauthorized, Arrives, EnterEnsureReady, ReadsBody,
         ReadsBodyTooLate, ClientDisconnects, UpstreamAnswers, UpstreamFails,
         controllerVars, taskVars, ec2Vars
<1>. QED  BY <1>1, <1>2, <1>3, <1>4, <1>5, <1>6 DEF HandlerStep

LEMMA ServingReaper ==
    ASSUME ServingInv, "aws" \notin Faults, ReaperTaskStep, UNCHANGED backend
    PROVE  ServingInv'
<1>. USE DEF ServingInv
<1>1. CASE ReaperRuns
  BY <1>1 DEF ReaperRuns, ReaperPolls, ReaperFindsIdle, ReaperFindsBusy,
         ReaperWakes, ec2Vars
<1>2. CASE ReaperStopsBox
  BY <1>2 DEF ReaperStopsBox, StopInstances, PowerOff, controllerVars, taskVars
<1>3. CASE ReaperStopped
  BY <1>3 DEF ReaperStopped, StopReturns, StopInstancesReturns
<1>4. ~ReaperFailsToStop
  BY DEF ReaperFailsToStop, StopInstancesRaises
<1>. QED  BY <1>1, <1>2, <1>3, <1>4 DEF ReaperTaskStep

LEMMA ServingInvStep ==
    ASSUME ControllerInv, ServingInv, "aws" \notin Faults, [MainNext]_mainVars
    PROVE  ServingInv'
<1>. USE DEF ServingInv
<1>1. ASSUME NEW c \in Clients, MainArrives(c) \/ MainUnauthorized(c)
      PROVE  ServingInv'
  BY <1>1, ServingHandler DEF MainArrives, MainUnauthorized
<1>2. ASSUME NEW c \in Clients, MainHandlerStep(c), backend = "ec2"
      PROVE  ServingInv'
  BY <1>2, ServingHandler DEF MainHandlerStep
<1>3. ASSUME NEW c \in Clients, FakeHandlerStep(c), backend' = backend, backend = "fake"
      PROVE  ServingInv'
  BY <1>3 DEF FakeHandlerStep, FakeStarts, FakeFoundHealthy, FakeWarmingUp,
         TakesLock, FoundReady, ReadsBody, ClientDisconnects, OllamaAnswers,
         UpstreamFails, ec2Vars
<1>4. CASE MainReaperStep
  BY <1>4, ServingReaper DEF MainReaperStep, FakeStops, ReaperRuns, ec2Vars
<1>5. CASE MainTick \/ MainShutsDown
  BY <1>5 DEF MainTick, TimePasses, Tick, MainShutsDown, ShutsDown, Shutdown,
         taskVars, ec2Vars
<1>6. CASE MainBoxStep
  BY <1>6 DEF MainBoxStep, BoxStep, Boots, LoadsModel, Halts, controllerVars, taskVars
<1>7. ASSUME NEW name \in {"fake", "ec2"}, Relaunches(name)
      PROVE  ServingInv'
  BY <1>7 DEF Relaunches, ProcessEnds, Restart
<1>8. CASE UNCHANGED mainVars
  BY <1>8 DEF mainVars, gatewayVars, controllerVars, taskVars, ec2Vars
<1>. QED
  BY <1>1, <1>2, <1>3, <1>4, <1>5, <1>6, <1>7, <1>8 DEF MainNext, MainHandlerStep

(* On EC2 a READY gateway has a serving box, through crashes and launches  *)
(* with either backend, for a box that nothing disturbs (MainNext has no   *)
(* BoxFault) and an API whose calls do not raise: stop() raising after its *)
(* effect leaves READY behind.                                             *)
THEOREM ReadyBoxServes ==
    ASSUME "aws" \notin Faults
    PROVE  MainSpec => []ReadyMeansServing
<1>1. MainInit => ServingInv
  BY DEF MainInit, ControllerInit, ServingInv
<1>2. ServingInv => ReadyMeansServing
  BY DEF ServingInv, ReadyMeansServing, ReadyIsServing
<1>3. ControllerInv /\ ServingInv /\ [MainNext]_mainVars => ServingInv'
  BY ServingInvStep
<1>. QED
  BY <1>1, <1>2, <1>3, MainImplementsController, ControllerInvariance, PTL
     DEF MainSpec
=============================================================================
