--------------------------- MODULE GatewayProofs ----------------------------
(***************************************************************************)
(* Proofs about Gateway, for any set of clients, any idle timeout and any  *)
(* combination of faults.  What GatewayControllerProofs shows of the       *)
(* controller over any backend is carried over by refinement; the rest is  *)
(* about the backend's calls and the box.                                  *)
(***************************************************************************)
EXTENDS Gateway, GatewayControllerProofs

Off == {"stopping", "stopped"}

(* How far a backend call is, and what it has found or done by then. *)
CallPhase ==
    /\ InBackendCall = {} => call = "sent"
    /\ call = "get" => baseUrl = Url /\ instance # "pending"
    /\ reaper = "stop" /\ call = "done" => instance \in Off

LeaseMeansReady == \A c \in Clients : lease[c] > 0 => state = "ready"

HttpType == http \in [Clients -> InHandler \cup Answer]

GatewayInv ==
    /\ ControllerInv
    /\ EC2TypeOK
    /\ HttpType
    /\ CallPhase
    /\ ReadyHasAddress
    /\ StoppedMeansOff
    /\ LeaseMeansReady

-----------------------------------------------------------------------------
(* Refinement of the controller *)

LEMMA GatewayStepIsControllerStep ==
    [GatewayNext]_gatewayVars => [ControllerNext]_controllerVars
<1>. SUFFICES ASSUME [GatewayNext]_gatewayVars
              PROVE  [ControllerNext]_controllerVars
  OBVIOUS
<1>1. ASSUME NEW c \in Clients, Unauthorized(c) \/ Arrives(c) \/ HandlerStep(c)
      PROVE  ControllerNext \/ UNCHANGED controllerVars
  BY <1>1 DEF Unauthorized, Arrives, HandlerStep, TakesLock, FoundReady,
          BoxStarts, Started, StartFailed, Described, FoundHealthy, WarmingUp,
          ReadsBody, ReadsBodyTooLate, ClientDisconnects, UpstreamAnswers,
          UpstreamFails, ControllerNext, EnsureReadyStep
<1>2. CASE ReaperTaskStep
  BY <1>2 DEF ReaperTaskStep, ReaperRuns, ReaperStopsBox, ReaperStopped,
          ReaperFailsToStop, ControllerNext, ReaperStep
<1>3. CASE TimePasses \/ ShutsDown \/ RestartsProcess \/ BoxStep \/ BoxFault
  BY <1>3 DEF TimePasses, ShutsDown, RestartsProcess, ProcessEnds, BoxStep, BoxFault,
          ControllerNext
<1>4. CASE UNCHANGED gatewayVars
  BY <1>4 DEF gatewayVars
<1>. QED
  BY <1>1, <1>2, <1>3, <1>4 DEF GatewayNext

(* The composition is a controller over one particular backend, so that    *)
(* what was proved for any backend holds of it.                            *)
THEOREM GatewayImplementsController == GatewaySpec => ControllerSpec
<1>1. GatewayInit => ControllerInit
  BY DEF GatewayInit
<1>. QED
  BY <1>1, GatewayStepIsControllerStep, PTL DEF GatewaySpec, ControllerSpec

-----------------------------------------------------------------------------
(* Types *)

LEMMA EC2TypeStep ==
    ASSUME EC2TypeOK, GatewayNext
    PROVE  EC2TypeOK'
<1>. USE DEF EC2TypeOK
<1>1. ASSUME NEW c \in Clients, Unauthorized(c) \/ Arrives(c) \/ HandlerStep(c)
      PROVE  EC2TypeOK'
  <2>1. CASE BoxStarts(c) \/ Started(c) \/ StartFailed(c)
    BY <2>1 DEF BoxStarts, Started, StartFailed, StartInstances, PowerOn,
            StartInstancesReturns, StartInstancesRaises
  <2>2. CASE Described(c) \/ FoundHealthy(c) \/ WarmingUp(c)
    BY <2>2 DEF Described, FoundHealthy, WarmingUp, DescribeRunning,
            DescribeNotRunning, HealthAnswers, HealthDoesNotAnswer, ec2Vars
  <2>3. ASSUME UNCHANGED ec2Vars
        PROVE  EC2TypeOK'
    BY <2>3 DEF ec2Vars
  <2>. QED
    BY <1>1, <2>1, <2>2, <2>3 DEF Unauthorized, Arrives, HandlerStep, TakesLock,
            FoundReady, ReadsBody, ReadsBodyTooLate, ClientDisconnects,
            UpstreamAnswers, UpstreamFails
<1>2. CASE ReaperTaskStep
  BY <1>2 DEF ReaperTaskStep, ReaperRuns, ReaperStopsBox, ReaperStopped,
          ReaperFailsToStop, StopInstances, PowerOff, StopInstancesReturns,
          StopInstancesRaises, ec2Vars
<1>3. CASE TimePasses \/ ShutsDown \/ RestartsProcess
  BY <1>3 DEF TimePasses, ShutsDown, RestartsProcess, ProcessEnds, NewBackend, ec2Vars
<1>4. CASE BoxStep \/ BoxFault
  BY <1>4 DEF BoxStep, BoxFault, Boots, LoadsModel, Halts, VllmFails, Backstop,
          PowerOff
<1>. QED
  BY <1>1, <1>2, <1>3, <1>4 DEF GatewayNext

LEMMA HttpTypeStep ==
    ASSUME HttpType, GatewayNext
    PROVE  HttpType'
<1>. USE DEF HttpType, InHandler, Answer
<1>1. ASSUME NEW c \in Clients, Unauthorized(c) \/ Arrives(c) \/ HandlerStep(c)
      PROVE  HttpType'
  BY <1>1 DEF Goes, Unauthorized, Arrives, HandlerStep, TakesLock, FoundReady,
          BoxStarts, Started, StartFailed, Described, FoundHealthy, WarmingUp,
          ReadsBody, ReadsBodyTooLate, ClientDisconnects, UpstreamAnswers,
          UpstreamFails
<1>2. CASE RestartsProcess
  BY <1>2 DEF RestartsProcess, ProcessEnds, Outside
<1>3. CASE ReaperTaskStep \/ TimePasses \/ ShutsDown \/ BoxStep \/ BoxFault
  BY <1>3 DEF ReaperTaskStep, ReaperRuns, ReaperStopsBox, ReaperStopped,
          ReaperFailsToStop, TimePasses, ShutsDown, BoxStep, BoxFault
<1>. QED
  BY <1>1, <1>2, <1>3 DEF GatewayNext

-----------------------------------------------------------------------------
(* A call is begun when none is under way, and ends where it began.  This  *)
(* is where the lock of the controller protects the backend's variables.   *)
LEMMA CallPhaseStep ==
    ASSUME ControllerInv, EC2TypeOK, CallPhase, ReadyHasAddress, GatewayNext
    PROVE  CallPhase'
<1>. USE ControllerAssumption DEF CallPhase, InBackendCall
<1>t. task \in [Clients -> {"out", "lock", "start", "health"}]
  BY DEF ControllerInv, ControllerTypeOK
<1>c. CallHoldsLock
  BY DEF ControllerInv
<1>1. ASSUME NEW c \in Clients, Unauthorized(c) \/ Arrives(c)
      PROVE  CallPhase'
  BY <1>1, <1>t DEF Unauthorized, Arrives, EnterEnsureReady, controllerVars,
          taskVars, ec2Vars
<1>2. ASSUME NEW c \in Clients, TakesLock(c)
      PROVE  CallPhase'
  <2>1. InBackendCall \subseteq {c} /\ task[c] = "lock"
    BY <1>2, <1>c, OnlyHolderCalls DEF TakesLock, FindStopped, FindStarting
  <2>. QED
    BY <1>2, <2>1, <1>t DEF TakesLock, FindStopped, FindStarting, ec2Vars
<1>3. ASSUME NEW c \in Clients, FoundReady(c)
      PROVE  CallPhase'
  <2>1. InBackendCall \subseteq {c} /\ task[c] = "lock"
    BY <1>3, <1>c, OnlyHolderCalls DEF FoundReady, FindReady
  <2>. QED
    BY <1>3, <2>1, <1>t DEF FoundReady, FindReady, Admit, ec2Vars
<1>4. ASSUME NEW c \in Clients, c \in InBackendCall
      PROVE  reaper # "stop"
  BY <1>4, <1>c DEF CallHoldsLock, Holds
<1>5. ASSUME NEW c \in Clients, BoxStarts(c)
      PROVE  CallPhase'
  BY <1>4, <1>5 DEF BoxStarts, StartInstances, controllerVars, taskVars
<1>6. ASSUME NEW c \in Clients, Started(c) \/ StartFailed(c)
      PROVE  CallPhase'
  BY <1>6, <1>t DEF Started, StartFailed, StartReturns, StartRaises,
          StartInstancesReturns, StartInstancesRaises
<1>7. ASSUME NEW c \in Clients, Described(c)
      PROVE  CallPhase'
  BY <1>7 DEF Described, DescribeRunning, controllerVars, taskVars
<1>8. ASSUME NEW c \in Clients, FoundHealthy(c) \/ WarmingUp(c)
      PROVE  CallPhase'
  <2>1. call' = "sent" /\ UNCHANGED <<instance, baseUrl>>
    BY <1>8 DEF FoundHealthy, WarmingUp, HealthAnswers, HealthDoesNotAnswer,
            DescribeNotRunning, ec2Vars
  <2>. QED
    BY <2>1
<1>9. ASSUME NEW c \in Clients,
             \/ ReadsBody(c) \/ ReadsBodyTooLate(c) \/ ClientDisconnects(c)
             \/ UpstreamAnswers(c) \/ UpstreamFails(c)
      PROVE  CallPhase'
  BY <1>9 DEF ReadsBody, ReadsBodyTooLate, ClientDisconnects, UpstreamAnswers,
          UpstreamFails, controllerVars, taskVars, ec2Vars
<1>10. CASE ReaperRuns
  <2>1. CASE ReaperFindsIdle
    <3>1. InBackendCall \subseteq {Reaper} /\ reaper = "lock"
      BY <2>1, <1>c, OnlyHolderCalls DEF ReaperFindsIdle
    <3>. QED
      BY <1>10, <2>1, <3>1 DEF ReaperRuns, ReaperFindsIdle, ec2Vars
  <2>2. CASE ReaperPolls \/ ReaperFindsBusy \/ ReaperWakes
    BY <1>10, <2>2 DEF ReaperRuns, ReaperPolls, ReaperFindsBusy, ReaperWakes,
            ec2Vars
  <2>. QED
    BY <1>10, <2>1, <2>2 DEF ReaperRuns
<1>11. CASE ReaperStopsBox
  <2>1. state = "ready"
    BY <1>11 DEF ReaperStopsBox, ControllerInv, CallState
  <2>2. instance' \in Off
    BY <1>11, <2>1 DEF ReaperStopsBox, StopInstances, PowerOff,
            ReadyHasAddress, EC2TypeOK, Off
  <2>. QED
    BY <1>11, <2>2 DEF ReaperStopsBox, StopInstances, controllerVars, taskVars
<1>12. CASE ReaperStopped \/ ReaperFailsToStop
  BY <1>12 DEF ReaperStopped, ReaperFailsToStop, StopInstancesReturns,
          StopInstancesRaises
<1>13. CASE TimePasses \/ ShutsDown
  BY <1>13 DEF TimePasses, ShutsDown, Tick, Shutdown, taskVars, ec2Vars
<1>14. CASE RestartsProcess
  BY <1>14 DEF RestartsProcess, ProcessEnds, NewBackend
<1>15. CASE BoxStep \/ BoxFault
  BY <1>15 DEF BoxStep, BoxFault, Boots, LoadsModel, Halts, VllmFails, Backstop,
          PowerOff, controllerVars, taskVars, Off
<1>. QED
  BY <1>1, <1>2, <1>3, <1>5, <1>6, <1>7, <1>8, <1>9, <1>10, <1>11, <1>12,
     <1>13, <1>14, <1>15 DEF GatewayNext, HandlerStep, ReaperTaskStep

-----------------------------------------------------------------------------
(* READY is entered with what is_healthy() found, and left before the URL  *)
(* is cleared.                                                             *)
LEMMA ReadyHasAddressStep ==
    ASSUME ControllerInv, CallPhase, ReadyHasAddress, GatewayNext
    PROVE  ReadyHasAddress'
<1>. USE DEF ReadyHasAddress
<1>1. ASSUME NEW c \in Clients, FoundHealthy(c)
      PROVE  ReadyHasAddress'
  BY <1>1 DEF FoundHealthy, HealthAnswers, CallPhase
<1>2. ASSUME NEW c \in Clients, FoundReady(c)
      PROVE  ReadyHasAddress'
  BY <1>2 DEF FoundReady, FindReady, ec2Vars
<1>3. ASSUME NEW c \in Clients, BoxStarts(c)
      PROVE  ReadyHasAddress'
  BY <1>3 DEF BoxStarts, ControllerInv, CallState, controllerVars
<1>4. ASSUME NEW c \in Clients, TakesLock(c) \/ Started(c) \/ StartFailed(c)
                                    \/ Described(c) \/ WarmingUp(c)
      PROVE  ReadyHasAddress'
  <2>1. instance' = instance /\ (baseUrl' = baseUrl \/ baseUrl' = Url)
    BY <1>4 DEF TakesLock, Started, StartFailed, Described, WarmingUp, ec2Vars,
            StartInstancesReturns, StartInstancesRaises, DescribeRunning,
            DescribeNotRunning, HealthDoesNotAnswer
  <2>2. state' = "ready" => state = "ready"
    BY <1>4 DEF TakesLock, FindStopped, FindStarting, Started, StartReturns,
            StartFailed, StartRaises, Described, WarmingUp, HealthFalse,
            controllerVars
  <2>. QED
    BY <2>1, <2>2
<1>5. ASSUME NEW c \in Clients,
             \/ Unauthorized(c) \/ Arrives(c)
             \/ ReadsBody(c) \/ ReadsBodyTooLate(c) \/ ClientDisconnects(c)
             \/ UpstreamAnswers(c) \/ UpstreamFails(c)
      PROVE  ReadyHasAddress'
  BY <1>5 DEF Unauthorized, Arrives, EnterEnsureReady, ReadsBody,
          ReadsBodyTooLate, ClientDisconnects, UpstreamAnswers, UpstreamFails,
          controllerVars, ec2Vars
<1>6. CASE ReaperRuns
  BY <1>6 DEF ReaperRuns, ReaperPolls, ReaperFindsIdle, ReaperFindsBusy,
          ReaperWakes, ec2Vars
<1>7. CASE ReaperStopsBox \/ ReaperStopped \/ ReaperFailsToStop
  BY <1>7 DEF ReaperStopsBox, ReaperStopped, ReaperFailsToStop, StopInstances,
          PowerOff, StopReturns, StopRaises, StopInstancesRaises,
          controllerVars
<1>8. CASE TimePasses \/ ShutsDown \/ RestartsProcess
  BY <1>8 DEF TimePasses, ShutsDown, RestartsProcess, ProcessEnds, Tick, Shutdown, Restart,
          ec2Vars
<1>9. CASE BoxStep \/ BoxFault
  BY <1>9 DEF BoxStep, BoxFault, Boots, LoadsModel, Halts, VllmFails, Backstop,
          PowerOff, controllerVars
<1>. QED
  BY <1>1, <1>2, <1>3, <1>4, <1>5, <1>6, <1>7, <1>8, <1>9
     DEF GatewayNext, HandlerStep, ReaperTaskStep

(* STOPPED is entered when stop() returned, and nothing powers the box on  *)
(* while the state stays STOPPED.                                          *)
LEMMA StoppedMeansOffStep ==
    ASSUME ControllerInv, CallPhase, StoppedMeansOff, GatewayNext
    PROVE  StoppedMeansOff'
<1>. USE DEF StoppedMeansOff, Off
<1>1. CASE ReaperStopped
  BY <1>1 DEF ReaperStopped, StopReturns, StopInstancesReturns, CallPhase
<1>2. CASE RestartsProcess
  BY <1>2 DEF RestartsProcess, ProcessEnds, Restart
<1>3. ASSUME NEW c \in Clients, HandlerStep(c) \/ Unauthorized(c) \/ Arrives(c)
      PROVE  StoppedMeansOff'
  <2>1. CASE BoxStarts(c) \/ Started(c) \/ StartFailed(c)
    <3>1. state = "starting"
      BY <2>1 DEF BoxStarts, Started, StartReturns, StartFailed, StartRaises,
              ControllerInv, CallState
    <3>. QED
      BY <2>1, <3>1 DEF BoxStarts, Started, StartReturns, StartFailed,
              StartRaises, controllerVars
  <2>2. CASE Described(c) \/ WarmingUp(c)
    BY <2>2 DEF Described, WarmingUp, HealthFalse, controllerVars, ec2Vars,
            DescribeRunning, DescribeNotRunning, HealthDoesNotAnswer
  <2>3. CASE TakesLock(c) \/ FoundReady(c) \/ FoundHealthy(c)
    BY <2>3 DEF TakesLock, FindStopped, FindStarting, FoundReady, FindReady,
            FoundHealthy, HealthTrue, Admit, ec2Vars
  <2>4. CASE \/ Unauthorized(c) \/ Arrives(c)
             \/ ReadsBody(c) \/ ReadsBodyTooLate(c) \/ ClientDisconnects(c)
             \/ UpstreamAnswers(c) \/ UpstreamFails(c)
    BY <2>4 DEF Unauthorized, Arrives, EnterEnsureReady, ReadsBody,
            ReadsBodyTooLate, ClientDisconnects, UpstreamAnswers,
            UpstreamFails, controllerVars, ec2Vars
  <2>. QED
    BY <1>3, <2>1, <2>2, <2>3, <2>4 DEF HandlerStep
<1>4. CASE ReaperRuns
  BY <1>4 DEF ReaperRuns, ReaperPolls, ReaperFindsIdle, ReaperFindsBusy,
          ReaperWakes, ec2Vars
<1>5. CASE ReaperStopsBox \/ ReaperFailsToStop
  BY <1>5 DEF ReaperStopsBox, ReaperFailsToStop, StopRaises, ControllerInv,
          CallState, controllerVars
<1>6. CASE TimePasses \/ ShutsDown
  BY <1>6 DEF TimePasses, ShutsDown, Tick, Shutdown, ec2Vars
<1>7. CASE BoxStep \/ BoxFault
  BY <1>7 DEF BoxStep, BoxFault, Boots, LoadsModel, Halts, VllmFails, Backstop,
          PowerOff, controllerVars
<1>. QED
  BY <1>1, <1>2, <1>3, <1>4, <1>5, <1>6, <1>7 DEF GatewayNext, ReaperTaskStep

(* A lease runs only while the state is READY: the reaper waits for every  *)
(* lease to end before it leaves READY.                                    *)
LEMMA LeaseMeansReadyStep ==
    ASSUME ControllerInv, LeaseMeansReady, [ControllerNext]_controllerVars
    PROVE  LeaseMeansReady'
<1>. USE ControllerAssumption
<1>l. lease \in [Clients -> 0..IdleTimeout]
  BY DEF ControllerInv, ControllerTypeOK
<1>1. ASSUME NEW c \in Clients, FindReady(c) \/ HealthTrue(c)
      PROVE  LeaseMeansReady'
  BY <1>1 DEF LeaseMeansReady, FindReady, HealthTrue, Admit
<1>2. ASSUME NEW c \in Clients, FindStopped(c)
      PROVE  LeaseMeansReady'
  BY <1>2 DEF LeaseMeansReady, FindStopped
<1>3. CASE StopReturns
  <2>1. \A c \in Clients : lease[c] <= 0
    BY <1>3, <1>l DEF StopReturns, ControllerInv, CallState, LeaseBound
  <2>. QED
    BY <1>3, <1>l, <2>1 DEF LeaseMeansReady, StopReturns
<1>4. CASE Tick
  BY <1>4, <1>l DEF LeaseMeansReady, Tick
<1>5. CASE Restart
  BY <1>5 DEF LeaseMeansReady, Restart
<1>6. ASSUME NEW c \in Clients,
             \/ EnterEnsureReady(c) \/ FindStarting(c)
             \/ StartReturns(c) \/ StartRaises(c) \/ HealthFalse(c)
      PROVE  LeaseMeansReady'
  BY <1>6 DEF LeaseMeansReady, EnterEnsureReady, FindStarting, StartReturns,
          StartRaises, HealthFalse
<1>7. CASE \/ ReaperPolls \/ ReaperFindsIdle \/ ReaperFindsBusy
           \/ StopRaises \/ ReaperWakes \/ Shutdown
  BY <1>7 DEF LeaseMeansReady, ReaperPolls, ReaperFindsIdle, ReaperFindsBusy,
          StopRaises, ReaperWakes, Shutdown
<1>8. CASE UNCHANGED controllerVars
  BY <1>8 DEF LeaseMeansReady, controllerVars
<1>. QED
  BY <1>1, <1>2, <1>3, <1>4, <1>5, <1>6, <1>7, <1>8
     DEF ControllerNext, EnsureReadyStep, ReaperStep

-----------------------------------------------------------------------------
(* The inductive invariant and what follows from it *)

LEMMA GatewayInvInit == GatewayInit => GatewayInv
<1>. SUFFICES ASSUME GatewayInit PROVE GatewayInv
  OBVIOUS
<1>1. ControllerInv
  BY ControllerInvInit DEF GatewayInit
<1>2. HttpType
  BY DEF GatewayInit, HttpType, Answer
<1>3. LeaseMeansReady
  BY DEF GatewayInit, ControllerInit, LeaseMeansReady
<1>. QED
  BY <1>1, <1>2, <1>3
     DEF GatewayInit, GatewayInv, EC2Init, EC2TypeOK, CallPhase, ControllerInit,
         ReadyHasAddress, StoppedMeansOff

LEMMA GatewayInvStep == GatewayInv /\ [GatewayNext]_gatewayVars => GatewayInv'
<1>. SUFFICES ASSUME GatewayInv, [GatewayNext]_gatewayVars
              PROVE  GatewayInv'
  OBVIOUS
<1>1. ControllerInv' /\ LeaseMeansReady'
  BY GatewayStepIsControllerStep, ControllerInvStep, LeaseMeansReadyStep
     DEF GatewayInv
<1>2. CASE GatewayNext
  BY <1>1, <1>2, EC2TypeStep, HttpTypeStep, CallPhaseStep, ReadyHasAddressStep,
     StoppedMeansOffStep DEF GatewayInv
<1>3. CASE UNCHANGED gatewayVars
  BY <1>1, <1>3 DEF GatewayInv, gatewayVars, controllerVars, taskVars, ec2Vars,
          EC2TypeOK, HttpType, CallPhase, InBackendCall, ReadyHasAddress,
          StoppedMeansOff
<1>. QED
  BY <1>2, <1>3

LEMMA GatewayInvariance == GatewaySpec => []GatewayInv
BY GatewayInvInit, GatewayInvStep, PTL DEF GatewaySpec

(* The controller, the backend and the requests keep their types under any *)
(* interleaving of handlers, reaper, box and faults.                       *)
THEOREM GatewayTypeCorrect == GatewaySpec => []GatewayTypeOK
<1>1. GatewayInv => GatewayTypeOK
  BY DEF GatewayInv, GatewayTypeOK, ControllerInv, HttpType
<1>. QED
  BY <1>1, GatewayInvariance, PTL

(* A READY gateway knows where to proxy to, whatever fails around it.      *)
THEOREM ReadyImpliesAddress == GatewaySpec => []ReadyHasAddress
<1>1. GatewayInv => ReadyHasAddress
  BY DEF GatewayInv
<1>. QED
  BY <1>1, GatewayInvariance, PTL

(* STOPPED is the truth about a box this process has commanded.            *)
THEOREM StoppedImpliesOff == GatewaySpec => []StoppedMeansOff
<1>1. GatewayInv => StoppedMeansOff
  BY DEF GatewayInv
<1>. QED
  BY <1>1, GatewayInvariance, PTL

(* The read of base_url after `await request.body()` is safe for           *)
(* idle_timeout_seconds.                                                   *)
THEOREM LateReadOfAddress == GatewaySpec => []AddressWhileLeased
<1>1. GatewayInv => AddressWhileLeased
  BY DEF GatewayInv, LeaseMeansReady, ReadyHasAddress, AddressWhileLeased
<1>. QED
  BY <1>1, GatewayInvariance, PTL
=============================================================================
