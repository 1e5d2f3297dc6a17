----------------------- MODULE GatewayControllerProofs ----------------------
(***************************************************************************)
(* Proofs about GatewayController, for any set of clients, any idle        *)
(* timeout and any backend.                                                *)
(***************************************************************************)
EXTENDS GatewayController, SequenceTheorems, TLAPS

(* Who awaits the backend holds _lock, so the others cannot pass. *)
CallHoldsLock == \A t \in InBackendCall : Holds(t)

(* _state and _last_activity, while a call on the backend is awaited. *)
CallState ==
    /\ \A c \in Clients : task[c] \in {"start", "health"} => state = "starting"
    /\ reaper = "stop" => state = "ready" /\ idle = IdleTimeout

(* The shared stamp is at least as young as every lease. *)
LeaseBound ==
    state = "ready" =>
        idle # None /\ \A c \in Clients : lease[c] + idle <= IdleTimeout

StartedNotStopped == command = "start" => state # "stopped"

ControllerInv ==
    /\ ControllerTypeOK
    /\ CallHoldsLock
    /\ CallState
    /\ LeaseBound
    /\ StartedNotStopped

-----------------------------------------------------------------------------
(* The lock queue *)

Tasks == Clients \cup {Reaper}

LEMMA AcquireKeepsHolder ==
    ASSUME NEW t \in Tasks, lockq \in Seq(Tasks), Acquire(t)
    PROVE  /\ lockq' \in Seq(Tasks)
           /\ \A u : Holds(u) => Holds(u)'
<1>1. lockq' = Append(lockq, t)
  BY DEF Acquire
<1>2. lockq' \in Seq(Tasks) /\ lockq' # <<>>
  BY <1>1, AppendProperties
<1>3. lockq # <<>> => Head(lockq') = Head(lockq)
  BY <1>1, HeadTailAppend
<1>. QED
  BY <1>2, <1>3 DEF Holds

LEMMA ReleaseType ==
    ASSUME NEW u, Holds(u), lockq \in Seq(Tasks), Release
    PROVE  lockq' \in Seq(Tasks)
BY HeadTailProperties DEF Holds, Release

-----------------------------------------------------------------------------
(* Every step preserves the type invariant.  A task that releases the lock *)
(* holds it, which is what CallHoldsLock is for: Tail is never applied to  *)
(* an empty queue.                                                         *)
LEMMA TypeStep ==
    ASSUME ControllerTypeOK, CallHoldsLock, ControllerNext
    PROVE  ControllerTypeOK'
<1>. USE ControllerAssumption
<1>0. lockq \in Seq(Tasks)
  BY DEF ControllerTypeOK, Tasks
<1>1. ASSUME NEW c \in Clients, EnterEnsureReady(c)
      PROVE  ControllerTypeOK'
  <2>1. lockq' \in Seq(Tasks)
    BY <1>0, <1>1, AcquireKeepsHolder DEF EnterEnsureReady, Tasks
  <2>. QED
    BY <1>1, <2>1 DEF ControllerTypeOK, EnterEnsureReady, Tasks
<1>2. ASSUME NEW c \in Clients, FindStopped(c) \/ FindStarting(c) \/ StartReturns(c)
      PROVE  ControllerTypeOK'
  BY <1>2 DEF ControllerTypeOK, FindStopped, FindStarting, StartReturns
<1>3. ASSUME NEW c \in Clients, FindReady(c) \/ HealthTrue(c)
      PROVE  ControllerTypeOK'
  <2>1. Holds(c) /\ Admit(c)
    BY <1>3 DEF FindReady, HealthTrue, CallHoldsLock, InBackendCall
  <2>2. lockq' \in Seq(Tasks)
    BY <1>0, <2>1, ReleaseType DEF Admit
  <2>. QED
    BY <2>1, <2>2 DEF ControllerTypeOK, Admit, Tasks
<1>4. ASSUME NEW c \in Clients, StartRaises(c) \/ HealthFalse(c)
      PROVE  ControllerTypeOK'
  <2>1. Holds(c) /\ Release
    BY <1>4 DEF StartRaises, HealthFalse, CallHoldsLock, InBackendCall
  <2>2. lockq' \in Seq(Tasks)
    BY <1>0, <2>1, ReleaseType
  <2>. QED
    BY <1>4, <2>2 DEF ControllerTypeOK, StartRaises, HealthFalse, Tasks
<1>5. CASE ReaperPolls
  <2>1. lockq' \in Seq(Tasks)
    BY <1>0, <1>5, AcquireKeepsHolder DEF ReaperPolls, Tasks
  <2>. QED
    BY <1>5, <2>1 DEF ControllerTypeOK, ReaperPolls, Tasks
<1>6. CASE ReaperFindsIdle \/ ReaperWakes \/ Shutdown
  BY <1>6 DEF ControllerTypeOK, ReaperFindsIdle, ReaperWakes, Shutdown, taskVars
<1>7. CASE ReaperFindsBusy \/ StopReturns \/ StopRaises
  <2>1. Holds(Reaper) /\ Release
    BY <1>7 DEF ReaperFindsBusy, StopReturns, StopRaises, CallHoldsLock,
                InBackendCall
  <2>2. lockq' \in Seq(Tasks)
    BY <1>0, <2>1, ReleaseType
  <2>. QED
    BY <1>7, <2>2 DEF ControllerTypeOK, ReaperFindsBusy, StopReturns,
                      StopRaises, Tasks
<1>8. CASE Tick
  <2>1. idle' \in 0..IdleTimeout \cup {None}
    BY <1>8 DEF ControllerTypeOK, Tick
  <2>2. lease' \in [Clients -> 0..IdleTimeout]
    BY <1>8 DEF ControllerTypeOK, Tick
  <2>. QED
    BY <1>8, <2>1, <2>2 DEF ControllerTypeOK, Tick, taskVars
<1>9. CASE Restart
  <2>1. lockq' \in Seq(Tasks)
    BY <1>9, EmptySeq DEF Restart
  <2>2. lease' \in [Clients -> 0..IdleTimeout]
    BY <1>9 DEF Restart
  <2>3. task' \in [Clients -> {"out", "lock", "start", "health"}]
    BY <1>9 DEF Restart
  <2>. QED
    BY <1>9, <2>1, <2>2, <2>3 DEF ControllerTypeOK, Restart, Tasks
<1>. QED
  BY <1>1, <1>2, <1>3, <1>4, <1>5, <1>6, <1>7, <1>8, <1>9
     DEF ControllerNext, EnsureReadyStep, ReaperStep

-----------------------------------------------------------------------------
(* Every step leaves the lock with the task whose call is awaited.  Nobody *)
(* enters a call without holding the lock, nobody else moves while it is   *)
(* held, and whoever releases it is out of the call.                       *)
LEMMA LockStep ==
    ASSUME ControllerTypeOK, CallHoldsLock, ControllerNext
    PROVE  CallHoldsLock'
<1>. USE ControllerAssumption
<1>0. lockq \in Seq(Tasks)
  BY DEF ControllerTypeOK, Tasks
<1>1. ASSUME NEW c \in Clients, EnterEnsureReady(c)
      PROVE  CallHoldsLock'
  <2>1. \A u : Holds(u) => Holds(u)'
    BY <1>0, <1>1, AcquireKeepsHolder DEF EnterEnsureReady, Tasks
  <2>2. InBackendCall' \subseteq InBackendCall
    BY <1>1 DEF InBackendCall, EnterEnsureReady, ControllerTypeOK
  <2>. QED
    BY <2>1, <2>2 DEF CallHoldsLock
<1>2. ASSUME NEW c \in Clients, FindStopped(c) \/ FindStarting(c) \/ StartReturns(c)
      PROVE  CallHoldsLock'
  <2>1. Holds(c) /\ lockq' = lockq
    BY <1>2 DEF FindStopped, FindStarting, StartReturns, CallHoldsLock, InBackendCall
  <2>2. InBackendCall' \subseteq InBackendCall \cup {c}
    BY <1>2 DEF InBackendCall, FindStopped, FindStarting, StartReturns, ControllerTypeOK
  <2>. QED
    BY <2>1, <2>2 DEF CallHoldsLock, Holds
<1>3. ASSUME NEW t \in Tasks, Holds(t),
             InBackendCall' \subseteq InBackendCall \ {t}
      PROVE  CallHoldsLock'
  BY <1>3 DEF CallHoldsLock, Holds
<1>4. ASSUME NEW c \in Clients,
             FindReady(c) \/ HealthTrue(c) \/ StartRaises(c) \/ HealthFalse(c)
      PROVE  CallHoldsLock'
  <2>1. Holds(c)
    BY <1>4 DEF FindReady, HealthTrue, StartRaises, HealthFalse, CallHoldsLock,
                InBackendCall
  <2>2. InBackendCall' \subseteq InBackendCall \ {c}
    BY <1>4 DEF FindReady, HealthTrue, StartRaises, HealthFalse, Admit,
                InBackendCall, ControllerTypeOK
  <2>. QED
    BY <1>3, <2>1, <2>2 DEF Tasks
<1>5. CASE ReaperPolls
  <2>1. \A u : Holds(u) => Holds(u)'
    BY <1>0, <1>5, AcquireKeepsHolder DEF ReaperPolls, Tasks, Holds
  <2>2. InBackendCall' \subseteq InBackendCall
    BY <1>5 DEF InBackendCall, ReaperPolls
  <2>. QED
    BY <2>1, <2>2 DEF CallHoldsLock
<1>6. CASE ReaperFindsIdle
  <2>1. Holds(Reaper) /\ lockq' = lockq
    BY <1>6 DEF ReaperFindsIdle
  <2>2. InBackendCall' \subseteq InBackendCall \cup {Reaper}
    BY <1>6 DEF InBackendCall, ReaperFindsIdle
  <2>. QED
    BY <2>1, <2>2 DEF CallHoldsLock, Holds
<1>7. CASE ReaperFindsBusy \/ StopReturns \/ StopRaises
  <2>1. Holds(Reaper)
    BY <1>7 DEF ReaperFindsBusy, StopReturns, StopRaises, CallHoldsLock,
                InBackendCall
  <2>2. InBackendCall' \subseteq InBackendCall \ {Reaper}
    BY <1>7 DEF ReaperFindsBusy, StopReturns, StopRaises, InBackendCall
  <2>. QED
    BY <1>3, <2>1, <2>2 DEF Tasks
<1>8. CASE ReaperWakes \/ Tick \/ Shutdown
  <2>1. lockq' = lockq /\ InBackendCall' \subseteq InBackendCall
    BY <1>8 DEF ReaperWakes, Tick, Shutdown, taskVars, InBackendCall
  <2>. QED
    BY <2>1 DEF CallHoldsLock, Holds
<1>9. CASE Restart
  <2>1. InBackendCall' = {}
    BY <1>9 DEF Restart, InBackendCall
  <2>. QED
    BY <2>1 DEF CallHoldsLock
<1>. QED
  BY <1>1, <1>2, <1>4, <1>5, <1>6, <1>7, <1>8, <1>9
     DEF ControllerNext, EnsureReadyStep, ReaperStep

-----------------------------------------------------------------------------
(* While the lock is held by t, no other task is in a call. *)
LEMMA OnlyHolderCalls ==
    ASSUME CallHoldsLock, NEW t, Holds(t)
    PROVE  InBackendCall \subseteq {t}
BY DEF CallHoldsLock, Holds

(* The values of _state and _last_activity that a call was made in are     *)
(* still there when it returns: state.py reads neither again after an      *)
(* await, and this is why it need not.                                     *)
LEMMA CallStateStep ==
    ASSUME ControllerTypeOK, CallHoldsLock, CallState, ControllerNext
    PROVE  CallState'
<1>. USE ControllerAssumption
<1>1. ASSUME NEW c \in Clients, EnterEnsureReady(c)
      PROVE  CallState'
  BY <1>1 DEF CallState, EnterEnsureReady, ControllerTypeOK
<1>2. ASSUME NEW c \in Clients, FindStopped(c) \/ FindStarting(c)
      PROVE  CallState'
  <2>1. InBackendCall \subseteq {c}
    BY <1>2, OnlyHolderCalls DEF FindStopped, FindStarting
  <2>2. reaper # "stop"
    BY <2>1 DEF InBackendCall
  <2>. QED
    BY <1>2, <2>2 DEF CallState, FindStopped, FindStarting, ControllerTypeOK
<1>3. ASSUME NEW c \in Clients, StartReturns(c) \/ StartRaises(c) \/ HealthFalse(c)
      PROVE  CallState'
  BY <1>3 DEF CallState, StartReturns, StartRaises, HealthFalse, ControllerTypeOK
<1>4. ASSUME NEW c \in Clients, FindReady(c) \/ HealthTrue(c)
      PROVE  CallState'
  <2>1. Holds(c) /\ Admit(c)
    BY <1>4 DEF FindReady, HealthTrue, CallHoldsLock, InBackendCall
  <2>2. InBackendCall \subseteq {c}
    BY <2>1, OnlyHolderCalls
  <2>3. reaper # "stop"
    BY <2>2 DEF InBackendCall
  <2>4. \A d \in Clients : task'[d] \notin {"start", "health"}
    BY <2>1, <2>2 DEF Admit, InBackendCall, ControllerTypeOK
  <2>. QED
    BY <2>1, <2>3, <2>4 DEF CallState, Admit
<1>5. CASE ReaperPolls \/ ReaperFindsBusy \/ ReaperWakes \/ Shutdown \/ StopRaises
  BY <1>5 DEF CallState, ReaperPolls, ReaperFindsBusy, ReaperWakes, Shutdown,
              StopRaises, taskVars
<1>6. CASE ReaperFindsIdle
  BY <1>6 DEF CallState, ReaperFindsIdle, Expired, ControllerTypeOK
<1>7. CASE StopReturns
  <2>1. InBackendCall \subseteq {Reaper}
    BY <1>7, OnlyHolderCalls DEF StopReturns, CallHoldsLock, InBackendCall
  <2>2. \A d \in Clients : task'[d] \notin {"start", "health"}
    BY <1>7, <2>1 DEF StopReturns, InBackendCall
  <2>. QED
    BY <1>7, <2>2 DEF CallState, StopReturns
<1>8. CASE Tick
  BY <1>8 DEF CallState, Tick, taskVars
<1>9. CASE Restart
  BY <1>9 DEF CallState, Restart
<1>. QED
  BY <1>1, <1>2, <1>3, <1>4, <1>5, <1>6, <1>7, <1>8, <1>9
     DEF ControllerNext, EnsureReadyStep, ReaperStep

-----------------------------------------------------------------------------
(* Every admission stamps _last_activity, a tick ages the stamp and the    *)
(* leases alike, and READY is entered by an admission only.                *)
LEMMA LeaseBoundStep ==
    ASSUME ControllerTypeOK, CallState, LeaseBound, ControllerNext
    PROVE  LeaseBound'
<1>. USE ControllerAssumption
<1>1. ASSUME NEW c \in Clients, FindReady(c) \/ HealthTrue(c)
      PROVE  LeaseBound'
  <2>1. Admit(c)
    BY <1>1 DEF FindReady, HealthTrue
  <2>2. \A d \in Clients : lease'[d] \in 0..IdleTimeout
    BY <2>1 DEF Admit, ControllerTypeOK
  <2>. QED
    BY <2>1, <2>2 DEF LeaseBound, Admit
<1>2. CASE Tick
  <2>. SUFFICES ASSUME state = "ready", NEW c \in Clients
                PROVE  idle' # None /\ lease'[c] + idle' <= IdleTimeout
    BY <1>2 DEF LeaseBound, Tick
  <2>1. lease[c] \in Nat /\ idle \in 0..IdleTimeout
    BY DEF LeaseBound, ControllerTypeOK
  <2>2. lease[c] + idle <= IdleTimeout
    BY DEF LeaseBound
  <2>3. lease'[c] = IF lease[c] = 0 THEN 0 ELSE lease[c] - 1
    BY <1>2 DEF Tick
  <2>4. idle' = IF idle \in 0..IdleTimeout - 1 THEN idle + 1 ELSE idle
    BY <1>2 DEF Tick
  <2>. QED
    BY <2>1, <2>2, <2>3, <2>4
<1>3. CASE UNCHANGED <<state, idle, lease>>
  BY <1>3 DEF LeaseBound
<1>4. ASSUME state' # "ready"
      PROVE  LeaseBound'
  BY <1>4 DEF LeaseBound
<1>5. ASSUME NEW c \in Clients,
             \/ EnterEnsureReady(c) \/ FindStarting(c)
             \/ StartReturns(c) \/ StartRaises(c) \/ HealthFalse(c)
      PROVE  UNCHANGED <<state, idle, lease>>
  BY <1>5 DEF EnterEnsureReady, FindStarting, StartReturns, StartRaises, HealthFalse
<1>6. ASSUME \/ ReaperPolls \/ ReaperFindsIdle \/ ReaperFindsBusy
             \/ StopRaises \/ ReaperWakes \/ Shutdown
      PROVE  UNCHANGED <<state, idle, lease>>
  BY <1>6 DEF ReaperPolls, ReaperFindsIdle, ReaperFindsBusy, StopRaises,
              ReaperWakes, Shutdown
<1>7. ASSUME \/ StopReturns \/ Restart \/ \E c \in Clients : FindStopped(c)
      PROVE  state' # "ready"
  BY <1>7 DEF StopReturns, Restart, FindStopped
<1>. QED
  BY <1>1, <1>2, <1>3, <1>4, <1>5, <1>6, <1>7
     DEF ControllerNext, EnsureReadyStep, ReaperStep

(* STOPPED is entered only by a stop() that returned, or by a new process. *)
LEMMA StartedStep ==
    ASSUME CallState, StartedNotStopped, ControllerNext
    PROVE  StartedNotStopped'
<1>1. ASSUME NEW c \in Clients, EnterEnsureReady(c) \/ EnsureReadyStep(c)
      PROVE  StartedNotStopped'
  BY <1>1 DEF StartedNotStopped, CallState, EnterEnsureReady, EnsureReadyStep,
              FindStopped, FindStarting, FindReady, StartReturns, StartRaises,
              HealthTrue, HealthFalse, Admit
<1>2. CASE ReaperStep
  BY <1>2 DEF StartedNotStopped, ReaperStep, ReaperPolls, ReaperFindsIdle,
              ReaperFindsBusy, StopReturns, StopRaises, ReaperWakes
<1>3. CASE Tick \/ Shutdown \/ Restart
  BY <1>3 DEF StartedNotStopped, Tick, Shutdown, Restart
<1>. QED
  BY <1>1, <1>2, <1>3 DEF ControllerNext

-----------------------------------------------------------------------------
(* The inductive invariant.  CallHoldsLock makes the type invariant and    *)
(* CallState inductive, CallState makes the other two so.                  *)
LEMMA ControllerInvInit == ControllerInit => ControllerInv
<1>. SUFFICES ASSUME ControllerInit PROVE ControllerInv
  OBVIOUS
<1>. USE ControllerAssumption
<1>1. InBackendCall = {}
  BY DEF ControllerInit, InBackendCall
<1>2. lockq \in Seq(Clients \cup {Reaper})
  BY EmptySeq DEF ControllerInit
<1>3. task \in [Clients -> {"out", "lock", "start", "health"}]
  BY DEF ControllerInit
<1>4. lease \in [Clients -> 0..IdleTimeout]
  BY DEF ControllerInit
<1>5. ControllerTypeOK
  BY <1>2, <1>3, <1>4 DEF ControllerInit, ControllerTypeOK
<1>. QED
  BY <1>1, <1>5 DEF ControllerInit, ControllerInv, CallHoldsLock, CallState,
                    LeaseBound, StartedNotStopped

LEMMA ControllerInvStep ==
    ControllerInv /\ [ControllerNext]_controllerVars => ControllerInv'
<1>. SUFFICES ASSUME ControllerInv, [ControllerNext]_controllerVars
              PROVE  ControllerInv'
  OBVIOUS
<1>1. CASE ControllerNext
  BY <1>1, TypeStep, LockStep, CallStateStep, LeaseBoundStep, StartedStep
     DEF ControllerInv
<1>2. CASE UNCHANGED controllerVars
  <2>1. ControllerTypeOK'
    BY <1>2 DEF ControllerInv, controllerVars, taskVars, ControllerTypeOK
  <2>2. CallHoldsLock'
    BY <1>2 DEF ControllerInv, controllerVars, taskVars, CallHoldsLock,
                InBackendCall, Holds
  <2>3. CallState' /\ LeaseBound' /\ StartedNotStopped'
    BY <1>2 DEF ControllerInv, controllerVars, taskVars, CallState, LeaseBound,
                StartedNotStopped
  <2>. QED
    BY <2>1, <2>2, <2>3 DEF ControllerInv
<1>. QED
  BY <1>1, <1>2

LEMMA ControllerInvariance == ControllerSpec => []ControllerInv
BY ControllerInvInit, ControllerInvStep, PTL DEF ControllerSpec

(* The variables keep their types: the shape of what __init__ builds and   *)
(* what ensure_ready() and the reaper assign (state.py 36-38, 48-87).      *)
THEOREM ControllerTypeCorrect == ControllerSpec => []ControllerTypeOK
<1>1. ControllerInv => ControllerTypeOK
  BY DEF ControllerInv
<1>. QED
  BY <1>1, ControllerInvariance, PTL

(* No two backend calls overlap, whatever the number of requests.          *)
THEOREM BackendCallsSerial == ControllerSpec => []BackendSerial
<1>1. ControllerInv => BackendSerial
  BY DEF ControllerInv, CallHoldsLock, Holds, BackendSerial
<1>. QED
  BY <1>1, ControllerInvariance, PTL

(* start() is called once for a wake-up, whatever the number of callers.   *)
THEOREM WakeStartsOnce == ControllerSpec => StartsOnce
<1>1. ASSUME ControllerInv, ControllerNext, NEW c \in Clients,
             task[c] # "start", task'[c] = "start"
      PROVE  command # "start" /\ InBackendCall = {}
  <2>. USE ControllerAssumption
  <2>1. FindStopped(c)
    <3>1. ASSUME NEW d \in Clients, EnterEnsureReady(d) \/ EnsureReadyStep(d)
          PROVE  FindStopped(c)
      BY <1>1, <3>1 DEF ControllerInv, ControllerTypeOK, EnterEnsureReady,
              EnsureReadyStep, FindStopped, FindStarting, FindReady,
              StartReturns, StartRaises, HealthTrue, HealthFalse, Admit
    <3>2. ReaperStep \/ Tick \/ Shutdown \/ Restart => task'[c] # "start"
      BY <1>1 DEF ReaperStep, ReaperPolls, ReaperFindsIdle, ReaperFindsBusy,
              StopReturns, StopRaises, ReaperWakes, Tick, Shutdown, Restart,
              taskVars
    <3>. QED
      BY <1>1, <3>1, <3>2 DEF ControllerNext
  <2>2. command # "start"
    BY <1>1, <2>1 DEF ControllerInv, StartedNotStopped, FindStopped
  <2>3. InBackendCall \subseteq {c}
    BY <1>1, <2>1, OnlyHolderCalls DEF ControllerInv, FindStopped
  <2>4. c \notin InBackendCall
    BY <2>1 DEF FindStopped, InBackendCall
  <2>. QED
    BY <2>2, <2>3, <2>4
<1>2. ControllerInv /\ [ControllerNext]_controllerVars
        => [\A c \in Clients :
               task[c] # "start" /\ task'[c] = "start"
                   => command # "start" /\ InBackendCall = {}]_controllerVars
  BY <1>1
<1>. QED
  BY <1>2, ControllerInvariance, PTL DEF ControllerSpec, StartsOnce

-----------------------------------------------------------------------------
(* The controller implements the lease: initial states map to initial      *)
(* states, every step to a step of the lease or to a stutter.              *)
LEMMA LeaseStep ==
    ControllerInv /\ [ControllerNext]_controllerVars
        => [Lease!Next]_(Lease!leaseVars)
<1>. SUFFICES ASSUME ControllerInv, [ControllerNext]_controllerVars
              PROVE  [Lease!Next]_(Lease!leaseVars)
  OBVIOUS
<1>. USE ControllerAssumption DEF ControllerInv
<1>1. ASSUME NEW c \in Clients, FindStopped(c)
      PROVE  Lease!Wake
  BY <1>1 DEF FindStopped, Lease!Wake
<1>2. ASSUME NEW c \in Clients, FindReady(c) \/ HealthTrue(c)
      PROVE  Lease!Admit(c)
  BY <1>2 DEF FindReady, HealthTrue, Admit, CallState, Lease!Admit
<1>3. CASE StopReturns
  <2>1. state = "ready" /\ idle = IdleTimeout
    BY <1>3 DEF StopReturns, CallState
  <2>2. \A c \in Clients : lease[c] = 0
    BY <2>1 DEF LeaseBound, ControllerTypeOK
  <2>3. lease = Lease!NoLease
    BY <2>2 DEF ControllerTypeOK, Lease!NoLease
  <2>. QED
    BY <1>3, <2>1, <2>3 DEF StopReturns, Lease!Next, Lease!Stop
<1>4. CASE Tick
  BY <1>4 DEF Tick, Lease!Next, Lease!Elapse
<1>5. CASE Restart
  BY <1>5 DEF Restart, Lease!Next, Lease!Lose, Lease!NoLease
<1>6. ASSUME NEW c \in Clients,
             \/ EnterEnsureReady(c) \/ FindStarting(c)
             \/ StartReturns(c) \/ StartRaises(c) \/ HealthFalse(c)
      PROVE  UNCHANGED Lease!leaseVars
  BY <1>6 DEF EnterEnsureReady, FindStarting, StartReturns, StartRaises,
              HealthFalse, Lease!leaseVars
<1>7. CASE \/ ReaperPolls \/ ReaperFindsIdle \/ ReaperFindsBusy
           \/ StopRaises \/ ReaperWakes \/ Shutdown
  BY <1>7 DEF ReaperPolls, ReaperFindsIdle, ReaperFindsBusy, StopRaises,
              ReaperWakes, Shutdown, Lease!leaseVars
<1>8. CASE UNCHANGED controllerVars
  BY <1>8 DEF controllerVars, Lease!leaseVars
<1>. QED
  BY <1>1, <1>2, <1>3, <1>4, <1>5, <1>6, <1>7, <1>8
     DEF ControllerNext, EnsureReadyStep, ReaperStep, Lease!Next

(* Whatever the backend does, a client that was admitted can count on the  *)
(* box for idle_timeout_seconds: GatewayController implements GpuLease.    *)
THEOREM ControllerHonoursLease == ControllerSpec => LeaseHonoured
<1>1. ControllerInit => Lease!Init
  BY DEF ControllerInit, Lease!Init, Lease!NoLease
<1>. QED
  BY <1>1, LeaseStep, ControllerInvariance, PTL
     DEF ControllerSpec, LeaseHonoured, Lease!Spec
=============================================================================
