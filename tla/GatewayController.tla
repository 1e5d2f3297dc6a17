------------------------- MODULE GatewayController --------------------------
(***************************************************************************)
(* gateway/state.py: GatewayController, the requests that await its        *)
(* ensure_ready() and the idle reaper task, over ANY ComputeBackend: what  *)
(* start(), stop() and is_healthy() answer is left open, as in the         *)
(* protocol of gateway/compute.py.  Module Gateway closes it with the EC2  *)
(* backend.  One action is the code a task runs between two awaits.        *)
(*                                                                         *)
(* Time is read only as monotonic() - _last_activity >= idle_timeout, so   *)
(* _last_activity is kept as its age in ticks, stuck at IdleTimeout.       *)
(***************************************************************************)
EXTENDS Naturals, Sequences

CONSTANTS
    Clients,        \* callers of ensure_ready(), one call each at a time
    Reaper,         \* the task of run_idle_reaper()
    IdleTimeout,    \* idle_timeout_seconds, in ticks
    None            \* Python's None

ASSUME ControllerAssumption ==
    /\ IdleTimeout \in Nat
    /\ None \notin Nat
    /\ Reaper \notin Clients

VARIABLES
    state,          \* _state
    idle,           \* age of _last_activity, or None
    lockq,          \* _lock: Head holds it, the others wait in order
    task,           \* task[c]: where c is suspended in ensure_ready()
    reaper,         \* where the reaper task is suspended
    stopEvent,      \* the stop_event given to run_idle_reaper()
    lease,          \* history: ticks left since c was last admitted
    command         \* history: last command the backend carried out

taskVars == <<lockq, task, reaper>>
controllerVars == <<state, idle, taskVars, stopEvent, lease, command>>

ControllerTypeOK ==
    /\ state \in {"stopped", "starting", "ready"}
    /\ idle \in 0..IdleTimeout \cup {None}
    /\ lockq \in Seq(Clients \cup {Reaper})
    /\ task \in [Clients -> {"out", "lock", "start", "health"}]
    /\ reaper \in {"poll", "lock", "stop", "sleep", "dead", "exited"}
    /\ stopEvent \in BOOLEAN
    /\ lease \in [Clients -> 0..IdleTimeout]
    /\ command \in {"none", "start", "stop"}

(* The objects main() builds, before the first request. *)
ControllerInit ==
    /\ state = "stopped" /\ idle = None
    /\ lockq = <<>> /\ task = [c \in Clients |-> "out"] /\ reaper = "poll"
    /\ stopEvent = FALSE
    /\ lease = [c \in Clients |-> 0] /\ command = "none"

-----------------------------------------------------------------------------
(* _lock.  A free lock is taken at once; a released one goes to the first  *)
(* waiter, and nobody can pass it (asyncio.Lock is fair).                  *)
Acquire(t) == lockq' = Append(lockq, t)

HoldsWithoutLock(t) == t \in Clients \cup {Reaper}

Holds(t) == lockq # <<>> /\ Head(lockq) = t

Release == lockq' = Tail(lockq)

(* Return True: the caller may be served now. *)
AdmitUnstamped(c) ==
    /\ state' = "ready"
    /\ lease' = [lease EXCEPT ![c] = IdleTimeout]
    /\ task' = [task EXCEPT ![c] = "out"]
    /\ Release
    /\ UNCHANGED <<idle, reaper, stopEvent, command>>

Admit(c) ==
    /\ state' = "ready"
    /\ idle' = 0
    /\ lease' = [lease EXCEPT ![c] = IdleTimeout]
    /\ task' = [task EXCEPT ![c] = "out"]
    /\ Release
    /\ UNCHANGED <<reaper, stopEvent, command>>

-----------------------------------------------------------------------------
(* ensure_ready() *)

EnterEnsureReady(c) ==
    /\ task[c] = "out" /\ ~stopEvent
    /\ task' = [task EXCEPT ![c] = "lock"]
    /\ Acquire(c)
    /\ UNCHANGED <<state, idle, reaper, stopEvent, lease, command>>

FindStopped(c) ==
    /\ task[c] = "lock" /\ Holds(c)
    /\ state = "stopped"
    /\ state' = "starting"
    /\ task' = [task EXCEPT ![c] = "start"]
    /\ UNCHANGED <<idle, lockq, reaper, stopEvent, lease, command>>

FindStarting(c) ==
    /\ task[c] = "lock" /\ Holds(c)
    /\ state = "starting"
    /\ task' = [task EXCEPT ![c] = "health"]
    /\ UNCHANGED <<state, idle, lockq, reaper, stopEvent, lease, command>>

FindReadyUnstamped(c) ==
    /\ task[c] = "lock" /\ Holds(c)
    /\ state = "ready"
    /\ lease' = [lease EXCEPT ![c] = IdleTimeout]
    /\ task' = [task EXCEPT ![c] = "out"]
    /\ Release
    /\ UNCHANGED <<state, idle, reaper, stopEvent, command>>

FindReady(c) ==
    /\ task[c] = "lock" /\ Holds(c)
    /\ state = "ready"
    /\ Admit(c)

StartReturns(c) ==
    /\ task[c] = "start"
    /\ task' = [task EXCEPT ![c] = "health"]
    /\ command' = "start"
    /\ UNCHANGED <<state, idle, lockq, reaper, stopEvent, lease>>

StartRaisesLocked(c) ==
    /\ task[c] = "start"
    /\ task' = [task EXCEPT ![c] = "out"]
    /\ UNCHANGED <<state, idle, lockq, reaper, stopEvent, lease, command>>

StartRaisesError(c) ==
    /\ task[c] = "start"
    /\ state' = "error"
    /\ task' = [task EXCEPT ![c] = "out"]
    /\ Release
    /\ UNCHANGED <<idle, reaper, stopEvent, lease, command>>

(* The exception leaves the lock and ensure_ready(); _state stays STARTING. *)
StartRaises(c) ==
    /\ task[c] = "start"
    /\ task' = [task EXCEPT ![c] = "out"]
    /\ Release
    /\ UNCHANGED <<state, idle, reaper, stopEvent, lease, command>>

HealthTrue(c) ==
    /\ task[c] = "health"
    /\ Admit(c)

HealthFalseResets(c) ==
    /\ task[c] = "health"
    /\ state' = "stopped"
    /\ task' = [task EXCEPT ![c] = "out"]
    /\ Release
    /\ UNCHANGED <<idle, reaper, stopEvent, lease, command>>

(* Return False: the caller is told to come back later.  An exception out  *)
(* of is_healthy() would leave the controller in the same state.           *)
HealthFalse(c) ==
    /\ task[c] = "health"
    /\ task' = [task EXCEPT ![c] = "out"]
    /\ Release
    /\ UNCHANGED <<state, idle, reaper, stopEvent, lease, command>>

-----------------------------------------------------------------------------
(* run_idle_reaper() and reap_if_idle() *)

ReaperPollsForEver ==
    /\ reaper = "poll"
    /\ reaper' = "lock"
    /\ Acquire(Reaper)
    /\ UNCHANGED <<state, idle, task, stopEvent, lease, command>>

ReaperPolls ==
    /\ reaper = "poll"
    /\ IF stopEvent
          THEN reaper' = "exited" /\ UNCHANGED lockq
          ELSE reaper' = "lock" /\ Acquire(Reaper)
    /\ UNCHANGED <<state, idle, task, stopEvent, lease, command>>

ExpiredWhileStarting ==
    /\ state # "stopped"
    /\ idle # None => idle >= IdleTimeout

Expired ==
    /\ state = "ready"
    /\ idle # None
    /\ idle >= IdleTimeout

ReaperFindsIdle ==
    /\ reaper = "lock" /\ Holds(Reaper)
    /\ Expired
    /\ reaper' = "stop"
    /\ UNCHANGED <<state, idle, lockq, task, stopEvent, lease, command>>

ReaperFindsBusy ==
    /\ reaper = "lock" /\ Holds(Reaper)
    /\ ~Expired
    /\ reaper' = "sleep"
    /\ Release
    /\ UNCHANGED <<state, idle, task, stopEvent, lease, command>>

StopReturns ==
    /\ reaper = "stop"
    /\ state' = "stopped"
    /\ idle' = None
    /\ command' = "stop"
    /\ reaper' = "sleep"
    /\ Release
    /\ UNCHANGED <<task, stopEvent, lease>>

StopRaisesStopped ==
    /\ reaper = "stop"
    /\ state' = "stopped"
    /\ idle' = None
    /\ reaper' = "sleep"
    /\ Release
    /\ UNCHANGED <<task, stopEvent, lease, command>>

(* Nothing catches the exception: it ends the reaper task. *)
StopRaises ==
    /\ reaper = "stop"
    /\ reaper' = "dead"
    /\ Release
    /\ UNCHANGED <<state, idle, task, stopEvent, lease, command>>

(* wait_for() times out after the poll interval, or sees the event. *)
ReaperWakes ==
    /\ reaper = "sleep"
    /\ reaper' = "poll"
    /\ UNCHANGED <<state, idle, lockq, task, stopEvent, lease, command>>

-----------------------------------------------------------------------------
(* What happens to the controller from outside *)

Tick ==
    /\ idle' = IF idle \in 0..IdleTimeout - 1 THEN idle + 1 ELSE idle
    /\ lease' = [c \in Clients |-> IF lease[c] = 0 THEN 0 ELSE lease[c] - 1]
    /\ UNCHANGED <<state, taskVars, stopEvent, command>>

(* The lifespan ends once every request has been answered. *)
Shutdown ==
    /\ \A c \in Clients : task[c] = "out"
    /\ stopEvent' = TRUE
    /\ UNCHANGED <<state, idle, taskVars, lease, command>>

(* The process is gone and a new one is started.  The backend is not told. *)
Restart ==
    /\ state' = "stopped" /\ idle' = None
    /\ lockq' = <<>> /\ task' = [c \in Clients |-> "out"]
    /\ reaper' = "poll" /\ stopEvent' = FALSE
    /\ lease' = [c \in Clients |-> 0] /\ command' = "none"

-----------------------------------------------------------------------------
EnsureReadyStep(c) ==
    \/ FindStopped(c) \/ FindStarting(c) \/ FindReady(c)
    \/ StartReturns(c) \/ StartRaises(c)
    \/ HealthTrue(c) \/ HealthFalse(c)

ReaperStep ==
    \/ ReaperPolls
    \/ ReaperFindsIdle \/ ReaperFindsBusy
    \/ StopReturns \/ StopRaises
    \/ ReaperWakes

ControllerNext ==
    \/ \E c \in Clients : EnterEnsureReady(c) \/ EnsureReadyStep(c)
    \/ ReaperStep
    \/ Tick \/ Shutdown \/ Restart

ControllerSpec == ControllerInit /\ [][ControllerNext]_controllerVars

(* The event loop runs every task that can go on, the backend's calls      *)
(* return, and time passes.  Nobody is obliged to send a request.          *)
ControllerFairness ==
    /\ \A c \in Clients : WF_controllerVars(EnsureReadyStep(c))
    /\ WF_controllerVars(ReaperStep)
    /\ WF_controllerVars(Tick)

FairControllerSpec == ControllerSpec /\ ControllerFairness

-----------------------------------------------------------------------------
(* Properties *)

(* _lock is held across every await on the backend (state.py 54-60 and     *)
(* 69-75): a start(), a stop() and a health check never overlap, whichever *)
(* tasks issue them.                                                       *)
InBackendCall ==
    {c \in Clients : task[c] \in {"start", "health"}}
        \cup (IF reaper = "stop" THEN {Reaper} ELSE {})

BackendSerial == \A t, u \in InBackendCall : t = u

(* Admitting a request renews the lease of its client, and the reaper does *)
(* not stop the box while any client admitted less than                    *)
(* idle_timeout_seconds ago could be counting on it (state.py 64, 70-77).  *)
Lease ==
    INSTANCE GpuLease WITH
        Clients <- Clients, IdleTimeout <- IdleTimeout,
        state <- state, lease <- lease

LeaseHonoured == Lease!Spec

(* start() is called for a wake-up only, and once for it, whatever number  *)
(* of callers arrive (test_concurrent_ensure_ready_only_starts_backend_    *)
(* once): never while another caller starts or probes the box, never for   *)
(* a box this process has started and not stopped since.                   *)
StartsOnce ==
    [][\A c \in Clients :
          task[c] # "start" /\ task'[c] = "start"
              => command # "start" /\ InBackendCall = {}]_controllerVars

(* Nobody waits for ever in ensure_ready(): the lock is passed on by every *)
(* way out of it, the exceptions included, and by the reaper.              *)
EnsureReadyReturns == \A c \in Clients : task[c] # "out" ~> task[c] = "out"

(* Once callers stay away a READY box is given up, unless stop() raises:   *)
(* that ends the reaper task for good.                                     *)
IdleReaped ==
    <>[](\A c \in Clients : task[c] = "out")
        => <>[](state # "ready" \/ reaper \in {"dead", "exited"})

(* The lifespan's `await reaper_task` ends: the reaper sees stop_event     *)
(* wherever it was waiting.                                                *)
ReaperObeysStop == stopEvent ~> (reaper \in {"dead", "exited"} \/ ~stopEvent)
=============================================================================
