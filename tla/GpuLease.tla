------------------------------ MODULE GpuLease ------------------------------
(***************************************************************************)
(* What the gateway promises about the GPU box, whatever happens inside    *)
(* it.  The box is stopped, starting or ready.  Admitting a request grants *)
(* that client a lease of IdleTimeout ticks, and the gateway may stop the  *)
(* box only when no client holds an unexpired lease.  There is no lock, no *)
(* shared timestamp, no reaper and no await here: those are how            *)
(* gateway/state.py keeps the promise (module GatewayController).          *)
(***************************************************************************)
EXTENDS Naturals

CONSTANTS
    Clients,        \* whoever may be admitted
    IdleTimeout     \* ticks a client may count on, a natural number

VARIABLES
    state,      \* "stopped", "starting" or "ready"
    lease       \* lease[c]: ticks for which the box may not be stopped on c

leaseVars == <<state, lease>>

LeaseTypeOK ==
    /\ state \in {"stopped", "starting", "ready"}
    /\ lease \in [Clients -> 0..IdleTimeout]

NoLease == [c \in Clients |-> 0]

Init == state = "stopped" /\ lease = NoLease

Wake ==
    /\ state = "stopped"
    /\ state' = "starting"
    /\ UNCHANGED lease

Admit(c) ==
    /\ state \in {"starting", "ready"}
    /\ state' = "ready"
    /\ lease' = [lease EXCEPT ![c] = IdleTimeout]

Elapse ==
    /\ lease' = [c \in Clients |-> IF lease[c] = 0 THEN 0 ELSE lease[c] - 1]
    /\ UNCHANGED state

Stop ==
    /\ state = "ready"
    /\ lease = NoLease
    /\ state' = "stopped"
    /\ UNCHANGED lease

(* The process is lost, and every promise it made with it. *)
Lose == state' = "stopped" /\ lease' = NoLease

Next == Wake \/ (\E c \in Clients : Admit(c)) \/ Elapse \/ Stop \/ Lose

Spec == Init /\ [][Next]_leaseVars
=============================================================================
