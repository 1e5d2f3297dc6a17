----------------------------- MODULE EC2Backend -----------------------------
(***************************************************************************)
(* gateway/ec2_backend.py and the GPU instance behind it.  The instance,   *)
(* the vLLM service on it and the nightly Lambda are not Python: they are  *)
(* modelled from the calls the backend makes and from infra/.  A call of   *)
(* the backend says what becomes of its own variables; module Gateway      *)
(* joins it to the task that awaits it.                                    *)
(***************************************************************************)

CONSTANTS
    NoUrl, Url,     \* "" and the one address of the instance
    Faults          \* which of the faults below may happen

(* "aws": a call fails, with or without its effect.  "vllm": the service   *)
(* dies or is too slow for a probe.  "backstop": the nightly stop.         *)
(* "crash": the gateway process is killed.                                 *)
ASSUME EC2Assumption ==
    /\ NoUrl # Url
    /\ Faults \subseteq {"aws", "vllm", "backstop", "crash"}

VARIABLES
    instance,       \* the state EC2 reports for the instance
    vllm,           \* whether vLLM answers on it
    baseUrl,        \* base_url
    call            \* how far the awaited backend call is

ec2Vars == <<instance, vllm, baseUrl, call>>

(* call: "sent", the request is not yet carried out; "done", it is but has *)
(* not returned to the event loop; "get", is_healthy() awaits /health.     *)
EC2TypeOK ==
    /\ instance \in {"stopped", "pending", "running", "stopping"}
    /\ vllm \in BOOLEAN
    /\ baseUrl \in {NoUrl, Url}
    /\ call \in {"sent", "done", "get"}

(* Before anybody has asked a question the instance is stopped. *)
EC2Init ==
    /\ instance = "stopped" /\ vllm = FALSE
    /\ baseUrl = NoUrl /\ call = "sent"

-----------------------------------------------------------------------------
(* The EC2 API *)

PowerOn ==
    /\ instance \in {"stopped", "pending", "running"}
    /\ instance' = IF instance = "stopped" THEN "pending" ELSE instance
    /\ UNCHANGED vllm

PowerOff ==
    /\ instance' = IF instance = "running" THEN "stopping" ELSE instance
    /\ vllm' = FALSE

-----------------------------------------------------------------------------
(* start() and stop(): asyncio.to_thread() keeps the event loop running    *)
(* between the request, its effect and its return.                         *)

StartInstances ==
    /\ call = "sent"
    /\ PowerOn
    /\ call' = "done"
    /\ UNCHANGED baseUrl

StartInstancesReturns ==
    /\ call = "done"
    /\ call' = "sent"
    /\ UNCHANGED <<instance, vllm, baseUrl>>

(* IncorrectInstanceState while the instance is still stopping, or the API *)
(* fails before or after the effect.                                       *)
StartInstancesRaises ==
    /\ "aws" \in Faults \/ (call = "sent" /\ instance = "stopping")
    /\ call' = "sent"
    /\ UNCHANGED <<instance, vllm, baseUrl>>

(* The instance was running when the gateway became READY and nobody else  *)
(* starts it, so the API never sees a pending one here.                    *)
StopInstances ==
    /\ call = "sent"
    /\ PowerOff
    /\ call' = "done"
    /\ UNCHANGED baseUrl

StopInstancesReturns ==
    /\ call = "done"
    /\ baseUrl' = NoUrl
    /\ call' = "sent"
    /\ UNCHANGED <<instance, vllm>>

StopInstancesRaises ==
    /\ "aws" \in Faults
    /\ call' = "sent"
    /\ UNCHANGED <<instance, vllm, baseUrl>>

-----------------------------------------------------------------------------
(* is_healthy() *)

DescribeForgetsUrl ==
    /\ call = "sent"
    /\ instance = "running"
    /\ call' = "get"
    /\ UNCHANGED <<instance, vllm, baseUrl>>

(* base_url is set before vLLM is known to answer there. *)
DescribeRunning ==
    /\ call = "sent"
    /\ instance = "running"
    /\ baseUrl' = Url
    /\ call' = "get"
    /\ UNCHANGED <<instance, vllm>>

(* Any exception out of describe_instances() reads as "still starting". *)
DescribeNotRunning ==
    /\ call = "sent"
    /\ instance # "running" \/ "aws" \in Faults
    /\ UNCHANGED ec2Vars

HealthNotAsked ==
    /\ call = "get"
    /\ call' = "sent"
    /\ UNCHANGED <<instance, vllm, baseUrl>>

HealthAnswers ==
    /\ call = "get"
    /\ vllm
    /\ call' = "sent"
    /\ UNCHANGED <<instance, vllm, baseUrl>>

HealthDoesNotAnswer ==
    /\ call = "get"
    /\ ~vllm \/ "vllm" \in Faults
    /\ call' = "sent"
    /\ UNCHANGED <<instance, vllm, baseUrl>>

(* A new process builds a new backend; the instance does not notice. *)
NewBackend ==
    /\ baseUrl' = NoUrl /\ call' = "sent"
    /\ UNCHANGED <<instance, vllm>>

-----------------------------------------------------------------------------
(* The instance on its own *)

Boots ==
    /\ instance = "pending"
    /\ instance' = "running"
    /\ UNCHANGED <<vllm, baseUrl, call>>

(* systemd starts vLLM at boot, and again when it has failed. *)
LoadsModel ==
    /\ instance = "running" /\ ~vllm
    /\ vllm' = TRUE
    /\ UNCHANGED <<instance, baseUrl, call>>

Halts ==
    /\ instance = "stopping"
    /\ instance' = "stopped"
    /\ UNCHANGED <<vllm, baseUrl, call>>

VllmFails ==
    /\ "vllm" \in Faults
    /\ vllm
    /\ vllm' = FALSE
    /\ UNCHANGED <<instance, baseUrl, call>>

(* The Lambda stops the instance "regardless of activity". *)
Backstop ==
    /\ "backstop" \in Faults
    /\ instance = "running"
    /\ PowerOff
    /\ UNCHANGED <<baseUrl, call>>
=============================================================================
