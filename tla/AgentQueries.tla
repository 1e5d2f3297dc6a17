---------------------------- MODULE AgentQueries ----------------------------
(***************************************************************************)
(* A session with its MCP server: the tool calls of the loop (module       *)
(* AgentSession) are answered by the catalogue tools, or by run_query, in  *)
(* the steps of module QueryServer, with the audit log behind it.  The     *)
(* client sends one call at a time over the server's stdin and stdout      *)
(* (agent/mcp_client.py, call_tool).                                       *)
(***************************************************************************)
EXTENDS AgentSession, Integers

CONSTANTS MaxRowLimit, RowLimits, QueryFaults, MaxRows, MaxCalls

ASSUME ServerAssumption ==
    /\ MaxRowLimit \in Nat /\ MaxRows \in Nat /\ MaxCalls \in Nat
    /\ RowLimits \subseteq Int
    /\ QueryFaults \subseteq {"disk", "crash"}

VARIABLES
    queries, serverPc, audit, executed, delivered,  \* the server's
    inFlight,       \* the query sent for the tool call under way, or 0
    firstQuery,     \* history: the first query the question could send
    printed         \* history: for each of toolCallsMade, its query, or 0

Server == INSTANCE QueryServer WITH calls <- queries, pc <- serverPc

serverVars == <<queries, serverPc, audit, executed, delivered>>
sessionVars == <<agentVars, serverVars, inFlight, firstQuery, printed>>

SessionTypeOK ==
    /\ AgentTypeOK /\ Server!QueryTypeOK
    /\ inFlight \in 0..Len(queries)
    /\ serverPc # "idle" => pc = "tools" /\ inFlight = Len(queries)
    /\ firstQuery \in 1..Len(queries) + 1
    /\ printed \in Seq(0..Len(queries)) /\ Len(printed) = Len(toolCallsMade)

SessionInit ==
    /\ AgentInit /\ Server!QueryInit
    /\ inFlight = 0 /\ firstQuery = 1 /\ printed = <<>>

-----------------------------------------------------------------------------
AsksQuestion ==
    /\ Ask
    /\ firstQuery' = Len(queries) + 1 /\ printed' = <<>>
    /\ UNCHANGED <<serverVars, inFlight>>

(* Bound: one kind of query.  (One that the guard refuses, or fails on,    *)
(* ends for the session as one whose execution raises does.)               *)
Kept(q) == q.limit.form = "none" /\ q.statement = "select"

(* call_tool("run_query", ...) *)
SendsQuery ==
    /\ pc = "tools" /\ inFlight = 0
    /\ \E q \in Server!Calls : Kept(q) /\ Server!Call(q)
    /\ inFlight' = Len(queries')
    /\ UNCHANGED <<agentVars, firstQuery, printed>>

ServerWorks ==
    /\ Server!ServerStep
    /\ UNCHANGED <<agentVars, inFlight, firstQuery, printed>>

(* isError is set for whatever run_query raised. *)
QueryAnswered ==
    /\ inFlight # 0 /\ serverPc = "idle"
    /\ ToolDone(inFlight \in delivered)
    /\ printed' = Append(printed, inFlight) /\ inFlight' = 0
    /\ UNCHANGED <<serverVars, firstQuery>>

(* list_tables and describe_table, which nothing records *)
CatalogueAnswered ==
    /\ inFlight = 0
    /\ \E ok \in BOOLEAN : ToolDone(ok)
    /\ printed' = Append(printed, 0)
    /\ UNCHANGED <<serverVars, inFlight, firstQuery>>

(* The server process dies, at work or not, and its session with it. *)
ServerDies ==
    /\ ServerGone
    /\ IF serverPc = "idle" THEN UNCHANGED serverVars ELSE Server!ServerLost
    /\ UNCHANGED <<inFlight, firstQuery, printed>>

-----------------------------------------------------------------------------
QuestionStep ==
    \/ ChatStep /\ UNCHANGED <<serverVars, inFlight, firstQuery, printed>>
    \/ SendsQuery \/ ServerWorks \/ QueryAnswered \/ CatalogueAnswered \/ ServerDies

SessionNext ==
    \/ BetweenQuestions /\ UNCHANGED <<serverVars, inFlight, firstQuery, printed>>
    \/ AsksQuestion \/ QuestionStep

(* The model, the SDK, the warehouse and the disk come back, with a result *)
(* or an error; the user owes nothing.                                     *)
FairSessionSpec ==
    SessionInit /\ [][SessionNext]_sessionVars /\ WF_sessionVars(QuestionStep)

-----------------------------------------------------------------------------
(* Properties *)

(* What is printed under an answer agrees with the audit log (cli.py       *)
(* 78-82, server.py 72-87), whatever failed in the question or before it:  *)
(* each query printed as successful has a whole line of success there;     *)
(* each line the log has of the question, cut short or not, is of a query  *)
(* that is printed, as a success or an error; and both are in the order    *)
(* in which the queries were sent.  The two may differ in one way: what    *)
(* the log calls a success is printed as an error if the write failed      *)
(* after the line or no reply could be made.                               *)
Shown == {n \in DOMAIN printed : printed[n] # 0 /\ toolCallsMade[n].ok}

Logged == {i \in DOMAIN audit : audit[i].call >= firstQuery}

LoggedSuccess == {i \in Logged : audit[i].success /\ audit[i].whole}

PrintsTheLog ==
    answer # "none" =>
        /\ {printed[n] : n \in Shown} \subseteq {audit[i].call : i \in LoggedSuccess}
        /\ {audit[i].call : i \in Logged} \subseteq {printed[n] : n \in DOMAIN printed}
        /\ \A m, n \in DOMAIN printed :
              m < n /\ printed[n] # 0 => printed[m] < printed[n]
        /\ \A i, j \in Logged : i < j => audit[i].call < audit[j].call
=============================================================================
