---------------------------- MODULE AgentSession ----------------------------
(***************************************************************************)
(* The CLI session: agent/cli.py, the tool-calling loop of agent/loop.py,  *)
(* the chat function of agent/llm_client.py and the tool calls of          *)
(* agent/mcp_client.py.  The model, the openai SDK's retries and the MCP   *)
(* server are kept as the answers they can give.                           *)
(*                                                                         *)
(* A message keeps its role and the tool call ids that tie messages to     *)
(* each other: what _to_wire_messages() passes on, whatever it re-encodes. *)
(***************************************************************************)
EXTENDS Naturals, Sequences, FiniteSets

CONSTANTS
    MaxIterations,  \* MAX_ITERATIONS
    MaxRetries,     \* the SDK's max_retries, its default of 2
    ColdStart,      \* how many Retry-After periods a cold start takes
    Ids,            \* tool call ids the model makes up, not always fresh
    Batches,        \* the lists of tool calls one response may hold
    AgentFaults     \* which of the faults below may happen

(* "connection": the model cannot be reached.  "server": it answers 500.   *)
(* "arguments": a tool call's arguments are not JSON.  "mcp": the server   *)
(* subprocess is lost, or fails the list_tables() at start-up.             *)
ASSUME AgentAssumption ==
    /\ MaxIterations \in Nat \ {0} /\ MaxRetries \in Nat /\ ColdStart \in Nat
    /\ Batches \subseteq Seq(Ids) \ {<<>>}
    /\ AgentFaults \subseteq {"connection", "server", "arguments", "mcp"}

VARIABLES
    pc,             \* where the session is
    messages,       \* messages of the question
    toolCallsMade,  \* tool_calls_made
    iteration,      \* rounds of the loop completed
    retriedEmpty,   \* already_retried_empty
    pending,        \* tool calls of the last response not yet executed
    attempts,       \* retries spent on the request under way
    answer,         \* the AgentResult printed for the last question
    cold            \* Retry-After periods until the model serves

questionVars == <<messages, toolCallsMade, iteration, retriedEmpty, pending>>
agentVars == <<pc, questionVars, attempts, answer, cold>>

Plain(role) == [role |-> role, calls |-> <<>>, id |-> "", ok |-> TRUE]
Assistant(calls) ==
    [role |-> "assistant", calls |-> calls, id |-> "", ok |-> TRUE]
Tool(id, ok) == [role |-> "tool", calls |-> <<>>, id |-> id, ok |-> ok]

(* The user message of the question and the one that asks again are told   *)
(* apart as "user" and "nudge".                                            *)
Message ==
    {Plain(role) : role \in {"system", "user", "nudge"}}
        \cup {Assistant(calls) : calls \in Batches}
        \cup {Tool(id, ok) : id \in Ids, ok \in BOOLEAN}

ToolCallRecord == [id : Ids, ok : BOOLEAN]

AgentTypeOK ==
    /\ pc \in {"startup", "prompt", "chat", "tools", "crashed", "quit"}
    /\ messages \in Seq(Message)
    /\ toolCallsMade \in Seq(ToolCallRecord)
    /\ iteration \in 0..MaxIterations
    /\ retriedEmpty \in BOOLEAN
    /\ pending \in Seq(Ids) /\ (pending # <<>> <=> pc = "tools")
    /\ attempts \in 0..MaxRetries
    /\ answer \in {"none", "text", "empty"}
    /\ cold \in 0..ColdStart

AgentInit ==
    /\ pc = "startup"
    /\ messages = <<>> /\ toolCallsMade = <<>> /\ iteration = 0
    /\ retriedEmpty = FALSE /\ pending = <<>> /\ attempts = 0
    /\ answer = "none" /\ cold \in 0..ColdStart

-----------------------------------------------------------------------------
(* _amain() *)

(* The server is spawned and its tables listed for the system prompt. *)
StartsUp ==
    /\ pc = "startup"
    /\ pc' = "prompt"
    /\ UNCHANGED <<questionVars, attempts, answer, cold>>

StartupFails ==
    /\ "mcp" \in AgentFaults
    /\ pc = "startup"
    /\ pc' = "crashed"
    /\ UNCHANGED <<questionVars, attempts, answer, cold>>

AskKeepingRetried ==
    /\ pc = "prompt"
    /\ pc' = "chat"
    /\ messages' = <<Plain("system"), Plain("user")>>
    /\ toolCallsMade' = <<>> /\ iteration' = 0
    /\ attempts' = 0 /\ answer' = "none"
    /\ UNCHANGED <<retriedEmpty, pending, cold>>

Ask ==
    /\ pc = "prompt"
    /\ pc' = "chat"
    /\ messages' = <<Plain("system"), Plain("user")>>
    /\ toolCallsMade' = <<>> /\ iteration' = 0 /\ retriedEmpty' = FALSE
    /\ attempts' = 0 /\ answer' = "none"
    /\ UNCHANGED <<pending, cold>>

Quit ==
    /\ pc = "prompt"
    /\ pc' = "quit"
    /\ UNCHANGED <<questionVars, attempts, answer, cold>>

-----------------------------------------------------------------------------
(* await chat_fn(messages) *)

ChattingOnceMore == pc = "chat" /\ iteration <= MaxIterations

Chatting == pc = "chat" /\ iteration < MaxIterations

(* One more round, with a request of its own. *)
NextRound ==
    /\ iteration' = iteration + 1
    /\ attempts' = 0

Later(n) == IF n = 0 THEN 0 ELSE n - 1

(* 503 while the box is cold, or any 500: the SDK waits and tries again,   *)
(* then raises InternalServerError, which _amain() does not catch.         *)
Refusable == cold > 0 \/ "server" \in AgentFaults

RetriesRefused ==
    /\ Chatting /\ Refusable
    /\ attempts < MaxRetries
    /\ attempts' = attempts + 1
    /\ cold' = Later(cold)
    /\ UNCHANGED <<pc, questionVars, answer>>

ModelRefuses ==
    /\ Chatting /\ Refusable
    /\ attempts = MaxRetries
    /\ pc' = "crashed"
    /\ UNCHANGED <<questionVars, attempts, answer, cold>>

RetriesConnecting ==
    /\ "connection" \in AgentFaults
    /\ Chatting
    /\ attempts < MaxRetries
    /\ attempts' = attempts + 1
    /\ cold' = Later(cold)
    /\ UNCHANGED <<pc, questionVars, answer>>

(* APIConnectionError: the question is given up, the session goes on. *)
ModelUnreachable ==
    /\ "connection" \in AgentFaults
    /\ Chatting
    /\ attempts = MaxRetries
    /\ pc' = "prompt"
    /\ UNCHANGED <<questionVars, attempts, answer, cold>>

(* json.loads() raises in chat_fn() and nothing catches it. *)
BadArguments ==
    /\ "arguments" \in AgentFaults
    /\ Chatting /\ cold = 0
    /\ pc' = "crashed"
    /\ UNCHANGED <<questionVars, attempts, answer, cold>>

-----------------------------------------------------------------------------
(* The rest of run_agent_loop() *)

Returns(text) ==
    /\ pc' = "prompt"
    /\ answer' = text
    /\ UNCHANGED <<questionVars, attempts, cold>>

Answers == Chatting /\ cold = 0 /\ Returns("text")

NudgesForFree ==
    /\ Chatting /\ cold = 0
    /\ ~retriedEmpty
    /\ retriedEmpty' = TRUE
    /\ messages' = Append(messages, Plain("nudge"))
    /\ attempts' = 0
    /\ UNCHANGED <<pc, toolCallsMade, iteration, pending, answer, cold>>

(* The first empty response is answered with a request to try again. *)
Nudges ==
    /\ Chatting /\ cold = 0
    /\ ~retriedEmpty
    /\ retriedEmpty' = TRUE
    /\ messages' = Append(messages, Plain("nudge"))
    /\ NextRound
    /\ UNCHANGED <<pc, toolCallsMade, pending, answer, cold>>

(* The second one is taken for the answer. *)
AnswersNothing == Chatting /\ cold = 0 /\ retriedEmpty /\ Returns("empty")

CallsTools(calls) ==
    /\ Chatting /\ cold = 0
    /\ messages' = Append(messages, Assistant(calls))
    /\ pending' = calls
    /\ pc' = "tools"
    /\ UNCHANGED <<toolCallsMade, iteration, retriedEmpty, attempts, answer, cold>>

ToolDoneUnrecorded(ok) ==
    /\ pc = "tools"
    /\ messages' = Append(messages, Tool(Head(pending), ok))
    /\ toolCallsMade' = IF ok
          THEN Append(toolCallsMade, [id |-> Head(pending), ok |-> ok])
          ELSE toolCallsMade
    /\ pending' = Tail(pending)
    /\ IF Tail(pending) = <<>>
          THEN pc' = "chat" /\ NextRound
          ELSE UNCHANGED <<pc, iteration, attempts>>
    /\ UNCHANGED <<retriedEmpty, answer, cold>>

ToolDoneAborts(ok) ==
    /\ pc = "tools"
    /\ messages' = Append(messages, Tool(Head(pending), ok))
    /\ toolCallsMade' = Append(toolCallsMade, [id |-> Head(pending), ok |-> ok])
    /\ IF ok /\ Tail(pending) # <<>>
          THEN pending' = Tail(pending) /\ UNCHANGED <<pc, iteration, attempts>>
          ELSE pending' = <<>> /\ pc' = "chat" /\ NextRound
    /\ UNCHANGED <<retriedEmpty, answer, cold>>

(* A failing tool (ok = FALSE) answers "Error: ..." and the loop goes on.  *)
ToolDone(ok) ==
    /\ pc = "tools"
    /\ messages' = Append(messages, Tool(Head(pending), ok))
    /\ toolCallsMade' = Append(toolCallsMade, [id |-> Head(pending), ok |-> ok])
    /\ pending' = Tail(pending)
    /\ IF Tail(pending) = <<>>
          THEN pc' = "chat" /\ NextRound
          ELSE UNCHANGED <<pc, iteration, attempts>>
    /\ UNCHANGED <<retriedEmpty, answer, cold>>

(* The session's own exception, not a ToolExecutionError. *)
ServerGone ==
    /\ "mcp" \in AgentFaults
    /\ pc = "tools"
    /\ pc' = "crashed" /\ pending' = <<>>
    /\ UNCHANGED <<messages, toolCallsMade, iteration, retriedEmpty, attempts,
                   answer, cold>>

GivesUpLate ==
    /\ pc = "chat" /\ iteration > MaxIterations
    /\ pc' = "prompt"
    /\ UNCHANGED <<questionVars, attempts, answer, cold>>

(* AgentLoopError: printed, and the session goes on. *)
GivesUp ==
    /\ pc = "chat" /\ iteration = MaxIterations
    /\ pc' = "prompt"
    /\ UNCHANGED <<questionVars, attempts, answer, cold>>

(* While the user thinks, the idle reaper stops the box. *)
Cools ==
    /\ pc = "prompt" /\ cold < ColdStart
    /\ cold' = ColdStart
    /\ UNCHANGED <<pc, questionVars, attempts, answer>>

-----------------------------------------------------------------------------
ChatStep ==
    \/ RetriesRefused \/ ModelRefuses
    \/ RetriesConnecting \/ ModelUnreachable
    \/ BadArguments
    \/ Answers \/ Nudges \/ AnswersNothing
    \/ \E calls \in Batches : CallsTools(calls)
    \/ GivesUp

LoopStep == ChatStep \/ (\E ok \in BOOLEAN : ToolDone(ok)) \/ ServerGone

BetweenQuestions == StartsUp \/ StartupFails \/ Quit \/ Cools

AgentNext == BetweenQuestions \/ Ask \/ LoopStep

AgentSpec == AgentInit /\ [][AgentNext]_agentVars

-----------------------------------------------------------------------------
(* Properties *)

(* Whenever the model is asked, every assistant message that called tools  *)
(* is followed at once by one tool message for each of its calls, in their *)
(* order, and there is no other tool message: the chat API rejects any     *)
(* other history (loop.py 118-132), and a failing tool must not tear it.   *)
ChatWellFormed ==
    pc = "chat" =>
        /\ \A i \in DOMAIN messages : \A j \in DOMAIN messages[i].calls :
              /\ i + j \in DOMAIN messages
              /\ messages[i + j].role = "tool"
              /\ messages[i + j].id = messages[i].calls[j]
        /\ \A i \in DOMAIN messages :
              messages[i].role = "tool" =>
                  \E k \in 1..i - 1 : k + Len(messages[k].calls) >= i

(* The tool calls printed under an answer (cli.py 78-82) are those that    *)
(* the model was shown the results of, with the same outcome and in the    *)
(* same order, the failed ones included: the record for a result is the    *)
(* one of its rank.                                                        *)
Results == {i \in DOMAIN messages : messages[i].role = "tool"}

Rank(i) == Cardinality({j \in Results : j <= i})

PrintsWhatTheModelSaw ==
    /\ Len(toolCallsMade) = Cardinality(Results)
    /\ \A i \in Results :
          toolCallsMade[Rank(i)] = [id |-> messages[i].id, ok |-> messages[i].ok]

(* An empty answer is printed only after the model has been asked once     *)
(* more in this very question (loop.py 108-116), and it is asked so once   *)
(* at most, with tool calls between or not.                                *)
NudgesOf == {i \in DOMAIN messages : messages[i].role = "nudge"}

EmptyOnlyWhenRetried ==
    /\ Cardinality(NudgesOf) <= 1
    /\ answer = "empty" => NudgesOf # {}

(* No question costs more than max_iterations model responses, the empty   *)
(* ones included (loop.py 90 and 134).                                     *)
ResponsesWithinBudget ==
    Cardinality({i \in DOMAIN messages : messages[i].role \in {"assistant", "nudge"}})
        + (IF answer # "none" THEN 1 ELSE 0) <= MaxIterations

(* A question ends, in an answer, a message or the end of the program,     *)
(* whatever the model says and whichever calls fail (loop.py 90-134),      *)
(* provided that each call comes back, with a result or an error.  For a   *)
(* query that is up to the warehouse: src/README.md:51 promises query      *)
(* timeouts, but there is none around connector.run_query() (server.py 58) *)
(* nor around the call that waits for it (mcp_client.py 52).               *)
QuestionEnds == pc = "chat" ~> pc \in {"prompt", "crashed"}

=============================================================================
