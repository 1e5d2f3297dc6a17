----------------------------- MODULE AgentProofs -----------------------------
(***************************************************************************)
(* Proofs about the agent loop, for any iteration budget, any responses of *)
(* the model and any faults, and about its composition with the query      *)
(* server.                                                                 *)
(***************************************************************************)
EXTENDS AgentQueries, FiniteSetTheorems, TLAPS

LEMMA Bounds ==
    /\ MaxIterations \in Nat /\ MaxIterations > 0
    /\ MaxRetries \in Nat /\ ColdStart \in Nat
BY AgentAssumption

(* A message that is appended, and those before it. *)
LEMMA Appended ==
    ASSUME NEW S, NEW s \in Seq(S), NEW e \in S
    PROVE  /\ Append(s, e) \in Seq(S)
           /\ Len(Append(s, e)) = Len(s) + 1
           /\ \A i \in 1..Len(s) : Append(s, e)[i] = s[i]
           /\ Append(s, e)[Len(s) + 1] = e
OBVIOUS

LEMMA MessageKinds ==
    /\ \A role \in {"system", "user", "nudge"} : Plain(role) \in Message
    /\ \A calls \in Batches : Assistant(calls) \in Message
    /\ \A id \in Ids, ok \in BOOLEAN : Tool(id, ok) \in Message
BY DEF Message

LEMMA PendingHead ==
    ASSUME AgentTypeOK, pc = "tools"
    PROVE  Head(pending) \in Ids /\ Tail(pending) \in Seq(Ids) /\ pending # <<>>
BY DEF AgentTypeOK

(* A response with tool calls is one of a round the budget has. *)
RoundOpen == pc = "tools" => iteration < MaxIterations

AgentTyped == AgentTypeOK /\ RoundOpen

LEMMA AgentTypedInit == AgentInit => AgentTyped
<1>. SUFFICES ASSUME AgentInit PROVE AgentTyped
  OBVIOUS
<1>1. messages \in Seq(Message) /\ toolCallsMade \in Seq(ToolCallRecord) /\ pending \in Seq(Ids)
  BY DEF AgentInit
<1>2. /\ iteration \in 0..MaxIterations /\ attempts \in 0..MaxRetries
      /\ cold \in 0..ColdStart
  BY Bounds DEF AgentInit
<1>. QED  BY <1>1, <1>2 DEF AgentInit, AgentTyped, AgentTypeOK, RoundOpen

LEMMA AgentTypedStep == AgentTyped /\ [AgentNext]_agentVars => AgentTyped'
<1>. SUFFICES ASSUME AgentTyped, [AgentNext]_agentVars PROVE AgentTyped'
  OBVIOUS
<1>. USE Bounds DEF AgentTyped, RoundOpen
<1>1. CASE StartsUp \/ StartupFails \/ Quit
  BY <1>1 DEF AgentTypeOK, StartsUp, StartupFails, Quit, questionVars
<1>2. CASE Cools
  BY <1>2 DEF AgentTypeOK, Cools, questionVars
<1>3. CASE Ask
  <2>1. <<Plain("system"), Plain("user")>> \in Seq(Message)
    BY MessageKinds
  <2>2. toolCallsMade' \in Seq(ToolCallRecord)
    BY <1>3 DEF Ask
  <2>3. pc = "prompt" /\ pc' = "chat" /\ pending' = pending
    BY <1>3 DEF Ask
  <2>4. /\ iteration' = 0 /\ retriedEmpty' = FALSE
        /\ attempts' = 0 /\ answer' = "none" /\ cold' = cold
    BY <1>3 DEF Ask
  <2>5. messages' \in Seq(Message)
    BY <1>3, <2>1 DEF Ask
  <2>6. pending' \in Seq(Ids) /\ (pending' # <<>> <=> pc' = "tools")
    BY <2>3 DEF AgentTypeOK
  <2>7. /\ iteration' \in 0..MaxIterations /\ attempts' \in 0..MaxRetries
        /\ cold' \in 0..ColdStart
    BY <2>4 DEF AgentTypeOK
  <2>. QED  BY <2>2, <2>3, <2>4, <2>5, <2>6, <2>7 DEF AgentTypeOK
<1>4. CASE RetriesRefused \/ RetriesConnecting
  BY <1>4 DEF AgentTypeOK, RetriesRefused, RetriesConnecting, Later, questionVars, Chatting
<1>5. CASE ModelRefuses \/ ModelUnreachable \/ BadArguments \/ GivesUp
  BY <1>5 DEF AgentTypeOK, ModelRefuses, ModelUnreachable, BadArguments, GivesUp,
              questionVars, Chatting
<1>6. CASE Answers \/ AnswersNothing
  BY <1>6 DEF AgentTypeOK, Answers, AnswersNothing, Returns, questionVars, Chatting
<1>7. CASE Nudges
  <2>1. messages' \in Seq(Message)
    BY <1>7, MessageKinds, Appended DEF Nudges, AgentTypeOK
  <2>. QED  BY <1>7, <2>1 DEF AgentTypeOK, Nudges, NextRound, Chatting
<1>8. ASSUME NEW calls \in Batches, CallsTools(calls) PROVE AgentTyped'
  <2>0. calls \in Seq(Ids) /\ calls # <<>>
    BY AgentAssumption
  <2>1. messages' \in Seq(Message)
    BY <1>8, MessageKinds, Appended DEF CallsTools, AgentTypeOK
  <2>. QED  BY <1>8, <2>0, <2>1 DEF AgentTypeOK, CallsTools, Chatting
<1>9. ASSUME NEW ok \in BOOLEAN, ToolDone(ok) PROVE AgentTyped'
  <2>1. pc = "tools"
    BY <1>9 DEF ToolDone
  <2>2. messages' \in Seq(Message)
    BY <1>9, <2>1, PendingHead, MessageKinds, Appended DEF ToolDone, AgentTypeOK
  <2>3. [id |-> Head(pending), ok |-> ok] \in ToolCallRecord
    BY <2>1, PendingHead DEF ToolCallRecord
  <2>4. toolCallsMade' \in Seq(ToolCallRecord)
    BY <1>9, <2>3, Appended DEF ToolDone, AgentTypeOK
  <2>5. /\ pending' = Tail(pending)
        /\ UNCHANGED <<retriedEmpty, answer, cold>>
        /\ \/ pending' = <<>> /\ pc' = "chat" /\ iteration' = iteration + 1 /\ attempts' = 0
           \/ pending' # <<>> /\ UNCHANGED <<pc, iteration, attempts>>
    BY <1>9 DEF ToolDone, NextRound
  <2>. QED  BY <2>1, <2>2, <2>4, <2>5, PendingHead DEF AgentTypeOK
<1>10. CASE ServerGone
  BY <1>10 DEF AgentTypeOK, ServerGone
<1>11. CASE UNCHANGED agentVars
  BY <1>11 DEF AgentTypeOK, agentVars, questionVars
<1>. QED
  BY <1>1, <1>2, <1>3, <1>4, <1>5, <1>6, <1>7, <1>8, <1>9, <1>10, <1>11
     DEF AgentNext, BetweenQuestions, LoopStep, ChatStep

(* Type correctness of the session, for any budget and any responses. *)
THEOREM AgentTypeCorrect == AgentSpec => []AgentTypeOK
<1>1. AgentTyped => AgentTypeOK
  BY DEF AgentTyped
<1>. QED  BY <1>1, AgentTypedInit, AgentTypedStep, PTL DEF AgentSpec

-----------------------------------------------------------------------------
(* What a step may do to the history *)

(* The history is begun, is kept, or grows by one message; and what goes   *)
(* with each.                                                              *)
Begins ==
    /\ messages' = <<Plain("system"), Plain("user")>>
    /\ pc' = "chat" /\ iteration' = 0 /\ answer' = "none" /\ retriedEmpty' = FALSE

Keeps ==
    /\ UNCHANGED <<messages, iteration, retriedEmpty>>
    /\ pc' # "tools"
    /\ pc' = "chat" => pc = "chat"
    /\ \/ answer' = answer
       \/ /\ pc = "chat" /\ iteration < MaxIterations /\ pc' = "prompt"
          /\ answer' = "text" \/ (answer' = "empty" /\ retriedEmpty)

GrowsByNudge ==
    /\ messages' = Append(messages, Plain("nudge"))
    /\ ~retriedEmpty /\ retriedEmpty' = TRUE
    /\ pc = "chat" /\ pc' = "chat" /\ iteration < MaxIterations
    /\ iteration' = iteration + 1 /\ answer' = answer

GrowsByCalls(calls) ==
    /\ messages' = Append(messages, Assistant(calls))
    /\ pending' = calls
    /\ pc = "chat" /\ pc' = "tools" /\ iteration < MaxIterations
    /\ UNCHANGED <<iteration, retriedEmpty, answer>>

GrowsByResult(ok) ==
    /\ messages' = Append(messages, Tool(Head(pending), ok))
    /\ pending' = Tail(pending)
    /\ pc = "tools"
    /\ \/ pending' = <<>> /\ pc' = "chat" /\ iteration' = iteration + 1
       \/ pending' # <<>> /\ UNCHANGED <<pc, iteration>>
    /\ UNCHANGED <<retriedEmpty, answer>>

Unmoved == UNCHANGED <<messages, pending, pc, iteration, retriedEmpty, answer>>

LEMMA HistorySteps ==
    ASSUME [AgentNext]_agentVars
    PROVE  \/ Begins \/ Keeps \/ GrowsByNudge
           \/ \E calls \in Batches : GrowsByCalls(calls)
           \/ \E ok \in BOOLEAN : GrowsByResult(ok)
           \/ Unmoved
<1>1. CASE StartsUp \/ StartupFails \/ Quit \/ Cools
  BY <1>1 DEF StartsUp, StartupFails, Quit, Cools, Keeps, questionVars
<1>2. CASE Ask
  BY <1>2 DEF Ask, Begins
<1>3. CASE RetriesRefused \/ RetriesConnecting
  BY <1>3 DEF RetriesRefused, RetriesConnecting, Chatting, Unmoved, questionVars
<1>4. CASE ModelRefuses \/ ModelUnreachable \/ BadArguments \/ GivesUp
  BY <1>4 DEF ModelRefuses, ModelUnreachable, BadArguments, GivesUp, Keeps, questionVars
<1>5. CASE Answers \/ AnswersNothing
  BY <1>5 DEF Answers, AnswersNothing, Returns, Chatting, Keeps, questionVars
<1>6. CASE Nudges
  BY <1>6 DEF Nudges, Chatting, NextRound, GrowsByNudge
<1>7. ASSUME NEW calls \in Batches, CallsTools(calls) PROVE GrowsByCalls(calls)
  BY <1>7 DEF CallsTools, Chatting, GrowsByCalls
<1>8. ASSUME NEW ok \in BOOLEAN, ToolDone(ok) PROVE GrowsByResult(ok)
  BY <1>8 DEF ToolDone, NextRound, GrowsByResult
<1>9. CASE ServerGone
  BY <1>9 DEF ServerGone, Keeps
<1>10. CASE UNCHANGED agentVars
  BY <1>10 DEF agentVars, questionVars, Unmoved
<1>. QED
  BY <1>1, <1>2, <1>3, <1>4, <1>5, <1>6, <1>7, <1>8, <1>9, <1>10
     DEF AgentNext, BetweenQuestions, LoopStep, ChatStep

-----------------------------------------------------------------------------
(* The empty response *)

NudgedOnce ==
    /\ ~retriedEmpty => NudgesOf = {}
    /\ retriedEmpty => \E n : NudgesOf = {n}
    /\ answer = "empty" => retriedEmpty

(* A message that is appended adds itself, or nothing, to those of a sort. *)
LEMMA OneMore ==
    ASSUME NEW S, NEW s \in Seq(S), NEW e \in S, NEW R
    PROVE  {i \in DOMAIN Append(s, e) : Append(s, e)[i].role \in R} =
             {i \in DOMAIN s : s[i].role \in R} \cup
                (IF e.role \in R THEN {Len(s) + 1} ELSE {})
<1>1. DOMAIN s = 1..Len(s) /\ Len(s) \in Nat
  OBVIOUS
<1>2. DOMAIN Append(s, e) = 1..Len(s) + 1
  OBVIOUS
<1>. QED  BY <1>1, <1>2, Appended

LEMMA Roles ==
    /\ \A role : Plain(role).role = role /\ Plain(role).calls = <<>>
    /\ \A calls : Assistant(calls).role = "assistant" /\ Assistant(calls).calls = calls
    /\ \A id, ok : /\ Tool(id, ok).role = "tool" /\ Tool(id, ok).calls = <<>>
                   /\ Tool(id, ok).id = id
BY DEF Plain, Assistant, Tool

LEMMA NudgesGrow ==
    ASSUME NEW e \in Message, messages \in Seq(Message), messages' = Append(messages, e)
    PROVE  NudgesOf' = NudgesOf \cup (IF e.role = "nudge" THEN {Len(messages) + 1} ELSE {})
<1>1. NudgesOf = {i \in DOMAIN messages : messages[i].role \in {"nudge"}}
  BY DEF NudgesOf
<1>2. NudgesOf' = {i \in DOMAIN messages' : messages'[i].role \in {"nudge"}}
  BY DEF NudgesOf
<1>3. {i \in DOMAIN Append(messages, e) : Append(messages, e)[i].role \in {"nudge"}} =
         {i \in DOMAIN messages : messages[i].role \in {"nudge"}} \cup
            (IF e.role \in {"nudge"} THEN {Len(messages) + 1} ELSE {})
  BY OneMore
<1>. QED  BY <1>1, <1>2, <1>3

LEMMA NudgedOnceStep ==
    ASSUME AgentTyped, NudgedOnce, [AgentNext]_agentVars
    PROVE  NudgedOnce'
<1>. USE DEF NudgedOnce
<1>0. messages \in Seq(Message)
  BY DEF AgentTyped, AgentTypeOK
<1>1. CASE Begins
  <2>1. messages'[1].role = "system" /\ messages'[2].role = "user" /\ DOMAIN messages' = 1..2
    BY <1>1, Roles DEF Begins
  <2>2. NudgesOf' = {}
    BY <2>1 DEF NudgesOf
  <2>. QED  BY <1>1, <2>2 DEF Begins
<1>2. CASE Keeps
  BY <1>2 DEF Keeps, NudgesOf
<1>3. CASE GrowsByNudge
  <2>1. NudgesOf' = NudgesOf \cup {Len(messages) + 1}
    BY <1>0, <1>3, NudgesGrow, MessageKinds, Roles DEF GrowsByNudge
  <2>. QED  BY <1>3, <2>1 DEF GrowsByNudge
<1>4. ASSUME NEW calls \in Batches, GrowsByCalls(calls) PROVE NudgedOnce'
  <2>1. NudgesOf' = NudgesOf
    BY <1>0, <1>4, NudgesGrow, MessageKinds, Roles DEF GrowsByCalls
  <2>. QED  BY <1>4, <2>1 DEF GrowsByCalls
<1>5. ASSUME NEW ok \in BOOLEAN, GrowsByResult(ok) PROVE NudgedOnce'
  <2>1. Tool(Head(pending), ok) \in Message
    BY <1>5, PendingHead, MessageKinds DEF GrowsByResult, AgentTyped
  <2>2. NudgesOf' = NudgesOf
    BY <1>0, <1>5, <2>1, NudgesGrow, Roles DEF GrowsByResult
  <2>. QED  BY <1>5, <2>2 DEF GrowsByResult
<1>6. CASE Unmoved
  BY <1>6 DEF Unmoved, NudgesOf
<1>. QED  BY <1>1, <1>2, <1>3, <1>4, <1>5, <1>6, HistorySteps

(* The model is asked again at most once in a question, and an empty       *)
(* answer is printed only when it has been (loop.py 108-116).              *)
THEOREM EmptyOnlyAfterRetry == AgentSpec => []EmptyOnlyWhenRetried
<1>1. AgentInit => NudgedOnce
  BY DEF AgentInit, NudgedOnce, NudgesOf
<1>2. NudgedOnce => EmptyOnlyWhenRetried
  <2>1. NudgedOnce => NudgesOf = {} \/ \E n : NudgesOf = {n}
    BY Zenon DEF NudgedOnce
  <2>2. NudgesOf = {} => Cardinality(NudgesOf) <= 1
    BY FS_EmptySet
  <2>3. ASSUME NEW n, NudgesOf = {n} PROVE Cardinality(NudgesOf) <= 1
    BY <2>3, FS_Singleton
  <2>. QED  BY <2>1, <2>2, <2>3 DEF NudgedOnce, EmptyOnlyWhenRetried
<1>. QED
  BY <1>1, <1>2, AgentTypedInit, AgentTypedStep, NudgedOnceStep, PTL DEF AgentSpec

-----------------------------------------------------------------------------
(* The budget *)

Responses == {i \in DOMAIN messages : messages[i].role \in {"assistant", "nudge"}}

Spent ==
    /\ IsFiniteSet(Responses)
    /\ pc = "chat" => Cardinality(Responses) = iteration
    /\ pc = "tools" => Cardinality(Responses) = iteration + 1
    /\ pc \in {"chat", "tools"} => answer = "none"
    /\ Cardinality(Responses) + (IF answer # "none" THEN 1 ELSE 0) <= MaxIterations

LEMMA ResponsesGrow ==
    ASSUME NEW e \in Message, messages \in Seq(Message), messages' = Append(messages, e),
           IsFiniteSet(Responses)
    PROVE  /\ IsFiniteSet(Responses')
           /\ Cardinality(Responses') = Cardinality(Responses) +
                (IF e.role \in {"assistant", "nudge"} THEN 1 ELSE 0)
           /\ Cardinality(Responses) \in Nat
<1>1. Responses' = Responses \cup
        (IF e.role \in {"assistant", "nudge"} THEN {Len(messages) + 1} ELSE {})
  <2>1. {i \in DOMAIN Append(messages, e) :
             Append(messages, e)[i].role \in {"assistant", "nudge"}} =
           {i \in DOMAIN messages : messages[i].role \in {"assistant", "nudge"}} \cup
              (IF e.role \in {"assistant", "nudge"} THEN {Len(messages) + 1} ELSE {})
    BY OneMore
  <2>. QED  BY <2>1 DEF Responses
<1>2. Len(messages) + 1 \notin Responses
  BY DEF Responses
<1>3. Cardinality(Responses) \in Nat
  BY FS_CardinalityType
<1>4. IsFiniteSet(Responses \cup {Len(messages) + 1})
      /\ Cardinality(Responses \cup {Len(messages) + 1}) = Cardinality(Responses) + 1
  BY <1>2, FS_AddElement
<1>5. CASE e.role \in {"assistant", "nudge"}
  BY <1>1, <1>3, <1>4, <1>5
<1>6. CASE e.role \notin {"assistant", "nudge"}
  BY <1>1, <1>3, <1>6
<1>. QED  BY <1>5, <1>6

LEMMA SpentStep ==
    ASSUME AgentTyped, Spent, [AgentNext]_agentVars
    PROVE  Spent'
<1>. USE Bounds DEF Spent
<1>0. messages \in Seq(Message) /\ iteration \in Nat /\ Cardinality(Responses) \in Nat
  BY FS_CardinalityType DEF AgentTyped, AgentTypeOK
<1>1. CASE Begins
  <2>1. messages'[1].role = "system" /\ messages'[2].role = "user" /\ DOMAIN messages' = 1..2
    BY <1>1, Roles DEF Begins
  <2>2. Responses' = {}
    BY <2>1 DEF Responses
  <2>3. IsFiniteSet(Responses') /\ Cardinality(Responses') = 0
    BY <2>2, FS_EmptySet
  <2>. QED  BY <1>1, <2>3 DEF Begins
<1>2. CASE Keeps
  <2>1. Responses' = Responses
    BY <1>2 DEF Keeps, Responses
  <2>. QED  BY <1>0, <1>2, <2>1 DEF Keeps
<1>3. CASE GrowsByNudge
  <2>1. IsFiniteSet(Responses') /\ Cardinality(Responses') = Cardinality(Responses) + 1
    BY <1>0, <1>3, ResponsesGrow, MessageKinds, Roles DEF GrowsByNudge
  <2>. QED  BY <1>0, <1>3, <2>1 DEF GrowsByNudge
<1>4. ASSUME NEW calls \in Batches, GrowsByCalls(calls) PROVE Spent'
  <2>1. IsFiniteSet(Responses') /\ Cardinality(Responses') = Cardinality(Responses) + 1
    BY <1>0, <1>4, ResponsesGrow, MessageKinds, Roles DEF GrowsByCalls
  <2>. QED  BY <1>0, <1>4, <2>1 DEF GrowsByCalls
<1>5. ASSUME NEW ok \in BOOLEAN, GrowsByResult(ok) PROVE Spent'
  <2>1. Tool(Head(pending), ok) \in Message
    BY <1>5, PendingHead, MessageKinds DEF GrowsByResult, AgentTyped
  <2>2. IsFiniteSet(Responses') /\ Cardinality(Responses') = Cardinality(Responses)
    BY <1>0, <1>5, <2>1, ResponsesGrow, Roles DEF GrowsByResult
  <2>. QED  BY <1>0, <1>5, <2>2 DEF GrowsByResult
<1>6. CASE Unmoved
  <2>1. Responses' = Responses
    BY <1>6 DEF Unmoved, Responses
  <2>. QED  BY <1>6, <2>1 DEF Unmoved
<1>. QED  BY <1>1, <1>2, <1>3, <1>4, <1>5, <1>6, HistorySteps

(* No question costs more than max_iterations responses (loop.py 90, 134). *)
THEOREM BudgetHolds == AgentSpec => []ResponsesWithinBudget
<1>1. AgentInit => Spent
  <2>. SUFFICES ASSUME AgentInit PROVE Spent
    OBVIOUS
  <2>1. Responses = {}
    BY DEF AgentInit, Responses
  <2>2. IsFiniteSet(Responses) /\ Cardinality(Responses) = 0
    BY <2>1, FS_EmptySet
  <2>. QED  BY <2>2, Bounds DEF AgentInit, Spent
<1>2. Spent => ResponsesWithinBudget
  BY DEF Spent, Responses, ResponsesWithinBudget
<1>. QED
  BY <1>1, <1>2, AgentTypedInit, AgentTypedStep, SpentStep, PTL DEF AgentSpec

-----------------------------------------------------------------------------
(* The history sent to the model *)

LEMMA CallsAreIds ==
    ASSUME AgentTypeOK
    PROVE  /\ DOMAIN messages = 1..Len(messages) /\ Len(messages) \in Nat
           /\ \A i \in DOMAIN messages :
                 /\ messages[i].calls \in Seq(Ids)
                 /\ DOMAIN messages[i].calls = 1..Len(messages[i].calls)
                 /\ Len(messages[i].calls) \in Nat
<1>1. messages \in Seq(Message)
  BY DEF AgentTypeOK
<1>2. \A m \in Message : m.calls \in Seq(Ids)
  <2>1. <<>> \in Seq(Ids) /\ \A calls \in Batches : calls \in Seq(Ids)
    BY AgentAssumption
  <2>2. \A role : Plain(role).calls \in Seq(Ids)
    BY <2>1, Roles
  <2>3. \A calls \in Batches : Assistant(calls).calls \in Seq(Ids)
    BY <2>1, Roles
  <2>4. \A id, ok : Tool(id, ok).calls \in Seq(Ids)
    BY <2>1 DEF Tool
  <2>. QED  BY <2>2, <2>3, <2>4 DEF Message
<1>3. DOMAIN messages = 1..Len(messages) /\ Len(messages) \in Nat
  BY <1>1
<1>4. \A i \in DOMAIN messages : messages[i] \in Message
  BY <1>1
<1>5. \A q \in Seq(Ids) : DOMAIN q = 1..Len(q) /\ Len(q) \in Nat
  OBVIOUS
<1>. QED  BY <1>2, <1>3, <1>4, <1>5

(* A tool message that is there answers the call it stands for. *)
Answered ==
    \A i \in DOMAIN messages : \A j \in DOMAIN messages[i].calls :
        i + j \in DOMAIN messages =>
            messages[i + j].role = "tool" /\ messages[i + j].id = messages[i].calls[j]

CalledFor ==
    \A i \in DOMAIN messages :
        messages[i].role = "tool" => \E k \in 1..i - 1 : k + Len(messages[k].calls) >= i

(* The results of all calls of response i are there. *)
Complete(i) == i + Len(messages[i].calls) <= Len(messages)

(* Response k is being worked on, and the calls that are pending are those *)
(* of its calls whose results would come next.                             *)
UnderWay(k) ==
    /\ k + Len(messages[k].calls) = Len(messages) + Len(pending)
    /\ \A n \in 1..Len(pending) : pending[n] = messages[k].calls[Len(messages) - k + n]
    /\ \A i \in DOMAIN messages \ {k} : Complete(i)

HistoryInv ==
    /\ Answered /\ CalledFor
    /\ pc = "chat" => \A i \in DOMAIN messages : Complete(i)
    /\ pc = "tools" => \E k \in DOMAIN messages : UnderWay(k)

LEMMA HistoryGrows ==
    ASSUME AgentTypeOK, NEW e \in Message, messages' = Append(messages, e)
    PROVE  /\ Len(messages') = Len(messages) + 1
           /\ DOMAIN messages' = 1..Len(messages) + 1
           /\ \A i \in DOMAIN messages : messages'[i] = messages[i]
           /\ messages'[Len(messages) + 1] = e
           /\ DOMAIN messages = 1..Len(messages) /\ Len(messages) \in Nat
<1>1. messages \in Seq(Message)
  BY DEF AgentTypeOK
<1>2. DOMAIN Append(messages, e) = 1..Len(messages) + 1
  BY <1>1
<1>. QED  BY <1>1, <1>2, Appended, CallsAreIds

(* Behind responses that are complete a message may be added. *)
LEMMA AnsweredGrows ==
    ASSUME AgentTypeOK, Answered, \A i \in DOMAIN messages : Complete(i),
           NEW L, L = Len(messages), DOMAIN messages' = 1..L + 1,
           \A i \in DOMAIN messages : messages'[i] = messages[i],
           DOMAIN messages'[L + 1].calls \subseteq Nat \ {0}
    PROVE  Answered'
<1>1. L \in Nat /\ DOMAIN messages = 1..L
  BY CallsAreIds
<1>. SUFFICES ASSUME NEW i \in 1..L + 1, NEW j \in DOMAIN messages'[i].calls,
                     i + j \in 1..L + 1
              PROVE  /\ messages'[i + j].role = "tool"
                     /\ messages'[i + j].id = messages'[i].calls[j]
  BY DEF Answered
<1>2. i # L + 1
  BY <1>1
<1>3. i \in DOMAIN messages /\ messages'[i] = messages[i]
  BY <1>1, <1>2
<1>4. j \in 1..Len(messages[i].calls) /\ Len(messages[i].calls) \in Nat
  BY <1>3, CallsAreIds
<1>5. i + Len(messages[i].calls) <= L
  BY <1>3 DEF Complete
<1>6. i + j \in DOMAIN messages
  BY <1>1, <1>3, <1>4, <1>5
<1>7. messages[i + j].role = "tool" /\ messages[i + j].id = messages[i].calls[j]
  BY <1>3, <1>6 DEF Answered
<1>. QED  BY <1>3, <1>6, <1>7

(* A message without calls, when nothing is owed. *)
LEMMA HistoryTakesNudge ==
    ASSUME AgentTypeOK, HistoryInv, GrowsByNudge
    PROVE  HistoryInv'
<1>. DEFINE L == Len(messages)
<1>1. /\ Len(messages') = L + 1 /\ DOMAIN messages' = 1..L + 1
      /\ \A i \in DOMAIN messages : messages'[i] = messages[i]
      /\ messages'[L + 1].role = "nudge" /\ messages'[L + 1].calls = <<>>
      /\ DOMAIN messages = 1..L /\ L \in Nat
  BY HistoryGrows, MessageKinds, Roles DEF GrowsByNudge
<1>2. /\ \A i \in DOMAIN messages : Complete(i)
      /\ pc' = "chat"
  BY DEF GrowsByNudge, HistoryInv
<1>3. Answered'
  BY <1>1, <1>2, AnsweredGrows DEF HistoryInv
<1>4. CalledFor'
  <2>. SUFFICES ASSUME NEW i \in DOMAIN messages, messages'[i].role = "tool"
                PROVE  \E n \in 1..i - 1 : n + Len(messages'[n].calls) >= i
    BY <1>1 DEF CalledFor
  <2>1. PICK n \in 1..i - 1 : n + Len(messages[n].calls) >= i
    BY <1>1 DEF CalledFor, HistoryInv
  <2>2. n \in DOMAIN messages
    BY <1>1
  <2>. QED  BY <1>1, <2>1, <2>2
<1>5. \A i \in DOMAIN messages' : Complete(i)'
  BY <1>1, <1>2, CallsAreIds DEF Complete
<1>. QED  BY <1>2, <1>3, <1>4, <1>5 DEF HistoryInv

(* A response with calls, of which none has been executed. *)
LEMMA HistoryTakesCalls ==
    ASSUME AgentTypeOK, HistoryInv, NEW calls \in Batches, GrowsByCalls(calls)
    PROVE  HistoryInv'
<1>. PICK L, k : L = Len(messages) /\ k = L + 1
  OBVIOUS
<1>0. calls \in Seq(Ids) /\ DOMAIN calls = 1..Len(calls) /\ Len(calls) \in Nat
  BY AgentAssumption
<1>1. /\ Len(messages') = L + 1 /\ DOMAIN messages' = 1..L + 1
      /\ \A i \in DOMAIN messages : messages'[i] = messages[i]
      /\ messages'[L + 1].role = "assistant" /\ messages'[L + 1].calls = calls
      /\ DOMAIN messages = 1..L /\ L \in Nat
  BY HistoryGrows, MessageKinds, Roles DEF GrowsByCalls
<1>2. /\ \A i \in DOMAIN messages : Complete(i)
      /\ pc' = "tools" /\ pending' = calls
  BY DEF GrowsByCalls, HistoryInv
<1>3. Answered'
  BY <1>0, <1>1, <1>2, AnsweredGrows DEF HistoryInv
<1>4. CalledFor'
  <2>. SUFFICES ASSUME NEW i \in DOMAIN messages, messages'[i].role = "tool"
                PROVE  \E n \in 1..i - 1 : n + Len(messages'[n].calls) >= i
    BY <1>1 DEF CalledFor
  <2>1. PICK n \in 1..i - 1 : n + Len(messages[n].calls) >= i
    BY <1>1 DEF CalledFor, HistoryInv
  <2>2. n \in DOMAIN messages
    BY <1>1
  <2>. QED  BY <1>1, <2>1, <2>2
<1>5. \A i \in DOMAIN messages : Complete(i)'
  BY <1>1, <1>2, CallsAreIds DEF Complete
<1>6. UnderWay(k)'
  <2>1. k + Len(messages'[k].calls) = Len(messages') + Len(pending')
    BY <1>0, <1>1, <1>2
  <2>2. \A n \in 1..Len(pending') :
            pending'[n] = messages'[k].calls[Len(messages') - k + n]
    BY <1>0, <1>1, <1>2
  <2>3. \A i \in DOMAIN messages' \ {k} : Complete(i)'
    BY <1>1, <1>5
  <2>. QED  BY <2>1, <2>2, <2>3 DEF UnderWay
<1>7. k \in DOMAIN messages'
  BY <1>1
<1>. QED  BY <1>2, <1>3, <1>4, <1>6, <1>7 DEF HistoryInv

(* The result of the call at the head of those pending. *)
LEMMA HistoryTakesResult ==
    ASSUME AgentTypeOK, HistoryInv, NEW ok \in BOOLEAN, GrowsByResult(ok)
    PROVE  HistoryInv'
<1>. PICK L, P : L = Len(messages) /\ P = Len(pending)
  OBVIOUS
<1>1. pc = "tools" /\ pending' = Tail(pending)
  BY DEF GrowsByResult
<1>2. PICK k \in DOMAIN messages : UnderWay(k)
  BY <1>1 DEF HistoryInv
<1>3. Tool(Head(pending), ok) \in Message
  BY <1>1, PendingHead, MessageKinds
<1>4. /\ Len(messages') = L + 1 /\ DOMAIN messages' = 1..L + 1
      /\ \A i \in DOMAIN messages : messages'[i] = messages[i]
      /\ messages'[L + 1] = Tool(Head(pending), ok)
      /\ DOMAIN messages = 1..L /\ L \in Nat
  BY <1>3, HistoryGrows DEF GrowsByResult
<1>5. /\ messages'[L + 1].role = "tool" /\ messages'[L + 1].calls = <<>>
      /\ messages'[L + 1].id = Head(pending)
  BY <1>4, Roles
<1>6. /\ P \in Nat \ {0} /\ Head(pending) = pending[1]
      /\ Len(Tail(pending)) = P - 1
      /\ \A n \in 1..P - 1 : Tail(pending)[n] = pending[n + 1]
  <2>1. pending \in Seq(Ids) /\ pending # <<>>
    BY <1>1 DEF AgentTypeOK
  <2>. QED  BY <2>1
<1>7. /\ k + Len(messages[k].calls) = L + P
      /\ Head(pending) = messages[k].calls[L + 1 - k]
      /\ L + 1 - k \in DOMAIN messages[k].calls
      /\ Len(messages[k].calls) \in Nat
      /\ k \in 1..L
  <2>1. k \in 1..L
    BY <1>4
  <2>2. /\ DOMAIN messages[k].calls = 1..Len(messages[k].calls)
        /\ Len(messages[k].calls) \in Nat
    BY CallsAreIds
  <2>3. /\ k + Len(messages[k].calls) = L + P
        /\ \A n \in 1..P : pending[n] = messages[k].calls[L - k + n]
    BY <1>2 DEF UnderWay
  <2>4. pending[1] = messages[k].calls[L - k + 1]
    BY <1>6, <2>3
  <2>5. L - k + 1 = L + 1 - k
    BY <1>4, <2>1
  <2>6. L + 1 - k \in 1..Len(messages[k].calls)
    BY <1>4, <1>6, <2>1, <2>2, <2>3
  <2>. QED  BY <1>6, <2>1, <2>2, <2>3, <2>4, <2>5, <2>6
<1>8. \A i \in DOMAIN messages \ {k} : Complete(i)
  BY <1>2 DEF UnderWay
<1>9. Answered'
  <2>. SUFFICES ASSUME NEW i \in DOMAIN messages, NEW j \in DOMAIN messages[i].calls,
                       i + j \in 1..L + 1
                PROVE  /\ messages'[i + j].role = "tool"
                       /\ messages'[i + j].id = messages[i].calls[j]
    BY <1>4, <1>5 DEF Answered
  <2>1. j \in Nat /\ i \in Nat /\ j <= Len(messages[i].calls)
        /\ Len(messages[i].calls) \in Nat
    BY <1>4, CallsAreIds
  <2>2. CASE i + j <= L
    <3>1. i + j \in DOMAIN messages
      BY <1>4, <2>1, <2>2
    <3>. QED  BY <1>4, <3>1 DEF Answered, HistoryInv
  <2>3. CASE i + j = L + 1
    <3>1. i = k
      BY <1>4, <1>8, <2>1, <2>3 DEF Complete
    <3>2. j = L + 1 - k
      BY <1>4, <2>1, <2>3, <3>1
    <3>. QED  BY <1>5, <1>7, <2>3, <3>1, <3>2
  <2>. QED  BY <1>4, <2>1, <2>2, <2>3
<1>10. CalledFor'
  <2>1. k \in 1..L /\ k + Len(messages'[k].calls) >= L + 1
    BY <1>4, <1>6, <1>7
  <2>2. \E n \in 1..(L + 1) - 1 : n + Len(messages'[n].calls) >= L + 1
    BY <1>4, <2>1
  <2>3. ASSUME NEW i \in DOMAIN messages, messages'[i].role = "tool"
        PROVE  \E n \in 1..i - 1 : n + Len(messages'[n].calls) >= i
    <3>1. PICK n \in 1..i - 1 : n + Len(messages[n].calls) >= i
      BY <1>4, <2>3 DEF CalledFor, HistoryInv
    <3>2. n \in DOMAIN messages
      BY <1>4
    <3>. QED  BY <1>4, <3>1, <3>2
  <2>. QED  BY <1>4, <2>2, <2>3 DEF CalledFor
<1>11. \A i \in DOMAIN messages' \ {k} : Complete(i)'
  BY <1>4, <1>5, <1>8, CallsAreIds DEF Complete
<1>12. pc' = "chat" => \A i \in DOMAIN messages' : Complete(i)'
  <2>1. pc' = "chat" => P = 1
    BY <1>1, <1>6 DEF GrowsByResult
  <2>2. ASSUME pc' = "chat" PROVE Complete(k)'
    <3>1. k + Len(messages[k].calls) = L + 1 /\ messages'[k] = messages[k]
      BY <1>4, <1>7, <2>1, <2>2
    <3>2. k + Len(messages'[k].calls) <= Len(messages')
      BY <1>4, <3>1
    <3>. QED  BY <3>2 DEF Complete
  <2>. QED  BY <1>11, <2>2
<1>13. UnderWay(k)'
  <2>1. k + Len(messages'[k].calls) = Len(messages') + Len(pending')
    BY <1>1, <1>4, <1>6, <1>7
  <2>2. ASSUME NEW n \in 1..Len(pending')
        PROVE  pending'[n] = messages'[k].calls[Len(messages') - k + n]
    <3>1. n \in 1..P - 1 /\ n + 1 \in 1..P
      BY <1>1, <1>6
    <3>2. pending'[n] = messages[k].calls[L - k + (n + 1)]
      BY <1>1, <1>2, <1>6, <3>1 DEF UnderWay
    <3>3. L - k + (n + 1) = Len(messages') - k + n
      BY <1>4, <1>7, <3>1
    <3>. QED  BY <1>4, <3>2, <3>3
  <2>. QED  BY <1>11, <2>1, <2>2 DEF UnderWay
<1>14. k \in DOMAIN messages'
  BY <1>4
<1>. QED  BY <1>9, <1>10, <1>12, <1>13, <1>14 DEF HistoryInv

LEMMA HistoryStep ==
    ASSUME AgentTyped, HistoryInv, [AgentNext]_agentVars
    PROVE  HistoryInv'
<1>. USE DEF AgentTyped
<1>1. CASE Begins
  <2>1. /\ DOMAIN messages' = 1..2 /\ Len(messages') = 2
        /\ messages'[1].role = "system" /\ messages'[2].role = "user"
        /\ messages'[1].calls = <<>> /\ messages'[2].calls = <<>>
    BY <1>1, Roles DEF Begins
  <2>2. Answered' /\ CalledFor' /\ \A i \in DOMAIN messages' : Complete(i)'
    BY <2>1 DEF Answered, CalledFor, Complete
  <2>. QED  BY <1>1, <2>2 DEF HistoryInv, Begins
<1>2. CASE Keeps
  BY <1>2 DEF Keeps, HistoryInv, Answered, CalledFor, Complete
<1>3. CASE GrowsByNudge
  BY <1>3, HistoryTakesNudge
<1>4. ASSUME NEW calls \in Batches, GrowsByCalls(calls) PROVE HistoryInv'
  BY <1>4, HistoryTakesCalls
<1>5. ASSUME NEW ok \in BOOLEAN, GrowsByResult(ok) PROVE HistoryInv'
  BY <1>5, HistoryTakesResult
<1>6. CASE Unmoved
  BY <1>6 DEF Unmoved, HistoryInv, Answered, CalledFor, Complete, UnderWay
<1>. QED  BY <1>1, <1>2, <1>3, <1>4, <1>5, <1>6, HistorySteps

(* Every history the model is asked with is one the chat API accepts,      *)
(* whichever tools failed and however ids repeat (loop.py 118-132).        *)
THEOREM HistoriesWellFormed == AgentSpec => []ChatWellFormed
<1>1. AgentInit => HistoryInv
  BY DEF AgentInit, HistoryInv, Answered, CalledFor
<1>2. AgentTyped /\ HistoryInv => ChatWellFormed
  <2>. SUFFICES ASSUME AgentTyped, HistoryInv, pc = "chat"
                PROVE  /\ \A i \in DOMAIN messages : \A j \in DOMAIN messages[i].calls :
                              i + j \in DOMAIN messages
                       /\ Answered /\ CalledFor
    BY DEF ChatWellFormed, Answered, CalledFor
  <2>. QED  BY CallsAreIds DEF HistoryInv, Complete, AgentTyped
<1>. QED
  BY <1>1, <1>2, AgentTypedInit, AgentTypedStep, HistoryStep, PTL DEF AgentSpec

-----------------------------------------------------------------------------
(* The tool calls printed *)

(* What a step does to the history and to the list of records together. *)
NoResult ==
    /\ toolCallsMade' = toolCallsMade
    /\ \/ messages' = messages
       \/ \E e \in Message : messages' = Append(messages, e) /\ e.role # "tool"

OneResult(ok) ==
    /\ Tool(Head(pending), ok) \in Message
    /\ [id |-> Head(pending), ok |-> ok] \in ToolCallRecord
    /\ messages' = Append(messages, Tool(Head(pending), ok))
    /\ toolCallsMade' = Append(toolCallsMade, [id |-> Head(pending), ok |-> ok])

LEMMA RecordSteps ==
    ASSUME AgentTyped, [AgentNext]_agentVars
    PROVE  \/ messages' = <<Plain("system"), Plain("user")>> /\ toolCallsMade' = <<>>
           \/ NoResult
           \/ \E ok \in BOOLEAN : OneResult(ok)
<1>1. CASE StartsUp \/ StartupFails \/ Quit \/ Cools
  BY <1>1 DEF StartsUp, StartupFails, Quit, Cools, NoResult, questionVars
<1>2. CASE Ask
  BY <1>2 DEF Ask
<1>3. CASE \/ RetriesRefused \/ RetriesConnecting \/ ModelRefuses
           \/ ModelUnreachable \/ BadArguments \/ GivesUp
  BY <1>3 DEF RetriesRefused, RetriesConnecting, ModelRefuses, ModelUnreachable,
              BadArguments, GivesUp, NoResult, questionVars
<1>4. CASE Answers \/ AnswersNothing
  BY <1>4 DEF Answers, AnswersNothing, Returns, NoResult, questionVars
<1>5. CASE Nudges
  <2>1. Plain("nudge") \in Message /\ Plain("nudge").role # "tool"
    BY MessageKinds, Roles
  <2>. QED  BY <1>5, <2>1 DEF Nudges, NoResult
<1>6. ASSUME NEW calls \in Batches, CallsTools(calls) PROVE NoResult
  <2>1. Assistant(calls) \in Message /\ Assistant(calls).role # "tool"
    BY MessageKinds, Roles
  <2>. QED  BY <1>6, <2>1 DEF CallsTools, NoResult
<1>7. ASSUME NEW ok \in BOOLEAN, ToolDone(ok) PROVE OneResult(ok)
  <2>1. Head(pending) \in Ids
    BY <1>7, PendingHead DEF ToolDone, AgentTyped
  <2>. QED  BY <1>7, <2>1, MessageKinds DEF ToolDone, OneResult, ToolCallRecord
<1>8. CASE ServerGone \/ UNCHANGED agentVars
  BY <1>8 DEF ServerGone, NoResult, agentVars, questionVars
<1>. QED
  BY <1>1, <1>2, <1>3, <1>4, <1>5, <1>6, <1>7, <1>8
     DEF AgentNext, BetweenQuestions, LoopStep, ChatStep

LEMMA ResultsFinite ==
    ASSUME AgentTypeOK
    PROVE  /\ IsFiniteSet(Results) /\ Cardinality(Results) \in Nat
           /\ Results \subseteq 1..Len(messages)
           /\ \A i : /\ IsFiniteSet({j \in Results : j <= i})
                     /\ Cardinality({j \in Results : j <= i}) \in Nat
<1>1. Results \subseteq 1..Len(messages)
  BY CallsAreIds DEF Results
<1>2. IsFiniteSet(1..Len(messages))
  BY CallsAreIds, FS_Interval
<1>3. IsFiniteSet(Results) /\ Cardinality(Results) \in Nat
  BY <1>1, <1>2, FS_Subset, FS_CardinalityType
<1>4. ASSUME NEW i
      PROVE  /\ IsFiniteSet({j \in Results : j <= i})
             /\ Cardinality({j \in Results : j <= i}) \in Nat
  <2>1. {j \in Results : j <= i} \subseteq Results
    OBVIOUS
  <2>. QED  BY <1>3, <2>1, FS_Subset, FS_CardinalityType
<1>. QED  BY <1>1, <1>3, <1>4

(* A rank is a place among the records, and a message that is appended     *)
(* leaves the ranks of those before it.                                    *)
LEMMA RankBounds ==
    ASSUME AgentTypeOK, NEW i \in Results
    PROVE  Rank(i) \in 1..Cardinality(Results)
<1>. DEFINE UpTo == {j \in Results : j <= i}
<1>1. /\ IsFiniteSet(Results) /\ Cardinality(Results) \in Nat
      /\ IsFiniteSet(UpTo) /\ Cardinality(UpTo) \in Nat
      /\ i \in 1..Len(messages)
  BY ResultsFinite
<1>2. UpTo \subseteq Results /\ i \in UpTo
  BY <1>1
<1>3. Cardinality(UpTo) <= Cardinality(Results)
  BY <1>1, <1>2, FS_Subset
<1>4. Cardinality(UpTo) # 0
  BY <1>1, <1>2, FS_EmptySet
<1>5. Rank(i) = Cardinality(UpTo)
  BY DEF Rank
<1>. HIDE DEF UpTo
<1>. QED  BY <1>1, <1>3, <1>4, <1>5

LEMMA ResultsGrow ==
    ASSUME AgentTypeOK, NEW e \in Message, messages' = Append(messages, e),
           NEW n, n = Len(messages) + 1
    PROVE  /\ e.role = "tool" =>
                  /\ Results' = Results \cup {n}
                  /\ Rank(n)' = Cardinality(Results')
                  /\ Cardinality(Results') = Cardinality(Results) + 1
           /\ e.role # "tool" => Results' = Results
           /\ \A i \in Results : i # n /\ Rank(i)' = Rank(i)
<1>1. /\ Len(messages) \in Nat /\ DOMAIN messages' = 1..n
      /\ \A i \in DOMAIN messages : messages'[i] = messages[i]
      /\ messages'[n] = e /\ DOMAIN messages = 1..Len(messages)
  BY HistoryGrows
<1>2. /\ e.role = "tool" => Results' = Results \cup {n}
      /\ e.role # "tool" => Results' = Results
  BY <1>1 DEF Results
<1>3. \A i \in Results : i \in Nat /\ i < n
  BY <1>1, ResultsFinite
<1>4. ASSUME NEW i \in Results PROVE i # n /\ Rank(i)' = Rank(i)
  <2>1. i # n /\ ~ (n <= i)
    BY <1>1, <1>3
  <2>2. {j \in Results' : j <= i} = {j \in Results : j <= i}
    BY <1>2, <2>1
  <2>. QED  BY <2>1, <2>2 DEF Rank
<1>5. ASSUME e.role = "tool"
      PROVE  /\ Rank(n)' = Cardinality(Results')
             /\ Cardinality(Results') = Cardinality(Results) + 1
  <2>1. \A j \in Results' : j <= n
    BY <1>1, <1>2, <1>3
  <2>2. {j \in Results' : j <= n} = Results'
    BY <2>1
  <2>4. Rank(n)' = Cardinality(Results')
    BY <2>2 DEF Rank
  <2>5. n \notin Results
    BY <1>1, <1>3
  <2>6. Cardinality(Results \cup {n}) = Cardinality(Results) + 1
    BY <2>5, ResultsFinite, FS_AddElement
  <2>. QED  BY <1>2, <1>5, <2>4, <2>6
<1>. QED  BY <1>2, <1>4, <1>5

LEMMA PrintsStep ==
    ASSUME AgentTyped, PrintsWhatTheModelSaw, [AgentNext]_agentVars
    PROVE  PrintsWhatTheModelSaw'
<1>. USE DEF AgentTyped
<1>0. /\ toolCallsMade \in Seq(ToolCallRecord)
      /\ Len(toolCallsMade) = Cardinality(Results) /\ Cardinality(Results) \in Nat
      /\ Results \subseteq DOMAIN messages
  BY ResultsFinite DEF AgentTypeOK, PrintsWhatTheModelSaw, Results
<1>1. CASE messages' = <<Plain("system"), Plain("user")>> /\ toolCallsMade' = <<>>
  <2>1. /\ DOMAIN messages' = 1..2
        /\ messages'[1].role = "system" /\ messages'[2].role = "user"
    BY <1>1, Roles
  <2>2. Results' = {}
    BY <2>1 DEF Results
  <2>3. Cardinality(Results') = 0
    BY <2>2, FS_EmptySet
  <2>. QED  BY <1>1, <2>2, <2>3 DEF PrintsWhatTheModelSaw
<1>2. CASE NoResult
  <2>1. CASE messages' = messages
    <3>1. Results' = Results /\ \A i : Rank(i)' = Rank(i)
      BY <2>1 DEF Results, Rank
    <3>. QED  BY <1>2, <2>1, <3>1 DEF NoResult, PrintsWhatTheModelSaw
  <2>2. ASSUME NEW e \in Message, messages' = Append(messages, e), e.role # "tool"
        PROVE  PrintsWhatTheModelSaw'
    <3>1. Results' = Results /\ \A i \in Results : Rank(i)' = Rank(i)
      BY <2>2, ResultsGrow
    <3>2. \A i \in Results : messages'[i] = messages[i]
      BY <1>0, <2>2, HistoryGrows
    <3>. QED  BY <1>2, <3>1, <3>2 DEF NoResult, PrintsWhatTheModelSaw
  <2>. QED  BY <1>2, <2>1, <2>2 DEF NoResult
<1>3. ASSUME NEW ok \in BOOLEAN, OneResult(ok) PROVE PrintsWhatTheModelSaw'
  <2>. DEFINE r == [id |-> Head(pending), ok |-> ok]
              e == Tool(Head(pending), ok)
  <2>. PICK n : n = Len(messages) + 1
    OBVIOUS
  <2>1. e \in Message /\ e.role = "tool" /\ e.id = Head(pending) /\ e.ok = ok
    BY <1>3, Roles DEF OneResult, Tool
  <2>2. /\ Results' = Results \cup {n}
        /\ Rank(n)' = Cardinality(Results')
        /\ Cardinality(Results') = Cardinality(Results) + 1
        /\ \A i \in Results : i # n /\ Rank(i)' = Rank(i)
    BY <1>3, <2>1, ResultsGrow DEF OneResult
  <2>3. /\ messages'[n] = e
        /\ \A i \in Results : messages'[i] = messages[i]
    BY <1>0, <1>3, <2>1, HistoryGrows DEF OneResult
  <2>4. /\ Len(toolCallsMade') = Len(toolCallsMade) + 1
        /\ \A k \in 1..Len(toolCallsMade) : toolCallsMade'[k] = toolCallsMade[k]
        /\ toolCallsMade'[Len(toolCallsMade) + 1] = r
    BY <1>0, <1>3, Appended DEF OneResult
  <2>. HIDE DEF e
  <2>5. Len(toolCallsMade') = Cardinality(Results')
    BY <1>0, <2>2, <2>4
  <2>6. ASSUME NEW i \in Results
        PROVE  toolCallsMade'[Rank(i)'] = [id |-> messages'[i].id, ok |-> messages'[i].ok]
    <3>1. Rank(i) \in 1..Len(toolCallsMade)
      BY <1>0, RankBounds
    <3>. QED  BY <2>2, <2>3, <2>4, <3>1 DEF PrintsWhatTheModelSaw
  <2>7. toolCallsMade'[Rank(n)'] = [id |-> messages'[n].id, ok |-> messages'[n].ok]
    BY <1>0, <2>1, <2>2, <2>3, <2>4
  <2>8. \A i \in Results' :
            toolCallsMade'[Rank(i)'] = [id |-> messages'[i].id, ok |-> messages'[i].ok]
    BY <2>2, <2>6, <2>7
  <2>. QED  BY <2>5, <2>8 DEF PrintsWhatTheModelSaw
<1>. QED  BY <1>1, <1>2, <1>3, RecordSteps

(* The list printed under an answer is what the model was shown, result by *)
(* result, whichever tools failed and however ids repeat (cli.py 78-82).   *)
THEOREM PrintedIsWhatTheModelSaw == AgentSpec => []PrintsWhatTheModelSaw
<1>1. AgentInit => PrintsWhatTheModelSaw
  <2>. SUFFICES ASSUME AgentInit PROVE PrintsWhatTheModelSaw
    OBVIOUS
  <2>1. Results = {}
    BY DEF AgentInit, Results
  <2>2. Cardinality(Results) = 0
    BY <2>1, FS_EmptySet
  <2>. QED  BY <2>1, <2>2 DEF AgentInit, PrintsWhatTheModelSaw
<1>. QED
  BY <1>1, AgentTypedInit, AgentTypedStep, PrintsStep, PTL DEF AgentSpec

-----------------------------------------------------------------------------
(* With the query server *)

(* In a session with its server the loop does what it may do with any      *)
(* server, so that what is proved above holds of it; and the server does   *)
(* what it may do with any client (loop.py 125-132, server.py 49-87).      *)
THEOREM SessionComposes ==
    FairSessionSpec => AgentSpec /\ Server!QuerySpec
<1>1. SessionInit => AgentInit /\ Server!QueryInit
  BY DEF SessionInit
<1>2. [SessionNext]_sessionVars => [AgentNext]_agentVars
  <2>1. QueryAnswered => \E ok \in BOOLEAN : ToolDone(ok)
    <3>1. (inFlight \in delivered) \in BOOLEAN
      OBVIOUS
    <3>. QED  BY <3>1, Zenon DEF QueryAnswered
  <2>2. QuestionStep => AgentNext \/ UNCHANGED agentVars
    BY <2>1 DEF QuestionStep, SendsQuery, ServerWorks, CatalogueAnswered,
                ServerDies, AgentNext, LoopStep
  <2>. QED
    BY <2>2 DEF SessionNext, AsksQuestion, AgentNext, sessionVars
<1>3. [SessionNext]_sessionVars => [Server!QueryNext]_<<queries, serverPc, audit, executed, delivered>>
  BY DEF SessionNext, AsksQuestion, QuestionStep, SendsQuery,
         ServerWorks, QueryAnswered, CatalogueAnswered, ServerDies,
         sessionVars, serverVars, Server!QueryNext
<1>. QED
  BY <1>1, <1>2, <1>3, PTL DEF FairSessionSpec, AgentSpec, Server!QuerySpec, Server!queryVars
=============================================================================
