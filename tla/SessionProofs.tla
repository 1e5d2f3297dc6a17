---------------------------- MODULE SessionProofs -----------------------------
(***************************************************************************)
(* Proofs about a session with its MCP server, for any budget, any answers *)
(* of the model, any number of queries and any faults: what is printed     *)
(* under an answer agrees with the audit log.  What AgentProofs shows of   *)
(* the loop and QueryServerProofs of the server is used for both.          *)
(***************************************************************************)
EXTENDS AgentProofs, SequenceTheorems

Proofs == INSTANCE QueryServerProofs WITH calls <- queries, pc <- serverPc

-----------------------------------------------------------------------------
(* The server of the session is the one that module is about. *)

LEMMA SameInit == Server!QueryInit => Proofs!QueryInit
BY DEF Server!QueryInit, Proofs!QueryInit

LEMMA SameCalls ==
    /\ Server!Calls = Proofs!Calls
    /\ \A q : Server!Call(q) <=> Proofs!Call(q)
<1>1. Server!Calls = Proofs!Calls
  BY DEF Server!Calls, Proofs!Calls, Server!Limit, Proofs!Limit,
         Server!Statement, Proofs!Statement
<1>2. \A q : Server!Call(q) <=> Proofs!Call(q)
  BY DEF Server!Call, Proofs!Call, Server!Last, Proofs!Last,
         Server!Smaller, Proofs!Smaller
<1>. QED  BY <1>1, <1>2

LEMMA SameLines ==
    /\ Server!MayWrite <=> Proofs!MayWrite
    /\ \A ok, n, whole : Server!AuditLine(ok, n, whole) = Proofs!AuditLine(ok, n, whole)
    /\ \A q : Server!Fetched(q) = Proofs!Fetched(q)
    /\ \A q : Server!ApplyRowLimit(q) = Proofs!ApplyRowLimit(q)
    /\ Server!Current = Proofs!Current /\ Server!Last = Proofs!Last
<1>. USE DEF Server!Smaller, Proofs!Smaller
<1>1. \A q : Server!ApplyRowLimit(q) = Proofs!ApplyRowLimit(q)
  BY DEF Server!ApplyRowLimit, Proofs!ApplyRowLimit
<1>2. \A q : Server!Fetched(q) = Proofs!Fetched(q)
  BY <1>1 DEF Server!Fetched, Proofs!Fetched
<1>3. Server!Current = Proofs!Current /\ Server!Last = Proofs!Last
  BY DEF Server!Current, Proofs!Current, Server!Last, Proofs!Last
<1>4. \A ok, n, whole : Server!AuditLine(ok, n, whole) = Proofs!AuditLine(ok, n, whole)
  BY <1>3 DEF Server!AuditLine, Proofs!AuditLine
<1>5. \A whole : Server!LineUnderWay(whole) = Proofs!LineUnderWay(whole)
  BY <1>2, <1>3, <1>4 DEF Server!LineUnderWay, Proofs!LineUnderWay
<1>6. Server!MayWrite <=> Proofs!MayWrite
  BY <1>5 DEF Server!MayWrite, Proofs!MayWrite
<1>. QED  BY <1>1, <1>2, <1>3, <1>4, <1>6

LEMMA SameSteps ==
    /\ Server!ServerStep => Proofs!ServerStep
    /\ Server!ServerLost => Proofs!ServerLost
<1>1. Server!GuardPasses \/ Server!GuardRejects \/ Server!GuardRaises
          => Proofs!GuardPasses \/ Proofs!GuardRejects \/ Proofs!GuardRaises
  BY SameLines
     DEF Server!GuardPasses, Server!GuardRejects, Server!GuardRaises,
         Proofs!GuardPasses, Proofs!GuardRejects, Proofs!GuardRaises
<1>2. Server!Executes \/ Server!ExecuteRaises \/ Server!ExecuteRaisesValueError
          => Proofs!Executes \/ Proofs!ExecuteRaises \/ Proofs!ExecuteRaisesValueError
  BY SameLines DEF Server!Executes, Server!ExecuteRaises, Server!ExecuteRaisesValueError,
                   Server!NoResult, Proofs!Executes, Proofs!ExecuteRaises,
                   Proofs!ExecuteRaisesValueError, Proofs!NoResult
<1>3. Server!AuditsFailure \/ Server!AuditsSuccess \/ Server!AuditRaises
          => Proofs!AuditsFailure \/ Proofs!AuditsSuccess \/ Proofs!AuditRaises
  BY SameLines DEF Server!AuditsFailure, Server!AuditsSuccess, Server!AuditRaises,
                   Proofs!AuditsFailure, Proofs!AuditsSuccess, Proofs!AuditRaises
<1>4. Server!Replies \/ Server!ReplyRaises => Proofs!Replies \/ Proofs!ReplyRaises
  BY SameLines DEF Server!Replies, Proofs!Replies, Server!ReplyRaises, Proofs!ReplyRaises
<1>5. Server!ServerLost => Proofs!ServerLost
  BY SameLines DEF Server!ServerLost, Proofs!ServerLost
<1>. QED
  BY <1>1, <1>2, <1>3, <1>4, <1>5 DEF Server!ServerStep, Proofs!ServerStep

LEMMA SameServer == Server!QuerySpec => Proofs!QuerySpec
<1>1. [Server!QueryNext]_<<queries, serverPc, audit, executed, delivered>>
          => [Proofs!QueryNext]_<<queries, serverPc, audit, executed, delivered>>
  BY SameCalls, SameSteps DEF Server!QueryNext, Proofs!QueryNext
<1>. QED
  BY <1>1, SameInit, PTL
     DEF Server!QuerySpec, Proofs!QuerySpec, Server!queryVars, Proofs!queryVars

(* What is proved of the server by itself holds of it in a session. *)
LEMMA ServerInvariance == FairSessionSpec => []Proofs!QueryInv
BY SessionComposes, SameServer, ServerAssumption, Proofs!QueryInvariance, PTL

LEMMA ServerTyped ==
    ASSUME Proofs!QueryInv
    PROVE  /\ Server!QueryTypeOK
           /\ queries \in Seq(Proofs!Query) /\ Len(queries) \in Nat
           /\ serverPc \in {"idle", "guard", "execute", "auditFailure", "audit", "reply"}
           /\ delivered \subseteq 1..Len(queries)
           /\ audit \in Seq(Proofs!Record)
           /\ \A i \in DOMAIN audit : audit[i].call \in 1..Len(queries)
<1>1. Proofs!QueryTypeOK /\ Proofs!AuditBehind
  BY DEF Proofs!QueryInv
<1>2. /\ Server!Query = Proofs!Query /\ Server!Record = Proofs!Record
  BY DEF Server!Query, Proofs!Query, Server!Record, Proofs!Record, Server!Limit,
         Proofs!Limit, Server!Statement, Proofs!Statement
<1>3. Server!QueryTypeOK
  BY <1>1, <1>2 DEF Proofs!QueryTypeOK, Server!QueryTypeOK
<1>4. /\ queries \in Seq(Proofs!Query) /\ audit \in Seq(Proofs!Record)
      /\ delivered \subseteq 1..Len(queries)
      /\ serverPc \in {"idle", "guard", "execute", "auditFailure", "audit", "reply"}
  BY <1>1 DEF Proofs!QueryTypeOK
<1>5. ASSUME NEW i \in DOMAIN audit PROVE audit[i].call \in 1..Len(queries)
  <2>1. audit[i] \in Proofs!Record
    BY <1>4, <1>5
  <2>2. audit[i].call \in 1..MaxCalls
    BY <2>1 DEF Proofs!Record
  <2>3. audit[i].call <= Len(queries)
    BY <1>1 DEF Proofs!AuditBehind, Proofs!Last
  <2>. QED  BY <1>4, <2>2, <2>3, ServerAssumption
<1>. QED  BY <1>3, <1>4, <1>5

-----------------------------------------------------------------------------
(* The invariant *)

SessionTyped ==
    /\ inFlight \in 0..Len(queries)
    /\ firstQuery \in 1..Len(queries) + 1
    /\ printed \in Seq(0..Len(queries)) /\ Len(printed) = Len(toolCallsMade)

(* The query in flight is the last one, and while the server is at work on *)
(* it the loop waits for its answer.                                       *)
InFlightLast ==
    /\ inFlight # 0 => /\ inFlight = Len(queries) /\ inFlight >= firstQuery
                       /\ pc \in {"tools", "crashed"}
    /\ serverPc # "idle" => inFlight # 0 /\ pc = "tools"

PrintedInOrder ==
    \A n \in DOMAIN printed :
        printed[n] # 0 =>
            /\ printed[n] >= firstQuery
            /\ inFlight # 0 => printed[n] < inFlight
            /\ \A m \in 1..n - 1 : printed[m] < printed[n]
            /\ toolCallsMade[n].ok <=> printed[n] \in delivered

(* Every query of the question is on the list, or in flight. *)
NoneForgotten ==
    \A k \in firstQuery..Len(queries) :
        k = inFlight \/ \E n \in DOMAIN printed : printed[n] = k

AnswerOut == answer # "none" => pc \in {"prompt", "quit"}

SessionInv ==
    /\ SessionTyped /\ InFlightLast /\ PrintedInOrder /\ NoneForgotten
    /\ AnswerOut

LEMMA SessionInvInit == SessionInit => SessionInv
<1>. SUFFICES ASSUME SessionInit PROVE SessionInv
  OBVIOUS
<1>1. /\ queries = <<>> /\ serverPc = "idle" /\ audit = <<>> /\ delivered = {}
      /\ inFlight = 0 /\ firstQuery = 1 /\ printed = <<>>
      /\ pc = "startup" /\ toolCallsMade = <<>> /\ answer = "none"
  BY DEF SessionInit, AgentInit, Server!QueryInit
<1>. QED
  BY <1>1 DEF SessionInv, SessionTyped, InFlightLast, PrintedInOrder, NoneForgotten,
              AnswerOut

(* The steps of the loop that neither send nor end a tool call. *)
LEMMA OtherLoopSteps ==
    ASSUME BetweenQuestions \/ ChatStep
    PROVE  /\ pc \in {"startup", "prompt", "chat"} /\ toolCallsMade' = toolCallsMade
           /\ AnswerOut => AnswerOut'
<1>1. CASE StartsUp \/ StartupFails \/ Quit \/ Cools
  BY <1>1 DEF StartsUp, StartupFails, Quit, Cools, questionVars, AnswerOut
<1>2. CASE RetriesRefused \/ RetriesConnecting
  BY <1>2 DEF RetriesRefused, RetriesConnecting, Chatting, questionVars, AnswerOut
<1>3. CASE ModelRefuses \/ ModelUnreachable \/ BadArguments \/ GivesUp
  BY <1>3 DEF ModelRefuses, ModelUnreachable, BadArguments, GivesUp, Chatting,
              questionVars, AnswerOut
<1>4. CASE Answers \/ AnswersNothing
  BY <1>4 DEF Answers, AnswersNothing, Returns, Chatting, questionVars, AnswerOut
<1>5. CASE Nudges \/ \E calls \in Batches : CallsTools(calls)
  BY <1>5 DEF Nudges, CallsTools, Chatting, AnswerOut
<1>. QED
  BY <1>1, <1>2, <1>3, <1>4, <1>5 DEF BetweenQuestions, ChatStep

LEMMA LoopKeepsInv ==
    ASSUME SessionInv, BetweenQuestions \/ ChatStep,
           UNCHANGED <<serverVars, inFlight, firstQuery, printed>>
    PROVE  SessionInv'
<1>1. /\ pc \in {"startup", "prompt", "chat"} /\ toolCallsMade' = toolCallsMade
      /\ AnswerOut'
      /\ UNCHANGED <<queries, serverPc, audit, delivered, inFlight, firstQuery, printed>>
  BY OtherLoopSteps DEF SessionInv, serverVars
<1>2. inFlight = 0 /\ serverPc = "idle" /\ pc # "crashed"
  BY <1>1 DEF SessionInv, InFlightLast
<1>. QED
  BY <1>1, <1>2 DEF SessionInv, SessionTyped, InFlightLast, PrintedInOrder,
                    NoneForgotten

LEMMA AskKeepsInv ==
    ASSUME Proofs!QueryInv, SessionInv, AsksQuestion
    PROVE  SessionInv'
<1>1. /\ pc = "prompt" /\ pc' = "chat" /\ toolCallsMade' = <<>> /\ answer' = "none"
      /\ printed' = <<>> /\ firstQuery' = Len(queries) + 1
      /\ UNCHANGED <<queries, serverPc, audit, delivered, inFlight>>
  BY DEF AsksQuestion, Ask, serverVars
<1>2. inFlight = 0 /\ serverPc = "idle"
  BY <1>1 DEF SessionInv, InFlightLast
<1>3. Len(queries) \in Nat
  BY ServerTyped
<1>. QED
  BY <1>1, <1>2, <1>3 DEF SessionInv, SessionTyped, InFlightLast, PrintedInOrder,
                          NoneForgotten, AnswerOut

(* The query that is sent takes the next number. *)
LEMMA SendKeepsInv ==
    ASSUME Proofs!QueryInv, SessionInv, SendsQuery
    PROVE  SessionInv'
<1>. DEFINE N == Len(queries)
<1>0. PICK q \in Proofs!Calls : Proofs!Call(q)
  BY SameCalls DEF SendsQuery
<1>1. /\ pc = "tools" /\ inFlight = 0 /\ serverPc = "idle" /\ serverPc' = "guard"
      /\ inFlight' = Len(queries')
      /\ UNCHANGED <<pc, toolCallsMade, answer, audit, delivered, firstQuery, printed>>
  BY <1>0 DEF SendsQuery, Proofs!Call, agentVars, questionVars
<1>2. N \in Nat /\ Len(queries') = N + 1
  <2>1. [q EXCEPT !.rowLimit = Proofs!Smaller(@, MaxRowLimit)] \in Proofs!Query
    BY Proofs!CallsAreQueries, ServerAssumption DEF Proofs!Query, Proofs!Smaller
  <2>2. queries \in Seq(Proofs!Query) /\ N \in Nat
    BY ServerTyped
  <2>. QED  BY <1>0, <2>1, <2>2, Appended DEF Proofs!Call
<1>. HIDE DEF N
<1>3. /\ firstQuery \in 1..N + 1 /\ printed \in Seq(0..N)
      /\ Len(printed) = Len(toolCallsMade)
  BY DEF SessionInv, SessionTyped, N
<1>4. printed \in Seq(0..N + 1)
  <2>1. 0..N \subseteq 0..N + 1
    BY <1>2
  <2>. QED  BY <1>3, <2>1, SeqMonotonic
<1>5. SessionTyped'
  BY <1>1, <1>2, <1>3, <1>4 DEF SessionTyped
<1>6. InFlightLast' /\ AnswerOut'
  BY <1>1, <1>2, <1>3 DEF SessionInv, InFlightLast, AnswerOut
<1>7. PrintedInOrder'
  <2>1. \A n \in DOMAIN printed : printed[n] \in 0..N
    <3>1. ASSUME NEW S, NEW s \in Seq(S)
          PROVE  \A n \in DOMAIN s : s[n] \in S
      OBVIOUS
    <3>. QED  BY <1>3, <3>1
  <2>. QED  BY <1>1, <1>2, <2>1 DEF SessionInv, PrintedInOrder
<1>8. NoneForgotten'
  <2>1. \A k \in firstQuery..N + 1 : k = N + 1 \/ (k \in firstQuery..N /\ k # 0)
    BY <1>2, <1>3
  <2>. QED  BY <1>1, <1>2, <2>1 DEF SessionInv, NoneForgotten, N
<1>. QED  BY <1>5, <1>6, <1>7, <1>8 DEF SessionInv

(* A step of the server on the query in flight: it replies, or delivers    *)
(* nothing.                                                                *)
LEMMA ServerStepEffect ==
    ASSUME Proofs!QueryInv, Server!ServerStep
    PROVE  /\ serverPc # "idle" /\ queries' = queries
           /\ \/ delivered' = delivered
              \/ serverPc' = "idle" /\ delivered' = delivered \cup {Len(queries)}
<1>1. Proofs!ServerStep
  BY SameSteps
<1>2. CASE Proofs!GuardPasses \/ Proofs!GuardRejects \/ Proofs!GuardRaises
  BY <1>2 DEF Proofs!GuardPasses, Proofs!GuardRejects, Proofs!GuardRaises
<1>3. CASE Proofs!Executes \/ Proofs!ExecuteRaises \/ Proofs!ExecuteRaisesValueError
  BY <1>3 DEF Proofs!Executes, Proofs!ExecuteRaises, Proofs!ExecuteRaisesValueError,
              Proofs!NoResult
<1>4. CASE Proofs!AuditsFailure \/ Proofs!AuditsSuccess \/ Proofs!AuditRaises
  BY <1>4 DEF Proofs!AuditsFailure, Proofs!AuditsSuccess, Proofs!AuditRaises
<1>5. CASE Proofs!Replies \/ Proofs!ReplyRaises
  BY <1>5 DEF Proofs!Replies, Proofs!ReplyRaises, Proofs!Last
<1>. QED  BY <1>1, <1>2, <1>3, <1>4, <1>5 DEF Proofs!ServerStep

LEMMA WorkKeepsInv ==
    ASSUME Proofs!QueryInv, SessionInv, ServerWorks
    PROVE  SessionInv'
<1>0. /\ Server!ServerStep
      /\ UNCHANGED <<pc, toolCallsMade, answer, inFlight, firstQuery, printed>>
  BY DEF ServerWorks, agentVars, questionVars
<1>1. /\ serverPc # "idle" /\ queries' = queries
      /\ \/ delivered' = delivered
         \/ serverPc' = "idle" /\ delivered' = delivered \cup {Len(queries)}
  BY <1>0, ServerStepEffect
<1>2. inFlight = Len(queries) /\ inFlight # 0 /\ pc = "tools" /\ inFlight \in Nat
  BY <1>1, ServerTyped DEF SessionInv, InFlightLast
<1>3. SessionTyped' /\ InFlightLast' /\ NoneForgotten' /\ AnswerOut'
  BY <1>0, <1>1, <1>2 DEF SessionInv, SessionTyped, InFlightLast, NoneForgotten, AnswerOut
<1>4. PrintedInOrder'
  <2>1. \A n \in DOMAIN printed : printed[n] # 0 => printed[n] # Len(queries)
    BY <1>2 DEF SessionInv, PrintedInOrder, SessionTyped
  <2>2. \A n \in DOMAIN printed :
            printed[n] # 0 => (printed[n] \in delivered' <=> printed[n] \in delivered)
    BY <1>1, <2>1
  <2>. QED  BY <1>0, <1>1, <2>2 DEF SessionInv, PrintedInOrder
<1>. QED  BY <1>3, <1>4 DEF SessionInv

(* A result, of the query in flight or of a catalogue tool (k = 0).        *)
LEMMA ResultKeepsInv ==
    ASSUME Proofs!QueryInv, AgentTyped, SessionInv, NEW ok \in BOOLEAN, ToolDone(ok),
           NEW k, k = inFlight, k # 0 => (ok <=> k \in delivered),
           serverPc = "idle", printed' = Append(printed, k), inFlight' = 0,
           UNCHANGED <<serverVars, firstQuery>>
    PROVE  SessionInv'
<1>. DEFINE N == Len(queries)
            L == Len(printed)
            r == [id |-> Head(pending), ok |-> ok]
<1>1. /\ pc = "tools" /\ pc' \in {"tools", "chat"} /\ answer' = answer
      /\ toolCallsMade' = Append(toolCallsMade, r)
  BY DEF ToolDone
<1>2. UNCHANGED <<queries, serverPc, audit, delivered>>
  BY DEF serverVars
<1>3. /\ N \in Nat /\ k \in 0..N /\ firstQuery \in 1..N + 1
      /\ printed \in Seq(0..N) /\ L = Len(toolCallsMade)
  BY ServerTyped DEF SessionInv, SessionTyped
<1>4. toolCallsMade \in Seq(ToolCallRecord) /\ r \in ToolCallRecord
  BY <1>1, PendingHead DEF AgentTyped, AgentTypeOK, ToolCallRecord
<1>. HIDE DEF N, r
<1>5. /\ DOMAIN printed = 1..L /\ L \in Nat /\ DOMAIN printed' = 1..L + 1
      /\ printed' \in Seq(0..N) /\ Len(printed') = L + 1
      /\ \A n \in 1..L : printed'[n] = printed[n] /\ printed[n] \in 0..N
      /\ printed'[L + 1] = k
  BY <1>3
<1>6. /\ Len(toolCallsMade') = L + 1
      /\ \A n \in 1..L : toolCallsMade'[n] = toolCallsMade[n]
      /\ toolCallsMade'[L + 1] = r
  BY <1>1, <1>3, <1>4, Appended
<1>7. SessionTyped'
  BY <1>2, <1>3, <1>5, <1>6 DEF SessionTyped, N
<1>8. InFlightLast' /\ AnswerOut'
  BY <1>1, <1>2 DEF SessionInv, InFlightLast, AnswerOut
<1>9. PrintedInOrder'
  <2>1. ASSUME NEW n \in 1..L, printed'[n] # 0
        PROVE  /\ printed'[n] >= firstQuery
               /\ \A m \in 1..n - 1 : printed'[m] < printed'[n]
               /\ toolCallsMade'[n].ok <=> printed'[n] \in delivered
    BY <1>5, <1>6, <2>1 DEF SessionInv, PrintedInOrder
  <2>2. ASSUME k # 0
        PROVE  /\ k >= firstQuery
               /\ \A m \in 1..L : printed'[m] < k
               /\ toolCallsMade'[L + 1].ok <=> k \in delivered
    <3>1. k >= firstQuery
      BY <2>2 DEF SessionInv, InFlightLast
    <3>2. \A m \in 1..L : printed'[m] < k
      <4>1. k \in Nat /\ 0 < k
        BY <1>3, <2>2
      <4>2. \A m \in DOMAIN printed : printed[m] # 0 => printed[m] < k
        BY <4>1, <2>2 DEF SessionInv, PrintedInOrder
      <4>. QED  BY <1>5, <4>1, <4>2
    <3>3. toolCallsMade'[L + 1].ok = ok
      BY <1>6 DEF r
    <3>. QED  BY <2>2, <3>1, <3>2, <3>3
  <2>3. ASSUME NEW n \in DOMAIN printed', printed'[n] # 0
        PROVE  /\ printed'[n] >= firstQuery
               /\ \A m \in 1..n - 1 : printed'[m] < printed'[n]
               /\ toolCallsMade'[n].ok <=> printed'[n] \in delivered
    <3>1. CASE n \in 1..L
      BY <2>1, <2>3, <3>1
    <3>2. CASE n = L + 1
      <4>1. n - 1 = L /\ printed'[n] = k
        BY <1>5, <3>2
      <4>. QED  BY <2>2, <2>3, <3>2, <4>1
    <3>. QED  BY <1>5, <3>1, <3>2
  <2>. QED  BY <1>2, <2>3 DEF PrintedInOrder
<1>10. NoneForgotten'
  <2>1. \A j \in firstQuery..N : j = k \/ \E n \in 1..L : printed'[n] = j
    BY <1>5 DEF SessionInv, NoneForgotten, N
  <2>2. L + 1 \in DOMAIN printed' /\ 1..L \subseteq DOMAIN printed'
    BY <1>5
  <2>3. \A j \in firstQuery..N : \E n \in DOMAIN printed' : printed'[n] = j
    BY <1>5, <2>1, <2>2
  <2>. QED  BY <1>2, <2>3 DEF NoneForgotten, N
<1>. QED  BY <1>7, <1>8, <1>9, <1>10 DEF SessionInv

LEMMA DeathKeepsInv ==
    ASSUME Proofs!QueryInv, SessionInv, ServerDies
    PROVE  SessionInv'
<1>1. /\ pc = "tools" /\ pc' = "crashed"
      /\ UNCHANGED <<toolCallsMade, answer, inFlight, firstQuery, printed>>
  BY DEF ServerDies, ServerGone
<1>2. UNCHANGED <<queries, delivered>> /\ serverPc' = "idle"
  BY DEF ServerDies, serverVars, Server!ServerLost
<1>. QED
  BY <1>1, <1>2 DEF SessionInv, SessionTyped, InFlightLast, PrintedInOrder,
                    NoneForgotten, AnswerOut

LEMMA SessionInvStep ==
    ASSUME Proofs!QueryInv, AgentTyped, SessionInv, [SessionNext]_sessionVars
    PROVE  SessionInv'
<1>1. CASE QueryAnswered
  <2>1. (inFlight \in delivered) \in BOOLEAN
    OBVIOUS
  <2>2. PICK ok \in BOOLEAN : ToolDone(ok) /\ (ok <=> inFlight \in delivered)
    BY <1>1, <2>1, Zenon DEF QueryAnswered
  <2>. QED  BY <1>1, <2>2, ResultKeepsInv DEF QueryAnswered
<1>2. CASE CatalogueAnswered
  <2>1. pc = "tools" /\ serverPc = "idle"
    BY <1>2 DEF CatalogueAnswered, ToolDone, SessionInv, InFlightLast
  <2>. QED  BY <1>2, <2>1, ResultKeepsInv DEF CatalogueAnswered
<1>3. CASE UNCHANGED sessionVars
  BY <1>3 DEF sessionVars, agentVars, questionVars, serverVars, SessionInv, SessionTyped,
         InFlightLast, PrintedInOrder, NoneForgotten, AnswerOut
<1>. QED
  BY <1>1, <1>2, <1>3, LoopKeepsInv, AskKeepsInv, SendKeepsInv, WorkKeepsInv, DeathKeepsInv
     DEF SessionNext, QuestionStep

LEMMA SessionInvariance ==
    FairSessionSpec => [](Proofs!QueryInv /\ AgentTyped /\ SessionInv)
<1>1. Proofs!QueryInv /\ AgentTyped /\ SessionInv /\ [SessionNext]_sessionVars => SessionInv'
  BY SessionInvStep
<1>2. AgentSpec => []AgentTyped
  BY AgentTypedInit, AgentTypedStep, PTL DEF AgentSpec
<1>. QED
  BY <1>1, <1>2, ServerInvariance, SessionComposes, SessionInvInit, PTL
     DEF FairSessionSpec

-----------------------------------------------------------------------------
(* The loop and the server keep their types together: the server works     *)
(* only while the loop waits for that very query.                          *)
THEOREM SessionTypeCorrect == FairSessionSpec => []SessionTypeOK
<1>1. Proofs!QueryInv /\ AgentTyped /\ SessionInv => SessionTypeOK
  BY ServerTyped DEF AgentTyped, SessionInv, SessionTyped, InFlightLast, SessionTypeOK
<1>. QED  BY <1>1, SessionInvariance, PTL

(* What is printed under an answer agrees with the log, whatever failed in *)
(* the question or before it (cli.py 78-82, server.py 72-87): a query      *)
(* printed as successful has its whole line of success, no line of the     *)
(* question is of a query that is not printed, and both keep the order of  *)
(* the queries.                                                            *)
THEOREM PrintedIsLogged == FairSessionSpec => []PrintsTheLog
<1>1. ASSUME Proofs!QueryInv, SessionInv, answer # "none" PROVE PrintsTheLog
  <2>1. inFlight = 0
    BY <1>1 DEF SessionInv, AnswerOut, InFlightLast
  <2>2. /\ Len(queries) \in Nat /\ firstQuery \in Nat
        /\ DOMAIN printed = 1..Len(printed) /\ Len(printed) \in Nat
        /\ \A i \in DOMAIN audit : audit[i].call \in 1..Len(queries)
    BY <1>1, ServerTyped DEF SessionInv, SessionTyped
  <2>3. ASSUME NEW n \in Shown
        PROVE  \E i \in LoggedSuccess : audit[i].call = printed[n]
    <3>1. printed[n] \in delivered /\ printed[n] >= firstQuery
      BY <1>1 DEF Shown, SessionInv, PrintedInOrder
    <3>2. PICK i \in DOMAIN audit : /\ audit[i].call = printed[n]
                                    /\ audit[i].whole /\ audit[i].success
      BY <1>1, <3>1 DEF Proofs!QueryInv, Proofs!DeliveredOnRecord, Proofs!LinesOf
    <3>. QED  BY <3>1, <3>2 DEF Logged, LoggedSuccess
  <2>4. ASSUME NEW i \in Logged
        PROVE  \E n \in DOMAIN printed : printed[n] = audit[i].call
    <3>1. audit[i].call \in firstQuery..Len(queries) /\ audit[i].call # 0
      BY <2>2 DEF Logged
    <3>. QED  BY <1>1, <2>1, <3>1 DEF SessionInv, NoneForgotten
  <2>5. \A m, n \in DOMAIN printed :
            m < n /\ printed[n] # 0 => printed[m] < printed[n]
    <3>. SUFFICES ASSUME NEW m \in DOMAIN printed, NEW n \in DOMAIN printed,
                         m < n, printed[n] # 0
                  PROVE  printed[m] < printed[n]
      OBVIOUS
    <3>1. m \in 1..n - 1
      BY <2>2
    <3>. QED  BY <1>1, <3>1 DEF SessionInv, PrintedInOrder
  <2>6. \A i, j \in Logged : i < j => audit[i].call < audit[j].call
    BY <1>1 DEF Logged, Proofs!QueryInv, Proofs!OneLinePerCall
  <2>7. {printed[n] : n \in Shown} \subseteq {audit[i].call : i \in LoggedSuccess}
    BY <2>3
  <2>8. {audit[i].call : i \in Logged} \subseteq {printed[n] : n \in DOMAIN printed}
    BY <2>4
  <2>. QED  BY <2>5, <2>6, <2>7, <2>8 DEF PrintsTheLog
<1>2. Proofs!QueryInv /\ AgentTyped /\ SessionInv => PrintsTheLog
  BY <1>1 DEF PrintsTheLog
<1>. QED  BY <1>2, SessionInvariance, PTL

(* In a session too, with a loop that may lose the server at any step, a   *)
(* result is put on record before it leaves the server, once, the record   *)
(* is of what was returned, and what is not marked truncated is complete   *)
(* (server.py 50-88).                                                      *)
THEOREM SessionReleasesAudited ==
    FairSessionSpec => /\ Server!ReleasesOnlyAudited
                       /\ []Server!ResultsAudited
                       /\ []Server!AuditTruthful
                       /\ []Server!CompleteUnlessTruncated
<1>1. FairSessionSpec => Proofs!QuerySpec
  BY SessionComposes, SameServer, PTL
<1>2. FairSessionSpec => /\ Proofs!ReleasesOnlyAudited
                         /\ []Proofs!ResultsAudited
                         /\ []Proofs!AuditTruthful
                         /\ []Proofs!CompleteUnlessTruncated
  BY <1>1, ServerAssumption, Proofs!ServerAuditsReleases, Proofs!WhatIsSeenIsAudited,
     Proofs!LogIsTruthful, Proofs!UntruncatedIsComplete, PTL
<1>3. Server!ResultsAudited <=> Proofs!ResultsAudited
  BY SameLines DEF Server!ResultsAudited, Proofs!ResultsAudited, Server!LinesOf,
                   Proofs!LinesOf, Server!Readable, Proofs!Readable
<1>4. Server!AuditTruthful <=> Proofs!AuditTruthful
  BY SameLines DEF Server!AuditTruthful, Proofs!AuditTruthful
<1>5. Server!CompleteUnlessTruncated <=> Proofs!CompleteUnlessTruncated
  <2>1. \A q : /\ Server!AskedFor(q) = Proofs!AskedFor(q)
               /\ Server!Truncated(q) <=> Proofs!Truncated(q)
    BY SameLines DEF Server!AskedFor, Proofs!AskedFor, Server!Truncated, Proofs!Truncated,
                     Server!Smaller, Proofs!Smaller
  <2>. QED
    BY <2>1, SameLines DEF Server!CompleteUnlessTruncated, Proofs!CompleteUnlessTruncated
<1>6. Server!Recorded = Proofs!Recorded /\ Server!Released = Proofs!Released
  BY SameLines DEF Server!Recorded, Proofs!Recorded, Server!Released, Proofs!Released,
                   Server!Result, Proofs!Result
<1>7. Proofs!ReleasesOnlyAudited => Server!ReleasesOnlyAudited
  <2>1. Proofs!Audited!Init => Server!Audited!Init
    BY <1>6 DEF Proofs!Audited!Init, Server!Audited!Init
  <2>2. [Proofs!Audited!Next]_<<Proofs!Recorded, Proofs!Released>>
            => [Server!Audited!Next]_<<Server!Recorded, Server!Released>>
    <3>1. (Server!Recorded = Proofs!Recorded /\ Server!Released = Proofs!Released)'
      BY <1>6, PTL
    <3>. QED
      BY <1>6, <3>1
         DEF Proofs!Audited!Next, Proofs!Audited!Record, Proofs!Audited!Release,
             Server!Audited!Next, Server!Audited!Record, Server!Audited!Release
  <2>. QED
    BY <2>1, <2>2, PTL DEF Proofs!ReleasesOnlyAudited, Server!ReleasesOnlyAudited,
                           Proofs!Audited!Spec, Server!Audited!Spec
<1>. QED  BY <1>2, <1>3, <1>4, <1>5, <1>7, PTL
=============================================================================
