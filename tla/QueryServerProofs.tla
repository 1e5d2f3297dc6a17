------------------------- MODULE QueryServerProofs --------------------------
(***************************************************************************)
(* Proofs about QueryServer, for any row limits, any number of calls and   *)
(* any combination of faults.                                              *)
(***************************************************************************)
EXTENDS QueryServer, SequenceTheorems, TLAPS

(* What each step of run_query() may rely on about the call under way.     *)
CallPhase ==
    /\ pc # "idle" => Last > 0
    /\ pc = "audit" => Last \in executed /\ ApplyRowLimit(Current) >= 0
    /\ pc \in {"guard", "execute", "auditFailure", "audit"} =>
           \A i \in DOMAIN audit : audit[i].call < Last
    /\ pc # "idle" => Last \notin delivered
    /\ pc = "reply" =>
           \E i \in DOMAIN audit : audit[i] = AuditLine(TRUE, Fetched(Current), TRUE)

AuditBehind == \A i \in DOMAIN audit : audit[i].call <= Last

LimitsClamped == \A k \in 1..Last : calls[k].rowLimit <= MaxRowLimit

DeliveredOnRecord ==
    \A k \in delivered :
        \E i \in LinesOf(k) :
            /\ audit[i].whole /\ audit[i].success
            /\ audit[i].rowCount = Fetched(calls[k])

TornUndelivered ==
    \A i \in DOMAIN audit : ~audit[i].whole => audit[i].call \notin delivered

QueryInv ==
    /\ QueryTypeOK
    /\ CallPhase
    /\ AuditBehind
    /\ LimitsClamped
    /\ AuditTruthful
    /\ OneLinePerCall
    /\ DeliveredOnRecord
    /\ TornUndelivered

-----------------------------------------------------------------------------
(* The row limit *)

(* What apply_row_limit() and the adapters' truncated flag promise of one  *)
(* query, at every boundary.                                               *)
LEMMA RowLimitArithmetic ==
    ASSUME NEW q \in Query
    PROVE  /\ ApplyRowLimit(q) \in Int
           /\ ApplyRowLimit(q) >= 0 => Fetched(q) \in 0..MaxRows
           /\ q.limit.form # "computed" => Fetched(q) <= q.rowLimit
           /\ ~Truncated(q) => Fetched(q) = AskedFor(q)
<1>1. /\ q.limit.form \in {"none", "literal", "computed"}
      /\ q.limit.n \in 0..MaxRows
      /\ q.limit.form = "none" => q.limit.n = 0
      /\ q.matching \in 0..MaxRows
      /\ q.rowLimit \in Int
  BY QueryAssumption DEF Query, Limit
<1>. USE QueryAssumption
     DEF ApplyRowLimit, Fetched, Truncated, AskedFor, Smaller
<1>2. CASE q.limit.form = "none"
  BY <1>1, <1>2
<1>3. CASE q.limit.form = "literal"
  BY <1>1, <1>3
<1>4. CASE q.limit.form = "computed"
  BY <1>1, <1>4
<1>. QED
  BY <1>1, <1>2, <1>3, <1>4

-----------------------------------------------------------------------------
LEMMA LogType ==
    ASSUME QueryTypeOK
    PROVE  /\ DOMAIN audit = 1..Len(audit) /\ Len(audit) \in Nat
           /\ \A i \in DOMAIN audit :
                 audit[i] \in Record /\ audit[i].call \in Nat
<1>1. audit \in Seq(Record)
  BY DEF QueryTypeOK
<1>2. DOMAIN audit = 1..Len(audit) /\ Len(audit) \in Nat
  BY <1>1, LenProperties
<1>3. \A i \in DOMAIN audit : audit[i] \in Record
  BY <1>1, <1>2, ElementOfSeq
<1>4. \A r \in Record : r.call \in Nat
  BY QueryAssumption DEF Record
<1>. QED
  BY <1>2, <1>3, <1>4

LEMMA CallsAreQueries ==
    ASSUME NEW q \in Calls
    PROVE  q \in Query
<1>1. CASE q \in [statement : {"select"}, limit : Limit,
                  matching : 0..MaxRows, rowLimit : RowLimits]
  BY <1>1, QueryAssumption DEF Query, Statement
<1>2. CASE q \in [statement : Statement \ {"select"},
                  limit : [form : {"none"}, n : {0}],
                  matching : {0}, rowLimit : RowLimits]
  <2>1. [form : {"none"}, n : {0}] \subseteq Limit
    BY DEF Limit
  <2>2. {0} \subseteq 0..MaxRows
    BY QueryAssumption
  <2>. QED
    BY <1>2, <2>1, <2>2, QueryAssumption DEF Query, Statement
<1>. QED
  BY <1>1, <1>2 DEF Calls

(* DeliveredOnRecord speaks of the calls delivered and of the lines there     *)
(* already are: more calls and more lines do not disturb it.               *)
LEMMA DeliveredStayAudited ==
    ASSUME DeliveredOnRecord, delivered' = delivered,
           \A k \in delivered : calls'[k] = calls[k],
           \A i \in DOMAIN audit : i \in DOMAIN audit' /\ audit'[i] = audit[i]
    PROVE  DeliveredOnRecord'
<1>. SUFFICES ASSUME NEW k \in delivered
              PROVE  \E i \in LinesOf(k)' :
                        /\ audit'[i].whole /\ audit'[i].success
                        /\ audit'[i].rowCount = Fetched(calls'[k])
  BY DEF DeliveredOnRecord, Fetched, ApplyRowLimit
<1>1. PICK i \in LinesOf(k) :
          /\ audit[i].whole /\ audit[i].success
          /\ audit[i].rowCount = Fetched(calls[k])
  BY DEF DeliveredOnRecord
<1>2. i \in LinesOf(k)' /\ audit'[i] = audit[i]
  BY <1>1 DEF LinesOf
<1>3. calls'[k] = calls[k]
  OBVIOUS
<1>. QED
  BY <1>1, <1>2, <1>3

-----------------------------------------------------------------------------
(* A new call: the others, and the log, stay as they are. *)
LEMMA CallKeepsInv ==
    ASSUME QueryInv, NEW q \in Calls, Call(q)
    PROVE  QueryInv'
<1>. DEFINE r == [q EXCEPT !.rowLimit = Smaller(@, MaxRowLimit)]
<1>0. calls \in Seq(Query) /\ Last \in Nat
  BY LenProperties DEF QueryInv, QueryTypeOK, Last
<1>1. r \in Query /\ r.rowLimit <= MaxRowLimit
  <2>1. q \in Query /\ q.rowLimit \in Int
    BY CallsAreQueries DEF Query
  <2>2. Smaller(q.rowLimit, MaxRowLimit) \in Int
           /\ Smaller(q.rowLimit, MaxRowLimit) <= MaxRowLimit
    BY <2>1, QueryAssumption DEF Smaller
  <2>. QED
    BY <2>1, <2>2 DEF Query
<1>2. /\ calls' = Append(calls, r) /\ Last < MaxCalls /\ pc = "idle"
      /\ pc' = "guard" /\ UNCHANGED <<audit, executed, delivered>>
  BY DEF Call
<1>3. /\ calls' \in Seq(Query) /\ Last' = Last + 1
      /\ \A k \in 1..Last : calls'[k] = calls[k]
      /\ calls'[Last + 1] = r
  BY <1>0, <1>1, <1>2, AppendProperties DEF Last
<1>. HIDE DEF r
<1>4. QueryTypeOK'
  BY <1>0, <1>2, <1>3, QueryAssumption DEF QueryInv, QueryTypeOK, Last
<1>5. CallPhase' /\ AuditBehind'
  <2>1. \A i \in DOMAIN audit : audit[i].call <= Last /\ audit[i].call \in Int
    BY LogType DEF QueryInv, AuditBehind
  <2>2. Last + 1 \notin executed /\ Last + 1 \notin delivered
    BY <1>0 DEF QueryInv, QueryTypeOK, Last
  <2>. QED
    BY <1>0, <1>2, <1>3, <2>1, <2>2 DEF CallPhase, AuditBehind
<1>6. LimitsClamped'
  BY <1>0, <1>1, <1>3 DEF QueryInv, LimitsClamped
<1>7. AuditTruthful' /\ OneLinePerCall'
  <2>1. \A k \in executed : Fetched(calls'[k]) = Fetched(calls[k])
    BY <1>3 DEF QueryInv, QueryTypeOK, Last
  <2>. QED
    BY <1>2, <2>1 DEF QueryInv, AuditTruthful, OneLinePerCall, Fetched, ApplyRowLimit
<1>8. DeliveredOnRecord' /\ TornUndelivered'
  <2>1. \A k \in delivered : calls'[k] = calls[k]
    BY <1>3 DEF QueryInv, QueryTypeOK, Last
  <2>. QED
    BY <1>2, <2>1, DeliveredStayAudited DEF QueryInv, TornUndelivered
<1>. QED
  BY <1>4, <1>5, <1>6, <1>7, <1>8 DEF QueryInv

(* A step that writes no line and delivers nothing: only the phase, and    *)
(* perhaps the set of calls the warehouse has answered, change.            *)
LEMMA QuietKeepsInv ==
    ASSUME QueryInv, UNCHANGED <<calls, audit, delivered>>,
           pc \in {"guard", "execute", "auditFailure", "audit", "reply"},
           executed' \in {executed, executed \cup {Last}},
           \/ pc' = "idle"
           \/ pc = "guard" /\ pc' \in {"execute", "auditFailure"}
           \/ pc = "execute" /\ pc' = "auditFailure"
           \/ /\ pc = "execute" /\ pc' = "audit"
              /\ ApplyRowLimit(Current) >= 0 /\ Last \in executed'
    PROVE  QueryInv'
<1>0. Last \in Nat /\ Last > 0
  BY LenProperties DEF QueryInv, QueryTypeOK, CallPhase, Last
<1>1. QueryTypeOK'
  <2>1. executed' \subseteq 1..Len(calls)
    <3>1. executed \subseteq 1..Len(calls)
      BY DEF QueryInv, QueryTypeOK
    <3>2. Last \in 1..Len(calls)
      BY <1>0 DEF Last
    <3>. QED
      BY <3>1, <3>2
  <2>2. pc' \in {"idle", "guard", "execute", "auditFailure", "audit", "reply"}
    OBVIOUS
  <2>. QED
    BY <2>1, <2>2 DEF QueryInv, QueryTypeOK
<1>2. CallPhase' /\ AuditBehind' /\ LimitsClamped'
  <2>1. /\ Last' = Last /\ Current' = Current
        /\ ApplyRowLimit(Current)' = ApplyRowLimit(Current)
    BY DEF Last, Current, ApplyRowLimit
  <2>. QED
    BY <1>0, <2>1 DEF QueryInv, CallPhase, AuditBehind, LimitsClamped
<1>3. AuditTruthful'
  BY DEF QueryInv, AuditTruthful, Fetched, ApplyRowLimit
<1>4. OneLinePerCall' /\ DeliveredOnRecord' /\ TornUndelivered'
  BY DeliveredStayAudited DEF QueryInv, OneLinePerCall, TornUndelivered
<1>. QED
  BY <1>1, <1>2, <1>3, <1>4 DEF QueryInv

(* What a longer log looks like. *)
LEMMA Appended ==
    ASSUME QueryTypeOK, NEW line \in Record, audit' = Append(audit, line)
    PROVE  /\ audit' \in Seq(Record)
           /\ Len(audit) \in Nat
           /\ DOMAIN audit = 1..Len(audit) /\ DOMAIN audit' = 1..Len(audit) + 1
           /\ \A i \in 1..Len(audit) : audit'[i] = audit[i]
           /\ audit'[Len(audit) + 1] = line
  BY AppendProperties, LenProperties DEF QueryTypeOK

(* A line for the call under way, or a part of one, saying of it what has  *)
(* happened.                                                               *)
LEMMA AuditKeepsInv ==
    ASSUME QueryInv, NEW ok \in BOOLEAN, NEW n \in 0..MaxRows,
           NEW whole \in BOOLEAN, NEW line, line = AuditLine(ok, n, whole),
           pc \in {"auditFailure", "audit"},
           ok => Last \in executed /\ n = Fetched(Current),
           audit' = Append(audit, line),
           UNCHANGED <<calls, executed, delivered>>,
           \/ pc' = "idle"
           \/ pc' = "reply" /\ ok = TRUE /\ whole = TRUE
    PROVE  QueryInv'
<1>0. /\ Last \in Nat /\ Last > 0 /\ Last <= MaxCalls
      /\ audit \in Seq(Record)
  BY LenProperties DEF QueryInv, QueryTypeOK, CallPhase, Last
<1>1. line \in Record
  BY <1>0, QueryAssumption DEF AuditLine, Record
<1>2. /\ audit' \in Seq(Record)
      /\ Len(audit) \in Nat
      /\ DOMAIN audit = 1..Len(audit) /\ DOMAIN audit' = 1..Len(audit) + 1
      /\ \A i \in 1..Len(audit) : audit'[i] = audit[i]
      /\ audit'[Len(audit) + 1] = line
  BY <1>1, Appended DEF QueryInv
<1>3. \A i \in 1..Len(audit) : audit[i].call < Last /\ audit[i].call \in Int
  BY <1>2, LogType DEF QueryInv, CallPhase
<1>4. line.call = Last /\ (line.success <=> ok) /\ line.rowCount = n
  BY DEF AuditLine
<1>5. Last' = Last /\ Current' = Current
  BY DEF Last, Current
<1>6. QueryTypeOK'
  BY <1>2 DEF QueryInv, QueryTypeOK
<1>7. CallPhase'
  <2>1. CASE pc' = "idle"
    BY <2>1 DEF CallPhase
  <2>2. CASE pc' = "reply" /\ ok = TRUE /\ whole = TRUE
    <3>1. Fetched(Current)' = Fetched(Current)
      BY <1>5 DEF Fetched, ApplyRowLimit
    <3>2. audit'[Len(audit) + 1] = AuditLine(TRUE, Fetched(Current), TRUE)'
      BY <1>2, <1>5, <2>2, <3>1 DEF AuditLine
    <3>3. Len(audit) + 1 \in DOMAIN audit'
      BY <1>2
    <3>4. \E i \in DOMAIN audit' :
              audit'[i] = AuditLine(TRUE, Fetched(Current), TRUE)'
      BY <3>2, <3>3, Zenon
    <3>5. Last \notin delivered
      BY DEF QueryInv, CallPhase
    <3>. QED
      BY <1>0, <1>5, <2>2, <3>4, <3>5 DEF CallPhase
  <2>. QED
    BY <2>1, <2>2
<1>8. AuditBehind' /\ OneLinePerCall'
  BY <1>0, <1>2, <1>3, <1>4, <1>5 DEF QueryInv, AuditBehind, OneLinePerCall
<1>9. AuditTruthful'
  <2>1. \A k : Fetched(calls'[k]) = Fetched(calls[k])
    BY DEF Fetched, ApplyRowLimit
  <2>2. Last \notin delivered
    BY DEF QueryInv, CallPhase
  <2>3. IF line.success
           THEN line.call \in executed /\ line.rowCount = Fetched(calls[line.call])
           ELSE line.call \notin delivered
    BY <1>4, <2>2 DEF Current
  <2>. QED
    BY <1>2, <2>1, <2>3 DEF QueryInv, AuditTruthful
<1>10. LimitsClamped'
  BY <1>5 DEF QueryInv, LimitsClamped
<1>11. DeliveredOnRecord'
  BY <1>2, DeliveredStayAudited DEF QueryInv
<1>12. TornUndelivered'
  BY <1>2, <1>4 DEF QueryInv, TornUndelivered, CallPhase
<1>. QED
  BY <1>6, <1>7, <1>8, <1>9, <1>10, <1>11, <1>12 DEF QueryInv

(* While a query's answer is audited, the answer is of its type. *)
LEMMA LineIsTyped ==
    ASSUME QueryInv, pc = "audit"
    PROVE  Last \in executed /\ Fetched(Current) \in 0..MaxRows
<1>1. Current \in Query
  <2>1. calls \in Seq(Query) /\ Last \in 1..Len(calls)
    BY LenProperties DEF QueryInv, QueryTypeOK, CallPhase, Last
  <2>. QED
    BY <2>1, ElementOfSeq DEF Current
<1>2. Last \in executed /\ ApplyRowLimit(Current) >= 0
  BY DEF QueryInv, CallPhase
<1>. QED
  BY <1>1, <1>2, RowLimitArithmetic

(* A write that fails, or is cut off with the process, leaves nothing, a   *)
(* part of the line or all of it.                                          *)
LEMMA MayWriteKeepsInv ==
    ASSUME QueryInv, pc \in {"auditFailure", "audit"}, pc' = "idle", MayWrite,
           UNCHANGED <<calls, executed, delivered>>
    PROVE  QueryInv'
<1>1. CASE UNCHANGED audit
  BY <1>1, QuietKeepsInv
<1>2. ASSUME NEW whole \in BOOLEAN, audit' = Append(audit, LineUnderWay(whole))
      PROVE  QueryInv'
  <2>1. CASE pc = "audit"
    <3>1. LineUnderWay(whole) = AuditLine(TRUE, Fetched(Current), whole)
      BY <2>1 DEF LineUnderWay
    <3>. QED
      BY <1>2, <2>1, <3>1, LineIsTyped, AuditKeepsInv
  <2>2. CASE pc = "auditFailure"
    <3>1. LineUnderWay(whole) = AuditLine(FALSE, 0, whole)
      BY <2>2 DEF LineUnderWay
    <3>2. 0 \in 0..MaxRows
      BY QueryAssumption
    <3>. QED
      BY <1>2, <2>2, <3>1, <3>2, AuditKeepsInv
  <2>. QED
    BY <2>1, <2>2
<1>. QED
  BY <1>1, <1>2 DEF MayWrite

(* The caller gets the result that the last line of the log is about. *)
LEMMA RepliesKeepsInv ==
    ASSUME QueryInv, Replies
    PROVE  QueryInv'
<1>1. /\ pc = "reply" /\ pc' = "idle" /\ delivered' = delivered \cup {Last}
      /\ UNCHANGED <<calls, audit, executed>>
  BY DEF Replies
<1>2. Last \in 1..Len(calls) /\ Last' = Last
  BY <1>1, LenProperties DEF QueryInv, QueryTypeOK, CallPhase, Last
<1>3. QueryTypeOK' /\ CallPhase' /\ AuditBehind' /\ LimitsClamped'
  BY <1>1, <1>2
     DEF QueryInv, QueryTypeOK, CallPhase, AuditBehind, LimitsClamped
<1>4. OneLinePerCall'
  BY <1>1 DEF QueryInv, OneLinePerCall
<1>5. \E i \in LinesOf(Last) :
         /\ audit[i].whole /\ audit[i].success
         /\ audit[i].rowCount = Fetched(calls[Last])
  BY <1>1 DEF QueryInv, CallPhase, AuditLine, LinesOf, Current
<1>6. DeliveredOnRecord'
  <2>1. \A k : LinesOf(k)' = LinesOf(k) /\ Fetched(calls[k])' = Fetched(calls[k])
    BY <1>1 DEF LinesOf, Fetched, ApplyRowLimit
  <2>. QED
    BY <1>1, <1>5, <2>1 DEF QueryInv, DeliveredOnRecord
<1>7. TornUndelivered' /\ AuditTruthful'
  <2>1. PICK i \in DOMAIN audit :
            audit[i].call = Last /\ audit[i].whole /\ audit[i].success
    BY <1>5 DEF LinesOf
  <2>2. \A j \in DOMAIN audit : j # i => audit[j].call # Last
    BY <1>2, <2>1, LogType DEF QueryInv, OneLinePerCall
  <2>3. \A k : Fetched(calls'[k]) = Fetched(calls[k])
    BY <1>1 DEF Fetched, ApplyRowLimit
  <2>4. TornUndelivered'
    BY <1>1, <2>1, <2>2 DEF QueryInv, TornUndelivered
  <2>5. AuditTruthful'
    BY <1>1, <2>1, <2>2, <2>3 DEF QueryInv, AuditTruthful
  <2>. QED
    BY <2>4, <2>5
<1>. QED
  BY <1>3, <1>4, <1>6, <1>7 DEF QueryInv

-----------------------------------------------------------------------------
LEMMA QueryInvInit == QueryInit => QueryInv
<1>. SUFFICES ASSUME QueryInit PROVE QueryInv
  OBVIOUS
<1>1. QueryTypeOK
  BY QueryAssumption, EmptySeq DEF QueryInit, QueryTypeOK
<1>2. CallPhase /\ AuditBehind /\ LimitsClamped
  BY DEF QueryInit, CallPhase, AuditBehind, LimitsClamped, Last
<1>3. AuditTruthful /\ OneLinePerCall /\ DeliveredOnRecord /\ TornUndelivered
  BY DEF QueryInit, AuditTruthful, OneLinePerCall, DeliveredOnRecord, TornUndelivered
<1>. QED
  BY <1>1, <1>2, <1>3 DEF QueryInv

LEMMA QueryInvStep == QueryInv /\ [QueryNext]_queryVars => QueryInv'
<1>. SUFFICES ASSUME QueryInv, [QueryNext]_queryVars PROVE QueryInv'
  OBVIOUS
<1>1. ASSUME NEW q \in Calls, Call(q) PROVE QueryInv'
  BY <1>1, CallKeepsInv
<1>2. CASE GuardPasses \/ GuardRejects \/ GuardRaises
  BY <1>2, QuietKeepsInv DEF GuardPasses, GuardRejects, GuardRaises
<1>3. CASE Executes \/ ExecuteRaises \/ ExecuteRaisesValueError \/ ReplyRaises
  BY <1>3, QuietKeepsInv
     DEF Executes, ExecuteRaises, ExecuteRaisesValueError, NoResult, ReplyRaises
<1>4. CASE AuditRaises
  BY <1>4, MayWriteKeepsInv DEF AuditRaises
<1>5. CASE ServerLost
  <2>1. pc \in {"guard", "execute", "auditFailure", "audit", "reply"}
    BY <1>5 DEF ServerLost, QueryInv, QueryTypeOK
  <2>2. CASE pc \in {"auditFailure", "audit"}
    BY <1>5, <2>2, MayWriteKeepsInv DEF ServerLost
  <2>3. CASE pc \notin {"auditFailure", "audit"}
    BY <1>5, <2>1, <2>3, QuietKeepsInv DEF ServerLost
  <2>. QED
    BY <2>2, <2>3
<1>6. CASE AuditsFailure
  <2>1. 0 \in 0..MaxRows
    BY QueryAssumption
  <2>. QED
    BY <1>6, <2>1, AuditKeepsInv DEF AuditsFailure
<1>7. CASE AuditsSuccess
  BY <1>7, LineIsTyped, AuditKeepsInv DEF AuditsSuccess
<1>8. CASE Replies
  BY <1>8, RepliesKeepsInv
<1>9. CASE UNCHANGED queryVars
  <2>1. UNCHANGED <<calls, pc, audit, executed, delivered>>
    BY <1>9 DEF queryVars
  <2>2. /\ Last' = Last /\ Current' = Current
        /\ ApplyRowLimit(Current)' = ApplyRowLimit(Current)
        /\ AuditLine(TRUE, Fetched(Current), TRUE)' = AuditLine(TRUE, Fetched(Current), TRUE)
    BY <2>1 DEF Last, Current, ApplyRowLimit, AuditLine, Fetched
  <2>3. CallPhase'
    BY <2>1, <2>2 DEF QueryInv, CallPhase
  <2>4. QueryTypeOK' /\ AuditBehind' /\ LimitsClamped'
    BY <2>1, <2>2 DEF QueryInv, QueryTypeOK, AuditBehind, LimitsClamped
  <2>5. AuditTruthful' /\ OneLinePerCall'
    BY <2>1 DEF QueryInv, AuditTruthful, OneLinePerCall, Fetched, ApplyRowLimit
  <2>6. DeliveredOnRecord' /\ TornUndelivered'
    BY <2>1, DeliveredStayAudited DEF QueryInv, TornUndelivered
  <2>. QED
    BY <2>3, <2>4, <2>5, <2>6 DEF QueryInv
<1>. QED
  BY <1>1, <1>2, <1>3, <1>4, <1>5, <1>6, <1>7, <1>8, <1>9 DEF QueryNext, ServerStep

LEMMA QueryInvariance == QuerySpec => []QueryInv
  BY QueryInvInit, QueryInvStep, PTL DEF QuerySpec

-----------------------------------------------------------------------------
(* The state of the server and the log keep their types. *)
THEOREM QueryTypeCorrect == QuerySpec => []QueryTypeOK
<1>1. QueryInv => QueryTypeOK
  BY DEF QueryInv
<1>. QED
  BY <1>1, QueryInvariance, PTL

(* What a caller has seen is in the log, with the number of rows it saw,   *)
(* whatever failed and whenever the process died, and no other caller's    *)
(* record makes it unreadable (server.py 72-87).                           *)
THEOREM WhatIsSeenIsAudited == QuerySpec => []ResultsAudited
<1>1. ASSUME QueryInv PROVE ResultsAudited
  <2>. SUFFICES ASSUME NEW k \in delivered
                PROVE  \E i \in LinesOf(k) :
                          /\ audit[i].whole /\ audit[i].success
                          /\ audit[i].rowCount = Fetched(calls[k])
                          /\ Readable(i) \/ audit[i - 1].call \notin delivered
    BY DEF ResultsAudited
  <2>1. PICK i \in LinesOf(k) :
            /\ audit[i].whole /\ audit[i].success
            /\ audit[i].rowCount = Fetched(calls[k])
    BY <1>1 DEF QueryInv, DeliveredOnRecord
  <2>2. i > 1 => i - 1 \in DOMAIN audit
    BY <1>1, LogType DEF QueryInv, LinesOf
  <2>3. Readable(i) \/ audit[i - 1].call \notin delivered
    BY <1>1, <2>1, <2>2 DEF QueryInv, TornUndelivered, Readable
  <2>. QED
    BY <2>1, <2>3
<1>. QED
  BY <1>1, QueryInvariance, PTL

(* What the log says of a call is true: a success is of a query that the   *)
(* warehouse answered, with its number of rows, a failure is of a call     *)
(* that returned nothing, whatever raised and whatever was cut short       *)
(* (server.py 57-81).                                                      *)
THEOREM LogIsTruthful == QuerySpec => []AuditTruthful
<1>1. QueryInv => AuditTruthful
  BY DEF QueryInv
<1>. QED
  BY <1>1, QueryInvariance, PTL

(* The log has at most one line for a call, in call order.                 *)
THEOREM LogIsInOrder == QuerySpec => []OneLinePerCall
<1>1. QueryInv => OneLinePerCall
  BY DEF QueryInv
<1>. QED
  BY <1>1, QueryInvariance, PTL

-----------------------------------------------------------------------------
(* QueryServer implements AuditedRelease *)

LEMMA MapsToInit == QueryInit => Audited!Init
  BY DEF QueryInit, Audited!Init, Recorded, Released

(* A step that leaves the calls so far, the whole lines of successes and   *)
(* the deliveries alone is a stutter of AuditedRelease.                    *)
LEMMA MapsToStutter ==
    ASSUME QueryInv, delivered' = delivered,
           \A k \in delivered : calls'[k] = calls[k],
           \/ audit' = audit
           \/ \E line \in Record : /\ audit' = Append(audit, line)
                                  /\ ~(line.whole /\ line.success)
    PROVE  Recorded' = Recorded /\ Released' = Released
<1>1. Released' = Released
  BY DEF Released, Fetched, ApplyRowLimit
<1>2. CASE audit' = audit
  BY <1>1, <1>2 DEF Recorded
<1>3. ASSUME NEW line \in Record, audit' = Append(audit, line),
             ~(line.whole /\ line.success)
      PROVE  Recorded' = Recorded
  <2>1. /\ Len(audit) \in Nat
        /\ DOMAIN audit = 1..Len(audit) /\ DOMAIN audit' = 1..Len(audit) + 1
        /\ \A i \in 1..Len(audit) : audit'[i] = audit[i]
        /\ audit'[Len(audit) + 1] = line
    BY <1>3, Appended DEF QueryInv
  <2>2. {j \in DOMAIN audit' : audit'[j].whole /\ audit'[j].success}
           = {j \in DOMAIN audit : audit[j].whole /\ audit[j].success}
    <3>1. \A j \in DOMAIN audit :
              /\ j \in DOMAIN audit'
              /\ audit'[j].whole = audit[j].whole /\ audit'[j].success = audit[j].success
      BY <2>1
    <3>2. ASSUME NEW j \in DOMAIN audit', j \notin DOMAIN audit
          PROVE  ~(audit'[j].whole /\ audit'[j].success)
      <4>1. j = Len(audit) + 1
        BY <2>1, <3>2
      <4>2. audit'[j] = line
        BY <2>1, <4>1
      <4>. QED
        BY <1>3, <4>2, Zenon
    <3>. QED
      BY <3>1, <3>2
  <2>. QED
    BY <2>1, <2>2 DEF Recorded
<1>. QED
  BY <1>1, <1>2, <1>3

(* The whole line of a success, whether record() returns after it or not.  *)
LEMMA MapsToRecord ==
    ASSUME QueryInv, pc = "audit", UNCHANGED <<calls, delivered>>,
           audit' = Append(audit, AuditLine(TRUE, Fetched(Current), TRUE))
    PROVE  \E r \in [call : 1..MaxCalls, rowCount : 0..MaxRows] : Audited!Record(r)
<1>. DEFINE r == Result(Last, Fetched(Current))
<1>0. /\ audit \in Seq(Record)
      /\ Last \in 1..MaxCalls /\ Fetched(Current) \in 0..MaxRows
  BY LineIsTyped, LenProperties DEF QueryInv, QueryTypeOK, CallPhase, Last
<1>1. AuditLine(TRUE, Fetched(Current), TRUE) \in Record
  BY <1>0 DEF AuditLine, Record
<1>2. /\ Len(audit) \in Nat
      /\ DOMAIN audit = 1..Len(audit) /\ DOMAIN audit' = 1..Len(audit) + 1
      /\ \A i \in 1..Len(audit) : audit'[i] = audit[i]
      /\ audit'[Len(audit) + 1] = AuditLine(TRUE, Fetched(Current), TRUE)
  BY <1>1, Appended DEF QueryInv
<1>3. r \in [call : 1..MaxCalls, rowCount : 0..MaxRows]
  BY <1>0 DEF Result
<1>4. \A s \in Recorded : s.call # r.call
  <2>1. \A i \in DOMAIN audit : audit[i].call # Last
    BY <1>0, LogType DEF QueryInv, CallPhase
  <2>. QED
    BY <2>1 DEF Recorded, Result
<1>5. Recorded' = Recorded \cup {r}
  BY <1>2 DEF Recorded, Result, AuditLine
<1>6. Released' = Released
  BY DEF Released, Fetched, ApplyRowLimit
<1>. HIDE DEF r
<1>. QED
  BY <1>3, <1>4, <1>5, <1>6 DEF Audited!Record

LEMMA MapsToRelease ==
    ASSUME QueryInv, Replies
    PROVE  \E r \in [call : 1..MaxCalls, rowCount : 0..MaxRows] : Audited!Release(r)
<1>. DEFINE r == Result(Last, Fetched(Current))
<1>1. PICK i \in DOMAIN audit : audit[i] = AuditLine(TRUE, Fetched(Current), TRUE)
  BY DEF Replies, QueryInv, CallPhase
<1>2. r \in [call : 1..MaxCalls, rowCount : 0..MaxRows]
  <2>1. audit[i] \in Record
    BY LogType DEF QueryInv
  <2>. QED
    BY <1>1, <2>1 DEF Record, AuditLine, Result
<1>3. r \in Recorded
  BY <1>1 DEF Recorded, AuditLine, Result
<1>4. r \notin Released
  <2>1. Last \notin delivered
    BY DEF Replies, QueryInv, CallPhase
  <2>. QED
    BY <2>1 DEF Released, Result
<1>5. Released' = Released \cup {r}
  BY DEF Replies, Released, Result, Current, Fetched, ApplyRowLimit
<1>6. Recorded' = Recorded
  BY DEF Replies, Recorded
<1>. HIDE DEF r
<1>. QED
  BY <1>2, <1>3, <1>4, <1>5, <1>6 DEF Audited!Release

LEMMA MapsToStep ==
    QueryInv /\ [QueryNext]_queryVars => [Audited!Next]_<<Recorded, Released>>
<1>. SUFFICES ASSUME QueryInv, [QueryNext]_queryVars
              PROVE  [Audited!Next]_<<Recorded, Released>>
  OBVIOUS
<1>1. ASSUME NEW q \in Calls, Call(q) PROVE UNCHANGED <<Recorded, Released>>
  <2>1. \A k \in delivered : calls'[k] = calls[k]
    <3>1. calls \in Seq(Query) /\ delivered \subseteq 1..Len(calls)
      BY DEF QueryInv, QueryTypeOK
    <3>2. [q EXCEPT !.rowLimit = Smaller(@, MaxRowLimit)] \in Query
      BY CallsAreQueries, QueryAssumption DEF Query, Smaller
    <3>. QED
      BY <1>1, <3>1, <3>2, AppendProperties DEF Call
  <2>. QED
    BY <1>1, <2>1, MapsToStutter DEF Call
<1>2. CASE \/ GuardPasses \/ GuardRejects \/ GuardRaises
           \/ Executes \/ ExecuteRaises \/ ExecuteRaisesValueError \/ ReplyRaises
           \/ UNCHANGED queryVars
  BY <1>2, MapsToStutter
     DEF GuardPasses, GuardRejects, GuardRaises, Executes, ExecuteRaises,
         ExecuteRaisesValueError, NoResult, ReplyRaises, queryVars
<1>3. ASSUME pc \in {"audit", "auditFailure"}, MayWrite,
             UNCHANGED <<calls, delivered>>
      PROVE  [Audited!Next]_<<Recorded, Released>>
  <2>1. CASE UNCHANGED audit
    BY <1>3, <2>1, MapsToStutter
  <2>2. ASSUME NEW whole \in BOOLEAN, audit' = Append(audit, LineUnderWay(whole))
        PROVE  [Audited!Next]_<<Recorded, Released>>
    <3>1. CASE pc = "audit" /\ whole = TRUE
      <4>1. LineUnderWay(whole) = AuditLine(TRUE, Fetched(Current), TRUE)
        BY <3>1 DEF LineUnderWay
      <4>. QED
        BY <1>3, <2>2, <3>1, <4>1, MapsToRecord DEF Audited!Next
    <3>2. CASE pc = "auditFailure" \/ whole = FALSE
      <4>1. LineUnderWay(whole) \in Record
        BY <1>3, LineIsTyped, LenProperties, QueryAssumption
           DEF LineUnderWay, AuditLine, Record, QueryInv, QueryTypeOK, CallPhase, Last
      <4>2. ~(LineUnderWay(whole).whole /\ LineUnderWay(whole).success)
        BY <3>2 DEF LineUnderWay, AuditLine
      <4>. QED
        BY <1>3, <2>2, <4>1, <4>2, MapsToStutter
    <3>. QED
      BY <1>3, <2>2, <3>1, <3>2
  <2>. QED
    BY <1>3, <2>1, <2>2 DEF MayWrite
<1>4. CASE AuditRaises \/ ServerLost
  BY <1>3, <1>4, MapsToStutter DEF AuditRaises, ServerLost
<1>5. CASE AuditsFailure
  <2>1. AuditLine(FALSE, 0, TRUE) \in Record /\ ~AuditLine(FALSE, 0, TRUE).success
    BY <1>5, LenProperties, QueryAssumption
       DEF AuditsFailure, AuditLine, Record, QueryInv, QueryTypeOK, CallPhase, Last
  <2>. QED
    BY <1>5, <2>1, MapsToStutter DEF AuditsFailure
<1>6. CASE AuditsSuccess
  BY <1>6, MapsToRecord DEF AuditsSuccess, Audited!Next
<1>7. CASE Replies
  BY <1>7, MapsToRelease DEF Audited!Next
<1>. QED
  BY <1>1, <1>2, <1>4, <1>5, <1>6, <1>7 DEF QueryNext, ServerStep

(* The server implements AuditedRelease: a result is recorded once, before *)
(* it is released, and released once, under every fault (server.py 72-87). *)
THEOREM ServerAuditsReleases == QuerySpec => ReleasesOnlyAudited
  BY MapsToInit, MapsToStep, QueryInvariance, PTL
     DEF QuerySpec, ReleasesOnlyAudited, Audited!Spec

-----------------------------------------------------------------------------
LEMMA DeliveredAreQueries ==
    ASSUME QueryInv, NEW k \in delivered
    PROVE  calls[k] \in Query /\ calls[k].rowLimit <= MaxRowLimit
<1>1. calls \in Seq(Query) /\ k \in 1..Len(calls)
  BY DEF QueryInv, QueryTypeOK
<1>. QED
  BY <1>1, ElementOfSeq DEF QueryInv, LimitsClamped, Last

(* No result exceeds row_limit or MAX_ROW_LIMIT, the LIMITs that are no    *)
(* integer literal excepted (server.py 55, sql_guard.py 53-62).            *)
THEOREM ResultsStayBounded == QuerySpec => []ResultBounded
<1>1. ASSUME QueryInv PROVE ResultBounded
  <2>. SUFFICES ASSUME NEW k \in delivered, calls[k].limit.form # "computed"
                PROVE  /\ Fetched(calls[k]) <= calls[k].rowLimit
                       /\ Fetched(calls[k]) <= MaxRowLimit
    BY DEF ResultBounded
  <2>1. calls[k] \in Query /\ calls[k].rowLimit <= MaxRowLimit
    BY <1>1, DeliveredAreQueries
  <2>2. Fetched(calls[k]) <= calls[k].rowLimit
    BY <2>1, RowLimitArithmetic
  <2>3. Fetched(calls[k]) \in Int /\ calls[k].rowLimit \in Int
    <3>1. ApplyRowLimit(calls[k]) \in Int
      BY <2>1, RowLimitArithmetic
    <3>. QED
      BY <2>1, <3>1, QueryAssumption DEF Query, Fetched, Smaller
  <2>. QED
    BY <2>1, <2>2, <2>3, QueryAssumption
<1>. QED
  BY <1>1, QueryInvariance, PTL

(* A result that is not marked truncated is all the query asked for, at    *)
(* every boundary of row_limit and MAX_ROW_LIMIT.                          *)
THEOREM UntruncatedIsComplete == QuerySpec => []CompleteUnlessTruncated
<1>1. ASSUME QueryInv PROVE CompleteUnlessTruncated
  BY <1>1, DeliveredAreQueries, RowLimitArithmetic DEF CompleteUnlessTruncated
<1>. QED
  BY <1>1, QueryInvariance, PTL
=============================================================================
