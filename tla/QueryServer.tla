---------------------------- MODULE QueryServer -----------------------------
(***************************************************************************)
(* The run_query tool: mcp_server/server.py, the adapters' run_query, the  *)
(* SQL guard and the audit log.  A synchronous tool blocks the server's    *)
(* event loop, so calls never overlap; between the steps of one call the   *)
(* warehouse, the disk or the process can fail.  A query is kept as what   *)
(* the code looks at: what sort of statement it is, how its LIMIT is       *)
(* written, how many rows match without it.                                *)
(***************************************************************************)
EXTENDS Integers, Sequences

CONSTANTS
    MaxRowLimit,    \* MAX_ROW_LIMIT
    RowLimits,      \* the row_limit arguments callers pass
    QueryFaults,    \* which of "disk" and "crash" may happen
    MaxRows,        \* bound: no table holds more rows
    MaxCalls        \* bound: calls in a behaviour

ASSUME QueryAssumption ==
    /\ MaxRowLimit \in Nat /\ MaxRows \in Nat /\ MaxCalls \in Nat
    /\ RowLimits \subseteq Int
    /\ QueryFaults \subseteq {"disk", "crash"}

(* "other": parsed, but not exactly one SELECT.  "unparsable" raises       *)
(* ParseError, "untokenizable" TokenError, which the guard does not catch. *)
Statement == {"select", "other", "unparsable", "untokenizable"}

(* A LIMIT is absent, an integer literal, or anything else with that       *)
(* value: an expression, FETCH FIRST.                                      *)
Limit == [form : {"none"}, n : {0}]
            \cup [form : {"literal", "computed"}, n : 0..MaxRows]

Query == [statement : Statement, limit : Limit, matching : 0..MaxRows,
          rowLimit : Int]

(* The write of one line may end before its newline. *)
Record == [call : 1..MaxCalls, success : BOOLEAN, rowCount : 0..MaxRows,
           whole : BOOLEAN]

VARIABLES
    calls,          \* the queries of all calls so far, the last under way
    pc,             \* where run_query is
    audit,          \* what has been written to the audit log
    executed,       \* history: calls the warehouse answered
    delivered       \* history: calls whose result reached the caller

queryVars == <<calls, pc, audit, executed, delivered>>

QueryTypeOK ==
    /\ calls \in Seq(Query) /\ Len(calls) <= MaxCalls
    /\ pc \in {"idle", "guard", "execute", "auditFailure", "audit", "reply"}
    /\ audit \in Seq(Record)
    /\ executed \subseteq 1..Len(calls)
    /\ delivered \subseteq 1..Len(calls)

QueryInit ==
    /\ calls = <<>> /\ pc = "idle" /\ audit = <<>>
    /\ executed = {} /\ delivered = {}

Smaller(m, n) == IF m <= n THEN m ELSE n

Last == Len(calls)
Current == calls[Last]

-----------------------------------------------------------------------------
(* apply_row_limit() and what the warehouse makes of it *)

ApplyRowLimitTrusting(q) ==
    IF q.limit.form = "none" THEN q.rowLimit ELSE q.limit.n

(* Only an integer literal is compared; anything else is left as it is. *)
ApplyRowLimit(q) ==
    CASE q.limit.form = "none" -> q.rowLimit
      [] q.limit.form = "literal" -> Smaller(q.limit.n, q.rowLimit)
      [] q.limit.form = "computed" -> q.limit.n

Fetched(q) == Smaller(q.matching, ApplyRowLimit(q))

TruncatedBeyond(q) == Fetched(q) > q.rowLimit

Truncated(q) == Fetched(q) >= q.rowLimit

(* What the query as written would return. *)
AskedFor(q) ==
    IF q.limit.form = "none" THEN q.matching ELSE Smaller(q.matching, q.limit.n)

-----------------------------------------------------------------------------
(* run_query() *)

AuditLineStale(ok, n, whole) ==
    [call |-> Last - 1, success |-> ok, rowCount |-> n, whole |-> whole]

AuditLine(ok, n, whole) ==
    [call |-> Last, success |-> ok, rowCount |-> n, whole |-> whole]

(* record() is broken off: nothing of the line it is writing, a part of    *)
(* it, or all of it has got to the disk.                                   *)
LineUnderWay(whole) ==
    IF pc = "audit"
       THEN AuditLine(TRUE, Fetched(Current), whole)
       ELSE AuditLine(FALSE, 0, whole)

MayWrite ==
    \/ UNCHANGED audit
    \/ \E whole \in BOOLEAN : audit' = Append(audit, LineUnderWay(whole))

Call(q) ==
    /\ pc = "idle" /\ Last < MaxCalls
    /\ calls' = Append(calls, [q EXCEPT !.rowLimit = Smaller(@, MaxRowLimit)])
    /\ pc' = "guard"
    /\ UNCHANGED <<audit, executed, delivered>>

GuardPasses ==
    /\ pc = "guard"
    /\ Current.statement = "select"
    /\ pc' = "execute"
    /\ UNCHANGED <<calls, audit, executed, delivered>>

(* UnsafeQueryError *)
GuardRejects ==
    /\ pc = "guard"
    /\ Current.statement \in {"other", "unparsable"}
    /\ pc' = "auditFailure"
    /\ UNCHANGED <<calls, audit, executed, delivered>>

(* An exception run_query() does not catch: the caller sees an error. *)
GuardRaises ==
    /\ pc = "guard"
    /\ Current.statement = "untokenizable"
    /\ pc' = "idle"
    /\ UNCHANGED <<calls, audit, executed, delivered>>

Executes ==
    /\ pc = "execute"
    /\ ApplyRowLimit(Current) >= 0
    /\ executed' = executed \cup {Last}
    /\ pc' = "audit"
    /\ UNCHANGED <<calls, audit, delivered>>

(* execute() or fetchall() raises: the warehouse refuses the query (a      *)
(* negative LIMIT, an unknown column) or is out of reach, or it has        *)
(* answered and the driver cannot read the answer.                         *)
NoResult ==
    /\ pc = "execute"
    /\ \/ UNCHANGED executed
       \/ ApplyRowLimit(Current) >= 0 /\ executed' = executed \cup {Last}
    /\ UNCHANGED <<calls, audit, delivered>>

(* Not a ValueError, and not caught either. *)
ExecuteRaises == NoResult /\ pc' = "idle"

(* A ValueError (UnicodeDecodeError, pyarrow's ArrowInvalid, ...), caught  *)
(* as if the guard had raised it.                                          *)
ExecuteRaisesValueError == NoResult /\ pc' = "auditFailure"

AuditsFailureAndGoesOn ==
    /\ pc = "auditFailure"
    /\ audit' = Append(audit, AuditLine(FALSE, 0, TRUE))
    /\ pc' = "audit"
    /\ UNCHANGED <<calls, executed, delivered>>

AuditsFailure ==
    /\ pc = "auditFailure"
    /\ audit' = Append(audit, AuditLine(FALSE, 0, TRUE))
    /\ pc' = "idle"
    /\ UNCHANGED <<calls, executed, delivered>>

AuditsSuccess ==
    /\ pc = "audit"
    /\ audit' = Append(audit, AuditLine(TRUE, Fetched(Current), TRUE))
    /\ pc' = "reply"
    /\ UNCHANGED <<calls, executed, delivered>>

AuditRaisesIgnored ==
    /\ "disk" \in QueryFaults
    /\ pc \in {"audit", "auditFailure"}
    /\ MayWrite
    /\ pc' = IF pc = "audit" THEN "reply" ELSE "idle"
    /\ UNCHANGED <<calls, executed, delivered>>

(* The log cannot be written: OSError instead of the result. *)
AuditRaises ==
    /\ "disk" \in QueryFaults
    /\ pc \in {"audit", "auditFailure"}
    /\ MayWrite
    /\ pc' = "idle"
    /\ UNCHANGED <<calls, executed, delivered>>

RepliesBeforeRecord ==
    /\ pc \in {"audit", "reply"}
    /\ delivered' = delivered \cup {Last}
    /\ pc' = "idle"
    /\ UNCHANGED <<calls, audit, executed>>

Replies ==
    /\ pc = "reply"
    /\ delivered' = delivered \cup {Last}
    /\ pc' = "idle"
    /\ UNCHANGED <<calls, audit, executed>>

(* The result cannot be turned into a reply: an error after the record.    *)
ReplyRaises ==
    /\ pc = "reply"
    /\ pc' = "idle"
    /\ UNCHANGED <<calls, audit, executed, delivered>>

(* The server process dies; the next session starts another. *)
ServerLost ==
    /\ "crash" \in QueryFaults
    /\ pc # "idle"
    /\ IF pc \in {"audit", "auditFailure"} THEN MayWrite ELSE UNCHANGED audit
    /\ pc' = "idle"
    /\ UNCHANGED <<calls, executed, delivered>>

-----------------------------------------------------------------------------
(* Of a statement that is not a SELECT the guard looks at nothing else.    *)
Calls ==
    [statement : {"select"}, limit : Limit, matching : 0..MaxRows,
     rowLimit : RowLimits]
    \cup
    [statement : Statement \ {"select"}, limit : [form : {"none"}, n : {0}],
     matching : {0}, rowLimit : RowLimits]

ServerStep ==
    \/ GuardPasses \/ GuardRejects \/ GuardRaises
    \/ Executes \/ ExecuteRaises \/ ExecuteRaisesValueError
    \/ AuditsFailure \/ AuditsSuccess \/ AuditRaises
    \/ Replies \/ ReplyRaises

QueryNext == (\E q \in Calls : Call(q)) \/ ServerStep \/ ServerLost

QuerySpec == QueryInit /\ [][QueryNext]_queryVars

-----------------------------------------------------------------------------
(* Properties *)

LinesOf(k) == {i \in DOMAIN audit : audit[i].call = k}

(* A record behind one that lost its newline shares a line with it, which  *)
(* is no JSON.                                                             *)
Readable(i) == audit[i].whole /\ (i > 1 => audit[i - 1].whole)

(* No result leaves the server before it is in the log (server.py 72-87):  *)
(* whatever fails and whenever the process dies, what the caller has seen  *)
(* is on record, with the number of rows it saw.  It can be read there,    *)
(* too, unless the record before it was torn, and then that one was of a   *)
(* call that returned nothing: no two results ever spoil each other.       *)
ResultsAudited ==
    \A k \in delivered :
        \E i \in LinesOf(k) :
            /\ audit[i].whole /\ audit[i].success
            /\ audit[i].rowCount = Fetched(calls[k])
            /\ Readable(i) \/ audit[i - 1].call \notin delivered

(* The log says of a call what happened to it (server.py 57-81): a success *)
(* is of a query the warehouse has answered, with the number of rows of    *)
(* its answer, and a failure is of a call that returned nothing.  It says  *)
(* no more than that: a failure may be of a query that ran, whose answer   *)
(* raised a ValueError, and after a success the caller may still get an    *)
(* error, from a write that fails late or a reply that cannot be made.     *)
AuditTruthful ==
    \A i \in DOMAIN audit :
        IF audit[i].success
           THEN /\ audit[i].call \in executed
                /\ audit[i].rowCount = Fetched(calls[audit[i].call])
           ELSE audit[i].call \notin delivered

(* The log has at most one line for a call, and lines in call order, so    *)
(* that "what did the agent query last Tuesday" (audit.py 4-7) reads off.  *)
OneLinePerCall ==
    \A i, j \in DOMAIN audit : i < j => audit[i].call < audit[j].call

(* A result not marked truncated is everything the query asked for, for    *)
(* every way of writing LIMIT and at every boundary of row_limit.          *)
CompleteUnlessTruncated ==
    \A k \in delivered :
        ~Truncated(calls[k]) => Fetched(calls[k]) = AskedFor(calls[k])

(* A result never has more than row_limit rows, nor more than              *)
(* MAX_ROW_LIMIT, unless a LIMIT that is not an integer literal asked for  *)
(* more (server.py 55, sql_guard.py 53-62).                                *)
ResultBounded ==
    \A k \in delivered :
        calls[k].limit.form # "computed"
            => /\ Fetched(calls[k]) <= calls[k].rowLimit
               /\ Fetched(calls[k]) <= MaxRowLimit

(* The server implements AuditedRelease: a result goes on record once, in  *)
(* a step before the one that releases it, and is released once.           *)
Result(k, n) == [call |-> k, rowCount |-> n]

Recorded ==
    {Result(audit[i].call, audit[i].rowCount) :
        i \in {j \in DOMAIN audit : audit[j].whole /\ audit[j].success}}

Released == {Result(k, Fetched(calls[k])) : k \in delivered}

Audited ==
    INSTANCE AuditedRelease WITH
        Results <- [call : 1..MaxCalls, rowCount : 0..MaxRows],
        recorded <- Recorded,
        released <- Released

ReleasesOnlyAudited == Audited!Spec

(* sql_guard.py 50: "If the query already has a LIMIT, it's lowered to     *)
(* max_rows when it exceeds it."                                           *)
LimitLowered ==
    \A k \in delivered :
        calls[k].rowLimit >= 0 => Fetched(calls[k]) <= calls[k].rowLimit

(* audit.py 1: "Append-only audit log of every run_query call", in a run   *)
(* where neither the disk nor the process fails.                           *)
EveryCallAudited ==
    \A k \in 1..Last : pc = "idle" \/ k < Last => LinesOf(k) # {}
=============================================================================
