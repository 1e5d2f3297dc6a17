# Verification of open-warehouse-agent

TLA+ models of the program in `src/`, the TLC configurations that check them on
small instances, and theorems about them that TLAPS proves for every value of
the constants. Source positions are given as `file:line`.

Contents: [the system](#the-system) · [modules](#modules) · [runs](#runs) ·
[findings](#what-the-code-does-and-the-documents-do-not-say) ·
[fairness](#fairness) · [proofs](#proofs) ·
[left out](#what-is-not-modelled) · [plan](#plan).

## The system

One person asks questions in a CLI. The CLI's agent loop sends the conversation
to a model, executes the tool calls the model answers with, and repeats. Tools
are executed by an MCP server, a subprocess of the CLI, which runs SELECTs on a
warehouse. The model is reached through a gateway, which starts a GPU box when
it is needed and stops it when it is idle.

| component | state it keeps | operations | talks to |
|---|---|---|---|
| Gateway controller, `gateway/state.py` | `_state`, `_last_activity`, `_lock` | `ensure_ready`, `reap_if_idle`, `run_idle_reaper` | a `ComputeBackend`, awaited with the lock held |
| HTTP proxy, `gateway/app.py` | `reaper_stop` and the reaper task | `POST /v1/chat/completions`, `GET /healthz`, lifespan | controller; the box over httpx, at `backend.base_url` |
| EC2 backend, `gateway/ec2_backend.py` | `base_url` | `start`, `stop`, `is_healthy` | EC2 API in threads, `GET /health` of vLLM |
| Fake backend, `gateway/fake_backend.py` | `_started_at` | the same three | nothing |
| GPU box, `infra/ami`, `infra/terraform/gpu.tf` | EC2 instance state, vLLM up or not | boots, loads the model, halts | started and stopped by EC2 |
| Nightly backstop, `infra/terraform/idle_backstop.tf` | none | stops the instance at 03:00 UTC | EC2, behind the gateway's back |
| Gateway entry point, `gateway/__main__.py` | the objects above, one process | picks the backend, runs the app | EC2 or fake backend |
| MCP server, `mcp_server/server.py` | none across calls | `list_tables`, `describe_table`, `run_query` | connector, audit log |
| Its entry point, `mcp_server/__main__.py`, `backends.py` | one connector | picks the adapter, connects | adapters |
| Audit log, `mcp_server/audit.py` | the JSONL file | `record` | disk |
| SQL guard, `connector/sql_guard.py` | none | `enforce_select_only`, `apply_row_limit` | sqlglot |
| Adapters, `connector/*_adapter.py` | one connection each | `run_query` and catalogue reads | DuckDB, Snowflake, Databricks |
| Agent loop, `agent/loop.py` | messages, records, flags of one question | `run_agent_loop` | chat function, tool executor |
| CLI, `agent/cli.py` | one MCP session, one LLM client | start-up, question loop | agent loop |
| LLM and MCP clients, `agent/llm_client.py`, `agent/mcp_client.py` | none, one session | one request, one tool call | gateway or Ollama; MCP server |
| Seeds and generator, `data/` | three tables | drop, create, insert | warehouse |
| Bootstraps, `infra/*_bootstrap.py` | objects and grants of a cloud warehouse | one statement after another | warehouse, as administrator |
| Terraform, `infra/terraform` | cloud configuration | applied by hand | cloud accounts |

What is hard in it:

* **Concurrency** is in the gateway: requests and the reaper task share the
  controller and meet at a lock that is held across awaits; the EC2 calls run in
  threads, so that other tasks run between a request to EC2, its effect and its
  return; `base_url` is read outside the lock, after another await.
* **Sharing**: bootstrap, seed scripts and CLI sessions are separate processes
  on one warehouse, which nothing coordinates but DuckDB's file lock; none of
  them works in a transaction.
* **Failure**: `start()` and `stop()` may raise before or after their effect,
  the gateway may be killed, vLLM may die, the Lambda stops the box unasked, the
  MCP server or its disk may fail between executing, recording and replying, a
  line of the log may be cut short, any statement of a script may be the last.
* **Time**: the idle timeout races requests; retries of the client race the
  cold start.
* **Boundaries**: `row_limit`, `LIMIT`, `MAX_ROW_LIMIT` and the `truncated`
  flag meet at equality; the empty-response retry spends the iteration budget.

What makes each part correct: the controller calls the backend one call at a
time, starts the box once per wake-up, never stops it on a client admitted less
than `idle_timeout_seconds` ago, never blocks for ever, gives an idle box up;
the proxy knows an address whenever it proxies and answers every request; the
query server lets no unrecorded result out, keeps a truthful log, and bounds
results; the loop sends only well-formed histories, shows the user what the
model saw and the log has, and ends; a bootstrap that finishes has provisioned the
app, and a seed script leaves the data set, whatever failed before it; the
tables of a local session do not change under it. `PROJECT.json` lists the hazards at their lines.

## Modules

    GpuLease  <==implements==  GatewayController
                                     ^
                                     | EXTENDS (a controller step and the backend
                                     |          call it awaits, taken together)
                                  Gateway  <-- EC2Backend
                                     ^
                                     | EXTENDS (either backend, one after another)
                                GatewayMain

    AuditedRelease  <==implements==  QueryServer  <-- MCQueryServer
                                         | INSTANCE
                    AgentSession <-- AgentQueries  <-- MCAgentQueries

    Provisioning <-- Seeding <-- WarehouseSessions

`A <-- B`: B extends A.

* **GpuLease** is abstract: what the gateway promises about the box, without
  lock, timestamps, awaits or reaper. Admission grants a client a lease of
  `IdleTimeout` ticks; the box may be stopped only when no lease is left.
* **GatewayController** is `state.py` over *any* backend. One action is the code
  a task runs between two awaits. `lockq` is `_lock` (its head holds it; asyncio
  locks are FIFO); `task[c]` and `reaper` say at which await a task is;
  `StartReturns`/`StartRaises`, `HealthTrue`/`HealthFalse`,
  `StopReturns`/`StopRaises` are the answers of the backend. `_last_activity` is
  only ever compared with the timeout, so it is kept as its age, stuck at
  `IdleTimeout`. `lease` and `command` are history variables: what was promised
  to each client and the last command carried out. `Restart` is a new process.
* **EC2Backend** is `ec2_backend.py`, the instance, vLLM and the Lambda. `call`
  is how far the awaited call is (sent, done but not returned, waiting for
  `/health`). EC2, vLLM and the Lambda are not in Python; they are modelled by
  the calls made to them and by `infra/`. `Faults` turns kinds of failure on.
* **Gateway** is `app.py` and the composition. Each handler action is a
  controller step together with the backend call it awaited, and `http[c]` is
  where the request of `c` is. The module implements GatewayController, which
  is proved, so that everything proved of the controller holds of it.
* **GatewayMain** is `__main__.py`: the process runs over the backend its
  environment names, and the next process may run over the other one.
  `fake_backend.py` is here. Its coroutines contain no suspension point, so no
  other task runs while one of its calls is under way (`NobodyRunning`), which
  is what makes `_started_at` safe without a lock of its own; it is kept as its
  age, stuck at `BootTicks`.
* **AuditedRelease** is abstract: a result is put on record, once, and only a
  result on record leaves the server. QueryServer maps a whole line of success
  to a record and a reply to a release (`Audited`).
* **QueryServer** is `run_query`: clamp, guard, limit, execute, record, reply,
  with a failure possible at each. `execute()` or the driver's conversion of the
  answer may raise: a ValueError (`ExecuteRaisesValueError`) is recorded as a
  failure like one of the guard's, although the query may have run; anything else
  (`ExecuteRaises`) is not recorded. After the record the reply may still turn
  out to be impossible to make (`ReplyRaises`). The tool is a synchronous function on the
  server's event loop, so calls do not overlap. A query is what the code looks
  at: sort of statement, form and value of its LIMIT, how many rows match. The
  three adapters' `run_query` is the same code, modelled once. A warehouse
  refuses a negative LIMIT, so such a call never gets past `Executes`.
  `record()` opens, writes and closes the file. The disk may refuse before
  anything is written, leave a part of the line, or fail after all of it
  (`MayWrite`); a part has no newline, so the next line is appended to it and
  spoilt (`LineUnderWay`). `audit` keeps which lines can be read (`whole`).
  `AuditTruthful` therefore claims of a success that the warehouse did answer,
  with that many rows, and of a failure only that the call returned nothing.
* **AgentSession** is `_amain()` with `run_agent_loop()`. A message is its role
  and the tool call ids in it, which is what `_to_wire_messages()` carries over
  to the wire. The retries are the openai SDK's (two by default, honouring
  `Retry-After`). `cold` counts the Retry-After periods until the box serves.
* **AgentQueries** puts the two together: a tool call of the loop is a query,
  which goes through the steps of QueryServer, or a catalogue read, which
  changes nothing. The server may be lost at any of those steps and takes the
  session with it. `printed` and `firstQuery` are history variables that say
  which query each printed line came from. `PrintsTheLog` compares the answer
  with the log: what is printed as successful is there, and no line of the
  question is of a query that is not printed. The converse of the first does not
  hold of the code: what the log calls a success is printed as an error when the
  write fails after the line, or the reply after the write.
* **Provisioning** is the two bootstraps: `Statements` in their order, each run
  to its end or broken off, and again. `report` is a table that another role
  creates meanwhile, `key` the public keys in the file, in the script's memory
  and at the app's user. The script reads the file before it waits for the
  administrator's login, and a key pair may be made at any moment, so a run may
  end with an older key than the file's, with which the app's user cannot log in;
  nothing in the repository notices. `LogsIn`, `MayUse` (of the warehouse, the database
  and the schema) and `MayCreate` are what the app's processes find.
* **Seeding** is `data/`: `generate()` is a choice among the data sets it can
  return, reduced to keys and the keys they refer to; `Script` is the order of
  statements, the same in the three `seed()`s, each committed by itself. The
  warehouses differ in what they enforce (DuckDB everything, Snowflake that a
  referred table exists when another is created, Databricks nothing), in whether
  a table's rows come one by one, and in whether two scripts can run at once
  (DuckDB's file is locked by whoever has it open, `holder`). A statement that
  is not `Accepted`, a lost connection or a kill ends the run (`SeedFails`), and
  the script may be started again on what is left. `alone` and `mixed` are
  history: whether a run met another one, and whether its traces may remain.
* **WarehouseSessions** adds the sessions: a server connects when its CLI starts
  and is never told to close, so that it holds the DuckDB file for as long as it
  lives. All of bootstrap, scripts and sessions interleave.
* **...Proofs** hold the theorems of the module they are named after,
  **WarehouseProofs** and **SeedingProofs** those of WarehouseSessions,
  **AgentProofs** those of AgentSession and **SessionProofs** those of
  AgentQueries; **MC...** give constants that a `.cfg` cannot write.

Definitions whose name ends in what is wrong with them (`FindReadyUnstamped`,
`TruncatedBeyond`, ...) are used by no specification. Each stands before the
definition it is a plausible wrong version of; put in its place, it makes a
property fail. `PROJECT.json` pairs every property with one.

## Runs

| run | module | instance | shows |
|---|---|---|---|
| `controller` | GatewayController | 3 clients, timeout 2 ticks | `BackendSerial`, `StartsOnce`, `LeaseHonoured` (refinement of GpuLease), and under fairness `EnsureReadyReturns`, `IdleReaped`, `ReaperObeysStop`, whatever the backend answers |
| `gateway` | Gateway | 2 clients, timeout 2, every fault | `ReadyHasAddress`, `StoppedMeansOff`, `AddressWhileLeased`; under fairness `EveryRequestAnswered`, `ReadyBoxGivenUp` |
| `coldstart` | GatewayMain | either backend, relaunched as either, 2 clients that retry, boot time 1, no fault | `FakeIsTrue`, `ReadyMeansServing`; under fairness `EveryColdStartCompletes` |
| `query_server` | QueryServer | limits -1, 0, 2, 3 around `MAX_ROW_LIMIT` 2, up to 3 rows, 2 calls, disk and crash faults | `ReleasesOnlyAudited` (refinement of AuditedRelease), `ResultsAudited`, `AuditTruthful`, `OneLinePerCall`, `CompleteUnlessTruncated`, `ResultBounded` |
| `agent` | AgentQueries | 3 iterations, 1 retry, cold start of 2, batches of 1 and 2 calls with ids used again, 2 calls of `run_query`, every fault of loop and server | `ChatWellFormed`, `PrintsWhatTheModelSaw`, `PrintsTheLog`, `EmptyOnlyWhenRetried`, `ResponsesWithinBudget`; if every tool call returns, `QuestionEnds` |
| `seeding` | WarehouseSessions | each warehouse, bootstrap, 2 scripts, 1 session, 1 product, 2 orders, every data set of that size, 1 failure, 2 key pairs | `ProvisionedIsUsable`, `ReferentialIntegrity`, `SeedIsWhole`, `SessionSnapshot`; under fairness `SeedRecovers` |

Each checks its module's type invariant too. The other runs end in a violation and are in the next section.

Why the bounds are enough. Three clients give a lock queue with a holder, two
waiters and the reaper, and a client that is admitted while another's lease
runs; nothing in the code tells a third waiter from a second. A timeout of two
ticks has a state strictly between fresh and expired. The gateway's run has two
clients because it adds the box and liveness; what it checks of safety is proved
for any number. Limits are one below, at and one above each other. Two calls
suffice for a line to be attributed to the wrong call. Three iterations hold a
tool round, an empty response and an answer, and two can be exhausted by either.
A retry that runs out on a box that is still cold, and one that does not, both
happen with one retry and a cold start of two. The queries of `agent` are SELECTs
without a LIMIT on an empty result, since what depends on limits is settled in
`query_server`, and a query that the guard refuses or fails on ends for the
session as one whose execution raises does: there remain success and failure at
every step, with a line in the log or without. Two scripts suffice to drop, create and fill at cross purposes; two
orders can be settled or not, and DuckDB's second row can refer to one that is
not there. Besides the one failure of the bound, every statement that mixing
makes the warehouse refuse ends a run as well, without limit. Two key pairs are
enough for one to be replaced before a run has read it, while the run holds it,
between two runs, and after the last.

Deadlock is checked in the gateway's runs and in `seeding`: there is always a
next step, as time passes and a script can be run again. It is not in those of
QueryServer, whose bound on calls is reached, and in `agent`, whose user quits.

The bounds are `MaxFailures` (for all scripts together) and `MaxKeys` in
Provisioning, `MaxCalls` and `MaxRows` in QueryServer, `Batches` and `Ids` in
AgentSession and `Kept` in AgentQueries. A bootstrap that has ended is not
run again. Every other constant is a parameter of the program.

## What the code does and the documents do not say

Each of these runs checks one property that restates a sentence of the
repository, and TLC finds a behaviour of the code that violates it.

| run | property | behaviour |
|---|---|---|
| `wake_after_stop` | `WakeSucceeds` | `_state` becomes STARTING before `start()` is awaited (`state.py:56`). EC2 refuses to start an instance that is still stopping, `start()` raises, and STARTING stays: from there `start()` is never called again. Every request gets 503 until the process is restarted. |
| `abandoned_start` | `AbandonedStartReaped` | Health is polled by requests only and the reaper looks at READY only (`state.py:71`): a box woken by a client that goes away runs until the nightly stop. |
| `backstop` | `BackstoppedBoxWoken` | READY is never checked again (`state.py:59`): after the nightly stop, clients that keep asking keep getting 500, and keep the reaper from resetting the state. |
| `stop_error` | `BoxGivenUpAfterErrors` | An exception out of `stop()` ends the reaper task (`state.py:75,83`); nobody starts another. |
| `computed_limit` | `LimitLowered` | A LIMIT that is not an integer literal is left as it is (`sql_guard.py:57`). |
| `unaudited_call` | `EveryCallAudited` | Errors other than ValueError, a tokenizer's or the warehouse's, leave no line in the log (`server.py:59`). |

Two sentences of the README are contradicted without a run. It promises query
timeouts (`README.md:51`), and `connector.run_query()` is called without one
(`server.py:58`), and so is the tool that waits for it (`mcp_client.py:52`): if
the warehouse does not answer, nobody ends the query, and its question stays
open. A run would only restate that the warehouse need not answer, so that it
does is the premise of `QuestionEnds`, which says so. It calls
the Snowflake role SELECT-only (`README.md:125`), and the bootstrap grants CREATE
TABLE too (`snowflake_bootstrap.py:42`), which the seed script needs and
`ProvisionedIsUsable` therefore demands.

Not stated as a property, because nothing in the repository promises otherwise:
two people who seed a cloud warehouse at once see each other's tables dropped,
and a session's system prompt may name tables a seed script has just dropped;
a shutdown leaves a READY box running; a request that takes longer than the idle
timeout may have its box stopped under it; arguments that are not JSON, or the
loss of the MCP server, end the CLI; so does a cold box, some 10 seconds into a
cold start of minutes, because the SDK gives a 503 up after three tries and its
exception is not one `_amain()` catches (`cli.py:67`).

## Fairness

* `FairControllerSpec`: WF on each caller's steps in `ensure_ready()`, on the
  reaper's and on time. The event loop runs what can run, and backend calls
  return (boto3 and httpx have timeouts).
* `FairGatewaySpec`: the same for handlers and reaper; the awaits of the handler
  end because a body arrives or its client disconnects and httpx times out; EC2
  finishes the transitions it began and systemd starts vLLM. No fairness on
  arrivals, on faults, on shutdown.
* `PersistentGatewaySpec` adds WF on each client's arrival: clients that do as
  `503` with `Retry-After` asks. It is used where a promise is about them.
* `MainSpec` is `PersistentGatewaySpec` for either backend.
* `FairSessionSpec`: WF on the steps of a question; the SDK's requests, with a
  default timeout and bounded retries, come back, and so do tool calls. That the
  warehouse answers is a premise of `QuestionEnds`, which the code does nothing
  to ensure (see the query timeouts above). The user owes nothing.
* `FairWarehouseSpec`: WF on each script's statements, which are answered or
  refused, on the bootstrap's, and on starting either again after a failure,
  which is what `SeedRecovers` is about. Its premise is that from some time on
  no other script runs, no session holds the DuckDB file, and the key of a finished
  bootstrap is the file's.

## Proofs

TLAPS proves these for any clients, timeout, limits, bounds and faults, from the
assumptions stated with the constants (in the gateway, `ControllerAssumption`: the timeout is a
natural number, `None` is none, the reaper is not a client; `EC2Assumption`: the
two URLs differ and faults are of the four kinds; `MainAssumption`: the boot
time is a natural number; `QueryAssumption` and, for the session's server,
`ServerAssumption`: limits are integers, bounds natural numbers;
`AgentAssumption`: the budget is positive; `ProvisioningAssumption`,
`SeedingAssumption`, `SessionsAssumption`: the warehouses are among the three,
scripts, sessions and `NoOne` are apart, and `Absent` is no table's contents).
They state every invariant and every action property that a run checks, and both
refinements; what is left to the runs is liveness. TLC finds
each inductive invariant to hold on the instance of its run, too.

**GatewayControllerProofs.** `ControllerTypeCorrect`, `BackendCallsSerial`,
`WakeStartsOnce` and the refinement `ControllerHonoursLease`. `BackendSerial` is
not inductive: two tasks might both be suspended in a call for all it says. The
invariant adds that whoever is in a backend call is at the head of the lock
queue, that no task is in that queue twice and which tasks are in it. For the
lease it adds that a lease implies READY and is never longer than the timeout
less the age of `_last_activity`: the lock's holder found the stamp expired, so
every lease has run out, and none can be granted until the reaper lets go.

**GatewayProofs.** `GatewayImplementsController`: every step of the composition
is a step of the controller or leaves its variables alone, so the controller's
invariant is inherited. `ReadyImpliesAddress`, `StoppedImpliesOff` and
`LateReadOfAddress` rest on `CallPhase`: with nobody in a backend call no call is
under way, `/health` is asked only of an address that has been set, and a stop
that has been carried out has left the box off.

**GatewayMainProofs.** `MainImplementsController`: the process implements the
controller whichever backend it runs over, by a case for each. `FakeStateIsTrue`
rests on the controller's invariant: `start()` is awaited in STARTING only, so
that no start can outlive the STOPPED of a reap. `MainHonoursLease` draws the
conclusion for the process that is run: serial calls, one start per wake-up and
the lease. `MainTypeCorrect` goes over the steps of the composition, which
`MainStepCases` sorts by what they leave alone. `ReadyBoxServes`: READY is set on
an answer of the box's `/health`, and is untrue for a moment only, between the
effect of the reaper's own `stop()` and its return; that call holds the lock, so
nobody is told READY in that moment (`ServingInv`). The theorem assumes that the
EC2 API does not raise, since a `stop()` that raises after its effect leaves
READY behind (the run `stop_error`), and it is about `MainNext`, in which nothing
else disturbs the box; crashes of the process and launches with either backend
are in it.

**QueryServerProofs.** `WhatIsSeenIsAudited`, `LogIsTruthful`, `LogIsInOrder`,
`ServerAuditsReleases`, `ResultsStayBounded`, `UntruncatedIsComplete`, `QueryTypeCorrect`. `CallPhase`
says what each step of `run_query` may rely on (before the audit no line is about
the call; at the reply there is one with its row count). The arithmetic of limits
is one lemma about a query, `RowLimitArithmetic`. The refinement of
AuditedRelease needs the order of the log too: a record is new because no line
is about the call under way. Lines cut short make the log hard to
append to: a line is readable only if the one before it ended, so the invariant
speaks of the last line as well as of the next. One lemma (`MayWriteKeepsInv`)
covers whatever a broken-off write leaves; what a line claims is fixed by the
phase it is written in (`MapsToRecord` for the refinement).

**AgentProofs.** `AgentTypeCorrect`, `EmptyOnlyAfterRetry`, `BudgetHolds`,
`HistoriesWellFormed`. That each history is well formed when it is sent says
nothing of the moments in between, so the invariant (`HistoryInv`) describes a
history being built: every response before the last is followed by its results,
and the calls still pending are those of the last one that have no result yet.
The nudges in a history are counted by the flag of the loop, the responses in it
by `iteration`, with one more while tools run. `PrintedIsWhatTheModelSaw` needs no
more than that a result is added to the list and to the history in one step: the
n-th result of the history has rank n among its results, adding a message
changes no earlier rank, and the last result's rank is their number.
`SessionComposes`: AgentQueries implements AgentSession and QueryServer both, so
the theorems about the loop and about the server hold of a session in which they
meet.

**SessionProofs.** The server's theorems are taken over by instantiating
QueryServerProofs with the variables of the session. `SessionReleasesAudited`
states them of a session: a loop that may go away at any step takes nothing from
the server's promises. `PrintedIsLogged` relates variables of the loop's and the
server's, through an invariant in parts. The query in flight is the last one
sent, and the server is at work only while the loop waits for it
(`InFlightLast`). The queries on the printed list come in the order they were
sent, each marked as successful if and only if its result was delivered
(`PrintedInOrder`), and none of the question's is missing (`NoneForgotten`).
What was delivered has its line by the server's own theorem; an answer is out only between questions
(`AnswerOut`), when nothing is in flight and the server has not been lost.
`SessionTypeCorrect` follows from the same invariant.

**WarehouseProofs.** `SessionsReadASnapshot`: on DuckDB an open session is the
file's `holder` and a running script is too, so they exclude each other, for any
number of both. `BootstrapProvisions`: a running bootstrap has granted whatever
precedes its next statement, whatever earlier runs granted besides; a foreign
table can be hidden only until the grant on all tables, which the future grant
precedes; and from `alterKey` on the user's key is the one this run has read,
whatever is in the file by then.

**SeedingProofs.** `SeedLeavesDataset` and `ReadersFindNoDanglingReference`, for
any numbers of products, orders, scripts and sessions. The property is about the
last step of a script; the invariant (`SeedInv`) says what precedes it: for a
running script that has met no other, the contents of the tables it has dropped,
created or filled at each of its nine statements, whatever earlier runs left in
the others (`Exact`). Parents are complete before a row of their children is
inserted, so that references are sound at each of them (`ExactIsSound`), and they
stay so when a script fails anywhere (`Sound`). Scripts never mix on DuckDB,
because the running one is the file's `holder` (`Meetings`). Settlements are numbered
by the rank of their order among the settled ones, and that there is an order of
every rank (`EveryRankIsMet`) is shown by the least number that enough of them do
not exceed: the well-foundedness of the naturals, in place of an induction.
`WarehouseKeepsItsTypes` adds bootstrap and sessions.

**Only model-checked**: every liveness property (`EnsureReadyReturns`,
`IdleReaped`, `ReaperObeysStop`, `EveryRequestAnswered`, `ReadyBoxGivenUp`,
`EveryColdStartCompletes`, `QuestionEnds`, `SeedRecovers`), which is out of the
prover's reach, and the violations listed above.

## What is not modelled

`GET /healthz` (it changes nothing) and the rows of the catalogue queries;
environment parsing beyond the choice of backend and adapter; headers, bodies
and the data in rows; the SQL parser, reduced to its verdicts; real time, reduced
to ticks, so that httpx's 5-second default against the length of a completion is
not a question the models can be asked; the life of the Databricks OAuth token,
for the same reason (a query that fails on it is `ExecuteRaises`); `close()` of
the adapters, which nothing in the program calls; two servers that append to one
audit log (each holds its own DuckDB file or none, but a log path can be shared);
Terraform and the AMI bake, but for what they make the box and the Lambda do.

## Plan

In order of importance; 1 to 11 are done, 12 and 13 are not.

1. GpuLease, GatewayController and their refinement; run and proofs.
2. EC2Backend and Gateway; runs and proofs.
3. QueryServer; runs and proofs.
4. AgentSession.
5. Seeding.
6. GatewayMain with the fake backend; run and proofs.
7. AuditedRelease, implemented by QueryServer, with lines cut short; proofs.
8. AgentQueries, agent and query server composed; run.
9. Provisioning and WarehouseSessions, with the file lock and scripts that mix;
   run and proofs.
10. AgentProofs: the loop's invariants, and that AgentQueries implements the
    loop and the query server.
11. SeedingProofs, SessionProofs and the rest of GatewayMainProofs: every
    invariant of a run is a theorem.
12. An abstract specification of a question and its answer, implemented by the
    session, with its proof.
13. Agent and gateway composed: retries against the real life cycle instead of
    `cold`. The state space of the product is the difficulty.
