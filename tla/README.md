# BBIOS OS: a TLA+ verification project

BBIOS OS (`bbi_os/`) is a Python back end that keeps its state in JSON files,
runs *workflows* (sagas of steps with compensation) on behalf of *clients*, and
meters what they use. One process serves requests on the threads of a
`ThreadingHTTPServer` (`task_management/api.py`); every thread reads and writes
the same files, and the process may die at any instruction. The tests of the
repository run one request at a time on a disk that never fails. This project
states what must hold when threads interleave, saves raise and the process
dies, checks it with TLC on small instances and proves most of it with TLAPS
for all of them.

## The system and its parts

| part | state | operations | interacts with |
|---|---|---|---|
| JSON repositories: `entity_repository.py`, and the same pattern in `task_management/repository.py`, `workflows/repository.py`, `workflows/templates.py`, `client_execution/state.py`, `client_monetization/usage_tracker.py`, `client_monetization/registry.py`, `integrations/registry.py` | one JSON file, an in-process lock, temporary files | list, get, save, delete, create-if-absent, reads without the lock | everything |
| workflow engine: `workflows/engine.py`, `models.py`, `actions.py` | workflow instances (status, step index, step history), effects of actions | trigger, retry, step loop, rollback | repositories, action handlers, templates, webhooks |
| workflow templates: `workflows/templates.py` | template versions, lineage | create, get, execute (definition, trigger, lineage) | workflow engine |
| client execution, COS-002: `client_execution/` | execution records with a state machine, one lock per client | start (immediate), schedule (deferred), status | templates, workflow engine, cockpit, metering (by events) |
| client onboarding, COS-001: `client_onboarding/` | client, onboarding and task entities | onboard: a six-step workflow of entity operations | templates, entity and task repositories, outbound requests |
| client pipeline: `client_pipeline/` | routes | process: one template execution per request | templates |
| monetization: `client_monetization/` | usage events, plan assignments, counters per request | track with plan limits, meter from events, bill | observability events, repositories |
| integrations: `integrations/` | connectors, webhooks, mappings | outbound request with retries, webhook invocation | workflow engine, external services |
| tasks: `task_management/` | tasks | create, get, update, delete | repositories, workflow actions |
| cockpit: `cockpit/` | client records and plans, locks set in the cockpit, a bounded event store | create client, execute, retry, lock, dashboards | COS-002, monetization, repositories |
| request handling and observability: `task_management/api.py`, `observability.py`, `response_contract.py`, `auth.py`, `entity_routing.py` | request context, listeners, metrics, the summary of a request | every HTTP request | everything |
| cockpit UI: `cockpit-ui/src/` | the data on the screen (React state) | refresh, poll, create client | HTTP API |
| generator, generated system, settings | files | generate, load | none at run time |

What makes the system hard: several threads work on one file and one
record; a record is saved many times in one request and *each* save may raise;
exception handlers save again; a crash leaves records and effects but no
threads and no locks; retries read a status, and write, later, on the strength
of it.

What makes each part correct is the list of properties below; the list
`hazards` of `PROJECT.json` says at which line each can go wrong, the list
`components` which part is modelled, and why the others are not, and the list
`map` which lines each definition stands for.

## The modules

```
AtomicMap            what a repository promises: every call is atomic
  JsonStore          lock, read, temporary file, replace; crashes      -> AtomicMap
    JsonStoreProofs
WorkflowEngine       the saga engine, each save atomic (JsonStore)
  Onboarding         the engine + the entities of COS-001 + the task API -> WorkflowEngine
    WorkflowEngineProofs
ExecutionLifecycle   what an execution record promises: the transition table
  ClientExecution    execute and schedule of COS-002                   -> ExecutionLifecycle
    CockpitControls  the commands and the monitor of the cockpit       -> ClientExecution
TemplateLaunch       one launch of a template through its three callers
  TemplateLaunchProofs
HandlerErrors        what each HTTP handler makes of an exception
  RequestHandling    one request from its first log line to its last
    RequestHandlingProofs
CockpitScreen        refreshes and polls of the browser
  ClientExecutionProofs   (of CockpitControls and CockpitScreen)
UsageMeter           from log events to bills, under one lock
  UsageMeterProofs
Monetization         clients, plans and the limits of track
  MonetizationProofs
OutboundRequests     HTTP calls with retries
  OutboundRequestsProofs
```

An arrow is a refinement that is checked. `MC*` modules and `.cfg` files give
the instances for TLC. The modules compose by abstraction: `JsonStore` is shown
to implement the atomic map, so the other modules save and load a record in one
step that may raise; `WorkflowEngine` says how a workflow may end, and
`ClientExecution` runs it as one call that completes, fails, raises or is cut
off; `Onboarding` *extends* `WorkflowEngine` and replaces "an effect" by what
the action handlers really write, and `CockpitControls` *extends*
`ClientExecution` with what reads a record or a lock before it commands. In every
module a thread is a program counter,
a crash of the process forgets all threads, locks and objects in memory and
keeps the files, and `faults` counts the saves that raised. The initial states, steps
and specifications of `Onboarding`, `CockpitControls` and `CockpitScreen` have a
letter before them (`OSpec`, `CSpec`, `SSpec`), so that a module may extend them
together with another.

### JsonStore (`entity_repository.py` and seven files like it)

`file`, `temps`, `strays` are the file, the temporary file of each thread, and
those nobody will remove; `lock` is `self._lock`; `records` is the local
dictionary. `Acquire`, `ReadAnswers`/`ReadRefuses`/`ReadModifies`, `OpenTemp`,
`FillTemp`, `Replace`, `WriteFails`, `Release` follow `with self._lock: records = self._read(); …; self._write(records)`;
`Peek` is a reader without the lock (integrations, plans). `create` and `delete`
look first and refuse. In the abstract `AtomicMap` a call has its whole effect in
one step: `ApplyRead`, `ApplyRefusal`, `ApplyWrite`, or, when it raises,
`ApplyNothing`.

### WorkflowEngine (`workflows/engine.py`)

`disk[i]` is the saved instance (status, step index, history of statuses),
`mem[t]` the object the thread changes before it saves it, `effects` what the
actions have done and not undone. `_execute` is `Enter`, then `BeginStep` (append
the history entry and save), `ActSucceeds`/`ActFails`, `Commit` (the save after
the step) for each step, and `Complete`; a raising save or action leads to
`RecordFailure` (the except clause, which saves "failed" first) and to
`RollbackSkips`, `RollbackUndoes`, `RollbackRaises`, `EndRollback`. A save that
raises inside the except clause, the rollback or `retry` escapes (`Escapes`).
`retry` is two steps, `RetryReads` and `RetryResets`, because the check is on the
copy that was read. `raced` and `cut` are history: instances that were retried
while they were not settled, and instances a run of which was cut short.

### ClientExecution (`client_execution/`)

`Acquire` is the non-blocking lock of the client; then the record goes through
`Create`, `Start`, the call of the template (`Call`, `WorkflowEnds`, …), `Link`,
`Resume`, `Complete` or `Compensate`, `Fail`; `Except`, `CompensateLate`,
`FailLate` are the except clause, `Leave` and `Escape` the two ways out through
`finally`. `Transition` changes the object *before* the save, as
`ExecutionStateMachine.transition` does, so that `rec[t]` and `disk` differ after
a save that raised. `ExecutionLifecycle` is the abstract machine: at most one
live execution of a client, states along `STATE_TRANSITIONS`, a record that is
abandoned at any time by an escaped exception or a crash.

### TemplateLaunch (`workflows/templates.py`, `client_pipeline/`)

A template is looked up by its caller (`Resolve`: the pipeline, COS-002; the
template API does not) and again by `execute` (`Execute`), while new versions may
be created (`CreateTemplate`). `Bind` checks the parameters before anything is
written; `Define`, `Trigger` and `Record` are the three saves (definition,
instance, lineage), with the run of the workflow (`RunEnds`) before the last.
`told` is what the caller hears: the pipeline turns a failed instance into an
error, COS-002 turns every exception into a record in FAILED. `disturbed` is
history: launches whose save raised or that a crash cut off. Identifiers and
versions have no `:` in them (`_key` joins them with one). An input that is not an
object, which only the template API can pass, leaves a definition without an
instance.

### RequestHandling and HandlerErrors (`task_management/api.py`, the handlers, `observability.py`)

`HandlerErrors` has one operator for each handler: the status and the code it
answers an exception with. `RequestHandling` walks one request of HTTP/1.0 per
thread through `_observe_request`: `LogStarted`, `Refuse` (401, 403, 404) or
`Dispatch`, the body (`Receive`, `ReceiveFails`), the service (`Succeed`,
`ReturnFailed`, `Raise`, `RaiseLate`), `LogError`, `Respond`, `SendHead`, `SendBody`,
`LogCompleted`, `LogSlow`. A request begins when its head was read. From there on
its thread waits for the client twice (`WaitsForClient`): for the body, of which
`_body` reads as much as `Content-Length` declares (`api.py:251`), and for the answer to
be taken (`api.py:286-287`). The sockets of the server have no timeout, so a client
that sends less than it declared, or stops reading, may keep its own request for
ever; `EveryRequestEnds` names this as the only exception, and no request is kept
by the client of another. Three things may go
wrong at any step of it: the log raises, the client goes away, the service
raises after it did its work; `Throw` finds the try clause that is in force
(`frame`: that of the handler, that of `_execute`, or none). `Write` is the log
line, `Hear` the listener that keeps the last `Limit` events for the cockpit, as
a step of its own after the lock is released, so that two requests may be heard
in another order than they were logged. What the model showed of the code
without contradicting any text: a malformed body is a 400 of the task and
cockpit handlers and a 500 of those with a catch-all; the cockpit answers 201
for an execution whose record is FAILED; the failed workflow of a webhook is
answered 422 without a line in the log; `/clients` is resolved to its handler for
the dispatch and not for the authorisation.

### CockpitControls (`cockpit/controls/`, `cockpit/dashboards/execution_monitor.py`)

A thread with nothing to do admits a command (`Trigger` under the cockpit lock,
`Execute` without, `Retry` of a FAILED record) and starts it later (`Begin`), which
is `Acquire` or `Schedule` of `ClientExecution`. `Lock` and `Unlock` change a set in
memory. `ReadRecords` and `Join` are the monitor, followed for one of its rows.
`admitted` and `source` are history. `ImplementsExecution` is the specification of
`ClientExecution`. What the code allows and the model shows: the lock of the
cockpit is lost with the process, execute and retry go around it, one failed
execution may be retried any number of times, and one that is FAILED because a
save raised after its workflow completed has its work done twice by a retry.

### CockpitScreen (`cockpit-ui/src/hooks/useCockpitData.js`)

`now` and `clients` stand for the server; `data` and `loading` are the state of the
hook. A refresh asks (`AnswerExecutions`, `AnswerClients`, each answered or failed
on its own) and paints everything at once (`Paint`); a poll asks and paints the
executions (`AskPoll`, `AnswerPoll`, `PaintPoll`, `FailPoll`); `Post`, `Store`,
`StartRefresh`, `FailPost` are `createClient`. Nothing cancels a call, so that an
older answer may be painted over a newer one. Polls repair that for the
executions; clients are never polled, and a client that an older refresh took off
the screen stays off it until the page is loaded again or another client is
created (`CreatedIsShown` names exactly these cases).

### UsageMeter (`client_monetization/metering_observer.py`)

One listener of the log with a lock that is not reentrant. `StepCompleted`,
`ExternalRequest` count; `ExecutionEnds`, `OnboardingCompletes`,
`ScheduleRecorded`, `EndsUnmetered` are the events a request may end with; `Record`
and `RecordCalls` make the two records of a bill, and `NestedLog` is the call of
the listener by the log line of the record itself, from within: under the lock
for an onboarding. `did` and `lost` are history, against which the bill is
compared.

### Monetization (`client_monetization/service.py`, `cockpit/client_management.py`)

`SaveClient`, `Assign`, `AssignRaises`, `Uncreate` are `create` with its
compensation. `AnswerCreated` and `AnswerRaises` are what follows outside the try:
`create` reads the plan again for its answer (`_client`, line 75) and logs. When either
raises, the caller is answered an error although client and plan stay
(`unanswered`), and a caller that asks again makes a second client;
`CreateKeepsItsWord` says which clients stay in spite of an error, and that those have
the plan that was asked for. `Validate`, `ReadPlan`, `CheckTotal`, `CheckRate`, `Record` are one
call of `track`, each a separate read or write of a file; usage the system
meters itself (source "system") is recorded without the checks. `Age` is the
window of one minute moving on.

### Onboarding (`client_onboarding/onboarding_engine.py`)

The six steps and their compensations, each on top of the engine's action for
it: for instance `CreateClient` is `ActSucceeds` of step 2 and the client entity.
`CompleteOnboardingFailsLate` fails between the two saves of the last step;
`DeleteTaskNotFound` finds the task already deleted. `UpdateFinds`,
`UpdateSaves` and `Delete` are the task API on other threads: `update` reads and
writes in two steps. `ImplementsEngine` says that the composition takes no step
the engine would not.

### OutboundRequests (`integrations/outbound.py`)

The loop over the attempts: `Send`, then an answer (`Receive`), `TimesOut`,
`Breaks` or `Unreachable`. The server and the network are an environment that
may do anything, in any order: `Serve` may carry out a request long after its
caller gave up, `Lose` drops it. `Unreachable` is a `URLError`, which `urllib` makes of
every `OSError` while it sends: the request may have left all the same. Redirects,
which `urlopen` follows within an attempt and as a GET, belong to what the server
does with a request.

## What the runs check

| run | question | properties |
|---|---|---|
| `json_store` | is each repository call atomic, with concurrent calls, failing writes and a crash? | `TypeOK` (the file is whole, temporary files are left by crashes only), `ImplementsAtomicMap`, `LockIsReleased` |
| `workflow_engine` | does the persisted history account for every effect? | `HistoryIsHonest` (`WriteAhead`, `NoSilentLeak`, `CompletedHasAllEffects`, `StuckOnlyIfCut`), `UndoInReverse`, `EventuallySettles` |
| `client_execution` | do records tell the truth, one at a time? | `OpenIsHeld` (`OneOpenPerClient`, `OpenHasWorker`), `RecordsAreHonest` (`OutcomeIsTruthful`, `FalseAlarmNeedsFault`, `ReturnedIsPersisted`, `PathIsLegal`), `ImplementsLifecycle`, `EveryExecutionEnds` |
| `cockpit_controls` | does what a command or the monitor read still hold when it is used? | `AdmittedInTime`, `MonitorAgrees`, `ImplementsExecution` |
| `template_launch` | which version runs, what does a launch leave, and what does its caller hear? | `RunsWhatItFound`, `TrailIsHonest` (`TrailIsComplete`, `RefusedLeavesNothing`, `OutcomeIsTold`) |
| `request_handling` | what is sent, logged and shown in the cockpit, through three nested try clauses? | `AnswerIsTrue` (`AnsweredOnce`, `SuccessIsDone`), `LogIsTrue` (`LoggedIsSent`, `ErrorIsTraceable`), `StoreIsWindow`, `EveryRequestEnds` |
| `cockpit_screen` | which answers may hide a created client, and does the screen become current? | `CreatedIsShown`, `ScreenCatchesUp` |
| `usage_meter` | is each request billed what it did, once? | `BilledHonestly` (`BilledExactly`, `NeverOverbilled` even across a crash, `OnlyUnbilledLeak`), `LockIsReleased` |
| `monetization` | how far do the limits of a plan hold, and is a client there with its plan? | `LimitsHold` (`LimitHoldsAlone`, `RateOverrunBounded`: at most one event too many per further thread), `CreateKeepsItsWord` |
| `onboarding` | what is left of a failed onboarding? | `FailedLeavesNothing` (`FailedLeavesNoClient`, `TaskIsUndone`), `LinksAreHonest` (`CompletedIsLinked`, `OrphansAreKnown`), `ImplementsEngine` |
| `outbound` | what do a result and the log say of what was carried out? | `ReportIsHonest` (`ExecutionsBounded`, `SuccessIsReal`, `LogIsHonest`), `EveryCallEnds` |
| `limit_race` | a statement of the tests that the code does not keep | see below |

A property with others in brackets is their conjunction, and each conjunct has a
name and a comment of its own. Every module has a type invariant as well.

Each property of a passing run has a *mutant* in its module: a definition with a
plausible bug ("With a bug: …"), which the run would catch.

### Where the code and what is said of it differ

`limit_race` is checked: plan limits are enforced (`metering.py:17` and
`tests/test_monetization.py:110`), but check and record are two steps, and two
concurrent calls of `track` both pass.

The models allow four more, which no run states but the text of the properties
leaves room for:

* "Only failed workflows can be retried" (`engine.py:72`), but `retry` saves its
  reset of a copy it read earlier: two retries of one failed instance both run,
  and one may reset an instance that is completed. Such an instance is in
  `raced`, of which `HistoryIsHonest` says nothing.
* A failed instance can be retried "from clean state"
  (`tests/test_workflows.py:153`), but the status "failed" is saved before the
  rollback starts, so that a retry may run its steps while the earlier run
  still undoes its own.
* "On failures, `_rollback()` calls action rollbacks for completed steps"
  (`docs/POSTGRESQL_PERSISTENCE_READINESS_ASSESSMENT.md:232`), but a save of the
  status "failed" that raises skips it altogether (the instance is in `cut`).
* "External side effects require idempotency, compensation, outbox, or
  documented recovery strategy" (`docs/DEVELOPMENT_STANDARDS.md:83`), but a POST
  is sent again after a timeout with nothing to recognise it by:
  `ExecutionsBounded` gives the bound that does hold.

One more race is excluded by the history variable `revived` of `Onboarding`: an
update of a task that read it before the rollback deleted it writes it back
(`task_management/service.py:55`). `TaskIsUndone` holds for all other tasks.

### Bounds, and why they are enough

* Two threads: every race of these modules is between two read-check-write
  sequences or between one and a crash; a third thread only repeats the role of
  the second. The theorems hold for any number.
* `MaxCrashes` 1: a crash clears all memory, so that what a second one can add is
  a crash of a run that began after the first; the only program that resumes
  what a crash left is a retry, and it accepts only what an earlier run had
  settled as failed. In the modules with theorems the number is arbitrary.
* `MaxFaults` 2: one save that raises in the body, and a second one inside the
  handler of the first, which is the deepest nesting in the code.
* `WorkflowEngine`: three steps, the last without rollback data, so that a
  rollback has two effects to order and one step to skip; `MaxRuns` 2 is a
  trigger and a retry, which may overlap. Two overlapping retries (`MaxRuns` 3)
  are covered by the theorems.
* `ClientExecution`: two clients and two executions, so that two threads compete
  for one lock or hold two.
* `UsageMeter`: two requests, one of which may be billed while another counts;
  two steps, two calls and two lost records, one for each record of a bill.
* `Monetization`: limits 2 and 3 and rates 1 and 2 for the plans "basic" and
  "pro", units 1 or 2, a total of 5: one record more than the larger limit, so
  that going past it is a reachable state.
* `Onboarding`: one onboarding (two share no entity), two concurrent requests
  of three to its task.
* `OutboundRequests`: the default of two retries, that is three attempts, for
  two calls.
* `CockpitControls`: one client, so that both threads compete for its locks, and
  two executions, one of which may retry the other.
* `TemplateLaunch`: two launches with nine requests of the three callers (by id,
  by name, with and without a version, with wrong parameters, inputs and
  bindings); five templates: three versions of one, of which one is newer as a
  number and older as a text, one whose id is the name of another, and one with
  the same name; one save that raises or crash, as a launch has one chain of
  saves and never resumes it.
* `RequestHandling`: one connection takes requests of every shape (the handlers but
  those of the pipeline, the monetization and the connectors, which differ from
  others in the codes of their tables only; unknown paths; each role; a body that
  is declared, misdeclared or none), the other an unknown path, which logs beside
  it (two of every kind are out of reach); a store of fewer events than a single request
  logs, so that it overflows; one write of the log that raises.
* `CockpitScreen`: the first refresh and two more, all of which may overlap, two
  polls under way at a time and one change of the executions: an older and a
  newer answer are all that an order of arrival can tell apart.

Deadlock is checked for `JsonStore` and `CockpitScreen`. The other instances may
stop: all their executions, runs or requests have been used up, or a bound is
reached.

### Fairness

Weak fairness of the steps of a thread *inside* a call and nothing else: the
threads of a `ThreadingHTTPServer` are operating system threads, and nothing
they do in a call waits, except for a lock, whose release is what the liveness
properties are about, for a socket with a timeout (`timeout_seconds` of a call
to another system), and for the client of a request, whose socket has no timeout:
a thread of `RequestHandling` is fair only while it does not wait for its client. No
caller is obliged to call, no crash or fault to happen or not to, and network
and server are not fair. A server that sends an answer byte by byte restarts the
timeout of the socket each time; that is not modelled. In `CockpitScreen` the
browser's timer goes on (weak fairness of `AskPoll`), calls of a refresh are
answered or fail, and a poll that is asked for again and again is answered some
time (strong fairness of `AnswerPoll`): without that there is nothing to show.

## What is proved

With TLAPS, for every number of threads, records, instances, steps, clients and
executions, from the assumptions of the modules on their constants alone (marks
such as `NoRecord` are not values, bounds are numbers):

* `JsonStoreProofs`: `TypeCorrect`, `StraysAreFromCrashes`, `NoLostUpdate`,
  `CreateIsExclusive` and `StoreImplementsMap`. The inductive invariant adds to
  the types who holds the lock at which program counter, that the dictionary of
  a writer is the file while it holds the lock, and where a temporary file is
  whole. The refinement maps the read of a reader, the refusal of a writer, its
  `Replace` and `WriteFails` to the abstract steps, the rest to starts, returns
  or stutters. `CallsRunDown` bounds a call by seven steps of its own, a failing
  write included; the thread inside the lock is at most five from giving it back.
* `WorkflowEngineProofs`: `TypeCorrect`, `EffectsAreAnnounced` (`WriteAhead`),
  `NoLeakIsSilent`, `CompletedIsComplete`, `StuckIsCut`, together
  `HistoryTellsTheRun` (`HistoryIsHonest`), and `RollbackIsReverse`. The
  invariant is `TypeOK /\ Working /\ RunsDiffer /\ Begun /\ OnDisk`. `Working`
  says for each program counter how the object in memory, the saved instance,
  the effects and the history of the run agree; `OnDisk` what the saved instance
  says of the last run while it goes on and once it is over; `Begun` and
  `RunsDiffer` keep the effects of concurrent runs apart. The safety properties are not inductive: each speaks of the disk
  only, and the disk follows the memory of a thread. `CompletedIsFinal`: an
  instance saved as completed is never written again, unless a retry that read it
  as failed resets it later; `RunsRunDown`: a run ends after at most `4N + 6` steps of
  its own, where a step that raises leads to a rollback with fewer steps left.
  The second half is about `Onboarding`: `OnboardingTypeCorrect`,
  `FailedOnboardingLeavesNothing` (`FailedLeavesNothing`), `OnboardingLinksAreHonest`
  (`LinksAreHonest`), `OnboardingImplementsEngine` (`ImplementsEngine`), and from the
  last one `OnboardingHistoryIsHonest`: what the engine promises holds of an
  onboarding (`OnboardingKeepsTheEngine` draws the same consequence for the order of
  its rollback, its end and its finality). The invariant `OInv` says at each label which of the client, the
  onboarding, the task and their links the steps so far have built, and in a
  rollback which of them are left to undo; since an onboarding is not retried, one
  thread at most works on an instance, and what the task API does in between is
  allowed for by `revived` and by what the client step left. The engine's theorems
  use nothing of `Onboarding`, although their module extends it.
* `ClientExecutionProofs`: `TypeCorrect`, `OpenIsWorkedOn`, `OneAtATime`, together
  `OpenIsHeldAlways` (`OpenIsHeld`), `RecordsAreTruthful`, `ReturnedRecordIsPersisted` and
  `RecordsImplementLifecycle`. The invariant is `TypeOK /\ Ownership /\ CutIsGone
  /\ Coherence /\ OpenHasWorker`: the thread at a program counter owns the lock
  and the record, an execution that was cut has no thread, and record in memory,
  record on disk and the outcome of the workflow agree as far as the program
  counter says; `OneOpenPerClient` follows, since a lock has one owner.
  `EndedIsFinal` says that a record that has ended is never written again, not even by
  the except clause after a save that raised; it needs one invariant more, that the
  record of a thread that may still transition it has not ended on disk (`Unfinished`).
  `ExecutionsRunDown` bounds an execution by 13 steps of its own.
  The part about the records adds `NoFalseAlarmAlways` and `PathIsLegalAlways`,
  with which all of `RecordsAreHonest` is proved (`RecordsAreHonestAlways`); its
  invariant `RInv` says at each label in which states the object can be while no
  save has raised (`Undisturbed`), and that the list of transitions is a path of the
  table in memory and on disk (`Legal`).
  The part about `CockpitControls` proves `CockpitTypeCorrect`,
  `CommandsAreAdmittedInTime` (`AdmittedInTime`), `MonitorAgreesAlways`
  (`MonitorAgrees`), `CockpitImplementsExecution` (`ImplementsExecution`) and
  its consequences `CockpitKeepsTheLock` and `CockpitKeepsTheRecords` (honest, final and
  along the transition table). `CInv` rests on the records: a
  record that is FAILED and a workflow that has ended stay as they are, so that what
  a command or a row of the monitor has read is still true when it is used.
  The part about `CockpitScreen`, a machine of its own, proves `ScreenTypeCorrect` and
  `CreatedIsShownAlways` (`CreatedIsShown`): every refresh that was asked since the
  creation was answered is answered with the client or not at all (`Follows`), and
  once the creation is reported, what was painted last is such a refresh or one that
  was ahead of the creation (`Creation`).
* `RequestHandlingProofs`: `TypeCorrect`, `AnswerIsTrueAlways` (`AnswerIsTrue`),
  `LogIsTrueAlways` (`LogIsTrue`) and `StoreIsWindowAlways` (`StoreIsWindow`), for any connections and any requests on them. The
  invariant `HInv` says at each label what the answer under way is worth
  (`Underway`: an error until it is logged, then an answer that is deserved by what
  was done, traced in the log and named in the summary) and that an answer that
  began on the connection stays so whatever the outer clauses do (`Sent`). What an
  exception does is one lemma (`ThrowHandled`), used by the five steps that may raise;
  the tables of `HandlerErrors` are expanded once, to show that they hold errors
  only (`TablesReject`). For the store of events, the number of events of a request
  is the cardinality of a set of positions, so that the two effects of a listener
  (an event at the end, one less at the front) are facts about finite sets and no
  recursion is needed. `RequestsRunDown`: a request ends after at most 40 steps of its
  own, although an exception may throw it to an outer clause at each of them; those
  in which it waits for its client are counted.
* `TemplateLaunchProofs`: `TypeCorrect` and `TrailIsHonestAlways`. The invariant
  says at each label of a launch which of its three documents are there
  (`LaunchOK`), and of a launch that is over what its caller was told about them
  (`EndOK`); the requests are assumed to be of one of the three callers.
  `RunsWhatItFoundAlways` adds that a template that was looked up is what the
  request asks for among the templates of that moment (`RInv`), and that its id and
  version find it, and nothing else, ever after (`FoundAgain`; no template has an empty
  version, `templates.py:38`). That the newest by `_version_key` is the newest by `Rank`
  is its hypothesis `KeysRank`, a fact about the versions that are in use;
  `MCTemplateLaunch` has TLC confirm it of the versions of the run.
* `UsageMeterProofs`: `TypeCorrect`, `NeverOverbilledAlways` and
  `BilledHonestlyAlways`. A request is either served by exactly one thread, which is
  at a known place of its bill (`ServingOK`: the counters are what the request
  did until they are copied, then the copy is), or it is not, and the bill is made
  (`RestOK`); a lemma says that a step concerns one thread and one request.
  `BillsRunDown`: the holder of the lock is making a bill (`HolderBills`), and a bill is
  made after at most five steps of its own.
* `MonetizationProofs`: `TypeCorrect`, `CreateKeepsItsWordAlways`,
  `RateOverrunIsBounded` and `LimitsHoldAlways`, for a *finite* set of threads
  (`ThreadsAssumption`; a process has no other). The check and the record are apart,
  so the invariant counts: the events of the last minute and the threads that are
  past the check (`Past`) stay below the rate plus the threads (`RoomOK`), and while
  nobody records in between, what was checked still holds (`TrackingOK`).
* `OutboundRequestsProofs`: `TypeCorrect` and `ReportIsHonestAlways`. The bound on
  what the server carries out is inductive when the requests under way are
  counted with it; `Told` says where in the loop the log can say what. `CallsRunDown`
  bounds a call by `3 * (max_retries + 1)` steps of its own.

Each proof has one step per action.

The theorems whose names end in `RunDown` are the half of liveness that is a fact
about single steps. Each gives a function `Left` of a thread's place, and shows
that it is a number below a bound, that every step of the thread makes it smaller
and that no step of another thread and no crash makes it larger. What is left to
liveness is that a thread that can step does, which is the fairness of the
specifications.

Only model-checked is liveness itself: `LockIsReleased` (twice), `EventuallySettles`,
`EveryExecutionEnds`, `EveryCallEnds`, `EveryRequestEnds` and `ScreenCatchesUp`. To get
it from the theorems above one needs that the next step of a thread is ENABLED,
and induction over the value of `Left`; both are out of the prover's reach here.
The other property without a theorem is the one that `limit_race` refutes.

## What is not modelled

* A log line that cannot be written, anywhere but in `RequestHandling`: there it
  raises in the middle of anything, as in the code. One place where it matters
  and that no module has: `integrations/webhooks.py:43` logs inside its try, so that
  a log that raises makes a workflow that completed be logged once more as a
  failure and answered with 500.
* The retry of a failed onboarding through the workflow API: it makes a second
  client, whose identifier the properties of `Onboarding` would have to carry.
* Several processes on one directory: all locks are in one process, as
  `docs/POSTGRESQL_PERSISTENCE_READINESS_ASSESSMENT.md:391` says.
* Formatting, validation of request bodies, and what a JSON document holds; the
  saved data is always one that `json.dumps` accepts.
* The counters of performance, the dashboards that only add up, the sums of a
  bill (`billing.py`, `pricing_engine.py`), which are arithmetic over what the
  tracker holds.
* The pages of the cockpit UI, and its pilot mode, which asks for nothing. In
  the strict mode of a development build the first refresh is asked twice; that
  is one more overlapping refresh of the kind the model has.
* The generator, a command-line tool that one person runs at a time, and the
  system it generates; settings, domain data classes and the wiring of the process.

## Plan

Done, in this order: the store and the engine, which everything else rests on;
COS-002, the most concurrent user of both; metering and limits; onboarding as a
composition with the engine; outbound calls; the launch of templates; request
handling; the cockpit as a composition with COS-002; the screen; then the proofs.
What would extend it, most important first:

1. The composition of `ClientExecution` with `WorkflowEngine` (the external view
   of a workflow is implemented by the engine) and of `Onboarding` with
   `ClientExecution` (an execution for a client that a rollback deletes).
2. Bills (`billing.py`, `pricing_engine.py`) as operators checked against a
   reference definition.
