# A TLA+ verification of go-saga-orchestration

The repository is a saga orchestrator: workflow definitions are graphs of typed
steps; a *run* of a definition is a record in a store; `saga.advance` messages
make a *coordinator* walk a run forward until it ends or waits. Waits are ended
by a timer, a signal, an event, a worker's report or the end of child runs.
Everything of interest happens between two store calls: the store makes each
call atomic (shown here for the Redis and Postgres stores), nothing makes two of
them atomic together.

All line references are to the repository's sources.

## 1. Inventory

### Components, their state and operations

| component | source | state | operations |
|---|---|---|---|
| run lock map | `engine/runlock.go` | `locks: runID -> {mutex, refs}` under one mutex | `lock(runID)` and the closure it returns |
| coordinator | `engine/advance.go`, `coordinator.go`, `retry.go` | none but the lock map and local copies of run records | `Advance`, `executeStep`, `Cancel`, `checkParentJoin`, `checkJoinBarriers` |
| rollback | `engine/compensation.go` | none | `compensate` (reads the event log, sends undo commands), `CompensateFailedStep` |
| verbs | `engine/verbs/*.go` | none | `Execute`: compute, pause, fork, spawn, join, dispatch an action, push a catch, cancel |
| memory store | `store/memory/*.go` | run records, event log, definitions, triggers, tasks, under one mutex | about 30 operations on a run, the queries |
| Postgres store | `store/postgres/*.go` | the same as tables | one UPDATE each, or a transaction under the row's lock; a trigger that NOTIFYs events |
| Redis store | `store/redis/*.go` | a JSON blob per run, index keys for wakeups, topics, workflows, children; tasks, definitions and triggers under keys of their own | `txRun`: WATCH, MULTI, EXEC with bounded retries; blobs of ended runs expire |
| timer | `engine/timer.go` | none | every tick publishes `saga.advance` for each run whose `wakeup_at` has passed |
| event subscriber | `engine/event_subscriber.go` | none | `Deliver`: query, then wake and publish run by run |
| signal handler | `api/handler_signals.go` | none | consume the awaited signal, publish |
| action results | `api/handler_action_result.go` | none | complete or fail the action a run waits for |
| liveness server, reporter | `liveness/*.go` | one stream per job | check, then complete and publish, or fail and roll back |
| transports | `internal/mq/*.go`, `saga/publisher.go` | the queue of `saga.advance` messages | publish, deliver, requeue or drop after an error |
| cron dispatcher | `engine/cron_dispatcher.go`, `store/memory/triggers.go` | `next_fire_at` per trigger | list due triggers, claim a fire by compare-and-set, create and publish a run |
| trigger dispatcher | `engine/trigger_dispatcher.go` | none | list triggers, start a run for each that matches a record transition, record the fire |
| starts | `api/handler_sagas.go`, `saga/saga.go`, `sub_saga.go`, `spawn_saga.go` | none | resolve the published definition, write it back for its row id, create the run, publish |
| human tasks | `manual_approval.go`, `collect_input.go`, `handler_user_tasks.go` | task records | create and wait; submit and signal; closed by Cancel |
| worker SDK | `clients/go/worker` | idempotency keys, streams | take a command, run a handler, report, acknowledge |
| queries, event stream | `api/handler_sagas.go`, `handler_workflows.go`, `handler_stream.go` | the connections of the Postgres pool, with what they LISTEN to | paged lists, statistics; a snapshot and then LISTEN |
| licensing, CEL, rules, validation, HTTP API, configuration | `licensing`, `internal`, `api`, `cmd` | caches | gate, evaluate, translate requests to store calls |

`PROJECT.json` lists every component with its sources and its status.

### How they interact

* Every waker does the same two things in the same order: write the run record,
  then publish `saga.advance`. The two are separate steps, and a message may be
  delivered late or twice.
* `Advance` decides *from the record alone* why it was called: a paused run
  whose deadline has passed is due, a paused run with no marker at all was woken
  from outside, any other paused run is left alone (`advance.go:75-118`).
* Advances of one run exclude each other in one process through the lock map.
  `Cancel`, the join hooks, the subscriber and the API handlers take no lock.
* A child run that ends writes and publishes its parent (`checkParentJoin`,
  `checkJoinBarriers`), in the child's goroutine, without the parent's lock.
* With RabbitMQ a failed advance is redelivered; with the in-process publisher
  it is dropped.
* A command goes to whichever worker takes it, and to another one when the first
  loses its channel or dies: both may report. The engine checks a report against
  the record and then writes, which are two store calls.
* Whoever starts a run reads a definition and writes it back to get a row id, so
  that starts are also writers of the definitions table.

### What is hard, and what correctness means

The `hazards` of `PROJECT.json` name each place. In short: a record read before
another goroutine changes it (`Cancel`, wakers); messages that come early, late
or twice; an advance cut short between two writes; a check and a pause that are
two store calls (`fork`, `join`); a claim followed by a crash (cron); retries on
top of what a failed attempt wrote; a bounded stack; optimistic transactions
that must start over; keys that are written after the transaction they belong
to; reads put together from several commands.

| component | what makes it correct |
|---|---|
| lock map | one goroutine inside per run, no entry leaked or dropped early, nobody waits for ever |
| waits | a run goes on only when its own wait is over; no marker or deadline outlives its wait |
| steps | each step of a loop-free run is executed once, whoever advances it |
| forks and joins | a parent goes on when its children satisfy the strategy, not before, and always eventually |
| rollback | a failed run has undone its completed steps, once each, newest first |
| ends | an ended run stays as it ended; every run ends |
| cron | a fire starts at most one run, `next_fire_at` only advances, every due fire is claimed |
| stores | each call takes effect once and atomically or returns an error; no waiting run drops out of an index; a cancelled run leaves no open task |
| actions | somebody always has the answer a paused run waits for; a failed run is rolled back; reports of one command cannot contradict each other |
| starts | a run keeps the version it was started on; no run is created and silently forgotten; one failing trigger blocks no other |
| queries | a walk over the pages misses nothing that stayed; every row matched; a run that ends is counted once; a stream loses no event it could read after LISTEN, and on a connection of its own repeats none |

## 2. Modules

```
RunMutex                  one abstract mutex per run
   ^ implemented by
RunLocks  <- MCRunLocks, RunLocksProofs

SagaStore                 run records and the store's operations on them
   ^ EXTENDS
Coordinator               Advance, verbs, retries, rollback, joins, Cancel
   ^ EXTENDS
SagaSystem                + timer, signals, events, workers; properties
   ^ EXTENDS
MCSaga                    the workflows TLC checks it on
SagaStore  <- StoreProofs                    what the store's operators do to a record
SagaSystem, StoreProofs <- SagaProofs

SagaStore  <- ActionWorker  <- MCWorkers     a command from dispatch to report
                            <- WorkerProofs
SagaStore  <- RunStore                       the store as its users see it
                 ^ implemented by
SagaStore  <- RedisOps, PostgresOps <- Backends <- MCBackends, BackendsProofs

CronDispatcher  <- MCCron, CronProofs
Launch          <- MCLaunch, LaunchProofs     definitions, triggers, starts
Queries         <- MCQueries, QueriesProofs   lists, statistics, event stream
```

**RunMutex, RunLocks.** `Ref` is the first critical section of `lock` (find or
create the entry, count), `Grab` is `rl.mu.Lock()`, `Unlock` and `Unref` are the
two halves of the returned closure. `RunMutex` is what callers rely on; RunLocks
is shown to implement it. `Coordinator` uses the abstract mutex: `AcquireLock`
waits until no other worker of the same process is in an advance of the run.

**SagaStore** is not a state machine of its own: each operation is an operator
from run record to run record, used by one action of Coordinator or SagaSystem,
which is the atomicity the memory store's mutex (and a Postgres statement)
gives. A record keeps what control depends on: state, current step, the markers
`signal`, `topic` and `action`, `wakeup`, the attempt, the try_catch frames, the
parent and the parent's step.

* Variables, results and messages' contents are left out. Where a verb chooses a
  next step from data (`decision`, `switch`, `while`), the step has a *set* of
  next steps and any may be taken.
* Time is what `Advance` and the timer can tell apart: no `wakeup_at`, one that
  is `later`, one that is `due`. `Tick` is the passing of a deadline.
* The awaited action is the step that dispatched it.
* The step types that only compute are one type, `sync`; `parallel`, `foreach`
  and `sub_saga` are one type, `fork`, which differs in how many children there
  are and in the join strategy; `wait_duration` and `wait_until` are `wait`.

**Coordinator.** A goroutine is a record with a program counter; each action is
one store or transport call together with the computation up to the next one.
`snap` is the goroutine's own copy of the run: every decision the code takes on
`run` is taken on `snap`, and every write goes to the record *as it is by then*,
which is where the races are.

| actions | code |
|---|---|
| `Deliver`, `AcquireLock`, `Load` | delivery of a message; `advance.go:61-118` |
| `CheckChildren`, `Clear`, `Reread`, `SetNext` | the wakeup path, `advance.go:108-200` |
| `Dispatch`, `Reject`, `Exec*`, `Succeed`, `VerbFails`, `Retry` | gate, `executeStep`, result, `advance.go:203-330`, `retry.go` |
| `SpawnChild`, `PauseFork`, `PublishChild`, `ForkPaused` | `parallel.go`, `foreach.go`, `sub_saga.go` |
| `PublishSpawned`, `ExecJoin`, `PauseJoin` | `spawn_saga.go`, `join.go` |
| `ExecAction`, `Send`, `SendFails` | `action.go` |
| `ExecTry`, `Catch`, `Uncaught`, `StartRollback`, `Undo`, `RolledBack`, `MarkFailed` | `try_catch.go`, the failure path, `compensation.go` |
| `Complete`, `Barrier`, `ParentJoin`, `WakeParent`, `PublishParent`, `Done` | terminal writes and the join hooks |
| `ExecCancel`, `CancelRead`, `CancelWrite` | the cancel verb, `Coordinator.Cancel` |
| `Abort` | an advance cut short (process killed, context cancelled), at any point |

**SagaSystem** adds `Tick`, `TimerPoll`, `Signal`, `EventArrives`, `EventWake`,
`PublishOut`, `ReportResult` and `ReportError`, the fairness, the properties and
the inductive invariants.

**CronDispatcher.** Each pod has a clock of its own. `List` reads the due
triggers, `Claim` is the compare-and-set on `next_fire_at` in the memory store
and Postgres; `RedisClaim`, `RedisWatch` and `RedisExec` are the same in Redis, where
`dirty` says that the watched key was written since. `Decline` is a licence
refusal, `StartRun` and `Publish` the two calls after a won claim, `Crash` loses
what the pod holds. A schedule is an operator from a trigger and a time to the
next time; the only assumption on it is that next is later.

**ActionWorker** follows one run of actions. `TakeAdvance` to `PublishCommand` are
the engine's advance as far as actions take it; `Receive`, `StartJob`, `Lookup`,
`RunHandler`, `Send`, `Ack` and `RunCompensation` the worker SDK; `Check`, `Write`,
`PublishAdvance`, `Rollback`, `DispatchCompensations` and `Settle` the reporter and
`CompensateFailedStep`. `LoseChannel`, `CrashWorker` and the failing branches of
`StartJob`, `Send` and `PublishAdvance` are the faults. The store's operations are
SagaStore's, the same operators the coordinator is checked with.

**RunStore** is what a caller of the store relies on: a call takes effect once,
atomically, between its invocation and its return, with the effect SagaStore
gives it, or returns an error and has none.

**RedisOps, PostgresOps** translate each call on a run for the two databases: the
function `txRun` is given, with the index keys it changes, and the SET and WHERE
clauses of each UPDATE. **Backends** runs them concurrently: `RedisRead` (WATCH, GET,
mutate) and `RedisExec`, which fails when another client has written the blob;
`PgLock` (SELECT ... FOR UPDATE) and `PgCommit`. The engine makes the calls `Advance`
may make on the run it has read, others cancel, signal, wake, report and submit.
User tasks (`Approve`, `CreateUserTask`, `Submit`, `RedisSubmitUserTask`,
`RedisListTasks`, `RedisCloseTask`) are keys of their own. `Abandon` loses a client in
the middle of a call.

Two differences between the stores are part of RunStore's `Results`: Postgres
clears `wakeup_at` on a signal wait without a deadline, and its WHERE clause
skips a mark whose attempt is the current one and was already completed.

**Launch** is the start of runs by five kinds of starter, on three backends.
A definition row's id is its position; the memory and redis stores append a row
per upsert, Postgres keeps one per version. `Save` validates, `Register` does not.
`Receive` and `NextTrigger` are the loop of `Dispatch`; `Resolve`, `Upsert`, `CreateRun`,
`InjectStartupVariables`, `Publish` and `RecordTriggerFire` the sequence that the REST
API, the embedding API and the dispatcher share; `SpawnChildRunAt` that of the verbs.
Any of them may fail, and a process may stop between any two.

**Queries** has a client that walks the pages of a list, asks for statistics or
opens event streams, while runs are created, change their state, expire and lose
their trigger. `WriteState` writes any state over any other, as `UpdateRunState`
does: a run leaves an end when a worker's failure (`FailAction` writes failed) is
followed by its rollback (compensating, then failed again). Redis reads index,
blobs and triggers in three commands; Postgres counts the statistics in two
statements. Orders that the code leaves open (equal timestamps, Go map iteration,
SMEMBERS) are a choice among all the orders that it allows.

A stream lists the events of its run (`SendSnapshot`), acquires a connection of the
store's pool and LISTENs on it (`Listen`), and sends an event per NOTIFY
(`SendEvent`); each of its reads may fail. `pool[c]` is what connection `c` LISTENs
to and the NOTIFYs it still holds: `CloseTail` releases it as it is, so that the
next stream may get it. `tail.missed` (what the stream could not read, or was recorded
before its LISTEN) and `tail.fresh` (no stream used the connection before) are history.

Definitions called `Eager...`, `Deaf...`, `Blind...`, `Leaky...` and the like, each
described by its comment, are wrong variants of the definition that follows.
They are not part of the specification; each shows that a property would notice
that mistake.

## 3. Runs

| run | instance | shows |
|---|---|---|
| `run_locks` | 3 goroutines, 2 runs, 3 lock objects | `MutualExclusion`, `EntriesExact`, `EveryCallerGetsIn`, `ImplementsRunMutex`. Three goroutines are the fewest with one inside, one waiting on the entry and one arriving while it is dropped; the second run lets entries be dropped and objects reused. |
| `waits` | one run of signal-with-timeout, wait, event-with-deadline; 1 worker, 1 canceller, 1 abort, up to 2 messages from the timer | `WaitHonoured`, `AwaitMatchesStep`, `NoStaleWakeup`, `SettledIsFinal`, `EveryRunEnds`: duplicates, late wakers, a cancel and a crash at any point. About 180 000 states. |
| `forks` | a parent, up to 3 children, 2 workers; fork-all with a failing and a sleeping child followed by another fork, or first success of two, or an action whose command or report fails | `EachStepOnce`, `WaitHonoured`, `EveryRunEnds`: children that end before, while and after the parent pauses, on the other worker. |
| `rollback` | one run with a licence gate, retries, nested and looping try_catch, an action whose send may fail | `RollbackMirrorsLog`, `TypeOK` (the try_catch stack reaches and keeps its bound), `TerminalIsFinal`. |
| `streams` | spawn, join, action, fork over 4 runs and 2 workers; publishes and work may fail | `WaitHonoured`. |
| `cron` | 2 pods, 2 triggers, times up to 2, 1 crash, licence refusals, each of the three stores, 2 attempts of a Redis transaction | `AtMostOnce`, `NextFireAdvances`, `EveryFireClaimed`. |
| `launch` | 2 starters (a request beside any other kind of start), 3 documents of which one is an invalid draft, 2 triggers on one event, 2 saves, 1 failure or crash, each store | `RunsKeepTheirVersion`, `UnadvancedIsReported`, `AllTriggersTried`, `FiresMatchRuns`. 3.2 million states. |
| `workers` | one run of two actions, 2 workers, one fault of six kinds | `AnswerPending`, `RolledBack`, `EveryRunEnds`: both workers busy with one command, reports that race each other and the next advance. |
| `backends` | one run, one user task, the engine with 3 calls, 2 other clients with 1 call each, 2 attempts per transaction, 1 client lost, on Redis and Postgres | `ImplementsRunStore` (refinement), `IndexesComplete`, `CancelClosesTasks`, `SubmissionKept`. 1.4 million states, up to symmetry of the two clients. |
| `queries` | 3 runs of one workflow, 1 trigger, 2 saves, pages of 2, one walk with 2 changes; two streams, one after the other, over 2 runs and 2 connections, up to 4 events; each store | `WalkComplete`, `RowsMatched`, `CountedOnce`, `StreamExact`. Two streams are the fewest with a connection that was used before, of the same run or of another. 2.7 million states. |

Every run also has a type invariant, or shares a module with one that has.

Bounds: `MaxQueue` and `MaxMsgs` limit only what the timer and repeated reports add
(everything else publishes freely); `MaxAborts`, `MaxCrashes` and `MaxFaults` the
number of crashes and failing calls; `Horizon` and `MaxTime` the times; `MaxTries`
the attempts of an optimistic transaction (50 in the code: two are enough for a
first attempt that fails and a second that succeeds, and for one that
exhausts them); `MaxCalls` the calls a client makes; `MaxSaves`, `MaxWalks`,
`MaxChanges` and `MaxEvents` what happens around a start or during one walk. Two
messages, two workers, two pods or two clients beside the engine are where each of the races above first
appears; one crash is enough because what it leaves is a state the next advance
starts from afresh. A page of two and three runs have an addition shift a row
from one page to the next.

The lists of `queries` do not depend on each other, so a behaviour is about one of
them (`topic`).

Except for `run_locks`, the runs do not check deadlock: when every run has ended,
every call has been made and every trigger is past the horizon there is nothing
left to do.

Two runs end in a violation, and are findings of section 5: `join_stranded` and
`late_report`.

What the properties leave out is written into them. `AnswerPending`, `RolledBack`
and `EveryRunEnds` of `workers` except behaviours in which a report itself was lost;
`IndexesComplete` a run that a stale state write took out of a terminal state;
`RunsKeepTheirVersion` children spawned in the memory and redis stores;
`WalkComplete` lists with ties, or from which a row has dropped out;
`CountedOnce`, in Postgres, a run that comes back from its end between the two
statements; `StreamExact` the events between the snapshot and LISTEN, those whose
read failed and, as to repeated and foreign events, streams on a connection that
was used before. Each exception is a finding below or follows from paging by
offset, except that of `CountedOnce`: the two statements of
`postgres/runs.go:851-887` run without a transaction, `FailAction` commits failed
before the rollback writes compensating, and no document says that the numbers
belong to one moment. TLC reaches each exception: without it the property is violated.

### Fairness

`EveryRunEnds`, `JoinReleased`, `EveryCallerGetsIn` and `EveryFireClaimed` are
checked under fairness:

* a goroutine that can take a step does (Go's scheduler): weak fairness of the
  steps of an advance, of handlers and of pods;
* Go's mutex hands over to a waiter that has waited for long (starvation mode):
  strong fairness of `Grab` and, one level up, of `AcquireLock`;
* a broker delivers each message it has, whichever consumers are busy: strong
  fairness of delivery per run;
* time passes, the timer ticks, a worker answers each command it was handed and
  the engine works on the streams it has (goroutines again).

Signals, events, cancellations, faults and crashes are never obliged to happen
or to stop. A wait without deadline may therefore never end, and the workflows
of the runs that check `EveryRunEnds` give theirs a deadline.

## 4. Proofs

TLAPS checks the following for every value of the constants that satisfies the
modules' named assumptions: any number of runs, goroutines, workers, clients,
pods, faults and crashes, and any workflow, except where a theorem names a
restriction. Every invariant and every action property that a passing run checks
has a theorem.

Each module has one inductive invariant (`IInv`, or `BaseInv` with a part per
result), one lemma per action that shows it is preserved, and theorems that
follow from it.

### Assumptions on constants

Most say that a bound is a natural number and that `Nil` is none of the values it
is distinguished from (`NilAssumption`, `NoRecordAssumption`, `BackendsAssumption`,
`WorkerAssumption`, `QueriesAssumption`). The others:

* `DefAssumption`: a definition is a function from steps to well-formed steps; a
  spawn has one child, a try has a catch step.
* `WorkerAssumption`: ActionWorker's workflows consist of actions and ends.
* `DocAssumption`, `QueriesAssumption`: versions are naturals; the set of runs is
  finite, pages have 1 to 500 rows (what the handlers accept as `limit`); the states
  written are those of `domain/run.go`.
* `CronAssumption`: the next time of a schedule is later than the one asked about.
* `ProcAssumption`: there are finitely many goroutines.

TLC evaluates all of them on the runs.

### RunLocksProofs

`TypeCorrect`, `Exclusive`, `Exact`, `Refinement`. The invariant says which entries
are reachable, that `refs` of an entry is the number of its users (a cardinality,
so that the last one and only the last one drops it), and that two runs never
share an entry. Mutual exclusion is not inductive without it: it rests on every
user of a run pointing to the *same* entry.

### CronProofs

`TypeCorrect`, `FiredAtMostOnce`, `NextFireMonotone`. The invariant: a fire that
some pod has won, or that has a run, is earlier than the trigger's `next_fire_at`
(it is *spent*), a listed fire is due, and two pods never hold the same won fire.
For Redis it also says that an EXEC whose key was not written since WATCH swaps
the fire `next_fire_at` still holds (`WatchedIsCurrent`); with it a won EXEC and
the one-step claim of the other stores are the same step (`WinStep`).

### SagaProofs

`BaseCorrect` and `TypeCorrect` hold for every workflow. Types alone are not
inductive: a step's definition is looked up from records, so every run that is
queued, reported, matched, somebody's parent or in a goroutine's hands must
exist and have a start.

The other theorems have hypotheses, each of which the code needs.

| theorem | states | hypotheses |
|---|---|---|
| `OneAtATime` | the holder of a run's lock is alone in the middle of it and works on a run without markers | one process, no error reports over REST |
| `AwaitsMatch` | `AwaitMatchesStep` | the same |
| `SettledForGood` | `SettledIsFinal` | no error reports; any number of processes |
| `EndedForGood` | `TerminalIsFinal` | one process, no error reports, no cancels from outside |
| `DeadlinesFit` | `NoStaleWakeup` | one process, no error reports, no actions |
| `DispatchedOnce` | `EachStepOnce` | one process, no aborted advance, a rank that falls along every edge, no try step, no step without a next one |
| `WaitsHonoured` | `WaitHonoured` | one process, no error reports, and workflows of computing steps, timed waits, signals, events without deadline, try_catch and cancels |
| `UndoneNewestFirst` | `RollbackMirrorsLog` | one process, no aborted advance, no error reports, no cancels from outside, no lost compensation command; no compensable step before one that the licence gate may reject, and no end step with a compensation |

*One process*: two processes may interleave two advances of one run. *No error
reports*: `FailAction` compares only the attempt; it fails a run whatever it has
come to, and does not clear what another wait has set. *No cancels from outside*
in `EndedForGood`: a cancel that lands inside an advance is overwritten (finding
4); a cancel *outside* an advance is covered by `SettledForGood`. *No actions* in
`DeadlinesFit`: a late report makes whatever the run now waits for due. *No aborts
and no try* in `DispatchedOnce`: a redelivered advance dispatches the step again,
and a catch may jump back. *Only waits* in `WaitsHonoured`: with forks, actions or
deadlines on events the statement is false (findings 3 and 17); the `forks` and
`streams` runs check it on workflows in which no wait follows a fork. In
`UndoneNewestFirst`: a redelivered advance of a run left compensating rolls it back
again; a cancelled rollback leaves a cancelled run with compensations sent; a lost
command is missing; a rejected step fails the run without a rollback
(`advance.go:230`), so `GatesFirst(E)` asks for a set `E` that has the gated steps
and every step before them, and nothing compensable; `completedCompensableSteps`
skips end steps. The `rollback` run satisfies all of this with `E = {"gate"}`.

The argument for `AwaitsMatch`: between clearing the pause and pausing again the
lock's holder works on a run without markers, and the run's current step is the
step it executes; so the marker a verb writes is that step's. Cancels and wakers
only ever remove markers.

The later theorems share lemma `StepSplit`: every step of the specification is a
step of an advance in the middle of its run (`AdvanceStep`, with one of a few moves
`OwnMove` relating the goroutine and its run before and after), a read at the top
of the loop (`LoadStep`), or done without the lock (`AsideStep`, which only clears
markers, cancels, makes due or reports). Each result adds an invariant and checks it
against the three classes:

* `OpenInv`: the run in the middle of an advance has not ended.
* `QuietInv`: the run in the middle of an advance has no deadline, and only runs
  paused on a wait have one.
* `OnceInv`: steps ranked below the current one have not been dispatched, nor has
  the current one, unless the run is paused on it or somebody is in the middle of
  it. `started` never counts beyond one because going on means going down in rank.
* `HonourInv`: a paused run that `Advance` would resume has been granted what it
  waits for; a run that the subscriber has matched and not yet woken is still
  paused on that event, or has ended.
* `EarlyInv`: while a run is at a step of `E`, its log has only steps of `E`; no
  catch frame leads back there.
* `RollInv`: what a rollback has left to walk is a prefix of the log, and what it
  has sent is the compensable rest of the log, newest first (`Undoing`, which names
  for each command the position in the log it undoes, so that no induction over the
  log is needed); outside of a rollback nothing has been sent. Lemma `LogSplit`
  adds to `StepSplit` what each class does to the log and to the commands sent.

### BackendsProofs

`TypeCorrect`, `FoundWhenDue`, `NoTaskLeftOpen`, `SubmittedForGood` and
`Linearizable` (`Spec => ImplementsRunStore`). The invariant ties what a client
carries between two round trips to the store:

* an EXEC that nobody has made fail holds exactly what its call would make of
  the run *as it is now* (`Prepared`), since any write to the blob marks it;
* a Postgres row lock is held by the call past its SELECT, and by no other;
* an index has each waiting run, unless a write has revived an ended one;
* a Cancel in Redis still owes the tasks that were open when it took effect.

For the refinement the steps of a call before its EXEC or COMMIT map to
stuttering and the write maps to the atomic call. The passing of a deadline
commutes with every operator of the store (`Tick` changes only `later` to `due`),
which is why a mutated copy made before it is still right after it. One lemma per
kind of call shows that Redis's mutate function and Postgres's SET clause produce
a record that RunStore's `Results` allows.

### LaunchProofs

`TypeCorrect`, `VersionsKept`, `NeverSilent`, `EveryTriggerTried`, `AuditTruthful`.
The invariant records the progress of each starter: the row it holds has the
version it resolved (rows are never rewritten to another version, only added or
updated in place), the run it has created is the one it names, and its trigger is
no longer among those it still has to take up. From this a run has one starter
that answers for it, and a trigger at most one run per delivery. That some row
has the highest version (`TopRow`) makes ORDER BY version DESC LIMIT 1 well defined.

### WorkerProofs

`TypeCorrect`, `NobodyWaitsForNothing`, `FailedIsRolledBack`, for every workflow of
actions, loops included. The invariant: the lock is held by the advance or by a
report that rolls back, by nobody else; reports change neither step nor attempt,
so that an advance's copy of both stays right; a run whose answer was written is
due, so some message or the timer will find it; commands count as an answer only
while a queue or a worker holds them; and a report about to settle a rollback
has undone every completed step but those blamed.

### QueriesProofs

`TypeCorrect`, `PagesMatched`, `NoneCountedTwice`, `StreamedOnce`, `NothingMissed`.
The steps fall into those that change the lists (`ChangeStep`) and those that read
them (`ReadStep`). Changes never alter a run's start time, workflow or trigger,
and only remove triggers; so blobs read earlier agree with the rows on all of a
filter but the state, which may be any other.

* `NoneCountedTwice` (`CountInv`): a run that the first statement counted as ended is
  not in flight when the second counts, unless a write between them has brought it
  back; memory and Redis judge each run by one copy of it.
* `StreamedOnce` (`StreamInv`): what was sent followed by the NOTIFYs that the connection
  still holds has all events of the run but those missed. On a connection that was
  fresh it is injective and has no others, because such a connection LISTENs to the
  stream's run alone and its first NOTIFY comes after the snapshot.
* `NothingMissed` is the deepest: a row that matched throughout and was not seen
  yet has at least `offset` matching rows ahead of it, so the next page, which
  starts there, either holds it or is full of rows ahead of it. An empty page then
  means that nothing is left. Additions to the front only add rows ahead. With
  Redis the rows are those of an earlier read (`Held`), for which the same holds.

### Only model-checked

* Every liveness property: fairness and ENABLED are out of the prover's reach.
* `WaitHonoured` for the workflows of `forks` and `streams`, and of `waits`, whose
  last event has a deadline; `EachStepOnce` and `TerminalIsFinal` outside the
  hypotheses above (error reports in `forks`, catches in `rollback`).

No module with a theorem reaches a RECURSIVE operator.

## 5. Findings

Two are counterexamples that runs produce:

1. `join_stranded` (`engine/verbs/join.go:108`): the last watched child ends
   between the join's check and its pause; nothing wakes the parent.
   The fork verbs pause *before* they start their children and have no such window.
2. `late_report` (`liveness/reporter.go:120`): a command that was delivered twice is
   reported twice; the failure that passed its check first and writes last makes
   a run failed that has succeeded.

The others were met while modelling; each is visible in the definition named:

3. `engine/advance.go:92` (Coordinator `Load`): a second `saga.advance` for a run paused on an
   action is taken for a wakeup. The architecture guide calls it harmless.
4. `engine/advance.go:203` (Coordinator `Dispatch`): a cancel that lands inside an advance is
   overwritten by the advance's next state write.
5. `engine/cron_dispatcher.go:136` (CronDispatcher `Crash`): a crash after the claim loses the
   window. "Exactly once" in the repository's README is at most once.
6. `store/memory/store.go:101` (Launch `Upsert`, `MemoryPublished`): a start that read version 1
   republishes it over a version 2 saved meanwhile; Postgres is not affected.
7. `store/redis/pause.go:228` (Backends `hit`): an answer kept in a closure variable
   survives the attempt it belongs to, so a signal can be reported consumed twice.
8. `store/redis/runs.go:127` (Backends `RedisListTasks`, `RedisCloseTask`): Cancel is not atomic with the user tasks,
   cannot be repeated, and can overwrite a submission.
9. `api/handler_stream.go:137` (Queries `SendSnapshot`, `AppendEvent`, `SendEvent`): events between
   snapshot and LISTEN are lost, and those whose read failed: the error of the list is
   dropped, an event that cannot be read is skipped.
10. `engine/verbs/manual_approval.go:80` (Backends `CreateUserTask`): a task can be submitted
    before the run waits for it.
11. `store/store.go:138`: `WakeFromExternal` is documented to set `wakeup_at`; all stores
    clear it, so the timer does not back up a lost message.
12. `clients/go/worker/runtime.go:337` (ActionWorker `Send`, `ReportLost`): a report that is
    lost is not retried; the documents rely on a redelivery that the worker has
    acknowledged away.
13. `store/memory/store.go:563` (Launch `SpawnRow`): a spawned child gets the newest row,
    published or not, in the memory and redis stores.
14. `engine/trigger_dispatcher.go:116` (Launch `Unresolved`): a store error is treated as a
    missing workflow and not returned.
15. `store/memory/store.go:122` (Queries `SaveDefinition`): only Postgres stamps `CreatedAt`.
16. `engine/validate.go:63`, `engine/retry.go:81`, `cmd/engine/main.go:162`: a TODO and two
    passages of the architecture guide describe validation, retries and leader
    election as missing; all three are there.
17. `engine/advance.go:411`, `engine/event_subscriber.go:69` (Coordinator `WakeParent`,
    SagaSystem `EventWake`): the check that a run still waits and the write that wakes it
    are two store calls. Of two children that end together, or of an event and its
    deadline, the second wake comes when the run is already in its next wait, and ends
    that one. Met as the reason why `WaitHonoured` has no proof for forks followed by
    a wait; TLC finds both on workflows of three steps.
18. `api/handler_stream.go:150` (Queries `CloseTail`, `Listen`): the connection goes back to the store's
    pool still LISTENing. The next stream on it sends what the earlier one was
    notified of: events of its own snapshot again, or events of another run. The
    handler's comment speaks of a dedicated pool.

## 6. Not modelled

* Errors of the store itself in the coordinator, most of which it ignores by
  assignment to `_`; there the model's store calls succeed. Launch and Backends
  let them fail.
* Several engine processes on one set of runs: `PodOf` is a parameter, but every
  run gives all workers one process.
* A client that leaves a stream is noticed only at the next failed write, so a stream
  may end at any time. The run's own frame at its start is not told apart.
* Backoff delays, headers of events, batch limits, configuration errors of
  triggers, heartbeats.
* Values of variables and results, and what the computing verbs do with them.
* Redis: the transaction that spawns a child, expiry of a child that a join still
  counts, signals appended while another is consumed (the code's own comment
  accepts that loss).
* Leader election (an advisory lock of the database server; no model relies on a
  single timer), the registry and the rules (records that are written and read
  back), CEL, routing and authentication, logging, telemetry, migrations,
  generated code.

## 7. Plan

Done: the lock map with refinement; store, coordinator and wakers; the cron
dispatcher on three stores; ActionWorker; Launch; the Redis and Postgres stores
with their refinement of RunStore; Queries; proofs about each of them.

What remains worth doing, in this order:

1. **Proofs.** `WaitHonoured` for workflows that fork and never pause on anything
   else afterwards (needs that a satisfied join condition stays satisfied).
2. **Crash runs** over forks, and two processes.
3. **Pure algorithms** against reference definitions: `Backoff` with its cap and
   overflow, `headersSubset`, dotted-path assignment.
