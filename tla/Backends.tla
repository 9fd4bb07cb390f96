------------------------------ MODULE Backends ------------------------------
(***************************************************************************)
(* Concurrent calls on one run and its user tasks in the Redis and the     *)
(* Postgres store.  Redis: txRun reads the blob under WATCH, builds the    *)
(* new one and EXECs, and starts over when another client has written the  *)
(* blob meanwhile; user tasks are keys of their own, outside that          *)
(* transaction.  Postgres: an UPDATE is atomic, the calls that read before *)
(* they write hold the row's lock from their SELECT ... FOR UPDATE (Cancel *)
(* from its first UPDATE) to their commit.                                 *)
(*                                                                         *)
(* One client is the engine, whose Advance reads the run before each call  *)
(* it makes; manual_approval creates a user task and then waits for its    *)
(* signal.  The others cancel, signal, wake, report and submit tasks.      *)
(***************************************************************************)
EXTENDS RedisOps, PostgresOps

CONSTANTS
    Engine, Outsider,   \* the clients
    First,              \* the step the run is on
    Task,               \* user tasks; the signal of a task is named like the task
    MaxCalls,           \* MaxCalls[c]: calls that client c makes
    MaxTries,           \* txMaxRetries
    MaxFaults           \* calls abandoned half-way

Client == {Engine} \cup Outsider

ASSUME BackendsAssumption ==
    /\ Engine \notin Outsider /\ Nil \notin Client
    /\ First \in Step /\ Task \subseteq Name
    /\ MaxCalls \in [Client -> Nat] /\ MaxTries \in Nat \ {0} /\ MaxFaults \in Nat

VARIABLES
    backend,
    db,         \* the run: a RedisEntry; Postgres has no index, only db.run and db.vars
    tasks,      \* tasks[t]: "none", "open", "submitted" or "closed" (by Cancel)
    lock,       \* Postgres: who holds the row's lock
    cl,         \* cl[c]: the call client c is in
    calls,      \* calls[c]: how many calls c has made
    faults,
    revived     \* history: some write took the run out of a terminal state

vars == <<backend, db, tasks, lock, cl, calls, faults, revived>>

NoOp == [kind |-> "clear", step |-> Nil, state |-> Nil, name |-> Nil, deadline |-> FALSE,
         attempt |-> 0]

\* task: the user task the call is about.  write, dirty, tries: txRun's new entry, whether
\* another client wrote the blob since WATCH, failed EXECs.  hit: what the call will answer
\* (consumed, cancelled, popped).  todo: tasks Cancel has yet to close.  done and owed are
\* history: it took effect, the tasks that were open at that moment.
Idle == [pc |-> "idle", op |-> Nil, task |-> Nil, write |-> Nil, dirty |-> FALSE, tries |-> 0,
         hit |-> FALSE, todo |-> {}, done |-> FALSE, owed |-> {}]

Init ==
    /\ backend \in {"redis", "postgres"}
    /\ db = [run |-> NewSagaRun(First), vars |-> {}, wake |-> "none", topics |-> {}]
    /\ tasks = [t \in Task |-> "none"]
    /\ lock = Nil
    /\ cl = [c \in Client |-> Idle]
    /\ calls = [c \in Client |-> 0]
    /\ faults = 0
    /\ revived = FALSE

OpenTasks == {t \in Task : tasks[t] = "open"}

-----------------------------------------------------------------------------
(***************************************************************************)
(* The calls.                                                              *)
(***************************************************************************)
Kinds(ks) == {[NoOp EXCEPT !.kind = k] : k \in ks}

\* A run that succeeds is on no step any more.
StateOps(s) ==
    {[NoOp EXCEPT !.kind = "state", !.state = x, !.step = IF x = "succeeded" THEN Nil ELSE s] :
        x \in {"running", "paused", "compensating", "succeeded", "cancelled"}}

WaitOp(kind, name, deadline) ==
    [NoOp EXCEPT !.kind = kind, !.name = name, !.deadline = deadline]

WaitOps == {WaitOp(k, n, d) : k \in {"signal", "event"}, n \in Name \ Task, d \in BOOLEAN}

\* What Advance and its verbs may call on the run they have read.
EngineOps(r) ==
    CASE r.state = "paused" ->
           IF WakeupDue(r) \/ ExternalWake(r) THEN Kinds({"clear"}) ELSE {}
      [] r.state \in {"pending", "running"} ->
           Kinds({"vars", "wait"})
           \cup StateOps(CurrentStep(r)) \cup WaitOps
           \cup {[NoOp EXCEPT !.kind = "failed", !.step = CurrentStep(r)]}
           \cup {[NoOp EXCEPT !.kind = "mark", !.step = CurrentStep(r), !.attempt = r.attempt + 1]}
           \cup {[NoOp EXCEPT !.kind = "push", !.step = CurrentStep(r)]}
           \cup (IF r.frames = <<>> THEN {} ELSE Kinds({"pop"}))
      [] r.state = "compensating" -> {[NoOp EXCEPT !.kind = "failed", !.step = CurrentStep(r)]}
      [] OTHER -> {}

FindRunsByAwaitedEvent(topic) ==
    IF backend = "redis" THEN RedisFindRunsByAwaitedEvent(db, topic)
    ELSE PgFindRunsByAwaitedEvent(db.run, topic)

FindRunsByDueWakeup ==
    IF backend = "redis" THEN RedisFindRunsByDueWakeup(db) ELSE PgFindRunsByDueWakeup(db.run)

\* What the REST handlers, the event subscriber and workers may call.
OutsiderOps ==
    Kinds({"cancel"})
    \cup {[NoOp EXCEPT !.kind = "consume", !.name = n] : n \in Name \ Task}
    \cup (IF \E n \in Name : FindRunsByAwaitedEvent(n) THEN Kinds({"wake"}) ELSE {})
    \cup (IF db.run.attempt = 0 THEN {}
          ELSE {[NoOp EXCEPT !.kind = k, !.attempt = db.run.attempt] : k \in {"complete", "fail"}})

Ready(c, op, task, pc) ==
    /\ cl[c].pc = "idle" /\ calls[c] < MaxCalls[c]
    /\ cl' = [cl EXCEPT ![c].pc = pc, ![c].op = op, ![c].task = task]
    /\ calls' = [calls EXCEPT ![c] = @ + 1]
    /\ UNCHANGED <<backend, db, tasks, lock, faults, revived>>

Invoke(c) ==
    \E op \in IF c = Engine THEN EngineOps(db.run) ELSE OutsiderOps : Ready(c, op, Nil, "ready")

\* manual_approval and collect_input, on a pending or running run.
Approve(t, deadline) ==
    /\ db.run.state \in {"pending", "running"} /\ tasks[t] = "none"
    /\ Ready(Engine, WaitOp("signal", t, deadline), t, "create")

\* UserTaskHandler.Submit, from its GetUserTask.
Submit(c, t) ==
    /\ c \in Outsider /\ tasks[t] # "none"
    /\ Ready(c, [NoOp EXCEPT !.kind = "consume", !.name = t], t, "submit")

CreateUserTask(c) ==
    /\ cl[c].pc = "create"
    /\ tasks' = [tasks EXCEPT ![cl[c].task] = "open"]
    /\ cl' = [cl EXCEPT ![c].pc = "ready"]
    /\ UNCHANGED <<backend, db, lock, calls, faults, revived>>

\* One UPDATE; a row that Cancel has closed is overwritten.
PgSubmitUserTask(c) ==
    /\ backend = "postgres" /\ cl[c].pc = "submit"
    /\ tasks' = [tasks EXCEPT ![cl[c].task] = "submitted"]
    /\ cl' = [cl EXCEPT ![c].pc = "ready"]
    /\ UNCHANGED <<backend, db, lock, calls, faults, revived>>

\* GET, then SET of the whole task.
RedisGetUserTask(c) ==
    /\ backend = "redis" /\ cl[c].pc = "submit"
    /\ cl' = [cl EXCEPT ![c].pc = "set"]
    /\ UNCHANGED <<backend, db, tasks, lock, calls, faults, revived>>

RedisSubmitUserTask(c) ==
    /\ cl[c].pc = "set"
    /\ tasks' = [tasks EXCEPT ![cl[c].task] = "submitted"]
    /\ cl' = [cl EXCEPT ![c].pc = "ready"]
    /\ UNCHANGED <<backend, db, lock, calls, faults, revived>>

-----------------------------------------------------------------------------
(***************************************************************************)
(* Redis.                                                                  *)
(***************************************************************************)
\* errAbortNoWrite: the call returns without an EXEC.
RedisAborts(op, e) ==
    \/ op.kind = "consume" /\ ~RedisConsumable(e, op.name)
    \/ op.kind = "pop" /\ RedisStackEmpty(e)
    \/ op.kind = "mark" /\ RedisMarked(e, op.step, op.attempt)
    \/ op.kind \in {"complete", "fail"} /\ RedisLate(e, op.attempt)

\* The closure variables consumed, cancelled and found.
RedisHit(op, e) == op.kind \in {"consume", "pop"} \/ (op.kind = "cancel" /\ ~IsTerminal(e.run))

RedisMutate(op, e) ==
    CASE op.kind = "state"    -> RedisUpdateRunState(e, op.state, op.step)
      [] op.kind = "failed"   -> RedisMarkRunFailed(e, op.step)
      [] op.kind = "cancel"   -> RedisCancel(e)
      [] op.kind = "vars"     -> RedisUpdateRunVariables(e)
      [] op.kind = "wait"     -> RedisSetPausedWithWakeup(e)
      [] op.kind = "signal"   -> RedisSetPausedAwaitingSignal(e, op.name, op.deadline)
      [] op.kind = "event"    -> RedisSetPausedAwaitingEvent(e, op.name, op.deadline)
      [] op.kind = "clear"    -> RedisClearPause(e)
      [] op.kind = "wake"     -> RedisWakeFromExternal(e)
      [] op.kind = "consume"  -> RedisTryConsume(e)
      [] op.kind = "push"     -> RedisPushTryCatch(e, op.step)
      [] op.kind = "pop"      -> RedisPopTryCatch(e)
      [] op.kind = "mark"     -> RedisMarkAwaitingAction(e, op.step, op.attempt)
      [] op.kind = "complete" -> RedisCompleteAction(e)
      [] op.kind = "fail"     -> RedisFailAction(e)

\* WATCH, GET and the mutate function.  A full stack is an error.
RedisRead(c) ==
    LET op == cl[c].op IN
    /\ backend = "redis" /\ cl[c].pc = "ready"
    /\ cl' = [cl EXCEPT ![c] =
         IF op.kind = "push" /\ RedisStackFull(db) THEN [@ EXCEPT !.pc = "reply"]
         ELSE IF RedisAborts(op, db) THEN [@ EXCEPT !.pc = "reply", !.done = TRUE]
         ELSE [@ EXCEPT !.pc = "exec", !.write = RedisMutate(op, db), !.dirty = FALSE,
                        !.hit = cl[c].hit \/ RedisHit(op, db)]]
    /\ UNCHANGED <<backend, db, tasks, lock, calls, faults, revived>>

Revives(r, q) == IsTerminal(r) /\ ~IsTerminal(q)

\* The client after its write; all others that watch the blob will fail their EXEC.
Committed(c, next) ==
    [d \in Client |->
        IF d = c THEN [cl[c] EXCEPT !.pc = next, !.write = Nil, !.done = TRUE,
                                    !.owed = IF cl[c].op.kind = "cancel" /\ ~IsTerminal(db.run)
                                             THEN OpenTasks ELSE {}]
        ELSE IF cl[d].pc = "exec" THEN [cl[d] EXCEPT !.dirty = TRUE]
        ELSE cl[d]]

\* An EXEC without WATCH: whatever was written meanwhile is overwritten.
UnwatchedExec(c) ==
    /\ cl[c].pc = "exec"
    /\ db' = cl[c].write
    /\ cl' = Committed(c, IF cl[c].op.kind = "cancel" /\ cl[c].hit THEN "list" ELSE "reply")
    /\ revived' = (revived \/ Revives(db.run, db'.run))
    /\ UNCHANGED <<backend, tasks, lock, calls, faults>>

\* EXEC, or TxFailedErr and the next of MaxTries attempts.
RedisExec(c) ==
    /\ cl[c].pc = "exec"
    /\ IF cl[c].dirty
         THEN /\ cl' = [cl EXCEPT ![c].tries = @ + 1, ![c].write = Nil, ![c].dirty = FALSE,
                                  ![c].pc = IF cl[c].tries + 1 < MaxTries THEN "ready" ELSE "reply"]
              /\ UNCHANGED <<db, revived>>
         ELSE /\ db' = cl[c].write
              /\ cl' = Committed(c, IF cl[c].op.kind = "cancel" /\ cl[c].hit THEN "list" ELSE "reply")
              /\ revived' = (revived \/ Revives(db.run, db'.run))
    /\ UNCHANGED <<backend, tasks, lock, calls, faults>>

\* A Cancel that closes no task.
SkipTasks(c) ==
    /\ cl[c].pc = "list"
    /\ cl' = [cl EXCEPT ![c].pc = "close"]
    /\ UNCHANGED <<backend, db, tasks, lock, calls, faults, revived>>

\* Cancel: ListUserTasksByRun, then a SET of each task that was open in that list.
RedisListTasks(c) ==
    /\ cl[c].pc = "list"
    /\ cl' = [cl EXCEPT ![c].pc = "close", ![c].todo = OpenTasks]
    /\ UNCHANGED <<backend, db, tasks, lock, calls, faults, revived>>

RedisCloseTask(c) ==
    /\ cl[c].pc = "close"
    /\ \/ /\ cl[c].todo = {}
          /\ cl' = [cl EXCEPT ![c].pc = "reply"]
          /\ UNCHANGED tasks
       \/ \E t \in cl[c].todo :
            /\ tasks' = [tasks EXCEPT ![t] = "closed"]
            /\ cl' = [cl EXCEPT ![c].todo = @ \ {t}]
    /\ UNCHANGED <<backend, db, lock, calls, faults, revived>>

-----------------------------------------------------------------------------
(***************************************************************************)
(* Postgres.                                                               *)
(***************************************************************************)
PgRow(op, r) ==
    CASE op.kind = "state"    -> PgUpdateRunState(r, op.state, op.step)
      [] op.kind = "failed"   -> PgMarkRunFailed(r, op.step)
      [] op.kind = "cancel"   -> PgCancel(r)
      [] op.kind = "vars"     -> r
      [] op.kind = "wait"     -> PgSetPausedWithWakeup(r)
      [] op.kind = "signal"   -> PgSetPausedAwaitingSignal(r, op.name, op.deadline)
      [] op.kind = "event"    -> PgSetPausedAwaitingEvent(r, op.name, op.deadline)
      [] op.kind = "clear"    -> PgClearPause(r)
      [] op.kind = "wake"     -> PgWakeFromExternal(r)
      [] op.kind = "consume"  -> IF PgConsumable(r, op.name) THEN PgTryConsume(r) ELSE r
      [] op.kind = "push"     -> IF PgStackFull(r) THEN r ELSE PgPushTryCatch(r, op.step)
      [] op.kind = "pop"      -> PgPopTryCatch(r)
      [] op.kind = "mark"     -> PgMarkAwaitingAction(r, op.step, op.attempt)
      [] op.kind = "complete" -> PgCompleteAction(r, op.attempt)
      [] op.kind = "fail"     -> PgFailAction(r, op.attempt)

\* UpdateRunVariables; the result CompleteAction merges.
PgVariables(op, r, w) ==
    CASE op.kind = "vars"                               -> w \cup {"step"}
      [] op.kind = "complete" /\ r.attempt = op.attempt -> w \cup {"result"}
      [] OTHER                                          -> w

PgHit(op, r) ==
    \/ op.kind = "consume" /\ PgConsumable(r, op.name)
    \/ op.kind = "cancel" /\ InFlight(r)
    \/ op.kind = "pop" /\ r.frames # <<>>

PgTransaction == {"cancel", "consume", "push", "pop", "vars", "fail"}

\* A close that does not ask whether the task was submitted.
PgCloseEveryTask == [t \in Task |-> IF tasks[t] = "none" THEN "none" ELSE "closed"]

\* WHERE run_id = $1 AND submitted_at IS NULL
PgCloseTasks == [t \in Task |-> IF tasks[t] = "open" THEN "closed" ELSE tasks[t]]

\* SELECT ... FOR UPDATE
PgLock(c) ==
    /\ backend = "postgres" /\ cl[c].pc = "ready" /\ cl[c].op.kind \in PgTransaction
    /\ lock = Nil
    /\ lock' = c
    /\ cl' = [cl EXCEPT ![c].pc = "locked"]
    /\ UNCHANGED <<backend, db, tasks, calls, faults, revived>>

\* The UPDATE of a call without a transaction, or the commit of one with.  Cancel closes
\* the open tasks in the same transaction; an error (a full stack) rolls back.
PgCommit(c) ==
    LET op == cl[c].op IN
    /\ backend = "postgres"
    /\ \/ cl[c].pc = "ready" /\ op.kind \notin PgTransaction /\ lock = Nil
       \/ cl[c].pc = "locked"
    /\ lock' = Nil
    /\ db' = [db EXCEPT !.run = PgRow(op, @), !.vars = PgVariables(op, db.run, @)]
    /\ tasks' = IF op.kind = "cancel" /\ InFlight(db.run)
                  THEN PgCloseTasks
                  ELSE tasks
    /\ revived' = (revived \/ Revives(db.run, db'.run))
    /\ cl' = [cl EXCEPT ![c] =
                [@ EXCEPT !.pc = "reply", !.done = ~(op.kind = "push" /\ PgStackFull(db.run)),
                          !.hit = PgHit(op, db.run),
                          !.owed = IF op.kind = "cancel" /\ InFlight(db.run) THEN OpenTasks ELSE {}]]
    /\ UNCHANGED <<backend, calls, faults>>

-----------------------------------------------------------------------------
Reply(c) ==
    /\ cl[c].pc = "reply"
    /\ cl' = [cl EXCEPT ![c] = Idle]
    /\ UNCHANGED <<backend, db, tasks, lock, calls, faults, revived>>

\* A lost connection whose row lock stays.
LeakedLock(c) ==
    /\ cl[c].pc \notin {"idle", "reply"} /\ faults < MaxFaults
    /\ faults' = faults + 1
    /\ cl' = [cl EXCEPT ![c] = Idle]
    /\ UNCHANGED <<backend, db, tasks, lock, calls, revived>>

\* The client's process or connection is gone: Postgres rolls back, in Redis what was
\* not sent does not happen.
Abandon(c) ==
    /\ cl[c].pc \notin {"idle", "reply"} /\ faults < MaxFaults
    /\ faults' = faults + 1
    /\ cl' = [cl EXCEPT ![c] = Idle]
    /\ lock' = IF lock = c THEN Nil ELSE lock
    /\ UNCHANGED <<backend, db, tasks, calls, revived>>

Elapsed(e) == [e EXCEPT !.run.wakeup = IF @ = "later" THEN "due" ELSE @,
                        !.wake = IF @ = "later" THEN "due" ELSE @]

\* The call brings its own wakeup_at; the others write back the one they have read.
FreshWakeup(op) == op.kind = "wait" \/ op.deadline

\* Wakeups are absolute times: one that was read before it was due is due when written back.
Tick ==
    /\ db.run.wakeup = "later" \/ db.wake = "later"
    /\ db' = Elapsed(db)
    /\ cl' = [c \in Client |-> IF cl[c].write = Nil \/ FreshWakeup(cl[c].op) THEN cl[c]
                               ELSE [cl[c] EXCEPT !.write = Elapsed(@)]]
    /\ UNCHANGED <<backend, tasks, lock, calls, faults, revived>>

Next ==
    \/ \E c \in Client :
         \/ Invoke(c) \/ CreateUserTask(c) \/ Reply(c) \/ Abandon(c)
         \/ PgSubmitUserTask(c) \/ PgLock(c) \/ PgCommit(c)
         \/ RedisGetUserTask(c) \/ RedisSubmitUserTask(c) \/ RedisRead(c) \/ RedisExec(c)
         \/ RedisListTasks(c) \/ RedisCloseTask(c)
    \/ \E t \in Task, deadline \in BOOLEAN : Approve(t, deadline)
    \/ \E c \in Outsider, t \in Task : Submit(c, t)
    \/ Tick

Spec == Init /\ [][Next]_vars

-----------------------------------------------------------------------------
(***************************************************************************)
(* Properties.                                                             *)
(***************************************************************************)
\* The whole state has its type; only a holder is past its SELECT ... FOR UPDATE, and
\* only one EXEC is prepared per call.
TypeOK ==
    /\ backend \in {"redis", "postgres"}
    /\ db \in RedisEntry
    /\ tasks \in [Task -> {"none", "open", "submitted", "closed"}]
    /\ calls \in [Client -> Nat] /\ faults \in 0..MaxFaults /\ revived \in BOOLEAN
    /\ \A c \in Client :
         /\ (lock = c) <=> (cl[c].pc = "locked")
         /\ (cl[c].write # Nil) <=> (cl[c].pc = "exec")
         /\ cl[c].write # Nil => cl[c].write \in RedisEntry
         /\ cl[c].tries \in 0..MaxTries

\* The call of c as the store's user sees it: it starts once the user task is stored.
AbstractCall(c) ==
    IF cl[c].pc \in {"idle", "create", "submit", "set"} THEN [op |-> Nil, done |-> FALSE]
    ELSE [op |-> cl[c].op, done |-> cl[c].done]

Store == INSTANCE RunStore WITH run <- db.run, written <- db.vars,
                                call <- [c \in Client |-> AbstractCall(c)]

\* Nil is none of the records it stands in for.
ASSUME NoRecordAssumption == Nil \notin RedisEntry /\ Nil \notin Store!Op

\* txRun's WATCH and retries, and Postgres's row lock, make every call on a run take effect
\* once and atomically, on the run as it is at that moment, or return an error without effect.
ImplementsRunStore == Store!Spec

\* A paused run that is due is found by the timer's FindRunsByDueWakeup, and one that waits
\* for an event by FindRunsByAwaitedEvent: no order of calls leaves Redis's idx:wakeup or
\* idx:awaitevent without it (but for a run that a stale write took out of a terminal state).
IndexesComplete ==
    db.run.state = "paused" /\ ~revived =>
        /\ db.run.wakeup = "due" => FindRunsByDueWakeup
        /\ db.run.topic # Nil => FindRunsByAwaitedEvent(db.run.topic)

\* When Cancel of a run answers without an error, every user task that was open when the
\* run became cancelled has been closed or submitted, though Redis closes them one by one
\* after the transaction.
CancelClosesTasks ==
    \A c \in Client : cl[c].pc = "reply" /\ cl[c].done => cl[c].owed \cap OpenTasks = {}

\* In Postgres a submitted user task stays submitted: Cancel closes only the open ones.
SubmissionKept ==
    [][backend = "postgres" =>
         \A t \in Task : tasks[t] = "submitted" => tasks'[t] = "submitted"]_tasks
=============================================================================
