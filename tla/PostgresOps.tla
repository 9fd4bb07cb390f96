---------------------------- MODULE PostgresOps -----------------------------
(***************************************************************************)
(* What the Postgres store's calls do to a row of runtime.saga_runs        *)
(* (store/postgres/runs.go): the SET clause of each UPDATE, and its WHERE  *)
(* clause as a predicate where it has one besides the id.                  *)
(***************************************************************************)
EXTENDS SagaStore

\* state NOT IN ('succeeded', 'failed', 'cancelled')
InFlight(r) == r.state \notin {"succeeded", "failed", "cancelled"}

PgUpdateRunState(r, state, step) == [r EXCEPT !.state = state, !.step = step]

PgCancel(r) ==
    IF InFlight(r)
      THEN [r EXCEPT !.state = "cancelled", !.wakeup = "none", !.signal = Nil,
                     !.topic = Nil, !.action = Nil]
      ELSE r

PgMarkRunFailed(r, step) ==
    IF InFlight(r) THEN [r EXCEPT !.state = "failed", !.step = step] ELSE r

PgSetPausedWithWakeup(r) == [r EXCEPT !.state = "paused", !.wakeup = "later"]

\* wakeup_at is always written, NULL without a deadline.
PgSetPausedAwaitingSignal(r, name, deadline) ==
    [r EXCEPT !.state = "paused", !.signal = name,
              !.wakeup = IF deadline THEN "later" ELSE "none"]

PgSetPausedAwaitingEvent(r, topic, deadline) ==
    [r EXCEPT !.state = "paused", !.topic = topic,
              !.wakeup = IF deadline THEN "later" ELSE "none"]

PgClearPause(r) ==
    [r EXCEPT !.state = "running", !.wakeup = "none", !.signal = Nil, !.topic = Nil]

PgFindRunsByDueWakeup(r) == r.state = "paused" /\ r.wakeup = "due"

PgFindRunsByAwaitedEvent(r, topic) == r.state = "paused" /\ r.topic = topic

PgConsumable(r, name) == r.state = "paused" /\ r.signal = name

PgTryConsume(r) == [r EXCEPT !.signal = Nil, !.topic = Nil, !.wakeup = "none"]

PgWakeFromExternal(r) == [r EXCEPT !.signal = Nil, !.topic = Nil, !.wakeup = "none"]

PgStackFull(r) == Len(r.frames) >= 3

PgPushTryCatch(r, catch) == [r EXCEPT !.frames = Append(@, catch)]

PgPopTryCatch(r) ==
    IF r.frames = <<>> THEN r ELSE [r EXCEPT !.frames = SubSeq(@, 1, Len(@) - 1)]

\* WHERE NOT (current_attempt = $3 AND awaited_action_dispatch = $2).  With the same
\* attempt and a NULL dispatch the condition is NULL: no row is updated.
PgMarkAwaitingAction(r, step, attempt) ==
    IF r.attempt = attempt /\ r.action \in {step, Nil} THEN r
    ELSE [r EXCEPT !.state = "paused", !.action = step, !.attempt = attempt]

PgCompleteAction(r, attempt) ==
    IF r.attempt = attempt THEN [r EXCEPT !.action = Nil, !.wakeup = "due"] ELSE r

PgFailAction(r, attempt) ==
    IF r.attempt = attempt THEN [r EXCEPT !.action = Nil, !.state = "failed"] ELSE r
=============================================================================
