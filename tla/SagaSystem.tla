----------------------------- MODULE SagaSystem -----------------------------
(***************************************************************************)
(* The coordinator with what wakes runs from outside: the signal handler   *)
(* (api/handler_signals.go), the event subscriber                          *)
(* (engine/event_subscriber.go), the timer (engine/timer.go) and workers   *)
(* that report the result of an action (api/handler_action_result.go).     *)
(***************************************************************************)
EXTENDS Coordinator

CONSTANTS
    First,      \* First[r]: the start step of a run that exists at first, or Nil
    MaxQueue,   \* the timer publishes while fewer messages than this wait
    Redeliver   \* a worker may report one command more than once

ASSUME SystemAssumption ==
    /\ First \in [Run -> Step \cup {Nil}]
    /\ MaxQueue \in Nat
    /\ Redeliver \in BOOLEAN

VARIABLES
    outbox,     \* runs whose waker has written the store and has yet to publish
    matched     \* runs an event delivery has matched and has yet to wake

vars == <<runs, log, started, queue, th, cmds, undone, granted, aborts, outbox, matched>>

Init ==
    /\ CoordinatorInit([r \in Run |-> IF First[r] = Nil THEN Absent ELSE NewSagaRun(First[r])])
    /\ outbox = {}
    /\ matched = {}

-----------------------------------------------------------------------------
\* A wakeup_at passes: the wait's deadline, or the end of the wait itself.
Tick(r) ==
    /\ runs[r].wakeup = "later"
    /\ runs' = [runs EXCEPT ![r].wakeup = "due"]
    /\ granted' = [granted EXCEPT ![r] = TRUE]
    /\ UNCHANGED <<log, started, queue, th, cmds, undone, aborts, outbox, matched>>

\* One poll of Timer.Run; a run stays due until an advance clears it, so every
\* later tick publishes it again.
TimerPoll(r) ==
    /\ DueWakeup(runs[r])
    /\ queue[r] < MaxQueue
    /\ queue' = [queue EXCEPT ![r] = @ + 1]
    /\ UNCHANGED <<runs, log, started, th, cmds, undone, granted, aborts, outbox, matched>>

\* SignalHandler.Post: a signal nobody awaits is answered 409 and changes nothing
\* here; an awaited one is consumed before the advance is published.
Signal(r, name) ==
    /\ AwaitsSignal(runs[r], name)
    /\ runs' = [runs EXCEPT ![r] = ConsumeSignal(@)]
    /\ granted' = [granted EXCEPT ![r] = TRUE]
    /\ outbox' = outbox \cup {r}
    /\ UNCHANGED <<log, started, queue, th, cmds, undone, aborts, matched>>

\* EventSubscriber.Deliver, the query: the runs awaiting the topic.
EventArrives(name) ==
    /\ matched = {}
    /\ matched' = {r \in Run : AwaitsEvent(runs[r], name)}
    /\ matched' # {}
    /\ granted' = [r \in Run |-> granted[r] \/ r \in matched']
    /\ UNCHANGED <<runs, log, started, queue, th, cmds, undone, aborts, outbox>>

\* EventSubscriber.Deliver, the loop: each matched run, as it is by then.
EventWake(r) ==
    /\ r \in matched
    /\ matched' = matched \ {r}
    /\ runs' = [runs EXCEPT ![r] = WakeFromExternal(@)]
    /\ outbox' = outbox \cup {r}
    /\ UNCHANGED <<log, started, queue, th, cmds, undone, granted, aborts>>

\* The publish that follows a store write of a handler.
PublishOut(r) ==
    /\ r \in outbox
    /\ outbox' = outbox \ {r}
    /\ queue' = [queue EXCEPT ![r] = @ + 1]
    /\ UNCHANGED <<runs, log, started, th, cmds, undone, granted, aborts, matched>>

\* ActionResultHandler.Post with a result: CompleteAction, then publish.
ReportResult(c) ==
    /\ runs' = [runs EXCEPT ![c.run] = CompleteAction(@, c.attempt)]
    /\ granted' = [granted EXCEPT ![c.run] = @ \/ (runs[c.run].attempt = c.attempt
                                                   /\ runs[c.run].step = c.step)]
    /\ outbox' = outbox \cup {c.run}
    /\ cmds' = IF Redeliver THEN cmds ELSE cmds \ {c}
    /\ UNCHANGED <<log, started, queue, th, undone, aborts, matched>>

\* ActionResultHandler.Post with an error: FailAction and nothing else.
ReportError(c) ==
    /\ "report" \in Faults
    /\ runs' = [runs EXCEPT ![c.run] = FailAction(@, c.attempt)]
    /\ cmds' = IF Redeliver THEN cmds ELSE cmds \ {c}
    /\ UNCHANGED <<log, started, queue, th, undone, granted, aborts, outbox, matched>>

Outside ==
    \/ \E r \in Run : \/ Tick(r) \/ TimerPoll(r) \/ EventWake(r) \/ PublishOut(r)
                      \/ \E n \in Name : Signal(r, n)
    \/ \E n \in Name : EventArrives(n)
    \/ \E c \in cmds : ReportResult(c) \/ ReportError(c)

Next ==
    \/ CoordinatorNext /\ UNCHANGED <<outbox, matched>>
    \/ Outside

Spec == Init /\ [][Next]_vars

(***************************************************************************)
(* Fairness.  Goroutines that can run do; a goroutine is not overtaken at  *)
(* a run's lock for ever (RunLocks: EveryCallerGetsIn); the broker         *)
(* delivers every message; time passes; the timer polls; a handler that    *)
(* has written the store publishes; a worker answers.  Signals, events,    *)
(* cancellations and faults are never obliged to happen.                   *)
(***************************************************************************)
Fairness ==
    /\ \A t \in Thread : WF_vars(Proceed(t) /\ UNCHANGED <<outbox, matched>>)
    /\ \A t \in Worker : SF_vars(AcquireLock(t) /\ UNCHANGED <<outbox, matched>>)
    /\ \A r \in Run :
         /\ SF_vars((\E t \in Worker : Deliver(t, r)) /\ UNCHANGED <<outbox, matched>>)
         /\ WF_vars(Tick(r))
         /\ WF_vars(TimerPoll(r))
         /\ WF_vars(EventWake(r))
         /\ WF_vars(PublishOut(r))
         /\ WF_vars(\E c \in cmds : c.run = r /\ (ReportResult(c) \/ ReportError(c)))

FairSpec == Spec /\ Fairness

-----------------------------------------------------------------------------
ThreadRecord ==
    [pc : PC, run : Run \cup {Nil}, snap : RunRecord, next : Step \cup {Nil},
     timedOut : BOOLEAN, tries : Nat, left : Seq(Step), kids : Seq(Run), err : BOOLEAN]

Command == [run : Run, step : Step, attempt : Nat]

TypeOK ==
    /\ runs    \in [Run -> RunRecord]
    /\ \A r \in Run : Len(runs[r].frames) <= MaxFrames
    /\ log     \in [Run -> Seq(Step)]
    /\ started \in [Run -> [Step -> Nat]]
    /\ queue   \in [Run -> Nat]
    /\ th      \in [Thread -> ThreadRecord]
    /\ cmds    \in SUBSET Command
    /\ undone  \in [Run -> Seq(Step)]
    /\ granted \in [Run -> BOOLEAN]
    /\ aborts  \in 0..MaxAborts
    /\ outbox  \in SUBSET Run
    /\ matched \in SUBSET Run

\* What the wait that run r is paused on asks for has happened: its deadline has
\* passed, its signal or event has come, its worker has reported, its children
\* satisfy the join.
WaitOver(r) ==
    LET s == runs[r].step IN
    IF Def[s].type \in {"fork", "join"}
    THEN JoinConditionMet(runs, Group(runs, r, s), Def[s].quorum)
    ELSE granted[r]

\* A paused run is resumed only when its own wait is over, whatever duplicate,
\* early or stale saga.advance messages are delivered (advance.go:81-87, 104-107).
WaitHonoured ==
    [][\A r \in Run :
          runs[r].state = "paused" /\ runs'[r].state = "running" => WaitOver(r)]_vars

AwaitMatches(m) ==
    /\ m.signal # Nil => /\ m.state = "paused" /\ m.step # Nil
                         /\ Def[m.step].type = "signal" /\ Def[m.step].name = m.signal
    /\ m.topic # Nil  => /\ m.state = "paused" /\ m.step # Nil
                         /\ Def[m.step].type = "event" /\ Def[m.step].name = m.topic

\* A run's await markers are those of the step it is paused on: no marker of an earlier
\* wait is left for a late signal or event to match, also after an advance was cut short
\* or the run was cancelled (advance.go:119-123, memory/store.go:447-461).
AwaitMatchesStep == \A r \in Run : AwaitMatches(runs[r])

\* Where nothing but waits sets a wakeup_at, only a run paused on a wait has one: the
\* timer never finds a deadline that outlived its wait (memory/store.go:465-478).
NoStaleWakeup ==
    \A r \in Run :
        runs[r].wakeup # "none" => /\ runs[r].state = "paused"
                                   /\ Def[runs[r].step].type \in {"wait", "signal", "event"}

\* A run that has ended never changes state again (domain/run.go:45-53): no late
\* message, timer, failure or redelivery starts it again.
TerminalIsFinal ==
    [][\A r \in Run : IsTerminal(runs[r]) => runs'[r].state = runs[r].state]_vars

\* An advance of run r has read the run and not yet returned.
Advancing(r) == \E t \in Worker : th[t].run = r /\ th[t].pc \notin {"wait", "load", "done"}

\* A run that ends while no advance is in the middle of it stays as it ended, also
\* when it was cancelled from outside with messages, timers and wakers still pending
\* (memory/store.go:226-231).
SettledIsFinal ==
    [][\A r \in Run : IsTerminal(runs[r]) /\ ~Advancing(r)
                         => runs'[r].state = runs[r].state]_vars

\* In a definition without loops, every step of a run is dispatched at most once,
\* although several goroutines may hold advances of the run (runlock.go:28-32).
EachStepOnce == \A r \in Run, s \in Step : started[r][s] <= 1

\* Every run ends: no wakeup is lost between a check and a pause, between a child's
\* end and its parent's join, or between an aborted advance and its redelivery.
EveryRunEnds ==
    \A r \in Run : runs[r].state # "absent" ~> IsTerminal(runs[r])

\* u lists the members of l that are in S, the last ones of l first.
NewestFirst(u, l, S) ==
    \E pos \in [DOMAIN u -> DOMAIN l] :
        /\ \A i \in DOMAIN u : u[i] = l[pos[i]]
        /\ \A i, j \in DOMAIN u : i < j => pos[i] > pos[j]
        /\ \A k \in DOMAIN l : l[k] \in S <=> \E i \in DOMAIN u : pos[i] = k

\* The steps a failed run has to undo if it completed them.
Owed(r) == {s \in Step : s # runs[r].step /\ Def[s].comp}

\* A failed run has sent exactly one compensation for each completed step, newest
\* first (compensation.go:125-138); a run that did not fail has sent none.
RollbackMirrorsLog ==
    \A r \in Run :
        CASE runs[r].state = "failed"       -> NewestFirst(undone[r], log[r], Owed(r))
          [] runs[r].state = "compensating" -> TRUE
          [] OTHER                          -> undone[r] = <<>>

\* A run paused on a join whose watched children satisfy its strategy is released
\* (join.go:62-65: checkJoinBarriers "re-evaluates every join step whenever a watched
\* child terminates and wakes the run once the strategy is satisfied").
JoinReleased ==
    \A r \in Run :
        (/\ runs[r].state = "paused"
         /\ Def[runs[r].step].type = "join"
         /\ WaitOver(r))
        ~> runs[r].state # "paused"

-----------------------------------------------------------------------------
(***************************************************************************)
(* The inductive invariants.  BaseInv: only runs that exist are worked on, *)
(* awaited, queued, reported or somebody's parent, and each has a step to  *)
(* start at.  AwaitInv, for workers of one process: the goroutine that has *)
(* a run's lock is the only one in the middle of it, so from the moment it *)
(* has cleared the pause until it pauses the run again the run carries no  *)
(* marker, and the run's step is the one being executed.                   *)
(***************************************************************************)
Known == {r \in Run : runs[r].state # "absent"}

HasRead(t) == th[t].pc \notin {"idle", "wait", "load"}

StartsKnown ==
    /\ \A r \in Known : runs[r].start \in Step
    /\ \A t \in Thread : HasRead(t) => th[t].snap.start \in Step

PendingKnown ==
    /\ \A r \in Run : queue[r] > 0 => r \in Known
    /\ \A c \in cmds : c.run \in Known
    /\ outbox \subseteq Known
    /\ matched \subseteq Known

ParentsKnown ==
    /\ \A r \in Run : runs[r].parent \in Known \cup {Nil}
    /\ \A t \in Thread : th[t].snap.parent \in Known \cup {Nil}

WorkedOnKnown ==
    \A t \in Thread : /\ th[t].pc # "idle" => th[t].run \in Known
                      /\ \A i \in DOMAIN th[t].kids : th[t].kids[i] \in Known

BaseInv == TypeOK /\ StartsKnown /\ PendingKnown /\ ParentsKnown /\ WorkedOnKnown

CallerPC == {"idle", "cancel", "barrier", "wakejoin", "pubjoin", "parent", "wakeparent",
             "pubparent", "done"}

CallersOnlyCancel == \A t \in Caller : th[t].pc \in CallerPC

HasLock(t) == th[t].pc \notin {"idle", "wait"}

OneAdvancePerRun ==
    \A t, u \in Worker : HasLock(t) /\ HasLock(u) /\ th[t].run = th[u].run => t = u

ExecPC == {"exec", "send", "publish"}

WorkPC == ExecPC \cup {"reread", "setnext", "dispatch", "complete", "fail", "rollback", "undo",
                       "markfailed", "pausejoin"}

Unmarked(m) == m.signal = Nil /\ m.topic = Nil

WorkedOnUnmarked == \A t \in Worker : th[t].pc \in WorkPC => Unmarked(runs[th[t].run])

StepHeld == \A t \in Worker : th[t].pc \in ExecPC => runs[th[t].run].step = StepOf(t)

LockInv ==
    /\ CallersOnlyCancel
    /\ OneAdvancePerRun
    /\ WorkedOnUnmarked
    /\ StepHeld
    /\ AwaitMatchesStep

AwaitInv == BaseInv /\ LockInv
=============================================================================
