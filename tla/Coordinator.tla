---------------------------- MODULE Coordinator ----------------------------
(***************************************************************************)
(* engine/advance.go, retry.go, compensation.go, coordinator.go and the    *)
(* verbs: goroutines that take saga.advance messages and walk runs         *)
(* forward, one store call at a time.  Between two store calls of one      *)
(* goroutine anything may happen: another advance, a signal, a timer, a    *)
(* cancellation.                                                           *)
(*                                                                         *)
(* The per-run mutex is the abstract one of RunMutex, which the pointer    *)
(* map of RunLocks implements: it keeps the advances of one run apart      *)
(* within a pod, not between pods.                                         *)
(***************************************************************************)
EXTENDS SagaStore

CONSTANTS
    Worker,     \* goroutines that advance runs
    Caller,     \* goroutines that call Coordinator.Cancel
    PodOf,      \* PodOf[w]: the engine process of worker w
    Requeue,    \* a failed advance is redelivered (RabbitMQ), or dropped (in process)
    Faults,     \* what may fail: a "publish", the "send" of a command or of an
                \* "undo", the work itself, as a worker "report"s
    MaxAborts   \* how many advances may be cut short

Thread == Worker \cup Caller

ASSUME CoordinatorAssumption ==
    /\ DOMAIN PodOf = Worker
    /\ Requeue \in BOOLEAN
    /\ Faults \subseteq {"publish", "send", "undo", "report"}
    /\ MaxAborts \in Nat
    /\ Worker \cap Caller = {}

VARIABLES
    runs,       \* the store's run table
    log,        \* log[r]: steps of r with a step.succeeded event, first ones only
    started,    \* started[r][s]: step.dispatched events of step s
    queue,      \* queue[r]: saga.advance messages for r waiting for delivery
    th,         \* the goroutines
    cmds,       \* action commands handed to a transport
    undone,     \* undone[r]: compensation commands handed to a transport
    granted,    \* granted[r]: what r's current step waits for has happened
    aborts      \* advances cut short so far

cvars == <<runs, log, started, queue, th, cmds, undone, granted, aborts>>

PC == {"idle", "wait", "load", "children", "clear", "reread", "setnext", "dispatch",
       "exec", "send", "pausefork", "publish", "pausejoin", "selfcancel", "complete",
       "fail", "rollback", "undo", "markfailed", "cancel", "barrier", "wakejoin",
       "pubjoin", "parent", "wakeparent", "pubparent", "done"}

Idle == [pc |-> "idle", run |-> Nil, snap |-> Absent, next |-> Nil, timedOut |-> FALSE,
         tries |-> 0, left |-> <<>>, kids |-> <<>>, err |-> FALSE]

\* The step a goroutine works on: the CurrentStep it read, or the run's Start.
StepOf(t) == CurrentStep(th[t].snap)
DefOf(t)  == Def[StepOf(t)]

Go(t, pc)     == th' = [th EXCEPT ![t].pc = pc]
Return(t, e)  == th' = [th EXCEPT ![t].pc = "done", ![t].err = e]
Write(t, rec) == runs' = [runs EXCEPT ![th[t].run] = rec]
Self(t)       == runs[th[t].run]

\* AppendEvent(step.succeeded); completedCompensableSteps reads the first one.
Succeeded(r, s) ==
    log' = IF \E i \in DOMAIN log[r] : log[r][i] = s THEN log
           ELSE [log EXCEPT ![r] = Append(@, s)]

\* One of the possible next steps; with none, Advance returns an error.
Follow(t, nexts) ==
    IF nexts = {} THEN Return(t, TRUE)
    ELSE \E n \in nexts : th' = [th EXCEPT ![t].pc = "setnext", ![t].next = n]

-----------------------------------------------------------------------------
(***************************************************************************)
(* Delivery, the lock and the read at the top of the loop.                 *)
(***************************************************************************)
Deliver(t, r) ==
    /\ th[t].pc = "idle"
    /\ queue[r] > 0
    /\ queue' = [queue EXCEPT ![r] = @ - 1]
    /\ th' = [th EXCEPT ![t] = [Idle EXCEPT !.pc = "wait", !.run = r]]
    /\ UNCHANGED <<runs, log, started, cmds, undone, granted, aborts>>

\* An advance that does not take the run's lock.
UnlockedAcquire(t) ==
    /\ th[t].pc = "wait"
    /\ Go(t, "load")
    /\ UNCHANGED <<runs, log, started, queue, cmds, undone, granted, aborts>>

AcquireLock(t) ==
    /\ th[t].pc = "wait"
    /\ \A u \in Worker : PodOf[u] = PodOf[t] /\ th[u].run = th[t].run => th[u].pc = "wait"
    /\ Go(t, "load")
    /\ UNCHANGED <<runs, log, started, queue, cmds, undone, granted, aborts>>

\* Where Advance goes with the run record it has just read.
AfterLoad(r) ==
    CASE IsTerminal(r)                                -> "done"
      [] r.state = "paused" /\ WakeupDue(r)           -> "clear"
      [] r.state = "paused" /\ ExternalWake(r)        ->
            IF Def[r.step].type = "fork" THEN "children" ELSE "clear"
      [] r.state = "paused" /\ ~WakeupDue(r) /\ ~ExternalWake(r) -> "done"
      [] OTHER                                        -> "dispatch"

\* A load that takes every advance of a paused run for a wakeup.
EagerLoad(t) ==
    /\ th[t].pc = "load"
    /\ LET r == Self(t) IN
       th' = [th EXCEPT ![t] = [@ EXCEPT
                !.pc = IF r.state = "paused" THEN "clear" ELSE AfterLoad(r),
                !.snap = r, !.timedOut = TimedOut(r), !.tries = 0]]
    /\ UNCHANGED <<runs, log, started, queue, cmds, undone, granted, aborts>>

\* A load that does not stop at a terminal run.
DeafLoad(t) ==
    /\ th[t].pc = "load"
    /\ LET r == Self(t) IN
       th' = [th EXCEPT ![t] = [@ EXCEPT
                !.pc = IF IsTerminal(r) THEN "dispatch" ELSE AfterLoad(r),
                !.snap = r, !.timedOut = TimedOut(r), !.tries = 0]]
    /\ UNCHANGED <<runs, log, started, queue, cmds, undone, granted, aborts>>

Load(t) ==
    /\ th[t].pc = "load"
    /\ LET r == Self(t) IN
       th' = [th EXCEPT ![t] = [@ EXCEPT !.pc = AfterLoad(r), !.snap = r,
                                         !.timedOut = TimedOut(r), !.tries = 0]]
    /\ UNCHANGED <<runs, log, started, queue, cmds, undone, granted, aborts>>

-----------------------------------------------------------------------------
(***************************************************************************)
(* Waking from a pause.                                                    *)
(***************************************************************************)
\* A parent that does not look at its children before it wakes.
TrustingChildren(t) ==
    /\ th[t].pc = "children"
    /\ Go(t, "clear")
    /\ UNCHANGED <<runs, log, started, queue, cmds, undone, granted, aborts>>

\* childrenStillRunning
CheckChildren(t) ==
    /\ th[t].pc = "children"
    /\ LET s == StepOf(t) IN
       Go(t, IF JoinConditionMet(runs, Children(runs, th[t].run, s), Def[s].quorum)
             THEN "clear" ELSE "done")
    /\ UNCHANGED <<runs, log, started, queue, cmds, undone, granted, aborts>>

Clear(t) ==
    /\ th[t].pc = "clear"
    /\ Write(t, ClearPause(Self(t)))
    /\ Go(t, "reread")
    /\ UNCHANGED <<log, started, queue, cmds, undone, granted, aborts>>

\* The second GetRun: the step may no longer be the one the pause was on.  A run
\* without a step, or a step without a next, returns an error.
Reread(t) ==
    /\ th[t].pc = "reread"
    /\ LET r     == Self(t)
           nexts == IF th[t].timedOut /\ Def[r.step].timeout # Nil
                    THEN {Def[r.step].timeout} ELSE Def[r.step].next
       IN  IF r.step = Nil
           THEN Return(t, TRUE) /\ UNCHANGED log
           ELSE Succeeded(th[t].run, r.step) /\ Follow(t, nexts)
    /\ UNCHANGED <<runs, started, queue, cmds, undone, granted, aborts>>

\* UpdateRunState(running, next), then round the loop.
SetNext(t) ==
    /\ th[t].pc = "setnext"
    /\ Write(t, UpdateRunState(Self(t), "running", th[t].next))
    /\ th' = [th EXCEPT ![t].pc = "load", ![t].next = Nil]
    /\ granted' = [granted EXCEPT ![th[t].run] = FALSE]
    /\ UNCHANGED <<log, started, queue, cmds, undone, aborts>>

-----------------------------------------------------------------------------
(***************************************************************************)
(* Dispatching a step.                                                     *)
(***************************************************************************)
Dispatch(t) ==
    /\ th[t].pc = "dispatch"
    /\ LET s == StepOf(t) IN
       /\ started' = [started EXCEPT ![th[t].run][s] = @ + 1]
       /\ Write(t, UpdateRunState(Self(t), "running", s))
       /\ th' = [th EXCEPT ![t].pc = IF Def[s].type = "end" THEN "complete" ELSE "exec",
                           ![t].left = Def[s].kids, ![t].kids = <<>>]
    /\ UNCHANGED <<log, queue, cmds, undone, granted, aborts>>

\* The child-join hook follows every terminal write of a run that has a parent.
AfterTerminal(t) == IF th[t].snap.parent = Nil THEN "done" ELSE "barrier"

Complete(t) ==
    /\ th[t].pc = "complete"
    /\ Write(t, UpdateRunState(Self(t), "succeeded", Nil))
    /\ Go(t, AfterTerminal(t))
    /\ UNCHANGED <<log, started, queue, cmds, undone, granted, aborts>>

\* The licence gate: the run fails, no rollback, no look at the parent.
Reject(t) ==
    /\ th[t].pc = "exec"
    /\ DefOf(t).gated /\ th[t].tries = 0
    /\ Write(t, MarkRunFailed(Self(t), StepOf(t)))
    /\ Return(t, TRUE)
    /\ UNCHANGED <<log, started, queue, cmds, undone, granted, aborts>>

\* executeStep: a verb that failed is executed again while attempts are left.
Retry(t) ==
    th' = [th EXCEPT ![t].tries = @ + 1,
                     ![t].pc    = IF th[t].tries + 1 < DefOf(t).tries THEN "exec" ELSE "fail",
                     ![t].left  = DefOf(t).kids,
                     ![t].kids  = <<>>]

VerbFails(t) ==
    /\ th[t].pc = "exec"
    /\ DefOf(t).fails
    /\ Retry(t)
    /\ UNCHANGED <<runs, log, started, queue, cmds, undone, granted, aborts>>

\* The verb returned a result: step.succeeded, then the chosen next step.
Succeed(t) ==
    /\ Succeeded(th[t].run, StepOf(t))
    /\ Follow(t, DefOf(t).next)

ExecSync(t) ==
    /\ th[t].pc = "exec"
    /\ DefOf(t).type = "sync"
    /\ Succeed(t)
    /\ UNCHANGED <<runs, started, queue, cmds, undone, granted, aborts>>

ExecWait(t) ==
    /\ th[t].pc = "exec"
    /\ DefOf(t).type = "wait"
    /\ Write(t, SetPausedWithWakeup(Self(t)))
    /\ Return(t, FALSE)
    /\ UNCHANGED <<log, started, queue, cmds, undone, granted, aborts>>

ExecSignal(t) ==
    /\ th[t].pc = "exec"
    /\ DefOf(t).type = "signal"
    /\ Write(t, SetPausedAwaitingSignal(Self(t), DefOf(t).name, DefOf(t).deadline))
    /\ Return(t, FALSE)
    /\ UNCHANGED <<log, started, queue, cmds, undone, granted, aborts>>

ExecEvent(t) ==
    /\ th[t].pc = "exec"
    /\ DefOf(t).type = "event"
    /\ Write(t, SetPausedAwaitingEvent(Self(t), DefOf(t).name, DefOf(t).deadline))
    /\ Return(t, FALSE)
    /\ UNCHANGED <<log, started, queue, cmds, undone, granted, aborts>>

\* The attempt comes from the run as it was read, before the dispatch write.
ExecAction(t) ==
    /\ th[t].pc = "exec"
    /\ DefOf(t).type = "action"
    /\ Write(t, MarkAwaitingAction(Self(t), StepOf(t), th[t].snap.attempt + 1))
    /\ Go(t, "send")
    /\ UNCHANGED <<log, started, queue, cmds, undone, granted, aborts>>

Send(t) ==
    /\ th[t].pc = "send"
    /\ cmds' = cmds \cup {[run |-> th[t].run, step |-> StepOf(t),
                           attempt |-> th[t].snap.attempt + 1]}
    /\ Return(t, FALSE)
    /\ UNCHANGED <<runs, log, started, queue, undone, granted, aborts>>

\* The transport refuses the command: the verb fails on a run already paused.
SendFails(t) ==
    /\ th[t].pc = "send" /\ "send" \in Faults
    /\ Retry(t)
    /\ UNCHANGED <<runs, log, started, queue, cmds, undone, granted, aborts>>

-----------------------------------------------------------------------------
(***************************************************************************)
(* Children: parallel, foreach, sub_saga ("fork"), spawn_saga and join.    *)
(***************************************************************************)
FreshRun == CHOOSE c \in Run : runs[c].state = "absent"

SpawnChild(t) ==
    /\ th[t].pc = "exec"
    /\ DefOf(t).type \in {"fork", "spawn"}
    /\ th[t].left # <<>>
    /\ \E c \in Run : runs[c].state = "absent"
    /\ runs' = [runs EXCEPT ![FreshRun] =
                   SpawnChildRun(Head(th[t].left), th[t].run, StepOf(t))]
    /\ th' = [th EXCEPT ![t].left = Tail(@), ![t].kids = Append(@, FreshRun)]
    /\ UNCHANGED <<log, started, queue, cmds, undone, granted, aborts>>

\* A fork that publishes its children before it pauses.
HastyFork(t) ==
    /\ th[t].pc = "exec"
    /\ DefOf(t).type = "fork"
    /\ th[t].left = <<>>
    /\ IF th[t].kids # <<>>
       THEN /\ queue' = [queue EXCEPT ![Head(th[t].kids)] = @ + 1]
            /\ th' = [th EXCEPT ![t].kids = Tail(@)]
            /\ UNCHANGED runs
       ELSE /\ Write(t, UpdateRunState(Self(t), "paused", StepOf(t)))
            /\ Go(t, "publish")
            /\ UNCHANGED queue
    /\ UNCHANGED <<log, started, cmds, undone, granted, aborts>>

\* The parent is paused before any child is published.
PauseFork(t) ==
    /\ th[t].pc = "exec"
    /\ DefOf(t).type = "fork"
    /\ th[t].left = <<>>
    /\ Write(t, UpdateRunState(Self(t), "paused", StepOf(t)))
    /\ Go(t, "publish")
    /\ UNCHANGED <<log, started, queue, cmds, undone, granted, aborts>>

PublishChild(t) ==
    /\ th[t].pc = "publish"
    /\ th[t].kids # <<>>
    /\ queue' = [queue EXCEPT ![Head(th[t].kids)] = @ + 1]
    /\ th' = [th EXCEPT ![t].kids = Tail(@)]
    /\ UNCHANGED <<runs, log, started, cmds, undone, granted, aborts>>

PublishFails(t) ==
    /\ th[t].pc = "publish" /\ "publish" \in Faults
    /\ th[t].kids # <<>>
    /\ Retry(t)
    /\ UNCHANGED <<runs, log, started, queue, cmds, undone, granted, aborts>>

ForkPaused(t) ==
    /\ th[t].pc = "publish"
    /\ th[t].kids = <<>>
    /\ Return(t, FALSE)
    /\ UNCHANGED <<runs, log, started, queue, cmds, undone, granted, aborts>>

\* spawn_saga publishes the child, or loses the message without an error, and
\* goes on.
PublishSpawned(t) ==
    /\ th[t].pc = "exec"
    /\ DefOf(t).type = "spawn"
    /\ th[t].left = <<>> /\ th[t].kids # <<>>
    /\ \/ queue' = [queue EXCEPT ![Head(th[t].kids)] = @ + 1]
       \/ "publish" \in Faults /\ UNCHANGED queue
    /\ Succeed(t)
    /\ UNCHANGED <<runs, started, cmds, undone, granted, aborts>>

\* The barrier: no child, or a quorum no child count can reach, is an error; one
\* that is met goes on; otherwise the run is paused by a later write.
ExecJoin(t) ==
    /\ th[t].pc = "exec"
    /\ DefOf(t).type = "join"
    /\ LET W == Watched(runs, th[t].run, DefOf(t).streams)
           q == DefOf(t).quorum
       IN  \/ (W = {} \/ q > Cardinality(W)) /\ Retry(t) /\ UNCHANGED log
           \/ q <= Cardinality(W) /\ JoinConditionMet(runs, W, q) /\ Succeed(t)
           \/ /\ W # {} /\ q <= Cardinality(W) /\ ~JoinConditionMet(runs, W, q)
              /\ Go(t, "pausejoin") /\ UNCHANGED log
    /\ UNCHANGED <<runs, started, queue, cmds, undone, granted, aborts>>

PauseJoin(t) ==
    /\ th[t].pc = "pausejoin"
    /\ Write(t, UpdateRunState(Self(t), "paused", StepOf(t)))
    /\ Return(t, FALSE)
    /\ UNCHANGED <<log, started, queue, cmds, undone, granted, aborts>>

-----------------------------------------------------------------------------
(***************************************************************************)
(* try_catch, failure, rollback and cancellation.                          *)
(***************************************************************************)
ExecTry(t) ==
    /\ th[t].pc = "exec"
    /\ DefOf(t).type = "try"
    /\ \/ /\ CanPushTryCatch(Self(t))
          /\ Write(t, PushTryCatch(Self(t), DefOf(t).catch))
          /\ Succeed(t)
       \/ ~CanPushTryCatch(Self(t)) /\ Retry(t) /\ UNCHANGED <<runs, log>>
    /\ UNCHANGED <<started, queue, cmds, undone, granted, aborts>>

\* The logged steps that a rollback looks at: not the failed one, not an end step.
Completed(s, failed) == s # failed /\ Def[s].type # "end"

\* The innermost frame takes the failure: its catch step is next.
Catch(t) ==
    /\ th[t].pc = "fail"
    /\ Self(t).frames # <<>>
    /\ Write(t, PopTryCatch(Self(t)))
    /\ th' = [th EXCEPT ![t].pc = "setnext", ![t].next = TopFrame(Self(t))]
    /\ UNCHANGED <<log, started, queue, cmds, undone, granted, aborts>>

Uncaught(t) ==
    /\ th[t].pc = "fail"
    /\ Self(t).frames = <<>>
    /\ LET done == log[th[t].run] IN
       th' = [th EXCEPT ![t].pc = IF \E i \in DOMAIN done : Completed(done[i], StepOf(t))
                                  THEN "rollback" ELSE "markfailed",
                        ![t].left = done]
    /\ UNCHANGED <<runs, log, started, queue, cmds, undone, granted, aborts>>

\* compensate writes back the CurrentStep it was given with the run.
StartRollback(t) ==
    /\ th[t].pc = "rollback"
    /\ Write(t, UpdateRunState(Self(t), "compensating", th[t].snap.step))
    /\ Go(t, "undo")
    /\ UNCHANGED <<log, started, queue, cmds, undone, granted, aborts>>

\* A rollback in completion order.
ForwardUndo(t) ==
    /\ th[t].pc = "undo"
    /\ th[t].left # <<>>
    /\ LET s == Head(th[t].left) IN
       IF Completed(s, StepOf(t)) /\ Def[s].comp
       THEN undone' = [undone EXCEPT ![th[t].run] = Append(@, s)]
       ELSE UNCHANGED undone
    /\ th' = [th EXCEPT ![t].left = Tail(@)]
    /\ UNCHANGED <<runs, log, started, queue, cmds, granted, aborts>>

\* Newest first; a step without a compensation, or whose command cannot be sent,
\* is skipped.
Undo(t) ==
    /\ th[t].pc = "undo"
    /\ th[t].left # <<>>
    /\ LET n == Len(th[t].left)
           s == th[t].left[n]
           owed == Completed(s, StepOf(t)) /\ Def[s].comp
       IN  /\ \/ owed /\ undone' = [undone EXCEPT ![th[t].run] = Append(@, s)]
              \/ (~owed \/ "undo" \in Faults) /\ UNCHANGED undone
           /\ th' = [th EXCEPT ![t].left = SubSeq(@, 1, n - 1)]
    /\ UNCHANGED <<runs, log, started, queue, cmds, granted, aborts>>

RolledBack(t) ==
    /\ th[t].pc = "undo"
    /\ th[t].left = <<>>
    /\ Go(t, "markfailed")
    /\ UNCHANGED <<runs, log, started, queue, cmds, undone, granted, aborts>>

\* MarkRunFailed; Advance then returns the verb's error.
MarkFailed(t) ==
    /\ th[t].pc = "markfailed"
    /\ Write(t, MarkRunFailed(Self(t), StepOf(t)))
    /\ th' = [th EXCEPT ![t].pc = AfterTerminal(t), ![t].err = TRUE]
    /\ UNCHANGED <<log, started, queue, cmds, undone, granted, aborts>>

\* The cancel verb on its own run.
ExecCancel(t) ==
    /\ th[t].pc = "exec"
    /\ DefOf(t).type = "cancel"
    /\ Write(t, UpdateRunState(Self(t), "cancelled", StepOf(t)))
    /\ Go(t, AfterTerminal(t))
    /\ UNCHANGED <<log, started, queue, cmds, undone, granted, aborts>>

\* Coordinator.Cancel, from outside and without the run's lock.
CancelRead(t, r) ==
    /\ th[t].pc = "idle"
    /\ runs[r].state # "absent" /\ ~IsTerminal(runs[r])
    /\ th' = [th EXCEPT ![t] = [Idle EXCEPT !.pc = "cancel", !.run = r, !.snap = runs[r]]]
    /\ UNCHANGED <<runs, log, started, queue, cmds, undone, granted, aborts>>

CancelWrite(t) ==
    /\ th[t].pc = "cancel"
    /\ Write(t, Cancel(Self(t)))
    /\ Go(t, AfterTerminal(t))
    /\ UNCHANGED <<log, started, queue, cmds, undone, granted, aborts>>

-----------------------------------------------------------------------------
(***************************************************************************)
(* checkJoinBarriers and checkParentJoin: the child's terminal write is    *)
(* done; does it release the parent?                                       *)
(***************************************************************************)
Parent(t) == th[t].snap.parent

BarrierMet(t) ==
    LET p == runs[Parent(t)] IN
    /\ p.state = "paused" /\ p.step # Nil
    /\ Def[p.step].type = "join"
    /\ th[t].snap.pstep \in Def[p.step].streams
    /\ JoinConditionMet(runs, Group(runs, Parent(t), p.step), Def[p.step].quorum)

Barrier(t) ==
    /\ th[t].pc = "barrier"
    /\ Go(t, IF BarrierMet(t) THEN "wakejoin" ELSE "parent")
    /\ UNCHANGED <<runs, log, started, queue, cmds, undone, granted, aborts>>

\* A child that wakes its parent whatever step the parent is paused on.
UnguardedJoin(t) ==
    /\ th[t].pc = "parent"
    /\ Go(t, IF runs[Parent(t)].state = "paused" THEN "wakeparent" ELSE "done")
    /\ UNCHANGED <<runs, log, started, queue, cmds, undone, granted, aborts>>

ParentMet(t) ==
    LET p == runs[Parent(t)]
        s == th[t].snap.pstep
    IN  /\ p.state = "paused" /\ p.step = s
        /\ JoinConditionMet(runs, Children(runs, Parent(t), s), Def[s].quorum)

ParentJoin(t) ==
    /\ th[t].pc = "parent"
    /\ Go(t, IF ParentMet(t) THEN "wakeparent" ELSE "done")
    /\ UNCHANGED <<runs, log, started, queue, cmds, undone, granted, aborts>>

\* WakeFromExternal on the parent, as it is now.
WakeParent(t) ==
    /\ th[t].pc \in {"wakejoin", "wakeparent"}
    /\ runs' = [runs EXCEPT ![Parent(t)] = WakeFromExternal(@)]
    /\ Go(t, IF th[t].pc = "wakejoin" THEN "pubjoin" ELSE "pubparent")
    /\ UNCHANGED <<log, started, queue, cmds, undone, granted, aborts>>

\* A lost publish is only logged.
PublishParent(t) ==
    /\ th[t].pc \in {"pubjoin", "pubparent"}
    /\ \/ queue' = [queue EXCEPT ![Parent(t)] = @ + 1]
       \/ "publish" \in Faults /\ UNCHANGED queue
    /\ Go(t, IF th[t].pc = "pubjoin" THEN "parent" ELSE "done")
    /\ UNCHANGED <<runs, log, started, cmds, undone, granted, aborts>>

-----------------------------------------------------------------------------
\* Unlock, then ack; an advance that returned an error is requeued.
Done(t) ==
    /\ th[t].pc = "done"
    /\ queue' = IF Requeue /\ th[t].err THEN [queue EXCEPT ![th[t].run] = @ + 1] ELSE queue
    /\ th' = [th EXCEPT ![t] = Idle]
    /\ UNCHANGED <<runs, log, started, cmds, undone, granted, aborts>>

\* The goroutine ends here: its process died, its context was cancelled, or a store
\* call whose error Advance returns failed.  RabbitMQ redelivers the message.
Abort(t) ==
    /\ aborts < MaxAborts
    /\ th[t].pc # "idle"
    /\ aborts' = aborts + 1
    /\ queue' = IF Requeue /\ t \in Worker THEN [queue EXCEPT ![th[t].run] = @ + 1] ELSE queue
    /\ th' = [th EXCEPT ![t] = Idle]
    /\ UNCHANGED <<runs, log, started, cmds, undone, granted>>

\* The steps a goroutine takes on its own once it has the lock.
Proceed(t) ==
    \/ Load(t) \/ CheckChildren(t) \/ Clear(t) \/ Reread(t) \/ SetNext(t)
    \/ Dispatch(t) \/ Complete(t) \/ Reject(t) \/ VerbFails(t)
    \/ ExecSync(t) \/ ExecWait(t) \/ ExecSignal(t) \/ ExecEvent(t)
    \/ ExecAction(t) \/ Send(t) \/ SendFails(t)
    \/ SpawnChild(t) \/ PauseFork(t) \/ PublishChild(t) \/ PublishFails(t) \/ ForkPaused(t)
    \/ PublishSpawned(t) \/ ExecJoin(t) \/ PauseJoin(t)
    \/ ExecTry(t) \/ Catch(t) \/ Uncaught(t)
    \/ StartRollback(t) \/ Undo(t) \/ RolledBack(t) \/ MarkFailed(t) \/ ExecCancel(t)
    \/ CancelWrite(t)
    \/ Barrier(t) \/ ParentJoin(t) \/ WakeParent(t) \/ PublishParent(t) \/ Done(t)

CoordinatorInit(first) ==
    /\ runs    = first
    /\ log     = [r \in Run |-> <<>>]
    /\ started = [r \in Run |-> [s \in Step |-> 0]]
    /\ queue   = [r \in Run |-> IF first[r].state = "pending" THEN 1 ELSE 0]
    /\ th      = [t \in Thread |-> Idle]
    /\ cmds    = {}
    /\ undone  = [r \in Run |-> <<>>]
    /\ granted = [r \in Run |-> FALSE]
    /\ aborts  = 0

CoordinatorNext ==
    \/ \E t \in Worker : (\E r \in Run : Deliver(t, r)) \/ AcquireLock(t)
    \/ \E t \in Caller, r \in Run : CancelRead(t, r)
    \/ \E t \in Thread : Proceed(t) \/ Abort(t)
=============================================================================
