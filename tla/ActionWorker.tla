---------------------------- MODULE ActionWorker ----------------------------
(***************************************************************************)
(* An action from its dispatch to its report: the advance that marks the   *)
(* run and publishes the command, the worker SDK that consumes commands    *)
(* (clients/go/worker/runtime.go, idempotency.go), the liveness server and *)
(* its StoreReporter (liveness/server.go, reporter.go), and the rollback a *)
(* reported failure starts (engine/compensation.go).  RabbitMQ delivers a  *)
(* command again when its consumer dies or loses its channel, so two       *)
(* workers can be busy with one command.                                   *)
(*                                                                         *)
(* One run of a workflow of actions, in one engine process.  The store     *)
(* operations are those of SagaStore.  Advance is Coordinator's, cut down  *)
(* to what actions take; here its steps interleave with the reports.       *)
(***************************************************************************)
EXTENDS SagaStore

CONSTANTS
    Worker,     \* worker processes, each with prefetch 1
    First,      \* the first step of the run
    Faults,     \* which of the faults below may happen, each once
    MaxFaults,  \* and how many of them in all
    MaxMsgs     \* saga.advance messages in flight

Fault == {"stream", "channel", "crash", "abort", "send", "publish"}

ASSUME WorkerAssumption ==
    /\ Nil \notin Worker \cup {"advance"} /\ "advance" \notin Worker
    /\ First \in Step /\ Faults \subseteq Fault
    /\ MaxFaults \in Nat /\ MaxMsgs \in Nat \ {0}
    /\ \A s \in Step : /\ Def[s].type \in {"action", "end"}
                       /\ Def[s].type = "action" => Cardinality(Def[s].next) = 1

VARIABLES
    run,        \* the run
    log,        \* its step.succeeded events
    msgs,       \* saga.advance messages in flight
    adv,        \* the advance in progress: [pc, step, attempt]
    lock,       \* who holds the run's lock: Nil, "advance" or a worker's report
    queue,      \* commands in the action queue
    sent,       \* how many commands were published
    wk,         \* wk[w]: the worker's delivery
    cache,      \* the workers' idempotency store: commands answered with success
    srv,        \* srv[w]: the engine's handling of w's stream
    undone,     \* history: steps whose compensation was dispatched
    blamed,     \* history: steps a failure was recorded for
    faults      \* history: the faults that have happened

vars == <<run, log, msgs, adv, lock, queue, sent, wk, cache, srv, undone, blamed, faults>>

advVars == <<log, adv>>
wkVars == <<queue, wk, cache>>
srvVars == <<srv, undone, blamed>>

\* The body of a command; attempt 0 is a compensation.  n tells deliveries apart.
Command == [step : Step, attempt : Nat, n : Nat]

NoAdvance == [pc |-> "idle", step |-> Nil, attempt |-> 0]
NoDelivery == [pc |-> "idle", cmd |-> Nil, held |-> FALSE, ok |-> FALSE]
NoReport == [pc |-> "idle", cmd |-> Nil, ok |-> FALSE, was |-> FALSE, at |-> Nil]

\* Bootstrap consumes with prefetch 1 and without automatic acknowledgement: a worker
\* holds one delivery at a time.
Init ==
    /\ run = NewSagaRun(First)
    /\ log = <<>>
    /\ msgs = 1
    /\ adv = NoAdvance
    /\ lock = Nil
    /\ queue = {}
    /\ sent = 0
    /\ wk = [w \in Worker |-> NoDelivery]
    /\ cache = {}
    /\ srv = [w \in Worker |-> NoReport]
    /\ undone = {}
    /\ blamed = {}
    /\ faults = {}

Happens(f) ==
    f \in Faults \ faults /\ Cardinality(faults) < MaxFaults /\ faults' = faults \cup {f}

-----------------------------------------------------------------------------
(***************************************************************************)
(* The engine's advances.                                                  *)
(***************************************************************************)
ReleaseLock == lock' = Nil /\ adv' = NoAdvance

\* A saga.advance is taken from its queue once the run's lock is free.
TakeAdvance ==
    /\ adv.pc = "idle" /\ msgs > 0 /\ lock = Nil
    /\ msgs' = msgs - 1
    /\ lock' = "advance"
    /\ adv' = [adv EXCEPT !.pc = "load"]
    /\ UNCHANGED <<run, log, sent, wkVars, srvVars, faults>>

\* An iteration reads the run: one that is terminal, or paused with nothing due,
\* is left alone; one paused without any marker counts as woken.
LoadRun ==
    /\ adv.pc = "load"
    /\ IF IsTerminal(run) \/ (run.state = "paused" /\ ~WakeupDue(run) /\ ~ExternalWake(run))
         THEN ReleaseLock
         ELSE /\ adv' = [pc |-> IF run.state = "paused" THEN "clear" ELSE "dispatch",
                         step |-> CurrentStep(run), attempt |-> run.attempt]
              /\ UNCHANGED lock
    /\ UNCHANGED <<run, log, msgs, sent, wkVars, srvVars, faults>>

Clear ==
    /\ adv.pc = "clear"
    /\ run' = ClearPause(run)
    /\ adv' = [adv EXCEPT !.pc = "next"]
    /\ UNCHANGED <<log, msgs, lock, sent, wkVars, srvVars, faults>>

\* A step.succeeded that names the action the run awaits.
LogAwaited ==
    /\ adv.pc = "next"
    /\ log' = Append(log, run.action)
    /\ run' = UpdateRunState(run, "running", CHOOSE s \in Def[adv.step].next : TRUE)
    /\ adv' = [adv EXCEPT !.pc = "load"]
    /\ UNCHANGED <<msgs, lock, sent, wkVars, srvVars, faults>>

\* step.succeeded for the step that had paused, and on to the next one.
SetNext ==
    /\ adv.pc = "next"
    /\ log' = Append(log, adv.step)
    /\ run' = UpdateRunState(run, "running", CHOOSE s \in Def[adv.step].next : TRUE)
    /\ adv' = [adv EXCEPT !.pc = "load"]
    /\ UNCHANGED <<msgs, lock, sent, wkVars, srvVars, faults>>

Dispatch ==
    /\ adv.pc = "dispatch"
    /\ IF Def[adv.step].type = "end"
         THEN /\ run' = UpdateRunState(run, "succeeded", adv.step)
              /\ ReleaseLock
         ELSE /\ run' = UpdateRunState(run, "running", adv.step)
              /\ adv' = [adv EXCEPT !.pc = "mark"]
              /\ UNCHANGED lock
    /\ UNCHANGED <<log, msgs, sent, wkVars, srvVars, faults>>

\* ActionVerb.Execute: the attempt it bumps is the one of the run that was loaded.
Mark ==
    /\ adv.pc = "mark"
    /\ run' = MarkAwaitingAction(run, adv.step, adv.attempt + 1)
    /\ adv' = [adv EXCEPT !.pc = "send"]
    /\ UNCHANGED <<log, msgs, lock, sent, wkVars, srvVars, faults>>

PublishCommand ==
    /\ adv.pc = "send"
    /\ queue' = queue \cup {[step |-> adv.step, attempt |-> adv.attempt + 1, n |-> sent]}
    /\ sent' = sent + 1
    /\ ReleaseLock
    /\ UNCHANGED <<run, log, msgs, wk, cache, srvVars, faults>>

TimerPoll ==
    /\ DueWakeup(run) /\ msgs < MaxMsgs
    /\ msgs' = msgs + 1
    /\ UNCHANGED <<run, advVars, lock, sent, wkVars, srvVars, faults>>

Advance == TakeAdvance \/ LoadRun \/ Clear \/ SetNext \/ Dispatch \/ Mark \/ PublishCommand

-----------------------------------------------------------------------------
(***************************************************************************)
(* The worker.                                                             *)
(***************************************************************************)
\* An attempt counter taken to start at 0.
FromZero(c) == c.attempt <= 1

IsCompensation(c) == c.attempt = 0

IdempotencyKey(c) == [step |-> c.step, attempt |-> c.attempt]

Receive(w) ==
    /\ wk[w].pc = "idle"
    /\ \E c \in queue :
        /\ queue' = queue \ {c}
        /\ wk' = [wk EXCEPT ![w] = [NoDelivery EXCEPT
                     !.pc = IF IsCompensation(c) THEN "undo" ELSE "start", !.cmd = c, !.held = TRUE]]
    /\ UNCHANGED <<run, advVars, msgs, lock, sent, cache, srvVars, faults>>

\* The queue when w gives its delivery back, if it still holds it.
Returned(w) == IF wk[w].held THEN queue \cup {wk[w].cmd} ELSE queue

CheckStep(r, c) ==
    r.state = "paused" /\ r.action # Nil /\ r.step = c.step /\ r.attempt = c.attempt

\* driveStream up to the engine's answer: acknowledged, refused (the delivery is
\* dropped), or the stream fails (the delivery is requeued).  Bound: a worker opens
\* a stream once the engine is done with its last one.
StartJob(w) ==
    /\ wk[w].pc = "start" /\ srv[w].pc = "idle"
    /\ \/ /\ CheckStep(run, wk[w].cmd)
          /\ wk' = [wk EXCEPT ![w].pc = "lookup"]
          /\ UNCHANGED <<queue, faults>>
       \/ /\ ~CheckStep(run, wk[w].cmd)
          /\ wk' = [wk EXCEPT ![w] = NoDelivery]
          /\ UNCHANGED <<queue, faults>>
       \/ /\ Happens("stream")
          /\ queue' = Returned(w)
          /\ wk' = [wk EXCEPT ![w] = NoDelivery]
    /\ UNCHANGED <<run, advVars, msgs, lock, sent, cache, srvVars>>

\* Wrap: a cached result is the answer, without running the handler again.
Lookup(w) ==
    /\ wk[w].pc = "lookup"
    /\ wk' = [wk EXCEPT ![w].pc = IF IdempotencyKey(wk[w].cmd) \in cache THEN "report" ELSE "run",
                        ![w].ok = IdempotencyKey(wk[w].cmd) \in cache]
    /\ UNCHANGED <<run, advVars, msgs, lock, queue, sent, cache, srvVars, faults>>

\* The handler succeeds and its result is cached, or it fails.
RunHandler(w) ==
    /\ wk[w].pc = "run"
    /\ \E ok \in BOOLEAN :
        /\ wk' = [wk EXCEPT ![w].pc = "report", ![w].ok = ok]
        /\ cache' = IF ok THEN cache \cup {IdempotencyKey(wk[w].cmd)} ELSE cache
    /\ UNCHANGED <<run, advVars, msgs, lock, queue, sent, srvVars, faults>>

\* Complete or Error goes out.  A Send that fails is logged; the worker does not
\* wait for the engine.
Send(w) ==
    /\ wk[w].pc = "report"
    /\ \/ /\ srv' = [srv EXCEPT ![w] = [NoReport EXCEPT !.pc = "check", !.cmd = wk[w].cmd,
                                                       !.ok = wk[w].ok]]
          /\ UNCHANGED faults
       \/ Happens("send") /\ UNCHANGED srv
    /\ wk' = [wk EXCEPT ![w].pc = "ack"]
    /\ UNCHANGED <<run, advVars, msgs, lock, queue, sent, cache, undone, blamed>>

Ack(w) ==
    /\ wk[w].pc = "ack"
    /\ wk' = [wk EXCEPT ![w] = NoDelivery]
    /\ UNCHANGED <<run, advVars, msgs, lock, queue, sent, cache, srvVars, faults>>

\* runCompensation: done, or dead-lettered; no report, no retry.
RunCompensation(w) ==
    /\ wk[w].pc = "undo"
    /\ wk' = [wk EXCEPT ![w] = NoDelivery]
    /\ UNCHANGED <<run, advVars, msgs, lock, queue, sent, cache, srvVars, faults>>

\* The AMQP channel is gone: the broker requeues what the worker is still busy with.
LoseChannel(w) ==
    /\ wk[w].held
    /\ Happens("channel")
    /\ queue' = Returned(w)
    /\ wk' = [wk EXCEPT ![w].held = FALSE]
    /\ UNCHANGED <<run, advVars, msgs, lock, sent, cache, srvVars>>

\* The worker dies.  The end of its stream may cancel the context of the report the
\* engine is working on, which is then given up between two of its store calls.
CrashWorker(w) ==
    /\ \/ /\ wk[w].pc # "idle"
          /\ Happens("crash")
          /\ UNCHANGED <<srv, lock>>
       \/ /\ srv[w].pc # "idle"
          /\ Happens("abort")
          /\ srv' = [srv EXCEPT ![w] = NoReport]
          /\ lock' = IF lock = w THEN Nil ELSE lock
    /\ queue' = Returned(w)
    /\ wk' = [wk EXCEPT ![w] = NoDelivery]
    /\ UNCHANGED <<run, advVars, msgs, sent, cache, undone, blamed>>

Work(w) ==
    Receive(w) \/ StartJob(w) \/ Lookup(w) \/ RunHandler(w) \/ Send(w) \/ Ack(w) \/ RunCompensation(w)

-----------------------------------------------------------------------------
(***************************************************************************)
(* The engine's side of a stream: CompleteStep or FailStep.                *)
(***************************************************************************)
\* Both check again, then write; the check and the write are two store calls.
Check(w) ==
    /\ srv[w].pc = "check"
    /\ srv' = [srv EXCEPT ![w] = IF CheckStep(run, @.cmd) THEN [@ EXCEPT !.pc = "write"]
                                 ELSE NoReport]
    /\ UNCHANGED <<run, advVars, msgs, lock, sent, wkVars, undone, blamed, faults>>

\* A completion that sets no wakeup.
WriteNoWakeup(w) ==
    /\ srv[w].pc = "write"
    /\ srv' = [srv EXCEPT ![w].pc = IF srv[w].ok THEN "publish" ELSE "rollback"]
    /\ run' = IF srv[w].ok THEN [run EXCEPT !.action = Nil] ELSE FailAction(run, srv[w].cmd.attempt)
    /\ blamed' = IF srv[w].ok THEN blamed ELSE blamed \cup {srv[w].cmd.step}
    /\ UNCHANGED <<advVars, msgs, lock, sent, wkVars, undone, faults>>

Write(w) ==
    /\ srv[w].pc = "write"
    /\ IF srv[w].ok
         THEN /\ run' = CompleteAction(run, srv[w].cmd.attempt)
              /\ srv' = [srv EXCEPT ![w].pc = "publish"]
              /\ UNCHANGED blamed
         ELSE /\ run' = FailAction(run, srv[w].cmd.attempt)
              /\ srv' = [srv EXCEPT ![w].pc = "rollback"]
              /\ blamed' = blamed \cup {srv[w].cmd.step}
    /\ UNCHANGED <<advVars, msgs, lock, sent, wkVars, undone, faults>>

\* A failed publish is left to the timer.
PublishAdvance(w) ==
    /\ srv[w].pc = "publish"
    /\ \/ msgs < MaxMsgs /\ msgs' = msgs + 1 /\ UNCHANGED faults
       \/ Happens("publish") /\ UNCHANGED msgs
    /\ srv' = [srv EXCEPT ![w] = NoReport]
    /\ UNCHANGED <<run, advVars, lock, sent, wkVars, undone, blamed>>

\* completedCompensableSteps; the failed step is left out.
Completed(failed) == {log[i] : i \in DOMAIN log} \ {failed}

\* A rollback that refuses every terminal run, the failed one too.
RefuseTerminal(w) ==
    LET failed == srv[w].cmd.step IN
    /\ srv[w].pc = "rollback" /\ lock = Nil
    /\ IF IsTerminal(run)
         THEN /\ srv' = [srv EXCEPT ![w] = NoReport]
              /\ UNCHANGED <<run, lock>>
         ELSE /\ lock' = w
              /\ run' = IF Completed(failed) = {} THEN run
                        ELSE UpdateRunState(run, "compensating", run.step)
              /\ srv' = [srv EXCEPT ![w].pc = IF Completed(failed) = {} THEN "settle" ELSE "undo",
                                    ![w].was = (run.state = "failed"), ![w].at = run.step]
    /\ UNCHANGED <<advVars, msgs, sent, wkVars, undone, blamed, faults>>

\* CompensateFailedStep under the run's lock, up to the compensating state.
Rollback(w) ==
    LET failed == srv[w].cmd.step IN
    /\ srv[w].pc = "rollback" /\ lock = Nil
    /\ IF run.state \in {"succeeded", "cancelled"}
         THEN /\ srv' = [srv EXCEPT ![w] = NoReport]
              /\ UNCHANGED <<run, lock>>
         ELSE /\ lock' = w
              /\ run' = IF Completed(failed) = {} THEN run
                        ELSE UpdateRunState(run, "compensating", run.step)
              /\ srv' = [srv EXCEPT ![w].pc = IF Completed(failed) = {} THEN "settle" ELSE "undo",
                                    ![w].was = (run.state = "failed"), ![w].at = run.step]
    /\ UNCHANGED <<advVars, msgs, sent, wkVars, undone, blamed, faults>>

\* The Compensation action of every completed step, over the action's transport.
DispatchCompensations(w) ==
    LET steps == {s \in Completed(srv[w].cmd.step) : Def[s].comp} IN
    /\ srv[w].pc = "undo"
    /\ queue' = queue \cup {[step |-> s, attempt |-> 0, n |-> sent] : s \in steps}
    /\ sent' = sent + 1
    /\ undone' = undone \cup steps
    /\ srv' = [srv EXCEPT ![w].pc = "settle"]
    /\ UNCHANGED <<run, advVars, msgs, lock, wk, cache, blamed, faults>>

\* The run is left failed: reread and settled if it had failed before the rollback,
\* marked failed otherwise.
Settle(w) ==
    /\ srv[w].pc = "settle"
    /\ run' = IF ~srv[w].was THEN MarkRunFailed(run, srv[w].cmd.step)
              ELSE IF run.state = "compensating" THEN UpdateRunState(run, "failed", srv[w].at)
              ELSE run
    /\ lock' = Nil
    /\ srv' = [srv EXCEPT ![w] = NoReport]
    /\ UNCHANGED <<advVars, msgs, sent, wkVars, undone, blamed, faults>>

Serve(w) ==
    \/ Check(w) \/ Write(w) \/ PublishAdvance(w)
    \/ Rollback(w) \/ DispatchCompensations(w) \/ Settle(w)

Next ==
    \/ Advance \/ TimerPoll
    \/ \E w \in Worker : Work(w) \/ Serve(w) \/ LoseChannel(w) \/ CrashWorker(w)

Spec == Init /\ [][Next]_vars

\* The engine's consumer, its timer, its stream handlers and every worker keep going.
FairSpec ==
    /\ Spec
    /\ WF_vars(Advance) /\ WF_vars(TimerPoll)
    /\ \A w \in Worker : WF_vars(Work(w)) /\ WF_vars(Serve(w))

-----------------------------------------------------------------------------
DeliveryType ==
    [pc : {"idle", "start", "lookup", "run", "report", "ack", "undo"},
     cmd : Command \cup {Nil}, held : BOOLEAN, ok : BOOLEAN]

ReportType ==
    [pc : {"idle", "check", "write", "publish", "rollback", "undo", "settle"},
     cmd : Command \cup {Nil}, ok : BOOLEAN, was : BOOLEAN, at : Step \cup {Nil}]

\* Every variable keeps its type.
TypeOK ==
    /\ run \in RunRecord
    /\ log \in Seq(Step)
    /\ msgs \in 0..MaxMsgs
    /\ adv \in [pc : {"idle", "load", "clear", "next", "dispatch", "mark", "send"},
                step : Step \cup {Nil}, attempt : Nat]
    /\ lock \in Worker \cup {"advance", Nil}
    /\ queue \subseteq Command /\ sent \in Nat
    /\ wk \in [Worker -> DeliveryType] /\ srv \in [Worker -> ReportType]
    /\ cache \subseteq [step : Step, attempt : Nat]
    /\ undone \subseteq Step /\ blamed \subseteq Step
    /\ faults \subseteq Faults

\* A report was lost on its way to the engine, or given up by it.
ReportLost == faults \cap {"send", "abort"} # {}

\* c asks for what the run is waiting for.
Awaited(c) == c.step = run.step /\ c.attempt = run.attempt

(***************************************************************************)
(* Nobody waits for nothing: a run paused on an action has its command in  *)
(* the queue, with a worker that has yet to report, or in a report the     *)
(* engine has yet to write, or else it has a wakeup the timer will find;   *)
(* whatever was requeued, refused, answered twice or overtaken.  Only a    *)
(* lost report breaks this: the worker acks without an answer.             *)
(***************************************************************************)
AnswerPending ==
    run.state = "paused" =>
        \/ ReportLost
        \/ adv.pc \in {"clear", "send"}
        \/ run.wakeup = "due"
        \/ \E c \in queue : Awaited(c)
        \/ \E w \in Worker : wk[w].pc \in {"start", "lookup", "run", "report"} /\ Awaited(wk[w].cmd)
        \/ \E w \in Worker : srv[w].pc \in {"check", "write"} /\ Awaited(srv[w].cmd)

(***************************************************************************)
(* A run that has failed and that nobody is rolling back any more has had  *)
(* the compensation of every completed step dispatched, except for a step  *)
(* a worker reported as failed, which is not undone; unless the report     *)
(* was given up between its failure and its rollback.                      *)
(***************************************************************************)
RolledBack ==
    run.state = "failed" /\ lock = Nil /\ (\A w \in Worker : srv[w].pc # "rollback") =>
        ReportLost \/ \A i \in DOMAIN log : Def[log[i]].comp => log[i] \in undone \cup blamed

(***************************************************************************)
(* A run ends, although workers die, channels and streams break and        *)
(* advances are lost; unless a report is.                                  *)
(***************************************************************************)
EveryRunEnds == <>[](IsTerminal(run) \/ ReportLost)

(***************************************************************************)
(* "A report is accepted only while the run is paused on the reported      *)
(* step": a run that has succeeded stays so.                               *)
(***************************************************************************)
SucceededIsFinal == [][run.state = "succeeded" => run'.state = "succeeded"]_vars
=============================================================================
