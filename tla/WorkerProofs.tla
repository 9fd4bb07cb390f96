---------------------------- MODULE WorkerProofs ----------------------------
(***************************************************************************)
(* For every workflow of actions, loops included, every set of workers and *)
(* any faults: nobody waits for nothing, and a run that has failed is      *)
(* rolled back.                                                            *)
(***************************************************************************)
EXTENDS ActionWorker, StoreProofs, FiniteSetTheorems

-----------------------------------------------------------------------------
(***************************************************************************)
(* The inductive invariant.                                                *)
(***************************************************************************)
\* The lock is held by the advance in progress, or by a report that is rolling back.
LockOK ==
    /\ lock = "advance" <=> adv.pc # "idle"
    /\ \A w \in Worker : lock = w <=> srv[w].pc \in {"undo", "settle"}

\* What the advance in progress knows of the run is true of it: reports change
\* neither its step nor its attempt.
AdvanceOK ==
    /\ adv.pc \notin {"idle", "load"} => adv.step \in Step
    /\ adv.pc \in {"clear", "next", "mark", "send"} => Def[adv.step].type = "action"
    /\ adv.pc \in {"dispatch", "mark"} => run.attempt = adv.attempt
    /\ adv.pc = "send" => run.attempt = adv.attempt + 1
    /\ adv.pc \in {"mark", "send"} => run.step = adv.step

\* A paused run is paused on an action, and once that is answered it is due.
PausedOK ==
    run.state = "paused" =>
        /\ run.step \in Step /\ Def[run.step].type = "action" /\ run.attempt # 0
        /\ run.action = Nil => run.wakeup = "due"

\* A worker opens no second stream while the engine is busy with the first.
CarriedOK(w) ==
    /\ wk[w].held \/ wk[w].pc # "idle" => wk[w].cmd \in Command
    /\ srv[w].pc # "idle" => srv[w].cmd \in Command
    /\ wk[w].pc \in {"lookup", "run", "report"} => srv[w].pc = "idle"

Undone(S) == \A i \in DOMAIN log : Def[log[i]].comp => log[i] \in undone \cup S

\* A rollback is of a step that was reported, and has undone the others when it settles.
ReportOK(w) ==
    /\ srv[w].pc \in {"rollback", "undo", "settle"} => srv[w].cmd.step \in blamed
    /\ srv[w].pc = "settle" => Undone({srv[w].cmd.step})

\* RolledBack, with the advances that may be running beside the rollback.
FailedOK ==
    run.state = "failed" /\ lock \in {Nil, "advance"} /\ (\A w \in Worker : srv[w].pc # "rollback")
        => ReportLost \/ Undone(blamed)

\* The worker has yet to report on what the run waits for, and would be requeued.
Carries(d) == d.pc \in {"start", "lookup", "run", "report"} /\ d.held /\ Awaited(d.cmd)

\* The engine has yet to write the report the run waits for.
Reports(x) == x.pc \in {"check", "write"} /\ Awaited(x.cmd)

Waiting ==
    \/ \E c \in queue : Awaited(c)
    \/ \E w \in Worker : Carries(wk[w])
    \/ \E w \in Worker : Reports(srv[w])

\* AnswerPending, with only the deliveries that the broker would requeue.
Answerable ==
    run.state = "paused" =>
        \/ ReportLost
        \/ adv.pc \in {"clear", "send"}
        \/ run.wakeup = "due"
        \/ Waiting

IInv ==
    /\ TypeOK /\ Stored(run) /\ run.start \in Step
    /\ LockOK /\ AdvanceOK /\ PausedOK
    /\ \A w \in Worker : CarriedOK(w) /\ ReportOK(w)
    /\ FailedOK /\ Answerable

-----------------------------------------------------------------------------
(***************************************************************************)
(* What the store calls make of a run.                                     *)
(***************************************************************************)
LEMMA Updated ==
    ASSUME NEW r, Stored(r), NEW v \in RunState \ {"absent"}, NEW s \in Step \cup {Nil}
    PROVE  LET x == UpdateRunState(r, v, s)
           IN  /\ Stored(x) /\ x.start = r.start /\ x.state = v /\ x.step = s
               /\ x.attempt = r.attempt /\ x.action = r.action /\ x.wakeup = r.wakeup
<1>1. Keeps(r, UpdateRunState(r, v, s))
    BY KeepsUpdates
<1>2. LET x == UpdateRunState(r, v, s)
      IN  /\ x.state = v /\ x.step = s /\ x.attempt = r.attempt
          /\ x.action = r.action /\ x.wakeup = r.wakeup
    BY Zenon DEF UpdateRunState, Stored, RunRecord
<1> QED BY <1>1, <1>2 DEF Keeps

LEMMA Cleared ==
    ASSUME NEW r, Stored(r)
    PROVE  LET x == ClearPause(r)
           IN  /\ Stored(x) /\ x.start = r.start /\ x.state = "running" /\ x.step = r.step
               /\ x.attempt = r.attempt
<1> DEFINE y == ClearAwaits(r)
           x == ClearPause(r)
<1>1. Keeps(r, x)
    BY KeepsClears
<1>2. y = [r EXCEPT !.wakeup = "none", !.signal = Nil, !.topic = Nil] /\ x = [y EXCEPT !.state = "running"]
    BY DEF ClearAwaits, ClearPause
<1> HIDE DEF x, y
<1>3. y \in RunRecord /\ y.step = r.step /\ y.attempt = r.attempt
  <2>1. "none" \in Wakeup
      BY DEF Wakeup
  <2> QED BY <1>2, <2>1, Zenon DEF Stored, RunRecord
<1>4. x.state = "running" /\ x.step = y.step /\ x.attempt = y.attempt
    BY <1>2, <1>3, Zenon DEF RunRecord
<1>5. /\ Stored(x) /\ x.start = r.start /\ x.state = "running" /\ x.step = r.step
      /\ x.attempt = r.attempt
    BY <1>1, <1>3, <1>4 DEF Keeps
<1> QED BY <1>5 DEF x

LEMMA Marked ==
    ASSUME NEW r, Stored(r), NEW s \in Step, NEW k \in Nat, r.attempt # k
    PROVE  LET x == MarkAwaitingAction(r, s, k)
           IN  /\ Stored(x) /\ x.start = r.start /\ x.state = "paused" /\ x.step = r.step
               /\ x.attempt = k /\ x.action = s
<1> DEFINE x == [r EXCEPT !.state = "paused", !.action = s, !.attempt = k]
<1>1. MarkAwaitingAction(r, s, k) = x
    BY DEF MarkAwaitingAction
<1>2. Keeps(r, x)
    BY KeepsAction
<1>3. x.state = "paused" /\ x.step = r.step /\ x.attempt = k /\ x.action = s
    BY Zenon DEF Stored, RunRecord
<1> HIDE DEF x
<1> QED BY <1>1, <1>2, <1>3 DEF Keeps

LEMMA Reported ==
    ASSUME NEW r, Stored(r), NEW k
    PROVE  LET x == CompleteAction(r, k)
               y == FailAction(r, k)
           IN  /\ Stored(x) /\ x.start = r.start /\ x.state = r.state /\ x.step = r.step
               /\ x.attempt = r.attempt
               /\ x = r \/ x.wakeup = "due"
               /\ k = r.attempt => x.wakeup = "due"
               /\ Stored(y) /\ y.start = r.start /\ y.step = r.step /\ y.attempt = r.attempt
               /\ IF k = r.attempt THEN y.state = "failed" ELSE y = r
<1> DEFINE x == [r EXCEPT !.action = Nil, !.wakeup = "due"]
           y == [r EXCEPT !.action = Nil, !.state = "failed"]
<1>1. /\ CompleteAction(r, k) = (IF k = r.attempt THEN x ELSE r)
      /\ FailAction(r, k) = (IF k = r.attempt THEN y ELSE r)
    BY DEF CompleteAction, FailAction
<1>2. Keeps(r, x) /\ Keeps(r, y)
    BY KeepsReport, KeepsEnd DEF RunState
<1>3. x.state = r.state /\ x.step = r.step /\ x.attempt = r.attempt /\ x.wakeup = "due"
    BY Zenon DEF Stored, RunRecord
<1>4. y.state = "failed" /\ y.step = r.step /\ y.attempt = r.attempt
    BY Zenon DEF Stored, RunRecord
<1> HIDE DEF x, y
<1>5. CASE k = r.attempt
    BY <1>1, <1>2, <1>3, <1>4, <1>5 DEF Keeps
<1>6. CASE k # r.attempt
    BY <1>1, <1>6
<1> QED BY <1>5, <1>6

LEMMA Failed ==
    ASSUME NEW r, Stored(r), NEW s \in Step
    PROVE  LET x == MarkRunFailed(r, s)
           IN  Stored(x) /\ x.start = r.start /\ IsTerminal(x) /\ x.state # "paused"
<1> DEFINE x == [r EXCEPT !.state = "failed", !.step = s]
<1>1. Keeps(r, MarkRunFailed(r, s))
    BY KeepsUpdates
<1>2. x.state = "failed"
    BY Zenon DEF Stored, RunRecord
<1>3. MarkRunFailed(r, s) = (IF IsTerminal(r) THEN r ELSE x)
    BY DEF MarkRunFailed
<1> HIDE DEF x
<1>4. CASE IsTerminal(r)
    BY <1>1, <1>3, <1>4 DEF Keeps, IsTerminal, Terminal
<1>5. CASE ~IsTerminal(r)
    BY <1>1, <1>2, <1>3, <1>5 DEF Keeps, IsTerminal, Terminal
<1> QED BY <1>4, <1>5

\* The step after an action.
LEMMA NextStep ==
    ASSUME NEW s \in Step, Def[s].type = "action"
    PROVE  (CHOOSE t \in Def[s].next : TRUE) \in Step
<1>1. Def[s].next \in SUBSET Step
    BY DefAssumption, Zenon DEF StepDef
<1>2. Cardinality(Def[s].next) = 1
    BY WorkerAssumption
<1>3. Def[s].next # {}
    BY <1>2, FS_EmptySet
<1> QED BY <1>1, <1>3

-----------------------------------------------------------------------------
(***************************************************************************)
(* The advances.                                                           *)
(***************************************************************************)
AdvanceType ==
    [pc : {"idle", "load", "clear", "next", "dispatch", "mark", "send"},
     step : Step \cup {Nil}, attempt : Nat]

\* A message more or less, and nothing else.
LEMMA OnlyMessages ==
    ASSUME IInv, msgs' \in 0 .. MaxMsgs,
           UNCHANGED <<run, log, adv, lock, queue, sent, wk, cache, srv, undone, blamed, faults>>
    PROVE  IInv'
<1>1. TypeOK'
    BY DEF IInv, TypeOK
<1>2. Stored(run') /\ run'.start \in Step
    BY DEF IInv
<1>3. LockOK' /\ AdvanceOK' /\ PausedOK'
    BY DEF IInv, LockOK, AdvanceOK, PausedOK
<1>4. \A w \in Worker : CarriedOK(w)' /\ ReportOK(w)'
    BY DEF IInv, CarriedOK, ReportOK, Undone
<1>5. FailedOK'
    BY DEF IInv, FailedOK, ReportLost, Undone
<1>6. Answerable'
    BY DEF IInv, Answerable, Waiting, Carries, Reports, ReportLost, Awaited
<1> QED BY <1>1, <1>2, <1>3, <1>4, <1>5, <1>6 DEF IInv

\* What is left to show of a step of an advance.
LEMMA AdvanceStep ==
    ASSUME IInv, UNCHANGED <<wk, cache, srv, undone, blamed, faults>>,
           Stored(run'), run'.start = run.start, log' \in Seq(Step), msgs' \in 0 .. MaxMsgs,
           adv' \in AdvanceType, queue' \subseteq Command, sent' \in Nat,
           lock \in {Nil, "advance"}, lock' \in {Nil, "advance"},
           lock' = "advance" <=> adv'.pc # "idle",
           run'.state = "failed" => run.state = "failed" /\ log' = log,
           AdvanceOK', PausedOK', Answerable'
    PROVE  IInv'
<1>1. TypeOK'
    BY DEF IInv, TypeOK, AdvanceType, Stored
<1>2. \A w \in Worker : lock # w /\ lock' # w
    BY WorkerAssumption
<1>3. LockOK'
    BY <1>2 DEF IInv, LockOK
<1>4. \A w \in Worker : CarriedOK(w)'
    BY DEF IInv, CarriedOK
<1>5. \A w \in Worker : ReportOK(w)'
    BY <1>2 DEF IInv, ReportOK, LockOK
<1>6. FailedOK'
    BY DEF IInv, FailedOK, ReportLost, Undone
<1> QED BY <1>1, <1>3, <1>4, <1>5, <1>6 DEF IInv

\* What the advance in progress may rely on.
LEMMA InAdvance ==
    ASSUME IInv, adv.pc # "idle"
    PROVE  /\ lock = "advance" /\ adv \in AdvanceType /\ Stored(run) /\ log \in Seq(Step)
           /\ queue \subseteq Command /\ sent \in Nat /\ msgs \in 0 .. MaxMsgs /\ run.start \in Step
           /\ AdvanceOK /\ PausedOK /\ Answerable
           /\ run.step \in Step \cup {Nil} /\ run.attempt \in Nat
BY DEF IInv, TypeOK, LockOK, AdvanceType, RunRecord

\* What may change around a paused run while it stays pending.
LEMMA AnswerableKept ==
    ASSUME Answerable, run' = run, adv.pc \notin {"clear", "send"} \/ adv'.pc \in {"clear", "send"},
           queue \subseteq queue', UNCHANGED <<wk, srv, faults>>
    PROVE  Answerable'
BY DEF Answerable, Waiting, Carries, Reports, ReportLost, Awaited

LEMMA TakeAdvancePreserves ==
    ASSUME IInv, TakeAdvance
    PROVE  IInv'
<1>1. /\ adv.pc = "idle" /\ lock = Nil /\ lock' = "advance" /\ msgs > 0 /\ msgs' = msgs - 1
      /\ adv' = [adv EXCEPT !.pc = "load"]
      /\ UNCHANGED <<run, log, queue, sent, wk, cache, srv, undone, blamed, faults>>
    BY DEF TakeAdvance, wkVars, srvVars
<1>2. adv \in AdvanceType /\ msgs \in 0 .. MaxMsgs /\ MaxMsgs \in Nat
    BY WorkerAssumption DEF IInv, TypeOK, AdvanceType
<1>3. adv' \in AdvanceType /\ adv'.pc = "load" /\ msgs' \in 0 .. MaxMsgs
    BY <1>1, <1>2 DEF AdvanceType
<1>4. Stored(run') /\ log' \in Seq(Step) /\ queue' \subseteq Command /\ sent' \in Nat
    BY <1>1 DEF IInv, TypeOK
<1>5. AdvanceOK'
    BY <1>3 DEF AdvanceOK
<1>6. PausedOK'
    BY <1>1 DEF IInv, PausedOK
<1>7. Answerable'
    BY <1>1, AnswerableKept DEF IInv
<1> QED BY <1>1, <1>3, <1>4, <1>5, <1>6, <1>7, AdvanceStep

LEMMA LoadRunPreserves ==
    ASSUME IInv, LoadRun
    PROVE  IInv'
<1>0. adv.pc = "load"
    BY DEF LoadRun
<1>1. UNCHANGED <<run, log, msgs, queue, sent, wk, cache, srv, undone, blamed, faults>>
    BY DEF LoadRun, wkVars, srvVars
<1>2. /\ lock = "advance" /\ adv \in AdvanceType /\ Stored(run) /\ log \in Seq(Step)
      /\ queue \subseteq Command /\ sent \in Nat /\ msgs \in 0 .. MaxMsgs /\ run.start \in Step
      /\ AdvanceOK /\ PausedOK /\ Answerable
      /\ run.step \in Step \cup {Nil} /\ run.attempt \in Nat
    BY <1>0, InAdvance
<1>3. PausedOK'
    BY <1>1, <1>2 DEF PausedOK
<1>4. Answerable'
    BY <1>0, <1>1, <1>2, AnswerableKept
<1>5. CASE lock' = Nil /\ adv' = NoAdvance
  <2>1. adv' \in AdvanceType /\ adv'.pc = "idle"
      BY <1>5 DEF NoAdvance, AdvanceType
  <2>2. AdvanceOK' /\ lock' # "advance"
      BY <1>5, <2>1, WorkerAssumption DEF AdvanceOK
  <2> QED BY <1>1, <1>2, <1>3, <1>4, <1>5, <2>1, <2>2, AdvanceStep
<1>6. CASE /\ lock' = lock
           /\ adv' = [pc |-> IF run.state = "paused" THEN "clear" ELSE "dispatch",
                      step |-> CurrentStep(run), attempt |-> run.attempt]
  <2>1. CurrentStep(run) \in Step /\ (run.step \in Step => CurrentStep(run) = run.step)
      BY <1>2, NilAssumption DEF CurrentStep
  <2>2. /\ adv' \in AdvanceType /\ adv'.step = CurrentStep(run) /\ adv'.attempt = run.attempt
        /\ adv'.pc = (IF run.state = "paused" THEN "clear" ELSE "dispatch")
      BY <1>2, <1>6, <2>1 DEF AdvanceType
  <2>3. AdvanceOK'
      BY <1>1, <1>2, <2>1, <2>2 DEF AdvanceOK, PausedOK
  <2> QED BY <1>1, <1>2, <1>3, <1>4, <1>6, <2>2, <2>3, AdvanceStep
<1> QED BY <1>5, <1>6 DEF LoadRun, ReleaseLock

LEMMA ClearPreserves ==
    ASSUME IInv, Clear
    PROVE  IInv'
<1>0. adv.pc = "clear"
    BY DEF Clear
<1>1. /\ run' = ClearPause(run) /\ adv' = [adv EXCEPT !.pc = "next"]
      /\ UNCHANGED <<log, msgs, lock, queue, sent, wk, cache, srv, undone, blamed, faults>>
    BY DEF Clear, wkVars, srvVars
<1>2. /\ lock = "advance" /\ adv \in AdvanceType /\ Stored(run) /\ log \in Seq(Step)
      /\ queue \subseteq Command /\ sent \in Nat /\ msgs \in 0 .. MaxMsgs /\ run.start \in Step
      /\ AdvanceOK /\ PausedOK /\ Answerable
    BY <1>0, InAdvance
<1>3. Stored(run') /\ run'.start = run.start /\ run'.state = "running"
    BY <1>1, <1>2, Cleared
<1>4. adv' \in AdvanceType /\ adv'.pc = "next" /\ adv'.step = adv.step
    BY <1>1, <1>2 DEF AdvanceType
<1>5. AdvanceOK'
    BY <1>0, <1>2, <1>4 DEF AdvanceOK
<1>6. PausedOK' /\ Answerable'
    BY <1>3 DEF PausedOK, Answerable
<1> QED BY <1>1, <1>2, <1>3, <1>4, <1>5, <1>6, AdvanceStep

LEMMA SetNextPreserves ==
    ASSUME IInv, SetNext
    PROVE  IInv'
<1> DEFINE n == CHOOSE s \in Def[adv.step].next : TRUE
<1>0. adv.pc = "next"
    BY DEF SetNext
<1>1. /\ log' = Append(log, adv.step) /\ run' = UpdateRunState(run, "running", n)
      /\ adv' = [adv EXCEPT !.pc = "load"]
      /\ UNCHANGED <<msgs, lock, queue, sent, wk, cache, srv, undone, blamed, faults>>
    BY DEF SetNext, wkVars, srvVars
<1>2. /\ lock = "advance" /\ adv \in AdvanceType /\ Stored(run) /\ log \in Seq(Step)
      /\ queue \subseteq Command /\ sent \in Nat /\ msgs \in 0 .. MaxMsgs /\ run.start \in Step
      /\ AdvanceOK /\ PausedOK /\ Answerable
    BY <1>0, InAdvance
<1>3. adv.step \in Step /\ n \in Step
    BY <1>0, <1>2, NextStep DEF AdvanceOK
<1> HIDE DEF n
<1>4. Stored(run') /\ run'.start = run.start /\ run'.state = "running"
    BY <1>1, <1>2, <1>3, Updated DEF RunState
<1>5. adv' \in AdvanceType /\ adv'.pc = "load"
    BY <1>1, <1>2 DEF AdvanceType
<1>6. AdvanceOK' /\ PausedOK' /\ Answerable'
    BY <1>4, <1>5 DEF AdvanceOK, PausedOK, Answerable
<1>7. log' \in Seq(Step)
    BY <1>1, <1>2, <1>3
<1> QED BY <1>1, <1>2, <1>4, <1>5, <1>6, <1>7, AdvanceStep

LEMMA DispatchPreserves ==
    ASSUME IInv, Dispatch
    PROVE  IInv'
<1>0. adv.pc = "dispatch"
    BY DEF Dispatch
<1>1. UNCHANGED <<log, msgs, queue, sent, wk, cache, srv, undone, blamed, faults>>
    BY DEF Dispatch, wkVars, srvVars
<1>2. /\ lock = "advance" /\ adv \in AdvanceType /\ Stored(run) /\ log \in Seq(Step)
      /\ queue \subseteq Command /\ sent \in Nat /\ msgs \in 0 .. MaxMsgs /\ run.start \in Step
      /\ AdvanceOK /\ PausedOK /\ Answerable
    BY <1>0, InAdvance
<1>3. adv.step \in Step /\ run.attempt = adv.attempt
    BY <1>0, <1>2 DEF AdvanceOK
<1>4. CASE /\ run' = UpdateRunState(run, "succeeded", adv.step)
           /\ lock' = Nil /\ adv' = NoAdvance
  <2>1. Stored(run') /\ run'.start = run.start /\ run'.state = "succeeded"
      BY <1>2, <1>3, <1>4, Updated DEF RunState
  <2>2. adv' \in AdvanceType /\ adv'.pc = "idle"
      BY <1>4 DEF NoAdvance, AdvanceType
  <2>3. AdvanceOK' /\ PausedOK' /\ Answerable' /\ lock' # "advance"
      BY <1>4, <2>1, <2>2, WorkerAssumption DEF AdvanceOK, PausedOK, Answerable
  <2> QED BY <1>1, <1>2, <1>4, <2>1, <2>2, <2>3, AdvanceStep
<1>5. CASE /\ Def[adv.step].type # "end" /\ run' = UpdateRunState(run, "running", adv.step)
           /\ adv' = [adv EXCEPT !.pc = "mark"] /\ lock' = lock
  <2>1. /\ Stored(run') /\ run'.start = run.start /\ run'.state = "running"
        /\ run'.step = adv.step /\ run'.attempt = run.attempt
      BY <1>2, <1>3, <1>5, Updated DEF RunState
  <2>2. adv' \in AdvanceType /\ adv'.pc = "mark" /\ adv'.step = adv.step /\ adv'.attempt = adv.attempt
      BY <1>2, <1>5 DEF AdvanceType
  <2>3. Def[adv.step].type = "action"
      BY <1>3, <1>5, WorkerAssumption
  <2>4. AdvanceOK'
      BY <1>3, <2>1, <2>2, <2>3 DEF AdvanceOK
  <2>5. PausedOK' /\ Answerable'
      BY <2>1 DEF PausedOK, Answerable
  <2> QED BY <1>1, <1>2, <1>5, <2>1, <2>2, <2>4, <2>5, AdvanceStep
<1> QED BY <1>4, <1>5 DEF Dispatch, ReleaseLock

LEMMA MarkPreserves ==
    ASSUME IInv, Mark
    PROVE  IInv'
<1>0. adv.pc = "mark"
    BY DEF Mark
<1>1. /\ run' = MarkAwaitingAction(run, adv.step, adv.attempt + 1)
      /\ adv' = [adv EXCEPT !.pc = "send"]
      /\ UNCHANGED <<log, msgs, lock, queue, sent, wk, cache, srv, undone, blamed, faults>>
    BY DEF Mark, wkVars, srvVars
<1>2. /\ lock = "advance" /\ adv \in AdvanceType /\ Stored(run) /\ log \in Seq(Step)
      /\ queue \subseteq Command /\ sent \in Nat /\ msgs \in 0 .. MaxMsgs /\ run.start \in Step
      /\ AdvanceOK /\ PausedOK /\ Answerable
    BY <1>0, InAdvance
<1>3. /\ adv.step \in Step /\ run.attempt = adv.attempt /\ run.step = adv.step
      /\ Def[adv.step].type = "action"
    BY <1>0, <1>2 DEF AdvanceOK
<1>4. adv.attempt + 1 \in Nat /\ run.attempt # adv.attempt + 1 /\ adv.attempt + 1 # 0
  <2>1. adv.attempt \in Nat
      BY <1>2 DEF AdvanceType
  <2> QED BY <1>3, <2>1
<1>5. /\ Stored(run') /\ run'.start = run.start /\ run'.state = "paused"
      /\ run'.step = run.step /\ run'.attempt = adv.attempt + 1 /\ run'.action = adv.step
    BY <1>1, <1>2, <1>3, <1>4, Marked
<1>6. adv' \in AdvanceType /\ adv'.pc = "send" /\ adv'.step = adv.step /\ adv'.attempt = adv.attempt
    BY <1>1, <1>2 DEF AdvanceType
<1>7. AdvanceOK'
    BY <1>3, <1>5, <1>6 DEF AdvanceOK
<1>8. PausedOK'
    BY <1>3, <1>4, <1>5, NilAssumption DEF PausedOK
<1>9. Answerable'
    BY <1>6 DEF Answerable
<1> QED BY <1>1, <1>2, <1>5, <1>6, <1>7, <1>8, <1>9, AdvanceStep

LEMMA PublishCommandPreserves ==
    ASSUME IInv, PublishCommand
    PROVE  IInv'
<1> DEFINE c == [step |-> adv.step, attempt |-> adv.attempt + 1, n |-> sent]
<1>0. adv.pc = "send"
    BY DEF PublishCommand
<1>1. /\ queue' = queue \cup {c} /\ sent' = sent + 1 /\ lock' = Nil /\ adv' = NoAdvance
      /\ UNCHANGED <<run, log, msgs, wk, cache, srv, undone, blamed, faults>>
    BY DEF PublishCommand, ReleaseLock, srvVars
<1>2. /\ lock = "advance" /\ adv \in AdvanceType /\ Stored(run) /\ log \in Seq(Step)
      /\ queue \subseteq Command /\ sent \in Nat /\ msgs \in 0 .. MaxMsgs /\ run.start \in Step
      /\ AdvanceOK /\ PausedOK /\ Answerable
    BY <1>0, InAdvance
<1>3. adv.step \in Step /\ adv.attempt \in Nat /\ run.attempt = adv.attempt + 1 /\ run.step = adv.step
    BY <1>0, <1>2 DEF AdvanceOK, AdvanceType
<1>4. c \in Command /\ c.step = run.step /\ c.attempt = run.attempt
    BY <1>2, <1>3 DEF Command
<1>5. adv' \in AdvanceType /\ adv'.pc = "idle" /\ lock' # "advance"
    BY <1>1, WorkerAssumption DEF NoAdvance, AdvanceType
<1>6. AdvanceOK' /\ PausedOK'
    BY <1>1, <1>2, <1>5 DEF AdvanceOK, PausedOK
<1>7. Answerable'
  <2>1. PICK d : d = c
      OBVIOUS
  <2>2. d \in queue' /\ Awaited(d)'
      BY <1>1, <1>4, <2>1 DEF Awaited
  <2> QED BY <2>2 DEF Answerable, Waiting
<1> HIDE DEF c
<1>8. queue' \subseteq Command /\ sent' \in Nat
    BY <1>1, <1>2, <1>4
<1> QED BY <1>1, <1>2, <1>5, <1>6, <1>7, <1>8, AdvanceStep

-----------------------------------------------------------------------------
(***************************************************************************)
(* The workers.                                                            *)
(***************************************************************************)
OnlyWorker(w) ==
    /\ wk' \in [Worker -> DeliveryType]
    /\ \A u \in Worker : u # w => wk'[u] = wk[u]

LEMMA OnlyWorkerAt ==
    ASSUME IInv, NEW w \in Worker, NEW x \in DeliveryType, wk' = [wk EXCEPT ![w] = x]
    PROVE  OnlyWorker(w) /\ wk'[w] = x
BY DEF IInv, TypeOK, OnlyWorker

LEMMA WorkerOf ==
    ASSUME IInv, NEW w \in Worker
    PROVE  /\ wk[w] \in DeliveryType /\ srv[w] \in ReportType /\ CarriedOK(w) /\ ReportOK(w)
           /\ DOMAIN wk = Worker /\ DOMAIN srv = Worker /\ queue \subseteq Command
BY DEF IInv, TypeOK

\* What is left to show of a step of a worker that sends no report.
LEMMA WorkerStep ==
    ASSUME IInv, NEW w \in Worker, OnlyWorker(w),
           UNCHANGED <<run, log, adv, msgs, sent, undone, blamed, srv, lock>>,
           queue' \subseteq Command, cache' \subseteq [step : Step, attempt : Nat],
           faults \subseteq faults', faults' \subseteq Faults, CarriedOK(w)',
           run.state = "paused" /\ Waiting => Waiting' \/ run.wakeup = "due"
    PROVE  IInv'
<1>1. TypeOK'
    BY DEF IInv, TypeOK, OnlyWorker
<1>2. Stored(run') /\ run'.start \in Step /\ LockOK' /\ AdvanceOK' /\ PausedOK'
    BY DEF IInv, LockOK, AdvanceOK, PausedOK
<1>3. \A u \in Worker : CarriedOK(u)' /\ ReportOK(u)'
    BY DEF IInv, CarriedOK, ReportOK, Undone, OnlyWorker
<1>4. FailedOK'
    BY DEF IInv, FailedOK, ReportLost, Undone
<1>5. Answerable'
    BY DEF IInv, Answerable, ReportLost
<1> QED BY <1>1, <1>2, <1>3, <1>4, <1>5 DEF IInv

\* Of what the run waits for only w's own part has to be looked at.
LEMMA StillWaiting ==
    ASSUME NEW w \in Worker, OnlyWorker(w), UNCHANGED <<run, srv>>, Waiting,
           (\E c \in queue : Awaited(c)) => Waiting', Carries(wk[w]) => Waiting'
    PROVE  Waiting'
<1>1. ASSUME NEW u \in Worker, u # w, Carries(wk[u]) PROVE Waiting'
  <2>1. Carries(wk[u])'
      BY <1>1 DEF OnlyWorker, Carries, Awaited
  <2> QED BY <2>1 DEF Waiting
<1>2. ASSUME NEW u \in Worker, Reports(srv[u]) PROVE Waiting'
  <2>1. Reports(srv[u])'
      BY <1>2 DEF Reports, Awaited
  <2> QED BY <2>1 DEF Waiting
<1> QED BY <1>1, <1>2 DEF Waiting

\* The queue has all it had.
LEMMA QueueWaits ==
    ASSUME run' = run, queue \subseteq queue', \E c \in queue : Awaited(c)
    PROVE  Waiting'
BY DEF Waiting, Awaited

LEMMA NoDeliveryType ==
    /\ NoDelivery \in DeliveryType /\ NoDelivery.pc = "idle" /\ NoDelivery.held = FALSE
BY DEF NoDelivery, DeliveryType

LEMMA ReceivePreserves ==
    ASSUME IInv, NEW w \in Worker, Receive(w)
    PROVE  IInv'
<1>0. PICK c \in queue :
        /\ queue' = queue \ {c}
        /\ wk' = [wk EXCEPT ![w] = [NoDelivery EXCEPT
                     !.pc = IF IsCompensation(c) THEN "undo" ELSE "start", !.cmd = c, !.held = TRUE]]
    BY DEF Receive
<1> DEFINE v == IF IsCompensation(c) THEN "undo" ELSE "start"
           z == NoDelivery
           x == [z EXCEPT !.pc = v, !.cmd = c, !.held = TRUE]
<1>1. /\ wk[w].pc = "idle"
      /\ UNCHANGED <<run, log, adv, msgs, lock, sent, cache, srv, undone, blamed, faults>>
    BY DEF Receive, advVars, srvVars
<1>2. queue \subseteq Command /\ c \in Command
    BY WorkerOf
<1>3. z \in DeliveryType /\ v \in {"undo", "start"} /\ wk' = [wk EXCEPT ![w] = x]
    BY <1>0, NoDeliveryType
<1> HIDE DEF z, v
<1>4. x \in DeliveryType /\ x.pc = v /\ x.cmd = c /\ x.held = TRUE
    BY <1>2, <1>3, Zenon DEF DeliveryType
<1> HIDE DEF x
<1>5. OnlyWorker(w) /\ wk'[w] = x
    BY <1>3, <1>4, OnlyWorkerAt
<1>6. CarriedOK(w)'
    BY <1>1, <1>2, <1>3, <1>4, <1>5, WorkerOf DEF CarriedOK
<1>7. ASSUME run.state = "paused", Waiting PROVE Waiting'
  <2>1. ASSUME NEW d \in queue, Awaited(d) PROVE Waiting'
    <3>1. CASE d # c
        BY <1>0, <1>1, <2>1, <3>1 DEF Waiting, Awaited
    <3>2. CASE d = c
      <4>1. c.attempt # 0
          BY <1>7, <2>1, <3>2 DEF IInv, PausedOK, Awaited
      <4>2. v = "start"
          BY <4>1 DEF v, IsCompensation
      <4>3. Carries(wk[w])'
          BY <1>1, <1>4, <1>5, <2>1, <3>2, <4>2 DEF Carries, Awaited
      <4> QED BY <4>3 DEF Waiting
    <3> QED BY <3>1, <3>2
  <2>2. ~Carries(wk[w])
      BY <1>1 DEF Carries
  <2> QED BY <1>1, <1>5, <1>7, <2>1, <2>2, StillWaiting
<1>8. queue' \subseteq Command /\ cache' \subseteq [step : Step, attempt : Nat] /\ faults' \subseteq Faults
    BY <1>0, <1>1, <1>2 DEF IInv, TypeOK
<1> QED BY <1>1, <1>5, <1>6, <1>7, <1>8, WorkerStep

\* A delivery that is given back: requeued if it was still held.
LEMMA GivesBack ==
    ASSUME IInv, NEW w \in Worker
    PROVE  /\ Returned(w) \subseteq Command /\ queue \subseteq Returned(w)
           /\ run' = run /\ queue' = Returned(w) /\ Carries(wk[w]) => Waiting'
<1>1. Returned(w) \subseteq Command /\ queue \subseteq Returned(w)
    BY WorkerOf DEF Returned, CarriedOK
<1>2. ASSUME run' = run, queue' = Returned(w), Carries(wk[w]) PROVE Waiting'
  <2>1. wk[w].cmd \in queue'
      BY <1>2 DEF Carries, Returned
  <2>2. PICK c : c = wk[w].cmd
      OBVIOUS
  <2>3. c \in queue' /\ Awaited(c)'
      BY <1>2, <2>1, <2>2 DEF Carries, Awaited
  <2> QED BY <2>3 DEF Waiting
<1> QED BY <1>1, <1>2

LEMMA StartJobPreserves ==
    ASSUME IInv, NEW w \in Worker, StartJob(w)
    PROVE  IInv'
<1> DEFINE d == wk[w]
<1>1. /\ d.pc = "start" /\ srv[w].pc = "idle"
      /\ UNCHANGED <<run, log, adv, msgs, lock, sent, cache, srv, undone, blamed>>
    BY DEF StartJob, advVars, srvVars
<1>2. /\ d \in DeliveryType /\ CarriedOK(w) /\ DOMAIN wk = Worker /\ queue \subseteq Command
      /\ cache' \subseteq [step : Step, attempt : Nat] /\ faults \subseteq Faults
    BY <1>1, WorkerOf DEF IInv, TypeOK
<1>3. CASE wk' = [wk EXCEPT ![w].pc = "lookup"] /\ queue' = queue /\ faults' = faults
  <2> DEFINE x == [d EXCEPT !.pc = "lookup"]
  <2>1. wk' = [wk EXCEPT ![w] = x]
      BY <1>3, Zenon
  <2> HIDE DEF d
  <2>2. x \in DeliveryType /\ x.pc = "lookup" /\ x.cmd = d.cmd /\ x.held = d.held
      BY <1>2, Zenon DEF DeliveryType
  <2> HIDE DEF x
  <2>3. OnlyWorker(w) /\ wk'[w] = x
      BY <2>1, <2>2, OnlyWorkerAt
  <2>4. CarriedOK(w)'
      BY <1>1, <1>2, <2>2, <2>3 DEF CarriedOK, d
  <2>5. Carries(wk[w]) => Waiting'
    <3>1. Carries(wk[w]) => Carries(wk[w])'
        BY <1>1, <2>2, <2>3 DEF Carries, Awaited, d
    <3> QED BY <3>1 DEF Waiting
  <2>6. Waiting => Waiting'
      BY <1>1, <1>3, <2>3, <2>5, QueueWaits, StillWaiting
  <2> QED BY <1>1, <1>2, <1>3, <2>3, <2>4, <2>6, WorkerStep
<1>4. CASE /\ wk' = [wk EXCEPT ![w] = NoDelivery]
           /\ \/ ~CheckStep(run, d.cmd) /\ queue' = queue /\ faults' = faults
              \/ Happens("stream") /\ queue' = Returned(w)
  <2>1. OnlyWorker(w) /\ wk'[w] = NoDelivery
      BY <1>4, NoDeliveryType, OnlyWorkerAt
  <2>2. CarriedOK(w)'
      BY <1>1, <2>1, NoDeliveryType DEF CarriedOK
  <2>3. queue' \subseteq Command /\ queue \subseteq queue' /\ faults \subseteq faults' /\ faults' \subseteq Faults
      BY <1>2, <1>4, GivesBack DEF Happens
  <2>4. ASSUME run.state = "paused", Waiting PROVE Waiting' \/ run.wakeup = "due"
    <3>1. CASE ~CheckStep(run, d.cmd) /\ Carries(d)
      <4>1. run.action = Nil
          BY <2>4, <3>1 DEF CheckStep, Carries, Awaited
      <4> QED BY <2>4, <4>1 DEF IInv, PausedOK
    <3>2. CASE ~Carries(d)
        BY <1>1, <2>1, <2>3, <2>4, <3>2, QueueWaits, StillWaiting
    <3>3. CASE queue' = Returned(w)
        BY <1>1, <2>1, <2>3, <2>4, <3>3, QueueWaits, StillWaiting, GivesBack
    <3> QED BY <1>4, <3>1, <3>2, <3>3
  <2> QED BY <1>1, <1>2, <2>1, <2>2, <2>3, <2>4, WorkerStep
<1> QED BY <1>3, <1>4 DEF StartJob

\* Lookup and RunHandler: the worker keeps its delivery and comes closer to a report.
LEMMA WorksOn ==
    ASSUME IInv, NEW w \in Worker, NEW v \in {"run", "report"}, NEW ok \in BOOLEAN,
           wk[w].pc \in {"lookup", "run"}, wk' = [wk EXCEPT ![w].pc = v, ![w].ok = ok],
           UNCHANGED <<run, log, adv, msgs, lock, queue, sent, srv, undone, blamed, faults>>,
           cache' \subseteq [step : Step, attempt : Nat]
    PROVE  IInv'
<1> DEFINE d == wk[w]
           x == [d EXCEPT !.pc = v, !.ok = ok]
<1>1. /\ d \in DeliveryType /\ CarriedOK(w) /\ DOMAIN wk = Worker /\ queue \subseteq Command
      /\ faults \subseteq Faults
    BY WorkerOf DEF IInv, TypeOK
<1>2. wk' = [wk EXCEPT ![w] = x]
    BY Zenon
<1> HIDE DEF d
<1>3. x \in DeliveryType /\ x.pc = v /\ x.cmd = d.cmd /\ x.held = d.held
    BY <1>1, Zenon DEF DeliveryType
<1> HIDE DEF x
<1>4. OnlyWorker(w) /\ wk'[w] = x
    BY <1>2, <1>3, OnlyWorkerAt
<1>5. CarriedOK(w)'
    BY <1>1, <1>3, <1>4 DEF CarriedOK, d
<1>6. Carries(wk[w]) => Waiting'
  <2>1. Carries(wk[w]) => Carries(wk[w])'
      BY <1>3, <1>4 DEF Carries, Awaited, d
  <2> QED BY <2>1 DEF Waiting
<1>7. Waiting => Waiting'
    BY <1>4, <1>6, QueueWaits, StillWaiting
<1> QED BY <1>1, <1>4, <1>5, <1>7, WorkerStep

LEMMA WorkPreserves ==
    ASSUME IInv, NEW w \in Worker, Lookup(w) \/ RunHandler(w)
    PROVE  IInv'
<1> DEFINE k == IdempotencyKey(wk[w].cmd)
<1>1. /\ wk[w].pc \in {"lookup", "run"}
      /\ UNCHANGED <<run, log, adv, msgs, lock, queue, sent, srv, undone, blamed, faults>>
    BY DEF Lookup, RunHandler, advVars, srvVars
<1>2. cache \subseteq [step : Step, attempt : Nat] /\ k \in [step : Step, attempt : Nat]
  <2>1. wk[w].cmd \in Command
      BY <1>1, WorkerOf DEF CarriedOK
  <2> QED BY <2>1 DEF IInv, TypeOK, IdempotencyKey, Command
<1> HIDE DEF k
<1>3. CASE Lookup(w)
  <2> DEFINE v == IF k \in cache THEN "report" ELSE "run"
             ok == k \in cache
  <2>1. wk' = [wk EXCEPT ![w].pc = v, ![w].ok = ok] /\ cache' = cache
      BY <1>3 DEF Lookup, k
  <2>2. v \in {"run", "report"} /\ ok \in BOOLEAN
      OBVIOUS
  <2> HIDE DEF v, ok
  <2> QED BY <1>1, <1>2, <2>1, <2>2, WorksOn
<1>4. CASE RunHandler(w)
  <2>1. PICK ok \in BOOLEAN :
            /\ wk' = [wk EXCEPT ![w].pc = "report", ![w].ok = ok]
            /\ cache' = IF ok THEN cache \cup {k} ELSE cache
      BY <1>4 DEF RunHandler, k
  <2>2. cache' \subseteq [step : Step, attempt : Nat]
      BY <1>2, <2>1
  <2> QED BY <1>1, <2>1, <2>2, WorksOn
<1> QED BY <1>3, <1>4

LEMMA AckPreserves ==
    ASSUME IInv, NEW w \in Worker, Ack(w) \/ RunCompensation(w)
    PROVE  IInv'
<1>1. /\ wk[w].pc \in {"ack", "undo"} /\ wk' = [wk EXCEPT ![w] = NoDelivery]
      /\ UNCHANGED <<run, log, adv, msgs, lock, queue, sent, cache, srv, undone, blamed, faults>>
    BY DEF Ack, RunCompensation, advVars, srvVars
<1>2. OnlyWorker(w) /\ wk'[w] = NoDelivery
    BY <1>1, NoDeliveryType, OnlyWorkerAt
<1>3. CarriedOK(w)'
    BY <1>1, <1>2, NoDeliveryType, WorkerOf DEF CarriedOK
<1>4. ~Carries(wk[w])
    BY <1>1 DEF Carries
<1>5. Waiting => Waiting'
    BY <1>1, <1>2, <1>4, QueueWaits, StillWaiting
<1>6. queue' \subseteq Command /\ cache' \subseteq [step : Step, attempt : Nat] /\ faults' \subseteq Faults
    BY <1>1 DEF IInv, TypeOK
<1> QED BY <1>1, <1>2, <1>3, <1>5, <1>6, WorkerStep

LEMMA LoseChannelPreserves ==
    ASSUME IInv, NEW w \in Worker, LoseChannel(w)
    PROVE  IInv'
<1> DEFINE d == wk[w]
           x == [d EXCEPT !.held = FALSE]
<1>1. /\ d.held /\ queue' = Returned(w) /\ Happens("channel")
      /\ UNCHANGED <<run, log, adv, msgs, lock, sent, cache, srv, undone, blamed>>
    BY DEF LoseChannel, advVars, srvVars
<1>2. d \in DeliveryType /\ CarriedOK(w) /\ DOMAIN wk = Worker
    BY WorkerOf
<1>3. wk' = [wk EXCEPT ![w] = x]
    BY Zenon DEF LoseChannel
<1> HIDE DEF d
<1>4. x \in DeliveryType /\ x.pc = d.pc /\ x.cmd = d.cmd
    BY <1>2, Zenon DEF DeliveryType
<1> HIDE DEF x
<1>5. OnlyWorker(w) /\ wk'[w] = x
    BY <1>3, <1>4, OnlyWorkerAt
<1>6. CarriedOK(w)'
    BY <1>1, <1>2, <1>4, <1>5 DEF CarriedOK, d
<1>7. /\ queue' \subseteq Command /\ queue \subseteq queue'
      /\ Carries(wk[w]) => Waiting'
    BY <1>1, GivesBack
<1>8. Waiting => Waiting'
    BY <1>1, <1>5, <1>7, QueueWaits, StillWaiting
<1>9. faults \subseteq faults' /\ faults' \subseteq Faults /\ cache' \subseteq [step : Step, attempt : Nat]
    BY <1>1 DEF Happens, IInv, TypeOK
<1> QED BY <1>1, <1>5, <1>6, <1>7, <1>8, <1>9, WorkerStep

-----------------------------------------------------------------------------
(***************************************************************************)
(* The engine's side of the streams.                                       *)
(***************************************************************************)
OnlyReport(w) ==
    /\ srv' \in [Worker -> ReportType]
    /\ \A u \in Worker : u # w => srv'[u] = srv[u]

LEMMA OnlyReportAt ==
    ASSUME IInv, NEW w \in Worker, NEW x \in ReportType, srv' = [srv EXCEPT ![w] = x]
    PROVE  OnlyReport(w) /\ srv'[w] = x
BY DEF IInv, TypeOK, OnlyReport

LEMMA NoReportType == NoReport \in ReportType /\ NoReport.pc = "idle"
BY DEF NoReport, ReportType

\* What is left to show of a step of a worker that touches its stream.
LEMMA StreamStep ==
    ASSUME IInv, NEW w \in Worker, OnlyWorker(w), OnlyReport(w),
           UNCHANGED <<run, log, adv, msgs, sent, undone, blamed>>,
           queue' \subseteq Command, cache' = cache,
           faults \subseteq faults', faults' \subseteq Faults,
           lock' \in {lock, Nil}, LockOK', CarriedOK(w)', ReportOK(w)',
           ReportLost' \/ (lock' = lock /\ srv[w].pc # "rollback"),
           run.state = "paused" /\ Waiting => Waiting' \/ ReportLost'
    PROVE  IInv'
<1>1. TypeOK'
    BY DEF IInv, TypeOK, OnlyWorker, OnlyReport
<1>2. Stored(run') /\ run'.start \in Step /\ AdvanceOK' /\ PausedOK'
    BY DEF IInv, AdvanceOK, PausedOK
<1>3. \A u \in Worker : CarriedOK(u)' /\ ReportOK(u)'
    BY DEF IInv, CarriedOK, ReportOK, Undone, OnlyWorker, OnlyReport
<1>4. FailedOK'
  <2>1. CASE ReportLost'
      BY <2>1 DEF FailedOK
  <2>2. CASE lock' = lock /\ srv[w].pc # "rollback"
    <3>1. (\A u \in Worker : srv'[u].pc # "rollback") => \A u \in Worker : srv[u].pc # "rollback"
        BY <2>2 DEF OnlyReport
    <3>2. ReportLost => ReportLost'
        BY DEF ReportLost
    <3> QED BY <2>2, <3>1, <3>2 DEF IInv, FailedOK, Undone
  <2> QED BY <2>1, <2>2
<1>5. Answerable'
  <2>1. ReportLost => ReportLost'
      BY DEF ReportLost
  <2> QED BY <2>1 DEF IInv, Answerable
<1> QED BY <1>1, <1>2, <1>3, <1>4, <1>5 DEF IInv

LEMMA SendPreserves ==
    ASSUME IInv, NEW w \in Worker, Send(w)
    PROVE  IInv'
<1> DEFINE d == wk[w]
           x == [d EXCEPT !.pc = "ack"]
           n == NoReport
           y == [n EXCEPT !.pc = "check", !.cmd = d.cmd, !.ok = d.ok]
<1>1. /\ d.pc = "report"
      /\ \/ srv' = [srv EXCEPT ![w] = y] /\ faults' = faults
         \/ srv' = srv /\ Happens("send")
      /\ UNCHANGED <<run, log, adv, msgs, lock, queue, sent, cache, undone, blamed>>
    BY DEF Send, advVars
<1>2. /\ d \in DeliveryType /\ CarriedOK(w) /\ DOMAIN wk = Worker /\ queue \subseteq Command
      /\ faults \subseteq Faults /\ ReportOK(w) /\ LockOK /\ srv \in [Worker -> ReportType]
    BY <1>1, WorkerOf DEF IInv, TypeOK
<1>3. wk' = [wk EXCEPT ![w] = x]
    BY Zenon DEF Send
<1>4. d.cmd \in Command /\ srv[w].pc = "idle"
    BY <1>1, <1>2 DEF CarriedOK
<1> HIDE DEF d
<1>5. x \in DeliveryType /\ x.pc = "ack" /\ x.cmd = d.cmd
    BY <1>2, Zenon DEF DeliveryType
<1>6. n \in ReportType /\ d.ok \in BOOLEAN
    BY <1>2, NoReportType DEF DeliveryType
<1> HIDE DEF n
<1>7. y \in ReportType /\ y.pc = "check" /\ y.cmd = d.cmd
    BY <1>4, <1>6, Zenon DEF ReportType
<1> HIDE DEF x, y
<1>8. OnlyWorker(w) /\ wk'[w] = x
    BY <1>3, <1>5, OnlyWorkerAt
<1>9. CASE srv' = srv /\ Happens("send")
  <2>1. CarriedOK(w)' /\ ReportOK(w)' /\ LockOK'
      BY <1>1, <1>2, <1>4, <1>5, <1>8, <1>9 DEF CarriedOK, ReportOK, LockOK, Undone
  <2>2. OnlyReport(w)
      BY <1>2, <1>9 DEF OnlyReport
  <2>3. faults \subseteq faults' /\ faults' \subseteq Faults /\ ReportLost'
      BY <1>2, <1>9 DEF Happens, ReportLost
  <2> QED BY <1>1, <1>2, <1>8, <2>1, <2>2, <2>3, StreamStep
<1>10. CASE srv' = [srv EXCEPT ![w] = y] /\ faults' = faults
  <2>1. OnlyReport(w) /\ srv'[w] = y
      BY <1>7, <1>10, OnlyReportAt
  <2>2. CarriedOK(w)' /\ ReportOK(w)'
      BY <1>4, <1>5, <1>7, <1>8, <2>1 DEF CarriedOK, ReportOK
  <2>3. LockOK'
      BY <1>1, <1>2, <1>4, <1>7, <2>1 DEF LockOK, OnlyReport
  <2>4. ASSUME Waiting PROVE Waiting'
    <3>1. CASE \E c \in queue : Awaited(c)
        BY <1>1, <3>1, QueueWaits
    <3>2. ASSUME NEW u \in Worker, Carries(wk[u]) PROVE Waiting'
      <4>1. CASE u = w
        <5>1. Reports(srv[w])'
            BY <1>1, <1>7, <2>1, <3>2, <4>1 DEF Carries, Reports, Awaited, d
        <5> QED BY <5>1 DEF Waiting
      <4>2. CASE u # w
        <5>1. Carries(wk[u])'
            BY <1>1, <1>8, <3>2, <4>2 DEF Carries, Awaited, OnlyWorker
        <5> QED BY <5>1 DEF Waiting
      <4> QED BY <4>1, <4>2
    <3>3. ASSUME NEW u \in Worker, Reports(srv[u]) PROVE Waiting'
      <4>1. u # w
          BY <1>4, <3>3 DEF Reports
      <4>2. Reports(srv[u])'
          BY <1>1, <2>1, <3>3, <4>1 DEF Reports, Awaited, OnlyReport
      <4> QED BY <4>2 DEF Waiting
    <3> QED BY <2>4, <3>1, <3>2, <3>3 DEF Waiting
  <2> QED BY <1>1, <1>2, <1>4, <1>8, <1>10, <2>1, <2>2, <2>3, <2>4, StreamStep
<1> QED BY <1>1, <1>9, <1>10

LEMMA CrashPreserves ==
    ASSUME IInv, NEW w \in Worker, CrashWorker(w)
    PROVE  IInv'
<1>1. /\ queue' = Returned(w) /\ wk' = [wk EXCEPT ![w] = NoDelivery]
      /\ UNCHANGED <<run, log, adv, msgs, sent, cache, undone, blamed>>
    BY DEF CrashWorker, advVars
<1>2. OnlyWorker(w) /\ wk'[w] = NoDelivery
    BY <1>1, NoDeliveryType, OnlyWorkerAt
<1>3. /\ queue' \subseteq Command /\ queue \subseteq queue'
      /\ Carries(wk[w]) => Waiting'
    BY <1>1, GivesBack
<1>4. /\ srv \in [Worker -> ReportType] /\ CarriedOK(w) /\ ReportOK(w) /\ LockOK
      /\ faults \subseteq Faults /\ cache \subseteq [step : Step, attempt : Nat]
    BY DEF IInv, TypeOK
<1>5. CASE Happens("crash") /\ UNCHANGED <<srv, lock>>
  <2>1. CarriedOK(w)'
      BY <1>2, <1>4, <1>5, NoDeliveryType DEF CarriedOK
  <2>2. Waiting => Waiting'
      BY <1>1, <1>2, <1>3, <1>5, QueueWaits, StillWaiting
  <2>3. faults \subseteq faults' /\ faults' \subseteq Faults
      BY <1>4, <1>5 DEF Happens
  <2> QED BY <1>1, <1>2, <1>3, <1>4, <1>5, <2>1, <2>2, <2>3, WorkerStep
<1>6. CASE /\ Happens("abort") /\ srv' = [srv EXCEPT ![w] = NoReport]
           /\ lock' = IF lock = w THEN Nil ELSE lock
  <2>1. OnlyReport(w) /\ srv'[w] = NoReport
      BY <1>6, NoReportType, OnlyReportAt
  <2>2. CarriedOK(w)' /\ ReportOK(w)'
      BY <1>2, <2>1, NoDeliveryType, NoReportType DEF CarriedOK, ReportOK
  <2>3. LockOK'
    <3>1. lock' = "advance" <=> lock = "advance"
        BY <1>6, WorkerAssumption
    <3>2. lock' # w /\ srv'[w].pc \notin {"undo", "settle"}
        BY <1>6, <2>1, NoReportType, WorkerAssumption
    <3>3. \A u \in Worker : u # w => (lock' = u <=> lock = u)
        BY <1>6, WorkerAssumption
    <3> QED BY <1>1, <1>4, <2>1, <3>1, <3>2, <3>3 DEF LockOK, OnlyReport
  <2>4. faults \subseteq faults' /\ faults' \subseteq Faults /\ ReportLost' /\ lock' \in {lock, Nil}
      BY <1>4, <1>6 DEF Happens, ReportLost
  <2> QED BY <1>1, <1>2, <1>3, <2>1, <2>2, <2>3, <2>4, StreamStep
<1> QED BY <1>5, <1>6 DEF CrashWorker

\* What is left to show of a step of the engine on w's report.
LEMMA ServeStep ==
    ASSUME IInv, NEW w \in Worker, OnlyReport(w), UNCHANGED <<log, adv, wk, cache>>,
           Stored(run'), run'.start = run.start, msgs' \in 0 .. MaxMsgs, sent' \in Nat,
           queue' \subseteq Command, lock' \in Worker \cup {"advance", Nil}, faults' \subseteq Faults,
           undone \subseteq undone', undone' \subseteq Step,
           blamed \subseteq blamed', blamed' \subseteq Step,
           srv'[w].pc # "idle" => srv[w].pc # "idle" /\ srv'[w].cmd = srv[w].cmd,
           LockOK', AdvanceOK', PausedOK', ReportOK(w)', FailedOK', Answerable'
    PROVE  IInv'
<1>1. TypeOK'
    BY DEF IInv, TypeOK, OnlyReport, Stored
<1>2. \A u \in Worker : CarriedOK(u)'
    BY DEF IInv, CarriedOK, OnlyReport
<1>3. \A u \in Worker : ReportOK(u)'
  <2>1. ASSUME NEW u \in Worker, u # w PROVE ReportOK(u)'
    <3>1. ReportOK(u) /\ srv'[u] = srv[u]
        BY <2>1 DEF IInv, OnlyReport
    <3> QED BY <3>1 DEF ReportOK, Undone
  <2> QED BY <2>1
<1> QED BY <1>1, <1>2, <1>3 DEF IInv

\* A report of w that the run does not wait for may go.
LEMMA OthersWait ==
    ASSUME NEW w \in Worker, OnlyReport(w), UNCHANGED wk, queue \subseteq queue', Waiting,
           run'.step = run.step, run'.attempt = run.attempt,
           Reports(srv[w]) => Reports(srv[w])'
    PROVE  Waiting'
<1>1. ASSUME NEW c \in queue, Awaited(c) PROVE Waiting'
  <2>1. c \in queue' /\ Awaited(c)'
      BY <1>1 DEF Awaited
  <2> QED BY <2>1 DEF Waiting
<1>2. ASSUME NEW u \in Worker, Carries(wk[u]) PROVE Waiting'
  <2>1. Carries(wk[u])'
      BY <1>2 DEF Carries, Awaited
  <2> QED BY <2>1 DEF Waiting
<1>3. ASSUME NEW u \in Worker, Reports(srv[u]) PROVE Waiting'
  <2>1. Reports(srv[u])'
    <3>1. CASE u = w
        BY <1>3, <3>1
    <3>2. CASE u # w
        BY <1>3, <3>2 DEF Reports, Awaited, OnlyReport
    <3> QED BY <3>1, <3>2
  <2> QED BY <2>1 DEF Waiting
<1> QED BY <1>1, <1>2, <1>3 DEF Waiting

\* What holds around a report.
LEMMA AroundReport ==
    ASSUME IInv, NEW w \in Worker
    PROVE  /\ Stored(run) /\ run.start \in Step /\ log \in Seq(Step) /\ msgs \in 0 .. MaxMsgs
           /\ queue \subseteq Command /\ sent \in Nat /\ lock \in Worker \cup {"advance", Nil}
           /\ faults \subseteq Faults /\ undone \subseteq Step /\ blamed \subseteq Step
           /\ srv[w] \in ReportType /\ DOMAIN srv = Worker
           /\ srv[w].pc # "idle" => srv[w].cmd \in Command /\ srv[w].cmd.step \in Step
           /\ LockOK /\ AdvanceOK /\ PausedOK /\ ReportOK(w) /\ FailedOK /\ Answerable
<1>1. srv[w].pc # "idle" => srv[w].cmd \in Command
    BY WorkerOf DEF CarriedOK
<1>2. srv[w].pc # "idle" => srv[w].cmd.step \in Step
    BY <1>1 DEF Command
<1> QED BY <1>1, <1>2, WorkerOf DEF IInv, TypeOK

\* A step on the run's step and attempt disturbs no advance.
LEMMA AdvanceUndisturbed ==
    ASSUME AdvanceOK, UNCHANGED adv, run'.step = run.step, run'.attempt = run.attempt
    PROVE  AdvanceOK'
BY DEF AdvanceOK

LEMMA PausedAsBefore ==
    ASSUME PausedOK, run'.state = "paused" => run' = run
    PROVE  PausedOK'
BY DEF PausedOK

LEMMA CheckPreserves ==
    ASSUME IInv, NEW w \in Worker, Check(w)
    PROVE  IInv'
<1> DEFINE q == srv[w]
           x == [q EXCEPT !.pc = "write"]
           y == IF CheckStep(run, q.cmd) THEN x ELSE NoReport
<1>1. /\ q.pc = "check" /\ srv' = [srv EXCEPT ![w] = y]
      /\ UNCHANGED <<run, log, adv, msgs, lock, queue, sent, wk, cache, undone, blamed, faults>>
  <2>1. /\ q.pc = "check"
        /\ UNCHANGED <<run, log, adv, msgs, lock, queue, sent, wk, cache, undone, blamed, faults>>
      BY DEF Check, advVars, wkVars
  <2>2. srv' = [srv EXCEPT ![w] = y]
      BY Zenon DEF Check
  <2> QED BY <2>1, <2>2
<1>2. /\ Stored(run) /\ run.start \in Step /\ log \in Seq(Step) /\ msgs \in 0 .. MaxMsgs
      /\ queue \subseteq Command /\ sent \in Nat /\ lock \in Worker \cup {"advance", Nil}
      /\ faults \subseteq Faults /\ undone \subseteq Step /\ blamed \subseteq Step
      /\ q \in ReportType /\ LockOK /\ AdvanceOK /\ PausedOK /\ FailedOK /\ Answerable
    BY AroundReport
<1> HIDE DEF q
<1>3. x \in ReportType /\ x.pc = "write" /\ x.cmd = q.cmd
    BY <1>2, Zenon DEF ReportType
<1> HIDE DEF x
<1>4. /\ y \in ReportType
      /\ CheckStep(run, q.cmd) => y.pc = "write" /\ y.cmd = q.cmd
      /\ ~CheckStep(run, q.cmd) => y.pc = "idle"
    BY <1>3, NoReportType
<1> HIDE DEF y
<1>5. OnlyReport(w) /\ srv'[w] = y
    BY <1>1, <1>4, OnlyReportAt
<1>6. y.pc \in {"idle", "write"}
    BY <1>4
<1>7. LockOK'
    BY <1>1, <1>2, <1>5, <1>6 DEF LockOK, OnlyReport, q
<1>8. AdvanceOK' /\ PausedOK'
    BY <1>1, <1>2, AdvanceUndisturbed, PausedAsBefore
<1>9. ReportOK(w)'
    BY <1>5, <1>6 DEF ReportOK
<1>10. FailedOK'
  <2>1. (\A u \in Worker : srv'[u].pc # "rollback") => \A u \in Worker : srv[u].pc # "rollback"
      BY <1>1, <1>5 DEF OnlyReport, q
  <2> QED BY <1>1, <1>2, <2>1 DEF FailedOK, ReportLost, Undone
<1>11. Answerable'
  <2>1. CASE run.state = "paused" /\ Waiting
    <3>1. CASE CheckStep(run, q.cmd)
      <4>1. Reports(srv[w]) => Reports(srv[w])'
          BY <1>1, <1>4, <1>5, <3>1 DEF Reports, Awaited, q
      <4>2. Waiting'
          BY <1>1, <1>5, <2>1, <4>1, OthersWait
      <4> QED BY <4>2 DEF Answerable
    <3>2. CASE ~Reports(srv[w])
      <4>1. Waiting'
          BY <1>1, <1>5, <2>1, <3>2, OthersWait
      <4> QED BY <4>1 DEF Answerable
    <3>3. CASE ~CheckStep(run, q.cmd) /\ Reports(srv[w])
      <4>1. run.action = Nil
          BY <2>1, <3>3 DEF CheckStep, Reports, Awaited, q
      <4>2. run.wakeup = "due"
          BY <1>2, <2>1, <4>1 DEF PausedOK
      <4> QED BY <1>1, <4>2 DEF Answerable
    <3> QED BY <3>1, <3>2, <3>3
  <2>2. CASE ~(run.state = "paused" /\ Waiting)
      BY <1>1, <1>2, <2>2 DEF Answerable, ReportLost
  <2> QED BY <2>1, <2>2
<1>12. srv'[w].pc # "idle" => srv[w].pc # "idle" /\ srv'[w].cmd = srv[w].cmd
    BY <1>1, <1>4, <1>5 DEF q
<1> QED BY <1>1, <1>2, <1>5, <1>7, <1>8, <1>9, <1>10, <1>11, <1>12, ServeStep

LEMMA WritePreserves ==
    ASSUME IInv, NEW w \in Worker, Write(w)
    PROVE  IInv'
<1> DEFINE q == srv[w]
           k == q.cmd.attempt
           v == IF q.ok THEN "publish" ELSE "rollback"
           x == [q EXCEPT !.pc = v]
<1>1. /\ q.pc = "write"
      /\ UNCHANGED <<log, adv, msgs, lock, queue, sent, wk, cache, undone, faults>>
      /\ IF q.ok THEN run' = CompleteAction(run, k) /\ blamed' = blamed
         ELSE run' = FailAction(run, k) /\ blamed' = blamed \cup {q.cmd.step}
    BY DEF Write, advVars, wkVars
<1>2. srv' = [srv EXCEPT ![w] = x]
  <2>1. CASE q.ok
    <3>1. v = "publish"
        BY <2>1
    <3> QED BY <2>1, <3>1, Zenon DEF Write
  <2>2. CASE ~q.ok
    <3>1. v = "rollback"
        BY <2>2
    <3> QED BY <2>2, <3>1, Zenon DEF Write
  <2> QED BY <2>1, <2>2
<1>3. /\ Stored(run) /\ run.start \in Step /\ log \in Seq(Step) /\ msgs \in 0 .. MaxMsgs
      /\ queue \subseteq Command /\ sent \in Nat /\ lock \in Worker \cup {"advance", Nil}
      /\ faults \subseteq Faults /\ undone \subseteq Step /\ blamed \subseteq Step
      /\ q \in ReportType /\ DOMAIN srv = Worker
      /\ q.pc # "idle" => q.cmd \in Command /\ q.cmd.step \in Step
      /\ LockOK /\ AdvanceOK /\ PausedOK /\ ReportOK(w) /\ FailedOK /\ Answerable
    BY AroundReport
<1> HIDE DEF q, k
<1>4. v \in {"publish", "rollback"} /\ (q.ok <=> v = "publish")
    OBVIOUS
<1> HIDE DEF v
<1>5. x \in ReportType /\ x.pc = v /\ x.cmd = q.cmd
    BY <1>3, <1>4, Zenon DEF ReportType
<1> HIDE DEF x
<1>6. OnlyReport(w) /\ srv'[w] = x
    BY <1>2, <1>5, OnlyReportAt
<1>7. /\ Stored(run') /\ run'.start = run.start /\ run'.step = run.step /\ run'.attempt = run.attempt
      /\ q.ok => /\ run'.state = run.state /\ (run' = run \/ run'.wakeup = "due")
                 /\ k = run.attempt => run'.wakeup = "due"
      /\ ~q.ok => IF k = run.attempt THEN run'.state = "failed" ELSE run' = run
    BY <1>1, <1>3, Reported
<1>8. LockOK'
    BY <1>1, <1>3, <1>4, <1>5, <1>6 DEF LockOK, OnlyReport, q
<1>9. AdvanceOK'
    BY <1>1, <1>3, <1>7, AdvanceUndisturbed
<1>10. PausedOK'
    BY <1>3, <1>7 DEF PausedOK
<1>11. blamed \subseteq blamed' /\ blamed' \subseteq Step /\ (~q.ok => q.cmd.step \in blamed')
    BY <1>1, <1>3
<1>12. ReportOK(w)'
    BY <1>4, <1>5, <1>6, <1>11 DEF ReportOK
<1>13. FailedOK'
  <2>1. CASE q.ok
    <3>1. (\A u \in Worker : srv'[u].pc # "rollback") => \A u \in Worker : srv[u].pc # "rollback"
        BY <1>1, <1>6 DEF OnlyReport, q
    <3> QED BY <1>1, <1>3, <1>7, <2>1, <3>1 DEF FailedOK, ReportLost, Undone
  <2>2. CASE ~q.ok
    <3>1. srv'[w].pc = "rollback"
        BY <1>4, <1>5, <1>6, <2>2
    <3> QED BY <3>1 DEF FailedOK
  <2> QED BY <2>1, <2>2
<1>14. Answerable'
  <2>1. CASE run' = run /\ k # run.attempt
    <3>1. ~Reports(srv[w])
        BY <2>1 DEF Reports, Awaited, k, q
    <3>2. Waiting => Waiting'
        BY <1>1, <1>6, <1>7, <3>1, OthersWait
    <3> QED BY <1>1, <1>3, <2>1, <3>2 DEF Answerable, ReportLost
  <2>2. CASE run'.wakeup = "due" \/ run'.state = "failed"
      BY <2>2 DEF Answerable
  <2> QED BY <1>7, <2>1, <2>2
<1>15. srv'[w].pc # "idle" => srv[w].pc # "idle" /\ srv'[w].cmd = srv[w].cmd
    BY <1>1, <1>5, <1>6 DEF q
<1> QED BY <1>1, <1>3, <1>6, <1>7, <1>8, <1>9, <1>10, <1>11, <1>12, <1>13, <1>14, <1>15, ServeStep

LEMMA PublishAdvancePreserves ==
    ASSUME IInv, NEW w \in Worker, PublishAdvance(w)
    PROVE  IInv'
<1> DEFINE q == srv[w]
<1>1. /\ q.pc = "publish" /\ srv' = [srv EXCEPT ![w] = NoReport]
      /\ UNCHANGED <<run, log, adv, lock, queue, sent, wk, cache, undone, blamed>>
      /\ \/ msgs < MaxMsgs /\ msgs' = msgs + 1 /\ faults' = faults
         \/ Happens("publish") /\ msgs' = msgs
    BY DEF PublishAdvance, advVars, wkVars
<1>2. /\ Stored(run) /\ run.start \in Step /\ log \in Seq(Step) /\ msgs \in 0 .. MaxMsgs
      /\ queue \subseteq Command /\ sent \in Nat /\ lock \in Worker \cup {"advance", Nil}
      /\ faults \subseteq Faults /\ undone \subseteq Step /\ blamed \subseteq Step
      /\ q \in ReportType /\ DOMAIN srv = Worker
      /\ q.pc # "idle" => q.cmd \in Command /\ q.cmd.step \in Step
      /\ LockOK /\ AdvanceOK /\ PausedOK /\ ReportOK(w) /\ FailedOK /\ Answerable
    BY AroundReport
<1> HIDE DEF q
<1>3. OnlyReport(w) /\ srv'[w] = NoReport /\ NoReport.pc = "idle"
    BY <1>1, NoReportType, OnlyReportAt
<1>4. LockOK'
    BY <1>1, <1>2, <1>3 DEF LockOK, OnlyReport, q
<1>5. AdvanceOK' /\ PausedOK'
    BY <1>1, <1>2, AdvanceUndisturbed, PausedAsBefore
<1>6. ReportOK(w)'
    BY <1>3 DEF ReportOK
<1>7. faults \subseteq faults' /\ faults' \subseteq Faults /\ msgs' \in 0 .. MaxMsgs
    BY <1>1, <1>2, WorkerAssumption DEF Happens
<1>8. FailedOK'
  <2>1. (\A u \in Worker : srv'[u].pc # "rollback") => \A u \in Worker : srv[u].pc # "rollback"
      BY <1>1, <1>3 DEF OnlyReport, q
  <2>2. ReportLost => ReportLost'
      BY <1>7 DEF ReportLost
  <2> QED BY <1>1, <1>2, <2>1, <2>2 DEF FailedOK, Undone
<1>9. Answerable'
  <2>1. ~Reports(srv[w])
      BY <1>1 DEF Reports, q
  <2>2. Waiting => Waiting'
      BY <1>1, <1>3, <2>1, OthersWait
  <2> QED BY <1>1, <1>2, <1>7, <2>2 DEF Answerable, ReportLost
<1> QED BY <1>1, <1>2, <1>3, <1>4, <1>5, <1>6, <1>7, <1>8, <1>9, ServeStep

LEMMA RollbackPreserves ==
    ASSUME IInv, NEW w \in Worker, Rollback(w)
    PROVE  IInv'
<1> DEFINE q == srv[w]
           C == Completed(q.cmd.step)
           v == IF C = {} THEN "settle" ELSE "undo"
           x == [q EXCEPT !.pc = v, !.was = (run.state = "failed"), !.at = run.step]
<1>1. /\ q.pc = "rollback" /\ lock = Nil
      /\ UNCHANGED <<log, adv, msgs, queue, sent, wk, cache, undone, blamed, faults>>
    BY DEF Rollback, advVars, wkVars
<1>2. /\ Stored(run) /\ run.start \in Step /\ log \in Seq(Step) /\ msgs \in 0 .. MaxMsgs
      /\ queue \subseteq Command /\ sent \in Nat /\ lock \in Worker \cup {"advance", Nil}
      /\ faults \subseteq Faults /\ undone \subseteq Step /\ blamed \subseteq Step
      /\ q \in ReportType /\ DOMAIN srv = Worker
      /\ q.pc # "idle" => q.cmd \in Command /\ q.cmd.step \in Step
      /\ LockOK /\ AdvanceOK /\ PausedOK /\ ReportOK(w) /\ FailedOK /\ Answerable
    BY AroundReport
<1>3. adv.pc = "idle" /\ AdvanceOK'
    BY <1>1, <1>2, WorkerAssumption DEF LockOK, AdvanceOK
<1>4. CASE /\ run.state \in {"succeeded", "cancelled"} /\ srv' = [srv EXCEPT ![w] = NoReport]
           /\ run' = run /\ lock' = lock
  <2> HIDE DEF q
  <2>1. OnlyReport(w) /\ srv'[w] = NoReport /\ NoReport.pc = "idle"
      BY <1>4, NoReportType, OnlyReportAt
  <2>2. LockOK'
      BY <1>1, <1>2, <1>4, <2>1 DEF LockOK, OnlyReport, q
  <2>3. PausedOK' /\ FailedOK' /\ Answerable'
      BY <1>4 DEF PausedOK, FailedOK, Answerable
  <2>4. ReportOK(w)'
      BY <2>1 DEF ReportOK
  <2> QED BY <1>1, <1>2, <1>3, <1>4, <2>1, <2>2, <2>3, <2>4, ServeStep
<1>5. CASE /\ lock' = w
           /\ run' = IF C = {} THEN run ELSE UpdateRunState(run, "compensating", run.step)
           /\ srv' = [srv EXCEPT ![w] = x]
  <2>1. run.step \in Step \cup {Nil} /\ (run.state = "failed") \in BOOLEAN
      BY <1>2 DEF Stored, RunRecord
  <2>2. /\ Stored(run') /\ run'.start = run.start
        /\ run' = run \/ run'.state = "compensating"
      BY <1>2, <1>5, <2>1, Updated DEF RunState
  <2>3. C = {} => \A i \in DOMAIN log : log[i] = q.cmd.step
      BY DEF Completed
  <2> HIDE DEF q, C
  <2>4. v \in {"undo", "settle"} /\ (v = "settle" <=> C = {})
      OBVIOUS
  <2> HIDE DEF v
  <2>5. x \in ReportType /\ x.pc = v /\ x.cmd = q.cmd
      BY <1>2, <2>1, <2>4, Zenon DEF ReportType
  <2> HIDE DEF x
  <2>6. OnlyReport(w) /\ srv'[w] = x
      BY <1>5, <2>5, OnlyReportAt
  <2>7. LockOK'
    <3>1. lock' # "advance" /\ adv'.pc = "idle"
        BY <1>1, <1>3, <1>5, WorkerAssumption
    <3>2. \A u \in Worker : u # w => srv'[u].pc \notin {"undo", "settle"} /\ lock' # u
        BY <1>1, <1>2, <1>5, <2>6, WorkerAssumption DEF LockOK, OnlyReport
    <3> QED BY <1>5, <2>4, <2>5, <2>6, <3>1, <3>2 DEF LockOK
  <2>8. PausedOK'
      BY <1>2, <2>2, PausedAsBefore
  <2>9. ReportOK(w)'
    <3>1. q.cmd.step \in blamed
        BY <1>1, <1>2 DEF ReportOK, q
    <3>2. srv'[w].pc = "settle" => Undone({srv[w].cmd.step})'
        BY <1>1, <2>3, <2>4, <2>5, <2>6 DEF Undone
    <3> QED BY <1>1, <2>5, <2>6, <3>1, <3>2 DEF ReportOK
  <2>10. FailedOK'
      BY <1>5, WorkerAssumption DEF FailedOK
  <2>11. Answerable'
    <3>1. ~Reports(srv[w])
        BY <1>1 DEF Reports, q
    <3>2. run' = run /\ Waiting => Waiting'
        BY <1>1, <2>6, <3>1, OthersWait
    <3> QED BY <1>1, <1>2, <2>2, <3>2 DEF Answerable, ReportLost
  <2>12. srv'[w].pc # "idle" => srv[w].pc # "idle" /\ srv'[w].cmd = srv[w].cmd
      BY <1>1, <2>5, <2>6 DEF q
  <2> QED BY <1>1, <1>2, <1>3, <1>5, <2>2, <2>6, <2>7, <2>8, <2>9, <2>10, <2>11, <2>12, ServeStep
<1>6. \/ /\ run.state \in {"succeeded", "cancelled"} /\ srv' = [srv EXCEPT ![w] = NoReport]
         /\ run' = run /\ lock' = lock
      \/ /\ lock' = w
         /\ run' = IF C = {} THEN run ELSE UpdateRunState(run, "compensating", run.step)
         /\ srv' = [srv EXCEPT ![w] = x]
  <2>1. CASE run.state \in {"succeeded", "cancelled"}
      BY <2>1 DEF Rollback
  <2>2. CASE run.state \notin {"succeeded", "cancelled"}
    <3>1. /\ lock' = w
          /\ run' = IF C = {} THEN run ELSE UpdateRunState(run, "compensating", run.step)
        BY <2>2 DEF Rollback
    <3>2. srv' = [srv EXCEPT ![w].pc = v, ![w].was = (run.state = "failed"), ![w].at = run.step]
        BY <2>2 DEF Rollback
    <3>3. srv' = [srv EXCEPT ![w] = x]
        BY <3>2, Zenon
    <3> QED BY <3>1, <3>3
  <2> QED BY <2>1, <2>2
<1> QED BY <1>4, <1>5, <1>6

LEMMA DispatchCompensationsPreserves ==
    ASSUME IInv, NEW w \in Worker, DispatchCompensations(w)
    PROVE  IInv'
<1> DEFINE q == srv[w]
           steps == {s \in Completed(q.cmd.step) : Def[s].comp}
           Q == {[step |-> s, attempt |-> 0, n |-> sent] : s \in steps}
           x == [q EXCEPT !.pc = "settle"]
<1>1. /\ q.pc = "undo" /\ queue' = queue \cup Q /\ sent' = sent + 1 /\ undone' = undone \cup steps
      /\ UNCHANGED <<run, log, adv, msgs, lock, wk, cache, blamed, faults>>
    BY DEF DispatchCompensations, advVars
<1>2. srv' = [srv EXCEPT ![w] = x]
    BY Zenon DEF DispatchCompensations
<1>3. /\ Stored(run) /\ run.start \in Step /\ log \in Seq(Step) /\ msgs \in 0 .. MaxMsgs
      /\ queue \subseteq Command /\ sent \in Nat /\ lock \in Worker \cup {"advance", Nil}
      /\ faults \subseteq Faults /\ undone \subseteq Step /\ blamed \subseteq Step
      /\ q \in ReportType /\ DOMAIN srv = Worker
      /\ q.pc # "idle" => q.cmd \in Command /\ q.cmd.step \in Step
      /\ LockOK /\ AdvanceOK /\ PausedOK /\ ReportOK(w) /\ FailedOK /\ Answerable
    BY AroundReport
<1>4. /\ steps \subseteq Step
      /\ \A i \in DOMAIN log : Def[log[i]].comp => log[i] \in steps \cup {q.cmd.step}
    BY <1>3 DEF Completed
<1> HIDE DEF q, steps
<1>5. queue' \subseteq Command /\ queue \subseteq queue' /\ sent' \in Nat
  <2>1. ASSUME NEW c \in Q PROVE c \in Command
    <3>1. PICK s \in steps : c = [step |-> s, attempt |-> 0, n |-> sent]
        BY <2>1
    <3> QED BY <1>3, <1>4, <3>1 DEF Command
  <2> HIDE DEF Q
  <2> QED BY <1>1, <1>3, <2>1
<1> HIDE DEF Q
<1>6. x \in ReportType /\ x.pc = "settle" /\ x.cmd = q.cmd
    BY <1>3, Zenon DEF ReportType
<1> HIDE DEF x
<1>7. OnlyReport(w) /\ srv'[w] = x
    BY <1>2, <1>6, OnlyReportAt
<1>8. LockOK'
    BY <1>1, <1>3, <1>6, <1>7 DEF LockOK, OnlyReport, q
<1>9. AdvanceOK' /\ PausedOK'
    BY <1>1, <1>3, AdvanceUndisturbed, PausedAsBefore
<1>10. ReportOK(w)'
  <2>1. q.cmd.step \in blamed
      BY <1>1, <1>3 DEF ReportOK, q
  <2>2. Undone({srv[w].cmd.step})'
      BY <1>1, <1>4, <1>6, <1>7 DEF Undone
  <2> QED BY <1>1, <1>6, <1>7, <2>1, <2>2 DEF ReportOK
<1>11. FailedOK'
  <2>1. lock = w
      BY <1>1, <1>3 DEF LockOK, q
  <2> QED BY <1>1, <2>1, WorkerAssumption DEF FailedOK
<1>12. Answerable'
  <2>1. ~Reports(srv[w])
      BY <1>1 DEF Reports, q
  <2>2. Waiting => Waiting'
      BY <1>1, <1>5, <1>7, <2>1, OthersWait
  <2> QED BY <1>1, <1>3, <2>2 DEF Answerable, ReportLost
<1>13. srv'[w].pc # "idle" => srv[w].pc # "idle" /\ srv'[w].cmd = srv[w].cmd
    BY <1>1, <1>6, <1>7 DEF q
<1>14. undone \subseteq undone' /\ undone' \subseteq Step
    BY <1>1, <1>3, <1>4
<1> QED BY <1>1, <1>3, <1>5, <1>7, <1>8, <1>9, <1>10, <1>11, <1>12, <1>13, <1>14, ServeStep

LEMMA SettlePreserves ==
    ASSUME IInv, NEW w \in Worker, Settle(w)
    PROVE  IInv'
<1> DEFINE q == srv[w]
<1>1. /\ q.pc = "settle" /\ lock' = Nil /\ srv' = [srv EXCEPT ![w] = NoReport]
      /\ run' = IF ~q.was THEN MarkRunFailed(run, q.cmd.step)
                ELSE IF run.state = "compensating" THEN UpdateRunState(run, "failed", q.at)
                ELSE run
      /\ UNCHANGED <<log, adv, msgs, queue, sent, wk, cache, undone, blamed, faults>>
    BY DEF Settle, advVars, wkVars
<1>2. /\ Stored(run) /\ run.start \in Step /\ log \in Seq(Step) /\ msgs \in 0 .. MaxMsgs
      /\ queue \subseteq Command /\ sent \in Nat /\ lock \in Worker \cup {"advance", Nil}
      /\ faults \subseteq Faults /\ undone \subseteq Step /\ blamed \subseteq Step
      /\ q \in ReportType /\ DOMAIN srv = Worker
      /\ q.pc # "idle" => q.cmd \in Command /\ q.cmd.step \in Step
      /\ LockOK /\ AdvanceOK /\ PausedOK /\ ReportOK(w) /\ FailedOK /\ Answerable
    BY AroundReport
<1>3. lock = w /\ adv.pc = "idle"
    BY <1>1, <1>2, WorkerAssumption DEF LockOK
<1> HIDE DEF q
<1>4. Stored(run') /\ run'.start = run.start /\ (run' = run \/ run'.state # "paused")
  <2>1. CASE ~q.was
      BY <1>1, <1>2, <2>1, Failed
  <2>2. CASE q.was /\ run.state = "compensating"
    <3>1. q.at \in Step \cup {Nil}
        BY <1>2, Zenon DEF ReportType
    <3>2. run' = UpdateRunState(run, "failed", q.at) /\ "failed" \in RunState \ {"absent"}
        BY <1>1, <2>2 DEF RunState
    <3>3. Stored(run') /\ run'.start = run.start /\ run'.state = "failed"
        BY <1>2, <3>1, <3>2, Updated
    <3> QED BY <3>3
  <2>3. CASE q.was /\ run.state # "compensating"
      BY <1>1, <1>2, <2>3
  <2> QED BY <2>1, <2>2, <2>3
<1>5. OnlyReport(w) /\ srv'[w] = NoReport /\ NoReport.pc = "idle"
    BY <1>1, NoReportType, OnlyReportAt
<1>6. LockOK'
  <2>1. \A u \in Worker : srv'[u].pc \notin {"undo", "settle"} /\ lock' # u
      BY <1>1, <1>2, <1>3, <1>5, WorkerAssumption DEF LockOK, OnlyReport
  <2> QED BY <1>1, <1>3, <2>1, WorkerAssumption DEF LockOK
<1>7. AdvanceOK' /\ PausedOK'
    BY <1>1, <1>2, <1>3, <1>4, PausedAsBefore DEF AdvanceOK
<1>8. ReportOK(w)'
    BY <1>5 DEF ReportOK
<1>9. FailedOK'
  <2>1. q.cmd.step \in blamed /\ Undone({q.cmd.step})
      BY <1>1, <1>2 DEF ReportOK, q
  <2>2. Undone(blamed)'
      BY <1>1, <2>1 DEF Undone
  <2> QED BY <2>2 DEF FailedOK
<1>10. Answerable'
  <2>1. ~Reports(srv[w])
      BY <1>1 DEF Reports, q
  <2>2. run' = run /\ Waiting => Waiting'
      BY <1>1, <1>5, <2>1, OthersWait
  <2> QED BY <1>1, <1>2, <1>4, <2>2 DEF Answerable, ReportLost
<1> QED BY <1>1, <1>2, <1>4, <1>5, <1>6, <1>7, <1>8, <1>9, <1>10, ServeStep

-----------------------------------------------------------------------------
(***************************************************************************)
(* The results.                                                            *)
(***************************************************************************)
LEMMA InitIInv == Init => IInv
<1> SUFFICES ASSUME Init PROVE IInv
    OBVIOUS
<1>1. Stored(run) /\ run.start \in Step /\ run.state = "pending"
    BY NewRunStored, WorkerAssumption DEF Init
<1>2. /\ wk \in [Worker -> DeliveryType] /\ srv \in [Worker -> ReportType]
      /\ \A w \in Worker : /\ wk[w].pc = "idle" /\ wk[w].held = FALSE
                           /\ srv[w].pc = "idle"
    BY NoDeliveryType, NoReportType DEF Init
<1>3. adv \in AdvanceType /\ adv.pc = "idle"
    BY DEF Init, NoAdvance, AdvanceType
<1>4. TypeOK
    BY <1>1, <1>2, <1>3, WorkerAssumption DEF Init, TypeOK, Stored, AdvanceType
<1>5. LockOK
    BY <1>2, <1>3, WorkerAssumption DEF Init, LockOK
<1>6. AdvanceOK /\ PausedOK /\ FailedOK /\ Answerable
    BY <1>1, <1>3 DEF AdvanceOK, PausedOK, FailedOK, Answerable
<1>7. \A w \in Worker : CarriedOK(w) /\ ReportOK(w)
    BY <1>2 DEF CarriedOK, ReportOK
<1> QED BY <1>1, <1>4, <1>5, <1>6, <1>7 DEF IInv

LEMMA NextIInv == IInv /\ [Next]_vars => IInv'
<1> SUFFICES ASSUME IInv, [Next]_vars PROVE IInv'
    OBVIOUS
<1>1. CASE UNCHANGED vars
  <2>1. msgs' \in 0 .. MaxMsgs
      BY <1>1 DEF vars, IInv, TypeOK
  <2> QED BY <1>1, <2>1, OnlyMessages DEF vars
<1>2. CASE Advance
    BY <1>2, TakeAdvancePreserves, LoadRunPreserves, ClearPreserves, SetNextPreserves,
       DispatchPreserves, MarkPreserves, PublishCommandPreserves DEF Advance
<1>3. CASE TimerPoll
  <2>1. msgs' \in 0 .. MaxMsgs
      BY <1>3, WorkerAssumption DEF TimerPoll, IInv, TypeOK
  <2> QED BY <1>3, <2>1, OnlyMessages DEF TimerPoll, advVars, wkVars, srvVars
<1>4. ASSUME NEW w \in Worker, Work(w) PROVE IInv'
    BY <1>4, ReceivePreserves, StartJobPreserves, WorkPreserves, SendPreserves, AckPreserves DEF Work
<1>5. ASSUME NEW w \in Worker, Serve(w) PROVE IInv'
    BY <1>5, CheckPreserves, WritePreserves, PublishAdvancePreserves, RollbackPreserves,
       DispatchCompensationsPreserves, SettlePreserves DEF Serve
<1> QED BY <1>1, <1>2, <1>3, <1>4, <1>5, LoseChannelPreserves, CrashPreserves DEF Next

LEMMA Invariance == Spec => []IInv
BY InitIInv, NextIInv, PTL DEF Spec

\* Whatever is delivered twice, lost or reported late, every variable keeps its type.
THEOREM TypeCorrect == Spec => []TypeOK
<1>1. IInv => TypeOK
    BY DEF IInv
<1> QED BY <1>1, Invariance, PTL

\* For any number of workers: as long as no report is lost, a run paused on an action
\* has a command, a worker, a report or a wakeup that will answer it (ActionVerb,
\* driveStream, CompleteStep).
THEOREM NobodyWaitsForNothing == Spec => []AnswerPending
<1>1. IInv => AnswerPending
    BY DEF IInv, Answerable, Waiting, Carries, Reports, AnswerPending
<1> QED BY <1>1, Invariance, PTL

\* For any workflow of actions: once nobody is rolling a failed run back, every completed
\* step that can be undone was, except those reported as failed (CompensateFailedStep).
THEOREM FailedIsRolledBack == Spec => []RolledBack
<1>1. IInv => RolledBack
    BY DEF IInv, FailedOK, Undone, RolledBack
<1> QED BY <1>1, Invariance, PTL
=============================================================================
