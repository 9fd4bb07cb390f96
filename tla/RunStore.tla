------------------------------ MODULE RunStore ------------------------------
(***************************************************************************)
(* What the store promises for a run (store/store.go, and the contract     *)
(* store/storetest checks one call at a time): concurrent calls take       *)
(* effect one after the other, each exactly once between its call and its  *)
(* return and in the way of the memory store, or not at all when it        *)
(* returns an error.                                                       *)
(***************************************************************************)
EXTENDS SagaStore

CONSTANTS Client

VARIABLES
    run, written,   \* the run, and which of its variables were written
    call            \* call[c]: the call of client c, and whether it has taken effect

vars == <<run, written, call>>

Kind == {"state", "failed", "cancel", "vars", "wait", "signal", "event", "clear", "wake",
         "consume", "push", "pop", "mark", "complete", "fail"}

\* A call and its arguments; the ones its kind does not take are Nil, FALSE or 0.
Op == [kind : Kind, step : Step \cup {Nil}, state : RunState \cup {Nil},
       name : Name \cup {Nil}, deadline : BOOLEAN, attempt : Nat]

NoCall == [op |-> Nil, done |-> FALSE]

\* The runs that call op may make of r.  Postgres clears wakeup_at on a signal wait
\* without a deadline, and does not mark an attempt that was already completed.
Results(op, r) ==
    CASE op.kind = "state"    -> {UpdateRunState(r, op.state, op.step)}
      [] op.kind = "failed"   -> {MarkRunFailed(r, op.step)}
      [] op.kind = "cancel"   -> {Cancel(r)}
      [] op.kind = "vars"     -> {r}
      [] op.kind = "wait"     -> {SetPausedWithWakeup(r)}
      [] op.kind = "signal"   ->
           {SetPausedAwaitingSignal(r, op.name, op.deadline)} \cup
           (IF op.deadline THEN {}
            ELSE {[SetPausedAwaitingSignal(r, op.name, FALSE) EXCEPT !.wakeup = "none"]})
      [] op.kind = "event"    -> {SetPausedAwaitingEvent(r, op.name, op.deadline)}
      [] op.kind = "clear"    -> {ClearPause(r)}
      [] op.kind = "wake"     -> {WakeFromExternal(r)}
      [] op.kind = "consume"  -> {IF AwaitsSignal(r, op.name) THEN ConsumeSignal(r) ELSE r}
      [] op.kind = "push"     -> {IF CanPushTryCatch(r) THEN PushTryCatch(r, op.step) ELSE r}
      [] op.kind = "pop"      -> {IF r.frames # <<>> THEN PopTryCatch(r) ELSE r}
      [] op.kind = "mark"     ->
           {MarkAwaitingAction(r, op.step, op.attempt)} \cup
           (IF r.attempt = op.attempt /\ r.action = Nil THEN {r} ELSE {})
      [] op.kind = "complete" -> {CompleteAction(r, op.attempt)}
      [] op.kind = "fail"     -> {FailAction(r, op.attempt)}

Written(op, r, w) ==
    CASE op.kind = "vars"                                -> w \cup {"step"}
      [] op.kind = "complete" /\ r.attempt = op.attempt  -> w \cup {"result"}
      [] OTHER                                           -> w

Init ==
    /\ run \in {NewSagaRun(s) : s \in Step}
    /\ written = {}
    /\ call = [c \in Client |-> NoCall]

\* Some client calls some operation.
Call(c) ==
    /\ call[c] = NoCall
    /\ call'[c] \in [op : Op, done : {FALSE}]
    /\ call' = [call EXCEPT ![c] = call'[c]]
    /\ UNCHANGED <<run, written>>

TakeEffect(c) ==
    /\ call[c].op # Nil /\ ~call[c].done
    /\ call' = [call EXCEPT ![c].done = TRUE]
    /\ run' \in Results(call[c].op, run)
    /\ written' = Written(call[c].op, run, written)

\* With done FALSE this is an error: the call had no effect and never will.
Return(c) ==
    /\ call[c].op # Nil
    /\ call' = [call EXCEPT ![c] = NoCall]
    /\ UNCHANGED <<run, written>>

Tick ==
    /\ run.wakeup = "later"
    /\ run' = [run EXCEPT !.wakeup = "due"]
    /\ UNCHANGED <<written, call>>

Next ==
    \/ \E c \in Client : Call(c) \/ TakeEffect(c) \/ Return(c)
    \/ Tick

Spec == Init /\ [][Next]_vars
=============================================================================
