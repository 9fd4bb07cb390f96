----------------------------- MODULE SagaStore -----------------------------
(***************************************************************************)
(* Runs, workflow definitions and the store operations the coordinator     *)
(* makes on them (domain/run.go, domain/definition.go,                     *)
(* store/memory/store.go; the Postgres and Redis stores implement the same *)
(* operations).  Every store call is atomic, so each is an operator on the *)
(* run record it reads and writes.                                         *)
(*                                                                         *)
(* A time is abstracted to what Advance tells apart: no wakeup_at, a       *)
(* wakeup_at still to come, one that is due.  Variables, inputs, results,  *)
(* reasons and timestamps of events carry no control and are left out.     *)
(***************************************************************************)
EXTENDS Naturals, Sequences, FiniteSets

CONSTANTS
    Run,        \* run ids
    Step,       \* step ids of all workflows
    Name,       \* signal names and event topics
    Def,        \* Def[s]: the definition of step s
    Nil

StepType == {"sync", "wait", "signal", "event", "action", "fork", "spawn",
             "join", "try", "cancel", "end"}

(***************************************************************************)
(* "sync" stands for the verbs that compute and return (script, decision,  *)
(* switch, while, transform, audit, ...): next holds every step their      *)
(* branches may lead to.  "fork" stands for parallel, foreach and          *)
(* sub_saga: kids are the start steps of the children.                     *)
(***************************************************************************)
StepDef ==
    [type     : StepType,
     next     : SUBSET Step,        \* Next, or the targets of Branches
     timeout  : Step \cup {Nil},    \* Branches["timeout"].Next
     deadline : BOOLEAN,            \* a signal or event wait has a timeout
     name     : Name \cup {Nil},    \* the awaited signal or topic
     tries    : Nat \ {0},          \* Retry.MaxAttempts, 1 without a policy
     fails    : BOOLEAN,            \* the verb may return an error
     gated    : BOOLEAN,            \* the licence gate may reject the step
     comp     : BOOLEAN,            \* the step has a Compensation
     kids     : Seq(Step),
     quorum   : Nat,                \* quorum_n; 0 is join_strategy "all"
     streams  : SUBSET Step,        \* join: the steps whose children it watches
     catch    : Step \cup {Nil}]    \* try_catch: the catch step

\* spawn_saga has one child; try_catch names its catch step.
ASSUME DefAssumption ==
    /\ Def \in [Step -> StepDef]
    /\ \A s \in Step : /\ Def[s].type = "spawn" => Len(Def[s].kids) = 1
                       /\ Def[s].type = "try" => Def[s].catch # Nil
ASSUME NilAssumption == Nil \notin Run \cup Step \cup Name

RunState == {"absent", "pending", "running", "paused", "compensating",
             "succeeded", "failed", "cancelled"}

Terminal == {"succeeded", "failed", "cancelled"}

Wakeup == {"none", "later", "due"}

RunRecord ==
    [state   : RunState,
     start   : Step \cup {Nil},     \* the Start of the run's definition
     step    : Step \cup {Nil},     \* CurrentStep
     wakeup  : Wakeup,              \* WakeupAt
     signal  : Name \cup {Nil},     \* AwaitedSignal
     topic   : Name \cup {Nil},     \* AwaitedEventTopic
     action  : Step \cup {Nil},     \* AwaitedActionDispatch
     attempt : Nat,                 \* CurrentAttempt
     frames  : Seq(Step),           \* TryCatchStack, as its catch steps
     parent  : Run \cup {Nil},      \* ParentRunID
     pstep   : Step \cup {Nil}]     \* ParentStepID

IsTerminal(r) == r.state \in Terminal

Absent ==
    [state |-> "absent", start |-> Nil, step |-> Nil, wakeup |-> "none",
     signal |-> Nil, topic |-> Nil, action |-> Nil, attempt |-> 0,
     frames |-> <<>>, parent |-> Nil, pstep |-> Nil]

NewSagaRun(s) == [Absent EXCEPT !.state = "pending", !.start = s]

SpawnChildRun(s, parent, pstep) ==
    [NewSagaRun(s) EXCEPT !.parent = parent, !.pstep = pstep]

-----------------------------------------------------------------------------
\* UpdateRunState writes whatever it is given, over a terminal state too.
UpdateRunState(r, state, step) == [r EXCEPT !.state = state, !.step = step]

MarkRunFailed(r, step) ==
    IF IsTerminal(r) THEN r ELSE [r EXCEPT !.state = "failed", !.step = step]

ClearAwaits(r) == [r EXCEPT !.wakeup = "none", !.signal = Nil, !.topic = Nil]

Cancel(r) ==
    IF IsTerminal(r) THEN r
    ELSE [ClearAwaits(r) EXCEPT !.state = "cancelled", !.action = Nil]

SetPausedWithWakeup(r) == [r EXCEPT !.state = "paused", !.wakeup = "later"]

\* Without a deadline the wakeup_at the run already has stays.
SetPausedAwaitingSignal(r, name, deadline) ==
    [r EXCEPT !.state = "paused", !.signal = name,
              !.wakeup = IF deadline THEN "later" ELSE @]

\* An event wait that forgets its deadline.
ForgottenDeadline(r, name, deadline) ==
    [r EXCEPT !.state = "paused", !.topic = name, !.wakeup = "none"]

SetPausedAwaitingEvent(r, name, deadline) ==
    [r EXCEPT !.state = "paused", !.topic = name,
              !.wakeup = IF deadline THEN "later" ELSE "none"]

\* A ClearPause that leaves the awaited topic.
StickyClearPause(r) == [r EXCEPT !.state = "running", !.signal = Nil, !.wakeup = "none"]

\* A ClearPause that leaves wakeup_at.
LingeringWakeup(r) == [r EXCEPT !.state = "running", !.signal = Nil, !.topic = Nil]

\* The awaited action's marker survives ClearPause.
ClearPause(r) == [ClearAwaits(r) EXCEPT !.state = "running"]

AwaitsSignal(r, name) == r.state = "paused" /\ r.signal = name

AwaitsEvent(r, name) == r.state = "paused" /\ r.topic = name

\* TryConsumeAwaitedSignal on a run that AwaitsSignal; it is a no-op on others.
ConsumeSignal(r) == ClearAwaits(r)

\* A wake that writes the state the run was found in.
RevivingWake(r) == [ClearAwaits(r) EXCEPT !.state = "paused"]

\* Whatever state the run is in, and whatever it now awaits.
WakeFromExternal(r) == ClearAwaits(r)

\* FindRunsByDueWakeup
DueWakeup(r) == r.state = "paused" /\ r.wakeup = "due"

MaxFrames == 3

\* A depth check that is one too late.
LateDepthCheck(r) == Len(r.frames) <= MaxFrames

CanPushTryCatch(r) == Len(r.frames) < MaxFrames

PushTryCatch(r, catch) == [r EXCEPT !.frames = Append(@, catch)]

TopFrame(r) == r.frames[Len(r.frames)]

PopTryCatch(r) == [r EXCEPT !.frames = SubSeq(@, 1, Len(@) - 1)]

\* A no-op when this (attempt, dispatch) pair is the one already recorded.
MarkAwaitingAction(r, step, attempt) ==
    IF r.attempt = attempt /\ r.action = step THEN r
    ELSE [r EXCEPT !.state = "paused", !.action = step, !.attempt = attempt]

CompleteAction(r, attempt) ==
    IF r.attempt # attempt THEN r
    ELSE [r EXCEPT !.action = Nil, !.wakeup = "due"]

FailAction(r, attempt) ==
    IF r.attempt # attempt THEN r
    ELSE [r EXCEPT !.action = Nil, !.state = "failed"]

-----------------------------------------------------------------------------
(***************************************************************************)
(* The decisions Advance makes on the run it has read.                     *)
(***************************************************************************)
WakeupDue(r) == r.wakeup = "due"

PendingAwait(r) == r.signal # Nil \/ r.topic # Nil

\* A run paused with no marker at all counts as woken from outside.
ExternalWake(r) == ~PendingAwait(r) /\ r.wakeup = "none"

TimedOut(r) == WakeupDue(r) /\ PendingAwait(r)

CurrentStep(r) == IF r.step = Nil THEN r.start ELSE r.step

\* ListChildrenByParent(p, s) over the run table rs.
Children(rs, p, s) == {c \in Run : rs[c].parent = p /\ rs[c].pstep = s}

Watched(rs, p, streams) == UNION {Children(rs, p, s) : s \in streams}

\* JoinConditionMetCtx: "all" waits for every child to be terminal, "quorum"
\* for quorum_n successes; an empty group is never met.
JoinConditionMet(rs, group, quorum) ==
    /\ group # {}
    /\ IF quorum = 0 THEN \A c \in group : IsTerminal(rs[c])
       ELSE Cardinality({c \in group : rs[c].state = "succeeded"}) >= quorum

\* The children run r, paused on step s, waits for.
Group(rs, r, s) ==
    IF Def[s].type = "join" THEN Watched(rs, r, Def[s].streams) ELSE Children(rs, r, s)
=============================================================================
