----------------------------- MODULE SagaProofs -----------------------------
(***************************************************************************)
(* Proofs about SagaSystem for every workflow definition and any number of *)
(* runs, goroutines, faults and aborted advances: the state keeps its type *)
(* (BaseInv), and, within one process and while no worker reports an error *)
(* over REST, a run's await markers are those of the step it is paused on  *)
(* (AwaitInv).                                                             *)
(*                                                                         *)
(* Then what an advance may make of its run: runs that have ended stay     *)
(* ended, deadlines belong to waits, steps are dispatched once, waits are  *)
(* honoured, what a failed run had completed is undone newest first. For   *)
(* these the steps of the specification are put into three classes         *)
(* (StepSplit): a step of an advance in the middle of its run              *)
(* (AdvanceStep), the read at the top of its loop (LoadStep), and what is  *)
(* done without the run's lock (AsideStep). Each result has an invariant   *)
(* of its own, shown class by class.                                       *)
(***************************************************************************)
EXTENDS SagaSystem, StoreProofs

-----------------------------------------------------------------------------
(***************************************************************************)
(* A step is taken apart: what it makes of the runs, of the goroutine that *)
(* takes it, and of the rest.                                              *)
(***************************************************************************)
RunsKept ==
    /\ runs' \in [Run -> RunRecord] /\ Known' = Known
    /\ \A r \in Run : Keeps(runs[r], runs'[r])

ThreadOK(x) ==
    /\ x \in ThreadRecord
    /\ x.pc # "idle" => x.run \in Known
    /\ x.pc \notin {"idle", "wait", "load"} => x.snap.start \in Step
    /\ x.snap.parent \in Known \cup {Nil}
    /\ \A i \in DOMAIN x.kids : x.kids[i] \in Known

OnlyThread(t) ==
    /\ th' \in [Thread -> ThreadRecord]
    /\ \A u \in Thread : u # t => th'[u] = th[u]

LogsOK ==
    /\ log' \in [Run -> Seq(Step)]
    /\ started' \in [Run -> [Step -> Nat]]
    /\ undone' \in [Run -> Seq(Step)]
    /\ granted' \in [Run -> BOOLEAN]
    /\ aborts' \in 0 .. MaxAborts

PendingOK ==
    /\ queue' \in [Run -> Nat]
    /\ \A r \in Run : queue'[r] > 0 => r \in Known
    /\ cmds' \subseteq Command /\ \A c \in cmds' : c.run \in Known
    /\ outbox' \subseteq Known
    /\ matched' \subseteq Known

\* The invariant, seen from one goroutine.
LEMMA ThreadsOK ==
    ASSUME BaseInv
    PROVE  \A t \in Thread : ThreadOK(th[t])
BY DEF BaseInv, TypeOK, StartsKnown, ParentsKnown, WorkedOnKnown, HasRead, ThreadOK

\* The invariant, seen from the store.
LEMMA RunsStored ==
    ASSUME BaseInv
    PROVE  \A r \in Run : Stored(runs[r])
BY DEF BaseInv, TypeOK, Stored

LEMMA NilIsNone == Nil \notin Run /\ Nil \notin Step /\ Nil \notin Name
BY NilAssumption

\* A step that keeps the runs and leaves the goroutines in order keeps the invariant.
LEMMA BaseKept ==
    ASSUME BaseInv, RunsKept, LogsOK, PendingOK,
           th' \in [Thread -> ThreadRecord], \A u \in Thread : ThreadOK(th'[u])
    PROVE  BaseInv'
<1>1. Known' = Known /\ Known \subseteq Run
    BY DEF RunsKept, Known
<1>2. TypeOK'
    BY <1>1 DEF RunsKept, Keeps, Stored, LogsOK, PendingOK, TypeOK
<1>3. StartsKnown'
  <2>1. \A r \in Known' : runs'[r].start \in Step
      BY <1>1 DEF RunsKept, Keeps, BaseInv, StartsKnown
  <2> QED BY <2>1 DEF StartsKnown, ThreadOK, HasRead
<1>4. PendingKnown'
    BY <1>1 DEF PendingOK, PendingKnown
<1>5. ParentsKnown'
  <2>1. \A r \in Run : runs'[r].parent \in Known' \cup {Nil}
      BY <1>1 DEF RunsKept, Keeps, BaseInv, ParentsKnown
  <2> QED BY <1>1, <2>1 DEF ParentsKnown, ThreadOK
<1>6. WorkedOnKnown'
    BY <1>1 DEF WorkedOnKnown, ThreadOK
<1> QED BY <1>2, <1>3, <1>4, <1>5, <1>6 DEF BaseInv

-----------------------------------------------------------------------------
(***************************************************************************)
(* How an action changes the runs.                                         *)
(***************************************************************************)
LEMMA RunsSame ==
    ASSUME BaseInv, UNCHANGED runs
    PROVE  RunsKept
BY RunsStored, KeepsItself DEF RunsKept, BaseInv, TypeOK, Known

\* One store call on a run that exists.
LEMMA OneWrite ==
    ASSUME BaseInv, NEW q \in Known, NEW rec, Keeps(runs[q], rec),
           runs' = [runs EXCEPT ![q] = rec]
    PROVE  RunsKept
<1>1. q \in Run /\ runs[q].state # "absent" /\ rec.state # "absent" /\ rec \in RunRecord
    BY DEF Known, Keeps, Stored
<1>2. runs' \in [Run -> RunRecord]
    BY <1>1 DEF BaseInv, TypeOK
<1>3. runs \in [Run -> RunRecord] /\ runs'[q] = rec
      /\ \A r \in Run : r # q => runs'[r] = runs[r]
    BY <1>1 DEF BaseInv, TypeOK
<1>4. \A r \in Run : Keeps(runs[r], runs'[r])
    BY <1>3, RunsStored, KeepsItself
<1>5. Known' = Known
    BY <1>1, <1>3 DEF Known
<1> QED BY <1>2, <1>4, <1>5 DEF RunsKept

\* A goroutine's write to its own run.
LEMMA OwnWrite ==
    ASSUME BaseInv, NEW t \in Thread, th[t].pc # "idle",
           NEW rec, Keeps(Self(t), rec), Write(t, rec)
    PROVE  RunsKept
<1>1. th[t].run \in Known
    BY DEF BaseInv, WorkedOnKnown
<1> QED BY <1>1, OneWrite DEF Write, Self

\* The run a goroutine works on, the snapshot it took and the step it is at.
LEMMA Working ==
    ASSUME BaseInv, NEW t \in Thread, th[t].pc # "idle"
    PROVE  /\ th[t] \in ThreadRecord
           /\ th[t].run \in Run /\ th[t].run \in Known
           /\ Self(t) \in RunRecord /\ Stored(Self(t))
           /\ HasRead(t) => /\ StepOf(t) \in Step
                            /\ DefOf(t) \in StepDef
<1>1. ThreadOK(th[t])
    BY ThreadsOK
<1>2. th[t].run \in Known /\ th[t].run \in Run
    BY <1>1 DEF ThreadOK, Known
<1>3. Self(t) \in RunRecord /\ Stored(Self(t))
    BY <1>2, RunsStored DEF Self, Stored
<1>4. ASSUME HasRead(t) PROVE StepOf(t) \in Step
  <2>1. th[t].snap \in RunRecord /\ th[t].snap.start \in Step
      BY <1>1, <1>4 DEF ThreadOK, ThreadRecord, HasRead
  <2>2. th[t].snap.step \in Step \cup {Nil}
      BY <2>1 DEF RunRecord
  <2> QED BY <2>1, <2>2 DEF StepOf, CurrentStep
<1>5. ASSUME HasRead(t) PROVE DefOf(t) \in StepDef
    BY <1>4, <1>5, DefAssumption DEF DefOf
<1> QED BY <1>1, <1>2, <1>3, <1>4, <1>5 DEF ThreadOK

-----------------------------------------------------------------------------
(***************************************************************************)
(* How an action changes the goroutine that takes it, and the rest.        *)
(***************************************************************************)
LEMMA ThreadSet ==
    ASSUME BaseInv, NEW t \in Thread, NEW x, ThreadOK(x), th' = [th EXCEPT ![t] = x]
    PROVE  OnlyThread(t) /\ ThreadOK(th'[t])
<1>1. th \in [Thread -> ThreadRecord] /\ x \in ThreadRecord
    BY DEF BaseInv, TypeOK, ThreadOK
<1>2. th' \in [Thread -> ThreadRecord] /\ th'[t] = x
    BY <1>1
<1>3. \A u \in Thread : u # t => th'[u] = th[u]
    BY <1>1
<1> QED BY <1>2, <1>3 DEF OnlyThread

LEMMA ThreadGo ==
    ASSUME BaseInv, NEW t \in Thread, HasRead(t), NEW pc \in PC, Go(t, pc)
    PROVE  OnlyThread(t) /\ ThreadOK(th'[t])
<1>1. ThreadOK(th[t]) /\ th[t] \in ThreadRecord
    BY ThreadsOK DEF ThreadOK
<1>2. ThreadOK([th[t] EXCEPT !.pc = pc])
    BY <1>1 DEF ThreadOK, ThreadRecord, HasRead
<1>3. th' = [th EXCEPT ![t] = [th[t] EXCEPT !.pc = pc]]
    BY DEF Go
<1> QED BY <1>2, <1>3, ThreadSet

LEMMA ThreadReturn ==
    ASSUME BaseInv, NEW t \in Thread, HasRead(t), NEW e \in BOOLEAN,
           NEW pc \in PC, th' = [th EXCEPT ![t].pc = pc, ![t].err = e]
    PROVE  OnlyThread(t) /\ ThreadOK(th'[t])
<1>1. ThreadOK(th[t]) /\ th[t] \in ThreadRecord
    BY ThreadsOK DEF ThreadOK
<1>2. ThreadOK([th[t] EXCEPT !.pc = pc, !.err = e])
    BY <1>1 DEF ThreadOK, ThreadRecord, HasRead
<1>3. th' = [th EXCEPT ![t] = [th[t] EXCEPT !.pc = pc, !.err = e]]
    OBVIOUS
<1> QED BY <1>2, <1>3, ThreadSet

LEMMA ThreadNext ==
    ASSUME BaseInv, NEW t \in Thread, HasRead(t), NEW n \in Step \cup {Nil},
           NEW pc \in PC, th' = [th EXCEPT ![t].pc = pc, ![t].next = n]
    PROVE  OnlyThread(t) /\ ThreadOK(th'[t])
<1>1. ThreadOK(th[t]) /\ th[t] \in ThreadRecord
    BY ThreadsOK DEF ThreadOK
<1>2. ThreadOK([th[t] EXCEPT !.pc = pc, !.next = n])
    BY <1>1 DEF ThreadOK, ThreadRecord, HasRead
<1>3. th' = [th EXCEPT ![t] = [th[t] EXCEPT !.pc = pc, !.next = n]]
    OBVIOUS
<1> QED BY <1>2, <1>3, ThreadSet

LEMMA ThreadFollow ==
    ASSUME BaseInv, NEW t \in Thread, HasRead(t), NEW nexts \in SUBSET Step,
           Follow(t, nexts)
    PROVE  OnlyThread(t) /\ ThreadOK(th'[t])
<1> USE DEF PC
<1>1. CASE nexts = {}
    BY <1>1, ThreadReturn DEF Follow, Return
<1>2. CASE nexts # {}
    BY <1>2, ThreadNext DEF Follow
<1> QED BY <1>1, <1>2, SMTT(60)

\* A goroutine about to create children.
LEMMA ThreadKids ==
    ASSUME NEW x \in ThreadRecord, NEW l \in Seq(Step)
    PROVE  /\ [x EXCEPT !.left = l, !.kids = <<>>] \in ThreadRecord
           /\ DOMAIN [x EXCEPT !.left = l, !.kids = <<>>].kids = {}
<1>1. <<>> \in Seq(Run) /\ DOMAIN <<>> = {}
    OBVIOUS
<1>2. [x EXCEPT !.left = l, !.kids = <<>>] \in ThreadRecord
    BY <1>1 DEF ThreadRecord
<1>3. [x EXCEPT !.left = l, !.kids = <<>>].kids = <<>>
    BY DEF ThreadRecord
<1> QED BY <1>1, <1>2, <1>3

LEMMA ThreadRetry ==
    ASSUME BaseInv, NEW t \in Thread, HasRead(t), Retry(t)
    PROVE  OnlyThread(t) /\ ThreadOK(th'[t])
<1>1. ThreadOK(th[t]) /\ th[t] \in ThreadRecord
    BY ThreadsOK DEF ThreadOK
<1>2. DefOf(t).kids \in Seq(Step)
    BY Working DEF HasRead, StepDef
<1>3. PICK pc \in {"exec", "fail"} :
        th' = [th EXCEPT ![t].tries = th[t].tries + 1, ![t].pc = pc,
                         ![t].left = DefOf(t).kids, ![t].kids = <<>>]
    BY DEF Retry
<1> DEFINE y == [th[t] EXCEPT !.tries = th[t].tries + 1, !.pc = pc]
           x == [y EXCEPT !.left = DefOf(t).kids, !.kids = <<>>]
<1>4. y \in ThreadRecord /\ y.run = th[t].run /\ y.snap = th[t].snap
  <2>1. th[t].tries + 1 \in Nat /\ pc \in PC
      BY <1>1 DEF ThreadRecord, PC
  <2> QED BY <1>1, <2>1 DEF ThreadRecord
<1>5. th' = [th EXCEPT ![t] = x]
    BY <1>3
<1> HIDE DEF y
<1>6. x \in ThreadRecord /\ DOMAIN x.kids = {}
    BY <1>2, <1>4, ThreadKids
<1>7. x.run = th[t].run /\ x.snap = th[t].snap
    BY <1>4 DEF ThreadRecord
<1> HIDE DEF x
<1>8. ThreadOK(x)
    BY <1>1, <1>6, <1>7 DEF ThreadOK, HasRead
<1> QED BY <1>5, <1>8, ThreadSet

LEMMA LogsSame ==
    ASSUME BaseInv, UNCHANGED <<log, started, undone, granted, aborts>>
    PROVE  LogsOK
BY DEF BaseInv, TypeOK, LogsOK

LEMMA PendingSame ==
    ASSUME BaseInv, UNCHANGED <<queue, cmds, outbox, matched>>
    PROVE  PendingOK
BY DEF BaseInv, TypeOK, PendingKnown, PendingOK

\* A message for a run that exists.
LEMMA PendingPublish ==
    ASSUME BaseInv, NEW q \in Known, queue' = [queue EXCEPT ![q] = @ + 1],
           UNCHANGED <<cmds, outbox, matched>>
    PROVE  PendingOK
BY SMTT(60) DEF BaseInv, TypeOK, PendingKnown, PendingOK, Known

\* A new step.succeeded event.
LEMMA LogsSucceeded ==
    ASSUME BaseInv, NEW r \in Run, NEW s \in Step, Succeeded(r, s),
           UNCHANGED <<started, undone, granted, aborts>>
    PROVE  LogsOK
<1>1. log \in [Run -> Seq(Step)] /\ Append(log[r], s) \in Seq(Step)
    BY DEF BaseInv, TypeOK
<1>2. log' = log \/ log' = [log EXCEPT ![r] = Append(log[r], s)]
    BY DEF Succeeded
<1>3. log' \in [Run -> Seq(Step)]
    BY <1>1, <1>2
<1> QED BY <1>3 DEF BaseInv, TypeOK, LogsOK

-----------------------------------------------------------------------------
(***************************************************************************)
(* The actions.                                                            *)
(***************************************************************************)
StepOK(t) == RunsKept /\ LogsOK /\ PendingOK /\ OnlyThread(t) /\ ThreadOK(th'[t])

LEMMA IdleOK == ThreadOK(Idle) /\ Idle \in ThreadRecord
<1>1. Absent \in RunRecord /\ Absent.parent = Nil
    BY DEF Absent, RunRecord, RunState, Wakeup
<1>2. Idle \in ThreadRecord
    BY <1>1 DEF Idle, ThreadRecord, PC
<1>3. Idle.pc = "idle" /\ Idle.snap = Absent /\ DOMAIN Idle.kids = {}
    BY DEF Idle
<1> QED BY <1>1, <1>2, <1>3 DEF ThreadOK

\* Steps that leave the store alone and move one goroutine to another place.
LEMMA Moves ==
    ASSUME BaseInv, NEW t \in Thread, HasRead(t), NEW pc \in PC, Go(t, pc),
           UNCHANGED <<runs, log, started, queue, cmds, undone, granted, aborts, outbox, matched>>
    PROVE  StepOK(t)
BY RunsSame, LogsSame, PendingSame, ThreadGo DEF StepOK

\* Steps that write the goroutine's own run.
LEMMA Writes ==
    ASSUME BaseInv, NEW t \in Thread, HasRead(t), NEW rec, Keeps(Self(t), rec), Write(t, rec),
           UNCHANGED <<log, started, queue, cmds, undone, granted, aborts, outbox, matched>>
    PROVE  RunsKept /\ LogsOK /\ PendingOK
BY OwnWrite, LogsSame, PendingSame DEF HasRead

LEMMA DeliverOK ==
    ASSUME BaseInv, NEW t \in Thread, NEW r \in Run, Deliver(t, r), UNCHANGED <<outbox, matched>>
    PROVE  StepOK(t)
<1>1. r \in Known /\ queue \in [Run -> Nat]
    BY DEF Deliver, BaseInv, PendingKnown, TypeOK
<1>2. PendingOK
    BY <1>1 DEF Deliver, BaseInv, PendingKnown, TypeOK, PendingOK
<1> DEFINE x == [Idle EXCEPT !.pc = "wait", !.run = r]
<1>3. ThreadOK(x)
    BY <1>1, IdleOK DEF ThreadOK, ThreadRecord, PC
<1>4. OnlyThread(t) /\ ThreadOK(th'[t])
    BY <1>3, ThreadSet DEF Deliver
<1>5. RunsKept /\ LogsOK
    BY RunsSame, LogsSame DEF Deliver
<1> QED BY <1>2, <1>4, <1>5 DEF StepOK

LEMMA AcquireOK ==
    ASSUME BaseInv, NEW t \in Thread, AcquireLock(t), UNCHANGED <<outbox, matched>>
    PROVE  StepOK(t)
<1>1. ThreadOK(th[t]) /\ th[t] \in ThreadRecord
    BY ThreadsOK DEF ThreadOK
<1>2. ThreadOK([th[t] EXCEPT !.pc = "load"])
    BY <1>1, SMTT(60) DEF ThreadOK, ThreadRecord, AcquireLock, PC
<1>3. th' = [th EXCEPT ![t] = [th[t] EXCEPT !.pc = "load"]]
    BY DEF AcquireLock, Go
<1>4. OnlyThread(t) /\ ThreadOK(th'[t])
    BY <1>2, <1>3, ThreadSet
<1>5. RunsKept /\ LogsOK /\ PendingOK
    BY RunsSame, LogsSame, PendingSame DEF AcquireLock
<1> QED BY <1>4, <1>5 DEF StepOK

LEMMA LoadOK ==
    ASSUME BaseInv, NEW t \in Thread, Load(t), UNCHANGED <<outbox, matched>>
    PROVE  StepOK(t)
<1> DEFINE r == Self(t)
<1>1. th[t].pc = "load"
    BY DEF Load
<1>2. ThreadOK(th[t]) /\ th[t] \in ThreadRecord
    BY ThreadsOK DEF ThreadOK
<1>3. r \in RunRecord /\ r.start \in Step /\ r.parent \in Known \cup {Nil}
    BY <1>1, Working DEF Self, BaseInv, StartsKnown, ParentsKnown
<1>4. PICK pc \in PC : pc = AfterLoad(r)
    BY DEF AfterLoad, PC
<1>5. PICK b \in BOOLEAN : b = TimedOut(r)
    BY DEF TimedOut
<1> DEFINE x == [th[t] EXCEPT !.pc = pc, !.snap = r, !.timedOut = b, !.tries = 0]
<1>6. th' = [th EXCEPT ![t] = x]
    BY <1>4, <1>5 DEF Load
<1> HIDE DEF r
<1>7. x \in ThreadRecord /\ x.run = th[t].run /\ x.snap = r /\ x.kids = th[t].kids
    BY <1>2, <1>3 DEF ThreadRecord
<1> HIDE DEF x
<1>8. ThreadOK(x)
    BY <1>1, <1>2, <1>3, <1>7 DEF ThreadOK
<1>9. OnlyThread(t) /\ ThreadOK(th'[t])
    BY <1>6, <1>8, ThreadSet
<1>10. RunsKept /\ LogsOK /\ PendingOK
    BY RunsSame, LogsSame, PendingSame DEF Load
<1> QED BY <1>9, <1>10 DEF StepOK

\* Waking: CheckChildren, Clear, Reread, SetNext.
LEMMA WakingOK ==
    ASSUME BaseInv, NEW t \in Thread, UNCHANGED <<outbox, matched>>,
           CheckChildren(t) \/ Clear(t) \/ Reread(t) \/ SetNext(t)
    PROVE  StepOK(t)
<1>1. CASE CheckChildren(t)
    BY <1>1, Moves DEF CheckChildren, HasRead, PC
<1>2. CASE Clear(t)
  <2>1. HasRead(t) /\ th[t].pc # "idle"
      BY <1>2 DEF Clear, HasRead
  <2>2. Keeps(Self(t), ClearPause(Self(t)))
      BY <2>1, Working, KeepsClears
  <2>3. RunsKept /\ LogsOK /\ PendingOK
      BY <1>2, <2>1, <2>2, Writes DEF Clear
  <2>4. OnlyThread(t) /\ ThreadOK(th'[t])
      BY <1>2, <2>1, ThreadGo DEF Clear, PC
  <2> QED BY <2>3, <2>4 DEF StepOK
<1>3. CASE Reread(t)
  <2>1. HasRead(t) /\ th[t].pc # "idle"
      BY <1>3 DEF Reread, HasRead
  <2>2. th[t].run \in Run /\ Self(t) \in RunRecord
      BY <2>1, Working
  <2>3. RunsKept /\ PendingOK
      BY <1>3, RunsSame, PendingSame DEF Reread
  <2>4. CASE Self(t).step = Nil
    <3>1. LogsOK
        BY <1>3, <2>4, LogsSame, SMTT(60) DEF Reread
    <3>2. OnlyThread(t) /\ ThreadOK(th'[t])
        BY <1>3, <2>1, <2>4, ThreadReturn DEF Reread, Return, PC
    <3> QED BY <2>3, <3>1, <3>2 DEF StepOK
  <2>5. CASE Self(t).step # Nil
    <3>1. Self(t).step \in Step
        BY <2>2, <2>5 DEF RunRecord
    <3>2. Def[Self(t).step].next \in SUBSET Step /\ Def[Self(t).step].timeout \in Step \cup {Nil}
        BY <3>1, DefAssumption DEF StepDef
    <3>3. PICK nexts \in SUBSET Step : Succeeded(th[t].run, Self(t).step) /\ Follow(t, nexts)
        BY <1>3, <2>5, <3>2 DEF Reread
    <3>4. LogsOK
        BY <1>3, <2>2, <3>1, <3>3, LogsSucceeded DEF Reread
    <3>5. OnlyThread(t) /\ ThreadOK(th'[t])
        BY <2>1, <3>3, ThreadFollow
    <3> QED BY <2>3, <3>4, <3>5 DEF StepOK
  <2> QED BY <2>4, <2>5
<1>4. CASE SetNext(t)
  <2>1. HasRead(t) /\ th[t].pc # "idle"
      BY <1>4 DEF SetNext, HasRead
  <2>2. th[t].next \in Step \cup {Nil} /\ th[t].run \in Run
      BY <2>1, Working DEF ThreadRecord
  <2>3. Keeps(Self(t), UpdateRunState(Self(t), "running", th[t].next))
      BY <2>1, <2>2, Working, KeepsUpdates DEF RunState
  <2>4. RunsKept
      BY <1>4, <2>1, <2>3, OwnWrite DEF SetNext
  <2>5. LogsOK
      BY <1>4, <2>2, SMTT(60) DEF SetNext, BaseInv, TypeOK, LogsOK
  <2>6. PendingOK
      BY <1>4, PendingSame, SMTT(60) DEF SetNext
  <2>7. OnlyThread(t) /\ ThreadOK(th'[t])
      BY <1>4, <2>1, ThreadNext DEF SetNext, PC
  <2> QED BY <2>4, <2>5, <2>6, <2>7 DEF StepOK
<1> QED BY <1>1, <1>2, <1>3, <1>4

\* An advance that returns, with or without an error.
LEMMA ReturnsOK ==
    ASSUME BaseInv, NEW t \in Thread, HasRead(t), NEW e \in BOOLEAN, Return(t, e)
    PROVE  OnlyThread(t) /\ ThreadOK(th'[t])
BY ThreadReturn DEF Return, PC

\* The verb returned a result.
LEMMA SucceedOK ==
    ASSUME BaseInv, NEW t \in Thread, HasRead(t), Succeed(t),
           UNCHANGED <<started, undone, granted, aborts>>
    PROVE  LogsOK /\ OnlyThread(t) /\ ThreadOK(th'[t])
<1>1. StepOf(t) \in Step /\ DefOf(t).next \in SUBSET Step /\ th[t].run \in Run
    BY Working DEF HasRead, StepDef
<1>2. LogsOK
    BY <1>1, LogsSucceeded DEF Succeed
<1>3. OnlyThread(t) /\ ThreadOK(th'[t])
    BY <1>1, ThreadFollow DEF Succeed
<1> QED BY <1>2, <1>3

LEMMA DispatchOK ==
    ASSUME BaseInv, NEW t \in Thread, Dispatch(t), UNCHANGED <<outbox, matched>>
    PROVE  StepOK(t)
<1>1. HasRead(t) /\ th[t].pc # "idle"
    BY DEF Dispatch, HasRead
<1>2. /\ StepOf(t) \in Step /\ th[t].run \in Run /\ DefOf(t) \in StepDef
      /\ DefOf(t).kids \in Seq(Step)
    BY <1>1, Working DEF StepDef
<1>3. Keeps(Self(t), UpdateRunState(Self(t), "running", StepOf(t)))
    BY <1>1, <1>2, Working, KeepsUpdates DEF RunState
<1>4. RunsKept
    BY <1>1, <1>3, OwnWrite DEF Dispatch
<1>5. PendingOK
    BY PendingSame DEF Dispatch
<1>6. LogsOK
  <2>1. started' = [started EXCEPT ![th[t].run][StepOf(t)] = @ + 1]
      BY DEF Dispatch
  <2>2. started \in [Run -> [Step -> Nat]]
      BY DEF BaseInv, TypeOK
  <2>3. [started[th[t].run] EXCEPT ![StepOf(t)] = @ + 1] \in [Step -> Nat]
      BY <1>2, <2>2
  <2>4. started' \in [Run -> [Step -> Nat]]
      BY <1>2, <2>1, <2>2, <2>3
  <2> QED BY <2>4 DEF Dispatch, BaseInv, TypeOK, LogsOK
<1>7. ThreadOK(th[t]) /\ th[t] \in ThreadRecord
    BY ThreadsOK DEF ThreadOK
<1>8. PICK pc \in {"complete", "exec"} :
        th' = [th EXCEPT ![t].pc = pc, ![t].left = DefOf(t).kids, ![t].kids = <<>>]
    BY DEF Dispatch, DefOf
<1> DEFINE y == [th[t] EXCEPT !.pc = pc]
           x == [y EXCEPT !.left = DefOf(t).kids, !.kids = <<>>]
<1>9. y \in ThreadRecord /\ y.run = th[t].run /\ y.snap = th[t].snap
    BY <1>7 DEF ThreadRecord, PC
<1>10. th' = [th EXCEPT ![t] = x]
    BY <1>8
<1> HIDE DEF y
<1>11. x \in ThreadRecord /\ DOMAIN x.kids = {}
    BY <1>2, <1>9, ThreadKids
<1>12. x.run = th[t].run /\ x.snap = th[t].snap
    BY <1>9 DEF ThreadRecord
<1> HIDE DEF x
<1>13. ThreadOK(x)
    BY <1>1, <1>7, <1>11, <1>12 DEF ThreadOK, HasRead
<1>14. OnlyThread(t) /\ ThreadOK(th'[t])
    BY <1>10, <1>13, ThreadSet
<1> QED BY <1>4, <1>5, <1>6, <1>14 DEF StepOK

\* The writes of the verbs that pause the run or end it.
LEMMA VerbWritesOK ==
    ASSUME BaseInv, NEW t \in Thread, UNCHANGED <<outbox, matched>>,
           \/ Complete(t) \/ Reject(t) \/ ExecWait(t) \/ ExecSignal(t) \/ ExecEvent(t)
           \/ ExecAction(t) \/ PauseFork(t) \/ PauseJoin(t) \/ ExecCancel(t)
    PROVE  StepOK(t)
<1> DEFINE r == Self(t)
<1>1. HasRead(t) /\ th[t].pc # "idle"
    BY DEF HasRead, Complete, Reject, ExecWait, ExecSignal, ExecEvent, ExecAction,
           PauseFork, PauseJoin, ExecCancel
<1>2. /\ StepOf(t) \in Step /\ DefOf(t).name \in Name \cup {Nil} /\ DefOf(t).deadline \in BOOLEAN
      /\ Stored(r) /\ th[t].snap.attempt + 1 \in Nat
    BY <1>1, Working, SMTT(60) DEF StepDef, ThreadRecord, RunRecord
<1>3. AfterTerminal(t) \in PC
    BY DEF AfterTerminal, PC
<1> HIDE DEF r
<1>4. /\ \A st \in RunState \ {"absent"} :
            Keeps(r, UpdateRunState(r, st, Nil)) /\ Keeps(r, UpdateRunState(r, st, StepOf(t)))
      /\ Keeps(r, MarkRunFailed(r, StepOf(t)))
    BY <1>2, KeepsUpdates
<1>5. /\ Keeps(r, SetPausedWithWakeup(r))
      /\ Keeps(r, SetPausedAwaitingSignal(r, DefOf(t).name, DefOf(t).deadline))
      /\ Keeps(r, SetPausedAwaitingEvent(r, DefOf(t).name, DefOf(t).deadline))
      /\ Keeps(r, MarkAwaitingAction(r, StepOf(t), th[t].snap.attempt + 1))
    BY <1>2, KeepsPauses
<1>6. CASE Complete(t)
  <2>1. RunsKept /\ LogsOK /\ PendingOK
      BY <1>1, <1>4, <1>6, Writes DEF Complete, r, RunState
  <2>2. OnlyThread(t) /\ ThreadOK(th'[t])
      BY <1>1, <1>3, <1>6, ThreadGo DEF Complete
  <2> QED BY <2>1, <2>2 DEF StepOK
<1>7. CASE Reject(t)
  <2>1. RunsKept /\ LogsOK /\ PendingOK
      BY <1>1, <1>4, <1>7, Writes DEF Reject, r
  <2>2. OnlyThread(t) /\ ThreadOK(th'[t])
      BY <1>1, <1>7, ReturnsOK DEF Reject
  <2> QED BY <2>1, <2>2 DEF StepOK
<1>8. CASE ExecWait(t)
  <2>1. RunsKept /\ LogsOK /\ PendingOK
      BY <1>1, <1>5, <1>8, Writes DEF ExecWait, r
  <2>2. OnlyThread(t) /\ ThreadOK(th'[t])
      BY <1>1, <1>8, ReturnsOK DEF ExecWait
  <2> QED BY <2>1, <2>2 DEF StepOK
<1>9. CASE ExecSignal(t)
  <2>1. RunsKept /\ LogsOK /\ PendingOK
      BY <1>1, <1>5, <1>9, Writes DEF ExecSignal, r
  <2>2. OnlyThread(t) /\ ThreadOK(th'[t])
      BY <1>1, <1>9, ReturnsOK DEF ExecSignal
  <2> QED BY <2>1, <2>2 DEF StepOK
<1>10. CASE ExecEvent(t)
  <2>1. RunsKept /\ LogsOK /\ PendingOK
      BY <1>1, <1>5, <1>10, Writes DEF ExecEvent, r
  <2>2. OnlyThread(t) /\ ThreadOK(th'[t])
      BY <1>1, <1>10, ReturnsOK DEF ExecEvent
  <2> QED BY <2>1, <2>2 DEF StepOK
<1>11. CASE ExecAction(t)
  <2>1. RunsKept /\ LogsOK /\ PendingOK
      BY <1>1, <1>5, <1>11, Writes DEF ExecAction, r
  <2>2. OnlyThread(t) /\ ThreadOK(th'[t])
      BY <1>1, <1>11, ThreadGo DEF ExecAction, PC
  <2> QED BY <2>1, <2>2 DEF StepOK
<1>12. CASE PauseFork(t)
  <2>1. RunsKept /\ LogsOK /\ PendingOK
      BY <1>1, <1>4, <1>12, Writes DEF PauseFork, r, RunState
  <2>2. OnlyThread(t) /\ ThreadOK(th'[t])
      BY <1>1, <1>12, ThreadGo DEF PauseFork, PC
  <2> QED BY <2>1, <2>2 DEF StepOK
<1>13. CASE PauseJoin(t)
  <2>1. RunsKept /\ LogsOK /\ PendingOK
      BY <1>1, <1>4, <1>13, Writes DEF PauseJoin, r, RunState
  <2>2. OnlyThread(t) /\ ThreadOK(th'[t])
      BY <1>1, <1>13, ReturnsOK DEF PauseJoin
  <2> QED BY <2>1, <2>2 DEF StepOK
<1>14. CASE ExecCancel(t)
  <2>1. RunsKept /\ LogsOK /\ PendingOK
      BY <1>1, <1>4, <1>14, Writes DEF ExecCancel, r, RunState
  <2>2. OnlyThread(t) /\ ThreadOK(th'[t])
      BY <1>1, <1>3, <1>14, ThreadGo DEF ExecCancel
  <2> QED BY <2>1, <2>2 DEF StepOK
<1> QED BY <1>6, <1>7, <1>8, <1>9, <1>10, <1>11, <1>12, <1>13, <1>14

\* Steps that leave the store alone and end, retry or follow the verb.
LEMMA QuietOK ==
    ASSUME BaseInv, NEW t \in Thread, UNCHANGED <<outbox, matched>>,
           \/ ExecSync(t) \/ VerbFails(t) \/ Send(t) \/ SendFails(t) \/ PublishFails(t)
           \/ ForkPaused(t) \/ ExecJoin(t) \/ RolledBack(t) \/ Barrier(t) \/ ParentJoin(t)
    PROVE  StepOK(t)
<1>1. HasRead(t) /\ th[t].pc # "idle" /\ RunsKept
    BY RunsSame DEF HasRead, ExecSync, VerbFails, Send, SendFails, PublishFails, ForkPaused,
                    ExecJoin, RolledBack, Barrier, ParentJoin
<1>2. CASE ExecSync(t)
    BY <1>1, <1>2, SucceedOK, PendingSame DEF ExecSync, StepOK
<1>3. CASE VerbFails(t)
    BY <1>1, <1>3, ThreadRetry, LogsSame, PendingSame DEF VerbFails, StepOK
<1>4. CASE SendFails(t)
    BY <1>1, <1>4, ThreadRetry, LogsSame, PendingSame DEF SendFails, StepOK
<1>5. CASE PublishFails(t)
    BY <1>1, <1>5, ThreadRetry, LogsSame, PendingSame DEF PublishFails, StepOK
<1>6. CASE ForkPaused(t)
    BY <1>1, <1>6, ReturnsOK, LogsSame, PendingSame DEF ForkPaused, StepOK
<1>7. CASE RolledBack(t)
    BY <1>1, <1>7, Moves DEF RolledBack, PC
<1>8. CASE Barrier(t)
    BY <1>1, <1>8, Moves DEF Barrier, PC
<1>9. CASE ParentJoin(t)
    BY <1>1, <1>9, Moves DEF ParentJoin, PC
<1>10. CASE Send(t)
  <2>1. StepOf(t) \in Step /\ th[t].run \in Run /\ th[t].run \in Known
        /\ th[t].snap.attempt + 1 \in Nat
      BY <1>1, Working DEF ThreadRecord, RunRecord
  <2> DEFINE c == [run |-> th[t].run, step |-> StepOf(t), attempt |-> th[t].snap.attempt + 1]
  <2>2. c \in Command /\ c.run \in Known
      BY <2>1 DEF Command
  <2>3. cmds' = cmds \cup {c} /\ UNCHANGED <<queue, outbox, matched>>
      BY <1>10 DEF Send
  <2> HIDE DEF c
  <2>4. PendingOK
      BY <2>2, <2>3 DEF BaseInv, TypeOK, PendingKnown, PendingOK
  <2>5. LogsOK
      BY <1>10, LogsSame DEF Send
  <2>6. OnlyThread(t) /\ ThreadOK(th'[t])
      BY <1>1, <1>10, ReturnsOK DEF Send
  <2> QED BY <1>1, <2>4, <2>5, <2>6 DEF StepOK
<1>11. CASE ExecJoin(t)
  <2>1. PendingOK
      BY <1>11, PendingSame DEF ExecJoin
  <2>2. \/ Retry(t) /\ UNCHANGED log
        \/ Succeed(t)
        \/ Go(t, "pausejoin") /\ UNCHANGED log
      BY <1>11 DEF ExecJoin
  <2>3. UNCHANGED <<started, undone, granted, aborts>>
      BY <1>11 DEF ExecJoin
  <2>4. CASE Retry(t) /\ UNCHANGED log
      BY <1>1, <2>1, <2>3, <2>4, ThreadRetry, LogsSame DEF StepOK
  <2>5. CASE Succeed(t)
      BY <1>1, <2>1, <2>3, <2>5, SucceedOK DEF StepOK
  <2>6. CASE Go(t, "pausejoin") /\ UNCHANGED log
      BY <1>1, <2>1, <2>3, <2>6, ThreadGo, LogsSame DEF StepOK, PC
  <2> QED BY <2>2, <2>4, <2>5, <2>6
<1> QED BY <1>2, <1>3, <1>4, <1>5, <1>6, <1>7, <1>8, <1>9, <1>10, <1>11

\* The head of a goroutine's list of created children is a run that exists.
LEMMA HeadKnown ==
    ASSUME BaseInv, NEW t \in Thread, th[t].kids # <<>>
    PROVE  /\ Head(th[t].kids) \in Known
           /\ Tail(th[t].kids) \in Seq(Run)
           /\ \A i \in DOMAIN Tail(th[t].kids) : Tail(th[t].kids)[i] \in Known
<1> DEFINE k == th[t].kids
<1>1. k \in Seq(Run) /\ \A i \in DOMAIN k : k[i] \in Known
    BY ThreadsOK DEF ThreadOK, ThreadRecord
<1> HIDE DEF k
<1>2. k # <<>>
    BY DEF k
<1>3. /\ Len(k) \in Nat /\ Len(k) > 0 /\ DOMAIN k = 1 .. Len(k)
      /\ Head(k) = k[1] /\ Tail(k) \in Seq(Run) /\ Len(Tail(k)) = Len(k) - 1
      /\ \A i \in 1 .. Len(Tail(k)) : Tail(k)[i] = k[i + 1]
    BY <1>1, <1>2, EmptySeq, HeadTailProperties
<1>4. DOMAIN Tail(k) = 1 .. (Len(k) - 1)
    BY <1>3
<1>5. \A i \in DOMAIN Tail(k) : Tail(k)[i] \in Known
    BY <1>1, <1>3, <1>4
<1> QED BY <1>1, <1>3, <1>5 DEF k

\* Publishing the children.
LEMMA PublishChildOK ==
    ASSUME BaseInv, NEW t \in Thread, PublishChild(t), UNCHANGED <<outbox, matched>>
    PROVE  StepOK(t)
<1>1. th[t].kids # <<>> /\ HasRead(t)
    BY DEF PublishChild, HasRead
<1>2. RunsKept /\ LogsOK
    BY RunsSame, LogsSame DEF PublishChild
<1>3. PendingOK
    BY <1>1, HeadKnown, PendingPublish DEF PublishChild
<1> DEFINE k == Tail(th[t].kids)
           x == [th[t] EXCEPT !.kids = k]
<1>4. k \in Seq(Run) /\ \A i \in DOMAIN k : k[i] \in Known
    BY <1>1, HeadKnown
<1>5. th' = [th EXCEPT ![t] = x]
    BY DEF PublishChild
<1>6. ThreadOK(th[t]) /\ th[t] \in ThreadRecord
    BY ThreadsOK DEF ThreadOK
<1> HIDE DEF k
<1>7. ThreadOK(x)
    BY <1>4, <1>6 DEF ThreadOK, ThreadRecord
<1> HIDE DEF x
<1>8. OnlyThread(t) /\ ThreadOK(th'[t])
    BY <1>5, <1>7, ThreadSet
<1> QED BY <1>2, <1>3, <1>8 DEF StepOK

LEMMA PublishSpawnedOK ==
    ASSUME BaseInv, NEW t \in Thread, PublishSpawned(t), UNCHANGED <<outbox, matched>>
    PROVE  StepOK(t)
<1>1. th[t].kids # <<>> /\ HasRead(t)
    BY DEF PublishSpawned, HasRead
<1>2. RunsKept
    BY RunsSame DEF PublishSpawned
<1>3. LogsOK /\ OnlyThread(t) /\ ThreadOK(th'[t])
    BY <1>1, SucceedOK DEF PublishSpawned
<1>4. UNCHANGED queue \/ queue' = [queue EXCEPT ![Head(th[t].kids)] = @ + 1]
    BY DEF PublishSpawned
<1>5. PendingOK
    BY <1>1, <1>4, HeadKnown, PendingPublish, PendingSame DEF PublishSpawned
<1> QED BY <1>2, <1>3, <1>5 DEF StepOK

\* try_catch: pushing a frame, and the failure that pops it.
LEMMA TryOK ==
    ASSUME BaseInv, NEW t \in Thread, UNCHANGED <<outbox, matched>>, ExecTry(t) \/ Catch(t)
    PROVE  StepOK(t)
<1> DEFINE r == Self(t)
<1>1. HasRead(t) /\ th[t].pc # "idle"
    BY DEF HasRead, ExecTry, Catch
<1>2. Stored(r) /\ StepOf(t) \in Step /\ DefOf(t).catch \in Step \cup {Nil}
    BY <1>1, Working DEF StepDef
<1> HIDE DEF r
<1>3. CASE ExecTry(t)
  <2>1. DefOf(t).catch \in Step
      BY <1>2, <1>3, DefAssumption DEF ExecTry, DefOf
  <2>2. PendingOK /\ UNCHANGED <<started, undone, granted, aborts>>
      BY <1>3, PendingSame DEF ExecTry
  <2>3. CASE CanPushTryCatch(r) /\ Write(t, PushTryCatch(r, DefOf(t).catch)) /\ Succeed(t)
    <3>1. Keeps(r, PushTryCatch(r, DefOf(t).catch))
        BY <1>2, <2>1, <2>3, KeepsFrames
    <3>2. RunsKept
        BY <1>1, <2>3, <3>1, OwnWrite DEF r
    <3> QED BY <1>1, <2>2, <2>3, <3>2, SucceedOK DEF StepOK
  <2>4. CASE Retry(t) /\ UNCHANGED <<runs, log>>
      BY <1>1, <2>2, <2>4, ThreadRetry, RunsSame, LogsSame DEF StepOK
  <2> QED BY <1>3, <2>3, <2>4 DEF ExecTry, r
<1>4. CASE Catch(t)
  <2>1. r.frames # <<>>
      BY <1>4 DEF Catch, r
  <2>2. Keeps(r, PopTryCatch(r)) /\ TopFrame(r) \in Step
      BY <1>2, <2>1, KeepsFrames
  <2>3. RunsKept /\ LogsOK /\ PendingOK
      BY <1>1, <1>4, <2>2, Writes, SMTT(60) DEF Catch, r
  <2>4. OnlyThread(t) /\ ThreadOK(th'[t])
      BY <1>1, <1>4, <2>2, ThreadNext DEF Catch, r, PC
  <2> QED BY <2>3, <2>4 DEF StepOK
<1> QED BY <1>3, <1>4

\* A goroutine with another list of steps to go through.
LEMMA ThreadLeft ==
    ASSUME BaseInv, NEW t \in Thread, HasRead(t), NEW l \in Seq(Step), NEW pc \in PC,
           th' = [th EXCEPT ![t].pc = pc, ![t].left = l]
    PROVE  OnlyThread(t) /\ ThreadOK(th'[t])
<1>1. ThreadOK(th[t]) /\ th[t] \in ThreadRecord
    BY ThreadsOK DEF ThreadOK
<1>2. ThreadOK([th[t] EXCEPT !.pc = pc, !.left = l])
    BY <1>1 DEF ThreadOK, ThreadRecord, HasRead
<1>3. th' = [th EXCEPT ![t] = [th[t] EXCEPT !.pc = pc, !.left = l]]
    OBVIOUS
<1> QED BY <1>2, <1>3, ThreadSet

\* Rollback.
LEMMA RollbackOK ==
    ASSUME BaseInv, NEW t \in Thread, UNCHANGED <<outbox, matched>>,
           Uncaught(t) \/ StartRollback(t) \/ Undo(t) \/ MarkFailed(t)
    PROVE  StepOK(t)
<1> DEFINE r == Self(t)
<1>1. HasRead(t) /\ th[t].pc # "idle"
    BY DEF HasRead, Uncaught, StartRollback, Undo, MarkFailed
<1>2. /\ Stored(r) /\ StepOf(t) \in Step /\ th[t].run \in Run /\ th[t] \in ThreadRecord
      /\ th[t].snap.step \in Step \cup {Nil}
    BY <1>1, Working DEF ThreadRecord, RunRecord
<1> HIDE DEF r
<1>3. CASE Uncaught(t)
  <2>1. RunsKept /\ LogsOK /\ PendingOK
      BY <1>3, RunsSame, LogsSame, PendingSame DEF Uncaught
  <2>2. log[th[t].run] \in Seq(Step)
      BY <1>2, SMTT(60) DEF BaseInv, TypeOK
  <2>3. PICK pc \in PC : th' = [th EXCEPT ![t].pc = pc, ![t].left = log[th[t].run]]
      BY <1>3 DEF Uncaught, PC
  <2> QED BY <1>1, <2>1, <2>2, <2>3, ThreadLeft DEF StepOK
<1>4. CASE StartRollback(t)
  <2>1. Keeps(r, UpdateRunState(r, "compensating", th[t].snap.step))
      BY <1>2, KeepsUpdates DEF RunState
  <2>2. RunsKept /\ LogsOK /\ PendingOK
      BY <1>1, <1>4, <2>1, Writes DEF StartRollback, r
  <2>3. OnlyThread(t) /\ ThreadOK(th'[t])
      BY <1>1, <1>4, ThreadGo, SMTT(60) DEF StartRollback, PC
  <2> QED BY <2>2, <2>3 DEF StepOK
<1>5. CASE Undo(t)
  <2> DEFINE l == th[t].left
             n == Len(l)
  <2>1. l \in Seq(Step) /\ l # <<>>
      BY <1>2, <1>5 DEF Undo, ThreadRecord
  <2>2. n \in Nat /\ n > 0
      BY <2>1, EmptySeq
  <2>3. l[n] \in Step /\ SubSeq(l, 1, n - 1) \in Seq(Step)
      BY <2>1, <2>2, SMTT(60)
  <2>4. RunsKept /\ PendingOK
      BY <1>5, RunsSame, PendingSame, SMTT(60) DEF Undo
  <2>5. UNCHANGED undone \/ undone' = [undone EXCEPT ![th[t].run] = Append(@, l[n])]
      BY <1>5 DEF Undo
  <2>6. undone \in [Run -> Seq(Step)]
      BY DEF BaseInv, TypeOK
  <2>7. Append(undone[th[t].run], l[n]) \in Seq(Step)
      BY <1>2, <2>3, <2>6
  <2>8. undone' \in [Run -> Seq(Step)]
      BY <1>2, <2>5, <2>6, <2>7
  <2>9. LogsOK
      BY <1>5, <2>8 DEF Undo, BaseInv, TypeOK, LogsOK
  <2>10. th' = [th EXCEPT ![t].left = SubSeq(l, 1, n - 1)]
      BY <1>5 DEF Undo
  <2> HIDE DEF n
  <2> DEFINE x == [th[t] EXCEPT !.left = SubSeq(l, 1, n - 1)]
  <2>11. ThreadOK(x)
    <3>1. ThreadOK(th[t])
        BY ThreadsOK
    <3> QED BY <1>2, <2>3, <3>1 DEF ThreadOK, ThreadRecord
  <2>12. th' = [th EXCEPT ![t] = x]
      BY <2>10
  <2> HIDE DEF x
  <2>13. OnlyThread(t) /\ ThreadOK(th'[t])
      BY <2>11, <2>12, ThreadSet
  <2> QED BY <2>4, <2>9, <2>13 DEF StepOK
<1>6. CASE MarkFailed(t)
  <2>1. Keeps(r, MarkRunFailed(r, StepOf(t)))
      BY <1>2, KeepsUpdates
  <2>2. RunsKept /\ LogsOK /\ PendingOK
      BY <1>1, <1>6, <2>1, Writes DEF MarkFailed, r
  <2>3. AfterTerminal(t) \in PC
      BY DEF AfterTerminal, PC
  <2>4. OnlyThread(t) /\ ThreadOK(th'[t])
      BY <1>1, <1>6, <2>3, ThreadReturn DEF MarkFailed
  <2> QED BY <2>2, <2>4 DEF StepOK
<1> QED BY <1>3, <1>4, <1>5, <1>6

\* Cancellation from outside.
LEMMA CancelOK ==
    ASSUME BaseInv, NEW t \in Thread, UNCHANGED <<outbox, matched>>,
           (\E r \in Run : CancelRead(t, r)) \/ CancelWrite(t)
    PROVE  StepOK(t)
<1>1. ASSUME NEW r \in Run, CancelRead(t, r) PROVE StepOK(t)
  <2>1. RunsKept /\ LogsOK /\ PendingOK
      BY <1>1, RunsSame, LogsSame, PendingSame DEF CancelRead
  <2>2. r \in Known /\ runs[r] \in RunRecord /\ runs[r].start \in Step
        /\ runs[r].parent \in Known \cup {Nil}
      BY <1>1 DEF CancelRead, Known, BaseInv, TypeOK, StartsKnown, ParentsKnown
  <2> DEFINE x == [Idle EXCEPT !.pc = "cancel", !.run = r, !.snap = runs[r]]
  <2>3. x \in ThreadRecord /\ x.run = r /\ x.snap = runs[r] /\ x.kids = Idle.kids
      BY <2>2, IdleOK DEF ThreadRecord, PC
  <2>4. th' = [th EXCEPT ![t] = x]
      BY <1>1 DEF CancelRead
  <2> HIDE DEF x
  <2>5. ThreadOK(x)
      BY <2>2, <2>3, IdleOK DEF ThreadOK
  <2>6. OnlyThread(t) /\ ThreadOK(th'[t])
      BY <2>4, <2>5, ThreadSet
  <2> QED BY <2>1, <2>6 DEF StepOK
<1>2. CASE CancelWrite(t)
  <2>1. HasRead(t) /\ th[t].pc # "idle"
      BY <1>2 DEF HasRead, CancelWrite
  <2>2. Keeps(Self(t), Cancel(Self(t)))
      BY <2>1, Working, KeepsClears
  <2>3. RunsKept /\ LogsOK /\ PendingOK
      BY <1>2, <2>1, <2>2, Writes DEF CancelWrite
  <2>4. AfterTerminal(t) \in PC
      BY DEF AfterTerminal, PC
  <2>5. OnlyThread(t) /\ ThreadOK(th'[t])
      BY <1>2, <2>1, <2>4, ThreadGo DEF CancelWrite
  <2> QED BY <2>3, <2>5 DEF StepOK
<1> QED BY <1>1, <1>2

\* Waking the parent.
LEMMA ParentOK ==
    ASSUME BaseInv, NEW t \in Thread, UNCHANGED <<outbox, matched>>, WakeParent(t) \/ PublishParent(t)
    PROVE  StepOK(t)
<1>1. HasRead(t)
    BY DEF HasRead, WakeParent, PublishParent
<1>2. Parent(t) \in Known \/ Parent(t) \notin Run
    BY NilIsNone DEF Parent, BaseInv, ParentsKnown
<1>3. runs \in [Run -> RunRecord] /\ queue \in [Run -> Nat]
    BY DEF BaseInv, TypeOK
<1>4. CASE WakeParent(t)
  <2>1. LogsOK /\ PendingOK
      BY <1>4, LogsSame, PendingSame DEF WakeParent
  <2>2. runs' = [runs EXCEPT ![Parent(t)] = WakeFromExternal(runs[Parent(t)])]
      BY <1>4 DEF WakeParent
  <2>3. RunsKept
    <3>1. ASSUME Parent(t) \in Known PROVE RunsKept
      <4>1. Keeps(runs[Parent(t)], WakeFromExternal(runs[Parent(t)]))
          BY <3>1, RunsStored, KeepsClears DEF Known
      <4> QED BY <2>2, <3>1, <4>1, OneWrite
    <3>2. ASSUME Parent(t) \notin Run PROVE RunsKept
        BY <1>3, <2>2, <3>2, RunsSame
    <3> QED BY <1>2, <3>1, <3>2
  <2>4. OnlyThread(t) /\ ThreadOK(th'[t])
      BY <1>1, <1>4, ThreadGo DEF WakeParent, PC
  <2> QED BY <2>1, <2>3, <2>4 DEF StepOK
<1>5. CASE PublishParent(t)
  <2>1. RunsKept /\ LogsOK
      BY <1>5, RunsSame, LogsSame DEF PublishParent
  <2>2. OnlyThread(t) /\ ThreadOK(th'[t])
      BY <1>1, <1>5, ThreadGo DEF PublishParent, PC
  <2>3. UNCHANGED queue \/ queue' = [queue EXCEPT ![Parent(t)] = @ + 1]
      BY <1>5 DEF PublishParent
  <2>4. ASSUME Parent(t) \notin Run PROVE UNCHANGED queue
      BY <1>3, <2>3, <2>4
  <2>5. PendingOK
      BY <1>2, <1>5, <2>3, <2>4, PendingSame, PendingPublish DEF PublishParent
  <2> QED BY <2>1, <2>2, <2>5 DEF StepOK
<1> QED BY <1>4, <1>5

\* A goroutine ends, by itself or not.
LEMMA EndsOK ==
    ASSUME BaseInv, NEW t \in Thread, UNCHANGED <<outbox, matched>>, Done(t) \/ Abort(t)
    PROVE  StepOK(t)
<1>1. th[t].run \in Known
    BY DEF Done, Abort, BaseInv, WorkedOnKnown
<1>2. RunsKept
    BY RunsSame DEF Done, Abort
<1>3. UNCHANGED queue \/ queue' = [queue EXCEPT ![th[t].run] = @ + 1]
    BY DEF Done, Abort
<1>4. PendingOK
    BY <1>1, <1>3, PendingSame, PendingPublish DEF Done, Abort
<1>5. aborts' \in 0 .. MaxAborts
    BY CoordinatorAssumption DEF Done, Abort, BaseInv, TypeOK
<1>6. LogsOK
    BY <1>5 DEF Done, Abort, BaseInv, TypeOK, LogsOK
<1>7. OnlyThread(t) /\ ThreadOK(th'[t])
    BY IdleOK, ThreadSet DEF Done, Abort
<1> QED BY <1>2, <1>4, <1>6, <1>7 DEF StepOK

\* A child is created: the only step that adds a run.
LEMMA SpawnOK ==
    ASSUME BaseInv, NEW t \in Thread, UNCHANGED <<outbox, matched>>, SpawnChild(t)
    PROVE  BaseInv'
<1> DEFINE c == FreshRun
           rec == SpawnChildRun(Head(th[t].left), th[t].run, StepOf(t))
           l == Tail(th[t].left)
           k == Append(th[t].kids, c)
<1>1. HasRead(t) /\ th[t].pc # "idle" /\ th[t].left # <<>>
    BY DEF SpawnChild, HasRead
<1>2. c \in Run /\ runs[c].state = "absent"
    BY DEF SpawnChild, FreshRun
<1>3. th[t] \in ThreadRecord /\ th[t].run \in Known /\ StepOf(t) \in Step /\ ThreadOK(th[t])
    BY <1>1, Working, ThreadsOK
<1>4. th[t].left \in Seq(Step) /\ th[t].kids \in Seq(Run)
    BY <1>3 DEF ThreadRecord
<1>5. Head(th[t].left) \in Step /\ l \in Seq(Step)
    BY <1>1, <1>4
<1>6. Stored(rec) /\ rec.state = "pending" /\ rec.start \in Step /\ rec.parent = th[t].run
    BY <1>3, <1>5, ChildStored DEF Known
<1>7. k \in Seq(Run) /\ \A i \in DOMAIN k : k[i] \in {th[t].kids[j] : j \in DOMAIN th[t].kids} \cup {c}
    BY <1>2, <1>4
<1>8. runs' = [runs EXCEPT ![c] = rec] /\ runs \in [Run -> RunRecord]
    BY DEF SpawnChild, BaseInv, TypeOK
<1> DEFINE x == [th[t] EXCEPT !.left = l, !.kids = k]
<1>9. th' = [th EXCEPT ![t] = x] /\ th \in [Thread -> ThreadRecord]
    BY DEF SpawnChild, BaseInv, TypeOK
<1> HIDE DEF c, rec, l, k
<1>10. x \in ThreadRecord /\ x.kids = k /\ x.run = th[t].run /\ x.snap = th[t].snap /\ x.pc = th[t].pc
    BY <1>3, <1>5, <1>7 DEF ThreadRecord
<1> HIDE DEF x
<1>11. /\ runs'[c] = rec /\ \A r \in Run : r # c => runs'[r] = runs[r]
       /\ th'[t] = x /\ \A u \in Thread : u # t => th'[u] = th[u]
    BY <1>2, <1>8, <1>9
<1>12. Known' = Known \cup {c}
    BY <1>2, <1>6, <1>11 DEF Known
<1>13. TypeOK'
  <2>1. runs' \in [Run -> RunRecord] /\ \A r \in Run : Len(runs'[r].frames) <= MaxFrames
      BY <1>6, <1>8, <1>11 DEF Stored, BaseInv, TypeOK
  <2>2. th' \in [Thread -> ThreadRecord]
      BY <1>9, <1>10
  <2> QED BY <2>1, <2>2 DEF SpawnChild, BaseInv, TypeOK
<1>14. StartsKnown'
  <2>1. \A r \in Known' : runs'[r].start \in Step
      BY <1>6, <1>11, <1>12 DEF BaseInv, StartsKnown, Known
  <2>2. \A u \in Thread : HasRead(u)' => th'[u].snap.start \in Step
      BY <1>1, <1>10, <1>11 DEF BaseInv, StartsKnown, HasRead
  <2> QED BY <2>1, <2>2 DEF StartsKnown
<1>15. PendingKnown'
    BY <1>12 DEF SpawnChild, BaseInv, PendingKnown
<1>16. ParentsKnown'
    BY <1>3, <1>6, <1>10, <1>11, <1>12 DEF BaseInv, ParentsKnown
<1>17. WorkedOnKnown'
  <2>1. \A i \in DOMAIN k : k[i] \in Known'
      BY <1>3, <1>7, <1>12 DEF ThreadOK
  <2>2. \A u \in Thread : th'[u].pc # "idle" => th'[u].run \in Known'
      BY <1>3, <1>10, <1>11, <1>12 DEF BaseInv, WorkedOnKnown
  <2>3. \A u \in Thread : \A i \in DOMAIN th'[u].kids : th'[u].kids[i] \in Known'
      BY <2>1, <1>10, <1>11, <1>12 DEF BaseInv, WorkedOnKnown
  <2> QED BY <2>2, <2>3 DEF WorkedOnKnown
<1> QED BY <1>13, <1>14, <1>15, <1>16, <1>17 DEF BaseInv

-----------------------------------------------------------------------------
(***************************************************************************)
(* The whole system.                                                       *)
(***************************************************************************)
LEMMA StepKept ==
    ASSUME BaseInv, NEW t \in Thread, StepOK(t)
    PROVE  BaseInv'
<1>1. \A u \in Thread : ThreadOK(th'[u])
    BY ThreadsOK DEF StepOK, OnlyThread
<1> QED BY <1>1, BaseKept DEF StepOK, OnlyThread

\* A step from outside: the goroutines stay where they are.
LEMMA OutsideKept ==
    ASSUME BaseInv, UNCHANGED th, RunsKept, LogsOK, PendingOK
    PROVE  BaseInv'
<1>1. th' \in [Thread -> ThreadRecord] /\ \A u \in Thread : ThreadOK(th'[u])
    BY ThreadsOK DEF BaseInv, TypeOK
<1> QED BY <1>1, BaseKept

\* The timer, the clock and the publishers.
LEMMA ClockOK ==
    ASSUME BaseInv, NEW r \in Run, Tick(r) \/ TimerPoll(r) \/ PublishOut(r)
    PROVE  BaseInv'
<1>1. CASE Tick(r)
  <2>1. runs[r] \in RunRecord /\ runs[r].wakeup = "later" /\ Stored(runs[r])
      BY <1>1, RunsStored DEF Tick, BaseInv, TypeOK
  <2>3. Keeps(runs[r], [runs[r] EXCEPT !.wakeup = "due"])
      BY <2>1 DEF Keeps, Stored, RunRecord, Wakeup
  <2>4. runs' = [runs EXCEPT ![r] = [runs[r] EXCEPT !.wakeup = "due"]]
      BY <1>1 DEF Tick
  <2>5. RunsKept
    <3> DEFINE rec == [runs[r] EXCEPT !.wakeup = "due"]
    <3>1. rec.state = runs[r].state /\ rec \in RunRecord
        BY <2>1, <2>3 DEF RunRecord, Keeps, Stored
    <3>2. runs' = [runs EXCEPT ![r] = rec]
        BY <2>4
    <3>3. Keeps(runs[r], rec)
        BY <2>3
    <3> HIDE DEF rec
    <3>4. runs \in [Run -> RunRecord] /\ runs'[r] = rec
          /\ \A q \in Run : q # r => runs'[q] = runs[q]
        BY <3>2 DEF BaseInv, TypeOK
    <3>5. runs' \in [Run -> RunRecord] /\ Known' = Known
        BY <3>1, <3>2, <3>4 DEF Known
    <3>6. \A q \in Run : Keeps(runs[q], runs'[q])
        BY <3>3, <3>4, RunsStored, KeepsItself
    <3> QED BY <3>5, <3>6 DEF RunsKept
  <2>6. LogsOK
      BY <1>1 DEF Tick, BaseInv, TypeOK, LogsOK
  <2>7. PendingOK /\ UNCHANGED th
      BY <1>1, PendingSame DEF Tick
  <2> QED BY <2>5, <2>6, <2>7, OutsideKept
<1>2. CASE TimerPoll(r)
  <2>1. r \in Known
      BY <1>2 DEF TimerPoll, DueWakeup, Known
  <2>2. RunsKept /\ LogsOK /\ PendingOK /\ UNCHANGED th
      BY <1>2, <2>1, RunsSame, LogsSame, PendingPublish DEF TimerPoll
  <2> QED BY <2>2, OutsideKept
<1>3. CASE PublishOut(r)
  <2>1. r \in Known /\ RunsKept /\ LogsOK /\ UNCHANGED th
      BY <1>3, RunsSame, LogsSame DEF PublishOut, BaseInv, PendingKnown
  <2>2. PendingOK
      BY <1>3, <2>1 DEF PublishOut, BaseInv, TypeOK, PendingKnown, PendingOK, Known
  <2> QED BY <2>1, <2>2, OutsideKept
<1> QED BY <1>1, <1>2, <1>3

\* Signals and events.
LEMMA WakersOK ==
    ASSUME BaseInv, NEW r \in Run, (\E n \in Name : Signal(r, n)) \/ EventWake(r)
    PROVE  BaseInv'
<1>1. ASSUME NEW n \in Name, Signal(r, n) PROVE BaseInv'
  <2>1. r \in Known
      BY <1>1 DEF Signal, AwaitsSignal, Known
  <2>2. Keeps(runs[r], ConsumeSignal(runs[r]))
      BY RunsStored, KeepsClears
  <2>3. RunsKept
      BY <1>1, <2>1, <2>2, OneWrite DEF Signal
  <2>4. LogsOK /\ UNCHANGED th
      BY <1>1 DEF Signal, BaseInv, TypeOK, LogsOK
  <2>5. PendingOK
      BY <1>1, <2>1 DEF Signal, BaseInv, TypeOK, PendingKnown, PendingOK
  <2> QED BY <2>3, <2>4, <2>5, OutsideKept
<1>2. CASE EventWake(r)
  <2>1. r \in Known
      BY <1>2 DEF EventWake, BaseInv, PendingKnown
  <2>2. Keeps(runs[r], WakeFromExternal(runs[r]))
      BY RunsStored, KeepsClears
  <2>3. RunsKept
      BY <1>2, <2>1, <2>2, OneWrite DEF EventWake
  <2>4. LogsOK /\ UNCHANGED th
      BY <1>2, LogsSame DEF EventWake
  <2>5. PendingOK
      BY <1>2, <2>1 DEF EventWake, BaseInv, TypeOK, PendingKnown, PendingOK
  <2> QED BY <2>3, <2>4, <2>5, OutsideKept
<1> QED BY <1>1, <1>2

LEMMA EventArrivesOK ==
    ASSUME BaseInv, NEW n \in Name, EventArrives(n)
    PROVE  BaseInv'
<1>1. matched' \subseteq Known
    BY DEF EventArrives, AwaitsEvent, Known
<1>2. LogsOK /\ UNCHANGED th
    BY DEF EventArrives, BaseInv, TypeOK, LogsOK
<1>3. PendingOK
    BY <1>1 DEF EventArrives, BaseInv, TypeOK, PendingKnown, PendingOK
<1>4. RunsKept
    BY RunsSame DEF EventArrives
<1> QED BY <1>2, <1>3, <1>4, OutsideKept

\* A worker reports on an action.
LEMMA ReportsOK ==
    ASSUME BaseInv, NEW c \in cmds, ReportResult(c) \/ ReportError(c)
    PROVE  BaseInv'
<1>1. c \in Command /\ c.run \in Known /\ c.run \in Run /\ c.attempt \in Nat /\ c.step \in Step
    BY DEF BaseInv, TypeOK, PendingKnown, Command
<1>2. cmds' \subseteq cmds
    BY DEF ReportResult, ReportError
<1>3. /\ Keeps(runs[c.run], CompleteAction(runs[c.run], c.attempt))
      /\ Keeps(runs[c.run], FailAction(runs[c.run], c.attempt))
  <2>1. Nil \in Name \cup {Nil} /\ TRUE \in BOOLEAN
      OBVIOUS
  <2> QED BY <1>1, <2>1, RunsStored, KeepsPauses
<1>4. CASE ReportResult(c)
  <2>1. RunsKept
      BY <1>1, <1>3, <1>4, OneWrite DEF ReportResult
  <2>2. granted' \in [Run -> BOOLEAN]
      BY <1>1, <1>4 DEF ReportResult, BaseInv, TypeOK
  <2>3. LogsOK /\ UNCHANGED th
      BY <1>4, <2>2 DEF ReportResult, BaseInv, TypeOK, LogsOK
  <2>4. PendingOK
      BY <1>1, <1>2, <1>4 DEF ReportResult, BaseInv, TypeOK, PendingKnown, PendingOK
  <2> QED BY <2>1, <2>3, <2>4, OutsideKept
<1>5. CASE ReportError(c)
  <2>1. RunsKept
      BY <1>1, <1>3, <1>5, OneWrite DEF ReportError
  <2>2. LogsOK /\ UNCHANGED th
      BY <1>5, LogsSame DEF ReportError
  <2>3. PendingOK
      BY <1>2, <1>5 DEF ReportError, BaseInv, TypeOK, PendingKnown, PendingOK
  <2> QED BY <2>1, <2>2, <2>3, OutsideKept
<1> QED BY <1>4, <1>5

LEMMA BaseInit == Init => BaseInv
<1> SUFFICES ASSUME Init PROVE BaseInv
    OBVIOUS
<1> DEFINE first == [r \in Run |-> IF First[r] = Nil THEN Absent ELSE NewSagaRun(First[r])]
<1>1. runs = first /\ th = [t \in Thread |-> Idle]
      /\ queue = [r \in Run |-> IF first[r].state = "pending" THEN 1 ELSE 0]
    BY DEF Init, CoordinatorInit
<1>2. ASSUME NEW r \in Run
      PROVE  /\ Stored(first[r]) /\ first[r].parent = Nil
             /\ first[r].state # "absent" => first[r].start \in Step
  <2>1. CASE First[r] = Nil
    <3>1. first[r] = Absent
        BY <2>1
    <3>2. Absent.state = "absent"
        BY DEF Absent
    <3> QED BY <3>1, <3>2, AbsentStored
  <2>2. CASE First[r] # Nil
    <3>1. First[r] \in Step /\ first[r] = NewSagaRun(First[r])
        BY <2>2, SystemAssumption
    <3> QED BY <3>1, NewRunStored
  <2> QED BY <2>1, <2>2
<1> HIDE DEF first
<1>3. /\ runs \in [Run -> RunRecord] /\ \A r \in Run : Len(runs[r].frames) <= MaxFrames
  <2>1. \A r \in Run : first[r] \in RunRecord /\ Len(first[r].frames) <= MaxFrames
      BY <1>2 DEF Stored
  <2>2. runs = [r \in Run |-> first[r]]
      BY <1>1 DEF first
  <2> QED BY <2>1, <2>2
<1>4. th \in [Thread -> ThreadRecord]
    BY <1>1, IdleOK
<1>5. TypeOK
  <2>1. <<>> \in Seq(Step)
      OBVIOUS
  <2>2. queue \in [Run -> Nat]
      BY <1>1
  <2> QED BY <1>3, <1>4, <2>1, <2>2, CoordinatorAssumption DEF Init, CoordinatorInit, TypeOK
<1>6. \A t \in Thread : th[t] = Idle
    BY <1>1
<1>7. Idle.pc = "idle" /\ Idle.snap.parent = Nil /\ DOMAIN Idle.kids = {}
    BY AbsentStored DEF Idle
<1>8. StartsKnown
    BY <1>1, <1>2, <1>6, <1>7 DEF StartsKnown, HasRead, Known
<1>9. PendingKnown
    BY <1>1 DEF PendingKnown, Init, CoordinatorInit, Known
<1>10. ParentsKnown
    BY <1>1, <1>2, <1>6, <1>7 DEF ParentsKnown
<1>11. WorkedOnKnown
    BY <1>6, <1>7 DEF WorkedOnKnown
<1> QED BY <1>5, <1>8, <1>9, <1>10, <1>11 DEF BaseInv

LEMMA ProceedKept ==
    ASSUME BaseInv, NEW t \in Thread, Proceed(t), UNCHANGED <<outbox, matched>>
    PROVE  BaseInv'
<1>1. CASE SpawnChild(t)
    BY <1>1, SpawnOK
<1>2. ASSUME ~SpawnChild(t) PROVE StepOK(t)
  <2>1. CASE Load(t) \/ CheckChildren(t) \/ Clear(t) \/ Reread(t) \/ SetNext(t) \/ Dispatch(t)
      BY <2>1, LoadOK, WakingOK, DispatchOK
  <2>2. CASE \/ Complete(t) \/ Reject(t) \/ ExecWait(t) \/ ExecSignal(t) \/ ExecEvent(t)
             \/ ExecAction(t) \/ PauseFork(t) \/ PauseJoin(t) \/ ExecCancel(t)
      BY <2>2, VerbWritesOK
  <2>3. CASE \/ ExecSync(t) \/ VerbFails(t) \/ Send(t) \/ SendFails(t) \/ PublishFails(t)
             \/ ForkPaused(t) \/ ExecJoin(t) \/ RolledBack(t) \/ Barrier(t) \/ ParentJoin(t)
      BY <2>3, QuietOK
  <2>4. CASE PublishChild(t) \/ PublishSpawned(t) \/ ExecTry(t) \/ Catch(t)
      BY <2>4, PublishChildOK, PublishSpawnedOK, TryOK
  <2>5. CASE \/ Uncaught(t) \/ StartRollback(t) \/ Undo(t) \/ MarkFailed(t) \/ CancelWrite(t)
      BY <2>5, RollbackOK, CancelOK
  <2>6. CASE WakeParent(t) \/ PublishParent(t) \/ Done(t)
      BY <2>6, ParentOK, EndsOK
  <2> QED BY <1>2, <2>1, <2>2, <2>3, <2>4, <2>5, <2>6 DEF Proceed
<1> QED BY <1>1, <1>2, StepKept

LEMMA BaseNext == BaseInv /\ [Next]_vars => BaseInv'
<1> SUFFICES ASSUME BaseInv, [Next]_vars PROVE BaseInv'
    OBVIOUS
<1>1. CASE UNCHANGED vars
  <2>1. RunsKept /\ LogsOK /\ PendingOK /\ UNCHANGED th
      BY <1>1, RunsSame, LogsSame, PendingSame DEF vars
  <2> QED BY <2>1, OutsideKept
<1>2. CASE CoordinatorNext /\ UNCHANGED <<outbox, matched>>
  <2> USE DEF Thread
  <2>1. ASSUME NEW t \in Worker, NEW r \in Run, Deliver(t, r) PROVE BaseInv'
      BY <1>2, <2>1, DeliverOK, StepKept
  <2>2. ASSUME NEW t \in Worker, AcquireLock(t) PROVE BaseInv'
      BY <1>2, <2>2, AcquireOK, StepKept
  <2>3. ASSUME NEW t \in Caller, NEW r \in Run, CancelRead(t, r) PROVE BaseInv'
      BY <1>2, <2>3, CancelOK, StepKept
  <2>4. ASSUME NEW t \in Thread, Proceed(t) PROVE BaseInv'
      BY <1>2, <2>4, ProceedKept
  <2>5. ASSUME NEW t \in Thread, Abort(t) PROVE BaseInv'
      BY <1>2, <2>5, EndsOK, StepKept
  <2> QED BY <1>2, <2>1, <2>2, <2>3, <2>4, <2>5 DEF CoordinatorNext
<1>3. CASE Outside
  <2>1. ASSUME NEW r \in Run, Tick(r) \/ TimerPoll(r) \/ PublishOut(r) PROVE BaseInv'
      BY <2>1, ClockOK
  <2>2. ASSUME NEW r \in Run, NEW n \in Name, Signal(r, n) PROVE BaseInv'
      BY <2>2, WakersOK
  <2>3. ASSUME NEW r \in Run, EventWake(r) PROVE BaseInv'
      BY <2>3, WakersOK
  <2>4. ASSUME NEW n \in Name, EventArrives(n) PROVE BaseInv'
      BY <2>4, EventArrivesOK
  <2>5. ASSUME NEW c \in cmds, ReportResult(c) \/ ReportError(c) PROVE BaseInv'
      BY <2>5, ReportsOK
  <2> QED BY <1>3, <2>1, <2>2, <2>3, <2>4, <2>5 DEF Outside
<1> QED BY <1>1, <1>2, <1>3 DEF Next

\* Every reachable state has its type, and no goroutine, message, command or waker
\* refers to a run that does not exist (advance.go, coordinator.go, the verbs).
THEOREM BaseCorrect == Spec => []BaseInv
BY BaseInit, BaseNext, PTL DEF Spec

\* The try_catch stack never exceeds its bound, no counter leaves its type, and every
\* pointer into the store names a run (store/memory/store.go, engine/advance.go).
THEOREM TypeCorrect == Spec => []TypeOK
<1>1. BaseInv => TypeOK
    BY DEF BaseInv
<1> QED BY <1>1, BaseCorrect, PTL

-----------------------------------------------------------------------------
(***************************************************************************)
(* Await markers.  The argument is the run lock.  Markers are set only by  *)
(* the goroutine that holds the lock, on a run it has found, or made,      *)
(* unmarked; everyone else (a signal, an event, a cancellation, a child    *)
(* that ends) only clears them.                                            *)
(***************************************************************************)
OneProcess == \A t, u \in Worker : PodOf[t] = PodOf[u]

\* b is what somebody without the lock may leave of the run a.
Clears(a, b) ==
    /\ b.step = a.step
    /\ b.signal \in {a.signal, Nil} /\ b.topic \in {a.topic, Nil}
    /\ b.state = a.state \/ Unmarked(b)

LEMMA ClearsMatch ==
    ASSUME NEW a, NEW b, Clears(a, b)
    PROVE  /\ AwaitMatches(a) => AwaitMatches(b)
           /\ Unmarked(a) => Unmarked(b)
           /\ b.step = a.step
BY DEF Clears, AwaitMatches, Unmarked

LEMMA UnmarkedMatches ==
    ASSUME NEW m, Unmarked(m)
    PROVE  AwaitMatches(m)
BY DEF AwaitMatches, Unmarked

LEMMA WorkerIsNoCaller == \A t \in Worker : t \in Thread /\ t \notin Caller
BY CoordinatorAssumption DEF Thread

LEMMA WorkPCs ==
    /\ ExecPC \subseteq WorkPC
    /\ \A pc \in WorkPC : pc \notin {"idle", "wait", "load"}
BY DEF ExecPC, WorkPC

\* A goroutine with the run's lock writes its own run.
LEMMA OwnStep ==
    ASSUME AwaitInv, NEW t \in Worker, HasLock(t), OnlyThread(t),
           th'[t].run = th[t].run \/ th'[t].pc = "idle",
           \A r \in Run : r # th[t].run => runs'[r] = runs[r],
           AwaitMatches(runs'[th[t].run]),
           th'[t].pc \in WorkPC => Unmarked(runs'[th[t].run]),
           th'[t].pc \in ExecPC => runs'[th[t].run].step = CurrentStep(th'[t].snap)
    PROVE  LockInv'
<1> DEFINE q == th[t].run
<1>1. t \in Thread /\ t \notin Caller /\ \A u \in Worker : u \in Thread
    BY WorkerIsNoCaller
<1>2. \A u \in Thread : u # t => th'[u] = th[u]
    BY DEF OnlyThread
<1>3. CallersOnlyCancel'
    BY <1>1, <1>2 DEF AwaitInv, LockInv, CallersOnlyCancel, Thread
<1>4. ASSUME NEW u \in Worker, u # t, HasLock(u)
      PROVE  th[u].run # q /\ th[u].run \in Run /\ runs'[th[u].run] = runs[th[u].run]
  <2>1. th[u].run # q
      BY <1>4 DEF AwaitInv, LockInv, OneAdvancePerRun
  <2>2. th[u].run \in Run
      BY <1>1, <1>4, Working DEF AwaitInv, HasLock
  <2> QED BY <2>1, <2>2
<1>5. OneAdvancePerRun'
    BY <1>1, <1>2, <1>4 DEF AwaitInv, LockInv, OneAdvancePerRun, HasLock
<1>6. ASSUME NEW u \in Worker, th'[u].pc \in WorkPC PROVE Unmarked(runs'[th'[u].run])
  <2>1. CASE u = t
      BY <1>6, <2>1, WorkPCs
  <2>2. CASE u # t
      BY <1>1, <1>2, <1>4, <1>6, <2>2, WorkPCs
         DEF AwaitInv, LockInv, WorkedOnUnmarked, HasLock
  <2> QED BY <2>1, <2>2
<1>7. ASSUME NEW u \in Worker, th'[u].pc \in ExecPC
      PROVE  runs'[th'[u].run].step = CurrentStep(th'[u].snap)
  <2>1. CASE u = t
      BY <1>7, <2>1, WorkPCs
  <2>2. CASE u # t
      BY <1>1, <1>2, <1>4, <1>7, <2>2, WorkPCs
         DEF AwaitInv, LockInv, StepHeld, StepOf, HasLock
  <2> QED BY <2>1, <2>2
<1>8. AwaitMatchesStep'
    BY DEF AwaitInv, LockInv, AwaitMatchesStep
<1> QED BY <1>3, <1>5, <1>6, <1>7, <1>8
        DEF LockInv, WorkedOnUnmarked, StepHeld, StepOf, Unmarked

\* Whoever only clears markers.
LEMMA ClearStep ==
    ASSUME AwaitInv, \A r \in Run : Clears(runs[r], runs'[r]),
           NEW t \in Thread, OnlyThread(t),
           t \in Caller => th'[t].pc \in CallerPC,
           t \in Worker => /\ th'[t].pc \notin WorkPC
                           /\ \/ th'[t].pc \in {"idle", "wait"}
                              \/ HasLock(t) /\ th'[t].run = th[t].run
    PROVE  LockInv'
<1>1. \A u \in Worker : u \in Thread
    BY WorkerIsNoCaller
<1>2. \A u \in Thread : u # t => th'[u] = th[u]
    BY DEF OnlyThread
<1>3. CallersOnlyCancel'
    BY <1>2 DEF AwaitInv, LockInv, CallersOnlyCancel, Thread
<1>4. OneAdvancePerRun'
    BY <1>1, <1>2 DEF AwaitInv, LockInv, OneAdvancePerRun, HasLock
<1>5. ASSUME NEW u \in Worker, th'[u].pc \in WorkPC
      PROVE  /\ Unmarked(runs'[th'[u].run])
             /\ u # t /\ th'[u] = th[u] /\ th[u].run \in Run
  <2>1. u # t /\ th'[u] = th[u]
      BY <1>1, <1>2, <1>5
  <2>2. th[u].run \in Run
      BY <1>1, <1>5, <2>1, Working, WorkPCs DEF AwaitInv
  <2>3. Unmarked(runs[th[u].run])
      BY <1>5, <2>1 DEF AwaitInv, LockInv, WorkedOnUnmarked
  <2> QED BY <2>1, <2>2, <2>3, ClearsMatch
<1>6. ASSUME NEW u \in Worker, th'[u].pc \in ExecPC
      PROVE  runs'[th'[u].run].step = CurrentStep(th'[u].snap)
  <2>1. th'[u].pc \in WorkPC
      BY <1>6, WorkPCs
  <2>2. runs[th[u].run].step = CurrentStep(th[u].snap)
      BY <1>5, <1>6, <2>1 DEF AwaitInv, LockInv, StepHeld, StepOf
  <2> QED BY <1>5, <2>1, <2>2, ClearsMatch
<1>7. AwaitMatchesStep'
    BY ClearsMatch DEF AwaitInv, LockInv, AwaitMatchesStep
<1> QED BY <1>3, <1>4, <1>5, <1>6, <1>7
        DEF LockInv, WorkedOnUnmarked, StepHeld, StepOf, Unmarked

-----------------------------------------------------------------------------
(***************************************************************************)
(* What the store calls do to the markers and to the step.                 *)
(***************************************************************************)
LEMMA WritesUnmarked ==
    ASSUME NEW r \in RunRecord, Unmarked(r), NEW st, NEW s, NEW k
    PROVE  /\ Unmarked(UpdateRunState(r, st, s)) /\ UpdateRunState(r, st, s).step = s
           /\ Unmarked(MarkRunFailed(r, s))
           /\ Unmarked(SetPausedWithWakeup(r))
           /\ Unmarked(MarkAwaitingAction(r, s, k)) /\ MarkAwaitingAction(r, s, k).step = r.step
<1>1. Unmarked(UpdateRunState(r, st, s)) /\ UpdateRunState(r, st, s).step = s
    BY DEF UpdateRunState, Unmarked, RunRecord
<1>2. Unmarked(SetPausedWithWakeup(r))
    BY DEF SetPausedWithWakeup, Unmarked, RunRecord
<1>3. Unmarked(MarkRunFailed(r, s))
  <2>1. \/ MarkRunFailed(r, s) = r
        \/ MarkRunFailed(r, s) = [r EXCEPT !.state = "failed", !.step = s]
      BY DEF MarkRunFailed
  <2>2. Unmarked([r EXCEPT !.state = "failed", !.step = s])
      BY DEF Unmarked, RunRecord
  <2> QED BY <2>1, <2>2
<1>4. Unmarked(MarkAwaitingAction(r, s, k)) /\ MarkAwaitingAction(r, s, k).step = r.step
  <2> DEFINE m == [r EXCEPT !.state = "paused", !.action = s, !.attempt = k]
  <2>1. MarkAwaitingAction(r, s, k) = r \/ MarkAwaitingAction(r, s, k) = m
      BY DEF MarkAwaitingAction
  <2>2. Unmarked(m) /\ m.step = r.step
      BY DEF Unmarked, RunRecord
  <2> QED BY <2>1, <2>2
<1> QED BY <1>1, <1>2, <1>3, <1>4

LEMMA FramesUnmarked ==
    ASSUME NEW r \in RunRecord, Unmarked(r), NEW s
    PROVE  Unmarked(PushTryCatch(r, s)) /\ Unmarked(PopTryCatch(r))
BY DEF PushTryCatch, PopTryCatch, Unmarked, RunRecord

\* The waits, on the step the run is at.
LEMMA PausesMatch ==
    ASSUME NEW r \in RunRecord, Unmarked(r), r.step \in Step, NEW d \in BOOLEAN
    PROVE  /\ Def[r.step].type = "signal"
                => AwaitMatches(SetPausedAwaitingSignal(r, Def[r.step].name, d))
           /\ Def[r.step].type = "event"
                => AwaitMatches(SetPausedAwaitingEvent(r, Def[r.step].name, d))
<1> DEFINE n == Def[r.step].name
<1>1. r.step # Nil
    BY NilIsNone
<1>2. ASSUME Def[r.step].type = "signal" PROVE AwaitMatches(SetPausedAwaitingSignal(r, n, d))
  <2> DEFINE m == SetPausedAwaitingSignal(r, n, d)
  <2>1. m.state = "paused" /\ m.signal = n /\ m.topic = r.topic /\ m.step = r.step
      BY DEF SetPausedAwaitingSignal, RunRecord
  <2> HIDE DEF m
  <2>2. AwaitMatches(m)
      BY <1>1, <1>2, <2>1 DEF AwaitMatches, Unmarked
  <2> QED BY <2>2 DEF m
<1>3. ASSUME Def[r.step].type = "event" PROVE AwaitMatches(SetPausedAwaitingEvent(r, n, d))
  <2> DEFINE m == SetPausedAwaitingEvent(r, n, d)
  <2>1. m.state = "paused" /\ m.topic = n /\ m.signal = r.signal /\ m.step = r.step
      BY DEF SetPausedAwaitingEvent, RunRecord
  <2> HIDE DEF m
  <2>2. AwaitMatches(m)
      BY <1>1, <1>3, <2>1 DEF AwaitMatches, Unmarked
  <2> QED BY <2>2 DEF m
<1> QED BY <1>2, <1>3

\* The calls that are made without the run's lock, and ClearPause.
LEMMA ClearersClear ==
    ASSUME NEW r \in RunRecord, NEW k
    PROVE  /\ Clears(r, r)
           /\ Clears(r, WakeFromExternal(r)) /\ Clears(r, ConsumeSignal(r))
           /\ Clears(r, Cancel(r))
           /\ Clears(r, CompleteAction(r, k))
           /\ Clears(r, [r EXCEPT !.wakeup = "due"])
           /\ Unmarked(ClearPause(r))
<1>1. Clears(r, r)
    BY DEF Clears
<1> DEFINE c == ClearAwaits(r)
<1>2. c \in RunRecord /\ Unmarked(c) /\ Clears(r, c) /\ c.step = r.step
    BY DEF ClearAwaits, RunRecord, Wakeup, Unmarked, Clears
<1>3. Clears(r, WakeFromExternal(r)) /\ Clears(r, ConsumeSignal(r))
    BY <1>2 DEF WakeFromExternal, ConsumeSignal
<1>4. ClearPause(r) = [c EXCEPT !.state = "running"]
    BY DEF ClearPause
<1>5. Cancel(r) = r \/ Cancel(r) = [c EXCEPT !.state = "cancelled", !.action = Nil]
    BY DEF Cancel
<1> HIDE DEF c
<1>6. Unmarked(ClearPause(r))
    BY <1>2, <1>4 DEF Unmarked, RunRecord
<1>7. Clears(r, [c EXCEPT !.state = "cancelled", !.action = Nil])
    BY <1>2 DEF Unmarked, Clears, RunRecord
<1>8. Clears(r, Cancel(r))
    BY <1>1, <1>5, <1>7
<1>9. Clears(r, [r EXCEPT !.wakeup = "due"])
    BY DEF Clears, RunRecord
<1>10. Clears(r, [r EXCEPT !.action = Nil, !.wakeup = "due"])
    BY DEF Clears, RunRecord
<1>11. Clears(r, CompleteAction(r, k))
  <2>1. CompleteAction(r, k) = r \/ CompleteAction(r, k) = [r EXCEPT !.action = Nil, !.wakeup = "due"]
      BY DEF CompleteAction
  <2> QED BY <1>1, <1>10, <2>1
<1> QED BY <1>1, <1>3, <1>6, <1>8, <1>9, <1>11

-----------------------------------------------------------------------------
(***************************************************************************)
(* What the steps of a goroutine do to its place.                          *)
(***************************************************************************)
Stays(t) == th'[t].run = th[t].run /\ th'[t].snap = th[t].snap

LEMMA Places ==
    ASSUME BaseInv, NEW t \in Thread
    PROVE  /\ \A pc : Go(t, pc) => th'[t].pc = pc /\ Stays(t)
           /\ \A e : Return(t, e) => th'[t].pc = "done" /\ Stays(t)
           /\ \A nexts : Follow(t, nexts) => th'[t].pc \in {"done", "setnext"} /\ Stays(t)
           /\ Retry(t) => th'[t].pc \in {"exec", "fail"} /\ Stays(t)
<1>1. th \in [Thread -> ThreadRecord] /\ th[t] \in ThreadRecord
    BY DEF BaseInv, TypeOK
<1>2. ASSUME NEW pc, Go(t, pc) PROVE th'[t].pc = pc /\ Stays(t)
  <2>1. th'[t] = [th[t] EXCEPT !.pc = pc]
      BY <1>1, <1>2 DEF Go
  <2> QED BY <1>1, <2>1 DEF ThreadRecord, Stays
<1>3. ASSUME NEW e, Return(t, e) PROVE th'[t].pc = "done" /\ Stays(t)
  <2>1. th'[t] = [th[t] EXCEPT !.pc = "done", !.err = e]
      BY <1>1, <1>3 DEF Return
  <2> QED BY <1>1, <2>1 DEF ThreadRecord, Stays
<1>4. ASSUME NEW nexts, Follow(t, nexts) PROVE th'[t].pc \in {"done", "setnext"} /\ Stays(t)
  <2>1. CASE Return(t, TRUE)
      BY <1>3, <2>1
  <2>2. CASE \E n \in nexts : th' = [th EXCEPT ![t].pc = "setnext", ![t].next = n]
    <3>1. PICK n \in nexts : th' = [th EXCEPT ![t].pc = "setnext", ![t].next = n]
        BY <2>2
    <3>2. th'[t] = [th[t] EXCEPT !.pc = "setnext", !.next = n]
        BY <1>1, <3>1
    <3> QED BY <1>1, <3>2 DEF ThreadRecord, Stays
  <2> QED BY <1>4, <2>1, <2>2 DEF Follow
<1>5. ASSUME Retry(t) PROVE th'[t].pc \in {"exec", "fail"} /\ Stays(t)
  <2>1. PICK pc \in {"exec", "fail"} :
          th' = [th EXCEPT ![t].tries = th[t].tries + 1, ![t].pc = pc,
                           ![t].left = DefOf(t).kids, ![t].kids = <<>>]
      BY <1>5 DEF Retry
  <2>2. th'[t] = [th[t] EXCEPT !.tries = th[t].tries + 1, !.pc = pc,
                               !.left = DefOf(t).kids, !.kids = <<>>]
      BY <1>1, <2>1
  <2> QED BY <1>1, <2>2 DEF ThreadRecord, Stays
<1> QED BY <1>2, <1>3, <1>4, <1>5

LEMMA Written ==
    ASSUME BaseInv, NEW t \in Thread, th[t].pc # "idle", NEW rec, Write(t, rec)
    PROVE  runs'[th[t].run] = rec /\ \A r \in Run : r # th[t].run => runs'[r] = runs[r]
BY Working DEF Write, BaseInv, TypeOK

\* A goroutine that is executing a step leaves the store alone.
LEMMA WorkQuiet ==
    ASSUME AwaitInv, NEW t \in Worker, th[t].pc \in WorkPC, OnlyThread(t), Stays(t),
           UNCHANGED runs, th'[t].pc \in ExecPC => th[t].pc \in ExecPC
    PROVE  LockInv'
<1>1. HasLock(t) /\ Unmarked(runs[th[t].run])
    BY WorkPCs DEF HasLock, AwaitInv, LockInv, WorkedOnUnmarked
<1>2. th'[t].pc \in ExecPC => runs'[th[t].run].step = CurrentStep(th'[t].snap)
    BY DEF Stays, AwaitInv, LockInv, StepHeld, StepOf
<1> QED BY <1>1, <1>2, OwnStep, UnmarkedMatches DEF Stays

\* It writes its run and leaves it unmarked.
LEMMA WorkWrite ==
    ASSUME AwaitInv, NEW t \in Worker, th[t].pc \in WorkPC, OnlyThread(t), Stays(t),
           NEW rec, Write(t, rec), Unmarked(rec), th'[t].pc \in ExecPC => rec.step = StepOf(t)
    PROVE  LockInv'
<1>1. HasLock(t) /\ th[t].pc # "idle" /\ t \in Thread /\ BaseInv
    BY WorkPCs, WorkerIsNoCaller DEF HasLock, AwaitInv
<1>2. runs'[th[t].run] = rec /\ \A r \in Run : r # th[t].run => runs'[r] = runs[r]
    BY <1>1, Written
<1>3. th'[t].pc \in ExecPC => runs'[th[t].run].step = CurrentStep(th'[t].snap)
    BY <1>2 DEF Stays, StepOf
<1> QED BY <1>1, <1>2, <1>3, OwnStep, UnmarkedMatches DEF Stays

\* It pauses its run on a wait, or leaves it, and returns.
LEMMA WorkEnds ==
    ASSUME AwaitInv, NEW t \in Worker, th[t].pc \in WorkPC, OnlyThread(t), Stays(t),
           NEW rec, Write(t, rec), AwaitMatches(rec), th'[t].pc = "done"
    PROVE  LockInv'
<1>1. HasLock(t) /\ th[t].pc # "idle" /\ t \in Thread /\ BaseInv
    BY WorkPCs, WorkerIsNoCaller DEF HasLock, AwaitInv
<1>2. runs'[th[t].run] = rec /\ \A r \in Run : r # th[t].run => runs'[r] = runs[r]
    BY <1>1, Written
<1>3. "done" \notin WorkPC /\ "done" \notin ExecPC
    BY DEF WorkPC, ExecPC
<1> QED BY <1>1, <1>2, <1>3, OwnStep DEF Stays

\* It moves without a write, to a place where it does not work on the run.
LEMMA RestingMove ==
    ASSUME AwaitInv, NEW t \in Worker, HasLock(t), OnlyThread(t), Stays(t), UNCHANGED runs,
           th'[t].pc \notin WorkPC
    PROVE  LockInv'
<1>1. \A r \in Run : Clears(runs[r], runs'[r])
    BY ClearersClear DEF AwaitInv, BaseInv, TypeOK
<1> QED BY <1>1, ClearStep, WorkerIsNoCaller DEF Stays

-----------------------------------------------------------------------------
(***************************************************************************)
(* The steps of an advance.                                                *)
(***************************************************************************)
LEMMA DeliverAwaits ==
    ASSUME AwaitInv, NEW t \in Worker, NEW r \in Run, Deliver(t, r), UNCHANGED <<outbox, matched>>
    PROVE  LockInv'
<1>1. t \in Thread /\ OnlyThread(t)
    BY WorkerIsNoCaller, DeliverOK DEF AwaitInv, StepOK
<1>2. th'[t].pc = "wait"
    BY <1>1 DEF Deliver, Idle, AwaitInv, BaseInv, TypeOK
<1>3. \A q \in Run : Clears(runs[q], runs'[q])
    BY ClearersClear DEF Deliver, AwaitInv, BaseInv, TypeOK
<1> QED BY <1>1, <1>2, <1>3, ClearStep, WorkPCs, WorkerIsNoCaller

\* Whoever gets the lock is alone in the middle of the run.
LEMMA AcquireAwaits ==
    ASSUME AwaitInv, OneProcess, NEW t \in Worker, AcquireLock(t), UNCHANGED <<outbox, matched>>
    PROVE  LockInv'
<1>1. t \in Thread /\ OnlyThread(t) /\ t \notin Caller /\ \A u \in Worker : u \in Thread
    BY WorkerIsNoCaller, AcquireOK DEF AwaitInv, StepOK
<1>2. th'[t].pc = "load" /\ Stays(t)
    BY <1>1, Places DEF AcquireLock, AwaitInv
<1>3. \A u \in Worker : th[u].run = th[t].run => ~HasLock(u)
    BY DEF AcquireLock, OneProcess, HasLock
<1>4. \A u \in Thread : u # t => th'[u] = th[u]
    BY <1>1 DEF OnlyThread
<1>5. CallersOnlyCancel'
    BY <1>1, <1>4 DEF AwaitInv, LockInv, CallersOnlyCancel, Thread
<1>6. OneAdvancePerRun'
    BY <1>1, <1>2, <1>3, <1>4 DEF AwaitInv, LockInv, OneAdvancePerRun, HasLock, Stays
<1>7. "load" \notin WorkPC /\ "load" \notin ExecPC
    BY DEF WorkPC, ExecPC
<1>8. WorkedOnUnmarked' /\ StepHeld' /\ AwaitMatchesStep'
    BY <1>1, <1>2, <1>4, <1>7
       DEF AcquireLock, AwaitInv, LockInv, WorkedOnUnmarked, StepHeld, StepOf, AwaitMatchesStep
<1> QED BY <1>5, <1>6, <1>8 DEF LockInv

\* A run that is dispatched without a pause before it carries no marker.
LEMMA LoadAwaits ==
    ASSUME AwaitInv, NEW t \in Worker, Load(t), UNCHANGED <<outbox, matched>>
    PROVE  LockInv'
<1> DEFINE r == Self(t)
<1>1. t \in Thread /\ OnlyThread(t) /\ HasLock(t) /\ th[t].pc # "idle"
    BY WorkerIsNoCaller, LoadOK DEF AwaitInv, StepOK, Load, HasLock
<1>2. th'[t].pc = AfterLoad(r) /\ th'[t].run = th[t].run
  <2>1. th[t] \in ThreadRecord /\ th \in [Thread -> ThreadRecord]
      BY <1>1 DEF AwaitInv, BaseInv, TypeOK
  <2>2. th'[t] = [th[t] EXCEPT !.pc = AfterLoad(r), !.snap = r, !.timedOut = TimedOut(r), !.tries = 0]
      BY <1>1, <2>1 DEF Load
  <2> HIDE DEF r
  <2> QED BY <2>1, <2>2 DEF ThreadRecord
<1>3. AwaitMatches(r)
    BY <1>1, Working DEF AwaitInv, LockInv, AwaitMatchesStep, Self
<1>4. AfterLoad(r) \in {"done", "clear", "children", "dispatch"}
      /\ (AfterLoad(r) = "dispatch" => r.state # "paused")
    BY DEF AfterLoad
<1>5. AfterLoad(r) \in WorkPC => Unmarked(r)
    BY <1>3, <1>4 DEF WorkPC, ExecPC, AwaitMatches, Unmarked
<1>6. AfterLoad(r) \notin ExecPC
    BY <1>4 DEF ExecPC
<1>7. UNCHANGED runs
    BY DEF Load
<1> QED BY <1>1, <1>2, <1>3, <1>5, <1>6, <1>7, OwnStep DEF Self

LEMMA WakingAwaits ==
    ASSUME AwaitInv, NEW t \in Worker, UNCHANGED <<outbox, matched>>,
           CheckChildren(t) \/ Clear(t) \/ Reread(t) \/ SetNext(t)
    PROVE  LockInv'
<1>1. t \in Thread /\ OnlyThread(t) /\ HasLock(t) /\ th[t].pc # "idle" /\ BaseInv
    BY WorkerIsNoCaller, WakingOK DEF AwaitInv, StepOK, CheckChildren, Clear, Reread, SetNext,
                                      HasLock
<1>2. Self(t) \in RunRecord
    BY <1>1, Working
<1>3. CASE CheckChildren(t)
  <2>1. th'[t].pc \in {"clear", "done"} /\ Stays(t)
      BY <1>1, <1>3, Places DEF CheckChildren
  <2>2. th'[t].pc \notin WorkPC
      BY <2>1 DEF WorkPC, ExecPC
  <2> QED BY <1>1, <1>3, <2>1, <2>2, RestingMove DEF CheckChildren
<1>4. CASE Clear(t)
  <2>1. th'[t].pc = "reread" /\ Stays(t)
      BY <1>1, <1>4, Places DEF Clear
  <2>2. Unmarked(ClearPause(Self(t)))
      BY <1>2, ClearersClear
  <2>3. runs'[th[t].run] = ClearPause(Self(t)) /\ \A r \in Run : r # th[t].run => runs'[r] = runs[r]
      BY <1>1, <1>4, Written DEF Clear
  <2>4. "reread" \notin ExecPC
      BY DEF ExecPC
  <2> QED BY <1>1, <2>1, <2>2, <2>3, <2>4, OwnStep, UnmarkedMatches DEF Stays
<1>5. CASE Reread(t)
  <2>1. th'[t].pc \in {"done", "setnext"} /\ Stays(t)
      BY <1>1, <1>5, Places DEF Reread
  <2>2. th[t].pc \in WorkPC /\ th'[t].pc \notin ExecPC
      BY <1>5, <2>1 DEF Reread, WorkPC, ExecPC
  <2> QED BY <1>1, <1>5, <2>1, <2>2, WorkQuiet DEF Reread
<1>6. CASE SetNext(t)
  <2>1. th'[t].pc = "load" /\ Stays(t)
    <3>1. th'[t] = [th[t] EXCEPT !.pc = "load", !.next = Nil] /\ th[t] \in ThreadRecord
        BY <1>1, <1>6 DEF SetNext, BaseInv, TypeOK
    <3> QED BY <3>1 DEF ThreadRecord, Stays
  <2>2. th[t].pc \in WorkPC /\ th'[t].pc \notin ExecPC
      BY <1>6, <2>1 DEF SetNext, WorkPC, ExecPC
  <2>3. Unmarked(Self(t))
      BY <2>2 DEF AwaitInv, LockInv, WorkedOnUnmarked, Self
  <2>4. Unmarked(UpdateRunState(Self(t), "running", th[t].next))
      BY <1>2, <2>3, WritesUnmarked
  <2> QED BY <1>1, <1>6, <2>1, <2>2, <2>4, WorkWrite DEF SetNext
<1> QED BY <1>3, <1>4, <1>5, <1>6

LEMMA DispatchAwaits ==
    ASSUME AwaitInv, NEW t \in Worker, Dispatch(t), UNCHANGED <<outbox, matched>>
    PROVE  LockInv'
<1>1. t \in Thread /\ OnlyThread(t) /\ th[t].pc # "idle" /\ BaseInv /\ th[t].pc \in WorkPC
    BY WorkerIsNoCaller, DispatchOK DEF AwaitInv, StepOK, Dispatch, WorkPC
<1>2. Self(t) \in RunRecord /\ Unmarked(Self(t))
    BY <1>1, Working DEF AwaitInv, LockInv, WorkedOnUnmarked, Self
<1>3. Stays(t)
  <2>1. PICK pc : th' = [th EXCEPT ![t].pc = pc, ![t].left = DefOf(t).kids, ![t].kids = <<>>]
      BY DEF Dispatch, DefOf
  <2>2. th[t] \in ThreadRecord
        /\ th'[t] = [th[t] EXCEPT !.pc = pc, !.left = DefOf(t).kids, !.kids = <<>>]
      BY <1>1, <2>1 DEF BaseInv, TypeOK
  <2> QED BY <2>2 DEF ThreadRecord, Stays
<1>4. LET rec == UpdateRunState(Self(t), "running", StepOf(t))
      IN  Unmarked(rec) /\ rec.step = StepOf(t)
    BY <1>2, WritesUnmarked
<1> QED BY <1>1, <1>3, <1>4, WorkWrite, SMTT(60) DEF Dispatch

\* The verbs' writes: only a signal or an event wait sets a marker, on its own step.
LEMMA VerbWritesAwait ==
    ASSUME AwaitInv, NEW t \in Worker, UNCHANGED <<outbox, matched>>,
           \/ Complete(t) \/ Reject(t) \/ ExecWait(t) \/ ExecSignal(t) \/ ExecEvent(t)
           \/ ExecAction(t) \/ PauseFork(t) \/ PauseJoin(t) \/ ExecCancel(t)
    PROVE  LockInv'
<1> DEFINE r == Self(t)
<1>1. t \in Thread /\ OnlyThread(t) /\ BaseInv
    BY WorkerIsNoCaller, VerbWritesOK DEF AwaitInv, StepOK
<1>2. th[t].pc \in WorkPC /\ th[t].pc # "idle" /\ HasRead(t)
    BY DEF Complete, Reject, ExecWait, ExecSignal, ExecEvent, ExecAction, PauseFork,
           PauseJoin, ExecCancel, WorkPC, ExecPC, HasRead
<1>3. r \in RunRecord /\ Unmarked(r) /\ StepOf(t) \in Step /\ DefOf(t).deadline \in BOOLEAN
    BY <1>1, <1>2, Working DEF AwaitInv, LockInv, WorkedOnUnmarked, Self, StepDef
<1>4. th[t].pc \in ExecPC => r.step = StepOf(t)
    BY DEF AwaitInv, LockInv, StepHeld, Self
<1>5. AfterTerminal(t) \notin ExecPC /\ "done" \notin ExecPC
    BY DEF AfterTerminal, ExecPC
<1> HIDE DEF r
<1>6. CASE Complete(t)
  <2>1. Stays(t) /\ th'[t].pc \notin ExecPC
      BY <1>1, <1>5, <1>6, Places DEF Complete
  <2>2. Unmarked(UpdateRunState(r, "succeeded", Nil))
      BY <1>3, WritesUnmarked
  <2> QED BY <1>1, <1>2, <1>6, <2>1, <2>2, WorkWrite DEF Complete, r
<1>7. CASE Reject(t)
  <2>1. Stays(t) /\ th'[t].pc \notin ExecPC
      BY <1>1, <1>5, <1>7, Places DEF Reject
  <2>2. Unmarked(MarkRunFailed(r, StepOf(t)))
      BY <1>3, WritesUnmarked
  <2> QED BY <1>1, <1>2, <1>7, <2>1, <2>2, WorkWrite DEF Reject, r
<1>8. CASE ExecWait(t)
  <2>1. Stays(t) /\ th'[t].pc \notin ExecPC
      BY <1>1, <1>5, <1>8, Places DEF ExecWait
  <2>2. Unmarked(SetPausedWithWakeup(r))
      BY <1>3, WritesUnmarked
  <2> QED BY <1>1, <1>2, <1>8, <2>1, <2>2, WorkWrite DEF ExecWait, r
<1>9. CASE ExecSignal(t)
  <2>1. Stays(t) /\ th'[t].pc = "done"
      BY <1>1, <1>9, Places DEF ExecSignal
  <2>2. r.step = StepOf(t) /\ Def[r.step].type = "signal"
      BY <1>4, <1>9 DEF ExecSignal, DefOf, ExecPC
  <2>3. AwaitMatches(SetPausedAwaitingSignal(r, Def[r.step].name, DefOf(t).deadline))
      BY <1>3, <2>2, PausesMatch
  <2> QED BY <1>1, <1>2, <1>9, <2>1, <2>2, <2>3, WorkEnds DEF ExecSignal, r, DefOf
<1>10. CASE ExecEvent(t)
  <2>1. Stays(t) /\ th'[t].pc = "done"
      BY <1>1, <1>10, Places DEF ExecEvent
  <2>2. r.step = StepOf(t) /\ Def[r.step].type = "event"
      BY <1>4, <1>10 DEF ExecEvent, DefOf, ExecPC
  <2>3. AwaitMatches(SetPausedAwaitingEvent(r, Def[r.step].name, DefOf(t).deadline))
      BY <1>3, <2>2, PausesMatch
  <2> QED BY <1>1, <1>2, <1>10, <2>1, <2>2, <2>3, WorkEnds DEF ExecEvent, r, DefOf
<1>11. CASE ExecAction(t)
  <2>1. Stays(t)
      BY <1>1, <1>11, Places DEF ExecAction
  <2>2. r.step = StepOf(t)
      BY <1>4, <1>11 DEF ExecAction, ExecPC
  <2>3. LET m == MarkAwaitingAction(r, StepOf(t), th[t].snap.attempt + 1)
        IN  Unmarked(m) /\ m.step = StepOf(t)
      BY <1>3, <2>2, WritesUnmarked
  <2> QED BY <1>1, <1>2, <1>11, <2>1, <2>3, WorkWrite DEF ExecAction, r
<1>12. LET m(st) == UpdateRunState(r, st, StepOf(t))
       IN  \A st \in RunState : Unmarked(m(st)) /\ m(st).step = StepOf(t)
    BY <1>3, WritesUnmarked
<1>13. CASE PauseFork(t)
  <2>1. Stays(t)
      BY <1>1, <1>13, Places DEF PauseFork
  <2> QED BY <1>1, <1>2, <1>12, <1>13, <2>1, WorkWrite DEF PauseFork, r, RunState
<1>14. CASE PauseJoin(t)
  <2>1. Stays(t)
      BY <1>1, <1>14, Places DEF PauseJoin
  <2> QED BY <1>1, <1>2, <1>12, <1>14, <2>1, WorkWrite DEF PauseJoin, r, RunState
<1>15. CASE ExecCancel(t)
  <2>1. Stays(t)
      BY <1>1, <1>15, Places DEF ExecCancel
  <2> QED BY <1>1, <1>2, <1>12, <1>15, <2>1, WorkWrite DEF ExecCancel, r, RunState
<1> QED BY <1>6, <1>7, <1>8, <1>9, <1>10, <1>11, <1>13, <1>14, <1>15

\* Steps that leave the store alone.
LEMMA QuietAwaits ==
    ASSUME AwaitInv, NEW t \in Worker, UNCHANGED <<outbox, matched>>,
           \/ ExecSync(t) \/ VerbFails(t) \/ Send(t) \/ SendFails(t) \/ PublishFails(t)
           \/ ForkPaused(t) \/ ExecJoin(t) \/ RolledBack(t) \/ Barrier(t) \/ ParentJoin(t)
           \/ PublishSpawned(t)
    PROVE  LockInv'
<1>1. t \in Thread /\ OnlyThread(t) /\ BaseInv
    BY WorkerIsNoCaller, QuietOK, PublishSpawnedOK DEF AwaitInv, StepOK
<1>2. UNCHANGED runs
    BY DEF ExecSync, VerbFails, Send, SendFails, PublishFails, ForkPaused, ExecJoin,
           RolledBack, Barrier, ParentJoin, PublishSpawned
<1>3. CASE Barrier(t) \/ ParentJoin(t)
  <2>1. Stays(t) /\ th'[t].pc \in {"wakejoin", "parent", "wakeparent", "done"} /\ HasLock(t)
      BY <1>1, <1>3, Places DEF Barrier, ParentJoin, HasLock
  <2>2. th'[t].pc \notin WorkPC
      BY <2>1 DEF WorkPC, ExecPC
  <2> QED BY <1>1, <1>2, <2>1, <2>2, RestingMove
<1>4. CASE RolledBack(t)
  <2>1. Stays(t) /\ th'[t].pc = "markfailed"
      BY <1>1, <1>4, Places DEF RolledBack
  <2>2. th[t].pc \in WorkPC /\ th'[t].pc \notin ExecPC
      BY <1>4, <2>1 DEF RolledBack, WorkPC, ExecPC
  <2> QED BY <1>1, <1>2, <2>1, <2>2, WorkQuiet
<1>5. CASE \/ ExecSync(t) \/ VerbFails(t) \/ Send(t) \/ SendFails(t) \/ PublishFails(t)
           \/ ForkPaused(t) \/ ExecJoin(t) \/ PublishSpawned(t)
  <2>1. th[t].pc \in ExecPC /\ th[t].pc \in WorkPC
      BY <1>5 DEF ExecSync, VerbFails, Send, SendFails, PublishFails, ForkPaused, ExecJoin,
                  PublishSpawned, ExecPC, WorkPC
  <2>2. Stays(t)
    <3>1. \/ Retry(t) \/ (\E e : Return(t, e)) \/ (\E n : Follow(t, n)) \/ Go(t, "pausejoin")
        BY <1>5 DEF ExecSync, VerbFails, Send, SendFails, PublishFails, ForkPaused, ExecJoin,
                    PublishSpawned, Succeed
    <3> QED BY <1>1, <3>1, Places
  <2> QED BY <1>1, <1>2, <2>1, <2>2, WorkQuiet, SMTT(60)
<1> QED BY <1>3, <1>4, <1>5

LEMMA FailureAwaits ==
    ASSUME AwaitInv, NEW t \in Worker, UNCHANGED <<outbox, matched>>,
           \/ ExecTry(t) \/ Catch(t) \/ Uncaught(t) \/ StartRollback(t) \/ Undo(t) \/ MarkFailed(t)
           \/ PublishChild(t)
    PROVE  LockInv'
<1> DEFINE r == Self(t)
<1>1. t \in Thread /\ OnlyThread(t) /\ BaseInv
    BY WorkerIsNoCaller, TryOK, RollbackOK, PublishChildOK DEF AwaitInv, StepOK
<1>2. th[t].pc \in WorkPC /\ th[t].pc # "idle"
    BY DEF ExecTry, Catch, Uncaught, StartRollback, Undo, MarkFailed, PublishChild, WorkPC, ExecPC
<1>3. r \in RunRecord /\ Unmarked(r)
    BY <1>1, <1>2, Working DEF AwaitInv, LockInv, WorkedOnUnmarked, Self
<1>4. th[t] \in ThreadRecord /\ th \in [Thread -> ThreadRecord]
    BY <1>1 DEF BaseInv, TypeOK
<1> HIDE DEF r
<1>5. CASE ExecTry(t)
  <2>1. CASE Retry(t) /\ UNCHANGED runs
    <3>1. Stays(t) /\ th[t].pc \in ExecPC
        BY <1>1, <1>5, <2>1, Places DEF ExecTry, ExecPC
    <3> QED BY <1>1, <1>2, <2>1, <3>1, WorkQuiet
  <2>2. CASE Write(t, PushTryCatch(r, DefOf(t).catch)) /\ Succeed(t)
    <3>1. Stays(t) /\ th'[t].pc \in {"done", "setnext"}
        BY <1>1, <2>2, Places DEF Succeed
    <3>2. th'[t].pc \notin ExecPC
        BY <3>1 DEF ExecPC
    <3>3. Unmarked(PushTryCatch(r, DefOf(t).catch))
        BY <1>3, FramesUnmarked
    <3> QED BY <1>1, <1>2, <2>2, <3>1, <3>2, <3>3, WorkWrite
  <2> QED BY <1>5, <2>1, <2>2 DEF ExecTry, r
<1>6. CASE Catch(t)
  <2>1. th'[t] = [th[t] EXCEPT !.pc = "setnext", !.next = TopFrame(r)]
      BY <1>1, <1>4, <1>6 DEF Catch, r
  <2>2. Stays(t) /\ th'[t].pc = "setnext"
      BY <1>4, <2>1 DEF ThreadRecord, Stays
  <2>3. th'[t].pc \notin ExecPC
      BY <2>2 DEF ExecPC
  <2>4. Unmarked(PopTryCatch(r))
      BY <1>3, FramesUnmarked, SMTT(60)
  <2> QED BY <1>1, <1>2, <1>6, <2>2, <2>3, <2>4, WorkWrite DEF Catch, r
<1>7. CASE Uncaught(t)
  <2>1. PICK pc \in {"rollback", "markfailed"} :
          th' = [th EXCEPT ![t].pc = pc, ![t].left = log[th[t].run]]
      BY <1>7 DEF Uncaught
  <2>2. th'[t] = [th[t] EXCEPT !.pc = pc, !.left = log[th[t].run]]
      BY <1>1, <1>4, <2>1
  <2>3. Stays(t) /\ th'[t].pc = pc
      BY <1>4, <2>2 DEF ThreadRecord, Stays
  <2>4. th'[t].pc \notin ExecPC
      BY <2>3 DEF ExecPC
  <2> QED BY <1>1, <1>2, <1>7, <2>3, <2>4, WorkQuiet DEF Uncaught
<1>8. CASE StartRollback(t)
  <2>1. Stays(t) /\ th'[t].pc = "undo"
      BY <1>1, <1>8, Places DEF StartRollback
  <2>2. th'[t].pc \notin ExecPC
      BY <2>1 DEF ExecPC
  <2>3. Unmarked(UpdateRunState(r, "compensating", th[t].snap.step))
      BY <1>3, WritesUnmarked, SMTT(60)
  <2> QED BY <1>1, <1>2, <1>8, <2>1, <2>2, <2>3, WorkWrite DEF StartRollback, r
<1>9. CASE Undo(t)
  <2>1. PICK l : th' = [th EXCEPT ![t].left = l]
      BY <1>9 DEF Undo
  <2>2. th'[t] = [th[t] EXCEPT !.left = l]
      BY <1>1, <1>4, <2>1
  <2>3. Stays(t) /\ th'[t].pc = th[t].pc
      BY <1>4, <2>2 DEF ThreadRecord, Stays
  <2> QED BY <1>1, <1>2, <1>9, <2>3, WorkQuiet, SMTT(60) DEF Undo
<1>10. CASE MarkFailed(t)
  <2>1. th'[t] = [th[t] EXCEPT !.pc = AfterTerminal(t), !.err = TRUE]
      BY <1>1, <1>4, <1>10 DEF MarkFailed
  <2>2. Stays(t) /\ th'[t].pc = AfterTerminal(t)
      BY <1>4, <2>1 DEF ThreadRecord, Stays
  <2>3. th'[t].pc \notin ExecPC
      BY <2>2 DEF ExecPC, AfterTerminal
  <2>4. Unmarked(MarkRunFailed(r, StepOf(t)))
      BY <1>3, WritesUnmarked
  <2> QED BY <1>1, <1>2, <1>10, <2>2, <2>3, <2>4, WorkWrite DEF MarkFailed, r
<1>11. CASE PublishChild(t)
  <2>1. th'[t] = [th[t] EXCEPT !.kids = Tail(th[t].kids)]
      BY <1>1, <1>4, <1>11 DEF PublishChild
  <2>2. Stays(t) /\ th'[t].pc = th[t].pc
      BY <1>4, <2>1 DEF ThreadRecord, Stays
  <2> QED BY <1>1, <1>2, <1>11, <2>2, WorkQuiet DEF PublishChild
<1> QED BY <1>5, <1>6, <1>7, <1>8, <1>9, <1>10, <1>11

\* A child that did not exist before has no goroutine and no marker.
LEMMA SpawnAwaits ==
    ASSUME AwaitInv, NEW t \in Worker, SpawnChild(t), UNCHANGED <<outbox, matched>>
    PROVE  LockInv'
<1> DEFINE c == FreshRun
           rec == SpawnChildRun(Head(th[t].left), th[t].run, StepOf(t))
<1>1. t \in Thread /\ t \notin Caller /\ BaseInv /\ \A u \in Worker : u \in Thread
    BY WorkerIsNoCaller DEF AwaitInv
<1>2. c \in Run /\ runs[c].state = "absent"
    BY DEF SpawnChild, FreshRun
<1>3. runs' = [runs EXCEPT ![c] = rec] /\ runs \in [Run -> RunRecord]
    BY <1>1 DEF SpawnChild, BaseInv, TypeOK
<1>4. Unmarked(rec)
    BY DEF SpawnChildRun, NewSagaRun, Absent, Unmarked
<1>5. th'[t] = [th[t] EXCEPT !.left = Tail(th[t].left), !.kids = Append(th[t].kids, c)]
      /\ th[t] \in ThreadRecord /\ \A u \in Thread : u # t => th'[u] = th[u]
    BY <1>1 DEF SpawnChild, BaseInv, TypeOK
<1> HIDE DEF c, rec
<1>6. Stays(t) /\ th'[t].pc = th[t].pc
    BY <1>5 DEF ThreadRecord, Stays
<1>7. \A u \in Thread : /\ th'[u].pc = th[u].pc
                        /\ th'[u].run = th[u].run /\ th'[u].snap = th[u].snap
    BY <1>5, <1>6 DEF Stays
<1>8. runs'[c] = rec /\ \A q \in Run : q # c => runs'[q] = runs[q]
    BY <1>2, <1>3
<1>9. \A u \in Thread : th[u].pc # "idle" => th[u].run \in Run /\ th[u].run # c
    BY <1>1, <1>2 DEF BaseInv, WorkedOnKnown, Known
<1>10. CallersOnlyCancel' /\ OneAdvancePerRun'
    BY <1>1, <1>7 DEF AwaitInv, LockInv, CallersOnlyCancel, OneAdvancePerRun, HasLock, Thread
<1>11. WorkedOnUnmarked'
    BY <1>1, <1>7, <1>8, <1>9, WorkPCs DEF AwaitInv, LockInv, WorkedOnUnmarked
<1>12. StepHeld'
    BY <1>1, <1>7, <1>8, <1>9, WorkPCs DEF AwaitInv, LockInv, StepHeld, StepOf
<1>13. AwaitMatchesStep'
    BY <1>4, <1>8, UnmarkedMatches DEF AwaitInv, LockInv, AwaitMatchesStep
<1> QED BY <1>10, <1>11, <1>12, <1>13 DEF LockInv

-----------------------------------------------------------------------------
(***************************************************************************)
(* Whoever clears markers without the run's lock.                          *)
(***************************************************************************)
LEMMA OneClear ==
    ASSUME BaseInv, NEW q, NEW rec, runs' = [runs EXCEPT ![q] = rec],
           q \in Run => Clears(runs[q], rec)
    PROVE  \A r \in Run : Clears(runs[r], runs'[r])
<1>1. runs \in [Run -> RunRecord]
    BY DEF BaseInv, TypeOK
<1>2. \A r \in Run : Clears(runs[r], runs[r])
    BY <1>1, ClearersClear
<1>3. \A r \in Run : r # q => runs'[r] = runs[r]
    BY <1>1
<1>4. q \in Run => runs'[q] = rec
    BY <1>1
<1> QED BY <1>2, <1>3, <1>4

LEMMA NothingCleared ==
    ASSUME BaseInv, UNCHANGED runs
    PROVE  \A r \in Run : Clears(runs[r], runs'[r])
BY ClearersClear DEF BaseInv, TypeOK

\* The child-join hook and Coordinator.Cancel, by workers and callers.
LEMMA HookAwaits ==
    ASSUME AwaitInv, NEW t \in Thread, UNCHANGED <<outbox, matched>>,
           \/ WakeParent(t) \/ PublishParent(t) \/ CancelWrite(t) \/ Barrier(t) \/ ParentJoin(t)
    PROVE  LockInv'
<1>1. BaseInv /\ OnlyThread(t) /\ HasLock(t) /\ th[t].pc # "idle"
    BY ParentOK, CancelOK, QuietOK
       DEF AwaitInv, StepOK, HasLock, WakeParent, PublishParent, CancelWrite, Barrier, ParentJoin
<1>2. Stays(t) /\ th'[t].pc \in CallerPC /\ th'[t].pc \notin WorkPC
  <2>1. PICK pc \in {"barrier", "wakejoin", "pubjoin", "parent", "wakeparent", "pubparent", "done"} :
          Go(t, pc)
      BY DEF WakeParent, PublishParent, CancelWrite, Barrier, ParentJoin, AfterTerminal
  <2>2. Stays(t) /\ th'[t].pc = pc
      BY <1>1, <2>1, Places
  <2> QED BY <2>1, <2>2 DEF CallerPC, WorkPC, ExecPC
<1>3. \A r \in Run : Clears(runs[r], runs'[r])
  <2>1. CASE WakeParent(t)
    <3>1. Parent(t) \in Run => Clears(runs[Parent(t)], WakeFromExternal(runs[Parent(t)]))
        BY <1>1, ClearersClear DEF BaseInv, TypeOK
    <3> QED BY <1>1, <2>1, <3>1, OneClear DEF WakeParent
  <2>2. CASE CancelWrite(t)
    <3>1. Clears(Self(t), Cancel(Self(t)))
        BY <1>1, Working, ClearersClear
    <3> QED BY <1>1, <2>2, <3>1, OneClear DEF CancelWrite, Write, Self
  <2>3. CASE PublishParent(t) \/ Barrier(t) \/ ParentJoin(t)
      BY <1>1, <2>3, NothingCleared DEF PublishParent, Barrier, ParentJoin
  <2> QED BY <2>1, <2>2, <2>3
<1> QED BY <1>1, <1>2, <1>3, ClearStep DEF Stays

LEMMA EndsAwait ==
    ASSUME AwaitInv, NEW t \in Thread, UNCHANGED <<outbox, matched>>,
           \/ Done(t) \/ Abort(t)
    PROVE  LockInv'
<1>1. BaseInv /\ OnlyThread(t)
    BY EndsOK DEF AwaitInv, StepOK
<1>2. th'[t].pc = "idle"
    BY <1>1 DEF Done, Abort, Idle, BaseInv, TypeOK
<1>3. \A r \in Run : Clears(runs[r], runs'[r])
    BY <1>1, NothingCleared DEF Done, Abort
<1> QED BY <1>1, <1>2, <1>3, ClearStep, WorkPCs DEF CallerPC

LEMMA CancelReadAwaits ==
    ASSUME AwaitInv, NEW t \in Caller, NEW r \in Run, CancelRead(t, r), UNCHANGED <<outbox, matched>>
    PROVE  LockInv'
<1>1. BaseInv /\ OnlyThread(t) /\ t \in Thread /\ t \notin Worker
    BY CancelOK, WorkerIsNoCaller DEF AwaitInv, StepOK, Thread
<1>2. th'[t].pc = "cancel"
    BY <1>1 DEF CancelRead, Idle, BaseInv, TypeOK
<1>3. \A q \in Run : Clears(runs[q], runs'[q])
    BY <1>1, NothingCleared DEF CancelRead
<1> QED BY <1>1, <1>2, <1>3, ClearStep DEF CallerPC

\* A step from outside that only clears markers.
LEMMA OutsideClears ==
    ASSUME AwaitInv, UNCHANGED th, \A r \in Run : Clears(runs[r], runs'[r])
    PROVE  LockInv'
<1>1. CallersOnlyCancel' /\ OneAdvancePerRun'
    BY DEF AwaitInv, LockInv, CallersOnlyCancel, OneAdvancePerRun, HasLock
<1>2. \A u \in Worker : th[u].pc \in WorkPC => th[u].run \in Run
    BY Working, WorkPCs, WorkerIsNoCaller DEF AwaitInv
<1>3. WorkedOnUnmarked'
    BY <1>2, ClearsMatch DEF AwaitInv, LockInv, WorkedOnUnmarked
<1>4. StepHeld'
    BY <1>2, WorkPCs, ClearsMatch DEF AwaitInv, LockInv, StepHeld, StepOf
<1>5. AwaitMatchesStep'
    BY ClearsMatch DEF AwaitInv, LockInv, AwaitMatchesStep
<1> QED BY <1>1, <1>3, <1>4, <1>5 DEF LockInv

LEMMA OutsideAwaits ==
    ASSUME AwaitInv, Outside, "report" \notin Faults
    PROVE  LockInv'
<1>1. BaseInv /\ runs \in [Run -> RunRecord]
    BY DEF AwaitInv, BaseInv, TypeOK
<1>2. ASSUME NEW r \in Run, Tick(r) PROVE LockInv'
  <2>1. runs' = [runs EXCEPT ![r] = [runs[r] EXCEPT !.wakeup = "due"]] /\ UNCHANGED th
      BY <1>2 DEF Tick
  <2>2. Clears(runs[r], [runs[r] EXCEPT !.wakeup = "due"])
      BY <1>1, ClearersClear
  <2>3. \A q \in Run : Clears(runs[q], runs'[q])
      BY <1>1, <2>1, <2>2, OneClear
  <2> QED BY <2>1, <2>3, OutsideClears
<1>3. ASSUME NEW r \in Run, TimerPoll(r) \/ PublishOut(r) PROVE LockInv'
    BY <1>1, <1>3, NothingCleared, OutsideClears DEF TimerPoll, PublishOut
<1>4. ASSUME NEW r \in Run, NEW n \in Name, Signal(r, n) PROVE LockInv'
  <2>1. Clears(runs[r], ConsumeSignal(runs[r]))
      BY <1>1, ClearersClear
  <2>2. \A q \in Run : Clears(runs[q], runs'[q])
      BY <1>1, <1>4, <2>1, OneClear DEF Signal
  <2> QED BY <1>4, <2>2, OutsideClears DEF Signal
<1>5. ASSUME NEW r \in Run, EventWake(r) PROVE LockInv'
  <2>1. Clears(runs[r], WakeFromExternal(runs[r]))
      BY <1>1, ClearersClear
  <2>2. \A q \in Run : Clears(runs[q], runs'[q])
      BY <1>1, <1>5, <2>1, OneClear DEF EventWake
  <2> QED BY <1>5, <2>2, OutsideClears DEF EventWake
<1>6. ASSUME NEW n \in Name, EventArrives(n) PROVE LockInv'
    BY <1>1, <1>6, NothingCleared, OutsideClears DEF EventArrives
<1>7. ASSUME NEW c \in cmds, ReportResult(c) PROVE LockInv'
  <2>1. c.run \in Run
      BY <1>1 DEF BaseInv, PendingKnown, Known
  <2>2. Clears(runs[c.run], CompleteAction(runs[c.run], c.attempt))
      BY <1>1, <2>1, ClearersClear
  <2>3. \A q \in Run : Clears(runs[q], runs'[q])
      BY <1>1, <1>7, <2>2, OneClear DEF ReportResult
  <2> QED BY <1>7, <2>3, OutsideClears DEF ReportResult
<1>8. ASSUME NEW c \in cmds, ReportError(c) PROVE FALSE
    BY <1>8 DEF ReportError
<1> QED BY <1>2, <1>3, <1>4, <1>5, <1>6, <1>7, <1>8 DEF Outside

-----------------------------------------------------------------------------
\* A caller of Cancel takes no step but those of the cancellation.
LEMMA CallerActions ==
    ASSUME NEW t, Proceed(t), th[t].pc \in CallerPC
    PROVE  \/ WakeParent(t) \/ PublishParent(t) \/ CancelWrite(t) \/ Barrier(t) \/ ParentJoin(t)
           \/ Done(t)
<1>1. ~(Load(t) \/ CheckChildren(t) \/ Clear(t) \/ Reread(t) \/ SetNext(t) \/ Dispatch(t))
    BY DEF CallerPC, Load, CheckChildren, Clear, Reread, SetNext, Dispatch
<1>2. ~(\/ Complete(t) \/ Reject(t) \/ VerbFails(t) \/ ExecSync(t) \/ ExecWait(t)
        \/ ExecSignal(t) \/ ExecEvent(t) \/ ExecAction(t) \/ Send(t) \/ SendFails(t))
    BY DEF CallerPC, Complete, Reject, VerbFails, ExecSync, ExecWait, ExecSignal,
           ExecEvent, ExecAction, Send, SendFails
<1>3. ~(\/ SpawnChild(t) \/ PauseFork(t) \/ PublishChild(t) \/ PublishFails(t)
        \/ ForkPaused(t) \/ PublishSpawned(t) \/ ExecJoin(t) \/ PauseJoin(t))
    BY DEF CallerPC, SpawnChild, PauseFork, PublishChild, PublishFails, ForkPaused,
           PublishSpawned, ExecJoin, PauseJoin
<1>4. ~(\/ ExecTry(t) \/ Catch(t) \/ Uncaught(t) \/ StartRollback(t) \/ Undo(t)
        \/ RolledBack(t) \/ MarkFailed(t) \/ ExecCancel(t))
    BY DEF CallerPC, ExecTry, Catch, Uncaught, StartRollback, Undo, RolledBack,
           MarkFailed, ExecCancel
<1> QED BY <1>1, <1>2, <1>3, <1>4 DEF Proceed

LEMMA CallerProceeds ==
    ASSUME AwaitInv, NEW t \in Caller, Proceed(t), UNCHANGED <<outbox, matched>>
    PROVE  LockInv'
<1>1. t \in Thread /\ th[t].pc \in CallerPC
    BY DEF Thread, AwaitInv, LockInv, CallersOnlyCancel
<1>2. \/ WakeParent(t) \/ PublishParent(t) \/ CancelWrite(t) \/ Barrier(t) \/ ParentJoin(t)
      \/ Done(t)
    BY <1>1, CallerActions
<1> QED BY <1>1, <1>2, HookAwaits, EndsAwait

LEMMA WorkerProceeds ==
    ASSUME AwaitInv, NEW t \in Worker, Proceed(t), UNCHANGED <<outbox, matched>>
    PROVE  LockInv'
<1>1. t \in Thread
    BY WorkerIsNoCaller
<1>2. CASE Load(t) \/ CheckChildren(t) \/ Clear(t) \/ Reread(t) \/ SetNext(t) \/ Dispatch(t)
    BY <1>2, LoadAwaits, WakingAwaits, DispatchAwaits
<1>3. CASE \/ Complete(t) \/ Reject(t) \/ ExecWait(t) \/ ExecSignal(t) \/ ExecEvent(t)
           \/ ExecAction(t) \/ PauseFork(t) \/ PauseJoin(t) \/ ExecCancel(t)
    BY <1>3, VerbWritesAwait
<1>4. CASE \/ ExecSync(t) \/ VerbFails(t) \/ Send(t) \/ SendFails(t) \/ PublishFails(t)
           \/ ForkPaused(t) \/ ExecJoin(t) \/ RolledBack(t) \/ Barrier(t) \/ ParentJoin(t)
           \/ PublishSpawned(t)
    BY <1>4, QuietAwaits
<1>5. CASE \/ ExecTry(t) \/ Catch(t) \/ Uncaught(t) \/ StartRollback(t) \/ Undo(t)
           \/ MarkFailed(t) \/ PublishChild(t)
    BY <1>5, FailureAwaits
<1>6. CASE SpawnChild(t) \/ CancelWrite(t) \/ WakeParent(t) \/ PublishParent(t) \/ Done(t)
    BY <1>1, <1>6, SpawnAwaits, HookAwaits, EndsAwait
<1> QED BY <1>2, <1>3, <1>4, <1>5, <1>6 DEF Proceed

LEMMA AwaitNext ==
    ASSUME OneProcess, "report" \notin Faults
    PROVE  AwaitInv /\ [Next]_vars => AwaitInv'
<1> SUFFICES ASSUME AwaitInv, [Next]_vars PROVE AwaitInv'
    OBVIOUS
<1>1. BaseInv'
    BY BaseNext DEF AwaitInv
<1>2. CASE UNCHANGED vars
  <2>1. UNCHANGED <<runs, th>>
      BY <1>2 DEF vars
  <2>2. LockInv'
      BY <2>1, NothingCleared, OutsideClears DEF AwaitInv
  <2> QED BY <1>1, <2>2 DEF AwaitInv
<1>3. CASE CoordinatorNext /\ UNCHANGED <<outbox, matched>>
  <2>1. ASSUME NEW t \in Worker, NEW r \in Run, Deliver(t, r) PROVE LockInv'
      BY <1>3, <2>1, DeliverAwaits
  <2>2. ASSUME NEW t \in Worker, AcquireLock(t) PROVE LockInv'
      BY <1>3, <2>2, AcquireAwaits
  <2>3. ASSUME NEW t \in Caller, NEW r \in Run, CancelRead(t, r) PROVE LockInv'
      BY <1>3, <2>3, CancelReadAwaits
  <2>4. ASSUME NEW t \in Thread, Proceed(t) PROVE LockInv'
      BY <1>3, <2>4, WorkerProceeds, CallerProceeds DEF Thread
  <2>5. ASSUME NEW t \in Thread, Abort(t) PROVE LockInv'
      BY <1>3, <2>5, EndsAwait
  <2>6. LockInv'
      BY <1>3, <2>1, <2>2, <2>3, <2>4, <2>5 DEF CoordinatorNext
  <2> QED BY <1>1, <2>6 DEF AwaitInv
<1>4. CASE Outside
    BY <1>1, <1>4, OutsideAwaits DEF AwaitInv
<1> QED BY <1>2, <1>3, <1>4 DEF Next

LEMMA AwaitInit == Init => AwaitInv
<1> SUFFICES ASSUME Init PROVE AwaitInv
    OBVIOUS
<1>1. BaseInv
    BY BaseInit
<1>2. \A t \in Thread : th[t].pc = "idle"
    BY DEF Init, CoordinatorInit, Idle
<1>3. \A t \in Worker : th[t].pc = "idle"
    BY <1>2, WorkerIsNoCaller
<1>4. CallersOnlyCancel /\ OneAdvancePerRun
    BY <1>2, <1>3 DEF CallersOnlyCancel, CallerPC, OneAdvancePerRun, HasLock, Thread
<1>5. WorkedOnUnmarked /\ StepHeld
    BY <1>3, WorkPCs DEF WorkedOnUnmarked, StepHeld
<1>6. AwaitMatchesStep
  <2> SUFFICES ASSUME NEW r \in Run PROVE AwaitMatches(runs[r])
      BY DEF AwaitMatchesStep
  <2>1. runs[r] = Absent \/ runs[r] = NewSagaRun(First[r])
      BY DEF Init, CoordinatorInit
  <2>2. Unmarked(Absent) /\ Unmarked(NewSagaRun(First[r]))
      BY DEF Unmarked, Absent, NewSagaRun
  <2> QED BY <2>1, <2>2, UnmarkedMatches
<1> QED BY <1>1, <1>4, <1>5, <1>6 DEF AwaitInv, LockInv

\* Within one process the goroutine that holds a run's lock is alone in the middle of
\* the run, and works on a run without markers (runlock.go:28-32, advance.go:59-62).
THEOREM OneAtATime ==
    ASSUME OneProcess, "report" \notin Faults
    PROVE  Spec => [](OneAdvancePerRun /\ WorkedOnUnmarked)
<1>1. AwaitInv => OneAdvancePerRun /\ WorkedOnUnmarked
    BY DEF AwaitInv, LockInv
<1> QED BY <1>1, AwaitInit, AwaitNext, PTL DEF Spec

\* No marker of an earlier wait outlives it (advance.go:119-123,
\* memory/store.go:447-461).
THEOREM AwaitsMatch ==
    ASSUME OneProcess, "report" \notin Faults
    PROVE  Spec => []AwaitMatchesStep
<1>1. AwaitInv => AwaitMatchesStep
    BY DEF AwaitInv, LockInv
<1> QED BY <1>1, AwaitInit, AwaitNext, PTL DEF Spec

-----------------------------------------------------------------------------
(***************************************************************************)
(* What the steps of an advance do, seen from the goroutine and its run: x *)
(* and y are the goroutine before and after the step, m and n its run, c   *)
(* the step it works on.                                                   *)
(***************************************************************************)
MidPC == WorkPC \cup {"children", "clear"}

Targets(s) == Def[s].next \cup ({Def[s].timeout} \ {Nil})

WakeMove(x, y, m, n) ==
    \/ x.pc = "children" /\ y.pc \in {"clear", "done"} /\ n = m
    \/ x.pc = "clear" /\ y.pc = "reread" /\ n = ClearPause(m)
    \/ /\ x.pc = "reread" /\ n = m
       /\ \/ y.pc = "done" /\ (m.step = Nil \/ Def[m.step].next = {})
          \/ y.pc = "setnext" /\ m.step # Nil /\ y.next \in Targets(m.step)
    \/ x.pc = "setnext" /\ y.pc = "load" /\ n = UpdateRunState(m, "running", x.next)

\* The verb has answered: the next step, or an error where there is none.
Answers(y, s) ==
    \/ y.pc = "done" /\ Def[s].next = {}
    \/ y.pc = "setnext" /\ y.next \in Def[s].next

QuietMove(x, y, c) ==
    \/ x.pc = "exec" /\ y.pc \in {"exec", "fail"}
    \/ x.pc = "exec" /\ Def[c].type \in {"sync", "spawn", "join"} /\ Answers(y, c)
    \/ x.pc = "exec" /\ Def[c].type = "join" /\ y.pc = "pausejoin"
    \/ x.pc = "send" /\ y.pc \in {"done", "exec", "fail"}
    \/ x.pc = "publish" /\ y.pc \in {"publish", "done"}
    \/ x.pc = "publish" /\ "publish" \in Faults /\ y.pc \in {"exec", "fail"}

EndMove(x, y, m, n, c) ==
    \/ x.pc = "exec" /\ Def[c].gated /\ y.pc = "done" /\ n = MarkRunFailed(m, c)
    \/ x.pc = "exec" /\ Def[c].type = "cancel" /\ y.pc \in {"done", "barrier"}
       /\ n = UpdateRunState(m, "cancelled", c)
    \/ x.pc = "complete" /\ y.pc \in {"done", "barrier"}
       /\ n = UpdateRunState(m, "succeeded", Nil)
    \/ x.pc = "markfailed" /\ y.pc \in {"done", "barrier"} /\ n = MarkRunFailed(m, c)

PauseMove(x, y, m, n, c) ==
    \/ /\ x.pc = "exec" /\ Def[c].type = "wait" /\ y.pc = "done"
       /\ n = SetPausedWithWakeup(m)
    \/ /\ x.pc = "exec" /\ Def[c].type = "signal" /\ y.pc = "done"
       /\ n = SetPausedAwaitingSignal(m, Def[c].name, Def[c].deadline)
    \/ /\ x.pc = "exec" /\ Def[c].type = "event" /\ y.pc = "done"
       /\ n = SetPausedAwaitingEvent(m, Def[c].name, Def[c].deadline)
    \/ /\ x.pc = "exec" /\ Def[c].type = "action" /\ y.pc = "send"
       /\ n = MarkAwaitingAction(m, c, x.snap.attempt + 1)
    \/ /\ x.pc = "exec" /\ Def[c].type = "fork" /\ y.pc = "publish"
       /\ n = UpdateRunState(m, "paused", c)
    \/ /\ x.pc = "pausejoin" /\ y.pc = "done"
       /\ n = UpdateRunState(m, "paused", c)

FailMove(x, y, m, n, c) ==
    \/ /\ x.pc = "exec" /\ Def[c].type = "try" /\ Answers(y, c)
       /\ n = PushTryCatch(m, Def[c].catch)
    \/ /\ x.pc = "fail" /\ m.frames # <<>> /\ y.pc = "setnext" /\ y.next = TopFrame(m)
       /\ n = PopTryCatch(m)
    \/ x.pc = "fail" /\ y.pc \in {"rollback", "markfailed"} /\ n = m
    \/ x.pc = "rollback" /\ y.pc = "undo" /\ n = UpdateRunState(m, "compensating", x.snap.step)
    \/ x.pc = "undo" /\ y.pc \in {"undo", "markfailed"} /\ n = m

DispatchMove(x, y, m, n, c) ==
    /\ x.pc = "dispatch" /\ y.pc \in {"complete", "exec"}
    /\ y.pc = "complete" <=> Def[c].type = "end"
    /\ n = UpdateRunState(m, "running", c)

OwnMove(x, y, m, n, c) ==
    \/ WakeMove(x, y, m, n)
    \/ QuietMove(x, y, c) /\ n = m
    \/ EndMove(x, y, m, n, c)
    \/ PauseMove(x, y, m, n, c)
    \/ FailMove(x, y, m, n, c)
    \/ DispatchMove(x, y, m, n, c)

\* The run that a step of goroutine t has created.
Spawns(t, r) ==
    /\ th[t].pc = "exec" /\ Def[StepOf(t)].type \in {"fork", "spawn"}
    /\ runs[r].state = "absent"
    /\ \E s \in Step : runs'[r] = SpawnChildRun(s, th[t].run, StepOf(t))

\* The rest of what an advance changes.
Ghosts(t) ==
    /\ started' = IF th[t].pc = "dispatch"
                  THEN [started EXCEPT ![th[t].run][StepOf(t)] = @ + 1] ELSE started
    /\ granted' = IF th[t].pc = "setnext"
                  THEN [granted EXCEPT ![th[t].run] = FALSE] ELSE granted
    /\ cmds' = cmds \/ (th[t].pc = "send" /\ cmds \subseteq cmds')

AdvanceStep(t) ==
    /\ th[t].pc \in MidPC
    /\ OnlyThread(t) /\ Stays(t) /\ Ghosts(t)
    /\ OwnMove(th[t], th'[t], Self(t), runs'[th[t].run], StepOf(t))
    /\ \A r \in Run : r # th[t].run => runs'[r] = runs[r] \/ Spawns(t, r)

LEMMA Answered ==
    ASSUME BaseInv, NEW t \in Thread, NEW nexts, Follow(t, nexts)
    PROVE  \/ th'[t].pc = "done" /\ nexts = {}
           \/ th'[t].pc = "setnext" /\ th'[t].next \in nexts
<1>1. th \in [Thread -> ThreadRecord] /\ th[t] \in ThreadRecord
    BY DEF BaseInv, TypeOK
<1>2. CASE nexts = {}
    BY <1>2, Places DEF Follow
<1>3. CASE nexts # {}
  <2>1. PICK n \in nexts : th' = [th EXCEPT ![t].pc = "setnext", ![t].next = n]
      BY <1>3 DEF Follow
  <2>2. th'[t] = [th[t] EXCEPT !.pc = "setnext", !.next = n]
      BY <1>1, <2>1
  <2> QED BY <1>1, <2>1, <2>2 DEF ThreadRecord
<1> QED BY <1>2, <1>3

LEMMA WakeSteps ==
    ASSUME BaseInv, NEW t \in Thread, UNCHANGED <<outbox, matched>>,
           CheckChildren(t) \/ Clear(t) \/ Reread(t) \/ SetNext(t)
    PROVE  AdvanceStep(t)
<1>1. th[t].pc \in MidPC /\ th[t].pc # "idle" /\ OnlyThread(t)
    BY WakingOK DEF StepOK, CheckChildren, Clear, Reread, SetNext, MidPC, WorkPC
<1>2. Ghosts(t)
    BY DEF CheckChildren, Clear, Reread, SetNext, Ghosts
<1>3. CASE CheckChildren(t)
  <2>1. th'[t].pc \in {"clear", "done"} /\ Stays(t) /\ UNCHANGED runs
      BY <1>3, Places DEF CheckChildren
  <2>2. WakeMove(th[t], th'[t], Self(t), runs'[th[t].run])
      BY <1>3, <2>1 DEF CheckChildren, WakeMove, Self
  <2> QED BY <1>1, <1>2, <2>1, <2>2 DEF AdvanceStep, OwnMove
<1>4. CASE Clear(t)
  <2>1. th'[t].pc = "reread" /\ Stays(t)
      BY <1>4, Places DEF Clear
  <2>2. runs'[th[t].run] = ClearPause(Self(t)) /\ \A r \in Run : r # th[t].run => runs'[r] = runs[r]
      BY <1>1, <1>4, Written DEF Clear
  <2>3. WakeMove(th[t], th'[t], Self(t), runs'[th[t].run])
      BY <1>4, <2>1, <2>2 DEF Clear, WakeMove
  <2> QED BY <1>1, <1>2, <2>1, <2>2, <2>3 DEF AdvanceStep, OwnMove
<1>5. CASE Reread(t)
  <2> DEFINE m == Self(t)
  <2>1. Stays(t) /\ UNCHANGED runs /\ m = runs[th[t].run]
      BY <1>5, Places DEF Reread, Self
  <2> HIDE DEF m
  <2> DEFINE nexts == IF th[t].timedOut /\ Def[m.step].timeout # Nil
                      THEN {Def[m.step].timeout} ELSE Def[m.step].next
  <2>2. IF m.step = Nil THEN Return(t, TRUE) ELSE Follow(t, nexts)
      BY <1>5 DEF Reread, m
  <2>3. \/ th'[t].pc = "done" /\ (m.step = Nil \/ Def[m.step].next = {})
        \/ th'[t].pc = "setnext" /\ m.step # Nil /\ th'[t].next \in Targets(m.step)
    <3>1. CASE m.step = Nil
        BY <2>2, <3>1, Places
    <3>2. CASE m.step # Nil
      <4>1. \/ th'[t].pc = "done" /\ nexts = {}
            \/ th'[t].pc = "setnext" /\ th'[t].next \in nexts
        <5> HIDE DEF nexts
        <5> QED BY <2>2, <3>2, Answered
      <4> QED BY <3>2, <4>1 DEF Targets
    <3> QED BY <3>1, <3>2
  <2>4. WakeMove(th[t], th'[t], m, runs'[th[t].run])
      BY <1>5, <2>1, <2>3 DEF Reread, WakeMove
  <2> QED BY <1>1, <1>2, <2>1, <2>4 DEF AdvanceStep, OwnMove, m
<1>6. CASE SetNext(t)
  <2>1. th'[t].pc = "load" /\ Stays(t)
    <3>1. th'[t] = [th[t] EXCEPT !.pc = "load", !.next = Nil] /\ th[t] \in ThreadRecord
        BY <1>6 DEF SetNext, BaseInv, TypeOK
    <3> QED BY <3>1 DEF ThreadRecord, Stays
  <2>2. runs'[th[t].run] = UpdateRunState(Self(t), "running", th[t].next)
        /\ \A r \in Run : r # th[t].run => runs'[r] = runs[r]
      BY <1>1, <1>6, Written DEF SetNext
  <2>3. WakeMove(th[t], th'[t], Self(t), runs'[th[t].run])
      BY <1>6, <2>1, <2>2 DEF SetNext, WakeMove
  <2> QED BY <1>1, <1>2, <2>1, <2>2, <2>3 DEF AdvanceStep, OwnMove
<1> QED BY <1>3, <1>4, <1>5, <1>6

LEMMA DispatchSteps ==
    ASSUME BaseInv, NEW t \in Thread, UNCHANGED <<outbox, matched>>, Dispatch(t)
    PROVE  AdvanceStep(t)
<1>1. th[t].pc \in MidPC /\ th[t].pc # "idle" /\ OnlyThread(t)
    BY DispatchOK DEF StepOK, Dispatch, MidPC, WorkPC
<1>2. Ghosts(t)
    BY DEF Dispatch, Ghosts
<1>3. PICK pc \in {"complete", "exec"} :
        /\ th' = [th EXCEPT ![t].pc = pc, ![t].left = DefOf(t).kids, ![t].kids = <<>>]
        /\ pc = "complete" <=> Def[StepOf(t)].type = "end"
    BY DEF Dispatch, DefOf
<1>4. th[t] \in ThreadRecord
      /\ th'[t] = [th[t] EXCEPT !.pc = pc, !.left = DefOf(t).kids, !.kids = <<>>]
    BY <1>1, <1>3 DEF BaseInv, TypeOK
<1>5. Stays(t) /\ th'[t].pc = pc
    BY <1>4 DEF ThreadRecord, Stays
<1>6. Write(t, UpdateRunState(Self(t), "running", StepOf(t)))
    BY DEF Dispatch
<1>7. runs'[th[t].run] = UpdateRunState(Self(t), "running", StepOf(t))
      /\ \A r \in Run : r # th[t].run => runs'[r] = runs[r]
    BY <1>1, <1>6, Written
<1>8. DispatchMove(th[t], th'[t], Self(t), runs'[th[t].run], StepOf(t))
    BY <1>3, <1>5, <1>7 DEF Dispatch, DispatchMove
<1> QED BY <1>1, <1>2, <1>5, <1>7, <1>8 DEF AdvanceStep, OwnMove

LEMMA VerbSteps ==
    ASSUME BaseInv, NEW t \in Thread, UNCHANGED <<outbox, matched>>,
           \/ Complete(t) \/ Reject(t) \/ ExecWait(t) \/ ExecSignal(t) \/ ExecEvent(t)
           \/ ExecAction(t) \/ PauseFork(t) \/ PauseJoin(t) \/ ExecCancel(t)
    PROVE  AdvanceStep(t)
<1> DEFINE m == Self(t)
           c == StepOf(t)
<1>1. th[t].pc \in MidPC /\ th[t].pc # "idle"
    BY DEF Complete, Reject, ExecWait, ExecSignal, ExecEvent, ExecAction, PauseFork,
           PauseJoin, ExecCancel, MidPC, WorkPC, ExecPC
<1>2. OnlyThread(t)
    BY VerbWritesOK DEF StepOK
<1>3. Ghosts(t)
    BY DEF Complete, Reject, ExecWait, ExecSignal, ExecEvent, ExecAction, PauseFork,
           PauseJoin, ExecCancel, Ghosts
<1>4. AfterTerminal(t) \in {"done", "barrier"}
    BY DEF AfterTerminal
<1>5. ASSUME NEW rec, Write(t, rec), Stays(t),
             \/ EndMove(th[t], th'[t], m, rec, c) \/ PauseMove(th[t], th'[t], m, rec, c)
      PROVE  AdvanceStep(t)
  <2>1. runs'[th[t].run] = rec /\ \A r \in Run : r # th[t].run => runs'[r] = runs[r]
      BY <1>1, <1>5, Written
  <2>2. OwnMove(th[t], th'[t], m, rec, c)
      BY <1>5 DEF OwnMove
  <2> HIDE DEF m, c
  <2> QED BY <1>1, <1>2, <1>3, <1>5, <2>1, <2>2 DEF AdvanceStep, m, c
<1>6. CASE Complete(t)
  <2>1. Stays(t) /\ th'[t].pc \in {"done", "barrier"}
      BY <1>4, <1>6, Places DEF Complete
  <2> QED BY <1>5, <1>6, <2>1 DEF Complete, EndMove
<1>7. CASE Reject(t)
  <2>1. Stays(t) /\ th'[t].pc = "done"
      BY <1>7, Places DEF Reject
  <2> QED BY <1>5, <1>7, <2>1 DEF Reject, EndMove, DefOf
<1>8. CASE ExecCancel(t)
  <2>1. Stays(t) /\ th'[t].pc \in {"done", "barrier"}
      BY <1>4, <1>8, Places DEF ExecCancel
  <2> QED BY <1>5, <1>8, <2>1 DEF ExecCancel, EndMove, DefOf
<1>9. CASE ExecWait(t)
  <2>1. Stays(t) /\ th'[t].pc = "done"
      BY <1>9, Places DEF ExecWait
  <2> QED BY <1>5, <1>9, <2>1 DEF ExecWait, PauseMove, DefOf
<1>10. CASE ExecSignal(t)
  <2>1. Stays(t) /\ th'[t].pc = "done"
      BY <1>10, Places DEF ExecSignal
  <2> QED BY <1>5, <1>10, <2>1 DEF ExecSignal, PauseMove, DefOf
<1>11. CASE ExecEvent(t)
  <2>1. Stays(t) /\ th'[t].pc = "done"
      BY <1>11, Places DEF ExecEvent
  <2> QED BY <1>5, <1>11, <2>1 DEF ExecEvent, PauseMove, DefOf
<1>12. CASE ExecAction(t)
  <2>1. Stays(t) /\ th'[t].pc = "send"
      BY <1>12, Places DEF ExecAction
  <2> QED BY <1>5, <1>12, <2>1 DEF ExecAction, PauseMove, DefOf
<1>13. CASE PauseFork(t)
  <2>1. Stays(t) /\ th'[t].pc = "publish"
      BY <1>13, Places DEF PauseFork
  <2> QED BY <1>5, <1>13, <2>1 DEF PauseFork, PauseMove, DefOf
<1>14. CASE PauseJoin(t)
  <2>1. Stays(t) /\ th'[t].pc = "done"
      BY <1>14, Places DEF PauseJoin
  <2> QED BY <1>5, <1>14, <2>1 DEF PauseJoin, PauseMove
<1> QED BY <1>6, <1>7, <1>8, <1>9, <1>10, <1>11, <1>12, <1>13, <1>14

LEMMA QuietSteps ==
    ASSUME BaseInv, NEW t \in Thread, UNCHANGED <<outbox, matched>>,
           \/ ExecSync(t) \/ VerbFails(t) \/ Send(t) \/ SendFails(t) \/ PublishFails(t)
           \/ ForkPaused(t) \/ ExecJoin(t) \/ PublishSpawned(t) \/ PublishChild(t)
    PROVE  AdvanceStep(t)
<1>1. th[t].pc \in MidPC
    BY DEF ExecSync, VerbFails, Send, SendFails, PublishFails, ForkPaused, ExecJoin,
           PublishSpawned, PublishChild, MidPC, WorkPC, ExecPC
<1>2. OnlyThread(t)
    BY QuietOK, PublishSpawnedOK, PublishChildOK DEF StepOK
<1>3. Ghosts(t) /\ UNCHANGED runs
    BY DEF ExecSync, VerbFails, Send, SendFails, PublishFails, ForkPaused, ExecJoin,
           PublishSpawned, PublishChild, Ghosts
<1>4. ASSUME Stays(t), QuietMove(th[t], th'[t], StepOf(t)) PROVE AdvanceStep(t)
  <2>1. OwnMove(th[t], th'[t], Self(t), runs'[th[t].run], StepOf(t))
      BY <1>3, <1>4 DEF OwnMove, Self
  <2> QED BY <1>1, <1>2, <1>3, <1>4, <2>1 DEF AdvanceStep
<1>5. ASSUME Succeed(t) PROVE Stays(t) /\ Answers(th'[t], StepOf(t))
    BY <1>5, Places, Answered DEF Succeed, Answers, DefOf
<1>6. CASE ExecSync(t) \/ PublishSpawned(t)
    BY <1>4, <1>5, <1>6 DEF ExecSync, PublishSpawned, QuietMove, DefOf
<1>7. CASE VerbFails(t) \/ SendFails(t) \/ PublishFails(t)
  <2>1. Stays(t) /\ th'[t].pc \in {"exec", "fail"}
      BY <1>7, Places DEF VerbFails, SendFails, PublishFails
  <2> QED BY <1>4, <1>7, <2>1 DEF VerbFails, SendFails, PublishFails, QuietMove
<1>8. CASE Send(t) \/ ForkPaused(t)
  <2>1. Stays(t) /\ th'[t].pc = "done"
      BY <1>8, Places DEF Send, ForkPaused
  <2> QED BY <1>4, <1>8, <2>1 DEF Send, ForkPaused, QuietMove
<1>9. CASE ExecJoin(t)
  <2>1. \/ Retry(t) \/ Succeed(t) \/ Go(t, "pausejoin")
      BY <1>9 DEF ExecJoin
  <2>2. th[t].pc = "exec" /\ Def[StepOf(t)].type = "join"
      BY <1>9 DEF ExecJoin, DefOf
  <2>3. CASE Retry(t)
      BY <1>4, <2>2, <2>3, Places DEF QuietMove
  <2>4. CASE Succeed(t)
      BY <1>4, <1>5, <2>2, <2>4 DEF QuietMove
  <2>5. CASE Go(t, "pausejoin")
      BY <1>4, <2>2, <2>5, Places DEF QuietMove
  <2> QED BY <2>1, <2>3, <2>4, <2>5
<1>10. CASE PublishChild(t)
  <2>1. th'[t] = [th[t] EXCEPT !.kids = Tail(th[t].kids)] /\ th[t] \in ThreadRecord
      BY <1>10 DEF PublishChild, BaseInv, TypeOK
  <2>2. Stays(t) /\ th'[t].pc = th[t].pc
      BY <2>1 DEF ThreadRecord, Stays
  <2> QED BY <1>4, <1>10, <2>2 DEF PublishChild, QuietMove
<1> QED BY <1>6, <1>7, <1>8, <1>9, <1>10

LEMMA FailSteps ==
    ASSUME BaseInv, NEW t \in Thread, UNCHANGED <<outbox, matched>>,
           \/ ExecTry(t) \/ Catch(t) \/ Uncaught(t) \/ StartRollback(t) \/ Undo(t)
           \/ RolledBack(t) \/ MarkFailed(t)
    PROVE  AdvanceStep(t)
<1> DEFINE m == Self(t)
           c == StepOf(t)
<1>1. th[t].pc \in MidPC /\ th[t].pc # "idle"
    BY DEF ExecTry, Catch, Uncaught, StartRollback, Undo, RolledBack, MarkFailed, MidPC,
           WorkPC, ExecPC
<1>2. OnlyThread(t)
    BY TryOK, RollbackOK, QuietOK DEF StepOK
<1>3. Ghosts(t)
    BY DEF ExecTry, Catch, Uncaught, StartRollback, Undo, RolledBack, MarkFailed, Ghosts
<1>4. th[t] \in ThreadRecord /\ th \in [Thread -> ThreadRecord]
    BY DEF BaseInv, TypeOK
<1>5. ASSUME NEW rec, Write(t, rec), Stays(t), OwnMove(th[t], th'[t], m, rec, c)
      PROVE  AdvanceStep(t)
  <2>1. runs'[th[t].run] = rec /\ \A r \in Run : r # th[t].run => runs'[r] = runs[r]
      BY <1>1, <1>5, Written
  <2> HIDE DEF m, c
  <2> QED BY <1>1, <1>2, <1>3, <1>5, <2>1 DEF AdvanceStep, m, c
<1>6. ASSUME UNCHANGED runs, Stays(t), OwnMove(th[t], th'[t], m, m, c) PROVE AdvanceStep(t)
  <2>1. runs'[th[t].run] = m
      BY <1>6 DEF Self
  <2> HIDE DEF m, c
  <2> QED BY <1>1, <1>2, <1>3, <1>6, <2>1 DEF AdvanceStep, m, c
<1>7. CASE ExecTry(t)
  <2>1. th[t].pc = "exec" /\ Def[c].type = "try"
      BY <1>7 DEF ExecTry, DefOf
  <2>2. CASE Retry(t) /\ UNCHANGED runs
    <3>1. Stays(t) /\ th'[t].pc \in {"exec", "fail"}
        BY <2>2, Places
    <3> QED BY <1>6, <2>1, <2>2, <3>1 DEF OwnMove, QuietMove
  <2>3. CASE Write(t, PushTryCatch(m, DefOf(t).catch)) /\ Succeed(t)
    <3>1. Stays(t) /\ Answers(th'[t], c)
        BY <2>3, Places, Answered DEF Succeed, Answers, DefOf
    <3> QED BY <1>5, <2>1, <2>3, <3>1 DEF OwnMove, FailMove, DefOf
  <2> QED BY <1>7, <2>2, <2>3 DEF ExecTry
<1>8. CASE Catch(t)
  <2>1. th'[t] = [th[t] EXCEPT !.pc = "setnext", !.next = TopFrame(m)]
      BY <1>4, <1>8 DEF Catch
  <2>2. Stays(t) /\ th'[t].pc = "setnext" /\ th'[t].next = TopFrame(m)
    <3> HIDE DEF m
    <3> QED BY <1>4, <2>1 DEF ThreadRecord, Stays
  <2> QED BY <1>5, <1>8, <2>2 DEF Catch, OwnMove, FailMove
<1>9. CASE Uncaught(t)
  <2>1. PICK pc \in {"rollback", "markfailed"} :
          th' = [th EXCEPT ![t].pc = pc, ![t].left = log[th[t].run]]
      BY <1>9 DEF Uncaught
  <2>2. th'[t] = [th[t] EXCEPT !.pc = pc, !.left = log[th[t].run]]
      BY <1>4, <2>1
  <2>3. Stays(t) /\ th'[t].pc = pc
      BY <1>4, <2>2 DEF ThreadRecord, Stays
  <2> QED BY <1>6, <1>9, <2>3 DEF Uncaught, OwnMove, FailMove
<1>10. CASE StartRollback(t)
  <2>1. Stays(t) /\ th'[t].pc = "undo"
      BY <1>10, Places DEF StartRollback
  <2> QED BY <1>5, <1>10, <2>1 DEF StartRollback, OwnMove, FailMove
<1>11. CASE Undo(t)
  <2>1. PICK l : th' = [th EXCEPT ![t].left = l]
      BY <1>11 DEF Undo
  <2>2. th'[t] = [th[t] EXCEPT !.left = l]
      BY <1>4, <2>1
  <2>3. Stays(t) /\ th'[t].pc = th[t].pc
      BY <1>4, <2>2 DEF ThreadRecord, Stays
  <2>4. th[t].pc = "undo" /\ UNCHANGED runs
      BY <1>11 DEF Undo
  <2> QED BY <1>6, <2>3, <2>4 DEF OwnMove, FailMove
<1>12. CASE RolledBack(t)
  <2>1. Stays(t) /\ th'[t].pc = "markfailed"
      BY <1>12, Places DEF RolledBack
  <2> QED BY <1>6, <1>12, <2>1 DEF RolledBack, OwnMove, FailMove
<1>13. CASE MarkFailed(t)
  <2>1. th'[t] = [th[t] EXCEPT !.pc = AfterTerminal(t), !.err = TRUE]
      BY <1>4, <1>13 DEF MarkFailed
  <2>2. Stays(t) /\ th'[t].pc = AfterTerminal(t)
      BY <1>4, <2>1 DEF ThreadRecord, Stays
  <2>3. th'[t].pc \in {"done", "barrier"}
      BY <2>2 DEF AfterTerminal
  <2> QED BY <1>5, <1>13, <2>2, <2>3 DEF MarkFailed, OwnMove, EndMove
<1> QED BY <1>7, <1>8, <1>9, <1>10, <1>11, <1>12, <1>13

LEMMA SpawnSteps ==
    ASSUME BaseInv, NEW t \in Thread, SpawnChild(t), UNCHANGED <<outbox, matched>>
    PROVE  AdvanceStep(t)
<1> DEFINE c == FreshRun
           rec == SpawnChildRun(Head(th[t].left), th[t].run, StepOf(t))
<1>1. th[t].pc = "exec" /\ th[t].pc \in MidPC /\ th[t].left # <<>>
      /\ Def[StepOf(t)].type \in {"fork", "spawn"}
    BY DEF SpawnChild, MidPC, WorkPC, ExecPC, DefOf
<1>2. c \in Run /\ runs[c].state = "absent" /\ th[t].run \in Run /\ th[t].run # c
  <2>1. c \in Run /\ runs[c].state = "absent"
      BY DEF SpawnChild, FreshRun
  <2> HIDE DEF c
  <2> QED BY <1>1, <2>1, Working DEF Known
<1>3. runs' = [runs EXCEPT ![c] = rec] /\ runs \in [Run -> RunRecord]
    BY DEF SpawnChild, BaseInv, TypeOK
<1>4. th'[t] = [th[t] EXCEPT !.left = Tail(th[t].left), !.kids = Append(th[t].kids, c)]
      /\ th[t] \in ThreadRecord
    BY DEF SpawnChild, BaseInv, TypeOK
<1>5. Head(th[t].left) \in Step
    BY <1>1, <1>4 DEF ThreadRecord
<1>6. OnlyThread(t)
    BY SpawnOK DEF OnlyThread, BaseInv, TypeOK, SpawnChild
<1>7. Ghosts(t)
    BY <1>1 DEF SpawnChild, Ghosts
<1> HIDE DEF c
<1>8. Stays(t) /\ th'[t].pc = th[t].pc
    BY <1>4 DEF ThreadRecord, Stays
<1>9. runs'[th[t].run] = Self(t) /\ \A r \in Run : r # th[t].run => runs'[r] = runs[r] \/ Spawns(t, r)
    BY <1>1, <1>2, <1>3, <1>5 DEF Spawns, Self
<1>10. OwnMove(th[t], th'[t], Self(t), runs'[th[t].run], StepOf(t))
    BY <1>1, <1>8, <1>9 DEF OwnMove, QuietMove
<1> QED BY <1>1, <1>6, <1>7, <1>8, <1>9, <1>10 DEF AdvanceStep

-----------------------------------------------------------------------------
(***************************************************************************)
(* Every step is a step of an advance in the middle of its run, the read   *)
(* at the top of the loop, or one that leaves all states but for a         *)
(* cancellation alone.                                                     *)
(***************************************************************************)
LoadStep(t) ==
    /\ th[t].pc = "load" /\ OnlyThread(t)
    /\ th'[t].run = th[t].run /\ th'[t].snap = Self(t) /\ th'[t].pc = AfterLoad(Self(t))
    /\ UNCHANGED <<runs, started, granted, cmds>>

\* What somebody who is in no advance of run r may make of it.
SideWrite(r) ==
    \/ runs'[r] = runs[r]
    \/ /\ runs'[r] = ClearAwaits(runs[r])
       /\ \/ granted'[r] /\ runs[r].signal # Nil
          \/ r \in matched /\ r \notin matched'
          \/ \E t \in Thread : th[t].pc \in {"wakejoin", "wakeparent"} /\ th[t].snap.parent = r
    \/ Caller # {} /\ runs'[r] = Cancel(runs[r])
    \/ runs[r].wakeup = "later" /\ runs'[r] = [runs[r] EXCEPT !.wakeup = "due"] /\ granted'[r]
    \/ \E c \in cmds : c.run = r /\ runs'[r] = CompleteAction(runs[r], c.attempt)
    \/ \E c \in cmds : /\ "report" \in Faults /\ c.run = r
                       /\ runs'[r] = FailAction(runs[r], c.attempt)

\* A worker that is not in the middle of a run does not get there; only one that is cut
\* short leaves it; one that gets a run's lock is alone.
LeavesAside(t) ==
    /\ th'[t].pc \notin MidPC \cup {"cancel"}
    /\ th[t].pc \notin MidPC \/ aborts < MaxAborts
    /\ \/ th'[t].pc \in {"idle", "wait"}
       \/ HasLock(t) /\ th'[t].run = th[t].run
       \/ OneProcess => \A u \in Worker : th[u].run = th'[t].run => ~HasLock(u)

AwaitsTopic(m) == m.state = "paused" /\ m.topic # Nil

OneMoves == \A t, u \in Worker : th'[t] # th[t] /\ th'[u] # th[u] => t = u

\* What is read aside: the runs, and who awaits a topic.
ReadsAside ==
    /\ \A t \in Thread : \/ th'[t].snap.parent \in {Nil, th[t].snap.parent}
                         \/ \E r \in Run : th'[t].snap.parent = runs[r].parent
    /\ \A r \in matched' : \/ r \in matched
                           \/ AwaitsTopic(runs[r]) /\ granted'[r] /\ runs'[r] = runs[r]

AsideStep ==
    /\ \A r \in Run : SideWrite(r) /\ (granted[r] => granted'[r])
    /\ \A t \in Worker : th'[t] = th[t] \/ LeavesAside(t)
    /\ \A t \in Caller : th'[t] = th[t] \/ th'[t].pc \in CallerPC
    /\ OneMoves /\ ReadsAside /\ UNCHANGED started /\ cmds' \subseteq cmds

LEMMA Untouched ==
    ASSUME BaseInv, UNCHANGED <<runs, started, granted>>, cmds' \subseteq cmds, ReadsAside,
           NEW t \in Thread, OnlyThread(t),
           t \in Worker => LeavesAside(t),
           t \in Caller => th'[t].pc \in CallerPC
    PROVE  AsideStep
<1>1. \A u \in Worker \cup Caller : u \in Thread
    BY DEF Thread
<1>2. OneMoves
    BY <1>1 DEF OneMoves, OnlyThread
<1> QED BY <1>1, <1>2 DEF AsideStep, SideWrite, OnlyThread

\* One run is written by somebody without its lock.
LEMMA OneSideWrite ==
    ASSUME BaseInv, NEW q \in Run, NEW rec, runs' = [runs EXCEPT ![q] = rec],
           rec = runs'[q] => SideWrite(q), \A r \in Run : granted[r] => granted'[r],
           \A t \in Worker : th'[t] = th[t] \/ LeavesAside(t),
           \A t \in Caller : th'[t] = th[t] \/ th'[t].pc \in CallerPC,
           OneMoves, ReadsAside, UNCHANGED started, cmds' \subseteq cmds
    PROVE  AsideStep
<1>1. rec = runs'[q] /\ \A r \in Run : r # q => runs'[r] = runs[r]
    BY DEF BaseInv, TypeOK
<1>2. \A r \in Run : SideWrite(r)
    BY <1>1 DEF SideWrite
<1> QED BY <1>2 DEF AsideStep

LEMMA HookSteps ==
    ASSUME BaseInv, NEW t \in Thread, UNCHANGED <<outbox, matched>>,
           \/ WakeParent(t) \/ PublishParent(t) \/ Barrier(t) \/ ParentJoin(t)
           \/ (CancelWrite(t) /\ t \in Caller)
    PROVE  AsideStep
<1>1. OnlyThread(t) /\ th[t].pc # "idle" /\ HasRead(t)
    BY ParentOK, CancelOK, QuietOK
       DEF StepOK, HasRead, WakeParent, PublishParent, CancelWrite, Barrier, ParentJoin
<1>2. LeavesAside(t) /\ th'[t].pc \in CallerPC
  <2>1. PICK pc \in {"barrier", "wakejoin", "pubjoin", "parent", "wakeparent", "pubparent", "done"} :
          Go(t, pc)
      BY DEF WakeParent, PublishParent, CancelWrite, Barrier, ParentJoin, AfterTerminal
  <2>2. th[t].pc \notin MidPC /\ HasLock(t)
      BY DEF WakeParent, PublishParent, CancelWrite, Barrier, ParentJoin, MidPC, WorkPC, ExecPC,
             HasLock
  <2>3. th'[t].pc = pc /\ th'[t].run = th[t].run
      BY <2>1, Places DEF Stays
  <2> QED BY <2>2, <2>3 DEF LeavesAside, MidPC, WorkPC, ExecPC, CallerPC
<1>3. /\ \A u \in Worker : th'[u] = th[u] \/ LeavesAside(u)
      /\ \A u \in Caller : th'[u] = th[u] \/ th'[u].pc \in CallerPC
      /\ OneMoves
    BY <1>1, <1>2 DEF OnlyThread, Thread, OneMoves
<1>4. UNCHANGED <<started, granted, cmds>> /\ ReadsAside
  <2>1. Stays(t)
      BY Places DEF WakeParent, PublishParent, CancelWrite, Barrier, ParentJoin
  <2>2. \A u \in Thread : th'[u].snap = th[u].snap
      BY <1>1, <2>1 DEF OnlyThread, Stays
  <2> QED BY <2>2 DEF WakeParent, PublishParent, CancelWrite, Barrier, ParentJoin, ReadsAside
<1>5. CASE WakeParent(t)
  <2>1. CASE Parent(t) \in Run
    <3>1. runs' = [runs EXCEPT ![Parent(t)] = ClearAwaits(runs[Parent(t)])]
          /\ th[t].pc \in {"wakejoin", "wakeparent"}
        BY <1>5 DEF WakeParent, WakeFromExternal
    <3>2. ClearAwaits(runs[Parent(t)]) = runs'[Parent(t)] => SideWrite(Parent(t))
        BY <3>1 DEF SideWrite, Parent
    <3> QED BY <1>3, <1>4, <2>1, <3>1, <3>2, OneSideWrite
  <2>2. CASE Parent(t) \notin Run
    <3>1. runs' = runs
        BY <1>5, <2>2 DEF WakeParent, BaseInv, TypeOK
    <3> QED BY <1>1, <1>2, <1>4, <3>1, Untouched
  <2> QED BY <2>1, <2>2
<1>6. CASE CancelWrite(t) /\ t \in Caller
  <2>1. th[t].run \in Run
      BY <1>1, Working
  <2>2. runs' = [runs EXCEPT ![th[t].run] = Cancel(Self(t))]
      BY <1>6 DEF CancelWrite, Write
  <2>3. Cancel(Self(t)) = runs'[th[t].run] => SideWrite(th[t].run)
      BY <1>6 DEF SideWrite, Self
  <2> QED BY <1>3, <1>4, <2>1, <2>2, <2>3, OneSideWrite
<1>7. CASE PublishParent(t) \/ Barrier(t) \/ ParentJoin(t)
    BY <1>1, <1>2, <1>4, <1>7, Untouched DEF PublishParent, Barrier, ParentJoin
<1> QED BY <1>5, <1>6, <1>7

LEMMA RestSteps ==
    ASSUME BaseInv, NEW t \in Thread, UNCHANGED <<outbox, matched>>,
           \/ (t \in Worker /\ \E r \in Run : Deliver(t, r))
           \/ (t \in Worker /\ AcquireLock(t))
           \/ (t \in Caller /\ \E r \in Run : CancelRead(t, r))
           \/ Done(t) \/ Abort(t)
    PROVE  AsideStep
<1>1. OnlyThread(t)
    BY DeliverOK, AcquireOK, CancelOK, EndsOK DEF StepOK
<1>2. /\ t \in Worker => LeavesAside(t)
      /\ t \in Caller => th'[t].pc \in CallerPC
  <2>1. ASSUME NEW r \in Run, Deliver(t, r), t \in Worker PROVE th'[t].pc = "wait"
      BY <2>1 DEF Deliver, Idle, BaseInv, TypeOK
  <2>2. ASSUME NEW r \in Run, CancelRead(t, r), t \in Caller PROVE th'[t].pc = "cancel"
      BY <2>2 DEF CancelRead, Idle, BaseInv, TypeOK
  <2>3. ASSUME Done(t) \/ Abort(t) PROVE th'[t].pc = "idle"
      BY <2>3 DEF Done, Abort, Idle, BaseInv, TypeOK
  <2>4. ASSUME AcquireLock(t), t \in Worker PROVE th'[t].pc = "load"
      BY <2>4, Places DEF AcquireLock
  <2>5. \/ t \in Worker /\ th'[t].pc \in {"wait", "load", "idle"}
        \/ t \in Caller /\ th'[t].pc \in {"cancel", "idle"}
      BY <2>1, <2>2, <2>3, <2>4 DEF Thread
  <2>6. th[t].pc \notin MidPC \/ aborts < MaxAborts
      BY DEF Deliver, AcquireLock, CancelRead, Done, Abort, MidPC, WorkPC, ExecPC
  <2>7. ASSUME AcquireLock(t), t \in Worker, OneProcess
        PROVE  \A u \in Worker : th[u].run = th'[t].run => ~HasLock(u)
    <3>1. th'[t].run = th[t].run
        BY <2>7, Places DEF AcquireLock, Stays
    <3> QED BY <2>7, <3>1 DEF AcquireLock, OneProcess, HasLock
  <2>8. ASSUME t \in Worker, th'[t].pc = "load" PROVE AcquireLock(t)
      BY <2>1, <2>2, <2>3, <2>8, WorkerIsNoCaller
  <2> QED BY <2>5, <2>6, <2>7, <2>8, WorkerIsNoCaller DEF LeavesAside, MidPC, WorkPC, ExecPC, CallerPC
<1>3. UNCHANGED <<runs, started, granted, cmds>>
    BY DEF Deliver, AcquireLock, CancelRead, Done, Abort
<1>4. ReadsAside
  <2>1. ASSUME th'[t].snap.parent \in {Nil, th[t].snap.parent}
               \/ \E r \in Run : th'[t].snap.parent = runs[r].parent
        PROVE  ReadsAside
      BY <1>1, <2>1 DEF OnlyThread, ReadsAside
  <2>2. ASSUME NEW r \in Run, Deliver(t, r) PROVE th'[t].snap.parent = Nil
      BY <2>2 DEF Deliver, Idle, Absent, BaseInv, TypeOK
  <2>3. ASSUME NEW r \in Run, CancelRead(t, r) PROVE th'[t].snap.parent = runs[r].parent
      BY <2>3 DEF CancelRead, Idle, BaseInv, TypeOK
  <2>4. ASSUME Done(t) \/ Abort(t) PROVE th'[t].snap.parent = Nil
      BY <2>4 DEF Done, Abort, Idle, Absent, BaseInv, TypeOK
  <2>5. ASSUME AcquireLock(t) PROVE th'[t].snap = th[t].snap
      BY <2>5, Places DEF AcquireLock, Stays
  <2> QED BY <2>1, <2>2, <2>3, <2>4, <2>5
<1> QED BY <1>1, <1>2, <1>3, <1>4, Untouched

LEMMA LoadSteps ==
    ASSUME BaseInv, NEW t \in Thread, Load(t), UNCHANGED <<outbox, matched>>
    PROVE  LoadStep(t)
<1> DEFINE r == Self(t)
<1>1. OnlyThread(t) /\ th[t].pc = "load" /\ UNCHANGED <<runs, started, granted, cmds>>
    BY LoadOK DEF StepOK, Load
<1>2. th[t] \in ThreadRecord /\ th \in [Thread -> ThreadRecord]
    BY DEF BaseInv, TypeOK
<1>3. th'[t] = [th[t] EXCEPT !.pc = AfterLoad(r), !.snap = r, !.timedOut = TimedOut(r), !.tries = 0]
    BY <1>2 DEF Load
<1> HIDE DEF r
<1>4. th'[t].pc = AfterLoad(r) /\ th'[t].run = th[t].run /\ th'[t].snap = r
    BY <1>2, <1>3 DEF ThreadRecord
<1> QED BY <1>1, <1>4 DEF LoadStep, r

LEMMA OutsideSteps ==
    ASSUME BaseInv, Outside
    PROVE  AsideStep
<1>1. UNCHANGED <<th, started>> /\ cmds' \subseteq cmds /\ OneMoves
    BY DEF Outside, Tick, TimerPoll, EventWake, PublishOut, Signal, EventArrives, ReportResult,
           ReportError, OneMoves
<1>2. runs \in [Run -> RunRecord] /\ granted \in [Run -> BOOLEAN]
    BY DEF BaseInv, TypeOK
<1>reads. ReadsAside
  <2>1. \A r \in matched' : \/ r \in matched
                            \/ AwaitsTopic(runs[r]) /\ granted'[r] /\ runs'[r] = runs[r]
    <3>1. ASSUME NEW n \in Name, EventArrives(n), NEW r \in matched'
          PROVE  AwaitsTopic(runs[r]) /\ granted'[r] /\ runs'[r] = runs[r]
        BY <3>1, NilIsNone DEF EventArrives, AwaitsEvent, AwaitsTopic
    <3>2. ASSUME ~\E n \in Name : EventArrives(n) PROVE matched' \subseteq matched
        BY <3>2 DEF Outside, Tick, TimerPoll, EventWake, PublishOut, Signal, ReportResult,
                    ReportError
    <3> QED BY <3>1, <3>2
  <2> QED BY <1>1, <2>1 DEF ReadsAside
<1>3. ASSUME NEW r \in Run, Tick(r) PROVE AsideStep
  <2>1. runs' = [runs EXCEPT ![r] = [runs[r] EXCEPT !.wakeup = "due"]]
        /\ granted'[r] /\ \A q \in Run : granted[q] => granted'[q]
      BY <1>2, <1>3 DEF Tick
  <2>2. [runs[r] EXCEPT !.wakeup = "due"] = runs'[r] => SideWrite(r)
      BY <1>3, <2>1 DEF Tick, SideWrite
  <2> QED BY <1>1, <1>reads, <2>1, <2>2, OneSideWrite
<1>4. ASSUME NEW r \in Run, TimerPoll(r) \/ PublishOut(r) PROVE AsideStep
    BY <1>1, <1>4, <1>reads DEF TimerPoll, PublishOut, AsideStep, SideWrite
<1>5. ASSUME NEW r \in Run, NEW n \in Name, Signal(r, n) PROVE AsideStep
  <2>1. runs' = [runs EXCEPT ![r] = ClearAwaits(runs[r])]
        /\ granted'[r] /\ runs[r].signal # Nil /\ \A q \in Run : granted[q] => granted'[q]
      BY <1>2, <1>5, NilIsNone DEF Signal, ConsumeSignal, AwaitsSignal
  <2>2. ClearAwaits(runs[r]) = runs'[r] => SideWrite(r)
      BY <2>1 DEF SideWrite
  <2> QED BY <1>1, <1>reads, <2>1, <2>2, OneSideWrite
<1>6. ASSUME NEW r \in Run, EventWake(r) PROVE AsideStep
  <2>1. runs' = [runs EXCEPT ![r] = ClearAwaits(runs[r])] /\ r \in matched /\ r \notin matched'
        /\ \A q \in Run : granted[q] => granted'[q]
      BY <1>6 DEF EventWake, WakeFromExternal
  <2>2. ClearAwaits(runs[r]) = runs'[r] => SideWrite(r)
      BY <2>1 DEF SideWrite
  <2> QED BY <1>1, <1>reads, <2>1, <2>2, OneSideWrite
<1>7. ASSUME NEW n \in Name, EventArrives(n) PROVE AsideStep
    BY <1>1, <1>2, <1>7, <1>reads DEF EventArrives, AsideStep, SideWrite
<1>8. ASSUME NEW c \in cmds, ReportResult(c) PROVE AsideStep
  <2>1. c.run \in Run
      BY DEF BaseInv, PendingKnown, Known
  <2>2. runs' = [runs EXCEPT ![c.run] = CompleteAction(runs[c.run], c.attempt)]
        /\ \A q \in Run : granted[q] => granted'[q]
      BY <1>2, <1>8, <2>1 DEF ReportResult
  <2>3. CompleteAction(runs[c.run], c.attempt) = runs'[c.run] => SideWrite(c.run)
      BY DEF SideWrite
  <2> QED BY <1>1, <1>reads, <2>1, <2>2, <2>3, OneSideWrite
<1>9. ASSUME NEW c \in cmds, ReportError(c) PROVE AsideStep
  <2>1. c.run \in Run
      BY DEF BaseInv, PendingKnown, Known
  <2>2. runs' = [runs EXCEPT ![c.run] = FailAction(runs[c.run], c.attempt)]
        /\ \A q \in Run : granted[q] => granted'[q]
      BY <1>9 DEF ReportError
  <2>3. FailAction(runs[c.run], c.attempt) = runs'[c.run] => SideWrite(c.run)
      BY <1>9 DEF SideWrite, ReportError
  <2> QED BY <1>1, <1>reads, <2>1, <2>2, <2>3, OneSideWrite
<1> QED BY <1>3, <1>4, <1>5, <1>6, <1>7, <1>8, <1>9 DEF Outside

LEMMA CallerSteps ==
    ASSUME BaseInv, CallersOnlyCancel, NEW t \in Caller, Proceed(t), UNCHANGED <<outbox, matched>>
    PROVE  AsideStep
<1>1. t \in Thread /\ th[t].pc \in CallerPC
    BY DEF Thread, CallersOnlyCancel
<1>2. \/ WakeParent(t) \/ PublishParent(t) \/ CancelWrite(t) \/ Barrier(t) \/ ParentJoin(t)
      \/ Done(t)
    BY <1>1, CallerActions
<1> QED BY <1>1, <1>2, HookSteps, RestSteps

\* Goroutines keep their roles: callers cancel, workers do not (but for the cancel verb).
Roles == CallersOnlyCancel /\ \A t \in Worker : th[t].pc # "cancel"

LEMMA StepSplit ==
    ASSUME BaseInv, Roles, [Next]_vars
    PROVE  \/ \E t \in Worker : AdvanceStep(t) /\ UNCHANGED matched
           \/ \E t \in Worker : LoadStep(t) /\ UNCHANGED matched
           \/ AsideStep
<1> DEFINE Q == \/ \E t \in Worker : AdvanceStep(t) /\ UNCHANGED matched
                \/ \E t \in Worker : LoadStep(t) /\ UNCHANGED matched
                \/ AsideStep
<1>1. CASE UNCHANGED vars
    BY <1>1 DEF vars, AsideStep, SideWrite, OneMoves, ReadsAside
<1>2. CASE Outside
    BY <1>2, OutsideSteps
<1>3. CASE CoordinatorNext /\ UNCHANGED <<outbox, matched>>
  <2>1. ASSUME NEW t \in Worker, NEW r \in Run, Deliver(t, r) PROVE Q
      BY <1>3, <2>1, RestSteps, WorkerIsNoCaller
  <2>2. ASSUME NEW t \in Worker, AcquireLock(t) PROVE Q
      BY <1>3, <2>2, RestSteps, WorkerIsNoCaller
  <2>3. ASSUME NEW t \in Caller, NEW r \in Run, CancelRead(t, r) PROVE Q
      BY <1>3, <2>3, RestSteps DEF Thread
  <2>4. ASSUME NEW t \in Thread, Abort(t) PROVE Q
      BY <1>3, <2>4, RestSteps
  <2>5. ASSUME NEW t \in Caller, Proceed(t) PROVE Q
      BY <1>3, <2>5, CallerSteps DEF Roles
  <2>6. ASSUME NEW t \in Worker, Proceed(t) PROVE Q
    <3>1. t \in Thread /\ UNCHANGED <<outbox, matched>> /\ ~CancelWrite(t)
        BY <1>3, <2>6, WorkerIsNoCaller DEF Roles, CancelWrite
    <3>2. CASE Load(t)
        BY <2>6, <3>1, <3>2, LoadSteps
    <3>3. CASE CheckChildren(t) \/ Clear(t) \/ Reread(t) \/ SetNext(t) \/ Dispatch(t)
        BY <2>6, <3>1, <3>3, WakeSteps, DispatchSteps
    <3>4. CASE \/ Complete(t) \/ Reject(t) \/ ExecWait(t) \/ ExecSignal(t) \/ ExecEvent(t)
               \/ ExecAction(t) \/ PauseFork(t) \/ PauseJoin(t) \/ ExecCancel(t)
        BY <2>6, <3>1, <3>4, VerbSteps
    <3>5. CASE \/ ExecSync(t) \/ VerbFails(t) \/ Send(t) \/ SendFails(t) \/ PublishFails(t)
               \/ ForkPaused(t) \/ ExecJoin(t) \/ PublishSpawned(t) \/ PublishChild(t)
        BY <2>6, <3>1, <3>5, QuietSteps
    <3>6. CASE \/ ExecTry(t) \/ Catch(t) \/ Uncaught(t) \/ StartRollback(t) \/ Undo(t)
               \/ RolledBack(t) \/ MarkFailed(t)
        BY <2>6, <3>1, <3>6, FailSteps
    <3>7. CASE SpawnChild(t)
        BY <2>6, <3>1, <3>7, SpawnSteps
    <3>8. CASE WakeParent(t) \/ PublishParent(t) \/ Barrier(t) \/ ParentJoin(t) \/ Done(t)
        BY <3>1, <3>8, HookSteps, RestSteps
    <3> QED BY <2>6, <3>1, <3>2, <3>3, <3>4, <3>5, <3>6, <3>7, <3>8 DEF Proceed
  <2>7. \A t \in Thread : t \in Worker \/ t \in Caller
      BY DEF Thread
  <2> HIDE DEF Q
  <2>8. Q
      BY <1>3, <2>1, <2>2, <2>3, <2>4, <2>5, <2>6, <2>7 DEF CoordinatorNext
  <2> QED BY <2>8 DEF Q
<1> QED BY <1>1, <1>2, <1>3 DEF Next

LEMMA RolesKept ==
    ASSUME BaseInv, Roles, [Next]_vars
    PROVE  Roles'
<1>1. ASSUME NEW t \in Worker, OnlyThread(t), th'[t].pc # "cancel" PROVE Roles'
    BY <1>1, WorkerIsNoCaller DEF Roles, CallersOnlyCancel, OnlyThread, Thread
<1>2. ASSUME NEW t \in Worker, AdvanceStep(t) PROVE Roles'
  <2>1. th'[t].pc # "cancel"
      BY <1>2 DEF AdvanceStep, OwnMove, WakeMove, QuietMove, EndMove, PauseMove, FailMove,
                  DispatchMove, Answers
  <2> QED BY <1>1, <1>2, <2>1 DEF AdvanceStep
<1>3. ASSUME NEW t \in Worker, LoadStep(t) PROVE Roles'
  <2>1. th'[t].pc # "cancel"
      BY <1>3 DEF LoadStep, AfterLoad
  <2> QED BY <1>1, <1>3, <2>1 DEF LoadStep
<1>4. CASE AsideStep
    BY <1>4 DEF AsideStep, LeavesAside, Roles, CallersOnlyCancel
<1> QED BY <1>2, <1>3, <1>4, StepSplit

LEMMA RolesInit == Init => Roles
<1> SUFFICES ASSUME Init PROVE Roles
    OBVIOUS
<1>1. \A t \in Thread : th[t].pc = "idle"
    BY DEF Init, CoordinatorInit, Idle
<1> QED BY <1>1 DEF Roles, CallersOnlyCancel, CallerPC, Thread

-----------------------------------------------------------------------------
(***************************************************************************)
(* What the store calls make of a record.                                  *)
(***************************************************************************)
SameKin(m, n) == n.start = m.start /\ n.parent = m.parent /\ n.pstep = m.pstep

SameMarks(m, n) == n.wakeup = m.wakeup /\ n.signal = m.signal /\ n.topic = m.topic

Blank(n) == n.wakeup = "none" /\ n.signal = Nil /\ n.topic = Nil

SameWork(m, n) == n.step = m.step /\ n.attempt = m.attempt /\ n.frames = m.frames

LEMMA StateWritten ==
    ASSUME NEW m \in RunRecord, NEW st, NEW s
    PROVE  LET n == UpdateRunState(m, st, s) IN
           /\ n.state = st /\ n.step = s /\ n.attempt = m.attempt /\ n.frames = m.frames
           /\ SameKin(m, n) /\ SameMarks(m, n)
BY DEF UpdateRunState, RunRecord, SameKin, SameMarks

LEMMA FailWritten ==
    ASSUME NEW m \in RunRecord, NEW s
    PROVE  LET n == MarkRunFailed(m, s) IN
           /\ IF IsTerminal(m) THEN n = m ELSE n.state = "failed" /\ n.step = s
           /\ IsTerminal(n) /\ n.attempt = m.attempt /\ n.frames = m.frames
           /\ SameKin(m, n) /\ SameMarks(m, n)
BY DEF MarkRunFailed, RunRecord, IsTerminal, Terminal, SameKin, SameMarks

LEMMA MarksCleared ==
    ASSUME NEW m \in RunRecord
    PROVE  /\ LET n == ClearAwaits(m) IN
              Blank(n) /\ n.state = m.state /\ SameWork(m, n) /\ SameKin(m, n)
           /\ LET n == ClearPause(m) IN
              Blank(n) /\ n.state = "running" /\ SameWork(m, n) /\ SameKin(m, n)
           /\ LET n == Cancel(m) IN
              /\ IF IsTerminal(m) THEN n = m ELSE n.state = "cancelled" /\ Blank(n)
              /\ SameWork(m, n) /\ SameKin(m, n)
<1>1. LET n == ClearAwaits(m) IN
      Blank(n) /\ n.state = m.state /\ SameWork(m, n) /\ SameKin(m, n)
    BY DEF ClearAwaits, RunRecord, Blank, SameWork, SameKin
<1>2. LET n == ClearPause(m) IN
      Blank(n) /\ n.state = "running" /\ SameWork(m, n) /\ SameKin(m, n)
    BY DEF ClearPause, ClearAwaits, RunRecord, Blank, SameWork, SameKin
<1>3. LET n == Cancel(m) IN
      /\ IF IsTerminal(m) THEN n = m ELSE n.state = "cancelled" /\ Blank(n)
      /\ SameWork(m, n) /\ SameKin(m, n)
    BY DEF Cancel, ClearAwaits, RunRecord, Blank, SameWork, SameKin
<1> QED BY <1>1, <1>2, <1>3

LEMMA PausesWritten ==
    ASSUME NEW m \in RunRecord, NEW name, NEW deadline \in BOOLEAN
    PROVE  /\ LET n == SetPausedWithWakeup(m) IN
              /\ n.state = "paused" /\ n.wakeup = "later" /\ n.signal = m.signal
              /\ n.topic = m.topic /\ SameWork(m, n) /\ SameKin(m, n)
           /\ LET n == SetPausedAwaitingSignal(m, name, deadline) IN
              /\ n.state = "paused" /\ n.signal = name /\ n.topic = m.topic
              /\ n.wakeup = (IF deadline THEN "later" ELSE m.wakeup)
              /\ SameWork(m, n) /\ SameKin(m, n)
           /\ LET n == SetPausedAwaitingEvent(m, name, deadline) IN
              /\ n.state = "paused" /\ n.topic = name /\ n.signal = m.signal
              /\ n.wakeup = (IF deadline THEN "later" ELSE "none")
              /\ SameWork(m, n) /\ SameKin(m, n)
<1>1. LET n == SetPausedWithWakeup(m) IN
      /\ n.state = "paused" /\ n.wakeup = "later" /\ n.signal = m.signal
      /\ n.topic = m.topic /\ SameWork(m, n) /\ SameKin(m, n)
    BY DEF SetPausedWithWakeup, RunRecord, SameWork, SameKin
<1>2. LET n == SetPausedAwaitingSignal(m, name, deadline) IN
      /\ n.state = "paused" /\ n.signal = name /\ n.topic = m.topic
      /\ n.wakeup = (IF deadline THEN "later" ELSE m.wakeup)
      /\ SameWork(m, n) /\ SameKin(m, n)
    BY DEF SetPausedAwaitingSignal, RunRecord, SameWork, SameKin
<1>3. LET n == SetPausedAwaitingEvent(m, name, deadline) IN
      /\ n.state = "paused" /\ n.topic = name /\ n.signal = m.signal
      /\ n.wakeup = (IF deadline THEN "later" ELSE "none")
      /\ SameWork(m, n) /\ SameKin(m, n)
    BY DEF SetPausedAwaitingEvent, RunRecord, SameWork, SameKin
<1> QED BY <1>1, <1>2, <1>3

LEMMA ActionWritten ==
    ASSUME NEW m \in RunRecord, NEW s, NEW k
    PROVE  LET n == MarkAwaitingAction(m, s, k) IN
           /\ n = m \/ (n.state = "paused" /\ n.attempt = k)
           /\ n.step = m.step /\ n.frames = m.frames /\ SameMarks(m, n) /\ SameKin(m, n)
BY DEF MarkAwaitingAction, RunRecord, SameMarks, SameKin

LEMMA FramesWritten ==
    ASSUME NEW m \in RunRecord, NEW s
    PROVE  /\ LET n == PushTryCatch(m, s) IN
              /\ n.state = m.state /\ n.step = m.step /\ n.attempt = m.attempt
              /\ SameMarks(m, n) /\ SameKin(m, n)
           /\ LET n == PopTryCatch(m) IN
              /\ n.state = m.state /\ n.step = m.step /\ n.attempt = m.attempt
              /\ SameMarks(m, n) /\ SameKin(m, n)
BY DEF PushTryCatch, PopTryCatch, RunRecord, SameMarks, SameKin

LEMMA DueWritten ==
    ASSUME NEW m \in RunRecord
    PROVE  LET n == [m EXCEPT !.wakeup = "due"] IN
           /\ n.wakeup = "due" /\ n.state = m.state /\ n.signal = m.signal
           /\ n.topic = m.topic /\ SameWork(m, n) /\ SameKin(m, n)
BY DEF RunRecord, SameWork, SameKin

LEMMA FailureWritten ==
    ASSUME NEW m \in RunRecord, NEW k
    PROVE  LET n == FailAction(m, k) IN
           /\ n = m \/ n.state = "failed"
           /\ SameMarks(m, n) /\ SameWork(m, n) /\ SameKin(m, n)
BY DEF FailAction, RunRecord, SameWork, SameKin, SameMarks

LEMMA CompletionWritten ==
    ASSUME NEW m \in RunRecord, NEW k
    PROVE  LET n == CompleteAction(m, k) IN
           /\ n.state = m.state /\ n.signal = m.signal /\ n.topic = m.topic
           /\ SameWork(m, n) /\ SameKin(m, n)
BY DEF CompleteAction, RunRecord, SameWork, SameKin

-----------------------------------------------------------------------------
(***************************************************************************)
(* Ends.                                                                   *)
(***************************************************************************)
\* Without the lock nobody changes the state of a run that has ended.
LEMMA SideStates ==
    ASSUME BaseInv, NEW r \in Run, SideWrite(r), "report" \notin Faults
    PROVE  /\ runs'[r].state = runs[r].state \/ (~IsTerminal(runs[r]) /\ Caller # {})
           /\ runs'[r].step = runs[r].step
<1>1. runs[r] \in RunRecord
    BY DEF BaseInv, TypeOK
<1>2. CASE runs'[r] = runs[r] \/ runs'[r] = ClearAwaits(runs[r])
    BY <1>1, <1>2, MarksCleared DEF SameWork
<1>3. CASE Caller # {} /\ runs'[r] = Cancel(runs[r])
    BY <1>1, <1>3, MarksCleared DEF SameWork
<1>4. CASE runs'[r] = [runs[r] EXCEPT !.wakeup = "due"]
    BY <1>1, <1>4, DueWritten DEF SameWork
<1>5. ASSUME NEW c \in cmds, runs'[r] = CompleteAction(runs[r], c.attempt)
      PROVE  runs'[r].state = runs[r].state /\ runs'[r].step = runs[r].step
    BY <1>1, <1>5, CompletionWritten DEF SameWork
<1> QED BY <1>2, <1>3, <1>4, <1>5 DEF SideWrite

LEMMA EndedStays ==
    ASSUME BaseInv, Roles, [Next]_vars, "report" \notin Faults, NEW r \in Run, IsTerminal(runs[r]),
           \A t \in Worker : th[t].run = r => th[t].pc \notin MidPC
    PROVE  runs'[r].state = runs[r].state
<1>1. runs[r].state # "absent"
    BY DEF IsTerminal, Terminal
<1>2. ASSUME NEW t \in Worker, AdvanceStep(t) PROVE runs'[r] = runs[r]
    BY <1>1, <1>2 DEF AdvanceStep, Spawns
<1>3. ASSUME NEW t \in Worker, LoadStep(t) PROVE runs'[r] = runs[r]
    BY <1>3 DEF LoadStep
<1>4. CASE AsideStep
    BY <1>4, SideStates DEF AsideStep
<1> QED BY <1>2, <1>3, <1>4, StepSplit

\* A run that has ended while no advance was in the middle of it stays as it ended, also
\* with several processes, and whatever is cancelled, cut short, lost or delivered twice
\* (memory/store.go:226-231).
THEOREM SettledForGood ==
    ASSUME "report" \notin Faults
    PROVE  Spec => SettledIsFinal
<1> DEFINE I == BaseInv /\ Roles
           P == \A r \in Run : IsTerminal(runs[r]) /\ ~Advancing(r) => runs'[r].state = runs[r].state
<1>1. Init => I
    BY BaseInit, RolesInit
<1>2. I /\ [Next]_vars => I'
    BY BaseNext, RolesKept
<1>3. I /\ [Next]_vars => P
  <2> SUFFICES ASSUME BaseInv, Roles, [Next]_vars, NEW r \in Run, IsTerminal(runs[r]), ~Advancing(r)
               PROVE  runs'[r].state = runs[r].state
      OBVIOUS
  <2>1. \A t \in Worker : th[t].run = r => th[t].pc \notin MidPC
      BY DEF Advancing, MidPC, WorkPC, ExecPC
  <2> QED BY <2>1, EndedStays
<1> HIDE DEF I, P
<1>4. Spec => [][P]_vars
    BY <1>1, <1>2, <1>3, PTL DEF Spec
<1> QED BY <1>4 DEF SettledIsFinal, P

LEMMA MidPCs ==
    /\ WorkPC \subseteq MidPC
    /\ \A pc \in MidPC : pc \notin {"idle", "wait", "load", "cancel", "done", "barrier"}
BY DEF MidPC, WorkPC, ExecPC

\* Where an advance goes with what it has read.
LEMMA LoadPlaces ==
    ASSUME NEW m
    PROVE  \/ AfterLoad(m) = "done"
           \/ /\ AfterLoad(m) \in {"children", "clear"} /\ m.state = "paused" /\ ~IsTerminal(m)
              /\ WakeupDue(m) \/ (ExternalWake(m) /\ (AfterLoad(m) = "children" <=> Def[m.step].type = "fork"))
           \/ AfterLoad(m) = "dispatch" /\ m.state # "paused" /\ ~IsTerminal(m)
<1>1. CASE IsTerminal(m)
    BY <1>1 DEF AfterLoad, IsTerminal, Terminal
<1>2. CASE m.state = "paused"
    BY <1>2 DEF AfterLoad, IsTerminal, Terminal
<1>3. CASE ~IsTerminal(m) /\ m.state # "paused"
    BY <1>3 DEF AfterLoad
<1> QED BY <1>1, <1>2, <1>3

\* The other goroutines in the middle of a run, and their runs, are left alone.
LEMMA OthersKept ==
    ASSUME BaseInv, OneAdvancePerRun, NEW t \in Worker, AdvanceStep(t) \/ LoadStep(t),
           NEW u \in Worker, u # t, HasLock(u)
    PROVE  /\ th'[u] = th[u] /\ th[u].run \in Run
           /\ runs'[th[u].run] = runs[th[u].run]
           /\ th[u].run # th[t].run
<1>1. th'[u] = th[u] /\ HasLock(t)
    BY WorkerIsNoCaller, MidPCs DEF AdvanceStep, LoadStep, OnlyThread, HasLock
<1>2. th[u].run # th[t].run
    BY <1>1 DEF OneAdvancePerRun
<1>3. th[u].run \in Run /\ runs[th[u].run].state # "absent"
    BY WorkerIsNoCaller, Working DEF HasLock, Known
<1> QED BY <1>1, <1>2, <1>3 DEF AdvanceStep, LoadStep, Spawns

\* Own facts of a goroutine in the middle of its run.
LEMMA OwnFacts ==
    ASSUME BaseInv, NEW t \in Worker, th[t].pc \in MidPC
    PROVE  /\ Self(t) = runs[th[t].run] /\ Self(t) \in RunRecord /\ th[t].run \in Run
           /\ StepOf(t) \in Step /\ Def[StepOf(t)] \in StepDef
           /\ HasLock(t) /\ th[t] \in ThreadRecord
<1>1. t \in Thread /\ th[t].pc # "idle" /\ HasRead(t) /\ HasLock(t)
    BY WorkerIsNoCaller, MidPCs DEF HasRead, HasLock
<1> QED BY <1>1, Working DEF Self, DefOf

-----------------------------------------------------------------------------
\* In the middle of an advance that nobody can cancel, the run has not ended.
OpenInv == \A t \in Worker : th[t].pc \in MidPC => ~IsTerminal(runs[th[t].run])

LEMMA OpenMove ==
    ASSUME NEW m \in RunRecord, ~IsTerminal(m), NEW x, NEW y, NEW n, NEW c,
           OwnMove(x, y, m, n, c), y.pc \in MidPC
    PROVE  ~IsTerminal(n)
<1>1. y.pc \notin {"load", "done", "barrier"}
    BY MidPCs
<1>2. CASE WakeMove(x, y, m, n)
    BY <1>1, <1>2, MarksCleared DEF WakeMove, IsTerminal, Terminal
<1>3. CASE EndMove(x, y, m, n, c)
    BY <1>1, <1>3 DEF EndMove
<1>4. CASE PauseMove(x, y, m, n, c)
  <2>1. n = MarkAwaitingAction(m, c, x.snap.attempt + 1) \/ n = UpdateRunState(m, "paused", c)
      BY <1>1, <1>4 DEF PauseMove
  <2>2. n = m \/ n.state = "paused"
      BY <2>1, StateWritten, ActionWritten
  <2> QED BY <2>2 DEF IsTerminal, Terminal
<1>5. CASE FailMove(x, y, m, n, c)
  <2>1. n.state = m.state \/ n.state = "compensating"
      BY <1>5, FramesWritten, StateWritten DEF FailMove
  <2> QED BY <2>1 DEF IsTerminal, Terminal
<1>6. CASE DispatchMove(x, y, m, n, c)
    BY <1>6, StateWritten DEF DispatchMove, IsTerminal, Terminal
<1> QED BY <1>2, <1>3, <1>4, <1>5, <1>6 DEF OwnMove

LEMMA OpenKept ==
    ASSUME AwaitInv, Roles, OpenInv, [Next]_vars, "report" \notin Faults, Caller = {}
    PROVE  OpenInv'
<1> SUFFICES ASSUME NEW u \in Worker, th'[u].pc \in MidPC
             PROVE  ~IsTerminal(runs'[th'[u].run])
    BY DEF OpenInv, IsTerminal
<1>1. ASSUME NEW t \in Worker, AdvanceStep(t) PROVE ~IsTerminal(runs'[th'[u].run])
  <2>1. CASE u = t
    <3>1. th[u].pc \in MidPC /\ th'[u].run = th[u].run
          /\ OwnMove(th[u], th'[u], Self(u), runs'[th[u].run], StepOf(u))
        BY <1>1, <2>1 DEF AdvanceStep, Stays
    <3>2. Self(u) \in RunRecord /\ ~IsTerminal(Self(u))
        BY <3>1, OwnFacts DEF OpenInv, AwaitInv
    <3> QED BY <3>1, <3>2, OpenMove
  <2>2. CASE u # t
    <3>1. th'[u] = th[u]
        BY <1>1, <2>2, WorkerIsNoCaller DEF AdvanceStep, OnlyThread
    <3>2. HasLock(u)
        BY <3>1, MidPCs DEF HasLock
    <3> QED BY <1>1, <2>2, <3>1, <3>2, OthersKept DEF OpenInv, AwaitInv, LockInv
  <2> QED BY <2>1, <2>2
<1>2. ASSUME NEW t \in Worker, LoadStep(t) PROVE ~IsTerminal(runs'[th'[u].run])
  <2>1. CASE u = t
    <3>1. AfterLoad(Self(u)) # "done"
        BY <1>2, <2>1, MidPCs DEF LoadStep
    <3>2. runs'[th'[u].run] = Self(u)
        BY <1>2, <2>1 DEF LoadStep, Self
    <3> QED BY <3>1, <3>2, LoadPlaces
  <2>2. CASE u # t
    <3>1. th'[u] = th[u]
        BY <1>2, <2>2, WorkerIsNoCaller DEF LoadStep, OnlyThread
    <3> QED BY <1>2, <3>1 DEF OpenInv, LoadStep
  <2> QED BY <2>1, <2>2
<1>3. CASE AsideStep
  <2>1. th'[u] = th[u] /\ th[u].pc \in MidPC
      BY <1>3 DEF AsideStep, LeavesAside
  <2>2. th[u].run \in Run
      BY <2>1, OwnFacts DEF AwaitInv
  <2>3. runs'[th[u].run].state = runs[th[u].run].state
      BY <1>3, <2>2, SideStates DEF AsideStep, AwaitInv
  <2> QED BY <2>1, <2>3 DEF OpenInv, IsTerminal
<1> QED BY <1>1, <1>2, <1>3, StepSplit DEF AwaitInv

\* Without cancellations from outside, and in one process, a run that has ended never
\* changes state again (domain/run.go:45-53): no duplicate, late or redelivered message
\* starts it again.
THEOREM EndedForGood ==
    ASSUME OneProcess, "report" \notin Faults, Caller = {}
    PROVE  Spec => TerminalIsFinal
<1> DEFINE I == AwaitInv /\ Roles /\ OpenInv
           P == \A r \in Run : IsTerminal(runs[r]) => runs'[r].state = runs[r].state
<1>1. Init => I
  <2>1. Init => OpenInv
    <3> SUFFICES ASSUME Init PROVE OpenInv
        OBVIOUS
    <3>1. \A t \in Worker : th[t].pc = "idle"
        BY WorkerIsNoCaller DEF Init, CoordinatorInit, Idle
    <3> QED BY <3>1, MidPCs DEF OpenInv
  <2> QED BY <2>1, AwaitInit, RolesInit
<1>2. I /\ [Next]_vars => I'
  <2> SUFFICES ASSUME AwaitInv, Roles, OpenInv, [Next]_vars PROVE I'
      OBVIOUS
  <2> QED BY AwaitNext, RolesKept, OpenKept DEF AwaitInv
<1>3. I /\ [Next]_vars => P
    BY EndedStays DEF OpenInv, AwaitInv
<1> HIDE DEF I, P
<1>4. Spec => [][P]_vars
    BY <1>1, <1>2, <1>3, PTL DEF Spec
<1> QED BY <1>4 DEF TerminalIsFinal, P

-----------------------------------------------------------------------------
(***************************************************************************)
(* Deadlines.  Without actions only a wait sets a wakeup_at, and the run   *)
(* an advance works on has none.                                           *)
(***************************************************************************)
NoActions == \A s \in Step : Def[s].type # "action"

WakeupFits(m) ==
    m.wakeup # "none" => m.state = "paused" /\ Def[m.step].type \in {"wait", "signal", "event"}

QuietInv ==
    /\ cmds = {}
    /\ \A t \in Worker : th[t].pc # "send"
    /\ \A t \in Worker : th[t].pc \in WorkPC => runs[th[t].run].wakeup = "none"
    /\ \A r \in Run : WakeupFits(runs[r])

LEMMA QuietMoves ==
    ASSUME NoActions, NEW m \in RunRecord, NEW n, NEW x, NEW y, NEW c \in Step,
           OwnMove(x, y, m, n, c), x.pc # "send",
           x.pc \in WorkPC => m.wakeup = "none", WakeupFits(m), x.pc = "exec" => m.step = c
    PROVE  /\ y.pc # "send" /\ WakeupFits(n)
           /\ y.pc \in WorkPC => n.wakeup = "none"
<1> USE DEF NoActions
<1>0. /\ \A pc \in {"exec", "reread", "setnext", "complete", "fail", "rollback", "undo", "dispatch",
                    "markfailed", "pausejoin", "publish"} : pc \in WorkPC
      /\ \A pc \in {"done", "barrier", "load", "children", "clear"} : pc \notin WorkPC
    BY DEF WorkPC, ExecPC
<1>1. ASSUME n.wakeup = "none", y.pc # "send" 
      PROVE  y.pc # "send" /\ WakeupFits(n) /\ (y.pc \in WorkPC => n.wakeup = "none")
    BY <1>1 DEF WakeupFits
<1>2. CASE WakeMove(x, y, m, n)
  <2>1. CASE x.pc = "children"
      BY <1>0, <1>2, <2>1 DEF WakeMove
  <2>2. CASE x.pc # "children"
    <3>1. n.wakeup = "none" /\ y.pc # "send"
        BY <1>0, <1>2, <2>2, MarksCleared, StateWritten DEF WakeMove, Blank, SameMarks
    <3> QED BY <1>1, <3>1
  <2> QED BY <2>1, <2>2
<1>3. CASE QuietMove(x, y, c) /\ n = m
  <2>1. m.wakeup = "none" /\ y.pc # "send"
      BY <1>0, <1>3 DEF QuietMove, Answers
  <2> QED BY <1>1, <1>3, <2>1
<1>4. CASE EndMove(x, y, m, n, c)
  <2>1. n.wakeup = "none" /\ y.pc # "send"
      BY <1>0, <1>4, StateWritten, FailWritten DEF EndMove, SameMarks
  <2> QED BY <1>1, <2>1
<1>5. CASE PauseMove(x, y, m, n, c)
  <2>1. CASE y.pc = "done" /\ x.pc = "exec"
    <3>1. \/ Def[c].type = "wait" /\ n = SetPausedWithWakeup(m)
          \/ Def[c].type = "signal" /\ n = SetPausedAwaitingSignal(m, Def[c].name, Def[c].deadline)
          \/ Def[c].type = "event" /\ n = SetPausedAwaitingEvent(m, Def[c].name, Def[c].deadline)
        BY <1>5, <2>1 DEF PauseMove
    <3>2. Def[c].deadline \in BOOLEAN
        BY DefAssumption DEF StepDef
    <3>3. n.state = "paused" /\ n.step = c
        BY <2>1, <3>1, <3>2, PausesWritten DEF SameWork
    <3> QED BY <1>0, <2>1, <3>1, <3>3 DEF WakeupFits
  <2>2. CASE ~(y.pc = "done" /\ x.pc = "exec")
    <3>1. n = UpdateRunState(m, "paused", c) /\ y.pc # "send" /\ x.pc \in WorkPC
        BY <1>0, <1>5, <2>2 DEF PauseMove
    <3>2. n.wakeup = "none"
        BY <3>1, StateWritten DEF SameMarks
    <3> QED BY <1>1, <3>1, <3>2
  <2> QED BY <2>1, <2>2
<1>6. CASE FailMove(x, y, m, n, c)
  <2>1. n.wakeup = "none" /\ y.pc # "send"
      BY <1>0, <1>6, FramesWritten, StateWritten DEF FailMove, Answers, SameMarks
  <2> QED BY <1>1, <2>1
<1>7. CASE DispatchMove(x, y, m, n, c)
  <2>1. n.wakeup = "none" /\ y.pc # "send"
      BY <1>0, <1>7, StateWritten DEF DispatchMove, SameMarks
  <2> QED BY <1>1, <2>1
<1> QED BY <1>2, <1>3, <1>4, <1>5, <1>6, <1>7 DEF OwnMove

LEMMA SideWakeups ==
    ASSUME BaseInv, cmds = {}, NEW r \in Run, SideWrite(r), WakeupFits(runs[r])
    PROVE  WakeupFits(runs'[r]) /\ (runs[r].wakeup = "none" => runs'[r].wakeup = "none")
<1>1. runs[r] \in RunRecord
    BY DEF BaseInv, TypeOK
<1>2. CASE runs'[r] = runs[r]
    BY <1>2
<1>3. CASE runs'[r] = ClearAwaits(runs[r])
    BY <1>1, <1>3, MarksCleared DEF Blank, WakeupFits
<1>4. CASE runs'[r] = Cancel(runs[r])
    BY <1>1, <1>4, MarksCleared DEF Blank, WakeupFits, IsTerminal, Terminal
<1>5. CASE runs[r].wakeup = "later" /\ runs'[r] = [runs[r] EXCEPT !.wakeup = "due"]
    BY <1>1, <1>5, DueWritten DEF WakeupFits, SameWork
<1> QED BY <1>2, <1>3, <1>4, <1>5 DEF SideWrite

LEMMA QuietKept ==
    ASSUME NoActions, AwaitInv, Roles, QuietInv, [Next]_vars, "report" \notin Faults
    PROVE  QuietInv'
<1> USE DEF AwaitInv
<1>1. ASSUME NEW t \in Worker, AdvanceStep(t) PROVE QuietInv'
  <2>1. th[t].pc \in MidPC /\ Stays(t) /\ th[t].pc # "send"
        /\ OwnMove(th[t], th'[t], Self(t), runs'[th[t].run], StepOf(t))
      BY <1>1 DEF AdvanceStep, QuietInv
  <2>2. Self(t) = runs[th[t].run] /\ Self(t) \in RunRecord /\ StepOf(t) \in Step /\ th[t].run \in Run
      BY <2>1, OwnFacts
  <2>3. th[t].pc = "exec" => Self(t).step = StepOf(t)
      BY <2>2 DEF LockInv, StepHeld, ExecPC
  <2>4. /\ th'[t].pc # "send" /\ WakeupFits(runs'[th[t].run])
        /\ th'[t].pc \in WorkPC => runs'[th[t].run].wakeup = "none"
      BY <2>1, <2>2, <2>3, QuietMoves DEF QuietInv
  <2>5. cmds' = {}
      BY <1>1, <2>1 DEF AdvanceStep, Ghosts, QuietInv
  <2>6. ASSUME NEW r \in Run PROVE WakeupFits(runs'[r])
    <3>1. CASE r # th[t].run /\ Spawns(t, r)
        BY <3>1 DEF Spawns, SpawnChildRun, NewSagaRun, Absent, WakeupFits
    <3>2. CASE r # th[t].run /\ ~Spawns(t, r)
        BY <1>1, <3>2 DEF AdvanceStep, QuietInv
    <3> QED BY <2>4, <3>1, <3>2
  <2>7. ASSUME NEW u \in Worker
        PROVE  th'[u].pc # "send" /\ (th'[u].pc \in WorkPC => runs'[th'[u].run].wakeup = "none")
    <3>1. CASE u = t
        BY <2>1, <2>4, <3>1 DEF Stays
    <3>2. CASE u # t
      <4>1. th'[u] = th[u]
          BY <1>1, <3>2, WorkerIsNoCaller DEF AdvanceStep, OnlyThread
      <4>2. CASE th[u].pc \in WorkPC
          BY <1>1, <3>2, <4>1, <4>2, OthersKept, MidPCs DEF HasLock, QuietInv, LockInv
      <4>3. CASE th[u].pc \notin WorkPC
          BY <4>1, <4>3 DEF QuietInv
      <4> QED BY <4>2, <4>3
    <3> QED BY <3>1, <3>2
  <2> QED BY <2>5, <2>6, <2>7 DEF QuietInv, WakeupFits
<1>2. ASSUME NEW t \in Worker, LoadStep(t) PROVE QuietInv'
  <2>1. UNCHANGED <<runs, cmds>> /\ OnlyThread(t) /\ th'[t].run = th[t].run
        /\ th'[t].pc = AfterLoad(Self(t))
      BY <1>2 DEF LoadStep
  <2>2. th[t].run \in Run /\ t \in Thread
      BY <1>2, WorkerIsNoCaller, Working DEF LoadStep, Known
  <2>3. th'[t].pc # "send" /\ (th'[t].pc \in WorkPC => runs[th[t].run].wakeup = "none")
      BY <2>1, <2>2, LoadPlaces DEF Self, QuietInv, WakeupFits, WorkPC, ExecPC
  <2>4. \A u \in Worker : u # t => th'[u] = th[u]
      BY <2>1, WorkerIsNoCaller DEF OnlyThread
  <2> QED BY <2>1, <2>3, <2>4 DEF QuietInv, WakeupFits
<1>3. CASE AsideStep
  <2>1. \A r \in Run : SideWrite(r) /\ WakeupFits(runs[r])
      BY <1>3 DEF AsideStep, QuietInv
  <2>2. \A r \in Run : WakeupFits(runs'[r]) /\ (runs[r].wakeup = "none" => runs'[r].wakeup = "none")
      BY <2>1, SideWakeups DEF QuietInv
  <2>3. cmds' = {}
      BY <1>3 DEF AsideStep, QuietInv
  <2>4. ASSUME NEW u \in Worker
        PROVE  th'[u].pc # "send" /\ (th'[u].pc \in WorkPC => runs'[th'[u].run].wakeup = "none")
    <3>1. CASE th'[u] = th[u]
        BY <2>2, <3>1, OwnFacts, MidPCs DEF QuietInv
    <3>2. CASE th'[u].pc \notin MidPC
        BY <3>2 DEF MidPC, WorkPC, ExecPC
    <3> QED BY <1>3, <3>1, <3>2 DEF AsideStep, LeavesAside
  <2> QED BY <2>2, <2>3, <2>4 DEF QuietInv, WakeupFits
<1> QED BY <1>1, <1>2, <1>3, StepSplit

LEMMA QuietInit == Init => QuietInv
<1> SUFFICES ASSUME Init PROVE QuietInv
    OBVIOUS
<1>1. cmds = {} /\ \A t \in Worker : th[t].pc = "idle"
    BY WorkerIsNoCaller DEF Init, CoordinatorInit, Idle
<1>2. ASSUME NEW r \in Run PROVE WakeupFits(runs[r])
    BY DEF Init, CoordinatorInit, NewSagaRun, Absent, WakeupFits
<1> QED BY <1>1, <1>2 DEF QuietInv, WorkPC, ExecPC

\* In a workflow without actions, with several goroutines of one process, failing verbs,
\* cancellations and aborts at any point, the only run with a wakeup_at is one that is
\* paused on a wait: no deadline outlives its wait (memory/store.go:465-478).
THEOREM DeadlinesFit ==
    ASSUME OneProcess, "report" \notin Faults, NoActions
    PROVE  Spec => []NoStaleWakeup
<1> DEFINE I == AwaitInv /\ Roles /\ QuietInv
<1>1. Init => I
    BY QuietInit, AwaitInit, RolesInit
<1>2. I /\ [Next]_vars => I'
  <2> SUFFICES ASSUME AwaitInv, Roles, QuietInv, [Next]_vars PROVE I'
      OBVIOUS
  <2> QED BY AwaitNext, RolesKept, QuietKept DEF AwaitInv
<1>3. I => NoStaleWakeup
    BY DEF QuietInv, WakeupFits, NoStaleWakeup
<1> HIDE DEF I
<1> QED BY <1>1, <1>2, <1>3, PTL DEF Spec

-----------------------------------------------------------------------------
(***************************************************************************)
(* Dispatches.  A definition has no loops when its steps have ranks that   *)
(* fall along every edge.  The steps ranked below the one a run is at have *)
(* not been dispatched; neither has that step, unless the run is paused on *)
(* it or somebody is in the middle of it.                                  *)
(***************************************************************************)
Falling(rank) ==
    /\ rank \in [Step -> Nat]
    /\ \A s \in Step : \A n \in Targets(s) : rank[n] < rank[s]

\* The run goes on after step s.
Passes(s) == Def[s].type \notin {"end", "cancel"}

\* No failure jumps back to a catch step, and no step is a dead end.
Forward == \A s \in Step : Def[s].type # "try" /\ (Passes(s) => Def[s].next # {})

\* z counts the dispatches of each step.
Below(rank, z, s) == \A x \in Step : rank[x] < rank[s] => z[x] = 0

\* Run m while no advance is in the middle of it.
RestAt(rank, m, z) ==
    /\ m.state \in {"absent", "pending"} => m.step = Nil /\ \A s \in Step : z[s] = 0
    /\ m.state = "running" => m.step \in Step /\ z[m.step] = 0 /\ Below(rank, z, m.step)
    /\ m.state = "paused" => m.step \in Step /\ Below(rank, z, m.step) /\ Passes(m.step)
    /\ m.state # "compensating"

Stopped(m) == m.state = "paused" \/ IsTerminal(m)

\* Run m while goroutine x is in the middle of step c.
BusyAt(rank, x, m, z, c) ==
    /\ Below(rank, z, c)
    /\ x.pc = "dispatch" => z[c] = 0
    /\ x.pc = "setnext" => x.next \in Step /\ rank[x.next] < rank[c]
    /\ x.pc \in {"children", "clear", "send", "publish"} => Stopped(m)
    /\ x.pc \in {"children", "clear", "reread", "exec", "send", "publish"} => m.step = c
    /\ x.pc \in {"children", "clear", "reread", "send", "publish", "pausejoin"} => Passes(c)
    /\ x.pc = "dispatch" => m.attempt = x.snap.attempt
    /\ x.pc = "exec" => Stopped(m) \/ m.attempt = x.snap.attempt

AtRest(r) == \A t \in Worker : th[t].run = r => th[t].pc \notin MidPC

OnceInv(rank) ==
    /\ OneAdvancePerRun /\ EachStepOnce
    /\ \A r \in Run : runs[r].frames = <<>>
    /\ \A r \in Run : AtRest(r) => RestAt(rank, runs[r], started[r])
    /\ \A t \in Worker : th[t].pc \in MidPC =>
          BusyAt(rank, th[t], runs[th[t].run], started[th[t].run], StepOf(t))

\* What a step of an advance makes of its run.
OnceMoved(rank, y, n, w, c) ==
    /\ n.frames = <<>>
    /\ y.pc \in MidPC => BusyAt(rank, y, n, w, c)
    /\ y.pc \notin MidPC => RestAt(rank, n, w)

LEMMA PCsInMid ==
    /\ \A pc \in {"exec", "send", "publish", "reread", "setnext", "dispatch", "complete", "fail",
                  "rollback", "undo", "markfailed", "pausejoin", "children", "clear"} : pc \in MidPC
    /\ \A pc \in {"done", "barrier", "load"} : pc \notin MidPC
BY DEF MidPC, WorkPC, ExecPC

LEMMA EndedRests ==
    ASSUME NEW rank, NEW y, NEW n, NEW w, NEW c, IsTerminal(n), y.pc \in {"done", "barrier"},
           n.frames = <<>>
    PROVE  OnceMoved(rank, y, n, w, c)
BY PCsInMid DEF OnceMoved, RestAt, IsTerminal, Terminal

LEMMA PausedRests ==
    ASSUME NEW rank, NEW y, NEW n, NEW w, NEW c \in Step, Stopped(n), n.step = c, y.pc = "done",
           n.frames = <<>>, Below(rank, w, c), Passes(c)
    PROVE  OnceMoved(rank, y, n, w, c)
BY PCsInMid DEF OnceMoved, RestAt, Stopped, IsTerminal, Terminal

LEMMA OnceMoves ==
    ASSUME NEW rank, Falling(rank), Forward, NEW m \in RunRecord, m.frames = <<>>, NEW n,
           NEW x, NEW y, NEW c \in Step, y.snap = x.snap, NEW z \in [Step -> Nat], NEW w,
           x.pc # "dispatch" => w = z,
           x.pc = "dispatch" => w = [z EXCEPT ![c] = @ + 1],
           OwnMove(x, y, m, n, c), x.pc \in MidPC, BusyAt(rank, x, m, z, c)
    PROVE  OnceMoved(rank, y, n, w, c)
<1>1. Def[c] \in StepDef /\ Targets(c) \subseteq Step
    BY DefAssumption DEF StepDef, Targets
<1>2. \A s \in Targets(c) : s \in Step /\ rank[s] < rank[c]
    BY <1>1 DEF Falling
<1>3. Below(rank, z, c)
    BY DEF BusyAt
<1>4. ASSUME x.pc # "dispatch", n.frames = <<>>,
             y.pc \in {"complete", "fail", "rollback", "undo", "markfailed"}
      PROVE  OnceMoved(rank, y, n, w, c)
    BY <1>3, <1>4, PCsInMid DEF OnceMoved, BusyAt
<1>5. ASSUME x.pc # "dispatch", y.pc = "setnext", y.next \in Targets(c), n.frames = <<>>
      PROVE  OnceMoved(rank, y, n, w, c)
    BY <1>2, <1>3, <1>5, PCsInMid DEF OnceMoved, BusyAt
<1>6. CASE WakeMove(x, y, m, n)
  <2>1. CASE x.pc = "children"
    <3>1. n = m /\ y.pc \in {"clear", "done"} /\ Stopped(m) /\ m.step = c /\ Passes(c) /\ w = z
        BY <1>6, <2>1 DEF WakeMove, BusyAt
    <3>2. CASE y.pc = "clear"
        BY <1>3, <3>1, <3>2, PCsInMid DEF OnceMoved, BusyAt
    <3>3. CASE y.pc = "done"
        BY <1>3, <3>1, <3>3, PausedRests
    <3> QED BY <3>1, <3>2, <3>3
  <2>2. CASE x.pc = "clear"
    <3>1. n = ClearPause(m) /\ y.pc = "reread" /\ m.step = c /\ Passes(c) /\ w = z
        BY <1>6, <2>2 DEF WakeMove, BusyAt
    <3>2. n.step = c /\ n.frames = <<>>
        BY <3>1, MarksCleared DEF SameWork
    <3> QED BY <1>3, <3>1, <3>2, PCsInMid DEF OnceMoved, BusyAt
  <2>3. CASE x.pc = "reread"
    <3>1. n = m /\ m.step = c /\ c # Nil /\ Passes(c)
        BY <1>6, <2>3, NilIsNone DEF WakeMove, BusyAt
    <3>2. y.pc = "setnext" /\ y.next \in Targets(c)
        BY <1>6, <2>3, <3>1 DEF WakeMove, Forward
    <3> QED BY <1>5, <2>3, <3>1, <3>2
  <2>4. CASE x.pc = "setnext"
    <3>1. /\ n = UpdateRunState(m, "running", x.next) /\ y.pc = "load" /\ w = z
          /\ x.next \in Step /\ rank[x.next] < rank[c]
        BY <1>6, <2>4 DEF WakeMove, BusyAt
    <3>2. n.state = "running" /\ n.step = x.next /\ n.frames = <<>>
        BY <3>1, StateWritten
    <3>3. z[x.next] = 0 /\ Below(rank, z, x.next)
        BY <1>3, <3>1 DEF Below, Falling
    <3> QED BY <3>1, <3>2, <3>3, PCsInMid DEF OnceMoved, RestAt
  <2> QED BY <1>6, <2>1, <2>2, <2>3, <2>4 DEF WakeMove
<1>7. ASSUME Answers(y, c), Passes(c) PROVE y.pc = "setnext" /\ y.next \in Targets(c)
    BY <1>7 DEF Answers, Forward, Targets
<1>8. CASE QuietMove(x, y, c) /\ n = m
  <2>1. CASE y.pc = "exec"
    <3>1. x.pc \in {"exec", "send", "publish"}
        BY <1>8, <2>1 DEF QuietMove, Answers
    <3>2. m.step = c /\ (Stopped(m) \/ m.attempt = x.snap.attempt) /\ w = z
        BY <3>1 DEF BusyAt
    <3> QED BY <1>3, <1>8, <2>1, <3>2, PCsInMid DEF OnceMoved, BusyAt
  <2>2. CASE y.pc = "fail"
      BY <1>4, <1>8, <2>2 DEF QuietMove
  <2>3. CASE y.pc = "pausejoin"
    <3>1. Passes(c) /\ w = z
        BY <1>8, <2>3 DEF QuietMove, Answers, Passes
    <3> QED BY <1>3, <1>8, <2>3, <3>1, PCsInMid DEF OnceMoved, BusyAt
  <2>4. CASE x.pc \in {"send", "publish"} /\ y.pc \in {"publish", "done"}
    <3>1. Stopped(m) /\ m.step = c /\ Passes(c) /\ w = z
        BY <2>4 DEF BusyAt
    <3>2. CASE y.pc = "done"
        BY <1>3, <1>8, <3>1, <3>2, PausedRests
    <3>3. CASE y.pc = "publish"
        BY <1>3, <1>8, <3>1, <3>3, PCsInMid DEF OnceMoved, BusyAt
    <3> QED BY <2>4, <3>2, <3>3
  <2>5. CASE x.pc = "exec" /\ Def[c].type \in {"sync", "spawn", "join"} /\ Answers(y, c)
      BY <1>5, <1>7, <1>8, <2>5 DEF Passes
  <2> QED BY <1>8, <2>1, <2>2, <2>3, <2>4, <2>5 DEF QuietMove
<1>9. CASE EndMove(x, y, m, n, c)
  <2>1. y.pc \in {"done", "barrier"}
      BY <1>9 DEF EndMove
  <2>2. IsTerminal(n) /\ n.frames = <<>>
      BY <1>9, StateWritten, FailWritten DEF EndMove, IsTerminal, Terminal
  <2> QED BY <2>1, <2>2, EndedRests
<1>10. CASE PauseMove(x, y, m, n, c)
  <2>1. x.pc \in {"exec", "pausejoin"} /\ w = z /\ Passes(c) /\ Def[c].deadline \in BOOLEAN
      BY <1>1, <1>10 DEF PauseMove, BusyAt, Passes, StepDef
  <2>2. CASE n = UpdateRunState(m, "paused", c)
    <3>1. Stopped(n) /\ n.step = c /\ n.frames = <<>>
        BY <2>2, StateWritten DEF Stopped
    <3>2. y.pc \in {"done", "publish"} \/ y.pc = "send"
        BY <1>10 DEF PauseMove
    <3> QED BY <1>3, <2>1, <3>1, <3>2, PausedRests, PCsInMid DEF OnceMoved, BusyAt
  <2>3. CASE x.pc = "exec" /\ y.pc = "send" /\ n = MarkAwaitingAction(m, c, x.snap.attempt + 1)
    <3>1. m.step = c /\ (Stopped(m) \/ m.attempt = x.snap.attempt)
        BY <2>3 DEF BusyAt
    <3>2. n.step = c /\ n.frames = <<>> /\ (n = m \/ n.state = "paused")
        BY <2>3, <3>1, ActionWritten
    <3>3. Stopped(n)
      <4>1. CASE Stopped(m) \/ n.state = "paused"
          BY <3>2, <4>1 DEF Stopped
      <4>2. CASE m.attempt = x.snap.attempt
        <5>1. m.attempt # x.snap.attempt + 1
            BY <4>2 DEF RunRecord
        <5>2. n = [m EXCEPT !.state = "paused", !.action = c, !.attempt = x.snap.attempt + 1]
            BY <2>3, <5>1 DEF MarkAwaitingAction
        <5> QED BY <5>2 DEF RunRecord, Stopped
      <4> QED BY <3>1, <4>1, <4>2
    <3> QED BY <1>3, <2>1, <2>3, <3>2, <3>3, PCsInMid DEF OnceMoved, BusyAt
  <2>4. CASE /\ x.pc = "exec" /\ y.pc = "done"
             /\ \/ n = SetPausedWithWakeup(m)
                \/ n = SetPausedAwaitingSignal(m, Def[c].name, Def[c].deadline)
                \/ n = SetPausedAwaitingEvent(m, Def[c].name, Def[c].deadline)
    <3>1. m.step = c
        BY <2>4 DEF BusyAt
    <3>2. n.state = "paused" /\ SameWork(m, n)
      <4> DEFINE name == Def[c].name
                 deadline == Def[c].deadline
      <4>1. deadline \in BOOLEAN
          BY <2>1
      <4>2. \/ n = SetPausedWithWakeup(m) \/ n = SetPausedAwaitingSignal(m, name, deadline)
            \/ n = SetPausedAwaitingEvent(m, name, deadline)
          BY <2>4
      <4> HIDE DEF name, deadline
      <4>3. CASE n = SetPausedWithWakeup(m)
          BY <4>3, PausesWritten
      <4>4. CASE n = SetPausedAwaitingSignal(m, name, deadline)
          BY <4>1, <4>4, PausesWritten
      <4>5. CASE n = SetPausedAwaitingEvent(m, name, deadline)
          BY <4>1, <4>5, PausesWritten
      <4> QED BY <4>2, <4>3, <4>4, <4>5
    <3>3. Stopped(n) /\ n.step = c /\ n.frames = <<>>
        BY <3>1, <3>2 DEF SameWork, Stopped
    <3> QED BY <1>3, <2>1, <2>4, <3>3, PausedRests
  <2> QED BY <1>10, <2>2, <2>3, <2>4 DEF PauseMove
<1>11. CASE FailMove(x, y, m, n, c)
  <2>1. x.pc # "dispatch" /\ y.pc \in {"rollback", "markfailed", "undo"}
        /\ (n = m \/ n = UpdateRunState(m, "compensating", x.snap.step))
      BY <1>11 DEF FailMove, Forward
  <2>2. n.frames = <<>>
      BY <2>1, StateWritten
  <2> QED BY <1>4, <2>1, <2>2
<1>12. CASE DispatchMove(x, y, m, n, c)
  <2>1. n = UpdateRunState(m, "running", c) /\ y.pc \in {"complete", "exec"} /\ x.pc = "dispatch"
      BY <1>12 DEF DispatchMove
  <2>2. n.step = c /\ n.frames = <<>> /\ n.attempt = m.attempt
      BY <2>1, StateWritten
  <2>3. Below(rank, w, c) /\ m.attempt = x.snap.attempt
    <3>1. w = [z EXCEPT ![c] = @ + 1] /\ m.attempt = x.snap.attempt
        BY <2>1 DEF BusyAt
    <3>2. ASSUME NEW s \in Step, rank[s] < rank[c] PROVE w[s] = 0
        BY <1>3, <3>1, <3>2 DEF Below, Falling
    <3> QED BY <3>1, <3>2 DEF Below
  <2> QED BY <2>1, <2>2, <2>3, PCsInMid DEF OnceMoved, BusyAt
<1> QED BY <1>6, <1>8, <1>9, <1>10, <1>11, <1>12 DEF OwnMove

LEMMA SideKeeps ==
    ASSUME BaseInv, NEW r \in Run, SideWrite(r)
    PROVE  /\ SameWork(runs[r], runs'[r]) /\ SameKin(runs[r], runs'[r])
           /\ runs'[r].state = runs[r].state \/ IsTerminal(runs'[r])
<1>1. runs[r] \in RunRecord
    BY DEF BaseInv, TypeOK
<1>2. CASE runs'[r] = runs[r] \/ runs'[r] = ClearAwaits(runs[r])
    BY <1>1, <1>2, MarksCleared DEF SameWork, SameKin
<1>3. CASE runs'[r] = Cancel(runs[r])
    BY <1>1, <1>3, MarksCleared DEF IsTerminal, Terminal
<1>4. CASE runs'[r] = [runs[r] EXCEPT !.wakeup = "due"]
    BY <1>1, <1>4, DueWritten
<1>5. ASSUME NEW k, runs'[r] = CompleteAction(runs[r], k)
      PROVE  /\ SameWork(runs[r], runs'[r]) /\ SameKin(runs[r], runs'[r])
             /\ runs'[r].state = runs[r].state
    BY <1>1, <1>5, CompletionWritten
<1>6. ASSUME NEW k, runs'[r] = FailAction(runs[r], k)
      PROVE  /\ SameWork(runs[r], runs'[r]) /\ SameKin(runs[r], runs'[r])
             /\ runs'[r].state = runs[r].state \/ IsTerminal(runs'[r])
    BY <1>1, <1>6, FailureWritten DEF IsTerminal, Terminal
<1> QED BY <1>2, <1>3, <1>4, <1>5, <1>6 DEF SideWrite

\* One goroutine at a time has a run's lock, whatever workers report.
LEMMA OneAdvanceKept ==
    ASSUME OneProcess, BaseInv, Roles, OneAdvancePerRun, [Next]_vars
    PROVE  OneAdvancePerRun'
<1> SUFFICES ASSUME NEW t \in Worker, NEW u \in Worker, t # u, th'[t].run = th'[u].run,
                    th'[t].pc \notin {"idle", "wait"}, th'[u].pc \notin {"idle", "wait"}
             PROVE  FALSE
    BY DEF OneAdvancePerRun, HasLock
<1>1. ASSUME NEW v \in Worker, OnlyThread(v), th'[v].run = th[v].run, HasLock(v) PROVE FALSE
  <2>1. \A x \in {t, u} : th'[x].run = th[x].run /\ HasLock(x)
      BY <1>1, WorkerIsNoCaller DEF OnlyThread, HasLock
  <2> QED BY <2>1 DEF OneAdvancePerRun
<1>2. ASSUME NEW v \in Worker, AdvanceStep(v) \/ LoadStep(v) PROVE FALSE
  <2>1. OnlyThread(v) /\ th'[v].run = th[v].run
      BY <1>2 DEF AdvanceStep, LoadStep, Stays
  <2>2. HasLock(v)
      BY <1>2, MidPCs DEF AdvanceStep, LoadStep, HasLock
  <2> QED BY <1>1, <2>1, <2>2
<1>3. CASE AsideStep
  <2>1. ASSUME NEW a \in Worker, NEW b \in Worker, a # b, th'[b] = th[b], HasLock(b),
               th'[a].run = th[b].run, th'[a].pc \notin {"idle", "wait"}
        PROVE  FALSE
    <3>1. CASE th'[a] = th[a]
        BY <2>1, <3>1 DEF OneAdvancePerRun, HasLock
    <3>2. CASE LeavesAside(a)
        BY <2>1, <3>2 DEF OneAdvancePerRun, LeavesAside
    <3> QED BY <1>3, <3>1, <3>2 DEF AsideStep
  <2>2. th'[t] = th[t] \/ th'[u] = th[u]
      BY <1>3 DEF AsideStep, OneMoves
  <2> QED BY <2>1, <2>2 DEF HasLock
<1> QED BY <1>2, <1>3, StepSplit

LEMMA OnceAdvance ==
    ASSUME NEW rank, Falling(rank), Forward, BaseInv, OnceInv(rank), OneAdvancePerRun',
           NEW t \in Worker, AdvanceStep(t)
    PROVE  OnceInv(rank)'
<1> DEFINE q == th[t].run
           c == StepOf(t)
<1>1. th[t].pc \in MidPC /\ Stays(t) /\ OwnMove(th[t], th'[t], Self(t), runs'[q], c)
    BY DEF AdvanceStep
<1>2. Self(t) = runs[q] /\ Self(t) \in RunRecord /\ c \in Step /\ q \in Run
    BY <1>1, OwnFacts
<1>3. started \in [Run -> [Step -> Nat]]
    BY DEF BaseInv, TypeOK
<1>4. /\ th[t].pc # "dispatch" => started' = started
      /\ th[t].pc = "dispatch" => started' = [started EXCEPT ![q][c] = @ + 1]
    BY DEF AdvanceStep, Ghosts
<1>5. /\ th[t].pc # "dispatch" => started'[q] = started[q]
      /\ th[t].pc = "dispatch" => started'[q] = [started[q] EXCEPT ![c] = @ + 1]
      /\ \A r \in Run : r # q => started'[r] = started[r]
    BY <1>2, <1>3, <1>4
<1>6. BusyAt(rank, th[t], runs[q], started[q], c) /\ runs[q].frames = <<>>
    BY <1>1, <1>2 DEF OnceInv
<1>7. OnceMoved(rank, th'[t], runs'[q], started'[q], c)
  <2>1. started[q] \in [Step -> Nat] /\ th'[t].snap = th[t].snap
      BY <1>1, <1>2, <1>3 DEF Stays
  <2> HIDE DEF q, c
  <2> QED BY <1>1, <1>2, <1>5, <1>6, <2>1, OnceMoves
<1> HIDE DEF q, c
<1>8. ASSUME NEW u \in Worker, u # t, th[u].pc \in MidPC
      PROVE  th'[u] = th[u] /\ th[u].run \in Run /\ th[u].run # q /\ runs'[th[u].run] = runs[th[u].run]
    BY <1>8, OthersKept, MidPCs DEF HasLock, OnceInv, q
<1>9. \A u \in Worker : u # t => th'[u] = th[u]
    BY WorkerIsNoCaller DEF AdvanceStep, OnlyThread
<1>10. th'[t].run = q /\ StepOf(t)' = c
    BY <1>1 DEF Stays, StepOf, q, c
<1>11. ASSUME NEW u \in Worker, th'[u].pc \in MidPC
       PROVE  BusyAt(rank, th'[u], runs'[th'[u].run], started'[th'[u].run], StepOf(u)')
  <2>1. CASE u = t
      BY <1>7, <1>10, <1>11, <2>1 DEF OnceMoved
  <2>2. CASE u # t
    <3>1. th'[u] = th[u]
        BY <1>9, <2>2
    <3>2. runs'[th[u].run] = runs[th[u].run] /\ started'[th[u].run] = started[th[u].run]
        BY <1>5, <1>8, <1>11, <2>2, <3>1
    <3>3. StepOf(u)' = StepOf(u)
        BY <3>1 DEF StepOf
    <3>4. BusyAt(rank, th[u], runs[th[u].run], started[th[u].run], StepOf(u))
        BY <1>11, <3>1 DEF OnceInv
    <3> QED BY <3>1, <3>2, <3>3, <3>4
  <2> QED BY <2>1, <2>2
<1>12. ASSUME NEW r \in Run
       PROVE  /\ runs'[r].frames = <<>> /\ (AtRest(r)' => RestAt(rank, runs'[r], started'[r]))
              /\ \A s \in Step : started'[r][s] <= 1
  <2>1. CASE r = q
    <3>1. th'[t].pc \notin MidPC => RestAt(rank, runs'[q], started'[q])
        BY <1>7 DEF OnceMoved
    <3>2. AtRest(r)' => th'[t].pc \notin MidPC
        BY <1>10, <2>1 DEF AtRest
    <3>3. \A s \in Step : started'[q][s] <= 1
      <4>1. \A s \in Step : started[q][s] <= 1
          BY <1>2 DEF OnceInv, EachStepOnce
      <4>2. th[t].pc = "dispatch" => started[q][c] = 0
          BY <1>6 DEF BusyAt
      <4> QED BY <1>2, <1>3, <1>5, <4>1, <4>2
    <3> QED BY <1>7, <2>1, <3>1, <3>2, <3>3 DEF OnceMoved
  <2>2. CASE r # q
    <3>1. started'[r] = started[r] /\ \A s \in Step : started[r][s] <= 1
        BY <1>5, <2>2 DEF OnceInv, EachStepOnce
    <3>2. AtRest(r)' => AtRest(r)
        BY <1>9, <2>2 DEF AtRest, q
    <3>3. CASE runs'[r] = runs[r]
        BY <3>1, <3>2, <3>3 DEF OnceInv
    <3>4. CASE Spawns(t, r)
      <4>1. PICK s \in Step : runs'[r] = SpawnChildRun(s, q, c)
          BY <3>4 DEF Spawns, q, c
      <4>2. runs'[r].state = "pending" /\ runs'[r].step = Nil /\ runs'[r].frames = <<>>
          BY <4>1 DEF SpawnChildRun, NewSagaRun, Absent
      <4>3. AtRest(r)
        <5> SUFFICES ASSUME NEW u \in Worker, th[u].run = r, th[u].pc \in MidPC PROVE FALSE
            BY DEF AtRest
        <5>1. th[u].run \in Known
            BY MidPCs, WorkerIsNoCaller DEF BaseInv, WorkedOnKnown
        <5> QED BY <3>4, <5>1 DEF Known, Spawns
      <4>4. \A x \in Step : started[r][x] = 0
          BY <3>4, <4>3 DEF OnceInv, RestAt, Spawns
      <4> QED BY <3>1, <4>2, <4>4 DEF RestAt
    <3> QED BY <2>2, <3>3, <3>4 DEF AdvanceStep, q
  <2> QED BY <2>1, <2>2
<1>13. EachStepOnce'
    BY <1>12 DEF EachStepOnce
<1> QED BY <1>11, <1>12, <1>13 DEF OnceInv

LEMMA OnceLoad ==
    ASSUME NEW rank, BaseInv, OnceInv(rank), OneAdvancePerRun', NEW t \in Worker, LoadStep(t)
    PROVE  OnceInv(rank)'
<1> DEFINE q == th[t].run
           m == Self(t)
<1>1. /\ th[t].pc = "load" /\ UNCHANGED <<runs, started>>
      /\ th'[t].run = q /\ th'[t].snap = m /\ th'[t].pc = AfterLoad(m)
    BY DEF LoadStep
<1>2. \A u \in Worker : u # t => th'[u] = th[u]
    BY WorkerIsNoCaller DEF LoadStep, OnlyThread
<1>3. q \in Run /\ m = runs[q] /\ m.state # "absent" /\ m.start \in Step /\ m \in RunRecord
  <2>1. q \in Known
      BY <1>1, WorkerIsNoCaller DEF BaseInv, WorkedOnKnown
  <2> QED BY <2>1 DEF Known, Self, BaseInv, StartsKnown, TypeOK
<1>4. AtRest(q)
  <2> SUFFICES ASSUME NEW u \in Worker, th[u].run = q, th[u].pc \in MidPC PROVE FALSE
      BY DEF AtRest
  <2>1. HasLock(u) /\ HasLock(t) /\ u # t
      BY <1>1, MidPCs DEF HasLock
  <2> QED BY <2>1 DEF OnceInv, OneAdvancePerRun
<1>5. RestAt(rank, m, started[q])
    BY <1>3, <1>4 DEF OnceInv
<1>6. StepOf(t)' = CurrentStep(m)
    BY <1>1 DEF StepOf
<1>7. th'[t].pc \in MidPC => BusyAt(rank, th'[t], m, started[q], CurrentStep(m))
  <2> HIDE DEF m, q
  <2>1. CASE AfterLoad(m) = "dispatch" /\ m.state # "paused" /\ ~IsTerminal(m)
    <3>1. m.state \in {"pending", "running"}
        BY <1>3, <1>5, <2>1 DEF RestAt, RunRecord, RunState, IsTerminal, Terminal
    <3>2. started[q][CurrentStep(m)] = 0 /\ Below(rank, started[q], CurrentStep(m))
        BY <1>3, <1>5, <3>1, NilIsNone DEF RestAt, CurrentStep, Below
    <3> QED BY <1>1, <2>1, <3>2 DEF BusyAt
  <2>2. CASE AfterLoad(m) \in {"children", "clear"} /\ m.state = "paused"
    <3>1. m.step \in Step /\ CurrentStep(m) = m.step /\ Below(rank, started[q], m.step) /\ Passes(m.step)
        BY <1>5, <2>2, NilIsNone DEF RestAt, CurrentStep
    <3> QED BY <1>1, <2>2, <3>1 DEF BusyAt, Stopped
  <2> QED BY <1>1, <2>1, <2>2, LoadPlaces, MidPCs
<1> HIDE DEF m, q
<1>8. ASSUME NEW u \in Worker, th'[u].pc \in MidPC
      PROVE  BusyAt(rank, th'[u], runs'[th'[u].run], started'[th'[u].run], StepOf(u)')
  <2>1. CASE u = t
      BY <1>1, <1>3, <1>6, <1>7, <1>8, <2>1
  <2>2. CASE u # t
    <3>1. th'[u] = th[u] /\ StepOf(u)' = StepOf(u)
        BY <1>2, <2>2 DEF StepOf
    <3> QED BY <1>1, <1>8, <3>1 DEF OnceInv
  <2> QED BY <2>1, <2>2
<1>9. ASSUME NEW r \in Run, AtRest(r)' PROVE RestAt(rank, runs'[r], started'[r])
  <2>1. CASE r = q
      BY <1>1, <1>3, <1>5, <2>1
  <2>2. CASE r # q
    <3>1. AtRest(r)
        BY <1>2, <1>9, <2>2 DEF AtRest, q
    <3> QED BY <1>1, <3>1 DEF OnceInv
  <2> QED BY <2>1, <2>2
<1>10. EachStepOnce' /\ \A r \in Run : runs'[r].frames = <<>>
    BY <1>1 DEF OnceInv, EachStepOnce
<1> QED BY <1>8, <1>9, <1>10 DEF OnceInv

LEMMA OnceAside ==
    ASSUME NEW rank, MaxAborts = 0, BaseInv, OnceInv(rank), OneAdvancePerRun', AsideStep
    PROVE  OnceInv(rank)'
<1>1. UNCHANGED started
    BY DEF AsideStep
<1>2. ASSUME NEW r \in Run
      PROVE  /\ SameWork(runs[r], runs'[r])
             /\ runs'[r].state = runs[r].state \/ IsTerminal(runs'[r])
    BY SideKeeps DEF AsideStep
<1>3. ~(aborts < MaxAborts)
    BY DEF BaseInv, TypeOK
<1>4. ASSUME NEW u \in Worker, th[u].pc \in MidPC \/ th'[u].pc \in MidPC
      PROVE  th'[u] = th[u]
    BY <1>3, <1>4 DEF AsideStep, LeavesAside
<1>5. ASSUME NEW u \in Worker, th'[u].pc \in MidPC
      PROVE  BusyAt(rank, th'[u], runs'[th'[u].run], started'[th'[u].run], StepOf(u)')
  <2>1. th'[u] = th[u] /\ StepOf(u)' = StepOf(u) /\ th[u].run \in Run
      BY <1>4, <1>5, OwnFacts DEF StepOf
  <2>2. BusyAt(rank, th[u], runs[th[u].run], started[th[u].run], StepOf(u))
      BY <1>5, <2>1 DEF OnceInv
  <2>3. Stopped(runs[th[u].run]) => Stopped(runs'[th[u].run])
      BY <1>2, <2>1 DEF Stopped, IsTerminal
  <2> QED BY <1>1, <1>2, <2>1, <2>2, <2>3 DEF BusyAt, SameWork
<1>6. ASSUME NEW r \in Run, AtRest(r)' PROVE RestAt(rank, runs'[r], started'[r])
  <2>1. AtRest(r)
      BY <1>4, <1>6 DEF AtRest
  <2>2. RestAt(rank, runs[r], started[r])
      BY <2>1 DEF OnceInv
  <2> QED BY <1>1, <1>2, <2>2 DEF RestAt, SameWork, IsTerminal, Terminal
<1>7. EachStepOnce' /\ \A r \in Run : runs'[r].frames = <<>>
    BY <1>1, <1>2 DEF OnceInv, EachStepOnce, SameWork
<1> QED BY <1>5, <1>6, <1>7 DEF OnceInv

\* In a definition without loops, and in one process whose advances are not cut short,
\* every step of every run is dispatched at most once, however many duplicate, early and
\* late messages the goroutines take, whoever cancels, and whatever fails
\* (runlock.go:28-32).
THEOREM DispatchedOnce ==
    ASSUME OneProcess, MaxAborts = 0, Forward, NEW rank, Falling(rank)
    PROVE  Spec => []EachStepOnce
<1> DEFINE I == BaseInv /\ Roles /\ OnceInv(rank)
<1>1. Init => I
  <2> SUFFICES ASSUME Init PROVE OnceInv(rank)
      BY BaseInit, RolesInit
  <2>1. \A t \in Worker : th[t].pc = "idle"
      BY WorkerIsNoCaller DEF Init, CoordinatorInit, Idle
  <2>2. \A t \in Worker : th[t].pc \notin MidPC /\ ~HasLock(t)
      BY <2>1, MidPCs DEF HasLock
  <2>3. \A r \in Run, s \in Step : started[r][s] = 0
      BY DEF Init, CoordinatorInit
  <2>4. ASSUME NEW r \in Run
        PROVE  runs[r].state \in {"absent", "pending"} /\ runs[r].step = Nil /\ runs[r].frames = <<>>
      BY DEF Init, CoordinatorInit, NewSagaRun, Absent
  <2> QED BY <2>2, <2>3, <2>4 DEF OnceInv, OneAdvancePerRun, EachStepOnce, RestAt
<1>2. I /\ [Next]_vars => I'
  <2> SUFFICES ASSUME BaseInv, Roles, OnceInv(rank), [Next]_vars PROVE OnceInv(rank)'
      BY BaseNext, RolesKept
  <2>1. OneAdvancePerRun'
      BY OneAdvanceKept DEF OnceInv
  <2> QED BY <2>1, StepSplit, OnceAdvance, OnceLoad, OnceAside
<1>3. I => EachStepOnce
    BY DEF OnceInv
<1> HIDE DEF I
<1> QED BY <1>1, <1>2, <1>3, PTL DEF Spec

-----------------------------------------------------------------------------
(***************************************************************************)
(* Resumptions, in workflows that wait for time, signals and events.  A    *)
(* paused run that an advance would take for woken has been granted what   *)
(* it waits for.  An event wait has no deadline here: a wake that comes    *)
(* late, after the deadline has released the run, clears the markers of    *)
(* the next wait.                                                          *)
(***************************************************************************)
WaitsOnly ==
    \A s \in Step :
        /\ Def[s].type \in {"sync", "wait", "signal", "event", "try", "cancel", "end"}
        /\ Def[s].type \in {"signal", "event"} => Def[s].name # Nil
        /\ Def[s].type = "event" => ~Def[s].deadline

\* Advance would resume m.
Woken(m) == WakeupDue(m) \/ ExternalWake(m)

\* What a paused run looks like; g: it has been granted what it waits for.
PausedWell(m, g) ==
    m.state = "paused" => /\ m.step \in Step
                          /\ Woken(m) => g
                          /\ m.topic # Nil => m.wakeup = "none"

\* An event delivery has matched run r and has yet to wake it.
MatchedWell(r) ==
    /\ AtRest(r)
    /\ IsTerminal(runs[r]) \/ (AwaitsTopic(runs[r]) /\ granted[r])

HonourInv ==
    /\ \A t \in Thread : th[t].snap.parent = Nil
    /\ \A r \in Run : runs[r].parent = Nil /\ PausedWell(runs[r], granted[r])
    /\ \A r \in matched : MatchedWell(r)
    /\ \A t \in Worker :
          /\ th[t].pc \notin {"pausejoin", "publish"}
          /\ th[t].pc \in WorkPC => runs[th[t].run].state # "paused"
          /\ th[t].pc \in {"children", "clear"} =>
                granted[th[t].run] /\ ~AwaitsTopic(runs[th[t].run])

\* A step of an advance; g and h: granted before and after it.
LEMMA HonourMoves ==
    ASSUME WaitsOnly, NEW m \in RunRecord, NEW n, NEW x, NEW y, NEW c \in Step,
           NEW g \in BOOLEAN, NEW h, x.pc # "setnext" => h = g,
           OwnMove(x, y, m, n, c), x.pc \in MidPC, x.pc \notin {"send", "publish", "pausejoin"},
           x.pc \in WorkPC => m.wakeup = "none" /\ Unmarked(m) /\ m.state # "paused",
           x.pc \in {"children", "clear"} => g /\ ~AwaitsTopic(m),
           PausedWell(m, g), x.pc = "exec" => m.step = c
    PROVE  /\ y.pc \notin {"send", "publish", "pausejoin"} /\ n.parent = m.parent
           /\ PausedWell(n, h)
           /\ y.pc \in WorkPC => n.state # "paused"
           /\ y.pc \in {"children", "clear"} => h /\ ~AwaitsTopic(n)
           /\ m.state = "paused" /\ n.state = "running" => g
<1> DEFINE Good == /\ y.pc \notin {"send", "publish", "pausejoin"} /\ n.parent = m.parent
                   /\ PausedWell(n, h)
                   /\ y.pc \in WorkPC => n.state # "paused"
                   /\ y.pc \in {"children", "clear"} => h /\ ~AwaitsTopic(n)
                   /\ m.state = "paused" /\ n.state = "running" => g
<1>1. /\ \A pc \in {"exec", "reread", "setnext", "complete", "fail", "rollback", "undo", "dispatch",
                    "markfailed", "pausejoin", "publish"} : pc \in WorkPC
      /\ \A pc \in {"done", "barrier", "load", "children", "clear"} : pc \notin WorkPC
    BY DEF WorkPC, ExecPC
<1>2. Def[c].type \in {"sync", "wait", "signal", "event", "try", "cancel", "end"}
      /\ Def[c].name \in Name \cup {Nil} /\ Def[c].deadline \in BOOLEAN
    BY DefAssumption DEF WaitsOnly, StepDef
<1>3. ASSUME x.pc \in WorkPC, n.state # "paused", n.parent = m.parent,
             y.pc \notin {"send", "publish", "pausejoin", "children", "clear"}
      PROVE  Good
    BY <1>1, <1>3 DEF PausedWell
<1>4. CASE WakeMove(x, y, m, n)
  <2>1. CASE x.pc = "children"
    <3>1. y.pc \in {"clear", "done"} /\ n = m /\ h = g /\ g /\ ~AwaitsTopic(m)
        BY <1>4, <2>1 DEF WakeMove
    <3> QED BY <1>1, <3>1
  <2>2. CASE x.pc = "clear"
    <3>1. y.pc = "reread" /\ n = ClearPause(m) /\ g
        BY <1>4, <2>2 DEF WakeMove
    <3>2. n.state = "running" /\ n.parent = m.parent
        BY <3>1, MarksCleared DEF SameKin
    <3> QED BY <3>1, <3>2 DEF PausedWell
  <2>3. CASE x.pc = "reread"
      BY <1>1, <1>3, <1>4, <2>3 DEF WakeMove
  <2>4. CASE x.pc = "setnext"
    <3>1. y.pc = "load" /\ n.state = "running" /\ n.parent = m.parent
        BY <1>4, <2>4, StateWritten DEF WakeMove, SameKin
    <3> QED BY <1>1, <1>3, <2>4, <3>1
  <2> QED BY <1>4, <2>1, <2>2, <2>3, <2>4 DEF WakeMove
<1>5. CASE QuietMove(x, y, c) /\ n = m
  <2>1. x.pc = "exec" /\ y.pc \in {"exec", "fail", "done", "setnext"}
      BY <1>2, <1>5 DEF QuietMove, Answers
  <2> QED BY <1>1, <1>3, <1>5, <2>1
<1>6. CASE EndMove(x, y, m, n, c)
  <2>1. x.pc \in WorkPC /\ y.pc \in {"done", "barrier"}
      BY <1>1, <1>6 DEF EndMove
  <2>2. n.state # "paused" /\ n.parent = m.parent
      BY <1>6, StateWritten, FailWritten DEF EndMove, SameKin, IsTerminal, Terminal
  <2> QED BY <1>3, <2>1, <2>2
<1>7. CASE PauseMove(x, y, m, n, c)
  <2>1. x.pc = "exec" /\ y.pc = "done" /\ h = g /\ m.step = c /\ m.wakeup = "none" /\ Unmarked(m)
      BY <1>1, <1>2, <1>7 DEF PauseMove
  <2> DEFINE name == Def[c].name
             deadline == Def[c].deadline
  <2>2. deadline \in BOOLEAN
      BY <1>2
  <2>3. CASE n = SetPausedWithWakeup(m)
    <3>1. /\ n.state = "paused" /\ n.wakeup = "later" /\ n.topic = m.topic
          /\ SameWork(m, n) /\ SameKin(m, n)
        BY <2>3, PausesWritten
    <3>2. n.step = c /\ n.topic = Nil /\ n.parent = m.parent
        BY <2>1, <3>1 DEF SameWork, SameKin, Unmarked
    <3> QED BY <1>1, <2>1, <3>1, <3>2 DEF PausedWell, Woken, WakeupDue, ExternalWake
  <2>4. CASE Def[c].type = "signal" /\ n = SetPausedAwaitingSignal(m, name, deadline)
    <3>1. name # Nil
        BY <2>4 DEF WaitsOnly
    <3> HIDE DEF name, deadline
    <3>2. /\ n.state = "paused" /\ n.signal = name /\ n.topic = m.topic
          /\ n.wakeup = (IF deadline THEN "later" ELSE m.wakeup)
          /\ SameWork(m, n) /\ SameKin(m, n)
        BY <2>2, <2>4, PausesWritten
    <3>3. n.step = c /\ n.topic = Nil /\ n.parent = m.parent /\ n.wakeup # "due"
        BY <2>1, <3>2 DEF SameWork, SameKin, Unmarked
    <3> QED BY <1>1, <2>1, <3>1, <3>2, <3>3
            DEF PausedWell, Woken, WakeupDue, ExternalWake, PendingAwait
  <2>5. CASE Def[c].type = "event" /\ n = SetPausedAwaitingEvent(m, name, deadline)
    <3>1. name # Nil /\ ~deadline
        BY <2>5 DEF WaitsOnly
    <3> HIDE DEF name, deadline
    <3>2. /\ n.state = "paused" /\ n.topic = name /\ n.signal = m.signal
          /\ n.wakeup = (IF deadline THEN "later" ELSE "none")
          /\ SameWork(m, n) /\ SameKin(m, n)
        BY <2>2, <2>5, PausesWritten
    <3>3. n.step = c /\ n.parent = m.parent /\ n.wakeup = "none"
        BY <2>1, <3>1, <3>2 DEF SameWork, SameKin
    <3> QED BY <1>1, <2>1, <3>1, <3>2, <3>3
            DEF PausedWell, Woken, WakeupDue, ExternalWake, PendingAwait
  <2> QED BY <1>2, <1>7, <2>3, <2>4, <2>5 DEF PauseMove
<1>8. CASE FailMove(x, y, m, n, c)
  <2>1. x.pc \in WorkPC /\ y.pc \notin {"send", "publish", "pausejoin", "children", "clear"}
      BY <1>1, <1>8 DEF FailMove, Answers
  <2>2. n.state # "paused" /\ n.parent = m.parent
      BY <1>8, <2>1, FramesWritten, StateWritten DEF FailMove, SameKin
  <2> QED BY <1>3, <2>1, <2>2
<1>9. CASE DispatchMove(x, y, m, n, c)
  <2>1. n.state = "running" /\ n.parent = m.parent /\ y.pc \in {"complete", "exec"} /\ x.pc = "dispatch"
      BY <1>9, StateWritten DEF DispatchMove, SameKin
  <2> QED BY <1>1, <1>3, <2>1
<1> QED BY <1>4, <1>5, <1>6, <1>7, <1>8, <1>9 DEF OwnMove

LEMMA HonourAdvance ==
    ASSUME WaitsOnly, AwaitInv, QuietInv, HonourInv, NEW t \in Worker, AdvanceStep(t), UNCHANGED matched
    PROVE  /\ HonourInv'
           /\ \A r \in Run : runs[r].state = "paused" /\ runs'[r].state = "running" => granted[r]
<1> DEFINE q == th[t].run
           c == StepOf(t)
<1>1. th[t].pc \in MidPC /\ Stays(t) /\ OwnMove(th[t], th'[t], Self(t), runs'[q], c)
    BY DEF AdvanceStep
<1>2. Self(t) = runs[q] /\ Self(t) \in RunRecord /\ c \in Step /\ q \in Run
    BY <1>1, OwnFacts DEF AwaitInv
<1>3. /\ granted \in [Run -> BOOLEAN] /\ (th[t].pc # "setnext" => granted'[q] = granted[q])
      /\ \A r \in Run : r # q => granted'[r] = granted[r]
    BY <1>2 DEF AwaitInv, BaseInv, TypeOK, AdvanceStep, Ghosts
<1>4. /\ th[t].pc \notin {"send", "publish", "pausejoin"} /\ PausedWell(runs[q], granted[q])
      /\ th[t].pc \in WorkPC => /\ runs[q].wakeup = "none" /\ Unmarked(runs[q])
                               /\ runs[q].state # "paused"
      /\ th[t].pc \in {"children", "clear"} => granted[q] /\ ~AwaitsTopic(runs[q])
      /\ th[t].pc = "exec" => runs[q].step = c
    BY <1>2 DEF HonourInv, QuietInv, AwaitInv, LockInv, WorkedOnUnmarked, StepHeld, ExecPC
<1> HIDE DEF q, c
<1>5. /\ th'[t].pc \notin {"send", "publish", "pausejoin"} /\ runs'[q].parent = runs[q].parent
      /\ PausedWell(runs'[q], granted'[q])
      /\ th'[t].pc \in WorkPC => runs'[q].state # "paused"
      /\ th'[t].pc \in {"children", "clear"} => granted'[q] /\ ~AwaitsTopic(runs'[q])
      /\ runs[q].state = "paused" /\ runs'[q].state = "running" => granted[q]
    BY <1>1, <1>2, <1>3, <1>4, HonourMoves
<1>6. th'[t].run = q /\ th'[t].snap = th[t].snap /\ \A u \in Thread : u # t => th'[u] = th[u]
    BY <1>1 DEF Stays, q, AdvanceStep, OnlyThread
<1>7. ASSUME NEW r \in Run, r # q PROVE runs'[r] = runs[r]
  <2>1. ~Spawns(t, r)
      BY <1>2 DEF Spawns, WaitsOnly, c
  <2> QED BY <1>7, <2>1 DEF AdvanceStep, q
<1>8. ASSUME NEW u \in Worker, u # t, th'[u].pc \in MidPC
      PROVE  th'[u] = th[u] /\ th[u].run \in Run /\ th[u].run # q
  <2>1. th'[u] = th[u]
      BY <1>6, <1>8, WorkerIsNoCaller
  <2>2. HasLock(u)
      BY <1>8, <2>1, MidPCs DEF HasLock
  <2> QED BY <1>8, <2>1, <2>2, OthersKept DEF AwaitInv, LockInv, q
<1>9. ASSUME NEW u \in Worker
      PROVE  /\ th'[u].pc \notin {"pausejoin", "publish"}
             /\ th'[u].pc \in WorkPC => runs'[th'[u].run].state # "paused"
             /\ th'[u].pc \in {"children", "clear"} =>
                   granted'[th'[u].run] /\ ~AwaitsTopic(runs'[th'[u].run])
  <2>1. CASE u = t
      BY <1>5, <1>6, <2>1
  <2>2. CASE u # t /\ th'[u].pc \in MidPC
      BY <1>3, <1>7, <1>8, <2>2 DEF HonourInv
  <2>3. CASE u # t /\ th'[u].pc \notin MidPC
      BY <2>3, PCsInMid, MidPCs
  <2> QED BY <2>1, <2>2, <2>3
<1>10. ASSUME NEW r \in matched' PROVE MatchedWell(r)'
  <2>1. r \in matched /\ r \in Run /\ MatchedWell(r)
      BY DEF AwaitInv, BaseInv, TypeOK, HonourInv
  <2>2. r # q
      BY <1>1, <2>1 DEF MatchedWell, AtRest, q
  <2>3. AtRest(r)'
      BY <1>6, <2>1, <2>2, WorkerIsNoCaller DEF MatchedWell, AtRest
  <2> QED BY <1>3, <1>7, <2>1, <2>2, <2>3 DEF MatchedWell, IsTerminal
<1>11. \A r \in Run : runs'[r].parent = Nil /\ PausedWell(runs'[r], granted'[r])
    BY <1>2, <1>3, <1>5, <1>7 DEF HonourInv
<1>12. \A u \in Thread : th'[u].snap.parent = Nil
    BY <1>6 DEF HonourInv
<1>13. \A r \in Run : runs[r].state = "paused" /\ runs'[r].state = "running" => granted[r]
    BY <1>5, <1>7
<1> QED BY <1>9, <1>10, <1>11, <1>12, <1>13 DEF HonourInv, PausedWell

LEMMA HonourLoad ==
    ASSUME WaitsOnly, BaseInv, HonourInv, NEW t \in Worker, LoadStep(t), UNCHANGED matched
    PROVE  HonourInv'
<1> DEFINE q == th[t].run
           m == Self(t)
<1>1. /\ th[t].pc = "load" /\ UNCHANGED <<runs, granted>>
      /\ th'[t].run = q /\ th'[t].snap = m /\ th'[t].pc = AfterLoad(m)
      /\ \A u \in Thread : u # t => th'[u] = th[u]
    BY DEF LoadStep, OnlyThread
<1>2. q \in Run /\ m = runs[q]
    BY <1>1, WorkerIsNoCaller, Working DEF Self
<1>3. PausedWell(m, granted[q]) /\ m.parent = Nil
    BY <1>2 DEF HonourInv
<1> HIDE DEF m, q
<1>4. AfterLoad(m) \in {"children", "clear"} => /\ m.state = "paused" /\ granted[q]
                                              /\ ~AwaitsTopic(m)
    BY <1>3, LoadPlaces DEF PausedWell, Woken, AwaitsTopic, WakeupDue, ExternalWake, PendingAwait
<1>5. /\ AfterLoad(m) \notin {"pausejoin", "publish"}
      /\ AfterLoad(m) \in WorkPC => m.state # "paused"
    BY LoadPlaces DEF WorkPC, ExecPC
<1>6. ASSUME NEW u \in Worker
      PROVE  /\ th'[u].pc \notin {"pausejoin", "publish"}
             /\ th'[u].pc \in WorkPC => runs'[th'[u].run].state # "paused"
             /\ th'[u].pc \in {"children", "clear"} =>
                   granted'[th'[u].run] /\ ~AwaitsTopic(runs'[th'[u].run])
  <2>1. CASE u = t
      BY <1>1, <1>2, <1>4, <1>5, <2>1
  <2>2. CASE u # t
      BY <1>1, <2>2, WorkerIsNoCaller DEF HonourInv
  <2> QED BY <2>1, <2>2
<1>7. ASSUME NEW r \in matched' PROVE MatchedWell(r)'
  <2>1. r \in matched /\ r \in Run /\ MatchedWell(r)
      BY DEF BaseInv, TypeOK, HonourInv
  <2>2. r = q => AfterLoad(m) \notin MidPC
    <3>1. r = q => IsTerminal(m) \/ AwaitsTopic(m)
        BY <1>2, <2>1 DEF MatchedWell
    <3>2. IsTerminal(m) \/ AwaitsTopic(m) => AfterLoad(m) = "done"
        BY <1>4, LoadPlaces DEF AwaitsTopic
    <3> QED BY <3>1, <3>2, PCsInMid
  <2>3. AtRest(r)'
      BY <1>1, <2>1, <2>2, WorkerIsNoCaller DEF MatchedWell, AtRest
  <2> QED BY <1>1, <2>1, <2>3 DEF MatchedWell
<1>8. \A u \in Thread : th'[u].snap.parent = Nil
    BY <1>1, <1>3 DEF HonourInv
<1>9. \A r \in Run : runs'[r].parent = Nil /\ PausedWell(runs'[r], granted'[r])
    BY <1>1 DEF HonourInv
<1> QED BY <1>6, <1>7, <1>8, <1>9 DEF HonourInv, PausedWell

LEMMA HonourAside ==
    ASSUME WaitsOnly, AwaitInv, BaseInv', QuietInv, HonourInv, AsideStep
    PROVE  HonourInv'
<1>1. \A r \in Run : runs[r] \in RunRecord /\ SideWrite(r) /\ (granted[r] => granted'[r])
    BY DEF AsideStep, AwaitInv, BaseInv, TypeOK
<1>2. ASSUME NEW r \in Run
      PROVE  /\ SameWork(runs[r], runs'[r]) /\ SameKin(runs[r], runs'[r])
             /\ runs'[r].state = runs[r].state \/ IsTerminal(runs'[r])
    BY <1>1, SideKeeps DEF AwaitInv
<1>3. ASSUME NEW r \in Run
      PROVE  \/ runs'[r] = runs[r]
             \/ /\ runs'[r] = ClearAwaits(runs[r])
                /\ \/ granted'[r] /\ runs[r].signal # Nil
                   \/ r \in matched /\ r \notin matched'
             \/ IsTerminal(runs'[r])
             \/ runs[r].wakeup = "later" /\ runs'[r] = [runs[r] EXCEPT !.wakeup = "due"] /\ granted'[r]
  <2>1. \A u \in Thread : th[u].snap.parent # r
      BY NilIsNone DEF HonourInv
  <2>2. runs'[r] = Cancel(runs[r]) => IsTerminal(runs'[r])
      BY <1>1, MarksCleared DEF IsTerminal, Terminal
  <2> QED BY <1>1, <2>1, <2>2 DEF SideWrite, QuietInv
<1>4. ASSUME NEW r \in Run PROVE PausedWell(runs'[r], granted'[r])
  <2>1. PausedWell(runs[r], granted[r]) /\ runs[r] \in RunRecord
      BY <1>1 DEF HonourInv
  <2>2. CASE runs'[r] = runs[r]
      BY <1>1, <2>1, <2>2 DEF PausedWell
  <2>3. CASE IsTerminal(runs'[r])
      BY <2>3 DEF PausedWell, IsTerminal, Terminal
  <2>4. CASE /\ runs'[r] = ClearAwaits(runs[r])
             /\ \/ granted'[r] /\ runs[r].signal # Nil
                \/ r \in matched /\ r \notin matched'
    <3>1. Blank(runs'[r]) /\ runs'[r].state = runs[r].state /\ runs'[r].step = runs[r].step
        BY <2>1, <2>4, MarksCleared DEF SameWork
    <3>2. runs[r].state = "paused" => granted'[r]
        BY <1>1, <2>4 DEF HonourInv, MatchedWell, IsTerminal, Terminal
    <3> QED BY <2>1, <3>1, <3>2 DEF PausedWell, Blank
  <2>5. CASE /\ runs[r].wakeup = "later" /\ runs'[r] = [runs[r] EXCEPT !.wakeup = "due"]
             /\ granted'[r]
    <3>1. /\ runs'[r].wakeup = "due" /\ runs'[r].state = runs[r].state
          /\ runs'[r].topic = runs[r].topic /\ runs'[r].step = runs[r].step
        BY <2>1, <2>5, DueWritten DEF SameWork
    <3> QED BY <2>1, <2>5, <3>1 DEF PausedWell
  <2> QED BY <1>3, <2>2, <2>3, <2>4, <2>5
<1>5. ASSUME NEW r \in Run, AtRest(r) PROVE AtRest(r)'
    BY <1>5, MidPCs DEF AtRest, AsideStep, LeavesAside
<1>6. ASSUME NEW r \in matched' PROVE MatchedWell(r)'
  <2>1. CASE r \in matched
    <3>1. r \in Run /\ MatchedWell(r) /\ runs[r] \in RunRecord
        BY <1>1, <2>1 DEF AwaitInv, BaseInv, TypeOK, HonourInv
    <3>2. AtRest(r)'
        BY <1>5, <3>1 DEF MatchedWell
    <3>3. CASE IsTerminal(runs[r])
        BY <1>2, <3>1, <3>2, <3>3 DEF MatchedWell, IsTerminal
    <3>4. CASE AwaitsTopic(runs[r]) /\ granted[r]
      <4>1. runs[r].signal = Nil
          BY <3>1, <3>4 DEF AwaitsTopic, AwaitInv, LockInv, AwaitMatchesStep, AwaitMatches
      <4>2. runs[r].wakeup = "none"
          BY <3>1, <3>4 DEF HonourInv, PausedWell, AwaitsTopic
      <4>3. runs'[r] = runs[r] \/ IsTerminal(runs'[r])
          BY <1>3, <1>6, <3>1, <4>1, <4>2
      <4> QED BY <1>1, <3>1, <3>2, <3>4, <4>3 DEF MatchedWell, IsTerminal
    <3> QED BY <3>1, <3>3, <3>4 DEF MatchedWell
  <2>2. CASE r \notin matched
    <3>1. AwaitsTopic(runs[r]) /\ granted'[r] /\ runs'[r] = runs[r]
        BY <1>6, <2>2 DEF AsideStep, ReadsAside
    <3>2. AtRest(r)
      <4> SUFFICES ASSUME NEW u \in Worker, th[u].run = r, th[u].pc \in MidPC PROVE FALSE
          BY DEF AtRest
      <4>1. th[u].pc \in WorkPC \/ th[u].pc \in {"children", "clear"}
          BY DEF MidPC
      <4> QED BY <3>1, <4>1 DEF HonourInv, AwaitsTopic
    <3>3. r \in Run
        BY <1>6 DEF BaseInv, TypeOK
    <3> QED BY <1>5, <3>1, <3>2, <3>3 DEF MatchedWell
  <2> QED BY <2>1, <2>2
<1>7. ASSUME NEW u \in Worker
      PROVE  /\ th'[u].pc \notin {"pausejoin", "publish"}
             /\ th'[u].pc \in WorkPC => runs'[th'[u].run].state # "paused"
             /\ th'[u].pc \in {"children", "clear"} =>
                   granted'[th'[u].run] /\ ~AwaitsTopic(runs'[th'[u].run])
  <2>1. CASE th'[u].pc \notin MidPC
      BY <2>1, PCsInMid, MidPCs
  <2>2. CASE th'[u].pc \in MidPC
    <3>1. th'[u] = th[u]
        BY <2>2 DEF AsideStep, LeavesAside
    <3>2. th[u].run \in Run
        BY <2>2, <3>1, OwnFacts DEF AwaitInv
    <3>3. runs[th[u].run].state # "paused" => runs'[th[u].run].state # "paused"
        BY <1>2, <3>2 DEF IsTerminal, Terminal
    <3>4. ~AwaitsTopic(runs[th[u].run]) => ~AwaitsTopic(runs'[th[u].run])
      <4> DEFINE q == th[u].run
      <4>1. q \in Run /\ runs[q] \in RunRecord
          BY <1>1, <3>2
      <4> HIDE DEF q
      <4>2. runs'[q].topic \in {runs[q].topic, Nil} \/ IsTerminal(runs'[q])
        <5>1. CASE runs'[q] = ClearAwaits(runs[q])
            BY <4>1, <5>1, MarksCleared DEF Blank
        <5>2. CASE runs'[q] = [runs[q] EXCEPT !.wakeup = "due"]
            BY <4>1, <5>2, DueWritten
        <5> QED BY <1>3, <4>1, <5>1, <5>2
      <4> QED BY <1>2, <4>1, <4>2 DEF AwaitsTopic, IsTerminal, Terminal, q
    <3> QED BY <1>1, <3>1, <3>2, <3>3, <3>4 DEF HonourInv
  <2> QED BY <2>1, <2>2
<1>8. \A r \in Run : runs'[r].parent = Nil
    BY <1>2 DEF HonourInv, SameKin
<1>9. \A u \in Thread : th'[u].snap.parent = Nil
    BY DEF AsideStep, ReadsAside, HonourInv
<1> QED BY <1>4, <1>6, <1>7, <1>8, <1>9 DEF HonourInv, PausedWell

\* In workflows that wait for time, signals and events, a paused run goes on only when
\* its deadline has passed or what it awaits has come, whatever duplicate, early or stale
\* messages are delivered, whichever advance is cut short and whoever cancels
\* (advance.go:81-87, 104-107).
THEOREM WaitsHonoured ==
    ASSUME OneProcess, "report" \notin Faults, WaitsOnly
    PROVE  Spec => WaitHonoured
<1> DEFINE I == AwaitInv /\ Roles /\ QuietInv /\ HonourInv
           P == \A r \in Run : runs[r].state = "paused" /\ runs'[r].state = "running" => WaitOver(r)
<1>1. NoActions
    BY DEF WaitsOnly, NoActions
<1>2. Init => I
  <2> SUFFICES ASSUME Init PROVE HonourInv
      BY AwaitInit, RolesInit, QuietInit
  <2>1. matched = {} /\ \A t \in Thread : th[t].pc = "idle" /\ th[t].snap.parent = Nil
      BY DEF Init, CoordinatorInit, Idle, Absent
  <2>2. ASSUME NEW r \in Run PROVE runs[r].parent = Nil /\ runs[r].state # "paused"
      BY DEF Init, CoordinatorInit, NewSagaRun, Absent
  <2>3. \A t \in Worker : th[t].pc = "idle"
      BY <2>1, WorkerIsNoCaller
  <2> QED BY <2>1, <2>2, <2>3 DEF HonourInv, PausedWell, WorkPC, ExecPC
<1>3. I /\ [Next]_vars => I' /\ P
  <2> SUFFICES ASSUME AwaitInv, Roles, QuietInv, HonourInv, [Next]_vars PROVE I' /\ P
      OBVIOUS
  <2>1. AwaitInv' /\ Roles' /\ QuietInv' /\ BaseInv /\ BaseInv'
      BY <1>1, AwaitNext, RolesKept, QuietKept DEF AwaitInv
  <2>2. ASSUME \A r \in Run : runs[r].state = "paused" /\ runs'[r].state = "running" => granted[r]
        PROVE  P
    <3> SUFFICES ASSUME NEW r \in Run, runs[r].state = "paused", granted[r] PROVE WaitOver(r)
        BY <2>2
    <3>1. runs[r].step \in Step
        BY DEF HonourInv, PausedWell
    <3> QED BY <3>1 DEF WaitOver, WaitsOnly
  <2>3. ASSUME NEW t \in Worker, AdvanceStep(t), UNCHANGED matched PROVE HonourInv' /\ P
      BY <2>2, <2>3, HonourAdvance
  <2>4. ASSUME NEW t \in Worker, LoadStep(t), UNCHANGED matched PROVE HonourInv' /\ P
      BY <2>1, <2>2, <2>4, HonourLoad DEF LoadStep
  <2>5. CASE AsideStep
    <3>1. \A r \in Run : SideWrite(r)
        BY <2>5 DEF AsideStep
    <3>2. \A r \in Run : runs'[r].state = runs[r].state \/ IsTerminal(runs'[r])
        BY <2>1, <3>1, SideKeeps
    <3>3. P
        BY <2>2, <3>2 DEF IsTerminal, Terminal
    <3>4. HonourInv'
        BY <2>1, <2>5, HonourAside
    <3> HIDE DEF P
    <3> QED BY <2>1, <3>3, <3>4
  <2> HIDE DEF P
  <2>6. HonourInv' /\ P
      BY <2>1, <2>3, <2>4, <2>5, StepSplit
  <2> QED BY <2>1, <2>6
<1> HIDE DEF I, P
<1>4. Spec => [][P]_vars
    BY <1>2, <1>3, PTL DEF Spec
<1> QED BY <1>4 DEF WaitHonoured, P

-----------------------------------------------------------------------------
(***************************************************************************)
(* Rollbacks.  A goroutine that rolls its run back has undone what the     *)
(* part of the log that it has walked holds, and the rest of the log is    *)
(* what it has left.                                                       *)
(***************************************************************************)
RollPC == {"fail", "rollback", "undo", "markfailed"}

\* What an advance does to the log and to the compensations sent.
Logs(t) ==
    IF th[t].pc \in RollPC
    THEN \/ Catch(t) \/ Uncaught(t) \/ StartRollback(t) \/ Undo(t) \/ RolledBack(t)
         \/ MarkFailed(t)
    ELSE /\ undone' = undone
         /\ \A r \in Run : r # th[t].run => log'[r] = log[r]
         /\ LET l == log[th[t].run] IN
            \/ log'[th[t].run] = l
            \/ \E s \in Step \cap {StepOf(t), Self(t).step} : log'[th[t].run] = Append(l, s)

LogsKept == UNCHANGED <<log, undone>>

LEMMA SucceededOne ==
    ASSUME BaseInv, NEW q \in Run, NEW s, Succeeded(q, s)
    PROVE  /\ \A r \in Run : r # q => log'[r] = log[r]
           /\ log'[q] = log[q] \/ log'[q] = Append(log[q], s)
BY DEF BaseInv, TypeOK, Succeeded

LEMMA LogSplit ==
    ASSUME BaseInv, Roles, [Next]_vars
    PROVE  \/ \E t \in Worker : AdvanceStep(t) /\ Logs(t)
           \/ LogsKept /\ ((\E t \in Worker : LoadStep(t)) \/ AsideStep)
<1> DEFINE Q == \/ \E t \in Worker : AdvanceStep(t) /\ Logs(t)
                \/ LogsKept /\ ((\E t \in Worker : LoadStep(t)) \/ AsideStep)
<1>1. CASE UNCHANGED vars
    BY <1>1 DEF vars, AsideStep, SideWrite, OneMoves, ReadsAside, LogsKept
<1>2. CASE Outside
  <2>1. LogsKept
      BY <1>2 DEF Outside, Tick, TimerPoll, EventWake, PublishOut, Signal, EventArrives,
                  ReportResult, ReportError, LogsKept
  <2> QED BY <1>2, <2>1, OutsideSteps
<1>3. CASE CoordinatorNext /\ UNCHANGED <<outbox, matched>>
  <2>1. ASSUME NEW t \in Worker, NEW r \in Run, Deliver(t, r) PROVE Q
      BY <1>3, <2>1, RestSteps, WorkerIsNoCaller DEF Deliver, LogsKept
  <2>2. ASSUME NEW t \in Worker, AcquireLock(t) PROVE Q
      BY <1>3, <2>2, RestSteps, WorkerIsNoCaller DEF AcquireLock, LogsKept
  <2>3. ASSUME NEW t \in Caller, NEW r \in Run, CancelRead(t, r) PROVE Q
      BY <1>3, <2>3, RestSteps DEF Thread, CancelRead, LogsKept
  <2>4. ASSUME NEW t \in Thread, Abort(t) PROVE Q
      BY <1>3, <2>4, RestSteps DEF Abort, LogsKept
  <2>5. ASSUME NEW t \in Caller, Proceed(t) PROVE Q
    <3>1. t \in Thread /\ th[t].pc \in CallerPC
        BY DEF Thread, Roles, CallersOnlyCancel
    <3>2. \/ WakeParent(t) \/ PublishParent(t) \/ CancelWrite(t) \/ Barrier(t) \/ ParentJoin(t)
          \/ Done(t)
        BY <2>5, <3>1, CallerActions
    <3>3. LogsKept
        BY <3>2 DEF WakeParent, PublishParent, CancelWrite, Barrier, ParentJoin, Done, LogsKept
    <3> QED BY <1>3, <2>5, <3>3, CallerSteps DEF Roles
  <2>6. ASSUME NEW t \in Worker, Proceed(t) PROVE Q
    <3>1. t \in Thread /\ UNCHANGED <<outbox, matched>> /\ ~CancelWrite(t)
        BY <1>3, <2>6, WorkerIsNoCaller DEF Roles, CancelWrite
    <3>2. CASE Load(t)
        BY <2>6, <3>1, <3>2, LoadSteps DEF Load, LogsKept
    <3>3. CASE CheckChildren(t) \/ Clear(t) \/ Reread(t) \/ SetNext(t) \/ Dispatch(t)
      <4>1. AdvanceStep(t)
          BY <2>6, <3>1, <3>3, WakeSteps, DispatchSteps
      <4>2. th[t].pc \notin RollPC /\ undone' = undone /\ th[t].run \in Run /\ StepOf(t) \in Step
          BY <3>3, <4>1, OwnFacts DEF CheckChildren, Clear, Reread, SetNext, Dispatch, RollPC, AdvanceStep
      <4>3. (\E s \in Step \cap {StepOf(t), Self(t).step} : Succeeded(th[t].run, s)) \/ UNCHANGED log
        <5>1. Self(t).step \in Step \cup {Nil}
            BY <4>1, OwnFacts DEF AdvanceStep, RunRecord
        <5> QED BY <3>3, <5>1 DEF CheckChildren, Clear, Reread, SetNext, Dispatch
      <4>4. Logs(t)
          BY <4>2, <4>3, SucceededOne DEF Logs
      <4> QED BY <4>1, <4>4
    <3>4. CASE \/ Complete(t) \/ Reject(t) \/ ExecWait(t) \/ ExecSignal(t) \/ ExecEvent(t)
               \/ ExecAction(t) \/ PauseFork(t) \/ PauseJoin(t) \/ ExecCancel(t)
      <4>1. th[t].pc \notin RollPC /\ UNCHANGED <<log, undone>>
          BY <3>4 DEF Complete, Reject, ExecWait, ExecSignal, ExecEvent, ExecAction, PauseFork,
                      PauseJoin, ExecCancel, RollPC
      <4> QED BY <2>6, <3>1, <3>4, <4>1, VerbSteps DEF Logs
    <3>5. CASE \/ ExecSync(t) \/ VerbFails(t) \/ Send(t) \/ SendFails(t) \/ PublishFails(t)
               \/ ForkPaused(t) \/ ExecJoin(t) \/ PublishSpawned(t) \/ PublishChild(t)
      <4>1. AdvanceStep(t)
          BY <2>6, <3>1, <3>5, QuietSteps
      <4>2. th[t].pc \notin RollPC /\ undone' = undone /\ th[t].run \in Run /\ StepOf(t) \in Step
          BY <3>5, <4>1, OwnFacts DEF ExecSync, VerbFails, Send, SendFails, PublishFails, ForkPaused,
             ExecJoin, PublishSpawned, PublishChild, RollPC, AdvanceStep
      <4>3. (\E s \in Step \cap {StepOf(t), Self(t).step} : Succeeded(th[t].run, s)) \/ UNCHANGED log
          BY <3>5, <4>2 DEF ExecSync, VerbFails, Send, SendFails, PublishFails, ForkPaused,
             ExecJoin, PublishSpawned, PublishChild, Succeed
      <4>4. Logs(t)
          BY <4>2, <4>3, SucceededOne DEF Logs
      <4> QED BY <4>1, <4>4
    <3>6. CASE ExecTry(t)
      <4>1. AdvanceStep(t)
          BY <2>6, <3>1, <3>6, FailSteps
      <4>2. th[t].pc \notin RollPC /\ undone' = undone /\ th[t].run \in Run /\ StepOf(t) \in Step
          BY <3>6, <4>1, OwnFacts DEF ExecTry, RollPC, AdvanceStep
      <4>3. (\E s \in Step \cap {StepOf(t), Self(t).step} : Succeeded(th[t].run, s)) \/ UNCHANGED log
          BY <3>6, <4>2 DEF ExecTry, Succeed
      <4>4. Logs(t)
          BY <4>2, <4>3, SucceededOne DEF Logs
      <4> QED BY <4>1, <4>4
    <3>7. CASE \/ Catch(t) \/ Uncaught(t) \/ StartRollback(t) \/ Undo(t) \/ RolledBack(t)
               \/ MarkFailed(t)
      <4>1. th[t].pc \in RollPC
          BY <3>7 DEF Catch, Uncaught, StartRollback, Undo, RolledBack, MarkFailed, RollPC
      <4> QED BY <2>6, <3>1, <3>7, <4>1, FailSteps DEF Logs
    <3>8. CASE SpawnChild(t)
      <4>1. th[t].pc \notin RollPC /\ UNCHANGED <<log, undone>>
          BY <3>8 DEF SpawnChild, RollPC
      <4> QED BY <2>6, <3>1, <3>8, <4>1, SpawnSteps DEF Logs
    <3>9. CASE WakeParent(t) \/ PublishParent(t) \/ Barrier(t) \/ ParentJoin(t) \/ Done(t)
      <4>1. LogsKept
          BY <3>9 DEF WakeParent, PublishParent, Barrier, ParentJoin, Done, LogsKept
      <4> QED BY <3>1, <3>9, <4>1, HookSteps, RestSteps
    <3> QED BY <2>6, <3>1, <3>2, <3>3, <3>4, <3>5, <3>6, <3>7, <3>8, <3>9 DEF Proceed
  <2>7. \A t \in Thread : t \in Worker \/ t \in Caller
      BY DEF Thread
  <2> HIDE DEF Q
  <2>8. Q
      BY <1>3, <2>1, <2>2, <2>3, <2>4, <2>5, <2>6, <2>7 DEF CoordinatorNext
  <2> QED BY <2>8 DEF Q
<1> QED BY <1>1, <1>2, <1>3 DEF Next

-----------------------------------------------------------------------------
\* What has a compensation comes after what the licence gate may reject: E has the gated
\* steps, with the steps before them.
GatesFirst(E) ==
    \A s \in Step :
        /\ Def[s].gated => s \in E
        /\ s \in E => ~Def[s].comp
        /\ Targets(s) \cap E # {} => s \in E
        /\ Def[s].type = "try" => Def[s].catch \notin E

\* An end step has nothing to undo.
EndsUndoNothing == \A s \in Step : Def[s].type = "end" => ~Def[s].comp

Early(E, l) == \A i \in DOMAIN l : l[i] \in E

EarlyRest(E, m, l) ==
    /\ m.state = "absent" => l = <<>>
    /\ ~IsTerminal(m) /\ CurrentStep(m) \in E => Early(E, l)

EarlyBusy(E, x, m, l, c) ==
    /\ m.state # "absent"
    /\ x.pc \notin {"undo", "markfailed"} => CurrentStep(m) = c
    /\ c \in E => Early(E, l)
    /\ x.pc = "setnext" => x.next \in Step /\ (x.next \in E => c \in E)

LateFrames(E, m) == \A i \in DOMAIN m.frames : m.frames[i] \notin E

\* While a run is at a step of E, it has completed only steps of E.
EarlyInv(E) ==
    /\ OneAdvancePerRun
    /\ \A r \in Run : LateFrames(E, runs[r])
    /\ \A r \in Run : AtRest(r) => EarlyRest(E, runs[r], log[r])
    /\ \A t \in Worker : th[t].pc \in MidPC =>
          EarlyBusy(E, th[t], runs[th[t].run], log[th[t].run], StepOf(t))

Earlier(E, y, n, k, c) ==
    /\ LateFrames(E, n)
    /\ y.pc \in MidPC => EarlyBusy(E, y, n, k, c)
    /\ y.pc \notin MidPC => EarlyRest(E, n, k)

LEMMA EarlyMoves ==
    ASSUME NEW E, GatesFirst(E), NEW m \in RunRecord, NEW n, NEW x, NEW y, NEW c \in Step,
           NEW l \in Seq(Step), NEW k, OwnMove(x, y, m, n, c), x.pc \in MidPC,
           EarlyBusy(E, x, m, l, c), LateFrames(E, m),
           k = l \/ (x.pc \notin RollPC /\ k = Append(l, c))
    PROVE  Earlier(E, y, n, k, c)
<1>1. c \in E => Early(E, k)
  <2>1. c \in E /\ k = Append(l, c) => Early(E, k)
      BY DEF EarlyBusy, Early
  <2> QED BY <2>1 DEF EarlyBusy
<1>2. /\ m.state # "absent" /\ m.start \in Step \cup {Nil} /\ m.step \in Step \cup {Nil} /\ c # Nil
      /\ m.frames \in Seq(Step)
    BY NilIsNone DEF EarlyBusy, RunRecord
<1>3. ASSUME NEW s \in Targets(c) PROVE s \in Step /\ (s \in E => c \in E)
  <2>1. Targets(c) \subseteq Step
      BY DefAssumption DEF Targets, StepDef
  <2> QED BY <2>1 DEF GatesFirst
<1>4. CASE WakeMove(x, y, m, n)
  <2>1. CurrentStep(m) = c
      BY <1>4 DEF EarlyBusy, WakeMove
  <2>2. CASE x.pc = "children" /\ y.pc \in {"clear", "done"} /\ n = m
      BY <1>1, <1>2, <2>1, <2>2, PCsInMid DEF Earlier, EarlyBusy, EarlyRest
  <2>3. CASE x.pc = "clear" /\ y.pc = "reread" /\ n = ClearPause(m)
    <3>1. n.state = "running" /\ CurrentStep(n) = c /\ n.frames = m.frames
        BY <2>1, <2>3, MarksCleared DEF SameWork, SameKin, CurrentStep
    <3> QED BY <1>1, <2>3, <3>1, PCsInMid DEF Earlier, EarlyBusy, LateFrames
  <2>4. CASE x.pc = "reread" /\ n = m /\ y.pc = "done"
      BY <1>1, <1>2, <2>1, <2>4, PCsInMid DEF Earlier, EarlyRest
  <2>5. CASE x.pc = "reread" /\ n = m /\ y.pc = "setnext" /\ m.step # Nil /\ y.next \in Targets(m.step)
    <3>1. m.step = c
        BY <2>1, <2>5 DEF CurrentStep
    <3> QED BY <1>1, <1>2, <1>3, <2>1, <2>5, <3>1, PCsInMid DEF Earlier, EarlyBusy
  <2>6. CASE x.pc = "setnext" /\ y.pc = "load" /\ n = UpdateRunState(m, "running", x.next)
    <3>1. n.state = "running" /\ n.step = x.next /\ n.frames = m.frames /\ n.start = m.start
        BY <2>6, StateWritten DEF SameKin
    <3>2. CurrentStep(n) \in E => c \in E
        BY <2>6, <3>1, NilIsNone DEF EarlyBusy, CurrentStep
    <3> QED BY <1>1, <2>6, <3>1, <3>2, PCsInMid DEF Earlier, EarlyRest, LateFrames
  <2> QED BY <1>4, <2>2, <2>3, <2>4, <2>5, <2>6 DEF WakeMove
<1>5. CASE QuietMove(x, y, c) /\ n = m
  <2>1. CurrentStep(m) = c /\ y.pc \notin {"undo", "markfailed"}
      BY <1>5 DEF EarlyBusy, QuietMove, Answers
  <2>2. y.pc = "setnext" => y.next \in Targets(c)
      BY <1>5 DEF QuietMove, Answers, Targets
  <2> QED BY <1>1, <1>2, <1>3, <1>5, <2>1, <2>2 DEF Earlier, EarlyBusy, EarlyRest
<1>6. CASE EndMove(x, y, m, n, c)
  <2>1. y.pc \notin MidPC
      BY <1>6, PCsInMid DEF EndMove
  <2>2. IsTerminal(n) /\ n.frames = m.frames
    <3>1. n = MarkRunFailed(m, c) => IsTerminal(n) /\ n.frames = m.frames
        BY FailWritten
    <3>2. \A st, z : n = UpdateRunState(m, st, z) => n.state = st /\ n.frames = m.frames
        BY StateWritten
    <3> QED BY <1>6, <3>1, <3>2 DEF EndMove, IsTerminal, Terminal
  <2>3. n.state # "absent"
      BY <2>2 DEF IsTerminal, Terminal
  <2> QED BY <2>1, <2>2, <2>3 DEF Earlier, EarlyRest, LateFrames
<1>7. CASE PauseMove(x, y, m, n, c)
  <2>1. CurrentStep(m) = c /\ y.pc \notin {"undo", "markfailed", "setnext"}
      BY <1>7 DEF EarlyBusy, PauseMove
  <2>2. Def[c].deadline \in BOOLEAN
      BY DefAssumption DEF StepDef
  <2>3. n.state # "absent" /\ n.frames = m.frames /\ CurrentStep(n) = c
    <3>1. ASSUME n = MarkAwaitingAction(m, c, x.snap.attempt + 1)
          PROVE  n.state # "absent" /\ n.frames = m.frames /\ CurrentStep(n) = c
        BY <1>2, <2>1, <3>1, ActionWritten DEF SameKin, CurrentStep
    <3>2. ASSUME n = UpdateRunState(m, "paused", c)
          PROVE  n.state # "absent" /\ n.frames = m.frames /\ CurrentStep(n) = c
        BY <1>2, <3>2, StateWritten DEF CurrentStep
    <3>3. ASSUME \/ n = SetPausedWithWakeup(m)
                 \/ n = SetPausedAwaitingSignal(m, Def[c].name, Def[c].deadline)
                 \/ n = SetPausedAwaitingEvent(m, Def[c].name, Def[c].deadline)
          PROVE  n.state # "absent" /\ n.frames = m.frames /\ CurrentStep(n) = c
      <4>1. n.state = "paused" /\ SameWork(m, n) /\ SameKin(m, n)
        <5>1. CASE n = SetPausedWithWakeup(m)
            BY <2>2, <5>1, PausesWritten
        <5>2. CASE n = SetPausedAwaitingSignal(m, Def[c].name, Def[c].deadline)
            BY <2>2, <5>2, PausesWritten
        <5>3. CASE n = SetPausedAwaitingEvent(m, Def[c].name, Def[c].deadline)
            BY <2>2, <5>3, PausesWritten
        <5> QED BY <3>3, <5>1, <5>2, <5>3
      <4> QED BY <2>1, <4>1 DEF SameWork, SameKin, CurrentStep
    <3> QED BY <1>7, <3>1, <3>2, <3>3 DEF PauseMove
  <2> QED BY <1>1, <2>1, <2>3 DEF Earlier, EarlyBusy, EarlyRest, LateFrames
<1>8. CASE FailMove(x, y, m, n, c)
  <2>1. CASE /\ x.pc = "exec" /\ Def[c].type = "try" /\ Answers(y, c)
             /\ n = PushTryCatch(m, Def[c].catch)
    <3>1. CurrentStep(m) = c /\ Def[c].catch \notin E
        BY <2>1 DEF EarlyBusy, GatesFirst
    <3>2. n.state # "absent" /\ CurrentStep(n) = c
        BY <1>2, <2>1, <3>1, FramesWritten DEF SameKin, CurrentStep
    <3>3. n.frames = Append(m.frames, Def[c].catch)
        BY <2>1 DEF PushTryCatch, RunRecord
    <3>4. LateFrames(E, n)
        BY <1>2, <3>1, <3>3 DEF LateFrames
    <3>5. y.pc \in {"done", "setnext"} /\ (y.pc = "setnext" => y.next \in Targets(c))
        BY <2>1 DEF Answers, Targets
    <3> QED BY <1>1, <1>3, <3>2, <3>4, <3>5, PCsInMid DEF Earlier, EarlyBusy, EarlyRest
  <2>2. CASE /\ x.pc = "fail" /\ m.frames # <<>> /\ y.pc = "setnext" /\ y.next = TopFrame(m)
             /\ n = PopTryCatch(m)
    <3>1. CurrentStep(m) = c
        BY <2>2 DEF EarlyBusy
    <3>2. n.state # "absent" /\ CurrentStep(n) = c
        BY <1>2, <2>2, <3>1, FramesWritten DEF SameKin, CurrentStep
    <3>3. n.frames = SubSeq(m.frames, 1, Len(m.frames) - 1)
        BY <2>2 DEF PopTryCatch, RunRecord
    <3>4. /\ Len(m.frames) \in DOMAIN m.frames
          /\ DOMAIN n.frames \subseteq DOMAIN m.frames /\ \A i \in DOMAIN n.frames : n.frames[i] = m.frames[i]
        BY <1>2, <2>2, <3>3
    <3>5. LateFrames(E, n) /\ y.next \in Step \ E
        BY <1>2, <2>2, <3>4 DEF LateFrames, TopFrame
    <3> QED BY <1>1, <2>2, <3>2, <3>5, PCsInMid DEF Earlier, EarlyBusy
  <2>3. CASE x.pc = "fail" /\ y.pc \in {"rollback", "markfailed"} /\ n = m
      BY <1>1, <1>2, <2>3, PCsInMid DEF Earlier, EarlyBusy
  <2>4. CASE x.pc = "rollback" /\ y.pc = "undo" /\ n = UpdateRunState(m, "compensating", x.snap.step)
    <3>1. n.state = "compensating" /\ n.frames = m.frames
        BY <2>4, StateWritten
    <3> QED BY <1>1, <2>4, <3>1, PCsInMid DEF Earlier, EarlyBusy, LateFrames
  <2>5. CASE x.pc = "undo" /\ y.pc \in {"undo", "markfailed"} /\ n = m
      BY <1>1, <1>2, <2>5, PCsInMid DEF Earlier, EarlyBusy
  <2> QED BY <1>8, <2>1, <2>2, <2>3, <2>4, <2>5 DEF FailMove
<1>9. CASE DispatchMove(x, y, m, n, c)
  <2>1. n.state = "running" /\ n.frames = m.frames /\ CurrentStep(n) = c
      BY <1>2, <1>9, StateWritten DEF DispatchMove, CurrentStep
  <2> QED BY <1>1, <1>9, <2>1, PCsInMid DEF DispatchMove, Earlier, EarlyBusy, LateFrames
<1> QED BY <1>4, <1>5, <1>6, <1>7, <1>8, <1>9 DEF OwnMove

LEMMA EarlyAdvance ==
    ASSUME NEW E, GatesFirst(E), BaseInv, EarlyInv(E), OneAdvancePerRun', NEW t \in Worker,
           AdvanceStep(t), Logs(t)
    PROVE  EarlyInv(E)' /\ (StepOf(t) \in E => Early(E, log'[th[t].run]))
<1> DEFINE q == th[t].run
           c == StepOf(t)
<1>1. th[t].pc \in MidPC /\ Stays(t) /\ OwnMove(th[t], th'[t], Self(t), runs'[q], c)
    BY DEF AdvanceStep
<1>2. Self(t) = runs[q] /\ Self(t) \in RunRecord /\ c \in Step /\ q \in Run
    BY <1>1, OwnFacts
<1>3. log \in [Run -> Seq(Step)] /\ log[q] \in Seq(Step)
    BY <1>2 DEF BaseInv, TypeOK
<1>4. EarlyBusy(E, th[t], runs[q], log[q], c) /\ LateFrames(E, runs[q])
    BY <1>1, <1>2 DEF EarlyInv
<1>5. /\ log'[q] = log[q] \/ (th[t].pc \notin RollPC /\ log'[q] = Append(log[q], c))
      /\ \A r \in Run : r # q => log'[r] = log[r]
  <2>1. CASE th[t].pc \in RollPC
    <3>1. log' = log
        BY <2>1 DEF Logs, Catch, Uncaught, StartRollback, Undo, RolledBack, MarkFailed
    <3> QED BY <3>1
  <2>2. CASE th[t].pc \notin RollPC
    <3>1. CurrentStep(runs[q]) = c
        BY <1>4, <2>2 DEF EarlyBusy, RollPC
    <3>2. Self(t).step \in Step => Self(t).step = c
        BY <1>2, <3>1, NilIsNone DEF CurrentStep
    <3> QED BY <2>2, <3>2 DEF Logs
  <2> QED BY <2>1, <2>2
<1>6. Earlier(E, th'[t], runs'[q], log'[q], c)
  <2> HIDE DEF q, c
  <2> QED BY <1>1, <1>2, <1>3, <1>4, <1>5, EarlyMoves
<1>7. c \in E => Early(E, log'[q])
  <2> HIDE DEF q, c
  <2>1. c \in E /\ log'[q] = Append(log[q], c) => Early(E, log'[q])
      BY <1>3, <1>4 DEF EarlyBusy, Early
  <2> QED BY <1>4, <1>5, <2>1 DEF EarlyBusy
<1> HIDE DEF q, c
<1>8. ASSUME NEW u \in Worker, u # t, th[u].pc \in MidPC
      PROVE  th'[u] = th[u] /\ th[u].run \in Run /\ th[u].run # q /\ runs'[th[u].run] = runs[th[u].run]
    BY <1>8, OthersKept, MidPCs DEF HasLock, EarlyInv, q
<1>9. \A u \in Worker : u # t => th'[u] = th[u]
    BY WorkerIsNoCaller DEF AdvanceStep, OnlyThread
<1>10. th'[t].run = q /\ StepOf(t)' = c
    BY <1>1 DEF Stays, StepOf, q, c
<1>11. ASSUME NEW u \in Worker, th'[u].pc \in MidPC
       PROVE  EarlyBusy(E, th'[u], runs'[th'[u].run], log'[th'[u].run], StepOf(u)')
  <2>1. CASE u = t
      BY <1>6, <1>10, <1>11, <2>1 DEF Earlier
  <2>2. CASE u # t
    <3>1. th'[u] = th[u]
        BY <1>9, <2>2
    <3>2. runs'[th[u].run] = runs[th[u].run] /\ log'[th[u].run] = log[th[u].run]
        BY <1>5, <1>8, <1>11, <2>2, <3>1
    <3>3. StepOf(u)' = StepOf(u)
        BY <3>1 DEF StepOf
    <3>4. EarlyBusy(E, th[u], runs[th[u].run], log[th[u].run], StepOf(u))
        BY <1>11, <3>1 DEF EarlyInv
    <3> QED BY <3>1, <3>2, <3>3, <3>4
  <2> QED BY <2>1, <2>2
<1>12. ASSUME NEW r \in Run
       PROVE  LateFrames(E, runs'[r]) /\ (AtRest(r)' => EarlyRest(E, runs'[r], log'[r]))
  <2>1. CASE r = q
    <3>1. AtRest(r)' => th'[t].pc \notin MidPC
        BY <1>10, <2>1 DEF AtRest
    <3> QED BY <1>6, <2>1, <3>1 DEF Earlier
  <2>2. CASE r # q
    <3>1. log'[r] = log[r] /\ LateFrames(E, runs[r])
        BY <1>5, <2>2 DEF EarlyInv
    <3>2. AtRest(r)' => AtRest(r)
        BY <1>9, <2>2 DEF AtRest, q
    <3>3. CASE runs'[r] = runs[r]
        BY <3>1, <3>2, <3>3 DEF EarlyInv
    <3>4. CASE Spawns(t, r)
      <4>1. PICK s \in Step : runs'[r] = SpawnChildRun(s, q, c)
          BY <3>4 DEF Spawns, q, c
      <4>2. runs'[r].state = "pending" /\ runs'[r].frames = <<>> /\ runs[r].state = "absent"
          BY <3>4, <4>1 DEF SpawnChildRun, NewSagaRun, Absent, Spawns
      <4>3. AtRest(r)' => log'[r] = <<>>
          BY <3>1, <3>2, <4>2 DEF EarlyInv, EarlyRest
      <4>4. Early(E, <<>>)
          BY DEF Early
      <4>5. LateFrames(E, runs'[r])
          BY <4>2 DEF LateFrames
      <4> QED BY <4>2, <4>3, <4>4, <4>5 DEF EarlyRest
    <3> QED BY <2>2, <3>3, <3>4 DEF AdvanceStep, q
  <2> QED BY <2>1, <2>2
<1> QED BY <1>7, <1>11, <1>12 DEF EarlyInv, q, c

LEMMA EarlyLoad ==
    ASSUME NEW E, BaseInv, EarlyInv(E), OneAdvancePerRun', NEW t \in Worker, LoadStep(t), LogsKept
    PROVE  EarlyInv(E)'
<1> DEFINE q == th[t].run
           m == Self(t)
<1>1. /\ th[t].pc = "load" /\ UNCHANGED <<runs, log>>
      /\ th'[t].run = q /\ th'[t].snap = m /\ th'[t].pc = AfterLoad(m)
    BY DEF LoadStep, LogsKept
<1>2. \A u \in Worker : u # t => th'[u] = th[u]
    BY WorkerIsNoCaller DEF LoadStep, OnlyThread
<1>3. q \in Run /\ m = runs[q] /\ m.state # "absent"
  <2>1. q \in Known
      BY <1>1, WorkerIsNoCaller DEF BaseInv, WorkedOnKnown
  <2> QED BY <2>1 DEF Known, Self
<1>4. AtRest(q)
  <2> SUFFICES ASSUME NEW u \in Worker, th[u].run = q, th[u].pc \in MidPC PROVE FALSE
      BY DEF AtRest
  <2>1. HasLock(u) /\ HasLock(t) /\ u # t
      BY <1>1, MidPCs DEF HasLock
  <2> QED BY <2>1 DEF EarlyInv, OneAdvancePerRun
<1>5. EarlyRest(E, m, log[q])
    BY <1>3, <1>4 DEF EarlyInv
<1>6. StepOf(t)' = CurrentStep(m)
    BY <1>1 DEF StepOf
<1>7. th'[t].pc \in MidPC => EarlyBusy(E, th'[t], m, log[q], CurrentStep(m))
  <2> HIDE DEF m, q
  <2> SUFFICES ASSUME th'[t].pc \in MidPC PROVE EarlyBusy(E, th'[t], m, log[q], CurrentStep(m))
      OBVIOUS
  <2>1. ~IsTerminal(m) /\ th'[t].pc \in {"dispatch", "children", "clear"}
      BY <1>1, LoadPlaces, MidPCs
  <2> QED BY <1>3, <1>5, <2>1 DEF EarlyRest, EarlyBusy
<1> HIDE DEF m, q
<1>8. ASSUME NEW u \in Worker, th'[u].pc \in MidPC
      PROVE  EarlyBusy(E, th'[u], runs'[th'[u].run], log'[th'[u].run], StepOf(u)')
  <2>1. CASE u = t
      BY <1>1, <1>3, <1>6, <1>7, <1>8, <2>1
  <2>2. CASE u # t
    <3>1. th'[u] = th[u] /\ StepOf(u)' = StepOf(u)
        BY <1>2, <2>2 DEF StepOf
    <3> QED BY <1>1, <1>8, <3>1 DEF EarlyInv
  <2> QED BY <2>1, <2>2
<1>9. ASSUME NEW r \in Run, AtRest(r)' PROVE EarlyRest(E, runs'[r], log'[r])
  <2>1. CASE r = q
      BY <1>1, <1>3, <1>5, <2>1
  <2>2. CASE r # q
    <3>1. AtRest(r)
        BY <1>2, <1>9, <2>2 DEF AtRest, q
    <3> QED BY <1>1, <3>1 DEF EarlyInv
  <2> QED BY <2>1, <2>2
<1>10. \A r \in Run : LateFrames(E, runs'[r])
    BY <1>1 DEF EarlyInv
<1> QED BY <1>8, <1>9, <1>10 DEF EarlyInv

LEMMA EarlyAside ==
    ASSUME NEW E, MaxAborts = 0, Caller = {}, "report" \notin Faults, BaseInv, EarlyInv(E),
           OneAdvancePerRun', AsideStep, LogsKept
    PROVE  EarlyInv(E)'
<1>1. UNCHANGED log
    BY DEF LogsKept
<1>2. ASSUME NEW r \in Run
      PROVE  /\ runs'[r].state = runs[r].state /\ runs'[r].frames = runs[r].frames
             /\ CurrentStep(runs'[r]) = CurrentStep(runs[r])
    BY SideStates, SideKeeps DEF AsideStep, SameWork, SameKin, CurrentStep
<1>3. ~(aborts < MaxAborts)
    BY DEF BaseInv, TypeOK
<1>4. ASSUME NEW u \in Worker, th[u].pc \in MidPC \/ th'[u].pc \in MidPC
      PROVE  th'[u] = th[u]
    BY <1>3, <1>4 DEF AsideStep, LeavesAside
<1>5. ASSUME NEW u \in Worker, th'[u].pc \in MidPC
      PROVE  EarlyBusy(E, th'[u], runs'[th'[u].run], log'[th'[u].run], StepOf(u)')
  <2>1. th'[u] = th[u] /\ StepOf(u)' = StepOf(u) /\ th[u].run \in Run
      BY <1>4, <1>5, OwnFacts DEF StepOf
  <2>2. EarlyBusy(E, th[u], runs[th[u].run], log[th[u].run], StepOf(u))
      BY <1>5, <2>1 DEF EarlyInv
  <2> QED BY <1>1, <1>2, <2>1, <2>2 DEF EarlyBusy
<1>6. ASSUME NEW r \in Run, AtRest(r)' PROVE EarlyRest(E, runs'[r], log'[r])
  <2>1. AtRest(r)
      BY <1>4, <1>6 DEF AtRest
  <2>2. EarlyRest(E, runs[r], log[r])
      BY <2>1 DEF EarlyInv
  <2> QED BY <1>1, <1>2, <2>2 DEF EarlyRest, IsTerminal
<1>7. \A r \in Run : LateFrames(E, runs'[r])
    BY <1>2 DEF EarlyInv, LateFrames
<1> QED BY <1>5, <1>6, <1>7 DEF EarlyInv

-----------------------------------------------------------------------------
ToUndo(c) == {s \in Step : s # c /\ Def[s].comp}

\* u has the members of l in S from behind, as far as position n.
Undoing(u, l, S, n) ==
    \E pos \in [DOMAIN u -> DOMAIN l] :
        /\ \A i \in DOMAIN u : u[i] = l[pos[i]]
        /\ \A i, j \in DOMAIN u : i < j => pos[i] > pos[j]
        /\ \A k \in DOMAIN l : (l[k] \in S /\ k > n) <=> \E i \in DOMAIN u : pos[i] = k

LEMMA NothingUndone ==
    ASSUME NEW l \in Seq(Step), NEW S, NEW n \in Nat, \A k \in DOMAIN l : ~(l[k] \in S /\ k > n)
    PROVE  Undoing(<<>>, l, S, n)
<1> DEFINE pos == [i \in DOMAIN <<>> |-> CHOOSE k \in DOMAIN l : TRUE]
<1>1. DOMAIN <<>> = {}
    OBVIOUS
<1>2. pos \in [DOMAIN <<>> -> DOMAIN l]
    BY <1>1
<1> HIDE DEF pos
<1> QED BY <1>1, <1>2 DEF Undoing

LEMMA OneMoreUndone ==
    ASSUME NEW u \in Seq(Step), NEW l \in Seq(Step), NEW S, NEW n \in DOMAIN l, l[n] \in S,
           Undoing(u, l, S, n)
    PROVE  Undoing(Append(u, l[n]), l, S, n - 1)
<1>1. PICK pos \in [DOMAIN u -> DOMAIN l] :
        /\ \A i \in DOMAIN u : u[i] = l[pos[i]]
        /\ \A i, j \in DOMAIN u : i < j => pos[i] > pos[j]
        /\ \A k \in DOMAIN l : (l[k] \in S /\ k > n) <=> \E i \in DOMAIN u : pos[i] = k
    BY DEF Undoing
<1> DEFINE v == Append(u, l[n])
           new == [i \in DOMAIN v |-> IF i \in DOMAIN u THEN pos[i] ELSE n]
<1>2. /\ DOMAIN u = 1 .. Len(u) /\ DOMAIN v = 1 .. (Len(u) + 1) /\ Len(u) \in Nat
      /\ \A i \in DOMAIN u : v[i] = u[i]
      /\ v[Len(u) + 1] = l[n]
    OBVIOUS
<1>3. DOMAIN l = 1 .. Len(l) /\ Len(l) \in Nat /\ n \in Nat
    OBVIOUS
<1> HIDE DEF v
<1>4. /\ new \in [DOMAIN v -> DOMAIN l]
      /\ \A i \in DOMAIN u : i \in DOMAIN v /\ new[i] = pos[i]
      /\ Len(u) + 1 \in DOMAIN v /\ new[Len(u) + 1] = n
    BY <1>2
<1> HIDE DEF new
<1>5. \A i \in DOMAIN v : i \in DOMAIN u \/ i = Len(u) + 1
    BY <1>2
<1>6. \A i \in DOMAIN v : v[i] = l[new[i]]
    BY <1>1, <1>2, <1>4, <1>5
<1>7. \A i \in DOMAIN u : pos[i] > n /\ pos[i] \in DOMAIN l
    BY <1>1
<1>8. ASSUME NEW i \in DOMAIN v, NEW j \in DOMAIN v, i < j PROVE new[i] > new[j]
  <2>1. i \in DOMAIN u
      BY <1>2, <1>5, <1>8
  <2>2. CASE j \in DOMAIN u
      BY <1>1, <1>4, <1>8, <2>1, <2>2
  <2>3. CASE j = Len(u) + 1
      BY <1>4, <1>7, <2>1, <2>3
  <2> QED BY <1>5, <2>2, <2>3
<1>9. ASSUME NEW k \in DOMAIN l
      PROVE  (l[k] \in S /\ k > n - 1) <=> \E i \in DOMAIN v : new[i] = k
  <2>1. k > n - 1 <=> (k > n \/ k = n)
      BY <1>3
  <2>2. (\E i \in DOMAIN v : new[i] = k) <=> (k = n \/ \E i \in DOMAIN u : pos[i] = k)
      BY <1>4, <1>5
  <2> QED BY <1>1, <2>1, <2>2
<1> QED BY <1>4, <1>6, <1>8, <1>9 DEF Undoing, v

LEMMA OneSkipped ==
    ASSUME NEW u, NEW l \in Seq(Step), NEW S, NEW n \in DOMAIN l, l[n] \notin S, Undoing(u, l, S, n)
    PROVE  Undoing(u, l, S, n - 1)
<1>1. \A k \in DOMAIN l : (l[k] \in S /\ k > n - 1) <=> (l[k] \in S /\ k > n)
    OBVIOUS
<1> QED BY <1>1 DEF Undoing

LEMMA AllUndone ==
    ASSUME NEW u, NEW l \in Seq(Step), NEW S, Undoing(u, l, S, 0)
    PROVE  NewestFirst(u, l, S)
<1>1. \A k \in DOMAIN l : k > 0
    OBVIOUS
<1> QED BY <1>1 DEF Undoing, NewestFirst

\* Run m, compensations u sent and log l while no advance is in the middle of the run.
RolledAtRest(m, u, l) ==
    IF m.state = "failed" THEN NewestFirst(u, l, ToUndo(m.step))
    ELSE m.state # "compensating" /\ u = <<>>

\* The same while goroutine x is in the middle of step c.
RollsBack(x, m, u, l, c) ==
    /\ x.pc \notin {"undo", "markfailed"} => m.state # "compensating" /\ u = <<>>
    /\ x.pc = "rollback" => x.left = l
    /\ x.pc = "undo" => /\ m.state = "compensating"
                        /\ Len(x.left) <= Len(l) /\ \A i \in 1 .. Len(x.left) : x.left[i] = l[i]
                        /\ Undoing(u, l, ToUndo(c), Len(x.left))
    /\ x.pc = "markfailed" => /\ m.state = "compensating" \/ u = <<>>
                              /\ Undoing(u, l, ToUndo(c), 0)

RollInv ==
    /\ OneAdvancePerRun /\ OpenInv
    /\ \A r \in Run : AtRest(r) => RolledAtRest(runs[r], undone[r], log[r])
    /\ \A t \in Worker : th[t].pc \in MidPC =>
          RollsBack(th[t], runs[th[t].run], undone[th[t].run], log[th[t].run], StepOf(t))

Rolled(y, n, v, k, c) ==
    /\ y.pc \in MidPC => RollsBack(y, n, v, k, c)
    /\ y.pc \notin MidPC => RolledAtRest(n, v, k)

\* Outside of a rollback nothing is undone, and no run fails but at a gate.
LEMMA ForwardMoves ==
    ASSUME NEW E, GatesFirst(E), NEW m \in RunRecord, ~IsTerminal(m), NEW n, NEW x, NEW y,
           NEW c \in Step, NEW u, NEW l, NEW k \in Seq(Step), OwnMove(x, y, m, n, c),
           x.pc \in MidPC, x.pc \notin RollPC, RollsBack(x, m, u, l, c), c \in E => Early(E, k)
    PROVE  Rolled(y, n, u, k, c)
<1>1. u = <<>> /\ m.state # "compensating" /\ m.state # "failed"
    BY DEF RollsBack, RollPC, IsTerminal, Terminal
<1>2. y.pc \notin {"rollback", "undo", "markfailed"}
    BY DEF OwnMove, WakeMove, QuietMove, EndMove, PauseMove, FailMove, DispatchMove, Answers, RollPC
<1>3. \/ n.state \notin {"compensating", "failed"}
      \/ c \in E /\ y.pc = "done" /\ n.state = "failed" /\ n.step = c
  <2>1. CASE WakeMove(x, y, m, n)
      BY <1>1, <2>1, MarksCleared, StateWritten DEF WakeMove
  <2>2. CASE QuietMove(x, y, c) /\ n = m
      BY <1>1, <2>2
  <2>3. CASE EndMove(x, y, m, n, c)
    <3>1. \/ n = UpdateRunState(m, "cancelled", c) \/ n = UpdateRunState(m, "succeeded", Nil)
          \/ c \in E /\ y.pc = "done" /\ n = MarkRunFailed(m, c)
        BY <2>3 DEF EndMove, RollPC, GatesFirst
    <3> QED BY <3>1, StateWritten, FailWritten
  <2>4. CASE PauseMove(x, y, m, n, c)
    <3>1. Def[c].deadline \in BOOLEAN
        BY DefAssumption DEF StepDef
    <3>2. n = m \/ n.state = "paused"
      <4>1. n = MarkAwaitingAction(m, c, x.snap.attempt + 1) => n = m \/ n.state = "paused"
          BY ActionWritten
      <4>2. n = UpdateRunState(m, "paused", c) => n.state = "paused"
          BY StateWritten
      <4>3. /\ n = SetPausedWithWakeup(m) => n.state = "paused"
            /\ n = SetPausedAwaitingSignal(m, Def[c].name, Def[c].deadline) => n.state = "paused"
            /\ n = SetPausedAwaitingEvent(m, Def[c].name, Def[c].deadline) => n.state = "paused"
          BY <3>1, PausesWritten
      <4> QED BY <2>4, <4>1, <4>2, <4>3 DEF PauseMove
    <3> QED BY <1>1, <3>2
  <2>5. CASE FailMove(x, y, m, n, c)
    <3>1. n = PushTryCatch(m, Def[c].catch)
        BY <2>5 DEF FailMove, RollPC
    <3> QED BY <1>1, <3>1, FramesWritten
  <2>6. CASE DispatchMove(x, y, m, n, c)
      BY <2>6, StateWritten DEF DispatchMove
  <2> QED BY <2>1, <2>2, <2>3, <2>4, <2>5, <2>6 DEF OwnMove
<1>4. CASE n.state \notin {"compensating", "failed"}
    BY <1>1, <1>2, <1>4 DEF Rolled, RollsBack, RolledAtRest
<1>5. CASE c \in E /\ y.pc = "done" /\ n.state = "failed" /\ n.step = c
  <2>1. \A i \in DOMAIN k : k[i] \in Step /\ k[i] \in E
      BY <1>5 DEF Early
  <2>2. \A i \in DOMAIN k : k[i] \notin ToUndo(c)
      BY <2>1 DEF ToUndo, GatesFirst
  <2>3. NewestFirst(u, k, ToUndo(c))
      BY <1>1, <2>2, NothingUndone, AllUndone
  <2> QED BY <1>5, <2>3, PCsInMid DEF Rolled, RolledAtRest
<1> QED BY <1>3, <1>4, <1>5

LEMMA RollMoves ==
    ASSUME EndsUndoNothing, "undo" \notin Faults, BaseInv, RollInv, NEW t \in Worker, AdvanceStep(t),
           Logs(t), th[t].pc \in RollPC
    PROVE  LET q == th[t].run IN
           /\ Rolled(th'[t], runs'[q], undone'[q], log'[q], StepOf(t))
           /\ log' = log /\ \A r \in Run : r # q => undone'[r] = undone[r]
<1> DEFINE q == th[t].run
           c == StepOf(t)
           m == Self(t)
           u == undone[q]
           l == log[q]
<1>1. /\ th[t].pc \in MidPC /\ m = runs[q] /\ m \in RunRecord /\ q \in Run /\ c \in Step
      /\ th[t] \in ThreadRecord /\ Def[c] \in StepDef
    BY OwnFacts DEF AdvanceStep
<1>2. /\ undone \in [Run -> Seq(Step)] /\ log \in [Run -> Seq(Step)]
      /\ th \in [Thread -> ThreadRecord] /\ t \in Thread
    BY WorkerIsNoCaller DEF BaseInv, TypeOK
<1>3. RollsBack(th[t], m, u, l, c) /\ ~IsTerminal(m)
    BY <1>1 DEF RollInv, OpenInv
<1>4. OwnMove(th[t], th'[t], m, runs'[q], c)
    BY DEF AdvanceStep
<1>5. u \in Seq(Step) /\ l \in Seq(Step)
    BY <1>1, <1>2
<1>6. \A s \in Step : (Completed(s, c) /\ Def[s].comp) <=> s \in ToUndo(c)
    BY DEF Completed, ToUndo, EndsUndoNothing
<1> HIDE DEF m, c, u, l, q
<1>7. CASE Catch(t)
  <2>1. UNCHANGED <<log, undone>> /\ runs'[q] = PopTryCatch(m) /\ th'[t].pc = "setnext"
    <3>1. th'[t] = [th[t] EXCEPT !.pc = "setnext", !.next = TopFrame(m)]
        BY <1>2, <1>7 DEF Catch, m
    <3>2. th'[t].pc = "setnext"
        BY <1>1, <3>1 DEF ThreadRecord
    <3>3. Write(t, PopTryCatch(m)) /\ th[t].pc # "idle"
        BY <1>7 DEF Catch, m
    <3>4. runs'[q] = PopTryCatch(m)
        BY <1>2, <3>3, Written DEF q
    <3> QED BY <1>7, <3>2, <3>4 DEF Catch
  <2>2. u = <<>> /\ m.state # "compensating" /\ th[t].pc = "fail"
      BY <1>3, <1>7 DEF RollsBack, Catch
  <2>3. runs'[q].state = m.state
      BY <1>1, <2>1, FramesWritten
  <2>4. RollsBack(th'[t], runs'[q], undone'[q], log'[q], c)
      BY <2>1, <2>2, <2>3 DEF RollsBack, u
  <2> QED BY <2>1, <2>4, PCsInMid DEF Rolled, q, c
<1>8. CASE Uncaught(t)
  <2>1. UNCHANGED <<log, undone, runs>> /\ th[t].pc = "fail"
      BY <1>8 DEF Uncaught
  <2>2. u = <<>> /\ m.state # "compensating"
      BY <1>3, <2>1 DEF RollsBack
  <2>3. PICK pc \in {"rollback", "markfailed"} :
          /\ th' = [th EXCEPT ![t].pc = pc, ![t].left = l]
          /\ pc = "rollback" <=> \E i \in DOMAIN l : Completed(l[i], c)
      BY <1>8 DEF Uncaught, l, c, q
  <2>4. th'[t] = [th[t] EXCEPT !.pc = pc, !.left = l]
      BY <1>2, <2>3
  <2>5. th'[t].pc = pc /\ th'[t].left = l
      BY <1>1, <2>4 DEF ThreadRecord
  <2>6. pc = "markfailed" => Undoing(u, l, ToUndo(c), 0)
    <3>1. ASSUME pc = "markfailed", NEW k \in DOMAIN l PROVE l[k] \notin ToUndo(c)
        BY <1>5, <1>6, <2>3, <3>1 DEF ToUndo
    <3> QED BY <1>5, <2>2, <3>1, NothingUndone
  <2>7. RollsBack(th'[t], m, u, l, c)
      BY <2>2, <2>5, <2>6 DEF RollsBack
  <2>8. runs'[q] = m /\ undone'[q] = u /\ log'[q] = l
      BY <1>1, <2>1 DEF u, l
  <2> QED BY <2>1, <2>5, <2>7, <2>8, PCsInMid DEF Rolled, q, c
<1>9. CASE StartRollback(t)
  <2>1. UNCHANGED <<log, undone>> /\ th[t].pc = "rollback"
      BY <1>9 DEF StartRollback
  <2>2. u = <<>> /\ th[t].left = l
      BY <1>3, <2>1 DEF RollsBack
  <2>3. th'[t] = [th[t] EXCEPT !.pc = "undo"]
      BY <1>2, <1>9 DEF StartRollback, Go
  <2>4. th'[t].pc = "undo" /\ th'[t].left = l
      BY <1>1, <2>2, <2>3 DEF ThreadRecord
  <2>5. runs'[q].state = "compensating"
    <3>1. Write(t, UpdateRunState(m, "compensating", th[t].snap.step)) /\ th[t].pc # "idle"
        BY <1>9 DEF StartRollback, m
    <3>2. runs'[q] = UpdateRunState(m, "compensating", th[t].snap.step)
        BY <1>2, <3>1, Written DEF q
    <3> QED BY <1>1, <3>2, StateWritten
  <2>6. Undoing(u, l, ToUndo(c), Len(l))
    <3>1. \A k \in DOMAIN l : ~(k > Len(l)) /\ Len(l) \in Nat
        BY <1>5
    <3> QED BY <1>5, <2>2, <3>1, NothingUndone
  <2>7. Len(l) <= Len(l) /\ undone'[q] = u /\ log'[q] = l
      BY <1>5, <2>1 DEF u, l
  <2>8. RollsBack(th'[t], runs'[q], undone'[q], log'[q], c)
      BY <2>4, <2>5, <2>6, <2>7 DEF RollsBack
  <2> QED BY <2>1, <2>4, <2>8, PCsInMid DEF Rolled, q, c
<1>10. CASE Undo(t)
  <2> DEFINE n == Len(th[t].left)
  <2>1. UNCHANGED <<log, runs>> /\ th[t].pc = "undo" /\ th[t].left # <<>>
      BY <1>10 DEF Undo
  <2>2. /\ m.state = "compensating" /\ n <= Len(l) /\ \A i \in 1 .. n : th[t].left[i] = l[i]
        /\ Undoing(u, l, ToUndo(c), n)
      BY <1>3, <2>1 DEF RollsBack
  <2>3. th[t].left \in Seq(Step)
      BY <1>1 DEF ThreadRecord
  <2>4. n \in Nat /\ n > 0 /\ n \in DOMAIN l /\ th[t].left[n] = l[n] /\ l[n] \in Step
      BY <1>5, <2>1, <2>2, <2>3
  <2>5. th'[t] = [th[t] EXCEPT !.left = SubSeq(th[t].left, 1, n - 1)]
      BY <1>2, <1>10 DEF Undo
  <2>6. th'[t].pc = "undo" /\ th'[t].left = SubSeq(th[t].left, 1, n - 1)
      BY <1>1, <2>1, <2>5 DEF ThreadRecord
  <2>7. Len(th'[t].left) = n - 1 /\ \A i \in 1 .. (n - 1) : th'[t].left[i] = l[i]
      BY <2>2, <2>3, <2>4, <2>6
  <2>8. \/ l[n] \in ToUndo(c) /\ undone' = [undone EXCEPT ![q] = Append(u, l[n])]
        \/ l[n] \notin ToUndo(c) /\ undone' = undone
      BY <1>6, <1>10, <2>4 DEF Undo, c, q, u
  <2>9. Undoing(undone'[q], l, ToUndo(c), n - 1) /\ \A r \in Run : r # q => undone'[r] = undone[r]
    <3>1. CASE l[n] \in ToUndo(c)
      <4>1. undone'[q] = Append(u, l[n]) /\ \A r \in Run : r # q => undone'[r] = undone[r]
          BY <1>1, <1>2, <2>8, <3>1
      <4>2. Undoing(Append(u, l[n]), l, ToUndo(c), n - 1)
        <5> HIDE DEF n
        <5> QED BY <1>5, <2>2, <2>4, <3>1, OneMoreUndone
      <4> QED BY <4>1, <4>2
    <3>2. CASE l[n] \notin ToUndo(c)
      <4>1. undone'[q] = u /\ undone' = undone
          BY <2>8, <3>2 DEF u
      <4>2. Undoing(u, l, ToUndo(c), n - 1)
        <5> HIDE DEF n
        <5> QED BY <1>5, <2>2, <2>4, <3>2, OneSkipped
      <4> QED BY <4>1, <4>2
    <3> QED BY <3>1, <3>2
  <2>10. runs'[q] = m /\ log'[q] = l /\ n - 1 <= Len(l)
      BY <1>1, <1>5, <2>1, <2>2, <2>4 DEF l
  <2>11. RollsBack(th'[t], runs'[q], undone'[q], log'[q], c)
      BY <2>2, <2>6, <2>7, <2>9, <2>10 DEF RollsBack
  <2> QED BY <2>1, <2>6, <2>9, <2>11, PCsInMid DEF Rolled, q, c
<1>11. CASE RolledBack(t)
  <2>1. UNCHANGED <<log, undone, runs>> /\ th[t].pc = "undo" /\ th[t].left = <<>>
      BY <1>11 DEF RolledBack
  <2>2. m.state = "compensating" /\ Undoing(u, l, ToUndo(c), 0)
      BY <1>3, <2>1 DEF RollsBack
  <2>3. th'[t].pc = "markfailed"
      BY <1>2, <1>11, Places DEF RolledBack
  <2>4. runs'[q] = m /\ undone'[q] = u /\ log'[q] = l
      BY <1>1, <2>1 DEF u, l
  <2>5. RollsBack(th'[t], m, u, l, c)
      BY <2>2, <2>3 DEF RollsBack
  <2> QED BY <2>1, <2>3, <2>4, <2>5, PCsInMid DEF Rolled, q, c
<1>12. CASE MarkFailed(t)
  <2>1. UNCHANGED <<log, undone>> /\ th[t].pc = "markfailed"
      BY <1>12 DEF MarkFailed
  <2>2. NewestFirst(u, l, ToUndo(c))
      BY <1>3, <1>5, <2>1, AllUndone DEF RollsBack
  <2>3. runs'[q].state = "failed" /\ runs'[q].step = c
    <3>1. Write(t, MarkRunFailed(m, c)) /\ th[t].pc # "idle"
        BY <1>12 DEF MarkFailed, m, c
    <3>2. runs'[q] = MarkRunFailed(m, c)
        BY <1>2, <3>1, Written DEF q
    <3> QED BY <1>1, <1>3, <3>2, FailWritten
  <2>4. th'[t].pc \in {"done", "barrier"}
      BY <1>4, <2>1 DEF OwnMove, WakeMove, QuietMove, EndMove, PauseMove, FailMove, DispatchMove
  <2>5. undone'[q] = u /\ log'[q] = l
      BY <2>1 DEF u, l
  <2>6. RolledAtRest(runs'[q], undone'[q], log'[q])
      BY <2>2, <2>3, <2>5 DEF RolledAtRest
  <2> QED BY <2>1, <2>4, <2>6, PCsInMid DEF Rolled, q, c
<1> QED BY <1>7, <1>8, <1>9, <1>10, <1>11, <1>12 DEF Logs

LEMMA RollAdvance ==
    ASSUME NEW E, GatesFirst(E), EndsUndoNothing, "undo" \notin Faults, BaseInv, BaseInv', RollInv,
           OneAdvancePerRun', OpenInv', NEW t \in Worker, AdvanceStep(t), Logs(t),
           StepOf(t) \in E => Early(E, log'[th[t].run])
    PROVE  RollInv'
<1> DEFINE q == th[t].run
           c == StepOf(t)
<1>1. th[t].pc \in MidPC /\ Stays(t) /\ OwnMove(th[t], th'[t], Self(t), runs'[q], c)
    BY DEF AdvanceStep
<1>2. Self(t) = runs[q] /\ Self(t) \in RunRecord /\ c \in Step /\ q \in Run
    BY <1>1, OwnFacts
<1>3. RollsBack(th[t], runs[q], undone[q], log[q], c) /\ ~IsTerminal(runs[q])
    BY <1>1 DEF RollInv, OpenInv
<1>4. /\ Rolled(th'[t], runs'[q], undone'[q], log'[q], c)
      /\ \A r \in Run : r # q => undone'[r] = undone[r] /\ log'[r] = log[r]
  <2>1. CASE th[t].pc \in RollPC
      BY <2>1, RollMoves
  <2>2. CASE th[t].pc \notin RollPC
    <3>1. undone' = undone /\ \A r \in Run : r # q => log'[r] = log[r]
        BY <2>2 DEF Logs
    <3>2. log'[q] \in Seq(Step) /\ (c \in E => Early(E, log'[q]))
        BY <1>2 DEF BaseInv, TypeOK
    <3> HIDE DEF q, c
    <3>3. Rolled(th'[t], runs'[q], undone[q], log'[q], c)
        BY <1>1, <1>2, <1>3, <2>2, <3>2, ForwardMoves
    <3> QED BY <3>1, <3>3
  <2> QED BY <2>1, <2>2
<1> HIDE DEF q, c
<1>5. ASSUME NEW u \in Worker, u # t, th[u].pc \in MidPC
      PROVE  th'[u] = th[u] /\ th[u].run \in Run /\ th[u].run # q /\ runs'[th[u].run] = runs[th[u].run]
    BY <1>5, OthersKept, MidPCs DEF HasLock, RollInv, q
<1>6. \A u \in Worker : u # t => th'[u] = th[u]
    BY WorkerIsNoCaller DEF AdvanceStep, OnlyThread
<1>7. th'[t].run = q /\ StepOf(t)' = c
    BY <1>1 DEF Stays, StepOf, q, c
<1>8. ASSUME NEW u \in Worker, th'[u].pc \in MidPC
      PROVE  RollsBack(th'[u], runs'[th'[u].run], undone'[th'[u].run], log'[th'[u].run], StepOf(u)')
  <2>1. CASE u = t
      BY <1>4, <1>7, <1>8, <2>1 DEF Rolled
  <2>2. CASE u # t
    <3>1. th'[u] = th[u]
        BY <1>6, <2>2
    <3>2. /\ runs'[th[u].run] = runs[th[u].run] /\ undone'[th[u].run] = undone[th[u].run]
          /\ log'[th[u].run] = log[th[u].run]
        BY <1>4, <1>5, <1>8, <2>2, <3>1
    <3>3. StepOf(u)' = StepOf(u)
        BY <3>1 DEF StepOf
    <3>4. RollsBack(th[u], runs[th[u].run], undone[th[u].run], log[th[u].run], StepOf(u))
        BY <1>8, <3>1 DEF RollInv
    <3> QED BY <3>1, <3>2, <3>3, <3>4
  <2> QED BY <2>1, <2>2
<1>9. ASSUME NEW r \in Run, AtRest(r)' PROVE RolledAtRest(runs'[r], undone'[r], log'[r])
  <2>1. CASE r = q
    <3>1. th'[t].pc \notin MidPC
        BY <1>7, <1>9, <2>1 DEF AtRest
    <3> QED BY <1>4, <2>1, <3>1 DEF Rolled
  <2>2. CASE r # q
    <3>1. undone'[r] = undone[r] /\ log'[r] = log[r]
        BY <1>4, <2>2
    <3>2. AtRest(r)
        BY <1>6, <1>9, <2>2 DEF AtRest, q
    <3>3. RolledAtRest(runs[r], undone[r], log[r])
        BY <3>2 DEF RollInv
    <3>4. CASE runs'[r] = runs[r]
        BY <3>1, <3>3, <3>4
    <3>5. CASE Spawns(t, r)
      <4>1. PICK s \in Step : runs'[r] = SpawnChildRun(s, q, c)
          BY <3>5 DEF Spawns, q, c
      <4>2. runs'[r].state = "pending" /\ runs[r].state = "absent"
          BY <3>5, <4>1 DEF SpawnChildRun, NewSagaRun, Absent, Spawns
      <4> QED BY <3>1, <3>3, <4>2 DEF RolledAtRest
    <3> QED BY <2>2, <3>4, <3>5 DEF AdvanceStep, q
  <2> QED BY <2>1, <2>2
<1> QED BY <1>8, <1>9 DEF RollInv

LEMMA RollLoad ==
    ASSUME BaseInv, RollInv, OneAdvancePerRun', OpenInv', NEW t \in Worker, LoadStep(t), LogsKept
    PROVE  RollInv'
<1> DEFINE q == th[t].run
           m == Self(t)
<1>1. /\ th[t].pc = "load" /\ UNCHANGED <<runs, log, undone>>
      /\ th'[t].run = q /\ th'[t].pc = AfterLoad(m)
    BY DEF LoadStep, LogsKept
<1>2. \A u \in Worker : u # t => th'[u] = th[u]
    BY WorkerIsNoCaller DEF LoadStep, OnlyThread
<1>3. q \in Run /\ m = runs[q]
  <2>1. q \in Known
      BY <1>1, WorkerIsNoCaller DEF BaseInv, WorkedOnKnown
  <2> QED BY <2>1 DEF Known, Self
<1>4. AtRest(q)
  <2> SUFFICES ASSUME NEW u \in Worker, th[u].run = q, th[u].pc \in MidPC PROVE FALSE
      BY DEF AtRest
  <2>1. HasLock(u) /\ HasLock(t) /\ u # t
      BY <1>1, MidPCs DEF HasLock
  <2> QED BY <2>1 DEF RollInv, OneAdvancePerRun
<1>5. RolledAtRest(m, undone[q], log[q])
    BY <1>3, <1>4 DEF RollInv
<1> HIDE DEF m, q
<1>6. ASSUME th'[t].pc \in MidPC, NEW c PROVE RollsBack(th'[t], m, undone[q], log[q], c)
  <2>1. ~IsTerminal(m) /\ th'[t].pc \in {"dispatch", "children", "clear"}
      BY <1>1, <1>6, LoadPlaces, MidPCs
  <2>2. m.state # "failed"
      BY <2>1 DEF IsTerminal, Terminal
  <2> QED BY <1>5, <2>1, <2>2 DEF RolledAtRest, RollsBack
<1>7. ASSUME NEW u \in Worker, th'[u].pc \in MidPC
      PROVE  RollsBack(th'[u], runs'[th'[u].run], undone'[th'[u].run], log'[th'[u].run], StepOf(u)')
  <2>1. CASE u = t
      BY <1>1, <1>3, <1>6, <1>7, <2>1
  <2>2. CASE u # t
    <3>1. th'[u] = th[u] /\ StepOf(u)' = StepOf(u)
        BY <1>2, <2>2 DEF StepOf
    <3> QED BY <1>1, <1>7, <3>1 DEF RollInv
  <2> QED BY <2>1, <2>2
<1>8. ASSUME NEW r \in Run, AtRest(r)' PROVE RolledAtRest(runs'[r], undone'[r], log'[r])
  <2>1. CASE r = q
      BY <1>1, <1>3, <1>5, <2>1
  <2>2. CASE r # q
    <3>1. AtRest(r)
        BY <1>2, <1>8, <2>2 DEF AtRest, q
    <3> QED BY <1>1, <3>1 DEF RollInv
  <2> QED BY <2>1, <2>2
<1> QED BY <1>7, <1>8 DEF RollInv

LEMMA RollAside ==
    ASSUME MaxAborts = 0, Caller = {}, "report" \notin Faults, BaseInv, RollInv, OneAdvancePerRun',
           OpenInv', AsideStep, LogsKept
    PROVE  RollInv'
<1>1. UNCHANGED <<log, undone>>
    BY DEF LogsKept
<1>2. ASSUME NEW r \in Run
      PROVE  runs'[r].state = runs[r].state /\ runs'[r].step = runs[r].step
    BY SideStates DEF AsideStep
<1>3. ~(aborts < MaxAborts)
    BY DEF BaseInv, TypeOK
<1>4. ASSUME NEW u \in Worker, th[u].pc \in MidPC \/ th'[u].pc \in MidPC
      PROVE  th'[u] = th[u]
    BY <1>3, <1>4 DEF AsideStep, LeavesAside
<1>5. ASSUME NEW u \in Worker, th'[u].pc \in MidPC
      PROVE  RollsBack(th'[u], runs'[th'[u].run], undone'[th'[u].run], log'[th'[u].run], StepOf(u)')
  <2>1. th'[u] = th[u] /\ StepOf(u)' = StepOf(u) /\ th[u].run \in Run
      BY <1>4, <1>5, OwnFacts DEF StepOf
  <2>2. RollsBack(th[u], runs[th[u].run], undone[th[u].run], log[th[u].run], StepOf(u))
      BY <1>5, <2>1 DEF RollInv
  <2> QED BY <1>1, <1>2, <2>1, <2>2 DEF RollsBack
<1>6. ASSUME NEW r \in Run, AtRest(r)' PROVE RolledAtRest(runs'[r], undone'[r], log'[r])
  <2>1. AtRest(r)
      BY <1>4, <1>6 DEF AtRest
  <2>2. RolledAtRest(runs[r], undone[r], log[r])
      BY <2>1 DEF RollInv
  <2> QED BY <1>1, <1>2, <2>2 DEF RolledAtRest
<1> QED BY <1>5, <1>6 DEF RollInv

\* When a run has failed, one compensation has been sent for every step that it had
\* completed and that has one, and for no other step, in the reverse of the order in which
\* the steps were completed; a run that has not failed has sent none
\* (compensation.go:125-138).  The rollback is in one process, it is neither cut short
\* nor cancelled, and its commands are not lost; no compensable step comes before one
\* that the licence gate may reject, which fails the run without a rollback
\* (advance.go:230).
THEOREM UndoneNewestFirst ==
    ASSUME OneProcess, MaxAborts = 0, Caller = {}, "report" \notin Faults, "undo" \notin Faults,
           EndsUndoNothing, NEW E, GatesFirst(E)
    PROVE  Spec => []RollbackMirrorsLog
<1> DEFINE I == AwaitInv /\ Roles /\ EarlyInv(E) /\ RollInv
<1>1. Init => I
  <2> SUFFICES ASSUME Init PROVE EarlyInv(E) /\ RollInv
      BY AwaitInit, RolesInit
  <2>1. \A t \in Worker : th[t].pc = "idle"
      BY WorkerIsNoCaller DEF Init, CoordinatorInit, Idle
  <2>2. \A t \in Worker : th[t].pc \notin MidPC
      BY <2>1, MidPCs
  <2>3. ASSUME NEW r \in Run
        PROVE  /\ runs[r].state \in {"absent", "pending"} /\ runs[r].frames = <<>>
               /\ undone[r] = <<>> /\ log[r] = <<>>
      BY DEF Init, CoordinatorInit, NewSagaRun, Absent
  <2>4. OneAdvancePerRun
      BY AwaitInit DEF AwaitInv, LockInv
  <2>5. ASSUME NEW r \in Run PROVE LateFrames(E, runs[r]) /\ EarlyRest(E, runs[r], log[r])
      BY <2>3 DEF LateFrames, EarlyRest, Early
  <2>6. EarlyInv(E)
      BY <2>2, <2>4, <2>5 DEF EarlyInv
  <2> QED BY <2>2, <2>3, <2>4, <2>6 DEF RollInv, OpenInv, RolledAtRest
<1>2. I /\ [Next]_vars => I'
  <2> SUFFICES ASSUME AwaitInv, Roles, EarlyInv(E), RollInv, [Next]_vars PROVE I'
      OBVIOUS
  <2>1. BaseInv
      BY DEF AwaitInv
  <2>2. AwaitInv' /\ Roles' /\ OpenInv'
      BY <2>1, AwaitNext, RolesKept, OpenKept DEF RollInv
  <2>3. OneAdvancePerRun' /\ BaseInv'
      BY <2>2 DEF AwaitInv, LockInv
  <2>4. CASE \E t \in Worker : AdvanceStep(t) /\ Logs(t)
    <3>1. PICK t \in Worker : AdvanceStep(t) /\ Logs(t)
        BY <2>4
    <3>2. EarlyInv(E)' /\ (StepOf(t) \in E => Early(E, log'[th[t].run]))
        BY <2>1, <2>3, <3>1, EarlyAdvance
    <3>3. RollInv'
        BY <2>1, <2>2, <2>3, <3>1, <3>2, RollAdvance
    <3> QED BY <2>2, <3>2, <3>3
  <2>5. CASE LogsKept /\ \E t \in Worker : LoadStep(t)
      BY <2>1, <2>2, <2>3, <2>5, EarlyLoad, RollLoad
  <2>6. CASE LogsKept /\ AsideStep
      BY <2>1, <2>2, <2>3, <2>6, EarlyAside, RollAside
  <2> QED BY <2>1, <2>4, <2>5, <2>6, LogSplit
<1>3. I => RollbackMirrorsLog
  <2> SUFFICES ASSUME AwaitInv, RollInv, NEW r \in Run
               PROVE  /\ runs[r].state = "failed" => NewestFirst(undone[r], log[r], Owed(r))
                      /\ runs[r].state \notin {"failed", "compensating"} => undone[r] = <<>>
      BY DEF RollbackMirrorsLog
  <2>1. ToUndo(runs[r].step) = Owed(r)
      BY DEF ToUndo, Owed
  <2>2. CASE AtRest(r)
      BY <2>1, <2>2 DEF RollInv, RolledAtRest
  <2>3. CASE ~AtRest(r)
    <3>1. PICK t \in Worker : th[t].run = r /\ th[t].pc \in MidPC
        BY <2>3 DEF AtRest
    <3>2. ~IsTerminal(runs[r])
        BY <3>1 DEF RollInv, OpenInv
    <3>3. runs[r].state # "failed"
        BY <3>2 DEF IsTerminal, Terminal
    <3>4. RollsBack(th[t], runs[r], undone[r], log[r], StepOf(t))
        BY <3>1 DEF RollInv
    <3>5. runs[r].state # "compensating" => undone[r] = <<>>
        BY <3>4 DEF RollsBack
    <3> QED BY <3>3, <3>5
  <2> QED BY <2>2, <2>3
<1> HIDE DEF I
<1> QED BY <1>1, <1>2, <1>3, PTL DEF Spec
=============================================================================
