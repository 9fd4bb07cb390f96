---------------------------- MODULE StoreProofs ----------------------------
(***************************************************************************)
(* What every store operator keeps of a run record, whatever the record:   *)
(* its type, the bound of the try_catch stack, where the run starts, whose *)
(* child it is, and that it exists.                                        *)
(***************************************************************************)
EXTENDS SagaStore, SequenceTheorems, TLAPS

Stored(r) == r \in RunRecord /\ Len(r.frames) <= MaxFrames

\* b is what a store call may leave of the run a.
Keeps(a, b) ==
    /\ Stored(b)
    /\ b.start = a.start /\ b.parent = a.parent
    /\ a.state # "absent" => b.state # "absent"

LEMMA KeepsItself ==
    ASSUME NEW r, Stored(r)
    PROVE  Keeps(r, r)
BY DEF Keeps

LEMMA KeepsTwice ==
    ASSUME NEW a, NEW b, NEW c, Keeps(a, b), Keeps(b, c)
    PROVE  Keeps(a, c)
BY DEF Keeps

\* One field at a time; the lemmas below compose these.
LEMMA KeepsState ==
    ASSUME NEW r, Stored(r), NEW st \in RunState \ {"absent"}
    PROVE  Keeps(r, [r EXCEPT !.state = st])
BY ZenonT(60) DEF Stored, Keeps, RunRecord

LEMMA KeepsWakeup ==
    ASSUME NEW r, Stored(r), NEW w \in Wakeup
    PROVE  Keeps(r, [r EXCEPT !.wakeup = w])
BY SMTT(60) DEF Stored, Keeps, RunRecord

LEMMA KeepsSignal ==
    ASSUME NEW r, Stored(r), NEW n \in Name \cup {Nil}
    PROVE  Keeps(r, [r EXCEPT !.signal = n])
BY SMTT(60) DEF Stored, Keeps, RunRecord

LEMMA KeepsTopic ==
    ASSUME NEW r, Stored(r), NEW n \in Name \cup {Nil}
    PROVE  Keeps(r, [r EXCEPT !.topic = n])
BY SMTT(60) DEF Stored, Keeps, RunRecord

LEMMA KeepsMarker ==
    ASSUME NEW r, Stored(r), NEW s \in Step \cup {Nil}
    PROVE  Keeps(r, [r EXCEPT !.action = s])
BY SMTT(60) DEF Stored, Keeps, RunRecord

LEMMA KeepsStep ==
    ASSUME NEW r, Stored(r), NEW s \in Step \cup {Nil}
    PROVE  Keeps(r, [r EXCEPT !.step = s])
BY SMTT(60) DEF Stored, Keeps, RunRecord

LEMMA KeepsAttempt ==
    ASSUME NEW r, Stored(r), NEW k \in Nat
    PROVE  Keeps(r, [r EXCEPT !.attempt = k])
BY SMTT(60) DEF Stored, Keeps, RunRecord

LEMMA KeepsEnd ==
    ASSUME NEW r, Stored(r), NEW st \in RunState \ {"absent"}
    PROVE  /\ Keeps(r, [r EXCEPT !.state = st, !.action = Nil])
           /\ Keeps(r, [r EXCEPT !.action = Nil, !.state = st])
<1> DEFINE p == [r EXCEPT !.state = st]
<1>1. Keeps(r, p) /\ Stored(p)
    BY KeepsState DEF Keeps
<1> HIDE DEF p
<1>2. Keeps(p, [p EXCEPT !.action = Nil])
    BY <1>1, KeepsMarker
<1>3. Keeps(r, [p EXCEPT !.action = Nil])
    BY <1>1, <1>2, KeepsTwice
<1>4. /\ [p EXCEPT !.action = Nil] = [r EXCEPT !.state = st, !.action = Nil]
      /\ [p EXCEPT !.action = Nil] = [r EXCEPT !.action = Nil, !.state = st]
    BY DEF p
<1> QED BY <1>3, <1>4

LEMMA KeepsCancel ==
    ASSUME NEW r, Stored(r)
    PROVE  Keeps(r, [r EXCEPT !.state = "cancelled", !.action = Nil])
BY KeepsEnd DEF RunState

LEMMA KeepsReport ==
    ASSUME NEW r, Stored(r)
    PROVE  Keeps(r, [r EXCEPT !.action = Nil, !.wakeup = "due"])
<1> DEFINE p == [r EXCEPT !.action = Nil]
<1>1. Keeps(r, p) /\ Stored(p)
    BY KeepsMarker DEF Keeps
<1> HIDE DEF p
<1>2. Keeps(p, [p EXCEPT !.wakeup = "due"])
    BY <1>1, KeepsWakeup DEF Wakeup
<1>3. [p EXCEPT !.wakeup = "due"] = [r EXCEPT !.action = Nil, !.wakeup = "due"]
    BY DEF p
<1> QED BY <1>1, <1>2, <1>3, KeepsTwice

LEMMA KeepsWaits ==
    ASSUME NEW r, Stored(r), NEW n \in Name \cup {Nil}, NEW w \in Wakeup
    PROVE  /\ Keeps(r, [r EXCEPT !.state = "paused", !.signal = n, !.wakeup = w])
           /\ Keeps(r, [r EXCEPT !.state = "paused", !.topic = n, !.wakeup = w])
<1> DEFINE p == [r EXCEPT !.state = "paused"]
           q == [p EXCEPT !.signal = n]
           v == [p EXCEPT !.topic = n]
<1>1. Keeps(r, p) /\ Stored(p)
    BY KeepsState DEF RunState, Keeps
<1> HIDE DEF p
<1>2. Keeps(p, q) /\ Stored(q) /\ Keeps(p, v) /\ Stored(v)
    BY <1>1, KeepsSignal, KeepsTopic DEF Keeps
<1> HIDE DEF q, v
<1>3. Keeps(q, [q EXCEPT !.wakeup = w]) /\ Keeps(v, [v EXCEPT !.wakeup = w])
    BY <1>2, KeepsWakeup
<1>4. Keeps(r, [q EXCEPT !.wakeup = w]) /\ Keeps(r, [v EXCEPT !.wakeup = w])
    BY <1>1, <1>2, <1>3, KeepsTwice
<1>5. /\ [q EXCEPT !.wakeup = w]
              = [r EXCEPT !.state = "paused", !.signal = n, !.wakeup = w]
      /\ [v EXCEPT !.wakeup = w]
              = [r EXCEPT !.state = "paused", !.topic = n, !.wakeup = w]
    BY DEF p, q, v
<1> QED BY <1>4, <1>5

LEMMA KeepsAction ==
    ASSUME NEW r, Stored(r), NEW s \in Step, NEW k \in Nat
    PROVE  Keeps(r, [r EXCEPT !.state = "paused", !.action = s, !.attempt = k])
<1> DEFINE p == [r EXCEPT !.state = "paused"]
           q == [p EXCEPT !.action = s]
<1>1. Keeps(r, p) /\ Stored(p)
    BY KeepsState DEF RunState, Keeps
<1> HIDE DEF p
<1>2. Keeps(p, q) /\ Stored(q)
    BY <1>1, KeepsMarker DEF Keeps
<1> HIDE DEF q
<1>3. Keeps(q, [q EXCEPT !.attempt = k])
    BY <1>2, KeepsAttempt
<1>4. Keeps(r, [q EXCEPT !.attempt = k])
    BY <1>1, <1>2, <1>3, KeepsTwice
<1>5. [q EXCEPT !.attempt = k] = [r EXCEPT !.state = "paused", !.action = s, !.attempt = k]
    BY DEF p, q
<1> QED BY <1>4, <1>5

\* The writes of Advance.
LEMMA KeepsUpdates ==
    ASSUME NEW r, Stored(r), NEW s \in Step \cup {Nil}
    PROVE  /\ \A st \in RunState \ {"absent"} : Keeps(r, UpdateRunState(r, st, s))
           /\ Keeps(r, MarkRunFailed(r, s))
<1>1. ASSUME NEW st \in RunState \ {"absent"} PROVE Keeps(r, UpdateRunState(r, st, s))
  <2> DEFINE p == [r EXCEPT !.state = st]
  <2>1. Keeps(r, p) /\ Stored(p)
      BY <1>1, KeepsState DEF Keeps
  <2> HIDE DEF p
  <2>2. Keeps(p, [p EXCEPT !.step = s])
      BY <2>1, KeepsStep
  <2>3. [p EXCEPT !.step = s] = UpdateRunState(r, st, s)
      BY DEF p, UpdateRunState
  <2> QED BY <2>1, <2>2, <2>3, KeepsTwice
<1>2. MarkRunFailed(r, s) = r \/ MarkRunFailed(r, s) = UpdateRunState(r, "failed", s)
    BY DEF MarkRunFailed, UpdateRunState
<1> QED BY <1>1, <1>2, KeepsItself DEF RunState

\* The writes that clear the await markers.
LEMMA KeepsClears ==
    ASSUME NEW r, Stored(r)
    PROVE  /\ Keeps(r, ClearPause(r))
           /\ Keeps(r, WakeFromExternal(r))
           /\ Keeps(r, ConsumeSignal(r))
           /\ Keeps(r, Cancel(r))
<1> DEFINE c == ClearAwaits(r)
<1>1. Keeps(r, c) /\ Stored(c)
  <2> DEFINE p == [r EXCEPT !.wakeup = "none"]
             q == [p EXCEPT !.signal = Nil]
  <2>1. Keeps(r, p) /\ Stored(p)
      BY KeepsWakeup DEF Wakeup, Keeps
  <2> HIDE DEF p
  <2>2. Keeps(p, q) /\ Stored(q)
      BY <2>1, KeepsSignal DEF Keeps
  <2> HIDE DEF q
  <2>3. Keeps(q, [q EXCEPT !.topic = Nil])
      BY <2>2, KeepsTopic
  <2>4. [q EXCEPT !.topic = Nil] = c
      BY DEF p, q, ClearAwaits
  <2>5. Keeps(r, c)
      BY <2>1, <2>2, <2>3, <2>4, KeepsTwice
  <2> QED BY <2>5 DEF Keeps
<1>2. Keeps(r, WakeFromExternal(r)) /\ Keeps(r, ConsumeSignal(r))
    BY <1>1 DEF WakeFromExternal, ConsumeSignal
<1> HIDE DEF c
<1>3. \A st \in RunState \ {"absent"} : Keeps(r, [c EXCEPT !.state = st])
    BY <1>1, KeepsState, KeepsTwice
<1>4. Keeps(r, ClearPause(r))
    BY <1>3 DEF ClearPause, c, RunState
<1>5. Keeps(r, [c EXCEPT !.state = "cancelled", !.action = Nil])
  <2>1. Keeps(c, [c EXCEPT !.state = "cancelled", !.action = Nil])
      BY <1>1, KeepsCancel
  <2> QED BY <1>1, <2>1, KeepsTwice
<1>6. Cancel(r) = r \/ Cancel(r) = [c EXCEPT !.state = "cancelled", !.action = Nil]
    BY DEF Cancel, c
<1>7. Keeps(r, Cancel(r))
    BY <1>5, <1>6, KeepsItself
<1> QED BY <1>2, <1>4, <1>7

\* The writes that pause a run, and a worker's report on an action.
LEMMA KeepsPauses ==
    ASSUME NEW r, Stored(r), NEW n \in Name \cup {Nil}, NEW d \in BOOLEAN,
           NEW s \in Step, NEW k \in Nat
    PROVE  /\ Keeps(r, SetPausedWithWakeup(r))
           /\ Keeps(r, SetPausedAwaitingSignal(r, n, d))
           /\ Keeps(r, SetPausedAwaitingEvent(r, n, d))
           /\ Keeps(r, MarkAwaitingAction(r, s, k))
           /\ Keeps(r, CompleteAction(r, k))
           /\ Keeps(r, FailAction(r, k))
<1>1. Keeps(r, SetPausedWithWakeup(r))
  <2> DEFINE p == [r EXCEPT !.state = "paused"]
  <2>1. Keeps(r, p) /\ Stored(p)
      BY KeepsState DEF RunState, Keeps
  <2> HIDE DEF p
  <2>2. Keeps(p, [p EXCEPT !.wakeup = "later"])
      BY <2>1, KeepsWakeup DEF Wakeup
  <2>3. [p EXCEPT !.wakeup = "later"] = SetPausedWithWakeup(r)
      BY DEF p, SetPausedWithWakeup
  <2> QED BY <2>1, <2>2, <2>3, KeepsTwice
<1>2. Keeps(r, SetPausedAwaitingSignal(r, n, d))
  <2>1. PICK w \in Wakeup : SetPausedAwaitingSignal(r, n, d)
                               = [r EXCEPT !.state = "paused", !.signal = n, !.wakeup = w]
      BY DEF SetPausedAwaitingSignal, Wakeup, Stored, RunRecord
  <2>2. Keeps(r, [r EXCEPT !.state = "paused", !.signal = n, !.wakeup = w])
      BY KeepsWaits
  <2> QED BY <2>1, <2>2
<1>3. Keeps(r, SetPausedAwaitingEvent(r, n, d))
  <2>1. PICK w \in Wakeup : SetPausedAwaitingEvent(r, n, d)
                               = [r EXCEPT !.state = "paused", !.topic = n, !.wakeup = w]
      BY DEF SetPausedAwaitingEvent, Wakeup, Stored, RunRecord
  <2>2. Keeps(r, [r EXCEPT !.state = "paused", !.topic = n, !.wakeup = w])
      BY KeepsWaits
  <2> QED BY <2>1, <2>2
<1>4. Keeps(r, MarkAwaitingAction(r, s, k))
  <2>1. \/ MarkAwaitingAction(r, s, k) = r
        \/ MarkAwaitingAction(r, s, k)
              = [r EXCEPT !.state = "paused", !.action = s, !.attempt = k]
      BY DEF MarkAwaitingAction
  <2>2. Keeps(r, [r EXCEPT !.state = "paused", !.action = s, !.attempt = k])
      BY KeepsAction
  <2> QED BY <2>1, <2>2, KeepsItself
<1>5. Keeps(r, CompleteAction(r, k))
  <2>1. \/ CompleteAction(r, k) = r
        \/ CompleteAction(r, k) = [r EXCEPT !.action = Nil, !.wakeup = "due"]
      BY DEF CompleteAction
  <2>2. Keeps(r, [r EXCEPT !.action = Nil, !.wakeup = "due"])
      BY KeepsReport
  <2> QED BY <2>1, <2>2, KeepsItself
<1>6. Keeps(r, FailAction(r, k))
  <2>1. \/ FailAction(r, k) = r
        \/ FailAction(r, k) = [r EXCEPT !.action = Nil, !.state = "failed"]
      BY SMTT(60) DEF FailAction
  <2>2. Keeps(r, [r EXCEPT !.action = Nil, !.state = "failed"])
      BY KeepsEnd DEF RunState
  <2> QED BY <2>1, <2>2, KeepsItself
<1> QED BY <1>1, <1>2, <1>3, <1>4, <1>5, <1>6

\* The try_catch stack grows to MaxFrames at most.
LEMMA KeepsFrames ==
    ASSUME NEW r, Stored(r)
    PROVE  /\ \A s \in Step : CanPushTryCatch(r) => Keeps(r, PushTryCatch(r, s))
           /\ r.frames # <<>> => Keeps(r, PopTryCatch(r)) /\ TopFrame(r) \in Step
<1> USE DEF Stored, Keeps, RunRecord, MaxFrames
<1>1. r.frames \in Seq(Step) /\ Len(r.frames) \in Nat
    OBVIOUS
<1>2. ASSUME NEW s \in Step, CanPushTryCatch(r) PROVE Keeps(r, PushTryCatch(r, s))
  <2>1. Append(r.frames, s) \in Seq(Step) /\ Len(Append(r.frames, s)) = Len(r.frames) + 1
      BY <1>1
  <2> QED BY <1>2, <2>1, SMTT(60) DEF CanPushTryCatch, PushTryCatch
<1>3. ASSUME r.frames # <<>> PROVE Keeps(r, PopTryCatch(r)) /\ TopFrame(r) \in Step
  <2>1. Len(r.frames) > 0
      BY <1>1, <1>3, EmptySeq
  <2>2. /\ SubSeq(r.frames, 1, Len(r.frames) - 1) \in Seq(Step)
        /\ Len(SubSeq(r.frames, 1, Len(r.frames) - 1)) <= Len(r.frames)
      BY <1>1, <2>1
  <2>3. Keeps(r, PopTryCatch(r))
      BY <2>2, <1>1, SMTT(60) DEF PopTryCatch
  <2>4. TopFrame(r) \in Step
      BY <1>1, <2>1 DEF TopFrame
  <2> QED BY <2>3, <2>4
<1> QED BY <1>2, <1>3

LEMMA AbsentStored == Stored(Absent) /\ Absent.parent = Nil
<1>1. <<>> \in Seq(Step) /\ Len(<<>>) = 0
    OBVIOUS
<1> QED BY <1>1 DEF Absent, Stored, RunRecord, RunState, Wakeup, MaxFrames

LEMMA NewRunStored ==
    ASSUME NEW s \in Step
    PROVE  /\ Stored(NewSagaRun(s)) /\ NewSagaRun(s).state = "pending"
           /\ NewSagaRun(s).start = s /\ NewSagaRun(s).parent = Nil
BY AbsentStored, ZenonT(120) DEF NewSagaRun, Stored, RunRecord, RunState

LEMMA ChildStored ==
    ASSUME NEW s \in Step, NEW p \in Run, NEW ps \in Step
    PROVE  LET c == SpawnChildRun(s, p, ps)
           IN  Stored(c) /\ c.state = "pending" /\ c.start = s /\ c.parent = p
<1> DEFINE n == NewSagaRun(s)
<1>1. Stored(n) /\ n.state = "pending" /\ n.start = s
    BY NewRunStored
<1> HIDE DEF n
<1>2. SpawnChildRun(s, p, ps) = [n EXCEPT !.parent = p, !.pstep = ps]
    BY DEF SpawnChildRun, n
<1> QED BY <1>1, <1>2, ZenonT(60) DEF Stored, RunRecord
=============================================================================
