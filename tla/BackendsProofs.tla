--------------------------- MODULE BackendsProofs ---------------------------
(***************************************************************************)
(* The Redis and the Postgres store implement the atomic RunStore, and     *)
(* what they keep besides the run stays consistent, for any number of      *)
(* clients, calls, tasks and attempts.                                     *)
(***************************************************************************)
EXTENDS Backends, StoreProofs

\* A call whose arguments fit its kind.
OpOK(op) ==
    /\ op \in Store!Op
    /\ op.kind \in {"push", "mark"} => op.step \in Step
    /\ op.kind = "state" => op.state \in RunState \ {"absent"}
    /\ op.kind \in {"signal", "event"} => op.name \in Name
    /\ op.deadline => op.kind \in {"signal", "event"}

EntryOK(e) == e \in RedisEntry /\ Stored(e.run)

-----------------------------------------------------------------------------
(***************************************************************************)
(* The Redis operators, field by field: the blob is what the memory store  *)
(* makes of the run.                                                       *)
(***************************************************************************)
LEMMA SameEntry ==
    ASSUME NEW e \in RedisEntry, NEW f \in RedisEntry,
           e.run = f.run, e.vars = f.vars, e.wake = f.wake, e.topics = f.topics
    PROVE  e = f
BY SMT DEF RedisEntry

LEMMA UnindexedFields ==
    ASSUME NEW e \in RedisEntry
    PROVE  LET f == Unindexed(e) IN
           /\ f \in RedisEntry
           /\ f.run = e.run /\ f.vars = e.vars
           /\ f.wake = "none" /\ f.topics = e.topics \ {e.run.topic}
<1>1. e.topics \ {e.run.topic} \in SUBSET Name /\ "none" \in Wakeup
    BY DEF RedisEntry, Wakeup
<1> QED BY <1>1, Zenon DEF Unindexed, RedisEntry

LEMMA OfState ==
    ASSUME NEW e, EntryOK(e), NEW st \in RunState \ {"absent"}, NEW s \in Step \cup {Nil}
    PROVE  LET f == RedisUpdateRunState(e, st, s) IN
           /\ EntryOK(f) /\ Keeps(e.run, f.run)
           /\ f.run = UpdateRunState(e.run, st, s) /\ f.vars = e.vars
           /\ st \notin Terminal => f.wake = e.wake /\ f.topics = e.topics
<1> DEFINE d == [e EXCEPT !.run.state = st, !.run.step = s]
<1>1. d.run = UpdateRunState(e.run, st, s)
    BY Zenon DEF UpdateRunState, EntryOK, RedisEntry
<1>2. Keeps(e.run, d.run)
    BY <1>1, KeepsUpdates DEF EntryOK
<1>3. d \in RedisEntry /\ d.vars = e.vars /\ d.wake = e.wake /\ d.topics = e.topics
    BY <1>2, Zenon DEF EntryOK, RedisEntry, Keeps, Stored
<1>4. d.run.topic = e.run.topic
    BY <1>1, Zenon DEF UpdateRunState, EntryOK, Stored, RunRecord
<1>5. RedisUpdateRunState(e, st, s) = IF st \in Terminal THEN Unindexed(d) ELSE d
    BY Zenon DEF RedisUpdateRunState
<1> HIDE DEF d
<1> QED BY <1>1, <1>2, <1>3, <1>4, <1>5, UnindexedFields DEF EntryOK, Keeps

LEMMA OfFailed ==
    ASSUME NEW e, EntryOK(e), NEW s \in Step \cup {Nil}
    PROVE  LET f == RedisMarkRunFailed(e, s) IN
           /\ EntryOK(f) /\ Keeps(e.run, f.run)
           /\ f.run = MarkRunFailed(e.run, s) /\ f.vars = e.vars
           /\ ~IsTerminal(e.run) => IsTerminal(f.run)
           /\ IsTerminal(e.run) => f = e
<1>1. CASE IsTerminal(e.run)
    BY <1>1, KeepsItself DEF RedisMarkRunFailed, MarkRunFailed, EntryOK
<1>2. CASE ~IsTerminal(e.run)
  <2> DEFINE u == Unindexed(e)
             f == [u EXCEPT !.run.state = "failed", !.run.step = s]
  <2>1. u \in RedisEntry /\ u.run = e.run /\ u.vars = e.vars
      BY UnindexedFields DEF EntryOK
  <2>2. RedisMarkRunFailed(e, s) = f
      BY <1>2, Zenon DEF RedisMarkRunFailed
  <2> HIDE DEF u
  <2>3. f.run = MarkRunFailed(e.run, s)
      BY <1>2, <2>1, Zenon DEF MarkRunFailed, RedisEntry
  <2>4. Keeps(e.run, f.run)
      BY <2>3, KeepsUpdates DEF EntryOK
  <2>5. f \in RedisEntry /\ f.vars = e.vars
      BY <2>1, <2>4, Zenon DEF RedisEntry, Keeps, Stored
  <2>6. IsTerminal(f.run)
    <3>1. f.run.state = "failed"
      <4>1. MarkRunFailed(e.run, s) = [e.run EXCEPT !.state = "failed", !.step = s]
          BY <1>2, Zenon DEF MarkRunFailed
      <4> QED BY <2>3, <4>1, Zenon DEF EntryOK, Stored, RunRecord
    <3> QED BY <3>1 DEF IsTerminal, Terminal
  <2> QED BY <1>2, <2>2, <2>3, <2>4, <2>5, <2>6 DEF EntryOK, Keeps
<1> QED BY <1>1, <1>2

\* Cancel, and the three calls that clear the await markers.
LEMMA OfCancel ==
    ASSUME NEW e, EntryOK(e)
    PROVE  LET f == RedisCancel(e) IN
           /\ EntryOK(f) /\ Keeps(e.run, f.run)
           /\ f.run = Cancel(e.run) /\ f.vars = e.vars
           /\ ~IsTerminal(e.run) => IsTerminal(f.run)
           /\ IsTerminal(e.run) => f = e
<1>1. CASE IsTerminal(e.run)
    BY <1>1, KeepsItself DEF RedisCancel, Cancel, EntryOK
<1>2. CASE ~IsTerminal(e.run)
  <2> DEFINE u == Unindexed(e)
             f == [u EXCEPT !.run.state = "cancelled", !.run.wakeup = "none",
                            !.run.signal = Nil, !.run.topic = Nil, !.run.action = Nil]
  <2>1. u \in RedisEntry /\ u.run = e.run /\ u.vars = e.vars
      BY UnindexedFields DEF EntryOK
  <2>2. RedisCancel(e) = f
      BY <1>2, Zenon DEF RedisCancel
  <2> HIDE DEF u
  <2>3. f.run = Cancel(e.run)
      BY <1>2, <2>1, Zenon DEF Cancel, ClearAwaits, RedisEntry
  <2>4. Keeps(e.run, f.run)
      BY <2>3, KeepsClears DEF EntryOK
  <2>5. f \in RedisEntry /\ f.vars = e.vars
      BY <2>1, <2>4, Zenon DEF RedisEntry, Keeps, Stored
  <2>6. IsTerminal(f.run)
    <3>1. f.run.state = "cancelled"
      <4>1. Cancel(e.run) = [ClearAwaits(e.run) EXCEPT !.state = "cancelled", !.action = Nil]
          BY <1>2, Zenon DEF Cancel
      <4> QED BY <2>3, <4>1, Zenon DEF ClearAwaits, EntryOK, Stored, RunRecord
    <3> QED BY <3>1 DEF IsTerminal, Terminal
  <2> QED BY <1>2, <2>2, <2>3, <2>4, <2>5, <2>6 DEF EntryOK, Keeps
<1> QED BY <1>1, <1>2

LEMMA OfClears ==
    ASSUME NEW e, EntryOK(e),
           NEW f \in {RedisClearPause(e), RedisWakeFromExternal(e), RedisTryConsume(e)}
    PROVE  /\ EntryOK(f) /\ Keeps(e.run, f.run)
           /\ f = RedisClearPause(e) => f.run = ClearPause(e.run)
           /\ f # RedisClearPause(e) => f.run = ClearAwaits(e.run)
           /\ f.vars = e.vars
           /\ f.run.wakeup = "none" /\ f.run.topic = Nil
<1> DEFINE u == Unindexed(e)
           g == [u EXCEPT !.run.state = "running", !.run.wakeup = "none",
                          !.run.signal = Nil, !.run.topic = Nil]
           h == [u EXCEPT !.run.wakeup = "none", !.run.signal = Nil, !.run.topic = Nil]
<1>1. u \in RedisEntry /\ u.run = e.run /\ u.vars = e.vars
    BY UnindexedFields DEF EntryOK
<1>2. /\ RedisClearPause(e) = g
      /\ RedisWakeFromExternal(e) = h /\ RedisTryConsume(e) = h
    BY Zenon DEF RedisClearPause, RedisWakeFromExternal, RedisTryConsume
<1> HIDE DEF u
<1>3. g.run = ClearPause(e.run)
    BY <1>1, Zenon DEF ClearPause, ClearAwaits, RedisEntry
<1>4. h.run = ClearAwaits(e.run)
    BY <1>1, Zenon DEF ClearAwaits, RedisEntry
<1>5. Keeps(e.run, g.run) /\ Keeps(e.run, h.run)
    BY <1>3, <1>4, KeepsClears DEF EntryOK, WakeFromExternal
<1>6. g \in RedisEntry /\ g.vars = e.vars
    BY <1>1, <1>5, Zenon DEF RedisEntry, Keeps, Stored
<1>7. h \in RedisEntry /\ h.vars = e.vars
    BY <1>1, <1>5, Zenon DEF RedisEntry, Keeps, Stored
<1>8. g.run.wakeup = "none" /\ g.run.topic = Nil
    BY <1>3, Zenon DEF ClearPause, ClearAwaits, EntryOK, Stored, RunRecord
<1>9. h.run.wakeup = "none" /\ h.run.topic = Nil
    BY <1>4, Zenon DEF ClearAwaits, EntryOK, Stored, RunRecord
<1> HIDE DEF g, h
<1> QED BY <1>2, <1>3, <1>4, <1>5, <1>6, <1>7, <1>8, <1>9 DEF EntryOK, Keeps

LEMMA Pausing ==
    ASSUME NEW r, Stored(r), NEW n \in Name, NEW d \in BOOLEAN
    PROVE  Keeps(r, SetPausedAwaitingEvent(r, n, d))
BY KeepsPauses, BackendsAssumption, 0 \in Nat

\* The writes that pause the run.
LEMMA OfWait ==
    ASSUME NEW e, EntryOK(e)
    PROVE  LET f == RedisSetPausedWithWakeup(e) IN
           /\ EntryOK(f) /\ Keeps(e.run, f.run)
           /\ f.run = SetPausedWithWakeup(e.run) /\ f.vars = e.vars
           /\ f.run.state = "paused" /\ f.run.topic = e.run.topic
           /\ f.run.wakeup = "later" /\ f.wake = "later" /\ f.topics = e.topics
<1> DEFINE f == RedisSetPausedWithWakeup(e)
<1>1. f.run = SetPausedWithWakeup(e.run)
    BY Zenon DEF RedisSetPausedWithWakeup, SetPausedWithWakeup, EntryOK, RedisEntry
<1>2. Keeps(e.run, f.run)
    BY <1>1, KeepsPauses, BackendsAssumption, 0 \in Nat, Nil \in Name \cup {Nil}, TRUE \in BOOLEAN DEF EntryOK
<1>3. f \in RedisEntry /\ f.vars = e.vars /\ f.wake = "later" /\ f.topics = e.topics
    BY <1>2, Zenon DEF RedisSetPausedWithWakeup, EntryOK, RedisEntry, Keeps, Stored, Wakeup
<1>4. f.run.state = "paused" /\ f.run.topic = e.run.topic /\ f.run.wakeup = "later"
    BY <1>1, Zenon DEF SetPausedWithWakeup, EntryOK, Stored, RunRecord
<1> QED BY <1>1, <1>2, <1>3, <1>4 DEF EntryOK, Keeps

LEMMA OfSignal ==
    ASSUME NEW e, EntryOK(e), NEW n \in Name, NEW d \in BOOLEAN
    PROVE  LET f == RedisSetPausedAwaitingSignal(e, n, d) IN
           /\ EntryOK(f) /\ Keeps(e.run, f.run)
           /\ f.run = SetPausedAwaitingSignal(e.run, n, d) /\ f.vars = e.vars
           /\ f.run.state = "paused" /\ f.run.topic = e.run.topic
           /\ f.run.wakeup = IF d THEN "later" ELSE e.run.wakeup
           /\ f.wake = IF d THEN "later" ELSE e.wake
           /\ f.topics = e.topics
<1> DEFINE f == RedisSetPausedAwaitingSignal(e, n, d)
           p == [e EXCEPT !.run.state = "paused", !.run.signal = n]
           q == [p EXCEPT !.run.wakeup = "later", !.wake = "later"]
           r == [e.run EXCEPT !.state = "paused", !.signal = n]
<1>1. p.run = r
    BY Zenon DEF EntryOK, RedisEntry
<1>2. Keeps(e.run, r) /\ Keeps(e.run, [r EXCEPT !.wakeup = "later"])
  <2>1. Keeps(e.run, r)
    <3> DEFINE v == [e.run EXCEPT !.state = "paused"]
    <3>1. Keeps(e.run, v) /\ Stored(v)
        BY KeepsState DEF EntryOK, RunState, Keeps
    <3> HIDE DEF v
    <3>2. Keeps(v, [v EXCEPT !.signal = n])
        BY <3>1, KeepsSignal
    <3>3. r = [v EXCEPT !.signal = n]
        BY DEF v
    <3> QED BY <3>1, <3>2, <3>3, KeepsTwice
  <2> HIDE DEF r
  <2>2. Keeps(r, [r EXCEPT !.wakeup = "later"])
      BY <2>1, KeepsWakeup DEF Wakeup, Keeps
  <2> QED BY <2>1, <2>2, KeepsTwice
<1>3. p \in RedisEntry /\ p.vars = e.vars /\ p.wake = e.wake /\ p.topics = e.topics
    BY <1>1, <1>2, Zenon DEF EntryOK, RedisEntry, Keeps, Stored
<1>4. r.state = "paused" /\ r.topic = e.run.topic /\ r.wakeup = e.run.wakeup /\ r \in RunRecord
    BY <1>2, Zenon DEF EntryOK, Stored, RunRecord, Keeps
<1>5. f = IF d THEN q ELSE p
    BY Zenon DEF RedisSetPausedAwaitingSignal
<1>6. SetPausedAwaitingSignal(e.run, n, d) = IF d THEN [r EXCEPT !.wakeup = "later"] ELSE r
  <2>1. /\ d => SetPausedAwaitingSignal(e.run, n, d) = [r EXCEPT !.wakeup = "later"]
        /\ ~d => SetPausedAwaitingSignal(e.run, n, d) = [r EXCEPT !.wakeup = e.run.wakeup]
      BY Zenon DEF SetPausedAwaitingSignal
  <2> HIDE DEF r
  <2>2. [r EXCEPT !.wakeup = e.run.wakeup] = r
      BY <1>4, SMT DEF RunRecord
  <2> QED BY <2>1, <2>2
<1> HIDE DEF p, r
<1>7. q.run = [r EXCEPT !.wakeup = "later"]
    BY <1>1, <1>3, Zenon DEF RedisEntry
<1>8. q \in RedisEntry /\ q.vars = e.vars /\ q.wake = "later" /\ q.topics = e.topics
    BY <1>2, <1>3, <1>7, Zenon DEF EntryOK, RedisEntry, Keeps, Stored, Wakeup
<1> HIDE DEF q
<1>9. q.run.state = "paused" /\ q.run.topic = e.run.topic /\ q.run.wakeup = "later"
    BY <1>4, <1>7, SMT DEF RunRecord
<1> HIDE DEF f
<1>10. CASE d
    BY <1>2, <1>5, <1>6, <1>7, <1>8, <1>9, <1>10 DEF EntryOK, Keeps, f
<1>11. CASE ~d
    BY <1>1, <1>2, <1>3, <1>4, <1>5, <1>6, <1>11 DEF EntryOK, Keeps, f
<1> QED BY <1>10, <1>11

LEMMA OfEvent ==
    ASSUME NEW e, EntryOK(e), NEW n \in Name, NEW d \in BOOLEAN
    PROVE  LET f == RedisSetPausedAwaitingEvent(e, n, d) IN
           /\ EntryOK(f) /\ Keeps(e.run, f.run)
           /\ f.run = SetPausedAwaitingEvent(e.run, n, d) /\ f.vars = e.vars
           /\ f.run.state = "paused" /\ f.run.topic = n
           /\ f.run.wakeup = IF d THEN "later" ELSE "none"
           /\ f.wake = IF d THEN "later" ELSE e.wake
           /\ f.topics = e.topics \cup {n}
<1> DEFINE f == RedisSetPausedAwaitingEvent(e, n, d)
           w == IF d THEN "later" ELSE "none"
           p == [e EXCEPT !.run.state = "paused", !.run.topic = n, !.run.wakeup = w,
                          !.topics = @ \cup {n}]
           r == SetPausedAwaitingEvent(e.run, n, d)
<1>1. r = [e.run EXCEPT !.state = "paused", !.topic = n, !.wakeup = w]
    BY Zenon DEF SetPausedAwaitingEvent
<1>2. Keeps(e.run, r) /\ w \in Wakeup /\ e.topics \cup {n} \in SUBSET Name
    BY Pausing DEF EntryOK, RedisEntry, Wakeup
<1> HIDE DEF w, r
<1>3. p.run = r
    BY <1>1, Zenon DEF EntryOK, RedisEntry
<1>4. /\ p \in RedisEntry /\ p.vars = e.vars /\ p.wake = e.wake
      /\ p.topics = e.topics \cup {n}
    BY <1>2, <1>3, Zenon DEF EntryOK, RedisEntry, Keeps, Stored
<1>5. r.state = "paused" /\ r.topic = n /\ r.wakeup = w
    BY <1>1, Zenon DEF EntryOK, Stored, RunRecord
<1>6. f = IF d THEN [p EXCEPT !.wake = "later"] ELSE p
    BY Zenon DEF RedisSetPausedAwaitingEvent, w
<1> HIDE DEF p, f
<1>7. LET q == [p EXCEPT !.wake = "later"] IN
      /\ q \in RedisEntry /\ q.run = p.run /\ q.vars = e.vars /\ q.wake = "later"
      /\ q.topics = p.topics
    BY <1>4, Zenon DEF RedisEntry, Wakeup
<1>8. /\ f \in RedisEntry /\ f.run = r /\ f.vars = e.vars
      /\ f.wake = IF d THEN "later" ELSE e.wake
      /\ f.topics = e.topics \cup {n}
    BY <1>3, <1>4, <1>6, <1>7
<1> QED BY <1>2, <1>5, <1>8 DEF EntryOK, Keeps, f, r, w

\* The calls that leave the indexes alone: variables, the try_catch stack, an action.
LEMMA OfVariables ==
    ASSUME NEW e, EntryOK(e)
    PROVE  LET f == RedisUpdateRunVariables(e) IN
           /\ EntryOK(f) /\ f.run = e.run /\ f.vars = e.vars \cup {"step"}
           /\ f.wake = e.wake /\ f.topics = e.topics
<1>1. e.vars \cup {"step"} \in SUBSET {"step", "result"}
    BY DEF EntryOK, RedisEntry
<1> QED BY <1>1, Zenon DEF RedisUpdateRunVariables, EntryOK, RedisEntry

LEMMA OfFrames ==
    ASSUME NEW e, EntryOK(e), NEW s \in Step,
           NEW f \in {RedisPushTryCatch(e, s), RedisPopTryCatch(e)},
           f = RedisPushTryCatch(e, s) => ~RedisStackFull(e),
           f # RedisPushTryCatch(e, s) => ~RedisStackEmpty(e)
    PROVE  /\ EntryOK(f) /\ Keeps(e.run, f.run)
           /\ f = RedisPushTryCatch(e, s) => f.run = PushTryCatch(e.run, s)
           /\ f # RedisPushTryCatch(e, s) => f.run = PopTryCatch(e.run)
           /\ f.run.state = e.run.state /\ f.run.wakeup = e.run.wakeup
           /\ f.run.topic = e.run.topic
           /\ f.vars = e.vars /\ f.wake = e.wake /\ f.topics = e.topics
<1>1. /\ RedisPushTryCatch(e, s).run = PushTryCatch(e.run, s)
      /\ RedisPopTryCatch(e).run = PopTryCatch(e.run)
    BY Zenon DEF RedisPushTryCatch, RedisPopTryCatch, PushTryCatch, PopTryCatch,
                 EntryOK, RedisEntry
<1>2. /\ ~RedisStackFull(e) => CanPushTryCatch(e.run)
      /\ ~RedisStackEmpty(e) => e.run.frames # <<>>
    BY DEF RedisStackFull, RedisStackEmpty, CanPushTryCatch, EntryOK, Stored, RunRecord, MaxFrames
<1>3. Keeps(e.run, f.run)
    BY <1>1, <1>2, KeepsFrames DEF EntryOK
<1>4. \E q : f = [e EXCEPT !.run.frames = q]
    BY Zenon DEF RedisPushTryCatch, RedisPopTryCatch
<1>5. PICK q : f = [e EXCEPT !.run.frames = q]
    BY <1>4
<1>6. f \in RedisEntry /\ f.vars = e.vars /\ f.wake = e.wake /\ f.topics = e.topics
    BY <1>3, <1>5, Zenon DEF EntryOK, RedisEntry, Keeps, Stored
<1>7. f.run = [e.run EXCEPT !.frames = q]
    BY <1>5, Zenon DEF EntryOK, RedisEntry
<1>8. /\ f.run.state = e.run.state /\ f.run.wakeup = e.run.wakeup
      /\ f.run.topic = e.run.topic
    BY <1>7, Zenon DEF EntryOK, Stored, RunRecord
<1> QED BY <1>1, <1>3, <1>6, <1>8 DEF EntryOK, Keeps

LEMMA OfMark ==
    ASSUME NEW e, EntryOK(e), NEW s \in Step \cup {Nil}, NEW k \in Nat, ~RedisMarked(e, s, k)
    PROVE  LET f == RedisMarkAwaitingAction(e, s, k) IN
           /\ EntryOK(f) /\ Keeps(e.run, f.run)
           /\ f.run = MarkAwaitingAction(e.run, s, k)
           /\ f.run.state = "paused" /\ f.run.wakeup = e.run.wakeup
           /\ f.run.topic = e.run.topic
           /\ f.vars = e.vars /\ f.wake = e.wake /\ f.topics = e.topics
<1> DEFINE f == RedisMarkAwaitingAction(e, s, k)
           r == [e.run EXCEPT !.state = "paused", !.action = s, !.attempt = k]
<1>1. f.run = r
    BY Zenon DEF RedisMarkAwaitingAction, EntryOK, RedisEntry
<1>2. MarkAwaitingAction(e.run, s, k) = r
    BY Zenon DEF RedisMarked, MarkAwaitingAction
<1>3. Keeps(e.run, r)
  <2> DEFINE u == [e.run EXCEPT !.state = "paused"]
             v == [u EXCEPT !.action = s]
  <2>1. Keeps(e.run, u) /\ Stored(u)
      BY KeepsState DEF EntryOK, RunState, Keeps
  <2> HIDE DEF u
  <2>2. Keeps(u, v) /\ Stored(v)
      BY <2>1, KeepsMarker DEF Keeps
  <2> HIDE DEF v
  <2>3. Keeps(v, [v EXCEPT !.attempt = k])
      BY <2>2, KeepsAttempt
  <2>4. r = [v EXCEPT !.attempt = k]
      BY DEF u, v
  <2> QED BY <2>1, <2>2, <2>3, <2>4, KeepsTwice
<1>4. f \in RedisEntry /\ f.vars = e.vars /\ f.wake = e.wake /\ f.topics = e.topics
    BY <1>1, <1>3, Zenon DEF RedisMarkAwaitingAction, EntryOK, RedisEntry, Keeps, Stored
<1>5. r.state = "paused" /\ r.wakeup = e.run.wakeup /\ r.topic = e.run.topic
    BY Zenon DEF EntryOK, Stored, RunRecord
<1> HIDE DEF r
<1> QED BY <1>1, <1>2, <1>3, <1>4, <1>5 DEF EntryOK, Keeps

LEMMA OfComplete ==
    ASSUME NEW e, EntryOK(e), NEW k \in Nat, ~RedisLate(e, k)
    PROVE  LET f == RedisCompleteAction(e) IN
           /\ EntryOK(f) /\ Keeps(e.run, f.run)
           /\ f.run = CompleteAction(e.run, k) /\ f.vars = e.vars \cup {"result"}
           /\ f.run.state = e.run.state /\ f.run.topic = e.run.topic
           /\ f.run.wakeup = "due" /\ f.wake = "due" /\ f.topics = e.topics
<1> DEFINE f == RedisCompleteAction(e)
           r == [e.run EXCEPT !.action = Nil, !.wakeup = "due"]
<1>1. f.run = r
    BY Zenon DEF RedisCompleteAction, EntryOK, RedisEntry
<1>2. CompleteAction(e.run, k) = r
    BY Zenon DEF RedisLate, CompleteAction
<1>3. Keeps(e.run, r) /\ e.vars \cup {"result"} \in SUBSET {"step", "result"}
    BY KeepsReport DEF EntryOK, RedisEntry
<1>4. /\ f \in RedisEntry /\ f.vars = e.vars \cup {"result"} /\ f.wake = "due"
      /\ f.topics = e.topics
    BY <1>1, <1>3, Zenon DEF RedisCompleteAction, EntryOK, RedisEntry, Keeps, Stored, Wakeup
<1>5. r.state = e.run.state /\ r.wakeup = "due" /\ r.topic = e.run.topic
    BY Zenon DEF EntryOK, Stored, RunRecord
<1> HIDE DEF r
<1> QED BY <1>1, <1>2, <1>3, <1>4, <1>5 DEF EntryOK, Keeps

LEMMA OfFail ==
    ASSUME NEW e, EntryOK(e), NEW k \in Nat, ~RedisLate(e, k)
    PROVE  LET f == RedisFailAction(e) IN
           /\ EntryOK(f) /\ Keeps(e.run, f.run)
           /\ f.run = FailAction(e.run, k) /\ f.vars = e.vars
           /\ IsTerminal(f.run)
<1> DEFINE u == Unindexed(e)
           f == [u EXCEPT !.run.action = Nil, !.run.state = "failed"]
           r == [e.run EXCEPT !.action = Nil, !.state = "failed"]
<1>1. u \in RedisEntry /\ u.run = e.run /\ u.vars = e.vars
    BY UnindexedFields DEF EntryOK
<1>2. RedisFailAction(e) = f
    BY Zenon DEF RedisFailAction
<1> HIDE DEF u
<1>3. f.run = r
    BY <1>1, Zenon DEF RedisEntry
<1>4. FailAction(e.run, k) = r
    BY Zenon DEF RedisLate, FailAction
<1>5. Keeps(e.run, r)
    BY KeepsEnd DEF EntryOK, RunState
<1>6. f \in RedisEntry /\ f.vars = e.vars
    BY <1>1, <1>3, <1>5, Zenon DEF RedisEntry, Keeps, Stored
<1>7. r.state = "failed"
    BY Zenon DEF EntryOK, Stored, RunRecord
<1> HIDE DEF r, f
<1> QED BY <1>2, <1>3, <1>4, <1>5, <1>6, <1>7 DEF EntryOK, Keeps, IsTerminal, Terminal

-----------------------------------------------------------------------------
(***************************************************************************)
(* A mutate function on the run as it is has the effect RunStore asks for, *)
(* and keeps the indexes of a run it does not take out of a terminal       *)
(* state.                                                                  *)
(***************************************************************************)
\* The operators of the instance are those of SagaStore.
LEMMA SameStore ==
    ASSUME NEW r, NEW x, NEW y, NEW z
    PROVE  /\ Store!UpdateRunState(r, x, y) = UpdateRunState(r, x, y)
           /\ Store!MarkRunFailed(r, x) = MarkRunFailed(r, x)
           /\ Store!Cancel(r) = Cancel(r)
           /\ Store!SetPausedWithWakeup(r) = SetPausedWithWakeup(r)
           /\ Store!SetPausedAwaitingSignal(r, x, y) = SetPausedAwaitingSignal(r, x, y)
           /\ Store!SetPausedAwaitingEvent(r, x, y) = SetPausedAwaitingEvent(r, x, y)
           /\ Store!ClearPause(r) = ClearPause(r)
           /\ Store!WakeFromExternal(r) = WakeFromExternal(r)
           /\ Store!AwaitsSignal(r, x) = AwaitsSignal(r, x)
           /\ Store!ConsumeSignal(r) = ConsumeSignal(r)
           /\ Store!CanPushTryCatch(r) = CanPushTryCatch(r)
           /\ Store!PushTryCatch(r, x) = PushTryCatch(r, x)
           /\ Store!PopTryCatch(r) = PopTryCatch(r)
           /\ Store!MarkAwaitingAction(r, x, y) = MarkAwaitingAction(r, x, y)
           /\ Store!CompleteAction(r, x) = CompleteAction(r, x)
           /\ Store!FailAction(r, x) = FailAction(r, x)
<1>1. Store!Terminal = Terminal /\ Store!MaxFrames = MaxFrames
    BY DEF Store!Terminal, Terminal, Store!MaxFrames, MaxFrames
<1>2. Store!IsTerminal(r) = IsTerminal(r) /\ Store!ClearAwaits(r) = ClearAwaits(r)
    BY <1>1, Zenon DEF Store!IsTerminal, IsTerminal, Store!ClearAwaits, ClearAwaits
<1>3. /\ Store!UpdateRunState(r, x, y) = UpdateRunState(r, x, y)
      /\ Store!MarkRunFailed(r, x) = MarkRunFailed(r, x)
      /\ Store!Cancel(r) = Cancel(r)
    BY <1>2, Zenon DEF Store!UpdateRunState, UpdateRunState, Store!MarkRunFailed, MarkRunFailed,
                       Store!Cancel, Cancel
<1>4. /\ Store!SetPausedWithWakeup(r) = SetPausedWithWakeup(r)
      /\ Store!SetPausedAwaitingSignal(r, x, y) = SetPausedAwaitingSignal(r, x, y)
      /\ Store!SetPausedAwaitingEvent(r, x, y) = SetPausedAwaitingEvent(r, x, y)
    BY Zenon DEF Store!SetPausedWithWakeup, SetPausedWithWakeup,
                 Store!SetPausedAwaitingSignal, SetPausedAwaitingSignal,
                 Store!SetPausedAwaitingEvent, SetPausedAwaitingEvent
<1>5. /\ Store!ClearPause(r) = ClearPause(r)
      /\ Store!WakeFromExternal(r) = WakeFromExternal(r)
      /\ Store!AwaitsSignal(r, x) = AwaitsSignal(r, x)
      /\ Store!ConsumeSignal(r) = ConsumeSignal(r)
    BY <1>2, Zenon DEF Store!ClearPause, ClearPause, Store!WakeFromExternal, WakeFromExternal,
                 Store!AwaitsSignal, AwaitsSignal, Store!ConsumeSignal, ConsumeSignal
<1>6. /\ Store!CanPushTryCatch(r) = CanPushTryCatch(r)
      /\ Store!PushTryCatch(r, x) = PushTryCatch(r, x)
      /\ Store!PopTryCatch(r) = PopTryCatch(r)
    BY <1>1, Zenon DEF Store!CanPushTryCatch, CanPushTryCatch, Store!PushTryCatch, PushTryCatch,
                 Store!PopTryCatch, PopTryCatch
<1>7. /\ Store!MarkAwaitingAction(r, x, y) = MarkAwaitingAction(r, x, y)
      /\ Store!CompleteAction(r, x) = CompleteAction(r, x)
      /\ Store!FailAction(r, x) = FailAction(r, x)
    BY Zenon DEF Store!MarkAwaitingAction, MarkAwaitingAction, Store!CompleteAction,
                 CompleteAction, Store!FailAction, FailAction
<1> QED BY <1>3, <1>4, <1>5, <1>6, <1>7, Zenon

\* Results and Written, kind by kind.
LEMMA Effects ==
    ASSUME NEW op, NEW r, NEW w
    PROVE  /\ op.kind = "state" => UpdateRunState(r, op.state, op.step) \in Store!Results(op, r)
           /\ op.kind = "failed" => MarkRunFailed(r, op.step) \in Store!Results(op, r)
           /\ op.kind = "cancel" => Cancel(r) \in Store!Results(op, r)
           /\ op.kind = "vars" => r \in Store!Results(op, r)
           /\ op.kind = "wait" => SetPausedWithWakeup(r) \in Store!Results(op, r)
           /\ op.kind = "signal" =>
                SetPausedAwaitingSignal(r, op.name, op.deadline) \in Store!Results(op, r)
           /\ op.kind = "event" =>
                SetPausedAwaitingEvent(r, op.name, op.deadline) \in Store!Results(op, r)
           /\ op.kind = "clear" => ClearPause(r) \in Store!Results(op, r)
           /\ op.kind = "wake" => WakeFromExternal(r) \in Store!Results(op, r)
           /\ op.kind = "consume" => (IF AwaitsSignal(r, op.name) THEN ConsumeSignal(r) ELSE r)
                                        \in Store!Results(op, r)
           /\ op.kind = "push" => (IF CanPushTryCatch(r) THEN PushTryCatch(r, op.step) ELSE r)
                                        \in Store!Results(op, r)
           /\ op.kind = "pop" => (IF r.frames # <<>> THEN PopTryCatch(r) ELSE r)
                                        \in Store!Results(op, r)
           /\ op.kind = "mark" =>
                MarkAwaitingAction(r, op.step, op.attempt) \in Store!Results(op, r)
           /\ op.kind = "complete" => CompleteAction(r, op.attempt) \in Store!Results(op, r)
           /\ op.kind = "fail" => FailAction(r, op.attempt) \in Store!Results(op, r)
<1> USE DEF Store!Results
<1>1. op.kind = "state" => UpdateRunState(r, op.state, op.step) \in Store!Results(op, r)
    BY SameStore
<1>2. op.kind = "failed" => MarkRunFailed(r, op.step) \in Store!Results(op, r)
    BY SameStore
<1>3. op.kind = "cancel" => Cancel(r) \in Store!Results(op, r)
    BY SameStore
<1>4. op.kind = "vars" => r \in Store!Results(op, r)
    OBVIOUS
<1>5. op.kind = "wait" => SetPausedWithWakeup(r) \in Store!Results(op, r)
    BY SameStore
<1>6. op.kind = "signal" =>
         SetPausedAwaitingSignal(r, op.name, op.deadline) \in Store!Results(op, r)
    BY SameStore
<1>7. op.kind = "event" =>
         SetPausedAwaitingEvent(r, op.name, op.deadline) \in Store!Results(op, r)
    BY SameStore
<1>8. op.kind = "clear" => ClearPause(r) \in Store!Results(op, r)
    BY SameStore
<1>9. op.kind = "wake" => WakeFromExternal(r) \in Store!Results(op, r)
    BY SameStore
<1>10. op.kind = "consume" =>
         (IF AwaitsSignal(r, op.name) THEN ConsumeSignal(r) ELSE r) \in Store!Results(op, r)
    BY SameStore
<1>11. op.kind = "push" =>
         (IF CanPushTryCatch(r) THEN PushTryCatch(r, op.step) ELSE r) \in Store!Results(op, r)
    BY SameStore
<1>12. op.kind = "pop" =>
         (IF r.frames # <<>> THEN PopTryCatch(r) ELSE r) \in Store!Results(op, r)
    BY SameStore
<1>13. op.kind = "mark" => MarkAwaitingAction(r, op.step, op.attempt) \in Store!Results(op, r)
    BY SameStore
<1>14. op.kind = "complete" => CompleteAction(r, op.attempt) \in Store!Results(op, r)
    BY SameStore
<1>15. op.kind = "fail" => FailAction(r, op.attempt) \in Store!Results(op, r)
    BY SameStore
<1> QED BY <1>1, <1>2, <1>3, <1>4, <1>5, <1>6, <1>7, <1>8, <1>9, <1>10, <1>11, <1>12, <1>13,
           <1>14, <1>15, Zenon

\* idx:wakeup and idx:awaitevent hold a run that has not ended.
Indexed(e) ==
    ~IsTerminal(e.run) =>
        /\ e.run.wakeup # "none" => e.wake = e.run.wakeup
        /\ e.run.topic # Nil => e.run.topic \in e.topics

\* f is what the call op makes of the entry e.
Effect(op, e, f) ==
    /\ EntryOK(f) /\ Keeps(e.run, f.run)
    /\ f.run \in Store!Results(op, e.run)
    /\ f.vars = Store!Written(op, e.run, e.vars)
    /\ Indexed(e) /\ ~Revives(e.run, f.run) => Indexed(f)

LEMMA WrittenOf ==
    ASSUME NEW op, NEW r, NEW w
    PROVE  /\ op.kind \notin {"vars", "complete"} => Store!Written(op, r, w) = w
           /\ op.kind = "vars" => Store!Written(op, r, w) = w \cup {"step"}
           /\ op.kind = "complete" => Store!Written(op, r, w) =
                    IF r.attempt = op.attempt THEN w \cup {"result"} ELSE w
BY DEF Store!Written

LEMMA RedisAgrees ==
    ASSUME NEW e, EntryOK(e), NEW op, OpOK(op),
           ~RedisAborts(op, e), op.kind = "push" => ~RedisStackFull(e)
    PROVE  Effect(op, e, RedisMutate(op, e))
<1> DEFINE f == RedisMutate(op, e)
<1>0. /\ op.kind \in Store!Kind /\ op.step \in Step \cup {Nil} /\ op.attempt \in Nat
      /\ op.deadline \in BOOLEAN
    BY DEF OpOK, Store!Op
<1>1. CASE op.kind = "state"
  <2>1. f = RedisUpdateRunState(e, op.state, op.step)
      BY <1>1 DEF RedisMutate
  <2>2. op.state \in RunState \ {"absent"}
      BY <1>1 DEF OpOK, RunState
  <2>3. /\ EntryOK(f) /\ Keeps(e.run, f.run) /\ f.vars = e.vars
        /\ f.run = UpdateRunState(e.run, op.state, op.step)
        /\ op.state \notin Terminal => f.wake = e.wake /\ f.topics = e.topics
    <3>1. EntryOK(e) /\ op.step \in Step \cup {Nil}
        BY <1>0
    <3> HIDE DEF f
    <3>2. LET g == RedisUpdateRunState(e, op.state, op.step) IN
          /\ EntryOK(g) /\ Keeps(e.run, g.run) /\ g.vars = e.vars
          /\ g.run = UpdateRunState(e.run, op.state, op.step)
          /\ op.state \notin Terminal => g.wake = e.wake /\ g.topics = e.topics
        BY <2>2, <3>1, OfState, Zenon
    <3> QED BY <2>1, <3>2, Zenon
  <2>4. LET r == UpdateRunState(e.run, op.state, op.step) IN
        r.state = op.state /\ r.wakeup = e.run.wakeup /\ r.topic = e.run.topic
      BY Zenon DEF UpdateRunState, EntryOK, Stored, RunRecord
  <2>5. Indexed(e) /\ ~Revives(e.run, f.run) => Indexed(f)
      BY <2>3, <2>4 DEF Indexed, Revives, IsTerminal
  <2> QED BY <1>1, <2>3, <2>5, Effects, WrittenOf DEF Effect
<1>2. CASE op.kind = "failed"
  <2>1. f = RedisMarkRunFailed(e, op.step)
      BY <1>2 DEF RedisMutate
  <2>2. /\ EntryOK(f) /\ Keeps(e.run, f.run) /\ f.vars = e.vars
        /\ f.run = MarkRunFailed(e.run, op.step) /\ (IsTerminal(f.run) \/ f = e)
      BY <2>1, <1>0, OfFailed
  <2> QED BY <1>2, <2>2, Effects, WrittenOf DEF Effect, Indexed
<1>3. CASE op.kind = "cancel"
  <2>1. f = RedisCancel(e)
      BY <1>3 DEF RedisMutate
  <2>2. /\ EntryOK(f) /\ Keeps(e.run, f.run) /\ f.vars = e.vars
        /\ f.run = Cancel(e.run) /\ (IsTerminal(f.run) \/ f = e)
      BY <2>1, OfCancel
  <2> QED BY <1>3, <2>2, Effects, WrittenOf DEF Effect, Indexed
<1>4. CASE op.kind = "vars"
  <2>1. f = RedisUpdateRunVariables(e)
      BY <1>4 DEF RedisMutate
  <2>2. /\ EntryOK(f) /\ f.run = e.run /\ f.vars = e.vars \cup {"step"}
        /\ f.wake = e.wake /\ f.topics = e.topics
      BY <2>1, OfVariables
  <2>3. Keeps(e.run, f.run) /\ (Indexed(e) => Indexed(f))
      BY <2>2, KeepsItself DEF EntryOK, Indexed
  <2> QED BY <1>4, <2>2, <2>3, Effects, WrittenOf DEF Effect
<1>5. CASE op.kind = "wait"
  <2>1. f = RedisSetPausedWithWakeup(e)
      BY <1>5 DEF RedisMutate
  <2>2. /\ EntryOK(f) /\ Keeps(e.run, f.run) /\ f.vars = e.vars
        /\ f.run = SetPausedWithWakeup(e.run) /\ f.run.state = "paused"
        /\ f.run.wakeup = "later" /\ f.wake = "later"
        /\ f.run.topic = e.run.topic /\ f.topics = e.topics
      BY <2>1, OfWait
  <2> QED BY <1>5, <2>2, Effects, WrittenOf DEF Effect, Indexed, Revives, IsTerminal, Terminal
<1>6. CASE op.kind = "signal"
  <2>1. f = RedisSetPausedAwaitingSignal(e, op.name, op.deadline)
      BY <1>6 DEF RedisMutate
  <2>2. op.name \in Name
      BY <1>6 DEF OpOK
  <2>3. /\ EntryOK(f) /\ Keeps(e.run, f.run) /\ f.vars = e.vars
        /\ f.run = SetPausedAwaitingSignal(e.run, op.name, op.deadline)
        /\ f.run.state = "paused" /\ f.run.topic = e.run.topic /\ f.topics = e.topics
        /\ f.run.wakeup = IF op.deadline THEN "later" ELSE e.run.wakeup
        /\ f.wake = IF op.deadline THEN "later" ELSE e.wake
      BY <2>1, <2>2, <1>0, OfSignal
  <2>4. Indexed(e) /\ ~Revives(e.run, f.run) => Indexed(f)
      BY <2>3 DEF Indexed, Revives, IsTerminal, Terminal
  <2> QED BY <1>6, <2>3, <2>4, Effects, WrittenOf DEF Effect
<1>7. CASE op.kind = "event"
  <2>1. f = RedisSetPausedAwaitingEvent(e, op.name, op.deadline)
      BY <1>7 DEF RedisMutate
  <2>2. op.name \in Name
      BY <1>7 DEF OpOK
  <2>3. /\ EntryOK(f) /\ Keeps(e.run, f.run) /\ f.vars = e.vars
        /\ f.run = SetPausedAwaitingEvent(e.run, op.name, op.deadline)
        /\ f.run.state = "paused" /\ f.run.topic = op.name
        /\ f.topics = e.topics \cup {op.name}
        /\ f.run.wakeup = IF op.deadline THEN "later" ELSE "none"
        /\ f.wake = IF op.deadline THEN "later" ELSE e.wake
      BY <2>1, <2>2, <1>0, OfEvent
  <2>4. Indexed(e) /\ ~Revives(e.run, f.run) => Indexed(f)
      BY <2>3 DEF Indexed, Revives, IsTerminal, Terminal
  <2> QED BY <1>7, <2>3, <2>4, Effects, WrittenOf DEF Effect
<1>8. CASE op.kind = "clear"
  <2>1. f = RedisClearPause(e)
      BY <1>8 DEF RedisMutate
  <2> QED BY <1>8, <2>1, OfClears, Effects, WrittenOf DEF Effect, Indexed
<1>9. CASE op.kind = "wake"
  <2>1. RedisWakeFromExternal(e).run = WakeFromExternal(e.run)
      BY Zenon DEF RedisWakeFromExternal, WakeFromExternal, ClearAwaits, Unindexed, EntryOK, RedisEntry
  <2>2. f = RedisWakeFromExternal(e)
      BY <1>9 DEF RedisMutate
  <2> QED BY <1>9, <2>1, <2>2, OfClears, Effects, WrittenOf DEF Effect, Indexed
<1>10. CASE op.kind = "consume"
  <2>1. RedisTryConsume(e).run = ConsumeSignal(e.run)
      BY Zenon DEF RedisTryConsume, ConsumeSignal, ClearAwaits, Unindexed, EntryOK, RedisEntry
  <2>2. f = RedisTryConsume(e)
      BY <1>10 DEF RedisMutate
  <2>3. AwaitsSignal(e.run, op.name)
      BY <1>10 DEF RedisAborts, RedisConsumable, AwaitsSignal
  <2> QED BY <1>10, <2>1, <2>2, <2>3, OfClears, Effects, WrittenOf DEF Effect, Indexed
<1>11. CASE op.kind = "push"
  <2>1. f = RedisPushTryCatch(e, op.step) /\ op.step \in Step
      BY <1>11 DEF RedisMutate, OpOK
  <2>2. CanPushTryCatch(e.run)
      BY <1>11 DEF RedisStackFull, CanPushTryCatch, EntryOK, Stored, RunRecord, MaxFrames
  <2> QED BY <1>11, <2>1, <2>2, OfFrames, Effects, WrittenOf
          DEF Effect, Indexed, Revives, IsTerminal
<1>12. CASE op.kind = "pop"
  <2>1. f = RedisPopTryCatch(e)
      BY <1>12 DEF RedisMutate
  <2>2. ~RedisStackEmpty(e) /\ e.run.frames # <<>>
      BY <1>12 DEF RedisAborts, RedisStackEmpty
  <2>3. PICK s \in Step : TRUE
      BY BackendsAssumption
  <2>4. f # RedisPushTryCatch(e, s)
    <3>1. Len(PopTryCatch(e.run).frames) # Len(PushTryCatch(e.run, s).frames)
        BY <2>2, EmptySeq DEF PopTryCatch, PushTryCatch, EntryOK, Stored, RunRecord
    <3>2. f.run = PopTryCatch(e.run) /\ RedisPushTryCatch(e, s).run = PushTryCatch(e.run, s)
        BY <2>1, Zenon DEF RedisPushTryCatch, RedisPopTryCatch, PushTryCatch, PopTryCatch,
                           EntryOK, RedisEntry
    <3> QED BY <3>1, <3>2
  <2>5. /\ EntryOK(f) /\ Keeps(e.run, f.run) /\ f.run = PopTryCatch(e.run)
        /\ f.run.state = e.run.state /\ f.run.wakeup = e.run.wakeup
        /\ f.run.topic = e.run.topic
        /\ f.vars = e.vars /\ f.wake = e.wake /\ f.topics = e.topics
      BY <2>1, <2>2, <2>4, OfFrames
  <2>6. Indexed(e) => Indexed(f)
      BY <2>5 DEF Indexed, IsTerminal
  <2> QED BY <1>12, <2>2, <2>5, <2>6, Effects, WrittenOf DEF Effect
<1>13. CASE op.kind = "mark"
  <2>1. f = RedisMarkAwaitingAction(e, op.step, op.attempt)
      BY <1>13 DEF RedisMutate
  <2>2. ~RedisMarked(e, op.step, op.attempt)
      BY <1>13 DEF RedisAborts
  <2>3. /\ EntryOK(f) /\ Keeps(e.run, f.run)
        /\ f.run = MarkAwaitingAction(e.run, op.step, op.attempt)
        /\ f.run.state = "paused" /\ f.run.wakeup = e.run.wakeup
        /\ f.run.topic = e.run.topic
        /\ f.vars = e.vars /\ f.wake = e.wake /\ f.topics = e.topics
      BY <1>0, <2>1, <2>2, OfMark
  <2>4. Indexed(e) /\ ~Revives(e.run, f.run) => Indexed(f)
      BY <2>3 DEF Indexed, Revives, IsTerminal, Terminal
  <2> QED BY <1>13, <2>3, <2>4, Effects, WrittenOf DEF Effect
<1>14. CASE op.kind = "complete"
  <2>1. f = RedisCompleteAction(e)
      BY <1>14 DEF RedisMutate
  <2>2. ~RedisLate(e, op.attempt) /\ e.run.attempt = op.attempt
      BY <1>14 DEF RedisAborts, RedisLate
  <2>3. /\ EntryOK(f) /\ Keeps(e.run, f.run) /\ f.run = CompleteAction(e.run, op.attempt)
        /\ f.vars = e.vars \cup {"result"}
        /\ f.run.state = e.run.state /\ f.run.topic = e.run.topic
        /\ f.run.wakeup = "due" /\ f.wake = "due" /\ f.topics = e.topics
      BY <1>0, <2>1, <2>2, OfComplete
  <2>4. Indexed(e) => Indexed(f)
      BY <2>3 DEF Indexed, IsTerminal
  <2> QED BY <1>14, <2>2, <2>3, <2>4, Effects, WrittenOf DEF Effect
<1>15. CASE op.kind = "fail"
  <2>1. f = RedisFailAction(e)
      BY <1>15 DEF RedisMutate
  <2>2. ~RedisLate(e, op.attempt)
      BY <1>15 DEF RedisAborts
  <2> QED BY <1>15, <1>0, <2>1, <2>2, OfFail, Effects, WrittenOf DEF Effect, Indexed
<1> QED BY <1>0, <1>1, <1>2, <1>3, <1>4, <1>5, <1>6, <1>7, <1>8, <1>9, <1>10, <1>11, <1>12,
           <1>13, <1>14, <1>15 DEF Store!Kind
-----------------------------------------------------------------------------
(***************************************************************************)
(* The same for an UPDATE of the Postgres store.                           *)
(***************************************************************************)
\* Most UPDATEs do what the memory store does.
LEMMA SameUpdates ==
    ASSUME NEW r, NEW x, NEW y
    PROVE  /\ PgUpdateRunState(r, x, y) = UpdateRunState(r, x, y)
           /\ PgMarkRunFailed(r, x) = MarkRunFailed(r, x)
           /\ PgCancel(r) = Cancel(r)
           /\ PgSetPausedWithWakeup(r) = SetPausedWithWakeup(r)
           /\ PgSetPausedAwaitingEvent(r, x, y) = SetPausedAwaitingEvent(r, x, y)
           /\ PgClearPause(r) = ClearPause(r)
           /\ PgWakeFromExternal(r) = WakeFromExternal(r)
           /\ PgTryConsume(r) = ConsumeSignal(r)
           /\ PgPushTryCatch(r, x) = PushTryCatch(r, x)
           /\ PgPopTryCatch(r) = IF r.frames # <<>> THEN PopTryCatch(r) ELSE r
           /\ PgCompleteAction(r, x) = CompleteAction(r, x)
           /\ PgFailAction(r, x) = FailAction(r, x)
<1>1. InFlight(r) <=> ~IsTerminal(r)
    BY DEF InFlight, IsTerminal, Terminal
<1>2. /\ PgUpdateRunState(r, x, y) = UpdateRunState(r, x, y)
      /\ PgMarkRunFailed(r, x) = MarkRunFailed(r, x)
    BY <1>1, Zenon DEF PgUpdateRunState, UpdateRunState, PgMarkRunFailed, MarkRunFailed
<1>3. PgCancel(r) = Cancel(r)
  <2>1. [r EXCEPT !.state = "cancelled", !.wakeup = "none", !.signal = Nil, !.topic = Nil,
                  !.action = Nil] = [ClearAwaits(r) EXCEPT !.state = "cancelled", !.action = Nil]
      BY DEF ClearAwaits
  <2> QED BY <1>1, <2>1, Zenon DEF PgCancel, Cancel
<1>4. /\ PgSetPausedWithWakeup(r) = SetPausedWithWakeup(r)
      /\ PgSetPausedAwaitingEvent(r, x, y) = SetPausedAwaitingEvent(r, x, y)
    BY Zenon DEF PgSetPausedWithWakeup, SetPausedWithWakeup, PgSetPausedAwaitingEvent,
                 SetPausedAwaitingEvent
<1>5. PgClearPause(r) = ClearPause(r)
    BY DEF PgClearPause, ClearPause, ClearAwaits
<1>6. PgWakeFromExternal(r) = WakeFromExternal(r) /\ PgTryConsume(r) = ConsumeSignal(r)
    BY DEF PgWakeFromExternal, WakeFromExternal, ClearAwaits, PgTryConsume, ConsumeSignal
<1>7. /\ PgPushTryCatch(r, x) = PushTryCatch(r, x)
      /\ PgPopTryCatch(r) = IF r.frames # <<>> THEN PopTryCatch(r) ELSE r
    BY Zenon DEF PgPushTryCatch, PushTryCatch, PgPopTryCatch, PopTryCatch
<1>8. /\ PgCompleteAction(r, x) = CompleteAction(r, x)
      /\ PgFailAction(r, x) = FailAction(r, x)
    BY Zenon DEF PgCompleteAction, CompleteAction, PgFailAction, FailAction
<1> QED BY <1>2, <1>3, <1>4, <1>5, <1>6, <1>7, <1>8, Zenon

LEMMA PostgresAgrees ==
    ASSUME NEW r, Stored(r), NEW op, OpOK(op)
    PROVE  /\ Keeps(r, PgRow(op, r))
           /\ PgRow(op, r) \in Store!Results(op, r)
           /\ op.kind = "push" /\ PgStackFull(r) => PgRow(op, r) = r
<1> DEFINE q == PgRow(op, r)
<1>0. /\ op.kind \in Store!Kind /\ op.step \in Step \cup {Nil} /\ op.attempt \in Nat
      /\ op.deadline \in BOOLEAN /\ Keeps(r, r)
    BY KeepsItself DEF OpOK, Store!Op
<1>1. CASE op.kind = "state"
  <2>1. q = UpdateRunState(r, op.state, op.step) /\ op.state \in RunState \ {"absent"}
      BY <1>1, SameUpdates DEF PgRow, OpOK, RunState
  <2> QED BY <1>0, <1>1, <2>1, KeepsUpdates, Effects
<1>2. CASE op.kind = "failed"
  <2>1. q = MarkRunFailed(r, op.step)
      BY <1>2, SameUpdates DEF PgRow
  <2> QED BY <1>0, <1>2, <2>1, KeepsUpdates, Effects
<1>3. CASE op.kind = "cancel"
  <2>1. q = Cancel(r)
      BY <1>3, SameUpdates DEF PgRow
  <2> QED BY <1>3, <2>1, KeepsClears, Effects
<1>4. CASE op.kind = "vars"
  <2>1. q = r
      BY <1>4 DEF PgRow
  <2> QED BY <1>0, <1>4, <2>1, Effects
<1>5. CASE op.kind = "wait"
  <2>1. q = SetPausedWithWakeup(r)
      BY <1>5, SameUpdates DEF PgRow
  <2>2. Keeps(r, q)
      BY <2>1, KeepsPauses, BackendsAssumption, 0 \in Nat, Nil \in Name \cup {Nil}, TRUE \in BOOLEAN
  <2> QED BY <1>5, <2>1, <2>2, Effects
<1>6. CASE op.kind = "signal"
  <2>1. q = PgSetPausedAwaitingSignal(r, op.name, op.deadline) /\ op.name \in Name
      BY <1>6 DEF PgRow, OpOK
  <2>2. Keeps(r, q)
    <3>1. /\ op.deadline =>
                q = [r EXCEPT !.state = "paused", !.signal = op.name, !.wakeup = "later"]
          /\ ~op.deadline =>
                q = [r EXCEPT !.state = "paused", !.signal = op.name, !.wakeup = "none"]
        BY <2>1, Zenon DEF PgSetPausedAwaitingSignal
    <3>2. "later" \in Wakeup /\ "none" \in Wakeup /\ op.name \in Name \cup {Nil}
        BY <2>1 DEF Wakeup
    <3>3. /\ Keeps(r, [r EXCEPT !.state = "paused", !.signal = op.name, !.wakeup = "later"])
          /\ Keeps(r, [r EXCEPT !.state = "paused", !.signal = op.name, !.wakeup = "none"])
        BY <3>2, KeepsWaits, Zenon
    <3> QED BY <3>1, <3>3, Zenon
  <2>3. CASE op.deadline
    <3>1. q = SetPausedAwaitingSignal(r, op.name, op.deadline)
        BY <2>1, <2>3, Zenon DEF PgSetPausedAwaitingSignal, SetPausedAwaitingSignal
    <3> QED BY <1>6, <2>2, <3>1, Effects
  <2>4. CASE ~op.deadline
    <3>1. q = [SetPausedAwaitingSignal(r, op.name, FALSE) EXCEPT !.wakeup = "none"]
        BY <2>1, <2>4 DEF PgSetPausedAwaitingSignal, SetPausedAwaitingSignal
    <3>2. q \in Store!Results(op, r)
        BY <1>6, <2>4, <3>1, SameStore, Zenon DEF Store!Results
    <3> QED BY <1>6, <2>2, <3>2
  <2> QED BY <2>3, <2>4
<1>7. CASE op.kind = "event"
  <2>1. q = SetPausedAwaitingEvent(r, op.name, op.deadline) /\ op.name \in Name
      BY <1>7, SameUpdates DEF PgRow, OpOK
  <2> QED BY <1>0, <1>7, <2>1, Pausing, Effects
<1>8. CASE op.kind = "clear"
  <2>1. q = ClearPause(r)
      BY <1>8, SameUpdates DEF PgRow
  <2> QED BY <1>8, <2>1, KeepsClears, Effects
<1>9. CASE op.kind = "wake"
  <2>1. q = WakeFromExternal(r)
      BY <1>9, SameUpdates DEF PgRow
  <2> QED BY <1>9, <2>1, KeepsClears, Effects
<1>10. CASE op.kind = "consume"
  <2>1. q = IF AwaitsSignal(r, op.name) THEN ConsumeSignal(r) ELSE r
      BY <1>10, SameUpdates DEF PgRow, PgConsumable, AwaitsSignal
  <2> QED BY <1>0, <1>10, <2>1, KeepsClears, Effects
<1>11. CASE op.kind = "push"
  <2>1. PgStackFull(r) <=> ~CanPushTryCatch(r)
      BY DEF PgStackFull, CanPushTryCatch, MaxFrames, Stored, RunRecord
  <2>2. q = IF CanPushTryCatch(r) THEN PushTryCatch(r, op.step) ELSE r
      BY <1>11, <2>1, SameUpdates DEF PgRow
  <2>3. op.step \in Step
      BY <1>11 DEF OpOK
  <2> QED BY <1>0, <1>11, <2>1, <2>2, <2>3, KeepsFrames, Effects
<1>12. CASE op.kind = "pop"
  <2>1. q = IF r.frames # <<>> THEN PopTryCatch(r) ELSE r
      BY <1>12, SameUpdates DEF PgRow
  <2> QED BY <1>0, <1>12, <2>1, KeepsFrames, Effects
<1>13. CASE op.kind = "mark"
  <2>1. q = PgMarkAwaitingAction(r, op.step, op.attempt) /\ op.step \in Step
      BY <1>13 DEF PgRow, OpOK
  <2>2. CASE r.attempt = op.attempt /\ r.action = Nil
    <3>1. q = r
        BY <2>1, <2>2 DEF PgMarkAwaitingAction
    <3>2. r \in Store!Results(op, r)
        BY <1>13, <2>2, Zenon DEF Store!Results
    <3> QED BY <1>0, <1>13, <3>1, <3>2
  <2>3. CASE ~(r.attempt = op.attempt /\ r.action = Nil)
    <3>1. q = MarkAwaitingAction(r, op.step, op.attempt)
        BY <2>1, <2>3, Zenon DEF PgMarkAwaitingAction, MarkAwaitingAction
    <3>2. Keeps(r, q)
        BY <1>0, <2>1, <3>1, KeepsPauses, Nil \in Name \cup {Nil}, TRUE \in BOOLEAN
    <3> QED BY <1>13, <3>1, <3>2, Effects
  <2> QED BY <2>2, <2>3
<1>14. CASE op.kind \in {"complete", "fail"}
  <2>1. /\ op.kind = "complete" => q = CompleteAction(r, op.attempt)
        /\ op.kind = "fail" => q = FailAction(r, op.attempt)
      BY <1>14, SameUpdates DEF PgRow
  <2>2. Keeps(r, CompleteAction(r, op.attempt)) /\ Keeps(r, FailAction(r, op.attempt))
      BY <1>0, KeepsPauses, BackendsAssumption, Nil \in Name \cup {Nil}, TRUE \in BOOLEAN
  <2> QED BY <1>14, <2>1, <2>2, Effects
<1> QED BY <1>0, <1>1, <1>2, <1>3, <1>4, <1>5, <1>6, <1>7, <1>8, <1>9, <1>10, <1>11, <1>12,
           <1>13, <1>14 DEF Store!Kind

LEMMA SameVariables ==
    ASSUME NEW op, NEW r, NEW w
    PROVE  PgVariables(op, r, w) = Store!Written(op, r, w)
BY DEF PgVariables, Store!Written
-----------------------------------------------------------------------------
(***************************************************************************)
(* Time.  A wakeup that passes while a call is under way changes nothing   *)
(* about what the call makes of the run: Tick commutes with every call,    *)
(* but for the wakeup the call itself brings.                              *)
(***************************************************************************)
Due(r) == [r EXCEPT !.wakeup = IF @ = "later" THEN "due" ELSE @]

LEMMA DueFields ==
    ASSUME NEW r, Stored(r)
    PROVE  /\ Keeps(r, Due(r))
           /\ Due(r).wakeup = IF r.wakeup = "later" THEN "due" ELSE r.wakeup
           /\ Due(r).state = r.state /\ Due(r).signal = r.signal /\ Due(r).topic = r.topic
           /\ Due(r).action = r.action /\ Due(r).attempt = r.attempt
           /\ Due(r).frames = r.frames
           /\ IsTerminal(Due(r)) <=> IsTerminal(r)
           /\ r.wakeup # "later" => Due(r) = r
<1> DEFINE w == IF r.wakeup = "later" THEN "due" ELSE r.wakeup
<1>1. w \in Wakeup
    BY DEF Stored, RunRecord, Wakeup
<1>2. Due(r) = [r EXCEPT !.wakeup = w]
    BY DEF Due
<1> HIDE DEF w
<1>3. Keeps(r, Due(r))
    BY <1>1, <1>2, KeepsWakeup
<1>4. /\ Due(r).wakeup = w
      /\ Due(r).state = r.state /\ Due(r).signal = r.signal /\ Due(r).topic = r.topic
      /\ Due(r).action = r.action /\ Due(r).attempt = r.attempt
      /\ Due(r).frames = r.frames
    BY <1>2, Zenon DEF Stored, RunRecord
<1>5. r.wakeup # "later" => Due(r) = r
  <2>1. [r EXCEPT !.wakeup = r.wakeup] = r
      BY SMT DEF Stored, RunRecord
  <2> QED BY <1>2, <2>1 DEF w
<1> QED BY <1>3, <1>4, <1>5 DEF w, IsTerminal

LEMMA ElapsedFields ==
    ASSUME NEW e, EntryOK(e)
    PROVE  /\ EntryOK(Elapsed(e)) /\ Keeps(e.run, Elapsed(e).run)
           /\ Elapsed(e).run = Due(e.run)
           /\ Elapsed(e).vars = e.vars /\ Elapsed(e).topics = e.topics
           /\ Elapsed(e).wake = IF e.wake = "later" THEN "due" ELSE e.wake
           /\ Indexed(e) => Indexed(Elapsed(e))
<1> DEFINE f == Elapsed(e)
<1>1. f.run = Due(e.run)
    BY Zenon DEF Elapsed, Due, EntryOK, RedisEntry
<1>2. Keeps(e.run, f.run)
    BY <1>1, DueFields DEF EntryOK
<1>3. (IF e.wake = "later" THEN "due" ELSE e.wake) \in Wakeup
    BY DEF EntryOK, RedisEntry, Wakeup
<1>4. /\ f \in RedisEntry /\ f.vars = e.vars /\ f.topics = e.topics
      /\ f.wake = IF e.wake = "later" THEN "due" ELSE e.wake
    BY <1>2, <1>3, Zenon DEF Elapsed, EntryOK, RedisEntry, Keeps, Stored
<1> HIDE DEF f
<1>5. Indexed(e) => Indexed(f)
    BY <1>1, <1>4, DueFields DEF Indexed, EntryOK
<1> QED BY <1>1, <1>2, <1>4, <1>5 DEF EntryOK, Keeps, f

LEMMA ResultsElapse ==
    ASSUME NEW r, Stored(r), NEW op, OpOK(op), NEW q \in Store!Results(op, r)
    PROVE  (IF FreshWakeup(op) THEN q ELSE Due(q)) \in Store!Results(op, Due(r))
<1> DEFINE w == IF r.wakeup = "later" THEN "due" ELSE r.wakeup
           d == [r EXCEPT !.wakeup = w]
           p == IF FreshWakeup(op) THEN q ELSE Due(q)
<1>0. /\ op.kind \in Store!Kind /\ op.step \in Step \cup {Nil} /\ op.attempt \in Nat
      /\ op.deadline \in BOOLEAN /\ Keeps(r, r)
    BY KeepsItself DEF OpOK, Store!Op
<1>1. Due(r) = d
    BY DEF Due
<1>2. /\ d.state = r.state /\ d.signal = r.signal /\ d.action = r.action
      /\ d.attempt = r.attempt /\ d.frames = r.frames /\ d.wakeup = w
      /\ IsTerminal(d) <=> IsTerminal(r)
    BY <1>1, DueFields
<1>3. ASSUME NEW u, u.wakeup = r.wakeup PROVE Due(u) = [u EXCEPT !.wakeup = w]
    BY <1>3 DEF Due
<1>4. ASSUME NEW u, Stored(u), u.wakeup # "later" PROVE Due(u) = u
    BY <1>4, DueFields
<1>5. op.kind \notin {"wait", "signal", "event"} => p = Due(q)
    BY DEF FreshWakeup, OpOK
<1> SUFFICES p \in Store!Results(op, d)
    BY <1>1
<1> HIDE DEF w, d, p
<1>6. CASE op.kind = "state"
  <2>1. q = UpdateRunState(r, op.state, op.step) /\ p = Due(q)
      BY <1>5, <1>6, SameStore DEF Store!Results
  <2>2. q.wakeup = r.wakeup
      BY <2>1, Zenon DEF UpdateRunState, Stored, RunRecord
  <2>3. UpdateRunState(d, op.state, op.step)
          = [UpdateRunState(r, op.state, op.step) EXCEPT !.wakeup = w]
      BY DEF UpdateRunState, d
  <2>4. p = UpdateRunState(d, op.state, op.step)
      BY <1>3, <2>1, <2>2, <2>3, Zenon
  <2> QED BY <1>6, <2>4, Effects
<1>7. CASE op.kind = "failed"
  <2>1. q = MarkRunFailed(r, op.step) /\ p = Due(q)
      BY <1>5, <1>7, SameStore DEF Store!Results
  <2>2. p = MarkRunFailed(d, op.step)
    <3>1. CASE IsTerminal(r)
        BY <1>1, <1>2, <2>1, <3>1 DEF MarkRunFailed
    <3>2. CASE ~IsTerminal(r)
      <4>1. /\ MarkRunFailed(r, op.step) = UpdateRunState(r, "failed", op.step)
            /\ MarkRunFailed(d, op.step) = UpdateRunState(d, "failed", op.step)
          BY <1>2, <3>2, Zenon DEF MarkRunFailed, UpdateRunState
      <4>2. UpdateRunState(r, "failed", op.step).wakeup = r.wakeup
          BY Zenon DEF UpdateRunState, Stored, RunRecord
      <4>3. UpdateRunState(d, "failed", op.step)
              = [UpdateRunState(r, "failed", op.step) EXCEPT !.wakeup = w]
          BY DEF UpdateRunState, d
      <4> QED BY <1>3, <2>1, <4>1, <4>2, <4>3, Zenon
    <3> QED BY <3>1, <3>2
  <2> QED BY <1>1, <1>7, <2>2, Effects
<1>8. CASE op.kind \in {"cancel", "clear", "wake", "consume"}
  <2>1. Keeps(r, ClearPause(r)) /\ Keeps(r, ClearAwaits(r)) /\ Keeps(r, Cancel(r))
      BY KeepsClears DEF WakeFromExternal
  <2>2. ClearAwaits(d) = ClearAwaits(r)
      BY DEF ClearAwaits, d
  <2>3. ClearAwaits(r).wakeup = "none" /\ ClearPause(r).wakeup = "none"
      BY Zenon DEF ClearAwaits, ClearPause, Stored, RunRecord
  <2>4. Due(ClearAwaits(r)) = ClearAwaits(r) /\ Due(ClearPause(r)) = ClearPause(r)
      BY <1>4, <2>1, <2>3 DEF Keeps
  <2>5. CASE op.kind = "cancel"
    <3>1. q = Cancel(r) /\ p = Due(q)
        BY <1>5, <2>5, SameStore DEF Store!Results
    <3>2. CASE IsTerminal(r)
        BY <1>1, <1>2, <2>5, <3>1, <3>2, Effects DEF Cancel
    <3>3. CASE ~IsTerminal(r)
      <4>1. Cancel(d) = Cancel(r)
          BY <1>2, <2>2, <3>3, Zenon DEF Cancel
      <4>2. Cancel(r).wakeup = "none"
        <5>1. Cancel(r) = [ClearAwaits(r) EXCEPT !.state = "cancelled", !.action = Nil]
            BY <3>3, Zenon DEF Cancel
        <5> QED BY <2>1, <2>3, <5>1, Zenon DEF Keeps, Stored, RunRecord
      <4>3. Due(q) = q
          BY <1>4, <2>1, <3>1, <4>2 DEF Keeps
      <4> QED BY <1>1, <2>5, <3>1, <4>1, <4>3, Effects
    <3> QED BY <3>2, <3>3
  <2>6. CASE op.kind = "clear"
    <3>1. q = ClearPause(r) /\ p = Due(q)
        BY <1>5, <2>6, SameStore DEF Store!Results
    <3>2. ClearPause(d) = ClearPause(r)
        BY <2>2, Zenon DEF ClearPause
    <3> QED BY <1>1, <2>4, <2>6, <3>1, <3>2, Effects
  <2>7. CASE op.kind = "wake"
    <3>1. q = WakeFromExternal(r) /\ p = Due(q)
        BY <1>5, <2>7, SameStore DEF Store!Results
    <3> QED BY <1>1, <2>2, <2>4, <2>7, <3>1, Effects DEF WakeFromExternal
  <2>8. CASE op.kind = "consume"
    <3>1. AwaitsSignal(d, op.name) <=> AwaitsSignal(r, op.name)
        BY <1>2 DEF AwaitsSignal
    <3>2. q = (IF AwaitsSignal(r, op.name) THEN ConsumeSignal(r) ELSE r) /\ p = Due(q)
        BY <1>5, <2>8, SameStore DEF Store!Results
    <3>3. p = IF AwaitsSignal(d, op.name) THEN ConsumeSignal(d) ELSE d
        BY <1>1, <2>2, <2>4, <3>1, <3>2 DEF ConsumeSignal
    <3> QED BY <1>1, <2>8, <3>3, Effects
  <2> QED BY <1>8, <2>5, <2>6, <2>7, <2>8
<1>9. CASE op.kind = "vars"
  <2>1. q = r /\ p = Due(q)
      BY <1>5, <1>9 DEF Store!Results
  <2> QED BY <1>1, <1>9, <2>1, Effects
<1>10. CASE op.kind = "wait"
  <2>1. p = SetPausedWithWakeup(r)
    <3>1. q = SetPausedWithWakeup(r)
        BY <1>10, SameStore DEF Store!Results
    <3> QED BY <1>10, <3>1 DEF FreshWakeup, p
  <2>2. SetPausedWithWakeup(d) = SetPausedWithWakeup(r)
      BY DEF SetPausedWithWakeup, d
  <2> QED BY <1>1, <1>10, <2>1, <2>2, Effects
<1>11. CASE op.kind = "signal"
  <2> DEFINE s == [r EXCEPT !.state = "paused", !.signal = op.name]
  <2>1. op.name \in Name \cup {Nil}
      BY <1>11 DEF OpOK
  <2>2. [d EXCEPT !.state = "paused", !.signal = op.name] = [s EXCEPT !.wakeup = w]
      BY DEF d
  <2>3. CASE op.deadline
    <3>1. q = SetPausedAwaitingSignal(r, op.name, op.deadline) /\ p = q
      <4>1. q = SetPausedAwaitingSignal(r, op.name, op.deadline)
          BY <1>11, <2>3, SameStore DEF Store!Results
      <4> QED BY <1>11, <2>3, <4>1 DEF FreshWakeup, p
    <3>2. SetPausedAwaitingSignal(d, op.name, op.deadline)
            = SetPausedAwaitingSignal(r, op.name, op.deadline)
        BY <2>3 DEF SetPausedAwaitingSignal, d
    <3> QED BY <1>1, <1>11, <3>1, <3>2, Effects
  <2>4. CASE ~op.deadline
    <3>1. p = Due(q)
        BY <1>11, <2>4 DEF FreshWakeup, p
    <3>2. CASE q = SetPausedAwaitingSignal(r, op.name, op.deadline)
      <4>1. /\ q = [s EXCEPT !.wakeup = r.wakeup] /\ q.wakeup = r.wakeup
            /\ [q EXCEPT !.wakeup = w] = [s EXCEPT !.wakeup = w]
        <5>1. q = [s EXCEPT !.wakeup = r.wakeup]
            BY <2>4, <3>2, Zenon DEF SetPausedAwaitingSignal
        <5>2. q.wakeup = r.wakeup
            BY <5>1, Zenon DEF Stored, RunRecord
        <5>3. [q EXCEPT !.wakeup = w] = [s EXCEPT !.wakeup = w]
            BY <5>1
        <5> QED BY <5>1, <5>2, <5>3
      <4>2. SetPausedAwaitingSignal(d, op.name, op.deadline)
              = [[d EXCEPT !.state = "paused", !.signal = op.name] EXCEPT !.wakeup = w]
          BY <1>2, <2>4, Zenon DEF SetPausedAwaitingSignal
      <4>3. [[s EXCEPT !.wakeup = w] EXCEPT !.wakeup = w] = [s EXCEPT !.wakeup = w]
          OBVIOUS
      <4>4. p = SetPausedAwaitingSignal(d, op.name, op.deadline)
          BY <1>3, <2>2, <3>1, <4>1, <4>2, <4>3, Zenon
      <4> QED BY <1>1, <1>11, <4>4, Effects
    <3>3. CASE q = [SetPausedAwaitingSignal(r, op.name, FALSE) EXCEPT !.wakeup = "none"]
      <4>1. q = PgSetPausedAwaitingSignal(r, op.name, FALSE)
          BY <3>3 DEF PgSetPausedAwaitingSignal, SetPausedAwaitingSignal
      <4>2. q = [r EXCEPT !.state = "paused", !.signal = op.name, !.wakeup = "none"]
          BY <4>1, Zenon DEF PgSetPausedAwaitingSignal
      <4>3. Keeps(r, q)
        <5>1. "none" \in Wakeup
            BY DEF Wakeup
        <5> QED BY <2>1, <4>2, <5>1, KeepsWaits, Zenon
      <4>4. q.wakeup = "none"
          BY <4>2, Zenon DEF Stored, RunRecord
      <4>5. p = q
          BY <1>4, <3>1, <4>3, <4>4 DEF Keeps
      <4>6. q = [SetPausedAwaitingSignal(d, op.name, FALSE) EXCEPT !.wakeup = "none"]
          BY <4>2 DEF SetPausedAwaitingSignal, d
      <4>7. q \in Store!Results(op, d)
          BY <1>11, <2>4, <4>6, SameStore, Zenon DEF Store!Results
      <4> QED BY <1>1, <4>5, <4>7
    <3>4. \/ q = SetPausedAwaitingSignal(r, op.name, op.deadline)
          \/ q = [SetPausedAwaitingSignal(r, op.name, FALSE) EXCEPT !.wakeup = "none"]
        BY <1>11, <2>4, SameStore DEF Store!Results
    <3> QED BY <3>2, <3>3, <3>4
  <2> QED BY <2>3, <2>4
<1>12. CASE op.kind = "event"
  <2>1. /\ q = SetPausedAwaitingEvent(r, op.name, op.deadline)
        /\ op.name \in Name
    <3>1. q = SetPausedAwaitingEvent(r, op.name, op.deadline)
        BY <1>12, SameStore DEF Store!Results
    <3> QED BY <1>12, <3>1 DEF OpOK
  <2>2. SetPausedAwaitingEvent(d, op.name, op.deadline) = q
    <3>1. SetPausedAwaitingEvent(d, op.name, op.deadline)
            = SetPausedAwaitingEvent(r, op.name, op.deadline)
        BY DEF SetPausedAwaitingEvent, d
    <3> QED BY <2>1, <3>1
  <2>3. p = q
    <3>1. CASE op.deadline
        BY <3>1 DEF FreshWakeup, p
    <3>2. CASE ~op.deadline
      <4>1. Stored(q)
          BY <1>0, <2>1, Pausing DEF Keeps
      <4>2. q.wakeup = "none"
          BY <2>1, <3>2, Zenon DEF SetPausedAwaitingEvent, Stored, RunRecord
      <4>3. ~FreshWakeup(op)
          BY <1>12, <3>2 DEF FreshWakeup
      <4> QED BY <1>4, <4>1, <4>2, <4>3 DEF p
    <3> QED BY <3>1, <3>2
  <2> QED BY <1>1, <1>12, <2>2, <2>3, Effects
<1>13. CASE op.kind = "push"
  <2>1. CanPushTryCatch(d) <=> CanPushTryCatch(r)
      BY <1>2 DEF CanPushTryCatch
  <2>2. PushTryCatch(r, op.step).wakeup = r.wakeup
      BY Zenon DEF PushTryCatch, Stored, RunRecord
  <2>3. Due(PushTryCatch(r, op.step)) = PushTryCatch(d, op.step)
    <3>1. PushTryCatch(d, op.step) = [PushTryCatch(r, op.step) EXCEPT !.wakeup = w]
        BY DEF PushTryCatch, Stored, RunRecord, d
    <3> QED BY <1>3, <2>2, <3>1, Zenon
  <2>4. p = IF CanPushTryCatch(d) THEN PushTryCatch(d, op.step) ELSE d
    <3>1. q = (IF CanPushTryCatch(r) THEN PushTryCatch(r, op.step) ELSE r) /\ p = Due(q)
        BY <1>5, <1>13, SameStore DEF Store!Results
    <3> QED BY <1>1, <2>1, <2>3, <3>1
  <2> QED BY <1>1, <1>13, <2>4, Effects
<1>14. CASE op.kind = "pop"
  <2>1. PopTryCatch(r).wakeup = r.wakeup
      BY Zenon DEF PopTryCatch, Stored, RunRecord
  <2>2. Due(PopTryCatch(r)) = PopTryCatch(d)
    <3>1. PopTryCatch(d) = [PopTryCatch(r) EXCEPT !.wakeup = w]
        BY DEF PopTryCatch, Stored, RunRecord, d
    <3> QED BY <1>3, <2>1, <3>1, Zenon
  <2>3. p = IF d.frames # <<>> THEN PopTryCatch(d) ELSE d
    <3>1. q = (IF r.frames # <<>> THEN PopTryCatch(r) ELSE r) /\ p = Due(q)
        BY <1>5, <1>14, SameStore DEF Store!Results
    <3> QED BY <1>1, <1>2, <2>2, <3>1
  <2> QED BY <1>14, <2>3, Effects
<1>15. CASE op.kind = "mark"
  <2> DEFINE s == [r EXCEPT !.state = "paused", !.action = op.step, !.attempt = op.attempt]
  <2>1. p = Due(q)
      BY <1>5, <1>15
  <2>2. s.wakeup = r.wakeup
      BY Zenon DEF Stored, RunRecord
  <2>3. Due(s) = [d EXCEPT !.state = "paused", !.action = op.step, !.attempt = op.attempt]
    <3>1. [d EXCEPT !.state = "paused", !.action = op.step, !.attempt = op.attempt]
            = [s EXCEPT !.wakeup = w]
        BY DEF d
    <3> QED BY <1>3, <2>2, <3>1, Zenon
  <2>4. CASE r.attempt = op.attempt /\ r.action = Nil /\ q = r
    <3>1. d \in Store!Results(op, d)
        BY <1>2, <1>15, <2>4, Zenon DEF Store!Results
    <3> QED BY <1>1, <2>1, <2>4, <3>1
  <2>5. CASE q = MarkAwaitingAction(r, op.step, op.attempt)
    <3>1. p = MarkAwaitingAction(d, op.step, op.attempt)
      <4>1. CASE r.attempt = op.attempt /\ r.action = op.step
          BY <1>1, <1>2, <2>1, <2>5, <4>1, Zenon DEF MarkAwaitingAction
      <4>2. CASE ~(r.attempt = op.attempt /\ r.action = op.step)
        <5>1. q = s
            BY <2>5, <4>2, Zenon DEF MarkAwaitingAction
        <5>2. MarkAwaitingAction(d, op.step, op.attempt)
                = [d EXCEPT !.state = "paused", !.action = op.step, !.attempt = op.attempt]
            BY <1>2, <4>2, Zenon DEF MarkAwaitingAction
        <5> QED BY <2>1, <2>3, <5>1, <5>2, Zenon
      <4> QED BY <4>1, <4>2
    <3> QED BY <1>1, <1>15, <3>1, Effects
  <2>6. \/ q = MarkAwaitingAction(r, op.step, op.attempt)
        \/ r.attempt = op.attempt /\ r.action = Nil /\ q = r
      BY <1>15, SameStore DEF Store!Results
  <2> QED BY <2>4, <2>5, <2>6
<1>16. CASE op.kind = "complete"
  <2> DEFINE s == [r EXCEPT !.action = Nil, !.wakeup = "due"]
  <2>1. p = Due(q) /\ q = CompleteAction(r, op.attempt)
      BY <1>5, <1>16, SameStore DEF Store!Results
  <2>2. CASE r.attempt # op.attempt
      BY <1>1, <1>2, <1>16, <2>1, <2>2, Effects DEF CompleteAction
  <2>3. CASE r.attempt = op.attempt
    <3>1. q = s /\ CompleteAction(d, op.attempt) = [d EXCEPT !.action = Nil, !.wakeup = "due"]
        BY <1>2, <2>1, <2>3, Zenon DEF CompleteAction
    <3>2. CompleteAction(d, op.attempt) = q
      <4>1. [d EXCEPT !.action = Nil, !.wakeup = "due"] = s
          BY DEF d
      <4> QED BY <3>1, <4>1
    <3>3. s.wakeup = "due" /\ Stored(s)
        BY KeepsReport, Zenon DEF Stored, RunRecord, Keeps
    <3>4. p = q
        BY <1>4, <2>1, <3>1, <3>3
    <3> QED BY <1>1, <1>16, <3>2, <3>4, Effects
  <2> QED BY <2>2, <2>3
<1>17. CASE op.kind = "fail"
  <2> DEFINE s == [r EXCEPT !.action = Nil, !.state = "failed"]
  <2>1. p = Due(q) /\ q = FailAction(r, op.attempt)
      BY <1>5, <1>17, SameStore DEF Store!Results
  <2>2. CASE r.attempt # op.attempt
      BY <1>1, <1>2, <1>17, <2>1, <2>2, Effects DEF FailAction
  <2>3. CASE r.attempt = op.attempt
    <3>1. q = s /\ FailAction(d, op.attempt) = [d EXCEPT !.action = Nil, !.state = "failed"]
        BY <1>2, <2>1, <2>3, Zenon DEF FailAction
    <3>2. s.wakeup = r.wakeup
        BY Zenon DEF Stored, RunRecord
    <3>3. p = FailAction(d, op.attempt)
      <4>1. [d EXCEPT !.action = Nil, !.state = "failed"] = [s EXCEPT !.wakeup = w]
          BY DEF d
      <4> QED BY <1>3, <2>1, <3>1, <3>2, <4>1, Zenon
    <3> QED BY <1>1, <1>17, <3>3, Effects
  <2> QED BY <2>2, <2>3
<1> QED BY <1>0, <1>6, <1>7, <1>8, <1>9, <1>10, <1>11, <1>12, <1>13, <1>14, <1>15, <1>16, <1>17
        DEF Store!Kind

-----------------------------------------------------------------------------
(***************************************************************************)
(* The inductive invariant.  An EXEC that is prepared and not dirty writes *)
(* what its call makes of the run as it is now: that is what WATCH is for, *)
(* and why the refinement needs it.  A client's phase says which of the    *)
(* backend's steps it may be in, what its call still owes, and that only   *)
(* the holder of the row lock is past its SELECT ... FOR UPDATE.           *)
(***************************************************************************)
PC == {"idle", "create", "submit", "set", "ready", "exec", "list", "close", "locked", "reply"}

CallRecord ==
    [pc : PC, op : Store!Op \cup {Nil}, task : Task \cup {Nil}, write : RedisEntry \cup {Nil},
     dirty : BOOLEAN, tries : 0..MaxTries, hit : BOOLEAN, todo : SUBSET Task, done : BOOLEAN,
     owed : SUBSET Task]

Types ==
    /\ backend \in {"redis", "postgres"}
    /\ EntryOK(db) /\ db.run.start = First
    /\ tasks \in [Task -> {"none", "open", "submitted", "closed"}]
    /\ lock \in Client \cup {Nil}
    /\ cl \in [Client -> CallRecord]
    /\ calls \in [Client -> Nat] /\ faults \in 0..MaxFaults /\ revived \in BOOLEAN

Phase(x) ==
    /\ x.pc = "idle" => x = Idle
    /\ x.pc # "idle" => OpOK(x.op)
    /\ x.pc \in {"exec", "list", "close", "set"} => backend = "redis"
    /\ x.pc = "locked" => backend = "postgres"
    /\ x.pc \in {"create", "submit", "set", "ready", "exec", "locked"} => ~x.done
    /\ x.pc \in {"list", "close"} => x.done
    /\ (x.write # Nil) <=> (x.pc = "exec")
    /\ x.pc \in {"create", "submit", "set", "ready", "exec"} => x.tries < MaxTries

\* What the new entry of an EXEC that is not dirty is.
Prepared(x) ==
    x.pc = "exec" =>
        /\ EntryOK(x.write)
        /\ ~x.dirty =>
             /\ Keeps(db.run, x.write.run)
             /\ x.write.run \in Store!Results(x.op, db.run)
             /\ x.write.vars = Store!Written(x.op, db.run, db.vars)
             /\ ~revived /\ ~Revives(db.run, x.write.run) => Indexed(x.write)
             /\ x.op.kind = "cancel" /\ ~IsTerminal(db.run) => x.hit

Locking == \A c \in Client : (lock = c) <=> (cl[c].pc = "locked")

Known == {t \in Task : tasks[t] # "none"}

\* The user tasks of a call, and the ones its Cancel owes.
Owing(c, x) ==
    /\ x.pc = "create" => c = Engine /\ x.task \in Task \ Known
    /\ x.pc \in {"submit", "set"} => x.task \in Known
    /\ x.todo \subseteq Known /\ x.owed \subseteq Known
    /\ x.pc \notin {"list", "close", "reply"} => x.owed = {}
    /\ x.pc = "close" => x.owed \cap OpenTasks \subseteq x.todo
    /\ x.pc = "reply" /\ x.done => x.owed \cap OpenTasks = {}

IInv ==
    /\ Types
    /\ Locking
    /\ \A c \in Client : Phase(cl[c]) /\ Prepared(cl[c]) /\ Owing(c, cl[c])
    /\ backend = "redis" /\ ~revived => Indexed(db)

\* A mutate function that aborts leaves what the call makes of the run: nothing.
LEMMA AbortsAgree ==
    ASSUME NEW e, EntryOK(e), NEW op, OpOK(op), RedisAborts(op, e)
    PROVE  e.run \in Store!Results(op, e.run) /\ Store!Written(op, e.run, e.vars) = e.vars
<1>1. CASE op.kind = "consume" /\ ~RedisConsumable(e, op.name)
  <2>1. ~AwaitsSignal(e.run, op.name)
      BY <1>1 DEF RedisConsumable, AwaitsSignal
  <2> QED BY <1>1, <2>1, Effects, WrittenOf
<1>2. CASE op.kind = "pop" /\ RedisStackEmpty(e)
    BY <1>2, Effects, WrittenOf DEF RedisStackEmpty
<1>3. CASE op.kind = "mark" /\ RedisMarked(e, op.step, op.attempt)
  <2>1. MarkAwaitingAction(e.run, op.step, op.attempt) = e.run
      BY <1>3 DEF RedisMarked, MarkAwaitingAction
  <2> QED BY <1>3, <2>1, Effects, WrittenOf
<1>4. CASE op.kind \in {"complete", "fail"} /\ RedisLate(e, op.attempt)
  <2>1. /\ e.run.attempt # op.attempt
        /\ CompleteAction(e.run, op.attempt) = e.run
        /\ FailAction(e.run, op.attempt) = e.run
      BY <1>4 DEF RedisLate, CompleteAction, FailAction
  <2> QED BY <1>4, <2>1, Effects, WrittenOf
<1> QED BY <1>1, <1>2, <1>3, <1>4 DEF RedisAborts

LEMMA InitInv == Init => IInv
<1> SUFFICES ASSUME Init PROVE IInv
    OBVIOUS
<1> DEFINE r == NewSagaRun(First)
<1>1. Stored(r) /\ r.state = "pending" /\ r.start = First
    BY NewRunStored, BackendsAssumption
<1>2. r.wakeup = "none" /\ r.topic = Nil
    BY Zenon DEF NewSagaRun, Absent
<1> HIDE DEF r
<1>3. EntryOK(db) /\ db.run = r
    BY <1>1 DEF Init, EntryOK, RedisEntry, Stored, Wakeup, r
<1>4. Idle \in CallRecord
    BY BackendsAssumption DEF Idle, CallRecord, PC
<1>5. Types
  <2>1. cl \in [Client -> CallRecord] /\ 0 \in 0..MaxFaults
      BY <1>4, BackendsAssumption DEF Init
  <2> QED BY <1>1, <1>3, <2>1 DEF Init, Types
<1>6. ASSUME NEW c \in Client
      PROVE  Phase(cl[c]) /\ Prepared(cl[c]) /\ Owing(c, cl[c]) /\ lock # c /\ cl[c].pc = "idle"
  <2>1. cl[c] = Idle
      BY DEF Init
  <2>2. lock # c
      BY BackendsAssumption DEF Init
  <2>3. /\ Idle.pc = "idle" /\ Idle.write = Nil /\ Idle.todo = {} /\ Idle.owed = {}
      BY DEF Idle
  <2> HIDE DEF Idle
  <2> QED BY <2>1, <2>2, <2>3 DEF Phase, Prepared, Owing
<1>7. Indexed(db)
    BY <1>1, <1>2, <1>3 DEF Indexed
<1> QED BY <1>5, <1>6, <1>7 DEF IInv, Locking

\* Calls have the arguments their kind takes.
LEMMA EngineOpsOK ==
    ASSUME NEW r, Stored(r), r.start \in Step, NEW op \in EngineOps(r)
    PROVE  OpOK(op)
<1> DEFINE s == CurrentStep(r)
           k == r.attempt + 1
<1>1. s \in Step /\ k \in Nat
    BY DEF CurrentStep, Stored, RunRecord
<1>2. \/ op \in Kinds({"clear"}) \/ op \in Kinds({"vars", "wait"}) \/ op \in Kinds({"pop"})
      \/ op \in StateOps(s) \/ op \in WaitOps
      \/ op = [NoOp EXCEPT !.kind = "failed", !.step = s]
      \/ op = [NoOp EXCEPT !.kind = "mark", !.step = s, !.attempt = k]
      \/ op = [NoOp EXCEPT !.kind = "push", !.step = s]
  <2> DEFINE failed == [NoOp EXCEPT !.kind = "failed", !.step = s]
             mark == [NoOp EXCEPT !.kind = "mark", !.step = s, !.attempt = k]
             push == [NoOp EXCEPT !.kind = "push", !.step = s]
  <2>1. /\ r.state = "paused" =>
             EngineOps(r) = IF WakeupDue(r) \/ ExternalWake(r) THEN Kinds({"clear"}) ELSE {}
        /\ r.state \in {"pending", "running"} =>
             EngineOps(r) = Kinds({"vars", "wait"}) \cup StateOps(s) \cup WaitOps
                            \cup {failed} \cup {mark} \cup {push}
                            \cup (IF r.frames = <<>> THEN {} ELSE Kinds({"pop"}))
        /\ r.state = "compensating" => EngineOps(r) = {failed}
        /\ r.state \notin {"paused", "pending", "running", "compensating"} => EngineOps(r) = {}
      BY DEF EngineOps
  <2> HIDE DEF s, failed, mark, push
  <2>2. \/ op \in Kinds({"clear"}) \/ op \in Kinds({"vars", "wait"}) \/ op \in Kinds({"pop"})
        \/ op \in StateOps(s) \/ op \in WaitOps
        \/ op = failed \/ op = mark \/ op = push
      BY <2>1
  <2> QED BY <2>2 DEF failed, mark, push
<1> HIDE DEF s, k
<1> USE DEF OpOK, Store!Op, Store!Kind, NoOp
<1>3. ASSUME NEW ks, ks \subseteq {"clear", "vars", "wait", "pop"}, op \in Kinds(ks)
      PROVE  OpOK(op)
  <2>1. PICK x \in {"clear", "vars", "wait", "pop"} : op = [NoOp EXCEPT !.kind = x]
      BY <1>3, Zenon DEF Kinds
  <2> QED BY <2>1
<1>4. CASE op \in StateOps(s)
  <2>1. PICK x \in {"running", "paused", "compensating", "succeeded", "cancelled"} :
            op = [NoOp EXCEPT !.kind = "state", !.state = x,
                              !.step = IF x = "succeeded" THEN Nil ELSE s]
      BY <1>4, Zenon DEF StateOps
  <2> QED BY <1>1, <2>1 DEF Store!RunState, RunState
<1>5. CASE op \in WaitOps
  <2>1. PICK x \in {"signal", "event"}, n \in Name \ Task, d \in BOOLEAN : op = WaitOp(x, n, d)
      BY <1>5, SMT DEF WaitOps
  <2> QED BY <2>1 DEF WaitOp
<1>6. CASE op = [NoOp EXCEPT !.kind = "failed", !.step = s]
    BY <1>1, <1>6
<1>7. CASE op = [NoOp EXCEPT !.kind = "mark", !.step = s, !.attempt = k]
    BY <1>1, <1>7
<1>8. CASE op = [NoOp EXCEPT !.kind = "push", !.step = s]
    BY <1>1, <1>8
<1> HIDE DEF OpOK, Store!Op, Store!Kind, NoOp
<1> QED BY <1>2, <1>3, <1>4, <1>5, <1>6, <1>7, <1>8

LEMMA OutsiderOpsOK ==
    ASSUME Stored(db.run), NEW op \in OutsiderOps
    PROVE  OpOK(op)
<1> DEFINE k == db.run.attempt
<1>1. k \in Nat
    BY DEF Stored, RunRecord
<1> HIDE DEF k
<1>2. \/ op \in Kinds({"cancel", "wake"})
      \/ op \in {[NoOp EXCEPT !.kind = "consume", !.name = n] : n \in Name \ Task}
      \/ op \in {[NoOp EXCEPT !.kind = x, !.attempt = k] : x \in {"complete", "fail"}}
    BY DEF OutsiderOps, Kinds, k
<1> USE DEF OpOK, Store!Op, Store!Kind, NoOp
<1>3. CASE op \in Kinds({"cancel", "wake"})
  <2>1. PICK x \in {"cancel", "wake"} : op = [NoOp EXCEPT !.kind = x]
      BY <1>3, Zenon DEF Kinds
  <2> QED BY <2>1
<1>4. CASE op \in {[NoOp EXCEPT !.kind = "consume", !.name = n] : n \in Name \ Task}
  <2>1. PICK n \in Name \ Task : op = [NoOp EXCEPT !.kind = "consume", !.name = n]
      BY <1>4, Zenon
  <2> QED BY <2>1
<1>5. CASE op \in {[NoOp EXCEPT !.kind = x, !.attempt = k] : x \in {"complete", "fail"}}
    BY <1>1, <1>5
<1> QED BY <1>2, <1>3, <1>4, <1>5

LEMMA TaskOpsOK ==
    ASSUME NEW t \in Task, NEW d \in BOOLEAN
    PROVE  /\ OpOK(WaitOp("signal", t, d))
           /\ OpOK([NoOp EXCEPT !.kind = "consume", !.name = t])
BY BackendsAssumption DEF OpOK, Store!Op, Store!Kind, NoOp, WaitOp

\* A step of client c that leaves the other clients where they are, and the entry of a
\* Redis run.
LEMMA StepKeeps ==
    ASSUME IInv, NEW c \in Client, Types', Locking', backend' = backend,
           \A d \in Client \ {c} : cl'[d] = cl[d],
           Phase(cl[c])', Prepared(cl[c])', Owing(c, cl[c])',
           Known \subseteq Known', OpenTasks' \cap Known \subseteq OpenTasks,
           c # Engine /\ cl[Engine].pc = "create" => cl[Engine].task \notin Known',
           (db' = db /\ revived' = revived) \/ backend = "postgres"
    PROVE  IInv'
<1>1. ASSUME NEW d \in Client \ {c} PROVE (Phase(cl[d]) /\ Prepared(cl[d]) /\ Owing(d, cl[d]))'
  <2>1. cl'[d] = cl[d] /\ Phase(cl[d]) /\ Prepared(cl[d]) /\ Owing(d, cl[d])
      BY DEF IInv
  <2>2. Phase(cl[d])'
      BY <2>1 DEF Phase
  <2>3. Prepared(cl[d])'
    <3>1. CASE db' = db /\ revived' = revived
        BY <2>1, <3>1 DEF Prepared
    <3>2. CASE backend = "postgres"
        BY <2>1, <3>2 DEF Prepared, Phase
    <3> QED BY <3>1, <3>2
  <2>4. Owing(d, cl[d])'
      BY <2>1 DEF Owing
  <2> QED BY <2>2, <2>3, <2>4
<1>2. (backend = "redis" /\ ~revived => Indexed(db))'
    BY DEF IInv, Types
<1> QED BY <1>1, <1>2 DEF IInv

LEMMA MovesTo ==
    ASSUME NEW c \in Client, NEW x \in CallRecord, cl \in [Client -> CallRecord],
           cl' = [cl EXCEPT ![c] = x]
    PROVE  /\ cl' \in [Client -> CallRecord] /\ cl'[c] = x
           /\ \A d \in Client \ {c} : cl'[d] = cl[d]
OBVIOUS

\* A step that leaves the database alone and moves only client c.
LEMMA LocalStep ==
    ASSUME IInv, NEW c \in Client, NEW x \in CallRecord, cl' = [cl EXCEPT ![c] = x],
           UNCHANGED <<backend, db, tasks, revived>>,
           calls' \in [Client -> Nat], faults' \in 0..MaxFaults, lock' \in Client \cup {Nil},
           (lock' = c) <=> (x.pc = "locked"),
           \A d \in Client \ {c} : (lock' = d) <=> (lock = d),
           Phase(x), Prepared(x), Owing(c, x)
    PROVE  IInv'
<1>1. /\ cl' \in [Client -> CallRecord] /\ cl'[c] = x
      /\ \A d \in Client \ {c} : cl'[d] = cl[d]
    BY MovesTo DEF IInv, Types
<1>2. Types'
    BY <1>1 DEF IInv, Types
<1>3. Locking'
    BY <1>1 DEF IInv, Locking
<1>4. Phase(cl[c])'
    BY <1>1 DEF Phase
<1>5. Prepared(cl[c])'
    BY <1>1 DEF Prepared
<1>6. Known' = Known /\ OpenTasks' = OpenTasks
    BY DEF Known, OpenTasks
<1>7. Owing(c, cl[c])'
    BY <1>1, <1>6 DEF Owing
<1>8. c # Engine /\ cl[Engine].pc = "create" => cl[Engine].task \notin Known'
    BY <1>6 DEF IInv, Owing, Client
<1> QED BY <1>1, <1>2, <1>3, <1>4, <1>5, <1>6, <1>7, <1>8, StepKeeps

LEMMA CallStep ==
    ASSUME IInv, NEW c \in Client, NEW op, OpOK(op), NEW t \in Task \cup {Nil},
           NEW p \in {"ready", "create", "submit"}, Ready(c, op, t, p),
           p = "create" => c = Engine /\ t \in Task \ Known,
           p = "submit" => t \in Known
    PROVE  IInv'
<1> DEFINE x == [Idle EXCEPT !.pc = p, !.op = op, !.task = t]
<1>1. cl[c] = Idle /\ cl \in [Client -> CallRecord]
    BY DEF Ready, IInv, Phase, Types
<1>2. cl' = [cl EXCEPT ![c] = x]
    BY <1>1, Zenon DEF Ready
<1>3. x \in CallRecord
  <2>1. Idle \in CallRecord /\ p \in PC /\ op \in Store!Op
      BY BackendsAssumption DEF Idle, CallRecord, PC, OpOK
  <2> HIDE DEF Idle
  <2> QED BY <2>1, Zenon DEF CallRecord
<1>4. /\ x.pc = p /\ x.op = op /\ x.task = t /\ x.write = Nil /\ ~x.done /\ x.tries = 0
      /\ x.todo = {} /\ x.owed = {}
    BY DEF Idle
<1> HIDE DEF x
<1>5. Phase(x) /\ Prepared(x) /\ Owing(c, x)
    BY <1>4, BackendsAssumption DEF Phase, Prepared, Owing
<1>6. cl[c].pc # "locked" /\ lock # c
    BY <1>1 DEF Idle, IInv, Locking
<1>7. calls' \in [Client -> Nat]
    BY DEF Ready, IInv, Types
<1> QED BY <1>2, <1>3, <1>4, <1>5, <1>6, <1>7, LocalStep DEF Ready, IInv, Types

LEMMA InvokeInv ==
    ASSUME IInv, NEW c \in Client, Invoke(c)
    PROVE  IInv'
<1>1. Stored(db.run) /\ db.run.start \in Step
    BY BackendsAssumption DEF IInv, Types, EntryOK
<1>2. PICK op \in IF c = Engine THEN EngineOps(db.run) ELSE OutsiderOps : Ready(c, op, Nil, "ready")
    BY DEF Invoke
<1>3. OpOK(op)
    BY <1>1, <1>2, EngineOpsOK, OutsiderOpsOK
<1> QED BY <1>2, <1>3, CallStep

LEMMA ApproveInv ==
    ASSUME IInv, NEW t \in Task, NEW d \in BOOLEAN, Approve(t, d)
    PROVE  IInv'
<1>1. Engine \in Client /\ t \in Task \ Known /\ Ready(Engine, WaitOp("signal", t, d), t, "create")
    BY DEF Approve, Client, Known
<1> QED BY <1>1, TaskOpsOK, CallStep

LEMMA SubmitInv ==
    ASSUME IInv, NEW c \in Outsider, NEW t \in Task, Submit(c, t)
    PROVE  IInv'
<1>1. /\ c \in Client /\ t \in Known
      /\ Ready(c, [NoOp EXCEPT !.kind = "consume", !.name = t], t, "submit")
    BY DEF Submit, Client, Known
<1>2. OpOK([NoOp EXCEPT !.kind = "consume", !.name = t])
    BY TaskOpsOK
<1> QED BY <1>1, <1>2, CallStep

\* A client's step to another place of its call.
LEMMA ToPC ==
    ASSUME NEW c \in Client, cl \in [Client -> CallRecord], NEW p \in PC
    PROVE  LET x == [cl[c] EXCEPT !.pc = p] IN
           /\ x \in CallRecord /\ x.pc = p /\ x.op = cl[c].op /\ x.task = cl[c].task
           /\ x.write = cl[c].write /\ x.dirty = cl[c].dirty /\ x.tries = cl[c].tries
           /\ x.hit = cl[c].hit /\ x.todo = cl[c].todo /\ x.done = cl[c].done
           /\ x.owed = cl[c].owed
           /\ [cl EXCEPT ![c].pc = p] = [cl EXCEPT ![c] = x]
BY Zenon DEF CallRecord

LEMMA GetTaskInv ==
    ASSUME IInv, NEW c \in Client, RedisGetUserTask(c)
    PROVE  IInv'
<1> DEFINE x == [cl[c] EXCEPT !.pc = "set"]
<1>1. cl \in [Client -> CallRecord] /\ "set" \in PC
    BY DEF IInv, Types, PC
<1>2. /\ x \in CallRecord /\ x.pc = "set" /\ x.op = cl[c].op /\ x.task = cl[c].task
      /\ x.write = cl[c].write /\ x.tries = cl[c].tries
      /\ x.todo = cl[c].todo /\ x.done = cl[c].done /\ x.owed = cl[c].owed
      /\ cl' = [cl EXCEPT ![c] = x]
    BY <1>1, ToPC DEF RedisGetUserTask
<1> HIDE DEF x
<1>3. Phase(cl[c]) /\ Owing(c, cl[c]) /\ cl[c].pc = "submit" /\ lock # c
    BY DEF RedisGetUserTask, IInv, Locking
<1>4. Phase(x) /\ Prepared(x) /\ Owing(c, x)
    BY <1>2, <1>3 DEF Phase, Prepared, Owing, RedisGetUserTask
<1> QED BY <1>2, <1>3, <1>4, LocalStep DEF RedisGetUserTask, IInv, Types

LEMMA ListTasksInv ==
    ASSUME IInv, NEW c \in Client, RedisListTasks(c)
    PROVE  IInv'
<1> DEFINE x == [cl[c] EXCEPT !.pc = "close", !.todo = OpenTasks]
<1>1. cl \in [Client -> CallRecord] /\ "close" \in PC /\ OpenTasks \in SUBSET Task
    BY DEF IInv, Types, PC, OpenTasks
<1>2. /\ x \in CallRecord /\ x.pc = "close" /\ x.op = cl[c].op
      /\ x.write = cl[c].write
      /\ x.todo = OpenTasks /\ x.done = cl[c].done /\ x.owed = cl[c].owed
    BY <1>1, Zenon DEF CallRecord
<1>3. cl' = [cl EXCEPT ![c] = x]
    BY <1>1, Zenon DEF RedisListTasks
<1> HIDE DEF x
<1>4. Phase(cl[c]) /\ Owing(c, cl[c]) /\ cl[c].pc = "list" /\ lock # c
    BY DEF RedisListTasks, IInv, Locking
<1>5. OpenTasks \subseteq Known
    BY DEF OpenTasks, Known
<1>6. Phase(x) /\ Prepared(x) /\ Owing(c, x)
    BY <1>2, <1>4, <1>5 DEF Phase, Prepared, Owing
<1> QED BY <1>2, <1>3, <1>4, <1>6, LocalStep DEF RedisListTasks, IInv, Types

LEMMA LockInv ==
    ASSUME IInv, NEW c \in Client, PgLock(c)
    PROVE  IInv'
<1> DEFINE x == [cl[c] EXCEPT !.pc = "locked"]
<1>1. cl \in [Client -> CallRecord] /\ "locked" \in PC
    BY DEF IInv, Types, PC
<1>2. /\ x \in CallRecord /\ x.pc = "locked" /\ x.op = cl[c].op
      /\ x.write = cl[c].write
      /\ x.todo = cl[c].todo /\ x.done = cl[c].done /\ x.owed = cl[c].owed
      /\ cl' = [cl EXCEPT ![c] = x]
    BY <1>1, ToPC DEF PgLock
<1> HIDE DEF x
<1>3. Phase(cl[c]) /\ Owing(c, cl[c]) /\ cl[c].pc = "ready"
    BY DEF PgLock, IInv
<1>4. Phase(x) /\ Prepared(x) /\ Owing(c, x)
    BY <1>2, <1>3 DEF Phase, Prepared, Owing, PgLock
<1>5. \A d \in Client \ {c} : (lock' = d) <=> (lock = d)
    BY BackendsAssumption DEF PgLock
<1> QED BY <1>2, <1>4, <1>5, LocalStep DEF PgLock, IInv, Types

LEMMA LeaveInv ==
    ASSUME IInv, NEW c \in Client, Reply(c) \/ Abandon(c)
    PROVE  IInv'
<1>1. Idle \in CallRecord
    BY BackendsAssumption DEF Idle, CallRecord, PC
<1>2. Phase(Idle) /\ Prepared(Idle) /\ Owing(c, Idle) /\ Idle.pc = "idle"
    BY DEF Phase, Prepared, Owing, Idle
<1>3. cl' = [cl EXCEPT ![c] = Idle]
    BY DEF Reply, Abandon
<1>4. lock' \in Client \cup {Nil} /\ lock' # c /\ \A d \in Client \ {c} : (lock' = d) <=> (lock = d)
  <2>1. CASE Reply(c)
      BY <2>1 DEF Reply, IInv, Types, Locking
  <2>2. CASE Abandon(c)
      BY <2>2, BackendsAssumption DEF Abandon, IInv, Types
  <2> QED BY <2>1, <2>2
<1>5. calls' \in [Client -> Nat] /\ faults' \in 0..MaxFaults
    BY BackendsAssumption DEF Reply, Abandon, IInv, Types
<1> QED BY <1>1, <1>2, <1>3, <1>4, <1>5, LocalStep DEF Reply, Abandon

\* A step that writes one user task.
LEMMA TaskStep ==
    ASSUME IInv, NEW c \in Client, NEW x \in CallRecord, cl' = [cl EXCEPT ![c] = x],
           NEW t \in Task, NEW v \in {"open", "submitted", "closed"},
           tasks' = [tasks EXCEPT ![t] = v],
           UNCHANGED <<backend, db, lock, calls, faults, revived>>,
           v = "open" => c = Engine /\ t \notin Known,
           v # "open" => t \in Known,
           cl[c].pc # "locked", x.pc # "locked", Phase(x), Prepared(x), Owing(c, cl[c])'
    PROVE  IInv'
<1>1. /\ cl' \in [Client -> CallRecord] /\ cl'[c] = x
      /\ \A d \in Client \ {c} : cl'[d] = cl[d]
    BY MovesTo DEF IInv, Types
<1>2. tasks' \in [Task -> {"none", "open", "submitted", "closed"}]
    BY DEF IInv, Types
<1>3. Types'
    BY <1>1, <1>2 DEF IInv, Types
<1>4. Locking'
    BY <1>1 DEF IInv, Locking
<1>5. Phase(cl[c])' /\ Prepared(cl[c])'
    BY <1>1 DEF Phase, Prepared
<1>6. Known \subseteq Known' /\ OpenTasks' \cap Known \subseteq OpenTasks
    BY DEF Known, OpenTasks, IInv, Types
<1>7. c # Engine /\ cl[Engine].pc = "create" => cl[Engine].task \notin Known'
  <2> SUFFICES ASSUME c # Engine, cl[Engine].pc = "create" PROVE cl[Engine].task \notin Known'
      OBVIOUS
  <2>1. cl[Engine].task \in Task \ Known /\ t \in Known
      BY DEF IInv, Owing, Client
  <2> QED BY <2>1 DEF Known, IInv, Types
<1> QED BY <1>1, <1>3, <1>4, <1>5, <1>6, <1>7, StepKeeps

LEMMA StoreTaskInv ==
    ASSUME IInv, NEW c \in Client, CreateUserTask(c) \/ PgSubmitUserTask(c) \/ RedisSubmitUserTask(c)
    PROVE  IInv'
<1> DEFINE x == [cl[c] EXCEPT !.pc = "ready"]
           t == cl[c].task
           v == IF CreateUserTask(c) THEN "open" ELSE "submitted"
<1>1. cl \in [Client -> CallRecord] /\ "ready" \in PC
    BY DEF IInv, Types, PC
<1>2. /\ x \in CallRecord /\ x.pc = "ready" /\ x.op = cl[c].op
      /\ x.write = cl[c].write /\ x.tries = cl[c].tries
      /\ x.todo = cl[c].todo /\ x.done = cl[c].done /\ x.owed = cl[c].owed
      /\ cl' = [cl EXCEPT ![c] = x]
    BY <1>1, ToPC DEF CreateUserTask, PgSubmitUserTask, RedisSubmitUserTask
<1> HIDE DEF x
<1>3. Phase(cl[c]) /\ Owing(c, cl[c]) /\ cl[c].pc \in {"create", "submit", "set"}
    BY DEF CreateUserTask, PgSubmitUserTask, RedisSubmitUserTask, IInv
<1>4. Phase(x) /\ Prepared(x)
    BY <1>2, <1>3 DEF Phase, Prepared
<1>5. /\ CreateUserTask(c) => cl[c].pc = "create" /\ c = Engine /\ t \in Task \ Known
      /\ ~CreateUserTask(c) => t \in Known /\ t \in Task
    BY <1>3 DEF CreateUserTask, PgSubmitUserTask, RedisSubmitUserTask, Owing, Known
<1>6. /\ tasks' = [tasks EXCEPT ![t] = v]
      /\ UNCHANGED <<backend, db, lock, calls, faults, revived>>
    BY DEF CreateUserTask, PgSubmitUserTask, RedisSubmitUserTask
<1>7. Known \subseteq Known'
    BY <1>5, <1>6 DEF Known, IInv, Types
<1>8. Owing(c, cl[c])'
  <2>1. cl'[c] = x
      BY <1>1, <1>2
  <2> QED BY <1>2, <1>3, <1>7, <2>1 DEF Owing
<1> HIDE DEF t
<1> QED BY <1>2, <1>3, <1>4, <1>5, <1>6, <1>8, TaskStep

LEMMA CloseTaskInv ==
    ASSUME IInv, NEW c \in Client, RedisCloseTask(c)
    PROVE  IInv'
<1>1. cl \in [Client -> CallRecord] /\ "reply" \in PC
    BY DEF IInv, Types, PC
<1>2. Phase(cl[c]) /\ Owing(c, cl[c]) /\ cl[c].pc = "close" /\ lock # c
    BY DEF RedisCloseTask, IInv, Locking
<1>3. CASE cl[c].todo = {} /\ cl' = [cl EXCEPT ![c].pc = "reply"] /\ UNCHANGED tasks
  <2> DEFINE x == [cl[c] EXCEPT !.pc = "reply"]
  <2>1. /\ x \in CallRecord /\ x.pc = "reply" /\ x.op = cl[c].op
        /\ x.write = cl[c].write /\ x.tries = cl[c].tries
        /\ x.todo = cl[c].todo /\ x.done = cl[c].done /\ x.owed = cl[c].owed
        /\ cl' = [cl EXCEPT ![c] = x]
      BY <1>1, <1>3, ToPC
  <2> HIDE DEF x
  <2>2. Phase(x) /\ Prepared(x) /\ Owing(c, x)
      BY <1>2, <1>3, <2>1 DEF Phase, Prepared, Owing
  <2> QED BY <1>2, <1>3, <2>1, <2>2, LocalStep DEF RedisCloseTask, IInv, Types
<1>4. ASSUME NEW t \in cl[c].todo, tasks' = [tasks EXCEPT ![t] = "closed"],
             cl' = [cl EXCEPT ![c].todo = @ \ {t}]
      PROVE  IInv'
  <2> DEFINE x == [cl[c] EXCEPT !.todo = @ \ {t}]
  <2>1. t \in Known /\ t \in Task /\ cl[c].todo \ {t} \in SUBSET Task
      BY <1>1, <1>2 DEF Owing, Known, CallRecord
  <2>2. /\ x \in CallRecord /\ x.pc = "close" /\ x.op = cl[c].op
        /\ x.write = cl[c].write /\ x.tries = cl[c].tries
        /\ x.todo = cl[c].todo \ {t} /\ x.done = cl[c].done /\ x.owed = cl[c].owed
      BY <1>1, <1>2, <2>1, Zenon DEF CallRecord
  <2>3. cl' = [cl EXCEPT ![c] = x]
      BY <1>1, <1>4, Zenon
  <2> HIDE DEF x
  <2>4. Phase(x) /\ Prepared(x)
      BY <1>2, <2>2 DEF Phase, Prepared
  <2>5. OpenTasks' = OpenTasks \ {t} /\ Known' = Known
      BY <1>4, <2>1 DEF OpenTasks, Known, IInv, Types
  <2>6. cl'[c] = x
      BY <1>1, <2>3
  <2>7. Owing(c, cl[c])'
      BY <1>2, <2>2, <2>5, <2>6 DEF Owing
  <2> QED BY <1>2, <1>4, <2>1, <2>2, <2>3, <2>4, <2>7, TaskStep DEF RedisCloseTask
<1> QED BY <1>3, <1>4 DEF RedisCloseTask

LEMMA ReadInv ==
    ASSUME IInv, NEW c \in Client, RedisRead(c)
    PROVE  IInv'
<1> DEFINE op == cl[c].op
           f == RedisMutate(op, db)
           x1 == [cl[c] EXCEPT !.pc = "reply"]
           x2 == [cl[c] EXCEPT !.pc = "reply", !.done = TRUE]
           x3 == [cl[c] EXCEPT !.pc = "exec", !.write = f, !.dirty = FALSE,
                               !.hit = cl[c].hit \/ RedisHit(op, db)]
           z == IF op.kind = "push" /\ RedisStackFull(db) THEN x1
                ELSE IF RedisAborts(op, db) THEN x2 ELSE x3
<1>0. cl' = [cl EXCEPT ![c] = z]
    BY Zenon DEF RedisRead
<1>1. cl \in [Client -> CallRecord] /\ "reply" \in PC /\ "exec" \in PC /\ EntryOK(db)
    BY DEF IInv, Types, PC
<1>2. Phase(cl[c]) /\ Owing(c, cl[c]) /\ cl[c].pc = "ready" /\ lock # c /\ backend = "redis"
    BY DEF RedisRead, IInv, Locking
<1>3. OpOK(op)
    BY <1>2 DEF Phase
<1>4. /\ calls' \in [Client -> Nat] /\ faults' \in 0..MaxFaults /\ lock' \in Client \cup {Nil}
      /\ UNCHANGED <<backend, db, tasks, lock, revived>>
    BY DEF RedisRead, IInv, Types
<1>5. CASE op.kind = "push" /\ RedisStackFull(db)
  <2>1. /\ x1 \in CallRecord /\ x1.pc = "reply" /\ x1.op = cl[c].op
        /\ x1.write = cl[c].write /\ x1.todo = cl[c].todo /\ x1.done = cl[c].done
        /\ x1.owed = cl[c].owed
      BY <1>1, ToPC
  <2>2. cl' = [cl EXCEPT ![c] = x1]
    <3> HIDE DEF x1, x2, x3
    <3> QED BY <1>0, <1>5
  <2> HIDE DEF x1
  <2>3. Phase(x1) /\ Prepared(x1) /\ Owing(c, x1)
      BY <1>2, <2>1 DEF Phase, Prepared, Owing
  <2> QED BY <1>2, <1>4, <2>1, <2>2, <2>3, LocalStep
<1>6. CASE ~(op.kind = "push" /\ RedisStackFull(db)) /\ RedisAborts(op, db)
  <2>1. /\ x2 \in CallRecord /\ x2.pc = "reply" /\ x2.op = cl[c].op
        /\ x2.write = cl[c].write /\ x2.todo = cl[c].todo /\ x2.owed = cl[c].owed
      BY <1>1, Zenon DEF CallRecord
  <2>2. cl' = [cl EXCEPT ![c] = x2]
    <3> HIDE DEF x1, x2, x3
    <3> QED BY <1>0, <1>6
  <2> HIDE DEF x2
  <2>3. Phase(x2) /\ Prepared(x2) /\ Owing(c, x2)
      BY <1>2, <2>1 DEF Phase, Prepared, Owing
  <2> QED BY <1>2, <1>4, <2>1, <2>2, <2>3, LocalStep
<1>7. CASE ~(op.kind = "push" /\ RedisStackFull(db)) /\ ~RedisAborts(op, db)
  <2>1. Effect(op, db, f)
      BY <1>1, <1>3, <1>7, RedisAgrees
  <2>2. cl' = [cl EXCEPT ![c] = x3]
    <3> HIDE DEF x1, x2, x3
    <3> QED BY <1>0, <1>7
  <2>3. f \in RedisEntry /\ f # Nil
      BY <2>1, NoRecordAssumption DEF Effect, EntryOK
  <2>4. (cl[c].hit \/ RedisHit(op, db)) \in BOOLEAN
      OBVIOUS
  <2> HIDE DEF f
  <2>5. /\ x3 \in CallRecord /\ x3.pc = "exec" /\ x3.op = op
        /\ x3.write = f /\ x3.dirty = FALSE /\ x3.todo = cl[c].todo /\ x3.owed = cl[c].owed
        /\ x3.done = cl[c].done /\ x3.tries = cl[c].tries
        /\ x3.hit = (cl[c].hit \/ RedisHit(op, db))
      BY <1>1, <2>3, <2>4, Zenon DEF CallRecord
  <2> HIDE DEF x3
  <2>6. Phase(x3) /\ Owing(c, x3)
      BY <1>2, <2>3, <2>5 DEF Phase, Owing
  <2>7. ~revived => Indexed(db)
      BY <1>2 DEF IInv
  <2>8. Prepared(x3)
    <3>1. op.kind = "cancel" /\ ~IsTerminal(db.run) => x3.hit
        BY <2>5 DEF RedisHit
    <3> QED BY <2>1, <2>5, <2>7, <3>1 DEF Prepared, Effect
  <2> QED BY <1>2, <1>4, <2>2, <2>5, <2>6, <2>8, LocalStep
<1> QED BY <1>5, <1>6, <1>7

\* EXEC, or TxFailedErr.
LEMMA FailedExecInv ==
    ASSUME IInv, NEW c \in Client, RedisExec(c), cl[c].dirty
    PROVE  IInv'
<1> DEFINE p == IF cl[c].tries + 1 < MaxTries THEN "ready" ELSE "reply"
           n == cl[c].tries + 1
           x == [cl[c] EXCEPT !.tries = n, !.write = Nil, !.dirty = FALSE, !.pc = p]
<1>1. cl \in [Client -> CallRecord] /\ cl[c].tries \in Nat
    BY BackendsAssumption DEF IInv, Types, CallRecord
<1>2. Phase(cl[c]) /\ Owing(c, cl[c]) /\ cl[c].pc = "exec" /\ lock # c
    BY DEF RedisExec, IInv, Locking
<1>3. p \in PC /\ n \in 0..MaxTries /\ (p = "ready" => n < MaxTries) /\ p \in {"ready", "reply"}
    BY <1>1, <1>2, BackendsAssumption DEF Phase, PC
<1>4. cl' = [cl EXCEPT ![c] = x]
    BY <1>1, Zenon DEF RedisExec
<1> HIDE DEF p, n
<1>5. /\ x \in CallRecord /\ x.pc = p /\ x.op = cl[c].op /\ x.write = Nil /\ x.tries = n
      /\ x.todo = cl[c].todo /\ x.owed = cl[c].owed /\ x.done = cl[c].done
    BY <1>1, <1>3, Zenon DEF CallRecord
<1> HIDE DEF x
<1>6. Phase(x) /\ Prepared(x) /\ Owing(c, x)
    BY <1>2, <1>3, <1>5 DEF Phase, Prepared, Owing
<1>7. lock # c /\ x.pc # "locked"
    BY <1>2, <1>3, <1>5
<1> QED BY <1>4, <1>5, <1>6, <1>7, LocalStep DEF RedisExec, IInv, Types

LEMMA ExecInv ==
    ASSUME IInv, NEW c \in Client, RedisExec(c), ~cl[c].dirty
    PROVE  IInv'
<1> DEFINE p == IF cl[c].op.kind = "cancel" /\ cl[c].hit THEN "list" ELSE "reply"
           o == IF cl[c].op.kind = "cancel" /\ ~IsTerminal(db.run) THEN OpenTasks ELSE {}
           x == [cl[c] EXCEPT !.pc = p, !.write = Nil, !.done = TRUE, !.owed = o]
<1>1. cl \in [Client -> CallRecord] /\ EntryOK(db)
    BY DEF IInv, Types
<1>2. /\ Phase(cl[c]) /\ Owing(c, cl[c]) /\ Prepared(cl[c]) /\ cl[c].pc = "exec" /\ lock # c
      /\ backend = "redis"
    BY DEF RedisExec, IInv, Locking, Phase
<1>3. /\ EntryOK(cl[c].write) /\ Keeps(db.run, cl[c].write.run)
      /\ ~revived /\ ~Revives(db.run, cl[c].write.run) => Indexed(cl[c].write)
      /\ cl[c].op.kind = "cancel" /\ ~IsTerminal(db.run) => cl[c].hit
    BY <1>2 DEF Prepared
<1>4. /\ db' = cl[c].write /\ cl' = Committed(c, p)
      /\ revived' = (revived \/ Revives(db.run, db'.run))
      /\ UNCHANGED <<backend, tasks, lock, calls, faults>>
    BY DEF RedisExec
<1>5. OpenTasks \subseteq Known /\ Known' = Known /\ OpenTasks' = OpenTasks
    BY <1>4 DEF OpenTasks, Known
<1>6. p \in PC /\ p \in {"list", "reply"} /\ o \in SUBSET Task /\ o \subseteq Known
    BY <1>5 DEF PC, Known
<1>7. p = "reply" => o = {}
    BY <1>3
<1>8. cl' = [d \in Client |-> IF d = c THEN x
                              ELSE IF cl[d].pc = "exec" THEN [cl[d] EXCEPT !.dirty = TRUE]
                              ELSE cl[d]]
    BY <1>4, Zenon DEF Committed
<1> HIDE DEF p, o
<1>9. /\ x \in CallRecord /\ x.pc = p /\ x.op = cl[c].op /\ x.write = Nil
      /\ x.todo = cl[c].todo /\ x.owed = o /\ x.done = TRUE
    BY <1>1, <1>6, Zenon DEF CallRecord
<1> HIDE DEF x
<1>10. ASSUME NEW d \in Client, d # c
       PROVE  /\ cl'[d] \in CallRecord
              /\ cl'[d].pc = cl[d].pc /\ cl'[d].op = cl[d].op /\ cl'[d].task = cl[d].task
              /\ cl'[d].write = cl[d].write /\ cl'[d].tries = cl[d].tries
              /\ cl'[d].todo = cl[d].todo /\ cl'[d].done = cl[d].done
              /\ cl'[d].owed = cl[d].owed
              /\ cl[d].pc = "exec" => cl'[d].dirty
              /\ cl[d].pc # "exec" => cl'[d] = cl[d]
  <2>1. CASE cl[d].pc = "exec"
    <3>1. cl'[d] = [cl[d] EXCEPT !.dirty = TRUE]
        BY <1>8, <1>10, <2>1
    <3> QED BY <1>1, <2>1, <3>1, Zenon DEF CallRecord
  <2>2. CASE cl[d].pc # "exec"
      BY <1>1, <1>8, <1>10, <2>2
  <2> QED BY <2>1, <2>2
<1>11. cl'[c] = x /\ cl' \in [Client -> CallRecord]
    BY <1>8, <1>9, <1>10
<1>12. Types'
  <2>1. EntryOK(db') /\ db'.run.start = First
      BY <1>3, <1>4 DEF Keeps, IInv, Types
  <2> QED BY <1>4, <1>11, <2>1 DEF IInv, Types
<1>13. Locking'
    BY <1>2, <1>4, <1>6, <1>9, <1>10, <1>11 DEF IInv, Locking
<1>14. (Phase(cl[c]) /\ Prepared(cl[c]) /\ Owing(c, cl[c]))'
  <2>1. Phase(cl[c])'
      BY <1>2, <1>4, <1>6, <1>9, <1>11 DEF Phase
  <2>2. Prepared(cl[c])'
      BY <1>6, <1>9, <1>11 DEF Prepared
  <2>3. Owing(c, cl[c])'
      BY <1>2, <1>5, <1>6, <1>7, <1>9, <1>11 DEF Owing
  <2> QED BY <2>1, <2>2, <2>3
<1>15. ASSUME NEW d \in Client, d # c
       PROVE  (Phase(cl[d]) /\ Prepared(cl[d]) /\ Owing(d, cl[d]))'
  <2>1. Phase(cl[d]) /\ Prepared(cl[d]) /\ Owing(d, cl[d])
      BY DEF IInv
  <2>2. Phase(cl[d])'
      BY <1>4, <1>10, <1>15, <2>1 DEF Phase
  <2>3. Prepared(cl[d])'
      BY <1>10, <1>15, <2>1 DEF Prepared
  <2>4. Owing(d, cl[d])'
      BY <1>5, <1>10, <1>15, <2>1 DEF Owing
  <2> QED BY <2>2, <2>3, <2>4
<1>16. (backend = "redis" /\ ~revived => Indexed(db))'
    BY <1>3, <1>4 DEF IInv, Types
<1> QED BY <1>12, <1>13, <1>14, <1>15, <1>16 DEF IInv

LEMMA CommitInv ==
    ASSUME IInv, NEW c \in Client, PgCommit(c)
    PROVE  IInv'
<1> DEFINE op == cl[c].op
           ok == ~(op.kind = "push" /\ PgStackFull(db.run))
           o == IF op.kind = "cancel" /\ InFlight(db.run) THEN OpenTasks ELSE {}
           x == [cl[c] EXCEPT !.pc = "reply", !.done = ok, !.hit = PgHit(op, db.run), !.owed = o]
<1>1. cl \in [Client -> CallRecord] /\ EntryOK(db) /\ Stored(db.run)
    BY DEF IInv, Types, EntryOK
<1>2. /\ Phase(cl[c]) /\ Owing(c, cl[c]) /\ cl[c].pc \in {"ready", "locked"}
      /\ backend = "postgres" /\ backend' = backend
    BY DEF PgCommit, IInv
<1>3. lock = c \/ lock = Nil
    BY DEF PgCommit, IInv, Locking
<1>4. OpOK(op) /\ cl[c].write = Nil
    BY <1>2 DEF Phase
<1>5. Keeps(db.run, PgRow(op, db.run))
    BY <1>1, <1>4, PostgresAgrees
<1>6. PgVariables(op, db.run, db.vars) \in SUBSET {"step", "result"}
    BY <1>1 DEF PgVariables, EntryOK, RedisEntry
<1>7. db' = [db EXCEPT !.run = PgRow(op, db.run), !.vars = PgVariables(op, db.run, db.vars)]
    BY Zenon DEF PgCommit
<1>8. EntryOK(db') /\ db'.run.start = First
  <2>1. db' \in RedisEntry /\ db'.run = PgRow(op, db.run)
      BY <1>1, <1>5, <1>6, <1>7, Zenon DEF EntryOK, RedisEntry, Keeps, Stored
  <2> QED BY <1>5, <2>1 DEF EntryOK, Keeps, IInv, Types
<1>9. ok \in BOOLEAN /\ PgHit(op, db.run) \in BOOLEAN /\ "reply" \in PC /\ o \in SUBSET Task
    BY DEF PC, OpenTasks, PgHit
<1>10. cl' = [cl EXCEPT ![c] = x]
    BY Zenon DEF PgCommit
<1>11. /\ lock' = Nil /\ UNCHANGED <<calls, faults>>
       /\ revived' = (revived \/ Revives(db.run, db'.run))
       /\ tasks' = IF op.kind = "cancel" /\ InFlight(db.run) THEN PgCloseTasks ELSE tasks
    BY DEF PgCommit
<1>12. tasks' \in [Task -> {"none", "open", "submitted", "closed"}] /\ Known' = Known
       /\ OpenTasks' \subseteq OpenTasks /\ o \cap OpenTasks' = {} /\ o \subseteq Known
    BY <1>11 DEF PgCloseTasks, Known, OpenTasks, IInv, Types
<1> HIDE DEF ok, o
<1>13. /\ x \in CallRecord /\ x.pc = "reply" /\ x.op = cl[c].op /\ x.write = cl[c].write
       /\ x.todo = cl[c].todo /\ x.owed = o /\ x.done = ok
    BY <1>1, <1>9, Zenon DEF CallRecord
<1> HIDE DEF x
<1>14. /\ cl' \in [Client -> CallRecord] /\ cl'[c] = x
       /\ \A d \in Client \ {c} : cl'[d] = cl[d]
    BY <1>1, <1>10, <1>13, MovesTo
<1>15. Types'
    BY <1>2, <1>8, <1>11, <1>12, <1>14 DEF IInv, Types, Revives
<1>16. Locking'
    BY <1>3, <1>11, <1>13, <1>14, BackendsAssumption DEF IInv, Locking
<1>17. Phase(cl[c])' /\ Prepared(cl[c])'
    BY <1>2, <1>4, <1>13, <1>14 DEF Phase, Prepared
<1>18. Owing(c, cl[c])'
    BY <1>2, <1>12, <1>13, <1>14 DEF Owing
<1>19. c # Engine /\ cl[Engine].pc = "create" => cl[Engine].task \notin Known'
    BY <1>12 DEF IInv, Owing, Client
<1> QED BY <1>2, <1>12, <1>14, <1>15, <1>16, <1>17, <1>18, <1>19, StepKeeps

LEMMA TickInv ==
    ASSUME IInv, Tick
    PROVE  IInv'
<1>1. /\ cl \in [Client -> CallRecord] /\ EntryOK(db) /\ db' = Elapsed(db)
      /\ UNCHANGED <<backend, tasks, lock, calls, faults, revived>>
      /\ Known' = Known /\ OpenTasks' = OpenTasks
    BY DEF IInv, Types, Tick, Known, OpenTasks
<1>2. /\ EntryOK(db') /\ Keeps(db.run, db'.run) /\ db'.run = Due(db.run)
      /\ db'.vars = db.vars /\ (Indexed(db) => Indexed(db')) /\ Stored(db.run)
      /\ IsTerminal(db'.run) <=> IsTerminal(db.run)
    BY <1>1, ElapsedFields, DueFields DEF EntryOK
<1>3. ASSUME NEW c \in Client
      PROVE  /\ cl'[c] \in CallRecord
             /\ cl'[c].pc = cl[c].pc /\ cl'[c].op = cl[c].op /\ cl'[c].task = cl[c].task
             /\ cl'[c].dirty = cl[c].dirty /\ cl'[c].tries = cl[c].tries
             /\ cl'[c].hit = cl[c].hit
             /\ cl'[c].todo = cl[c].todo /\ cl'[c].done = cl[c].done
             /\ cl'[c].owed = cl[c].owed
             /\ cl'[c].write = IF cl[c].write = Nil \/ FreshWakeup(cl[c].op) THEN cl[c].write
                               ELSE Elapsed(cl[c].write)
             /\ cl[c].pc # "exec" => cl'[c] = cl[c]
  <2>1. Phase(cl[c]) /\ Prepared(cl[c]) /\ cl[c] \in CallRecord
      BY <1>1 DEF IInv
  <2>2. CASE cl[c].write = Nil \/ FreshWakeup(cl[c].op)
    <3>1. cl'[c] = cl[c]
        BY <2>2 DEF Tick
    <3> QED BY <2>1, <2>2, <3>1
  <2>3. CASE ~(cl[c].write = Nil \/ FreshWakeup(cl[c].op))
    <3>1. cl'[c] = [cl[c] EXCEPT !.write = Elapsed(cl[c].write)]
        BY <2>3, Zenon DEF Tick
    <3>2. cl[c].pc = "exec" /\ EntryOK(cl[c].write)
        BY <2>1, <2>3 DEF Phase, Prepared
    <3>3. Elapsed(cl[c].write) \in RedisEntry
        BY <3>2, ElapsedFields DEF EntryOK
    <3>4. /\ cl'[c] \in CallRecord
          /\ cl'[c].pc = cl[c].pc /\ cl'[c].op = cl[c].op /\ cl'[c].task = cl[c].task
          /\ cl'[c].dirty = cl[c].dirty /\ cl'[c].tries = cl[c].tries
          /\ cl'[c].hit = cl[c].hit
          /\ cl'[c].todo = cl[c].todo /\ cl'[c].done = cl[c].done
          /\ cl'[c].owed = cl[c].owed
          /\ cl'[c].write = Elapsed(cl[c].write)
        BY <2>1, <3>1, <3>3, Zenon DEF CallRecord
    <3> QED BY <2>3, <3>2, <3>4
  <2> QED BY <2>2, <2>3
<1>4. cl' \in [Client -> CallRecord]
  <2>1. cl' = [c \in Client |-> cl'[c]]
      BY DEF Tick
  <2> QED BY <1>3, <2>1
<1>5. Types'
    BY <1>1, <1>2, <1>4 DEF IInv, Types, Keeps
<1>6. Locking'
    BY <1>1, <1>3 DEF IInv, Locking
<1>7. ASSUME NEW c \in Client PROVE (Phase(cl[c]) /\ Prepared(cl[c]) /\ Owing(c, cl[c]))'
  <2>1. Phase(cl[c]) /\ Prepared(cl[c]) /\ Owing(c, cl[c])
      BY DEF IInv
  <2>2. Owing(c, cl[c])'
      BY <1>1, <1>3, <2>1 DEF Owing
  <2>3. CASE cl[c].pc # "exec"
      BY <1>1, <1>3, <2>1, <2>2, <2>3 DEF Phase, Prepared
  <2>4. CASE cl[c].pc = "exec"
    <3> DEFINE op == cl[c].op
               f == cl[c].write
               g == cl'[c].write
    <3>1. EntryOK(f) /\ f # Nil /\ OpOK(op)
        BY <2>1, <2>4 DEF Phase, Prepared
    <3>2. /\ EntryOK(Elapsed(f)) /\ Keeps(f.run, Elapsed(f).run) /\ Elapsed(f).run = Due(f.run)
          /\ Elapsed(f).vars = f.vars /\ (Indexed(f) => Indexed(Elapsed(f)))
          /\ IsTerminal(Elapsed(f).run) <=> IsTerminal(f.run)
        BY <3>1, ElapsedFields, DueFields DEF EntryOK
    <3>3. /\ FreshWakeup(op) => g = f
          /\ ~FreshWakeup(op) => g = Elapsed(f)
        BY <1>3, <3>1
    <3>4. /\ EntryOK(g) /\ g # Nil /\ g.vars = f.vars /\ (Indexed(f) => Indexed(g))
          /\ IsTerminal(g.run) <=> IsTerminal(f.run)
        BY <3>1, <3>2, <3>3, NoRecordAssumption DEF EntryOK
    <3>5. Phase(cl[c])'
        BY <1>1, <1>3, <2>1, <2>4, <3>4 DEF Phase
    <3>6. ASSUME ~cl[c].dirty
          PROVE  /\ Keeps(db'.run, g.run)
                 /\ g.run \in Store!Results(op, db'.run)
                 /\ g.vars = Store!Written(op, db'.run, db'.vars)
                 /\ ~revived' /\ ~Revives(db'.run, g.run) => Indexed(g)
                 /\ op.kind = "cancel" /\ ~IsTerminal(db'.run) => cl'[c].hit
      <4>1. /\ Keeps(db.run, f.run) /\ f.run \in Store!Results(op, db.run)
            /\ f.vars = Store!Written(op, db.run, db.vars)
            /\ ~revived /\ ~Revives(db.run, f.run) => Indexed(f)
            /\ op.kind = "cancel" /\ ~IsTerminal(db.run) => cl[c].hit
          BY <2>1, <2>4, <3>6 DEF Prepared
      <4>2. Keeps(db.run, g.run)
          BY <3>2, <3>3, <4>1, KeepsTwice
      <4>3. Keeps(db'.run, g.run)
          BY <1>2, <4>2, DueFields DEF Keeps
      <4>4. (IF FreshWakeup(op) THEN f.run ELSE Due(f.run)) \in Store!Results(op, Due(db.run))
          BY <1>2, <3>1, <4>1, ResultsElapse
      <4>5. g.run \in Store!Results(op, db'.run)
          BY <1>2, <3>2, <3>3, <4>4
      <4>6. Store!Written(op, db'.run, db'.vars) = Store!Written(op, db.run, db.vars)
          BY <1>2, DueFields DEF Store!Written
      <4> QED BY <1>1, <1>2, <1>3, <3>4, <4>1, <4>3, <4>5, <4>6 DEF Revives
    <3>7. Prepared(cl[c])'
        BY <1>3, <3>4, <3>6 DEF Prepared
    <3> QED BY <2>2, <3>5, <3>7
  <2> QED BY <2>3, <2>4
<1>8. (backend = "redis" /\ ~revived => Indexed(db))'
    BY <1>1, <1>2 DEF IInv
<1> QED BY <1>5, <1>6, <1>7, <1>8 DEF IInv

-----------------------------------------------------------------------------
(***************************************************************************)
(* The theorems.                                                           *)
(***************************************************************************)
LEMMA NextInv == IInv /\ [Next]_vars => IInv'
<1> SUFFICES ASSUME IInv, [Next]_vars PROVE IInv'
    OBVIOUS
<1>1. CASE UNCHANGED vars
  <2>1. Known' = Known /\ OpenTasks' = OpenTasks
      BY <1>1 DEF vars, Known, OpenTasks
  <2>2. Types' /\ Locking'
      BY <1>1 DEF vars, IInv, Types, Locking
  <2>3. ASSUME NEW c \in Client PROVE (Phase(cl[c]) /\ Prepared(cl[c]) /\ Owing(c, cl[c]))'
    <3>1. Phase(cl[c]) /\ Prepared(cl[c]) /\ Owing(c, cl[c]) /\ cl' = cl /\ db' = db
          /\ backend' = backend /\ revived' = revived
        BY <1>1 DEF IInv, vars
    <3>2. Phase(cl[c])'
        BY <3>1 DEF Phase
    <3>3. Prepared(cl[c])'
        BY <3>1 DEF Prepared
    <3>4. Owing(c, cl[c])'
        BY <2>1, <3>1 DEF Owing
    <3> QED BY <3>2, <3>3, <3>4
  <2> QED BY <1>1, <2>2, <2>3 DEF vars, IInv
<1>2. ASSUME NEW c \in Client, Invoke(c) PROVE IInv'
    BY <1>2, InvokeInv
<1>3. ASSUME NEW c \in Client,
             CreateUserTask(c) \/ PgSubmitUserTask(c) \/ RedisSubmitUserTask(c)
      PROVE  IInv'
    BY <1>3, StoreTaskInv
<1>4. ASSUME NEW c \in Client, Reply(c) \/ Abandon(c) PROVE IInv'
    BY <1>4, LeaveInv
<1>5. ASSUME NEW c \in Client, PgLock(c) PROVE IInv'
    BY <1>5, LockInv
<1>6. ASSUME NEW c \in Client, PgCommit(c) PROVE IInv'
    BY <1>6, CommitInv
<1>7. ASSUME NEW c \in Client, RedisGetUserTask(c) PROVE IInv'
    BY <1>7, GetTaskInv
<1>8. ASSUME NEW c \in Client, RedisRead(c) PROVE IInv'
    BY <1>8, ReadInv
<1>9. ASSUME NEW c \in Client, RedisExec(c) PROVE IInv'
    BY <1>9, FailedExecInv, ExecInv
<1>10. ASSUME NEW c \in Client, RedisListTasks(c) PROVE IInv'
    BY <1>10, ListTasksInv
<1>11. ASSUME NEW c \in Client, RedisCloseTask(c) PROVE IInv'
    BY <1>11, CloseTaskInv
<1>12. ASSUME NEW t \in Task, NEW d \in BOOLEAN, Approve(t, d) PROVE IInv'
    BY <1>12, ApproveInv
<1>13. ASSUME NEW c \in Outsider, NEW t \in Task, Submit(c, t) PROVE IInv'
    BY <1>13, SubmitInv
<1>14. CASE Tick
    BY <1>14, TickInv
<1> QED BY <1>1, <1>2, <1>3, <1>4, <1>5, <1>6, <1>7, <1>8, <1>9, <1>10, <1>11, <1>12, <1>13,
           <1>14 DEF Next

LEMMA Invariance == Spec => []IInv
BY InitInv, NextInv, PTL DEF Spec

\* Every state has its type; a row's lock is held by exactly the call that is past its
\* SELECT ... FOR UPDATE, and a call has at most one EXEC prepared (store/redis/runs.go's
\* txRun, store/postgres/runs.go).
THEOREM TypeCorrect == Spec => []TypeOK
<1>1. IInv => TypeOK
  <2> SUFFICES ASSUME IInv PROVE TypeOK
      OBVIOUS
  <2>1. ASSUME NEW c \in Client
        PROVE  /\ (lock = c) <=> (cl[c].pc = "locked")
               /\ (cl[c].write # Nil) <=> (cl[c].pc = "exec")
               /\ cl[c].write # Nil => cl[c].write \in RedisEntry
               /\ cl[c].tries \in 0..MaxTries
    <3>1. cl[c] \in CallRecord /\ Phase(cl[c])
        BY DEF IInv, Types
    <3> QED BY <3>1 DEF IInv, Locking, Phase, CallRecord
  <2> QED BY <2>1 DEF IInv, Types, TypeOK, EntryOK
<1> QED BY <1>1, Invariance, PTL

\* Whatever calls interleave, a paused run that is due or waits for an event is found
\* through Redis's idx:wakeup and idx:awaitevent and in Postgres's row, but for a run that a
\* stale write took out of a terminal state.
THEOREM FoundWhenDue == Spec => []IndexesComplete
<1>1. IInv => IndexesComplete
    BY DEF IInv, Types, IndexesComplete, Indexed, IsTerminal, Terminal, FindRunsByDueWakeup,
           FindRunsByAwaitedEvent, RedisFindRunsByDueWakeup, RedisFindRunsByAwaitedEvent,
           PgFindRunsByDueWakeup, PgFindRunsByAwaitedEvent
<1> QED BY <1>1, Invariance, PTL

\* A Cancel that answers without an error leaves none of the user tasks open that were open
\* when it took effect, also in Redis, where they are closed after the transaction.
THEOREM NoTaskLeftOpen == Spec => []CancelClosesTasks
<1>1. IInv => CancelClosesTasks
    BY DEF IInv, CancelClosesTasks, Owing
<1> QED BY <1>1, Invariance, PTL

\* Postgres never takes a submitted user task back: the close of a Cancel asks for
\* submitted_at IS NULL, and a task is created once.
THEOREM SubmittedForGood == Spec => SubmissionKept
<1> DEFINE Kept == backend = "postgres" =>
                     \A t \in Task : tasks[t] = "submitted" => tasks'[t] = "submitted"
<1>1. ASSUME IInv, [Next]_vars PROVE [Kept]_tasks
  <2> SUFFICES ASSUME backend = "postgres", NEW t \in Task, tasks[t] = "submitted",
                      tasks' # tasks
               PROVE  tasks'[t] = "submitted"
      BY DEF Kept
  <2>1. tasks \in [Task -> {"none", "open", "submitted", "closed"}]
      BY <1>1 DEF IInv, Types
  <2>2. ASSUME NEW c \in Client, CreateUserTask(c) PROVE tasks'[t] = "submitted"
    <3>1. cl[c].task \in Task \ Known /\ t \in Known
        BY <1>1, <2>2 DEF IInv, Owing, CreateUserTask, Known
    <3> QED BY <2>1, <2>2, <3>1 DEF CreateUserTask
  <2>3. ASSUME NEW c \in Client, PgSubmitUserTask(c) \/ RedisSubmitUserTask(c)
        PROVE  tasks'[t] = "submitted"
      BY <2>1, <2>3 DEF PgSubmitUserTask, RedisSubmitUserTask
  <2>4. ASSUME NEW c \in Client, RedisCloseTask(c) PROVE FALSE
      BY <1>1, <2>4 DEF RedisCloseTask, IInv, Phase
  <2>5. ASSUME NEW c \in Client, PgCommit(c) PROVE tasks'[t] = "submitted"
      BY <2>1, <2>5 DEF PgCommit, PgCloseTasks
  <2>6. \E c \in Client : CreateUserTask(c) \/ PgSubmitUserTask(c) \/ RedisSubmitUserTask(c)
                            \/ RedisCloseTask(c) \/ PgCommit(c)
      BY <1>1 DEF Next, vars, Invoke, Ready, Reply, Abandon, PgLock, RedisGetUserTask, RedisRead,
                  RedisExec, RedisListTasks, Approve, Submit, Tick
  <2> QED BY <2>2, <2>3, <2>4, <2>5, <2>6
<1> HIDE DEF Kept
<1>2. Spec => [][Kept]_tasks
    BY <1>1, Invariance, PTL DEF Spec
<1> QED BY <1>2 DEF SubmissionKept, Kept

-----------------------------------------------------------------------------
(***************************************************************************)
(* The refinement of RunStore.  A call starts when its user task is        *)
(* stored, takes effect with the EXEC, the commit or the read that aborts, *)
(* and returns with the reply or when its client is gone.                  *)
(***************************************************************************)
Calls == [c \in Client |-> AbstractCall(c)]

Outside == {"idle", "create", "submit", "set"}

LEMMA AbstractOf ==
    ASSUME NEW c \in Client
    PROVE  /\ cl[c].pc \in Outside => AbstractCall(c) = [op |-> Nil, done |-> FALSE]
           /\ cl[c].pc \notin Outside => AbstractCall(c) = [op |-> cl[c].op, done |-> cl[c].done]
BY DEF AbstractCall, Outside

LEMMA AbstractOfNext ==
    ASSUME NEW c \in Client
    PROVE  /\ cl'[c].pc \in Outside => AbstractCall(c)' = [op |-> Nil, done |-> FALSE]
           /\ cl'[c].pc \notin Outside =>
                AbstractCall(c)' = [op |-> cl'[c].op, done |-> cl'[c].done]
BY DEF AbstractCall, Outside

\* The calls of the other clients, as RunStore sees them.
Others(c) ==
    \A d \in Client \ {c} :
        cl'[d].pc = cl[d].pc /\ cl'[d].op = cl[d].op /\ cl'[d].done = cl[d].done

LEMMA OnlyCall ==
    ASSUME NEW c \in Client, Others(c), NEW x, AbstractCall(c)' = x
    PROVE  Calls' = [Calls EXCEPT ![c] = x] /\ Calls'[c] = x
<1>1. \A d \in Client \ {c} : AbstractCall(d)' = AbstractCall(d)
    BY DEF Others, AbstractCall
<1> QED BY <1>1 DEF Calls

LEMMA Stutters ==
    ASSUME NEW c \in Client, Others(c), AbstractCall(c)' = AbstractCall(c),
           db'.run = db.run, db'.vars = db.vars
    PROVE  UNCHANGED Store!vars
<1>1. \A d \in Client : AbstractCall(d)' = AbstractCall(d)
    BY DEF Others, AbstractCall
<1> QED BY <1>1 DEF Store!vars

LEMMA Starts ==
    ASSUME NEW c \in Client, Others(c), cl[c].pc \in Outside, cl'[c].pc \notin Outside,
           cl'[c].op \in Store!Op, cl'[c].done = FALSE, db' = db
    PROVE  Store!Next
<1> DEFINE x == [op |-> cl'[c].op, done |-> FALSE]
<1>1. Calls[c] = Store!NoCall
    BY AbstractOf DEF Calls, Store!NoCall
<1>2. AbstractCall(c)' = x
    BY AbstractOfNext
<1>3. Calls' = [Calls EXCEPT ![c] = x] /\ Calls'[c] = x
    BY <1>2, OnlyCall
<1>4. x \in [op : Store!Op, done : {FALSE}]
    OBVIOUS
<1> HIDE DEF x
<1>5. Store!Call(c)
    BY <1>1, <1>3, <1>4 DEF Store!Call, Calls
<1> QED BY <1>5 DEF Store!Next

LEMMA DoneSet ==
    ASSUME NEW S, NEW y \in [op : S, done : BOOLEAN], NEW z \in [op : S, done : BOOLEAN],
           z.op = y.op, z.done = TRUE
    PROVE  [y EXCEPT !.done = TRUE] = z
OBVIOUS

LEMMA TakesEffect ==
    ASSUME NEW c \in Client, Others(c), cl[c].pc \notin Outside, cl'[c].pc \notin Outside,
           cl[c].op \in Store!Op, cl'[c].op = cl[c].op,
           cl[c].done = FALSE, cl'[c].done = TRUE,
           db'.run \in Store!Results(cl[c].op, db.run),
           db'.vars = Store!Written(cl[c].op, db.run, db.vars)
    PROVE  Store!Next
<1> DEFINE op == cl[c].op
           x == [op |-> op, done |-> TRUE]
<1>1. Calls[c] = [op |-> op, done |-> FALSE] /\ op # Nil
    BY AbstractOf, NoRecordAssumption DEF Calls
<1>2. AbstractCall(c)' = x
    BY AbstractOfNext
<1>3. Calls' = [Calls EXCEPT ![c] = x]
    BY <1>2, OnlyCall
<1>4. Calls' = [Calls EXCEPT ![c].done = TRUE]
  <2>1. [Calls[c] EXCEPT !.done = TRUE] = x
    <3>1. Calls[c] \in [op : Store!Op, done : BOOLEAN] /\ Calls[c].op = op
        BY <1>1
    <3>2. x \in [op : Store!Op, done : BOOLEAN] /\ x.op = op /\ x.done = TRUE
        OBVIOUS
    <3> QED BY <3>1, <3>2, DoneSet
  <2>2. [Calls EXCEPT ![c].done = TRUE] = [Calls EXCEPT ![c] = [Calls[c] EXCEPT !.done = TRUE]]
      BY Zenon
  <2> QED BY <1>3, <2>1, <2>2
<1>5. Calls[c].op = op /\ ~Calls[c].done
    BY <1>1
<1>6. Store!TakeEffect(c)
    BY <1>1, <1>4, <1>5 DEF Store!TakeEffect, Calls
<1> QED BY <1>6 DEF Store!Next

LEMMA Returns ==
    ASSUME NEW c \in Client, Others(c), cl[c].pc \notin Outside, cl'[c].pc \in Outside,
           cl[c].op \in Store!Op, db' = db
    PROVE  Store!Next
<1>1. Calls[c].op = cl[c].op /\ cl[c].op # Nil
    BY AbstractOf, NoRecordAssumption DEF Calls
<1>2. AbstractCall(c)' = Store!NoCall
    BY AbstractOfNext DEF Store!NoCall
<1>3. Calls' = [Calls EXCEPT ![c] = Store!NoCall]
    BY <1>2, OnlyCall
<1>4. Store!Return(c)
    BY <1>1, <1>3 DEF Store!Return, Calls
<1> QED BY <1>4 DEF Store!Next

LEMMA StepsRefine ==
    ASSUME IInv, [Next]_vars
    PROVE  [Store!Next]_Store!vars
<1>0. cl \in [Client -> CallRecord] /\ EntryOK(db)
    BY DEF IInv, Types
<1>1. CASE UNCHANGED vars
  <2>1. \A d \in Client : AbstractCall(d)' = AbstractCall(d)
      BY <1>1 DEF vars, AbstractCall
  <2> QED BY <1>1, <2>1 DEF vars, Store!vars
<1>2. ASSUME NEW c \in Client, NEW op, OpOK(op), NEW t, NEW p \in {"ready", "create", "submit"},
             Ready(c, op, t, p)
      PROVE  [Store!Next]_Store!vars
  <2>1. cl[c].pc = "idle" /\ db' = db /\ Others(c)
      BY <1>0, <1>2 DEF Ready, Others
  <2>2. cl'[c] = [cl[c] EXCEPT !.pc = p, !.op = op, !.task = t] /\ cl[c] = Idle
      BY <1>0, <1>2, Zenon DEF Ready, IInv, Phase
  <2>3. cl'[c].pc = p /\ cl'[c].op = op /\ cl'[c].done = FALSE
      BY <2>2 DEF Idle
  <2>4. CASE p = "ready"
      BY <1>2, <2>1, <2>3, <2>4, Starts DEF Outside, OpOK
  <2>5. CASE p # "ready"
    <3>1. AbstractCall(c)' = AbstractCall(c)
        BY <1>2, <2>1, <2>3, <2>5, AbstractOf, AbstractOfNext DEF Outside
    <3> QED BY <2>1, <3>1, Stutters
  <2> QED BY <2>4, <2>5
<1>3. ASSUME NEW c \in Client, Invoke(c) PROVE [Store!Next]_Store!vars
  <2>1. Stored(db.run) /\ db.run.start \in Step
      BY BackendsAssumption DEF IInv, Types, EntryOK
  <2>2. PICK op \in IF c = Engine THEN EngineOps(db.run) ELSE OutsiderOps :
            Ready(c, op, Nil, "ready")
      BY <1>3 DEF Invoke
  <2> QED BY <1>2, <2>1, <2>2, EngineOpsOK, OutsiderOpsOK
<1>4. ASSUME NEW t \in Task, NEW d \in BOOLEAN, Approve(t, d) PROVE [Store!Next]_Store!vars
    BY <1>2, <1>4, TaskOpsOK DEF Approve, Client
<1>5. ASSUME NEW c \in Outsider, NEW t \in Task, Submit(c, t) PROVE [Store!Next]_Store!vars
    BY <1>2, <1>5, TaskOpsOK DEF Submit, Client
<1>6. ASSUME NEW c \in Client,
             CreateUserTask(c) \/ PgSubmitUserTask(c) \/ RedisSubmitUserTask(c)
      PROVE  [Store!Next]_Store!vars
  <2>1. /\ cl' = [cl EXCEPT ![c].pc = "ready"] /\ db' = db
        /\ cl[c].pc \in {"create", "submit", "set"}
      BY <1>6 DEF CreateUserTask, PgSubmitUserTask, RedisSubmitUserTask
  <2>2. cl'[c] = [cl[c] EXCEPT !.pc = "ready"] /\ Others(c)
      BY <1>0, <2>1 DEF Others
  <2>3. cl'[c].pc = "ready" /\ cl'[c].op = cl[c].op /\ cl'[c].done = cl[c].done
      BY <1>0, <2>2, Zenon DEF CallRecord
  <2>4. cl[c].op \in Store!Op /\ cl[c].done = FALSE
      BY <1>0, <2>1 DEF IInv, Phase, OpOK, CallRecord
  <2> QED BY <2>1, <2>2, <2>3, <2>4, Starts DEF Outside
<1>7. ASSUME NEW c \in Client,
             RedisGetUserTask(c) \/ RedisListTasks(c) \/ PgLock(c) \/ RedisCloseTask(c)
      PROVE  [Store!Next]_Store!vars
  <2>1. db' = db /\ Others(c)
      BY <1>0, <1>7 DEF RedisGetUserTask, RedisListTasks, PgLock, RedisCloseTask, Others
  <2>2. /\ cl'[c].op = cl[c].op /\ cl'[c].done = cl[c].done
        /\ cl'[c].pc \in Outside <=> cl[c].pc \in Outside
    <3>1. CASE RedisGetUserTask(c)
        BY <1>0, <3>1 DEF RedisGetUserTask, CallRecord, Outside
    <3>2. CASE RedisListTasks(c)
        BY <1>0, <3>2 DEF RedisListTasks, CallRecord, Outside
    <3>3. CASE PgLock(c)
        BY <1>0, <3>3 DEF PgLock, CallRecord, Outside
    <3>4. CASE RedisCloseTask(c)
        BY <1>0, <3>4 DEF RedisCloseTask, CallRecord, Outside
    <3> QED BY <1>7, <3>1, <3>2, <3>3, <3>4
  <2>3. AbstractCall(c)' = AbstractCall(c)
      BY <2>2, AbstractOf, AbstractOfNext
  <2> QED BY <2>1, <2>3, Stutters
<1>8. ASSUME NEW c \in Client, Reply(c) \/ Abandon(c) PROVE [Store!Next]_Store!vars
  <2>1. cl'[c].pc \in Outside /\ db' = db /\ Others(c) /\ cl[c].pc # "idle"
      BY <1>0, <1>8 DEF Reply, Abandon, Others, Idle, Outside
  <2>2. CASE cl[c].pc \in Outside
    <3>1. AbstractCall(c)' = AbstractCall(c)
        BY <2>1, <2>2, AbstractOf, AbstractOfNext
    <3> QED BY <2>1, <3>1, Stutters
  <2>3. CASE cl[c].pc \notin Outside
    <3>1. cl[c].op \in Store!Op
        BY <2>1 DEF IInv, Phase, OpOK
    <3> QED BY <2>1, <2>3, <3>1, Returns
  <2> QED BY <2>2, <2>3
<1>9. ASSUME NEW c \in Client, RedisRead(c) PROVE [Store!Next]_Store!vars
  <2> DEFINE op == cl[c].op
             x1 == [cl[c] EXCEPT !.pc = "reply"]
             x2 == [cl[c] EXCEPT !.pc = "reply", !.done = TRUE]
             x3 == [cl[c] EXCEPT !.pc = "exec", !.write = RedisMutate(op, db), !.dirty = FALSE,
                                 !.hit = cl[c].hit \/ RedisHit(op, db)]
             z == IF op.kind = "push" /\ RedisStackFull(db) THEN x1
                  ELSE IF RedisAborts(op, db) THEN x2 ELSE x3
  <2>1. cl' = [cl EXCEPT ![c] = z] /\ db' = db /\ cl[c].pc = "ready"
      BY <1>9, Zenon DEF RedisRead
  <2>2. OpOK(op) /\ cl[c].done = FALSE
      BY <1>0, <2>1 DEF IInv, Phase, CallRecord
  <2>3. x1.pc = "reply" /\ x1.op = op /\ x1.done = cl[c].done
      BY <1>0, Zenon DEF CallRecord
  <2>4. x2.pc = "reply" /\ x2.op = op /\ x2.done = TRUE
      BY <1>0, Zenon DEF CallRecord
  <2>5. x3.pc = "exec" /\ x3.op = op /\ x3.done = cl[c].done
      BY <1>0, Zenon DEF CallRecord
  <2> HIDE DEF x1, x2, x3
  <2>6. cl'[c] = z /\ Others(c)
    <3> HIDE DEF z
    <3> QED BY <1>0, <2>1 DEF Others
  <2>7. CASE ~(op.kind = "push" /\ RedisStackFull(db)) /\ RedisAborts(op, db)
    <3>1. db.run \in Store!Results(op, db.run) /\ Store!Written(op, db.run, db.vars) = db.vars
        BY <1>0, <2>2, <2>7, AbortsAgree
    <3>2. cl'[c] = x2
        BY <2>6, <2>7
    <3> QED BY <2>1, <2>2, <2>4, <2>6, <3>1, <3>2, TakesEffect DEF Outside, OpOK
  <2>8. CASE ~(~(op.kind = "push" /\ RedisStackFull(db)) /\ RedisAborts(op, db))
    <3>1. cl'[c] \in {x1, x3}
        BY <2>6, <2>8
    <3>2. AbstractCall(c)' = AbstractCall(c)
        BY <2>1, <2>3, <2>5, <3>1, AbstractOf, AbstractOfNext DEF Outside
    <3> QED BY <2>1, <2>6, <3>2, Stutters
  <2> QED BY <2>7, <2>8
<1>10. ASSUME NEW c \in Client, RedisExec(c), cl[c].dirty PROVE [Store!Next]_Store!vars
  <2> DEFINE p == IF cl[c].tries + 1 < MaxTries THEN "ready" ELSE "reply"
             x == [cl[c] EXCEPT !.tries = cl[c].tries + 1, !.write = Nil, !.dirty = FALSE,
                                !.pc = p]
  <2>1. cl' = [cl EXCEPT ![c] = x] /\ db' = db /\ cl[c].pc = "exec"
      BY <1>0, <1>10, Zenon DEF RedisExec
  <2>2. p \in {"ready", "reply"}
      OBVIOUS
  <2> HIDE DEF p
  <2>3. x.pc = p /\ x.op = cl[c].op /\ x.done = cl[c].done
      BY <1>0, Zenon DEF CallRecord
  <2> HIDE DEF x
  <2>4. cl'[c] = x /\ Others(c)
      BY <1>0, <2>1 DEF Others
  <2>5. AbstractCall(c)' = AbstractCall(c)
      BY <2>1, <2>2, <2>3, <2>4, AbstractOf, AbstractOfNext DEF Outside
  <2> QED BY <2>1, <2>4, <2>5, Stutters
<1>11. ASSUME NEW c \in Client, RedisExec(c), ~cl[c].dirty PROVE [Store!Next]_Store!vars
  <2> DEFINE p == IF cl[c].op.kind = "cancel" /\ cl[c].hit THEN "list" ELSE "reply"
             o == IF cl[c].op.kind = "cancel" /\ ~IsTerminal(db.run) THEN OpenTasks ELSE {}
             x == [cl[c] EXCEPT !.pc = p, !.write = Nil, !.done = TRUE, !.owed = o]
  <2>1. /\ db' = cl[c].write /\ cl' = Committed(c, p) /\ cl[c].pc = "exec"
        /\ p \in {"list", "reply"}
      BY <1>11 DEF RedisExec
  <2>2. cl' = [d \in Client |-> IF d = c THEN x
                                ELSE IF cl[d].pc = "exec" THEN [cl[d] EXCEPT !.dirty = TRUE]
                                ELSE cl[d]]
      BY <2>1, Zenon DEF Committed
  <2> HIDE DEF p, o
  <2>3. x.pc = p /\ x.op = cl[c].op /\ x.done = TRUE
      BY <1>0, Zenon DEF CallRecord
  <2> HIDE DEF x
  <2>4. cl'[c] = x
      BY <2>2
  <2>5. Others(c)
    <3> SUFFICES ASSUME NEW d \in Client \ {c}
                 PROVE  cl'[d].pc = cl[d].pc /\ cl'[d].op = cl[d].op /\ cl'[d].done = cl[d].done
        BY DEF Others
    <3>1. cl'[d] = IF cl[d].pc = "exec" THEN [cl[d] EXCEPT !.dirty = TRUE] ELSE cl[d]
        BY <2>2
    <3> QED BY <1>0, <3>1 DEF CallRecord
  <2>6. /\ cl[c].op \in Store!Op /\ cl[c].done = FALSE
        /\ db'.run \in Store!Results(cl[c].op, db.run)
        /\ db'.vars = Store!Written(cl[c].op, db.run, db.vars)
      BY <1>0, <1>11, <2>1 DEF IInv, Phase, Prepared, OpOK, CallRecord
  <2> QED BY <2>1, <2>3, <2>4, <2>5, <2>6, TakesEffect DEF Outside
<1>12. ASSUME NEW c \in Client, PgCommit(c) PROVE [Store!Next]_Store!vars
  <2> DEFINE op == cl[c].op
             ok == ~(op.kind = "push" /\ PgStackFull(db.run))
             o == IF op.kind = "cancel" /\ InFlight(db.run) THEN OpenTasks ELSE {}
             x == [cl[c] EXCEPT !.pc = "reply", !.done = ok, !.hit = PgHit(op, db.run),
                                !.owed = o]
  <2>1. /\ cl' = [cl EXCEPT ![c] = x]
        /\ db' = [db EXCEPT !.run = PgRow(op, db.run), !.vars = PgVariables(op, db.run, db.vars)]
      BY <1>12, Zenon DEF PgCommit
  <2>2. OpOK(op) /\ cl[c].done = FALSE /\ cl[c].pc \in {"ready", "locked"}
      BY <1>0, <1>12 DEF PgCommit, IInv, Phase, CallRecord
  <2>3. /\ db'.run = PgRow(op, db.run) /\ db'.vars = Store!Written(op, db.run, db.vars)
      BY <1>0, <2>1, SameVariables, Zenon DEF EntryOK, RedisEntry
  <2>4. /\ db'.run \in Store!Results(op, db.run)
        /\ ~ok => db'.run = db.run /\ db'.vars = db.vars
      BY <1>0, <2>2, <2>3, PostgresAgrees, WrittenOf DEF EntryOK
  <2>5. ok \in BOOLEAN
      OBVIOUS
  <2> HIDE DEF ok, o
  <2>6. x.pc = "reply" /\ x.op = op /\ x.done = ok
      BY <1>0, Zenon DEF CallRecord
  <2> HIDE DEF x
  <2>7. cl'[c] = x /\ Others(c)
      BY <1>0, <2>1 DEF Others
  <2>8. CASE ok = TRUE
      BY <2>2, <2>3, <2>4, <2>6, <2>7, <2>8, TakesEffect DEF Outside, OpOK
  <2>9. CASE ok = FALSE
    <3>1. AbstractCall(c)' = AbstractCall(c)
        BY <2>2, <2>6, <2>7, <2>9, AbstractOf, AbstractOfNext DEF Outside
    <3> QED BY <2>4, <2>7, <2>9, <3>1, Stutters
  <2> QED BY <2>5, <2>8, <2>9
<1>13. CASE Tick
  <2>1. /\ db'.run = Due(db.run) /\ db'.vars = db.vars
      BY <1>0, <1>13, ElapsedFields DEF Tick
  <2>2. ASSUME NEW d \in Client PROVE AbstractCall(d)' = AbstractCall(d)
    <3>1. cl'[d] = IF cl[d].write = Nil \/ FreshWakeup(cl[d].op) THEN cl[d]
                   ELSE [cl[d] EXCEPT !.write = Elapsed(cl[d].write)]
        BY <1>13, Zenon DEF Tick
    <3>2. cl'[d].pc = cl[d].pc /\ cl'[d].op = cl[d].op /\ cl'[d].done = cl[d].done
        BY <1>0, <3>1 DEF CallRecord
    <3> QED BY <3>2 DEF AbstractCall
  <2>3. Calls' = Calls
      BY <2>2 DEF Calls
  <2>4. CASE db.run.wakeup = "later"
    <3>1. Due(db.run) = [db.run EXCEPT !.wakeup = "due"]
        BY <2>4 DEF Due
    <3>2. Store!Tick
        BY <2>1, <2>3, <2>4, <3>1 DEF Store!Tick, Calls
    <3> QED BY <3>2 DEF Store!Next
  <2>5. CASE db.run.wakeup # "later"
      BY <1>0, <2>1, <2>3, <2>5, DueFields DEF Store!vars, Calls, EntryOK
  <2> QED BY <2>4, <2>5
<1> QED BY <1>1, <1>3, <1>4, <1>5, <1>6, <1>7, <1>8, <1>9, <1>10, <1>11, <1>12, <1>13 DEF Next

\* Concurrent calls on a run in Redis (WATCH, EXEC and txRun's retries) and in Postgres (row
\* locks) behave as calls that take effect one at a time, each at most once, in the way of
\* the memory store.
THEOREM Linearizable == Spec => ImplementsRunStore
<1>1. Init => Store!Init
  <2> SUFFICES ASSUME Init PROVE Store!Init
      OBVIOUS
  <2>1. db.run = NewSagaRun(First) /\ db.vars = {} /\ First \in Step
      BY BackendsAssumption DEF Init
  <2>2. Store!NewSagaRun(First) = NewSagaRun(First)
      BY DEF Store!NewSagaRun, NewSagaRun, Store!Absent, Absent
  <2>3. \A c \in Client : AbstractCall(c) = Store!NoCall
      BY DEF Init, AbstractCall, Idle, Store!NoCall
  <2> QED BY <2>1, <2>2, <2>3 DEF Store!Init
<1>2. IInv /\ [Next]_vars => [Store!Next]_Store!vars
    BY StepsRefine
<1> QED BY <1>1, <1>2, Invariance, PTL DEF Spec, ImplementsRunStore, Store!Spec
=============================================================================
