------------------------------ MODULE RedisOps ------------------------------
(***************************************************************************)
(* What the Redis store's calls on a run do (store/redis/runs.go,          *)
(* pause.go, registry.go, children.go).  A run is a JSON blob; besides it  *)
(* the store keeps idx:wakeup, a ZSET with the wakeup of a run, and        *)
(* idx:awaitevent:{topic}, a SET of runs per topic.  Every operator is the *)
(* mutate function a call hands to txRun: the entry it writes in its       *)
(* MULTI, from the entry it has read under WATCH.                          *)
(***************************************************************************)
EXTENDS SagaStore

\* What Redis holds for the run: the blob (the variables in it as the set of their
\* writers), its score in idx:wakeup, the topics whose set it is in.
RedisEntry ==
    [run : RunRecord, vars : SUBSET {"step", "result"}, wake : Wakeup, topics : SUBSET Name]

\* SREM idx:awaitevent of the topic the blob names, if any; ZREM idx:wakeup.
Unindexed(e) == [e EXCEPT !.wake = "none", !.topics = @ \ {e.run.topic}]

RedisUpdateRunState(e, state, step) ==
    LET d == [e EXCEPT !.run.state = state, !.run.step = step]
    IN  IF state \in Terminal THEN Unindexed(d) ELSE d

RedisCancel(e) ==
    IF IsTerminal(e.run) THEN e
    ELSE [Unindexed(e) EXCEPT !.run.state = "cancelled", !.run.wakeup = "none",
                              !.run.signal = Nil, !.run.topic = Nil, !.run.action = Nil]

RedisMarkRunFailed(e, step) ==
    IF IsTerminal(e.run) THEN e
    ELSE [Unindexed(e) EXCEPT !.run.state = "failed", !.run.step = step]

RedisUpdateRunVariables(e) == [e EXCEPT !.vars = @ \cup {"step"}]

RedisSetPausedWithWakeup(e) ==
    [e EXCEPT !.run.state = "paused", !.run.wakeup = "later", !.wake = "later"]

RedisSetPausedAwaitingSignal(e, name, deadline) ==
    LET d == [e EXCEPT !.run.state = "paused", !.run.signal = name]
    IN  IF deadline THEN [d EXCEPT !.run.wakeup = "later", !.wake = "later"] ELSE d

\* An event wait that is not entered in its topic's set.
UnindexedEventWait(e, topic, deadline) ==
    LET d == [e EXCEPT !.run.state = "paused", !.run.topic = topic,
                       !.run.wakeup = IF deadline THEN "later" ELSE "none"]
    IN  IF deadline THEN [d EXCEPT !.wake = "later"] ELSE d

\* Without a deadline WakeupAt is cleared and the entry of idx:wakeup stays.
RedisSetPausedAwaitingEvent(e, topic, deadline) ==
    LET d == [e EXCEPT !.run.state = "paused", !.run.topic = topic,
                       !.run.wakeup = IF deadline THEN "later" ELSE "none",
                       !.topics = @ \cup {topic}]
    IN  IF deadline THEN [d EXCEPT !.wake = "later"] ELSE d

RedisClearPause(e) ==
    [Unindexed(e) EXCEPT !.run.state = "running", !.run.wakeup = "none",
                         !.run.signal = Nil, !.run.topic = Nil]

RedisWakeFromExternal(e) ==
    [Unindexed(e) EXCEPT !.run.wakeup = "none", !.run.signal = Nil, !.run.topic = Nil]

RedisConsumable(e, name) == e.run.state = "paused" /\ e.run.signal = name

\* TryConsumeAwaitedSignal; it aborts on a run that is not Consumable.
RedisTryConsume(e) ==
    [Unindexed(e) EXCEPT !.run.wakeup = "none", !.run.signal = Nil, !.run.topic = Nil]

\* ZRANGEBYSCORE idx:wakeup, then the state of the blob.
RedisFindRunsByDueWakeup(e) == e.wake = "due" /\ e.run.state = "paused"

\* SMEMBERS of the topic's set, then the blob: paused, and still on that topic.
RedisFindRunsByAwaitedEvent(e, topic) ==
    topic \in e.topics /\ e.run.state = "paused" /\ e.run.topic = topic

RedisStackFull(e) == Len(e.run.frames) >= MaxFrames

RedisPushTryCatch(e, catch) == [e EXCEPT !.run.frames = Append(@, catch)]

RedisStackEmpty(e) == e.run.frames = <<>>

RedisPopTryCatch(e) == [e EXCEPT !.run.frames = SubSeq(@, 1, Len(@) - 1)]

\* The same attempt and dispatch aborts.
RedisMarked(e, step, attempt) == e.run.attempt = attempt /\ e.run.action = step

RedisMarkAwaitingAction(e, step, attempt) ==
    [e EXCEPT !.run.state = "paused", !.run.action = step, !.run.attempt = attempt]

\* Another attempt than the current one is a late delivery and aborts.
RedisLate(e, attempt) == e.run.attempt # attempt

RedisCompleteAction(e) ==
    [e EXCEPT !.run.action = Nil, !.run.wakeup = "due", !.wake = "due",
              !.vars = @ \cup {"result"}]

RedisFailAction(e) == [Unindexed(e) EXCEPT !.run.action = Nil, !.run.state = "failed"]
=============================================================================
