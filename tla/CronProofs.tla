----------------------------- MODULE CronProofs -----------------------------
(***************************************************************************)
(* Proofs about CronDispatcher for any number of pods and triggers, any    *)
(* schedule whose next fire lies after the time it is asked about, any     *)
(* clocks and any number of crashes.                                       *)
(***************************************************************************)
EXTENDS CronDispatcher, TLAPS

-----------------------------------------------------------------------------
\* ListDueCronTriggers returns fires of live triggers that are due at t.
LEMMA DueFiresDue ==
    ASSUME TypeOK, NEW t \in Nat
    PROVE  /\ DueFires(t) \subseteq Fire
           /\ \A f \in DueFires(t) : f.at <= t
<1>1. MemoryDue(t) \subseteq Fire /\ \A f \in MemoryDue(t) : f.at <= t
    BY DEF MemoryDue, TypeOK, Fire
<1>2. PgDue(t) \subseteq Fire /\ \A f \in PgDue(t) : f.at <= t
    BY DEF PgDue, TypeOK, Fire
<1>3. RedisDue(t) \subseteq Fire /\ \A f \in RedisDue(t) : f.at <= t
    BY DEF RedisDue, TypeOK, Fire
<1>4. DueFires(t) \in {MemoryDue(t), PgDue(t), RedisDue(t)}
    BY DEF DueFires, TypeOK
<1> QED BY <1>1, <1>2, <1>3, <1>4

\* The first state satisfies the invariant.
LEMMA InitInv == Init => IInv
<1> SUFFICES ASSUME Init PROVE IInv
    OBVIOUS
<1> USE DEF Init
<1>1. TypeOK
    BY CronAssumption DEF TypeOK, Fire
<1>2. ListedIsDue /\ ClaimedIsDue /\ WatchedIsCurrent /\ OnlyRedisWatches
    BY DEF ListedIsDue, ClaimedIsDue, WatchedIsCurrent, OnlyRedisWatches, Claiming
<1>3. WonIsSpent /\ OneWinner
    BY DEF WonIsSpent, OneWinner, Winning
<1>4. StartedIsSpent /\ AtMostOnce
    BY DEF StartedIsSpent, AtMostOnce
<1> QED BY <1>1, <1>2, <1>3, <1>4 DEF IInv

-----------------------------------------------------------------------------
(***************************************************************************)
(* One lemma per action: the invariant is kept, next_fire_at does not go   *)
(* back.                                                                   *)
(***************************************************************************)
Advances == \A tr \in Trigger : next'[tr] >= next[tr]

\* A fire is listed with the clock reading it is due at.
LEMMA ListStep ==
    ASSUME IInv, NEW p \in Pod, List(p)
    PROVE  IInv' /\ Advances
<1> USE DEF IInv, List, txVars
<1>1. /\ clock[p] \in 0 .. Horizon /\ clock[p] \in Nat
      /\ DueFires(clock[p]) \subseteq Fire
      /\ \A f \in DueFires(clock[p]) : f.at <= clock[p]
    BY DueFiresDue, CronAssumption DEF TypeOK
<1>2. TypeOK'
    BY <1>1 DEF TypeOK
<1>3. ListedIsDue'
    BY <1>1 DEF ListedIsDue, TypeOK
<1>4. WonIsSpent' /\ OneWinner'
    BY DEF WonIsSpent, OneWinner, Winning, TypeOK
<1>5. StartedIsSpent' /\ AtMostOnce' /\ Advances
    BY DEF StartedIsSpent, AtMostOnce, Advances, TypeOK
<1>6. ClaimedIsDue' /\ WatchedIsCurrent' /\ OnlyRedisWatches'
    BY DEF ClaimedIsDue, WatchedIsCurrent, OnlyRedisWatches, Claiming, Holds, TypeOK
<1> QED BY <1>2, <1>3, <1>4, <1>5, <1>6

\* Winning: the fire that is won is the one next_fire_at held, so no run and no other
\* pod has it, and next_fire_at moves past it.
LEMMA WinStep ==
    ASSUME IInv, NEW p \in Pod, NEW f \in Fire, f.at <= now[p], Holds(f), Win(p, f),
           runs' = runs
    PROVE  /\ next' \in [Trigger -> Nat] /\ WonIsSpent' /\ OneWinner' /\ StartedIsSpent'
           /\ AtMostOnce' /\ Advances
<1> USE DEF IInv, Holds, Win
<1>1. /\ f.tr \in Trigger /\ f.at \in Nat
      /\ now[p] \in 0 .. Horizon
      /\ f = [tr |-> f.tr, at |-> f.at]
    BY DEF TypeOK, Fire
<1>2. Sched(f.tr, now[p]) \in Nat /\ f.at < Sched(f.tr, now[p])
    BY <1>1, CronAssumption
<1>3. next' \in [Trigger -> Nat]
    BY <1>1, <1>2 DEF TypeOK
<1>4. Advances
    BY <1>1, <1>2 DEF Advances, TypeOK
<1>5. \A i \in DOMAIN runs : runs[i] \in Fire /\ runs[i] # f
    BY <1>1 DEF StartedIsSpent, TypeOK
<1>6. \A q \in Pod : Winning(q) => cur[q] # f
    BY <1>1 DEF WonIsSpent
<1>7. WonIsSpent'
  <2> SUFFICES ASSUME NEW q \in Pod, Winning(q)'
               PROVE  /\ cur'[q] \in Fire
                      /\ cur'[q].at < next'[cur'[q].tr]
                      /\ \A i \in DOMAIN runs : runs[i] # cur'[q]
      BY DEF WonIsSpent
  <2>1. CASE q = p
      BY <2>1, <1>1, <1>2, <1>5 DEF TypeOK
  <2>2. CASE q # p
    <3>1. Winning(q) /\ cur'[q] = cur[q]
        BY <2>2 DEF Winning, TypeOK
    <3>2. /\ cur[q] \in Fire /\ cur[q].at < next[cur[q].tr]
          /\ \A i \in DOMAIN runs : runs[i] # cur[q]
        BY <3>1 DEF WonIsSpent
    <3>3. /\ cur[q].tr \in Trigger /\ cur[q].at \in Nat
          /\ next[cur[q].tr] \in Nat /\ next'[cur[q].tr] \in Nat
          /\ next'[cur[q].tr] >= next[cur[q].tr]
        BY <3>2, <1>3, <1>4 DEF Advances, TypeOK, Fire
    <3> QED BY <3>1, <3>2, <3>3
  <2> QED BY <2>1, <2>2
<1>8. OneWinner'
    BY <1>6 DEF OneWinner, Winning, TypeOK
<1>9. StartedIsSpent'
  <2> SUFFICES ASSUME NEW i \in DOMAIN runs PROVE runs[i].at < next'[runs[i].tr]
      BY DEF StartedIsSpent
  <2>1. /\ runs[i].tr \in Trigger /\ runs[i].at \in Nat
        /\ runs[i].at < next[runs[i].tr]
      BY <1>5 DEF StartedIsSpent, Fire
  <2> QED BY <2>1, <1>3, <1>4 DEF Advances, TypeOK
<1>10. AtMostOnce'
    BY DEF AtMostOnce
<1> QED BY <1>3, <1>4, <1>7, <1>8, <1>9, <1>10

\* The compare-and-swap in one step: nobody watches.
LEMMA ClaimStep ==
    ASSUME IInv, NEW p \in Pod, NEW f \in batch[p], Claim(p, f)
    PROVE  IInv' /\ Advances
<1> USE DEF IInv
<1>1. f \in Fire /\ f.at <= now[p]
    BY DEF TypeOK, ListedIsDue
<1>2. ListedIsDue'
    BY DEF Claim, ListedIsDue, TypeOK
<1>3. \A q \in Pod : ~Claiming(q)' /\ pc'[q] # "exec"
    BY DEF Claim, Win, OnlyRedisWatches, Claiming, TypeOK
<1>4. ClaimedIsDue' /\ WatchedIsCurrent' /\ OnlyRedisWatches'
    BY <1>3 DEF ClaimedIsDue, WatchedIsCurrent, OnlyRedisWatches
<1>5. CASE Holds(f) /\ Win(p, f)
  <2>1. /\ next' \in [Trigger -> Nat] /\ WonIsSpent' /\ OneWinner' /\ StartedIsSpent'
        /\ AtMostOnce' /\ Advances
      BY <1>1, <1>5, WinStep DEF Claim
  <2>2. TypeOK'
      BY <1>1, <1>5, <2>1 DEF Claim, Win, TypeOK, txVars
  <2> QED BY <1>2, <1>4, <2>1, <2>2
<1>6. CASE UNCHANGED <<next, cur, pc>>
  <2> USE <1>6 DEF Claim, txVars
  <2>1. TypeOK'
      BY DEF TypeOK
  <2>2. WonIsSpent' /\ OneWinner'
      BY DEF WonIsSpent, OneWinner, Winning
  <2>3. StartedIsSpent' /\ AtMostOnce' /\ Advances
      BY DEF StartedIsSpent, AtMostOnce, Advances, TypeOK
  <2> QED BY <1>2, <1>4, <2>1, <2>2, <2>3
<1> QED BY <1>5, <1>6 DEF Claim

\* The EXEC that goes through swaps what WATCH has read; the pods that have read the same
\* trigger are marked, the others have read another one.
LEMMA ExecStep ==
    ASSUME IInv, NEW p \in Pod, RedisExec(p), ~dirty[p]
    PROVE  IInv' /\ Advances
<1> USE DEF IInv
<1>1. /\ pc[p] = "exec" /\ cur[p] \in Fire /\ cur[p].at <= now[p] /\ Holds(cur[p])
      /\ backend = "redis"
    BY DEF RedisExec, ClaimedIsDue, WatchedIsCurrent, OnlyRedisWatches, Claiming
<1>2. /\ Win(p, cur[p])
      /\ dirty' = [Touched(cur[p].tr) EXCEPT ![p] = FALSE]
      /\ tries' = [tries EXCEPT ![p] = 0]
      /\ UNCHANGED <<backend, live, clock, now, batch, runs, published, crashes>>
    BY DEF RedisExec
<1>3. /\ next' \in [Trigger -> Nat] /\ WonIsSpent' /\ OneWinner' /\ StartedIsSpent'
      /\ AtMostOnce' /\ Advances
    BY <1>1, <1>2, WinStep
<1>4. dirty' \in [Pod -> BOOLEAN] /\ tries' \in [Pod -> 0 .. MaxTries]
  <2>1. Touched(cur[p].tr) \in [Pod -> BOOLEAN]
      BY DEF Touched, TypeOK
  <2>2. dirty' \in [Pod -> BOOLEAN]
      BY <1>2, <2>1
  <2>3. tries' \in [Pod -> 0 .. MaxTries]
      BY <1>2, CronAssumption DEF TypeOK
  <2> QED BY <2>2, <2>3
<1>5. TypeOK'
    BY <1>1, <1>2, <1>3, <1>4 DEF Win, TypeOK
<1>6. ListedIsDue'
    BY <1>2 DEF ListedIsDue, TypeOK
<1>7. \A q \in Pod : Claiming(q)' => q # p /\ Claiming(q) /\ cur'[q] = cur[q] /\ pc'[q] = pc[q]
    BY <1>2 DEF Claiming, Win, TypeOK
<1>8. ClaimedIsDue'
    BY <1>2, <1>7 DEF ClaimedIsDue
<1>9. WatchedIsCurrent'
  <2> SUFFICES ASSUME NEW q \in Pod, pc'[q] = "exec", ~dirty'[q]
               PROVE  cur'[q].tr \in live' /\ next'[cur'[q].tr] = cur'[q].at
      BY DEF WatchedIsCurrent, Holds
  <2>1. q # p /\ cur'[q] = cur[q] /\ pc[q] = "exec" /\ live' = live
      BY <1>2, <1>7 DEF Claiming
  <2>2. ~dirty[q] /\ cur[q].tr # cur[p].tr
      BY <1>2, <2>1 DEF Touched, TypeOK
  <2>3. cur[q].tr \in live /\ next[cur[q].tr] = cur[q].at /\ cur[q] \in Fire
      BY <2>1, <2>2 DEF WatchedIsCurrent, Holds, ClaimedIsDue, Claiming
  <2> QED BY <1>2, <2>1, <2>2, <2>3 DEF Win, TypeOK, Fire
<1>10. OnlyRedisWatches'
    BY <1>1, <1>2 DEF OnlyRedisWatches
<1> QED BY <1>3, <1>5, <1>6, <1>8, <1>9, <1>10

\* CreateRun: the winner's fire had no run yet.
LEMMA StartStep ==
    ASSUME IInv, NEW p \in Pod, StartRun(p)
    PROVE  IInv' /\ Advances
<1> USE DEF IInv, StartRun, txVars
<1>1. /\ cur[p] \in Fire /\ cur[p].at < next[cur[p].tr]
      /\ \A i \in DOMAIN runs : runs[i] # cur[p]
    BY DEF WonIsSpent, Winning
<1>2. /\ runs \in Seq(Fire) /\ Len(runs) \in Nat /\ DOMAIN runs = 1 .. Len(runs)
      /\ runs' = Append(runs, cur[p])
      /\ DOMAIN runs' = 1 .. Len(runs) + 1
      /\ \A i \in 1 .. Len(runs) : runs'[i] = runs[i]
      /\ runs'[Len(runs) + 1] = cur[p]
    BY <1>1 DEF TypeOK
<1>3. TypeOK'
    BY <1>1 DEF TypeOK
<1>4. ListedIsDue' /\ Advances
    BY DEF ListedIsDue, Advances, TypeOK
<1>10. ClaimedIsDue' /\ WatchedIsCurrent' /\ OnlyRedisWatches'
    BY DEF ClaimedIsDue, WatchedIsCurrent, OnlyRedisWatches, Claiming, Holds, TypeOK
<1>5. \A q \in Pod : Winning(q)' => Winning(q) /\ q # p
    BY DEF Winning, TypeOK
<1>6. WonIsSpent'
  <2> SUFFICES ASSUME NEW q \in Pod, Winning(q), q # p
               PROVE  /\ cur[q] \in Fire /\ cur[q].at < next[cur[q].tr]
                      /\ \A i \in DOMAIN runs' : runs'[i] # cur[q]
      BY <1>5 DEF WonIsSpent
  <2>1. cur[q] # cur[p]
      BY DEF OneWinner, Winning
  <2>2. /\ cur[q] \in Fire /\ cur[q].at < next[cur[q].tr]
        /\ \A i \in DOMAIN runs : runs[i] # cur[q]
      BY DEF WonIsSpent
  <2> QED BY <1>2, <2>1, <2>2
<1>7. OneWinner'
    BY <1>5 DEF OneWinner
<1>8. StartedIsSpent'
    BY <1>1, <1>2 DEF StartedIsSpent
<1>9. AtMostOnce'
    BY <1>1, <1>2 DEF AtMostOnce
<1> QED BY <1>3, <1>4, <1>6, <1>7, <1>8, <1>9, <1>10

\* The actions that neither list, nor win a fire, nor start a run.
Idling ==
    \E p \in Pod : ClockTick(p) \/ Decline(p) \/ Publish(p) \/ EndPass(p) \/ Crash(p)

LostExec(p) == RedisExec(p) /\ dirty[p]

Trying ==
    \E p \in Pod : (\E f \in batch[p] : RedisClaim(p, f)) \/ RedisWatch(p) \/ LostExec(p)

Quiet == Idling \/ Trying \/ \E tr \in Trigger : DeleteTrigger(tr)

\* Where nothing is won and no run is started, what is spent stays so.
LEMMA NothingWon ==
    ASSUME IInv, next' = next, runs' = runs,
           \A q \in Pod : Winning(q)' => Winning(q) /\ cur'[q] = cur[q]
    PROVE  WonIsSpent' /\ OneWinner' /\ StartedIsSpent' /\ AtMostOnce' /\ Advances
<1> USE DEF IInv
<1>1. WonIsSpent' /\ OneWinner'
    BY DEF WonIsSpent, OneWinner
<1>2. StartedIsSpent' /\ AtMostOnce' /\ Advances
    BY DEF StartedIsSpent, AtMostOnce, Advances, TypeOK
<1> QED BY <1>1, <1>2

\* A pod that neither claims nor starts leaves the triggers and the others alone.
LEMMA IdlingStep ==
    ASSUME IInv, Idling
    PROVE  IInv' /\ Advances
<1> USE DEF IInv
<1> PICK p \in Pod : ClockTick(p) \/ Decline(p) \/ Publish(p) \/ EndPass(p) \/ Crash(p)
    BY DEF Idling
<1>1. next' = next /\ runs' = runs /\ live' = live /\ backend' = backend
    BY DEF ClockTick, Decline, Publish, EndPass, Crash
<1>2. TypeOK'
  <2>1. CASE ClockTick(p)
      BY <2>1, CronAssumption DEF ClockTick, TypeOK, txVars
  <2>2. CASE Decline(p)
      BY <2>2 DEF Decline, TypeOK, txVars
  <2>3. CASE Publish(p)
    <3>1. DOMAIN runs \subseteq Nat
        BY DEF TypeOK
    <3>2. published' \in SUBSET Nat
        BY <2>3, <3>1 DEF Publish, TypeOK
    <3> QED BY <2>3, <3>2 DEF Publish, TypeOK, txVars
  <2>4. CASE EndPass(p)
      BY <2>4, CronAssumption DEF EndPass, TypeOK, txVars
  <2>5. CASE Crash(p)
      BY <2>5, CronAssumption DEF Crash, TypeOK
  <2> QED BY <2>1, <2>2, <2>3, <2>4, <2>5
<1>3. ListedIsDue'
    BY DEF ListedIsDue, TypeOK, ClockTick, Decline, Publish, EndPass, Crash
<1>4. \A q \in Pod : pc'[q] = pc[q] \/ pc'[q] \in {"idle", "claim"}
    BY DEF TypeOK, ClockTick, Decline, Publish, EndPass, Crash
<1>5. \A q \in Pod : pc'[q] \notin {"idle", "claim"} =>
          cur'[q] = cur[q] /\ now'[q] = now[q] /\ dirty'[q] = dirty[q] /\ pc'[q] = pc[q]
    BY DEF TypeOK, txVars, ClockTick, Decline, Publish, EndPass, Crash
<1>6. WonIsSpent' /\ OneWinner' /\ StartedIsSpent' /\ AtMostOnce' /\ Advances
    BY <1>1, <1>5, NothingWon DEF Winning
<1>7. ClaimedIsDue' /\ WatchedIsCurrent' /\ OnlyRedisWatches'
    BY <1>1, <1>5 DEF ClaimedIsDue, WatchedIsCurrent, OnlyRedisWatches, Claiming, Holds
<1> QED BY <1>2, <1>3, <1>6, <1>7

\* A claim in Redis before its EXEC, or whose EXEC fails, changes the pod's own state only.
LEMMA TryingStep ==
    ASSUME IInv, Trying
    PROVE  IInv' /\ Advances
<1> USE DEF IInv
<1> PICK p \in Pod : (\E f \in batch[p] : RedisClaim(p, f)) \/ RedisWatch(p) \/ LostExec(p)
    BY DEF Trying
<1>1. /\ next' = next /\ runs' = runs /\ live' = live /\ backend' = backend /\ now' = now
      /\ backend = "redis"
    BY DEF RedisClaim, RedisWatch, RedisExec, LostExec, OnlyRedisWatches, Claiming
<1>2. TypeOK' /\ ListedIsDue'
  <2>1. ASSUME NEW f \in batch[p], RedisClaim(p, f) PROVE TypeOK' /\ ListedIsDue'
      BY <2>1 DEF RedisClaim, TypeOK, ListedIsDue, txVars
  <2>2. CASE RedisWatch(p)
    <3>1. tries' \in [Pod -> 0 .. MaxTries]
      <4>1. tries' = tries \/ tries' = [tries EXCEPT ![p] = 0]
          BY <2>2 DEF RedisWatch, GiveUp
      <4>2. tries \in [Pod -> 0 .. MaxTries] /\ 0 \in 0 .. MaxTries
          BY CronAssumption DEF TypeOK
      <4> QED BY <4>1, <4>2
    <3>2. dirty' \in [Pod -> BOOLEAN]
      <4>1. dirty' = dirty \/ dirty' = [dirty EXCEPT ![p] = FALSE]
          BY <2>2 DEF RedisWatch
      <4> QED BY <4>1 DEF TypeOK
    <3>3. cur' \in [Pod -> Fire \cup {NoFire}]
        BY <2>2 DEF RedisWatch, GiveUp, TypeOK
    <3>4. pc' \in [Pod -> {"idle", "claim", "watch", "exec", "start", "publish"}]
        BY <2>2 DEF RedisWatch, GiveUp, TypeOK
    <3> QED BY <2>2, <3>1, <3>2, <3>3, <3>4 DEF RedisWatch, TypeOK, ListedIsDue
  <2>3. CASE LostExec(p)
    <3>1. tries' \in [Pod -> 0 .. MaxTries]
      <4>1. \/ tries[p] + 1 < MaxTries /\ tries' = [tries EXCEPT ![p] = tries[p] + 1]
            \/ tries' = [tries EXCEPT ![p] = 0]
          BY <2>3 DEF RedisExec, LostExec, GiveUp
      <4>2. tries[p] \in 0 .. MaxTries /\ tries \in [Pod -> 0 .. MaxTries]
          BY DEF TypeOK
      <4> QED BY <4>1, <4>2, CronAssumption
    <3>2. dirty' \in [Pod -> BOOLEAN]
      <4>1. dirty' = [dirty EXCEPT ![p] = FALSE]
          BY <2>3, Zenon DEF RedisExec, LostExec
      <4> QED BY <4>1 DEF TypeOK
    <3>3. cur' \in [Pod -> Fire \cup {NoFire}]
        BY <2>3 DEF RedisExec, LostExec, GiveUp, TypeOK
    <3>4. pc' \in [Pod -> {"idle", "claim", "watch", "exec", "start", "publish"}]
        BY <2>3 DEF RedisExec, LostExec, GiveUp, TypeOK
    <3>5. UNCHANGED <<backend, next, live, clock, now, batch, runs, published, crashes>>
        BY <2>3 DEF RedisExec, LostExec
    <3> QED BY <3>1, <3>2, <3>3, <3>4, <3>5 DEF TypeOK, ListedIsDue
  <2> QED BY <2>1, <2>2, <2>3
<1>3. \A q \in Pod : Winning(q)' => Winning(q) /\ cur'[q] = cur[q]
    BY DEF RedisClaim, RedisWatch, RedisExec, LostExec, GiveUp, Winning, TypeOK
<1>4. WonIsSpent' /\ OneWinner' /\ StartedIsSpent' /\ AtMostOnce' /\ Advances
    BY <1>1, <1>3, NothingWon
<1>5. \A q \in Pod : q # p =>
          cur'[q] = cur[q] /\ dirty'[q] = dirty[q] /\ pc'[q] = pc[q]
    BY DEF RedisClaim, RedisWatch, RedisExec, LostExec, GiveUp, TypeOK, txVars
<1>6. Claiming(p)' => cur'[p] \in Fire /\ cur'[p].at <= now[p]
  <2>1. ASSUME NEW f \in batch[p], RedisClaim(p, f)
        PROVE  cur'[p] \in Fire /\ cur'[p].at <= now[p]
      BY <2>1 DEF RedisClaim, TypeOK, ListedIsDue
  <2>2. CASE RedisWatch(p) \/ LostExec(p)
    <3>1. Claiming(p)' => cur'[p] = cur[p] /\ Claiming(p)
        BY <2>2 DEF RedisWatch, RedisExec, LostExec, GiveUp, Claiming, TypeOK
    <3> QED BY <3>1 DEF ClaimedIsDue
  <2> QED BY <2>1, <2>2
<1>7. pc'[p] = "exec" => cur'[p] = cur[p] /\ Holds(cur[p])
    BY DEF RedisClaim, RedisWatch, RedisExec, LostExec, GiveUp, TypeOK
<1>8. ClaimedIsDue' /\ WatchedIsCurrent' /\ OnlyRedisWatches'
    BY <1>1, <1>5, <1>6, <1>7 DEF ClaimedIsDue, WatchedIsCurrent, OnlyRedisWatches, Claiming, Holds
<1> QED BY <1>2, <1>4, <1>8

\* A deletion marks the pods that watch the trigger.
LEMMA DeleteStep ==
    ASSUME IInv, NEW tr \in Trigger, DeleteTrigger(tr)
    PROVE  IInv' /\ Advances
<1> USE DEF IInv, DeleteTrigger
<1>1. dirty' \in [Pod -> BOOLEAN]
    BY DEF Touched, TypeOK
<1>2. TypeOK' /\ ListedIsDue'
    BY <1>1 DEF TypeOK, ListedIsDue
<1>3. WonIsSpent' /\ OneWinner' /\ StartedIsSpent' /\ AtMostOnce' /\ Advances
    BY NothingWon DEF Winning
<1>4. ClaimedIsDue' /\ OnlyRedisWatches'
    BY DEF ClaimedIsDue, OnlyRedisWatches, Claiming
<1>5. WatchedIsCurrent'
  <2> SUFFICES ASSUME NEW q \in Pod, pc[q] = "exec", ~dirty'[q]
               PROVE  cur[q].tr \in live \ {tr} /\ next[cur[q].tr] = cur[q].at
      BY DEF WatchedIsCurrent, Holds
  <2>1. ~dirty[q] /\ cur[q].tr # tr
      BY DEF Touched, TypeOK
  <2> QED BY <2>1 DEF WatchedIsCurrent, Holds
<1> QED BY <1>2, <1>3, <1>4, <1>5

\* Every step keeps the invariant and moves no next_fire_at back.
LEMMA NextInv ==
    ASSUME IInv, [Next]_vars
    PROVE  IInv' /\ Advances
<1>1. CASE UNCHANGED vars
  <2> USE <1>1 DEF vars, IInv
  <2>1. TypeOK' /\ ListedIsDue'
      BY DEF TypeOK, ListedIsDue
  <2>4. ClaimedIsDue' /\ WatchedIsCurrent' /\ OnlyRedisWatches'
      BY DEF ClaimedIsDue, WatchedIsCurrent, OnlyRedisWatches, Claiming, Holds
  <2>2. WonIsSpent' /\ OneWinner'
      BY DEF WonIsSpent, OneWinner, Winning
  <2>3. StartedIsSpent' /\ AtMostOnce' /\ Advances
      BY DEF StartedIsSpent, AtMostOnce, Advances, TypeOK
  <2> QED BY <2>1, <2>2, <2>3, <2>4
<1>2. CASE Quiet
    BY <1>2, IdlingStep, TryingStep, DeleteStep DEF Quiet
<1>3. ASSUME NEW p \in Pod, \/ List(p) \/ StartRun(p)
                            \/ \E f \in batch[p] : Claim(p, f)
                            \/ RedisExec(p) /\ ~dirty[p]
      PROVE  IInv' /\ Advances
    BY <1>3, ListStep, ClaimStep, ExecStep, StartStep
<1> QED BY <1>1, <1>2, <1>3 DEF Next, Pass, Quiet, Idling, Trying, LostExec

-----------------------------------------------------------------------------
\* Every reachable state satisfies the invariant.
THEOREM Inductive == Spec => []IInv
<1>1. IInv /\ [Next]_vars => IInv'
    BY NextInv
<1> QED BY <1>1, InitInv, PTL DEF Spec

\* The dispatcher's state keeps its type.
THEOREM TypeCorrect == Spec => []TypeOK
<1>1. IInv => TypeOK
    BY DEF IInv
<1> QED BY <1>1, Inductive, PTL

\* No fire of a trigger starts two runs, for any number of pods with any clocks and
\* any crashes (cron_dispatcher.go, ClaimCronFire).
THEOREM FiredAtMostOnce == Spec => []AtMostOnce
<1>1. IInv => AtMostOnce
    BY DEF IInv
<1> QED BY <1>1, Inductive, PTL

\* next_fire_at of a trigger never goes back, although pods claim with clock readings
\* that may be old or behind.
THEOREM NextFireMonotone == Spec => NextFireAdvances
<1>1. IInv /\ [Next]_vars => [\A tr \in Trigger : next'[tr] >= next[tr]]_vars
    BY NextInv DEF Advances
<1> QED BY <1>1, Inductive, PTL DEF Spec, NextFireAdvances
=============================================================================
