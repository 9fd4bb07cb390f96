--------------------------- MODULE CronDispatcher ---------------------------
(***************************************************************************)
(* engine/cron_dispatcher.go over the trigger tables of the three stores:  *)
(* every engine pod polls for due cron triggers, claims each fire with a   *)
(* compare-and-swap on next_fire_at, and starts a run for each fire it     *)
(* wins.  The memory store swaps under its lock and Postgres in one        *)
(* UPDATE; Redis reads under WATCH and EXECs, again when the key was       *)
(* written meanwhile.                                                      *)
(*                                                                         *)
(* Pods read their own clocks, which may disagree by any amount.           *)
(***************************************************************************)
EXTENDS Naturals, Sequences

CONSTANTS
    Pod,
    Trigger,
    Sched(_, _),    \* Sched(tr, t): the first fire of tr after t (ParseSchedule, interval)
    Horizon,        \* clocks stop here
    MaxCrashes,     \* pods that may die in the middle of a pass
    MaxTries,       \* txMaxRetries
    Refuse          \* a won fire may start no run: licence off, workflow unresolved

ASSUME CronAssumption ==
    /\ Horizon \in Nat /\ MaxCrashes \in Nat /\ MaxTries \in Nat \ {0} /\ Refuse \in BOOLEAN
    /\ \A tr \in Trigger, t \in 0 .. Horizon : Sched(tr, t) \in Nat /\ Sched(tr, t) > t

VARIABLES
    backend,
    next,       \* next[tr]: next_fire_at
    live,       \* triggers that have not been deleted
    clock,      \* clock[p]: pod p's wall clock
    pc,         \* pc[p]: where the pass of pod p is
    now,        \* now[p]: the time its pass began
    batch,      \* batch[p]: due fires it has listed and not yet tried to claim
    cur,        \* cur[p]: the fire it tries to claim in Redis, or has won and starts the run of
    dirty,      \* dirty[p]: the trigger p watches was written since it was read
    tries,      \* tries[p]: EXECs of p's claim that have failed
    runs,       \* fires for which a run was created, in order
    published,  \* positions in runs whose saga.advance was published
    crashes

vars == <<backend, next, live, clock, pc, now, batch, cur, dirty, tries, runs, published,
          crashes>>

\* What only a claim in Redis touches.
txVars == <<dirty, tries>>


Fire == [tr : Trigger, at : Nat]

NoFire == [at |-> 0]

TypeOK ==
    /\ backend \in {"memory", "postgres", "redis"}
    /\ next  \in [Trigger -> Nat]
    /\ live  \in SUBSET Trigger
    /\ clock \in [Pod -> 0 .. Horizon]
    /\ pc    \in [Pod -> {"idle", "claim", "watch", "exec", "start", "publish"}]
    /\ now   \in [Pod -> 0 .. Horizon]
    /\ batch \in [Pod -> SUBSET Fire]
    /\ cur   \in [Pod -> Fire \cup {NoFire}]
    /\ dirty \in [Pod -> BOOLEAN]
    /\ tries \in [Pod -> 0 .. MaxTries]
    /\ runs  \in Seq(Fire)
    /\ published \in SUBSET Nat
    /\ crashes \in 0 .. MaxCrashes

\* A trigger is created with its first fire after the present (handler_triggers.go).
Init ==
    /\ backend \in {"memory", "postgres", "redis"}
    /\ next = [tr \in Trigger |-> Sched(tr, 0)]
    /\ live = Trigger
    /\ clock = [p \in Pod |-> 0]
    /\ pc = [p \in Pod |-> "idle"]
    /\ now = [p \in Pod |-> 0]
    /\ batch = [p \in Pod |-> {}]
    /\ cur = [p \in Pod |-> NoFire]
    /\ dirty = [p \in Pod |-> FALSE]
    /\ tries = [p \in Pod |-> 0]
    /\ runs = <<>>
    /\ published = {}
    /\ crashes = 0

-----------------------------------------------------------------------------
ClockTick(p) ==
    /\ clock[p] < Horizon
    /\ clock' = [clock EXCEPT ![p] = @ + 1]
    /\ UNCHANGED <<backend, next, live, pc, now, batch, cur, txVars, runs, published, crashes>>

\* A write that nobody who has read the key notices.
Unwatched(tr) == dirty

\* Pods that watch the key of tr: their EXEC will fail once it is written.
Touched(tr) == [p \in Pod |-> dirty[p] \/ (pc[p] = "exec" /\ cur[p].tr = tr)]

\* One DELETE; in Redis the DEL that follows an EXISTS.
DeleteTrigger(tr) ==
    /\ tr \in live
    /\ live' = live \ {tr}
    /\ dirty' = Touched(tr)
    /\ UNCHANGED <<backend, next, clock, pc, now, batch, cur, tries, runs, published, crashes>>

\* ListDueCronTriggers: live triggers whose next_fire_at is at or before t.
MemoryDue(t) == {f \in [tr : live, at : {next[tr] : tr \in live}] :
                    f.at = next[f.tr] /\ f.at <= t}

\* WHERE trigger_type = 'cron' AND enabled AND next_fire_at <= $1
PgDue(t) == {[tr |-> tr, at |-> next[tr]] : tr \in {tr \in live : next[tr] <= t}}

\* MGET of the members of idx:triggers; keys deleted since SMEMBERS are nil.
RedisDue(t) == {f \in {[tr |-> tr, at |-> next[tr]] : tr \in live} : f.at <= t}

DueFires(t) ==
    CASE backend = "memory"   -> MemoryDue(t)
      [] backend = "postgres" -> PgDue(t)
      [] backend = "redis"    -> RedisDue(t)

\* fireDue begins: the clock is read once, the due triggers listed once.
List(p) ==
    /\ pc[p] = "idle"
    /\ DueFires(clock[p]) # {}
    /\ now' = [now EXCEPT ![p] = clock[p]]
    /\ batch' = [batch EXCEPT ![p] = DueFires(clock[p])]
    /\ pc' = [pc EXCEPT ![p] = "claim"]
    /\ UNCHANGED <<backend, next, live, clock, cur, txVars, runs, published, crashes>>

\* A claim that does not compare next_fire_at with the value listed.
BlindClaim(p, f) ==
    /\ pc[p] = "claim" /\ f \in batch[p]
    /\ batch' = [batch EXCEPT ![p] = @ \ {f}]
    /\ f.tr \in live
    /\ next' = [next EXCEPT ![f.tr] = Sched(f.tr, now[p])]
    /\ cur' = [cur EXCEPT ![p] = f]
    /\ pc' = [pc EXCEPT ![p] = "start"]
    /\ UNCHANGED <<backend, live, clock, now, txVars, runs, published, crashes>>

\* A pass that gives every listed fire up unclaimed.
IdleClaim(p, f) ==
    /\ pc[p] = "claim" /\ f \in batch[p]
    /\ batch' = [batch EXCEPT ![p] = @ \ {f}]
    /\ UNCHANGED <<backend, next, cur, pc, live, clock, now, txVars, runs, published, crashes>>

\* A pass that goes on to start a run after a claim it has lost.
HeedlessClaim(p, f) ==
    /\ pc[p] = "claim" /\ f \in batch[p]
    /\ batch' = [batch EXCEPT ![p] = @ \ {f}]
    /\ \/ /\ f.tr \in live /\ next[f.tr] = f.at
          /\ next' = [next EXCEPT ![f.tr] = Sched(f.tr, now[p])]
          /\ cur' = [cur EXCEPT ![p] = f]
       \/ /\ f.tr \notin live \/ next[f.tr] # f.at
          /\ UNCHANGED <<next, cur>>
    /\ pc' = [pc EXCEPT ![p] = "start"]
    /\ UNCHANGED <<backend, live, clock, now, txVars, runs, published, crashes>>

\* The fires of a pass are taken oldest first; fires of one instant in any order.
Oldest(f, fires) == \A g \in fires : f.at <= g.at

\* The fire next_fire_at still holds, of a trigger that is still there.
Holds(f) == f.tr \in live /\ next[f.tr] = f.at

\* next_fire_at moves from f, which p has won, to the first fire after p's pass began.
Win(p, f) ==
    /\ next' = [next EXCEPT ![f.tr] = Sched(f.tr, now[p])]
    /\ cur' = [cur EXCEPT ![p] = f]
    /\ pc' = [pc EXCEPT ![p] = "start"]

\* ClaimCronFire of the memory store and of Postgres: UPDATE ... WHERE next_fire_at = $2.
Claim(p, f) ==
    /\ backend # "redis"
    /\ pc[p] = "claim" /\ f \in batch[p] /\ Oldest(f, batch[p])
    /\ batch' = [batch EXCEPT ![p] = @ \ {f}]
    /\ \/ Holds(f) /\ Win(p, f)
       \/ ~Holds(f) /\ UNCHANGED <<next, cur, pc>>
    /\ UNCHANGED <<backend, live, clock, now, txVars, runs, published, crashes>>

\* ClaimCronFire of Redis is called.
RedisClaim(p, f) ==
    /\ backend = "redis"
    /\ pc[p] = "claim" /\ f \in batch[p] /\ Oldest(f, batch[p])
    /\ batch' = [batch EXCEPT ![p] = @ \ {f}]
    /\ cur' = [cur EXCEPT ![p] = f]
    /\ pc' = [pc EXCEPT ![p] = "watch"]
    /\ UNCHANGED <<backend, next, live, clock, now, txVars, runs, published, crashes>>

\* Pod p goes on to its next fire without having won this one.
GiveUp(p) ==
    /\ pc' = [pc EXCEPT ![p] = "claim"]
    /\ cur' = [cur EXCEPT ![p] = NoFire]
    /\ tries' = [tries EXCEPT ![p] = 0]

\* WATCH and GET: another next_fire_at, or no trigger, is a miss.
RedisWatch(p) ==
    /\ pc[p] = "watch"
    /\ \/ /\ Holds(cur[p])
          /\ pc' = [pc EXCEPT ![p] = "exec"]
          /\ dirty' = [dirty EXCEPT ![p] = FALSE]
          /\ UNCHANGED <<cur, tries>>
       \/ /\ ~Holds(cur[p])
          /\ GiveUp(p)
          /\ UNCHANGED dirty
    /\ UNCHANGED <<backend, next, live, clock, now, batch, runs, published, crashes>>

\* EXEC: the trigger with its new next_fire_at; on TxFailedErr the next attempt, and
\* after the last one an error.
RedisExec(p) ==
    /\ pc[p] = "exec"
    /\ \/ /\ ~dirty[p]
          /\ Win(p, cur[p])
          /\ dirty' = [Touched(cur[p].tr) EXCEPT ![p] = FALSE]
          /\ tries' = [tries EXCEPT ![p] = 0]
       \/ /\ dirty[p]
          /\ IF tries[p] + 1 < MaxTries
               THEN /\ pc' = [pc EXCEPT ![p] = "watch"]
                    /\ tries' = [tries EXCEPT ![p] = @ + 1]
                    /\ UNCHANGED cur
               ELSE GiveUp(p)
          /\ dirty' = [dirty EXCEPT ![p] = FALSE]
          /\ UNCHANGED next
    /\ UNCHANGED <<backend, live, clock, now, batch, runs, published, crashes>>

\* The licence gate, or startRun's lookup of the workflow and its entry point,
\* stops here: the fire is spent, the pass goes on.
Decline(p) ==
    /\ pc[p] = "start" /\ Refuse
    /\ pc' = [pc EXCEPT ![p] = "claim"]
    /\ cur' = [cur EXCEPT ![p] = NoFire]
    /\ UNCHANGED <<backend, next, live, clock, now, batch, txVars, runs, published, crashes>>

\* CreateRun.
StartRun(p) ==
    /\ pc[p] = "start"
    /\ runs' = Append(runs, cur[p])
    /\ pc' = [pc EXCEPT ![p] = "publish"]
    /\ UNCHANGED <<backend, next, live, clock, now, batch, cur, txVars, published, crashes>>

\* PublishSagaAdvance, whose failure leaves the run created and pending.
Publish(p) ==
    /\ pc[p] = "publish"
    /\ \/ published' = published \cup {i \in DOMAIN runs : runs[i] = cur[p]}
       \/ Refuse /\ UNCHANGED published
    /\ pc' = [pc EXCEPT ![p] = "claim"]
    /\ cur' = [cur EXCEPT ![p] = NoFire]
    /\ UNCHANGED <<backend, next, live, clock, now, batch, txVars, runs, crashes>>

EndPass(p) ==
    /\ pc[p] = "claim" /\ batch[p] = {}
    /\ pc' = [pc EXCEPT ![p] = "idle"]
    /\ now' = [now EXCEPT ![p] = 0]
    /\ UNCHANGED <<backend, next, live, clock, batch, cur, txVars, runs, published, crashes>>

Crash(p) ==
    /\ crashes < MaxCrashes
    /\ pc[p] # "idle"
    /\ crashes' = crashes + 1
    /\ pc' = [pc EXCEPT ![p] = "idle"]
    /\ now' = [now EXCEPT ![p] = 0]
    /\ batch' = [batch EXCEPT ![p] = {}]
    /\ cur' = [cur EXCEPT ![p] = NoFire]
    /\ dirty' = [dirty EXCEPT ![p] = FALSE]
    /\ tries' = [tries EXCEPT ![p] = 0]
    /\ UNCHANGED <<backend, next, live, clock, runs, published>>

Pass(p) ==
    \/ List(p) \/ (\E f \in batch[p] : Claim(p, f) \/ RedisClaim(p, f))
    \/ RedisWatch(p) \/ RedisExec(p)
    \/ Decline(p) \/ StartRun(p) \/ Publish(p) \/ EndPass(p)

Next ==
    \/ \E p \in Pod : ClockTick(p) \/ Pass(p) \/ Crash(p)
    \/ \E tr \in Trigger : DeleteTrigger(tr)

Spec == Init /\ [][Next]_vars

\* Time passes and a pod whose pass can go on goes on; nothing obliges a pod to crash
\* or a trigger to be deleted.
FairSpec == Spec /\ \A p \in Pod : WF_vars(ClockTick(p)) /\ WF_vars(Pass(p))

-----------------------------------------------------------------------------
\* Two runs are never started for one fire of one trigger, whatever pods poll at
\* once, with stale lists and clocks that disagree (cron_dispatcher.go:69-72).
AtMostOnce ==
    \A i, j \in DOMAIN runs : runs[i] = runs[j] => i = j

\* next_fire_at never goes back, so a stale claim cannot match a second time.
NextFireAdvances == [][\A tr \in Trigger : next'[tr] >= next[tr]]_vars

\* Every fire that comes due before the clocks stop is claimed, also when the pod
\* that listed it dies (a later pass of any pod finds it again).
EveryFireClaimed ==
    \A tr \in Trigger, t \in 0 .. Horizon :
        (tr \in live /\ next[tr] = t) ~> (tr \notin live \/ next[tr] # t)

-----------------------------------------------------------------------------
(***************************************************************************)
(* The inductive invariant: a fire that was listed is not later than the   *)
(* pass's clock reading, so a claim moves next_fire_at forward past it; an *)
(* EXEC that will succeed swaps the fire that next_fire_at still holds; a  *)
(* fire that was won lies behind next_fire_at, belongs to one pod and has  *)
(* no run until that pod creates it.                                       *)
(***************************************************************************)
ListedIsDue == \A p \in Pod : \A f \in batch[p] : f.at <= now[p]

Claiming(p) == pc[p] \in {"watch", "exec"}

ClaimedIsDue == \A p \in Pod : Claiming(p) => cur[p] \in Fire /\ cur[p].at <= now[p]

\* Unless the EXEC is going to fail, what was read under WATCH still holds.
WatchedIsCurrent == \A p \in Pod : pc[p] = "exec" /\ ~dirty[p] => Holds(cur[p])

OnlyRedisWatches == backend # "redis" => \A p \in Pod : ~Claiming(p)

Winning(p) == pc[p] = "start"

WonIsSpent ==
    \A p \in Pod : Winning(p) => /\ cur[p] \in Fire
                                 /\ cur[p].at < next[cur[p].tr]
                                 /\ \A i \in DOMAIN runs : runs[i] # cur[p]

OneWinner == \A p, q \in Pod : Winning(p) /\ Winning(q) /\ cur[p] = cur[q] => p = q

StartedIsSpent == \A i \in DOMAIN runs : runs[i].at < next[runs[i].tr]

IInv ==
    /\ TypeOK
    /\ ListedIsDue
    /\ ClaimedIsDue
    /\ WatchedIsCurrent
    /\ OnlyRedisWatches
    /\ WonIsSpent
    /\ OneWinner
    /\ StartedIsSpent
    /\ AtMostOnce
=============================================================================
