------------------------------- MODULE MCCron -------------------------------
\* Two pods and two triggers: one that fires every tick, one every second tick.
EXTENDS CronDispatcher

Every(tr, t) == IF tr = "fast" THEN t + 1 ELSE t + 2 - (t % 2)
=============================================================================
