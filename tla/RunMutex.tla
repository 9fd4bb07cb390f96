------------------------------ MODULE RunMutex ------------------------------
(***************************************************************************)
(* What engine/runlock.go promises its callers: one mutex per run.  A      *)
(* caller inside Advance (or CompensateFailedStep) for a run is the only   *)
(* caller inside for that run.                                             *)
(***************************************************************************)
CONSTANTS Proc, RunID, Nil

VARIABLE holder        \* holder[r]: the caller inside for run r, or Nil

Init == holder = [r \in RunID |-> Nil]

Acquire(p, r) ==
    /\ holder[r] = Nil
    /\ holder' = [holder EXCEPT ![r] = p]

Release(p, r) ==
    /\ holder[r] = p
    /\ holder' = [holder EXCEPT ![r] = Nil]

Next == \E p \in Proc, r \in RunID : Acquire(p, r) \/ Release(p, r)

Spec == Init /\ [][Next]_holder
=============================================================================
