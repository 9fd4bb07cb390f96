------------------------------ MODULE RunLocks ------------------------------
(***************************************************************************)
(* engine/runlock.go: the reference-counted map of per-run mutexes that    *)
(* serialises Advance within one coordinator.                              *)
(*                                                                         *)
(* A lock object is a pointer: the map may drop an object and later hold a *)
(* fresh one for the same run, so two objects for one run are possible in  *)
(* principle, and with them two callers inside.  The map and the counters  *)
(* are only touched while l.mu is held, so each such section is one step.  *)
(***************************************************************************)
EXTENDS Naturals, FiniteSets

CONSTANTS
    Proc,       \* goroutines calling lock()
    RunID,      \* run ids
    Obj,        \* heap cells for *runLock objects
    Nil

ASSUME ProcAssumption == IsFiniteSet(Proc)
ASSUME NilAssumption  == Nil \notin Proc \cup RunID \cup Obj

VARIABLES
    locks,      \* l.locks: run id -> object, Nil when there is no entry
    mu,         \* mu[o]: the goroutine holding o.mu, or Nil
    refs,       \* refs[o]: the object's reference count
    pc,         \* where each goroutine is
    run,        \* the run id it asked for
    rl          \* the object its local variable rl points to

vars == <<locks, mu, refs, pc, run, rl>>

PC == {"idle", "wait", "inside", "unref"}

TypeOK ==
    /\ locks \in [RunID -> Obj \cup {Nil}]
    /\ mu    \in [Obj -> Proc \cup {Nil}]
    /\ refs  \in [Obj -> Nat]
    /\ pc    \in [Proc -> PC]
    /\ run   \in [Proc -> RunID \cup {Nil}]
    /\ rl    \in [Proc -> Obj \cup {Nil}]

\* Goroutines whose reference to o is counted.
Users(o) == {p \in Proc : pc[p] # "idle" /\ rl[p] = o}

\* An allocation returns memory nothing points to (the garbage collector
\* reuses an object only when it is unreachable).
Unreachable(o) ==
    /\ \A r \in RunID : locks[r] # o
    /\ \A p \in Proc  : rl[p] # o

Init ==
    /\ locks = [r \in RunID |-> Nil]
    /\ mu    = [o \in Obj |-> Nil]
    /\ refs  = [o \in Obj |-> 0]
    /\ pc    = [p \in Proc |-> "idle"]
    /\ run   = [p \in Proc |-> Nil]
    /\ rl    = [p \in Proc |-> Nil]

-----------------------------------------------------------------------------
\* The entry lookup of lock(): the object for r, a fresh one when there is none.
EntryOf(r, o) == IF locks[r] = Nil THEN Unreachable(o) ELSE o = locks[r]

\* A lookup that takes an entry without counting the reference.
UncountedRef(p, r) ==
    /\ pc[p] = "idle"
    /\ \E o \in Obj :
         /\ EntryOf(r, o)
         /\ locks' = [locks EXCEPT ![r] = o]
         /\ mu'    = IF locks[r] = Nil THEN [mu EXCEPT ![o] = Nil] ELSE mu
         /\ refs'  = IF locks[r] = Nil THEN [refs EXCEPT ![o] = 1] ELSE refs
         /\ rl'    = [rl EXCEPT ![p] = o]
    /\ pc'  = [pc EXCEPT ![p] = "wait"]
    /\ run' = [run EXCEPT ![p] = r]

\* l.mu.Lock() ... rl.refs++; l.mu.Unlock().
Ref(p, r) ==
    /\ pc[p] = "idle"
    /\ \E o \in Obj :
         /\ EntryOf(r, o)
         /\ locks' = [locks EXCEPT ![r] = o]
         /\ mu'    = IF locks[r] = Nil THEN [mu EXCEPT ![o] = Nil] ELSE mu
         /\ refs'  = [refs EXCEPT ![o] = IF locks[r] = Nil THEN 1 ELSE @ + 1]
         /\ rl'    = [rl EXCEPT ![p] = o]
    /\ pc'  = [pc EXCEPT ![p] = "wait"]
    /\ run' = [run EXCEPT ![p] = r]

\* rl.mu.Lock().
Grab(p) ==
    /\ pc[p] = "wait"
    /\ mu[rl[p]] = Nil
    /\ mu' = [mu EXCEPT ![rl[p]] = p]
    /\ pc' = [pc EXCEPT ![p] = "inside"]
    /\ UNCHANGED <<locks, refs, run, rl>>

\* An unlock func that forgets the mutex.
ForgetfulUnlock(p) ==
    /\ pc[p] = "inside"
    /\ pc' = [pc EXCEPT ![p] = "unref"]
    /\ UNCHANGED <<locks, mu, refs, run, rl>>

\* rl.mu.Unlock(), the first statement of the returned unlock func.
Unlock(p) ==
    /\ pc[p] = "inside"
    /\ mu' = [mu EXCEPT ![rl[p]] = Nil]
    /\ pc' = [pc EXCEPT ![p] = "unref"]
    /\ UNCHANGED <<locks, refs, run, rl>>

\* An unlock that deletes the entry whatever the count says.
EagerUnref(p) ==
    /\ pc[p] = "unref"
    /\ refs'  = [refs EXCEPT ![rl[p]] = @ - 1]
    /\ locks' = [locks EXCEPT ![run[p]] = Nil]
    /\ pc'    = [pc EXCEPT ![p] = "idle"]
    /\ run'   = [run EXCEPT ![p] = Nil]
    /\ rl'    = [rl EXCEPT ![p] = Nil]
    /\ UNCHANGED mu

\* An unlock that leaves the entry in the map.
LeakyUnref(p) ==
    /\ pc[p] = "unref"
    /\ refs'  = [refs EXCEPT ![rl[p]] = @ - 1]
    /\ pc'    = [pc EXCEPT ![p] = "idle"]
    /\ run'   = [run EXCEPT ![p] = Nil]
    /\ rl'    = [rl EXCEPT ![p] = Nil]
    /\ UNCHANGED <<mu, locks>>

\* l.mu.Lock(); rl.refs--; if rl.refs == 0 { delete }; l.mu.Unlock().
Unref(p) ==
    /\ pc[p] = "unref"
    /\ refs'  = [refs EXCEPT ![rl[p]] = @ - 1]
    /\ locks' = IF refs[rl[p]] = 1 THEN [locks EXCEPT ![run[p]] = Nil] ELSE locks
    /\ pc'    = [pc EXCEPT ![p] = "idle"]
    /\ run'   = [run EXCEPT ![p] = Nil]
    /\ rl'    = [rl EXCEPT ![p] = Nil]
    /\ UNCHANGED mu

Next ==
    \E p \in Proc :
        \/ \E r \in RunID : Ref(p, r)
        \/ Grab(p)
        \/ Unlock(p)
        \/ Unref(p)

Spec == Init /\ [][Next]_vars

(***************************************************************************)
(* Fairness.  A goroutine that can run does.  sync.Mutex hands the lock to *)
(* the longest waiter once that has waited 1 ms (starvation mode), so a    *)
(* waiter is not overtaken for ever: strong fairness on Grab.              *)
(***************************************************************************)
FairSpec ==
    /\ Spec
    /\ \A p \in Proc : /\ SF_vars(Grab(p))
                       /\ WF_vars(Unlock(p))
                       /\ WF_vars(Unref(p))

-----------------------------------------------------------------------------
\* Two goroutines are never both inside for the same run (runlock.go:28-32),
\* although each holds the mutex of whichever object it found in the map.
MutualExclusion ==
    \A p, q \in Proc :
        pc[p] = "inside" /\ pc[q] = "inside" /\ run[p] = run[q] => p = q

\* The map holds an entry for a run exactly while some goroutine holds or waits
\* on it (runlock.go:32-34), and the entry counts exactly those goroutines.
EntriesExact ==
    \A r \in RunID :
        LET U == {p \in Proc : pc[p] # "idle" /\ run[p] = r}
        IN  IF locks[r] = Nil THEN U = {}
            ELSE U # {} /\ refs[locks[r]] = Cardinality(U)

\* A goroutine that asked for a run's lock gets it (no waiter is stranded on an
\* object that left the map).
EveryCallerGetsIn == \A p \in Proc : pc[p] = "wait" ~> pc[p] = "inside"

\* The refinement: the goroutine inside is the abstract holder.
holder == [r \in RunID |->
             IF \E p \in Proc : pc[p] = "inside" /\ run[p] = r
             THEN CHOOSE p \in Proc : pc[p] = "inside" /\ run[p] = r
             ELSE Nil]

Mutex == INSTANCE RunMutex

\* The pointer map implements one abstract mutex per run.
ImplementsRunMutex == Mutex!Spec

-----------------------------------------------------------------------------
(***************************************************************************)
(* The inductive invariant.  Every goroutine past Ref points to the object *)
(* the map holds for its run; distinct runs have distinct objects; counts  *)
(* are exact; the mutex of an object is held exactly by who is inside.     *)
(***************************************************************************)
PointersAgree ==
    \A p \in Proc : pc[p] # "idle" => /\ run[p] \in RunID
                                      /\ rl[p] \in Obj
                                      /\ locks[run[p]] = rl[p]

IdleHoldsNothing == \A p \in Proc : pc[p] = "idle" => rl[p] = Nil

EntriesDistinct ==
    \A r, s \in RunID : locks[r] # Nil /\ locks[r] = locks[s] => r = s

EntriesCounted ==
    \A r \in RunID, o \in Obj : locks[r] = o => refs[o] = Cardinality(Users(o))

EntriesUsed == \A r \in RunID, o \in Obj : locks[r] = o => Users(o) # {}

HeldByInside ==
    /\ \A p \in Proc : pc[p] = "inside" => mu[rl[p]] = p
    /\ \A p, q \in Proc : pc[p] = "inside" /\ pc[q] = "inside" /\ rl[p] = rl[q] => p = q

IInv ==
    /\ TypeOK
    /\ PointersAgree
    /\ IdleHoldsNothing
    /\ EntriesDistinct
    /\ EntriesCounted
    /\ EntriesUsed
    /\ HeldByInside
=============================================================================
