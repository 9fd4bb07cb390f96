--------------------------- MODULE RunLocksProofs ---------------------------
(***************************************************************************)
(* For every set of goroutines, runs and heap cells: the pointer map of    *)
(* engine/runlock.go is exact, keeps callers of one run apart, and         *)
(* implements one abstract mutex per run.                                  *)
(***************************************************************************)
EXTENDS RunLocks, FiniteSetTheorems, TLAPS

\* The goroutines counted by an object form a finite set.
LEMMA UsersFinite ==
    ASSUME NEW o
    PROVE  IsFiniteSet(Users(o)) /\ Cardinality(Users(o)) \in Nat
  <1>1. Users(o) \subseteq Proc
    BY DEF Users
  <1>2. IsFiniteSet(Users(o))
    BY <1>1, ProcAssumption, FS_Subset
  <1> QED
    BY <1>2, FS_CardinalityType

\* Initially nobody points anywhere and the map is empty.
LEMMA InitIInv == Init => IInv
  BY NilAssumption
  DEF Init, IInv, TypeOK, PC, PointersAgree, IdleHoldsNothing, EntriesDistinct,
      EntriesCounted, EntriesUsed, HeldByInside

\* lock()'s first section: the reference is counted on the object the map holds.
LEMMA RefPreserves ==
    ASSUME IInv, NEW p \in Proc, NEW r \in RunID, Ref(p, r)
    PROVE  IInv'
  <1> USE DEF IInv
  <1>1. PICK o \in Obj :
            /\ EntryOf(r, o)
            /\ locks' = [locks EXCEPT ![r] = o]
            /\ mu'    = IF locks[r] = Nil THEN [mu EXCEPT ![o] = Nil] ELSE mu
            /\ refs'  = [refs EXCEPT ![o] = IF locks[r] = Nil THEN 1 ELSE @ + 1]
            /\ rl'    = [rl EXCEPT ![p] = o]
    BY DEF Ref
  <1>2. /\ pc[p] = "idle"
        /\ pc'  = [pc EXCEPT ![p] = "wait"]
        /\ run' = [run EXCEPT ![p] = r]
    BY DEF Ref
  <1>3. TypeOK'
    BY <1>1, <1>2 DEF TypeOK, PC
  <1>4. o # Nil
    BY NilAssumption
  <1>5. \A q \in Proc : pc[q] # "idle" /\ rl[q] = o => locks[r] = o /\ run[q] = r
    BY <1>1 DEF EntryOf, Unreachable, PointersAgree, EntriesDistinct, TypeOK
  <1>6. PointersAgree'
    <2> SUFFICES ASSUME NEW q \in Proc, pc'[q] # "idle"
                 PROVE  run'[q] \in RunID /\ rl'[q] \in Obj /\ locks'[run'[q]] = rl'[q]
      BY DEF PointersAgree
    <2>1. CASE q = p
      BY <2>1, <1>1, <1>2 DEF TypeOK
    <2>2. CASE q # p
      <3>1. pc[q] # "idle" /\ run'[q] = run[q] /\ rl'[q] = rl[q]
        BY <2>2, <1>1, <1>2 DEF TypeOK
      <3>2. run[q] \in RunID /\ rl[q] \in Obj /\ locks[run[q]] = rl[q]
        BY <3>1 DEF PointersAgree
      <3>3. run[q] = r => locks[r] = o
        BY <1>1, <3>2, NilAssumption DEF EntryOf
      <3> QED
        BY <3>1, <3>2, <3>3, <1>1 DEF TypeOK
    <2> QED
      BY <2>1, <2>2
  <1>7. IdleHoldsNothing'
    BY <1>1, <1>2 DEF IdleHoldsNothing, TypeOK
  <1>8. EntriesDistinct'
    BY <1>1, <1>4 DEF EntriesDistinct, EntryOf, Unreachable, TypeOK
  <1>9. Users(o)' = Users(o) \cup {p} /\ p \notin Users(o)
    BY <1>1, <1>2 DEF Users, TypeOK
  <1>10. \A x \in Obj : x # o => Users(x)' = Users(x)
    BY <1>1, <1>2 DEF Users, IdleHoldsNothing, TypeOK
  <1>11. \A s \in RunID, x \in Obj : locks'[s] = x /\ x # o =>
             locks[s] = x /\ refs'[x] = refs[x]
    BY <1>1 DEF TypeOK
  <1>12. EntriesCounted' /\ EntriesUsed'
    <2>1. refs'[o] = Cardinality(Users(o)')
      <3>1. CASE locks[r] = Nil
        <4>1. Users(o) = {}
          BY <1>5, <3>1, <1>4 DEF Users
        <4>2. Users(o)' = {p}
          BY <4>1, <1>9
        <4>3. Cardinality(Users(o)') = 1
          BY <4>2, FS_Singleton
        <4> QED
          BY <1>1, <3>1, <4>3 DEF TypeOK
      <3>2. CASE locks[r] # Nil
        <4>1. Cardinality(Users(o)') = Cardinality(Users(o)) + 1
          BY <1>9, UsersFinite, FS_AddElement
        <4>2. refs[o] = Cardinality(Users(o))
          BY <1>1, <3>2 DEF EntriesCounted, EntryOf
        <4> QED
          BY <1>1, <3>2, <4>1, <4>2 DEF TypeOK
      <3> QED
        BY <3>1, <3>2
    <2>2. \A s \in RunID, x \in Obj : locks'[s] = x =>
              refs'[x] = Cardinality(Users(x)') /\ Users(x)' # {}
      BY <2>1, <1>9, <1>10, <1>11 DEF EntriesCounted, EntriesUsed
    <2> QED
      BY <2>2 DEF EntriesCounted, EntriesUsed
  <1>13. HeldByInside'
    <2>1. \A q \in Proc : pc'[q] = "inside" =>
             /\ pc[q] = "inside" /\ q # p /\ rl'[q] = rl[q] /\ rl[q] \in Obj
             /\ mu'[rl[q]] = mu[rl[q]]
      BY <1>1, <1>2, <1>5, <1>4 DEF TypeOK, PointersAgree
    <2> QED
      BY <2>1 DEF HeldByInside
  <1> QED
    BY <1>3, <1>6, <1>7, <1>8, <1>12, <1>13

\* rl.mu.Lock(): the object's mutex is free, so nobody inside points to it.
LEMMA GrabPreserves ==
    ASSUME IInv, NEW p \in Proc, Grab(p)
    PROVE  IInv'
  <1> USE DEF IInv
  <1>1. /\ pc[p] = "wait"
        /\ mu[rl[p]] = Nil
        /\ mu' = [mu EXCEPT ![rl[p]] = p]
        /\ pc' = [pc EXCEPT ![p] = "inside"]
        /\ UNCHANGED <<locks, refs, run, rl>>
    BY DEF Grab
  <1>2. rl[p] \in Obj
    BY <1>1 DEF PointersAgree
  <1>3. TypeOK'
    BY <1>1, <1>2 DEF TypeOK, PC
  <1>4. PointersAgree' /\ IdleHoldsNothing' /\ EntriesDistinct'
    BY <1>1 DEF PointersAgree, IdleHoldsNothing, EntriesDistinct, TypeOK
  <1>5. \A x \in Obj : Users(x)' = Users(x)
    BY <1>1 DEF Users, TypeOK
  <1>6. EntriesCounted' /\ EntriesUsed'
    BY <1>1, <1>5 DEF EntriesCounted, EntriesUsed
  <1>7. \A q \in Proc : pc[q] = "inside" => rl[q] # rl[p]
    BY <1>1, NilAssumption DEF HeldByInside
  <1>8. HeldByInside'
    BY <1>1, <1>2, <1>7 DEF HeldByInside, TypeOK
  <1> QED
    BY <1>3, <1>4, <1>6, <1>8

\* rl.mu.Unlock(): the caller leaves, its reference stays counted.
LEMMA UnlockPreserves ==
    ASSUME IInv, NEW p \in Proc, Unlock(p)
    PROVE  IInv'
  <1> USE DEF IInv
  <1>1. /\ pc[p] = "inside"
        /\ mu' = [mu EXCEPT ![rl[p]] = Nil]
        /\ pc' = [pc EXCEPT ![p] = "unref"]
        /\ UNCHANGED <<locks, refs, run, rl>>
    BY DEF Unlock
  <1>2. TypeOK'
    BY <1>1 DEF TypeOK, PC
  <1>3. PointersAgree' /\ IdleHoldsNothing' /\ EntriesDistinct'
    BY <1>1 DEF PointersAgree, IdleHoldsNothing, EntriesDistinct, TypeOK
  <1>4. \A x \in Obj : Users(x)' = Users(x)
    BY <1>1 DEF Users, TypeOK
  <1>5. EntriesCounted' /\ EntriesUsed'
    BY <1>1, <1>4 DEF EntriesCounted, EntriesUsed
  <1>6. HeldByInside'
    BY <1>1 DEF HeldByInside, PointersAgree, TypeOK
  <1> QED
    BY <1>2, <1>3, <1>5, <1>6

\* The rest of the unlock func: the entry goes exactly when p was its last user.
LEMMA UnrefPreserves ==
    ASSUME IInv, NEW p \in Proc, Unref(p)
    PROVE  IInv'
  <1> USE DEF IInv
  <1>0. PICK o \in Obj, r \in RunID : o = rl[p] /\ r = run[p] /\ locks[r] = o
    BY DEF Unref, PointersAgree
  <1>1. /\ pc[p] = "unref"
        /\ refs'  = [refs EXCEPT ![o] = @ - 1]
        /\ locks' = IF refs[o] = 1 THEN [locks EXCEPT ![r] = Nil] ELSE locks
        /\ pc'    = [pc EXCEPT ![p] = "idle"]
        /\ run'   = [run EXCEPT ![p] = Nil]
        /\ rl'    = [rl EXCEPT ![p] = Nil]
        /\ mu'    = mu
    BY <1>0 DEF Unref
  <1>3. o # Nil
    BY NilAssumption
  <1>4. p \in Users(o)
    BY <1>0, <1>1 DEF Users
  <1>5. refs[o] = Cardinality(Users(o))
    BY <1>0 DEF EntriesCounted
  <1>6. Users(o)' = Users(o) \ {p}
    BY <1>1, <1>0, <1>3 DEF Users, TypeOK
  <1>7. \A x \in Obj : x # o => Users(x)' = Users(x)
    BY <1>0, <1>1, <1>3, NilAssumption DEF Users, TypeOK
  <1>8. Cardinality(Users(o)') = Cardinality(Users(o)) - 1
    BY <1>4, <1>6, UsersFinite, FS_RemoveElement
  <1>9. Cardinality(Users(o)) > 0
    BY <1>4, UsersFinite, FS_EmptySet
  <1>10. refs[o] = 1 <=> Users(o)' = {}
    <2>1. Users(o)' \subseteq Users(o) /\ IsFiniteSet(Users(o)')
      BY <1>6, UsersFinite, FS_RemoveElement
    <2>2. Cardinality(Users(o)') = 0 <=> Users(o)' = {}
      BY <2>1, FS_EmptySet
    <2> QED
      BY <2>2, <1>5, <1>8, UsersFinite
  <1>11. TypeOK'
    BY <1>1, <1>0, <1>5, <1>9, UsersFinite DEF TypeOK, PC
  <1>12. PointersAgree'
    <2> SUFFICES ASSUME NEW q \in Proc, pc'[q] # "idle"
                 PROVE  run'[q] \in RunID /\ rl'[q] \in Obj /\ locks'[run'[q]] = rl'[q]
      BY DEF PointersAgree
    <2>1. q # p /\ pc[q] # "idle" /\ run'[q] = run[q] /\ rl'[q] = rl[q]
      BY <1>1 DEF TypeOK
    <2>2. run[q] \in RunID /\ rl[q] \in Obj /\ locks[run[q]] = rl[q]
      BY <2>1 DEF PointersAgree
    <2>3. ASSUME refs[o] = 1 PROVE run[q] # r
      <3>1. q \notin Users(o)
        BY <2>1, <2>3, <1>6, <1>10
      <3> QED
        BY <3>1, <2>1, <2>2, <1>0 DEF Users
    <2> QED
      BY <2>1, <2>2, <2>3, <1>1 DEF TypeOK
  <1>13. IdleHoldsNothing'
    BY <1>1 DEF IdleHoldsNothing, TypeOK
  <1>14. EntriesDistinct'
    BY <1>1, <1>0 DEF EntriesDistinct, TypeOK
  <1>15. EntriesCounted' /\ EntriesUsed'
    <2>1. \A s \in RunID, x \in Obj : locks'[s] = x =>
             locks[s] = x /\ (x = o => refs[o] # 1)
      BY <1>1, <1>0, NilAssumption DEF EntriesDistinct, TypeOK
    <2>2. \A x \in Obj : refs'[x] = IF x = o THEN refs[o] - 1 ELSE refs[x]
      BY <1>1, <1>0 DEF TypeOK
    <2>3. \A s \in RunID, x \in Obj : locks'[s] = x =>
             refs'[x] = Cardinality(Users(x)') /\ Users(x)' # {}
      BY <2>1, <2>2, <1>5, <1>7, <1>8, <1>10 DEF EntriesCounted, EntriesUsed
    <2> QED
      BY <2>3 DEF EntriesCounted, EntriesUsed
  <1>16. HeldByInside'
    BY <1>1 DEF HeldByInside, TypeOK
  <1> QED
    BY <1>11, <1>12, <1>13, <1>14, <1>15, <1>16

\* A step that changes nothing keeps the invariant.
LEMMA StutterPreserves == IInv /\ UNCHANGED vars => IInv'
  <1> SUFFICES ASSUME IInv, UNCHANGED vars
               PROVE  IInv'
    OBVIOUS
  <1>1. \A x \in Obj : Users(x)' = Users(x)
    BY DEF Users, vars
  <1> QED
    BY <1>1 DEF IInv, vars, TypeOK, PointersAgree, IdleHoldsNothing, EntriesDistinct,
                EntriesCounted, EntriesUsed, HeldByInside

\* The strengthened invariant of the pointer map holds in every reachable state.
THEOREM Inductive == Spec => []IInv
  <1>1. IInv /\ [Next]_vars => IInv'
    BY RefPreserves, GrabPreserves, UnlockPreserves, UnrefPreserves, StutterPreserves
    DEF Next
  <1> QED
    BY <1>1, InitIInv, PTL DEF Spec

\* Type correctness of the lock map, its counters and its callers.
THEOREM TypeCorrect == Spec => []TypeOK
  <1>1. IInv => TypeOK
    BY DEF IInv
  <1> QED
    BY <1>1, Inductive, PTL

\* Two goroutines inside for one run point to the map's one object for it, whose
\* mutex only one of them holds (runlock.go:28-32).
THEOREM Exclusive == Spec => []MutualExclusion
  <1>1. IInv => MutualExclusion
    BY DEF IInv, PointersAgree, HeldByInside, MutualExclusion
  <1> QED
    BY <1>1, Inductive, PTL

\* The map holds an entry exactly for the runs in use, with an exact count, so it
\* does not grow with the runs ever seen (runlock.go:32-34).
THEOREM Exact == Spec => []EntriesExact
  <1>1. ASSUME IInv, NEW r \in RunID
        PROVE  LET U == {p \in Proc : pc[p] # "idle" /\ run[p] = r}
               IN  IF locks[r] = Nil THEN U = {}
                   ELSE U # {} /\ refs[locks[r]] = Cardinality(U)
    <2> DEFINE U == {p \in Proc : pc[p] # "idle" /\ run[p] = r}
    <2>1. CASE locks[r] = Nil
      BY <1>1, <2>1, NilAssumption DEF IInv, PointersAgree
    <2>2. CASE locks[r] # Nil
      <3>1. locks[r] \in Obj
        BY <1>1, <2>2 DEF IInv, TypeOK
      <3>2. U = Users(locks[r])
        BY <1>1, <2>2 DEF IInv, PointersAgree, EntriesDistinct, Users
      <3> QED
        BY <1>1, <2>2, <3>1, <3>2 DEF IInv, EntriesCounted, EntriesUsed
    <2> QED
      BY <2>1, <2>2
  <1>2. IInv => EntriesExact
    BY <1>1 DEF EntriesExact
  <1> QED
    BY <1>2, Inductive, PTL

-----------------------------------------------------------------------------
\* The abstract holder of a run is whoever is inside for it.
Inside(p, r) == pc[p] = "inside" /\ run[p] = r

HolderExact ==
    /\ holder = [r \in RunID |-> holder[r]]
    /\ \A r \in RunID, p \in Proc : Inside(p, r) => holder[r] = p
    /\ \A r \in RunID : (\A p \in Proc : ~Inside(p, r)) => holder[r] = Nil

\* Mutual exclusion makes the choice in the refinement mapping unique.
LEMMA HolderIsInside == IInv => HolderExact
  <1> SUFFICES ASSUME IInv
               PROVE  HolderExact
    OBVIOUS
  <1>1. ASSUME NEW r \in RunID, NEW p \in Proc, Inside(p, r)
        PROVE  holder[r] = p
    <2>1. \A q \in Proc : pc[q] = "inside" /\ run[q] = r => q = p
      BY <1>1 DEF IInv, PointersAgree, HeldByInside, Inside
    <2>2. \E q \in Proc : pc[q] = "inside" /\ run[q] = r
      BY <1>1 DEF Inside
    <2>3. (CHOOSE q \in Proc : pc[q] = "inside" /\ run[q] = r) = p
      BY <2>1, <2>2
    <2> QED
      BY <2>2, <2>3 DEF holder
  <1>2. ASSUME NEW r \in RunID, \A p \in Proc : ~Inside(p, r)
        PROVE  holder[r] = Nil
    BY <1>2 DEF holder, Inside
  <1>3. holder = [r \in RunID |-> holder[r]]
    BY DEF holder
  <1> QED
    BY <1>1, <1>2, <1>3 DEF HolderExact

\* A step after which the same callers are inside leaves the abstract state alone.
LEMMA SameInside ==
    ASSUME HolderExact, HolderExact',
           \A p \in Proc, r \in RunID : Inside(p, r)' <=> Inside(p, r)
    PROVE  holder' = holder
  <1>1. ASSUME NEW r \in RunID
        PROVE  holder'[r] = holder[r]
    <2>1. CASE \E p \in Proc : Inside(p, r)
      BY <2>1 DEF HolderExact
    <2>2. CASE \A p \in Proc : ~Inside(p, r)
      BY <2>2 DEF HolderExact
    <2> QED
      BY <2>1, <2>2
  <1> QED
    BY <1>1 DEF HolderExact

\* The pointer map implements one mutex per run: taking the object's mutex is
\* Acquire, releasing it is Release, and the bookkeeping steps are invisible.
THEOREM Refinement == Spec => ImplementsRunMutex
  <1>1. Init => Mutex!Init
    BY DEF Init, Mutex!Init, holder
  <1>2. ASSUME IInv, IInv', HolderExact, HolderExact', [Next]_vars
        PROVE  [Mutex!Next]_holder
    <2>1. ASSUME NEW p \in Proc, NEW r \in RunID, Ref(p, r)
          PROVE  holder' = holder
      <3>1. \A q \in Proc, s \in RunID : Inside(q, s)' <=> Inside(q, s)
        BY <1>2, <2>1 DEF Ref, Inside, IInv, TypeOK
      <3> QED
        BY <3>1, <1>2, SameInside
    <2>2. ASSUME NEW p \in Proc, Grab(p)
          PROVE  Mutex!Next
      <3>1. PICK r \in RunID : r = run[p]
        BY <1>2, <2>2 DEF Grab, IInv, PointersAgree
      <3>2. \A q \in Proc : ~Inside(q, r)
        BY <1>2, <2>2, <3>1, NilAssumption DEF Grab, IInv, PointersAgree, HeldByInside, Inside
      <3>3. \A q \in Proc, s \in RunID :
                Inside(q, s)' <=> Inside(q, s) \/ (q = p /\ s = r)
        BY <1>2, <2>2, <3>1 DEF Grab, Inside, IInv, TypeOK
      <3>4. holder[r] = Nil /\ holder'[r] = p
        BY <1>2, <3>2, <3>3 DEF HolderExact
      <3>5. ASSUME NEW s \in RunID, s # r
            PROVE  holder'[s] = holder[s]
        <4>1. CASE \E q \in Proc : Inside(q, s)
          BY <1>2, <3>3, <3>5, <4>1 DEF HolderExact
        <4>2. CASE \A q \in Proc : ~Inside(q, s)
          BY <1>2, <3>3, <3>5, <4>2 DEF HolderExact
        <4> QED
          BY <4>1, <4>2
      <3>6. holder' = [holder EXCEPT ![r] = p]
        BY <1>2, <3>4, <3>5 DEF HolderExact
      <3> QED
        BY <3>4, <3>6 DEF Mutex!Next, Mutex!Acquire
    <2>3. ASSUME NEW p \in Proc, Unlock(p)
          PROVE  Mutex!Next
      <3>1. PICK r \in RunID : r = run[p]
        BY <1>2, <2>3 DEF Unlock, IInv, PointersAgree
      <3>2. \A q \in Proc : Inside(q, r) <=> q = p
        BY <1>2, <2>3, <3>1 DEF Unlock, IInv, PointersAgree, HeldByInside, Inside
      <3>3. \A q \in Proc, s \in RunID :
                Inside(q, s)' <=> Inside(q, s) /\ s # r
        BY <1>2, <2>3, <3>1, <3>2 DEF Unlock, Inside, IInv, TypeOK
      <3>4. holder[r] = p /\ holder'[r] = Nil
        BY <1>2, <3>2, <3>3 DEF HolderExact
      <3>5. ASSUME NEW s \in RunID, s # r
            PROVE  holder'[s] = holder[s]
        <4>1. CASE \E q \in Proc : Inside(q, s)
          BY <1>2, <3>3, <3>5, <4>1 DEF HolderExact
        <4>2. CASE \A q \in Proc : ~Inside(q, s)
          BY <1>2, <3>3, <3>5, <4>2 DEF HolderExact
        <4> QED
          BY <4>1, <4>2
      <3>6. holder' = [holder EXCEPT ![r] = Nil]
        BY <1>2, <3>4, <3>5 DEF HolderExact
      <3> QED
        BY <3>4, <3>6 DEF Mutex!Next, Mutex!Release
    <2>4. ASSUME NEW p \in Proc, Unref(p)
          PROVE  holder' = holder
      <3>1. \A q \in Proc, s \in RunID : Inside(q, s)' <=> Inside(q, s)
        BY <1>2, <2>4 DEF Unref, Inside, IInv, TypeOK
      <3> QED
        BY <3>1, <1>2, SameInside
    <2>5. ASSUME UNCHANGED vars
          PROVE  holder' = holder
      <3>1. \A q \in Proc, s \in RunID : Inside(q, s)' <=> Inside(q, s)
        BY <2>5 DEF vars, Inside
      <3> QED
        BY <3>1, <1>2, SameInside
    <2> QED
      BY <1>2, <2>1, <2>2, <2>3, <2>4, <2>5 DEF Next
  <1> QED
    BY <1>1, <1>2, Inductive, HolderIsInside, PTL DEF Spec, ImplementsRunMutex, Mutex!Spec
=============================================================================
