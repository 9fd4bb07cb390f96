---------------------------- MODULE LaunchProofs ----------------------------
(***************************************************************************)
(* For every set of definitions, starters, triggers and events, and any    *)
(* number of saves and faults: runs keep the version they were started on, *)
(* none is left unadvanced in silence, a dispatcher takes up every trigger *)
(* it listed, and the audit of the fires is truthful.                      *)
(***************************************************************************)
EXTENDS Launch, WellFoundedInduction, TLAPS

-----------------------------------------------------------------------------
(***************************************************************************)
(* The inductive invariant.                                                *)
(***************************************************************************)
\* Some row has the highest version: what ORDER BY version DESC LIMIT 1 relies on.
TopRow(ds) == ds # <<>> => \E i \in DOMAIN ds : \A j \in DOMAIN ds : ds[j].ver <= ds[i].ver

\* The row that a starter or a run holds on to is still the definition it was given.
Holds(row, d) ==
    /\ row \in DOMAIN defs
    /\ defs[row].ver = d.ver
    /\ backend # "postgres" => defs[row] = d

PreRun == {"resolve", "upsert", "create", "spawn"}

HasRun == {"inject", "publish", "record"}

\* How far s has come, and what it therefore has in hand.
Progress(s, q) ==
    /\ q.pc = "next" => q.kind = "trigger"
    /\ q.pc = "record" => q.kind = "trigger" /\ q.run \in advanced
    /\ q.kind # "trigger" \/ q.pc \in {"idle", "done"} => q.todo = {}
    /\ q.pc \in PreRun \cup HasRun => /\ q.trig \notin q.todo
                                      /\ q.kind = "trigger" => q.trig \in Trigger
    /\ q.pc \in HasRun => /\ q.run \in DOMAIN runs
                          /\ runs[q.run].by = s /\ runs[q.run].trig = q.trig
    /\ q.pc \notin HasRun => q.run = 0
    /\ q.pc \in {"upsert", "create", "spawn"} => q.doc \in Doc
    /\ q.pc = "spawn" => q.kind \in {"sub", "spawn"} /\ HasVersion(defs, q.doc.ver)
    /\ q.pc = "create" => Holds(q.row, q.doc)

\* A run and its starter: begun, past the trigger of the run, and not about to start
\* it once more.
RunOK(i) ==
    LET r == runs[i]
        q == st[r.by]
    IN  /\ q.pc # "idle" /\ r.trig \notin q.todo
        /\ q.pc \in PreRun => r.trig # q.trig
        /\ r.row \in DOMAIN defs
        /\ backend = "postgres" => defs[r.row].ver = r.doc.ver
        /\ backend # "postgres" /\ ~Spawned(r) => defs[r.row] = r.doc
        /\ i \in advanced \/ q.run = i \/ q.pc = "crashed" \/ q.err \/ q.kind = "spawn"

FiresOK == \A f \in fires : f.run \in advanced /\ runs[f.run].trig = f.trig

OneRunEach ==
    \A i, j \in DOMAIN runs : runs[i].by = runs[j].by /\ runs[i].trig = runs[j].trig => i = j

IInv ==
    /\ TypeOK
    /\ TopRow(defs)
    /\ \A s \in Starter : Progress(s, st[s])
    /\ \A i \in DOMAIN runs : RunOK(i)
    /\ FiresOK /\ OneRunEach

-----------------------------------------------------------------------------
(***************************************************************************)
(* The definitions table.                                                  *)
(***************************************************************************)
\* A set of naturals that has a bound has a last member.
LEMMA HasLast ==
    ASSUME NEW S \in SUBSET Nat, NEW n \in Nat, \A i \in S : i <= n, S # {}
    PROVE  Last(S) \in S
<1> DEFINE T == {n - i : i \in S}
           R == OpToRel(<, Nat)
<1>1. T \in SUBSET Nat /\ T # {}
  <2>1. \A i \in S : i \in Nat /\ n - i \in Nat
      OBVIOUS
  <2> QED BY <2>1
<1>2. IsWellFoundedOn(R, Nat)
    BY NatLessThanWellFounded
<1>3. PICK x \in T : \A y \in T : ~(<<y, x>> \in R)
  <2> HIDE DEF T, R
  <2> QED BY <1>1, <1>2, WFMin
<1>4. \A y \in T : ~(y < x)
    BY <1>3, <1>1 DEF OpToRel
<1>5. PICK i \in S : x = n - i
    OBVIOUS
<1>6. \A j \in S : ~(n - j < n - i)
    BY <1>4, <1>5
<1> HIDE DEF R, T
<1>7. \A j \in S : j <= i
  <2> SUFFICES ASSUME NEW j \in S PROVE j <= i
      OBVIOUS
  <2>1. j \in Nat /\ i \in Nat /\ ~(n - j < n - i)
      BY <1>6
  <2> QED BY <2>1
<1> QED BY <1>7 DEF Last

\* What a definition is to the rows that are already there.
Grown(ds, es) ==
    \A row \in DOMAIN ds : /\ row \in DOMAIN es /\ es[row].ver = ds[row].ver
                           /\ backend # "postgres" => es[row] = ds[row]

\* An upsert keeps every row's id and version, outside Postgres the whole row, and
\* returns the id of a row that holds what was written.
LEMMA Upserts ==
    ASSUME NEW ds \in Seq(Doc), NEW d \in Doc, TopRow(ds),
           backend \in {"memory", "redis", "postgres"}
    PROVE  LET es  == UpsertWorkflowDefinition(ds, d)
               row == UpsertedRow(ds, d)
           IN  /\ es \in Seq(Doc) /\ Grown(ds, es) /\ TopRow(es)
               /\ row \in DOMAIN es /\ es[row] = d
<1> DEFINE es == UpsertWorkflowDefinition(ds, d)
           row == UpsertedRow(ds, d)
<1>0. /\ \A i \in DOMAIN ds : ds[i].ver \in Nat
      /\ d.ver \in Nat
    BY DocAssumption
<1>1. CASE backend = "postgres" /\ HasVersion(ds, d.ver)
  <2> DEFINE v == VersionRow(ds, d.ver)
  <2>1. v \in DOMAIN ds /\ ds[v].ver = d.ver
      BY <1>1 DEF HasVersion, VersionRow
  <2>2. es = [ds EXCEPT ![v] = d] /\ row = v
      BY <1>1 DEF UpsertWorkflowDefinition, PostgresUpsert, UpsertedRow
  <2> HIDE DEF es, row, v
  <2>3. es \in Seq(Doc) /\ DOMAIN es = DOMAIN ds /\ es[v] = d
      BY <2>1, <2>2
  <2>4. \A i \in DOMAIN ds : es[i].ver = ds[i].ver
      BY <2>1, <2>2
  <2>5. Grown(ds, es)
      BY <1>1, <2>3, <2>4 DEF Grown
  <2>6. TopRow(es)
    <3>1. ds # <<>>
        BY <2>1
    <3>2. PICK i \in DOMAIN ds : \A j \in DOMAIN ds : ds[j].ver <= ds[i].ver
        BY <3>1 DEF TopRow
    <3> QED BY <3>2, <2>3, <2>4 DEF TopRow
  <2> QED BY <2>1, <2>2, <2>3, <2>5, <2>6 DEF es, row
<1>2. CASE ~(backend = "postgres" /\ HasVersion(ds, d.ver))
  <2>1. es = Append(ds, d) /\ row = Len(ds) + 1
      BY <1>2 DEF UpsertWorkflowDefinition, PostgresUpsert, MemoryUpsert, RedisUpsert, UpsertedRow
  <2> HIDE DEF es, row
  <2>2. /\ es \in Seq(Doc) /\ DOMAIN es = 1 .. Len(ds) + 1 /\ Len(ds) \in Nat
        /\ es[Len(ds) + 1] = d /\ \A i \in DOMAIN ds : es[i] = ds[i]
        /\ DOMAIN ds = 1 .. Len(ds)
      BY <2>1
  <2>3. Grown(ds, es)
      BY <2>2 DEF Grown
  <2>4. TopRow(es)
    <3>1. CASE ds = <<>>
        BY <3>1, <2>2, <1>0 DEF TopRow
    <3>2. CASE ds # <<>>
      <4>1. PICK i \in DOMAIN ds : \A j \in DOMAIN ds : ds[j].ver <= ds[i].ver
          BY <3>2 DEF TopRow
      <4> DEFINE k == IF ds[i].ver <= d.ver THEN Len(ds) + 1 ELSE i
      <4>2. k \in DOMAIN es
          BY <2>2
      <4>3. ASSUME NEW j \in DOMAIN es PROVE es[j].ver <= es[k].ver
        <5>1. CASE j = Len(ds) + 1
            BY <5>1, <2>2, <1>0
        <5>2. CASE j \in DOMAIN ds
          <6>1. es[j].ver = ds[j].ver /\ ds[j].ver <= ds[i].ver /\ es[i].ver = ds[i].ver
              BY <5>2, <2>2, <4>1
          <6> QED BY <6>1, <5>2, <2>2, <1>0
        <5> QED BY <5>1, <5>2, <2>2
      <4> HIDE DEF k
      <4> QED BY <4>2, <4>3 DEF TopRow
    <3> QED BY <3>1, <3>2
  <2> QED BY <2>1, <2>2, <2>3, <2>4 DEF es, row
<1> QED BY <1>1, <1>2

\* What GetPublishedWorkflowByID returns is in the table.
LEMMA PublishedIsThere ==
    ASSUME NEW ds \in Seq(Doc), TopRow(ds), backend \in {"memory", "redis", "postgres"},
           GetPublishedWorkflowByID(ds) # Nil
    PROVE  /\ GetPublishedWorkflowByID(ds) \in Doc
           /\ HasVersion(ds, GetPublishedWorkflowByID(ds).ver)
<1> DEFINE d == GetPublishedWorkflowByID(ds)
           P == PublishedRows(ds)
<1>0. /\ DOMAIN ds = 1 .. Len(ds) /\ Len(ds) \in Nat
      /\ P \subseteq DOMAIN ds
      /\ \A i \in DOMAIN ds : ds[i] \in Doc /\ ds[i].ver \in Nat
    BY DocAssumption DEF PublishedRows
<1>1. ASSUME backend # "postgres" PROVE \E i \in DOMAIN ds : d = ds[i]
  <2> DEFINE S == IF P = {} THEN DOMAIN ds ELSE P
  <2>1. ds # <<>> /\ d = ds[Last(S)]
      BY <1>1 DEF GetPublishedWorkflowByID, MemoryPublished, RedisPublished
  <2>2. S \subseteq DOMAIN ds /\ S # {}
    <3>1. DOMAIN ds # {}
        BY <2>1, <1>0
    <3> QED BY <3>1, <1>0
  <2> HIDE DEF S, d, P
  <2>3. S \in SUBSET Nat /\ \A i \in S : i <= Len(ds)
      BY <2>2, <1>0
  <2>4. Last(S) \in S
      BY <2>2, <2>3, <1>0, HasLast
  <2> QED BY <2>1, <2>2, <2>4
<1>2. ASSUME backend = "postgres" PROVE \E i \in DOMAIN ds : d = ds[i]
  <2> DEFINE V == {ds[i].ver : i \in P}
  <2>1. P # {} /\ d = ds[VersionRow(ds, Last(V))]
      BY <1>2 DEF GetPublishedWorkflowByID, PostgresPublished
  <2> HIDE DEF d, P
  <2>2. V \in SUBSET Nat /\ V # {}
      BY <2>1, <1>0
  <2>3. ds # <<>>
      BY <2>1, <1>0
  <2>4. PICK t \in DOMAIN ds : \A j \in DOMAIN ds : ds[j].ver <= ds[t].ver
      BY <2>3 DEF TopRow
  <2>5. ds[t].ver \in Nat /\ \A v \in V : v <= ds[t].ver
      BY <2>4, <1>0
  <2>6. \A v \in V : \E i \in DOMAIN ds : ds[i].ver = v
      BY <1>0
  <2> HIDE DEF V
  <2>7. Last(V) \in V
      BY <2>2, <2>5, HasLast
  <2>8. VersionRow(ds, Last(V)) \in DOMAIN ds
      BY <2>6, <2>7 DEF VersionRow
  <2> QED BY <2>1, <2>8
<1>3. PICK i \in DOMAIN ds : d = ds[i]
    BY <1>1, <1>2
<1> HIDE DEF d
<1>4. d \in Doc /\ HasVersion(ds, d.ver)
    BY <1>3, <1>0 DEF HasVersion
<1> QED BY <1>4 DEF d

-----------------------------------------------------------------------------
(***************************************************************************)
(* A step of one starter is taken apart: what it leaves of the shared      *)
(* state, and how it moves the starter.                                    *)
(***************************************************************************)
\* The tables only grow, and what was recorded of a run stays.
Kept ==
    /\ backend' = backend
    /\ defs' \in Seq(Doc) /\ Grown(defs, defs') /\ TopRow(defs')
    /\ DOMAIN runs \subseteq DOMAIN runs'
    /\ \A i \in DOMAIN runs : /\ runs'[i].by = runs[i].by /\ runs'[i].trig = runs[i].trig
                              /\ runs'[i].row = runs[i].row /\ runs'[i].doc = runs[i].doc
    /\ advanced \subseteq advanced'

Only(s) ==
    /\ st' \in [Starter -> StarterType]
    /\ \A u \in Starter : u # s => st'[u] = st[u]

\* From p to q a starter drops its run only when it was advanced, or loudly.
Moves(p, q) ==
    /\ q.pc # "idle" /\ p.pc # "crashed"
    /\ p.pc # "idle" => q.kind = p.kind /\ q.todo \subseteq p.todo
    /\ q.pc \in PreRun /\ p.pc # "idle" =>
         q.trig \in p.todo \/ (p.pc \in PreRun /\ q.trig = p.trig)
    /\ p.err => q.err
    /\ \/ p.run = 0 \/ q.run = p.run \/ p.run \in advanced'
       \/ q.pc = "crashed" \/ q.err \/ q.kind = "spawn"

Rest ==
    /\ saves' \in 0 .. MaxSaves /\ trig' \in [Trigger -> {"absent", "live", "deleted"}]
    /\ runs' \in Seq(RunType) /\ faults' \in 0 .. MaxFaults
    /\ advanced' \subseteq DOMAIN runs'
    /\ fires' \subseteq [trig : Trigger, run : DOMAIN runs']

\* A version that was there is there.
LEMMA VersionsStay ==
    ASSUME NEW v, Grown(defs, defs'), HasVersion(defs, v)
    PROVE  HasVersion(defs', v)
BY DEF Grown, HasVersion

\* A step of somebody else leaves a starter where it was.
LEMMA OthersProgress ==
    ASSUME IInv, Kept, NEW u \in Starter, st'[u] = st[u]
    PROVE  Progress(u, st[u])' /\ st'[u].run \in 0 .. Len(runs')
<1> DEFINE q == st[u]
<1>1. Progress(u, q) /\ q \in StarterType /\ q.run \in 0 .. Len(runs)
    BY DEF IInv, TypeOK
<1>2. runs \in Seq(RunType)
    BY DEF IInv, TypeOK
<1>0. q' = q
    OBVIOUS
<1> HIDE DEF q
<1>3. q.pc = "spawn" => HasVersion(defs', q.doc.ver)
    BY <1>1, VersionsStay DEF Progress, Kept
<1>4. q.pc = "create" => Holds(q.row, q.doc)'
  <2> SUFFICES ASSUME q.pc = "create" PROVE Holds(q.row, q.doc)'
      OBVIOUS
  <2>1. Holds(q.row, q.doc)
      BY <1>1 DEF Progress
  <2> QED BY <2>1, <1>0 DEF Holds, Kept, Grown
<1>5. Progress(u, q)'
    BY <1>0, <1>1, <1>3, <1>4 DEF Progress, Kept, HasVersion
<1>6. Len(runs) \in Nat /\ Len(runs') \in Nat /\ Len(runs) <= Len(runs')
  <2>1. DOMAIN runs = 1 .. Len(runs) /\ DOMAIN runs' = 1 .. Len(runs') /\ Len(runs') \in Nat
      BY <1>2
  <2> QED BY <2>1, <1>2 DEF Kept
<1> QED BY <1>1, <1>5, <1>6 DEF q

\* A step of one starter keeps what is known of the runs that exist.
LEMMA OldRunsOK ==
    ASSUME IInv, Kept, NEW s \in Starter, Only(s), Moves(st[s], st'[s])
    PROVE  \A i \in DOMAIN runs : RunOK(i)'
<1> SUFFICES ASSUME NEW i \in DOMAIN runs PROVE RunOK(i)'
    OBVIOUS
<1> DEFINE r == runs[i]
           u == r.by
           p == st[u]
           q == st'[u]
<1>0. RunOK(i) /\ runs \in Seq(RunType)
    BY DEF IInv, TypeOK
<1>1. RunOK(i) /\ r \in RunType /\ u \in Starter
  <2>1. r \in RunType
      BY <1>0
  <2> QED BY <1>0, <2>1 DEF RunType
<1>2. /\ runs'[i].by = u /\ runs'[i].trig = r.trig
      /\ runs'[i].row = r.row /\ runs'[i].doc = r.doc
    BY DEF Kept
<1>3. /\ p.pc # "idle" /\ r.trig \notin p.todo
      /\ p.pc \in PreRun => r.trig # p.trig
      /\ r.row \in DOMAIN defs
      /\ backend = "postgres" => defs[r.row].ver = r.doc.ver
      /\ backend # "postgres" /\ p.kind \notin {"sub", "spawn"} => defs[r.row] = r.doc
      /\ i \in advanced \/ p.run = i \/ p.pc = "crashed" \/ p.err \/ p.kind = "spawn"
    BY <1>1 DEF RunOK, Spawned
<1>4. /\ r.row \in DOMAIN defs' /\ backend' = backend
      /\ defs'[r.row].ver = defs[r.row].ver
      /\ backend # "postgres" => defs'[r.row] = defs[r.row]
      /\ i \in advanced => i \in advanced'
    BY <1>3 DEF Kept, Grown
<1>5. /\ q.pc # "idle" /\ q.kind = p.kind /\ r.trig \notin q.todo
      /\ q.pc \in PreRun => r.trig # q.trig
      /\ i \in advanced' \/ q.run = i \/ q.pc = "crashed" \/ q.err \/ q.kind = "spawn"
  <2>1. CASE u = s
    <3>1. i # 0
        BY DEF IInv, TypeOK
    <3> HIDE DEF p, q, r
    <3>2. Moves(p, q)
        BY <2>1 DEF p, q
    <3> QED BY <1>3, <1>4, <3>1, <3>2 DEF Moves
  <2>2. CASE u # s
      BY <1>1, <1>3, <1>4, <2>2 DEF Only
  <2> QED BY <2>1, <2>2
<1> HIDE DEF p, q, r
<1>6. /\ r.trig \notin st'[u].todo /\ st'[u].pc # "idle"
      /\ st'[u].pc \in PreRun => r.trig # st'[u].trig
      /\ backend' # "postgres" /\ st'[u].kind \notin {"sub", "spawn"} => defs'[r.row] = r.doc
      /\ \/ i \in advanced' \/ st'[u].run = i \/ st'[u].pc = "crashed"
         \/ st'[u].err \/ st'[u].kind = "spawn"
    BY <1>3, <1>4, <1>5 DEF q
<1> QED BY <1>2, <1>3, <1>4, <1>6 DEF RunOK, Spawned

\* What is left to show of a step of s: its own progress, the runs it creates, the
\* fires it records.
LEMMA StarterMoved ==
    ASSUME IInv, Kept, Rest, NEW s \in Starter, Only(s), Moves(st[s], st'[s]),
           Progress(s, st[s])', st'[s].run \in 0 .. Len(runs'),
           \A i \in DOMAIN runs' \ DOMAIN runs : RunOK(i)',
           FiresOK', OneRunEach'
    PROVE  IInv'
<1>1. \A u \in Starter : Progress(u, st[u])' /\ st'[u].run \in 0 .. Len(runs')
    BY OthersProgress DEF Only
<1>2. \A i \in DOMAIN runs' : RunOK(i)'
    BY OldRunsOK
<1>3. TypeOK'
    BY <1>1 DEF IInv, TypeOK, Kept, Rest, Only
<1> QED BY <1>1, <1>2, <1>3 DEF IInv, Kept

\* A step that creates no run and records no fire.
LEMMA NothingNew ==
    ASSUME IInv, Kept, Rest, NEW s \in Starter, Only(s), Moves(st[s], st'[s]),
           Progress(s, st[s])', DOMAIN runs' = DOMAIN runs, fires' = fires
    PROVE  IInv'
<1>1. FiresOK' /\ OneRunEach'
  <2>1. FiresOK /\ OneRunEach /\ fires \subseteq [trig : Trigger, run : DOMAIN runs]
      BY DEF IInv, TypeOK
  <2>2. \A f \in fires : f.run \in DOMAIN runs
      BY <2>1
  <2> QED BY <2>1, <2>2 DEF FiresOK, OneRunEach, Kept
<1>2. st'[s].run \in 0 .. Len(runs')
  <2>1. runs' \in Seq(RunType) /\ st'[s] \in StarterType
      BY DEF Rest, Only
  <2>2. st'[s].run = 0 \/ st'[s].run \in DOMAIN runs'
      BY DEF Progress
  <2> QED BY <2>1, <2>2
<1>3. \A i \in DOMAIN runs' \ DOMAIN runs : RunOK(i)'
    OBVIOUS
<1> QED BY <1>1, <1>2, <1>3, StarterMoved

-----------------------------------------------------------------------------
(***************************************************************************)
(* The steps, one by one.                                                  *)
(***************************************************************************)
\* A step that touches no table but, perhaps, the count of faults.
LEMMA TablesKept ==
    ASSUME IInv, UNCHANGED <<backend, defs, runs, advanced>>
    PROVE  Kept
BY DEF IInv, TypeOK, Kept, Grown

\* The counters and sets that a step does not touch keep their types.
LEMMA RestKept ==
    ASSUME IInv, UNCHANGED <<saves, trig, runs, advanced, fires>>, Fault \/ faults' = faults
    PROVE  Rest
BY BoundsAssumption DEF IInv, TypeOK, Rest, Fault

\* Assigning st[s] leaves the others alone.
LEMMA OnlyAt ==
    ASSUME IInv, NEW s \in Starter, NEW x \in StarterType, st' = [st EXCEPT ![s] = x]
    PROVE  Only(s) /\ st'[s] = x
BY DEF IInv, TypeOK, Only

LEMMA OneOf ==
    ASSUME IInv, NEW s \in Starter
    PROVE  st[s] \in StarterType /\ Progress(s, st[s]) /\ DOMAIN st = Starter
BY DEF IInv, TypeOK

\* What is left of a starter that has dropped its trigger.
LEMMA Clears ==
    ASSUME NEW s, st[s] \in StarterType
    PROVE  /\ Cleared(s) \in StarterType /\ Cleared(s).kind = st[s].kind
           /\ Cleared(s).todo = st[s].todo /\ Cleared(s).run = 0 /\ Cleared(s).err = st[s].err
<1> DEFINE p == st[s]
<1>1. Cleared(s) = [p EXCEPT !.entry = Nil, !.trig = Nil, !.doc = Nil, !.step = Nil, !.row = 0,
                             !.run = 0]
    BY DEF Cleared
<1> HIDE DEF p
<1>2. p \in StarterType
    BY DEF p
<1>3. Nil \in Targets
    BY Zenon DEF Targets
<1>6. 0 \in Nat
    OBVIOUS
<1>7. Nil \in Entry \cup {Config[t].entry : t \in Trigger} \cup {Nil}
    BY Zenon
<1>4. Cleared(s) \in StarterType
    BY <1>1, <1>2, <1>3, <1>6, <1>7, Zenon DEF StarterType
<1>5. /\ Cleared(s).kind = p.kind /\ Cleared(s).todo = p.todo
      /\ Cleared(s).run = 0 /\ Cleared(s).err = p.err
    BY <1>1, <1>2, Zenon DEF StarterType
<1> QED BY <1>4, <1>5 DEF p

\* Where a starter goes when it leaves its trigger, with or without an error.
LEMMA Leaves ==
    ASSUME NEW s, st[s] \in StarterType, NEW x, x \in {Leave(s), Report(s)}
    PROVE  /\ x \in StarterType /\ x.kind = st[s].kind /\ x.todo = st[s].todo /\ x.run = 0
           /\ x.pc = (IF st[s].kind = "trigger" THEN "next" ELSE "done")
           /\ st[s].err => x.err
           /\ x = Report(s) => x.err
<1> DEFINE c == Cleared(s)
           v == IF st[s].kind = "trigger" THEN "next" ELSE "done"
           y == Leave(s)
           z == Report(s)
<1>1. /\ c \in StarterType /\ c.kind = st[s].kind /\ c.todo = st[s].todo
      /\ c.run = 0 /\ c.err = st[s].err
    BY Clears
<1>2. y = [c EXCEPT !.pc = v] /\ v \in {"next", "done"}
    BY DEF Leave
<1>3. z = [y EXCEPT !.err = TRUE]
    BY DEF Report
<1> HIDE DEF c, v, y, z
<1>4. y \in StarterType
    BY <1>1, <1>2 DEF StarterType
<1>5. y.pc = v /\ y.kind = c.kind /\ y.todo = c.todo /\ y.run = c.run /\ y.err = c.err
    BY <1>1, <1>2, Zenon DEF StarterType
<1>6. z \in StarterType
    BY <1>3, <1>4 DEF StarterType
<1>7. z.pc = y.pc /\ z.kind = y.kind /\ z.todo = y.todo /\ z.run = y.run /\ z.err = TRUE
    BY <1>3, <1>4, Zenon DEF StarterType
<1>8. x = y \/ x = z
    BY DEF y, z
<1>9. CASE x = z
    BY <1>1, <1>5, <1>6, <1>7, <1>9 DEF v
<1>10. CASE x = y /\ y # z
    BY <1>1, <1>4, <1>5, <1>10 DEF v, z
<1> QED BY <1>8, <1>9, <1>10

\* A starter that leaves a trigger without a run in hand, with a run that is advanced,
\* or with an error.
LEMMA LeavesOK ==
    ASSUME IInv, NEW s \in Starter, NEW x, x \in {Leave(s), Report(s)},
           st' = [st EXCEPT ![s] = x], st[s].pc \notin {"idle", "crashed"},
           \/ st[s].run = 0 \/ st[s].run \in advanced' \/ x = Report(s) \/ st[s].kind = "spawn"
    PROVE  Only(s) /\ Moves(st[s], st'[s]) /\ Progress(s, st[s])'
<1>1. st[s] \in StarterType /\ Progress(s, st[s])
    BY OneOf
<1>2. /\ x \in StarterType /\ x.kind = st[s].kind /\ x.todo = st[s].todo /\ x.run = 0
      /\ x.pc = (IF st[s].kind = "trigger" THEN "next" ELSE "done")
      /\ st[s].err => x.err
      /\ x = Report(s) => x.err
    BY <1>1, Leaves
<1>3. Only(s) /\ st'[s] = x
    BY <1>2, OnlyAt
<1>4. Moves(st[s], x)
    BY <1>1, <1>2 DEF Moves, PreRun
<1>5. Progress(s, st[s])'
  <2>1. x.pc \in {"next", "done"} /\ (x.kind # "trigger" => x.todo = {})
      BY <1>1, <1>2 DEF Progress
  <2>2. x.pc = "next" => x.kind = "trigger"
      BY <1>2
  <2>3. x.pc = "done" => x.todo = {}
      BY <1>2, <2>1
  <2> QED BY <1>2, <1>3, <2>1, <2>2, <2>3 DEF Progress, PreRun, HasRun
<1> QED BY <1>3, <1>4, <1>5

\* A step of no starter: a definition is saved, a trigger created or deleted.
LEMMA NobodyMoves ==
    ASSUME IInv, Kept, Rest, UNCHANGED <<st, runs, advanced, fires>>
    PROVE  IInv'
<1>1. \A u \in Starter : Progress(u, st[u])' /\ st'[u].run \in 0 .. Len(runs')
    BY OthersProgress
<1>2. ASSUME NEW i \in DOMAIN runs' PROVE RunOK(i)'
  <2>1. RunOK(i) /\ runs'[i] = runs[i]
      BY <1>2 DEF IInv
  <2> QED BY <2>1 DEF RunOK, Spawned, Kept, Grown
<1>3. TypeOK'
    BY <1>1 DEF IInv, TypeOK, Kept, Rest
<1>4. FiresOK' /\ OneRunEach'
    BY DEF IInv, FiresOK, OneRunEach
<1> QED BY <1>1, <1>2, <1>3, <1>4 DEF IInv, Kept

LEMMA StorePreserves ==
    ASSUME IInv, NEW d \in Doc, Store(d)
    PROVE  IInv'
<1>1. defs' = UpsertWorkflowDefinition(defs, d) /\ backend' = backend
    BY DEF Store
<1>2. defs \in Seq(Doc) /\ TopRow(defs) /\ backend \in {"memory", "redis", "postgres"}
    BY DEF IInv, TypeOK
<1>3. defs' \in Seq(Doc) /\ Grown(defs, defs') /\ TopRow(defs')
    BY <1>1, <1>2, Upserts
<1>4. Kept
    BY <1>1, <1>3 DEF Store, Kept
<1>5. saves' \in 0 .. MaxSaves
    BY BoundsAssumption DEF Store, IInv, TypeOK
<1>6. Rest
    BY <1>5 DEF Store, IInv, TypeOK, Rest
<1> QED BY <1>4, <1>6, NobodyMoves DEF Store

LEMMA TriggersPreserve ==
    ASSUME IInv, NEW t \in Trigger, CreateTrigger(t) \/ DeleteTrigger(t)
    PROVE  IInv'
<1>1. UNCHANGED <<backend, defs, saves, st, runs, advanced, fires, faults>>
    BY DEF CreateTrigger, DeleteTrigger
<1>2. trig' \in [Trigger -> {"absent", "live", "deleted"}]
    BY DEF CreateTrigger, DeleteTrigger, IInv, TypeOK
<1>3. Rest
    BY <1>1, <1>2 DEF Rest, IInv, TypeOK
<1>4. Kept
    BY <1>1, TablesKept
<1> QED BY <1>1, <1>3, <1>4, NobodyMoves

LEMMA BeginPreserves ==
    ASSUME IInv, NEW s \in Starter, NEW k \in Kind, NEW e \in Entry \cup {Nil}, Begin(s, k, e)
    PROVE  IInv'
<1> DEFINE p == st[s]
           x == [p EXCEPT !.pc = "resolve", !.kind = k, !.entry = e]
<1>1. p \in StarterType /\ Progress(s, p) /\ DOMAIN st = Starter
    BY OneOf
<1>2. p.pc = "idle" /\ k # "trigger"
    BY DEF Begin
<1>3. st' = [st EXCEPT ![s] = x]
    BY Zenon DEF Begin
<1>4. UNCHANGED <<backend, defs, saves, trig, runs, advanced, fires, faults>>
    BY DEF Begin
<1>5. e \in Entry \cup {Config[t].entry : t \in Trigger} \cup {Nil} /\ k \in Kind \cup {Nil}
    BY Zenon
<1> HIDE DEF p
<1>6. x \in StarterType
    BY <1>1, <1>5, Zenon DEF StarterType
<1>7. /\ x.pc = "resolve" /\ x.kind = k /\ x.todo = p.todo /\ x.trig = p.trig /\ x.run = p.run
      /\ x.err = p.err
    BY <1>1, Zenon DEF StarterType
<1> HIDE DEF x
<1>8. Only(s) /\ st'[s] = x
    BY <1>3, <1>6, OnlyAt
<1>10. p.todo = {} /\ p.run = 0
    BY <1>1, <1>2 DEF Progress, HasRun
<1>11. Moves(p, x)
    BY <1>2, <1>7, <1>10 DEF Moves
<1>12. Progress(s, st[s])'
    BY <1>2, <1>7, <1>8, <1>10 DEF Progress, PreRun, HasRun
<1>13. Kept /\ Rest
    BY <1>4, TablesKept, RestKept
<1> QED BY <1>4, <1>8, <1>11, <1>12, <1>13, NothingNew DEF p

LEMMA ReceivePreserves ==
    ASSUME IInv, NEW s \in Starter, NEW ev \in Event, Receive(s, ev)
    PROVE  IInv'
<1> DEFINE p == st[s]
           T == {t \in ListTriggers : Matches(t, ev)}
           a == [p EXCEPT !.pc = "done", !.kind = "trigger"]
           b == [p EXCEPT !.pc = "done", !.kind = "trigger", !.err = TRUE]
           c == [p EXCEPT !.pc = "next", !.kind = "trigger", !.todo = T]
<1>1. p \in StarterType /\ Progress(s, p) /\ DOMAIN st = Starter
    BY OneOf
<1>2. p.pc = "idle" /\ T \in SUBSET Trigger
    BY DEF Receive, ListTriggers
<1>3. PICK x \in {a, b, c} : st' = [st EXCEPT ![s] = x]
    BY Zenon DEF Receive
<1>4. UNCHANGED <<backend, defs, saves, trig, runs, advanced, fires>> /\ (Fault \/ faults' = faults)
    BY DEF Receive
<1>5. p.todo = {} /\ p.run = 0
    BY <1>1, <1>2 DEF Progress, HasRun
<1>6. "trigger" \in Kind \cup {Nil}
    BY DEF Kind
<1> HIDE DEF p, T
<1>7. /\ x \in StarterType /\ x.pc \in {"done", "next"} /\ x.kind = "trigger" /\ x.run = p.run
      /\ p.err => x.err
      /\ x.pc = "done" => x.todo = p.todo
  <2>1. /\ a \in StarterType /\ a.pc = "done" /\ a.kind = "trigger" /\ a.run = p.run
        /\ a.err = p.err /\ a.todo = p.todo
      BY <1>1, <1>6, Zenon DEF StarterType
  <2>2. /\ b \in StarterType /\ b.pc = "done" /\ b.kind = "trigger" /\ b.run = p.run
        /\ b.err /\ b.todo = p.todo
      BY <1>1, <1>6, Zenon DEF StarterType
  <2>3. /\ c \in StarterType /\ c.pc = "next" /\ c.kind = "trigger" /\ c.run = p.run
        /\ c.err = p.err
      BY <1>1, <1>2, <1>6, Zenon DEF StarterType
  <2> HIDE DEF a, b, c
  <2> QED BY <2>1, <2>2, <2>3
<1> HIDE DEF a, b, c
<1>8. Only(s) /\ st'[s] = x
    BY <1>3, <1>7, OnlyAt
<1>9. Moves(p, x)
    BY <1>2, <1>5, <1>7 DEF Moves
<1>10. Progress(s, st[s])'
    BY <1>5, <1>7, <1>8 DEF Progress, PreRun, HasRun
<1>11. Kept /\ Rest
    BY <1>4, TablesKept, RestKept
<1> QED BY <1>4, <1>8, <1>9, <1>10, <1>11, NothingNew DEF p

LEMMA NextTriggerPreserves ==
    ASSUME IInv, NEW s \in Starter, NextTrigger(s)
    PROVE  IInv'
<1> DEFINE p == st[s]
           a == [p EXCEPT !.pc = "done"]
           b(t) == [p EXCEPT !.pc = "resolve", !.todo = p.todo \ {t}, !.trig = t,
                             !.entry = Config[t].entry]
<1>1. p \in StarterType /\ Progress(s, p) /\ DOMAIN st = Starter
    BY OneOf
<1>2. p.pc = "next"
    BY DEF NextTrigger
<1>3. UNCHANGED <<backend, defs, saves, trig, runs, advanced, fires, faults>>
    BY DEF NextTrigger
<1>4. p.kind = "trigger" /\ p.run = 0 /\ p.todo \in SUBSET Trigger
  <2>1. p.todo \in SUBSET Trigger
      BY <1>1, Zenon DEF StarterType
  <2> QED BY <1>1, <1>2, <2>1 DEF Progress, HasRun
<1>5. Kept /\ Rest
    BY <1>3, TablesKept, RestKept
<1>6. CASE p.todo = {} /\ st' = [st EXCEPT ![s] = a]
  <2> HIDE DEF p
  <2>1. a \in StarterType /\ a.pc = "done" /\ a.todo = p.todo /\ a.run = p.run /\ a.err = p.err
        /\ a.kind = p.kind
      BY <1>1, Zenon DEF StarterType
  <2> HIDE DEF a
  <2>2. Only(s) /\ st'[s] = a
      BY <1>6, <2>1, OnlyAt
  <2>3. Moves(p, a)
      BY <1>2, <1>4, <2>1 DEF Moves, PreRun
  <2>4. Progress(s, st[s])'
      BY <1>4, <1>6, <2>1, <2>2 DEF Progress, PreRun, HasRun
  <2> QED BY <1>3, <1>5, <2>2, <2>3, <2>4, NothingNew DEF p
<1>7. ASSUME NEW t \in p.todo, st' = [st EXCEPT ![s] = b(t)] PROVE IInv'
  <2> HIDE DEF p
  <2>1. /\ t \in Trigger \cup {Nil} /\ p.todo \ {t} \in SUBSET Trigger
        /\ Config[t].entry \in Entry \cup {Config[u].entry : u \in Trigger} \cup {Nil}
    <3>1. t \in Trigger
        BY <1>4
    <3> QED BY <1>4, <3>1, Zenon
  <2> DEFINE x == b(t)
  <2>2. x \in StarterType
      BY <1>1, <2>1, Zenon DEF StarterType
  <2>3. /\ x.pc = "resolve" /\ x.todo = p.todo \ {t} /\ x.trig = t /\ x.run = p.run
        /\ x.err = p.err /\ x.kind = p.kind
      BY <1>1, Zenon DEF StarterType
  <2>4. st' = [st EXCEPT ![s] = x]
      BY <1>7
  <2> HIDE DEF x
  <2>5. Only(s) /\ st'[s] = x
      BY <2>2, <2>4, OnlyAt
  <2>6. Moves(p, x)
      BY <1>2, <1>4, <2>3 DEF Moves, PreRun
  <2>7. Progress(s, st[s])'
      BY <1>4, <2>3, <2>5 DEF Progress, PreRun, HasRun
  <2> QED BY <1>3, <1>5, <2>5, <2>6, <2>7, NothingNew DEF p
<1>8. \/ p.todo = {} /\ st' = [st EXCEPT ![s] = a]
      \/ \E t \in p.todo : st' = [st EXCEPT ![s] = b(t)]
    BY Zenon DEF NextTrigger
<1> QED BY <1>6, <1>7, <1>8

LEMMA ResolvePreserves ==
    ASSUME IInv, NEW s \in Starter, Resolve(s)
    PROVE  IInv'
<1> DEFINE p == st[s]
           d == GetPublishedWorkflowByID(defs)
           v == IF p.kind \in {"sub", "spawn"} THEN "spawn" ELSE "upsert"
           e == IF p.kind = "api" THEN Nil ELSE ResolveEntry(d, p.entry)
           x == [p EXCEPT !.pc = v, !.doc = d, !.step = e]
<1>1. p \in StarterType /\ Progress(s, p) /\ DOMAIN st = Starter
    BY OneOf
<1>2. p.pc = "resolve"
    BY DEF Resolve
<1>3. UNCHANGED <<backend, defs, saves, trig, runs, advanced, fires>> /\ (Fault \/ faults' = faults)
    BY DEF Resolve
<1>4. Kept /\ Rest
    BY <1>3, TablesKept, RestKept
<1>5. p.run = 0
    BY <1>1, <1>2 DEF Progress, HasRun
<1>6. CASE st' = [st EXCEPT ![s] = Unresolved(s)]
  <2>1. Unresolved(s) \in {Leave(s), Report(s)}
      BY DEF Unresolved
  <2>2. Only(s) /\ Moves(st[s], st'[s]) /\ Progress(s, st[s])'
      BY <1>2, <1>5, <1>6, <2>1, LeavesOK
  <2> QED BY <1>3, <1>4, <2>2, NothingNew
<1>7. CASE Resolvable(s, d) /\ st' = [st EXCEPT ![s] = x]
  <2>1. defs \in Seq(Doc) /\ TopRow(defs) /\ backend \in {"memory", "redis", "postgres"}
      BY DEF IInv, TypeOK
  <2>2. d # Nil /\ (p.kind = "api" \/ CanResolveEntry(d, p.entry))
      BY <1>7 DEF Resolvable
  <2>3. d \in Doc /\ HasVersion(defs, d.ver)
      BY <2>1, <2>2, PublishedIsThere
  <2> HIDE DEF d, p
  <2>4. e \in Targets
    <3>1. CASE p.kind = "api"
        BY <3>1, Zenon DEF Targets
    <3>2. CASE p.kind # "api"
      <4>1. e \in Target(d)
          BY <3>2, <2>2 DEF ResolveEntry, CanResolveEntry, Target
      <4> QED BY <4>1, <2>3, Zenon DEF Targets
    <3> QED BY <3>1, <3>2
  <2>5. v \in {"spawn", "upsert"} /\ (v = "spawn" => p.kind \in {"sub", "spawn"})
      OBVIOUS
  <2> HIDE DEF e, v
  <2>6. x \in StarterType
      BY <1>1, <2>3, <2>4, <2>5, Zenon DEF StarterType
  <2>7. /\ x.pc = v /\ x.doc = d /\ x.kind = p.kind /\ x.todo = p.todo /\ x.trig = p.trig
        /\ x.run = p.run /\ x.err = p.err
      BY <1>1, Zenon DEF StarterType
  <2> HIDE DEF x
  <2>8. Only(s) /\ st'[s] = x
      BY <1>7, <2>6, OnlyAt
  <2>9. Moves(p, x)
      BY <1>2, <1>5, <2>5, <2>7 DEF Moves, PreRun
  <2>10. HasVersion(defs', x.doc.ver)
      BY <1>3, <2>3, <2>7
  <2>11. Progress(s, st[s])'
      BY <1>1, <1>2, <1>5, <2>3, <2>5, <2>7, <2>8, <2>10 DEF Progress, PreRun, HasRun, HasVersion
  <2> QED BY <1>3, <1>4, <2>8, <2>9, <2>11, NothingNew DEF p
<1>8. \/ st' = [st EXCEPT ![s] = Unresolved(s)]
      \/ Resolvable(s, d) /\ st' = [st EXCEPT ![s] = x]
    BY Zenon DEF Resolve
<1> QED BY <1>6, <1>7, <1>8

LEMMA UpsertPreserves ==
    ASSUME IInv, NEW s \in Starter, Upsert(s)
    PROVE  IInv'
<1> DEFINE p == st[s]
           r == UpsertedRow(defs, p.doc)
           x == [p EXCEPT !.pc = "create", !.row = r]
<1>1. p \in StarterType /\ Progress(s, p) /\ DOMAIN st = Starter
    BY OneOf
<1>2. p.pc = "upsert" /\ UNCHANGED <<backend, saves, trig, runs, advanced, fires>>
    BY DEF Upsert
<1>3. p.run = 0 /\ p.doc \in Doc
    BY <1>1, <1>2 DEF Progress, HasRun
<1>4. CASE Fault /\ st' = [st EXCEPT ![s] = Report(s)] /\ defs' = defs
  <2>1. Kept /\ Rest
      BY <1>2, <1>4, TablesKept, RestKept
  <2>2. Only(s) /\ Moves(st[s], st'[s]) /\ Progress(s, st[s])'
      BY <1>2, <1>3, <1>4, LeavesOK
  <2> QED BY <1>2, <2>1, <2>2, NothingNew
<1>5. CASE defs' = UpsertWorkflowDefinition(defs, p.doc) /\ st' = [st EXCEPT ![s] = x]
           /\ faults' = faults
  <2>1. defs \in Seq(Doc) /\ TopRow(defs) /\ backend \in {"memory", "redis", "postgres"}
      BY DEF IInv, TypeOK
  <2>2. /\ defs' \in Seq(Doc) /\ Grown(defs, defs') /\ TopRow(defs')
        /\ r \in DOMAIN defs' /\ defs'[r] = p.doc
      BY <1>3, <1>5, <2>1, Upserts
  <2> HIDE DEF p, r
  <2>3. r \in Nat
      BY <2>2
  <2>4. x \in StarterType
      BY <1>1, <2>3, Zenon DEF StarterType
  <2>5. /\ x.pc = "create" /\ x.row = r /\ x.doc = p.doc /\ x.kind = p.kind /\ x.todo = p.todo
        /\ x.trig = p.trig /\ x.run = p.run /\ x.err = p.err
      BY <1>1, Zenon DEF StarterType
  <2> HIDE DEF x
  <2>6. Only(s) /\ st'[s] = x
      BY <1>5, <2>4, OnlyAt
  <2>7. Moves(p, x)
      BY <1>2, <1>3, <2>5 DEF Moves, PreRun
  <2>8. Kept
      BY <1>2, <2>2 DEF Kept
  <2>9. Rest
      BY <1>2, <1>5, RestKept
  <2>10. Holds(st[s].row, st[s].doc)'
      BY <2>2, <2>5, <2>6 DEF Holds
  <2>11. Progress(s, st[s])'
      BY <1>1, <1>2, <1>3, <2>5, <2>6, <2>10 DEF Progress, PreRun, HasRun
  <2> QED BY <1>2, <2>6, <2>7, <2>8, <2>9, <2>11, NothingNew DEF p
<1>6. \/ Fault /\ st' = [st EXCEPT ![s] = Report(s)] /\ defs' = defs
      \/ defs' = UpsertWorkflowDefinition(defs, p.doc) /\ st' = [st EXCEPT ![s] = x] /\ faults' = faults
    BY Zenon DEF Upsert
<1> QED BY <1>4, <1>5, <1>6

\* A run is created: the starter had not started one for its trigger, and the row
\* it is given holds the definition that was resolved.
LEMMA RunCreated ==
    ASSUME IInv, NEW s \in Starter, NEW row, NEW v \in {"inject", "publish"},
           st[s].pc \in {"create", "spawn"}, row \in DOMAIN defs,
           backend = "postgres" => defs[row].ver = st[s].doc.ver,
           backend # "postgres" /\ st[s].kind \notin {"sub", "spawn"} => defs[row] = st[s].doc,
           runs' = Append(runs, NewRun(s, row)),
           st' = [st EXCEPT ![s].pc = v, ![s].run = Len(runs) + 1],
           UNCHANGED <<backend, defs, saves, trig, advanced, fires, faults>>
    PROVE  IInv'
<1> DEFINE p == st[s]
           r == NewRun(s, row)
<1>0. PICK n : n = Len(runs) + 1
    OBVIOUS
<1> DEFINE x == [p EXCEPT !.pc = v, !.run = n]
<1>1. p \in StarterType /\ Progress(s, p) /\ DOMAIN st = Starter
    BY OneOf
<1>2. /\ p.run = 0 /\ p.doc \in Doc /\ p.trig \notin p.todo
      /\ p.kind = "trigger" => p.trig \in Trigger
      /\ p.kind # "trigger" => p.todo = {}
    BY <1>1 DEF Progress, PreRun, HasRun
<1>3. /\ runs \in Seq(RunType) /\ defs \in Seq(Doc) /\ TopRow(defs) /\ advanced \subseteq DOMAIN runs
      /\ fires \subseteq [trig : Trigger, run : DOMAIN runs]
    BY DEF IInv, TypeOK
<1>4. st' = [st EXCEPT ![s] = x]
    BY <1>0, Zenon
<1>5. p.step \in Targets /\ p.trig \in Trigger \cup {Nil} /\ row \in Nat \ {0}
  <2>1. row \in Nat \ {0}
      BY <1>3
  <2> QED BY <1>1, <2>1, Zenon DEF StarterType
<1> HIDE DEF p
<1>6. /\ r \in RunType /\ r.by = s /\ r.trig = p.trig /\ r.row = row /\ r.doc = p.doc
    BY <1>2, <1>5 DEF NewRun, RunType, p
<1> HIDE DEF r
<1>7. /\ runs' \in Seq(RunType) /\ n \in Nat /\ n # 0 /\ DOMAIN runs' = DOMAIN runs \cup {n}
      /\ runs'[n] = r /\ n \notin DOMAIN runs /\ n = Len(runs')
      /\ \A i \in DOMAIN runs : runs'[i] = runs[i]
  <2>1. runs' = Append(runs, r)
      BY DEF r
  <2> QED BY <1>0, <1>3, <1>6, <2>1
<1>8. x \in StarterType
    BY <1>1, <1>7, Zenon DEF StarterType
<1>9. /\ x.pc = v /\ x.run = n /\ x.kind = p.kind /\ x.todo = p.todo /\ x.trig = p.trig
      /\ x.err = p.err
    BY <1>1, Zenon DEF StarterType
<1> HIDE DEF x
<1>10. Only(s) /\ st'[s] = x
    BY <1>4, <1>8, OnlyAt
<1>11. Moves(p, x)
    BY <1>2, <1>9 DEF Moves, PreRun, p
<1>12. Kept
    BY <1>3, <1>7 DEF Kept, Grown
<1>13. Rest
    BY <1>3, <1>7 DEF Rest, IInv, TypeOK
<1>14. Progress(s, st[s])'
  <2>1. /\ x.pc \in HasRun /\ x.pc # "record" /\ x.pc \notin PreRun \cup {"next", "idle", "done"}
        /\ n \in DOMAIN runs' /\ runs'[n].by = s /\ runs'[n].trig = p.trig
      BY <1>6, <1>7, <1>9 DEF HasRun, PreRun
  <2>2. x.pc \notin {"upsert", "create", "spawn"}
      BY <2>1 DEF PreRun
  <2> QED BY <1>2, <1>9, <1>10, <2>1, <2>2 DEF Progress
<1>15. RunOK(n)'
  <2>1. /\ runs'[n].by = s /\ runs'[n].trig = p.trig /\ runs'[n].row = row
        /\ runs'[n].doc = p.doc
      BY <1>6, <1>7
  <2>2. /\ x.pc \notin PreRun \cup {"idle"} /\ p.trig \notin x.todo /\ x.run = n
      BY <1>2, <1>9 DEF PreRun
  <2>3. /\ row \in DOMAIN defs' /\ (backend' = "postgres" => defs'[row].ver = p.doc.ver)
        /\ backend' # "postgres" /\ x.kind \notin {"sub", "spawn"} => defs'[row] = p.doc
      BY <1>9 DEF p
  <2> QED BY <1>10, <2>1, <2>2, <2>3 DEF RunOK, Spawned
<1>16. FiresOK'
    BY <1>3, <1>7 DEF FiresOK, IInv
<1>17. \A i \in DOMAIN runs : ~(runs[i].by = s /\ runs[i].trig = p.trig)
    BY DEF IInv, RunOK, PreRun, p
<1>18. OneRunEach'
    BY <1>6, <1>7, <1>17 DEF OneRunEach, IInv
<1>19. st'[s].run \in 0 .. Len(runs')
    BY <1>7, <1>9, <1>10
<1>20. \A i \in DOMAIN runs' \ DOMAIN runs : RunOK(i)'
    BY <1>7, <1>15
<1>21. Moves(st[s], st'[s])
    BY <1>10, <1>11 DEF p
<1> QED BY <1>10, <1>12, <1>13, <1>14, <1>16, <1>18, <1>19, <1>20, <1>21, StarterMoved

LEMMA CreatePreserves ==
    ASSUME IInv, NEW s \in Starter, CreateRun(s) \/ SpawnChildRunAt(s)
    PROVE  IInv'
<1> DEFINE p == st[s]
<1>1. p \in StarterType /\ Progress(s, p)
    BY OneOf
<1>2. p.pc \in {"create", "spawn"} /\ UNCHANGED <<backend, defs, saves, trig, advanced, fires>>
    BY DEF CreateRun, SpawnChildRunAt
<1>3. p.run = 0
    BY <1>1, <1>2 DEF Progress, HasRun
<1>4. CASE Fault /\ st' = [st EXCEPT ![s] = Report(s)] /\ runs' = runs
  <2>1. Kept /\ Rest
      BY <1>2, <1>4, TablesKept, RestKept
  <2>2. Only(s) /\ Moves(st[s], st'[s]) /\ Progress(s, st[s])'
      BY <1>2, <1>3, <1>4, LeavesOK
  <2> QED BY <1>2, <1>4, <2>1, <2>2, NothingNew
<1>5. CASE /\ p.pc = "create" /\ runs' = Append(runs, NewRun(s, p.row)) /\ faults' = faults
           /\ st' = [st EXCEPT ![s].pc = "inject", ![s].run = Len(runs) + 1]
  <2>1. Holds(p.row, p.doc)
      BY <1>1, <1>5 DEF Progress
  <2> QED BY <1>2, <1>5, <2>1, RunCreated DEF Holds
<1>6. CASE /\ p.pc = "spawn" /\ runs' = Append(runs, NewRun(s, SpawnRow(defs, p.doc)))
           /\ faults' = faults
           /\ st' = [st EXCEPT ![s].pc = "publish", ![s].run = Len(runs) + 1]
  <2>1. HasVersion(defs, p.doc.ver) /\ p.kind \in {"sub", "spawn"}
      BY <1>1, <1>6 DEF Progress
  <2>2. defs \in Seq(Doc) /\ backend \in {"memory", "redis", "postgres"}
      BY DEF IInv, TypeOK
  <2> DEFINE row == SpawnRow(defs, p.doc)
  <2>3. /\ row \in DOMAIN defs
        /\ backend = "postgres" => defs[row].ver = p.doc.ver
    <3>1. CASE backend = "postgres"
        BY <2>1, <3>1 DEF SpawnRow, PostgresSpawnRow, VersionRow, HasVersion
    <3>2. CASE backend # "postgres"
      <4>1. row = Len(defs)
          BY <2>2, <3>2 DEF SpawnRow, MemorySpawnRow, RedisSpawnRow
      <4>2. DOMAIN defs # {}
          BY <2>1 DEF HasVersion
      <4> QED BY <2>2, <3>2, <4>1, <4>2
    <3> QED BY <3>1, <3>2
  <2> HIDE DEF row
  <2>4. runs' = Append(runs, NewRun(s, row))
      BY <1>6 DEF row
  <2> QED BY <1>2, <1>6, <2>1, <2>3, <2>4, RunCreated
<1> QED BY <1>4, <1>5, <1>6 DEF CreateRun, SpawnChildRunAt

\* A starter that only changes its program counter.
LEMMA PcSet ==
    ASSUME IInv, NEW s \in Starter,
           NEW v \in {"publish", "record"},
           st' = [st EXCEPT ![s].pc = v], st[s].pc \in {"inject", "publish"},
           DOMAIN runs' = DOMAIN runs, runs'[st[s].run].by = runs[st[s].run].by,
           runs'[st[s].run].trig = runs[st[s].run].trig,
           v = "record" => st[s].kind = "trigger" /\ st[s].run \in advanced'
    PROVE  Only(s) /\ Moves(st[s], st'[s]) /\ Progress(s, st[s])'
<1> DEFINE p == st[s]
           x == [p EXCEPT !.pc = v]
<1>1. p \in StarterType /\ Progress(s, p) /\ DOMAIN st = Starter
    BY OneOf
<1>2. st' = [st EXCEPT ![s] = x]
    BY Zenon
<1> HIDE DEF p
<1>3. x \in StarterType
    BY <1>1, Zenon DEF StarterType
<1>4. /\ x.pc = v /\ x.run = p.run /\ x.kind = p.kind /\ x.todo = p.todo /\ x.trig = p.trig
      /\ x.err = p.err
    BY <1>1, Zenon DEF StarterType
<1> HIDE DEF x
<1>5. Only(s) /\ st'[s] = x
    BY <1>2, <1>3, OnlyAt
<1>6. Moves(p, x)
    BY <1>4 DEF Moves, PreRun, p
<1>7. p.pc \in HasRun /\ x.pc \in HasRun /\ x.pc \notin PreRun \cup {"next", "idle", "done"}
    BY <1>4 DEF HasRun, PreRun, p
<1>8. /\ p.trig \notin p.todo /\ (p.kind = "trigger" => p.trig \in Trigger)
      /\ p.run \in DOMAIN runs /\ runs[p.run].by = s /\ runs[p.run].trig = p.trig
      /\ p.kind # "trigger" => p.todo = {}
    BY <1>1, <1>7 DEF Progress
<1>9. Progress(s, st[s])'
  <2>1. /\ runs'[p.run].by = s /\ runs'[p.run].trig = p.trig
        /\ x.pc = "record" => p.kind = "trigger" /\ p.run \in advanced'
      BY <1>4, <1>8 DEF p
  <2>2. x.pc \notin {"upsert", "create", "spawn"}
      BY <1>7 DEF PreRun
  <2> QED BY <1>4, <1>5, <1>7, <1>8, <2>1, <2>2 DEF Progress
<1> QED BY <1>5, <1>6, <1>9 DEF p

LEMMA InjectPreserves ==
    ASSUME IInv, NEW s \in Starter, InjectStartupVariables(s)
    PROVE  IInv'
<1> DEFINE n == st[s].run
<1>1. st[s] \in StarterType /\ Progress(s, st[s]) /\ DOMAIN st = Starter
    BY OneOf
<1>2. /\ st[s].pc = "inject" /\ st' = [st EXCEPT ![s].pc = "publish"]
      /\ UNCHANGED <<backend, defs, saves, trig, advanced, fires>>
      /\ (Fault /\ runs' = runs) \/ (faults' = faults /\ runs' = [runs EXCEPT ![n].vars = TRUE])
    BY DEF InjectStartupVariables
<1>3. n \in DOMAIN runs
    BY <1>1, <1>2 DEF Progress, HasRun
<1>4. runs \in Seq(RunType) /\ defs \in Seq(Doc) /\ TopRow(defs)
    BY DEF IInv, TypeOK
<1>5. /\ runs' \in Seq(RunType) /\ DOMAIN runs' = DOMAIN runs
      /\ \A i \in DOMAIN runs : /\ runs'[i].by = runs[i].by /\ runs'[i].trig = runs[i].trig
                                /\ runs'[i].row = runs[i].row /\ runs'[i].doc = runs[i].doc
  <2>1. CASE runs' = runs
      BY <1>4, <2>1
  <2>2. CASE runs' = [runs EXCEPT ![n].vars = TRUE]
    <3> DEFINE r == runs[n]
               y == [r EXCEPT !.vars = TRUE]
    <3>1. runs' = [runs EXCEPT ![n] = y]
        BY <2>2, Zenon
    <3>2. r \in RunType
        BY <1>3, <1>4
    <3> HIDE DEF r, n
    <3>3. y \in RunType
        BY <3>2, Zenon DEF RunType
    <3>4. y.by = r.by /\ y.trig = r.trig /\ y.row = r.row /\ y.doc = r.doc
        BY <3>2, Zenon DEF RunType
    <3> HIDE DEF y
    <3> QED BY <1>3, <1>4, <3>1, <3>3, <3>4 DEF r
  <2> QED BY <1>2, <2>1, <2>2
<1>6. Kept
    BY <1>2, <1>4, <1>5 DEF Kept, Grown
<1>7. Rest
  <2>1. faults' \in 0 .. MaxFaults
      BY <1>2, BoundsAssumption DEF IInv, TypeOK, Fault
  <2> QED BY <1>2, <1>5, <2>1 DEF Rest, IInv, TypeOK
<1>8. Only(s) /\ Moves(st[s], st'[s]) /\ Progress(s, st[s])'
    BY <1>2, <1>3, <1>5, PcSet
<1> QED BY <1>2, <1>5, <1>6, <1>7, <1>8, NothingNew

LEMMA PublishPreserves ==
    ASSUME IInv, NEW s \in Starter, Publish(s)
    PROVE  IInv'
<1>1. st[s] \in StarterType /\ Progress(s, st[s]) /\ DOMAIN st = Starter
    BY OneOf
<1>2. /\ st[s].pc = "publish"
      /\ UNCHANGED <<backend, defs, saves, trig, runs, fires>>
    BY DEF Publish
<1>3. st[s].run \in DOMAIN runs
    BY <1>1, <1>2 DEF Progress, HasRun
<1>4. CASE /\ Fault /\ advanced' = advanced
           /\ st' = [st EXCEPT ![s] = IF st[s].kind = "spawn" THEN Leave(s) ELSE Report(s)]
  <2>1. Kept /\ Rest
      BY <1>2, <1>4, TablesKept, RestKept
  <2> DEFINE x == IF st[s].kind = "spawn" THEN Leave(s) ELSE Report(s)
  <2>2. x \in {Leave(s), Report(s)} /\ (x = Report(s) \/ st[s].kind = "spawn")
      OBVIOUS
  <2>3. st' = [st EXCEPT ![s] = x]
      BY <1>4
  <2> HIDE DEF x
  <2>4. Only(s) /\ Moves(st[s], st'[s]) /\ Progress(s, st[s])'
      BY <1>2, <2>2, <2>3, LeavesOK
  <2> QED BY <1>2, <2>1, <2>4, NothingNew
<1>5. CASE /\ advanced' = advanced \cup {st[s].run} /\ faults' = faults
           /\ st' = [st EXCEPT ![s] = IF st[s].kind = "trigger" THEN [@ EXCEPT !.pc = "record"]
                                      ELSE Leave(s)]
  <2>1. Kept
      BY <1>2, <1>5 DEF Kept, Grown, IInv, TypeOK
  <2>2. Rest
      BY <1>2, <1>3, <1>5 DEF Rest, IInv, TypeOK
  <2>3. Only(s) /\ Moves(st[s], st'[s]) /\ Progress(s, st[s])'
    <3>1. CASE st[s].kind = "trigger"
      <4>1. st' = [st EXCEPT ![s].pc = "record"]
          BY <1>5, <3>1, Zenon
      <4> QED BY <1>2, <1>5, <3>1, <4>1, PcSet
    <3>2. CASE st[s].kind # "trigger"
      <4>1. st' = [st EXCEPT ![s] = Leave(s)]
          BY <1>5, <3>2, Zenon
      <4> QED BY <1>2, <1>5, <4>1, LeavesOK
    <3> QED BY <3>1, <3>2
  <2> QED BY <1>2, <2>1, <2>2, <2>3, NothingNew
<1> QED BY <1>4, <1>5 DEF Publish

LEMMA RecordPreserves ==
    ASSUME IInv, NEW s \in Starter, RecordTriggerFire(s)
    PROVE  IInv'
<1> DEFINE p == st[s]
           f == [trig |-> p.trig, run |-> p.run]
<1>1. p \in StarterType /\ Progress(s, p) /\ DOMAIN st = Starter
    BY OneOf
<1>2. /\ p.pc = "record" /\ st' = [st EXCEPT ![s] = Leave(s)]
      /\ UNCHANGED <<backend, defs, saves, trig, runs, advanced>>
      /\ Fault \/ faults' = faults
      /\ fires' = fires \/ fires' = fires \cup {f}
    BY DEF RecordTriggerFire
<1>3. /\ p.run \in advanced /\ p.run \in DOMAIN runs /\ p.trig \in Trigger
      /\ runs[p.run].trig = p.trig
    BY <1>1, <1>2 DEF Progress, HasRun, PreRun
<1>4. fires \subseteq [trig : Trigger, run : DOMAIN runs] /\ runs \in Seq(RunType)
    BY DEF IInv, TypeOK
<1>5. f \in [trig : Trigger, run : DOMAIN runs] /\ f.run = p.run /\ f.trig = p.trig
    BY <1>3
<1> HIDE DEF f
<1>6. Only(s) /\ Moves(st[s], st'[s]) /\ Progress(s, st[s])'
    BY <1>2, <1>3, LeavesOK
<1>7. Kept
    BY <1>2, TablesKept
<1>8. Rest
  <2>1. fires' \subseteq [trig : Trigger, run : DOMAIN runs']
      BY <1>2, <1>4, <1>5
  <2>2. faults' \in 0 .. MaxFaults
      BY <1>2, BoundsAssumption DEF IInv, TypeOK, Fault
  <2> QED BY <1>2, <2>1, <2>2 DEF Rest, IInv, TypeOK
<1>9. FiresOK'
    BY <1>2, <1>3, <1>5 DEF FiresOK, IInv
<1>10. OneRunEach'
    BY <1>2 DEF OneRunEach, IInv
<1>11. st'[s].run \in 0 .. Len(runs')
  <2>1. st'[s].run = 0 \/ st'[s].run \in DOMAIN runs'
      BY <1>6 DEF Progress
  <2> QED BY <1>2, <1>4, <2>1
<1>12. \A i \in DOMAIN runs' \ DOMAIN runs : RunOK(i)'
    BY <1>2
<1> QED BY <1>6, <1>7, <1>8, <1>9, <1>10, <1>11, <1>12, StarterMoved

LEMMA CrashPreserves ==
    ASSUME IInv, NEW s \in Starter, Crash(s)
    PROVE  IInv'
<1> DEFINE p == st[s]
           c == Cleared(s)
           x == [c EXCEPT !.pc = "crashed", !.todo = {}]
<1>1. p \in StarterType /\ Progress(s, p) /\ DOMAIN st = Starter
    BY OneOf
<1>2. /\ p.pc \notin {"idle", "done", "crashed"} /\ Fault /\ st' = [st EXCEPT ![s] = x]
      /\ UNCHANGED <<backend, defs, saves, trig, runs, advanced, fires>>
    BY DEF Crash
<1>3. c \in StarterType /\ c.kind = p.kind /\ c.run = 0 /\ c.err = p.err
    BY <1>1, Clears
<1> HIDE DEF p, c
<1>4. {} \in SUBSET Trigger
    OBVIOUS
<1>5. x \in StarterType
    BY <1>3, <1>4, Zenon DEF StarterType
<1>6. x.pc = "crashed" /\ x.todo = {} /\ x.kind = p.kind /\ x.run = 0 /\ x.err = p.err
    BY <1>3, Zenon DEF StarterType
<1> HIDE DEF x
<1>7. Only(s) /\ st'[s] = x
    BY <1>2, <1>5, OnlyAt
<1>8. Moves(p, x)
    BY <1>2, <1>6 DEF Moves, PreRun
<1>9. Progress(s, st[s])'
    BY <1>6, <1>7 DEF Progress, PreRun, HasRun
<1>10. Kept /\ Rest
    BY <1>2, TablesKept, RestKept
<1> QED BY <1>2, <1>7, <1>8, <1>9, <1>10, NothingNew DEF p

-----------------------------------------------------------------------------
(***************************************************************************)
(* The results.                                                            *)
(***************************************************************************)
LEMMA InitIInv == Init => IInv
<1> SUFFICES ASSUME Init PROVE IInv
    OBVIOUS
<1>1. Idle \in StarterType
  <2>1. Nil \in Targets
      BY Zenon DEF Targets
  <2>2. Nil \in Entry \cup {Config[t].entry : t \in Trigger} \cup {Nil}
      BY Zenon
  <2> QED BY <2>1, <2>2 DEF Idle, StarterType
<1>2. Idle.pc = "idle" /\ Idle.run = 0 /\ Idle.todo = {} /\ Idle.kind = Nil
    BY DEF Idle
<1>3. st \in [Starter -> StarterType] /\ \A s \in Starter : st[s] = Idle
    BY <1>1 DEF Init
<1>4. TypeOK
    BY <1>2, <1>3, BoundsAssumption DEF Init, TypeOK
<1>5. \A s \in Starter : Progress(s, st[s])
    BY <1>2, <1>3 DEF Progress, PreRun, HasRun
<1> QED BY <1>4, <1>5 DEF Init, IInv, TopRow, FiresOK, OneRunEach

LEMMA NextIInv == IInv /\ [Next]_vars => IInv'
<1> SUFFICES ASSUME IInv, [Next]_vars PROVE IInv'
    OBVIOUS
<1>1. CASE UNCHANGED vars
  <2>1. Kept
      BY <1>1, TablesKept DEF vars
  <2>2. Rest
      BY <1>1, RestKept DEF vars
  <2> QED BY <1>1, <2>1, <2>2, NobodyMoves DEF vars
<1>2. ASSUME NEW d \in Doc, Save(d) \/ Register(d) PROVE IInv'
    BY <1>2, StorePreserves DEF Save, Register
<1>3. ASSUME NEW s \in Starter, Step(s) PROVE IInv'
    BY <1>3, NextTriggerPreserves, ResolvePreserves, UpsertPreserves, CreatePreserves,
       InjectPreserves, PublishPreserves, RecordPreserves DEF Step
<1> QED
    BY <1>1, <1>2, <1>3, TriggersPreserve, BeginPreserves, ReceivePreserves, CrashPreserves
    DEF Next

LEMMA Invariance == Spec => []IInv
BY InitIInv, NextIInv, PTL DEF Spec

\* Whatever is saved, started, delivered or fails, every variable keeps its type.
THEOREM TypeCorrect == Spec => []TypeOK
<1>1. IInv => TypeOK
    BY DEF IInv
<1> QED BY <1>1, Invariance, PTL

\* For any definitions, saved in any order beside any number of starters: the row of a
\* run holds the version that was resolved for it (CreateRun, SpawnChildRunAt).
THEOREM VersionsKept == Spec => []RunsKeepTheirVersion
<1>1. IInv => RunsKeepTheirVersion
    BY DEF IInv, RunOK, RunsKeepTheirVersion
<1> QED BY <1>1, Invariance, PTL

\* However many publishes fail: a run that was never advanced has a starter that is
\* still at work on it, crashed, returned an error or was spawn_saga.
THEOREM NeverSilent == Spec => []UnadvancedIsReported
<1>1. IInv => UnadvancedIsReported
    BY DEF IInv, RunOK, UnadvancedIsReported
<1> QED BY <1>1, Invariance, PTL

\* For any set of triggers: a Dispatch that returned has taken up each one it listed.
THEOREM EveryTriggerTried == Spec => []AllTriggersTried
<1>1. IInv => AllTriggersTried
    BY DEF IInv, Progress, AllTriggersTried
<1> QED BY <1>1, Invariance, PTL

\* trigger_fires is truthful: a fire names an advanced run of its trigger, a run has at
\* most one, and a delivery starts at most one run per trigger.
THEOREM AuditTruthful == Spec => []FiresMatchRuns
<1>1. ASSUME IInv PROVE FiresMatchRuns
  <2>1. FiresOK /\ OneRunEach /\ fires \subseteq [trig : Trigger, run : DOMAIN runs]
      BY <1>1 DEF IInv, TypeOK
  <2>2. ASSUME NEW f \in fires, NEW g \in fires, f.run = g.run PROVE f = g
    <3>1. f.trig = g.trig
        BY <2>1, <2>2 DEF FiresOK
    <3> QED BY <2>1, <2>2, <3>1
  <2> QED BY <2>1, <2>2 DEF FiresMatchRuns, FiresOK, OneRunEach
<1> QED BY <1>1, Invariance, PTL
=============================================================================
