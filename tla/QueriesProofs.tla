--------------------------- MODULE QueriesProofs ---------------------------
(***************************************************************************)
(* Walks over lists that change, statistics and streams, for any runs,     *)
(* filters, page sizes and bounds.                                         *)
(***************************************************************************)
EXTENDS Queries, FiniteSetTheorems, SequenceTheorems, TLAPS

-----------------------------------------------------------------------------
(***************************************************************************)
(* Orders and pages.                                                       *)
(***************************************************************************)
Once(o) == \A i, j \in DOMAIN o : o[i] = o[j] => i = j

\* An order of a finite set names each element once.
LEMMA OrderIsOnto ==
    ASSUME NEW S, IsFiniteSet(S), NEW o \in SetToSeqs(S)
    PROVE  /\ Cardinality(S) \in Nat /\ o \in [1 .. Cardinality(S) -> S]
           /\ o \in Seq(S) /\ Len(o) = Cardinality(S)
           /\ Once(o)
           /\ \A x \in S : \E i \in DOMAIN o : o[i] = x
<1> DEFINE n == Cardinality(S)
<1>1. n \in Nat
    BY FS_CardinalityType
<1>2. o \in [1 .. n -> S] /\ \A i, j \in 1 .. n : i # j => o[i] # o[j]
    BY DEF SetToSeqs
<1>3. o \in Injection(1 .. n, S)
    BY <1>2 DEF Injection, IsInjective
<1>4. IsFiniteSet(1 .. n) /\ Cardinality(1 .. n) = n
    BY <1>1, FS_Interval, Z3
<1>5. o \in Surjection(1 .. n, S)
    BY <1>3, <1>4, FS_Injection
<1>6. o \in Seq(S) /\ Len(o) = n
    BY <1>1, <1>2
<1> QED BY <1>1, <1>2, <1>5, <1>6 DEF Surjection, Once

\* In an order that is total, the elements before the k-th are k - 1: Ahead[x] are those
\* that are larger than x.
LEMMA Position ==
    ASSUME NEW S, IsFiniteSet(S), NEW o \in SetToSeqs(S), NEW Ahead \in [S -> SUBSET S],
           \A i, j \in DOMAIN o : i < j => o[j] \notin Ahead[o[i]],
           \A x \in S : x \notin Ahead[x],
           \A x, y \in S : x # y => x \in Ahead[y] \/ y \in Ahead[x],
           NEW k \in DOMAIN o
    PROVE  Cardinality(Ahead[o[k]]) = k - 1
<1> DEFINE A == Ahead[o[k]]
           f == [i \in 1 .. k - 1 |-> o[i]]
<1>1. /\ Cardinality(S) \in Nat /\ o \in [1 .. Cardinality(S) -> S] /\ k \in Nat /\ k >= 1
      /\ \A i, j \in DOMAIN o : o[i] = o[j] => i = j
      /\ \A x \in S : \E i \in DOMAIN o : o[i] = x
    BY OrderIsOnto DEF Once
<1>2. \A i \in DOMAIN o : o[i] \in A <=> i < k
    BY <1>1
<1>3. f \in [1 .. k - 1 -> A]
    BY <1>1, <1>2
<1>4. \A y \in A : \E i \in 1 .. k - 1 : f[i] = y
    BY <1>1, <1>2
<1>5. \A i, j \in 1 .. k - 1 : f[i] = f[j] => i = j
    BY <1>1
<1>6. f \in Bijection(1 .. k - 1, A)
    BY <1>3, <1>4, <1>5 DEF Bijection, Injection, Surjection, IsInjective
<1>7. IsFiniteSet(1 .. k - 1) /\ Cardinality(1 .. k - 1) = k - 1
  <2>1. k - 1 \in Nat /\ k - 1 \in Int /\ 1 \in Int
      BY <1>1
  <2>2. Cardinality(1 .. k - 1) = IF 1 > k - 1 THEN 0 ELSE (k - 1) - 1 + 1
      BY <2>1, FS_Interval
  <2> QED BY <2>1, <2>2, FS_Interval
<1> QED BY <1>6, <1>7, FS_Bijection DEF ExistsBijection

LEMMA MinOfTwo ==
    ASSUME NEW a \in Nat, NEW b \in Nat
    PROVE  Min({a, b}) = IF a <= b THEN a ELSE b
<1> DEFINE c == IF a <= b THEN a ELSE b
<1>1. c \in {a, b} /\ \A y \in {a, b} : c <= y
    OBVIOUS
<1>2. \A x \in {a, b} : (\A y \in {a, b} : x <= y) => x = c
    OBVIOUS
<1> QED BY <1>1, <1>2 DEF Min

\* p are the rows of o after the a-th, up to b of them.
IsPart(p, o, a, b) ==
    /\ Len(p) \in Nat /\ Len(p) <= b /\ IsInjective(p)
    /\ \A x : x \in Range(p) <=> \E k \in DOMAIN o : x = o[k] /\ k > a /\ k <= a + b
    /\ \A k \in DOMAIN o : k > a + b => Len(p) = b
    /\ b > 0 /\ p = <<>> => Len(o) <= a

LEMMA Slice ==
    ASSUME NEW S, NEW o \in Seq(S), NEW a \in Nat, NEW b \in Nat, Once(o),
           NEW p, p = SubSeq(o, a + 1, Min({a + b, Len(o)}))
    PROVE  p \in Seq(S) /\ IsPart(p, o, a, b)
<1>1. PICK n \in Nat : n = Len(o) /\ DOMAIN o = 1 .. n
    OBVIOUS
<1>2. PICK m \in Nat : m = Min({a + b, Len(o)}) /\ m = IF a + b <= n THEN a + b ELSE n
    BY <1>1, MinOfTwo
<1> DEFINE l == IF a + 1 <= m THEN m - a ELSE 0
<1>3. l \in Nat
    OBVIOUS
<1>4. p = SubSeq(o, a + 1, m) /\ a + 1 \in Int /\ m \in Int
    BY <1>2
<1>5. m <= n /\ \A i \in a + 1 .. m : i \in 1 .. n /\ o[i] \in S
  <2>0. m <= n
      BY <1>2
  <2>1. \A i \in a + 1 .. m : i \in 1 .. n
      BY <2>0
  <2>2. \A i \in 1 .. n : o[i] \in S
      BY <1>1, ElementOfSeq
  <2> QED BY <2>0, <2>1, <2>2
<1>6. /\ p \in Seq(S)
      /\ Len(p) = IF a + 1 <= m THEN m - (a + 1) + 1 ELSE 0
      /\ \A i \in 1 .. m - (a + 1) + 1 : p[i] = o[a + 1 + i - 1]
  <2>1. \A i \in a + 1 .. m : o[i] \in S
      BY <1>5
  <2> DEFINE q == SubSeq(o, a + 1, m)
  <2>2. /\ q \in Seq(S)
        /\ Len(q) = IF a + 1 <= m THEN m - (a + 1) + 1 ELSE 0
        /\ \A i \in 1 .. m - (a + 1) + 1 : q[i] = o[a + 1 + i - 1]
      BY <1>4, <2>1, SubSeqProperties
  <2> QED BY <1>4, <2>2
<1>7. Len(p) = l /\ DOMAIN p = 1 .. l
  <2>1. Len(p) = l
      BY <1>6
  <2> QED BY <1>6, <2>1, LenProperties
<1>8. \A i \in 1 .. l : p[i] = o[a + i] /\ a + i \in 1 .. n
  <2> TAKE i \in 1 .. l
  <2>1. i \in 1 .. m - (a + 1) + 1 /\ a + 1 + i - 1 = a + i /\ a + i \in 1 .. n
      BY <1>5
  <2> QED BY <1>6, <2>1
<1>9. \A k \in 1 .. n : k > a /\ k <= a + b => k - a \in 1 .. l /\ p[k - a] = o[k]
  <2> TAKE k \in 1 .. n
  <2> HAVE k > a /\ k <= a + b
  <2>1. k <= m /\ k - a \in 1 .. l /\ a + (k - a) = k
      BY <1>2
  <2> QED BY <1>8, <2>1
<1>10. \A i \in 1 .. l : a + i > a /\ a + i <= a + b
    BY <1>2
<1>11. l <= b /\ \A k \in 1 .. n : k > a + b => l = b
  <2>1. l <= b
      BY <1>2
  <2>2. ASSUME NEW k \in 1 .. n, k > a + b PROVE l = b
      BY <1>2, <2>2
  <2> QED BY <2>1, <2>2
<1>12. b > 0 /\ l = 0 => n <= a
    BY <1>2
<1> HIDE DEF l
<1>13. \A x : x \in Range(p) <=> \E k \in DOMAIN o : x = o[k] /\ k > a /\ k <= a + b
  <2>1. ASSUME NEW x \in Range(p)
        PROVE  \E k \in DOMAIN o : x = o[k] /\ k > a /\ k <= a + b
    <3>1. PICK i \in 1 .. l : x = p[i]
        BY <1>7, <2>1 DEF Range
    <3>2. a + i \in DOMAIN o /\ x = o[a + i] /\ a + i > a /\ a + i <= a + b
        BY <1>1, <1>8, <1>10, <3>1
    <3> QED BY <3>2
  <2>2. ASSUME NEW k \in DOMAIN o, k > a, k <= a + b PROVE o[k] \in Range(p)
    <3>1. k - a \in DOMAIN p /\ p[k - a] = o[k]
        BY <1>1, <1>7, <1>9, <2>2
    <3> QED BY <3>1 DEF Range
  <2> QED BY <2>1, <2>2
<1>14. IsInjective(p)
  <2> SUFFICES ASSUME NEW i \in 1 .. l, NEW j \in 1 .. l, p[i] = p[j] PROVE i = j
      BY <1>7 DEF IsInjective
  <2>1. a + i = a + j
      BY <1>1, <1>8 DEF Once
  <2> QED BY <2>1, <1>3
<1>15. p = <<>> => l = 0
    BY <1>7
<1> QED BY <1>1, <1>3, <1>6, <1>7, <1>11, <1>12, <1>13, <1>14, <1>15 DEF IsPart
LEMMA PageRows ==
    ASSUME NEW S, NEW o \in Seq(S), Once(o), walk.offset \in Nat, query.limit \in Nat
    PROVE  Page(o) \in Seq(S) /\ IsPart(Page(o), o, walk.offset, query.limit)
<1>1. PICK a \in Nat, b \in Nat : a = walk.offset /\ b = query.limit
    OBVIOUS
<1>2. PICK p : p = SubSeq(o, a + 1, Min({a + b, Len(o)}))
    OBVIOUS
<1>3. p \in Seq(S) /\ IsPart(p, o, a, b)
    BY <1>2, Slice
<1>4. p = Page(o)
    BY <1>1, <1>2 DEF Page
<1> QED BY <1>1, <1>3, <1>4

-----------------------------------------------------------------------------
(***************************************************************************)
(* Types: the rows, what is asked, and how far the answer is.              *)
(***************************************************************************)
RunRow == [state : InFlight \cup {"succeeded", "failed", "cancelled", Nil},
           wf : Workflow \cup {Nil}, trig : Trigger \cup {Nil}, started : Nat,
           mortal : BOOLEAN, expired : BOOLEAN]

DefRow == [ver : Version, published : BOOLEAN, created : Nat]

RowsOK ==
    /\ backend \in {"memory", "redis", "postgres"}
    /\ run \in [Run -> RunRow] /\ triggers \subseteq Trigger /\ defs \in Seq(DefRow)
    /\ now \in 0 .. MaxTime /\ topic \in Topic

\* The record of a request, of a walk and of a stream have these fields.
Shapes ==
    /\ req = [pc |-> req.pc, index |-> req.index, blobs |-> req.blobs, page |-> req.page,
              total |-> req.total, ended |-> req.ended, flying |-> req.flying]
    /\ walk = [n |-> walk.n, offset |-> walk.offset, seen |-> walk.seen,
               stayed |-> walk.stayed, lost |-> walk.lost, ever |-> walk.ever,
               reopened |-> walk.reopened, changes |-> walk.changes]
    /\ tail = [sent |-> tail.sent, conn |-> tail.conn, missed |-> tail.missed,
               fresh |-> tail.fresh]

Paged == {"count", "countblobs", "countfilter", "reply"}

RunsPC   == {"idle", "runs", "blobs", "filter"} \cup Paged
DefsPC   == {"idle", "defs", "reply"}
StatsPC  == {"idle", "stats", "statblobs", "stats2", "told"}
StreamPC == {"idle", "stream", "snapshot", "listen", "tail"}

\* What is asked, and the commands that answer it.
QueryOK ==
    /\ query.limit \in Nat
    /\ \/ query = NoQuery /\ req.pc = "idle"
       \/ query.list = "runs"   /\ req.pc \in RunsPC  /\ query.limit > 0
       \/ query.list = "defs"   /\ req.pc \in DefsPC  /\ query.limit > 0
       \/ query.list = "stats"  /\ req.pc \in StatsPC
       \/ query.list = "stream" /\ req.pc \in StreamPC /\ query.filter \in Run
    /\ query = [list |-> query.list, filter |-> query.filter, limit |-> query.limit]
    /\ req.pc \in {"blobs", "filter", "countblobs", "countfilter"} => backend = "redis"

\* A blob is an earlier value of its run's: what the order and the join depend on has not
\* changed since.
BlobsOK ==
    req.pc \in {"filter", "countfilter"} =>
        \A i \in DOMAIN req.blobs :
            i \in Run /\ run[i].state # Nil /\ req.blobs[i].trig = run[i].trig
                       /\ req.blobs[i].started = run[i].started

PageOK ==
    /\ walk.offset \in Nat /\ walk.n \in 0 .. MaxWalks[topic]
    /\ req.page \in Seq(Nat) /\ Len(req.page) <= query.limit /\ IsInjective(req.page)
    /\ req.index \subseteq Run /\ req.total \in 0 .. Cardinality(Run)

BaseInv == RowsOK /\ Shapes /\ QueryOK /\ BlobsOK /\ PageOK

\* What a change of the lists leaves alone.
Keeps ==
    /\ UNCHANGED <<backend, events, pool, tail, topic, query, req>>
    /\ triggers' \subseteq triggers
    /\ \A i \in Run : run[i].state # Nil =>
            /\ run'[i].state # Nil /\ run'[i].wf = run[i].wf /\ run'[i].trig = run[i].trig
            /\ run'[i].started = run[i].started
    /\ \A i \in DOMAIN defs : /\ i \in DOMAIN defs'
                              /\ defs'[i].ver = defs[i].ver
                              /\ defs'[i].created = defs[i].created

ChangeStep == Keeps /\ Observe /\ RowsOK'

ReadStep ==
    \/ \E list, f, limit : /\ Ask(list, f, limit) /\ limit \in Nat
                           /\ list \in {"runs", "defs"} => limit > 0
                           /\ list \in Topic /\ (list = "stream" => f \in Run)
    \/ \E r \in Run, key \in EventKey : AppendEvent(r, key)
    \/ \E c \in Conn : Listen(c) \/ DropConn(c)
    \/ Request \/ ListRuns \/ CountRuns \/ ListDefinitions \/ Reply
    \/ RedisLoadIndex \/ RedisLoadBlobs \/ RedisListRuns \/ RedisCountRuns
    \/ MemoryStats \/ RedisStatsIndex \/ RedisStats \/ PgStats \/ ReplyStats
    \/ OpenStream \/ SendSnapshot \/ SendEvent \/ CloseStream \/ CloseTail

LEMMA RunChanges ==
    ASSUME RowsOK, NEW i \in Run,
           \/ \E o \in Origin : CreateRun(i, o[1], o[2])
           \/ \E state \in Written : WriteState(i, state)
           \/ ExpireRun(i)
    PROVE  ChangeStep
<1>1. run[i] \in RunRow /\ \A j \in Run : run[j] \in RunRow
    BY DEF RowsOK
<1>2. CASE \E o \in Origin : CreateRun(i, o[1], o[2])
  <2>1. PICK o \in Origin : CreateRun(i, o[1], o[2])
      BY <1>2
  <2>2. o[1] \in Workflow /\ o[2] \in Trigger \cup {Nil}
      BY QueriesAssumption
  <2> DEFINE r == [state |-> "running", wf |-> o[1], trig |-> o[2], started |-> now',
                   mortal |-> FALSE, expired |-> FALSE]
  <2>3. now' \in Nat /\ now' \in 0 .. MaxTime
      BY <2>1, QueriesAssumption DEF CreateRun, ReadClock, RowsOK
  <2>4. r \in RunRow
      BY <2>2, <2>3 DEF RunRow, InFlight
  <2>5. run' = [run EXCEPT ![i] = r] /\ run[i].state = Nil
      BY <2>1 DEF CreateRun
  <2>6. run' \in [Run -> RunRow]
      BY <2>4, <2>5 DEF RowsOK
  <2>7. \A j \in Run : run[j].state # Nil => run'[j] = run[j]
      BY <2>5 DEF RowsOK
  <2> QED BY <2>1, <2>3, <2>6, <2>7 DEF CreateRun, ChangeStep, Keeps, RowsOK
<1>3. CASE \E state \in Written : WriteState(i, state)
  <2>1. PICK state \in Written : WriteState(i, state)
      BY <1>3
  <2>2. state \in InFlight \cup {"succeeded", "failed", "cancelled"} /\ state # Nil
      BY QueriesAssumption DEF InFlight
  <2>3. PICK b \in BOOLEAN :
            run' = [run EXCEPT ![i] = [[run[i] EXCEPT !.state = state] EXCEPT !.mortal = b]]
    <3>1. run[i].mortal \in BOOLEAN
        BY <1>1 DEF RunRow
    <3> DEFINE b == run[i].mortal \/ (backend = "redis" /\ state \notin InFlight)
    <3>2. b \in BOOLEAN
        BY <3>1
    <3>3. run' = [run EXCEPT ![i] = [[run[i] EXCEPT !.state = state] EXCEPT !.mortal = b]]
        BY <2>1, <1>1 DEF WriteState, RowsOK, RunRow
    <3> QED BY <3>2, <3>3
  <2> DEFINE r == [[run[i] EXCEPT !.state = state] EXCEPT !.mortal = b]
  <2>4. /\ r \in RunRow /\ r.state = state /\ r.wf = run[i].wf /\ r.trig = run[i].trig
        /\ r.started = run[i].started
      BY <1>1, <2>2 DEF RunRow
  <2> HIDE DEF r
  <2>5. run' = [run EXCEPT ![i] = r]
      BY <2>3 DEF r
  <2>6. run' \in [Run -> RunRow] /\ run'[i] = r /\ \A j \in Run : j # i => run'[j] = run[j]
      BY <2>4, <2>5 DEF RowsOK
  <2> QED BY <2>1, <2>2, <2>4, <2>6 DEF WriteState, ChangeStep, Keeps, RowsOK
<1>4. CASE ExpireRun(i)
  <2>1. run' = [run EXCEPT ![i] = [run[i] EXCEPT !.expired = TRUE]]
      BY <1>4 DEF ExpireRun
  <2>2. [run[i] EXCEPT !.expired = TRUE] \in RunRow
      BY <1>1 DEF RunRow
  <2>3. run' \in [Run -> RunRow]
      BY <2>1, <2>2 DEF RowsOK
  <2>4. \A j \in Run : j # i => run'[j] = run[j]
      BY <2>1 DEF RowsOK
  <2>5. /\ run'[i].state = run[i].state /\ run'[i].wf = run[i].wf
        /\ run'[i].trig = run[i].trig /\ run'[i].started = run[i].started
      BY <1>1, <2>1 DEF RowsOK, RunRow
  <2> QED BY <1>4, <2>3, <2>4, <2>5 DEF ExpireRun, ChangeStep, Keeps, RowsOK
<1> QED BY <1>2, <1>3, <1>4

LEMMA DefinitionChanges ==
    ASSUME RowsOK, NEW ver \in Version, NEW published \in BOOLEAN,
           SaveDefinition(ver, published)
    PROVE  ChangeStep
<1> DEFINE same == {i \in DOMAIN defs : defs[i].ver = ver}
           c == IF backend = "postgres" THEN now' + 1 ELSE 0
           new == [ver |-> ver, published |-> published, created |-> c]
           k == CHOOSE i \in same : TRUE
<1>1. now' \in Nat /\ now' \in 0 .. MaxTime
    BY QueriesAssumption DEF SaveDefinition, ReadClock, RowsOK
<1>2. c \in Nat
  <2>1. PICK t \in Nat : t = now'
      BY <1>1
  <2>2. t + 1 \in Nat
      OBVIOUS
  <2> QED BY <2>1, <2>2
<1>3. new \in DefRow
    BY <1>2 DEF DefRow
<1>4. defs' \in Seq(DefRow) /\ \A i \in DOMAIN defs :
          i \in DOMAIN defs' /\ defs'[i].ver = defs[i].ver /\ defs'[i].created = defs[i].created
  <2>1. CASE backend = "postgres" /\ same # {}
    <3>1. k \in DOMAIN defs
        BY <2>1
    <3>2. defs' = [defs EXCEPT ![k] = [defs[k] EXCEPT !.published = published]]
        BY <2>1 DEF SaveDefinition
    <3>3. defs[k] \in DefRow /\ \A i \in DOMAIN defs : defs[i] \in DefRow
        BY <3>1 DEF RowsOK
    <3>4. [defs[k] EXCEPT !.published = published] \in DefRow
        BY <3>3 DEF DefRow
    <3>5. /\ [defs[k] EXCEPT !.published = published].ver = defs[k].ver
          /\ [defs[k] EXCEPT !.published = published].created = defs[k].created
        BY <3>3 DEF DefRow
    <3> HIDE DEF k
    <3>6. DOMAIN defs' = DOMAIN defs /\ \A i \in DOMAIN defs : i # k => defs'[i] = defs[i]
        BY <3>2
    <3>7. defs'[k] = [defs[k] EXCEPT !.published = published]
        BY <3>1, <3>2
    <3>8. defs' \in Seq(DefRow)
        BY <3>1, <3>2, <3>4 DEF RowsOK
    <3> QED BY <3>5, <3>6, <3>7, <3>8
  <2>2. CASE ~(backend = "postgres" /\ same # {})
    <3>1. defs' = Append(defs, new)
        BY <2>2 DEF SaveDefinition
    <3> HIDE DEF new
    <3>2. defs' \in Seq(DefRow) /\ Len(defs') = Len(defs) + 1
          /\ \A i \in 1 .. Len(defs) : defs'[i] = defs[i]
        BY <1>3, <3>1, AppendProperties DEF RowsOK
    <3>3. DOMAIN defs = 1 .. Len(defs) /\ DOMAIN defs' = 1 .. Len(defs') /\ Len(defs) \in Nat
        BY <3>2 DEF RowsOK
    <3> QED BY <3>2, <3>3
  <2> QED BY <2>1, <2>2
<1> HIDE DEF same, c, new, k
<1> QED BY <1>1, <1>4 DEF SaveDefinition, ChangeStep, Keeps, RowsOK

\* A step changes the lists and nothing of the request, or the other way round.
LEMMA StepSplit ==
    ASSUME RowsOK, [Next]_vars
    PROVE  ChangeStep \/ ReadStep \/ UNCHANGED vars
<1>1. ASSUME NEW t \in Trigger, DeleteTrigger(t) PROVE ChangeStep
    BY <1>1 DEF DeleteTrigger, ChangeStep, Keeps, RowsOK
<1>2. ASSUME NEW limit \in Limits, NEW f, Ask("runs", f, limit) \/ Ask("defs", f, limit)
      PROVE  ReadStep
  <2>1. limit \in Nat /\ limit > 0
      BY QueriesAssumption
  <2> QED BY <1>2, <2>1 DEF ReadStep, Topic
<1>3. ASSUME NEW wf, Ask("stats", [wf |-> wf], 0) PROVE ReadStep
    BY <1>3 DEF ReadStep, Topic
<1>4. ASSUME NEW r \in Streamed,
             Ask("stream", r, 0) \/ \E key \in EventKey : AppendEvent(r, key)
      PROVE  ReadStep
  <2>1. r \in Run
      BY QueriesAssumption
  <2> QED BY <1>4, <2>1 DEF ReadStep, Topic
<1>5. CASE UNCHANGED vars
    BY <1>5
<1>6. CASE Next
    BY <1>1, <1>2, <1>3, <1>4, <1>6, RunChanges, DefinitionChanges DEF Next, ReadStep
<1> QED BY <1>5, <1>6
-----------------------------------------------------------------------------
(***************************************************************************)
(* The orders of the lists.                                                *)
(***************************************************************************)
\* The runs that a Redis query keeps of the blobs it has read.
Found == {i \in DOMAIN req.blobs : RunMatches(req.blobs[i], query.filter, triggers)}

MatchingDefs == {i \in DOMAIN defs : DefMatches(defs[i], query.filter)}

\* The order of the list that is asked for: run or definition i comes before j.
Before(i, j) ==
    IF query.list = "defs" THEN NewerDef(i, j)
    ELSE \/ run[i].started > run[j].started
         \/ /\ backend = "redis" /\ query.filter.wf = Nil
            /\ run[i].started = run[j].started /\ i < j

LEMMA FiniteLists ==
    ASSUME RowsOK
    PROVE  /\ IsFiniteSet(Run) /\ Cardinality(Run) \in Nat /\ Run \subseteq Nat
           /\ \A S \in SUBSET Run : IsFiniteSet(S) /\ Cardinality(S) \in 0 .. Cardinality(Run)
           /\ IsFiniteSet(MatchingDefs) /\ MatchingDefs \subseteq Nat
           /\ MemoryFilterRuns(query.filter) \subseteq Run
<1>1. IsFiniteSet(Run) /\ Cardinality(Run) \in Nat /\ Run \subseteq Nat
    BY QueriesAssumption, FS_CardinalityType
<1>2. ASSUME NEW S \in SUBSET Run
      PROVE  IsFiniteSet(S) /\ Cardinality(S) \in 0 .. Cardinality(Run)
  <2>1. IsFiniteSet(S) /\ Cardinality(S) <= Cardinality(Run)
      BY <1>1, FS_Subset
  <2>2. Cardinality(S) \in Nat
      BY <2>1, FS_CardinalityType
  <2> QED BY <1>1, <2>1, <2>2
<1>3. Len(defs) \in Nat /\ DOMAIN defs = 1 .. Len(defs)
    BY DEF RowsOK
<1>4. IsFiniteSet(1 .. Len(defs))
  <2>1. 1 \in Int /\ Len(defs) \in Int
      BY <1>3
  <2> QED BY <2>1, FS_Interval
<1>5. MatchingDefs \in SUBSET (1 .. Len(defs)) /\ MatchingDefs \subseteq Nat
    BY <1>3 DEF MatchingDefs
<1>6. IsFiniteSet(MatchingDefs)
    BY <1>4, <1>5, FS_Subset
<1> QED BY <1>1, <1>2, <1>5, <1>6 DEF MemoryFilterRuns, Present

LEMMA RunOrder ==
    ASSUME RowsOK,
           NEW o \in IF backend = "memory" THEN MemoryRuns(query.filter)
                                          ELSE PgRuns(query.filter)
    PROVE  /\ o \in SetToSeqs(MemoryFilterRuns(query.filter))
           /\ \A i, j \in DOMAIN o : i < j => ~(run[o[j]].started > run[o[i]].started)
BY DEF MemoryRuns, PgRuns, MemoryFilterRuns, Descending, Newer

LEMMA DefOrder ==
    ASSUME RowsOK, NEW o \in Defs(query.filter)
    PROVE  /\ o \in SetToSeqs(MatchingDefs)
           /\ \A i, j \in DOMAIN o : i < j => ~NewerDef(o[j], o[i])
<1>1. o \in Descending(MatchingDefs, NewerDef)
    BY DEF RowsOK, Defs, MemoryDefs, RedisDefs, PgDefs, MatchingDefs
<1> QED BY <1>1 DEF Descending

LEMMA BlobOrder ==
    ASSUME RowsOK, BlobsOK, req.pc \in {"filter", "countfilter"},
           NEW o \in RedisRuns(query.filter, req.blobs, triggers)
    PROVE  /\ Found \subseteq Run
           /\ o \in SetToSeqs(Found)
           /\ \A i, j \in DOMAIN o : i < j =>
                  /\ ~(req.blobs[o[j]].started > req.blobs[o[i]].started)
                  /\ query.filter.wf = Nil
                       => ~(req.blobs[o[j]].started = req.blobs[o[i]].started /\ o[j] < o[i])
<1>1. Found \subseteq Run
    BY DEF BlobsOK, Found
<1> QED BY <1>1 DEF RedisRuns, Descending, Found

\* The page that is cut out of an order of distinct rows.
LEMMA Answered ==
    ASSUME NEW S \in SUBSET Nat, IsFiniteSet(S), NEW o \in SetToSeqs(S), NEW pc, Shapes,
           Answer(o, pc), walk.offset \in Nat, query.limit \in Nat
    PROVE  /\ req'.pc = pc /\ req'.page \in Seq(Nat) /\ req'.index = {}
           /\ req'.total = req.total /\ req'.ended = req.ended /\ req'.flying = req.flying
           /\ IsPart(req'.page, o, walk.offset, query.limit)
           /\ req' = [pc |-> req'.pc, index |-> req'.index, blobs |-> req'.blobs,
                      page |-> req'.page, total |-> req'.total, ended |-> req'.ended,
                      flying |-> req'.flying]
<1>1. o \in Seq(Nat) /\ Once(o)
  <2>1. Cardinality(S) \in Nat /\ o \in [1 .. Cardinality(S) -> S] /\ Once(o)
      BY OrderIsOnto
  <2>2. o \in [1 .. Cardinality(S) -> Nat]
      BY <2>1
  <2> QED BY <2>1, <2>2
<1>2. Page(o) \in Seq(Nat) /\ IsPart(Page(o), o, walk.offset, query.limit)
    BY <1>1, PageRows
<1>3. req' = [req EXCEPT !.page = Page(o), !.pc = pc, !.blobs = <<>>, !.index = {}]
    BY DEF Answer
<1>4. /\ req'.page = Page(o) /\ req'.pc = pc /\ req'.index = {} /\ req'.total = req.total
      /\ req'.ended = req.ended /\ req'.flying = req.flying
      /\ req' = [pc |-> req'.pc, index |-> req'.index, blobs |-> req'.blobs,
                 page |-> req'.page, total |-> req'.total, ended |-> req'.ended,
                 flying |-> req'.flying]
    BY <1>3 DEF Shapes
<1> QED BY <1>2, <1>4

-----------------------------------------------------------------------------
(***************************************************************************)
(* Types are kept.                                                         *)
(***************************************************************************)
LEMMA BaseInit == Init => BaseInv
<1> SUFFICES ASSUME Init PROVE BaseInv
    OBVIOUS
<1>1. RowsOK
  <2>1. NoRun \in RunRow
      BY DEF NoRun, RunRow
  <2> QED BY <2>1, QueriesAssumption DEF Init, RowsOK
<1>2. Shapes
    BY DEF Init, Shapes, Idle, NoWalk, NoTail
<1>3. QueryOK
    BY DEF Init, QueryOK, NoQuery, Idle
<1>4. BlobsOK
    BY DEF Init, BlobsOK, Idle
<1>5. PageOK
  <2>1. Cardinality(Run) \in Nat
      BY <1>1, FiniteLists
  <2>2. <<>> \in Seq(Nat) /\ Len(<<>>) = 0 /\ IsInjective(<<>>)
      BY DEF IsInjective
  <2>3. MaxWalks[topic] \in Nat
      BY <1>1, QueriesAssumption DEF RowsOK
  <2> QED BY <2>1, <2>2, <2>3 DEF Init, PageOK, Idle, NoWalk, NoQuery
<1> QED BY <1>1, <1>2, <1>3, <1>4, <1>5 DEF BaseInv

LEMMA BaseChange == ASSUME BaseInv, ChangeStep PROVE BaseInv'
<1>1. UNCHANGED <<backend, topic, query, req, tail>>
    BY DEF ChangeStep, Keeps
<1>2. Shapes' /\ walk'.n = walk.n /\ walk'.offset = walk.offset
    BY <1>1 DEF BaseInv, Shapes, ChangeStep, Observe
<1>3. QueryOK' /\ PageOK'
    BY <1>1, <1>2 DEF BaseInv, QueryOK, PageOK
<1>4. BlobsOK'
    BY <1>1 DEF BaseInv, BlobsOK, ChangeStep, Keeps
<1> QED BY <1>2, <1>3, <1>4 DEF ChangeStep, BaseInv

\* The lists as a request finds them, and what it leaves alone.
Still == UNCHANGED <<backend, run, triggers, defs, now, topic>>

LEMMA ReadsOnly == ASSUME ReadStep PROVE Still
BY DEF ReadStep, Still, Ask, AppendEvent, Request, ListRuns, CountRuns, ListDefinitions,
   Reply, RedisLoadIndex, RedisLoadBlobs, RedisListRuns, RedisCountRuns, MemoryStats,
   RedisStatsIndex, RedisStats, PgStats, ReplyStats, OpenStream, SendSnapshot, Listen,
   SendEvent, TakeNote, CloseStream, CloseTail, EndStream, DropConn, Streaming

LEMMA BaseAsk ==
    ASSUME BaseInv, NEW list, NEW f, NEW limit \in Nat, Ask(list, f, limit),
           list \in Topic, list \in {"runs", "defs"} => limit > 0, list = "stream" => f \in Run
    PROVE  BaseInv'
<1>1. RowsOK' /\ BlobsOK'
    BY DEF Ask, BaseInv, RowsOK, BlobsOK
<1>2. Shapes' /\ walk'.n = walk.n + 1 /\ walk'.offset = 0
    BY DEF Ask, BaseInv, Shapes, NoWalk
<1>3. req.pc = "idle" /\ query' = [list |-> list, filter |-> f, limit |-> limit] /\ req' = req
    BY QueriesAssumption DEF Ask, BaseInv, QueryOK, NoQuery
<1>4. QueryOK'
    BY <1>3 DEF BaseInv, QueryOK, RunsPC, DefsPC, StatsPC, StreamPC, Topic
<1>5. Len(req.page) <= 0 /\ walk'.n \in 0 .. MaxWalks[topic] /\ Len(req.page) \in Nat
  <2>1. MaxWalks[topic] \in Nat /\ walk.n \in 0 .. MaxWalks[topic] /\ walk.n < MaxWalks[topic]
      BY QueriesAssumption DEF Ask, BaseInv, PageOK
  <2>2. walk'.n \in 0 .. MaxWalks[topic]
      BY <1>2, <2>1
  <2> QED BY <2>2 DEF Ask, BaseInv, PageOK, NoQuery
<1>6. PageOK'
    BY <1>2, <1>3, <1>5 DEF BaseInv, PageOK, Ask
<1> QED BY <1>1, <1>2, <1>4, <1>6 DEF BaseInv

LEMMA BaseLists ==
    ASSUME BaseInv, ListRuns \/ ListDefinitions \/ RedisListRuns
    PROVE  BaseInv'
<1>1. RowsOK' /\ UNCHANGED <<query, walk, tail, backend, topic>>
    BY DEF ListRuns, ListDefinitions, RedisListRuns, BaseInv, RowsOK
<1>2. PICK S \in SUBSET Nat, pc \in {"count", "reply"} :
          /\ IsFiniteSet(S) /\ \E o \in SetToSeqs(S) : Answer(o, pc)
          /\ query.list = "runs" \/ (query.list = "defs" /\ pc = "reply")
  <2>1. CASE ListRuns
    <3>1. PICK o \in IF backend = "memory" THEN MemoryRuns(query.filter)
                                          ELSE PgRuns(query.filter) : Answer(o, "count")
        BY <2>1 DEF ListRuns
    <3>2. query.list = "runs"
        BY <2>1, QueriesAssumption DEF BaseInv, QueryOK, ListRuns, DefsPC, StatsPC, StreamPC
    <3> QED BY <3>1, <3>2, RunOrder, FiniteLists DEF BaseInv
  <2>2. CASE ListDefinitions
    <3>1. PICK o \in Defs(query.filter) : Answer(o, "reply")
        BY <2>2 DEF ListDefinitions
    <3>2. query.list = "defs"
        BY <2>2 DEF BaseInv, QueryOK, ListDefinitions, RunsPC, StatsPC, StreamPC, Paged
    <3> QED BY <3>1, <3>2, DefOrder, FiniteLists DEF BaseInv
  <2>3. CASE RedisListRuns
    <3>1. PICK o \in RedisRuns(query.filter, req.blobs, triggers) : Answer(o, "count")
        BY <2>3 DEF RedisListRuns
    <3>2. query.list = "runs" /\ req.pc = "filter"
        BY <2>3 DEF BaseInv, QueryOK, RedisListRuns, DefsPC, StatsPC, StreamPC
    <3> QED BY <3>1, <3>2, BlobOrder, FiniteLists DEF BaseInv
  <2> QED BY <2>1, <2>2, <2>3
<1> PICK o \in SetToSeqs(S) : Answer(o, pc)
    BY <1>2
<1>3. /\ req'.pc = pc /\ req'.page \in Seq(Nat) /\ req'.index = {}
      /\ req'.total = req.total /\ req'.ended = req.ended /\ req'.flying = req.flying
      /\ IsPart(req'.page, o, walk.offset, query.limit)
      /\ req' = [pc |-> req'.pc, index |-> req'.index, blobs |-> req'.blobs,
                 page |-> req'.page, total |-> req'.total, ended |-> req'.ended,
                 flying |-> req'.flying]
    BY <1>2, Answered DEF BaseInv, PageOK, QueryOK
<1>4. Shapes' /\ BlobsOK'
    BY <1>1, <1>3 DEF Shapes, BaseInv, BlobsOK
<1>5. query.limit > 0 /\ query.limit \in Nat
    BY <1>2, QueriesAssumption DEF BaseInv, QueryOK, NoQuery
<1>6. req'.pc \in RunsPC /\ (query.list = "defs" => req'.pc \in DefsPC)
    BY <1>2, <1>3 DEF RunsPC, DefsPC, Paged
<1>7. req'.pc \notin {"blobs", "filter", "countblobs", "countfilter"}
    BY <1>3
<1>8. QueryOK'
    BY <1>1, <1>2, <1>5, <1>6, <1>7 DEF BaseInv, QueryOK
<1>9. PageOK'
    BY <1>1, <1>3 DEF BaseInv, PageOK, IsPart
<1> QED BY <1>1, <1>4, <1>8, <1>9 DEF BaseInv

\* The commands of a request that leave page and query alone.
Moves(pc) ==
    /\ UNCHANGED <<query, walk, tail>> /\ req'.pc = pc /\ req'.page = req.page
    /\ req' = [pc |-> req'.pc, index |-> req'.index, blobs |-> req'.blobs,
               page |-> req'.page, total |-> req'.total, ended |-> req'.ended,
               flying |-> req'.flying]

LEMMA BaseMoves ==
    ASSUME BaseInv, Still, NEW pc, Moves(pc),
           \/ query.list = "runs"  /\ pc \in RunsPC
           \/ query.list = "stats" /\ pc \in StatsPC,
           pc \in {"blobs", "filter", "countblobs", "countfilter"} => backend = "redis",
           req'.index \subseteq Run, req'.total \in 0 .. Cardinality(Run), BlobsOK'
    PROVE  BaseInv'
<1>1. RowsOK' /\ Shapes'
    BY DEF BaseInv, Still, RowsOK, Shapes, Moves
<1>2. QueryOK'
  <2>1. query.list = "runs" => query.limit > 0
      BY QueriesAssumption DEF BaseInv, QueryOK, NoQuery
  <2> QED BY <2>1 DEF BaseInv, QueryOK, Moves, Still
<1>3. PageOK'
    BY DEF BaseInv, PageOK, Moves, Still
<1> QED BY <1>1, <1>2, <1>3 DEF BaseInv

\* The list that is asked for, from how far the answer is.
LEMMA ListOf ==
    ASSUME BaseInv
    PROVE  /\ req.pc \in {"runs", "blobs", "filter", "count", "countblobs", "countfilter"}
                => query.list = "runs"
           /\ req.pc = "defs" => query.list = "defs"
           /\ req.pc \in {"stats", "statblobs", "stats2", "told"} => query.list = "stats"
           /\ req.pc \in {"stream", "snapshot", "listen", "tail"} => query.list = "stream"
           /\ req.pc = "reply" => query.list \in {"runs", "defs"}
           /\ query.list \in {"runs", "defs"} => query.limit > 0
           /\ query.list \in {"runs", "defs", "stats", "stream"} => query # NoQuery
           /\ query # NoQuery => query.list \in {"runs", "defs", "stats", "stream"}
BY QueriesAssumption
   DEF BaseInv, QueryOK, NoQuery, RunsPC, DefsPC, StatsPC, StreamPC, Paged

LEMMA BaseRunsRead ==
    ASSUME BaseInv,
           CountRuns \/ RedisLoadIndex \/ RedisLoadBlobs \/ RedisCountRuns
    PROVE  BaseInv'
<1>1. Still /\ UNCHANGED <<query, walk, tail>> /\ query.list = "runs"
    BY ListOf DEF CountRuns, RedisLoadIndex, RedisLoadBlobs, RedisCountRuns, Still
<1>2. Cardinality(Run) \in Nat /\ \A S \in SUBSET Run : Cardinality(S) \in 0 .. Cardinality(Run)
    BY FiniteLists DEF BaseInv
<1>3. CASE CountRuns
  <2>1. /\ Moves("reply") /\ req'.index = req.index
        /\ req'.total = Cardinality(MemoryFilterRuns(query.filter))
      BY <1>1, <1>3 DEF CountRuns, Moves, BaseInv, Shapes
  <2>2. req'.total \in 0 .. Cardinality(Run)
      BY <1>2, <2>1, FiniteLists DEF BaseInv
  <2>3. BlobsOK' /\ req'.index \subseteq Run
      BY <2>1 DEF BlobsOK, Moves, BaseInv, PageOK
  <2> QED BY <1>1, <2>1, <2>2, <2>3, BaseMoves DEF RunsPC, Paged
<1>4. CASE RedisLoadIndex
  <2>1. PICK pc \in {"blobs", "countblobs"} :
            Moves(pc) /\ req'.index = RedisIndex(query.filter) /\ req'.total = req.total
      BY <1>1, <1>4 DEF RedisLoadIndex, Moves, BaseInv, Shapes
  <2>2. BlobsOK' /\ req'.index \subseteq Run /\ req'.total \in 0 .. Cardinality(Run)
      BY <2>1 DEF BlobsOK, Moves, RedisIndex, BaseInv, PageOK
  <2>3. backend = "redis"
      BY <1>4 DEF RedisLoadIndex
  <2> QED BY <1>1, <2>1, <2>2, <2>3, BaseMoves DEF RunsPC, Paged
<1>5. CASE RedisLoadBlobs
  <2>1. PICK pc \in {"filter", "countfilter"} :
            /\ Moves(pc) /\ req'.blobs = [i \in req.index \cap Present |-> run[i]]
            /\ req'.total = req.total /\ req'.index = req.index
      BY <1>1, <1>5 DEF RedisLoadBlobs, Moves, BaseInv, Shapes
  <2>2. BlobsOK'
      BY <1>1, <2>1 DEF BlobsOK, Moves, Present, Still
  <2>3. req'.index \subseteq Run /\ req'.total \in 0 .. Cardinality(Run)
      BY <2>1 DEF BaseInv, PageOK
  <2>4. backend = "redis"
      BY <1>5 DEF RedisLoadBlobs, BaseInv, QueryOK
  <2> QED BY <1>1, <2>1, <2>2, <2>3, <2>4, BaseMoves DEF RunsPC, Paged
<1>6. CASE RedisCountRuns
  <2>1. PICK o \in RedisRuns(query.filter, req.blobs, triggers) :
            req' = [req EXCEPT !.total = Len(o), !.pc = "reply", !.blobs = <<>>, !.index = {}]
      BY <1>6 DEF RedisCountRuns
  <2>2. Moves("reply") /\ req'.index = {} /\ req'.total = Len(o)
      BY <1>1, <2>1 DEF Moves, BaseInv, Shapes
  <2>3. Found \subseteq Run /\ o \in SetToSeqs(Found)
      BY <1>6, <2>1, BlobOrder DEF BaseInv, RedisCountRuns
  <2>4. Len(o) \in 0 .. Cardinality(Run)
      BY <1>2, <2>3, OrderIsOnto, FiniteLists DEF BaseInv
  <2>5. BlobsOK'
      BY <2>2 DEF BlobsOK, Moves
  <2> QED BY <1>1, <2>2, <2>4, <2>5, BaseMoves DEF RunsPC, Paged
<1> QED BY <1>3, <1>4, <1>5, <1>6

LEMMA BaseStats ==
    ASSUME BaseInv, MemoryStats \/ RedisStatsIndex \/ RedisStats \/ PgStats
    PROVE  BaseInv'
<1>1. Still /\ UNCHANGED <<query, walk, tail>> /\ query.list = "stats"
    BY ListOf DEF MemoryStats, RedisStatsIndex, RedisStats, PgStats, Still
<1>2. PICK pc \in {"statblobs", "stats2", "told"} :
          Moves(pc) /\ req'.index \subseteq Run /\ req'.total = req.total
  <2>1. CASE MemoryStats
      BY <1>1, <2>1 DEF MemoryStats, Moves, BaseInv, Shapes, PageOK
  <2>2. CASE RedisStatsIndex
      BY <1>1, <2>2 DEF RedisStatsIndex, RedisIndex, Moves, BaseInv, Shapes
  <2>3. CASE RedisStats
      BY <1>1, <2>3 DEF RedisStats, Moves, BaseInv, Shapes
  <2>4. CASE PgStats
      BY <1>1, <2>4 DEF PgStats, PgStatsQuery, Moves, BaseInv, Shapes, PageOK
  <2> QED BY <2>1, <2>2, <2>3, <2>4
<1>3. BlobsOK' /\ req'.total \in 0 .. Cardinality(Run)
    BY <1>2 DEF BlobsOK, Moves, BaseInv, PageOK
<1> QED BY <1>1, <1>2, <1>3, BaseMoves DEF StatsPC

LEMMA BaseRequest == ASSUME BaseInv, Request PROVE BaseInv'
<1>1. RowsOK' /\ Shapes'
    BY DEF Request, BaseInv, RowsOK, Shapes
<1>2. /\ req'.pc = query.list /\ req'.page = req.page /\ req'.index = req.index
      /\ req'.total = req.total /\ UNCHANGED <<query, backend, tail, topic>>
      /\ walk'.n = walk.n /\ walk'.offset = walk.offset
    BY DEF Request, BaseInv, Shapes
<1>3. query.list \in {"runs", "defs", "stats", "stream"}
    BY ListOf DEF Request
<1>4. BlobsOK'
    BY <1>2, <1>3 DEF BlobsOK
<1>5. QueryOK'
    BY <1>2, <1>3, ListOf DEF BaseInv, QueryOK, RunsPC, DefsPC, StatsPC, StreamPC, Paged
<1>6. PageOK'
    BY <1>2 DEF BaseInv, PageOK
<1> QED BY <1>1, <1>4, <1>5, <1>6 DEF BaseInv

\* A request that has been answered.
LEMMA BaseDone ==
    ASSUME BaseInv, Still, req' = Idle, query' = query \/ query' = NoQuery,
           walk'.n = walk.n, walk'.offset \in Nat, Shapes'
    PROVE  BaseInv'
<1>1. RowsOK'
    BY DEF BaseInv, RowsOK, Still
<1>2. /\ req'.pc = "idle" /\ req'.page = <<>> /\ req'.index = {} /\ req'.total = 0
    BY DEF Idle
<1>3. BlobsOK'
    BY <1>2 DEF BlobsOK
<1>4. QueryOK'
  <2>1. CASE query' = query
      BY <1>2, <2>1 DEF BaseInv, QueryOK, RunsPC, DefsPC, StatsPC, StreamPC, Paged
  <2>2. CASE query' = NoQuery
      BY <1>2, <2>2 DEF QueryOK, NoQuery
  <2> QED BY <2>1, <2>2
<1>5. PageOK'
  <2>1. Cardinality(Run) \in Nat
      BY FiniteLists DEF BaseInv
  <2>2. <<>> \in Seq(Nat) /\ Len(<<>>) = 0 /\ IsInjective(<<>>)
      BY DEF IsInjective
  <2>3. query'.limit \in Nat
      BY <1>4 DEF QueryOK
  <2> QED BY <1>2, <2>1, <2>2, <2>3 DEF BaseInv, PageOK, Still
<1> QED BY <1>1, <1>3, <1>4, <1>5 DEF BaseInv

LEMMA BaseReplies ==
    ASSUME BaseInv, Reply \/ ReplyStats \/ CloseStream \/ CloseTail
    PROVE  BaseInv'
<1>1. Still
    BY DEF Reply, ReplyStats, CloseStream, CloseTail, EndStream, Still
<1>2. CASE Reply
  <2>1. walk.offset \in Nat /\ Len(req.page) \in Nat
      BY DEF BaseInv, PageOK
  <2>2. /\ req' = Idle /\ (query' = query \/ query' = NoQuery)
        /\ walk'.n = walk.n /\ walk'.offset \in {walk.offset + Len(req.page), 0}
        /\ Shapes'
      BY <1>2 DEF Reply, BaseInv, Shapes, NoWalk, Idle
  <2>3. walk'.offset \in Nat
      BY <2>1, <2>2
  <2> QED BY <1>1, <2>2, <2>3, BaseDone
<1>3. CASE ReplyStats
  <2>1. req' = Idle /\ query' = NoQuery /\ walk' = walk /\ Shapes'
      BY <1>3 DEF ReplyStats, BaseInv, Shapes, Idle
  <2> QED BY <1>1, <2>1, BaseDone DEF BaseInv, PageOK
<1>4. CASE CloseStream \/ CloseTail
  <2>1. req' = Idle /\ query' = NoQuery /\ walk' = walk /\ Shapes'
      BY <1>4 DEF CloseStream, CloseTail, EndStream, BaseInv, Shapes, Idle, NoTail
  <2> QED BY <1>1, <2>1, BaseDone DEF BaseInv, PageOK
<1> QED BY <1>2, <1>3, <1>4

LEMMA BaseStream ==
    ASSUME BaseInv, OpenStream \/ SendSnapshot \/ SendEvent \/ \E c \in Conn : Listen(c)
    PROVE  BaseInv'
<1>1. Still /\ UNCHANGED <<query, walk>> /\ query.list = "stream"
    BY ListOf DEF OpenStream, SendSnapshot, Listen, SendEvent, TakeNote, Streaming, Still
<1>2. PICK pc \in {"snapshot", "listen", "tail"} : req' = [req EXCEPT !.pc = pc]
    BY DEF OpenStream, SendSnapshot, Listen, SendEvent, TakeNote, Streaming
<1>3. req' = [pc |-> pc, index |-> req.index, blobs |-> req.blobs, page |-> req.page,
              total |-> req.total, ended |-> req.ended, flying |-> req.flying]
    BY <1>2 DEF BaseInv, Shapes
<1>4. Shapes'
  <2>1. tail' = [sent |-> tail'.sent, conn |-> tail'.conn, missed |-> tail'.missed,
                 fresh |-> tail'.fresh]
    <3>1. tail = [sent |-> tail.sent, conn |-> tail.conn, missed |-> tail.missed,
                  fresh |-> tail.fresh]
        BY DEF BaseInv, Shapes
    <3>2. CASE OpenStream
        BY <3>1, <3>2 DEF OpenStream
    <3>3. CASE SendSnapshot
        BY <3>1, <3>3 DEF SendSnapshot
    <3>4. CASE SendEvent
        BY <3>1, <3>4 DEF SendEvent, TakeNote
    <3>5. CASE \E c \in Conn : Listen(c)
        BY <3>1, <3>5 DEF Listen
    <3> QED BY <3>2, <3>3, <3>4, <3>5
  <2> QED BY <1>1, <1>3, <2>1 DEF BaseInv, Shapes
<1>5. req'.pc = pc /\ req'.page = req.page /\ req'.index = req.index /\ req'.total = req.total
    BY <1>3
<1>6. RowsOK' /\ BlobsOK' /\ PageOK'
    BY <1>1, <1>5 DEF BaseInv, RowsOK, BlobsOK, PageOK, Still
<1>7. QueryOK'
    BY <1>1, <1>5, QueriesAssumption DEF BaseInv, QueryOK, StreamPC, NoQuery, Topic
<1> QED BY <1>4, <1>6, <1>7 DEF BaseInv

LEMMA BaseAppend ==
    ASSUME BaseInv, \/ \E r \in Run, key \in EventKey : AppendEvent(r, key)
                    \/ \E c \in Conn : DropConn(c)
    PROVE  BaseInv'
<1>1. Still /\ UNCHANGED <<query, req, walk>>
    BY DEF AppendEvent, DropConn, Still
<1>2. Shapes'
    BY <1>1 DEF AppendEvent, DropConn, BaseInv, Shapes
<1>3. RowsOK' /\ BlobsOK' /\ PageOK' /\ QueryOK'
    BY <1>1 DEF BaseInv, RowsOK, BlobsOK, PageOK, QueryOK, Still
<1> QED BY <1>2, <1>3 DEF BaseInv

LEMMA BaseRead == ASSUME BaseInv, ReadStep PROVE BaseInv'
BY BaseAsk, BaseLists, BaseRunsRead, BaseStats, BaseRequest, BaseReplies, BaseStream, BaseAppend
   DEF ReadStep

LEMMA BaseNext == BaseInv /\ [Next]_vars => BaseInv'
<1> SUFFICES ASSUME BaseInv, [Next]_vars PROVE BaseInv'
    OBVIOUS
<1>1. CASE UNCHANGED vars
    BY <1>1 DEF vars, BaseInv, RowsOK, Shapes, QueryOK, BlobsOK, PageOK
<1>2. CASE ReadStep
    BY <1>2, BaseRead
<1> QED BY <1>1, <1>2, StepSplit, BaseChange DEF BaseInv

\* Lists, requests and walks keep their types; no page is longer than the limit asked for
\* or holds a row twice, and no total exceeds the number of runs.
THEOREM TypeCorrect == Spec => []TypeOK
<1>1. BaseInv => TypeOK
  <2> SUFFICES ASSUME BaseInv PROVE TypeOK
      OBVIOUS
  <2>1. \A i \in Run : run[i].state \in InFlight \cup {"succeeded", "failed", "cancelled", Nil}
      BY DEF BaseInv, RowsOK, RunRow
  <2> QED BY <2>1 DEF BaseInv, RowsOK, PageOK, TypeOK
<1> QED BY <1>1, BaseInit, BaseNext, PTL DEF Spec

-----------------------------------------------------------------------------
(***************************************************************************)
(* Every row of a page matched.                                            *)
(***************************************************************************)
\* A trigger that exists no longer never makes a run match.
LEMMA FewerTypes ==
    ASSUME NEW r, NEW f, NEW T, NEW U \in SUBSET T, RunMatches(r, f, U)
    PROVE  RunMatches(r, f, T)
BY DEF RunMatches

MatchInv ==
    /\ req.pc # "idle" => Matching \subseteq walk.ever
    /\ req.pc = "filter" => Found \subseteq walk.ever
    /\ req.pc \in Paged => Range(req.page) \subseteq walk.ever

LEMMA SameMatching == ASSUME Still, query' = query PROVE Matching' = Matching
BY DEF Still, Matching, MemoryFilterRuns, Present

LEMMA WhatMatches ==
    /\ query.list = "runs" => Matching = MemoryFilterRuns(query.filter)
    /\ query.list = "defs" => Matching = MatchingDefs
    /\ query.list \notin {"runs", "defs"} => Matching = {}
BY DEF Matching, MatchingDefs

LEMMA PageOfOrder ==
    ASSUME NEW S, IsFiniteSet(S), NEW o \in SetToSeqs(S), NEW p, NEW a, NEW b,
           IsPart(p, o, a, b)
    PROVE  Range(p) \subseteq S
<1>1. \A k \in DOMAIN o : o[k] \in S
    BY OrderIsOnto
<1> QED BY <1>1 DEF IsPart

LEMMA MatchChange == ASSUME BaseInv, MatchInv, ChangeStep PROVE MatchInv'
<1>1. UNCHANGED <<query, req>> /\ triggers' \subseteq triggers
    BY DEF ChangeStep, Keeps
<1>2. CASE query = NoQuery
  <2>1. req.pc = "idle"
      BY <1>2, QueriesAssumption DEF BaseInv, QueryOK, NoQuery
  <2> QED BY <1>1, <2>1 DEF MatchInv, Paged
<1>3. CASE query # NoQuery
  <2>1. walk'.ever = walk.ever \cup Matching'
      BY <1>3 DEF ChangeStep, Observe, BaseInv, Shapes
  <2>2. Found' \subseteq Found
      BY <1>1, FewerTypes DEF Found
  <2> QED BY <1>1, <2>1, <2>2 DEF MatchInv
<1> QED BY <1>2, <1>3

\* A page is cut out of an order of the rows that match, or of those that Redis has found.
LEMMA ListSteps ==
    ASSUME BaseInv, ListRuns \/ ListDefinitions \/ RedisListRuns
    PROVE  \E S : /\ IsFiniteSet(S) /\ S \subseteq Nat
                 /\ \E o \in SetToSeqs(S) :
                       /\ IsPart(req'.page, o, walk.offset, query.limit)
                       /\ \A i, j \in DOMAIN o : i < j => ~Before(o[j], o[i])
                 /\ \/ S = Matching /\ req.pc \in {"runs", "defs"}
                    \/ S = Found /\ req.pc = "filter"
                 /\ req'.pc \in {"count", "reply"}
<1>0. Shapes /\ walk.offset \in Nat /\ query.limit \in Nat
    BY DEF BaseInv, PageOK, QueryOK
<1>1. CASE ListRuns
  <2>1. PICK o \in IF backend = "memory" THEN MemoryRuns(query.filter)
                                        ELSE PgRuns(query.filter) : Answer(o, "count")
      BY <1>1 DEF ListRuns
  <2>2. query.list = "runs" /\ req.pc = "runs" /\ backend # "redis"
      BY <1>1, ListOf DEF ListRuns
  <2> DEFINE S == MemoryFilterRuns(query.filter)
  <2>3. IsFiniteSet(S) /\ S \in SUBSET Nat /\ o \in SetToSeqs(S) /\ S = Matching
      BY <2>1, <2>2, RunOrder, FiniteLists, WhatMatches DEF BaseInv
  <2> HIDE DEF S
  <2>4. IsPart(req'.page, o, walk.offset, query.limit) /\ req'.pc = "count"
      BY <1>0, <2>1, <2>3, Answered
  <2>5. \A i, j \in DOMAIN o : i < j => ~Before(o[j], o[i])
      BY <2>1, <2>2, RunOrder DEF Before, BaseInv
  <2> QED BY <2>2, <2>3, <2>4, <2>5
<1>2. CASE ListDefinitions
  <2>1. PICK o \in Defs(query.filter) : Answer(o, "reply")
      BY <1>2 DEF ListDefinitions
  <2>2. query.list = "defs" /\ req.pc = "defs"
      BY <1>2, ListOf DEF ListDefinitions
  <2>3. /\ IsFiniteSet(MatchingDefs) /\ MatchingDefs \in SUBSET Nat
        /\ o \in SetToSeqs(MatchingDefs) /\ MatchingDefs = Matching
      BY <2>1, <2>2, DefOrder, FiniteLists, WhatMatches DEF BaseInv
  <2>4. IsPart(req'.page, o, walk.offset, query.limit) /\ req'.pc = "reply"
      BY <1>0, <2>1, <2>3, Answered
  <2>5. \A i, j \in DOMAIN o : i < j => ~Before(o[j], o[i])
      BY <2>1, <2>2, DefOrder DEF Before, BaseInv
  <2> QED BY <2>2, <2>3, <2>4, <2>5
<1>3. CASE RedisListRuns
  <2>1. PICK o \in RedisRuns(query.filter, req.blobs, triggers) : Answer(o, "count")
      BY <1>3 DEF RedisListRuns
  <2>2. req.pc = "filter" /\ query.list = "runs"
      BY <1>3, ListOf DEF RedisListRuns
  <2>3. IsFiniteSet(Found) /\ Found \in SUBSET Nat /\ o \in SetToSeqs(Found)
      BY <2>1, <2>2, BlobOrder, FiniteLists DEF BaseInv
  <2>4. IsPart(req'.page, o, walk.offset, query.limit) /\ req'.pc = "count"
      BY <1>0, <2>1, <2>3, Answered
  <2>5. \A i \in DOMAIN o : o[i] \in DOMAIN req.blobs
                             /\ req.blobs[o[i]].started = run[o[i]].started
    <3>1. \A i \in DOMAIN o : o[i] \in Found
        BY <2>3, OrderIsOnto
    <3> QED BY <2>2, <3>1 DEF Found, BaseInv, BlobsOK
  <2>6. ASSUME NEW i \in DOMAIN o, NEW j \in DOMAIN o, i < j PROVE ~Before(o[j], o[i])
    <3>1. /\ ~(run[o[j]].started > run[o[i]].started)
          /\ query.filter.wf = Nil => ~(run[o[j]].started = run[o[i]].started /\ o[j] < o[i])
        BY <2>1, <2>2, <2>5, <2>6, BlobOrder DEF BaseInv
    <3> QED BY <2>2, <3>1 DEF Before
  <2> QED BY <2>2, <2>3, <2>4, <2>6
<1> QED BY <1>1, <1>2, <1>3

LEMMA MatchRead == ASSUME BaseInv, MatchInv, ReadStep PROVE MatchInv'
<1>1. Still
    BY ReadsOnly
<1>2. CASE ListRuns \/ ListDefinitions \/ RedisListRuns
  <2>1. UNCHANGED <<query, walk>> /\ req.pc # "idle"
      BY <1>2 DEF ListRuns, ListDefinitions, RedisListRuns
  <2>2. Matching' = Matching
      BY <1>1, <2>1, SameMatching
  <2>3. Range(req'.page) \subseteq walk.ever /\ req'.pc \in {"count", "reply"}
    <3>1. PICK S : /\ IsFiniteSet(S) /\ S \subseteq Nat
                   /\ \E o \in SetToSeqs(S) : IsPart(req'.page, o, walk.offset, query.limit)
                   /\ S = Matching \/ (S = Found /\ req.pc = "filter")
                   /\ req'.pc \in {"count", "reply"}
        BY <1>2, ListSteps
    <3>2. Range(req'.page) \subseteq S
        BY <3>1, PageOfOrder
    <3> QED BY <2>1, <3>1, <3>2 DEF MatchInv
  <2> QED BY <2>1, <2>2, <2>3 DEF MatchInv
<1>3. CASE RedisLoadBlobs
  <2>1. /\ UNCHANGED <<query, walk>> /\ req.pc \in {"blobs", "countblobs"}
        /\ req'.pc = (IF req.pc = "blobs" THEN "filter" ELSE "countfilter")
        /\ req'.page = req.page /\ req'.blobs = [i \in req.index \cap Present |-> run[i]]
      BY <1>3 DEF RedisLoadBlobs, BaseInv, Shapes
  <2>2. Matching' = Matching /\ Matching = MemoryFilterRuns(query.filter)
      BY <1>1, <2>1, SameMatching, ListOf, WhatMatches
  <2>3. Found' \subseteq Matching
      BY <1>1, <2>1, <2>2 DEF Found, MemoryFilterRuns, Still
  <2> QED BY <2>1, <2>2, <2>3 DEF MatchInv, Paged
<1>4. CASE Request
  <2>1. /\ query' = query /\ req'.pc = query.list /\ walk'.ever = Matching
        /\ query.list \in {"runs", "defs", "stats", "stream"}
      BY <1>4, ListOf DEF Request, BaseInv, Shapes
  <2>2. Matching' = Matching
      BY <1>1, <2>1, SameMatching
  <2> QED BY <2>1, <2>2 DEF MatchInv, Paged
<1>5. CASE \/ \E list, f, limit : Ask(list, f, limit)
           \/ Reply \/ ReplyStats \/ CloseStream \/ CloseTail
  <2>1. req'.pc = "idle"
      BY <1>5, QueriesAssumption DEF Ask, Reply, ReplyStats, CloseStream, CloseTail, EndStream,
         Idle, BaseInv, QueryOK, NoQuery
  <2> QED BY <2>1 DEF MatchInv, Paged
<1>6. CASE \/ CountRuns \/ RedisLoadIndex \/ RedisCountRuns
           \/ MemoryStats \/ RedisStatsIndex \/ RedisStats \/ PgStats
           \/ OpenStream \/ SendSnapshot \/ SendEvent \/ \E c \in Conn : Listen(c)
  <2>1. /\ UNCHANGED <<query, walk>> /\ req'.page = req.page
        /\ req'.pc # "filter" /\ (req.pc = "idle" => req'.pc = "idle")
        /\ req'.pc \in Paged => req.pc \in Paged
    <3>1. CASE CountRuns \/ RedisLoadIndex \/ RedisCountRuns
        BY <3>1 DEF CountRuns, RedisLoadIndex, RedisCountRuns, BaseInv, Shapes, Paged
    <3>2. CASE MemoryStats \/ RedisStatsIndex \/ RedisStats \/ PgStats
        BY <3>2 DEF MemoryStats, RedisStatsIndex, RedisStats, PgStats, PgStatsQuery, BaseInv,
           Shapes, Paged
    <3>3. CASE OpenStream \/ SendSnapshot \/ SendEvent \/ \E c \in Conn : Listen(c)
        BY <3>3 DEF OpenStream, SendSnapshot, Listen, SendEvent, TakeNote, Streaming, BaseInv,
           Shapes, Paged
    <3> QED BY <1>6, <3>1, <3>2, <3>3
  <2>2. Matching' = Matching
      BY <1>1, <2>1, SameMatching
  <2> QED BY <2>1, <2>2 DEF MatchInv
<1>7. CASE \/ \E r \in Run, key \in EventKey : AppendEvent(r, key)
           \/ \E c \in Conn : DropConn(c)
  <2>1. UNCHANGED <<query, walk, req>>
      BY <1>7 DEF AppendEvent, DropConn
  <2>2. Matching' = Matching /\ Found' = Found
      BY <1>1, <2>1, SameMatching DEF Found, Still
  <2> QED BY <2>1, <2>2 DEF MatchInv
<1> QED BY <1>2, <1>3, <1>4, <1>5, <1>6, <1>7 DEF ReadStep

\* Every row of every page matched the filter at some moment between the request and the
\* answer, on each store and whatever ends, expires or loses its trigger in between
\* (redis/query.go:26-109).
THEOREM PagesMatched == Spec => []RowsMatched
<1> DEFINE I == BaseInv /\ MatchInv
<1>1. Init => I
    BY BaseInit DEF Init, MatchInv, Idle, Paged
<1>2. I /\ [Next]_vars => I'
  <2> SUFFICES ASSUME BaseInv, MatchInv, [Next]_vars PROVE MatchInv'
      BY BaseNext
  <2>1. CASE UNCHANGED vars
    <3>1. Matching' = Matching /\ Found' = Found
        BY <2>1 DEF vars, Matching, MemoryFilterRuns, Present, Found
    <3> QED BY <2>1, <3>1 DEF vars, MatchInv
  <2> QED BY <2>1, StepSplit, MatchChange, MatchRead DEF BaseInv
<1>3. I => RowsMatched
    BY DEF MatchInv, RowsMatched, Paged
<1> QED BY <1>1, <1>2, <1>3, PTL DEF Spec

-----------------------------------------------------------------------------
(***************************************************************************)
(* A run is counted as ended and as in flight only if it came back.        *)
(***************************************************************************)
\* Between the two statements of Postgres a run that was counted as ended is not in flight,
\* unless it has come back.
CountInv ==
    /\ req.pc = "stats2" =>
          /\ backend = "postgres"
          /\ \A i \in req.ended : i \in Run /\ (run[i].state \notin InFlight \/ i \in walk.reopened)
    /\ CountedOnce

LEMMA CountRead == ASSUME BaseInv, CountInv, ReadStep PROVE CountInv'
<1>1. Still
    BY ReadsOnly
<1>2. CASE MemoryStats
  <2>1. req'.pc = "told" /\ req'.ended = Ended(Rows) /\ req'.flying = Flying(Rows)
      BY <1>2 DEF MemoryStats, BaseInv, Shapes
  <2>2. Ended(Rows) \cap Flying(Rows) = {}
      BY DEF Ended, Flying, InFlight
  <2> QED BY <2>1, <2>2 DEF CountInv, CountedOnce
<1>3. CASE RedisStats
  <2> DEFINE B == [i \in req.index \cap Present |-> run[i]]
  <2>1. req'.pc = "told" /\ req'.ended = Ended(B) /\ req'.flying = Flying(B)
      BY <1>3 DEF RedisStats, BaseInv, Shapes
  <2>2. Ended(B) \cap Flying(B) = {}
      BY DEF Ended, Flying, InFlight
  <2> QED BY <2>1, <2>2 DEF CountInv, CountedOnce
<1>4. CASE PgStats
  <2>1. CASE req.pc = "stats"
    <3>1. req'.pc = "stats2" /\ req'.ended = Ended(Rows) /\ backend = "postgres"
        BY <1>4, <2>1 DEF PgStats, PgStatsQuery, BaseInv, Shapes
    <3>2. \A i \in Ended(Rows) : i \in Run /\ run[i].state \notin InFlight
        BY DEF Ended, Rows, Present, InFlight
    <3> QED BY <1>1, <3>1, <3>2 DEF CountInv, CountedOnce, Still
  <2>2. CASE req.pc = "stats2"
    <3>1. /\ req'.pc = "told" /\ req'.ended = req.ended /\ req'.flying = Flying(Rows)
          /\ UNCHANGED <<walk, backend>>
      <4>1. req' = [PgStatsQuery(2) EXCEPT !.pc = "told"]
          BY <1>4, <2>2 DEF PgStats
      <4>2. PgStatsQuery(2) = [req EXCEPT !.flying = Flying(Rows)]
          BY DEF PgStatsQuery
      <4> QED BY <1>4, <4>1, <4>2 DEF PgStats, BaseInv, Shapes
    <3>2. \A i \in Flying(Rows) : run[i].state \in InFlight
        BY DEF Flying, Rows
    <3> QED BY <2>2, <3>1, <3>2 DEF CountInv, CountedOnce
  <2> QED BY <1>4, <2>1, <2>2 DEF PgStats
<1>5. CASE \/ \E r \in Run, key \in EventKey : AppendEvent(r, key)
           \/ \E c \in Conn : DropConn(c)
    BY <1>1, <1>5 DEF AppendEvent, DropConn, CountInv, CountedOnce, Still
<1>6. CASE \/ \E list, f, limit : Ask(list, f, limit)
           \/ Reply \/ ReplyStats \/ CloseStream \/ CloseTail \/ Request
           \/ ListRuns \/ ListDefinitions \/ RedisListRuns
           \/ CountRuns \/ RedisLoadIndex \/ RedisLoadBlobs \/ RedisCountRuns
           \/ RedisStatsIndex \/ OpenStream \/ SendSnapshot \/ SendEvent
           \/ \E c \in Conn : Listen(c)
  <2>1. req'.pc \notin {"stats2", "told"}
    <3>1. CASE \E list, f, limit : Ask(list, f, limit)
      <4>1. req.pc = "idle" /\ req' = req
          BY <3>1, QueriesAssumption DEF Ask, BaseInv, QueryOK, NoQuery
      <4> QED BY <4>1
    <3>2. CASE Request
        BY <3>2, ListOf DEF Request, BaseInv, Shapes
    <3>3. CASE Reply \/ ReplyStats \/ CloseStream \/ CloseTail
        BY <3>3 DEF Reply, ReplyStats, CloseStream, CloseTail, EndStream, Idle
    <3>4. CASE ListRuns \/ ListDefinitions \/ RedisListRuns
        BY <3>4, ListSteps
    <3>5. CASE CountRuns \/ RedisLoadIndex \/ RedisLoadBlobs \/ RedisCountRuns
        BY <3>5 DEF CountRuns, RedisLoadIndex, RedisLoadBlobs, RedisCountRuns, BaseInv, Shapes
    <3>6. CASE \/ RedisStatsIndex \/ OpenStream \/ SendSnapshot \/ SendEvent
               \/ \E c \in Conn : Listen(c)
        BY <3>6 DEF RedisStatsIndex, OpenStream, SendSnapshot, Listen, SendEvent, TakeNote,
           Streaming, BaseInv, Shapes
    <3> QED BY <1>6, <3>1, <3>2, <3>3, <3>4, <3>5, <3>6
  <2> QED BY <2>1 DEF CountInv, CountedOnce
<1> QED BY <1>2, <1>3, <1>4, <1>5, <1>6 DEF ReadStep

\* The statistics count a run both as ended and as in flight only in Postgres and only when
\* it came back from its end between the two statements, whatever else is written in between
\* (postgres/runs.go:851-887).
THEOREM NoneCountedTwice == Spec => []CountedOnce
<1> DEFINE I == BaseInv /\ CountInv
<1>1. Init => I
    BY BaseInit DEF Init, CountInv, CountedOnce, Idle
<1>2. I /\ [Next]_vars => I'
  <2> SUFFICES ASSUME BaseInv, CountInv, [Next]_vars PROVE CountInv'
      BY BaseNext
  <2>1. CASE UNCHANGED vars
      BY <2>1 DEF vars, CountInv, CountedOnce
  <2>2. CASE ChangeStep
    <3>1. UNCHANGED <<backend, query, req>>
        BY <2>2 DEF ChangeStep, Keeps
    <3>2. CASE query = NoQuery
      <4>1. walk' = walk /\ req.pc \notin {"stats2", "told"}
          BY <2>2, <3>2, ListOf DEF ChangeStep, Observe
      <4> QED BY <3>1, <4>1 DEF CountInv, CountedOnce
    <3>3. CASE query # NoQuery
      <4>1. walk'.reopened = walk.reopened \cup {i \in req.ended : run'[i].state \in InFlight}
          BY <2>2, <3>3 DEF ChangeStep, Observe, BaseInv, Shapes
      <4> QED BY <3>1, <4>1 DEF CountInv, CountedOnce
    <3> QED BY <3>2, <3>3
  <2> QED BY <2>1, <2>2, StepSplit, CountRead DEF BaseInv
<1>3. I => CountedOnce
    BY DEF CountInv
<1> QED BY <1>1, <1>2, <1>3, PTL DEF Spec

-----------------------------------------------------------------------------
(***************************************************************************)
(* What a stream sends, on a connection that others may have used.         *)
(***************************************************************************)
LEMMA Joined ==
    ASSUME NEW s \in Seq(Nat), NEW q \in Seq(Nat), IsInjective(s), IsInjective(q),
           Range(s) \cap Range(q) = {}
    PROVE  IsInjective(s \o q) /\ Range(s \o q) = Range(s) \cup Range(q)
<1>1. /\ Len(s) \in Nat /\ DOMAIN s = 1 .. Len(s) /\ Len(q) \in Nat /\ DOMAIN q = 1 .. Len(q)
      /\ DOMAIN (s \o q) = 1 .. Len(s) + Len(q)
      /\ \A i \in 1 .. Len(s) + Len(q) : (s \o q)[i] =
              IF i <= Len(s) THEN s[i] ELSE q[i - Len(s)]
    BY ConcatProperties, LenProperties
<1>2. Range(s \o q) = Range(s) \cup Range(q)
    BY RangeConcatenation
<1>3. ASSUME NEW i \in 1 .. Len(s) + Len(q), NEW j \in 1 .. Len(s) + Len(q),
             (s \o q)[i] = (s \o q)[j]
      PROVE  i = j
  <2>1. CASE i <= Len(s) /\ j <= Len(s)
    <3>1. i \in DOMAIN s /\ j \in DOMAIN s /\ s[i] = s[j]
        BY <1>1, <1>3, <2>1
    <3> QED BY <3>1 DEF IsInjective
  <2>2. CASE i > Len(s) /\ j > Len(s)
    <3>1. i - Len(s) \in DOMAIN q /\ j - Len(s) \in DOMAIN q /\ q[i - Len(s)] = q[j - Len(s)]
        BY <1>1, <1>3, <2>2
    <3>2. i - Len(s) = j - Len(s)
        BY <3>1 DEF IsInjective
    <3> QED BY <1>1, <3>2
  <2>3. CASE i <= Len(s) /\ j > Len(s)
    <3>1. i \in DOMAIN s /\ j - Len(s) \in DOMAIN q /\ s[i] = q[j - Len(s)]
        BY <1>1, <1>3, <2>3
    <3> QED BY <3>1 DEF Range
  <2>4. CASE i > Len(s) /\ j <= Len(s)
    <3>1. j \in DOMAIN s /\ i - Len(s) \in DOMAIN q /\ s[j] = q[i - Len(s)]
        BY <1>1, <1>3, <2>4
    <3> QED BY <3>1 DEF Range
  <2> QED BY <1>1, <2>1, <2>2, <2>3, <2>4
<1> QED BY <1>1, <1>2, <1>3 DEF IsInjective

LEMMA SetAsSeq ==
    ASSUME NEW S \in SUBSET Nat, IsFiniteSet(S)
    PROVE  SetToSeq(S) \in Seq(Nat) /\ IsInjective(SetToSeq(S)) /\ Range(SetToSeq(S)) = S
<1> DEFINE q == SetToSeq(S)
<1>1. \E f \in [1 .. Cardinality(S) -> S] : IsInjective(f)
    BY FS_CardinalityType DEF ExistsBijection, Bijection, Injection
<1>2. q \in [1 .. Cardinality(S) -> S] /\ IsInjective(q)
    BY <1>1 DEF SetToSeq
<1> HIDE DEF q
<1>3. q \in SetToSeqs(S)
    BY <1>2 DEF SetToSeqs, IsInjective
<1>4. Cardinality(S) \in Nat /\ \A x \in S : \E i \in DOMAIN q : q[i] = x
    BY <1>3, OrderIsOnto
<1>5. q \in [1 .. Cardinality(S) -> Nat]
    BY <1>2
<1>6. q \in Seq(Nat) /\ Range(q) = S
    BY <1>2, <1>4, <1>5 DEF Range
<1> QED BY <1>2, <1>6 DEF q

\* A queue is its first note and the rest.
LEMMA HeadFirst ==
    ASSUME NEW q \in Seq(Nat), q # <<>>
    PROVE  /\ Head(q) \in Nat /\ Tail(q) \in Seq(Nat) /\ <<Head(q)>> \in Seq(Nat)
           /\ <<Head(q)>> \o Tail(q) = q
<1>1. Head(q) \in Nat /\ Tail(q) \in Seq(Nat)
    BY HeadTailProperties
<1>2. <<Head(q)>> \in Seq(Nat)
    BY <1>1
<1>3. <<Head(q)>> \o Tail(q) \in Seq(Nat)
    BY <1>1, <1>2, ConcatProperties
<1>4. Len(q) \in Nat /\ Len(q) > 0 /\ Len(Tail(q)) = Len(q) - 1 /\ Len(<<Head(q)>>) = 1
    BY EmptySeq, HeadTailProperties, LenProperties
<1>5. Len(<<Head(q)>> \o Tail(q)) = Len(q)
    BY <1>1, <1>2, <1>4, ConcatProperties
<1>6. ASSUME NEW i \in 1 .. Len(q) PROVE (<<Head(q)>> \o Tail(q))[i] = q[i]
  <2>1. (<<Head(q)>> \o Tail(q))[i] = IF i <= 1 THEN <<Head(q)>>[i] ELSE Tail(q)[i - 1]
      BY <1>1, <1>2, <1>4, ConcatProperties
  <2>2. CASE i = 1
      BY <2>1, <2>2
  <2>3. CASE i > 1
    <3>1. i - 1 \in 1 .. Len(Tail(q)) /\ (i - 1) + 1 = i
        BY <1>4, <2>3
    <3>2. Tail(q)[i - 1] = q[(i - 1) + 1]
        BY <3>1, HeadTailProperties
    <3> QED BY <2>1, <2>3, <3>1, <3>2
  <2> QED BY <2>2, <2>3, <1>4
<1> QED BY <1>1, <1>2, <1>3, <1>5, <1>6, SeqEqual

LEMMA NextNote ==
    ASSUME NEW s \in Seq(Nat), NEW q \in Seq(Nat), q # <<>>
    PROVE  /\ Append(s, Head(q)) \in Seq(Nat) /\ Tail(q) \in Seq(Nat)
           /\ Append(s, Head(q)) \o Tail(q) = s \o q
<1>1. Append(s, Head(q)) = s \o <<Head(q)>> /\ Append(s, Head(q)) \in Seq(Nat)
    BY HeadFirst, AppendIsConcat, AppendProperties
<1> QED BY <1>1, HeadFirst, ConcatAssociative

LEMMA NotesJoined ==
    \A s, q, u \in Seq(Nat) : (s \o q) \o u = s \o (q \o u)
<1> SUFFICES ASSUME NEW s \in Seq(Nat), NEW q \in Seq(Nat), NEW u \in Seq(Nat)
             PROVE  (s \o q) \o u = s \o (q \o u)
    OBVIOUS
<1> QED BY ConcatAssociative

LEMMA MoreNotes ==
    ASSUME NEW s \in Seq(Nat), NEW q \in Seq(Nat)
    PROVE  s \o q \in Seq(Nat) /\ Range(s \o q) = Range(s) \cup Range(q)
BY ConcatProperties, RangeConcatenation

\* What is left when the first note is dropped.
LEMMA NoteDropped ==
    ASSUME NEW s \in Seq(Nat), NEW q \in Seq(Nat), q # <<>>
    PROVE  /\ Range(s \o q) = Range(s \o Tail(q)) \cup {Head(q)}
           /\ IsInjective(s \o q) => IsInjective(s \o Tail(q))
<1> DEFINE t == Tail(q)
<1>1. Head(q) \in Nat /\ t \in Seq(Nat) /\ <<Head(q)>> \in Seq(Nat) /\ <<Head(q)>> \o t = q
    BY HeadFirst
<1>2. Len(q) \in Nat /\ Len(q) > 0 /\ Len(t) = Len(q) - 1 /\ Len(s) \in Nat /\ Len(t) \in Nat
    BY <1>1, EmptySeq, HeadTailProperties, LenProperties
<1>3. \A i \in 1 .. Len(t) : t[i] = q[i + 1]
    BY HeadTailProperties
<1> HIDE DEF t
<1>4. Range(q) = {Head(q)} \cup Range(t)
  <2>1. Range(<<Head(q)>>) = {Head(q)}
      BY DEF Range
  <2> QED BY <1>1, <2>1, MoreNotes
<1>5. /\ DOMAIN (s \o q) = 1 .. Len(s) + Len(q) /\ DOMAIN (s \o t) = 1 .. Len(s) + Len(t)
      /\ \A i \in 1 .. Len(s) + Len(q) : (s \o q)[i] = IF i <= Len(s) THEN s[i] ELSE q[i - Len(s)]
      /\ \A i \in 1 .. Len(s) + Len(t) : (s \o t)[i] = IF i <= Len(s) THEN s[i] ELSE t[i - Len(s)]
    BY <1>1, ConcatProperties, LenProperties
<1> DEFINE g(i) == IF i <= Len(s) THEN i ELSE i + 1
<1>6. ASSUME NEW i \in 1 .. Len(s) + Len(t)
      PROVE  g(i) \in 1 .. Len(s) + Len(q) /\ (s \o t)[i] = (s \o q)[g(i)]
  <2>1. g(i) \in 1 .. Len(s) + Len(q)
      BY <1>2
  <2>2. CASE i <= Len(s)
      BY <1>5, <2>1, <2>2
  <2>3. CASE i > Len(s)
    <3>1. i - Len(s) \in 1 .. Len(t) /\ g(i) = i + 1 /\ ~(g(i) <= Len(s))
        BY <1>2, <2>3
    <3>2. PICK k \in 1 .. Len(t) : k = i - Len(s)
        BY <3>1
    <3>3. t[k] = q[k + 1]
        BY <1>3
    <3>4. (s \o t)[i] = t[k] /\ (s \o q)[g(i)] = q[k + 1]
      <4>1. PICK m \in 1 .. Len(s) + Len(q) : m = g(i)
          BY <2>1
      <4>2. m = i + 1 /\ ~(m <= Len(s)) /\ m - Len(s) = k + 1
          BY <1>2, <3>1, <3>2, <4>1
      <4>3. (s \o q)[m] = q[m - Len(s)]
          BY <1>5, <4>2
      <4>4. (s \o t)[i] = t[i - Len(s)]
          BY <1>2, <1>5, <2>3
      <4> QED BY <3>2, <4>1, <4>2, <4>3, <4>4
    <3> QED BY <2>1, <3>3, <3>4
  <2> QED BY <1>2, <2>2, <2>3
<1>7. ASSUME IsInjective(s \o q), NEW i \in 1 .. Len(s) + Len(t), NEW j \in 1 .. Len(s) + Len(t),
             (s \o t)[i] = (s \o t)[j]
      PROVE  i = j
  <2>1. PICK a \in 1 .. Len(s) + Len(q) : a = g(i) /\ (s \o t)[i] = (s \o q)[a]
      BY <1>6
  <2>2. PICK b \in 1 .. Len(s) + Len(q) : b = g(j) /\ (s \o t)[j] = (s \o q)[b]
      BY <1>6
  <2>3. a = b
      BY <1>5, <1>7, <2>1, <2>2 DEF IsInjective
  <2> QED BY <1>2, <2>1, <2>2, <2>3
<1>8. IsInjective(s \o q) => IsInjective(s \o t)
    BY <1>5, <1>7 DEF IsInjective
<1>9. Range(s \o q) = Range(s \o t) \cup {Head(q)}
    BY <1>1, <1>4, MoreNotes
<1> QED BY <1>8, <1>9 DEF t

EventRow == [run : Run, key : EventKey]

ConnRow == [listens : SUBSET Run, notes : Seq(Nat)]

\* What a stream has got: all of its own but what it missed and, if clean, nothing else and
\* nothing twice.
Exact(got, own, missed, clean) ==
    /\ own \ missed \subseteq Range(got)
    /\ clean => IsInjective(got) /\ Range(got) \subseteq own

\* A connection that was fresh LISTENs to the stream's run alone.
StreamInv ==
    /\ events \in Seq(EventRow) /\ pool \in [Conn -> ConnRow]
    /\ req.pc \notin {"listen", "tail"} => tail = NoTail
    /\ req.pc = "listen" => /\ tail.sent \in Seq(Nat) /\ tail.conn = Nil
                            /\ Exact(tail.sent, Own, tail.missed, TRUE)
    /\ req.pc = "tail" =>
          /\ tail.conn \in Conn /\ tail.sent \in Seq(Nat)
          /\ query.filter \in pool[tail.conn].listens
          /\ tail.fresh => pool[tail.conn].listens = {query.filter}
          /\ Exact(tail.sent \o pool[tail.conn].notes, Own, tail.missed, tail.fresh)

LEMMA SameEvents == ASSUME UNCHANGED <<events, query>> PROVE Own' = Own
BY DEF Own

\* The events that an append has added, and whose they are.
LEMMA AppendedEvent ==
    ASSUME BaseInv, StreamInv, NEW r \in Run, NEW key \in EventKey, AppendEvent(r, key),
           NEW new, new = (DOMAIN events') \ DOMAIN events
    PROVE  /\ events' \in Seq(EventRow) /\ new \in SUBSET Nat /\ IsFiniteSet(new)
           /\ new \cap Own = {}
           /\ Own' = IF r = query.filter THEN Own \cup new ELSE Own
<1> DEFINE event == [run |-> r, key |-> key]
<1>1. event \in EventRow /\ event.run = r
    BY DEF EventRow
<1>2. events' \in {events, Append(events, event)} /\ query' = query
    BY DEF AppendEvent, MemoryAppend, RedisAppend, PgAppend, BaseInv, RowsOK
<1> HIDE DEF event
<1>3. PICK n \in Nat : n = Len(events) /\ DOMAIN events = 1 .. n
    BY LenProperties DEF StreamInv
<1>4. CASE events' = events
  <2>1. new = {} /\ Own' = Own
      BY <1>2, <1>4, SameEvents
  <2> QED BY <1>4, <2>1, FS_EmptySet DEF StreamInv
<1>5. CASE events' = Append(events, event)
  <2>1. /\ events' \in Seq(EventRow) /\ Len(events') = n + 1
        /\ \A i \in 1 .. n : events'[i] = events[i]
        /\ events'[n + 1] = event
      BY <1>1, <1>3, <1>5, AppendProperties DEF StreamInv
  <2>2. DOMAIN events' = 1 .. n + 1
      BY <2>1, LenProperties
  <2>3. new = {n + 1} /\ n + 1 \in Nat /\ n + 1 \notin 1 .. n /\ 1 .. n + 1 = (1 .. n) \cup {n + 1}
      BY <1>3, <2>2
  <2>4. IsFiniteSet(new) /\ new \in SUBSET Nat
      BY <2>3, FS_Singleton
  <2>5. new \cap Own = {}
      BY <1>3, <2>3 DEF Own
  <2>6. Own' = {i \in 1 .. n + 1 : events'[i].run = query.filter}
      BY <1>2, <2>2 DEF Own
  <2>7. Own = {i \in 1 .. n : events[i].run = query.filter}
      BY <1>3 DEF Own
  <2>8. Own' = IF r = query.filter THEN Own \cup new ELSE Own
      BY <1>1, <2>1, <2>3, <2>6, <2>7
  <2> QED BY <2>1, <2>4, <2>5, <2>8
<1> QED BY <1>2, <1>4, <1>5

LEMMA StreamAppend ==
    ASSUME BaseInv, StreamInv, NEW r \in Run, NEW key \in EventKey, AppendEvent(r, key)
    PROVE  StreamInv'
<1>1. PICK new : new = (DOMAIN events') \ DOMAIN events
    OBVIOUS
<1>2. /\ events' \in Seq(EventRow) /\ new \in SUBSET Nat /\ IsFiniteSet(new)
      /\ new \cap Own = {}
      /\ Own' = IF r = query.filter THEN Own \cup new ELSE Own
    BY <1>1, AppendedEvent
<1>3. PICK q : q = SetToSeq(new)
    OBVIOUS
<1>4. q \in Seq(Nat) /\ IsInjective(q) /\ Range(q) = new
    BY <1>2, <1>3, SetAsSeq
<1>5. /\ pool' = [c \in Conn |-> Notified(pool[c], r, new)] /\ UNCHANGED <<req, query>>
      /\ tail' = IF req.pc = "listen" /\ query.filter = r
                   THEN [tail EXCEPT !.missed = @ \cup new] ELSE tail
    BY <1>1 DEF AppendEvent
<1>6. ASSUME NEW c \in Conn
      PROVE  /\ pool'[c] \in ConnRow /\ pool'[c].listens = pool[c].listens
             /\ pool'[c].notes = IF r \in pool[c].listens THEN pool[c].notes \o q
                                 ELSE pool[c].notes
             /\ pool[c].notes \in Seq(Nat)
  <2>1. pool[c] \in ConnRow /\ pool[c].notes \in Seq(Nat)
      BY DEF StreamInv, ConnRow
  <2>2. pool'[c] = IF r \in pool[c].listens THEN [pool[c] EXCEPT !.notes = @ \o q] ELSE pool[c]
      BY <1>3, <1>5 DEF Notified
  <2>3. pool[c].notes \o q \in Seq(Nat)
      BY <1>4, <2>1, MoreNotes
  <2> QED BY <2>1, <2>2, <2>3 DEF ConnRow
<1>7. pool' \in [Conn -> ConnRow]
    BY <1>5, <1>6
<1>8. CASE req.pc = "tail"
  <2>1. /\ tail.conn \in Conn /\ tail.sent \in Seq(Nat)
        /\ query.filter \in pool[tail.conn].listens
        /\ tail.fresh => pool[tail.conn].listens = {query.filter}
        /\ Exact(tail.sent \o pool[tail.conn].notes, Own, tail.missed, tail.fresh)
      BY <1>8 DEF StreamInv
  <2>2. tail' = tail
      BY <1>5, <1>8
  <2>3. PICK s : s = tail.sent \o pool[tail.conn].notes
      OBVIOUS
  <2>4. s \in Seq(Nat) /\ pool[tail.conn].notes \in Seq(Nat)
      BY <1>6, <2>1, <2>3, MoreNotes
  <2>5. pool'[tail.conn].listens = pool[tail.conn].listens
      BY <1>6, <2>1
  <2>6. Exact(tail.sent \o pool'[tail.conn].notes, Own', tail.missed, tail.fresh)
    <3>1. CASE r \in pool[tail.conn].listens
      <4>1. tail.sent \o pool'[tail.conn].notes = s \o q
        <5>1. (tail.sent \o pool[tail.conn].notes) \o q = tail.sent \o (pool[tail.conn].notes \o q)
            BY <1>4, <2>1, <2>4, NotesJoined
        <5>2. pool'[tail.conn].notes = pool[tail.conn].notes \o q
            BY <1>6, <2>1, <3>1
        <5> QED BY <2>3, <5>1, <5>2
      <4>2. Range(s \o q) = Range(s) \cup new
          BY <1>4, <2>4, MoreNotes
      <4>3. Own' \ tail.missed \subseteq Range(s \o q)
          BY <1>2, <2>1, <2>3, <4>2 DEF Exact
      <4>4. ASSUME tail.fresh PROVE IsInjective(s \o q) /\ Range(s \o q) \subseteq Own'
        <5>1. r = query.filter /\ IsInjective(s) /\ Range(s) \subseteq Own
            BY <2>1, <2>3, <3>1, <4>4 DEF Exact
        <5>2. Range(s) \cap Range(q) = {}
            BY <1>2, <1>4, <5>1
        <5> QED BY <1>2, <1>4, <2>4, <4>2, <5>1, <5>2, Joined
      <4> QED BY <4>1, <4>3, <4>4 DEF Exact
    <3>2. CASE r \notin pool[tail.conn].listens
      <4>1. pool'[tail.conn].notes = pool[tail.conn].notes /\ r # query.filter
          BY <1>6, <2>1, <3>2
      <4> QED BY <1>2, <2>1, <4>1
    <3> QED BY <3>1, <3>2
  <2> QED BY <1>2, <1>5, <1>7, <1>8, <2>1, <2>2, <2>5, <2>6 DEF StreamInv
<1>9. CASE req.pc = "listen"
  <2>1. tail.sent \in Seq(Nat) /\ tail.conn = Nil /\ Exact(tail.sent, Own, tail.missed, TRUE)
      BY <1>9 DEF StreamInv
  <2>2. /\ tail'.sent = tail.sent /\ tail'.conn = tail.conn
        /\ tail'.missed = IF query.filter = r THEN tail.missed \cup new ELSE tail.missed
      BY <1>5, <1>9 DEF BaseInv, Shapes
  <2>3. Exact(tail'.sent, Own', tail'.missed, TRUE)
      BY <1>2, <2>1, <2>2 DEF Exact
  <2> QED BY <1>2, <1>5, <1>7, <1>9, <2>1, <2>2, <2>3 DEF StreamInv
<1>10. CASE req.pc \notin {"listen", "tail"}
  <2>1. tail' = tail
      BY <1>5, <1>10
  <2> QED BY <1>2, <1>5, <1>7, <1>10, <2>1 DEF StreamInv
<1> QED BY <1>8, <1>9, <1>10

LEMMA StreamSnapshot == ASSUME BaseInv, StreamInv, SendSnapshot PROVE StreamInv'
<1>1. /\ tail = NoTail /\ req'.pc = "listen" /\ UNCHANGED <<events, pool, query>>
    BY DEF SendSnapshot, Streaming, StreamInv, BaseInv, Shapes
<1>2. Own' = Own
    BY <1>1, SameEvents
<1>3. tail'.sent \in Seq(Nat) /\ tail'.conn = Nil /\ Exact(tail'.sent, Own, tail'.missed, TRUE)
  <2>1. CASE \E ids \in Descending(Own, LAMBDA i, j : i < j) : tail' = [tail EXCEPT !.sent = ids]
    <3>1. PICK ids \in SetToSeqs(Own) : tail' = [tail EXCEPT !.sent = ids]
        BY <2>1 DEF Descending
    <3>2. tail'.sent = ids /\ tail'.conn = Nil /\ tail'.missed = {}
        BY <1>1, <3>1 DEF NoTail
    <3>3. IsFiniteSet(Own) /\ Own \subseteq Nat
      <4>1. Len(events) \in Nat /\ DOMAIN events = 1 .. Len(events)
          BY LenProperties DEF StreamInv
      <4>2. Own \in SUBSET Nat /\ \A x \in Own : x <= Len(events)
          BY <4>1 DEF Own
      <4> QED BY <4>1, <4>2, FS_BoundedSetOfNaturals
    <3>4. /\ Cardinality(Own) \in Nat /\ ids \in [1 .. Cardinality(Own) -> Own] /\ Once(ids)
          /\ \A x \in Own : \E i \in DOMAIN ids : ids[i] = x
        BY <3>3, OrderIsOnto
    <3>5. ids \in [1 .. Cardinality(Own) -> Nat]
        BY <3>3, <3>4
    <3>6. ids \in Seq(Nat) /\ Range(ids) = Own /\ IsInjective(ids)
      <4>1. ids \in Seq(Nat)
          BY <3>4, <3>5
      <4>2. Range(ids) = Own
          BY <3>4 DEF Range
      <4>3. IsInjective(ids)
          BY <3>4 DEF IsInjective, Once
      <4> QED BY <4>1, <4>2, <4>3
    <3> QED BY <3>2, <3>6 DEF Exact
  <2>2. CASE tail' = [tail EXCEPT !.missed = Own]
    <3>1. tail'.sent = <<>> /\ tail'.conn = Nil /\ tail'.missed = Own
        BY <1>1, <2>2 DEF NoTail
    <3>2. <<>> \in Seq(Nat) /\ Range(<<>>) = {} /\ IsInjective(<<>>)
        BY DEF Range, IsInjective
    <3> QED BY <3>1, <3>2 DEF Exact
  <2> QED BY <2>1, <2>2 DEF SendSnapshot
<1> QED BY <1>1, <1>2, <1>3 DEF StreamInv

LEMMA StreamListen == ASSUME BaseInv, StreamInv, NEW c \in Conn, Listen(c) PROVE StreamInv'
<1>1. /\ req.pc = "listen" /\ req'.pc = "tail" /\ UNCHANGED <<events, query>>
      /\ query.filter \in Run
    BY ListOf, QueriesAssumption
       DEF Listen, Streaming, BaseInv, Shapes, QueryOK, RunsPC, DefsPC, StatsPC, Paged
<1>2. Own' = Own
    BY <1>1, SameEvents
<1>3. tail.sent \in Seq(Nat) /\ Exact(tail.sent, Own, tail.missed, TRUE)
    BY <1>1 DEF StreamInv
<1>4. /\ tail'.sent = tail.sent /\ tail'.conn = c /\ tail'.missed = tail.missed
      /\ tail'.fresh => pool[c] = NewConn
    BY DEF Listen, BaseInv, Shapes
<1>5. pool[c] \in ConnRow /\ pool[c].notes \in Seq(Nat)
    BY DEF StreamInv, ConnRow
<1> DEFINE d == [pool[c] EXCEPT !.listens = @ \cup {query.filter}]
<1>6. d \in ConnRow /\ d.notes = pool[c].notes /\ d.listens = pool[c].listens \cup {query.filter}
    BY <1>1, <1>5 DEF ConnRow
<1>7. pool' = [pool EXCEPT ![c] = d]
    BY DEF Listen
<1> HIDE DEF d
<1>8. pool' \in [Conn -> ConnRow] /\ pool'[c] = d
    BY <1>6, <1>7 DEF StreamInv
<1>9. Own \ tail.missed \subseteq Range(tail.sent \o pool[c].notes)
    BY <1>3, <1>5, MoreNotes DEF Exact
<1>10. ASSUME tail'.fresh
       PROVE  d.listens = {query.filter} /\ tail.sent \o pool[c].notes = tail.sent
  <2>1. pool[c].notes = <<>> /\ pool[c].listens = {}
      BY <1>4, <1>10 DEF NewConn
  <2> QED BY <1>3, <1>6, <2>1, ConcatEmptySeq
<1>11. Exact(tail.sent \o pool[c].notes, Own, tail.missed, tail'.fresh)
    BY <1>3, <1>9, <1>10 DEF Exact
<1> QED BY <1>1, <1>2, <1>3, <1>4, <1>6, <1>8, <1>10, <1>11 DEF StreamInv

LEMMA StreamSend == ASSUME BaseInv, StreamInv, SendEvent PROVE StreamInv'
<1>1. /\ req.pc = "tail" /\ req'.pc = "tail" /\ UNCHANGED <<events, query>>
      /\ pool[tail.conn].notes # <<>>
    BY DEF SendEvent, TakeNote, Streaming, BaseInv, Shapes
<1>2. Own' = Own
    BY <1>1, SameEvents
<1>3. /\ tail.conn \in Conn /\ tail.sent \in Seq(Nat)
      /\ query.filter \in pool[tail.conn].listens
      /\ tail.fresh => pool[tail.conn].listens = {query.filter}
      /\ Exact(tail.sent \o pool[tail.conn].notes, Own, tail.missed, tail.fresh)
    BY <1>1 DEF StreamInv
<1>4. PICK c \in Conn : c = tail.conn
    BY <1>3
<1>5. PICK q \in Seq(Nat) : q = pool[c].notes /\ q # <<>>
    BY <1>1, <1>4 DEF StreamInv, ConnRow
<1>6. Tail(q) \in Seq(Nat) /\ Head(q) \in Nat
    BY <1>5, HeadFirst
<1>7. /\ pool' \in [Conn -> ConnRow] /\ pool'[c].notes = Tail(q)
      /\ pool'[c].listens = pool[c].listens
  <2>1. pool[c] \in ConnRow
      BY DEF StreamInv
  <2> DEFINE d == [pool[c] EXCEPT !.notes = Tail(@)]
  <2>2. d \in ConnRow /\ d.notes = Tail(q) /\ d.listens = pool[c].listens
      BY <1>5, <1>6, <2>1 DEF ConnRow
  <2>3. pool' = [pool EXCEPT ![c] = d]
      BY <1>4 DEF SendEvent, TakeNote
  <2> HIDE DEF d
  <2>4. pool' \in [Conn -> ConnRow] /\ pool'[c] = d
      BY <2>2, <2>3 DEF StreamInv
  <2> QED BY <2>2, <2>4
<1>8. CASE tail' = [tail EXCEPT !.sent = Append(@, Note)]
  <2>1. /\ tail'.sent = Append(tail.sent, Head(q)) /\ tail'.conn = c
        /\ tail'.missed = tail.missed /\ tail'.fresh = tail.fresh
      BY <1>4, <1>5, <1>8 DEF Note, BaseInv, Shapes
  <2>2. /\ Append(tail.sent, Head(q)) \in Seq(Nat)
        /\ Append(tail.sent, Head(q)) \o Tail(q) = tail.sent \o q
      BY <1>3, <1>5, NextNote
  <2>3. Exact(Append(tail.sent, Head(q)) \o Tail(q), Own, tail.missed, tail.fresh)
      BY <1>3, <1>4, <1>5, <2>2
  <2> QED BY <1>1, <1>2, <1>3, <1>4, <1>7, <2>1, <2>2, <2>3 DEF StreamInv
<1>9. CASE tail' = [tail EXCEPT !.missed = @ \cup {Note}]
  <2>1. /\ tail'.sent = tail.sent /\ tail'.conn = c
        /\ tail'.missed = tail.missed \cup {Head(q)} /\ tail'.fresh = tail.fresh
      BY <1>4, <1>5, <1>9 DEF Note, BaseInv, Shapes
  <2>2. /\ Range(tail.sent \o q) = Range(tail.sent \o Tail(q)) \cup {Head(q)}
        /\ IsInjective(tail.sent \o q) => IsInjective(tail.sent \o Tail(q))
      BY <1>3, <1>5, NoteDropped
  <2>3. Exact(tail.sent \o q, Own, tail.missed, tail.fresh)
      BY <1>3, <1>4, <1>5
  <2>4. Exact(tail.sent \o Tail(q), Own, tail.missed \cup {Head(q)}, tail.fresh)
      BY <2>2, <2>3 DEF Exact
  <2> QED BY <1>1, <1>2, <1>3, <1>4, <1>7, <2>1, <2>4 DEF StreamInv
<1> QED BY <1>8, <1>9 DEF SendEvent, TakeNote

\* A connection goes back to the pool, or is replaced in it.
LEMMA StreamPool ==
    ASSUME BaseInv, StreamInv,
           CloseStream \/ CloseTail \/ \E c \in Conn : DropConn(c)
    PROVE  StreamInv'
<1>1. NewConn \in ConnRow
    BY DEF NewConn, ConnRow
<1>2. CASE CloseStream
  <2>1. req'.pc = "idle" /\ tail' = NoTail /\ UNCHANGED <<events, pool>>
      BY <1>2 DEF CloseStream, EndStream, Idle
  <2> QED BY <2>1 DEF StreamInv
<1>3. CASE CloseTail
  <2>1. req'.pc = "idle" /\ tail' = NoTail /\ events' = events /\ req.pc = "tail"
      BY <1>3 DEF CloseTail, EndStream, Idle
  <2>2. PICK c \in Conn : c = tail.conn
      BY <2>1 DEF StreamInv
  <2>3. pool[c] \in ConnRow
      BY DEF StreamInv
  <2>4. pool' \in [Conn -> ConnRow]
    <3>1. CASE UNCHANGED pool
        BY <3>1 DEF StreamInv
    <3>2. CASE pool[c].notes # <<>> /\ pool' = [pool EXCEPT ![c].notes = Tail(@)]
      <4> DEFINE d == [pool[c] EXCEPT !.notes = Tail(@)]
      <4>1. pool[c].notes \in Seq(Nat)
          BY <2>3 DEF ConnRow
      <4>2. Tail(pool[c].notes) \in Seq(Nat)
          BY <3>2, <4>1, HeadFirst
      <4>3. d \in ConnRow
          BY <2>3, <4>2 DEF ConnRow
      <4>4. pool' = [pool EXCEPT ![c] = d]
          BY <3>2
      <4> HIDE DEF d
      <4> QED BY <4>3, <4>4 DEF StreamInv
    <3>3. CASE pool' = [pool EXCEPT ![c] = NewConn]
        BY <1>1, <3>3 DEF StreamInv
    <3> QED BY <1>3, <2>2, <3>1, <3>2, <3>3 DEF CloseTail
  <2> QED BY <2>1, <2>4 DEF StreamInv
<1>4. CASE \E c \in Conn : DropConn(c)
  <2>1. PICK c \in Conn : DropConn(c)
      BY <1>4
  <2>2. /\ pool' = [pool EXCEPT ![c] = NewConn] /\ UNCHANGED <<events, tail, query, req>>
        /\ c # tail.conn
      BY <2>1 DEF DropConn
  <2>3. pool' \in [Conn -> ConnRow] /\ \A d \in Conn : d # c => pool'[d] = pool[d]
      BY <1>1, <2>2 DEF StreamInv
  <2>4. Own' = Own
      BY <2>2, SameEvents
  <2>5. tail.conn \in Conn => pool'[tail.conn] = pool[tail.conn]
      BY <2>2, <2>3
  <2>6. CASE req.pc = "tail"
    <3>1. /\ tail.conn \in Conn /\ tail.sent \in Seq(Nat)
          /\ query.filter \in pool[tail.conn].listens
          /\ tail.fresh => pool[tail.conn].listens = {query.filter}
          /\ Exact(tail.sent \o pool[tail.conn].notes, Own, tail.missed, tail.fresh)
        BY <2>6 DEF StreamInv
    <3> QED BY <2>2, <2>3, <2>4, <2>5, <2>6, <3>1 DEF StreamInv
  <2>7. CASE req.pc # "tail"
      BY <2>2, <2>3, <2>4, <2>7 DEF StreamInv
  <2> QED BY <2>6, <2>7
<1> QED BY <1>2, <1>3, <1>4

LEMMA StreamRead == ASSUME BaseInv, StreamInv, ReadStep PROVE StreamInv'
<1>1. ASSUME UNCHANGED <<events, pool, tail>>, req.pc \notin {"listen", "tail"},
             req'.pc \notin {"listen", "tail"}
      PROVE  StreamInv'
    BY <1>1 DEF StreamInv
<1>2. CASE \E list, f, limit : Ask(list, f, limit)
  <2>1. req.pc = "idle" /\ req' = req /\ UNCHANGED <<events, pool, tail>>
      BY <1>2, QueriesAssumption DEF Ask, BaseInv, QueryOK, NoQuery
  <2> QED BY <1>1, <2>1
<1>3. CASE Request
  <2>1. req.pc = "idle" /\ req'.pc \in {"runs", "defs", "stats", "stream"}
      BY <1>3, ListOf DEF Request, BaseInv, Shapes
  <2> QED BY <1>1, <1>3, <2>1 DEF Request
<1>4. CASE ListRuns \/ ListDefinitions \/ RedisListRuns
  <2>1. req'.pc \in {"count", "reply"}
      BY <1>4, ListSteps
  <2> QED BY <1>1, <1>4, <2>1 DEF ListRuns, ListDefinitions, RedisListRuns
<1>5. CASE Reply \/ ReplyStats \/ OpenStream
    BY <1>1, <1>5 DEF Reply, ReplyStats, OpenStream, Streaming, Idle, BaseInv, Shapes
<1>6. CASE CountRuns \/ RedisLoadIndex \/ RedisLoadBlobs \/ RedisCountRuns
    BY <1>1, <1>6 DEF CountRuns, RedisLoadIndex, RedisLoadBlobs, RedisCountRuns, BaseInv, Shapes
<1>7. CASE MemoryStats \/ RedisStatsIndex \/ RedisStats \/ PgStats
    BY <1>1, <1>7 DEF MemoryStats, RedisStatsIndex, RedisStats, PgStats, PgStatsQuery, BaseInv,
       Shapes
<1> QED BY <1>2, <1>3, <1>4, <1>5, <1>6, <1>7, StreamAppend, StreamSnapshot, StreamListen,
           StreamSend, StreamPool DEF ReadStep

\* A stream leaves out no event of its run but those recorded between its read of the
\* existing events and its LISTEN and those whose read failed; on a connection that no stream
\* has used before it sends none twice and none of another run (api/handler_stream.go:132-180).
THEOREM StreamedOnce == Spec => []StreamExact
<1> DEFINE I == BaseInv /\ StreamInv
<1>1. Init => I
  <2>1. ASSUME Init PROVE StreamInv
    <3>1. NewConn \in ConnRow
        BY DEF NewConn, ConnRow
    <3>2. pool \in [Conn -> ConnRow] /\ events \in Seq(EventRow)
        BY <2>1, <3>1 DEF Init
    <3>3. req.pc = "idle" /\ tail = NoTail
        BY <2>1 DEF Init, Idle
    <3> QED BY <3>2, <3>3 DEF StreamInv
  <2> QED BY <2>1, BaseInit
<1>2. I /\ [Next]_vars => I'
  <2> SUFFICES ASSUME BaseInv, StreamInv, [Next]_vars PROVE StreamInv'
      BY BaseNext
  <2>1. ASSUME UNCHANGED <<events, pool, tail, query, req>> PROVE StreamInv'
    <3>1. Own' = Own
        BY <2>1, SameEvents
    <3> QED BY <2>1, <3>1 DEF StreamInv
  <2>2. CASE UNCHANGED vars
      BY <2>1, <2>2 DEF vars
  <2>3. CASE ChangeStep
      BY <2>1, <2>3 DEF ChangeStep, Keeps
  <2> QED BY <2>2, <2>3, StepSplit, StreamRead DEF BaseInv
<1>3. I => StreamExact
    BY DEF StreamInv, StreamExact, Exact
<1> QED BY <1>1, <1>2, <1>3, PTL DEF Spec

-----------------------------------------------------------------------------
(***************************************************************************)
(* A walk misses no row that stayed.                                       *)
(***************************************************************************)
AheadIn(S, x) == {y \in S : Before(y, x)}

\* The rows that the page will be cut out of.
Held == CASE req.pc = "blobs"  -> Matching \cap req.index
          [] req.pc = "filter" -> Found
          [] OTHER             -> Matching

\* What the property assumes of the walk so far.
Sure == query.list \in {"runs", "defs"} /\ ~walk.lost /\ NoTies

\* A row that has stayed and was not seen is behind at least as many rows as the offset
\* counts; additions push it only further back.
WalkInv ==
    Sure =>
      /\ walk.stayed \subseteq Matching /\ Held \subseteq Matching
      /\ req.pc \notin Paged => \A x \in walk.stayed \ walk.seen :
             x \in Held /\ Cardinality(AheadIn(Held, x)) >= walk.offset
      /\ req.pc \in Paged =>
             /\ req.page = <<>> => walk.stayed \subseteq walk.seen
             /\ \A x \in walk.stayed \ (walk.seen \cup Range(req.page)) :
                   Cardinality(AheadIn(Matching, x)) >= walk.offset + Len(req.page)

LEMMA MatchingRows ==
    ASSUME BaseInv
    PROVE  /\ IsFiniteSet(Matching) /\ Matching \subseteq Nat
           /\ query.list = "runs" => \A i \in Matching :
                    i \in Run /\ run[i].state # Nil /\ run[i].started \in Nat
                          /\ RunMatches(run[i], query.filter, triggers)
           /\ query.list = "defs" => \A i \in Matching :
                    i \in DOMAIN defs /\ defs[i].ver \in Nat /\ defs[i].created \in Nat
<1>1. CASE query.list = "runs"
  <2>1. Matching = MemoryFilterRuns(query.filter)
      BY <1>1, WhatMatches
  <2>2. \A i \in Run : run[i].started \in Nat
      BY DEF BaseInv, RowsOK, RunRow
  <2> QED BY <1>1, <2>1, <2>2, FiniteLists DEF BaseInv, MemoryFilterRuns, Present
<1>2. CASE query.list = "defs"
  <2>1. Matching = MatchingDefs
      BY <1>2, WhatMatches
  <2>2. \A i \in DOMAIN defs : defs[i] \in DefRow
      BY DEF BaseInv, RowsOK
  <2>3. \A i \in DOMAIN defs : defs[i].ver \in Nat /\ defs[i].created \in Nat
      BY <2>2, QueriesAssumption DEF DefRow
  <2> QED BY <1>2, <2>1, <2>3, FiniteLists DEF BaseInv, MatchingDefs
<1>3. CASE query.list \notin {"runs", "defs"}
    BY <1>3, WhatMatches, FS_EmptySet
<1> QED BY <1>1, <1>2, <1>3

LEMMA CountAhead ==
    ASSUME BaseInv, NEW S \in SUBSET Matching, NEW x
    PROVE  /\ IsFiniteSet(AheadIn(S, x)) /\ Cardinality(AheadIn(S, x)) \in Nat
           /\ Cardinality(AheadIn(S, x)) <= Cardinality(AheadIn(Matching, x))
           /\ Cardinality(AheadIn(Matching, x)) \in Nat
<1>1. AheadIn(S, x) \in SUBSET AheadIn(Matching, x) /\ AheadIn(Matching, x) \in SUBSET Matching
    BY DEF AheadIn
<1>2. IsFiniteSet(AheadIn(Matching, x))
    BY <1>1, MatchingRows, FS_Subset
<1> QED BY <1>1, <1>2, FS_Subset, FS_CardinalityType

LEMMA StrictOrder ==
    ASSUME BaseInv, Sure, NEW x \in Matching, NEW y \in Matching
    PROVE  ~Before(x, x) /\ (x # y => Before(x, y) \/ Before(y, x))
<1>1. CASE query.list = "runs"
  <2>1. /\ x \in Run /\ y \in Run /\ run[x].state # Nil /\ run[y].state # Nil
        /\ run[x].started \in Nat /\ run[y].started \in Nat /\ x \in Nat /\ y \in Nat
      BY <1>1, MatchingRows
  <2>2. x # y => (backend = "redis" /\ query.filter.wf = Nil) \/ run[x].started # run[y].started
      BY <1>1, <2>1 DEF Sure, NoTies
  <2> QED BY <1>1, <2>1, <2>2 DEF Before
<1>2. CASE query.list = "defs"
  <2>1. /\ x \in DOMAIN defs /\ y \in DOMAIN defs /\ defs[x].ver \in Nat
        /\ defs[x].created \in Nat
      BY <1>2, MatchingRows
  <2>2. x # y => NewerDef(x, y) \/ NewerDef(y, x)
      BY <1>2, <2>1 DEF Sure, NoTies
  <2>3. ~NewerDef(x, x)
      BY <2>1 DEF NewerDef
  <2> QED BY <1>2, <2>2, <2>3 DEF Before
<1> QED BY <1>1, <1>2 DEF Sure

\* The page holds the first rows behind the offset, so that a row it leaves out is behind
\* the page as well; an empty page leaves out none.
LEMMA PageCut ==
    ASSUME BaseInv, Sure, NEW S \in SUBSET Matching, NEW o \in SetToSeqs(S), NEW p,
           IsPart(p, o, walk.offset, query.limit),
           \A i, j \in DOMAIN o : i < j => ~Before(o[j], o[i]),
           \A x \in walk.stayed \ walk.seen :
               x \in S /\ Cardinality(AheadIn(S, x)) >= walk.offset
    PROVE  /\ p = <<>> => walk.stayed \subseteq walk.seen
           /\ \A x \in walk.stayed \ (walk.seen \cup Range(p)) :
                 Cardinality(AheadIn(Matching, x)) >= walk.offset + Len(p)
<1> DEFINE A == [x \in S |-> AheadIn(S, x)]
<1>1. /\ walk.offset \in Nat /\ query.limit \in Nat /\ query.limit > 0
      /\ IsFiniteSet(S)
    BY MatchingRows, FS_Subset, ListOf DEF BaseInv, PageOK, QueryOK, Sure
<1>2. /\ Len(o) \in Nat /\ DOMAIN o = 1 .. Len(o) /\ \A i \in DOMAIN o : o[i] \in S
      /\ \A x \in S : \E i \in DOMAIN o : o[i] = x
    BY <1>1, OrderIsOnto
<1>3. A \in [S -> SUBSET S]
    BY DEF AheadIn
<1>4. \A i, j \in DOMAIN o : i < j => o[j] \notin A[o[i]]
    BY <1>2 DEF AheadIn
<1>5. \A x \in S : x \notin A[x]
    BY StrictOrder DEF AheadIn
<1>6. \A x, y \in S : x # y => x \in A[y] \/ y \in A[x]
    BY StrictOrder DEF AheadIn
<1>7. \A k \in DOMAIN o : Cardinality(AheadIn(S, o[k])) = k - 1
  <2> TAKE k \in DOMAIN o
  <2>1. A[o[k]] = AheadIn(S, o[k])
      BY <1>2
  <2> HIDE DEF A
  <2>2. Cardinality(A[o[k]]) = k - 1
      BY <1>1, <1>3, <1>4, <1>5, <1>6, Position
  <2> QED BY <2>1, <2>2
<1>8. ASSUME NEW x \in walk.stayed \ walk.seen
      PROVE  \E k \in DOMAIN o : /\ o[k] = x /\ k > walk.offset
                                 /\ Cardinality(AheadIn(S, x)) = k - 1
  <2>1. PICK k \in DOMAIN o : o[k] = x
      BY <1>2
  <2>2. Cardinality(AheadIn(S, x)) = k - 1 /\ k - 1 >= walk.offset /\ k \in Nat
      BY <1>2, <1>7, <2>1
  <2> QED BY <1>1, <2>1, <2>2
<1>9. ASSUME p = <<>>, NEW x \in walk.stayed \ walk.seen PROVE FALSE
  <2>1. PICK k \in DOMAIN o : k > walk.offset
      BY <1>8, <1>9
  <2>2. Len(o) <= walk.offset
      BY <1>1, <1>9 DEF IsPart
  <2> QED BY <1>1, <1>2, <2>1, <2>2
<1>10. ASSUME NEW x \in walk.stayed \ (walk.seen \cup Range(p))
       PROVE  Cardinality(AheadIn(Matching, x)) >= walk.offset + Len(p)
  <2>1. PICK k \in DOMAIN o :
            o[k] = x /\ k > walk.offset /\ Cardinality(AheadIn(S, x)) = k - 1
      BY <1>8, <1>10
  <2>2. k > walk.offset + query.limit
      BY <1>1, <1>2, <1>10, <2>1 DEF IsPart
  <2>3. Len(p) = query.limit
      BY <2>2 DEF IsPart
  <2>4. /\ Cardinality(AheadIn(S, x)) <= Cardinality(AheadIn(Matching, x))
        /\ Cardinality(AheadIn(Matching, x)) \in Nat
      BY CountAhead
  <2> QED BY <1>1, <1>2, <2>1, <2>2, <2>3, <2>4
<1> QED BY <1>9, <1>10

\* A change adds rows: those that matched still do, in the same order.
LEMMA ListGrows ==
    ASSUME BaseInv, WalkInv, ChangeStep, Sure'
    PROVE  /\ Sure /\ Matching \subseteq Matching' /\ walk'.stayed \subseteq walk.stayed
           /\ walk'.stayed \subseteq Matching'
           /\ walk'.seen = walk.seen /\ walk'.offset = walk.offset
           /\ Held \subseteq Held' /\ Held' \subseteq Matching'
           /\ \A x, y \in Matching : Before(x, y) => Before(x, y)'
<1>1. UNCHANGED <<backend, query, req>> /\ triggers' \subseteq triggers
    BY DEF ChangeStep, Keeps
<1>2. query.list \in {"runs", "defs"} /\ query # NoQuery
    BY <1>1, ListOf DEF Sure
<1>3. /\ walk'.stayed = walk.stayed \cap Matching'
      /\ walk'.lost = (walk.lost \/ ~(Matching \subseteq Matching'))
      /\ walk'.seen = walk.seen /\ walk'.offset = walk.offset
    BY <1>2 DEF ChangeStep, Observe, BaseInv, Shapes
<1>4. ~walk.lost /\ Matching \subseteq Matching'
    BY <1>3 DEF Sure
<1>5. NoTies
  <2>1. CASE query.list = "runs"
      BY <1>1, <2>1 DEF Sure, NoTies, ChangeStep, Keeps
  <2>2. CASE query.list = "defs"
    <3>1. \A i, j \in DOMAIN defs : i = j \/ NewerDef(i, j)' \/ NewerDef(j, i)'
        BY <1>1, <2>2 DEF Sure, NoTies, ChangeStep, Keeps
    <3>2. \A i, j \in DOMAIN defs : NewerDef(i, j)' <=> NewerDef(i, j)
        BY DEF NewerDef, ChangeStep, Keeps
    <3> QED BY <2>2, <3>1, <3>2 DEF NoTies
  <2> QED BY <1>2, <2>1, <2>2
<1>6. Sure
    BY <1>2, <1>4, <1>5 DEF Sure
<1>7. Held \subseteq Matching
    BY <1>6 DEF WalkInv
<1>8. Held \subseteq Held' /\ Held' \subseteq Matching'
  <2>1. CASE req.pc = "filter"
    <3>1. Held = Found /\ Held' = Found'
        BY <1>1, <2>1 DEF Held
    <3>2. query.list = "runs"
        BY <2>1, ListOf
    <3>3. Found' \subseteq Found
        BY <1>1, FewerTypes DEF Found
    <3>4. ASSUME NEW i \in Found PROVE i \in Found'
      <4>1. /\ i \in Matching /\ i \in Matching' /\ i \in DOMAIN req.blobs
            /\ RunMatches(req.blobs[i], query.filter, triggers)
          BY <1>4, <1>7, <3>1, <3>4 DEF Found
      <4>2. req.blobs[i].trig = run[i].trig /\ i \in Run /\ run[i].state # Nil
          BY <2>1, <4>1 DEF BaseInv, BlobsOK
      <4>3. run'[i].trig = req.blobs[i].trig
          BY <4>2 DEF ChangeStep, Keeps
      <4>4. RunMatches(run'[i], query.filter, triggers')
          BY <1>1, <3>2, <4>1 DEF Matching, MemoryFilterRuns
      <4>5. RunMatches(req.blobs[i], query.filter, triggers')
          BY <4>1, <4>3, <4>4 DEF RunMatches
      <4> QED BY <1>1, <4>1, <4>5 DEF Found
    <3> QED BY <1>4, <1>7, <3>1, <3>3, <3>4
  <2>2. CASE req.pc = "blobs"
      BY <1>1, <1>4, <2>2 DEF Held
  <2>3. CASE req.pc \notin {"blobs", "filter"}
      BY <1>1, <1>4, <2>3 DEF Held
  <2> QED BY <2>1, <2>2, <2>3
<1>9. ASSUME NEW x \in Matching, NEW y \in Matching, Before(x, y) PROVE Before(x, y)'
  <2>1. CASE query.list = "runs"
    <3>1. /\ x \in Run /\ y \in Run /\ run[x].state # Nil /\ run[y].state # Nil
        BY <2>1, MatchingRows
    <3>2. run'[x].started = run[x].started /\ run'[y].started = run[y].started
        BY <3>1 DEF ChangeStep, Keeps
    <3> QED BY <1>1, <1>9, <2>1, <3>2 DEF Before
  <2>2. CASE query.list = "defs"
    <3>1. x \in DOMAIN defs /\ y \in DOMAIN defs
        BY <2>2, MatchingRows
    <3> QED BY <1>1, <1>9, <2>2, <3>1 DEF Before, NewerDef, ChangeStep, Keeps
  <2> QED BY <1>2, <2>1, <2>2
<1> QED BY <1>3, <1>4, <1>6, <1>8, <1>9

LEMMA MatchingFinite == BaseInv => IsFiniteSet(Matching)
BY MatchingRows

LEMMA MatchingStaysFinite == BaseInv' => IsFiniteSet(Matching)'
BY MatchingFinite, PTL

LEMMA WalkChange == ASSUME BaseInv, WalkInv, ChangeStep PROVE WalkInv'
<1> SUFFICES ASSUME Sure' PROVE WalkInv'
    BY DEF WalkInv
<1>1. /\ Sure /\ Matching \subseteq Matching' /\ walk'.stayed \subseteq walk.stayed
      /\ walk'.stayed \subseteq Matching'
      /\ walk'.seen = walk.seen /\ walk'.offset = walk.offset
      /\ Held \subseteq Held' /\ Held' \subseteq Matching'
      /\ \A x, y \in Matching : Before(x, y) => Before(x, y)'
    BY ListGrows
<1>2. req' = req /\ walk.stayed \subseteq Matching /\ Held \subseteq Matching
    BY <1>1 DEF ChangeStep, Keeps, WalkInv
<1>3. IsFiniteSet(Matching')
    BY BaseChange, MatchingStaysFinite
<1>4. ASSUME NEW S \in SUBSET Matching, NEW T \in SUBSET Matching', S \subseteq T,
             NEW x \in Matching, NEW U, U = {y \in T : Before(y, x)'}
      PROVE  Cardinality(AheadIn(S, x)) <= Cardinality(U)
  <2>1. AheadIn(S, x) \in SUBSET U
      BY <1>1, <1>4 DEF AheadIn
  <2>2. IsFiniteSet(U)
      BY <1>3, <1>4, FS_Subset
  <2> QED BY <2>1, <2>2, FS_Subset
<1>5. \A x : AheadIn(Held, x)' = {y \in Held' : Before(y, x)'}
             /\ AheadIn(Matching, x)' = {y \in Matching' : Before(y, x)'}
    BY DEF AheadIn
<1>6. walk.offset \in Nat /\ Len(req.page) \in Nat
    BY DEF BaseInv, PageOK
<1>7. ASSUME NEW x \in Matching
      PROVE  /\ Cardinality(AheadIn(Held, x)) \in Nat
             /\ Cardinality(AheadIn(Held, x)') \in Nat
             /\ Cardinality(AheadIn(Held, x)) <= Cardinality(AheadIn(Held, x)')
             /\ Cardinality(AheadIn(Matching, x)) \in Nat
             /\ Cardinality(AheadIn(Matching, x)') \in Nat
             /\ Cardinality(AheadIn(Matching, x)) <= Cardinality(AheadIn(Matching, x)')
  <2>1. Cardinality(AheadIn(Held, x)) \in Nat /\ Cardinality(AheadIn(Matching, x)) \in Nat
      BY <1>2, CountAhead
  <2>2. /\ AheadIn(Held, x)' \in SUBSET Matching'
        /\ AheadIn(Matching, x)' \in SUBSET Matching'
      BY <1>1, <1>5
  <2>3. /\ Cardinality(AheadIn(Held, x)') \in Nat
        /\ Cardinality(AheadIn(Matching, x)') \in Nat
      BY <1>3, <2>2, FS_Subset, FS_CardinalityType
  <2>4. Cardinality(AheadIn(Held, x)) <= Cardinality(AheadIn(Held, x)')
      BY <1>1, <1>2, <1>4, <1>5
  <2>5. Cardinality(AheadIn(Matching, x)) <= Cardinality(AheadIn(Matching, x)')
      BY <1>1, <1>4, <1>5
  <2> QED BY <2>1, <2>3, <2>4, <2>5
<1>8. CASE req.pc \notin Paged
  <2>1. ASSUME NEW x \in walk'.stayed \ walk'.seen
        PROVE  x \in Held' /\ Cardinality(AheadIn(Held, x)') >= walk'.offset
    <3>1. x \in Matching /\ x \in Held /\ Cardinality(AheadIn(Held, x)) >= walk.offset
        BY <1>1, <1>2, <1>8, <2>1 DEF WalkInv
    <3> QED BY <1>1, <1>6, <1>7, <3>1
  <2> QED BY <1>1, <1>2, <1>8, <2>1 DEF WalkInv
<1>9. CASE req.pc \in Paged
  <2>1. ASSUME NEW x \in walk'.stayed \ (walk'.seen \cup Range(req'.page))
        PROVE  Cardinality(AheadIn(Matching, x)') >= walk'.offset + Len(req'.page)
    <3>1. /\ x \in Matching
          /\ Cardinality(AheadIn(Matching, x)) >= walk.offset + Len(req.page)
        BY <1>1, <1>2, <1>9, <2>1 DEF WalkInv
    <3> QED BY <1>1, <1>2, <1>6, <1>7, <3>1
  <2>2. req'.page = <<>> => walk'.stayed \subseteq walk'.seen
      BY <1>1, <1>2, <1>9 DEF WalkInv
  <2> QED BY <1>1, <1>2, <1>9, <2>1, <2>2 DEF WalkInv
<1> QED BY <1>8, <1>9

LEMMA SameOrder ==
    ASSUME Still, query' = query, walk'.lost = walk.lost
    PROVE  /\ Matching' = Matching /\ (Sure' => Sure)
           /\ \A S, x : AheadIn(S, x)' = {y \in S' : Before(y, x)}
<1>1. \A x, y : Before(x, y)' <=> Before(x, y)
    BY DEF Still, Before, NewerDef
<1>2. NoTies' => NoTies
    BY DEF Still, NoTies, NewerDef
<1> QED BY <1>1, <1>2, SameMatching DEF Sure, AheadIn

\* A step of the request that leaves the rows it holds and the page alone.
LEMMA WalkSame ==
    ASSUME BaseInv, WalkInv, Still, query' = query, walk'.lost = walk.lost,
           walk'.stayed = walk.stayed, walk'.seen = walk.seen, walk'.offset = walk.offset,
           req'.page = req.page, Held' = Held, req'.pc \in Paged <=> req.pc \in Paged
    PROVE  WalkInv'
<1> SUFFICES ASSUME Sure' PROVE WalkInv'
    BY DEF WalkInv
<1>1. Sure /\ Matching' = Matching
    BY SameOrder
<1>2. \A x : /\ AheadIn(Held, x)' = AheadIn(Held, x)
             /\ AheadIn(Matching, x)' = AheadIn(Matching, x)
    BY <1>1, SameOrder DEF AheadIn
<1> QED BY <1>1, <1>2 DEF WalkInv

LEMMA WalkList ==
    ASSUME BaseInv, WalkInv, ListRuns \/ ListDefinitions \/ RedisListRuns
    PROVE  WalkInv'
<1> SUFFICES ASSUME Sure' PROVE WalkInv'
    BY DEF WalkInv
<1>1. Still /\ UNCHANGED <<query, walk>>
    BY DEF ListRuns, ListDefinitions, RedisListRuns, Still
<1>2. Sure /\ Matching' = Matching
    BY <1>1, SameOrder
<1>3. PICK S : /\ IsFiniteSet(S) /\ S \subseteq Nat
               /\ \E o \in SetToSeqs(S) :
                     /\ IsPart(req'.page, o, walk.offset, query.limit)
                     /\ \A i, j \in DOMAIN o : i < j => ~Before(o[j], o[i])
               /\ \/ S = Matching /\ req.pc \in {"runs", "defs"}
                  \/ S = Found /\ req.pc = "filter"
               /\ req'.pc \in {"count", "reply"}
    BY ListSteps
<1>4. S = Held /\ req.pc \notin Paged
    BY <1>3 DEF Held, Paged
<1>5. /\ S \in SUBSET Matching
      /\ \A x \in walk.stayed \ walk.seen :
            x \in S /\ Cardinality(AheadIn(S, x)) >= walk.offset
    BY <1>2, <1>4 DEF WalkInv
<1>6. PICK o \in SetToSeqs(S) : /\ IsPart(req'.page, o, walk.offset, query.limit)
                                /\ \A i, j \in DOMAIN o : i < j => ~Before(o[j], o[i])
    BY <1>3
<1>7. /\ req'.page = <<>> => walk.stayed \subseteq walk.seen
      /\ \A x \in walk.stayed \ (walk.seen \cup Range(req'.page)) :
            Cardinality(AheadIn(Matching, x)) >= walk.offset + Len(req'.page)
    BY <1>2, <1>5, <1>6, PageCut
<1>8. \A x : AheadIn(Matching, x)' = AheadIn(Matching, x)
    BY <1>1, <1>2, SameOrder DEF AheadIn
<1>9. Held' = Matching' /\ req'.pc \in Paged
    BY <1>3 DEF Held, Paged
<1>10. walk'.stayed \subseteq Matching'
    BY <1>1, <1>2 DEF WalkInv
<1> QED BY <1>1, <1>7, <1>8, <1>9, <1>10 DEF WalkInv

LEMMA WalkReply == ASSUME BaseInv, WalkInv, Reply PROVE WalkInv'
<1> SUFFICES ASSUME Sure' PROVE WalkInv'
    BY DEF WalkInv
<1>1. Still /\ req.pc = "reply" /\ req'.pc = "idle"
    BY DEF Reply, Still, Idle
<1>2. query' = query /\ req.page # <<>>
    BY QueriesAssumption DEF Reply, Sure, NoQuery
<1>3. /\ walk'.offset = walk.offset + Len(req.page) /\ walk'.seen = walk.seen \cup Range(req.page)
      /\ walk'.stayed = walk.stayed /\ walk'.lost = walk.lost
    BY <1>2 DEF Reply, BaseInv, Shapes
<1>4. Sure /\ Matching' = Matching /\ \A x : AheadIn(Matching, x)' = AheadIn(Matching, x)
    BY <1>1, <1>2, <1>3, SameOrder DEF AheadIn
<1>5. Held' = Matching' /\ req'.pc \notin Paged /\ req.pc \in Paged
    BY <1>1 DEF Held, Paged
<1>6. \A x : AheadIn(Held, x)' = AheadIn(Matching, x)
    BY <1>1, <1>2, <1>3, <1>4, <1>5, SameOrder DEF AheadIn
<1>7. walk.stayed \subseteq Matching
    BY <1>4 DEF WalkInv
<1> QED BY <1>3, <1>4, <1>5, <1>6, <1>7 DEF WalkInv

LEMMA WalkRead == ASSUME BaseInv, WalkInv, ReadStep PROVE WalkInv'
<1>1. Still
    BY ReadsOnly
<1>2. CASE \E list, f, limit : Ask(list, f, limit)
  <2>1. /\ walk'.stayed = Matching' /\ walk'.seen = {} /\ walk'.offset = 0
        /\ req' = req /\ req.pc = "idle"
      BY <1>2, QueriesAssumption DEF Ask, NoWalk, BaseInv, QueryOK, NoQuery
  <2>2. Held' = Matching' /\ req'.pc \notin Paged
      BY <2>1 DEF Held, Paged
  <2>3. ASSUME NEW x PROVE Cardinality(AheadIn(Held, x)') \in Nat
    <3>1. BaseInv'
        BY BaseRead
    <3>2. IsFiniteSet(Matching') /\ AheadIn(Held, x)' \in SUBSET Matching'
        BY <2>2, <3>1, MatchingStaysFinite DEF AheadIn
    <3> QED BY <3>2, FS_Subset, FS_CardinalityType
  <2> QED BY <2>1, <2>2, <2>3 DEF WalkInv
<1>3. CASE Request
  <2>1. /\ query' = query /\ walk'.lost = walk.lost /\ walk'.stayed = walk.stayed
        /\ walk'.seen = walk.seen /\ walk'.offset = walk.offset /\ req'.page = req.page
        /\ req.pc = "idle" /\ req'.pc \in {"runs", "defs", "stats", "stream"}
      BY <1>3, ListOf DEF Request, BaseInv, Shapes
  <2>2. Held' = Held
      BY <1>1, <2>1, SameMatching DEF Held
  <2> QED BY <1>1, <2>1, <2>2, WalkSame DEF Paged
<1>4. CASE CountRuns \/ RedisCountRuns
  <2>1. /\ UNCHANGED <<query, walk>> /\ req'.page = req.page
        /\ req.pc \in {"count", "countfilter"} /\ req'.pc = "reply"
      BY <1>4 DEF CountRuns, RedisCountRuns, BaseInv, Shapes
  <2>2. Held' = Held
      BY <1>1, <2>1, SameMatching DEF Held
  <2> QED BY <1>1, <2>1, <2>2, WalkSame DEF Paged
<1>5. CASE RedisLoadIndex
  <2>1. /\ UNCHANGED <<query, walk>> /\ req'.page = req.page /\ query.list = "runs"
        /\ \/ req.pc = "runs" /\ req'.pc = "blobs"
           \/ req.pc = "count" /\ req'.pc = "countblobs"
        /\ req'.index = RedisIndex(query.filter)
      BY <1>5, ListOf DEF RedisLoadIndex, BaseInv, Shapes
  <2>2. Matching \subseteq RedisIndex(query.filter)
      BY <2>1, MatchingRows DEF RedisIndex, RunMatches
  <2>3. Held' = Held
      BY <1>1, <2>1, <2>2, SameMatching DEF Held
  <2> QED BY <1>1, <2>1, <2>3, WalkSame DEF Paged
<1>6. CASE RedisLoadBlobs
  <2>1. /\ UNCHANGED <<query, walk>> /\ req'.page = req.page /\ query.list = "runs"
        /\ \/ req.pc = "blobs" /\ req'.pc = "filter"
           \/ req.pc = "countblobs" /\ req'.pc = "countfilter"
        /\ req'.blobs = [i \in req.index \cap Present |-> run[i]]
      BY <1>6, ListOf DEF RedisLoadBlobs, BaseInv, Shapes
  <2>2. Matching' = Matching /\ Matching = MemoryFilterRuns(query.filter)
      BY <1>1, <2>1, SameMatching, WhatMatches
  <2>3. Found' = Matching \cap req.index
      BY <1>1, <2>1, <2>2 DEF Found, MemoryFilterRuns, Still
  <2>4. Held' = Held
      BY <2>1, <2>2, <2>3 DEF Held
  <2> QED BY <1>1, <2>1, <2>4, WalkSame DEF Paged
<1>7. CASE \/ \E r \in Run, key \in EventKey : AppendEvent(r, key)
           \/ \E c \in Conn : DropConn(c)
  <2>1. UNCHANGED <<query, walk, req>>
      BY <1>7 DEF AppendEvent, DropConn
  <2>2. Held' = Held
      BY <1>1, <2>1, SameMatching DEF Held, Found, Still
  <2> QED BY <1>1, <2>1, <2>2, WalkSame
<1>8. CASE \/ MemoryStats \/ RedisStatsIndex \/ RedisStats \/ PgStats \/ ReplyStats
           \/ OpenStream \/ SendSnapshot \/ SendEvent \/ CloseStream \/ CloseTail
           \/ \E c \in Conn : Listen(c)
  <2>1. query'.list \notin {"runs", "defs"}
    <3>1. CASE ReplyStats \/ CloseStream \/ CloseTail
        BY <3>1, QueriesAssumption DEF ReplyStats, CloseStream, CloseTail, EndStream, NoQuery
    <3>2. CASE MemoryStats \/ RedisStatsIndex \/ RedisStats \/ PgStats
        BY <3>2, ListOf DEF MemoryStats, RedisStatsIndex, RedisStats, PgStats
    <3>3. CASE OpenStream \/ SendSnapshot \/ SendEvent \/ \E c \in Conn : Listen(c)
        BY <3>3, ListOf DEF OpenStream, SendSnapshot, SendEvent, TakeNote, Listen, Streaming
    <3> QED BY <1>8, <3>1, <3>2, <3>3
  <2> QED BY <2>1 DEF WalkInv, Sure
<1> QED BY <1>2, <1>3, <1>4, <1>5, <1>6, <1>7, <1>8, WalkList, WalkReply DEF ReadStep

\* A client that has walked a list of runs or definitions to its end has seen every row that
\* matched from its first request on, whatever was added meanwhile, for every filter, page
\* size and store; lists with ties, and lists that have lost a row, excepted
\* (api/handler_sagas.go, handler_workflows.go).
THEOREM NothingMissed == Spec => []WalkComplete
<1> DEFINE I == BaseInv /\ WalkInv
<1>1. Init => I
  <2>1. ASSUME Init PROVE ~Sure
      BY <2>1, QueriesAssumption DEF Init, Sure, NoQuery
  <2> QED BY <2>1, BaseInit DEF WalkInv
<1>2. I /\ [Next]_vars => I'
  <2> SUFFICES ASSUME BaseInv, WalkInv, [Next]_vars PROVE WalkInv'
      BY BaseNext
  <2>1. CASE UNCHANGED vars
    <3>1. Still /\ UNCHANGED <<query, walk, req>>
        BY <2>1 DEF vars, Still
    <3>2. Held' = Held
        BY <3>1, SameMatching DEF Held, Found, Still
    <3> QED BY <3>1, <3>2, WalkSame
  <2> QED BY <2>1, StepSplit, WalkChange, WalkRead DEF BaseInv
<1>3. I => WalkComplete
  <2> SUFFICES ASSUME BaseInv, WalkInv, req.pc = "reply", req.page = <<>>, NoTies, ~walk.lost
               PROVE  walk.stayed \subseteq walk.seen
      BY DEF WalkComplete
  <2>1. Sure
      BY ListOf DEF Sure
  <2> QED BY <2>1 DEF WalkInv, Paged
<1> QED BY <1>1, <1>2, <1>3, PTL DEF Spec
=============================================================================
