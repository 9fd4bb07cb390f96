------------------------------ MODULE Queries ------------------------------
(***************************************************************************)
(* Reading lists while they change: GET /sagas, GET /workflows and         *)
(* GET /workflows/{id}/stats (api/handler_sagas.go, handler_workflows.go)  *)
(* on each of the three stores.  A client walks a list page by page, its   *)
(* offset growing by what it has received, until a page is empty; every    *)
(* page is a query of its own, and runs are created, change their state,   *)
(* expire and lose their trigger between and during the queries.           *)
(* GET /sagas/{id}/stream (handler_stream.go) sends a run's events and     *)
(* then tails them on a connection of the store's pool.                    *)
(*                                                                         *)
(* The memory store answers under its lock and Postgres in one statement;  *)
(* Redis reads an index, the blobs it names and the triggers in three      *)
(* commands, and keeps index entries of runs whose blobs have expired.     *)
(***************************************************************************)
EXTENDS Naturals, Sequences, FiniteSets, FiniteSetsExt, SequencesExt

CONSTANTS
    Run,            \* run ids, naturals: their order is that of the ids' bytes
    Workflow,
    Trigger,        \* triggers, all of one type
    Origin,         \* the <<workflow, trigger>> pairs of the runs that are created
    Written,        \* the states that are written
    Version,        \* versions of the one workflow definition that is saved
    RunFilters, DefFilters, Limits,     \* the queries that are made
    Window,         \* the 24 hours of the statistics, in ticks
    Streamed,       \* the runs that are streamed
    Conn,           \* the connections of the Postgres pool
    EventKey,       \* <<step, attempt, type>> of audit events
    RunEvent,       \* the keys without a step
    MaxTime, MaxSaves, MaxEvents,
    MaxWalks,       \* walks, statistics or streams of one behaviour, by topic
    MaxChanges,     \* changes of the list during one walk
    Nil

Topic == {"runs", "defs", "stats", "stream"}

ASSUME QueriesAssumption ==
    /\ Run \subseteq Nat /\ IsFiniteSet(Run) /\ Version \subseteq Nat
    /\ Origin \subseteq Workflow \X (Trigger \cup {Nil})
    /\ Written \subseteq {"running", "paused", "compensating", "succeeded", "failed", "cancelled"}
    /\ Limits \subseteq 1 .. 500 /\ RunEvent \subseteq EventKey /\ Streamed \subseteq Run
    /\ {Window, MaxTime, MaxSaves, MaxEvents, MaxChanges} \subseteq Nat
    /\ MaxWalks \in [Topic -> Nat]
    /\ Nil \notin Conn
    /\ Nil \notin {"pending", "running", "paused", "compensating", "succeeded", "failed",
                   "cancelled", "runs", "defs", "stats", "stream"}

VARIABLES
    backend,
    run,        \* run[i]: the row or blob of run i
    triggers,   \* the triggers that exist
    defs,       \* the rows of workflow_definitions
    events,     \* the audit events of the streamed runs; an event's id is its position
    pool,       \* pool[c]: the runs that connection c LISTENs to, the NOTIFYs it has not given
    tail,       \* a stream: the events sent, its connection; missed, fresh: history
    now,
    topic,      \* the list this behaviour is about: they do not depend on each other
    query,      \* what the client asks for: a list and a filter, or statistics
    req,        \* the request under way
    walk        \* what the client has received; stayed, lost, ever, reopened: history

vars == <<backend, run, triggers, defs, events, pool, tail, now, topic, query, req, walk>>

InFlight == {"pending", "running", "paused", "compensating"}

NoRun == [state |-> Nil, wf |-> Nil, trig |-> Nil, started |-> 0, mortal |-> FALSE,
          expired |-> FALSE]

Present == {i \in Run : run[i].state # Nil /\ ~run[i].expired}

-----------------------------------------------------------------------------
(***************************************************************************)
(* Filters and order.                                                      *)
(***************************************************************************)
\* RunFilter.  No code sets RequiresManualReview: that filter selects all runs or none.
RunMatches(r, f, types) ==
    /\ f.wf \in {Nil, r.wf}
    /\ f.state \in {Nil, r.state}
    /\ r.started >= f.since
    /\ f.failed \in {Nil, r.state = "failed"}
    /\ f.typed => r.trig \in types

\* The orders of S in which no element is followed by a larger one.
Descending(S, Larger(_, _)) ==
    {o \in SetToSeqs(S) : \A i, j \in DOMAIN o : i < j => ~Larger(o[j], o[i])}

Newer(i, j) == run[i].started > run[j].started

MemoryFilterRuns(f) == {i \in Present : RunMatches(run[i], f, triggers)}

\* The runs come from an iteration over a map, the sort is by StartedAt alone.
MemoryRuns(f) == Descending(MemoryFilterRuns(f), Newer)

\* LEFT JOIN saga_triggers; ORDER BY started_at DESC alone.
PgRuns(f) == Descending({i \in Present : RunMatches(run[i], f, triggers)}, Newer)

\* loadCandidates: the members of idx:runs or of the workflow's set, expired ones too.
RedisIndex(f) == {i \in Run : run[i].state # Nil /\ f.wf \in {Nil, run[i].wf}}

\* A map of trigger types that still holds deleted triggers.
CachedTypes(f, blobs, types) ==
    Descending({i \in DOMAIN blobs : RunMatches(blobs[i], f, Trigger)},
               LAMBDA i, j : blobs[i].started > blobs[j].started)

\* The ZSET's order, oldest first and then by id, is kept by the sort among equals; that
\* of a SET is anything.
RedisRuns(f, blobs, types) ==
    LET S     == {i \in DOMAIN blobs : RunMatches(blobs[i], f, types)}
        Later(i, j) == blobs[i].started > blobs[j].started
        ById(i, j)  == Later(i, j) \/ (blobs[i].started = blobs[j].started /\ i < j)
    IN  IF f.wf = Nil THEN Descending(S, ById) ELSE Descending(S, Later)

DefMatches(d, f) == f.published \in {Nil, d.published}

\* CreatedAt DESC, then Version DESC.
NewerDef(i, j) ==
    \/ defs[i].created > defs[j].created
    \/ defs[i].created = defs[j].created /\ defs[i].ver > defs[j].ver

MemoryDefs(f) == Descending({i \in DOMAIN defs : DefMatches(defs[i], f)}, NewerDef)

RedisDefs(f) == Descending({i \in DOMAIN defs : DefMatches(defs[i], f)}, NewerDef)

PgDefs(f) == Descending({i \in DOMAIN defs : DefMatches(defs[i], f)}, NewerDef)

Defs(f) == CASE backend = "memory"   -> MemoryDefs(f)
             [] backend = "redis"    -> RedisDefs(f)
             [] backend = "postgres" -> PgDefs(f)

\* A page that starts one row too late.
LatePage(o) ==
    SubSeq(o, walk.offset + 2, Min({walk.offset + 1 + query.limit, Len(o)}))

\* A page that holds one row too many.
LongPage(o) ==
    SubSeq(o, walk.offset + 1, Min({walk.offset + query.limit + 1, Len(o)}))

Page(o) ==
    SubSeq(o, walk.offset + 1, Min({walk.offset + query.limit, Len(o)}))

-----------------------------------------------------------------------------
Idle == [pc |-> "idle", index |-> {}, blobs |-> <<>>, page |-> <<>>, total |-> 0,
         ended |-> {}, flying |-> {}]

NoWalk == [n |-> 0, offset |-> 0, seen |-> {}, stayed |-> {}, lost |-> FALSE, ever |-> {},
           reopened |-> {}, changes |-> 0]

NewConn == [listens |-> {}, notes |-> <<>>]

NoTail == [sent |-> <<>>, conn |-> Nil, missed |-> {}, fresh |-> FALSE]

NoQuery == [list |-> Nil, filter |-> Nil, limit |-> 0]

Init ==
    /\ backend \in {"memory", "redis", "postgres"}
    /\ run = [i \in Run |-> NoRun]
    /\ triggers = Trigger
    /\ defs = <<>>
    /\ now = 0
    /\ events = <<>> /\ pool = [c \in Conn |-> NewConn] /\ tail = NoTail
    /\ topic \in Topic
    /\ query = NoQuery
    /\ req = Idle
    /\ walk = NoWalk

\* What a query that is answered at this moment would find.
Matching ==
    CASE query.list = "runs" -> MemoryFilterRuns(query.filter)
      [] query.list = "defs" -> {i \in DOMAIN defs : DefMatches(defs[i], query.filter)}
      [] OTHER               -> {}

\* History: the rows that matched all the time, whether one has stopped to match or has
\* moved, the rows that matched at some time during the request, the runs that have come
\* back from their end after they were counted.
Observe ==
    IF query = NoQuery THEN UNCHANGED walk
    ELSE /\ walk.changes < MaxChanges
         /\ walk' = [walk EXCEPT !.stayed = @ \cap Matching', !.ever = @ \cup Matching',
                                 !.lost = @ \/ ~(Matching \subseteq Matching'),
                                 !.reopened = @ \cup {i \in req.ended :
                                                         run'[i].state \in InFlight},
                                 !.changes = @ + 1]

(***************************************************************************)
(* What changes the lists.                                                 *)
(***************************************************************************)
\* The clock may not have moved since the last time it was read.
ReadClock == now' \in {now, now + 1} /\ now' <= MaxTime

\* In Redis the run is there from the last command of CreateRun's pipeline.  Ids are
\* handed out in their order.
CreateRun(i, wf, trig) ==
    /\ topic \in {"runs", "stats"}
    /\ ReadClock
    /\ run[i].state = Nil /\ \A j \in Run : j < i => run[j].state # Nil
    /\ trig \in triggers \cup {Nil}
    /\ run' = [run EXCEPT ![i] = [state |-> "running", wf |-> wf, trig |-> trig,
                                  started |-> now', mortal |-> FALSE, expired |-> FALSE]]
    /\ UNCHANGED <<backend, triggers, defs, events, pool, tail, topic, query, req>>
    /\ Observe

\* Whatever the state was: a worker's failure writes failed, its rollback compensating and
\* failed again; an advance writes running over a cancel.  In Redis an end sets the TTL and
\* no later write takes it off.
WriteState(i, state) ==
    /\ i \in Present /\ state # run[i].state
    /\ run' = [run EXCEPT ![i].state = state,
                          ![i].mortal = @ \/ (backend = "redis" /\ state \notin InFlight)]
    /\ UNCHANGED <<backend, triggers, defs, events, pool, tail, now, topic, query, req>>
    /\ Observe

\* The run's key reaches the end of its TTL; its index entries have none.
ExpireRun(i) ==
    /\ backend = "redis" /\ i \in Present /\ run[i].mortal
    /\ run' = [run EXCEPT ![i].expired = TRUE]
    /\ UNCHANGED <<backend, triggers, defs, events, pool, tail, now, topic, query, req>>
    /\ Observe

DeleteTrigger(t) ==
    /\ topic = "runs" /\ t \in triggers
    /\ triggers' = triggers \ {t}
    /\ UNCHANGED <<backend, run, defs, events, pool, tail, now, topic, query, req>>
    /\ Observe

\* Only Postgres fills in a missing CreatedAt; a save of a version it has keeps it.
SaveDefinition(ver, published) ==
    LET same == {i \in DOMAIN defs : defs[i].ver = ver} IN
    /\ ReadClock
    /\ topic = "defs" /\ Len(defs) < MaxSaves
    /\ defs' = IF backend = "postgres" /\ same # {}
                 THEN [defs EXCEPT ![CHOOSE i \in same : TRUE].published = published]
                 ELSE Append(defs, [ver |-> ver, published |-> published,
                                    created |-> IF backend = "postgres" THEN now' + 1 ELSE 0])
    /\ UNCHANGED <<backend, run, triggers, events, pool, tail, topic, query, req>>
    /\ Observe

-----------------------------------------------------------------------------
(***************************************************************************)
(* The requests.                                                           *)
(***************************************************************************)
Ask(list, f, limit) ==
    /\ list = topic /\ query = NoQuery /\ walk.n < MaxWalks[list]
    /\ query' = [list |-> list, filter |-> f, limit |-> limit]
    /\ UNCHANGED <<backend, run, triggers, defs, events, pool, tail, now, topic, req>>
    /\ walk' = [NoWalk EXCEPT !.n = walk.n + 1, !.stayed = Matching']

Request ==
    /\ query # NoQuery /\ req.pc = "idle"
    /\ req' = [req EXCEPT !.pc = query.list]
    /\ walk' = [walk EXCEPT !.ever = Matching, !.reopened = {}]
    /\ UNCHANGED <<backend, run, triggers, defs, events, pool, tail, now, topic, query>>

Answer(o, pc) == req' = [req EXCEPT !.page = Page(o), !.pc = pc, !.blobs = <<>>, !.index = {}]

ListRuns ==
    /\ req.pc = "runs" /\ backend # "redis"
    /\ \E o \in IF backend = "memory" THEN MemoryRuns(query.filter) ELSE PgRuns(query.filter) :
            Answer(o, "count")
    /\ UNCHANGED <<backend, run, triggers, defs, events, pool, tail, now, topic, query, walk>>

CountRuns ==
    /\ req.pc = "count" /\ backend # "redis"
    /\ req' = [req EXCEPT !.total = Cardinality(MemoryFilterRuns(query.filter)), !.pc = "reply"]
    /\ UNCHANGED <<backend, run, triggers, defs, events, pool, tail, now, topic, query, walk>>

\* SMEMBERS or ZRANGE, for the page and again for the count.
RedisLoadIndex ==
    /\ backend = "redis" /\ req.pc \in {"runs", "count"}
    /\ req' = [req EXCEPT !.index = RedisIndex(query.filter),
                          !.pc = IF req.pc = "runs" THEN "blobs" ELSE "countblobs"]
    /\ UNCHANGED <<backend, run, triggers, defs, events, pool, tail, now, topic, query, walk>>

\* MGET; keys that have expired are nil.
RedisLoadBlobs ==
    /\ req.pc \in {"blobs", "countblobs"}
    /\ req' = [req EXCEPT !.blobs = [i \in req.index \cap Present |-> run[i]],
                          !.pc = IF req.pc = "blobs" THEN "filter" ELSE "countfilter"]
    /\ UNCHANGED <<backend, run, triggers, defs, events, pool, tail, now, topic, query, walk>>

\* buildTriggerTypeMap, filterRuns and the slice.
RedisListRuns ==
    /\ req.pc = "filter"
    /\ \E o \in RedisRuns(query.filter, req.blobs, triggers) : Answer(o, "count")
    /\ UNCHANGED <<backend, run, triggers, defs, events, pool, tail, now, topic, query, walk>>

RedisCountRuns ==
    /\ req.pc = "countfilter"
    /\ \E o \in RedisRuns(query.filter, req.blobs, triggers) :
         req' = [req EXCEPT !.total = Len(o), !.pc = "reply", !.blobs = <<>>, !.index = {}]
    /\ UNCHANGED <<backend, run, triggers, defs, events, pool, tail, now, topic, query, walk>>

\* Redis: the blobs of definitions never change, so its two commands are one step.
ListDefinitions ==
    /\ req.pc = "defs"
    /\ \E o \in Defs(query.filter) : Answer(o, "reply")
    /\ UNCHANGED <<backend, run, triggers, defs, events, pool, tail, now, topic, query, walk>>

Reply ==
    /\ req.pc = "reply"
    /\ req' = Idle
    /\ \/ /\ req.page # <<>>
          /\ walk' = [walk EXCEPT !.offset = @ + Len(req.page),
                                  !.seen = @ \cup Range(req.page), !.ever = {}]
          /\ UNCHANGED query
       \/ /\ req.page = <<>>
          /\ walk' = [NoWalk EXCEPT !.n = walk.n]
          /\ query' = NoQuery
    /\ UNCHANGED <<backend, run, triggers, defs, events, pool, tail, now, topic>>

-----------------------------------------------------------------------------
\* Succeeded and failed runs of the window, and runs in flight.
Ended(rs)  == {i \in DOMAIN rs : /\ rs[i].state \in {"succeeded", "failed"}
                                 /\ rs[i].started + Window >= now
                                 /\ rs[i].wf = query.filter.wf}

Flying(rs) == {i \in DOMAIN rs : rs[i].state \in InFlight /\ rs[i].wf = query.filter.wf}

Rows == [i \in Present |-> run[i]]

MemoryStats ==
    /\ req.pc = "stats" /\ backend = "memory"
    /\ req' = [req EXCEPT !.ended = Ended(Rows), !.flying = Flying(Rows), !.pc = "told"]
    /\ UNCHANGED <<backend, run, triggers, defs, events, pool, tail, now, topic, query, walk>>

RedisStatsIndex ==
    /\ req.pc = "stats" /\ backend = "redis"
    /\ req' = [req EXCEPT !.index = RedisIndex(query.filter), !.pc = "statblobs"]
    /\ UNCHANGED <<backend, run, triggers, defs, events, pool, tail, now, topic, query, walk>>

RedisStats ==
    LET blobs == [i \in req.index \cap Present |-> run[i]] IN
    /\ req.pc = "statblobs"
    /\ req' = [req EXCEPT !.ended = Ended(blobs), !.flying = Flying(blobs), !.pc = "told",
                          !.index = {}]
    /\ UNCHANGED <<backend, run, triggers, defs, events, pool, tail, now, topic, query, walk>>

\* The two queries in the other order.
FlyingFirst(k) == IF k = 1 THEN [req EXCEPT !.flying = Flying(Rows)]
                  ELSE [req EXCEPT !.ended = Ended(Rows)]

\* Query 1 counts the runs that ended, query 2 the runs in flight.
PgStatsQuery(k) == IF k = 1 THEN [req EXCEPT !.ended = Ended(Rows)]
                   ELSE [req EXCEPT !.flying = Flying(Rows)]

PgStats ==
    /\ backend = "postgres"
    /\ \/ req.pc = "stats" /\ req' = [PgStatsQuery(1) EXCEPT !.pc = "stats2"]
       \/ req.pc = "stats2" /\ req' = [PgStatsQuery(2) EXCEPT !.pc = "told"]
    /\ UNCHANGED <<backend, run, triggers, defs, events, pool, tail, now, topic, query, walk>>

ReplyStats ==
    /\ req.pc = "told"
    /\ req' = Idle
    /\ query' = NoQuery
    /\ UNCHANGED <<backend, run, triggers, defs, events, pool, tail, now, topic, walk>>

-----------------------------------------------------------------------------
(***************************************************************************)
(* The event stream.                                                       *)
(***************************************************************************)
MemoryAppend(event) == Append(events, event)

RedisAppend(event) == Append(events, event)

\* ON CONFLICT (run_id, step_id, attempt, event_type) DO NOTHING; a NULL step is
\* different from any other.
PgAppend(event) ==
    IF event \in Range(events) /\ event.key \notin RunEvent THEN events
    ELSE Append(events, event)

\* Commit of an insert fires the trigger that NOTIFYs every connection that LISTENs,
\* whether a stream uses it or not.
Notified(conn, r, ids) ==
    IF r \in conn.listens THEN [conn EXCEPT !.notes = @ \o SetToSeq(ids)] ELSE conn

AppendEvent(r, key) ==
    LET event == [run |-> r, key |-> key] IN
    /\ topic = "stream" /\ Len(events) < MaxEvents
    /\ events' = CASE backend = "memory"   -> MemoryAppend(event)
                   [] backend = "redis"    -> RedisAppend(event)
                   [] backend = "postgres" -> PgAppend(event)
    /\ LET new == (DOMAIN events') \ DOMAIN events IN
         /\ pool' = [c \in Conn |-> Notified(pool[c], r, new)]
         /\ tail' = IF req.pc = "listen" /\ query.filter = r
                      THEN [tail EXCEPT !.missed = @ \cup new] ELSE tail
    /\ UNCHANGED <<backend, run, triggers, defs, now, topic, query, req, walk>>

\* The events of the run that is streamed.
Own == {i \in DOMAIN events : events[i].run = query.filter}

Streaming(pc) ==
    /\ req' = [req EXCEPT !.pc = pc]
    /\ UNCHANGED <<backend, run, triggers, defs, events, now, topic, query, walk>>

\* The run's frame; a client of another store gets 501.
OpenStream ==
    /\ req.pc = "stream" /\ backend = "postgres"
    /\ Streaming("snapshot")
    /\ UNCHANGED <<pool, tail>>

\* ListEventsByRun, whose error is dropped: then nothing is sent and the stream goes on.
SendSnapshot ==
    /\ req.pc = "snapshot"
    /\ \/ \E ids \in Descending(Own, LAMBDA i, j : i < j) : tail' = [tail EXCEPT !.sent = ids]
       \/ tail' = [tail EXCEPT !.missed = Own]
    /\ Streaming("listen")
    /\ UNCHANGED pool

\* Acquire and LISTEN.  The pool may hand out a connection that has LISTENed before.
Listen(c) ==
    /\ req.pc = "listen"
    /\ pool' = [pool EXCEPT ![c].listens = @ \cup {query.filter}]
    /\ tail' = [tail EXCEPT !.conn = c, !.fresh = (pool[c] = NewConn)]
    /\ Streaming("tail")

\* The first NOTIFY that the connection holds.
Note == Head(pool[tail.conn].notes)

TakeNote(stream) ==
    /\ req.pc = "tail" /\ pool[tail.conn].notes # <<>>
    /\ pool' = [pool EXCEPT ![tail.conn].notes = Tail(@)]
    /\ tail' = stream
    /\ Streaming("tail")

\* A NOTIFY that comes before its event can be read.
EarlyNotify == TakeNote(tail)

\* WaitForNotification and GetEventByID, which does not ask whose event it is; when it
\* fails the stream goes on without the event.
SendEvent ==
    \/ TakeNote([tail EXCEPT !.sent = Append(@, Note)])
    \/ TakeNote([tail EXCEPT !.missed = @ \cup {Note}])

EndStream ==
    /\ tail' = NoTail
    /\ req' = Idle
    /\ query' = NoQuery
    /\ UNCHANGED <<backend, run, triggers, defs, events, now, topic, walk>>

\* Another store than Postgres, a failed write, no connection to be had.
CloseStream ==
    /\ req.pc \in {"snapshot", "listen"} \/ (req.pc = "stream" /\ backend # "postgres")
    /\ EndStream
    /\ UNCHANGED pool

\* Release.  The connection goes back LISTENing and with the NOTIFYs it still holds, one
\* less when a write has failed; one that is broken is destroyed.
CloseTail ==
    /\ req.pc = "tail"
    /\ \/ UNCHANGED pool
       \/ /\ pool[tail.conn].notes # <<>>
          /\ pool' = [pool EXCEPT ![tail.conn].notes = Tail(@)]
       \/ pool' = [pool EXCEPT ![tail.conn] = NewConn]
    /\ EndStream

\* The pool closes an idle connection and opens another.
DropConn(c) ==
    /\ c # tail.conn /\ pool[c] # NewConn
    /\ pool' = [pool EXCEPT ![c] = NewConn]
    /\ UNCHANGED <<backend, run, triggers, defs, events, tail, now, topic, query, req, walk>>

Next ==
    \/ \E i \in Run :
         \/ \E o \in Origin : CreateRun(i, o[1], o[2])
         \/ \E state \in Written : WriteState(i, state)
         \/ ExpireRun(i)
    \/ \E t \in Trigger : DeleteTrigger(t)
    \/ \E ver \in Version, published \in BOOLEAN : SaveDefinition(ver, published)
    \/ \E limit \in Limits :
         \/ \E f \in RunFilters : Ask("runs", f, limit)
         \/ \E f \in DefFilters : Ask("defs", f, limit)
    \/ \E wf \in Workflow : Ask("stats", [wf |-> wf], 0)
    \/ \E r \in Streamed : Ask("stream", r, 0) \/ \E key \in EventKey : AppendEvent(r, key)
    \/ \E c \in Conn : Listen(c) \/ DropConn(c)
    \/ Request \/ ListRuns \/ CountRuns \/ ListDefinitions \/ Reply
    \/ RedisLoadIndex \/ RedisLoadBlobs \/ RedisListRuns \/ RedisCountRuns
    \/ MemoryStats \/ RedisStatsIndex \/ RedisStats \/ PgStats \/ ReplyStats
    \/ OpenStream \/ SendSnapshot \/ SendEvent \/ CloseStream \/ CloseTail

Spec == Init /\ [][Next]_vars

-----------------------------------------------------------------------------
(***************************************************************************)
(* Properties.                                                             *)
(***************************************************************************)
\* Types; no page is longer than the limit asked for or holds a row twice, and the total is
\* a number of runs.
TypeOK ==
    /\ backend \in {"memory", "redis", "postgres"}
    /\ triggers \subseteq Trigger /\ now \in 0 .. MaxTime
    /\ \A i \in Run : run[i].state \in InFlight \cup {"succeeded", "failed", "cancelled", Nil}
    /\ walk.n \in 0 .. MaxWalks[topic]
    /\ Len(req.page) <= query.limit /\ IsInjective(req.page)
    /\ req.total \in 0 .. Cardinality(Run)

\* The order of the list is determined: no two rows tie.
NoTies ==
    CASE query.list = "runs" ->
           \/ backend = "redis" /\ query.filter.wf = Nil
           \/ \A i, j \in Run : run[i].state # Nil /\ run[j].state # Nil /\ i # j
                => run[i].started # run[j].started
      [] OTHER -> \A i, j \in DOMAIN defs : i = j \/ NewerDef(i, j) \/ NewerDef(j, i)

\* A client that has walked the list of runs or of definitions to its end has seen every
\* row that matched from its first request on, however many rows were added meanwhile: an
\* addition to the front only repeats rows.  (Not so when rows tie, or stop to match.)
WalkComplete ==
    req.pc = "reply" /\ req.page = <<>> /\ NoTies /\ ~walk.lost
        => walk.stayed \subseteq walk.seen

\* Every row of a page matched the filter at some moment between the request and its
\* answer, although Redis puts it together from three reads.
RowsMatched == req.pc \in {"count", "reply"} => Range(req.page) \subseteq walk.ever

\* The statistics count a run both as ended and as in flight only in Postgres, which counts
\* in two statements, and only when it has come back from its end between them, as a failed
\* step's run does when its rollback begins.  A run that merely ends is counted once.
CountedOnce ==
    req.pc = "told" =>
        \A i \in req.ended \cap req.flying : backend = "postgres" /\ i \in walk.reopened

\* A stream leaves out no event of its run but those recorded between its read of the
\* existing events and its LISTEN and those it could not read.  On a connection that no
\* stream has used before it sends none twice and none of another run.
StreamExact ==
    req.pc = "tail" =>
        LET got == tail.sent \o pool[tail.conn].notes
        IN  /\ Own \ tail.missed \subseteq Range(got)
            /\ tail.fresh => IsInjective(got) /\ Range(got) \subseteq Own
=============================================================================
