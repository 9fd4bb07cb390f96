------------------------------- MODULE Launch -------------------------------
(***************************************************************************)
(* How a run comes to be: definitions and triggers are saved, and the REST *)
(* API, an embedding program, the trigger dispatcher and the sub_saga and  *)
(* spawn_saga verbs resolve the published definition, create a run on it   *)
(* and have it advanced (api/handler_sagas.go, saga/saga.go,               *)
(* engine/trigger_dispatcher.go, engine/verbs/sub_saga.go, spawn_saga.go). *)
(* Every store call and every publish is a step of its own and may fail.   *)
(*                                                                         *)
(* One workflow id.  The definitions table is the sequence of its rows; a  *)
(* row id is a position.  Init chooses the backend: the memory and redis   *)
(* stores add a row per upsert, Postgres keeps one row per version.        *)
(***************************************************************************)
EXTENDS Naturals, Sequences, FiniteSets

CONSTANTS
    Doc,        \* the definitions that may be saved
    Starter,    \* concurrent requests, deliveries and verbs
    Role,       \* Role[s]: the kinds of start that s may make
    Trigger,    \* ids of record_transition triggers
    Config,     \* Config[t]: the row of trigger t: what it matches, its entrypoint
    Event,      \* events that may be delivered
    Entry,      \* names of entry points
    MaxSaves, MaxFaults,
    Nil

Kind == {"api", "embed", "trigger", "sub", "spawn"}

ASSUME RoleAssumption == Role \in [Starter -> SUBSET Kind]
ASSUME BoundsAssumption == {MaxSaves, MaxFaults} \subseteq Nat
ASSUME DocAssumption == \A d \in Doc : d.ver \in Nat

VARIABLES
    backend,
    defs,       \* the rows of workflow_definitions
    saves,      \* how many definitions were saved
    trig,       \* trig[t]: "absent", "live" or "deleted"
    st,         \* st[s]: the progress of starter s
    runs,       \* the runs created, in order
    advanced,   \* the runs whose first advance was published or made
    fires,      \* rows of trigger_fires
    faults

vars == <<backend, defs, saves, trig, st, runs, advanced, fires, faults>>

Idle ==
    [pc |-> "idle", kind |-> Nil, entry |-> Nil, todo |-> {}, trig |-> Nil,
     doc |-> Nil, step |-> Nil, row |-> 0, run |-> 0, err |-> FALSE]

-----------------------------------------------------------------------------
\* Entry points name steps; no try_catch holds a parallel step.
ValidateDefinition(d) ==
    /\ \A e \in DOMAIN d.entries : d.entries[e] \in d.steps
    /\ \A p \in d.try : p[2] \in d.steps => d.type[p[2]] # "parallel"

\* "" and "default" are Nil: they resolve to Start.
CanResolveEntry(d, e) == IF e = Nil THEN d.start # Nil ELSE e \in DOMAIN d.entries

\* The name of the entry point for its step.
EntryName(d, e) == IF e = Nil THEN d.start ELSE e

ResolveEntry(d, e) == IF e = Nil THEN d.start ELSE d.entries[e]

MemoryUpsert(ds, d) == Append(ds, d)

RedisUpsert(ds, d) == Append(ds, d)

HasVersion(ds, v) == \E i \in DOMAIN ds : ds[i].ver = v

VersionRow(ds, v) == CHOOSE i \in DOMAIN ds : ds[i].ver = v

\* ON CONFLICT (workflow_id, version) DO UPDATE
PostgresUpsert(ds, d) ==
    IF HasVersion(ds, d.ver) THEN [ds EXCEPT ![VersionRow(ds, d.ver)] = d]
    ELSE Append(ds, d)

UpsertWorkflowDefinition(ds, d) ==
    CASE backend = "memory"   -> MemoryUpsert(ds, d)
      [] backend = "redis"    -> RedisUpsert(ds, d)
      [] backend = "postgres" -> PostgresUpsert(ds, d)

\* The freshly generated id, whether or not it is the id of a row.
PhantomId(ds, d) == Len(ds) + 1

\* The id an upsert into ds returns: Postgres' RETURNING id is that of the row updated.
UpsertedRow(ds, d) ==
    IF backend = "postgres" /\ HasVersion(ds, d.ver) THEN VersionRow(ds, d.ver)
    ELSE Len(ds) + 1

PublishedRows(ds) == {i \in DOMAIN ds : ds[i].published}

Last(S) == CHOOSE i \in S : \A j \in S : j <= i

\* The newest published row, or without one the newest row.
MemoryPublished(ds) ==
    IF ds = <<>> THEN Nil
    ELSE ds[Last(IF PublishedRows(ds) = {} THEN DOMAIN ds ELSE PublishedRows(ds))]

RedisPublished(ds) ==
    IF ds = <<>> THEN Nil
    ELSE ds[Last(IF PublishedRows(ds) = {} THEN DOMAIN ds ELSE PublishedRows(ds))]

\* The highest published version, and nothing else.
PostgresPublished(ds) ==
    IF PublishedRows(ds) = {} THEN Nil
    ELSE ds[VersionRow(ds, Last({ds[i].ver : i \in PublishedRows(ds)}))]

GetPublishedWorkflowByID(ds) ==
    CASE backend = "memory"   -> MemoryPublished(ds)
      [] backend = "redis"    -> RedisPublished(ds)
      [] backend = "postgres" -> PostgresPublished(ds)

\* SpawnChildRunAt takes the newest row of the workflow, published or not.
MemorySpawnRow(ds, d) == Len(ds)

RedisSpawnRow(ds, d) == Len(ds)

PostgresSpawnRow(ds, d) == VersionRow(ds, d.ver)

SpawnRow(ds, d) ==
    CASE backend = "memory"   -> MemorySpawnRow(ds, d)
      [] backend = "redis"    -> RedisSpawnRow(ds, d)
      [] backend = "postgres" -> PostgresSpawnRow(ds, d)

-----------------------------------------------------------------------------
Init ==
    /\ backend \in {"memory", "redis", "postgres"}
    /\ defs = <<>>
    /\ saves = 0
    /\ trig = [t \in Trigger |-> "absent"]
    /\ st = [s \in Starter |-> Idle]
    /\ runs = <<>>
    /\ advanced = {}
    /\ fires = {}
    /\ faults = 0

Store(d) ==
    /\ saves < MaxSaves
    /\ defs' = UpsertWorkflowDefinition(defs, d)
    /\ saves' = saves + 1
    /\ UNCHANGED <<backend, trig, st, runs, advanced, fires, faults>>

\* POST /api/v1/workflows
Save(d) == ValidateDefinition(d) /\ Store(d)

\* Saga.Register validates nothing.
Register(d) == Store(d)

ValidTriggerConfig(t) ==
    \A f \in {"record", "from", "to"} : Config[t][f] # Nil

CreateTrigger(t) ==
    /\ trig[t] = "absent"
    /\ ValidTriggerConfig(t)
    /\ trig' = [trig EXCEPT ![t] = "live"]
    /\ UNCHANGED <<backend, defs, saves, st, runs, advanced, fires, faults>>

DeleteTrigger(t) ==
    /\ trig[t] = "live"
    /\ trig' = [trig EXCEPT ![t] = "deleted"]
    /\ UNCHANGED <<backend, defs, saves, st, runs, advanced, fires, faults>>

-----------------------------------------------------------------------------
\* A call fails, or the process stops: MaxFaults times in all.
Fault == faults < MaxFaults /\ faults' = faults + 1

\* What remains of starter s's work on the trigger in hand is dropped.
Cleared(s) ==
    [st[s] EXCEPT !.entry = Nil, !.trig = Nil, !.doc = Nil, !.step = Nil, !.row = 0, !.run = 0]

\* A dispatcher goes on to its next trigger, the others are done.
Leave(s) == [Cleared(s) EXCEPT !.pc = IF st[s].kind = "trigger" THEN "next" ELSE "done"]

\* A dispatcher that gives up at the first error.
ReturnAtOnce(s) == [Cleared(s) EXCEPT !.pc = "done", !.err = TRUE]

\* A failure that is only logged.
SilentFailure(s) == Leave(s)

\* The dispatcher keeps the first error and continues with the other triggers.
Report(s) == [Leave(s) EXCEPT !.err = TRUE]

Begin(s, k, e) ==
    /\ st[s].pc = "idle"
    /\ k \in Role[s] \ {"trigger"}
    /\ st' = [st EXCEPT ![s].pc = "resolve", ![s].kind = k, ![s].entry = e]
    /\ UNCHANGED <<backend, defs, saves, trig, runs, advanced, fires, faults>>

ListTriggers == {t \in Trigger : trig[t] = "live" /\ Config[t].enabled}

Matches(t, ev) == \A f \in {"record", "from", "to"} : Config[t][f] = ev[f]

\* Dispatch up to its loop.  The triggers are read once, here.
Receive(s, ev) ==
    /\ st[s].pc = "idle" /\ "trigger" \in Role[s]
    /\ \/ /\ ~(ev.transition /\ ev.decodes)         \* another topic, or no JSON
          /\ st' = [st EXCEPT ![s].pc = "done", ![s].kind = "trigger"]
          /\ UNCHANGED faults
       \/ /\ ev.transition /\ ev.decodes            \* ListTriggers fails
          /\ Fault
          /\ st' = [st EXCEPT ![s].pc = "done", ![s].kind = "trigger", ![s].err = TRUE]
       \/ /\ ev.transition /\ ev.decodes
          /\ st' = [st EXCEPT ![s].pc = "next", ![s].kind = "trigger",
                              ![s].todo = {t \in ListTriggers : Matches(t, ev)}]
          /\ UNCHANGED faults
    /\ UNCHANGED <<backend, defs, saves, trig, runs, advanced, fires>>

NextTrigger(s) ==
    /\ st[s].pc = "next"
    /\ \/ /\ st[s].todo = {}
          /\ st' = [st EXCEPT ![s].pc = "done"]
       \/ \E t \in st[s].todo :
            st' = [st EXCEPT ![s].pc = "resolve", ![s].todo = @ \ {t}, ![s].trig = t,
                             ![s].entry = Config[t].entry]
    /\ UNCHANGED <<backend, defs, saves, trig, runs, advanced, fires, faults>>

\* No definition, no such entry point, or a failed read: the dispatcher logs it and
\* moves on, the others answer with an error.
Unresolved(s) == IF st[s].kind = "trigger" THEN Leave(s) ELSE Report(s)

Resolvable(s, d) == d # Nil /\ (st[s].kind = "api" \/ CanResolveEntry(d, st[s].entry))

\* GetPublishedWorkflowByID, then ResolveEntry.  The REST API takes no entry point
\* and leaves CurrentStep empty.
Resolve(s) ==
    LET d == GetPublishedWorkflowByID(defs)
        k == st[s].kind
    IN  /\ st[s].pc = "resolve"
        /\ \/ /\ Fault
              /\ st' = [st EXCEPT ![s] = Unresolved(s)]
           \/ /\ ~Resolvable(s, d)
              /\ st' = [st EXCEPT ![s] = Unresolved(s)]
              /\ UNCHANGED faults
           \/ /\ Resolvable(s, d)
              /\ st' = [st EXCEPT ![s].pc = IF k \in {"sub", "spawn"} THEN "spawn" ELSE "upsert",
                                  ![s].doc = d,
                                  ![s].step = IF k = "api" THEN Nil
                                              ELSE ResolveEntry(d, st[s].entry)]
              /\ UNCHANGED faults
        /\ UNCHANGED <<backend, defs, saves, trig, runs, advanced, fires>>

\* The definition that was read is written back, to get a row id.
Upsert(s) ==
    /\ st[s].pc = "upsert"
    /\ \/ /\ Fault
          /\ st' = [st EXCEPT ![s] = Report(s)]
          /\ UNCHANGED defs
       \/ /\ defs' = UpsertWorkflowDefinition(defs, st[s].doc)
          /\ st' = [st EXCEPT ![s].pc = "create", ![s].row = UpsertedRow(defs, st[s].doc)]
          /\ UNCHANGED faults
    /\ UNCHANGED <<backend, saves, trig, runs, advanced, fires>>

\* doc and by are history: the definition resolved, and by whom.
NewRun(s, row) ==
    [row |-> row, step |-> st[s].step, trig |-> st[s].trig, vars |-> FALSE,
     doc |-> st[s].doc, by |-> s]

CreateRun(s) ==
    /\ st[s].pc = "create"
    /\ \/ /\ Fault
          /\ st' = [st EXCEPT ![s] = Report(s)]
          /\ UNCHANGED runs
       \/ /\ runs' = Append(runs, NewRun(s, st[s].row))
          /\ st' = [st EXCEPT ![s].pc = "inject", ![s].run = Len(runs) + 1]
          /\ UNCHANGED faults
    /\ UNCHANGED <<backend, defs, saves, trig, advanced, fires>>

\* sub_saga and spawn_saga: definition row and run in one store call, a transaction that
\* may run out of attempts.
SpawnChildRunAt(s) ==
    /\ st[s].pc = "spawn"
    /\ \/ /\ Fault
          /\ st' = [st EXCEPT ![s] = Report(s)]
          /\ UNCHANGED runs
       \/ /\ runs' = Append(runs, NewRun(s, SpawnRow(defs, st[s].doc)))
          /\ st' = [st EXCEPT ![s].pc = "publish", ![s].run = Len(runs) + 1]
          /\ UNCHANGED faults
    /\ UNCHANGED <<backend, defs, saves, trig, advanced, fires>>

\* Startup variables are best effort: a failed provider or write is logged.
InjectStartupVariables(s) ==
    /\ st[s].pc = "inject"
    /\ \/ Fault /\ UNCHANGED runs
       \/ runs' = [runs EXCEPT ![st[s].run].vars = TRUE] /\ UNCHANGED faults
    /\ st' = [st EXCEPT ![s].pc = "publish"]
    /\ UNCHANGED <<backend, defs, saves, trig, advanced, fires>>

\* A dispatcher that records the fire of a run it failed to publish.
RecordAnyway(s) ==
    /\ st[s].pc = "publish"
    /\ \/ Fault /\ UNCHANGED advanced
       \/ advanced' = advanced \cup {st[s].run} /\ UNCHANGED faults
    /\ st' = [st EXCEPT ![s] = IF st[s].kind = "trigger" THEN [@ EXCEPT !.pc = "record"]
                               ELSE Leave(s)]
    /\ UNCHANGED <<backend, defs, saves, trig, runs, fires>>

\* PublishSagaAdvance, or the embedding program's own Advance.  spawn_saga ignores
\* a failure.
Publish(s) ==
    /\ st[s].pc = "publish"
    /\ \/ /\ Fault
          /\ st' = [st EXCEPT ![s] = IF st[s].kind = "spawn" THEN Leave(s) ELSE Report(s)]
          /\ UNCHANGED advanced
       \/ /\ advanced' = advanced \cup {st[s].run}
          /\ st' = [st EXCEPT ![s] = IF st[s].kind = "trigger" THEN [@ EXCEPT !.pc = "record"]
                                     ELSE Leave(s)]
          /\ UNCHANGED faults
    /\ UNCHANGED <<backend, defs, saves, trig, runs, fires>>

\* RecordTriggerFire; the redis store keeps no audit, a failure is logged.
RecordTriggerFire(s) ==
    /\ st[s].pc = "record"
    /\ \/ Fault /\ UNCHANGED fires
       \/ /\ fires' = IF backend = "redis" THEN fires
                      ELSE fires \cup {[trig |-> st[s].trig, run |-> st[s].run]}
          /\ UNCHANGED faults
    /\ st' = [st EXCEPT ![s] = Leave(s)]
    /\ UNCHANGED <<backend, defs, saves, trig, runs, advanced>>

\* The process of s stops; events are consumed with auto-ack, nobody starts over.
Crash(s) ==
    /\ st[s].pc \notin {"idle", "done", "crashed"}
    /\ Fault
    /\ st' = [st EXCEPT ![s] = [Cleared(s) EXCEPT !.pc = "crashed", !.todo = {}]]
    /\ UNCHANGED <<backend, defs, saves, trig, runs, advanced, fires>>

Step(s) ==
    \/ NextTrigger(s) \/ Resolve(s) \/ Upsert(s) \/ CreateRun(s) \/ SpawnChildRunAt(s)
    \/ InjectStartupVariables(s) \/ Publish(s) \/ RecordTriggerFire(s)

Next ==
    \/ \E d \in Doc : Save(d) \/ Register(d)
    \/ \E t \in Trigger : CreateTrigger(t) \/ DeleteTrigger(t)
    \/ \E s \in Starter, k \in Kind, e \in Entry \cup {Nil} : Begin(s, k, e)
    \/ \E s \in Starter, ev \in Event : Receive(s, ev)
    \/ \E s \in Starter : Step(s) \/ Crash(s)

Spec == Init /\ [][Next]_vars

-----------------------------------------------------------------------------
\* What an entry point of d may name; Register does not ask for a step.
Target(d) == {d.start} \cup {d.entries[e] : e \in DOMAIN d.entries}

Targets == {Nil} \cup UNION {Target(d) : d \in Doc}

StarterType ==
    [pc : {"idle", "next", "resolve", "upsert", "create", "spawn", "inject", "publish",
           "record", "done", "crashed"},
     kind : Kind \cup {Nil}, entry : Entry \cup {Config[t].entry : t \in Trigger} \cup {Nil},
     todo : SUBSET Trigger, trig : Trigger \cup {Nil}, doc : Doc \cup {Nil}, step : Targets,
     row : Nat, run : Nat, err : BOOLEAN]

RunType ==
    [row : Nat \ {0}, step : Targets, trig : Trigger \cup {Nil}, vars : BOOLEAN, doc : Doc,
     by : Starter]

\* Every variable keeps its type.
TypeOK ==
    /\ backend \in {"memory", "redis", "postgres"}
    /\ defs \in Seq(Doc) /\ saves \in 0 .. MaxSaves
    /\ trig \in [Trigger -> {"absent", "live", "deleted"}]
    /\ st \in [Starter -> StarterType]
    /\ \A s \in Starter : st[s].run \in 0 .. Len(runs)
    /\ runs \in Seq(RunType)
    /\ advanced \subseteq DOMAIN runs
    /\ fires \subseteq [trig : Trigger, run : DOMAIN runs]
    /\ faults \in 0 .. MaxFaults

(***************************************************************************)
(* Whatever is saved or started around it, the definition row of a run     *)
(* exists and holds the version that was resolved for it: in the memory    *)
(* and redis stores that very document, in Postgres the same version.      *)
(* Children the memory and redis stores spawn are excepted: they get the   *)
(* newest row.                                                             *)
(***************************************************************************)
Spawned(r) == st[r.by].kind \in {"sub", "spawn"}

RunsKeepTheirVersion ==
    \A i \in DOMAIN runs : LET r == runs[i] IN
        /\ r.row \in DOMAIN defs
        /\ backend = "postgres" => defs[r.row].ver = r.doc.ver
        /\ backend # "postgres" /\ ~Spawned(r) => defs[r.row] = r.doc

(***************************************************************************)
(* A run that was created and never advanced is never silent: its starter  *)
(* is still on its way to publishing, has crashed, has returned an error,  *)
(* or was spawn_saga, which says it leaves such orphans.                   *)
(***************************************************************************)
UnadvancedIsReported ==
    \A i \in DOMAIN runs \ advanced : LET s == runs[i].by IN
        \/ st[s].run = i
        \/ st[s].pc = "crashed"
        \/ st[s].err
        \/ st[s].kind = "spawn"

(***************************************************************************)
(* "One bad trigger doesn't block the others": a Dispatch that has         *)
(* returned has taken up every trigger it listed, whatever failed.         *)
(***************************************************************************)
AllTriggersTried == \A s \in Starter : st[s].pc = "done" => st[s].todo = {}

(***************************************************************************)
(* The audit is truthful: a recorded fire names a run of that trigger that *)
(* was advanced, no run has two fires, and one delivery starts at most one *)
(* run per trigger.                                                        *)
(***************************************************************************)
FiresMatchRuns ==
    /\ \A f \in fires : f.run \in advanced /\ runs[f.run].trig = f.trig
    /\ \A f, g \in fires : f.run = g.run => f = g
    /\ \A i, j \in DOMAIN runs :
         runs[i].by = runs[j].by /\ runs[i].trig = runs[j].trig => i = j
=============================================================================
