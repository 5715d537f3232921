---------------------------- MODULE WorkContext -----------------------------
(***************************************************************************)
(* Outcomes, work items and monitors (store/context.go, monitors, and the  *)
(* POST /outcomes handler).  A handler upserts a work item, correlates the *)
(* outcome with its run, records it and evaluates the monitors, each in a  *)
(* statement of its own; connectors and workers evaluate monitors as well. *)
(***************************************************************************)
EXTENDS Integers, FiniteSets

CONSTANTS
  OutcomeId, OutcomeRun,
  Routed,        \* the runs that come from an event
  Key,           \* kind and external key of a work item
  OutcomeHandler,
  Evaluator,     \* the poll loop or a worker, which only evaluate
  Post,          \* the requests: an outcome with its id, type, run, item and time
  OutcomeLimit,  \* how many outcomes an evaluation reads
  Window,        \* the template's window
  MaxDay,        \* bound: time
  Nothing        \* an empty column or field

ASSUME WorkContextAssumption ==
  /\ Routed \subseteq OutcomeRun
  /\ {OutcomeLimit, Window, MaxDay} \subseteq Nat
  /\ Post \subseteq [id: OutcomeId, type: {"passed", "failed", "other"},
                      run: OutcomeRun \cup {Nothing}, key: Key \cup {Nothing}, at: 0..MaxDay]
  /\ Evaluator \notin OutcomeHandler
  /\ Nothing \notin OutcomeRun \cup Key \cup OutcomeHandler

VARIABLES
  workItem,  \* the id of the work item with a key: the handler that created it
  attached,  \* events.work_item_id of each run's event
  outcome,   \* outcomes rows
  monitor,   \* monitor_states.state of one template
  poster,    \* what the handlers and the evaluator are doing
  day

contextVars == <<workItem, attached, outcome, monitor, poster, day>>

PosterIdle == [pc |-> "idle"]
SetPoster(h, v) == poster' = [poster EXCEPT ![h] = v]
Poster == OutcomeHandler \cup {Evaluator}
ItemId == OutcomeHandler \cup {Nothing}

ContextInit ==
  /\ workItem = [k \in Key |-> Nothing]
  /\ attached = [r \in Routed |-> Nothing]
  /\ outcome = [i \in OutcomeId |-> Nothing]
  /\ monitor = "unknown"
  /\ poster = [h \in Poster |-> PosterIdle]
  /\ day = 0

-----------------------------------------------------------------------------
(* Recording an outcome *)

\* UpsertWorkItem keeps the id of the row that has the key already.
UpsertWorkItem(h, k) == [workItem EXCEPT ![k] = IF @ = Nothing THEN h ELSE @]

\* serveCreateOutcome begins: with a work item or without, with a run or without.
CreateOutcome(h, p) ==
  /\ poster[h] = PosterIdle
  /\ workItem' = IF p.key = Nothing THEN workItem ELSE UpsertWorkItem(h, p.key)
  /\ SetPoster(h, [pc |-> "correlate", id |-> p.id, type |-> p.type, run |-> p.run, at |-> p.at,
                   item |-> IF p.key = Nothing THEN Nothing ELSE workItem'[p.key]])
  /\ UNCHANGED <<attached, outcome, monitor, day>>

AttachedTo(r) == IF r \in Routed THEN attached[r] ELSE Nothing

\* RecordOutcome reads the run's work item.  It takes it over when the caller
\* named none, and refuses a run without an event and a run of another item.
Correlate(h) ==
  /\ poster[h].pc = "correlate"
  /\ LET p == poster[h]
     IN SetPoster(h,
          IF p.run = Nothing THEN [p EXCEPT !.pc = "insert"]
          ELSE IF p.item = Nothing THEN [p EXCEPT !.pc = "insert", !.item = AttachedTo(p.run)]
          ELSE IF p.run \notin Routed \/ attached[p.run] \notin {Nothing, p.item} THEN PosterIdle
          ELSE [p EXCEPT !.pc = IF attached[p.run] = Nothing THEN "attach" ELSE "insert"])
  /\ UNCHANGED <<workItem, attached, outcome, monitor, day>>

\* The update changes the event's row if it still has no work item; how many rows
\* it changed is not looked at.
Attach(h) ==
  /\ poster[h].pc = "attach"
  /\ attached' = [attached EXCEPT ![poster[h].run] = IF @ = Nothing THEN poster[h].item ELSE @]
  /\ SetPoster(h, [poster[h] EXCEPT !.pc = "insert"])
  /\ UNCHANGED <<workItem, outcome, monitor, day>>

\* The insert; an id that is taken is an error.
InsertOutcome(h) ==
  /\ poster[h].pc = "insert"
  /\ LET p == poster[h]
     IN IF outcome[p.id] = Nothing
          THEN /\ outcome' = [outcome EXCEPT ![p.id] =
                                [type |-> p.type, run |-> p.run, item |-> p.item, at |-> p.at]]
               /\ SetPoster(h, [pc |-> "evaluate"])
          ELSE UNCHANGED outcome /\ SetPoster(h, PosterIdle)
  /\ UNCHANGED <<workItem, attached, monitor, day>>

-----------------------------------------------------------------------------
(* Monitors *)

Recorded == {i \in OutcomeId : outcome[i] # Nothing}

\* Newest first; ids, which are numbers here, break ties.
Newer(i, j) == outcome[i].at > outcome[j].at \/ (outcome[i].at = outcome[j].at /\ i > j)

\* ListOutcomes: the newest ones.
ListOutcomes == {i \in Recorded : Cardinality({j \in Recorded : Newer(j, i)}) < OutcomeLimit}

\* Mutant: the oldest outcome in the window decides.
EvaluateOldest ==
  LET relevant == {i \in ListOutcomes : /\ outcome[i].at >= day - Window
                                        /\ outcome[i].type \in {"passed", "failed"}}
      latest == {i \in relevant : \A j \in relevant : ~Newer(i, j)}
  IN IF latest = {} THEN "unknown"
     ELSE IF \E i \in latest : outcome[i].type = "passed" THEN "healthy" ELSE "unhealthy"

\* Evaluate: what the latest relevant outcome in the window says.
Evaluate ==
  LET relevant == {i \in ListOutcomes : /\ outcome[i].at >= day - Window
                                        /\ outcome[i].type \in {"passed", "failed"}}
      latest == {i \in relevant : \A j \in relevant : ~Newer(j, i)}
  IN IF latest = {} THEN "unknown"
     ELSE IF \E i \in latest : outcome[i].type = "passed" THEN "healthy" ELSE "unhealthy"

\* EvaluateAndStore reads ...
EvaluateMonitor(h) ==
  /\ poster[h].pc = "evaluate" \/ (h = Evaluator /\ poster[h].pc = "idle")
  /\ SetPoster(h, [pc |-> "put", state |-> Evaluate])
  /\ UNCHANGED <<workItem, attached, outcome, monitor, day>>

\* ... and PutMonitorState replaces the row, whatever was evaluated since.
PutMonitorState(h) ==
  /\ poster[h].pc = "put"
  /\ monitor' = poster[h].state
  /\ SetPoster(h, PosterIdle)
  /\ UNCHANGED <<workItem, attached, outcome, day>>

NextDay == day < MaxDay /\ day' = day + 1 /\ UNCHANGED <<workItem, attached, outcome, monitor, poster>>

PosterStep(h) ==
  \/ Correlate(h) \/ Attach(h) \/ InsertOutcome(h) \/ EvaluateMonitor(h) \/ PutMonitorState(h)

ContextNext ==
  \/ \E h \in OutcomeHandler, p \in Post : CreateOutcome(h, p)
  \/ \E h \in Poster : PosterStep(h)
  \/ NextDay

ContextSpec == ContextInit /\ [][ContextNext]_contextVars

-----------------------------------------------------------------------------
(* Properties *)

ContextTypeOK ==
  /\ workItem \in [Key -> ItemId]
  /\ attached \in [Routed -> ItemId]
  /\ outcome \in [OutcomeId -> {Nothing} \cup [type: {"passed", "failed", "other"}, run: OutcomeRun \cup {Nothing},
                                               item: ItemId, at: 0..MaxDay]]
  /\ monitor \in {"unknown", "healthy", "unhealthy"}
  /\ \A h \in Poster : poster[h].pc = "attach" => poster[h].run \in Routed

\* The work item of a run's event is set once: a second handler that read the
\* empty column as well changes nothing, so the run's timeline never moves.
AttachedOnce ==
  [][\A r \in Routed : attached[r] # Nothing => attached'[r] = attached[r]]_contextVars

\* The items that events and outcomes name exist: two handlers that upsert one
\* key with ids of their own end up with the id of the row that is stored.
ItemsExist ==
  LET stored == {workItem[k] : k \in Key} \cup {Nothing}
  IN /\ \A r \in Routed : attached[r] \in stored
     /\ \A i \in Recorded : outcome[i].item \in stored

\* As long as an evaluation reads every outcome, the stored state of a monitor
\* becomes the one of the latest relevant outcome, although an evaluation that
\* read earlier may overwrite a later one: the loop evaluates again.
LatestDecides ==
  LET relevant == {i \in Recorded : /\ outcome[i].type # "other"
                                    /\ outcome[i].at + Window >= day}
  IN IF relevant = {} THEN monitor = "unknown"
     ELSE \E i \in relevant : /\ \A j \in relevant \ {i} : Newer(i, j)
                              /\ monitor = IF outcome[i].type = "passed" THEN "healthy"
                                                                         ELSE "unhealthy"
MonitorCatchesUp ==
  (Cardinality(Recorded) <= OutcomeLimit) ~>
    (LatestDecides \/ Cardinality(Recorded) > OutcomeLimit)

\* Items, outcomes and monitors stay consistent although each request is several
\* statements: what is named exists, what is attached stays, and monitors catch up.
ContextIsKept == [](ContextTypeOK /\ ItemsExist) /\ AttachedOnce /\ MonitorCatchesUp
=============================================================================
