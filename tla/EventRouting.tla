---------------------------- MODULE EventRouting ----------------------------
(***************************************************************************)
(* The event router (internal/router) over the event store                 *)
(* (store/events.go, store/runs.go, store/subscriptions.go).  Callers are  *)
(* the goroutines that dispatch events: API handlers, the scheduler, the   *)
(* connector loop, of one or several Studios.  Every caller works on a copy*)
(* of the event and on definitions it read in earlier steps; a transaction *)
(* of the store is one step.                                               *)
(***************************************************************************)
EXTENDS Integers, FiniteSets

CONSTANTS
  Event,       \* pairs of source and external ID, by received_at
  Route,       \* route names
  Caller,      \* goroutines
  Loop,        \* the callers that are connector loops
  Revision,    \* contents of a route's definition
  Usable,      \* the revisions for which runFor finds team, agent, workspace
  Priority,    \* priority of a revision
  Matching,    \* the events a revision's "when" matches
  Nothing,     \* no route, no run, no definition
  Manual,      \* the pseudo-route of manual requests
  PageLimit,   \* LIMIT of ListEventsByStatus
  MaxCrashes   \* bound: callers that stop half way

ASSUME EventRoutingAssumption ==
  /\ Event \subseteq Nat
  /\ Loop \subseteq Caller
  /\ Usable \subseteq Revision
  /\ Priority \in [Revision -> Int]
  /\ Matching \in [Revision -> SUBSET Event]
  /\ Nothing \notin Route \cup Revision
  /\ Manual \notin Route \cup {Nothing}
  /\ PageLimit \in Nat \ {0}
  /\ MaxCrashes \in Nat

VARIABLES
  status,    \* events.status, "absent" without a row
  routedTo,  \* events.routed_run_id
  runs,      \* runs rows, as their identity
  def,       \* the definition file of each route
  enabled,   \* subscriptions.enabled
  call,      \* what each caller is doing
  crashes    \* callers that stopped half way so far

vars == <<status, routedTo, runs, def, enabled, call, crashes>>

\* A run is known by its idempotency key, the event and the route, and by what
\* the route's definition said.
RunRow == [event: Event, route: Route \cup {Manual}, rev: Revision]
Status == {"absent", "ingested", "routed", "unrouted"}

\* A caller's local state.  RecoverIngested has a page of events to dispatch
\* (todo), whether it was a full one, and whether a dispatch succeeded; the
\* other operations dispatch one event and have no page.
Page == [todo: SUBSET Event, full: BOOLEAN, succeeded: BOOLEAN]
NoPage == [todo |-> {}, full |-> FALSE, succeeded |-> FALSE]
Idle == [pc |-> "idle"]
Calls == {Idle, [pc |-> "list"]} \cup
         [pc: {"next"}, page: Page] \cup
         [pc: {"reopened"}, event: Event] \cup
         [pc: {"evaluate"}, event: Event, seen: Status, forced: Route \cup {Nothing},
          page: Page] \cup
         [pc: {"apply"}, event: Event, seen: Status, pick: {Nothing}, rev: {Nothing}, page: Page]
         \cup
         [pc: {"apply"}, event: Event, seen: Status, pick: Route, rev: Usable, page: Page]

\* The switch of a route is what its file said when it was first seen.
Init ==
  /\ status = [e \in Event |-> "absent"]
  /\ routedTo = [e \in Event |-> Nothing]
  /\ runs = {}
  /\ def \in [Route -> Revision \cup {Nothing}]
  /\ enabled \in [Route -> BOOLEAN]
  /\ call = [c \in Caller |-> Idle]
  /\ crashes = 0

-----------------------------------------------------------------------------
(* Transactions of the store *)

\* IngestEvent inserts a row unless the pair of source and ID has one.
IngestEvent(e) ==
  status' = [status EXCEPT ![e] = IF @ = "absent" THEN "ingested" ELSE @]

\* Mutant: a routed event is marked as well.
MarkUnroutedAny(e) ==
  /\ status' = [status EXCEPT ![e] = "unrouted"]
  /\ routedTo' = [routedTo EXCEPT ![e] = Nothing]

\* MarkEventUnrouted refuses routed events.
MarkEventUnrouted(e) ==
  IF status[e] # "routed"
    THEN /\ status' = [status EXCEPT ![e] = "unrouted"]
         /\ routedTo' = [routedTo EXCEPT ![e] = Nothing]
    ELSE UNCHANGED <<status, routedTo>>

\* ReopenEvent takes back an unrouted decision only.
ReopenEvent(e) ==
  /\ status[e] = "unrouted"
  /\ status' = [status EXCEPT ![e] = "ingested"]

\* Mutant: the event's status is not read first.
RouteUnchecked(e, x) ==
  /\ runs' = runs \cup {x}
  /\ status' = [status EXCEPT ![e] = "routed"]
  /\ routedTo' = [routedTo EXCEPT ![e] = x]

\* routeEventTx: a routed event keeps its run (the call is a repetition or a
\* conflict); a key that belongs to a run of another identity is a conflict.
RouteEvent(e, x) ==
  IF /\ status[e] # "routed"
     /\ \A y \in runs : y.event = x.event /\ y.route = x.route => y = x
    THEN /\ runs' = runs \cup {x}
         /\ status' = [status EXCEPT ![e] = "routed"]
         /\ routedTo' = [routedTo EXCEPT ![e] = x]
    ELSE UNCHANGED <<runs, status, routedTo>>

-----------------------------------------------------------------------------
(* Callers *)

SetCall(c, v) == call' = [call EXCEPT ![c] = v]
Fresh(e, seen, forced) ==
  [pc |-> "evaluate", event |-> e, seen |-> seen, forced |-> forced, page |-> NoPage]

\* A duplicate is dispatched again only if nobody has decided about it.
Ingest(c, e) ==
  /\ call[c] = Idle
  /\ IngestEvent(e)
  /\ IF status'[e] = "ingested" THEN SetCall(c, Fresh(e, "ingested", Nothing))
                                ELSE UNCHANGED call
  /\ UNCHANGED <<routedTo, runs, def, enabled, crashes>>

\* Replay stores a copy of a stored event under another ID, once per ID.
Replay(c, original, e) ==
  /\ status[original] # "absent"
  /\ Ingest(c, e)

\* CommitPoll stores the events of a poll in one transaction (cursor and source
\* are not part of this module), and DispatchStored reads each of them again.
CommitPoll(batch) ==
  /\ status' = [e \in Event |->
                  IF e \in batch /\ status[e] = "absent" THEN "ingested" ELSE status[e]]
  /\ UNCHANGED <<routedTo, runs, def, enabled, call, crashes>>

DispatchStored(c, e) ==
  /\ call[c] = Idle
  /\ status[e] = "ingested"
  /\ SetCall(c, Fresh(e, "ingested", Nothing))
  /\ UNCHANGED <<status, routedTo, runs, def, enabled, crashes>>

\* RouteNow of an inbox entry.
RouteNow(c, e, r) ==
  /\ call[c] = Idle
  /\ status[e] \in {"ingested", "unrouted"}
  /\ SetCall(c, Fresh(e, status[e], r))
  /\ UNCHANGED <<status, routedTo, runs, def, enabled, crashes>>

\* Reevaluate reopens the event, then reads it back.
Reevaluate(c, e) ==
  /\ call[c] = Idle
  /\ ReopenEvent(e)
  /\ SetCall(c, [pc |-> "reopened", event |-> e])
  /\ UNCHANGED <<routedTo, runs, def, enabled, crashes>>

Reread(c) ==
  /\ call[c].pc = "reopened"
  /\ SetCall(c, Fresh(call[c].event, status[call[c].event], Nothing))
  /\ UNCHANGED <<status, routedTo, runs, def, enabled, crashes>>

\* Mutant: the limit is applied before the status is compared.
OldestRows ==
  {e \in Event : /\ status[e] = "ingested"
                 /\ Cardinality({f \in Event : f < e /\ status[f] # "absent"}) < PageLimit}

\* ListEventsByStatus(ingested): the oldest PageLimit rows.
ListIngested ==
  {e \in Event : /\ status[e] = "ingested"
                 /\ Cardinality({f \in Event : f < e /\ status[f] = "ingested"}) < PageLimit}

\* RecoverIngested lists a page, dispatches its events in order, and lists the
\* next one if this one was full and some event of it was dealt with.
RecoverIngested(c) ==
  /\ c \in Loop
  /\ call[c] = Idle
  /\ SetCall(c, [pc |-> "list"])
  /\ UNCHANGED <<status, routedTo, runs, def, enabled, crashes>>

ListPage(c) ==
  /\ call[c].pc = "list"
  /\ SetCall(c, IF ListIngested = {} THEN Idle
                ELSE [pc |-> "next",
                      page |-> [todo |-> ListIngested, succeeded |-> FALSE,
                                full |-> Cardinality(ListIngested) = PageLimit]])
  /\ UNCHANGED <<status, routedTo, runs, def, enabled, crashes>>

NextOfPage(c) ==
  /\ call[c].pc = "next"
  /\ \E e \in call[c].page.todo :
       /\ \A f \in call[c].page.todo : e <= f
       /\ SetCall(c, [Fresh(e, "ingested", Nothing)
                        EXCEPT !.page = [call[c].page EXCEPT !.todo = @ \ {e}]])
  /\ UNCHANGED <<status, routedTo, runs, def, enabled, crashes>>

\* A dispatch returns, without an error if ok.
AfterDispatch(page) ==
  IF page.todo # {} THEN [pc |-> "next", page |-> page]
  ELSE IF page.full /\ page.succeeded THEN [pc |-> "list"] ELSE Idle

Done(c, ok) ==
  LET page == call[c].page
  IN SetCall(c, AfterDispatch([page EXCEPT !.succeeded = page.succeeded \/ ok]))

\* matchesRoute, and the switch that overrides the definition's.
Matches(e) == {r \in Route : def[r] # Nothing /\ enabled[r] /\ e \in Matching[def[r]]}

\* Evaluate: the sole route of the highest priority.
Top(e) == {r \in Matches(e) : \A q \in Matches(e) : Priority[def[q]] <= Priority[def[r]]}
Evaluate(e) == IF \E r \in Route : Top(e) = {r} THEN CHOOSE r \in Route : Top(e) = {r}
                                                ELSE Nothing

Pick(c) == IF call[c].forced # Nothing THEN call[c].forced ELSE Evaluate(call[c].event)

\* Mutant: a run is built for a route that is not defined.
DecideUnchecked(c) ==
  /\ call[c].pc = "evaluate"
  /\ SetCall(c, [pc |-> "apply", event |-> call[c].event, seen |-> call[c].seen,
                 pick |-> Pick(c), page |-> call[c].page,
                 rev |-> IF Pick(c) = Nothing THEN Nothing ELSE def[Pick(c)]])
  /\ UNCHANGED <<status, routedTo, runs, def, enabled, crashes>>

\* dispatch, first half: definitions and switches are read, and runFor builds
\* the run.  A route that is not defined or not usable is an error.
Decide(c) ==
  /\ call[c].pc = "evaluate"
  /\ IF Pick(c) # Nothing /\ def[Pick(c)] \notin Usable
       THEN Done(c, FALSE)
       ELSE SetCall(c, [pc |-> "apply", event |-> call[c].event, seen |-> call[c].seen,
                        pick |-> Pick(c), page |-> call[c].page,
                        rev |-> IF Pick(c) = Nothing THEN Nothing ELSE def[Pick(c)]])
  /\ UNCHANGED <<status, routedTo, runs, def, enabled, crashes>>

\* dispatch, second half: the event is marked unrouted, or routed.
ApplyUnrouted(c) ==
  /\ call[c].pc = "apply"
  /\ call[c].pick = Nothing
  /\ IF call[c].seen = "ingested" THEN MarkEventUnrouted(call[c].event)
                                  ELSE UNCHANGED <<status, routedTo>>
  /\ Done(c, call[c].seen = "ingested" => status[call[c].event] # "routed")
  /\ UNCHANGED <<runs, def, enabled, crashes>>

ApplyRoute(c) ==
  /\ call[c].pc = "apply"
  /\ call[c].pick # Nothing
  /\ LET x == [event |-> call[c].event, route |-> call[c].pick, rev |-> call[c].rev]
     IN /\ RouteEvent(call[c].event, x)
        /\ Done(c, routedTo'[call[c].event] = x)
  /\ UNCHANGED <<def, enabled, crashes>>

\* A manual request: IngestAndRoute, one transaction.
IngestAndRoute(e, rev) ==
  /\ RouteEvent(e, [event |-> e, route |-> Manual, rev |-> rev])
  /\ UNCHANGED <<def, enabled, call, crashes>>

\* Studio stops, or a caller's context is cancelled, between two steps.
Crash(c) ==
  /\ call[c] # Idle
  /\ crashes < MaxCrashes
  /\ crashes' = crashes + 1
  /\ SetCall(c, Idle)
  /\ UNCHANGED <<status, routedTo, runs, def, enabled>>

\* SetRouteEnabled; SyncSubscription never overwrites the switch.
SetRouteEnabled(r, on) ==
  /\ def[r] # Nothing
  /\ enabled' = [enabled EXCEPT ![r] = on]
  /\ UNCHANGED <<status, routedTo, runs, def, call, crashes>>

\* The project's files are edited.
EditRoute(r, rev) ==
  /\ def' = [def EXCEPT ![r] = rev]
  /\ UNCHANGED <<status, routedTo, runs, enabled, call, crashes>>

-----------------------------------------------------------------------------
Dispatch(c) ==
  ListPage(c) \/ NextOfPage(c) \/ Reread(c) \/ Decide(c) \/ ApplyUnrouted(c) \/ ApplyRoute(c)

Next ==
  \/ \E c \in Caller :
       \/ Dispatch(c) \/ RecoverIngested(c) \/ Crash(c)
       \/ \E e \in Event : \/ Ingest(c, e) \/ DispatchStored(c, e) \/ Reevaluate(c, e)
                           \/ \E r \in Route : RouteNow(c, e, r)
                           \/ \E original \in Event : Replay(c, original, e)
  \/ \E batch \in SUBSET Event : CommitPoll(batch)
  \/ \E e \in Event, rev \in Revision : IngestAndRoute(e, rev)
  \/ \E r \in Route : \/ \E on \in BOOLEAN : SetRouteEnabled(r, on)
                      \/ \E rev \in Revision \cup {Nothing} : EditRoute(r, rev)

Spec == Init /\ [][Next]_vars

\* An operation that began goes on, and a connector loop calls RecoverIngested
\* again after every round of polls.
Fairness == \A c \in Caller : WF_vars(Dispatch(c)) /\ (c \in Loop => SF_vars(RecoverIngested(c)))
FairSpec == Spec /\ Fairness

-----------------------------------------------------------------------------
(* Properties *)

TypeOK ==
  /\ status \in [Event -> Status]
  /\ routedTo \in [Event -> RunRow \cup {Nothing}]
  /\ runs \subseteq RunRow
  /\ def \in [Route -> Revision \cup {Nothing}]
  /\ enabled \in [Route -> BOOLEAN]
  /\ call \in [Caller -> Calls]
  /\ crashes \in 0..MaxCrashes

\* An event becomes at most one run, however often it is delivered and whoever
\* dispatches it with whatever copy: it is routed exactly when a run of it
\* exists, and that run is the one its row names.
RoutedOnce ==
  \A e \in Event :
    /\ status[e] = "routed" => routedTo[e] \in runs /\ routedTo[e].event = e
    /\ \A x \in runs : x.event = e => status[e] = "routed" /\ routedTo[e] = x

\* Routed events are immutable and runs are not taken back, by no late decision,
\* reopening or manual route.
RoutedIsFinal ==
  [][/\ runs \subseteq runs'
     /\ \A e \in Event : status[e] = "routed" =>
          status'[e] = "routed" /\ routedTo'[e] = routedTo[e]]_vars

\* A stored event is decided about, also when the caller that stored or reopened
\* it stopped before it dispatched it, and also when more events wait than a
\* page holds; unless events are reopened for ever, which can fill every page,
\* or the file of a route stays one that runFor refuses.
Reopened == \E e \in Event : status[e] = "unrouted" /\ status'[e] = "ingested"
IngestedIsDecided ==
  <>[][~Reopened]_vars /\ <>[](\A r \in Route : def[r] \in Usable \cup {Nothing}) =>
    \A e \in Event : status[e] = "ingested" ~> status[e] \in {"routed", "unrouted"}
=============================================================================
