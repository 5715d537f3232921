------------------------- MODULE EventRoutingProofs -------------------------
(***************************************************************************)
(* Proofs about EventRouting, for any number of events, routes, callers    *)
(* and revisions: an event becomes at most one run, and for good.          *)
(***************************************************************************)
EXTENDS EventRouting, TLAPS

LEMMA ExceptSame ==
  ASSUME NEW S, NEW T, NEW f \in [S -> T], NEW e \in S
  PROVE  [f EXCEPT ![e] = f[e]] = f
  OBVIOUS

\* The tables of the store, without the callers.
Rows == <<status, routedTo, runs>>

RowsOK ==
  /\ status \in [Event -> Status]
  /\ routedTo \in [Event -> RunRow \cup {Nothing}]
  /\ runs \subseteq RunRow

\* What a step may do to the rows of the store.
RowsKept ==
  /\ runs \subseteq runs'
  /\ \A e \in Event : status[e] = "routed" =>
       status'[e] = "routed" /\ routedTo'[e] = routedTo[e]

GoodStep == RowsOK' /\ RoutedOnce' /\ RowsKept

\* Routing an event to a run that names it keeps the tables in agreement.
LEMMA RouteEventGood ==
  ASSUME RowsOK, RoutedOnce, NEW e \in Event, NEW x \in RunRow, x.event = e, RouteEvent(e, x)
  PROVE  GoodStep
<1>1. CASE UNCHANGED Rows
  BY <1>1 DEF Rows, GoodStep, RowsOK, RoutedOnce, RowsKept
<1>2. CASE ~ UNCHANGED Rows
  <2>1. /\ status[e] # "routed"
        /\ runs' = runs \cup {x}
        /\ status' = [status EXCEPT ![e] = "routed"]
        /\ routedTo' = [routedTo EXCEPT ![e] = x]
    BY <1>2 DEF RouteEvent, Rows
  <2>2. RowsOK'
    BY <2>1 DEF RowsOK, Status
  <2>3. RowsKept
    BY <2>1 DEF RowsKept, RowsOK
  <2>4. /\ status'[e] = "routed" /\ routedTo'[e] = x
        /\ \A f \in Event : f # e => status'[f] = status[f] /\ routedTo'[f] = routedTo[f]
    BY <2>1 DEF RowsOK
  <2>5. ~ \E y \in runs : y.event = e
    BY <2>1 DEF RoutedOnce
  <2>6. RoutedOnce'
    BY <2>1, <2>4, <2>5 DEF RoutedOnce
  <2> QED
    BY <2>2, <2>3, <2>6 DEF GoodStep
<1> QED
  BY <1>1, <1>2

\* Changing the status of an event that is not routed keeps them too.
LEMMA StatusGood ==
  ASSUME RowsOK, RoutedOnce, NEW e \in Event, NEW s \in Status \ {"routed"},
         status[e] # "routed", status' = [status EXCEPT ![e] = s], runs' = runs,
         \/ routedTo' = routedTo
         \/ routedTo' = [routedTo EXCEPT ![e] = Nothing]
  PROVE  GoodStep
<1>1. /\ status'[e] # "routed"
      /\ \A f \in Event : f # e => status'[f] = status[f] /\ routedTo'[f] = routedTo[f]
  BY DEF RowsOK
<1>2. ~ \E y \in runs : y.event = e
  BY DEF RoutedOnce
<1>3. RowsOK'
  BY DEF RowsOK
<1>4. RowsKept
  BY <1>1 DEF RowsKept
<1>5. RoutedOnce'
  BY <1>1, <1>2 DEF RoutedOnce
<1> QED
  BY <1>3, <1>4, <1>5 DEF GoodStep

LEMMA NoChangeGood ==
  ASSUME RowsOK, RoutedOnce, UNCHANGED Rows
  PROVE  GoodStep
  BY DEF Rows, GoodStep, RowsOK, RoutedOnce, RowsKept

-----------------------------------------------------------------------------
(* Callers *)

\* What a caller has at hand at each program counter.
LEMMA CallTyped ==
  ASSUME TypeOK, NEW c \in Caller
  PROVE  /\ call[c].pc = "next" => call[c].page \in Page
         /\ call[c].pc = "reopened" => call[c].event \in Event
         /\ call[c].pc = "evaluate" =>
              /\ call[c].event \in Event /\ call[c].seen \in Status
              /\ call[c].forced \in Route \cup {Nothing} /\ call[c].page \in Page
         /\ call[c].pc = "apply" =>
              /\ call[c].event \in Event /\ call[c].seen \in Status
              /\ call[c].page \in Page
              /\ \/ call[c].pick = Nothing /\ call[c].rev = Nothing
                 \/ call[c].pick \in Route /\ call[c].rev \in Usable
<1>1. call[c] \in Calls
  BY DEF TypeOK
<1> QED
  BY <1>1 DEF Calls, Idle

LEMMA SetCallTyped ==
  ASSUME TypeOK, NEW c \in Caller, NEW v \in Calls, SetCall(c, v)
  PROVE  call' \in [Caller -> Calls]
  BY DEF TypeOK, SetCall

LEMMA FreshTyped ==
  ASSUME NEW e \in Event, NEW s \in Status, NEW f \in Route \cup {Nothing}
  PROVE  Fresh(e, s, f) \in Calls
<1>1. NoPage \in Page
  BY DEF NoPage, Page
<1> QED
  BY <1>1 DEF Fresh, Calls

LEMMA DoneTyped ==
  ASSUME TypeOK, NEW c \in Caller, call[c].page \in Page, NEW ok \in BOOLEAN, Done(c, ok)
  PROVE  call' \in [Caller -> Calls]
<1> DEFINE page == [call[c].page EXCEPT !.succeeded = call[c].page.succeeded \/ ok]
<1>1. page \in Page
  BY DEF Page
<1>2. SetCall(c, AfterDispatch(page))
  BY DEF Done
<1> HIDE DEF page
<1>3. AfterDispatch(page) \in Calls
  BY <1>1 DEF AfterDispatch, Calls, Idle
<1> QED
  BY <1>2, <1>3, SetCallTyped

LEMMA PickTyped ==
  ASSUME TypeOK, NEW c \in Caller, call[c].pc = "evaluate"
  PROVE  Pick(c) \in Route \cup {Nothing}
<1>1. Evaluate(call[c].event) \in Route \cup {Nothing}
  BY DEF Evaluate
<1> QED
  BY <1>1, CallTyped DEF Pick

-----------------------------------------------------------------------------
(* The invariant *)

\* The part of a step that concerns the callers.
CallsOK ==
  /\ def \in [Route -> Revision \cup {Nothing}]
  /\ enabled \in [Route -> BOOLEAN]
  /\ call \in [Caller -> Calls]
  /\ crashes \in 0..MaxCrashes

LEMMA InitGood == Init => TypeOK /\ RoutedOnce
<1> SUFFICES ASSUME Init PROVE TypeOK /\ RoutedOnce
  OBVIOUS
<1>1. Idle \in Calls
  BY DEF Calls
<1>2. TypeOK
  BY <1>1, EventRoutingAssumption DEF Init, TypeOK, Status
<1>3. RoutedOnce
  BY DEF Init, RoutedOnce
<1> QED
  BY <1>2, <1>3

LEMMA NextGood ==
  ASSUME TypeOK, RoutedOnce, [Next]_vars
  PROVE  GoodStep /\ CallsOK'
<1> USE DEF TypeOK
<1>0. RowsOK /\ CallsOK
  BY DEF RowsOK, CallsOK
<1>1. CASE UNCHANGED vars
  <2>1. UNCHANGED Rows
    BY <1>1 DEF vars, Rows
  <2> QED
    BY <1>0, <1>1, <2>1, NoChangeGood DEF vars, CallsOK
<1>2. ASSUME NEW c \in Caller, NEW e \in Event, Ingest(c, e) PROVE GoodStep /\ CallsOK'
  <2>1. \/ status' = status
        \/ status' = [status EXCEPT ![e] = "ingested"] /\ status[e] = "absent"
    <3>1. status' = [status EXCEPT ![e] = IF status[e] = "absent" THEN "ingested" ELSE status[e]]
      BY <1>2 DEF Ingest, IngestEvent
    <3>2. CASE status[e] = "absent"
      BY <3>1, <3>2
    <3>3. CASE status[e] # "absent"
      <4>1. status' = [status EXCEPT ![e] = status[e]]
        BY <3>1, <3>3
      <4> QED
        BY <1>0, <4>1, ExceptSame DEF RowsOK
    <3> QED
      BY <3>2, <3>3
  <2>2. GoodStep
    BY <1>0, <1>2, <2>1, StatusGood, NoChangeGood DEF Ingest, Rows, Status
  <2>3. Fresh(e, "ingested", Nothing) \in Calls
    BY FreshTyped DEF Status
  <2>4. call' \in [Caller -> Calls]
    BY <1>2, <2>3, SetCallTyped DEF Ingest
  <2> QED
    BY <1>0, <1>2, <2>2, <2>4 DEF Ingest, CallsOK
<1>3. ASSUME NEW c \in Caller, NEW e \in Event, DispatchStored(c, e) PROVE GoodStep /\ CallsOK'
  <2>1. Fresh(e, "ingested", Nothing) \in Calls
    BY FreshTyped DEF Status
  <2>2. call' \in [Caller -> Calls]
    BY <1>3, <2>1, SetCallTyped DEF DispatchStored
  <2> QED
    BY <1>0, <1>3, <2>2, NoChangeGood DEF DispatchStored, Rows, CallsOK
<1>4. ASSUME NEW c \in Caller, NEW e \in Event, NEW r \in Route, RouteNow(c, e, r)
      PROVE  GoodStep /\ CallsOK'
  <2>1. Fresh(e, status[e], r) \in Calls
    BY <1>0, FreshTyped DEF RowsOK
  <2>2. call' \in [Caller -> Calls]
    BY <1>4, <2>1, SetCallTyped DEF RouteNow
  <2> QED
    BY <1>0, <1>4, <2>2, NoChangeGood DEF RouteNow, Rows, CallsOK
<1>5. ASSUME NEW c \in Caller, NEW e \in Event, Reevaluate(c, e) PROVE GoodStep /\ CallsOK'
  <2>1. GoodStep
    BY <1>0, <1>5, StatusGood DEF Reevaluate, ReopenEvent, Status
  <2>2. [pc |-> "reopened", event |-> e] \in Calls
    BY DEF Calls
  <2>3. call' \in [Caller -> Calls]
    BY <1>5, <2>2, SetCallTyped DEF Reevaluate
  <2> QED
    BY <1>0, <1>5, <2>1, <2>3 DEF Reevaluate, CallsOK
<1>6. ASSUME NEW c \in Caller, RecoverIngested(c) \/ ListPage(c) PROVE GoodStep /\ CallsOK'
  <2>1. Idle \in Calls /\ [pc |-> "list"] \in Calls
    BY DEF Calls
  <2>2. [todo |-> ListIngested, succeeded |-> FALSE,
         full |-> Cardinality(ListIngested) = PageLimit] \in Page
    BY DEF Page, ListIngested
  <2>3. [pc |-> "next",
         page |-> [todo |-> ListIngested, succeeded |-> FALSE,
                   full |-> Cardinality(ListIngested) = PageLimit]] \in Calls
    BY <2>2 DEF Calls
  <2>4. call' \in [Caller -> Calls]
    BY <1>6, <2>1, <2>3, SetCallTyped DEF RecoverIngested, ListPage
  <2> QED
    BY <1>0, <1>6, <2>4, NoChangeGood DEF RecoverIngested, ListPage, Rows, CallsOK
<1>7. ASSUME NEW c \in Caller, NextOfPage(c) PROVE GoodStep /\ CallsOK'
  <2>1. PICK e \in call[c].page.todo :
           SetCall(c, [Fresh(e, "ingested", Nothing)
                         EXCEPT !.page = [call[c].page EXCEPT !.todo = @ \ {e}]])
    BY <1>7 DEF NextOfPage
  <2>2. call[c].page \in Page
    BY <1>7, CallTyped DEF NextOfPage
  <2>3. e \in Event /\ [call[c].page EXCEPT !.todo = @ \ {e}] \in Page
    BY <2>1, <2>2 DEF Page
  <2>4. [Fresh(e, "ingested", Nothing)
           EXCEPT !.page = [call[c].page EXCEPT !.todo = @ \ {e}]] \in Calls
    BY <2>3 DEF Fresh, Calls, Status
  <2>5. call' \in [Caller -> Calls]
    BY <2>1, <2>4, SetCallTyped
  <2> QED
    BY <1>0, <1>7, <2>5, NoChangeGood DEF NextOfPage, Rows, CallsOK
<1>8. ASSUME NEW c \in Caller, Reread(c) PROVE GoodStep /\ CallsOK'
  <2>1. call[c].event \in Event
    BY <1>8, CallTyped DEF Reread
  <2>2. Fresh(call[c].event, status[call[c].event], Nothing) \in Calls
    BY <1>0, <2>1, FreshTyped DEF RowsOK
  <2>3. call' \in [Caller -> Calls]
    BY <1>8, <2>2, SetCallTyped DEF Reread
  <2> QED
    BY <1>0, <1>8, <2>3, NoChangeGood DEF Reread, Rows, CallsOK
<1>9. ASSUME NEW c \in Caller, Decide(c) PROVE GoodStep /\ CallsOK'
  <2> DEFINE p == Pick(c)
             rev == IF p = Nothing THEN Nothing ELSE def[p]
             v == [pc |-> "apply", event |-> call[c].event, seen |-> call[c].seen,
                   pick |-> p, page |-> call[c].page, rev |-> rev]
  <2>1. call[c].event \in Event /\ call[c].seen \in Status /\ call[c].page \in Page
    BY <1>9, CallTyped DEF Decide
  <2>2. p \in Route \cup {Nothing}
    BY <1>9, PickTyped DEF Decide
  <2>3. ASSUME p # Nothing, def[p] \notin Usable PROVE call' \in [Caller -> Calls]
    <3>1. Done(c, FALSE)
      BY <1>9, <2>3 DEF Decide
    <3> QED
      BY <2>1, <3>1, DoneTyped
  <2>4. ASSUME ~ (p # Nothing /\ def[p] \notin Usable) PROVE call' \in [Caller -> Calls]
    <3>1. SetCall(c, v)
      BY <1>9, <2>4 DEF Decide
    <3>2. v \in Calls
      BY <2>1, <2>2, <2>4 DEF Calls
    <3> QED
      BY <3>1, <3>2, SetCallTyped
  <2>6. call' \in [Caller -> Calls]
    BY <2>3, <2>4
  <2> QED
    BY <1>0, <1>9, <2>6, NoChangeGood DEF Decide, Rows, CallsOK
<1>10. ASSUME NEW c \in Caller, ApplyUnrouted(c) PROVE GoodStep /\ CallsOK'
  <2>1. call[c].event \in Event /\ call[c].page \in Page
    BY <1>10, CallTyped DEF ApplyUnrouted
  <2>2. GoodStep
    BY <1>0, <1>10, <2>1, StatusGood, NoChangeGood
    DEF ApplyUnrouted, MarkEventUnrouted, Rows, Status
  <2>3. call' \in [Caller -> Calls]
    BY <1>10, <2>1, DoneTyped DEF ApplyUnrouted
  <2> QED
    BY <1>0, <1>10, <2>2, <2>3 DEF ApplyUnrouted, CallsOK
<1>11. ASSUME NEW c \in Caller, ApplyRoute(c) PROVE GoodStep /\ CallsOK'
  <2> DEFINE x == [event |-> call[c].event, route |-> call[c].pick, rev |-> call[c].rev]
  <2>1. call[c].event \in Event /\ call[c].page \in Page
    BY <1>11, CallTyped DEF ApplyRoute
  <2>2. x \in RunRow
    BY <1>11, CallTyped, EventRoutingAssumption DEF ApplyRoute, RunRow
  <2>3. RouteEvent(call[c].event, x) /\ Done(c, routedTo'[call[c].event] = x)
    BY <1>11 DEF ApplyRoute
  <2>4. GoodStep
    BY <1>0, <2>1, <2>2, <2>3, RouteEventGood
  <2>5. call' \in [Caller -> Calls]
    BY <2>1, <2>3, DoneTyped
  <2> QED
    BY <1>0, <1>11, <2>4, <2>5 DEF ApplyRoute, CallsOK
<1>12. ASSUME NEW c \in Caller, Crash(c) PROVE GoodStep /\ CallsOK'
  <2>1. Idle \in Calls
    BY DEF Calls
  <2>2. call' \in [Caller -> Calls]
    BY <1>12, <2>1, SetCallTyped DEF Crash
  <2>3. crashes' \in 0..MaxCrashes
    BY <1>0, <1>12, EventRoutingAssumption DEF Crash, CallsOK
  <2> QED
    BY <1>0, <1>12, <2>2, <2>3, NoChangeGood DEF Crash, Rows, CallsOK
<1>13. ASSUME NEW batch \in SUBSET Event, CommitPoll(batch) PROVE GoodStep /\ CallsOK'
  <2>1. /\ runs' = runs /\ routedTo' = routedTo /\ RowsOK'
        /\ \A e \in Event : status[e] = "routed" <=> status'[e] = "routed"
    BY <1>0, <1>13 DEF CommitPoll, RowsOK, Status
  <2>2. GoodStep
    BY <2>1 DEF GoodStep, RowsKept, RoutedOnce
  <2> QED
    BY <1>0, <1>13, <2>2 DEF CommitPoll, CallsOK
<1>14. ASSUME NEW e \in Event, NEW rev \in Revision, IngestAndRoute(e, rev)
       PROVE  GoodStep /\ CallsOK'
  <2>1. [event |-> e, route |-> Manual, rev |-> rev] \in RunRow
    BY DEF RunRow
  <2>2. GoodStep
    BY <1>0, <1>14, <2>1, RouteEventGood DEF IngestAndRoute
  <2> QED
    BY <1>0, <1>14, <2>2 DEF IngestAndRoute, CallsOK
<1>15. ASSUME NEW r \in Route, NEW on \in BOOLEAN, SetRouteEnabled(r, on)
       PROVE  GoodStep /\ CallsOK'
  BY <1>0, <1>15, NoChangeGood DEF SetRouteEnabled, Rows, CallsOK
<1>16. ASSUME NEW r \in Route, NEW rev \in Revision \cup {Nothing}, EditRoute(r, rev)
       PROVE  GoodStep /\ CallsOK'
  BY <1>0, <1>16, NoChangeGood DEF EditRoute, Rows, CallsOK
<1> QED
  BY <1>1, <1>2, <1>3, <1>4, <1>5, <1>6, <1>7, <1>8, <1>9, <1>10, <1>11, <1>12, <1>13,
     <1>14, <1>15, <1>16 DEF Next, Dispatch, Replay

\* TypeOK and RoutedOnce hold together: RoutedOnce needs the types of what the
\* callers remember, and it is inductive with them.
THEOREM RoutingInvariant == Spec => [](TypeOK /\ RoutedOnce)
<1>1. Init => TypeOK /\ RoutedOnce
  BY InitGood
<1>2. TypeOK /\ RoutedOnce /\ [Next]_vars => (TypeOK /\ RoutedOnce)'
  BY NextGood DEF GoodStep, RowsOK, CallsOK, TypeOK
<1> QED
  BY <1>1, <1>2, PTL DEF Spec

\* For every number of events, routes, callers and definitions, an event becomes
\* at most one run, which is the one its row names (routeEventTx).
THEOREM RoutingSafety == Spec => []RoutedOnce
  BY RoutingInvariant, PTL

\* A routed event keeps its status and its run, and no step takes a run back:
\* neither a late MarkEventUnrouted, nor ReopenEvent, nor another route.
THEOREM RoutingFinality == Spec => RoutedIsFinal
<1>1. TypeOK /\ RoutedOnce /\ [Next]_vars =>
        [/\ runs \subseteq runs'
         /\ \A e \in Event : status[e] = "routed" =>
              status'[e] = "routed" /\ routedTo'[e] = routedTo[e]]_vars
  BY NextGood DEF GoodStep, RowsKept
<1> QED
  BY <1>1, RoutingInvariant, PTL DEF Spec, RoutedIsFinal
-----------------------------------------------------------------------------
(* The rows of the run store *)

\* What the run store has besides the runs, for which routing has no part in it:
\* any workspaces, owners, harnesses, scopes, delays and limits.
CONSTANTS Workspace, Owner, NoOwner, Harness, Scope, ApprovalId, WorkspaceOf, ReadonlyRun,
          HarnessOf, HarnessesOf, LeaseTTL, MaxDelay, RetryDelays, RetryLimit, MaxAttempts

\* The runs row of an event, until somebody claims it.
RunOf(e) == IF \E x \in runs : x.event = e THEN "pending" ELSE "absent"

\* The run store with an event's key as the key of its run; nothing is claimed.
Store == INSTANCE RunStore WITH
  Run       <- Event,
  run       <- [e \in Event |-> RunOf(e)],
  journal   <- [e \in Event |-> RunOf(e)],
  attempts  <- [e \in Event |-> <<>>],
  lease     <- [e \in Event |-> [owner |-> NoOwner, left |-> 0]],
  timers    <- {},
  approvals <- [a \in ApprovalId |-> [state |-> "none"]]

\* RouteEvent adds the run of an event that has none, or does nothing.
LEMMA RouteEventRoutes ==
  ASSUME RoutedOnce, NEW e \in Event, NEW x \in RunRow, x.event = e, RouteEvent(e, x)
  PROVE  Store!RouteRun(e) \/ runs' = runs
<1>1. CASE runs' # runs
  <2>1. runs' = runs \cup {x} /\ status[e] # "routed"
    BY <1>1 DEF RouteEvent
  <2>2. RunOf(e) = "absent"
    BY <2>1 DEF RoutedOnce, RunOf
  <2>3. RunOf(e)' = "pending"
    BY <2>1 DEF RunOf
  <2>4. \A f \in Event : f # e => RunOf(f)' = RunOf(f)
    BY <2>1 DEF RunOf
  <2>5. [f \in Event |-> RunOf(f)]' = [[f \in Event |-> RunOf(f)] EXCEPT ![e] = "pending"]
    BY <2>3, <2>4
  <2> QED
    BY <2>2, <2>5 DEF Store!RouteRun, Store!SetRun
<1> QED
  BY <1>1

\* Of all steps only ApplyRoute and IngestAndRoute write the runs table.
LEMMA NextRoutes ==
  ASSUME TypeOK, RoutedOnce, [Next]_vars
  PROVE  (\E e \in Event : Store!RouteRun(e)) \/ runs' = runs
<1>1. ASSUME NEW c \in Caller, ApplyRoute(c)
      PROVE  (\E e \in Event : Store!RouteRun(e)) \/ runs' = runs
  <2> DEFINE x == [event |-> call[c].event, route |-> call[c].pick, rev |-> call[c].rev]
  <2>1. call[c].pc = "apply" /\ call[c].pick # Nothing /\ call[c] \in Calls
    BY <1>1 DEF ApplyRoute, TypeOK
  <2>2. call[c].event \in Event /\ x \in RunRow
    BY <2>1, EventRoutingAssumption DEF Calls, Idle, RunRow
  <2>3. RouteEvent(call[c].event, x)
    BY <1>1 DEF ApplyRoute
  <2> QED
    BY <2>2, <2>3, RouteEventRoutes
<1>2. ASSUME NEW e \in Event, NEW rev \in Revision, IngestAndRoute(e, rev)
      PROVE  (\E f \in Event : Store!RouteRun(f)) \/ runs' = runs
  <2>1. [event |-> e, route |-> Manual, rev |-> rev] \in RunRow
    BY DEF RunRow
  <2> QED
    BY <1>2, <2>1, RouteEventRoutes DEF IngestAndRoute
<1>3. ASSUME NEW c \in Caller, Dispatch(c), ~ ApplyRoute(c) PROVE runs' = runs
  BY <1>3 DEF Dispatch, ListPage, NextOfPage, Reread, Decide, ApplyUnrouted
<1>4. ASSUME NEW c \in Caller, RecoverIngested(c) \/ Crash(c) PROVE runs' = runs
  BY <1>4 DEF RecoverIngested, Crash
<1>5. ASSUME NEW c \in Caller, NEW e \in Event,
             \/ Ingest(c, e) \/ DispatchStored(c, e) \/ Reevaluate(c, e)
             \/ \E r \in Route : RouteNow(c, e, r)
             \/ \E original \in Event : Replay(c, original, e)
      PROVE  runs' = runs
  BY <1>5 DEF Ingest, DispatchStored, Reevaluate, RouteNow, Replay
<1>6. ASSUME NEW batch \in SUBSET Event, CommitPoll(batch) PROVE runs' = runs
  BY <1>6 DEF CommitPoll
<1>7. ASSUME NEW r \in Route,
             \/ \E on \in BOOLEAN : SetRouteEnabled(r, on)
             \/ \E rev \in Revision \cup {Nothing} : EditRoute(r, rev)
      PROVE  runs' = runs
  BY <1>7 DEF SetRouteEnabled, EditRoute
<1>8. CASE UNCHANGED vars
  BY <1>8 DEF vars
<1> QED
  BY <1>1, <1>2, <1>3, <1>4, <1>5, <1>6, <1>7, <1>8 DEF Next

\* Whatever callers race, routing is a client of the run store that creates the run
\* of an event at most once and touches no run that exists: what is proved about
\* the store, whose RouteRun may come at any time, holds for the runs of events.
THEOREM RoutingUsesStore == Spec => Store!Spec
<1>1. Init => Store!Init
  BY DEF Init, Store!Init, RunOf, Store!NoLease, Store!NoApproval
<1>2. ASSUME TypeOK, RoutedOnce, [Next]_vars PROVE [Store!Next]_(Store!vars)
  <2>1. CASE \E e \in Event : Store!RouteRun(e)
    BY <2>1 DEF Store!Next
  <2>2. CASE runs' = runs
    BY <2>2 DEF Store!vars, RunOf
  <2> QED
    BY <1>2, <2>1, <2>2, NextRoutes
<1>3. TypeOK /\ RoutedOnce /\ [Next]_vars => [Store!Next]_(Store!vars)
  BY <1>2
<1> QED
  BY <1>1, <1>3, RoutingInvariant, PTL DEF Spec, Store!Spec
=============================================================================
