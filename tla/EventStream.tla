---------------------------- MODULE EventStream -----------------------------
(***************************************************************************)
(* The runtime event stream (studio/events.go over store/runtime_events.go *)
(* and the browser's EventSource): a handler polls the journal after its   *)
(* cursor in batches and writes to a connection that may break at any      *)
(* time; the browser connects again and names the last event it has.       *)
(***************************************************************************)
EXTENDS Integers, Sequences

CONSTANTS
  MaxEvents,   \* bound: journal entries
  BatchSize,   \* runtimeEventBatchSize
  MaxDrops     \* bound: broken connections

ASSUME EventStreamAssumption == MaxEvents \in Nat /\ BatchSize \in Nat \ {0} /\ MaxDrops \in Nat

VARIABLES
  journal,   \* the last sequence number
  stream,    \* the handler: "closed" or "open", and its cursor
  wire,      \* events written and not yet read by the browser
  seen,      \* events the page has, in the order they came
  drops

streamVars == <<journal, stream, wire, seen, drops>>

StreamInit ==
  /\ journal = 0 /\ drops = 0
  /\ stream = [open |-> FALSE, cursor |-> 0]
  /\ wire = <<>> /\ seen = <<>>

\* appendRuntimeEvent, in the transaction of the change it tells of.
AppendRuntimeEvent ==
  /\ journal < MaxEvents
  /\ journal' = journal + 1
  /\ UNCHANGED <<stream, wire, seen, drops>>

LastEventId == IF seen = <<>> THEN 0 ELSE seen[Len(seen)]

\* Mutant: a new connection starts with what comes next.
CursorNow == journal

\* runtimeEventCursor: the Last-Event-ID header, which a new page does not send.
RuntimeEventCursor == LastEventId

Connect ==
  /\ ~stream.open
  /\ stream' = [open |-> TRUE, cursor |-> RuntimeEventCursor]
  /\ wire' = <<>>
  /\ UNCHANGED <<journal, seen, drops>>

Lesser(a, b) == IF a < b THEN a ELSE b

\* ListRuntimeEventsAfter: the next batch in sequence order; the cursor is the
\* last one written.
ListRuntimeEventsAfter ==
  LET n == Lesser(BatchSize, journal - stream.cursor)
  IN [events |-> [i \in 1..n |-> stream.cursor + i], cursor |-> stream.cursor + n]

SendBatch ==
  /\ stream.open
  /\ journal > stream.cursor
  /\ wire' = wire \o ListRuntimeEventsAfter.events
  /\ stream' = [stream EXCEPT !.cursor = ListRuntimeEventsAfter.cursor]
  /\ UNCHANGED <<journal, seen, drops>>

Receive ==
  /\ wire # <<>>
  /\ seen' = Append(seen, Head(wire))
  /\ wire' = Tail(wire)
  /\ UNCHANGED <<journal, stream, drops>>

\* The journal cannot be read, the connection breaks or Studio stops: what is on
\* the wire is lost.
Drop ==
  /\ stream.open /\ drops < MaxDrops
  /\ drops' = drops + 1
  /\ stream' = [stream EXCEPT !.open = FALSE]
  /\ wire' = <<>>
  /\ UNCHANGED <<journal, seen>>

\* The page is loaded again and has nothing.
Reload ==
  /\ drops < MaxDrops
  /\ drops' = drops + 1
  /\ stream' = [stream EXCEPT !.open = FALSE]
  /\ wire' = <<>> /\ seen' = <<>>
  /\ UNCHANGED journal

StreamStep == Connect \/ SendBatch \/ Receive

StreamNext == AppendRuntimeEvent \/ StreamStep \/ Drop \/ Reload

StreamSpec == StreamInit /\ [][StreamNext]_streamVars

-----------------------------------------------------------------------------
(* Properties *)

StreamTypeOK ==
  /\ stream \in [open: BOOLEAN, cursor: 0..journal]
  /\ wire \in Seq(1..journal) /\ seen \in Seq(1..journal)

\* What a page has is a prefix of the journal: no event is missing, repeated or
\* out of order, wherever connections broke.
NoGaps == \A i \in 1..Len(seen) : seen[i] = i

\* Every event reaches the page while connections break only finitely often.
EventsArrive == \A n \in 1..MaxEvents : (journal >= n) ~> (Len(seen) >= n)

\* The journal is replayed to a page: in order, without gaps, to its end.
StreamIsReplayed == [](StreamTypeOK /\ NoGaps) /\ EventsArrive
=============================================================================
