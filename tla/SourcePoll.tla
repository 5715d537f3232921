----------------------------- MODULE SourcePoll -----------------------------
(***************************************************************************)
(* Polling of one external source (internal/connectors over                *)
(* store/sources.go): the connector loop of a Studio and API handlers poll *)
(* Jira or GitHub from a durable cursor, store what they find and advance  *)
(* the cursor in one transaction, and record health, back-off and one      *)
(* attempt per poll.  The service is external: changes appear in it with a *)
(* time stamp and can be seen a little later.                              *)
(***************************************************************************)
EXTENDS Integers, FiniteSets

CONSTANTS
  Change,       \* changes of issues, comments, pulls: events and outcomes
  Poller,       \* goroutines that use the source
  PollLoop,     \* the one of them that is the connector loop
  NoTime,       \* no cursor, no time stamp
  Slack,        \* how far the cursor stays behind the poll (2 s)
  Lookback,     \* poll.initial_lookback
  Grain,        \* resolution of the times in a request
  Interval,     \* poll.every
  MaxBackoff,   \* 15 minutes
  ResetDelay,   \* how far away a rate limit's reset is
  MaxChangeAt,  \* bound: changes appear until then
  MaxNow,       \* bound of the clock
  MaxErrors     \* bound: requests that fail and processes that stop

ASSUME SourcePollAssumption ==
  /\ PollLoop \in Poller
  /\ NoTime \notin Int
  /\ {Lookback, MaxChangeAt, MaxNow, MaxErrors, ResetDelay} \subseteq Nat
  /\ {Slack, Interval, MaxBackoff, Grain} \subseteq Nat \ {0}

VARIABLES
  now,       \* the clock
  made,      \* time stamp of each change
  shownAt,   \* when the service's index shows it
  file,      \* the definition is enabled; one that is gone is like a disabled one
  kind,      \* what each change is, hence which connector finds it
  source,    \* the rows of sources and source_cursors
  saved,     \* changes with a row in events or outcomes
  poller,    \* what each poller is doing, and with it the state of its attempt's row
  errors,    \* failures so far
  origin     \* where the first committed poll began (history)

pollVars == <<now, made, shownAt, kind, file, source, saved, poller, errors, origin>>
service == <<made, shownAt, kind>>
row == <<source, saved, origin>>

PollIdle == [pc |-> "idle"]

\* Before the first Sync there is no row, which is like a disabled one.
PollInit ==
  /\ now = 0
  /\ made = [c \in Change |-> NoTime]
  /\ shownAt = [c \in Change |-> NoTime]
  /\ file \in BOOLEAN
  /\ kind \in [Change -> {"issue", "pull", "comment"}]
  /\ source = [state |-> "unknown", enabled |-> FALSE, paused |-> FALSE,
               cursor |-> NoTime, next |-> 0, failures |-> 0]
  /\ saved = {}
  /\ poller = [p \in Poller |-> PollIdle]
  /\ errors = 0
  /\ origin = NoTime

SetPoller(p, v) == poller' = [poller EXCEPT ![p] = v]

-----------------------------------------------------------------------------
(* The connector *)

\* fail: the interval doubled for each failure the poller knew of, at most
\* MaxBackoff; a rate limit that ends later postpones the poll to its end.
Backoff(failures) ==
  IF Interval * 2 ^ failures > MaxBackoff THEN MaxBackoff ELSE Interval * 2 ^ failures

NextPoll(failures, limited) ==
  IF limited /\ ResetDelay > Backoff(failures) THEN now + ResetDelay
                                               ELSE now + Backoff(failures)

\* connectorSince.
Since(cursor, at) == IF cursor = NoTime THEN at - Lookback ELSE cursor

\* Mutant: the cursor is the time of the poll.
CursorNow(at) == at

\* The candidate cursor of Jira.Poll and GitHub.Poll.
NewCursor(at) == at - Slack

\* What the service shows at the time of a request.
Shown == {c \in Change : made[c] # NoTime /\ shownAt[c] <= now}

\* search asks for issues since then, to the minute; of their changelogs the items
\* since then count.
Truncated(t) == t - (t % Grain)
JiraSearch(since) == {c \in Shown : kind[c] = "issue" /\ made[c] >= Truncated(since)}
JiraFound(since) == {c \in JiraSearch(since) : made[c] >= since}

\* pulls: newest first, until one is older.  comments: asked for to the second.
GitHubPulls(since) == {c \in Shown : kind[c] = "pull" /\ made[c] >= since}
GitHubComments(since) == {c \in Shown : kind[c] = "comment" /\ made[c] >= Truncated(since)}
GitHubFound(since) == GitHubPulls(since) \cup GitHubComments(since)

-----------------------------------------------------------------------------
(* The store *)

\* Mutant: a source that was disabled stays disabled.
SyncOff == source' = [source EXCEPT !.enabled = @ /\ file]

\* SyncSource and DisableConnectorSourcesExcept: health, cursor, pause and the
\* next poll are local state that a definition never overwrites.
Sync == source' = [source EXCEPT !.enabled = file]

SourceEnabled == source.enabled /\ ~source.paused

\* CommitPoll: everything the poll found and the new cursor, or nothing if the
\* cursor is no longer the one the poll began from.
CommitPollTx(p) ==
  /\ source.cursor = poller[p].seen.cursor
  /\ source' = [source EXCEPT !.state = "healthy", !.cursor = NewCursor(poller[p].now),
                              !.next = poller[p].now + Interval, !.failures = 0]
  /\ saved' = saved \cup poller[p].found
  /\ origin' = IF origin = NoTime THEN Since(poller[p].seen.cursor, poller[p].now) ELSE origin

\* FailSourcePoll and RecordSourceFailure.
Failed(next) ==
  [source EXCEPT !.state = IF source.failures >= 2 THEN "failed" ELSE "degraded",
                 !.next = next, !.failures = @ + 1]

\* RecordSourceTest.
RecordSourceTest(p) ==
  /\ source' = [source EXCEPT !.state = "healthy", !.failures = 0]
  /\ SetPoller(p, PollIdle)

-----------------------------------------------------------------------------
(* Pollers *)

\* DueSources.  The bound of the clock stands for every later time.
DueSource == SourceEnabled /\ (source.next <= now \/ now = MaxNow)

\* The loop polls a source that is due; a handler polls whenever asked.
PollNow(p) ==
  /\ poller[p] = PollIdle
  /\ p = PollLoop => DueSource
  /\ Sync
  /\ SetPoller(p, [pc |-> "synced"])
  /\ UNCHANGED <<now, service, file, saved, errors, origin>>

\* The status is read, and with it the cursor the poll begins from; the attempt is
\* "running".  The time of the poll is taken before the first request.
StartSourcePoll(p) ==
  /\ poller[p].pc = "synced"
  /\ SetPoller(p, IF SourceEnabled
                    THEN [pc |-> "running", now |-> now,
                          seen |-> [cursor |-> source.cursor, failures |-> source.failures]]
                    ELSE PollIdle)
  /\ UNCHANGED <<now, service, file, row, errors>>

Answer(p) ==
  /\ poller[p].pc = "running"
  /\ SetPoller(p, [pc |-> "answered", seen |-> poller[p].seen, now |-> poller[p].now,
                   found |-> LET since == Since(poller[p].seen.cursor, poller[p].now)
                             IN JiraFound(since) \cup GitHubFound(since)])
  /\ UNCHANGED <<now, service, file, row, errors>>

FailSourcePoll(p, limited) ==
  /\ source' = Failed(NextPoll(poller[p].seen.failures, limited))
  /\ SetPoller(p, PollIdle)

\* Missing credentials, a request that fails or times out, a refused redirect,
\* an answer that is no JSON, more pages than the limit; or a rate limit.
PollFails(p, limited) ==
  /\ poller[p].pc = "running"
  /\ errors < MaxErrors
  /\ errors' = errors + 1
  /\ FailSourcePoll(p, limited)
  /\ UNCHANGED <<now, service, file, saved, origin>>

CommitPoll(p) ==
  /\ poller[p].pc = "answered"
  /\ CommitPollTx(p)
  /\ SetPoller(p, [pc |-> "committed"])
  /\ UNCHANGED <<now, service, file, errors>>

CommitConflict(p) ==
  /\ poller[p].pc = "answered"
  /\ source.cursor # poller[p].seen.cursor
  /\ FailSourcePoll(p, FALSE)
  /\ UNCHANGED <<now, service, file, saved, errors, origin>>

\* Every event is dispatched (EventRouting), errors are collected, and the attempt
\* has succeeded.
CompleteSourcePoll(p) ==
  /\ poller[p].pc = "committed"
  /\ SetPoller(p, PollIdle)
  /\ UNCHANGED <<now, service, file, row, errors>>

\* Test: the connection is tried, without a poll.
TestSource(p) ==
  /\ poller[p] = PollIdle
  /\ p # PollLoop
  /\ Sync
  /\ SetPoller(p, [pc |-> "test", failures |-> source.failures])
  /\ UNCHANGED <<now, service, file, saved, errors, origin>>

TestPasses(p) ==
  /\ poller[p].pc = "test"
  /\ RecordSourceTest(p)
  /\ UNCHANGED <<now, service, file, saved, errors, origin>>

TestFails(p, limited) ==
  /\ poller[p].pc = "test"
  /\ errors < MaxErrors
  /\ errors' = errors + 1
  /\ source' = Failed(NextPoll(poller[p].failures, limited))
  /\ SetPoller(p, PollIdle)
  /\ UNCHANGED <<now, service, file, saved, origin>>

\* SetPaused.
SetSourcePaused(p, paused) ==
  /\ poller[p] = PollIdle
  /\ p # PollLoop
  /\ source' = [source EXCEPT !.enabled = file, !.paused = paused]
  /\ UNCHANGED <<now, service, file, saved, poller, errors, origin>>

\* Every round of the loop, and every list of sources, begins with Sync.
SyncSources(p) ==
  /\ poller[p] = PollIdle
  /\ Sync
  /\ UNCHANGED <<now, service, file, saved, poller, errors, origin>>

\* Studio stops, or a request is cancelled.
PollerStops(p) ==
  /\ poller[p] # PollIdle
  /\ errors < MaxErrors
  /\ errors' = errors + 1
  /\ SetPoller(p, PollIdle)
  /\ UNCHANGED <<now, service, file, row>>

-----------------------------------------------------------------------------
(* Surroundings *)

EditSource(on) ==
  /\ file' = on
  /\ UNCHANGED <<now, service, row, poller, errors>>

Appear(c, lag) ==
  /\ made[c] = NoTime
  /\ now <= MaxChangeAt
  /\ made' = [made EXCEPT ![c] = now]
  /\ shownAt' = [shownAt EXCEPT ![c] = now + lag]
  /\ UNCHANGED <<now, kind, file, row, poller, errors>>

PollTick ==
  /\ now < MaxNow
  /\ now' = now + 1
  /\ UNCHANGED <<service, file, row, poller, errors>>

PollStep(p) ==
  \/ StartSourcePoll(p) \/ Answer(p) \/ CommitPoll(p) \/ CommitConflict(p)
  \/ CompleteSourcePoll(p)

PollNext ==
  \/ \E p \in Poller :
       \/ PollNow(p) \/ PollStep(p) \/ SyncSources(p) \/ PollerStops(p)
       \/ TestSource(p) \/ TestPasses(p)
       \/ \E limited \in BOOLEAN : PollFails(p, limited) \/ TestFails(p, limited)
       \/ \E paused \in BOOLEAN : SetSourcePaused(p, paused)
  \/ \E on \in BOOLEAN : EditSource(on)
  \/ \E c \in Change, lag \in 0..Slack : Appear(c, lag)
  \/ PollTick

PollSpec == PollInit /\ [][PollNext]_pollVars

-----------------------------------------------------------------------------
(* Properties *)

SourcePollTypeOK ==
  /\ now \in 0..MaxNow
  /\ made \in [Change -> Nat \cup {NoTime}]
  /\ source \in [state: {"unknown", "healthy", "degraded", "failed"},
                 enabled: BOOLEAN, paused: BOOLEAN, cursor: Int \cup {NoTime}, next: Int,
                 failures: Nat]
  /\ saved \subseteq Change
  /\ \A p \in Poller : poller[p].pc \in {"idle", "synced", "running", "answered", "committed", "test"}

\* The cursor never passes a change that is not stored: whatever the service
\* time-stamped since the first poll's start and up to the cursor has a row, with
\* polls that overlap, fail or stop at any point, and with changes the service
\* shows late.
NothingSkipped ==
  source.cursor # NoTime =>
    \A c \in Change :
      made[c] # NoTime /\ made[c] >= origin /\ made[c] <= source.cursor => c \in saved

\* A poll that began from an older cursor never takes the cursor back.
CursorAdvances ==
  [][source.cursor # NoTime => source'.cursor # NoTime /\ source'.cursor >= source.cursor]_pollVars

\* The health shown for a source is the number of failures since the last
\* success or passed test, whoever recorded them in which order.
HealthCounts ==
  /\ source.failures = 0 <=> source.state \in {"unknown", "healthy"}
  /\ source.failures >= 3 <=> source.state = "failed"

\* A source that works again is polled again soon: the next poll is never further
\* away than the longest back-off, the interval or a rate limit.
NextPollBounded ==
  \E delay \in {MaxBackoff, Interval, ResetDelay} : source.next <= now + delay

\* Nothing that happens in the service is lost: once the source stays enabled, a
\* change is stored, unless it is older than the first poll looked back; failures,
\* conflicts and restarts in between only delay it.
ChangeIsStored ==
  <>[](file /\ ~source.paused) =>
    \A c \in Change :
      made[c] # NoTime ~> c \in saved \/ (NoTime \notin {origin, made[c]} /\ made[c] < origin)

\* A source's row tells the truth about the service: nothing below its cursor is
\* missing, and its health and its next poll follow from what happened.
SourceIsFollowed == SourcePollTypeOK /\ NothingSkipped /\ HealthCounts /\ NextPollBounded

\* A cursor moves forward only, and every change is stored in the end.
SourcesGoOn == CursorAdvances /\ ChangeIsStored
=============================================================================
