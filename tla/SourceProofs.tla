---------------------------- MODULE SourceProofs ----------------------------
(***************************************************************************)
(* Proofs about the sources of events, polled and scheduled, for every     *)
(* number of pollers, changes, loops and schedules and every interval.     *)
(***************************************************************************)
EXTENDS SourcePoll, Schedule, TLAPS

-----------------------------------------------------------------------------
(* Polled sources *)

Time == Int \cup {NoTime}
Seen == [cursor: Time, failures: Nat]
PollerState ==
  {PollIdle}
    \cup [pc: {"synced", "committed"}]
    \cup [pc: {"test"}, failures: Nat]
    \cup [pc: {"running"}, now: 0..MaxNow, seen: Seen]
    \cup [pc: {"answered"}, now: 0..MaxNow, seen: Seen, found: SUBSET Change]

Polling(p) == poller[p].pc \in {"running", "answered"}

\* The service shows a change at most Slack after its time stamp, which is why a
\* poll may move the cursor to Slack before its own time.
ServiceInv ==
  /\ now \in 0..MaxNow
  /\ made \in [Change -> Nat \cup {NoTime}]
  /\ shownAt \in [Change -> Nat \cup {NoTime}]
  /\ kind \in [Change -> {"issue", "pull", "comment"}]
  /\ \A c \in Change : made[c] # NoTime =>
       made[c] <= now /\ shownAt[c] \in Nat /\ shownAt[c] <= made[c] + Slack

\* A poll began at a time that is over, from a cursor that was Slack behind it, and
\* its answer holds every change from there to Slack before its time.
PollersInv ==
  /\ poller \in [Poller -> PollerState]
  /\ \A p \in Poller : Polling(p) =>
       /\ poller[p].now <= now
       /\ poller[p].seen.cursor # NoTime => poller[p].seen.cursor <= poller[p].now - Slack
  /\ \A p \in Poller : poller[p].pc = "answered" =>
       \A c \in Change :
         /\ made[c] # NoTime
         /\ made[c] >= Since(poller[p].seen.cursor, poller[p].now)
         /\ made[c] <= poller[p].now - Slack
         => c \in poller[p].found

\* The row, its cursor always Slack behind the clock.
RowInv ==
  /\ source \in [state: {"unknown", "healthy", "degraded", "failed"},
                 enabled: BOOLEAN, paused: BOOLEAN, cursor: Time, next: Int, failures: Nat]
  /\ file \in BOOLEAN
  /\ saved \subseteq Change
  /\ origin \in Time
  /\ origin = NoTime <=> source.cursor = NoTime
  /\ source.cursor # NoTime => source.cursor <= now - Slack
  /\ NothingSkipped /\ HealthCounts /\ NextPollBounded

PollInv == ServiceInv /\ PollersInv /\ RowInv

PollNumbers ==
  /\ Slack \in Nat /\ Slack > 0 /\ Lookback \in Nat /\ MaxChangeAt \in Nat /\ MaxNow \in Nat
  /\ ResetDelay \in Nat /\ Interval \in Nat /\ MaxBackoff \in Nat /\ Grain \in Nat /\ Grain > 0

LEMMA PollConstants == PollNumbers /\ NoTime \notin Int
  BY SourcePollAssumption DEF PollNumbers

\* fail never postpones a poll beyond the longest back-off or the rate limit.
LEMMA NextPollLimit ==
  ASSUME NEW failures \in Nat, NEW limited \in BOOLEAN, now \in Nat
  PROVE  /\ NextPoll(failures, limited) \in Int
         /\ \E delay \in {MaxBackoff, Interval, ResetDelay} :
              NextPoll(failures, limited) <= now + delay
<1>1. Interval * 2 ^ failures \in Int
  BY PollConstants DEF PollNumbers
<1>2. Backoff(failures) \in Int /\ Backoff(failures) <= MaxBackoff
  BY <1>1, PollConstants DEF Backoff, PollNumbers
<1> QED
  BY <1>2, PollConstants DEF NextPoll, PollNumbers

\* Times in a request are rounded down.
LEMMA TruncatedBelow ==
  ASSUME NEW t \in Int PROVE Truncated(t) \in Int /\ Truncated(t) <= t
<1>1. t % Grain \in 0..(Grain - 1)
  BY PollConstants DEF PollNumbers
<1> QED
  BY <1>1, PollConstants DEF Truncated, PollNumbers

\* An answer holds whatever the service shows since the cursor, of every kind.
LEMMA AnswerIsComplete ==
  ASSUME ServiceInv, NEW since \in Int, NEW c \in Shown, made[c] >= since
  PROVE  c \in JiraFound(since) \cup GitHubFound(since)
<1>1. c \in Change /\ made[c] \in Nat /\ kind[c] \in {"issue", "pull", "comment"}
  BY DEF Shown, ServiceInv
<1>2. Truncated(since) \in Int /\ made[c] >= Truncated(since)
  BY <1>1, TruncatedBelow
<1> QED
  BY <1>1, <1>2 DEF JiraFound, JiraSearch, GitHubFound, GitHubPulls, GitHubComments

LEMMA SinceTyped ==
  ASSUME NEW cursor \in Time, NEW at \in Int PROVE Since(cursor, at) \in Int
  BY PollConstants DEF Since, Time, PollNumbers

\* What a poller goes on with: it may answer only with a complete answer.
Continues(v) ==
  /\ v \in PollerState
  /\ v.pc \in {"running", "answered"} =>
       /\ v.now <= now
       /\ v.seen.cursor # NoTime => v.seen.cursor <= v.now - Slack
  /\ v.pc = "answered" =>
       \A c \in Change : /\ made[c] # NoTime
                         /\ made[c] >= Since(v.seen.cursor, v.now)
                         /\ made[c] <= v.now - Slack
                         => c \in v.found

LEMMA PollerContinues ==
  ASSUME PollersInv, NEW p \in Poller, NEW v, SetPoller(p, v), Continues(v),
         UNCHANGED <<now, made>>
  PROVE  PollersInv'
<1>1. /\ poller' \in [Poller -> PollerState] /\ poller'[p] = v
      /\ \A q \in Poller : q # p => poller'[q] = poller[q]
  BY DEF PollersInv, SetPoller, Continues
<1> QED
  BY <1>1 DEF PollersInv, Polling, Continues, Since

LEMMA Pauses == \A v \in {PollIdle, [pc |-> "synced"], [pc |-> "committed"]} : Continues(v)
  BY DEF Continues, PollerState, PollIdle

\* Steps that write health, switches and the next poll, but neither move the cursor
\* nor store anything.
LEMMA RowWritten ==
  ASSUME RowInv, now \in Nat, UNCHANGED <<now, made, file, saved, origin>>,
         NEW state \in {"unknown", "healthy", "degraded", "failed"},
         NEW enabled \in BOOLEAN, NEW paused \in BOOLEAN, NEW next \in Int, NEW failures \in Nat,
         source' = [state |-> state, enabled |-> enabled, paused |-> paused,
                    cursor |-> source.cursor, next |-> next, failures |-> failures],
         failures = 0 <=> state \in {"unknown", "healthy"},
         failures >= 3 <=> state = "failed",
         \E delay \in {MaxBackoff, Interval, ResetDelay} : next <= now + delay
  PROVE  RowInv' /\ source'.cursor = source.cursor
<1>1. /\ source'.cursor = source.cursor /\ source'.next = next
      /\ source'.failures = failures /\ source'.state = state
  OBVIOUS
<1>2. source' \in [state: {"unknown", "healthy", "degraded", "failed"},
                   enabled: BOOLEAN, paused: BOOLEAN, cursor: Time, next: Int, failures: Nat]
  BY DEF RowInv
<1> QED
  BY <1>1, <1>2 DEF RowInv, NothingSkipped, HealthCounts, NextPollBounded

LEMMA RowFields ==
  ASSUME RowInv
  PROVE  /\ source.state \in {"unknown", "healthy", "degraded", "failed"}
         /\ source.enabled \in BOOLEAN /\ source.paused \in BOOLEAN /\ source.cursor \in Time
         /\ source.next \in Int /\ source.failures \in Nat /\ file \in BOOLEAN
         /\ source = [state |-> source.state, enabled |-> source.enabled,
                      paused |-> source.paused, cursor |-> source.cursor,
                      next |-> source.next, failures |-> source.failures]
         /\ source.failures = 0 <=> source.state \in {"unknown", "healthy"}
         /\ source.failures >= 3 <=> source.state = "failed"
         /\ \E delay \in {MaxBackoff, Interval, ResetDelay} : source.next <= now + delay
  BY DEF RowInv, HealthCounts, NextPollBounded

\* Sync.
LEMMA RowSync ==
  ASSUME RowInv, now \in Nat, Sync, UNCHANGED <<now, made, file, saved, origin>>
  PROVE  RowInv' /\ source'.cursor = source.cursor
<1>1. source' = [state |-> source.state, enabled |-> file, paused |-> source.paused,
                 cursor |-> source.cursor, next |-> source.next, failures |-> source.failures]
  BY RowFields DEF Sync
<1> QED
  BY <1>1, RowFields, RowWritten

\* FailSourcePoll and RecordSourceFailure.
LEMMA RowFailed ==
  ASSUME RowInv, now \in Nat, NEW failures \in Nat, NEW limited \in BOOLEAN,
         source' = Failed(NextPoll(failures, limited)),
         UNCHANGED <<now, made, file, saved, origin>>
  PROVE  RowInv' /\ source'.cursor = source.cursor
<1> DEFINE state == IF source.failures >= 2 THEN "failed" ELSE "degraded"
<1>1. source' = [state |-> state, enabled |-> source.enabled, paused |-> source.paused,
                 cursor |-> source.cursor, next |-> NextPoll(failures, limited),
                 failures |-> source.failures + 1]
  BY RowFields DEF Failed
<1>2. /\ state \in {"unknown", "healthy", "degraded", "failed"}
      /\ source.failures + 1 \in Nat
      /\ source.failures + 1 = 0 <=> state \in {"unknown", "healthy"}
      /\ source.failures + 1 >= 3 <=> state = "failed"
  BY RowFields
<1> HIDE DEF state
<1> QED
  BY <1>1, <1>2, RowFields, RowWritten, NextPollLimit

\* A poll that found what the service showed, and moves the cursor from where the
\* poll began to Slack behind the poll's time, skips nothing.
LEMMA RowCommitted ==
  ASSUME PollInv, NEW p \in Poller, poller[p].pc = "answered", CommitPollTx(p),
         UNCHANGED <<now, made, file>>
  PROVE  RowInv' /\ (source.cursor # NoTime => source'.cursor # NoTime
                                              /\ source'.cursor >= source.cursor)
<1> DEFINE x == poller[p]
<1>1. /\ x.now \in 0..MaxNow /\ x.now <= now /\ x.seen \in Seen /\ x.found \subseteq Change
      /\ x.seen.cursor \in Time
      /\ x.seen.cursor # NoTime => x.seen.cursor <= x.now - Slack
      /\ \A c \in Change : /\ made[c] # NoTime
                           /\ made[c] >= Since(x.seen.cursor, x.now)
                           /\ made[c] <= x.now - Slack
                           => c \in x.found
  BY DEF PollInv, PollersInv, Polling, PollerState, PollIdle, Seen
<1>2. /\ source.cursor = x.seen.cursor
      /\ source' = [source EXCEPT !.state = "healthy", !.cursor = NewCursor(x.now),
                                  !.next = x.now + Interval, !.failures = 0]
      /\ saved' = saved \cup x.found
      /\ origin' = IF origin = NoTime THEN Since(x.seen.cursor, x.now) ELSE origin
  BY DEF CommitPollTx
<1> HIDE DEF x
<1>3. /\ now \in Nat /\ x.now \in Int /\ PollNumbers
      /\ \A c \in Change : made[c] \in Nat \cup {NoTime}
  BY <1>1, PollConstants DEF PollInv, ServiceInv, PollNumbers
<1>4. /\ source'.state = "healthy" /\ source'.cursor = x.now - Slack
      /\ source'.next = x.now + Interval /\ source'.failures = 0
      /\ source' \in [state: {"unknown", "healthy", "degraded", "failed"},
                      enabled: BOOLEAN, paused: BOOLEAN, cursor: Time, next: Int, failures: Nat]
  <2>1. source' = [state |-> "healthy", enabled |-> source.enabled, paused |-> source.paused,
                   cursor |-> x.now - Slack, next |-> x.now + Interval, failures |-> 0]
    BY <1>2, RowFields DEF PollInv, NewCursor
  <2>2. x.now - Slack \in Time /\ x.now + Interval \in Int
    BY <1>3 DEF Time, PollNumbers
  <2> QED
    BY <2>1, <2>2, RowFields DEF PollInv
<1>5. /\ saved \subseteq Change /\ origin \in Time /\ file \in BOOLEAN
      /\ origin = NoTime <=> source.cursor = NoTime
      /\ source.cursor # NoTime =>
           \A c \in Change : made[c] # NoTime /\ made[c] >= origin /\ made[c] <= source.cursor
                               => c \in saved
  BY DEF PollInv, RowInv, NothingSkipped
<1>6. /\ origin' \in Int
      /\ x.seen.cursor = NoTime => origin' = Since(x.seen.cursor, x.now)
      /\ x.seen.cursor # NoTime => origin' = origin /\ Since(x.seen.cursor, x.now) = source.cursor
  BY <1>1, <1>2, <1>3, <1>5, SinceTyped DEF Since, Time
<1>7. NothingSkipped'
  <2> SUFFICES ASSUME NEW c \in Change, made[c] # NoTime, made[c] >= origin',
                      made[c] <= x.now - Slack
               PROVE  c \in saved'
    BY <1>4 DEF NothingSkipped
  <2>1. CASE made[c] >= Since(x.seen.cursor, x.now)
    BY <1>1, <1>2, <2>1
  <2>2. CASE ~ (made[c] >= Since(x.seen.cursor, x.now))
    <3>1. x.seen.cursor # NoTime /\ made[c] \in Nat /\ source.cursor \in Int
      BY <1>1, <1>2, <1>3, <1>6, <2>2 DEF Time
    <3>2. made[c] <= source.cursor /\ made[c] >= origin
      BY <1>6, <2>2, <3>1
    <3> QED
      BY <1>2, <1>5, <3>1, <3>2
  <2> QED
    BY <2>1, <2>2
<1>8. HealthCounts' /\ NextPollBounded'
  <2>1. x.now + Interval <= now + Interval
    BY <1>1, <1>3 DEF PollNumbers
  <2>2. now' = now
    OBVIOUS
  <2> QED
    BY <1>4, <2>1, <2>2 DEF HealthCounts, NextPollBounded
<1>9. /\ source'.cursor \in Int /\ source'.cursor # NoTime /\ source'.cursor <= now - Slack
      /\ source.cursor # NoTime => source'.cursor >= source.cursor
  BY <1>1, <1>2, <1>3, <1>4, PollConstants DEF PollNumbers, Time
<1>10. saved' \subseteq Change /\ origin' # NoTime
  BY <1>1, <1>2, <1>5, <1>6, PollConstants
<1> QED
  BY <1>3, <1>4, <1>5, <1>6, <1>7, <1>8, <1>9, <1>10 DEF RowInv, Time

CursorKept == source.cursor # NoTime => source'.cursor # NoTime /\ source'.cursor >= source.cursor

LEMMA PollInvStep ==
  ASSUME PollInv, [PollNext]_pollVars
  PROVE  PollInv' /\ CursorKept
<1> USE DEF service, row
<1>0. /\ ServiceInv /\ PollersInv /\ RowInv /\ now \in Nat /\ now \in 0..MaxNow /\ PollNumbers
      /\ poller \in [Poller -> PollerState] /\ source.cursor \in Time
      /\ \A c \in Change : made[c] \in Nat \cup {NoTime}
  BY PollConstants DEF PollInv, ServiceInv, PollersInv, RowInv, PollNumbers
\* A step outside the service, and one that leaves the pollers or the row alone.
<1>a. ASSUME UNCHANGED <<now, service>> PROVE ServiceInv'
  BY <1>0, <1>a DEF ServiceInv
<1>b. ASSUME UNCHANGED <<now, made, poller>> PROVE PollersInv'
  BY <1>0, <1>b DEF PollersInv, Polling, Since
<1>c. ASSUME UNCHANGED <<now, made, row>>, file' \in BOOLEAN PROVE RowInv' /\ CursorKept
  BY <1>0, <1>c DEF RowInv, NothingSkipped, HealthCounts, NextPollBounded, CursorKept, Time
<1>d. ASSUME source'.cursor = source.cursor PROVE CursorKept
  BY <1>0, <1>d DEF CursorKept, Time
<1>1. ASSUME NEW p \in Poller, PollNow(p) PROVE PollInv' /\ CursorKept
  BY <1>0, <1>1, <1>a, <1>d, RowSync, PollerContinues, Pauses DEF PollNow, PollInv
<1>2. ASSUME NEW p \in Poller, StartSourcePoll(p) PROVE PollInv' /\ CursorKept
  <2> DEFINE v == [pc |-> "running", now |-> now,
                   seen |-> [cursor |-> source.cursor, failures |-> source.failures]]
  <2>1. UNCHANGED <<now, service, file, row>> /\ (SetPoller(p, v) \/ SetPoller(p, PollIdle))
    BY <1>2 DEF StartSourcePoll
  <2>2. v \in PollerState
    BY <1>0, RowFields DEF PollerState, Seen
  <2>3. v.pc = "running" /\ v.now = now /\ v.seen.cursor = source.cursor
    OBVIOUS
  <2> HIDE DEF v
  <2>4. Continues(v)
    BY <1>0, <2>2, <2>3 DEF Continues, RowInv
  <2>5. PollersInv'
    BY <1>0, <2>1, <2>4, PollerContinues, Pauses
  <2> QED
    BY <1>0, <1>a, <1>c, <2>1, <2>5 DEF PollInv, RowInv
<1>3. ASSUME NEW p \in Poller, Answer(p) PROVE PollInv' /\ CursorKept
  <2> DEFINE since == Since(poller[p].seen.cursor, poller[p].now)
             v == [pc |-> "answered", seen |-> poller[p].seen, now |-> poller[p].now,
                   found |-> JiraFound(since) \cup GitHubFound(since)]
  <2>1. UNCHANGED <<now, service, file, row>> /\ SetPoller(p, v) /\ poller[p].pc = "running"
    BY <1>3 DEF Answer
  <2>2. /\ poller[p].now \in 0..MaxNow /\ poller[p].now <= now /\ poller[p].seen \in Seen
        /\ poller[p].seen.cursor \in Time
        /\ poller[p].seen.cursor # NoTime => poller[p].seen.cursor <= poller[p].now - Slack
    BY <1>0, <2>1 DEF PollersInv, Polling, PollerState, PollIdle, Seen
  <2>3. since \in Int
    BY <2>2, SinceTyped
  <2>4. JiraFound(since) \cup GitHubFound(since) \subseteq Change
    BY DEF JiraFound, JiraSearch, GitHubFound, GitHubPulls, GitHubComments, Shown
  <2>5. ASSUME NEW c \in Change, made[c] # NoTime, made[c] >= since, made[c] <= poller[p].now - Slack
        PROVE  c \in JiraFound(since) \cup GitHubFound(since)
    <3>1. c \in Shown
      BY <1>0, <2>2, <2>5 DEF Shown, ServiceInv, PollNumbers
    <3> QED
      BY <1>0, <2>3, <2>5, <3>1, AnswerIsComplete
  <2>6. v \in PollerState
    BY <2>2, <2>4 DEF PollerState
  <2>7. v.now = poller[p].now /\ v.seen = poller[p].seen
        /\ v.found = JiraFound(since) \cup GitHubFound(since)
    OBVIOUS
  <2> HIDE DEF v
  <2>8. Continues(v)
    BY <2>2, <2>5, <2>6, <2>7 DEF Continues
  <2>9. PollersInv'
    BY <1>0, <2>1, <2>8, PollerContinues
  <2> QED
    BY <1>0, <1>a, <1>c, <2>1, <2>9 DEF PollInv, RowInv
\* A failure that a poller records with the failures it knew of.
<1>4. ASSUME NEW p \in Poller, NEW failures \in Nat, NEW limited \in BOOLEAN,
             source' = Failed(NextPoll(failures, limited)), SetPoller(p, PollIdle),
             UNCHANGED <<now, service, file, saved, origin>>
      PROVE  PollInv' /\ CursorKept
  BY <1>0, <1>4, <1>a, <1>d, RowFailed, PollerContinues, Pauses DEF PollInv
<1>5. ASSUME NEW p \in Poller, NEW limited \in BOOLEAN, poller[p].pc \in {"running", "answered"},
             FailSourcePoll(p, limited), UNCHANGED <<now, service, file, saved, origin>>
      PROVE  PollInv' /\ CursorKept
  <2>1. poller[p].seen.failures \in Nat
    BY <1>0, <1>5 DEF PollerState, PollIdle, Seen
  <2> QED
    BY <1>4, <1>5, <2>1 DEF FailSourcePoll
<1>6. ASSUME NEW p \in Poller, NEW limited \in BOOLEAN, PollFails(p, limited)
      PROVE  PollInv' /\ CursorKept
  BY <1>5, <1>6 DEF PollFails
<1>7. ASSUME NEW p \in Poller, CommitConflict(p) PROVE PollInv' /\ CursorKept
  BY <1>5, <1>7 DEF CommitConflict
<1>8. ASSUME NEW p \in Poller, CommitPoll(p) PROVE PollInv' /\ CursorKept
  <2>1. /\ poller[p].pc = "answered" /\ CommitPollTx(p) /\ SetPoller(p, [pc |-> "committed"])
        /\ UNCHANGED <<now, service, file>>
    BY <1>8 DEF CommitPoll
  <2>2. RowInv' /\ CursorKept
    BY <2>1, RowCommitted DEF CursorKept
  <2>3. PollersInv'
    BY <1>0, <2>1, PollerContinues, Pauses
  <2> QED
    BY <1>a, <2>1, <2>2, <2>3 DEF PollInv
<1>9. ASSUME NEW p \in Poller, CompleteSourcePoll(p) \/ PollerStops(p) PROVE PollInv' /\ CursorKept
  <2>1. UNCHANGED <<now, service, file, row>> /\ SetPoller(p, PollIdle)
    BY <1>9 DEF CompleteSourcePoll, PollerStops
  <2> QED
    BY <1>0, <1>a, <1>c, <2>1, PollerContinues, Pauses DEF PollInv, RowInv
<1>10. ASSUME NEW p \in Poller, TestSource(p) PROVE PollInv' /\ CursorKept
  <2>1. Continues([pc |-> "test", failures |-> source.failures])
    BY <1>0, RowFields DEF Continues, PollerState
  <2> QED
    BY <1>0, <1>10, <1>a, <1>d, <2>1, RowSync, PollerContinues DEF TestSource, PollInv
<1>11. ASSUME NEW p \in Poller, TestPasses(p) PROVE PollInv' /\ CursorKept
  <2>1. source' = [state |-> "healthy", enabled |-> source.enabled, paused |-> source.paused,
                   cursor |-> source.cursor, next |-> source.next, failures |-> 0]
    BY <1>0, <1>11, RowFields DEF TestPasses, RecordSourceTest
  <2>2. SetPoller(p, PollIdle) /\ UNCHANGED <<now, service, file, saved, origin>>
    BY <1>11 DEF TestPasses, RecordSourceTest
  <2>3. RowInv' /\ source'.cursor = source.cursor
    BY <1>0, <2>1, <2>2, RowFields, RowWritten
  <2> QED
    BY <1>0, <1>a, <1>d, <2>2, <2>3, PollerContinues, Pauses DEF PollInv
<1>12. ASSUME NEW p \in Poller, NEW limited \in BOOLEAN, TestFails(p, limited)
       PROVE  PollInv' /\ CursorKept
  <2>1. poller[p].failures \in Nat
    BY <1>0, <1>12 DEF TestFails, PollerState, PollIdle
  <2> QED
    BY <1>4, <1>12, <2>1 DEF TestFails
<1>13. ASSUME NEW p \in Poller, NEW paused \in BOOLEAN, SetSourcePaused(p, paused)
       PROVE  PollInv' /\ CursorKept
  <2>1. source' = [state |-> source.state, enabled |-> file, paused |-> paused,
                   cursor |-> source.cursor, next |-> source.next, failures |-> source.failures]
    BY <1>0, <1>13, RowFields DEF SetSourcePaused
  <2>2. UNCHANGED <<now, service, file, saved, poller, origin>>
    BY <1>13 DEF SetSourcePaused
  <2>3. RowInv' /\ source'.cursor = source.cursor
    BY <1>0, <2>1, <2>2, RowFields, RowWritten
  <2> QED
    BY <1>a, <1>b, <1>d, <2>2, <2>3 DEF PollInv
<1>14. ASSUME NEW p \in Poller, SyncSources(p) PROVE PollInv' /\ CursorKept
  BY <1>0, <1>14, <1>a, <1>b, <1>d, RowSync DEF SyncSources, PollInv
<1>15. ASSUME NEW on \in BOOLEAN, EditSource(on) PROVE PollInv' /\ CursorKept
  BY <1>15, <1>a, <1>b, <1>c DEF EditSource, PollInv
\* A change appears with the time it appears at, which no cursor has reached.
<1>16. ASSUME NEW c \in Change, NEW lag \in 0..Slack, Appear(c, lag) PROVE PollInv' /\ CursorKept
  <2>1. /\ made' = [made EXCEPT ![c] = now] /\ shownAt' = [shownAt EXCEPT ![c] = now + lag]
        /\ UNCHANGED <<now, kind, file, row, poller>>
    BY <1>16 DEF Appear
  <2>2. ServiceInv'
    BY <1>0, <2>1, PollConstants DEF ServiceInv, PollNumbers
  <2>3. \A q \in Poller : Polling(q) => poller[q].now - Slack < now
    BY <1>0 DEF PollersInv, Polling, PollerState, PollIdle, PollNumbers
  <2>4. PollersInv'
    <3>1. ASSUME NEW q \in Poller, poller[q].pc = "answered", NEW b \in Change, made'[b] # NoTime,
                 made'[b] >= Since(poller[q].seen.cursor, poller[q].now),
                 made'[b] <= poller[q].now - Slack
          PROVE  b \in poller[q].found
      <4>1. poller[q].now \in Int /\ poller[q].now - Slack < now
        BY <1>0, <2>3, <3>1 DEF Polling, PollerState, PollIdle
      <4>2. made' [c] = now /\ b # c
        BY <1>0, <2>1, <3>1, <4>1 DEF ServiceInv, PollNumbers
      <4>3. made'[b] = made[b]
        BY <1>0, <2>1, <4>2 DEF ServiceInv
      <4> QED
        BY <1>0, <3>1, <4>3 DEF PollersInv
    <3> QED
      BY <1>0, <2>1, <3>1 DEF PollersInv, Polling, Since
  <2>5. source.cursor # NoTime => source.cursor < now
    BY <1>0 DEF RowInv, Time, PollNumbers
  <2>6. NothingSkipped'
    BY <1>0, <2>1, <2>5 DEF RowInv, NothingSkipped, ServiceInv, Time
  <2>7. RowInv'
    BY <1>0, <2>1, <2>6 DEF RowInv, HealthCounts, NextPollBounded
  <2> QED
    BY <1>d, <2>1, <2>2, <2>4, <2>7 DEF PollInv
<1>17. CASE PollTick
  <2>1. now' = now + 1 /\ now' \in 0..MaxNow /\ UNCHANGED <<service, file, row, poller>>
    BY <1>0, <1>17 DEF PollTick, PollNumbers
  <2>2. ServiceInv'
    BY <1>0, <2>1 DEF ServiceInv
  <2>3. PollersInv'
    <3>1. ASSUME NEW q \in Poller, Polling(q) PROVE poller[q].now <= now'
      <4>1. poller[q].now \in Int /\ poller[q].now <= now
        BY <1>0, <3>1 DEF PollersInv, Polling, PollerState, PollIdle
      <4> QED
        BY <1>0, <2>1, <4>1
    <3> QED
      BY <1>0, <2>1, <3>1 DEF PollersInv, Polling, Since
  <2>4. source.next \in Int /\ MaxBackoff \in Int /\ Interval \in Int /\ ResetDelay \in Int
    BY <1>0, RowFields DEF PollNumbers
  <2>5. NextPollBounded'
    BY <1>0, <2>1, <2>4 DEF RowInv, NextPollBounded
  <2>6. RowInv'
    BY <1>0, <2>1, <2>5 DEF RowInv, NothingSkipped, HealthCounts, Time, PollNumbers
  <2> QED
    BY <1>d, <2>1, <2>2, <2>3, <2>6 DEF PollInv
<1>18. CASE UNCHANGED pollVars
  BY <1>0, <1>18, <1>a, <1>b, <1>c DEF pollVars, PollInv, RowInv
<1> QED
  BY <1>1, <1>2, <1>3, <1>6, <1>7, <1>8, <1>9, <1>10, <1>11, <1>12, <1>13, <1>14, <1>15,
     <1>16, <1>17, <1>18
     DEF PollNext, PollStep

LEMMA PollStarts == PollInit => PollInv
<1> SUFFICES ASSUME PollInit PROVE PollInv
  OBVIOUS
<1>1. ServiceInv
  BY PollConstants DEF PollInit, ServiceInv, PollNumbers
<1>2. PollersInv
  BY DEF PollInit, PollersInv, Polling, PollerState, PollIdle
<1>3. RowInv
  BY PollConstants
     DEF PollInit, RowInv, NothingSkipped, HealthCounts, NextPollBounded, Time, PollNumbers
<1> QED
  BY <1>1, <1>2, <1>3 DEF PollInv

\* Nothing below a source's cursor is missing, and its health and its next poll
\* follow from what happened, whoever polls, fails, conflicts, tests or stops.
THEOREM SourceSafety == PollSpec => []SourceIsFollowed
<1>1. PollInv => SourceIsFollowed
  <2>1. ASSUME PollersInv, NEW p \in Poller
        PROVE  poller[p].pc \in {"idle", "synced", "running", "answered", "committed", "test"}
    BY <2>1 DEF PollersInv, PollerState, PollIdle
  <2> QED
    BY <2>1 DEF PollInv, ServiceInv, RowInv, SourceIsFollowed, SourcePollTypeOK, Time
<1>2. PollInv /\ [PollNext]_pollVars => PollInv'
  BY PollInvStep
<1> QED
  BY <1>1, <1>2, PollStarts, PTL DEF PollSpec

\* A poll that began from an older cursor never takes the cursor back.
THEOREM CursorSafety == PollSpec => CursorAdvances
<1>1. PollInv /\ [PollNext]_pollVars => PollInv' /\ [CursorKept]_pollVars
  BY PollInvStep
<1> QED
  BY <1>1, PollStarts, PTL DEF PollSpec, CursorAdvances, CursorKept

-----------------------------------------------------------------------------
(* The arithmetic of schedules: the instants b, b + y, b + 2 y, ...          *)

LEMMA TimesInNat == \A a \in Nat, y \in Nat : a * y \in Nat
  OBVIOUS

LEMMA TimesMonotone ==
  ASSUME NEW a \in Int, NEW b \in Int, NEW y \in Nat, a <= b
  PROVE  a * y \in Int /\ b * y \in Int /\ a * y <= b * y
<1>1. (b - a) * y \in Nat
  BY TimesInNat
<1>2. (b - a) * y = b * y - a * y
  OBVIOUS
<1> QED
  BY <1>1, <1>2

LEMMA Division ==
  ASSUME NEW x \in Int, NEW y \in Nat \ {0}
  PROVE  /\ x \div y \in Int /\ x % y \in 0..(y - 1)
         /\ x = (x \div y) * y + (x % y)
  OBVIOUS

LEMMA MultipleModulo ==
  ASSUME NEW q \in Int, NEW y \in Nat \ {0} PROVE (q * y) % y = 0
<1> DEFINE p == (q * y) \div y
           r == (q * y) % y
<1>0. q * y \in Int
  OBVIOUS
<1>1. q * y \in Int /\ p \in Int /\ r \in 0..(y - 1) /\ q * y = p * y + r
  BY <1>0, Division
<1> HIDE DEF p, r
<1>2. CASE q < p
  <2>1. (q + 1) * y <= p * y /\ p * y \in Int
    BY <1>1, <1>2, TimesMonotone
  <2>2. (q + 1) * y = q * y + y
    OBVIOUS
  <2> QED
    BY <1>1, <2>1, <2>2
<1>3. CASE q > p
  <2>1. (p + 1) * y <= q * y /\ p * y \in Int
    BY <1>1, <1>3, TimesMonotone
  <2>2. (p + 1) * y = p * y + y
    BY <1>1
  <2> QED
    BY <1>1, <2>1, <2>2
<1>4. CASE q = p
  <2>1. r = 0
    BY <1>1, <1>4
  <2> QED
    BY <2>1 DEF r
<1> QED
  BY <1>1, <1>2, <1>3, <1>4

\* Some whole steps after an instant of the grid there is another one.
LEMMA GridStep ==
  ASSUME NEW b \in Int, NEW y \in Nat \ {0}, NEW t \in Int, t >= b, (t - b) % y = 0, NEW k \in Nat
  PROVE  t + k * y \in Int /\ t + k * y >= t /\ (t + k * y - b) % y = 0
<1> DEFINE q == (t - b) \div y
<1>1. q \in Int /\ t - b = q * y
  BY Division
<1> HIDE DEF q
<1>2. k * y \in Nat
  BY TimesInNat
<1>3. t + k * y - b = (q + k) * y
  <2>1. (q + k) * y = q * y + k * y
    BY <1>1
  <2> QED
    BY <1>1, <1>2, <2>1
<1>4. ((q + k) * y) % y = 0
  BY <1>1, MultipleModulo
<1> QED
  BY <1>2, <1>3, <1>4

\* Between an instant of the grid and the n-th one after it there are no others
\* than the ones a pass counts.
LEMMA GridBetween ==
  ASSUME NEW b \in Int, NEW y \in Nat \ {0}, NEW t \in Int, NEW u \in Int,
         (t - b) % y = 0, (u - b) % y = 0, NEW n \in Nat, t <= u, u < t + n * y
  PROVE  u \in {t + k * y : k \in 0..(n - 1)}
<1> DEFINE q1 == (t - b) \div y
           q2 == (u - b) \div y
<1>1. q1 \in Int /\ q2 \in Int /\ t - b = q1 * y /\ u - b = q2 * y
  BY Division
<1> HIDE DEF q1, q2
<1>2. q1 * y \in Int /\ q2 * y \in Int /\ n * y \in Int
  BY <1>1
<1>3. (q2 - q1) * y = q2 * y - q1 * y
  BY <1>1
<1>4. u = t + (q2 - q1) * y
  BY <1>1, <1>2, <1>3
<1>5. q2 - q1 >= 0
  <2>1. CASE q2 - q1 < 0
    <3>1. (q2 - q1) * y <= (-1) * y
      BY <1>1, <2>1, TimesMonotone
    <3>2. (-1) * y = -y
      OBVIOUS
    <3> QED
      BY <1>2, <1>3, <1>4, <3>1, <3>2
  <2> QED
    BY <1>1, <2>1
<1>6. q2 - q1 < n
  <2>1. CASE q2 - q1 >= n
    <3>1. n * y <= (q2 - q1) * y
      BY <1>1, <2>1, TimesMonotone
    <3> QED
      BY <1>2, <1>3, <1>4, <3>1
  <2> QED
    BY <1>1, <2>1
<1>7. q2 - q1 \in 0..(n - 1)
  BY <1>1, <1>5, <1>6
<1> QED
  BY <1>4, <1>7

\* The last instant of the grid that is not after now.
LEMMA LastStep ==
  ASSUME NEW y \in Nat \ {0}, NEW due \in Int, NEW at \in Int, due <= at
  PROVE  /\ (at - due) \div y \in Nat
         /\ due + ((at - due) \div y) * y <= at
         /\ \A k \in 0..((at - due) \div y) : due + k * y \in Int /\ due + k * y <= at
<1> DEFINE q == (at - due) \div y
<1>0. at - due \in Int
  OBVIOUS
<1>1. q \in Int /\ (at - due) % y \in 0..(y - 1) /\ at - due = q * y + ((at - due) % y)
  BY <1>0, Division
<1> HIDE DEF q
<1>2. q * y \in Int /\ due + q * y <= at
  BY <1>1
<1>3. q >= 0
  <2>1. CASE q < 0
    <3>1. q * y <= (-1) * y
      BY <1>1, <2>1, TimesMonotone
    <3>2. (-1) * y = -y
      OBVIOUS
    <3> QED
      BY <1>1, <1>2, <3>1, <3>2
  <2> QED
    BY <1>1, <2>1
<1>4. ASSUME NEW k \in 0..q PROVE due + k * y \in Int /\ due + k * y <= at
  <2>1. k * y \in Int /\ k * y <= q * y
    BY <1>1, TimesMonotone
  <2> QED
    BY <1>2, <2>1
<1> QED
  BY <1>1, <1>2, <1>3, <1>4 DEF q

-----------------------------------------------------------------------------
(* What a pass stores for a timer *)

\* An occurrence of a schedule.
OnGrid(s, t) == t >= first[s] /\ (t - first[s]) % Every(s) = 0

PlansTyped ==
  /\ plan \in [Schedules -> Plans]
  /\ \A s \in Schedules :
       /\ Policy(s) \in {"all", "latest", "skip"} /\ Every(s) \in Nat \ {0}
       /\ plan[s].start \in Nat

LEMMA PlanTypes == ASSUME plan \in [Schedules -> Plans] PROVE PlansTyped
  BY ScheduleAssumption DEF PlansTyped, Policy, Every

\* The occurrences are on the schedule's grid, from the timer's due time to the
\* present, and with catch_up "all" none before the next due time is left out.
LEMMA OccurrencesAreRight ==
  ASSUME PlansTyped, NEW s \in Schedules, NEW due \in Nat, NEW at \in Nat, due <= at,
         first[s] \in Nat, OnGrid(s, due)
  PROVE  /\ Occurrences(s, due, at).next \in Nat
         /\ Occurrences(s, due, at).next > due
         /\ OnGrid(s, Occurrences(s, due, at).next)
         /\ Occurrences(s, due, at).times \subseteq Nat
         /\ \A t \in Occurrences(s, due, at).times :
              OnGrid(s, t) /\ t <= at /\ (Policy(s) = "skip" => at - t <= Tolerance(s))
         /\ Policy(s) = "all" =>
              \A t \in Nat : OnGrid(s, t) /\ due <= t /\ t < Occurrences(s, due, at).next
                               => t \in Occurrences(s, due, at).times
<1> DEFINE y == Every(s)
           n == Steps(s, due, at)
<1>1. y \in Nat \ {0} /\ Policy(s) \in {"all", "latest", "skip"}
  BY DEF PlansTyped
<1>2. /\ n \in Nat /\ due + n * y <= at
      /\ \A k \in 0..n : due + k * y \in Int /\ due + k * y <= at
  <2>1. y \in Nat \ {0} /\ due \in Int /\ at \in Int
    BY <1>1
  <2>2. n = (at - due) \div y
    BY DEF Steps
  <2> HIDE DEF n, y
  <2> QED
    BY <2>1, <2>2, LastStep
<1>3. ASSUME NEW k \in Nat
      PROVE  due + k * y \in Nat /\ due + k * y >= due /\ OnGrid(s, due + k * y)
  <2> DEFINE b == first[s]
  <2>1. b \in Int /\ due \in Int /\ due >= b /\ (due - b) % y = 0
    BY DEF OnGrid
  <2> HIDE DEF b, y
  <2>2. due + k * y \in Int /\ due + k * y >= due /\ (due + k * y - b) % y = 0
    BY <1>1, <2>1, GridStep
  <2>3. due + k * y \in Nat /\ due + k * y >= b
    BY <2>1, <2>2
  <2> QED
    BY <1>1, <2>1, <2>2, <2>3 DEF OnGrid, b, y
<1>4. ASSUME NEW k \in Nat, k > 0 PROVE due + k * y > due
  <2>1. 1 * y <= k * y /\ k * y \in Int /\ 1 * y = y
    BY <1>1, <1>4, TimesMonotone
  <2> QED
    BY <1>1, <2>1
<1> HIDE DEF n
<1>5. CASE Policy(s) = "all"
  <2> DEFINE c == Count(s, due, at)
  <2>1. c \in Nat /\ c > 0 /\ c <= n + 1
    BY <1>2, ScheduleAssumption DEF Count, n
  <2>2. Occurrences(s, due, at) = [times |-> {due + k * y : k \in 0..(c - 1)},
                                   next |-> due + c * y]
    BY <1>5 DEF Occurrences
  <2> HIDE DEF c
  <2>3. ASSUME NEW k \in 0..(c - 1) PROVE due + k * y \in Nat /\ OnGrid(s, due + k * y)
                                          /\ due + k * y <= at
    BY <1>2, <1>3, <2>1
  <2>4. ASSUME NEW t \in Nat, OnGrid(s, t), due <= t, t < due + c * y
        PROVE  t \in {due + k * y : k \in 0..(c - 1)}
    <3> DEFINE b == first[s]
    <3>1. b \in Int /\ (due - b) % y = 0 /\ (t - b) % y = 0
      BY <2>4 DEF OnGrid
    <3>2. due \in Int /\ t \in Int /\ y \in Nat \ {0} /\ c \in Nat
      BY <1>1, <2>1
    <3>3. due <= t /\ t < due + c * y
      BY <2>4
    <3> HIDE DEF b, y
    <3> QED
      BY <3>1, <3>2, <3>3, GridBetween
  <2> QED
    BY <1>3, <1>4, <1>5, <2>1, <2>2, <2>3, <2>4
<1>6. CASE Policy(s) = "latest"
  <2>1. Occurrences(s, due, at) = [times |-> {due + n * y}, next |-> due + (n + 1) * y]
    BY <1>6 DEF Occurrences, n
  <2> QED
    BY <1>2, <1>3, <1>4, <1>6, <2>1
<1>7. CASE Policy(s) = "skip"
  <2>1. due + 1 * y = due + y
    BY <1>1
  <2>2. CASE at - due <= Tolerance(s)
    <3>1. Occurrences(s, due, at) = [times |-> {due}, next |-> due + 1 * y]
      BY <1>7, <2>1, <2>2 DEF Occurrences
    <3> QED
      BY <1>3, <1>4, <1>7, <2>2, <3>1
  <2>3. CASE ~ (at - due <= Tolerance(s))
    <3>1. Occurrences(s, due, at) = [times |-> {}, next |-> due + (n + 1) * y]
      BY <1>7, <2>3 DEF Occurrences, n
    <3> QED
      BY <1>2, <1>3, <1>4, <1>7, <3>1
  <2> QED
    BY <2>2, <2>3
<1> QED
  BY <1>1, <1>5, <1>6, <1>7

-----------------------------------------------------------------------------
(* The invariant of the loops *)

Item == [source: Schedules, due: Nat]
LoopState ==
  {Waiting}
    \cup [pc: {"list"}]
    \cup [pc: {"next"}, now: Nat, todo: SUBSET Item]
    \cup [pc: {"ingest"}, now: Nat, todo: SUBSET Item, timer: Item, times: SUBSET Nat, next: Nat]

\* A timer a loop has read exists, and was due at an occurrence, however much the
\* row has moved on since.
Listed(t) == timer[t.source].state # "none" /\ OnGrid(t.source, t.due)

TodoOK(v) == \A t \in v.todo : Listed(t) /\ t.due <= v.now

\* What is left of a timer's pass: the occurrences not stored yet, and nothing
\* between the timer's due time and its next one that is neither stored nor left.
PassOK(v) ==
  LET s == v.timer.source
  IN /\ Listed(v.timer) /\ v.timer.due < v.next /\ OnGrid(s, v.next)
     /\ \A t \in v.times :
          OnGrid(s, t) /\ t <= v.now /\ (Policy(s) = "skip" => v.now - t <= Tolerance(s))
     /\ Policy(s) = "all" =>
          \A t \in Nat : OnGrid(s, t) /\ v.timer.due <= t /\ t < v.next
                           => t \in v.times \/ t \in FiredTimes(s)

RoundOK(v) ==
  /\ v.pc \in {"next", "ingest"} => TodoOK(v)
  /\ v.pc = "ingest" => PassOK(v)

TimersInv ==
  /\ time \in Times /\ defined \subseteq Schedules
  /\ plan \in [Schedules -> Plans]
  /\ timer \in [Schedules -> [state: {"none", "pending", "cancelled"}, due: Nat]]
  /\ first \in [Schedules -> Nat]
  /\ fired \in [Schedules -> SUBSET [at: Nat, by: Nat]]
  /\ \A s \in Schedules :
       IF timer[s].state = "none" THEN fired[s] = {} /\ first[s] = 0 /\ timer[s].due = 0
                                  ELSE OnGrid(s, timer[s].due)

RoundsInv ==
  /\ loop \in [Studio -> LoopState]
  /\ \A p \in Studio : RoundOK(loop[p])

ScheduleInv == TimersInv /\ RoundsInv /\ AllAreFired /\ FiredIsDue

\* What every step does: plans stay, and a timer that exists keeps its existence,
\* its grid and its events.
Grown ==
  /\ plan' = plan
  /\ \A s \in Schedules : timer[s].state # "none" =>
       /\ timer'[s].state # "none" /\ first'[s] = first[s]
       /\ timer'[s].due >= timer[s].due
       /\ FiredTimes(s) \subseteq {f.at : f \in fired'[s]}

LoopMoves(p) == \E v \in LoopState : loop' = [loop EXCEPT ![p] = v]

TimerKept == \A s \in Schedules : timer[s].state # "none" => timer'[s].due >= timer[s].due

\* A round another loop is in the middle of is not disturbed.
LEMMA RoundKept ==
  ASSUME Grown, NEW p \in Studio, loop[p] \in LoopState, RoundOK(loop[p]), loop'[p] = loop[p]
  PROVE  RoundOK(loop[p])'
<1> DEFINE v == loop[p]
<1>0. v \in LoopState /\ loop'[p] = v /\ RoundOK(v)
  OBVIOUS
<1> HIDE DEF v
<1>1. \A t \in Item : Listed(t) => Listed(t)'
  BY DEF Grown, Listed, OnGrid, Item, Every
<1>2. ASSUME v.pc \in {"next", "ingest"} PROVE TodoOK(loop[p])'
  <2>1. v.todo \subseteq Item /\ TodoOK(v)
    BY <1>0, <1>2 DEF LoopState, RoundOK, Waiting
  <2> QED
    BY <1>0, <1>1, <2>1 DEF TodoOK
<1>3. ASSUME v.pc = "ingest" PROVE PassOK(loop[p])'
  <2>1. v.timer \in Item /\ v.timer.source \in Schedules /\ PassOK(v)
    BY <1>0, <1>3 DEF LoopState, RoundOK, Waiting, Item
  <2> QED
    BY <1>0, <1>1, <2>1 DEF PassOK, Grown, Listed, OnGrid, Every, Policy, Tolerance, FiredTimes
<1> QED
  BY <1>0, <1>2, <1>3 DEF RoundOK

\* One loop moves, the others stay: the rounds are fine when the moved one is.
LEMMA RoundsKept ==
  ASSUME RoundsInv, Grown, NEW p \in Studio, NEW v \in LoopState, SetLoop(p, v), RoundOK(loop[p])'
  PROVE  RoundsInv'
<1>1. loop' \in [Studio -> LoopState]
  BY DEF RoundsInv, SetLoop
<1>2. ASSUME NEW q \in Studio PROVE RoundOK(loop[q])'
  <2>1. CASE q # p
    <3>1. loop[q] \in LoopState /\ RoundOK(loop[q]) /\ loop'[q] = loop[q]
      BY <2>1 DEF RoundsInv, SetLoop
    <3> QED
      BY <3>1, RoundKept
  <2> QED
    BY <2>1
<1> QED
  BY <1>1, <1>2 DEF RoundsInv

\* Nothing that stores an event or moves a timer: the timers' part stays.
LEMMA TimersKept ==
  ASSUME TimersInv, AllAreFired, FiredIsDue, time' \in Times, defined' \subseteq Schedules,
         UNCHANGED <<plan, timer, fired, first>>
  PROVE  TimersInv' /\ AllAreFired' /\ FiredIsDue' /\ Grown
<1>1. TimersInv'
  BY DEF TimersInv, OnGrid, Every
<1>2. AllAreFired' /\ FiredIsDue'
  BY DEF AllAreFired, FiredIsDue, Policy, Every, Tolerance, FiredTimes
<1>3. Grown
  BY DEF Grown, FiredTimes, TimersInv
<1> QED
  BY <1>1, <1>2, <1>3

LEMMA SyncStep ==
  ASSUME ScheduleInv, NEW p \in Studio, SyncTimers(p)
  PROVE  ScheduleInv' /\ Grown
<1>0. PlansTyped
  BY PlanTypes DEF ScheduleInv, TimersInv
<1>1. \A s \in Schedules : FirstDue(s) \in Nat
  BY <1>0, ScheduleAssumption DEF PlansTyped, FirstDue, ScheduleInv, TimersInv
<1>2. ASSUME NEW s \in Schedules
      PROVE  /\ timer'[s] \in [state: {"none", "pending", "cancelled"}, due: Nat]
             /\ first'[s] \in Nat
             /\ timer[s].state # "none" => /\ timer'[s].state # "none"
                                           /\ timer'[s].due = timer[s].due
                                           /\ first'[s] = first[s]
             /\ timer[s].state = "none" /\ timer'[s].state # "none" =>
                  timer'[s].due = first'[s]
             /\ timer'[s].state = "none" =>
                  timer[s].state = "none" /\ timer'[s] = timer[s] /\ first'[s] = first[s]
  BY <1>1 DEF SyncTimers, UpsertScheduleTimer, ScheduleInv, TimersInv
<1>3. timer' \in [Schedules -> [state: {"none", "pending", "cancelled"}, due: Nat]]
      /\ first' \in [Schedules -> Nat] /\ UNCHANGED <<time, plan, defined, fired>>
  BY <1>2 DEF SyncTimers
<1>4. Grown
  BY <1>2, <1>3 DEF Grown, FiredTimes, ScheduleInv, TimersInv
<1>5. \A s \in Schedules : (0 % Every(s)) = 0
  BY <1>0 DEF PlansTyped
<1>6. TimersInv'
  BY <1>2, <1>3, <1>5 DEF ScheduleInv, TimersInv, OnGrid, Every
<1>7. AllAreFired'
  BY <1>2, <1>3 DEF ScheduleInv, TimersInv, AllAreFired, Policy, Every, FiredTimes
<1>8. FiredIsDue'
  BY <1>2, <1>3 DEF ScheduleInv, TimersInv, FiredIsDue, Policy, Every, Tolerance
<1>9. RoundsInv'
  <2>1. [pc |-> "list"] \in LoopState /\ SetLoop(p, [pc |-> "list"])
    BY DEF SyncTimers, LoopState
  <2>2. RoundOK(loop[p])'
    BY DEF SyncTimers, SetLoop, RoundOK, ScheduleInv, RoundsInv
  <2> QED
    BY <1>4, <2>1, <2>2, RoundsKept DEF ScheduleInv
<1> QED
  BY <1>4, <1>6, <1>7, <1>8, <1>9 DEF ScheduleInv

\* A loop that reads, or gives up its round, changes nothing else.
LEMMA ReadStep ==
  ASSUME ScheduleInv, NEW p \in Studio, NEW v \in LoopState, SetLoop(p, v), RoundOK(v),
         UNCHANGED <<time, plan, defined, timer, fired, first>>
  PROVE  ScheduleInv' /\ Grown
<1>1. TimersInv' /\ AllAreFired' /\ FiredIsDue' /\ Grown
  BY TimersKept DEF ScheduleInv, TimersInv
<1>2. RoundOK(loop[p])'
  <2>1. loop'[p] = v
    BY DEF SetLoop, ScheduleInv, RoundsInv
  <2> QED
    BY <2>1 DEF RoundOK, TodoOK, PassOK, Listed, OnGrid, Every, Policy, Tolerance, FiredTimes
<1> QED
  BY <1>1, <1>2, RoundsKept DEF ScheduleInv

LEMMA WaitingIsFine == Waiting \in LoopState /\ RoundOK(Waiting)
  BY DEF LoopState, RoundOK, Waiting

LEMMA DueStep ==
  ASSUME ScheduleInv, NEW p \in Studio, DueScheduleTimers(p)
  PROVE  ScheduleInv' /\ Grown
<1> DEFINE due == {s \in defined : timer[s].state = "pending" /\ timer[s].due <= time}
           todo == {[source |-> s, due |-> timer[s].due] : s \in due}
           v == [pc |-> "next", now |-> time, todo |-> todo]
<1>1. ASSUME NEW t \in todo PROVE t \in Item /\ Listed(t) /\ t.due <= time
  BY DEF ScheduleInv, TimersInv, Item, Listed
<1>2. time \in Nat
  BY ScheduleAssumption DEF ScheduleInv, TimersInv
<1>3. v \in LoopState
  BY <1>1, <1>2 DEF LoopState
<1>4. RoundOK(v)
  BY <1>1 DEF RoundOK, TodoOK
<1>5. SetLoop(p, v) /\ UNCHANGED <<time, plan, defined, timer, fired, first>>
  BY DEF DueScheduleTimers
<1> HIDE DEF v
<1> QED
  BY <1>3, <1>4, <1>5, ReadStep

LEMMA NextStep ==
  ASSUME ScheduleInv, NEW p \in Studio, NextTimer(p)
  PROVE  ScheduleInv' /\ Grown
<1>1. PICK t \in loop[p].todo :
        LET o == Occurrences(t.source, t.due, loop[p].now)
        IN SetLoop(p, [pc |-> "ingest", now |-> loop[p].now, todo |-> loop[p].todo \ {t},
                       timer |-> t, times |-> o.times, next |-> o.next])
  BY DEF NextTimer
<1> DEFINE at == loop[p].now
           todo == loop[p].todo
           s == t.source
           times == Occurrences(s, t.due, at).times
           next == Occurrences(s, t.due, at).next
           v == [pc |-> "ingest", now |-> at, todo |-> todo \ {t},
                 timer |-> t, times |-> times, next |-> next]
<1>2. at \in Nat /\ todo \subseteq Item /\ \A u \in todo : Listed(u) /\ u.due <= at
  BY DEF NextTimer, ScheduleInv, RoundsInv, LoopState, Waiting, RoundOK, TodoOK
<1>3. t \in Item /\ s \in Schedules /\ t.due \in Nat /\ t.due <= at /\ Listed(t)
  BY <1>2 DEF Item
<1>4. PlansTyped /\ first[s] \in Nat /\ OnGrid(s, t.due)
  BY <1>3, PlanTypes DEF ScheduleInv, TimersInv, Listed
<1> HIDE DEF at, todo, s
<1>5. /\ next \in Nat /\ next > t.due /\ OnGrid(s, next) /\ times \subseteq Nat
      /\ \A u \in times : OnGrid(s, u) /\ u <= at /\ (Policy(s) = "skip" => at - u <= Tolerance(s))
      /\ Policy(s) = "all" =>
           \A u \in Nat : OnGrid(s, u) /\ t.due <= u /\ u < next => u \in times
  BY <1>2, <1>3, <1>4, OccurrencesAreRight
<1> HIDE DEF times, next
<1>6. v \in LoopState
  BY <1>2, <1>3, <1>5 DEF LoopState
<1>7. RoundOK(v)
  BY <1>2, <1>3, <1>5 DEF RoundOK, TodoOK, PassOK, s
<1>8. SetLoop(p, v) /\ UNCHANGED <<time, plan, defined, timer, fired, first>>
  BY <1>1 DEF NextTimer, at, todo, s, times, next
<1> HIDE DEF v
<1> QED
  BY <1>6, <1>7, <1>8, ReadStep

LEMMA IngestStep ==
  ASSUME ScheduleInv, NEW p \in Studio, IngestOccurrence(p)
  PROVE  ScheduleInv' /\ Grown
<1> DEFINE l == loop[p]
           s == l.timer.source
<1>1. PICK at \in l.times :
        /\ fired' = IF \E f \in fired[s] : f.at = at THEN fired
                    ELSE [fired EXCEPT ![s] = @ \cup {[at |-> at, by |-> l.now]}]
        /\ SetLoop(p, [l EXCEPT !.times = @ \ {at}])
  BY DEF IngestOccurrence
<1> DEFINE v == [l EXCEPT !.times = @ \ {at}]
<1>2. l.pc = "ingest" /\ UNCHANGED <<time, plan, defined, timer, first>>
  BY DEF IngestOccurrence
<1>3. /\ l \in [pc: {"ingest"}, now: Nat, todo: SUBSET Item, timer: Item,
                times: SUBSET Nat, next: Nat]
      /\ s \in Schedules /\ at \in Nat /\ l.now \in Nat
      /\ TodoOK(l) /\ PassOK(l)
  <2>1. l \in LoopState /\ RoundOK(l)
    BY DEF ScheduleInv, RoundsInv
  <2> HIDE DEF l
  <2>2. l \in [pc: {"ingest"}, now: Nat, todo: SUBSET Item, timer: Item,
               times: SUBSET Nat, next: Nat]
    BY <1>2, <2>1 DEF LoopState, Waiting
  <2> QED
    BY <1>2, <2>1, <2>2 DEF RoundOK, Item
<1>4. /\ timer[s].state # "none" /\ OnGrid(s, at) /\ at <= l.now
      /\ Policy(s) = "skip" => l.now - at <= Tolerance(s)
  BY <1>3 DEF PassOK, Listed
<1>5. v \in LoopState
  BY <1>3 DEF LoopState
<1>6. /\ fired' \in [Schedules -> SUBSET [at: Nat, by: Nat]]
      /\ \A r \in Schedules : r # s => fired'[r] = fired[r]
      /\ at \in {f.at : f \in fired'[s]}
      /\ fired[s] \subseteq fired'[s]
      /\ \A f \in fired'[s] :
           \/ f \in fired[s]
           \/ f = [at |-> at, by |-> l.now] /\ \A g \in fired[s] : g.at # at
  <2> DEFINE e == [at |-> at, by |-> l.now]
  <2>1. fired \in [Schedules -> SUBSET [at: Nat, by: Nat]]
    BY DEF ScheduleInv, TimersInv
  <2>2. e \in [at: Nat, by: Nat] /\ e.at = at /\ s \in Schedules
    BY <1>3
  <2>3. fired' = IF \E f \in fired[s] : f.at = at THEN fired
                 ELSE [fired EXCEPT ![s] = fired[s] \cup {e}]
    BY <1>1
  <2> HIDE DEF e, s
  <2>4. CASE \E f \in fired[s] : f.at = at
    BY <2>1, <2>2, <2>3, <2>4
  <2>5. CASE ~ \E f \in fired[s] : f.at = at
    <3>1. fired' = [fired EXCEPT ![s] = fired[s] \cup {e}]
      BY <2>3, <2>5
    <3> QED
      BY <2>1, <2>2, <2>5, <3>1 DEF e
  <2> QED
    BY <2>4, <2>5
<1> HIDE DEF l, s
<1>7. Grown
  BY <1>2, <1>3, <1>6 DEF Grown, FiredTimes, ScheduleInv, TimersInv
<1>8. TimersInv'
  BY <1>2, <1>3, <1>4, <1>6 DEF ScheduleInv, TimersInv, OnGrid, Every
<1>9. AllAreFired'
  <2>1. \A r \in Schedules : FiredTimes(r) \subseteq {f.at : f \in fired'[r]}
    BY <1>3, <1>6 DEF FiredTimes
  <2> QED
    BY <1>2, <2>1 DEF ScheduleInv, AllAreFired, FiredTimes, Policy, Every
<1>10. FiredIsDue'
  <2>1. ASSUME NEW r \in Schedules, NEW f \in fired'[r]
        PROVE  /\ f.at >= first[r] /\ (f.at - first[r]) % Every(r) = 0
               /\ f.by >= f.at
               /\ \A g \in fired'[r] : f.at = g.at => f = g
               /\ Policy(r) = "skip" => f.by - f.at <= Tolerance(r)
    <3>1. CASE f \in fired[r] /\ r # s
      BY <1>6, <3>1 DEF ScheduleInv, FiredIsDue
    <3>2. CASE f \in fired[r] /\ r = s
      BY <1>6, <3>2 DEF ScheduleInv, FiredIsDue
    <3>3. CASE f \notin fired[r]
      BY <1>3, <1>4, <1>6, <3>3 DEF OnGrid
    <3> QED
      BY <3>1, <3>2, <3>3
  <2> QED
    BY <1>2, <2>1 DEF FiredIsDue, Policy, Every, Tolerance
<1>11. RoundsInv'
  <2>1. SetLoop(p, v) /\ loop'[p] = v
    BY <1>1 DEF SetLoop, ScheduleInv, RoundsInv, l
  <2>2. RoundOK(loop[p])'
    <3>1. v.pc = "ingest" /\ v.todo = l.todo /\ v.timer = l.timer /\ v.next = l.next
          /\ v.now = l.now /\ v.times = l.times \ {at}
      BY <1>3
    <3>2. l.todo \subseteq Item /\ l.timer \in Item
      BY <1>3
    <3> HIDE DEF v
    <3>3. \A t \in Item : Listed(t) => Listed(t)'
      BY <1>7 DEF Grown, Listed, OnGrid, Item, Every
    <3>4. TodoOK(loop[p])'
      BY <1>3, <2>1, <3>1, <3>2, <3>3 DEF TodoOK
    <3>5. PassOK(loop[p])'
      <4>1. PICK w \in [pc: {"ingest"}, now: Nat, todo: SUBSET Item, timer: Item,
                          times: SUBSET Nat, next: Nat] : w = l
        BY <1>3
      <4>2. PICK r \in Schedules : r = w.timer.source
        BY <1>3, <4>1 DEF s
      <4>3. /\ Listed(w.timer) /\ w.timer.due < w.next /\ OnGrid(r, w.next)
            /\ \A t \in w.times :
                 OnGrid(r, t) /\ t <= w.now /\ (Policy(r) = "skip" => w.now - t <= Tolerance(r))
            /\ Policy(r) = "all" =>
                 \A t \in Nat : OnGrid(r, t) /\ w.timer.due <= t /\ t < w.next
                                  => t \in w.times \/ t \in FiredTimes(r)
        BY <1>3, <4>1, <4>2 DEF PassOK
      <4>4. plan' = plan /\ first'[r] = first[r] /\ Listed(w.timer)'
        BY <1>2, <3>3, <4>1, <4>3
      <4>5. FiredTimes(r) \cup {at} \subseteq FiredTimes(r)'
        BY <1>6, <4>1, <4>2 DEF FiredTimes, s
      <4>6. \A t : OnGrid(r, t)' <=> OnGrid(r, t)
        BY <4>4 DEF OnGrid, Every
      <4>7. Policy(r)' = Policy(r) /\ Tolerance(r)' = Tolerance(r)
        BY <4>4 DEF Policy, Tolerance, Every
      <4>8. /\ loop'[p].timer = w.timer /\ loop'[p].next = w.next /\ loop'[p].now = w.now
            /\ loop'[p].times = w.times \ {at}
        BY <2>1, <3>1, <4>1
      <4> QED
        BY <4>2, <4>3, <4>4, <4>5, <4>6, <4>7, <4>8 DEF PassOK
    <3> QED
      BY <3>4, <3>5 DEF RoundOK
  <2> HIDE DEF v
  <2> QED
    BY <1>5, <1>7, <2>1, <2>2, RoundsKept DEF ScheduleInv
<1> QED
  BY <1>7, <1>8, <1>9, <1>10, <1>11 DEF ScheduleInv

\* A pass that ends moves its timer only when the row is still where the pass
\* began: all that lies before the new due time is stored by then.
LEMMA AdvanceStep ==
  ASSUME ScheduleInv, NEW p \in Studio, AdvanceScheduleTimer(p)
  PROVE  ScheduleInv' /\ Grown
<1> DEFINE l == loop[p]
           s == l.timer.source
           v == [pc |-> "next", now |-> l.now, todo |-> l.todo]
<1>1. l.pc = "ingest" /\ l.times = {} /\ UNCHANGED <<time, plan, defined, fired, first>>
  BY DEF AdvanceScheduleTimer
<1>2. /\ l \in [pc: {"ingest"}, now: Nat, todo: SUBSET Item, timer: Item,
                times: SUBSET Nat, next: Nat]
      /\ s \in Schedules /\ l.timer.due \in Nat
      /\ TodoOK(l) /\ PassOK(l)
  <2>1. l \in LoopState /\ RoundOK(l)
    BY DEF ScheduleInv, RoundsInv
  <2> HIDE DEF l
  <2>2. l \in [pc: {"ingest"}, now: Nat, todo: SUBSET Item, timer: Item,
               times: SUBSET Nat, next: Nat]
    BY <1>1, <2>1 DEF LoopState, Waiting
  <2> QED
    BY <1>1, <2>1, <2>2 DEF RoundOK, Item
<1>3. CASE UNCHANGED timer /\ SetLoop(p, Waiting)
  BY <1>1, <1>3, WaitingIsFine, ReadStep
<1>4. CASE /\ timer[s] = [state |-> "pending", due |-> l.timer.due]
           /\ timer' = [timer EXCEPT ![s].due = l.next]
           /\ SetLoop(p, v)
  <2>1. v \in LoopState
    BY <1>2 DEF LoopState
  <2>2. /\ timer' \in [Schedules -> [state: {"none", "pending", "cancelled"}, due: Nat]]
        /\ \A r \in Schedules : r # s => timer'[r] = timer[r]
        /\ timer[s].state = "pending" /\ timer'[s].state = "pending"
        /\ timer[s].due = l.timer.due /\ timer'[s].due = l.next
    BY <1>2, <1>4 DEF ScheduleInv, TimersInv
  <2> HIDE DEF l, s
  <2>3. /\ l.next \in Nat /\ l.next > l.timer.due /\ OnGrid(s, l.next)
        /\ Policy(s) = "all" =>
             \A t \in Nat : OnGrid(s, t) /\ l.timer.due <= t /\ t < l.next => t \in FiredTimes(s)
    BY <1>1, <1>2 DEF PassOK, s
  <2>4. Grown
    BY <1>1, <1>2, <2>2, <2>3 DEF Grown, FiredTimes, ScheduleInv, TimersInv
  <2>5. TimersInv'
    BY <1>1, <1>2, <2>2, <2>3 DEF ScheduleInv, TimersInv, OnGrid, Every
  <2>6. AllAreFired'
    <3>1. ASSUME NEW r \in Schedules, Policy(r) = "all", NEW t \in first[r]..(timer'[r].due - 1),
                 (t - first[r]) % Every(r) = 0
          PROVE  t \in FiredTimes(r)
      <4>1. first[r] \in Nat /\ timer[r].due \in Nat
        BY DEF ScheduleInv, TimersInv
      <4>2. CASE r # s \/ t < timer[s].due
        BY <2>2, <3>1, <4>1, <4>2 DEF ScheduleInv, AllAreFired
      <4>3. CASE r = s /\ t >= timer[s].due
        BY <2>2, <2>3, <3>1, <4>1, <4>3 DEF OnGrid
      <4> QED
        BY <2>2, <4>1, <4>2, <4>3
    <3> QED
      BY <1>1, <3>1 DEF AllAreFired, Policy, Every, FiredTimes
  <2>7. FiredIsDue'
    BY <1>1 DEF ScheduleInv, FiredIsDue, Policy, Every, Tolerance
  <2>8. RoundOK(loop[p])'
    <3>1. loop'[p] = v
      BY <1>4 DEF SetLoop, ScheduleInv, RoundsInv
    <3>2. \A t \in Item : Listed(t) => Listed(t)'
      BY <2>4 DEF Grown, Listed, OnGrid, Item, Every
    <3>3. l.todo \subseteq Item
      BY <1>2
    <3> QED
      BY <1>2, <3>1, <3>2, <3>3 DEF RoundOK, TodoOK
  <2> HIDE DEF v
  <2>9. RoundsInv'
    BY <1>4, <2>1, <2>4, <2>8, RoundsKept DEF ScheduleInv
  <2> QED
    BY <2>4, <2>5, <2>6, <2>7, <2>9 DEF ScheduleInv
<1> QED
  BY <1>3, <1>4 DEF AdvanceScheduleTimer

LEMMA ScheduleStarts == ScheduleInit => ScheduleInv
<1> SUFFICES ASSUME ScheduleInit PROVE ScheduleInv
  OBVIOUS
<1>1. TimersInv
  BY ScheduleAssumption DEF ScheduleInit, TimersInv, NoTimer
<1>2. RoundsInv
  BY WaitingIsFine DEF ScheduleInit, RoundsInv
<1>3. AllAreFired /\ FiredIsDue
  BY DEF ScheduleInit, AllAreFired, FiredIsDue, NoTimer
<1> QED
  BY <1>1, <1>2, <1>3 DEF ScheduleInv

\* Every step keeps the invariant, and no timer goes back.
LEMMA ScheduleInvStep ==
  ScheduleInv /\ [ScheduleNext]_scheduleVars => ScheduleInv' /\ [TimerKept]_scheduleVars
<1> SUFFICES ASSUME ScheduleInv, [ScheduleNext]_scheduleVars PROVE ScheduleInv' /\ Grown
  BY DEF Grown, TimerKept
<1>1. ASSUME NEW p \in Studio, ScheduleStep(p) PROVE ScheduleInv' /\ Grown
  <2>1. CASE EndRound(p)
    BY <2>1, WaitingIsFine, ReadStep DEF EndRound
  <2> QED
    BY <1>1, <2>1, SyncStep, DueStep, NextStep, IngestStep, AdvanceStep DEF ScheduleStep
<1>2. ASSUME NEW p \in Studio, RoundFails(p) PROVE ScheduleInv' /\ Grown
  BY <1>2, WaitingIsFine, ReadStep DEF RoundFails
<1>3. CASE loop' = loop /\ time' \in Times /\ defined' \subseteq Schedules
           /\ UNCHANGED <<plan, timer, fired, first>>
  <2>1. TimersInv' /\ AllAreFired' /\ FiredIsDue' /\ Grown
    BY <1>3, TimersKept DEF ScheduleInv
  <2>2. ASSUME NEW p \in Studio PROVE RoundOK(loop[p])'
    BY <1>3, <2>1, RoundKept DEF ScheduleInv, RoundsInv
  <2> QED
    BY <1>3, <2>1, <2>2 DEF ScheduleInv, RoundsInv
<1>4. ASSUME NEW d \in SUBSET Schedules, EditSchedules(d) PROVE ScheduleInv' /\ Grown
  BY <1>3, <1>4 DEF EditSchedules, ScheduleInv, TimersInv
<1>5. CASE Sleep
  BY <1>3, <1>5 DEF Sleep, ScheduleInv, TimersInv
<1>6. CASE UNCHANGED scheduleVars
  BY <1>3, <1>6 DEF scheduleVars, ScheduleInv, TimersInv
<1> QED
  BY <1>1, <1>2, <1>4, <1>5, <1>6 DEF ScheduleNext

\* Scheduled work is neither lost nor invented, however the passes of the Studios,
\* failed ingests, sleep and edited definitions interleave.
THEOREM ScheduleSafety == ScheduleSpec => []OccurrencesAreKept
<1>1. ScheduleInv => OccurrencesAreKept
  <2>1. ASSUME RoundsInv, NEW p \in Studio PROVE loop[p].pc \in {"wait", "list", "next", "ingest"}
    BY <2>1 DEF RoundsInv, LoopState, Waiting
  <2> QED
    BY <2>1 DEF ScheduleInv, TimersInv, OccurrencesAreKept, ScheduleTypeOK
<1> QED
  BY <1>1, ScheduleStarts, ScheduleInvStep, PTL DEF ScheduleSpec

\* A timer never goes back, however late a pass ends that began before another
\* one: the row is compared with what the pass read.
THEOREM TimerSafety == ScheduleSpec => TimerAdvances
  BY ScheduleStarts, ScheduleInvStep, PTL DEF ScheduleSpec, TimerAdvances, TimerKept
=============================================================================
