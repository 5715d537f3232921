----------------------------- MODULE Retention ------------------------------
(***************************************************************************)
(* Retention of run detail (internal/storage over store/pruning.go, and    *)
(* the log files of worker/log.go).  A pruner runs every minute, handlers  *)
(* delete the detail of one run; both remove files first and then ask the  *)
(* database, while workers write logs and people pin runs.                 *)
(***************************************************************************)
EXTENDS Integers, FiniteSets

CONSTANTS
  RunId,       \* runs, in order of creation
  MaxTries,    \* bound: attempts of a run
  Pruner,      \* the retention loop
  Deleter,     \* handlers of DELETE requests
  LogLimit     \* how many logs fit in the limit

ASSUME RetentionAssumption ==
  /\ RunId \subseteq Nat
  /\ {MaxTries, LogLimit} \subseteq Nat
  /\ Pruner \notin Deleter

VARIABLES
  ended,    \* runs in a terminal state
  pinned,   \* runs.pinned
  tries,    \* number of attempts of each run
  logs,     \* log files, as pairs of run and attempt
  pruned,   \* runs with detail_pruned_at
  keeper    \* what the pruner and the handlers are doing

retentionVars == <<ended, pinned, tries, logs, pruned, keeper>>

Keeper == Deleter \cup {Pruner}
KeeperIdle == [pc |-> "idle"]
SetKeeper(k, v) == keeper' = [keeper EXCEPT ![k] = v]

RetentionInit ==
  /\ ended = {} /\ pinned = {} /\ logs = {} /\ pruned = {}
  /\ tries = [r \in RunId |-> 0]
  /\ keeper = [k \in Keeper |-> KeeperIdle]

Attempts(r) == {r} \X (1..tries[r])

-----------------------------------------------------------------------------
(* Runs: the worker and the API *)

\* openOutputLog creates the file of a new attempt.
OpenLog(r) ==
  /\ r \notin ended
  /\ tries[r] < MaxTries
  /\ tries' = [tries EXCEPT ![r] = @ + 1]
  /\ logs' = logs \cup {<<r, tries[r] + 1>>}
  /\ UNCHANGED <<ended, pinned, pruned, keeper>>

\* The run ends, perhaps before its first attempt.
EndRun(r) ==
  /\ ended' = ended \cup {r}
  /\ UNCHANGED <<pinned, tries, logs, pruned, keeper>>

SetRunPinned(r, on) ==
  /\ pinned' = IF on THEN pinned \cup {r} ELSE pinned \ {r}
  /\ UNCHANGED <<ended, tries, logs, pruned, keeper>>

-----------------------------------------------------------------------------
(* Pruning *)

\* Usage walks the directory above the logs.
OverLimit == Cardinality(logs) > LogLimit

\* ListPrunableRuns, with the attempts of each run.
Prunable == {r \in RunId : r \notin pinned /\ r \notin pruned /\ r \in ended}

\* Prune begins: over the limit, the candidates are listed.
StartPrune ==
  /\ keeper[Pruner] = KeeperIdle
  /\ OverLimit
  /\ SetKeeper(Pruner, [pc |-> "next", todo |-> Prunable])
  /\ UNCHANGED <<ended, pinned, tries, logs, pruned>>

\* deleteLogs of the oldest candidate.
PruneLogs ==
  /\ keeper[Pruner].pc = "next"
  /\ \E r \in keeper[Pruner].todo :
       /\ \A q \in keeper[Pruner].todo : r <= q
       /\ logs' = logs \ Attempts(r)
       /\ SetKeeper(Pruner, [pc |-> "record", run |-> r, todo |-> keeper[Pruner].todo \ {r}])
  /\ UNCHANGED <<ended, pinned, tries, pruned>>

\* PruneRunDetail looks at the row again, and refuses pinned and active runs.
PruneRunDetail(r) == r \notin pinned /\ r \in ended

\* Mutant: a refusal ends the loop.
PruneRecordStops ==
  /\ keeper[Pruner].pc = "record"
  /\ LET r == keeper[Pruner].run
     IN IF PruneRunDetail(r)
          THEN /\ pruned' = pruned \cup {r}
               /\ SetKeeper(Pruner, IF OverLimit THEN [pc |-> "next", todo |-> keeper[Pruner].todo]
                                                 ELSE KeeperIdle)
          ELSE UNCHANGED pruned /\ SetKeeper(Pruner, [pc |-> "mark", run |-> r])
  /\ UNCHANGED <<ended, pinned, tries, logs>>

\* The record follows.  A refusal ends the round; otherwise it goes on until
\* the limit is met or no candidate is left.
PruneRecord ==
  /\ keeper[Pruner].pc = "record"
  /\ LET r == keeper[Pruner].run
     IN IF PruneRunDetail(r)
          THEN /\ pruned' = pruned \cup {r}
               /\ SetKeeper(Pruner, IF OverLimit THEN [pc |-> "next", todo |-> keeper[Pruner].todo]
                                                 ELSE KeeperIdle)
          ELSE UNCHANGED pruned /\ SetKeeper(Pruner, KeeperIdle)
  /\ UNCHANGED <<ended, pinned, tries, logs>>

\* Compact, and the report.
EndPrune ==
  /\ keeper[Pruner].pc = "next"
  /\ keeper[Pruner].todo = {}
  /\ SetKeeper(Pruner, KeeperIdle)
  /\ UNCHANGED <<ended, pinned, tries, logs, pruned>>

\* DeleteRunDetail asks whether the run is pinned, not whether it is active, and
\* lists its attempts ...
DeleteRunDetail(k, r) ==
  /\ keeper[k] = KeeperIdle
  /\ r \notin pinned
  /\ SetKeeper(k, [pc |-> "delete", run |-> r, files |-> Attempts(r)])
  /\ UNCHANGED <<ended, pinned, tries, logs, pruned>>

\* ... deletes their logs ...
DeleteLogs(k) ==
  /\ keeper[k].pc = "delete"
  /\ logs' = logs \ keeper[k].files
  /\ SetKeeper(k, [pc |-> "mark", run |-> keeper[k].run])
  /\ UNCHANGED <<ended, pinned, tries, pruned>>

\* ... and then the record is refused or written.
DeleteRecord(k) ==
  /\ keeper[k].pc = "mark"
  /\ pruned' = IF PruneRunDetail(keeper[k].run) THEN pruned \cup {keeper[k].run} ELSE pruned
  /\ SetKeeper(k, KeeperIdle)
  /\ UNCHANGED <<ended, pinned, tries, logs>>

PruneStep == StartPrune \/ PruneLogs \/ PruneRecord \/ EndPrune

RetentionNext ==
  \/ \E r \in RunId : \/ OpenLog(r) \/ EndRun(r)
                      \/ \E on \in BOOLEAN : SetRunPinned(r, on)
                      \/ \E k \in Deleter : DeleteRunDetail(k, r)
  \/ \E k \in Deleter : DeleteLogs(k) \/ DeleteRecord(k)
  \/ PruneStep

RetentionSpec == RetentionInit /\ [][RetentionNext]_retentionVars

-----------------------------------------------------------------------------
(* Properties *)

RetentionTypeOK ==
  /\ ended \subseteq RunId /\ pinned \subseteq RunId /\ pruned \subseteq RunId
  /\ tries \in [RunId -> 0..MaxTries]
  /\ logs \subseteq UNION {Attempts(r) : r \in RunId}
  /\ \A k \in Keeper : keeper[k].pc \in {"idle", "next", "record", "delete", "mark"}

\* The record of a run says that its detail is pruned only once the run is over,
\* however the pruner, handlers and the worker interleave: the row is asked again
\* after the files are gone.
PrunedIsOver == pruned \subseteq ended

\* Too much detail is reduced: once people stop changing pins, the pruner gets
\* below the limit or runs out of unpinned finished runs, although a pin that came
\* between the files and the record ended earlier rounds.
LimitIsRestored ==
  <>[][pinned' = pinned]_retentionVars => (OverLimit ~> ~OverLimit \/ Prunable = {})

\* Retention removes the detail of finished runs only, and makes room again.
LogsAreRetained == [](RetentionTypeOK /\ PrunedIsOver) /\ LimitIsRestored
=============================================================================
