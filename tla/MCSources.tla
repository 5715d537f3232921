----------------------------- MODULE MCSources ------------------------------
(* Small instances of the two kinds of sources, the scheduler and the        *)
(* connector, explored one at a time: the other one rests in an initial      *)
(* state, so the state spaces add up instead of multiplying.                 *)
EXTENDS Schedule, SourcePoll

VARIABLE part

sourceVars == <<part, scheduleVars, pollVars>>

\* Every 2 from a given start, every 3 from the first Sync, every 10 with a
\* tolerance of 1.
SmallPlans == {[policy |-> "all", every |-> 2, start |-> 1],
               [policy |-> "latest", every |-> 3, start |-> 0],
               [policy |-> "skip", every |-> 10, start |-> 1]}

Init ==
  /\ part \in {"schedule", "poll"}
  /\ ScheduleInit
  /\ PollInit
  /\ part = "schedule" => ~file /\ \A c \in Change : kind[c] = "issue"
  /\ part = "poll" => defined = {} /\ \A s \in Schedules : Policy(s) = "all"

Next ==
  \/ part = "schedule" /\ ScheduleNext /\ UNCHANGED <<part, pollVars>>
  \/ part = "poll" /\ PollNext /\ UNCHANGED <<part, scheduleVars>>

\* The scheduler's loop wakes for the next due timer and at least every 30
\* seconds; the connector's goes on and sleeps at most until a source is due.
Fairness ==
  /\ \A p \in Studio : WF_scheduleVars(part = "schedule" /\ ScheduleStep(p))
  /\ WF_pollVars(part = "poll" /\ PollStep(PollLoop))
  /\ WF_pollVars(part = "poll" /\ PollNow(PollLoop))
  /\ WF_pollVars(part = "poll" /\ SyncSources(PollLoop))
  /\ WF_pollVars(part = "poll" /\ PollTick)

Spec == Init /\ [][Next]_sourceVars /\ Fairness
=============================================================================
