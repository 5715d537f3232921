------------------------------ MODULE Schedule ------------------------------
(***************************************************************************)
(* Scheduled sources (internal/scheduler over the schedule timers of       *)
(* store/subscriptions.go).  The scheduler loop of each Studio keeps one   *)
(* durable timer per definition, and turns a due timer into events, one by *)
(* one, before it advances the timer.  Studios share the database.         *)
(***************************************************************************)
EXTENDS Integers, FiniteSets

CONSTANTS
  Schedules,     \* names of scheduled sources, in their order
  Studio,        \* scheduler loops
  Plans,         \* schedule.catch_up, every and start_at (0: none)
  MaxCatchUp,    \* maxCatchUpEvents (100)
  MaxTolerance,  \* one minute
  Times,         \* bound: the readings of the clock
  MaxFaults      \* bound: ingests that fail and loops that stop

ASSUME ScheduleAssumption ==
  /\ Schedules \subseteq Nat
  /\ Plans \subseteq [policy: {"all", "latest", "skip"}, every: Nat \ {0}, start: Nat]
  /\ MaxCatchUp \in Nat \ {0}
  /\ {MaxTolerance, MaxFaults} \cup Times \subseteq Nat
  /\ 0 \in Times

VARIABLES
  time,     \* the clock
  plan,     \* catch_up and every of each definition
  defined,  \* the definitions that are present and enabled
  timer,    \* the timers rows
  fired,    \* occurrences with an event row, and the time of the pass that stored each
  loop,     \* what each loop is doing
  faults,   \* faults so far
  first     \* the due time each timer was created with (history)

scheduleVars == <<time, plan, defined, timer, fired, loop, faults, first>>

Policy(s) == plan[s].policy
Every(s) == plan[s].every

\* The due time of a new timer.
FirstDue(s) == IF plan[s].start = 0 THEN time + Every(s) ELSE plan[s].start

NoTimer == [state |-> "none", due |-> 0]
Waiting == [pc |-> "wait"]
SetLoop(p, v) == loop' = [loop EXCEPT ![p] = v]

ScheduleInit ==
  /\ time = 0
  /\ plan \in [Schedules -> Plans]
  /\ defined \in SUBSET Schedules
  /\ timer = [s \in Schedules |-> NoTimer]
  /\ fired = [s \in Schedules |-> {}]
  /\ loop = [p \in Studio |-> Waiting]
  /\ faults = 0
  /\ first = [s \in Schedules |-> 0]

-----------------------------------------------------------------------------
(* scheduleOccurrences: which occurrences a pass at "now" stores for a timer *)
(* that was due at "due", and when the timer is due next.                    *)

Steps(s, due, now) == (now - due) \div Every(s)

Tolerance(s) == IF Every(s) \div 10 > MaxTolerance THEN MaxTolerance ELSE Every(s) \div 10

Count(s, due, now) ==
  IF Steps(s, due, now) + 1 > MaxCatchUp THEN MaxCatchUp ELSE Steps(s, due, now) + 1

\* Mutant: one occurrence too few when the limit is reached.
OccurrencesShort(s, due, now) ==
  CASE Policy(s) = "all" ->
         [times |-> {due + k * Every(s) : k \in 0..(Count(s, due, now) - 1)} \
                      (IF Count(s, due, now) = MaxCatchUp
                         THEN {due + (MaxCatchUp - 1) * Every(s)} ELSE {}),
          next |-> due + Count(s, due, now) * Every(s)]
    [] OTHER ->
         [times |-> {due + Steps(s, due, now) * Every(s)},
          next |-> due + (Steps(s, due, now) + 1) * Every(s)]

\* Mutant: the next due time is the occurrence just stored.
OccurrencesStuck(s, due, now) ==
  [times |-> {due + Steps(s, due, now) * Every(s)}, next |-> due + Steps(s, due, now) * Every(s)]

Occurrences(s, due, now) ==
  CASE Policy(s) = "all" ->
         [times |-> {due + k * Every(s) : k \in 0..(Count(s, due, now) - 1)},
          next |-> due + Count(s, due, now) * Every(s)]
    [] Policy(s) = "skip" ->
         [times |-> IF now - due <= Tolerance(s) THEN {due} ELSE {},
          next |-> IF now - due <= Tolerance(s) THEN due + Every(s)
                                                ELSE due + (Steps(s, due, now) + 1) * Every(s)]
    [] Policy(s) = "latest" ->
         [times |-> {due + Steps(s, due, now) * Every(s)},
          next |-> due + (Steps(s, due, now) + 1) * Every(s)]

-----------------------------------------------------------------------------
(* A round of the loop *)

\* UpsertScheduleTimer: a timer that exists keeps its due time.
UpsertScheduleTimer(s) ==
  [state |-> "pending", due |-> IF timer[s].state = "none" THEN FirstDue(s) ELSE timer[s].due]

\* Sync: the definitions present have a pending timer, the other timers are
\* cancelled.
SyncTimers(p) ==
  /\ loop[p] = Waiting
  /\ timer' = [s \in Schedules |->
                 IF s \in defined THEN UpsertScheduleTimer(s)
                 ELSE IF timer[s].state = "none" THEN timer[s]
                 ELSE [timer[s] EXCEPT !.state = "cancelled"]]
  /\ first' = [s \in Schedules |-> IF s \in defined /\ timer[s].state = "none"
                                     THEN FirstDue(s) ELSE first[s]]
  /\ SetLoop(p, [pc |-> "list"])
  /\ UNCHANGED <<time, plan, defined, fired, faults>>

\* ProcessDue reads the clock, the due timers and the definitions once.
DueScheduleTimers(p) ==
  /\ loop[p].pc = "list"
  /\ SetLoop(p, [pc |-> "next", now |-> time,
                 todo |-> {[source |-> s, due |-> timer[s].due] :
                             s \in {s \in defined : /\ timer[s].state = "pending"
                                                    /\ timer[s].due <= time}}])
  /\ UNCHANGED <<time, plan, defined, timer, fired, faults, first>>

\* The timers are taken by due time and name.
NextTimer(p) ==
  /\ loop[p].pc = "next"
  /\ \E t \in loop[p].todo :
       /\ \A u \in loop[p].todo : t.due < u.due \/ (t.due = u.due /\ t.source <= u.source)
       /\ LET o == Occurrences(t.source, t.due, loop[p].now)
          IN SetLoop(p, [pc |-> "ingest", now |-> loop[p].now, todo |-> loop[p].todo \ {t},
                         timer |-> t, times |-> o.times, next |-> o.next])
  /\ UNCHANGED <<time, plan, defined, timer, fired, faults, first>>

EndRound(p) ==
  /\ loop[p].pc = "next"
  /\ loop[p].todo = {}
  /\ SetLoop(p, Waiting)
  /\ UNCHANGED <<time, plan, defined, timer, fired, faults, first>>

\* Ingest of the next occurrence, under an ID made of name and time: one that is
\* stored already is a duplicate.
IngestOccurrence(p) ==
  /\ loop[p].pc = "ingest"
  /\ \E at \in loop[p].times :
       /\ \A other \in loop[p].times : at <= other
       /\ LET s == loop[p].timer.source
          IN fired' = IF \E f \in fired[s] : f.at = at THEN fired
                      ELSE [fired EXCEPT ![s] = @ \cup {[at |-> at, by |-> loop[p].now]}]
       /\ SetLoop(p, [loop[p] EXCEPT !.times = @ \ {at}])
  /\ UNCHANGED <<time, plan, defined, timer, faults, first>>

\* AdvanceScheduleTimer compares state and due time; a conflict ends the round.
AdvanceScheduleTimer(p) ==
  /\ loop[p].pc = "ingest"
  /\ loop[p].times = {}
  /\ LET t == loop[p].timer
     IN IF timer[t.source] = [state |-> "pending", due |-> t.due]
          THEN /\ timer' = [timer EXCEPT ![t.source].due = loop[p].next]
               /\ SetLoop(p, [pc |-> "next", now |-> loop[p].now, todo |-> loop[p].todo])
          ELSE UNCHANGED timer /\ SetLoop(p, Waiting)
  /\ UNCHANGED <<time, plan, defined, fired, faults, first>>

\* An ingest fails, or the Studio stops: the round ends where it is, possibly
\* between an ingest and the advance.
RoundFails(p) ==
  /\ loop[p] # Waiting
  /\ faults < MaxFaults
  /\ faults' = faults + 1
  /\ SetLoop(p, Waiting)
  /\ UNCHANGED <<time, plan, defined, timer, fired, first>>

EditSchedules(d) ==
  /\ defined' = d
  /\ UNCHANGED <<time, plan, timer, fired, loop, faults, first>>

\* Time passes, or the machine sleeps.
Sleep ==
  /\ \E t \in Times : t > time /\ time' = t
  /\ UNCHANGED <<plan, defined, timer, fired, loop, faults, first>>

ScheduleStep(p) ==
  \/ SyncTimers(p) \/ DueScheduleTimers(p) \/ NextTimer(p) \/ EndRound(p)
  \/ IngestOccurrence(p) \/ AdvanceScheduleTimer(p)

ScheduleNext ==
  \/ \E p \in Studio : ScheduleStep(p) \/ RoundFails(p)
  \/ \E d \in SUBSET Schedules : EditSchedules(d)
  \/ Sleep

ScheduleSpec == ScheduleInit /\ [][ScheduleNext]_scheduleVars

-----------------------------------------------------------------------------
(* Properties *)

ScheduleTypeOK ==
  /\ time \in Times
  /\ defined \subseteq Schedules
  /\ timer \in [Schedules -> [state: {"none", "pending", "cancelled"}, due: Nat]]
  /\ \A s \in Schedules : fired[s] \subseteq [at: Nat, by: Nat]
  /\ \A p \in Studio : loop[p].pc \in {"wait", "list", "next", "ingest"}

FiredTimes(s) == {f.at : f \in fired[s]}

\* With catch_up "all" no occurrence is lost by sleep, restarts, failed ingests,
\* two Studios, or the limit on a pass: every one from the first to the timer's
\* due time has its event.
AllAreFired ==
  \A s \in Schedules :
    Policy(s) = "all" =>
      \A at \in first[s]..(timer[s].due - 1) :
        (at - first[s]) % Every(s) = 0 => at \in FiredTimes(s)

\* Every event is an occurrence of its schedule, has one row, and is not early;
\* "skip" stores no occurrence later than its tolerance.
FiredIsDue ==
  \A s \in Schedules : \A f \in fired[s] :
    /\ f.at >= first[s] /\ (f.at - first[s]) % Every(s) = 0
    /\ f.by >= f.at
    /\ \A g \in fired[s] : f.at = g.at => f = g
    /\ Policy(s) = "skip" => f.by - f.at <= Tolerance(s)

\* A timer never goes back, however late a pass ends that began before another
\* one, and whatever happens to its definition.
TimerAdvances ==
  [][\A s \in Schedules : timer[s].state # "none" => timer'[s].due >= timer[s].due]_scheduleVars

\* Every due schedule is served: its timer moves on past the present, unless its
\* definition goes.
DueIsServed ==
  \A s \in Schedules :
    timer[s].state = "pending" /\ timer[s].due <= time ~>
      timer[s].due > time \/ timer[s].state = "cancelled" \/ s \notin defined

\* Scheduled work is neither lost nor invented, however the passes of two Studios,
\* failed ingests, sleep and edited definitions interleave.
OccurrencesAreKept == ScheduleTypeOK /\ AllAreFired /\ FiredIsDue

\* A timer moves forward only, and does move when it is due.
SchedulesGoOn == TimerAdvances /\ DueIsServed
=============================================================================
