------------------------------ MODULE RunStore ------------------------------
(***************************************************************************)
(* The durable run store (internal/store): runs, their attempts, workspace *)
(* leases, retry timers and approvals, as rows of one SQLite database.     *)
(* Every action is one transaction.  Its client is the most general one: a *)
(* claim handed out by ClaimNext may be used again at any later time, also *)
(* after its lease expired or another claim of the run replaced it.        *)
(*                                                                         *)
(* The rows hold Unix times; the model holds their distance from the clock,*)
(* which is all that the code compares.  Tick lets a unit of time pass.    *)
(* The code reads the clock BEFORE it waits for the store's write lock     *)
(* (worker.go:126, worker.go:438, broker.go:168), so a transaction is given*)
(* an instant that is d units old, 0 <= d <= MaxDelay, when it takes       *)
(* effect.                                                                 *)
(***************************************************************************)
EXTENDS Integers, Sequences, FiniteSets

CONSTANTS
  Run,           \* run IDs; r < s iff r comes first in ORDER BY created_at, id
  Workspace,     \* workspace aliases
  Owner,         \* lease owners, one per Studio process ("studio:<pid>")
  NoOwner,       \* "no lease row"
  Harness,       \* harness names
  Scope,         \* approval kind and canonical scope
  ApprovalId,    \* approval IDs
  WorkspaceOf,   \* the workspace of a run
  ReadonlyRun,   \* the runs whose permission is readonly
  HarnessOf,     \* the harness of a run
  HarnessesOf,   \* the harnesses a worker has an adapter for
  LeaseTTL,      \* lease duration
  MaxDelay,      \* how old an instant may be when its transaction commits
  RetryDelays,   \* delays a retry planner may ask for
  RetryLimit,    \* LIMIT of ActivateDueRetries
  MaxAttempts    \* bound: attempts per run

ASSUME RunStoreAssumption ==
  /\ Run \subseteq Nat
  /\ NoOwner \notin Owner
  /\ WorkspaceOf \in [Run -> Workspace]
  /\ ReadonlyRun \subseteq Run
  /\ HarnessOf \in [Run -> Harness]
  /\ HarnessesOf \in [Owner -> SUBSET Harness]
  /\ LeaseTTL \in Nat \ {0}
  /\ MaxDelay \in Nat
  /\ RetryDelays \subseteq Nat
  /\ RetryLimit \in Nat \ {0}
  /\ MaxAttempts \in Nat

VARIABLES
  run,        \* runs.state
  attempts,   \* run_attempts of each run, by number
  lease,      \* the run_leases row of each run
  timers,     \* timers of kind run-retry
  approvals,  \* approvals rows
  journal     \* the state in the latest run.state row of runtime_events

vars == <<run, attempts, lease, timers, approvals, journal>>

-----------------------------------------------------------------------------
(* Rows *)

HeldStates == {"leased", "preparing", "running", "waiting-for-approval"}
TerminalStates == {"succeeded", "failed", "cancelled", "interrupted"}
RunState == {"absent", "pending", "retry-scheduled"} \cup HeldStates \cup TerminalStates
OpenStates == {"preparing", "running"}
AttemptState == OpenStates \cup TerminalStates

AttemptRow == [worker: Owner, state: AttemptState]
LeaseRow == [owner: Owner \cup {NoOwner}, left: Int]   \* expires_at minus the clock
TimerRow == [run: Run, number: Nat, left: Int,                \* due_at minus the clock
             state: {"pending", "completed", "cancelled"}]
ApprovalRow == [run: Run, number: Nat, scope: Scope, resume: OpenStates,
                state: {"pending", "approved", "denied", "cancelled"}]

NoApproval == [state |-> "none"]
NoLease == [owner |-> NoOwner, left |-> 0]
HasLease(r) == lease[r].owner # NoOwner
Live(r, d) == HasLease(r) /\ lease[r].left + d > 0
Expired(r, d) == HasLease(r) /\ lease[r].left + d <= 0

\* leaseModeFor: every permission but readonly takes a write lease.
WriteMode(r) == r \notin ReadonlyRun

\* A claim is a run and an attempt number.
Claims == {c \in Run \X (1..MaxAttempts) : c[2] <= Len(attempts[c[1]])}
ClaimOwner(r, n) == attempts[r][n].worker

\* The age of the instant handed to a transaction.
Delays == 0..MaxDelay

-----------------------------------------------------------------------------
Init ==
  /\ run = [r \in Run |-> "absent"]
  /\ attempts = [r \in Run |-> <<>>]
  /\ lease = [r \in Run |-> NoLease]
  /\ timers = {}
  /\ approvals = [a \in ApprovalId |-> NoApproval]
  /\ journal = [r \in Run |-> "absent"]

\* Mutant: the new state is not journalled.
SetRunUnjournalled(r, s) ==
  /\ run' = [run EXCEPT ![r] = s]
  /\ UNCHANGED journal

\* appendRunStateEvent: in the same transaction as the new run state.
SetRun(r, s) ==
  /\ run' = [run EXCEPT ![r] = s]
  /\ journal' = [journal EXCEPT ![r] = s]

\* Mutant: an expired lease still counts as held.
VerifyOwnerOnly(r, n, d) == lease[r].owner = ClaimOwner(r, n)

\* verifyLease: keyed by run and owner; the attempt number is not compared.
VerifyLease(r, n, d) ==
  /\ lease[r].owner = ClaimOwner(r, n)
  /\ lease[r].left + d > 0

SetAttempt(r, n, s) == attempts' = [attempts EXCEPT ![r][n].state = s]

-----------------------------------------------------------------------------
(* Creating and cancelling runs *)

\* RouteEvent and IngestAndRoute insert a pending run.
RouteRun(r) ==
  /\ run[r] = "absent"
  /\ SetRun(r, "pending")
  /\ UNCHANGED <<attempts, lease, timers, approvals>>

\* Mutant: the retry timer of a cancelled run stays pending.
KeepTimer(u, r) == u

CancelTimer(u, r) ==
  IF u.run = r /\ u.state = "pending" THEN [u EXCEPT !.state = "cancelled"] ELSE u

\* Mutant: cancels a run whatever its state.
CancelAnyRun(r) ==
  /\ run[r] # "absent"
  /\ SetRun(r, "cancelled")
  /\ timers' = {CancelTimer(u, r) : u \in timers}
  /\ UNCHANGED <<attempts, lease, approvals>>

\* CancelPendingRun: also closes the pending retry timers of the run.
CancelPendingRun(r) ==
  /\ run[r] \in {"pending", "retry-scheduled"}
  /\ SetRun(r, "cancelled")
  /\ timers' = {CancelTimer(u, r) : u \in timers}
  /\ UNCHANGED <<attempts, lease, approvals>>

-----------------------------------------------------------------------------
(* Claims *)

\* Mutant: a write claim does not wait for readonly leases.
NoOtherWriter(r, d) ==
  ~ \E s \in Run : Live(s, d) /\ WorkspaceOf[s] = WorkspaceOf[r] /\ WriteMode(s)

\* workspaceLeaseAvailable: readonly leases conflict with write leases only.
WorkspaceLeaseAvailable(r, d) ==
  ~ \E s \in Run : /\ Live(s, d)
                   /\ WorkspaceOf[s] = WorkspaceOf[r]
                   /\ WriteMode(r) \/ WriteMode(s)

Claimable(r, o, d) ==
  /\ run[r] = "pending"
  /\ HarnessOf[r] \in HarnessesOf[o]
  /\ WorkspaceLeaseAvailable(r, d)

\* claimRun.  The row of run_leases has the run as its primary key: inserting
\* it over an older row would fail and roll the claim back.
ClaimRun(r, o, d) ==
  /\ ~ HasLease(r)
  /\ Len(attempts[r]) < MaxAttempts
  /\ SetRun(r, "leased")
  /\ attempts' = [attempts EXCEPT ![r] = Append(@, [worker |-> o, state |-> "preparing"])]
  /\ lease' = [lease EXCEPT ![r] = [owner |-> o, left |-> LeaseTTL - d]]

\* ClaimNextForHarnesses: the oldest claimable run.
ClaimNext(o, d) ==
  /\ \E r \in Run :
       /\ Claimable(r, o, d)
       /\ \A s \in Run : s < r => ~ Claimable(s, o, d)
       /\ ClaimRun(r, o, d)
  /\ UNCHANGED <<timers, approvals>>

PrepareClaim(r, n, d) ==
  /\ VerifyLease(r, n, d)
  /\ run[r] = "leased"
  /\ SetRun(r, "preparing")
  /\ UNCHANGED <<attempts, lease, timers, approvals>>

StartAttempt(r, n, d) ==
  /\ VerifyLease(r, n, d)
  /\ run[r] = "preparing"
  /\ attempts[r][n].state = "preparing"
  /\ SetRun(r, "running")
  /\ SetAttempt(r, n, "running")
  /\ UNCHANGED <<lease, timers, approvals>>

HeartbeatLease(r, n, d) ==
  /\ VerifyLease(r, n, d)
  /\ lease' = [lease EXCEPT ![r].left = LeaseTTL - d]
  /\ UNCHANGED <<run, attempts, timers, approvals, journal>>

\* The run states from which CompleteClaim may reach terminal state s.
CompletableFrom(s) ==
  CASE s = "succeeded" -> {"running"}
    [] s = "failed"    -> {"preparing", "running", "waiting-for-approval"}
    [] OTHER           -> HeldStates

\* Mutant: the lease row is not deleted.
CompleteKeepingLease(r, n, s, d) ==
  /\ VerifyLease(r, n, d)
  /\ attempts[r][n].state \in (IF s = "succeeded" THEN {"running"} ELSE OpenStates)
  /\ run[r] \in CompletableFrom(s)
  /\ SetAttempt(r, n, s)
  /\ SetRun(r, s)
  /\ UNCHANGED <<lease, timers, approvals>>

CompleteClaim(r, n, s, d) ==
  /\ VerifyLease(r, n, d)
  /\ attempts[r][n].state \in (IF s = "succeeded" THEN {"running"} ELSE OpenStates)
  /\ run[r] \in CompletableFrom(s)
  /\ SetAttempt(r, n, s)
  /\ SetRun(r, s)
  /\ lease' = [lease EXCEPT ![r] = NoLease]
  /\ UNCHANGED <<timers, approvals>>

\* Mutants: a paused run, or every run, goes back to the queue.
RequeuePaused(r) ==
  IF run[r] \in {"leased", "waiting-for-approval"} THEN "pending" ELSE "interrupted"
RequeueAll(r) == "pending"

Recovered(r) == IF run[r] = "leased" THEN "pending" ELSE "interrupted"
\* Mutant: an attempt that has no process yet is left open.
InterruptRunning(a) == IF a.state = "running" THEN [a EXCEPT !.state = "interrupted"] ELSE a

Interrupt(a) == IF a.state \in OpenStates THEN [a EXCEPT !.state = "interrupted"] ELSE a

\* RecoverExpiredLeases: every expired row, in one transaction.  The update of
\* runs names no expected state; it relies on held runs being the leased ones.
RecoverExpiredLeases(d) ==
  /\ \E r \in Run : Expired(r, d)
  /\ run' = [r \in Run |-> IF Expired(r, d) THEN Recovered(r) ELSE run[r]]
  /\ journal' = [r \in Run |-> IF Expired(r, d) THEN Recovered(r) ELSE journal[r]]
  /\ attempts' = [r \in Run |->
       IF Expired(r, d) THEN [n \in DOMAIN attempts[r] |-> Interrupt(attempts[r][n])]
                        ELSE attempts[r]]
  /\ lease' = [r \in Run |-> IF Expired(r, d) THEN NoLease ELSE lease[r]]
  /\ UNCHANGED <<timers, approvals>>

-----------------------------------------------------------------------------
(* Retries *)

\* ScheduleClaimRetry: a due instant in the past is raised to now; the timer's
\* ID names the run and the attempt, so a second insert would fail.
ScheduleClaimRetry(r, n, delay, d) ==
  /\ VerifyLease(r, n, d)
  /\ attempts[r][n].state = "running"
  /\ run[r] = "running"
  /\ \A u \in timers : <<u.run, u.number>> # <<r, n>>
  /\ SetAttempt(r, n, "failed")
  /\ SetRun(r, "retry-scheduled")
  /\ lease' = [lease EXCEPT ![r] = NoLease]
  /\ timers' = timers \cup {[run |-> r, number |-> n, left |-> delay - d, state |-> "pending"]}
  /\ UNCHANGED <<approvals>>

DueTimers(d) == {u \in timers : u.state = "pending" /\ u.left + d <= 0}

\* A timer whose run is no longer retry-scheduled is cancelled.
CloseTimer(u) ==
  [u EXCEPT !.state = IF run[u.run] = "retry-scheduled" THEN "completed" ELSE "cancelled"]

Activated(r, batch) == run[r] = "retry-scheduled" /\ \E u \in batch : u.run = r

\* ActivateDueRetries: the RetryLimit earliest due timers, each with its run.
ActivateDueRetries(d) ==
  \E batch \in SUBSET DueTimers(d) :
    /\ batch # {}
    /\ Cardinality(batch) <= RetryLimit
    /\ batch # DueTimers(d) => Cardinality(batch) = RetryLimit
    /\ \A u \in batch, v \in DueTimers(d) \ batch : u.left <= v.left
    /\ run' = [r \in Run |-> IF Activated(r, batch) THEN "pending" ELSE run[r]]
    /\ journal' = [r \in Run |-> IF Activated(r, batch) THEN "pending" ELSE journal[r]]
    /\ timers' = {IF u \in batch THEN CloseTimer(u) ELSE u : u \in timers}
    /\ UNCHANGED <<attempts, lease, approvals>>

-----------------------------------------------------------------------------
(* Approvals *)

\* findApprovedScope: a grant of this run for the identical kind and scope.
ApprovedScope(r, scope) ==
  \E a \in ApprovalId : /\ approvals[a].state = "approved"
                        /\ approvals[a].run = r
                        /\ approvals[a].scope = scope

\* Mutant: a held run may ask again while it waits.
RequestWhileHeld(r, n, a, scope, d) ==
  /\ VerifyLease(r, n, d)
  /\ ~ ApprovedScope(r, scope)
  /\ run[r] \in HeldStates
  /\ approvals[a].state = "none"
  /\ approvals' = [approvals EXCEPT ![a] = [run |-> r, number |-> n, scope |-> scope,
                                            resume |-> run[r], state |-> "pending"]]
  /\ run' = [run EXCEPT ![r] = "waiting-for-approval"]
  /\ UNCHANGED <<attempts, lease, timers, journal>>

\* RequestApproval pauses the run unless the scope is already approved.  The
\* pause is journalled under approval.requested, not under run.state.
RequestApproval(r, n, a, scope, d) ==
  /\ VerifyLease(r, n, d)
  /\ ~ ApprovedScope(r, scope)
  /\ run[r] \in OpenStates
  /\ approvals[a].state = "none"
  /\ approvals' = [approvals EXCEPT ![a] = [run |-> r, number |-> n, scope |-> scope,
                                            resume |-> run[r], state |-> "pending"]]
  /\ run' = [run EXCEPT ![r] = "waiting-for-approval"]
  /\ UNCHANGED <<attempts, lease, timers, journal>>

DecideApproval(a, decision) ==
  /\ approvals[a].state = "pending"
  /\ run[approvals[a].run] = "waiting-for-approval"
  /\ approvals' = [approvals EXCEPT ![a].state = decision]
  /\ run' = [run EXCEPT ![approvals[a].run] = approvals[a].resume]
  /\ UNCHANGED <<attempts, lease, timers, journal>>

\* CancelApproval leaves the run as it is.
CancelApproval(a) ==
  /\ approvals[a].state = "pending"
  /\ approvals' = [approvals EXCEPT ![a].state = "cancelled"]
  /\ UNCHANGED <<run, attempts, lease, timers, journal>>

-----------------------------------------------------------------------------
(* Time *)

\* Past -MaxDelay a row is over for every transaction, however late.
Sooner(left) == IF left > -MaxDelay THEN left - 1 ELSE left
AgeLease(l) == IF l.owner # NoOwner THEN [l EXCEPT !.left = Sooner(@)] ELSE l
AgeTimer(u) == IF u.state = "pending" THEN [u EXCEPT !.left = Sooner(@)] ELSE u

Tick ==
  /\ lease' = [r \in Run |-> AgeLease(lease[r])]
  /\ timers' = {AgeTimer(u) : u \in timers}
  /\ UNCHANGED <<run, attempts, approvals, journal>>

ClaimStep(r, n, d) ==
  \/ PrepareClaim(r, n, d)
  \/ StartAttempt(r, n, d)
  \/ HeartbeatLease(r, n, d)
  \/ \E s \in TerminalStates : CompleteClaim(r, n, s, d)
  \/ \E delay \in RetryDelays : ScheduleClaimRetry(r, n, delay, d)
  \/ \E a \in ApprovalId, scope \in Scope : RequestApproval(r, n, a, scope, d)

Next ==
  \/ Tick
  \/ \E r \in Run : RouteRun(r) \/ CancelPendingRun(r)
  \/ \E o \in Owner, d \in Delays : ClaimNext(o, d)
  \/ \E c \in Claims, d \in Delays : ClaimStep(c[1], c[2], d)
  \/ \E d \in Delays : RecoverExpiredLeases(d) \/ ActivateDueRetries(d)
  \/ \E a \in ApprovalId :
       \/ \E decision \in {"approved", "denied"} : DecideApproval(a, decision)
       \/ CancelApproval(a)

Spec == Init /\ [][Next]_vars
-----------------------------------------------------------------------------
(* Properties *)

TypeOK ==
  /\ run \in [Run -> RunState]
  /\ attempts \in [Run -> Seq(AttemptRow)]
  /\ lease \in [Run -> LeaseRow]
  /\ timers \subseteq TimerRow
  /\ approvals \in [ApprovalId -> ApprovalRow \cup {NoApproval}]
  /\ journal \in [Run -> RunState]

Last(r) == attempts[r][Len(attempts[r])]

\* Exactly the runs in a held state have a lease row.  RecoverExpiredLeases
\* depends on it: it rewrites the state of every leased run unconditionally.
LeaseIffHeld == \A r \in Run : HasLease(r) <=> run[r] \in HeldStates

\* A held run has one open attempt, its latest, made by the lease's owner; a
\* run that is not held has none.  So a claim that was replaced can neither
\* start a process nor complete the run, although verifyLease does not compare
\* attempt numbers.
OneOpenAttempt ==
  \A r \in Run :
    /\ \A n \in 1..Len(attempts[r]) :
         attempts[r][n].state \in OpenStates => n = Len(attempts[r]) /\ HasLease(r)
    /\ HasLease(r) => /\ Len(attempts[r]) > 0
                      /\ Last(r).state \in OpenStates
                      /\ Last(r).worker = lease[r].owner

\* The approval a paused run waits for.
PendingApprovals(r) ==
  {a \in ApprovalId : approvals[a].state = "pending" /\ approvals[a].run = r}

\* The open attempt of a held run has started its process exactly when the run
\* says so, also across a pause: an approval requested while preparing never
\* resumes the run as running, and one requested while running never takes it
\* back to preparing (where StartAttempt would record a second process).
AttemptMatchesRun ==
  \A r \in Run :
    /\ run[r] \in {"leased", "preparing"} => Last(r).state = "preparing"
    /\ run[r] = "running" => Last(r).state = "running"
    /\ run[r] = "waiting-for-approval" =>
         \A a \in PendingApprovals(r) : approvals[a].resume = Last(r).state

\* At most one approval of a run is pending, and while one is the run is paused
\* or over: a decision can never resume a later pause of the run.
OnePendingApproval ==
  \A a, b \in ApprovalId :
    approvals[a].state = "pending" =>
      /\ run[approvals[a].run] \in {"waiting-for-approval"} \cup TerminalStates
      /\ approvals[b].state = "pending" /\ approvals[b].run = approvals[a].run => a = b

\* Two claims in one workspace are never live at the same instant unless both
\* are readonly.
WriteExclusive ==
  \A r, s \in Run :
    /\ r # s /\ WorkspaceOf[r] = WorkspaceOf[s]
    /\ Live(r, 0) /\ Live(s, 0)
    => ~ WriteMode(r) /\ ~ WriteMode(s)

\* A run is retry-scheduled exactly while one timer will wake it, so that no
\* retry is lost and no timer fires for a run that was cancelled or finished.
PendingTimers(r) == {u \in timers : u.state = "pending" /\ u.run = r}
RetryHasTimer ==
  \A r \in Run :
    /\ run[r] = "retry-scheduled" => PendingTimers(r) # {}
    /\ \A u, v \in PendingTimers(r) : run[r] = "retry-scheduled" /\ u = v

\* The latest run.state row of the event journal names the run's state; while a
\* run is paused it names the state the pause will resume.
JournalAgrees ==
  \A r \in Run :
    IF run[r] = "waiting-for-approval"
      THEN journal[r] = Last(r).state
      ELSE journal[r] = run[r]

\* A finished run ended as its latest attempt did.  Only a cancelled run may
\* have had no attempt, or a failed or interrupted one before the cancellation.
OutcomeAgrees ==
  \A r \in Run :
    /\ run[r] \in {"succeeded", "failed", "interrupted"} =>
         Len(attempts[r]) > 0 /\ Last(r).state = run[r]
    /\ run[r] = "cancelled" /\ Len(attempts[r]) > 0 => Last(r).state # "succeeded"

\* The rows of a run, of its latest attempt, of its approval and of the journal
\* tell one story, although every handler writes several of them.
RowsAgree == AttemptMatchesRun /\ JournalAgrees /\ OutcomeAgrees

\* What is over stays over: a run in a terminal state keeps it and gains no
\* attempt and no lease, and a closed attempt keeps its result.
TerminalStable ==
  [][\A r \in Run :
       /\ run[r] \in TerminalStates =>
            run'[r] = run[r] /\ attempts'[r] = attempts[r] /\ lease'[r] = lease[r]
       /\ \A n \in 1..Len(attempts[r]) :
            /\ n <= Len(attempts'[r])
            /\ attempts[r][n].state \in TerminalStates => attempts'[r][n] = attempts[r][n]
    ]_vars

-----------------------------------------------------------------------------
(* What the store implements *)

\* The live leases of a workspace are the holders of its reader-writer lock.
\* Holds when transactions take effect at the instant they are given
\* (MaxDelay = 0); a heartbeat given an older instant can revive a lease.
Lock == INSTANCE WorkspaceLock WITH holders <- {r \in Run : Live(r, 0)}
LeasesAreLocks == Lock!Spec

PhaseOf(s) ==
  CASE s = "absent"          -> "absent"
    [] s = "pending"         -> "queued"
    [] s = "retry-scheduled" -> "delayed"
    [] s \in HeldStates      -> "held"
    [] OTHER                 -> "done"

\* The store's rows implement the life cycle: at most one holder, started at
\* most once per claim, requeued without a retry timer only if not started, and
\* never revived when done.
Lifecycle == INSTANCE RunLifecycle WITH
  life <- [r \in Run |-> [phase   |-> PhaseOf(run[r]),
                          holder  |-> lease[r].owner,
                          started |-> HasLease(r) /\ Last(r).state = "running"]]
FollowsLifecycle == Lifecycle!Spec

=============================================================================
