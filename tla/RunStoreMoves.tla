---------------------------- MODULE RunStoreMoves ----------------------------
(***************************************************************************)
(* What a step of the store does to one run: the moves of its rows, from   *)
(* which the agreement of the rows, the stability of what is over and the  *)
(* refinements of the abstract specifications follow.                      *)
(***************************************************************************)
EXTENDS RunStoreProofs

-----------------------------------------------------------------------------
(* The moves *)

\* The new state of run and journal, written together.
Becomes(q, s) == run'[q] = s /\ journal'[q] = s

\* The rows of q in run_attempts, and its lease row, are left alone.
KeepsAttempts(q) == attempts'[q] = attempts[q]
KeepsLease(q) == lease'[q] = lease[q]

\* The open attempt of q, its latest, gets the state s; the older ones stay.
LastBecomes(q, s) ==
  /\ Len(attempts'[q]) = Len(attempts[q])
  /\ Last(q).state \in OpenStates
  /\ Last(q)'.state = s
  /\ \A m \in 1..Len(attempts[q]) : m # Len(attempts[q]) => attempts'[q][m] = attempts[q][m]

LosesLease(q) == HasLease(q) /\ lease'[q] = NoLease

\* Nothing but a lease's remaining time changes.
Stays(q) ==
  /\ run'[q] = run[q] /\ journal'[q] = journal[q] /\ KeepsAttempts(q)
  /\ lease'[q].owner = lease[q].owner
  /\ ~ HasLease(q) => KeepsLease(q)

IsRouted(q) == run[q] = "absent" /\ Becomes(q, "pending") /\ KeepsAttempts(q) /\ KeepsLease(q)

IsWithdrawn(q) ==
  /\ run[q] \in {"pending", "retry-scheduled"} /\ Becomes(q, "cancelled")
  /\ KeepsAttempts(q) /\ KeepsLease(q)

IsWoken(q) ==
  run[q] = "retry-scheduled" /\ Becomes(q, "pending") /\ KeepsAttempts(q) /\ KeepsLease(q)

IsClaimed(q) ==
  /\ run[q] = "pending" /\ Becomes(q, "leased")
  /\ Len(attempts'[q]) = Len(attempts[q]) + 1
  /\ \A m \in 1..Len(attempts[q]) : attempts'[q][m] = attempts[q][m]
  /\ Last(q)'.state = "preparing"
  /\ lease'[q].owner \in Owner

IsPrepared(q) == run[q] = "leased" /\ Becomes(q, "preparing") /\ KeepsAttempts(q) /\ KeepsLease(q)

IsStarted(q) ==
  run[q] = "preparing" /\ Becomes(q, "running") /\ LastBecomes(q, "running") /\ KeepsLease(q)

IsCompleted(q) ==
  /\ run[q] \in HeldStates /\ LosesLease(q)
  /\ \E s \in TerminalStates : Becomes(q, s) /\ LastBecomes(q, s)

IsDelayed(q) ==
  run[q] = "running" /\ Becomes(q, "retry-scheduled") /\ LastBecomes(q, "failed") /\ LosesLease(q)

IsRecovered(q) ==
  /\ run[q] \in HeldStates /\ Becomes(q, Recovered(q))
  /\ LastBecomes(q, "interrupted") /\ LosesLease(q)

\* A pause and its end are not journalled as states of the run.
IsPaused(q) ==
  /\ run[q] \in OpenStates /\ run'[q] = "waiting-for-approval"
  /\ journal'[q] = journal[q] /\ KeepsAttempts(q) /\ KeepsLease(q)

IsResumed(q) ==
  /\ run[q] = "waiting-for-approval" /\ run'[q] = Last(q).state
  /\ journal'[q] = journal[q] /\ KeepsAttempts(q) /\ KeepsLease(q)

Moves(q) ==
  \/ Stays(q) \/ IsRouted(q) \/ IsWithdrawn(q) \/ IsWoken(q)
  \/ IsClaimed(q) \/ IsPrepared(q) \/ IsStarted(q) \/ IsCompleted(q)
  \/ IsDelayed(q) \/ IsRecovered(q) \/ IsPaused(q) \/ IsResumed(q)

-----------------------------------------------------------------------------
LEMMA RowsEqual ==
  ASSUME NEW a \in AttemptRow, NEW b \in AttemptRow, a.worker = b.worker, a.state = b.state
  PROVE  a = b
  BY DEF AttemptRow

\* A transaction that closes or starts the open attempt n of r by SetAttempt.
LEMMA SetAttemptMoves ==
  ASSUME TypeOK, LeaseInv, NEW r \in Run, NEW n \in 1..Len(attempts[r]), NEW s \in AttemptState,
         SetAttempt(r, n, s), attempts[r][n].state \in OpenStates
  PROVE  LastBecomes(r, s) /\ \A q \in Run : q # r => KeepsAttempts(q)
<1>1. n = Len(attempts[r])
  BY DEF LeaseInv, OneOpenAttempt
<1>2. /\ attempts' \in [Run -> Seq(AttemptRow)]
      /\ \A q \in Run :
           /\ Len(attempts'[q]) = Len(attempts[q])
           /\ \A m \in 1..Len(attempts[q]) :
                /\ attempts'[q][m].worker = attempts[q][m].worker
                /\ attempts'[q][m].state = IF q = r /\ m = n THEN s ELSE attempts[q][m].state
  BY SetAttemptRows
<1>3. ASSUME NEW m \in 1..Len(attempts[r]), m # n PROVE attempts'[r][m] = attempts[r][m]
  <2>1. attempts[r] \in Seq(AttemptRow) /\ attempts'[r] \in Seq(AttemptRow)
    BY <1>2 DEF TypeOK
  <2>2. attempts[r][m] \in AttemptRow /\ attempts'[r][m] \in AttemptRow
    BY <1>2, <2>1
  <2> QED
    BY <1>2, <1>3, <2>2, RowsEqual
<1>4. ASSUME NEW q \in Run, q # r PROVE attempts'[q] = attempts[q]
  BY <1>4 DEF SetAttempt, TypeOK
<1> QED
  BY <1>1, <1>2, <1>3, <1>4 DEF LastBecomes, KeepsAttempts, Last

\* A transaction that rewrites the rows of r only leaves every other run alone.
LEMMA OthersStay ==
  ASSUME NEW q \in Run, run'[q] = run[q], journal'[q] = journal[q],
         attempts'[q] = attempts[q], lease'[q] = lease[q]
  PROVE  Moves(q)
  BY DEF Moves, Stays, KeepsAttempts, KeepsLease

LEMMA SetRunBecomes ==
  ASSUME TypeOK, NEW r \in Run, NEW s, SetRun(r, s)
  PROVE  /\ Becomes(r, s)
         /\ \A q \in Run : q # r => run'[q] = run[q] /\ journal'[q] = journal[q]
  BY DEF SetRun, Becomes, TypeOK

\* Recovery moves every run whose lease expired, and no other.
LEMMA RecoverMoves ==
  ASSUME TypeOK, LeaseInv, NEW d \in Nat, RecoverExpiredLeases(d), NEW q \in Run
  PROVE  Moves(q)
<1>1. /\ run'[q] = IF Expired(q, d) THEN Recovered(q) ELSE run[q]
      /\ journal'[q] = IF Expired(q, d) THEN Recovered(q) ELSE journal[q]
      /\ lease'[q] = IF Expired(q, d) THEN NoLease ELSE lease[q]
      /\ ~ Expired(q, d) => attempts'[q] = attempts[q]
  BY DEF RecoverExpiredLeases
<1>2. CASE ~ Expired(q, d)
  BY <1>1, <1>2, OthersStay
<1>3. CASE Expired(q, d)
  <2>1. HasLease(q) /\ run[q] \in HeldStates
    BY <1>3 DEF Expired, LeaseInv, LeaseIffHeld
  <2>2. /\ Len(attempts[q]) > 0 /\ Last(q).state \in OpenStates
        /\ \A m \in 1..Len(attempts[q]) : attempts[q][m].state \in OpenStates => m = Len(attempts[q])
    BY <2>1 DEF LeaseInv, OneOpenAttempt
  <2>3. /\ attempts' \in [Run -> Seq(AttemptRow)]
        /\ Len(attempts'[q]) = Len(attempts[q])
        /\ \A m \in 1..Len(attempts[q]) :
             /\ attempts'[q][m].worker = attempts[q][m].worker
             /\ attempts'[q][m].state =
                  IF attempts[q][m].state \in OpenStates THEN "interrupted" ELSE attempts[q][m].state
    BY <1>3, RecoverRows
  <2>4. attempts[q] \in Seq(AttemptRow) /\ attempts'[q] \in Seq(AttemptRow)
    BY <2>3 DEF TypeOK
  <2>5. ASSUME NEW m \in 1..Len(attempts[q]), m # Len(attempts[q])
        PROVE  attempts'[q][m] = attempts[q][m]
    <3>1. attempts[q][m] \in AttemptRow /\ attempts'[q][m] \in AttemptRow
      BY <2>3, <2>4
    <3> QED
      BY <2>2, <2>3, <2>5, <3>1, RowsEqual
  <2>6. Len(attempts[q]) \in 1..Len(attempts[q])
    BY <2>2, <2>4
  <2>7. LastBecomes(q, "interrupted")
    BY <2>2, <2>3, <2>5, <2>6 DEF LastBecomes, Last
  <2> QED
    BY <1>1, <1>3, <2>1, <2>7 DEF Moves, IsRecovered, Becomes, LosesLease
<1> QED
  BY <1>2, <1>3

\* A step of a claim's holder moves the claim's run, and no other.
LEMMA ClaimStepMoves ==
  ASSUME TypeOK, LeaseInv, NEW r \in Run, NEW d \in Nat, NEW n \in 1..Len(attempts[r]),
         ClaimOwner(r, n) \in Owner, ClaimStep(r, n, d), NEW q \in Run
  PROVE  Moves(q)
<1> USE DEF HeldStates, TerminalStates, OpenStates
<1>0. VerifyLease(r, n, d) => HasLease(r)
  BY RunStoreAssumption DEF VerifyLease, HasLease
<1>1. CASE PrepareClaim(r, n, d)
  <2>1. SetRun(r, "preparing") /\ run[r] = "leased" /\ UNCHANGED <<attempts, lease>>
    BY <1>1 DEF PrepareClaim
  <2>2. CASE q = r
    BY <2>1, <2>2, SetRunBecomes DEF Moves, IsPrepared, KeepsAttempts, KeepsLease
  <2>3. CASE q # r
    BY <2>1, <2>3, SetRunBecomes, OthersStay
  <2> QED
    BY <2>2, <2>3
<1>2. CASE StartAttempt(r, n, d)
  <2>1. /\ SetRun(r, "running") /\ run[r] = "preparing" /\ UNCHANGED lease
        /\ SetAttempt(r, n, "running") /\ attempts[r][n].state \in OpenStates
        /\ "running" \in AttemptState
    BY <1>2 DEF StartAttempt, AttemptState
  <2>2. CASE q = r
    BY <2>1, <2>2, SetRunBecomes, SetAttemptMoves DEF Moves, IsStarted, KeepsLease
  <2>3. CASE q # r
    BY <2>1, <2>3, SetRunBecomes, SetAttemptMoves, OthersStay DEF KeepsAttempts
  <2> QED
    BY <2>2, <2>3
<1>3. CASE HeartbeatLease(r, n, d)
  <2>1. HasLease(r) /\ UNCHANGED <<run, attempts, journal>>
        /\ lease' = [lease EXCEPT ![r].left = LeaseTTL - d]
    BY <1>0, <1>3 DEF HeartbeatLease
  <2>2. lease'[q].owner = lease[q].owner /\ (q # r => lease'[q] = lease[q])
    BY <2>1 DEF TypeOK, LeaseRow
  <2> QED
    BY <2>1, <2>2 DEF Moves, Stays, KeepsAttempts, KeepsLease
<1>4. ASSUME NEW s \in TerminalStates, CompleteClaim(r, n, s, d) PROVE Moves(q)
  <2>1. /\ SetRun(r, s) /\ run[r] \in HeldStates /\ lease' = [lease EXCEPT ![r] = NoLease]
        /\ SetAttempt(r, n, s) /\ attempts[r][n].state \in OpenStates
        /\ s \in AttemptState /\ HasLease(r)
    BY <1>0, <1>4 DEF CompleteClaim, CompletableFrom, AttemptState
  <2>2. lease'[r] = NoLease /\ (q # r => lease'[q] = lease[q])
    BY <2>1 DEF TypeOK
  <2>3. CASE q = r
    BY <2>1, <2>2, <2>3, SetRunBecomes, SetAttemptMoves DEF Moves, IsCompleted, LosesLease
  <2>4. CASE q # r
    BY <2>1, <2>2, <2>4, SetRunBecomes, SetAttemptMoves, OthersStay DEF KeepsAttempts
  <2> QED
    BY <2>3, <2>4
<1>5. ASSUME NEW delay \in RetryDelays, ScheduleClaimRetry(r, n, delay, d) PROVE Moves(q)
  <2>1. /\ SetRun(r, "retry-scheduled") /\ run[r] = "running"
        /\ lease' = [lease EXCEPT ![r] = NoLease]
        /\ SetAttempt(r, n, "failed") /\ attempts[r][n].state \in OpenStates
        /\ "failed" \in AttemptState /\ HasLease(r)
    BY <1>0, <1>5 DEF ScheduleClaimRetry, AttemptState
  <2>2. lease'[r] = NoLease /\ (q # r => lease'[q] = lease[q])
    BY <2>1 DEF TypeOK
  <2>3. CASE q = r
    BY <2>1, <2>2, <2>3, SetRunBecomes, SetAttemptMoves DEF Moves, IsDelayed, LosesLease
  <2>4. CASE q # r
    BY <2>1, <2>2, <2>4, SetRunBecomes, SetAttemptMoves, OthersStay DEF KeepsAttempts
  <2> QED
    BY <2>3, <2>4
<1>6. ASSUME NEW a \in ApprovalId, NEW scope \in Scope, RequestApproval(r, n, a, scope, d)
      PROVE  Moves(q)
  <2>1. /\ run[r] \in OpenStates /\ run'[r] = "waiting-for-approval"
        /\ q # r => run'[q] = run[q]
        /\ UNCHANGED <<attempts, lease, journal>>
    BY <1>6 DEF RequestApproval, TypeOK
  <2>2. CASE q = r
    BY <2>1, <2>2 DEF Moves, IsPaused, KeepsAttempts, KeepsLease
  <2>3. CASE q # r
    BY <2>1, <2>3, OthersStay
  <2> QED
    BY <2>2, <2>3
<1> QED
  BY <1>1, <1>2, <1>3, <1>4, <1>5, <1>6 DEF ClaimStep

\* Every step moves every run by one of the moves above.
LEMMA RunMoves ==
  ASSUME TypeOK, LeaseInv, ApprovalInv, [Next]_vars, NEW q \in Run
  PROVE  Moves(q)
<1> USE DEF HeldStates, TerminalStates, OpenStates
<1>1. CASE UNCHANGED vars
  BY <1>1, OthersStay DEF vars
<1>2. CASE Tick
  <2>1. lease'[q] = AgeLease(lease[q]) /\ lease[q] \in LeaseRow
    BY <1>2 DEF Tick, TypeOK
  <2>2. lease'[q].owner = lease[q].owner /\ (~ HasLease(q) => lease'[q] = lease[q])
    BY <2>1 DEF AgeLease, LeaseRow, HasLease
  <2> QED
    BY <1>2, <2>2 DEF Tick, Moves, Stays, KeepsAttempts, KeepsLease
<1>3. ASSUME NEW r \in Run, RouteRun(r) PROVE Moves(q)
  <2>1. SetRun(r, "pending") /\ run[r] = "absent" /\ UNCHANGED <<attempts, lease>>
    BY <1>3 DEF RouteRun
  <2>2. CASE q = r
    BY <2>1, <2>2, SetRunBecomes DEF Moves, IsRouted, KeepsAttempts, KeepsLease
  <2>3. CASE q # r
    BY <2>1, <2>3, SetRunBecomes, OthersStay
  <2> QED
    BY <2>2, <2>3
<1>4. ASSUME NEW r \in Run, CancelPendingRun(r) PROVE Moves(q)
  <2>1. /\ SetRun(r, "cancelled") /\ run[r] \in {"pending", "retry-scheduled"}
        /\ UNCHANGED <<attempts, lease>>
    BY <1>4 DEF CancelPendingRun
  <2>2. CASE q = r
    BY <2>1, <2>2, SetRunBecomes DEF Moves, IsWithdrawn, KeepsAttempts, KeepsLease
  <2>3. CASE q # r
    BY <2>1, <2>3, SetRunBecomes, OthersStay
  <2> QED
    BY <2>2, <2>3
<1>5. ASSUME NEW r \in Run, NEW o \in Owner, NEW d \in Nat, Claimable(r, o, d), ClaimRun(r, o, d)
      PROVE  Moves(q)
  <2>1. SetRun(r, "leased") /\ run[r] = "pending"
    BY <1>5 DEF Claimable, ClaimRun
  <2>2. lease'[r].owner = o /\ (q # r => lease'[q] = lease[q])
    BY <1>5 DEF ClaimRun, TypeOK
  <2>3. /\ \A s \in Run : s # r => attempts'[s] = attempts[s]
        /\ Len(attempts'[r]) = Len(attempts[r]) + 1
        /\ \A m \in 1..Len(attempts[r]) : attempts'[r][m] = attempts[r][m]
        /\ attempts'[r][Len(attempts'[r])] = [worker |-> o, state |-> "preparing"]
    BY <1>5, AppendRows DEF ClaimRun
  <2>4. CASE q = r
    BY <2>1, <2>2, <2>3, <2>4, SetRunBecomes DEF Moves, IsClaimed, Last
  <2>5. CASE q # r
    BY <2>1, <2>2, <2>3, <2>5, SetRunBecomes, OthersStay
  <2> QED
    BY <2>4, <2>5
<1>6. ASSUME NEW r \in Run, NEW d \in Nat, NEW n \in 1..Len(attempts[r]),
             ClaimOwner(r, n) \in Owner, ClaimStep(r, n, d)
      PROVE  Moves(q)
  BY <1>6, ClaimStepMoves
<1>7. ASSUME NEW d \in Nat, RecoverExpiredLeases(d) PROVE Moves(q)
  BY <1>7, RecoverMoves
<1>8. ASSUME NEW d \in Nat, ActivateDueRetries(d) PROVE Moves(q)
  <2>1. PICK batch \in SUBSET DueTimers(d) :
           /\ run' = [r \in Run |-> IF Activated(r, batch) THEN "pending" ELSE run[r]]
           /\ journal' = [r \in Run |-> IF Activated(r, batch) THEN "pending" ELSE journal[r]]
           /\ UNCHANGED <<attempts, lease>>
    BY <1>8 DEF ActivateDueRetries
  <2>2. CASE Activated(q, batch)
    BY <2>1, <2>2 DEF Activated, Moves, IsWoken, Becomes, KeepsAttempts, KeepsLease
  <2>3. CASE ~ Activated(q, batch)
    BY <2>1, <2>3, OthersStay
  <2> QED
    BY <2>2, <2>3
<1>9. ASSUME NEW a \in ApprovalId, NEW v \in {"approved", "denied"}, DecideApproval(a, v)
      PROVE  Moves(q)
  <2>1. approvals[a] \in ApprovalRow
    BY <1>9 DEF DecideApproval, TypeOK, NoApproval
  <2>2. /\ approvals[a].run \in Run /\ approvals[a].state = "pending"
        /\ run[approvals[a].run] = "waiting-for-approval"
        /\ run' = [run EXCEPT ![approvals[a].run] = approvals[a].resume]
        /\ UNCHANGED <<attempts, lease, journal>>
    BY <1>9, <2>1 DEF DecideApproval, ApprovalRow
  <2>3. approvals[a].resume = Last(approvals[a].run).state
    BY <2>2 DEF ApprovalInv, AttemptMatchesRun, PendingApprovals
  <2>4. CASE q = approvals[a].run
    BY <2>2, <2>3, <2>4 DEF TypeOK, Moves, IsResumed, KeepsAttempts, KeepsLease
  <2>5. CASE q # approvals[a].run
    BY <2>2, <2>5, OthersStay DEF TypeOK
  <2> QED
    BY <2>4, <2>5
<1>10. ASSUME NEW a \in ApprovalId, CancelApproval(a) PROVE Moves(q)
  BY <1>10, OthersStay DEF CancelApproval
<1> QED
  BY <1>1, <1>2, <1>3, <1>4, <1>5, <1>6, <1>7, <1>8, <1>9, <1>10, StepCases

-----------------------------------------------------------------------------
(* How a run ends: with its latest attempt.  A run that waits, again, has    *)
(* closed its attempts, and none of them succeeded: that is what a run       *)
(* cancelled while it waits leaves behind.                                   *)

OutcomeInv ==
  /\ OutcomeAgrees
  /\ \A r \in Run :
       /\ run[r] = "absent" => Len(attempts[r]) = 0
       /\ run[r] \in {"pending", "retry-scheduled"} /\ Len(attempts[r]) > 0 =>
            Last(r).state # "succeeded"

RowsInv == JournalAgrees /\ OutcomeInv

LEMMA RowsStep ==
  TypeOK /\ LeaseInv /\ ApprovalInv /\ RowsInv /\ [Next]_vars => RowsInv'
<1> SUFFICES ASSUME TypeOK, LeaseInv, ApprovalInv, RowsInv, [Next]_vars,
                    NEW q \in Run, Moves(q)
             PROVE  /\ (IF run[q] = "waiting-for-approval" THEN journal[q] = Last(q).state
                                                           ELSE journal[q] = run[q])'
                    /\ (run[q] \in {"succeeded", "failed", "interrupted"} =>
                          Len(attempts[q]) > 0 /\ Last(q).state = run[q])'
                    /\ (run[q] = "cancelled" /\ Len(attempts[q]) > 0 =>
                          Last(q).state # "succeeded")'
                    /\ (run[q] = "absent" => Len(attempts[q]) = 0)'
                    /\ (run[q] \in {"pending", "retry-scheduled"} /\ Len(attempts[q]) > 0 =>
                          Last(q).state # "succeeded")'
  BY RunMoves DEF RowsInv, JournalAgrees, OutcomeInv, OutcomeAgrees
<1> USE DEF HeldStates, TerminalStates, OpenStates
<1>0. /\ IF run[q] = "waiting-for-approval" THEN journal[q] = Last(q).state
                                            ELSE journal[q] = run[q]
      /\ run[q] \in {"succeeded", "failed", "interrupted"} =>
           Len(attempts[q]) > 0 /\ Last(q).state = run[q]
      /\ run[q] = "cancelled" /\ Len(attempts[q]) > 0 => Last(q).state # "succeeded"
      /\ run[q] = "absent" => Len(attempts[q]) = 0
      /\ run[q] \in {"pending", "retry-scheduled"} /\ Len(attempts[q]) > 0 =>
           Last(q).state # "succeeded"
      /\ Len(attempts[q]) \in Nat
  BY DEF RowsInv, JournalAgrees, OutcomeInv, OutcomeAgrees, TypeOK
<1>1. KeepsAttempts(q) => Last(q)' = Last(q) /\ Len(attempts'[q]) = Len(attempts[q])
  BY DEF KeepsAttempts, Last
<1>2. run[q] \in HeldStates => Len(attempts[q]) > 0 /\ Last(q).state \in OpenStates
  BY DEF LeaseInv, LeaseIffHeld, OneOpenAttempt
<1>3. run[q] \in OpenStates => Last(q).state = run[q]
  BY DEF ApprovalInv, AttemptMatchesRun
<1>4. CASE Stays(q)
  BY <1>0, <1>1, <1>4 DEF Stays
<1>5. CASE IsRouted(q) \/ IsWithdrawn(q) \/ IsWoken(q) \/ IsPrepared(q)
  BY <1>0, <1>1, <1>5 DEF IsRouted, IsWithdrawn, IsWoken, IsPrepared, Becomes
<1>6. CASE IsClaimed(q) \/ IsStarted(q)
  BY <1>6 DEF IsClaimed, IsStarted, Becomes
<1>7. CASE IsCompleted(q)
  BY <1>0, <1>2, <1>7 DEF IsCompleted, Becomes, LastBecomes
<1>8. CASE IsDelayed(q) \/ IsRecovered(q)
  BY <1>0, <1>2, <1>8 DEF IsDelayed, IsRecovered, Recovered, Becomes, LastBecomes
<1>9. CASE IsPaused(q)
  BY <1>0, <1>1, <1>3, <1>9 DEF IsPaused
<1>10. CASE IsResumed(q)
  BY <1>0, <1>1, <1>2, <1>10 DEF IsResumed
<1> QED
  BY <1>4, <1>5, <1>6, <1>7, <1>8, <1>9, <1>10 DEF Moves

-----------------------------------------------------------------------------
(* Results *)

LEMMA StoreInit == Init => LeaseInv /\ ApprovalInv /\ RowsInv
  BY DEF Init, LeaseInv, LeaseIffHeld, OneOpenAttempt, HasLease, NoLease, HeldStates,
         ApprovalInv, AttemptMatchesRun, OnePendingApproval, NoApproval, PendingApprovals,
         RowsInv, JournalAgrees, OutcomeInv, OutcomeAgrees

\* Exactly the runs in a held state have a lease row, which is what lets
\* RecoverExpiredLeases rewrite the state of every leased run unconditionally.
THEOREM LeaseRows == Spec => []LeaseIffHeld
  BY LeaseSafety, PTL

\* The rows of a run, of its latest attempt, of its pending approval and of the
\* journal tell one story, although every handler writes several of them.
THEOREM RowsSafety == Spec => []RowsAgree
<1>1. ApprovalInv /\ RowsInv => RowsAgree
  BY DEF ApprovalInv, RowsInv, OutcomeInv, RowsAgree
<1> QED
  BY <1>1, StoreInit, TypeCorrect, LeaseStep, ApprovalStep, RowsStep, PTL DEF Spec

\* What is over stays over, whatever claim is used again after it.
THEOREM TerminalFinality == Spec => TerminalStable
<1> DEFINE Over(r) ==
      /\ run[r] \in TerminalStates =>
           run'[r] = run[r] /\ attempts'[r] = attempts[r] /\ lease'[r] = lease[r]
      /\ \A n \in 1..Len(attempts[r]) :
           /\ n <= Len(attempts'[r])
           /\ attempts[r][n].state \in TerminalStates => attempts'[r][n] = attempts[r][n]
<1>1. ASSUME TypeOK, LeaseInv, ApprovalInv, [Next]_vars, NEW q \in Run PROVE Over(q)
  <2> USE DEF HeldStates, TerminalStates, OpenStates
  <2>1. Moves(q)
    BY <1>1, RunMoves
  <2>2. Len(attempts[q]) \in Nat /\ (run[q] \notin HeldStates => ~ HasLease(q))
    BY <1>1 DEF TypeOK, LeaseInv, LeaseIffHeld
  <2>3. ASSUME KeepsAttempts(q) PROVE \A n \in 1..Len(attempts[q]) :
           n <= Len(attempts'[q]) /\ attempts'[q][n] = attempts[q][n]
    BY <2>2, <2>3 DEF KeepsAttempts
  <2>4. CASE \/ Stays(q) \/ IsRouted(q) \/ IsWithdrawn(q) \/ IsWoken(q)
             \/ IsPrepared(q) \/ IsPaused(q) \/ IsResumed(q)
    BY <2>2, <2>3, <2>4
       DEF Stays, IsRouted, IsWithdrawn, IsWoken, IsPrepared, IsPaused, IsResumed,
           KeepsAttempts, KeepsLease
  <2>5. CASE IsClaimed(q)
    BY <2>2, <2>5 DEF IsClaimed
  <2>6. CASE IsStarted(q) \/ IsCompleted(q) \/ IsDelayed(q) \/ IsRecovered(q)
    <3>1. run[q] \in HeldStates /\ \E s \in AttemptState : LastBecomes(q, s)
      BY <2>6 DEF IsStarted, IsCompleted, IsDelayed, IsRecovered, AttemptState
    <3> QED
      BY <2>2, <3>1 DEF LastBecomes, Last
  <2> QED
    BY <2>1, <2>4, <2>5, <2>6 DEF Moves
<1>2. TypeOK /\ LeaseInv /\ ApprovalInv /\ [Next]_vars => [\A r \in Run : Over(r)]_vars
  BY <1>1
<1> QED
  BY <1>2, StoreInit, TypeCorrect, LeaseStep, ApprovalStep, PTL DEF Spec, TerminalStable

-----------------------------------------------------------------------------
(* The store implements the life cycle of its runs. *)

LifeOf(r) == [phase   |-> PhaseOf(run[r]),
              holder  |-> lease[r].owner,
              started |-> HasLease(r) /\ Last(r).state = "running"]

\* One move of a run's rows is one step of its life, or none.
LEMMA LifeStep ==
  ASSUME TypeOK, LeaseInv, LeaseInv', ApprovalInv, NEW q \in Run, Moves(q)
  PROVE  \/ LifeOf(q)' = LifeOf(q)
         \/ /\ LifeOf(q) = Lifecycle!At("absent") /\ LifeOf(q)' = Lifecycle!At("queued")
         \/ /\ LifeOf(q) = Lifecycle!At("queued")
            /\ \E o \in Owner : LifeOf(q)' = Lifecycle!Held(o, FALSE)
         \/ \E o \in Owner : /\ LifeOf(q) = Lifecycle!Held(o, FALSE)
                             /\ LifeOf(q)' = Lifecycle!Held(o, TRUE)
         \/ /\ \E o \in Owner : LifeOf(q) = Lifecycle!Held(o, TRUE)
            /\ LifeOf(q)' = Lifecycle!At("delayed")
         \/ /\ LifeOf(q) = Lifecycle!At("delayed") /\ LifeOf(q)' = Lifecycle!At("queued")
         \/ /\ \E o \in Owner : LifeOf(q) = Lifecycle!Held(o, FALSE)
            /\ LifeOf(q)' = Lifecycle!At("queued")
         \/ LifeOf(q).phase = "held" /\ LifeOf(q)' = Lifecycle!At("done")
         \/ /\ LifeOf(q) \in {Lifecycle!At("queued"), Lifecycle!At("delayed")}
            /\ LifeOf(q)' = Lifecycle!At("done")
<1> USE DEF HeldStates, TerminalStates, OpenStates, Lifecycle!At, Lifecycle!Held
<1>1. /\ HasLease(q) <=> run[q] \in HeldStates
      /\ HasLease(q) => lease[q].owner \in Owner
      /\ ~ HasLease(q) => lease[q].owner = NoOwner
      /\ HasLease(q)' <=> run'[q] \in HeldStates
      /\ ~ HasLease(q)' => lease'[q].owner = NoOwner
      /\ run[q] \in RunState
  BY DEF LeaseInv, LeaseIffHeld, HasLease, TypeOK, LeaseRow
<1>2. /\ run[q] \in {"leased", "preparing"} => Last(q).state = "preparing"
      /\ run[q] = "running" => Last(q).state = "running"
      /\ run[q] \in HeldStates => Last(q).state \in OpenStates
  BY DEF ApprovalInv, AttemptMatchesRun, LeaseInv, LeaseIffHeld, OneOpenAttempt
\* The life of a run by its state, before and after the step.
<1>3. /\ run[q] = "absent" => LifeOf(q) = Lifecycle!At("absent")
      /\ run[q] = "pending" => LifeOf(q) = Lifecycle!At("queued")
      /\ run[q] = "retry-scheduled" => LifeOf(q) = Lifecycle!At("delayed")
      /\ run[q] \in {"leased", "preparing"} =>
           lease[q].owner \in Owner /\ LifeOf(q) = Lifecycle!Held(lease[q].owner, FALSE)
      /\ run[q] = "running" =>
           lease[q].owner \in Owner /\ LifeOf(q) = Lifecycle!Held(lease[q].owner, TRUE)
      /\ run[q] \in HeldStates => LifeOf(q).phase = "held"
  BY <1>1, <1>2 DEF LifeOf, PhaseOf
<1>4. /\ run'[q] = "pending" => LifeOf(q)' = Lifecycle!At("queued")
      /\ run'[q] = "retry-scheduled" => LifeOf(q)' = Lifecycle!At("delayed")
      /\ run'[q] \in TerminalStates => LifeOf(q)' = Lifecycle!At("done")
      /\ run'[q] \in HeldStates =>
           LifeOf(q)' = Lifecycle!Held(lease'[q].owner, Last(q)'.state = "running")
  BY <1>1 DEF LifeOf, PhaseOf
<1>5. KeepsAttempts(q) => Last(q)' = Last(q)
  BY DEF KeepsAttempts, Last
<1>6. CASE Stays(q)
  BY <1>5, <1>6 DEF Stays, LifeOf, HasLease
<1>7. CASE IsRouted(q) \/ IsWithdrawn(q) \/ IsWoken(q)
  BY <1>3, <1>4, <1>7 DEF IsRouted, IsWithdrawn, IsWoken, Becomes
<1>8. CASE IsClaimed(q)
  BY <1>3, <1>4, <1>8 DEF IsClaimed, Becomes
<1>9. CASE IsPrepared(q)
  BY <1>1, <1>2, <1>5, <1>9 DEF IsPrepared, Becomes, KeepsLease, LifeOf, PhaseOf, HasLease
<1>10. CASE IsStarted(q)
  BY <1>3, <1>4, <1>10 DEF IsStarted, Becomes, LastBecomes, KeepsLease
<1>11. CASE IsCompleted(q)
  BY <1>3, <1>4, <1>11 DEF IsCompleted, Becomes
<1>12. CASE IsDelayed(q)
  BY <1>3, <1>4, <1>12 DEF IsDelayed, Becomes
<1>13. CASE IsRecovered(q)
  BY <1>3, <1>4, <1>13 DEF IsRecovered, Becomes, Recovered
<1>14. CASE IsPaused(q) \/ IsResumed(q)
  BY <1>1, <1>2, <1>5, <1>14
     DEF IsPaused, IsResumed, KeepsLease, LifeOf, PhaseOf, HasLease
<1> QED
  BY <1>6, <1>7, <1>8, <1>9, <1>10, <1>11, <1>12, <1>13, <1>14 DEF Moves

\* However claims are reused and pauses interleave, a run has one holder, is
\* started at most once while it is held, goes back to the queue without a
\* retry timer only if it was not started, and is done for good.
THEOREM LifecycleRefinement == Spec => FollowsLifecycle
<1>1. Init => Lifecycle!Init
  <2>1. ASSUME Init, NEW q \in Run PROVE LifeOf(q) = Lifecycle!At("absent")
    <3>1. run[q] = "absent" /\ lease[q].owner = NoOwner /\ ~ HasLease(q)
      BY <2>1 DEF Init, NoLease, HasLease
    <3> QED
      BY <3>1 DEF LifeOf, PhaseOf, HeldStates, Lifecycle!At
  <2> QED
    BY <2>1 DEF Lifecycle!Init, LifeOf
<1>2. ASSUME TypeOK, LeaseInv, LeaseInv', ApprovalInv, [Next]_vars, NEW q \in Run
      PROVE  Lifecycle!Step(q) \/ LifeOf(q)' = LifeOf(q)
  <2>1. Moves(q)
    BY <1>2, RunMoves
  <2> QED
    BY <1>2, <2>1, LifeStep
       DEF Lifecycle!Step, Lifecycle!Submit, Lifecycle!Claim, Lifecycle!Start, Lifecycle!Delay,
           Lifecycle!Wake, Lifecycle!Return, Lifecycle!Finish, Lifecycle!Withdraw, LifeOf
<1>3. TypeOK /\ LeaseInv /\ LeaseInv' /\ ApprovalInv /\ [Next]_vars => Lifecycle!Next
  BY <1>2 DEF Lifecycle!Next, LifeOf
<1> QED
  BY <1>1, <1>3, StoreInit, TypeCorrect, LeaseStep, ApprovalStep, PTL
     DEF Spec, FollowsLifecycle, Lifecycle!Spec

-----------------------------------------------------------------------------
(* The live leases of a workspace are the holders of its lock. *)

\* If transactions take effect at the instant they are given, a claim acquires
\* the lock of its workspace and every other step at most releases some.
THEOREM LockRefinement == MaxDelay = 0 /\ Spec => LeasesAreLocks
<1> DEFINE holding == {r \in Run : Live(r, 0)}
<1>1. Init => Lock!Init
  BY DEF Init, Lock!Init, Live, HasLease, NoLease
<1>2. ASSUME MaxDelay = 0, TypeOK, [Next]_vars PROVE Lock!Next
  <2>1. CASE \A q \in Run : Live(q, 0)' => Live(q, 0)
    <3>1. holding \ holding' \in SUBSET holding /\ holding' = holding \ (holding \ holding')
      BY <2>1
    <3> QED
      BY <3>1 DEF Lock!Next, Lock!Release
  <2>2. ASSUME NEW r \in Run, NEW o \in Owner, Claimable(r, o, 0), ClaimRun(r, o, 0)
        PROVE  Lock!Acquire(r)
    <3>1. ~ Live(r, 0)
      BY <2>2 DEF ClaimRun, Live
    <3>2. \A s \in Run : Live(s, 0) => ~ Lock!Conflict(r, s)
      BY <2>2 DEF Claimable, WorkspaceLeaseAvailable, WriteMode, Lock!Conflict
    <3>3. Live(r, 0)'
      BY <1>2, <2>2, RunStoreAssumption DEF ClaimRun, Live, HasLease, TypeOK
    <3>4. \A s \in Run : s # r => (Live(s, 0)' <=> Live(s, 0))
      BY <1>2, <2>2 DEF ClaimRun, Live, HasLease, TypeOK
    <3> QED
      BY <3>1, <3>2, <3>3, <3>4 DEF Lock!Acquire
  <2> QED
    BY <1>2, <2>1, <2>2, LiveStep DEF Lock!Next
<1>3. CASE MaxDelay = 0
  <2>1. TypeOK /\ [Next]_vars => Lock!Next
    BY <1>2, <1>3
  <2> QED
    BY <1>1, <2>1, TypeCorrect, PTL DEF Spec, LeasesAreLocks, Lock!Spec
<1> QED
  BY <1>3
=============================================================================
