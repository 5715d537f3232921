--------------------------- MODULE RunStoreProofs ---------------------------
(***************************************************************************)
(* Proofs about RunStore, for every set of runs, owners and approvals and  *)
(* every lease duration, delay and bound.                                  *)
(***************************************************************************)
EXTENDS RunStore, TLAPS

-----------------------------------------------------------------------------
(* What the three ways of writing run_attempts do to the rows. *)

\* SetAttempt changes the state of one row and nothing else.
LEMMA SetAttemptRows ==
  ASSUME TypeOK,
         NEW r \in Run, NEW n \in 1..Len(attempts[r]), NEW s \in AttemptState,
         SetAttempt(r, n, s)
  PROVE  /\ attempts' \in [Run -> Seq(AttemptRow)]
         /\ \A q \in Run :
              /\ Len(attempts'[q]) = Len(attempts[q])
              /\ \A m \in 1..Len(attempts[q]) :
                   /\ attempts'[q][m].worker = attempts[q][m].worker
                   /\ attempts'[q][m].state =
                        IF q = r /\ m = n THEN s ELSE attempts[q][m].state
<1> DEFINE rows == [attempts[r] EXCEPT ![n].state = s]
<1>1. attempts[r] \in Seq(AttemptRow) /\ attempts[r][n] \in AttemptRow
  BY DEF TypeOK
<1>2. /\ rows \in Seq(AttemptRow) /\ Len(rows) = Len(attempts[r])
      /\ \A m \in 1..Len(rows) : rows[m] = IF m = n THEN [attempts[r][n] EXCEPT !.state = s]
                                                    ELSE attempts[r][m]
  BY <1>1 DEF AttemptRow
<1>3. attempts' = [attempts EXCEPT ![r] = rows]
  BY DEF SetAttempt
<1> HIDE DEF rows
<1>4. attempts' \in [Run -> Seq(AttemptRow)]
  BY <1>2, <1>3 DEF TypeOK
<1>5. \A q \in Run : q # r => attempts'[q] = attempts[q]
  BY <1>3 DEF TypeOK
<1>6. attempts'[r] = rows
  BY <1>3 DEF TypeOK
<1>7. ASSUME NEW m \in 1..Len(attempts[r])
      PROVE  /\ attempts'[r][m].worker = attempts[r][m].worker
             /\ attempts'[r][m].state = IF m = n THEN s ELSE attempts[r][m].state
  <2>1. attempts'[r][m] = IF m = n THEN [attempts[r][n] EXCEPT !.state = s] ELSE attempts[r][m]
    BY <1>2, <1>6
  <2> QED
    BY <1>1, <2>1 DEF AttemptRow
<1>8. Len(attempts'[r]) = Len(attempts[r])
  BY <1>2, <1>6
<1> QED
  BY <1>4, <1>5, <1>7, <1>8

\* ClaimRun adds one row at the end.
LEMMA AppendRows ==
  ASSUME TypeOK, NEW r \in Run, NEW o \in Owner,
         attempts' = [attempts EXCEPT ![r] = Append(@, [worker |-> o, state |-> "preparing"])]
  PROVE  /\ attempts' \in [Run -> Seq(AttemptRow)]
         /\ \A q \in Run : q # r => attempts'[q] = attempts[q]
         /\ Len(attempts'[r]) = Len(attempts[r]) + 1
         /\ \A m \in 1..Len(attempts[r]) : attempts'[r][m] = attempts[r][m]
         /\ attempts'[r][Len(attempts'[r])] = [worker |-> o, state |-> "preparing"]
<1>1. attempts[r] \in Seq(AttemptRow) /\ [worker |-> o, state |-> "preparing"] \in AttemptRow
  BY DEF TypeOK, AttemptRow, AttemptState, OpenStates
<1> QED
  BY <1>1 DEF TypeOK

\* RecoverExpiredLeases closes the open rows of the recovered runs.
LEMMA RecoverRows ==
  ASSUME TypeOK, NEW d \in Nat, RecoverExpiredLeases(d)
  PROVE  /\ attempts' \in [Run -> Seq(AttemptRow)]
         /\ \A q \in Run :
              /\ Len(attempts'[q]) = Len(attempts[q])
              /\ \A m \in 1..Len(attempts[q]) :
                   /\ attempts'[q][m].worker = attempts[q][m].worker
                   /\ attempts'[q][m].state =
                        IF /\ Expired(q, d)
                           /\ attempts[q][m].state \in OpenStates
                        THEN "interrupted" ELSE attempts[q][m].state
<1> DEFINE rows(q) == [n \in DOMAIN attempts[q] |-> Interrupt(attempts[q][n])]
<1>1. attempts' = [q \in Run |-> IF Expired(q, d) THEN rows(q) ELSE attempts[q]]
  BY DEF RecoverExpiredLeases
<1>2. ASSUME NEW q \in Run
      PROVE  /\ rows(q) \in Seq(AttemptRow)
             /\ Len(rows(q)) = Len(attempts[q])
             /\ \A m \in 1..Len(attempts[q]) :
                  /\ rows(q)[m].worker = attempts[q][m].worker
                  /\ rows(q)[m].state = IF attempts[q][m].state \in OpenStates
                                          THEN "interrupted" ELSE attempts[q][m].state
  <2>1. attempts[q] \in Seq(AttemptRow) /\ DOMAIN attempts[q] = 1..Len(attempts[q])
    BY DEF TypeOK
  <2>2. ASSUME NEW a \in AttemptRow
        PROVE  /\ Interrupt(a) \in AttemptRow
               /\ Interrupt(a).worker = a.worker
               /\ Interrupt(a).state = IF a.state \in OpenStates THEN "interrupted" ELSE a.state
    BY DEF Interrupt, AttemptRow, AttemptState, TerminalStates
  <2>3. \A m \in 1..Len(attempts[q]) : attempts[q][m] \in AttemptRow
    BY <2>1
  <2> QED
    BY <2>1, <2>2, <2>3
<1> HIDE DEF rows
<1> QED
  BY <1>1, <1>2 DEF TypeOK

-----------------------------------------------------------------------------
(* Type correctness *)

LEMMA DelaysInNat == Delays \subseteq Nat
  BY RunStoreAssumption DEF Delays

LEMMA ClaimsTyped ==
  ASSUME TypeOK, NEW c \in Claims
  PROVE  /\ c[1] \in Run /\ c[2] \in Nat /\ c[2] \in 1..Len(attempts[c[1]])
         /\ ClaimOwner(c[1], c[2]) \in Owner
<1>1. c[1] \in Run /\ c[2] \in 1..MaxAttempts /\ c[2] <= Len(attempts[c[1]])
  BY DEF Claims
<1>2. attempts[c[1]] \in Seq(AttemptRow)
  BY <1>1 DEF TypeOK
<1>3. c[2] \in 1..Len(attempts[c[1]])
  BY <1>1, <1>2, RunStoreAssumption
<1>4. attempts[c[1]][c[2]] \in AttemptRow
  BY <1>2, <1>3
<1>5. ClaimOwner(c[1], c[2]) \in Owner
  BY <1>4 DEF ClaimOwner, AttemptRow
<1>6. c[2] \in Nat
  BY <1>1, RunStoreAssumption
<1> QED
  BY <1>1, <1>3, <1>5, <1>6

LEMMA SoonerTyped == \A l \in Int : Sooner(l) \in Int /\ Sooner(l) <= l
  BY RunStoreAssumption DEF Sooner

LEMMA LeaseRowTyped ==
  /\ NoLease \in LeaseRow
  /\ \A l \in LeaseRow, x \in Int : /\ [l EXCEPT !.left = x] \in LeaseRow
                                    /\ [l EXCEPT !.left = x].owner = l.owner
                                    /\ [l EXCEPT !.left = x].left = x
<1>1. NoLease \in LeaseRow
  <2>1. 0 \in Int
    OBVIOUS
  <2> QED
    BY <2>1 DEF NoLease, LeaseRow
<1>2. ASSUME NEW l \in LeaseRow, NEW x \in Int
      PROVE  /\ [l EXCEPT !.left = x] \in LeaseRow
             /\ [l EXCEPT !.left = x].owner = l.owner
             /\ [l EXCEPT !.left = x].left = x
  BY DEF LeaseRow
<1> QED
  BY <1>1, <1>2

LEMMA TimerRowTyped ==
  ASSUME NEW u \in TimerRow, NEW x \in Int
  PROVE  [u EXCEPT !.left = x] \in TimerRow
  BY DEF TimerRow

LEMMA TypeStep == TypeOK /\ [Next]_vars => TypeOK'
<1> SUFFICES ASSUME TypeOK, [Next]_vars PROVE TypeOK'
  OBVIOUS
<1> USE DEF RunState, HeldStates, TerminalStates, OpenStates
<1>1. CASE Tick
  <2>1. \A r \in Run : AgeLease(lease[r]) \in LeaseRow
    <3>1. ASSUME NEW r \in Run PROVE AgeLease(lease[r]) \in LeaseRow
      <4>1. lease[r] \in LeaseRow
        BY DEF TypeOK
      <4>2. lease[r].left \in Int
        BY <4>1 DEF LeaseRow
      <4> QED
        BY <4>1, <4>2, SoonerTyped, LeaseRowTyped DEF AgeLease
    <3> QED
      BY <3>1
  <2>2. \A u \in timers : AgeTimer(u) \in TimerRow
    <3>1. ASSUME NEW u \in timers PROVE AgeTimer(u) \in TimerRow
      <4>1. u \in TimerRow
        BY DEF TypeOK
      <4>2. u.left \in Int
        BY <4>1 DEF TimerRow
      <4> QED
        BY <4>1, <4>2, SoonerTyped, TimerRowTyped DEF AgeTimer
    <3> QED
      BY <3>1
  <2>3. lease' \in [Run -> LeaseRow]
    BY <1>1, <2>1 DEF Tick
  <2>4. timers' \subseteq TimerRow
    BY <1>1, <2>2 DEF Tick
  <2>5. UNCHANGED <<run, attempts, approvals, journal>>
    BY <1>1 DEF Tick
  <2> QED
    BY <2>3, <2>4, <2>5 DEF TypeOK
<1>2. ASSUME NEW r \in Run, RouteRun(r) PROVE TypeOK'
  BY <1>2 DEF RouteRun, SetRun, TypeOK
<1>3. ASSUME NEW r \in Run, CancelPendingRun(r) PROVE TypeOK'
  <2>1. timers' \subseteq TimerRow
    <3>1. ASSUME NEW u \in TimerRow PROVE CancelTimer(u, r) \in TimerRow
      BY DEF CancelTimer, TimerRow
    <3>2. timers \subseteq TimerRow /\ timers' = {CancelTimer(u, r) : u \in timers}
      BY <1>3 DEF CancelPendingRun, TypeOK
    <3> QED
      BY <3>1, <3>2
  <2> QED
    BY <1>3, <2>1 DEF CancelPendingRun, SetRun, TypeOK
<1>4. ASSUME NEW o \in Owner, NEW d \in Delays, ClaimNext(o, d) PROVE TypeOK'
  <2>1. PICK r \in Run : ClaimRun(r, o, d)
    BY <1>4 DEF ClaimNext
  <2>2. attempts' \in [Run -> Seq(AttemptRow)]
    BY <2>1, AppendRows DEF ClaimRun
  <2>3. d \in Nat
    BY DelaysInNat
  <2> QED
    BY <1>4, <2>1, <2>2, <2>3, RunStoreAssumption
       DEF ClaimNext, ClaimRun, SetRun, TypeOK, LeaseRow
<1>5. ASSUME NEW c \in Claims, NEW d \in Delays, ClaimStep(c[1], c[2], d) PROVE TypeOK'
  <2> DEFINE r == c[1]
             n == c[2]
  <2>1. r \in Run /\ n \in Nat /\ n \in 1..Len(attempts[r]) /\ d \in Nat
    BY ClaimsTyped, DelaysInNat
  <2> HIDE DEF r, n
  <2>2. CASE PrepareClaim(r, n, d)
    BY <2>1, <2>2 DEF PrepareClaim, SetRun, TypeOK
  <2>3. CASE StartAttempt(r, n, d)
    <3>1. attempts' \in [Run -> Seq(AttemptRow)]
      BY <2>1, <2>3, SetAttemptRows DEF StartAttempt, AttemptState
    <3> QED
      BY <2>1, <2>3, <3>1 DEF StartAttempt, SetRun, TypeOK
  <2>4. CASE HeartbeatLease(r, n, d)
    <3>1. lease[r] \in LeaseRow
      BY <2>1 DEF TypeOK
    <3>2. [lease[r] EXCEPT !.left = LeaseTTL - d] \in LeaseRow
      <4>1. LeaseTTL - d \in Int
        BY <2>1, RunStoreAssumption
      <4> QED
        BY <3>1, <4>1, LeaseRowTyped
    <3>3. lease' = [lease EXCEPT ![r] = [lease[r] EXCEPT !.left = LeaseTTL - d]]
      BY <2>4 DEF HeartbeatLease
    <3>4. lease' \in [Run -> LeaseRow]
      BY <2>1, <3>2, <3>3 DEF TypeOK
    <3> QED
      BY <2>4, <3>4 DEF HeartbeatLease, TypeOK
  <2>5. ASSUME NEW s \in TerminalStates, CompleteClaim(r, n, s, d) PROVE TypeOK'
    <3>1. attempts' \in [Run -> Seq(AttemptRow)]
      BY <2>1, <2>5, SetAttemptRows DEF CompleteClaim, AttemptState
    <3> QED
      BY <2>1, <2>5, <3>1, LeaseRowTyped DEF CompleteClaim, SetRun, TypeOK
  <2>6. ASSUME NEW delay \in RetryDelays, ScheduleClaimRetry(r, n, delay, d) PROVE TypeOK'
    <3>1. attempts' \in [Run -> Seq(AttemptRow)]
      BY <2>1, <2>6, SetAttemptRows DEF ScheduleClaimRetry, AttemptState
    <3>2. timers' \subseteq TimerRow
      BY <2>1, <2>6, RunStoreAssumption DEF ScheduleClaimRetry, TypeOK, TimerRow
    <3> QED
      BY <2>1, <2>6, <3>1, <3>2, LeaseRowTyped DEF ScheduleClaimRetry, SetRun, TypeOK
  <2>7. ASSUME NEW a \in ApprovalId, NEW scope \in Scope, RequestApproval(r, n, a, scope, d)
        PROVE  TypeOK'
    BY <2>1, <2>7 DEF RequestApproval, TypeOK, ApprovalRow
  <2> QED
    BY <1>5, <2>2, <2>3, <2>4, <2>5, <2>6, <2>7 DEF ClaimStep, r, n
<1>6. ASSUME NEW d \in Delays, RecoverExpiredLeases(d) PROVE TypeOK'
  <2>1. attempts' \in [Run -> Seq(AttemptRow)]
    BY <1>6, RecoverRows, DelaysInNat
  <2> QED
    BY <1>6, <2>1, LeaseRowTyped DEF RecoverExpiredLeases, Recovered, TypeOK
<1>7. ASSUME NEW d \in Delays, ActivateDueRetries(d) PROVE TypeOK'
  <2>1. \A u \in timers : u \in TimerRow /\ CloseTimer(u) \in TimerRow
    BY DEF TypeOK, TimerRow, CloseTimer
  <2>2. timers' \subseteq TimerRow
    BY <1>7, <2>1 DEF ActivateDueRetries
  <2> QED
    BY <1>7, <2>2 DEF ActivateDueRetries, TypeOK
<1>8. ASSUME NEW a \in ApprovalId, NEW v \in {"approved", "denied"}, DecideApproval(a, v)
      PROVE  TypeOK'
  <2>1. approvals[a] \in ApprovalRow
    BY <1>8 DEF DecideApproval, TypeOK, NoApproval
  <2>2. [approvals[a] EXCEPT !.state = v] \in ApprovalRow
    BY <2>1 DEF ApprovalRow
  <2>3. approvals' = [approvals EXCEPT ![a] = [approvals[a] EXCEPT !.state = v]]
    BY <1>8 DEF DecideApproval
  <2>4. approvals' \in [ApprovalId -> ApprovalRow \cup {NoApproval}]
    BY <2>2, <2>3 DEF TypeOK
  <2> QED
    BY <1>8, <2>1, <2>4 DEF DecideApproval, TypeOK, ApprovalRow
<1>9. ASSUME NEW a \in ApprovalId, CancelApproval(a) PROVE TypeOK'
  <2>1. approvals[a] \in ApprovalRow
    BY <1>9 DEF CancelApproval, TypeOK, NoApproval
  <2>2. [approvals[a] EXCEPT !.state = "cancelled"] \in ApprovalRow
    BY <2>1 DEF ApprovalRow
  <2>3. approvals' = [approvals EXCEPT ![a] = [approvals[a] EXCEPT !.state = "cancelled"]]
    BY <1>9 DEF CancelApproval
  <2>4. approvals' \in [ApprovalId -> ApprovalRow \cup {NoApproval}]
    BY <2>2, <2>3 DEF TypeOK
  <2> QED
    BY <1>9, <2>4 DEF CancelApproval, TypeOK
<1>10. CASE UNCHANGED vars
  BY <1>10 DEF vars, TypeOK
<1> QED
  BY <1>1, <1>2, <1>3, <1>4, <1>5, <1>6, <1>7, <1>8, <1>9, <1>10 DEF Next

\* The rows of the store keep their types in every step of every transaction.
THEOREM TypeCorrect == Spec => []TypeOK
<1>1. Init => TypeOK
  BY RunStoreAssumption
     DEF Init, TypeOK, RunState, LeaseRow, NoLease
<1> QED
  BY <1>1, TypeStep, PTL DEF Spec

-----------------------------------------------------------------------------
(* The steps of the store, with the types of their parameters. *)

LEMMA StepCases ==
  ASSUME TypeOK, [Next]_vars
  PROVE  \/ UNCHANGED vars
         \/ Tick
         \/ \E r \in Run : RouteRun(r)
         \/ \E r \in Run : CancelPendingRun(r)
         \/ \E r \in Run, o \in Owner, d \in Nat :
              /\ d <= MaxDelay
              /\ Claimable(r, o, d) /\ ClaimRun(r, o, d)
              /\ UNCHANGED <<timers, approvals>>
         \/ \E r \in Run, d \in Nat : \E n \in 1..Len(attempts[r]) :
              /\ d <= MaxDelay
              /\ ClaimOwner(r, n) \in Owner
              /\ ClaimStep(r, n, d)
         \/ \E d \in Nat : RecoverExpiredLeases(d)
         \/ \E d \in Nat : ActivateDueRetries(d)
         \/ \E a \in ApprovalId, v \in {"approved", "denied"} : DecideApproval(a, v)
         \/ \E a \in ApprovalId : CancelApproval(a)
<1>1. \A d \in Delays : d \in Nat /\ d <= MaxDelay
  BY RunStoreAssumption DEF Delays
<1>2. ASSUME NEW o \in Owner, NEW d \in Delays, ClaimNext(o, d)
      PROVE  \E r \in Run : /\ Claimable(r, o, d) /\ ClaimRun(r, o, d)
                            /\ UNCHANGED <<timers, approvals>>
  BY <1>2 DEF ClaimNext
<1>3. ASSUME NEW c \in Claims, NEW d \in Delays, ClaimStep(c[1], c[2], d)
      PROVE  \E r \in Run : \E n \in 1..Len(attempts[r]) :
               ClaimOwner(r, n) \in Owner /\ ClaimStep(r, n, d)
  BY <1>3, ClaimsTyped
<1> QED
  BY <1>1, <1>2, <1>3 DEF Next

-----------------------------------------------------------------------------
(* Leases and attempts: a held run has one lease row and one open attempt,  *)
(* its latest, both of the same owner.                                      *)

LeaseInv == LeaseIffHeld /\ OneOpenAttempt

\* OneOpenAttempt for one run, and a step that leaves that run's lease and the
\* contents of its rows alone.
OpenAttempt(q) ==
  /\ \A n \in 1..Len(attempts[q]) :
       attempts[q][n].state \in OpenStates => n = Len(attempts[q]) /\ HasLease(q)
  /\ HasLease(q) => /\ Len(attempts[q]) > 0
                    /\ Last(q).state \in OpenStates
                    /\ Last(q).worker = lease[q].owner

LEMMA OpenAttemptKept ==
  ASSUME NEW q \in Run, OpenAttempt(q),
         lease'[q] = lease[q], Len(attempts[q]) \in Nat, Len(attempts'[q]) = Len(attempts[q]),
         \A m \in 1..Len(attempts[q]) :
           /\ attempts'[q][m].worker = attempts[q][m].worker
           /\ attempts'[q][m].state = attempts[q][m].state
  PROVE  OpenAttempt(q)'
<1>1. HasLease(q)' <=> HasLease(q)
  BY DEF HasLease
<1>2. Len(attempts[q]) > 0 => /\ Last(q)'.worker = Last(q).worker
                              /\ Last(q)'.state = Last(q).state
  <2>1. Len(attempts[q]) > 0 => Len(attempts[q]) \in 1..Len(attempts[q])
    OBVIOUS
  <2> QED
    BY <2>1 DEF Last
<1> QED
  BY <1>1, <1>2 DEF OpenAttempt

LEMMA LeaseStep == TypeOK /\ LeaseInv /\ [Next]_vars => LeaseInv'
<1> SUFFICES ASSUME TypeOK, LeaseInv, [Next]_vars PROVE LeaseInv'
  OBVIOUS
<1> USE DEF LeaseInv, LeaseIffHeld, OneOpenAttempt, HasLease, Last,
            HeldStates, TerminalStates, OpenStates
<1>0. /\ \A q \in Run : attempts[q] \in Seq(AttemptRow) /\ Len(attempts[q]) \in Nat
      /\ \A q \in Run : lease[q] \in LeaseRow
      /\ run \in [Run -> RunState]
  BY DEF TypeOK
<1>1. CASE UNCHANGED vars
  BY <1>1 DEF vars
<1>2. CASE Tick
  <2>1. \A q \in Run : lease'[q].owner = lease[q].owner
    BY <1>0, <1>2 DEF Tick, AgeLease, LeaseRow
  <2> QED
    BY <1>2, <2>1 DEF Tick
<1>3. ASSUME NEW r \in Run, RouteRun(r) PROVE LeaseInv'
  BY <1>0, <1>3 DEF RouteRun, SetRun
<1>4. ASSUME NEW r \in Run, CancelPendingRun(r) PROVE LeaseInv'
  BY <1>0, <1>4 DEF CancelPendingRun, SetRun
<1>5. ASSUME NEW r \in Run, NEW o \in Owner, NEW d \in Nat, ClaimRun(r, o, d)
      PROVE  LeaseInv'
  <2>1. /\ \A q \in Run : q # r => attempts'[q] = attempts[q]
        /\ Len(attempts'[r]) = Len(attempts[r]) + 1
        /\ \A m \in 1..Len(attempts[r]) : attempts'[r][m] = attempts[r][m]
        /\ attempts'[r][Len(attempts'[r])] = [worker |-> o, state |-> "preparing"]
    BY <1>5, AppendRows DEF ClaimRun
  <2>2. /\ \A q \in Run : q # r => lease'[q] = lease[q] /\ run'[q] = run[q]
        /\ lease'[r] = [owner |-> o, left |-> LeaseTTL - d] /\ run'[r] = "leased"
        /\ ~ HasLease(r) /\ o # NoOwner
    BY <1>0, <1>5, RunStoreAssumption DEF ClaimRun, SetRun, TypeOK
  <2>3. \A m \in 1..Len(attempts[r]) : attempts[r][m].state \notin OpenStates
    BY <2>2
  <2>4. LeaseIffHeld'
    BY <2>2
  <2>5. ASSUME NEW q \in Run, q = r
        PROVE  /\ \A n \in 1..Len(attempts'[q]) :
                    attempts'[q][n].state \in OpenStates => n = Len(attempts'[q]) /\ HasLease(q)'
               /\ Len(attempts'[q]) > 0
               /\ Last(q)'.state \in OpenStates
               /\ Last(q)'.worker = lease'[q].owner
    <3>1. Len(attempts'[r]) \in Nat /\ Len(attempts'[r]) > 0
      BY <1>0, <2>1
    <3>2. \A m \in 1..Len(attempts'[r]) :
             attempts'[r][m].state \in OpenStates => m = Len(attempts'[r])
      <4>1. ASSUME NEW m \in 1..Len(attempts'[r]), m # Len(attempts'[r])
            PROVE  m \in 1..Len(attempts[r])
        BY <1>0, <2>1, <4>1
      <4> QED
        BY <2>1, <2>3, <4>1
    <3>3. HasLease(r)' /\ lease'[r].owner = o
      BY <2>2
    <3>4. Last(r)'.state = "preparing" /\ Last(r)'.worker = o
      BY <2>1
    <3> QED
      BY <2>5, <3>1, <3>2, <3>3, <3>4
  <2> QED
    BY <2>1, <2>2, <2>4, <2>5
<1>6. ASSUME NEW r \in Run, NEW n \in 1..Len(attempts[r]), NEW d \in Nat,
             ClaimOwner(r, n) \in Owner, ClaimStep(r, n, d)
      PROVE  LeaseInv'
  <2>0. ASSUME VerifyLease(r, n, d) PROVE HasLease(r) /\ lease[r].owner # NoOwner
    BY <1>6, <2>0, RunStoreAssumption DEF VerifyLease
  <2>1. CASE PrepareClaim(r, n, d)
    BY <1>0, <2>0, <2>1 DEF PrepareClaim, SetRun
  <2>2. CASE StartAttempt(r, n, d)
    <3>1. \A q \in Run :
             /\ Len(attempts'[q]) = Len(attempts[q])
             /\ \A m \in 1..Len(attempts[q]) :
                  /\ attempts'[q][m].worker = attempts[q][m].worker
                  /\ attempts'[q][m].state =
                       IF q = r /\ m = n THEN "running" ELSE attempts[q][m].state
      BY <2>2, SetAttemptRows DEF StartAttempt, AttemptState
    <3>2. LeaseIffHeld'
      BY <1>0, <2>0, <2>2 DEF StartAttempt, SetRun
    <3>3. lease' = lease /\ attempts[r][n].state \in OpenStates
      BY <2>2 DEF StartAttempt
    <3>4. \A q \in Run : \A m \in 1..Len(attempts[q]) :
             attempts'[q][m].state \in OpenStates <=> attempts[q][m].state \in OpenStates
      BY <3>1, <3>3
    <3>5. \A q \in Run : Len(attempts[q]) > 0 => Len(attempts[q]) \in 1..Len(attempts[q])
      BY <1>0
    <3>6. OneOpenAttempt'
      BY <3>1, <3>3, <3>4, <3>5
    <3> QED
      BY <3>2, <3>6
  <2>3. CASE HeartbeatLease(r, n, d)
    <3>1. \A q \in Run : lease'[q].owner = lease[q].owner
      BY <1>0, <2>3 DEF HeartbeatLease, LeaseRow, TypeOK
    <3> QED
      BY <2>3, <3>1 DEF HeartbeatLease
  <2>4. ASSUME NEW s \in TerminalStates,
               CompleteClaim(r, n, s, d) \/ \E delay \in RetryDelays : ScheduleClaimRetry(r, n, delay, d)
        PROVE  LeaseInv'
    <3>1. PICK v \in TerminalStates, w \in TerminalStates \cup {"retry-scheduled"} :
             /\ SetAttempt(r, n, v)
             /\ SetRun(r, w)
             /\ lease' = [lease EXCEPT ![r] = NoLease]
             /\ attempts[r][n].state \in OpenStates
             /\ VerifyLease(r, n, d)
      BY <2>4 DEF CompleteClaim, ScheduleClaimRetry
    <3>2. \A q \in Run :
             /\ Len(attempts'[q]) = Len(attempts[q])
             /\ \A m \in 1..Len(attempts[q]) :
                  /\ attempts'[q][m].worker = attempts[q][m].worker
                  /\ attempts'[q][m].state =
                       IF q = r /\ m = n THEN v ELSE attempts[q][m].state
      BY <3>1, SetAttemptRows DEF AttemptState
    <3>3. n = Len(attempts[r])
      BY <3>1
    <3>4. /\ lease'[r] = NoLease /\ run'[r] = w
          /\ \A q \in Run : q # r => lease'[q] = lease[q] /\ run'[q] = run[q]
      BY <1>0, <3>1 DEF SetRun, TypeOK
    <3>5. ~ HasLease(r)'
      BY <3>4 DEF NoLease
    <3>6. LeaseIffHeld'
      BY <3>4, <3>5
    <3>7. \A m \in 1..Len(attempts'[r]) : attempts'[r][m].state \notin OpenStates
      BY <3>2, <3>3
    <3>8. \A q \in Run : Len(attempts[q]) > 0 => Len(attempts[q]) \in 1..Len(attempts[q])
      BY <1>0
    <3>9. ASSUME NEW q \in Run, q # r PROVE OpenAttempt(q)'
      <4>1. OpenAttempt(q)
        BY DEF OpenAttempt
      <4> QED
        BY <1>0, <3>2, <3>4, <3>9, <4>1, OpenAttemptKept
    <3>10. OneOpenAttempt'
      BY <3>5, <3>7, <3>9 DEF OpenAttempt
    <3> QED
      BY <3>6, <3>10
  <2>5. ASSUME NEW a \in ApprovalId, NEW scope \in Scope, RequestApproval(r, n, a, scope, d)
        PROVE  LeaseInv'
    BY <1>0, <2>5 DEF RequestApproval
  <2> QED
    BY <1>6, <2>1, <2>2, <2>3, <2>4, <2>5 DEF ClaimStep
<1>7. ASSUME NEW d \in Nat, RecoverExpiredLeases(d) PROVE LeaseInv'
  <2>1. \A q \in Run :
           /\ Len(attempts'[q]) = Len(attempts[q])
           /\ \A m \in 1..Len(attempts[q]) :
                /\ attempts'[q][m].worker = attempts[q][m].worker
                /\ attempts'[q][m].state =
                     IF Expired(q, d) /\ attempts[q][m].state \in OpenStates
                     THEN "interrupted" ELSE attempts[q][m].state
    BY <1>7, RecoverRows
  <2>2. \A q \in Run : IF Expired(q, d)
                       THEN lease'[q] = NoLease /\ run'[q] \in {"pending", "interrupted"}
                       ELSE lease'[q] = lease[q] /\ run'[q] = run[q]
    BY <1>7 DEF RecoverExpiredLeases, Recovered
  <2>3. \A q \in Run : Expired(q, d) => ~ HasLease(q)'
    BY <2>2 DEF NoLease
  <2>4. LeaseIffHeld'
    BY <2>2, <2>3
  <2>5. ASSUME NEW q \in Run, ~ Expired(q, d) PROVE OpenAttempt(q)'
    <3>1. OpenAttempt(q)
      BY DEF OpenAttempt
    <3> QED
      BY <1>0, <2>1, <2>2, <2>5, <3>1, OpenAttemptKept
  <2>6. ASSUME NEW q \in Run, Expired(q, d) PROVE OpenAttempt(q)'
    <3>1. \A m \in 1..Len(attempts'[q]) : attempts'[q][m].state \notin OpenStates
      BY <2>1, <2>6
    <3> QED
      BY <2>3, <2>6, <3>1 DEF OpenAttempt
  <2>7. OneOpenAttempt'
    BY <2>5, <2>6 DEF OpenAttempt
  <2> QED
    BY <2>4, <2>7
<1>8. ASSUME NEW d \in Nat, ActivateDueRetries(d) PROVE LeaseInv'
  BY <1>8 DEF ActivateDueRetries, Activated
<1>9. ASSUME NEW a \in ApprovalId, NEW v \in {"approved", "denied"}, DecideApproval(a, v)
      PROVE  LeaseInv'
  <2>1. approvals[a] \in ApprovalRow
    BY <1>9 DEF DecideApproval, TypeOK, NoApproval
  <2> QED
    BY <1>0, <1>9, <2>1 DEF DecideApproval, ApprovalRow
<1>10. ASSUME NEW a \in ApprovalId, CancelApproval(a) PROVE LeaseInv'
  BY <1>10 DEF CancelApproval
<1> QED
  BY <1>1, <1>2, <1>3, <1>4, <1>5, <1>6, <1>7, <1>8, <1>9, <1>10, StepCases

-----------------------------------------------------------------------------
(* Approvals: a pending approval holds its run in waiting-for-approval until *)
(* it is decided or the run ends, and it resumes what it interrupted.        *)

ApprovalInv == AttemptMatchesRun /\ OnePendingApproval

LEMMA ApprovalStep ==
  TypeOK /\ LeaseInv /\ ApprovalInv /\ [Next]_vars => ApprovalInv'
<1> SUFFICES ASSUME TypeOK, LeaseInv, ApprovalInv, [Next]_vars PROVE ApprovalInv'
  OBVIOUS
<1> USE DEF ApprovalInv, AttemptMatchesRun, OnePendingApproval, PendingApprovals,
            HeldStates, TerminalStates, OpenStates
<1>0. /\ \A q \in Run : attempts[q] \in Seq(AttemptRow) /\ Len(attempts[q]) \in Nat
      /\ run \in [Run -> RunState]
      /\ approvals \in [ApprovalId -> ApprovalRow \cup {NoApproval}]
      /\ \A a \in ApprovalId : approvals[a].state = "pending" =>
           approvals[a] \in ApprovalRow /\ approvals[a].run \in Run
  BY DEF TypeOK, NoApproval, ApprovalRow
<1>1. CASE UNCHANGED vars
  BY <1>1 DEF vars, Last
<1>2. CASE Tick
  BY <1>2 DEF Tick, Last
<1>3. ASSUME NEW r \in Run, RouteRun(r) \/ CancelPendingRun(r) PROVE ApprovalInv'
  BY <1>0, <1>3 DEF RouteRun, CancelPendingRun, SetRun, Last
<1>4. ASSUME NEW r \in Run, NEW o \in Owner, NEW d \in Nat, Claimable(r, o, d),
             ClaimRun(r, o, d), UNCHANGED approvals
      PROVE  ApprovalInv'
  <2>0. /\ \A q \in Run : q # r => attempts'[q] = attempts[q]
        /\ attempts'[r][Len(attempts'[r])] = [worker |-> o, state |-> "preparing"]
    BY <1>4, AppendRows DEF ClaimRun
  <2>1. Last(r)'.state = "preparing" /\ \A q \in Run : q # r => Last(q)' = Last(q)
    BY <2>0 DEF Last
  <2>2. /\ run[r] = "pending" /\ run'[r] = "leased"
        /\ \A q \in Run : q # r => run'[q] = run[q]
    BY <1>0, <1>4 DEF Claimable, ClaimRun, SetRun
  <2>3. \A a \in ApprovalId : approvals[a].state = "pending" => approvals[a].run # r
    BY <1>0, <2>2
  <2>4. AttemptMatchesRun'
    BY <1>4, <2>1, <2>2, <2>3
  <2>5. OnePendingApproval'
    BY <1>0, <1>4, <2>2, <2>3
  <2> QED
    BY <2>4, <2>5
<1>5. ASSUME NEW r \in Run, NEW n \in 1..Len(attempts[r]), NEW d \in Nat,
             ClaimOwner(r, n) \in Owner, ClaimStep(r, n, d)
      PROVE  ApprovalInv'
  <2>1. CASE PrepareClaim(r, n, d)
    BY <1>0, <2>1 DEF PrepareClaim, SetRun, Last
  <2>2. ASSUME NEW v \in AttemptState, SetAttempt(r, n, v), attempts[r][n].state \in OpenStates
        PROVE  Last(r)'.state = v /\ \A q \in Run : q # r /\ Len(attempts[q]) > 0 =>
                                                     Last(q)'.state = Last(q).state
    <3>1. n = Len(attempts[r])
      BY <2>2 DEF LeaseInv, OneOpenAttempt
    <3>2. \A q \in Run : Len(attempts[q]) > 0 => Len(attempts[q]) \in 1..Len(attempts[q])
      BY <1>0
    <3>3. \A q \in Run :
             /\ Len(attempts'[q]) = Len(attempts[q])
             /\ \A m \in 1..Len(attempts[q]) :
                  attempts'[q][m].state = IF q = r /\ m = n THEN v ELSE attempts[q][m].state
      BY <2>2, SetAttemptRows
    <3>4. Last(r)'.state = v
      BY <3>1, <3>3 DEF Last
    <3>5. ASSUME NEW q \in Run, q # r, Len(attempts[q]) > 0
          PROVE  Last(q)'.state = Last(q).state
      BY <3>2, <3>3, <3>5 DEF Last
    <3> QED
      BY <3>4, <3>5
  <2>3. \A q \in Run : run[q] \in HeldStates => Len(attempts[q]) > 0
    BY DEF LeaseInv, LeaseIffHeld, OneOpenAttempt
  <2>4. CASE StartAttempt(r, n, d)
    <3>1. Last(r)'.state = "running" /\ \A q \in Run : q # r /\ Len(attempts[q]) > 0 =>
                                                     Last(q)'.state = Last(q).state
      BY <2>2, <2>4 DEF StartAttempt, AttemptState
    <3>2. /\ run[r] = "preparing" /\ run'[r] = "running" /\ approvals' = approvals
          /\ \A q \in Run : q # r => run'[q] = run[q]
      BY <1>0, <2>4 DEF StartAttempt, SetRun
    <3> QED
      BY <1>0, <2>3, <3>1, <3>2
  <2>5. CASE HeartbeatLease(r, n, d)
    BY <2>5 DEF HeartbeatLease, Last
  <2>6. ASSUME NEW s \in TerminalStates, CompleteClaim(r, n, s, d) PROVE ApprovalInv'
    <3>1. \A q \in Run : q # r /\ Len(attempts[q]) > 0 => Last(q)'.state = Last(q).state
      BY <2>2, <2>6 DEF CompleteClaim, AttemptState
    <3>2. run'[r] = s /\ approvals' = approvals /\ \A q \in Run : q # r => run'[q] = run[q]
      BY <1>0, <2>6 DEF CompleteClaim, SetRun
    <3> QED
      BY <1>0, <2>3, <3>1, <3>2
  <2>7. ASSUME NEW delay \in RetryDelays, ScheduleClaimRetry(r, n, delay, d) PROVE ApprovalInv'
    <3>1. \A q \in Run : q # r /\ Len(attempts[q]) > 0 => Last(q)'.state = Last(q).state
      BY <2>2, <2>7 DEF ScheduleClaimRetry, AttemptState
    <3>2. /\ run[r] = "running" /\ run'[r] = "retry-scheduled" /\ approvals' = approvals
          /\ \A q \in Run : q # r => run'[q] = run[q]
      BY <1>0, <2>7 DEF ScheduleClaimRetry, SetRun
    <3> QED
      BY <1>0, <2>3, <3>1, <3>2
  <2>8. ASSUME NEW a \in ApprovalId, NEW scope \in Scope, RequestApproval(r, n, a, scope, d)
        PROVE  ApprovalInv'
    <3>1. /\ run[r] \in OpenStates /\ run[r] = Last(r).state
          /\ run'[r] = "waiting-for-approval" /\ \A q \in Run : q # r => run'[q] = run[q]
      BY <1>0, <2>8 DEF RequestApproval
    <3>2. /\ approvals'[a].state = "pending" /\ approvals'[a].run = r
          /\ approvals'[a].resume = run[r]
          /\ \A b \in ApprovalId : b # a => approvals'[b] = approvals[b]
          /\ attempts' = attempts
      BY <1>0, <2>8 DEF RequestApproval
    <3>3. \A b \in ApprovalId : approvals[b].state = "pending" => approvals[b].run # r
      BY <3>1
    <3>4. \A q \in Run : Last(q)' = Last(q)
      BY <3>2 DEF Last
    <3>5. AttemptMatchesRun'
      BY <3>1, <3>2, <3>3, <3>4
    <3>6. OnePendingApproval'
      BY <1>0, <3>1, <3>2, <3>3
    <3> QED
      BY <3>5, <3>6
  <2> QED
    BY <1>5, <2>1, <2>4, <2>5, <2>6, <2>7, <2>8 DEF ClaimStep
<1>6. ASSUME NEW d \in Nat, RecoverExpiredLeases(d) PROVE ApprovalInv'
  <2>1. \A q \in Run : ~ Expired(q, d) => run'[q] = run[q] /\ Last(q)' = Last(q)
    BY <1>6 DEF RecoverExpiredLeases, Last
  <2>2. \A q \in Run : Expired(q, d) => run'[q] = Recovered(q)
    BY <1>6 DEF RecoverExpiredLeases
  <2>3. approvals' = approvals
    BY <1>6 DEF RecoverExpiredLeases
  <2> QED
    BY <1>0, <2>1, <2>2, <2>3 DEF Recovered
<1>7. ASSUME NEW d \in Nat, ActivateDueRetries(d) PROVE ApprovalInv'
  BY <1>0, <1>7 DEF ActivateDueRetries, Activated, Last
<1>8. ASSUME NEW a \in ApprovalId, NEW d \in {"approved", "denied", "cancelled"},
             approvals' = [approvals EXCEPT ![a].state = d],
             approvals[a].state = "pending",
             \/ run' = run
             \/ /\ run[approvals[a].run] = "waiting-for-approval"
                /\ run' = [run EXCEPT ![approvals[a].run] = approvals[a].resume],
             attempts' = attempts
      PROVE  ApprovalInv'
  <2>1. /\ approvals'[a].state = d /\ d # "pending"
        /\ \A b \in ApprovalId : b # a => approvals'[b] = approvals[b]
    BY <1>0, <1>8 DEF ApprovalRow
  <2>2. approvals[a].run \in Run /\ approvals[a].resume \in OpenStates
    BY <1>0, <1>8 DEF ApprovalRow
  <2>3. \A b \in ApprovalId : approvals'[b].state = "pending" => approvals[b].run # approvals[a].run
    BY <1>8, <2>1
  <2>4. \A q \in Run : q # approvals[a].run => run'[q] = run[q]
    BY <1>0, <1>8, <2>2
  <2>5. run[approvals[a].run] = "waiting-for-approval" =>
           approvals[a].resume = Last(approvals[a].run).state
    BY <1>8, <2>2
  <2>6. OnePendingApproval'
    BY <1>0, <2>1, <2>3, <2>4
  <2>7. AttemptMatchesRun'
    BY <1>0, <1>8, <2>1, <2>2, <2>3, <2>4, <2>5 DEF Last
  <2> QED
    BY <2>6, <2>7
<1>9. ASSUME NEW a \in ApprovalId, NEW v \in {"approved", "denied"}, DecideApproval(a, v)
      PROVE  ApprovalInv'
  BY <1>8, <1>9 DEF DecideApproval
<1>10. ASSUME NEW a \in ApprovalId, CancelApproval(a) PROVE ApprovalInv'
  BY <1>8, <1>10 DEF CancelApproval
<1> QED
  BY <1>1, <1>2, <1>3, <1>4, <1>5, <1>6, <1>7, <1>9, <1>10, StepCases

-----------------------------------------------------------------------------
(* Retry timers *)

LEMMA RetryStep ==
  TypeOK /\ LeaseInv /\ RetryHasTimer /\ [Next]_vars => RetryHasTimer'
<1> SUFFICES ASSUME TypeOK, LeaseInv, RetryHasTimer, [Next]_vars PROVE RetryHasTimer'
  OBVIOUS
<1> USE DEF RetryHasTimer, HeldStates, TerminalStates, OpenStates
<1>0. run \in [Run -> RunState] /\ timers \subseteq TimerRow
  BY DEF TypeOK
<1>1. ASSUME timers' = timers,
             \A q \in Run : run'[q] = "retry-scheduled" <=> run[q] = "retry-scheduled"
      PROVE  RetryHasTimer'
  BY <1>1 DEF PendingTimers
<1>2. CASE UNCHANGED vars
  BY <1>2 DEF vars, PendingTimers
<1>3. CASE Tick
  <2>1. \A u \in timers : AgeTimer(u).state = u.state /\ AgeTimer(u).run = u.run
    BY <1>0 DEF TimerRow, AgeTimer
  <2>2. run' = run /\ timers' = {AgeTimer(u) : u \in timers}
    BY <1>3 DEF Tick
  <2>3. \A q \in Run : PendingTimers(q)' = {AgeTimer(u) : u \in PendingTimers(q)}
    BY <2>1, <2>2 DEF PendingTimers
  <2> QED
    BY <2>2, <2>3
<1>4. ASSUME NEW r \in Run, RouteRun(r) PROVE RetryHasTimer'
  BY <1>0, <1>1, <1>4 DEF RouteRun, SetRun
<1>5. ASSUME NEW r \in Run, CancelPendingRun(r) PROVE RetryHasTimer'
  <2>1. \A u \in timers :
           /\ CancelTimer(u, r).run = u.run
           /\ u.run = r => CancelTimer(u, r).state # "pending"
           /\ u.run # r => CancelTimer(u, r) = u
    BY <1>0 DEF TimerRow, CancelTimer
  <2>2. PendingTimers(r)' = {}
    BY <1>5, <2>1 DEF CancelPendingRun, PendingTimers
  <2>3. \A q \in Run : q # r => PendingTimers(q)' = PendingTimers(q)
    BY <1>5, <2>1 DEF CancelPendingRun, PendingTimers
  <2>4. run'[r] = "cancelled" /\ \A q \in Run : q # r => run'[q] = run[q]
    BY <1>0, <1>5 DEF CancelPendingRun, SetRun
  <2> QED
    BY <2>2, <2>3, <2>4
<1>6. ASSUME NEW r \in Run, NEW o \in Owner, NEW d \in Nat, Claimable(r, o, d),
             ClaimRun(r, o, d), UNCHANGED timers
      PROVE  RetryHasTimer'
  BY <1>0, <1>1, <1>6 DEF Claimable, ClaimRun, SetRun
<1>7. ASSUME NEW r \in Run, NEW n \in 1..Len(attempts[r]), NEW d \in Nat, ClaimStep(r, n, d)
      PROVE  RetryHasTimer'
  <2>1. CASE PrepareClaim(r, n, d) \/ StartAttempt(r, n, d) \/ HeartbeatLease(r, n, d)
    BY <1>0, <1>1, <2>1 DEF PrepareClaim, StartAttempt, HeartbeatLease, SetRun
  <2>2. ASSUME NEW s \in TerminalStates, CompleteClaim(r, n, s, d) PROVE RetryHasTimer'
    BY <1>0, <1>1, <2>2 DEF CompleteClaim, CompletableFrom, SetRun
  <2>3. ASSUME NEW a \in ApprovalId, NEW scope \in Scope, RequestApproval(r, n, a, scope, d)
        PROVE  RetryHasTimer'
    BY <1>0, <1>1, <2>3 DEF RequestApproval
  <2>4. ASSUME NEW delay \in RetryDelays, ScheduleClaimRetry(r, n, delay, d)
        PROVE  RetryHasTimer'
    <3> DEFINE new == [run |-> r, number |-> n, left |-> delay - d, state |-> "pending"]
    <3>1. timers' = timers \cup {new} /\ new.run = r /\ new.state = "pending"
      BY <2>4 DEF ScheduleClaimRetry
    <3>2. /\ run[r] = "running" /\ run'[r] = "retry-scheduled"
          /\ \A q \in Run : q # r => run'[q] = run[q]
      BY <1>0, <2>4 DEF ScheduleClaimRetry, SetRun
    <3> HIDE DEF new
    <3>3. PendingTimers(r) = {}
      BY <3>2
    <3>4. PendingTimers(r)' = {new}
      BY <3>1, <3>3 DEF PendingTimers
    <3>5. \A q \in Run : q # r => PendingTimers(q)' = PendingTimers(q)
      BY <3>1 DEF PendingTimers
    <3> QED
      BY <3>2, <3>4, <3>5
  <2> QED
    BY <1>7, <2>1, <2>2, <2>3, <2>4 DEF ClaimStep
<1>8. ASSUME NEW d \in Nat, RecoverExpiredLeases(d) PROVE RetryHasTimer'
  <2>1. \A q \in Run : Expired(q, d) => run[q] \in HeldStates
    BY DEF LeaseInv, LeaseIffHeld, Expired
  <2> QED
    BY <1>0, <1>1, <1>8, <2>1 DEF RecoverExpiredLeases, Recovered
<1>9. ASSUME NEW d \in Nat, ActivateDueRetries(d) PROVE RetryHasTimer'
  <2>1. PICK batch \in SUBSET DueTimers(d) :
           /\ run' = [r \in Run |-> IF Activated(r, batch) THEN "pending" ELSE run[r]]
           /\ timers' = {IF u \in batch THEN CloseTimer(u) ELSE u : u \in timers}
    BY <1>9 DEF ActivateDueRetries
  <2>2. \A u \in timers : CloseTimer(u).state # "pending"
    BY <1>0 DEF TimerRow, CloseTimer
  <2>3. \A q \in Run : PendingTimers(q)' = PendingTimers(q) \ batch
    BY <2>1, <2>2 DEF PendingTimers
  <2>4. \A u \in batch : u \in PendingTimers(u.run) /\ u.run \in Run
    BY <1>0 DEF DueTimers, PendingTimers, TimerRow
  <2>5. \A q \in Run : run'[q] = IF Activated(q, batch) THEN "pending" ELSE run[q]
    BY <2>1
  <2>6. ASSUME NEW q \in Run, Activated(q, batch) PROVE PendingTimers(q)' = {}
    BY <2>3, <2>4, <2>6 DEF Activated
  <2>7. ASSUME NEW q \in Run, ~ Activated(q, batch) PROVE PendingTimers(q)' = PendingTimers(q)
    BY <2>3, <2>4, <2>7 DEF Activated, PendingTimers
  <2> QED
    BY <2>5, <2>6, <2>7
<1>10. ASSUME NEW a \in ApprovalId, NEW v \in {"approved", "denied"}, DecideApproval(a, v)
       PROVE  RetryHasTimer'
  <2>1. approvals[a] \in ApprovalRow
    BY <1>10 DEF DecideApproval, TypeOK, NoApproval
  <2> QED
    BY <1>0, <1>1, <1>10, <2>1 DEF DecideApproval, ApprovalRow
<1>11. ASSUME NEW a \in ApprovalId, CancelApproval(a) PROVE RetryHasTimer'
  BY <1>1, <1>11 DEF CancelApproval
<1> QED
  BY <1>2, <1>3, <1>4, <1>5, <1>6, <1>7, <1>8, <1>9, <1>10, <1>11, StepCases

-----------------------------------------------------------------------------
(* Workspace leases *)

\* When transactions take effect at the instant they are given, only a claim
\* makes a lease live: a heartbeat finds it live, and time only ends leases.
LEMMA LiveStep ==
  ASSUME MaxDelay = 0, TypeOK, [Next]_vars
  PROVE  \/ \A q \in Run : Live(q, 0)' => Live(q, 0)
         \/ \E r \in Run, o \in Owner : Claimable(r, o, 0) /\ ClaimRun(r, o, 0)
<1> DEFINE NoneAppears == \A q \in Run : Live(q, 0)' => Live(q, 0)
<1>0. lease \in [Run -> LeaseRow] /\ \A q \in Run : lease[q].left \in Int
  BY DEF TypeOK, LeaseRow
<1>1. ASSUME lease' = lease PROVE NoneAppears
  BY <1>1 DEF Live, HasLease
<1>2. CASE UNCHANGED vars
  BY <1>1, <1>2 DEF vars
<1>3. CASE Tick
  <2>1. \A q \in Run : /\ lease'[q].owner = lease[q].owner
                       /\ lease'[q].left \in Int /\ lease'[q].left <= lease[q].left
    BY <1>0, <1>3, RunStoreAssumption DEF Tick, AgeLease, Sooner, LeaseRow
  <2> QED
    BY <1>0, <2>1 DEF Live, HasLease
<1>4. ASSUME NEW r \in Run, RouteRun(r) \/ CancelPendingRun(r) PROVE NoneAppears
  BY <1>1, <1>4 DEF RouteRun, CancelPendingRun
<1>5. ASSUME NEW r \in Run, NEW n \in 1..Len(attempts[r]), NEW d \in Nat, d <= MaxDelay,
             ClaimOwner(r, n) \in Owner, ClaimStep(r, n, d)
      PROVE  NoneAppears
  <2>1. CASE \/ PrepareClaim(r, n, d) \/ StartAttempt(r, n, d)
             \/ \E a \in ApprovalId, scope \in Scope : RequestApproval(r, n, a, scope, d)
    BY <1>1, <2>1 DEF PrepareClaim, StartAttempt, RequestApproval
  <2>2. CASE HeartbeatLease(r, n, d)
    <3>1. d = 0
      BY <1>5
    <3>2. Live(r, 0)
      BY <1>5, <2>2, <3>1, RunStoreAssumption DEF HeartbeatLease, VerifyLease, Live, HasLease
    <3>3. \A s \in Run : s # r => lease'[s] = lease[s]
      BY <1>0, <2>2 DEF HeartbeatLease
    <3> QED
      BY <3>2, <3>3 DEF Live, HasLease
  <2>3. ASSUME lease' = [lease EXCEPT ![r] = NoLease] PROVE NoneAppears
    <3>1. ~ Live(r, 0)' /\ \A s \in Run : s # r => lease'[s] = lease[s]
      BY <1>0, <2>3 DEF NoLease, Live, HasLease
    <3> QED
      BY <3>1 DEF Live, HasLease
  <2>4. ASSUME NEW s \in TerminalStates, CompleteClaim(r, n, s, d) PROVE NoneAppears
    BY <2>3, <2>4 DEF CompleteClaim
  <2>5. ASSUME NEW delay \in RetryDelays, ScheduleClaimRetry(r, n, delay, d) PROVE NoneAppears
    BY <2>3, <2>5 DEF ScheduleClaimRetry
  <2> QED
    BY <1>5, <2>1, <2>2, <2>4, <2>5 DEF ClaimStep
<1>6. ASSUME NEW d \in Nat, RecoverExpiredLeases(d) PROVE NoneAppears
  <2>1. \A q \in Run : lease'[q] = NoLease \/ lease'[q] = lease[q]
    BY <1>6 DEF RecoverExpiredLeases
  <2> QED
    BY <2>1 DEF NoLease, Live, HasLease
<1>7. ASSUME NEW d \in Nat, ActivateDueRetries(d) PROVE NoneAppears
  BY <1>1, <1>7 DEF ActivateDueRetries
<1>8. ASSUME NEW a \in ApprovalId,
             CancelApproval(a) \/ \E d \in {"approved", "denied"} : DecideApproval(a, d)
      PROVE  NoneAppears
  BY <1>1, <1>8 DEF CancelApproval, DecideApproval
<1>9. ASSUME NEW d \in Nat, d <= MaxDelay PROVE d = 0
  BY <1>9
<1> QED
  BY <1>2, <1>3, <1>4, <1>5, <1>6, <1>7, <1>8, <1>9, StepCases

LEMMA ExclusiveStep ==
  MaxDelay = 0 /\ TypeOK /\ WriteExclusive /\ [Next]_vars => WriteExclusive'
<1> SUFFICES ASSUME MaxDelay = 0, TypeOK, WriteExclusive, [Next]_vars PROVE WriteExclusive'
  OBVIOUS
<1>1. CASE \A q \in Run : Live(q, 0)' => Live(q, 0)
  BY <1>1 DEF WriteExclusive
<1>2. ASSUME NEW r \in Run, NEW o \in Owner, Claimable(r, o, 0), ClaimRun(r, o, 0)
      PROVE  WriteExclusive'
  <2>1. \A s \in Run : Live(s, 0) /\ WorkspaceOf[s] = WorkspaceOf[r]
                          => ~ WriteMode(r) /\ ~ WriteMode(s)
    BY <1>2 DEF Claimable, WorkspaceLeaseAvailable
  <2>2. \A s \in Run : s # r => (Live(s, 0)' <=> Live(s, 0))
    BY <1>2 DEF ClaimRun, Live, HasLease, TypeOK
  <2> QED
    BY <2>1, <2>2 DEF WriteExclusive, WriteMode
<1> QED
  BY <1>1, <1>2, LiveStep

-----------------------------------------------------------------------------
(* Results *)

\* Exactly the held runs have a lease row, and a held run has one open attempt,
\* its latest, of the lease's owner, however claims are reused and however late
\* the transactions of their holders commit.
THEOREM LeaseSafety == Spec => [](LeaseIffHeld /\ OneOpenAttempt)
<1>1. Init => LeaseInv
  BY DEF Init, LeaseInv, LeaseIffHeld, OneOpenAttempt, HasLease, NoLease, HeldStates
<1>2. LeaseInv => LeaseIffHeld /\ OneOpenAttempt
  BY DEF LeaseInv
<1> QED
  BY <1>1, <1>2, TypeCorrect, LeaseStep, PTL DEF Spec

\* A decision resumes the state its own request interrupted, and nothing else.
THEOREM ApprovalSafety == Spec => [](AttemptMatchesRun /\ OnePendingApproval)
<1>1. Init => LeaseInv /\ ApprovalInv
  BY DEF Init, LeaseInv, LeaseIffHeld, OneOpenAttempt, HasLease, NoLease, HeldStates,
         ApprovalInv, AttemptMatchesRun, OnePendingApproval, NoApproval, PendingApprovals
<1>2. ApprovalInv => AttemptMatchesRun /\ OnePendingApproval
  BY DEF ApprovalInv
<1> QED
  BY <1>1, <1>2, TypeCorrect, LeaseStep, ApprovalStep, PTL DEF Spec

\* Every retry-scheduled run has the one timer that will wake it.
THEOREM RetrySafety == Spec => []RetryHasTimer
<1>1. Init => LeaseInv /\ RetryHasTimer
  BY DEF Init, LeaseInv, LeaseIffHeld, OneOpenAttempt, HasLease, NoLease, HeldStates,
         RetryHasTimer, PendingTimers
<1> QED
  BY <1>1, TypeCorrect, LeaseStep, RetryStep, PTL DEF Spec

\* If transactions take effect at the instant they are given, two live claims
\* share a workspace only when both are readonly.
THEOREM LeaseExclusion == MaxDelay = 0 /\ Spec => []WriteExclusive
<1>1. Init => WriteExclusive
  BY DEF Init, WriteExclusive, Live, HasLease, NoLease
<1>2. CASE MaxDelay = 0
  <2>1. TypeOK /\ WriteExclusive /\ [Next]_vars => WriteExclusive'
    BY <1>2, ExclusiveStep
  <2> QED
    BY <1>1, <2>1, TypeCorrect, PTL DEF Spec
<1> QED
  BY <1>2
=============================================================================
