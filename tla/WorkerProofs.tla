---------------------------- MODULE WorkerProofs ----------------------------
(***************************************************************************)
(* Proofs about the Studio worker, for every number of Studios, runs and   *)
(* approvals: the worker is a client of the run store, its work is covered *)
(* by live leases on a prompt machine, and its processes and approvals are *)
(* therefore exclusive and answered.                                       *)
(***************************************************************************)
EXTENDS Worker, RunStoreProofs

-----------------------------------------------------------------------------
(* What the store's transactions do to the rows that a worker keeps a claim *)
(* on: attempts are added, never renumbered or given to another worker, and *)
(* an approval stays with the attempt that asked for it.                    *)

\* An approval that has a row names an attempt that has one.
MadeBy(a) == approvals[a].state # "none" =>
               approvals[a].number \in 1..Len(attempts[approvals[a].run])

StoreInv ==
  /\ TypeOK
  /\ \A r \in Run : Len(attempts[r]) <= MaxAttempts
  /\ \A a \in ApprovalId : MadeBy(a)

KeepsWorkers ==
  \A r \in Run :
    /\ Len(attempts[r]) <= Len(attempts'[r]) /\ Len(attempts'[r]) <= MaxAttempts
    /\ \A m \in 1..Len(attempts[r]) : attempts'[r][m].worker = attempts[r][m].worker

KeepsAskers ==
  \A a \in ApprovalId : approvals[a].state # "none" =>
    /\ approvals'[a].state # "none"
    /\ approvals'[a].run = approvals[a].run /\ approvals'[a].number = approvals[a].number

LEMMA ApprovalTyped ==
  ASSUME TypeOK, NEW a \in ApprovalId, approvals[a].state # "none"
  PROVE  approvals[a] \in ApprovalRow /\ approvals[a].run \in Run /\ approvals[a].number \in Nat
<1>1. approvals[a] \in ApprovalRow
  BY DEF TypeOK, NoApproval
<1> QED
  BY <1>1 DEF ApprovalRow

LEMMA StoreStepKeeps ==
  ASSUME StoreInv, [Next]_vars
  PROVE  StoreInv' /\ KeepsWorkers /\ KeepsAskers
<1>0. /\ TypeOK /\ TypeOK'
      /\ \A r \in Run : /\ Len(attempts[r]) \in Nat /\ Len(attempts'[r]) \in Nat
                        /\ Len(attempts[r]) <= MaxAttempts
  BY TypeStep DEF StoreInv, TypeOK
<1> DEFINE NewRow(r, n, a) == /\ approvals[a].state = "none" /\ n \in 1..Len(attempts[r])
                              /\ approvals'[a].run = r /\ approvals'[a].number = n
           Askers == \A a \in ApprovalId :
                       \/ approvals'[a] = approvals[a]
                       \/ /\ approvals[a].state # "none" /\ approvals'[a].state # "none"
                          /\ approvals'[a].run = approvals[a].run
                          /\ approvals'[a].number = approvals[a].number
                       \/ \E r \in Run : \E n \in 1..Len(attempts[r]) : NewRow(r, n, a)
<1>1. ASSUME attempts' = attempts PROVE KeepsWorkers
  BY <1>0, <1>1 DEF KeepsWorkers
<1>2. ASSUME approvals' = approvals PROVE Askers
  BY <1>2
<1> HIDE DEF Askers
<1>3. ASSUME NEW r \in Run, NEW n \in 1..Len(attempts[r]), NEW s \in AttemptState,
             SetAttempt(r, n, s)
      PROVE  KeepsWorkers
  BY <1>0, <1>3, SetAttemptRows DEF KeepsWorkers
<1>4. ASSUME UNCHANGED vars \/ Tick \/ \E r \in Run : RouteRun(r) \/ CancelPendingRun(r)
      PROVE  KeepsWorkers /\ Askers
  BY <1>1, <1>2, <1>4 DEF vars, Tick, RouteRun, CancelPendingRun
<1>5. ASSUME NEW r \in Run, NEW o \in Owner, NEW d \in Nat, ClaimRun(r, o, d),
             UNCHANGED approvals
      PROVE  KeepsWorkers /\ Askers
  <2>1. /\ Len(attempts[r]) + 1 <= MaxAttempts
        /\ attempts' = [attempts EXCEPT ![r] = Append(@, [worker |-> o, state |-> "preparing"])]
    BY <1>0, <1>5, RunStoreAssumption DEF ClaimRun
  <2>2. /\ \A q \in Run : q # r => attempts'[q] = attempts[q]
        /\ Len(attempts'[r]) = Len(attempts[r]) + 1
        /\ \A m \in 1..Len(attempts[r]) : attempts'[r][m] = attempts[r][m]
    BY <1>0, <2>1, AppendRows
  <2> QED
    BY <1>0, <1>2, <1>5, <2>1, <2>2 DEF KeepsWorkers
<1>6. ASSUME NEW r \in Run, NEW n \in 1..Len(attempts[r]), NEW d \in Nat, ClaimStep(r, n, d)
      PROVE  KeepsWorkers /\ Askers
  <2>1. CASE PrepareClaim(r, n, d) \/ HeartbeatLease(r, n, d)
    BY <1>1, <1>2, <2>1 DEF PrepareClaim, HeartbeatLease
  <2>2. CASE StartAttempt(r, n, d)
    BY <1>2, <1>3, <2>2 DEF StartAttempt, AttemptState, OpenStates
  <2>3. CASE \E s \in TerminalStates : CompleteClaim(r, n, s, d)
    BY <1>2, <1>3, <2>3 DEF CompleteClaim, AttemptState
  <2>4. CASE \E delay \in RetryDelays : ScheduleClaimRetry(r, n, delay, d)
    BY <1>2, <1>3, <2>4 DEF ScheduleClaimRetry, AttemptState, TerminalStates
  <2>5. ASSUME NEW a \in ApprovalId, NEW scope \in Scope, RequestApproval(r, n, a, scope, d)
        PROVE  KeepsWorkers /\ Askers
    BY <1>0, <1>1, <2>5 DEF RequestApproval, TypeOK, Askers
  <2> QED
    BY <1>6, <2>1, <2>2, <2>3, <2>4, <2>5 DEF ClaimStep
<1>7. ASSUME NEW d \in Nat, RecoverExpiredLeases(d) PROVE KeepsWorkers /\ Askers
  <2>1. \A q \in Run : /\ Len(attempts'[q]) = Len(attempts[q])
                       /\ \A m \in 1..Len(attempts[q]) :
                            attempts'[q][m].worker = attempts[q][m].worker
    BY <1>0, <1>7, RecoverRows
  <2> QED
    <3>1. Askers
      BY <1>2, <1>7 DEF RecoverExpiredLeases
    <3>2. KeepsWorkers
      BY <1>0, <2>1 DEF KeepsWorkers
    <3> QED
      BY <3>1, <3>2
<1>8. ASSUME NEW d \in Nat, ActivateDueRetries(d) PROVE KeepsWorkers /\ Askers
  BY <1>1, <1>2, <1>8 DEF ActivateDueRetries
<1>9. ASSUME NEW a \in ApprovalId, NEW s \in {"approved", "denied", "cancelled"},
             approvals[a].state = "pending",
             approvals' = [approvals EXCEPT ![a].state = s]
      PROVE  Askers
  <2>1. approvals[a] \in ApprovalRow
    BY <1>0, <1>9, ApprovalTyped
  <2> QED
    BY <1>0, <1>9, <2>1 DEF TypeOK, ApprovalRow, Askers
<1>10. ASSUME NEW a \in ApprovalId,
              CancelApproval(a) \/ \E v \in {"approved", "denied"} : DecideApproval(a, v)
       PROVE  KeepsWorkers /\ Askers
  BY <1>1, <1>9, <1>10 DEF DecideApproval, CancelApproval
<1>11. KeepsWorkers /\ Askers
  BY <1>0, <1>4, <1>5, <1>6, <1>7, <1>8, <1>10, StepCases
<1>12. KeepsAskers
  BY <1>11 DEF KeepsAskers, Askers
<1>13. ASSUME NEW a \in ApprovalId, approvals'[a].state # "none"
       PROVE  approvals'[a].number \in 1..Len(attempts'[approvals'[a].run])
  <2>1. CASE approvals[a].state # "none"
    <3>1. approvals[a].number \in 1..Len(attempts[approvals[a].run]) /\ approvals[a].run \in Run
      BY <1>0, <2>1, ApprovalTyped DEF StoreInv, MadeBy
    <3> QED
      BY <1>0, <1>11, <1>12, <2>1, <3>1 DEF KeepsAskers, KeepsWorkers
  <2>2. CASE approvals[a].state = "none"
    BY <1>0, <1>11, <1>13, <2>2 DEF KeepsWorkers, Askers
  <2> QED
    BY <2>1, <2>2
<1> QED
  BY <1>0, <1>11, <1>12, <1>13 DEF StoreInv, MadeBy, KeepsWorkers

-----------------------------------------------------------------------------
(* The claims of the workers *)

\* A worker's claim is an attempt of its own, and the steps that use it are
\* those between the claim and the return of RunOnce.
ClaimOK(o) ==
  claim[o] # NoClaim =>
    /\ R(o) \in Run /\ N(o) \in 1..Len(attempts[R(o)])
    /\ ClaimOwner(R(o), N(o)) = o

PcOK(o) ==
  /\ Up(o) => (claim[o] = NoClaim <=> pc[o] \in {"idle", "activate", "claim"})
  /\ Up(o) /\ child[o] # "none" => pc[o] \in {"record", "abort", "run", "finish"}
  /\ ~ Up(o) => asked[o] = {}
  /\ \A a \in asked[o] : approvals[a].state # "none"

WorkerInv ==
  /\ StoreInv /\ WorkerTypeOK
  /\ \A o \in Owner : ClaimOK(o) /\ PcOK(o)

\* Everything a Studio does.
StudioStep(o) ==
  \/ Loop(o) \/ Watch(o) \/ Exit(o) \/ Die(o) \/ Heartbeat(o)
  \/ \E a \in ApprovalId : Handler(o, a) \/ \E scope \in Scope : GatewayAsk(o, a, scope)
  \/ Close(o) \/ Crash(o)
  \/ \E r \in Run : CancelRun(o, r)

\* What a step of Studio o is to the store: no transaction, one on behalf of
\* nobody's claim, a new claim of its own, or a call with the claim it has.
OwnCall(o) ==
  /\ Up(o) /\ claim[o] # NoClaim
  /\ \E d \in Delays : ClaimStep(R(o), N(o), d)

StoreStep(o) ==
  \/ UNCHANGED vars
  \/ \E d \in Delays : RecoverExpiredLeases(d) \/ ActivateDueRetries(d) \/ ClaimNext(o, d)
  \/ OwnCall(o)
  \/ \E r \in Run : CancelPendingRun(r)
  \/ \E a \in ApprovalId : CancelApproval(a)

LEMMA ClaimKnown ==
  ASSUME WorkerInv, NEW o \in Owner, claim[o] # NoClaim
  PROVE  claim[o] \in Claims /\ claim[o] = <<R(o), N(o)>>
<1>1. claim[o] \in Nat \X Nat
  BY DEF WorkerInv, WorkerTypeOK
<1>2. R(o) \in Run /\ N(o) \in 1..Len(attempts[R(o)])
  BY DEF WorkerInv, ClaimOK
<1>3. Len(attempts[R(o)]) \in Nat /\ Len(attempts[R(o)]) <= MaxAttempts
  BY <1>2 DEF WorkerInv, StoreInv, TypeOK
<1> QED
  BY <1>1, <1>2, <1>3, RunStoreAssumption DEF Claims, R, N

LEMMA StoreStepIsNext ==
  ASSUME WorkerInv, NEW o \in Owner, StoreStep(o)
  PROVE  [Next]_vars
<1>1. CASE OwnCall(o)
  <2>1. claim[o] \in Claims /\ claim[o][1] = R(o) /\ claim[o][2] = N(o)
    BY <1>1, ClaimKnown DEF OwnCall, R, N
  <2> QED
    BY <1>1, <2>1 DEF OwnCall, Next
<1> QED
  BY <1>1 DEF StoreStep, Next

\* The Studio's steps reach the store by its transactions only.
LEMMA StudioStepOfStore ==
  ASSUME WorkerInv, NEW o \in Owner, StudioStep(o)
  PROVE  StoreStep(o)
<1>0. /\ pc[o] \in PC \ {"idle", "activate", "claim", "down"} => Up(o) /\ claim[o] # NoClaim
      /\ ~ Up(o) => asked[o] = {}
      /\ \A a \in asked[o] : approvals[a].state # "none"
  BY DEF WorkerInv, PcOK, Up
<1>1. CASE Loop(o)
  <2>1. CASE RecoverFirst(o) \/ ActivateRetries(o) \/ Claim(o)
    BY <2>1 DEF RecoverFirst, ActivateRetries, Claim, StoreStep
  <2>2. CASE NothingToClaim(o) \/ Setup(o) \/ Spawn(o) \/ Abort(o) \/ Waited(o) \/ Closed(o)
    BY <2>2 DEF NothingToClaim, Setup, Spawn, Abort, Waited, Closed, StoreStep, vars
  <2>3. CASE Prepare(o)
    BY <1>0, <2>3 DEF Prepare, StoreStep, OwnCall, ClaimStep, PC
  <2>4. CASE Ask(o)
    <3>1. CASE UNCHANGED vars
      BY <3>1 DEF StoreStep
    <3>2. CASE \E scope \in Scope, d \in Delays, a \in ApprovalId : NewRequest(o, a, scope, d)
      BY <1>0, <2>4, <3>2 DEF Ask, NewRequest, StoreStep, OwnCall, ClaimStep, PC
    <3> QED
      BY <2>4, <3>1, <3>2 DEF Ask
  <2>5. CASE Record(o)
    BY <1>0, <2>5 DEF Record, StoreStep, OwnCall, ClaimStep, PC
  <2>6. CASE GiveUp(o, "failing", "failed") \/ GiveUp(o, "refused", "cancelled")
    BY <1>0, <2>6 DEF GiveUp, StoreStep, OwnCall, ClaimStep, PC, TerminalStates
  <2>7. CASE Finish(o)
    <3>1. pc[o] = "finish"
      BY <2>7 DEF Finish
    <3>2. CASE \E delay \in RetryDelays, d \in Delays : Retry(o, delay, d)
      BY <1>0, <3>1, <3>2 DEF Retry, StoreStep, OwnCall, ClaimStep, PC
    <3>3. ASSUME NEW logOK \in BOOLEAN, NEW d \in Delays,
                 CompleteClaim(R(o), N(o), Outcome(o, logOK), d)
          PROVE  StoreStep(o)
      <4>1. Outcome(o, logOK) \in TerminalStates
        BY DEF Outcome, TerminalStates
      <4> QED
        BY <1>0, <3>1, <3>3, <4>1 DEF StoreStep, OwnCall, ClaimStep, PC
    <3>4. CASE UNCHANGED vars
      BY <3>4 DEF StoreStep
    <3> QED
      BY <2>7, <3>2, <3>3, <3>4 DEF Finish
  <2> QED
    BY <1>1, <2>1, <2>2, <2>3, <2>4, <2>5, <2>6, <2>7 DEF Loop
<1>2. CASE Watch(o) \/ Exit(o) \/ Die(o) \/ Close(o) \/ Crash(o)
  BY <1>2 DEF Watch, Exit, Die, Close, Crash, StoreStep
<1>3. CASE Heartbeat(o)
  BY <1>0, <1>3 DEF Heartbeat, StoreStep, OwnCall, ClaimStep, PC
<1>4. ASSUME NEW a \in ApprovalId, Handler(o, a) PROVE StoreStep(o)
  <2>1. CASE AskDecided(o, a) \/ AskCancelled(o, a)
    BY <2>1 DEF AskDecided, AskCancelled, StoreStep
  <2>2. CASE AskHeartbeat(o, a)
    <3>1. a \in asked[o] /\ claim[o] = <<approvals[a].run, approvals[a].number>>
      BY <2>2 DEF AskHeartbeat, AskDone
    <3>2. Up(o) /\ approvals[a].run \in Run
      BY <1>0, <3>1, ApprovalTyped DEF WorkerInv, StoreInv
    <3>3. claim[o] # NoClaim
      BY <3>1, <3>2, WorkerAssumption DEF NoClaim
    <3> QED
      BY <2>2, <3>2, <3>3 DEF AskHeartbeat, StoreStep, OwnCall, ClaimStep
  <2> QED
    BY <1>4, <2>1, <2>2 DEF Handler
<1>5. ASSUME NEW a \in ApprovalId, NEW scope \in Scope, GatewayAsk(o, a, scope)
      PROVE  StoreStep(o)
  BY <1>0, <1>5 DEF GatewayAsk, NewRequest, StoreStep, OwnCall, ClaimStep, PC
<1>6. ASSUME NEW r \in Run, CancelRun(o, r) PROVE StoreStep(o)
  BY <1>6 DEF CancelRun, StoreStep
<1> QED
  BY <1>1, <1>2, <1>3, <1>4, <1>5, <1>6 DEF StudioStep

\* A Studio's step writes its own state only.
Frame(o) ==
  \A q \in Owner : q # o =>
    /\ pc'[q] = pc[q] /\ claim'[q] = claim[q] /\ child'[q] = child[q]
    /\ beat'[q] = beat[q] /\ asked'[q] = asked[q]

LEMMA GotoTypes ==
  ASSUME WorkerTypeOK, NEW o \in Owner, NEW p \in PC, Goto(o, p)
  PROVE  /\ pc' \in [Owner -> PC] /\ pc'[o] = p
         /\ \A q \in Owner : q # o => pc'[q] = pc[q]
  BY DEF WorkerTypeOK, Goto

LEMMA ReturnTypes ==
  ASSUME WorkerTypeOK, NEW o \in Owner, Return(o)
  PROVE  /\ WorkerTypeOK' /\ Frame(o)
         /\ pc'[o] = "idle" /\ claim'[o] = NoClaim /\ child'[o] = "none" /\ asked' = asked
  BY DEF WorkerTypeOK, Return, Goto, Frame, PC, ChildState, NoClaim

\* What a step of Studio o does to o's own state, as far as the invariant of its
\* claim needs it; WorkerTypeOK is the type of all Studios' state.
OwnMove(o) ==
  /\ WorkerTypeOK' /\ Frame(o)
  /\ claim'[o] = claim[o] \/ claim'[o] = NoClaim
  /\ Up(o)' => (claim'[o] = NoClaim <=> pc'[o] \in {"idle", "activate", "claim"})
  /\ Up(o)' /\ child'[o] # "none" => pc'[o] \in {"record", "abort", "run", "finish"}
  /\ ~ Up(o)' => asked'[o] = {}
  /\ \A a \in asked'[o] : approvals'[a].state # "none"

LEMMA LoopMoves ==
  ASSUME WorkerInv, NEW o \in Owner, Loop(o), ~ Claim(o), KeepsAskers
  PROVE  OwnMove(o)
<1>0. /\ WorkerTypeOK /\ PcOK(o) /\ asked[o] \subseteq ApprovalId
      /\ \A a \in asked[o] : approvals'[a].state # "none"
  BY DEF WorkerInv, WorkerTypeOK, PcOK, KeepsAskers
<1>1. CASE Return(o)
  BY <1>0, <1>1, ReturnTypes DEF OwnMove, Up
<1>2. ASSUME NEW p \in PC, Goto(o, p), p # "down", pc[o] # "down",
             UNCHANGED <<claim, cancelled, closing, child, beat, asked>>,
             p \in {"idle", "activate", "claim"} <=> pc[o] \in {"idle", "activate", "claim"},
             pc[o] \in {"record", "abort", "run", "finish"} => p \in {"record", "abort", "run", "finish"}
      PROVE  OwnMove(o)
  BY <1>0, <1>2, GotoTypes DEF OwnMove, PcOK, Up, Frame, WorkerTypeOK
<1>3. CASE RecoverFirst(o) \/ ActivateRetries(o) \/ NothingToClaim(o)
  BY <1>2, <1>3 DEF RecoverFirst, ActivateRetries, NothingToClaim, PC
<1>4. CASE Prepare(o)
  BY <1>1, <1>2, <1>4 DEF Prepare, PC
<1>5. CASE Setup(o)
  BY <1>2, <1>5 DEF Setup, PC
<1>6. CASE Ask(o)
  <2>1. CASE UNCHANGED asked
    BY <1>2, <1>6, <2>1 DEF Ask, PC, NewRequest
  <2>2. ASSUME NEW a \in ApprovalId, NEW scope \in Scope, NEW d \in Delays,
               NewRequest(o, a, scope, d), Goto(o, "await")
        PROVE  OwnMove(o)
    <3>1. approvals'[a].state = "pending" /\ asked' = [asked EXCEPT ![o] = @ \cup {a}]
      BY <2>2 DEF NewRequest, RequestApproval, WorkerInv, StoreInv, TypeOK
    <3> QED
      BY <1>0, <1>6, <2>2, <3>1, GotoTypes DEF Ask, OwnMove, PcOK, Up, Frame, WorkerTypeOK, PC
  <2> QED
    BY <1>6, <2>1, <2>2 DEF Ask
<1>7. CASE Spawn(o)
  <2>1. CASE child' = [child EXCEPT ![o] = "alive"] /\ Goto(o, "record")
    BY <1>0, <1>7, <2>1, GotoTypes
       DEF Spawn, OwnMove, PcOK, Up, Frame, WorkerTypeOK, PC, ChildState
  <2>2. CASE UNCHANGED child /\ Goto(o, "failing")
    BY <1>2, <1>7, <2>2 DEF Spawn, PC
  <2> QED
    BY <1>7, <2>1, <2>2 DEF Spawn
<1>8. CASE Record(o)
  <2>1. CASE Goto(o, "run") /\ beat' = [beat EXCEPT ![o] = HeartbeatInterval] /\ UNCHANGED child
    <3>1. beat' \in [Owner -> {Off, Lost} \cup 0..HeartbeatInterval]
      BY <1>0, <2>1, WorkerAssumption DEF WorkerTypeOK
    <3> QED
      BY <1>0, <1>8, <2>1, <3>1, GotoTypes
         DEF Record, OwnMove, PcOK, Up, Frame, WorkerTypeOK, PC
  <2>2. CASE /\ Goto(o, "abort") /\ child' = [child EXCEPT ![o] = Stopped(@)]
             /\ UNCHANGED beat
    <3>1. child' \in [Owner -> ChildState] /\ \A q \in Owner : q # o => child'[q] = child[q]
      BY <1>0, <2>2 DEF WorkerTypeOK, ChildState, Stopped
    <3> QED
      BY <1>0, <1>8, <2>2, <3>1, GotoTypes
         DEF Record, OwnMove, PcOK, Up, Frame, WorkerTypeOK, PC
  <2> QED
    BY <1>8, <2>1, <2>2 DEF Record
<1>9. CASE Abort(o) \/ GiveUp(o, "failing", "failed") \/ GiveUp(o, "refused", "cancelled") \/ Finish(o)
  BY <1>1, <1>9 DEF Abort, GiveUp, Finish
<1>10. CASE Waited(o)
  BY <1>0, <1>10, GotoTypes DEF Waited, OwnMove, PcOK, Up, Frame, WorkerTypeOK, PC
<1>11. CASE Closed(o)
  BY <1>0, <1>11, GotoTypes DEF Closed, OwnMove, PcOK, Up, Frame, WorkerTypeOK, PC
<1> QED
  BY <1>3, <1>4, <1>5, <1>6, <1>7, <1>8, <1>9, <1>10, <1>11 DEF Loop

LEMMA OtherMoves ==
  ASSUME WorkerInv, NEW o \in Owner, StudioStep(o), ~ Loop(o), KeepsAskers
  PROVE  OwnMove(o)
<1>0. /\ WorkerTypeOK /\ PcOK(o) /\ asked[o] \subseteq ApprovalId
      /\ \A a \in asked[o] : approvals'[a].state # "none"
  BY DEF WorkerInv, WorkerTypeOK, PcOK, KeepsAskers
<1> USE DEF OwnMove, PcOK, Up, Frame, WorkerTypeOK
<1>1. CASE Watch(o) \/ Exit(o) \/ Die(o)
  BY <1>0, <1>1 DEF Watch, Exit, Die, ChildState
<1>2. CASE Heartbeat(o)
  <2>1. beat' \in [Owner -> {Off, Lost} \cup 0..HeartbeatInterval]
        /\ \A q \in Owner : q # o => beat'[q] = beat[q]
    BY <1>0, <1>2, WorkerAssumption DEF Heartbeat
  <2>2. /\ child' \in [Owner -> ChildState]
        /\ \A q \in Owner : q # o => child'[q] = child[q]
        /\ child[o] = "none" => child'[o] = "none"
    BY <1>0, <1>2 DEF Heartbeat, ChildState, Stopped
  <2>3. UNCHANGED <<pc, claim, cancelled, closing, asked>> /\ pc[o] = "run"
    BY <1>2 DEF Heartbeat
  <2> QED
    BY <1>0, <2>1, <2>2, <2>3
<1>3. ASSUME NEW a \in ApprovalId, Handler(o, a) PROVE OwnMove(o)
  <2>1. ASSUME asked' = asked, UNCHANGED <<pc, claim, cancelled, closing, child, beat>>
        PROVE  OwnMove(o)
    BY <1>0, <2>1
  <2>2. ASSUME NEW yes \in BOOLEAN, Answer(o, a, yes),
               UNCHANGED <<claim, cancelled, closing, child, beat>>
        PROVE  OwnMove(o)
    BY <1>0, <2>2 DEF Answer, Startup, PC
  <2> QED
    BY <1>3, <2>1, <2>2 DEF Handler, AskDecided, AskCancelled, AskHeartbeat
<1>4. ASSUME NEW a \in ApprovalId, NEW scope \in Scope, GatewayAsk(o, a, scope)
      PROVE  OwnMove(o)
  <2>1. approvals'[a].state = "pending" /\ asked' = [asked EXCEPT ![o] = @ \cup {a}]
    BY <1>4 DEF GatewayAsk, NewRequest, RequestApproval, WorkerInv, StoreInv, TypeOK
  <2> QED
    BY <1>0, <1>4, <2>1 DEF GatewayAsk
<1>5. CASE Close(o)
  BY <1>0, <1>5 DEF Close
<1>6. CASE Crash(o)
  BY <1>0, <1>6 DEF Crash, Goto, PC, ChildState
<1>7. ASSUME NEW r \in Run, CancelRun(o, r) PROVE OwnMove(o)
  BY <1>0, <1>7 DEF CancelRun
<1> QED
  BY <1>1, <1>2, <1>3, <1>4, <1>5, <1>6, <1>7 DEF StudioStep

\* The claim a worker registers is the one the store made for it.
LEMMA ClaimFacts ==
  ASSUME WorkerInv, NEW o \in Owner, Claim(o)
  PROVE  \E r \in Run, d \in Delays :
           /\ Claimable(r, o, d) /\ ClaimRun(r, o, d)
           /\ claim' = [claim EXCEPT ![o] = <<r, Len(attempts'[r])>>]
           /\ Len(attempts'[r]) \in 1..Len(attempts'[r])
           /\ attempts'[r][Len(attempts'[r])].worker = o
<1>1. PICK r \in Run, d \in Delays : /\ Claimable(r, o, d) /\ ClaimRun(r, o, d)
  BY DEF Claim, ClaimNext
<1>2. PICK q \in Run : /\ lease'[q] # lease[q]
                       /\ claim' = [claim EXCEPT ![o] = <<q, Len(attempts'[q])>>]
  BY DEF Claim
<1>3. q = r
  BY <1>1, <1>2 DEF ClaimRun, WorkerInv, StoreInv, TypeOK
<1>4. attempts' = [attempts EXCEPT ![r] = Append(@, [worker |-> o, state |-> "preparing"])]
  BY <1>1 DEF ClaimRun
<1>5. /\ Len(attempts'[r]) = Len(attempts[r]) + 1 /\ Len(attempts[r]) \in Nat
      /\ attempts'[r][Len(attempts'[r])] = [worker |-> o, state |-> "preparing"]
  <2>1. TypeOK /\ Len(attempts[r]) \in Nat
    BY DEF WorkerInv, StoreInv, TypeOK
  <2> QED
    BY <1>4, <2>1, AppendRows
<1>6. Len(attempts'[r]) \in 1..Len(attempts'[r]) /\ attempts'[r][Len(attempts'[r])].worker = o
  BY <1>5
<1>7. claim' = [claim EXCEPT ![o] = <<r, Len(attempts'[r])>>]
  BY <1>2, <1>3
<1> QED
  BY <1>1, <1>6, <1>7

\* The rest of the invariant: claims are kept by every step of the store.
LEMMA ClaimKept ==
  ASSUME WorkerInv, KeepsWorkers, NEW o \in Owner, claim'[o] = claim[o] \/ claim'[o] = NoClaim
  PROVE  ClaimOK(o)'
<1>1. CASE claim'[o] = NoClaim
  BY <1>1 DEF ClaimOK
<1>2. CASE claim'[o] = claim[o] /\ claim[o] # NoClaim
  <2> DEFINE r == claim[o][1]
             n == claim[o][2]
  <2>1. r \in Run /\ n \in 1..Len(attempts[r]) /\ attempts[r][n].worker = o
    BY <1>2 DEF WorkerInv, ClaimOK, R, N, ClaimOwner
  <2>2. Len(attempts[r]) \in Nat /\ Len(attempts[r]) <= Len(attempts'[r])
    BY <2>1 DEF WorkerInv, StoreInv, TypeOK, KeepsWorkers
  <2>3. Len(attempts'[r]) <= MaxAttempts /\ attempts'[r][n].worker = o
    BY <2>1 DEF KeepsWorkers
  <2>4. r \in Run /\ n \in 1..Len(attempts'[r]) /\ attempts'[r][n].worker = o
    <3>1. n \in Nat /\ n >= 1 /\ n <= Len(attempts[r])
      BY <2>1, <2>2
    <3> QED
      BY <2>1, <2>2, <2>3, <3>1, RunStoreAssumption
  <2> QED
    BY <1>2, <2>4 DEF ClaimOK, R, N, ClaimOwner
<1> QED
  BY <1>1, <1>2

LEMMA StudioInvStep ==
  ASSUME WorkerInv, NEW o \in Owner, StudioStep(o)
  PROVE  /\ WorkerInv' /\ [Next]_vars /\ StoreStep(o) /\ Frame(o) /\ KeepsWorkers /\ KeepsAskers
         /\ ~ Claim(o) => OwnMove(o)
<1>1. StoreStep(o) /\ [Next]_vars /\ StoreInv' /\ KeepsWorkers /\ KeepsAskers
  BY StudioStepOfStore, StoreStepIsNext, StoreStepKeeps DEF WorkerInv
<1>2. WorkerTypeOK' /\ Frame(o) /\ ClaimOK(o)' /\ PcOK(o)' /\ (~ Claim(o) => OwnMove(o))
  <2>1. CASE ~ Claim(o)
    <3>1. OwnMove(o)
      BY <1>1, <2>1, LoopMoves, OtherMoves
    <3>2. ClaimOK(o)'
      BY <1>1, <3>1, ClaimKept DEF OwnMove
    <3> QED
      BY <3>1, <3>2 DEF OwnMove, PcOK
  <2>2. CASE Claim(o)
    <3>1. PICK r \in Run :
             /\ claim' = [claim EXCEPT ![o] = <<r, Len(attempts'[r])>>]
             /\ Len(attempts'[r]) \in 1..Len(attempts'[r])
             /\ attempts'[r][Len(attempts'[r])].worker = o
      BY <2>2, ClaimFacts
    <3>2. WorkerTypeOK /\ PcOK(o) /\ asked[o] \subseteq ApprovalId /\ Len(attempts'[r]) \in Nat
      BY <1>1 DEF WorkerInv, WorkerTypeOK, StoreInv, TypeOK
    <3>3. claim'[o] = <<r, Len(attempts'[r])>> /\ claim'[o] # NoClaim
      BY <3>1, <3>2, WorkerAssumption DEF WorkerTypeOK, NoClaim
    <3>4. ClaimOK(o)'
      BY <3>1, <3>3 DEF ClaimOK, R, N, ClaimOwner
    <3>5. /\ pc[o] = "claim" /\ pc' = [pc EXCEPT ![o] = "prepare"]
          /\ UNCHANGED <<cancelled, closing, child, beat, asked>>
      BY <2>2 DEF Claim, Goto
    <3>6. r \in Nat
      BY RunStoreAssumption
    <3>7. WorkerTypeOK' /\ Frame(o)
      BY <3>1, <3>2, <3>5, <3>6 DEF WorkerTypeOK, Frame, PC
    <3>8. PcOK(o)'
      <4>1. pc'[o] = "prepare"
        BY <3>2, <3>5 DEF WorkerTypeOK
      <4> QED
        BY <1>1, <3>2, <3>3, <3>5, <4>1 DEF PcOK, Up, KeepsAskers
    <3> QED
      BY <2>2, <3>4, <3>7, <3>8
  <2> QED
    BY <2>1, <2>2
<1>3. ASSUME NEW q \in Owner, q # o PROVE ClaimOK(q)' /\ PcOK(q)'
  <2>1. ClaimOK(q)'
    BY <1>1, <1>2, <1>3, ClaimKept DEF Frame
  <2>2. PcOK(q)'
    <3>1. PcOK(q) /\ asked[q] \subseteq ApprovalId
      BY DEF WorkerInv, WorkerTypeOK
    <3> QED
      BY <1>1, <1>2, <1>3, <3>1 DEF PcOK, Up, Frame, KeepsAskers
  <2> QED
    BY <2>1, <2>2
<1> QED
  BY <1>1, <1>2, <1>3 DEF WorkerInv

\* Steps of nobody's: time, routing and decisions.
WorldStep == TickAll \/ Environment \/ UNCHANGED allVars

LEMMA WorldInvStep ==
  ASSUME WorkerInv, WorldStep
  PROVE  /\ WorkerInv' /\ [Next]_vars /\ KeepsWorkers /\ KeepsAskers
         /\ UNCHANGED <<pc, claim, cancelled, closing, child, asked>>
<1>1. [Next]_vars /\ UNCHANGED <<pc, claim, cancelled, closing, child, asked>>
  BY DEF WorldStep, TickAll, Environment, allVars, wvars, Next, vars
<1>2. StoreInv' /\ KeepsWorkers /\ KeepsAskers
  BY <1>1, StoreStepKeeps DEF WorkerInv
<1>3. WorkerTypeOK'
  <2>1. CASE TickAll
    <3>1. \A x \in {Off, Lost} \cup 0..HeartbeatInterval :
             (IF x > 0 THEN x - 1 ELSE x) \in {Off, Lost} \cup 0..HeartbeatInterval
      BY WorkerAssumption DEF Off, Lost
    <3> QED
      BY <1>1, <2>1, <3>1 DEF TickAll, WorkerInv, WorkerTypeOK
  <2>2. CASE UNCHANGED beat
    BY <1>1, <2>2 DEF WorkerInv, WorkerTypeOK
  <2> QED
    BY <2>1, <2>2 DEF WorldStep, Environment, allVars, wvars
<1>4. ASSUME NEW q \in Owner PROVE ClaimOK(q)' /\ PcOK(q)'
  <2>1. ClaimOK(q)'
    BY <1>1, <1>2, ClaimKept
  <2>2. PcOK(q) /\ asked[q] \subseteq ApprovalId
    BY DEF WorkerInv, WorkerTypeOK
  <2>3. PcOK(q)'
    BY <1>1, <1>2, <2>2 DEF PcOK, Up, KeepsAskers
  <2> QED
    BY <2>1, <2>3
<1> QED
  BY <1>1, <1>2, <1>3, <1>4 DEF WorkerInv

LEMMA WorkerSteps ==
  ASSUME [WorkerNext]_allVars
  PROVE  WorldStep \/ \E o \in Owner : StudioStep(o)
  BY DEF WorkerNext, WorldStep, StudioStep

LEMMA WorkerStarts == WorkerInit => Init /\ WorkerInv
<1> SUFFICES ASSUME WorkerInit PROVE Init /\ WorkerInv
  OBVIOUS
<1>1. Init
  BY DEF WorkerInit
<1>2. StoreInv
  BY <1>1, RunStoreAssumption DEF Init, StoreInv, TypeOK, RunState, LeaseRow, NoLease, MadeBy, NoApproval
<1>3. WorkerTypeOK
  BY DEF WorkerInit, WorkerTypeOK, PC, NoClaim, ChildState
<1>4. \A o \in Owner : ClaimOK(o) /\ PcOK(o)
  BY DEF WorkerInit, ClaimOK, PcOK, Up
<1> QED
  BY <1>1, <1>2, <1>3, <1>4 DEF WorkerInv

LEMMA WorkerInvStep == WorkerInv /\ [WorkerNext]_allVars => WorkerInv' /\ [Next]_vars
  BY WorkerSteps, WorldInvStep, StudioInvStep

\* The workers, brokers, gateways and handlers of any number of Studios use the
\* store only by its transactions, and only with claims they were given: all that
\* is proved about the store's most general client holds for them.
THEOREM WorkerUsesStore == WorkerSpec => Spec
  BY WorkerStarts, WorkerInvStep, PTL DEF WorkerSpec, Spec

-----------------------------------------------------------------------------
(* A prompt machine: heartbeats are sent when they are due and reach the    *)
(* store before the lease they extend is over.                              *)

PromptMachine == Prompt /\ ~ StoreFaults /\ HeartbeatInterval + MaxDelay < LeaseTTL

BeforeRun == {"prepare", "setup", "ask", "await", "spawn", "record"}

\* The lease of the work in hand is live.  Before the process runs, more than a
\* heartbeat interval of it is left; while it runs, more than the next heartbeat
\* needs; after that, enough for what is left of RunOnce.
Secure(o) ==
  Up(o) /\ claim[o] # NoClaim =>
    /\ lease[R(o)].owner = o /\ lease[R(o)].left > 0
    /\ N(o) = Len(attempts[R(o)])
    /\ pc[o] \in BeforeRun => lease[R(o)].left > HeartbeatInterval
    /\ pc[o] = "run" => beat[o] \in Nat /\ lease[R(o)].left > beat[o]

LEMMA LeaseTyped ==
  ASSUME TypeOK, NEW r \in Run PROVE lease[r] \in LeaseRow /\ lease[r].left \in Int
<1>1. lease[r] \in LeaseRow
  BY DEF TypeOK
<1> QED
  BY <1>1 DEF LeaseRow

\* A store call of a worker whose claim is covered is not refused.
LEMMA NotRefused ==
  ASSUME PromptMachine, WorkerInv, NEW o \in Owner, Secure(o), Up(o), claim[o] # NoClaim,
         NEW d \in Delays
  PROVE  ~ Refused(o, d)
<1>1. R(o) \in Run /\ ClaimOwner(R(o), N(o)) = o
  BY DEF WorkerInv, ClaimOK
<1>2. lease[R(o)].left \in Int /\ d \in Nat
  BY <1>1, LeaseTyped, DelaysInNat DEF WorkerInv, StoreInv
<1> QED
  BY <1>1, <1>2 DEF Secure, Refused, VerifyLease, PromptMachine

\* A claim step writes the rows of its own run only, whose lease it holds.
LEMMA ClaimStepLocal ==
  ASSUME TypeOK, NEW r \in Run, NEW n, NEW d, ClaimStep(r, n, d), NEW q \in Run, q # r
  PROVE  /\ lease'[q] = lease[q] /\ attempts'[q] = attempts[q]
         /\ lease[r].owner = ClaimOwner(r, n)
  BY DEF ClaimStep, PrepareClaim, StartAttempt, HeartbeatLease, CompleteClaim, ScheduleClaimRetry,
         RequestApproval, VerifyLease, SetAttempt, TypeOK

\* What one Studio does leaves the lease and the attempts of another one's work
\* alone: recovery takes expired rows, a claim a run without a row, and a call
\* needs the lease of its own run.
LEMMA OthersUndisturbed ==
  ASSUME WorkerInv, NEW p \in Owner, StoreStep(p),
         NEW o \in Owner, o # p, Up(o), claim[o] # NoClaim, Secure(o)
  PROVE  lease'[R(o)] = lease[R(o)] /\ Len(attempts'[R(o)]) = Len(attempts[R(o)])
<1>0. /\ TypeOK /\ R(o) \in Run /\ lease[R(o)].left \in Int /\ lease[R(o)].left > 0
      /\ lease[R(o)].owner = o /\ HasLease(R(o))
  BY LeaseTyped, RunStoreAssumption DEF WorkerInv, StoreInv, ClaimOK, Secure, HasLease
<1> DEFINE q == R(o)
<1> HIDE DEF q
<1>1. /\ TypeOK /\ q \in Run /\ lease[q].left \in Int /\ lease[q].left > 0
      /\ lease[q].owner = o /\ HasLease(q)
  BY <1>0 DEF q
<1>2. CASE UNCHANGED vars
  BY <1>2 DEF vars
<1>3. ASSUME NEW d \in Delays, RecoverExpiredLeases(d)
      PROVE  lease'[q] = lease[q] /\ attempts'[q] = attempts[q]
  <2>1. ~ Expired(q, d)
    BY <1>1, DelaysInNat DEF Expired
  <2> QED
    BY <1>1, <1>3, <2>1 DEF RecoverExpiredLeases
<1>4. ASSUME NEW d \in Delays, ClaimNext(p, d)
      PROVE  lease'[q] = lease[q] /\ attempts'[q] = attempts[q]
  BY <1>1, <1>4 DEF ClaimNext, ClaimRun, TypeOK
<1>5. ASSUME OwnCall(p)
      PROVE  lease'[q] = lease[q] /\ attempts'[q] = attempts[q]
  <2>1. R(p) \in Run /\ ClaimOwner(R(p), N(p)) = p
    BY <1>5 DEF WorkerInv, ClaimOK, OwnCall
  <2>2. PICK d \in Delays : ClaimStep(R(p), N(p), d)
    BY <1>5 DEF OwnCall
  <2>3. lease[R(p)].owner = p
    BY <2>1, <2>2 DEF ClaimStep, PrepareClaim, StartAttempt, HeartbeatLease, CompleteClaim,
                      ScheduleClaimRetry, RequestApproval, VerifyLease
  <2> QED
    BY <1>1, <2>1, <2>2, <2>3, ClaimStepLocal
<1>6. CASE \/ \E d \in Delays : ActivateDueRetries(d)
           \/ \E r \in Run : CancelPendingRun(r)
           \/ \E a \in ApprovalId : CancelApproval(a)
  BY <1>6 DEF ActivateDueRetries, CancelPendingRun, CancelApproval
<1> QED
  BY <1>2, <1>3, <1>4, <1>5, <1>6 DEF StoreStep, q

\* The work in hand stays covered when its lease is left as it is or renewed.
LEMMA SecureKept ==
  ASSUME WorkerInv, WorkerTypeOK', NEW o \in Owner, Secure(o), Up(o), claim[o] # NoClaim,
         claim'[o] = claim[o],
         lease'[R(o)].owner = lease[R(o)].owner,
         lease'[R(o)].left \in Int,
         lease'[R(o)].left = lease[R(o)].left \/ lease'[R(o)].left > HeartbeatInterval,
         Len(attempts'[R(o)]) = Len(attempts[R(o)]),
         pc'[o] \in BeforeRun => pc[o] \in BeforeRun,
         pc'[o] = "run" =>
           \/ pc[o] = "run" /\ beat'[o] = beat[o]
           \/ /\ beat'[o] \in 0..HeartbeatInterval
              /\ pc[o] \in BeforeRun \/ lease'[R(o)].left > HeartbeatInterval
  PROVE  Secure(o)'
<1>1. R(o)' = R(o) /\ N(o)' = N(o) /\ R(o) \in Run
  BY DEF R, N, WorkerInv, ClaimOK
<1> DEFINE q == R(o)
<1>2. R(o)' = q /\ N(o)' = N(o) /\ q = R(o)
  BY <1>1
<1>3. /\ lease[q].left \in Int /\ HeartbeatInterval \in Nat
      /\ beat[o] \in {Off, Lost} \cup 0..HeartbeatInterval
  BY <1>1, LeaseTyped, WorkerAssumption DEF WorkerInv, StoreInv, WorkerTypeOK
<1> HIDE DEF q
<1>4. /\ lease[q].owner = o /\ lease[q].left > 0 /\ N(o) = Len(attempts[q])
      /\ pc[o] \in BeforeRun => lease[q].left > HeartbeatInterval
      /\ pc[o] = "run" => beat[o] \in Nat /\ lease[q].left > beat[o]
  BY <1>2 DEF Secure
<1>5. pc'[o] = "run" => beat'[o] \in Nat /\ lease'[q].left > beat'[o]
  <2>1. CASE pc[o] = "run" /\ beat'[o] = beat[o]
    <3>1. beat[o] <= HeartbeatInterval
      BY <1>3, WorkerAssumption DEF Off, Lost
    <3> QED
      BY <1>2, <1>3, <1>4, <2>1, <3>1
  <2>2. CASE /\ beat'[o] \in 0..HeartbeatInterval
             /\ pc[o] \in BeforeRun \/ lease'[R(o)].left > HeartbeatInterval
    BY <1>2, <1>3, <1>4, <2>2
  <2> QED
    BY <2>1, <2>2
<1>6. lease'[q].left > 0 /\ (pc'[o] \in BeforeRun => lease'[q].left > HeartbeatInterval)
  BY <1>2, <1>3, <1>4
<1> QED
  BY <1>2, <1>4, <1>5, <1>6 DEF Secure

\* A new claim begins with a whole lease, less the age of its instant.
LEMMA ClaimSecure ==
  ASSUME PromptMachine, WorkerInv, WorkerInv', NEW o \in Owner, Claim(o)
  PROVE  Secure(o)'
<1>1. PICK r \in Run, d \in Delays :
        /\ ClaimRun(r, o, d)
        /\ claim' = [claim EXCEPT ![o] = <<r, Len(attempts'[r])>>]
  BY ClaimFacts
<1>2. d \in Nat /\ d <= MaxDelay
  BY RunStoreAssumption DEF Delays
<1>3. LeaseTTL - d > HeartbeatInterval /\ LeaseTTL - d > 0
  BY <1>2, RunStoreAssumption, WorkerAssumption DEF PromptMachine
<1>4. lease'[r] = [owner |-> o, left |-> LeaseTTL - d]
  BY <1>1 DEF ClaimRun, WorkerInv, StoreInv, TypeOK
<1>5. R(o)' = r /\ N(o)' = Len(attempts'[r])
  BY <1>1 DEF WorkerInv, WorkerTypeOK, R, N
<1>6. pc'[o] = "prepare"
  BY DEF Claim, Goto, WorkerInv, WorkerTypeOK
<1> QED
  BY <1>3, <1>4, <1>5, <1>6 DEF Secure

\* The calls a worker makes for its claim, other than its last, leave its lease
\* and the number of its attempts as they are, or renew the lease.
HoldKept(o) ==
  /\ lease'[R(o)].owner = lease[R(o)].owner
  /\ lease'[R(o)].left \in Int
  /\ lease'[R(o)].left = lease[R(o)].left \/ lease'[R(o)].left > HeartbeatInterval
  /\ Len(attempts'[R(o)]) = Len(attempts[R(o)])

LEMMA CallsKeepHold ==
  ASSUME PromptMachine, WorkerInv, NEW o \in Owner, claim[o] # NoClaim,
         \/ UNCHANGED <<lease, attempts>>
         \/ \E d \in Delays : HeartbeatLease(R(o), N(o), d) \/ StartAttempt(R(o), N(o), d)
  PROVE  HoldKept(o)
<1>1. R(o) \in Run /\ N(o) \in 1..Len(attempts[R(o)]) /\ lease[R(o)] \in LeaseRow /\ TypeOK
      /\ lease[R(o)].left \in Int
  BY LeaseTyped DEF WorkerInv, ClaimOK, StoreInv
<1>2. CASE UNCHANGED <<lease, attempts>>
  BY <1>1, <1>2 DEF HoldKept
<1>3. ASSUME NEW d \in Delays, HeartbeatLease(R(o), N(o), d) PROVE HoldKept(o)
  <2>1. d \in Nat /\ d <= MaxDelay
    BY RunStoreAssumption DEF Delays
  <2>2. LeaseTTL - d \in Int /\ LeaseTTL - d > HeartbeatInterval
    BY <2>1, RunStoreAssumption, WorkerAssumption DEF PromptMachine
  <2>3. lease' = [lease EXCEPT ![R(o)].left = LeaseTTL - d] /\ attempts' = attempts
    BY <1>3 DEF HeartbeatLease
  <2>4. lease'[R(o)] = [lease[R(o)] EXCEPT !.left = LeaseTTL - d]
    BY <1>1, <2>3 DEF TypeOK
  <2>5. lease'[R(o)].owner = lease[R(o)].owner /\ lease'[R(o)].left = LeaseTTL - d
    BY <1>1, <2>2, <2>4, LeaseRowTyped
  <2> QED
    BY <2>2, <2>3, <2>5 DEF HoldKept
<1>4. ASSUME NEW d \in Delays, StartAttempt(R(o), N(o), d) PROVE HoldKept(o)
  <2>1. Len(attempts'[R(o)]) = Len(attempts[R(o)])
    BY <1>1, <1>4, SetAttemptRows DEF StartAttempt, AttemptState, OpenStates
  <2> QED
    BY <1>1, <1>4, <2>1 DEF HoldKept, StartAttempt
<1> QED
  BY <1>2, <1>3, <1>4

\* RunOnce goes on with a covered claim, or returns.
LEMMA LoopSecure ==
  ASSUME PromptMachine, WorkerInv, WorkerInv', NEW o \in Owner, Secure(o), Loop(o)
  PROVE  Secure(o)'
<1>0. /\ WorkerTypeOK /\ WorkerTypeOK'
      /\ pc[o] \in PC \ {"idle", "activate", "claim", "down"} => Up(o) /\ claim[o] # NoClaim
      /\ pc[o] \in {"idle", "activate", "claim"} => claim[o] = NoClaim
  BY DEF WorkerInv, PcOK, Up
<1>1. ASSUME claim'[o] = NoClaim PROVE Secure(o)'
  BY <1>1 DEF Secure
<1>2. CASE Return(o)
  BY <1>0, <1>1, <1>2, ReturnTypes
<1>3. CASE Claim(o)
  BY <1>3, ClaimSecure
<1>4. CASE RecoverFirst(o) \/ ActivateRetries(o) \/ NothingToClaim(o) \/ Closed(o)
  BY <1>0, <1>1, <1>4 DEF RecoverFirst, ActivateRetries, NothingToClaim, Closed
<1>5. ASSUME UNCHANGED <<lease, attempts>>, claim' = claim, claim[o] # NoClaim, Up(o),
             pc'[o] \in BeforeRun => pc[o] \in BeforeRun,
             pc'[o] = "run" => pc[o] = "run" /\ beat' = beat
      PROVE  Secure(o)'
  BY <1>0, <1>5, CallsKeepHold, SecureKept DEF HoldKept
<1>6. CASE Prepare(o)
  <2>1. CASE /\ Goto(o, "setup") /\ UNCHANGED <<lease, attempts, claim, beat>>
    BY <1>0, <1>5, <1>6, <2>1, GotoTypes DEF Prepare, PC, BeforeRun
  <2> QED
    BY <1>2, <1>6, <2>1 DEF Prepare, PrepareClaim
<1>7. CASE Setup(o)
  <2>1. PICK p \in {"failing", "ask", "spawn"} : Goto(o, p)
    BY <1>7 DEF Setup
  <2>2. pc'[o] = p
    BY <1>0, <2>1, GotoTypes DEF PC
  <2> QED
    BY <1>0, <1>5, <1>7, <2>2 DEF Setup, PC, BeforeRun, vars
<1>8. CASE Ask(o)
  <2>1. PICK p \in {"await", "spawn", "refused"} : Goto(o, p)
    BY <1>8 DEF Ask
  <2>2. pc'[o] = p
    BY <1>0, <2>1, GotoTypes DEF PC
  <2>3. UNCHANGED <<lease, attempts, claim, beat>> /\ pc[o] = "ask"
    BY <1>8 DEF Ask, NewRequest, RequestApproval, vars
  <2> QED
    BY <1>0, <1>5, <2>2, <2>3 DEF PC, BeforeRun
<1>9. CASE Spawn(o)
  <2>1. PICK p \in {"record", "failing"} : Goto(o, p)
    BY <1>9 DEF Spawn
  <2>2. pc'[o] = p
    BY <1>0, <2>1, GotoTypes DEF PC
  <2> QED
    BY <1>0, <1>5, <1>9, <2>2 DEF Spawn, PC, BeforeRun, vars
<1>10. CASE Record(o)
  <2>0. Up(o) /\ claim[o] # NoClaim /\ claim' = claim /\ pc[o] = "record"
    BY <1>0, <1>10 DEF Record, PC
  <2>1. ASSUME NEW d \in Delays, StartAttempt(R(o), N(o), d), Goto(o, "run"),
               beat' = [beat EXCEPT ![o] = HeartbeatInterval]
        PROVE  Secure(o)'
    <3>1. HoldKept(o)
      BY <2>0, <2>1, CallsKeepHold
    <3>2. pc'[o] = "run" /\ beat'[o] \in 0..HeartbeatInterval
      BY <1>0, <2>1, GotoTypes, WorkerAssumption DEF PC, WorkerTypeOK
    <3> QED
      BY <1>0, <2>0, <3>1, <3>2, SecureKept DEF HoldKept, BeforeRun
  <2>2. CASE Goto(o, "abort") /\ UNCHANGED <<vars, beat>>
    <3>1. pc'[o] = "abort"
      BY <1>0, <2>2, GotoTypes DEF PC
    <3> QED
      BY <1>5, <2>0, <2>2, <3>1 DEF BeforeRun, vars
  <2> QED
    BY <1>10, <2>1, <2>2 DEF Record
<1>11. CASE Abort(o) \/ GiveUp(o, "failing", "failed") \/ GiveUp(o, "refused", "cancelled") \/ Finish(o)
  BY <1>2, <1>11 DEF Abort, GiveUp, Finish
<1>12. CASE Waited(o)
  <2>1. pc'[o] = "finish"
    BY <1>0, <1>12, GotoTypes DEF Waited, PC
  <2> QED
    BY <1>0, <1>5, <1>12, <2>1 DEF Waited, PC, BeforeRun, vars
<1> QED
  BY <1>3, <1>4, <1>6, <1>7, <1>8, <1>9, <1>10, <1>11, <1>12 DEF Loop

\* The other goroutines of a Studio keep its claim covered.
LEMMA OtherSecure ==
  ASSUME PromptMachine, WorkerInv, WorkerInv', NEW o \in Owner, Secure(o), StudioStep(o), ~ Loop(o)
  PROVE  Secure(o)'
<1>0. WorkerTypeOK /\ WorkerTypeOK' /\ PcOK(o) /\ PcOK(o)'
  BY DEF WorkerInv
<1>1. ASSUME claim' = claim, claim[o] # NoClaim, Up(o), HoldKept(o),
             pc'[o] \in BeforeRun => pc[o] \in BeforeRun,
             pc'[o] = "run" =>
               /\ pc[o] = "run"
               /\ \/ beat'[o] = beat[o]
                  \/ /\ beat'[o] = HeartbeatInterval
                     /\ lease'[R(o)].left > HeartbeatInterval
      PROVE  Secure(o)'
  BY <1>0, <1>1, SecureKept, WorkerAssumption DEF HoldKept
<1>2. ASSUME UNCHANGED <<lease, attempts, claim, beat>>,
             pc'[o] = pc[o] \/ (pc[o] = "await" /\ pc'[o] \in {"spawn", "refused"})
      PROVE  Secure(o)'
  <2>1. CASE claim[o] # NoClaim /\ Up(o)
    <3>1. HoldKept(o)
      BY <1>2, <2>1, CallsKeepHold
    <3> QED
      BY <1>1, <1>2, <2>1, <3>1 DEF BeforeRun
  <2>2. CASE claim[o] = NoClaim \/ ~ Up(o)
    BY <1>2, <2>2 DEF Secure, Up
  <2> QED
    BY <2>1, <2>2
<1>3. CASE Watch(o) \/ Exit(o) \/ Die(o) \/ Close(o)
  BY <1>2, <1>3 DEF Watch, Exit, Die, Close, vars
<1>4. CASE Crash(o)
  BY <1>0, <1>4 DEF Crash, Goto, WorkerTypeOK, Secure, Up
<1>5. CASE Heartbeat(o)
  <2>1. Up(o) /\ claim[o] # NoClaim /\ pc[o] = "run" /\ UNCHANGED <<pc, claim>>
    BY <1>0, <1>5 DEF Heartbeat, PcOK, Up
  <2>2. PICK d \in Delays : /\ HeartbeatLease(R(o), N(o), d)
                            /\ beat' = [beat EXCEPT ![o] = HeartbeatInterval]
    BY <1>5, <2>1, NotRefused DEF Heartbeat
  <2>3. HoldKept(o) /\ beat'[o] = HeartbeatInterval
    BY <1>0, <2>1, <2>2, CallsKeepHold DEF WorkerTypeOK
  <2>4. lease'[R(o)].left > HeartbeatInterval
    <3>0. d \in Nat /\ d <= MaxDelay
      BY RunStoreAssumption DEF Delays
    <3>1. R(o) \in Run /\ lease[R(o)] \in LeaseRow
      BY <2>1, LeaseTyped DEF WorkerInv, StoreInv, ClaimOK
    <3>2. lease'[R(o)] = [lease[R(o)] EXCEPT !.left = LeaseTTL - d]
      BY <2>2, <3>1 DEF HeartbeatLease, WorkerInv, StoreInv, TypeOK
    <3>3. LeaseTTL - d \in Int /\ LeaseTTL - d > HeartbeatInterval
      BY <3>0, RunStoreAssumption, WorkerAssumption DEF PromptMachine
    <3> QED
      BY <3>1, <3>2, <3>3, LeaseRowTyped
  <2> QED
    BY <1>1, <2>1, <2>3, <2>4
<1>6. ASSUME NEW a \in ApprovalId, Handler(o, a) PROVE Secure(o)'
  <2>1. a \in asked[o] /\ UNCHANGED <<claim, beat>>
    BY <1>6 DEF Handler, AskDecided, AskCancelled, AskHeartbeat
  <2>2. Up(o)
    BY <1>0, <2>1 DEF PcOK
  <2>3. CASE UNCHANGED <<lease, attempts>> /\ \E yes \in BOOLEAN : Answer(o, a, yes)
    <3>1. pc'[o] = pc[o] \/ (pc[o] = "await" /\ pc'[o] \in {"spawn", "refused"})
      BY <1>0, <2>3 DEF Answer, Startup, WorkerTypeOK
    <3> QED
      BY <1>2, <2>1, <2>3, <3>1
  <2>4. ASSUME NEW d \in Delays, HeartbeatLease(R(o), N(o), d), UNCHANGED pc,
               ~ AskDone(o, a)
        PROVE  Secure(o)'
    <3>1. approvals[a].run \in Run
      BY <1>0, <2>1, ApprovalTyped DEF PcOK, WorkerInv, StoreInv
    <3>2. claim[o] # NoClaim
      BY <2>4, <3>1, WorkerAssumption DEF AskDone, NoClaim
    <3> QED
      <4>1. HoldKept(o)
        BY <2>4, <3>2, CallsKeepHold
      <4> QED
        BY <1>1, <2>1, <2>2, <2>4, <3>2, <4>1
  <2> QED
    BY <1>6, <2>3, <2>4
       DEF Handler, AskDecided, AskCancelled, AskHeartbeat, CancelApproval, vars
<1>7. ASSUME NEW a \in ApprovalId, NEW scope \in Scope, GatewayAsk(o, a, scope)
      PROVE  Secure(o)'
  BY <1>2, <1>7 DEF GatewayAsk, NewRequest, RequestApproval
<1>8. ASSUME NEW r \in Run, CancelRun(o, r) PROVE Secure(o)'
  BY <1>2, <1>8 DEF CancelRun, CancelPendingRun, vars
<1> QED
  BY <1>3, <1>4, <1>5, <1>6, <1>7, <1>8 DEF StudioStep

\* Time: a machine that is fast enough lets a unit pass only while what is left
\* of each lease is more than what its worker still needs.
LEMMA WorldSecure ==
  ASSUME PromptMachine, WorkerInv, WorkerInv', NEW o \in Owner, Secure(o), WorldStep
  PROVE  Secure(o)'
<1>0. UNCHANGED <<pc, claim>>
  BY WorldInvStep
<1>1. CASE ~ Up(o) \/ claim[o] = NoClaim
  BY <1>0, <1>1 DEF Secure, Up
<1>2. CASE Up(o) /\ claim[o] # NoClaim /\ TickAll
  <2> DEFINE q == R(o)
  <2>1. /\ q \in Run /\ lease[q] \in LeaseRow /\ lease[q].left \in Int
        /\ lease[q].owner = o /\ lease[q].left > 0 /\ o # NoOwner
        /\ N(o) = Len(attempts[q])
        /\ pc[o] = "run" => beat[o] \in Nat /\ lease[q].left > beat[o]
    BY <1>2, LeaseTyped, RunStoreAssumption DEF WorkerInv, StoreInv, ClaimOK, Secure
  <2>2. /\ beat[o] # 0 /\ (pc[o] # "run" => lease[q].left > HeartbeatInterval + 1)
    BY <1>2 DEF TickAll, PromptMachine, PromptTick
  <2>3. q' = q /\ N(o)' = N(o) /\ attempts' = attempts
    BY <1>0, <1>2 DEF TickAll, Tick, R, N
  <2> HIDE DEF q
  <2>4. lease'[q].owner = o /\ lease'[q].left = lease[q].left - 1
    <3>1. lease'[q] = [lease[q] EXCEPT !.left = Sooner(@)]
      BY <1>2, <2>1 DEF TickAll, Tick, AgeLease
    <3>2. Sooner(lease[q].left) = lease[q].left - 1
      BY <2>1, RunStoreAssumption DEF Sooner
    <3> QED
      BY <2>1, <3>1, <3>2, LeaseRowTyped
  <2>5. pc[o] = "run" => beat'[o] = beat[o] - 1 /\ beat[o] > 0
    BY <1>2, <2>1, <2>2 DEF TickAll
  <2>6. /\ lease'[q].left > 0
        /\ pc[o] # "run" => lease'[q].left > HeartbeatInterval
        /\ pc[o] = "run" => beat'[o] \in Nat /\ lease'[q].left > beat'[o]
    BY <2>1, <2>2, <2>4, <2>5, WorkerAssumption
  <2> QED
    BY <1>0, <2>1, <2>3, <2>4, <2>6 DEF Secure, BeforeRun, q
<1>3. CASE Up(o) /\ claim[o] # NoClaim /\ (Environment \/ UNCHANGED allVars)
  <2>1. UNCHANGED <<lease, attempts, beat>>
    BY <1>3 DEF Environment, RouteRun, DecideApproval, allVars, wvars, vars
  <2> QED
    BY <1>0, <2>1 DEF Secure, Up, R, N
<1> QED
  BY <1>1, <1>2, <1>3 DEF WorldStep

AllSecure == \A o \in Owner : Secure(o)

LEMMA SecureStep ==
  PromptMachine /\ WorkerInv /\ AllSecure /\ [WorkerNext]_allVars => AllSecure'
<1> SUFFICES ASSUME PromptMachine, WorkerInv, AllSecure, [WorkerNext]_allVars, NEW o \in Owner
             PROVE  Secure(o)'
  BY DEF AllSecure
<1>0. WorkerInv' /\ Secure(o)
  BY WorkerInvStep DEF AllSecure
<1>1. CASE WorldStep
  BY <1>0, <1>1, WorldSecure
<1>2. CASE StudioStep(o)
  BY <1>0, <1>2, LoopSecure, OtherSecure
<1>3. ASSUME NEW p \in Owner, p # o, StudioStep(p) PROVE Secure(o)'
  <2>1. StoreStep(p) /\ Frame(p)
    BY <1>3, StudioInvStep
  <2>2. /\ pc'[o] = pc[o] /\ claim'[o] = claim[o] /\ beat'[o] = beat[o]
        /\ WorkerTypeOK'
    BY <1>0, <1>3, <2>1 DEF Frame, WorkerInv
  <2>3. CASE Up(o) /\ claim[o] # NoClaim
    <3>1. lease'[R(o)] = lease[R(o)] /\ Len(attempts'[R(o)]) = Len(attempts[R(o)])
      BY <1>0, <1>3, <2>1, <2>3, OthersUndisturbed
    <3>2. lease[R(o)].left \in Int
      BY <2>3, LeaseTyped DEF WorkerInv, StoreInv, ClaimOK
    <3> QED
      BY <1>0, <2>2, <2>3, <3>1, <3>2, SecureKept
  <2>4. CASE ~ Up(o) \/ claim[o] = NoClaim
    BY <2>2, <2>4 DEF Secure, Up
  <2> QED
    BY <2>3, <2>4
<1> QED
  BY <1>1, <1>2, <1>3, WorkerSteps

LEMMA SecureStarts == WorkerInit => AllSecure
  BY DEF WorkerInit, AllSecure, Secure

\* On a prompt machine nobody else can take the work that a worker is executing:
\* its Studio holds the lease, live, from the claim until RunOnce returns.
THEOREM WorkCoverage == PromptMachine /\ WorkerSpec => []WorkIsCovered
<1>1. WorkerInv /\ AllSecure => WorkIsCovered
  <2> SUFFICES ASSUME WorkerInv, AllSecure, NEW o \in Owner, Up(o), claim[o] # NoClaim
               PROVE  VerifyLease(R(o), N(o), 0) /\ N(o) = Len(attempts[R(o)])
    BY DEF WorkIsCovered, LeaseOutlivesWork, WorkerInv
  <2>1. ClaimOwner(R(o), N(o)) = o /\ R(o) \in Run
    BY DEF WorkerInv, ClaimOK
  <2>2. lease[R(o)].left \in Int
    BY <2>1, LeaseTyped DEF WorkerInv, StoreInv
  <2> QED
    BY <2>1, <2>2 DEF AllSecure, Secure, VerifyLease
<1>2. CASE PromptMachine
  <2>1. WorkerInv /\ AllSecure /\ [WorkerNext]_allVars => WorkerInv' /\ AllSecure'
    BY <1>2, SecureStep, WorkerInvStep
  <2> QED
    BY <1>1, <2>1, WorkerStarts, SecureStarts, PTL DEF WorkerSpec
<1> QED
  BY <1>2

-----------------------------------------------------------------------------
(* Work in hand is exclusive                                                *)

\* Two Studios work in one workspace only on readonly runs.
WorkExclusive ==
  \A o, p \in Owner :
    /\ o # p /\ Up(o) /\ Up(p) /\ claim[o] # NoClaim /\ claim[p] # NoClaim
    /\ WorkspaceOf[R(o)] = WorkspaceOf[R(p)]
    => ~ WriteMode(R(o)) /\ ~ WriteMode(R(p))

\* A Studio that is down does nothing any more.
LEMMA DownStays ==
  ASSUME WorkerInv, NEW o \in Owner, ~ Up(o), StudioStep(o)
  PROVE  ~ Up(o)'
<1>1. asked[o] = {} /\ pc[o] = "down"
  BY DEF WorkerInv, PcOK, Up
<1> QED
  BY <1>1
     DEF StudioStep, Loop, RecoverFirst, ActivateRetries, Claim, NothingToClaim, Prepare, Setup, Ask,
         Spawn, Record, Abort, GiveUp, Waited, Finish, Closed, Watch, Exit, Die, Heartbeat, Handler,
         AskDecided, AskCancelled, AskHeartbeat, GatewayAsk, Close, Crash, CancelRun, Up

\* Only a claim adds work.  It finds the leases of all work in hand live, at the
\* instant its transaction was given, however old that is.
LEMMA WorkExclusiveStep ==
  WorkerInv /\ AllSecure /\ WorkExclusive /\ [WorkerNext]_allVars => WorkExclusive'
<1> SUFFICES ASSUME WorkerInv, AllSecure, WorkExclusive, [WorkerNext]_allVars
             PROVE  WorkExclusive'
  OBVIOUS
<1> DEFINE Kept(q) == Up(q)' /\ claim'[q] # NoClaim =>
                        Up(q) /\ claim[q] # NoClaim /\ R(q)' = R(q)
<1>1. ASSUME \A q \in Owner : Kept(q) PROVE WorkExclusive'
  BY <1>1 DEF WorkExclusive
<1>2. \A o \in Owner : ~ Up(o) /\ StudioStep(o) => ~ Up(o)'
  BY DownStays
<1>3. CASE WorldStep
  BY <1>1, <1>3, WorldInvStep DEF Up, R
<1>4. ASSUME NEW o \in Owner, StudioStep(o), ~ Claim(o) PROVE WorkExclusive'
  <2>1. Frame(o) /\ OwnMove(o)
    BY <1>4, StudioInvStep
  <2>2. \A q \in Owner : Kept(q)
    BY <1>2, <1>4, <2>1 DEF Frame, OwnMove, Up, R
  <2> QED
    BY <1>1, <2>2
<1>5. ASSUME NEW o \in Owner, Claim(o) PROVE WorkExclusive'
  <2>1. PICK r \in Run, d \in Delays :
          /\ Claimable(r, o, d)
          /\ claim' = [claim EXCEPT ![o] = <<r, Len(attempts'[r])>>]
    BY <1>5, ClaimFacts
  <2>2. R(o)' = r /\ \A q \in Owner : q # o => claim'[q] = claim[q] /\ R(q)' = R(q)
    BY <2>1 DEF R, WorkerInv, WorkerTypeOK
  <2>3. \A q \in Owner : q # o => (Up(q)' <=> Up(q))
    BY <1>5 DEF Claim, Goto, Up, WorkerInv, WorkerTypeOK
  <2>4. ASSUME NEW q \in Owner, q # o, Up(q), claim[q] # NoClaim,
               WorkspaceOf[R(q)] = WorkspaceOf[r]
        PROVE  ~ WriteMode(r) /\ ~ WriteMode(R(q))
    <3>1. /\ R(q) \in Run /\ lease[R(q)].left \in Int /\ lease[R(q)].left > 0
          /\ lease[R(q)].owner = q /\ d \in Nat
      BY <2>4, LeaseTyped, DelaysInNat DEF WorkerInv, StoreInv, ClaimOK, AllSecure, Secure
    <3>2. Live(R(q), d)
      BY <3>1, RunStoreAssumption DEF Live, HasLease
    <3> QED
      BY <2>1, <2>4, <3>1, <3>2 DEF Claimable, WorkspaceLeaseAvailable
  <2> QED
    BY <2>2, <2>3, <2>4 DEF WorkExclusive, WriteMode
<1> QED
  BY <1>3, <1>4, <1>5, WorkerSteps

\* On a prompt machine two Studios run harness processes in one workspace only
\* for readonly runs, also while a process is being stopped.
THEOREM ProcessExclusion == PromptMachine /\ WorkerSpec => []ProcessExclusive
<1>1. WorkerInv /\ WorkExclusive => ProcessExclusive
  <2> SUFFICES ASSUME WorkerInv, WorkExclusive PROVE ProcessExclusive
    OBVIOUS
  <2>1. \A o \in Owner : Executing(o) => Up(o) /\ claim[o] # NoClaim
    BY DEF Executing, WorkerInv, PcOK
  <2> QED
    BY <2>1 DEF WorkExclusive, ProcessExclusive
<1>2. WorkerInit => WorkExclusive
  BY DEF WorkerInit, WorkExclusive
<1>3. CASE PromptMachine
  <2>1. WorkerInv /\ AllSecure /\ WorkExclusive /\ [WorkerNext]_allVars =>
          WorkerInv' /\ AllSecure' /\ WorkExclusive'
    BY <1>3, SecureStep, WorkerInvStep, WorkExclusiveStep
  <2> QED
    BY <1>1, <1>2, <2>1, WorkerStarts, SecureStarts, PTL DEF WorkerSpec
<1> QED
  BY <1>3

-----------------------------------------------------------------------------
(* The leases of a prompt machine exclude each other, whatever MaxDelay is  *)

NoneAppears == \A q \in Run : Live(q, 0)' => Live(q, 0)

\* A claim of r, and of no other run, finds the workspace free for it.
OneAppears(r) ==
  /\ ~ Live(r, 0)
  /\ \A s \in Run : s # r => (Live(s, 0)' <=> Live(s, 0))
  /\ \A s \in Run : Live(s, 0) /\ WorkspaceOf[s] = WorkspaceOf[r]
                      => ~ WriteMode(r) /\ ~ WriteMode(s)

\* An old instant makes more leases look live, never fewer.
LEMMA LiveEarlier ==
  ASSUME TypeOK, NEW s \in Run, NEW d \in Delays, Live(s, 0)
  PROVE  Live(s, d)
<1>1. lease[s].left \in Int /\ d \in Nat
  BY LeaseTyped, DelaysInNat
<1> QED
  BY <1>1 DEF Live

\* A heartbeat that was given an old instant still finds its lease live, because
\* the work it is sent for is covered; so it brings no lease back to life.
LEMMA StudioLive ==
  ASSUME WorkerInv, AllSecure, NEW o \in Owner, StoreStep(o)
  PROVE  NoneAppears \/ \E r \in Run : OneAppears(r)
<1>0. TypeOK /\ lease \in [Run -> LeaseRow]
  BY DEF WorkerInv, StoreInv, TypeOK
<1>1. ASSUME lease' = lease PROVE NoneAppears
  BY <1>1 DEF NoneAppears, Live, HasLease
<1>2. ASSUME \A q \in Run : lease'[q] = NoLease \/ lease'[q] = lease[q] PROVE NoneAppears
  BY <1>2 DEF NoneAppears, NoLease, Live, HasLease
<1>3. ASSUME NEW d \in Delays, RecoverExpiredLeases(d) PROVE NoneAppears
  BY <1>2, <1>3 DEF RecoverExpiredLeases
<1>4. ASSUME NEW d \in Delays, ClaimNext(o, d) PROVE \E r \in Run : OneAppears(r)
  <2>1. PICK r \in Run : Claimable(r, o, d) /\ ClaimRun(r, o, d)
    BY <1>4 DEF ClaimNext
  <2>2. ~ Live(r, 0)
    BY <2>1 DEF ClaimRun, Live
  <2>3. \A s \in Run : s # r => lease'[s] = lease[s]
    BY <1>0, <2>1 DEF ClaimRun
  <2>4. \A s \in Run : s # r => (Live(s, 0)' <=> Live(s, 0))
    BY <2>3 DEF Live, HasLease
  <2>5. \A s \in Run : Live(s, 0) /\ WorkspaceOf[s] = WorkspaceOf[r]
                         => ~ WriteMode(r) /\ ~ WriteMode(s)
    BY <1>0, <2>1, LiveEarlier DEF Claimable, WorkspaceLeaseAvailable
  <2> QED
    BY <2>2, <2>4, <2>5 DEF OneAppears
<1>5. CASE OwnCall(o)
  <2>1. PICK d \in Delays : ClaimStep(R(o), N(o), d)
    BY <1>5 DEF OwnCall
  <2>2. R(o) \in Run /\ Up(o) /\ claim[o] # NoClaim
    BY <1>5 DEF OwnCall, WorkerInv, ClaimOK
  <2>3. Live(R(o), 0)
    <3>1. lease[R(o)].left \in Int
      BY <1>0, <2>2, LeaseTyped
    <3> QED
      BY <2>2, <3>1, RunStoreAssumption DEF AllSecure, Secure, Live, HasLease
  <2>4. \A q \in Run : q # R(o) => lease'[q] = lease[q]
    BY <1>0, <2>1, <2>2, ClaimStepLocal
  <2> QED
    BY <2>3, <2>4 DEF NoneAppears, Live, HasLease
<1>6. CASE \/ \E d \in Delays : ActivateDueRetries(d)
           \/ \E r \in Run : CancelPendingRun(r)
           \/ \E a \in ApprovalId : CancelApproval(a)
           \/ UNCHANGED vars
  BY <1>1, <1>6 DEF ActivateDueRetries, CancelPendingRun, CancelApproval, vars
<1> QED
  BY <1>3, <1>4, <1>5, <1>6 DEF StoreStep

LEMMA WorldLive ==
  ASSUME WorkerInv, WorldStep
  PROVE  NoneAppears
<1>0. lease \in [Run -> LeaseRow] /\ \A q \in Run : lease[q].left \in Int
  BY DEF WorkerInv, StoreInv, TypeOK, LeaseRow
<1>1. CASE TickAll
  <2>1. \A x \in Int : Sooner(x) \in Int /\ Sooner(x) <= x
    BY RunStoreAssumption DEF Sooner
  <2>2. ASSUME NEW q \in Run
        PROVE  /\ lease'[q].owner = lease[q].owner
               /\ lease'[q].left \in Int /\ lease'[q].left <= lease[q].left
    <3>1. lease'[q] = AgeLease(lease[q])
      BY <1>1, <2>2 DEF TickAll, Tick
    <3>2. lease[q] \in LeaseRow /\ lease[q].left \in Int
      BY <1>0, <2>2
    <3>3. CASE HasLease(q)
      <4>1. lease'[q] = [lease[q] EXCEPT !.left = Sooner(lease[q].left)]
        BY <3>1, <3>3 DEF AgeLease, HasLease
      <4> QED
        BY <2>1, <3>2, <4>1, LeaseRowTyped
    <3>4. CASE ~ HasLease(q)
      BY <3>1, <3>2, <3>4 DEF AgeLease, HasLease
    <3> QED
      BY <3>3, <3>4
  <2> QED
    BY <1>0, <2>2 DEF NoneAppears, Live, HasLease
<1>2. CASE Environment \/ UNCHANGED allVars
  <2>1. lease' = lease
    BY <1>2 DEF Environment, RouteRun, DecideApproval, allVars, vars
  <2> QED
    BY <2>1 DEF NoneAppears, Live, HasLease
<1> QED
  BY <1>1, <1>2 DEF WorldStep

LEMMA LeasesAppear ==
  WorkerInv /\ AllSecure /\ [WorkerNext]_allVars => NoneAppears \/ \E r \in Run : OneAppears(r)
  BY WorkerSteps, WorldLive, StudioLive, StudioInvStep

\* With a clock read before the wait for the store (MaxDelay > 0) the store alone
\* does not keep live write claims apart, as a late heartbeat revives a lease that
\* another claim has passed over.  Its workers do, on a prompt machine.
THEOREM PromptLeaseExclusion == PromptMachine /\ WorkerSpec => []WriteExclusive
<1>1. WorkerInit => WriteExclusive
  BY DEF WorkerInit, Init, WriteExclusive, Live, HasLease, NoLease
<1>2. ASSUME WriteExclusive, NoneAppears PROVE WriteExclusive'
  BY <1>2 DEF WriteExclusive, NoneAppears, WriteMode
<1>3. ASSUME WriteExclusive, NEW r \in Run, OneAppears(r) PROVE WriteExclusive'
  BY <1>3 DEF WriteExclusive, OneAppears, WriteMode
<1>4. CASE PromptMachine
  <2>1. WorkerInv /\ AllSecure /\ WriteExclusive /\ [WorkerNext]_allVars =>
          WorkerInv' /\ AllSecure' /\ WriteExclusive'
    BY <1>2, <1>3, <1>4, SecureStep, WorkerInvStep, LeasesAppear
  <2> QED
    BY <1>1, <2>1, WorkerStarts, SecureStarts, PTL DEF WorkerSpec
<1> QED
  BY <1>4

\* The same as a refinement: the live leases of a prompt machine's workers are the
\* holders of one reader-writer lock per workspace.
THEOREM PromptLockRefinement == PromptMachine /\ WorkerSpec => LeasesAreLocks
<1> DEFINE holding == {r \in Run : Live(r, 0)}
<1>1. WorkerInit => Lock!Init
  BY DEF WorkerInit, Init, Lock!Init, Live, HasLease, NoLease
<1>2. ASSUME NoneAppears PROVE Lock!Next
  <2>1. holding \ holding' \in SUBSET holding /\ holding' = holding \ (holding \ holding')
    BY <1>2 DEF NoneAppears
  <2> QED
    BY <2>1 DEF Lock!Next, Lock!Release
<1>3. ASSUME NEW r \in Run, OneAppears(r) PROVE Lock!Next
  <2>1. CASE Live(r, 0)'
    <3>1. \A s \in Run : Live(s, 0) => ~ Lock!Conflict(r, s)
      BY <1>3 DEF OneAppears, WriteMode, Lock!Conflict
    <3>2. holding' = holding \cup {r}
      BY <1>3, <2>1 DEF OneAppears
    <3> QED
      BY <1>3, <3>1, <3>2 DEF OneAppears, Lock!Acquire, Lock!Next
  <2>2. CASE ~ Live(r, 0)'
    BY <1>2, <1>3, <2>2 DEF OneAppears, NoneAppears
  <2> QED
    BY <2>1, <2>2
<1>4. CASE PromptMachine
  <2>1. WorkerInv /\ AllSecure /\ [WorkerNext]_allVars => WorkerInv' /\ AllSecure' /\ Lock!Next
    BY <1>2, <1>3, <1>4, SecureStep, WorkerInvStep, LeasesAppear
  <2> QED
    BY <1>1, <2>1, WorkerStarts, SecureStarts, PTL DEF WorkerSpec, LeasesAreLocks, Lock!Spec
<1> QED
  BY <1>4

-----------------------------------------------------------------------------
(* Work that was given up is not kept alive                                 *)

\* No open Studio is at work on run r.
Abandoned(r) == \A o \in Owner : Up(o) /\ claim[o] # NoClaim => R(o) # r

\* Nobody renews the lease of abandoned work, which closing, dying and a cancelled
\* context leave in place: it only runs out, until recovery takes it away.  Once
\* abandoned the work stays so while its lease is there.
AbandonedRunsOut ==
  [][\A r \in Run : HasLease(r) /\ Abandoned(r) =>
       \/ lease'[r] = NoLease
       \/ /\ lease'[r].owner = lease[r].owner /\ lease'[r].left <= lease[r].left
          /\ Abandoned(r)']_allVars

\* A step that leaves a lease in place, or time, makes it no longer.
RunsOut(r) ==
  \/ lease'[r] = NoLease
  \/ lease'[r].owner = lease[r].owner /\ lease'[r].left <= lease[r].left

LEMMA StudioRunsOut ==
  ASSUME WorkerInv, NEW o \in Owner, StoreStep(o), NEW r \in Run, HasLease(r), Abandoned(r)
  PROVE  RunsOut(r)
<1>0. TypeOK /\ lease[r].left \in Int
  BY LeaseTyped DEF WorkerInv, StoreInv
<1>1. ASSUME lease'[r] = lease[r] PROVE RunsOut(r)
  BY <1>0, <1>1 DEF RunsOut
<1>2. ASSUME NEW d \in Delays, RecoverExpiredLeases(d) PROVE RunsOut(r)
  <2>1. lease'[r] = NoLease \/ lease'[r] = lease[r]
    BY <1>2 DEF RecoverExpiredLeases
  <2> QED
    BY <1>1, <2>1 DEF RunsOut
<1>3. ASSUME NEW d \in Delays, ClaimNext(o, d) PROVE RunsOut(r)
  <2>1. lease'[r] = lease[r]
    BY <1>0, <1>3 DEF ClaimNext, ClaimRun, TypeOK
  <2> QED
    BY <1>1, <2>1
<1>4. CASE OwnCall(o)
  <2>1. PICK d \in Delays : ClaimStep(R(o), N(o), d)
    BY <1>4 DEF OwnCall
  <2>2. R(o) \in Run /\ R(o) # r
    BY <1>4 DEF OwnCall, Abandoned, WorkerInv, ClaimOK
  <2>3. lease'[r] = lease[r]
    BY <1>0, <2>1, <2>2, ClaimStepLocal
  <2> QED
    BY <1>1, <2>3
<1>5. CASE \/ \E d \in Delays : ActivateDueRetries(d)
           \/ \E q \in Run : CancelPendingRun(q)
           \/ \E a \in ApprovalId : CancelApproval(a)
           \/ UNCHANGED vars
  BY <1>1, <1>5 DEF ActivateDueRetries, CancelPendingRun, CancelApproval, vars
<1> QED
  BY <1>2, <1>3, <1>4, <1>5 DEF StoreStep

LEMMA WorldRunsOut ==
  ASSUME WorkerInv, WorldStep, NEW r \in Run
  PROVE  RunsOut(r)
<1>0. lease[r] \in LeaseRow /\ lease[r].left \in Int
  BY LeaseTyped DEF WorkerInv, StoreInv
<1>1. CASE lease'[r] = lease[r]
  BY <1>0, <1>1 DEF RunsOut
<1>2. CASE TickAll /\ HasLease(r)
  <2>1. lease'[r] = [lease[r] EXCEPT !.left = Sooner(lease[r].left)]
    BY <1>2 DEF TickAll, Tick, AgeLease, HasLease
  <2>2. Sooner(lease[r].left) \in Int /\ Sooner(lease[r].left) <= lease[r].left
    BY <1>0, RunStoreAssumption DEF Sooner
  <2> QED
    BY <1>0, <2>1, <2>2, LeaseRowTyped DEF RunsOut
<1>3. CASE TickAll /\ ~ HasLease(r)
  BY <1>1, <1>3 DEF TickAll, Tick, AgeLease, HasLease
<1>4. CASE Environment \/ UNCHANGED allVars
  BY <1>1, <1>4 DEF Environment, RouteRun, DecideApproval, allVars, vars
<1> QED
  BY <1>2, <1>3, <1>4 DEF WorldStep

\* Work is taken up by a claim only, and a run that has a lease is not claimed.
LEMMA StaysAbandoned ==
  ASSUME WorkerInv, [WorkerNext]_allVars, NEW r \in Run, HasLease(r), Abandoned(r)
  PROVE  Abandoned(r)'
<1> DEFINE Kept(q) == Up(q)' /\ claim'[q] # NoClaim =>
                        Up(q) /\ claim[q] # NoClaim /\ R(q)' = R(q)
<1>1. ASSUME \A q \in Owner : Kept(q) PROVE Abandoned(r)'
  BY <1>1 DEF Abandoned
<1>2. CASE WorldStep
  BY <1>1, <1>2, WorldInvStep DEF Up, R
<1>3. ASSUME NEW o \in Owner, StudioStep(o), ~ Claim(o) PROVE Abandoned(r)'
  <2>1. Frame(o) /\ OwnMove(o) /\ (~ Up(o) => ~ Up(o)')
    BY <1>3, StudioInvStep, DownStays
  <2>2. \A q \in Owner : Kept(q)
    BY <2>1 DEF Frame, OwnMove, Up, R
  <2> QED
    BY <1>1, <2>2
<1>4. ASSUME NEW o \in Owner, Claim(o) PROVE Abandoned(r)'
  <2>1. PICK q \in Run, d \in Delays :
          /\ ClaimRun(q, o, d)
          /\ claim' = [claim EXCEPT ![o] = <<q, Len(attempts'[q])>>]
    BY <1>4, ClaimFacts
  <2>2. q # r
    BY <2>1 DEF ClaimRun
  <2>3. R(o)' = q /\ \A p \in Owner : p # o => claim'[p] = claim[p] /\ R(p)' = R(p)
    BY <2>1 DEF R, WorkerInv, WorkerTypeOK
  <2>4. \A p \in Owner : p # o => (Up(p)' <=> Up(p))
    BY <1>4 DEF Claim, Goto, Up, WorkerInv, WorkerTypeOK
  <2> QED
    BY <2>2, <2>3, <2>4 DEF Abandoned
<1> QED
  BY <1>2, <1>3, <1>4, WorkerSteps

\* At any speed and with any failures, the lease of work that its Studio gave up
\* runs out, so that recovery can take it: the safety half of StoppedWorkIsReleased.
THEOREM AbandonedSafety == WorkerSpec => AbandonedRunsOut
<1> DEFINE Out == \A r \in Run : HasLease(r) /\ Abandoned(r) =>
                    \/ lease'[r] = NoLease
                    \/ /\ lease'[r].owner = lease[r].owner /\ lease'[r].left <= lease[r].left
                       /\ Abandoned(r)'
<1>1. ASSUME WorkerInv, [WorkerNext]_allVars, NEW r \in Run, HasLease(r), Abandoned(r)
      PROVE  RunsOut(r)
  BY <1>1, WorkerSteps, WorldRunsOut, StudioRunsOut, StudioInvStep
<1>2. WorkerInv /\ [WorkerNext]_allVars => Out
  BY <1>1, StaysAbandoned DEF RunsOut
<1>3. WorkerInv /\ [WorkerNext]_allVars => [Out]_allVars
  BY <1>2
<1> QED
  BY <1>3, WorkerStarts, WorkerInvStep, PTL DEF WorkerSpec, AbandonedRunsOut

-----------------------------------------------------------------------------
(* Approvals are answered                                                   *)

\* What a step of a Studio does to requests and to those that wait for them.
AsksNothing(o) == asked' = asked /\ approvals' = approvals
AsksOne(o) == \E a \in ApprovalId, scope \in Scope, d \in Delays : NewRequest(o, a, scope, d)
LeavesAll(o) == pc'[o] = "down" /\ approvals' = approvals
AnswersOne(o) ==
  \E a \in asked[o] :
    /\ asked' = [asked EXCEPT ![o] = @ \ {a}]
    /\ approvals'[a].state # "pending"
    /\ \A b \in ApprovalId : b # a => approvals'[b] = approvals[b]

LEMMA AskSteps ==
  ASSUME PromptMachine, WorkerInv, NEW o \in Owner, Secure(o), StudioStep(o)
  PROVE  AsksNothing(o) \/ AsksOne(o) \/ LeavesAll(o) \/ AnswersOne(o)
<1>0. /\ WorkerTypeOK /\ TypeOK /\ asked[o] \subseteq ApprovalId
      /\ \A a \in asked[o] : approvals[a].state # "none"
      /\ ~ Up(o) => asked[o] = {}
  BY DEF WorkerInv, WorkerTypeOK, StoreInv, PcOK
<1>1. CASE Loop(o)
  <2>1. CASE Ask(o)
    BY <2>1 DEF Ask, AsksNothing, AsksOne, vars
  <2>2. CASE Closed(o)
    BY <1>0, <2>2 DEF Closed, Goto, LeavesAll, WorkerTypeOK, vars
  <2>3. CASE RecoverFirst(o) \/ ActivateRetries(o) \/ Claim(o) \/ NothingToClaim(o)
    BY <2>3 DEF RecoverFirst, ActivateRetries, Claim, NothingToClaim, AsksNothing, vars,
                RecoverExpiredLeases, ActivateDueRetries, ClaimNext
  <2>4. CASE Prepare(o) \/ Setup(o) \/ Spawn(o) \/ Record(o) \/ Abort(o) \/ Waited(o)
    BY <2>4 DEF Prepare, Setup, Spawn, Record, Abort, Waited, Return, AsksNothing, vars,
                PrepareClaim, StartAttempt
  <2>5. CASE GiveUp(o, "failing", "failed") \/ GiveUp(o, "refused", "cancelled") \/ Finish(o)
    BY <2>5 DEF GiveUp, Finish, Retry, Return, AsksNothing, vars, CompleteClaim, ScheduleClaimRetry
  <2> QED
    BY <1>1, <2>1, <2>2, <2>3, <2>4, <2>5 DEF Loop
<1>2. CASE Watch(o) \/ Exit(o) \/ Die(o) \/ Heartbeat(o) \/ Close(o)
  BY <1>2 DEF Watch, Exit, Die, Heartbeat, Close, HeartbeatLease, AsksNothing, vars
<1>3. CASE Crash(o)
  BY <1>0, <1>3 DEF Crash, Goto, LeavesAll, WorkerTypeOK, vars
<1>4. ASSUME NEW a \in ApprovalId, Handler(o, a)
      PROVE  AsksNothing(o) \/ AnswersOne(o)
  <2>0. a \in asked[o]
    BY <1>4 DEF Handler, AskDecided, AskCancelled, AskHeartbeat
  <2>1. CASE AskDecided(o, a)
    BY <2>0, <2>1 DEF AskDecided, Answer, AnswersOne, vars
  <2>2. CASE AskCancelled(o, a)
    <3>1. CASE CancelApproval(a)
      <4>1. /\ approvals'[a].state = "cancelled"
            /\ \A b \in ApprovalId : b # a => approvals'[b] = approvals[b]
        BY <1>0, <3>1, ApprovalTyped DEF CancelApproval, TypeOK, ApprovalRow
      <4> QED
        BY <2>0, <2>2, <4>1 DEF AskCancelled, Answer, AnswersOne
    <3>2. CASE approvals[a].state # "pending" /\ UNCHANGED vars
      BY <2>0, <2>2, <3>2 DEF AskCancelled, Answer, AnswersOne, vars
    <3> QED
      BY <2>2, <3>1, <3>2 DEF AskCancelled, PromptMachine
  <2>3. CASE AskHeartbeat(o, a)
    <3>1. claim[o] = <<approvals[a].run, approvals[a].number>> /\ approvals[a].run \in Run /\ Up(o)
      BY <1>0, <2>0, <2>3, ApprovalTyped DEF AskHeartbeat, AskDone
    <3>2. claim[o] # NoClaim
      BY <3>1, WorkerAssumption DEF NoClaim
    <3>3. \A d \in Delays : ~ Refused(o, d)
      BY <3>1, <3>2, NotRefused
    <3> QED
      BY <2>3, <3>3 DEF AskHeartbeat, HeartbeatLease, AsksNothing
  <2> QED
    BY <1>4, <2>1, <2>2, <2>3 DEF Handler
<1>5. ASSUME NEW a \in ApprovalId, NEW scope \in Scope, GatewayAsk(o, a, scope)
      PROVE  AsksOne(o)
  BY <1>5 DEF GatewayAsk, AsksOne
<1>6. ASSUME NEW r \in Run, CancelRun(o, r) PROVE AsksNothing(o)
  BY <1>6 DEF CancelRun, CancelPendingRun, AsksNothing, vars
<1> QED
  BY <1>1, <1>2, <1>3, <1>4, <1>5, <1>6 DEF StudioStep

\* The asker of an approval does not change, and a Studio that is down stays down.
LEMMA AskerKept ==
  ASSUME WorkerInv, KeepsWorkers, KeepsAskers, NEW a \in ApprovalId, approvals[a].state # "none"
  PROVE  AskedBy(a)' = AskedBy(a) /\ AskedBy(a) \in Owner
<1> DEFINE r == approvals[a].run
           n == approvals[a].number
<1>1. /\ r \in Run /\ n \in 1..Len(attempts[r])
      /\ approvals'[a].run = r /\ approvals'[a].number = n
  BY ApprovalTyped DEF WorkerInv, StoreInv, MadeBy, KeepsAskers
<1>2. attempts[r] \in Seq(AttemptRow)
  BY <1>1 DEF WorkerInv, StoreInv, TypeOK
<1> HIDE DEF r, n
<1>3. attempts[r][n] \in AttemptRow /\ attempts'[r][n].worker = attempts[r][n].worker
  BY <1>1, <1>2 DEF KeepsWorkers
<1>4. attempts[r][n].worker \in Owner
  BY <1>3 DEF AttemptRow
<1> QED
  BY <1>1, <1>3, <1>4 DEF AskedBy, ClaimOwner, r, n

LEMMA WatchedStep ==
  PromptMachine /\ WorkerInv /\ AllSecure /\ PendingIsWatched /\ [WorkerNext]_allVars
    => PendingIsWatched'
<1> SUFFICES ASSUME PromptMachine, WorkerInv, AllSecure, PendingIsWatched, [WorkerNext]_allVars,
                    NEW a \in ApprovalId, approvals'[a].state = "pending"
             PROVE  (a \in asked[AskedBy(a)] \/ ~ Up(AskedBy(a)))'
  BY DEF PendingIsWatched
<1>1. KeepsWorkers /\ KeepsAskers /\ WorkerInv'
  BY WorkerSteps, WorldInvStep, StudioInvStep
<1>2. CASE WorldStep
  <2>1. UNCHANGED <<pc, asked>>
    BY <1>2, WorldInvStep
  <2>2. approvals[a].state = "pending"
    BY <1>2 DEF WorldStep, TickAll, Tick, Environment, RouteRun, DecideApproval, allVars, vars,
                WorkerInv, StoreInv, TypeOK, ApprovalRow, NoApproval
  <2>3. AskedBy(a)' = AskedBy(a)
    BY <1>1, <2>2, AskerKept
  <2> QED
    BY <2>1, <2>2, <2>3 DEF PendingIsWatched, Up
<1>3. ASSUME NEW o \in Owner, StudioStep(o)
      PROVE  (a \in asked[AskedBy(a)] \/ ~ Up(AskedBy(a)))'
  <2> DEFINE q == AskedBy(a)
  <2>1. Frame(o) /\ WorkerTypeOK /\ WorkerTypeOK' /\ (~ Up(o) => ~ Up(o)')
    BY <1>1, <1>3, StudioInvStep, DownStays DEF WorkerInv
  <2>2. CASE approvals[a].state = "pending"
    <3>1. q' = q /\ q \in Owner /\ (a \in asked[q] \/ ~ Up(q))
      BY <1>1, <2>2, AskerKept DEF PendingIsWatched
    <3> HIDE DEF q
    <3>2. CASE q # o
      BY <2>1, <3>1, <3>2 DEF Frame, Up, q
    <3>3. CASE q = o /\ ~ Up(o)
      BY <2>1, <3>1, <3>3 DEF Up, q
    <3>4. CASE q = o /\ a \in asked[o]
      <4>1. a \in asked'[o] \/ pc'[o] = "down"
        <5>1. CASE AsksNothing(o) \/ LeavesAll(o)
          BY <3>4, <5>1 DEF AsksNothing, LeavesAll
        <5>2. CASE AsksOne(o)
          BY <2>1, <3>4, <5>2 DEF AsksOne, NewRequest, WorkerTypeOK
        <5>3. CASE AnswersOne(o)
          BY <2>1, <3>4, <5>3 DEF AnswersOne, WorkerTypeOK
        <5> QED
          BY <1>3, <5>1, <5>2, <5>3, AskSteps DEF AllSecure
      <4> QED
        BY <3>1, <3>4, <4>1 DEF Up, q
    <3> QED
      BY <3>1, <3>2, <3>3, <3>4
  <2>3. CASE approvals[a].state # "pending"
    <3>1. AsksOne(o)
      <4>1. ~ AsksNothing(o) /\ ~ LeavesAll(o) /\ ~ AnswersOne(o)
        BY <2>3 DEF AsksNothing, LeavesAll, AnswersOne
      <4> QED
        BY <1>3, <4>1, AskSteps DEF AllSecure
    <3>2. PICK b \in ApprovalId, scope \in Scope, d \in Delays : NewRequest(o, b, scope, d)
      BY <3>1 DEF AsksOne
    <3>3. /\ asked' = [asked EXCEPT ![o] = @ \cup {b}]
          /\ approvals' = [approvals EXCEPT ![b] = [run |-> R(o), number |-> N(o), scope |-> scope,
                                                    resume |-> run[R(o)], state |-> "pending"]]
          /\ attempts' = attempts
      BY <3>2 DEF NewRequest, RequestApproval
    <3>4. b = a /\ approvals'[a].run = R(o) /\ approvals'[a].number = N(o) /\ a \in asked'[o]
      BY <2>1, <2>3, <3>3 DEF WorkerInv, StoreInv, TypeOK, WorkerTypeOK
    <3>5. claim[o] # NoClaim
      <4>1. StoreStep(o) /\ approvals' # approvals
        BY <1>3, <2>3, StudioInvStep
      <4>2. OwnCall(o)
        BY <2>3, <3>3, <3>4, <4>1
           DEF StoreStep, vars, RecoverExpiredLeases, ActivateDueRetries, ClaimNext,
               CancelPendingRun, CancelApproval, WorkerInv, StoreInv, TypeOK
      <4> QED
        BY <4>2 DEF OwnCall
    <3>6. q' = o
      BY <3>3, <3>4, <3>5 DEF AskedBy, ClaimOwner, WorkerInv, ClaimOK
    <3> QED
      BY <3>4, <3>6
  <2> QED
    BY <2>2, <2>3
<1> QED
  BY <1>2, <1>3, WorkerSteps

\* On a prompt machine a decision is never lost on a live harness: each pending
\* approval has a call that waits for it, in the Studio that asked.
THEOREM ApprovalsWatched == PromptMachine /\ WorkerSpec => []PendingIsWatched
<1>1. WorkerInit => PendingIsWatched
  BY DEF WorkerInit, Init, PendingIsWatched, NoApproval
<1>2. CASE PromptMachine
  <2>1. WorkerInv /\ AllSecure /\ PendingIsWatched /\ [WorkerNext]_allVars =>
          WorkerInv' /\ AllSecure' /\ PendingIsWatched'
    BY <1>2, SecureStep, WorkerInvStep, WatchedStep
  <2> QED
    BY <1>1, <2>1, WorkerStarts, SecureStarts, PTL DEF WorkerSpec
<1> QED
  BY <1>2
=============================================================================
