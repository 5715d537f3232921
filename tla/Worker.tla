------------------------------- MODULE Worker -------------------------------
(***************************************************************************)
(* The Studio worker (internal/worker) with the approval broker and gateway*)
(* (internal/approval) and the process supervisor (internal/process), over *)
(* the run store.  Several Studio processes may share one database; each   *)
(* runs one worker loop, one heartbeat goroutine while a process runs, one *)
(* supervisor per process and one gateway handler per permission request.  *)
(***************************************************************************)
EXTENDS RunStore

CONSTANTS
  HeartbeatInterval, \* units of time between heartbeats, LeaseTTL/3 by default
  Covers,            \* pairs <<granted, wanted>> of scopes, Request.CoveredBy
  SafeForWrite,      \* the adapters may declare the retry of a write run safe
  StoreFaults,       \* a store call may fail for reasons of its own
  Prompt,            \* the machine is fast enough; see PromptTick
  MayCrash           \* a Studio may die without closing

ASSUME WorkerAssumption ==
  /\ 0 \notin Run
  /\ HeartbeatInterval \in Nat \ {0}
  /\ HeartbeatInterval < LeaseTTL
  /\ Covers \subseteq Scope \X Scope
  /\ \A s \in Scope : <<s, s>> \in Covers
  /\ SafeForWrite \in BOOLEAN /\ StoreFaults \in BOOLEAN
  /\ Prompt \in BOOLEAN /\ MayCrash \in BOOLEAN

VARIABLES
  pc,         \* where RunOnce is, per Studio
  claim,      \* the claim it executes: <<run, attempt number>>
  cancelled,  \* Worker.Cancel cancelled the context of that claim
  closing,    \* Studio's own context is cancelled (Ctrl-C)
  child,      \* the supervised process
  beat,       \* heartbeat goroutine: time to its next tick, Off or Lost
  asked       \* approvals that an Authorize call of this Studio waits for

wvars == <<pc, claim, cancelled, closing, child, beat, asked>>
allVars == <<vars, wvars>>

NoClaim == <<0, 0>>
Off == -1
Lost == -2
PC == {"idle", "activate", "claim", "prepare", "setup", "ask", "await", "spawn",
       "record", "abort", "run", "finish", "failing", "refused", "down"}
ChildState == {"none", "alive", "stopping", "ok", "err", "killed"}

\* The run's context is a child of Studio's.
CtxDone(o) == cancelled[o] \/ closing[o]
R(o) == claim[o][1]
N(o) == claim[o][2]
Up(o) == pc[o] # "down"

\* A store call of Studio o is refused, or fails.
Refused(o, d) == StoreFaults \/ ~ VerifyLease(R(o), N(o), d)

WorkerInit ==
  /\ Init
  /\ pc = [o \in Owner |-> "idle"]
  /\ claim = [o \in Owner |-> NoClaim]
  /\ cancelled = [o \in Owner |-> FALSE]
  /\ closing = [o \in Owner |-> FALSE]
  /\ child = [o \in Owner |-> "none"]
  /\ beat = [o \in Owner |-> Off]
  /\ asked = [o \in Owner |-> {}]

Goto(o, p) == pc' = [pc EXCEPT ![o] = p]

\* execute returned: RunOnce cancels the run's context and forgets the claim.
Return(o) ==
  /\ Goto(o, "idle")
  /\ claim' = [claim EXCEPT ![o] = NoClaim]
  /\ cancelled' = [cancelled EXCEPT ![o] = FALSE]
  /\ child' = [child EXCEPT ![o] = "none"]
  /\ beat' = [beat EXCEPT ![o] = Off]
  /\ UNCHANGED <<closing, asked>>

-----------------------------------------------------------------------------
(* RunOnce up to the claim *)

RecoverFirst(o) ==
  /\ pc[o] = "idle" /\ ~ closing[o]
  /\ \E d \in Delays : IF \E r \in Run : Expired(r, d) THEN RecoverExpiredLeases(d)
                                                       ELSE UNCHANGED vars
  /\ Goto(o, "activate")
  /\ UNCHANGED <<claim, cancelled, closing, child, beat, asked>>

ActivateRetries(o) ==
  /\ pc[o] = "activate"
  /\ IF closing[o]
       THEN Goto(o, "idle") /\ UNCHANGED vars
       ELSE /\ \E d \in Delays : IF DueTimers(d) # {} THEN ActivateDueRetries(d)
                                                      ELSE UNCHANGED vars
            /\ Goto(o, "claim")
  /\ UNCHANGED <<claim, cancelled, closing, child, beat, asked>>

\* The claim is registered as active with its cancel function.
Claim(o) ==
  /\ pc[o] = "claim" /\ ~ closing[o]
  /\ \E d \in Delays : ClaimNext(o, d)
  /\ \E r \in Run : /\ lease'[r] # lease[r]
                    /\ claim' = [claim EXCEPT ![o] = <<r, Len(attempts'[r])>>]
  /\ Goto(o, "prepare")
  /\ UNCHANGED <<cancelled, closing, child, beat, asked>>

\* MaxAttempts bounds the model: at the bound the worker claims nothing.
NothingToClaim(o) ==
  /\ pc[o] = "claim"
  /\ \/ closing[o]
     \/ \E d \in Delays : \A r \in Run : ~ Claimable(r, o, d)
     \/ \E r \in Run, d \in Delays : Claimable(r, o, d) /\ Len(attempts[r]) = MaxAttempts
  /\ Goto(o, "idle")
  /\ UNCHANGED <<vars, claim, cancelled, closing, child, beat, asked>>

-----------------------------------------------------------------------------
(* execute, until the harness process runs *)

\* PrepareClaim uses the run's context: once that is cancelled the call fails
\* and execute returns, leaving the run leased.
Prepare(o) ==
  /\ pc[o] = "prepare"
  /\ \E d \in Delays :
       \/ /\ ~ CtxDone(o)
          /\ PrepareClaim(R(o), N(o), d)
          /\ Goto(o, "setup")
          /\ UNCHANGED <<claim, cancelled, closing, child, beat, asked>>
       \/ /\ CtxDone(o) \/ Refused(o, d)
          /\ Return(o)
          /\ UNCHANGED vars

\* Loading the event, the workspace and the history.  An adapter may ask for
\* approval first.
Setup(o) ==
  /\ pc[o] = "setup"
  /\ \E p \in {"failing", "ask", "spawn"} : (CtxDone(o) => p = "failing") /\ Goto(o, p)
  /\ UNCHANGED <<vars, claim, cancelled, closing, child, beat, asked>>

Covered(r, scope) ==
  \E a \in ApprovalId : /\ approvals[a].state = "approved"
                        /\ approvals[a].run = r
                        /\ <<approvals[a].scope, scope>> \in Covers

\* Authorize, up to the row of its request.
NewRequest(o, a, scope, d) ==
  /\ ~ CtxDone(o)
  /\ ~ Covered(R(o), scope)
  /\ RequestApproval(R(o), N(o), a, scope, d)
  /\ asked' = [asked EXCEPT ![o] = @ \cup {a}]

Ask(o) ==
  /\ pc[o] = "ask"
  /\ UNCHANGED <<claim, cancelled, closing, child, beat>>
  /\ \E scope \in Scope, d \in Delays :
       \/ \E a \in ApprovalId : NewRequest(o, a, scope, d) /\ Goto(o, "await")
       \/ /\ ~ CtxDone(o) /\ Covered(R(o), scope)
          /\ Goto(o, "spawn")
          /\ UNCHANGED <<vars, asked>>
       \/ /\ CtxDone(o) \/ Refused(o, d)
          /\ Goto(o, "refused")
          /\ UNCHANGED <<vars, asked>>

\* The approval a startup request waits for.
Startup(o, a) == pc[o] = "await" /\ approvals[a].run = R(o) /\ approvals[a].number = N(o)

\* The context of an Authorize call: over when its claim is.
AskDone(o, a) ==
  CtxDone(o) \/ claim[o] # <<approvals[a].run, approvals[a].number>>

\* Authorize returns: a startup request decides how execute goes on, a
\* gateway request only answers the harness.
Answer(o, a, approved) ==
  /\ asked' = [asked EXCEPT ![o] = @ \ {a}]
  /\ pc' = IF Startup(o, a) THEN [pc EXCEPT ![o] = IF approved THEN "spawn" ELSE "refused"]
                            ELSE pc

\* One round of Authorize's polling loop.
AskDecided(o, a) ==
  /\ a \in asked[o]
  /\ approvals[a].state # "pending"
  /\ Answer(o, a, approvals[a].state = "approved")
  /\ UNCHANGED <<vars, claim, cancelled, closing, child, beat>>

\* Mutant: the request's row is left pending.
AskForgotten(o, a) ==
  /\ a \in asked[o]
  /\ AskDone(o, a)
  /\ Answer(o, a, FALSE)
  /\ UNCHANGED <<vars, claim, cancelled, closing, child, beat>>

\* cancelPending; CancelApproval does nothing to a request decided meanwhile.
AskCancelled(o, a) ==
  /\ a \in asked[o]
  /\ AskDone(o, a)
  /\ \/ CancelApproval(a)
     \/ (StoreFaults \/ approvals[a].state # "pending") /\ UNCHANGED vars
  /\ Answer(o, a, FALSE)
  /\ UNCHANGED <<claim, cancelled, closing, child, beat>>

\* The request is heartbeated; when that fails its row stays pending.
AskHeartbeat(o, a) ==
  /\ a \in asked[o]
  /\ ~ AskDone(o, a)
  /\ approvals[a].state = "pending"
  /\ \E d \in Delays :
       \/ HeartbeatLease(R(o), N(o), d) /\ UNCHANGED <<asked, pc>>
       \/ Refused(o, d) /\ Answer(o, a, FALSE) /\ UNCHANGED vars
  /\ UNCHANGED <<claim, cancelled, closing, child, beat>>

\* The gateway, the snapshot, the plan and the log, then process.Start, which
\* checks the context first.
Spawn(o) ==
  /\ pc[o] = "spawn"
  /\ \/ /\ ~ CtxDone(o)
        /\ child' = [child EXCEPT ![o] = "alive"]
        /\ Goto(o, "record")
     \/ Goto(o, "failing") /\ UNCHANGED child
  /\ UNCHANGED <<vars, claim, cancelled, closing, beat, asked>>

\* Process.Stop: nothing happens to a process that has finished.
Stopped(c) == IF c = "alive" THEN "stopping" ELSE c

\* Mutant: the heartbeat interval is the duration of the lease.
RecordSlowBeat(o) ==
  /\ pc[o] = "record"
  /\ \E d \in Delays :
       \/ /\ StartAttempt(R(o), N(o), d)
          /\ Goto(o, "run")
          /\ beat' = [beat EXCEPT ![o] = LeaseTTL]
          /\ UNCHANGED child
       \/ /\ Refused(o, d) \/ run[R(o)] # "preparing"
          /\ Goto(o, "abort")
          /\ child' = [child EXCEPT ![o] = Stopped(@)]
          /\ UNCHANGED <<vars, beat>>
  /\ UNCHANGED <<claim, cancelled, closing, asked>>

\* StartAttempt, with a context of its own, after the process was started.
Record(o) ==
  /\ pc[o] = "record"
  /\ \E d \in Delays :
       \/ /\ StartAttempt(R(o), N(o), d)
          /\ Goto(o, "run")
          /\ beat' = [beat EXCEPT ![o] = HeartbeatInterval]
          /\ UNCHANGED child
       \/ /\ Refused(o, d) \/ run[R(o)] # "preparing"
          /\ Goto(o, "abort")
          /\ child' = [child EXCEPT ![o] = Stopped(@)]
          /\ UNCHANGED <<vars, beat>>
  /\ UNCHANGED <<claim, cancelled, closing, asked>>

Abort(o) ==
  /\ pc[o] = "abort"
  /\ child[o] \in {"ok", "err", "killed"}
  /\ Return(o)
  /\ UNCHANGED vars

\* failBeforeStart, and the end of a startup request that was not approved.
GiveUp(o, p, s) ==
  /\ pc[o] = p
  /\ \E d \in Delays : \/ CompleteClaim(R(o), N(o), s, d)
                       \/ Refused(o, d) /\ UNCHANGED vars
  /\ Return(o)

-----------------------------------------------------------------------------
(* While the process runs *)

\* Mutant: the supervisor watches Studio's context, not the run's.
WatchStudio(o) ==
  /\ Up(o) /\ closing[o]
  /\ child[o] = "alive"
  /\ child' = [child EXCEPT ![o] = "stopping"]
  /\ UNCHANGED <<vars, pc, claim, cancelled, closing, beat, asked>>

\* Process.watch: the run's context is cancelled.
Watch(o) ==
  /\ Up(o) /\ CtxDone(o)
  /\ child[o] = "alive"
  /\ child' = [child EXCEPT ![o] = "stopping"]
  /\ UNCHANGED <<vars, pc, claim, cancelled, closing, beat, asked>>

\* The process ends by itself.  An orphan has nobody to report to.
Exit(o) ==
  /\ child[o] = "alive"
  /\ \E c \in {"ok", "err"} : child' = [child EXCEPT ![o] = IF Up(o) THEN c ELSE "none"]
  /\ UNCHANGED <<vars, pc, claim, cancelled, closing, beat, asked>>

\* It ends after a stop request, at the latest when the tree is killed.
Die(o) ==
  /\ child[o] = "stopping"
  /\ child' = [child EXCEPT ![o] = IF Up(o) THEN "killed" ELSE "none"]
  /\ UNCHANGED <<vars, pc, claim, cancelled, closing, beat, asked>>

\* Mutant: the goroutine ends with the run's context.
HeartbeatUntilCancelled(o) ==
  /\ pc[o] = "run" /\ beat[o] = 0
  /\ \E d \in Delays :
       \/ /\ ~ CtxDone(o)
          /\ HeartbeatLease(R(o), N(o), d)
          /\ beat' = [beat EXCEPT ![o] = HeartbeatInterval]
       \/ /\ CtxDone(o)
          /\ beat' = [beat EXCEPT ![o] = Off]
          /\ UNCHANGED vars
  /\ UNCHANGED <<pc, claim, cancelled, closing, child, asked>>

\* The heartbeat goroutine does not depend on the run's context.
Heartbeat(o) ==
  /\ pc[o] = "run" /\ beat[o] = 0
  /\ \E d \in Delays :
       \/ /\ HeartbeatLease(R(o), N(o), d)
          /\ beat' = [beat EXCEPT ![o] = HeartbeatInterval]
          /\ UNCHANGED child
       \/ /\ Refused(o, d)
          /\ beat' = [beat EXCEPT ![o] = Lost]
          /\ child' = [child EXCEPT ![o] = Stopped(@)]
          /\ UNCHANGED vars
  /\ UNCHANGED <<pc, claim, cancelled, closing, asked>>

\* The harness asks for permission through the gateway, which has a session
\* for write-capable runs from before the process starts.
GatewayAsk(o, a, scope) ==
  /\ pc[o] \in {"record", "run"}
  /\ child[o] \in {"alive", "stopping"}
  /\ WriteMode(R(o))
  /\ \E d \in Delays : NewRequest(o, a, scope, d)
  /\ UNCHANGED <<pc, claim, cancelled, closing, child, beat>>

\* child.Wait returned; the heartbeat goroutine is stopped.
Waited(o) ==
  /\ pc[o] = "run"
  /\ child[o] \in {"ok", "err", "killed"}
  /\ Goto(o, "finish")
  /\ beat' = [beat EXCEPT ![o] = IF @ = Lost THEN Lost ELSE Off]
  /\ UNCHANGED <<vars, claim, cancelled, closing, child, asked>>

\* A run log that cannot be closed turns success into failure.
Outcome(o, logOK) ==
  CASE beat[o] = Lost       -> "interrupted"
    [] child[o] = "killed"  -> "cancelled"
    [] child[o] = "err"     -> "failed"
    [] OTHER                -> IF logOK THEN "succeeded" ELSE "failed"

\* The adapter's retry decision.
Retry(o, delay, d) ==
  /\ child[o] = "err" /\ beat[o] # Lost
  /\ WriteMode(R(o)) => SafeForWrite
  /\ \/ ScheduleClaimRetry(R(o), N(o), delay, d)
     \/ (Refused(o, d) \/ run[R(o)] # "running") /\ UNCHANGED vars

Finish(o) ==
  /\ pc[o] = "finish"
  /\ \E d \in Delays :
       \/ \E delay \in RetryDelays : Retry(o, delay, d)
       \/ \E logOK \in BOOLEAN :
            \/ CompleteClaim(R(o), N(o), Outcome(o, logOK), d)
            \/ /\ Refused(o, d) \/ run[R(o)] \notin CompletableFrom(Outcome(o, logOK))
               /\ UNCHANGED vars
  /\ Return(o)

-----------------------------------------------------------------------------
(* Studio *)

\* POST /runs/{id}/cancel of Studio o: first the active claim, then the queue.
CancelRun(o, r) ==
  /\ Up(o)
  /\ IF R(o) = r
       THEN cancelled' = [cancelled EXCEPT ![o] = TRUE] /\ UNCHANGED vars
       ELSE CancelPendingRun(r) /\ UNCHANGED cancelled
  /\ UNCHANGED <<pc, claim, closing, child, beat, asked>>

\* Ctrl-C.  Some other Studio stays open, or takes over under a new owner.
Close(o) ==
  /\ Up(o) /\ ~ closing[o]
  /\ \E p \in Owner \ {o} : Up(p) /\ ~ closing[p]
  /\ closing' = [closing EXCEPT ![o] = TRUE]
  /\ UNCHANGED <<vars, pc, claim, cancelled, child, beat, asked>>

\* The command waits for the worker loop, not for the gateway's handlers.
Closed(o) ==
  /\ pc[o] = "idle" /\ closing[o]
  /\ Goto(o, "down")
  /\ asked' = [asked EXCEPT ![o] = {}]
  /\ UNCHANGED <<vars, claim, cancelled, closing, child, beat>>

\* Studio dies; the process it started may go on.
Crash(o) ==
  /\ MayCrash /\ Up(o)
  /\ \E p \in Owner \ {o} : Up(p) /\ ~ closing[p]
  /\ Goto(o, "down")
  /\ beat' = [beat EXCEPT ![o] = Off]
  /\ asked' = [asked EXCEPT ![o] = {}]
  /\ child' = [child EXCEPT ![o] = IF @ \in {"alive", "stopping"} THEN @ ELSE "none"]
  /\ UNCHANGED <<vars, claim, cancelled, closing>>

\* A machine that is fast enough: heartbeats are sent when they are due, and
\* what RunOnce does without the heartbeat goroutine it does while more than
\* one heartbeat interval of its lease is left.
PromptTick ==
  \A o \in Owner : Up(o) =>
    /\ beat[o] # 0
    /\ claim[o] # NoClaim /\ pc[o] # "run" => lease[R(o)].left > HeartbeatInterval + 1

TickAll ==
  /\ Prompt => PromptTick
  /\ Tick
  /\ beat' = [o \in Owner |-> IF beat[o] > 0 THEN beat[o] - 1 ELSE beat[o]]
  /\ UNCHANGED <<pc, claim, cancelled, closing, child, asked>>

Environment ==
  /\ \/ \E r \in Run : RouteRun(r)
     \/ \E a \in ApprovalId, decision \in {"approved", "denied"} : DecideApproval(a, decision)
  /\ UNCHANGED wvars

-----------------------------------------------------------------------------
\* The steps of the worker loop of Studio o.
Loop(o) ==
  \/ RecoverFirst(o) \/ ActivateRetries(o) \/ Claim(o) \/ NothingToClaim(o)
  \/ Prepare(o) \/ Setup(o) \/ Ask(o) \/ Spawn(o) \/ Record(o) \/ Abort(o)
  \/ GiveUp(o, "failing", "failed") \/ GiveUp(o, "refused", "cancelled")
  \/ Waited(o) \/ Finish(o) \/ Closed(o)

\* The steps of its other goroutines.
Handler(o, a) == AskDecided(o, a) \/ AskCancelled(o, a) \/ AskHeartbeat(o, a)

WorkerNext ==
  \/ TickAll
  \/ Environment
  \/ \E o \in Owner :
       \/ Loop(o) \/ Watch(o) \/ Exit(o) \/ Die(o) \/ Heartbeat(o)
       \/ \E a \in ApprovalId : Handler(o, a) \/ \E scope \in Scope : GatewayAsk(o, a, scope)
       \/ Close(o) \/ Crash(o)
       \/ \E r \in Run : CancelRun(o, r)

WorkerSpec == WorkerInit /\ [][WorkerNext]_allVars

\* Go schedules every goroutine, the safety ticker wakes the loop, time passes,
\* and a process that was asked to stop is killed when its grace is over.  A
\* harness may run for ever, a person need not decide and nobody need close.
Fairness ==
  /\ WF_allVars(TickAll)
  /\ \A o \in Owner :
       /\ WF_allVars(Loop(o)) /\ WF_allVars(Watch(o))
       /\ WF_allVars(Die(o)) /\ WF_allVars(Heartbeat(o))
       /\ \A a \in ApprovalId : WF_allVars(Handler(o, a))
FairSpec == WorkerSpec /\ Fairness

-----------------------------------------------------------------------------
(* Properties *)

WorkerTypeOK ==
  /\ pc \in [Owner -> PC]
  /\ claim \in [Owner -> Nat \X Nat]
  /\ cancelled \in [Owner -> BOOLEAN] /\ closing \in [Owner -> BOOLEAN]
  /\ child \in [Owner -> ChildState]
  /\ beat \in [Owner -> {Off, Lost} \cup 0..HeartbeatInterval]
  /\ asked \in [Owner -> SUBSET ApprovalId]

\* On a prompt machine a Studio that executes a claim holds its lease, live, from
\* the claim until RunOnce returns, whatever is cancelled or decided meanwhile.
LeaseOutlivesWork ==
  \A o \in Owner : Up(o) /\ claim[o] # NoClaim =>
    /\ VerifyLease(R(o), N(o), 0)
    /\ N(o) = Len(attempts[R(o)])

\* Nobody else can take the work that a worker is executing.
WorkIsCovered == WorkerTypeOK /\ LeaseOutlivesWork

Executing(o) == Up(o) /\ child[o] \in {"alive", "stopping"}

\* At most one write-capable run per workspace, readonly runs may overlap: the
\* harness processes of two open Studios never share a workspace unless both
\* runs are readonly, not even while one of them is being stopped.
ProcessExclusive ==
  \A o, p \in Owner :
    /\ o # p /\ Executing(o) /\ Executing(p)
    /\ WorkspaceOf[R(o)] = WorkspaceOf[R(p)]
    => ~ WriteMode(R(o)) /\ ~ WriteMode(R(p))

AskedBy(a) == ClaimOwner(approvals[a].run, approvals[a].number)

\* A pending approval always has an Authorize call waiting for it, unless the
\* Studio that asked is gone: its decision is never lost on a live harness.
PendingIsWatched ==
  \A a \in ApprovalId : approvals[a].state = "pending" =>
    a \in asked[AskedBy(a)] \/ ~ Up(AskedBy(a))

\* Work whose cancellation was accepted, or whose Studio was closed or died, is
\* given back: its attempt ends, by its own worker or by lease recovery.
StoppedWorkIsReleased ==
  \A o \in Owner, r \in Run, n \in 1..MaxAttempts :
    claim[o] = <<r, n>> /\ (CtxDone(o) \/ ~ Up(o))
      ~> n <= Len(attempts[r]) /\ attempts[r][n].state \in TerminalStates

-----------------------------------------------------------------------------
(* What the repository says of the worker, and the code does not do *)

\* A run whose cancellation its Studio accepted is not attempted again.
CancelHonoured ==
  \A o \in Owner, r \in Run, n \in 1..MaxAttempts :
    [](cancelled[o] /\ claim[o] = <<r, n>> => [](Len(attempts[r]) = n))
=============================================================================
