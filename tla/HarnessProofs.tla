---------------------------- MODULE HarnessProofs ----------------------------
(***************************************************************************)
(* Proofs about the process of an attempt, about the MCP client and about  *)
(* the inspector that uses it, for every number of descendants, calls,     *)
(* messages and items.                                                     *)
(***************************************************************************)
EXTENDS HarnessSession, McpClient, Inspector, TLAPS, WellFoundedInduction

-----------------------------------------------------------------------------
(* The session *)

Kinds == {"edit", "command", "bypass", "outside"}
AskRow == [pc: {"sent", "broker", "allow", "deny"}, kind: Kinds,
           decision: {"none", "approved", "denied"}]

\* The broker sees bounded requests of writing runs, and only it lets a tool run.
AskOK(row) ==
  /\ row \in {NoAsk} \cup AskRow
  /\ row.pc \in {"broker", "allow"} => mode = "write" /\ row.kind \in {"edit", "command"}
  /\ row.pc = "allow" => row.decision = "approved"

\* The wait goroutine and the harness go together: it is there from the start on,
\* it finishes after the harness exited and is done when nobody is left.
WaiterOK ==
  /\ waiter \in {"none", "waiting", "finished", "done"}
  /\ waiter = "none" <=> parent = "none"
  /\ parent = "none" => kids = {}
  /\ waiter \in {"finished", "done"} => parent = "exited"
  /\ waiter = "done" => kids = {}

\* The result is not known before the process finished, and then follows cancel.
ResultOK ==
  /\ cancel \in BOOLEAN
  /\ waiter \in {"none", "waiting"} => result = "none"
  /\ waiter \in {"finished", "done"} => (result = "cancelled" <=> cancel)

\* The attempt starts no second process, and it is over with its first one.
PhaseOK ==
  /\ session \in {"open", "prepare", "start"} => waiter = "none"
  /\ session = "wait" => waiter # "none"
  /\ session = "over" => waiter \in {"none", "done"} /\ ~config /\ token # "open"
  /\ session = "open" => token = "none"

\* The filter holds back the half line that the log does not have.
OutputOK ==
  /\ written \in Nat /\ buffered \in Nat /\ logged \in Nat
  /\ buffered = written % 2
  /\ logged = written \div 2

SessionInv ==
  /\ mode \in {"readonly", "write"}
  /\ config \in BOOLEAN
  /\ SessionTypeOK
  /\ DOMAIN ask = Kid /\ ask = [k \in Kid |-> ask[k]] /\ \A k \in Kid : AskOK(ask[k])
  /\ WaiterOK /\ ResultOK /\ PhaseOK /\ OutputOK

LEMMA SessionInvImplies ==
  ASSUME SessionInv PROVE SessionIsSafe
<1> USE DEF SessionInv
<1>1. NothingLeftBehind
  BY DEF NothingLeftBehind, WaiterOK, PhaseOK
<1>2. ResultSaysCancelled
  BY DEF ResultSaysCancelled, ResultOK
<1>3. AllowedWasApproved
  BY DEF AllowedWasApproved, AskOK
<1>4. LinesAreLogged
  BY DEF LinesAreLogged, OutputOK
<1> QED
  BY <1>1, <1>2, <1>3, <1>4 DEF SessionIsSafe

\* The parts of the state that a step leaves alone keep their part of the invariant.
LEMMA AsksStay ==
  ASSUME SessionInv, UNCHANGED <<mode, ask>>
  PROVE  /\ DOMAIN ask' = Kid /\ ask' = [k \in Kid |-> ask'[k]]
         /\ \A k \in Kid : AskOK(ask[k])' /\ ask[k]'.pc \in {"none", "sent", "broker", "allow", "deny"}
BY DEF SessionInv, SessionTypeOK, AskOK

LEMMA AskSet ==
  ASSUME SessionInv, NEW k \in Kid, NEW row, UNCHANGED mode, AskOK(row),
         row.pc \in {"none", "sent", "broker", "allow", "deny"},
         ask' = [ask EXCEPT ![k] = row]
  PROVE  /\ DOMAIN ask' = Kid /\ ask' = [j \in Kid |-> ask'[j]]
         /\ \A j \in Kid : AskOK(ask[j])' /\ ask[j]'.pc \in {"none", "sent", "broker", "allow", "deny"}
BY DEF SessionInv, SessionTypeOK, AskOK

\* A signal ends processes and starts none.
LEMMA SignalEnds ==
  ASSUME SessionInv, NEW spared, Signal(spared)
  PROVE  /\ kids' \subseteq kids
         /\ parent' \in {"none", "running", "exited"}
         /\ parent' = "none" <=> parent = "none"
         /\ parent = "exited" => parent' = "exited"
         /\ spared = {} => parent' # "running" /\ kids' = {}
BY DEF SessionInv, SessionTypeOK, Signal

LEMMA SessionStep ==
  ASSUME SessionInv, [SessionNext]_sessionVars
  PROVE  SessionInv'
<1> USE DEF SessionInv, SessionTypeOK, sessionVars, processVars, outputVars
<1>1. CASE UNCHANGED sessionVars
  BY <1>1, AsksStay DEF WaiterOK, ResultOK, PhaseOK, OutputOK
<1>2. ASSUME OpenSession PROVE SessionInv'
  BY <1>2, AsksStay DEF OpenSession, WaiterOK, ResultOK, PhaseOK, OutputOK
<1>3. ASSUME CancelContext PROVE SessionInv'
  BY <1>3, AsksStay DEF CancelContext, WaiterOK, ResultOK, PhaseOK, OutputOK
<1>4. ASSUME Stop PROVE SessionInv'
  <2>1. /\ cancel' \in BOOLEAN /\ (waiter # "waiting" => cancel' = cancel)
        /\ UNCHANGED <<mode, session, token, config, runCtx, parent, exitOK, kids, deaf, waiter,
                       result, outputVars, ask>>
    BY <1>4 DEF Stop, ResultOK
  <2> HIDE DEF SessionInv
  <2>2. /\ DOMAIN ask' = Kid /\ ask' = [k \in Kid |-> ask'[k]] /\ \A k \in Kid : AskOK(ask[k])'
        /\ \A k \in Kid : ask[k]'.pc \in {"none", "sent", "broker", "allow", "deny"}
    BY <2>1, AsksStay
  <2>3. WaiterOK' /\ PhaseOK' /\ OutputOK'
    BY <2>1 DEF SessionInv, WaiterOK, PhaseOK, OutputOK
  <2>4. ResultOK'
    BY <2>1 DEF SessionInv, WaiterOK, ResultOK
  <2> QED
    BY <2>1, <2>2, <2>3, <2>4 DEF SessionInv
<1>5. ASSUME Graceful PROVE SessionInv'
  <2>1. Signal(deaf) /\ UNCHANGED <<mode, session, token, config, runCtx, deaf, cancel, waiter,
                                    result, outputVars, ask>>
    BY <1>5 DEF Graceful
  <2> QED
    BY <2>1, SignalEnds, AsksStay DEF WaiterOK, ResultOK, PhaseOK, OutputOK
<1>6. ASSUME GraceEnds PROVE SessionInv'
  <2>1. CASE waiter = "done"
    BY <1>6, <2>1, AsksStay DEF GraceEnds, WaiterOK, ResultOK, PhaseOK, OutputOK
  <2>2. CASE waiter # "done"
    <3>1. Signal({}) /\ UNCHANGED <<mode, session, token, config, runCtx, deaf, cancel, waiter,
                                    result, outputVars, ask>>
      BY <1>6, <2>2 DEF GraceEnds
    <3> QED
      BY <3>1, SignalEnds, AsksStay DEF WaiterOK, ResultOK, PhaseOK, OutputOK
  <2> QED
    BY <2>1, <2>2
<1>7. ASSUME WaitReturns PROVE SessionInv'
  BY <1>7, AsksStay DEF WaitReturns, WaiterOK, ResultOK, PhaseOK, OutputOK
<1>8. ASSUME CloseDone PROVE SessionInv'
  <2>1. Signal({}) /\ waiter = "finished" /\ waiter' = "done"
        /\ UNCHANGED <<mode, session, token, config, runCtx, deaf, stopper, cancel, result,
                       outputVars, ask>>
    BY <1>8 DEF CloseDone
  <2> QED
    BY <2>1, SignalEnds, AsksStay DEF WaiterOK, ResultOK, PhaseOK, OutputOK
<1>9. ASSUME EndSession PROVE SessionInv'
  BY <1>9, AsksStay DEF EndSession, Over, WaiterOK, ResultOK, PhaseOK, OutputOK
<1>10. ASSUME NEW ok \in BOOLEAN, PrepareInvocation(ok) PROVE SessionInv'
  <2>1. CASE ok
    BY <1>10, <2>1, AsksStay DEF PrepareInvocation, WaiterOK, ResultOK, PhaseOK, OutputOK
  <2>2. CASE ~ok
    BY <1>10, <2>2, AsksStay DEF PrepareInvocation, Over, WaiterOK, ResultOK, PhaseOK, OutputOK
  <2> QED
    BY <2>1, <2>2
<1>11. ASSUME NEW ok \in BOOLEAN, StartProcess(ok) PROVE SessionInv'
  <2>1. CASE ok /\ runCtx = "live"
    BY <1>11, <2>1, AsksStay DEF StartProcess, WaiterOK, ResultOK, PhaseOK, OutputOK
  <2>2. CASE ~(ok /\ runCtx = "live")
    BY <1>11, <2>2, AsksStay DEF StartProcess, Over, WaiterOK, ResultOK, PhaseOK, OutputOK
  <2> QED
    BY <2>1, <2>2
<1>12. ASSUME NEW ok \in BOOLEAN, NEW p \in Process, ProcessExits(p, ok) PROVE SessionInv'
  BY <1>12, AsksStay DEF ProcessExits, WaiterOK, ResultOK, PhaseOK, OutputOK
<1>13. ASSUME NEW n \in 1..3, Write(n) PROVE SessionInv'
  <2>1. OutputOK'
    BY <1>13 DEF Write, Filter, OutputOK
  <2> QED
    BY <1>13, <2>1, AsksStay DEF Write, WaiterOK, ResultOK, PhaseOK
<1>14. ASSUME NEW k \in Kid, Fork(k) PROVE SessionInv'
  BY <1>14, AsksStay DEF Fork, WaiterOK, ResultOK, PhaseOK, OutputOK
<1>15. ASSUME NEW k \in Kid, NEW row, ask' = [ask EXCEPT ![k] = row], AskOK(row),
              row.pc \in {"none", "sent", "broker", "allow", "deny"},
              UNCHANGED <<mode, session, token, config, runCtx, processVars, outputVars>>
       PROVE  SessionInv'
  BY <1>15, AskSet DEF WaiterOK, ResultOK, PhaseOK, OutputOK
<1>16. ASSUME NEW k \in Kid, ask[k] \in AskRow, NEW behaviour \in {"broker", "allow", "deny"},
              Answer(k, behaviour),
              behaviour \in {"broker", "allow"} => mode = "write" /\ ask[k].kind \in {"edit", "command"},
              behaviour = "allow" => ask[k].decision = "approved",
              UNCHANGED <<mode, session, token, config, runCtx, processVars, outputVars>>
       PROVE  SessionInv'
  <2> DEFINE row == [ask[k] EXCEPT !.pc = behaviour]
  <2>1. AskOK(row) /\ row.pc = behaviour
    BY <1>16 DEF AskOK, AskRow
  <2>2. ask' = [ask EXCEPT ![k] = row]
    BY <1>16 DEF Answer
  <2> HIDE DEF row
  <2> QED
    BY <1>15, <1>16, <2>1, <2>2
<1>17. ASSUME NEW k \in Kid, ask[k].pc \in {"sent", "broker"} PROVE ask[k] \in AskRow
  BY <1>17 DEF AskOK, NoAsk
<1>18. ASSUME NEW k \in Kid, NEW kind \in Kinds, SendAsk(k, kind) PROVE SessionInv'
  <2> DEFINE row == [pc |-> "sent", kind |-> kind, decision |-> "none"]
  <2>1. AskOK(row) /\ row.pc = "sent"
    BY DEF AskOK, AskRow
  <2>2. ask' = [ask EXCEPT ![k] = row]
    BY <1>18 DEF SendAsk
  <2> HIDE DEF row
  <2> QED
    BY <1>15, <1>18, <2>1, <2>2 DEF SendAsk
<1>19. ASSUME NEW k \in Kid, Authorize(k) PROVE SessionInv'
  <2>1. ask[k] \in AskRow
    BY <1>17, <1>19 DEF Authorize
  <2>2. CASE token = "open" /\ runCtx = "live" /\ Bounded(ask[k].kind)
    BY <1>16, <1>19, <2>1, <2>2 DEF Authorize, Bounded
  <2>3. CASE ~(token = "open" /\ runCtx = "live" /\ Bounded(ask[k].kind))
    BY <1>16, <1>19, <2>1, <2>3 DEF Authorize
  <2> QED
    BY <2>2, <2>3
<1>20. ASSUME NEW k \in Kid, NEW decision \in {"approved", "denied"}, Decide(k, decision)
       PROVE  SessionInv'
  <2>1. ask[k] \in AskRow /\ ask[k].pc = "broker" /\ AskOK(ask[k])
    BY <1>17, <1>20 DEF Decide
  <2> DEFINE row == [ask[k] EXCEPT !.decision = decision]
  <2>2. AskOK(row) /\ row.pc = "broker"
    BY <2>1 DEF AskOK, AskRow
  <2>3. ask' = [ask EXCEPT ![k] = row]
    BY <1>20 DEF Decide
  <2> HIDE DEF row
  <2> QED
    BY <1>15, <1>20, <2>2, <2>3 DEF Decide
<1>21. ASSUME NEW k \in Kid, Respond(k) PROVE SessionInv'
  <2>1. ask[k] \in AskRow /\ AskOK(ask[k]) /\ ask[k].pc = "broker"
    BY <1>17, <1>21 DEF Respond
  <2>2. mode = "write" /\ ask[k].kind \in {"edit", "command"}
    BY <2>1 DEF AskOK
  <2> QED
    BY <1>16, <1>21, <2>1, <2>2 DEF Respond
<1>22. ASSUME NEW k \in Kid, TransportFails(k) PROVE SessionInv'
  <2>1. ask[k] \in AskRow
    BY <1>17, <1>22 DEF TransportFails
  <2> QED
    BY <1>16, <1>22, <2>1 DEF TransportFails
<1> QED
  BY <1>1, <1>2, <1>3, <1>4, <1>5, <1>6, <1>7, <1>8, <1>9, <1>10, <1>11, <1>12, <1>13, <1>14,
     <1>18, <1>19, <1>20, <1>21, <1>22
  DEF SessionNext, SupervisorStep, StopCalled, Watch, Kinds

LEMMA SessionInvariant == SessionSpec => []SessionInv
<1>1. ASSUME SessionInit PROVE SessionInv
  <2>1. OutputOK
    BY <1>1 DEF SessionInit, OutputOK
  <2>2. \A k \in Kid : AskOK(ask[k]) /\ ask[k].pc = "none"
    BY <1>1 DEF SessionInit, AskOK, NoAsk
  <2>3. SessionTypeOK /\ WaiterOK /\ ResultOK /\ PhaseOK
    BY <1>1, <2>2 DEF SessionInit, SessionTypeOK, WaiterOK, ResultOK, PhaseOK
  <2> QED
    BY <1>1, <2>1, <2>2, <2>3 DEF SessionInit, SessionInv
<1>2. SessionInv /\ [SessionNext]_sessionVars => SessionInv'
  BY SessionStep
<1> QED
  BY <1>1, <1>2, PTL DEF SessionSpec

\* Whatever the order in which worker, supervisor, helpers and person act, and
\* whichever processes ignore signals: an attempt has one true result, leaves
\* neither processes nor credentials behind, logs every line once, and no tool is
\* allowed that nobody approved (internal/process, the adapters, the gateway).
THEOREM SessionSafety == SessionSpec => []SessionIsSafe
<1>1. SessionInv => SessionIsSafe
  BY SessionInvImplies
<1> QED
  BY <1>1, SessionInvariant, PTL

-----------------------------------------------------------------------------
(* Why a cancelled attempt ends: the steps that end it are never all        *)
(* impossible, and each of them brings the end nearer.                      *)

\* A stop that is over has left no harness running, whichever processes ignored
\* the first signal.
StopKills == stopper = "ended" /\ waiter # "none" => parent # "running"

\* While a cancelled attempt waits, some step of the supervisor has its guard: the
\* stop goes on, or the wait goroutine does.
SomebodyGoesOn ==
  runCtx = "cancelled" /\ session = "wait" =>
    \/ stopper = "idle" /\ waiter # "done"
    \/ stopper \in {"graceful", "grace"}
    \/ waiter = "waiting" /\ parent = "exited"
    \/ waiter \in {"finished", "done"}

\* What is left of the stop, of the wait goroutine and of execute.
StopLeft ==
  CASE stopper = "idle" -> 3 [] stopper = "graceful" -> 2 [] stopper = "grace" -> 1 [] OTHER -> 0
WaitLeft == CASE waiter = "waiting" -> 2 [] waiter = "finished" -> 1 [] OTHER -> 0
ReturnLeft == IF session = "wait" THEN 1 ELSE 0
Left == StopLeft + WaitLeft + ReturnLeft

\* No step makes the rest longer, and the steps of the supervisor make it shorter.
EndsApproach == [][session = "wait" => Left' <= Left /\ (SupervisorStep => Left' < Left)]_sessionVars

StopOK ==
  /\ stopper \in {"idle", "graceful", "grace", "ended"}
  /\ waiter = "none" => stopper = "idle"
  /\ StopKills

\* The stop is moved by Stop, Graceful and GraceEnds, the wait goroutine by
\* WaitReturns and CloseDone, and only forwards; execute returns with EndSession.
Forwards ==
  /\ \/ stopper' = stopper
     \/ stopper = "idle" /\ stopper' \in {"graceful", "ended"}
     \/ stopper = "graceful" /\ stopper' = "grace"
     \/ stopper = "grace" /\ stopper' = "ended"
  /\ \/ waiter' = waiter
     \/ waiter = "none" /\ session # "wait"
     \/ waiter = "waiting" /\ waiter' = "finished"
     \/ waiter = "finished" /\ waiter' = "done"

\* Every step keeps what is known of a stop and only moves it on; a step of the
\* supervisor moves something.
LEMMA StopMoves ==
  ASSUME SessionInv, StopOK, [SessionNext]_sessionVars
  PROVE  /\ StopOK' /\ Forwards
         /\ SupervisorStep => \/ stopper' # stopper
                              \/ waiter' # waiter
                              \/ session' # "wait"
<1> USE DEF StopOK, StopKills, Forwards
<1>0. WaiterOK /\ PhaseOK
  BY DEF SessionInv
<1>1. ASSUME Stop PROVE StopOK' /\ Forwards /\ stopper' # stopper
  BY <1>0, <1>1 DEF Stop, WaiterOK
<1>2. ASSUME Graceful PROVE StopOK' /\ Forwards /\ stopper' # stopper
  BY <1>2 DEF Graceful
<1>3. ASSUME GraceEnds PROVE StopOK' /\ Forwards /\ stopper' # stopper
  <2>1. parent' # "running"
    <3>1. CASE waiter = "done"
      BY <1>0, <1>3, <3>1 DEF GraceEnds, WaiterOK
    <3>2. CASE waiter # "done"
      BY <1>3, <3>2, SignalEnds DEF GraceEnds
    <3> QED
      BY <3>1, <3>2
  <2> QED
    BY <1>3, <2>1 DEF GraceEnds
<1>4. ASSUME WaitReturns PROVE StopOK' /\ Forwards /\ waiter' # waiter
  BY <1>4 DEF WaitReturns
<1>5. ASSUME CloseDone PROVE StopOK' /\ Forwards /\ waiter' # waiter
  <2>1. parent' # "running"
    BY <1>5, SignalEnds DEF CloseDone
  <2> QED
    BY <1>5, <2>1 DEF CloseDone
<1>6. ASSUME EndSession PROVE StopOK' /\ Forwards /\ session' # "wait"
  BY <1>6 DEF EndSession, Over, processVars
<1>7. ASSUME UNCHANGED <<stopper, waiter>>, parent' = parent \/ parent' = "exited"
      PROVE  StopOK' /\ Forwards
  BY <1>7
<1>8. ASSUME NEW ok \in BOOLEAN, StartProcess(ok) PROVE StopOK' /\ Forwards
  <2>1. waiter = "none" /\ session # "wait"
    BY <1>0, <1>8 DEF StartProcess, PhaseOK
  <2>2. stopper' = "idle"
    BY <1>8, <2>1 DEF StartProcess
  <2> QED
    BY <2>1, <2>2 DEF StartProcess
<1>9. ASSUME NEW ok \in BOOLEAN, NEW p \in Process, ProcessExits(p, ok)
      PROVE  StopOK' /\ Forwards
  BY <1>7, <1>9 DEF ProcessExits
<1>10. ASSUME NEW k \in Kid,
              \/ Fork(k) \/ Authorize(k) \/ Respond(k) \/ TransportFails(k)
              \/ \E kind \in Kinds : SendAsk(k, kind)
              \/ \E decision \in {"approved", "denied"} : Decide(k, decision)
       PROVE  StopOK' /\ Forwards
  BY <1>7, <1>10 DEF Fork, Authorize, Respond, TransportFails, SendAsk, Decide, processVars
<1>11. ASSUME \/ UNCHANGED sessionVars \/ OpenSession \/ CancelContext
              \/ \E ok \in BOOLEAN : PrepareInvocation(ok)
              \/ \E n \in 1..3 : Write(n)
       PROVE  StopOK' /\ Forwards
  <2>1. UNCHANGED <<stopper, waiter, parent>>
    BY <1>11 DEF OpenSession, CancelContext, PrepareInvocation, Write, processVars, sessionVars
  <2> QED
    BY <1>7, <2>1
<1> HIDE DEF StopOK, StopKills, Forwards
<1>12. ASSUME SupervisorStep
       PROVE  StopOK' /\ Forwards /\ (stopper' # stopper \/ waiter' # waiter \/ session' # "wait")
  BY <1>1, <1>2, <1>3, <1>4, <1>5, <1>6, <1>12 DEF SupervisorStep, Watch
<1>13. ASSUME ~ SupervisorStep PROVE StopOK' /\ Forwards
  BY <1>1, <1>8, <1>9, <1>10, <1>11, <1>13 DEF SessionNext, StopCalled, Kinds
<1> QED
  BY <1>12, <1>13

\* Arithmetic for Left: a sum is smaller when one of its parts is and none is larger.
LEMMA SumApproaches ==
  ASSUME NEW a \in Nat, NEW b \in Nat, NEW c \in Nat, NEW d \in Nat, NEW e \in {0, 1},
         c <= a, d <= b
  PROVE  /\ a + b + 1 \in Nat /\ c + d + e \in Nat /\ c + d + e <= a + b + 1
         /\ c < a \/ d < b \/ e = 0 => c + d + e < a + b + 1
<1>1. e \in Nat /\ e <= 1
  OBVIOUS
<1> QED
  BY <1>1

\* Each of the three parts of Left is a number that a move does not raise.
LEMMA MovesApproach ==
  ASSUME StopOK, Forwards, waiter \in {"none", "waiting", "finished", "done"}, session = "wait"
  PROVE  /\ Left \in Nat /\ Left' \in Nat /\ Left' <= Left
         /\ (stopper' # stopper \/ waiter' # waiter \/ session' # "wait") => Left' < Left
<1>1. /\ StopLeft \in Nat /\ StopLeft' \in Nat /\ StopLeft' <= StopLeft
      /\ stopper' # stopper => StopLeft' < StopLeft
  BY DEF StopOK, Forwards, StopLeft
<1>2. /\ WaitLeft \in Nat /\ WaitLeft' \in Nat /\ WaitLeft' <= WaitLeft
      /\ waiter' # waiter => WaitLeft' < WaitLeft
  BY DEF Forwards, WaitLeft
<1>3. /\ ReturnLeft = 1 /\ ReturnLeft' \in {0, 1}
      /\ session' # "wait" => ReturnLeft' = 0
  BY DEF ReturnLeft
<1>4. /\ Left = StopLeft + WaitLeft + ReturnLeft
      /\ Left' = StopLeft' + WaitLeft' + ReturnLeft'
  BY DEF Left
<1> QED
  BY <1>1, <1>2, <1>3, <1>4, SumApproaches

\* A cancelled attempt is never stuck, whichever processes ignore the signal, and
\* its end comes nearer with every step of the supervisor: what CancelledEnds needs
\* besides the fairness of those steps.
THEOREM CancelledApproaches == SessionSpec => []SomebodyGoesOn /\ EndsApproach
<1>1. SessionInit => StopOK
  BY DEF SessionInit, StopOK, StopKills
<1>2. ASSUME SessionInv, StopOK, [SessionNext]_sessionVars
      PROVE  StopOK' /\ (session = "wait" => Left' <= Left /\ (SupervisorStep => Left' < Left))
  BY <1>2, StopMoves, MovesApproach DEF SessionInv, WaiterOK
<1>3. SessionInv /\ StopOK => SomebodyGoesOn
  BY DEF SessionInv, SessionTypeOK, PhaseOK, WaiterOK, StopOK, StopKills, SomebodyGoesOn
<1>4. SessionInv /\ StopOK /\ [SessionNext]_sessionVars =>
        StopOK' /\ [session = "wait" => Left' <= Left /\ (SupervisorStep => Left' < Left)]_sessionVars
  BY <1>2
<1> QED
  BY <1>1, <1>3, <1>4, SessionInvariant, PTL DEF SessionSpec, EndsApproach

-----------------------------------------------------------------------------
(* The MCP client *)

Phases == {"idle", "registered", "pushing", "waiting", "ok", "failed"}
InFlightPhases == {"registered", "pushing", "waiting"}
Handing == [pc: {"handing"}, to: Call, from: Call]

\* A channel holds nothing but the answer to its own call, and one whose call is
\* registered is empty.  A call that has not failed has a channel once it started.
ChannelOK(c) ==
  /\ channel[c] \in {c, "none", "empty", "closed"}
  /\ c \in pending => channel[c] = "empty" /\ callPc[c] \in InFlightPhases
  /\ callPc[c] = "idle" => channel[c] = "none"
  /\ callPc[c] \in InFlightPhases => channel[c] \in {c, "empty", "closed"}
  /\ callPc[c] = "ok" => channel[c] = c

\* The loop alone can serve the call it took out of the table, once.
ReaderOK ==
  /\ reader \in {Reading, [pc |-> "ended"]} \cup Handing
  /\ reader.pc = "handing" =>
       /\ reader.from = reader.to
       /\ reader.to \notin pending
       /\ channel[reader.to] = "empty"
       /\ callPc[reader.to] # "idle"

McpInv ==
  /\ McpTypeOK
  /\ inbox \in Seq(Call \cup {Noise})
  /\ \A c \in Call : ChannelOK(c)
  /\ ReaderOK

LEMMA McpInvImplies ==
  ASSUME McpInv PROVE CallsAreMatched
<1> USE DEF McpInv
<1>1. OwnAnswer /\ ChannelIsFree
  BY DEF OwnAnswer, ChannelIsFree, ChannelOK, ReaderOK
<1>2. PendingIsAwaited
  BY DEF PendingIsAwaited, McpTypeOK, ChannelOK, InFlight, InFlightPhases
<1> QED
  BY <1>1, <1>2 DEF CallsAreMatched

\* What a call does by itself, as long as it does not start or succeed: it goes from
\* phase to phase, and out of the table when it is over.
LEMMA CallMoves ==
  ASSUME McpInv, NEW c \in Call, NEW phase \in InFlightPhases \cup {"failed"},
         callPc[c] \in InFlightPhases,
         callPc' = [callPc EXCEPT ![c] = phase],
         UNCHANGED <<channel, reader>>,
         pending' = IF phase = "failed" THEN pending \ {c} ELSE pending
  PROVE  /\ callPc' \in [Call -> Phases] /\ pending' \subseteq Call
         /\ \A d \in Call : ChannelOK(d)'
         /\ ReaderOK'
<1> USE DEF McpInv, McpTypeOK
<1>1. callPc' \in [Call -> Phases] /\ pending' \subseteq pending
  BY DEF InFlightPhases, Phases
<1>2. \A d \in Call : ChannelOK(d)'
  BY DEF ChannelOK, InFlightPhases
<1>3. ReaderOK'
  BY DEF ReaderOK, InFlightPhases, Handing, Reading
<1> QED
  BY <1>1, <1>2, <1>3

\* Closing what is registered touches neither the call that is being served nor one
\* that has its answer.
LEMMA CloseKeeps ==
  ASSUME McpInv, ClosePending, UNCHANGED callPc,
         reader' = reader \/ reader' = [pc |-> "ended"]
  PROVE  /\ channel' \in [Call -> Call \cup {"none", "empty", "closed"}] /\ pending' \subseteq Call
         /\ \A d \in Call : ChannelOK(d)'
         /\ ReaderOK'
<1> USE DEF McpInv, McpTypeOK, ClosePending
<1>1. \A d \in Call : ChannelOK(d)'
  BY DEF ChannelOK, InFlightPhases
<1>2. ReaderOK'
  BY DEF ReaderOK, Handing, Reading
<1> QED
  BY <1>1, <1>2

\* A message more, or one less.
LEMMA InboxGrows ==
  ASSUME McpInv, NEW m \in Call \cup {Noise}, HasRoom, inbox' = Append(inbox, m)
  PROVE  inbox' \in Seq(Call \cup {Noise}) /\ Len(inbox') <= InboxCap
BY McpClientAssumption DEF McpInv, McpTypeOK, HasRoom

LEMMA McpStep ==
  ASSUME McpInv, [McpNext]_mcpVars
  PROVE  McpInv'
<1> USE DEF McpInv, McpTypeOK, mcpVars
<1>a. ASSUME UNCHANGED <<callPc, pending, channel, reader>>
      PROVE  (\A c \in Call : ChannelOK(c)') /\ ReaderOK'
  BY <1>a DEF ChannelOK, ReaderOK
<1>1. CASE UNCHANGED mcpVars
  BY <1>1, <1>a
<1>2. ASSUME NEW c \in Call, Register(c) PROVE McpInv'
  <2>1. CASE client = "open"
    <3>1. ReaderOK'
      BY <1>2, <2>1 DEF Register, ReaderOK, ChannelOK, Handing, Reading
    <3>2. \A d \in Call : ChannelOK(d)'
      BY <1>2, <2>1 DEF Register, ChannelOK, InFlightPhases
    <3> QED
      BY <1>2, <2>1, <3>1, <3>2 DEF Register
  <2>2. CASE client # "open"
    <3>1. ReaderOK'
      BY <1>2, <2>2 DEF Register, ReaderOK, Handing, Reading
    <3>2. \A d \in Call : ChannelOK(d)'
      BY <1>2, <2>2 DEF Register, ChannelOK, InFlightPhases
    <3> QED
      BY <1>2, <2>2, <3>1, <3>2 DEF Register
  <2> QED
    BY <2>1, <2>2
<1>3. ASSUME NEW c \in Call, SendRequest(c) PROVE McpInv'
  <2>1. PICK phase \in {"pushing", "waiting"} : callPc' = [callPc EXCEPT ![c] = phase]
    BY <1>3 DEF SendRequest
  <2> QED
    BY <1>3, <2>1, CallMoves DEF SendRequest, InFlightPhases, Phases
<1>4. ASSUME NEW c \in Call, SendFails(c) \/ Deadline(c) PROVE McpInv'
  BY <1>4, CallMoves DEF SendFails, Deadline, InFlightPhases, Phases
<1>5. ASSUME NEW c \in Call, PushJson(c) PROVE McpInv'
  <2>1. inbox' \in Seq(Call \cup {Noise}) /\ Len(inbox') <= InboxCap
    <3>1. CASE UNCHANGED inbox
      BY <3>1
    <3>2. CASE HasRoom /\ inbox' = Append(inbox, c)
      BY <3>2, InboxGrows
    <3> QED
      BY <1>5, <3>1, <3>2 DEF PushJson
  <2> QED
    BY <1>5, <2>1, CallMoves DEF PushJson, InFlightPhases, Phases
<1>6. ASSUME NEW c \in Call, Receive(c) PROVE McpInv'
  <2>1. c \notin pending
    BY <1>6 DEF Receive, ChannelOK
  <2>2. CASE channel[c] = "closed"
    <3>1. pending \ {c} = pending
      BY <2>1
    <3> QED
      BY <1>6, <2>2, <3>1, CallMoves DEF Receive, InFlightPhases, Phases
  <2>3. CASE channel[c] # "closed"
    <3>1. channel[c] = c
      BY <1>6, <2>3 DEF Receive, ChannelOK, InFlightPhases
    <3>2. \A d \in Call : ChannelOK(d)'
      BY <1>6, <2>1, <2>3, <3>1 DEF Receive, ChannelOK, InFlightPhases
    <3>3. ReaderOK'
      BY <1>6, <2>3 DEF Receive, ReaderOK
    <3> QED
      BY <1>6, <2>3, <3>2, <3>3 DEF Receive
  <2> QED
    BY <2>2, <2>3
<1>7. ASSUME NEW m \in Call \cup {Noise}, ServerSends(m) PROVE McpInv'
  BY <1>7, <1>a, InboxGrows DEF ServerSends
<1>8. ASSUME ServerEnds PROVE McpInv'
  BY <1>8, <1>a DEF ServerEnds
<1>9. ASSUME DispatchMessage PROVE McpInv'
  <2>1. inbox' \in Seq(Call \cup {Noise}) /\ Len(inbox') <= InboxCap
    <3>1. inbox # <<>> /\ inbox' = Tail(inbox)
      BY <1>9 DEF DispatchMessage
    <3> QED
      BY <3>1, McpClientAssumption
  <2> DEFINE m == Head(inbox)
  <2>2. CASE m \in pending
    <3>1. pending' = pending \ {m} /\ reader' = [pc |-> "handing", to |-> m, from |-> m]
      BY <1>9, <2>2 DEF DispatchMessage, Addressee, Take
    <3>2. UNCHANGED <<callPc, channel, client>>
      BY <1>9 DEF DispatchMessage
    <3> HIDE DEF m
    <3>3. m \in Call /\ channel[m] = "empty" /\ callPc[m] \in InFlightPhases
      BY <2>2 DEF ChannelOK
    <3>4. ReaderOK'
      BY <3>1, <3>2, <3>3 DEF ReaderOK, Handing, InFlightPhases
    <3>5. \A d \in Call : ChannelOK(d)'
      BY <3>1, <3>2 DEF ChannelOK
    <3> QED
      BY <2>1, <3>1, <3>2, <3>4, <3>5
  <2>3. CASE m \notin pending
    <3>1. UNCHANGED <<pending, reader, callPc, channel, client>>
      BY <1>9, <2>3 DEF DispatchMessage, Addressee
    <3> QED
      BY <2>1, <3>1, <1>a
  <2> QED
    BY <2>2, <2>3
<1>10. ASSUME HandOver PROVE McpInv'
  <2>1. reader \in Handing /\ reader.to \in Call /\ reader.from = reader.to
        /\ channel[reader.to] = "empty"
    BY <1>10 DEF HandOver, ReaderOK, Handing, Reading
  <2>2. channel' = [channel EXCEPT ![reader.to] = reader.to] /\ reader' = Reading
        /\ UNCHANGED <<callPc, pending, inbox, client>>
    BY <1>10, <2>1 DEF HandOver
  <2>3. ReaderOK'
    BY <2>2 DEF ReaderOK, Reading
  <2>4. reader.to \notin pending /\ callPc[reader.to] # "idle"
    BY <1>10 DEF HandOver, ReaderOK
  <2>5. \A d \in Call : ChannelOK(d)'
    BY <2>1, <2>2, <2>4 DEF ChannelOK, InFlightPhases
  <2> QED
    BY <2>1, <2>2, <2>3, <2>5
<1>11. ASSUME ReaderEnds PROVE McpInv'
  BY <1>11, CloseKeeps DEF ReaderEnds
<1>12. ASSUME CloseClient PROVE McpInv'
  BY <1>12, CloseKeeps DEF CloseClient
<1>13. ASSUME CloseTransport PROVE McpInv'
  BY <1>13, <1>a DEF CloseTransport
<1> QED
  BY <1>1, <1>2, <1>3, <1>4, <1>5, <1>6, <1>7, <1>8, <1>9, <1>10, <1>11, <1>12, <1>13
  DEF McpNext, ClientStep

LEMMA McpInvariant == McpSpec => []McpInv
<1>1. ASSUME McpInit PROVE McpInv
  <2>1. inbox \in Seq(Call \cup {Noise}) /\ Len(inbox) <= InboxCap
    BY <1>1, McpClientAssumption DEF McpInit
  <2>2. ReaderOK
    BY <1>1 DEF McpInit, ReaderOK, Reading
  <2>3. \A c \in Call : ChannelOK(c)
    BY <1>1 DEF McpInit, ChannelOK, InFlightPhases
  <2> QED
    BY <1>1, <2>1, <2>2, <2>3 DEF McpInit, McpInv, McpTypeOK
<1>2. McpInv /\ [McpNext]_mcpVars => McpInv'
  BY McpStep
<1> QED
  BY <1>1, <1>2, PTL DEF McpSpec

\* A call that succeeds has the response to its own request, and the read loop
\* never finds the channel of the call it serves taken or closed, although it lets
\* go of the lock before it hands the response over and Close, deadlines and
\* repeated responses may come in between (client.go: call, dispatch, Close).
THEOREM AnswersAreOwn == McpSpec => []CallsAreMatched
<1>1. McpInv => CallsAreMatched
  BY McpInvImplies
<1> QED
  BY <1>1, McpInvariant, PTL

\* A call in flight that has no answer yet is registered, or the read loop is about
\* to hand it its answer.  Once Close began, nothing is registered any more.
Served(c) == reader.pc = "handing" /\ reader.to = c
StillAwaited ==
  \A c \in Call : callPc[c] \in InFlightPhases =>
                     channel[c] \in {c, "closed"} \/ c \in pending \/ Served(c)
AwaitInv ==
  /\ StillAwaited
  /\ client # "open" => pending = {}

\* What a call still waits for once Close began is there, or with the read loop,
\* which can always hand it over.
ClosedOrServed ==
  client # "open" =>
    \A c \in InFlight : \/ channel[c] \in {c, "closed"}
                        \/ channel[c] = "empty" /\ Served(c)

\* Whoever takes a call out of the table answers it, closes it or is the call itself.
LEMMA AwaitStep ==
  ASSUME McpInv, AwaitInv, [McpNext]_mcpVars
  PROVE  AwaitInv'
<1> USE DEF AwaitInv, mcpVars
<1>0. callPc \in [Call -> Phases] /\ DOMAIN channel = Call /\ channel = [c \in Call |-> channel[c]]
  BY DEF McpInv, McpTypeOK, Phases
<1>a. ASSUME UNCHANGED <<callPc, pending, channel, reader>>, client' = client \/ client # "open"
      PROVE  AwaitInv'
  BY <1>a DEF StillAwaited, Served
<1>b. ASSUME NEW c \in Call, NEW phase \in InFlightPhases, callPc[c] \in InFlightPhases,
             callPc' = [callPc EXCEPT ![c] = phase], UNCHANGED <<pending, channel, reader, client>>
      PROVE  AwaitInv'
  BY <1>0, <1>b DEF StillAwaited, Served
<1>c. ASSUME NEW c \in Call, callPc' = [callPc EXCEPT ![c] = "failed"],
             pending' \in {pending, pending \ {c}}, UNCHANGED <<channel, reader, client>>
      PROVE  AwaitInv'
  BY <1>0, <1>c DEF StillAwaited, Served, InFlightPhases
<1>d. ASSUME ClosePending, UNCHANGED callPc, reader' = reader \/ reader = Reading
      PROVE  AwaitInv'
  BY <1>0, <1>d DEF ClosePending, StillAwaited, Served, Reading
<1>1. ASSUME NEW c \in Call, Register(c) PROVE AwaitInv'
  <2>1. CASE client = "open"
    BY <1>0, <1>1, <2>1 DEF Register, StillAwaited, Served
  <2>2. CASE client # "open"
    BY <1>1, <2>2, <1>c DEF Register
  <2> QED
    BY <2>1, <2>2
<1>2. ASSUME NEW c \in Call, SendRequest(c) PROVE AwaitInv'
  <2>1. PICK phase \in InFlightPhases : callPc' = [callPc EXCEPT ![c] = phase]
    BY <1>2 DEF SendRequest, InFlightPhases
  <2> QED
    BY <1>2, <2>1, <1>b DEF SendRequest, InFlightPhases
<1>3. ASSUME NEW c \in Call, SendFails(c) \/ Deadline(c) PROVE AwaitInv'
  BY <1>3, <1>c DEF SendFails, Deadline
<1>4. ASSUME NEW c \in Call, PushJson(c) PROVE AwaitInv'
  <2>1. /\ callPc[c] \in InFlightPhases /\ callPc' = [callPc EXCEPT ![c] = "waiting"]
        /\ UNCHANGED <<pending, channel, reader, client>>
    BY <1>4 DEF PushJson, InFlightPhases
  <2>2. "waiting" \in InFlightPhases
    BY DEF InFlightPhases
  <2> QED
    BY <2>1, <2>2, <1>b
<1>5. ASSUME NEW c \in Call, Receive(c) PROVE AwaitInv'
  <2>1. CASE channel[c] = "closed"
    BY <1>5, <2>1, <1>c DEF Receive
  <2>2. CASE channel[c] # "closed"
    <3>1. callPc' = [callPc EXCEPT ![c] = "ok"] /\ UNCHANGED <<pending, channel, reader, client>>
      BY <1>5, <2>2 DEF Receive
    <3> QED
      BY <1>0, <3>1 DEF StillAwaited, Served, InFlightPhases
  <2> QED
    BY <2>1, <2>2
<1>6. ASSUME DispatchMessage PROVE AwaitInv'
  <2> DEFINE m == Head(inbox)
  <2>1. reader = Reading /\ UNCHANGED <<callPc, channel, client>>
    BY <1>6 DEF DispatchMessage
  <2>2. CASE m \in pending
    <3>1. pending' = pending \ {m} /\ reader' = [pc |-> "handing", to |-> m, from |-> m]
      BY <1>6, <2>2 DEF DispatchMessage, Addressee, Take
    <3> HIDE DEF m
    <3> QED
      BY <2>1, <3>1 DEF StillAwaited, Served, Reading
  <2>3. CASE m \notin pending
    BY <1>6, <1>a, <2>3 DEF DispatchMessage, Addressee
  <2> QED
    BY <2>2, <2>3
<1>7. ASSUME HandOver PROVE AwaitInv'
  <2>1. reader.to \in Call /\ reader.from = reader.to /\ channel[reader.to] = "empty"
    BY <1>7 DEF HandOver, McpInv, ReaderOK, Handing, Reading
  <2>2. channel' = [channel EXCEPT ![reader.to] = reader.to] /\ reader' = Reading
        /\ UNCHANGED <<callPc, pending, client>>
    BY <1>7, <2>1 DEF HandOver
  <2> QED
    BY <1>0, <2>1, <2>2 DEF StillAwaited, Served
<1>8. ASSUME ReaderEnds \/ CloseClient PROVE AwaitInv'
  BY <1>8, <1>d DEF ReaderEnds, CloseClient
<1>9. ASSUME \/ UNCHANGED mcpVars \/ ServerEnds \/ CloseTransport
             \/ \E m \in Call \cup {Noise} : ServerSends(m)
      PROVE  AwaitInv'
  BY <1>9, <1>a DEF ServerEnds, CloseTransport, ServerSends
<1> QED
  BY <1>1, <1>2, <1>3, <1>4, <1>5, <1>6, <1>7, <1>8, <1>9 DEF McpNext, ClientStep

\* Once Close began, no call waits for something that nobody will provide: its
\* channel is closed, or has its answer, or gets it from the read loop, which then
\* has it in hand.  A call that registers later fails at once (client.go: "releases
\* anything still waiting in call()").
THEOREM WaitersAreReleased == McpSpec => []ClosedOrServed
<1>1. McpInit => AwaitInv
  BY DEF McpInit, AwaitInv, StillAwaited, InFlightPhases
<1>2. McpInv /\ AwaitInv /\ [McpNext]_mcpVars => AwaitInv'
  BY AwaitStep
<1>3. McpInv /\ AwaitInv => ClosedOrServed
  BY DEF McpInv, ChannelOK, AwaitInv, StillAwaited, ClosedOrServed, InFlight, InFlightPhases
<1> QED
  BY <1>1, <1>2, <1>3, McpInvariant, PTL DEF McpSpec

-----------------------------------------------------------------------------
(* The inspector *)

Sections == {"tools", "resources", "prompts"}
Items == Tool \cup Resource \cup Prompt
CallRecord == [section: Sections, item: Items]
Command == [id: Nat \ {0}, section: Sections, item: Items]
Result == [id: Nat \ {0}, tool: Items]

\* A list has a selection only if it has items and the connection is there.
SelectionOK ==
  /\ DOMAIN selected = Sections /\ selected = [s \in Sections |-> selected[s]]
  /\ \A s \in Sections : selected[s] \in ItemsOf(s) \cup {NoItem}
  /\ \A s \in Sections : selected[s] # NoItem => conn
  /\ section \in Sections
  /\ offers \subseteq Sections
  /\ section \in offers \cup {"tools"}
  /\ ~connectDone => section = "tools"

\* The form is for an item of the section it was opened in, which cannot be left
\* while it is open.
FormOK ==
  /\ FormIsWhole
  /\ form # NoItem => /\ conn
                      /\ form \in ItemsOf(section)
                      /\ section = IF formPrompt = NoItem THEN "tools" ELSE "prompts"

\* What was called, is running, and came back.
CallsTyped ==
  /\ started \in Seq(CallRecord)
  /\ flight \subseteq Command
  /\ history \in Seq(Result)
  /\ started # <<>> => conn
  /\ \A i \in 1..Len(started) : started[i].item \in ItemsOf(started[i].section)

\* The item and the section of a call with a number.
IsCall(i, s, item) ==
  i \in 1..Len(started) /\ started[i].section = s /\ started[i].item = item

\* Every command that runs is one of the calls, ...
FlightOK == \A f \in flight : IsCall(f.id, f.section, f.item)

\* ... so is every entry of the history, which is there once, ...
HistoryOK ==
  /\ \A k \in 1..Len(history) : IsCall(history[k].id, "tools", history[k].tool)
  /\ \A k \in 1..Len(history) : \A f \in flight : f.id # history[k].id
  /\ \A k, l \in 1..Len(history) : history[k].id = history[l].id => k = l

\* ... and a call of a tool is running or in the history.
Settled(i) ==
  started[i].section = "tools" =>
    \/ \E f \in flight : f.id = i
    \/ \E k \in 1..Len(history) : history[k].id = i
NoneLost == \A i \in 1..Len(started) : Settled(i)

CallsOK == CallsTyped /\ FlightOK /\ HistoryOK /\ NoneLost

InspectorInv ==
  /\ pane \in {"list", "form", "history", "logs"}
  /\ server \in {"none", "open", "closed"}
  /\ program \in {"running", "quit", "over"}
  /\ SelectionOK /\ FormOK /\ CallsOK
  /\ ShownIsSelected /\ CallingIsRunning

LEMMA InspectorInvImplies ==
  ASSUME InspectorInv PROVE ScreenIsConsistent
<1> USE DEF InspectorInv, CallsOK
<1>1. InspectorTypeOK
  BY DEF InspectorTypeOK, SelectionOK
<1>2. HistoryIsComplete
  <2> SUFFICES ASSUME NEW i \in 1..Len(started)
               PROVE  LET entries == {k \in 1..Len(history) : history[k].id = i}
                      IN IF started[i].section = "tools" /\ \A f \in flight : f.id # i
                           THEN \E k \in entries : entries = {k} /\ history[k].tool = started[i].item
                           ELSE entries = {}
    BY DEF HistoryIsComplete
  <2> DEFINE entries == {k \in 1..Len(history) : history[k].id = i}
  <2>1. CASE started[i].section = "tools" /\ \A f \in flight : f.id # i
    <3>1. Settled(i)
      BY DEF NoneLost
    <3>2. PICK k \in 1..Len(history) : history[k].id = i
      BY <2>1, <3>1 DEF Settled
    <3>3. \A l \in 1..Len(history) : history[l].id = i => l = k
      BY <3>2 DEF HistoryOK
    <3>4. history[k].tool = started[i].item
      BY <3>2 DEF HistoryOK, IsCall
    <3>5. entries = {k}
      BY <3>2, <3>3
    <3> QED
      BY <2>1, <3>4, <3>5
  <2>2. CASE ~(started[i].section = "tools" /\ \A f \in flight : f.id # i)
    <3>1. ASSUME NEW k \in 1..Len(history), history[k].id = i PROVE FALSE
      <4>1. started[i].section = "tools" /\ \A f \in flight : f.id # i
        BY <3>1 DEF HistoryOK, IsCall
      <4> QED
        BY <2>2, <4>1
    <3> QED
      BY <2>2, <3>1
  <2> QED
    BY <2>1, <2>2
<1> QED
  BY <1>1, <1>2 DEF ScreenIsConsistent, FormOK

\* A set of places of a sequence has a last one.
LEMMA LastPlace ==
  ASSUME NEW n \in Nat, NEW S \in SUBSET (1..n), S # {}
  PROVE  \E i \in S : \A j \in S : j <= i
<1> DEFINE T == {n - i : i \in S}
<1>1. T \in SUBSET Nat /\ T # {}
  <2>1. \A i \in S : n - i \in Nat
    <3> TAKE i \in S
    <3>1. i \in 1..n
      OBVIOUS
    <3> HIDE DEF T
    <3> QED
      BY <3>1
  <2> QED
    BY <2>1
<1>2. PICK x \in T : \A y \in T : <<y, x>> \notin OpToRel(<, Nat)
  <2>1. IsWellFoundedOn(OpToRel(<, Nat), Nat)
    BY NatLessThanWellFounded
  <2> QED
    BY <1>1, <2>1, WFMin
<1>3. \A y \in T : ~ (y < x)
  BY <1>1, <1>2 DEF OpToRel
<1>4. PICK i \in S : x = n - i
  OBVIOUS
<1>5. \A j \in S : j <= i
  <2> TAKE j \in S
  <2>1. n - j \in T /\ i \in Int /\ j \in Int
    OBVIOUS
  <2>2. ~ (n - j < n - i)
    BY <1>3, <1>4, <2>1
  <2> HIDE DEF T
  <2> QED
    BY <2>1, <2>2
<1> QED
  BY <1>5

\* lastResultFor finds a result of the tool it is asked for, or none.
LEMMA LastResultOf ==
  ASSUME history \in Seq(Result), NEW t, LastResultFor(t) # NoItem
  PROVE  LastResultFor(t).tool = t
<1> DEFINE mine == {i \in 1..Len(history) : history[i].tool = t}
<1>1. mine # {}
  BY DEF LastResultFor
<1>2. mine \in SUBSET (1..Len(history)) /\ Len(history) \in Nat
  OBVIOUS
<1>3. \E i \in mine : \A j \in mine : j <= i
  BY <1>1, <1>2, LastPlace
<1> DEFINE last == CHOOSE i \in mine : \A j \in mine : j <= i
<1>4. last \in mine
  BY <1>3
<1>5. LastResultFor(t) = history[last]
  BY <1>1 DEF LastResultFor
<1> QED
  BY <1>4, <1>5

LEMMA SyncShowsSelected ==
  ASSUME InspectorInv, NEW s, NEW item, SyncDetail(s, item) # NoItem
  PROVE  s = "tools" /\ SyncDetail(s, item).tool = item
<1>1. history \in Seq(Result)
  BY DEF InspectorInv, CallsOK, CallsTyped
<1>2. s = "tools" /\ SyncDetail(s, item) = LastResultFor(item)
  BY DEF SyncDetail
<1> QED
  BY <1>1, <1>2, LastResultOf

\* A command that starts is a call more, in the record of calls and in flight.
LEMMA StartKeeps ==
  ASSUME InspectorInv, conn', NEW s \in Sections, NEW item \in ItemsOf(s), Start(s, item)
  PROVE  CallsOK' /\ CallingIsRunning'
<1> USE DEF InspectorInv, CallsOK
<1>0. PICK n \in Nat : n = Len(started)
  BY DEF CallsTyped
<1> DEFINE call == [section |-> s, item |-> item]
           command == [id |-> n + 1, section |-> s, item |-> item]
<1>1. /\ started' = Append(started, call) /\ flight' = flight \cup {command}
      /\ UNCHANGED history /\ callingTool' = item
  BY <1>0 DEF Start
<1>2. item \in Items
  BY DEF ItemsOf, Items, Sections
<1>3. n \in Nat /\ call \in CallRecord /\ command \in Command /\ command.id = n + 1
      /\ command.item = item /\ command.section = s /\ call.section = s /\ call.item = item
  BY <1>2 DEF CallsTyped, CallRecord, Command
<1>4. CallingIsRunning'
  BY <1>1, <1>3 DEF CallingIsRunning
<1> HIDE DEF call, command
<1>5. started' \in Seq(CallRecord) /\ Len(started') = n + 1 /\ started'[n + 1] = call
      /\ \A i \in 1..n : started'[i] = started[i]
  BY <1>0, <1>1, <1>3 DEF CallsTyped
<1>6. \A i \in 1..(n + 1) : i \in 1..n \/ i = n + 1
  BY <1>3
<1>7. CallsTyped'
  <2>1. \A i \in 1..(n + 1) : started'[i].item \in ItemsOf(started'[i].section)
    BY <1>0, <1>3, <1>5, <1>6 DEF CallsTyped
  <2> QED
    BY <1>1, <1>3, <1>5, <2>1 DEF CallsTyped
<1>8. ASSUME NEW i, NEW t, NEW x, IsCall(i, t, x) PROVE IsCall(i, t, x)' /\ i # n + 1
  BY <1>0, <1>3, <1>5, <1>8 DEF IsCall
<1>9. FlightOK'
  <2>1. IsCall(n + 1, s, item)'
    <3>1. n + 1 \in 1..(n + 1)
      BY <1>3
    <3> QED
      BY <1>3, <1>5, <3>1 DEF IsCall
  <2>2. \A f \in flight : IsCall(f.id, f.section, f.item)'
    BY <1>8 DEF FlightOK
  <2> QED
    BY <1>1, <1>3, <2>1, <2>2 DEF FlightOK
<1>10. HistoryOK'
  <2>1. ASSUME NEW k \in 1..Len(history)
        PROVE  IsCall(history[k].id, "tools", history[k].tool)' /\ history[k].id # n + 1
    <3>1. IsCall(history[k].id, "tools", history[k].tool)
      BY DEF HistoryOK
    <3> QED
      BY <1>1, <1>8, <3>1
  <2> QED
    BY <1>1, <1>3, <2>1 DEF HistoryOK
<1>11. NoneLost'
  <2> SUFFICES ASSUME NEW i \in 1..(n + 1) PROVE Settled(i)'
    BY <1>5 DEF NoneLost
  <2>1. CASE i = n + 1
    BY <1>1, <1>3, <2>1 DEF Settled
  <2>2. CASE i \in 1..n
    <3>1. Settled(i) /\ started'[i] = started[i]
      BY <1>0, <1>5, <2>2 DEF NoneLost
    <3> QED
      BY <1>1, <3>1 DEF Settled
  <2> QED
    BY <1>6, <2>1, <2>2
<1> QED
  BY <1>4, <1>7, <1>9, <1>10, <1>11

\* A result moves a call from the commands that run to the history.
LEMMA ResultKeeps ==
  ASSUME InspectorInv, conn' = conn, NEW f \in flight, flight' = flight \ {f}, UNCHANGED started,
         history' = IF f.section = "tools" THEN Append(history, [id |-> f.id, tool |-> f.item])
                                           ELSE history
  PROVE  CallsOK'
<1> USE DEF InspectorInv, CallsOK
<1>1. f \in Command /\ IsCall(f.id, f.section, f.item)
  BY DEF CallsTyped, FlightOK
<1>2. \A g \in flight : g.id = f.id => g = f
  BY DEF CallsTyped, FlightOK, IsCall, Command
<1>3. FlightOK'
  BY DEF FlightOK, IsCall
<1>4. CASE f.section = "tools"
  <2> DEFINE entry == [id |-> f.id, tool |-> f.item]
             n == Len(history)
  <2>1. n \in Nat /\ entry \in Result /\ entry.id = f.id /\ entry.tool = f.item
    BY <1>1 DEF CallsTyped, Command, Result
  <2>2. history' = Append(history, entry)
    BY <1>4
  <2> HIDE DEF entry
  <2>3. history' \in Seq(Result) /\ Len(history') = n + 1 /\ history'[n + 1] = entry
        /\ \A k \in 1..n : history'[k] = history[k]
    BY <2>1, <2>2 DEF CallsTyped
  <2>4. CallsTyped'
    BY <2>3 DEF CallsTyped
  <2> HIDE DEF n
  <2>5. \A k \in 1..(n + 1) : k \in 1..n \/ k = n + 1
    BY <2>1
  <2>6. \A k \in 1..n : /\ IsCall(history'[k].id, "tools", history'[k].tool)
                        /\ history'[k].id # f.id
                        /\ \A g \in flight' : g.id # history'[k].id
    BY <2>3 DEF HistoryOK, IsCall, n
  <2>7. IsCall(history'[n + 1].id, "tools", history'[n + 1].tool)
        /\ \A g \in flight' : g.id # history'[n + 1].id
    BY <1>1, <1>2, <1>4, <2>1, <2>3 DEF IsCall
  <2>8. \A k, l \in 1..n : history'[k].id = history'[l].id => k = l
    BY <2>3 DEF HistoryOK, n
  <2>9. HistoryOK'
    <3>1. \A k \in 1..(n + 1) : /\ IsCall(history'[k].id, "tools", history'[k].tool)
                                /\ \A g \in flight' : g.id # history'[k].id
      BY <2>5, <2>6, <2>7
    <3>2. \A k, l \in 1..(n + 1) : history'[k].id = history'[l].id => k = l
      BY <2>1, <2>3, <2>5, <2>6, <2>8
    <3> QED
      BY <2>3, <3>1, <3>2 DEF HistoryOK, IsCall
  <2>10. NoneLost'
    <3> SUFFICES ASSUME NEW i \in 1..Len(started) PROVE Settled(i)'
      BY DEF NoneLost
    <3>1. Settled(i)
      BY DEF NoneLost
    <3>2. CASE i = f.id
      <4>1. n + 1 \in 1..Len(history') /\ history'[n + 1].id = i
        BY <2>1, <2>3, <3>2
      <4> QED
        BY <4>1 DEF Settled
    <3>3. CASE \E k \in 1..n : history[k].id = i
      <4>1. PICK k \in 1..n : history[k].id = i
        BY <3>3
      <4>2. k \in 1..Len(history') /\ history'[k].id = i
        BY <2>1, <2>3, <4>1
      <4> QED
        BY <4>2 DEF Settled
    <3>4. CASE i # f.id /\ \E g \in flight : g.id = i
      BY <3>4 DEF Settled
    <3>5. CASE started[i].section # "tools"
      BY <3>5 DEF Settled
    <3> QED
      BY <3>1, <3>2, <3>3, <3>4, <3>5 DEF Settled, n
  <2> QED
    BY <1>3, <2>4, <2>9, <2>10
<1>5. CASE f.section # "tools"
  <2>1. UNCHANGED history
    BY <1>5
  <2>2. \A i \in 1..Len(started) : Settled(i)'
    BY <1>1, <1>5, <2>1 DEF NoneLost, Settled, IsCall
  <2> QED
    BY <1>3, <2>1, <2>2 DEF CallsTyped, HistoryOK, NoneLost, IsCall
<1> QED
  BY <1>4, <1>5

LEMMA CallsStay ==
  ASSUME InspectorInv, UNCHANGED calls, conn => conn'
  PROVE  CallsOK' /\ CallingIsRunning'
<1> USE DEF calls
<1>1. CallsTyped' /\ FlightOK' /\ HistoryOK' /\ NoneLost'
  BY DEF InspectorInv, CallsOK, CallsTyped, FlightOK, HistoryOK, NoneLost, Settled, IsCall
<1>2. CallingIsRunning'
  BY DEF InspectorInv, CallingIsRunning
<1> QED
  BY <1>1, <1>2 DEF CallsOK

\* Selecting an item of a list keeps every list's selection among its items.
LEMMA SelectKeeps ==
  ASSUME InspectorInv, NEW s \in Sections, NEW item \in ItemsOf(s), conn,
         selected' = [selected EXCEPT ![s] = item],
         UNCHANGED <<conn, section, offers, connectDone>>
  PROVE  SelectionOK' /\ selected'[s] = item
BY DEF InspectorInv, SelectionOK

LEMMA InspectorStep ==
  ASSUME InspectorInv, [InspectorNext]_inspectorVars
  PROVE  InspectorInv'
<1> USE DEF InspectorInv
<1> USE InspectorAssumption
<1>0. section \in Sections /\ selected["tools"] \in Tool \cup {NoItem}
  BY DEF SelectionOK, ItemsOf, Sections
<1>1. CASE UNCHANGED inspectorVars
  BY <1>1, CallsStay DEF inspectorVars, connection, calls, SelectionOK, FormOK, FormIsWhole,
                         ShownIsSelected
<1>2. ASSUME NEW ok \in BOOLEAN, Connect(ok) PROVE InspectorInv'
  <2>1. server' \in {"none", "open", "closed"}
    BY <1>2 DEF Connect
  <2> QED
    BY <1>2, <2>1, CallsStay DEF Connect, calls, SelectionOK, FormOK, FormIsWhole, ShownIsSelected
<1>3. ASSUME NEW lists \in SUBSET {"resources", "prompts"}, HandleConnected(lists)
      PROVE  InspectorInv'
  <2>1. CASE connecting = "failed"
    BY <1>3, <2>1, CallsStay DEF HandleConnected, calls, SelectionOK, FormOK, FormIsWhole,
                                 ShownIsSelected
  <2>2. CASE connecting # "failed"
    <3>1. /\ ~connectDone /\ conn' = TRUE /\ offers' = lists /\ connectDone' = TRUE
          /\ selected' = [s \in DOMAIN selected |->
                            IF s \in lists \cup {"tools"} THEN CHOOSE x \in ItemsOf(s) : TRUE
                                                          ELSE NoItem]
          /\ shown' = SyncDetail(section, selected'[section])
          /\ UNCHANGED <<server, pane, section, form, formPrompt, calls, program>>
      BY <1>3, <2>2 DEF HandleConnected
    <3>2. \A s \in Sections : ItemsOf(s) # {}
      BY DEF Sections, ItemsOf
    <3>3. \A s \in Sections : selected'[s] \in ItemsOf(s) \cup {NoItem}
      BY <3>1, <3>2 DEF SelectionOK
    <3>4. SelectionOK'
      <4>1. section = "tools" /\ DOMAIN selected = Sections
        BY <3>1 DEF SelectionOK
      <4>2. DOMAIN selected' = Sections /\ selected' = [s \in Sections |-> selected'[s]]
        BY <3>1, <4>1
      <4> QED
        BY <3>1, <3>3, <4>1, <4>2 DEF SelectionOK, Sections
    <3>5. ShownIsSelected'
      BY <3>1, SyncShowsSelected DEF ShownIsSelected
    <3>6. FormOK'
      BY <3>1 DEF FormOK, FormIsWhole
    <3> QED
      BY <3>1, <3>4, <3>5, <3>6, CallsStay
  <2> QED
    BY <2>1, <2>2
<1>4. ASSUME NEW item, Move(item) PROVE InspectorInv'
  <2>1. /\ selected[section] # NoItem /\ item \in ItemsOf(section)
        /\ selected' = [selected EXCEPT ![section] = item]
        /\ shown' = SyncDetail(section, item)
        /\ UNCHANGED <<connection, pane, section, form, formPrompt, calls, program>>
    BY <1>4 DEF Move
  <2>2. SelectionOK' /\ selected'[section] = item
    BY <1>0, <2>1, SelectKeeps DEF SelectionOK, connection
  <2>3. ShownIsSelected'
    BY <2>1, <2>2, SyncShowsSelected DEF ShownIsSelected
  <2>4. FormOK'
    BY <2>1 DEF FormOK, FormIsWhole, connection
  <2> QED
    BY <2>1, <2>2, <2>3, <2>4, CallsStay DEF connection
<1>5. ASSUME NEW s \in Sections, SwitchSection(s) PROVE InspectorInv'
  <2>1. /\ section' = s /\ s \in offers \cup {"tools"} /\ connectDone /\ pane = "list"
        /\ shown' = SyncDetail(s, selected[s])
        /\ UNCHANGED <<connection, pane, selected, form, formPrompt, calls, program>>
    BY <1>5 DEF SwitchSection, Browsing
  <2>2. SelectionOK'
    BY <2>1 DEF SelectionOK, connection
  <2>3. ShownIsSelected'
    BY <2>1, SyncShowsSelected DEF ShownIsSelected
  <2>4. FormOK'
    BY <2>1 DEF FormOK, FormIsWhole, connection
  <2> QED
    BY <2>1, <2>2, <2>3, <2>4, CallsStay DEF connection
<1>6. ASSUME Activate PROVE InspectorInv'
  <2>1. /\ conn /\ selected[section] # NoItem
        /\ Start(section, selected[section])
        /\ UNCHANGED <<connection, pane, section, selected, form, formPrompt, shown, program>>
    BY <1>6 DEF Activate
  <2>2. selected[section] \in ItemsOf(section)
    BY <1>0, <2>1 DEF SelectionOK
  <2>3. CallsOK' /\ CallingIsRunning'
    BY <1>0, <2>1, <2>2, StartKeeps DEF connection
  <2> QED
    BY <2>1, <2>3 DEF connection, SelectionOK, FormOK, FormIsWhole, ShownIsSelected
<1>7. ASSUME OpenCallForm PROVE InspectorInv'
  <2>1. /\ pane = "list" /\ selected[section] # NoItem
        /\ section \in {"tools", "prompts"}
        /\ form' = selected[section]
        /\ formPrompt' = IF section = "prompts" THEN selected[section] ELSE formPrompt
        /\ pane' = "form"
        /\ UNCHANGED <<connection, section, selected, calls, shown, program>>
    BY <1>7 DEF OpenCallForm, Browsing
  <2>2. selected[section] \in ItemsOf(section) /\ conn
    BY <1>0, <2>1 DEF SelectionOK
  <2>3. FormOK'
    BY <2>1, <2>2 DEF FormOK, FormIsWhole, connection
  <2> QED
    BY <2>1, <2>3, CallsStay DEF connection, SelectionOK, ShownIsSelected
<1>8. ASSUME CancelForm PROVE InspectorInv'
  BY <1>8, CallsStay DEF CancelForm, connection, SelectionOK, FormOK, FormIsWhole, ShownIsSelected
<1>9. ASSUME NEW ok \in BOOLEAN, SubmitForm(ok) PROVE InspectorInv'
  <2>1. /\ pane = "form" /\ pane' = "list" /\ form' = NoItem
        /\ UNCHANGED <<connection, section, selected, shown, program>>
    BY <1>9 DEF SubmitForm, Browsing
  <2>2. form # NoItem /\ conn
    BY <2>1 DEF FormOK, FormIsWhole
  <2>3. CASE ~Converts(ok)
    <3>1. formPrompt = NoItem /\ UNCHANGED <<calls, formPrompt>>
      BY <1>9, <2>3 DEF SubmitForm, Converts
    <3> QED
      BY <2>1, <3>1, CallsStay DEF connection, SelectionOK, FormOK, FormIsWhole, ShownIsSelected
  <2>4. CASE Converts(ok) /\ formPrompt # NoItem
    <3>1. Start("prompts", formPrompt) /\ formPrompt' = NoItem
      BY <1>9, <2>2, <2>4 DEF SubmitForm
    <3>2. formPrompt \in ItemsOf("prompts") /\ "prompts" \in Sections
      <4>1. form = formPrompt /\ section = "prompts" /\ form \in ItemsOf(section)
        BY <2>2, <2>4 DEF FormOK, FormIsWhole
      <4> QED
        BY <4>1 DEF Sections
    <3>3. CallsOK' /\ CallingIsRunning'
      BY <2>1, <2>2, <3>1, <3>2, StartKeeps DEF connection
    <3> QED
      BY <2>1, <3>1, <3>3 DEF connection, SelectionOK, FormOK, FormIsWhole, ShownIsSelected
  <2>5. CASE Converts(ok) /\ formPrompt = NoItem
    <3>1. Start("tools", form) /\ UNCHANGED formPrompt
      BY <1>9, <2>2, <2>5 DEF SubmitForm
    <3>2. form \in ItemsOf("tools") /\ "tools" \in Sections
      BY <2>2, <2>5 DEF FormOK, Sections
    <3>3. CallsOK' /\ CallingIsRunning'
      BY <2>1, <2>2, <3>1, <3>2, StartKeeps DEF connection
    <3> QED
      BY <2>1, <2>5, <3>1, <3>3 DEF connection, SelectionOK, FormOK, FormIsWhole, ShownIsSelected
  <2> QED
    BY <2>3, <2>4, <2>5
<1>10. ASSUME NEW p \in {"list", "history", "logs"}, SwitchPane(p) PROVE InspectorInv'
  <2>1. pane \in {"list", "history", "logs"} /\ pane' = p
        /\ UNCHANGED <<connection, section, selected, form, formPrompt, calls, shown, program>>
    BY <1>10 DEF SwitchPane
  <2> QED
    BY <2>1, CallsStay DEF connection, SelectionOK, FormOK, FormIsWhole, ShownIsSelected
<1>11. ASSUME NEW i, ShowHistory(i) PROVE InspectorInv'
  <2>1. /\ pane = "history" /\ i \in 1..Len(history)
        /\ shown' = history[i] /\ pane' = "list"
        /\ selected' = [selected EXCEPT !["tools"] = history[i].tool]
        /\ UNCHANGED <<connection, section, form, formPrompt, calls, program>>
    BY <1>11 DEF ShowHistory, Browsing
  <2>2. IsCall(history[i].id, "tools", history[i].tool)
    BY <2>1 DEF CallsOK, HistoryOK
  <2>3. conn /\ history[i].tool \in ItemsOf("tools")
    BY <2>2 DEF CallsOK, CallsTyped, IsCall
  <2>4. SelectionOK' /\ selected'["tools"] = history[i].tool
    BY <2>1, <2>3, SelectKeeps DEF connection, Sections
  <2>5. FormOK' /\ ShownIsSelected'
    BY <2>1, <2>4 DEF connection, FormOK, FormIsWhole, ShownIsSelected
  <2> QED
    BY <2>1, <2>4, <2>5, CallsStay DEF connection
<1>12. ASSUME NEW f \in flight, HandleResult(f) PROVE InspectorInv'
  <2>1. /\ flight' = flight \ {f} /\ calling' = FALSE
        /\ UNCHANGED <<connection, pane, section, form, formPrompt, started, program>>
    BY <1>12 DEF HandleResult, CallingEnds
  <2>2. FormOK' /\ CallingIsRunning'
    BY <2>1 DEF connection, FormOK, FormIsWhole, CallingIsRunning
  <2>3. CASE f.section = "tools"
    <3>1. /\ history' = Append(history, [id |-> f.id, tool |-> f.item])
          /\ shown' = [id |-> f.id, tool |-> f.item]
          /\ selected' = [selected EXCEPT !["tools"] = f.item]
      BY <1>12, <2>3 DEF HandleResult, RecordCall
    <3>2. CallsOK'
      BY <2>1, <2>3, <3>1, ResultKeeps DEF connection
    <3>3. IsCall(f.id, "tools", f.item)
      BY <2>3 DEF CallsOK, FlightOK
    <3>4. conn /\ f.item \in ItemsOf("tools")
      BY <3>3 DEF CallsOK, CallsTyped, IsCall
    <3>5. SelectionOK' /\ selected'["tools"] = f.item
      BY <2>1, <3>1, <3>4, SelectKeeps DEF connection, Sections
    <3> QED
      BY <2>1, <2>2, <3>1, <3>2, <3>5 DEF connection, ShownIsSelected
  <2>4. CASE f.section # "tools"
    <3>1. UNCHANGED <<history, shown, selected>>
      BY <1>12, <2>4 DEF HandleResult
    <3>2. CallsOK'
      BY <2>1, <2>4, <3>1, ResultKeeps DEF connection
    <3> QED
      BY <2>1, <2>2, <3>1, <3>2 DEF connection, SelectionOK, ShownIsSelected
  <2> QED
    BY <2>3, <2>4
<1>13. ASSUME Quit PROVE InspectorInv'
  BY <1>13, CallsStay DEF Quit, connection, SelectionOK, FormOK, FormIsWhole, ShownIsSelected
<1>14. ASSUME CloseConnection PROVE InspectorInv'
  BY <1>14, CallsStay DEF CloseConnection, SelectionOK, FormOK, FormIsWhole, ShownIsSelected
<1> QED
  BY <1>1, <1>2, <1>3, <1>4, <1>5, <1>6, <1>7, <1>8, <1>9, <1>10, <1>11, <1>12, <1>13, <1>14
  DEF InspectorNext, Sections

\* What the inspector shows belongs to what is selected, the form to its section, a
\* call that returned is in the history once under its own tool's name, and what the
\* header says is running runs: in whatever order keys, results and the connection
\* come, and however many calls overlap (inspector/model.go: Update and its handlers).
THEOREM ScreenSafety == InspectorSpec => []ScreenIsConsistent
<1>1. ASSUME InspectorInit PROVE InspectorInv
  <2>1. started = <<>> /\ history = <<>> /\ flight = {} /\ ~calling
    BY <1>1 DEF InspectorInit
  <2>2. CallsTyped /\ FlightOK /\ HistoryOK /\ NoneLost /\ CallingIsRunning
    BY <2>1 DEF CallsTyped, FlightOK, HistoryOK, NoneLost, CallingIsRunning
  <2>3. SelectionOK /\ FormOK /\ ShownIsSelected
    BY <1>1 DEF InspectorInit, SelectionOK, Sections, FormOK, FormIsWhole, ShownIsSelected
  <2> QED
    BY <1>1, <2>2, <2>3 DEF InspectorInit, InspectorInv, CallsOK
<1>2. InspectorInv /\ [InspectorNext]_inspectorVars => InspectorInv'
  BY InspectorStep
<1>3. InspectorInv => ScreenIsConsistent
  BY InspectorInvImplies
<1> QED
  BY <1>1, <1>2, <1>3, PTL DEF InspectorSpec
=============================================================================
