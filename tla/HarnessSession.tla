--------------------------- MODULE HarnessSession ---------------------------
(***************************************************************************)
(* One attempt's harness process: the adapter's preparation, the process   *)
(* supervisor, the output filter and log, and the permission helper that   *)
(* the harness starts for every tool it wants to use (internal/process,    *)
(* harness adapters, permissionbridge, approval client and gateway).  The  *)
(* worker, two supervisor goroutines, the gateway's handlers, a person and *)
(* the process group all move on their own.                                *)
(***************************************************************************)
EXTENDS Integers, FiniteSets

CONSTANTS
  Kid,         \* descendants of the harness; each may be a permission helper
  MaxOutput    \* bound: output, in half lines

ASSUME HarnessSessionAssumption == MaxOutput \in Nat

VARIABLES
  mode,      \* the run's permission, "readonly" or "write"
  session,   \* where worker.execute is
  token,     \* the gateway session: "none", "open", "closed"
  config,    \* the adapter's temporary configuration exists
  runCtx,    \* the run's context
  parent,    \* the harness: "none", "running", "exited"
  exitOK,    \* it exited with code 0
  kids,      \* live descendants
  deaf,      \* the processes that ignore SIGTERM
  stopper,   \* stopOnce: "idle", "graceful", "grace", "ended"
  cancel,    \* process.cancel is set
  waiter,    \* the wait goroutine: "none", "waiting", "finished", "done"
  result,    \* what Wait returns
  written,   \* half lines the harness has written
  buffered,  \* half lines the filter holds back
  logged,    \* lines in the attempt's log
  ask        \* permission requests, by helper

processVars == <<parent, exitOK, kids, deaf, stopper, cancel, waiter, result>>
outputVars == <<written, buffered, logged>>
sessionVars == <<mode, session, token, config, runCtx, processVars, outputVars, ask>>

NoAsk == [pc |-> "none"]
Process == Kid \cup {"parent"}

SessionInit ==
  /\ mode \in {"readonly", "write"} /\ deaf \in SUBSET Process
  /\ session = "open" /\ token = "none" /\ config = FALSE /\ runCtx = "live"
  /\ parent = "none" /\ exitOK = TRUE /\ kids = {}
  /\ stopper = "idle" /\ cancel = FALSE /\ waiter = "none" /\ result = "none"
  /\ written = 0 /\ buffered = 0 /\ logged = 0
  /\ ask = [k \in Kid |-> NoAsk]

-----------------------------------------------------------------------------
(* worker.execute and the adapter *)

\* execute returns: the deferred calls remove the configuration and close the
\* credentials.
Over ==
  /\ session' = "over"
  /\ config' = FALSE
  /\ token' = IF token = "open" THEN "closed" ELSE token

\* Open creates a token for a run that may write.
OpenSession ==
  /\ session = "open"
  /\ session' = "prepare"
  /\ token' = IF mode = "write" THEN "open" ELSE token
  /\ UNCHANGED <<mode, config, runCtx, processVars, outputVars, ask>>

\* PrepareInvocation: a writing run gets a temporary configuration that names the
\* helper, its endpoint and its token; a failure removes what was written.
PrepareInvocation(ok) ==
  /\ session = "prepare"
  /\ IF ok THEN session' = "start" /\ config' = (mode = "write") /\ UNCHANGED token ELSE Over
  /\ UNCHANGED <<mode, runCtx, processVars, outputVars, ask>>

\* Start refuses a context that is over, and the command may fail to start.
StartProcess(ok) ==
  /\ session = "start"
  /\ IF ok /\ runCtx = "live"
       THEN /\ session' = "wait" /\ parent' = "running" /\ waiter' = "waiting"
            /\ UNCHANGED <<token, config>>
       ELSE Over /\ UNCHANGED <<parent, waiter>>
  /\ UNCHANGED <<mode, runCtx, exitOK, kids, deaf, stopper, cancel, result, outputVars, ask>>

\* Wait returns and the attempt is over.
EndSession ==
  /\ session = "wait"
  /\ waiter = "done"
  /\ Over
  /\ UNCHANGED <<mode, runCtx, processVars, outputVars, ask>>

CancelContext ==
  /\ runCtx = "live"
  /\ runCtx' = "cancelled"
  /\ UNCHANGED <<mode, session, token, config, processVars, outputVars, ask>>

-----------------------------------------------------------------------------
(* The processes *)

Fork(k) ==
  /\ parent = "running"
  /\ k \notin kids /\ ask[k] = NoAsk
  /\ kids' = kids \cup {k}
  /\ UNCHANGED <<mode, session, token, config, runCtx, parent, exitOK, deaf, stopper, cancel,
                 waiter, result, outputVars, ask>>

ProcessExits(p, ok) ==
  /\ IF p = "parent"
       THEN parent = "running" /\ parent' = "exited" /\ exitOK' = ok /\ UNCHANGED kids
       ELSE p \in kids /\ kids' = kids \ {p} /\ UNCHANGED <<parent, exitOK>>
  /\ UNCHANGED <<mode, session, token, config, runCtx, deaf, stopper, cancel, waiter, result,
                 outputVars, ask>>

\* Signal: every process of the group that is not in spared ends.
Signal(spared) ==
  /\ kids' = kids \cap spared
  /\ IF parent = "running" /\ "parent" \notin spared
       THEN parent' = "exited" /\ exitOK' = FALSE
       ELSE UNCHANGED <<parent, exitOK>>

-----------------------------------------------------------------------------
(* The supervisor *)

\* stop, called by watch, the heartbeat or the worker, takes effect once, and not
\* at all on a process that has finished.
Stop ==
  /\ waiter # "none" /\ stopper = "idle"
  /\ IF waiter = "waiting"
       THEN cancel' = TRUE /\ stopper' = "graceful"
       ELSE stopper' = "ended" /\ UNCHANGED cancel
  /\ UNCHANGED <<mode, session, token, config, runCtx, parent, exitOK, kids, deaf, waiter, result,
                 outputVars, ask>>

\* watch: the context is over, and the process is not done.
Watch == runCtx = "cancelled" /\ waiter # "done" /\ Stop

\* The heartbeat lost the lease, or the start could not be recorded.
StopCalled == session = "wait" /\ Stop

Graceful ==
  /\ stopper = "graceful"
  /\ Signal(deaf)
  /\ stopper' = "grace"
  /\ UNCHANGED <<mode, session, token, config, runCtx, deaf, cancel, waiter, result, outputVars, ask>>

\* Mutant: a process that ignores the signal is waited for.
GraceForever ==
  /\ stopper = "grace"
  /\ waiter = "done"
  /\ stopper' = "ended"
  /\ UNCHANGED <<mode, session, token, config, runCtx, parent, exitOK, kids, deaf, cancel, waiter,
                 result, outputVars, ask>>

\* The process is done, or the grace period is over and the group is killed.
GraceEnds ==
  /\ stopper = "grace"
  /\ IF waiter = "done" THEN UNCHANGED <<parent, exitOK, kids>> ELSE Signal({})
  /\ stopper' = "ended"
  /\ UNCHANGED <<mode, session, token, config, runCtx, deaf, cancel, waiter, result, outputVars, ask>>

\* cmd.Wait returned: the harness has exited and its output is closed, or the wait
\* delay is over while descendants still hold it, which is an error.
WaitReturns ==
  /\ waiter = "waiting"
  /\ parent = "exited"
  /\ waiter' = "finished"
  /\ result' = IF cancel THEN "cancelled" ELSE IF exitOK /\ kids = {} THEN "ok" ELSE "failed"
  /\ UNCHANGED <<mode, session, token, config, runCtx, parent, exitOK, kids, deaf, stopper, cancel,
                 outputVars, ask>>

\* Mutant: a harness that exited by itself leaves its descendants alone.
CloseIfCancelled ==
  /\ waiter = "finished"
  /\ IF cancel THEN Signal({}) ELSE UNCHANGED <<parent, exitOK, kids>>
  /\ waiter' = "done"
  /\ UNCHANGED <<mode, session, token, config, runCtx, deaf, stopper, cancel, result, outputVars, ask>>

\* The tree is killed and done is closed.
CloseDone ==
  /\ waiter = "finished"
  /\ Signal({})
  /\ waiter' = "done"
  /\ UNCHANGED <<mode, session, token, config, runCtx, deaf, stopper, cancel, result, outputVars, ask>>

-----------------------------------------------------------------------------
(* Output: chunks of half lines, put together to lines and logged *)

\* jsonlFilter lets whole lines through and keeps the rest.
Filter(n) == [lines |-> (buffered + n) \div 2, rest |-> (buffered + n) % 2]

\* The emitter calls filter and sink under its lock; the sink appends to the log.
Write(n) ==
  /\ parent = "running"
  /\ written + n <= MaxOutput
  /\ written' = written + n
  /\ buffered' = Filter(n).rest
  /\ logged' = logged + Filter(n).lines
  /\ UNCHANGED <<mode, session, token, config, runCtx, processVars, ask>>

-----------------------------------------------------------------------------
(* Permission requests *)

\* NormalizeToolRequest: edits inside the workspace and commands have a scope;
\* a request to leave the sandbox, a path outside and any other tool do not.
Bounded(kind) == mode = "write" /\ kind \in {"edit", "command"}

\* The harness starts a helper, which sends the request with the run's token.
SendAsk(k, kind) ==
  /\ k \in kids /\ config /\ ask[k] = NoAsk
  /\ ask' = [ask EXCEPT ![k] = [pc |-> "sent", kind |-> kind, decision |-> "none"]]
  /\ UNCHANGED <<mode, session, token, config, runCtx, processVars, outputVars>>

Answer(k, behaviour) == ask' = [ask EXCEPT ![k].pc = behaviour]

\* authorize looks the token up and normalises the request; the broker takes over.
Authorize(k) ==
  /\ ask[k].pc = "sent"
  /\ Answer(k, IF token = "open" /\ runCtx = "live" /\ Bounded(ask[k].kind) THEN "broker"
                                                                           ELSE "deny")
  /\ UNCHANGED <<mode, session, token, config, runCtx, processVars, outputVars>>

Decide(k, decision) ==
  /\ ask[k].pc = "broker" /\ ask[k].decision = "none"
  /\ ask' = [ask EXCEPT ![k].decision = decision]
  /\ UNCHANGED <<mode, session, token, config, runCtx, processVars, outputVars>>

\* The broker returns the decision, or gives up with the run's context.
Respond(k) ==
  /\ ask[k].pc = "broker"
  /\ ask[k].decision # "none" \/ runCtx = "cancelled"
  /\ Answer(k, IF ask[k].decision = "approved" THEN "allow" ELSE "deny")
  /\ UNCHANGED <<mode, session, token, config, runCtx, processVars, outputVars>>

\* RunHook and RunMCP answer deny when the request or its response is lost.
TransportFails(k) ==
  /\ ask[k].pc \in {"sent", "broker"}
  /\ Answer(k, "deny")
  /\ UNCHANGED <<mode, session, token, config, runCtx, processVars, outputVars>>

SupervisorStep == Watch \/ Graceful \/ GraceEnds \/ WaitReturns \/ CloseDone \/ EndSession

SessionNext ==
  \/ OpenSession \/ CancelContext \/ StopCalled \/ SupervisorStep
  \/ \E ok \in BOOLEAN : \/ PrepareInvocation(ok) \/ StartProcess(ok)
                         \/ \E p \in Process : ProcessExits(p, ok)
  \/ \E n \in 1..3 : Write(n)
  \/ \E k \in Kid : \/ Fork(k) \/ Authorize(k) \/ Respond(k) \/ TransportFails(k)
                    \/ \E kind \in {"edit", "command", "bypass", "outside"} : SendAsk(k, kind)
                    \/ \E decision \in {"approved", "denied"} : Decide(k, decision)

SessionSpec == SessionInit /\ [][SessionNext]_sessionVars

-----------------------------------------------------------------------------
(* Properties *)

SessionTypeOK ==
  /\ session \in {"open", "prepare", "start", "wait", "over"}
  /\ token \in {"none", "open", "closed"}
  /\ parent \in {"none", "running", "exited"}
  /\ session = "wait" => parent # "none" /\ waiter # "none"
  /\ kids \subseteq Kid
  /\ result \in {"none", "ok", "failed", "cancelled"}
  /\ \A k \in Kid : ask[k].pc \in {"none", "sent", "broker", "allow", "deny"}

\* "cancellation cannot leave harness or tool descendants behind" (process.go),
\* and a finished attempt leaves neither processes nor a configuration with a
\* token, nor a token that is good for anything.
NothingLeftBehind ==
  /\ waiter = "done" => parent # "running" /\ kids = {}
  /\ session = "over" => parent # "running" /\ kids = {} /\ ~config /\ token # "open"

\* The result says cancelled exactly if a stop was accepted: a stop that comes
\* after the process finished does not relabel it, one before is not forgotten.
ResultSaysCancelled == waiter \in {"finished", "done"} => (result = "cancelled" <=> cancel)

\* A tool is allowed only by a person's approval of a bounded request, whatever
\* is lost on the way and whenever the run ends.
AllowedWasApproved ==
  \A k \in Kid : ask[k].pc = "allow" => /\ ask[k].decision = "approved"
                                        /\ ask[k].kind \in {"edit", "command"}
                                        /\ mode = "write"

\* Every complete line of the harness is in the log and no line is there twice,
\* wherever the chunks are cut.
LinesAreLogged == logged = written \div 2

\* A cancelled attempt ends, although processes may ignore the signal.
CancelledEnds == (runCtx = "cancelled" /\ session = "wait") ~> (session = "over")

\* Whatever the order in which worker, supervisor, helpers and person act: an
\* attempt has one true result, leaves nothing behind, logs whole lines, and no tool
\* is allowed that nobody approved.
SessionIsSafe ==
  SessionTypeOK /\ NothingLeftBehind /\ ResultSaysCancelled /\ AllowedWasApproved /\ LinesAreLogged
=============================================================================
