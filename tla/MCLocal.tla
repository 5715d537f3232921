------------------------------ MODULE MCLocal -------------------------------
(* Small instances of the components around the run store, explored one at a *)
(* time: the others rest in one of their initial states, so that the state   *)
(* spaces add up instead of multiplying.                                     *)
EXTENDS Retention, MemoryProposal, WorkContext, HarnessSession, StudioApi, EventStream

CONSTANTS r1, r2, k1, k2

VARIABLE part

localVars == <<part, retentionVars, memoryVars, contextVars, sessionVars, apiVars, streamVars>>

\* Two outcomes of one run that name different items, one that names none, one of a
\* run without an event, one without a run; ids repeat and times are not in order.
SmallPosts ==
  {[id |-> 1, type |-> "passed", run |-> r1, key |-> k1, at |-> 1],
   [id |-> 2, type |-> "failed", run |-> r1, key |-> k2, at |-> 0],
   [id |-> 2, type |-> "other", run |-> r1, key |-> Nothing, at |-> 1],
   [id |-> 3, type |-> "passed", run |-> r2, key |-> k1, at |-> 0],
   [id |-> 3, type |-> "failed", run |-> Nothing, key |-> k2, at |-> 1]}

Init ==
  /\ part \in {"retention", "memory", "context", "session", "api", "stream"}
  /\ RetentionInit /\ MemoryInit /\ ContextInit /\ SessionInit /\ ApiInit /\ StreamInit
  /\ part # "session" => mode = "readonly" /\ deaf = {}
  /\ part # "api" => definition.cap = 0

Rest(p) ==
  /\ UNCHANGED part
  /\ p # "retention" => UNCHANGED retentionVars
  /\ p # "memory" => UNCHANGED memoryVars
  /\ p # "context" => UNCHANGED contextVars
  /\ p # "session" => UNCHANGED sessionVars
  /\ p # "api" => UNCHANGED apiVars
  /\ p # "stream" => UNCHANGED streamVars

Next ==
  \/ part = "retention" /\ RetentionNext /\ Rest("retention")
  \/ part = "memory" /\ MemoryNext /\ Rest("memory")
  \/ part = "context" /\ ContextNext /\ Rest("context")
  \/ part = "session" /\ SessionNext /\ Rest("session")
  \/ part = "api" /\ ApiNext /\ Rest("api")
  \/ part = "stream" /\ StreamNext /\ Rest("stream")

\* The pruner's ticker, the loop that evaluates monitors, the supervisor's two
\* goroutines, and the stream's handler with a browser that connects again.
Fairness ==
  /\ WF_retentionVars(part = "retention" /\ PruneStep)
  /\ WF_contextVars(part = "context" /\ PosterStep(Evaluator))
  /\ WF_sessionVars(part = "session" /\ SupervisorStep)
  /\ WF_streamVars(part = "stream" /\ StreamStep)

Spec == Init /\ [][Next]_localVars /\ Fairness
=============================================================================
