---------------------------- MODULE RunLifecycle ----------------------------
(***************************************************************************)
(* What the store promises about one run, whoever uses it and however often*)
(* a claim is used late: a run waits in the queue, is held by one worker,  *)
(* is started at most once while it is held, and is done for good.         *)
(***************************************************************************)
CONSTANTS Run, Owner, NoOwner

VARIABLE life   \* of each run: its phase, its holder, whether it was started

Phase == {"absent", "queued", "held", "delayed", "done"}
Life == [phase: Phase, holder: Owner \cup {NoOwner}, started: BOOLEAN]

At(phase) == [phase |-> phase, holder |-> NoOwner, started |-> FALSE]
Held(o, started) == [phase |-> "held", holder |-> o, started |-> started]

Init == life = [r \in Run |-> At("absent")]

Submit(r)   == life[r] = At("absent") /\ life'[r] = At("queued")
Claim(r)    == life[r] = At("queued") /\ \E o \in Owner : life'[r] = Held(o, FALSE)
Start(r)    == \E o \in Owner : life[r] = Held(o, FALSE) /\ life'[r] = Held(o, TRUE)
Delay(r)    == (\E o \in Owner : life[r] = Held(o, TRUE)) /\ life'[r] = At("delayed")
Wake(r)     == life[r] = At("delayed") /\ life'[r] = At("queued")
Return(r)   == (\E o \in Owner : life[r] = Held(o, FALSE)) /\ life'[r] = At("queued")
Finish(r)   == life[r].phase = "held" /\ life'[r] = At("done")
Withdraw(r) == life[r] \in {At("queued"), At("delayed")} /\ life'[r] = At("done")

Step(r) ==
  \/ Submit(r) \/ Claim(r) \/ Start(r) \/ Delay(r)
  \/ Wake(r) \/ Return(r) \/ Finish(r) \/ Withdraw(r)

\* One transaction may move several runs (recovery, due retries), each by one step.
Next == \A r \in Run : Step(r) \/ life'[r] = life[r]

Spec == Init /\ [][Next]_life
=============================================================================
