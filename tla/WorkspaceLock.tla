---------------------------- MODULE WorkspaceLock ----------------------------
(***************************************************************************)
(* What a workspace lease promises: one reader-writer lock per workspace.  *)
(* A run acquires the lock of its workspace only when no holder conflicts; *)
(* it may lose it at any time (completion, or expiry of its lease), and    *)
(* several holders may lose it at once, when the clock passes their expiry.*)
(***************************************************************************)
CONSTANTS Run, WorkspaceOf, ReadonlyRun

VARIABLE holders

Conflict(r, s) ==
  /\ WorkspaceOf[r] = WorkspaceOf[s]
  /\ r \notin ReadonlyRun \/ s \notin ReadonlyRun

Init == holders = {}

Acquire(r) ==
  /\ r \notin holders
  /\ \A s \in holders : ~ Conflict(r, s)
  /\ holders' = holders \cup {r}

Release(S) == holders' = holders \ S

Next == (\E r \in Run : Acquire(r)) \/ (\E S \in SUBSET holders : Release(S))

Spec == Init /\ [][Next]_holders
=============================================================================
