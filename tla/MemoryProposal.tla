--------------------------- MODULE MemoryProposal ---------------------------
(***************************************************************************)
(* Proposals to change a shared memory file (internal/memory over          *)
(* store/memory.go).  A finished run proposes to append to the file it     *)
(* read; a person approves or rejects.  Approval is several steps on the   *)
(* file system and one transaction; people edit the file as well.          *)
(***************************************************************************)
EXTENDS Integers, FiniteSets

CONSTANTS
  Proposal,   \* proposals for one file
  Decider,    \* handlers of decisions
  MaxEdits,   \* bound: edits outside Studio
  MaxStops    \* bound: handlers that stop half way

ASSUME MemoryProposalAssumption == {MaxEdits, MaxStops} \subseteq Nat

VARIABLES
  memory,    \* the file: the lines it has, proposed ones and edited ones
  edits,     \* edits so far
  proposal,  \* memory_proposals rows
  decider,   \* what each handler is doing
  landed,    \* proposals whose content was ever put in place (history)
  stops

memoryVars == <<memory, edits, proposal, decider, landed, stops>>

NoProposal == [state |-> "none"]
DeciderIdle == [pc |-> "idle"]
SetDecider(d, v) == decider' = [decider EXCEPT ![d] = v]

MemoryInit ==
  /\ memory = {} /\ edits = 0 /\ landed = {} /\ stops = 0
  /\ proposal = [p \in Proposal |-> NoProposal]
  /\ decider = [d \in Decider |-> DeciderIdle]

\* AppendProposal and CreateMemoryProposal: what the run read is the base, and
\* what it suggests is appended to it.
CreateMemoryProposal(p, base) ==
  /\ proposal[p] = NoProposal
  /\ proposal' = [proposal EXCEPT ![p] = [state |-> "pending", base |-> base,
                                          after |-> base \cup {p}]]
  /\ UNCHANGED <<memory, edits, decider, landed, stops>>

\* DecideMemoryProposal changes a pending proposal only.
DecideMemoryProposal(p, state) ==
  proposal' = IF proposal[p].state = "pending" THEN [proposal EXCEPT ![p].state = state]
                                               ELSE proposal

\* Reject.
Reject(p) ==
  /\ proposal[p] # NoProposal
  /\ DecideMemoryProposal(p, "rejected")
  /\ UNCHANGED <<memory, edits, decider, landed, stops>>

\* Apply reads the proposal, in whatever state it is, and compares the file with
\* its base.
Apply(d, p) ==
  /\ decider[d] = DeciderIdle
  /\ proposal[p] # NoProposal
  /\ SetDecider(d, [pc |-> "compare", proposal |-> p, base |-> proposal[p].base,
                    after |-> proposal[p].after])
  /\ UNCHANGED <<memory, edits, proposal, landed, stops>>

\* Mutant: a changed file is approved as it is.
CompareApproves(d) ==
  /\ decider[d].pc \in {"compare", "recheck"}
  /\ IF memory = decider[d].base
       THEN /\ SetDecider(d, [decider[d] EXCEPT !.pc = IF @ = "compare" THEN "recheck"
                                                                       ELSE "rename"])
            /\ UNCHANGED proposal
       ELSE SetDecider(d, DeciderIdle) /\ DecideMemoryProposal(decider[d].proposal, "approved")
  /\ UNCHANGED <<memory, edits, landed, stops>>

\* The comparison, before the temporary file is written and again after: a file
\* that is not the base makes the proposal a conflict.
Compare(d) ==
  /\ decider[d].pc \in {"compare", "recheck"}
  /\ IF memory = decider[d].base
       THEN /\ SetDecider(d, [decider[d] EXCEPT !.pc = IF @ = "compare" THEN "recheck"
                                                                       ELSE "rename"])
            /\ UNCHANGED proposal
       ELSE SetDecider(d, DeciderIdle) /\ DecideMemoryProposal(decider[d].proposal, "conflict")
  /\ UNCHANGED <<memory, edits, landed, stops>>

\* The rename puts the proposed content in place of whatever is there.
Rename(d) ==
  /\ decider[d].pc = "rename"
  /\ memory' = decider[d].after
  /\ landed' = landed \cup {decider[d].proposal}
  /\ SetDecider(d, [pc |-> "decide", proposal |-> decider[d].proposal])
  /\ UNCHANGED <<edits, proposal, stops>>

Approve(d) ==
  /\ decider[d].pc = "decide"
  /\ DecideMemoryProposal(decider[d].proposal, "approved")
  /\ SetDecider(d, DeciderIdle)
  /\ UNCHANGED <<memory, edits, landed, stops>>

\* Studio stops, the request is cancelled, or a file operation fails.
DeciderStops(d) ==
  /\ decider[d] # DeciderIdle
  /\ stops < MaxStops
  /\ stops' = stops + 1
  /\ SetDecider(d, DeciderIdle)
  /\ UNCHANGED <<memory, edits, proposal, landed>>

\* Somebody edits the file, or restores what it was at first.
EditMemory(content) ==
  /\ edits < MaxEdits
  /\ edits' = edits + 1
  /\ memory' = content
  /\ UNCHANGED <<proposal, decider, landed, stops>>

Contents == SUBSET (Proposal \cup {"edited"})

MemoryNext ==
  \/ \E p \in Proposal : CreateMemoryProposal(p, memory) \/ Reject(p)
  \/ \E d \in Decider : \/ Compare(d) \/ Rename(d) \/ Approve(d) \/ DeciderStops(d)
                        \/ \E p \in Proposal : Apply(d, p)
  \/ \E content \in {{}, memory \cup {"edited"}} : EditMemory(content)

MemorySpec == MemoryInit /\ [][MemoryNext]_memoryVars

-----------------------------------------------------------------------------
(* Properties *)

MemoryTypeOK ==
  /\ memory \in Contents
  /\ proposal \in [Proposal -> {NoProposal} \cup
                     [state: {"pending", "approved", "rejected", "conflict"},
                      base: Contents, after: Contents]]
  /\ landed \subseteq Proposal

\* What is recorded as approved has been in the file.
ApprovedHasLanded == \A p \in Proposal : proposal[p].state = "approved" => p \in landed

\* No later decision, conflict or retry of an approval changes a decision.
KeepsDecisions ==
  \A p \in Proposal : proposal[p].state \in {"approved", "rejected", "conflict"} =>
                         proposal'[p] = proposal[p]

\* Every step, of whichever handler, keeps the decisions made before it, and none
\* records an approval whose content was never put in place (DecideMemoryProposal,
\* Apply).
DecisionStands == [][KeepsDecisions /\ ApprovedHasLanded' /\ MemoryTypeOK']_memoryVars

\* What PLAN-2.0.md says: "A proposed memory edit ... only lands after approval".
\* A step that puts a proposal in place finds it pending, never rejected.
LandsOnlyIfApproved ==
  [][\A p \in Proposal : p \in landed' \ landed => proposal[p].state # "rejected"]_memoryVars
=============================================================================
