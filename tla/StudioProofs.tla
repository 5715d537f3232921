---------------------------- MODULE StudioProofs ----------------------------
(***************************************************************************)
(* Proofs about what people change while agents work, and what is kept for *)
(* them: shared memory files, the definitions of the studio, run detail    *)
(* and its pruning, contexts and plans, and the event stream, for every    *)
(* number of proposals, handlers, tabs, requests, runs and events.         *)
(***************************************************************************)
EXTENDS MemoryProposal, StudioApi, Retention, WorkContext, EventStream, SequenceTheorems, TLAPS

-----------------------------------------------------------------------------
(* Memory proposals *)

ProposalRow == [state: {"pending", "approved", "rejected", "conflict"},
                base: Contents, after: Contents]

\* What a handler is doing.  It is about to record an approval only after it put
\* the content in place.
DeciderState ==
  {DeciderIdle}
    \cup [pc: {"compare", "recheck", "rename"}, proposal: Proposal, base: Contents, after: Contents]
    \cup [pc: {"decide"}, proposal: Proposal]

MemoryInv ==
  /\ MemoryTypeOK
  /\ ApprovedHasLanded
  /\ decider \in [Decider -> DeciderState]
  /\ \A d \in Decider : decider[d].pc = "decide" => decider[d].proposal \in landed

\* DecideMemoryProposal writes the row of a pending proposal and no other.
LEMMA DecideRow ==
  ASSUME proposal \in [Proposal -> {NoProposal} \cup ProposalRow],
         NEW p \in Proposal, NEW s \in {"approved", "rejected", "conflict"},
         DecideMemoryProposal(p, s)
  PROVE  /\ proposal' \in [Proposal -> {NoProposal} \cup ProposalRow]
         /\ \A q \in Proposal : proposal[q].state # "pending" => proposal'[q] = proposal[q]
         /\ \A q \in Proposal : proposal'[q].state = "approved" =>
              proposal[q].state = "approved" \/ (q = p /\ s = "approved")
<1>1. CASE proposal[p].state = "pending"
  <2>1. proposal[p] \in ProposalRow
    BY <1>1 DEF NoProposal
  <2> DEFINE row == [proposal[p] EXCEPT !.state = s]
  <2>2. row \in ProposalRow /\ row.state = s
    BY <2>1 DEF ProposalRow
  <2>3. proposal' = [proposal EXCEPT ![p] = row]
    BY <1>1 DEF DecideMemoryProposal
  <2> HIDE DEF row
  <2> QED
    BY <1>1, <2>2, <2>3
<1>2. CASE proposal[p].state # "pending"
  BY <1>2 DEF DecideMemoryProposal
<1> QED
  BY <1>1, <1>2

LEMMA MemoryStep ==
  ASSUME MemoryInv, [MemoryNext]_memoryVars
  PROVE  MemoryInv' /\ KeepsDecisions
<1> USE DEF KeepsDecisions, ApprovedHasLanded
<1>0. /\ proposal \in [Proposal -> {NoProposal} \cup ProposalRow]
      /\ memory \in Contents /\ landed \subseteq Proposal
      /\ decider \in [Decider -> DeciderState]
      /\ \A d \in Decider : decider[d].pc = "decide" => decider[d].proposal \in landed
      /\ \A p \in Proposal : proposal[p].state = "approved" => p \in landed
  BY DEF MemoryInv, MemoryTypeOK, ProposalRow
\* A step that leaves the handlers alone, and one that is a step of a handler.
<1>a. ASSUME proposal' \in [Proposal -> {NoProposal} \cup ProposalRow],
             memory' \in Contents, landed' \subseteq Proposal, landed \subseteq landed',
             \A p \in Proposal : proposal[p].state \in {"approved", "rejected", "conflict"} =>
                                    proposal'[p] = proposal[p],
             \A p \in Proposal : proposal'[p].state = "approved" => p \in landed',
             \/ decider' = decider
             \/ \E d \in Decider, v \in DeciderState :
                  SetDecider(d, v) /\ (v.pc = "decide" => v.proposal \in landed')
      PROVE  MemoryInv' /\ KeepsDecisions
  BY <1>0, <1>a DEF MemoryInv, MemoryTypeOK, ProposalRow, SetDecider
<1>1. ASSUME NEW p \in Proposal, CreateMemoryProposal(p, memory) PROVE MemoryInv' /\ KeepsDecisions
  <2>1. /\ proposal[p] = NoProposal
        /\ proposal' = [proposal EXCEPT ![p] = [state |-> "pending", base |-> memory,
                                                after |-> memory \cup {p}]]
        /\ UNCHANGED <<memory, decider, landed>>
    BY <1>1 DEF CreateMemoryProposal
  <2>2. [state |-> "pending", base |-> memory, after |-> memory \cup {p}] \in ProposalRow
    BY <1>0 DEF ProposalRow, Contents
  <2> QED
    BY <1>0, <1>a, <2>1, <2>2 DEF NoProposal
<1>2. ASSUME NEW p \in Proposal, Reject(p) PROVE MemoryInv' /\ KeepsDecisions
  <2>1. DecideMemoryProposal(p, "rejected") /\ UNCHANGED <<memory, decider, landed>>
    BY <1>2 DEF Reject
  <2> QED
    BY <1>0, <1>a, <2>1, DecideRow
<1>3. ASSUME NEW d \in Decider, NEW p \in Proposal, Apply(d, p) PROVE MemoryInv' /\ KeepsDecisions
  <2> DEFINE v == [pc |-> "compare", proposal |-> p, base |-> proposal[p].base,
                   after |-> proposal[p].after]
  <2>1. /\ proposal[p] # NoProposal /\ SetDecider(d, v)
        /\ UNCHANGED <<memory, proposal, landed>>
    BY <1>3 DEF Apply
  <2>2. v \in DeciderState /\ v.pc # "decide"
    BY <1>0, <2>1 DEF DeciderState, ProposalRow
  <2> HIDE DEF v
  <2> QED
    BY <1>0, <1>a, <2>1, <2>2
<1>4. ASSUME NEW d \in Decider, Compare(d) PROVE MemoryInv' /\ KeepsDecisions
  <2>1. /\ decider[d] \in [pc: {"compare", "recheck", "rename"}, proposal: Proposal,
                           base: Contents, after: Contents]
        /\ UNCHANGED <<memory, landed>>
    BY <1>0, <1>4 DEF Compare, DeciderState, DeciderIdle
  <2>2. CASE memory = decider[d].base
    <3> DEFINE v == [decider[d] EXCEPT !.pc = IF @ = "compare" THEN "recheck" ELSE "rename"]
    <3>1. SetDecider(d, v) /\ proposal' = proposal
      BY <1>4, <2>2 DEF Compare
    <3>2. v \in DeciderState /\ v.pc # "decide"
      BY <2>1 DEF DeciderState
    <3> HIDE DEF v
    <3> QED
      BY <1>0, <1>a, <2>1, <3>1, <3>2
  <2>3. CASE memory # decider[d].base
    <3>1. /\ SetDecider(d, DeciderIdle)
          /\ DecideMemoryProposal(decider[d].proposal, "conflict")
          /\ decider[d].proposal \in Proposal
          /\ DeciderIdle \in DeciderState /\ DeciderIdle.pc # "decide"
      BY <1>4, <2>1, <2>3 DEF Compare, DeciderState, DeciderIdle
    <3> QED
      BY <1>0, <1>a, <2>1, <3>1, DecideRow
  <2> QED
    BY <2>2, <2>3
<1>5. ASSUME NEW d \in Decider, Rename(d) PROVE MemoryInv' /\ KeepsDecisions
  <2> DEFINE v == [pc |-> "decide", proposal |-> decider[d].proposal]
  <2>1. decider[d] \in [pc: {"compare", "recheck", "rename"}, proposal: Proposal,
                        base: Contents, after: Contents]
    BY <1>0, <1>5 DEF Rename, DeciderState, DeciderIdle
  <2>2. /\ SetDecider(d, v) /\ v \in DeciderState /\ v.proposal \in landed'
        /\ proposal' = proposal /\ memory' \in Contents
        /\ landed \subseteq landed' /\ landed' \subseteq Proposal
    BY <1>0, <1>5, <2>1 DEF Rename, DeciderState
  <2> HIDE DEF v
  <2> QED
    BY <1>0, <1>a, <2>2
<1>6. ASSUME NEW d \in Decider, Approve(d) PROVE MemoryInv' /\ KeepsDecisions
  <2>1. /\ decider[d].proposal \in Proposal /\ decider[d].proposal \in landed
        /\ DecideMemoryProposal(decider[d].proposal, "approved")
        /\ SetDecider(d, DeciderIdle) /\ UNCHANGED <<memory, landed>>
        /\ DeciderIdle \in DeciderState /\ DeciderIdle.pc # "decide"
    BY <1>0, <1>6 DEF Approve, DeciderState, DeciderIdle
  <2> QED
    BY <1>0, <1>a, <2>1, DecideRow
<1>7. ASSUME NEW d \in Decider, DeciderStops(d) PROVE MemoryInv' /\ KeepsDecisions
  BY <1>0, <1>7, <1>a DEF DeciderStops, DeciderState, DeciderIdle
<1>8. ASSUME NEW content \in {{}, memory \cup {"edited"}}, EditMemory(content)
      PROVE  MemoryInv' /\ KeepsDecisions
  <2>1. content \in Contents
    BY <1>0 DEF Contents
  <2> QED
    BY <1>0, <1>8, <1>a, <2>1 DEF EditMemory
<1>9. CASE UNCHANGED memoryVars
  BY <1>0, <1>9, <1>a DEF memoryVars
<1> QED
  BY <1>1, <1>2, <1>3, <1>4, <1>5, <1>6, <1>7, <1>8, <1>9 DEF MemoryNext

\* No handler, however late it decides, changes a decision, and none records an
\* approval whose content was never put in place.
THEOREM MemoryDecisions == MemorySpec => DecisionStands
<1>1. MemoryInit => MemoryInv
  BY DEF MemoryInit, MemoryInv, MemoryTypeOK, ApprovedHasLanded, NoProposal, DeciderIdle,
         DeciderState, Contents
<1>2. MemoryInv /\ [MemoryNext]_memoryVars =>
        MemoryInv' /\ [KeepsDecisions /\ ApprovedHasLanded' /\ MemoryTypeOK']_memoryVars
  BY MemoryStep DEF MemoryInv
<1> QED
  BY <1>1, <1>2, PTL DEF MemorySpec, DecisionStands

-----------------------------------------------------------------------------
(* The definition editor and manual runs *)

Cap == Rank \cup {-1}
Tab ==
  {Idle} \cup [pc: {"open"}, shown: Content]
    \cup [pc: {"replace"}, shown: Content, content: [cap: Rank, rev: 0..MaxRevision]]
Request == [pc: {"load", "workspace", "route"}, id: RequestId, permission: Rank,
            workspace: {"declared", "adhoc"}, caps: SUBSET Cap]
ManualRow == [permission: Rank, workspace: {"declared", "adhoc"}, caps: SUBSET Cap]

\* A tab that replaces the file has the mutex, and the file is still what it
\* showed unless somebody outside Studio wrote it since.
EditorInv ==
  /\ definition \in Content /\ revision \in 0..MaxRevision
  /\ savedBy \in {"studio", "outside"} /\ SavedIsValid
  /\ lock \in EditorId \cup {None}
  /\ editor \in [EditorId -> Tab]
  /\ \A e \in EditorId : editor[e].pc = "replace" =>
       lock = e /\ (savedBy = "outside" \/ definition = editor[e].shown)

\* A request remembers every permission the file allowed since it began; once it
\* loaded the definition it asks for no more than one of them, and once its
\* workspace was checked an ad hoc one was confirmed.
RequestInv ==
  /\ binding \in BOOLEAN /\ (binding => confirmed)
  /\ caller \in [Caller -> {Idle} \cup Request]
  /\ \A c \in Caller : caller[c] # Idle =>
       /\ definition.cap \in caller[c].caps
       /\ caller[c].pc # "load" => \E cap \in caller[c].caps : caller[c].permission <= cap
       /\ caller[c].pc = "route" /\ caller[c].workspace = "adhoc" => confirmed

RunInv == manualRun \in [RequestId -> {None} \cup ManualRow] /\ RunIsAuthorised

ApiInv == EditorInv /\ RequestInv /\ RunInv

\* When the file changes, every request under way remembers what it allows now.
LEMMA BecomesKeeps ==
  ASSUME RequestInv, NEW content \in Content, NEW by, Becomes(content, by),
         UNCHANGED <<binding, confirmed>>
  PROVE  RequestInv'
<1>1. content.cap \in Cap
  BY DEF Content, Cap
<1>2. ASSUME NEW c \in Caller, caller[c] # Idle
      PROVE  /\ caller'[c] \in Request
             /\ caller'[c].caps = caller[c].caps \cup {content.cap}
             /\ caller'[c].pc = caller[c].pc /\ caller'[c].workspace = caller[c].workspace
             /\ caller'[c].permission = caller[c].permission
  <2>1. caller[c] \in Request
    BY <1>2 DEF RequestInv
  <2>2. caller'[c] = [caller[c] EXCEPT !.caps = @ \cup {content.cap}]
    BY <1>2 DEF Becomes
  <2> QED
    BY <1>1, <2>1, <2>2 DEF Request
<1>3. \A c \in Caller : caller[c] = Idle => caller'[c] = Idle
  BY DEF Becomes
<1>4. caller' \in [Caller -> {Idle} \cup Request]
  <2>1. DOMAIN caller' = Caller /\ caller' = [c \in Caller |-> caller'[c]]
    BY DEF Becomes
  <2> QED
    BY <1>2, <1>3, <2>1
<1>5. definition' = content
  BY DEF Becomes
<1> QED
  BY <1>2, <1>3, <1>4, <1>5 DEF RequestInv

\* What a step of the API preserves, with what it may never do.
ApiKept == ApiInv' /\ SaveIsSeen /\ RequestStands

LEMMA ApiStep ==
  ASSUME ApiInv, [ApiNext]_apiVars
  PROVE  ApiKept
<1> USE DEF ApiKept, SaveIsSeen, RequestStands, SavedIsValid
<1>0. /\ EditorInv /\ RequestInv /\ RunInv
      /\ revision \in 0..MaxRevision /\ MaxRevision \in Nat /\ revision \in Nat
      /\ definition \in Content
      /\ editor \in [EditorId -> Tab]
      /\ caller \in [Caller -> {Idle} \cup Request]
  BY StudioApiAssumption DEF ApiInv, EditorInv, RequestInv
\* Steps that leave the requests, the runs, or the file and the tabs alone.
<1>a. ASSUME UNCHANGED <<definition, caller, binding, confirmed>> PROVE RequestInv'
  BY <1>0, <1>a DEF RequestInv
<1>b. ASSUME UNCHANGED manualRun, confirmed => confirmed' PROVE RunInv' /\ RequestStands
  BY <1>0, <1>b DEF RunInv, RunIsAuthorised
<1>c. ASSUME UNCHANGED <<definition, savedBy, revision, lock, editor>>
      PROVE  EditorInv' /\ SaveIsSeen
  BY <1>0, <1>c DEF EditorInv
\* A step of a request: it goes on as v.
<1>d. ASSUME NEW c \in Caller, NEW v, SetCaller(c, v), v = Idle \/ v \in Request,
             UNCHANGED <<definition, binding, confirmed>>,
             v # Idle => /\ definition.cap \in v.caps
                         /\ v.pc # "load" => \E cap \in v.caps : v.permission <= cap
                         /\ v.pc = "route" /\ v.workspace = "adhoc" => confirmed
      PROVE  RequestInv'
  BY <1>0, <1>d DEF RequestInv, SetCaller
<1>1. ASSUME NEW e \in EditorId, GetDefinition(e) PROVE ApiKept
  <2>1. [pc |-> "open", shown |-> definition] \in Tab
    BY <1>0 DEF Tab
  <2>2. EditorInv' /\ SaveIsSeen
    BY <1>0, <1>1, <2>1 DEF GetDefinition, SetEditor, EditorInv
  <2> QED
    BY <1>a, <1>b, <1>1, <2>2 DEF GetDefinition, ApiInv
<1>2. ASSUME NEW e \in EditorId, NEW cap \in Cap, CompareDefinition(e, cap) PROVE ApiKept
  <2>1. /\ lock = None /\ editor[e].pc = "open" /\ revision < MaxRevision
        /\ UNCHANGED <<definition, savedBy, caller, manualRun, binding, confirmed>>
    BY <1>2 DEF CompareDefinition
  <2>2. \A f \in EditorId : editor[f].pc # "replace"
    BY <1>0, <2>1, StudioApiAssumption DEF EditorInv
  <2>3. CASE definition = editor[e].shown /\ cap \in Rank
    <3> DEFINE v == [pc |-> "replace", shown |-> editor[e].shown,
                     content |-> [cap |-> cap, rev |-> revision + 1]]
    <3>1. revision' = revision + 1 /\ lock' = e /\ SetEditor(e, v)
      BY <1>2, <2>3 DEF CompareDefinition
    <3>2. v \in Tab /\ v.shown = definition /\ revision + 1 \in 0..MaxRevision
      BY <1>0, <2>1, <2>3 DEF Tab
    <3> HIDE DEF v
    <3>3. EditorInv' /\ SaveIsSeen
      BY <1>0, <2>1, <2>2, <3>1, <3>2 DEF SetEditor, EditorInv
    <3> QED
      BY <1>a, <1>b, <2>1, <3>3 DEF ApiInv
  <2>4. CASE ~ (definition = editor[e].shown /\ cap \in Rank)
    <3>1. SetEditor(e, Idle) /\ UNCHANGED <<revision, lock>>
      BY <1>2, <2>4 DEF CompareDefinition
    <3>2. EditorInv' /\ SaveIsSeen
      BY <1>0, <2>1, <2>2, <3>1 DEF SetEditor, EditorInv, Tab, Idle
    <3> QED
      BY <1>a, <1>b, <2>1, <3>2 DEF ApiInv
  <2> QED
    BY <2>3, <2>4
<1>3. ASSUME NEW e \in EditorId, NEW ok \in BOOLEAN, ReplaceFile(e, ok) PROVE ApiKept
  <2>1. /\ editor[e] \in [pc: {"replace"}, shown: Content,
                          content: [cap: Rank, rev: 0..MaxRevision]]
        /\ lock = e /\ lock' = None
        /\ savedBy = "outside" \/ definition = editor[e].shown
        /\ UNCHANGED <<revision, manualRun, binding, confirmed>>
    BY <1>0, <1>3 DEF ReplaceFile, EditorInv, Tab, Idle
  <2>2. \A f \in EditorId : f # e => editor[f].pc # "replace"
    BY <1>0, <2>1 DEF EditorInv
  <2>3. editor[e].content \in Content /\ editor[e].content.cap \in Rank
    BY <2>1 DEF Content
  <2>4. CASE ok
    <3>1. /\ Becomes(editor[e].content, "studio")
          /\ SetEditor(e, [pc |-> "open", shown |-> editor[e].content])
      BY <1>3, <2>4 DEF ReplaceFile
    <3>2. [pc |-> "open", shown |-> editor[e].content] \in Tab
      BY <2>3 DEF Tab
    <3>3. EditorInv' /\ SaveIsSeen
      BY <1>0, <2>1, <2>2, <2>3, <3>1, <3>2 DEF SetEditor, Becomes, EditorInv
    <3>4. RequestInv'
      BY <1>0, <2>1, <2>3, <3>1, BecomesKeeps
    <3> QED
      BY <1>b, <2>1, <3>3, <3>4 DEF ApiInv
  <2>5. CASE ~ ok
    <3>1. /\ SetEditor(e, [pc |-> "open", shown |-> editor[e].shown])
          /\ UNCHANGED <<definition, savedBy, caller>>
      BY <1>3, <2>5 DEF ReplaceFile
    <3>2. [pc |-> "open", shown |-> editor[e].shown] \in Tab
      BY <2>1 DEF Tab
    <3>3. EditorInv' /\ SaveIsSeen
      BY <1>0, <2>1, <2>2, <3>1, <3>2 DEF SetEditor, EditorInv
    <3> QED
      BY <1>a, <1>b, <2>1, <3>1, <3>3 DEF ApiInv
  <2> QED
    BY <2>4, <2>5
<1>4. ASSUME NEW cap \in Cap, EditOutside(cap) PROVE ApiKept
  <2> DEFINE v == [cap |-> cap, rev |-> revision + 1]
  <2>1. /\ revision < MaxRevision /\ revision' = revision + 1 /\ Becomes(v, "outside")
        /\ UNCHANGED <<lock, editor, manualRun, binding, confirmed>>
    BY <1>4 DEF EditOutside
  <2>2. v \in Content /\ revision + 1 \in 0..MaxRevision
    BY <1>0, <2>1 DEF Content, Cap
  <2> HIDE DEF v
  <2>3. EditorInv' /\ SaveIsSeen
    BY <1>0, <2>1, <2>2 DEF Becomes, EditorInv
  <2>4. RequestInv'
    BY <1>0, <2>1, <2>2, BecomesKeeps
  <2> QED
    BY <1>b, <2>1, <2>3, <2>4 DEF ApiInv
<1>5. ASSUME NEW c \in Caller, NEW id \in RequestId, NEW permission \in Rank,
             NEW workspace \in {"declared", "adhoc"}, CreateManualRun(c, id, permission, workspace)
      PROVE  ApiKept
  <2> DEFINE v == [pc |-> "load", id |-> id, permission |-> permission, workspace |-> workspace,
                   caps |-> {definition.cap}]
  <2>1. /\ SetCaller(c, v)
        /\ UNCHANGED <<definition, savedBy, revision, lock, editor, manualRun, binding, confirmed>>
    BY <1>5 DEF CreateManualRun
  <2>2. v \in Request /\ v.pc = "load" /\ definition.cap \in v.caps
    BY <1>0 DEF Request, Content, Cap
  <2> HIDE DEF v
  <2>3. RequestInv'
    BY <1>d, <2>1, <2>2
  <2> QED
    BY <1>b, <1>c, <2>1, <2>3 DEF ApiInv
<1>6. ASSUME NEW c \in Caller, LoadDefinitions(c) PROVE ApiKept
  <2>1. /\ caller[c].pc = "load"
        /\ UNCHANGED <<definition, savedBy, revision, lock, editor, manualRun, binding, confirmed>>
    BY <1>6 DEF LoadDefinitions
  <2>2. caller[c] \in Request /\ definition.cap \in caller[c].caps
    BY <1>0, <2>1 DEF RequestInv, Idle
  <2>3. CASE definition.cap \notin Rank
    BY <1>b, <1>c, <1>d, <1>6, <2>1, <2>3 DEF LoadDefinitions, ApiInv
  <2>4. CASE definition.cap \in Rank
    <3> DEFINE v == [caller[c] EXCEPT !.pc = "workspace",
                                      !.permission = EffectivePermission(@, definition.cap)]
    <3>1. SetCaller(c, v)
      BY <1>6, <2>4 DEF LoadDefinitions
    <3>2. EffectivePermission(caller[c].permission, definition.cap) \in Rank
      BY <2>2, <2>4 DEF EffectivePermission, Request
    <3>3. EffectivePermission(caller[c].permission, definition.cap) <= definition.cap
      BY <2>2, <2>4 DEF EffectivePermission, Request, Rank
    <3>4. /\ v \in Request /\ v.pc = "workspace" /\ v.caps = caller[c].caps
          /\ v.permission = EffectivePermission(caller[c].permission, definition.cap)
      BY <2>2, <3>2 DEF Request
    <3> HIDE DEF v
    <3>5. RequestInv'
      BY <1>d, <2>1, <2>2, <3>1, <3>3, <3>4
    <3> QED
      BY <1>b, <1>c, <2>1, <3>5 DEF ApiInv
  <2> QED
    BY <2>3, <2>4
<1>7. ASSUME NEW c \in Caller, CheckWorkspace(c) PROVE ApiKept
  <2>1. /\ caller[c].pc = "workspace"
        /\ UNCHANGED <<definition, savedBy, revision, lock, editor, manualRun, binding, confirmed>>
    BY <1>7 DEF CheckWorkspace
  <2>2. /\ caller[c] \in Request /\ definition.cap \in caller[c].caps
        /\ \E cap \in caller[c].caps : caller[c].permission <= cap
    BY <1>0, <2>1 DEF RequestInv, Idle
  <2>3. CASE caller[c].workspace = "adhoc" /\ ~ binding
    BY <1>b, <1>c, <1>d, <1>7, <2>1, <2>3 DEF CheckWorkspace, ApiInv
  <2>4. CASE ~ (caller[c].workspace = "adhoc" /\ ~ binding)
    <3> DEFINE v == [caller[c] EXCEPT !.pc = "route"]
    <3>1. SetCaller(c, v)
      BY <1>7, <2>4 DEF CheckWorkspace
    <3>2. /\ v \in Request /\ v.pc = "route" /\ v.caps = caller[c].caps
          /\ v.permission = caller[c].permission /\ v.workspace = caller[c].workspace
      BY <2>2 DEF Request
    <3>3. v.workspace = "adhoc" => confirmed
      BY <1>0, <2>4, <3>2 DEF RequestInv
    <3> HIDE DEF v
    <3>4. RequestInv'
      BY <1>d, <2>1, <2>2, <3>1, <3>2, <3>3
    <3> QED
      BY <1>b, <1>c, <2>1, <3>4 DEF ApiInv
  <2> QED
    BY <2>3, <2>4
<1>8. ASSUME NEW c \in Caller, IngestAndRoute(c) PROVE ApiKept
  <2> DEFINE id == caller[c].id
             row == [permission |-> caller[c].permission, workspace |-> caller[c].workspace,
                     caps |-> caller[c].caps]
  <2>1. /\ caller[c].pc = "route" /\ SetCaller(c, Idle)
        /\ manualRun' = [manualRun EXCEPT ![id] = StoreRun(id, row)]
        /\ UNCHANGED <<definition, savedBy, revision, lock, editor, binding, confirmed>>
    BY <1>8 DEF IngestAndRoute
  <2>2. caller[c] \in Request /\ caller[c] # Idle
    BY <1>0, <2>1 DEF Idle
  <2>3. /\ id \in RequestId /\ row \in ManualRow
        /\ \E cap \in row.caps : row.permission <= cap
        /\ row.workspace = "adhoc" => confirmed
    BY <1>0, <2>1, <2>2 DEF RequestInv, Request, ManualRow
  <2> HIDE DEF id, row
  <2>4. RunInv' /\ RequestStands
    BY <1>0, <2>1, <2>3 DEF RunInv, RunIsAuthorised, StoreRun
  <2>5. RequestInv'
    BY <1>d, <2>1
  <2> QED
    BY <1>c, <2>1, <2>4, <2>5 DEF ApiInv
<1>9. CASE ConfirmWorkspace
  <2>1. RequestInv'
    BY <1>0, <1>9 DEF ConfirmWorkspace, RequestInv
  <2> QED
    BY <1>b, <1>c, <1>9, <2>1 DEF ConfirmWorkspace, ApiInv
<1>10. CASE RestartStudio
  <2>1. \A e \in EditorId : editor'[e] \in Tab /\ editor'[e].pc # "replace"
    <3>1. ASSUME NEW e \in EditorId, editor[e].pc = "replace"
          PROVE  [pc |-> "open", shown |-> editor[e].shown] \in Tab
      BY <1>0, <3>1 DEF Tab, Idle
    <3> QED
      BY <1>0, <1>10, <3>1 DEF RestartStudio
  <2>2. editor' \in [EditorId -> Tab]
    BY <1>10, <2>1 DEF RestartStudio
  <2>3. EditorInv' /\ SaveIsSeen
    BY <1>0, <1>10, <2>1, <2>2 DEF RestartStudio, EditorInv
  <2>4. RequestInv'
    BY <1>0, <1>10 DEF RestartStudio, RequestInv
  <2> QED
    BY <1>b, <1>10, <2>3, <2>4 DEF RestartStudio, ApiInv
<1>11. CASE UNCHANGED apiVars
  BY <1>a, <1>b, <1>c, <1>11 DEF apiVars, ApiInv
<1> QED
  BY <1>1, <1>2, <1>3, <1>4, <1>5, <1>6, <1>7, <1>8, <1>9, <1>10, <1>11 DEF ApiNext, Cap

LEMMA ApiStarts == ApiInit => ApiInv
<1> SUFFICES ASSUME ApiInit PROVE ApiInv
  OBVIOUS
<1>1. EditorInv
  BY StudioApiAssumption
     DEF ApiInit, EditorInv, SavedIsValid, Content, Tab, Idle, Rank
<1>2. RequestInv /\ RunInv
  BY DEF ApiInit, RequestInv, RunInv, RunIsAuthorised
<1> QED
  BY <1>1, <1>2 DEF ApiInv

\* Whatever is saved, edited or requested meanwhile, and however often Studio is
\* started again, runs may do no more than their definitions allowed during their
\* request, and what Studio saved loads.
THEOREM ApiSafety == ApiSpec => []ApiIsSafe
<1>1. ApiInv => ApiIsSafe
  BY DEF ApiInv, EditorInv, RunInv, ManualRow, ApiIsSafe, ApiTypeOK
<1>2. ApiInv /\ [ApiNext]_apiVars => ApiInv'
  BY ApiStep DEF ApiKept
<1> QED
  BY <1>1, <1>2, ApiStarts, PTL DEF ApiSpec

\* No save of one tab is lost to another's, and no request makes a second run.
THEOREM ApiKeeps == ApiSpec => NothingIsLost
<1>1. ApiInv /\ [ApiNext]_apiVars => ApiInv' /\ [SaveIsSeen /\ RequestStands]_apiVars
  BY ApiStep DEF ApiKept
<1> QED
  BY <1>1, ApiStarts, PTL DEF ApiSpec, NothingIsLost

-----------------------------------------------------------------------------
(* Retention *)

\* What the pruner and the handlers may be at.
PrunerStates ==
  [pc : {"idle"}] \cup [pc : {"next"}, todo : SUBSET RunId]
    \cup [pc : {"record"}, run : RunId, todo : SUBSET RunId]
DeleterStates ==
  [pc : {"idle"}] \cup [pc : {"delete"}, run : RunId, files : SUBSET (RunId \X Nat)]
    \cup [pc : {"mark"}, run : RunId]

\* The pruner lists runs that are over, and by the time it is to record one, the run
\* has no log file, and gets none any more (Prune, openOutputLog).
PrunerIsClean ==
  /\ keeper[Pruner].pc \in {"next", "record"} => keeper[Pruner].todo \subseteq ended
  /\ keeper[Pruner].pc = "record" =>
       keeper[Pruner].run \in ended /\ \A n \in Nat : <<keeper[Pruner].run, n>> \notin logs

RetentionInv ==
  /\ ended \subseteq RunId /\ pinned \subseteq RunId /\ pruned \subseteq RunId
  /\ tries \in [RunId -> 0..MaxTries]
  /\ logs \subseteq RunId \X Nat
  /\ \A r \in RunId, n \in Nat : <<r, n>> \in logs => n \in 1..tries[r]
  /\ keeper \in [Keeper -> PrunerStates \cup DeleterStates]
  /\ keeper[Pruner] \in PrunerStates
  /\ \A k \in Deleter : keeper[k] \in DeleterStates
  /\ PrunedIsOver
  /\ PrunerIsClean

\* A run says that its detail is pruned only once it is over, and the pruner records
\* a run only after the last of its files is gone, whatever handlers delete, people
\* pin and workers write in between.
THEOREM RetentionSafety ==
  RetentionSpec => [](RetentionTypeOK /\ PrunedIsOver /\ PrunerIsClean)
<1> USE RetentionAssumption
<1>1. RetentionInit => RetentionInv
  BY DEF RetentionInit, RetentionInv, PrunerIsClean, PrunedIsOver, PrunerStates, DeleterStates, Keeper, KeeperIdle
<1>2. RetentionInv /\ [RetentionNext]_retentionVars => RetentionInv'
  <2> SUFFICES ASSUME RetentionInv, [RetentionNext]_retentionVars PROVE RetentionInv'
    OBVIOUS
  <2>1. ASSUME NEW r \in RunId, OpenLog(r) PROVE RetentionInv'
    <3>1. tries[r] \in Nat /\ tries[r] + 1 \in 0..MaxTries
      BY <2>1 DEF RetentionInv, OpenLog
    <3>2. PrunerIsClean'
      BY <2>1 DEF RetentionInv, OpenLog, PrunerIsClean, PrunerStates
    <3>3. \A q \in RunId, n \in Nat : <<q, n>> \in logs' => n \in 1..tries'[q]
      BY <2>1, <3>1 DEF RetentionInv, OpenLog
    <3>4. tries' \in [RunId -> 0..MaxTries] /\ logs' \subseteq RunId \X Nat
      BY <2>1, <3>1 DEF RetentionInv, OpenLog
    <3> QED
      BY <2>1, <3>2, <3>3, <3>4 DEF RetentionInv, OpenLog, PrunedIsOver
  <2>2. ASSUME NEW r \in RunId, EndRun(r) PROVE RetentionInv'
    BY <2>2 DEF RetentionInv, EndRun, PrunedIsOver, PrunerIsClean
  <2>3. ASSUME NEW r \in RunId, NEW on \in BOOLEAN, SetRunPinned(r, on) PROVE RetentionInv'
    BY <2>3 DEF RetentionInv, SetRunPinned, PrunedIsOver, PrunerIsClean
  <2>4. ASSUME NEW k \in Deleter, NEW r \in RunId, DeleteRunDetail(k, r) PROVE RetentionInv'
    <3>1. Attempts(r) \in SUBSET (RunId \X Nat)
      BY DEF Attempts, RetentionInv
    <3>2. [pc |-> "delete", run |-> r, files |-> Attempts(r)] \in DeleterStates
      BY <3>1 DEF DeleterStates
    <3> QED
      BY <2>4, <3>2 DEF RetentionInv, DeleteRunDetail, SetKeeper, Keeper, PrunedIsOver, PrunerIsClean
  <2>5. ASSUME NEW k \in Deleter, DeleteLogs(k) PROVE RetentionInv'
    <3>1. keeper[k].run \in RunId
      BY <2>5 DEF RetentionInv, DeleteLogs, DeleterStates
    <3>2. [pc |-> "mark", run |-> keeper[k].run] \in DeleterStates
      BY <3>1 DEF DeleterStates
    <3> QED
      BY <2>5, <3>2 DEF RetentionInv, DeleteLogs, SetKeeper, Keeper, PrunedIsOver, PrunerIsClean
  <2>6. ASSUME NEW k \in Deleter, DeleteRecord(k) PROVE RetentionInv'
    <3>1. keeper[k].run \in RunId /\ KeeperIdle \in DeleterStates
      BY <2>6 DEF RetentionInv, DeleteRecord, DeleterStates, KeeperIdle
    <3> QED
      BY <2>6, <3>1 DEF RetentionInv, DeleteRecord, SetKeeper, Keeper, PrunedIsOver, PrunerIsClean, PruneRunDetail
  <2>7. CASE StartPrune
    <3>1. Prunable \in SUBSET RunId /\ Prunable \subseteq ended
      BY DEF Prunable
    <3>2. [pc |-> "next", todo |-> Prunable] \in PrunerStates
      BY <3>1 DEF PrunerStates
    <3> QED
      BY <2>7, <3>1, <3>2 DEF RetentionInv, StartPrune, SetKeeper, Keeper, PrunedIsOver, PrunerIsClean
  <2>8. CASE PruneLogs
    <3>1. PICK r \in keeper[Pruner].todo :
            /\ logs' = logs \ Attempts(r)
            /\ SetKeeper(Pruner, [pc |-> "record", run |-> r, todo |-> keeper[Pruner].todo \ {r}])
      BY <2>8 DEF PruneLogs
    <3>2. keeper[Pruner].todo \in SUBSET RunId /\ keeper[Pruner].todo \subseteq ended /\ r \in RunId /\ r \in ended
      BY <2>8, <3>1 DEF RetentionInv, PruneLogs, PrunerStates, PrunerIsClean
    <3>3. [pc |-> "record", run |-> r, todo |-> keeper[Pruner].todo \ {r}] \in PrunerStates
      BY <3>2 DEF PrunerStates
    <3>4. \A n \in Nat : <<r, n>> \notin logs'
      BY <3>1, <3>2 DEF RetentionInv, Attempts
    <3>5. /\ keeper'[Pruner] = [pc |-> "record", run |-> r, todo |-> keeper[Pruner].todo \ {r}]
          /\ \A k \in Deleter : keeper'[k] = keeper[k]
          /\ keeper' \in [Keeper -> PrunerStates \cup DeleterStates]
      BY <3>1, <3>3 DEF RetentionInv, SetKeeper, Keeper
    <3>6. PrunerIsClean'
      BY <2>8, <3>2, <3>4, <3>5 DEF PrunerIsClean, PruneLogs
    <3> QED
      BY <2>8, <3>1, <3>3, <3>5, <3>6 DEF RetentionInv, PruneLogs, PrunedIsOver
  <2>9. CASE PruneRecord
    <3>1. keeper[Pruner].todo \in SUBSET RunId /\ keeper[Pruner].todo \subseteq ended /\ keeper[Pruner].run \in RunId
      BY <2>9 DEF RetentionInv, PruneRecord, PrunerStates, PrunerIsClean
    <3>2. [pc |-> "next", todo |-> keeper[Pruner].todo] \in PrunerStates /\ KeeperIdle \in PrunerStates
      BY <3>1 DEF PrunerStates, KeeperIdle
    <3>3. PICK v \in {[pc |-> "next", todo |-> keeper[Pruner].todo], KeeperIdle} : SetKeeper(Pruner, v)
      BY <2>9 DEF PruneRecord
    <3>4. pruned' \subseteq ended /\ pruned' \subseteq RunId /\ UNCHANGED <<ended, pinned, tries, logs>>
      BY <2>9, <3>1 DEF PruneRecord, RetentionInv, PrunedIsOver, PruneRunDetail
    <3>5. /\ keeper'[Pruner] = v
          /\ \A k \in Deleter : keeper'[k] = keeper[k]
          /\ keeper' \in [Keeper -> PrunerStates \cup DeleterStates]
      BY <3>2, <3>3 DEF RetentionInv, SetKeeper, Keeper
    <3>6. PrunerIsClean'
      BY <3>1, <3>3, <3>4, <3>5 DEF PrunerIsClean, KeeperIdle
    <3> QED
      BY <3>2, <3>3, <3>4, <3>5, <3>6 DEF RetentionInv, PrunedIsOver
  <2>10. CASE EndPrune
    <3>1. KeeperIdle \in PrunerStates
      BY DEF PrunerStates, KeeperIdle
    <3> QED
      BY <2>10, <3>1 DEF RetentionInv, EndPrune, SetKeeper, Keeper, KeeperIdle, PrunedIsOver, PrunerIsClean
  <2>11. CASE UNCHANGED retentionVars
    BY <2>11 DEF RetentionInv, retentionVars, PrunedIsOver, PrunerIsClean
  <2> QED
    BY <2>1, <2>2, <2>3, <2>4, <2>5, <2>6, <2>7, <2>8, <2>9, <2>10, <2>11 DEF RetentionNext, PruneStep
<1>3. RetentionInv => RetentionTypeOK /\ PrunedIsOver /\ PrunerIsClean
  <2> SUFFICES ASSUME RetentionInv PROVE RetentionTypeOK
    BY DEF RetentionInv
  <2>1. logs \subseteq UNION {Attempts(r) : r \in RunId}
    <3> SUFFICES ASSUME NEW l \in logs PROVE \E r \in RunId : l \in Attempts(r)
      OBVIOUS
    <3>1. l = <<l[1], l[2]>> /\ l[1] \in RunId /\ l[2] \in Nat
      BY DEF RetentionInv
    <3>2. l[2] \in 1..tries[l[1]]
      BY <3>1 DEF RetentionInv
    <3> QED
      BY <3>1, <3>2 DEF Attempts
  <2>2. \A k \in Keeper : keeper[k].pc \in {"idle", "next", "record", "delete", "mark"}
    BY DEF RetentionInv, Keeper, PrunerStates, DeleterStates
  <2> QED
    BY <2>1, <2>2 DEF RetentionInv, RetentionTypeOK
<1> QED
  BY <1>1, <1>2, <1>3, PTL DEF RetentionSpec

-----------------------------------------------------------------------------
(* Work items *)

\* What a handler carries from one statement to the next.
Carries(pcs, runs) ==
  [pc : pcs, id : OutcomeId, type : {"passed", "failed", "other"}, run : runs, at : 0..MaxDay, item : ItemId]
PosterStates ==
  [pc : {"idle", "evaluate"}] \cup [pc : {"put"}, state : {"unknown", "healthy", "unhealthy"}]
    \cup Carries({"correlate", "insert"}, OutcomeRun \cup {Nothing}) \cup Carries({"attach"}, Routed)
OutcomeRow == [type : {"passed", "failed", "other"}, run : OutcomeRun \cup {Nothing}, item : ItemId, at : 0..MaxDay]

\* An item exists once some row has it, and rows keep theirs.
Stored == {workItem[k] : k \in Key} \cup {Nothing}

ContextInv ==
  /\ workItem \in [Key -> ItemId]
  /\ attached \in [Routed -> ItemId]
  /\ outcome \in [OutcomeId -> {Nothing} \cup OutcomeRow]
  /\ monitor \in {"unknown", "healthy", "unhealthy"}
  /\ poster \in [Poster -> PosterStates]
  /\ \A r \in Routed : attached[r] \in Stored
  /\ \A i \in OutcomeId : outcome[i] # Nothing => outcome[i].item \in Stored
  /\ \A h \in Poster : poster[h].pc \in {"correlate", "attach", "insert"} => poster[h].item \in Stored

\* Changing one entry.
LEMMA PosterSet ==
  ASSUME poster \in [Poster -> PosterStates], NEW h \in Poster, NEW v \in PosterStates, SetPoster(h, v)
  PROVE  /\ poster' \in [Poster -> PosterStates]
         /\ poster'[h] = v /\ \A g \in Poster : g # h => poster'[g] = poster[g]
BY DEF SetPoster

\* An upsert adds an item and takes none away, whoever created the row.
LEMMA UpsertKeeps ==
  ASSUME ContextInv, NEW h \in OutcomeHandler, NEW k \in Key, workItem' = UpsertWorkItem(h, k)
  PROVE  /\ workItem' \in [Key -> ItemId]
         /\ Stored \subseteq Stored'
         /\ workItem'[k] \in Stored'
<1>1. workItem' \in [Key -> ItemId]
  BY DEF ContextInv, UpsertWorkItem, ItemId
<1>2. \A l \in Key : workItem[l] # Nothing => workItem'[l] = workItem[l]
  BY DEF ContextInv, UpsertWorkItem
<1> QED
  BY <1>1, <1>2 DEF Stored

LEMMA PosterStepKeeps ==
  ASSUME ContextInv, NEW h \in Poster, PosterStep(h)
  PROVE  ContextInv' /\ \A r \in Routed : attached[r] # Nothing => attached'[r] = attached[r]
<1> USE WorkContextAssumption
<1>1. poster[h] \in PosterStates
  BY DEF ContextInv
<1>2. CASE Correlate(h)
  <2>1. /\ poster[h] \in Carries({"correlate"}, OutcomeRun \cup {Nothing}) /\ poster[h].item \in Stored
        /\ UNCHANGED <<workItem, attached, outcome, monitor, day>>
    BY <1>1, <1>2 DEF Correlate, ContextInv, PosterStates, Carries
  <2> DEFINE p == poster[h]
             v == IF p.run = Nothing THEN [p EXCEPT !.pc = "insert"]
                  ELSE IF p.item = Nothing THEN [p EXCEPT !.pc = "insert", !.item = AttachedTo(p.run)]
                  ELSE IF p.run \notin Routed \/ attached[p.run] \notin {Nothing, p.item} THEN PosterIdle
                  ELSE [p EXCEPT !.pc = IF attached[p.run] = Nothing THEN "attach" ELSE "insert"]
  <2>2. SetPoster(h, v)
    BY <1>2 DEF Correlate
  <2>3. AttachedTo(p.run) \in ItemId /\ AttachedTo(p.run) \in Stored
    BY DEF AttachedTo, ContextInv, ItemId, Stored
  <2>4. v \in PosterStates /\ (v.pc \in {"correlate", "attach", "insert"} => v.item \in Stored)
    BY <2>1, <2>3 DEF PosterStates, Carries, PosterIdle
  <2> HIDE DEF v
  <2>5. /\ poster' \in [Poster -> PosterStates]
        /\ poster'[h] = v /\ \A g \in Poster : g # h => poster'[g] = poster[g]
    BY <2>2, <2>4, PosterSet DEF ContextInv
  <2> QED
    BY <2>1, <2>4, <2>5 DEF ContextInv, Stored
<1>3. CASE Attach(h)
  <2>1. poster[h] \in Carries({"attach"}, Routed) /\ poster[h].item \in Stored
    BY <1>1, <1>3 DEF Attach, ContextInv, PosterStates, Carries
  <2> DEFINE v == [poster[h] EXCEPT !.pc = "insert"]
  <2>2. v \in PosterStates /\ v.item \in Stored
    BY <2>1 DEF PosterStates, Carries
  <2>3. SetPoster(h, v)
    BY <1>3 DEF Attach
  <2> HIDE DEF v
  <2>4. /\ poster' \in [Poster -> PosterStates]
        /\ poster'[h] = v /\ \A g \in Poster : g # h => poster'[g] = poster[g]
    BY <2>2, <2>3, PosterSet DEF ContextInv
  <2>5. /\ UNCHANGED <<workItem, outcome, monitor>>
        /\ attached' \in [Routed -> ItemId]
        /\ \A r \in Routed : attached'[r] \in {attached[r], poster[h].item}
        /\ \A r \in Routed : attached[r] # Nothing => attached'[r] = attached[r]
    BY <1>3, <2>1 DEF Attach, ContextInv, Carries
  <2> QED
    BY <2>1, <2>2, <2>4, <2>5 DEF ContextInv, Stored
<1>4. CASE InsertOutcome(h)
  <2>1. /\ poster[h] \in Carries({"insert"}, OutcomeRun \cup {Nothing}) /\ poster[h].item \in Stored
        /\ UNCHANGED <<workItem, attached, monitor>>
    BY <1>1, <1>4 DEF InsertOutcome, ContextInv, PosterStates, Carries
  <2> DEFINE row == [type |-> poster[h].type, run |-> poster[h].run, item |-> poster[h].item, at |-> poster[h].at]
  <2>2. row \in OutcomeRow /\ row.item \in Stored
    BY <2>1 DEF Carries, OutcomeRow
  <2>3. outcome' = outcome \/ outcome' = [outcome EXCEPT ![poster[h].id] = row]
    BY <1>4 DEF InsertOutcome
  <2> HIDE DEF row
  <2>4. /\ outcome' \in [OutcomeId -> {Nothing} \cup OutcomeRow]
        /\ \A i \in OutcomeId : outcome'[i] \in {outcome[i], row}
    BY <2>1, <2>2, <2>3 DEF ContextInv, Carries
  <2>5. PICK v \in {[pc |-> "evaluate"], PosterIdle} : SetPoster(h, v)
    BY <1>4 DEF InsertOutcome
  <2>6. v \in PosterStates /\ v.pc \in {"evaluate", "idle"}
    BY DEF PosterStates, PosterIdle
  <2>7. /\ poster' \in [Poster -> PosterStates]
        /\ poster'[h] = v /\ \A g \in Poster : g # h => poster'[g] = poster[g]
    BY <2>5, <2>6, PosterSet DEF ContextInv
  <2> QED
    BY <2>1, <2>2, <2>4, <2>6, <2>7 DEF ContextInv, Stored
<1>5. CASE EvaluateMonitor(h) \/ PutMonitorState(h)
  <2>1. Evaluate \in {"unknown", "healthy", "unhealthy"}
    BY DEF Evaluate
  <2>2. PICK v \in {[pc |-> "put", state |-> Evaluate], PosterIdle} : SetPoster(h, v)
    BY <1>5 DEF EvaluateMonitor, PutMonitorState
  <2>3. v \in PosterStates /\ v.pc \in {"put", "idle"}
    BY <2>1 DEF PosterStates, PosterIdle
  <2>4. /\ poster' \in [Poster -> PosterStates]
        /\ poster'[h] = v /\ \A g \in Poster : g # h => poster'[g] = poster[g]
    BY <2>2, <2>3, PosterSet DEF ContextInv
  <2>5. UNCHANGED <<workItem, attached, outcome>> /\ monitor' \in {"unknown", "healthy", "unhealthy"}
    BY <1>1, <1>5 DEF EvaluateMonitor, PutMonitorState, ContextInv, PosterStates, Carries
  <2> QED
    BY <2>3, <2>4, <2>5 DEF ContextInv, Stored
<1> QED
  BY <1>2, <1>3, <1>4, <1>5 DEF PosterStep

LEMMA ContextStepKeeps ==
  ASSUME ContextInv, [ContextNext]_contextVars
  PROVE  ContextInv' /\ \A r \in Routed : attached[r] # Nothing => attached'[r] = attached[r]
<1> USE WorkContextAssumption
<1>1. ASSUME NEW h \in OutcomeHandler, NEW p \in Post, CreateOutcome(h, p)
      PROVE  ContextInv' /\ attached' = attached
  <2>1. /\ p.id \in OutcomeId /\ p.type \in {"passed", "failed", "other"} /\ p.run \in OutcomeRun \cup {Nothing}
        /\ p.key \in Key \cup {Nothing} /\ p.at \in 0..MaxDay /\ h \in Poster
    BY DEF Poster
  <2>2. /\ workItem' \in [Key -> ItemId] /\ Stored \subseteq Stored'
        /\ p.key # Nothing => workItem'[p.key] \in Stored' /\ workItem'[p.key] \in ItemId
    <3>1. CASE p.key = Nothing
      BY <1>1, <3>1 DEF CreateOutcome, ContextInv, Stored
    <3>2. CASE p.key # Nothing
      BY <1>1, <2>1, <3>2, UpsertKeeps DEF CreateOutcome
    <3> QED
      BY <3>1, <3>2
  <2>3. PICK item : item = IF p.key = Nothing THEN Nothing ELSE workItem'[p.key]
    OBVIOUS
  <2>4. item \in ItemId /\ item \in Stored'
    BY <2>2, <2>3 DEF ItemId, Stored
  <2> DEFINE v == [pc |-> "correlate", id |-> p.id, type |-> p.type, run |-> p.run, at |-> p.at, item |-> item]
  <2>5. v \in PosterStates
    BY <2>1, <2>4 DEF PosterStates, Carries
  <2>6. v.item = item
    OBVIOUS
  <2>7. SetPoster(h, v) /\ UNCHANGED <<attached, outcome, monitor>>
    BY <1>1, <2>3 DEF CreateOutcome
  <2> HIDE DEF v
  <2>8. /\ poster' \in [Poster -> PosterStates]
        /\ poster'[h] = v /\ \A g \in Poster : g # h => poster'[g] = poster[g]
    BY <2>1, <2>5, <2>7, PosterSet DEF ContextInv
  <2> QED
    BY <2>2, <2>4, <2>6, <2>7, <2>8 DEF ContextInv
<1>2. CASE NextDay \/ UNCHANGED contextVars
  BY <1>2 DEF NextDay, contextVars, ContextInv, Stored
<1> QED
  BY <1>1, <1>2, PosterStepKeeps DEF ContextNext

\* The items that events and outcomes name exist and stay, for any requests, although
\* a request is several statements and handlers upsert one key at the same time.
THEOREM ContextSafety ==
  ContextSpec => [](ContextTypeOK /\ ItemsExist) /\ AttachedOnce
<1> USE WorkContextAssumption
<1>1. ContextInit => ContextInv
  BY DEF ContextInit, ContextInv, ItemId, Stored, PosterIdle, PosterStates
<1>2. ContextInv /\ [ContextNext]_contextVars => ContextInv'
  BY ContextStepKeeps
<1>3. ContextInv => ContextTypeOK /\ ItemsExist
  <2> SUFFICES ASSUME ContextInv PROVE ContextTypeOK /\ ItemsExist
    OBVIOUS
  <2>1. \A h \in Poster : poster[h].pc = "attach" => poster[h].run \in Routed
    BY DEF ContextInv, PosterStates, Carries
  <2> QED
    BY <2>1 DEF ContextInv, ContextTypeOK, ItemsExist, OutcomeRow, Recorded, Stored
<1>4. ContextInv /\ [ContextNext]_contextVars
        => [\A r \in Routed : attached[r] # Nothing => attached'[r] = attached[r]]_contextVars
  BY ContextStepKeeps
<1> QED
  BY <1>1, <1>2, <1>3, <1>4, PTL DEF ContextSpec, AttachedOnce

-----------------------------------------------------------------------------
(* The event stream *)

\* While a connection is open, what is on the wire continues what the page has and
\* ends at the cursor; a broken one carries nothing.
StreamInv ==
  /\ journal \in 0..MaxEvents /\ drops \in Nat
  /\ StreamTypeOK
  /\ NoGaps
  /\ \A i \in 1..Len(wire) : wire[i] = Len(seen) + i
  /\ stream.open => stream.cursor = Len(seen) + Len(wire)
  /\ ~stream.open => wire = <<>>

\* Sequences of sequence numbers, with their lengths and elements.
LEMMA Numbers ==
  ASSUME NEW n \in Nat, NEW s \in Seq(1..n)
  PROVE  /\ Len(s) \in Nat /\ DOMAIN s = 1..Len(s)
         /\ \A i \in 1..Len(s) : s[i] \in 1..n
         /\ \A m \in Nat : n <= m => s \in Seq(1..m)
OBVIOUS

\* The handler's state with one field changed.
LEMMA StreamSet ==
  ASSUME NEW n \in Nat, NEW s \in [open: BOOLEAN, cursor: 0..n], NEW c \in 0..n
  PROVE  /\ [s EXCEPT !.open = FALSE] = [open |-> FALSE, cursor |-> s.cursor]
         /\ s.open => [s EXCEPT !.cursor = c] = [open |-> TRUE, cursor |-> c]
         /\ s.cursor \in 0..n
         /\ [open |-> TRUE, cursor |-> c] \in [open: BOOLEAN, cursor: 0..n]
         /\ [open |-> FALSE, cursor |-> c] \in [open: BOOLEAN, cursor: 0..n]
<1>1. s = [open |-> s.open, cursor |-> s.cursor] /\ s.cursor \in 0..n
  OBVIOUS
<1>2. [s EXCEPT !.open = FALSE] = [open |-> FALSE, cursor |-> s.cursor]
  <2>1. \A x : [s EXCEPT !.open = x] = [open |-> x, cursor |-> s.cursor]
    OBVIOUS
  <2> QED
    BY <2>1, Zenon
<1>3. s.open => [s EXCEPT !.cursor = c] = [open |-> TRUE, cursor |-> c]
  <2>1. s.open \in BOOLEAN
    OBVIOUS
  <2>2. [s EXCEPT !.cursor = c] = [open |-> s.open, cursor |-> c]
    BY <1>1
  <2> QED
    BY <2>1, <2>2
<1>4. /\ [open |-> TRUE, cursor |-> c] \in [open: BOOLEAN, cursor: 0..n]
      /\ [open |-> FALSE, cursor |-> c] \in [open: BOOLEAN, cursor: 0..n]
  OBVIOUS
<1> QED
  BY <1>1, <1>2, <1>3, <1>4

LEMMA StreamStepKeeps ==
  ASSUME StreamInv, [StreamNext]_streamVars
  PROVE  StreamInv'
<1> USE EventStreamAssumption
<1>1. /\ journal \in Nat /\ journal <= MaxEvents /\ drops \in Nat
      /\ stream \in [open: BOOLEAN, cursor: 0..journal]
      /\ wire \in Seq(1..journal) /\ seen \in Seq(1..journal)
      /\ Len(wire) \in Nat /\ Len(seen) \in Nat
  BY Numbers DEF StreamInv, StreamTypeOK
<1>2. Len(seen) <= journal
  <2>1. CASE seen = <<>>
    BY <1>1, <2>1
  <2>2. CASE seen # <<>>
    <3>1. Len(seen) \in 1..Len(seen)
      BY <1>1, <2>2
    <3>2. seen[Len(seen)] \in 1..journal
      BY <1>1, <3>1, Numbers
    <3>3. seen[Len(seen)] = Len(seen)
      BY <3>1 DEF StreamInv, NoGaps
    <3> QED
      BY <1>1, <3>2, <3>3
  <2> QED
    BY <2>1, <2>2
<1>3. CASE AppendRuntimeEvent
  <2>1. journal' = journal + 1 /\ UNCHANGED <<stream, wire, seen, drops>> /\ journal' \in 0..MaxEvents
    BY <1>1, <1>3 DEF AppendRuntimeEvent
  <2>2. wire \in Seq(1..journal + 1) /\ seen \in Seq(1..journal + 1)
    BY <1>1, Numbers
  <2>3. StreamTypeOK'
    BY <1>1, <2>1, <2>2 DEF StreamTypeOK
  <2> QED
    BY <2>1, <2>3 DEF StreamInv, NoGaps
<1>4. CASE Connect
  <2>1. LastEventId = Len(seen)
    <3>1. CASE seen = <<>>
      BY <3>1 DEF LastEventId
    <3>2. CASE seen # <<>>
      <4>1. Len(seen) \in 1..Len(seen)
        BY <1>1, <3>2
      <4> QED
        BY <3>2, <4>1 DEF LastEventId, StreamInv, NoGaps
    <3> QED
      BY <3>1, <3>2
  <2>2. /\ stream' = [open |-> TRUE, cursor |-> Len(seen)] /\ wire' = <<>>
        /\ UNCHANGED <<journal, seen, drops>>
    BY <1>4, <2>1 DEF Connect, RuntimeEventCursor
  <2>3. StreamTypeOK'
    BY <1>1, <1>2, <2>2 DEF StreamTypeOK
  <2> QED
    BY <1>1, <2>2, <2>3 DEF StreamInv, NoGaps
<1>5. CASE SendBatch
  <2> DEFINE n == Lesser(BatchSize, journal - stream.cursor)
             events == [i \in 1..n |-> stream.cursor + i]
  <2>1. /\ wire' = wire \o events /\ stream' = [stream EXCEPT !.cursor = stream.cursor + n]
        /\ UNCHANGED <<journal, seen, drops>> /\ stream.open /\ journal > stream.cursor
    BY <1>5 DEF SendBatch, ListRuntimeEventsAfter
  <2>2. n \in Nat /\ stream.cursor + n <= journal /\ stream.cursor \in Nat
    BY <1>1, <2>1 DEF Lesser
  <2> HIDE DEF n
  <2>3. /\ wire' \in Seq(1..journal) /\ Len(wire') = Len(wire) + n
        /\ \A i \in 1..Len(wire) : wire'[i] = wire[i]
        /\ \A i \in (Len(wire) + 1)..(Len(wire) + n) : wire'[i] = stream.cursor + (i - Len(wire))
    <3>1. \A i \in 1..n : stream.cursor + i \in 1..journal
      BY <1>1, <2>2
    <3>2. events \in [1..n -> 1..journal] /\ \A i \in 1..n : events[i] = stream.cursor + i
      BY <3>1
    <3> HIDE DEF events
    <3>3. events \in Seq(1..journal) /\ Len(events) = n
      BY <1>1, <2>2, <3>2
    <3>4. wire' \in Seq(1..journal) /\ Len(wire') = Len(wire) + n
      <4>1. wire \in Seq(1..journal) /\ wire' = wire \o events
        BY <1>1, <2>1
      <4> QED
        BY <3>3, <4>1, ConcatProperties
    <3>5. \A i \in 1..Len(wire) : wire'[i] = wire[i]
      BY <1>1, <2>1, <3>3
    <3>6. ASSUME NEW i \in (Len(wire) + 1)..(Len(wire) + n)
          PROVE  wire'[i] = stream.cursor + (i - Len(wire))
      <4>1. i - Len(wire) \in 1..n /\ i \in 1..(Len(wire) + n) /\ ~(i <= Len(wire))
        BY <1>1, <2>2
      <4>2. wire'[i] = events[i - Len(wire)]
        BY <1>1, <2>1, <3>3, <4>1
      <4> QED
        BY <3>2, <4>1, <4>2
    <3> QED
      BY <3>4, <3>5, <3>6
  <2>4. stream.cursor = Len(seen) + Len(wire) /\ \A i \in 1..Len(wire) : wire[i] = Len(seen) + i
    BY <2>1 DEF StreamInv
  <2>5. \A i \in 1..Len(wire') : wire'[i] = Len(seen) + i
    <3> SUFFICES ASSUME NEW i \in 1..(Len(wire) + n) PROVE wire'[i] = Len(seen) + i
      BY <2>3
    <3>1. CASE i <= Len(wire)
      BY <1>1, <2>2, <2>3, <2>4, <3>1
    <3>2. CASE i > Len(wire)
      <4>1. i \in (Len(wire) + 1)..(Len(wire) + n)
        BY <1>1, <2>2, <3>2
      <4> QED
        BY <1>1, <2>2, <2>3, <2>4, <4>1
    <3> QED
      BY <1>1, <2>2, <3>1, <3>2
  <2>6. stream' = [open |-> TRUE, cursor |-> stream.cursor + n] /\ stream' \in [open: BOOLEAN, cursor: 0..journal]
    <3>1. stream.cursor + n \in 0..journal
      BY <2>2
    <3> QED
      BY <1>1, <2>1, <3>1, StreamSet
  <2>7. StreamTypeOK'
    BY <1>1, <2>1, <2>3, <2>6 DEF StreamTypeOK
  <2>8. stream'.open /\ stream'.cursor = Len(seen) + Len(wire')
    BY <1>1, <2>2, <2>3, <2>4, <2>6
  <2> QED
    BY <2>1, <2>5, <2>7, <2>8 DEF StreamInv, NoGaps
<1>6. CASE Receive
  <2>1. /\ wire # <<>> /\ seen' = Append(seen, Head(wire)) /\ wire' = Tail(wire)
        /\ UNCHANGED <<journal, stream, drops>>
    BY <1>6 DEF Receive
  <2>2. stream.open /\ Head(wire) = Len(seen) + 1 /\ Head(wire) \in 1..journal
    BY <1>1, <2>1 DEF StreamInv
  <2>3. /\ seen' \in Seq(1..journal) /\ Len(seen') = Len(seen) + 1
        /\ \A i \in 1..Len(seen) : seen'[i] = seen[i]
        /\ seen'[Len(seen) + 1] = Len(seen) + 1
    BY <1>1, <2>1, <2>2
  <2>4. /\ wire' \in Seq(1..journal) /\ Len(wire') = Len(wire) - 1
        /\ \A i \in 1..Len(wire') : wire'[i] = wire[i + 1]
    BY <1>1, <2>1
  <2>5. NoGaps'
    <3>1. \A i \in 1..Len(seen) : seen[i] = i
      BY DEF StreamInv, NoGaps
    <3>2. \A i \in 1..(Len(seen) + 1) : i \in 1..Len(seen) \/ i = Len(seen) + 1
      BY <1>1
    <3> QED
      BY <2>3, <3>1, <3>2 DEF NoGaps
  <2>6. \A i \in 1..Len(wire') : wire'[i] = Len(seen') + i
    BY <1>1, <2>3, <2>4 DEF StreamInv
  <2> QED
    BY <1>1, <2>1, <2>2, <2>3, <2>4, <2>5, <2>6 DEF StreamInv, StreamTypeOK
<1>7. CASE Drop
  <2>1. /\ stream' = [stream EXCEPT !.open = FALSE] /\ wire' = <<>> /\ drops' = drops + 1
        /\ UNCHANGED <<journal, seen>>
    BY <1>7 DEF Drop
  <2>2. /\ stream' = [open |-> FALSE, cursor |-> stream.cursor]
        /\ stream' \in [open: BOOLEAN, cursor: 0..journal]
    BY <1>1, <2>1, StreamSet
  <2> QED
    BY <1>1, <2>1, <2>2 DEF StreamInv, StreamTypeOK, NoGaps
<1>8. CASE Reload
  <2>1. /\ stream' = [stream EXCEPT !.open = FALSE] /\ wire' = <<>> /\ seen' = <<>> /\ drops' = drops + 1
        /\ UNCHANGED journal
    BY <1>8 DEF Reload
  <2>2. /\ stream' = [open |-> FALSE, cursor |-> stream.cursor]
        /\ stream' \in [open: BOOLEAN, cursor: 0..journal]
    BY <1>1, <2>1, StreamSet
  <2> QED
    BY <1>1, <2>1, <2>2 DEF StreamInv, StreamTypeOK, NoGaps
<1>9. CASE UNCHANGED streamVars
  BY <1>9 DEF streamVars, StreamInv, StreamTypeOK, NoGaps
<1> QED
  BY <1>3, <1>4, <1>5, <1>6, <1>7, <1>8, <1>9 DEF StreamNext, StreamStep

\* What a page has is a prefix of the journal, for every length of the journal, every
\* batch size, and wherever and however often the connection breaks or the page is
\* loaded again.
THEOREM StreamSafety ==
  StreamSpec => [](StreamTypeOK /\ NoGaps)
<1>1. StreamInit => StreamInv
  BY EventStreamAssumption DEF StreamInit, StreamInv, StreamTypeOK, NoGaps
<1>2. StreamInv /\ [StreamNext]_streamVars => StreamInv'
  BY StreamStepKeeps
<1>3. StreamInv => StreamTypeOK /\ NoGaps
  BY DEF StreamInv
<1> QED
  BY <1>1, <1>2, <1>3, PTL DEF StreamSpec

=============================================================================
