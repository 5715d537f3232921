----------------------------- MODULE StudioApi ------------------------------
(***************************************************************************)
(* Studio's definition editor and manual runs (internal/studio).  Editors  *)
(* save a definition against the digest they loaded, people change it      *)
(* outside Studio, and requests for runs read it to find out what the run  *)
(* may do; a request whose response is lost is sent again.                 *)
(***************************************************************************)
EXTENDS Integers, FiniteSets

CONSTANTS
  EditorId,    \* browser tabs with the definition open
  Caller,      \* handlers of POST /runs
  RequestId,   \* request_id of manual runs
  MaxRevision, \* bound: contents the definition ever has
  None

ASSUME StudioApiAssumption ==
  /\ MaxRevision \in Nat
  /\ None \notin EditorId \cup Caller \cup RequestId

VARIABLES
  definition,  \* an agent's file: its max_permission, as a rank, and a revision
  savedBy,     \* who wrote it last
  revision,    \* contents so far
  lock,        \* definitionEditor.mu
  editor,      \* tabs and their PUT requests
  caller,      \* handlers of POST /runs
  manualRun,   \* the run of each request
  binding,     \* the ad hoc workspace is confirmed in this Studio process
  confirmed    \* it ever was (history)

apiVars == <<definition, savedBy, revision, lock, editor, caller, manualRun, binding, confirmed>>

\* readonly is 0; 1 stands for the permissions that may write, -1 for a file
\* that does not load.
Rank == {0, 1}
Content == [cap: Rank \cup {-1}, rev: 0..MaxRevision]
Idle == [pc |-> "idle"]

ApiInit ==
  /\ definition \in [cap: Rank, rev: {0}] /\ savedBy = "outside" /\ revision = 0
  /\ lock = None
  /\ editor = [e \in EditorId |-> Idle]
  /\ caller = [c \in Caller |-> Idle]
  /\ manualRun = [id \in RequestId |-> None]
  /\ binding = FALSE /\ confirmed = FALSE

\* The file changes; requests under way remember what it allowed meanwhile.
Becomes(content, by) ==
  /\ definition' = content
  /\ savedBy' = by
  /\ caller' = [c \in Caller |-> IF caller[c] = Idle THEN Idle
                                 ELSE [caller[c] EXCEPT !.caps = @ \cup {content.cap}]]

-----------------------------------------------------------------------------
(* The editor *)

SetEditor(e, v) == editor' = [editor EXCEPT ![e] = v]

\* get: the tab shows the file with its digest.
GetDefinition(e) ==
  /\ editor[e].pc \in {"idle", "open"}
  /\ SetEditor(e, [pc |-> "open", shown |-> definition])
  /\ UNCHANGED <<definition, savedBy, revision, lock, caller, manualRun, binding, confirmed>>

\* Mutant: the mutex is taken for the rename only.
CompareUnlocked(e, cap) ==
  /\ editor[e].pc = "open"
  /\ revision < MaxRevision
  /\ IF definition = editor[e].shown /\ cap \in Rank
       THEN /\ revision' = revision + 1
            /\ SetEditor(e, [pc |-> "replace", shown |-> editor[e].shown,
                             content |-> [cap |-> cap, rev |-> revision + 1]])
       ELSE SetEditor(e, Idle) /\ UNCHANGED revision
  /\ UNCHANGED <<definition, savedBy, lock, caller, manualRun, binding, confirmed>>

\* put takes the mutex, reads the file again, refuses a digest that is not the
\* expected one and content that does not validate.
CompareDefinition(e, cap) ==
  /\ editor[e].pc = "open"
  /\ revision < MaxRevision
  /\ lock = None
  /\ IF definition = editor[e].shown /\ cap \in Rank
       THEN /\ revision' = revision + 1
            /\ lock' = e
            /\ SetEditor(e, [pc |-> "replace", shown |-> editor[e].shown,
                             content |-> [cap |-> cap, rev |-> revision + 1]])
       ELSE SetEditor(e, Idle) /\ UNCHANGED <<revision, lock>>
  /\ UNCHANGED <<definition, savedBy, caller, manualRun, binding, confirmed>>

\* replaceFile renames a temporary file, or fails; the mutex is released and the
\* tab shows what is saved.
ReplaceFile(e, ok) ==
  /\ editor[e].pc = "replace"
  /\ IF ok
       THEN /\ Becomes(editor[e].content, "studio")
            /\ SetEditor(e, [pc |-> "open", shown |-> editor[e].content])
       ELSE /\ SetEditor(e, [pc |-> "open", shown |-> editor[e].shown])
            /\ UNCHANGED <<definition, savedBy, caller>>
  /\ lock' = IF lock = e THEN None ELSE lock
  /\ UNCHANGED <<revision, manualRun, binding, confirmed>>

\* Somebody writes the file outside Studio, perhaps badly.
EditOutside(cap) ==
  /\ revision < MaxRevision
  /\ revision' = revision + 1
  /\ Becomes([cap |-> cap, rev |-> revision + 1], "outside")
  /\ UNCHANGED <<lock, editor, manualRun, binding, confirmed>>

-----------------------------------------------------------------------------
(* Manual runs *)

SetCaller(c, v) == caller' = [caller EXCEPT ![c] = v]

\* registry.Bind, confirmed; the registry lives as long as the process.
ConfirmWorkspace ==
  /\ binding' = TRUE /\ confirmed' = TRUE
  /\ UNCHANGED <<definition, savedBy, revision, lock, editor, caller, manualRun>>

\* A request, or the same one again after its response was lost.
CreateManualRun(c, id, permission, workspace) ==
  /\ caller[c] = Idle
  /\ SetCaller(c, [pc |-> "load", id |-> id, permission |-> permission, workspace |-> workspace,
                   caps |-> {definition.cap}])
  /\ UNCHANGED <<definition, savedBy, revision, lock, editor, manualRun, binding, confirmed>>

\* Mutant: what was asked for is granted.
EffectiveAsked(asked, cap) == asked

\* EffectivePermission: the lower rank.
EffectivePermission(asked, cap) == IF asked < cap THEN asked ELSE cap

\* The project, the team and the agent are loaded and the permission determined.
LoadDefinitions(c) ==
  /\ caller[c].pc = "load"
  /\ SetCaller(c, IF definition.cap \notin Rank THEN Idle
                  ELSE [caller[c] EXCEPT !.pc = "workspace",
                          !.permission = EffectivePermission(@, definition.cap)])
  /\ UNCHANGED <<definition, savedBy, revision, lock, editor, manualRun, binding, confirmed>>

\* A declared workspace needs a local binding, an ad hoc one a binding of this
\* Studio, and every such binding is a confirmed one.
CheckWorkspace(c) ==
  /\ caller[c].pc = "workspace"
  /\ SetCaller(c, IF caller[c].workspace = "adhoc" /\ ~binding THEN Idle
                  ELSE [caller[c] EXCEPT !.pc = "route"])
  /\ UNCHANGED <<definition, savedBy, revision, lock, editor, manualRun, binding, confirmed>>

\* IngestAndRoute keeps the run that the request has; another identity conflicts.
StoreRun(id, run) == IF manualRun[id] = None THEN run ELSE manualRun[id]

IngestAndRoute(c) ==
  /\ caller[c].pc = "route"
  /\ manualRun' = [manualRun EXCEPT ![caller[c].id] =
                     StoreRun(caller[c].id, [permission |-> caller[c].permission,
                                             workspace |-> caller[c].workspace,
                                             caps |-> caller[c].caps])]
  /\ SetCaller(c, Idle)
  /\ UNCHANGED <<definition, savedBy, revision, lock, editor, binding, confirmed>>

\* Studio ends and is started again: the mutex, the registry and the requests are
\* gone, the tabs remain.
RestartStudio ==
  /\ lock' = None /\ binding' = FALSE
  /\ caller' = [c \in Caller |-> Idle]
  /\ editor' = [e \in EditorId |-> IF editor[e].pc = "replace"
                                     THEN [pc |-> "open", shown |-> editor[e].shown]
                                     ELSE editor[e]]
  /\ UNCHANGED <<definition, savedBy, revision, manualRun, confirmed>>

ApiNext ==
  \/ \E e \in EditorId : \/ GetDefinition(e)
                         \/ \E cap \in Rank \cup {-1} : CompareDefinition(e, cap)
                         \/ \E ok \in BOOLEAN : ReplaceFile(e, ok)
  \/ \E cap \in Rank \cup {-1} : EditOutside(cap)
  \/ \E c \in Caller : \/ LoadDefinitions(c) \/ CheckWorkspace(c) \/ IngestAndRoute(c)
                       \/ \E id \in RequestId, permission \in Rank, workspace \in {"declared", "adhoc"} :
                            CreateManualRun(c, id, permission, workspace)
  \/ ConfirmWorkspace \/ RestartStudio

ApiSpec == ApiInit /\ [][ApiNext]_apiVars

-----------------------------------------------------------------------------
(* Properties *)

ApiTypeOK ==
  /\ definition \in Content
  /\ savedBy \in {"studio", "outside"}
  /\ lock \in EditorId \cup {None}
  /\ \A e \in EditorId : editor[e].pc = "replace" => lock = e
  /\ \A id \in RequestId : manualRun[id] # None => manualRun[id].permission \in Rank

\* A save never overwrites another tab's save that its author has not seen: what
\* Studio replaces is what the tab showed, or was written outside Studio between
\* the comparison and the rename.
SaveIsSeen ==
  \A e \in EditorId :
    editor[e].pc = "replace" /\ definition' # definition /\ savedBy' = "studio"
      => savedBy = "outside" \/ definition = editor[e].shown

\* What Studio wrote loads.
SavedIsValid == savedBy = "studio" => definition.cap \in Rank

\* A request makes one run: sent again, perhaps after the agent's definition
\* changed, it never changes the run or makes another.
RequestStands ==
  \A id \in RequestId : manualRun[id] # None => manualRun'[id] = manualRun[id]

\* A run may do no more than the agent's definition allowed at some moment of its
\* request, although files are read while they are edited, and an ad hoc workspace
\* is used only after somebody confirmed it.
RunIsAuthorised ==
  \A id \in RequestId : manualRun[id] # None =>
    /\ \E cap \in manualRun[id].caps : manualRun[id].permission <= cap
    /\ manualRun[id].workspace = "adhoc" => confirmed

\* Whatever is saved or requested meanwhile, runs are authorised and definitions
\* load.
ApiIsSafe == ApiTypeOK /\ SavedIsValid /\ RunIsAuthorised

\* No step loses a save or a request's run.
NothingIsLost == [][SaveIsSeen /\ RequestStands]_apiVars
=============================================================================
