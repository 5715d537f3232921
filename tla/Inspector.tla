----------------------------- MODULE Inspector ------------------------------
(***************************************************************************)
(* The MCP inspector (internal/inspector): a Bubble Tea model whose Update *)
(* handles keys and the messages of commands, which run in goroutines of   *)
(* their own.  Nothing keeps a user from starting a call while another one *)
(* runs, from moving on before its result comes, or from quitting before   *)
(* the connection is there.                                                *)
(***************************************************************************)
EXTENDS Integers, Sequences, FiniteSets

CONSTANTS
  Tool, Resource, Prompt,  \* what the server offers
  WithArguments,           \* the prompts that take arguments
  NoItem,                  \* no selection, no form, no result
  MaxCalls                 \* bound: calls of a session

ASSUME InspectorAssumption ==
  /\ Tool # {} /\ Resource # {} /\ Prompt # {}
  /\ WithArguments \subseteq Prompt
  /\ NoItem \notin Tool \cup Resource \cup Prompt
  /\ MaxCalls \in Nat

VARIABLES
  connecting,   \* where connectCmd is
  server,       \* the connection of connectCmd: "none", "open", "closed"
  conn,         \* Model.conn is set
  connectErr,   \* Model.connectErr is set
  connectDone,
  offers,       \* hasResources and hasPrompts
  pane, section,
  selected,     \* the selected item of each list
  form,         \* activeForm with formTool
  formPrompt,
  flight,       \* commands that run: number, section and item
  calling, callingTool,
  history,      \* Model.history, as pairs of number and tool
  shown,        \* shownResult
  started,      \* what was called so far (history)
  program       \* "running", "quit", "over"

inspectorVars == <<connecting, server, conn, connectErr, connectDone, offers, pane, section, selected,
                   form, formPrompt, flight, calling, callingTool, history, shown, started, program>>
connection == <<connecting, server, conn, connectErr, connectDone, offers>>
calls == <<flight, calling, callingTool, history, started>>

ItemsOf(s) == CASE s = "tools" -> Tool [] s = "resources" -> Resource [] s = "prompts" -> Prompt

InspectorInit ==
  /\ connecting = "open" /\ server = "none" /\ conn = FALSE /\ connectErr = FALSE
  /\ connectDone = FALSE /\ offers = {} /\ pane = "list" /\ section = "tools"
  /\ selected = [s \in {"tools", "resources", "prompts"} |-> NoItem]
  /\ form = NoItem /\ formPrompt = NoItem /\ flight = {} /\ calling = FALSE /\ callingTool = NoItem
  /\ history = <<>> /\ shown = NoItem /\ started = <<>> /\ program = "running"

-----------------------------------------------------------------------------
(* connectCmd *)

\* Open, Initialize, ListTools, then what the server advertised.  A failure after
\* Open closes the connection; resources and prompts may fail.
Connect(ok) ==
  /\ connecting \in {"open", "initialize", "tools"}
  /\ IF ok
       THEN /\ connecting' = CASE connecting = "open" -> "initialize"
                               [] connecting = "initialize" -> "tools"
                               [] connecting = "tools" -> "connected"
            /\ server' = "open"
       ELSE connecting' = "failed" /\ server' = IF server = "open" THEN "closed" ELSE "none"
  /\ UNCHANGED <<conn, connectErr, connectDone, offers, pane, section, selected, form, formPrompt,
                 calls, shown, program>>

\* lastResultFor.
LastResultFor(t) ==
  LET mine == {i \in 1..Len(history) : history[i].tool = t}
  IN IF mine = {} THEN NoItem ELSE history[CHOOSE i \in mine : \A j \in mine : j <= i]

\* syncDetailToSelection: the last result of the selected tool.
SyncDetail(s, item) == IF s = "tools" /\ item # NoItem THEN LastResultFor(item) ELSE NoItem

\* handleConnected, unless the program has ended and nobody takes the message.
HandleConnected(lists) ==
  /\ connecting \in {"connected", "failed"} /\ ~connectDone
  /\ program = "running"
  /\ connectDone' = TRUE
  /\ IF connecting = "failed"
       THEN connectErr' = TRUE /\ UNCHANGED <<conn, offers, selected, shown>>
       ELSE /\ conn' = TRUE /\ offers' = lists
            /\ selected' = [s \in DOMAIN selected |->
                              IF s \in lists \cup {"tools"} THEN CHOOSE x \in ItemsOf(s) : TRUE
                                                            ELSE NoItem]
            /\ shown' = SyncDetail(section, selected'[section])
            /\ UNCHANGED connectErr
  /\ UNCHANGED <<connecting, server, pane, section, form, formPrompt, calls, program>>

-----------------------------------------------------------------------------
(* Keys.  A key counts only while the program runs. *)

Browsing(p) == program = "running" /\ connectDone /\ pane = p

\* The list's own keys move the selection.
Move(item) ==
  /\ Browsing("list")
  /\ selected[section] # NoItem /\ item \in ItemsOf(section)
  /\ selected' = [selected EXCEPT ![section] = item]
  /\ shown' = SyncDetail(section, item)
  /\ UNCHANGED <<connection, pane, section, form, formPrompt, calls, program>>

\* switchSection refuses what the server does not offer.
SwitchSection(s) ==
  /\ Browsing("list")
  /\ s \in offers \cup {"tools"}
  /\ section' = s
  /\ shown' = SyncDetail(s, selected[s])
  /\ UNCHANGED <<connection, pane, selected, form, formPrompt, calls, program>>

\* A command is started: tools/call, resources/read or prompts/get.
Start(s, item) ==
  /\ Len(started) < MaxCalls
  /\ started' = Append(started, [section |-> s, item |-> item])
  /\ flight' = flight \cup {[id |-> Len(started) + 1, section |-> s, item |-> item]}
  /\ calling' = TRUE /\ callingTool' = item
  /\ UNCHANGED history

\* activateSelection: a resource or a prompt without arguments at once, ...
Activate ==
  /\ Browsing("list") /\ conn
  /\ section = "resources" \/ (section = "prompts" /\ selected[section] \notin WithArguments)
  /\ selected[section] # NoItem
  /\ Start(section, selected[section])
  /\ UNCHANGED <<connection, pane, section, selected, form, formPrompt, shown, program>>

\* ... a tool, or a prompt with arguments, through a form.
OpenCallForm ==
  /\ Browsing("list")
  /\ selected[section] # NoItem
  /\ section = "tools" \/ (section = "prompts" /\ selected[section] \in WithArguments)
  /\ form' = selected[section]
  /\ formPrompt' = IF section = "prompts" THEN selected[section] ELSE formPrompt
  /\ pane' = "form"
  /\ UNCHANGED <<connection, section, selected, calls, shown, program>>

\* updateForm: ctrl+x, or the form was aborted.
CancelForm ==
  /\ Browsing("form")
  /\ pane' = "list" /\ form' = NoItem /\ formPrompt' = NoItem
  /\ UNCHANGED <<connection, section, selected, calls, shown, program>>

\* Arguments: an argument that does not convert is refused.  A prompt's arguments
\* are strings and always convert.
Converts(ok) == ok \/ formPrompt # NoItem

\* submitForm.
SubmitForm(ok) ==
  /\ Browsing("form")
  /\ pane' = "list" /\ form' = NoItem
  /\ IF ~Converts(ok) \/ ~conn THEN UNCHANGED <<calls, formPrompt>>
     ELSE IF formPrompt # NoItem THEN Start("prompts", formPrompt) /\ formPrompt' = NoItem
     ELSE Start("tools", form) /\ UNCHANGED formPrompt
  /\ UNCHANGED <<connection, section, selected, shown, program>>

SwitchPane(p) ==
  /\ program = "running" /\ connectDone
  /\ <<pane, p>> \in ({"list"} \X {"history", "logs"}) \cup ({"history", "logs"} \X {"list"})
  /\ pane' = p
  /\ UNCHANGED <<connection, section, selected, form, formPrompt, calls, shown, program>>

\* showSelectedHistory and selectToolByName.
ShowHistory(i) ==
  /\ Browsing("history") /\ i \in 1..Len(history)
  /\ shown' = history[i] /\ pane' = "list"
  /\ selected' = [selected EXCEPT !["tools"] = history[i].tool]
  /\ UNCHANGED <<connection, section, form, formPrompt, calls, program>>

-----------------------------------------------------------------------------
(* Results.  They are applied in whatever pane and section the user is. *)

CallingEnds == calling' = FALSE /\ callingTool' = NoItem

\* Mutant: only a result that the user still looks at is recorded.
RecordIfShown(f) == IF selected["tools"] = f.item
                      THEN Append(history, [id |-> f.id, tool |-> f.item]) ELSE history

\* handleCallResult appends the record, whatever the result is.
RecordCall(f) == Append(history, [id |-> f.id, tool |-> f.item])

\* handleCallResult shows the tool's result and selects the tool; the results of
\* resources and prompts go into the detail view only.
HandleResult(f) ==
  /\ program = "running" /\ f \in flight
  /\ flight' = flight \ {f}
  /\ CallingEnds
  /\ IF f.section = "tools"
       THEN /\ history' = RecordCall(f)
            /\ shown' = [id |-> f.id, tool |-> f.item]
            /\ selected' = [selected EXCEPT !["tools"] = f.item]
       ELSE UNCHANGED <<history, shown, selected>>
  /\ UNCHANGED <<connection, pane, section, form, formPrompt, started, program>>

-----------------------------------------------------------------------------
(* The program *)

Quit ==
  /\ program = "running"
  /\ program' = "quit"
  /\ UNCHANGED <<connection, pane, section, selected, form, formPrompt, calls, shown>>

\* Run closes the connection that the final model has.
CloseConnection ==
  /\ program = "quit"
  /\ program' = "over"
  /\ server' = IF conn THEN "closed" ELSE server
  /\ UNCHANGED <<connecting, conn, connectErr, connectDone, offers, pane, section, selected, form,
                 formPrompt, calls, shown>>

InspectorNext ==
  \/ \E ok \in BOOLEAN : Connect(ok) \/ SubmitForm(ok)
  \/ \E lists \in SUBSET {"resources", "prompts"} : HandleConnected(lists)
  \/ \E item \in Tool \cup Resource \cup Prompt : Move(item)
  \/ \E s \in {"tools", "resources", "prompts"} : SwitchSection(s)
  \/ \E p \in {"list", "history", "logs"} : SwitchPane(p)
  \/ \E i \in 1..MaxCalls : ShowHistory(i)
  \/ \E f \in flight : HandleResult(f)
  \/ Activate \/ OpenCallForm \/ CancelForm \/ Quit \/ CloseConnection

InspectorSpec == InspectorInit /\ [][InspectorNext]_inspectorVars

-----------------------------------------------------------------------------
(* Properties *)

InspectorTypeOK ==
  /\ pane \in {"list", "form", "history", "logs"}
  /\ section \in offers \cup {"tools"}
  /\ \A s \in DOMAIN selected : selected[s] \in ItemsOf(s) \cup {NoItem}
  /\ server \in {"none", "open", "closed"}
  /\ program \in {"running", "quit", "over"}

\* The result on the screen is one of the tool that is selected, in whatever order
\* results come and wherever the user has gone meanwhile.
ShownIsSelected == shown # NoItem => shown.tool = selected["tools"]

\* The form pane has a form to draw, and what is submitted is what its title says:
\* a prompt that is remembered from an earlier form would be rendered instead of
\* the tool that the user calls.
FormIsWhole ==
  /\ pane = "form" <=> form # NoItem
  /\ formPrompt # NoItem => pane = "form" /\ form = formPrompt

\* The history has every tool call that returned, once and under its tool's name.
HistoryIsComplete ==
  \A i \in 1..Len(started) :
    LET entries == {k \in 1..Len(history) : history[k].id = i}
    IN IF started[i].section = "tools" /\ \A f \in flight : f.id # i
         THEN \E k \in entries : entries = {k} /\ history[k].tool = started[i].item
         ELSE entries = {}

\* While the header says that something is called, that call is running.
CallingIsRunning == calling => \E f \in flight : f.item = callingTool

\* What the inspector shows, sends and remembers belongs together, in whatever
\* order connections, results and keys come.
ScreenIsConsistent ==
  InspectorTypeOK /\ ShownIsSelected /\ FormIsWhole /\ HistoryIsComplete /\ CallingIsRunning
=============================================================================
