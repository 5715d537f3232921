----------------------------- MODULE McpClient ------------------------------
(***************************************************************************)
(* The MCP client (internal/mcpclient): calls of several goroutines share  *)
(* one connection.  A call registers a channel under its id and sends its  *)
(* request; the read loop takes messages off the transport's channel and   *)
(* hands each response to the call that waits for its id.  The server      *)
(* answers in any order, twice, or not at all, and Close may come at any   *)
(* time.  Transports: a child process (stdio), streamable HTTP with JSON   *)
(* or with event-stream responses, and the older SSE stream.               *)
(***************************************************************************)
EXTENDS Integers, Sequences, FiniteSets

CONSTANTS
  Call,       \* calls; each has an id of its own
  InboxCap,   \* capacity of the transport's channel (16)
  MaxNoise    \* bound: notifications, log lines and repeated responses

ASSUME McpClientAssumption == InboxCap \in Nat \ {0} /\ MaxNoise \in Nat

VARIABLES
  transport,  \* which one
  callPc,     \* where each call is
  pending,    \* ids with a registered channel
  channel,    \* the channels: "none", "empty", "closed", or the answer's origin
  reader,     \* the read loop: "reading", "handing" a response over, or "ended"
  inbox,      \* the transport's channel
  inClosed,   \* it is closed
  asked,      \* requests the server has and may answer
  client,     \* "open", "closing" (the client is closed, its transport is not), "closed"
  cut,        \* the transport's context is cancelled, or its stream has ended
  noise,      \* noise so far
  panicked    \* something was sent to a closed channel

mcpVars == <<transport, callPc, pending, channel, reader, inbox, inClosed, asked, client, cut,
             noise, panicked>>

Noise == "noise"
Reading == [pc |-> "reading"]
InFlight == {c \in Call : callPc[c] \in {"registered", "pushing", "waiting"}}

McpInit ==
  /\ transport \in {"stdio", "json", "stream", "sse"}
  /\ callPc = [c \in Call |-> "idle"] /\ channel = [c \in Call |-> "none"]
  /\ pending = {} /\ reader = Reading /\ inbox = <<>> /\ inClosed = FALSE
  /\ asked = {} /\ client = "open" /\ cut = FALSE /\ noise = 0 /\ panicked = FALSE

-----------------------------------------------------------------------------
(* A call *)

\* call: the id is registered unless the client is closed.
Register(c) ==
  /\ callPc[c] = "idle"
  /\ IF client = "open"
       THEN /\ pending' = pending \cup {c}
            /\ channel' = [channel EXCEPT ![c] = "empty"]
            /\ callPc' = [callPc EXCEPT ![c] = "registered"]
       ELSE callPc' = [callPc EXCEPT ![c] = "failed"] /\ UNCHANGED <<pending, channel>>
  /\ UNCHANGED <<transport, reader, inbox, inClosed, asked, client, cut, noise, panicked>>

\* Send: a line on stdin, a POST whose response is read as a stream by a goroutine
\* of its own, or a POST whose response comes on the SSE stream.  A JSON body is
\* read first and pushed by the caller.
SendRequest(c) ==
  /\ callPc[c] = "registered"
  /\ ~cut
  /\ asked' = asked \cup {c}
  /\ callPc' = [callPc EXCEPT ![c] = IF transport = "json" THEN "pushing" ELSE "waiting"]
  /\ UNCHANGED <<transport, pending, channel, reader, inbox, inClosed, client, cut, noise, panicked>>

\* A failed Send: the call takes its registration back.
SendFails(c) ==
  /\ callPc[c] = "registered"
  /\ pending' = pending \ {c}
  /\ callPc' = [callPc EXCEPT ![c] = "failed"]
  /\ UNCHANGED <<transport, channel, reader, inbox, inClosed, asked, client, cut, noise, panicked>>

HasRoom == Len(inbox) < InboxCap

\* push: into the channel when it has room, or not at all once the context is
\* cancelled; select takes either when both are possible.
PushJson(c) ==
  /\ callPc[c] = "pushing"
  /\ \/ /\ inClosed
        /\ panicked' = TRUE
        /\ UNCHANGED inbox
     \/ /\ ~inClosed /\ HasRoom
        /\ inbox' = Append(inbox, c)
        /\ UNCHANGED panicked
     \/ cut /\ UNCHANGED <<inbox, panicked>>
  /\ asked' = asked \ {c}
  /\ callPc' = [callPc EXCEPT ![c] = "waiting"]
  /\ UNCHANGED <<transport, pending, channel, reader, inClosed, client, cut, noise>>

\* The select of call: the response, or a channel that Close or the read loop closed.
Receive(c) ==
  /\ callPc[c] = "waiting"
  /\ channel[c] # "empty"
  /\ callPc' = [callPc EXCEPT ![c] = IF channel[c] = "closed" THEN "failed" ELSE "ok"]
  /\ UNCHANGED <<transport, pending, channel, reader, inbox, inClosed, asked, client, cut, noise,
                 panicked>>

\* The context of the call is over.
Deadline(c) ==
  /\ callPc[c] = "waiting"
  /\ pending' = pending \ {c}
  /\ callPc' = [callPc EXCEPT ![c] = "failed"]
  /\ UNCHANGED <<transport, channel, reader, inbox, inClosed, asked, client, cut, noise, panicked>>

-----------------------------------------------------------------------------
(* The server and the transport's goroutines *)

\* A response to any request, which the server may repeat, or noise: a notification
\* or a line that is no JSON.  The goroutine that reads the server blocks on a full
\* channel.
ServerSends(m) ==
  /\ transport # "json" /\ ~cut /\ ~inClosed
  /\ HasRoom
  /\ IF m = Noise THEN UNCHANGED asked
                  ELSE m \in asked /\ (asked' = asked \ {m} \/ asked' = asked)
  /\ noise' = IF m = Noise \/ asked' = asked THEN noise + 1 ELSE noise
  /\ noise' <= MaxNoise
  /\ inbox' = Append(inbox, m)
  /\ UNCHANGED <<transport, callPc, pending, channel, reader, inClosed, client, cut, panicked>>

\* The server exits, or its SSE stream ends: the reading goroutine closes the channel.
ServerEnds ==
  /\ transport \in {"stdio", "sse"} /\ ~inClosed
  /\ cut' = TRUE /\ inClosed' = TRUE /\ asked' = {}
  /\ UNCHANGED <<transport, callPc, pending, channel, reader, inbox, client, noise, panicked>>

-----------------------------------------------------------------------------
(* readLoop and dispatch *)

\* Mutant: the oldest call that waits is served.
FirstPending(m) == IF pending = {} THEN m ELSE CHOOSE c \in pending : TRUE

\* The call a response is for is the one with its id.
Addressee(m) == m

\* Under the lock the registration is removed.
Take(m) == pending' = pending \ {m}

\* dispatch: what has no id, or an id that nothing waits for, is dropped.
DispatchMessage ==
  /\ reader = Reading /\ inbox # <<>>
  /\ inbox' = Tail(inbox)
  /\ LET m == Addressee(Head(inbox))
     IN IF m \in pending THEN Take(m) /\ reader' = [pc |-> "handing", to |-> m, from |-> Head(inbox)]
                         ELSE UNCHANGED <<pending, reader>>
  /\ UNCHANGED <<transport, callPc, channel, inClosed, asked, client, cut, noise, panicked>>

\* The lock is free again when the response goes into the call's channel, which
\* holds one.
HandOver ==
  /\ reader.pc = "handing"
  /\ channel[reader.to] \in {"empty", "closed"}
  /\ IF channel[reader.to] = "closed"
       THEN panicked' = TRUE /\ UNCHANGED channel
       ELSE channel' = [channel EXCEPT ![reader.to] = reader.from] /\ UNCHANGED panicked
  /\ reader' = Reading
  /\ UNCHANGED <<transport, callPc, pending, inbox, inClosed, asked, client, cut, noise>>

\* Mutant: the table is emptied and its channels stay open.
DropPending == pending' = {} /\ UNCHANGED channel

\* Every registered channel is closed.
ClosePending ==
  /\ channel' = [c \in Call |-> IF c \in pending THEN "closed" ELSE channel[c]]
  /\ pending' = {}

\* The transport's channel is closed and empty: nobody will answer any more.
ReaderEnds ==
  /\ reader = Reading /\ inbox = <<>> /\ inClosed
  /\ reader' = [pc |-> "ended"]
  /\ ClosePending
  /\ UNCHANGED <<transport, callPc, inbox, inClosed, asked, client, cut, noise, panicked>>

-----------------------------------------------------------------------------
(* Close *)

\* Client.Close, under its lock.
CloseClient ==
  /\ client = "open"
  /\ client' = "closing"
  /\ ClosePending
  /\ UNCHANGED <<transport, callPc, reader, inbox, inClosed, asked, cut, noise, panicked>>

\* The transport's Close.  Streamable HTTP cancels its requests, waits for the
\* goroutines that read streams and closes the channel; SSE waits for its stream;
\* a process has its stdin closed and is killed if it does not exit.
CloseTransport ==
  /\ client = "closing"
  /\ client' = "closed" /\ cut' = TRUE /\ inClosed' = TRUE /\ asked' = {}
  /\ UNCHANGED <<transport, callPc, pending, channel, reader, inbox, noise, panicked>>

\* Everything but the deadline of a call and what the server does.
ClientStep ==
  \/ \E c \in Call : SendRequest(c) \/ SendFails(c) \/ PushJson(c) \/ Receive(c)
  \/ DispatchMessage \/ HandOver \/ ReaderEnds \/ CloseTransport

McpNext ==
  /\ ~panicked
  /\ \/ ClientStep \/ CloseClient \/ ServerEnds
     \/ \E c \in Call : Register(c) \/ Deadline(c)
     \/ \E m \in Call \cup {Noise} : ServerSends(m)

McpSpec == McpInit /\ [][McpNext]_mcpVars

-----------------------------------------------------------------------------
(* Properties *)

McpTypeOK ==
  /\ callPc \in [Call -> {"idle", "registered", "pushing", "waiting", "ok", "failed"}]
  /\ pending \subseteq Call
  /\ channel \in [Call -> Call \cup {"none", "empty", "closed"}]
  /\ Len(inbox) <= InboxCap
  /\ client \in {"open", "closing", "closed"}

\* A call that succeeds has the response to its own request, although responses
\* come in any order, late, twice and mixed with other messages.
OwnAnswer == \A c \in Call : callPc[c] = "ok" => channel[c] = c

\* The read loop never blocks on, and never writes to, a channel that Close or a
\* second response got to first, although it lets go of the lock in between.
ChannelIsFree == reader.pc = "handing" => channel[reader.to] = "empty"

\* The table of pending calls does not grow with calls that are over.
PendingIsAwaited == pending \subseteq InFlight

\* "releases anything still waiting in call()" (client.go): after Close every call
\* returns without waiting for its deadline.
CloseReleases == client # "open" ~> (InFlight = {} \/ panicked)

\* Calls, the table of pending ones and the read loop agree although the loop lets
\* go of the lock between looking a call up and handing its answer over.
CallsAreMatched == McpTypeOK /\ OwnAnswer /\ ChannelIsFree /\ PendingIsAwaited
=============================================================================
