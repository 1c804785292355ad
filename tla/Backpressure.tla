---------------------------- MODULE Backpressure ----------------------------
(***************************************************************************)
(* One api-shim and its server with every queue between them, some bounded *)
(* and some not: the shim's task, which does nothing else while it waits   *)
(* in Network::send (api_shim.rs:83-130), the reader and writer tasks at   *)
(* both ends of the connection (client/network.rs:131-175,                 *)
(* server/network.rs:378-423), and the server's event loop                 *)
(* (server.rs:58-74).  A message is represented by the CommandId it is     *)
(* about: an Append on its way to the server, an answer on its way back.   *)
(* The other servers and OmniPaxos are one step: a proposal is decided and *)
(* the message that says so waits in cluster_messages.                     *)
(*                                                                         *)
(* Links has one stream per direction in place of all this; FifoLink says  *)
(* what that stream is, and this module implements it.                     *)
(***************************************************************************)
EXTENDS Naturals, Sequences, FiniteSets

CONSTANTS MaxCommands,      \* bound: commands the HTTP handlers pass on
          ChannelCapacity,  \* batch_size as the capacity of bounded channels
          BatchSize,        \* batch_size as the limit of recv_many
          SocketCapacity    \* messages that fit in the buffers of TCP

ASSUME MaxCommandsAssumption == MaxCommands \in Nat
ASSUME CapacityAssumption == /\ ChannelCapacity \in Nat \ {0}
                             /\ BatchSize \in Nat \ {0}
                             /\ SocketCapacity \in Nat \ {0}

VARIABLES next_request_id,    \* the shim's task
          pending,            \* keys of pending_put and pending_get together
          sending,            \* the command in Network::send, if any
          server_connection   \* the shim's slot is Some

shimVars == <<next_request_id, pending, sending, server_connection>>

VARIABLES connected,          \* the TCP connection is not broken
          outgoing_messages,  \* [d]: the channel to the writer task
          writer_task,        \* [d]: the writer task runs
          buffer,             \* [d]: the batch the writer task has taken
          socket,             \* [d]: written, not read
          incoming            \* [d]: client_messages and server_messages

connectionVars == <<connected, outgoing_messages, writer_task, buffer, socket,
                    incoming>>

VARIABLES proposals,          \* handed to OmniPaxos, not decided
          cluster_messages,   \* the channel of messages from other servers
          commands,           \* left in update_database_and_respond's loop
          client_connection   \* client_connections has the shim's connection

serverVars == <<proposals, cluster_messages, commands, client_connection>>

vars == <<shimVars, connectionVars, serverVars>>

Directions == {"to_server", "to_client"}

CommandIds == 0 .. MaxCommands - 1

TypeOK ==
    /\ next_request_id \in 0 .. MaxCommands
    /\ pending \in SUBSET CommandIds
    /\ sending \in Seq(CommandIds) /\ Len(sending) <= 1
    /\ server_connection \in BOOLEAN
    /\ connected \in BOOLEAN
    /\ outgoing_messages \in [Directions -> Seq(CommandIds)]
    /\ Len(outgoing_messages["to_server"]) <= ChannelCapacity
    /\ writer_task \in [Directions -> BOOLEAN]
    /\ buffer \in [Directions -> Seq(CommandIds)]
    /\ socket \in [Directions -> Seq(CommandIds)]
    /\ incoming \in [Directions -> Seq(CommandIds)]
    /\ \A d \in Directions : /\ Len(buffer[d]) <= BatchSize
                             /\ Len(socket[d]) <= SocketCapacity
                             /\ Len(incoming[d]) <= ChannelCapacity
    /\ proposals \in Seq(CommandIds)
    /\ cluster_messages \in Seq(CommandIds)
    /\ Len(cluster_messages) <= ChannelCapacity
    /\ commands \in Seq(CommandIds)
    /\ client_connection \in BOOLEAN

Init ==
    /\ next_request_id = 0
    /\ pending = {}
    /\ sending = <<>>
    /\ server_connection = TRUE
    /\ connected = TRUE
    /\ outgoing_messages = [d \in Directions |-> <<>>]
    /\ writer_task = [d \in Directions |-> TRUE]
    /\ buffer = [d \in Directions |-> <<>>]
    /\ socket = [d \in Directions |-> <<>>]
    /\ incoming = [d \in Directions |-> <<>>]
    /\ proposals = <<>>
    /\ cluster_messages = <<>>
    /\ commands = <<>>
    /\ client_connection = TRUE

\* What recv_many(&mut buffer, batch_size) takes of a channel, and leaves.
Batch(channel) ==
    SubSeq(channel, 1,
           IF Len(channel) < BatchSize THEN Len(channel) ELSE BatchSize)

Rest(channel) == SubSeq(channel, Len(Batch(channel)) + 1, Len(channel))

(***************************************************************************)
(* The shim's task                                                         *)
(***************************************************************************)

\* Mutant: the server's queue to a client is bounded as the shim's is.
HasRoomBounded(d) == Len(outgoing_messages[d]) < ChannelCapacity

\* Mutant: the shim's channel to its writer has no capacity either.
HasRoomUnbounded(d) == d \in Directions

\* The shim's channel to its writer is mpsc::channel(batch_size), the
\* server's is mpsc::unbounded_channel().
HasRoom(d) ==
    d = "to_client" \/ Len(outgoing_messages[d]) < ChannelCapacity

\* Mutant: a message for which there is no room is dropped (try_send).
EnterOrDrop(d, id) ==
    /\ writer_task[d]
    /\ outgoing_messages' = [outgoing_messages EXCEPT
           ![d] = IF HasRoom(d) THEN Append(@, id) ELSE @]

\* connection.send: it waits for room, and fails when the writer has ended.
EnterChannel(d, id) ==
    /\ writer_task[d]
    /\ HasRoom(d)
    /\ outgoing_messages' = [outgoing_messages EXCEPT ![d] = Append(@, id)]

\* Some(cmd) = cmd_rx.recv(): the command gets its id and its pending entry.
TakeCommand ==
    /\ sending = <<>>
    /\ next_request_id < MaxCommands
    /\ next_request_id' = next_request_id + 1
    /\ pending' = pending \cup {next_request_id}
    /\ sending' = <<next_request_id>>
    /\ UNCHANGED <<server_connection, connectionVars, serverVars>>

\* The end of Network::send: the message is in the channel, or the slot is
\* emptied and the message lost, or the slot was empty before.
SendCommand ==
    /\ sending # <<>>
    /\ sending' = <<>>
    /\ \/ /\ server_connection
          /\ EnterChannel("to_server", Head(sending))
          /\ UNCHANGED server_connection
       \/ /\ ~server_connection \/ ~writer_task["to_server"]
          /\ server_connection' = FALSE
          /\ UNCHANGED outgoing_messages
    /\ UNCHANGED <<next_request_id, pending>>
    /\ UNCHANGED <<connected, writer_task, buffer, socket, incoming,
                   serverVars>>

\* Some(server_msg) = server_messages.recv(): never while a send waits.
TakeResponse ==
    /\ sending = <<>>
    /\ incoming["to_client"] # <<>>
    /\ pending' = pending \ {Head(incoming["to_client"])}
    /\ incoming' = [incoming EXCEPT !["to_client"] = Tail(@)]
    /\ UNCHANGED <<next_request_id, sending, server_connection>>
    /\ UNCHANGED <<connected, outgoing_messages, writer_task, buffer, socket,
                   serverVars>>

(***************************************************************************)
(* The connection                                                          *)
(***************************************************************************)

\* Mutant: the writer waits until a batch is full.
HasFullBatch(d) == Len(outgoing_messages[d]) >= BatchSize

HasBatch(d) == outgoing_messages[d] # <<>>

\* The writer task: message_rx.recv_many(&mut buffer, batch_size).
TakeBatch(d) ==
    /\ writer_task[d]
    /\ buffer[d] = <<>>
    /\ HasBatch(d)
    /\ buffer' = [buffer EXCEPT ![d] = Batch(outgoing_messages[d])]
    /\ outgoing_messages' = [outgoing_messages EXCEPT ![d] = Rest(@)]
    /\ UNCHANGED <<connected, writer_task, socket, incoming, shimVars,
                   serverVars>>

\* Mutant: what was written stays in the batch (iter in place of drain).
KeepMessage(d) == UNCHANGED buffer

\* Mutant: the loop ends after one message, and drain drops the others.
DrainBatch(d) == buffer' = [buffer EXCEPT ![d] = <<>>]

\* buffer.drain(..)
DrainMessage(d) == buffer' = [buffer EXCEPT ![d] = Tail(@)]

\* writer.feed and writer.flush: one more message of the batch is written.
WriteMessage(d) ==
    /\ connected
    /\ buffer[d] # <<>>
    /\ Len(socket[d]) < SocketCapacity
    /\ socket' = [socket EXCEPT ![d] = Append(@, Head(buffer[d]))]
    /\ DrainMessage(d)
    /\ UNCHANGED <<connected, outgoing_messages, writer_task, incoming,
                   shimVars, serverVars>>

\* A write fails: the task ends, and with it the rest of the batch and all
\* that waits in its channel.
EndWriter(d) ==
    /\ ~connected
    /\ buffer[d] # <<>>
    /\ writer_task' = [writer_task EXCEPT ![d] = FALSE]
    /\ buffer' = [buffer EXCEPT ![d] = <<>>]
    /\ outgoing_messages' = [outgoing_messages EXCEPT ![d] = <<>>]
    /\ UNCHANGED <<connected, socket, incoming, shimVars, serverVars>>

\* The reader task: incoming_messages.send(m).await waits for room.
ReadMessage(d) ==
    /\ socket[d] # <<>>
    /\ Len(incoming[d]) < ChannelCapacity
    /\ incoming' = [incoming EXCEPT ![d] = Append(@, Head(socket[d]))]
    /\ socket' = [socket EXCEPT ![d] = Tail(@)]
    /\ UNCHANGED <<connected, outgoing_messages, writer_task, buffer, shimVars,
                   serverVars>>

\* The network fails between the two processes; what was written is lost.
BreakConnection ==
    /\ connected
    /\ connected' = FALSE
    /\ socket' = [d \in Directions |-> <<>>]
    /\ UNCHANGED <<outgoing_messages, writer_task, buffer, incoming, shimVars,
                   serverVars>>

(***************************************************************************)
(* The server's event loop: one task, which is in a handler while commands *)
(* is not empty.  No handler waits.                                        *)
(***************************************************************************)

\* client_messages.recv_many and handle_client_messages: every message of
\* the batch is appended to the log and the proposals leave at its end.
HandleClientMessages ==
    /\ commands = <<>>
    /\ incoming["to_server"] # <<>>
    /\ proposals' = proposals \o Batch(incoming["to_server"])
    /\ incoming' = [incoming EXCEPT !["to_server"] = Rest(@)]
    /\ UNCHANGED <<cluster_messages, commands, client_connection, shimVars>>
    /\ UNCHANGED <<connected, outgoing_messages, writer_task, buffer, socket>>

\* The other servers and the reader task of a peer's connection, which waits
\* for room as well.
Decide ==
    /\ proposals # <<>>
    /\ Len(cluster_messages) < ChannelCapacity
    /\ cluster_messages' = Append(cluster_messages, Head(proposals))
    /\ proposals' = Tail(proposals)
    /\ UNCHANGED <<commands, client_connection, shimVars, connectionVars>>

\* cluster_messages.recv_many and handle_cluster_messages.
HandleClusterMessages ==
    /\ commands = <<>>
    /\ cluster_messages # <<>>
    /\ commands' = Batch(cluster_messages)
    /\ cluster_messages' = Rest(cluster_messages)
    /\ UNCHANGED <<proposals, client_connection, shimVars, connectionVars>>

\* One iteration of update_database_and_respond, with send_to_client: a send
\* that fails removes the connection, and without one the answer is dropped.
UpdateDatabaseAndRespond ==
    /\ commands # <<>>
    /\ commands' = Tail(commands)
    /\ \/ /\ client_connection
          /\ EnterChannel("to_client", Head(commands))
          /\ UNCHANGED client_connection
       \/ /\ ~client_connection \/ ~writer_task["to_client"]
          /\ client_connection' = FALSE
          /\ UNCHANGED outgoing_messages
    /\ UNCHANGED <<proposals, cluster_messages, shimVars>>
    /\ UNCHANGED <<connected, writer_task, buffer, socket, incoming>>

ShimStep == TakeCommand \/ SendCommand \/ TakeResponse

ConnectionStep(d) ==
    TakeBatch(d) \/ WriteMessage(d) \/ EndWriter(d) \/ ReadMessage(d)

ServerStep ==
    HandleClientMessages \/ HandleClusterMessages \/ UpdateDatabaseAndRespond

Next ==
    \/ ShimStep
    \/ \E d \in Directions : ConnectionStep(d)
    \/ BreakConnection
    \/ ServerStep
    \/ Decide

Spec == Init /\ [][Next]_vars

\* Every tokio task that can go on is polled, the branches of the shim's and
\* the server's select are chosen in turn (tokio begins at a random one), and
\* the other servers go on deciding.  Nothing makes handlers pass commands on.
Fairness ==
    /\ WF_vars(SendCommand) /\ WF_vars(TakeResponse)
    /\ \A d \in Directions :
          /\ WF_vars(TakeBatch(d) \/ WriteMessage(d) \/ EndWriter(d))
          /\ WF_vars(ReadMessage(d))
    /\ WF_vars(HandleClientMessages)
    /\ WF_vars(HandleClusterMessages \/ UpdateDatabaseAndRespond)
    /\ WF_vars(Decide)

FairSpec == Spec /\ Fairness

(***************************************************************************)
(* Safety                                                                  *)
(***************************************************************************)

\* All that is under way in one direction, oldest first.
UnderWay(d) == incoming[d] \o socket[d] \o buffer[d] \o outgoing_messages[d]

Members(s) == {s[i] : i \in DOMAIN s}

\* The whole round of a command, from its answer back to its send.
Round == UnderWay("to_client") \o commands \o cluster_messages \o proposals
            \o UnderWay("to_server") \o sending

\* While the connection holds, each pending entry has its command at exactly
\* one place on its way to the server or its answer on its way back, and
\* nothing else is under way: no queue at its limit drops or repeats a
\* message, and no entry of the pending maps stays behind (api_shim.rs:95,
\* client/network.rs:131-175, server/network.rs:378-423).
PendingIsUnderWay ==
    connected => /\ Members(Round) = pending
                 /\ Len(Round) = Cardinality(pending)

\* What will still arrive: all of it, or what has been read of it when the
\* connection is broken.
Stream(d) == IF connected THEN UnderWay(d) ELSE incoming[d]

Link == INSTANCE FifoLink WITH
    Messages <- CommandIds,
    stream   <- [d \in Directions |-> Stream(d)],
    open     <- connected

\* The six queues of a connection together are what Links takes them for: one
\* stream per direction, and when the connection breaks what arrives of it
\* has no gap (client/network.rs:139-168, server/network.rs:386-416).
ConnectionIsFifo == Link!FifoSpec

(***************************************************************************)
(* Liveness                                                                *)
(***************************************************************************)

\* Network::send always comes back, so the shim's task, which takes no
\* responses meanwhile (api_shim.rs:97, 107), never waits for itself: its
\* commands fill the way to the server, and the server goes on taking them
\* only because it never waits for room on the way back
\* (server/network.rs:333, 399).
SendsComplete == sending # <<>> ~> sending = <<>>

\* The pending maps run empty again unless the connection breaks, however full
\* the queues were (the handlers pass on MaxCommands commands, so that a state
\* with nothing pending is one in which every command was answered).
EveryCommandAnswered == pending # {} ~> (pending = {} \/ ~connected)

(***************************************************************************)
(* Why they hold, without fairness: whenever something still has to move   *)
(* there is a task that can move it, and nothing moves for ever.           *)
(***************************************************************************)

\* connection.send of Network::send, or of send_to_client, does not wait.
SendReady(d, connection) == ~connection \/ ~writer_task[d] \/ HasRoom(d)

WriterReady(d) ==
    \/ writer_task[d] /\ buffer[d] = <<>> /\ outgoing_messages[d] # <<>>
    \/ buffer[d] # <<>> /\ (~connected \/ Len(socket[d]) < SocketCapacity)

ReaderReady(d) == socket[d] # <<>> /\ Len(incoming[d]) < ChannelCapacity

ServerReady ==
    \/ commands = <<>> /\ (incoming["to_server"] # <<>> \/ cluster_messages # <<>>)
    \/ commands # <<>> /\ SendReady("to_client", client_connection)

\* Some task other than the handlers can take a step.
SomeTaskIsReady ==
    \/ sending # <<>> /\ SendReady("to_server", server_connection)
    \/ sending = <<>> /\ incoming["to_client"] # <<>>
    \/ \E d \in Directions : WriterReady(d) \/ ReaderReady(d)
    \/ ServerReady
    \/ proposals # <<>> /\ Len(cluster_messages) < ChannelCapacity

\* No cycle of waiting tasks: however full the channels, the batches and the
\* socket are, a send that waits and, while the connection holds, a command
\* that is not answered have a task that can move (api_shim.rs:97, 107;
\* server/network.rs:333, 399).
NoWaitingCycle ==
    sending # <<>> \/ (connected /\ pending # {}) => SomeTaskIsReady

\* The moves that are left to i, s, b and o messages at the four places of a
\* direction, when k are left to one that is in incoming.
Moves(i, s, b, o, k) == k * i + (k + 1) * s + (k + 2) * b + (k + 3) * o

MovesOf(d, k) == Moves(Len(incoming[d]), Len(socket[d]), Len(buffer[d]),
                       Len(outgoing_messages[d]), k)

\* At most the moves that are left to all commands, those of the handlers
\* included.
MovesLeft ==
    (IF connected THEN 1 ELSE 0)
        + MovesOf("to_client", 1) + 5 * Len(commands) + 6 * Len(cluster_messages)
        + 7 * Len(proposals) + MovesOf("to_server", 8)
        + 12 * Len(sending) + 13 * (MaxCommands - next_request_id)

\* Every step brings some message nearer to its end or loses it, and none is
\* put back, repeated or tried again: with NoWaitingCycle, tasks that go on
\* whenever they can come to rest with every command answered, or with a
\* broken connection.
EveryStepIsProgress == [][MovesLeft' \in Nat /\ MovesLeft' < MovesLeft]_vars
=============================================================================
