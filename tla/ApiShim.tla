------------------------------- MODULE ApiShim -------------------------------
(***************************************************************************)
(* api_shim.rs: an HTTP front end that numbers commands, sends them to its *)
(* server, and matches the server's answers with the waiting handlers.     *)
(* The shims are past their StartSignal (module Startup has what precedes  *)
(* it).  An ApiCommand is represented by its request, which is the oneshot *)
(* reply_to it carries; its key and value are those of command[r].         *)
(***************************************************************************)
EXTENDS JepsenClient, Functions

CONSTANT CmdCapacity   \* the capacity of the cmd_tx/cmd_rx channel

ASSUME CmdCapacityAssumption == CmdCapacity \in Nat \ {0}

VARIABLES cmd_rx,           \* cmd_rx[sh]: ApiCommands the task has not taken
          next_request_id,  \* next_request_id[sh]: the next CommandId
          pending_put,      \* pending_put[sh]: CommandId -> reply_to
          pending_get,      \* pending_get[sh]: CommandId -> reply_to
          issued            \* history: issued[sh][id + 1] is the request of id

shimVars == <<cmd_rx, next_request_id, pending_put, pending_get, issued>>

\* HashMap<CommandId, oneshot::Sender>
IsPendingMap(pending) ==
    /\ DOMAIN pending \subseteq Nat
    /\ pending \in [DOMAIN pending -> Requests]

ShimsTypeOK ==
    /\ cmd_rx \in [Shims -> Seq(Requests)]
    /\ next_request_id \in [Shims -> Nat]
    /\ DOMAIN pending_put = Shims
    /\ DOMAIN pending_get = Shims
    /\ \A sh \in Shims : /\ IsPendingMap(pending_put[sh])
                        /\ IsPendingMap(pending_get[sh])
    /\ issued \in [Shims -> Seq(Requests)]

ShimsInit ==
    /\ cmd_rx = [sh \in Shims |-> <<>>]
    /\ next_request_id = [sh \in Shims |-> 0]
    /\ pending_put = [sh \in Shims |-> <<>>]
    /\ pending_get = [sh \in Shims |-> <<>>]
    /\ issued = [sh \in Shims |-> <<>>]

\* HashMap::insert
Insert(pending, id, r) ==
    [i \in DOMAIN pending \cup {id} |-> IF i = id THEN r ELSE pending[i]]

\* put_key and get_key: the handler passes the command on, waiting while the
\* channel is full.
SendCommand(r) ==
    LET sh == target[r]
    IN /\ r \in in_flight
       /\ shim_up[sh]
       /\ Len(cmd_rx[sh]) < CmdCapacity
       /\ in_flight' = in_flight \ {r}
       /\ cmd_rx' = [cmd_rx EXCEPT ![sh] = Append(@, r)]
       /\ UNCHANGED <<command, target, outcome, answer, reply>>
       /\ UNCHANGED <<next_request_id, pending_put, pending_get, issued>>
       /\ UNCHANGED linkVars

\* put_key and get_key, still waiting at the full channel: a caller that has
\* given up has closed its connection, and axum drops the handler with the
\* command it holds.  A command that was passed on goes its way.
DropHandler(r) ==
    /\ r \in in_flight
    /\ outcome[r] = "info"
    /\ in_flight' = in_flight \ {r}
    /\ UNCHANGED <<command, target, outcome, answer, reply>>
    /\ UNCHANGED <<shimVars, linkVars>>

\* Mutant: the next command gets the same CommandId.
SameId(id) == id

\* next_request_id += 1
NextId(id) == id + 1

\* What both arms for an ApiCommand do with the command they take.
IssueCommand(sh) ==
    LET r  == Head(cmd_rx[sh])
        id == next_request_id[sh]
    IN /\ cmd_rx' = [cmd_rx EXCEPT ![sh] = Tail(@)]
       /\ next_request_id' = [next_request_id EXCEPT ![sh] = NextId(id)]
       /\ issued' = [issued EXCEPT ![sh] = Append(@, r)]
       /\ SendToServer(sh, [id |-> id, kv_cmd |-> command[r]])
       /\ UNCHANGED <<server_up, shim_up, to_client>>
       /\ UNCHANGED callerVars

\* Some(ApiCommand::Put) = cmd_rx.recv()
TakePut(sh) ==
    /\ shim_up[sh]
    /\ cmd_rx[sh] # <<>>
    /\ command[Head(cmd_rx[sh])].type = "Put"
    /\ pending_put' = [pending_put EXCEPT ![sh] =
                          Insert(@, next_request_id[sh], Head(cmd_rx[sh]))]
    /\ IssueCommand(sh)
    /\ UNCHANGED pending_get

\* Some(ApiCommand::Get) = cmd_rx.recv()
TakeGet(sh) ==
    /\ shim_up[sh]
    /\ cmd_rx[sh] # <<>>
    /\ command[Head(cmd_rx[sh])].type = "Get"
    /\ pending_get' = [pending_get EXCEPT ![sh] =
                          Insert(@, next_request_id[sh], Head(cmd_rx[sh]))]
    /\ IssueCommand(sh)
    /\ UNCHANGED pending_put

\* Some(ServerMessage::Write(id)) = server_messages.recv()
TakeWrite(sh) ==
    /\ shim_up[sh]
    /\ to_client[sh] # <<>>
    /\ LET msg == Head(to_client[sh])
       IN /\ msg.type = "Write"
          /\ IF msg.id \in DOMAIN pending_put[sh]
             THEN reply' = [reply EXCEPT ![pending_put[sh][msg.id]] = NoValue]
             ELSE UNCHANGED reply
          /\ pending_put' = [pending_put EXCEPT ![sh] =
                                Restrict(@, DOMAIN @ \ {msg.id})]
    /\ to_client' = [to_client EXCEPT ![sh] = Tail(@)]
    /\ UNCHANGED <<command, target, outcome, answer, in_flight>>
    /\ UNCHANGED <<cmd_rx, next_request_id, pending_get, issued>>
    /\ UNCHANGED <<server_up, shim_up, to_server>>

\* Some(ServerMessage::Read(id, value)) = server_messages.recv()
TakeRead(sh) ==
    /\ shim_up[sh]
    /\ to_client[sh] # <<>>
    /\ LET msg == Head(to_client[sh])
       IN /\ msg.type = "Read"
          /\ IF msg.id \in DOMAIN pending_get[sh]
             THEN reply' = [reply EXCEPT ![pending_get[sh][msg.id]] = msg.value]
             ELSE UNCHANGED reply
          /\ pending_get' = [pending_get EXCEPT ![sh] =
                                Restrict(@, DOMAIN @ \ {msg.id})]
    /\ to_client' = [to_client EXCEPT ![sh] = Tail(@)]
    /\ UNCHANGED <<command, target, outcome, answer, in_flight>>
    /\ UNCHANGED <<cmd_rx, next_request_id, pending_put, issued>>
    /\ UNCHANGED <<server_up, shim_up, to_server>>

\* The shim process is killed: its channel, its maps and the HTTP requests it
\* was serving are gone.
CrashShim(sh) ==
    /\ shim_up[sh]
    /\ shim_up' = [shim_up EXCEPT ![sh] = FALSE]
    /\ cmd_rx' = [cmd_rx EXCEPT ![sh] = <<>>]
    /\ pending_put' = [pending_put EXCEPT ![sh] = <<>>]
    /\ pending_get' = [pending_get EXCEPT ![sh] = <<>>]
    /\ in_flight' = {r \in in_flight : target[r] # sh}
    /\ to_client' = [to_client EXCEPT ![sh] = <<>>]
    /\ UNCHANGED <<command, target, outcome, answer, reply>>
    /\ UNCHANGED <<next_request_id, issued, server_up, to_server>>
=============================================================================
