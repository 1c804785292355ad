------------------------------- MODULE Links -------------------------------
(***************************************************************************)
(* The processes of the deployment and the TCP connections between each    *)
(* api-shim and its server.  Server n numbers its clients itself, from 1,  *)
(* so a client id means something only together with the server: a shim is *)
(* the pair <<server, client id>>.  Each direction of a connection is one  *)
(* FIFO stream that stands for the sender's outgoing channel, the socket,  *)
(* and the receiver's reader task and channel.                             *)
(***************************************************************************)
EXTENDS KVStore, Naturals, Sequences

CONSTANTS Servers,    \* the server processes
          ClientIds   \* the client numbers each server hands out

Shims == Servers \X ClientIds

VARIABLES server_up,  \* server_up[n]: server process n runs
          shim_up,    \* shim_up[sh]: api-shim process sh runs
          to_server,  \* to_server[sh]: ClientMessages under way to the server
          to_client   \* to_client[sh]: ServerMessages under way to the shim

linkVars == <<server_up, shim_up, to_server, to_client>>

\* enum ClientMessage, whose only variant is Append(command_id, kv_command)
ClientMessages == [id : Nat, kv_cmd : KVCommands]

\* enum ServerMessage, without the StartSignal that precedes all of these
WriteMessages == [type : {"Write"}, id : Nat]
ReadMessages  == [type : {"Read"}, id : Nat, value : Values \cup {NoValue}]
ServerMessages == WriteMessages \cup ReadMessages

LinksTypeOK ==
    /\ server_up \in [Servers -> BOOLEAN]
    /\ shim_up \in [Shims -> BOOLEAN]
    /\ to_server \in [Shims -> Seq(ClientMessages)]
    /\ to_client \in [Shims -> Seq(ServerMessages)]

LinksInit ==
    /\ server_up = [n \in Servers |-> TRUE]
    /\ shim_up = [sh \in Shims |-> TRUE]
    /\ to_server = [sh \in Shims |-> <<>>]
    /\ to_client = [sh \in Shims |-> <<>>]

\* Network::send of the shim: the message joins the stream; when the server
\* is gone it is lost, with a warning at most.
SendToServer(sh, msg) ==
    to_server' = IF server_up[sh[1]]
                 THEN [to_server EXCEPT ![sh] = Append(@, msg)]
                 ELSE to_server

\* Network::send_to_client of the server: the same in the other direction.
SendToClient(sh, msg) ==
    to_client' = IF sh \in Shims /\ shim_up[sh]
                 THEN [to_client EXCEPT ![sh] = Append(@, msg)]
                 ELSE to_client

\* What a dead process had sent may still arrive, or be lost from some point
\* on when the connection is reset.
ResetConnection(sh) ==
    \/ /\ ~server_up[sh[1]]
       /\ to_client[sh] # <<>>
       /\ to_client' = [to_client EXCEPT ![sh] = <<>>]
       /\ UNCHANGED to_server
    \/ /\ ~shim_up[sh]
       /\ to_server[sh] # <<>>
       /\ to_server' = [to_server EXCEPT ![sh] = <<>>]
       /\ UNCHANGED to_client
=============================================================================
