--------------------------- MODULE OmniPaxosServer ---------------------------
(***************************************************************************)
(* server.rs: the event loop that hands its clients' commands to OmniPaxos,*)
(* applies what OmniPaxos decides to the database, in order, and answers   *)
(* the clients whose commands it coordinates.                              *)
(*                                                                         *)
(* OmniPaxos itself is a library outside this repository.  The server uses *)
(* it as a replicated log: append proposes a command, get_decided_idx and  *)
(* read_decided_suffix give every server a growing prefix of one sequence  *)
(* of decided commands.  A proposal is decided at most once; it may also   *)
(* be lost, when it is forwarded to a leader that changes or dies.         *)
(***************************************************************************)
EXTENDS Links

VARIABLES log,                  \* library: the decided commands
          replay,               \* history: the database after each of them
          proposals,            \* library: commands proposed, not yet decided
          database,             \* database[n]: the KV store of server n
          current_decided_idx,  \* current_decided_idx[n]: entries handed over
          commands              \* commands[n]: those still to be applied

libraryVars == <<log, replay, proposals>>
serverVars == <<database, current_decided_idx, commands>>

\* struct Command
Commands == [client_id : ClientIds, coordinator_id : Servers, id : Nat,
             kv_cmd : KVCommands]

ServersTypeOK ==
    /\ log \in Seq(Commands)
    /\ replay \in Seq(Databases)
    /\ proposals \in SUBSET Commands
    /\ database \in [Servers -> Databases]
    /\ current_decided_idx \in [Servers -> Nat]
    /\ commands \in [Servers -> Seq(Commands)]

ServersInit ==
    /\ log = <<>>
    /\ replay = <<EmptyDatabase>>
    /\ proposals = {}
    /\ database = [n \in Servers |-> EmptyDatabase]
    /\ current_decided_idx = [n \in Servers |-> 0]
    /\ commands = [n \in Servers |-> <<>>]

(***************************************************************************)
(* The library                                                             *)
(***************************************************************************)

\* OmniPaxos::append
Propose(c) == proposals' = proposals \cup {c}

\* A write quorum has accepted c as the next entry of the log.  What a server
\* accepted before it died still counts, so nothing is asked of server_up.
Decide(c) ==
    /\ c \in proposals
    /\ proposals' = proposals \ {c}
    /\ log' = Append(log, c)
    /\ replay' = Append(replay, HandleCommand(replay[Len(replay)], c.kv_cmd))
    /\ UNCHANGED serverVars
    /\ UNCHANGED linkVars

\* A proposal is forwarded to a leader that never gets it decided.
LoseProposal(c) ==
    /\ c \in proposals
    /\ proposals' = proposals \ {c}
    /\ UNCHANGED <<log, replay>>
    /\ UNCHANGED serverVars
    /\ UNCHANGED linkVars

(***************************************************************************)
(* The event loop.  A server whose commands[n] is not empty is inside the  *)
(* loop of update_database_and_respond and runs no other handler.          *)
(***************************************************************************)

\* Mutant: every command is taken for one of the server's first client.
CommandOfFirstClient(sh, msg) ==
    [client_id |-> CHOOSE c \in ClientIds : TRUE, coordinator_id |-> sh[1],
     id |-> msg.id, kv_cmd |-> msg.kv_cmd]

\* The log entry that append_to_log builds for a message of client sh.
CommandOf(sh, msg) ==
    [client_id |-> sh[2], coordinator_id |-> sh[1],
     id |-> msg.id, kv_cmd |-> msg.kv_cmd]

\* Mutant: reads are answered like writes.
ResponseAlwaysWrite(db, c) == [type |-> "Write", id |-> c.id]

\* Mutant: a read is answered without its value.
ResponseNoValue(db, c) ==
    [type |-> IF c.kv_cmd.type = "Get" THEN "Read" ELSE "Write", id |-> c.id]

\* What the coordinator answers, given the database before the command.
Response(db, c) ==
    IF c.kv_cmd.type = "Get"
    THEN [type |-> "Read", id |-> c.id, value |-> ReadResult(db, c.kv_cmd)]
    ELSE [type |-> "Write", id |-> c.id]

\* Mutant: a message stays in the batch after it was handled.
LeaveMessage(sh) == UNCHANGED to_server

TakeMessage(sh) == to_server' = [to_server EXCEPT ![sh] = Tail(@)]

\* Mutant: the server answers reads itself, without the log.
AnswerReadLocally(sh, c) ==
    IF c.kv_cmd.type = "Get"
    THEN SendToClient(sh, Response(database[sh[1]], c)) /\ UNCHANGED proposals
    ELSE Propose(c) /\ UNCHANGED to_client

\* Mutant: the server answers at once what it has only proposed.
AppendAndAnswer(sh, c) == Propose(c) /\ SendToClient(sh, Response(database[sh[1]], c))

\* append_to_log
AppendToLog(sh, c) == Propose(c) /\ UNCHANGED to_client

\* The loop body of handle_client_messages.
HandleClientMessage(sh) ==
    LET n == sh[1]
    IN /\ server_up[n]
       /\ commands[n] = <<>>
       /\ to_server[sh] # <<>>
       /\ TakeMessage(sh)
       /\ AppendToLog(sh, CommandOf(sh, Head(to_server[sh])))
       /\ UNCHANGED <<log, replay, server_up, shim_up>>
       /\ UNCHANGED serverVars

\* Mutant: the suffix begins one entry too early.
DecidedSuffixTooEarly(from, to) == SubSeq(log, IF from = 0 THEN 1 ELSE from, to)

\* read_decided_suffix(from), when the decided index is to.
DecidedSuffix(from, to) == SubSeq(log, from + 1, to)

\* The decided indices that are greater than the one n knows.
News(n) == current_decided_idx[n] + 1 .. Len(log)

\* Mutant: the index advances by one however many entries were read.
AdvanceByOne(n, to) ==
    current_decided_idx' = [current_decided_idx EXCEPT ![n] = @ + 1]

AdvanceTo(n, to) ==
    current_decided_idx' = [current_decided_idx EXCEPT ![n] = to]

\* handle_decided_entries, after handle_incoming moved the decided index of
\* the library at n: the new entries become the commands to apply.
HandleDecidedEntries(n) ==
    /\ server_up[n]
    /\ commands[n] = <<>>
    /\ \E new_decided_idx \in News(n) :
          /\ commands' = [commands EXCEPT ![n] =
                 DecidedSuffix(current_decided_idx[n], new_decided_idx)]
          /\ AdvanceTo(n, new_decided_idx)
    /\ UNCHANGED database
    /\ UNCHANGED libraryVars
    /\ UNCHANGED linkVars

\* Mutant: every server answers, not only the coordinator.
EveryServerAnswers(n, c) == TRUE

\* command.coordinator_id == self.id: client ids mean nothing elsewhere.
Answers(n, c) == c.coordinator_id = n

\* The loop body of update_database_and_respond.
UpdateDatabaseAndRespond(n) ==
    LET c == Head(commands[n])
    IN /\ server_up[n]
       /\ commands[n] # <<>>
       /\ commands' = [commands EXCEPT ![n] = Tail(@)]
       /\ database' = [database EXCEPT ![n] = HandleCommand(@, c.kv_cmd)]
       /\ IF Answers(n, c)
          THEN SendToClient(<<n, c.client_id>>, Response(database[n], c))
          ELSE UNCHANGED to_client
       /\ UNCHANGED <<current_decided_idx, server_up, shim_up, to_server>>
       /\ UNCHANGED libraryVars

\* The server process is killed.  Database and log storage are in memory, and
\* the process cannot join the cluster again (module Startup shows why).
CrashServer(n) ==
    /\ server_up[n]
    /\ server_up' = [server_up EXCEPT ![n] = FALSE]
    /\ database' = [database EXCEPT ![n] = EmptyDatabase]
    /\ current_decided_idx' = [current_decided_idx EXCEPT ![n] = 0]
    /\ commands' = [commands EXCEPT ![n] = <<>>]
    /\ to_server' = [sh \in Shims |-> IF sh[1] = n THEN <<>> ELSE to_server[sh]]
    /\ UNCHANGED <<shim_up, to_client>>
    /\ UNCHANGED libraryVars
=============================================================================
