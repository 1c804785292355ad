------------------------------ MODULE KVSystem ------------------------------
(***************************************************************************)
(* The system in operation: callers, api-shims and servers, composed.  The *)
(* behaviour begins when every server has left establish_initial_leader    *)
(* and every shim has its StartSignal; from then on servers and shims may  *)
(* be killed, callers may time out, and proposals may be lost.             *)
(*                                                                         *)
(*   caller --HTTP--> handler --cmd_rx--> shim task --to_server--> server  *)
(*   caller <--HTTP-- handler <--reply--- shim task <--to_client-- server  *)
(*                                        server --proposals--> log        *)
(***************************************************************************)
EXTENDS ApiShim, OmniPaxosServer, FiniteSets

CONSTANT WriteQuorumSize   \* initial_flexible_quorum.write_quorum_size

ASSUME WriteQuorumSizeAssumption == WriteQuorumSize \in Nat

vars == <<callerVars, shimVars, linkVars, serverVars, libraryVars>>

TypeOK == CallersTypeOK /\ ShimsTypeOK /\ LinksTypeOK /\ ServersTypeOK

Init == CallersInit /\ ShimsInit /\ LinksInit /\ ServersInit

(***************************************************************************)
(* The next-state relation, by the process that takes the step             *)
(***************************************************************************)

CallerStep(r) ==
    /\ \/ \E cmd \in HttpCommands : Invoke(r, cmd) \/ Refused(r, cmd)
       \/ Completed(r)
       \/ Indeterminate(r)
    /\ UNCHANGED <<shimVars, linkVars, serverVars, libraryVars>>

\* A handler of an HTTP request of the shim.
HandlerStep(r) == SendCommand(r) /\ UNCHANGED <<serverVars, libraryVars>>

\* The handler of a request whose caller has given up may be dropped.
HandlerGone(r) == DropHandler(r) /\ UNCHANGED <<serverVars, libraryVars>>

\* The task of the shim that owns its connection to the server.
ShimStep(sh) ==
    /\ TakePut(sh) \/ TakeGet(sh) \/ TakeWrite(sh) \/ TakeRead(sh)
    /\ UNCHANGED <<serverVars, libraryVars>>

ServerStep(n) ==
    /\ \/ \E sh \in Shims : sh[1] = n /\ HandleClientMessage(sh)
       \/ HandleDecidedEntries(n)
       \/ UpdateDatabaseAndRespond(n)
    /\ UNCHANGED <<callerVars, shimVars>>

LibraryStep ==
    /\ \E c \in proposals : Decide(c) \/ LoseProposal(c)
    /\ UNCHANGED <<callerVars, shimVars>>

\* Processes die, and the connections of dead processes break.
KillShim(sh) == CrashShim(sh) /\ UNCHANGED <<serverVars, libraryVars>>

KillServer(n) == CrashServer(n) /\ UNCHANGED <<callerVars, shimVars>>

BreakConnection(sh) ==
    /\ ResetConnection(sh)
    /\ UNCHANGED <<server_up, shim_up>>
    /\ UNCHANGED <<callerVars, shimVars, serverVars, libraryVars>>

\* Every operation has its outcome and nothing is under way any more: the
\* test of core.clj is over, and a system at rest is not a deadlock.
TestOver ==
    /\ \A r \in Requests : outcome[r] \in {"ok", "info", "fail"}
    /\ UNCHANGED vars

Next ==
    \/ \E r \in Requests : CallerStep(r) \/ HandlerStep(r) \/ HandlerGone(r)
    \/ \E sh \in Shims : ShimStep(sh) \/ KillShim(sh) \/ BreakConnection(sh)
    \/ \E n \in Servers : ServerStep(n) \/ KillServer(n)
    \/ LibraryStep
    \/ TestOver

Spec == Init /\ [][Next]_vars

(***************************************************************************)
(* Fairness.  Every tokio task that can run is polled again, and select!   *)
(* picks a ready branch at random, so no branch starves; a cmd_tx permit   *)
(* goes to the handlers in the order they asked for it.  Of the library it *)
(* is assumed that while a write quorum runs, a proposal is decided or     *)
(* lost in the end, and that the other servers hear of it.  Nothing is     *)
(* assumed of callers, dropped handlers, crashes and resets.               *)
(***************************************************************************)
QuorumUp == Cardinality({n \in Servers : server_up[n]}) >= WriteQuorumSize

HandlerIsFair(r) == WF_vars(HandlerStep(r))

ShimIsFair(sh) ==
    /\ WF_vars((TakePut(sh) \/ TakeGet(sh)) /\ UNCHANGED <<serverVars, libraryVars>>)
    /\ WF_vars((TakeWrite(sh) \/ TakeRead(sh)) /\ UNCHANGED <<serverVars, libraryVars>>)
    /\ WF_vars(HandleClientMessage(sh) /\ UNCHANGED <<callerVars, shimVars>>)

ServerIsFair(n) ==
    WF_vars((HandleDecidedEntries(n) \/ UpdateDatabaseAndRespond(n))
               /\ UNCHANGED <<callerVars, shimVars>>)

LibraryIsFair == WF_vars(QuorumUp /\ LibraryStep)

Fairness ==
    /\ \A r \in Requests : HandlerIsFair(r)
    /\ \A sh \in Shims : ShimIsFair(sh)
    /\ \A n \in Servers : ServerIsFair(n)
    /\ LibraryIsFair

FairSpec == Spec /\ Fairness

(***************************************************************************)
(* What relates the state of one part to that of another                   *)
(***************************************************************************)

\* Command c is the one that shim target[r] sent for request r.
Carries(c, r) ==
    /\ target[r] = <<c.coordinator_id, c.client_id>>
    /\ c.id + 1 \in DOMAIN issued[target[r]]
    /\ issued[target[r]][c.id + 1] = r

\* Request r has taken effect.
InLog(r) == \E i \in DOMAIN log : Carries(log[i], r)

\* The places of the log at which request r takes effect.
Effects(r) == {i \in DOMAIN log : Carries(log[i], r)}

\* What request r reads or answers when it takes effect at place i.
ResultAt(r, i) == ReadResult(replay[i], command[r])

\* The number of log entries server n has applied to its database.
Applied(n) == current_decided_idx[n] - Len(commands[n])

\* Request r is, or has been, on its way from its handler to the server.
Sent(r) ==
    \/ r \in in_flight
    \/ \E sh \in Shims : \/ \E i \in DOMAIN cmd_rx[sh] : cmd_rx[sh][i] = r
                         \/ \E i \in DOMAIN issued[sh] : issued[sh][i] = r

\* The pending map in which a response of this type is looked up.
PendingFor(sh, msg) ==
    IF msg.type = "Write" THEN pending_put[sh] ELSE pending_get[sh]

(***************************************************************************)
(* Safety                                                                  *)
(***************************************************************************)

\* State machine safety (server.rs:114-147): between any two steps of its
\* loop the database of a server is what the first Applied(n) entries of the
\* log lead to, and what it has left to apply are exactly the entries from
\* there to current_decided_idx: none skipped, repeated or reordered.
DatabaseFollowsLog ==
    \A n \in Servers :
        /\ current_decided_idx[n] <= Len(log)
        /\ Len(commands[n]) <= current_decided_idx[n]
        /\ commands[n] = SubSeq(log, Applied(n) + 1, current_decided_idx[n])
        /\ database[n] = replay[Applied(n) + 1]

\* A request takes effect at most once, although its command passes through
\* the channel of the shim, its connection, the server and the library, and
\* although CommandIds and client ids are each reused by every other shim
\* and server (api_shim.rs:92-107, server.rs:193-203): the three things a
\* command is known by say which request it is, wherever the command is.
AtMostOneEffect ==
    \A r \in Requests :
        Cardinality(Effects(r))
          + Cardinality({c \in proposals : Carries(c, r)})
          + Cardinality({i \in DOMAIN to_server[target[r]] :
                            issued[target[r]][to_server[target[r]][i].id + 1] = r})
          <= 1

\* Whoever was told :ok was told the truth: the command of the request was
\* decided, and a read returned what the log before it wrote
\* (server.rs:135-147, api_shim.rs:112-124, client.clj:35-59).
AnswersComeFromLog ==
    \A r \in Requests :
        outcome[r] = "ok" =>
            \E i \in Effects(r) : /\ log[i].kv_cmd = command[r]
                                  /\ answer[r] = ResultAt(r, i)

\* The command changes what key k holds, and to what.
Writes(cmd, k) == cmd.type # "Get" /\ cmd.key = k

Written(cmd) == IF cmd.type = "Put" THEN cmd.value ELSE NoValue

\* v is what key k holds by the commands before place i of the log alone:
\* what the last of them that writes k wrote.
LastWritten(v, k, i) ==
    \/ v = NoValue /\ \A j \in 1 .. i - 1 : ~Writes(log[j].kv_cmd, k)
    \/ \E j \in 1 .. i - 1 :
          /\ Writes(log[j].kv_cmd, k) /\ v = Written(log[j].kv_cmd)
          /\ \A m \in j + 1 .. i - 1 : ~Writes(log[m].kv_cmd, k)

\* A read that was told :ok was told what the last write to its key before it
\* wrote, 404 when there was none, whichever server, shim and database it came
\* through: no database is trusted here, neither a server's nor replay
\* (database.rs:13-24, server.rs:135-147, api_shim.rs:112-124).
ReadsSeeLastWrite ==
    \A r \in Requests :
        outcome[r] = "ok" /\ command[r].type = "Get" =>
            \E i \in Effects(r) : LastWritten(answer[r], command[r].key, i)

\* What the test calls a :fail never happened (client.clj:10, 61-63), and
\* never will: the request is nowhere on its way to the log.
FailedNeverTakesEffect ==
    \A r \in Requests : outcome[r] = "fail" => ~Sent(r)

\* A response finds exactly the handler that waits for it: while the shim
\* lives, every response on its connection has an entry in the pending map
\* of its type, no two responses have the same entry, and the entry is of a
\* request whose command the log holds (api_shim.rs:112-124).  A Read that
\* answered a Put, or a second response, would be dropped in silence.
ResponsesMatchPending ==
    \A sh \in Shims :
        shim_up[sh] =>
            /\ \A i \in DOMAIN to_client[sh] :
                  LET msg == to_client[sh][i]
                  IN /\ msg.id \in DOMAIN PendingFor(sh, msg)
                     /\ InLog(PendingFor(sh, msg)[msg.id])
            /\ \A i, j \in DOMAIN to_client[sh] :
                  to_client[sh][i].id = to_client[sh][j].id => i = j

(***************************************************************************)
(* What KVSystemProofs and KVSystemLinProofs need to make them inductive   *)
(***************************************************************************)

\* Only requests that a caller has invoked are passed on.
OnlyInvokedAreSent ==
    \A r \in Requests :
        Sent(r) => outcome[r] \in {"invoke", "ok", "info"} /\ command[r] # NoCommand

\* replay is what its name says.
ReplayFollowsLog ==
    /\ Len(replay) = Len(log) + 1
    /\ replay[1] = EmptyDatabase
    /\ \A i \in 1 .. Len(log) :
          replay[i + 1] = HandleCommand(replay[i], log[i].kv_cmd)

\* The invariant of the servers: it implies TypeOK, DatabaseFollowsLog and
\* FailedNeverTakesEffect, and every step from a state with it leads to a
\* state with it (OnlyInvokedAreSent keeps NoCommand out of the messages,
\* ReplayFollowsLog says what applying one more entry does).
ReplicationInv ==
    /\ TypeOK
    /\ OnlyInvokedAreSent
    /\ ReplayFollowsLog
    /\ DatabaseFollowsLog

\* The shim that a command comes from, and the request it stands for.
ShimOf(c) == <<c.coordinator_id, c.client_id>>

RequestOf(c) == issued[ShimOf(c)][c.id + 1]

\* The command is that of a request, and says which.
IsNamed(c) ==
    /\ c.id + 1 \in DOMAIN issued[ShimOf(c)]
    /\ c.kv_cmd = command[RequestOf(c)]

\* A request passes through its shim once.
RequestsAreIssuedOnce ==
    \A sh \in Shims :
        /\ next_request_id[sh] = Len(issued[sh])
        /\ IsInjective(issued[sh]) /\ IsInjective(cmd_rx[sh])
        /\ Range(issued[sh]) \cap Range(cmd_rx[sh]) = {}
        /\ in_flight \cap (Range(issued[sh]) \cup Range(cmd_rx[sh])) = {}
        /\ \A r \in Range(issued[sh]) \cup Range(cmd_rx[sh]) : target[r] = sh

\* Wherever it is, a command says which request it is of.
CommandsAreNamed ==
    /\ \A sh \in Shims :
          \A msg \in Range(to_server[sh]) : IsNamed(CommandOf(sh, msg))
    /\ \A c \in proposals \cup Range(log) : IsNamed(c)

\* A command is at no two places.
CommandsAreOnce ==
    /\ \A sh \in Shims :
          /\ IsInjective(to_server[sh])
          /\ \A msg \in Range(to_server[sh]) :
                CommandOf(sh, msg) \notin proposals \cup Range(log)
    /\ proposals \cap Range(log) = {}
    /\ IsInjective(log)

\* A response on its way is the result of a place of the log, and so is what a
\* handler was told.
RepliesComeFromLog ==
    /\ \A sh \in Shims : \A msg \in Range(to_client[sh]) :
          \E i \in DOMAIN log : /\ ShimOf(log[i]) = sh
                                /\ msg = Response(replay[i], log[i])
    /\ \A r \in Requests :
          reply[r] # NoReply => \E i \in Effects(r) : reply[r] = ResultAt(r, i)

\* The pending maps hold requests under the CommandIds they were issued with.
PendingAreIssued ==
    \A sh \in Shims :
        /\ \A id \in DOMAIN pending_put[sh] :
              /\ id + 1 \in DOMAIN issued[sh]
              /\ pending_put[sh][id] = issued[sh][id + 1]
              /\ command[issued[sh][id + 1]].type = "Put"
        /\ \A id \in DOMAIN pending_get[sh] :
              /\ id + 1 \in DOMAIN issued[sh]
              /\ pending_get[sh][id] = issued[sh][id + 1]
              /\ command[issued[sh][id + 1]].type = "Get"

\* The server of shim sh has applied the command with this CommandId.
AppliedId(sh, id) ==
    \E i \in 1 .. Applied(sh[1]) : ShimOf(log[i]) = sh /\ log[i].id = id

\* The CommandIds that await an answer to a Put, or to a Get.
PendingOfType(sh, type) ==
    IF type = "Get" THEN DOMAIN pending_get[sh] ELSE DOMAIN pending_put[sh]

\* A CommandId stays in its pending map until its server has applied the
\* command and the response has arrived, and there is one response to each.
PendingUntilAnswered ==
    \A sh \in Shims : shim_up[sh] =>
        /\ \A msg \in Range(to_client[sh]) : msg.id \in DOMAIN PendingFor(sh, msg)
        /\ \A i, j \in DOMAIN to_client[sh] :
              to_client[sh][i].id = to_client[sh][j].id => i = j
        /\ server_up[sh[1]] =>
              /\ \A msg \in Range(to_client[sh]) : AppliedId(sh, msg.id)
              /\ \A k \in DOMAIN issued[sh] :
                    \/ AppliedId(sh, k - 1)
                    \/ k - 1 \in PendingOfType(sh, command[issued[sh][k]].type)

\* The inductive invariant: with the names of commands, and what follows the
\* commands to the log and the answers back, it implies every invariant here.
IndInv ==
    /\ ReplicationInv
    /\ RequestsAreIssuedOnce
    /\ CommandsAreNamed
    /\ CommandsAreOnce
    /\ RepliesComeFromLog
    /\ AnswersComeFromLog
    /\ PendingAreIssued
    /\ PendingUntilAnswered

(***************************************************************************)
(* Linearizability: the system implements the atomic store.  A request     *)
(* takes effect when its command is decided.                               *)
(***************************************************************************)
LinPhase(r) ==
    CASE outcome[r] \in {"none", "fail"} -> "idle"
      [] outcome[r] = "ok"               -> "answered"
      [] OTHER -> IF InLog(r) THEN "applied" ELSE "invoked"

LinCommand(r) == IF LinPhase(r) = "idle" THEN NoCommand ELSE command[r]

\* The place of the log at which request r takes effect, and what it reads there.
EffectOf(r) == CHOOSE i \in Effects(r) : TRUE

LinResult(r) == IF ~InLog(r) THEN NoValue ELSE ResultAt(r, EffectOf(r))

Lin == INSTANCE LinearizableKV WITH
    db      <- replay[Len(replay)],
    command <- [r \in Requests |-> LinCommand(r)],
    phase   <- [r \in Requests |-> LinPhase(r)],
    result  <- [r \in Requests |-> LinResult(r)],
    answer  <- answer

\* Every behaviour of the servers, shims and callers, crashes, lost proposals
\* and time-outs included, is one of the atomic key-value store: the
\* linearizability that core.clj asks its checker for (core.clj:35-37).
Linearizable == Lin!LinSpec

(***************************************************************************)
(* Liveness                                                                *)
(***************************************************************************)

\* The request is past its shim and neither on its way nor in the log: it was
\* lost by the library or by a server that died.
Lost(r) ==
    LET sh == target[r]
    IN \E i \in DOMAIN issued[sh] :
          /\ issued[sh][i] = r
          /\ \A j \in DOMAIN to_server[sh] : to_server[sh][j].id # i - 1
          /\ \A c \in proposals : ~Carries(c, r)
          /\ ~InLog(r)

\* The handler of the request was dropped before it had passed the command
\* on: its caller timed out while cmd_tx was full.
Dropped(r) == outcome[r] = "info" /\ ~Sent(r)

\* A request is answered unless its caller gives up before its command is in
\* the channel, its shim, its server or the quorum dies, or its proposal is
\* lost: no channel, map or loop between them holds it back for ever.  Once
\* passed on it is answered whether or not its caller still waits
\* (api_shim.rs:92-124, 168, 185, client.clj:65).
EveryRequestAnswered ==
    \A r \in Requests :
        outcome[r] = "invoke" ~>
            \/ reply[r] # NoReply
            \/ Dropped(r)
            \/ ~shim_up[target[r]]
            \/ ~server_up[target[r][1]]
            \/ ~QuorumUp
            \/ Lost(r)

\* The request is owed an answer: it was accepted, has no answer yet, and none
\* of what EveryRequestAnswered excuses has come about.
IsOwed(r) ==
    LET sh == target[r]
    IN /\ outcome[r] \in {"invoke", "info"} /\ reply[r] = NoReply
       /\ shim_up[sh] /\ server_up[sh[1]] /\ QuorumUp
       /\ ~Dropped(r) /\ ~Lost(r)

\* A task between r's handler and the log has something to do.
HasWorkFor(r) ==
    LET sh == target[r]
        n  == sh[1]
    IN \/ r \in in_flight /\ Len(cmd_rx[sh]) < CmdCapacity
       \/ cmd_rx[sh] # <<>>
       \/ commands[n] = <<>> /\ to_server[sh] # <<>>
       \/ \E c \in proposals : Carries(c, r)
       \/ commands[n] = <<>> /\ current_decided_idx[n] < Len(log)
       \/ commands[n] # <<>>
       \/ to_client[sh] # <<>>

\* Why EveryRequestAnswered holds, without fairness: while a request is owed
\* its answer, a task of its own path is ready to move on.  No full channel
\* waits for itself, no CommandId is taken out of its map without its
\* response, and no applied command is left unanswered (api_shim.rs:92-124,
\* server.rs:114-147, 193-203).
OwedMeansWork == \A r \in Requests : IsOwed(r) => HasWorkFor(r)

\* The steps of handler, shim, server, library and shim again that request r
\* has still ahead, by its place: 5 at its handler, none when it is answered.
StepsAhead(r) ==
    LET sh == target[r]
    IN {k \in 1 .. 5 :
           \/ r \in in_flight
           \/ k <= 4 /\ r \in Range(cmd_rx[sh])
           \/ k <= 3 /\ \E msg \in Range(to_server[sh]) : issued[sh][msg.id + 1] = r
           \/ k <= 2 /\ \E c \in proposals : Carries(c, r)
           \/ k <= 1 /\ InLog(r) /\ reply[r] = NoReply}

\* What server n has still to take from the log and to apply.
Backlog(n) == 2 * (Len(log) - current_decided_idx[n]) + Len(commands[n])

TaskStep ==
    \/ \E r \in Requests : HandlerStep(r)
    \/ \E sh \in Shims : ShimStep(sh)
    \/ \E n \in Servers : ServerStep(n)
    \/ LibraryStep

\* The tasks cannot be busy for ever without getting anywhere: each of their
\* steps takes one off what is ahead of some request, or else off a server's
\* backlog, and no step of a task puts a request or a server back.  With
\* OwedMeansWork that is EveryRequestAnswered but for the scheduling
\* (api_shim.rs:92-124, server.rs:114-147, 193-203).
TasksMakeProgress ==
    [][TaskStep =>
          /\ \A r \in Requests : StepsAhead(r)' \subseteq StepsAhead(r)
          /\ \/ \E r \in Requests : StepsAhead(r)' # StepsAhead(r)
             \/ /\ \A n \in Servers : Backlog(n)' <= Backlog(n)
                /\ \E n \in Servers : Backlog(n)' < Backlog(n)]_vars

\* "PUT /kv/:key -> 204 on success, 500 on error" and "GET /kv/:key -> 200+body
\* on found, 404 on missing, 500 on error" (client.clj:5-6): a request to a
\* live shim whose server has died gets some response.
DeadServerIsAnError ==
    \A r \in Requests :
        (outcome[r] = "invoke" /\ ~server_up[target[r][1]]) ~>
            (reply[r] # NoReply \/ ~shim_up[target[r]])
=============================================================================
