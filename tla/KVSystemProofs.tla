--------------------------- MODULE KVSystemProofs ---------------------------
(***************************************************************************)
(* Theorems about KVSystem, for any sets of servers, clients, requests,    *)
(* keys and values.                                                        *)
(***************************************************************************)
EXTENDS KVSystem, SequenceTheorems, TLAPS

USE NoValueAssumption, NoReplyAssumption, CmdCapacityAssumption

(***************************************************************************)
(* Lemmas about the operators the actions are built from                   *)
(***************************************************************************)

\* Applying a command to a database gives a database, and reading gives a
\* value or None.
LEMMA HandleCommandType ==
    ASSUME NEW d \in Databases, NEW cmd \in KVCommands
    PROVE  /\ HandleCommand(d, cmd) \in Databases
           /\ ReadResult(d, cmd) \in Values \cup {NoValue}
BY DEF Databases, KVCommands, PutCommands, DeleteCommands, GetCommands,
       HandleCommand, ReadResult

\* A stream of messages stays one when a message is sent or taken.
LEMMA StreamType ==
    ASSUME NEW M, NEW S, NEW q \in [S -> Seq(M)], NEW s \in S
    PROVE  /\ \A m \in M : [q EXCEPT ![s] = Append(q[s], m)] \in [S -> Seq(M)]
           /\ q[s] # <<>> => /\ Head(q[s]) \in M
                             /\ [q EXCEPT ![s] = Tail(q[s])] \in [S -> Seq(M)]
           /\ [q EXCEPT ![s] = <<>>] \in [S -> Seq(M)]
BY HeadTailProperties, AppendProperties

\* What the server answers is a message of the right type.
LEMMA ResponseType ==
    ASSUME NEW d \in Databases, NEW c \in Commands
    PROVE  Response(d, c) \in ServerMessages
<1>1. c.kv_cmd \in KVCommands /\ c.id \in Nat
  BY DEF Commands
<1>2. ReadResult(d, c.kv_cmd) \in Values \cup {NoValue}
  BY <1>1, HandleCommandType
<1>. QED
  BY <1>1, <1>2 DEF Response, ServerMessages, WriteMessages, ReadMessages

\* Sending preserves the types of the streams.
LEMMA SendToServerType ==
    ASSUME LinksTypeOK, NEW sh \in Shims, NEW msg \in ClientMessages,
           SendToServer(sh, msg)
    PROVE  to_server' \in [Shims -> Seq(ClientMessages)]
BY StreamType DEF LinksTypeOK, SendToServer

LEMMA SendToClientType ==
    ASSUME LinksTypeOK, NEW sh, NEW msg \in ServerMessages,
           SendToClient(sh, msg)
    PROVE  to_client' \in [Shims -> Seq(ServerMessages)]
BY StreamType DEF LinksTypeOK, SendToClient

\* Inserting into and removing from a pending map keep it one.
LEMMA PendingMapType ==
    ASSUME NEW p, IsPendingMap(p), NEW id \in Nat
    PROVE  /\ \A r \in Requests : IsPendingMap(Insert(p, id, r))
           /\ IsPendingMap(Restrict(p, DOMAIN p \ {id}))
           /\ IsPendingMap(<<>>)
           /\ id \in DOMAIN p => p[id] \in Requests
BY DEF IsPendingMap, Insert, Restrict

(***************************************************************************)
(* Type correctness, action by action                                      *)
(***************************************************************************)

\* Callers only touch their own variables.
LEMMA CallerStepType ==
    ASSUME TypeOK, NEW r \in Requests, CallerStep(r)
    PROVE  TypeOK'
<1>1. UNCHANGED <<shimVars, linkVars, serverVars, libraryVars>>
  BY DEF CallerStep
<1>2. ShimsTypeOK' /\ LinksTypeOK' /\ ServersTypeOK'
  BY <1>1 DEF TypeOK, ShimsTypeOK, LinksTypeOK, ServersTypeOK,
              shimVars, linkVars, serverVars, libraryVars
<1>3. CallersTypeOK'
  <2>1. CASE \E cmd \in HttpCommands : Invoke(r, cmd) \/ Refused(r, cmd)
    BY <2>1 DEF TypeOK, CallersTypeOK, Invoke, Refused, Outcomes
  <2>2. CASE Completed(r)
    BY <2>2 DEF TypeOK, CallersTypeOK, Completed, Outcomes, Replies
  <2>3. CASE Indeterminate(r)
    BY <2>3 DEF TypeOK, CallersTypeOK, Indeterminate, Outcomes
  <2>. QED
    BY <2>1, <2>2, <2>3 DEF CallerStep
<1>. QED
  BY <1>2, <1>3 DEF TypeOK

\* A handler moves a request from in_flight to the channel.
LEMMA HandlerStepType ==
    ASSUME TypeOK, NEW r \in Requests, HandlerStep(r)
    PROVE  TypeOK'
<1>1. target[r] \in Shims
  BY DEF TypeOK, CallersTypeOK
<1>2. cmd_rx' \in [Shims -> Seq(Requests)]
  BY <1>1, StreamType DEF TypeOK, ShimsTypeOK, HandlerStep, SendCommand
<1>3. CallersTypeOK'
  BY DEF TypeOK, CallersTypeOK, HandlerStep, SendCommand
<1>4. ShimsTypeOK'
  BY <1>2 DEF TypeOK, ShimsTypeOK, HandlerStep, SendCommand
<1>5. LinksTypeOK' /\ ServersTypeOK'
  BY DEF TypeOK, LinksTypeOK, ServersTypeOK, HandlerStep, SendCommand,
         linkVars, serverVars, libraryVars
<1>. QED
  BY <1>3, <1>4, <1>5 DEF TypeOK

\* A handler that is dropped takes its request out of in_flight.
LEMMA HandlerGoneType ==
    ASSUME TypeOK, NEW r \in Requests, HandlerGone(r)
    PROVE  TypeOK'
BY DEF HandlerGone, DropHandler, TypeOK, CallersTypeOK, ShimsTypeOK, LinksTypeOK,
       ServersTypeOK, shimVars, linkVars, serverVars, libraryVars

\* What a shim takes from its channel is a request with a command, because
\* only invoked requests are sent.
LEMMA IssueCommandType ==
    ASSUME TypeOK, OnlyInvokedAreSent,
           NEW sh \in Shims, cmd_rx[sh] # <<>>, IssueCommand(sh)
    PROVE  /\ CallersTypeOK' /\ LinksTypeOK'
           /\ Head(cmd_rx[sh]) \in Requests
           /\ next_request_id[sh] \in Nat
           /\ cmd_rx' \in [Shims -> Seq(Requests)]
           /\ next_request_id' \in [Shims -> Nat]
           /\ issued' \in [Shims -> Seq(Requests)]
<1> DEFINE r == Head(cmd_rx[sh])
           id == next_request_id[sh]
<1>1. r \in Requests /\ id \in Nat /\ cmd_rx' \in [Shims -> Seq(Requests)]
  BY StreamType DEF TypeOK, ShimsTypeOK, IssueCommand
<1>2. command[r] # NoCommand
  <2>1. 1 \in DOMAIN cmd_rx[sh] /\ cmd_rx[sh][1] = r
    BY DEF TypeOK, ShimsTypeOK
  <2>. QED
    BY <1>1, <2>1 DEF OnlyInvokedAreSent, Sent
<1>3. [id |-> id, kv_cmd |-> command[r]] \in ClientMessages
  BY <1>1, <1>2 DEF TypeOK, CallersTypeOK, ClientMessages, HttpCommands, KVCommands
<1>4. to_server' \in [Shims -> Seq(ClientMessages)]
  BY <1>3, SendToServerType DEF TypeOK, IssueCommand
<1>5. next_request_id' \in [Shims -> Nat]
  BY <1>1 DEF TypeOK, ShimsTypeOK, IssueCommand, NextId
<1>6. issued' \in [Shims -> Seq(Requests)]
  BY <1>1, StreamType DEF TypeOK, ShimsTypeOK, IssueCommand
<1>7. CallersTypeOK'
  BY DEF TypeOK, CallersTypeOK, IssueCommand, callerVars
<1>8. LinksTypeOK'
  BY <1>4 DEF TypeOK, LinksTypeOK, IssueCommand
<1>. QED
  BY <1>1, <1>5, <1>6, <1>7, <1>8

\* The task of a shim: the two arms for commands, the two for answers.
LEMMA ShimStepType ==
    ASSUME TypeOK, OnlyInvokedAreSent, NEW sh \in Shims, ShimStep(sh)
    PROVE  TypeOK'
<1>1. ServersTypeOK'
  BY DEF TypeOK, ServersTypeOK, ShimStep, serverVars, libraryVars
<1>2. CASE TakePut(sh) \/ TakeGet(sh)
  <2>1. cmd_rx[sh] # <<>> /\ IssueCommand(sh)
    BY <1>2 DEF TakePut, TakeGet
  <2>2. Head(cmd_rx[sh]) \in Requests /\ next_request_id[sh] \in Nat
    BY <2>1, IssueCommandType
  <2>3. /\ IsPendingMap(Insert(pending_put[sh], next_request_id[sh], Head(cmd_rx[sh])))
        /\ IsPendingMap(Insert(pending_get[sh], next_request_id[sh], Head(cmd_rx[sh])))
    BY <2>2, PendingMapType DEF TypeOK, ShimsTypeOK
  <2>4. /\ DOMAIN pending_put' = Shims /\ DOMAIN pending_get' = Shims
        /\ \A t \in Shims : IsPendingMap(pending_put'[t]) /\ IsPendingMap(pending_get'[t])
    BY <1>2, <2>3 DEF TypeOK, ShimsTypeOK, TakePut, TakeGet
  <2>. QED
    BY <1>1, <2>1, <2>4, IssueCommandType DEF TypeOK, ShimsTypeOK
<1>3. CASE TakeWrite(sh)
  <2>1. Head(to_client[sh]) \in ServerMessages /\ Head(to_client[sh]).id \in Nat
    BY <1>3, StreamType DEF TakeWrite, TypeOK, LinksTypeOK,
                            ServerMessages, WriteMessages, ReadMessages
  <2>2. to_client' \in [Shims -> Seq(ServerMessages)]
    BY <1>3, StreamType DEF TakeWrite, TypeOK, LinksTypeOK
  <2>3. CallersTypeOK'
    BY <1>3, <2>1, PendingMapType
       DEF TakeWrite, TypeOK, CallersTypeOK, ShimsTypeOK, Replies
  <2>4. ShimsTypeOK'
    BY <1>3, <2>1, PendingMapType DEF TakeWrite, TypeOK, ShimsTypeOK
  <2>5. LinksTypeOK'
    BY <1>3, <2>2 DEF TakeWrite, TypeOK, LinksTypeOK
  <2>. QED
    BY <1>1, <2>3, <2>4, <2>5 DEF TypeOK
<1>4. CASE TakeRead(sh)
  <2>1. /\ Head(to_client[sh]) \in ReadMessages
        /\ Head(to_client[sh]).id \in Nat
        /\ Head(to_client[sh]).value \in Replies
    BY <1>4, StreamType DEF TakeRead, TypeOK, LinksTypeOK, Replies,
                            ServerMessages, WriteMessages, ReadMessages
  <2>2. to_client' \in [Shims -> Seq(ServerMessages)]
    BY <1>4, StreamType DEF TakeRead, TypeOK, LinksTypeOK
  <2>3. CallersTypeOK'
    BY <1>4, <2>1, PendingMapType
       DEF TakeRead, TypeOK, CallersTypeOK, ShimsTypeOK
  <2>4. ShimsTypeOK'
    BY <1>4, <2>1, PendingMapType DEF TakeRead, TypeOK, ShimsTypeOK
  <2>5. LinksTypeOK'
    BY <1>4, <2>2 DEF TakeRead, TypeOK, LinksTypeOK
  <2>. QED
    BY <1>1, <2>3, <2>4, <2>5 DEF TypeOK
<1>. QED
  BY <1>2, <1>3, <1>4 DEF ShimStep

\* The event loop of a server.
LEMMA ServerStepType ==
    ASSUME TypeOK, NEW n \in Servers, ServerStep(n)
    PROVE  TypeOK'
<1>1. CallersTypeOK' /\ ShimsTypeOK'
  BY DEF TypeOK, CallersTypeOK, ShimsTypeOK, ServerStep, callerVars, shimVars
<1>2. CASE \E sh \in Shims : sh[1] = n /\ HandleClientMessage(sh)
  <2>. PICK sh \in Shims : HandleClientMessage(sh)
    BY <1>2
  <2>1. Head(to_server[sh]) \in ClientMessages
    BY StreamType DEF HandleClientMessage, TakeMessage, AppendToLog, TypeOK, LinksTypeOK
  <2>2. sh[1] \in Servers /\ sh[2] \in ClientIds
    BY DEF Shims
  <2>3. CommandOf(sh, Head(to_server[sh])) \in Commands
    BY <2>1, <2>2 DEF CommandOf, Commands, ClientMessages
  <2>4. to_server' \in [Shims -> Seq(ClientMessages)]
    BY StreamType DEF HandleClientMessage, TakeMessage, AppendToLog, TypeOK, LinksTypeOK
  <2>5. LinksTypeOK'
    BY <2>4 DEF HandleClientMessage, TakeMessage, AppendToLog, TypeOK, LinksTypeOK
  <2>6. ServersTypeOK'
    BY <2>3 DEF HandleClientMessage, TakeMessage, AppendToLog, Propose, TypeOK,
                ServersTypeOK, serverVars
  <2>. QED
    BY <1>1, <2>5, <2>6 DEF TypeOK
<1>3. CASE HandleDecidedEntries(n)
  <2>. PICK idx \in current_decided_idx[n] + 1 .. Len(log) :
          /\ commands' = [commands EXCEPT ![n] =
                              DecidedSuffix(current_decided_idx[n], idx)]
          /\ current_decided_idx' = [current_decided_idx EXCEPT ![n] = idx]
    BY <1>3 DEF HandleDecidedEntries, News, AdvanceTo
  <2>1. DecidedSuffix(current_decided_idx[n], idx) \in Seq(Commands)
    BY SubSeqProperties DEF DecidedSuffix, TypeOK, ServersTypeOK
  <2>2. ServersTypeOK'
    BY <1>3, <2>1 DEF HandleDecidedEntries, News, AdvanceTo, TypeOK, ServersTypeOK,
                      libraryVars
  <2>3. LinksTypeOK'
    BY <1>3 DEF HandleDecidedEntries, News, AdvanceTo, TypeOK, LinksTypeOK, linkVars
  <2>. QED
    BY <1>1, <2>2, <2>3 DEF TypeOK
<1>4. CASE UpdateDatabaseAndRespond(n)
  <2> DEFINE c == Head(commands[n])
  <2>1. c \in Commands /\ database[n] \in Databases
    BY <1>4, StreamType DEF UpdateDatabaseAndRespond, TypeOK, ServersTypeOK
  <2>2. commands' \in [Servers -> Seq(Commands)]
    BY <1>4, StreamType DEF UpdateDatabaseAndRespond, TypeOK, ServersTypeOK
  <2>3. database' \in [Servers -> Databases]
    BY <1>4, <2>1, HandleCommandType
       DEF UpdateDatabaseAndRespond, TypeOK, ServersTypeOK, Commands
  <2>4. to_client' \in [Shims -> Seq(ServerMessages)]
    <3>1. CASE Answers(n, c)
      BY <1>4, <2>1, <3>1, ResponseType, SendToClientType
         DEF UpdateDatabaseAndRespond, TypeOK
    <3>2. CASE ~Answers(n, c)
      BY <1>4, <3>2 DEF UpdateDatabaseAndRespond, TypeOK, LinksTypeOK
    <3>. QED
      BY <3>1, <3>2
  <2>5. ServersTypeOK'
    BY <1>4, <2>2, <2>3
       DEF UpdateDatabaseAndRespond, TypeOK, ServersTypeOK, libraryVars
  <2>6. LinksTypeOK'
    BY <1>4, <2>4 DEF UpdateDatabaseAndRespond, TypeOK, LinksTypeOK
  <2>. QED
    BY <1>1, <2>5, <2>6 DEF TypeOK
<1>. QED
  BY <1>2, <1>3, <1>4 DEF ServerStep

\* The library, and the deaths of processes.
LEMMA LibraryStepType ==
    ASSUME TypeOK, ReplayFollowsLog, LibraryStep
    PROVE  TypeOK'
<1>1. CallersTypeOK' /\ ShimsTypeOK' /\ LinksTypeOK'
  BY DEF TypeOK, CallersTypeOK, ShimsTypeOK, LinksTypeOK, LibraryStep,
         Decide, LoseProposal, callerVars, shimVars, linkVars
<1>. PICK c \in proposals : Decide(c) \/ LoseProposal(c)
  BY DEF LibraryStep
<1>2. c \in Commands /\ c.kv_cmd \in KVCommands
  BY DEF TypeOK, ServersTypeOK, Commands
<1>3. CASE Decide(c)
  <2>1. replay[Len(replay)] \in Databases
    BY DEF TypeOK, ServersTypeOK, ReplayFollowsLog
  <2>2. log' \in Seq(Commands) /\ replay' \in Seq(Databases)
    BY <1>2, <1>3, <2>1, HandleCommandType, AppendProperties
       DEF Decide, TypeOK, ServersTypeOK
  <2>. QED
    BY <1>1, <1>3, <2>2 DEF Decide, TypeOK, ServersTypeOK, serverVars
<1>4. CASE LoseProposal(c)
  BY <1>1, <1>4 DEF LoseProposal, TypeOK, ServersTypeOK, serverVars
<1>. QED
  BY <1>3, <1>4

LEMMA KillShimType ==
    ASSUME TypeOK, NEW sh \in Shims, KillShim(sh)
    PROVE  TypeOK'
<1>1. ServersTypeOK'
  BY DEF TypeOK, ServersTypeOK, KillShim, serverVars, libraryVars
<1>2. CallersTypeOK'
  BY DEF TypeOK, CallersTypeOK, KillShim, CrashShim
<1>3. ShimsTypeOK'
  BY StreamType, PendingMapType DEF TypeOK, ShimsTypeOK, KillShim, CrashShim
<1>4. LinksTypeOK'
  BY StreamType DEF TypeOK, LinksTypeOK, KillShim, CrashShim
<1>. QED
  BY <1>1, <1>2, <1>3, <1>4 DEF TypeOK

LEMMA KillServerType ==
    ASSUME TypeOK, NEW n \in Servers, KillServer(n)
    PROVE  TypeOK'
<1>1. CallersTypeOK' /\ ShimsTypeOK'
  BY DEF TypeOK, CallersTypeOK, ShimsTypeOK, KillServer, callerVars, shimVars
<1>2. LinksTypeOK'
  BY DEF TypeOK, LinksTypeOK, KillServer, CrashServer
<1>3. ServersTypeOK'
  BY DEF TypeOK, ServersTypeOK, KillServer, CrashServer, libraryVars,
         EmptyDatabase, Databases
<1>. QED
  BY <1>1, <1>2, <1>3 DEF TypeOK

LEMMA BreakConnectionType ==
    ASSUME TypeOK, NEW sh \in Shims, BreakConnection(sh)
    PROVE  TypeOK'
<1>1. /\ [to_client EXCEPT ![sh] = <<>>] \in [Shims -> Seq(ServerMessages)]
      /\ [to_server EXCEPT ![sh] = <<>>] \in [Shims -> Seq(ClientMessages)]
  BY StreamType DEF TypeOK, LinksTypeOK
<1>2. LinksTypeOK'
  BY <1>1 DEF TypeOK, LinksTypeOK, BreakConnection, ResetConnection
<1>. QED
  BY <1>2 DEF TypeOK, CallersTypeOK, ShimsTypeOK, ServersTypeOK, BreakConnection,
              callerVars, shimVars, serverVars, libraryVars

\* Every step preserves the types.
LEMMA NextType ==
    ASSUME TypeOK, OnlyInvokedAreSent, ReplayFollowsLog, [Next]_vars
    PROVE  TypeOK'
<1>1. CASE \E r \in Requests : CallerStep(r) \/ HandlerStep(r) \/ HandlerGone(r)
  BY <1>1, CallerStepType, HandlerStepType, HandlerGoneType
<1>2. CASE \E sh \in Shims : ShimStep(sh) \/ KillShim(sh) \/ BreakConnection(sh)
  BY <1>2, ShimStepType, KillShimType, BreakConnectionType
<1>3. CASE \E n \in Servers : ServerStep(n) \/ KillServer(n)
  BY <1>3, ServerStepType, KillServerType
<1>4. CASE LibraryStep
  BY <1>4, LibraryStepType
<1>5. CASE TestOver \/ UNCHANGED vars
  BY <1>5 DEF TestOver, vars, callerVars, shimVars, linkVars, serverVars,
              libraryVars, TypeOK, CallersTypeOK, ShimsTypeOK, LinksTypeOK,
              ServersTypeOK
<1>. QED
  BY <1>1, <1>2, <1>3, <1>4, <1>5 DEF Next

(***************************************************************************)
(* Only invoked requests are sent.  What is sent is sent for good, and a   *)
(* request that was invoked never becomes a :fail again.                   *)
(***************************************************************************)

\* The steps that neither send a request nor settle its outcome.
LEMMA SentFrame ==
    ASSUME OnlyInvokedAreSent, UNCHANGED <<outcome, command>>,
           \A r \in Requests : Sent(r)' => Sent(r)
    PROVE  OnlyInvokedAreSent'
BY DEF OnlyInvokedAreSent

\* No process but a caller makes a request count as sent that did not before.
LEMMA SentStable ==
    ASSUME TypeOK, NEW r \in Requests,
           \/ \E q \in Requests : HandlerStep(q) \/ HandlerGone(q)
           \/ \E sh \in Shims : ShimStep(sh) \/ KillShim(sh) \/ BreakConnection(sh)
           \/ \E n \in Servers : ServerStep(n) \/ KillServer(n)
           \/ LibraryStep,
           Sent(r)'
    PROVE  Sent(r)
<1>0. CASE \E q \in Requests : HandlerGone(q)
  BY <1>0 DEF HandlerGone, DropHandler, shimVars, Sent
<1>1. CASE \E q \in Requests : HandlerStep(q)
  <2>. PICK q \in Requests : HandlerStep(q)
    BY <1>1
  <2>1. CASE r = q
    BY <2>1 DEF HandlerStep, SendCommand, Sent
  <2>2. CASE r # q
    <3>1. target[q] \in Shims
      BY DEF TypeOK, CallersTypeOK
    <3>2. \A sh \in Shims : \A i \in DOMAIN cmd_rx'[sh] :
             cmd_rx'[sh][i] = r => \E j \in DOMAIN cmd_rx[sh] : cmd_rx[sh][j] = r
      BY <2>2, <3>1, AppendProperties
         DEF HandlerStep, SendCommand, TypeOK, ShimsTypeOK
    <3>. QED
      BY <3>2 DEF HandlerStep, SendCommand, Sent
  <2>. QED
    BY <2>1, <2>2
<1>2. CASE \E sh \in Shims : ShimStep(sh)
  <2>. PICK sh \in Shims : ShimStep(sh)
    BY <1>2
  <2>1. CASE TakePut(sh) \/ TakeGet(sh)
    <3>1. cmd_rx[sh] # <<>> /\ IssueCommand(sh)
      BY <2>1 DEF TakePut, TakeGet
    <3>. /\ cmd_rx \in [Shims -> Seq(Requests)]
         /\ issued \in [Shims -> Seq(Requests)]
      BY DEF TypeOK, ShimsTypeOK
    <3>2. \A t \in Shims : \A i \in DOMAIN cmd_rx'[t] :
             \E j \in DOMAIN cmd_rx[t] : cmd_rx[t][j] = cmd_rx'[t][i]
      <4>. TAKE t \in Shims
      <4>1. cmd_rx'[t] = IF t = sh THEN Tail(cmd_rx[t]) ELSE cmd_rx[t]
        BY <3>1 DEF IssueCommand
      <4>. QED
        BY <3>1, <4>1, HeadTailProperties
    <3>3. \A t \in Shims : \A i \in DOMAIN issued'[t] :
             \/ \E j \in DOMAIN issued[t] : issued[t][j] = issued'[t][i]
             \/ \E j \in DOMAIN cmd_rx[t] : cmd_rx[t][j] = issued'[t][i]
      <4>. TAKE t \in Shims
      <4>1. issued'[t] = IF t = sh THEN Append(issued[t], Head(cmd_rx[t]))
                         ELSE issued[t]
        BY <3>1 DEF IssueCommand
      <4>2. t = sh => Head(cmd_rx[t]) = cmd_rx[t][1] /\ 1 \in DOMAIN cmd_rx[t]
        BY <3>1
      <4>3. CASE t = sh
        <5>1. /\ issued[t] \in Seq(Requests) /\ Head(cmd_rx[t]) \in Requests
              /\ issued'[t] = Append(issued[t], Head(cmd_rx[t]))
          BY <3>1, <4>1, <4>3
        <5>. DEFINE s == issued[t]
                    new == Append(s, Head(cmd_rx[t]))
        <5>2. \A i \in DOMAIN new : \/ i \in DOMAIN s /\ s[i] = new[i]
                                   \/ new[i] = Head(cmd_rx[t])
          <6>. HIDE DEF s
          <6>. QED
            BY <5>1, AppendProperties
        <5>. QED
          BY <4>2, <4>3, <5>1, <5>2
      <4>. QED
        BY <4>1, <4>3
    <3>. QED
      BY <3>1, <3>2, <3>3 DEF IssueCommand, callerVars, Sent
  <2>2. CASE TakeWrite(sh) \/ TakeRead(sh)
    BY <2>2 DEF TakeWrite, TakeRead, Sent
  <2>. QED
    BY <2>1, <2>2 DEF ShimStep
<1>3. CASE \E sh \in Shims : KillShim(sh)
  BY <1>3 DEF KillShim, CrashShim, Sent, TypeOK, ShimsTypeOK
<1>4. CASE UNCHANGED <<callerVars, shimVars>>
  BY <1>4 DEF callerVars, shimVars, Sent
<1>. QED
  BY <1>0, <1>1, <1>2, <1>3, <1>4 DEF BreakConnection, ServerStep, KillServer,
                                      LibraryStep

LEMMA OnlyInvokedAreSentStep ==
    ASSUME TypeOK, OnlyInvokedAreSent, [Next]_vars
    PROVE  OnlyInvokedAreSent'
<1>1. CASE \E r \in Requests : CallerStep(r)
  <2>. PICK r \in Requests : CallerStep(r)
    BY <1>1
  <2>. SUFFICES ASSUME NEW q \in Requests, Sent(q)'
                PROVE  outcome'[q] \in {"invoke", "ok", "info"} /\ command'[q] # NoCommand
    BY DEF OnlyInvokedAreSent
  <2>1. Sent(q) \/ (q = r /\ r \in in_flight')
    BY DEF CallerStep, Invoke, Refused, Completed, Indeterminate, Sent, shimVars
  <2>2. CASE \E cmd \in HttpCommands : Invoke(r, cmd)
    <3>1. \A cmd \in HttpCommands : cmd # NoCommand
      BY NoCommandAssumption DEF HttpCommands, KVCommands
    <3>. QED
      BY <2>1, <2>2, <3>1 DEF Invoke, TypeOK, CallersTypeOK, OnlyInvokedAreSent
  <2>3. CASE \E cmd \in HttpCommands : Refused(r, cmd)
    BY <2>1, <2>3 DEF Refused, TypeOK, CallersTypeOK, OnlyInvokedAreSent, Sent
  <2>4. CASE Completed(r) \/ Indeterminate(r)
    BY <2>1, <2>4 DEF Completed, Indeterminate, TypeOK, CallersTypeOK,
                      OnlyInvokedAreSent, Sent
  <2>. QED
    BY <2>2, <2>3, <2>4 DEF CallerStep
<1>2. CASE TestOver \/ UNCHANGED vars
  BY <1>2 DEF TestOver, vars, callerVars, shimVars, OnlyInvokedAreSent, Sent
<1>3. CASE \/ \E r \in Requests : HandlerStep(r) \/ HandlerGone(r)
           \/ \E sh \in Shims : ShimStep(sh) \/ KillShim(sh) \/ BreakConnection(sh)
           \/ \E n \in Servers : ServerStep(n) \/ KillServer(n)
           \/ LibraryStep
  <2>1. UNCHANGED <<outcome, command>>
    BY <1>3 DEF HandlerStep, HandlerGone, SendCommand, DropHandler, ShimStep, TakePut,
                TakeGet, IssueCommand,
                TakeWrite, TakeRead, KillShim, CrashShim, BreakConnection,
                ServerStep, KillServer, LibraryStep, callerVars
  <2>. QED
    BY <1>3, <2>1, SentStable, SentFrame
<1>. QED
  BY <1>1, <1>2, <1>3 DEF Next

(***************************************************************************)
(* State machine safety                                                    *)
(***************************************************************************)

\* A segment of a sequence is not changed by what is appended after it.
LEMMA SubSeqOfAppend ==
    ASSUME NEW S, NEW s \in Seq(S), NEW x \in S,
           NEW a \in Nat, NEW b \in Nat, b <= Len(s)
    PROVE  SubSeq(Append(s, x), a + 1, b) = SubSeq(s, a + 1, b)
BY AppendProperties

\* The log grows by one entry, and the replay by its effect.
LEMMA ReplayFollowsLogStep ==
    ASSUME TypeOK, ReplayFollowsLog, [Next]_vars
    PROVE  ReplayFollowsLog'
<1>1. CASE LibraryStep /\ log' # log
  <2>. PICK c \in proposals : Decide(c)
    BY <1>1 DEF LibraryStep, LoseProposal
  <2>1. /\ log' = Append(log, c)
        /\ replay' = Append(replay, HandleCommand(replay[Len(replay)], c.kv_cmd))
    BY DEF Decide
  <2>2. log \in Seq(Commands) /\ replay \in Seq(Databases)
    BY DEF TypeOK, ServersTypeOK
  <2>. QED
    BY <2>1, <2>2 DEF ReplayFollowsLog
<1>2. CASE UNCHANGED <<log, replay>>
  BY <1>2 DEF ReplayFollowsLog
<1>3. LibraryStep /\ log' = log => UNCHANGED <<log, replay>>
  BY DEF LibraryStep, Decide, LoseProposal, TypeOK, ServersTypeOK
<1>4. [Next]_vars => LibraryStep \/ UNCHANGED <<log, replay>>
  BY DEF Next, CallerStep, HandlerStep, HandlerGone, ShimStep, ServerStep,
         HandleClientMessage,
         TakeMessage, AppendToLog,
         HandleDecidedEntries, News, AdvanceTo, UpdateDatabaseAndRespond, KillShim,
         KillServer,
         CrashServer, BreakConnection, TestOver, vars, libraryVars
<1>. QED
  BY <1>1, <1>2, <1>3, <1>4

\* Who does not touch the log, the database or the loop of a server.
LEMMA DatabaseFollowsLogFrame ==
    ASSUME DatabaseFollowsLog, UNCHANGED <<log, replay, serverVars>>
    PROVE  DatabaseFollowsLog'
BY DEF DatabaseFollowsLog, Applied, serverVars

\* A new decision is beyond what every server has been handed.
LEMMA DecideKeepsDatabases ==
    ASSUME TypeOK, ReplayFollowsLog, DatabaseFollowsLog,
           NEW c \in proposals, Decide(c)
    PROVE  DatabaseFollowsLog'
<1>1. /\ log \in Seq(Commands) /\ replay \in Seq(Databases) /\ c \in Commands
      /\ \A n \in Servers : current_decided_idx[n] \in Nat /\ Len(commands[n]) \in Nat
  BY DEF TypeOK, ServersTypeOK
<1>2. /\ log' = Append(log, c) /\ UNCHANGED serverVars
      /\ replay' = Append(replay, HandleCommand(replay[Len(replay)], c.kv_cmd))
  BY DEF Decide
<1>. SUFFICES ASSUME NEW n \in Servers
              PROVE  /\ current_decided_idx[n] <= Len(log')
                     /\ Len(commands[n]) <= current_decided_idx[n]
                     /\ commands[n] = SubSeq(log', Applied(n) + 1, current_decided_idx[n])
                     /\ database[n] = replay'[Applied(n) + 1]
  BY <1>2 DEF DatabaseFollowsLog, Applied, serverVars
<1>3. /\ current_decided_idx[n] <= Len(log)
      /\ Len(commands[n]) <= current_decided_idx[n]
      /\ commands[n] = SubSeq(log, Applied(n) + 1, current_decided_idx[n])
      /\ database[n] = replay[Applied(n) + 1]
      /\ Applied(n) \in Nat /\ Applied(n) <= Len(log)
  BY <1>1 DEF DatabaseFollowsLog, Applied
<1> DEFINE a == Applied(n)
           b == current_decided_idx[n]
<1>. /\ a \in Nat /\ b \in Nat /\ a <= Len(log) /\ b <= Len(log)
  BY <1>1, <1>3
<1>. HIDE DEF a, b
<1>4. SubSeq(log', a + 1, b) = SubSeq(log, a + 1, b)
  BY <1>1, <1>2, SubSeqOfAppend
<1>5. replay'[a + 1] = replay[a + 1]
  BY <1>1, <1>2 DEF ReplayFollowsLog
<1>6. b <= Len(log')
  BY <1>1, <1>2
<1>7. /\ commands[n] = SubSeq(log', a + 1, b)
      /\ database[n] = replay'[a + 1]
  BY <1>3, <1>4, <1>5 DEF a, b
<1>. QED
  BY <1>3, <1>6, <1>7 DEF a, b

\* A server that takes the decided suffix has it all to apply.
LEMMA HandingOverKeepsDatabases ==
    ASSUME TypeOK, DatabaseFollowsLog, NEW n \in Servers, HandleDecidedEntries(n)
    PROVE  DatabaseFollowsLog'
<1>. PICK idx \in current_decided_idx[n] + 1 .. Len(log) :
        /\ commands' = [commands EXCEPT ![n] =
                            DecidedSuffix(current_decided_idx[n], idx)]
        /\ current_decided_idx' = [current_decided_idx EXCEPT ![n] = idx]
  BY DEF HandleDecidedEntries, News, AdvanceTo
<1>1. /\ log \in Seq(Commands)
      /\ current_decided_idx \in [Servers -> Nat]
      /\ commands \in [Servers -> Seq(Commands)]
      /\ commands[n] = <<>> /\ UNCHANGED <<log, replay, database>>
  BY DEF TypeOK, ServersTypeOK, HandleDecidedEntries, News, AdvanceTo, libraryVars
<1>2. Len(DecidedSuffix(current_decided_idx[n], idx)) = idx - current_decided_idx[n]
  BY <1>1, SubSeqProperties DEF DecidedSuffix
<1>3. Applied(n) = current_decided_idx[n] /\ Applied(n)' = current_decided_idx[n]
  BY <1>1, <1>2 DEF Applied
<1>. SUFFICES ASSUME NEW m \in Servers
              PROVE  /\ current_decided_idx'[m] <= Len(log)
                     /\ Len(commands'[m]) <= current_decided_idx'[m]
                     /\ commands'[m] = SubSeq(log, Applied(m)' + 1, current_decided_idx'[m])
                     /\ database[m] = replay[Applied(m)' + 1]
  BY <1>1 DEF DatabaseFollowsLog
<1>4. CASE m = n
  <2>1. /\ commands'[n] = SubSeq(log, current_decided_idx[n] + 1, idx)
        /\ current_decided_idx'[n] = idx
    BY <1>1 DEF DecidedSuffix
  <2>2. Len(commands'[n]) <= idx
    BY <1>1, <1>2
  <2>3. database[n] = replay[current_decided_idx[n] + 1]
    BY <1>3 DEF DatabaseFollowsLog
  <2>. QED
    BY <1>3, <1>4, <2>1, <2>2, <2>3
<1>5. CASE m # n
  BY <1>1, <1>5 DEF DatabaseFollowsLog, Applied
<1>. QED
  BY <1>4, <1>5

\* A server that applies a command moves one entry along the log.
LEMMA ApplyingKeepsDatabases ==
    ASSUME TypeOK, ReplayFollowsLog, DatabaseFollowsLog,
           NEW n \in Servers, UpdateDatabaseAndRespond(n)
    PROVE  DatabaseFollowsLog'
<1> DEFINE a == Applied(n)
           b == current_decided_idx[n]
<1>1. /\ log \in Seq(Commands)
      /\ current_decided_idx \in [Servers -> Nat]
      /\ commands \in [Servers -> Seq(Commands)]
      /\ database \in [Servers -> Databases]
  BY DEF TypeOK, ServersTypeOK
<1>2. /\ commands[n] # <<>>
      /\ commands' = [commands EXCEPT ![n] = Tail(@)]
      /\ database' = [database EXCEPT ![n] = HandleCommand(@, Head(commands[n]).kv_cmd)]
      /\ UNCHANGED <<log, replay, current_decided_idx>>
  BY DEF UpdateDatabaseAndRespond, libraryVars
<1>3. /\ a \in Nat /\ b \in Nat /\ a < b /\ b <= Len(log)
      /\ commands[n] = SubSeq(log, a + 1, b)
      /\ database[n] = replay[a + 1]
  BY <1>1, <1>2 DEF DatabaseFollowsLog, Applied
<1>4. Head(commands[n]) = log[a + 1] /\ Tail(commands[n]) = SubSeq(log, a + 2, b)
  <2>. HIDE DEF a, b
  <2>1. a + 1 \in 1 .. Len(log) /\ b \in a + 1 .. Len(log) /\ (a + 1) + 1 = a + 2
    BY <1>3
  <2>2. /\ Head(SubSeq(log, a + 1, b)) = log[a + 1]
        /\ Tail(SubSeq(log, a + 1, b)) = SubSeq(log, (a + 1) + 1, b)
    BY <1>1, <2>1, HeadTailOfSubSeq
  <2>. QED
    BY <1>3, <2>1, <2>2
<1>5. Len(Tail(commands[n])) = Len(commands[n]) - 1
  BY <1>1, <1>2, HeadTailProperties
<1>6. Applied(n)' = a + 1
  BY <1>1, <1>2, <1>5 DEF Applied
<1>7. database'[n] = replay[a + 2]
  <2>. HIDE DEF a, b
  <2>1. replay[(a + 1) + 1] = HandleCommand(replay[a + 1], log[a + 1].kv_cmd)
    BY <1>1, <1>3 DEF ReplayFollowsLog
  <2>2. database'[n] = HandleCommand(replay[a + 1], log[a + 1].kv_cmd)
    BY <1>1, <1>2, <1>3, <1>4
  <2>3. (a + 1) + 1 = a + 2
    BY <1>3
  <2>. QED
    BY <2>1, <2>2, <2>3
<1>. SUFFICES ASSUME NEW m \in Servers
              PROVE  /\ current_decided_idx[m] <= Len(log)
                     /\ Len(commands'[m]) <= current_decided_idx[m]
                     /\ commands'[m] = SubSeq(log, Applied(m)' + 1, current_decided_idx[m])
                     /\ database'[m] = replay[Applied(m)' + 1]
  BY <1>2 DEF DatabaseFollowsLog
<1>8. CASE m = n
  <2>1. commands'[n] = SubSeq(log, a + 2, b)
    BY <1>1, <1>2, <1>4
  <2>2. Len(commands'[n]) <= b
    <3>1. Len(commands[n]) <= b /\ Len(commands[n]) \in Nat
      BY <1>1, <1>2 DEF DatabaseFollowsLog
    <3>2. Len(commands'[n]) = Len(commands[n]) - 1
      BY <1>1, <1>2, <1>5
    <3>. QED
      BY <1>3, <3>1, <3>2
  <2>. HIDE DEF a, b
  <2>3. (a + 1) + 1 = a + 2
    BY <1>3
  <2>4. /\ commands'[n] = SubSeq(log, Applied(n)' + 1, b)
        /\ database'[n] = replay[Applied(n)' + 1]
    BY <1>6, <1>7, <2>1, <2>3
  <2>. QED
    BY <1>3, <1>8, <2>2, <2>4 DEF b
<1>9. CASE m # n
  BY <1>1, <1>2, <1>9 DEF DatabaseFollowsLog, Applied
<1>. QED
  BY <1>8, <1>9

\* A server that dies is back before the first entry.
LEMMA DyingKeepsDatabases ==
    ASSUME TypeOK, ReplayFollowsLog, DatabaseFollowsLog, NEW n \in Servers, CrashServer(n)
    PROVE  DatabaseFollowsLog'
<1>1. /\ log \in Seq(Commands)
      /\ current_decided_idx \in [Servers -> Nat]
      /\ commands \in [Servers -> Seq(Commands)]
      /\ database \in [Servers -> Databases]
  BY DEF TypeOK, ServersTypeOK
<1>2. /\ commands' = [commands EXCEPT ![n] = <<>>]
      /\ current_decided_idx' = [current_decided_idx EXCEPT ![n] = 0]
      /\ database' = [database EXCEPT ![n] = EmptyDatabase]
      /\ UNCHANGED <<log, replay>>
  BY DEF CrashServer, libraryVars
<1>3. replay[1] = EmptyDatabase
  BY DEF ReplayFollowsLog
<1>4. SubSeq(log, 0 + 1, 0) = <<>>
  BY <1>1, SubSeqProperties
<1>. QED
  BY <1>1, <1>2, <1>3, <1>4 DEF DatabaseFollowsLog, Applied

LEMMA DatabaseFollowsLogStep ==
    ASSUME TypeOK, ReplayFollowsLog, DatabaseFollowsLog, [Next]_vars
    PROVE  DatabaseFollowsLog'
<1>1. CASE \E c \in proposals : Decide(c)
  BY <1>1, DecideKeepsDatabases
<1>2. CASE \E n \in Servers : HandleDecidedEntries(n)
  BY <1>2, HandingOverKeepsDatabases
<1>3. CASE \E n \in Servers : UpdateDatabaseAndRespond(n)
  BY <1>3, ApplyingKeepsDatabases
<1>4. CASE \E n \in Servers : CrashServer(n)
  BY <1>4, DyingKeepsDatabases
<1>5. CASE UNCHANGED <<log, replay, serverVars>>
  BY <1>5, DatabaseFollowsLogFrame
<1>. QED
  BY <1>1, <1>2, <1>3, <1>4, <1>5
     DEF Next, CallerStep, HandlerStep, HandlerGone, ShimStep, ServerStep,
         HandleClientMessage,
         TakeMessage, AppendToLog,
         KillShim, KillServer, BreakConnection, LibraryStep, LoseProposal,
         TestOver, vars, libraryVars

(***************************************************************************)
(* The theorems                                                            *)
(***************************************************************************)

LEMMA InitReplicationInv == Init => ReplicationInv
<1>. SUFFICES ASSUME Init PROVE ReplicationInv
  OBVIOUS
<1>. USE DEF Init, CallersInit, ShimsInit, LinksInit, ServersInit
<1>1. CallersTypeOK
  BY DEF CallersTypeOK, Outcomes, Replies
<1>2. ShimsTypeOK
  BY DEF ShimsTypeOK, IsPendingMap
<1>3. LinksTypeOK
  BY DEF LinksTypeOK
<1>4. ServersTypeOK
  BY DEF ServersTypeOK, Databases, EmptyDatabase
<1>5. OnlyInvokedAreSent
  BY DEF OnlyInvokedAreSent, Sent
<1>6. ReplayFollowsLog
  BY DEF ReplayFollowsLog
<1>7. DatabaseFollowsLog
  BY DEF DatabaseFollowsLog, Applied
<1>. QED
  BY <1>1, <1>2, <1>3, <1>4, <1>5, <1>6, <1>7 DEF ReplicationInv, TypeOK

LEMMA NextReplicationInv == ReplicationInv /\ [Next]_vars => ReplicationInv'
BY NextType, OnlyInvokedAreSentStep, ReplayFollowsLogStep, DatabaseFollowsLogStep
   DEF ReplicationInv

\* ReplicationInv is an invariant of the system, with all its crashes, time-outs and
\* losses, for any number of servers, clients and requests.
THEOREM Invariance == Spec => []ReplicationInv
BY InitReplicationInv, NextReplicationInv, PTL DEF Spec

\* Every variable keeps its type.
THEOREM TypeCorrectness == Spec => []TypeOK
<1>1. ReplicationInv => TypeOK
  BY DEF ReplicationInv
<1>. QED
  BY <1>1, Invariance, PTL

\* State machine safety: every server's database is the replay of the prefix
\* of the log that it has applied (server.rs:114-147).
THEOREM StateMachineSafety == Spec => []DatabaseFollowsLog
<1>1. ReplicationInv => DatabaseFollowsLog
  BY DEF ReplicationInv
<1>. QED
  BY <1>1, Invariance, PTL

\* A request that the test calls a :fail is never on its way to the log
\* (client.clj:61-63).
THEOREM FailSafety == Spec => []FailedNeverTakesEffect
<1>1. ReplicationInv => FailedNeverTakesEffect
  BY DEF ReplicationInv, OnlyInvokedAreSent, FailedNeverTakesEffect
<1>. QED
  BY <1>1, Invariance, PTL
=============================================================================
