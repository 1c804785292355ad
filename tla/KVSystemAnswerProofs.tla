------------------------ MODULE KVSystemAnswerProofs ------------------------
(***************************************************************************)
(* No request is stuck: while a request is owed its answer a task on its   *)
(* way is ready, and each step of a task is one step nearer to the end,    *)
(* for any sets of servers, clients and requests and any capacity of the   *)
(* channels.  What remains of EveryRequestAnswered is that ready tasks are *)
(* polled, which only the runs of TLC can use.                             *)
(***************************************************************************)
EXTENDS KVSystemLinProofs

\* The callers were not refused and have not given up.
Accepted(r) == outcome[r] \in {"invoke", "ok"}

\* While its shim lives, such a request is in no place but those of Sent: only
\* the handler of a caller that gave up is dropped.
AcceptedAreSent ==
    \A r \in Requests : Accepted(r) /\ shim_up[target[r]] => Sent(r)

\* Shim sh holds or awaits on its connection the answer to CommandId k - 1.
IsAnswered(sh, k) ==
    \/ reply[issued[sh][k]] # NoReply
    \/ \E msg \in Range(to_client[sh]) : msg.id = k - 1

\* While shim and server live, what the server has applied is answered.
AppliedAreAnswered ==
    \A sh \in Shims : shim_up[sh] /\ server_up[sh[1]] =>
        \A k \in DOMAIN issued[sh] : AppliedId(sh, k - 1) => IsAnswered(sh, k)

\* Who still waits in a pending map has had no reply.
PendingAreUnanswered ==
    \A sh \in Shims :
        /\ \A id \in DOMAIN pending_put[sh] : reply[pending_put[sh][id]] = NoReply
        /\ \A id \in DOMAIN pending_get[sh] : reply[pending_get[sh][id]] = NoReply

\* The inductive invariant of NoRequestIsStuck: what IndInv says of commands and
\* responses on their way, and that nothing on its way is dropped.
AnswerInv ==
    IndInv /\ AcceptedAreSent /\ AppliedAreAnswered /\ PendingAreUnanswered

(***************************************************************************)
(* Requests do not vanish                                                  *)
(***************************************************************************)

LEMMA ShimsStayDown ==
    ASSUME TypeOK, [Next]_vars, NEW sh \in Shims, shim_up'[sh]
    PROVE  shim_up[sh] /\ ~KillShim(sh)
<1>0. shim_up \in [Shims -> BOOLEAN]
  BY DEF TypeOK, LinksTypeOK
<1>1. UNCHANGED shim_up \/ \E t \in Shims : CrashShim(t)
  BY DEF Next, CallerStep, HandlerStep, HandlerGone, SendCommand, DropHandler,
         ShimStep, TakePut, TakeGet,
         IssueCommand, TakeWrite, TakeRead, ServerStep, HandleClientMessage,
         TakeMessage, AppendToLog,
         HandleDecidedEntries, News, AdvanceTo, UpdateDatabaseAndRespond, KillShim,
         KillServer,
         CrashServer, BreakConnection, LibraryStep, Decide, LoseProposal,
         TestOver, vars, linkVars
<1>2. ASSUME NEW t \in Shims, CrashShim(t)
      PROVE  shim_up[sh] /\ t # sh
  BY <1>0, <1>2 DEF CrashShim
<1>3. ~KillShim(sh)
  BY <1>0 DEF KillShim, CrashShim
<1>. QED
  BY <1>1, <1>2, <1>3

\* What happens to the requests that no handler has passed on yet.
LEMMA FlightMoves ==
    ASSUME TypeOK, [Next]_vars, NEW r \in in_flight
    PROVE  r \in in_flight' \/ SendCommand(r) \/ DropHandler(r) \/ KillShim(target[r])
<1>1. in_flight \subseteq Requests /\ target \in [Requests -> Shims]
  BY DEF TypeOK, CallersTypeOK
<1>2. ASSUME NEW q \in Requests, SendCommand(q)
      PROVE  r \in in_flight' \/ SendCommand(r)
  BY <1>2 DEF SendCommand
<1>3. ASSUME NEW t \in Shims, KillShim(t)
      PROVE  r \in in_flight' \/ KillShim(target[r])
  BY <1>1, <1>3 DEF KillShim, CrashShim
<1>4. ASSUME NEW q \in Requests, DropHandler(q)
      PROVE  r \in in_flight' \/ DropHandler(r)
  BY <1>4 DEF DropHandler
<1>. QED
  BY <1>1, <1>2, <1>3, <1>4
     DEF Next, CallerStep, Invoke, Refused, Completed, Indeterminate, HandlerStep,
         HandlerGone, ShimStep, TakePut, TakeGet, IssueCommand, TakeWrite, TakeRead,
         ServerStep, KillServer, BreakConnection, LibraryStep, TestOver, vars,
         callerVars

\* What happens to those in the channel of a shim.
LEMMA ChannelMoves ==
    ASSUME TypeOK, [Next]_vars, NEW sh \in Shims, NEW r \in Range(cmd_rx[sh])
    PROVE  \/ r \in Range(cmd_rx'[sh])
           \/ IssueCommand(sh) /\ cmd_rx[sh] # <<>> /\ r = Head(cmd_rx[sh])
           \/ KillShim(sh)
<1>1. /\ cmd_rx \in [Shims -> Seq(Requests)]
      /\ \A t \in Shims : cmd_rx[t] \in Queue(Requests)
      /\ target \in [Requests -> Shims]
  BY QueueTypes DEF TypeOK, ShimsTypeOK, CallersTypeOK
<1>2. ASSUME NEW q \in Requests, HandlerStep(q)
      PROVE  r \in Range(cmd_rx'[sh])
  <2>1. cmd_rx' = [cmd_rx EXCEPT ![target[q]] = Append(cmd_rx[target[q]], q)]
    BY <1>2 DEF HandlerStep, SendCommand
  <2>2. cmd_rx'[sh] = cmd_rx[sh] \/ cmd_rx'[sh] = Append(cmd_rx[sh], q)
    BY <1>1, <2>1
  <2>3. Range(Append(cmd_rx[sh], q)) = Range(cmd_rx[sh]) \cup {q}
    BY <1>1, RangeOfAppend
  <2>. QED
    BY <2>2, <2>3
<1>3. ASSUME NEW t \in Shims, TakePut(t) \/ TakeGet(t)
      PROVE  \/ r \in Range(cmd_rx'[sh])
             \/ IssueCommand(sh) /\ cmd_rx[sh] # <<>> /\ r = Head(cmd_rx[sh])
  <2>1. /\ IssueCommand(t) /\ cmd_rx[t] # <<>>
        /\ cmd_rx' = [cmd_rx EXCEPT ![t] = Tail(cmd_rx[t])]
    BY <1>3 DEF TakePut, TakeGet, IssueCommand
  <2>2. CASE t = sh
    BY <1>1, <2>1, <2>2, RangeOfTail
  <2>3. CASE t # sh
    BY <1>1, <2>1, <2>3
  <2>. QED
    BY <2>2, <2>3
<1>4. ASSUME NEW t \in Shims, KillShim(t)
      PROVE  r \in Range(cmd_rx'[sh]) \/ KillShim(sh)
  BY <1>1, <1>4 DEF KillShim, CrashShim
<1>5. CASE UNCHANGED cmd_rx
  BY <1>5
<1>. QED
  BY <1>2, <1>3, <1>4, <1>5
     DEF Next, CallerStep, HandlerGone, DropHandler, ShimStep, TakeWrite, TakeRead,
         ServerStep, KillServer, BreakConnection, LibraryStep, TestOver, vars, shimVars

LEMMA SentStays ==
    ASSUME TypeOK, RequestsAreIssuedOnce, [Next]_vars, NEW r \in Requests, Sent(r),
           shim_up'[target[r]], outcome[r] # "info"
    PROVE  Sent(r)'
<1>1. /\ target[r] \in Shims /\ target \in [Requests -> Shims]
      /\ cmd_rx \in [Shims -> Seq(Requests)]
      /\ \A sh \in Shims : cmd_rx[sh] \in Queue(Requests)
      /\ issued \in [Shims -> Seq(Requests)]
  BY QueueTypes DEF TypeOK, CallersTypeOK, ShimsTypeOK
<1>2. ~KillShim(target[r])
  BY <1>1, ShimsStayDown
<1>3. CASE r \in in_flight
  <2>1. CASE r \in in_flight'
    BY <2>1 DEF Sent
  <2>2. CASE SendCommand(r)
    <3>1. cmd_rx'[target[r]] = Append(cmd_rx[target[r]], r)
      BY <1>1, <2>2 DEF SendCommand
    <3>2. r \in Range(cmd_rx'[target[r]])
      BY <1>1, <3>1, RangeOfAppend
    <3>. QED
      BY <1>1, <3>2 DEF Sent, Range
  <2>. QED
    BY <1>2, <1>3, <2>1, <2>2, FlightMoves DEF DropHandler
<1>4. ASSUME NEW sh \in Shims, r \in Range(cmd_rx[sh]) PROVE Sent(r)'
  <2>1. target[r] = sh
    BY <1>4 DEF RequestsAreIssuedOnce
  <2>2. CASE r \in Range(cmd_rx'[sh])
    BY <2>2 DEF Sent, Range
  <2>3. CASE IssueCommand(sh) /\ cmd_rx[sh] # <<>> /\ r = Head(cmd_rx[sh])
    <3>1. issued'[sh] = Append(issued[sh], r)
      BY <1>1, <2>3 DEF IssueCommand
    <3>2. issued'[sh][Len(issued[sh]) + 1] = r /\ Len(issued[sh]) + 1 \in DOMAIN issued'[sh]
      BY <1>1, <3>1, AppendProperties
    <3>. QED
      BY <3>2 DEF Sent
  <2>. QED
    BY <1>2, <1>4, <2>1, <2>2, <2>3, ChannelMoves
<1>5. ASSUME NEW sh \in Shims, NEW k \in DOMAIN issued[sh], issued[sh][k] = r
      PROVE  Sent(r)'
  BY <1>5, IssuedStays DEF Sent
<1>. QED
  BY <1>3, <1>4, <1>5 DEF Sent, Range

LEMMA AcceptedAreSentStep ==
    ASSUME TypeOK, RequestsAreIssuedOnce, AcceptedAreSent, [Next]_vars
    PROVE  AcceptedAreSent'
<1>. SUFFICES ASSUME NEW r \in Requests, Accepted(r)', shim_up'[target'[r]]
              PROVE  Sent(r)'
  BY DEF AcceptedAreSent
<1>1. target' = target /\ target[r] \in Shims /\ outcome \in [Requests -> Outcomes]
  BY CommandStays DEF TypeOK, CallersTypeOK
<1>2. shim_up[target[r]]
  BY <1>1, ShimsStayDown
<1>3. CASE Accepted(r)
  BY <1>1, <1>2, <1>3, SentStays DEF AcceptedAreSent, Accepted
<1>4. CASE outcome'[r] = outcome[r]
  BY <1>3, <1>4 DEF Accepted
<1>5. ASSUME NEW q \in Requests, CallerStep(q) PROVE Sent(r)'
  <2>1. CASE q # r
    BY <1>1, <1>4, <1>5, <2>1
       DEF CallerStep, Invoke, Refused, Completed, Indeterminate
  <2>2. ASSUME NEW cmd, Invoke(r, cmd) PROVE Sent(r)'
    BY <2>2 DEF Invoke, Sent
  <2>3. ASSUME NEW cmd, Refused(r, cmd) PROVE FALSE
    BY <1>1, <2>3 DEF Refused, Accepted
  <2>4. CASE Completed(r) \/ Indeterminate(r)
    BY <1>3, <2>4 DEF Completed, Indeterminate, Accepted
  <2>. QED
    BY <1>5, <2>1, <2>2, <2>3, <2>4 DEF CallerStep
<1>. QED
  BY <1>4, <1>5
     DEF Next, HandlerStep, HandlerGone, SendCommand, DropHandler, ShimStep, TakePut,
         TakeGet, IssueCommand,
         TakeWrite, TakeRead, ServerStep, KillShim, CrashShim, KillServer,
         BreakConnection, LibraryStep, TestOver, vars, callerVars

(***************************************************************************)
(* Answers do not vanish                                                   *)
(***************************************************************************)

\* A handler that has its reply keeps it.
LEMMA RepliesStay ==
    ASSUME TypeOK, [Next]_vars, NEW r \in Requests, reply[r] # NoReply
    PROVE  reply'[r] # NoReply
<1>0. /\ reply \in [Requests -> Replies \cup {NoReply}]
      /\ to_client \in [Shims -> Seq(ServerMessages)]
      /\ NoReply \notin Replies
  BY NoReplyAssumption DEF TypeOK, CallersTypeOK, LinksTypeOK, Replies
<1>1. ASSUME NEW t \in Shims, TakeWrite(t) PROVE reply'[r] # NoReply
  BY <1>0, <1>1 DEF TakeWrite, Replies
<1>2. ASSUME NEW t \in Shims, TakeRead(t) PROVE reply'[r] # NoReply
  <2>1. Head(to_client[t]) \in ServerMessages /\ Head(to_client[t]).type = "Read"
    BY <1>0, <1>2 DEF TakeRead
  <2>2. Head(to_client[t]).value \in Replies
    BY <2>1 DEF ServerMessages, ReadMessages, WriteMessages, Replies
  <2>. QED
    BY <1>0, <1>2, <2>2 DEF TakeRead
<1>. QED
  BY <1>1, <1>2
     DEF Next, CallerStep, Invoke, Refused, Completed, Indeterminate, HandlerStep,
         HandlerGone, SendCommand, DropHandler, ShimStep, TakePut, TakeGet,
         IssueCommand, ServerStep,
         KillShim, CrashShim, KillServer, BreakConnection, LibraryStep, TestOver,
         vars, callerVars

\* While shim and server live, no answer under way is dropped.
LEMMA NothingIsDropped ==
    ASSUME TypeOK, [Next]_vars, NEW sh \in Shims, shim_up'[sh], server_up'[sh[1]],
           NEW msg \in Range(to_client[sh])
    PROVE  \/ msg \in Range(to_client'[sh])
           \/ /\ TakeWrite(sh) \/ TakeRead(sh)
              /\ to_client[sh] # <<>> /\ msg = Head(to_client[sh])
<1>0. /\ to_client \in [Shims -> Seq(ServerMessages)]
      /\ \A t \in Shims : to_client[t] \in Queue(ServerMessages)
      /\ server_up \in [Servers -> BOOLEAN] /\ sh[1] \in Servers
  BY QueueTypes DEF TypeOK, LinksTypeOK, Shims
<1>1. ASSUME NEW t \in Shims, TakeWrite(t) \/ TakeRead(t)
      PROVE  \/ msg \in Range(to_client'[sh])
             \/ /\ TakeWrite(sh) \/ TakeRead(sh)
                /\ to_client[sh] # <<>> /\ msg = Head(to_client[sh])
  <2>1. to_client[t] # <<>> /\ to_client' = [to_client EXCEPT ![t] = Tail(to_client[t])]
    BY <1>1 DEF TakeWrite, TakeRead
  <2>2. CASE t = sh
    BY <1>0, <1>1, <2>1, <2>2, RangeOfTail
  <2>3. CASE t # sh
    BY <1>0, <2>1, <2>3
  <2>. QED
    BY <2>2, <2>3
<1>2. ASSUME NEW t \in Shims, KillShim(t) PROVE msg \in Range(to_client'[sh])
  <2>1. t # sh
    BY <1>2, ShimsStayDown
  <2>. QED
    BY <1>0, <1>2, <2>1 DEF KillShim, CrashShim
<1>3. ASSUME NEW t \in Shims, BreakConnection(t) PROVE msg \in Range(to_client'[sh])
  <2>1. server_up[sh[1]]
    BY <1>3 DEF BreakConnection
  <2>. QED
    BY <1>0, <1>3, <2>1 DEF BreakConnection, ResetConnection
<1>4. ASSUME NEW n \in Servers, UpdateDatabaseAndRespond(n)
      PROVE  msg \in Range(to_client'[sh])
  <2> DEFINE m == Response(database[n], Head(commands[n]))
  <2>1. to_client'[sh] = to_client[sh] \/ to_client'[sh] = Append(to_client[sh], m)
    BY <1>0, <1>4 DEF UpdateDatabaseAndRespond, SendToClient
  <2>2. m \in ServerMessages
    <3>1. database[n] \in Databases /\ Head(commands[n]) \in Commands
      BY <1>4 DEF TypeOK, ServersTypeOK, UpdateDatabaseAndRespond
    <3>. QED
      BY <3>1, ResponseType
  <2>. HIDE DEF m
  <2>3. Range(Append(to_client[sh], m)) = Range(to_client[sh]) \cup {m}
    BY <1>0, <2>2, RangeOfAppend
  <2>. QED
    BY <2>1, <2>3
<1>. QED
  BY <1>1, <1>2, <1>3, <1>4
     DEF Next, CallerStep, HandlerStep, HandlerGone, SendCommand, DropHandler,
         ShimStep, TakePut, TakeGet,
         IssueCommand, ServerStep, HandleClientMessage, TakeMessage, AppendToLog,
         HandleDecidedEntries, News, AdvanceTo,
         KillServer, CrashServer, LibraryStep, Decide, LoseProposal, TestOver,
         vars, linkVars

\* Taking an answer replies to the request that its CommandId is of.
LEMMA TakingReplies ==
    ASSUME TypeOK, RequestsAreIssuedOnce, PendingAreIssued, PendingUntilAnswered,
           NEW sh \in Shims, TakeWrite(sh) \/ TakeRead(sh),
           NEW k \in DOMAIN issued[sh], Head(to_client[sh]).id = k - 1
    PROVE  reply'[issued[sh][k]] # NoReply
<1> DEFINE m == Head(to_client[sh])
<1>1. /\ shim_up[sh] /\ to_client[sh] # <<>> /\ m \in ServerMessages
      /\ m \in Range(to_client[sh])
      /\ reply \in [Requests -> Replies \cup {NoReply}] /\ NoReply \notin Replies
      /\ issued[sh] \in Seq(Requests) /\ k \in Nat /\ issued[sh][k] \in Requests
  <2>1. shim_up[sh] /\ to_client[sh] # <<>>
    BY DEF TakeWrite, TakeRead
  <2>2. m \in ServerMessages /\ m \in Range(to_client[sh])
    BY <2>1, QueueTypes, RangeOfTail
  <2>3. /\ reply \in [Requests -> Replies \cup {NoReply}]
        /\ issued[sh] \in Seq(Requests)
    BY DEF TypeOK, CallersTypeOK, ShimsTypeOK
  <2>4. NoReply \notin Replies
    BY NoReplyAssumption DEF Replies
  <2>. QED
    BY <2>1, <2>2, <2>3, <2>4
<1>2. m.id \in DOMAIN PendingFor(sh, m) /\ m.id + 1 = k
  BY <1>1 DEF PendingUntilAnswered
<1>3. PendingFor(sh, m)[m.id] = issued[sh][k]
  BY <1>2 DEF PendingFor, PendingAreIssued
<1>4. CASE TakeWrite(sh)
  <2>1. m.type = "Write" /\ PendingFor(sh, m) = pending_put[sh]
    BY <1>4 DEF TakeWrite, PendingFor
  <2>2. reply' = [reply EXCEPT ![issued[sh][k]] = NoValue]
    BY <1>2, <1>3, <1>4, <2>1 DEF TakeWrite
  <2>. QED
    BY <1>1, <2>2 DEF Replies
<1>5. CASE TakeRead(sh)
  <2>1. m.type = "Read" /\ PendingFor(sh, m) = pending_get[sh]
    BY <1>5 DEF TakeRead, PendingFor
  <2>2. reply' = [reply EXCEPT ![issued[sh][k]] = m.value]
    BY <1>2, <1>3, <1>5, <2>1 DEF TakeRead
  <2>3. m.value \in Replies
    BY <1>1, <2>1 DEF ServerMessages, ReadMessages, WriteMessages, Replies
  <2>. QED
    BY <1>1, <2>2, <2>3
<1>. QED
  BY <1>4, <1>5

\* What was applied before the step stays answered.
LEMMA AnsweredStays ==
    ASSUME IndInv, AppliedAreAnswered, [Next]_vars, NEW sh \in Shims,
           shim_up'[sh], server_up'[sh[1]], NEW k \in Nat, AppliedId(sh, k - 1)
    PROVE  IsAnswered(sh, k)'
<1>. USE DEF IndInv, ReplicationInv
<1>1. shim_up[sh] /\ server_up[sh[1]]
  BY ShimsStayDown, AppliedIdStays
<1>2. k \in DOMAIN issued[sh]
  <2>. PICK i \in 1 .. Applied(sh[1]) : ShimOf(log[i]) = sh /\ log[i].id = k - 1
    BY DEF AppliedId
  <2>1. i \in DOMAIN log
    <3>1. sh[1] \in Servers /\ log \in Seq(Commands)
      BY DEF Shims, TypeOK, ServersTypeOK
    <3>2. Applied(sh[1]) \in Nat /\ Applied(sh[1]) <= Len(log)
      BY <3>1, AppliedGrows
    <3>. QED
      BY <3>1, <3>2
  <2>2. IsNamed(log[i])
    BY <2>1, LogIsNamed
  <2>3. k - 1 + 1 = k
    OBVIOUS
  <2>. QED
    BY <2>2, <2>3 DEF IsNamed
<1>3. IsAnswered(sh, k)
  BY <1>1, <1>2 DEF AppliedAreAnswered
<1>4. issued'[sh][k] = issued[sh][k] /\ issued[sh][k] \in Requests
  BY <1>2, IssuedStays
<1>5. CASE reply[issued[sh][k]] # NoReply
  BY <1>4, <1>5, RepliesStay DEF IsAnswered
<1>6. ASSUME NEW msg \in Range(to_client[sh]), msg.id = k - 1
      PROVE  IsAnswered(sh, k)'
  <2>1. CASE msg \in Range(to_client'[sh])
    BY <1>6, <2>1 DEF IsAnswered
  <2>2. CASE /\ TakeWrite(sh) \/ TakeRead(sh)
             /\ msg = Head(to_client[sh])
    BY <1>2, <1>4, <1>6, <2>2, TakingReplies DEF IsAnswered
  <2>. QED
    BY <1>6, <2>1, <2>2, NothingIsDropped
<1>. QED
  BY <1>3, <1>5, <1>6 DEF IsAnswered

\* What is applied in the step is answered in it.
LEMMA ApplyingAnswers ==
    ASSUME IndInv, [Next]_vars, NEW sh \in Shims, shim_up'[sh], server_up'[sh[1]],
           NEW id, AppliedId(sh, id)', ~AppliedId(sh, id)
    PROVE  \E msg \in Range(to_client'[sh]) : msg.id = id
<1>. USE DEF IndInv, ReplicationInv
<1> DEFINE n == sh[1]
<1>1. n \in Servers /\ shim_up[sh] /\ log \in Seq(Commands)
  BY ShimsStayDown DEF Shims, TypeOK, ServersTypeOK
<1>2. /\ Applied(n) \in Nat /\ Applied(n) <= Len(log)
      /\ Applied(n)' \in Nat /\ Applied(n) <= Applied(n)'
      /\ Applied(n)' = Applied(n) \/ UpdateDatabaseAndRespond(n)
  BY <1>1, AppliedGrows
<1>. PICK i \in 1 .. Applied(n)' : ShimOf(log'[i]) = sh /\ log'[i].id = id
  BY DEF AppliedId, ShimOf
<1>3. ~(i \in 1 .. Applied(n))
  <2>. SUFFICES ASSUME i \in 1 .. Applied(n) PROVE FALSE
    OBVIOUS
  <2>1. i \in DOMAIN log
    BY <1>1, <1>2
  <2>2. log'[i] = log[i]
    BY <2>1, LogStays
  <2>. QED
    BY <2>2 DEF AppliedId
<1>4. UpdateDatabaseAndRespond(n)
  BY <1>2, <1>3
<1>5. /\ i = Applied(n) + 1 /\ i \in DOMAIN log /\ log[i] = Head(commands[n])
      /\ log[i] \in Commands
  <2>1. Applied(n)' = Applied(n) + 1
    BY <1>1, <1>4, ApplyingIsNext
  <2>2. i = Applied(n) + 1
    BY <1>2, <1>3, <2>1
  <2>. QED
    BY <1>1, <1>4, <2>2, ApplyingIsNext
<1> DEFINE c == Head(commands[n])
           m == Response(database[n], c)
<1>6. log'[i] = c /\ ShimOf(c) = sh /\ c.id = id
  BY <1>5, LogStays
<1>7. Answers(n, c) /\ sh = <<n, c.client_id>>
  BY <1>6 DEF Answers, ShimOf
<1>8. to_client' = [to_client EXCEPT ![sh] = Append(to_client[sh], m)]
  BY <1>1, <1>4, <1>7 DEF UpdateDatabaseAndRespond, SendToClient
<1>9. m.id = id /\ m \in ServerMessages
  <2>1. database[n] \in Databases
    BY <1>1 DEF TypeOK, ServersTypeOK
  <2>. QED
    BY <1>5, <1>6, <2>1, ResponseOfCommand, ResponseType
<1>10. m \in Range(to_client'[sh])
  <2>1. to_client \in [Shims -> Seq(ServerMessages)] /\ to_client[sh] \in Queue(ServerMessages)
    BY QueueTypes DEF TypeOK, LinksTypeOK
  <2>2. to_client'[sh] = Append(to_client[sh], m)
    BY <1>8, <2>1
  <2>. HIDE DEF m
  <2>. QED
    BY <1>9, <2>1, <2>2, RangeOfAppend
<1>. QED
  BY <1>9, <1>10

LEMMA AppliedAreAnsweredStep ==
    ASSUME IndInv, AppliedAreAnswered, [Next]_vars
    PROVE  AppliedAreAnswered'
<1>. SUFFICES ASSUME NEW sh \in Shims, shim_up'[sh], server_up'[sh[1]],
                     NEW k \in DOMAIN issued'[sh], AppliedId(sh, k - 1)'
              PROVE  IsAnswered(sh, k)'
  BY DEF AppliedAreAnswered
<1>1. k \in Nat
  <2>1. issued'[sh] \in Seq(Requests)
    BY NextIndInv DEF IndInv, ReplicationInv, TypeOK, ShimsTypeOK
  <2>. QED
    BY <2>1
<1>2. CASE AppliedId(sh, k - 1)
  BY <1>1, <1>2, AnsweredStays
<1>3. CASE ~AppliedId(sh, k - 1)
  BY <1>3, ApplyingAnswers DEF IsAnswered
<1>. QED
  BY <1>2, <1>3

(***************************************************************************)
(* The place of a request                                                  *)
(***************************************************************************)

InChannel(r) == r \in Range(cmd_rx[target[r]])

OnLink(r) ==
    \E msg \in Range(to_server[target[r]]) : issued[target[r]][msg.id + 1] = r

Proposed(r) == \E c \in proposals : Carries(c, r)

Unanswered(r) == InLog(r) /\ reply[r] = NoReply

\* What a shim has issued is neither in its channel nor with a handler.
LEMMA IssuedIsPast ==
    ASSUME RequestsAreIssuedOnce, NEW sh \in Shims, NEW r \in Range(issued[sh])
    PROVE  target[r] = sh /\ r \notin in_flight /\ ~InChannel(r)
BY DEF RequestsAreIssuedOnce, InChannel

\* What is proposed or decided is that and nothing else.
LEMMA ProposedIsPast ==
    ASSUME TypeOK, RequestsAreIssuedOnce, CommandsAreNamed, CommandsAreOnce,
           NEW c \in proposals \cup Range(log), NEW r, Carries(c, r)
    PROVE  /\ c \in Commands /\ IsNamed(c) /\ r = RequestOf(c)
           /\ r \notin in_flight /\ ~InChannel(r) /\ ~OnLink(r)
           /\ \A d \in proposals \cup Range(log) : Carries(d, r) => d = c
<1>1. \A d \in proposals \cup Range(log) : d \in Commands /\ IsNamed(d)
  BY QueueTypes, RangeInType DEF CommandsAreNamed, TypeOK, ServersTypeOK
<1>2. c \in Commands /\ IsNamed(c) /\ r = RequestOf(c)
  BY <1>1, EffectsAreNamed
<1> DEFINE t == ShimOf(c)
<1>3. t \in Shims /\ r \in Range(issued[t])
  BY <1>2, EffectsAreNamed, ShimOfType
<1>4. target[r] = t /\ r \notin in_flight /\ ~InChannel(r)
  BY <1>3, IssuedIsPast
<1>5. ASSUME NEW msg \in Range(to_server[t]), issued[t][msg.id + 1] = r
      PROVE  FALSE
  <2> DEFINE d == CommandOf(t, msg)
  <2>1. msg \in ClientMessages
    BY <1>3, QueueTypes, RangeInType
  <2>2. d \in Commands /\ ShimOf(d) = t /\ d.id = msg.id
    BY <1>3, <2>1, CommandOfType
  <2>3. IsNamed(d) /\ d \notin proposals \cup Range(log)
    BY <1>3, <1>5 DEF CommandsAreNamed, CommandsAreOnce
  <2>4. RequestOf(d) = r
    BY <1>5, <2>2 DEF RequestOf
  <2>5. d = c
    BY <1>2, <2>2, <2>3, <2>4, RequestsNameCommands
  <2>. QED
    BY <2>3, <2>5
<1>6. ASSUME NEW d \in proposals \cup Range(log), Carries(d, r) PROVE d = c
  <2>1. d \in Commands /\ IsNamed(d) /\ RequestOf(d) = r
    BY <1>1, <1>6, EffectsAreNamed
  <2>. QED
    BY <1>2, <2>1, RequestsNameCommands
<1>. QED
  BY <1>2, <1>4, <1>5, <1>6 DEF OnLink

\* Who was told a result is in the log.
LEMMA AnsweredIsPast ==
    ASSUME IndInv, NEW r \in Requests, InLog(r) \/ reply[r] # NoReply
    PROVE  /\ InLog(r) /\ r \notin in_flight /\ ~InChannel(r) /\ ~OnLink(r)
           /\ ~Proposed(r)
<1>. USE DEF IndInv, ReplicationInv
<1>1. InLog(r)
  BY EffectsArePlaces DEF RepliesComeFromLog
<1>. PICK i \in DOMAIN log : Carries(log[i], r)
  BY <1>1 DEF InLog
<1>2. log[i] \in Range(log)
  BY DEF Range
<1>3. proposals \cap Range(log) = {}
  BY DEF CommandsAreOnce
<1>. QED
  BY <1>1, <1>2, <1>3, ProposedIsPast DEF Proposed

(***************************************************************************)
(* Handlers in the pending maps                                            *)
(***************************************************************************)

\* Requests under different names are different.
LEMMA NamesDiffer ==
    ASSUME RequestsAreIssuedOnce, NEW s \in Shims, NEW t \in Shims,
           NEW i \in DOMAIN issued[s], NEW j \in DOMAIN issued[t],
           issued[s][i] = issued[t][j]
    PROVE  s = t /\ i = j
<1>1. issued[s][i] \in Range(issued[s]) /\ issued[t][j] \in Range(issued[t])
  BY DEF Range
<1>. QED
  BY <1>1 DEF RequestsAreIssuedOnce, IsInjective

LEMMA IssuingLeavesUnanswered ==
    ASSUME IndInv, PendingAreUnanswered, NEW t \in Shims, TakePut(t) \/ TakeGet(t)
    PROVE  PendingAreUnanswered'
<1>. USE DEF IndInv, ReplicationInv
<1> DEFINE q == Head(cmd_rx[t])
<1>1. /\ cmd_rx[t] # <<>> /\ UNCHANGED reply
      /\ DOMAIN pending_put = Shims /\ DOMAIN pending_get = Shims
  BY DEF TakePut, TakeGet, IssueCommand, callerVars, TypeOK, ShimsTypeOK
<1>2. q \in Range(cmd_rx[t]) /\ q \in Requests
  BY <1>1, QueueTypes, RangeOfTail
<1>3. target[q] = t
  BY <1>2 DEF RequestsAreIssuedOnce
<1>4. reply[q] = NoReply
  BY <1>2, <1>3, AnsweredIsPast DEF InChannel
<1>. HIDE DEF q
<1>5. CASE TakePut(t)
  <2>1. /\ pending_put' = [pending_put EXCEPT ![t] =
                              Insert(pending_put[t], next_request_id[t], q)]
        /\ UNCHANGED pending_get
    BY <1>5 DEF TakePut, q
  <2>. QED
    BY <1>1, <1>4, <2>1 DEF PendingAreUnanswered, Insert
<1>6. CASE TakeGet(t)
  <2>1. /\ pending_get' = [pending_get EXCEPT ![t] =
                              Insert(pending_get[t], next_request_id[t], q)]
        /\ UNCHANGED pending_put
    BY <1>6 DEF TakeGet, q
  <2>. QED
    BY <1>1, <1>4, <2>1 DEF PendingAreUnanswered, Insert
<1>. QED
  BY <1>5, <1>6

\* Which request an answer is for, and that only its entry is of it.
LEMMA TakingMoves ==
    ASSUME IndInv, NEW t \in Shims, TakeWrite(t) \/ TakeRead(t)
    PROVE  \E q \in Requests, value \in Replies, id \in DOMAIN issued[t] :
              /\ q = issued[t][id] /\ InLog(q)
              /\ reply' = [reply EXCEPT ![q] = value]
              /\ \/ /\ TakeWrite(t) /\ id - 1 \in DOMAIN pending_put[t]
                    /\ pending_put' = [pending_put EXCEPT ![t] =
                           Restrict(pending_put[t], DOMAIN pending_put[t] \ {id - 1})]
                    /\ UNCHANGED pending_get
                    /\ pending_put[t][id - 1] = q /\ command[q].type = "Put"
                 \/ /\ TakeRead(t) /\ id - 1 \in DOMAIN pending_get[t]
                    /\ pending_get' = [pending_get EXCEPT ![t] =
                           Restrict(pending_get[t], DOMAIN pending_get[t] \ {id - 1})]
                    /\ UNCHANGED pending_put
                    /\ pending_get[t][id - 1] = q /\ command[q].type = "Get"
<1>. USE DEF IndInv, ReplicationInv
<1> DEFINE m == Head(to_client[t])
<1>1. shim_up[t] /\ to_client[t] # <<>>
  BY DEF TakeWrite, TakeRead
<1>2. m \in ServerMessages /\ m \in Range(to_client[t])
  BY <1>1, QueueTypes, RangeOfTail
<1>3. m.id \in DOMAIN PendingFor(t, m) /\ m.id \in Nat
  BY <1>1, <1>2
     DEF PendingUntilAnswered, ServerMessages, ReadMessages, WriteMessages
<1> DEFINE id == m.id + 1
           q  == issued[t][id]
<1>4. id - 1 = m.id /\ id \in DOMAIN issued[t] /\ PendingFor(t, m)[m.id] = q
  BY <1>3 DEF PendingFor, PendingAreIssued
<1>5. q \in Requests
  BY <1>4, QueueTypes DEF Queue
<1>6. InLog(q)
  <2>1. ResponsesMatchPending
    BY AwaitedImplyPending
  <2>2. m = to_client[t][1] /\ 1 \in DOMAIN to_client[t]
    <3>1. to_client[t] \in Seq(ServerMessages)
      BY QueueTypes DEF Queue
    <3>. QED
      BY <1>1, <3>1
  <2>. QED
    BY <1>1, <1>4, <2>1, <2>2 DEF ResponsesMatchPending
<1>7. CASE TakeWrite(t)
  <2>1. m.type = "Write" /\ PendingFor(t, m) = pending_put[t]
    BY <1>7 DEF TakeWrite, PendingFor
  <2>2. /\ reply' = [reply EXCEPT ![q] = NoValue]
        /\ pending_put' = [pending_put EXCEPT ![t] =
               Restrict(pending_put[t], DOMAIN pending_put[t] \ {m.id})]
        /\ UNCHANGED pending_get
    BY <1>3, <1>4, <1>7, <2>1 DEF TakeWrite
  <2>3. command[q].type = "Put"
    BY <1>3, <1>4, <2>1 DEF PendingAreIssued
  <2>. QED
    BY <1>3, <1>4, <1>5, <1>6, <1>7, <2>1, <2>2, <2>3 DEF Replies
<1>8. CASE TakeRead(t)
  <2>1. m.type = "Read" /\ PendingFor(t, m) = pending_get[t]
    BY <1>8 DEF TakeRead, PendingFor
  <2>2. /\ reply' = [reply EXCEPT ![q] = m.value]
        /\ pending_get' = [pending_get EXCEPT ![t] =
               Restrict(pending_get[t], DOMAIN pending_get[t] \ {m.id})]
        /\ UNCHANGED pending_put
    BY <1>3, <1>4, <1>8, <2>1 DEF TakeRead
  <2>3. command[q].type = "Get"
    BY <1>3, <1>4, <2>1 DEF PendingAreIssued
  <2>4. m.value \in Replies
    BY <1>2, <2>1 DEF ServerMessages, ReadMessages, WriteMessages, Replies
  <2>. QED
    BY <1>3, <1>4, <1>5, <1>6, <1>8, <2>1, <2>2, <2>3, <2>4
<1>. QED
  BY <1>7, <1>8

LEMMA TakingLeavesUnanswered ==
    ASSUME IndInv, PendingAreUnanswered, NEW t \in Shims, TakeWrite(t) \/ TakeRead(t)
    PROVE  PendingAreUnanswered'
<1>. USE DEF IndInv, ReplicationInv
<1>. PICK q \in Requests, value \in Replies, id \in DOMAIN issued[t] :
        /\ q = issued[t][id] /\ InLog(q)
        /\ reply' = [reply EXCEPT ![q] = value]
        /\ \/ /\ TakeWrite(t) /\ id - 1 \in DOMAIN pending_put[t]
              /\ pending_put' = [pending_put EXCEPT ![t] =
                     Restrict(pending_put[t], DOMAIN pending_put[t] \ {id - 1})]
              /\ UNCHANGED pending_get
              /\ pending_put[t][id - 1] = q /\ command[q].type = "Put"
           \/ /\ TakeRead(t) /\ id - 1 \in DOMAIN pending_get[t]
              /\ pending_get' = [pending_get EXCEPT ![t] =
                     Restrict(pending_get[t], DOMAIN pending_get[t] \ {id - 1})]
              /\ UNCHANGED pending_put
              /\ pending_get[t][id - 1] = q /\ command[q].type = "Get"
  BY TakingMoves
<1>1. /\ DOMAIN pending_put = Shims /\ DOMAIN pending_get = Shims
      /\ reply \in [Requests -> Replies \cup {NoReply}]
      /\ \A sh \in Shims : issued[sh] \in Seq(Requests)
      /\ \A sh \in Shims : DOMAIN pending_put[sh] \subseteq Nat
      /\ \A sh \in Shims : DOMAIN pending_get[sh] \subseteq Nat
  BY DEF TypeOK, CallersTypeOK, ShimsTypeOK, IsPendingMap
<1>2. ASSUME NEW sh \in Shims, NEW k \in Nat, k + 1 \in DOMAIN issued[sh],
             issued[sh][k + 1] = q
      PROVE  sh = t /\ k = id - 1
  <2>1. sh = t /\ k + 1 = id
    BY <1>2, NamesDiffer
  <2>2. id \in Nat
    BY <1>1
  <2>. QED
    BY <2>1, <2>2
<1>3. ASSUME NEW sh \in Shims, NEW k \in DOMAIN pending_put'[sh]
      PROVE  reply'[pending_put'[sh][k]] = NoReply
  <2>1. k \in DOMAIN pending_put[sh] /\ pending_put'[sh][k] = pending_put[sh][k]
    BY <1>1, <1>3 DEF Restrict
  <2>2. /\ k \in Nat /\ k + 1 \in DOMAIN issued[sh]
        /\ pending_put[sh][k] = issued[sh][k + 1]
        /\ command[issued[sh][k + 1]].type = "Put"
    BY <1>1, <2>1 DEF PendingAreIssued
  <2>3. pending_put[sh][k] # q
    BY <1>1, <1>2, <1>3, <2>2 DEF Restrict
  <2>. QED
    BY <1>1, <2>1, <2>3 DEF PendingAreUnanswered
<1>4. ASSUME NEW sh \in Shims, NEW k \in DOMAIN pending_get'[sh]
      PROVE  reply'[pending_get'[sh][k]] = NoReply
  <2>1. k \in DOMAIN pending_get[sh] /\ pending_get'[sh][k] = pending_get[sh][k]
    BY <1>1, <1>4 DEF Restrict
  <2>2. /\ k \in Nat /\ k + 1 \in DOMAIN issued[sh]
        /\ pending_get[sh][k] = issued[sh][k + 1]
        /\ command[issued[sh][k + 1]].type = "Get"
    BY <1>1, <2>1 DEF PendingAreIssued
  <2>3. pending_get[sh][k] # q
    BY <1>1, <1>2, <1>4, <2>2 DEF Restrict
  <2>. QED
    BY <1>1, <2>1, <2>3 DEF PendingAreUnanswered
<1>. QED
  BY <1>3, <1>4 DEF PendingAreUnanswered

LEMMA PendingAreUnansweredStep ==
    ASSUME IndInv, PendingAreUnanswered, [Next]_vars
    PROVE  PendingAreUnanswered'
<1>1. CASE UNCHANGED <<reply, pending_put, pending_get>>
  BY <1>1 DEF PendingAreUnanswered
<1>2. CASE \E t \in Shims : ShimStep(t)
  BY <1>2, IssuingLeavesUnanswered, TakingLeavesUnanswered DEF ShimStep
<1>3. ASSUME NEW t \in Shims, KillShim(t) PROVE PendingAreUnanswered'
  <2>1. /\ UNCHANGED reply
        /\ pending_put' = [pending_put EXCEPT ![t] = <<>>]
        /\ pending_get' = [pending_get EXCEPT ![t] = <<>>]
        /\ DOMAIN pending_put = Shims /\ DOMAIN pending_get = Shims
    BY <1>3 DEF KillShim, CrashShim, IndInv, ReplicationInv, TypeOK, ShimsTypeOK
  <2>. QED
    BY <2>1 DEF PendingAreUnanswered
<1>. QED
  BY <1>1, <1>2, <1>3
     DEF Next, CallerStep, Invoke, Refused, Completed, Indeterminate, HandlerStep,
         HandlerGone, SendCommand, DropHandler, ServerStep, KillServer,
         BreakConnection, LibraryStep,
         TestOver, vars, callerVars, shimVars

(***************************************************************************)
(* The theorem                                                             *)
(***************************************************************************)

LEMMA InitAnswerInv == Init => AnswerInv
<1>. SUFFICES ASSUME Init PROVE AcceptedAreSent /\ AppliedAreAnswered /\ PendingAreUnanswered
  BY InitIndInv DEF AnswerInv
<1>1. AcceptedAreSent
  BY DEF AcceptedAreSent, Accepted, Init, CallersInit
<1>2. AppliedAreAnswered
  <2>1. \A sh \in Shims : DOMAIN issued[sh] = {}
    BY DEF Init, ShimsInit
  <2>. QED
    BY <2>1 DEF AppliedAreAnswered
<1>3. PendingAreUnanswered
  BY DEF PendingAreUnanswered, Init, ShimsInit
<1>. QED
  BY <1>1, <1>2, <1>3

LEMMA NextAnswerInv == AnswerInv /\ [Next]_vars => AnswerInv'
<1>. SUFFICES ASSUME AnswerInv, [Next]_vars PROVE AnswerInv'
  OBVIOUS
<1>1. IndInv /\ IndInv'
  BY NextIndInv DEF AnswerInv
<1>2. AcceptedAreSent'
  BY <1>1, AcceptedAreSentStep DEF AnswerInv, IndInv, ReplicationInv
<1>3. AppliedAreAnswered'
  BY <1>1, AppliedAreAnsweredStep DEF AnswerInv
<1>4. PendingAreUnanswered'
  BY <1>1, PendingAreUnansweredStep DEF AnswerInv
<1>. QED
  BY <1>1, <1>2, <1>3, <1>4 DEF AnswerInv

\* A decided request whose server and shim live is answered, or its server has
\* yet to apply it.
LEMMA DecidedHasWork ==
    ASSUME AnswerInv, NEW r \in Requests, InLog(r), reply[r] = NoReply,
           shim_up[target[r]], server_up[target[r][1]]
    PROVE  HasWorkFor(r)
<1>. USE DEF AnswerInv, IndInv, ReplicationInv
<1> DEFINE sh == target[r]
           n  == target[r][1]
<1>1. /\ sh \in Shims /\ n \in Servers /\ log \in Seq(Commands)
      /\ current_decided_idx \in [Servers -> Nat]
      /\ commands \in [Servers -> Seq(Commands)]
  BY DEF Shims, TypeOK, CallersTypeOK, ServersTypeOK
<1>. PICK i \in DOMAIN log : Carries(log[i], r)
  BY DEF InLog
<1> DEFINE k == log[i].id + 1
<1>2. /\ log[i] \in Commands /\ log[i].id \in Nat /\ k - 1 = log[i].id
      /\ ShimOf(log[i]) = sh /\ k \in DOMAIN issued[sh] /\ issued[sh][k] = r
  <2>1. log[i] \in Commands
    BY <1>1
  <2>2. log[i].id \in Nat
    BY <2>1 DEF Commands
  <2>3. ShimOf(log[i]) = sh /\ k \in DOMAIN issued[sh] /\ issued[sh][k] = r
    BY DEF Carries, ShimOf
  <2>. QED
    BY <2>1, <2>2, <2>3
<1>3. CASE i <= Applied(n)
  <2>1. AppliedId(sh, k - 1)
    <3>1. Applied(n) \in Int
      BY <1>1 DEF Applied
    <3>2. i \in 1 .. Applied(n)
      BY <1>1, <1>3, <3>1
    <3>. QED
      BY <1>2, <3>2 DEF AppliedId
  <2>2. \E msg \in Range(to_client[sh]) : msg.id = k - 1
    BY <1>1, <1>2, <2>1 DEF AppliedAreAnswered, IsAnswered
  <2>3. to_client[sh] # <<>>
    BY <2>2, RangeOfEmpty
  <2>. QED
    BY <2>3 DEF HasWorkFor
<1>4. CASE ~(i <= Applied(n))
  <2>1. CASE commands[n] # <<>>
    BY <2>1 DEF HasWorkFor
  <2>2. CASE commands[n] = <<>>
    <3>1. Applied(n) = current_decided_idx[n]
      BY <1>1, <2>2 DEF Applied
    <3>2. current_decided_idx[n] < Len(log)
      BY <1>1, <1>4, <3>1
    <3>. QED
      BY <2>2, <3>2 DEF HasWorkFor
  <2>. QED
    BY <2>1, <2>2
<1>. QED
  BY <1>3, <1>4

LEMMA OwedHasWork == AnswerInv => OwedMeansWork
<1>. SUFFICES ASSUME AnswerInv, NEW r \in Requests, IsOwed(r)
              PROVE  HasWorkFor(r)
  BY DEF OwedMeansWork
<1>. USE DEF AnswerInv, IndInv, ReplicationInv
<1> DEFINE sh == target[r]
<1>1. /\ shim_up[sh] /\ server_up[sh[1]] /\ ~Lost(r) /\ reply[r] = NoReply
      /\ sh \in Shims /\ Sent(r)
  BY DEF IsOwed, Dropped, AcceptedAreSent, Accepted, TypeOK, CallersTypeOK
<1>2. CASE r \in in_flight
  <2>1. CASE Len(cmd_rx[sh]) < CmdCapacity
    BY <1>2, <2>1 DEF HasWorkFor
  <2>2. CASE ~(Len(cmd_rx[sh]) < CmdCapacity)
    <3>1. cmd_rx[sh] # <<>>
      BY <2>2, CmdCapacityAssumption
    <3>. QED
      BY <3>1 DEF HasWorkFor
  <2>. QED
    BY <2>1, <2>2
<1>3. ASSUME NEW t \in Shims, r \in Range(cmd_rx[t]) PROVE HasWorkFor(r)
  <2>1. sh = t
    BY <1>3 DEF RequestsAreIssuedOnce
  <2>2. cmd_rx[sh] # <<>>
    BY <1>3, <2>1, RangeOfEmpty
  <2>. QED
    BY <2>2 DEF HasWorkFor
<1>4. ASSUME NEW t \in Shims, r \in Range(issued[t]) PROVE HasWorkFor(r)
  <2>1. sh = t
    BY <1>4 DEF RequestsAreIssuedOnce
  <2>. PICK i \in DOMAIN issued[sh] : issued[sh][i] = r
    BY <1>4, <2>1 DEF Range
  <2>2. \/ \E j \in DOMAIN to_server[sh] : to_server[sh][j].id = i - 1
        \/ \E c \in proposals : Carries(c, r)
        \/ InLog(r)
    BY <1>1 DEF Lost
  <2>3. CASE \E j \in DOMAIN to_server[sh] : to_server[sh][j].id = i - 1
    <3>1. to_server[sh] # <<>>
      BY <2>3
    <3>. QED
      BY <3>1 DEF HasWorkFor
  <2>4. CASE \E c \in proposals : Carries(c, r)
    BY <2>4 DEF HasWorkFor
  <2>5. CASE InLog(r)
    BY <1>1, <2>5, DecidedHasWork
  <2>. QED
    BY <2>2, <2>3, <2>4, <2>5
<1>. QED
  BY <1>1, <1>2, <1>3, <1>4 DEF Sent, Range

\* No request is stuck on its way: until it is answered, a task of its own path
\* is ready, unless its caller gives up before the command is in the channel,
\* its shim, its server or the quorum dies, or its proposal is lost
\* (api_shim.rs:92-124, 168, 185, server.rs:114-147, 193-203).
THEOREM NoRequestIsStuck == Spec => []OwedMeansWork
BY InitAnswerInv, NextAnswerInv, OwedHasWork, PTL DEF Spec

(***************************************************************************)
(* Progress                                                                *)
(***************************************************************************)

\* Request r is not put back.
MovesOn(r) ==
    /\ r \in in_flight' => r \in in_flight
    /\ InChannel(r)' => InChannel(r) \/ r \in in_flight
    /\ OnLink(r)' => OnLink(r) \/ InChannel(r) \/ r \in in_flight
    /\ Proposed(r)' => Proposed(r) \/ OnLink(r) \/ InChannel(r) \/ r \in in_flight
    /\ Unanswered(r)' => \/ Unanswered(r) \/ Proposed(r) \/ OnLink(r)
                         \/ InChannel(r) \/ r \in in_flight

LEMMA Places ==
    ASSUME NEW r
    PROVE  StepsAhead(r) =
              {k \in 1 .. 5 : \/ r \in in_flight
                              \/ k <= 4 /\ InChannel(r)
                              \/ k <= 3 /\ OnLink(r)
                              \/ k <= 2 /\ Proposed(r)
                              \/ k <= 1 /\ Unanswered(r)}
BY DEF StepsAhead, InChannel, OnLink, Proposed, Unanswered

LEMMA PlacesNext ==
    ASSUME NEW r
    PROVE  StepsAhead(r)' =
              {k \in 1 .. 5 : \/ r \in in_flight'
                              \/ k <= 4 /\ InChannel(r)'
                              \/ k <= 3 /\ OnLink(r)'
                              \/ k <= 2 /\ Proposed(r)'
                              \/ k <= 1 /\ Unanswered(r)'}
BY DEF StepsAhead, InChannel, OnLink, Proposed, Unanswered

\* A request that is not put back has no more steps ahead, and fewer when it
\* has left the place where it was.
LEMMA AheadShrinks ==
    ASSUME NEW r, MovesOn(r)
    PROVE  /\ StepsAhead(r)' \subseteq StepsAhead(r)
           /\ r \in in_flight /\ r \notin in_flight' => 5 \notin StepsAhead(r)' /\ 5 \in StepsAhead(r)
           /\ InChannel(r) /\ ~InChannel(r)' /\ r \notin in_flight'
                 => 4 \notin StepsAhead(r)' /\ 4 \in StepsAhead(r)
           /\ OnLink(r) /\ ~OnLink(r)' /\ ~InChannel(r)' /\ r \notin in_flight'
                 => 3 \notin StepsAhead(r)' /\ 3 \in StepsAhead(r)
           /\ (Proposed(r) /\ ~Proposed(r)' /\ ~OnLink(r)' /\ ~InChannel(r)'
                 /\ r \notin in_flight')
                 => 2 \notin StepsAhead(r)' /\ 2 \in StepsAhead(r)
           /\ (Unanswered(r) /\ ~Unanswered(r)' /\ ~Proposed(r)' /\ ~OnLink(r)'
                 /\ ~InChannel(r)' /\ r \notin in_flight')
                 => 1 \notin StepsAhead(r)' /\ 1 \in StepsAhead(r)
<1>1. /\ 1 \in 1 .. 5 /\ 2 \in 1 .. 5 /\ 3 \in 1 .. 5 /\ 4 \in 1 .. 5 /\ 5 \in 1 .. 5
  OBVIOUS
<1>2. ASSUME NEW k \in 1 .. 5
      PROVE  k \in StepsAhead(r) <=> \/ r \in in_flight
                                     \/ k <= 4 /\ InChannel(r)
                                     \/ k <= 3 /\ OnLink(r)
                                     \/ k <= 2 /\ Proposed(r)
                                     \/ k <= 1 /\ Unanswered(r)
  BY Places
<1>3. ASSUME NEW k \in 1 .. 5
      PROVE  k \in StepsAhead(r)' <=> \/ r \in in_flight'
                                      \/ k <= 4 /\ InChannel(r)'
                                      \/ k <= 3 /\ OnLink(r)'
                                      \/ k <= 2 /\ Proposed(r)'
                                      \/ k <= 1 /\ Unanswered(r)'
  BY PlacesNext
<1>4. StepsAhead(r)' \subseteq StepsAhead(r)
  <2>1. ASSUME NEW k \in 1 .. 5, k \in StepsAhead(r)' PROVE k \in StepsAhead(r)
    BY <1>2, <1>3, <2>1 DEF MovesOn
  <2>2. StepsAhead(r)' \subseteq 1 .. 5
    BY PlacesNext
  <2>. QED
    BY <2>1, <2>2
<1>5. r \in in_flight /\ r \notin in_flight' => 5 \notin StepsAhead(r)' /\ 5 \in StepsAhead(r)
  BY <1>1, <1>2, <1>3
<1>6. InChannel(r) /\ ~InChannel(r)' /\ r \notin in_flight'
         => 4 \notin StepsAhead(r)' /\ 4 \in StepsAhead(r)
  BY <1>1, <1>2, <1>3
<1>7. OnLink(r) /\ ~OnLink(r)' /\ ~InChannel(r)' /\ r \notin in_flight'
         => 3 \notin StepsAhead(r)' /\ 3 \in StepsAhead(r)
  BY <1>1, <1>2, <1>3
<1>8. (Proposed(r) /\ ~Proposed(r)' /\ ~OnLink(r)' /\ ~InChannel(r)'
         /\ r \notin in_flight')
         => 2 \notin StepsAhead(r)' /\ 2 \in StepsAhead(r)
  BY <1>1, <1>2, <1>3
<1>9. (Unanswered(r) /\ ~Unanswered(r)' /\ ~Proposed(r)' /\ ~OnLink(r)'
         /\ ~InChannel(r)' /\ r \notin in_flight')
         => 1 \notin StepsAhead(r)' /\ 1 \in StepsAhead(r)
  BY <1>1, <1>2, <1>3
<1>. QED
  BY <1>4, <1>5, <1>6, <1>7, <1>8, <1>9

\* The step is progress of a request.
RequestsProgress ==
    /\ \A r \in Requests : StepsAhead(r)' \subseteq StepsAhead(r)
    /\ \E r \in Requests : StepsAhead(r)' # StepsAhead(r)

LEMMA SendingProgresses ==
    ASSUME IndInv, NEW q \in Requests, HandlerStep(q)
    PROVE  RequestsProgress
<1>. USE DEF IndInv, ReplicationInv
<1> DEFINE t == target[q]
<1>1. /\ t \in Shims /\ target \in [Requests -> Shims]
      /\ cmd_rx \in [Shims -> Seq(Requests)]
      /\ \A sh \in Shims : cmd_rx[sh] \in Queue(Requests)
  BY QueueTypes DEF TypeOK, CallersTypeOK, ShimsTypeOK
<1>2. /\ q \in in_flight /\ in_flight' = in_flight \ {q}
      /\ cmd_rx' = [cmd_rx EXCEPT ![t] = Append(cmd_rx[t], q)]
      /\ UNCHANGED <<target, reply, issued, to_server, proposals, log>>
  BY DEF HandlerStep, SendCommand, linkVars, libraryVars
<1>3. ASSUME NEW r \in Requests PROVE MovesOn(r)
  <2>1. InChannel(r)' => InChannel(r) \/ r \in in_flight
    <3>1. Range(Append(cmd_rx[t], q)) = Range(cmd_rx[t]) \cup {q}
      BY <1>1, RangeOfAppend
    <3>. QED
      BY <1>1, <1>2, <3>1 DEF InChannel
  <2>2. /\ OnLink(r)' <=> OnLink(r)
        /\ Proposed(r)' <=> Proposed(r)
        /\ Unanswered(r)' <=> Unanswered(r)
    BY <1>2 DEF OnLink, Proposed, Unanswered, InLog, Carries
  <2>. QED
    BY <1>2, <2>1, <2>2 DEF MovesOn
<1>4. 5 \in StepsAhead(q) /\ 5 \notin StepsAhead(q)'
  BY <1>2, <1>3, AheadShrinks
<1>. QED
  BY <1>3, <1>4, AheadShrinks DEF RequestsProgress

LEMMA IssuingProgresses ==
    ASSUME IndInv, [Next]_vars, NEW t \in Shims, TakePut(t) \/ TakeGet(t),
           UNCHANGED libraryVars
    PROVE  RequestsProgress
<1>. USE DEF IndInv, ReplicationInv
<1>1. /\ cmd_rx \in [Shims -> Seq(Requests)]
      /\ target \in [Requests -> Shims]
      /\ issued \in [Shims -> Seq(Requests)]
      /\ to_server \in [Shims -> Seq(ClientMessages)]
      /\ \A sh \in Shims : /\ cmd_rx[sh] \in Queue(Requests)
                           /\ to_server[sh] \in Queue(ClientMessages)
  BY QueueTypes DEF TypeOK, CallersTypeOK, ShimsTypeOK, LinksTypeOK
<1>. PICK q \in Requests : q = Head(cmd_rx[t])
  <2>1. cmd_rx[t] # <<>> /\ cmd_rx[t] \in Queue(Requests)
    BY <1>1 DEF TakePut, TakeGet
  <2>. QED
    BY <2>1, RangeOfTail
<1>2. /\ IssueCommand(t) /\ cmd_rx[t] # <<>>
      /\ cmd_rx' = [cmd_rx EXCEPT ![t] = Tail(cmd_rx[t])]
      /\ issued' = [issued EXCEPT ![t] = Append(issued[t], q)]
      /\ UNCHANGED <<target, reply, in_flight, proposals, log>>
  BY DEF TakePut, TakeGet, IssueCommand, callerVars, libraryVars
<1>3. /\ q \in Requests /\ q \in Range(cmd_rx[t])
      /\ Range(Tail(cmd_rx[t])) \subseteq Range(cmd_rx[t])
      /\ q \notin Range(Tail(cmd_rx[t]))
  <2>1. cmd_rx[t] \in Queue(Requests) /\ IsInjective(cmd_rx[t])
    BY <1>1 DEF RequestsAreIssuedOnce
  <2>. QED
    BY <1>2, <2>1, RangeOfTail
<1>4. target[q] = t /\ InChannel(q) /\ q \notin in_flight
  BY <1>3 DEF RequestsAreIssuedOnce, InChannel
<1>5. ASSUME NEW r, NEW c \in proposals \cup Range(log), Carries(c, r)'
      PROVE  Carries(c, r)
  <2>1. c \in Commands /\ IsNamed(c)
    BY QueueTypes, RangeInType DEF CommandsAreNamed, TypeOK, ServersTypeOK
  <2>2. IsNamed(c)' /\ RequestOf(c)' = RequestOf(c)
    BY <2>1, NamedStays
  <2>3. RequestOf(c)' = r
    BY <1>5 DEF Carries, RequestOf, ShimOf
  <2>. QED
    BY <2>1, <2>2, <2>3, EffectsAreNamed
<1>6. ASSUME NEW r \in Requests, NEW msg \in Range(to_server'[target[r]]),
             issued'[target[r]][msg.id + 1] = r
      PROVE  OnLink(r) \/ InChannel(r)
  <2> DEFINE sh == target[r]
  <2>1. sh \in Shims
    BY <1>1
  <2>2. CASE msg \in Range(to_server[sh])
    <3>1. IsNamed(CommandOf(sh, msg)) /\ msg \in ClientMessages
      BY <1>1, <2>1, <2>2, RangeInType DEF CommandsAreNamed
    <3>2. msg.id + 1 \in DOMAIN issued[sh]
      BY <2>1, <3>1, CommandOfType DEF IsNamed
    <3>3. issued'[sh][msg.id + 1] = issued[sh][msg.id + 1]
      BY <2>1, <3>2, IssuedStays
    <3>. QED
      BY <1>6, <2>2, <3>3 DEF OnLink
  <2>3. CASE msg \notin Range(to_server[sh])
    <3> DEFINE m == [id |-> next_request_id[t], kv_cmd |-> command[q]]
    <3>1. to_server' = [to_server EXCEPT ![t] = Append(to_server[t], m)]
      BY <1>2, <2>3 DEF IssueCommand, SendToServer
    <3>2. t = sh
      BY <1>1, <2>1, <2>3, <3>1
    <3>3. m \in ClientMessages /\ next_request_id[t] = Len(issued[t])
      <4>1. command[q] \in HttpCommands
        BY <1>3, IssuedIsInvoked
      <4>2. next_request_id[t] \in Nat /\ next_request_id[t] = Len(issued[t])
        BY DEF TypeOK, ShimsTypeOK, RequestsAreIssuedOnce
      <4>. QED
        BY <4>1, <4>2 DEF ClientMessages, HttpCommands, KVCommands
    <3>4. msg = m
      <4>1. to_server'[t] = Append(to_server[t], m)
        BY <1>1, <3>1
      <4>. HIDE DEF m
      <4>2. Range(Append(to_server[t], m)) = Range(to_server[t]) \cup {m}
        BY <1>1, <3>3, RangeOfAppend
      <4>. QED
        BY <1>6, <2>3, <3>2, <4>1, <4>2
    <3>5. issued'[t][Len(issued[t]) + 1] = q
      BY <1>1, <1>2, <1>3, AppendProperties
    <3>6. r = q
      BY <1>6, <3>2, <3>3, <3>4, <3>5
    <3>. QED
      BY <1>4, <3>6
  <2>. QED
    BY <2>2, <2>3
<1>7. ASSUME NEW r \in Requests PROVE MovesOn(r)
  <2>1. InChannel(r)' => InChannel(r)
    BY <1>1, <1>2, <1>3 DEF InChannel
  <2>2. OnLink(r)' => OnLink(r) \/ InChannel(r)
    BY <1>2, <1>6 DEF OnLink
  <2>3. Proposed(r)' => Proposed(r)
    BY <1>2, <1>5 DEF Proposed
  <2>4. Unanswered(r)' => Unanswered(r)
    <3>1. \A i \in DOMAIN log : log[i] \in Range(log)
      BY DEF Range
    <3>. QED
      BY <1>2, <1>5, <3>1 DEF Unanswered, InLog
  <2>. QED
    BY <1>2, <2>1, <2>2, <2>3, <2>4 DEF MovesOn
<1>8. ~InChannel(q)'
  BY <1>1, <1>2, <1>3, <1>4 DEF InChannel
<1>9. 4 \in StepsAhead(q) /\ 4 \notin StepsAhead(q)'
  BY <1>2, <1>3, <1>4, <1>7, <1>8, AheadShrinks
<1>. QED
  BY <1>3, <1>7, <1>9, AheadShrinks DEF RequestsProgress

LEMMA TakingProgresses ==
    ASSUME AnswerInv, [Next]_vars, NEW t \in Shims, TakeWrite(t) \/ TakeRead(t),
           UNCHANGED libraryVars
    PROVE  RequestsProgress
<1>. USE DEF AnswerInv
<1>1. UNCHANGED <<target, in_flight, cmd_rx, issued, to_server, proposals, log>>
  BY DEF TakeWrite, TakeRead, libraryVars
<1>2. PICK q \in Requests :
         InLog(q) /\ reply[q] = NoReply /\ reply'[q] # NoReply
  <2>. PICK q \in Requests, value \in Replies, id \in DOMAIN issued[t] :
          /\ q = issued[t][id] /\ InLog(q)
          /\ reply' = [reply EXCEPT ![q] = value]
          /\ \/ /\ TakeWrite(t) /\ id - 1 \in DOMAIN pending_put[t]
                /\ pending_put[t][id - 1] = q
             \/ /\ TakeRead(t) /\ id - 1 \in DOMAIN pending_get[t]
                /\ pending_get[t][id - 1] = q
    <3>. PICK q \in Requests, value \in Replies, id \in DOMAIN issued[t] :
            /\ q = issued[t][id] /\ InLog(q)
            /\ reply' = [reply EXCEPT ![q] = value]
            /\ \/ /\ TakeWrite(t) /\ id - 1 \in DOMAIN pending_put[t]
                  /\ pending_put' = [pending_put EXCEPT ![t] =
                         Restrict(pending_put[t], DOMAIN pending_put[t] \ {id - 1})]
                  /\ UNCHANGED pending_get
                  /\ pending_put[t][id - 1] = q /\ command[q].type = "Put"
               \/ /\ TakeRead(t) /\ id - 1 \in DOMAIN pending_get[t]
                  /\ pending_get' = [pending_get EXCEPT ![t] =
                         Restrict(pending_get[t], DOMAIN pending_get[t] \ {id - 1})]
                  /\ UNCHANGED pending_put
                  /\ pending_get[t][id - 1] = q /\ command[q].type = "Get"
      BY TakingMoves
    <3>. QED
      OBVIOUS
  <2>1. reply[q] = NoReply
    BY DEF PendingAreUnanswered
  <2>2. reply \in [Requests -> Replies \cup {NoReply}] /\ NoReply \notin Replies
    BY NoReplyAssumption
       DEF IndInv, ReplicationInv, TypeOK, CallersTypeOK, Replies
  <2>. QED
    BY <2>1, <2>2
<1>3. \A r : InLog(r)' <=> InLog(r)
  BY <1>1 DEF InLog, Carries
<1>4. ASSUME NEW r \in Requests PROVE MovesOn(r)
  <2>1. Unanswered(r)' => Unanswered(r)
    <3>1. reply'[r] = NoReply => reply[r] = NoReply
      BY RepliesStay DEF IndInv, ReplicationInv
    <3>. QED
      BY <1>3, <3>1 DEF Unanswered
  <2>. QED
    BY <1>1, <2>1 DEF MovesOn, InChannel, OnLink, Proposed, Carries
<1>5. Unanswered(q) /\ ~Unanswered(q)'
  BY <1>2 DEF Unanswered
<1>6. ~Proposed(q)' /\ ~OnLink(q)' /\ ~InChannel(q)' /\ q \notin in_flight'
  <2>1. q \notin in_flight /\ ~InChannel(q) /\ ~OnLink(q) /\ ~Proposed(q)
    BY <1>2, AnsweredIsPast
  <2>. QED
    BY <1>1, <2>1 DEF InChannel, OnLink, Proposed, Carries
<1>7. 1 \in StepsAhead(q) /\ 1 \notin StepsAhead(q)'
  BY <1>4, <1>5, <1>6, AheadShrinks
<1>. QED
  BY <1>4, <1>7, AheadShrinks DEF RequestsProgress

LEMMA ProposingProgresses ==
    ASSUME IndInv, NEW t \in Shims, HandleClientMessage(t), UNCHANGED callerVars,
           UNCHANGED shimVars
    PROVE  RequestsProgress
<1>. USE DEF IndInv, ReplicationInv
<1>. PICK m \in Range(to_server[t]) :
        /\ m = Head(to_server[t]) /\ to_server[t] # <<>>
        /\ to_server' = [to_server EXCEPT ![t] = Tail(to_server[t])]
        /\ proposals' = proposals \cup {CommandOf(t, m)}
        /\ UNCHANGED log
  BY HandleMoves
<1>. PICK c : c = CommandOf(t, m)
  OBVIOUS
<1>. PICK q : q = RequestOf(c)
  OBVIOUS
<1>1. /\ to_server \in [Shims -> Seq(ClientMessages)]
      /\ \A sh \in Shims : to_server[sh] \in Queue(ClientMessages)
      /\ UNCHANGED <<target, reply, in_flight, cmd_rx, issued>>
  BY QueueTypes DEF TypeOK, LinksTypeOK, callerVars, shimVars
<1>2. /\ m \in ClientMessages /\ c \in Commands /\ ShimOf(c) = t /\ c.id = m.id
      /\ IsNamed(c)
  BY <1>1, RangeInType, CommandOfType DEF CommandsAreNamed
<1>3. /\ q = issued[t][m.id + 1] /\ q \in Range(issued[t]) /\ target[q] = t
      /\ q \in Requests
  BY <1>2, EffectsAreNamed, IssuedIsInvoked DEF RequestOf
<1>4. OnLink(q)
  BY <1>3 DEF OnLink
<1>5. /\ Range(Tail(to_server[t])) \subseteq Range(to_server[t])
      /\ m \notin Range(Tail(to_server[t]))
  <2>1. IsInjective(to_server[t])
    BY DEF CommandsAreOnce
  <2>. QED
    BY <1>1, <2>1, RangeOfTail
<1>6. ASSUME NEW r \in Requests PROVE MovesOn(r)
  <2>1. OnLink(r)' => OnLink(r)
    BY <1>1, <1>5 DEF OnLink, TypeOK, CallersTypeOK
  <2>2. Proposed(r)' => Proposed(r) \/ OnLink(r)
    <3>1. ASSUME NEW d \in proposals', Carries(d, r) PROVE Proposed(r) \/ OnLink(r)
      <4>1. CASE d \in proposals
        BY <3>1, <4>1 DEF Proposed
      <4>2. CASE d = c
        <5>1. r = q
          BY <1>2, <3>1, <4>2, EffectsAreNamed
        <5>. QED
          BY <1>4, <5>1
      <4>. QED
        BY <3>1, <4>1, <4>2
    <3>2. \A d : Carries(d, r)' <=> Carries(d, r)
      BY <1>1 DEF Carries
    <3>. QED
      BY <3>1, <3>2 DEF Proposed
  <2>3. Unanswered(r)' => Unanswered(r)
    BY <1>1 DEF Unanswered, InLog, Carries
  <2>. QED
    BY <1>1, <2>1, <2>2, <2>3 DEF MovesOn, InChannel
<1>7. q \notin in_flight' /\ ~InChannel(q)'
  BY <1>1, <1>3, IssuedIsPast DEF InChannel
<1>8. ~OnLink(q)'
  <2>. SUFFICES ASSUME NEW n \in Range(Tail(to_server[t])), issued[t][n.id + 1] = q
                PROVE  FALSE
    BY <1>1, <1>3 DEF OnLink
  <2> DEFINE d == CommandOf(t, n)
  <2>1. n \in Range(to_server[t]) /\ n \in ClientMessages
    BY <1>1, <1>5, RangeInType
  <2>2. d \in Commands /\ ShimOf(d) = t /\ d.id = n.id /\ IsNamed(d)
    BY <2>1, CommandOfType DEF CommandsAreNamed
  <2>3. RequestOf(d) = q
    BY <2>2 DEF RequestOf
  <2>4. d = c
    BY <1>2, <2>2, <2>3, RequestsNameCommands
  <2>5. n = m
    BY <1>2, <2>1, <2>4, CommandOfInjective
  <2>. QED
    BY <1>5, <2>5
<1>9. 3 \in StepsAhead(q) /\ 3 \notin StepsAhead(q)'
  BY <1>3, <1>4, <1>6, <1>7, <1>8, AheadShrinks
<1>. QED
  BY <1>3, <1>6, <1>9, AheadShrinks DEF RequestsProgress

LEMMA LibraryProgresses ==
    ASSUME IndInv, LibraryStep
    PROVE  RequestsProgress
<1>. USE DEF IndInv, ReplicationInv
<1>. PICK c \in proposals : Decide(c) \/ LoseProposal(c)
  BY DEF LibraryStep
<1>. PICK q : q = RequestOf(c)
  OBVIOUS
<1>1. /\ UNCHANGED <<target, reply, in_flight, cmd_rx, issued, to_server>>
      /\ proposals' = proposals \ {c}
  BY DEF LibraryStep, Decide, LoseProposal, callerVars, shimVars, linkVars
<1>2. c \in Commands /\ IsNamed(c)
  BY DEF CommandsAreNamed, TypeOK, ServersTypeOK
<1>3. Carries(c, q) /\ q \in Requests
  BY <1>2, EffectsAreNamed, ShimOfType, IssuedIsInvoked
<1>4. \A d, r : Carries(d, r)' <=> Carries(d, r)
  BY <1>1 DEF Carries
<1>5. \A r : InLog(r)' => InLog(r) \/ Carries(c, r)
  <2>1. log \in Seq(Commands)
    BY DEF TypeOK, ServersTypeOK
  <2>2. \A i \in DOMAIN log' : log'[i] = c \/ (i \in DOMAIN log /\ log'[i] = log[i])
    BY <1>2, <2>1, AppendProperties DEF Decide, LoseProposal
  <2>. QED
    BY <1>4, <2>2 DEF InLog
<1>6. ASSUME NEW r \in Requests PROVE MovesOn(r)
  <2>1. Proposed(r)' => Proposed(r)
    BY <1>1, <1>4 DEF Proposed
  <2>2. Unanswered(r)' => Unanswered(r) \/ Proposed(r)
    BY <1>1, <1>5 DEF Unanswered, Proposed
  <2>. QED
    BY <1>1, <2>1, <2>2 DEF MovesOn, InChannel, OnLink
<1>7. /\ q \notin in_flight' /\ ~InChannel(q)' /\ ~OnLink(q)'
      /\ Proposed(q) /\ ~Proposed(q)'
  <2>1. /\ q \notin in_flight /\ ~InChannel(q) /\ ~OnLink(q)
        /\ \A d \in proposals \cup Range(log) : Carries(d, q) => d = c
    BY <1>3, ProposedIsPast
  <2>. QED
    BY <1>1, <1>3, <1>4, <2>1 DEF InChannel, OnLink, Proposed
<1>8. 2 \in StepsAhead(q) /\ 2 \notin StepsAhead(q)'
  BY <1>3, <1>6, <1>7, AheadShrinks
<1>. QED
  BY <1>3, <1>6, <1>8, AheadShrinks DEF RequestsProgress

\* The two loops of a server shorten its backlog and touch no request's place.
LEMMA ServersProgress ==
    ASSUME IndInv, NEW n \in Servers,
           HandleDecidedEntries(n) \/ UpdateDatabaseAndRespond(n),
           UNCHANGED callerVars, UNCHANGED shimVars
    PROVE  /\ \A r \in Requests : StepsAhead(r)' = StepsAhead(r)
           /\ \A m \in Servers : Backlog(m)' <= Backlog(m)
           /\ Backlog(n)' < Backlog(n)
<1>. USE DEF IndInv, ReplicationInv
<1>1. /\ log \in Seq(Commands)
      /\ current_decided_idx \in [Servers -> Nat]
      /\ commands \in [Servers -> Seq(Commands)]
      /\ UNCHANGED log
  BY DEF TypeOK, ServersTypeOK, HandleDecidedEntries, News, AdvanceTo,
         UpdateDatabaseAndRespond,
         libraryVars
<1>2. \A r \in Requests : StepsAhead(r)' = StepsAhead(r)
  <2>1. UNCHANGED <<target, reply, in_flight, cmd_rx, issued, to_server, proposals,
  log>>
    BY DEF HandleDecidedEntries, News, AdvanceTo, UpdateDatabaseAndRespond, callerVars,
           shimVars,
           linkVars, libraryVars
  <2>. QED
    BY <2>1 DEF StepsAhead, InLog, Carries
<1>3. \A m \in Servers : Backlog(m) \in Int
  BY <1>1 DEF Backlog
<1>4. CASE HandleDecidedEntries(n)
  <2>. PICK idx \in current_decided_idx[n] + 1 .. Len(log) :
          /\ commands' = [commands EXCEPT ![n] =
                              DecidedSuffix(current_decided_idx[n], idx)]
          /\ current_decided_idx' = [current_decided_idx EXCEPT ![n] = idx]
    BY <1>4 DEF HandleDecidedEntries, News, AdvanceTo
  <2>1. Len(DecidedSuffix(current_decided_idx[n], idx)) = idx - current_decided_idx[n]
    BY <1>1, SubSeqProperties DEF DecidedSuffix
  <2>2. /\ commands[n] = <<>> /\ current_decided_idx[n] \in Nat /\ idx \in Int
        /\ idx > current_decided_idx[n] /\ Len(log) \in Nat
    BY <1>1, <1>4 DEF HandleDecidedEntries, News, AdvanceTo
  <2>3. /\ commands'[n] = DecidedSuffix(current_decided_idx[n], idx)
        /\ current_decided_idx'[n] = idx
    BY <1>1
  <2>4. Backlog(n)' = 2 * (Len(log) - idx) + (idx - current_decided_idx[n])
    BY <1>1, <2>1, <2>3 DEF Backlog
  <2>5. Backlog(n) = 2 * (Len(log) - current_decided_idx[n])
    BY <1>1, <2>2 DEF Backlog
  <2>6. Backlog(n)' \in Int /\ Backlog(n)' < Backlog(n)
    BY <2>2, <2>4, <2>5
  <2>7. \A m \in Servers : m # n => Backlog(m)' = Backlog(m)
    BY <1>1 DEF Backlog
  <2>. QED
    BY <1>2, <1>3, <2>6, <2>7
<1>5. CASE UpdateDatabaseAndRespond(n)
  <2>1. /\ commands' = [commands EXCEPT ![n] = Tail(commands[n])]
        /\ commands[n] # <<>> /\ UNCHANGED current_decided_idx
    BY <1>5 DEF UpdateDatabaseAndRespond
  <2>2. /\ commands'[n] = Tail(commands[n]) /\ Len(commands[n]) \in Nat
        /\ Len(Tail(commands[n])) = Len(commands[n]) - 1
    BY <1>1, <2>1, HeadTailProperties
  <2>3. Backlog(n)' = Backlog(n) - 1
    BY <1>1, <2>1, <2>2 DEF Backlog
  <2>4. \A m \in Servers : m # n => Backlog(m)' = Backlog(m)
    BY <1>1, <2>1 DEF Backlog
  <2>. QED
    BY <1>2, <1>3, <2>3, <2>4
<1>. QED
  BY <1>4, <1>5

\* Each step of a task takes one off what is ahead of a request or of a server,
\* and none puts one back, so the tasks come to rest when callers stop
\* (api_shim.rs:92-124, server.rs:114-147, 193-203).
THEOREM Progress == Spec => TasksMakeProgress
<1> DEFINE Advance ==
       TaskStep =>
          /\ \A r \in Requests : StepsAhead(r)' \subseteq StepsAhead(r)
          /\ \/ \E r \in Requests : StepsAhead(r)' # StepsAhead(r)
             \/ /\ \A n \in Servers : Backlog(n)' <= Backlog(n)
                /\ \E n \in Servers : Backlog(n)' < Backlog(n)
<1>1. AnswerInv /\ [Next]_vars => [Advance]_vars
  <2>. SUFFICES ASSUME AnswerInv, [Next]_vars, TaskStep PROVE Advance
    OBVIOUS
  <2>1. CASE \E r \in Requests : HandlerStep(r)
    BY <2>1, SendingProgresses DEF RequestsProgress, AnswerInv
  <2>2. CASE \E sh \in Shims : ShimStep(sh)
    BY <2>2, IssuingProgresses, TakingProgresses
       DEF RequestsProgress, ShimStep, AnswerInv
  <2>3. ASSUME NEW n \in Servers, ServerStep(n) PROVE Advance
    BY <2>3, ProposingProgresses, ServersProgress
       DEF RequestsProgress, ServerStep, AnswerInv
  <2>4. CASE LibraryStep
    BY <2>4, LibraryProgresses DEF RequestsProgress, AnswerInv
  <2>. QED
    BY <2>1, <2>2, <2>3, <2>4 DEF TaskStep
<1>. QED
  BY <1>1, InitAnswerInv, NextAnswerInv, PTL DEF Spec, TasksMakeProgress

(***************************************************************************)
(* Reads see the last write, without trust in any database                 *)
(***************************************************************************)

\* The history of databases holds what the commands before each place wrote.
ReplayHoldsLastWrites ==
    \A i \in 1 .. Len(log) + 1 : \A k \in Keys : LastWritten(replay[i][k], k, i)

\* What handle_command does to one key.
LEMMA HandledKey ==
    ASSUME NEW d \in Databases, NEW cmd \in KVCommands, NEW k \in Keys
    PROVE  HandleCommand(d, cmd)[k] = IF Writes(cmd, k) THEN Written(cmd) ELSE d[k]
BY DEF Databases, KVCommands, PutCommands, DeleteCommands, GetCommands,
       HandleCommand, Writes, Written

\* What was last written before a place does not depend on what comes later.
LEMMA LastWrittenStays ==
    ASSUME NEW v, NEW k, NEW i \in Nat, \A j \in 1 .. i - 1 : log'[j] = log[j],
           LastWritten(v, k, i)
    PROVE  LastWritten(v, k, i)'
<1>1. CASE v = NoValue /\ \A j \in 1 .. i - 1 : ~Writes(log[j].kv_cmd, k)
  BY <1>1 DEF LastWritten, Writes, Written
<1>2. CASE \E j \in 1 .. i - 1 :
              /\ Writes(log[j].kv_cmd, k) /\ v = Written(log[j].kv_cmd)
              /\ \A m \in j + 1 .. i - 1 : ~Writes(log[m].kv_cmd, k)
  <2>1. PICK j \in 1 .. i - 1 :
              /\ Writes(log[j].kv_cmd, k) /\ v = Written(log[j].kv_cmd)
              /\ \A m \in j + 1 .. i - 1 : ~Writes(log[m].kv_cmd, k)
    BY <1>2
  <2>2. \A m \in j + 1 .. i - 1 : m \in 1 .. i - 1
    OBVIOUS
  <2>3. /\ Writes(log'[j].kv_cmd, k) /\ v = Written(log'[j].kv_cmd)
        /\ \A m \in j + 1 .. i - 1 : ~Writes(log'[m].kv_cmd, k)
    BY <2>1, <2>2
  <2>. QED
    BY <2>3 DEF LastWritten, Writes, Written
<1>. QED
  BY <1>1, <1>2 DEF LastWritten

\* One more command writes its key, and leaves the others.
LEMMA OneMoreCommand ==
    ASSUME NEW v, NEW w, NEW k, NEW i \in Nat \ {0}, LastWritten(v, k, i)',
           w = IF Writes(log'[i].kv_cmd, k) THEN Written(log'[i].kv_cmd) ELSE v
    PROVE  LastWritten(w, k, i + 1)'
<1>1. i + 1 - 1 = i /\ 1 .. i = 1 .. i - 1 \cup {i} /\ i + 1 .. i = {}
  OBVIOUS
<1>2. CASE Writes(log'[i].kv_cmd, k)
  BY <1>1, <1>2 DEF LastWritten, Writes, Written
<1>3. CASE ~Writes(log'[i].kv_cmd, k)
  <2>1. \A j \in 1 .. i - 1 : \A m \in j + 1 .. i : m \in j + 1 .. i - 1 \/ m = i
    OBVIOUS
  <2>. QED
    BY <1>1, <1>3, <2>1 DEF LastWritten, Writes, Written
<1>. QED
  BY <1>2, <1>3

LEMMA NextReplayHoldsLastWrites ==
    IndInv /\ ReplayHoldsLastWrites /\ [Next]_vars => ReplayHoldsLastWrites'
<1>. SUFFICES ASSUME IndInv, ReplayHoldsLastWrites, [Next]_vars
              PROVE  ReplayHoldsLastWrites'
  OBVIOUS
<1>1. TypeOK /\ ReplayFollowsLog /\ TypeOK' /\ ReplayFollowsLog'
  BY NextIndInv DEF IndInv, ReplicationInv
<1>2. ASSUME NEW c \in proposals, Decide(c)
      PROVE  ReplayHoldsLastWrites'
  <2>1. /\ log \in Seq(Commands) /\ c \in Commands /\ log' = Append(log, c)
        /\ replay \in Seq(Databases) /\ Len(replay) = Len(log) + 1
        /\ replay' = Append(replay, HandleCommand(replay[Len(replay)], c.kv_cmd))
    BY <1>1, <1>2 DEF Decide, TypeOK, ServersTypeOK, ReplayFollowsLog
  <2>2. PICK len : len = Len(log)
    OBVIOUS
  <2>3. /\ len \in Nat /\ Len(log') = len + 1 /\ log'[len + 1] = c
        /\ \A j \in 1 .. len : log'[j] = log[j]
        /\ \A j \in 1 .. len + 1 : replay'[j] = replay[j]
        /\ replay'[len + 2] = HandleCommand(replay[len + 1], c.kv_cmd)
        /\ replay[len + 1] \in Databases /\ c.kv_cmd \in KVCommands
    BY <2>1, <2>2 DEF Commands
  <2>4. ASSUME NEW k \in Keys, NEW i \in 1 .. len + 1
        PROVE  LastWritten(replay[i][k], k, i)'
    <3>1. PICK v : v = replay[i][k]
      OBVIOUS
    <3>2. LastWritten(v, k, i)
      BY <2>2, <3>1 DEF ReplayHoldsLastWrites
    <3>3. i \in Nat /\ \A j \in 1 .. i - 1 : log'[j] = log[j]
      BY <2>3
    <3>4. LastWritten(v, k, i)'
      BY <3>2, <3>3, LastWrittenStays
    <3>5. replay'[i][k] = v
      BY <2>3, <3>1
    <3>. QED
      BY <3>4, <3>5
  <2>5. ASSUME NEW k \in Keys
        PROVE  LastWritten(replay[len + 2][k], k, len + 2)'
    <3>1. PICK v : v = replay'[len + 1][k]
      OBVIOUS
    <3>2. LastWritten(v, k, len + 1)'
      BY <2>3, <2>4, <3>1
    <3>3. PICK w : w = replay'[len + 2][k]
      OBVIOUS
    <3>4. w = IF Writes(log'[len + 1].kv_cmd,
    k) THEN Written(log'[len + 1].kv_cmd) ELSE v
      BY <2>3, <3>1, <3>3, HandledKey
    <3>5. LastWritten(w, k, (len + 1) + 1)'
      BY <2>3, <3>2, <3>4, OneMoreCommand
    <3>6. (len + 1) + 1 = len + 2
      BY <2>3
    <3>. QED
      BY <3>3, <3>5, <3>6
  <2>6. \A i \in 1 .. Len(log') + 1 : i \in 1 .. len + 1 \/ i = len + 2
    BY <2>3
  <2>. QED
    BY <2>4, <2>5, <2>6 DEF ReplayHoldsLastWrites
<1>3. CASE UNCHANGED <<log, replay>>
  BY <1>3 DEF ReplayHoldsLastWrites, LastWritten, Writes, Written
<1>4. (\E c \in proposals : Decide(c)) \/ UNCHANGED <<log, replay>>
  BY DEF Next, CallerStep, HandlerStep, HandlerGone, ShimStep, ServerStep,
         HandleClientMessage,
         TakeMessage, AppendToLog, HandleDecidedEntries, News, AdvanceTo,
         UpdateDatabaseAndRespond, KillShim, KillServer, CrashServer,
         BreakConnection, LibraryStep, LoseProposal, TestOver, vars, libraryVars
<1>. QED
  BY <1>2, <1>3, <1>4

LEMMA ReplayInvariance == Spec => [](IndInv /\ ReplayHoldsLastWrites)
<1>1. Init => ReplayHoldsLastWrites
  <2>. SUFFICES ASSUME Init PROVE ReplayHoldsLastWrites
    OBVIOUS
  <2>1. log = <<>> /\ replay = <<EmptyDatabase>>
    BY DEF Init, ServersInit
  <2>2. ASSUME NEW k \in Keys PROVE LastWritten(replay[1][k], k, 1)
    BY <2>1 DEF LastWritten, EmptyDatabase
  <2>3. \A i \in 1 .. Len(log) + 1 : i = 1
    BY <2>1
  <2>. QED
    BY <2>2, <2>3 DEF ReplayHoldsLastWrites
<1>. QED
  BY <1>1, InitIndInv, NextIndInv, NextReplayHoldsLastWrites, PTL DEF Spec

\* A read that was told :ok was told what the last write to its key before it
\* wrote, or 404 when there was none (database.rs:13-24, server.rs:135-147,
\* api_shim.rs:112-124).
THEOREM ReadSafety == Spec => []ReadsSeeLastWrite
<1>1. IndInv /\ ReplayHoldsLastWrites => ReadsSeeLastWrite
  <2>. SUFFICES ASSUME IndInv, ReplayHoldsLastWrites, NEW r \in Requests,
                       outcome[r] = "ok", command[r].type = "Get"
                PROVE  \E i \in Effects(r) : LastWritten(answer[r], command[r].key, i)
    BY DEF ReadsSeeLastWrite
  <2>1. PICK i \in Effects(r) : log[i].kv_cmd = command[r] /\ answer[r] = ResultAt(r, i)
    BY DEF IndInv, AnswersComeFromLog
  <2>2. i \in 1 .. Len(log) /\ log[i].kv_cmd \in KVCommands
    <3>1. i \in DOMAIN log
      BY DEF Effects
    <3>2. log[i] \in Commands
      BY <3>1, LogIsNamed DEF IndInv, ReplicationInv
    <3>. QED
      BY <3>1, <3>2 DEF Commands, IndInv, ReplicationInv, TypeOK, ServersTypeOK
  <2>3. command[r].key \in Keys
    BY <2>1, <2>2 DEF KVCommands, PutCommands, DeleteCommands, GetCommands
  <2>4. answer[r] = replay[i][command[r].key]
    BY <2>1 DEF ResultAt, ReadResult
  <2>5. i \in 1 .. Len(log) + 1
    BY <2>2 DEF IndInv, ReplicationInv, TypeOK, ServersTypeOK
  <2>. QED
    BY <2>3, <2>4, <2>5 DEF ReplayHoldsLastWrites
<1>. QED
  BY <1>1, ReplayInvariance, PTL

\* The database of every server holds, key by key, what the last of the
\* commands that it has applied wrote (database.rs:13-24, server.rs:114-147).
THEOREM DatabaseSafety ==
    Spec => [](\A n \in Servers : \A k \in Keys :
                  LastWritten(database[n][k], k, Applied(n) + 1))
<1>1. IndInv /\ ReplayHoldsLastWrites =>
          \A n \in Servers : \A k \in Keys : LastWritten(database[n][k], k, Applied(n) + 1)
  <2>. SUFFICES ASSUME IndInv, ReplayHoldsLastWrites, NEW n \in Servers, NEW k \in Keys
                PROVE  LastWritten(database[n][k], k, Applied(n) + 1)
    OBVIOUS
  <2>1. /\ current_decided_idx[n] <= Len(log) /\ Len(commands[n]) <= current_decided_idx[n]
        /\ database[n] = replay[Applied(n) + 1]
    BY DEF IndInv, ReplicationInv, DatabaseFollowsLog
  <2>2. current_decided_idx[n] \in Nat /\ Len(commands[n]) \in Nat /\ Len(log) \in Nat
    BY DEF IndInv, ReplicationInv, TypeOK, ServersTypeOK
  <2>3. Applied(n) + 1 \in 1 .. Len(log) + 1
    BY <2>1, <2>2 DEF Applied
  <2>. QED
    BY <2>1, <2>3 DEF ReplayHoldsLastWrites
<1>. QED
  BY <1>1, ReplayInvariance, PTL
=============================================================================
