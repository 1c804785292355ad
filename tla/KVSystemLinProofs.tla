-------------------------- MODULE KVSystemLinProofs -------------------------
(***************************************************************************)
(* KVSystem implements LinearizableKV, for any sets of servers, clients,   *)
(* requests, keys and values: the names of commands, what follows a        *)
(* command to the log and its answer back, and the refinement.             *)
(***************************************************************************)
EXTENDS KVSystemProofs, QueueLemmas, FiniteSetTheorems

(***************************************************************************)
(* Sequences as the sets of their elements                                 *)
(***************************************************************************)

LEMMA RangeOfAppend ==
    ASSUME NEW S, NEW s, NEW x, s \in Queue(S), x \in S
    PROVE  /\ Append(s, x) \in Queue(S)
           /\ Range(Append(s, x)) = Range(s) \cup {x}
           /\ IsInjective(s) /\ x \notin Range(s) => IsInjective(Append(s, x))
BY AppendProperties DEF Queue, Range, IsInjective

LEMMA RangeOfTail ==
    ASSUME NEW S, NEW s, s \in Queue(S), s # <<>>
    PROVE  /\ Head(s) \in Range(s) /\ Head(s) \in S
           /\ Tail(s) \in Queue(S)
           /\ Range(Tail(s)) \subseteq Range(s)
           /\ Range(s) = Range(Tail(s)) \cup {Head(s)}
           /\ IsInjective(s) => IsInjective(Tail(s)) /\ Head(s) \notin Range(Tail(s))
<1>. USE DEF Queue
<1>1. /\ Tail(s) \in Seq(S) /\ Len(Tail(s)) = Len(s) - 1
      /\ Head(s) = s[1] /\ Len(s) \in Nat /\ 1 \in DOMAIN s /\ Head(s) \in S
      /\ \A i \in 1 .. Len(s) - 1 : Tail(s)[i] = s[i + 1]
  BY HeadTailProperties
<1>2. Range(Tail(s)) \subseteq Range(s)
  <2>1. ASSUME NEW i \in DOMAIN Tail(s) PROVE Tail(s)[i] \in Range(s)
    <3>1. i + 1 \in DOMAIN s /\ Tail(s)[i] = s[i + 1]
      BY <1>1
    <3>. QED
      BY <3>1 DEF Range
  <2>. QED
    BY <2>1 DEF Range
<1>3. Range(s) \subseteq Range(Tail(s)) \cup {Head(s)}
  <2>1. ASSUME NEW i \in DOMAIN s, i # 1 PROVE s[i] \in Range(Tail(s))
    <3>1. i - 1 \in DOMAIN Tail(s) /\ Tail(s)[i - 1] = s[i]
      BY <1>1, <2>1
    <3>. QED
      BY <3>1 DEF Range
  <2>. QED
    BY <1>1, <2>1 DEF Range
<1>4. ASSUME IsInjective(s)
      PROVE  IsInjective(Tail(s)) /\ Head(s) \notin Range(Tail(s))
  <2>1. ASSUME NEW i \in DOMAIN Tail(s)
        PROVE  i + 1 \in DOMAIN s /\ i + 1 # 1 /\ Tail(s)[i] = s[i + 1]
    BY <1>1
  <2>2. Head(s) \notin Range(Tail(s))
    BY <1>1, <1>4, <2>1 DEF Range, IsInjective
  <2>3. IsInjective(Tail(s))
    BY <1>1, <1>4 DEF IsInjective
  <2>. QED
    BY <2>2, <2>3
<1>5. Head(s) \in Range(s)
  BY <1>1 DEF Range
<1>. QED
  BY <1>1, <1>2, <1>3, <1>4, <1>5

LEMMA RangeOfEmpty ==
    Range(<<>>) = {} /\ IsInjective(<<>>)
BY DEF Range, IsInjective

LEMMA RangeInType ==
    ASSUME NEW S, NEW s, s \in Queue(S)
    PROVE  \A x \in Range(s) : x \in S
BY DEF Queue, Range

\* The types of the sequences of the system.
LEMMA QueueTypes ==
    ASSUME TypeOK
    PROVE  /\ log \in Queue(Commands)
           /\ \A sh \in Shims : /\ issued[sh] \in Queue(Requests)
                                /\ cmd_rx[sh] \in Queue(Requests)
                                /\ to_server[sh] \in Queue(ClientMessages)
                                /\ to_client[sh] \in Queue(ServerMessages)
           /\ \A n \in Servers : commands[n] \in Queue(Commands)
BY DEF Queue, TypeOK, ShimsTypeOK, LinksTypeOK, ServersTypeOK

(***************************************************************************)
(* Names: what a command says of its request stays true                    *)
(***************************************************************************)

LEMMA ShimOfType ==
    ASSUME NEW c, c \in Commands
    PROVE  /\ ShimOf(c) \in Shims /\ ShimOf(c)[1] = c.coordinator_id
           /\ c.id \in Nat /\ c.kv_cmd \in KVCommands
BY DEF ShimOf, Commands, Shims

LEMMA CommandOfType ==
    ASSUME NEW sh, NEW msg, sh \in Shims, msg \in ClientMessages
    PROVE  /\ CommandOf(sh, msg) \in Commands
           /\ ShimOf(CommandOf(sh, msg)) = sh
           /\ CommandOf(sh, msg).id = msg.id
           /\ CommandOf(sh, msg).kv_cmd = msg.kv_cmd
           /\ msg.id \in Nat
BY DEF CommandOf, Commands, ShimOf, Shims, ClientMessages

LEMMA CommandOfInjective ==
    ASSUME NEW sh, NEW a, NEW b, sh \in Shims,
           a \in ClientMessages, b \in ClientMessages,
           CommandOf(sh, a) = CommandOf(sh, b)
    PROVE  a = b
<1>1. a.id = b.id /\ a.kv_cmd = b.kv_cmd
  BY CommandOfType
<1>. QED
  BY <1>1 DEF ClientMessages

\* A command is known by its shim, its id and what it does.
LEMMA CommandsAreRecords ==
    ASSUME NEW a, NEW b, a \in Commands, b \in Commands,
           ShimOf(a) = ShimOf(b), a.id = b.id, a.kv_cmd = b.kv_cmd
    PROVE  a = b
BY DEF Commands, ShimOf

\* What changes the commands and where requests are.
LEMMA IssuedGrows ==
    ASSUME TypeOK, [Next]_vars, NEW sh \in Shims
    PROVE  \/ issued'[sh] = issued[sh]
           \/ /\ IssueCommand(sh) /\ cmd_rx[sh] # <<>>
              /\ issued'[sh] = Append(issued[sh], Head(cmd_rx[sh]))
<1>0. issued \in [Shims -> Seq(Requests)]
  BY DEF TypeOK, ShimsTypeOK
<1>1. ASSUME NEW t \in Shims, TakePut(t) \/ TakeGet(t)
      PROVE  \/ issued'[sh] = issued[sh]
             \/ /\ IssueCommand(sh) /\ cmd_rx[sh] # <<>>
                /\ issued'[sh] = Append(issued[sh], Head(cmd_rx[sh]))
  <2>1. IssueCommand(t) /\ cmd_rx[t] # <<>>
    BY <1>1 DEF TakePut, TakeGet
  <2>2. issued' = [issued EXCEPT ![t] = Append(issued[t], Head(cmd_rx[t]))]
    BY <2>1 DEF IssueCommand
  <2>. QED
    BY <1>0, <2>1, <2>2
<1>2. \/ UNCHANGED issued
      \/ \E t \in Shims : TakePut(t) \/ TakeGet(t)
  BY DEF Next, CallerStep, HandlerStep, HandlerGone, SendCommand, DropHandler,
         ShimStep, TakeWrite,
         TakeRead, ServerStep, KillShim, CrashShim, KillServer,
         BreakConnection, LibraryStep, TestOver, vars, shimVars
<1>. QED
  BY <1>1, <1>2

LEMMA IssuedStays ==
    ASSUME TypeOK, [Next]_vars, NEW sh \in Shims, NEW k \in DOMAIN issued[sh]
    PROVE  /\ k \in DOMAIN issued'[sh] /\ issued'[sh][k] = issued[sh][k]
           /\ issued[sh][k] \in Requests
<1>1. issued[sh] \in Seq(Requests)
  BY DEF TypeOK, ShimsTypeOK
<1>2. cmd_rx[sh] # <<>> => Head(cmd_rx[sh]) \in Requests
  BY DEF TypeOK, ShimsTypeOK
<1>. QED
  BY <1>1, <1>2, IssuedGrows, AppendProperties

LEMMA CommandStays ==
    ASSUME TypeOK, [Next]_vars, NEW r \in Requests
    PROVE  /\ UNCHANGED target
           /\ outcome[r] # "none" => command'[r] = command[r]
<1>1. \/ UNCHANGED <<target, command>>
      \/ \E q \in Requests : CallerStep(q)
  BY DEF Next, HandlerStep, HandlerGone, SendCommand, DropHandler, ShimStep, TakePut,
         TakeGet, IssueCommand,
         TakeWrite, TakeRead, ServerStep, KillShim, CrashShim, KillServer,
         BreakConnection, LibraryStep, TestOver, vars, callerVars
<1>2. ASSUME NEW q \in Requests, CallerStep(q)
      PROVE  /\ UNCHANGED target
             /\ outcome[r] # "none" => command'[r] = command[r]
  BY <1>2 DEF CallerStep, Invoke, Refused, Completed, Indeterminate, TypeOK,
              CallersTypeOK
<1>. QED
  BY <1>1, <1>2

LEMMA IssuedIsInvoked ==
    ASSUME TypeOK, OnlyInvokedAreSent, NEW sh \in Shims,
           NEW r \in Range(issued[sh]) \cup Range(cmd_rx[sh])
    PROVE  /\ r \in Requests
           /\ outcome[r] \in {"invoke", "ok", "info"}
           /\ command[r] \in HttpCommands
<1>1. r \in Requests
  BY QueueTypes, RangeInType
<1>2. Sent(r)
  BY DEF Sent, Range
<1>. QED
  BY <1>1, <1>2 DEF OnlyInvokedAreSent, TypeOK, CallersTypeOK

LEMMA NamedStays ==
    ASSUME TypeOK, OnlyInvokedAreSent, [Next]_vars, NEW c \in Commands, IsNamed(c)
    PROVE  IsNamed(c)' /\ RequestOf(c)' = RequestOf(c)
<1>1. ShimOf(c) \in Shims
  BY ShimOfType
<1>2. c.id + 1 \in DOMAIN issued[ShimOf(c)]
  BY DEF IsNamed
<1>3. RequestOf(c) \in Range(issued[ShimOf(c)])
  BY <1>2 DEF RequestOf, Range
<1>4. RequestOf(c) \in Requests /\ outcome[RequestOf(c)] # "none"
  BY <1>1, <1>3, IssuedIsInvoked
<1>5. /\ c.id + 1 \in DOMAIN issued'[ShimOf(c)]
      /\ issued'[ShimOf(c)][c.id + 1] = RequestOf(c)
  BY <1>1, <1>2, IssuedStays DEF RequestOf
<1>6. command'[RequestOf(c)] = command[RequestOf(c)]
  BY <1>4, CommandStays
<1>. QED
  BY <1>5, <1>6 DEF IsNamed, RequestOf, ShimOf

(***************************************************************************)
(* A request passes through its shim once                                  *)
(***************************************************************************)

LEMMA InvokeIssuesOnce ==
    ASSUME TypeOK, OnlyInvokedAreSent, RequestsAreIssuedOnce,
           NEW q \in Requests, NEW cmd, Invoke(q, cmd), UNCHANGED shimVars
    PROVE  RequestsAreIssuedOnce'
<1>. SUFFICES ASSUME NEW sh \in Shims
              PROVE  in_flight' \cap (Range(issued[sh]) \cup Range(cmd_rx[sh])) = {}
  BY DEF RequestsAreIssuedOnce, shimVars, Invoke
<1>1. q \notin Range(issued[sh]) \cup Range(cmd_rx[sh])
  BY IssuedIsInvoked DEF Invoke
<1>. QED
  BY <1>1 DEF RequestsAreIssuedOnce, Invoke

LEMMA SendIssuesOnce ==
    ASSUME TypeOK, RequestsAreIssuedOnce, NEW q \in Requests, SendCommand(q)
    PROVE  RequestsAreIssuedOnce'
<1> DEFINE t == target[q]
<1>1. /\ t \in Shims /\ q \in in_flight /\ in_flight' = in_flight \ {q}
      /\ cmd_rx' = [cmd_rx EXCEPT ![t] = Append(cmd_rx[t], q)]
      /\ UNCHANGED <<target, next_request_id, issued>>
  BY DEF SendCommand, TypeOK, CallersTypeOK
<1>2. cmd_rx \in [Shims -> Seq(Requests)]
  BY DEF TypeOK, ShimsTypeOK
<1>. SUFFICES ASSUME NEW sh \in Shims
              PROVE  /\ IsInjective(cmd_rx'[sh])
                     /\ Range(issued[sh]) \cap Range(cmd_rx'[sh]) = {}
                     /\ in_flight' \cap (Range(issued[sh]) \cup Range(cmd_rx'[sh])) = {}
                     /\ \A r \in Range(cmd_rx'[sh]) : target[r] = sh
  BY <1>1 DEF RequestsAreIssuedOnce
<1>3. /\ IsInjective(cmd_rx[sh])
      /\ Range(issued[sh]) \cap Range(cmd_rx[sh]) = {}
      /\ in_flight \cap (Range(issued[sh]) \cup Range(cmd_rx[sh])) = {}
      /\ \A r \in Range(issued[sh]) \cup Range(cmd_rx[sh]) : target[r] = sh
  BY DEF RequestsAreIssuedOnce
<1>4. CASE sh = t
  <2>1. cmd_rx'[sh] = Append(cmd_rx[sh], q) /\ cmd_rx[sh] \in Queue(Requests)
    BY <1>1, <1>2, <1>4, QueueTypes
  <2>2. Range(cmd_rx'[sh]) = Range(cmd_rx[sh]) \cup {q} /\ IsInjective(cmd_rx'[sh])
    BY <1>1, <1>3, <2>1, RangeOfAppend
  <2>. QED
    BY <1>1, <1>3, <1>4, <2>2
<1>5. CASE sh # t
  BY <1>1, <1>2, <1>3, <1>5
<1>. QED
  BY <1>4, <1>5

LEMMA IssueIssuesOnce ==
    ASSUME TypeOK, RequestsAreIssuedOnce, NEW t \in Shims,
           IssueCommand(t), cmd_rx[t] # <<>>
    PROVE  RequestsAreIssuedOnce'
<1> DEFINE q == Head(cmd_rx[t])
<1>1. /\ cmd_rx' = [cmd_rx EXCEPT ![t] = Tail(cmd_rx[t])]
      /\ issued' = [issued EXCEPT ![t] = Append(issued[t], q)]
      /\ next_request_id' = [next_request_id EXCEPT ![t] = next_request_id[t] + 1]
      /\ UNCHANGED <<target, in_flight>>
  BY DEF IssueCommand, NextId, callerVars
<1>2. /\ cmd_rx \in [Shims -> Seq(Requests)] /\ issued \in [Shims -> Seq(Requests)]
      /\ next_request_id \in [Shims -> Nat]
  BY DEF TypeOK, ShimsTypeOK
<1>. SUFFICES ASSUME NEW sh \in Shims
              PROVE  /\ next_request_id'[sh] = Len(issued'[sh])
                     /\ IsInjective(issued'[sh]) /\ IsInjective(cmd_rx'[sh])
                     /\ Range(issued'[sh]) \cap Range(cmd_rx'[sh]) = {}
                     /\ in_flight \cap (Range(issued'[sh]) \cup Range(cmd_rx'[sh])) = {}
                     /\ \A r \in Range(issued'[sh]) \cup Range(cmd_rx'[sh]) : target[r] = sh
  BY <1>1 DEF RequestsAreIssuedOnce
<1>3. /\ next_request_id[sh] = Len(issued[sh])
      /\ IsInjective(issued[sh]) /\ IsInjective(cmd_rx[sh])
      /\ Range(issued[sh]) \cap Range(cmd_rx[sh]) = {}
      /\ in_flight \cap (Range(issued[sh]) \cup Range(cmd_rx[sh])) = {}
      /\ \A r \in Range(issued[sh]) \cup Range(cmd_rx[sh]) : target[r] = sh
  BY DEF RequestsAreIssuedOnce
<1>4. CASE sh = t
  <2>1. /\ cmd_rx'[sh] = Tail(cmd_rx[sh]) /\ cmd_rx[sh] \in Queue(Requests)
        /\ issued'[sh] = Append(issued[sh], q) /\ issued[sh] \in Queue(Requests)
    BY <1>1, <1>2, <1>4, QueueTypes
  <2>2. /\ q \in Range(cmd_rx[sh]) /\ q \in Requests
        /\ Range(cmd_rx'[sh]) \subseteq Range(cmd_rx[sh])
        /\ IsInjective(cmd_rx'[sh]) /\ q \notin Range(cmd_rx'[sh])
    BY <1>3, <1>4, <2>1, RangeOfTail
  <2>3. /\ Range(issued'[sh]) = Range(issued[sh]) \cup {q}
        /\ IsInjective(issued'[sh])
    BY <1>3, <2>1, <2>2, RangeOfAppend
  <2>4. next_request_id'[sh] = Len(issued'[sh])
    <3>1. Len(Append(issued[sh], q)) = Len(issued[sh]) + 1
      BY <1>2, <2>2, AppendProperties
    <3>2. next_request_id'[sh] = next_request_id[sh] + 1
      BY <1>1, <1>2, <1>4
    <3>. QED
      BY <1>3, <2>1, <3>1, <3>2
  <2>. HIDE DEF q
  <2>. QED
    BY <1>3, <2>2, <2>3, <2>4
<1>5. CASE sh # t
  BY <1>1, <1>2, <1>3, <1>5
<1>. QED
  BY <1>4, <1>5

LEMMA CrashIssuesOnce ==
    ASSUME TypeOK, RequestsAreIssuedOnce, NEW t \in Shims, CrashShim(t)
    PROVE  RequestsAreIssuedOnce'
<1>1. /\ cmd_rx' = [cmd_rx EXCEPT ![t] = <<>>]
      /\ in_flight' \subseteq in_flight
      /\ UNCHANGED <<target, issued, next_request_id>>
  BY DEF CrashShim
<1>2. cmd_rx \in [Shims -> Seq(Requests)]
  BY DEF TypeOK, ShimsTypeOK
<1>3. ASSUME NEW sh \in Shims
      PROVE  /\ Range(cmd_rx'[sh]) \subseteq Range(cmd_rx[sh])
             /\ IsInjective(cmd_rx'[sh])
  <2>1. cmd_rx'[sh] = cmd_rx[sh] \/ cmd_rx'[sh] = <<>>
    BY <1>1, <1>2
  <2>. QED
    BY <2>1, RangeOfEmpty DEF RequestsAreIssuedOnce
<1>4. ASSUME NEW sh \in Shims
      PROVE  /\ next_request_id[sh] = Len(issued[sh])
             /\ IsInjective(issued[sh])
             /\ Range(issued[sh]) \cap Range(cmd_rx'[sh]) = {}
             /\ in_flight' \cap (Range(issued[sh]) \cup Range(cmd_rx'[sh])) = {}
             /\ \A r \in Range(issued[sh]) \cup Range(cmd_rx'[sh]) : target[r] = sh
  BY <1>1, <1>3 DEF RequestsAreIssuedOnce
<1>. QED
  BY <1>1, <1>3, <1>4 DEF RequestsAreIssuedOnce

LEMMA RequestsAreIssuedOnceStep ==
    ASSUME TypeOK, OnlyInvokedAreSent, RequestsAreIssuedOnce, [Next]_vars
    PROVE  RequestsAreIssuedOnce'
<1>1. CASE UNCHANGED <<in_flight, cmd_rx, issued, next_request_id, target>>
  BY <1>1 DEF RequestsAreIssuedOnce
<1>2. CASE \E q \in Requests : \E cmd \in HttpCommands : Invoke(q, cmd) /\ UNCHANGED shimVars
  BY <1>2, InvokeIssuesOnce
<1>3. CASE \E q \in Requests : SendCommand(q)
  BY <1>3, SendIssuesOnce
<1>4. CASE \E t \in Shims : IssueCommand(t) /\ cmd_rx[t] # <<>>
  BY <1>4, IssueIssuesOnce
<1>5. CASE \E t \in Shims : CrashShim(t)
  BY <1>5, CrashIssuesOnce
<1>6. CASE \E q \in Requests : CallerStep(q)
  BY <1>1, <1>2, <1>6 DEF CallerStep, Refused, Completed, Indeterminate, shimVars
<1>7. CASE \E sh \in Shims : ShimStep(sh)
  BY <1>1, <1>4, <1>7 DEF ShimStep, TakePut, TakeGet, TakeWrite, TakeRead
<1>8. CASE \/ \E sh \in Shims : BreakConnection(sh)
           \/ \E n \in Servers : ServerStep(n) \/ KillServer(n)
           \/ LibraryStep \/ TestOver \/ UNCHANGED vars
  BY <1>1, <1>8 DEF BreakConnection, ServerStep, KillServer, LibraryStep,
                    TestOver, vars, callerVars, shimVars
<1>9. CASE \E q \in Requests : HandlerGone(q)
  BY <1>9 DEF HandlerGone, DropHandler, shimVars, RequestsAreIssuedOnce
<1>. QED
  BY <1>3, <1>5, <1>6, <1>7, <1>8, <1>9 DEF Next, HandlerStep, KillShim

(***************************************************************************)
(* Commands are named, and at no two places                                *)
(***************************************************************************)

\* What IssueCommand does to the streams: the new message has a new name.
LEMMA IssueIsNew ==
    ASSUME TypeOK, OnlyInvokedAreSent, RequestsAreIssuedOnce,
           NEW t \in Shims, IssueCommand(t), cmd_rx[t] # <<>>
    PROVE  \E msg \in ClientMessages :
              /\ to_server' \in {to_server,
                                 [to_server EXCEPT ![t] = Append(to_server[t], msg)]}
              /\ ~IsNamed(CommandOf(t, msg))
              /\ IsNamed(CommandOf(t, msg))'
<1>1. /\ next_request_id[t] = Len(issued[t]) /\ next_request_id[t] \in Nat
      /\ issued[t] \in Seq(Requests) /\ issued \in [Shims -> Seq(Requests)]
  BY DEF RequestsAreIssuedOnce, TypeOK, ShimsTypeOK
<1>. PICK q : q = Head(cmd_rx[t])
  OBVIOUS
<1>2. cmd_rx[t] \in Queue(Requests)
  BY QueueTypes
<1>3. q \in Range(cmd_rx[t]) /\ q \in Requests
  BY <1>2, RangeOfTail
<1>4. command[q] \in HttpCommands
  BY <1>3, IssuedIsInvoked
<1>. PICK k \in Nat : k = Len(issued[t])
  BY <1>1
<1>. PICK msg \in ClientMessages : msg = [id |-> k, kv_cmd |-> command[q]]
  BY <1>4 DEF ClientMessages, HttpCommands, KVCommands
<1>5. to_server' \in {to_server, [to_server EXCEPT ![t] = Append(to_server[t], msg)]}
  BY <1>1 DEF IssueCommand, SendToServer
<1>6. issued'[t] = Append(issued[t], q) /\ UNCHANGED command
  BY <1>1 DEF IssueCommand, callerVars
<1>7. /\ DOMAIN issued[t] = 1 .. k
      /\ k + 1 \in DOMAIN issued'[t] /\ issued'[t][k + 1] = q
  BY <1>1, <1>3, <1>6, AppendProperties
<1>. PICK c : c = CommandOf(t, msg)
  OBVIOUS
<1>8. ShimOf(c) = t /\ c.id = k /\ c.kv_cmd = command[q]
  BY CommandOfType
<1>9. ~IsNamed(c)
  BY <1>7, <1>8 DEF IsNamed
<1>10. IsNamed(c)'
  BY <1>6, <1>7, <1>8 DEF IsNamed, RequestOf, ShimOf
<1>. QED
  BY <1>5, <1>9, <1>10

\* The ways in which commands move.
Moved ==
    \/ /\ UNCHANGED log
       /\ proposals' \subseteq proposals
       /\ \A sh \in Shims : to_server'[sh] \in {to_server[sh], <<>>}
    \/ \E t \in Shims : /\ IssueCommand(t) /\ cmd_rx[t] # <<>>
                        /\ UNCHANGED <<log, proposals>>
    \/ \E t \in Shims : HandleClientMessage(t)
    \/ \E c \in proposals : Decide(c)

LEMMA StepMoves ==
    ASSUME TypeOK, [Next]_vars
    PROVE  Moved
<1>0. to_server \in [Shims -> Seq(ClientMessages)]
  BY DEF TypeOK, LinksTypeOK
<1>1. CASE UNCHANGED <<log, proposals, to_server>>
  BY <1>1 DEF Moved
<1>2. CASE \E sh \in Shims : ShimStep(sh)
  <2>. PICK sh \in Shims : ShimStep(sh)
    BY <1>2
  <2>1. CASE TakePut(sh) \/ TakeGet(sh)
    BY <2>1 DEF Moved, ShimStep, TakePut, TakeGet, libraryVars
  <2>2. CASE TakeWrite(sh) \/ TakeRead(sh)
    BY <1>1, <2>2 DEF ShimStep, TakeWrite, TakeRead, libraryVars
  <2>. QED
    BY <2>1, <2>2 DEF ShimStep
<1>3. CASE \E sh \in Shims : BreakConnection(sh)
  BY <1>0, <1>3 DEF Moved, BreakConnection, ResetConnection, libraryVars
<1>4. CASE \E n \in Servers : ServerStep(n)
  BY <1>1, <1>4 DEF Moved, ServerStep, HandleDecidedEntries, News, AdvanceTo,
                    UpdateDatabaseAndRespond,
                    libraryVars, linkVars
<1>5. CASE \E n \in Servers : KillServer(n)
  BY <1>0, <1>5 DEF Moved, KillServer, CrashServer, libraryVars
<1>6. CASE LibraryStep
  BY <1>6 DEF Moved, LibraryStep, LoseProposal, linkVars
<1>7. CASE \/ \E r \in Requests : CallerStep(r) \/ HandlerStep(r) \/ HandlerGone(r)
           \/ \E sh \in Shims : KillShim(sh)
           \/ TestOver \/ UNCHANGED vars
  BY <1>1, <1>7 DEF CallerStep, HandlerStep, HandlerGone, SendCommand, DropHandler,
                    KillShim, CrashShim, TestOver, vars, shimVars, libraryVars, linkVars
<1>. QED
  BY <1>2, <1>3, <1>4, <1>5, <1>6, <1>7 DEF Next

\* Handing a message over to the library.
LEMMA HandleMoves ==
    ASSUME TypeOK, NEW t \in Shims, HandleClientMessage(t)
    PROVE  \E msg \in Range(to_server[t]) :
              /\ msg = Head(to_server[t]) /\ to_server[t] # <<>>
              /\ to_server' = [to_server EXCEPT ![t] = Tail(to_server[t])]
              /\ proposals' = proposals \cup {CommandOf(t, msg)}
              /\ UNCHANGED log
<1>1. to_server[t] # <<>> /\ to_server[t] \in Queue(ClientMessages)
  BY QueueTypes DEF HandleClientMessage, TakeMessage, AppendToLog
<1>2. Head(to_server[t]) \in Range(to_server[t])
  BY <1>1, RangeOfTail
<1>. QED
  BY <1>1, <1>2 DEF HandleClientMessage, TakeMessage, AppendToLog, Propose

LEMMA DecideMoves ==
    ASSUME TypeOK, NEW c \in proposals, Decide(c)
    PROVE  /\ c \in Commands
           /\ proposals' = proposals \ {c}
           /\ log' = Append(log, c)
           /\ log' \in Queue(Commands)
           /\ Range(log') = Range(log) \cup {c}
           /\ IsInjective(log) /\ c \notin Range(log) => IsInjective(log')
           /\ UNCHANGED to_server
<1>1. c \in Commands /\ log \in Queue(Commands)
  BY QueueTypes DEF TypeOK, ServersTypeOK
<1>. QED
  BY <1>1, RangeOfAppend DEF Decide, linkVars

LEMMA CommandsAreNamedStep ==
    ASSUME TypeOK, OnlyInvokedAreSent, RequestsAreIssuedOnce, CommandsAreNamed,
           [Next]_vars
    PROVE  CommandsAreNamed'
<1>0. to_server \in [Shims -> Seq(ClientMessages)]
  BY DEF TypeOK, LinksTypeOK
<1>1. ASSUME NEW c, c \in proposals \cup Range(log) PROVE IsNamed(c)'
  <2>1. c \in Commands
    BY <1>1, QueueTypes, RangeInType DEF TypeOK, ServersTypeOK
  <2>. QED
    BY <1>1, <2>1, NamedStays DEF CommandsAreNamed
<1>2. ASSUME NEW sh \in Shims, NEW msg \in Range(to_server[sh])
      PROVE  IsNamed(CommandOf(sh, msg))'
  <2>1. msg \in ClientMessages
    BY QueueTypes, RangeInType
  <2>. PICK c \in Commands : c = CommandOf(sh, msg)
    BY <2>1, CommandOfType
  <2>2. IsNamed(c)'
    BY NamedStays DEF CommandsAreNamed
  <2>. QED
    BY <2>2
<1>. SUFFICES /\ \A sh \in Shims : \A msg \in Range(to_server'[sh]) :
                    IsNamed(CommandOf(sh, msg))'
              /\ \A c \in proposals' \cup Range(log') : IsNamed(c)'
  BY DEF CommandsAreNamed
<1>3. CASE /\ UNCHANGED log
           /\ proposals' \subseteq proposals
           /\ \A sh \in Shims : to_server'[sh] \in {to_server[sh], <<>>}
  <2>1. ASSUME NEW sh \in Shims
        PROVE  Range(to_server'[sh]) \subseteq Range(to_server[sh])
    BY <1>3, RangeOfEmpty
  <2>. QED
    BY <1>1, <1>2, <1>3, <2>1
<1>4. ASSUME NEW t \in Shims, IssueCommand(t), cmd_rx[t] # <<>>,
             UNCHANGED <<log, proposals>>
      PROVE  /\ \A sh \in Shims : \A msg \in Range(to_server'[sh]) :
                    IsNamed(CommandOf(sh, msg))'
             /\ \A c \in proposals' \cup Range(log') : IsNamed(c)'
  <2>. PICK m \in ClientMessages :
          /\ to_server' \in {to_server,
                             [to_server EXCEPT ![t] = Append(to_server[t], m)]}
          /\ IsNamed(CommandOf(t, m))'
    BY <1>4, IssueIsNew
  <2>1. ASSUME NEW sh \in Shims
        PROVE  \/ to_server'[sh] = to_server[sh]
               \/ sh = t /\ to_server'[sh] = Append(to_server[sh], m)
    BY <1>0
  <2>2. ASSUME NEW sh \in Shims, NEW msg \in Range(to_server'[sh])
        PROVE  msg \in Range(to_server[sh]) \/ (sh = t /\ msg = m)
    <3>1. Range(Append(to_server[sh], m)) = Range(to_server[sh]) \cup {m}
      BY QueueTypes, RangeOfAppend
    <3>. QED
      BY <2>1, <2>2, <3>1
  <2>. QED
    BY <1>1, <1>2, <1>4, <2>2
<1>5. ASSUME NEW t \in Shims, HandleClientMessage(t)
      PROVE  /\ \A sh \in Shims : \A msg \in Range(to_server'[sh]) :
                    IsNamed(CommandOf(sh, msg))'
             /\ \A c \in proposals' \cup Range(log') : IsNamed(c)'
  <2>. PICK m \in Range(to_server[t]) :
          /\ m = Head(to_server[t]) /\ to_server[t] # <<>>
          /\ to_server' = [to_server EXCEPT ![t] = Tail(to_server[t])]
          /\ proposals' = proposals \cup {CommandOf(t, m)}
          /\ UNCHANGED log
    BY <1>5, HandleMoves
  <2>1. ASSUME NEW sh \in Shims
        PROVE  Range(to_server'[sh]) \subseteq Range(to_server[sh])
    <3>1. CASE sh = t
      BY <1>0, <3>1, QueueTypes, RangeOfTail
    <3>2. CASE sh # t
      BY <1>0, <3>2
    <3>. QED
      BY <3>1, <3>2
  <2>2. ASSUME NEW c \in proposals' \cup Range(log')
        PROVE  c \in proposals \cup Range(log) \/ c = CommandOf(t, m)
    OBVIOUS
  <2>3. IsNamed(CommandOf(t, m))'
    BY <1>2
  <2>. QED
    BY <1>1, <1>2, <2>1, <2>2, <2>3
<1>6. ASSUME NEW d \in proposals, Decide(d)
      PROVE  /\ \A sh \in Shims : \A msg \in Range(to_server'[sh]) :
                    IsNamed(CommandOf(sh, msg))'
             /\ \A c \in proposals' \cup Range(log') : IsNamed(c)'
  BY <1>1, <1>2, <1>6, DecideMoves
<1>. QED
  BY <1>3, <1>4, <1>5, <1>6, StepMoves DEF Moved

\* A new command is at no other place, for it has no name before its step.
LEMMA CommandsAreOnceStep ==
    ASSUME TypeOK, OnlyInvokedAreSent, RequestsAreIssuedOnce, CommandsAreNamed,
           CommandsAreOnce, [Next]_vars
    PROVE  CommandsAreOnce'
<1>0. to_server \in [Shims -> Seq(ClientMessages)]
  BY DEF TypeOK, LinksTypeOK
<1>1. ASSUME NEW sh \in Shims
      PROVE  /\ IsInjective(to_server[sh])
             /\ \A msg \in Range(to_server[sh]) :
                   /\ msg \in ClientMessages
                   /\ CommandOf(sh, msg) \notin proposals
                   /\ CommandOf(sh, msg) \notin Range(log)
                   /\ IsNamed(CommandOf(sh, msg))
  BY QueueTypes, RangeInType DEF CommandsAreOnce, CommandsAreNamed
<1>2. proposals \cap Range(log) = {} /\ IsInjective(log)
  BY DEF CommandsAreOnce
<1>. SUFFICES /\ \A sh \in Shims :
                    /\ IsInjective(to_server'[sh])
                    /\ \A msg \in Range(to_server'[sh]) :
                          /\ CommandOf(sh, msg) \notin proposals'
                          /\ CommandOf(sh, msg) \notin Range(log')
              /\ proposals' \cap Range(log') = {}
              /\ IsInjective(log')
  BY DEF CommandsAreOnce
<1>3. CASE /\ UNCHANGED log
           /\ proposals' \subseteq proposals
           /\ \A sh \in Shims : to_server'[sh] \in {to_server[sh], <<>>}
  <2>1. ASSUME NEW sh \in Shims
        PROVE  /\ IsInjective(to_server'[sh])
               /\ Range(to_server'[sh]) \subseteq Range(to_server[sh])
    BY <1>1, <1>3, RangeOfEmpty
  <2>. QED
    BY <1>1, <1>2, <1>3, <2>1
<1>4. ASSUME NEW t \in Shims, IssueCommand(t), cmd_rx[t] # <<>>,
             UNCHANGED <<log, proposals>>
      PROVE  \A sh \in Shims :
                /\ IsInjective(to_server'[sh])
                /\ \A msg \in Range(to_server'[sh]) :
                      /\ CommandOf(sh, msg) \notin proposals'
                      /\ CommandOf(sh, msg) \notin Range(log')
  <2>. PICK m \in ClientMessages :
          /\ to_server' \in {to_server,
                             [to_server EXCEPT ![t] = Append(to_server[t], m)]}
          /\ ~IsNamed(CommandOf(t, m))
    BY <1>4, IssueIsNew
  <2>. TAKE sh \in Shims
  <2>1. CASE to_server'[sh] = to_server[sh]
    BY <1>1, <1>4, <2>1
  <2>2. CASE to_server'[sh] # to_server[sh]
    <3>1. sh = t /\ to_server'[sh] = Append(to_server[sh], m)
      BY <1>0, <2>2
    <3>2. m \notin Range(to_server[sh])
      BY <1>1, <3>1
    <3>3. /\ Range(to_server'[sh]) = Range(to_server[sh]) \cup {m}
          /\ IsInjective(to_server'[sh])
      BY <1>1, <3>1, <3>2, QueueTypes, RangeOfAppend
    <3>4. /\ CommandOf(sh, m) \notin proposals
          /\ CommandOf(sh, m) \notin Range(log)
      BY <3>1 DEF CommandsAreNamed
    <3>. QED
      BY <1>1, <1>4, <3>3, <3>4
  <2>. QED
    BY <2>1, <2>2
<1>5. ASSUME NEW t \in Shims, HandleClientMessage(t)
      PROVE  /\ \A sh \in Shims :
                    /\ IsInjective(to_server'[sh])
                    /\ \A msg \in Range(to_server'[sh]) :
                          /\ CommandOf(sh, msg) \notin proposals'
                          /\ CommandOf(sh, msg) \notin Range(log')
             /\ proposals' \cap Range(log') = {}
             /\ IsInjective(log')
  <2>. PICK m \in Range(to_server[t]) :
          /\ m = Head(to_server[t]) /\ to_server[t] # <<>>
          /\ to_server' = [to_server EXCEPT ![t] = Tail(to_server[t])]
          /\ proposals' = proposals \cup {CommandOf(t, m)}
          /\ UNCHANGED log
    BY <1>5, HandleMoves
  <2>1. m \in ClientMessages /\ CommandOf(t, m) \notin Range(log)
    BY <1>1
  <2>2. ASSUME NEW sh \in Shims
        PROVE  /\ IsInjective(to_server'[sh])
               /\ Range(to_server'[sh]) \subseteq Range(to_server[sh])
               /\ sh = t => m \notin Range(to_server'[sh])
    <3>1. CASE sh = t
      BY <1>0, <1>1, <3>1, QueueTypes, RangeOfTail
    <3>2. CASE sh # t
      BY <1>0, <1>1, <3>2
    <3>. QED
      BY <3>1, <3>2
  <2>3. ASSUME NEW sh \in Shims, NEW msg \in Range(to_server'[sh])
        PROVE  CommandOf(sh, msg) # CommandOf(t, m)
    <3>1. msg \in ClientMessages
      BY <1>1, <2>2
    <3>2. CASE sh = t
      BY <2>1, <2>2, <3>1, <3>2, CommandOfInjective
    <3>3. CASE sh # t
      BY <2>1, <3>1, <3>3, CommandOfType
    <3>. QED
      BY <3>2, <3>3
  <2>4. \A sh \in Shims : \A msg \in Range(to_server'[sh]) :
            /\ CommandOf(sh, msg) \notin proposals'
            /\ CommandOf(sh, msg) \notin Range(log')
    BY <1>1, <2>2, <2>3
  <2>. QED
    BY <1>2, <2>1, <2>2, <2>4
<1>6. ASSUME NEW d \in proposals, Decide(d)
      PROVE  /\ \A sh \in Shims :
                    /\ IsInjective(to_server'[sh])
                    /\ \A msg \in Range(to_server'[sh]) :
                          /\ CommandOf(sh, msg) \notin proposals'
                          /\ CommandOf(sh, msg) \notin Range(log')
             /\ proposals' \cap Range(log') = {}
             /\ IsInjective(log')
  <2>1. /\ proposals' = proposals \ {d}
        /\ Range(log') = Range(log) \cup {d}
        /\ IsInjective(log')
        /\ UNCHANGED to_server
    BY <1>2, <1>6, DecideMoves
  <2>. QED
    BY <1>1, <1>2, <2>1
<1>. QED
  BY <1>2, <1>3, <1>4, <1>5, <1>6, StepMoves DEF Moved

(***************************************************************************)
(* Effects: which places of the log are those of a request                 *)
(***************************************************************************)

\* A place of the log belongs to the request that its command names.
LEMMA EffectsAreNamed ==
    ASSUME TypeOK, RequestsAreIssuedOnce, NEW c \in Commands, IsNamed(c),
           NEW r
    PROVE  /\ Carries(c, r) <=> RequestOf(c) = r
           /\ target[RequestOf(c)] = ShimOf(c)
           /\ RequestOf(c) \in Range(issued[ShimOf(c)])
<1>1. ShimOf(c) \in Shims
  BY ShimOfType
<1>2. /\ c.id + 1 \in DOMAIN issued[ShimOf(c)]
      /\ RequestOf(c) = issued[ShimOf(c)][c.id + 1]
  BY DEF IsNamed, RequestOf
<1>3. target[RequestOf(c)] = ShimOf(c)
  BY <1>1, <1>2 DEF RequestsAreIssuedOnce, Range
<1>. QED
  BY <1>2, <1>3 DEF Carries, ShimOf, RequestOf, Range

\* Two commands of the same request are the same command.
LEMMA RequestsNameCommands ==
    ASSUME TypeOK, RequestsAreIssuedOnce, NEW a \in Commands, NEW b \in Commands,
           IsNamed(a), IsNamed(b), RequestOf(a) = RequestOf(b)
    PROVE  a = b
<1>1. ShimOf(a) \in Shims /\ ShimOf(b) \in Shims /\ a.id \in Nat /\ b.id \in Nat
  BY ShimOfType
<1>2. ShimOf(a) = ShimOf(b)
  BY EffectsAreNamed
<1>3. a.id + 1 = b.id + 1
  BY <1>1, <1>2 DEF IsNamed, RequestOf, RequestsAreIssuedOnce, IsInjective
<1>4. a.id = b.id
  BY <1>1, <1>3
<1>. QED
  BY <1>2, <1>4, CommandsAreRecords DEF IsNamed

LEMMA LogIsNamed ==
    ASSUME TypeOK, CommandsAreNamed, NEW i \in DOMAIN log
    PROVE  log[i] \in Commands /\ IsNamed(log[i]) /\ log[i] \in Range(log)
<1>1. log[i] \in Range(log)
  BY DEF Range
<1>. QED
  BY <1>1, QueueTypes, RangeInType DEF CommandsAreNamed

LEMMA OneEffect ==
    ASSUME TypeOK, RequestsAreIssuedOnce, CommandsAreNamed, CommandsAreOnce,
           NEW r, NEW i \in Effects(r), NEW j \in Effects(r)
    PROVE  i = j
<1>1. i \in DOMAIN log /\ j \in DOMAIN log /\ Carries(log[i], r) /\ Carries(log[j], r)
  BY DEF Effects
<1>2. RequestOf(log[i]) = r /\ RequestOf(log[j]) = r
  BY <1>1, LogIsNamed, EffectsAreNamed
<1>3. log[i] = log[j]
  BY <1>1, <1>2, LogIsNamed, RequestsNameCommands
<1>. QED
  BY <1>1, <1>3 DEF CommandsAreOnce, IsInjective

LEMMA EffectsArePlaces ==
    ASSUME TypeOK, RequestsAreIssuedOnce, CommandsAreNamed, NEW r
    PROVE  /\ Effects(r) = {i \in DOMAIN log : RequestOf(log[i]) = r}
           /\ InLog(r) <=> Effects(r) # {}
BY LogIsNamed, EffectsAreNamed DEF Effects, InLog

\* What a step leaves of the log keeps its places and their results.
LEMMA LogStays ==
    ASSUME TypeOK, ReplayFollowsLog, [Next]_vars, NEW i \in DOMAIN log
    PROVE  /\ i \in DOMAIN log' /\ log'[i] = log[i] /\ replay'[i] = replay[i]
           /\ DOMAIN log = 1 .. Len(log)
<1>1. CASE UNCHANGED <<log, replay>>
  BY <1>1 DEF TypeOK, ServersTypeOK
<1>2. ASSUME NEW c \in proposals, Decide(c)
      PROVE  /\ i \in DOMAIN log' /\ log'[i] = log[i] /\ replay'[i] = replay[i]
             /\ DOMAIN log = 1 .. Len(log)
  BY <1>2 DEF Decide, TypeOK, ServersTypeOK, ReplayFollowsLog
<1>. QED
  BY <1>1, <1>2
     DEF Next, CallerStep, HandlerStep, HandlerGone, ShimStep, ServerStep,
         HandleClientMessage,
         TakeMessage, AppendToLog,
         HandleDecidedEntries, News, AdvanceTo, UpdateDatabaseAndRespond, KillShim,
         KillServer,
         CrashServer, BreakConnection, LibraryStep, LoseProposal, TestOver, vars,
         libraryVars

\* A request that has taken effect has it at the same place ever after, with
\* the same result.
LEMMA EffectStays ==
    ASSUME TypeOK, OnlyInvokedAreSent, ReplayFollowsLog, RequestsAreIssuedOnce,
           CommandsAreNamed, [Next]_vars, NEW r, NEW i \in Effects(r)
    PROVE  /\ i \in Effects(r)' /\ ResultAt(r, i)' = ResultAt(r, i)
           /\ r \in Requests /\ outcome[r] \in {"invoke", "ok", "info"}
           /\ command[r] \in HttpCommands
           /\ log[i] \in Commands /\ log[i].kv_cmd = command[r]
<1>1. i \in DOMAIN log /\ RequestOf(log[i]) = r
  BY EffectsArePlaces
<1>. PICK c \in Commands : c = log[i]
  BY <1>1, LogIsNamed
<1>2. IsNamed(c) /\ RequestOf(c) = r
  BY <1>1, LogIsNamed
<1>3. IsNamed(c)' /\ RequestOf(c)' = r
  BY <1>2, NamedStays
<1>4. i \in DOMAIN log' /\ log'[i] = c /\ replay'[i] = replay[i]
  BY <1>1, LogStays
<1>5. target'[r] = ShimOf(c)
  <2>1. target[r] = ShimOf(c) /\ r \in Range(issued[ShimOf(c)])
    BY <1>2, EffectsAreNamed
  <2>2. r \in Requests
    BY <2>1, ShimOfType, IssuedIsInvoked
  <2>. QED
    BY <2>1, <2>2, CommandStays
<1>6. i \in Effects(r)'
  BY <1>3, <1>4, <1>5 DEF Effects, Carries, IsNamed, RequestOf, ShimOf
<1>7. ShimOf(c) \in Shims /\ r \in Range(issued[ShimOf(c)])
  BY <1>2, EffectsAreNamed, ShimOfType
<1>8. /\ r \in Requests /\ outcome[r] \in {"invoke", "ok", "info"}
      /\ command[r] \in HttpCommands
  BY <1>7, IssuedIsInvoked
<1>9. command'[r] = command[r]
  BY <1>8, CommandStays
<1>10. ResultAt(r, i)' = ResultAt(r, i)
  BY <1>4, <1>9 DEF ResultAt
<1>. QED
  BY <1>2, <1>6, <1>8, <1>10 DEF IsNamed

LEMMA CountAtMostOne ==
    ASSUME NEW S, \A x, y \in S : x = y
    PROVE  Cardinality(S) \in {0, 1} /\ (S = {} => Cardinality(S) = 0)
<1>1. CASE S = {}
  BY <1>1, FS_EmptySet
<1>2. ASSUME NEW x \in S PROVE Cardinality(S) = 1
  <2>1. S = {x}
    OBVIOUS
  <2>. QED
    BY <2>1, FS_Singleton
<1>. QED
  BY <1>1, <1>2

LEMMA NamesImplyOneEffect ==
    ASSUME TypeOK, RequestsAreIssuedOnce, CommandsAreNamed, CommandsAreOnce
    PROVE  AtMostOneEffect
<1>. SUFFICES ASSUME NEW r \in Requests
              PROVE  Cardinality(Effects(r))
                       + Cardinality({c \in proposals : Carries(c, r)})
                       + Cardinality({i \in DOMAIN to_server[target[r]] :
                            issued[target[r]][to_server[target[r]][i].id + 1] = r})
                       <= 1
  BY DEF AtMostOneEffect
<1> DEFINE t == target[r]
           P == {c \in proposals : Carries(c, r)}
           T == {i \in DOMAIN to_server[t] : issued[t][to_server[t][i].id + 1] = r}
<1>0. t \in Shims
  BY DEF TypeOK, CallersTypeOK
<1>1. ASSUME NEW i \in T
      PROVE  /\ to_server[t][i] \in Range(to_server[t])
             /\ to_server[t][i] \in ClientMessages
             /\ CommandOf(t, to_server[t][i]) \in Commands
             /\ IsNamed(CommandOf(t, to_server[t][i]))
             /\ RequestOf(CommandOf(t, to_server[t][i])) = r
  <2>. PICK msg : msg = to_server[t][i]
    OBVIOUS
  <2>1. msg \in Range(to_server[t])
    BY DEF Range
  <2>2. msg \in ClientMessages
    BY <1>0, <2>1, QueueTypes, RangeInType
  <2>3. /\ CommandOf(t, msg) \in Commands /\ ShimOf(CommandOf(t, msg)) = t
        /\ CommandOf(t, msg).id = msg.id
    BY <1>0, <2>2, CommandOfType
  <2>4. IsNamed(CommandOf(t, msg))
    BY <1>0, <2>1 DEF CommandsAreNamed
  <2>5. RequestOf(CommandOf(t, msg)) = r
    BY <2>3 DEF RequestOf
  <2>. QED
    BY <2>1, <2>2, <2>3, <2>4, <2>5
<1>2. ASSUME NEW c \in P
      PROVE  c \in proposals /\ c \in Commands /\ IsNamed(c) /\ RequestOf(c) = r
  BY EffectsAreNamed DEF TypeOK, ServersTypeOK, CommandsAreNamed
<1>3. ASSUME NEW i \in Effects(r)
      PROVE  /\ log[i] \in Range(log) /\ log[i] \in Commands
             /\ IsNamed(log[i]) /\ RequestOf(log[i]) = r
  BY EffectsArePlaces, LogIsNamed
<1>. HIDE DEF P, T
<1>4. \A i, j \in Effects(r) : i = j
  BY OneEffect
<1>5. \A c, d \in P : c = d
  BY <1>2, RequestsNameCommands
<1>6. \A i, j \in T : i = j
  <2>. TAKE i, j \in T
  <2>1. CommandOf(t, to_server[t][i]) = CommandOf(t, to_server[t][j])
    BY <1>1, RequestsNameCommands
  <2>2. to_server[t][i] = to_server[t][j]
    BY <1>0, <1>1, <2>1, CommandOfInjective
  <2>. QED
    BY <1>0, <2>2 DEF T, CommandsAreOnce, IsInjective
<1>7. P = {} \/ Effects(r) = {}
  <2>. SUFFICES ASSUME NEW c \in P, NEW i \in Effects(r) PROVE FALSE
    OBVIOUS
  <2>1. c = log[i]
    BY <1>2, <1>3, RequestsNameCommands
  <2>. QED
    BY <1>2, <1>3, <2>1 DEF CommandsAreOnce
<1>8. T = {} \/ (Effects(r) = {} /\ P = {})
  <2>. SUFFICES ASSUME NEW j \in T, Effects(r) # {} \/ P # {} PROVE FALSE
    OBVIOUS
  <2>1. /\ CommandOf(t, to_server[t][j]) \notin proposals
        /\ CommandOf(t, to_server[t][j]) \notin Range(log)
    BY <1>0, <1>1 DEF CommandsAreOnce
  <2>2. ASSUME NEW c \in P PROVE FALSE
    BY <1>1, <1>2, <2>1, RequestsNameCommands
  <2>3. ASSUME NEW i \in Effects(r) PROVE FALSE
    BY <1>1, <1>3, <2>1, RequestsNameCommands
  <2>. QED
    BY <2>2, <2>3
<1>9. Cardinality(Effects(r)) + Cardinality(P) + Cardinality(T) <= 1
  <2>1. /\ Cardinality(Effects(r)) \in {0, 1}
        /\ Effects(r) = {} => Cardinality(Effects(r)) = 0
    BY <1>4, CountAtMostOne
  <2>2. Cardinality(P) \in {0, 1} /\ (P = {} => Cardinality(P) = 0)
    BY <1>5, CountAtMostOne
  <2>3. Cardinality(T) \in {0, 1} /\ (T = {} => Cardinality(T) = 0)
    BY <1>6, CountAtMostOne
  <2>. QED
    BY <1>7, <1>8, <2>1, <2>2, <2>3
<1>. QED
  BY <1>9 DEF P, T

(***************************************************************************)
(* Answers: from the log to the caller                                     *)
(***************************************************************************)

\* The pending maps name requests as the commands do.
LEMMA PendingAreIssuedStep ==
    ASSUME TypeOK, OnlyInvokedAreSent, RequestsAreIssuedOnce, PendingAreIssued,
           [Next]_vars
    PROVE  PendingAreIssued'
<1>1. ASSUME NEW sh \in Shims, NEW k \in DOMAIN issued[sh]
      PROVE  /\ k \in DOMAIN issued'[sh] /\ issued'[sh][k] = issued[sh][k]
             /\ command'[issued[sh][k]] = command[issued[sh][k]]
  <2>1. issued[sh][k] \in Range(issued[sh])
    BY DEF Range
  <2>2. outcome[issued[sh][k]] # "none" /\ issued[sh][k] \in Requests
    BY <2>1, IssuedIsInvoked
  <2>. QED
    BY <2>2, IssuedStays, CommandStays
<1>2. ASSUME NEW sh \in Shims, NEW id \in DOMAIN pending_put[sh]
      PROVE  /\ id + 1 \in DOMAIN issued'[sh]
             /\ pending_put[sh][id] = issued'[sh][id + 1]
             /\ command'[issued'[sh][id + 1]].type = "Put"
  BY <1>1 DEF PendingAreIssued
<1>3. ASSUME NEW sh \in Shims, NEW id \in DOMAIN pending_get[sh]
      PROVE  /\ id + 1 \in DOMAIN issued'[sh]
             /\ pending_get[sh][id] = issued'[sh][id + 1]
             /\ command'[issued'[sh][id + 1]].type = "Get"
  BY <1>1 DEF PendingAreIssued
<1>. SUFFICES ASSUME NEW sh \in Shims
              PROVE  /\ \A id \in DOMAIN pending_put'[sh] :
                           /\ id + 1 \in DOMAIN issued'[sh]
                           /\ pending_put'[sh][id] = issued'[sh][id + 1]
                           /\ command'[issued'[sh][id + 1]].type = "Put"
                     /\ \A id \in DOMAIN pending_get'[sh] :
                           /\ id + 1 \in DOMAIN issued'[sh]
                           /\ pending_get'[sh][id] = issued'[sh][id + 1]
                           /\ command'[issued'[sh][id + 1]].type = "Get"
  BY DEF PendingAreIssued
<1>0. DOMAIN pending_put = Shims /\ DOMAIN pending_get = Shims
  BY DEF TypeOK, ShimsTypeOK
<1>4. CASE UNCHANGED <<pending_put, pending_get>>
  BY <1>2, <1>3, <1>4
<1>5. ASSUME NEW t \in Shims, TakePut(t) \/ TakeGet(t)
      PROVE  /\ \A id \in DOMAIN pending_put'[sh] :
                   /\ id + 1 \in DOMAIN issued'[sh]
                   /\ pending_put'[sh][id] = issued'[sh][id + 1]
                   /\ command'[issued'[sh][id + 1]].type = "Put"
             /\ \A id \in DOMAIN pending_get'[sh] :
                   /\ id + 1 \in DOMAIN issued'[sh]
                   /\ pending_get'[sh][id] = issued'[sh][id + 1]
                   /\ command'[issued'[sh][id + 1]].type = "Get"
  <2>1. cmd_rx[t] # <<>> /\ IssueCommand(t)
    BY <1>5 DEF TakePut, TakeGet
  <2>. PICK q : q = Head(cmd_rx[t])
    OBVIOUS
  <2>. PICK k : k = next_request_id[t]
    OBVIOUS
  <2>2. q \in Requests /\ k \in Nat
    BY <2>1 DEF TypeOK, ShimsTypeOK
  <2>3. k = Len(issued[t]) /\ issued[t] \in Seq(Requests) /\ issued \in [Shims -> Seq(Requests)]
    BY DEF TypeOK, ShimsTypeOK, RequestsAreIssuedOnce
  <2>4. issued'[t] = Append(issued[t], q) /\ UNCHANGED command
    BY <2>1, <2>3 DEF IssueCommand, callerVars
  <2>5. k + 1 \in DOMAIN issued'[t] /\ issued'[t][k + 1] = q
    BY <2>2, <2>3, <2>4, AppendProperties
  <2>6. CASE TakePut(t)
    <3>1. /\ pending_put'[sh] = IF sh = t THEN Insert(pending_put[sh], k, q)
                                ELSE pending_put[sh]
          /\ pending_get' = pending_get /\ command[q].type = "Put"
      BY <1>0, <2>6 DEF TakePut
    <3>2. \A id \in DOMAIN pending_put'[sh] :
             \/ /\ id \in DOMAIN pending_put[sh]
                /\ pending_put'[sh][id] = pending_put[sh][id]
             \/ sh = t /\ id = k /\ pending_put'[sh][id] = q
      BY <3>1 DEF Insert
    <3>. QED
      BY <1>2, <1>3, <2>4, <2>5, <3>1, <3>2
  <2>7. CASE TakeGet(t)
    <3>1. /\ pending_get'[sh] = IF sh = t THEN Insert(pending_get[sh], k, q)
                                ELSE pending_get[sh]
          /\ pending_put' = pending_put /\ command[q].type = "Get"
      BY <1>0, <2>7 DEF TakeGet
    <3>2. \A id \in DOMAIN pending_get'[sh] :
             \/ /\ id \in DOMAIN pending_get[sh]
                /\ pending_get'[sh][id] = pending_get[sh][id]
             \/ sh = t /\ id = k /\ pending_get'[sh][id] = q
      BY <3>1 DEF Insert
    <3>. QED
      BY <1>2, <1>3, <2>4, <2>5, <3>1, <3>2
  <2>. QED
    BY <1>5, <2>6, <2>7
<1>6. ASSUME NEW t \in Shims, TakeWrite(t) \/ TakeRead(t) \/ CrashShim(t)
      PROVE  /\ \A id \in DOMAIN pending_put'[sh] :
                   /\ id \in DOMAIN pending_put[sh]
                   /\ pending_put'[sh][id] = pending_put[sh][id]
             /\ \A id \in DOMAIN pending_get'[sh] :
                   /\ id \in DOMAIN pending_get[sh]
                   /\ pending_get'[sh][id] = pending_get[sh][id]
  BY <1>0, <1>6 DEF TakeWrite, TakeRead, CrashShim, Restrict
<1>7. \/ UNCHANGED <<pending_put, pending_get>>
      \/ \E t \in Shims : TakePut(t) \/ TakeGet(t)
      \/ \E t \in Shims : TakeWrite(t) \/ TakeRead(t) \/ CrashShim(t)
  BY DEF Next, CallerStep, HandlerStep, HandlerGone, SendCommand, DropHandler,
         ShimStep, ServerStep, KillShim,
         KillServer, BreakConnection, LibraryStep, TestOver, vars, shimVars
<1>. QED
  BY <1>2, <1>3, <1>4, <1>5, <1>6, <1>7

\* What a response says of the command.
LEMMA ResponseOfCommand ==
    ASSUME NEW db, NEW c, c \in Commands
    PROVE  /\ Response(db, c).id = c.id
           /\ Response(db, c).type = "Write" <=> c.kv_cmd.type # "Get"
           /\ Response(db, c).type = "Read" <=> c.kv_cmd.type = "Get"
           /\ c.kv_cmd.type = "Get" =>
                 Response(db, c).value = ReadResult(db, c.kv_cmd)
BY DEF Response

\* The next command of the loop is the next of the log.
LEMMA ApplyingIsNext ==
    ASSUME TypeOK, ReplayFollowsLog, DatabaseFollowsLog,
           NEW n \in Servers, UpdateDatabaseAndRespond(n)
    PROVE  /\ Applied(n) \in Nat /\ Applied(n) + 1 \in DOMAIN log
           /\ Head(commands[n]) = log[Applied(n) + 1]
           /\ database[n] = replay[Applied(n) + 1]
           /\ Applied(n)' = Applied(n) + 1
           /\ \A m \in Servers : m # n => Applied(m)' = Applied(m)
<1> DEFINE a == Applied(n)
           b == current_decided_idx[n]
<1>1. /\ log \in Seq(Commands)
      /\ current_decided_idx \in [Servers -> Nat]
      /\ commands \in [Servers -> Seq(Commands)]
  BY DEF TypeOK, ServersTypeOK
<1>2. /\ commands[n] # <<>>
      /\ commands' = [commands EXCEPT ![n] = Tail(commands[n])]
      /\ UNCHANGED <<log, replay, current_decided_idx>>
  BY DEF UpdateDatabaseAndRespond, libraryVars
<1>3. /\ a \in Nat /\ b \in Nat /\ a < b /\ b <= Len(log)
      /\ commands[n] = SubSeq(log, a + 1, b)
      /\ database[n] = replay[a + 1]
  BY <1>1, <1>2 DEF DatabaseFollowsLog, Applied
<1>4. a + 1 \in DOMAIN log /\ Head(commands[n]) = log[a + 1]
  <2>. HIDE DEF a, b
  <2>1. a + 1 \in 1 .. Len(log) /\ b \in a + 1 .. Len(log)
    BY <1>3
  <2>. QED
    BY <1>1, <1>3, <2>1, HeadTailOfSubSeq
<1>5. Len(Tail(commands[n])) = Len(commands[n]) - 1
  BY <1>1, <1>2, HeadTailProperties
<1>6. Applied(n)' = a + 1
  BY <1>1, <1>2, <1>5 DEF Applied
<1>7. \A m \in Servers : m # n => Applied(m)' = Applied(m)
  BY <1>1, <1>2 DEF Applied
<1>. QED
  BY <1>3, <1>4, <1>6, <1>7

\* What happens to the answers under way to one shim.
LEMMA AnswersMove ==
    ASSUME TypeOK, [Next]_vars, NEW sh \in Shims
    PROVE  \/ to_client'[sh] = to_client[sh]
           \/ to_client'[sh] = <<>>
           \/ to_client[sh] # <<>> /\ to_client'[sh] = Tail(to_client[sh])
           \/ \E n \in Servers :
                 /\ UpdateDatabaseAndRespond(n)
                 /\ Answers(n, Head(commands[n]))
                 /\ sh = <<n, Head(commands[n]).client_id>>
                 /\ shim_up[sh]
                 /\ to_client'[sh] = Append(to_client[sh],
                                        Response(database[n], Head(commands[n])))
<1>0. to_client \in [Shims -> Seq(ServerMessages)]
  BY DEF TypeOK, LinksTypeOK
<1>1. CASE UNCHANGED to_client
  BY <1>1
<1>2. ASSUME NEW t \in Shims,
             TakeWrite(t) \/ TakeRead(t) \/ CrashShim(t) \/ ResetConnection(t)
      PROVE  \/ to_client'[sh] = to_client[sh]
             \/ to_client'[sh] = <<>>
             \/ to_client[sh] # <<>> /\ to_client'[sh] = Tail(to_client[sh])
  BY <1>0, <1>2 DEF TakeWrite, TakeRead, CrashShim, ResetConnection
<1>3. ASSUME NEW n \in Servers, UpdateDatabaseAndRespond(n)
      PROVE  \/ to_client'[sh] = to_client[sh]
             \/ /\ Answers(n, Head(commands[n]))
                /\ sh = <<n, Head(commands[n]).client_id>>
                /\ shim_up[sh]
                /\ to_client'[sh] = Append(to_client[sh],
                                       Response(database[n], Head(commands[n])))
  BY <1>0, <1>3 DEF UpdateDatabaseAndRespond, SendToClient
<1>4. CASE \E t \in Shims : ShimStep(t)
  BY <1>1, <1>2, <1>4 DEF ShimStep, TakePut, TakeGet, IssueCommand
<1>5. CASE \E t \in Shims : KillShim(t) \/ BreakConnection(t)
  BY <1>2, <1>5 DEF KillShim, BreakConnection
<1>6. CASE \E n \in Servers : ServerStep(n) \/ KillServer(n)
  BY <1>1, <1>3, <1>6 DEF ServerStep, KillServer, CrashServer, HandleClientMessage,
                          TakeMessage, AppendToLog,
                          HandleDecidedEntries, News, AdvanceTo, linkVars
<1>7. CASE \/ \E r \in Requests : CallerStep(r) \/ HandlerStep(r) \/ HandlerGone(r)
           \/ LibraryStep \/ TestOver \/ UNCHANGED vars
  BY <1>1, <1>7 DEF CallerStep, HandlerStep, HandlerGone, SendCommand, DropHandler,
                    LibraryStep, Decide, LoseProposal, TestOver, vars, shimVars,
                    linkVars
<1>. QED
  BY <1>4, <1>5, <1>6, <1>7 DEF Next

LEMMA ResponsesComeFromLogStep ==
    ASSUME TypeOK, ReplayFollowsLog, DatabaseFollowsLog, RepliesComeFromLog,
           [Next]_vars, NEW sh \in Shims, NEW msg \in Range(to_client'[sh])
    PROVE  \E i \in DOMAIN log' : /\ ShimOf(log'[i]) = sh
                                  /\ msg = Response(replay'[i], log'[i])
<1>0. to_client[sh] \in Queue(ServerMessages)
  BY QueueTypes
<1>1. CASE msg \in Range(to_client[sh])
  <2>. PICK i \in DOMAIN log : ShimOf(log[i]) = sh /\ msg = Response(replay[i], log[i])
    BY <1>1 DEF RepliesComeFromLog
  <2>. QED
    BY LogStays
<1>2. ASSUME NEW n \in Servers, UpdateDatabaseAndRespond(n),
             Answers(n, Head(commands[n])), sh = <<n, Head(commands[n]).client_id>>,
             msg = Response(database[n], Head(commands[n]))
      PROVE  \E i \in DOMAIN log' : /\ ShimOf(log'[i]) = sh
                                    /\ msg = Response(replay'[i], log'[i])
  <2>. PICK i \in DOMAIN log : Head(commands[n]) = log[i] /\ database[n] = replay[i]
    BY <1>2, ApplyingIsNext
  <2>1. ShimOf(log[i]) = sh
    BY <1>2 DEF ShimOf, Answers
  <2>. QED
    BY <1>2, <2>1, LogStays
<1>3. ASSUME NEW n \in Servers, UpdateDatabaseAndRespond(n),
             to_client'[sh] = Append(to_client[sh],
                                  Response(database[n], Head(commands[n])))
      PROVE  \/ msg \in Range(to_client[sh])
             \/ msg = Response(database[n], Head(commands[n]))
  <2>1. commands[n] # <<>> /\ commands[n] \in Queue(Commands) /\ database[n] \in Databases
    BY <1>3, QueueTypes DEF UpdateDatabaseAndRespond, TypeOK, ServersTypeOK
  <2>2. Response(database[n], Head(commands[n])) \in ServerMessages
    BY <2>1, RangeOfTail, ResponseType
  <2>. QED
    BY <1>0, <1>3, <2>2, RangeOfAppend
<1>4. CASE to_client'[sh] = to_client[sh]
  BY <1>1, <1>4
<1>5. CASE to_client'[sh] = <<>>
  BY <1>5, RangeOfEmpty
<1>6. CASE to_client[sh] # <<>> /\ to_client'[sh] = Tail(to_client[sh])
  BY <1>0, <1>1, <1>6, RangeOfTail
<1>. QED
  BY <1>1, <1>2, <1>3, <1>4, <1>5, <1>6, AnswersMove

\* The response that a shim takes is the result of the request it is filed
\* under.
LEMMA ResponseIsResult ==
    ASSUME TypeOK, RequestsAreIssuedOnce, CommandsAreNamed, RepliesComeFromLog,
           PendingAreIssued, NEW sh \in Shims, to_client[sh] # <<>>,
           NEW msg, msg = Head(to_client[sh])
    PROVE  /\ msg.type = "Write" /\ msg.id \in DOMAIN pending_put[sh] =>
                \E i \in Effects(pending_put[sh][msg.id]) :
                    NoValue = ResultAt(pending_put[sh][msg.id], i)
           /\ msg.type = "Read" /\ msg.id \in DOMAIN pending_get[sh] =>
                \E i \in Effects(pending_get[sh][msg.id]) :
                    msg.value = ResultAt(pending_get[sh][msg.id], i)
<1>1. msg \in Range(to_client[sh])
  BY QueueTypes, RangeOfTail
<1>. PICK i \in DOMAIN log : ShimOf(log[i]) = sh /\ msg = Response(replay[i], log[i])
  BY <1>1 DEF RepliesComeFromLog
<1>. PICK c \in Commands : c = log[i]
  BY LogIsNamed
<1>2. IsNamed(c) /\ ShimOf(c) = sh /\ msg = Response(replay[i], c)
  BY LogIsNamed
<1>3. msg.id = c.id /\ RequestOf(c) = issued[sh][msg.id + 1]
      /\ c.kv_cmd = command[RequestOf(c)]
  BY <1>2, ResponseOfCommand DEF RequestOf, IsNamed
<1>4. i \in Effects(RequestOf(c))
  BY EffectsArePlaces
<1>5. CASE msg.type = "Write" /\ msg.id \in DOMAIN pending_put[sh]
  <2>1. pending_put[sh][msg.id] = RequestOf(c) /\ command[RequestOf(c)].type = "Put"
    BY <1>3, <1>5 DEF PendingAreIssued
  <2>2. NoValue = ResultAt(RequestOf(c), i)
    BY <2>1 DEF ResultAt, ReadResult
  <2>. QED
    BY <1>4, <1>5, <2>1, <2>2
<1>6. CASE msg.type = "Read" /\ msg.id \in DOMAIN pending_get[sh]
  <2>1. pending_get[sh][msg.id] = RequestOf(c)
    BY <1>3, <1>6 DEF PendingAreIssued
  <2>2. c.kv_cmd.type = "Get" /\ msg.value = ReadResult(replay[i], c.kv_cmd)
    BY <1>2, <1>6, ResponseOfCommand
  <2>3. msg.value = ResultAt(RequestOf(c), i)
    BY <1>3, <2>2 DEF ResultAt
  <2>. QED
    BY <1>4, <1>6, <2>1, <2>3
<1>. QED
  BY <1>5, <1>6

LEMMA RepliesComeFromLogStep ==
    ASSUME TypeOK, OnlyInvokedAreSent, ReplayFollowsLog, DatabaseFollowsLog,
           RequestsAreIssuedOnce, CommandsAreNamed, RepliesComeFromLog,
           PendingAreIssued, [Next]_vars
    PROVE  RepliesComeFromLog'
<1>1. ASSUME NEW r \in Requests, NEW x, x # NoReply,
             \E i \in Effects(r) : x = ResultAt(r, i)
      PROVE  \E i \in Effects(r)' : x = ResultAt(r, i)'
  BY <1>1, EffectStays
<1>2. ASSUME NEW r \in Requests, reply'[r] # NoReply, reply'[r] = reply[r]
      PROVE  \E i \in Effects(r)' : reply'[r] = ResultAt(r, i)'
  BY <1>1, <1>2 DEF RepliesComeFromLog
<1>3. ASSUME NEW sh \in Shims, TakeWrite(sh) \/ TakeRead(sh),
             NEW r \in Requests, reply'[r] # NoReply, reply'[r] # reply[r]
      PROVE  \E i \in Effects(r)' : reply'[r] = ResultAt(r, i)'
  <2>. PICK msg : msg = Head(to_client[sh])
    OBVIOUS
  <2>1. to_client[sh] # <<>> /\ reply \in [Requests -> Replies \cup {NoReply}]
    BY <1>3 DEF TakeWrite, TakeRead, TypeOK, CallersTypeOK
  <2>2. \/ /\ msg.type = "Write" /\ msg.id \in DOMAIN pending_put[sh]
           /\ r = pending_put[sh][msg.id] /\ reply'[r] = NoValue
        \/ /\ msg.type = "Read" /\ msg.id \in DOMAIN pending_get[sh]
           /\ r = pending_get[sh][msg.id] /\ reply'[r] = msg.value
    BY <1>3, <2>1 DEF TakeWrite, TakeRead
  <2>3. \E i \in Effects(r) : reply'[r] = ResultAt(r, i)
    BY <2>1, <2>2, ResponseIsResult
  <2>. QED
    BY <1>1, <1>3, <2>3
<1>4. \/ UNCHANGED reply
      \/ \E sh \in Shims : TakeWrite(sh) \/ TakeRead(sh)
  BY DEF Next, CallerStep, Invoke, Refused, Completed, Indeterminate, HandlerStep,
         HandlerGone, SendCommand, DropHandler, ShimStep, TakePut, TakeGet,
         IssueCommand, ServerStep,
         KillShim, CrashShim, KillServer, BreakConnection, LibraryStep, TestOver,
         vars, callerVars
<1>5. \A r \in Requests :
         reply'[r] # NoReply => \E i \in Effects(r)' : reply'[r] = ResultAt(r, i)'
  BY <1>2, <1>3, <1>4
<1>. QED
  BY <1>5, ResponsesComeFromLogStep DEF RepliesComeFromLog

\* Only a caller with a reply is told :ok, and then with what it was told.
LEMMA AnswersComeFromLogStep ==
    ASSUME TypeOK, OnlyInvokedAreSent, ReplayFollowsLog, DatabaseFollowsLog,
           RequestsAreIssuedOnce, CommandsAreNamed, RepliesComeFromLog,
           AnswersComeFromLog, [Next]_vars
    PROVE  AnswersComeFromLog'
<1>. SUFFICES ASSUME NEW r \in Requests, outcome'[r] = "ok"
              PROVE  \E i \in Effects(r)' : /\ log'[i].kv_cmd = command'[r]
                                            /\ answer'[r] = ResultAt(r, i)'
  BY DEF AnswersComeFromLog
<1>1. \E i \in Effects(r) : answer'[r] = ResultAt(r, i)
  <2>1. CASE outcome[r] = "ok" /\ answer'[r] = answer[r]
    BY <2>1 DEF AnswersComeFromLog
  <2>2. ASSUME NEW q \in Requests, CallerStep(q)
        PROVE  \/ outcome[r] = "ok" /\ answer'[r] = answer[r]
               \/ reply[r] # NoReply /\ answer'[r] = reply[r]
    BY <2>2 DEF CallerStep, Invoke, Refused, Completed, Indeterminate, TypeOK,
                CallersTypeOK
  <2>3. \/ UNCHANGED <<outcome, answer>>
        \/ \E q \in Requests : CallerStep(q)
    BY DEF Next, HandlerStep, HandlerGone, SendCommand, DropHandler, ShimStep, TakePut,
           TakeGet, IssueCommand,
           TakeWrite, TakeRead, ServerStep, KillShim, CrashShim, KillServer,
           BreakConnection, LibraryStep, TestOver, vars, callerVars
  <2>4. CASE reply[r] # NoReply /\ answer'[r] = reply[r]
    BY <2>4 DEF RepliesComeFromLog
  <2>. QED
    BY <2>1, <2>2, <2>3, <2>4
<1>. PICK i \in Effects(r) : answer'[r] = ResultAt(r, i)
  BY <1>1
<1>2. /\ i \in Effects(r)' /\ ResultAt(r, i)' = ResultAt(r, i)
      /\ log[i].kv_cmd = command[r] /\ outcome[r] # "none"
  BY EffectStays
<1>3. log'[i] = log[i] /\ command'[r] = command[r]
  BY <1>2, LogStays, CommandStays DEF Effects
<1>. QED
  BY <1>2, <1>3

(***************************************************************************)
(* A CommandId stays pending until it is answered                          *)
(***************************************************************************)

\* PendingUntilAnswered, of one shim.
AwaitsAnswers(sh) ==
    shim_up[sh] =>
        /\ \A msg \in Range(to_client[sh]) : msg.id \in DOMAIN PendingFor(sh, msg)
        /\ \A i, j \in DOMAIN to_client[sh] :
              to_client[sh][i].id = to_client[sh][j].id => i = j
        /\ server_up[sh[1]] =>
              /\ \A msg \in Range(to_client[sh]) : AppliedId(sh, msg.id)
              /\ \A k \in DOMAIN issued[sh] :
                    \/ AppliedId(sh, k - 1)
                    \/ k - 1 \in PendingOfType(sh, command[issued[sh][k]].type)

\* A running server has applied what it had, and the log goes that far.
LEMMA AppliedGrows ==
    ASSUME TypeOK, ReplayFollowsLog, DatabaseFollowsLog, [Next]_vars,
           NEW n \in Servers, server_up'[n]
    PROVE  /\ server_up[n]
           /\ Applied(n) \in Nat /\ Applied(n) <= Len(log)
           /\ Applied(n)' \in Nat /\ Applied(n) <= Applied(n)'
           /\ Applied(n)' = Applied(n) \/ UpdateDatabaseAndRespond(n)
<1>1. /\ log \in Seq(Commands)
      /\ current_decided_idx \in [Servers -> Nat]
      /\ commands \in [Servers -> Seq(Commands)]
      /\ server_up \in [Servers -> BOOLEAN]
  BY DEF TypeOK, ServersTypeOK, LinksTypeOK
<1>2. Applied(n) \in Nat /\ Applied(n) <= Len(log)
  BY <1>1 DEF DatabaseFollowsLog, Applied
<1>3. CASE UNCHANGED <<server_up, current_decided_idx, commands>>
  BY <1>2, <1>3 DEF Applied
<1>4. ASSUME NEW m \in Servers, UpdateDatabaseAndRespond(m)
      PROVE  /\ server_up[n] /\ Applied(n)' \in {Applied(n), Applied(n) + 1}
             /\ m = n \/ Applied(n)' = Applied(n)
  BY <1>4, ApplyingIsNext DEF UpdateDatabaseAndRespond
<1>5. ASSUME NEW m \in Servers, HandleDecidedEntries(m)
      PROVE  server_up[n] /\ Applied(n)' = Applied(n)
  <2>. PICK idx \in current_decided_idx[m] + 1 .. Len(log) :
          /\ commands' = [commands EXCEPT ![m] =
                              DecidedSuffix(current_decided_idx[m], idx)]
          /\ current_decided_idx' = [current_decided_idx EXCEPT ![m] = idx]
    BY <1>5 DEF HandleDecidedEntries, News, AdvanceTo
  <2>1. Len(DecidedSuffix(current_decided_idx[m], idx)) = idx - current_decided_idx[m]
    BY <1>1, SubSeqProperties DEF DecidedSuffix
  <2>2. commands[m] = <<>> /\ UNCHANGED server_up
    BY <1>5 DEF HandleDecidedEntries, News, AdvanceTo, linkVars
  <2>3. CASE m = n
    <3>1. /\ commands'[n] = DecidedSuffix(current_decided_idx[n], idx)
          /\ current_decided_idx'[n] = idx
      BY <1>1, <2>3
    <3>2. Applied(n) = current_decided_idx[n] /\ current_decided_idx[n] \in Nat
      BY <1>1, <2>2, <2>3 DEF Applied
    <3>3. Len(commands'[n]) = idx - current_decided_idx[n]
      BY <2>1, <2>3, <3>1
    <3>4. Applied(n)' = idx - (idx - current_decided_idx[n])
      BY <3>1, <3>3 DEF Applied
    <3>5. idx \in Int
      BY <1>1
    <3>. QED
      BY <2>2, <3>2, <3>4, <3>5
  <2>4. CASE m # n
    BY <1>1, <2>2, <2>4 DEF Applied
  <2>. QED
    BY <2>2, <2>3, <2>4
<1>6. ASSUME NEW m \in Servers, CrashServer(m)
      PROVE  server_up[n] /\ Applied(n)' = Applied(n)
  <2>1. m # n
    BY <1>1, <1>6 DEF CrashServer
  <2>. QED
    BY <1>1, <1>6, <2>1 DEF CrashServer, Applied
<1>7. \/ UNCHANGED <<server_up, current_decided_idx, commands>>
      \/ \E m \in Servers : \/ UpdateDatabaseAndRespond(m)
                            \/ HandleDecidedEntries(m)
                            \/ CrashServer(m)
  BY DEF Next, CallerStep, HandlerStep, HandlerGone, SendCommand, DropHandler,
         ShimStep, TakePut, TakeGet,
         IssueCommand, TakeWrite, TakeRead, ServerStep, HandleClientMessage,
         TakeMessage, AppendToLog,
         KillShim, CrashShim, KillServer, BreakConnection, LibraryStep, Decide,
         LoseProposal, TestOver, vars, linkVars, serverVars
<1>. QED
  BY <1>2, <1>3, <1>4, <1>5, <1>6, <1>7

LEMMA AppliedIdStays ==
    ASSUME TypeOK, ReplayFollowsLog, DatabaseFollowsLog, [Next]_vars,
           NEW sh \in Shims, server_up'[sh[1]]
    PROVE  server_up[sh[1]] /\ \A id : AppliedId(sh, id) => AppliedId(sh, id)'
<1>1. sh[1] \in Servers
  BY DEF Shims
<1>2. server_up[sh[1]]
  BY <1>1, AppliedGrows
<1>3. ASSUME NEW id, AppliedId(sh, id) PROVE AppliedId(sh, id)'
  <2>. PICK i \in 1 .. Applied(sh[1]) : ShimOf(log[i]) = sh /\ log[i].id = id
    BY <1>3 DEF AppliedId
  <2>1. log \in Seq(Commands)
    BY DEF TypeOK, ServersTypeOK
  <2>2. i \in DOMAIN log /\ i \in 1 .. Applied(sh[1])'
    BY <1>1, <2>1, AppliedGrows
  <2>3. log'[i] = log[i]
    BY <2>2, LogStays
  <2>. QED
    BY <2>2, <2>3 DEF AppliedId, ShimOf
<1>. QED
  BY <1>2, <1>3

\* A step that adds nothing to what the shim waits for.
LEMMA AwaitingStays ==
    ASSUME TypeOK, OnlyInvokedAreSent, ReplayFollowsLog, DatabaseFollowsLog,
           [Next]_vars, NEW sh \in Shims, AwaitsAnswers(sh),
           shim_up[sh],
           to_client'[sh] \in {to_client[sh], <<>>},
           pending_put'[sh] = pending_put[sh],
           pending_get'[sh] = pending_get[sh],
           issued'[sh] = issued[sh]
    PROVE  AwaitsAnswers(sh)'
<1>1. \A k \in DOMAIN issued[sh] : command'[issued[sh][k]] = command[issued[sh][k]]
  <2>. TAKE k \in DOMAIN issued[sh]
  <2>1. issued[sh][k] \in Range(issued[sh])
    BY DEF Range
  <2>. QED
    BY <2>1, IssuedIsInvoked, CommandStays
<1>2. ASSUME NEW msg \in Range(to_client'[sh])
      PROVE  msg \in Range(to_client[sh]) /\ msg.id \in DOMAIN PendingFor(sh, msg)'
  <2>1. msg \in Range(to_client[sh])
    BY RangeOfEmpty
  <2>. QED
    BY <2>1 DEF AwaitsAnswers, PendingFor
<1>3. \A i, j \in DOMAIN to_client'[sh] :
         to_client'[sh][i].id = to_client'[sh][j].id => i = j
  BY DEF AwaitsAnswers
<1>4. ASSUME server_up'[sh[1]]
      PROVE  /\ \A msg \in Range(to_client'[sh]) : AppliedId(sh, msg.id)'
             /\ \A k \in DOMAIN issued'[sh] :
                   \/ AppliedId(sh, k - 1)'
                   \/ k - 1 \in PendingOfType(sh, command[issued[sh][k]].type)'
  <2>1. server_up[sh[1]] /\ \A id : AppliedId(sh, id) => AppliedId(sh, id)'
    BY <1>4, AppliedIdStays
  <2>2. \A msg \in Range(to_client'[sh]) : AppliedId(sh, msg.id)'
    BY <1>2, <2>1 DEF AwaitsAnswers
  <2>3. ASSUME NEW k \in DOMAIN issued'[sh]
        PROVE  \/ AppliedId(sh, k - 1)'
               \/ k - 1 \in PendingOfType(sh, command[issued[sh][k]].type)'
    <3>1. \/ AppliedId(sh, k - 1)
          \/ k - 1 \in PendingOfType(sh, command[issued[sh][k]].type)
      BY <2>1 DEF AwaitsAnswers
    <3>2. command'[issued'[sh][k]] = command[issued[sh][k]]
      BY <1>1
    <3>3. PendingOfType(sh, command[issued[sh][k]].type)'
            = PendingOfType(sh, command[issued[sh][k]].type)
      BY <3>2 DEF PendingOfType
    <3>. QED
      BY <2>1, <3>1, <3>3
  <2>. QED
    BY <2>2, <2>3
<1>. QED
  BY <1>2, <1>3, <1>4 DEF AwaitsAnswers

\* A command that is sent is pending from the same step on.
LEMMA IssuingAwaits ==
    ASSUME TypeOK, OnlyInvokedAreSent, ReplayFollowsLog, DatabaseFollowsLog,
           RequestsAreIssuedOnce, [Next]_vars,
           NEW sh \in Shims, AwaitsAnswers(sh), TakePut(sh) \/ TakeGet(sh)
    PROVE  AwaitsAnswers(sh)'
<1>. PICK q : q = Head(cmd_rx[sh])
  OBVIOUS
<1>. PICK id : id = next_request_id[sh]
  OBVIOUS
<1>1. /\ IssueCommand(sh) /\ cmd_rx[sh] # <<>> /\ shim_up[sh]
      /\ UNCHANGED <<to_client, command, server_up>>
  BY DEF TakePut, TakeGet, IssueCommand, callerVars
<1>2. /\ issued \in [Shims -> Seq(Requests)] /\ q \in Requests
      /\ id = Len(issued[sh]) /\ id \in Nat
      /\ DOMAIN pending_put = Shims /\ DOMAIN pending_get = Shims
  BY <1>1 DEF TypeOK, ShimsTypeOK, RequestsAreIssuedOnce
<1>3. issued'[sh] = Append(issued[sh], q)
  BY <1>1, <1>2 DEF IssueCommand
<1>4. ASSUME NEW k \in DOMAIN issued'[sh]
      PROVE  \/ k \in DOMAIN issued[sh] /\ issued'[sh][k] = issued[sh][k]
             \/ k - 1 = id /\ issued'[sh][k] = q
  BY <1>2, <1>3, AppendProperties
<1>5. /\ DOMAIN pending_put[sh] \subseteq DOMAIN pending_put'[sh]
      /\ DOMAIN pending_get[sh] \subseteq DOMAIN pending_get'[sh]
      /\ id \in PendingOfType(sh, command[q].type)'
  <2>1. CASE TakePut(sh)
    <3>1. /\ pending_put'[sh] = Insert(pending_put[sh], id, q)
          /\ pending_get' = pending_get /\ command[q].type = "Put"
      BY <1>2, <2>1 DEF TakePut
    <3>2. DOMAIN pending_put'[sh] = DOMAIN pending_put[sh] \cup {id}
      BY <3>1 DEF Insert
    <3>. QED
      BY <1>1, <3>1, <3>2 DEF PendingOfType
  <2>2. CASE TakeGet(sh)
    <3>1. /\ pending_get'[sh] = Insert(pending_get[sh], id, q)
          /\ pending_put' = pending_put /\ command[q].type = "Get"
      BY <1>2, <2>2 DEF TakeGet
    <3>2. DOMAIN pending_get'[sh] = DOMAIN pending_get[sh] \cup {id}
      BY <3>1 DEF Insert
    <3>. QED
      BY <1>1, <3>1, <3>2 DEF PendingOfType
  <2>. QED
    BY <2>1, <2>2
<1>6. \A msg \in Range(to_client'[sh]) : msg.id \in DOMAIN PendingFor(sh, msg)'
  BY <1>1, <1>5 DEF AwaitsAnswers, PendingFor
<1>7. \A i, j \in DOMAIN to_client'[sh] :
         to_client'[sh][i].id = to_client'[sh][j].id => i = j
  BY <1>1 DEF AwaitsAnswers
<1>8. ASSUME server_up'[sh[1]]
      PROVE  /\ \A msg \in Range(to_client'[sh]) : AppliedId(sh, msg.id)'
             /\ \A k \in DOMAIN issued'[sh] :
                   \/ AppliedId(sh, k - 1)'
                   \/ k - 1 \in PendingOfType(sh, command[issued[sh][k]].type)'
  <2>1. server_up[sh[1]] /\ \A i : AppliedId(sh, i) => AppliedId(sh, i)'
    BY <1>8, AppliedIdStays
  <2>2. \A msg \in Range(to_client'[sh]) : AppliedId(sh, msg.id)'
    BY <1>1, <2>1 DEF AwaitsAnswers
  <2>3. ASSUME NEW k \in DOMAIN issued'[sh]
        PROVE  \/ AppliedId(sh, k - 1)'
               \/ k - 1 \in PendingOfType(sh, command[issued[sh][k]].type)'
    <3>1. CASE k \in DOMAIN issued[sh] /\ issued'[sh][k] = issued[sh][k]
      <4>1. \/ AppliedId(sh, k - 1)
            \/ k - 1 \in PendingOfType(sh, command[issued[sh][k]].type)
        BY <1>1, <2>1, <3>1 DEF AwaitsAnswers
      <4>2. PendingOfType(sh, command[issued[sh][k]].type)
              \subseteq PendingOfType(sh, command[issued[sh][k]].type)'
        BY <1>1, <1>5, <3>1 DEF PendingOfType
      <4>. QED
        BY <2>1, <4>1, <4>2
    <3>2. CASE k - 1 = id /\ issued'[sh][k] = q
      BY <1>1, <1>5, <3>2 DEF PendingOfType
    <3>. QED
      BY <1>4, <3>1, <3>2
  <2>. QED
    BY <2>2, <2>3
<1>. QED
  BY <1>6, <1>7, <1>8 DEF AwaitsAnswers

\* Taking a response leaves the entries of the others.
LEMMA TakingAwaits ==
    ASSUME TypeOK, ReplayFollowsLog, DatabaseFollowsLog, [Next]_vars,
           NEW sh \in Shims, AwaitsAnswers(sh), TakeWrite(sh) \/ TakeRead(sh)
    PROVE  AwaitsAnswers(sh)'
<1>. PICK m : m = Head(to_client[sh])
  OBVIOUS
<1>1. /\ shim_up[sh] /\ to_client[sh] # <<>>
      /\ UNCHANGED <<issued, command, server_up>>
      /\ to_client \in [Shims -> Seq(ServerMessages)]
      /\ DOMAIN pending_put = Shims /\ DOMAIN pending_get = Shims
  BY DEF TakeWrite, TakeRead, TypeOK, LinksTypeOK, ShimsTypeOK
<1>2. to_client'[sh] = Tail(to_client[sh])
  BY <1>1 DEF TakeWrite, TakeRead
<1>3. /\ m \in Range(to_client[sh]) /\ m = to_client[sh][1]
      /\ Range(Tail(to_client[sh])) \subseteq Range(to_client[sh])
  BY <1>1, QueueTypes, RangeOfTail
<1>4. /\ DOMAIN pending_put[sh] \ {m.id} \subseteq DOMAIN pending_put'[sh]
      /\ DOMAIN pending_get[sh] \ {m.id} \subseteq DOMAIN pending_get'[sh]
  <2>1. CASE TakeWrite(sh)
    <3>1. /\ pending_put'[sh] = Restrict(pending_put[sh], DOMAIN pending_put[sh] \ {m.id})
          /\ pending_get' = pending_get
      BY <1>1, <2>1 DEF TakeWrite
    <3>. QED
      BY <3>1 DEF Restrict
  <2>2. CASE TakeRead(sh)
    <3>1. /\ pending_get'[sh] = Restrict(pending_get[sh], DOMAIN pending_get[sh] \ {m.id})
          /\ pending_put' = pending_put
      BY <1>1, <2>2 DEF TakeRead
    <3>. QED
      BY <3>1 DEF Restrict
  <2>. QED
    BY <2>1, <2>2
<1>5. ASSUME NEW i \in DOMAIN to_client'[sh]
      PROVE  /\ i + 1 \in DOMAIN to_client[sh]
             /\ to_client'[sh][i] = to_client[sh][i + 1]
             /\ i \in Nat /\ i + 1 # 1
  BY <1>1, <1>2, HeadTailProperties
<1>6. 1 \in DOMAIN to_client[sh]
  BY <1>1, EmptySeq
<1>7. ASSUME NEW i \in DOMAIN to_client'[sh]
      PROVE  to_client'[sh][i].id # m.id
  BY <1>1, <1>3, <1>5, <1>6 DEF AwaitsAnswers
<1>8. ASSUME NEW msg \in Range(to_client'[sh])
      PROVE  msg.id \in DOMAIN PendingFor(sh, msg)'
  <2>1. msg \in Range(to_client[sh]) /\ msg.id # m.id
    BY <1>2, <1>3, <1>7 DEF Range
  <2>2. msg.id \in DOMAIN PendingFor(sh, msg)
    BY <1>1, <2>1 DEF AwaitsAnswers
  <2>. QED
    BY <1>4, <2>1, <2>2 DEF PendingFor
<1>9. \A i, j \in DOMAIN to_client'[sh] :
         to_client'[sh][i].id = to_client'[sh][j].id => i = j
  <2>. TAKE i, j \in DOMAIN to_client'[sh]
  <2>1. to_client'[sh][i].id = to_client'[sh][j].id => i + 1 = j + 1
    BY <1>1, <1>5 DEF AwaitsAnswers
  <2>. QED
    BY <1>5, <2>1
<1>10. ASSUME server_up'[sh[1]]
       PROVE  /\ \A msg \in Range(to_client'[sh]) : AppliedId(sh, msg.id)'
              /\ \A k \in DOMAIN issued'[sh] :
                    \/ AppliedId(sh, k - 1)'
                    \/ k - 1 \in PendingOfType(sh, command[issued[sh][k]].type)'
  <2>1. server_up[sh[1]] /\ \A i : AppliedId(sh, i) => AppliedId(sh, i)'
    BY <1>10, AppliedIdStays
  <2>2. \A msg \in Range(to_client[sh]) : AppliedId(sh, msg.id)'
    BY <1>1, <2>1 DEF AwaitsAnswers
  <2>3. ASSUME NEW k \in DOMAIN issued'[sh]
        PROVE  \/ AppliedId(sh, k - 1)'
               \/ k - 1 \in PendingOfType(sh, command[issued[sh][k]].type)'
    <3>1. \/ AppliedId(sh, k - 1)
          \/ k - 1 \in PendingOfType(sh, command[issued[sh][k]].type)
      BY <1>1, <2>1 DEF AwaitsAnswers
    <3>2. CASE k - 1 = m.id
      BY <1>3, <2>2, <3>2
    <3>3. CASE k - 1 # m.id
      <4>1. \A type : PendingOfType(sh, type) \ {m.id} \subseteq PendingOfType(sh, type)'
        BY <1>4 DEF PendingOfType
      <4>2. command'[issued'[sh][k]] = command[issued[sh][k]]
        BY <1>1
      <4>. QED
        BY <2>1, <3>1, <3>3, <4>1, <4>2 DEF PendingOfType
    <3>. QED
      BY <3>2, <3>3
  <2>. QED
    BY <1>2, <1>3, <2>2, <2>3
<1>. QED
  BY <1>8, <1>9, <1>10 DEF AwaitsAnswers

\* The command that a server applies next was not answered before: its id is
\* still pending, under the type of its response.
LEMMA AnsweringAwaits ==
    ASSUME TypeOK, OnlyInvokedAreSent, ReplayFollowsLog, DatabaseFollowsLog,
           RequestsAreIssuedOnce, CommandsAreNamed, CommandsAreOnce, [Next]_vars,
           NEW sh \in Shims, AwaitsAnswers(sh), shim_up[sh],
           NEW n \in Servers, UpdateDatabaseAndRespond(n),
           Answers(n, Head(commands[n])), sh = <<n, Head(commands[n]).client_id>>,
           to_client'[sh] = Append(to_client[sh],
                                   Response(database[n], Head(commands[n]))),
           UNCHANGED shimVars, UNCHANGED callerVars
    PROVE  AwaitsAnswers(sh)'
<1>. PICK a : a = Applied(n)
  OBVIOUS
<1>0. /\ a \in Nat /\ a + 1 \in DOMAIN log /\ Head(commands[n]) = log[a + 1]
      /\ Applied(n)' = a + 1 /\ commands[n] # <<>> /\ server_up[n] /\ sh[1] = n
  BY ApplyingIsNext DEF UpdateDatabaseAndRespond
<1>. PICK c \in Commands : c = log[a + 1]
  BY <1>0, LogIsNamed
<1>. PICK m : m = Response(database[n], c)
  OBVIOUS
<1>1. IsNamed(c) /\ ShimOf(c) = sh
  BY <1>0, LogIsNamed DEF Answers, ShimOf
<1>2. /\ m.id = c.id /\ (m.type = "Write" <=> c.kv_cmd.type # "Get")
      /\ m \in ServerMessages
  <2>1. database[n] \in Databases
    BY DEF TypeOK, ServersTypeOK
  <2>. QED
    BY <2>1, ResponseOfCommand, ResponseType
<1>3. ~AppliedId(sh, c.id)
  <2>. SUFFICES ASSUME NEW i \in 1 .. Applied(n), ShimOf(log[i]) = sh, log[i].id = c.id
                PROVE  FALSE
    BY <1>0 DEF AppliedId
  <2>1. log \in Seq(Commands)
    BY DEF TypeOK, ServersTypeOK
  <2>2. i \in DOMAIN log /\ i # a + 1
    BY <1>0, <2>1
  <2>3. log[i] \in Commands /\ IsNamed(log[i])
    BY <2>2, LogIsNamed
  <2>4. RequestOf(log[i]) = RequestOf(c)
    BY <1>1 DEF RequestOf
  <2>5. log[i] = c
    BY <1>1, <2>3, <2>4, RequestsNameCommands
  <2>. QED
    BY <1>0, <2>2, <2>5 DEF CommandsAreOnce, IsInjective
<1>4. c.id \in DOMAIN PendingFor(sh, m)
  <2>1. c.id \in Nat /\ c.id + 1 \in DOMAIN issued[sh]
    BY <1>1, ShimOfType DEF IsNamed
  <2>2. command[issued[sh][c.id + 1]] = c.kv_cmd
    BY <1>1 DEF IsNamed, RequestOf
  <2>. PICK k : k = c.id + 1
    OBVIOUS
  <2>3. \/ AppliedId(sh, k - 1)
        \/ k - 1 \in PendingOfType(sh, command[issued[sh][k]].type)
    BY <1>0, <2>1 DEF AwaitsAnswers
  <2>4. k - 1 = c.id
    BY <2>1
  <2>5. c.id \in PendingOfType(sh, c.kv_cmd.type)
    BY <1>3, <2>2, <2>3, <2>4
  <2>. QED
    BY <1>2, <2>5 DEF PendingFor, PendingOfType
<1>5. /\ to_client[sh] \in Seq(ServerMessages)
      /\ to_client'[sh] = Append(to_client[sh], m)
      /\ Range(to_client'[sh]) = Range(to_client[sh]) \cup {m}
  <2>1. to_client[sh] \in Queue(ServerMessages)
    BY QueueTypes
  <2>2. to_client'[sh] = Append(to_client[sh], m)
    BY <1>0
  <2>3. Range(Append(to_client[sh], m)) = Range(to_client[sh]) \cup {m}
    BY <1>2, <2>1, RangeOfAppend
  <2>. QED
    BY <2>1, <2>2, <2>3 DEF Queue
<1>6. /\ \A msg : PendingFor(sh, msg)' = PendingFor(sh, msg)
      /\ \A type : PendingOfType(sh, type)' = PendingOfType(sh, type)
      /\ UNCHANGED <<issued, command>>
  BY DEF PendingFor, PendingOfType, shimVars, callerVars
<1>7. \A msg \in Range(to_client'[sh]) : msg.id \in DOMAIN PendingFor(sh, msg)'
  BY <1>2, <1>4, <1>5, <1>6 DEF AwaitsAnswers
<1>8. \A msg \in Range(to_client[sh]) : AppliedId(sh, msg.id)
  BY <1>0 DEF AwaitsAnswers
<1>9. \A i \in DOMAIN to_client[sh] : to_client[sh][i].id # c.id
  BY <1>3, <1>8 DEF Range
<1>10. ASSUME NEW i \in DOMAIN to_client'[sh]
       PROVE  \/ i \in DOMAIN to_client[sh] /\ to_client'[sh][i] = to_client[sh][i]
              \/ i = Len(to_client[sh]) + 1 /\ to_client'[sh][i] = m
  BY <1>2, <1>5, AppendProperties
<1>11. \A i, j \in DOMAIN to_client'[sh] :
          to_client'[sh][i].id = to_client'[sh][j].id => i = j
  <2>. TAKE i, j \in DOMAIN to_client'[sh]
  <2>1. \A k \in DOMAIN to_client[sh] : to_client[sh][k].id # m.id
    BY <1>2, <1>9
  <2>2. \A k, l \in DOMAIN to_client[sh] :
           to_client[sh][k].id = to_client[sh][l].id => k = l
    BY DEF AwaitsAnswers
  <2>3. \/ i \in DOMAIN to_client[sh] /\ to_client'[sh][i] = to_client[sh][i]
        \/ i = Len(to_client[sh]) + 1 /\ to_client'[sh][i] = m
    BY <1>10
  <2>4. \/ j \in DOMAIN to_client[sh] /\ to_client'[sh][j] = to_client[sh][j]
        \/ j = Len(to_client[sh]) + 1 /\ to_client'[sh][j] = m
    BY <1>10
  <2>. QED
    BY <2>1, <2>2, <2>3, <2>4
<1>12. ASSUME server_up'[sh[1]]
       PROVE  /\ \A msg \in Range(to_client'[sh]) : AppliedId(sh, msg.id)'
              /\ \A k \in DOMAIN issued'[sh] :
                    \/ AppliedId(sh, k - 1)'
                    \/ k - 1 \in PendingOfType(sh, command[issued[sh][k]].type)'
  <2>1. server_up[sh[1]] /\ \A i : AppliedId(sh, i) => AppliedId(sh, i)'
    BY <1>12, AppliedIdStays
  <2>2. AppliedId(sh, c.id)'
    <3>1. log'[a + 1] = c
      BY <1>0, LogStays
    <3>2. a + 1 \in 1 .. Applied(sh[1])'
      BY <1>0
    <3>. QED
      BY <1>1, <3>1, <3>2 DEF AppliedId, ShimOf
  <2>3. \A msg \in Range(to_client'[sh]) : AppliedId(sh, msg.id)'
    BY <1>2, <1>5, <1>8, <2>1, <2>2
  <2>4. ASSUME NEW k \in DOMAIN issued'[sh]
        PROVE  \/ AppliedId(sh, k - 1)'
               \/ k - 1 \in PendingOfType(sh, command[issued[sh][k]].type)'
    <3>1. \/ AppliedId(sh, k - 1)
          \/ k - 1 \in PendingOfType(sh, command[issued[sh][k]].type)
      BY <1>0, <1>6 DEF AwaitsAnswers
    <3>2. command'[issued'[sh][k]] = command[issued[sh][k]]
      BY <1>6
    <3>. QED
      BY <1>6, <2>1, <3>1, <3>2 DEF PendingOfType
  <2>. QED
    BY <2>3, <2>4
<1>. QED
  BY <1>7, <1>11, <1>12 DEF AwaitsAnswers

LEMMA PendingUntilAnsweredStep ==
    ASSUME TypeOK, OnlyInvokedAreSent, ReplayFollowsLog, DatabaseFollowsLog,
           RequestsAreIssuedOnce, CommandsAreNamed, CommandsAreOnce,
           PendingUntilAnswered, [Next]_vars
    PROVE  PendingUntilAnswered'
<1>. SUFFICES ASSUME NEW sh \in Shims PROVE AwaitsAnswers(sh)'
  BY DEF PendingUntilAnswered, AwaitsAnswers
<1>0. /\ AwaitsAnswers(sh)
      /\ shim_up \in [Shims -> BOOLEAN]
      /\ to_client \in [Shims -> Seq(ServerMessages)]
      /\ issued \in [Shims -> Seq(Requests)]
      /\ DOMAIN pending_put = Shims /\ DOMAIN pending_get = Shims
  BY DEF PendingUntilAnswered, AwaitsAnswers, TypeOK, LinksTypeOK, ShimsTypeOK
<1>. SUFFICES ASSUME shim_up'[sh] PROVE AwaitsAnswers(sh)'
  BY DEF AwaitsAnswers
<1>1. CASE /\ shim_up[sh]
           /\ to_client'[sh] \in {to_client[sh], <<>>}
           /\ pending_put'[sh] = pending_put[sh]
           /\ pending_get'[sh] = pending_get[sh]
           /\ issued'[sh] = issued[sh]
  BY <1>0, <1>1, AwaitingStays
<1>2. CASE UNCHANGED <<shim_up, to_client, pending_put, pending_get, issued>>
  BY <1>1, <1>2
<1>3. ASSUME NEW t \in Shims, ShimStep(t) PROVE AwaitsAnswers(sh)'
  <2>1. CASE t = sh
    BY <1>0, <1>3, <2>1, IssuingAwaits, TakingAwaits DEF ShimStep
  <2>2. CASE t # sh
    BY <1>0, <1>1, <1>3, <2>2
       DEF ShimStep, TakePut, TakeGet, IssueCommand, TakeWrite, TakeRead
  <2>. QED
    BY <2>1, <2>2
<1>4. ASSUME NEW t \in Shims, KillShim(t) PROVE AwaitsAnswers(sh)'
  <2>1. t # sh
    BY <1>0, <1>4 DEF KillShim, CrashShim
  <2>. QED
    BY <1>0, <1>1, <1>4, <2>1 DEF KillShim, CrashShim
<1>5. ASSUME NEW t \in Shims, BreakConnection(t) PROVE AwaitsAnswers(sh)'
  BY <1>0, <1>1, <1>5 DEF BreakConnection, ResetConnection, shimVars
<1>6. ASSUME NEW n \in Servers, UpdateDatabaseAndRespond(n), UNCHANGED shimVars,
             UNCHANGED callerVars
      PROVE  AwaitsAnswers(sh)'
  <2>1. UNCHANGED shim_up
    BY <1>6 DEF UpdateDatabaseAndRespond
  <2>2. CASE to_client'[sh] = to_client[sh]
    BY <1>1, <1>6, <2>1, <2>2 DEF shimVars
  <2>3. CASE to_client'[sh] # to_client[sh]
    <3>1. /\ Answers(n, Head(commands[n]))
          /\ sh = <<n, Head(commands[n]).client_id>>
          /\ to_client'[sh] = Append(to_client[sh],
                                 Response(database[n], Head(commands[n])))
      BY <1>0, <1>6, <2>3 DEF UpdateDatabaseAndRespond, SendToClient
    <3>. QED
      BY <1>0, <1>6, <2>1, <3>1, AnsweringAwaits
  <2>. QED
    BY <2>2, <2>3
<1>7. CASE \E n \in Servers : ServerStep(n) \/ KillServer(n)
  BY <1>2, <1>6, <1>7 DEF ServerStep, HandleClientMessage, TakeMessage, AppendToLog,
                          HandleDecidedEntries, News, AdvanceTo,
                          KillServer, CrashServer, linkVars, shimVars
<1>8. CASE \/ \E r \in Requests : CallerStep(r) \/ HandlerStep(r) \/ HandlerGone(r)
           \/ LibraryStep \/ TestOver \/ UNCHANGED vars
  BY <1>2, <1>8 DEF CallerStep, HandlerStep, HandlerGone, SendCommand, DropHandler,
                    LibraryStep, Decide, LoseProposal, TestOver, vars, linkVars,
                    shimVars
<1>. QED
  BY <1>3, <1>4, <1>5, <1>7, <1>8 DEF Next

LEMMA AwaitedImplyPending ==
    ASSUME TypeOK, RequestsAreIssuedOnce, CommandsAreNamed, RepliesComeFromLog,
           PendingAreIssued, PendingUntilAnswered
    PROVE  ResponsesMatchPending
<1>. SUFFICES ASSUME NEW sh \in Shims, shim_up[sh]
              PROVE  /\ \A i \in DOMAIN to_client[sh] :
                           LET msg == to_client[sh][i]
                           IN /\ msg.id \in DOMAIN PendingFor(sh, msg)
                              /\ InLog(PendingFor(sh, msg)[msg.id])
                     /\ \A i, j \in DOMAIN to_client[sh] :
                           to_client[sh][i].id = to_client[sh][j].id => i = j
  BY DEF ResponsesMatchPending
<1>1. ASSUME NEW msg \in Range(to_client[sh])
      PROVE  /\ msg.id \in DOMAIN PendingFor(sh, msg)
             /\ InLog(PendingFor(sh, msg)[msg.id])
  <2>1. msg.id \in DOMAIN PendingFor(sh, msg)
    BY DEF PendingUntilAnswered
  <2>. PICK i \in DOMAIN log : ShimOf(log[i]) = sh /\ msg = Response(replay[i], log[i])
    BY DEF RepliesComeFromLog
  <2>. PICK c \in Commands : c = log[i]
    BY LogIsNamed
  <2>2. IsNamed(c) /\ msg.id = c.id
    BY LogIsNamed, ResponseOfCommand
  <2>3. PendingFor(sh, msg)[msg.id] = RequestOf(c)
    BY <2>1, <2>2 DEF PendingAreIssued, PendingFor, RequestOf
  <2>4. Carries(c, RequestOf(c))
    BY <2>2, EffectsAreNamed
  <2>. QED
    BY <2>1, <2>3, <2>4 DEF InLog
<1>2. \A i \in DOMAIN to_client[sh] : to_client[sh][i] \in Range(to_client[sh])
  BY DEF Range
<1>. QED
  BY <1>1, <1>2 DEF PendingUntilAnswered

(***************************************************************************)
(* The invariant                                                           *)
(***************************************************************************)

LEMMA InitIndInv == Init => IndInv
<1>. SUFFICES ASSUME Init PROVE IndInv
  OBVIOUS
<1>1. ReplicationInv
  BY InitReplicationInv
<1>2. /\ \A sh \in Shims : /\ cmd_rx[sh] = <<>> /\ issued[sh] = <<>>
                           /\ next_request_id[sh] = 0
                           /\ pending_put[sh] = <<>> /\ pending_get[sh] = <<>>
                           /\ to_server[sh] = <<>> /\ to_client[sh] = <<>>
      /\ in_flight = {} /\ log = <<>> /\ proposals = {}
      /\ \A r \in Requests : outcome[r] = "none" /\ reply[r] = NoReply
  BY DEF Init, CallersInit, ShimsInit, LinksInit, ServersInit
<1>3. Len(<<>>) = 0 /\ DOMAIN <<>> = {}
  OBVIOUS
<1>4. RequestsAreIssuedOnce
  BY <1>2, <1>3, RangeOfEmpty DEF RequestsAreIssuedOnce
<1>5. CommandsAreNamed /\ CommandsAreOnce
  BY <1>2, RangeOfEmpty DEF CommandsAreNamed, CommandsAreOnce
<1>6. RepliesComeFromLog /\ AnswersComeFromLog
  BY <1>2, RangeOfEmpty DEF RepliesComeFromLog, AnswersComeFromLog
<1>7. PendingAreIssued /\ PendingUntilAnswered
  BY <1>2, <1>3, RangeOfEmpty DEF PendingAreIssued, PendingUntilAnswered
<1>. QED
  BY <1>1, <1>4, <1>5, <1>6, <1>7 DEF IndInv

LEMMA NextIndInv == IndInv /\ [Next]_vars => IndInv'
<1>. SUFFICES ASSUME IndInv, [Next]_vars PROVE IndInv'
  OBVIOUS
<1>. USE DEF IndInv
<1>1. TypeOK /\ OnlyInvokedAreSent /\ ReplayFollowsLog /\ DatabaseFollowsLog
  BY DEF ReplicationInv
<1>2. ReplicationInv'
  BY NextReplicationInv
<1>3. RequestsAreIssuedOnce'
  BY <1>1, RequestsAreIssuedOnceStep
<1>4. CommandsAreNamed'
  BY <1>1, CommandsAreNamedStep
<1>5. CommandsAreOnce'
  BY <1>1, CommandsAreOnceStep
<1>6. RepliesComeFromLog'
  BY <1>1, RepliesComeFromLogStep
<1>7. AnswersComeFromLog'
  BY <1>1, AnswersComeFromLogStep
<1>8. PendingAreIssued'
  BY <1>1, PendingAreIssuedStep
<1>9. PendingUntilAnswered'
  BY <1>1, PendingUntilAnsweredStep
<1>. QED
  BY <1>2, <1>3, <1>4, <1>5, <1>6, <1>7, <1>8, <1>9

\* IndInv is an invariant of the system, with all its crashes, time-outs and
\* losses: a CommandId, a client id and a server together name one request, on
\* the way to the log and back (api_shim.rs:92-124, server.rs:123-147, 193-203).
THEOREM FullInvariance == Spec => []IndInv
BY InitIndInv, NextIndInv, PTL DEF Spec

\* A request takes effect at most once, wherever its command is
\* (api_shim.rs:92-107, server.rs:193-203).
THEOREM EffectSafety == Spec => []AtMostOneEffect
<1>1. IndInv => AtMostOneEffect
  BY NamesImplyOneEffect DEF IndInv, ReplicationInv
<1>. QED
  BY <1>1, FullInvariance, PTL

\* Whoever was told :ok was told the result of a decided command of the request
\* (server.rs:135-147, api_shim.rs:112-124, client.clj:35-59).
THEOREM AnswerSafety == Spec => []AnswersComeFromLog
<1>1. IndInv => AnswersComeFromLog
  BY DEF IndInv
<1>. QED
  BY <1>1, FullInvariance, PTL

\* A response finds exactly the handler that waits for it
\* (api_shim.rs:112-124).
THEOREM ResponseSafety == Spec => []ResponsesMatchPending
<1>1. IndInv => ResponsesMatchPending
  BY AwaitedImplyPending DEF IndInv, ReplicationInv
<1>. QED
  BY <1>1, FullInvariance, PTL

(***************************************************************************)
(* Linearizability: every step is a step of LinearizableKV, or none        *)
(***************************************************************************)

\* The result of a request is that of any of its effects.
ResultsAreOfEffects ==
    \A r : \A i \in Effects(r) : LinResult(r) = ResultAt(r, i)

LEMMA ResultsAreUnique == IndInv => ResultsAreOfEffects
<1>. SUFFICES ASSUME IndInv, NEW r, NEW i \in Effects(r)
              PROVE  LinResult(r) = ResultAt(r, i)
  BY DEF ResultsAreOfEffects
<1>1. EffectOf(r) \in Effects(r)
  BY DEF EffectOf
<1>2. EffectOf(r) = i
  BY <1>1, OneEffect DEF IndInv, ReplicationInv
<1>3. InLog(r)
  BY DEF InLog, Effects
<1>. QED
  BY <1>2, <1>3 DEF LinResult

LEMMA ResultsStayUnique == IndInv' => ResultsAreOfEffects'
BY ResultsAreUnique, PTL

\* A request has effects only at the places that a step adds to the log.
LEMMA EffectsGrow ==
    ASSUME IndInv, [Next]_vars, NEW r, NEW i \in DOMAIN log
    PROVE  i \in Effects(r)' <=> i \in Effects(r)
<1>1. TypeOK /\ OnlyInvokedAreSent /\ ReplayFollowsLog
      /\ RequestsAreIssuedOnce /\ CommandsAreNamed
  BY DEF IndInv, ReplicationInv
<1>2. i \in Effects(r) => i \in Effects(r)'
  BY <1>1, EffectStays
<1>3. ASSUME i \in Effects(r)' PROVE i \in Effects(r)
  <2>. PICK q : q = RequestOf(log[i])
    OBVIOUS
  <2>1. i \in Effects(q)
    BY <1>1, EffectsArePlaces
  <2>2. i \in Effects(q)'
    BY <1>1, <2>1, EffectStays
  <2>3. q = r
    BY <1>3, <2>2 DEF Effects, Carries
  <2>. QED
    BY <2>1, <2>3
<1>. QED
  BY <1>2, <1>3

LEMMA SameEffectsSameResult ==
    ASSUME IndInv, [Next]_vars, NEW r, Effects(r)' = Effects(r)
    PROVE  /\ InLog(r)' <=> InLog(r)
           /\ LinResult(r)' = LinResult(r)
<1>1. (InLog(r) <=> Effects(r) # {}) /\ (InLog(r)' <=> Effects(r)' # {})
  BY DEF InLog, Effects
<1>2. CASE Effects(r) = {}
  BY <1>1, <1>2 DEF LinResult
<1>3. ASSUME NEW i \in Effects(r) PROVE LinResult(r)' = LinResult(r)
  <2>1. LinResult(r) = ResultAt(r, i)
    BY ResultsAreUnique DEF ResultsAreOfEffects
  <2>2. LinResult(r)' = ResultAt(r, i)'
    BY <1>3, NextIndInv, ResultsStayUnique DEF ResultsAreOfEffects
  <2>3. ResultAt(r, i)' = ResultAt(r, i)
    BY <1>3, EffectStays DEF IndInv, ReplicationInv
  <2>. QED
    BY <2>1, <2>2, <2>3
<1>. QED
  BY <1>1, <1>2, <1>3

LEMMA LinStays ==
    ASSUME IndInv, [Next]_vars, UNCHANGED log, NEW r
    PROVE  /\ Effects(r)' = Effects(r)
           /\ InLog(r)' <=> InLog(r)
           /\ LinResult(r)' = LinResult(r)
<1>1. Effects(r) \subseteq DOMAIN log /\ Effects(r)' \subseteq DOMAIN log
  BY DEF Effects
<1>2. Effects(r)' = Effects(r)
  BY <1>1, EffectsGrow
<1>. QED
  BY <1>2, SameEffectsSameResult

\* How the variables of LinearizableKV move in each of its actions.
LEMMA CallMoves ==
    ASSUME NEW r \in Requests, NEW cmd \in KVCommands, LinPhase(r) = "idle",
           \A q \in Requests :
              /\ LinPhase(q)' = IF q = r THEN "invoked" ELSE LinPhase(q)
              /\ LinCommand(q)' = IF q = r THEN cmd ELSE LinCommand(q)
              /\ LinResult(q)' = LinResult(q),
           UNCHANGED <<replay, answer>>
    PROVE  Lin!Call(r)
<1>1. cmd \in Lin!KVCommands
  BY DEF Lin!KVCommands, Lin!PutCommands, Lin!DeleteCommands, Lin!GetCommands,
         KVCommands, PutCommands, DeleteCommands, GetCommands
<1>. QED
  BY <1>1 DEF Lin!Call

LEMMA TakeEffectMoves ==
    ASSUME NEW r \in Requests, LinPhase(r) = "invoked",
           NEW db, db = replay[Len(replay)],
           replay'[Len(replay')] = HandleCommand(db, LinCommand(r)),
           \A q \in Requests :
              /\ LinPhase(q)' = IF q = r THEN "applied" ELSE LinPhase(q)
              /\ LinCommand(q)' = LinCommand(q)
              /\ LinResult(q)' = IF q = r THEN ReadResult(db, LinCommand(r))
                                 ELSE LinResult(q),
           UNCHANGED answer
    PROVE  Lin!TakeEffect(r)
BY DEF Lin!TakeEffect, Lin!HandleCommand, Lin!ReadResult, HandleCommand, ReadResult

LEMMA ReturnMoves ==
    ASSUME TypeOK, NEW r \in Requests, LinPhase(r) = "applied",
           \A q \in Requests :
              /\ LinPhase(q)' = IF q = r THEN "answered" ELSE LinPhase(q)
              /\ LinCommand(q)' = LinCommand(q)
              /\ LinResult(q)' = LinResult(q),
           answer' = [answer EXCEPT ![r] = LinResult(r)],
           UNCHANGED replay
    PROVE  Lin!Return(r)
BY DEF Lin!Return, TypeOK, CallersTypeOK

LEMMA NothingMoves ==
    ASSUME \A q \in Requests : /\ LinPhase(q)' = LinPhase(q)
                               /\ LinCommand(q)' = LinCommand(q)
                               /\ LinResult(q)' = LinResult(q),
           UNCHANGED <<replay, answer>>
    PROVE  UNCHANGED Lin!linVars
BY DEF Lin!linVars

\* While the log stays, the phase of a request follows its outcome.
LEMMA PhaseFollowsOutcome ==
    ASSUME IndInv, [Next]_vars, UNCHANGED log, NEW q \in Requests,
           outcome'[q] = outcome[q] \/ (outcome[q] = "invoke" /\ outcome'[q] = "info")
    PROVE  LinPhase(q)' = LinPhase(q) /\ LinCommand(q)' = LinCommand(q)
<1>1. InLog(q)' <=> InLog(q)
  BY LinStays
<1>2. LinPhase(q)' = LinPhase(q)
  BY <1>1 DEF LinPhase
<1>3. LinPhase(q) # "idle" => command'[q] = command[q]
  <2>1. LinPhase(q) # "idle" => outcome[q] # "none"
    BY DEF LinPhase
  <2>. QED
    BY <2>1, CommandStays DEF IndInv, ReplicationInv
<1>. QED
  BY <1>2, <1>3 DEF LinCommand

LEMMA InvokeIsCall ==
    ASSUME IndInv, [Next]_vars, NEW r \in Requests, NEW cmd \in HttpCommands,
           Invoke(r, cmd), UNCHANGED <<log, replay>>
    PROVE  Lin!Call(r)
<1>1. ~InLog(r)
  <2>1. ASSUME NEW i \in Effects(r) PROVE FALSE
    BY EffectStays DEF Invoke, IndInv, ReplicationInv
  <2>. QED
    BY <2>1 DEF InLog, Effects
<1>2. /\ outcome[r] = "none" /\ outcome'[r] = "invoke" /\ command'[r] = cmd
      /\ \A q \in Requests : q # r => outcome'[q] = outcome[q]
      /\ UNCHANGED answer
  BY DEF Invoke, IndInv, ReplicationInv, TypeOK, CallersTypeOK
<1>3. ~InLog(r)' /\ \A q \in Requests : LinResult(q)' = LinResult(q)
  BY <1>1, LinStays
<1>4. \A q \in Requests : q # r => /\ LinPhase(q)' = LinPhase(q)
                                   /\ LinCommand(q)' = LinCommand(q)
  BY <1>2, PhaseFollowsOutcome
<1>5. LinPhase(r) = "idle" /\ LinPhase(r)' = "invoked"
  BY <1>2, <1>3 DEF LinPhase
<1>6. LinCommand(r)' = cmd
  BY <1>2, <1>5 DEF LinCommand
<1>7. cmd \in KVCommands
  BY DEF HttpCommands, KVCommands
<1>. QED
  BY <1>2, <1>3, <1>4, <1>5, <1>6, <1>7, CallMoves

LEMMA CompletedIsReturn ==
    ASSUME IndInv, [Next]_vars, NEW r \in Requests, Completed(r),
           UNCHANGED <<log, replay>>
    PROVE  Lin!Return(r)
<1>1. /\ outcome[r] = "invoke" /\ outcome'[r] = "ok" /\ reply[r] # NoReply
      /\ answer' = [answer EXCEPT ![r] = reply[r]]
      /\ \A q \in Requests : q # r => outcome'[q] = outcome[q]
      /\ UNCHANGED command /\ TypeOK
  BY DEF Completed, IndInv, ReplicationInv, TypeOK, CallersTypeOK
<1>. PICK i \in Effects(r) : reply[r] = ResultAt(r, i)
  BY <1>1 DEF IndInv, RepliesComeFromLog
<1>2. LinResult(r) = reply[r] /\ InLog(r)
  BY ResultsAreUnique DEF ResultsAreOfEffects, InLog, Effects
<1>3. \A q \in Requests : LinResult(q)' = LinResult(q)
  BY LinStays
<1>4. \A q \in Requests : q # r => /\ LinPhase(q)' = LinPhase(q)
                                   /\ LinCommand(q)' = LinCommand(q)
  BY <1>1, PhaseFollowsOutcome
<1>5. LinPhase(r) = "applied" /\ LinPhase(r)' = "answered"
  BY <1>1, <1>2 DEF LinPhase
<1>6. LinCommand(r)' = LinCommand(r)
  BY <1>1, <1>5 DEF LinCommand
<1>. QED
  BY <1>1, <1>2, <1>3, <1>4, <1>5, <1>6, ReturnMoves

\* The request whose command is decided has no effect yet, and was not answered.
LEMMA DecideIsTakeEffect ==
    ASSUME IndInv, [Next]_vars, NEW c \in proposals, Decide(c),
           UNCHANGED <<callerVars, shimVars>>
    PROVE  \E r \in Requests : Lin!TakeEffect(r)
<1>0. /\ TypeOK /\ OnlyInvokedAreSent /\ RequestsAreIssuedOnce
      /\ CommandsAreNamed /\ CommandsAreOnce /\ ReplayFollowsLog
  BY DEF IndInv, ReplicationInv
<1>1. IsNamed(c) /\ c \in Commands /\ c \notin Range(log)
  BY <1>0 DEF CommandsAreNamed, CommandsAreOnce, TypeOK, ServersTypeOK
<1>. PICK r : r = RequestOf(c)
  OBVIOUS
<1>2. r \in Range(issued[ShimOf(c)]) /\ ShimOf(c) \in Shims /\ command[r] = c.kv_cmd
  BY <1>0, <1>1, EffectsAreNamed, ShimOfType DEF IsNamed
<1>3. r \in Requests /\ outcome[r] \in {"invoke", "ok", "info"}
  BY <1>0, <1>2, IssuedIsInvoked
<1>4. Effects(r) = {}
  <2>. SUFFICES ASSUME NEW i \in Effects(r) PROVE FALSE
    OBVIOUS
  <2>1. i \in DOMAIN log /\ RequestOf(log[i]) = r
    BY <1>0, EffectsArePlaces
  <2>2. log[i] = c
    BY <1>0, <1>1, <2>1, LogIsNamed, RequestsNameCommands
  <2>. QED
    BY <1>0, <1>1, <2>1, <2>2, LogIsNamed
<1>5. ~InLog(r) /\ outcome[r] # "ok"
  BY <1>3, <1>4 DEF IndInv, AnswersComeFromLog, InLog, Effects
<1>6. LinPhase(r) = "invoked" /\ LinCommand(r) = c.kv_cmd
  BY <1>2, <1>3, <1>5 DEF LinPhase, LinCommand
<1>. PICK k : k = Len(log) + 1
  OBVIOUS
<1>7. /\ log \in Seq(Commands) /\ replay \in Seq(Databases) /\ Len(replay) = k
      /\ k \in Nat /\ k \notin DOMAIN log
  BY <1>0 DEF TypeOK, ServersTypeOK, ReplayFollowsLog
<1>. PICK db : db = replay[Len(replay)]
  OBVIOUS
<1>8. db \in Databases /\ HandleCommand(db, c.kv_cmd) \in Databases
  BY <1>1, <1>7, ShimOfType, HandleCommandType
<1>9. /\ log' = Append(log, c)
      /\ replay' = Append(replay, HandleCommand(db, c.kv_cmd))
      /\ UNCHANGED <<command, outcome, answer, target, issued>>
  BY DEF Decide, callerVars, shimVars
<1>10. /\ DOMAIN log' = DOMAIN log \cup {k} /\ log'[k] = c
       /\ replay'[Len(replay')] = HandleCommand(db, c.kv_cmd)
       /\ replay'[k] = db
  BY <1>1, <1>7, <1>8, <1>9, AppendProperties
<1>11. ASSUME NEW q PROVE k \in Effects(q)' <=> q = r
  <2>1. Carries(c, q)' <=> Carries(c, q)
    BY <1>9 DEF Carries
  <2>2. Carries(c, q) <=> q = r
    BY <1>0, <1>1, EffectsAreNamed
  <2>3. k \in Effects(q)' <=> Carries(c, q)'
    BY <1>10 DEF Effects, Carries
  <2>. QED
    BY <2>1, <2>2, <2>3
<1>12. ASSUME NEW q \in Requests, q # r
       PROVE  /\ Effects(q)' = Effects(q)
              /\ InLog(q)' <=> InLog(q)
              /\ LinResult(q)' = LinResult(q)
  <2>1. Effects(q)' = Effects(q)
    <3>1. Effects(q) \subseteq DOMAIN log /\ Effects(q)' \subseteq DOMAIN log'
      BY DEF Effects
    <3>. QED
      BY <1>10, <1>11, <1>12, <3>1, EffectsGrow
  <2>. QED
    BY <2>1, SameEffectsSameResult
<1>13. /\ InLog(r)'
       /\ LinResult(r)' = ReadResult(db, LinCommand(r))
  <2>1. k \in Effects(r)'
    BY <1>11
  <2>2. LinResult(r)' = ResultAt(r, k)'
    BY <2>1, NextIndInv, ResultsStayUnique DEF ResultsAreOfEffects
  <2>3. ResultAt(r, k)' = ReadResult(db, command[r])
    BY <1>9, <1>10 DEF ResultAt
  <2>. QED
    BY <1>2, <1>6, <2>1, <2>2, <2>3 DEF InLog, Effects
<1>14. ASSUME NEW q \in Requests, q # r
       PROVE  LinPhase(q)' = LinPhase(q) /\ LinCommand(q)' = LinCommand(q)
  <2>1. LinPhase(q)' = LinPhase(q)
    BY <1>9, <1>12, <1>14 DEF LinPhase
  <2>. QED
    BY <1>9, <2>1 DEF LinCommand
<1>15. LinPhase(r)' = "applied"
  BY <1>3, <1>5, <1>9, <1>13 DEF LinPhase
<1>16. LinCommand(r)' = LinCommand(r)
  BY <1>6, <1>9, <1>15 DEF LinCommand
<1>. QED
  BY <1>2, <1>3, <1>6, <1>9, <1>10, <1>12, <1>13, <1>14, <1>15, <1>16, TakeEffectMoves

\* Every other step leaves the abstract variables alone, and so does a refused
\* request: what it asked for is hidden while it is idle.
LEMMA RefusedIsHidden ==
    ASSUME IndInv, [Next]_vars, NEW r \in Requests, NEW cmd \in HttpCommands,
           Refused(r, cmd), UNCHANGED <<log, replay>>
    PROVE  UNCHANGED Lin!linVars
<1>1. /\ outcome[r] = "none" /\ outcome'[r] = "fail"
      /\ \A q \in Requests : q # r => outcome'[q] = outcome[q]
      /\ UNCHANGED answer
  BY DEF Refused, IndInv, ReplicationInv, TypeOK, CallersTypeOK
<1>2. \A q \in Requests : LinResult(q)' = LinResult(q)
  BY LinStays
<1>3. \A q \in Requests : q # r => /\ LinPhase(q)' = LinPhase(q)
                                   /\ LinCommand(q)' = LinCommand(q)
  BY <1>1, PhaseFollowsOutcome
<1>4. /\ LinPhase(r) = "idle" /\ LinPhase(r)' = "idle"
      /\ LinCommand(r) = NoCommand /\ LinCommand(r)' = NoCommand
  BY <1>1 DEF LinPhase, LinCommand
<1>. QED
  BY <1>1, <1>2, <1>3, <1>4, NothingMoves

LEMMA OtherStepsAreHidden ==
    ASSUME IndInv, [Next]_vars, UNCHANGED <<log, replay, answer>>,
           \A q \in Requests : \/ outcome'[q] = outcome[q]
                               \/ outcome[q] = "invoke" /\ outcome'[q] = "info"
    PROVE  UNCHANGED Lin!linVars
BY LinStays, PhaseFollowsOutcome, NothingMoves

LEMMA InitIsLinInit == Init => Lin!LinInit
<1>. SUFFICES ASSUME Init PROVE Lin!LinInit
  OBVIOUS
<1>1. /\ log = <<>> /\ replay = <<EmptyDatabase>>
      /\ answer = [r \in Requests |-> NoValue]
      /\ \A r \in Requests : outcome[r] = "none"
  BY DEF Init, CallersInit, ServersInit
<1>2. replay[Len(replay)] = Lin!EmptyDatabase
  BY <1>1 DEF Lin!EmptyDatabase, EmptyDatabase
<1>3. \A r \in Requests : /\ LinPhase(r) = "idle" /\ LinCommand(r) = NoCommand
                          /\ LinResult(r) = NoValue
  BY <1>1 DEF LinPhase, LinCommand, LinResult, InLog
<1>. QED
  BY <1>1, <1>2, <1>3 DEF Lin!LinInit

LEMMA StepIsLinStep == IndInv /\ [Next]_vars => [Lin!LinNext]_(Lin!linVars)
<1>. SUFFICES ASSUME IndInv, [Next]_vars
              PROVE  Lin!LinNext \/ UNCHANGED Lin!linVars
  OBVIOUS
<1>1. CASE UNCHANGED <<log, replay, outcome, answer>>
  BY <1>1, OtherStepsAreHidden
<1>2. ASSUME NEW r \in Requests, CallerStep(r)
      PROVE  Lin!LinNext \/ UNCHANGED Lin!linVars
  <2>0. UNCHANGED <<log, replay>>
    BY <1>2 DEF CallerStep, libraryVars
  <2>1. ASSUME NEW cmd \in HttpCommands, Invoke(r, cmd)
        PROVE  Lin!LinNext
    BY <2>0, <2>1, InvokeIsCall DEF Lin!LinNext
  <2>2. ASSUME NEW cmd \in HttpCommands, Refused(r, cmd)
        PROVE  UNCHANGED Lin!linVars
    BY <2>0, <2>2, RefusedIsHidden
  <2>3. CASE Completed(r)
    BY <2>0, <2>3, CompletedIsReturn DEF Lin!LinNext
  <2>4. CASE Indeterminate(r)
    <3>1. /\ UNCHANGED answer
          /\ \A q \in Requests : \/ outcome'[q] = outcome[q]
                                 \/ outcome[q] = "invoke" /\ outcome'[q] = "info"
      BY <2>4 DEF Indeterminate, IndInv, ReplicationInv, TypeOK, CallersTypeOK
    <3>. QED
      BY <2>0, <3>1, OtherStepsAreHidden
  <2>. QED
    BY <1>2, <2>1, <2>2, <2>3, <2>4 DEF CallerStep
<1>3. CASE LibraryStep
  <2>1. ASSUME NEW c \in proposals, Decide(c)
        PROVE  Lin!LinNext
    <3>1. UNCHANGED <<callerVars, shimVars>>
      BY <1>3 DEF LibraryStep
    <3>. QED
      BY <2>1, <3>1, DecideIsTakeEffect DEF Lin!LinNext
  <2>2. ASSUME NEW c \in proposals, LoseProposal(c)
        PROVE  UNCHANGED Lin!linVars
    BY <1>1, <1>3, <2>2, OtherStepsAreHidden DEF LibraryStep, LoseProposal, callerVars
  <2>. QED
    BY <1>3, <2>1, <2>2 DEF LibraryStep
<1>4. CASE \/ \E r \in Requests : HandlerStep(r) \/ HandlerGone(r)
           \/ \E sh \in Shims : ShimStep(sh) \/ KillShim(sh) \/ BreakConnection(sh)
           \/ \E n \in Servers : ServerStep(n) \/ KillServer(n)
           \/ TestOver \/ UNCHANGED vars
  BY <1>1, <1>4
     DEF HandlerStep, HandlerGone, SendCommand, DropHandler, ShimStep, TakePut,
         TakeGet, IssueCommand, TakeWrite, TakeRead, KillShim, CrashShim,
         BreakConnection, ServerStep, HandleClientMessage, TakeMessage,
         AppendToLog, HandleDecidedEntries, News, AdvanceTo,
         UpdateDatabaseAndRespond, KillServer, CrashServer, TestOver, vars,
         callerVars, shimVars, libraryVars
<1>. QED
  BY <1>2, <1>3, <1>4 DEF Next

\* The system implements the atomic key-value store, whatever crashes, times
\* out or is lost, for any numbers of servers, shims, requests, keys and values:
\* what core.clj asks Jepsen's checker for on one history at a time
\* (core.clj:35-37).
THEOREM Linearizability == Spec => Linearizable
BY InitIsLinInit, StepIsLinStep, FullInvariance, PTL
   DEF Spec, Linearizable, Lin!LinSpec
=============================================================================
