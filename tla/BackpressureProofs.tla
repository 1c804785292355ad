------------------------- MODULE BackpressureProofs -------------------------
(***************************************************************************)
(* Theorems about Backpressure, for any number of commands and any         *)
(* capacity of the channels, the batches and the sockets.                  *)
(***************************************************************************)
EXTENDS Backpressure, QueueLemmas, FiniteSetTheorems

USE MaxCommandsAssumption, CapacityAssumption

(***************************************************************************)
(* The inductive invariant                                                 *)
(***************************************************************************)

\* While the connection holds, no task at its ends has ended and no slot is
\* empty; once it is broken, nothing is left to read.
EndsAreAlive ==
    /\ connected => /\ \A d \in Directions : writer_task[d]
                    /\ server_connection /\ client_connection
    /\ ~connected => \A d \in Directions : socket[d] = <<>>

IsInjectiveSeq(s) == \A i, j \in DOMAIN s : s[i] = s[j] => i = j

\* The commands that wait for an answer are those of the round, each once,
\* and a new one is not among them.
RoundIsPending ==
    /\ pending \subseteq 0 .. next_request_id - 1
    /\ connected => Members(Round) = pending /\ IsInjectiveSeq(Round)

IndInv == TypeOK /\ EndsAreAlive /\ RoundIsPending

(***************************************************************************)
(* Lemmas about sequences                                                  *)
(***************************************************************************)

\* A batch is the beginning of a channel, and not empty if that is not.
LEMMA BatchProperties ==
    ASSUME NEW S, NEW c,
           c \in Queue(S)
    PROVE  /\ Batch(c) \in Queue(S) /\ Rest(c) \in Queue(S)
           /\ Len(Batch(c)) \in Nat /\ Len(Batch(c)) <= BatchSize
           /\ Len(Batch(c)) \in Cuts(c)
           /\ c # <<>> => Len(Batch(c)) \in 1 .. Len(c)
           /\ Batch(c) = Take(c, Len(Batch(c)))
           /\ Rest(c) = Drop(c, Len(Batch(c)))
           /\ Len(Rest(c)) \in Nat /\ Len(Rest(c)) <= Len(c)
<1>. USE DEF Queue, Take, Drop, Cuts
<1> DEFINE k == IF Len(c) < BatchSize THEN Len(c) ELSE BatchSize
<1>1. /\ Len(c) \in Nat /\ k \in 0 .. Len(c) /\ k <= BatchSize
      /\ c # <<>> => k >= 1
  OBVIOUS
<1>2. Batch(c) = SubSeq(c, 1, k)
  BY DEF Batch
<1>. HIDE DEF k
<1>3. Batch(c) \in Seq(S) /\ Len(Batch(c)) = k
  BY <1>1, <1>2, SubSeqProperties
<1>4. Rest(c) = SubSeq(c, k + 1, Len(c))
  BY <1>3 DEF Rest
<1>5. Rest(c) \in Seq(S) /\ Len(Rest(c)) <= Len(c)
  BY <1>1, <1>4, SubSeqProperties
<1>. QED
  BY <1>1, <1>2, <1>3, <1>4, <1>5

\* An injective sequence has as many places as members.
LEMMA InjectiveCount ==
    ASSUME NEW S, NEW s,
           s \in Queue(S), IsInjectiveSeq(s)
    PROVE  Len(s) = Cardinality(Members(s))
<1>. USE DEF Queue
<1>1. s \in Bijection(1 .. Len(s), Members(s))
  BY DEF Bijection, Injection, Surjection, IsInjective, Members, IsInjectiveSeq
<1>. QED
  BY <1>1, FS_CountingElements DEF ExistsBijection

LEMMA AppendMembers ==
    ASSUME NEW S, NEW s, NEW x,
           s \in Queue(S), x \in S, x \notin Members(s), IsInjectiveSeq(s)
    PROVE  /\ Members(Append(s, x)) = Members(s) \cup {x}
           /\ IsInjectiveSeq(Append(s, x))
BY AppendProperties DEF Queue, Members, IsInjectiveSeq

LEMMA TailMembers ==
    ASSUME NEW S, NEW s,
           s \in Queue(S), s # <<>>, IsInjectiveSeq(s)
    PROVE  /\ Members(Tail(s)) = Members(s) \ {Head(s)}
           /\ IsInjectiveSeq(Tail(s))
<1>. USE DEF Queue
<1>1. /\ Tail(s) \in Seq(S) /\ Len(Tail(s)) = Len(s) - 1
      /\ Head(s) = s[1] /\ Len(s) \in Nat /\ 1 \in DOMAIN s
      /\ \A i \in 1 .. Len(s) - 1 : Tail(s)[i] = s[i + 1]
  BY HeadTailProperties
<1>2. IsInjectiveSeq(Tail(s))
  BY <1>1 DEF IsInjectiveSeq
<1>3. ASSUME NEW i \in DOMAIN s, i # 1 PROVE s[i] \in Members(Tail(s))
  <2>1. i - 1 \in DOMAIN Tail(s) /\ Tail(s)[i - 1] = s[i]
    BY <1>1, <1>3
  <2>. QED
    BY <2>1 DEF Members
<1>4. ASSUME NEW i \in DOMAIN Tail(s)
      PROVE  Tail(s)[i] \in Members(s) \ {Head(s)}
  <2>1. i + 1 \in DOMAIN s /\ i + 1 # 1 /\ Tail(s)[i] = s[i + 1]
    BY <1>1
  <2>. QED
    BY <1>1, <2>1 DEF Members, IsInjectiveSeq
<1>5. Members(Tail(s)) \subseteq Members(s) \ {Head(s)}
  BY <1>4 DEF Members
<1>6. Members(s) \ {Head(s)} \subseteq Members(Tail(s))
  BY <1>1, <1>3 DEF Members
<1>. QED
  BY <1>2, <1>5, <1>6

(***************************************************************************)
(* What the steps do to the messages under way in one direction            *)
(***************************************************************************)

LEMMA QueueTypes ==
    ASSUME TypeOK, NEW d \in Directions
    PROVE  /\ incoming[d] \in Queue(CommandIds)
           /\ socket[d] \in Queue(CommandIds)
           /\ buffer[d] \in Queue(CommandIds)
           /\ outgoing_messages[d] \in Queue(CommandIds)
BY DEF TypeOK, Queue

LEMMA UnderWayQueues ==
    ASSUME NEW d \in Directions
    PROVE  /\ UnderWay(d) = Connection(incoming[d], socket[d], buffer[d],
                                      outgoing_messages[d])
           /\ UnderWay(d)' = Connection(incoming'[d], socket'[d], buffer'[d],
                                       outgoing_messages'[d])
BY DEF UnderWay, Connection, Join

LEMMA UnderWayType ==
    ASSUME TypeOK, NEW d \in Directions
    PROVE  UnderWay(d) \in Queue(CommandIds)
<1> DEFINE i == incoming[d]
           s == socket[d]
           b == buffer[d]
           o == outgoing_messages[d]
<1>1. /\ i \in Queue(CommandIds) /\ s \in Queue(CommandIds)
      /\ b \in Queue(CommandIds) /\ o \in Queue(CommandIds)
  BY QueueTypes
<1>2. UnderWay(d) = Connection(i, s, b, o)
  BY UnderWayQueues
<1>. HIDE DEF i, s, b, o
<1>. QED
  BY <1>1, <1>2, ConnectionType

LEMMA UnderWayFrame ==
    ASSUME NEW d \in Directions,
           incoming'[d] = incoming[d], socket'[d] = socket[d],
           buffer'[d] = buffer[d], outgoing_messages'[d] = outgoing_messages[d]
    PROVE  UnderWay(d)' = UnderWay(d)
BY UnderWayQueues

\* Within the connection messages move on and stay in order.
LEMMA MovingOn ==
    ASSUME TypeOK, NEW e \in Directions, NEW d \in Directions,
           TakeBatch(e) \/ WriteMessage(e) \/ ReadMessage(e)
    PROVE  UnderWay(d)' = UnderWay(d)
<1>1. CASE d # e
  BY <1>1, UnderWayFrame DEF TakeBatch, HasBatch, WriteMessage, DrainMessage,
                             ReadMessage, TypeOK
<1>2. CASE d = e /\ TakeBatch(e)
  <2>1. /\ buffer[d] = <<>>
        /\ buffer'[d] = Batch(outgoing_messages[d])
        /\ outgoing_messages'[d] = Rest(outgoing_messages[d])
        /\ incoming'[d] = incoming[d] /\ socket'[d] = socket[d]
    BY <1>2 DEF TakeBatch, HasBatch, TypeOK
  <2> DEFINE o == outgoing_messages[d]
             k == Len(Batch(o))
  <2>2. k \in Cuts(o) /\ Batch(o) = Take(o, k) /\ Rest(o) = Drop(o, k)
    BY QueueTypes, BatchProperties
  <2>. HIDE DEF k
  <2>3. Connection(incoming[d], socket[d], Take(o, k), Drop(o, k))
           = Connection(incoming[d], socket[d], <<>>, o)
    BY <2>2, QueueTypes, ConnectionBatch
  <2>. QED
    BY <2>1, <2>2, <2>3, UnderWayQueues
<1>3. CASE d = e /\ WriteMessage(e)
  <2>1. /\ buffer[d] # <<>>
        /\ socket'[d] = Append(socket[d], Head(buffer[d]))
        /\ buffer'[d] = Tail(buffer[d])
        /\ incoming'[d] = incoming[d]
        /\ outgoing_messages'[d] = outgoing_messages[d]
    BY <1>3 DEF WriteMessage, DrainMessage, TypeOK
  <2>2. Connection(incoming[d], Append(socket[d], Head(buffer[d])), Tail(buffer[d]),
                   outgoing_messages[d])
           = Connection(incoming[d], socket[d], buffer[d], outgoing_messages[d])
    BY <2>1, QueueTypes, ConnectionWrite
  <2>. QED
    BY <2>1, <2>2, UnderWayQueues
<1>4. CASE d = e /\ ReadMessage(e)
  <2>1. /\ socket[d] # <<>>
        /\ incoming'[d] = Append(incoming[d], Head(socket[d]))
        /\ socket'[d] = Tail(socket[d])
        /\ buffer'[d] = buffer[d]
        /\ outgoing_messages'[d] = outgoing_messages[d]
    BY <1>4 DEF ReadMessage, TypeOK
  <2>2. Connection(Append(incoming[d], Head(socket[d])), Tail(socket[d]), buffer[d],
                   outgoing_messages[d])
           = Connection(incoming[d], socket[d], buffer[d], outgoing_messages[d])
    BY <2>1, QueueTypes, ConnectionRead
  <2>. QED
    BY <2>1, <2>2, UnderWayQueues
<1>. QED
  BY <1>1, <1>2, <1>3, <1>4

\* A message that is sent is the last one under way.
LEMMA Entering ==
    ASSUME TypeOK, NEW d \in Directions, NEW id \in CommandIds,
           EnterChannel(d, id), UNCHANGED <<buffer, socket, incoming>>
    PROVE  /\ UnderWay(d)' = Append(UnderWay(d), id)
           /\ \A e \in Directions : e # d => UnderWay(e)' = UnderWay(e)
<1> DEFINE i == incoming[d]
           s == socket[d]
           b == buffer[d]
           o == outgoing_messages[d]
<1>1. /\ i \in Queue(CommandIds) /\ s \in Queue(CommandIds)
      /\ b \in Queue(CommandIds) /\ o \in Queue(CommandIds)
  BY QueueTypes
<1>2. /\ outgoing_messages'[d] = Append(o, id)
      /\ \A e \in Directions :
            e # d => outgoing_messages'[e] = outgoing_messages[e]
  BY DEF EnterChannel, TypeOK
<1>3. /\ UnderWay(d) = Connection(i, s, b, o)
      /\ UnderWay(d)' = Connection(i, s, b, Append(o, id))
  BY <1>2, UnderWayQueues
<1>4. \A e \in Directions : e # d => UnderWay(e)' = UnderWay(e)
  BY <1>2, UnderWayFrame
<1>. HIDE DEF i, s, b, o
<1>5. Connection(i, s, b, Append(o, id)) = Append(Connection(i, s, b, o), id)
  BY <1>1, ConnectionSend
<1>. QED
  BY <1>3, <1>4, <1>5

\* What is taken of the incoming messages is the first that is under way.
LEMMA Taking ==
    ASSUME TypeOK, NEW d, NEW k,
           d \in Directions, k \in Cuts(incoming[d]),
           incoming'[d] = Drop(incoming[d], k),
           UNCHANGED <<outgoing_messages, buffer, socket>>
    PROVE  /\ UnderWay(d)' = Drop(UnderWay(d), k)
           /\ Join(Take(incoming[d], k), UnderWay(d)') = UnderWay(d)
<1> DEFINE i == incoming[d]
           s == socket[d]
           b == buffer[d]
           o == outgoing_messages[d]
<1>1. /\ i \in Queue(CommandIds) /\ s \in Queue(CommandIds)
      /\ b \in Queue(CommandIds) /\ o \in Queue(CommandIds) /\ k \in Cuts(i)
  BY QueueTypes
<1>2. /\ UnderWay(d) = Connection(i, s, b, o)
      /\ UnderWay(d)' = Connection(Drop(i, k), s, b, o)
  BY UnderWayQueues
<1>. HIDE DEF i, s, b, o
<1>3. Connection(Drop(i, k), s, b, o) = Drop(Connection(i, s, b, o), k)
  BY <1>1, ConnectionTake
<1>4. Join(Take(i, k), Connection(Drop(i, k), s, b, o)) = Connection(i, s, b, o)
  BY <1>1, ConnectionTaken
<1>. QED
  BY <1>2, <1>3, <1>4 DEF i

(***************************************************************************)
(* What the steps do to the round                                          *)
(***************************************************************************)

LEMMA RoundQueues ==
    /\ Round = Line(UnderWay("to_client"), commands, cluster_messages, proposals,
                    UnderWay("to_server"), sending)
    /\ Round' = Line(UnderWay("to_client")', commands', cluster_messages',
                     proposals', UnderWay("to_server")', sending')
BY DEF Round, Line, Join

LEMMA RoundTypes ==
    ASSUME TypeOK
    PROVE  /\ UnderWay("to_client") \in Queue(CommandIds)
           /\ commands \in Queue(CommandIds)
           /\ cluster_messages \in Queue(CommandIds)
           /\ proposals \in Queue(CommandIds)
           /\ UnderWay("to_server") \in Queue(CommandIds)
           /\ sending \in Queue(CommandIds)
           /\ Round \in Queue(CommandIds)
<1>1. UnderWay("to_client") \in Queue(CommandIds) /\ UnderWay("to_server") \in Queue(CommandIds)
  BY UnderWayType DEF Directions
<1>2. /\ commands \in Queue(CommandIds) /\ cluster_messages \in Queue(CommandIds)
      /\ proposals \in Queue(CommandIds) /\ sending \in Queue(CommandIds)
  BY DEF TypeOK, Queue
<1>. QED
  BY <1>1, <1>2, RoundQueues, LineType

\* Within the connection.
LEMMA MovingOnInRound ==
    ASSUME TypeOK, NEW d \in Directions,
           TakeBatch(d) \/ WriteMessage(d) \/ ReadMessage(d)
    PROVE  Round' = Round
<1>1. /\ UnderWay("to_client")' = UnderWay("to_client")
      /\ UnderWay("to_server")' = UnderWay("to_server")
  BY MovingOn DEF Directions
<1>2. UNCHANGED <<commands, cluster_messages, proposals, sending>>
  BY DEF TakeBatch, HasBatch, WriteMessage, DrainMessage, ReadMessage, shimVars,
         serverVars
<1>. QED
  BY <1>1, <1>2, RoundQueues

\* A new command is the last of the round.
LEMMA TakeCommandInRound ==
    ASSUME TypeOK, TakeCommand
    PROVE  Round' = Append(Round, next_request_id)
<1>1. /\ sending = <<>> /\ sending' = <<next_request_id>>
      /\ UNCHANGED <<commands, cluster_messages, proposals, connectionVars>>
  BY DEF TakeCommand, serverVars
<1>2. next_request_id \in CommandIds
  BY DEF TakeCommand, TypeOK, CommandIds
<1>3. /\ UnderWay("to_client")' = UnderWay("to_client")
      /\ UnderWay("to_server")' = UnderWay("to_server")
  BY <1>1, UnderWayFrame DEF Directions, connectionVars
<1> DEFINE u == UnderWay("to_client")
           v == UnderWay("to_server")
<1>4. /\ Round = Line(u, commands, cluster_messages, proposals, v, <<>>)
      /\ Round' = Line(u, commands, cluster_messages, proposals, v,
                       <<next_request_id>>)
  BY <1>1, <1>3, RoundQueues
<1>5. /\ u \in Queue(CommandIds) /\ v \in Queue(CommandIds)
      /\ commands \in Queue(CommandIds) /\ cluster_messages \in Queue(CommandIds)
      /\ proposals \in Queue(CommandIds)
  BY RoundTypes
<1>. HIDE DEF u, v
<1>6. Line(u, commands, cluster_messages, proposals, v, <<next_request_id>>)
         = Append(Line(u, commands, cluster_messages, proposals, v, <<>>),
                  next_request_id)
  BY <1>2, <1>5, LineNew
<1>. QED
  BY <1>4, <1>6

\* The command in Network::send joins the channel behind the others.
LEMMA SendCommandInRound ==
    ASSUME TypeOK, EndsAreAlive, connected, SendCommand
    PROVE  Round' = Round
<1>1. /\ server_connection /\ writer_task["to_server"]
      /\ "to_server" \in Directions /\ "to_client" \in Directions
  BY DEF EndsAreAlive, Directions
<1>2. /\ sending # <<>> /\ sending' = <<>>
      /\ EnterChannel("to_server", Head(sending))
      /\ UNCHANGED <<commands, cluster_messages, proposals, buffer, socket, incoming>>
  BY <1>1 DEF SendCommand, serverVars
<1>3. Head(sending) \in CommandIds /\ sending = <<Head(sending)>>
  BY <1>2, RoundTypes, QueueElements, QueueSingle DEF TypeOK
<1>4. /\ UnderWay("to_server")' = Append(UnderWay("to_server"), Head(sending))
      /\ UnderWay("to_client")' = UnderWay("to_client")
  BY <1>1, <1>2, <1>3, Entering
<1> DEFINE x == Head(sending)
           u == UnderWay("to_client")
           v == UnderWay("to_server")
<1>5. /\ Round = Line(u, commands, cluster_messages, proposals, v, <<x>>)
      /\ Round' = Line(u, commands, cluster_messages, proposals, Append(v, x), <<>>)
  BY <1>2, <1>3, <1>4, RoundQueues
<1>6. /\ u \in Queue(CommandIds) /\ v \in Queue(CommandIds)
      /\ commands \in Queue(CommandIds) /\ cluster_messages \in Queue(CommandIds)
      /\ proposals \in Queue(CommandIds) /\ x \in CommandIds
  BY <1>3, RoundTypes
<1>. HIDE DEF x, u, v
<1>7. Line(u, commands, cluster_messages, proposals, Append(v, x), <<>>)
         = Line(u, commands, cluster_messages, proposals, v, <<x>>)
  BY <1>6, LineSend
<1>. QED
  BY <1>5, <1>7

\* The answer that the shim takes is the first of the round.
LEMMA TakeResponseInRound ==
    ASSUME TypeOK, TakeResponse
    PROVE  /\ Round # <<>> /\ Round' = Tail(Round)
           /\ Head(Round) = Head(incoming["to_client"])
<1> DEFINE i == incoming["to_client"]
           u == UnderWay("to_client")
<1>1. "to_client" \in Directions /\ "to_server" \in Directions
  BY DEF Directions
<1>2. /\ i # <<>> /\ i \in Queue(CommandIds)
      /\ incoming'["to_client"] = Tail(i)
      /\ incoming'["to_server"] = incoming["to_server"]
      /\ UNCHANGED <<outgoing_messages, buffer, socket>>
      /\ UNCHANGED <<commands, cluster_messages, proposals, sending>>
  BY <1>1, QueueTypes DEF TakeResponse, TypeOK, serverVars
<1>3. UnderWay("to_server")' = UnderWay("to_server")
  BY <1>1, <1>2, UnderWayFrame
<1>4. /\ u # <<>> /\ Head(u) = Head(i) /\ u' = Tail(u)
  <2> DEFINE s == socket["to_client"]
             b == buffer["to_client"]
             o == outgoing_messages["to_client"]
  <2>1. /\ s \in Queue(CommandIds) /\ b \in Queue(CommandIds)
        /\ o \in Queue(CommandIds)
    BY <1>1, QueueTypes
  <2>2. u = Connection(i, s, b, o) /\ u' = Connection(Tail(i), s, b, o)
    BY <1>1, <1>2, UnderWayQueues
  <2>. HIDE DEF u, i, s, b, o
  <2>3. /\ Connection(i, s, b, o) # <<>>
        /\ Head(Connection(i, s, b, o)) = Head(i)
        /\ Tail(Connection(i, s, b, o)) = Connection(Tail(i), s, b, o)
    BY <1>2, <2>1, ConnectionFirst
  <2>. QED
    BY <2>2, <2>3
<1>5. u \in Queue(CommandIds)
  BY <1>1, UnderWayType
<1>6. /\ Round = Line(u, commands, cluster_messages, proposals,
                      UnderWay("to_server"), sending)
      /\ Round' = Line(Tail(u), commands, cluster_messages, proposals,
                       UnderWay("to_server"), sending)
  BY <1>2, <1>3, <1>4, RoundQueues
<1> DEFINE v == UnderWay("to_server")
<1>7. /\ commands \in Queue(CommandIds) /\ cluster_messages \in Queue(CommandIds)
      /\ proposals \in Queue(CommandIds) /\ v \in Queue(CommandIds)
      /\ sending \in Queue(CommandIds)
  BY RoundTypes
<1>. HIDE DEF u, v, i
<1>8. /\ Line(u, commands, cluster_messages, proposals, v, sending) # <<>>
      /\ Head(Line(u, commands, cluster_messages, proposals, v, sending)) = Head(u)
      /\ Tail(Line(u, commands, cluster_messages, proposals, v, sending))
            = Line(Tail(u), commands, cluster_messages, proposals, v, sending)
  BY <1>4, <1>5, <1>7, LineTakeAnswer
<1>. QED
  BY <1>4, <1>6, <1>8 DEF i, v

\* The batch that the server takes becomes its last proposals.
LEMMA HandleClientMessagesInRound ==
    ASSUME TypeOK, HandleClientMessages
    PROVE  Round' = Round
<1> DEFINE i == incoming["to_server"]
           k == Len(Batch(i))
           v == UnderWay("to_server")
<1>1. "to_client" \in Directions /\ "to_server" \in Directions
  BY DEF Directions
<1>2. /\ i \in Queue(CommandIds)
      /\ proposals' = proposals \o Batch(i)
      /\ incoming'["to_server"] = Rest(i)
      /\ incoming'["to_client"] = incoming["to_client"]
      /\ UNCHANGED <<outgoing_messages, buffer, socket>>
      /\ UNCHANGED <<commands, cluster_messages, sending>>
  BY <1>1, QueueTypes DEF HandleClientMessages, TypeOK, shimVars
<1>3. /\ Batch(i) \in Queue(CommandIds) /\ Batch(i) = Take(i, k)
      /\ Rest(i) = Drop(i, k) /\ k \in Cuts(i)
      /\ Rest(i) \in Queue(CommandIds)
  BY <1>2, BatchProperties
<1>4. UnderWay("to_client")' = UnderWay("to_client")
  BY <1>1, <1>2, UnderWayFrame
<1>5. Join(Batch(i), v') = v
  BY <1>1, <1>2, <1>3, Taking
<1>6. v' \in Queue(CommandIds)
  <2> DEFINE r == Rest(i)
             s == socket["to_server"]
             b == buffer["to_server"]
             o == outgoing_messages["to_server"]
  <2>1. v' = Connection(r, s, b, o)
    BY <1>1, <1>2, UnderWayQueues
  <2>2. /\ r \in Queue(CommandIds) /\ s \in Queue(CommandIds)
        /\ b \in Queue(CommandIds) /\ o \in Queue(CommandIds)
    BY <1>1, <1>3, QueueTypes
  <2>. HIDE DEF r, s, b, o
  <2>3. Connection(r, s, b, o) \in Queue(CommandIds)
    BY <2>2, ConnectionType
  <2>. QED
    BY <2>1, <2>3
<1>7. proposals' = Join(proposals, Batch(i))
  BY <1>2 DEF Join
<1> DEFINE x == Batch(i)
           w == v'
<1>8. /\ Round = Line(UnderWay("to_client"), commands, cluster_messages, proposals,
                      v, sending)
      /\ Round' = Line(UnderWay("to_client"), commands, cluster_messages,
                       Join(proposals, x), w, sending)
  BY <1>2, <1>4, <1>7, RoundQueues
<1>9. /\ x \in Queue(CommandIds) /\ w \in Queue(CommandIds) /\ v \in Queue(CommandIds)
      /\ Join(x, w) = v
  BY <1>1, <1>3, <1>5, <1>6, UnderWayType
<1> DEFINE u == UnderWay("to_client")
<1>10. /\ commands \in Queue(CommandIds) /\ cluster_messages \in Queue(CommandIds)
       /\ proposals \in Queue(CommandIds) /\ u \in Queue(CommandIds)
       /\ sending \in Queue(CommandIds)
  BY RoundTypes
<1>. HIDE DEF x, w, v, u
<1>11. Line(u, commands, cluster_messages, Join(proposals, x), w, sending)
          = Line(u, commands, cluster_messages, proposals, v, sending)
  BY <1>9, <1>10, LinePropose
<1>. QED
  BY <1>8, <1>11 DEF u

\* The oldest proposal is decided.
LEMMA DecideInRound ==
    ASSUME TypeOK, Decide
    PROVE  Round' = Round
<1>1. /\ proposals # <<>> /\ proposals' = Tail(proposals)
      /\ cluster_messages' = Append(cluster_messages, Head(proposals))
      /\ UNCHANGED <<commands, sending, connectionVars>>
  BY DEF Decide, shimVars
<1>2. /\ UnderWay("to_client")' = UnderWay("to_client")
      /\ UnderWay("to_server")' = UnderWay("to_server")
  BY <1>1, UnderWayFrame DEF Directions, connectionVars
<1>3. Line(UnderWay("to_client"), commands,
           Append(cluster_messages, Head(proposals)), Tail(proposals),
           UnderWay("to_server"), sending)
         = Line(UnderWay("to_client"), commands, cluster_messages, proposals,
                UnderWay("to_server"), sending)
  BY <1>1, RoundTypes, LineDecide
<1>. QED
  BY <1>1, <1>2, <1>3, RoundQueues

\* The server takes decided commands into its loop.
LEMMA HandleClusterMessagesInRound ==
    ASSUME TypeOK, HandleClusterMessages
    PROVE  Round' = Round
<1> DEFINE m == cluster_messages
           k == Len(Batch(m))
<1>1. /\ commands = <<>> /\ commands' = Batch(m) /\ cluster_messages' = Rest(m)
      /\ UNCHANGED <<proposals, sending, connectionVars>>
  BY DEF HandleClusterMessages, shimVars
<1>2. /\ UnderWay("to_client")' = UnderWay("to_client")
      /\ UnderWay("to_server")' = UnderWay("to_server")
  BY <1>1, UnderWayFrame DEF Directions, connectionVars
<1>3. /\ k \in Cuts(m) /\ Batch(m) = Take(m, k)
      /\ Rest(m) = Drop(m, k) /\ m \in Queue(CommandIds)
  BY RoundTypes, BatchProperties
<1>. HIDE DEF k
<1>4. Line(UnderWay("to_client"), Take(m, k), Drop(m, k),
           proposals, UnderWay("to_server"), sending)
         = Line(UnderWay("to_client"), <<>>, m, proposals,
                UnderWay("to_server"), sending)
  BY <1>3, RoundTypes, LineTakeDecided
<1>. QED
  BY <1>1, <1>2, <1>3, <1>4, RoundQueues

\* The answer to a command joins the channel to the shim.
LEMMA UpdateDatabaseAndRespondInRound ==
    ASSUME TypeOK, EndsAreAlive, connected, UpdateDatabaseAndRespond
    PROVE  Round' = Round
<1>1. /\ client_connection /\ writer_task["to_client"]
      /\ "to_server" \in Directions /\ "to_client" \in Directions
  BY DEF EndsAreAlive, Directions
<1>2. /\ commands # <<>> /\ commands' = Tail(commands)
      /\ EnterChannel("to_client", Head(commands))
      /\ UNCHANGED <<sending, cluster_messages, proposals, buffer, socket, incoming>>
  BY <1>1 DEF UpdateDatabaseAndRespond, shimVars
<1>3. Head(commands) \in CommandIds
  BY <1>2, RoundTypes, QueueElements
<1>4. /\ UnderWay("to_client")' = Append(UnderWay("to_client"), Head(commands))
      /\ UnderWay("to_server")' = UnderWay("to_server")
  BY <1>1, <1>2, <1>3, Entering
<1>5. Line(Append(UnderWay("to_client"), Head(commands)), Tail(commands),
           cluster_messages, proposals, UnderWay("to_server"), sending)
         = Line(UnderWay("to_client"), commands, cluster_messages, proposals,
                UnderWay("to_server"), sending)
  BY <1>2, RoundTypes, LineAnswer
<1>. QED
  BY <1>2, <1>4, <1>5, RoundQueues

(***************************************************************************)
(* The invariant is inductive                                              *)
(***************************************************************************)

\* TypeOK, with Queue in place of Seq.
QueuesOK ==
    /\ next_request_id \in 0 .. MaxCommands
    /\ pending \in SUBSET CommandIds
    /\ sending \in Queue(CommandIds) /\ Len(sending) <= 1
    /\ server_connection \in BOOLEAN
    /\ connected \in BOOLEAN
    /\ outgoing_messages \in [Directions -> Queue(CommandIds)]
    /\ Len(outgoing_messages["to_server"]) <= ChannelCapacity
    /\ writer_task \in [Directions -> BOOLEAN]
    /\ buffer \in [Directions -> Queue(CommandIds)]
    /\ socket \in [Directions -> Queue(CommandIds)]
    /\ incoming \in [Directions -> Queue(CommandIds)]
    /\ \A d \in Directions : /\ Len(buffer[d]) <= BatchSize
                             /\ Len(socket[d]) <= SocketCapacity
                             /\ Len(incoming[d]) <= ChannelCapacity
    /\ proposals \in Queue(CommandIds)
    /\ cluster_messages \in Queue(CommandIds)
    /\ Len(cluster_messages) <= ChannelCapacity
    /\ commands \in Queue(CommandIds)
    /\ client_connection \in BOOLEAN

LEMMA TypeOKAsQueues ==
    (TypeOK <=> QueuesOK) /\ (TypeOK' <=> QueuesOK')
BY DEF TypeOK, QueuesOK, Queue

LEMMA EmptyQueue == <<>> \in Queue(CommandIds) /\ Len(<<>>) = 0
BY DEF Queue

\* What is sent has room in the shim's channel.
LEMMA EnterChannelType ==
    ASSUME QueuesOK, NEW d, NEW id,
           d \in Directions, id \in CommandIds, EnterChannel(d, id)
    PROVE  /\ outgoing_messages' \in [Directions -> Queue(CommandIds)]
           /\ Len(outgoing_messages'["to_server"]) <= ChannelCapacity
<1> DEFINE o == outgoing_messages[d]
<1>1. o \in Queue(CommandIds) /\ "to_server" \in Directions
  BY DEF QueuesOK, Directions
<1>2. Append(o, id) \in Queue(CommandIds) /\ Len(Append(o, id)) = Len(o) + 1
  BY <1>1, QueueAppend
<1>3. Len(o) \in Nat
  BY <1>1, QueueLength
<1>4. outgoing_messages' \in [Directions -> Queue(CommandIds)]
  BY <1>2 DEF QueuesOK, EnterChannel
<1>5. CASE d = "to_server"
  <2>1. Len(o) < ChannelCapacity /\ outgoing_messages'["to_server"] = Append(o, id)
    BY <1>1, <1>5 DEF QueuesOK, EnterChannel, HasRoom
  <2>. QED
    BY <1>2, <1>3, <1>4, <2>1
<1>6. CASE d # "to_server"
  BY <1>1, <1>4, <1>6 DEF QueuesOK, EnterChannel
<1>. QED
  BY <1>5, <1>6

\* What moves from the first of one queue to the last of another.
LEMMA QueueMove ==
    ASSUME NEW S, NEW a, NEW b,
           a \in Queue(S), b \in Queue(S), b # <<>>
    PROVE  /\ Append(a, Head(b)) \in Queue(S) /\ Tail(b) \in Queue(S)
           /\ Len(Append(a, Head(b))) = Len(a) + 1
           /\ Len(Tail(b)) = Len(b) - 1
           /\ Len(a) \in Nat /\ Len(b) \in Nat
BY QueueElements, QueueAppend, QueueLength

LEMMA TypeStep ==
    ASSUME TypeOK, EndsAreAlive, [Next]_vars
    PROVE  TypeOK'
<1>. SUFFICES QueuesOK'
  BY TypeOKAsQueues
<1>0. QueuesOK
  BY TypeOKAsQueues
<1>. "to_server" \in Directions /\ "to_client" \in Directions
  BY DEF Directions
<1>. USE DEF QueuesOK
<1>1. CASE TakeCommand
  <2>1. next_request_id \in CommandIds /\ next_request_id + 1 \in 0 .. MaxCommands
    BY <1>0, <1>1 DEF TakeCommand, CommandIds
  <2>2. <<next_request_id>> \in Queue(CommandIds) /\ Len(<<next_request_id>>) = 1
    BY <2>1 DEF Queue
  <2>. QED
    BY <1>0, <1>1, <2>1, <2>2 DEF TakeCommand, connectionVars, serverVars
<1>2. CASE SendCommand
  <2>1. sending # <<>> /\ sending' = <<>> /\ Head(sending) \in CommandIds
    BY <1>0, <1>2, QueueElements DEF SendCommand
  <2>2. /\ outgoing_messages' \in [Directions -> Queue(CommandIds)]
        /\ Len(outgoing_messages'["to_server"]) <= ChannelCapacity
        /\ server_connection' \in BOOLEAN
    <3>1. CASE EnterChannel("to_server", Head(sending)) /\ UNCHANGED server_connection
      BY <1>0, <2>1, <3>1, EnterChannelType
    <3>2. CASE server_connection' = FALSE /\ UNCHANGED outgoing_messages
      BY <1>0, <3>2
    <3>. QED
      BY <1>2, <3>1, <3>2 DEF SendCommand
  <2>3. UNCHANGED <<next_request_id, pending, connected, writer_task, buffer, socket,
                    incoming, serverVars>>
    BY <1>2 DEF SendCommand
  <2>. QED
    BY <1>0, <2>1, <2>2, <2>3, EmptyQueue DEF serverVars
<1>3. CASE TakeResponse
  <2> DEFINE i == incoming["to_client"]
  <2>1. i # <<>> /\ i \in Queue(CommandIds) /\ Len(i) <= ChannelCapacity
    BY <1>0, <1>3 DEF TakeResponse
  <2>2. Tail(i) \in Queue(CommandIds) /\ Len(Tail(i)) = Len(i) - 1 /\ Len(i) \in Nat
    BY <2>1, QueueElements
  <2>3. /\ incoming' = [incoming EXCEPT !["to_client"] = Tail(i)]
        /\ pending' \subseteq pending
        /\ UNCHANGED <<next_request_id, sending, server_connection, connected,
                       outgoing_messages, writer_task, buffer, socket, serverVars>>
    BY <1>3 DEF TakeResponse
  <2>4. Len(Tail(i)) <= ChannelCapacity
    BY <2>1, <2>2
  <2>. HIDE DEF i
  <2>5. /\ incoming' \in [Directions -> Queue(CommandIds)]
        /\ \A d \in Directions : Len(incoming'[d]) <= ChannelCapacity
    BY <1>0, <2>2, <2>3, <2>4
  <2>. QED
    BY <1>0, <2>3, <2>5 DEF serverVars
<1>4. ASSUME NEW d \in Directions, TakeBatch(d) PROVE QueuesOK'
  <2> DEFINE o == outgoing_messages[d]
  <2>1. o \in Queue(CommandIds) /\ Len(o) \in Nat
    BY <1>0, QueueLength
  <2>2. /\ Batch(o) \in Queue(CommandIds) /\ Rest(o) \in Queue(CommandIds)
        /\ Len(Batch(o)) <= BatchSize
        /\ Len(Rest(o)) <= Len(o) /\ Len(Rest(o)) \in Nat
    BY <2>1, BatchProperties
  <2>3. /\ buffer' = [buffer EXCEPT ![d] = Batch(o)]
        /\ outgoing_messages' = [outgoing_messages EXCEPT ![d] = Rest(o)]
        /\ UNCHANGED <<connected, writer_task, socket, incoming, shimVars, serverVars>>
    BY <1>4 DEF TakeBatch, HasBatch
  <2>4. d = "to_server" => Len(o) <= ChannelCapacity
    BY <1>0
  <2>. HIDE DEF o
  <2>5. d = "to_server" => Len(Rest(o)) <= ChannelCapacity
    BY <2>1, <2>2, <2>4
  <2>6. /\ outgoing_messages' \in [Directions -> Queue(CommandIds)]
        /\ Len(outgoing_messages'["to_server"]) <= ChannelCapacity
    BY <1>0, <2>2, <2>3, <2>5
  <2>7. /\ buffer' \in [Directions -> Queue(CommandIds)]
        /\ \A e \in Directions : Len(buffer'[e]) <= BatchSize
    BY <1>0, <2>2, <2>3
  <2>. QED
    BY <1>0, <2>3, <2>6, <2>7 DEF shimVars, serverVars
<1>5. ASSUME NEW d \in Directions, WriteMessage(d) PROVE QueuesOK'
  <2> DEFINE s == Append(socket[d], Head(buffer[d]))
             b == Tail(buffer[d])
  <2>1. /\ Len(socket[d]) < SocketCapacity /\ buffer[d] # <<>>
        /\ Len(buffer[d]) <= BatchSize
        /\ socket[d] \in Queue(CommandIds) /\ buffer[d] \in Queue(CommandIds)
        /\ socket' = [socket EXCEPT ![d] = s]
        /\ buffer' = [buffer EXCEPT ![d] = b]
        /\ UNCHANGED <<connected, outgoing_messages, writer_task, incoming, shimVars,
                       serverVars>>
    BY <1>0, <1>5 DEF WriteMessage, DrainMessage
  <2>2. /\ s \in Queue(CommandIds) /\ b \in Queue(CommandIds)
        /\ Len(s) = Len(socket[d]) + 1 /\ Len(b) = Len(buffer[d]) - 1
        /\ Len(socket[d]) \in Nat /\ Len(buffer[d]) \in Nat
    BY <2>1, QueueMove
  <2>. HIDE DEF s, b
  <2>3. Len(s) <= SocketCapacity /\ Len(b) <= BatchSize
    BY <2>1, <2>2
  <2>4. /\ socket' \in [Directions -> Queue(CommandIds)]
        /\ buffer' \in [Directions -> Queue(CommandIds)]
        /\ \A e \in Directions : /\ Len(buffer'[e]) <= BatchSize
                                 /\ Len(socket'[e]) <= SocketCapacity
    BY <1>0, <2>1, <2>2, <2>3
  <2>. QED
    BY <1>0, <2>1, <2>4 DEF shimVars, serverVars
<1>6. ASSUME NEW d \in Directions, EndWriter(d) PROVE QueuesOK'
  <2>1. /\ writer_task' = [writer_task EXCEPT ![d] = FALSE]
        /\ buffer' = [buffer EXCEPT ![d] = <<>>]
        /\ outgoing_messages' = [outgoing_messages EXCEPT ![d] = <<>>]
        /\ UNCHANGED <<connected, socket, incoming, shimVars, serverVars>>
    BY <1>6 DEF EndWriter
  <2>2. /\ outgoing_messages' \in [Directions -> Queue(CommandIds)]
        /\ Len(outgoing_messages'["to_server"]) <= ChannelCapacity
        /\ buffer' \in [Directions -> Queue(CommandIds)]
        /\ \A e \in Directions : Len(buffer'[e]) <= BatchSize
        /\ writer_task' \in [Directions -> BOOLEAN]
    BY <1>0, <2>1, EmptyQueue
  <2>. QED
    BY <1>0, <2>1, <2>2 DEF shimVars, serverVars
<1>7. ASSUME NEW d \in Directions, ReadMessage(d) PROVE QueuesOK'
  <2> DEFINE i == Append(incoming[d], Head(socket[d]))
             s == Tail(socket[d])
  <2>1. /\ Len(incoming[d]) < ChannelCapacity /\ socket[d] # <<>>
        /\ Len(socket[d]) <= SocketCapacity
        /\ socket[d] \in Queue(CommandIds) /\ incoming[d] \in Queue(CommandIds)
        /\ incoming' = [incoming EXCEPT ![d] = i]
        /\ socket' = [socket EXCEPT ![d] = s]
        /\ UNCHANGED <<connected, outgoing_messages, writer_task, buffer, shimVars,
                       serverVars>>
    BY <1>0, <1>7 DEF ReadMessage
  <2>2. /\ i \in Queue(CommandIds) /\ s \in Queue(CommandIds)
        /\ Len(i) = Len(incoming[d]) + 1 /\ Len(s) = Len(socket[d]) - 1
        /\ Len(incoming[d]) \in Nat /\ Len(socket[d]) \in Nat
    BY <2>1, QueueMove
  <2>. HIDE DEF i, s
  <2>3. Len(i) <= ChannelCapacity /\ Len(s) <= SocketCapacity
    BY <2>1, <2>2
  <2>4. /\ incoming' \in [Directions -> Queue(CommandIds)]
        /\ socket' \in [Directions -> Queue(CommandIds)]
        /\ \A e \in Directions : /\ Len(socket'[e]) <= SocketCapacity
                                 /\ Len(incoming'[e]) <= ChannelCapacity
    BY <1>0, <2>1, <2>2, <2>3
  <2>. QED
    BY <1>0, <2>1, <2>4 DEF shimVars, serverVars
<1>8. CASE BreakConnection
  <2>1. /\ connected' = FALSE /\ socket' = [d \in Directions |-> <<>>]
        /\ UNCHANGED <<outgoing_messages, writer_task, buffer, incoming, shimVars,
                       serverVars>>
    BY <1>8 DEF BreakConnection
  <2>2. /\ socket' \in [Directions -> Queue(CommandIds)]
        /\ \A d \in Directions : Len(socket'[d]) <= SocketCapacity
    <3> DEFINE e == <<>>
    <3>1. e \in Queue(CommandIds) /\ Len(e) = 0 /\ 0 <= SocketCapacity
      BY EmptyQueue
    <3>2. socket' = [d \in Directions |-> e]
      BY <2>1
    <3>. HIDE DEF e
    <3>. QED
      BY <3>1, <3>2
  <2>. QED
    BY <1>0, <2>1, <2>2 DEF shimVars, serverVars
<1>9. CASE HandleClientMessages
  <2> DEFINE i == incoming["to_server"]
  <2>1. /\ i \in Queue(CommandIds) /\ Len(i) <= ChannelCapacity /\ Len(i) \in Nat
    BY <1>0, QueueLength
  <2>2. /\ Batch(i) \in Queue(CommandIds) /\ Rest(i) \in Queue(CommandIds)
        /\ Len(Rest(i)) <= Len(i) /\ Len(Rest(i)) \in Nat
    BY <2>1, BatchProperties
  <2>3. /\ incoming' = [incoming EXCEPT !["to_server"] = Rest(i)]
        /\ proposals' = Join(proposals, Batch(i))
        /\ UNCHANGED <<cluster_messages, commands, client_connection, shimVars,
                       connected, outgoing_messages, writer_task, buffer, socket>>
    BY <1>9 DEF HandleClientMessages, Join
  <2>. HIDE DEF i
  <2>4. Len(Rest(i)) <= ChannelCapacity
    BY <2>1, <2>2
  <2>5. /\ incoming' \in [Directions -> Queue(CommandIds)]
        /\ \A d \in Directions : Len(incoming'[d]) <= ChannelCapacity
    BY <1>0, <2>2, <2>3, <2>4
  <2>6. proposals' \in Queue(CommandIds)
    BY <1>0, <2>2, <2>3, JoinType
  <2>. QED
    BY <1>0, <2>3, <2>5, <2>6 DEF shimVars
<1>10. CASE Decide
  <2>1. /\ cluster_messages' \in Queue(CommandIds) /\ proposals' \in Queue(CommandIds)
        /\ Len(cluster_messages') = Len(cluster_messages) + 1
        /\ Len(cluster_messages) \in Nat
    BY <1>0, <1>10, QueueMove DEF Decide
  <2>2. Len(cluster_messages') <= ChannelCapacity
    BY <1>10, <2>1 DEF Decide
  <2>. QED
    BY <1>0, <1>10, <2>1, <2>2 DEF Decide, shimVars, connectionVars
<1>11. CASE HandleClusterMessages
  <2>1. /\ commands' \in Queue(CommandIds) /\ cluster_messages' \in Queue(CommandIds)
        /\ Len(cluster_messages') <= Len(cluster_messages)
        /\ Len(cluster_messages') \in Nat
    BY <1>0, <1>11, BatchProperties DEF HandleClusterMessages
  <2>2. Len(cluster_messages') <= ChannelCapacity
    BY <1>0, <2>1, QueueLength
  <2>. QED
    BY <1>0, <1>11, <2>1, <2>2 DEF HandleClusterMessages, shimVars, connectionVars
<1>12. CASE UpdateDatabaseAndRespond
  <2>1. commands # <<>> /\ Head(commands) \in CommandIds /\ commands' \in Queue(CommandIds)
    BY <1>0, <1>12, QueueElements DEF UpdateDatabaseAndRespond
  <2>2. /\ outgoing_messages' \in [Directions -> Queue(CommandIds)]
        /\ Len(outgoing_messages'["to_server"]) <= ChannelCapacity
        /\ client_connection' \in BOOLEAN
    <3>1. CASE EnterChannel("to_client", Head(commands)) /\ UNCHANGED client_connection
      BY <1>0, <2>1, <3>1, EnterChannelType
    <3>2. CASE client_connection' = FALSE /\ UNCHANGED outgoing_messages
      BY <1>0, <3>2
    <3>. QED
      BY <1>12, <3>1, <3>2 DEF UpdateDatabaseAndRespond
  <2>3. UNCHANGED <<proposals, cluster_messages, shimVars, connected, writer_task,
                    buffer, socket, incoming>>
    BY <1>12 DEF UpdateDatabaseAndRespond
  <2>. QED
    BY <1>0, <2>1, <2>2, <2>3 DEF shimVars
<1>13. CASE UNCHANGED vars
  BY <1>0, <1>13 DEF vars, shimVars, connectionVars, serverVars
<1>. QED
  BY <1>1, <1>2, <1>3, <1>4, <1>5, <1>6, <1>7, <1>8, <1>9, <1>10, <1>11, <1>12,
     <1>13 DEF Next, ShimStep, ConnectionStep, ServerStep

LEMMA EndsAreAliveStep ==
    ASSUME TypeOK, EndsAreAlive, [Next]_vars
    PROVE  EndsAreAlive'
<1>. USE DEF EndsAreAlive
<1>. "to_server" \in Directions /\ "to_client" \in Directions
  BY DEF Directions
<1>1. CASE SendCommand
  BY <1>1 DEF SendCommand, serverVars
<1>2. CASE UpdateDatabaseAndRespond
  BY <1>2 DEF UpdateDatabaseAndRespond, shimVars
<1>3. CASE BreakConnection
  BY <1>3 DEF BreakConnection
<1>4. ASSUME NEW d \in Directions, WriteMessage(d) PROVE EndsAreAlive'
  BY <1>4 DEF WriteMessage, DrainMessage, shimVars, serverVars
<1>6. ASSUME NEW d \in Directions, EndWriter(d) PROVE EndsAreAlive'
  BY <1>6 DEF EndWriter, shimVars, serverVars
<1>7. ASSUME NEW d \in Directions, ReadMessage(d) PROVE EndsAreAlive'
  <2>1. /\ socket[d] # <<>>
        /\ UNCHANGED <<connected, writer_task, server_connection, client_connection>>
    BY <1>7 DEF ReadMessage, shimVars, serverVars
  <2>2. connected
    BY <2>1
  <2>. QED
    BY <2>1, <2>2
<1>8. ASSUME NEW d \in Directions, TakeBatch(d) PROVE EndsAreAlive'
  BY <1>8 DEF TakeBatch, HasBatch, shimVars, serverVars
<1>5. CASE UNCHANGED <<connected, writer_task, socket, server_connection,
                       client_connection>>
  BY <1>5
<1>. QED
  BY <1>1, <1>2, <1>3, <1>4, <1>5, <1>6, <1>7, <1>8
     DEF Next, ShimStep, ConnectionStep, ServerStep, TakeCommand, TakeResponse,
         HandleClientMessages, HandleClusterMessages, Decide, vars, shimVars,
         connectionVars, serverVars

LEMMA RoundFrame ==
    ASSUME RoundIsPending, UNCHANGED <<pending, next_request_id>>,
           connected' => connected /\ Round' = Round
    PROVE  RoundIsPending'
BY DEF RoundIsPending

LEMMA RoundIsPendingStep ==
    ASSUME TypeOK, EndsAreAlive, RoundIsPending, [Next]_vars
    PROVE  RoundIsPending'
<1>1. CASE TakeCommand
  <2>1. /\ next_request_id' = next_request_id + 1
        /\ pending' = pending \cup {next_request_id}
        /\ connected' = connected
    BY <1>1 DEF TakeCommand, connectionVars
  <2>2. /\ next_request_id \in CommandIds /\ next_request_id \notin pending
    BY <1>1 DEF TakeCommand, TypeOK, CommandIds, RoundIsPending
  <2>3. pending' \subseteq 0 .. next_request_id' - 1
    BY <2>1, <2>2 DEF RoundIsPending, CommandIds
  <2>4. connected => /\ Members(Append(Round, next_request_id))
                           = pending \cup {next_request_id}
                     /\ IsInjectiveSeq(Append(Round, next_request_id))
    BY <2>2, RoundTypes, AppendMembers DEF RoundIsPending
  <2>. QED
    BY <1>1, <2>1, <2>3, <2>4, TakeCommandInRound DEF RoundIsPending
<1>2. CASE TakeResponse
  <2>1. /\ pending' = pending \ {Head(incoming["to_client"])}
        /\ UNCHANGED <<next_request_id, connected>>
    BY <1>2 DEF TakeResponse
  <2>2. /\ Round # <<>> /\ Round' = Tail(Round) /\ Round \in Queue(CommandIds)
        /\ Head(Round) = Head(incoming["to_client"])
    BY <1>2, TakeResponseInRound, RoundTypes
  <2>3. connected => /\ Members(Tail(Round)) = pending \ {Head(Round)}
                     /\ IsInjectiveSeq(Tail(Round))
    BY <2>2, TailMembers DEF RoundIsPending
  <2>. QED
    BY <2>1, <2>2, <2>3 DEF RoundIsPending
<1>3. CASE SendCommand
  <2>1. UNCHANGED <<pending, next_request_id, connected>>
    BY <1>3 DEF SendCommand
  <2>. QED
    BY <1>3, <2>1, SendCommandInRound, RoundFrame
<1>4. CASE UpdateDatabaseAndRespond
  <2>1. UNCHANGED <<pending, next_request_id, connected>>
    BY <1>4 DEF UpdateDatabaseAndRespond, shimVars
  <2>. QED
    BY <1>4, <2>1, UpdateDatabaseAndRespondInRound, RoundFrame
<1>5. CASE HandleClientMessages \/ Decide \/ HandleClusterMessages
  <2>1. UNCHANGED <<pending, next_request_id, connected>>
    BY <1>5 DEF HandleClientMessages, Decide, HandleClusterMessages, shimVars,
                connectionVars
  <2>. QED
    BY <1>5, <2>1, HandleClientMessagesInRound, DecideInRound,
       HandleClusterMessagesInRound, RoundFrame
<1>6. ASSUME NEW d \in Directions,
             TakeBatch(d) \/ WriteMessage(d) \/ ReadMessage(d)
      PROVE  RoundIsPending'
  <2>1. UNCHANGED <<pending, next_request_id, connected>>
    BY <1>6 DEF TakeBatch, HasBatch, WriteMessage, DrainMessage, ReadMessage, shimVars
  <2>. QED
    BY <1>6, <2>1, MovingOnInRound, RoundFrame
<1>7. ASSUME BreakConnection \/ \E d \in Directions : EndWriter(d)
      PROVE  RoundIsPending'
  <2>1. UNCHANGED <<pending, next_request_id>> /\ ~connected'
    BY <1>7 DEF BreakConnection, EndWriter, shimVars
  <2>. QED
    BY <2>1, RoundFrame
<1>8. CASE UNCHANGED vars
  <2>1. Round' = Round
    BY <1>8 DEF Round, UnderWay, vars, shimVars, connectionVars, serverVars
  <2>. QED
    BY <1>8, <2>1, RoundFrame DEF vars, shimVars, connectionVars
<1>. QED
  BY <1>1, <1>2, <1>3, <1>4, <1>5, <1>6, <1>7, <1>8
     DEF Next, ShimStep, ConnectionStep, ServerStep

LEMMA InitIndInv == Init => IndInv
<1>. SUFFICES ASSUME Init PROVE IndInv
  OBVIOUS
<1>. USE DEF Init
<1>1. TypeOK
  BY EmptyQueue, TypeOKAsQueues DEF QueuesOK, Directions
<1>2. EndsAreAlive
  BY DEF EndsAreAlive
<1>3. Round = <<>>
  BY DEF Round, UnderWay, Directions
<1>4. RoundIsPending
  BY <1>3 DEF RoundIsPending, Members, IsInjectiveSeq
<1>. QED
  BY <1>1, <1>2, <1>4 DEF IndInv

LEMMA NextIndInv == IndInv /\ [Next]_vars => IndInv'
BY TypeStep, EndsAreAliveStep, RoundIsPendingStep DEF IndInv

(***************************************************************************)
(* The theorems                                                            *)
(***************************************************************************)

\* IndInv is an invariant, however small the queues are.
THEOREM Invariance == Spec => []IndInv
BY InitIndInv, NextIndInv, PTL DEF Spec

\* Every variable keeps its type, and no bounded queue exceeds its bound.
THEOREM TypeCorrectness == Spec => []TypeOK
<1>1. IndInv => TypeOK
  BY DEF IndInv
<1>. QED
  BY <1>1, Invariance, PTL

\* While the connection holds every pending entry of the shim has its command
\* or its answer under way, once, for queues of any capacity
\* (api_shim.rs:95, client/network.rs:131-175, server/network.rs:378-423).
THEOREM PendingSafety == Spec => []PendingIsUnderWay
<1>1. IndInv => PendingIsUnderWay
  BY RoundTypes, InjectiveCount DEF IndInv, RoundIsPending, PendingIsUnderWay
<1>. QED
  BY <1>1, Invariance, PTL

(***************************************************************************)
(* The refinement                                                          *)
(***************************************************************************)

LEMMA StreamType ==
    ASSUME TypeOK, NEW d,
           d \in Directions
    PROVE  /\ Len(incoming[d]) \in 0 .. Len(Stream(d))
           /\ SubSeq(Stream(d), 1, Len(incoming[d])) = incoming[d]
<1> DEFINE i == incoming[d]
           s == socket[d]
           b == buffer[d]
           o == outgoing_messages[d]
<1>1. /\ i \in Queue(CommandIds) /\ s \in Queue(CommandIds)
      /\ b \in Queue(CommandIds) /\ o \in Queue(CommandIds)
  BY QueueTypes
<1>2. UnderWay(d) = Connection(i, s, b, o)
  BY UnderWayQueues
<1>. HIDE DEF i, s, b, o
<1>3. Len(i) \in 0 .. Len(UnderWay(d)) /\ SubSeq(UnderWay(d), 1, Len(i)) = i
  BY <1>1, <1>2, ConnectionPrefix
<1>4. Len(i) \in 0 .. Len(i) /\ SubSeq(i, 1, Len(i)) = i
  BY <1>1, SubSeqFull DEF Queue
<1>. QED
  BY <1>3, <1>4 DEF Stream, i

\* A step that sends.
LEMMA SendIsSend ==
    ASSUME TypeOK, NEW d \in Directions, NEW id \in CommandIds,
           EnterChannel(d, id), UNCHANGED <<connected, buffer, socket, incoming>>
    PROVE  Link!FifoNext \/ UNCHANGED Link!fifoVars
<1>1. /\ UnderWay(d)' = Append(UnderWay(d), id)
      /\ \A e \in Directions : e # d => UnderWay(e)' = UnderWay(e)
  BY Entering
<1>2. CASE connected
  <2>1. /\ Stream(d)' = Append(Stream(d), id)
        /\ \A e \in Directions : e # d => Stream(e)' = Stream(e)
    BY <1>1, <1>2 DEF Stream
  <2>2. Link!Send(d, id)
    BY <1>2, <2>1 DEF Link!Send
  <2>. QED
    BY <2>2 DEF Link!FifoNext
<1>3. CASE ~connected
  BY <1>3 DEF Link!fifoVars, Stream
<1>. QED
  BY <1>2, <1>3

\* A step that takes the first k incoming messages.
LEMMA TakeIsReceive ==
    ASSUME TypeOK, NEW d, NEW k,
           d \in Directions, k \in 1 .. Len(incoming[d]), k \in Cuts(incoming[d]),
           incoming' = [incoming EXCEPT ![d] = Drop(incoming[d], k)],
           UNCHANGED <<connected, outgoing_messages, buffer, socket>>
    PROVE  Link!FifoNext
<1>1. /\ incoming'[d] = Drop(incoming[d], k)
      /\ \A e \in Directions : e # d => incoming'[e] = incoming[e]
  BY DEF TypeOK
<1>2. /\ UnderWay(d)' = Drop(UnderWay(d), k)
      /\ \A e \in Directions : e # d => UnderWay(e)' = UnderWay(e)
  BY <1>1, Taking, UnderWayFrame
<1>3. /\ Stream(d)' = Drop(Stream(d), k)
      /\ \A e \in Directions : e # d => Stream(e)' = Stream(e)
  BY <1>1, <1>2 DEF Stream
<1>4. Link!Receive(d, k)
  BY <1>3 DEF Link!Receive, Drop
<1>5. k \in 1 .. Len(Stream(d))
  BY StreamType
<1>. QED
  BY <1>4, <1>5 DEF Link!FifoNext

\* Steps within the connection, and those elsewhere.
LEMMA OtherStepsStutter ==
    ASSUME UNCHANGED <<connected, incoming>>,
           connected => \A d \in Directions : UnderWay(d)' = UnderWay(d)
    PROVE  UNCHANGED Link!fifoVars
BY DEF Stream, Link!fifoVars

LEMMA BreakIsLose ==
    ASSUME TypeOK, BreakConnection
    PROVE  Link!FifoNext
<1>1. connected /\ ~connected' /\ connected' \in BOOLEAN /\ UNCHANGED incoming
  BY DEF BreakConnection
<1>2. ASSUME NEW d \in Directions
      PROVE  /\ Stream(d)' = SubSeq(Stream(d), 1, Len(incoming[d]))
             /\ Len(incoming[d]) \in 0 .. Len(Stream(d))
  <2>1. Stream(d)' = incoming[d]
    BY <1>1 DEF Stream
  <2>. QED
    BY <2>1, StreamType
<1>3. Link!Lose
  BY <1>1, <1>2 DEF Link!Lose
<1>. QED
  BY <1>3 DEF Link!FifoNext

LEMMA StepIsFifoStep ==
    ASSUME TypeOK, EndsAreAlive, [Next]_vars
    PROVE  Link!FifoNext \/ UNCHANGED Link!fifoVars
<1>. "to_server" \in Directions /\ "to_client" \in Directions
  BY DEF Directions
<1>1. CASE SendCommand
  <2>1. sending # <<>> /\ UNCHANGED <<connected, buffer, socket, incoming>>
    BY <1>1 DEF SendCommand
  <2>2. Head(sending) \in CommandIds
    BY <2>1 DEF TypeOK
  <2>3. CASE EnterChannel("to_server", Head(sending))
    BY <2>1, <2>2, <2>3, SendIsSend
  <2>4. CASE ~EnterChannel("to_server", Head(sending))
    <3>1. UNCHANGED outgoing_messages
      BY <1>1, <2>4 DEF SendCommand
    <3>. QED
      BY <2>1, <3>1, OtherStepsStutter DEF UnderWay
  <2>. QED
    BY <2>3, <2>4
<1>2. CASE UpdateDatabaseAndRespond
  <2>1. commands # <<>> /\ UNCHANGED <<connected, buffer, socket, incoming>>
    BY <1>2 DEF UpdateDatabaseAndRespond
  <2>2. Head(commands) \in CommandIds
    BY <2>1 DEF TypeOK
  <2>3. CASE EnterChannel("to_client", Head(commands))
    BY <2>1, <2>2, <2>3, SendIsSend
  <2>4. CASE ~EnterChannel("to_client", Head(commands))
    <3>1. UNCHANGED outgoing_messages
      BY <1>2, <2>4 DEF UpdateDatabaseAndRespond
    <3>. QED
      BY <2>1, <3>1, OtherStepsStutter DEF UnderWay
  <2>. QED
    BY <2>3, <2>4
<1>3. CASE TakeResponse
  <2> DEFINE inc == incoming["to_client"]
  <2>1. /\ inc # <<>> /\ inc \in Queue(CommandIds)
        /\ incoming' = [incoming EXCEPT !["to_client"] = Tail(inc)]
        /\ UNCHANGED <<connected, outgoing_messages, buffer, socket>>
    BY <1>3, QueueTypes DEF TakeResponse
  <2>2. /\ Len(inc) \in Nat \ {0} /\ Tail(inc) = Drop(inc, 1) /\ 1 \in Cuts(inc)
    BY <2>1, QueueElements
  <2>3. 1 \in 1 .. Len(inc)
    BY <2>2
  <2>. QED
    BY <2>1, <2>2, <2>3, TakeIsReceive
<1>4. CASE HandleClientMessages
  <2> DEFINE inc == incoming["to_server"]
             k == Len(Batch(inc))
  <2>1. /\ inc # <<>> /\ inc \in Queue(CommandIds)
        /\ incoming' = [incoming EXCEPT !["to_server"] = Rest(inc)]
        /\ UNCHANGED <<connected, outgoing_messages, buffer, socket>>
    BY <1>4, QueueTypes DEF HandleClientMessages
  <2>2. k \in 1 .. Len(inc) /\ k \in Cuts(inc) /\ Rest(inc) = Drop(inc, k)
    BY <2>1, BatchProperties
  <2>. HIDE DEF k
  <2>. QED
    BY <2>1, <2>2, TakeIsReceive
<1>5. ASSUME NEW d \in Directions, TakeBatch(d) \/ WriteMessage(d)
      PROVE  UNCHANGED Link!fifoVars
  BY <1>5, MovingOn, OtherStepsStutter DEF TakeBatch, HasBatch, WriteMessage,
                                           DrainMessage
<1>6. ASSUME NEW d \in Directions, ReadMessage(d)
      PROVE  UNCHANGED Link!fifoVars
  <2>1. connected /\ UNCHANGED connected
    BY <1>6 DEF ReadMessage, EndsAreAlive
  <2>. QED
    BY <1>6, <2>1, MovingOn DEF Stream, Link!fifoVars
<1>7. ASSUME NEW d \in Directions, EndWriter(d) PROVE UNCHANGED Link!fifoVars
  BY <1>7, OtherStepsStutter DEF EndWriter
<1>8. CASE BreakConnection
  BY <1>8, BreakIsLose
<1>9. CASE \/ TakeCommand \/ Decide \/ HandleClusterMessages
           \/ UNCHANGED vars
  <2>1. UNCHANGED connectionVars
    BY <1>9 DEF TakeCommand, Decide, HandleClusterMessages, vars
  <2>. QED
    BY <2>1, OtherStepsStutter DEF connectionVars, UnderWay
<1>. QED
  BY <1>1, <1>2, <1>3, <1>4, <1>5, <1>6, <1>7, <1>8, <1>9
     DEF Next, ShimStep, ConnectionStep, ServerStep

LEMMA InitIsFifoInit == Init => Link!FifoInit
BY DEF Init, Link!FifoInit, Stream, UnderWay

\* The queues of a connection together, whatever their capacities, are one
\* FIFO stream per direction, of which a prefix arrives when it breaks
\* (client/network.rs:139-168, server/network.rs:386-416).
THEOREM FifoRefinement == Spec => ConnectionIsFifo
<1>1. IndInv /\ [Next]_vars => [Link!FifoNext]_(Link!fifoVars)
  BY StepIsFifoStep DEF IndInv
<1>. QED
  BY <1>1, InitIsFifoInit, Invariance, PTL DEF Spec, ConnectionIsFifo, Link!FifoSpec

(***************************************************************************)
(* No cycle of waiting tasks                                               *)
(***************************************************************************)

\* An empty round has empty queues, and an empty pending map.
LEMMA NothingUnderWay ==
    ASSUME IndInv, connected, sending = <<>>, commands = <<>>,
           cluster_messages = <<>>, proposals = <<>>,
           \A d \in Directions : /\ incoming[d] = <<>> /\ socket[d] = <<>>
                                 /\ buffer[d] = <<>> /\ outgoing_messages[d] = <<>>
    PROVE  pending = {}
<1>1. UnderWay("to_client") = <<>> /\ UnderWay("to_server") = <<>>
  BY DEF UnderWay, Directions
<1>2. Round = <<>>
  BY <1>1 DEF Round
<1>. QED
  BY <1>2 DEF IndInv, RoundIsPending, Members

\* While the connection holds, whatever is under way has a task that can move
\* it on: the one that takes from the last queue that is not empty.
LEMMA ConnectedIsReady ==
    ASSUME IndInv, connected, pending # {}
    PROVE  SomeTaskIsReady
<1>0. /\ "to_server" \in Directions /\ "to_client" \in Directions
      /\ \A d \in Directions : d = "to_server" \/ d = "to_client"
  BY DEF Directions
<1>1. /\ TypeOK
      /\ \A d \in Directions : writer_task[d]
      /\ server_connection /\ client_connection
  BY DEF IndInv, EndsAreAlive
<1>2. CASE commands # <<>>
  BY <1>2 DEF SomeTaskIsReady, ServerReady, SendReady, HasRoom
<1>3. CASE commands = <<>> /\ (incoming["to_server"] # <<>> \/ cluster_messages # <<>>)
  BY <1>3 DEF SomeTaskIsReady, ServerReady
<1>4. CASE cluster_messages = <<>> /\ proposals # <<>>
  <2>1. Len(cluster_messages) < ChannelCapacity
    BY <1>4
  <2>. QED
    BY <1>4, <2>1 DEF SomeTaskIsReady
<1>5. ASSUME NEW d \in Directions, incoming[d] = <<>>,
             \/ socket[d] # <<>> \/ buffer[d] # <<>> \/ outgoing_messages[d] # <<>>
      PROVE  SomeTaskIsReady
  <2>1. CASE socket[d] # <<>>
    <3>1. Len(incoming[d]) < ChannelCapacity
      BY <1>5
    <3>. QED
      BY <2>1, <3>1 DEF SomeTaskIsReady, ReaderReady
  <2>2. CASE socket[d] = <<>> /\ buffer[d] # <<>>
    <3>1. Len(socket[d]) < SocketCapacity
      BY <2>2
    <3>. QED
      BY <2>2, <3>1 DEF SomeTaskIsReady, WriterReady
  <2>3. CASE buffer[d] = <<>> /\ outgoing_messages[d] # <<>>
    BY <1>1, <2>3 DEF SomeTaskIsReady, WriterReady
  <2>. QED
    BY <1>5, <2>1, <2>2, <2>3
<1>6. CASE sending # <<>> /\ outgoing_messages["to_server"] = <<>>
  <2>1. HasRoom("to_server")
    BY <1>6 DEF HasRoom
  <2>. QED
    BY <1>6, <2>1 DEF SomeTaskIsReady, SendReady
<1>7. CASE sending = <<>> /\ incoming["to_client"] # <<>>
  BY <1>7 DEF SomeTaskIsReady
<1>. QED
  BY <1>0, <1>2, <1>3, <1>4, <1>5, <1>6, <1>7, NothingUnderWay

\* A send that finds no room waits for a writer task that has not ended, so
\* for one that makes room or ends.
LEMMA SendingIsReady ==
    ASSUME IndInv, ~connected, sending # <<>>
    PROVE  SomeTaskIsReady
<1>0. "to_server" \in Directions
  BY DEF Directions
<1>1. CASE SendReady("to_server", server_connection)
  BY <1>1 DEF SomeTaskIsReady
<1>2. CASE ~SendReady("to_server", server_connection)
  <2>1. /\ writer_task["to_server"]
        /\ ~(Len(outgoing_messages["to_server"]) < ChannelCapacity)
    BY <1>2 DEF SendReady, HasRoom
  <2>2. outgoing_messages["to_server"] # <<>>
    BY <2>1
  <2>3. WriterReady("to_server")
    BY <2>1, <2>2 DEF WriterReady
  <2>. QED
    BY <1>0, <2>3 DEF SomeTaskIsReady
<1>. QED
  BY <1>1, <1>2

\* Whatever the capacities and the batches, the tasks of shim, connection and
\* server never all wait for each other (api_shim.rs:97, 107;
\* server/network.rs:333, 399): it is the unbounded queue to the client that
\* lets the server's loop go on.
THEOREM DeadlockFreedom == Spec => []NoWaitingCycle
<1>1. IndInv => NoWaitingCycle
  <2>1. ASSUME IndInv, connected, sending # <<>> PROVE pending # {}
    <3>1. Round \in Seq(CommandIds) /\ sending \in Seq(CommandIds)
      BY <2>1, RoundTypes DEF IndInv, Queue
    <3> DEFINE b == UnderWay("to_client") \o commands \o cluster_messages
                      \o proposals \o UnderWay("to_server")
    <3>2. Round = b \o sending /\ b \in Seq(CommandIds)
      BY <2>1, RoundTypes DEF IndInv, Queue, Round
    <3>. HIDE DEF b
    <3>3. Len(Round) = Len(b) + Len(sending) /\ Len(b) \in Nat /\ Len(sending) > 0
      BY <2>1, <3>1, <3>2
    <3>4. 1 \in DOMAIN Round
      BY <3>1, <3>3
    <3>. QED
      BY <2>1, <3>4 DEF IndInv, RoundIsPending, Members
  <2>. QED
    BY <2>1, ConnectedIsReady, SendingIsReady DEF NoWaitingCycle
<1>. QED
  BY <1>1, Invariance, PTL

(***************************************************************************)
(* Every step is progress                                                  *)
(***************************************************************************)

LEMMA Lengths ==
    ASSUME TypeOK
    PROVE  /\ \A d \in Directions :
                 /\ Len(incoming[d]) \in Nat /\ Len(socket[d]) \in Nat
                 /\ Len(buffer[d]) \in Nat /\ Len(outgoing_messages[d]) \in Nat
           /\ Len(commands) \in Nat /\ Len(cluster_messages) \in Nat
           /\ Len(proposals) \in Nat /\ Len(sending) \in Nat
           /\ MaxCommands - next_request_id \in Nat
BY DEF TypeOK

LEMMA MovesNumbers ==
    ASSUME NEW i \in Nat, NEW s \in Nat, NEW b \in Nat, NEW o \in Nat
    PROVE  /\ Moves(i, s, b, o, 1) = i + 2 * s + 3 * b + 4 * o
           /\ Moves(i, s, b, o, 8) = 8 * i + 9 * s + 10 * b + 11 * o
           /\ Moves(i, s, b, o, 1) \in Nat /\ Moves(i, s, b, o, 8) \in Nat
BY DEF Moves

LEMMA MovesBefore ==
    ASSUME NEW d, Len(incoming[d]) \in Nat, Len(socket[d]) \in Nat,
           Len(buffer[d]) \in Nat, Len(outgoing_messages[d]) \in Nat
    PROVE  /\ MovesOf(d, 1) = Len(incoming[d]) + 2 * Len(socket[d])
                                + 3 * Len(buffer[d]) + 4 * Len(outgoing_messages[d])
           /\ MovesOf(d, 8) = 8 * Len(incoming[d]) + 9 * Len(socket[d])
                                + 10 * Len(buffer[d]) + 11 * Len(outgoing_messages[d])
<1> DEFINE i == Len(incoming[d])
           s == Len(socket[d])
           b == Len(buffer[d])
           o == Len(outgoing_messages[d])
<1>1. /\ MovesOf(d, 1) = Moves(i, s, b, o, 1)
      /\ MovesOf(d, 8) = Moves(i, s, b, o, 8)
  BY DEF MovesOf
<1>2. i \in Nat /\ s \in Nat /\ b \in Nat /\ o \in Nat
  OBVIOUS
<1>. HIDE DEF i, s, b, o
<1>3. /\ MovesOf(d, 1) = i + 2 * s + 3 * b + 4 * o
      /\ MovesOf(d, 8) = 8 * i + 9 * s + 10 * b + 11 * o
  BY <1>1, <1>2, MovesNumbers
<1>. QED
  BY <1>3 DEF i, s, b, o

LEMMA MovesAfter ==
    ASSUME NEW d, Len(incoming'[d]) \in Nat, Len(socket'[d]) \in Nat,
           Len(buffer'[d]) \in Nat, Len(outgoing_messages'[d]) \in Nat
    PROVE  /\ MovesOf(d, 1)' = Len(incoming'[d]) + 2 * Len(socket'[d])
                                + 3 * Len(buffer'[d]) + 4 * Len(outgoing_messages'[d])
           /\ MovesOf(d, 8)' = 8 * Len(incoming'[d]) + 9 * Len(socket'[d])
                                + 10 * Len(buffer'[d]) + 11 * Len(outgoing_messages'[d])
<1> DEFINE i == Len(incoming'[d])
           s == Len(socket'[d])
           b == Len(buffer'[d])
           o == Len(outgoing_messages'[d])
<1>1. /\ MovesOf(d, 1)' = Moves(i, s, b, o, 1)
      /\ MovesOf(d, 8)' = Moves(i, s, b, o, 8)
  BY DEF MovesOf
<1>2. i \in Nat /\ s \in Nat /\ b \in Nat /\ o \in Nat
  OBVIOUS
<1>. HIDE DEF i, s, b, o
<1>3. /\ MovesOf(d, 1)' = i + 2 * s + 3 * b + 4 * o
      /\ MovesOf(d, 8)' = 8 * i + 9 * s + 10 * b + 11 * o
  BY <1>1, <1>2, MovesNumbers
<1>. QED
  BY <1>3 DEF i, s, b, o

LEMMA MovesTypes ==
    ASSUME TypeOK, NEW d \in Directions
    PROVE  MovesOf(d, 1) \in Nat /\ MovesOf(d, 8) \in Nat
BY Lengths, MovesNumbers DEF MovesOf

LEMMA MovesFrame ==
    ASSUME NEW d \in Directions,
           incoming'[d] = incoming[d], socket'[d] = socket[d],
           buffer'[d] = buffer[d], outgoing_messages'[d] = outgoing_messages[d]
    PROVE  MovesOf(d, 1)' = MovesOf(d, 1) /\ MovesOf(d, 8)' = MovesOf(d, 8)
BY DEF MovesOf

\* A batch and the rest of a channel are as long as the channel.
LEMMA BatchLengths ==
    ASSUME NEW S, NEW c, c \in Queue(S)
    PROVE  /\ Len(Batch(c)) \in Nat /\ Len(Rest(c)) \in Nat
           /\ Len(Batch(c)) + Len(Rest(c)) = Len(c)
           /\ c # <<>> => Len(Batch(c)) > 0
<1>1. /\ Len(Batch(c)) \in Nat /\ Len(Batch(c)) \in 0 .. Len(c)
      /\ c # <<>> => Len(Batch(c)) \in 1 .. Len(c)
      /\ Len(c) \in Nat /\ c \in Seq(S)
  BY BatchProperties, QueueLength DEF Cuts, Queue
<1>2. Rest(c) = SubSeq(c, Len(Batch(c)) + 1, Len(c))
  BY DEF Rest
<1> DEFINE k == Len(Batch(c))
<1>. HIDE DEF k
<1>3. Len(SubSeq(c, k + 1, Len(c))) = Len(c) - k
  BY <1>1, SubSeqProperties DEF k
<1>. QED
  BY <1>1, <1>2, <1>3 DEF k

\* A step of a reader or writer task.
LEMMA ConnectionStepMoves ==
    ASSUME TypeOK, NEW d \in Directions, ConnectionStep(d)
    PROVE  /\ MovesOf(d, 1)' \in Nat /\ MovesOf(d, 1)' < MovesOf(d, 1)
           /\ MovesOf(d, 8)' \in Nat /\ MovesOf(d, 8)' < MovesOf(d, 8)
           /\ \A e \in Directions : e # d => /\ MovesOf(e, 1)' = MovesOf(e, 1)
                                             /\ MovesOf(e, 8)' = MovesOf(e, 8)
<1> DEFINE i == Len(incoming[d])
           s == Len(socket[d])
           b == Len(buffer[d])
           o == Len(outgoing_messages[d])
<1>1. i \in Nat /\ s \in Nat /\ b \in Nat /\ o \in Nat
  BY Lengths
<1>2. /\ incoming[d] \in Queue(CommandIds) /\ socket[d] \in Queue(CommandIds)
      /\ buffer[d] \in Queue(CommandIds) /\ outgoing_messages[d] \in Queue(CommandIds)
  BY QueueTypes
<1>3. /\ MovesOf(d, 1) = i + 2 * s + 3 * b + 4 * o
      /\ MovesOf(d, 8) = 8 * i + 9 * s + 10 * b + 11 * o
  BY <1>1, MovesBefore
<1>4. \A e \in Directions : e # d =>
          /\ incoming'[e] = incoming[e] /\ socket'[e] = socket[e]
          /\ buffer'[e] = buffer[e] /\ outgoing_messages'[e] = outgoing_messages[e]
  BY DEF ConnectionStep, TakeBatch, HasBatch, WriteMessage, DrainMessage, EndWriter,
         ReadMessage, TypeOK
<1>5. CASE TakeBatch(d)
  <2> DEFINE j == Len(Batch(outgoing_messages[d]))
             r == Len(Rest(outgoing_messages[d]))
  <2>1. b = 0 /\ j \in Nat /\ r \in Nat /\ j + r = o /\ j > 0
    BY <1>2, <1>5, BatchLengths DEF TakeBatch, HasBatch
  <2>2. /\ Len(incoming'[d]) = i /\ Len(socket'[d]) = s
        /\ Len(buffer'[d]) = j /\ Len(outgoing_messages'[d]) = r
    BY <1>5 DEF TakeBatch, HasBatch, TypeOK
  <2>. HIDE DEF i, s, b, o, j, r
  <2>3. /\ MovesOf(d, 1)' = i + 2 * s + 3 * j + 4 * r
        /\ MovesOf(d, 8)' = 8 * i + 9 * s + 10 * j + 11 * r
    BY <1>1, <2>1, <2>2, MovesAfter
  <2>. QED
    BY <1>1, <1>3, <1>4, <2>1, <2>3, MovesFrame
<1>6. CASE WriteMessage(d)
  <2>1. /\ b - 1 \in Nat /\ Len(incoming'[d]) = i /\ Len(socket'[d]) = s + 1
        /\ Len(buffer'[d]) = b - 1 /\ Len(outgoing_messages'[d]) = o
    BY <1>1, <1>2, <1>6, QueueMove, QueueElements DEF WriteMessage, DrainMessage, TypeOK
  <2> DEFINE t == s + 1
             c == b - 1
  <2>2. t \in Nat /\ c \in Nat
    BY <1>1, <2>1
  <2>. HIDE DEF i, s, b, o, t, c
  <2>3. /\ MovesOf(d, 1)' = i + 2 * t + 3 * c + 4 * o
        /\ MovesOf(d, 8)' = 8 * i + 9 * t + 10 * c + 11 * o
    <3>1. Len(socket'[d]) = t /\ Len(buffer'[d]) = c
      BY <2>1 DEF t, c
    <3>. QED
      BY <1>1, <2>1, <2>2, <3>1, MovesAfter
  <2>. QED
    BY <1>1, <1>3, <1>4, <2>1, <2>3, MovesFrame DEF t, c
<1>7. CASE EndWriter(d)
  <2>1. /\ b > 0 /\ Len(incoming'[d]) = i /\ Len(socket'[d]) = s
        /\ Len(buffer'[d]) = 0 /\ Len(outgoing_messages'[d]) = 0
    BY <1>2, <1>7, QueueElements DEF EndWriter, TypeOK
  <2> DEFINE z == 0
  <2>. HIDE DEF i, s, b, o, z
  <2>2. /\ MovesOf(d, 1)' = i + 2 * s
        /\ MovesOf(d, 8)' = 8 * i + 9 * s
    <3>1. Len(buffer'[d]) = z /\ Len(outgoing_messages'[d]) = z
      BY <2>1 DEF z
    <3>2. /\ MovesOf(d, 1)' = i + 2 * s + 3 * z + 4 * z
          /\ MovesOf(d, 8)' = 8 * i + 9 * s + 10 * z + 11 * z
      <4>1. z \in Nat
        BY DEF z
      <4>. QED
        BY <1>1, <2>1, <3>1, <4>1, MovesAfter
    <3>. QED
      BY <1>1, <3>2 DEF z
  <2>. QED
    BY <1>1, <1>3, <1>4, <2>1, <2>2, MovesFrame
<1>8. CASE ReadMessage(d)
  <2>1. /\ s - 1 \in Nat /\ Len(incoming'[d]) = i + 1 /\ Len(socket'[d]) = s - 1
        /\ Len(buffer'[d]) = b /\ Len(outgoing_messages'[d]) = o
    BY <1>1, <1>2, <1>8, QueueMove, QueueElements DEF ReadMessage, TypeOK
  <2> DEFINE j == i + 1
             t == s - 1
  <2>2. j \in Nat /\ t \in Nat
    BY <1>1, <2>1
  <2>. HIDE DEF i, s, b, o, j, t
  <2>3. /\ MovesOf(d, 1)' = j + 2 * t + 3 * b + 4 * o
        /\ MovesOf(d, 8)' = 8 * j + 9 * t + 10 * b + 11 * o
    <3>1. Len(incoming'[d]) = j /\ Len(socket'[d]) = t
      BY <2>1 DEF j, t
    <3>. QED
      BY <1>1, <2>1, <2>2, <3>1, MovesAfter
  <2>. QED
    BY <1>1, <1>3, <1>4, <2>1, <2>3, MovesFrame DEF j, t
<1>. QED
  BY <1>5, <1>6, <1>7, <1>8 DEF ConnectionStep

\* A message that enters the channel of a direction has four moves before it
\* is taken out of the direction.
LEMMA EnterChannelMoves ==
    ASSUME TypeOK, NEW d \in Directions, NEW id \in CommandIds,
           \/ EnterChannel(d, id)
           \/ UNCHANGED outgoing_messages,
           UNCHANGED <<buffer, socket, incoming>>
    PROVE  /\ MovesOf(d, 1)' \in Nat /\ MovesOf(d, 1)' <= MovesOf(d, 1) + 4
           /\ MovesOf(d, 8)' \in Nat /\ MovesOf(d, 8)' <= MovesOf(d, 8) + 11
           /\ \A e \in Directions : e # d => /\ MovesOf(e, 1)' = MovesOf(e, 1)
                                             /\ MovesOf(e, 8)' = MovesOf(e, 8)
<1> DEFINE i == Len(incoming[d])
           s == Len(socket[d])
           b == Len(buffer[d])
           o == Len(outgoing_messages[d])
<1>1. i \in Nat /\ s \in Nat /\ b \in Nat /\ o \in Nat
  BY Lengths
<1>2. /\ MovesOf(d, 1) = i + 2 * s + 3 * b + 4 * o
      /\ MovesOf(d, 8) = 8 * i + 9 * s + 10 * b + 11 * o
  BY <1>1, MovesBefore
<1>3. CASE EnterChannel(d, id)
  <2>1. /\ Len(incoming'[d]) = i /\ Len(socket'[d]) = s
        /\ Len(buffer'[d]) = b /\ Len(outgoing_messages'[d]) = o + 1
    BY <1>3, QueueTypes, QueueAppend DEF EnterChannel, TypeOK
  <2>2. \A e \in Directions : e # d =>
            outgoing_messages'[e] = outgoing_messages[e]
    BY <1>3 DEF EnterChannel, TypeOK
  <2> DEFINE w == o + 1
  <2>3. w \in Nat
    BY <1>1
  <2>. HIDE DEF i, s, b, o, w
  <2>4. /\ MovesOf(d, 1)' = i + 2 * s + 3 * b + 4 * w
        /\ MovesOf(d, 8)' = 8 * i + 9 * s + 10 * b + 11 * w
    <3>1. Len(outgoing_messages'[d]) = w
      BY <2>1 DEF w
    <3>. QED
      BY <1>1, <2>1, <2>3, <3>1, MovesAfter
  <2>. QED
    BY <1>1, <1>2, <2>2, <2>4, MovesFrame DEF w
<1>4. CASE UNCHANGED outgoing_messages
  BY <1>4, MovesTypes, MovesFrame
<1>. QED
  BY <1>3, <1>4

\* What is taken of the incoming messages had a move left, or eight.
LEMMA TakeIncomingMoves ==
    ASSUME TypeOK, NEW d \in Directions, NEW q, NEW j \in Nat,
           Len(q) \in Nat, Len(q) + j = Len(incoming[d]),
           incoming' = [incoming EXCEPT ![d] = q],
           UNCHANGED <<outgoing_messages, buffer, socket>>
    PROVE  /\ MovesOf(d, 1)' \in Nat /\ MovesOf(d, 1)' + j = MovesOf(d, 1)
           /\ MovesOf(d, 8)' \in Nat /\ MovesOf(d, 8)' + 8 * j = MovesOf(d, 8)
           /\ \A e \in Directions : e # d => /\ MovesOf(e, 1)' = MovesOf(e, 1)
                                             /\ MovesOf(e, 8)' = MovesOf(e, 8)
<1> DEFINE i == Len(q)
           s == Len(socket[d])
           b == Len(buffer[d])
           o == Len(outgoing_messages[d])
<1>1. i \in Nat /\ s \in Nat /\ b \in Nat /\ o \in Nat
  BY Lengths
<1>2. /\ Len(incoming'[d]) = i /\ Len(socket'[d]) = s
      /\ Len(buffer'[d]) = b /\ Len(outgoing_messages'[d]) = o
      /\ Len(incoming[d]) = i + j
      /\ \A e \in Directions : e # d => incoming'[e] = incoming[e]
  BY DEF TypeOK
<1> DEFINE m == Len(incoming[d])
<1>3. /\ MovesOf(d, 1) = m + 2 * s + 3 * b + 4 * o
      /\ MovesOf(d, 8) = 8 * m + 9 * s + 10 * b + 11 * o
      /\ m = i + j
  BY <1>1, <1>2, Lengths, MovesBefore
<1>. HIDE DEF i, s, b, o, m
<1>4. /\ MovesOf(d, 1)' = i + 2 * s + 3 * b + 4 * o
      /\ MovesOf(d, 8)' = 8 * i + 9 * s + 10 * b + 11 * o
  BY <1>1, <1>2, MovesAfter
<1>5. /\ MovesOf(d, 1)' \in Nat /\ MovesOf(d, 1)' + j = MovesOf(d, 1)
      /\ MovesOf(d, 8)' \in Nat /\ MovesOf(d, 8)' + 8 * j = MovesOf(d, 8)
  BY <1>1, <1>3, <1>4
<1>6. \A e \in Directions : e # d => /\ MovesOf(e, 1)' = MovesOf(e, 1)
                                    /\ MovesOf(e, 8)' = MovesOf(e, 8)
  BY <1>2, MovesFrame
<1>. QED
  BY <1>5, <1>6

\* A broken connection loses what was written, and nothing else.
LEMMA BreakConnectionMoves ==
    ASSUME TypeOK, NEW d \in Directions, BreakConnection
    PROVE  /\ MovesOf(d, 1)' <= MovesOf(d, 1) /\ MovesOf(d, 8)' <= MovesOf(d, 8)
<1> DEFINE i == Len(incoming[d])
           s == Len(socket[d])
           b == Len(buffer[d])
           o == Len(outgoing_messages[d])
           z == Len(socket'[d])
<1>1. i \in Nat /\ s \in Nat /\ b \in Nat /\ o \in Nat /\ z \in Nat /\ z = 0
  BY Lengths DEF BreakConnection
<1>2. /\ Len(incoming'[d]) = i /\ Len(buffer'[d]) = b
      /\ Len(outgoing_messages'[d]) = o
  BY DEF BreakConnection
<1>3. /\ MovesOf(d, 1) = i + 2 * s + 3 * b + 4 * o
      /\ MovesOf(d, 8) = 8 * i + 9 * s + 10 * b + 11 * o
  BY <1>1, MovesBefore
<1>4. /\ MovesOf(d, 1)' = i + 2 * z + 3 * b + 4 * o
      /\ MovesOf(d, 8)' = 8 * i + 9 * z + 10 * b + 11 * o
  BY <1>1, <1>2, MovesAfter
<1>. HIDE DEF i, s, b, o, z
<1>. QED
  BY <1>1, <1>3, <1>4

\* Each action takes more from MovesLeft than it adds.
LEMMA ProgressStep ==
    ASSUME TypeOK, TypeOK', Next
    PROVE  MovesLeft' \in Nat /\ MovesLeft' < MovesLeft
<1> DEFINE c == IF connected THEN 1 ELSE 0
           A == MovesOf("to_client", 1)
           k == Len(commands)
           m == Len(cluster_messages)
           p == Len(proposals)
           B == MovesOf("to_server", 8)
           s == Len(sending)
           n == MaxCommands - next_request_id
           c2 == IF connected' THEN 1 ELSE 0
           A2 == MovesOf("to_client", 1)'
           k2 == Len(commands')
           m2 == Len(cluster_messages')
           p2 == Len(proposals')
           B2 == MovesOf("to_server", 8)'
           s2 == Len(sending')
           n2 == MaxCommands - next_request_id'
<1>0. /\ "to_client" \in Directions /\ "to_server" \in Directions
      /\ "to_client" # "to_server"
  BY DEF Directions
<1>1. /\ c \in Nat /\ A \in Nat /\ k \in Nat /\ m \in Nat
      /\ p \in Nat /\ B \in Nat /\ s \in Nat /\ n \in Nat
  BY <1>0, Lengths, MovesTypes
<1>2. /\ c2 \in Nat /\ A2 \in Nat /\ k2 \in Nat /\ m2 \in Nat
      /\ p2 \in Nat /\ B2 \in Nat /\ s2 \in Nat /\ n2 \in Nat
  <2>1. A2 \in Nat /\ B2 \in Nat
    <3>1. \A d \in Directions :
              /\ Len(incoming'[d]) \in Nat /\ Len(socket'[d]) \in Nat
              /\ Len(buffer'[d]) \in Nat /\ Len(outgoing_messages'[d]) \in Nat
      <4>1. \A d \in Directions :
                /\ incoming'[d] \in Seq(CommandIds)
                /\ socket'[d] \in Seq(CommandIds)
                /\ buffer'[d] \in Seq(CommandIds)
                /\ outgoing_messages'[d] \in Seq(CommandIds)
        BY DEF TypeOK
      <4>. QED
        BY <4>1
    <3>2. ASSUME NEW d \in Directions
          PROVE  MovesOf(d, 1)' \in Nat /\ MovesOf(d, 8)' \in Nat
      <4> DEFINE x == Len(incoming'[d])
                 y == Len(socket'[d])
                 z == Len(buffer'[d])
                 w == Len(outgoing_messages'[d])
      <4>1. x \in Nat /\ y \in Nat /\ z \in Nat /\ w \in Nat
        BY <3>1
      <4>2. /\ MovesOf(d, 1)' = x + 2 * y + 3 * z + 4 * w
            /\ MovesOf(d, 8)' = 8 * x + 9 * y + 10 * z + 11 * w
        BY <4>1, MovesAfter
      <4>. HIDE DEF x, y, z, w
      <4>. QED
        BY <4>1, <4>2
    <3>. QED
      BY <1>0, <3>2
  <2>2. /\ k2 \in Nat /\ m2 \in Nat /\ p2 \in Nat /\ s2 \in Nat /\ n2 \in Nat
    <3>1. /\ commands' \in Seq(CommandIds) /\ cluster_messages' \in Seq(CommandIds)
          /\ proposals' \in Seq(CommandIds) /\ sending' \in Seq(CommandIds)
      BY DEF TypeOK
    <3>2. next_request_id' \in 0 .. MaxCommands
      BY DEF TypeOK
    <3>3. n2 \in Nat
      <4>1. \A x \in 0 .. MaxCommands : MaxCommands - x \in Nat
        OBVIOUS
      <4>. QED
        BY <3>2, <4>1
    <3>4. k2 \in Nat /\ m2 \in Nat /\ p2 \in Nat /\ s2 \in Nat
      BY <3>1
    <3>. HIDE DEF k2, m2, p2, s2, n2
    <3>. QED
      BY <3>3, <3>4
  <2>3. c2 \in Nat
    OBVIOUS
  <2>. HIDE DEF c2, A2, k2, m2, p2, B2, s2, n2
  <2>. QED
    BY <2>1, <2>2, <2>3
<1>3. /\ MovesLeft = c + A + 5 * k + 6 * m + 7 * p + B + 12 * s + 13 * n
      /\ MovesLeft' = c2 + A2 + 5 * k2 + 6 * m2 + 7 * p2 + B2 + 12 * s2 + 13 * n2
  BY DEF MovesLeft
<1>4. MovesLeft' \in Nat
  <2>. HIDE DEF c2, A2, k2, m2, p2, B2, s2, n2
  <2>. QED
    BY <1>2, <1>3
<1>5. UNCHANGED connectionVars => c2 = c /\ A2 = A /\ B2 = B
  BY <1>0, MovesFrame DEF connectionVars
<1>6. CASE TakeCommand
  <2>1. /\ c2 = c /\ A2 = A /\ B2 = B /\ k2 = k /\ m2 = m /\ p2 = p
        /\ s2 = 1 /\ s = 0 /\ n2 = n - 1
    BY <1>5, <1>6 DEF TakeCommand, serverVars, TypeOK
  <2>. HIDE DEF c, A, k, m, p, B, s, n, c2, A2, k2, m2, p2, B2, s2, n2
  <2>. QED
    BY <1>1, <1>2, <1>3, <1>4, <2>1
<1>7. CASE SendCommand
  <2>1. /\ Head(sending) \in CommandIds
        /\ s \in Nat \ {0} /\ s2 = 0
    BY <1>7, QueueElements DEF SendCommand, TypeOK, Queue
  <2>2. /\ \/ EnterChannel("to_server", Head(sending))
           \/ UNCHANGED outgoing_messages
        /\ UNCHANGED <<buffer, socket, incoming>>
        /\ c2 = c /\ k2 = k /\ m2 = m /\ p2 = p /\ n2 = n
    BY <1>7 DEF SendCommand, serverVars
  <2>3. A2 = A /\ B2 <= B + 11
    BY <1>0, <2>1, <2>2, EnterChannelMoves
  <2>. HIDE DEF c, A, k, m, p, B, s, n, c2, A2, k2, m2, p2, B2, s2, n2
  <2>. QED
    BY <1>1, <1>2, <1>3, <1>4, <2>1, <2>2, <2>3
<1>8. CASE TakeResponse
  <2> DEFINE inc == incoming["to_client"]
  <2>1. /\ inc # <<>> /\ inc \in Queue(CommandIds)
        /\ incoming' = [incoming EXCEPT !["to_client"] = Tail(inc)]
        /\ UNCHANGED <<outgoing_messages, buffer, socket>>
        /\ c2 = c /\ k2 = k /\ m2 = m /\ p2 = p /\ n2 = n /\ s2 = s
    BY <1>8, <1>0, QueueTypes DEF TakeResponse, serverVars
  <2>2. Len(Tail(inc)) \in Nat /\ Len(Tail(inc)) + 1 = Len(inc)
    BY <2>1, QueueElements
  <2>3. A2 + 1 = A /\ B2 = B
    BY <1>0, <2>1, <2>2, TakeIncomingMoves
  <2>. HIDE DEF c, A, k, m, p, B, s, n, c2, A2, k2, m2, p2, B2, s2, n2
  <2>. QED
    BY <1>1, <1>2, <1>3, <1>4, <2>1, <2>3
<1>9. ASSUME NEW d \in Directions, ConnectionStep(d)
      PROVE  MovesLeft' < MovesLeft
  <2>1. c2 = c /\ k2 = k /\ m2 = m /\ p2 = p /\ n2 = n /\ s2 = s
    BY <1>9 DEF ConnectionStep, TakeBatch, HasBatch, WriteMessage, DrainMessage,
                EndWriter, ReadMessage,
                shimVars, serverVars
  <2>2. \/ A2 < A /\ B2 = B
        \/ A2 = A /\ B2 < B
    <3>1. CASE d = "to_client"
      BY <1>0, <1>9, <3>1, ConnectionStepMoves
    <3>2. CASE d = "to_server"
      BY <1>0, <1>9, <3>2, ConnectionStepMoves
    <3>. QED
      BY <3>1, <3>2 DEF Directions
  <2>. HIDE DEF c, A, k, m, p, B, s, n, c2, A2, k2, m2, p2, B2, s2, n2
  <2>. QED
    BY <1>1, <1>2, <1>3, <2>1, <2>2
<1>10. CASE BreakConnection
  <2>1. /\ c = 1 /\ c2 = 0
        /\ k2 = k /\ m2 = m /\ p2 = p /\ n2 = n /\ s2 = s
    BY <1>10 DEF BreakConnection, shimVars, serverVars
  <2>2. A2 <= A /\ B2 <= B
    BY <1>0, <1>10, BreakConnectionMoves
  <2>. HIDE DEF c, A, k, m, p, B, s, n, c2, A2, k2, m2, p2, B2, s2, n2
  <2>. QED
    BY <1>1, <1>2, <1>3, <1>4, <2>1, <2>2
<1>11. CASE HandleClientMessages
  <2> DEFINE inc == incoming["to_server"]
             j   == Len(Batch(inc))
  <2>1. /\ inc # <<>> /\ inc \in Queue(CommandIds)
        /\ incoming' = [incoming EXCEPT !["to_server"] = Rest(inc)]
        /\ proposals' = proposals \o Batch(inc)
        /\ UNCHANGED <<outgoing_messages, buffer, socket>>
        /\ c2 = c /\ k2 = k /\ m2 = m /\ n2 = n /\ s2 = s
    BY <1>11, <1>0, QueueTypes DEF HandleClientMessages, shimVars
  <2>2. /\ j \in Nat /\ j > 0 /\ Len(Rest(inc)) \in Nat
        /\ Len(Rest(inc)) + j = Len(inc)
    <3>. HIDE DEF inc
    <3>. QED
      BY <2>1, BatchLengths
  <2>3. A2 = A /\ B2 + 8 * j = B
    BY <1>0, <2>1, <2>2, TakeIncomingMoves
  <2>4. p2 = p + j
    <3>1. proposals \in Seq(CommandIds) /\ Batch(inc) \in Seq(CommandIds)
      BY <2>1, BatchProperties DEF TypeOK, Queue
    <3>. QED
      BY <2>1, <3>1
  <2>. HIDE DEF c, A, k, m, p, B, s, n, c2, A2, k2, m2, p2, B2, s2, n2, j
  <2>. QED
    BY <1>1, <1>2, <1>3, <1>4, <2>1, <2>2, <2>3, <2>4
<1>12. CASE Decide
  <2>1. /\ p2 = p - 1 /\ m2 = m + 1
        /\ UNCHANGED connectionVars /\ k2 = k /\ n2 = n /\ s2 = s
    <3>1. /\ proposals \in Queue(CommandIds) /\ proposals # <<>>
          /\ cluster_messages \in Queue(CommandIds)
      BY <1>12 DEF Decide, TypeOK, Queue
    <3>2. /\ Len(Append(cluster_messages, Head(proposals))) = m + 1
          /\ Len(Tail(proposals)) = p - 1
      BY <3>1, QueueMove
    <3>. QED
      BY <1>12, <3>2 DEF Decide, shimVars
  <2>2. c2 = c /\ A2 = A /\ B2 = B
    BY <1>5, <2>1
  <2>. HIDE DEF c, A, k, m, p, B, s, n, c2, A2, k2, m2, p2, B2, s2, n2
  <2>. QED
    BY <1>1, <1>2, <1>3, <1>4, <2>1, <2>2
<1>13. CASE HandleClusterMessages
  <2> DEFINE j == Len(Batch(cluster_messages))
  <2>1. /\ k = 0 /\ k2 = j /\ m2 = Len(Rest(cluster_messages))
        /\ UNCHANGED connectionVars /\ p2 = p /\ n2 = n /\ s2 = s
    BY <1>13 DEF HandleClusterMessages, shimVars
  <2>2. j \in Nat /\ j > 0 /\ j + Len(Rest(cluster_messages)) = m
    <3>1. cluster_messages \in Queue(CommandIds) /\ cluster_messages # <<>>
      BY <1>13 DEF HandleClusterMessages, TypeOK, Queue
    <3>. QED
      BY <3>1, BatchLengths
  <2>3. c2 = c /\ A2 = A /\ B2 = B
    BY <1>5, <2>1
  <2>4. m2 + j = m
    BY <1>2, <2>1, <2>2
  <2>. HIDE DEF c, A, k, m, p, B, s, n, c2, A2, k2, m2, p2, B2, s2, n2, j
  <2>. QED
    BY <1>1, <1>2, <1>3, <1>4, <2>1, <2>2, <2>3, <2>4
<1>14. CASE UpdateDatabaseAndRespond
  <2>1. /\ Head(commands) \in CommandIds /\ k2 = k - 1
    BY <1>14, QueueElements DEF UpdateDatabaseAndRespond, TypeOK, Queue
  <2>2. /\ \/ EnterChannel("to_client", Head(commands))
           \/ UNCHANGED outgoing_messages
        /\ UNCHANGED <<buffer, socket, incoming>>
        /\ c2 = c /\ m2 = m /\ p2 = p /\ n2 = n /\ s2 = s
    BY <1>14 DEF UpdateDatabaseAndRespond, shimVars
  <2>3. A2 <= A + 4 /\ B2 = B
    BY <1>0, <2>1, <2>2, EnterChannelMoves
  <2>. HIDE DEF c, A, k, m, p, B, s, n, c2, A2, k2, m2, p2, B2, s2, n2
  <2>. QED
    BY <1>1, <1>2, <1>3, <1>4, <2>1, <2>2, <2>3
<1>. QED
  BY <1>4, <1>6, <1>7, <1>8, <1>9, <1>10, <1>11, <1>12, <1>13, <1>14
     DEF Next, ShimStep, ServerStep

\* Every step of every task takes a message further or loses it, for queues of
\* any capacity: no message goes round for ever, and a run in which the
\* handlers pass on finitely many commands is finite (api_shim.rs:83-130,
\* client/network.rs:131-175, server/network.rs:378-423, server.rs:58-74).
THEOREM Progress == Spec => EveryStepIsProgress
<1>1. IndInv /\ IndInv' /\ [Next]_vars =>
          [MovesLeft' \in Nat /\ MovesLeft' < MovesLeft]_vars
  BY ProgressStep DEF IndInv
<1>. QED
  BY <1>1, Invariance, PTL DEF Spec, EveryStepIsProgress

=============================================================================
