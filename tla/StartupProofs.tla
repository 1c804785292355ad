--------------------------- MODULE StartupProofs ---------------------------
(***************************************************************************)
(* Theorems about Startup, for any set of nodes, any number of clients and *)
(* any number of deaths and starts of the processes.                       *)
(***************************************************************************)
EXTENDS Startup, SequenceTheorems, FiniteSetTheorems, TLAPS

\* These only group variables.
USE DEF connectorVars, clientVars

(***************************************************************************)
(* The inductive invariant                                                 *)
(***************************************************************************)

\* A process that died holds no connection.
DeadHoldsNothing ==
    \A n \in Nodes : phase[n] = "off" =>
        /\ \A p \in Nodes : peer_connections[n][p] = 0
        /\ handshakes[n] = {} /\ dialing[n] = {} /\ dialled[n] = {}

\* A server that runs has a number, so a connection to it is not "none".
RunningHasStarted == \A n \in Nodes : phase[n] # "off" => incarnation[n] # 0

\* Connectors dial peers of smaller id, and reach processes that were started.
ConnectorsDialDown ==
    \A n \in Nodes :
        /\ dialing[n] \subseteq PeersToDial(n)
        /\ \A q \in dialled[n] :
              q.node < n /\ q.start # 0 /\ q.start <= incarnation[q.node]

\* Network::new has resolved only with all its connections.
OperationIsComplete ==
    \A n \in Nodes : InOperation(n) =>
        /\ \A p \in Peers(n) : peer_connections[n][p] # 0
        /\ Cardinality(client_connections[n]) >= NumClients

\* A peer that was in operation when n started has died since, or has left
\* the phase of connecting for good.
RanBeforeHasConnected ==
    \A n \in Nodes : \A q \in ran_before[n] :
        /\ q.node # n
        /\ q.start <= incarnation[q.node]
        /\ q.start = incarnation[q.node] => phase[q.node] # "connecting"

\* Who dials n started after the processes that ran before n.
DialersAreYounger ==
    \A n \in Nodes : \A h \in handshakes[n] :
        /\ h.start <= incarnation[h.node]
        /\ \A q \in ran_before[n] : q.node = h.node => q.start < h.start

\* A server has reached, and is connected to, only nodes whose present
\* process, if any, was not in operation before it.
ConnectedDidNotRun ==
    \A n, p \in Nodes :
        peer_connections[n][p] # 0 \/ (\E q \in dialled[n] : q.node = p)
        => Process(p) \notin ran_before[n]

\* Nothing that follows the promotion happens before it.
EffectsFollowPromotion ==
    /\ signals # {} => promoted
    /\ \A n \in Nodes :
        \/ phase[n] = "serving" \/ leadership[n] = "accept"
        \/ start_signals[n] # {} \/ shim_phase[n] = "started"
        => promoted

IndInv ==
    /\ TypeOK
    /\ DeadHoldsNothing
    /\ RunningHasStarted
    /\ ConnectorsDialDown
    /\ OperationIsComplete
    /\ RanBeforeHasConnected
    /\ DialersAreYounger
    /\ ConnectedDidNotRun
    /\ EffectsFollowPromotion

(***************************************************************************)
(* Lemmas about the operators                                              *)
(***************************************************************************)

\* The clients that send_client_start_signals addresses are connected.
LEMMA StartedClientsConnected ==
    ASSUME TypeOK, NEW n \in Nodes, SendClientStartSignals(n)
    PROVE  start_signals' \in [Nodes -> SUBSET Nat]
<1>1. client_ids[n] \in Seq(Nat) /\ client_connections[n] \subseteq DOMAIN client_ids[n]
  BY DEF TypeOK, ClientsTypeOK
<1>2. \A id \in client_connections[n] : client_ids[n][id] \in Nat
  BY <1>1
<1>3. {client_ids[n][id] : id \in StartedClientIds \cap client_connections[n]} \subseteq Nat
  BY <1>2
<1>. QED
  BY <1>3 DEF TypeOK, SignalsTypeOK, SendClientStartSignals

\* A LeaderStartSignal goes from a process to a process.
LEMMA ClusterStartSignalsType ==
    ASSUME TypeOK, NEW n \in Nodes, SendClusterStartSignals(n)
    PROVE  signals' \in SUBSET Signals
<1>1. \A p \in Peers(n) : peer_connections[n][p] \in Nat /\ incarnation[n] \in Nat
  BY DEF TypeOK, ServersTypeOK, PeersTypeOK, Peers
<1>2. signals \subseteq Signals
  BY DEF TypeOK, SignalsTypeOK
<1>. QED
  BY <1>1, <1>2 DEF SendClusterStartSignals, Signals, Processes, Process, Peers

\* At the end of an iteration of initialize_connections a server goes on
\* only with all the connections it waits for.
LEMMA CompleteConnectionsPhase ==
    ASSUME TypeOK, NEW n \in Nodes, NEW conns, NEW clients,
           Listening(n), CompleteConnections(n, conns, clients)
    PROVE  /\ phase' \in [Nodes -> Phases]
           /\ phase'[n] \in {"connecting", "electing"}
           /\ \A m \in Nodes : m # n => phase'[m] = phase[m]
           /\ phase'[n] # "connecting" =>
                  (\A p \in Peers(n) : conns[p] # 0) /\ Cardinality(clients) >= NumClients
BY DEF TypeOK, ServersTypeOK, CompleteConnections, Phases, Listening

(***************************************************************************)
(* The invariant holds initially                                           *)
(***************************************************************************)
LEMMA InitIndInv == Init => IndInv
<1>. SUFFICES ASSUME Init PROVE IndInv
  OBVIOUS
<1>1. TypeOK
  <2>1. ServersTypeOK
    BY DEF Init, ServersTypeOK, Phases
  <2>2. PeersTypeOK
    BY DEF Init, PeersTypeOK
  <2>3. ClientsTypeOK /\ SignalsTypeOK
    BY DEF Init, ClientsTypeOK, SignalsTypeOK, ShimPhases
  <2>. QED
    BY <2>1, <2>2, <2>3 DEF TypeOK
<1>2. /\ DeadHoldsNothing /\ RunningHasStarted /\ ConnectorsDialDown
      /\ OperationIsComplete /\ RanBeforeHasConnected
  BY DEF Init, DeadHoldsNothing, RunningHasStarted, ConnectorsDialDown,
         OperationIsComplete, RanBeforeHasConnected, InOperation
<1>3. DialersAreYounger /\ ConnectedDidNotRun /\ EffectsFollowPromotion
  BY DEF Init, DialersAreYounger, ConnectedDidNotRun, EffectsFollowPromotion
<1>. QED
  BY <1>1, <1>2, <1>3 DEF IndInv

(***************************************************************************)
(* Processes start and die                                                 *)
(***************************************************************************)

\* A process starts with nothing, after all that were in operation before it.
LEMMA StartServerStep ==
    ASSUME IndInv, NEW n \in Nodes, StartServer(n)
    PROVE  IndInv'
<1>1. /\ phase[n] = "off"
      /\ UNCHANGED <<dialled, peer_connections, handshakes, readers, unheard,
                     clientVars, leadership, signals, promoted>>
      /\ UNCHANGED <<shimVars, setup_done>>
  BY DEF StartServer
<1>2. \A m \in Nodes : /\ incarnation[m] \in Nat
                       /\ m = n => incarnation'[m] = incarnation[m] + 1
                       /\ m # n => incarnation'[m] = incarnation[m]
  BY DEF IndInv, TypeOK, ServersTypeOK, StartServer
<1>3. phase'[n] = "connecting" /\ \A m \in Nodes : m # n => phase'[m] = phase[m]
  BY DEF IndInv, TypeOK, ServersTypeOK, StartServer
<1>4. \A m \in Nodes : m # n => ran_before'[m] = ran_before[m]
  BY DEF IndInv, TypeOK, ServersTypeOK, StartServer
<1>5. \A q \in ran_before'[n] :
          q.node \in Nodes /\ q.node # n /\ q = Process(q.node) /\ InOperation(q.node)
  <2>1. ran_before'[n] = {Process(p) : p \in {q \in Nodes : InOperation(q)}}
    BY DEF IndInv, TypeOK, ServersTypeOK, StartServer
  <2>. QED
    BY <1>1, <2>1 DEF Process, InOperation
<1>6. \A m \in Nodes : \A q \in ran_before[m] \cup handshakes[m] :
          q.node \in Nodes /\ q.start \in Nat
  BY DEF IndInv, TypeOK, ServersTypeOK, PeersTypeOK, Processes
<1>7. TypeOK'
  <2>1. ServersTypeOK'
    BY DEF IndInv, TypeOK, ServersTypeOK, StartServer, Phases, Processes, Process
  <2>2. PeersTypeOK'
    BY <1>1 DEF IndInv, TypeOK, PeersTypeOK, StartServer, PeersToDial
  <2>3. ClientsTypeOK' /\ SignalsTypeOK'
    BY <1>1 DEF IndInv, TypeOK, ClientsTypeOK, SignalsTypeOK, shimVars
  <2>. QED
    BY <2>1, <2>2, <2>3 DEF TypeOK
<1>8. /\ DeadHoldsNothing' /\ RunningHasStarted' /\ ConnectorsDialDown'
      /\ OperationIsComplete'
  <2>1. \A m \in Nodes : dialing'[m] = IF m = n THEN PeersToDial(n) ELSE dialing[m]
    BY DEF IndInv, TypeOK, PeersTypeOK, StartServer
  <2>2. DeadHoldsNothing' /\ OperationIsComplete'
    BY <1>1, <1>3, <2>1 DEF IndInv, DeadHoldsNothing, OperationIsComplete, InOperation
  <2>3. RunningHasStarted'
    BY <1>2, <1>3 DEF IndInv, RunningHasStarted
  <2>4. ConnectorsDialDown'
    <3>1. \A m \in Nodes : \A q \in dialled[m] : q.node \in Nodes /\ q.start \in Nat
      BY DEF IndInv, TypeOK, PeersTypeOK, Processes
    <3>2. \A m \in Nodes : incarnation[m] <= incarnation'[m] /\ incarnation'[m] \in Nat
      BY <1>2
    <3>3. \A m \in Nodes : dialing'[m] \subseteq PeersToDial(m)
      BY <2>1 DEF IndInv, ConnectorsDialDown
    <3>4. \A m \in Nodes : \A q \in dialled[m] :
              q.node < m /\ q.start # 0 /\ q.start <= incarnation'[q.node]
      BY <1>2, <3>1, <3>2 DEF IndInv, ConnectorsDialDown
    <3>. QED
      BY <1>1, <3>3, <3>4 DEF ConnectorsDialDown, PeersToDial
  <2>. QED
    BY <2>2, <2>3, <2>4
<1>9. RanBeforeHasConnected'
  <2>. SUFFICES ASSUME NEW m \in Nodes, NEW q \in ran_before'[m]
                PROVE  /\ q.node # m
                       /\ q.start <= incarnation'[q.node]
                       /\ q.start = incarnation'[q.node] => phase'[q.node] # "connecting"
    BY DEF RanBeforeHasConnected
  <2>1. CASE m = n
    BY <1>2, <1>3, <1>5, <2>1 DEF Process, InOperation
  <2>2. CASE m # n
    <3>1. q \in ran_before[m] /\ q.node \in Nodes /\ q.start \in Nat
      BY <1>4, <1>6, <2>2
    <3>2. /\ q.node # m
          /\ q.start <= incarnation[q.node]
          /\ q.start = incarnation[q.node] => phase[q.node] # "connecting"
      BY <3>1 DEF IndInv, RanBeforeHasConnected
    <3>. QED
      <4>1. CASE q.node = n
        <5>1. incarnation'[n] = incarnation[n] + 1 /\ incarnation[n] \in Nat
          BY <1>2
        <5>. QED
          BY <3>1, <3>2, <4>1, <5>1
      <4>2. CASE q.node # n
        <5>1. /\ incarnation'[q.node] = incarnation[q.node]
              /\ phase'[q.node] = phase[q.node]
          BY <1>2, <1>3, <3>1, <4>2
        <5>. QED
          BY <3>2, <5>1
      <4>. QED
        BY <4>1, <4>2
  <2>. QED
    BY <2>1, <2>2
<1>10. DialersAreYounger'
  <2>. SUFFICES ASSUME NEW m \in Nodes, NEW h \in handshakes'[m]
                PROVE  /\ h.start <= incarnation'[h.node]
                       /\ \A q \in ran_before'[m] : q.node = h.node => q.start < h.start
    BY DEF DialersAreYounger
  <2>1. m # n /\ h \in handshakes[m]
    BY <1>1 DEF IndInv, DeadHoldsNothing
  <2>2. h.node \in Nodes /\ h.start \in Nat
    BY <1>6, <2>1
  <2>3. /\ h.start <= incarnation[h.node]
        /\ \A q \in ran_before[m] : q.node = h.node => q.start < h.start
    BY <2>1 DEF IndInv, DialersAreYounger
  <2>4. incarnation[h.node] <= incarnation'[h.node] /\ incarnation[h.node] \in Nat
        /\ incarnation'[h.node] \in Nat
    BY <1>2, <2>2
  <2>5. ran_before'[m] = ran_before[m]
    BY <1>4, <2>1
  <2>. QED
    BY <2>2, <2>3, <2>4, <2>5
<1>11. ConnectedDidNotRun'
  <2>. SUFFICES ASSUME NEW m \in Nodes, NEW p \in Nodes,
                       peer_connections[m][p] # 0 \/ \E q \in dialled[m] : q.node = p
                PROVE  Process(p)' \notin ran_before'[m]
    BY <1>1 DEF ConnectedDidNotRun
  <2>1. m # n /\ ran_before'[m] = ran_before[m]
    BY <1>1, <1>4 DEF IndInv, DeadHoldsNothing
  <2>2. CASE p = n
    <3>1. Process(n)' = [node |-> n, start |-> incarnation[n] + 1]
      BY <1>2 DEF Process
    <3>2. \A q \in ran_before[m] : q.node = n => q.start <= incarnation[n]
      BY DEF IndInv, RanBeforeHasConnected
    <3>. QED
      BY <1>2, <2>1, <2>2, <3>1, <3>2
  <2>3. CASE p # n
    BY <1>2, <2>1, <2>3 DEF IndInv, ConnectedDidNotRun, Process
  <2>. QED
    BY <2>2, <2>3
<1>12. EffectsFollowPromotion'
  BY <1>1, <1>3 DEF IndInv, EffectsFollowPromotion, shimVars
<1>. QED
  BY <1>7, <1>8, <1>9, <1>10, <1>11, <1>12 DEF IndInv

\* A process that dies keeps its incarnation, so nothing about the others
\* changes.
LEMMA KillServerStep ==
    ASSUME IndInv, NEW n \in Nodes, KillServer(n)
    PROVE  IndInv'
<1>1. TypeOK'
  <2>1. ServersTypeOK'
    BY DEF IndInv, TypeOK, ServersTypeOK, KillServer, Phases
  <2>2. PeersTypeOK'
    BY DEF IndInv, TypeOK, PeersTypeOK, KillServer
  <2>3. ClientsTypeOK' /\ SignalsTypeOK'
    BY DEF IndInv, TypeOK, ClientsTypeOK, SignalsTypeOK, KillServer, shimVars
  <2>. QED
    BY <2>1, <2>2, <2>3 DEF TypeOK
<1>2. /\ \A m \in Nodes : phase'[m] = IF m = n THEN "off" ELSE phase[m]
      /\ \A m, p \in Nodes : peer_connections'[m][p] =
                                 IF m = n THEN 0 ELSE peer_connections[m][p]
      /\ \A m \in Nodes : handshakes'[m] = IF m = n THEN {} ELSE handshakes[m]
      /\ \A m \in Nodes : dialing'[m] = IF m = n THEN {} ELSE dialing[m]
      /\ \A m \in Nodes : dialled'[m] = IF m = n THEN {} ELSE dialled[m]
      /\ \A m \in Nodes : m # n => client_connections'[m] = client_connections[m]
      /\ \A m \in Nodes : m # n => leadership'[m] = leadership[m]
      /\ leadership'[n] = "none" /\ signals' \subseteq signals
      /\ UNCHANGED <<incarnation, ran_before, promoted, shimVars, setup_done>>
  BY DEF IndInv, TypeOK, ServersTypeOK, PeersTypeOK, ClientsTypeOK, KillServer
<1>3. DeadHoldsNothing' /\ OperationIsComplete'
  <2>1. DeadHoldsNothing'
    <3>. SUFFICES ASSUME NEW m \in Nodes, phase'[m] = "off"
                  PROVE  /\ \A p \in Nodes : peer_connections'[m][p] = 0
                         /\ handshakes'[m] = {} /\ dialing'[m] = {} /\ dialled'[m] = {}
      BY DEF DeadHoldsNothing
    <3>1. CASE m = n
      BY <1>2, <3>1
    <3>2. CASE m # n
      <4>1. /\ phase[m] = "off" /\ handshakes'[m] = handshakes[m]
            /\ dialing'[m] = dialing[m] /\ dialled'[m] = dialled[m]
            /\ \A p \in Nodes : peer_connections'[m][p] = peer_connections[m][p]
        BY <1>2, <3>2
      <4>. QED
        BY <4>1 DEF IndInv, DeadHoldsNothing
    <3>. QED
      BY <3>1, <3>2
  <2>2. ASSUME NEW m \in Nodes, InOperation(m)'
        PROVE  /\ m # n /\ InOperation(m)
               /\ \A p \in Peers(m) : peer_connections'[m][p] = peer_connections[m][p]
               /\ client_connections'[m] = client_connections[m]
    BY <1>2, <2>2 DEF InOperation, Peers
  <2>3. OperationIsComplete'
    BY <2>2 DEF IndInv, OperationIsComplete, Peers
  <2>. QED
    BY <2>1, <2>3
<1>4. RanBeforeHasConnected'
  <2>1. \A m \in Nodes : \A q \in ran_before[m] : q.node \in Nodes
    BY DEF IndInv, TypeOK, ServersTypeOK, Processes
  <2>. QED
    BY <1>2, <2>1 DEF IndInv, RanBeforeHasConnected
<1>5. DialersAreYounger' /\ ConnectedDidNotRun'
  BY <1>2 DEF IndInv, DialersAreYounger, ConnectedDidNotRun, Process
<1>6. EffectsFollowPromotion' /\ RunningHasStarted' /\ ConnectorsDialDown'
  BY <1>2 DEF IndInv, EffectsFollowPromotion, RunningHasStarted, ConnectorsDialDown,
              PeersToDial, shimVars
<1>. QED
  BY <1>1, <1>3, <1>4, <1>5, <1>6 DEF IndInv

(***************************************************************************)
(* Steps that leave the connections of the servers alone                   *)
(***************************************************************************)

\* When servers only advance through their phases, what a peer of each of
\* them was doing when it started remains as it was.
LEMMA PhasesAdvance ==
    ASSUME IndInv,
           UNCHANGED <<incarnation, connectorVars, peer_connections, handshakes,
                       ran_before>>,
           \A m \in Nodes :
               \/ phase'[m] = phase[m]
               \/ phase[m] # "off" /\ phase'[m] \in {"electing", "serving"}
    PROVE  /\ DeadHoldsNothing' /\ RunningHasStarted' /\ ConnectorsDialDown'
           /\ RanBeforeHasConnected' /\ DialersAreYounger' /\ ConnectedDidNotRun'
<1>1. DeadHoldsNothing' /\ RunningHasStarted' /\ ConnectorsDialDown'
  BY DEF IndInv, DeadHoldsNothing, RunningHasStarted, ConnectorsDialDown, PeersToDial
<1>2. RanBeforeHasConnected'
  <2>1. \A m \in Nodes : \A q \in ran_before[m] : q.node \in Nodes
    BY DEF IndInv, TypeOK, ServersTypeOK, Processes
  <2>. QED
    BY <2>1 DEF IndInv, RanBeforeHasConnected
<1>3. DialersAreYounger' /\ ConnectedDidNotRun'
  BY DEF IndInv, DialersAreYounger, ConnectedDidNotRun, Process
<1>. QED
  BY <1>1, <1>2, <1>3

\* The steps of the shims, and setup!
LEMMA ShimStep ==
    ASSUME IndInv, NEW n \in Nodes,
           \/ StartShim(n) \/ KillShim(n) \/ ConnectShim(n)
           \/ TakeStartSignal(n) \/ AwaitShim(n)
    PROVE  IndInv'
<1>1. UNCHANGED <<incarnation, phase, connectorVars, peer_connections, handshakes,
                  readers, unheard, client_ids, client_connections, leadership,
                  signals, ran_before, promoted>>
  BY DEF StartShim, KillShim, ConnectShim, TakeStartSignal, AwaitShim, serverVars
<1>2. ServersTypeOK' /\ PeersTypeOK'
  BY <1>1 DEF IndInv, TypeOK, ServersTypeOK, PeersTypeOK
<1>3. ClientsTypeOK' /\ SignalsTypeOK'
  <2>1. /\ client_ids' \in [Nodes -> Seq(Nat)]
        /\ client_connections' \in [Nodes -> SUBSET Nat]
        /\ \A m \in Nodes : client_connections'[m] \subseteq DOMAIN client_ids'[m]
        /\ signals' \in SUBSET Signals
    BY <1>1 DEF IndInv, TypeOK, ClientsTypeOK, SignalsTypeOK
  <2>2. client_handshakes' \in [Nodes -> SUBSET Nat]
    <3>1. CASE ConnectShim(n)
      BY <3>1 DEF IndInv, TypeOK, ClientsTypeOK, ConnectShim
    <3>2. CASE ~ConnectShim(n)
      <4>1. UNCHANGED client_handshakes
        BY <3>2 DEF StartShim, KillShim, TakeStartSignal, AwaitShim, serverVars
      <4>. QED
        BY <4>1 DEF IndInv, TypeOK, ClientsTypeOK
    <3>. QED
      BY <3>1, <3>2
  <2>5. start_signals' \in [Nodes -> SUBSET Nat]
    <3>1. CASE KillShim(n)
      BY <3>1 DEF IndInv, TypeOK, SignalsTypeOK, KillShim
    <3>2. CASE ~KillShim(n)
      <4>1. UNCHANGED start_signals
        BY <3>2 DEF StartShim, ConnectShim, TakeStartSignal, AwaitShim, shimVars
      <4>. QED
        BY <4>1 DEF IndInv, TypeOK, SignalsTypeOK
    <3>. QED
      BY <3>1, <3>2
  <2>3. shim_incarnation' \in [Nodes -> Nat] /\ setup_done' \in SUBSET Nodes
    <3>1. CASE StartShim(n)
      BY <3>1 DEF IndInv, TypeOK, ClientsTypeOK, StartShim
    <3>2. CASE ~StartShim(n)
      BY <3>2 DEF IndInv, TypeOK, ClientsTypeOK, KillShim, ConnectShim,
                  TakeStartSignal, AwaitShim, shimVars
    <3>. QED
      BY <3>1, <3>2
  <2>4. shim_phase' \in [Nodes -> ShimPhases]
    BY DEF IndInv, TypeOK, ClientsTypeOK, ShimPhases, StartShim, KillShim,
           ConnectShim, TakeStartSignal, AwaitShim, shimVars
  <2>. QED
    BY <2>1, <2>2, <2>3, <2>4, <2>5 DEF ClientsTypeOK, SignalsTypeOK
<1>4. /\ DeadHoldsNothing' /\ RunningHasStarted' /\ ConnectorsDialDown'
      /\ RanBeforeHasConnected' /\ DialersAreYounger' /\ ConnectedDidNotRun'
  BY <1>1, PhasesAdvance
<1>5. OperationIsComplete'
  BY <1>1 DEF IndInv, OperationIsComplete, InOperation
<1>6. EffectsFollowPromotion'
  BY <1>1 DEF IndInv, TypeOK, ClientsTypeOK, SignalsTypeOK, EffectsFollowPromotion,
              StartShim, KillShim, ConnectShim, TakeStartSignal, AwaitShim, shimVars
<1>. QED
  BY <1>2, <1>3, <1>4, <1>5, <1>6 DEF IndInv, TypeOK

\* ClientRegister, in time or too late: no connection is inserted yet.
LEMMA ClientRegisterStep ==
    ASSUME IndInv, NEW n \in Nodes, NEW i \in client_handshakes[n],
           AcceptClient(n, i) \/ MissClient(n, i)
    PROVE  IndInv'
<1>1. /\ UNCHANGED <<incarnation, phase, connectorVars, peer_connections, handshakes,
                     readers, unheard, client_connections, leadership, signals,
                     ran_before, promoted>>
      /\ UNCHANGED <<shimVars, setup_done>>
  BY DEF AcceptClient, MissClient
<1>2. ClientsTypeOK'
  <2>1. /\ client_ids \in [Nodes -> Seq(Nat)] /\ i \in Nat
        /\ client_handshakes' \in [Nodes -> SUBSET Nat]
    BY DEF IndInv, TypeOK, ClientsTypeOK, AcceptClient, MissClient
  <2>2. /\ Append(client_ids[n], i) \in Seq(Nat)
        /\ DOMAIN client_ids[n] \subseteq DOMAIN Append(client_ids[n], i)
    <3>1. /\ client_ids[n] \in Seq(Nat) /\ Append(client_ids[n], i) \in Seq(Nat)
          /\ Len(Append(client_ids[n], i)) = Len(client_ids[n]) + 1
      BY <2>1, AppendProperties
    <3>. QED
      BY <3>1
  <2>3. \/ client_ids' = [client_ids EXCEPT ![n] = Append(client_ids[n], i)]
        \/ client_ids' = client_ids
    BY DEF AcceptClient, MissClient
  <2>4. /\ client_ids' \in [Nodes -> Seq(Nat)]
        /\ \A m \in Nodes : DOMAIN client_ids[m] \subseteq DOMAIN client_ids'[m]
    BY <2>1, <2>2, <2>3
  <2>. QED
    BY <1>1, <2>1, <2>4 DEF IndInv, TypeOK, ClientsTypeOK, shimVars
<1>3. ServersTypeOK' /\ PeersTypeOK' /\ SignalsTypeOK'
  BY <1>1 DEF IndInv, TypeOK, ServersTypeOK, PeersTypeOK, SignalsTypeOK, shimVars
<1>4. /\ DeadHoldsNothing' /\ RunningHasStarted' /\ ConnectorsDialDown'
      /\ RanBeforeHasConnected' /\ DialersAreYounger' /\ ConnectedDidNotRun'
  BY <1>1, PhasesAdvance
<1>5. OperationIsComplete' /\ EffectsFollowPromotion'
  BY <1>1 DEF IndInv, OperationIsComplete, InOperation, EffectsFollowPromotion, shimVars
<1>. QED
  BY <1>2, <1>3, <1>4, <1>5 DEF IndInv, TypeOK

\* A client's connection is inserted.
LEMMA InsertClientStep ==
    ASSUME IndInv, NEW n \in Nodes, NEW id \in DOMAIN client_ids[n], InsertClient(n, id)
    PROVE  IndInv'
<1> DEFINE clients == client_connections[n] \cup {id}
<1>1. /\ UNCHANGED <<incarnation, connectorVars, peer_connections, handshakes, readers,
                     unheard, client_ids, client_handshakes, leadership, signals,
                     ran_before, promoted>>
      /\ UNCHANGED <<shimVars, setup_done>>
      /\ phase[n] = "connecting"
  BY DEF InsertClient
<1>2. /\ phase' \in [Nodes -> Phases]
      /\ phase'[n] \in {"connecting", "electing"}
      /\ \A m \in Nodes : m # n => phase'[m] = phase[m]
      /\ phase'[n] # "connecting" =>
             /\ \A p \in Peers(n) : peer_connections[n][p] # 0
             /\ Cardinality(clients) >= NumClients
  BY <1>1, CompleteConnectionsPhase DEF IndInv, InsertClient, Listening
<1>3. \A m \in Nodes : client_connections'[m] =
                           IF m = n THEN clients ELSE client_connections[m]
  BY DEF IndInv, TypeOK, ClientsTypeOK, InsertClient
<1>4. ClientsTypeOK'
  <2>1. id \in Nat
    BY DEF IndInv, TypeOK, ClientsTypeOK
  <2>. QED
    BY <1>1, <1>3, <2>1 DEF IndInv, TypeOK, ClientsTypeOK, InsertClient, shimVars
<1>5. ServersTypeOK' /\ PeersTypeOK' /\ SignalsTypeOK'
  BY <1>1, <1>2 DEF IndInv, TypeOK, ServersTypeOK, PeersTypeOK, SignalsTypeOK, shimVars
<1>6. /\ DeadHoldsNothing' /\ RunningHasStarted' /\ ConnectorsDialDown'
      /\ RanBeforeHasConnected' /\ DialersAreYounger' /\ ConnectedDidNotRun'
  BY <1>1, <1>2, PhasesAdvance
<1>7. OperationIsComplete'
  BY <1>1, <1>2, <1>3 DEF IndInv, OperationIsComplete, InOperation, Peers
<1>8. EffectsFollowPromotion'
  BY <1>1, <1>2 DEF IndInv, EffectsFollowPromotion, shimVars
<1>. QED
  BY <1>4, <1>5, <1>6, <1>7, <1>8 DEF IndInv, TypeOK

\* The attempt to become leader, and its success.
LEMMA LeadershipStep ==
    ASSUME IndInv, NEW n \in Nodes, AttemptLeadership(n) \/ GainLeadership(n)
    PROVE  IndInv'
<1>1. /\ UNCHANGED <<incarnation, phase, connectorVars, peer_connections, handshakes,
                     readers, unheard, clientVars, signals,
                     ran_before>>
      /\ UNCHANGED <<shimVars, setup_done>>
  BY DEF AttemptLeadership, GainLeadership
<1>2. ServersTypeOK'
  BY <1>1 DEF IndInv, TypeOK, ServersTypeOK, AttemptLeadership, GainLeadership
<1>3. PeersTypeOK' /\ ClientsTypeOK' /\ SignalsTypeOK'
  BY <1>1 DEF IndInv, TypeOK, PeersTypeOK, ClientsTypeOK, SignalsTypeOK, shimVars
<1>4. /\ DeadHoldsNothing' /\ RunningHasStarted' /\ ConnectorsDialDown'
      /\ RanBeforeHasConnected' /\ DialersAreYounger' /\ ConnectedDidNotRun'
  BY <1>1, PhasesAdvance
<1>5. OperationIsComplete'
  BY <1>1 DEF IndInv, OperationIsComplete, InOperation
<1>6. EffectsFollowPromotion'
  BY <1>1 DEF IndInv, TypeOK, ServersTypeOK, EffectsFollowPromotion,
              AttemptLeadership, GainLeadership, shimVars
<1>. QED
  BY <1>2, <1>3, <1>4, <1>5, <1>6 DEF IndInv, TypeOK

\* A server that starts to serve, as the leader or because the leader did.
LEMMA ServeStep ==
    ASSUME IndInv, NEW n \in Nodes,
           LeadStart(n) \/ \E s \in signals : FollowStart(n, s)
    PROVE  IndInv'
<1>1. /\ UNCHANGED <<incarnation, connectorVars, peer_connections, handshakes,
                     readers, unheard, clientVars,
                     leadership, ran_before>>
      /\ UNCHANGED <<promoted, shim_incarnation, shim_phase, setup_done>>
      /\ InOperation(n) /\ promoted /\ SendClientStartSignals(n)
      /\ phase' = [phase EXCEPT ![n] = "serving"]
  BY DEF IndInv, EffectsFollowPromotion, LeadStart, LeadsPrepared, FollowStart,
         InOperation
<1>2. /\ phase' \in [Nodes -> Phases] /\ phase'[n] = "serving"
      /\ \A m \in Nodes : m # n => phase'[m] = phase[m]
  BY <1>1 DEF IndInv, TypeOK, ServersTypeOK, Phases
<1>3. ServersTypeOK' /\ PeersTypeOK' /\ ClientsTypeOK'
  BY <1>1, <1>2 DEF IndInv, TypeOK, ServersTypeOK, PeersTypeOK, ClientsTypeOK
<1>4. SignalsTypeOK'
  <2>1. signals' \subseteq Signals
    BY ClusterStartSignalsType DEF IndInv, TypeOK, SignalsTypeOK, LeadStart, FollowStart
  <2>2. start_signals' \in [Nodes -> SUBSET Nat]
    BY <1>1, StartedClientsConnected DEF IndInv
  <2>. QED
    BY <2>1, <2>2 DEF SignalsTypeOK
<1>5. /\ DeadHoldsNothing' /\ RunningHasStarted' /\ ConnectorsDialDown'
      /\ RanBeforeHasConnected' /\ DialersAreYounger' /\ ConnectedDidNotRun'
  BY <1>1, <1>2, PhasesAdvance DEF InOperation
<1>6. OperationIsComplete'
  BY <1>1, <1>2 DEF IndInv, OperationIsComplete, InOperation
<1>7. EffectsFollowPromotion'
  BY <1>1 DEF EffectsFollowPromotion
<1>. QED
  BY <1>3, <1>4, <1>5, <1>6, <1>7 DEF IndInv, TypeOK

(***************************************************************************)
(* Steps that connect servers                                              *)
(***************************************************************************)

\* Who is dialled listens, so it was not in operation before the dialer.
LEMMA ConnectToPeerStep ==
    ASSUME IndInv, NEW n \in Nodes, NEW p \in dialing[n], ConnectToPeer(n, p)
    PROVE  IndInv'
<1>1. /\ phase[n] = "connecting" /\ phase[p] = "connecting"
      /\ UNCHANGED <<incarnation, phase, peer_connections, handshakes, readers, unheard,
                     clientVars, leadership, signals, ran_before, promoted>>
      /\ UNCHANGED <<shimVars, setup_done>>
  BY DEF ConnectToPeer, Listening
<1>2. p \in Nodes /\ p < n /\ Process(p) \in Processes
  BY DEF IndInv, TypeOK, ServersTypeOK, PeersTypeOK, ConnectorsDialDown, PeersToDial,
         Process, Processes
<1>3. /\ dialing' \in [Nodes -> SUBSET Nodes]
      /\ dialled' \in [Nodes -> SUBSET Processes]
      /\ \A m \in Nodes : dialing'[m] \subseteq dialing[m]
      /\ \A m \in Nodes : dialled'[m] = IF m = n THEN dialled[m] \cup {Process(p)}
                                        ELSE dialled[m]
  BY <1>2 DEF IndInv, TypeOK, PeersTypeOK, ConnectToPeer, DialsNoMore
<1>4. TypeOK'
  <2>1. PeersTypeOK'
    BY <1>1, <1>3 DEF IndInv, TypeOK, PeersTypeOK
  <2>2. ServersTypeOK' /\ ClientsTypeOK' /\ SignalsTypeOK'
    BY <1>1 DEF IndInv, TypeOK, ServersTypeOK, ClientsTypeOK, SignalsTypeOK, shimVars
  <2>. QED
    BY <2>1, <2>2 DEF TypeOK
<1>5. DeadHoldsNothing' /\ RunningHasStarted'
  BY <1>1, <1>3 DEF IndInv, DeadHoldsNothing, RunningHasStarted
<1>6. ConnectorsDialDown'
  <2>1. incarnation[p] # 0 /\ incarnation[p] \in Nat
    BY <1>1, <1>2 DEF IndInv, RunningHasStarted, TypeOK, ServersTypeOK
  <2>2. \A m \in Nodes : \A q \in dialled'[m] :
            q.node < m /\ q.start # 0 /\ q.start <= incarnation[q.node]
    <3>. SUFFICES ASSUME NEW m \in Nodes, NEW q \in dialled'[m]
                  PROVE  q.node < m /\ q.start # 0 /\ q.start <= incarnation[q.node]
      OBVIOUS
    <3>1. CASE q \in dialled[m]
      BY <3>1 DEF IndInv, ConnectorsDialDown
    <3>2. CASE q \notin dialled[m]
      BY <1>2, <1>3, <2>1, <3>2 DEF Process
    <3>. QED
      BY <3>1, <3>2
  <2>. QED
    BY <1>1, <1>3, <2>2 DEF IndInv, ConnectorsDialDown, PeersToDial
<1>7. OperationIsComplete' /\ EffectsFollowPromotion'
  BY <1>1 DEF IndInv, OperationIsComplete, InOperation, EffectsFollowPromotion, shimVars
<1>8. RanBeforeHasConnected' /\ DialersAreYounger'
  BY <1>1 DEF IndInv, RanBeforeHasConnected, DialersAreYounger
<1>9. ConnectedDidNotRun'
  <2>1. Process(p) \notin ran_before[n]
    BY <1>1 DEF IndInv, RanBeforeHasConnected, Process
  <2>. SUFFICES ASSUME NEW m \in Nodes, NEW q \in Nodes,
                       peer_connections[m][q] # 0 \/ \E r \in dialled'[m] : r.node = q
                PROVE  Process(q) \notin ran_before[m]
    BY <1>1 DEF ConnectedDidNotRun, Process
  <2>2. CASE m = n /\ q = p
    BY <2>1, <2>2
  <2>3. CASE ~(m = n /\ q = p)
    <3>1. peer_connections[m][q] # 0 \/ \E r \in dialled[m] : r.node = q
      BY <1>3, <2>3 DEF Process
    <3>. QED
      BY <3>1 DEF IndInv, ConnectedDidNotRun
  <2>. QED
    BY <2>2, <2>3
<1>. QED
  BY <1>4, <1>5, <1>6, <1>7, <1>8, <1>9 DEF IndInv

\* The dialer registers while it still connects, so no earlier process of its
\* node ran before the listener started and has the same number.
LEMMA RegisterWithPeerStep ==
    ASSUME IndInv, NEW n \in Nodes, NEW peer \in dialled[n], RegisterWithPeer(n, peer)
    PROVE  IndInv'
<1> DEFINE p == peer.node
           conns == [peer_connections[n] EXCEPT ![p] = peer.start]
<1>1. /\ phase[n] = "connecting"
      /\ UNCHANGED <<incarnation, dialing, readers, unheard, clientVars, leadership,
                     signals, ran_before, promoted>>
      /\ UNCHANGED <<shimVars, setup_done>>
  BY DEF RegisterWithPeer
<1>0. peer \in Processes /\ p \in Nodes /\ p < n /\ p # n /\ peer.start \in Nat
  BY NodesAssumption DEF IndInv, TypeOK, PeersTypeOK, ConnectorsDialDown, Processes
<1>2. /\ phase' \in [Nodes -> Phases]
      /\ phase'[n] \in {"connecting", "electing"}
      /\ \A m \in Nodes : m # n => phase'[m] = phase[m]
      /\ phase'[n] # "connecting" =>
             (\A q \in Peers(n) : conns[q] # 0) /\ Cardinality(client_connections[n]) >= NumClients
  BY <1>1, CompleteConnectionsPhase DEF IndInv, RegisterWithPeer, Listening
<1>3. /\ peer_connections'[n] = conns
      /\ \A m \in Nodes : m # n => peer_connections'[m] = peer_connections[m]
      /\ \A q \in Nodes : conns[q] = IF q = p THEN peer.start ELSE peer_connections[n][q]
  BY <1>0 DEF IndInv, TypeOK, PeersTypeOK, RegisterWithPeer
<1>4. /\ \/ handshakes'[p] = handshakes[p] \cup {Process(n)} /\ phase[p] # "off"
         \/ handshakes'[p] = handshakes[p]
      /\ \A m \in Nodes : m # p => handshakes'[m] = handshakes[m]
      /\ handshakes' \in [Nodes -> SUBSET Processes]
  <2>1. Process(n) \in Processes
    BY DEF IndInv, TypeOK, ServersTypeOK, Process, Processes
  <2>. QED
    BY <1>0, <2>1 DEF IndInv, TypeOK, PeersTypeOK, RegisterWithPeer
<1>11. /\ dialled' \in [Nodes -> SUBSET Processes]
       /\ \A m \in Nodes : dialled'[m] \subseteq dialled[m]
  BY DEF IndInv, TypeOK, PeersTypeOK, RegisterWithPeer
<1>5. TypeOK'
  <2>1. ServersTypeOK' /\ ClientsTypeOK' /\ SignalsTypeOK'
    BY <1>1, <1>2 DEF IndInv, TypeOK, ServersTypeOK, ClientsTypeOK, SignalsTypeOK,
                      shimVars
  <2>2. conns \in [Nodes -> Nat] /\ Process(n) \in Processes /\ Process(n) \in Dialers(p)
    BY <1>0 DEF IndInv, TypeOK, ServersTypeOK, PeersTypeOK, Processes, Process, Dialers
  <2>3. peer_connections' \in [Nodes -> [Nodes -> Nat]]
    BY <2>2 DEF IndInv, TypeOK, PeersTypeOK, RegisterWithPeer
  <2>5. \A m \in Nodes : handshakes'[m] \cup readers'[m] \subseteq Dialers(m)
    BY <1>1, <1>4, <2>2 DEF IndInv, TypeOK, PeersTypeOK
  <2>6. PeersTypeOK'
    BY <1>1, <1>4, <1>11, <2>3, <2>5 DEF IndInv, TypeOK, PeersTypeOK
  <2>. QED
    BY <2>1, <2>6 DEF TypeOK
<1>6. DeadHoldsNothing' /\ RunningHasStarted' /\ ConnectorsDialDown'
  <2>1. DeadHoldsNothing'
    BY <1>1, <1>2, <1>3, <1>4, <1>11 DEF IndInv, DeadHoldsNothing
  <2>2. RunningHasStarted' /\ ConnectorsDialDown'
    BY <1>1, <1>2, <1>11 DEF IndInv, RunningHasStarted, ConnectorsDialDown, PeersToDial
  <2>. QED
    BY <2>1, <2>2
<1>7. OperationIsComplete'
  <2>1. \A m \in Nodes : m # n => (InOperation(m)' <=> InOperation(m))
    BY <1>2 DEF InOperation
  <2>2. InOperation(n)' => phase'[n] # "connecting"
    BY DEF InOperation
  <2>. QED
    <3>. SUFFICES ASSUME NEW m \in Nodes, InOperation(m)'
                  PROVE  /\ \A q \in Peers(m) : peer_connections'[m][q] # 0
                         /\ Cardinality(client_connections[m]) >= NumClients
      BY <1>1 DEF OperationIsComplete, Peers
    <3>1. CASE m = n
      BY <1>2, <1>3, <2>2, <3>1
    <3>2. CASE m # n
      BY <1>3, <2>1, <3>2 DEF IndInv, OperationIsComplete
    <3>. QED
      BY <3>1, <3>2
<1>8. RanBeforeHasConnected'
  <2>1. \A m \in Nodes : \A q \in ran_before[m] : q.node \in Nodes
    BY DEF IndInv, TypeOK, ServersTypeOK, Processes
  <2>. QED
    BY <1>1, <1>2, <2>1 DEF IndInv, RanBeforeHasConnected
<1>9. DialersAreYounger'
  <2>. SUFFICES ASSUME NEW m \in Nodes, NEW h \in handshakes'[m]
                PROVE  /\ h.start <= incarnation[h.node]
                       /\ \A q \in ran_before[m] : q.node = h.node => q.start < h.start
    BY <1>1 DEF DialersAreYounger
  <2>1. CASE h \in handshakes[m]
    BY <2>1 DEF IndInv, DialersAreYounger
  <2>2. CASE h \notin handshakes[m]
    <3>1. m = p /\ h.node = n /\ h.start = incarnation[n] /\ incarnation[n] \in Nat
      BY <1>4, <2>2 DEF Process, IndInv, TypeOK, ServersTypeOK
    <3>2. \A q \in ran_before[p] : q.node = n => q.start \in Nat /\ q.start < incarnation[n]
      BY <1>0, <1>1, <3>1 DEF IndInv, TypeOK, ServersTypeOK, Processes,
                              RanBeforeHasConnected
    <3>. QED
      BY <3>1, <3>2
  <2>. QED
    BY <2>1, <2>2
<1>10. ConnectedDidNotRun'
  <2>. SUFFICES ASSUME NEW m \in Nodes, NEW q \in Nodes,
                       peer_connections'[m][q] # 0 \/ \E r \in dialled'[m] : r.node = q
                PROVE  Process(q) \notin ran_before[m]
    BY <1>1 DEF ConnectedDidNotRun, Process
  <2>1. peer_connections[m][q] # 0 \/ \E r \in dialled[m] : r.node = q
    BY <1>3, <1>11
  <2>. QED
    BY <2>1 DEF IndInv, ConnectedDidNotRun
<1>12. EffectsFollowPromotion'
  BY <1>1, <1>2 DEF IndInv, EffectsFollowPromotion, shimVars
<1>. QED
  BY <1>5, <1>6, <1>7, <1>8, <1>9, <1>10, <1>12 DEF IndInv

\* A connector that gives up leaves everything else as it is.
LEMMA FailToRegisterStep ==
    ASSUME IndInv, NEW n \in Nodes, NEW peer \in dialled[n], FailToRegister(n, peer)
    PROVE  IndInv'
<1>1. /\ UNCHANGED <<incarnation, phase, dialing, peer_connections, handshakes, readers,
                     unheard, clientVars, leadership, signals, ran_before, promoted>>
      /\ UNCHANGED <<shimVars, setup_done>>
  BY DEF FailToRegister
<1>2. /\ dialled' \in [Nodes -> SUBSET Processes]
      /\ \A m \in Nodes : dialled'[m] \subseteq dialled[m]
  BY DEF IndInv, TypeOK, PeersTypeOK, FailToRegister
<1>3. TypeOK'
  <2>1. PeersTypeOK'
    BY <1>1, <1>2 DEF IndInv, TypeOK, PeersTypeOK
  <2>2. ServersTypeOK' /\ ClientsTypeOK' /\ SignalsTypeOK'
    BY <1>1 DEF IndInv, TypeOK, ServersTypeOK, ClientsTypeOK, SignalsTypeOK, shimVars
  <2>. QED
    BY <2>1, <2>2 DEF TypeOK
<1>4. DeadHoldsNothing' /\ RunningHasStarted' /\ ConnectorsDialDown'
  BY <1>1, <1>2 DEF IndInv, DeadHoldsNothing, RunningHasStarted, ConnectorsDialDown,
                    PeersToDial
<1>5. OperationIsComplete' /\ EffectsFollowPromotion'
  BY <1>1 DEF IndInv, OperationIsComplete, InOperation, EffectsFollowPromotion, shimVars
<1>6. RanBeforeHasConnected' /\ DialersAreYounger'
  BY <1>1 DEF IndInv, RanBeforeHasConnected, DialersAreYounger
<1>7. ConnectedDidNotRun'
  BY <1>1, <1>2 DEF IndInv, ConnectedDidNotRun, Process
<1>. QED
  BY <1>3, <1>4, <1>5, <1>6, <1>7 DEF IndInv

\* Who dials is younger than the processes that ran before.
LEMMA AcceptPeerStep ==
    ASSUME IndInv, NEW n \in Nodes, NEW h \in handshakes[n], AcceptPeer(n, h)
    PROVE  IndInv'
<1> DEFINE conns == [peer_connections[n] EXCEPT ![h.node] = h.start]
<1>1. /\ phase[n] = "connecting"
      /\ UNCHANGED <<incarnation, connectorVars, clientVars, leadership, ran_before,
                     promoted>>
      /\ UNCHANGED <<shimVars, setup_done>>
      /\ signals' \subseteq signals
  BY DEF AcceptPeer, DiscardReadAhead, Listening
<1>2. h \in Processes /\ h \in Dialers(n) /\ h.node \in Nodes /\ h.start \in Nat
  BY DEF IndInv, TypeOK, PeersTypeOK, Processes
<1>3. /\ phase' \in [Nodes -> Phases]
      /\ phase'[n] \in {"connecting", "electing"}
      /\ \A m \in Nodes : m # n => phase'[m] = phase[m]
      /\ phase'[n] # "connecting" =>
             (\A q \in Peers(n) : conns[q] # 0) /\ Cardinality(client_connections[n]) >= NumClients
  BY CompleteConnectionsPhase DEF IndInv, AcceptPeer
<1>4. /\ peer_connections'[n] = conns
      /\ \A m \in Nodes : m # n => peer_connections'[m] = peer_connections[m]
      /\ \A q \in Nodes : conns[q] = IF q = h.node THEN h.start ELSE peer_connections[n][q]
  BY <1>2 DEF IndInv, TypeOK, PeersTypeOK, AcceptPeer
<1>5. \A m \in Nodes : handshakes'[m] \subseteq handshakes[m]
  BY DEF IndInv, TypeOK, PeersTypeOK, AcceptPeer
<1>6. TypeOK'
  <2>1. ServersTypeOK' /\ ClientsTypeOK' /\ SignalsTypeOK'
    BY <1>1, <1>3 DEF IndInv, TypeOK, ServersTypeOK, ClientsTypeOK, SignalsTypeOK,
                      shimVars
  <2>2. conns \in [Nodes -> Nat]
    BY <1>2 DEF IndInv, TypeOK, PeersTypeOK
  <2>3. peer_connections' \in [Nodes -> [Nodes -> Nat]]
    BY <2>2 DEF IndInv, TypeOK, PeersTypeOK, AcceptPeer
  <2>4. handshakes' \in [Nodes -> SUBSET Processes]
    BY <1>2 DEF IndInv, TypeOK, PeersTypeOK, AcceptPeer
  <2>5. /\ readers' \in [Nodes -> SUBSET Processes]
        /\ unheard' \in [Nodes -> SUBSET Processes]
        /\ \A m \in Nodes : readers'[m] \subseteq readers[m] \cup Dialers(m)
    <3>1. /\ readers \in [Nodes -> SUBSET Processes]
          /\ unheard \in [Nodes -> SUBSET Processes]
      BY DEF IndInv, TypeOK, PeersTypeOK
    <3>2. \/ readers' = [readers EXCEPT ![n] = @ \cup {h}]
          \/ readers' = readers
      BY DEF AcceptPeer, DiscardReadAhead
    <3>3. \/ unheard' = [unheard EXCEPT ![n] = @ \cup {h}]
          \/ unheard' = unheard
      BY DEF AcceptPeer, DiscardReadAhead
    <3>. QED
      BY <1>2, <3>1, <3>2, <3>3
  <2>6. PeersTypeOK'
    BY <1>1, <1>5, <2>3, <2>4, <2>5 DEF IndInv, TypeOK, PeersTypeOK
  <2>. QED
    BY <2>1, <2>6 DEF TypeOK
<1>7. DeadHoldsNothing' /\ RunningHasStarted' /\ ConnectorsDialDown'
  <2>1. DeadHoldsNothing'
    BY <1>1, <1>3, <1>4, <1>5 DEF IndInv, DeadHoldsNothing
  <2>2. RunningHasStarted' /\ ConnectorsDialDown'
    BY <1>1, <1>3 DEF IndInv, RunningHasStarted, ConnectorsDialDown, PeersToDial
  <2>. QED
    BY <2>1, <2>2
<1>8. OperationIsComplete'
  <2>1. \A m \in Nodes : m # n => (InOperation(m)' <=> InOperation(m))
    BY <1>3 DEF InOperation
  <2>2. InOperation(n)' => phase'[n] # "connecting"
    BY DEF InOperation
  <2>. QED
    <3>. SUFFICES ASSUME NEW m \in Nodes, InOperation(m)'
                  PROVE  /\ \A q \in Peers(m) : peer_connections'[m][q] # 0
                         /\ Cardinality(client_connections[m]) >= NumClients
      BY <1>1 DEF OperationIsComplete, Peers
    <3>1. CASE m = n
      BY <1>3, <1>4, <2>2, <3>1
    <3>2. CASE m # n
      BY <1>4, <2>1, <3>2 DEF IndInv, OperationIsComplete
    <3>. QED
      BY <3>1, <3>2
<1>9. RanBeforeHasConnected'
  <2>1. \A m \in Nodes : \A q \in ran_before[m] : q.node \in Nodes
    BY DEF IndInv, TypeOK, ServersTypeOK, Processes
  <2>. QED
    BY <1>1, <1>3, <2>1 DEF IndInv, RanBeforeHasConnected
<1>10. DialersAreYounger'
  BY <1>1, <1>5 DEF IndInv, DialersAreYounger
<1>11. ConnectedDidNotRun'
  <2>1. Process(h.node) \notin ran_before[n]
    <3>1. /\ h.start <= incarnation[h.node]
          /\ \A q \in ran_before[n] : q.node = h.node => q.start < h.start
      BY DEF IndInv, DialersAreYounger
    <3>2. incarnation[h.node] \in Nat
      BY <1>2 DEF IndInv, TypeOK, ServersTypeOK
    <3>. QED
      BY <1>2, <3>1, <3>2 DEF Process
  <2>. QED
    <3>. SUFFICES ASSUME NEW m \in Nodes, NEW q \in Nodes,
                         peer_connections'[m][q] # 0 \/ \E r \in dialled[m] : r.node = q
                  PROVE  Process(q) \notin ran_before[m]
      BY <1>1 DEF ConnectedDidNotRun, Process
    <3>1. CASE m = n /\ q = h.node
      BY <2>1, <3>1
    <3>2. CASE ~(m = n /\ q = h.node)
      <4>1. peer_connections[m][q] # 0 \/ \E r \in dialled[m] : r.node = q
        BY <1>4, <3>2
      <4>. QED
        BY <4>1 DEF IndInv, ConnectedDidNotRun
    <3>. QED
      BY <3>1, <3>2
<1>12. EffectsFollowPromotion'
  BY <1>1, <1>3 DEF IndInv, EffectsFollowPromotion, shimVars
<1>. QED
  BY <1>6, <1>7, <1>8, <1>9, <1>10, <1>11, <1>12 DEF IndInv

\* A dialer that comes too late fills no slot.
LEMMA MissPeerStep ==
    ASSUME IndInv, NEW n \in Nodes, NEW h \in handshakes[n], MissPeer(n, h)
    PROVE  IndInv'
<1>1. UNCHANGED <<incarnation, phase, connectorVars, peer_connections, unheard,
                  clientVars, leadership, signals, ran_before, promoted, shimVars,
                  setup_done>>
  BY DEF MissPeer
<1>2. /\ handshakes' \in [Nodes -> SUBSET Processes]
      /\ \A m \in Nodes : handshakes'[m] \subseteq handshakes[m]
  BY DEF IndInv, TypeOK, PeersTypeOK, MissPeer
<1>3. /\ readers' \in [Nodes -> SUBSET Processes]
      /\ \A m \in Nodes : readers'[m] \subseteq readers[m] \cup handshakes[m]
  <2>1. readers \in [Nodes -> SUBSET Processes] /\ h \in Processes
    BY DEF IndInv, TypeOK, PeersTypeOK
  <2>2. CASE UNCHANGED readers
    BY <2>1, <2>2
  <2>3. CASE readers' = [readers EXCEPT ![n] = @ \cup {h}]
    BY <2>1, <2>3
  <2>. QED
    BY <2>2, <2>3 DEF MissPeer
<1>4. PeersTypeOK'
  BY <1>1, <1>2, <1>3 DEF IndInv, TypeOK, PeersTypeOK
<1>5. ServersTypeOK' /\ ClientsTypeOK' /\ SignalsTypeOK'
  BY <1>1 DEF IndInv, TypeOK, ServersTypeOK, ClientsTypeOK, SignalsTypeOK, shimVars
<1>6. DeadHoldsNothing' /\ OperationIsComplete' /\ RanBeforeHasConnected'
  BY <1>1, <1>2 DEF IndInv, DeadHoldsNothing, OperationIsComplete, InOperation,
                    RanBeforeHasConnected
<1>8. RunningHasStarted' /\ ConnectorsDialDown'
  BY <1>1 DEF IndInv, RunningHasStarted, ConnectorsDialDown, PeersToDial
<1>7. DialersAreYounger' /\ ConnectedDidNotRun' /\ EffectsFollowPromotion'
  BY <1>1, <1>2 DEF IndInv, DialersAreYounger, ConnectedDidNotRun, Process,
                    EffectsFollowPromotion, shimVars
<1>. QED
  BY <1>4, <1>5, <1>6, <1>7, <1>8 DEF IndInv, TypeOK

(***************************************************************************)
(* Theorems                                                                *)
(***************************************************************************)

\* Every step of the system preserves the inductive invariant.
LEMMA NextIndInv == IndInv /\ [Next]_vars => IndInv'
<1>. SUFFICES ASSUME IndInv, [Next]_vars PROVE IndInv'
  OBVIOUS
<1>1. CASE Next
  <2>1. PICK n \in Nodes : StartUp(n) \/ Die(n) \/ Work(n)
    BY <1>1 DEF Next
  <2>2. CASE StartUp(n) \/ Die(n)
    BY <2>2, StartServerStep, KillServerStep, ShimStep DEF StartUp, Die
  <2>3. CASE Work(n)
    BY <2>3, ConnectToPeerStep, RegisterWithPeerStep, FailToRegisterStep,
    AcceptPeerStep,
       MissPeerStep, ClientRegisterStep, InsertClientStep, LeadershipStep, ServeStep,
       ShimStep DEF Work
  <2>. QED
    BY <2>1, <2>2, <2>3
<1>2. CASE UNCHANGED vars
  <2>1. TypeOK'
    BY <1>2 DEF IndInv, TypeOK, ServersTypeOK, PeersTypeOK, ClientsTypeOK,
                SignalsTypeOK, vars, serverVars, shimVars
  <2>2. /\ DeadHoldsNothing' /\ RunningHasStarted' /\ ConnectorsDialDown'
        /\ RanBeforeHasConnected' /\ DialersAreYounger' /\ ConnectedDidNotRun'
    BY <1>2, PhasesAdvance DEF vars, serverVars
  <2>3. OperationIsComplete' /\ EffectsFollowPromotion'
    BY <1>2 DEF IndInv, OperationIsComplete, InOperation, EffectsFollowPromotion,
                vars, serverVars, shimVars
  <2>. QED
    BY <2>1, <2>2, <2>3 DEF IndInv
<1>. QED
  BY <1>1, <1>2

\* The inductive invariant holds in every state the system reaches.
THEOREM Invariance == Spec => []IndInv
<1>. QED
  BY InitIndInv, NextIndInv, PTL DEF Spec

\* Every variable keeps its type; in particular of two servers only the one
\* with the greater id dials.
THEOREM TypeCorrectness == Spec => []TypeOK
<1>1. IndInv => TypeOK
  BY DEF IndInv
<1>. QED
  BY <1>1, Invariance, PTL

\* However often servers die and are started again, one that has forgotten
\* what it promised never takes part beside a server that took part before
\* it started (server/network.rs:114, 206-241).
THEOREM AmnesiaSafety == Spec => []NoLateJoiner
<1>1. IndInv => NoLateJoiner
  <2>. SUFFICES ASSUME IndInv, NEW n \in Nodes, NEW p \in Nodes,
                       InOperation(n), InOperation(p)
                PROVE  Process(p) \notin ran_before[n]
    BY DEF NoLateJoiner
  <2>1. CASE p = n
    BY <2>1 DEF IndInv, RanBeforeHasConnected, Process
  <2>2. CASE p # n
    <3>1. peer_connections[n][p] # 0
      BY <2>2 DEF IndInv, OperationIsComplete, Peers
    <3>. QED
      BY <3>1 DEF IndInv, ConnectedDidNotRun
  <2>. QED
    BY <2>1, <2>2
<1>. QED
  BY <1>1, Invariance, PTL

\* No server serves and no shim passes requests on before the initial leader
\* has been promoted (server.rs:76-112).
THEOREM PromotionFirst == Spec => []StartFollowsPromotion
<1>1. IndInv => StartFollowsPromotion
  BY DEF IndInv, EffectsFollowPromotion, StartFollowsPromotion
<1>. QED
  BY <1>1, Invariance, PTL

(***************************************************************************)
(* Connections to the present process                                      *)
(***************************************************************************)

\* No server has a connection to a process that has not been started.
ConnectionsAreToStarted ==
    \A n, p \in Nodes : /\ peer_connections[n][p] <= incarnation[p]
                        /\ incarnation[n] <= MaxServerStarts

LEMMA InitConnectionsAreToStarted == Init => ConnectionsAreToStarted
BY BoundsAssumption DEF Init, ConnectionsAreToStarted

LEMMA NextConnectionsAreToStarted ==
    IndInv /\ ConnectionsAreToStarted /\ [Next]_vars => ConnectionsAreToStarted'
<1>. SUFFICES ASSUME IndInv, ConnectionsAreToStarted, [Next]_vars
              PROVE  ConnectionsAreToStarted'
  OBVIOUS
<1>0. /\ incarnation \in [Nodes -> Nat]
      /\ peer_connections \in [Nodes -> [Nodes -> Nat]]
  BY DEF IndInv, TypeOK, ServersTypeOK, PeersTypeOK
<1>1. CASE UNCHANGED <<incarnation, peer_connections>>
  BY <1>1 DEF ConnectionsAreToStarted
<1>2. ASSUME NEW n \in Nodes, StartServer(n)
      PROVE  ConnectionsAreToStarted'
  <2>1. /\ incarnation[n] < MaxServerStarts
        /\ incarnation' = [incarnation EXCEPT ![n] = incarnation[n] + 1]
        /\ UNCHANGED peer_connections
    BY <1>2 DEF StartServer
  <2>2. \A m \in Nodes : /\ incarnation[m] <= incarnation'[m]
                         /\ incarnation'[m] <= MaxServerStarts
                         /\ incarnation'[m] \in Nat
    BY <1>0, <2>1, BoundsAssumption DEF ConnectionsAreToStarted
  <2>. QED
    BY <1>0, <2>1, <2>2 DEF ConnectionsAreToStarted
<1>3. ASSUME NEW n \in Nodes, KillServer(n)
      PROVE  ConnectionsAreToStarted'
  <2>1. /\ UNCHANGED incarnation
        /\ peer_connections' = [peer_connections EXCEPT ![n] = [p \in Nodes |-> 0]]
    BY <1>3 DEF KillServer
  <2>2. \A m, q \in Nodes : peer_connections'[m][q] =
                                IF m = n THEN 0 ELSE peer_connections[m][q]
    BY <1>0, <2>1
  <2>3. \A q \in Nodes : 0 <= incarnation[q]
    BY <1>0
  <2>. QED
    BY <2>1, <2>2, <2>3 DEF ConnectionsAreToStarted
<1>4. ASSUME NEW n \in Nodes, NEW p \in Nodes, NEW k \in Nat,
             k <= incarnation[p], UNCHANGED incarnation,
             peer_connections' = [peer_connections EXCEPT ![n] =
                                     [peer_connections[n] EXCEPT ![p] = k]]
      PROVE  ConnectionsAreToStarted'
  <2>1. \A m, q \in Nodes : peer_connections'[m][q] =
                                IF m = n /\ q = p THEN k ELSE peer_connections[m][q]
    BY <1>0, <1>4
  <2>. QED
    BY <1>4, <2>1 DEF ConnectionsAreToStarted
<1>5. ASSUME NEW n \in Nodes, NEW peer \in dialled[n], RegisterWithPeer(n, peer)
      PROVE  ConnectionsAreToStarted'
  <2>1. peer.node \in Nodes /\ peer.start \in Nat /\ peer.start <= incarnation[peer.node]
    BY DEF IndInv, TypeOK, PeersTypeOK, Processes, ConnectorsDialDown
  <2>2. /\ UNCHANGED incarnation
        /\ peer_connections' = [peer_connections EXCEPT ![n] =
                                    [peer_connections[n] EXCEPT ![peer.node] = peer.start]]
    BY <1>5 DEF RegisterWithPeer
  <2>. QED
    BY <1>4, <2>1, <2>2
<1>6. ASSUME NEW n \in Nodes, NEW h \in handshakes[n], AcceptPeer(n, h)
      PROVE  ConnectionsAreToStarted'
  <2>1. h.node \in Nodes /\ h.start \in Nat /\ h.start <= incarnation[h.node]
    BY DEF IndInv, TypeOK, PeersTypeOK, Processes, DialersAreYounger
  <2>2. /\ UNCHANGED incarnation
        /\ peer_connections' = [peer_connections EXCEPT ![n] =
                                    [peer_connections[n] EXCEPT ![h.node] = h.start]]
    BY <1>6 DEF AcceptPeer
  <2>. QED
    BY <1>4, <2>1, <2>2
<1>7. ASSUME NEW n \in Nodes, Work(n)
      PROVE  ConnectionsAreToStarted'
  <2>1. CASE \E p \in dialing[n] : ConnectToPeer(n, p)
    BY <1>1, <2>1 DEF ConnectToPeer
  <2>8. CASE \E peer \in dialled[n] : RegisterWithPeer(n, peer)
    BY <1>5, <2>8
  <2>9. CASE \E peer \in dialled[n] : FailToRegister(n, peer)
    BY <1>1, <2>9 DEF FailToRegister
  <2>10. CASE \E id \in DOMAIN client_ids[n] : InsertClient(n, id)
    BY <1>1, <2>10 DEF InsertClient
  <2>2. CASE \E h \in handshakes[n] : AcceptPeer(n, h)
    BY <1>6, <2>2
  <2>3. CASE \E h \in handshakes[n] : MissPeer(n, h)
    BY <1>1, <2>3 DEF MissPeer
  <2>4. CASE \E i \in client_handshakes[n] : AcceptClient(n, i) \/ MissClient(n, i)
    BY <1>1, <2>4 DEF AcceptClient, MissClient
  <2>5. CASE AttemptLeadership(n) \/ GainLeadership(n) \/ LeadStart(n)
    BY <1>1, <2>5 DEF AttemptLeadership, GainLeadership, LeadStart
  <2>6. CASE \E s \in signals : FollowStart(n, s)
    BY <1>1, <2>6 DEF FollowStart
  <2>7. CASE ConnectShim(n) \/ TakeStartSignal(n) \/ AwaitShim(n)
    BY <1>1, <2>7 DEF ConnectShim, TakeStartSignal, AwaitShim, serverVars
  <2>. QED
    BY <1>7, <2>1, <2>2, <2>3, <2>4, <2>5, <2>6, <2>7, <2>8, <2>9, <2>10 DEF Work
<1>8. ASSUME NEW n \in Nodes, StartUp(n) \/ Die(n)
      PROVE  ConnectionsAreToStarted'
  <2>1. CASE StartShim(n) \/ KillShim(n)
    BY <1>1, <2>1 DEF StartShim, KillShim, serverVars
  <2>. QED
    BY <1>2, <1>3, <1>8, <2>1 DEF StartUp, Die
<1>9. CASE UNCHANGED vars
  BY <1>1, <1>9 DEF vars, serverVars
<1>. QED
  BY <1>7, <1>8, <1>9 DEF Next

\* For each peer to dial there is one connector: it still dials, has reached a
\* process, or has connected.
OneConnector ==
    \A n \in Nodes :
        /\ \A p \in dialing[n] : peer_connections[n][p] = 0
        /\ \A q \in dialled[n] :
              /\ q.node \notin dialing[n]
              /\ peer_connections[n][q.node] = 0
              /\ \A r \in dialled[n] : r.node = q.node => r = q

\* Once a listener has a registration of a dialer's node, the dialer has
\* reached no other process of the listener's node than the present one.
RegisteredDialIsCurrent ==
    \A n, m \in Nodes :
        n < m /\ (peer_connections[n][m] # 0 \/ \E h \in handshakes[n] : h.node = m) =>
            /\ peer_connections[m][n] \in {0, incarnation[n]}
            /\ \A q \in dialled[m] : q.node = n => q = Process(n)

DialInv == OneConnector /\ RegisteredDialIsCurrent

LEMMA InitDialInv == Init => DialInv
BY DEF Init, DialInv, OneConnector, RegisteredDialIsCurrent

\* Steps that at most take registrations leave this as it is.
LEMMA DialFrame ==
    ASSUME OneConnector, RegisteredDialIsCurrent, UNCHANGED <<incarnation, dialing,
    dialled, peer_connections>>,
           \A n \in Nodes : handshakes'[n] \subseteq handshakes[n]
    PROVE  DialInv'
BY DEF DialInv, OneConnector, RegisteredDialIsCurrent, Process

\* A process that starts has no connection and no registration.
LEMMA StartServerDials ==
    ASSUME IndInv, OneConnector, RegisteredDialIsCurrent, NEW s \in Nodes, StartServer(s)
    PROVE  DialInv'
<1>1. /\ UNCHANGED <<dialled, peer_connections, handshakes>>
      /\ \A m \in Nodes : dialing'[m] = IF m = s THEN PeersToDial(s) ELSE dialing[m]
      /\ \A m \in Nodes : m # s => incarnation'[m] = incarnation[m]
  BY DEF IndInv, TypeOK, ServersTypeOK, PeersTypeOK, StartServer
<1>2. /\ \A p \in Nodes : peer_connections[s][p] = 0
      /\ handshakes[s] = {} /\ dialled[s] = {}
  BY DEF IndInv, DeadHoldsNothing, StartServer
<1>3. OneConnector'
  <2>. SUFFICES ASSUME NEW m \in Nodes
                PROVE  /\ \A q \in dialing'[m] : peer_connections'[m][q] = 0
                       /\ \A q \in dialled'[m] :
                             /\ q.node \notin dialing'[m]
                             /\ peer_connections'[m][q.node] = 0
                             /\ \A r \in dialled'[m] : r.node = q.node => r = q
    BY DEF OneConnector
  <2>1. CASE m = s
    BY <1>1, <1>2, <2>1 DEF PeersToDial
  <2>2. CASE m # s
    BY <1>1, <2>2 DEF OneConnector
  <2>. QED
    BY <2>1, <2>2
<1>4. RegisteredDialIsCurrent'
  <2>. SUFFICES ASSUME NEW n \in Nodes, NEW m \in Nodes, n < m,
                       peer_connections[n][m] # 0 \/ \E h \in handshakes[n] : h.node = m
                PROVE  /\ peer_connections[m][n] \in {0, incarnation'[n]}
                       /\ \A q \in dialled[m] : q.node = n => q = Process(n)'
    BY <1>1 DEF RegisteredDialIsCurrent
  <2>1. n # s /\ incarnation'[n] = incarnation[n] /\ Process(n)' = Process(n)
    BY <1>1, <1>2 DEF Process
  <2>. QED
    BY <2>1 DEF RegisteredDialIsCurrent
<1>. QED
  BY <1>3, <1>4 DEF DialInv

\* A process that dies loses its connections, and with them what they say.
LEMMA KillServerDials ==
    ASSUME IndInv, OneConnector, RegisteredDialIsCurrent, NEW s \in Nodes, KillServer(s)
    PROVE  DialInv'
<1>1. /\ UNCHANGED incarnation
      /\ \A m \in Nodes : dialing'[m] = IF m = s THEN {} ELSE dialing[m]
      /\ \A m \in Nodes : dialled'[m] = IF m = s THEN {} ELSE dialled[m]
      /\ \A m \in Nodes : handshakes'[m] = IF m = s THEN {} ELSE handshakes[m]
      /\ \A m, p \in Nodes : peer_connections'[m][p] =
                                 IF m = s THEN 0 ELSE peer_connections[m][p]
  BY DEF IndInv, TypeOK, PeersTypeOK, KillServer
<1>2. OneConnector'
  <2>1. \A m \in Nodes : dialing[m] \subseteq Nodes /\ \A q \in dialled[m] : q.node \in Nodes
    BY DEF IndInv, TypeOK, PeersTypeOK, Processes
  <2>. QED
    BY <1>1, <2>1 DEF OneConnector
<1>3. RegisteredDialIsCurrent'
  <2>. SUFFICES ASSUME NEW n \in Nodes, NEW m \in Nodes, n < m,
                       peer_connections'[n][m] # 0 \/ \E h \in handshakes'[n] : h.node = m
                PROVE  /\ peer_connections'[m][n] \in {0, incarnation[n]}
                       /\ \A q \in dialled'[m] : q.node = n => q = Process(n)
    BY <1>1 DEF RegisteredDialIsCurrent, Process
  <2>1. peer_connections[n][m] # 0 \/ \E h \in handshakes[n] : h.node = m
    BY <1>1
  <2>2. CASE m = s
    BY <1>1, <2>2
  <2>3. CASE m # s
    BY <1>1, <2>1, <2>3 DEF RegisteredDialIsCurrent
  <2>. QED
    BY <2>2, <2>3
<1>. QED
  BY <1>2, <1>3 DEF DialInv

\* The connector that dials a peer is the only one, and reaches the present
\* process.
LEMMA ConnectToPeerDials ==
    ASSUME IndInv, OneConnector, RegisteredDialIsCurrent,
           NEW s \in Nodes, NEW p \in dialing[s], ConnectToPeer(s, p)
    PROVE  DialInv'
<1>1. /\ UNCHANGED <<incarnation, peer_connections, handshakes>>
      /\ \A m \in Nodes : dialing'[m] = IF m = s THEN dialing[m] \ {p} ELSE dialing[m]
      /\ \A m \in Nodes : dialled'[m] = IF m = s THEN dialled[m] \cup {Process(p)}
                                        ELSE dialled[m]
  BY DEF IndInv, TypeOK, PeersTypeOK, ConnectToPeer, DialsNoMore
<1>2. OneConnector'
  <2>1. Process(p).node = p /\ peer_connections[s][p] = 0
        /\ \A q \in dialled[s] : q.node # p
    BY DEF OneConnector, Process
  <2>. SUFFICES ASSUME NEW m \in Nodes
                PROVE  /\ \A q \in dialing'[m] : peer_connections'[m][q] = 0
                       /\ \A q \in dialled'[m] :
                             /\ q.node \notin dialing'[m]
                             /\ peer_connections'[m][q.node] = 0
                             /\ \A r \in dialled'[m] : r.node = q.node => r = q
    BY DEF OneConnector
  <2>2. CASE m = s
    <3>1. /\ \A q \in dialing'[s] : q \in dialing[s] /\ q # p
          /\ \A q \in dialled'[s] : q \in dialled[s] \/ q = Process(p)
      BY <1>1
    <3>2. \A q \in dialing'[s] : peer_connections'[s][q] = 0
      BY <1>1, <3>1 DEF OneConnector
    <3>3. \A q \in dialled'[s] : /\ q.node \notin dialing'[s]
                                /\ peer_connections'[s][q.node] = 0
      BY <1>1, <2>1, <3>1 DEF OneConnector
    <3>4. \A q, r \in dialled'[s] : r.node = q.node => r = q
      BY <2>1, <3>1 DEF OneConnector
    <3>. QED
      BY <2>2, <3>2, <3>3, <3>4
  <2>3. CASE m # s
    BY <1>1, <2>3 DEF OneConnector
  <2>. QED
    BY <2>2, <2>3
<1>3. RegisteredDialIsCurrent'
  <2>. SUFFICES ASSUME NEW n \in Nodes, NEW m \in Nodes, n < m,
                       peer_connections[n][m] # 0 \/ \E h \in handshakes[n] : h.node = m
                PROVE  /\ peer_connections[m][n] \in {0, incarnation[n]}
                       /\ \A q \in dialled'[m] : q.node = n => q = Process(n)
    BY <1>1 DEF RegisteredDialIsCurrent, Process
  <2>1. \A q \in dialled'[m] : q \in dialled[m] \/ q = Process(p)
    BY <1>1
  <2>2. Process(p).node = p
    BY DEF Process
  <2>. QED
    BY <2>1, <2>2 DEF RegisteredDialIsCurrent
<1>. QED
  BY <1>2, <1>3 DEF DialInv

\* A registration reaches only the process that the connector has reached.
LEMMA RegisterWithPeerDials ==
    ASSUME IndInv, OneConnector, RegisteredDialIsCurrent, NEW s \in Nodes, NEW peer \in dialled[s],
           RegisterWithPeer(s, peer)
    PROVE  DialInv'
<1>1. /\ peer.node \in Nodes /\ peer.node < s /\ peer.node # s
      /\ \A m \in Nodes : dialing[m] \subseteq Nodes /\ \A q \in dialled[m] : q.node \in Nodes
  BY NodesAssumption DEF IndInv, TypeOK, PeersTypeOK, Processes, ConnectorsDialDown
<1>2. /\ UNCHANGED <<incarnation, dialing>>
      /\ \A m \in Nodes : dialled'[m] = IF m = s THEN dialled[m] \ {peer} ELSE dialled[m]
      /\ \A m, p \in Nodes : peer_connections'[m][p] =
             IF m = s /\ p = peer.node THEN peer.start ELSE peer_connections[m][p]
  BY <1>1 DEF IndInv, TypeOK, PeersTypeOK, RegisterWithPeer
<1>3. /\ \A n \in Nodes : n # peer.node => handshakes'[n] = handshakes[n]
      /\ \/ handshakes'[peer.node] = handshakes[peer.node] \cup {Process(s)}
            /\ peer = Process(peer.node)
         \/ handshakes'[peer.node] = handshakes[peer.node]
  BY <1>1 DEF IndInv, TypeOK, PeersTypeOK, RegisterWithPeer
<1>6. \A q \in dialled'[s] : q \in dialled[s] /\ q.node # peer.node
  <2>1. \A q \in dialled[s] : q.node = peer.node => q = peer
    BY DEF OneConnector
  <2>. QED
    BY <1>2, <2>1
<1>4. OneConnector'
  <2>1. /\ peer.node \notin dialing[s]
        /\ \A q \in dialled'[s] : q.node # peer.node
    BY <1>6 DEF OneConnector
  <2>. SUFFICES ASSUME NEW m \in Nodes
                PROVE  /\ \A q \in dialing'[m] : peer_connections'[m][q] = 0
                       /\ \A q \in dialled'[m] :
                             /\ q.node \notin dialing'[m]
                             /\ peer_connections'[m][q.node] = 0
                             /\ \A r \in dialled'[m] : r.node = q.node => r = q
    BY DEF OneConnector
  <2>5. /\ \A q \in dialing[m] :
              q \in Nodes /\ (m # s \/ q # peer.node) /\ peer_connections[m][q] = 0
        /\ \A q \in dialled'[m] :
              q \in dialled[m] /\ q.node \in Nodes /\ (m # s \/ q.node # peer.node)
    BY <1>1, <1>2, <1>6, <2>1 DEF OneConnector
  <2>2. \A q \in dialing'[m] : peer_connections'[m][q] = 0
    BY <1>2, <2>5
  <2>3. \A q \in dialled'[m] :
            /\ q.node \notin dialing'[m]
            /\ peer_connections'[m][q.node] = peer_connections[m][q.node]
            /\ peer_connections[m][q.node] = 0
    BY <1>2, <2>5 DEF OneConnector
  <2>4. \A q, r \in dialled'[m] : r.node = q.node => r = q
    BY <2>5 DEF OneConnector
  <2>. QED
    BY <2>2, <2>3, <2>4
<1>5. RegisteredDialIsCurrent'
  <2>. SUFFICES ASSUME NEW n \in Nodes, NEW m \in Nodes, n < m,
                       peer_connections'[n][m] # 0 \/ \E h \in handshakes'[n] : h.node = m
                PROVE  /\ peer_connections'[m][n] \in {0, incarnation[n]}
                       /\ \A q \in dialled'[m] : q.node = n => q = Process(n)
    BY <1>2 DEF RegisteredDialIsCurrent, Process
  <2>1. CASE m = s /\ n = peer.node
    <3>1. peer_connections'[n][m] = peer_connections[n][m]
      BY <1>1, <1>2, <2>1
    <3>2. peer = Process(n)
      BY <1>3, <2>1, <3>1 DEF RegisteredDialIsCurrent
    <3>3. \A q \in dialled'[s] : q.node # peer.node
      BY <1>6
    <3>. QED
      BY <1>2, <2>1, <3>2, <3>3 DEF Process
  <2>2. CASE ~(m = s /\ n = peer.node)
    <3>1. peer_connections'[n][m] = peer_connections[n][m]
      BY <1>1, <1>2, NodesAssumption
    <3>2. \A h \in handshakes'[n] : h.node = m => h \in handshakes[n]
      BY <1>3, <2>2 DEF Process
    <3>3. /\ peer_connections'[m][n] = peer_connections[m][n]
          /\ dialled'[m] \subseteq dialled[m]
      BY <1>2, <2>2
    <3>. QED
      BY <3>1, <3>2, <3>3 DEF RegisteredDialIsCurrent
  <2>. QED
    BY <2>1, <2>2
<1>. QED
  BY <1>4, <1>5 DEF DialInv

\* What the listener registers was under way to it.
LEMMA AcceptPeerDials ==
    ASSUME IndInv, OneConnector, RegisteredDialIsCurrent,
           NEW s \in Nodes, NEW h \in handshakes[s], AcceptPeer(s, h)
    PROVE  DialInv'
<1>1. h.node \in Nodes /\ s < h.node /\ s # h.node
  BY NodesAssumption DEF IndInv, TypeOK, PeersTypeOK, Processes, Dialers
<1>2. /\ UNCHANGED <<incarnation, dialing, dialled>>
      /\ \A n \in Nodes : handshakes'[n] \subseteq handshakes[n]
      /\ \A n, p \in Nodes : peer_connections'[n][p] =
             IF n = s /\ p = h.node THEN h.start ELSE peer_connections[n][p]
  BY <1>1 DEF IndInv, TypeOK, PeersTypeOK, AcceptPeer
<1>3. OneConnector'
  <2>1. \A n \in Nodes : /\ \A p \in dialing[n] : p \in Nodes /\ p < n
                         /\ \A q \in dialled[n] : q.node \in Nodes /\ q.node < n
    BY DEF IndInv, TypeOK, PeersTypeOK, Processes, ConnectorsDialDown, PeersToDial
  <2>2. ASSUME NEW n \in Nodes, NEW p \in Nodes, p < n
        PROVE  peer_connections'[n][p] = peer_connections[n][p]
    <3>1. n \in Nat /\ p \in Nat /\ s \in Nat /\ h.node \in Nat
      BY <1>1, NodesAssumption
    <3>2. ~(n = s /\ p = h.node)
      BY <1>1, <2>2, <3>1
    <3>. QED
      BY <1>2, <3>2
  <2>. QED
    BY <1>2, <2>1, <2>2 DEF OneConnector
<1>4. RegisteredDialIsCurrent'
  <2>. SUFFICES ASSUME NEW n \in Nodes, NEW m \in Nodes, n < m,
                       peer_connections'[n][m] # 0 \/ \E d \in handshakes'[n] : d.node = m
                PROVE  /\ peer_connections'[m][n] \in {0, incarnation[n]}
                       /\ \A q \in dialled[m] : q.node = n => q = Process(n)
    BY <1>2 DEF RegisteredDialIsCurrent, Process
  <2>1. peer_connections[n][m] # 0 \/ \E d \in handshakes[n] : d.node = m
    BY <1>2
  <2>2. peer_connections'[m][n] = peer_connections[m][n]
    BY <1>1, <1>2, NodesAssumption
  <2>. QED
    BY <2>1, <2>2 DEF RegisteredDialIsCurrent
<1>. QED
  BY <1>3, <1>4 DEF DialInv

LEMMA NextDialInv == IndInv /\ DialInv /\ [Next]_vars => DialInv'
<1>. SUFFICES ASSUME IndInv, DialInv, [Next]_vars PROVE DialInv'
  OBVIOUS
<1>1. CASE UNCHANGED <<incarnation, dialing, dialled, peer_connections, handshakes>>
  BY <1>1, DialFrame DEF DialInv
<1>2. ASSUME NEW n \in Nodes, NEW peer \in dialled[n], FailToRegister(n, peer)
      PROVE  DialInv'
  <2>1. /\ UNCHANGED <<incarnation, dialing, peer_connections, handshakes>>
        /\ \A m \in Nodes : dialled'[m] \subseteq dialled[m]
    BY <1>2 DEF IndInv, TypeOK, PeersTypeOK, FailToRegister
  <2>. QED
    BY <2>1 DEF DialInv, OneConnector, RegisteredDialIsCurrent, Process
<1>3. ASSUME NEW n \in Nodes, NEW h \in handshakes[n], MissPeer(n, h)
      PROVE  DialInv'
  <2>1. /\ UNCHANGED <<incarnation, dialing, dialled, peer_connections>>
        /\ \A m \in Nodes : handshakes'[m] \subseteq handshakes[m]
    BY <1>3 DEF IndInv, TypeOK, PeersTypeOK, MissPeer
  <2>. QED
    BY <2>1, DialFrame DEF DialInv
<1>4. ASSUME NEW n \in Nodes, Work(n)
      PROVE  DialInv'
  <2>1. CASE \E p \in dialing[n] : ConnectToPeer(n, p)
    BY <2>1, ConnectToPeerDials DEF DialInv
  <2>2. CASE \E peer \in dialled[n] : RegisterWithPeer(n, peer) \/ FailToRegister(n, peer)
    BY <1>2, <2>2, RegisterWithPeerDials DEF DialInv
  <2>3. CASE \E h \in handshakes[n] : AcceptPeer(n, h) \/ MissPeer(n, h)
    BY <1>3, <2>3, AcceptPeerDials DEF DialInv
  <2>4. CASE \E i \in client_handshakes[n] : AcceptClient(n, i) \/ MissClient(n, i)
    BY <1>1, <2>4 DEF AcceptClient, MissClient
  <2>5. CASE \E id \in DOMAIN client_ids[n] : InsertClient(n, id)
    BY <1>1, <2>5 DEF InsertClient
  <2>6. CASE AttemptLeadership(n) \/ GainLeadership(n) \/ LeadStart(n)
    BY <1>1, <2>6 DEF AttemptLeadership, GainLeadership, LeadStart
  <2>7. CASE \E s \in signals : FollowStart(n, s)
    BY <1>1, <2>7 DEF FollowStart
  <2>8. CASE ConnectShim(n) \/ TakeStartSignal(n) \/ AwaitShim(n)
    BY <1>1, <2>8 DEF ConnectShim, TakeStartSignal, AwaitShim, serverVars
  <2>. QED
    BY <1>4, <2>1, <2>2, <2>3, <2>4, <2>5, <2>6, <2>7, <2>8 DEF Work
<1>5. ASSUME NEW n \in Nodes, StartUp(n) \/ Die(n)
      PROVE  DialInv'
  <2>1. CASE StartShim(n) \/ KillShim(n)
    BY <1>1, <2>1 DEF StartShim, KillShim, serverVars
  <2>. QED
    BY <1>5, <2>1, StartServerDials, KillServerDials DEF StartUp, Die, DialInv
<1>6. CASE UNCHANGED vars
  BY <1>1, <1>6 DEF vars, serverVars
<1>. QED
  BY <1>4, <1>5, <1>6 DEF Next

\* However often servers die and are started again: of two servers whose
\* Network::new has resolved, the one that dials is connected to the present
\* process of the other (server/network.rs:55, 99-116, 206-241); the one that
\* listens need not be (run startup_half_connected).
THEOREM DialerConnectionSafety == Spec => []DialersAreConnected
<1>1. IndInv /\ DialInv => DialersAreConnected
  <2>. SUFFICES ASSUME IndInv, DialInv, NEW n \in Nodes, NEW p \in Nodes, p < n,
                       InOperation(n), InOperation(p)
                PROVE  peer_connections[n][p] = incarnation[p]
    BY DEF DialersAreConnected
  <2>1. peer_connections[n][p] # 0 /\ peer_connections[p][n] # 0
    BY NodesAssumption DEF IndInv, OperationIsComplete, Peers
  <2>. QED
    BY <2>1 DEF DialInv, RegisteredDialIsCurrent
<1>. QED
  BY <1>1, Invariance, InitDialInv, NextDialInv, PTL DEF Spec

(***************************************************************************)
(* The clients that are started                                            *)
(***************************************************************************)

\* A client of a server is a shim of its node that has connected.
ClientsAreShims ==
    \A n \in Nodes : \A i \in Nat :
        \/ i \in client_handshakes[n]
        \/ \E id \in DOMAIN client_ids[n] : client_ids[n][id] = i
        => /\ i <= shim_incarnation[n]
           /\ shim_phase[n] = "connecting" => i < shim_incarnation[n]

\* The shim has not connected yet.
IsToConnect(n) == IF shim_phase[n] = "connecting" THEN 1 ELSE 0

\* No shim registers twice.
ClientsAreCounted ==
    \A n \in Nodes :
        /\ IsFiniteSet(client_handshakes[n])
        /\ Len(client_ids[n]) + Cardinality(client_handshakes[n])
              + IsToConnect(n) <= shim_incarnation[n]
        /\ shim_incarnation[n] <= MaxShimStarts

\* A server that serves has started the connected clients of its first
\* num_clients ids.
FirstClientsAreStarted ==
    \A n \in Nodes :
        phase[n] = "serving" /\ shim_phase[n] # "off" =>
            \A id \in StartedClientIds \cap client_connections[n] :
                client_ids[n][id] = shim_incarnation[n] =>
                    shim_incarnation[n] \in start_signals[n]

ClientsInv == ClientsAreShims /\ ClientsAreCounted /\ FirstClientsAreStarted

LEMMA InitClientsInv == Init => ClientsInv
BY FS_EmptySet, BoundsAssumption
   DEF Init, ClientsInv, ClientsAreShims, ClientsAreCounted,
       FirstClientsAreStarted, IsToConnect

\* What a step leaves alone of a node's clients.
LEMMA OtherClients ==
    ASSUME ClientsInv, NEW n \in Nodes,
           /\ \A m \in Nodes : m # n =>
                /\ client_handshakes'[m] = client_handshakes[m]
                /\ client_ids'[m] = client_ids[m]
                /\ client_connections'[m] = client_connections[m]
                /\ shim_incarnation'[m] = shim_incarnation[m]
                /\ shim_phase'[m] = shim_phase[m]
                /\ start_signals'[m] = start_signals[m]
                /\ phase'[m] = "serving" => phase[m] = "serving",
           \* what is to be shown of n itself
           \A i \in Nat :
               \/ i \in client_handshakes'[n]
               \/ \E id \in DOMAIN client_ids'[n] :
                      client_ids'[n][id] = i
               => /\ i <= shim_incarnation'[n]
                  /\ shim_phase'[n] = "connecting" => i < shim_incarnation'[n],
           IsFiniteSet(client_handshakes'[n]),
           Len(client_ids'[n]) + Cardinality(client_handshakes'[n])
              + IsToConnect(n)' <= shim_incarnation'[n],
           shim_incarnation'[n] <= MaxShimStarts,
           phase'[n] = "serving" /\ shim_phase'[n] # "off" =>
               \A id \in StartedClientIds \cap client_connections'[n] :
                   client_ids'[n][id] = shim_incarnation'[n] =>
                       shim_incarnation'[n] \in start_signals'[n]
    PROVE  ClientsInv'
<1>1. ClientsAreShims'
  BY DEF ClientsInv, ClientsAreShims
<1>2. ClientsAreCounted'
  BY DEF ClientsInv, ClientsAreCounted, IsToConnect
<1>3. FirstClientsAreStarted'
  BY DEF ClientsInv, FirstClientsAreStarted, StartedClientIds
<1>. QED
  BY <1>1, <1>2, <1>3 DEF ClientsInv

LEMMA ClientsTypes ==
    ASSUME IndInv, NEW n \in Nodes
    PROVE  /\ client_ids \in [Nodes -> Seq(Nat)]
           /\ client_handshakes \in [Nodes -> SUBSET Nat]
           /\ shim_incarnation \in [Nodes -> Nat]
           /\ shim_phase \in [Nodes -> ShimPhases]
           /\ start_signals \in [Nodes -> SUBSET Nat]
           /\ phase \in [Nodes -> Phases]
           /\ Len(client_ids[n]) \in Nat
           /\ client_connections \in [Nodes -> SUBSET Nat]
           /\ client_connections[n] \subseteq DOMAIN client_ids[n]
<1>1. /\ client_ids \in [Nodes -> Seq(Nat)]
      /\ client_handshakes \in [Nodes -> SUBSET Nat]
      /\ shim_incarnation \in [Nodes -> Nat]
      /\ shim_phase \in [Nodes -> ShimPhases]
      /\ start_signals \in [Nodes -> SUBSET Nat]
      /\ phase \in [Nodes -> Phases]
  BY DEF IndInv, TypeOK, ServersTypeOK, ClientsTypeOK, SignalsTypeOK
<1>2. Len(client_ids[n]) \in Nat
  BY <1>1
<1>3. /\ client_connections \in [Nodes -> SUBSET Nat]
      /\ client_connections[n] \subseteq DOMAIN client_ids[n]
  BY DEF IndInv, TypeOK, ClientsTypeOK
<1>. QED
  BY <1>1, <1>2, <1>3

\* Steps that have nothing to do with clients.
LEMMA ClientsFrame ==
    ASSUME ClientsInv,
           UNCHANGED <<clientVars, shimVars>>,
           \A m \in Nodes : phase'[m] = "serving" => phase[m] = "serving"
    PROVE  ClientsInv'
<1>1. ClientsAreShims'
  BY DEF ClientsInv, ClientsAreShims, shimVars
<1>2. ClientsAreCounted'
  BY DEF ClientsInv, ClientsAreCounted, IsToConnect, shimVars
<1>3. FirstClientsAreStarted'
  BY DEF ClientsInv, FirstClientsAreStarted, StartedClientIds, shimVars
<1>. QED
  BY <1>1, <1>2, <1>3 DEF ClientsInv

\* A shim that starts has an incarnation that no client of its server has.
LEMMA StartShimClients ==
    ASSUME IndInv, ClientsInv, NEW n \in Nodes, StartShim(n)
    PROVE  ClientsInv'
<1>1. /\ shim_phase[n] = "off" /\ shim_incarnation[n] < MaxShimStarts
      /\ shim_phase' = [shim_phase EXCEPT ![n] = "connecting"]
      /\ shim_incarnation' = [shim_incarnation EXCEPT ![n] = shim_incarnation[n] + 1]
      /\ UNCHANGED <<clientVars, start_signals, phase>>
  BY DEF StartShim, serverVars
<1>2. /\ shim_phase'[n] = "connecting"
      /\ shim_incarnation'[n] = shim_incarnation[n] + 1
      /\ shim_incarnation[n] \in Nat
      /\ \A m \in Nodes : m # n => /\ shim_phase'[m] = shim_phase[m]
                                   /\ shim_incarnation'[m] = shim_incarnation[m]
  BY <1>1, ClientsTypes
<1>3. \A i \in Nat :
          \/ i \in client_handshakes[n]
          \/ \E id \in DOMAIN client_ids[n] : client_ids[n][id] = i
          => i < shim_incarnation'[n]
  BY <1>2 DEF ClientsInv, ClientsAreShims
<1>4. /\ IsFiniteSet(client_handshakes[n])
      /\ Len(client_ids[n]) + Cardinality(client_handshakes[n]) + 1
             <= shim_incarnation'[n]
      /\ IsToConnect(n)' = 1
  <2>1. Len(client_ids[n]) \in Nat
    BY ClientsTypes
  <2>2. /\ IsFiniteSet(client_handshakes[n])
        /\ Len(client_ids[n]) + Cardinality(client_handshakes[n]) + 0
               <= shim_incarnation[n]
    BY <1>1 DEF ClientsInv, ClientsAreCounted, IsToConnect
  <2>3. Cardinality(client_handshakes[n]) \in Nat
    BY <2>2, FS_CardinalityType
  <2>. QED
    BY <1>2, <2>1, <2>2, <2>3 DEF IsToConnect
<1>5. ASSUME NEW id \in StartedClientIds \cap client_connections[n]
      PROVE  client_ids[n][id] # shim_incarnation'[n]
  <2>1. id \in DOMAIN client_ids[n] /\ client_ids[n][id] \in Nat
    BY ClientsTypes
  <2>2. client_ids[n][id] < shim_incarnation'[n]
    BY <1>3, <2>1
  <2>. QED
    BY <1>2, <2>1, <2>2
<1>6. shim_incarnation'[n] <= MaxShimStarts
  BY <1>1, <1>2, BoundsAssumption
<1>. QED
  BY <1>1, <1>2, <1>3, <1>4, <1>5, <1>6, OtherClients

LEMMA KillShimClients ==
    ASSUME IndInv, ClientsInv, NEW n \in Nodes, KillShim(n)
    PROVE  ClientsInv'
<1>1. /\ shim_phase' = [shim_phase EXCEPT ![n] = "off"]
      /\ start_signals' = [start_signals EXCEPT ![n] = {}]
      /\ UNCHANGED <<clientVars, shim_incarnation, phase>>
  BY DEF KillShim, serverVars
<1>2. /\ shim_phase'[n] = "off"
      /\ \A m \in Nodes : m # n => /\ shim_phase'[m] = shim_phase[m]
                                   /\ start_signals'[m] = start_signals[m]
  BY <1>1, ClientsTypes
<1>3. /\ IsFiniteSet(client_handshakes[n])
      /\ Len(client_ids[n]) + Cardinality(client_handshakes[n])
             + IsToConnect(n)' <= shim_incarnation[n]
      /\ shim_incarnation[n] <= MaxShimStarts
  <2>1. Len(client_ids[n]) \in Nat /\ shim_incarnation[n] \in Nat
    BY ClientsTypes
  <2>2. /\ IsFiniteSet(client_handshakes[n])
        /\ Len(client_ids[n]) + Cardinality(client_handshakes[n])
               + IsToConnect(n) <= shim_incarnation[n]
        /\ shim_incarnation[n] <= MaxShimStarts
    BY DEF ClientsInv, ClientsAreCounted
  <2>3. Cardinality(client_handshakes[n]) \in Nat
    BY <2>2, FS_CardinalityType
  <2>4. IsToConnect(n)' = 0 /\ IsToConnect(n) \in {0, 1}
    BY <1>2 DEF IsToConnect
  <2>. QED
    BY <2>1, <2>2, <2>3, <2>4
<1>4. \A i \in Nat :
          \/ i \in client_handshakes[n]
          \/ \E id \in DOMAIN client_ids[n] : client_ids[n][id] = i
          => i <= shim_incarnation[n]
  BY DEF ClientsInv, ClientsAreShims
<1>. QED
  BY <1>1, <1>2, <1>3, <1>4, OtherClients

\* get_server_connection: from now on the shim has a handshake under way.
LEMMA ConnectShimClients ==
    ASSUME IndInv, ClientsInv, NEW n \in Nodes, ConnectShim(n)
    PROVE  ClientsInv'
<1> DEFINE i == shim_incarnation[n]
<1>1. /\ shim_phase[n] = "connecting" /\ phase[n] = "connecting"
      /\ shim_phase' = [shim_phase EXCEPT ![n] = "waiting"]
      /\ client_handshakes' = [client_handshakes EXCEPT ![n] =
                                  client_handshakes[n] \cup {i}]
      /\ UNCHANGED <<client_ids, client_connections, shim_incarnation, start_signals,
                     phase>>
  BY DEF ConnectShim, Listening
<1>2. /\ shim_phase'[n] = "waiting" /\ i \in Nat
      /\ client_handshakes'[n] = client_handshakes[n] \cup {i}
      /\ \A m \in Nodes : m # n => /\ shim_phase'[m] = shim_phase[m]
                                   /\ client_handshakes'[m] = client_handshakes[m]
  BY <1>1, ClientsTypes
<1>3. \A j \in Nat :
          \/ j \in client_handshakes'[n]
          \/ \E id \in DOMAIN client_ids[n] : client_ids[n][id] = j
          => j <= i
  BY <1>1, <1>2 DEF ClientsInv, ClientsAreShims
<1>4. /\ IsFiniteSet(client_handshakes'[n])
      /\ Len(client_ids[n]) + Cardinality(client_handshakes'[n])
             + IsToConnect(n)' <= i
      /\ i <= MaxShimStarts
  <2>1. Len(client_ids[n]) \in Nat
    BY ClientsTypes
  <2>2. /\ IsFiniteSet(client_handshakes[n])
        /\ Len(client_ids[n]) + Cardinality(client_handshakes[n])
               + IsToConnect(n) <= i
        /\ i <= MaxShimStarts
    BY DEF ClientsInv, ClientsAreCounted
  <2>3. /\ Cardinality(client_handshakes[n]) \in Nat
        /\ IsFiniteSet(client_handshakes[n] \cup {i})
        /\ Cardinality(client_handshakes[n] \cup {i}) \in
              {Cardinality(client_handshakes[n]), Cardinality(client_handshakes[n]) + 1}
    BY <2>2, FS_CardinalityType, FS_AddElement
  <2>4. IsToConnect(n)' = 0 /\ IsToConnect(n) = 1
    BY <1>1, <1>2 DEF IsToConnect
  <2>. QED
    BY <1>2, <2>1, <2>2, <2>3, <2>4
<1>. HIDE DEF i
<1>. QED
  BY <1>1, <1>2, <1>3, <1>4, OtherClients DEF i

\* ClientRegister: a handshake becomes a client id, or nothing.
LEMMA ClientRegisterClients ==
    ASSUME IndInv, ClientsInv, NEW n \in Nodes, NEW i \in client_handshakes[n],
           AcceptClient(n, i) \/ MissClient(n, i)
    PROVE  ClientsInv'
<1> DEFINE hs == client_handshakes[n]
           cc == client_ids[n]
<1>1. /\ client_handshakes' = [client_handshakes EXCEPT ![n] = hs \ {i}]
      /\ UNCHANGED <<client_connections, phase, shimVars>>
      /\ \/ UNCHANGED client_ids
         \/ /\ client_ids' = [client_ids EXCEPT ![n] = Append(cc, i)]
            /\ phase[n] = "connecting"
  BY DEF AcceptClient, MissClient, Listening
<1>2. /\ client_handshakes'[n] = hs \ {i} /\ i \in Nat /\ i \in hs
      /\ cc \in Seq(Nat) /\ Len(cc) \in Nat /\ shim_incarnation[n] \in Nat
      /\ \/ client_ids'[n] = cc
         \/ client_ids'[n] = Append(cc, i)
      /\ \A m \in Nodes : m # n =>
              /\ client_handshakes'[m] = client_handshakes[m]
              /\ client_ids'[m] = client_ids[m]
  BY <1>1, ClientsTypes
<1>3. ASSUME NEW j \in Nat,
             \/ j \in client_handshakes'[n]
             \/ \E id \in DOMAIN client_ids'[n] :
                    client_ids'[n][id] = j
      PROVE  j \in hs \/ \E id \in DOMAIN cc : cc[id] = j
  <2>1. CASE client_ids'[n] = cc
    BY <1>2, <1>3, <2>1
  <2>2. CASE client_ids'[n] = Append(cc, i)
    <3>1. \A id \in DOMAIN Append(cc, i) :
              Append(cc, i)[id] = i \/ (id \in DOMAIN cc /\ Append(cc, i)[id] = cc[id])
      BY <1>2, AppendProperties
    <3>. HIDE DEF cc, hs
    <3>. QED
      BY <1>2, <1>3, <2>2, <3>1
  <2>. QED
    BY <1>2, <2>1, <2>2
<1>4. \A j \in Nat :
          \/ j \in client_handshakes'[n]
          \/ \E id \in DOMAIN client_ids'[n] : client_ids'[n][id] = j
          => /\ j <= shim_incarnation[n]
             /\ shim_phase[n] = "connecting" => j < shim_incarnation[n]
  <2>1. \A j \in Nat :
            j \in hs \/ (\E id \in DOMAIN cc : cc[id] = j)
            => /\ j <= shim_incarnation[n]
               /\ shim_phase[n] = "connecting" => j < shim_incarnation[n]
    BY DEF ClientsInv, ClientsAreShims
  <2>. HIDE DEF hs, cc
  <2>. QED
    BY <1>3, <2>1
<1>5. /\ IsFiniteSet(client_handshakes'[n])
      /\ Len(client_ids'[n]) + Cardinality(client_handshakes'[n])
             + IsToConnect(n)' <= shim_incarnation[n]
      /\ shim_incarnation[n] <= MaxShimStarts
  <2>1. /\ IsFiniteSet(hs)
        /\ Len(cc) + Cardinality(hs) + IsToConnect(n) <= shim_incarnation[n]
        /\ shim_incarnation[n] <= MaxShimStarts
    BY DEF ClientsInv, ClientsAreCounted
  <2>2. /\ Cardinality(hs) \in Nat /\ IsFiniteSet(hs \ {i})
        /\ Cardinality(hs \ {i}) = Cardinality(hs) - 1
    BY <1>2, <2>1, FS_CardinalityType, FS_RemoveElement
  <2>3. Len(client_ids'[n]) \in {Len(cc), Len(cc) + 1}
    BY <1>2, AppendProperties
  <2>4. IsToConnect(n)' = IsToConnect(n) /\ IsToConnect(n) \in {0, 1}
    BY <1>1 DEF IsToConnect, shimVars
  <2>. HIDE DEF hs, cc
  <2>. QED
    BY <1>2, <2>1, <2>2, <2>3, <2>4
<1>6. phase'[n] = "serving" /\ shim_phase[n] # "off" =>
          \A id \in StartedClientIds \cap client_connections[n] :
              client_ids'[n][id] = shim_incarnation[n] =>
                  shim_incarnation[n] \in start_signals[n]
  BY <1>1 DEF ClientsInv, FirstClientsAreStarted, StartedClientIds
<1>. HIDE DEF hs, cc
<1>. QED
  BY <1>1, <1>2, <1>4, <1>5, <1>6, OtherClients DEF shimVars

\* A connection is inserted while the server does not serve yet.
LEMMA InsertClientClients ==
    ASSUME IndInv, ClientsInv, NEW n \in Nodes, NEW id \in DOMAIN client_ids[n],
           InsertClient(n, id)
    PROVE  ClientsInv'
<1>1. /\ UNCHANGED <<client_ids, client_handshakes, shimVars>>
      /\ phase'[n] # "serving"
      /\ \A m \in Nodes : m # n => /\ phase'[m] = phase[m]
                                   /\ client_connections'[m] = client_connections[m]
  BY CompleteConnectionsPhase, ClientsTypes DEF IndInv, InsertClient, Listening
<1>2. ClientsAreShims' /\ ClientsAreCounted'
  BY <1>1 DEF ClientsInv, ClientsAreShims, ClientsAreCounted, IsToConnect, shimVars
<1>3. FirstClientsAreStarted'
  BY <1>1 DEF ClientsInv, FirstClientsAreStarted, StartedClientIds, shimVars
<1>. QED
  BY <1>2, <1>3 DEF ClientsInv

LEMMA KillServerClients ==
    ASSUME IndInv, ClientsInv, NEW n \in Nodes, KillServer(n)
    PROVE  ClientsInv'
<1>1. /\ client_handshakes' = [client_handshakes EXCEPT ![n] = {}]
      /\ client_ids' = [client_ids EXCEPT ![n] = <<>>]
      /\ client_connections' = [client_connections EXCEPT ![n] = {}]
      /\ phase' = [phase EXCEPT ![n] = "off"]
      /\ UNCHANGED shimVars
  BY DEF KillServer
<1>2. /\ client_handshakes'[n] = {} /\ client_ids'[n] = <<>>
      /\ phase'[n] = "off" /\ shim_incarnation[n] \in Nat
      /\ \A m \in Nodes : m # n =>
              /\ client_handshakes'[m] = client_handshakes[m]
              /\ client_ids'[m] = client_ids[m]
              /\ client_connections'[m] = client_connections[m]
              /\ phase'[m] = phase[m]
  BY <1>1, ClientsTypes
<1>3. /\ IsFiniteSet(client_handshakes[n]) /\ Len(client_ids[n]) \in Nat
      /\ Len(client_ids[n]) + Cardinality(client_handshakes[n])
             + IsToConnect(n) <= shim_incarnation[n]
      /\ shim_incarnation[n] <= MaxShimStarts
  BY ClientsTypes DEF ClientsInv, ClientsAreCounted
<1>4. /\ DOMAIN client_ids'[n] = {}
      /\ IsFiniteSet(client_handshakes'[n])
      /\ Len(client_ids'[n]) + Cardinality(client_handshakes'[n])
            + IsToConnect(n)' <= shim_incarnation'[n]
  <2>1. Cardinality(client_handshakes[n]) \in Nat
    BY <1>3, FS_CardinalityType
  <2>2. /\ IsFiniteSet(client_handshakes'[n])
        /\ Cardinality(client_handshakes'[n]) = 0
    <3>1. client_handshakes'[n] = {}
      BY <1>2
    <3>. QED
      BY <3>1, FS_EmptySet
  <2>3. Len(client_ids'[n]) = 0 /\ DOMAIN client_ids'[n] = {}
    <3>1. client_ids'[n] = <<>>
      BY <1>2
    <3>. QED
      BY <3>1
  <2>4. /\ IsToConnect(n)' = IsToConnect(n) /\ IsToConnect(n) \in {0, 1}
        /\ shim_incarnation'[n] = shim_incarnation[n]
    BY <1>1 DEF IsToConnect, shimVars
  <2>5. IsToConnect(n) <= shim_incarnation[n]
    BY <1>2, <1>3, <2>1, <2>4
  <2>. QED
    BY <1>2, <2>2, <2>3, <2>4, <2>5
<1>5. \A i \in Nat :
          ~ \/ i \in client_handshakes'[n]
            \/ \E id \in DOMAIN client_ids'[n] :
                   client_ids'[n][id] = i
  BY <1>2, <1>4
<1>6. /\ shim_incarnation' = shim_incarnation /\ shim_phase' = shim_phase
      /\ start_signals' = start_signals
  BY <1>1 DEF shimVars
<1>7. \A m \in Nodes : m # n =>
          /\ shim_incarnation'[m] = shim_incarnation[m]
          /\ shim_phase'[m] = shim_phase[m]
          /\ start_signals'[m] = start_signals[m]
          /\ phase'[m] = "serving" => phase[m] = "serving"
  BY <1>2, <1>6
<1>8. phase'[n] # "serving" /\ shim_incarnation'[n] <= MaxShimStarts
  BY <1>2, <1>3, <1>6
<1>. QED
  BY <1>2, <1>4, <1>5, <1>7, <1>8, OtherClients

\* send_client_start_signals, when a server begins to serve.
LEMMA ServeClients ==
    ASSUME IndInv, ClientsInv, NEW n \in Nodes,
           LeadStart(n) \/ \E s \in signals : FollowStart(n, s)
    PROVE  ClientsInv'
<1>1. /\ UNCHANGED <<clientVars, shim_incarnation, shim_phase>>
      /\ SendClientStartSignals(n)
      /\ phase' = [phase EXCEPT ![n] = "serving"]
  BY DEF LeadStart, FollowStart
<1>2. /\ start_signals'[n] = start_signals[n] \cup
            {client_ids[n][id] : id \in StartedClientIds \cap client_connections[n]}
      /\ \A m \in Nodes : m # n => /\ start_signals'[m] = start_signals[m]
                                   /\ phase'[m] = phase[m]
  BY <1>1, ClientsTypes DEF SendClientStartSignals
<1>3. \A id \in StartedClientIds \cap client_connections[n] :
          client_ids[n][id] \in start_signals'[n]
  BY <1>2
<1>4. ClientsAreShims' /\ ClientsAreCounted'
  BY <1>1 DEF ClientsInv, ClientsAreShims, ClientsAreCounted, IsToConnect
<1>5. FirstClientsAreStarted'
  BY <1>1, <1>2, <1>3 DEF ClientsInv, FirstClientsAreStarted, StartedClientIds
<1>. QED
  BY <1>4, <1>5 DEF ClientsInv

LEMMA TakeStartSignalClients ==
    ASSUME IndInv, ClientsInv, NEW n \in Nodes, TakeStartSignal(n)
    PROVE  ClientsInv'
<1>1. /\ shim_phase[n] = "waiting"
      /\ shim_phase' = [shim_phase EXCEPT ![n] = "started"]
      /\ UNCHANGED <<clientVars, shim_incarnation, start_signals, phase>>
  BY DEF TakeStartSignal, serverVars
<1>2. /\ shim_phase'[n] = "started"
      /\ \A m \in Nodes : m # n => shim_phase'[m] = shim_phase[m]
      /\ \A m \in Nodes : shim_phase'[m] = "connecting" <=> shim_phase[m] = "connecting"
      /\ \A m \in Nodes : shim_phase'[m] # "off" => shim_phase[m] # "off"
  BY <1>1, ClientsTypes
<1>3. ClientsAreShims' /\ FirstClientsAreStarted'
  BY <1>1, <1>2 DEF ClientsInv, ClientsAreShims, FirstClientsAreStarted,
                    StartedClientIds
<1>4. ClientsAreCounted'
  <2>1. \A m \in Nodes : IsToConnect(m)' = IsToConnect(m)
    BY <1>2 DEF IsToConnect
  <2>. QED
    BY <1>1, <2>1 DEF ClientsInv, ClientsAreCounted
<1>. QED
  BY <1>3, <1>4 DEF ClientsInv

LEMMA NextClientsInv == IndInv /\ ClientsInv /\ [Next]_vars => ClientsInv'
<1>. SUFFICES ASSUME IndInv, ClientsInv, [Next]_vars PROVE ClientsInv'
  OBVIOUS
<1>1. ASSUME NEW n \in Nodes, StartUp(n) \/ Die(n)
      PROVE  ClientsInv'
  <2>1. CASE StartServer(n)
    <3>1. /\ UNCHANGED <<clientVars, shimVars>>
          /\ phase' = [phase EXCEPT ![n] = "connecting"]
      BY <2>1 DEF StartServer
    <3>2. \A m \in Nodes : phase'[m] = "serving" => phase[m] = "serving"
      BY <3>1, ClientsTypes
    <3>. QED
      BY <3>1, <3>2, ClientsFrame
  <2>. QED
    BY <1>1, <2>1, StartShimClients, KillShimClients, KillServerClients
       DEF StartUp, Die
<1>2. ASSUME NEW n \in Nodes, NEW conns, NEW clients, Listening(n),
             CompleteConnections(n, conns, clients),
             UNCHANGED <<clientVars, shimVars>>
      PROVE  ClientsInv'
  <2>1. \A m \in Nodes : phase'[m] = "serving" => phase[m] = "serving"
    BY <1>2, CompleteConnectionsPhase DEF IndInv
  <2>. QED
    BY <1>2, <2>1, ClientsFrame
<1>3. ASSUME UNCHANGED <<clientVars, shimVars, phase>>
      PROVE  ClientsInv'
  BY <1>3, ClientsFrame
<1>4. ASSUME NEW n \in Nodes, Work(n)
      PROVE  ClientsInv'
  <2>1. ASSUME NEW peer \in dialled[n], RegisterWithPeer(n, peer) PROVE ClientsInv'
    BY <1>2, <2>1 DEF RegisterWithPeer, Listening
  <2>5. CASE \/ \E p \in dialing[n] : ConnectToPeer(n, p)
             \/ \E peer \in dialled[n] : FailToRegister(n, peer)
    BY <1>3, <2>5 DEF ConnectToPeer, FailToRegister
  <2>2. ASSUME NEW h \in handshakes[n], AcceptPeer(n, h) PROVE ClientsInv'
    BY <1>2, <2>2 DEF AcceptPeer
  <2>3. CASE \E h \in handshakes[n] : MissPeer(n, h)
    BY <1>3, <2>3 DEF MissPeer
  <2>4. CASE AttemptLeadership(n) \/ GainLeadership(n) \/ AwaitShim(n)
    BY <1>3, <2>4 DEF AttemptLeadership, GainLeadership, AwaitShim, serverVars
  <2>. QED
    BY <1>4, <2>1, <2>2, <2>3, <2>4, <2>5, ClientRegisterClients, InsertClientClients,
       ServeClients, ConnectShimClients, TakeStartSignalClients DEF Work
<1>5. CASE UNCHANGED vars
  BY <1>3, <1>5 DEF vars, serverVars
<1>. QED
  BY <1>1, <1>4, <1>5 DEF Next

\* If no more shims start than num_clients counts, every client that is
\* connected when its server begins to serve is sent a StartSignal
\* (server.rs:213-219); one start more and it need not be (run
\* startup_late_shim).
THEOREM StartSignalSafety ==
    ASSUME MaxShimStarts <= NumClients
    PROVE  Spec => []ConnectedClientsAreStarted
<1>1. IndInv /\ ClientsInv => ConnectedClientsAreStarted
  <2>. SUFFICES ASSUME IndInv, ClientsInv, NEW n \in Nodes,
                       phase[n] = "serving", shim_phase[n] # "off",
                       NEW id \in client_connections[n],
                       client_ids[n][id] = shim_incarnation[n]
                PROVE  shim_incarnation[n] \in start_signals[n]
    BY DEF ConnectedClientsAreStarted
  <2>1. /\ Len(client_ids[n]) \in Nat /\ shim_incarnation[n] \in Nat
        /\ DOMAIN client_ids[n] = 1 .. Len(client_ids[n]) /\ id \in DOMAIN client_ids[n]
    BY ClientsTypes
  <2>2. /\ IsFiniteSet(client_handshakes[n])
        /\ Len(client_ids[n]) + Cardinality(client_handshakes[n])
               + IsToConnect(n) <= shim_incarnation[n]
        /\ shim_incarnation[n] <= MaxShimStarts
    BY DEF ClientsInv, ClientsAreCounted
  <2>3. Cardinality(client_handshakes[n]) \in Nat /\ IsToConnect(n) \in {0, 1}
    BY <2>2, FS_CardinalityType DEF IsToConnect
  <2>4. id \in StartedClientIds
    BY <2>1, <2>2, <2>3, BoundsAssumption, NumClientsAssumption DEF StartedClientIds
  <2>. QED
    BY <2>4 DEF ClientsInv, FirstClientsAreStarted
<1>. QED
  BY <1>1, Invariance, InitClientsInv, NextClientsInv, PTL DEF Spec

(***************************************************************************)
(* The start comes to rest only when it is complete                        *)
(***************************************************************************)

\* What runs has been started, and a shim has found a server.
RunningWasStarted ==
    \A n \in Nodes :
        /\ phase[n] # "off" => incarnation[n] # 0
        /\ incarnation[n] = 0 => shim_phase[n] \in {"off", "connecting"}
        /\ \A h \in handshakes[n] : h.start # 0

\* Who is connected to a greater id, or has its registration, was dialled.
DialedIsConnected ==
    \A m, p \in Nodes :
        m < p /\ (peer_connections[m][p] # 0 \/ \E h \in handshakes[m] : h.node = p)
        => phase[p] = "off" \/ peer_connections[p][m] # 0

\* No registration is lost while both its ends live and wait for it.
DialIsNotLost ==
    \A m, p \in Nodes :
        /\ m < p /\ peer_connections[p][m] # 0
        /\ phase[m] = "connecting" /\ phase[p] # "off"
        => Process(p) \in handshakes[m] \/ peer_connections[m][p] # 0

\* No connector gives up while its peer lives.
ConnectorIsNotLost ==
    \A p, m \in Nodes :
        phase[p] = "connecting" /\ m < p /\ peer_connections[p][m] = 0 =>
            \/ m \in dialing[p]
            \/ \E q \in dialled[p] : q.node = m
            \/ phase[m] = "off" /\ incarnation[m] # 0

\* A dialer is read, or its first messages were discarded.
AcceptedIsRead ==
    \A m, p \in Nodes :
        m < p /\ peer_connections[m][p] # 0 =>
            [node |-> p, start |-> peer_connections[m][p]] \in readers[m] \cup unheard[m]

\* Nor is the registration of a shim.
ClientIsNotLost ==
    \A n \in Nodes :
        shim_phase[n] \in {"waiting", "started"} /\ phase[n] = "connecting" =>
            \/ shim_incarnation[n] \in client_handshakes[n]
            \/ \E id \in DOMAIN client_ids[n] :
                   client_ids[n][id] = shim_incarnation[n]

\* Only the initial leader tries to lead, when it is in operation; it hears
\* all that is sent to it, because nobody sends anything before.
OnlyLeaderLeads ==
    /\ phase[InitialLeader] = "connecting" \/ incarnation[InitialLeader] = 0
       => ~promoted
    /\ \A m \in Nodes : leadership[m] # "none" => m = InitialLeader /\ InOperation(m)
    /\ unheard[InitialLeader] = {}
    /\ \A s \in signals : s.to.node # InitialLeader

\* No LeaderStartSignal is lost unseen.
SignalIsNotLost ==
    \A n \in Nodes :
        phase[InitialLeader] = "serving" /\ n # InitialLeader /\ phase[n] # "off" =>
            \/ phase[n] = "serving"
            \/ Process(InitialLeader) \in unheard[n]
            \/ [from |-> Process(InitialLeader), to |-> Process(n)] \in signals

RestInv ==
    /\ RunningWasStarted
    /\ DialedIsConnected
    /\ DialIsNotLost
    /\ ConnectorIsNotLost
    /\ AcceptedIsRead
    /\ ClientIsNotLost
    /\ OnlyLeaderLeads
    /\ SignalIsNotLost

LEMMA InitRestInv == Init => RestInv
<1>. SUFFICES ASSUME Init PROVE RestInv
  OBVIOUS
<1>. USE NodesAssumption DEF Init
<1>1. RunningWasStarted /\ DialedIsConnected /\ DialIsNotLost /\ AcceptedIsRead
  BY DEF RunningWasStarted, DialedIsConnected, DialIsNotLost, AcceptedIsRead
<1>2. ConnectorIsNotLost /\ ClientIsNotLost /\ OnlyLeaderLeads /\ SignalIsNotLost
  BY DEF ConnectorIsNotLost, ClientIsNotLost, OnlyLeaderLeads, SignalIsNotLost
<1>. QED
  BY <1>1, <1>2 DEF RestInv

\* A step that neither starts nor kills a server.
PhasesOnlyAdvance ==
    \A m \in Nodes :
        /\ phase'[m] = "off" <=> phase[m] = "off"
        /\ phase'[m] = "connecting" => phase[m] = "connecting"
        /\ phase[m] = "serving" => phase'[m] = "serving"
        /\ phase[m] = "electing" => phase'[m] \in {"electing", "serving"}

LEMMA ConnectingAdvances ==
    ASSUME IndInv, NEW n \in Nodes, NEW conns, NEW clients,
           Listening(n), CompleteConnections(n, conns, clients)
    PROVE  PhasesOnlyAdvance /\ \A m \in Nodes : phase'[m] = "serving" => phase[m] = "serving"
BY CompleteConnectionsPhase DEF IndInv, Listening, PhasesOnlyAdvance

\* What a step must change to touch a part of the invariant.
LEMMA RestFrame ==
    ASSUME RestInv, PhasesOnlyAdvance, UNCHANGED incarnation
    PROVE  /\ UNCHANGED <<shim_phase, handshakes>> => RunningWasStarted'
           /\ UNCHANGED <<peer_connections, handshakes>> => DialedIsConnected'
           /\ UNCHANGED <<peer_connections, handshakes>> => DialIsNotLost'
           /\ UNCHANGED <<dialing, dialled, peer_connections>> => ConnectorIsNotLost'
           /\ UNCHANGED <<peer_connections, readers, unheard>> => AcceptedIsRead'
           /\ UNCHANGED <<shim_phase, shim_incarnation, client_handshakes,
                          client_ids>> => ClientIsNotLost'
           /\ UNCHANGED <<promoted, leadership, unheard, signals>> => OnlyLeaderLeads'
           /\ UNCHANGED <<unheard, signals>>
              /\ (phase'[InitialLeader] = "serving" => phase[InitialLeader] = "serving")
              => SignalIsNotLost'
<1>. USE NodesAssumption DEF RestInv, PhasesOnlyAdvance
<1>1. UNCHANGED <<shim_phase, handshakes>> => RunningWasStarted'
  BY DEF RunningWasStarted
<1>2. UNCHANGED <<peer_connections, handshakes>> => DialedIsConnected'
  BY DEF DialedIsConnected
<1>3. UNCHANGED <<peer_connections, handshakes>> => DialIsNotLost'
  BY DEF DialIsNotLost, Process
<1>4. UNCHANGED <<peer_connections, readers, unheard>> => AcceptedIsRead'
  BY DEF AcceptedIsRead
<1>8. UNCHANGED <<dialing, dialled, peer_connections>> => ConnectorIsNotLost'
  BY DEF ConnectorIsNotLost
<1>5. UNCHANGED <<shim_phase, shim_incarnation, client_handshakes,
                  client_ids>> => ClientIsNotLost'
  BY DEF ClientIsNotLost
<1>6. UNCHANGED <<promoted, leadership, unheard, signals>> => OnlyLeaderLeads'
  BY DEF OnlyLeaderLeads, InOperation
<1>7. UNCHANGED <<unheard, signals>>
      /\ (phase'[InitialLeader] = "serving" => phase[InitialLeader] = "serving")
      => SignalIsNotLost'
  BY DEF SignalIsNotLost, Process
<1>. QED
  BY <1>1, <1>2, <1>3, <1>4, <1>5, <1>6, <1>7, <1>8

LEMMA RestTypes ==
    ASSUME IndInv
    PROVE  /\ incarnation \in [Nodes -> Nat] /\ phase \in [Nodes -> Phases]
           /\ peer_connections \in [Nodes -> [Nodes -> Nat]]
           /\ dialing \in [Nodes -> SUBSET Nodes]
           /\ dialled \in [Nodes -> SUBSET Processes]
           /\ handshakes \in [Nodes -> SUBSET Processes]
           /\ readers \in [Nodes -> SUBSET Processes]
           /\ unheard \in [Nodes -> SUBSET Processes]
           /\ leadership \in [Nodes -> {"none", "tried", "accept"}]
           /\ \A n \in Nodes : Process(n) \in Processes
           /\ \A n \in Nodes : \A h \in handshakes[n] :
                 /\ h.node \in Nodes /\ h.start \in Nat /\ n < h.node
                 /\ h = [node |-> h.node, start |-> h.start]
                 /\ h.start <= incarnation[h.node]
<1>1. /\ incarnation \in [Nodes -> Nat] /\ phase \in [Nodes -> Phases]
      /\ peer_connections \in [Nodes -> [Nodes -> Nat]]
      /\ dialing \in [Nodes -> SUBSET Nodes]
      /\ dialled \in [Nodes -> SUBSET Processes]
      /\ handshakes \in [Nodes -> SUBSET Processes]
      /\ readers \in [Nodes -> SUBSET Processes]
      /\ unheard \in [Nodes -> SUBSET Processes]
      /\ leadership \in [Nodes -> {"none", "tried", "accept"}]
      /\ \A n \in Nodes : handshakes[n] \subseteq Dialers(n)
  BY DEF IndInv, TypeOK, ServersTypeOK, PeersTypeOK
<1>2. \A n \in Nodes : Process(n) \in Processes
  BY <1>1 DEF Process, Processes
<1>3. ASSUME NEW n \in Nodes, NEW h \in handshakes[n]
      PROVE  /\ h.node \in Nodes /\ h.start \in Nat /\ n < h.node
             /\ h = [node |-> h.node, start |-> h.start]
             /\ h.start <= incarnation[h.node]
  <2>1. h \in Processes /\ h.node > n
    BY <1>1 DEF Dialers
  <2>2. /\ h.node \in Nodes /\ h.start \in Nat
        /\ h = [node |-> h.node, start |-> h.start]
    BY <2>1 DEF Processes
  <2>3. h.node \in Nat /\ n \in Nat
    BY <2>2, NodesAssumption
  <2>. QED
    BY <2>1, <2>2, <2>3 DEF IndInv, DialersAreYounger
<1>. QED
  BY <1>1, <1>2, <1>3

\* The first start of a server: nobody knows of it yet.
LEMMA StartServerRest ==
    ASSUME IndInv, ConnectionsAreToStarted, RestInv, MaxServerStarts = 1,
           NEW n \in Nodes, StartServer(n)
    PROVE  RestInv'
<1>. USE NodesAssumption
<1>1. /\ phase[n] = "off" /\ incarnation[n] = 0 /\ incarnation'[n] = 1
      /\ phase'[n] = "connecting"
      /\ \A m \in Nodes : m # n => /\ incarnation'[m] = incarnation[m]
                                   /\ phase'[m] = phase[m]
  BY RestTypes DEF StartServer
<1>2. /\ UNCHANGED <<dialled, peer_connections, handshakes, readers, unheard, clientVars,
                     leadership, signals, promoted>>
      /\ UNCHANGED <<shim_incarnation, shim_phase, start_signals>>
  BY DEF StartServer, shimVars
<1>3. /\ \A m \in Nodes : peer_connections[m][n] = 0
      /\ \A m \in Nodes : peer_connections[n][m] = 0
      /\ \A m \in Nodes : \A h \in handshakes[m] : h.node # n
      /\ handshakes[n] = {}
  <2>1. \A m \in Nodes : peer_connections[m][n] \in Nat /\ peer_connections[m][n] <= 0
    BY <1>1, RestTypes DEF ConnectionsAreToStarted
  <2>2. ASSUME NEW m \in Nodes, NEW h \in handshakes[m], h.node = n
        PROVE  FALSE
    <3>1. h.start \in Nat /\ h.start <= 0 /\ h.start # 0
      BY <1>1, <2>2, RestTypes DEF RestInv, RunningWasStarted
    <3>. QED
      BY <3>1
  <2>. QED
    BY <1>1, <2>1, <2>2 DEF IndInv, DeadHoldsNothing
<1>4. RunningWasStarted'
  BY <1>1, <1>2 DEF RestInv, RunningWasStarted
<1>5. DialedIsConnected'
  BY <1>1, <1>2, <1>3 DEF RestInv, DialedIsConnected
<1>6. DialIsNotLost'
  <2>1. \A m \in Nodes : m # n => Process(m)' = Process(m)
    BY <1>1 DEF Process
  <2>. QED
    BY <1>1, <1>2, <1>3, <2>1 DEF RestInv, DialIsNotLost
<1>11. ConnectorIsNotLost'
  <2>1. \A m \in Nodes : dialing'[m] = IF m = n THEN PeersToDial(n) ELSE dialing[m]
    BY RestTypes DEF StartServer
  <2>. SUFFICES ASSUME NEW p \in Nodes, NEW m \in Nodes, m < p,
                       phase'[p] = "connecting", peer_connections[p][m] = 0
                PROVE  \/ m \in dialing'[p] \/ \E q \in dialled[p] : q.node = m
                       \/ phase'[m] = "off" /\ incarnation'[m] # 0
    BY <1>2 DEF ConnectorIsNotLost
  <2>2. CASE p = n
    BY <2>1, <2>2 DEF PeersToDial
  <2>3. CASE p # n
    BY <1>1, <2>1, <2>3 DEF RestInv, ConnectorIsNotLost
  <2>. QED
    BY <2>2, <2>3
<1>7. AcceptedIsRead'
  BY <1>2 DEF RestInv, AcceptedIsRead
<1>8. ClientIsNotLost'
  BY <1>1, <1>2 DEF RestInv, RunningWasStarted, ClientIsNotLost
<1>9. OnlyLeaderLeads'
  BY <1>1, <1>2 DEF RestInv, OnlyLeaderLeads, InOperation
<1>10. SignalIsNotLost'
  <2>1. n = InitialLeader \/ phase[InitialLeader] # "serving"
    BY <1>3 DEF IndInv, OperationIsComplete, InOperation, Peers
  <2>2. phase'[InitialLeader] # "serving"
    BY <1>1, <2>1
  <2>. QED
    BY <2>2 DEF SignalIsNotLost
<1>. QED
  BY <1>4, <1>5, <1>6, <1>7, <1>8, <1>9, <1>10, <1>11 DEF RestInv

LEMMA KillServerRest ==
    ASSUME IndInv, RestInv, NEW n \in Nodes, KillServer(n)
    PROVE  RestInv'
<1>. USE NodesAssumption
<1>1. /\ phase'[n] = "off" /\ handshakes'[n] = {} /\ leadership'[n] = "none"
      /\ unheard'[n] = {} /\ \A p \in Nodes : peer_connections'[n][p] = 0
      /\ \A m \in Nodes : m # n => /\ phase'[m] = phase[m]
                                   /\ dialing'[m] = dialing[m]
                                   /\ dialled'[m] = dialled[m]
                                   /\ handshakes'[m] = handshakes[m]
                                   /\ peer_connections'[m] = peer_connections[m]
                                   /\ readers'[m] = readers[m]
                                   /\ unheard'[m] = unheard[m]
                                   /\ leadership'[m] = leadership[m]
                                   /\ client_handshakes'[m] = client_handshakes[m]
                                   /\ client_ids'[m] = client_ids[m]
  BY RestTypes, ClientsTypes DEF KillServer
<1>2. /\ UNCHANGED <<incarnation, promoted>>
      /\ UNCHANGED <<shim_incarnation, shim_phase, start_signals>>
      /\ signals' = {s \in signals : s.to # Process(n)}
  BY DEF KillServer, shimVars
<1>3. \A m \in Nodes : Process(m)' = Process(m)
  BY <1>2 DEF Process
<1>4. RunningWasStarted'
  BY <1>1, <1>2 DEF RestInv, RunningWasStarted
<1>5. DialedIsConnected'
  BY <1>1, <1>2 DEF RestInv, DialedIsConnected
<1>6. DialIsNotLost'
  <2>. SUFFICES ASSUME NEW m \in Nodes, NEW q \in Nodes, m < q,
                       peer_connections'[q][m] # 0,
                       phase'[m] = "connecting", phase'[q] # "off"
                PROVE  Process(q) \in handshakes'[m] \/ peer_connections'[m][q] # 0
    BY <1>3 DEF DialIsNotLost
  <2>1. m # n /\ q # n
    BY <1>1
  <2>. QED
    BY <1>1, <2>1 DEF RestInv, DialIsNotLost
<1>11. ConnectorIsNotLost'
  <2>. SUFFICES ASSUME NEW p \in Nodes, NEW m \in Nodes, m < p,
                       phase'[p] = "connecting", peer_connections'[p][m] = 0
                PROVE  \/ m \in dialing'[p] \/ \E q \in dialled'[p] : q.node = m
                       \/ phase'[m] = "off" /\ incarnation[m] # 0
    BY <1>2 DEF ConnectorIsNotLost
  <2>1. /\ p # n /\ phase[p] = "connecting" /\ peer_connections[p][m] = 0
        /\ dialing'[p] = dialing[p] /\ dialled'[p] = dialled[p]
    BY <1>1
  <2>2. phase[m] = "off" => phase'[m] = "off"
    BY <1>1
  <2>. QED
    BY <2>1, <2>2 DEF RestInv, ConnectorIsNotLost
<1>7. AcceptedIsRead'
  BY <1>1 DEF RestInv, AcceptedIsRead
<1>8. ClientIsNotLost'
  <2>. SUFFICES ASSUME NEW m \in Nodes, phase'[m] = "connecting",
                       shim_phase[m] \in {"waiting", "started"}
                PROVE  \/ shim_incarnation[m] \in client_handshakes'[m]
                       \/ \E id \in DOMAIN client_ids'[m] :
                              client_ids'[m][id] = shim_incarnation[m]
    BY <1>2 DEF ClientIsNotLost
  <2>1. m # n /\ phase[m] = "connecting"
    BY <1>1
  <2>2. /\ client_handshakes'[m] = client_handshakes[m]
        /\ client_ids'[m] = client_ids[m]
    BY <1>1, <2>1
  <2>. QED
    BY <2>1, <2>2 DEF RestInv, ClientIsNotLost
<1>9. OnlyLeaderLeads'
  BY <1>1, <1>2 DEF RestInv, OnlyLeaderLeads, InOperation
<1>10. SignalIsNotLost'
  <2>. SUFFICES ASSUME NEW m \in Nodes, phase'[InitialLeader] = "serving",
                       m # InitialLeader, phase'[m] # "off"
                PROVE  \/ phase'[m] = "serving"
                       \/ Process(InitialLeader) \in unheard'[m]
                       \/ [from |-> Process(InitialLeader), to |-> Process(m)]
                              \in signals'
    BY <1>3 DEF SignalIsNotLost
  <2>1. m # n /\ n # InitialLeader
    BY <1>1
  <2>2. Process(m) # Process(n)
    BY <2>1 DEF Process
  <2>. QED
    BY <1>1, <1>2, <2>1, <2>2 DEF RestInv, SignalIsNotLost
<1>. QED
  BY <1>4, <1>5, <1>6, <1>7, <1>8, <1>9, <1>10, <1>11 DEF RestInv

\* A connector reaches the process it dials.
LEMMA ConnectToPeerRest ==
    ASSUME IndInv, RestInv, NEW n \in Nodes, NEW p \in dialing[n], ConnectToPeer(n, p)
    PROVE  RestInv'
<1>1. /\ UNCHANGED <<incarnation, phase, peer_connections, handshakes, readers, unheard,
                     clientVars, leadership, signals, promoted>>
      /\ UNCHANGED <<shim_incarnation, shim_phase, start_signals>>
  BY DEF ConnectToPeer, shimVars
<1>2. PhasesOnlyAdvance
  BY <1>1 DEF PhasesOnlyAdvance
<1>3. ConnectorIsNotLost'
  <2>1. /\ \A m \in Nodes : dialing'[m] = IF m = n THEN dialing[m] \ {p} ELSE dialing[m]
        /\ \A m \in Nodes : dialled'[m] = IF m = n THEN dialled[m] \cup {Process(p)}
                                          ELSE dialled[m]
    BY RestTypes DEF ConnectToPeer, DialsNoMore
  <2>2. Process(p).node = p
    BY DEF Process
  <2>. SUFFICES ASSUME NEW q \in Nodes, NEW m \in Nodes, m < q,
                       phase[q] = "connecting", peer_connections[q][m] = 0
                PROVE  \/ m \in dialing'[q] \/ \E r \in dialled'[q] : r.node = m
                       \/ phase[m] = "off" /\ incarnation[m] # 0
    BY <1>1 DEF ConnectorIsNotLost
  <2>3. \/ m \in dialing[q] \/ \E r \in dialled[q] : r.node = m
        \/ phase[m] = "off" /\ incarnation[m] # 0
    BY DEF RestInv, ConnectorIsNotLost
  <2>. QED
    BY <2>1, <2>2, <2>3
<1>4. /\ RunningWasStarted' /\ DialedIsConnected' /\ DialIsNotLost' /\ AcceptedIsRead'
      /\ ClientIsNotLost' /\ OnlyLeaderLeads' /\ SignalIsNotLost'
  BY <1>1, <1>2, RestFrame
<1>. QED
  BY <1>3, <1>4 DEF RestInv

\* A dialer has reached the only process of its peer's node.
LEMMA ReachedIsPresent ==
    ASSUME IndInv, ConnectionsAreToStarted, MaxServerStarts = 1, NEW n \in Nodes,
           NEW peer \in dialled[n]
    PROVE  /\ peer.node \in Nodes /\ peer.node < n /\ peer.node # n
           /\ peer = Process(peer.node) /\ peer.start # 0
<1>1. /\ peer.node \in Nodes /\ peer.start \in Nat
      /\ peer = [node |-> peer.node, start |-> peer.start]
  BY RestTypes DEF Processes
<1>2. peer.node < n /\ peer.start # 0 /\ peer.start <= incarnation[peer.node]
  BY DEF IndInv, ConnectorsDialDown
<1>3. incarnation[peer.node] \in Nat /\ incarnation[peer.node] <= 1
  BY <1>1, RestTypes DEF ConnectionsAreToStarted
<1>4. peer.start = incarnation[peer.node]
  BY <1>1, <1>2, <1>3
<1>5. peer.node # n
  BY <1>1, <1>2, NodesAssumption
<1>. QED
  BY <1>1, <1>2, <1>4, <1>5 DEF Process

\* A connector gives up only when the peer has died: one in operation would
\* have this node's registration already.
LEMMA FailToRegisterRest ==
    ASSUME IndInv, ConnectionsAreToStarted, DialInv, RestInv, MaxServerStarts = 1,
           NEW n \in Nodes, NEW peer \in dialled[n], FailToRegister(n, peer)
    PROVE  RestInv'
<1>1. /\ UNCHANGED <<incarnation, phase, dialing, peer_connections, handshakes, readers,
                     unheard, clientVars, leadership, signals, promoted>>
      /\ UNCHANGED <<shim_incarnation, shim_phase, start_signals>>
      /\ \A m \in Nodes : dialled'[m] = IF m = n THEN dialled[m] \ {peer} ELSE dialled[m]
  BY RestTypes DEF FailToRegister, shimVars
<1>2. PhasesOnlyAdvance
  BY <1>1 DEF PhasesOnlyAdvance
<1>3. /\ peer.node \in Nodes /\ peer.node < n /\ peer.node # n
      /\ ~Listening(peer.node) /\ peer.start # 0
      /\ incarnation[peer.node] = peer.start
  BY ReachedIsPresent DEF FailToRegister, Process
<1>4. phase[n] # "off"
  BY DEF IndInv, DeadHoldsNothing
<1>5. phase[peer.node] = "off"
  <2>1. peer_connections[n][peer.node] = 0
    BY DEF DialInv, OneConnector
  <2>2. peer_connections[peer.node][n] = 0
    BY <1>3, <1>4, <2>1 DEF RestInv, DialedIsConnected
  <2>3. ~InOperation(peer.node)
    BY <1>3, <2>2 DEF IndInv, OperationIsComplete, Peers
  <2>4. phase[peer.node] \in Phases
    BY <1>3, RestTypes
  <2>. QED
    BY <1>3, <2>3, <2>4 DEF InOperation, Listening, Phases
<1>6. ConnectorIsNotLost'
  <2>. SUFFICES ASSUME NEW q \in Nodes, NEW m \in Nodes, m < q,
                       phase[q] = "connecting", peer_connections[q][m] = 0
                PROVE  \/ m \in dialing[q] \/ \E r \in dialled'[q] : r.node = m
                       \/ phase[m] = "off" /\ incarnation[m] # 0
    BY <1>1 DEF ConnectorIsNotLost
  <2>1. \/ m \in dialing[q] \/ \E r \in dialled[q] : r.node = m
        \/ phase[m] = "off" /\ incarnation[m] # 0
    BY DEF RestInv, ConnectorIsNotLost
  <2>. QED
    BY <1>1, <1>3, <1>5, <2>1
<1>7. /\ RunningWasStarted' /\ DialedIsConnected' /\ DialIsNotLost' /\ AcceptedIsRead'
      /\ ClientIsNotLost' /\ OnlyLeaderLeads' /\ SignalIsNotLost'
  BY <1>1, <1>2, RestFrame
<1>. QED
  BY <1>6, <1>7 DEF RestInv

\* A server registers: it has a connection, and its registration is under way
\* unless the peer has died.
LEMMA RegisterWithPeerRest ==
    ASSUME IndInv, ConnectionsAreToStarted, DialInv, RestInv, MaxServerStarts = 1,
           NEW n \in Nodes, NEW peer \in dialled[n], RegisterWithPeer(n, peer)
    PROVE  RestInv'
<1>. USE NodesAssumption
<1> DEFINE p == peer.node
<1>1. /\ p \in Nodes /\ p # n /\ p < n /\ phase[n] = "connecting"
      /\ peer = Process(p) /\ peer.start # 0
      /\ UNCHANGED <<incarnation, dialing, readers, unheard, clientVars, leadership,
                     signals, promoted>>
      /\ UNCHANGED <<shim_incarnation, shim_phase, start_signals>>
  BY ReachedIsPresent DEF RegisterWithPeer, shimVars
<1>2. PhasesOnlyAdvance /\ \A m \in Nodes : phase'[m] = "serving" => phase[m] = "serving"
  BY ConnectingAdvances DEF RegisterWithPeer, Listening
<1>3. /\ incarnation[n] # 0
      /\ peer_connections'[n][p] = peer.start
      /\ \A m, q \in Nodes : ~(m = n /\ q = p) =>
             peer_connections'[m][q] = peer_connections[m][q]
      /\ \A m \in Nodes : dialled'[m] = IF m = n THEN dialled[m] \ {peer} ELSE dialled[m]
      /\ \A m \in Nodes : m # p => handshakes'[m] = handshakes[m]
      /\ phase[p] # "off" => handshakes'[p] = handshakes[p] \cup {Process(n)}
      /\ phase[p] = "off" => handshakes'[p] = handshakes[p]
  BY <1>1, RestTypes DEF RegisterWithPeer, RestInv, RunningWasStarted
<1>4. /\ Process(n).node = n /\ Process(n).start = incarnation[n]
      /\ \A m \in Nodes : Process(m)' = Process(m)
  BY <1>1 DEF Process
<1>. HIDE DEF p
<1>5. RunningWasStarted'
  BY <1>1, <1>2, <1>3, <1>4 DEF RestInv, RunningWasStarted, PhasesOnlyAdvance
<1>6. DialedIsConnected'
  <2>. SUFFICES ASSUME NEW m \in Nodes, NEW q \in Nodes, m < q,
                       \/ peer_connections'[m][q] # 0
                       \/ \E h \in handshakes'[m] : h.node = q
                PROVE  phase'[q] = "off" \/ peer_connections'[q][m] # 0
    BY DEF DialedIsConnected
  <2>1. CASE q = n /\ m = p
    BY <1>1, <1>3, <2>1
  <2>2. CASE ~(q = n /\ m = p)
    <3>1. ~(m = n /\ q = p)
      <4>1. m \in Nat /\ q \in Nat
        OBVIOUS
      <4>. QED
        BY <1>1, <4>1
    <3>2. \/ peer_connections[m][q] # 0
          \/ \E h \in handshakes[m] : h.node = q
      BY <1>3, <1>4, <2>2, <3>1
    <3>3. phase[q] = "off" \/ peer_connections[q][m] # 0
      BY <3>2 DEF RestInv, DialedIsConnected
    <3>. QED
      BY <1>2, <1>3, <2>2, <3>3 DEF PhasesOnlyAdvance
  <2>. QED
    BY <2>1, <2>2
<1>7. DialIsNotLost'
  <2>. SUFFICES ASSUME NEW m \in Nodes, NEW q \in Nodes, m < q,
                       peer_connections'[q][m] # 0,
                       phase'[m] = "connecting", phase'[q] # "off"
                PROVE  Process(q) \in handshakes'[m] \/ peer_connections'[m][q] # 0
    BY <1>4 DEF DialIsNotLost
  <2>0. phase[m] = "connecting" /\ phase[q] # "off"
    BY <1>2 DEF PhasesOnlyAdvance
  <2>1. CASE q = n /\ m = p
    BY <1>3, <2>0, <2>1
  <2>2. CASE ~(q = n /\ m = p)
    <3>1. ~(m = n /\ q = p)
      <4>1. m \in Nat /\ q \in Nat
        OBVIOUS
      <4>. QED
        BY <1>1, <4>1
    <3>2. peer_connections[q][m] # 0
      BY <1>3, <2>2
    <3>3. Process(q) \in handshakes[m] \/ peer_connections[m][q] # 0
      BY <2>0, <3>2 DEF RestInv, DialIsNotLost
    <3>4. handshakes[m] \subseteq handshakes'[m]
      BY <1>3
    <3>. QED
      BY <1>3, <3>1, <3>3, <3>4
  <2>. QED
    BY <2>1, <2>2
<1>8. AcceptedIsRead'
  <2>1. \A m, q \in Nodes : m < q => peer_connections'[m][q] = peer_connections[m][q]
    BY <1>1, <1>3
  <2>. QED
    BY <1>1, <2>1 DEF RestInv, AcceptedIsRead
<1>9. ConnectorIsNotLost'
  <2>. SUFFICES ASSUME NEW q \in Nodes, NEW m \in Nodes, m < q,
                       phase'[q] = "connecting", peer_connections'[q][m] = 0
                PROVE  \/ m \in dialing[q] \/ \E r \in dialled'[q] : r.node = m
                       \/ phase'[m] = "off" /\ incarnation[m] # 0
    BY <1>1 DEF ConnectorIsNotLost
  <2>1. ~(q = n /\ m = p)
    BY <1>1, <1>3
  <2>2. \/ m \in dialing[q] \/ \E r \in dialled[q] : r.node = m
        \/ phase[m] = "off" /\ incarnation[m] # 0
    BY <1>2, <1>3, <2>1 DEF RestInv, ConnectorIsNotLost, PhasesOnlyAdvance
  <2>. QED
    BY <1>2, <1>3, <2>1, <2>2 DEF PhasesOnlyAdvance, p
<1>10. ClientIsNotLost' /\ OnlyLeaderLeads' /\ SignalIsNotLost'
  BY <1>1, <1>2, RestFrame
<1>. QED
  BY <1>5, <1>6, <1>7, <1>8, <1>9, <1>10 DEF RestInv

\* A registration in time: the dialer is its node's only process, and what is
\* discarded with the registration of the initial leader is not unseen.
LEMMA AcceptPeerRest ==
    ASSUME IndInv, ConnectionsAreToStarted, RestInv, MaxServerStarts = 1,
           NEW n \in Nodes, NEW dialer \in handshakes[n], AcceptPeer(n, dialer)
    PROVE  RestInv'
<1>. USE NodesAssumption
<1> DEFINE p == dialer.node
<1>1. /\ p \in Nodes /\ n < p /\ p # n /\ dialer.start # 0
      /\ dialer.start = incarnation[p] /\ dialer = Process(p)
  <2>1. /\ p \in Nodes /\ dialer.start \in Nat /\ n < p
        /\ dialer = [node |-> p, start |-> dialer.start]
        /\ dialer.start <= incarnation[p]
    BY RestTypes
  <2>2. dialer.start # 0
    BY DEF RestInv, RunningWasStarted
  <2>3. incarnation[p] \in Nat /\ incarnation[p] <= 1
    BY <2>1, RestTypes DEF ConnectionsAreToStarted
  <2>4. dialer.start = incarnation[p]
    BY <2>1, <2>2, <2>3
  <2>. QED
    BY <2>1, <2>2, <2>4 DEF Process
<1>2. /\ phase[n] = "connecting"
      /\ UNCHANGED <<incarnation, connectorVars, clientVars, leadership, promoted>>
      /\ UNCHANGED <<shim_incarnation, shim_phase, start_signals>>
  BY DEF AcceptPeer, Listening, shimVars
<1>3. PhasesOnlyAdvance /\ \A m \in Nodes : phase'[m] = "serving" => phase[m] = "serving"
  BY ConnectingAdvances DEF AcceptPeer
<1>4. /\ peer_connections'[n][p] = dialer.start
      /\ \A m, q \in Nodes : ~(m = n /\ q = p) =>
             peer_connections'[m][q] = peer_connections[m][q]
      /\ handshakes'[n] = handshakes[n] \ {dialer}
      /\ \A m \in Nodes : m # n => handshakes'[m] = handshakes[m]
  BY <1>1, RestTypes DEF AcceptPeer
<1>5. \/ /\ readers' = [readers EXCEPT ![n] = readers[n] \cup {dialer}]
         /\ UNCHANGED <<unheard, signals>>
      \/ DiscardReadAhead(n, dialer)
  BY DEF AcceptPeer
<1>6. /\ dialer \in readers'[n] \cup unheard'[n]
      /\ \A m \in Nodes : /\ readers[m] \subseteq readers'[m]
                          /\ unheard[m] \subseteq unheard'[m]
                          /\ m # n => unheard'[m] = unheard[m]
  BY <1>5, RestTypes DEF DiscardReadAhead
<1>7. /\ signals' \subseteq signals
      /\ \A s \in signals : s \in signals' \/ (s.from = dialer /\ s.to = Process(n)
                                               /\ dialer \in unheard'[n])
  BY <1>5, RestTypes DEF DiscardReadAhead
<1>8. \A m \in Nodes : Process(m)' = Process(m)
  BY <1>2 DEF Process
<1>. HIDE DEF p
<1>9. RunningWasStarted'
  BY <1>2, <1>3, <1>4 DEF RestInv, RunningWasStarted, PhasesOnlyAdvance
<1>10. DialedIsConnected'
  <2>. SUFFICES ASSUME NEW m \in Nodes, NEW q \in Nodes, m < q,
                       \/ peer_connections'[m][q] # 0
                       \/ \E h \in handshakes'[m] : h.node = q
                PROVE  phase'[q] = "off" \/ peer_connections'[q][m] # 0
    BY DEF DialedIsConnected
  <2>1. \/ peer_connections[m][q] # 0
        \/ \E h \in handshakes[m] : h.node = q
    BY <1>4 DEF p
  <2>2. phase[q] = "off" \/ peer_connections[q][m] # 0
    BY <2>1 DEF RestInv, DialedIsConnected
  <2>3. ~(q = n /\ m = p)
    <3>1. m \in Nat /\ q \in Nat
      OBVIOUS
    <3>. QED
      BY <1>1, <3>1
  <2>. QED
    BY <1>3, <1>4, <2>2, <2>3 DEF PhasesOnlyAdvance
<1>11. DialIsNotLost'
  <2>. SUFFICES ASSUME NEW m \in Nodes, NEW q \in Nodes, m < q,
                       peer_connections'[q][m] # 0,
                       phase'[m] = "connecting", phase'[q] # "off"
                PROVE  Process(q) \in handshakes'[m] \/ peer_connections'[m][q] # 0
    BY <1>8 DEF DialIsNotLost
  <2>1. ~(q = n /\ m = p)
    <3>1. m \in Nat /\ q \in Nat
      OBVIOUS
    <3>. QED
      BY <1>1, <3>1
  <2>5. peer_connections[q][m] # 0 /\ phase[m] = "connecting" /\ phase[q] # "off"
    BY <1>3, <1>4, <2>1 DEF PhasesOnlyAdvance
  <2>2. Process(q) \in handshakes[m] \/ peer_connections[m][q] # 0
    BY <2>5 DEF RestInv, DialIsNotLost
  <2>3. CASE m = n /\ q = p
    BY <1>1, <1>4, <2>3
  <2>4. CASE ~(m = n /\ q = p)
    <3>1. m = n => Process(q) # dialer
      BY <1>1, <2>4 DEF Process
    <3>. QED
      BY <1>4, <2>2, <2>4, <3>1
  <2>. QED
    BY <2>3, <2>4
<1>12. AcceptedIsRead'
  <2>. SUFFICES ASSUME NEW m \in Nodes, NEW q \in Nodes, m < q,
                       peer_connections'[m][q] # 0
                PROVE  [node |-> q, start |-> peer_connections'[m][q]]
                           \in readers'[m] \cup unheard'[m]
    BY DEF AcceptedIsRead
  <2>1. CASE m = n /\ q = p
    BY <1>1, <1>4, <1>6, <2>1 DEF Process
  <2>2. CASE ~(m = n /\ q = p)
    <3>1. peer_connections'[m][q] = peer_connections[m][q]
      BY <1>4, <2>2
    <3>2. [node |-> q, start |-> peer_connections[m][q]] \in readers[m] \cup unheard[m]
      BY <3>1 DEF RestInv, AcceptedIsRead
    <3>. QED
      BY <1>6, <3>1, <3>2
  <2>. QED
    BY <2>1, <2>2
<1>16. ConnectorIsNotLost'
  <2>. SUFFICES ASSUME NEW q \in Nodes, NEW m \in Nodes, m < q,
                       phase'[q] = "connecting", peer_connections'[q][m] = 0
                PROVE  \/ m \in dialing[q] \/ \E r \in dialled[q] : r.node = m
                       \/ phase'[m] = "off" /\ incarnation[m] # 0
    BY <1>2 DEF ConnectorIsNotLost
  <2>1. ~(q = n /\ m = p)
    <3>1. m \in Nat /\ q \in Nat
      OBVIOUS
    <3>. QED
      BY <1>1, <3>1
  <2>2. phase[q] = "connecting" /\ peer_connections[q][m] = 0
    BY <1>3, <1>4, <2>1 DEF PhasesOnlyAdvance
  <2>. QED
    BY <1>3, <2>2 DEF RestInv, ConnectorIsNotLost, PhasesOnlyAdvance
<1>13. ClientIsNotLost'
  BY <1>2, <1>3, RestFrame
<1>14. OnlyLeaderLeads'
  <2>1. ASSUME n = InitialLeader, DiscardReadAhead(n, dialer) PROVE FALSE
    <3>1. leadership[p] # "none" \/ phase[p] = "serving"
      BY <2>1 DEF DiscardReadAhead, HasSent, p
    <3>2. ~promoted
      BY <1>2, <2>1 DEF RestInv, OnlyLeaderLeads
    <3>3. leadership[p] = "none"
      BY <1>1, <2>1 DEF RestInv, OnlyLeaderLeads
    <3>. QED
      BY <1>1, <3>1, <3>2, <3>3 DEF IndInv, EffectsFollowPromotion
  <2>2. unheard'[InitialLeader] = unheard[InitialLeader]
    BY <1>5, <1>6, <2>1
  <2>. QED
    BY <1>2, <1>3, <1>7, <2>2 DEF RestInv, OnlyLeaderLeads, InOperation,
                                  PhasesOnlyAdvance
<1>15. SignalIsNotLost'
  <2>. SUFFICES ASSUME NEW m \in Nodes, phase'[InitialLeader] = "serving",
                       m # InitialLeader, phase'[m] # "off"
                PROVE  \/ phase'[m] = "serving"
                       \/ Process(InitialLeader) \in unheard'[m]
                       \/ [from |-> Process(InitialLeader), to |-> Process(m)]
                              \in signals'
    BY <1>8 DEF SignalIsNotLost
  <2> DEFINE s == [from |-> Process(InitialLeader), to |-> Process(m)]
  <2>1. \/ phase[m] = "serving"
        \/ Process(InitialLeader) \in unheard[m]
        \/ s \in signals
    BY <1>3 DEF RestInv, SignalIsNotLost, PhasesOnlyAdvance
  <2>2. CASE s \in signals /\ s \notin signals'
    <3>1. Process(InitialLeader) = dialer /\ Process(m) = Process(n)
          /\ dialer \in unheard'[n]
      BY <1>7, <2>2
    <3>2. m = n
      BY <3>1 DEF Process
    <3>. QED
      BY <3>1, <3>2
  <2>. QED
    BY <1>3, <1>6, <2>1, <2>2 DEF PhasesOnlyAdvance
<1>. QED
  BY <1>9, <1>10, <1>11, <1>12, <1>13, <1>14, <1>15, <1>16 DEF RestInv

\* A registration that is missed is that of a dead process, or nobody waits
\* for it.
LEMMA MissPeerRest ==
    ASSUME IndInv, RestInv, NEW n \in Nodes, NEW dialer \in handshakes[n],
           MissPeer(n, dialer)
    PROVE  RestInv'
<1>. USE NodesAssumption
<1>1. /\ UNCHANGED <<incarnation, phase, connectorVars, peer_connections, unheard,
                     clientVars, leadership, signals, promoted>>
      /\ UNCHANGED <<shim_incarnation, shim_phase, start_signals>>
      /\ \/ InOperation(n)
         \/ dialer # Process(dialer.node) \/ phase[dialer.node] = "off"
  BY DEF MissPeer, shimVars
<1>2. /\ handshakes'[n] = handshakes[n] \ {dialer}
      /\ \A m \in Nodes : m # n => handshakes'[m] = handshakes[m]
      /\ \A m \in Nodes : readers[m] \subseteq readers'[m]
  BY RestTypes DEF MissPeer
<1>3. PhasesOnlyAdvance
  BY <1>1 DEF PhasesOnlyAdvance
<1>4. \A m \in Nodes : Process(m)' = Process(m) /\ Process(m).node = m
  BY <1>1 DEF Process
<1>5. RunningWasStarted' /\ DialedIsConnected'
  BY <1>1, <1>2 DEF RestInv, RunningWasStarted, DialedIsConnected
<1>6. DialIsNotLost'
  <2>. SUFFICES ASSUME NEW m \in Nodes, NEW q \in Nodes, m < q,
                       peer_connections[q][m] # 0,
                       phase[m] = "connecting", phase[q] # "off"
                PROVE  Process(q) \in handshakes'[m] \/ peer_connections[m][q] # 0
    BY <1>1, <1>4 DEF DialIsNotLost
  <2>1. Process(q) \in handshakes[m] \/ peer_connections[m][q] # 0
    BY DEF RestInv, DialIsNotLost
  <2>2. m = n => Process(q) # dialer
    BY <1>1, <1>4 DEF InOperation
  <2>. QED
    BY <1>2, <2>1, <2>2
<1>7. AcceptedIsRead'
  BY <1>1, <1>2 DEF RestInv, AcceptedIsRead
<1>8. ConnectorIsNotLost' /\ ClientIsNotLost' /\ OnlyLeaderLeads' /\ SignalIsNotLost'
  BY <1>1, <1>3, RestFrame
<1>. QED
  BY <1>5, <1>6, <1>7, <1>8 DEF RestInv

LEMMA ClientRegisterRest ==
    ASSUME IndInv, RestInv, NEW n \in Nodes, NEW i \in client_handshakes[n],
           AcceptClient(n, i) \/ MissClient(n, i)
    PROVE  RestInv'
<1>1. /\ UNCHANGED <<incarnation, phase, connectorVars, peer_connections, handshakes, readers,
                     unheard, leadership, signals, promoted>>
      /\ UNCHANGED <<shim_incarnation, shim_phase, start_signals>>
      /\ client_handshakes' = [client_handshakes EXCEPT ![n] =
                                  client_handshakes[n] \ {i}]
  BY DEF AcceptClient, MissClient, shimVars
<1>2. PhasesOnlyAdvance /\ \A m \in Nodes : phase'[m] = "serving" => phase[m] = "serving"
  BY <1>1 DEF PhasesOnlyAdvance
<1>3. ClientIsNotLost'
  <2>. SUFFICES ASSUME NEW m \in Nodes, phase'[m] = "connecting",
                       shim_phase[m] \in {"waiting", "started"}
                PROVE  \/ shim_incarnation[m] \in client_handshakes'[m]
                       \/ \E id \in DOMAIN client_ids'[m] :
                              client_ids'[m][id] = shim_incarnation[m]
    BY <1>1 DEF ClientIsNotLost
  <2>1. \/ shim_incarnation[m] \in client_handshakes[m]
        \/ \E id \in DOMAIN client_ids[m] :
               client_ids[m][id] = shim_incarnation[m]
    BY <1>2 DEF RestInv, ClientIsNotLost, PhasesOnlyAdvance
  <2>2. phase[m] = "connecting"
    BY <1>2 DEF PhasesOnlyAdvance
  <2>3. client_ids[m] \in Seq(Nat) /\ i \in Nat
    BY ClientsTypes
  <2>4. CASE m # n
    BY <1>1, <2>1, <2>4, ClientsTypes DEF AcceptClient, MissClient
  <2>5. CASE m = n /\ AcceptClient(n, i)
    <3> DEFINE cc == client_ids[n]
    <3>1. /\ client_ids'[n] = Append(cc, i)
          /\ client_handshakes'[n] = client_handshakes[n] \ {i}
      BY <1>1, <2>5, ClientsTypes DEF AcceptClient
    <3>2. /\ Len(cc) + 1 \in DOMAIN Append(cc, i) /\ Append(cc, i)[Len(cc) + 1] = i
          /\ \A id \in DOMAIN cc : /\ id \in DOMAIN Append(cc, i)
                                   /\ Append(cc, i)[id] = cc[id]
      BY <2>3, <2>5, AppendProperties
    <3>. QED
      BY <2>1, <2>5, <3>1, <3>2
  <2>6. CASE m = n /\ MissClient(n, i)
    <3>1. i # shim_incarnation[n]
      BY <2>2, <2>6 DEF MissClient, InOperation
    <3>2. /\ client_ids'[n] = client_ids[n]
          /\ client_handshakes'[n] = client_handshakes[n] \ {i}
      BY <1>1, <2>6, ClientsTypes DEF MissClient
    <3>. QED
      BY <2>1, <2>6, <3>1, <3>2
  <2>. QED
    BY <2>4, <2>5, <2>6
<1>4. /\ RunningWasStarted' /\ DialedIsConnected' /\ DialIsNotLost'
      /\ ConnectorIsNotLost' /\ AcceptedIsRead' /\ OnlyLeaderLeads' /\ SignalIsNotLost'
  BY <1>1, <1>2, RestFrame, NodesAssumption
<1>. QED
  BY <1>3, <1>4 DEF RestInv

\* What is inserted is no registration any more.
LEMMA InsertClientRest ==
    ASSUME IndInv, RestInv, NEW n \in Nodes, NEW id \in DOMAIN client_ids[n],
           InsertClient(n, id)
    PROVE  RestInv'
<1>1. /\ UNCHANGED <<incarnation, connectorVars, peer_connections, handshakes, readers,
                     unheard, client_ids, client_handshakes, leadership, signals,
                     promoted>>
      /\ UNCHANGED <<shim_incarnation, shim_phase, start_signals>>
  BY DEF InsertClient, shimVars
<1>2. PhasesOnlyAdvance /\ \A m \in Nodes : phase'[m] = "serving" => phase[m] = "serving"
  BY ConnectingAdvances DEF InsertClient, Listening
<1>. QED
  BY <1>1, <1>2, RestFrame, NodesAssumption DEF RestInv

LEMMA LeadershipRest ==
    ASSUME IndInv, RestInv, NEW n \in Nodes,
           AttemptLeadership(n) \/ GainLeadership(n)
    PROVE  RestInv'
<1>1. /\ UNCHANGED <<incarnation, phase, connectorVars, peer_connections, handshakes, readers,
                     unheard, clientVars, signals>>
      /\ UNCHANGED <<shim_incarnation, shim_phase, start_signals>>
      /\ phase[n] = "electing"
      /\ \A m \in Nodes : m # n => leadership'[m] = leadership[m]
  BY RestTypes DEF AttemptLeadership, GainLeadership, shimVars
<1>2. PhasesOnlyAdvance
  BY <1>1 DEF PhasesOnlyAdvance
<1>3. n = InitialLeader
  BY DEF RestInv, OnlyLeaderLeads, AttemptLeadership, GainLeadership
<1>4. OnlyLeaderLeads'
  <2>1. incarnation[n] # 0
    BY <1>1 DEF RestInv, RunningWasStarted
  <2>. QED
    BY <1>1, <1>3, <2>1 DEF RestInv, OnlyLeaderLeads, InOperation
<1>5. /\ RunningWasStarted' /\ DialedIsConnected' /\ DialIsNotLost'
      /\ ConnectorIsNotLost' /\ AcceptedIsRead' /\ ClientIsNotLost' /\ SignalIsNotLost'
  BY <1>1, <1>2, RestFrame
<1>. QED
  BY <1>4, <1>5 DEF RestInv

\* The leader's signals go to the present processes of its peers, and who
\* takes one serves.
LEMMA ServeRest ==
    ASSUME IndInv, ConnectionsAreToStarted, RestInv, MaxServerStarts = 1,
           NEW n \in Nodes, LeadStart(n) \/ \E s \in signals : FollowStart(n, s)
    PROVE  RestInv'
<1>. USE NodesAssumption
<1>1. /\ UNCHANGED <<incarnation, connectorVars, peer_connections, handshakes, readers, unheard,
                     clientVars, leadership, promoted>>
      /\ UNCHANGED <<shim_incarnation, shim_phase>>
      /\ InOperation(n) /\ phase'[n] = "serving"
      /\ \A m \in Nodes : m # n => phase'[m] = phase[m]
  BY RestTypes DEF LeadStart, FollowStart, InOperation
<1>2. PhasesOnlyAdvance
  BY <1>1 DEF PhasesOnlyAdvance, InOperation
<1>3. \A m \in Nodes : Process(m)' = Process(m) /\ Process(m).node = m
  BY <1>1 DEF Process
<1>4. \/ /\ n = InitialLeader
         /\ signals' = signals \cup
                {[from |-> Process(n),
                  to |-> [node |-> p, start |-> peer_connections[n][p]]] : p \in Peers(n)}
      \/ /\ n # InitialLeader
         /\ signals' \subseteq signals
         /\ \A s \in signals : s \in signals' \/ s.to = Process(n)
  <2>1. CASE LeadStart(n)
    BY <2>1 DEF LeadStart, SendClusterStartSignals
  <2>2. ASSUME NEW s \in signals, FollowStart(n, s)
        PROVE  /\ n # InitialLeader
               /\ signals' \subseteq signals
               /\ \A r \in signals : r \in signals' \/ r.to = Process(n)
    <3>1. s.to.node # InitialLeader /\ s.to = Process(n) /\ signals' = signals \ {s}
      BY <2>2 DEF RestInv, OnlyLeaderLeads, FollowStart
    <3>. QED
      BY <1>3, <3>1
  <2>. QED
    BY <2>1, <2>2
<1>5. OnlyLeaderLeads'
  <2>1. \A s \in signals' : s.to.node # InitialLeader
    BY <1>4 DEF RestInv, OnlyLeaderLeads, Peers
  <2>. QED
    BY <1>1, <1>2, <2>1 DEF RestInv, OnlyLeaderLeads, InOperation, PhasesOnlyAdvance
<1>6. SignalIsNotLost'
  <2>. SUFFICES ASSUME NEW m \in Nodes, phase'[InitialLeader] = "serving",
                       m # InitialLeader, phase'[m] # "off"
                PROVE  \/ phase'[m] = "serving"
                       \/ Process(InitialLeader) \in unheard[m]
                       \/ [from |-> Process(InitialLeader), to |-> Process(m)]
                              \in signals'
    BY <1>1, <1>3 DEF SignalIsNotLost
  <2>1. CASE n = InitialLeader
    <3>1. signals' = signals \cup
              {[from |-> Process(n),
                to |-> [node |-> p, start |-> peer_connections[n][p]]] : p \in Peers(n)}
      BY <1>4, <2>1
    <3>2. peer_connections[n][m] = incarnation[m]
      <4>1. peer_connections[n][m] \in Nat /\ incarnation[m] \in Nat
        BY RestTypes
      <4>2. peer_connections[n][m] # 0
        BY <1>1, <2>1 DEF IndInv, OperationIsComplete, Peers
      <4>3. peer_connections[n][m] <= incarnation[m] /\ incarnation[m] <= 1
        BY DEF ConnectionsAreToStarted
      <4>. QED
        BY <4>1, <4>2, <4>3
    <3>. QED
      BY <2>1, <3>1, <3>2 DEF Process, Peers
  <2>2. CASE n # InitialLeader
    <3>1. \/ phase[m] = "serving"
          \/ Process(InitialLeader) \in unheard[m]
          \/ [from |-> Process(InitialLeader), to |-> Process(m)] \in signals
      BY <1>1, <2>2 DEF RestInv, SignalIsNotLost, InOperation
    <3>2. m # n => Process(m) # Process(n)
      BY DEF Process
    <3>. QED
      BY <1>1, <1>4, <2>2, <3>1, <3>2
  <2>. QED
    BY <2>1, <2>2
<1>7. /\ RunningWasStarted' /\ DialedIsConnected' /\ DialIsNotLost'
      /\ ConnectorIsNotLost' /\ AcceptedIsRead' /\ ClientIsNotLost'
  BY <1>1, <1>2, RestFrame
<1>. QED
  BY <1>5, <1>6, <1>7 DEF RestInv

LEMMA ShimRest ==
    ASSUME IndInv, RestInv, NEW n \in Nodes,
           \/ StartShim(n) \/ KillShim(n) \/ ConnectShim(n)
           \/ TakeStartSignal(n) \/ AwaitShim(n)
    PROVE  RestInv'
<1>. USE NodesAssumption
<1>1. UNCHANGED <<incarnation, phase, connectorVars, peer_connections, handshakes, readers,
                  unheard, client_ids, leadership, signals, promoted>>
  BY DEF StartShim, KillShim, ConnectShim, TakeStartSignal, AwaitShim, serverVars
<1>2. PhasesOnlyAdvance
  BY <1>1 DEF PhasesOnlyAdvance
<1>3. /\ \A m \in Nodes : m # n => /\ shim_phase'[m] = shim_phase[m]
                                   /\ shim_incarnation'[m] = shim_incarnation[m]
                                   /\ client_handshakes'[m] = client_handshakes[m]
      /\ \/ shim_phase'[n] \in {"off", "connecting"}
         \/ /\ phase[n] = "connecting"
            /\ shim_incarnation'[n] \in client_handshakes'[n]
         \/ /\ shim_phase[n] \in {"waiting", "started"}
            /\ shim_incarnation'[n] = shim_incarnation[n]
            /\ client_handshakes'[n] = client_handshakes[n]
         \/ UNCHANGED <<shim_phase, shim_incarnation, client_handshakes>>
  <2>1. CASE StartShim(n)
    BY <2>1, ClientsTypes DEF StartShim, serverVars
  <2>2. CASE KillShim(n)
    BY <2>2, ClientsTypes DEF KillShim, serverVars
  <2>3. CASE ConnectShim(n)
    BY <2>3, ClientsTypes DEF ConnectShim, Listening
  <2>4. CASE TakeStartSignal(n)
    BY <2>4, ClientsTypes DEF TakeStartSignal, serverVars
  <2>5. CASE AwaitShim(n)
    BY <2>5 DEF AwaitShim, serverVars, shimVars
  <2>. QED
    BY <2>1, <2>2, <2>3, <2>4, <2>5
<1>4. RunningWasStarted'
  BY <1>1, <1>3 DEF RestInv, RunningWasStarted
<1>5. ClientIsNotLost'
  BY <1>1, <1>3 DEF RestInv, ClientIsNotLost
<1>6. /\ DialedIsConnected' /\ DialIsNotLost' /\ ConnectorIsNotLost' /\ AcceptedIsRead'
      /\ OnlyLeaderLeads' /\ SignalIsNotLost'
  BY <1>1, <1>2, RestFrame
<1>. QED
  BY <1>4, <1>5, <1>6 DEF RestInv

LEMMA NextRestInv ==
    ASSUME MaxServerStarts = 1
    PROVE  IndInv /\ ConnectionsAreToStarted /\ DialInv /\ RestInv /\ [Next]_vars
               => RestInv'
<1>. SUFFICES ASSUME IndInv, ConnectionsAreToStarted, DialInv, RestInv, [Next]_vars
              PROVE  RestInv'
  OBVIOUS
<1>1. ASSUME NEW n \in Nodes, StartUp(n) \/ Die(n)
      PROVE  RestInv'
  BY <1>1, StartServerRest, KillServerRest, ShimRest DEF StartUp, Die
<1>2. ASSUME NEW n \in Nodes, Work(n)
      PROVE  RestInv'
  BY <1>2, ConnectToPeerRest, RegisterWithPeerRest, FailToRegisterRest, AcceptPeerRest,
     MissPeerRest, ClientRegisterRest, InsertClientRest, LeadershipRest, ServeRest,
     ShimRest DEF Work
<1>3. CASE UNCHANGED vars
  <2>1. PhasesOnlyAdvance
    BY <1>3 DEF PhasesOnlyAdvance, vars, serverVars
  <2>. QED
    BY <1>3, <2>1, RestFrame DEF RestInv, vars, serverVars, shimVars
<1>. QED
  BY <1>1, <1>2, <1>3 DEF Next

\* A server goes on as soon as it has what it waits for, one client at least.
ConnectingIsIncomplete ==
    \A n \in Nodes :
        /\ phase[n] = "connecting" =>
               \/ \E p \in Peers(n) : peer_connections[n][p] = 0
               \/ Cardinality(client_connections[n]) < NumClients
        /\ phase[n] = "off" => client_connections[n] = {}

\* Shims are numbered from 1.
ShimsFromOne ==
    \A n \in Nodes :
        /\ shim_phase[n] # "off" => shim_incarnation[n] # 0
        /\ 0 \notin client_handshakes[n]
        /\ \A id \in DOMAIN client_ids[n] : client_ids[n][id] # 0

LEMMA InitCompletion == Init => ConnectingIsIncomplete /\ ShimsFromOne
BY DEF Init, ConnectingIsIncomplete, ShimsFromOne

\* The clients of a server are finitely many.
LEMMA ClientsAreFinite ==
    ASSUME IndInv, NEW n \in Nodes
    PROVE  /\ IsFiniteSet(client_connections[n])
           /\ Cardinality(client_connections[n]) \in Nat
           /\ \A id : /\ IsFiniteSet(client_connections[n] \cup {id})
                      /\ Cardinality(client_connections[n] \cup {id}) \in Nat
<1>1. IsFiniteSet(client_connections[n])
  <2>1. /\ DOMAIN client_ids[n] = 1 .. Len(client_ids[n]) /\ Len(client_ids[n]) \in Nat
        /\ client_connections[n] \subseteq DOMAIN client_ids[n]
    BY ClientsTypes
  <2>2. IsFiniteSet(1 .. Len(client_ids[n]))
    BY <2>1, FS_Interval
  <2>. QED
    BY <2>1, <2>2, FS_Subset
<1>. QED
  BY <1>1, FS_AddElement, FS_CardinalityType

LEMMA NextShimsFromOne == IndInv /\ ShimsFromOne /\ [Next]_vars => ShimsFromOne'
<1>. SUFFICES ASSUME IndInv, ShimsFromOne, [Next]_vars PROVE ShimsFromOne'
  OBVIOUS
<1>1. CASE UNCHANGED <<client_ids, client_handshakes, shim_phase, shim_incarnation>>
  BY <1>1 DEF ShimsFromOne
<1>2. ASSUME NEW n \in Nodes, StartUp(n) \/ Die(n)
      PROVE  ShimsFromOne'
  <2>1. CASE StartServer(n)
    BY <1>1, <2>1 DEF StartServer, shimVars
  <2>2. CASE StartShim(n)
    BY <2>2, ClientsTypes DEF ShimsFromOne, StartShim, serverVars
  <2>3. CASE KillServer(n)
    BY <2>3, ClientsTypes DEF ShimsFromOne, KillServer, shimVars
  <2>4. CASE KillShim(n)
    BY <2>4, ClientsTypes DEF ShimsFromOne, KillShim, serverVars
  <2>. QED
    BY <1>2, <2>1, <2>2, <2>3, <2>4 DEF StartUp, Die
<1>3. ASSUME NEW n \in Nodes, NEW i \in client_handshakes[n],
             AcceptClient(n, i) \/ MissClient(n, i)
      PROVE  ShimsFromOne'
  <2> DEFINE cc == client_ids[n]
  <2>1. /\ i # 0 /\ i \in Nat /\ cc \in Seq(Nat)
        /\ UNCHANGED <<shim_phase, shim_incarnation>>
        /\ client_handshakes' = [client_handshakes EXCEPT ![n] =
                                    client_handshakes[n] \ {i}]
        /\ \/ client_ids' = [client_ids EXCEPT ![n] = Append(cc, i)]
           \/ UNCHANGED client_ids
    BY <1>3, ClientsTypes DEF ShimsFromOne, AcceptClient, MissClient, shimVars
  <2>2. \A id \in DOMAIN Append(cc, i) : Append(cc, i)[id] # 0
    <3>1. \A id \in DOMAIN Append(cc, i) :
              Append(cc, i)[id] = i \/ (id \in DOMAIN cc /\ Append(cc, i)[id] = cc[id])
      BY <2>1, AppendProperties
    <3>2. \A id \in DOMAIN cc : cc[id] # 0
      BY DEF ShimsFromOne
    <3>. HIDE DEF cc
    <3>. QED
      BY <2>1, <3>1, <3>2
  <2>. HIDE DEF cc
  <2>. QED
    BY <2>1, <2>2, ClientsTypes DEF ShimsFromOne
<1>4. ASSUME NEW n \in Nodes, Work(n)
      PROVE  ShimsFromOne'
  <2>1. CASE \/ \E p \in dialing[n] : ConnectToPeer(n, p)
             \/ \E peer \in dialled[n] :
                    RegisterWithPeer(n, peer) \/ FailToRegister(n, peer)
             \/ \E id \in DOMAIN client_ids[n] : InsertClient(n, id)
    BY <1>1, <2>1 DEF ConnectToPeer, RegisterWithPeer, FailToRegister, InsertClient,
                      shimVars
  <2>2. CASE \E h \in handshakes[n] : AcceptPeer(n, h) \/ MissPeer(n, h)
    BY <1>1, <2>2 DEF AcceptPeer, MissPeer, shimVars
  <2>3. CASE AttemptLeadership(n) \/ GainLeadership(n) \/ LeadStart(n)
    BY <1>1, <2>3 DEF AttemptLeadership, GainLeadership, LeadStart, shimVars
  <2>4. CASE \E s \in signals : FollowStart(n, s)
    BY <1>1, <2>4 DEF FollowStart
  <2>5. CASE ConnectShim(n)
    BY <2>5, ClientsTypes DEF ShimsFromOne, ConnectShim
  <2>6. CASE TakeStartSignal(n)
    BY <2>6, ClientsTypes DEF ShimsFromOne, TakeStartSignal, serverVars
  <2>7. CASE AwaitShim(n)
    BY <1>1, <2>7 DEF AwaitShim, serverVars, shimVars
  <2>. QED
    BY <1>3, <1>4, <2>1, <2>2, <2>3, <2>4, <2>5, <2>6, <2>7 DEF Work
<1>5. CASE UNCHANGED vars
  BY <1>1, <1>5 DEF vars, serverVars, shimVars
<1>. QED
  BY <1>2, <1>4, <1>5 DEF Next

LEMMA NextConnectingIsIncomplete ==
    ASSUME NumClients # 0
    PROVE  IndInv /\ ConnectingIsIncomplete /\ [Next]_vars => ConnectingIsIncomplete'
<1>. SUFFICES ASSUME IndInv, ConnectingIsIncomplete, [Next]_vars
              PROVE  ConnectingIsIncomplete'
  OBVIOUS
<1>. USE NumClientsAssumption
\* Only n changes, if that.
<1>1. ASSUME NEW n \in Nodes,
             \A m \in Nodes : m # n =>
                 /\ phase'[m] = phase[m]
                 /\ peer_connections'[m] = peer_connections[m]
                 /\ client_connections'[m] = client_connections[m],
             phase'[n] = "connecting" =>
                 \/ \E p \in Peers(n) : peer_connections'[n][p] = 0
                 \/ Cardinality(client_connections'[n]) < NumClients,
             phase'[n] = "off" => client_connections'[n] = {}
      PROVE  ConnectingIsIncomplete'
  BY <1>1 DEF ConnectingIsIncomplete
<1>2. CASE UNCHANGED <<phase, peer_connections, client_connections>>
  BY <1>2 DEF ConnectingIsIncomplete
<1>3. ASSUME NEW n \in Nodes, StartUp(n) \/ Die(n)
      PROVE  ConnectingIsIncomplete'
  <2>1. CASE StartServer(n)
    <3>1. /\ phase[n] = "off" /\ phase'[n] = "connecting"
          /\ UNCHANGED <<peer_connections, client_connections>>
          /\ \A m \in Nodes : m # n => phase'[m] = phase[m]
      BY <2>1, ClientsTypes DEF StartServer
    <3>2. Cardinality(client_connections'[n]) < NumClients
      BY <3>1, FS_EmptySet DEF ConnectingIsIncomplete
    <3>. QED
      BY <1>1, <3>1, <3>2
  <2>2. CASE KillServer(n)
    <3>1. /\ phase'[n] = "off" /\ client_connections'[n] = {}
          /\ \A m \in Nodes : m # n =>
                 /\ phase'[m] = phase[m]
                 /\ peer_connections'[m] = peer_connections[m]
                 /\ client_connections'[m] = client_connections[m]
      BY <2>2, ClientsTypes, RestTypes DEF KillServer
    <3>. QED
      BY <1>1, <3>1
  <2>3. CASE StartShim(n) \/ KillShim(n)
    BY <1>2, <2>3 DEF StartShim, KillShim, serverVars
  <2>. QED
    BY <1>3, <2>1, <2>2, <2>3 DEF StartUp, Die
\* The end of an iteration of initialize_connections.
<1>4. ASSUME NEW n \in Nodes, NEW conns, NEW clients, Listening(n),
             CompleteConnections(n, conns, clients),
             peer_connections' = [peer_connections EXCEPT ![n] = conns],
             client_connections' = [client_connections EXCEPT ![n] = clients],
             Cardinality(clients) \in Nat
      PROVE  ConnectingIsIncomplete'
  <2>1. /\ peer_connections'[n] = conns /\ client_connections'[n] = clients
        /\ \A m \in Nodes : m # n =>
               /\ peer_connections'[m] = peer_connections[m]
               /\ client_connections'[m] = client_connections[m]
    BY <1>4, ClientsTypes, RestTypes
  <2>2. /\ phase'[n] \in {"connecting", "electing"}
        /\ \A m \in Nodes : m # n => phase'[m] = phase[m]
    BY <1>4, CompleteConnectionsPhase DEF IndInv
  <2>3. phase'[n] = "connecting" =>
            ~((\A p \in Peers(n) : conns[p] # 0) /\ Cardinality(clients) >= NumClients)
    BY <1>4, ClientsTypes DEF CompleteConnections
  <2>. QED
    BY <1>1, <1>4, <2>1, <2>2, <2>3
<1>5. ASSUME NEW n \in Nodes, Work(n)
      PROVE  ConnectingIsIncomplete'
  <2>. Cardinality(client_connections[n]) \in Nat
    BY ClientsAreFinite
  <2>0. /\ client_connections = [client_connections EXCEPT ![n] = client_connections[n]]
        /\ peer_connections = [peer_connections EXCEPT ![n] = peer_connections[n]]
    BY ClientsTypes, RestTypes
  <2>1. ASSUME NEW peer \in dialled[n], RegisterWithPeer(n, peer)
        PROVE  ConnectingIsIncomplete'
    BY <1>4, <2>0, <2>1 DEF RegisterWithPeer, Listening
  <2>2. ASSUME NEW h \in handshakes[n], AcceptPeer(n, h) PROVE ConnectingIsIncomplete'
    BY <1>4, <2>0, <2>2 DEF AcceptPeer
  <2>3. ASSUME NEW id \in DOMAIN client_ids[n], InsertClient(n, id)
        PROVE  ConnectingIsIncomplete'
    BY <1>4, <2>0, <2>3, ClientsAreFinite DEF InsertClient, Listening
  <2>4. CASE \/ \E p \in dialing[n] : ConnectToPeer(n, p)
             \/ \E peer \in dialled[n] : FailToRegister(n, peer)
             \/ \E h \in handshakes[n] : MissPeer(n, h)
             \/ \E i \in client_handshakes[n] : AcceptClient(n, i) \/ MissClient(n, i)
             \/ AttemptLeadership(n) \/ GainLeadership(n)
    BY <1>2, <2>4 DEF ConnectToPeer, FailToRegister, MissPeer, AcceptClient, MissClient,
                      AttemptLeadership, GainLeadership
  <2>5. CASE LeadStart(n) \/ \E s \in signals : FollowStart(n, s)
    <3>1. /\ phase' = [phase EXCEPT ![n] = "serving"]
          /\ UNCHANGED <<peer_connections, client_connections>>
      BY <2>5 DEF LeadStart, FollowStart
    <3>2. phase'[n] = "serving" /\ \A m \in Nodes : m # n => phase'[m] = phase[m]
      BY <3>1, ClientsTypes
    <3>. QED
      BY <1>1, <3>1, <3>2
  <2>6. CASE ConnectShim(n) \/ TakeStartSignal(n) \/ AwaitShim(n)
    BY <1>2, <2>6 DEF ConnectShim, TakeStartSignal, AwaitShim, serverVars
  <2>. QED
    BY <1>5, <2>1, <2>2, <2>3, <2>4, <2>5, <2>6 DEF Work
<1>6. CASE UNCHANGED vars
  BY <1>2, <1>6 DEF vars, serverVars
<1>. QED
  BY <1>3, <1>5, <1>6 DEF Next

CompleteInv ==
    /\ IndInv /\ ConnectionsAreToStarted /\ DialInv /\ ClientsInv /\ RestInv
    /\ ConnectingIsIncomplete /\ ShimsFromOne

\* The start is at rest, and every server that died was connected to first.
AtRest ==
    /\ \A n \in Nodes : ~CanWork(n)
    /\ \A p, q \in Nodes :
          incarnation[p] > 0 /\ phase[p] = "off" /\ phase[q] # "off" /\ p # q
          => peer_connections[q][p] # 0

\* The shim of a node of which nothing died has registered.
LEMMA ShimHasRegistered ==
    ASSUME CompleteInv, AtRest, MaxShimStarts = 1, NEW n \in Nodes, ~Died(n),
           phase[n] = "connecting"
    PROVE  client_connections[n] # {}
<1>1. /\ shim_incarnation[n] \in Nat /\ shim_phase[n] \in ShimPhases
      /\ client_ids[n] \in Seq(Nat)
  BY ClientsTypes DEF CompleteInv
<1>2. shim_phase[n] # "off"
  <2>1. ~(shim_phase[n] = "off" /\ shim_incarnation[n] > 0)
    BY DEF Died
  <2>2. incarnation[n] > 0
    BY RestTypes DEF CompleteInv, IndInv, RunningHasStarted
  <2>3. ~(shim_phase[n] = "off" /\ shim_incarnation[n] < 1)
    BY <2>2 DEF AtRest, CanWork
  <2>. QED
    BY <1>1, <2>1, <2>3
<1>3. shim_phase[n] # "connecting"
  BY DEF AtRest, CanWork, Listening
<1>4. client_handshakes[n] = {}
  BY DEF AtRest, CanWork
<1>5. \E id \in DOMAIN client_ids[n] : client_ids[n][id] = shim_incarnation[n]
  BY <1>1, <1>2, <1>3, <1>4 DEF CompleteInv, RestInv, ClientIsNotLost, ShimPhases
<1>6. client_connections[n] = DOMAIN client_ids[n]
  BY DEF AtRest, CanWork
<1>. QED
  BY <1>5, <1>6

\* A node of which nothing died has all its connections: of two servers that
\* wait for each other one could dial, or take a registration.
LEMMA LivingIsInOperation ==
    ASSUME CompleteInv, AtRest, MaxServerStarts = 1, MaxShimStarts = 1,
           NumClients = 1, NEW n \in Nodes, ~Died(n)
    PROVE  InOperation(n)
<1>. USE NodesAssumption
<1>1. \A m \in Nodes : incarnation[m] \in Nat /\ phase[m] \in Phases
  BY RestTypes DEF CompleteInv
<1>2. phase[n] # "off"
  <2>1. ~(phase[n] = "off" /\ incarnation[n] > 0)
    BY DEF Died
  <2>2. ~(phase[n] = "off" /\ incarnation[n] < 1)
    BY DEF AtRest, CanWork
  <2>. QED
    BY <1>1, <2>1, <2>2
<1>3. SUFFICES ASSUME phase[n] = "connecting" PROVE FALSE
  BY <1>1, <1>2 DEF Phases, InOperation
<1>4. ASSUME NEW p \in Peers(n), peer_connections[n][p] = 0
      PROVE  FALSE
  <2>1. p \in Nodes /\ p # n /\ n \in Nat /\ p \in Nat
    BY DEF Peers
  <2>2. phase[p] # "off"
    <3>1. ~(phase[p] = "off" /\ incarnation[p] > 0)
      BY <1>2, <1>4, <2>1 DEF AtRest
    <3>2. ~(phase[p] = "off" /\ incarnation[p] < 1)
      BY <2>1 DEF AtRest, CanWork
    <3>. QED
      BY <1>1, <2>1, <3>1, <3>2
  <2>3. CASE p < n
    <3>0. p \in dialing[n]
      <4>1. \/ p \in dialing[n] \/ dialled[n] # {}
            \/ phase[p] = "off"
        BY <1>3, <1>4, <2>1, <2>3 DEF CompleteInv, RestInv, ConnectorIsNotLost
      <4>. QED
        BY <2>2, <4>1 DEF AtRest, CanWork
    <3>1. phase[p] # "connecting"
      BY <3>0 DEF AtRest, CanWork, Listening
    <3>2. InOperation(p)
      BY <1>1, <2>1, <2>2, <3>1 DEF Phases, InOperation
    <3>3. peer_connections[p][n] # 0
      BY <2>1, <3>2 DEF CompleteInv, IndInv, OperationIsComplete, Peers
    <3>. QED
      BY <1>2, <1>4, <2>1, <2>3, <3>3 DEF CompleteInv, RestInv, DialedIsConnected
  <2>4. CASE n < p
    <3>1. ASSUME peer_connections[p][n] = 0 PROVE FALSE
      <4>1. n \in Peers(p)
        BY <2>1 DEF Peers
      <4>2. ~InOperation(p)
        BY <2>1, <3>1, <4>1 DEF CompleteInv, IndInv, OperationIsComplete
      <4>3. phase[p] = "connecting"
        BY <1>1, <2>1, <2>2, <4>2 DEF Phases, InOperation
      <4>4. n \in dialing[p] \/ dialled[p] # {}
        BY <1>3, <2>1, <2>4, <3>1, <4>3 DEF CompleteInv, RestInv, ConnectorIsNotLost
      <4>. QED
        BY <1>3, <2>1, <4>4 DEF AtRest, CanWork, Listening
    <3>2. Process(p) \in handshakes[n]
      BY <1>3, <1>4, <2>1, <2>2, <2>4, <3>1 DEF CompleteInv, RestInv, DialIsNotLost
    <3>. QED
      BY <3>2 DEF AtRest, CanWork
  <2>. QED
    BY <2>1, <2>3, <2>4
<1>5. /\ Cardinality(client_connections[n]) \in Nat
      /\ Cardinality(client_connections[n]) # 0
  BY <1>3, ShimHasRegistered, ClientsAreFinite, FS_EmptySet DEF CompleteInv
<1>6. Cardinality(client_connections[n]) < 1
  BY <1>3, <1>4 DEF CompleteInv, ConnectingIsIncomplete
<1>. QED
  BY <1>5, <1>6

\* Of two nodes whose servers are in operation each reads the other, unless
\* the first messages were discarded.
LEMMA Reading ==
    ASSUME CompleteInv, MaxServerStarts = 1, NEW n \in Nodes, NEW p \in Nodes,
           n # p, InOperation(n), InOperation(p), Process(p) \notin unheard[n]
    PROVE  peer_connections[n][p] = incarnation[p] /\ Reads(Process(n), Process(p))
<1>. USE NodesAssumption
<1>1. peer_connections[n][p] \in Nat /\ incarnation[p] \in Nat
  BY RestTypes DEF CompleteInv
<1>2. peer_connections[n][p] # 0
  BY DEF CompleteInv, IndInv, OperationIsComplete, Peers
<1>3. peer_connections[n][p] <= incarnation[p] /\ incarnation[p] <= 1
  BY DEF CompleteInv, ConnectionsAreToStarted
<1>4. peer_connections[n][p] = incarnation[p]
  BY <1>1, <1>2, <1>3
<1>5. n < p => Process(p) \in readers[n]
  BY <1>2, <1>4 DEF CompleteInv, RestInv, AcceptedIsRead, Process
<1>6. n < p \/ p < n
  <2>1. n \in Nat /\ p \in Nat
    OBVIOUS
  <2>. QED
    BY <2>1
<1>. QED
  BY <1>4, <1>5, <1>6 DEF Reads, Process

\* The initial leader serves: who hears it is linked to it.
LEMMA LeaderServes ==
    ASSUME CompleteInv, AtRest, MaxServerStarts = 1, MaxShimStarts = 1,
           NumClients = 1, ~Died(InitialLeader),
           ~(Cardinality({p \in Nodes : ~Died(p) /\ Hears(p, InitialLeader)})
                 < ReadQuorumSize)
    PROVE  phase[InitialLeader] = "serving"
<1> DEFINE L == InitialLeader
           S == {p \in Nodes : ~Died(p) /\ Hears(p, L)}
           T == {p \in Peers(L) : Linked(L, p)}
<1>. USE NodesAssumption
<1>1. InOperation(L)
  BY LivingIsInOperation
<1>2. SUFFICES ASSUME phase[L] = "electing" PROVE FALSE
  BY <1>1 DEF InOperation
<1>3. ~(Cardinality(T) + 1 >= ReadQuorumSize)
  BY <1>2 DEF AtRest, CanWork
<1>4. S \subseteq T \cup {L}
  <2>. SUFFICES ASSUME NEW p \in Nodes, ~Died(p), Hears(p, L), p # L
                PROVE  Linked(L, p)
    BY DEF Peers
  <2>1. InOperation(p)
    BY LivingIsInOperation
  <2>2. Process(L) \notin unheard[p] /\ Process(p) \notin unheard[L]
    BY DEF Hears, CompleteInv, RestInv, OnlyLeaderLeads
  <2>. QED
    BY <1>1, <2>1, <2>2, Reading DEF Linked
<1>5. /\ IsFiniteSet(T) /\ IsFiniteSet(T \cup {L}) /\ Cardinality(T) \in Nat
      /\ Cardinality(T \cup {L}) \in Nat
      /\ Cardinality(T \cup {L}) <= Cardinality(T) + 1
  <2>1. IsFiniteSet(T) /\ Cardinality(T) \in Nat
    <3>1. T \subseteq Nodes
      BY DEF Peers
    <3>. QED
      BY <3>1, FS_Subset, FS_CardinalityType
  <2>. HIDE DEF T, L
  <2>2. /\ IsFiniteSet(T \cup {L})
        /\ Cardinality(T \cup {L}) \in {Cardinality(T), Cardinality(T) + 1}
    BY <2>1, FS_AddElement
  <2>. QED
    BY <2>1, <2>2
<1>6. Cardinality(S) \in Nat /\ Cardinality(S) <= Cardinality(T \cup {L})
  <2>. HIDE DEF S, T, L
  <2>. QED
    BY <1>4, <1>5, FS_Subset, FS_CardinalityType
<1>7. ~(Cardinality(S) < ReadQuorumSize)
  OBVIOUS
<1>. HIDE DEF S, T
<1>. QED
  BY <1>3, <1>5, <1>6, <1>7, NumClientsAssumption

\* The shim of a server that serves has its StartSignal.
LEMMA ServingIsStarted ==
    ASSUME CompleteInv, AtRest, MaxShimStarts = 1, NumClients = 1,
           NEW n \in Nodes, ~Died(n), phase[n] = "serving"
    PROVE  shim_phase[n] = "started"
<1> DEFINE cc == client_ids[n]
<1>1. /\ shim_incarnation[n] \in Nat /\ shim_phase[n] \in ShimPhases
      /\ cc \in Seq(Nat) /\ Len(cc) \in Nat
      /\ client_connections[n] \subseteq 1 .. Len(cc)
  BY ClientsTypes DEF CompleteInv
<1>2. shim_phase[n] # "off" /\ shim_incarnation[n] # 0
  <2>1. ~(shim_phase[n] = "off" /\ shim_incarnation[n] > 0)
    BY DEF Died
  <2>4. incarnation[n] > 0
    BY RestTypes DEF CompleteInv, IndInv, RunningHasStarted
  <2>2. ~(shim_phase[n] = "off" /\ shim_incarnation[n] < 1)
    BY <2>4 DEF AtRest, CanWork
  <2>3. shim_phase[n] # "off"
    BY <1>1, <2>1, <2>2
  <2>. QED
    BY <2>3 DEF CompleteInv, ShimsFromOne
<1>3. /\ IsFiniteSet(client_handshakes[n])
      /\ Len(cc) + Cardinality(client_handshakes[n]) + IsToConnect(n)
            <= shim_incarnation[n]
      /\ shim_incarnation[n] <= 1
  BY DEF CompleteInv, ClientsInv, ClientsAreCounted
<1>4. Cardinality(client_handshakes[n]) \in Nat /\ IsToConnect(n) \in {0, 1}
  BY <1>3, FS_CardinalityType DEF IsToConnect
<1>11. client_connections[n] # {}
  <2>1. Cardinality(client_connections[n]) >= 1
    BY DEF CompleteInv, IndInv, OperationIsComplete, InOperation
  <2>. QED
    BY <2>1, FS_EmptySet
<1>12. PICK id \in client_connections[n] : TRUE
  BY <1>11
<1>13. Len(cc) >= 1
  <2>. HIDE DEF cc
  <2>. QED
    BY <1>1, <1>12
<1>5. IsToConnect(n) = 0 /\ shim_incarnation[n] = 1
  <2>. HIDE DEF cc
  <2>. QED
    BY <1>1, <1>2, <1>3, <1>4, <1>13
<1>6. shim_phase[n] # "connecting"
  BY <1>5 DEF IsToConnect
<1>14. 1 \in client_connections[n]
  <2>1. Len(cc) <= 1
    <3>. HIDE DEF cc
    <3>. QED
      BY <1>1, <1>3, <1>4
  <2>2. id = 1
    <3>. HIDE DEF cc
    <3>. QED
      BY <1>1, <1>12, <2>1
  <2>. QED
    BY <1>12, <2>2
<1>7. 1 \in DOMAIN cc /\ cc[1] \in Nat /\ cc[1] # 0 /\ cc[1] <= shim_incarnation[n]
  <2>1. 1 \in DOMAIN cc /\ cc[1] \in Nat
    BY <1>1, <1>13
  <2>. QED
    BY <2>1 DEF CompleteInv, ShimsFromOne, ClientsInv, ClientsAreShims
<1>8. cc[1] = shim_incarnation[n]
  <2>. HIDE DEF cc
  <2>. QED
    BY <1>5, <1>7
<1>9. shim_incarnation[n] \in start_signals[n]
  BY <1>2, <1>8, <1>14 DEF CompleteInv, ClientsInv, FirstClientsAreStarted,
                           StartedClientIds
<1>10. shim_phase[n] # "waiting"
  BY <1>9 DEF AtRest, CanWork
<1>. QED
  BY <1>1, <1>2, <1>6, <1>10 DEF ShimPhases

\* When every process is started once and a node's only client is its shim, as
\* setup! starts them, the start never comes to rest with a node that is
\* neither started nor held up by one of the things HeldUp names, for any
\* number of nodes and wherever processes die (server/network.rs:92-118,
\* 206-241, server.rs:76-112).
THEOREM StartComesToRestComplete ==
    ASSUME MaxServerStarts = 1, MaxShimStarts = 1, NumClients = 1
    PROVE  Spec => []RestMeansStarted
<1>1. CompleteInv => RestMeansStarted
  <2>. SUFFICES ASSUME CompleteInv, \A n \in Nodes : ~CanWork(n),
                       NEW n \in Nodes, ~HeldUp(n)
                PROVE  Started(n)
    BY DEF RestMeansStarted
  <2>1. /\ ~Died(n) /\ ~Died(InitialLeader) /\ Hears(n, InitialLeader)
        /\ ~(Cardinality({p \in Nodes : ~Died(p) /\ Hears(p, InitialLeader)})
                < ReadQuorumSize)
        /\ AtRest
    BY DEF HeldUp, AtRest
  <2>2. phase[InitialLeader] = "serving" /\ InOperation(n)
    BY <2>1, LeaderServes, LivingIsInOperation
  <2>3. phase[n] = "serving"
    <3>. SUFFICES ASSUME n # InitialLeader, phase[n] # "serving" PROVE FALSE
      BY <2>2
    <3>1. Process(InitialLeader) \notin unheard[n]
      BY <2>1 DEF Hears
    <3>2. [from |-> Process(InitialLeader), to |-> Process(n)] \in signals
      BY <2>2, <3>1 DEF CompleteInv, RestInv, SignalIsNotLost, InOperation
    <3>3. Reads(Process(n), Process(InitialLeader))
      BY <2>2, <3>1, Reading, NodesAssumption DEF InOperation
    <3>. QED
      BY <2>1, <2>2, <3>2, <3>3 DEF AtRest, CanWork
  <2>. QED
    BY <2>1, <2>3, ServingIsStarted DEF Started
<1>2. Init => CompleteInv
  BY InitIndInv, InitConnectionsAreToStarted, InitDialInv, InitClientsInv, InitRestInv,
     InitCompletion DEF CompleteInv
<1>3. CompleteInv /\ [Next]_vars => CompleteInv'
  BY NextIndInv, NextConnectionsAreToStarted, NextDialInv, NextClientsInv, NextRestInv,
     NextConnectingIsIncomplete, NextShimsFromOne DEF CompleteInv
<1>. QED
  BY <1>1, <1>2, <1>3, PTL DEF Spec

(***************************************************************************)
(* The start cannot be busy for ever                                       *)
(***************************************************************************)

\* The parts of Ahead that are about connections.
DialsAhead(n) == IF phase[n] = "off" THEN PeersToDial(n) ELSE dialing[n]

PeersAhead(n) == {p \in PeersToDial(n) : peer_connections[n][p] = 0}

ClientsAhead(n) == (1 .. MaxShimStarts) \ client_connections[n]

\* The parts of Ahead and of UnderWayTo, one by one.
LEMMA AheadByParts ==
    ASSUME NEW n \in Nodes
    PROVE  /\ Shrinks(Ahead(n), Ahead(n)') <=>
                 /\ PhasesAfter[phase'[n]] \subseteq PhasesAfter[phase[n]]
                 /\ ShimPhasesAfter[shim_phase'[n]] \subseteq ShimPhasesAfter[shim_phase[n]]
                 /\ LeadershipAfter[leadership'[n]] \subseteq LeadershipAfter[leadership[n]]
                 /\ {n} \ setup_done' \subseteq {n} \ setup_done
                 /\ DialsAhead(n)' \subseteq DialsAhead(n)
                 /\ PeersAhead(n)' \subseteq PeersAhead(n)
                 /\ ClientsAhead(n)' \subseteq ClientsAhead(n)
           /\ Ahead(n)' = Ahead(n) =>
                 /\ PhasesAfter[phase'[n]] = PhasesAfter[phase[n]]
                 /\ ShimPhasesAfter[shim_phase'[n]] = ShimPhasesAfter[shim_phase[n]]
                 /\ LeadershipAfter[leadership'[n]] = LeadershipAfter[leadership[n]]
                 /\ {n} \ setup_done' = {n} \ setup_done
                 /\ DialsAhead(n)' = DialsAhead(n)
                 /\ PeersAhead(n)' = PeersAhead(n)
                 /\ ClientsAhead(n)' = ClientsAhead(n)
<1>1. UNCHANGED <<PhasesAfter, ShimPhasesAfter, LeadershipAfter, PeersToDial(n)>>
  BY DEF PhasesAfter, ShimPhasesAfter, LeadershipAfter, PeersToDial
<1>2. DOMAIN Ahead(n) =
          {"server", "shim", "leadership", "setup", "dials", "peers", "clients"}
  BY DEF Ahead
<1>3. /\ Ahead(n).server = PhasesAfter[phase[n]]
      /\ Ahead(n).shim = ShimPhasesAfter[shim_phase[n]]
      /\ Ahead(n).leadership = LeadershipAfter[leadership[n]]
      /\ Ahead(n).setup = {n} \ setup_done
      /\ Ahead(n).dials = DialsAhead(n)
      /\ Ahead(n).peers = PeersAhead(n)
      /\ Ahead(n).clients = ClientsAhead(n)
  BY DEF Ahead, DialsAhead, PeersAhead, ClientsAhead
<1>4. /\ Ahead(n)'.server = PhasesAfter[phase'[n]]
      /\ Ahead(n)'.shim = ShimPhasesAfter[shim_phase'[n]]
      /\ Ahead(n)'.leadership = LeadershipAfter[leadership'[n]]
      /\ Ahead(n)'.setup = {n} \ setup_done'
      /\ Ahead(n)'.dials = DialsAhead(n)'
      /\ Ahead(n)'.peers = PeersAhead(n)'
      /\ Ahead(n)'.clients = ClientsAhead(n)'
  BY <1>1 DEF Ahead, DialsAhead, PeersAhead, ClientsAhead
<1>. QED
  BY <1>2, <1>3, <1>4 DEF Shrinks

LEMMA UnderWayByParts ==
    ASSUME NEW n \in Nodes
    PROVE  /\ Shrinks(UnderWayTo(n), UnderWayTo(n)') <=>
                 /\ handshakes'[n] \subseteq handshakes[n]
                 /\ dialled'[n] \subseteq dialled[n]
                 /\ client_handshakes'[n] \subseteq client_handshakes[n]
                 /\ {s \in signals' : s.to.node = n} \subseteq {s \in signals : s.to.node = n}
           /\ UnderWayTo(n)' = UnderWayTo(n) =>
                 /\ handshakes'[n] = handshakes[n]
                 /\ dialled'[n] = dialled[n]
                 /\ client_handshakes'[n] = client_handshakes[n]
                 /\ {s \in signals' : s.to.node = n} = {s \in signals : s.to.node = n}
<1>1. DOMAIN UnderWayTo(n) = {"peers", "dials", "clients", "signals"}
  BY DEF UnderWayTo
<1>2. /\ UnderWayTo(n).peers = handshakes[n]
      /\ UnderWayTo(n).dials = dialled[n]
      /\ UnderWayTo(n).clients = client_handshakes[n]
      /\ UnderWayTo(n).signals = {s \in signals : s.to.node = n}
  BY DEF UnderWayTo
<1>3. /\ UnderWayTo(n)'.peers = handshakes'[n]
      /\ UnderWayTo(n)'.dials = dialled'[n]
      /\ UnderWayTo(n)'.clients = client_handshakes'[n]
      /\ UnderWayTo(n)'.signals = {s \in signals' : s.to.node = n}
  BY DEF UnderWayTo
<1>. QED
  BY <1>1, <1>2, <1>3 DEF Shrinks

\* A server that goes on has fewer phases ahead, a shim and a leader too.
LEMMA LaterIsLess ==
    /\ \A before, after \in Phases :
          /\ \/ after = before \/ before = "off"
             \/ before = "connecting" /\ after # "off"
             \/ after = "serving"
             => PhasesAfter[after] \subseteq PhasesAfter[before]
          /\ after # before => PhasesAfter[after] # PhasesAfter[before]
    /\ \A before, after \in ShimPhases :
          /\ \/ after = before \/ before = "off"
             \/ before = "connecting" /\ after # "off"
             \/ after = "started"
             => ShimPhasesAfter[after] \subseteq ShimPhasesAfter[before]
          /\ after # before => ShimPhasesAfter[after] # ShimPhasesAfter[before]
    /\ \A before, after \in {"none", "tried", "accept"} :
          /\ after = before \/ before = "none" \/ after = "accept"
             => LeadershipAfter[after] \subseteq LeadershipAfter[before]
          /\ after # before => LeadershipAfter[after] # LeadershipAfter[before]
<1>1. /\ PhasesAfter["off"] = {"connecting", "electing", "serving"}
      /\ PhasesAfter["connecting"] = {"electing", "serving"}
      /\ PhasesAfter["electing"] = {"serving"} /\ PhasesAfter["serving"] = {}
  BY DEF PhasesAfter
<1>2. /\ ShimPhasesAfter["off"] = {"connecting", "waiting", "started"}
      /\ ShimPhasesAfter["connecting"] = {"waiting", "started"}
      /\ ShimPhasesAfter["waiting"] = {"started"} /\ ShimPhasesAfter["started"] = {}
  BY DEF ShimPhasesAfter
<1>3. /\ LeadershipAfter["none"] = {"tried", "accept"}
      /\ LeadershipAfter["tried"] = {"accept"} /\ LeadershipAfter["accept"] = {}
  BY DEF LeadershipAfter
<1>. QED
  BY <1>1, <1>2, <1>3 DEF Phases, ShimPhases

\* No node falls back: what a step that is no death does to phases, shims,
\* leadership, setup!, dialling and connections.
NoneFallsBack ==
    /\ \A m \in Nodes :
          /\ \/ phase'[m] = phase[m] \/ phase[m] = "off"
             \/ phase[m] = "connecting" /\ phase'[m] # "off"
             \/ phase'[m] = "serving"
          /\ \/ shim_phase'[m] = shim_phase[m] \/ shim_phase[m] = "off"
             \/ shim_phase[m] = "connecting" /\ shim_phase'[m] # "off"
             \/ shim_phase'[m] = "started"
          /\ leadership'[m] = leadership[m] \/ leadership[m] = "none" \/ leadership'[m] = "accept"
          /\ DialsAhead(m)' \subseteq DialsAhead(m)
          /\ \A p \in PeersToDial(m) :
                peer_connections[m][p] # 0 => peer_connections'[m][p] # 0
          /\ client_connections[m] \subseteq client_connections'[m]
    /\ setup_done \subseteq setup_done'

\* The part of Ahead in which node m moves.
Moves(m) ==
    \/ phase'[m] # phase[m] \/ shim_phase'[m] # shim_phase[m]
    \/ leadership'[m] # leadership[m]
    \/ m \in setup_done' \ setup_done
    \/ DialsAhead(m)' # DialsAhead(m)
    \/ \E p \in PeersToDial(m) : peer_connections[m][p] = 0 /\ peer_connections'[m][p] # 0
    \/ \E id \in 1 .. MaxShimStarts : id \in client_connections'[m] \ client_connections[m]

LEMMA AheadShrinks ==
    ASSUME TypeOK, TypeOK', NoneFallsBack
    PROVE  /\ \A m \in Nodes : Shrinks(Ahead(m), Ahead(m)')
           /\ \A m \in Nodes : Moves(m) => Ahead(m)' # Ahead(m)
<1>1. ASSUME NEW m \in Nodes
      PROVE  /\ phase[m] \in Phases /\ phase'[m] \in Phases
             /\ shim_phase[m] \in ShimPhases /\ shim_phase'[m] \in ShimPhases
             /\ leadership[m] \in {"none", "tried", "accept"}
             /\ leadership'[m] \in {"none", "tried", "accept"}
  BY DEF TypeOK, ServersTypeOK, ClientsTypeOK
<1>2. ASSUME NEW m \in Nodes PROVE Shrinks(Ahead(m), Ahead(m)')
  <2>1. PhasesAfter[phase'[m]] \subseteq PhasesAfter[phase[m]]
    BY <1>1, LaterIsLess DEF NoneFallsBack
  <2>2. ShimPhasesAfter[shim_phase'[m]] \subseteq ShimPhasesAfter[shim_phase[m]]
    BY <1>1, LaterIsLess DEF NoneFallsBack
  <2>3. LeadershipAfter[leadership'[m]] \subseteq LeadershipAfter[leadership[m]]
    BY <1>1, LaterIsLess DEF NoneFallsBack
  <2>4. {m} \ setup_done' \subseteq {m} \ setup_done
    BY DEF NoneFallsBack
  <2>5. DialsAhead(m)' \subseteq DialsAhead(m)
    BY DEF NoneFallsBack
  <2>6. PeersAhead(m)' \subseteq PeersAhead(m)
    BY DEF NoneFallsBack, PeersAhead, PeersToDial
  <2>7. ClientsAhead(m)' \subseteq ClientsAhead(m)
    BY DEF NoneFallsBack, ClientsAhead
  <2>. QED
    BY <2>1, <2>2, <2>3, <2>4, <2>5, <2>6, <2>7, AheadByParts
<1>3. ASSUME NEW m \in Nodes, Moves(m), Ahead(m)' = Ahead(m) PROVE FALSE
  <2>1. /\ PhasesAfter[phase'[m]] = PhasesAfter[phase[m]]
        /\ ShimPhasesAfter[shim_phase'[m]] = ShimPhasesAfter[shim_phase[m]]
        /\ LeadershipAfter[leadership'[m]] = LeadershipAfter[leadership[m]]
        /\ {m} \ setup_done' = {m} \ setup_done
        /\ DialsAhead(m)' = DialsAhead(m)
        /\ PeersAhead(m)' = PeersAhead(m)
        /\ ClientsAhead(m)' = ClientsAhead(m)
    BY <1>3, AheadByParts
  <2>2. /\ phase'[m] = phase[m] /\ shim_phase'[m] = shim_phase[m]
        /\ leadership'[m] = leadership[m]
    BY <1>1, <2>1, LaterIsLess
  <2>3. \A p \in PeersToDial(m) : peer_connections[m][p] = 0 => peer_connections'[m][p] = 0
    BY <2>1 DEF PeersAhead, PeersToDial
  <2>4. \A id \in 1 .. MaxShimStarts :
            id \in client_connections'[m] => id \in client_connections[m]
    BY <2>1 DEF ClientsAhead
  <2>. QED
    BY <1>3, <2>1, <2>2, <2>3, <2>4 DEF Moves
<1>. QED
  BY <1>2, <1>3

\* A step that neither starts nor stops a connector leaves as much to dial.
LEMMA SameDials ==
    ASSUME UNCHANGED dialing,
           \A m \in Nodes :
              phase'[m] = phase[m] \/ (phase[m] # "off" /\ phase'[m] # "off")
    PROVE  \A m \in Nodes : DialsAhead(m)' = DialsAhead(m)
BY DEF DialsAhead, PeersToDial

\* The consequent of StartAdvances.
Advances ==
    /\ \A n \in Nodes : Shrinks(Ahead(n), Ahead(n)')
    /\ \/ \E n \in Nodes : Ahead(n)' # Ahead(n)
       \/ /\ \A n \in Nodes : Shrinks(UnderWayTo(n), UnderWayTo(n)')
          /\ \E n \in Nodes : UnderWayTo(n)' # UnderWayTo(n)

\* A registration with a peer fills a slot that was empty, for good.
LEMMA RegisterWithPeerMoves ==
    ASSUME IndInv, DialInv, NEW n \in Nodes, NEW peer \in dialled[n],
           RegisterWithPeer(n, peer)
    PROVE  NoneFallsBack /\ Moves(n)
<1>1. /\ peer_connections' = [peer_connections EXCEPT ![n] =
                                 [peer_connections[n] EXCEPT ![peer.node] = peer.start]]
      /\ UNCHANGED <<dialing, client_connections, leadership, setup_done, shimVars>>
  BY DEF RegisterWithPeer
<1>2. /\ peer.node \in Nodes /\ peer.node \in PeersToDial(n) /\ peer.start # 0
      /\ peer_connections[n][peer.node] = 0
  BY RestTypes DEF IndInv, ConnectorsDialDown, DialInv, OneConnector, Processes,
                   PeersToDial
<1>3. \A m \in Nodes : \A q \in Nodes :
          peer_connections'[m][q] =
              IF m = n /\ q = peer.node THEN peer.start ELSE peer_connections[m][q]
  BY <1>1, <1>2, RestTypes
<1>4. \A m \in Nodes : \/ phase'[m] = phase[m]
                       \/ phase[m] = "connecting" /\ phase'[m] # "off"
  BY CompleteConnectionsPhase DEF IndInv, RegisterWithPeer, Listening
<1>5. \A m \in Nodes : DialsAhead(m)' = DialsAhead(m)
  BY <1>1, <1>4, SameDials
<1>6. NoneFallsBack
  BY <1>1, <1>2, <1>3, <1>4, <1>5 DEF NoneFallsBack, shimVars, PeersToDial
<1>. QED
  BY <1>2, <1>3, <1>6 DEF Moves

\* A client that is inserted had an id of one of the starts of its shim.
LEMMA InsertClientMoves ==
    ASSUME IndInv, ClientsInv, NEW n \in Nodes, NEW id, InsertClient(n, id)
    PROVE  NoneFallsBack /\ Moves(n)
<1>1. /\ id \in DOMAIN client_ids[n] /\ id \notin client_connections[n]
      /\ client_connections' = [client_connections EXCEPT ![n] =
                                   client_connections[n] \cup {id}]
      /\ UNCHANGED <<dialing, peer_connections, leadership, setup_done, shimVars>>
  BY DEF InsertClient
<1>2. \A m \in Nodes :
          client_connections'[m] = IF m = n THEN client_connections[n] \cup {id}
                                            ELSE client_connections[m]
  BY <1>1 DEF IndInv, TypeOK, ClientsTypeOK
<1>3. id \in 1 .. MaxShimStarts
  <2>1. /\ client_ids[n] \in Seq(Nat) /\ IsFiniteSet(client_handshakes[n])
        /\ shim_incarnation[n] \in Nat
        /\ Len(client_ids[n]) + Cardinality(client_handshakes[n]) + IsToConnect(n)
              <= shim_incarnation[n]
        /\ shim_incarnation[n] <= MaxShimStarts
    BY DEF IndInv, TypeOK, ClientsTypeOK, ClientsInv, ClientsAreCounted
  <2>2. Cardinality(client_handshakes[n]) \in Nat /\ IsToConnect(n) \in Nat
    BY <2>1, FS_CardinalityType DEF IsToConnect
  <2>3. id \in 1 .. Len(client_ids[n]) /\ Len(client_ids[n]) \in Nat
    BY <1>1, <2>1
  <2>. QED
    BY <2>1, <2>2, <2>3, BoundsAssumption
<1>4. \A m \in Nodes : \/ phase'[m] = phase[m]
                       \/ phase[m] = "connecting" /\ phase'[m] # "off"
  BY CompleteConnectionsPhase DEF IndInv, InsertClient, Listening
<1>5. \A m \in Nodes : DialsAhead(m)' = DialsAhead(m)
  BY <1>1, <1>4, SameDials
<1>6. NoneFallsBack
  BY <1>1, <1>2, <1>4, <1>5 DEF NoneFallsBack, shimVars
<1>. QED
  BY <1>1, <1>2, <1>3, <1>6 DEF Moves

\* Whatever starts or goes on by itself moves its node.
LEMMA MovingAdvances ==
    ASSUME IndInv, IndInv', DialInv, ClientsInv, NEW n \in Nodes,
           \/ StartUp(n) \/ \E p \in dialing[n] : ConnectToPeer(n, p)
           \/ \E peer \in dialled[n] : RegisterWithPeer(n, peer)
           \/ \E id \in DOMAIN client_ids[n] : InsertClient(n, id)
           \/ AttemptLeadership(n) \/ GainLeadership(n) \/ LeadStart(n)
           \/ ConnectShim(n) \/ TakeStartSignal(n) \/ AwaitShim(n)
    PROVE  Advances
<1>1. TypeOK /\ TypeOK'
  BY DEF IndInv
<1>2. /\ phase \in [Nodes -> Phases] /\ leadership \in [Nodes -> {"none", "tried", "accept"}]
      /\ shim_phase \in [Nodes -> ShimPhases]
      /\ dialing \in [Nodes -> SUBSET Nodes]
  BY <1>1 DEF TypeOK, ServersTypeOK, ClientsTypeOK, PeersTypeOK
<1>3. NoneFallsBack /\ Moves(n)
  <2>1. CASE StartServer(n)
    <3>1. phase[n] = "off" /\ phase' = [phase EXCEPT ![n] = "connecting"]
          /\ dialing' = [dialing EXCEPT ![n] = PeersToDial(n)]
          /\ UNCHANGED <<shim_phase, leadership, setup_done, peer_connections,
                         client_connections>>
      BY <2>1 DEF StartServer, shimVars
    <3>2. \A m \in Nodes : DialsAhead(m)' = DialsAhead(m)
      <4>1. \A m \in Nodes : m # n => phase'[m] = phase[m] /\ dialing'[m] = dialing[m]
        BY <1>2, <3>1
      <4>2. phase'[n] = "connecting" /\ dialing'[n] = PeersToDial(n)
        BY <1>2, <3>1
      <4>. QED
        BY <3>1, <4>1, <4>2 DEF DialsAhead, PeersToDial
    <3>. QED
      BY <1>2, <3>1, <3>2 DEF NoneFallsBack, Moves
  <2>2. CASE StartShim(n)
    <3>1. \A m \in Nodes : DialsAhead(m)' = DialsAhead(m)
      BY <2>2, SameDials DEF StartShim, serverVars
    <3>. QED
      BY <1>2, <2>2, <3>1 DEF StartShim, serverVars, NoneFallsBack, Moves
  <2>3. ASSUME NEW p \in dialing[n], ConnectToPeer(n, p)
        PROVE  NoneFallsBack /\ Moves(n)
    <3>1. /\ phase[n] = "connecting"
          /\ dialing' = [dialing EXCEPT ![n] = dialing[n] \ {p}]
          /\ UNCHANGED <<phase, peer_connections, client_connections,
                         leadership, setup_done, shimVars>>
      BY <2>3 DEF ConnectToPeer, DialsNoMore
    <3>2. \A m \in Nodes : dialing'[m] = IF m = n THEN dialing[n] \ {p} ELSE dialing[m]
      BY <1>2, <3>1
    <3>3. /\ \A m \in Nodes : DialsAhead(m)' \subseteq DialsAhead(m)
          /\ DialsAhead(n)' # DialsAhead(n)
      BY <3>1, <3>2 DEF DialsAhead, PeersToDial
    <3>. QED
      BY <3>1, <3>3 DEF NoneFallsBack, Moves, shimVars
  <2>4. CASE AttemptLeadership(n) \/ GainLeadership(n)
    <3>1. \A m \in Nodes : DialsAhead(m)' = DialsAhead(m)
      BY <2>4, SameDials DEF AttemptLeadership, GainLeadership
    <3>. QED
      BY <1>2, <2>4, <3>1 DEF AttemptLeadership, GainLeadership, shimVars,
                              NoneFallsBack, Moves
  <2>5. CASE LeadStart(n)
    <3>1. \A m \in Nodes : DialsAhead(m)' = DialsAhead(m)
      BY <1>2, <2>5, SameDials DEF LeadStart
    <3>. QED
      BY <1>2, <2>5, <3>1 DEF LeadStart, NoneFallsBack, Moves
  <2>6. CASE ConnectShim(n)
    <3>1. \A m \in Nodes : DialsAhead(m)' = DialsAhead(m)
      BY <2>6, SameDials DEF ConnectShim
    <3>. QED
      BY <1>2, <2>6, <3>1 DEF ConnectShim, NoneFallsBack, Moves
  <2>7. CASE TakeStartSignal(n)
    <3>1. \A m \in Nodes : DialsAhead(m)' = DialsAhead(m)
      BY <2>7, SameDials DEF TakeStartSignal, serverVars
    <3>. QED
      BY <1>2, <2>7, <3>1 DEF TakeStartSignal, serverVars, NoneFallsBack, Moves
  <2>8. CASE AwaitShim(n)
    <3>1. \A m \in Nodes : DialsAhead(m)' = DialsAhead(m)
      BY <2>8, SameDials DEF AwaitShim, serverVars
    <3>. QED
      BY <1>2, <2>8, <3>1 DEF AwaitShim, serverVars, shimVars, NoneFallsBack, Moves
  <2>. QED
    BY <2>1, <2>2, <2>3, <2>4, <2>5, <2>6, <2>7, <2>8, RegisterWithPeerMoves,
       InsertClientMoves DEF StartUp
<1>. QED
  BY <1>1, <1>3, AheadShrinks DEF Advances

\* One thing less is under way to node n, and nothing more to any.
FewerUnderWay(n) ==
    /\ \A m \in Nodes : /\ handshakes'[m] \subseteq handshakes[m]
                        /\ dialled'[m] \subseteq dialled[m]
                        /\ client_handshakes'[m] \subseteq client_handshakes[m]
    /\ signals' \subseteq signals
    /\ \/ handshakes'[n] # handshakes[n]
       \/ dialled'[n] # dialled[n]
       \/ client_handshakes'[n] # client_handshakes[n]
       \/ \E s \in signals \ signals' : s.to.node = n

\* Whatever takes a registration or a signal leaves fewer of them.
LEMMA TakingAdvances ==
    ASSUME IndInv, IndInv', NEW n \in Nodes,
           \/ \E dialer \in handshakes[n] : AcceptPeer(n, dialer) \/ MissPeer(n, dialer)
           \/ \E peer \in dialled[n] : FailToRegister(n, peer)
           \/ \E i \in client_handshakes[n] : AcceptClient(n, i) \/ MissClient(n, i)
           \/ \E s \in signals : FollowStart(n, s)
    PROVE  Advances
<1>1. TypeOK /\ TypeOK'
  BY DEF IndInv
<1>2. /\ phase \in [Nodes -> Phases]
      /\ peer_connections \in [Nodes -> [Nodes -> Nat]]
      /\ handshakes \in [Nodes -> SUBSET Processes]
      /\ dialled \in [Nodes -> SUBSET Processes]
      /\ client_handshakes \in [Nodes -> SUBSET Nat]
  BY <1>1 DEF TypeOK, ServersTypeOK, ClientsTypeOK, PeersTypeOK
<1>3. NoneFallsBack /\ FewerUnderWay(n)
  <2>1. ASSUME NEW dialer \in handshakes[n], AcceptPeer(n, dialer)
        PROVE  NoneFallsBack /\ FewerUnderWay(n)
    <3>1. \A m \in Nodes : \/ phase'[m] = phase[m]
                           \/ phase[m] = "connecting" /\ phase'[m] # "off"
      BY <2>1, <1>1, CompleteConnectionsPhase DEF AcceptPeer, Listening
    <3>2. n < dialer.node /\ dialer.node \in Nat /\ n \in Nat
      BY RestTypes, NodesAssumption
    <3>3. \A m \in Nodes : \A p \in PeersToDial(m) :
              peer_connections'[m][p] = peer_connections[m][p]
      BY <1>2, <2>1, <3>2, NodesAssumption DEF AcceptPeer, PeersToDial
    <3>a. \A m \in Nodes : DialsAhead(m)' = DialsAhead(m)
      BY <2>1, <3>1, SameDials DEF AcceptPeer
    <3>4. NoneFallsBack
      BY <2>1, <3>1, <3>3, <3>a DEF AcceptPeer, shimVars, NoneFallsBack
    <3>5. /\ handshakes' = [handshakes EXCEPT ![n] = @ \ {dialer}]
          /\ UNCHANGED <<client_handshakes, dialled>> /\ signals' \subseteq signals
      BY <2>1 DEF AcceptPeer, DiscardReadAhead
    <3>. QED
      BY <1>2, <3>4, <3>5 DEF FewerUnderWay
  <2>2. ASSUME NEW dialer \in handshakes[n], MissPeer(n, dialer)
        PROVE  NoneFallsBack /\ FewerUnderWay(n)
    <3>1. \A m \in Nodes : DialsAhead(m)' = DialsAhead(m)
      BY <2>2, SameDials DEF MissPeer
    <3>. QED
      BY <1>2, <2>2, <3>1 DEF MissPeer, shimVars, NoneFallsBack, FewerUnderWay
  <2>3. ASSUME NEW i \in client_handshakes[n], AcceptClient(n, i) \/ MissClient(n, i)
        PROVE  NoneFallsBack /\ FewerUnderWay(n)
    <3>1. \A m \in Nodes : DialsAhead(m)' = DialsAhead(m)
      BY <2>3, SameDials DEF AcceptClient, MissClient
    <3>. QED
      BY <1>2, <2>3, <3>1 DEF AcceptClient, MissClient, shimVars, NoneFallsBack,
                              FewerUnderWay
  <2>4. ASSUME NEW peer \in dialled[n], FailToRegister(n, peer)
        PROVE  NoneFallsBack /\ FewerUnderWay(n)
    <3>1. \A m \in Nodes : DialsAhead(m)' = DialsAhead(m)
      BY <2>4, SameDials DEF FailToRegister
    <3>. QED
      BY <1>2, <2>4, <3>1 DEF FailToRegister, shimVars, NoneFallsBack, FewerUnderWay
  <2>5. ASSUME NEW s \in signals, FollowStart(n, s)
        PROVE  NoneFallsBack /\ FewerUnderWay(n)
    <3>1. \A m \in Nodes : DialsAhead(m)' = DialsAhead(m)
      BY <1>2, <2>5, SameDials DEF FollowStart, InOperation
    <3>. QED
      BY <1>2, <2>5, <3>1 DEF FollowStart, Process, NoneFallsBack, FewerUnderWay
  <2>. QED
    BY <2>1, <2>2, <2>3, <2>4, <2>5
<1>4. \A m \in Nodes : Shrinks(Ahead(m), Ahead(m)')
  BY <1>1, <1>3, AheadShrinks
<1>5. \A m \in Nodes : Shrinks(UnderWayTo(m), UnderWayTo(m)')
  BY <1>3, UnderWayByParts DEF FewerUnderWay
<1>6. UnderWayTo(n)' # UnderWayTo(n)
  BY <1>3, UnderWayByParts DEF FewerUnderWay
<1>. QED
  BY <1>4, <1>5, <1>6 DEF Advances

\* While no process dies every step of the start gets somewhere, for any
\* number of nodes, of clients and of starts: either some node has less ahead
\* of it, or fewer registrations and signals are under way
\* (server/network.rs:92-118, 200-241, server.rs:76-112).
THEOREM StartProgress == Spec => StartAdvances
<1>1. IndInv /\ IndInv' /\ DialInv /\ ClientsInv /\ Next /\ (\A n \in Nodes : ~Die(n)) => Advances
  BY MovingAdvances, TakingAdvances DEF Next, Work
<1>2. IndInv /\ DialInv /\ ClientsInv /\ [Next]_vars
      => [(\A n \in Nodes : ~Die(n)) => Advances]_vars
  BY <1>1, NextIndInv
<1>3. [(\A n \in Nodes : ~Die(n)) => Advances]_vars
      <=> [(\A n \in Nodes : ~Die(n)) =>
              /\ \A n \in Nodes : Shrinks(Ahead(n), Ahead(n)')
              /\ \/ \E n \in Nodes : Ahead(n)' # Ahead(n)
                 \/ /\ \A n \in Nodes : Shrinks(UnderWayTo(n), UnderWayTo(n)')
                    /\ \E n \in Nodes : UnderWayTo(n)' # UnderWayTo(n)]_vars
  BY DEF Advances
<1>. QED
  BY <1>2, <1>3, InitIndInv, NextIndInv, InitDialInv, NextDialInv, InitClientsInv,
     NextClientsInv, PTL DEF Spec, StartAdvances

\* What StartAdvances takes something off is finite.
MeasureIsFinite ==
    \A n \in Nodes :
        /\ \A part \in DOMAIN Ahead(n) : IsFiniteSet(Ahead(n)[part])
        /\ \A part \in DOMAIN UnderWayTo(n) : IsFiniteSet(UnderWayTo(n)[part])

UnderWayIsFinite ==
    /\ IsFiniteSet(signals)
    /\ \A n \in Nodes : /\ IsFiniteSet(handshakes[n]) /\ IsFiniteSet(dialled[n])
                        /\ IsFiniteSet(client_handshakes[n])

\* A server signals finitely many peers.
LEMMA SignalsAreFinite ==
    ASSUME IsFiniteSet(signals), NEW n \in Nodes, SendClusterStartSignals(n)
    PROVE  IsFiniteSet(signals')
<1> DEFINE signal(p) ==
               [from |-> Process(n), to |-> [node |-> p, start |-> peer_connections[n][p]]]
           sent == {signal(p) : p \in Peers(n)}
<1>1. IsFiniteSet(Peers(n))
  BY NodesAssumption, FS_Subset DEF Peers
<1>2. [p \in Peers(n) |-> signal(p)] \in Surjection(Peers(n), sent)
  BY DEF Surjection
<1>3. IsFiniteSet(sent)
  BY <1>1, <1>2, FS_Surjection
<1>4. signals' = signals \cup sent
  BY DEF SendClusterStartSignals
<1>. QED
  BY <1>3, <1>4, FS_Union

LEMMA NextUnderWayIsFinite ==
    IndInv /\ UnderWayIsFinite /\ [Next]_vars => UnderWayIsFinite'
<1>. SUFFICES ASSUME IndInv, UnderWayIsFinite, [Next]_vars PROVE UnderWayIsFinite'
  OBVIOUS
<1>0. /\ handshakes \in [Nodes -> SUBSET Processes]
      /\ dialled \in [Nodes -> SUBSET Processes]
      /\ client_handshakes \in [Nodes -> SUBSET Nat]
  BY DEF IndInv, TypeOK, PeersTypeOK, ClientsTypeOK
<1>1. IsFiniteSet(signals')
  <2>1. CASE \E n \in Nodes : LeadStart(n)
    BY <2>1, SignalsAreFinite DEF LeadStart, UnderWayIsFinite
  <2>2. CASE ~ \E n \in Nodes : LeadStart(n)
    <3>1. signals' \subseteq signals
      <4>1. CASE \E n \in Nodes : StartUp(n) \/ Die(n)
        BY <4>1 DEF StartUp, Die, StartServer, StartShim, KillServer, KillShim,
                    serverVars
      <4>2. CASE \E n \in Nodes : \/ \E p \in dialing[n] : ConnectToPeer(n, p)
                                  \/ \E id \in DOMAIN client_ids[n] : InsertClient(n, id)
        BY <4>2 DEF ConnectToPeer, InsertClient
      <4>3. CASE \E n \in Nodes : \E dialer \in handshakes[n] :
                    AcceptPeer(n, dialer) \/ MissPeer(n, dialer)
        BY <4>3 DEF AcceptPeer, MissPeer, DiscardReadAhead
      <4>4. CASE \E n \in Nodes : \E i \in client_handshakes[n] :
                    AcceptClient(n, i) \/ MissClient(n, i)
        BY <4>4 DEF AcceptClient, MissClient
      <4>5. CASE \E n \in Nodes : \E s \in signals : FollowStart(n, s)
        BY <4>5 DEF FollowStart
      <4>6. CASE \E n \in Nodes : AttemptLeadership(n) \/ GainLeadership(n)
        BY <4>6 DEF AttemptLeadership, GainLeadership
      <4>7. CASE \E n \in Nodes : ConnectShim(n) \/ TakeStartSignal(n) \/ AwaitShim(n)
        BY <4>7 DEF ConnectShim, TakeStartSignal, AwaitShim, serverVars
      <4>8. CASE UNCHANGED vars
        BY <4>8 DEF vars, serverVars
      <4>9. CASE \E n \in Nodes : \E peer \in dialled[n] :
                    RegisterWithPeer(n, peer) \/ FailToRegister(n, peer)
        BY <4>9 DEF RegisterWithPeer, FailToRegister
      <4>. QED
        BY <2>2, <4>1, <4>2, <4>3, <4>4, <4>5, <4>6, <4>7, <4>8, <4>9 DEF Next, Work
    <3>. QED
      BY <3>1, FS_Subset DEF UnderWayIsFinite
  <2>. QED
    BY <2>1, <2>2
<1>2. ASSUME NEW n \in Nodes
      PROVE  /\ \E q : handshakes'[n] \subseteq handshakes[n] \cup {q}
             /\ \E q : dialled'[n] \subseteq dialled[n] \cup {q}
             /\ \E i : client_handshakes'[n] \subseteq client_handshakes[n] \cup {i}
  <2>1. CASE \E m \in Nodes : StartUp(m) \/ Die(m)
    BY <1>0, <2>1 DEF StartUp, Die, StartServer, StartShim, KillServer, KillShim,
                      serverVars
  <2>2. ASSUME NEW m \in Nodes, NEW p \in dialing[m], ConnectToPeer(m, p)
        PROVE  /\ UNCHANGED <<handshakes, client_handshakes>>
               /\ dialled'[n] \subseteq dialled[n] \cup {Process(p)}
    BY <1>0, <2>2 DEF ConnectToPeer
  <2>3. CASE \E m \in Nodes : \E dialer \in handshakes[m] :
                AcceptPeer(m, dialer) \/ MissPeer(m, dialer)
    BY <1>0, <2>3 DEF AcceptPeer, MissPeer
  <2>4. CASE \E m \in Nodes : \E i \in client_handshakes[m] :
                AcceptClient(m, i) \/ MissClient(m, i)
    BY <1>0, <2>4 DEF AcceptClient, MissClient
  <2>5. CASE \E m \in Nodes : LeadStart(m) \/ \E s \in signals : FollowStart(m, s)
    BY <2>5 DEF LeadStart, FollowStart
  <2>6. CASE \E m \in Nodes : AttemptLeadership(m) \/ GainLeadership(m)
    BY <2>6 DEF AttemptLeadership, GainLeadership
  <2>7. ASSUME NEW m \in Nodes, ConnectShim(m)
        PROVE  /\ UNCHANGED <<handshakes, dialled>>
               /\ client_handshakes'[n] \subseteq client_handshakes[n] \cup {shim_incarnation[m]}
    BY <1>0, <2>7 DEF ConnectShim
  <2>8. CASE (\E m \in Nodes : TakeStartSignal(m) \/ AwaitShim(m)) \/ UNCHANGED vars
    BY <2>8 DEF TakeStartSignal, AwaitShim, vars, serverVars
  <2>9. ASSUME NEW m \in Nodes, NEW peer \in dialled[m], RegisterWithPeer(m, peer)
        PROVE  /\ UNCHANGED client_handshakes
               /\ handshakes'[n] \subseteq handshakes[n] \cup {Process(m)}
               /\ dialled'[n] \subseteq dialled[n]
    <3>1. /\ peer.node \in Nodes
          /\ dialled' = [dialled EXCEPT ![m] = @ \ {peer}]
          /\ UNCHANGED client_handshakes
      BY <1>0, <2>9 DEF RegisterWithPeer, Processes
    <3>2. PICK alive : handshakes' = [handshakes EXCEPT ![peer.node] =
                                         @ \cup {d \in {Process(m)} : alive}]
      BY <2>9 DEF RegisterWithPeer
    <3>. QED
      BY <1>0, <3>1, <3>2
  <2>10. CASE \E m \in Nodes : \E peer \in dialled[m] : FailToRegister(m, peer)
    BY <1>0, <2>10 DEF FailToRegister
  <2>11. CASE \E m \in Nodes : \E id \in DOMAIN client_ids[m] : InsertClient(m, id)
    BY <2>11 DEF InsertClient
  <2>. QED
    BY <2>1, <2>2, <2>3, <2>4, <2>5, <2>6, <2>7, <2>8, <2>9, <2>10, <2>11 DEF Next, Work
<1>3. ASSUME NEW n \in Nodes
      PROVE  /\ IsFiniteSet(handshakes'[n]) /\ IsFiniteSet(dialled'[n])
             /\ IsFiniteSet(client_handshakes'[n])
  <2>1. /\ IsFiniteSet(handshakes[n]) /\ IsFiniteSet(dialled[n])
        /\ IsFiniteSet(client_handshakes[n])
    BY DEF UnderWayIsFinite
  <2>2. PICK q : handshakes'[n] \subseteq handshakes[n] \cup {q}
    BY <1>2
  <2>3. PICK i : client_handshakes'[n] \subseteq client_handshakes[n] \cup {i}
    BY <1>2
  <2>4. PICK d : dialled'[n] \subseteq dialled[n] \cup {d}
    BY <1>2
  <2>5. /\ IsFiniteSet(handshakes[n] \cup {q}) /\ IsFiniteSet(dialled[n] \cup {d})
        /\ IsFiniteSet(client_handshakes[n] \cup {i})
    BY <2>1, FS_AddElement
  <2>. QED
    BY <2>2, <2>3, <2>4, <2>5, FS_Subset
<1>. QED
  BY <1>1, <1>3 DEF UnderWayIsFinite

\* The measure of StartAdvances is one of finite sets, so that a start in
\* which nothing dies any more comes to rest after finitely many steps.
THEOREM StartIsFinite == Spec => []MeasureIsFinite
<1>1. IndInv /\ UnderWayIsFinite => MeasureIsFinite
  <2>. SUFFICES ASSUME IndInv, UnderWayIsFinite, NEW n \in Nodes
                PROVE  /\ \A part \in DOMAIN Ahead(n) : IsFiniteSet(Ahead(n)[part])
                       /\ \A part \in DOMAIN UnderWayTo(n) : IsFiniteSet(UnderWayTo(n)[part])
    BY DEF MeasureIsFinite
  <2>1. /\ phase[n] \in Phases /\ shim_phase[n] \in ShimPhases
        /\ leadership[n] \in {"none", "tried", "accept"}
    BY DEF IndInv, TypeOK, ServersTypeOK, ClientsTypeOK
  <2>2. \A a, b, c : IsFiniteSet({a, b, c}) /\ IsFiniteSet({a, b})
    <3>1. ASSUME NEW a, NEW b, NEW c PROVE IsFiniteSet({a, b, c}) /\ IsFiniteSet({a, b})
      <4>1. IsFiniteSet({a})
        BY FS_Singleton
      <4>2. IsFiniteSet({a} \cup {b})
        BY <4>1, FS_AddElement
      <4>3. IsFiniteSet(({a} \cup {b}) \cup {c})
        BY <4>2, FS_AddElement
      <4>4. {a} \cup {b} = {a, b} /\ ({a} \cup {b}) \cup {c} = {a, b, c}
        OBVIOUS
      <4>. QED
        BY <4>2, <4>3, <4>4
    <3>. QED
      BY <3>1
  <2>a. \A a : IsFiniteSet({a})
    BY FS_Singleton
  <2>b. IsFiniteSet({})
    BY FS_EmptySet
  <2>3. IsFiniteSet(PhasesAfter[phase[n]])
    <3>1. PhasesAfter[phase[n]] \in {{"connecting", "electing", "serving"},
                                     {"electing", "serving"}, {"serving"}, {}}
      BY <2>1 DEF PhasesAfter, Phases
    <3>2. /\ IsFiniteSet({"connecting", "electing", "serving"})
          /\ IsFiniteSet({"electing", "serving"}) /\ IsFiniteSet({"serving"})
      BY <2>2, <2>a
    <3>. QED
      BY <3>1, <3>2, <2>b, Zenon
  <2>4. IsFiniteSet(ShimPhasesAfter[shim_phase[n]])
    <3>1. ShimPhasesAfter[shim_phase[n]] \in {{"connecting", "waiting", "started"},
                                              {"waiting", "started"}, {"started"}, {}}
      BY <2>1 DEF ShimPhasesAfter, ShimPhases
    <3>2. /\ IsFiniteSet({"connecting", "waiting", "started"})
          /\ IsFiniteSet({"waiting", "started"}) /\ IsFiniteSet({"started"})
      BY <2>2, <2>a
    <3>. QED
      BY <3>1, <3>2, <2>b, Zenon
  <2>5. IsFiniteSet(LeadershipAfter[leadership[n]])
    <3>1. LeadershipAfter[leadership[n]] \in {{"tried", "accept"}, {"accept"}, {}}
      BY <2>1 DEF LeadershipAfter
    <3>. QED
      BY <3>1, <2>2, <2>a, <2>b
  <2>6. IsFiniteSet({n} \ setup_done)
    BY FS_Singleton, FS_Subset
  <2>7. /\ IsFiniteSet(DialsAhead(n)) /\ IsFiniteSet(PeersAhead(n))
        /\ IsFiniteSet(ClientsAhead(n))
    <3>1. DialsAhead(n) \subseteq Nodes /\ PeersAhead(n) \subseteq Nodes
      BY DEF IndInv, TypeOK, PeersTypeOK, DialsAhead, PeersAhead, PeersToDial
    <3>2. ClientsAhead(n) \subseteq 1 .. MaxShimStarts /\ IsFiniteSet(1 .. MaxShimStarts)
      BY FS_Interval, BoundsAssumption DEF ClientsAhead
    <3>. QED
      BY <3>1, <3>2, NodesAssumption, FS_Subset
  <2>8. IsFiniteSet({s \in signals : s.to.node = n})
    BY FS_Subset DEF UnderWayIsFinite
  <2>9. \A part \in DOMAIN Ahead(n) : IsFiniteSet(Ahead(n)[part])
    <3>1. DOMAIN Ahead(n) =
              {"server", "shim", "leadership", "setup", "dials", "peers", "clients"}
      BY DEF Ahead
    <3>2. /\ Ahead(n).server = PhasesAfter[phase[n]]
          /\ Ahead(n).shim = ShimPhasesAfter[shim_phase[n]]
          /\ Ahead(n).leadership = LeadershipAfter[leadership[n]]
          /\ Ahead(n).setup = {n} \ setup_done
          /\ Ahead(n).dials = DialsAhead(n)
          /\ Ahead(n).peers = PeersAhead(n)
          /\ Ahead(n).clients = ClientsAhead(n)
      BY DEF Ahead, DialsAhead, PeersAhead, ClientsAhead
    <3>. QED
      BY <2>3, <2>4, <2>5, <2>6, <2>7, <3>1, <3>2
  <2>10. \A part \in DOMAIN UnderWayTo(n) : IsFiniteSet(UnderWayTo(n)[part])
    <3>1. DOMAIN UnderWayTo(n) = {"peers", "dials", "clients", "signals"}
      BY DEF UnderWayTo
    <3>2. /\ UnderWayTo(n).peers = handshakes[n]
          /\ UnderWayTo(n).dials = dialled[n]
          /\ UnderWayTo(n).clients = client_handshakes[n]
          /\ UnderWayTo(n).signals = {s \in signals : s.to.node = n}
      BY DEF UnderWayTo
    <3>3. /\ IsFiniteSet(handshakes[n]) /\ IsFiniteSet(dialled[n])
          /\ IsFiniteSet(client_handshakes[n])
      BY DEF UnderWayIsFinite
    <3>. QED
      BY <2>8, <3>1, <3>2, <3>3
  <2>. QED
    BY <2>9, <2>10
<1>2. Init => UnderWayIsFinite
  BY FS_EmptySet DEF Init, UnderWayIsFinite
<1>. QED
  BY <1>1, <1>2, InitIndInv, NextIndInv, NextUnderWayIsFinite, PTL DEF Spec
=============================================================================
