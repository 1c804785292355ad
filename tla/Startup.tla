------------------------------ MODULE Startup ------------------------------
(***************************************************************************)
(* How the system comes up: Network::new of every server (server/network.rs*)
(* 56-243), establish_initial_leader (server.rs:76-112), the connection of *)
(* each api-shim (client/network.rs:36-93, api_shim.rs:67-77) and setup!   *)
(* of db.clj; and what becomes of processes that die and are started again.*)
(*                                                                         *)
(* Every node runs one server and one api-shim.  A start of a process is   *)
(* known by its incarnation, 1, 2, ...; 0 stands for none.  A connection   *)
(* remembers the incarnation at its other end, and outlives it: nothing in *)
(* the code removes the connection of a dead peer before a send fails.     *)
(***************************************************************************)
EXTENDS Naturals, Sequences, FiniteSets

CONSTANTS Nodes,            \* NodeIds, which are ordered
          InitialLeader,    \* cluster.initial_leader
          NumClients,       \* local.num_clients
          ReadQuorumSize,   \* initial_flexible_quorum.read_quorum_size
          MaxServerStarts,  \* bound: incarnations of a server
          MaxShimStarts     \* bound: incarnations of a shim

ASSUME NodesAssumption ==
    Nodes \subseteq Nat /\ IsFiniteSet(Nodes) /\ InitialLeader \in Nodes
ASSUME NumClientsAssumption == NumClients \in Nat /\ ReadQuorumSize \in Nat
ASSUME BoundsAssumption == MaxServerStarts \in Nat /\ MaxShimStarts \in Nat

VARIABLES incarnation,         \* of the server of each node
          phase,               \* how far it is
          dialing,             \* [n]: peers that a connector of n still dials
          dialled,             \* [n]: processes a connector of n has reached,
                               \*      its NodeRegister not sent yet
          peer_connections,    \* [n][p]: incarnation of p it is connected to
          handshakes,          \* [n]: NodeRegisters under way to n
          readers,             \* [n]: dialers whose messages n reads
          unheard,             \* [n]: dialers whose first messages n discarded
          client_ids,          \* [n]: shim incarnation per client id, from 1
          client_connections,  \* [n]: the ids whose connection is inserted
          client_handshakes,   \* [n]: ClientRegisters under way to n
          leadership,          \* [n]: what the library says of n as leader
          signals,             \* LeaderStartSignals under way
          ran_before,          \* history: servers in operation when n started
          promoted             \* history: the initial leader was promoted

VARIABLES shim_incarnation,    \* of the shim of each node
          shim_phase,          \* how far it is
          start_signals,       \* [n]: shim incarnations sent a StartSignal
          setup_done           \* the nodes whose setup! has returned

connectorVars == <<dialing, dialled>>
clientVars == <<client_ids, client_connections, client_handshakes>>
serverVars == <<incarnation, phase, connectorVars, peer_connections,
                handshakes, readers, unheard, clientVars, leadership, signals,
                ran_before, promoted>>
shimVars == <<shim_incarnation, shim_phase, start_signals>>
vars == <<serverVars, shimVars, setup_done>>

Phases == {"off", "connecting", "electing", "serving"}
ShimPhases == {"off", "connecting", "waiting", "started"}

\* get_peers
Peers(n) == Nodes \ {n}

\* A server process: a node and which of its starts it is.
Processes == [node : Nodes, start : Nat]

\* Mutant: both servers of a pair dial.
PeersOfAnyId(n) == Peers(n)

\* peers_to_connect_to: of two nodes the greater id dials.
PeersToDial(n) == {p \in Nodes : p < n}

\* The processes that dial n.
Dialers(n) == {q \in Processes : q.node > n}

Signals == [from : Processes, to : Processes]

ServersTypeOK ==
    /\ incarnation \in [Nodes -> Nat]
    /\ phase \in [Nodes -> Phases]
    /\ leadership \in [Nodes -> {"none", "tried", "accept"}]
    /\ ran_before \in [Nodes -> SUBSET Processes]
    /\ promoted \in BOOLEAN

PeersTypeOK ==
    /\ dialing \in [Nodes -> SUBSET Nodes]
    /\ dialled \in [Nodes -> SUBSET Processes]
    /\ peer_connections \in [Nodes -> [Nodes -> Nat]]
    /\ handshakes \in [Nodes -> SUBSET Processes]
    /\ readers \in [Nodes -> SUBSET Processes]
    /\ unheard \in [Nodes -> SUBSET Processes]
    /\ \A n \in Nodes : handshakes[n] \cup readers[n] \subseteq Dialers(n)

ClientsTypeOK ==
    /\ client_ids \in [Nodes -> Seq(Nat)]
    /\ client_connections \in [Nodes -> SUBSET Nat]
    /\ \A n \in Nodes : client_connections[n] \subseteq DOMAIN client_ids[n]
    /\ client_handshakes \in [Nodes -> SUBSET Nat]
    /\ shim_incarnation \in [Nodes -> Nat]
    /\ shim_phase \in [Nodes -> ShimPhases]
    /\ setup_done \in SUBSET Nodes

SignalsTypeOK ==
    /\ signals \in SUBSET Signals
    /\ start_signals \in [Nodes -> SUBSET Nat]

TypeOK == ServersTypeOK /\ PeersTypeOK /\ ClientsTypeOK /\ SignalsTypeOK

Init ==
    /\ incarnation = [n \in Nodes |-> 0]
    /\ phase = [n \in Nodes |-> "off"]
    /\ dialing = [n \in Nodes |-> {}]
    /\ dialled = [n \in Nodes |-> {}]
    /\ peer_connections = [n \in Nodes |-> [p \in Nodes |-> 0]]
    /\ handshakes = [n \in Nodes |-> {}]
    /\ readers = [n \in Nodes |-> {}]
    /\ unheard = [n \in Nodes |-> {}]
    /\ client_ids = [n \in Nodes |-> <<>>]
    /\ client_connections = [n \in Nodes |-> {}]
    /\ client_handshakes = [n \in Nodes |-> {}]
    /\ leadership = [n \in Nodes |-> "none"]
    /\ signals = {}
    /\ ran_before = [n \in Nodes |-> {}]
    /\ promoted = FALSE
    /\ shim_incarnation = [n \in Nodes |-> 0]
    /\ shim_phase = [n \in Nodes |-> "off"]
    /\ start_signals = [n \in Nodes |-> {}]
    /\ setup_done = {}

Process(n) == [node |-> n, start |-> incarnation[n]]

\* The server takes part in OmniPaxos: Network::new has resolved.
InOperation(n) == phase[n] \in {"electing", "serving"}

(***************************************************************************)
(* Processes start and die                                                 *)
(***************************************************************************)

\* start-server!: OmniPaxosServer::new, with an empty MemoryStorage; a task
\* for every peer to dial is spawned at once.
StartServer(n) ==
    /\ phase[n] = "off"
    /\ incarnation[n] < MaxServerStarts
    /\ phase' = [phase EXCEPT ![n] = "connecting"]
    /\ incarnation' = [incarnation EXCEPT ![n] = @ + 1]
    /\ dialing' = [dialing EXCEPT ![n] = PeersToDial(n)]
    /\ ran_before' = [ran_before EXCEPT ![n] =
                         {Process(p) : p \in {q \in Nodes : InOperation(q)}}]
    /\ UNCHANGED <<dialled, peer_connections, handshakes, readers, unheard,
                   clientVars, leadership, signals, promoted>>
    /\ UNCHANGED <<shimVars, setup_done>>

\* start-shim!, which setup! calls after start-server!
StartShim(n) ==
    /\ incarnation[n] > 0
    /\ shim_phase[n] = "off"
    /\ shim_incarnation[n] < MaxShimStarts
    /\ shim_phase' = [shim_phase EXCEPT ![n] = "connecting"]
    /\ shim_incarnation' = [shim_incarnation EXCEPT ![n] = @ + 1]
    /\ UNCHANGED <<serverVars, start_signals, setup_done>>

\* The process dies with all it holds; what it sent may still arrive.
KillServer(n) ==
    /\ phase[n] # "off"
    /\ phase' = [phase EXCEPT ![n] = "off"]
    /\ dialing' = [dialing EXCEPT ![n] = {}]
    /\ dialled' = [dialled EXCEPT ![n] = {}]
    /\ peer_connections' = [peer_connections EXCEPT ![n] = [p \in Nodes |-> 0]]
    /\ handshakes' = [handshakes EXCEPT ![n] = {}]
    /\ readers' = [readers EXCEPT ![n] = {}]
    /\ unheard' = [unheard EXCEPT ![n] = {}]
    /\ client_ids' = [client_ids EXCEPT ![n] = <<>>]
    /\ client_connections' = [client_connections EXCEPT ![n] = {}]
    /\ client_handshakes' = [client_handshakes EXCEPT ![n] = {}]
    /\ leadership' = [leadership EXCEPT ![n] = "none"]
    /\ signals' = {s \in signals : s.to # Process(n)}
    /\ UNCHANGED <<incarnation, ran_before, promoted, shimVars, setup_done>>

KillShim(n) ==
    /\ shim_phase[n] # "off"
    /\ shim_phase' = [shim_phase EXCEPT ![n] = "off"]
    /\ start_signals' = [start_signals EXCEPT ![n] = {}]
    /\ UNCHANGED <<serverVars, shim_incarnation, setup_done>>

(***************************************************************************)
(* Network::new of a server                                                *)
(***************************************************************************)

\* Mutant: the listener stays open when the connections are complete.
ListensForEver(n) == phase[n] # "off"

\* Mutant: the listener is spawned when initialize_connections has returned.
ListensTooLate(n) == InOperation(n)

\* The listener runs until initialize_connections aborts it (the aborted task
\* is dropped at once: far sooner than a process can start).
Listening(n) == phase[n] = "connecting"

\* Mutant: one connection to a peer is enough.
CompleteWithAnyPeer(n, conns, clients) ==
    phase' = IF (\E p \in Peers(n) : conns[p] # 0) /\ Cardinality(clients) >= NumClients
             THEN [phase EXCEPT ![n] = "electing"]
             ELSE phase

\* The end of an iteration of initialize_connections: with a connection to
\* every peer and enough clients the server goes on.
CompleteConnections(n, conns, clients) ==
    phase' = IF (\A p \in Peers(n) : conns[p] # 0) /\ Cardinality(clients) >= NumClients
             THEN [phase EXCEPT ![n] = "electing"]
             ELSE phase

\* Mutant: the connector's loop goes on when it has connected.
DialsOn(n, p) == dialing[n]

\* The connector's loop ends with its first connection.
DialsNoMore(n, p) == dialing[n] \ {p}

\* TcpStream::connect of a task of spawn_peer_connectors succeeds.
ConnectToPeer(n, p) ==
    /\ p \in dialing[n]
    /\ phase[n] = "connecting"
    /\ Listening(p)
    /\ dialing' = [dialing EXCEPT ![n] = DialsNoMore(n, p)]
    /\ dialled' = [dialled EXCEPT ![n] = @ \cup {Process(p)}]
    /\ UNCHANGED <<incarnation, phase, peer_connections, handshakes, readers,
                   unheard, clientVars, leadership, signals, ran_before,
                   promoted>>
    /\ UNCHANGED <<shimVars, setup_done>>

\* The task sends its NodeRegister, which may be lost on the way to a process
\* that is dead, and hands the connection over.
RegisterWithPeer(n, peer) ==
    LET conns == [peer_connections[n] EXCEPT ![peer.node] = peer.start]
        alive == peer = Process(peer.node) /\ phase[peer.node] # "off"
    IN /\ peer \in dialled[n]
       /\ phase[n] = "connecting"
       /\ dialled' = [dialled EXCEPT ![n] = @ \ {peer}]
       /\ peer_connections' = [peer_connections EXCEPT ![n] = conns]
       /\ handshakes' = [handshakes EXCEPT ![peer.node] =
                            @ \cup {d \in {Process(n)} : alive}]
       /\ CompleteConnections(n, conns, client_connections[n])
       /\ UNCHANGED <<incarnation, dialing, readers, unheard, clientVars,
                      leadership, signals, ran_before, promoted>>
       /\ UNCHANGED <<shimVars, setup_done>>

\* Sending the NodeRegister fails: the connection was reset, by the death of
\* the peer or because it no longer takes connections.  The task returns, and
\* nobody dials that peer again.
FailToRegister(n, peer) ==
    /\ peer \in dialled[n]
    /\ peer # Process(peer.node) \/ ~Listening(peer.node)
    /\ dialled' = [dialled EXCEPT ![n] = @ \ {peer}]
    /\ UNCHANGED <<incarnation, phase, dialing, peer_connections, handshakes,
                   readers, unheard, clientVars, leadership, signals,
                   ran_before, promoted>>
    /\ UNCHANGED <<shimVars, setup_done>>

\* A server sends nothing to a peer before it tries to lead or serves.
HasSent(s) ==
    /\ s = Process(s.node)
    /\ leadership[s.node] # "none" \/ phase[s.node] = "serving"

\* registration_connection.into_inner(): whatever was read together with the
\* NodeRegister is discarded.  Either whole messages are, or the last of them
\* is cut, and then nothing that follows makes sense to the reader task.
DiscardReadAhead(n, dialer) ==
    /\ HasSent(dialer)
    /\ unheard' = [unheard EXCEPT ![n] = @ \cup {dialer}]
    /\ signals' = {s \in signals : s.from # dialer \/ s.to # Process(n)}
    /\ \/ readers' = [readers EXCEPT ![n] = @ \cup {dialer}]
       \/ UNCHANGED readers

\* handle_incoming_connection, NodeRegister, in time: it replaces whatever
\* connection to that peer there was.
AcceptPeer(n, dialer) ==
    LET conns == [peer_connections[n] EXCEPT ![dialer.node] = dialer.start]
    IN /\ dialer \in handshakes[n]
       /\ Listening(n)
       /\ handshakes' = [handshakes EXCEPT ![n] = @ \ {dialer}]
       /\ \/ /\ readers' = [readers EXCEPT ![n] = @ \cup {dialer}]
             /\ UNCHANGED <<unheard, signals>>
          \/ DiscardReadAhead(n, dialer)
       /\ peer_connections' = [peer_connections EXCEPT ![n] = conns]
       /\ CompleteConnections(n, conns, client_connections[n])
       /\ UNCHANGED <<incarnation, connectorVars, clientVars, leadership,
                      ran_before, promoted>>
       /\ UNCHANGED <<shimVars, setup_done>>

\* The same when nobody takes new connections any more.  A connection that
\* was accepted before has its reader task, one that was not is reset; a
\* handshake whose dialer died may be lost at any time.
MissPeer(n, dialer) ==
    /\ dialer \in handshakes[n]
    /\ \/ InOperation(n)
       \/ dialer # Process(dialer.node) \/ phase[dialer.node] = "off"
    /\ handshakes' = [handshakes EXCEPT ![n] = @ \ {dialer}]
    /\ \/ InOperation(n) /\ readers' = [readers EXCEPT ![n] = @ \cup {dialer}]
       \/ UNCHANGED readers
    /\ UNCHANGED <<incarnation, phase, connectorVars, peer_connections,
                   unheard, clientVars, leadership, signals, ran_before,
                   promoted>>
    /\ UNCHANGED <<shimVars, setup_done>>

\* handle_incoming_connection, ClientRegister: the client gets the next id.
AcceptClient(n, i) ==
    /\ i \in client_handshakes[n]
    /\ Listening(n)
    /\ client_handshakes' = [client_handshakes EXCEPT ![n] = @ \ {i}]
    /\ client_ids' = [client_ids EXCEPT ![n] = Append(@, i)]
    /\ UNCHANGED <<incarnation, phase, connectorVars, peer_connections,
                   handshakes, readers, unheard, client_connections,
                   leadership, signals, ran_before, promoted>>
    /\ UNCHANGED <<shimVars, setup_done>>

\* Its connection comes through the channel, in any order.
InsertClient(n, id) ==
    LET clients == client_connections[n] \cup {id}
    IN /\ id \in DOMAIN client_ids[n] \ client_connections[n]
       /\ phase[n] = "connecting"
       /\ client_connections' = [client_connections EXCEPT ![n] = clients]
       /\ CompleteConnections(n, peer_connections[n], clients)
       /\ UNCHANGED <<incarnation, connectorVars, peer_connections, handshakes,
                      readers, unheard, client_ids, client_handshakes,
                      leadership, signals, ran_before, promoted>>
       /\ UNCHANGED <<shimVars, setup_done>>

\* A ClientRegister that is too late, or whose client is gone.
MissClient(n, i) ==
    /\ i \in client_handshakes[n]
    /\ InOperation(n) \/ i # shim_incarnation[n] \/ shim_phase[n] = "off"
    /\ client_handshakes' = [client_handshakes EXCEPT ![n] = @ \ {i}]
    /\ UNCHANGED <<incarnation, phase, connectorVars, peer_connections,
                   handshakes, readers, unheard, client_ids,
                   client_connections, leadership, signals, ran_before,
                   promoted>>
    /\ UNCHANGED <<shimVars, setup_done>>

(***************************************************************************)
(* establish_initial_leader                                                *)
(***************************************************************************)

\* Messages that process s of a node sends over its connection reach the
\* process at the other end once that one reads the connection.  The dialer
\* of a connection always does.
Reads(to, from) == from.node < to.node \/ from \in readers[to.node]

\* Both ends of the connection of n and p are alive and use it.
Linked(n, p) ==
    /\ peer_connections[n][p] = incarnation[p]
    /\ peer_connections[p][n] = incarnation[n]
    /\ Reads(Process(n), Process(p)) /\ Reads(Process(p), Process(n))
    /\ InOperation(p)

\* The library: enough promises have come back to make n the leader.
GainLeadership(n) ==
    /\ phase[n] = "electing"
    /\ leadership[n] = "tried"
    /\ Cardinality({p \in Peers(n) : Linked(n, p)}) + 1 >= ReadQuorumSize
    /\ leadership' = [leadership EXCEPT ![n] = "accept"]
    /\ promoted' = TRUE
    /\ UNCHANGED <<incarnation, phase, connectorVars, peer_connections,
                   handshakes, readers, unheard, clientVars, signals,
                   ran_before>>
    /\ UNCHANGED <<shimVars, setup_done>>

\* leader_takeover_interval.tick(), not yet the leader: try_become_leader.
AttemptLeadership(n) ==
    /\ n = InitialLeader
    /\ phase[n] = "electing"
    /\ leadership[n] = "none"
    /\ leadership' = [leadership EXCEPT ![n] = "tried"]
    /\ UNCHANGED <<incarnation, phase, connectorVars, peer_connections,
                   handshakes, readers, unheard, clientVars, signals,
                   ran_before, promoted>>
    /\ UNCHANGED <<shimVars, setup_done>>

\* Mutant: the range ends before num_clients.
StartedAllButLast == 1 .. NumClients - 1

\* The range of send_client_start_signals.
StartedClientIds == 1 .. NumClients

\* send_to_client does nothing for an id that has no connection.
SendClientStartSignals(n) ==
    start_signals' = [start_signals EXCEPT ![n] =
        @ \cup {client_ids[n][id] : id \in StartedClientIds \cap client_connections[n]}]

\* Mutant: only the peers that n has accepted are signalled.
SignalAcceptedPeers(n) ==
    LET peer(p) == [node |-> p, start |-> peer_connections[n][p]]
    IN signals' = signals \cup {[from |-> Process(n), to |-> peer(p)] :
                                   p \in {q \in Peers(n) : q > n}}

SendClusterStartSignals(n) ==
    LET peer(p) == [node |-> p, start |-> peer_connections[n][p]]
    IN signals' = signals \cup {[from |-> Process(n), to |-> peer(p)] : p \in Peers(n)}

\* Mutant: the start is announced without is_accept_phase.
LeadsUnprepared(n) == leadership[n] # "none"

\* get_current_leader names n, in the accept phase.
LeadsPrepared(n) == leadership[n] = "accept"

\* leader_takeover_interval.tick(), leader in the accept phase: the signals
\* to peers and clients are sent, and the loop is left.
LeadStart(n) ==
    /\ n = InitialLeader
    /\ phase[n] = "electing"
    /\ LeadsPrepared(n)
    /\ SendClusterStartSignals(n)
    /\ SendClientStartSignals(n)
    /\ phase' = [phase EXCEPT ![n] = "serving"]
    /\ UNCHANGED <<incarnation, connectorVars, peer_connections, handshakes,
                   readers, unheard, clientVars, leadership, ran_before,
                   promoted>>
    /\ UNCHANGED <<shim_incarnation, shim_phase, setup_done>>

\* handle_cluster_messages, LeaderStartSignal: it is relayed to the clients
\* and ends establish_initial_leader.
FollowStart(n, s) ==
    /\ s \in signals
    /\ s.to = Process(n)
    /\ InOperation(n)
    /\ Reads(s.to, s.from)
    /\ signals' = signals \ {s}
    /\ SendClientStartSignals(n)
    /\ phase' = [phase EXCEPT ![n] = "serving"]
    /\ UNCHANGED <<incarnation, connectorVars, peer_connections, handshakes,
                   readers, unheard, clientVars, leadership, ran_before,
                   promoted>>
    /\ UNCHANGED <<shim_incarnation, shim_phase, setup_done>>

(***************************************************************************)
(* The shims, and setup!                                                   *)
(***************************************************************************)

\* get_server_connection succeeds: the server listens.
ConnectShim(n) ==
    /\ shim_phase[n] = "connecting"
    /\ Listening(n)
    /\ shim_phase' = [shim_phase EXCEPT ![n] = "waiting"]
    /\ client_handshakes' = [client_handshakes EXCEPT ![n] =
                                @ \cup {shim_incarnation[n]}]
    /\ UNCHANGED <<incarnation, phase, connectorVars, peer_connections,
                   handshakes, readers, unheard, client_ids,
                   client_connections, leadership, signals, ran_before,
                   promoted>>
    /\ UNCHANGED <<shim_incarnation, start_signals, setup_done>>

\* The first loop of the shim's task ends with a StartSignal.
TakeStartSignal(n) ==
    /\ shim_phase[n] = "waiting"
    /\ shim_incarnation[n] \in start_signals[n]
    /\ shim_phase' = [shim_phase EXCEPT ![n] = "started"]
    /\ UNCHANGED <<serverVars, shim_incarnation, start_signals, setup_done>>

\* /health answers "ok" as soon as the shim serves HTTP at all.
Healthy(n) == shim_phase[n] # "off"

\* await-shim!, the end of setup!
AwaitShim(n) ==
    /\ n \notin setup_done
    /\ Healthy(n)
    /\ setup_done' = setup_done \cup {n}
    /\ UNCHANGED <<serverVars, shimVars>>

(***************************************************************************)
(* The system                                                              *)
(***************************************************************************)
StartUp(n) == StartServer(n) \/ StartShim(n)

Die(n) == KillServer(n) \/ KillShim(n)

Work(n) ==
    \/ \E p \in dialing[n] : ConnectToPeer(n, p)
    \/ \E peer \in dialled[n] : RegisterWithPeer(n, peer) \/ FailToRegister(n, peer)
    \/ \E dialer \in handshakes[n] : AcceptPeer(n, dialer) \/ MissPeer(n, dialer)
    \/ \E i \in client_handshakes[n] : AcceptClient(n, i) \/ MissClient(n, i)
    \/ \E id \in DOMAIN client_ids[n] : InsertClient(n, id)
    \/ AttemptLeadership(n) \/ GainLeadership(n) \/ LeadStart(n)
    \/ \E s \in signals : FollowStart(n, s)
    \/ ConnectShim(n) \/ TakeStartSignal(n) \/ AwaitShim(n)

Next == \E n \in Nodes : StartUp(n) \/ Die(n) \/ Work(n)

Spec == Init /\ [][Next]_vars

\* As long as some process can be started or has something to do, something
\* is started or done: setup! starts every process, connectors retry every
\* second, tasks that can run are polled, and the library makes a leader of
\* whoever keeps trying with a quorum linked to it.  Which of them is first is
\* left open, and nothing makes a process die.
FairSpec == Spec /\ WF_vars(\E n \in Nodes : StartUp(n) \/ Work(n))

(***************************************************************************)
(* Safety                                                                  *)
(***************************************************************************)

\* A server that lost its memory never joins servers that have not: when a
\* server takes part in OmniPaxos, none of the peers that took part when its
\* process started still does.  It would have forgotten what it promised and
\* accepted (MemoryStorage), and could help to decide a second history.  What
\* prevents it is only that listeners are aborted and connectors never retry
\* (server/network.rs:114, 206-241).
NoLateJoiner ==
    \A n, p \in Nodes :
        InOperation(n) /\ InOperation(p) => Process(p) \notin ran_before[n]

\* "Waits until connections to all servers and clients are established before
\* resolving" (server/network.rs:55): of two servers in operation each has a
\* connection to the other, and not to an earlier incarnation of it.
ResolvedMeansConnected ==
    \A n, p \in Nodes :
        n # p /\ InOperation(n) /\ InOperation(p) =>
            peer_connections[n][p] = incarnation[p]

\* With restarts only half of that is true, and enough to send to the living:
\* of two servers in operation the one that dials is connected to the present
\* process of the other.  It holds because a connector stops at its first
\* success, and a server that starts again waits for its dialers, who do not
\* come (server/network.rs:99-116, 206-241).  Only the end that listens can
\* be left with a connection to a process that is gone.
DialersAreConnected ==
    \A n, p \in Nodes :
        p < n /\ InOperation(n) /\ InOperation(p) =>
            peer_connections[n][p] = incarnation[p]

\* "Ensures cluster is connected and initial leader is promoted before
\* returning" (server.rs:76): no server serves, and no shim passes requests
\* on, before the library has made the initial leader a leader.
StartFollowsPromotion ==
    \A n \in Nodes :
        phase[n] = "serving" \/ shim_phase[n] = "started" => promoted

\* "followers relay to their clients" (server.rs:78): a shim that is connected
\* to a server that has started is sent a StartSignal.  It holds only while no
\* shim starts again before its server serves (server.rs:214).
ConnectedClientsAreStarted ==
    \A n \in Nodes :
        phase[n] = "serving" /\ shim_phase[n] # "off" =>
            \A id \in client_connections[n] :
                client_ids[n][id] = shim_incarnation[n] =>
                    shim_incarnation[n] \in start_signals[n]

Died(n) ==
    \/ incarnation[n] > 0 /\ phase[n] = "off"
    \/ shim_incarnation[n] > 0 /\ shim_phase[n] = "off"

\* n heard all that p sent, and still hears it.
Hears(n, p) ==
    Process(p) \notin unheard[n]

\* Node n has come into service and its shim has been started.
Started(n) == phase[n] = "serving" /\ shim_phase[n] = "started"

\* All that can keep node n from that: a process of its own or of the initial
\* leader's node died; a server died that another had not connected to yet;
\* too few nodes are left for the leader's quorum; or the first messages of
\* the initial leader were discarded with its registration
\* (server/network.rs:165).
HeldUp(n) ==
    \/ Died(n) \/ Died(InitialLeader)
    \/ \E p, q \in Nodes : /\ incarnation[p] > 0 /\ phase[p] = "off"
                           /\ phase[q] # "off"
                           /\ p # q /\ peer_connections[q][p] = 0
    \/ Cardinality({p \in Nodes : ~Died(p) /\ Hears(p, InitialLeader)})
          < ReadQuorumSize
    \/ ~Hears(n, InitialLeader)

\* The initial start completes.  When every process is started, each node
\* comes into service and stays there, unless one of the few things above
\* keeps it from that.  In particular nothing replaces an initial leader that
\* dies: establish_initial_leader never ticks the election (server.rs:84-111).
StartCompletes == <>[](\A n \in Nodes : Started(n) \/ HeldUp(n))

\* A process of n can be started, or has something to do.
CanWork(n) ==
    \/ phase[n] = "off" /\ incarnation[n] < MaxServerStarts
    \/ /\ shim_phase[n] = "off" /\ incarnation[n] > 0
       /\ shim_incarnation[n] < MaxShimStarts
    \/ \E p \in dialing[n] : Listening(p)
    \/ dialled[n] # {} \/ handshakes[n] # {} \/ client_handshakes[n] # {}
    \/ phase[n] = "connecting" /\ client_connections[n] # DOMAIN client_ids[n]
    \/ /\ n = InitialLeader /\ phase[n] = "electing"
       /\ \/ leadership[n] # "tried"
          \/ Cardinality({p \in Peers(n) : Linked(n, p)}) + 1 >= ReadQuorumSize
    \/ \E s \in signals : s.to = Process(n) /\ InOperation(n) /\ Reads(s.to, s.from)
    \/ shim_phase[n] = "connecting" /\ Listening(n)
    \/ shim_phase[n] = "waiting" /\ shim_incarnation[n] \in start_signals[n]

\* Why StartCompletes holds, without fairness: the start never comes to rest
\* half done.  No two servers wait for each other to dial, to register or to
\* lead, no registration and no start signal is lost unseen, and when nothing
\* is left to do each node is started or held up by what HeldUp names
\* (server/network.rs:92-118, 206-241, server.rs:76-112).
RestMeansStarted ==
    (\A n \in Nodes : ~CanWork(n)) => \A n \in Nodes : Started(n) \/ HeldUp(n)

\* What follows each phase of a server and of a shim, and each degree of
\* leadership.
PhasesAfter ==
    [off |-> {"connecting", "electing", "serving"},
     connecting |-> {"electing", "serving"}, electing |-> {"serving"}, serving |-> {}]

ShimPhasesAfter ==
    [off |-> {"connecting", "waiting", "started"},
     connecting |-> {"waiting", "started"}, waiting |-> {"started"}, started |-> {}]

LeadershipAfter ==
    [none |-> {"tried", "accept"}, tried |-> {"accept"}, accept |-> {}]

\* What node n has still ahead: phases of its server and its shim, leadership,
\* setup!, the peers it has still to dial and to register with, and the client
\* ids it may still insert.
Ahead(n) ==
    [server     |-> PhasesAfter[phase[n]],
     shim       |-> ShimPhasesAfter[shim_phase[n]],
     leadership |-> LeadershipAfter[leadership[n]],
     setup      |-> {n} \ setup_done,
     dials      |-> IF phase[n] = "off" THEN PeersToDial(n) ELSE dialing[n],
     peers      |-> {p \in PeersToDial(n) : peer_connections[n][p] = 0},
     clients    |-> (1 .. MaxShimStarts) \ client_connections[n]]

\* The registrations that n has still to take, and the start signals.
UnderWayTo(n) ==
    [peers   |-> handshakes[n],
     dials   |-> dialled[n],
     clients |-> client_handshakes[n],
     signals |-> {s \in signals : s.to.node = n}]

Shrinks(before, after) ==
    \A part \in DOMAIN before : after[part] \subseteq before[part]

\* The start cannot be busy for ever without getting anywhere: while no
\* process dies each step takes something off what is ahead of some node, or
\* else off the registrations and signals under way, and no step puts a node
\* back.  Nobody dials again, registers again or is signalled again for what
\* was done.  With RestMeansStarted that is StartCompletes but for the
\* scheduling (server/network.rs:92-118, 200-241, server.rs:76-112).
StartAdvances ==
    [][(\A n \in Nodes : ~Die(n)) =>
          /\ \A n \in Nodes : Shrinks(Ahead(n), Ahead(n)')
          /\ \/ \E n \in Nodes : Ahead(n)' # Ahead(n)
             \/ /\ \A n \in Nodes : Shrinks(UnderWayTo(n), UnderWayTo(n)')
                /\ \E n \in Nodes : UnderWayTo(n)' # UnderWayTo(n)]_vars

\* "Wait until the shim is fully initialised (StartSignal received)"
\* (db.clj:144), which await-shim! then does: a shim that setup! waited for
\* and that has not been killed since is past its StartSignal.
SetupWaitsForStartSignal ==
    \A n \in setup_done : shim_phase[n] # "off" => shim_phase[n] = "started"
=============================================================================
