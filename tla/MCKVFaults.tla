----------------------------- MODULE MCKVFaults -----------------------------
(***************************************************************************)
(* The instance of KVSystem with every fault and a quorum that outlives    *)
(* one: three servers, of which one may die.                               *)
(***************************************************************************)
EXTENDS KVSystem, TLC

CONSTANTS n1, n2,   \* two of the servers
          r1        \* one of the two requests

\* Up to the names of requests and servers, both requests go to one server or
\* to two: r1 to n1, the other one to n1 or n2.
FaultsInit ==
    /\ Init
    /\ target[r1][1] = n1
    /\ \A r \in Requests : target[r][1] \in {n1, n2}

\* Bound: one server dies at most, with or without a request, and one shim,
\* that of r1 (the requests are interchangeable).  Of the loop of the third
\* server no step is taken: it only votes.
FaultsNext ==
    \/ \E r \in Requests : CallerStep(r) \/ HandlerStep(r) \/ HandlerGone(r)
    \/ \E sh \in Shims : ShimStep(sh) \/ BreakConnection(sh)
    \/ \E n \in {n1, n2} : ServerStep(n)
    \/ (\A n \in Servers : server_up[n]) /\ \E n \in Servers : KillServer(n)
    \/ (\A sh \in Shims : shim_up[sh]) /\ KillShim(target[r1])
    \/ LibraryStep
    \/ TestOver

\* Nothing is assumed of the third server.
FaultsFairness ==
    /\ \A r \in Requests : HandlerIsFair(r)
    /\ \A sh \in {s \in Shims : s[1] \in {n1, n2}} : ShimIsFair(sh)
    /\ \A n \in {n1, n2} : ServerIsFair(n)
    /\ LibraryIsFair

FaultsSpec == FaultsInit /\ [][FaultsNext]_vars /\ FaultsFairness
=============================================================================
