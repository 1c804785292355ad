----------------------------- MODULE MCKVSystem -----------------------------
(***************************************************************************)
(* Small instances of KVSystem for TLC.                                    *)
(***************************************************************************)
EXTENDS KVSystem, TLC

\* Requests, values, servers and client ids are interchangeable: nothing in the
\* system compares them but for equality.
Symmetry == Permutations(Requests) \cup Permutations(Values)
                \cup Permutations(Servers)
                \cup Permutations(ClientIds)

\* The same system while nothing fails: no process dies, no proposal is lost
\* and no caller gives up.  It has room for more requests, and it may stop
\* only when every operation is over: a deadlock is a request that hangs.
SteadyNext ==
    \/ \E r \in Requests : \/ CallerStep(r) /\ outcome'[r] # "info"
                           \/ HandlerStep(r)
    \/ \E sh \in Shims : ShimStep(sh)
    \/ \E n \in Servers : ServerStep(n)
    \/ LibraryStep /\ log' # log
    \/ TestOver

SteadySpec == Init /\ [][SteadyNext]_vars
=============================================================================
