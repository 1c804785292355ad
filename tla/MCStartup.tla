----------------------------- MODULE MCStartup -----------------------------
(***************************************************************************)
(* Two instances of Startup: every process is started once, or servers are *)
(* started again and again and no shim ever is.                            *)
(***************************************************************************)
EXTENDS Startup

\* Some setup! can return.
CanReturn == \E n \in Nodes : Healthy(n) /\ n \notin setup_done

\* Each setup! returns as soon as it can.  No step of a process depends on
\* whether it has, so that the other orders would show nothing more.
OnceNext ==
    \E n \in Nodes :
        \/ AwaitShim(n)
        \/ ~CanReturn /\ StartUp(n)
        \/ ~CanReturn /\ Die(n)
        \/ ~CanReturn /\ Work(n)

OnceSpec ==
    Init /\ [][OnceNext]_vars /\ WF_vars(\E n \in Nodes : StartUp(n) \/ Work(n))

\* Next without the shims, and so without clients.
RestartsNext ==
    \E n \in Nodes :
        \/ StartServer(n) \/ KillServer(n)
        \/ \E p \in dialing[n] : ConnectToPeer(n, p)
        \/ \E peer \in dialled[n] : RegisterWithPeer(n, peer) \/ FailToRegister(n, peer)
        \/ \E dialer \in handshakes[n] : AcceptPeer(n, dialer) \/ MissPeer(n, dialer)
        \/ AttemptLeadership(n) \/ GainLeadership(n) \/ LeadStart(n)
        \/ \E s \in signals : FollowStart(n, s)

RestartsSpec == Init /\ [][RestartsNext]_vars
=============================================================================
