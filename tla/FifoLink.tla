------------------------------ MODULE FifoLink ------------------------------
(***************************************************************************)
(* What a connection between an api-shim and its server promises, and all  *)
(* that module Links assumes of it: in each direction one stream of        *)
(* messages that arrive in the order in which they were sent, none of them *)
(* twice and none left out.  When the connection breaks, what arrives is a *)
(* prefix of what was sent.                                                *)
(***************************************************************************)
EXTENDS Naturals, Sequences

CONSTANTS Directions,  \* the two directions of the connection
          Messages     \* what can be sent

VARIABLES stream,  \* stream[d]: what was sent and will arrive, oldest first
          open     \* the connection is not broken

fifoVars == <<stream, open>>

FifoInit ==
    /\ stream = [d \in Directions |-> <<>>]
    /\ open = TRUE

Send(d, m) ==
    /\ open
    /\ stream' = [stream EXCEPT ![d] = Append(@, m)]
    /\ UNCHANGED open

\* The receiver takes the first k messages.
Receive(d, k) ==
    /\ stream' = [stream EXCEPT ![d] = SubSeq(@, k + 1, Len(@))]
    /\ UNCHANGED open

\* The last messages of each direction, from some point on, are lost.
Lose ==
    /\ open
    /\ open' = FALSE
    /\ DOMAIN stream' = Directions
    /\ \A d \in Directions :
          \E k \in 0 .. Len(stream[d]) : stream'[d] = SubSeq(stream[d], 1, k)

FifoNext ==
    \/ \E d \in Directions, m \in Messages : Send(d, m)
    \/ \E d \in Directions : \E k \in 1 .. Len(stream[d]) : Receive(d, k)
    \/ Lose

FifoSpec == FifoInit /\ [][FifoNext]_fifoVars
=============================================================================
