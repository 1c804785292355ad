---------------------------- MODULE JepsenClient ----------------------------
(***************************************************************************)
(* The callers of the HTTP interface: invoke! of client.clj.  A request is *)
(* one operation of one Jepsen worker; its outcome is the :type invoke!    *)
(* gives the completed operation.  Workers give up after their timeout at  *)
(* any moment, and what they sent may go on all the same: whether it does  *)
(* is for the shim to say (DropHandler of module ApiShim).                 *)
(***************************************************************************)
EXTENDS Links

CONSTANTS Requests,  \* the operations of a test
          NoCommand, \* the command of an operation that was not invoked yet
          NoReply    \* no HTTP response yet

ASSUME NoReplyAssumption == NoReply \notin Values \cup {NoValue}
ASSUME NoCommandAssumption == NoCommand \notin KVCommands

VARIABLES command,    \* command[r]: what r asks for
          target,     \* target[r]: the shim r is sent to
          outcome,    \* outcome[r]: :invoke, then :ok, :info or :fail
          answer,     \* answer[r]: the :value of an :ok operation
          in_flight,  \* the HTTP requests no handler has passed on yet
          reply       \* reply[r]: what the shim's task sent to r's handler,
                      \*     whether that one still waits or not

callerVars == <<command, target, outcome, answer, in_flight, reply>>

Outcomes == {"none", "invoke", "ok", "info", "fail"}

Replies == Values \cup {NoValue}

\* The operations the test generates: r and w of core.clj; there is no delete
\* in the HTTP interface.
HttpCommands == PutCommands \cup GetCommands

CallersTypeOK ==
    /\ command \in [Requests -> HttpCommands \cup {NoCommand}]
    /\ target \in [Requests -> Shims]
    /\ outcome \in [Requests -> Outcomes]
    /\ answer \in [Requests -> Replies]
    /\ in_flight \in SUBSET Requests
    /\ reply \in [Requests -> Replies \cup {NoReply}]

CallersInit ==
    /\ command = [r \in Requests |-> NoCommand]
    /\ target \in [Requests -> Shims]
    /\ outcome = [r \in Requests |-> "none"]
    /\ answer = [r \in Requests |-> NoValue]
    /\ in_flight = {}
    /\ reply = [r \in Requests |-> NoReply]

\* A worker starts an operation on its node; the shim accepts the connection.
Invoke(r, cmd) ==
    /\ outcome[r] = "none"
    /\ shim_up[target[r]]
    /\ outcome' = [outcome EXCEPT ![r] = "invoke"]
    /\ command' = [command EXCEPT ![r] = cmd]
    /\ in_flight' = in_flight \cup {r}
    /\ UNCHANGED <<target, answer, reply>>

\* java.net.ConnectException: no shim listens, the operation is a :fail.
Refused(r, cmd) ==
    /\ outcome[r] = "none"
    /\ ~shim_up[target[r]]
    /\ outcome' = [outcome EXCEPT ![r] = "fail"]
    /\ command' = [command EXCEPT ![r] = cmd]
    /\ UNCHANGED <<target, answer, in_flight, reply>>

\* The HTTP response is back in time: 204, or 200 with the value, or 404.
Completed(r) ==
    /\ outcome[r] = "invoke"
    /\ reply[r] # NoReply
    /\ outcome' = [outcome EXCEPT ![r] = "ok"]
    /\ answer' = [answer EXCEPT ![r] = reply[r]]
    /\ UNCHANGED <<command, target, in_flight, reply>>

\* Mutant: a timed-out operation is taken for one that never happened.
IndeterminateAsFail(r) ==
    /\ outcome[r] = "invoke"
    /\ outcome' = [outcome EXCEPT ![r] = "fail"]
    /\ UNCHANGED <<command, target, answer, in_flight, reply>>

\* SocketTimeoutException, a broken connection, or a status 500.
Indeterminate(r) ==
    /\ outcome[r] = "invoke"
    /\ outcome' = [outcome EXCEPT ![r] = "info"]
    /\ UNCHANGED <<command, target, answer, in_flight, reply>>
=============================================================================
