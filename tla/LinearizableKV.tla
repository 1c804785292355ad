--------------------------- MODULE LinearizableKV ---------------------------
(***************************************************************************)
(* What the whole system promises to the callers of its HTTP interface: a  *)
(* key-value store on which every request takes effect atomically, at most *)
(* once, at some instant between its invocation and its answer.  A request *)
(* that is never answered may take effect at any later instant, or never.  *)
(* This is the linearizability that the Jepsen test of core.clj looks for. *)
(***************************************************************************)
EXTENDS KVStore

CONSTANTS Requests,   \* the requests callers may make
          NoCommand   \* the command of a request that was not made yet

VARIABLES db,       \* the one logical database
          command,  \* command[r]: the command request r carries
          phase,    \* phase[r]: how far request r has got
          result,   \* result[r]: what r read when it took effect
          answer    \* answer[r]: what r's caller was told

linVars == <<db, command, phase, result, answer>>

Phases == {"idle", "invoked", "applied", "answered"}

LinInit ==
    /\ db = EmptyDatabase
    /\ command = [r \in Requests |-> NoCommand]
    /\ phase = [r \in Requests |-> "idle"]
    /\ result = [r \in Requests |-> NoValue]
    /\ answer = [r \in Requests |-> NoValue]

\* A caller makes a request.
Call(r) ==
    /\ phase[r] = "idle"
    /\ phase' = [phase EXCEPT ![r] = "invoked"]
    /\ \E cmd \in KVCommands : command' = [command EXCEPT ![r] = cmd]
    /\ UNCHANGED <<db, result, answer>>

\* The request takes effect, in one step.
TakeEffect(r) ==
    /\ phase[r] = "invoked"
    /\ phase' = [phase EXCEPT ![r] = "applied"]
    /\ db' = HandleCommand(db, command[r])
    /\ result' = [result EXCEPT ![r] = ReadResult(db, command[r])]
    /\ UNCHANGED <<command, answer>>

\* The caller learns that it did, and what it read.
Return(r) ==
    /\ phase[r] = "applied"
    /\ phase' = [phase EXCEPT ![r] = "answered"]
    /\ answer' = [answer EXCEPT ![r] = result[r]]
    /\ UNCHANGED <<db, command, result>>

LinNext ==
    \E r \in Requests : Call(r) \/ TakeEffect(r) \/ Return(r)

LinSpec == LinInit /\ [][LinNext]_linVars
=============================================================================
