----------------------------- MODULE KVSnapshot -----------------------------
(***************************************************************************)
(* The snapshots of the log that OmniPaxos may take with KVSnapshot        *)
(* (common.rs:70-115): create summarises a stretch of the log, merge puts  *)
(* the summary of the next stretch on top of a snapshot.  The log is of    *)
(* any length: of the entries since the last snapshot the state keeps what *)
(* the loop of create has made of them, and of all entries the database.   *)
(***************************************************************************)
EXTENDS KVStore

CONSTANT Entries   \* the commands that are in use

ASSUME EntriesAssumption == Entries \subseteq KVCommands

VARIABLES database,      \* what all entries of the log lead to
          has_snapshot,  \* the library has taken a snapshot
          snapshot,      \* that snapshot, with everything merged into it
          delta,         \* the variables of create, after the entries since
          forgotten      \* history: keys that took the silent way out of a Delete

vars == <<database, has_snapshot, snapshot, delta, forgotten>>

\* struct KVSnapshot; a Vec of deleted keys is the set of them.
Snapshots == [snapshotted : Databases, deleted_keys : SUBSET Keys]

NothingRead == [snapshotted |-> EmptyDatabase, deleted_keys |-> {}]

TypeOK ==
    /\ database \in Databases
    /\ has_snapshot \in BOOLEAN
    /\ snapshot \in Snapshots
    /\ delta \in Snapshots
    /\ forgotten \in SUBSET Keys

Init ==
    /\ database = EmptyDatabase
    /\ has_snapshot = FALSE
    /\ snapshot = NothingRead
    /\ delta = NothingRead
    /\ forgotten = {}

(***************************************************************************)
(* KVSnapshot::create                                                      *)
(***************************************************************************)

\* The Delete of key is not recorded: the delta held the key.
IsForgotten(d, cmd) == cmd.type = "Delete" /\ d.snapshotted[cmd.key] # NoValue

\* One iteration of the loop over the entries.
ReadEntry(d, cmd) ==
    CASE cmd.type = "Put"    -> [d EXCEPT !.snapshotted[cmd.key] = cmd.value]
      [] cmd.type = "Delete" ->
            IF IsForgotten(d, cmd)
            THEN [d EXCEPT !.snapshotted[cmd.key] = NoValue]
            ELSE [d EXCEPT !.deleted_keys = @ \cup {cmd.key}]
      [] cmd.type = "Get"    -> d

\* Mutant: keys that were put back stay among the deleted ones.
CreatedWithoutRetain(d) == d

\* After the loop: keys that were put back are not deleted (retain).
Created(d) ==
    [d EXCEPT !.deleted_keys = {k \in @ : d.snapshotted[k] = NoValue}]

(***************************************************************************)
(* KVSnapshot::merge                                                       *)
(***************************************************************************)
Merge(self, d) ==
    [snapshotted |-> [k \in Keys |->
        CASE k \in d.deleted_keys          -> NoValue
          [] k \notin d.deleted_keys /\ d.snapshotted[k] # NoValue -> d.snapshotted[k]
          [] OTHER                         -> self.snapshotted[k]],
     deleted_keys |-> {}]

\* The snapshot, if one is taken now.
NextSnapshot ==
    IF has_snapshot THEN Merge(snapshot, Created(delta)) ELSE Created(delta)

(***************************************************************************)
(* The library                                                             *)
(***************************************************************************)

\* One more entry is decided, and will be read by the next create.
Decide(cmd) ==
    /\ database' = HandleCommand(database, cmd)
    /\ delta' = ReadEntry(delta, cmd)
    /\ forgotten' = IF IsForgotten(delta, cmd) THEN forgotten \cup {cmd.key}
                    ELSE forgotten
    /\ UNCHANGED <<has_snapshot, snapshot>>

\* The entries since the last snapshot are replaced by their summary.
TakeSnapshot ==
    /\ snapshot' = NextSnapshot
    /\ has_snapshot' = TRUE
    /\ delta' = NothingRead
    /\ UNCHANGED <<database, forgotten>>

Next == (\E cmd \in Entries : Decide(cmd)) \/ TakeSnapshot

Spec == Init /\ [][Next]_vars

(***************************************************************************)
(* Properties                                                              *)
(***************************************************************************)

\* A snapshot stands for the entries it replaces: whenever it is taken, and
\* however often before, it holds what the entries lead to.  It is what the
\* log promises to a server that is sent a snapshot instead of entries.
SnapshotIsDatabase == NextSnapshot.snapshotted = database

\* Deletes can spoil a snapshot in one way only: the key was put and deleted
\* again between two snapshots, so that create drops its value and does not
\* record that it is gone (common.rs:85-89).
OnlyForgottenKeysDiffer ==
    \A k \in Keys : NextSnapshot.snapshotted[k] # database[k] => k \in forgotten

\* create notes a deleted key unless "key was not in the snapshot", and later
\* "remove keys that were put back" (common.rs:87, 94), so that merge can
\* remove it from the older snapshot: a deleted key stays deleted.
DeletedStayDeleted ==
    \A k \in Keys : database[k] = NoValue => NextSnapshot.snapshotted[k] = NoValue
=============================================================================
