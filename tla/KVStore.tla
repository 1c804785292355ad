------------------------------ MODULE KVStore ------------------------------
(***************************************************************************)
(* The key-value state machine: the commands of common.rs and the database *)
(* of database.rs.  Keys and values are opaque.  A HashMap<String, String> *)
(* is a function from keys to values in which NoValue stands for "no       *)
(* entry", which is also what Option<String> = None stands for in the      *)
(* answer to a Get.                                                        *)
(***************************************************************************)

CONSTANTS Keys,     \* the keys clients use
          Values,   \* the values clients write
          NoValue   \* None: the key has no entry

ASSUME NoValueAssumption == NoValue \notin Values

Databases == [Keys -> Values \cup {NoValue}]

\* Database::new
EmptyDatabase == [k \in Keys |-> NoValue]

PutCommands    == [type : {"Put"}, key : Keys, value : Values]
DeleteCommands == [type : {"Delete"}, key : Keys]
GetCommands    == [type : {"Get"}, key : Keys]

\* enum KVCommand
KVCommands == PutCommands \cup DeleteCommands \cup GetCommands

\* Mutant: a key that has an entry keeps it.
HandleFirstPut(db, cmd) ==
    IF cmd.type = "Put" /\ db[cmd.key] = NoValue
    THEN [db EXCEPT ![cmd.key] = cmd.value] ELSE db

\* The database that Database::handle_command leaves behind.
HandleCommand(db, cmd) ==
    CASE cmd.type = "Put"    -> [db EXCEPT ![cmd.key] = cmd.value]
      [] cmd.type = "Delete" -> [db EXCEPT ![cmd.key] = NoValue]
      [] cmd.type = "Get"    -> db

\* What Database::handle_command returns: Some(db.get(key)) for a Get; the
\* None of a Put or Delete is NoValue, and the caller tells the two apart by
\* the command's type.
ReadResult(db, cmd) == IF cmd.type = "Get" THEN db[cmd.key] ELSE NoValue
=============================================================================
