---------------------------- MODULE MCKVSnapshot ----------------------------
(***************************************************************************)
(* Small instances of KVSnapshot for TLC.                                  *)
(***************************************************************************)
EXTENDS KVSnapshot

\* All there is, although the shims and the bench client send no Delete.
AllCommands == KVCommands
=============================================================================
