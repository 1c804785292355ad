-------------------------- MODULE KVSnapshotProofs --------------------------
(***************************************************************************)
(* Theorems about KVSnapshot, for any sets of keys and values, logs of any *)
(* length and any number of snapshots.                                     *)
(***************************************************************************)
EXTENDS KVSnapshot, TLAPS

USE NoValueAssumption, EntriesAssumption

(***************************************************************************)
(* The inductive invariant: what the loop of create knows of a key says    *)
(* what the database holds of it, unless the key was forgotten.            *)
(***************************************************************************)
DeltaKnows(k) ==
    /\ delta.snapshotted[k] # NoValue => database[k] = delta.snapshotted[k]
    /\ delta.snapshotted[k] = NoValue /\ k \in delta.deleted_keys =>
           database[k] = NoValue
    /\ delta.snapshotted[k] = NoValue /\ k \notin delta.deleted_keys /\ k \notin forgotten =>
           database[k] = snapshot.snapshotted[k]

IndInv ==
    /\ TypeOK
    /\ ~has_snapshot => snapshot = NothingRead
    /\ \A k \in Keys : DeltaKnows(k)

(***************************************************************************)
(* Lemmas                                                                  *)
(***************************************************************************)

\* What merge makes of each key.
LEMMA MergeKey ==
    ASSUME NEW s \in Snapshots, NEW d \in Snapshots, NEW k \in Keys
    PROVE  /\ Created(d) \in Snapshots /\ Merge(s, Created(d)) \in Snapshots
           /\ Created(d).snapshotted = d.snapshotted
           /\ Merge(s, Created(d)).snapshotted[k] =
                  IF d.snapshotted[k] # NoValue THEN d.snapshotted[k]
                  ELSE IF k \in d.deleted_keys THEN NoValue
                  ELSE s.snapshotted[k]
<1>1. /\ Created(d) \in Snapshots
      /\ Created(d).snapshotted = d.snapshotted
      /\ Created(d).deleted_keys = {q \in d.deleted_keys : d.snapshotted[q] = NoValue}
  BY DEF Created, Snapshots
<1> DEFINE c == Created(d)
<1> HIDE DEF c
<1>2. \A q \in Keys : c.snapshotted[q] \in Values \cup {NoValue}
                        /\ s.snapshotted[q] \in Values \cup {NoValue}
  BY <1>1 DEF c, Snapshots, Databases
<1>3. /\ Merge(s, c) \in Snapshots
      /\ Merge(s, c).snapshotted[k] =
             IF k \in c.deleted_keys THEN NoValue
             ELSE IF c.snapshotted[k] # NoValue THEN c.snapshotted[k]
             ELSE s.snapshotted[k]
  BY <1>2 DEF Merge, Snapshots, Databases
<1>. QED
  BY <1>1, <1>3 DEF c

\* If a snapshot is taken now, it is right about every key not forgotten.
LEMMA NextSnapshotKnows ==
    ASSUME IndInv
    PROVE  /\ NextSnapshot \in Snapshots
           /\ \A k \in Keys : k \notin forgotten =>
                  NextSnapshot.snapshotted[k] = database[k]
<1>1. snapshot \in Snapshots /\ delta \in Snapshots
  BY DEF IndInv, TypeOK
<1>2. ASSUME NEW k \in Keys
      PROVE  /\ NextSnapshot \in Snapshots
             /\ k \notin forgotten => NextSnapshot.snapshotted[k] = database[k]
  <2>1. DeltaKnows(k)
    BY DEF IndInv
  <2>2. CASE has_snapshot
    <3>1. NextSnapshot = Merge(snapshot, Created(delta))
      BY <2>2 DEF NextSnapshot
    <3>2. /\ Merge(snapshot, Created(delta)) \in Snapshots
          /\ Merge(snapshot, Created(delta)).snapshotted[k] =
                 IF delta.snapshotted[k] # NoValue THEN delta.snapshotted[k]
                 ELSE IF k \in delta.deleted_keys THEN NoValue
                 ELSE snapshot.snapshotted[k]
      BY <1>1, MergeKey
    <3>. QED
      BY <2>1, <3>1, <3>2 DEF DeltaKnows
  <2>3. CASE ~has_snapshot
    <3>1. snapshot.snapshotted[k] = NoValue
      BY <2>3 DEF IndInv, NothingRead, EmptyDatabase
    <3>. QED
      BY <1>1, <2>1, <2>3, <3>1, MergeKey DEF NextSnapshot, DeltaKnows
  <2>. QED
    BY <2>2, <2>3
<1>3. NextSnapshot \in Snapshots
  <2>1. Created(delta) \in Snapshots
    BY <1>1 DEF Created, Snapshots
  <2>2. Merge(snapshot, Created(delta)) \in Snapshots
    BY <1>1, <2>1 DEF Merge, Snapshots, Databases
  <2>. QED
    BY <2>1, <2>2 DEF NextSnapshot
<1>. QED
  BY <1>2, <1>3

\* The invariant holds of an empty log.
LEMMA InitIndInv == Init => IndInv
<1>. SUFFICES ASSUME Init PROVE IndInv
  OBVIOUS
<1>1. EmptyDatabase \in Databases /\ NothingRead \in Snapshots
  BY DEF EmptyDatabase, NothingRead, Databases, Snapshots
<1>2. TypeOK
  BY <1>1 DEF Init, TypeOK
<1>3. \A k \in Keys : DeltaKnows(k)
  BY DEF Init, DeltaKnows, NothingRead, EmptyDatabase
<1>. QED
  BY <1>2, <1>3 DEF Init, IndInv

\* An iteration of the loop of create keeps track of the database.
LEMMA DecideStep ==
    ASSUME IndInv, NEW cmd \in Entries, Decide(cmd)
    PROVE  IndInv'
<1>1. cmd \in KVCommands /\ cmd.key \in Keys
  BY DEF KVCommands, PutCommands, DeleteCommands, GetCommands
<1>2. database \in Databases /\ delta \in Snapshots /\ forgotten \subseteq Keys
  BY DEF IndInv, TypeOK
<1>3. CASE cmd \in PutCommands
  <2>1. cmd.type = "Put" /\ cmd.value \in Values
    BY <1>3 DEF PutCommands
  <2>2. /\ database' = [database EXCEPT ![cmd.key] = cmd.value]
        /\ delta' = [delta EXCEPT !.snapshotted[cmd.key] = cmd.value]
        /\ UNCHANGED <<has_snapshot, snapshot, forgotten>>
    BY <2>1 DEF Decide, HandleCommand, ReadEntry, IsForgotten
  <2>3. TypeOK'
    BY <1>1, <1>2, <2>1, <2>2 DEF IndInv, TypeOK, Snapshots, Databases
  <2>4. \A k \in Keys : DeltaKnows(k)'
    BY <1>1, <1>2, <2>1, <2>2 DEF IndInv, DeltaKnows, Snapshots, Databases
  <2>. QED
    BY <2>2, <2>3, <2>4 DEF IndInv
<1>4. CASE cmd \in DeleteCommands
  <2>1. cmd.type = "Delete"
    BY <1>4 DEF DeleteCommands
  <2>2. /\ database' = [database EXCEPT ![cmd.key] = NoValue]
        /\ UNCHANGED <<has_snapshot, snapshot>>
    BY <2>1 DEF Decide, HandleCommand
  <2>3. CASE IsForgotten(delta, cmd)
    <3>1. /\ delta' = [delta EXCEPT !.snapshotted[cmd.key] = NoValue]
          /\ forgotten' = forgotten \cup {cmd.key}
      BY <2>1, <2>3 DEF Decide, ReadEntry
    <3>2. TypeOK'
      BY <1>1, <1>2, <2>2, <3>1 DEF IndInv, TypeOK, Snapshots, Databases
    <3>3. \A k \in Keys : DeltaKnows(k)'
      BY <1>1, <1>2, <2>2, <3>1 DEF IndInv, DeltaKnows, Snapshots, Databases
    <3>. QED
      BY <2>2, <3>2, <3>3 DEF IndInv
  <2>4. CASE ~IsForgotten(delta, cmd)
    <3>1. /\ delta' = [delta EXCEPT !.deleted_keys = @ \cup {cmd.key}]
          /\ forgotten' = forgotten
          /\ delta.snapshotted[cmd.key] = NoValue
      BY <2>1, <2>4 DEF Decide, ReadEntry, IsForgotten
    <3>2. TypeOK'
      BY <1>1, <1>2, <2>2, <3>1 DEF IndInv, TypeOK, Snapshots, Databases
    <3>3. \A k \in Keys : DeltaKnows(k)'
      BY <1>1, <1>2, <2>2, <3>1 DEF IndInv, DeltaKnows, Snapshots, Databases
    <3>. QED
      BY <2>2, <3>2, <3>3 DEF IndInv
  <2>. QED
    BY <2>3, <2>4
<1>5. CASE cmd \in GetCommands
  <2>1. cmd.type = "Get"
    BY <1>5 DEF GetCommands
  <2>2. UNCHANGED vars
    BY <2>1 DEF Decide, HandleCommand, ReadEntry, IsForgotten, vars
  <2>. QED
    BY <2>2 DEF IndInv, TypeOK, DeltaKnows, vars
<1>. QED
  BY <1>1, <1>3, <1>4, <1>5 DEF KVCommands

\* A new snapshot knows what the old one and the delta knew together.
LEMMA TakeSnapshotStep ==
    ASSUME IndInv, TakeSnapshot
    PROVE  IndInv'
<1>1. TypeOK'
  BY NextSnapshotKnows DEF IndInv, TypeOK, TakeSnapshot, NothingRead, Snapshots,
     EmptyDatabase, Databases
<1>2. \A k \in Keys : DeltaKnows(k)'
  BY NextSnapshotKnows DEF TakeSnapshot, DeltaKnows, NothingRead, EmptyDatabase
<1>. QED
  BY <1>1, <1>2 DEF IndInv, TakeSnapshot

(***************************************************************************)
(* Theorems                                                                *)
(***************************************************************************)

\* The inductive invariant holds in every state.
THEOREM Invariance == Spec => []IndInv
<1>1. IndInv /\ [Next]_vars => IndInv'
  <2>1. ASSUME IndInv, UNCHANGED vars PROVE IndInv'
    BY <2>1 DEF IndInv, TypeOK, DeltaKnows, vars
  <2>. QED
    BY <2>1, DecideStep, TakeSnapshotStep DEF Next
<1>. QED
  BY <1>1, InitIndInv, PTL DEF Spec

\* Every variable keeps its type.
THEOREM TypeCorrectness == Spec => []TypeOK
<1>1. IndInv => TypeOK
  BY DEF IndInv
<1>. QED
  BY <1>1, Invariance, PTL

\* Whatever the commands, a snapshot can be wrong only about a key that was
\* put and deleted again between two snapshots (common.rs:85-89).
THEOREM SnapshotErrors == Spec => []OnlyForgottenKeysDiffer
<1>1. IndInv => OnlyForgottenKeysDiffer
  BY NextSnapshotKnows DEF OnlyForgottenKeysDiffer
<1>. QED
  BY <1>1, Invariance, PTL

\* With the commands that the clients of this repository send, Put and Get,
\* a snapshot always stands for the entries it replaces.
THEOREM SnapshotSafety ==
    ASSUME Entries \subseteq PutCommands \cup GetCommands
    PROVE  Spec => []SnapshotIsDatabase
<1> DEFINE NoneForgotten == forgotten = {}
<1>1. Init => NoneForgotten
  BY DEF Init
<1>2. NoneForgotten /\ [Next]_vars => NoneForgotten'
  <2>1. \A cmd \in Entries : cmd.type # "Delete"
    BY DEF PutCommands, GetCommands
  <2>. QED
    BY <2>1 DEF Next, Decide, TakeSnapshot, IsForgotten, vars
<1>3. IndInv /\ NoneForgotten => SnapshotIsDatabase
  <2>. SUFFICES ASSUME IndInv, NoneForgotten PROVE SnapshotIsDatabase
    OBVIOUS
  <2>1. \A k \in Keys : NextSnapshot.snapshotted[k] = database[k]
    BY NextSnapshotKnows
  <2>2. NextSnapshot.snapshotted \in Databases /\ database \in Databases
    BY NextSnapshotKnows DEF IndInv, TypeOK, Snapshots
  <2>. QED
    BY <2>1, <2>2 DEF SnapshotIsDatabase, Databases
<1>. QED
  BY <1>1, <1>2, <1>3, Invariance, PTL DEF Spec
=============================================================================
