------------------------------- MODULE Storage -------------------------------
(***************************************************************************)
(* The Storage contract (providers/storage_contract.py) for one content    *)
(* type.  Every operation below is the effect the provider has at one      *)
(* point in time; update_if is the only one that reads and writes          *)
(* atomically.  A handler awaits the answer, so other requests run between *)
(* the effect of one operation and the next.                               *)
(***************************************************************************)
EXTENDS ContentModel

VARIABLES db, lastId

storageVars == <<db, lastId>>

(* A patch names the fields it overwrites; absent fields stay unchanged.   *)
Patch == [owner : Users \union {Absent},
          state : UNION {[M -> States] : M \in SUBSET Machines},
          data  : Data \union {Absent}]

EmptyPatch(p) == p.owner = Absent /\ DOMAIN p.state = {} /\ p.data = Absent

(* Fault: a field the patch does not name is overwritten all the same.     *)
PatchedWhole(rec, p) ==
    [owner |-> rec.owner, data |-> p.data,
     state |-> [m \in Machines |-> IF m \in DOMAIN p.state THEN p.state[m] ELSE rec.state[m]]]

Patched(rec, p) ==
    [owner |-> IF p.owner = Absent THEN rec.owner ELSE p.owner,
     state |-> [m \in Machines |-> IF m \in DOMAIN p.state THEN p.state[m] ELSE rec.state[m]],
     data  |-> IF p.data = Absent THEN rec.data ELSE p.data]

(* create: the id is the next autoincrement value and is never reused.     *)
StorageCreate(rec) ==
    /\ lastId < MaxId
    /\ lastId' = lastId + 1
    /\ db' = [db EXCEPT ![lastId + 1] = rec]

(* update on an existing row; on a missing one it returns None.            *)
StorageUpdate(i, p) ==
    /\ db[i] # NoRecord
    /\ db' = [db EXCEPT ![i] = Patched(db[i], p)]
    /\ UNCHANGED lastId

(* Fault: a blind write in place of the compare-and-set.                   *)
BlindConditionMet(i, m, from) == db[i] # NoRecord

(* update_if(Eq(column of m, from), patch) when it applies.                *)
ConditionMet(i, m, from) == db[i] # NoRecord /\ db[i].state[m] = from
StorageUpdateIf(i, m, from, p) == ConditionMet(i, m, from) /\ StorageUpdate(i, p)

(* Fault: deleting a missing row also reports success.                     *)
StorageDeleteAlways(i) ==
    /\ db' = [db EXCEPT ![i] = NoRecord]
    /\ UNCHANGED lastId

(* delete on an existing row; on a missing one it returns False.           *)
StorageDelete(i) ==
    /\ db[i] # NoRecord
    /\ db' = [db EXCEPT ![i] = NoRecord]
    /\ UNCHANGED lastId
=============================================================================
