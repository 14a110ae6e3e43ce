------------------------------ MODULE Lifecycle ------------------------------
(***************************************************************************)
(* What the content handlers promise about one content type, with every    *)
(* operation atomic: rows are created in their initial states and owned by *)
(* their creator, a state column moves only along a declared transition    *)
(* whose gate admits the caller, and on owned content only the owner       *)
(* writes fields or deletes.  Crud is shown to implement this.             *)
(*                                                                         *)
(* Two things are deliberately not promised, because the code does not     *)
(* give them: that the condition of a conditioned gate still holds when    *)
(* the move lands, and that an entered: assignment is computed from the    *)
(* row it lands on (both are evaluated on an earlier read).                *)
(***************************************************************************)
EXTENDS ContentModel

VARIABLES rows, lastId

(* The rows a create can have left behind.                                 *)
Fresh == {FreshRecord(u, d) : u \in Users, d \in Data}

lifecycleVars == <<rows, lastId>>

Init ==
    /\ lastId \in 0 .. MaxId
    /\ rows \in [Ids -> Fresh \union {NoRecord}]
    /\ \A i \in Ids : rows[i] = NoRecord <=> i > lastId

Create(u) ==
    /\ lastId < MaxId
    /\ InBoundary(u)
    /\ lastId' = lastId + 1
    /\ \E d \in Data : rows' = [rows EXCEPT ![lastId + 1] = FreshRecord(u, d)]

Advance(u, i, m) ==
    /\ rows[i] # NoRecord
    /\ \E to \in States, d \in Data :
         LET from == rows[i].state[m]
         IN  /\ Declared(m, from, to)
             /\ ScopeOK(u, m, from, to)
             /\ d = rows[i].data \/ Gates[m][<<from, to>>].entered
             /\ rows' = [rows EXCEPT ![i] = [owner |-> rows[i].owner,
                                             state |-> [rows[i].state EXCEPT ![m] = to],
                                             data  |-> d]]
    /\ UNCHANGED lastId

Write(u, i) ==
    /\ rows[i] # NoRecord
    /\ Owned => rows[i].owner = u
    /\ \E o \in Users, d \in Data :
         /\ d # rows[i].data => MayWriteData(u)
         /\ Owned => o = rows[i].owner
         /\ rows' = [rows EXCEPT ![i] = [owner |-> o, state |-> rows[i].state, data |-> d]]
    /\ UNCHANGED lastId

Delete(u, i) ==
    /\ rows[i] # NoRecord
    /\ Owned => rows[i].owner = u
    /\ rows' = [rows EXCEPT ![i] = NoRecord]
    /\ UNCHANGED lastId

Next == \E u \in Users :
    \/ Create(u)
    \/ \E i \in Ids : Write(u, i) \/ Delete(u, i) \/ \E m \in Machines : Advance(u, i, m)

Spec == Init /\ [][Next]_lifecycleVars
=============================================================================
