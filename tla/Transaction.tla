----------------------------- MODULE Transaction -----------------------------
(***************************************************************************)
(* Transaction staging for computes (transaction.py).  A compute stages    *)
(* its writes in a transaction, reads through it, and then commits it or   *)
(* rolls it back; several computes run at a time.  Inside one transaction  *)
(* calls are sequential, as one coroutine owns it.  Two of them await:     *)
(* commit, once per journalled write, and read, when it falls through to   *)
(* production.  A read changes nothing: what it returns is ReadResult.     *)
(*                                                                         *)
(* A key stands for a (content name, record id) pair and a value for the   *)
(* record data.  create and update are staged alike and are one `put`.     *)
(***************************************************************************)
EXTENDS Naturals, Sequences

CONSTANTS
    Txs,        \* transactions
    Keys,       \* (content_name, record_id)
    Values,     \* record data
    NoRecord,   \* no such record
    Unstaged,   \* a key that is not in _staging
    MaxWrites   \* bound: writes per transaction

ASSUME SentinelAssumption == {NoRecord, Unstaged} \cap Values = {} /\ NoRecord # Unstaged
ASSUME BoundAssumption == MaxWrites \in Nat

VARIABLES
    prod,       \* production: the record of each key
    journal,    \* _journal
    staging,    \* _staging: latest staged data
    deleted,    \* _deleted
    committed,  \* _committed
    rolledBack, \* _rolled_back
    applied,    \* how far a running commit has come; NotCommitting outside one
    writer      \* history: who wrote the key in production last

txVars == <<journal, staging, deleted, committed, rolledBack>>
vars   == <<prod, txVars, applied, writer>>

NotCommitting == MaxWrites + 1
NoTx          == NoRecord

StagedWrite == [key : Keys, op : {"put"}, data : Values]
                 \union [key : Keys, op : {"delete"}, data : {NoRecord}]

Init ==
    /\ prod \in [Keys -> Values \union {NoRecord}]
    /\ journal = [t \in Txs |-> <<>>]
    /\ staging = [t \in Txs |-> [k \in Keys |-> Unstaged]]
    /\ deleted = [t \in Txs |-> {}]
    /\ committed = [t \in Txs |-> FALSE]
    /\ rolledBack = [t \in Txs |-> FALSE]
    /\ applied = [t \in Txs |-> NotCommitting]
    /\ writer = [k \in Keys |-> NoTx]

IsActive(t)   == ~ committed[t] /\ ~ rolledBack[t]
Committing(t) == applied[t] # NotCommitting

-----------------------------------------------------------------------------
(* Fault: a put of a key leaves it marked as deleted.                      *)
DeletedKeptBy(D, w) == IF w.op = "delete" THEN D \union {w.key} ELSE D

DeletedAfter(D, w) == IF w.op = "delete" THEN D \union {w.key} ELSE D \ {w.key}

(* write: an inactive transaction raises RuntimeError.                     *)
Write(t, w) ==
    /\ IsActive(t) /\ ~ Committing(t)
    /\ Len(journal[t]) < MaxWrites
    /\ journal' = [journal EXCEPT ![t] = Append(@, w)]
    /\ staging' = [staging EXCEPT ![t][w.key] = IF w.op = "delete" THEN Unstaged ELSE w.data]
    /\ deleted' = [deleted EXCEPT ![t] = DeletedAfter(@, w)]
    /\ UNCHANGED <<prod, committed, rolledBack, applied, writer>>

FallsThrough(t, k) == k \notin deleted[t] /\ staging[t][k] = Unstaged

(* What read returns; it needs no active transaction.                      *)
ReadResult(t, k) ==
    CASE k \in deleted[t]                              -> NoRecord
      [] k \notin deleted[t] /\ ~ FallsThrough(t, k)   -> staging[t][k]
      [] OTHER                                         -> prod[k]

(* What read_all makes of the production records the caller passes: staged *)
(* versions in their place, staged deletes left out, and at the end the    *)
(* staged records production did not have.                                 *)
KeptAll(t, records) == {k \in Keys : records[k] # NoRecord} \* Fault: deleted ones too.

Kept(t, records)     == {k \in Keys : records[k] # NoRecord /\ k \notin deleted[t]}
Appended(t, records) == {k \in Keys : staging[t][k] # Unstaged} \ Kept(t, records)
ReadAll(t, records) ==
    [k \in Kept(t, records) \union Appended(t, records) |->
        IF staging[t][k] # Unstaged THEN staging[t][k] ELSE records[k]]

-----------------------------------------------------------------------------
(* Fault: a transaction that is over can be committed again.               *)
CommitAnyway(t) ==
    /\ ~ Committing(t)
    /\ applied' = [applied EXCEPT ![t] = 0]
    /\ UNCHANGED <<prod, txVars, writer>>

Commit(t) ==
    /\ IsActive(t) /\ ~ Committing(t)
    /\ applied' = [applied EXCEPT ![t] = 0]
    /\ UNCHANGED <<prod, txVars, writer>>

(* storage_write_fn: applies a single write to production.                 *)
Applied(w) == IF w.op = "delete" THEN NoRecord ELSE w.data

(* Fault: the journal is written latest first.                             *)
LastUnapplied(t) == journal[t][Len(journal[t]) - applied[t]]

NextWrite(t) == journal[t][applied[t] + 1]

CommitWrite(t) ==
    /\ Committing(t) /\ applied[t] < Len(journal[t])
    /\ prod' = [prod EXCEPT ![NextWrite(t).key] = Applied(NextWrite(t))]
    /\ writer' = [writer EXCEPT ![NextWrite(t).key] = t]
    /\ applied' = [applied EXCEPT ![t] = @ + 1]
    /\ UNCHANGED txVars

(* storage_write_fn raises: commit is left, the transaction stays active   *)
(* and its owner may write on, commit again or roll back.                  *)
CommitRaises(t) ==
    /\ Committing(t) /\ applied[t] < Len(journal[t])
    /\ applied' = [applied EXCEPT ![t] = NotCommitting]
    /\ UNCHANGED <<prod, txVars, writer>>

CommitDone(t) ==
    /\ Committing(t) /\ applied[t] = Len(journal[t])
    /\ committed' = [committed EXCEPT ![t] = TRUE]
    /\ applied' = [applied EXCEPT ![t] = NotCommitting]
    /\ UNCHANGED <<prod, journal, staging, deleted, rolledBack, writer>>

(* rollback looks at no flag: a committed transaction can be rolled back.  *)
Rollback(t) ==
    /\ ~ Committing(t)
    /\ journal' = [journal EXCEPT ![t] = <<>>]
    /\ staging' = [staging EXCEPT ![t] = [k \in Keys |-> Unstaged]]
    /\ deleted' = [deleted EXCEPT ![t] = {}]
    /\ rolledBack' = [rolledBack EXCEPT ![t] = TRUE]
    /\ UNCHANGED <<prod, committed, applied, writer>>

Next == \E t \in Txs :
    \/ \E w \in StagedWrite : Write(t, w)
    \/ Commit(t) \/ CommitWrite(t) \/ CommitRaises(t) \/ CommitDone(t)
    \/ Rollback(t)

Spec == Init /\ [][Next]_vars
-----------------------------------------------------------------------------
TypeOK ==
    /\ prod \in [Keys -> Values \union {NoRecord}]
    /\ journal \in [Txs -> Seq(StagedWrite)]
    /\ \A t \in Txs : Len(journal[t]) <= MaxWrites
    /\ staging \in [Txs -> [Keys -> Values \union {Unstaged}]]
    /\ deleted \in [Txs -> SUBSET Keys]
    /\ committed \in [Txs -> BOOLEAN]
    /\ rolledBack \in [Txs -> BOOLEAN]
    /\ applied \in [Txs -> 0 .. NotCommitting]
    /\ \A t \in Txs : Committing(t) => IsActive(t) /\ applied[t] <= Len(journal[t])
    /\ writer \in [Keys -> Txs \union {NoTx}]

(* Entry n of a journal is the last one about its key among the first m.   *)
LastAbout(j, m, n, k) ==
    /\ n \in 1 .. m /\ j[n].key = k
    /\ \A i \in n + 1 .. m : j[i].key # k

(* Reads see the transaction's own writes: whatever the order of puts and  *)
(* deletes, staging and the deleted set say of a key what its latest       *)
(* journal entry says, and nothing of a key without one.                   *)
ReadYourWrites == \A t \in Txs, k \in Keys :
    IF \E n \in 1 .. Len(journal[t]) : journal[t][n].key = k
    THEN \E n \in 1 .. Len(journal[t]) :
            /\ LastAbout(journal[t], Len(journal[t]), n, k)
            /\ ~ FallsThrough(t, k)
            /\ ReadResult(t, k) = Applied(journal[t][n])
    ELSE FallsThrough(t, k)

(* The two ways of reading agree: read_all over the current production     *)
(* records has exactly the records that read finds one by one.             *)
ReadAllAgrees == \A t \in Txs :
    ReadAll(t, prod) = [k \in {l \in Keys : ReadResult(t, l) # NoRecord} |-> ReadResult(t, k)]

(* What the postconditions were evaluated on is what a commit leaves in    *)
(* production, earlier attempts that raised included: for every key it     *)
(* wrote and nobody has overwritten since, production holds what the       *)
(* transaction read.                                                       *)
CommitLeavesWhatWasRead == [][
    \A t \in Txs, k \in Keys :
        ~ committed[t] /\ committed'[t] /\ writer[k] = t => prod[k] = ReadResult(t, k)]_vars

(* A running commit has brought production to where the prefix of its      *)
(* journal leads, other writers aside.                                     *)
PrefixApplied == \A t \in Txs, k \in Keys :
    Committing(t) /\ writer[k] = t => \A n \in 1 .. applied[t] :
        LastAbout(journal[t], applied[t], n, k) => prod[k] = Applied(journal[t][n])

DeletedNotStaged == \A t \in Txs : \A k \in deleted[t] : staging[t][k] = Unstaged

(* The inductive invariant: the staging area and the deleted set agree     *)
(* with each other and with the journal, production with the part of it    *)
(* that a running commit has written.                                      *)
StagingInv == TypeOK /\ ReadYourWrites /\ DeletedNotStaged /\ PrefixApplied

-----------------------------------------------------------------------------
(* What the documentation says and the code does not do.                   *)

(* Transaction: writes are "only committed to production when commit() is  *)
(* called successfully".                                                   *)
OnlySuccessfulCommits == \A k \in Keys :
    writer[k] # NoTx => committed[writer[k]] \/ Committing(writer[k])
=============================================================================
