-------------------------- MODULE TransactionProofs --------------------------
(***************************************************************************)
(* Proofs about Transaction: for any number of transactions, keys and      *)
(* writes, a transaction reads its own writes, and what a commit leaves in *)
(* production is what the transaction read before it.                      *)
(***************************************************************************)
EXTENDS Transaction, TLAPS

LEMMA InitInv == Init => StagingInv
<1> SUFFICES ASSUME Init PROVE StagingInv
  OBVIOUS
<1>1. TypeOK
  BY BoundAssumption DEF Init, TypeOK, NotCommitting, Committing, NoTx
<1>2. ReadYourWrites
  BY DEF Init, ReadYourWrites, FallsThrough
<1>3. PrefixApplied /\ DeletedNotStaged
  BY DEF Init, PrefixApplied, DeletedNotStaged, Committing
<1> QED
  BY <1>1, <1>2, <1>3 DEF StagingInv

-----------------------------------------------------------------------------
(* Staging a write.                                                        *)
LEMMA WriteInv ==
    ASSUME StagingInv, NEW t \in Txs, NEW w \in StagedWrite, Write(t, w)
    PROVE  StagingInv'
<1> USE DEF StagingInv, Write
<1>j. journal[t] \in Seq(StagedWrite) /\ Len(journal[t]) \in Nat
  BY DEF TypeOK
<1>w. w.key \in Keys /\ (w.op = "delete" => w.data = NoRecord) /\ (w.op # "delete" => w.data \in Values)
  BY DEF StagedWrite
<1>n. journal'[t] = Append(journal[t], w) /\ Len(journal'[t]) = Len(journal[t]) + 1
      /\ journal'[t][Len(journal[t]) + 1] = w
      /\ \A i \in 1 .. Len(journal[t]) : journal'[t][i] = journal[t][i]
  BY <1>j DEF TypeOK
<1>1. TypeOK'
  <2>1. staging' \in [Txs -> [Keys -> Values \union {Unstaged}]]
    BY <1>w DEF TypeOK
  <2>2. deleted' \in [Txs -> SUBSET Keys]
    BY <1>w DEF TypeOK, DeletedAfter
  <2>3. journal' \in [Txs -> Seq(StagedWrite)] /\ \A s \in Txs : Len(journal'[s]) <= MaxWrites
    BY <1>j, <1>n, BoundAssumption DEF TypeOK
  <2>4. \A s \in Txs : Committing(s)' => IsActive(s)' /\ applied'[s] <= Len(journal'[s])
    BY DEF TypeOK, Committing, IsActive, NotCommitting
  <2> QED
    BY <2>1, <2>2, <2>3, <2>4 DEF TypeOK, NotCommitting
<1>2. ReadYourWrites'
  <2> SUFFICES ASSUME NEW s \in Txs, NEW k \in Keys
               PROVE  IF \E n \in 1 .. Len(journal'[s]) : journal'[s][n].key = k
                      THEN \E n \in 1 .. Len(journal'[s]) :
                              /\ LastAbout(journal'[s], Len(journal'[s]), n, k)
                              /\ ~ FallsThrough(s, k)'
                              /\ ReadResult(s, k)' = Applied(journal'[s][n])
                      ELSE FallsThrough(s, k)'
    BY DEF ReadYourWrites
  <2>1. CASE s # t
    BY <2>1 DEF ReadYourWrites, TypeOK, FallsThrough, ReadResult
  <2>2. CASE s = t /\ k = w.key
    <3>1. LastAbout(journal'[t], Len(journal'[t]), Len(journal[t]) + 1, k)
      BY <1>j, <1>n, <2>2 DEF LastAbout
    <3>2. ~ FallsThrough(t, k)' /\ ReadResult(t, k)' = Applied(w)
      BY <1>w, <2>2, SentinelAssumption DEF TypeOK, FallsThrough, ReadResult, Applied, DeletedAfter
    <3>3. Len(journal[t]) + 1 \in 1 .. Len(journal'[t]) /\ journal'[t][Len(journal[t]) + 1] = w
      BY <1>j, <1>n
    <3> QED
      BY <2>2, <3>1, <3>2, <3>3
  <2>3. CASE s = t /\ k # w.key
    <3>1. FallsThrough(t, k)' = FallsThrough(t, k) /\ ReadResult(t, k)' = ReadResult(t, k)
      BY <2>3 DEF TypeOK, FallsThrough, ReadResult, DeletedAfter
    <3>2. CASE \E n \in 1 .. Len(journal[t]) : journal[t][n].key = k
      <4>1. PICK n \in 1 .. Len(journal[t]) :
                /\ LastAbout(journal[t], Len(journal[t]), n, k)
                /\ ~ FallsThrough(t, k)
                /\ ReadResult(t, k) = Applied(journal[t][n])
        BY <3>2 DEF ReadYourWrites
      <4>2. LastAbout(journal'[t], Len(journal'[t]), n, k)
        BY <1>j, <1>n, <2>3, <4>1 DEF LastAbout
      <4>3. n \in 1 .. Len(journal'[t]) /\ journal'[t][n] = journal[t][n]
        BY <1>j, <1>n
      <4>4. journal'[t][n].key = k
        BY <4>2, <4>3 DEF LastAbout
      <4>5. ~ FallsThrough(t, k)' /\ ReadResult(t, k)' = Applied(journal'[t][n])
        BY <3>1, <4>1, <4>3
      <4> QED
        BY <2>3, <4>2, <4>3, <4>4, <4>5
    <3>3. CASE ~ \E n \in 1 .. Len(journal[t]) : journal[t][n].key = k
      <4>1. FallsThrough(t, k)
        BY <3>3 DEF ReadYourWrites
      <4>2. ~ \E n \in 1 .. Len(journal'[t]) : journal'[t][n].key = k
        BY <1>j, <1>n, <2>3, <3>3
      <4> QED
        BY <2>3, <3>1, <4>1, <4>2
    <3> QED
      BY <3>2, <3>3
  <2> QED
    BY <2>1, <2>2, <2>3
<1>3. PrefixApplied'
  BY DEF PrefixApplied, TypeOK, Committing, NotCommitting
<1>4. DeletedNotStaged'
  BY <1>w DEF DeletedNotStaged, DeletedAfter, TypeOK
<1> QED
  BY <1>1, <1>2, <1>3, <1>4

(* Discarding the staging area.                                            *)
LEMMA RollbackInv ==
    ASSUME StagingInv, NEW t \in Txs, Rollback(t)
    PROVE  StagingInv'
<1> USE DEF StagingInv, Rollback
<1>1. TypeOK'
  BY BoundAssumption DEF TypeOK, Committing, IsActive, NotCommitting
<1>2. ReadYourWrites'
  <2> SUFFICES ASSUME NEW s \in Txs, NEW k \in Keys
               PROVE  IF \E n \in 1 .. Len(journal'[s]) : journal'[s][n].key = k
                      THEN \E n \in 1 .. Len(journal'[s]) :
                              /\ LastAbout(journal'[s], Len(journal'[s]), n, k)
                              /\ ~ FallsThrough(s, k)'
                              /\ ReadResult(s, k)' = Applied(journal'[s][n])
                      ELSE FallsThrough(s, k)'
    BY DEF ReadYourWrites
  <2>1. CASE s # t
    BY <2>1 DEF ReadYourWrites, TypeOK, FallsThrough, ReadResult
  <2>2. CASE s = t
    BY <2>2 DEF TypeOK, FallsThrough
  <2> QED
    BY <2>1, <2>2
<1>3. PrefixApplied' /\ DeletedNotStaged'
  BY DEF PrefixApplied, DeletedNotStaged, TypeOK, Committing
<1> QED
  BY <1>1, <1>2, <1>3

-----------------------------------------------------------------------------
(* Steps of a commit leave the staging area alone.                         *)
LEMMA StagingUntouched ==
    ASSUME StagingInv, UNCHANGED <<journal, staging, deleted>>
    PROVE  ReadYourWrites' /\ DeletedNotStaged'
<1>2. DeletedNotStaged'
  BY DEF StagingInv, DeletedNotStaged
<1> SUFFICES ASSUME NEW t \in Txs, NEW k \in Keys
             PROVE  IF \E n \in 1 .. Len(journal[t]) : journal[t][n].key = k
                    THEN \E n \in 1 .. Len(journal[t]) :
                            /\ LastAbout(journal[t], Len(journal[t]), n, k)
                            /\ ~ FallsThrough(t, k)
                            /\ ReadResult(t, k)' = Applied(journal[t][n])
                    ELSE FallsThrough(t, k)
  BY <1>2 DEF ReadYourWrites, FallsThrough
<1>1. ~ FallsThrough(t, k) => ReadResult(t, k)' = ReadResult(t, k)
  BY DEF FallsThrough, ReadResult
<1> QED
  BY <1>1 DEF StagingInv, ReadYourWrites

LEMMA CommitWriteInv ==
    ASSUME StagingInv, NEW t \in Txs, CommitWrite(t)
    PROVE  StagingInv'
<1> USE DEF StagingInv, CommitWrite, txVars
<1> DEFINE w == journal[t][applied[t] + 1]
<1>a. applied[t] \in Nat /\ applied[t] + 1 \in 1 .. Len(journal[t]) /\ Len(journal[t]) <= MaxWrites
  BY DEF TypeOK, Committing
<1>w. w \in StagedWrite /\ w.key \in Keys /\ Applied(w) \in Values \union {NoRecord}
  <2>1. w \in StagedWrite
    BY <1>a DEF TypeOK
  <2> QED
    BY <2>1 DEF StagedWrite, Applied
<1>1. TypeOK'
  <2>1. prod' \in [Keys -> Values \union {NoRecord}] /\ writer' \in [Keys -> Txs \union {NoTx}]
    BY <1>w DEF TypeOK, NextWrite
  <2>2. applied' \in [Txs -> 0 .. NotCommitting]
    BY <1>a, BoundAssumption DEF TypeOK, NotCommitting
  <2>3. \A s \in Txs : Committing(s)' => IsActive(s)' /\ applied'[s] <= Len(journal'[s])
    BY <1>a DEF TypeOK, Committing, IsActive
  <2> QED
    BY <2>1, <2>2, <2>3 DEF TypeOK, NotCommitting
<1>2. ReadYourWrites' /\ DeletedNotStaged'
  BY StagingUntouched
<1>3. PrefixApplied'
  <2> SUFFICES ASSUME NEW s \in Txs, NEW k \in Keys, Committing(s)', writer'[k] = s,
                      NEW n \in 1 .. applied'[s], LastAbout(journal[s], applied'[s], n, k)
               PROVE  prod'[k] = Applied(journal[s][n])
    BY DEF PrefixApplied
  <2>1. CASE k = w.key
    <3>1. s = t /\ prod'[k] = Applied(w) /\ applied'[t] = applied[t] + 1
      BY <1>w, <2>1 DEF TypeOK, NextWrite
    <3>2. n = applied[t] + 1
      BY <1>a, <2>1, <3>1 DEF LastAbout
    <3> QED
      BY <3>1, <3>2
  <2>2. CASE k # w.key /\ s = t
    <3>1. prod'[k] = prod[k] /\ writer[k] = t /\ applied'[t] = applied[t] + 1
      BY <1>w, <2>2 DEF TypeOK, NextWrite
    <3>2. n \in 1 .. applied[t] /\ LastAbout(journal[t], applied[t], n, k)
      BY <1>a, <2>2, <3>1 DEF LastAbout
    <3> QED
      BY <2>2, <3>1, <3>2 DEF PrefixApplied
  <2>3. CASE k # w.key /\ s # t
    <3>1. prod'[k] = prod[k] /\ writer[k] = s /\ applied'[s] = applied[s] /\ Committing(s)
      BY <1>w, <2>3 DEF TypeOK, NextWrite, Committing
    <3> QED
      BY <3>1 DEF PrefixApplied
  <2> QED
    BY <2>1, <2>2, <2>3
<1> QED
  BY <1>1, <1>2, <1>3

LEMMA StepInv == StagingInv /\ [Next]_vars => StagingInv'
<1> SUFFICES ASSUME StagingInv, [Next]_vars PROVE StagingInv'
  OBVIOUS
<1> USE DEF StagingInv
<1>1. CASE UNCHANGED vars
  <2>1. TypeOK' /\ PrefixApplied'
    BY <1>1 DEF vars, txVars, TypeOK, PrefixApplied, Committing, IsActive
  <2> QED
    BY <1>1, <2>1, StagingUntouched DEF vars, txVars
<1>2. ASSUME NEW t \in Txs, NEW w \in StagedWrite, Write(t, w) PROVE StagingInv'
  BY <1>2, WriteInv
<1>3. ASSUME NEW t \in Txs, Commit(t) PROVE StagingInv'
  <2>1. TypeOK'
    BY <1>3, BoundAssumption DEF Commit, txVars, TypeOK, Committing, IsActive, NotCommitting
  <2>2. PrefixApplied'
    <3>1. \A s \in Txs : s # t => applied'[s] = applied[s]
      BY <1>3 DEF Commit, TypeOK
    <3>2. 1 .. applied'[t] = {}
      BY <1>3 DEF Commit, TypeOK
    <3> QED
      BY <1>3, <3>1, <3>2 DEF Commit, txVars, PrefixApplied, Committing
  <2> QED
    BY <1>3, <2>1, <2>2, StagingUntouched DEF Commit, txVars
<1>4. ASSUME NEW t \in Txs, CommitWrite(t) PROVE StagingInv'
  BY <1>4, CommitWriteInv
<1>5. ASSUME NEW t \in Txs, CommitRaises(t) \/ CommitDone(t) PROVE StagingInv'
  <2>0. /\ UNCHANGED <<prod, journal, staging, deleted, rolledBack, writer>>
        /\ applied' = [applied EXCEPT ![t] = NotCommitting]
        /\ committed' \in [Txs -> BOOLEAN]
        /\ \A s \in Txs : s # t => committed'[s] = committed[s]
    BY <1>5 DEF CommitRaises, CommitDone, txVars, TypeOK
  <2>c. /\ ~ Committing(t)'
        /\ \A s \in Txs : s # t => applied'[s] = applied[s] /\ Committing(s)' = Committing(s)
                                   /\ IsActive(s)' = IsActive(s)
    BY <2>0 DEF TypeOK, Committing, IsActive
  <2>1. TypeOK'
    BY <2>0, <2>c, BoundAssumption DEF TypeOK, NotCommitting
  <2>2. PrefixApplied'
    BY <2>0, <2>c DEF PrefixApplied
  <2> QED
    BY <1>5, <2>1, <2>2, StagingUntouched DEF CommitRaises, CommitDone, txVars
<1>6. ASSUME NEW t \in Txs, Rollback(t) PROVE StagingInv'
  BY <1>6, RollbackInv
<1> QED
  BY <1>1, <1>2, <1>3, <1>4, <1>5, <1>6 DEF Next

(* The staging area and the deleted set always agree with the journal, and *)
(* a running commit with the prefix it has written.                        *)
THEOREM StagingCorrect == Spec => []StagingInv
<1> QED
  BY InitInv, StepInv, PTL DEF Spec

(* A transaction reads its own writes.                                     *)
THEOREM ReadsOwnWrites == Spec => []ReadYourWrites
<1>1. StagingInv => ReadYourWrites
  BY DEF StagingInv
<1> QED
  BY <1>1, StagingCorrect, PTL

-----------------------------------------------------------------------------
(* The two ways of reading agree in every state.                           *)
THEOREM ReadsAgree == Spec => []ReadAllAgrees
<1>1. TypeOK /\ DeletedNotStaged => ReadAllAgrees
  <2> SUFFICES ASSUME TypeOK, DeletedNotStaged, NEW t \in Txs
               PROVE  ReadAll(t, prod) = [k \in {l \in Keys : ReadResult(t, l) # NoRecord} |-> ReadResult(t, k)]
    BY DEF ReadAllAgrees
  <2>1. \A k \in deleted[t] : staging[t][k] = Unstaged
    BY DEF DeletedNotStaged
  <2> QED
    BY <2>1, SentinelAssumption DEF ReadAll, Kept, Appended, ReadResult, FallsThrough, TypeOK
<1> QED
  BY <1>1, StagingCorrect, PTL DEF StagingInv

(* What a commit leaves in production is what the transaction read.        *)
THEOREM CommitsWhatWasRead == Spec => CommitLeavesWhatWasRead
<1>1. StagingInv /\ [Next]_vars =>
        [\A t \in Txs, k \in Keys :
            ~ committed[t] /\ committed'[t] /\ writer[k] = t => prod[k] = ReadResult(t, k)]_vars
  <2> SUFFICES ASSUME StagingInv, Next, NEW t \in Txs, NEW k \in Keys,
                      ~ committed[t], committed'[t], writer[k] = t
               PROVE  prod[k] = ReadResult(t, k)
    OBVIOUS
  <2>1. CommitDone(t)
    BY DEF Next, Write, Commit, CommitWrite, CommitRaises, CommitDone, Rollback, txVars,
           StagingInv, TypeOK
  <2>2. CASE \E n \in 1 .. Len(journal[t]) : journal[t][n].key = k
    <3>1. PICK n \in 1 .. Len(journal[t]) :
              /\ LastAbout(journal[t], Len(journal[t]), n, k)
              /\ ReadResult(t, k) = Applied(journal[t][n])
      BY <2>2 DEF StagingInv, ReadYourWrites
    <3>2. prod[k] = Applied(journal[t][n])
      BY <2>1, <3>1 DEF StagingInv, PrefixApplied, CommitDone
    <3> QED
      BY <3>1, <3>2
  <2>3. CASE ~ \E n \in 1 .. Len(journal[t]) : journal[t][n].key = k
    <3>1. FallsThrough(t, k)
      BY <2>3 DEF StagingInv, ReadYourWrites
    <3> QED
      BY <3>1 DEF FallsThrough, ReadResult
  <2> QED
    BY <2>2, <2>3
<1> QED
  BY <1>1, StagingCorrect, PTL DEF Spec, CommitLeavesWhatWasRead
=============================================================================
