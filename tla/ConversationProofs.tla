------------------------- MODULE ConversationProofs -------------------------
(***************************************************************************)
(* Theorems about appends to a conversation, for every number of requests, *)
(* users and kinds of body, about the translation of a list of entries,    *)
(* for every list, and about the translation of what appends leave.        *)
(***************************************************************************)
EXTENDS Transcript, Translations, TLAPS, WellFoundedInduction, SequenceTheorems

LEMMA AppendListed ==
    ASSUME NEW S, NEW s \in Seq(S), NEW e \in S
    PROVE  Listed(Append(s, e)) = Listed(s) \union {e}
  <1> DEFINE t == Append(s, e)
  <1>1. /\ DOMAIN s = 1 .. Len(s) /\ DOMAIN t = 1 .. Len(s) + 1 /\ Len(s) \in Nat
        /\ t[Len(s) + 1] = e /\ \A i \in DOMAIN s : t[i] = s[i]
    OBVIOUS
  <1>2. ASSUME NEW x \in Listed(t) PROVE x \in Listed(s) \union {e}
    <2>1. PICK i \in DOMAIN t : x = t[i]
      BY DEF Listed
    <2>2. i = Len(s) + 1 \/ i \in DOMAIN s
      BY <1>1
    <2> QED BY <1>1, <2>1, <2>2 DEF Listed
  <1>3. ASSUME NEW x \in Listed(s) \union {e} PROVE x \in Listed(t)
    <2>1. Len(s) + 1 \in DOMAIN t /\ DOMAIN s \subseteq DOMAIN t
      BY <1>1
    <2> QED BY <1>1, <2>1 DEF Listed
  <1> QED BY <1>2, <1>3

LEMMA EntriesTyped == TypeOK => Entries(field) \in Seq(Entry)
  BY DEF TypeOK, Entries

LEMMA EntryFields ==
    ASSUME NEW s \in Seq(Entry) PROVE \A i \in DOMAIN s : s[i] \in Entry /\ s[i].id \in Nat
  <1>1. \A i \in DOMAIN s : s[i] \in Entry
    OBVIOUS
  <1> QED BY <1>1 DEF Entry

LEMMA EntriesOfSeq == ASSUME NEW s \in Seq(Entry) PROVE s # NotAList
  BY SentinelAssumption DEF Entry

LEMMA AppendIncreasing ==
    ASSUME NEW s \in Seq(Entry), NEW e \in Entry, Increasing(s),
           \A i \in DOMAIN s : s[i].id < e.id
    PROVE  Increasing(Append(s, e))
  BY DEF Increasing, Entry

-----------------------------------------------------------------------------
LEMMA InitInv == Init => ConversationInv
  <1> SUFFICES ASSUME Init PROVE ConversationInv
    OBVIOUS
  <1>1. Entries(field) = <<>>
    BY EntriesOfSeq DEF Init, Entries
  <1>2. TypeOK
    BY DEF Init, TypeOK, Holds
  <1> QED
    BY <1>1, <1>2 DEF Init, ConversationInv, LostOnlyToOverlap, SnapshotsAccount, OrderInv,
       InOrder, Increasing, AnnouncedWasWritten, PastUpdate, Pending

LEMMA StepInv == ConversationInv /\ [Next]_vars => ConversationInv'
  <1> SUFFICES ASSUME ConversationInv, [Next]_vars PROVE ConversationInv'
    OBVIOUS
  <1> USE DEF ConversationInv
  <1> DEFINE Others == LostOnlyToOverlap' /\ SnapshotsAccount' /\ OrderInv' /\ AnnouncedWasWritten' /\ PastUpdate'
  <1>1. ASSUME NEW a \in Appenders, NEW p \in Payloads \union {Invalid}, Arrive(a, p)
        PROVE  ConversationInv'
    <2>1. TypeOK'
      BY <1>1 DEF Arrive, TypeOK, Goto, Answer, rowVars, historyVars, Holds
    <2>2. Others
      BY <1>1 DEF Arrive, TypeOK, Goto, Answer, rowVars, historyVars, Pending, LostOnlyToOverlap,
         SnapshotsAccount, OrderInv, InOrder, AnnouncedWasWritten, PastUpdate, Entries
    <2> QED BY <2>1, <2>2
  <1>2. ASSUME NEW a \in Appenders, ReadRefused(a) \/ Raises(a) \/ Listened(a) PROVE ConversationInv'
    <2>1. TypeOK'
      BY <1>2 DEF ReadRefused, Raises, Listened, TypeOK, Goto, Answer, rowVars, historyVars, Holds
    <2>2. /\ UNCHANGED <<rowVars, clock, user, payload, snapshot, entry, announced, historyVars>>
          /\ pc' = [pc EXCEPT ![a] = "done"]
          /\ \A b \in Appenders : answer'[b] = "created" => answer[b] = "created" \/ (b = a /\ pc[a] = "listening")
      BY <1>2 DEF ReadRefused, Raises, Listened, Goto, Answer, TypeOK
    <2>3. LostOnlyToOverlap' /\ SnapshotsAccount' /\ OrderInv'
      BY <2>2 DEF TypeOK, rowVars, historyVars, Pending, LostOnlyToOverlap, SnapshotsAccount,
         OrderInv, InOrder, Entries
    <2>4. AnnouncedWasWritten' /\ PastUpdate'
      BY <2>2 DEF TypeOK, rowVars, historyVars, AnnouncedWasWritten, PastUpdate
    <2> QED BY <2>1, <2>3, <2>4
  <1>3. ASSUME NEW a \in Appenders, Read(a) PROVE ConversationInv'
    <2> DEFINE e == [id |-> clock + 1, by |-> user[a], payload |-> payload[a]]
    <2>0. clock + 1 \in Nat /\ user[a] \in Users /\ payload[a] \in Payloads
      BY <1>3 DEF Read, TypeOK
    <2>1. e \in Entry /\ Entries(field) \in Seq(Entry)
      BY <2>0, EntriesTyped DEF Entry
    <2>2. TypeOK'
      BY <1>3, <2>1 DEF Read, TypeOK, Goto, rowVars, Holds
    <2>3. entry'[a] = e /\ snapshot'[a] = Entries(field) /\ e.id = clock + 1
      BY <1>3 DEF Read, TypeOK
    <2>4. \A b \in Appenders : b # a =>
            /\ entry'[b] = entry[b] /\ snapshot'[b] = snapshot[b] /\ missed'[b] = missed[b]
            /\ pc'[b] = pc[b]
      BY <1>3 DEF Read, Goto, TypeOK
    <2>5. LostOnlyToOverlap'
      BY <1>3 DEF Read, rowVars, LostOnlyToOverlap, Entries
    <2>6. SnapshotsAccount'
      BY <1>3, <2>3, <2>4 DEF Read, rowVars, SnapshotsAccount, LostOnlyToOverlap, Pending, Entries
    <2>7. OrderInv'
      <3>1. InOrder' /\ \A i \in DOMAIN Entries(field)' : Entries(field)'[i].id <= clock'
        <4>1. Entries(field)' = Entries(field) /\ clock' = clock + 1 /\ clock \in Nat
          BY <1>3 DEF Read, rowVars, Entries, TypeOK
        <4>2. \A i \in DOMAIN Entries(field) : Entries(field)[i].id \in Nat
          BY <2>1, EntryFields
        <4> QED BY <4>1, <4>2 DEF OrderInv, InOrder
      <3>2. ASSUME NEW b \in Appenders, Pending(b)'
            PROVE  /\ Increasing(snapshot'[b])
                   /\ entry'[b].id <= clock'
                   /\ \A i \in DOMAIN snapshot'[b] : snapshot'[b][i].id < entry'[b].id
        <4>1. CASE b = a
          <5>1. \A i \in DOMAIN Entries(field) : Entries(field)[i].id \in Nat
            BY <2>1, EntryFields
          <5>2. clock' = clock + 1 /\ clock \in Nat
            BY <1>3 DEF Read, TypeOK
          <5> QED BY <4>1, <2>3, <5>1, <5>2 DEF OrderInv, InOrder
        <4>2. CASE b # a
          <5>1. Pending(b) /\ entry[b] \in Entry
            BY <4>2, <2>4, <3>2 DEF Pending, TypeOK, Holds
          <5> QED
            BY <5>1, <4>2, <1>3, <2>4 DEF Read, OrderInv, TypeOK, Entry
        <4> QED BY <4>1, <4>2
      <3> QED BY <3>1, <3>2 DEF OrderInv
    <2>8. AnnouncedWasWritten' /\ PastUpdate'
      BY <1>3, <2>4 DEF Read, Goto, TypeOK, rowVars, AnnouncedWasWritten, PastUpdate
    <2> QED BY <2>2, <2>5, <2>6, <2>7, <2>8
  <1>4. ASSUME NEW a \in Appenders, Update(a), alive PROVE ConversationInv'
    <2>1. /\ field' = Written(a) /\ landed' = landed \union {entry[a]}
          /\ overwritten' = overwritten \union missed[a]
          /\ missed' = [b \in Appenders |-> IF pc[b] = "updating" /\ b # a
                                            THEN missed[b] \union {entry[a]} ELSE missed[b]]
          /\ pc[a] = "updating" /\ pc' = [pc EXCEPT ![a] = "publishing"]
          /\ UNCHANGED <<alive, owner, clock, user, payload, snapshot, entry, answer, announced>>
      BY <1>4 DEF Update, Goto
    <2>2. entry[a] \in Entry /\ snapshot[a] \in Seq(Entry) /\ Pending(a)
      BY <2>1 DEF TypeOK, Holds, Pending
    <2>3. Written(a) \in Seq(Entry) /\ Entries(field)' = Written(a)
      <3>1. Written(a) \in Seq(Entry)
        BY <2>2 DEF Written
      <3>2. Written(a) # NotAList
        BY <3>1, EntriesOfSeq
      <3> QED BY <2>1, <3>1, <3>2 DEF Entries
    <2>4. Listed(Entries(field)') = Listed(snapshot[a]) \union {entry[a]}
      BY <2>2, <2>3, AppendListed DEF Written
    <2>5. TypeOK'
      BY <2>1, <2>2, <2>3 DEF TypeOK, Holds
    <2>6. LostOnlyToOverlap'
      BY <2>1, <2>2, <2>4, <1>4 DEF LostOnlyToOverlap, SnapshotsAccount
    <2>7. SnapshotsAccount'
      <3> SUFFICES ASSUME NEW b \in Appenders, Pending(b)', alive'
                   PROVE  landed' \subseteq Listed(snapshot'[b]) \union missed'[b] \union overwritten'
        BY DEF SnapshotsAccount
      <3>1. b # a /\ Pending(b)
        BY <2>1 DEF Pending, TypeOK
      <3>2. missed'[b] = missed[b] \union {entry[a]}
        BY <2>1, <3>1 DEF Pending
      <3> QED
        BY <2>1, <3>1, <3>2, <1>4 DEF SnapshotsAccount
    <2>8. OrderInv'
      <3>1. Increasing(Written(a)) /\ \A i \in DOMAIN Written(a) : Written(a)[i].id <= clock
        <4>1. Increasing(Written(a))
          BY <2>2, AppendIncreasing DEF OrderInv, Written
        <4>2. entry[a].id <= clock /\ \A i \in DOMAIN snapshot[a] : snapshot[a][i].id < entry[a].id
          BY <2>2 DEF OrderInv
        <4>3. \A i \in DOMAIN snapshot[a] : snapshot[a][i].id \in Nat
          BY <2>2, EntryFields
        <4>4. entry[a].id \in Nat /\ clock \in Nat
          BY <2>2 DEF Entry, TypeOK
        <4>5. \A i \in DOMAIN Written(a) :
                (i \in DOMAIN snapshot[a] /\ Written(a)[i] = snapshot[a][i]) \/ Written(a)[i] = entry[a]
          BY <2>2 DEF Written
        <4> QED
          BY <4>1, <4>2, <4>3, <4>4, <4>5
      <3>2. \A b \in Appenders : Pending(b)' => Pending(b)
        BY <2>1 DEF Pending, TypeOK
      <3> QED
        BY <2>1, <2>3, <3>1, <3>2 DEF OrderInv, InOrder
    <2>9. AnnouncedWasWritten' /\ PastUpdate'
      BY <2>1, <2>2 DEF AnnouncedWasWritten, PastUpdate, TypeOK
    <2> QED BY <2>5, <2>6, <2>7, <2>8, <2>9
  <1>5. ASSUME NEW a \in Appenders, Update(a), ~ alive PROVE ConversationInv'
    <2>1. TypeOK'
      BY <1>5 DEF Update, TypeOK, Goto, historyVars, Holds
    <2>2. Others
      BY <1>5 DEF Update, TypeOK, Goto, Answer, rowVars, historyVars, Pending,
         LostOnlyToOverlap, SnapshotsAccount, OrderInv, InOrder, AnnouncedWasWritten, PastUpdate, Entries
    <2> QED BY <2>1, <2>2
  <1>6. ASSUME NEW a \in Appenders, Publish(a) PROVE ConversationInv'
    <2>1. TypeOK'
      BY <1>6 DEF Publish, TypeOK, Goto, rowVars, historyVars, Holds
    <2>2. LostOnlyToOverlap' /\ SnapshotsAccount' /\ OrderInv'
      BY <1>6 DEF Publish, TypeOK, Goto, rowVars, historyVars, Pending,
         LostOnlyToOverlap, SnapshotsAccount, OrderInv, InOrder, Entries
    <2>3. AnnouncedWasWritten' /\ PastUpdate'
      BY <1>6 DEF Publish, TypeOK, Goto, rowVars, historyVars, AnnouncedWasWritten, PastUpdate
    <2> QED BY <2>1, <2>2, <2>3
  <1>7. ASSUME NEW v \in {<<>>, NotAList}, PutField(v) PROVE ConversationInv'
    <2>1. Entries(field)' = <<>> /\ Entries(field) \in Seq(Entry)
      BY <1>7, EntriesTyped DEF PutField, Entries
    <2>2. Listed(Entries(field)) \subseteq Entry
      BY <2>1 DEF Listed
    <2>3. TypeOK'
      <3>1. field' \in Seq(Entry) \union {NotAList} /\ overwritten' \subseteq Entry
        <4>1. v \in Seq(Entry) \union {NotAList} /\ field' = v
          <5>1. <<>> \in Seq(Entry)
            OBVIOUS
          <5> QED BY <1>7, <5>1 DEF PutField
        <4>2. overwritten' = overwritten \union Listed(Entries(field)) /\ overwritten \subseteq Entry
          BY <1>7 DEF PutField, TypeOK
        <4> QED BY <4>1, <4>2, <2>2
      <3> QED BY <1>7, <3>1 DEF PutField, TypeOK, requestVars, Holds
    <2>4. LostOnlyToOverlap' /\ SnapshotsAccount'
      BY <1>7 DEF PutField, requestVars, LostOnlyToOverlap, SnapshotsAccount, Pending
    <2>5. OrderInv'
      BY <1>7, <2>1 DEF PutField, requestVars, OrderInv, InOrder, Increasing, Pending
    <2>6. AnnouncedWasWritten' /\ PastUpdate'
      BY <1>7 DEF PutField, requestVars, AnnouncedWasWritten, PastUpdate
    <2> QED BY <2>3, <2>4, <2>5, <2>6
  <1>8. ASSUME DeleteParent PROVE ConversationInv'
    <2>1. TypeOK'
      BY <1>8 DEF DeleteParent, TypeOK, requestVars, historyVars, Holds
    <2>2. Others
      BY <1>8 DEF DeleteParent, requestVars, historyVars, Pending, LostOnlyToOverlap,
         SnapshotsAccount, OrderInv, InOrder, AnnouncedWasWritten, PastUpdate, Entries
    <2> QED BY <2>1, <2>2
  <1>9. ASSUME UNCHANGED vars PROVE ConversationInv'
    BY <1>9 DEF vars, rowVars, requestVars, historyVars, TypeOK, Holds, Pending, LostOnlyToOverlap,
       SnapshotsAccount, OrderInv, InOrder, AnnouncedWasWritten, PastUpdate, Entries
  <1> QED
    BY <1>1, <1>2, <1>3, <1>4, <1>5, <1>6, <1>7, <1>8, <1>9 DEF Next, Step

-----------------------------------------------------------------------------
(* Entries, snapshots, histories and answers agree in every state.         *)
THEOREM ConversationCorrect == Spec => []ConversationInv
  <1> QED BY InitInv, StepInv, PTL DEF Spec

(* An append that no other writer overlaps is never lost.                  *)
THEOREM AppendsKept == Spec => []LostOnlyToOverlap
  <1>1. ConversationInv => LostOnlyToOverlap
    BY DEF ConversationInv
  <1> QED BY ConversationCorrect, <1>1, PTL

(* A conversation reads in the order its entries were made.                *)
THEOREM EntriesInOrder == Spec => []InOrder
  <1>1. ConversationInv => InOrder
    BY DEF ConversationInv, OrderInv
  <1> QED BY ConversationCorrect, <1>1, PTL

(* What is announced and answered has been written.                        *)
THEOREM AnnouncementsTrue == Spec => []AnnouncedWasWritten
  <1>1. ConversationInv => AnnouncedWasWritten
    BY DEF ConversationInv
  <1> QED BY ConversationCorrect, <1>1, PTL

-----------------------------------------------------------------------------
(* Induction up to N, over a set.                                          *)
LEMMA UpTo ==
    ASSUME NEW N \in Nat, NEW T, 0 \in T, \A n \in 1 .. N : n - 1 \in T => n \in T
    PROVE  0 .. N \subseteq T
<1> DEFINE Less == {p \in Nat \X Nat : p[1] < p[2]}
           Out  == (0 .. N) \ T
<1>1. IsWellFoundedOn(Less, Nat)
  BY NatLessThanWellFounded DEF OpToRel
<1>2. \A m, n \in Nat : <<m, n>> \notin Less => n <= m
  BY SMT
<1>3. SUFFICES ASSUME Out # {} PROVE FALSE
  OBVIOUS
<1>4. Out \subseteq Nat
  OBVIOUS
<1>5. PICK n \in Out : \A m \in Out : n <= m
  <2> HIDE DEF Less, Out
  <2>1. PICK n \in Out : \A m \in Out : <<m, n>> \notin Less
    BY <1>1, <1>3, <1>4, WFMin
  <2> QED BY <1>2, <1>4, <2>1
<1>6. n \in 1 .. N /\ n - 1 \in 0 .. N
  OBVIOUS
<1> QED BY <1>5, <1>6

(* A recursion over 1 .. N whose step is a function on a set A has a        *)
(* solution.                                                               *)
Steps(N, A) == [(1 .. N) \X A -> A]

LEMMA Recursion ==
    ASSUME NEW N \in Nat, NEW A, NEW base \in A, NEW step \in Steps(N, A)
    PROVE  \E f \in [0 .. N -> A] : f[0] = base /\ \A n \in 1 .. N : f[n] = step[<<n, f[n - 1]>>]
<1> USE DEF Steps
<1> DEFINE Upto(n, g) == /\ g \in [0 .. n -> A] /\ g[0] = base
                         /\ \A m \in 1 .. n : g[m] = step[<<m, g[m - 1]>>]
           T == {n \in 0 .. N : \E g : Upto(n, g)}
<1>1. 0 \in T
  <2>1. Upto(0, [m \in 0 .. 0 |-> base])
    OBVIOUS
  <2> HIDE DEF Upto
  <2> QED BY <2>1
<1>2. ASSUME NEW n \in 1 .. N, n - 1 \in T PROVE n \in T
  <2>1. PICK g : Upto(n - 1, g)
    BY <1>2
  <2> DEFINE h == [m \in 0 .. n |-> IF m = n THEN step[<<n, g[n - 1]>>] ELSE g[m]]
  <2>2. /\ h[0] = base /\ h[n] = step[<<n, g[n - 1]>>] /\ \A m \in 0 .. n - 1 : h[m] = g[m]
    BY <2>1
  <2>3. step[<<n, g[n - 1]>>] \in A
    BY <2>1
  <2>4. h \in [0 .. n -> A]
    BY <2>1, <2>3
  <2>5. ASSUME NEW m \in 1 .. n PROVE h[m] = step[<<m, h[m - 1]>>]
    <3>1. m - 1 \in 0 .. n - 1 /\ h[m - 1] = g[m - 1]
      BY <2>2, <2>5
    <3> HIDE DEF h
    <3>2. CASE m = n
      BY <2>2, <3>1, <3>2
    <3>3. CASE m # n
      <4>1. m \in 1 .. n - 1 /\ m \in 0 .. n - 1
        BY <2>5, <3>3
      <4> QED BY <2>1, <2>2, <3>1, <4>1
    <3> QED BY <3>2, <3>3
  <2>6. Upto(n, h)
    <3> HIDE DEF h
    <3> QED BY <2>2, <2>4, <2>5
  <2> HIDE DEF Upto
  <2> QED BY <2>6
<1>3. N \in T
  <2> HIDE DEF T
  <2> QED BY <1>1, <1>2, UpTo
<1>4. PICK g : Upto(N, g)
  BY <1>3
<1> QED BY <1>4

-----------------------------------------------------------------------------
(* The second pass of the translation: what it carries from entry to entry,*)
(* and that the recursion that defines it is one.                          *)
Calls(entries) == {entries[i].payload.call : i \in DOMAIN entries}
SayableBy(entries) == {[type |-> BlockType(entries[i].payload.kind), call |-> entries[i].payload.call, of |-> entries[i].id] : i \in DOMAIN entries}
Messages(B) == [role : {"user", "assistant"}, content : Seq(B)]
Accs(entries) == [failed : BOOLEAN, seen : SUBSET Calls(entries),
                  messages : Seq(Messages(SayableBy(entries)))]


LEMMA MergedTyped ==
    ASSUME NEW B, NEW ms \in Seq(Messages(B)), NEW e, Blocks(e) \in Seq(B)
    PROVE  Merged(ms, e) \in Seq(Messages(B))
<1> DEFINE role == EntryRole(e.payload.kind)
           k == Len(ms)
<1>1. role \in {"user", "assistant"}
  BY DEF EntryRole
<1>2. CASE ms # <<>> /\ Last(ms).role = role
  <2>1. k \in DOMAIN ms /\ ms[k] \in Messages(B)
    BY <1>2
  <2>2. ms[k].content \o Blocks(e) \in Seq(B)
    BY <2>1 DEF Messages
  <2>3. [ms[k] EXCEPT !.content = @ \o Blocks(e)] \in Messages(B)
    BY <2>1, <2>2 DEF Messages
  <2>4. Merged(ms, e) = [ms EXCEPT ![k] = [ms[k] EXCEPT !.content = @ \o Blocks(e)]]
    BY <1>2 DEF Merged
  <2> QED BY <2>1, <2>3, <2>4
<1>3. CASE ~ (ms # <<>> /\ Last(ms).role = role)
  <2>1. [role |-> role, content |-> Blocks(e)] \in Messages(B)
    BY <1>1 DEF Messages
  <2>2. Merged(ms, e) = Append(ms, [role |-> role, content |-> Blocks(e)])
    BY <1>3 DEF Merged
  <2> HIDE DEF role
  <2> QED BY <2>1, <2>2
<1> QED BY <1>2, <1>3

LEMMA TakeTyped ==
    ASSUME NEW S, NEW entries \in Seq(S), NEW n \in 1 .. Len(entries), NEW acc \in Accs(entries)
    PROVE  Take(acc, entries[n], MatchedCalls(entries)) \in Accs(entries)
<1> DEFINE e == entries[n]
<1>1. n \in DOMAIN entries
  OBVIOUS
<1>2. Blocks(e) \in Seq(SayableBy(entries)) /\ EntryRole(e.payload.kind) \in {"user", "assistant"}
  BY <1>1 DEF Blocks, SayableBy, EntryRole
<1>3. e.payload.call \in Calls(entries)
  BY <1>1 DEF Calls
<1>4. /\ acc.messages \in Seq(Messages(SayableBy(entries))) /\ acc.seen \in SUBSET Calls(entries) /\ acc.failed \in BOOLEAN
      /\ acc = [failed |-> acc.failed, seen |-> acc.seen, messages |-> acc.messages]
  BY DEF Accs
<1> HIDE DEF e
<1>5. Merged(acc.messages, e) \in Seq(Messages(SayableBy(entries)))
  BY <1>2, <1>4, MergedTyped
<1>6. Seen(acc.seen, e) \in SUBSET Calls(entries)
  BY <1>3, <1>4 DEF Seen
<1>7. [acc EXCEPT !.failed = TRUE] \in Accs(entries)
  BY DEF Accs
<1>8. [failed |-> FALSE, seen |-> Seen(acc.seen, e), messages |-> Merged(acc.messages, e)] \in Accs(entries)
  BY <1>5, <1>6 DEF Accs
<1> QED BY <1>7, <1>8 DEF Take, e

LEMMA PassIs ==
    ASSUME NEW S, NEW entries \in Seq(S)
    PROVE  /\ Pass(entries) \in [0 .. Len(entries) -> Accs(entries)]
           /\ Pass(entries)[0] = Start
           /\ \A n \in 1 .. Len(entries) :
                 Pass(entries)[n] = Take(Pass(entries)[n - 1], entries[n], MatchedCalls(entries))
<1> DEFINE N == Len(entries)
           A == Accs(entries)
           matched == MatchedCalls(entries)
           step == [p \in (1 .. N) \X A |-> Take(p[2], entries[p[1]], matched)]
           Solves(f) == f = [n \in 0 .. N |-> IF n = 0 THEN Start ELSE Take(f[n - 1], entries[n], matched)]
<1>1. N \in Nat
  OBVIOUS
<1>2. Start \in A
  BY DEF Start, Accs
<1>3. step \in Steps(N, A)
  BY TakeTyped DEF Steps
<1>4. \A n \in 1 .. N, acc \in A : step[<<n, acc>>] = Take(acc, entries[n], matched)
  OBVIOUS
<1> HIDE DEF N, A, matched, step
<1>5. PICK f \in [0 .. N -> A] : f[0] = Start /\ \A n \in 1 .. N : f[n] = step[<<n, f[n - 1]>>]
  BY <1>1, <1>2, <1>3, Recursion
<1>6. Solves(f)
  <2>1. ASSUME NEW n \in 0 .. N
        PROVE  f[n] = IF n = 0 THEN Start ELSE Take(f[n - 1], entries[n], matched)
    <3>1. CASE n = 0
      BY <1>5, <3>1
    <3>2. CASE n # 0
      <4>1. n \in 1 .. N /\ f[n - 1] \in A
        BY <1>1, <1>5, <2>1, <3>2
      <4> QED BY <1>4, <1>5, <3>2, <4>1
    <3> QED BY <3>1, <3>2
  <2> QED BY <1>5, <2>1
<1>7. Solves(Pass(entries))
  <2>1. Pass(entries) = CHOOSE g : Solves(g)
    BY DEF Pass, N, matched
  <2> HIDE DEF Solves
  <2> QED BY <1>6, <2>1
<1>8. Pass(entries)[0] = Start /\ \A n \in 1 .. N : Pass(entries)[n] = Take(Pass(entries)[n - 1], entries[n], matched)
  BY <1>1, <1>7
<1> DEFINE T == {n \in 0 .. N : Pass(entries)[n] \in A}
<1>9. 0 \in T /\ \A n \in 1 .. N : n - 1 \in T => n \in T
  BY <1>1, <1>2, <1>8, TakeTyped DEF N, A, matched
<1>10. 0 .. N \subseteq T
  <2> HIDE DEF T
  <2> QED BY <1>1, <1>9, UpTo
<1>11. Pass(entries) = [n \in 0 .. N |-> Pass(entries)[n]]
  BY <1>7
<1> QED BY <1>8, <1>10, <1>11 DEF N, A, matched

(* materialize_to_anthropic raises on a result that no earlier call        *)
(* explains, and on nothing else.                                          *)
THEOREM FailsOnlyOnOrphans ==
    ASSUME NEW S, NEW entries \in Seq(S), NEW K, NEW C,
           \A i \in DOMAIN entries : entries[i].payload \in [kind : K, call : C]
    PROVE  FailsOnOrphanResult(entries)
<1> DEFINE N == Len(entries)
           P == Pass(entries)
           matched == MatchedCalls(entries)
           kind(i) == entries[i].payload.kind
           call(i) == entries[i].payload.call
           Orphan(i) == kind(i) = "tool_result" /\
                (call(i) = NoCall \/ \A j \in 1 .. i - 1 : ~ (kind(j) = "tool_call" /\ call(j) = call(i)))
           J(n) == /\ P[n].failed <=> \E i \in 1 .. n : Orphan(i)
                   /\ ~ P[n].failed => \A c \in matched :
                         c \in P[n].seen <=> \E j \in 1 .. n : kind(j) = "tool_call" /\ call(j) = c
           T == {n \in 0 .. N : J(n)}
<1>1. N \in Nat /\ DOMAIN entries = 1 .. N
  OBVIOUS
<1>2. /\ \A n \in 0 .. N : P[n].failed \in BOOLEAN
      /\ P[0] = Start
      /\ \A n \in 1 .. N : P[n] = Take(P[n - 1], entries[n], matched)
  BY PassIs DEF Accs
<1>3. \A c \in matched : c # NoCall
  BY DEF MatchedCalls
<1>4. \A i \in 1 .. N : kind(i) = "tool_result" /\ call(i) # NoCall => call(i) \in matched
  BY <1>1 DEF MatchedCalls
<1> HIDE DEF N, P, matched
<1>5. 0 \in T
  <2>1. J(0)
    BY <1>2 DEF Start
  <2> QED BY <1>1, <2>1
<1>6. ASSUME NEW n \in 1 .. N, J(n - 1) PROVE J(n)
  <2> DEFINE acc == P[n - 1]
             e == entries[n]
  <2>1. P[n] = Take(acc, e, matched) /\ acc.failed \in BOOLEAN
    BY <1>1, <1>2
  <2>2. /\ n - 1 \in Nat /\ 1 .. n = (1 .. n - 1) \union {n}
        /\ e.payload.kind = kind(n) /\ e.payload.call = call(n)
    BY <1>1
  <2>3. \A c \in matched : (\E j \in 1 .. n : kind(j) = "tool_call" /\ call(j) = c) <=>
           \/ \E j \in 1 .. n - 1 : kind(j) = "tool_call" /\ call(j) = c
           \/ kind(n) = "tool_call" /\ call(n) = c
    BY <2>2
  <2>4. (\E i \in 1 .. n : Orphan(i)) <=> (\E i \in 1 .. n - 1 : Orphan(i)) \/ Orphan(n)
    <3> HIDE DEF Orphan
    <3> QED BY <2>2
  <2> HIDE DEF acc, e, J, Orphan
  <2>5. CASE acc.failed
    <3>1. P[n] = acc
      BY <2>1, <2>5 DEF Take
    <3> QED BY <1>6, <2>4, <2>5, <3>1 DEF J, acc
  <2>6. CASE ~ acc.failed /\ OrphanCall(e, matched)
    <3>1. P[n] = acc
      BY <2>1, <2>6 DEF Take
    <3>2. kind(n) = "tool_call" /\ call(n) \notin matched
      BY <2>2, <2>6 DEF OrphanCall
    <3> QED BY <1>6, <2>3, <2>4, <2>6, <3>1, <3>2 DEF J, acc, Orphan
  <2>7. CASE ~ acc.failed /\ ~ OrphanCall(e, matched) /\ UnknownResult(e, acc.seen)
    <3>1. P[n].failed
      BY <1>2, <2>1, <2>7, PassIs DEF Take, Accs
    <3>2. Orphan(n)
      <4>1. kind(n) = "tool_result" /\ (call(n) = NoCall \/ call(n) \notin acc.seen)
        BY <2>2, <2>7 DEF UnknownResult
      <4>2. CASE call(n) # NoCall
        <5>1. call(n) \in matched
          BY <1>4, <4>1, <4>2
        <5>2. ~ \E j \in 1 .. n - 1 : kind(j) = "tool_call" /\ call(j) = call(n)
          BY <1>6, <2>7, <4>1, <4>2, <5>1 DEF J, acc
        <5> QED BY <4>1, <5>2 DEF Orphan
      <4> QED BY <4>1, <4>2 DEF Orphan
    <3> QED BY <2>4, <3>1, <3>2 DEF J
  <2>8. CASE ~ acc.failed /\ ~ OrphanCall(e, matched) /\ ~ UnknownResult(e, acc.seen)
    <3>1. P[n].failed = FALSE /\ P[n].seen = Seen(acc.seen, e)
      BY <2>1, <2>8 DEF Take
    <3>2. ~ Orphan(n)
      <4>1. SUFFICES ASSUME kind(n) = "tool_result" 
                     PROVE call(n) # NoCall /\ \E j \in 1 .. n - 1 : kind(j) = "tool_call" /\ call(j) = call(n)
        BY DEF Orphan
      <4>2. call(n) # NoCall /\ call(n) \in acc.seen
        BY <2>2, <2>8, <4>1 DEF UnknownResult
      <4>3. call(n) \in matched
        BY <1>4, <4>1, <4>2
      <4> QED BY <1>6, <2>8, <4>2, <4>3 DEF J, acc
    <3>3. \A c \in matched : c \in P[n].seen <=> c \in acc.seen \/ (kind(n) = "tool_call" /\ call(n) = c)
      BY <1>3, <2>2, <3>1 DEF Seen
    <3> QED BY <1>6, <2>3, <2>4, <2>8, <3>1, <3>2, <3>3 DEF J, acc
  <2> QED BY <2>1, <2>5, <2>6, <2>7, <2>8
<1>7. 0 .. N \subseteq T
  <2>1. ASSUME NEW n \in 1 .. N, n - 1 \in T PROVE n \in T
    <3> HIDE DEF J
    <3> QED BY <1>6, <2>1
  <2> HIDE DEF T
  <2> QED BY <1>1, <1>5, <2>1, UpTo
<1>8. J(N)
  <2> HIDE DEF J
  <2> QED BY <1>1, <1>7
<1>9. \A i \in DOMAIN entries : \A j \in 1 .. i - 1 :
          entries[j].payload = [kind |-> "tool_call", call |-> call(i)] <=> kind(j) = "tool_call" /\ call(j) = call(i)
  BY <1>1
<1>10. Materialized(entries) = P[N]
  BY DEF Materialized, P, N
<1>11. \A i \in 1 .. N : Orphan(i) <=>
          /\ entries[i].payload.kind = "tool_result"
          /\ entries[i].payload.call = NoCall \/
             ~ \E j \in 1 .. i - 1 : entries[j].payload = [kind |-> "tool_call", call |-> entries[i].payload.call]
  BY <1>1, <1>9
<1> HIDE DEF Orphan
<1> QED BY <1>1, <1>8, <1>10, <1>11 DEF FailsOnOrphanResult

-----------------------------------------------------------------------------
(* Roles.                                                                  *)
Alternating(ms) == \A i \in 1 .. Len(ms) - 1 : ms[i].role # ms[i + 1].role

LEMMA MergedAlternates ==
    ASSUME NEW B, NEW ms \in Seq(Messages(B)), NEW e, Blocks(e) \in Seq(B), Alternating(ms)
    PROVE  Alternating(Merged(ms, e))
<1> DEFINE role == EntryRole(e.payload.kind)
           k == Len(ms)
           new == Merged(ms, e)
<1>1. k \in Nat /\ \A i \in 1 .. k : ms[i] \in Messages(B)
  OBVIOUS
<1>2. CASE ms # <<>> /\ Last(ms).role = role
  <2>1. k \in DOMAIN ms /\ ms[k] \in Messages(B)
    BY <1>2
  <2>2. new = [ms EXCEPT ![k] = [ms[k] EXCEPT !.content = @ \o Blocks(e)]]
    BY <1>2 DEF Merged
  <2>3. [ms[k] EXCEPT !.content = @ \o Blocks(e)].role = ms[k].role
    BY <2>1 DEF Messages
  <2> HIDE DEF new
  <2>4. Len(new) = k /\ \A i \in 1 .. k : new[i].role = ms[i].role
    BY <2>2, <2>3
  <2>5. Alternating(new)
    BY <1>1, <2>4 DEF Alternating
  <2> QED BY <2>5 DEF new
<1>3. CASE ~ (ms # <<>> /\ Last(ms).role = role)
  <2> DEFINE m == [role |-> role, content |-> Blocks(e)]
  <2>1. new = Append(ms, m)
    BY <1>3 DEF Merged
  <2>2. m.role = role
    OBVIOUS
  <2> HIDE DEF new, m, role
  <2>3. Len(new) = k + 1 /\ new[k + 1] = m /\ \A i \in 1 .. k : new[i] = ms[i]
    BY <2>1
  <2>4. k # 0 => ms[k].role # role
    BY <1>3 DEF Last
  <2>5. ASSUME NEW i \in 1 .. k PROVE new[i].role # new[i + 1].role
    <3>1. CASE i = k
      BY <1>1, <2>2, <2>3, <2>4, <3>1
    <3>2. CASE i # k
      <4>1. i \in 1 .. k - 1 /\ i + 1 \in 1 .. k
        BY <1>1, <3>2
      <4> QED BY <2>3, <4>1 DEF Alternating
    <3> QED BY <3>1, <3>2
  <2>6. Alternating(new)
    BY <1>1, <2>3, <2>5 DEF Alternating
  <2> QED BY <2>6 DEF new
<1> QED BY <1>2, <1>3

(* The messages alternate between the roles, as the provider demands.      *)
THEOREM RolesAlternate ==
    ASSUME NEW S, NEW entries \in Seq(S)
    PROVE  Alternates(entries)
<1> DEFINE N == Len(entries)
           P == Pass(entries)
           matched == MatchedCalls(entries)
           T == {n \in 0 .. N : Alternating(P[n].messages)}
<1>1. /\ N \in Nat /\ P[0] = Start
      /\ \A n \in 0 .. N : P[n] \in Accs(entries)
      /\ \A n \in 1 .. N : P[n] = Take(P[n - 1], entries[n], matched)
  BY PassIs
<1>2. 0 \in T
  BY <1>1 DEF Start, Alternating
<1>3. ASSUME NEW n \in 1 .. N, Alternating(P[n - 1].messages) PROVE Alternating(P[n].messages)
  <2> DEFINE acc == P[n - 1]
             e == entries[n]
  <2>1. P[n] = Take(acc, e, matched) /\ acc \in Accs(entries)
    BY <1>1
  <2>2. acc.messages \in Seq(Messages(SayableBy(entries)))
    BY <2>1 DEF Accs
  <2>3. Blocks(e) \in Seq(SayableBy(entries))
    <3>1. n \in DOMAIN entries
      OBVIOUS
    <3> QED BY <3>1 DEF Blocks, SayableBy
  <2>4. [acc EXCEPT !.failed = TRUE].messages = acc.messages
    BY <2>1 DEF Accs
  <2> HIDE DEF acc, e, P, matched
  <2>5. P[n].messages = acc.messages \/ P[n].messages = Merged(acc.messages, e)
    BY <2>1, <2>4 DEF Take
  <2>6. Alternating(Merged(acc.messages, e))
    BY <1>3, <2>2, <2>3, MergedAlternates DEF acc
  <2> QED BY <1>3, <2>5, <2>6 DEF acc
<1>4. 0 .. N \subseteq T
  <2>1. ASSUME NEW n \in 1 .. N, n - 1 \in T PROVE n \in T
    <3> HIDE DEF P, N
    <3> QED BY <1>3, <2>1
  <2> HIDE DEF T
  <2> QED BY <1>1, <1>2, <2>1, UpTo
<1>5. Alternating(P[N].messages)
  <2> HIDE DEF P
  <2> QED BY <1>1, <1>4
<1> QED BY <1>5 DEF Alternates, Alternating, Materialized

-----------------------------------------------------------------------------
(* What the sequences of a list say one after the other, up to each.       *)
Flat(B, ss, f) ==
    /\ f \in [0 .. Len(ss) -> Seq(B)] /\ f[0] = <<>>
    /\ \A i \in 1 .. Len(ss) : f[i] = f[i - 1] \o ss[i]

LEMMA FlattenIs ==
    ASSUME NEW B, NEW ss \in Seq(Seq(B))
    PROVE  \E f : Flat(B, ss, f) /\ FlattenSeq(ss) = f[Len(ss)]
<1> DEFINE N == Len(ss)
           A == Seq(B)
           step == [p \in (1 .. N) \X A |-> p[2] \o ss[p[1]]]
           Solves(f) == f = [i \in 1 .. N |-> IF i = 1 THEN ss[i] ELSE f[i - 1] \o ss[i]]
<1>1. N \in Nat /\ <<>> \in A /\ \A i \in 1 .. N : ss[i] \in A
  OBVIOUS
<1>2. step \in Steps(N, A)
  BY <1>1 DEF Steps
<1>3. \A n \in 1 .. N, a \in A : step[<<n, a>>] = a \o ss[n]
  OBVIOUS
<1> HIDE DEF N, A, step
<1>4. PICK f \in [0 .. N -> A] : f[0] = <<>> /\ \A n \in 1 .. N : f[n] = step[<<n, f[n - 1]>>]
  <2> DEFINE base == <<>>
  <2>1. base \in A
    BY <1>1
  <2>0. N \in Nat
    BY <1>1
  <2> HIDE DEF base
  <2>2. \E f \in [0 .. N -> A] : f[0] = base /\ \A n \in 1 .. N : f[n] = step[<<n, f[n - 1]>>]
    BY <2>0, <1>2, <2>1, Recursion
  <2> QED BY <2>2 DEF base
<1>5. \A n \in 1 .. N : f[n] = f[n - 1] \o ss[n]
  <2>1. SUFFICES ASSUME NEW n \in 1 .. N PROVE f[n] = f[n - 1] \o ss[n]
    OBVIOUS
  <2>2. f[n - 1] \in A
    BY <1>1, <1>4
  <2> QED BY <1>3, <1>4, <2>2
<1>6. Flat(B, ss, f)
  BY <1>4, <1>5 DEF Flat, N, A
<1>9. 1 \in 1 .. N => f[1] = ss[1]
  <2>1. SUFFICES ASSUME 1 \in 1 .. N PROVE f[1] = ss[1]
    OBVIOUS
  <2>2. f[1] = f[1 - 1] \o ss[1]
    BY <1>5, <2>1
  <2>3. 1 - 1 = 0
    OBVIOUS
  <2>4. f[1] = <<>> \o ss[1]
    BY <1>4, <2>2, <2>3
  <2>5. ss[1] \in Seq(B)
    BY <1>1, <2>1 DEF A
  <2> QED BY <2>4, <2>5, ConcatEmptySeq
<1>7. CASE N = 0
  BY <1>4, <1>6, <1>7 DEF FlattenSeq, N
<1>8. CASE N # 0
  <2> DEFINE g == [i \in 1 .. N |-> f[i]]
             flatten == CHOOSE h : Solves(h)
  <2>1. Solves(g)
    <3>1. f[1] = ss[1]
      BY <1>1, <1>8, <1>9
    <3>2. ASSUME NEW i \in 1 .. N PROVE g[i] = IF i = 1 THEN ss[i] ELSE g[i - 1] \o ss[i]
      <4>1. i # 1 => i - 1 \in 1 .. N
        BY <1>1, <3>2
      <4> QED BY <1>5, <3>1, <3>2, <4>1
    <3> QED BY <3>2
  <2>2. Solves(flatten)
    <3> HIDE DEF Solves, g
    <3> QED BY <2>1
  <2>3. \A i \in 1 .. N : flatten[i] = IF i = 1 THEN ss[i] ELSE flatten[i - 1] \o ss[i]
    BY <2>2
  <2> HIDE DEF flatten
  <2> DEFINE T == {n \in 0 .. N : n = 0 \/ flatten[n] = f[n]}
  <2>4. ASSUME NEW n \in 1 .. N, n - 1 \in T PROVE n \in T
    <3>1. CASE n = 1
      BY <1>9, <2>3, <3>1
    <3>2. CASE n # 1
      <4>1. n - 1 # 0 /\ flatten[n - 1] = f[n - 1]
        BY <1>1, <2>4, <3>2
      <4>2. flatten[n] = flatten[n - 1] \o ss[n]
        BY <2>3, <3>2
      <4>3. flatten[n] = f[n]
        BY <1>5, <4>1, <4>2
      <4> QED BY <4>3
    <3> QED BY <3>1, <3>2
  <2>5. 0 .. N \subseteq T
    <3>1. 0 \in T
      BY <1>1
    <3> HIDE DEF T
    <3> QED BY <1>1, <2>4, <3>1, UpTo
  <2>6. flatten[N] = f[N]
    BY <1>1, <1>8, <2>5
  <2>7. FlattenSeq(ss) = flatten[N]
    BY <1>8 DEF FlattenSeq, flatten, N
  <2> QED BY <1>6, <2>6, <2>7 DEF N
<1> QED BY <1>7, <1>8

(* Lists that agree on a prefix say the same up to there.                  *)
Agree(ss, tt, k) ==
    /\ k \in Nat /\ Len(ss) \in Nat /\ Len(tt) \in Nat /\ k <= Len(ss) /\ k <= Len(tt)
    /\ \A i \in 1 .. k : ss[i] = tt[i]

LEMMA FlatAgrees ==
    ASSUME NEW B, NEW ss, NEW tt, NEW f, NEW g, Flat(B, ss, f), Flat(B, tt, g),
           NEW k, Agree(ss, tt, k)
    PROVE  f[k] = g[k]
<1> DEFINE T == {n \in 0 .. k : f[n] = g[n]}
<1>0. k \in Nat
  BY DEF Agree
<1>1. 0 \in T
  BY <1>0 DEF Flat
<1>2. ASSUME NEW n \in 1 .. k, n - 1 \in T PROVE n \in T
  <2>1. n \in 1 .. Len(ss) /\ n \in 1 .. Len(tt) /\ ss[n] = tt[n]
    BY <1>2 DEF Agree
  <2>2. f[n] = f[n - 1] \o ss[n]
    BY <2>1 DEF Flat
  <2>3. g[n] = g[n - 1] \o tt[n]
    BY <2>1 DEF Flat
  <2>4. f[n - 1] = g[n - 1]
    BY <1>2
  <2>5. f[n] = g[n]
    BY <2>1, <2>2, <2>3, <2>4
  <2> QED BY <2>5
<1>3. 0 .. k \subseteq T
  <2> HIDE DEF T
  <2> QED BY <1>0, <1>1, <1>2, UpTo
<1> QED BY <1>0, <1>3

LEMMA FlattenTyped ==
    ASSUME NEW B, NEW ss \in Seq(Seq(B))
    PROVE  FlattenSeq(ss) \in Seq(B) /\ (Len(ss) = 0 => FlattenSeq(ss) = <<>>)
<1>1. PICK f : Flat(B, ss, f) /\ FlattenSeq(ss) = f[Len(ss)]
  BY FlattenIs
<1>2. Len(ss) \in 0 .. Len(ss)
  OBVIOUS
<1> QED BY <1>1, <1>2 DEF Flat

(* One more sequence, and more said in the last one.                       *)
LEMMA FlattenAppend ==
    ASSUME NEW B, NEW ss \in Seq(Seq(B)), NEW s \in Seq(B)
    PROVE  FlattenSeq(Append(ss, s)) = FlattenSeq(ss) \o s
<1> DEFINE tt == Append(ss, s)
           k == Len(ss)
<1>1. /\ k \in Nat /\ tt \in Seq(Seq(B)) /\ Len(tt) = k + 1 /\ tt[k + 1] = s
      /\ \A i \in 1 .. k : ss[i] = tt[i]
  OBVIOUS
<1> HIDE DEF tt, k
<1>2. PICK f : Flat(B, ss, f) /\ FlattenSeq(ss) = f[k]
  BY FlattenIs DEF k
<1>3. PICK g : Flat(B, tt, g) /\ FlattenSeq(tt) = g[k + 1]
  BY <1>1, FlattenIs
<1>4. Agree(ss, tt, k)
  BY <1>1 DEF Agree, k
<1>5. f[k] = g[k]
  BY <1>2, <1>3, <1>4, FlatAgrees
<1>6. k + 1 \in 1 .. Len(tt) /\ (k + 1) - 1 = k
  BY <1>1
<1>7. g[k + 1] = g[k] \o tt[k + 1]
  BY <1>3, <1>6 DEF Flat
<1>8. FlattenSeq(tt) = FlattenSeq(ss) \o s
  BY <1>1, <1>2, <1>3, <1>5, <1>7
<1> QED BY <1>8 DEF tt

(* Concatenation is associative.                                           *)
LEMMA Regrouped ==
    ASSUME NEW B, NEW a \in Seq(B), NEW b \in Seq(B), NEW c \in Seq(B)
    PROVE  (a \o b) \o c = a \o (b \o c)
OBVIOUS

LEMMA FlattenExtend ==
    ASSUME NEW B, NEW ss \in Seq(Seq(B)), Len(ss) # 0, NEW s \in Seq(B)
    PROVE  FlattenSeq([ss EXCEPT ![Len(ss)] = @ \o s]) = FlattenSeq(ss) \o s
<1> DEFINE k == Len(ss)
           tt == [ss EXCEPT ![k] = @ \o s]
<1>1. k \in Nat \ {0} /\ ss[k] \in Seq(B) /\ ss[k] \o s \in Seq(B)
  OBVIOUS
<1>2. /\ tt \in Seq(Seq(B)) /\ Len(tt) = k /\ tt[k] = ss[k] \o s
      /\ \A i \in 1 .. k - 1 : ss[i] = tt[i]
  BY <1>1
<1> HIDE DEF tt, k
<1>3. PICK f : Flat(B, ss, f) /\ FlattenSeq(ss) = f[k]
  BY FlattenIs DEF k
<1>4. PICK g : Flat(B, tt, g) /\ FlattenSeq(tt) = g[k]
  BY <1>2, FlattenIs
<1>5. Agree(ss, tt, k - 1)
  BY <1>1, <1>2 DEF Agree, k
<1>6. f[k - 1] = g[k - 1]
  BY <1>3, <1>4, <1>5, FlatAgrees
<1>7. k \in 1 .. Len(ss) /\ k \in 1 .. Len(tt) /\ k - 1 \in 0 .. Len(ss)
  BY <1>1, <1>2 DEF k
<1>8. f[k] = f[k - 1] \o ss[k] /\ f[k - 1] \in Seq(B)
  BY <1>3, <1>7 DEF Flat
<1>9. g[k] = g[k - 1] \o tt[k]
  BY <1>4, <1>7 DEF Flat
<1>10. PICK a \in Seq(B), b \in Seq(B) : a = f[k - 1] /\ b = ss[k]
  BY <1>1, <1>8
<1>11. FlattenSeq(ss) = a \o b
  BY <1>3, <1>8, <1>10
<1>12. FlattenSeq(tt) = a \o (b \o s)
  BY <1>2, <1>4, <1>6, <1>9, <1>10
<1>13. (a \o b) \o s = a \o (b \o s)
  BY Regrouped
<1>14. FlattenSeq(tt) = FlattenSeq(ss) \o s
  BY <1>11, <1>12, <1>13
<1> QED BY <1>14 DEF tt, k

-----------------------------------------------------------------------------
(* What the messages say.                                                  *)
ContentsOf(ms) == [i \in DOMAIN ms |-> ms[i].content]

LEMMA MergedSays ==
    ASSUME NEW B, NEW ms \in Seq(Messages(B)), NEW e, Blocks(e) \in Seq(B)
    PROVE  FlattenSeq(ContentsOf(Merged(ms, e))) = FlattenSeq(ContentsOf(ms)) \o Blocks(e)
<1> DEFINE role == EntryRole(e.payload.kind)
           k == Len(ms)
           new == Merged(ms, e)
           cs == ContentsOf(ms)
           s == Blocks(e)
<1>1. /\ k \in Nat /\ \A i \in 1 .. k : ms[i] \in Messages(B) /\ ms[i].content \in Seq(B)
      /\ DOMAIN ms = 1 .. k
  <2>1. k \in Nat /\ DOMAIN ms = 1 .. k /\ \A i \in 1 .. k : ms[i] \in Messages(B)
    OBVIOUS
  <2> QED BY <2>1 DEF Messages
<1>2. cs \in Seq(Seq(B)) /\ Len(cs) = k /\ DOMAIN cs = 1 .. k /\ \A i \in 1 .. k : cs[i] = ms[i].content
  BY <1>1 DEF ContentsOf
<1>3. CASE ms # <<>> /\ Last(ms).role = role
  <2>1. k \in DOMAIN ms /\ ms[k] \in Messages(B) /\ k # 0
    BY <1>3
  <2>2. new = [ms EXCEPT ![k] = [ms[k] EXCEPT !.content = @ \o s]]
    BY <1>3 DEF Merged
  <2>3. [ms[k] EXCEPT !.content = @ \o s].content = ms[k].content \o s
    BY <2>1 DEF Messages
  <2> HIDE DEF new, s, cs, k
  <2>4. DOMAIN new = 1 .. k /\ new[k].content = cs[k] \o s /\ \A i \in 1 .. k : i # k => new[i] = ms[i]
    BY <1>1, <1>2, <2>1, <2>2, <2>3
  <2>5. ContentsOf(new) = [cs EXCEPT ![k] = @ \o s]
    BY <1>1, <1>2, <2>1, <2>4 DEF ContentsOf
  <2>6. FlattenSeq([cs EXCEPT ![k] = @ \o s]) = FlattenSeq(cs) \o s
    BY <1>2, <2>1, FlattenExtend DEF s
  <2> QED BY <2>5, <2>6 DEF new, s, cs
<1>4. CASE ~ (ms # <<>> /\ Last(ms).role = role)
  <2> DEFINE m == [role |-> role, content |-> s]
  <2>1. new = Append(ms, m)
    BY <1>4 DEF Merged
  <2>2. m.content = s
    OBVIOUS
  <2> HIDE DEF new, s, cs, k, m
  <2>3. /\ DOMAIN new = 1 .. k + 1 /\ new[k + 1] = m /\ \A i \in 1 .. k : new[i] = ms[i]
    BY <2>1 DEF k
  <2>4. ContentsOf(new) = Append(cs, s)
    <3> DEFINE t == Append(cs, s)
    <3>1. /\ t \in Seq(Seq(B)) /\ DOMAIN t = 1 .. k + 1
          /\ t[k + 1] = s /\ \A i \in 1 .. k : t[i] = cs[i]
      BY <1>1, <1>2 DEF s
    <3> HIDE DEF t
    <3>2. \A i \in 1 .. k + 1 : new[i].content = t[i]
      BY <1>1, <1>2, <2>2, <2>3, <3>1
    <3>3. t = [i \in 1 .. k + 1 |-> t[i]]
      BY <3>1
    <3>4. ContentsOf(new) = t
      BY <2>3, <3>2, <3>3 DEF ContentsOf
    <3> QED BY <3>4 DEF t
  <2>5. FlattenSeq(Append(cs, s)) = FlattenSeq(cs) \o s
    BY <1>2, FlattenAppend DEF s
  <2> QED BY <2>4, <2>5 DEF new, s, cs
<1> QED BY <1>3, <1>4

LEMMA ContentsTyped ==
    ASSUME NEW B, NEW ms \in Seq(Messages(B))
    PROVE  FlattenSeq(ContentsOf(ms)) \in Seq(B) /\ (ms = <<>> => FlattenSeq(ContentsOf(ms)) = <<>>)
<1>1. \A i \in DOMAIN ms : ms[i].content \in Seq(B)
  <2>1. \A i \in DOMAIN ms : ms[i] \in Messages(B)
    OBVIOUS
  <2> QED BY <2>1 DEF Messages
<1>2. ContentsOf(ms) \in Seq(Seq(B)) /\ Len(ContentsOf(ms)) = Len(ms)
  BY <1>1 DEF ContentsOf
<1> QED BY <1>2, FlattenTyped

(* Every tool use with an id that reaches the provider is answered, and    *)
(* every result comes after its use, or the translation has failed.        *)
THEOREM ToolUsesAnswered ==
    ASSUME NEW S, NEW entries \in Seq(S)
    PROVE  UsesAnswered(entries)
<1> DEFINE N == Len(entries)
           P == Pass(entries)
           matched == MatchedCalls(entries)
           B == SayableBy(entries)
           kind(i) == entries[i].payload.kind
           call(i) == entries[i].payload.call
           said(n) == FlattenSeq(ContentsOf(P[n].messages))
           UsesMatched(s) == \A u \in DOMAIN s :
                s[u].type = "tool_use" /\ s[u].call # NoCall => s[u].call \in matched
           ResultsFollow(s) == \A r \in DOMAIN s : s[r].type = "tool_result" =>
                s[r].call # NoCall /\ \E u \in 1 .. r - 1 : s[u].type = "tool_use" /\ s[u].call = s[r].call
           ResultsKept(s, n) == \A j \in 1 .. n : kind(j) = "tool_result" =>
                \E r \in DOMAIN s : s[r].type = "tool_result" /\ s[r].call = call(j)
           SeenUsed(s, seen) == \A c \in seen : \E u \in DOMAIN s : s[u].type = "tool_use" /\ s[u].call = c
           K(n) == ~ P[n].failed => /\ UsesMatched(said(n)) /\ ResultsFollow(said(n))
                                    /\ ResultsKept(said(n), n) /\ SeenUsed(said(n), P[n].seen)
           T == {n \in 0 .. N : K(n)}
<1>1. /\ N \in Nat /\ P[0] = Start /\ DOMAIN entries = 1 .. N
      /\ \A n \in 0 .. N : P[n] \in Accs(entries)
      /\ \A n \in 1 .. N : P[n] = Take(P[n - 1], entries[n], matched)
  BY PassIs
<1>2. \A n \in 0 .. N : /\ P[n].messages \in Seq(Messages(B)) /\ P[n].failed \in BOOLEAN
                        /\ said(n) \in Seq(B)
  <2>1. \A n \in 0 .. N : P[n].messages \in Seq(Messages(B)) /\ P[n].failed \in BOOLEAN
    BY <1>1 DEF Accs
  <2> HIDE DEF B
  <2> QED BY <2>1, ContentsTyped
<1>3. K(0)
  <2>1. said(0) = <<>>
    <3>1. P[0].messages = <<>>
      BY <1>1 DEF Start
    <3>2. P[0].messages \in Seq(Messages(B))
      BY <1>1, <1>2
    <3> HIDE DEF P, B
    <3> QED BY <3>1, <3>2, ContentsTyped
  <2>2. P[0].seen = {}
    BY <1>1 DEF Start
  <2> HIDE DEF said, P
  <2> QED BY <2>1, <2>2
<1>4. ASSUME NEW n \in 1 .. N, K(n - 1) PROVE K(n)
  <2> DEFINE acc == P[n - 1]
             e == entries[n]
             s == said(n - 1)
             x == [type |-> BlockType(kind(n)), call |-> call(n), of |-> e.id]
             t == said(n)
  <2>1. P[n] = Take(acc, e, matched) /\ acc.failed \in BOOLEAN /\ s \in Seq(B) /\ acc \in Accs(entries)
        /\ acc.messages \in Seq(Messages(B))
    BY <1>1, <1>2
  <2>2. /\ n - 1 \in Nat /\ 1 .. n = (1 .. n - 1) \union {n}
        /\ e.payload.kind = kind(n) /\ e.payload.call = call(n)
    BY <1>1
  <2>3. Blocks(e) = <<x>> /\ x \in B
    BY <1>1 DEF Blocks, SayableBy
  <2>4. x.type = BlockType(kind(n)) /\ x.call = call(n)
    OBVIOUS
  <2>5. kind(n) = "tool_result" /\ call(n) # NoCall => call(n) \in matched
    BY <1>1 DEF MatchedCalls
  <2>6. CASE acc.failed
    <3>1. P[n].failed
      <4> HIDE DEF P
      <4> QED BY <2>1, <2>6 DEF Take
    <3> QED BY <3>1
  <2>7. CASE ~ acc.failed /\ OrphanCall(e, matched)
    <3>1. P[n] = acc
      <4> HIDE DEF P, matched
      <4> QED BY <2>1, <2>7 DEF Take
    <3>2. kind(n) = "tool_call"
      BY <2>2, <2>7 DEF OrphanCall
    <3>3. t = s
      BY <3>1
    <3>4. ResultsKept(t, n)
      <4> HIDE DEF s, t, P
      <4> QED BY <1>4, <2>2, <2>7, <3>1, <3>2, <3>3 DEF s
    <3> HIDE DEF s, t, ResultsKept, UsesMatched, ResultsFollow, SeenUsed, P
    <3> QED BY <1>4, <2>7, <3>1, <3>3, <3>4 DEF s, t
  <2>8. CASE ~ acc.failed /\ ~ OrphanCall(e, matched) /\ UnknownResult(e, acc.seen)
    <3>1. [acc EXCEPT !.failed = TRUE].failed
      BY <2>1 DEF Accs
    <3>2. P[n].failed
      <4> HIDE DEF P, matched
      <4> QED BY <2>1, <2>8, <3>1 DEF Take
    <3> QED BY <3>2
  <2>9. CASE ~ acc.failed /\ ~ OrphanCall(e, matched) /\ ~ UnknownResult(e, acc.seen)
    <3>1. P[n].messages = Merged(acc.messages, e) /\ P[n].seen = Seen(acc.seen, e)
      <4> HIDE DEF P, matched
      <4> QED BY <2>1, <2>9 DEF Take
    <3>2. t = s \o <<x>>
      <4>1. t = FlattenSeq(ContentsOf(Merged(acc.messages, e)))
        BY <3>1
      <4>2. Blocks(e) \in Seq(B)
        BY <2>3
      <4> HIDE DEF B, acc, e, t, s
      <4>3. t = FlattenSeq(ContentsOf(acc.messages)) \o Blocks(e)
        BY <2>1, <4>1, <4>2, MergedSays
      <4> QED BY <2>3, <4>3 DEF s, acc
    <3>3. kind(n) = "tool_call" => call(n) = NoCall \/ call(n) \in matched
      BY <2>2, <2>9 DEF OrphanCall
    <3>4. kind(n) = "tool_result" => call(n) # NoCall /\ call(n) \in acc.seen
      BY <2>2, <2>9 DEF UnknownResult
    <3>5. UsesMatched(s) /\ ResultsFollow(s) /\ ResultsKept(s, n - 1) /\ SeenUsed(s, acc.seen)
      BY <1>4, <2>9
    <3>6. /\ x.type = "tool_use" <=> kind(n) = "tool_call"
          /\ x.type = "tool_result" <=> kind(n) = "tool_result"
      BY DEF BlockType
    <3> HIDE DEF s, t, x, P, B, matched, acc, e
    <3> DEFINE k == Len(s)
    <3>7. /\ k \in Nat /\ DOMAIN s = 1 .. k /\ DOMAIN t = 1 .. k + 1
          /\ t[k + 1] = x /\ \A i \in 1 .. k : t[i] = s[i]
      BY <2>1, <2>3, <3>2
    <3> HIDE DEF k
    <3>8. UsesMatched(t)
      BY <2>4, <3>3, <3>5, <3>6, <3>7
    <3>9. ResultsFollow(t)
      <4>1. SUFFICES ASSUME NEW r \in 1 .. k + 1, t[r].type = "tool_result"
                     PROVE  t[r].call # NoCall /\ \E u \in 1 .. r - 1 : t[u].type = "tool_use" /\ t[u].call = t[r].call
        BY <3>7
      <4>2. CASE r \in 1 .. k
        <5>1. t[r] = s[r] /\ \A u \in 1 .. r - 1 : t[u] = s[u]
          BY <3>7, <4>2
        <5> QED BY <3>5, <3>7, <4>1, <4>2, <5>1
      <4>3. CASE r = k + 1
        <5>1. call(n) # NoCall /\ call(n) \in acc.seen /\ t[r].call = call(n)
          BY <2>4, <3>4, <3>6, <3>7, <4>1, <4>3
        <5> DEFINE c == call(n)
        <5>4. c \in acc.seen
          BY <5>1
        <5>5. SeenUsed(s, acc.seen)
          BY <3>5
        <5>6. \E u \in DOMAIN s : s[u].type = "tool_use" /\ s[u].call = c
          <6> HIDE DEF c
          <6> QED BY <5>4, <5>5
        <5>2. PICK u \in 1 .. k : s[u].type = "tool_use" /\ s[u].call = call(n)
          BY <3>7, <5>6
        <5>3. u \in 1 .. r - 1 /\ t[u] = s[u]
          BY <3>7, <4>3, <5>2
        <5> QED BY <5>1, <5>2, <5>3
      <4> QED BY <3>7, <4>1, <4>2, <4>3
    <3>10. ResultsKept(t, n)
      <4>1. SUFFICES ASSUME NEW j \in 1 .. n, kind(j) = "tool_result"
                     PROVE  \E r \in 1 .. k + 1 : t[r].type = "tool_result" /\ t[r].call = call(j)
        BY <3>7
      <4>2. CASE j = n
        BY <2>4, <3>6, <3>7, <4>1, <4>2
      <4>3. CASE j \in 1 .. n - 1
        BY <3>5, <3>7, <4>1, <4>3
      <4> QED BY <2>2, <4>1, <4>2, <4>3
    <3>11. SeenUsed(t, P[n].seen)
      <4>1. SUFFICES ASSUME NEW c \in P[n].seen
                     PROVE  \E u \in 1 .. k + 1 : t[u].type = "tool_use" /\ t[u].call = c
        BY <3>7
      <4>2. c \in acc.seen \/ (kind(n) = "tool_call" /\ c = call(n))
        BY <2>2, <3>1, <4>1 DEF Seen
      <4>3. CASE c \in acc.seen
        BY <3>5, <3>7, <4>3
      <4>4. CASE kind(n) = "tool_call" /\ c = call(n)
        BY <2>4, <3>6, <3>7, <4>4
      <4> QED BY <4>2, <4>3, <4>4
    <3> HIDE DEF UsesMatched, ResultsFollow, ResultsKept, SeenUsed
    <3> QED BY <3>8, <3>9, <3>10, <3>11 DEF t
  <2> HIDE DEF acc, e, K
  <2> QED BY <2>1, <2>6, <2>7, <2>8, <2>9
<1>5. 0 .. N \subseteq T
  <2>1. ASSUME NEW n \in 1 .. N, n - 1 \in T PROVE n \in T
    <3> HIDE DEF K, P, N
    <3> QED BY <1>4, <2>1
  <2>2. 0 \in T
    <3> HIDE DEF K
    <3> QED BY <1>1, <1>3
  <2> HIDE DEF T
  <2> QED BY <1>1, <2>1, <2>2, UpTo
<1>6. K(N)
  <2> HIDE DEF K
  <2> QED BY <1>1, <1>5
<1>7. SUFFICES ASSUME ~ P[N].failed
               PROVE  /\ \A u \in DOMAIN said(N) : said(N)[u].type = "tool_use" /\ said(N)[u].call # NoCall =>
                            \E r \in DOMAIN said(N) : said(N)[r].type = "tool_result" /\ said(N)[r].call = said(N)[u].call
                      /\ \A r \in DOMAIN said(N) : said(N)[r].type = "tool_result" =>
                            \E u \in DOMAIN said(N) : /\ said(N)[u].type = "tool_use" /\ said(N)[u].call # NoCall
                                                      /\ u < r /\ said(N)[u].call = said(N)[r].call
  <2>1. Materialized(entries) = P[N] /\ Said(Materialized(entries)) = said(N)
    BY DEF Materialized, Said, ContentsOf
  <2> HIDE DEF P, N, said
  <2> QED BY <2>1 DEF UsesAnswered
<1> DEFINE t == said(N)
<1>8. UsesMatched(t) /\ ResultsFollow(t) /\ ResultsKept(t, N)
  BY <1>6, <1>7
<1>9. \A c \in matched : \E j \in 1 .. N : kind(j) = "tool_result" /\ call(j) = c
  BY <1>1 DEF MatchedCalls
<1>10. DOMAIN t = 1 .. Len(t) /\ Len(t) \in Nat
  <2>1. t \in Seq(B)
    BY <1>1, <1>2
  <2> HIDE DEF t, B
  <2> QED BY <2>1
<1> HIDE DEF said, P, N, matched, B, t
<1>11. \A u \in DOMAIN t : t[u].type = "tool_use" /\ t[u].call # NoCall =>
          \E r \in DOMAIN t : t[r].type = "tool_result" /\ t[r].call = t[u].call
  <2>1. SUFFICES ASSUME NEW u \in DOMAIN t, t[u].type = "tool_use", t[u].call # NoCall
                 PROVE  \E r \in DOMAIN t : t[r].type = "tool_result" /\ t[r].call = t[u].call
    OBVIOUS
  <2>2. PICK j \in 1 .. N : kind(j) = "tool_result" /\ call(j) = t[u].call
    BY <1>8, <1>9, <2>1
  <2> QED BY <1>8, <2>2
<1>12. \A r \in DOMAIN t : t[r].type = "tool_result" =>
          \E u \in DOMAIN t : t[u].type = "tool_use" /\ t[u].call # NoCall /\ u < r /\ t[u].call = t[r].call
  <2>1. SUFFICES ASSUME NEW r \in DOMAIN t, t[r].type = "tool_result"
                 PROVE  \E u \in DOMAIN t : t[u].type = "tool_use" /\ t[u].call # NoCall /\ u < r /\ t[u].call = t[r].call
    OBVIOUS
  <2>2. PICK u \in 1 .. r - 1 : t[u].type = "tool_use" /\ t[u].call = t[r].call
    BY <1>8, <2>1
  <2>3. u \in DOMAIN t /\ u < r
    BY <1>10, <2>1, <2>2
  <2> QED BY <1>8, <2>1, <2>2, <2>3
<1> QED BY <1>11, <1>12 DEF t

(* The messages say what the entries say, in order, each once, without the *)
(* calls that nothing answers.                                             *)
THEOREM EntriesSaid ==
    ASSUME NEW S, NEW entries \in Seq(S), NEW Kd, NEW C,
           \A i \in DOMAIN entries : entries[i].payload \in [kind : Kd, call : C]
    PROVE  SaysWhatWasSaid(entries)
<1> DEFINE N == Len(entries)
           P == Pass(entries)
           matched == MatchedCalls(entries)
           B == SayableBy(entries)
           said(n) == FlattenSeq(ContentsOf(P[n].messages))
           ss == [i \in DOMAIN entries |-> IF Kept(entries, i) THEN Blocks(entries[i]) ELSE <<>>]
<1>1. /\ N \in Nat /\ P[0] = Start /\ DOMAIN entries = 1 .. N
      /\ \A n \in 0 .. N : P[n] \in Accs(entries)
      /\ \A n \in 1 .. N : P[n] = Take(P[n - 1], entries[n], matched)
  BY PassIs
<1>2. \A n \in 0 .. N : /\ P[n].messages \in Seq(Messages(B)) /\ P[n].failed \in BOOLEAN
                        /\ said(n) \in Seq(B)
  <2>1. \A n \in 0 .. N : P[n].messages \in Seq(Messages(B)) /\ P[n].failed \in BOOLEAN
    BY <1>1 DEF Accs
  <2> HIDE DEF B
  <2> QED BY <2>1, ContentsTyped
<1>3. \A i \in 1 .. N : Kept(entries, i) <=> ~ OrphanCall(entries[i], matched)
  <2>1. SUFFICES ASSUME NEW i \in 1 .. N, entries[i].payload.call # NoCall
                 PROVE  Answered(entries, i) <=> entries[i].payload.call \in matched
    BY DEF Kept, OrphanCall
  <2>2. \A j \in 1 .. N : entries[j].payload = [kind |-> "tool_result", call |-> entries[i].payload.call]
                <=> entries[j].payload.kind = "tool_result" /\ entries[j].payload.call = entries[i].payload.call
    BY <1>1
  <2>3. entries[i].payload.call \in matched <=>
            \E j \in 1 .. N : entries[j].payload.kind = "tool_result" /\ entries[j].payload.call = entries[i].payload.call
    BY <1>1, <2>1 DEF MatchedCalls
  <2> HIDE DEF matched, N
  <2> QED BY <1>1, <2>2, <2>3 DEF Answered
<1>4. \A i \in 1 .. N : Blocks(entries[i]) \in Seq(B)
  BY <1>1 DEF Blocks, SayableBy
<1>5. /\ ss \in Seq(Seq(B)) /\ Len(ss) = N
      /\ \A i \in 1 .. N : ss[i] = IF Kept(entries, i) THEN Blocks(entries[i]) ELSE <<>>
  <2> HIDE DEF B
  <2> QED BY <1>1, <1>4
<1> HIDE DEF ss
<1>6. PICK f : Flat(B, ss, f) /\ FlattenSeq(ss) = f[N]
  <2> HIDE DEF B
  <2> QED BY <1>5, FlattenIs
<1> DEFINE T == {n \in 0 .. N : P[n].failed \/ said(n) = f[n]}
<1>7. 0 \in T
  <2>1. said(0) = <<>>
    <3>1. P[0].messages = <<>>
      BY <1>1 DEF Start
    <3>2. P[0].messages \in Seq(Messages(B))
      BY <1>1, <1>2
    <3> HIDE DEF P, B
    <3> QED BY <3>1, <3>2, ContentsTyped
  <2>2. f[0] = <<>>
    BY <1>6 DEF Flat
  <2> HIDE DEF said, P
  <2> QED BY <1>1, <2>1, <2>2
<1>8. ASSUME NEW n \in 1 .. N, P[n - 1].failed \/ said(n - 1) = f[n - 1]
      PROVE  P[n].failed \/ said(n) = f[n]
  <2> DEFINE acc == P[n - 1]
             e == entries[n]
  <2>1. P[n] = Take(acc, e, matched) /\ acc.failed \in BOOLEAN /\ acc \in Accs(entries)
        /\ acc.messages \in Seq(Messages(B)) /\ said(n - 1) \in Seq(B)
    BY <1>1, <1>2
  <2>2. f[n] = f[n - 1] \o ss[n]
    BY <1>5, <1>6 DEF Flat
  <2>3. SUFFICES ASSUME ~ P[n].failed PROVE said(n) = f[n]
    OBVIOUS
  <2>4. [acc EXCEPT !.failed = TRUE].failed
    BY <2>1 DEF Accs
  <2>5. ~ acc.failed
    <3> HIDE DEF P, matched
    <3> QED BY <2>1, <2>3 DEF Take
  <2>6. said(n - 1) = f[n - 1]
    BY <1>8, <2>5
  <2>7. CASE OrphanCall(e, matched)
    <3>1. P[n] = acc
      <4> HIDE DEF P, matched
      <4> QED BY <2>1, <2>7 DEF Take
    <3>2. ss[n] = <<>>
      BY <1>3, <1>5, <2>7
    <3>3. said(n) = said(n - 1)
      BY <3>1
    <3> HIDE DEF said, P, B
    <3> QED BY <2>1, <2>2, <2>6, <3>2, <3>3
  <2>8. CASE ~ OrphanCall(e, matched)
    <3>1. ~ UnknownResult(e, acc.seen)
      <4> HIDE DEF P, matched
      <4> QED BY <2>1, <2>3, <2>4, <2>5, <2>8 DEF Take
    <3>2. P[n].messages = Merged(acc.messages, e)
      <4> HIDE DEF P, matched
      <4> QED BY <2>1, <2>5, <2>8, <3>1 DEF Take
    <3>3. ss[n] = Blocks(e) /\ Blocks(e) \in Seq(B)
      BY <1>3, <1>4, <1>5, <2>8
    <3>4. said(n) = FlattenSeq(ContentsOf(Merged(acc.messages, e)))
      BY <3>2
    <3> HIDE DEF B, acc, e, P
    <3>5. FlattenSeq(ContentsOf(Merged(acc.messages, e))) = FlattenSeq(ContentsOf(acc.messages)) \o Blocks(e)
      BY <2>1, <3>3, MergedSays
    <3>6. said(n) = said(n - 1) \o Blocks(e)
      BY <3>4, <3>5 DEF acc
    <3> HIDE DEF said
    <3> QED BY <2>2, <2>6, <3>3, <3>6
  <2> QED BY <2>7, <2>8
<1>9. 0 .. N \subseteq T
  <2>1. ASSUME NEW n \in 1 .. N, n - 1 \in T PROVE n \in T
    <3> HIDE DEF said, P, N
    <3> QED BY <1>8, <2>1
  <2> HIDE DEF T
  <2> QED BY <1>1, <1>7, <2>1, UpTo
<1>10. P[N].failed \/ said(N) = FlattenSeq(ss)
  <2> HIDE DEF said, P
  <2> QED BY <1>1, <1>6, <1>9
<1>11. Materialized(entries) = P[N] /\ Said(Materialized(entries)) = said(N)
  BY DEF Materialized, Said, ContentsOf
<1> HIDE DEF said, P, N
<1> QED BY <1>10, <1>11 DEF SaysWhatWasSaid, ss

-----------------------------------------------------------------------------
(* The translation of what appends leave.                                  *)

(* Nothing is in the list, or in a list that an append has read, that was  *)
(* not written by an append.                                               *)
ListedHasLanded ==
    /\ Listed(Entries(field)) \subseteq landed
    /\ \A a \in Appenders : Listed(snapshot[a]) \subseteq landed

LEMMA ListedHasLandedStep ==
    ASSUME ConversationInv, ListedHasLanded, [Next]_vars
    PROVE  ListedHasLanded'
<1>1. ASSUME NEW a \in Appenders, NEW p \in Payloads \union {Invalid},
             Arrive(a, p) \/ ReadRefused(a) \/ Raises(a) \/ Listened(a) \/ Publish(a)
      PROVE  ListedHasLanded'
  BY <1>1 DEF Arrive, ReadRefused, Raises, Listened, Publish, rowVars, requestVars, historyVars,
     ListedHasLanded, Entries
<1>2. ASSUME NEW a \in Appenders, Read(a) PROVE ListedHasLanded'
  BY <1>2 DEF Read, rowVars, ListedHasLanded, Entries, ConversationInv, TypeOK
<1>3. ASSUME NEW a \in Appenders, Update(a) PROVE ListedHasLanded'
  <2>1. CASE alive
    <3>1. entry[a] \in Entry /\ snapshot[a] \in Seq(Entry)
      BY <1>3 DEF Update, ConversationInv, TypeOK, Holds
    <3>2. Written(a) \in Seq(Entry) /\ Listed(Written(a)) = Listed(snapshot[a]) \union {entry[a]}
      BY <3>1, AppendListed DEF Written
    <3>3. field' = Written(a) /\ landed' = landed \union {entry[a]} /\ snapshot' = snapshot
      BY <1>3, <2>1 DEF Update
    <3>4. Entries(field)' = Written(a)
      BY <3>2, <3>3, EntriesOfSeq DEF Entries
    <3> QED BY <3>2, <3>3, <3>4 DEF ListedHasLanded
  <2>2. CASE ~ alive
    BY <1>3, <2>2 DEF Update, historyVars, ListedHasLanded, Entries
  <2> QED BY <2>1, <2>2
<1>4. ASSUME NEW v \in {<<>>, NotAList}, PutField(v) PROVE ListedHasLanded'
  <2>1. Listed(Entries(field)') = {}
    BY <1>4 DEF PutField, Entries, Listed
  <2> QED BY <1>4, <2>1 DEF PutField, requestVars, ListedHasLanded
<1>5. ASSUME DeleteParent PROVE ListedHasLanded'
  BY <1>5 DEF DeleteParent, requestVars, historyVars, ListedHasLanded, Entries
<1>6. ASSUME UNCHANGED vars PROVE ListedHasLanded'
  BY <1>6 DEF vars, rowVars, requestVars, historyVars, ListedHasLanded, Entries
<1> QED BY <1>1, <1>2, <1>3, <1>4, <1>5, <1>6 DEF Next, Step

(* As long as an agent appends each result after its call, the row exists  *)
(* and no writer has overlapped another, the conversation can be           *)
(* translated.                                                             *)
LEMMA Unbroken ==
    ASSUME ConversationInv, ListedHasLanded
    PROVE  BrokenOnlyByOverlap
<1> DEFINE s == Entries(field)
<1>1. SUFFICES ASSUME alive, ResultsFollowCalls, overwritten = {}, Materialized(s).failed PROVE FALSE
  BY DEF BrokenOnlyByOverlap
<1>2. s \in Seq(Entry) /\ Increasing(s)
  BY EntriesTyped DEF ConversationInv, OrderInv, InOrder
<1>3. landed = Listed(s) /\ landed \subseteq Entry
  BY <1>1 DEF ConversationInv, LostOnlyToOverlap, ListedHasLanded, TypeOK
<1> HIDE DEF s
<1>4. \A i \in DOMAIN s : s[i] \in Entry /\ s[i].id \in Nat /\ s[i] \in landed
  BY <1>2, <1>3, EntryFields DEF Listed
<1>5. FailsOnOrphanResult(s)
  <2> DEFINE Kd == {p.kind : p \in Payloads}
             C == {p.call : p \in Payloads}
  <2>1. \A i \in DOMAIN s : s[i].payload \in [kind : Kd, call : C]
    BY <1>4, BodyAssumption DEF Entry
  <2> HIDE DEF Kd, C
  <2> QED BY <1>2, <2>1, FailsOnlyOnOrphans
<1>6. PICK i \in DOMAIN s :
          /\ s[i].payload.kind = "tool_result"
          /\ s[i].payload.call = NoCall \/
             ~ \E j \in 1 .. i - 1 : s[j].payload = [kind |-> "tool_call", call |-> s[i].payload.call]
  BY <1>1, <1>5 DEF FailsOnOrphanResult
<1>7. /\ s[i].payload.call # NoCall
      /\ \E c \in landed : c.payload = [kind |-> "tool_call", call |-> s[i].payload.call] /\ c.id < s[i].id
  BY <1>1, <1>4, <1>6 DEF ResultsFollowCalls
<1>8. PICK j \in DOMAIN s : s[j].payload = [kind |-> "tool_call", call |-> s[i].payload.call] /\ s[j].id < s[i].id
  BY <1>3, <1>7 DEF Listed
<1>9. j < i
  <2>1. i \in Nat /\ j \in Nat
    BY <1>2
  <2>2. i # j /\ ~ (i < j)
    BY <1>2, <1>4, <1>8 DEF Increasing
  <2> QED BY <2>1, <2>2
<1>10. j \in 1 .. i - 1
  BY <1>2, <1>9
<1> QED BY <1>6, <1>7, <1>8, <1>10

(* materialize_to_anthropic on the list that appends leave: only a writer  *)
(* that overlapped another, or an agent that appends a result without its  *)
(* call, leaves a conversation that cannot be translated.                  *)
THEOREM OnlyOverlapsBreak == Spec => []BrokenOnlyByOverlap
<1>1. Init => ListedHasLanded
  BY DEF Init, ListedHasLanded, Entries, Listed
<1>2. ConversationInv /\ ListedHasLanded => BrokenOnlyByOverlap
  BY Unbroken
<1>3. ConversationInv /\ ListedHasLanded /\ [Next]_vars => ListedHasLanded'
  BY ListedHasLandedStep
<1> QED BY <1>1, <1>2, <1>3, ConversationCorrect, PTL DEF Spec

-----------------------------------------------------------------------------
(* The question of the decisions about conversations, whatever the lists   *)
(* it may be asked about.                                                  *)
LEMMA ConversationIsList ==
    ASSUME NEW l \in Conversations
    PROVE  \E S, K, C : l \in Seq(S) /\ \A i \in DOMAIN l : l[i].payload \in [kind : K, call : C]
<1> DEFINE n == Len(l)
           S == {l[i] : i \in 1 .. n}
           K == {l[i].payload.kind : i \in 1 .. n}
           C == {l[i].payload.call : i \in 1 .. n}
           t == [i \in 1 .. n |-> l[i]]
<1>1. n \in Nat /\ l = t /\ \A i \in DOMAIN l : l[i].payload = [kind |-> l[i].payload.kind, call |-> l[i].payload.call]
  BY ConversationAssumption DEF AList
<1>2. ASSUME n \in Nat PROVE t \in Seq(S)
  BY <1>2
<1>3. DOMAIN l = 1 .. n
  BY <1>1
<1>4. ASSUME NEW i \in DOMAIN l PROVE l[i].payload \in [kind : K, call : C]
  <2>1. l[i].payload.kind \in K /\ l[i].payload.call \in C
    BY <1>3
  <2>2. l[i].payload = [kind |-> l[i].payload.kind, call |-> l[i].payload.call]
    BY <1>1
  <2> HIDE DEF K, C, n, t
  <2> QED BY <2>1, <2>2
<1>5. l \in Seq(S)
  <2> HIDE DEF t, S
  <2> QED BY <1>1, <1>2
<1> HIDE DEF S, K, C
<1> QED BY <1>4, <1>5

(* Whatever the conversations: what is materialised says what was said, in *)
(* order and with alternating roles, answers every tool use, and fails on  *)
(* results that nothing called for alone.                                  *)
THEOREM ConversationsAreTranslated == Deciding => []ConversationTranslates
<1>1. Unasked => ConversationTranslates
  BY DEF ConversationTranslates, Unasked
<1>2. ASSUME Ask PROVE ConversationTranslates'
  <2>1. SUFFICES ASSUME question'.about = "conversation"
                 PROVE  /\ SaysWhatWasSaid(question'.entries)
                        /\ Alternates(question'.entries)
                        /\ UsesAnswered(question'.entries)
                        /\ FailsOnOrphanResult(question'.entries)
    BY DEF ConversationTranslates
  <2>2. /\ AskPredicate => question'.about = "predicate"
        /\ AskRedaction => question'.about = "redaction"
        /\ AskCompute => question'.about = "compute"
        /\ AskReading => question'.about = "reading"
        /\ AskDependents => question'.about = "dependents"
        /\ AskBoundaries => question'.about = "boundaries"
        /\ AskRoutes => question'.about = "routes"
        /\ AskChain => question'.about = "chain"
        /\ AskPresentation => question'.about = "presentation"
    BY DEF AskPredicate, AskRedaction, AskCompute, AskReading, AskDependents, AskBoundaries,
           AskRoutes, AskChain, AskPresentation
  <2>3. AskConversation
    BY <1>2, <2>1, <2>2 DEF Ask
  <2>4. question'.entries \in Conversations
    BY <2>3 DEF AskConversation
  <2>5. PICK S, K, C : /\ question'.entries \in Seq(S)
                       /\ \A i \in DOMAIN question'.entries : question'.entries[i].payload \in [kind : K, call : C]
    BY <2>4, ConversationIsList
  <2> QED BY <2>5, EntriesSaid, RolesAlternate, ToolUsesAnswered, FailsOnlyOnOrphans
<1>3. ConversationTranslates /\ UNCHANGED question => ConversationTranslates'
  BY DEF ConversationTranslates
<1> QED BY <1>1, <1>2, <1>3, PTL DEF Deciding, Asked
=============================================================================
