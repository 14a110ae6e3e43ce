---------------------------- MODULE FanoutProofs ----------------------------
(***************************************************************************)
(* Proofs about Fanout: for any connections, rows, topics and number of    *)
(* broadcasts, a connection is told of nobody else's rows, and there is no *)
(* gap between the answer to a subscribe and the pushes that follow it.    *)
(***************************************************************************)
EXTENDS Fanout, FiniteSetTheorems, TLAPS

LEMMA FlagSet ==
    ASSUME NEW S, NEW f \in [S -> BOOLEAN], NEW c \in S
    PROVE  [f EXCEPT ![c] = TRUE] \in [S -> BOOLEAN] /\ [f EXCEPT ![c] = FALSE] \in [S -> BOOLEAN]
  BY Zenon

LEMMA TopicSet ==
    ASSUME NEW S, NEW T, NEW f \in [S -> SUBSET T], NEW c \in S, NEW p \in T
    PROVE  /\ [f EXCEPT ![c] = @ \union {p}] \in [S -> SUBSET T]
           /\ [f EXCEPT ![c] = @ \ {p}] \in [S -> SUBSET T]
<1>1. f[c] \union {p} \in SUBSET T /\ f[c] \ {p} \in SUBSET T
  OBVIOUS
<1> QED
  BY <1>1

LEMMA InitFanout == Init => FanoutInv
<1> SUFFICES ASSUME Init PROVE FanoutInv
  OBVIOUS
<1> USE TopicAssumption, BoundAssumption DEF Init
<1>1. TypeOK
  BY DEF TypeOK, Asking, Versions
<1>2. PrivateRows /\ NoGap
  BY DEF PrivateRows, NoGap
<1>3. RegistryInOrder
  BY DEF RegistryInOrder, Asking
<1>4. NothingAhead
  BY DEF NothingAhead
<1>5. AnswerIsFresh
  BY DEF AnswerIsFresh
<1> QED
  BY <1>1, <1>2, <1>3, <1>4, <1>5 DEF FanoutInv

(* Rows and events.                                                        *)
LEMMA WriteInv ==
    ASSUME FanoutInv, NEW r \in Rows, NEW ch \in Channels, Write(r, ch)
    PROVE  FanoutInv'
<1>0. PICK e : e = [channel |-> ch, row |-> r, version |-> version[r] + 1]
  OBVIOUS
<1> USE BoundAssumption DEF FanoutInv, Write, registryVars, sessionVars, castVars, historyVars
<1>t. TypeOK
  OBVIOUS
<1>e. e \in Events /\ version[r] + 1 \in Versions /\ unpublished' = unpublished \union {e}
  BY <1>0 DEF TypeOK, Asking, Versions, Events
<1>v. /\ version'[r] = version[r] + 1 /\ via'[r] = ch /\ e \in unpublished'
      /\ e.row = r /\ e.channel = ch /\ e.version = version[r] + 1
      /\ \A s \in Rows : s # r => version'[s] = version[s] /\ via'[s] = via[s]
      /\ \A s \in Rows : version[s] \in Nat /\ version'[s] >= version[s]
  BY <1>0 DEF TypeOK, Asking, Versions
<1>1. TypeOK'
  BY <1>e DEF TypeOK, Asking
<1>2. PrivateRows'
  BY DEF PrivateRows, MaySee
<1>3. ASSUME NEW c \in Conns, NEW s \in Rows, Covered(c, s) \/ s = r PROVE Covered(c, s)'
  <2>1. CASE s = r
    BY <2>1, <1>v DEF Covered, OnItsWay, IsLast
  <2>2. CASE s # r /\ Covered(c, s)
    BY <2>2, <1>v DEF Covered, OnItsWay, IsLast
  <2> QED
    BY <1>3, <2>1, <2>2
<1>4. ASSUME NEW c \in Conns, NEW s \in Rows, s # r, NEW p, Watching(c, s, p)'
      PROVE  Watching(c, s, p)
  BY <1>v, <1>4 DEF Watching, MaySee
<1>5. NoGap'
  BY <1>3, <1>4, <1>t DEF NoGap, TypeOK, Asking
<1>6. RegistryInOrder'
  BY DEF RegistryInOrder, Asking
<1>7. NothingAhead'
  <2>1. \A d \in Events : NotAhead(d) => NotAhead(d)'
    BY <1>v DEF NotAhead, Events, Versions
  <2>2. NotAhead(e)'
    BY <1>v DEF NotAhead
  <2>3. \A d \in unpublished' : NotAhead(d)'
    BY <1>e, <1>t, <2>1, <2>2 DEF NothingAhead, TypeOK, Asking
  <2>4. /\ \A i \in DOMAIN queue : queue[i] \in Events
        /\ \A f \in Forwarders : event[f] # NoEvent => event[f] \in Events
    BY <1>t DEF TypeOK, Asking
  <2>5. \A i \in DOMAIN queue' : NotAhead(queue[i])'
    BY <2>1, <2>4 DEF NothingAhead
  <2>6. \A f \in Forwarders : event'[f] # NoEvent => NotAhead(event[f])'
    BY <2>1, <2>4 DEF NothingAhead
  <2>7. \A c \in Conns, s \in Rows : told'[c][s] <= version'[s] /\ loaded'[c][s] <= version'[s]
    BY <1>t, <1>v DEF NothingAhead, TypeOK, Asking, Versions
  <2> QED
    BY <2>3, <2>5, <2>6, <2>7 DEF NothingAhead
<1>8. AnswerIsFresh'
  BY <1>3, <1>4, <1>v, <1>t DEF AnswerIsFresh, TypeOK, Asking
<1> QED
  BY <1>1, <1>2, <1>5, <1>6, <1>7, <1>8

LEMMA PublishInv ==
    ASSUME FanoutInv, NEW e \in unpublished, Publish(e)
    PROVE  FanoutInv'
<1> USE DEF FanoutInv, Publish, registryVars, sessionVars, castVars, historyVars
<1>t. TypeOK /\ e \in Events
  BY DEF TypeOK, Asking
<1>q. /\ queue' \in Seq(Events) /\ DOMAIN queue' = 1 .. Len(queue) + 1
      /\ queue'[Len(queue) + 1] = e
      /\ \A i \in DOMAIN queue : i \in DOMAIN queue' /\ queue'[i] = queue[i]
      /\ \A i \in DOMAIN queue' : i \in DOMAIN queue \/ i = Len(queue) + 1
      /\ Len(queue) + 1 \in DOMAIN queue'
  BY <1>t DEF TypeOK, Asking
<1>1. TypeOK'
  BY <1>q, <1>t DEF TypeOK, Asking
<1>2. PrivateRows' /\ RegistryInOrder'
  BY DEF PrivateRows, MaySee, RegistryInOrder, Asking
<1>3. ASSUME NEW c \in Conns, NEW r \in Rows, Covered(c, r) PROVE Covered(c, r)'
  <2>1. CASE IsLast(e, r)
    <3>0. PICK i \in DOMAIN queue' : queue'[i] = e
      BY <1>q
    <3>1. IsLast(queue[i], r)'
      BY <2>1, <3>0 DEF IsLast
    <3> QED
      BY <3>1 DEF Covered, OnItsWay
  <2>2. CASE \E d \in unpublished \ {e} : IsLast(d, r)
    BY <2>2 DEF Covered, OnItsWay, IsLast
  <2>3. CASE \E i \in DOMAIN queue : IsLast(queue[i], r)
    <3>1. PICK i \in DOMAIN queue : IsLast(queue[i], r)
      BY <2>3
    <3>2. i \in DOMAIN queue' /\ IsLast(queue[i], r)'
      BY <3>1, <1>q DEF IsLast
    <3> QED
      BY <3>2 DEF Covered, OnItsWay
  <2>4. CASE \/ told[c][r] = version[r]
             \/ \E f \in Forwarders : event[f] # NoEvent /\ IsLast(event[f], r) /\ birth[c] > at[f]
             \/ <<c, r, version[r]>> \in missed
    BY <2>4 DEF Covered, OnItsWay, IsLast
  <2> QED
    BY <1>3, <2>1, <2>2, <2>3, <2>4 DEF Covered, OnItsWay
<1>4. NoGap'
  BY <1>3, <1>t DEF NoGap, Watching, MaySee, TypeOK, Asking
<1>5. NothingAhead'
  <2>1. NotAhead(e) /\ \A d : NotAhead(d)' <=> NotAhead(d)
    BY DEF NothingAhead, NotAhead
  <2> QED
    BY <1>q, <2>1 DEF NothingAhead, NotAhead
<1>6. AnswerIsFresh'
  BY <1>3, <1>t DEF AnswerIsFresh, Watching, MaySee, TypeOK, Asking
<1> QED
  BY <1>1, <1>2, <1>4, <1>5, <1>6

(* Broadcasts.  What a broadcast does when it goes on is looked at once,   *)
(* for the first step as for the later ones: e is its event, and the       *)
(* connections up to `after' have been passed.                             *)
GoneOn(f, e, after) ==
    /\ active' \in SUBSET Conns /\ active' \subseteq active
    /\ subs' \in [Conns -> SUBSET Patterns] /\ answered' \in [Conns -> SUBSET Patterns]
    /\ event' \in [Forwarders -> Events \union {NoEvent}]
    /\ at' \in [Forwarders -> Nat] /\ dead' \in [Forwarders -> SUBSET Conns]
    /\ told' \in [Conns -> [Rows -> Versions]]
    /\ missed' \in SUBSET (Conns \X Rows \X Versions)
    /\ PrivateRows' /\ RegistryInOrder'
    /\ \A g \in Forwarders : event'[g] # NoEvent => NotAhead(event[g])'
    /\ \A c \in Conns, r \in Rows :
         told'[c][r] <= version[r] /\ told'[c][r] >= told[c][r]
    /\ \A c \in active' : subs'[c] = subs[c] /\ answered'[c] = answered[c]
    /\ missed \subseteq missed'
    /\ \A g \in Forwarders : g # f => event'[g] = event[g] /\ at'[g] = at[g]
    /\ \A c \in active' \cap up, r \in Rows : \A p \in subs[c] :
         Watching(c, r, p) /\ IsLast(e, r) /\ birth[c] > after =>
             \/ told'[c][r] = version[r]
             \/ (event'[f] = e /\ birth[c] > at'[f])
             \/ <<c, r, version[r]>> \in missed'

LEMMA GoesOnInv ==
    ASSUME FanoutInv, NEW f \in Forwarders, NEW e \in Events, NEW after \in Nat,
           NEW dropped \in SUBSET Conns, NotAhead(e),
           \/ GoesOn(f, e, after, dropped)
           \/ Raises(f, e, after),
           UNCHANGED <<version, via, registered, birth, up, sessionVars>>,
           size' \in [Forwarders -> Nat]
    PROVE  GoneOn(f, e, after)
<1> USE DEF FanoutInv, sessionVars
<1>t. TypeOK
  OBVIOUS
<1>e. e.row \in Rows /\ e.channel \in Channels /\ e.version \in Versions
  BY DEF Events
<1>w. /\ Wanting(e, after) \in SUBSET Conns
      /\ \A c \in Wanting(e, after) : MaySee(c, e.row) /\ birth[c] > after
      /\ \A c \in active, p \in Patterns :
            p \in subs[c] /\ Watching(c, e.row, p) /\ IsLast(e, e.row) /\ birth[c] > after
                => c \in Wanting(e, after)
  BY <1>t DEF Wanting, Delivers, MaySee, Subscribed, Watching, IsLast, NotAhead, TypeOK, Asking
<1>1. CASE Raises(f, e, after)
  <2> USE <1>1 DEF Raises, Idle
  <2>1. /\ event' \in [Forwarders -> Events \union {NoEvent}]
        /\ at' \in [Forwarders -> Nat] /\ dead' \in [Forwarders -> SUBSET Conns]
        /\ missed' \in SUBSET (Conns \X Rows \X Versions)
    BY <1>t, <1>e, <1>w DEF TypeOK, Asking
  <2>2. PrivateRows' /\ RegistryInOrder'
    BY DEF PrivateRows, MaySee, RegistryInOrder, Asking
  <2>3. \A g \in Forwarders : event'[g] # NoEvent => NotAhead(event[g])'
    BY <1>t DEF TypeOK, Asking, NothingAhead, NotAhead
  <2>4. \A c \in Conns, r \in Rows : told'[c][r] <= version[r] /\ told'[c][r] >= told[c][r]
    BY <1>t DEF TypeOK, Asking, NothingAhead, Versions
  <2>5. ASSUME NEW c \in active, NEW r \in Rows, NEW p \in subs[c],
               Watching(c, r, p), IsLast(e, r), birth[c] > after
        PROVE  <<c, r, version[r]>> \in missed'
    BY <2>5, <1>t, <1>w DEF IsLast, TypeOK, Asking
  <2> QED
    BY <1>t, <2>1, <2>2, <2>3, <2>4, <2>5 DEF TypeOK, Asking, GoneOn
<1>2. CASE Wanting(e, after) = {} /\ Finishes(f, dropped)
  <2> USE <1>2 DEF Finishes, Idle, Dropped
  <2>1. /\ event' \in [Forwarders -> Events \union {NoEvent}]
        /\ at' \in [Forwarders -> Nat] /\ dead' \in [Forwarders -> SUBSET Conns]
        /\ active' \in SUBSET Conns
        /\ subs' \in [Conns -> SUBSET Patterns] /\ answered' \in [Conns -> SUBSET Patterns]
    BY <1>t DEF TypeOK, Asking
  <2>2. PrivateRows' /\ RegistryInOrder'
    BY <1>t DEF PrivateRows, MaySee, RegistryInOrder, TypeOK, Asking
  <2>3. \A g \in Forwarders : event'[g] # NoEvent => NotAhead(event[g])'
    BY <1>t DEF TypeOK, Asking, NothingAhead, NotAhead
  <2>4. \A c \in Conns, r \in Rows : told'[c][r] <= version[r] /\ told'[c][r] >= told[c][r]
    BY <1>t DEF TypeOK, Asking, NothingAhead, Versions
  <2>5. ASSUME NEW c \in active, NEW r \in Rows, NEW p \in subs[c],
               Watching(c, r, p), IsLast(e, r), birth[c] > after
        PROVE  FALSE
    BY <2>5, <1>t, <1>w DEF IsLast, TypeOK, Asking
  <2> QED
    BY <1>t, <2>1, <2>2, <2>3, <2>4, <2>5 DEF TypeOK, Asking, GoneOn
<1>3. ASSUME NEW d \in Wanting(e, after),
             \A c \in Wanting(e, after) : birth[d] <= birth[c],
             SendsTo(f, e, d, dropped)
      PROVE  /\ event' \in [Forwarders -> Events \union {NoEvent}]
             /\ at' \in [Forwarders -> Nat] /\ dead' \in [Forwarders -> SUBSET Conns]
             /\ told' \in [Conns -> [Rows -> Versions]]
             /\ PrivateRows' /\ RegistryInOrder'
             /\ \A g \in Forwarders : event'[g] # NoEvent => NotAhead(event[g])'
             /\ \A c \in Conns, r \in Rows :
                  told'[c][r] <= version[r] /\ told'[c][r] >= told[c][r]
             /\ \A g \in Forwarders : g # f => event'[g] = event[g] /\ at'[g] = at[g]
             /\ \A c \in active' \cap up, r \in Rows : \A p \in subs[c] :
                  Watching(c, r, p) /\ IsLast(e, r) /\ birth[c] > after =>
                      told'[c][r] = version[r] \/ (event'[f] = e /\ birth[c] > at'[f])
  <2> USE <1>3 DEF SendsTo
  <2>d. d \in Conns /\ MaySee(d, e.row)
    BY <1>w
  <2>1. /\ event' \in [Forwarders -> Events \union {NoEvent}]
        /\ at' \in [Forwarders -> Nat] /\ dead' \in [Forwarders -> SUBSET Conns]
    BY <1>t, <2>d DEF TypeOK, Asking
  <2>2. /\ told' \in [Conns -> [Rows -> Versions]]
        /\ \A c \in Conns, r \in Rows : told'[c][r] # told[c][r] =>
              c = d /\ r = e.row /\ told'[c][r] = Latest(told[c][r], e.version)
        /\ d \in up => told'[d][e.row] = Latest(told[d][e.row], e.version)
    <3>1. told[d][e.row] \in Versions /\ Latest(told[d][e.row], e.version) \in Versions
      BY <1>t, <1>e, <2>d DEF TypeOK, Asking, Latest
    <3>2. CASE d \in up
      BY <1>t, <1>e, <2>d, <3>1, <3>2 DEF TypeOK, Asking
    <3>3. CASE d \notin up
      BY <1>t, <3>3 DEF TypeOK, Asking
    <3> QED
      BY <3>2, <3>3
  <2>3. PrivateRows' /\ RegistryInOrder'
    BY <1>t, <2>2, <2>d DEF PrivateRows, MaySee, RegistryInOrder, TypeOK, Asking
  <2>4. \A g \in Forwarders : event'[g] # NoEvent => NotAhead(event[g])'
    BY <1>t DEF TypeOK, Asking, NothingAhead, NotAhead
  <2>5. ASSUME NEW c \in Conns, NEW r \in Rows
        PROVE  told'[c][r] <= version[r] /\ told'[c][r] >= told[c][r]
    <3>1. /\ told[c][r] \in Nat /\ e.version \in Nat /\ version[r] \in Nat
          /\ told[c][r] <= version[r] /\ e.version <= version[e.row]
      BY <1>t, <1>e DEF TypeOK, Asking, NothingAhead, NotAhead, Versions
    <3> QED
      BY <2>2, <3>1 DEF Latest
  <2>6. ASSUME NEW c \in active' \cap up, NEW r \in Rows, NEW p \in subs[c],
               Watching(c, r, p), IsLast(e, r), birth[c] > after
        PROVE  told'[c][r] = version[r] \/ (event'[f] = e /\ birth[c] > at'[f])
    <3>1. c \in Wanting(e, after) /\ c \in Conns /\ d \in active
      BY <2>6, <1>t, <1>w DEF IsLast, TypeOK, Asking, Wanting
    <3>2. event'[f] = e /\ at'[f] = birth[d]
      BY <1>t DEF TypeOK, Asking
    <3>3. CASE c = d
      <4>1. told'[c][r] = Latest(told[c][r], version[r])
        BY <2>6, <2>2, <3>3 DEF IsLast
      <4>2. told[c][r] \in Nat /\ version[r] \in Nat /\ told[c][r] <= version[r]
        BY <1>t, <3>1 DEF TypeOK, Asking, NothingAhead, Versions
      <4> QED
        BY <4>1, <4>2 DEF Latest
    <3>4. CASE c # d
      <4>1. birth[c] # birth[d] /\ birth[c] \in Nat /\ birth[d] \in Nat
        BY <3>1, <3>4, <1>t, <2>d DEF RegistryInOrder, Wanting, TypeOK, Asking
      <4> QED
        BY <3>1, <3>2, <4>1
    <3> QED
      BY <3>3, <3>4
  <2>7. \A g \in Forwarders : g # f => event'[g] = event[g] /\ at'[g] = at[g]
    BY <1>t DEF TypeOK, Asking
  <2> QED
    BY <2>1, <2>2, <2>3, <2>4, <2>5, <2>6, <2>7
<1>4. ASSUME NEW d \in Wanting(e, after),
             \A c \in Wanting(e, after) : birth[d] <= birth[c],
             SendsTo(f, e, d, dropped)
      PROVE  active' = active /\ subs' = subs /\ answered' = answered /\ missed' = missed
  BY <1>4 DEF SendsTo
<1>5. \/ Raises(f, e, after)
      \/ Wanting(e, after) = {} /\ Finishes(f, dropped)
      \/ \E d \in Wanting(e, after) :
            (\A c \in Wanting(e, after) : birth[d] <= birth[c]) /\ SendsTo(f, e, d, dropped)
  BY DEF GoesOn
<1>6. CASE \E d \in Wanting(e, after) :
            (\A c \in Wanting(e, after) : birth[d] <= birth[c]) /\ SendsTo(f, e, d, dropped)
  BY <1>6, <1>3, <1>4, <1>t DEF TypeOK, Asking, GoneOn
<1> QED
  BY <1>1, <1>2, <1>5, <1>6

(* A step that leaves rows and sessions alone, and keeps every watched row *)
(* covered, leaves no gap.                                                 *)
LEMMA StillCovered ==
    ASSUME FanoutInv, active' \subseteq active, up' \subseteq up,
           UNCHANGED <<version, via, sessionVars>>,
           \A c \in active' : subs'[c] = subs[c] /\ answered'[c] = answered[c],
           \A c \in active' \cap up', r \in Rows : \A p \in subs[c] :
                Watching(c, r, p) /\ Covered(c, r) => Covered(c, r)'
    PROVE  NoGap' /\ AnswerIsFresh'
<1> USE DEF FanoutInv, sessionVars
<1>1. \A c \in active' \cap up' : c \in active \cap up
  OBVIOUS
<1>2. \A c, r, p : Watching(c, r, p)' <=> Watching(c, r, p)
  BY DEF Watching, MaySee
<1>3. NoGap'
  BY <1>1, <1>2 DEF NoGap, RegistryInOrder, Asking
<1>4. AnswerIsFresh'
  <2> SUFFICES ASSUME NEW c \in active \cap up, c \in active' \cap up',
                      subscribing[c], pc[c] = "loaded", NEW r \in Rows,
                      Watching(c, r, asked[c])
               PROVE  Covered(c, r)' \/ loaded[c][r] = version[r]
    BY <1>1, <1>2 DEF AnswerIsFresh
  <2>1. asked[c] \in subs[c]
    BY DEF RegistryInOrder, Asking
  <2>2. Covered(c, r) \/ loaded[c][r] = version[r]
    BY DEF AnswerIsFresh
  <2> QED
    BY <2>1, <2>2
<1> QED
  BY <1>3, <1>4

LEMMA BroadcastInv ==
    ASSUME FanoutInv, NEW f \in Forwarders, Broadcast(f)
    PROVE  FanoutInv'
<1> USE DEF FanoutInv, Broadcast, sessionVars
<1>t. TypeOK
  OBVIOUS
<1>0. PICK e : e = Head(queue)
  OBVIOUS
<1>q. /\ queue' \in Seq(Events) /\ e = queue[1] /\ 1 \in DOMAIN queue
      /\ \A i \in DOMAIN queue' : i + 1 \in DOMAIN queue /\ queue'[i] = queue[i + 1]
      /\ \A i \in DOMAIN queue : i # 1 => i - 1 \in DOMAIN queue' /\ queue'[i - 1] = queue[i]
  BY <1>0, <1>t DEF TypeOK, Asking
<1>e. e \in Events /\ NotAhead(e)
  BY <1>q, <1>t DEF TypeOK, Asking, NothingAhead
<1>s. size' \in [Forwarders -> Nat]
  <2>1. Cardinality(active) \in Nat
    BY <1>t, FS_CardinalityType, FS_Subset, SizeAssumption DEF TypeOK, Asking
  <2>2. \/ size' = [size EXCEPT ![f] = 0]
        \/ size' = [size EXCEPT ![f] = Cardinality(active)]
    BY DEF GoesOn, Finishes, Idle
  <2>3. size \in [Forwarders -> Nat]
    BY <1>t DEF TypeOK, Asking
  <2>4. \A n \in Nat : [size EXCEPT ![f] = n] \in [Forwarders -> Nat]
    BY <2>3
  <2> QED
    BY <2>1, <2>2, <2>4
<1>g. GoneOn(f, e, 0)
  <2>1. GoesOn(f, e, 0, {}) /\ {} \in SUBSET Conns /\ 0 \in Nat
    BY <1>0
  <2>2. UNCHANGED <<version, via, registered, birth, up, sessionVars>>
    OBVIOUS
  <2> QED
    BY <1>e, <1>s, <2>1, <2>2, GoesOnInv
<1>1. TypeOK'
  BY <1>t, <1>q, <1>s, <1>g DEF GoneOn, TypeOK, Asking
<1>2. PrivateRows' /\ RegistryInOrder'
  BY <1>g DEF GoneOn
<1>3. NothingAhead'
  <2>1. \A d : NotAhead(d)' <=> NotAhead(d)
    BY DEF NotAhead
  <2>2. \A i \in DOMAIN queue' : NotAhead(queue[i])'
    BY <1>q, <2>1 DEF NothingAhead, NotAhead
  <2>3. \A c \in Conns, r \in Rows : told'[c][r] <= version[r]
    BY <1>g DEF GoneOn
  <2>4. \A g \in Forwarders : event'[g] # NoEvent => NotAhead(event[g])'
    BY <1>g DEF GoneOn
  <2>5. \A d \in unpublished' : NotAhead(d)'
    BY <2>1 DEF NothingAhead
  <2> QED
    BY <2>2, <2>3, <2>4, <2>5 DEF NothingAhead
<1>4. ASSUME NEW c \in active' \cap up', NEW r \in Rows, NEW p \in subs[c],
             Watching(c, r, p), Covered(c, r)
      PROVE  Covered(c, r)'
  <2>0. c \in active /\ c \in up /\ c \in Conns /\ birth[c] > 0 /\ version' = version
    BY <1>t, <1>g DEF GoneOn, TypeOK, Asking, RegistryInOrder
  <2>1. CASE told[c][r] = version[r]
    <3>1. told'[c][r] <= version[r] /\ told'[c][r] >= told[c][r]
      BY <2>0, <1>g DEF GoneOn
    <3>2. told'[c][r] \in Nat /\ version[r] \in Nat
      BY <2>0, <1>1, <1>t DEF TypeOK, Asking, Versions
    <3> QED
      BY <2>0, <2>1, <3>1, <3>2 DEF Covered
  <2>2. CASE IsLast(e, r)
    <3>1. \/ told'[c][r] = version[r]
          \/ event'[f] = e /\ birth[c] > at'[f]
          \/ <<c, r, version[r]>> \in missed'
      BY <1>4, <2>0, <2>2, <1>g DEF GoneOn
    <3>2. e # NoEvent
      BY <1>e, SentinelAssumption DEF Events, Versions
    <3> QED
      BY <2>0, <2>2, <3>1, <3>2 DEF Covered, OnItsWay, IsLast
  <2>3. CASE \E i \in DOMAIN queue : i # 1 /\ IsLast(queue[i], r)
    <3>1. PICK i \in DOMAIN queue : i # 1 /\ IsLast(queue[i], r)
      BY <2>3
    <3>2. PICK j \in DOMAIN queue' : queue'[j] = queue[i]
      BY <3>1, <1>q
    <3>3. IsLast(queue[j], r)'
      BY <2>0, <3>1, <3>2 DEF IsLast
    <3> QED
      BY <3>3 DEF Covered, OnItsWay
  <2>4. CASE \E d \in unpublished : IsLast(d, r)
    BY <2>0, <2>4 DEF Covered, OnItsWay, IsLast
  <2>5. CASE \E g \in Forwarders : event[g] # NoEvent /\ IsLast(event[g], r) /\ birth[c] > at[g]
    <3>1. PICK g \in Forwarders : event[g] # NoEvent /\ IsLast(event[g], r) /\ birth[c] > at[g]
      BY <2>5
    <3>2. event'[g] = event[g] /\ at'[g] = at[g]
      BY <3>1, <1>g DEF GoneOn
    <3> QED
      BY <2>0, <3>1, <3>2 DEF Covered, OnItsWay, IsLast
  <2>6. CASE <<c, r, version[r]>> \in missed
    <3>1. missed \subseteq missed'
      BY <1>g DEF GoneOn
    <3> QED
      BY <2>0, <2>6, <3>1 DEF Covered, OnItsWay
  <2> QED
    BY <1>4, <1>q, <2>1, <2>2, <2>3, <2>4, <2>5, <2>6 DEF Covered, OnItsWay
<1>5. NoGap' /\ AnswerIsFresh'
  <2>1. active' \subseteq active /\ \A c \in active' : subs'[c] = subs[c] /\ answered'[c] = answered[c]
    BY <1>g DEF GoneOn
  <2> QED
    BY <1>4, <2>1, StillCovered
<1> QED
  BY <1>1, <1>2, <1>3, <1>5

LEMMA BroadcastGoesOnInv ==
    ASSUME FanoutInv, NEW f \in Forwarders, BroadcastGoesOn(f)
    PROVE  FanoutInv'
<1> USE DEF FanoutInv, BroadcastGoesOn, rowVars, sessionVars
<1>t. TypeOK
  OBVIOUS
<1>0. PICK e : e = event[f]
  OBVIOUS
<1>a. PICK after : after = at[f]
  OBVIOUS
<1>d. PICK dropped : dropped = dead[f] \union Failed(f)
  OBVIOUS
<1>e. e \in Events /\ NotAhead(e) /\ after \in Nat /\ dropped \in SUBSET Conns
  BY <1>0, <1>a, <1>d, <1>t DEF TypeOK, Asking, NothingAhead, Failed
<1>s. size' \in [Forwarders -> Nat]
  <2>1. Cardinality(active) \in Nat
    BY <1>t, FS_CardinalityType, FS_Subset, SizeAssumption DEF TypeOK, Asking
  <2>2. \/ size' = [size EXCEPT ![f] = 0]
        \/ size' = [size EXCEPT ![f] = Cardinality(active)]
    BY DEF GoesOn, Finishes, Raises, Idle
  <2>3. size \in [Forwarders -> Nat]
    BY <1>t DEF TypeOK, Asking
  <2>4. \A n \in Nat : [size EXCEPT ![f] = n] \in [Forwarders -> Nat]
    BY <2>3
  <2> QED
    BY <2>1, <2>2, <2>4
<1>g. GoneOn(f, e, after)
  <2>1. GoesOn(f, e, after, dropped) \/ Raises(f, e, after)
    BY <1>0, <1>a, <1>d
  <2>2. UNCHANGED <<version, via, registered, birth, up, sessionVars>>
    OBVIOUS
  <2> QED
    BY <1>e, <1>s, <2>1, <2>2, GoesOnInv
<1>1. TypeOK'
  BY <1>t, <1>s, <1>g DEF GoneOn, TypeOK, Asking
<1>2. PrivateRows' /\ RegistryInOrder'
  BY <1>g DEF GoneOn
<1>3. NothingAhead'
  <2>1. \A d : NotAhead(d)' <=> NotAhead(d)
    BY DEF NotAhead
  <2> QED
    BY <2>1, <1>g DEF GoneOn, NothingAhead
<1>4. ASSUME NEW c \in active' \cap up', NEW r \in Rows, NEW p \in subs[c],
             Watching(c, r, p), Covered(c, r)
      PROVE  Covered(c, r)'
  <2>0. c \in active /\ c \in up /\ c \in Conns /\ version' = version
    BY <1>t, <1>g DEF GoneOn, TypeOK, Asking
  <2>1. CASE told[c][r] = version[r]
    <3>1. told'[c][r] <= version[r] /\ told'[c][r] >= told[c][r]
      BY <2>0, <1>g DEF GoneOn
    <3>2. told'[c][r] \in Nat /\ version[r] \in Nat
      BY <2>0, <1>1, <1>t DEF TypeOK, Asking, Versions
    <3> QED
      BY <2>0, <2>1, <3>1, <3>2 DEF Covered
  <2>2. CASE IsLast(e, r) /\ birth[c] > after
    <3>1. \/ told'[c][r] = version[r]
          \/ event'[f] = e /\ birth[c] > at'[f]
          \/ <<c, r, version[r]>> \in missed'
      BY <1>4, <2>0, <2>2, <1>g DEF GoneOn
    <3> QED
      BY <1>0, <2>0, <2>2, <3>1 DEF Covered, OnItsWay, IsLast
  <2>3. CASE (\E d \in unpublished : IsLast(d, r)) \/ \E i \in DOMAIN queue : IsLast(queue[i], r)
    BY <2>0, <2>3 DEF Covered, OnItsWay, IsLast
  <2>4. CASE \E g \in Forwarders \ {f} :
                event[g] # NoEvent /\ IsLast(event[g], r) /\ birth[c] > at[g]
    <3>1. PICK g \in Forwarders \ {f} :
                event[g] # NoEvent /\ IsLast(event[g], r) /\ birth[c] > at[g]
      BY <2>4
    <3>2. event'[g] = event[g] /\ at'[g] = at[g]
      BY <3>1, <1>g DEF GoneOn
    <3> QED
      BY <2>0, <3>1, <3>2 DEF Covered, OnItsWay, IsLast
  <2>5. CASE <<c, r, version[r]>> \in missed
    <3>1. missed \subseteq missed'
      BY <1>g DEF GoneOn
    <3> QED
      BY <2>0, <2>5, <3>1 DEF Covered, OnItsWay
  <2> QED
    BY <1>0, <1>a, <1>4, <2>1, <2>2, <2>3, <2>4, <2>5 DEF Covered, OnItsWay
<1>5. NoGap' /\ AnswerIsFresh'
  <2>1. active' \subseteq active /\ \A c \in active' : subs'[c] = subs[c] /\ answered'[c] = answered[c]
    BY <1>g DEF GoneOn
  <2> QED
    BY <1>4, <2>1, StillCovered
<1> QED
  BY <1>1, <1>2, <1>3, <1>5

(* Sessions.  None of these steps touches rows, events or broadcasts.      *)
LEMMA Undisturbed ==
    ASSUME FanoutInv, UNCHANGED <<rowVars, castVars, missed>>,
           NEW c \in Conns, NEW r \in Rows, birth'[c] = birth[c]
    PROVE  /\ OnItsWay(c, r)' <=> OnItsWay(c, r)
           /\ \A p : Watching(c, r, p)' <=> Watching(c, r, p)
  BY DEF OnItsWay, IsLast, Watching, MaySee, rowVars, castVars

LEMMA ConnectInv ==
    ASSUME FanoutInv, NEW c \in Conns, Connect(c) \/ PeerLeaves(c) \/ Disconnect(c)
    PROVE  FanoutInv'
<1> USE DEF FanoutInv, sessionVars, castVars, historyVars, rowVars
<1>t. TypeOK
  OBVIOUS
<1>1. CASE Connect(c)
  <2> USE <1>1 DEF Connect
  <2>0. /\ answered[c] = {} /\ registered \in Nat /\ birth' = [birth EXCEPT ![c] = registered + 1]
        /\ \A d \in Conns : birth[d] \in Nat /\ birth[d] <= registered
    BY <1>t DEF RegistryInOrder, TypeOK, Asking
  <2>1. TypeOK' /\ PrivateRows'
    BY <1>t, <2>0 DEF TypeOK, Asking, PrivateRows, MaySee
  <2>2. RegistryInOrder'
    <3>1. /\ birth'[c] = registered + 1 /\ pc'[c] = "sending"
          /\ \A d \in Conns : d # c => birth'[d] = birth[d] /\ pc'[d] = pc[d]
      BY <1>t, <2>0 DEF TypeOK, Asking
    <3>2. \A d \in active' : d = c \/ d \in active
      OBVIOUS
    <3> QED
      BY <1>t, <2>0, <3>1, <3>2 DEF RegistryInOrder, TypeOK, Asking
  <2>3. NothingAhead'
    BY <1>t DEF NothingAhead, NotAhead
  <2>4. NoGap' /\ AnswerIsFresh'
    <3>1. \A d \in Conns, r \in Rows : d # c =>
             (Covered(d, r)' <=> Covered(d, r)) /\ \A p : Watching(d, r, p)' <=> Watching(d, r, p)
      BY <1>t, <2>0, Undisturbed DEF Covered, TypeOK, Asking
    <3>2. pc'[c] = "sending" /\ \A d \in Conns : d # c => pc'[d] = pc[d]
      BY <1>t DEF TypeOK, Asking
    <3> QED
      BY <1>t, <2>0, <3>1, <3>2 DEF NoGap, AnswerIsFresh, TypeOK, Asking
  <2> QED
    BY <2>1, <2>2, <2>3, <2>4
<1>2. CASE PeerLeaves(c)
  <2> USE <1>2 DEF PeerLeaves
  <2>1. TypeOK' /\ PrivateRows' /\ RegistryInOrder' /\ NothingAhead'
    BY <1>t DEF TypeOK, Asking, PrivateRows, MaySee, RegistryInOrder, NothingAhead, NotAhead
  <2>2. \A d \in Conns, r \in Rows :
             (Covered(d, r)' <=> Covered(d, r)) /\ \A p : Watching(d, r, p)' <=> Watching(d, r, p)
    BY <1>t, Undisturbed DEF Covered
  <2>3. NoGap' /\ AnswerIsFresh'
    BY <1>t, <2>2 DEF NoGap, AnswerIsFresh, TypeOK, Asking
  <2> QED
    BY <2>1, <2>3
<1>3. CASE Disconnect(c)
  <2> USE <1>3 DEF Disconnect, Dropped
  <2>0. \A d \in active' : d \in active /\ d # c /\ subs'[d] = subs[d] /\ answered'[d] = answered[d]
    BY <1>t DEF TypeOK, Asking
  <2>1. TypeOK' /\ PrivateRows' /\ NothingAhead'
    BY <1>t DEF TypeOK, Asking, PrivateRows, MaySee, NothingAhead, NotAhead
  <2>2. RegistryInOrder'
    BY <1>t, <2>0 DEF RegistryInOrder, TypeOK, Asking
  <2>3. \A d \in Conns, r \in Rows :
             (Covered(d, r)' <=> Covered(d, r)) /\ \A p : Watching(d, r, p)' <=> Watching(d, r, p)
    BY <1>t, Undisturbed DEF Covered
  <2>4. NoGap' /\ AnswerIsFresh'
    BY <1>t, <2>0, <2>3 DEF NoGap, AnswerIsFresh, TypeOK, Asking
  <2> QED
    BY <2>1, <2>2, <2>4
<1> QED
  BY <1>1, <1>2, <1>3

(* The frames a connection sends.                                          *)
LEMMA FrameInv ==
    ASSUME FanoutInv, NEW c \in Conns, NEW p \in Patterns,
           Subscribe(c, p) \/ Request(c, p) \/ SubscribeOther(c, p) \/ Unsubscribe(c, p)
    PROVE  FanoutInv'
<1> USE DEF FanoutInv, Subscribe, Request, SubscribeOther, Unsubscribe, Ready, Sending,
            sessionVars, castVars, historyVars, rowVars, registryVars
<1>t. TypeOK
  OBVIOUS
<1>1. PrivateRows' /\ NothingAhead'
  BY <1>t DEF TypeOK, PrivateRows, MaySee, NothingAhead, NotAhead
<1>7. TypeOK'
  <2>1. pc' \in [Conns -> {"out", "sending", "receiving", "loading", "loaded", "gone"}]
    <3>1. pc' = [pc EXCEPT ![c] = "loading"] \/ pc' = [pc EXCEPT ![c] = "sending"]
      OBVIOUS
    <3> QED
      BY <3>1, <1>t DEF TypeOK
  <2>2. subs' \in [Conns -> SUBSET Patterns] /\ answered' \in [Conns -> SUBSET Patterns]
    <3>1. \/ subs' = subs
          \/ subs' = [subs EXCEPT ![c] = @ \union {p}]
          \/ subs' = [subs EXCEPT ![c] = @ \ {p}]
      OBVIOUS
    <3>2. answered' = answered \/ answered' = [answered EXCEPT ![c] = @ \ {p}]
      OBVIOUS
    <3>3. subs \in [Conns -> SUBSET Patterns] /\ answered \in [Conns -> SUBSET Patterns]
      BY <1>t DEF TypeOK
    <3>4. /\ [subs EXCEPT ![c] = @ \union {p}] \in [Conns -> SUBSET Patterns]
          /\ [subs EXCEPT ![c] = @ \ {p}] \in [Conns -> SUBSET Patterns]
          /\ [answered EXCEPT ![c] = @ \ {p}] \in [Conns -> SUBSET Patterns]
      BY ONLY c \in Conns, p \in Patterns, <3>3, TopicSet
    <3> QED
      BY ONLY <3>1, <3>2, <3>3, <3>4
  <2>4. asked' \in [Conns -> Patterns \union {NoPattern}]
    <3>1. asked' = asked \/ asked' = [asked EXCEPT ![c] = p]
      OBVIOUS
    <3>2. asked \in [Conns -> Patterns \union {NoPattern}]
      BY <1>t DEF TypeOK
    <3> QED
      BY ONLY c \in Conns, p \in Patterns, <3>1, <3>2
  <2>5. subscribing' \in [Conns -> BOOLEAN]
    <3>1. \/ subscribing' = subscribing
          \/ subscribing' = [subscribing EXCEPT ![c] = TRUE]
          \/ subscribing' = [subscribing EXCEPT ![c] = FALSE]
      OBVIOUS
    <3>2. subscribing \in [Conns -> BOOLEAN]
      BY <1>t DEF TypeOK
    <3> QED
      BY <3>1, <3>2, FlagSet, Zenon
  <2>3. \A d \in Conns : Asking(d)' => asked'[d] # NoPattern
    BY <1>t, TopicAssumption DEF TypeOK, Asking
  <2> QED
    BY <1>t, <2>1, <2>2, <2>3, <2>4, <2>5 DEF TypeOK
<1>2. /\ pc[c] = "receiving" /\ pc'[c] \in {"loading", "sending"}
      /\ \A d \in Conns : d # c =>
            /\ subs'[d] = subs[d] /\ answered'[d] = answered[d] /\ pc'[d] = pc[d]
            /\ asked'[d] = asked[d] /\ subscribing'[d] = subscribing[d]
      /\ answered'[c] \subseteq answered[c]
      /\ answered[c] \subseteq subs[c] => answered'[c] \subseteq subs'[c]
      /\ Asking(c)' /\ subscribing'[c] => asked'[c] \in subs'[c]
  BY <1>t DEF TypeOK, Asking
<1>3. RegistryInOrder'
  <2>1. \A d \in Conns : pc'[d] = "out" => answered'[d] = {}
    BY <1>t, <1>2 DEF RegistryInOrder, TypeOK
  <2>2. \A d \in active : answered'[d] \subseteq subs'[d]
    BY <1>t, <1>2 DEF RegistryInOrder, TypeOK
  <2>3. \A d \in active : subscribing'[d] /\ Asking(d)' => asked'[d] \in subs'[d]
    <3>1. \A d \in Conns : d # c => (Asking(d)' <=> Asking(d))
      BY <1>2 DEF Asking
    <3> QED
      BY <1>t, <1>2, <3>1 DEF RegistryInOrder, TypeOK
  <2>4. active' = active /\ birth' = birth /\ registered' = registered
    OBVIOUS
  <2> QED
    BY <2>1, <2>2, <2>3, <2>4 DEF RegistryInOrder
<1>4. \A d \in Conns, r \in Rows :
         (Covered(d, r)' <=> Covered(d, r)) /\ \A q : Watching(d, r, q)' <=> Watching(d, r, q)
  BY <1>t, Undisturbed DEF Covered
<1>5. NoGap'
  BY <1>t, <1>2, <1>4 DEF NoGap, TypeOK, Asking
<1>6. AnswerIsFresh'
  BY <1>t, <1>2, <1>4 DEF AnswerIsFresh, TypeOK, Asking
<1> QED
  BY <1>1, <1>3, <1>5, <1>6, <1>7

(* The session reads the rows, answers and goes on.                        *)
LEMMA SessionInv ==
    ASSUME FanoutInv, NEW c \in Conns, Session(c)
    PROVE  FanoutInv'
<1> USE DEF FanoutInv, Session, sessionVars, castVars, historyVars, rowVars, registryVars
<1>t. TypeOK
  OBVIOUS
<1>n. \A d : NotAhead(d)' <=> NotAhead(d)
  BY DEF RowsRead, Answer, Sent, SessionRaises, NotAhead
<1>1. CASE RowsRead(c) \/ Sent(c) \/ SessionRaises(c)
  <2> USE <1>1 DEF RowsRead, Sent, SessionRaises, Sending
  <2>1. TypeOK' /\ PrivateRows'
    <3>1. version \in [Rows -> Versions] /\ [r \in Rows |-> 0] \in [Rows -> Versions]
      BY <1>t, BoundAssumption DEF TypeOK, Versions
    <3>2. loaded' \in [Conns -> [Rows -> Versions]]
      <4>1. \/ loaded' = loaded
            \/ loaded' = [loaded EXCEPT ![c] = version]
            \/ loaded' = [loaded EXCEPT ![c] = [r \in Rows |-> 0]]
        OBVIOUS
      <4> QED
        BY <1>t, <3>1, <4>1 DEF TypeOK
    <3>4. asked' \in [Conns -> Patterns \union {NoPattern}]
      <4>1. asked' = asked \/ asked' = [asked EXCEPT ![c] = NoPattern]
        OBVIOUS
      <4> QED
        BY <1>t, <4>1 DEF TypeOK
    <3>5. subscribing' \in [Conns -> BOOLEAN]
      <4>1. subscribing' = subscribing \/ subscribing' = [subscribing EXCEPT ![c] = FALSE]
        OBVIOUS
      <4>2. subscribing \in [Conns -> BOOLEAN]
        BY <1>t DEF TypeOK
      <4> QED
        BY <4>1, <4>2, FlagSet, Zenon
    <3>6. pc' \in [Conns -> {"out", "sending", "receiving", "loading", "loaded", "gone"}]
      <4>1. \E s \in {"loaded", "sending", "receiving", "gone"} : pc' = [pc EXCEPT ![c] = s]
        OBVIOUS
      <4> QED
        BY <1>t, <4>1 DEF TypeOK
    <3>3. \A d \in Conns : Asking(d)' => Asking(d) /\ asked'[d] = asked[d]
      BY <1>t DEF TypeOK, Asking
    <3> QED
      BY <1>t, <3>2, <3>3, <3>4, <3>5, <3>6 DEF TypeOK, PrivateRows, MaySee
  <2>2. /\ pc[c] # "out" /\ pc'[c] # "out"
        /\ pc'[c] = "loaded" => pc[c] = "loading" /\ loaded'[c] = version
        /\ subscribing'[c] => subscribing[c]
        /\ pc'[c] = "loaded" => asked'[c] = asked[c]
        /\ pc'[c] # "loading"
        /\ \A d \in Conns : d # c =>
            /\ pc'[d] = pc[d] /\ loaded'[d] = loaded[d]
            /\ asked'[d] = asked[d] /\ subscribing'[d] = subscribing[d]
        /\ loaded'[c] \in {loaded[c], version, [r \in Rows |-> 0]}
    BY <1>t DEF TypeOK, Asking
  <2>3. RegistryInOrder'
    <3>1. \A d \in Conns : pc'[d] = "out" => pc[d] = "out"
      BY <2>2
    <3>2. \A d \in Conns : subscribing'[d] /\ Asking(d)' =>
             subscribing[d] /\ Asking(d) /\ asked'[d] = asked[d]
      BY <2>2 DEF Asking
    <3>3. UNCHANGED <<active, birth, registered, subs, answered>>
      OBVIOUS
    <3> QED
      BY <1>t, <3>1, <3>2, <3>3 DEF RegistryInOrder, TypeOK
  <2>4. NothingAhead'
    <3>1. \A d \in Conns, r \in Rows : told'[d][r] <= version'[r]
      BY DEF NothingAhead
    <3>2. \A d \in Conns, r \in Rows : loaded'[d][r] <= version'[r]
      <4>1. \A r \in Rows : version[r] \in Nat /\ version'[r] = version[r]
        BY <1>t DEF TypeOK, Asking, Versions
      <4> QED
        BY <2>2, <4>1 DEF NothingAhead
    <3> QED
      BY <1>n, <3>1, <3>2 DEF NothingAhead
  <2>5. \A d \in Conns, r \in Rows :
           (Covered(d, r)' <=> Covered(d, r)) /\ \A q : Watching(d, r, q)' <=> Watching(d, r, q)
    BY <1>t, Undisturbed DEF Covered
  <2>6. NoGap'
    BY <1>t, <2>5 DEF NoGap, TypeOK, Asking
  <2>7. AnswerIsFresh'
    BY <1>t, <2>2, <2>5 DEF AnswerIsFresh, TypeOK, Asking
  <2> QED
    BY <2>1, <2>3, <2>4, <2>6, <2>7
<1>2. CASE Answer(c)
  <2> USE <1>2 DEF Answer, Sending
  <2>0. /\ pc[c] = "loaded" /\ pc'[c] = "sending" /\ subscribing'[c] = FALSE
        /\ \A d \in Conns : d # c =>
            /\ pc'[d] = pc[d] /\ loaded'[d] = loaded[d] /\ told'[d] = told[d]
            /\ asked'[d] = asked[d] /\ subscribing'[d] = subscribing[d]
            /\ answered'[d] = answered[d]
        /\ \A r \in Rows : loaded'[c][r] = 0
        /\ \A q \in answered'[c] : q \in answered[c] \/ (subscribing[c] /\ q = asked[c])
    BY <1>t DEF TypeOK, Asking
  <2>n. \A d \in Conns, r \in Rows :
            /\ told[d][r] \in Nat /\ loaded[d][r] \in Nat /\ version[r] \in Nat
            /\ told[d][r] <= version[r] /\ loaded[d][r] <= version[r]
    BY <1>t DEF TypeOK, Asking, Versions, NothingAhead
  <2>v. \A r \in Rows : told'[c][r] =
            IF c \in up /\ r \in Shown(c) THEN Latest(told[c][r], loaded[c][r]) ELSE told[c][r]
    BY <1>t DEF TypeOK, Asking
  <2>1. TypeOK'
    <3>1. told' \in [Conns -> [Rows -> Versions]]
      BY <1>t DEF TypeOK, Asking, Latest
    <3>2. loaded' \in [Conns -> [Rows -> Versions]]
      BY <1>t, BoundAssumption DEF TypeOK, Asking, Versions
    <3>3. answered' \in [Conns -> SUBSET Patterns]
      <4>1. asked[c] \in Patterns
        BY <1>t DEF TypeOK, Asking
      <4> QED
        BY <1>t DEF TypeOK, Asking
    <3> QED
      BY <1>t, <3>1, <3>2, <3>3 DEF TypeOK, Asking
  <2>2. PrivateRows'
    BY <2>0, <2>n, <2>v DEF PrivateRows, MaySee, Shown, Latest
  <2>3. RegistryInOrder'
    BY <1>t, <2>0 DEF RegistryInOrder, AnswerIsFresh, TypeOK, Asking
  <2>4. NothingAhead'
    <3>1. \A d \in Conns, r \in Rows : told'[d][r] <= version'[r] /\ loaded'[d][r] <= version'[r]
      BY <2>0, <2>n, <2>v DEF Latest
    <3> QED
      BY <1>n, <3>1 DEF NothingAhead
  <2>5. \A d \in Conns, r \in Rows :
           /\ OnItsWay(d, r)' <=> OnItsWay(d, r)
           /\ \A q : Watching(d, r, q)' <=> Watching(d, r, q)
    BY <1>t, Undisturbed
  <2>6. ASSUME NEW d \in Conns, NEW r \in Rows, Covered(d, r) PROVE Covered(d, r)'
    BY <2>0, <2>n, <2>v, <2>5, <2>6 DEF Covered, Latest
  <2>7. ASSUME c \in up, NEW r \in Rows, MaySee(c, r), loaded[c][r] = version[r]
        PROVE  Covered(c, r)'
    BY <2>n, <2>v, <2>7 DEF Covered, Latest, Shown, MaySee
  <2>8. NoGap'
    <3> SUFFICES ASSUME NEW d \in active \cap up, NEW r \in Rows, NEW q \in answered'[d],
                        Watching(d, r, q)
                 PROVE  Covered(d, r)'
      BY <1>t, <2>5 DEF NoGap, TypeOK, Asking
    <3>1. CASE q \in answered[d]
      BY <3>1, <1>t, <2>6 DEF NoGap, TypeOK, Asking
    <3>2. CASE q \notin answered[d]
      <4>1. d = c /\ subscribing[c] /\ q = asked[c]
        BY <3>2, <1>t, <2>0 DEF TypeOK, Asking
      <4>2. Covered(c, r) \/ loaded[c][r] = version[r]
        BY <4>1, <2>0 DEF AnswerIsFresh
      <4> QED
        BY <4>1, <4>2, <2>6, <2>7 DEF Watching
    <3> QED
      BY <3>1, <3>2
  <2>9. AnswerIsFresh'
    BY <1>t, <2>0, <2>5, <2>6 DEF AnswerIsFresh, TypeOK, Asking
  <2> QED
    BY <2>1, <2>2, <2>3, <2>4, <2>8, <2>9
<1>3. (RowsRead(c) \/ Sent(c) \/ SessionRaises(c)) \/ Answer(c)
  OBVIOUS
<1> QED
  BY <1>1, <1>2, <1>3, Zenon

-----------------------------------------------------------------------------
(* No gap, nobody else's rows, and the strengthening they need.            *)
THEOREM FanoutCorrect == Spec => []FanoutInv
<1>1. FanoutInv /\ [Next]_vars => FanoutInv'
  <2> SUFFICES ASSUME FanoutInv, [Next]_vars PROVE FanoutInv'
    OBVIOUS
  <2>1. CASE UNCHANGED vars
    <3> USE <2>1 DEF vars, rowVars, registryVars, sessionVars, castVars, historyVars, FanoutInv
    <3>1. TypeOK' /\ RegistryInOrder'
      BY DEF TypeOK, RegistryInOrder, Asking
    <3>2. PrivateRows' /\ NothingAhead'
      BY DEF PrivateRows, MaySee, NothingAhead, NotAhead
    <3>3. NoGap' /\ AnswerIsFresh'
      <4>1. \A c, r, p : (Watching(c, r, p)' <=> Watching(c, r, p))
                      /\ (Covered(c, r)' <=> Covered(c, r))
        BY DEF Watching, MaySee, Covered, OnItsWay, IsLast
      <4> QED
        BY <4>1 DEF NoGap, AnswerIsFresh
    <3> QED
      BY <3>1, <3>2, <3>3
  <2>2. CASE Next
    BY <2>2, WriteInv, PublishInv, BroadcastInv, BroadcastGoesOnInv, ConnectInv, FrameInv,
       SessionInv DEF Next
  <2> QED
    BY <2>1, <2>2
<1> QED
  BY <1>1, InitFanout, PTL DEF Spec

(* Between the answer to a subscribe and the pushes there is no gap.       *)
THEOREM NoGapEver == Spec => []NoGap
<1>1. FanoutInv => NoGap
  BY DEF FanoutInv
<1> QED
  BY <1>1, FanoutCorrect, PTL

(* Owned rows reach nobody but their owner.                                *)
THEOREM RowsStayPrivate == Spec => []PrivateRows
<1>1. FanoutInv => PrivateRows
  BY DEF FanoutInv
<1> QED
  BY <1>1, FanoutCorrect, PTL
=============================================================================
