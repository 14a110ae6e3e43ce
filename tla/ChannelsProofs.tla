--------------------------- MODULE ChannelsProofs ---------------------------
(***************************************************************************)
(* Theorems about the channel dispatcher, for every number of calls and    *)
(* every configuration of retries.  The calls in front of the connection   *)
(* rely on no more of it than the owner's progress; the last section shows *)
(* that the connection behaves, under the dispatcher, as ChannelWs says.   *)
(***************************************************************************)
EXTENDS Channels, FiniteSetTheorems, TLAPS

InService == owner \in {"starting", "running"}

(* While the dispatcher is in service it has an HTTP client.               *)
ClientInv == ws \in Nat /\ (InService => client = "open")

IInv == DispatcherInv /\ ClientInv

-----------------------------------------------------------------------------
(* What the connection may do to the dispatcher: nothing, and it is in     *)
(* service only through Startup.                                           *)
LEMMA ConnMoves == ConnStep =>
    /\ UNCHANGED <<client, callVars, metricVars, serviceVars, hookVars>>
    /\ InService' => InService
    /\ ws \in Nat => ws' \in Nat
  BY DEF ConnStep, InService, Conn!Connected, Conn!ConnectFailed, Conn!ReconnectBegins, Conn!BackoffOver,
     Conn!ReaderBegins, Conn!PeerCloses, Conn!ReaderEnds, Conn!Started, Conn!socketVars

LEMMA OwnerMoves ==
    /\ Startup => UNCHANGED <<callVars, metricVars, serviceVars, hookVars, ws>> /\ client' = "open"
    /\ ShutdownClosesConnection =>
         UNCHANGED <<client, callVars, metricVars, serviceVars, hookVars, ws>> /\ ~ InService'
    /\ ShutdownClosesClient =>
         UNCHANGED <<callVars, metricVars, serviceVars, hookVars, ws>> /\ client' = "closing" /\ ~ InService'
    /\ ShutdownEnds =>
         UNCHANGED <<connVars, callVars, metricVars, serviceVars, hookVars>> /\ client = "closing" /\ client' = "none"
  <1>1. Startup => UNCHANGED <<callVars, metricVars, serviceVars, hookVars, ws>> /\ client' = "open"
    BY DEF Startup, OpensClient, Conn!Start, Conn!socketVars
  <1>2. ShutdownClosesConnection =>
          UNCHANGED <<client, callVars, metricVars, serviceVars, hookVars, ws>> /\ ~ InService'
    BY DEF ShutdownClosesConnection, InService, Conn!CloseReader, Conn!CloseSocket
  <1>3. ShutdownClosesClient =>
          UNCHANGED <<callVars, metricVars, serviceVars, hookVars, ws>> /\ client' = "closing" /\ ~ InService'
    BY DEF ShutdownClosesClient, InService, Conn!CloseDone, Conn!socketVars
  <1> QED BY <1>1, <1>2, <1>3 DEF ShutdownEnds

(* Steps that leave the calls alone.                                       *)
LEMMA CallsUnchanged ==
    ASSUME DispatcherInv, UNCHANGED <<callVars, metricVars, serviceVars, hookVars>>,
           client' \in {"none", "open", "closing"}
    PROVE  DispatcherInv'
  BY DEF DispatcherInv, TypeOK, ServedBounded, Bound, OkMeansServed, DeniedIsFinal, HooksAcknowledged,
     Whereabouts, callVars, metricVars, serviceVars, hookVars

LEMMA OwnerKeeps ==
    ASSUME IInv, Startup \/ ConnStep \/ ShutdownClosesConnection \/ ShutdownClosesClient \/ ShutdownEnds
    PROVE  IInv'
  <1> USE DEF IInv
  <1>1. client \in {"none", "open", "closing"}
    BY DEF DispatcherInv, TypeOK
  <1>2. CASE Startup
    BY <1>2, OwnerMoves, CallsUnchanged DEF ClientInv
  <1>3. CASE ConnStep
    BY <1>1, <1>3, ConnMoves, CallsUnchanged DEF ClientInv
  <1>4. CASE ShutdownClosesConnection
    BY <1>1, <1>4, OwnerMoves, CallsUnchanged DEF ClientInv
  <1>5. CASE ShutdownClosesClient
    BY <1>5, OwnerMoves, CallsUnchanged DEF ClientInv
  <1>6. CASE ShutdownEnds
    BY <1>6, OwnerMoves, CallsUnchanged DEF ClientInv, InService, connVars
  <1> QED BY <1>2, <1>3, <1>4, <1>5, <1>6

-----------------------------------------------------------------------------
(* Actions of a call.                                                      *)
LEMMA BeginKeeps ==
    ASSUME DispatcherInv, ws \in Nat, NEW c \in Calls, Begin(c) PROVE DispatcherInv'
  <1> USE RetryAssumption DEF DispatcherInv, TypeOK, OnTheWay, Results, Called, Goto, End, GiveUp, Count, Bindings,
          ServedBounded, Bound, OkMeansServed, DeniedIsFinal, HooksAcknowledged, Whereabouts,
          metricVars, serviceVars, hookVars
  <1>1. ASSUME NEW what \in {"refused", "invalid"}, Refuse(c, what) PROVE DispatcherInv'
    BY <1>1 DEF Refuse
  <1>2. ASSUME NEW v \in Bindings, HttpBegin(c, v) PROVE DispatcherInv'
    BY <1>2 DEF HttpBegin, Attempt
  <1>3. ASSUME NEW v \in Bindings, WsBegin(c, v) PROVE DispatcherInv'
    BY <1>3 DEF WsBegin
  <1>4. ASSUME NEW v \in Bindings, ProviderBegin(c, v) PROVE DispatcherInv'
    BY <1>4 DEF ProviderBegin
  <1>5. ASSUME NEW v \in Bindings, NEW op \in {"send", "invoke"}, Skip(c, op, v) PROVE DispatcherInv'
    BY <1>5 DEF Skip
  <1>6. CASE HookBegin(c)
    BY <1>6 DEF HookBegin
  <1> QED BY <1>1, <1>2, <1>3, <1>4, <1>5, <1>6 DEF Begin

LEMMA HttpKeeps ==
    ASSUME DispatcherInv, NEW c \in Calls, HttpGoesOn(c) \/ ServedLate(c) PROVE DispatcherInv'
  <1> USE RetryAssumption DEF DispatcherInv, TypeOK, OnTheWay, Results, Goto, End, GiveUp, Count, Bindings,
          ServedBounded, Bound, OkMeansServed, DeniedIsFinal, HooksAcknowledged, Whereabouts,
          Retry, TriesLeft, callVars, metricVars, serviceVars, hookVars
  <1>1. ASSUME NEW status \in {"ok", "denied", "failed"}, PostAnswered(c, status) PROVE DispatcherInv'
    BY <1>1 DEF PostAnswered, Succeeded, OnFailure
  <1>2. ASSUME NEW fate \in {"served", "late", "lost"}, PostFails(c, fate) PROVE DispatcherInv'
    BY <1>2 DEF PostFails
  <1>3. CASE BackoffOver(c)
    BY <1>3 DEF BackoffOver, Attempt
  <1>4. CASE ServedLate(c)
    BY <1>4 DEF ServedLate
  <1> QED BY <1>1, <1>2, <1>3, <1>4 DEF HttpGoesOn

LEMMA OthersKeep ==
    ASSUME DispatcherInv, NEW c \in Calls, GoesOn(c), ~ HttpGoesOn(c) PROVE DispatcherInv'
  <1> USE DEF DispatcherInv, TypeOK, OnTheWay, Results, Goto, End, GiveUp, Count, Bindings,
          ServedBounded, Bound, OkMeansServed, DeniedIsFinal, HooksAcknowledged, Whereabouts,
          metricVars, serviceVars, hookVars
  <1>1. ASSUME NEW b \in BOOLEAN, WsSent(c, b) PROVE DispatcherInv'
    BY <1>1 DEF WsSent
  <1>2. ASSUME NEW b \in BOOLEAN, ProviderAnswers(c, b) PROVE DispatcherInv'
    BY <1>2 DEF ProviderAnswers
  <1>3. ASSUME NEW b \in BOOLEAN, ProviderRaises(c, b) PROVE DispatcherInv'
    BY <1>3 DEF ProviderRaises
  <1>4. CASE WsSendFails(c)
    BY <1>4 DEF WsSendFails
  <1>5. CASE ProviderRefuses(c)
    BY <1>5 DEF ProviderRefuses
  <1>6. CASE HookCreates(c)
    BY <1>6 DEF HookCreates
  <1>7. CASE HookHeard(c)
    BY <1>7 DEF HookHeard
  <1>8. CASE HookPublishes(c)
    BY <1>8 DEF HookPublishes
  <1>9. CASE HookRaises(c)
    BY <1>9 DEF HookRaises
  <1> QED BY <1>1, <1>2, <1>3, <1>4, <1>5, <1>6, <1>7, <1>8, <1>9 DEF GoesOn

(* A call leaves the connection and the client alone.                      *)
LEMMA CallsLeaveClient ==
    ASSUME NEW c \in Calls, Begin(c) \/ GoesOn(c) \/ ServedLate(c) PROVE UNCHANGED <<connVars, client>>
  <1>1. CASE Begin(c)
    BY <1>1 DEF Begin, Refuse, HttpBegin, WsBegin, ProviderBegin, Skip, HookBegin
  <1>2. CASE GoesOn(c)
    BY <1>2 DEF GoesOn, HttpGoesOn, PostAnswered, PostFails, BackoffOver, WsSent, WsSendFails, ProviderAnswers,
       ProviderRaises, ProviderRefuses, HookCreates, HookHeard, HookPublishes, HookRaises
  <1> QED BY <1>1, <1>2 DEF ServedLate

LEMMA StepInv == IInv /\ [Next]_vars => IInv'
  <1> SUFFICES ASSUME IInv, [Next]_vars PROVE IInv'
    OBVIOUS
  <1>1. ASSUME NEW c \in Calls, Begin(c) \/ GoesOn(c) \/ ServedLate(c) PROVE IInv'
    <2>1. DispatcherInv'
      BY <1>1, BeginKeeps, HttpKeeps, OthersKeep DEF IInv, ClientInv
    <2>2. ClientInv'
      BY <1>1, CallsLeaveClient DEF IInv, ClientInv, InService, connVars
    <2> QED BY <2>1, <2>2 DEF IInv
  <1>2. CASE UNCHANGED vars
    <2>1. client' = client /\ client \in {"none", "open", "closing"}
      BY <1>2 DEF vars, IInv, DispatcherInv, TypeOK
    <2>2. DispatcherInv'
      BY <1>2, <2>1, CallsUnchanged DEF vars, IInv
    <2> QED BY <1>2, <2>2 DEF vars, IInv, ClientInv, InService, connVars
  <1> QED BY <1>1, <1>2, OwnerKeeps DEF Next

LEMMA InitInv == Init => IInv
  BY RetryAssumption DEF Init, IInv, ClientInv, InService, DispatcherInv, TypeOK, OnTheWay, Results, Bindings,
     ServedBounded, Bound, OkMeansServed, DeniedIsFinal, HooksAcknowledged, Whereabouts, Conn!Init

-----------------------------------------------------------------------------
(* The counters.  A send through a provider is counted before it is made.  *)
Failed(v)  == Outbound(v, {"error", "failed"})
Counted(v) == Outbound(v, {"ok", "undelivered", "failed"}) \union {c \in Calls : via[c] = v /\ pc[c] = "providing"}

CountersInv == \A v \in Bindings :
    errors[v] = Cardinality(Failed(v)) /\ sent[v] >= Cardinality(Counted(v))

(* What one step of a call may do to the counters of a channel.            *)
Tally(c) == \A v \in Bindings :
    /\ \/ errors'[v] = errors[v] /\ Failed(v)' = Failed(v)
       \/ errors'[v] = errors[v] + 1 /\ c \notin Failed(v) /\ Failed(v)' = Failed(v) \union {c}
    /\ \/ sent'[v] \in {sent[v], sent[v] + 1} /\ Counted(v)' \subseteq Counted(v)
       \/ sent'[v] = sent[v] + 1 /\ Counted(v)' \subseteq Counted(v) \union {c}

LEMMA TallyKeeps ==
    ASSUME TypeOK, CountersInv, NEW c \in Calls, Tally(c) PROVE CountersInv'
  <1> SUFFICES ASSUME NEW v \in Bindings
               PROVE  errors'[v] = Cardinality(Failed(v)') /\ sent'[v] >= Cardinality(Counted(v)')
    BY DEF CountersInv
  <1>1. IsFiniteSet(Failed(v)) /\ IsFiniteSet(Counted(v))
    BY CallsAssumption, FS_Subset DEF Failed, Counted, Outbound
  <1>2. Cardinality(Failed(v) \union {c}) = IF c \in Failed(v) THEN Cardinality(Failed(v)) ELSE Cardinality(Failed(v)) + 1
    BY <1>1, FS_AddElement
  <1>3. errors'[v] = Cardinality(Failed(v)')
    BY <1>2 DEF Tally, CountersInv
  <1>4. /\ IsFiniteSet(Counted(v) \union {c})
        /\ Cardinality(Counted(v) \union {c}) <= Cardinality(Counted(v)) + 1
        /\ Cardinality(Counted(v)) \in Nat /\ sent[v] \in Nat
    <2>1. /\ IsFiniteSet(Counted(v) \union {c})
          /\ Cardinality(Counted(v) \union {c}) = IF c \in Counted(v) THEN Cardinality(Counted(v)) ELSE Cardinality(Counted(v)) + 1
      BY <1>1, FS_AddElement
    <2>2. Cardinality(Counted(v)) \in Nat
      BY <1>1, FS_CardinalityType
    <2> QED BY <2>1, <2>2 DEF TypeOK
  <1>5. \A T : Counted(v)' \subseteq T /\ IsFiniteSet(T)
                => Cardinality(Counted(v)') <= Cardinality(T) /\ Cardinality(Counted(v)') \in Nat /\ Cardinality(T) \in Nat
    BY FS_Subset, FS_CardinalityType
  <1>6. sent'[v] >= Cardinality(Counted(v)')
    <2>1. CASE sent'[v] \in {sent[v], sent[v] + 1} /\ Counted(v)' \subseteq Counted(v)
      BY <1>1, <1>4, <1>5, <2>1 DEF CountersInv
    <2>2. CASE sent'[v] = sent[v] + 1 /\ Counted(v)' \subseteq Counted(v) \union {c}
      BY <1>1, <1>4, <1>5, <2>2 DEF CountersInv
    <2> QED BY <2>1, <2>2 DEF Tally
  <1> QED BY <1>3, <1>6

LEMMA BeginTallies ==
    ASSUME DispatcherInv, NEW c \in Calls, Begin(c) PROVE Tally(c)
  <1> USE DEF DispatcherInv, TypeOK, OnTheWay, Results, Called, Goto, End, GiveUp, Count, Bindings,
          Tally, Failed, Counted, Outbound, metricVars
  <1>1. ASSUME NEW what \in {"refused", "invalid"}, Refuse(c, what) PROVE Tally(c)
    BY <1>1 DEF Refuse
  <1>2. ASSUME NEW v \in Bindings, HttpBegin(c, v) PROVE Tally(c)
    BY <1>2 DEF HttpBegin, Attempt
  <1>3. ASSUME NEW v \in Bindings, WsBegin(c, v) PROVE Tally(c)
    BY <1>3 DEF WsBegin
  <1>4. ASSUME NEW v \in Bindings, ProviderBegin(c, v) PROVE Tally(c)
    BY <1>4 DEF ProviderBegin
  <1>5. ASSUME NEW v \in Bindings, NEW op \in {"send", "invoke"}, Skip(c, op, v) PROVE Tally(c)
    BY <1>5 DEF Skip
  <1>6. CASE HookBegin(c)
    BY <1>6 DEF HookBegin
  <1> HIDE DEF DispatcherInv, TypeOK, Called, Goto, End, Tally
  <1> QED BY <1>1, <1>2, <1>3, <1>4, <1>5, <1>6 DEF Begin

LEMMA GoesOnTallies ==
    ASSUME DispatcherInv, NEW c \in Calls, GoesOn(c) PROVE Tally(c)
  <1> USE DEF DispatcherInv, TypeOK, OnTheWay, Results, Goto, End, GiveUp, Count, Bindings, Whereabouts,
          Tally, Failed, Counted, Outbound, metricVars
  <1>1. ASSUME NEW status \in {"ok", "denied", "failed"}, PostAnswered(c, status) PROVE Tally(c)
    BY <1>1 DEF PostAnswered, Succeeded, OnFailure, Retry
  <1>2. ASSUME NEW fate \in {"served", "late", "lost"}, PostFails(c, fate) PROVE Tally(c)
    BY <1>2 DEF PostFails, Retry
  <1>3. CASE BackoffOver(c)
    BY <1>3 DEF BackoffOver, Attempt
  <1>4. ASSUME NEW b \in BOOLEAN, WsSent(c, b) PROVE Tally(c)
    BY <1>4 DEF WsSent
  <1>5. ASSUME NEW b \in BOOLEAN, ProviderAnswers(c, b) PROVE Tally(c)
    BY <1>5 DEF ProviderAnswers
  <1>6. ASSUME NEW b \in BOOLEAN, ProviderRaises(c, b) PROVE Tally(c)
    BY <1>6 DEF ProviderRaises
  <1>7. CASE WsSendFails(c)
    BY <1>7 DEF WsSendFails
  <1>8. CASE ProviderRefuses(c)
    BY <1>8 DEF ProviderRefuses
  <1>9. CASE HookCreates(c) \/ HookHeard(c) \/ HookPublishes(c) \/ HookRaises(c)
    BY <1>9 DEF HookCreates, HookHeard, HookPublishes, HookRaises
  <1> QED BY <1>1, <1>2, <1>3, <1>4, <1>5, <1>6, <1>7, <1>8, <1>9 DEF GoesOn, HttpGoesOn

LEMMA CountersStep == DispatcherInv /\ CountersInv /\ [Next]_vars => CountersInv'
  <1> SUFFICES ASSUME DispatcherInv, CountersInv, [Next]_vars PROVE CountersInv'
    OBVIOUS
  <1>1. CASE UNCHANGED <<callVars, metricVars>>
    BY <1>1 DEF CountersInv, Failed, Counted, Outbound, callVars, metricVars
  <1>2. CASE Startup \/ ConnStep \/ ShutdownClosesConnection \/ ShutdownClosesClient \/ ShutdownEnds
    BY <1>1, <1>2, OwnerMoves, ConnMoves
  <1>3. ASSUME NEW c \in Calls, Begin(c) \/ GoesOn(c) PROVE CountersInv'
    BY <1>3, BeginTallies, GoesOnTallies, TallyKeeps DEF DispatcherInv
  <1>4. ASSUME NEW c \in Calls, ServedLate(c) PROVE CountersInv'
    BY <1>1, <1>4 DEF ServedLate
  <1> QED BY <1>1, <1>2, <1>3, <1>4 DEF Next, vars

LEMMA CountersInit == Init => CountersInv
  <1> SUFFICES ASSUME Init, NEW v \in Bindings
               PROVE  errors[v] = Cardinality(Failed(v)) /\ sent[v] >= Cardinality(Counted(v))
    BY DEF CountersInv
  <1>1. Failed(v) = {} /\ Counted(v) = {} /\ errors[v] = 0 /\ sent[v] = 0
    BY DEF Init, Failed, Counted, Outbound
  <1> QED BY <1>1, FS_EmptySet

LEMMA CountersAgree == CountersInv /\ TypeOK => MetricsAgree
  <1> SUFFICES ASSUME CountersInv, TypeOK, NEW v \in Bindings
               PROVE  sent[v] >= Cardinality(Outbound(v, {"ok", "undelivered", "failed"}))
    BY DEF MetricsAgree, CountersInv, Failed
  <1> DEFINE S == Outbound(v, {"ok", "undelivered", "failed"})
  <1>1. S \subseteq Counted(v) /\ IsFiniteSet(Counted(v))
    BY CallsAssumption, FS_Subset DEF Counted, Outbound
  <1>2. Cardinality(S) <= Cardinality(Counted(v)) /\ Cardinality(S) \in Nat /\ Cardinality(Counted(v)) \in Nat
    BY <1>1, FS_Subset, FS_CardinalityType
  <1> QED BY <1>2 DEF CountersInv, TypeOK

-----------------------------------------------------------------------------
LEMMA Invariance == Spec => [](IInv /\ CountersInv)
  <1>1. IInv => DispatcherInv
    BY DEF IInv
  <1> QED BY <1>1, InitInv, StepInv, CountersInit, CountersStep, PTL DEF Spec

(* A service processes an HTTP request at most once per attempt, late      *)
(* deliveries included, and there is one attempt and the configured        *)
(* retries.  ChannelDispatcher._http_send and _http_invoke.                *)
THEOREM RequestsAreBounded == Spec => []ServedBounded
  <1>1. IInv => ServedBounded
    BY DEF IInv, DispatcherInv
  <1> QED BY <1>1, Invariance, PTL

(* What callers are told agrees with the counters of the channel, with     *)
(* what the service has done and with what subscribers have heard.         *)
(* ChannelDispatcher.channel_send, channel_invoke, webhook_receive_handler.*)
THEOREM AnswersAreTrue == Spec => []AnswersTrue
  <1>1. IInv /\ CountersInv => AnswersTrue
    BY CountersAgree DEF IInv, DispatcherInv, AnswersTrue
  <1> QED BY <1>1, Invariance, PTL

LEMMA ServiceStep ==
    ASSUME IInv, [Next]_vars, NEW c \in Calls, via'[c] # "webhook", result'[c] = "raised", result[c] # "raised"
    PROVE  owner \notin {"starting", "running"}
  <1> USE DEF IInv, DispatcherInv, TypeOK, Goto, End, Count, GiveUp
  <1>1. CASE UNCHANGED result
    BY <1>1
  <1>2. CASE Startup \/ ConnStep \/ ShutdownClosesConnection \/ ShutdownClosesClient \/ ShutdownEnds
    BY <1>1, <1>2, OwnerMoves, ConnMoves DEF callVars
  <1>3. ASSUME NEW d \in Calls, Attempt(d) PROVE client # "open" \/ UNCHANGED result
    BY <1>3 DEF Attempt
  <1>4. ASSUME NEW d \in Calls, Begin(d) PROVE client # "open"
    BY <1>3, <1>4 DEF Begin, Refuse, HttpBegin, WsBegin, ProviderBegin, Skip, HookBegin
  <1>5. ASSUME NEW d \in Calls, GoesOn(d) PROVE client # "open"
    <2>1. CASE HookRaises(d)
      BY <2>1 DEF HookRaises, Whereabouts
    <2> QED BY <1>3, <1>5, <2>1 DEF GoesOn, HttpGoesOn, PostAnswered, PostFails, BackoffOver, Retry, OnFailure, WsSent,
         WsSendFails, ProviderAnswers, ProviderRaises, ProviderRefuses, HookCreates, HookHeard, HookPublishes
  <1>6. CASE \E d \in Calls : ServedLate(d)
    BY <1>1, <1>6 DEF ServedLate, callVars
  <1>7. CASE UNCHANGED vars
    BY <1>1, <1>7 DEF vars, callVars
  <1> QED BY <1>2, <1>4, <1>5, <1>6, <1>7 DEF Next, ClientInv, InService

(* In service a call never raises what its route does not map: the client  *)
(* is open from before the first connection until after the last close.    *)
(* ChannelDispatcher.startup and shutdown.                                 *)
THEOREM ServiceIsMapped == Spec => MappedInService
  <1>1. IInv /\ [Next]_vars =>
          \A c \in Calls : via'[c] # "webhook" /\ result'[c] = "raised" /\ result[c] # "raised"
            => owner \notin {"starting", "running"}
    BY ServiceStep
  <1> QED BY <1>1, Invariance, PTL DEF Spec, MappedInService

(* After shutdown no attempt is begun and no socket written to, although a *)
(* backoff goes on and the connection may come back.                       *)
(* ChannelDispatcher.shutdown.                                             *)
THEOREM ShutdownIsQuiet == Spec => QuietAfterShutdown
  <1> DEFINE Quiet == \A c \in Calls : tries'[c] = tries[c] /\ (pc'[c] = "sending" => pc[c] = "sending")
  <1>1. ASSUME IInv, [Next]_vars, owner = "closed", client = "none" PROVE Quiet
    <2> USE DEF IInv, DispatcherInv, TypeOK, Goto, End, Count, GiveUp
    <2>1. CASE UNCHANGED callVars
      BY <2>1 DEF callVars
    <2>2. ASSUME NEW d \in Calls, Begin(d) PROVE Quiet
      BY <1>1, <2>2 DEF Begin, Refuse, HttpBegin, Attempt, WsBegin, Registered, ProviderBegin, Skip, HookBegin
    <2>3. ASSUME NEW d \in Calls, GoesOn(d) PROVE Quiet
      BY <1>1, <2>3 DEF GoesOn, HttpGoesOn, PostAnswered, PostFails, BackoffOver, Attempt, Retry, OnFailure, WsSent,
         WsSendFails, ProviderAnswers, ProviderRaises, ProviderRefuses, HookCreates, HookHeard, HookPublishes, HookRaises
    <2>4. CASE \E d \in Calls : ServedLate(d)
      BY <2>1, <2>4 DEF ServedLate
    <2>5. CASE UNCHANGED vars
      BY <2>1, <2>5 DEF vars
    <2> QED BY <1>1, <2>1, <2>2, <2>3, <2>4, <2>5, OwnerMoves, ConnMoves DEF Next
  <1>2. IInv /\ [Next]_vars => (owner = "closed" /\ client = "none" => Quiet)
    BY <1>1
  <1> QED BY <1>2, Invariance, PTL DEF Spec, QuietAfterShutdown

-----------------------------------------------------------------------------
(* The connection.                                                         *)
Cn == INSTANCE ChannelWsProofs

(* Whatever the calls do, the dispatcher drives its connection as ChannelWs*)
(* says: what startup and shutdown do to it are steps of its owner, what   *)
(* it does by itself are its own, and calls leave it alone.                *)
THEOREM DispatcherDrivesConnection == Spec => Conn!Spec
<1>1. Init => Conn!Init
  BY DEF Init
<1>2. [Next]_vars => [Conn!Next]_(Conn!vars)
  <2> SUFFICES ASSUME [Next]_vars PROVE Conn!Next \/ UNCHANGED Conn!vars
    OBVIOUS
  <2>1. CASE Startup
    BY <2>1 DEF Startup, Conn!Next
  <2>2. CASE ConnStep
    BY <2>2 DEF ConnStep, Conn!Next
  <2>3. CASE ShutdownClosesConnection
    BY <2>3 DEF ShutdownClosesConnection, Conn!Next
  <2>4. CASE ShutdownClosesClient
    BY <2>4 DEF ShutdownClosesClient, Conn!Next
  <2>5. CASE UNCHANGED connVars
    BY <2>5 DEF connVars, Conn!vars, Conn!socketVars, Conn!timerVars, Conn!callVars
  <2>6. ShutdownEnds \/ UNCHANGED vars => UNCHANGED connVars
    BY DEF ShutdownEnds, vars
  <2>7. ASSUME NEW c \in Calls, Begin(c) \/ GoesOn(c) \/ ServedLate(c) PROVE UNCHANGED connVars
    <3>1. CASE Begin(c)
      BY <3>1 DEF Begin, Refuse, HttpBegin, WsBegin, ProviderBegin, Skip, HookBegin
    <3>2. CASE HttpGoesOn(c)
      BY <3>2 DEF HttpGoesOn, PostAnswered, PostFails, BackoffOver
    <3>3. CASE \E b \in BOOLEAN : WsSent(c, b) \/ ProviderAnswers(c, b) \/ ProviderRaises(c, b)
      BY <3>3 DEF WsSent, ProviderAnswers, ProviderRaises
    <3>4. CASE WsSendFails(c) \/ ProviderRefuses(c) \/ HookCreates(c) \/ HookHeard(c) \/ HookPublishes(c)
               \/ HookRaises(c)
      BY <3>4 DEF WsSendFails, ProviderRefuses, HookCreates, HookHeard, HookPublishes, HookRaises
    <3>5. CASE ServedLate(c)
      BY <3>5 DEF ServedLate
    <3> QED BY <2>7, <3>1, <3>2, <3>3, <3>4, <3>5 DEF GoesOn
  <2> QED BY <2>1, <2>2, <2>3, <2>4, <2>5, <2>6, <2>7 DEF Next
<1> QED BY <1>1, <1>2, PTL DEF Spec, Conn!Spec

(* So, under the dispatcher and whatever its calls: one task at most       *)
(* drives the connection, its attempts are bounded and its state says what *)
(* its tasks do.                                                           *)
THEOREM DispatchedConnectionCorrect ==
    Spec => [](Conn!OneDriver /\ Conn!AttemptsBounded /\ Conn!StateHonest)
<1>1. Conn!Init => Cn!ConnectionInv
  <2>1. Conn!Init => Cn!Init
    BY DEF Conn!Init, Cn!Init
  <2> QED BY <2>1, Cn!InitInv, RetryAssumption
<1>2. Cn!ConnectionInv /\ [Conn!Next]_(Conn!vars) => Cn!ConnectionInv'
  <2>1. Conn!Next => Cn!Next
    <3>1. Conn!Start \/ Conn!Connected \/ Conn!ConnectFailed
           => Cn!Start \/ Cn!Connected \/ Cn!ConnectFailed
      BY DEF Conn!Start, Conn!Connected, Conn!ConnectFailed, Cn!Start, Cn!Connected,
             Cn!ConnectFailed, Conn!Connecting, Cn!Connecting, Conn!Started, Cn!Started,
             Conn!SpawnReconnect, Cn!SpawnReconnect, Conn!socketVars, Cn!socketVars,
             Conn!timerVars, Cn!timerVars
    <3>2. Conn!ReconnectBegins \/ Conn!BackoffOver => Cn!ReconnectBegins \/ Cn!BackoffOver
      BY DEF Conn!ReconnectBegins, Conn!BackoffOver, Cn!ReconnectBegins, Cn!BackoffOver,
             Conn!Exhausted, Cn!Exhausted, Conn!Connecting, Cn!Connecting,
             Conn!socketVars, Cn!socketVars, Conn!callVars, Cn!callVars
    <3>3. (\E s \in Conn!Sockets : Conn!PeerCloses(s) \/ Conn!ReaderEnds(s))
           => \E s \in Cn!Sockets : Cn!PeerCloses(s) \/ Cn!ReaderEnds(s)
      BY DEF Conn!Sockets, Cn!Sockets, Conn!PeerCloses, Cn!PeerCloses, Conn!ReaderEnds,
             Cn!ReaderEnds, Conn!ReaderLeaves, Cn!ReaderLeaves, Conn!SpawnReconnect,
             Cn!SpawnReconnect, Conn!timerVars, Cn!timerVars, Conn!callVars, Cn!callVars
    <3>4. Conn!ReaderBegins => Cn!ReaderBegins
      BY DEF Conn!ReaderBegins, Cn!ReaderBegins, Conn!timerVars, Cn!timerVars,
             Conn!callVars, Cn!callVars
    <3>5. Conn!CloseReader \/ Conn!CloseSocket \/ Conn!CloseDone
           => Cn!CloseReader \/ Cn!CloseSocket \/ Cn!CloseDone
      BY DEF Conn!CloseReader, Cn!CloseReader, Conn!CloseSocket, Cn!CloseSocket,
             Conn!CloseDone, Cn!CloseDone, Conn!ReaderLeaves, Cn!ReaderLeaves,
             Conn!SpawnReconnect, Cn!SpawnReconnect, Conn!socketVars, Cn!socketVars,
             Conn!timerVars, Cn!timerVars, Conn!callVars, Cn!callVars
    <3> QED BY <3>1, <3>2, <3>3, <3>4, <3>5 DEF Conn!Next, Cn!Next
  <2>2. UNCHANGED Conn!vars => UNCHANGED Cn!vars
    BY DEF Conn!vars, Cn!vars, Conn!socketVars, Cn!socketVars, Conn!timerVars, Cn!timerVars,
           Conn!callVars, Cn!callVars
  <2> QED BY <2>1, <2>2, Cn!StepInv, RetryAssumption
<1>3. Cn!ConnectionInv => Conn!OneDriver /\ Conn!AttemptsBounded /\ Conn!StateHonest
  BY DEF Cn!ConnectionInv, Cn!OneDriver, Conn!OneDriver, Cn!AttemptsBounded,
         Conn!AttemptsBounded, Cn!StateHonest, Conn!StateHonest, Cn!Drivers, Conn!Drivers,
         Cn!Open, Conn!Open
<1> QED BY <1>1, <1>2, <1>3, DispatcherDrivesConnection, PTL DEF Conn!Spec
=============================================================================
