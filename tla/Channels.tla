------------------------------- MODULE Channels -------------------------------
(***************************************************************************)
(* The channel dispatcher (channels.py) and the routes in front of it      *)
(* (routing/channels.py): sends and invocations over HTTP with retries,    *)
(* over the outbound WebSocket of ChannelWs, or through a provider, and    *)
(* the inbound webhook, while the dispatcher starts up and shuts down.     *)
(*                                                                         *)
(* An action is what happens between two awaits.  A call is made on one    *)
(* channel, `via` how that channel is bound; channels share the HTTP       *)
(* client.  There is one WebSocket channel.  A request whose attempt timed *)
(* out may be served all the same, at once or later.                       *)
(***************************************************************************)
EXTENDS Naturals, FiniteSets

CONSTANTS
    Calls,          \* requests to the dispatcher; each is made once
    HttpRetries,    \* config.max_retries of the HTTP channel
    MaxRetries,     \* config.max_retries of the WebSocket channel
    MaxSockets      \* bound: sockets opened

ASSUME RetryAssumption == {HttpRetries, MaxRetries, MaxSockets} \subseteq Nat
ASSUME CallsAssumption == IsFiniteSet(Calls)

VARIABLES
    reconnect, owner, state, ws, reader, count, readers, fresh, alive,
    connects, spawned, sleeping, attempts,      \* the connection: see ChannelWs
    client,     \* _http_client: none, open, or closing
    pc,         \* where each call is
    via,        \* how its channel is bound; webhook for the inbound ones
    tries,      \* HTTP attempts begun
    socket,     \* the socket a WebSocket send is writing to
    result,     \* what the call came to
    sent, errors, received,     \* _metrics of each channel
    served,     \* external: times the service has processed the request
    late,       \* external: timed-out requests that may still be served
    denied,     \* history: the service has answered the call with a 4xx
    rows,       \* webhooks whose row has been created
    announced   \* webhooks whose event has been published

connVars    == <<reconnect, owner, state, ws, reader, count, readers, fresh, alive,
                 connects, spawned, sleeping, attempts>>
callVars    == <<pc, via, tries, socket, result>>
metricVars  == <<sent, errors, received>>
serviceVars == <<served, late, denied>>
hookVars    == <<rows, announced>>
vars == <<connVars, client, callVars, metricVars, serviceVars, hookVars>>

Conn == INSTANCE ChannelWs

(* http and ws have a url; provider and unbound declare a contract, the    *)
(* latter without a provider (as all are before startup); nowhere has      *)
(* neither.                                                                *)
Bindings == {"http", "ws", "provider", "unbound", "nowhere"}

Init ==
    /\ Conn!Init
    /\ client = "none"
    /\ pc = [c \in Calls |-> "idle"]
    /\ via = [c \in Calls |-> "nowhere"]
    /\ tries = [c \in Calls |-> 0] /\ socket = [c \in Calls |-> 0]
    /\ result = [c \in Calls |-> "none"]
    /\ sent = [v \in Bindings |-> 0] /\ errors = [v \in Bindings |-> 0] /\ received = 0
    /\ served = [c \in Calls |-> 0] /\ late = [c \in Calls |-> 0] /\ denied = {}
    /\ rows = {} /\ announced = {}

-----------------------------------------------------------------------------
Goto(c, label) == pc' = [pc EXCEPT ![c] = label]
End(c, what)   == Goto(c, "done") /\ result' = [result EXCEPT ![c] = what]
Count(m, v)    == m' = [m EXCEPT ![v] = @ + 1]

Called(c, v)   == pc[c] = "idle" /\ via' = [via EXCEPT ![c] = v]

(* Fault: shutdown leaves the connections in _ws_connections.              *)
RegisteredForever == owner # "idle"

(* _ws_connections has the channel from startup until shutdown clears it.  *)
Registered == owner \in {"starting", "running", "closing", "closing_socket"}

(* Scope, action and parameters are checked before anything else.          *)
Refuse(c, what) ==
    /\ pc[c] = "idle"
    /\ End(c, what)
    /\ UNCHANGED <<connVars, client, via, tries, socket, metricVars, serviceVars, hookVars>>

(* Without a url nothing goes out, and the caller is told ok.  A channel   *)
(* with a contract has none: an invocation does not find the provider that *)
(* a send would use.  A send that finds no provider is not counted.        *)
Uncounted(op, v) == op = "send" /\ v = "unbound"
Skip(c, op, v) ==
    /\ Called(c, v)
    /\ v \in {"nowhere", "unbound"} \/ (v = "provider" /\ op = "invoke")
    /\ End(c, "skipped")
    /\ IF Uncounted(op, v) THEN UNCHANGED sent ELSE Count(sent, v)
    /\ UNCHANGED <<connVars, client, tries, socket, errors, received, serviceVars, hookVars>>

-----------------------------------------------------------------------------
(* HTTP.  Without a client the attempt raises what no caller maps.         *)
Attempt(c) ==
    \/ client = "open" /\ tries' = [tries EXCEPT ![c] = @ + 1] /\ Goto(c, "posting") /\ UNCHANGED result
    \/ client # "open" /\ End(c, "raised") /\ UNCHANGED tries

HttpBegin(c, v) ==
    /\ Called(c, v)
    /\ v = "http" \/ (v = "ws" /\ ~ Registered)
    /\ Attempt(c)
    /\ UNCHANGED <<connVars, client, socket, metricVars, serviceVars, hookVars>>

(* Fault: one attempt too many.                                            *)
TriesLeftLate(c) == tries[c] <= HttpRetries + 1

TriesLeft(c) == tries[c] <= HttpRetries

GiveUp(c, v) == End(c, "error") /\ Count(errors, v)
Retry(c) ==
    \/ TriesLeft(c) /\ Goto(c, "backoff") /\ UNCHANGED <<result, errors>>
    \/ ~ TriesLeft(c) /\ GiveUp(c, via[c])

(* Fault: a 4xx is retried like a 5xx.                                     *)
OnFailureRetry(c, status) == Retry(c)

(* A 4xx is final, a 5xx is retried.                                       *)
OnFailure(c, status) == IF status = "denied" THEN GiveUp(c, via[c]) ELSE Retry(c)

(* Fault: any answer counts as success.                                    *)
SucceededAnyhow(status) == status # "denied"

Succeeded(status) == status = "ok"

PostAnswered(c, status) ==
    /\ pc[c] = "posting"
    /\ Count(sent, via[c])
    /\ served' = [served EXCEPT ![c] = IF status = "ok" THEN @ + 1 ELSE @]
    /\ denied' = IF status = "denied" THEN denied \union {c} ELSE denied
    /\ IF Succeeded(status) THEN End(c, "ok") /\ UNCHANGED errors ELSE OnFailure(c, status)
    /\ UNCHANGED <<connVars, client, via, tries, socket, received, late, hookVars>>

(* A timeout or a connection error: the request was served, may be served  *)
(* later, or is lost.                                                      *)
PostFails(c, fate) ==
    /\ pc[c] = "posting"
    /\ served' = [served EXCEPT ![c] = IF fate = "served" THEN @ + 1 ELSE @]
    /\ late'   = [late EXCEPT ![c] = IF fate = "late" THEN @ + 1 ELSE @]
    /\ Retry(c)
    /\ UNCHANGED <<connVars, client, via, tries, socket, sent, received, denied, hookVars>>

(* Fault: nothing follows the sleep before the last attempt.               *)
BackoffBeforeMore(c) ==
    /\ pc[c] = "backoff" /\ tries[c] < HttpRetries
    /\ Attempt(c)
    /\ UNCHANGED <<connVars, client, via, socket, metricVars, serviceVars, hookVars>>

BackoffOver(c) ==
    /\ pc[c] = "backoff"
    /\ Attempt(c)
    /\ UNCHANGED <<connVars, client, via, socket, metricVars, serviceVars, hookVars>>

ServedLate(c) ==
    /\ late[c] > 0
    /\ late' = [late EXCEPT ![c] = @ - 1]
    /\ served' = [served EXCEPT ![c] = @ + 1]
    /\ UNCHANGED <<connVars, client, callVars, metricVars, denied, hookVars>>

-----------------------------------------------------------------------------
(* WebSocket: the state is checked, then the write is awaited.             *)
WsBegin(c, v) ==
    /\ Called(c, v) /\ v = "ws" /\ Registered
    /\ \/ state = "connected" /\ socket' = [socket EXCEPT ![c] = ws] /\ Goto(c, "sending")
          /\ UNCHANGED <<result, errors>>
       \/ state # "connected" /\ GiveUp(c, v) /\ UNCHANGED socket
    /\ UNCHANGED <<connVars, client, tries, sent, received, serviceVars, hookVars>>

(* The write ends; what was written may not arrive.                        *)
WsSent(c, arrives) ==
    /\ pc[c] = "sending"
    /\ End(c, "ok") /\ Count(sent, via[c])
    /\ served' = [served EXCEPT ![c] = IF arrives THEN @ + 1 ELSE @]
    /\ UNCHANGED <<connVars, client, via, tries, socket, errors, received, late, denied, hookVars>>

WsSendFails(c) ==
    /\ pc[c] = "sending" /\ socket[c] \notin alive
    /\ GiveUp(c, via[c])
    /\ UNCHANGED <<connVars, client, via, tries, socket, sent, received, serviceVars, hookVars>>

-----------------------------------------------------------------------------
(* Providers (external): an outcome, or an exception that the failure mode *)
(* of the channel turns into an error or into a send that is not ok.       *)
ProviderBegin(c, v) ==
    /\ Called(c, v) /\ v = "provider" /\ owner # "idle"
    /\ Goto(c, "providing") /\ Count(sent, v)
    /\ UNCHANGED <<connVars, client, tries, socket, result, errors, received, serviceVars, hookVars>>

ProviderAnswers(c, delivered) ==
    /\ pc[c] = "providing"
    /\ End(c, IF delivered THEN "ok" ELSE "undelivered")
    /\ served' = [served EXCEPT ![c] = IF delivered THEN @ + 1 ELSE @]
    /\ UNCHANGED <<connVars, client, via, tries, socket, metricVars, late, denied, hookVars>>

(* Fault: a failure that is only logged is not counted.                    *)
ProviderRaisesUncounted(c, surface) ==
    /\ pc[c] = "providing"
    /\ End(c, IF surface THEN "error" ELSE "failed")
    /\ UNCHANGED <<connVars, client, via, tries, socket, metricVars, serviceVars, hookVars>>

ProviderRaises(c, surface) ==
    /\ pc[c] = "providing"
    /\ End(c, IF surface THEN "error" ELSE "failed")
    /\ Count(errors, via[c])
    /\ UNCHANGED <<connVars, client, via, tries, socket, sent, received, serviceVars, hookVars>>

(* A ChannelError passes as it is, uncounted: a provider's own, or the one *)
(* for a contract that send has no branch for.                             *)
ProviderRefuses(c) ==
    /\ pc[c] = "providing"
    /\ End(c, "unsent")
    /\ UNCHANGED <<connVars, client, via, tries, socket, metricVars, serviceVars, hookVars>>

-----------------------------------------------------------------------------
(* webhook_receive_handler: create the row, run the listeners, count,      *)
(* publish; storage or a listener may raise.                               *)
HookBegin(c) ==
    /\ Called(c, "webhook")
    /\ Goto(c, "creating")
    /\ UNCHANGED <<connVars, client, tries, socket, result, metricVars, serviceVars, hookVars>>

HookCreates(c) ==
    /\ pc[c] = "creating"
    /\ rows' = rows \union {c}
    /\ Goto(c, "listening")
    /\ UNCHANGED <<connVars, client, via, tries, socket, result, metricVars, serviceVars, announced>>

HookHeard(c) ==
    /\ pc[c] = "listening"
    /\ received' = received + 1
    /\ Goto(c, "publishing")
    /\ UNCHANGED <<connVars, client, via, tries, socket, result, sent, errors, serviceVars, hookVars>>

HookPublishes(c) ==
    /\ pc[c] = "publishing"
    /\ announced' = announced \union {c}
    /\ End(c, "ok")
    /\ UNCHANGED <<connVars, client, via, tries, socket, metricVars, serviceVars, rows>>

(* Fault: a listener that raises is passed over, the event with it.        *)
HookRaisesSilently(c) ==
    /\ pc[c] \in {"creating", "listening", "publishing"}
    /\ End(c, "ok")
    /\ UNCHANGED <<connVars, client, via, tries, socket, metricVars, serviceVars, hookVars>>

HookRaises(c) ==
    /\ pc[c] \in {"creating", "listening", "publishing"}
    /\ End(c, "raised")
    /\ UNCHANGED <<connVars, client, via, tries, socket, metricVars, serviceVars, hookVars>>

-----------------------------------------------------------------------------
(* Fault: startup opens the client after the connections are up.           *)
OpensClientLate == client' = client

OpensClient == client' = "open"

Startup ==
    /\ Conn!Start /\ OpensClient
    /\ UNCHANGED <<callVars, metricVars, serviceVars, hookVars>>

(* What the connection does by itself, and shutdown awaiting its close.    *)
ConnStep ==
    /\ Conn!Connected \/ Conn!ConnectFailed \/ Conn!ReconnectBegins \/ Conn!BackoffOver
       \/ Conn!ReaderBegins \/ \E s \in Conn!Sockets : Conn!PeerCloses(s) \/ Conn!ReaderEnds(s)
    /\ UNCHANGED <<client, callVars, metricVars, serviceVars, hookVars>>

ShutdownClosesConnection ==
    /\ Conn!CloseReader \/ Conn!CloseSocket
    /\ UNCHANGED <<client, callVars, metricVars, serviceVars, hookVars>>

ShutdownClosesClient ==
    /\ Conn!CloseDone /\ client' = "closing"
    /\ UNCHANGED <<callVars, metricVars, serviceVars, hookVars>>

ShutdownEnds ==
    /\ client = "closing" /\ client' = "none"
    /\ UNCHANGED <<connVars, callVars, metricVars, serviceVars, hookVars>>

Begin(c) ==
    \/ \E what \in {"refused", "invalid"} : Refuse(c, what)
    \/ \E v \in Bindings : HttpBegin(c, v) \/ WsBegin(c, v) \/ ProviderBegin(c, v)
                              \/ \E op \in {"send", "invoke"} : Skip(c, op, v)
    \/ HookBegin(c)

HttpGoesOn(c) ==
    \/ \E status \in {"ok", "denied", "failed"} : PostAnswered(c, status)
    \/ \E fate \in {"served", "late", "lost"} : PostFails(c, fate)
    \/ BackoffOver(c)

GoesOn(c) ==
    \/ HttpGoesOn(c)
    \/ \E b \in BOOLEAN : WsSent(c, b) \/ ProviderAnswers(c, b) \/ ProviderRaises(c, b)
    \/ WsSendFails(c) \/ ProviderRefuses(c)
    \/ HookCreates(c) \/ HookHeard(c) \/ HookPublishes(c) \/ HookRaises(c)

Next ==
    \/ Startup \/ ConnStep \/ ShutdownClosesConnection \/ ShutdownClosesClient \/ ShutdownEnds
    \/ \E c \in Calls : Begin(c) \/ GoesOn(c) \/ ServedLate(c)

(* Every await ends: requests time out, sleeps are over, writes and        *)
(* providers return.                                                       *)
Spec == Init /\ [][Next]_vars
FairSpec == Spec /\ \A c \in Calls : WF_vars(GoesOn(c))
-----------------------------------------------------------------------------
Results == {"none", "refused", "invalid", "skipped", "ok", "error", "failed", "undelivered",
            "unsent", "raised"}
OnTheWay == {"posting", "backoff", "sending", "providing", "creating", "listening", "publishing"}

TypeOK ==
    /\ client \in {"none", "open", "closing"}
    /\ pc \in [Calls -> {"idle", "done"} \union OnTheWay]
    /\ via \in [Calls -> Bindings \union {"webhook"}]
    /\ tries \in [Calls -> Nat] /\ socket \in [Calls -> Nat]
    /\ result \in [Calls -> Results]
    /\ sent \in [Bindings -> Nat] /\ errors \in [Bindings -> Nat] /\ received \in Nat
    /\ served \in [Calls -> Nat] /\ late \in [Calls -> Nat]
    /\ denied \subseteq Calls /\ rows \subseteq Calls /\ announced \subseteq Calls
    /\ \A c \in Calls : pc[c] = "done" <=> result[c] # "none"

(* Whatever times out, is retried or arrives late, the service processes a *)
(* request at most once per attempt: one and the configured retries.       *)
Bound(c) == IF pc[c] = "posting" THEN tries[c] - 1 ELSE tries[c]
ServedBounded == \A c \in Calls :
    /\ tries[c] <= HttpRetries + 1
    /\ via[c] = "http" => served[c] + late[c] <= Bound(c)

(* A call that is answered ok over HTTP was processed.                     *)
OkMeansServed == \A c \in Calls :
    via[c] = "http" /\ result[c] = "ok" => served[c] > 0

(* What the service denies is not asked for again: the call has ended, and *)
(* with an error.                                                          *)
DeniedIsFinal == \A c \in denied : pc[c] = "done" /\ result[c] = "error"

(* A webhook that is acknowledged has left a row that subscribers heard    *)
(* of, and nothing is heard of a row that is not there.                    *)
HooksAcknowledged ==
    /\ \A c \in Calls : via[c] = "webhook" /\ result[c] = "ok" => c \in announced
    /\ announced \subseteq rows

(* What makes these inductive: what being somewhere means.                 *)
Whereabouts == \A c \in Calls :
    /\ pc[c] \in {"posting", "backoff"} => via[c] # "webhook" /\ tries[c] > 0
    /\ pc[c] = "posting" => tries[c] <= HttpRetries + 1
    /\ pc[c] = "backoff" => tries[c] <= HttpRetries
    /\ pc[c] = "idle" => tries[c] = 0 /\ served[c] = 0 /\ late[c] = 0
    /\ pc[c] \in {"sending", "providing"} => via[c] \in {"ws", "provider"}
    /\ pc[c] \in {"creating", "listening", "publishing"} => via[c] = "webhook" /\ tries[c] = 0
    /\ pc[c] \in {"listening", "publishing"} => c \in rows
DispatcherInv ==
    /\ TypeOK /\ ServedBounded /\ OkMeansServed /\ DeniedIsFinal /\ HooksAcknowledged /\ Whereabouts

(* The counters of a channel agree with what its callers were told, no     *)
(* matter how the calls interleave: one error per call that failed, but    *)
(* for the ChannelErrors of a provider, and nothing succeeded that is not  *)
(* counted as sent.                                                        *)
Outbound(v, what) == {c \in Calls : via[c] = v /\ result[c] \in what}
MetricsAgree == \A v \in Bindings :
    /\ errors[v] = Cardinality(Outbound(v, {"error", "failed"}))
    /\ sent[v] >= Cardinality(Outbound(v, {"ok", "undelivered", "failed"}))

(* What callers are told is true: it agrees with the counters, with what   *)
(* the service has done and with what subscribers have heard.              *)
AnswersTrue == MetricsAgree /\ OkMeansServed /\ DeniedIsFinal /\ HooksAcknowledged

(* While the dispatcher is in service a send or an invocation never raises *)
(* anything its route does not map to an answer.                           *)
MappedInService ==
    [][\A c \in Calls : via'[c] # "webhook" /\ result'[c] = "raised" /\ result[c] # "raised"
            => owner \notin {"starting", "running"}]_vars

(* After shutdown nothing goes out any more, although calls may still be   *)
(* in a backoff and the connection may come back behind its back.          *)
QuietAfterShutdown ==
    [][owner = "closed" /\ client = "none" =>
            \A c \in Calls : tries'[c] = tries[c] /\ (pc'[c] = "sending" => pc[c] = "sending")]_vars

(* Every call that is made ends.                                           *)
CallsEnd == \A c \in Calls : pc[c] \in OnTheWay ~> pc[c] = "done"
=============================================================================
