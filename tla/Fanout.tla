------------------------------- MODULE Fanout -------------------------------
(***************************************************************************)
(* From a changed row to the browsers that watch it: the event bus         *)
(* (events.py), the registry of connections with its ownership gate and    *)
(* its fan-out (routing/connection_manager.py), and the session of each    *)
(* connection (routing/channel_dispatch.py).                               *)
(*                                                                         *)
(* The rows are those of one content type.  A row is a version number, an  *)
(* event says which version of which row it is about, and what a           *)
(* connection has been told is the latest version in any frame sent to it. *)
(* A frame is on the wire when send_json is called; the call returns later.*)
(***************************************************************************)
EXTENDS Naturals, Sequences, FiniteSets

CONSTANTS
    Conns,          \* connections; each connects once, its id is a fresh uuid
    Rows,           \* rows of the content type
    Forwarders,     \* broadcasts the adapter runs at a time
    Patterns,       \* subscription topics
    ContentPatterns,\* those of the shape content.<name>...
    Channels,       \* channel ids content.<name>.<verb> of the events about a row
    Matching,       \* <<pattern, channel>>: the pattern is a prefix
    CarryingOwner,  \* channels whose payload is the record, owner field included
    Owned,          \* the content type has an ownership field
    OwnerOf,        \* the owner field of each row
    PrincipalOf,    \* the principal of each connection, or Anonymous
    Anonymous,
    NoPattern,
    NoChannel,
    NoEvent,
    MaxVersion      \* bound: writes per row

ASSUME TopicAssumption ==
    /\ ContentPatterns \subseteq Patterns /\ Matching \subseteq Patterns \X Channels
    /\ CarryingOwner \subseteq Channels
    /\ NoPattern \notin Patterns /\ NoChannel \notin Channels
ASSUME SizeAssumption == IsFiniteSet(Conns)
ASSUME OwnerAssumption == \A r \in Rows : OwnerOf[r] # Anonymous
ASSUME SentinelAssumption ==
    NoEvent \notin [channel : Channels, row : Rows, version : 0 .. MaxVersion]
ASSUME FlagAssumption == Owned \in BOOLEAN
ASSUME BoundAssumption == MaxVersion \in Nat

VARIABLES
    version,    \* rows in storage
    via,        \* history: the channel the last write of a row announces itself on
    unpublished,\* events of writes whose handler has not published yet
    queue,      \* the adapter's queue at the event bus
    active,     \* the registry: its connections
    registered, \* connections registered so far
    birth,      \* which of them a connection was: the order of the registry
    subs,       \* subscriptions
    up,         \* connections whose peer is there
    pc,         \* where the session of a connection is
    asked,      \* the topic of the frame it is handling
    subscribing,\* that frame is a subscribe
    loaded,     \* the rows it has read for the answer
    event,      \* the event of a broadcast, NoEvent when it is idle
    at,         \* the registration order of the connection it is sending to
    size,       \* the size of the registry when it began
    dead,       \* connections whose send raised
    told,       \* history: latest version of a row in any frame sent to a connection
    answered,   \* history: subscriptions acknowledged
    missed      \* history: <<connection, row, version>> a broadcast that raised left out

rowVars      == <<version, via, unpublished, queue>>
registryVars == <<active, registered, birth, subs, up>>
sessionVars  == <<pc, asked, subscribing, loaded>>
castVars     == <<event, at, size, dead>>
historyVars  == <<told, answered, missed>>
vars == <<rowVars, registryVars, sessionVars, castVars, historyVars>>

Versions == 0 .. MaxVersion
Events   == [channel : Channels, row : Rows, version : Versions]

Init ==
    /\ version = [r \in Rows |-> 0]
    /\ via = [r \in Rows |-> NoChannel]
    /\ unpublished = {} /\ queue = <<>>
    /\ active = {} /\ registered = 0 /\ birth = [c \in Conns |-> 0]
    /\ subs = [c \in Conns |-> {}] /\ up = {}
    /\ pc = [c \in Conns |-> "out"]
    /\ asked = [c \in Conns |-> NoPattern]
    /\ subscribing = [c \in Conns |-> FALSE]
    /\ loaded = [c \in Conns |-> [r \in Rows |-> 0]]
    /\ event = [f \in Forwarders |-> NoEvent]
    /\ at = [f \in Forwarders |-> 0]
    /\ size = [f \in Forwarders |-> 0]
    /\ dead = [f \in Forwarders |-> {}]
    /\ told = [c \in Conns |-> [r \in Rows |-> 0]]
    /\ answered = [c \in Conns |-> {}]
    /\ missed = {}

Latest(a, b) == IF a > b THEN a ELSE b
-----------------------------------------------------------------------------
(* A handler writes a row, and publishes an await later.                   *)
Write(r, ch) ==
    /\ version[r] < MaxVersion
    /\ version' = [version EXCEPT ![r] = @ + 1]
    /\ via' = [via EXCEPT ![r] = ch]
    /\ unpublished' = unpublished \union {[channel |-> ch, row |-> r, version |-> version[r] + 1]}
    /\ UNCHANGED <<queue, registryVars, sessionVars, castVars, historyVars>>

(* EventBus.publish; the queue is unbounded, so nothing is awaited.        *)
Publish(e) ==
    /\ e \in unpublished
    /\ unpublished' = unpublished \ {e}
    /\ queue' = Append(queue, e)
    /\ UNCHANGED <<version, via, registryVars, sessionVars, castVars, historyVars>>

-----------------------------------------------------------------------------
(* Fault: filter_owned_rows leaves out the comparison with the caller.     *)
ShownToPrincipals(c) == {r \in Rows : Owned => PrincipalOf[c] # Anonymous}

(* filter_owned_rows: the rows a connection is shown in an answer.         *)
Shown(c) == {r \in Rows : Owned => OwnerOf[r] = PrincipalOf[c]}

(* _should_deliver_to: the gate of a push, by the owner in its payload.    *)
Delivers(c, e) ==
    Owned => e.channel \in CarryingOwner /\ OwnerOf[e.row] = PrincipalOf[c]

Subscribed(c, ch) == \E p \in subs[c] : <<p, ch>> \in Matching

Wanting(e, after) == {c \in active : birth[c] > after /\ Subscribed(c, e.channel) /\ Delivers(c, e)}

Idle(f) ==
    /\ event' = [event EXCEPT ![f] = NoEvent]
    /\ at' = [at EXCEPT ![f] = 0]
    /\ size' = [size EXCEPT ![f] = 0]
    /\ dead' = [dead EXCEPT ![f] = {}]

(* The broadcast goes on behind the connection it last sent to.  A         *)
(* registry that has grown or shrunk during the send ends the iteration    *)
(* with a RuntimeError.                                                    *)
SendsTo(f, e, c, dropped) ==
    /\ event' = [event EXCEPT ![f] = e]
    /\ at' = [at EXCEPT ![f] = birth[c]]
    /\ dead' = [dead EXCEPT ![f] = dropped]
    /\ told' = IF c \in up THEN [told EXCEPT ![c][e.row] = Latest(@, e.version)] ELSE told
    /\ UNCHANGED <<active, subs, answered, missed>>

(* Fault: the entry is emptied and stays.                                  *)
Emptied(cs) ==
    /\ subs' = [c \in Conns |-> IF c \in cs THEN {} ELSE subs[c]]
    /\ answered' = [c \in Conns |-> IF c \in cs THEN {} ELSE answered[c]]
    /\ UNCHANGED active

(* disconnect: the entry of the registry goes, subscriptions and all.      *)
Dropped(cs) ==
    /\ active' = active \ cs
    /\ subs' = [c \in Conns |-> IF c \in cs THEN {} ELSE subs[c]]
    /\ answered' = [c \in Conns |-> IF c \in cs THEN {} ELSE answered[c]]

Finishes(f, dropped) ==
    /\ Dropped(dropped)
    /\ Idle(f)
    /\ UNCHANGED <<told, missed>>

Raises(f, e, after) ==
    /\ missed' = missed \union {<<c, e.row, e.version>> : c \in Wanting(e, after)}
    /\ Idle(f)
    /\ UNCHANGED <<active, subs, answered, told>>

GoesOn(f, e, after, dropped) ==
    \/ /\ Wanting(e, after) = {}
       /\ Finishes(f, dropped)
    \/ \E c \in Wanting(e, after) :
        /\ \A d \in Wanting(e, after) : birth[c] <= birth[d]
        /\ SendsTo(f, e, c, dropped)
        /\ size' = [size EXCEPT ![f] = Cardinality(active)]

Broadcast(f) ==
    /\ event[f] = NoEvent /\ queue # <<>>
    /\ queue' = Tail(queue)
    /\ GoesOn(f, Head(queue), 0, {})
    /\ UNCHANGED <<version, via, unpublished, registered, birth, up, sessionVars>>

Failed(f) == {c \in active : birth[c] = at[f] /\ c \notin up}

(* Fault: a send that raises ends the whole broadcast.                     *)
BroadcastStopsAtFailure(f) ==
    /\ event[f] # NoEvent
    /\ \/ /\ Cardinality(active) = size[f] /\ Failed(f) = {}
          /\ GoesOn(f, event[f], at[f], dead[f])
       \/ /\ Cardinality(active) = size[f] /\ Failed(f) # {}
          /\ Finishes(f, dead[f] \union Failed(f))
       \/ /\ Cardinality(active) # size[f]
          /\ Raises(f, event[f], at[f])
    /\ UNCHANGED <<rowVars, registered, birth, up, sessionVars>>

BroadcastGoesOn(f) ==
    /\ event[f] # NoEvent
    /\ \/ /\ Cardinality(active) = size[f]
          /\ GoesOn(f, event[f], at[f], dead[f] \union Failed(f))
       \/ /\ Cardinality(active) # size[f]
          /\ Raises(f, event[f], at[f])
    /\ UNCHANGED <<rowVars, registered, birth, up, sessionVars>>

-----------------------------------------------------------------------------
(* dispatch_websocket_session: register, push the identity, and then one   *)
(* frame at a time.                                                        *)
Connect(c) ==
    /\ pc[c] = "out"
    /\ pc' = [pc EXCEPT ![c] = "sending"]
    /\ active' = active \union {c}
    /\ up' = up \union {c}
    /\ registered' = registered + 1
    /\ birth' = [birth EXCEPT ![c] = registered']
    /\ UNCHANGED <<rowVars, subs, asked, subscribing, loaded, castVars, historyVars>>

Ready(c) == pc[c] = "receiving" /\ c \in up

(* Subscribe to a content topic: first the subscription, then the rows.    *)
Subscribe(c, p) ==
    /\ Ready(c)
    /\ p \in ContentPatterns
    /\ subs' = [subs EXCEPT ![c] = @ \union {p}]
    /\ asked' = [asked EXCEPT ![c] = p]
    /\ subscribing' = [subscribing EXCEPT ![c] = TRUE]
    /\ pc' = [pc EXCEPT ![c] = "loading"]
    /\ UNCHANGED <<rowVars, active, registered, birth, up, loaded, castVars, historyVars>>

Request(c, p) ==
    /\ Ready(c)
    /\ p \in ContentPatterns
    /\ asked' = [asked EXCEPT ![c] = p]
    /\ subscribing' = [subscribing EXCEPT ![c] = FALSE]
    /\ pc' = [pc EXCEPT ![c] = "loading"]
    /\ UNCHANGED <<rowVars, registryVars, loaded, castVars, historyVars>>

(* A frame is being sent, and what it was made from is forgotten.          *)
Sending(c) ==
    /\ pc' = [pc EXCEPT ![c] = "sending"]
    /\ asked' = [asked EXCEPT ![c] = NoPattern]
    /\ subscribing' = [subscribing EXCEPT ![c] = FALSE]
    /\ loaded' = [loaded EXCEPT ![c] = [r \in Rows |-> 0]]

(* ctx.list_records_for_ws: the rows are read, or it raises.               *)
RowsRead(c) ==
    /\ pc[c] = "loading"
    /\ \/ /\ loaded' = [loaded EXCEPT ![c] = version]
          /\ pc' = [pc EXCEPT ![c] = "loaded"]
          /\ UNCHANGED <<asked, subscribing>>
       \/ Sending(c)
    /\ UNCHANGED <<rowVars, registryVars, castVars, historyVars>>

Answer(c) ==
    /\ pc[c] = "loaded"
    /\ answered' = IF subscribing[c] THEN [answered EXCEPT ![c] = @ \union {asked[c]}] ELSE answered
    /\ told' = IF c \notin up THEN told ELSE
        [told EXCEPT ![c] = [r \in Rows |-> IF r \in Shown(c) THEN Latest(@[r], loaded[c][r]) ELSE @[r]]]
    /\ Sending(c)
    /\ UNCHANGED <<rowVars, registryVars, castVars, missed>>

(* Another topic has no rows to send.                                      *)
SubscribeOther(c, p) ==
    /\ Ready(c)
    /\ p \notin ContentPatterns
    /\ subs' = [subs EXCEPT ![c] = @ \union {p}]
    /\ pc' = [pc EXCEPT ![c] = "sending"]
    /\ UNCHANGED <<rowVars, active, registered, birth, up, asked, subscribing, loaded, castVars, historyVars>>

Unsubscribe(c, p) ==
    /\ Ready(c)
    /\ subs' = [subs EXCEPT ![c] = @ \ {p}]
    /\ answered' = [answered EXCEPT ![c] = @ \ {p}]
    /\ pc' = [pc EXCEPT ![c] = "sending"]
    /\ UNCHANGED <<rowVars, active, registered, birth, up, asked, subscribing, loaded, castVars, told, missed>>

(* The frame has left: on to the next one.                                 *)
Sent(c) ==
    /\ pc[c] = "sending" /\ c \in up
    /\ pc' = [pc EXCEPT ![c] = "receiving"]
    /\ UNCHANGED <<rowVars, registryVars, asked, subscribing, loaded, castVars, historyVars>>

PeerLeaves(c) ==
    /\ c \in up
    /\ up' = up \ {c}
    /\ UNCHANGED <<rowVars, active, registered, birth, subs, sessionVars, castVars, historyVars>>

(* A send or receive on a connection that is gone raises, through the      *)
(* endless loop of the session.                                            *)
SessionRaises(c) ==
    /\ pc[c] \in {"sending", "receiving"} /\ c \notin up
    /\ pc' = [pc EXCEPT ![c] = "gone"]
    /\ UNCHANGED <<rowVars, registryVars, asked, subscribing, loaded, castVars, historyVars>>

(* ConnectionManager.disconnect, called by the adapter, which has to find  *)
(* the id by itself: a session ends by an exception and returns none.      *)
Disconnect(c) ==
    /\ pc[c] = "gone" /\ c \in active
    /\ Dropped({c})
    /\ UNCHANGED <<rowVars, registered, birth, up, sessionVars, castVars, told, missed>>

-----------------------------------------------------------------------------
Session(c) == RowsRead(c) \/ Answer(c) \/ Sent(c) \/ SessionRaises(c)

Next ==
    \/ \E r \in Rows, ch \in Channels : Write(r, ch)
    \/ \E e \in unpublished : Publish(e)
    \/ \E f \in Forwarders : Broadcast(f) \/ BroadcastGoesOn(f)
    \/ \E c \in Conns :
        \/ Connect(c) \/ PeerLeaves(c) \/ Session(c) \/ Disconnect(c)
        \/ \E p \in Patterns :
            Subscribe(c, p) \/ Request(c, p) \/ SubscribeOther(c, p) \/ Unsubscribe(c, p)

(* Awaited calls return, the adapter forwards what is queued, and it       *)
(* disconnects the sessions that have ended.                               *)
Fairness ==
    /\ \A c \in Conns : WF_vars(Session(c)) /\ WF_vars(Disconnect(c))
    /\ WF_vars(\E e \in unpublished : Publish(e))
    /\ \A f \in Forwarders : WF_vars(Broadcast(f)) /\ WF_vars(BroadcastGoesOn(f))

Spec == Init /\ [][Next]_vars
FairSpec == Spec /\ Fairness
-----------------------------------------------------------------------------
Asking(c) == pc[c] \in {"loading", "loaded"}

TypeOK ==
    /\ version \in [Rows -> Versions] /\ via \in [Rows -> Channels \union {NoChannel}]
    /\ unpublished \in SUBSET Events /\ queue \in Seq(Events)
    /\ active \in SUBSET Conns /\ registered \in Nat /\ birth \in [Conns -> Nat]
    /\ subs \in [Conns -> SUBSET Patterns] /\ up \in SUBSET Conns
    /\ pc \in [Conns -> {"out", "sending", "receiving", "loading", "loaded", "gone"}]
    /\ asked \in [Conns -> Patterns \union {NoPattern}] /\ subscribing \in [Conns -> BOOLEAN]
    /\ \A c \in Conns : Asking(c) => asked[c] # NoPattern
    /\ loaded \in [Conns -> [Rows -> Versions]]
    /\ event \in [Forwarders -> Events \union {NoEvent}]
    /\ at \in [Forwarders -> Nat] /\ size \in [Forwarders -> Nat]
    /\ dead \in [Forwarders -> SUBSET Conns]
    /\ told \in [Conns -> [Rows -> Versions]] /\ answered \in [Conns -> SUBSET Patterns]
    /\ missed \in SUBSET (Conns \X Rows \X Versions)

(* "owned content never leaks": whatever frames a connection has been      *)
(* sent, pushed or in answer, the owned rows in them are its principal's.  *)
MaySee(c, r) == Owned => OwnerOf[r] = PrincipalOf[c]
PrivateRows == \A c \in Conns, r \in Rows : told[c][r] > 0 => MaySee(c, r)

(* No gap between the rows of the answer and the pushes that follow: a     *)
(* connection whose subscription has been acknowledged has been told of    *)
(* the last write of every row it may see, or the write's event is still   *)
(* on its way to it, or a broadcast that raised has lost it.               *)
IsLast(e, r) == e.row = r /\ e.version = version[r]
OnItsWay(c, r) ==
    \/ \E e \in unpublished : IsLast(e, r)
    \/ \E i \in DOMAIN queue : IsLast(queue[i], r)
    \/ \E f \in Forwarders : event[f] # NoEvent /\ IsLast(event[f], r) /\ birth[c] > at[f]
    \/ <<c, r, version[r]>> \in missed

Watching(c, r, p) ==
    /\ p \in ContentPatterns /\ <<p, via[r]>> \in Matching
    /\ MaySee(c, r) /\ (Owned => via[r] \in CarryingOwner)

Covered(c, r) == told[c][r] = version[r] \/ OnItsWay(c, r)
NoGap == \A c \in active \cap up, r \in Rows : \A p \in answered[c] :
    Watching(c, r, p) => Covered(c, r)

(* What makes these inductive: the order of the registry, what is known of *)
(* the events on their way, and that the rows a session has read for the   *)
(* answer to a subscribe are no older than its subscription.               *)
RegistryInOrder ==
    /\ \A c \in Conns : birth[c] <= registered /\ (pc[c] = "out" => answered[c] = {})
    /\ \A c \in active : birth[c] > 0 /\ answered[c] \subseteq subs[c]
    /\ \A c \in active : subscribing[c] /\ Asking(c) => asked[c] \in subs[c]
    /\ \A c, d \in active : birth[c] = birth[d] => c = d

NotAhead(e) ==
    e.version <= version[e.row] /\ (e.version = version[e.row] => e.channel = via[e.row])
NothingAhead ==
    /\ \A e \in unpublished : NotAhead(e)
    /\ \A i \in DOMAIN queue : NotAhead(queue[i])
    /\ \A f \in Forwarders : event[f] # NoEvent => NotAhead(event[f])
    /\ \A c \in Conns, r \in Rows : told[c][r] <= version[r] /\ loaded[c][r] <= version[r]

AnswerIsFresh == \A c \in active \cap up : subscribing[c] /\ pc[c] = "loaded" =>
    \A r \in Rows : Watching(c, r, asked[c]) => Covered(c, r) \/ loaded[c][r] = version[r]

FanoutInv ==
    /\ TypeOK /\ PrivateRows /\ NoGap
    /\ RegistryInOrder /\ NothingAhead /\ AnswerIsFresh

(* Who watches a row and stays is told of its last write in the end,       *)
(* unless a broadcast raises.                                              *)
HeardInTheEnd == \A c \in Conns, r \in Rows, p \in Patterns, v \in Versions :
    c \in active \cap up /\ p \in answered[c] /\ Watching(c, r, p) /\ version[r] = v
        ~> told[c][r] >= v \/ c \notin up \/ p \notin answered[c] \/ <<c, r, v>> \in missed

(* The connection of an ended session is out of the registry in the end,   *)
(* whether the adapter disconnects it or a broadcast drops it first.       *)
EndedSessionsLeave == \A c \in Conns : pc[c] = "gone" ~> c \notin active

-----------------------------------------------------------------------------
(* What the documentation says and the code does not do.                   *)

(* broadcast_to_subscribers: "Fan out an event to every subscriber whose   *)
(* pattern is a prefix".                                                   *)
EverySubscriberServed == \A c \in up, r \in Rows, v \in Versions : <<c, r, v>> \notin missed

(* append_to_field publishes "so listener computes and WS subscribers      *)
(* fire": the owner of a row, subscribed, hears of the last append.        *)
AppendsHeard == \A c \in active \cap up, r \in Rows : \A p \in answered[c] :
    <<p, via[r]>> \in Matching /\ MaySee(c, r) => Covered(c, r)
=============================================================================
