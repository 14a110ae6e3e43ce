------------------------------ MODULE ChannelWs ------------------------------
(***************************************************************************)
(* An outbound WebSocket channel (channel_ws.py): the dispatcher connects  *)
(* it once and closes it once; in between a reader task and _reconnect     *)
(* tasks keep it up.  An action is what one of these coroutines does       *)
(* between two awaits.                                                     *)
(*                                                                         *)
(* Sockets are numbered as they are opened, and a reader task has the      *)
(* number of its socket.  The websockets library is taken to be installed, *)
(* and messages, which change no state here, are left out.                 *)
(***************************************************************************)
EXTENDS Naturals, FiniteSets

CONSTANTS
    MaxRetries,     \* config.max_retries
    MaxSockets      \* bound: sockets opened

ASSUME ConfigAssumption == MaxRetries \in Nat
ASSUME BoundAssumption == MaxSockets \in Nat

VARIABLES
    reconnect,  \* config.reconnect
    owner,      \* how far the dispatcher is: idle, starting (in connect), running, closing,
                \* closing_socket (both in close), closed
    state,      \* _state
    ws,         \* _ws: the latest socket, 0 for None
    reader,     \* _reader_task: the latest reader, 0 for None
    count,      \* _reconnect_count
    readers,    \* reader tasks that are alive
    fresh,      \* the latest reader task has not run yet
    alive,      \* sockets whose connection is up
    connects,   \* calls of connect() awaiting the handshake
    spawned,    \* _reconnect tasks created and not yet run
    sleeping,   \* _reconnect tasks in their backoff
    attempts    \* history: handshakes begun since the last one that succeeded

socketVars == <<ws, reader, readers, fresh, alive>>
timerVars  == <<count, spawned, sleeping>>
callVars   == <<connects, attempts>>
vars == <<reconnect, owner, state, socketVars, timerVars, callVars>>

Sockets == 1 .. MaxSockets

Init ==
    /\ reconnect \in BOOLEAN
    /\ owner = "idle" /\ state = "disconnected"
    /\ ws = 0 /\ reader = 0 /\ count = 0
    /\ readers = {} /\ fresh = FALSE /\ alive = {}
    /\ connects = 0 /\ spawned = 0 /\ sleeping = 0 /\ attempts = 0

-----------------------------------------------------------------------------
(* connect, up to the handshake.                                           *)
Connecting ==
    /\ state' = "connecting"
    /\ connects' = connects + 1
    /\ attempts' = attempts + 1

(* ChannelDispatcher.startup.                                              *)
Start ==
    /\ owner = "idle"
    /\ owner' = "starting"
    /\ Connecting
    /\ UNCHANGED <<reconnect, socketVars, timerVars>>

(* A connect that returns lets startup go on, when it was its own.         *)
Started == owner' = IF owner = "starting" THEN "running" ELSE owner

Connected ==
    /\ connects > 0 /\ ws < MaxSockets
    /\ connects' = connects - 1
    /\ ws' = ws + 1 /\ reader' = ws + 1
    /\ alive' = alive \union {ws + 1}
    /\ readers' = readers \union {ws + 1} /\ fresh' = TRUE
    /\ state' = "connected"
    /\ count' = 0 /\ attempts' = 0
    /\ Started
    /\ UNCHANGED <<reconnect, spawned, sleeping>>

(* A _reconnect task is created when the channel is configured for it.     *)
SpawnReconnect == spawned' = IF reconnect THEN spawned + 1 ELSE spawned

(* Fault: _reconnect goes on by itself after a connect that failed, and    *)
(* connect has created another one.                                        *)
ConnectFailedTwice ==
    /\ connects > 0
    /\ connects' = connects - 1
    /\ state' = "error"
    /\ spawned' = IF reconnect THEN spawned + 2 ELSE spawned
    /\ Started
    /\ UNCHANGED <<reconnect, socketVars, count, sleeping, attempts>>

ConnectFailed ==
    /\ connects > 0
    /\ connects' = connects - 1
    /\ state' = "error"
    /\ SpawnReconnect
    /\ Started
    /\ UNCHANGED <<reconnect, socketVars, count, sleeping, attempts>>

-----------------------------------------------------------------------------
(* _reconnect: count, and sleep or give up.                                *)
(* Fault: one attempt too many.                                            *)
ExhaustedLate(n) == n > MaxRetries + 1

Exhausted(n) == n > MaxRetries

ReconnectBegins ==
    /\ spawned > 0
    /\ spawned' = spawned - 1
    /\ count' = count + 1
    /\ \/ Exhausted(count + 1) /\ state' = "failed" /\ UNCHANGED sleeping
       \/ ~ Exhausted(count + 1) /\ sleeping' = sleeping + 1 /\ UNCHANGED state
    /\ UNCHANGED <<reconnect, owner, socketVars, callVars>>

BackoffOver ==
    /\ sleeping > 0
    /\ sleeping' = sleeping - 1
    /\ Connecting
    /\ UNCHANGED <<reconnect, owner, socketVars, count, spawned>>

-----------------------------------------------------------------------------
(* The peer or the network ends a connection.                              *)
PeerCloses(s) ==
    /\ s \in alive
    /\ alive' = alive \ {s}
    /\ UNCHANGED <<reconnect, owner, state, ws, reader, readers, fresh, timerVars, callVars>>

(* Fault: the reader leaves without reconnecting.                          *)
ReaderQuits(r) ==
    /\ readers' = readers \ {r}
    /\ state' = "disconnected"
    /\ UNCHANGED spawned

(* Fault: the reader leaves the state as it is.                            *)
ReaderSilent(r) == readers' = readers \ {r} /\ SpawnReconnect /\ UNCHANGED state

(* The finally clause of a reader that leaves its loop, cancelled or not.  *)
ReaderLeaves(r) ==
    /\ readers' = readers \ {r}
    /\ state' = "disconnected"
    /\ SpawnReconnect

ReaderBegins ==
    /\ fresh
    /\ fresh' = FALSE
    /\ UNCHANGED <<reconnect, owner, state, ws, reader, readers, alive, timerVars, callVars>>

ReaderEnds(r) ==
    /\ r \in readers /\ r \notin alive
    /\ r = reader => ~ fresh
    /\ ReaderLeaves(r)
    /\ UNCHANGED <<reconnect, owner, ws, reader, fresh, alive, count, sleeping, callVars>>

-----------------------------------------------------------------------------
(* close: cancel the reader task and wait for it, close the socket and     *)
(* wait for the closing handshake, set the state.  A task that is          *)
(* cancelled before it has run never enters its try.                       *)
CloseReader ==
    /\ owner = "running"
    /\ owner' = "closing"
    /\ \/ reader \in readers /\ ~ fresh /\ ReaderLeaves(reader)
       \/ reader \in readers /\ fresh /\ readers' = readers \ {reader} /\ UNCHANGED <<state, spawned>>
       \/ reader \notin readers /\ UNCHANGED <<readers, state, spawned>>
    /\ fresh' = FALSE
    /\ UNCHANGED <<reconnect, ws, reader, alive, count, sleeping, callVars>>

CloseSocket ==
    /\ owner = "closing"
    /\ owner' = "closing_socket"
    /\ alive' = alive \ {ws}
    /\ UNCHANGED <<reconnect, state, ws, reader, readers, fresh, timerVars, callVars>>

CloseDone ==
    /\ owner = "closing_socket"
    /\ owner' = "closed"
    /\ state' = "disconnected"
    /\ UNCHANGED <<reconnect, socketVars, timerVars, callVars>>

-----------------------------------------------------------------------------
Next ==
    \/ Start \/ Connected \/ ConnectFailed
    \/ ReconnectBegins \/ BackoffOver
    \/ \E s \in Sockets : PeerCloses(s) \/ ReaderEnds(s)
    \/ ReaderBegins
    \/ CloseReader \/ CloseSocket \/ CloseDone

(* Handshakes end one way or the other, created tasks run, sleeps end, and *)
(* a reader notices that its connection is gone.                           *)
Fairness ==
    /\ WF_vars(Connected \/ ConnectFailed)
    /\ WF_vars(ReconnectBegins) /\ WF_vars(BackoffOver)
    /\ WF_vars(ReaderBegins) /\ \A s \in Sockets : WF_vars(ReaderEnds(s))

Spec == Init /\ [][Next]_vars
FairSpec == Spec /\ Fairness
-----------------------------------------------------------------------------
TypeOK ==
    /\ reconnect \in BOOLEAN
    /\ owner \in {"idle", "starting", "running", "closing", "closing_socket", "closed"}
    /\ state \in {"disconnected", "connecting", "connected", "error", "failed"}
    /\ ws \in 0 .. MaxSockets /\ reader \in 0 .. MaxSockets
    /\ count \in Nat
    /\ readers \in SUBSET Sockets /\ fresh \in BOOLEAN /\ alive \in SUBSET Sockets
    /\ connects \in Nat /\ spawned \in Nat /\ sleeping \in Nat /\ attempts \in Nat

(* Whoever starts what, one task at most drives the connection: a reader,  *)
(* a handshake or a pending reconnect.  So there are never two sockets     *)
(* delivering messages, nor two backoffs racing each other.                *)
Drivers == connects + spawned + sleeping
OneDriver ==
    /\ readers = {} \/ (readers = {ws} /\ reader = ws)
    /\ Drivers = 0 \/ (Drivers = 1 /\ readers = {})

(* _reconnect: "up to max_retries attempts": between two connections that  *)
(* succeed there is the first attempt and at most max_retries others.      *)
AttemptsBounded == attempts <= MaxRetries + 1

(* Until the channel is closed its state says what its tasks do: connected *)
(* while a reader is alive, connecting during a handshake, and failed only *)
(* when nothing will try again.                                            *)
Open == owner \in {"idle", "starting", "running"}
StateHonest == Open =>
    /\ state = "connected"  <=> readers # {}
    /\ state = "connecting" <=> connects > 0
    /\ state = "failed" => Drivers = 0

(* What makes these inductive: how the attempts relate to the counter, and *)
(* that nothing runs before the start.                                     *)
AttemptsCounted ==
    /\ connects + spawned > 0 => attempts <= count + 1 /\ count <= MaxRetries
    /\ sleeping > 0 => attempts <= count /\ count <= MaxRetries
    /\ readers # {} => attempts = 0 /\ count = 0
NothingBeforeStart == owner = "idle" => Drivers = 0 /\ readers = {} /\ attempts = 0 /\ count = 0
ConnectionInv ==
    /\ TypeOK /\ OneDriver /\ AttemptsBounded /\ StateHonest
    /\ AttemptsCounted /\ NothingBeforeStart

(* A channel that reconnects does not stay down: whenever it is not        *)
(* connected it comes to be connected, gives up, or is closed.             *)
DownIsRepaired ==
    reconnect /\ owner \in {"starting", "running"} /\ state # "connected"
        ~> state \in {"connected", "failed"} \/ ~ Open

-----------------------------------------------------------------------------
(* What the documentation says and the code does not do.                   *)

(* close: "Close the WebSocket connection.", and the dispatcher's shutdown *)
(* closes "all WebSocket connections": once it has returned there is none. *)
ClosedStaysClosed == owner = "closed" => alive = {}
=============================================================================
