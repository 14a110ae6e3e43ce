--------------------------- MODULE ChannelWsProofs ---------------------------
(***************************************************************************)
(* Proofs about ChannelWs: whatever the retry configuration and however    *)
(* often the connection is lost, one task at most drives it, the number of *)
(* attempts is bounded and the state says what the tasks do.               *)
(***************************************************************************)
EXTENDS ChannelWs, TLAPS

LEMMA InitInv == Init => ConnectionInv
<1> SUFFICES ASSUME Init PROVE ConnectionInv
  OBVIOUS
<1> USE ConfigAssumption, BoundAssumption DEF Init
<1>1. TypeOK
  <2>1. ws \in 0 .. MaxSockets /\ reader \in 0 .. MaxSockets /\ count \in Nat
        /\ connects \in Nat /\ spawned \in Nat /\ sleeping \in Nat /\ attempts \in Nat
    OBVIOUS
  <2>2. reconnect \in BOOLEAN /\ fresh \in BOOLEAN
    BY Zenon
  <2>3. readers \in SUBSET Sockets /\ alive \in SUBSET Sockets
    BY Zenon
  <2> QED
    BY <2>1, <2>2, <2>3, Zenon DEF TypeOK
<1>2. OneDriver /\ StateHonest
  BY DEF OneDriver, StateHonest, Drivers, Open
<1>3. AttemptsBounded /\ AttemptsCounted /\ NothingBeforeStart
  BY DEF AttemptsBounded, AttemptsCounted, NothingBeforeStart, Drivers
<1> QED
  BY <1>1, <1>2, <1>3 DEF ConnectionInv

(* Handshakes.                                                             *)
LEMMA HandshakeInv ==
    ASSUME ConnectionInv, Start \/ Connected \/ ConnectFailed
    PROVE  ConnectionInv'
<1> USE ConfigAssumption, BoundAssumption DEF ConnectionInv, socketVars, timerVars
<1>1. CASE Start
  <2> USE <1>1 DEF Start, Connecting
  <2>1. TypeOK'
    BY DEF TypeOK
  <2>2. OneDriver' /\ StateHonest'
    BY DEF TypeOK, OneDriver, StateHonest, Drivers, Open, NothingBeforeStart
  <2>3. AttemptsBounded' /\ AttemptsCounted' /\ NothingBeforeStart'
    BY DEF TypeOK, AttemptsBounded, AttemptsCounted, NothingBeforeStart, Drivers
  <2> QED
    BY <2>1, <2>2, <2>3
<1>2. CASE Connected
  <2> USE <1>2 DEF Connected, Started
  <2>1. TypeOK'
    BY DEF TypeOK, Sockets
  <2>2. OneDriver' /\ StateHonest'
    BY DEF TypeOK, OneDriver, StateHonest, Drivers, Open
  <2>3. AttemptsBounded' /\ AttemptsCounted' /\ NothingBeforeStart'
    BY DEF TypeOK, OneDriver, AttemptsBounded, AttemptsCounted, NothingBeforeStart, Drivers
  <2> QED
    BY <2>1, <2>2, <2>3
<1>3. CASE ConnectFailed
  <2> USE <1>3 DEF ConnectFailed, Started, SpawnReconnect
  <2>1. TypeOK'
    BY DEF TypeOK
  <2>2. OneDriver' /\ StateHonest'
    BY DEF TypeOK, OneDriver, StateHonest, Drivers, Open
  <2>3. AttemptsBounded' /\ AttemptsCounted' /\ NothingBeforeStart'
    BY DEF TypeOK, OneDriver, AttemptsBounded, AttemptsCounted, NothingBeforeStart, Drivers
  <2> QED
    BY <2>1, <2>2, <2>3
<1> QED
  BY <1>1, <1>2, <1>3

(* The reconnect timer.                                                    *)
LEMMA TimerInv ==
    ASSUME ConnectionInv, ReconnectBegins \/ BackoffOver
    PROVE  ConnectionInv'
<1> USE ConfigAssumption, BoundAssumption DEF ConnectionInv, socketVars, callVars
<1>1. CASE ReconnectBegins
  <2> USE <1>1 DEF ReconnectBegins, Exhausted
  <2>1. TypeOK'
    BY DEF TypeOK
  <2>2. OneDriver' /\ StateHonest'
    BY DEF TypeOK, OneDriver, StateHonest, Drivers, Open
  <2>3. AttemptsBounded' /\ AttemptsCounted' /\ NothingBeforeStart'
    BY DEF TypeOK, OneDriver, AttemptsBounded, AttemptsCounted, NothingBeforeStart, Drivers
  <2> QED
    BY <2>1, <2>2, <2>3
<1>2. CASE BackoffOver
  <2> USE <1>2 DEF BackoffOver, Connecting
  <2>1. TypeOK'
    BY DEF TypeOK
  <2>2. OneDriver' /\ StateHonest'
    BY DEF TypeOK, OneDriver, StateHonest, Drivers, Open
  <2>3. AttemptsBounded' /\ AttemptsCounted' /\ NothingBeforeStart'
    BY DEF TypeOK, OneDriver, AttemptsBounded, AttemptsCounted, NothingBeforeStart, Drivers
  <2> QED
    BY <2>1, <2>2, <2>3
<1> QED
  BY <1>1, <1>2

(* The reader task, and the peer.                                          *)
LEMMA ReaderInv ==
    ASSUME ConnectionInv, ReaderBegins \/ \E s \in Sockets : PeerCloses(s) \/ ReaderEnds(s)
    PROVE  ConnectionInv'
<1> USE ConfigAssumption, BoundAssumption DEF ConnectionInv, timerVars, callVars
<1>1. ASSUME ReaderBegins \/ \E s \in Sockets : PeerCloses(s) PROVE ConnectionInv'
  <2> USE <1>1 DEF PeerCloses, ReaderBegins
  <2>1. TypeOK'
    BY DEF TypeOK
  <2>2. OneDriver' /\ StateHonest'
    BY DEF OneDriver, StateHonest, Drivers, Open
  <2>3. AttemptsBounded' /\ AttemptsCounted' /\ NothingBeforeStart'
    BY DEF AttemptsBounded, AttemptsCounted, NothingBeforeStart, Drivers
  <2> QED
    BY <2>1, <2>2, <2>3
<1>2. ASSUME NEW s \in Sockets, ReaderEnds(s) PROVE ConnectionInv'
  <2> USE <1>2 DEF ReaderEnds, ReaderLeaves, SpawnReconnect
  <2>0. readers = {ws} /\ s = ws /\ readers' = {}
    BY DEF OneDriver
  <2>1. TypeOK'
    BY DEF TypeOK
  <2>2. OneDriver' /\ StateHonest'
    BY <2>0 DEF TypeOK, OneDriver, StateHonest, Drivers, Open
  <2>3. AttemptsBounded' /\ AttemptsCounted' /\ NothingBeforeStart'
    BY <2>0 DEF TypeOK, OneDriver, AttemptsBounded, AttemptsCounted, NothingBeforeStart, Drivers
  <2> QED
    BY <2>1, <2>2, <2>3
<1> QED
  BY <1>1, <1>2

(* Closing.                                                                *)
LEMMA CloseInv ==
    ASSUME ConnectionInv, CloseReader \/ CloseSocket \/ CloseDone
    PROVE  ConnectionInv'
<1> USE ConfigAssumption, BoundAssumption DEF ConnectionInv, socketVars, timerVars, callVars
<1>1. CASE CloseReader
  <2> USE <1>1 DEF CloseReader, ReaderLeaves, SpawnReconnect
  <2>0. readers' = {}
    BY DEF OneDriver
  <2>1. TypeOK'
    <3>1. state' \in {state, "disconnected"} /\ spawned' \in {spawned, spawned + 1}
      OBVIOUS
    <3>2. spawned' \in Nat
      BY <3>1 DEF TypeOK
    <3>3. readers' \in SUBSET Sockets /\ fresh' \in BOOLEAN /\ reconnect' \in BOOLEAN
      BY <2>0, Zenon DEF TypeOK
    <3>4. /\ owner' \in {"idle", "starting", "running", "closing", "closing_socket", "closed"}
          /\ state' \in {"disconnected", "connecting", "connected", "error", "failed"}
      BY <3>1, Zenon DEF TypeOK
    <3> QED
      BY <3>2, <3>3, <3>4, Zenon DEF TypeOK
  <2>2. OneDriver' /\ StateHonest'
    BY <2>0 DEF TypeOK, OneDriver, StateHonest, Drivers, Open
  <2>3. AttemptsBounded' /\ AttemptsCounted' /\ NothingBeforeStart'
    BY <2>0 DEF TypeOK, OneDriver, AttemptsBounded, AttemptsCounted, NothingBeforeStart, Drivers
  <2> QED
    BY <2>1, <2>2, <2>3
<1>2. CASE CloseSocket \/ CloseDone
  <2> USE <1>2 DEF CloseSocket, CloseDone
  <2>1. TypeOK'
    BY DEF TypeOK
  <2>2. OneDriver' /\ StateHonest'
    BY DEF OneDriver, StateHonest, Drivers, Open
  <2>3. AttemptsBounded' /\ AttemptsCounted' /\ NothingBeforeStart'
    BY DEF AttemptsBounded, AttemptsCounted, NothingBeforeStart, Drivers
  <2> QED
    BY <2>1, <2>2, <2>3
<1> QED
  BY <1>1, <1>2

(* Every step.                                                             *)
LEMMA StepInv ==
    ASSUME ConnectionInv, [Next]_vars
    PROVE  ConnectionInv'
<1>1. CASE UNCHANGED vars
  BY <1>1 DEF vars, socketVars, timerVars, callVars, ConnectionInv, TypeOK, OneDriver,
              StateHonest, Drivers, Open, AttemptsBounded, AttemptsCounted, NothingBeforeStart
<1>2. CASE Next
  BY <1>2, HandshakeInv, TimerInv, ReaderInv, CloseInv DEF Next
<1> QED
  BY <1>1, <1>2

(* The tasks of a channel never get in each other's way, its attempts are  *)
(* bounded by the configuration, and until it is closed its state is true. *)
THEOREM ConnectionCorrect == Spec => []ConnectionInv
<1>1. ConnectionInv /\ [Next]_vars => ConnectionInv'
  BY StepInv
<1> QED
  BY <1>1, InitInv, PTL DEF Spec

(* One task at most drives the connection.                                 *)
THEOREM OnlyOneDriver == Spec => []OneDriver
<1>1. ConnectionInv => OneDriver
  BY DEF ConnectionInv
<1> QED
  BY <1>1, ConnectionCorrect, PTL

(* Never more than max_retries attempts follow the first one.              *)
THEOREM RetriesBounded == Spec => []AttemptsBounded
<1>1. ConnectionInv => AttemptsBounded
  BY DEF ConnectionInv
<1> QED
  BY <1>1, ConnectionCorrect, PTL

(* While the channel is open, _state tells what its tasks are doing: send,  *)
(* invoke and the metrics may rely on it.                                  *)
THEOREM StateIsHonest == Spec => []StateHonest
<1>1. ConnectionInv => StateHonest
  BY DEF ConnectionInv
<1> QED
  BY <1>1, ConnectionCorrect, PTL
=============================================================================
