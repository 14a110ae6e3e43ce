-------------------------- MODULE BackgroundProofs --------------------------
(***************************************************************************)
(* Theorems about the scheduler and the compute trigger, for every set of  *)
(* computes, requests, handlers and triggers, and any number of            *)
(* registrations and loops.                                                *)
(***************************************************************************)
EXTENDS Background, FiniteSetTheorems, SequenceTheorems, TLAPS

-----------------------------------------------------------------------------
(* The trigger.                                                            *)
TriggerTypeOK ==
    /\ call \in [Triggers -> {"none", "not found", "forbidden", "bad request", "executing", "completed", "error"}]
    /\ request \in [Triggers -> Requests \union {None}]

TriggerInv == TriggerTypeOK /\ TriggersSound

LEMMA ComputeUnique ==
    ASSUME NEW q, NEW c \in ComputeOf(q), NEW d \in ComputeOf(q) PROVE c = d
  BY ComputesAssumption DEF ComputeOf

(* What the checks of the handler establish when they let a call pass.     *)
LEMMA VerdictMeans ==
    ASSUME NEW q, NEW c \in Computes, Verdict(c, q) = "executing"
    PROVE  /\ Passes(c.scope, q) /\ Passes(c.gate, q)
           /\ q.content \in Contents \union {None}
           /\ q.content = None => Len(c.inputs) <= 1
  <1>1. Passes(c.scope, q) /\ Passes(c.gate, q) /\ ContentOf(c, q) \in Contents \union {None}
    BY DEF Verdict
  <1>2. CASE q.content # None
    BY <1>1, <1>2 DEF ContentOf
  <1>3. CASE q.content = None
    <2>1. Len(c.inputs) \in Nat
      BY ComputesAssumption, LenProperties
    <2>2. Len(c.inputs) = 0 \/ Len(c.inputs) = 1
      BY <1>1, <1>3, <2>1, SentinelAssumption DEF ContentOf
    <2>3. 0 <= 1 /\ 1 <= 1
      OBVIOUS
    <2>4. Len(c.inputs) <= 1
      BY <2>2, <2>3, Zenon
    <2> QED BY <1>1, <1>3, <2>4, Zenon
  <1> QED BY <1>2, <1>3

LEMMA VerdictTyped ==
    ASSUME NEW q, NEW c PROVE Verdict(c, q) \in {"forbidden", "bad request", "executing"}
  BY DEF Verdict

LEMMA TriggerStep == TriggerInv /\ [Next]_vars => TriggerInv'
  <1> SUFFICES ASSUME TriggerInv, [Next]_vars PROVE TriggerInv'
    OBVIOUS
  <1> USE DEF TriggerInv, TriggerTypeOK, TriggersSound
  <1>1. ASSUME NEW t \in Triggers, NEW q \in Requests, Trigger(t, q) PROVE TriggerInv'
    <2>1. request' = [request EXCEPT ![t] = q]
      BY <1>1 DEF Trigger
    <2>2. CASE ComputeOf(q) = {} /\ call' = [call EXCEPT ![t] = "not found"] /\ UNCHANGED <<error_log, rejected>>
      BY <2>1, <2>2 DEF RejectionsAudited, RunsWhatWasMeant
    <2>3. ASSUME NEW c \in ComputeOf(q), call' = [call EXCEPT ![t] = Verdict(c, q)],
                 IF Rejected(c, q)
                   THEN error_log' = Logged(c.name) /\ rejected' = Append(rejected, c.name)
                   ELSE UNCHANGED <<error_log, rejected>>
          PROVE  TriggerInv'
      <3>1. TriggerTypeOK'
        BY <2>1, <2>3, VerdictTyped
      <3>2. RejectionsAudited'
        BY <2>3 DEF RejectionsAudited, Logged
      <3>3. ASSUME NEW u \in Triggers, call'[u] = "executing", NEW d \in ComputeOf(request'[u])
            PROVE  /\ Passes(d.scope, request'[u]) /\ Passes(d.gate, request'[u])
                   /\ request'[u].content \in Contents \union {None}
                   /\ request'[u].content = None => Len(d.inputs) <= 1
        <4>1. CASE u = t
          <5>1. request'[u] = q /\ Verdict(c, q) = "executing" /\ d = c /\ c \in Computes
            BY <2>1, <2>3, <3>3, <4>1, ComputeUnique DEF ComputeOf
          <5> QED BY <5>1, VerdictMeans
        <4>2. CASE u # t
          BY <2>1, <2>3, <3>3, <4>2 DEF RunsWhatWasMeant
        <4> QED BY <4>1, <4>2
      <3> QED BY <3>1, <3>2, <3>3 DEF RunsWhatWasMeant
    <2> QED BY <1>1, <2>2, <2>3 DEF Trigger
  <1>2. ASSUME NEW t \in Triggers, TriggerEnds(t) PROVE TriggerInv'
    <2>1. PICK outcome \in {"completed", "error"} : call' = [call EXCEPT ![t] = outcome]
      BY <1>2 DEF TriggerEnds
    <2> QED BY <1>2, <2>1 DEF TriggerEnds, RejectionsAudited, RunsWhatWasMeant
  <1>3. CASE UNCHANGED triggerVars
    BY <1>3 DEF triggerVars, RejectionsAudited, RunsWhatWasMeant
  <1>4. ASSUME NEW i \in Ids, LoopNext(i) PROVE UNCHANGED triggerVars
    BY <1>4 DEF LoopNext, Begin, Execute, Executed, Fails, LoopStep, Cancelled, Swallows
  <1>5. CASE Register \/ Start \/ Stop \/ StopAwaits
    BY <1>3, <1>5 DEF Register, Start, Stop, StopAwaits
  <1>6. CASE UNCHANGED vars
    BY <1>3, <1>6 DEF vars
  <1> QED BY <1>1, <1>2, <1>3, <1>4, <1>5, <1>6 DEF Next

(* A compute runs only for a caller its scope and its gate let pass, on a  *)
(* content that exists and was meant, and every rejection of the gate is   *)
(* in the log, in order.  trigger_compute_handler and TerminAtor.route.    *)
THEOREM TriggersAreSound == Spec => []TriggersSound
  <1>1. Init => TriggerInv
    BY DEF Init, TriggerInv, TriggerTypeOK, TriggersSound, RejectionsAudited, RunsWhatWasMeant
  <1>2. TriggerInv => TriggersSound
    BY DEF TriggerInv
  <1> QED BY <1>1, <1>2, TriggerStep, PTL DEF Spec

-----------------------------------------------------------------------------
(* The scheduler.  Loops are numbered as they are created, so those in use *)
(* are an initial interval and start numbers the new ones after them.      *)
SchedulerTypeOK ==
    /\ registered \in Nat /\ tasks \in Seq(Ids)
    /\ loop \in [Ids -> {"none", "new", "sleeping", "running", "ended"}]

InUse(k) == \A i \in Ids : loop[i] # "none" <=> i <= k
Numbered == \E k \in 0..MaxTasks : InUse(k)

SchedulerIInv == SchedulerTypeOK /\ Numbered /\ SchedulerInv

LEMMA Concatenated ==
    ASSUME NEW S, NEW s \in Seq(S), NEW t \in Seq(S)
    PROVE  /\ \A n \in 1..Len(s) : (s \o t)[n] = s[n] /\ n \in DOMAIN (s \o t)
           /\ \A m \in 1..Len(t) : (s \o t)[Len(s) + m] = t[m] /\ Len(s) + m \in DOMAIN (s \o t)
  <1>1. /\ s \o t \in Seq(S) /\ Len(s \o t) = Len(s) + Len(t)
        /\ DOMAIN (s \o t) = 1..(Len(s) + Len(t)) /\ Len(s) \in Nat /\ Len(t) \in Nat
    BY ConcatProperties, LenProperties
  <1> QED BY <1>1

(* What start computes from the numbering.                                 *)
LEMMA StartNumbers ==
    ASSUME SchedulerTypeOK, NEW k \in 0..MaxTasks, InUse(k)
    PROVE  /\ Cardinality(Ids \ Unused) = k /\ Cardinality(Unused) = MaxTasks - k
           /\ Started = {i \in Ids : k < i /\ i <= k + registered}
  <1> USE BoundsAssumption DEF SchedulerTypeOK
  <1>1. Ids \ Unused = 1..k
    BY DEF Ids, Unused, InUse
  <1>2. Unused = (k + 1)..MaxTasks
    BY DEF Ids, Unused, InUse
  <1>3. Cardinality(1..k) = k /\ Cardinality((k + 1)..MaxTasks) = MaxTasks - k
    <2>1. k \in Int /\ 0 <= k /\ k <= MaxTasks /\ MaxTasks \in Int
      OBVIOUS
    <2>2. Cardinality(1..k) = IF 1 > k THEN 0 ELSE k - 1 + 1
      BY <2>1, FS_Interval
    <2>3. Cardinality((k + 1)..MaxTasks) = IF k + 1 > MaxTasks THEN 0 ELSE MaxTasks - (k + 1) + 1
      BY <2>1, FS_Interval
    <2> QED BY <2>1, <2>2, <2>3
  <1>4. ASSUME NEW i \in Unused
        PROVE  Cardinality({j \in Unused : j < i}) = i - k - 1
    <2>1. i \in Int /\ k \in Int /\ k < i /\ i <= MaxTasks
      BY <1>2, <1>4
    <2>2. {j \in Unused : j < i} = (k + 1)..(i - 1)
      BY <1>2, <2>1
    <2>3. Cardinality((k + 1)..(i - 1)) = IF k + 1 > i - 1 THEN 0 ELSE i - 1 - (k + 1) + 1
      BY <2>1, FS_Interval
    <2>4. (IF k + 1 > i - 1 THEN 0 ELSE i - 1 - (k + 1) + 1) = i - k - 1
      BY <2>1
    <2> QED BY <2>2, <2>3, <2>4
  <1>5. Started = {i \in Unused : i - k - 1 < registered}
    BY <1>4 DEF Started
  <1>6. Started = {i \in Ids : k < i /\ i <= k + registered}
    BY <1>2, <1>5 DEF Ids
  <1> QED BY <1>1, <1>2, <1>3, <1>6

LEMMA SchedulerInit == Init => SchedulerIInv
  <1> SUFFICES ASSUME Init PROVE SchedulerIInv
    OBVIOUS
  <1>1. SchedulerTypeOK /\ Len(tasks) = 0
    BY DEF Init, SchedulerTypeOK
  <1>2. Numbered
    <2>1. InUse(0)
      BY DEF Init, InUse, Ids
    <2> QED BY <2>1, BoundsAssumption DEF Numbered
  <1>3. SchedulerInv
    BY <1>1 DEF Init, SchedulerInv, Alive
  <1> QED BY <1>1, <1>2, <1>3 DEF SchedulerIInv

(* A loop that is alive goes on or ends, and nothing else changes.         *)
LEMMA LoopMoves ==
    ASSUME SchedulerIInv, NEW i \in Alive, NEW where \in {"sleeping", "running", "ended"},
           Goto(i, where), UNCHANGED <<registered, tasks, awaited>>,
           cancelling' \subseteq cancelling, where = "ended" => i \notin cancelling'
    PROVE  SchedulerIInv'
  <1> USE DEF SchedulerIInv, SchedulerTypeOK
  <1>1. SchedulerTypeOK'
    BY DEF Goto, Alive
  <1>2. \A j \in Ids : loop'[j] = "none" <=> loop[j] = "none"
    BY DEF Goto, Alive
  <1>3. Numbered'
    BY <1>2 DEF Numbered, InUse
  <1>4. Alive' \subseteq Alive /\ Listed' = Listed
    BY DEF Goto, Alive, Listed
  <1>5. cancelling' \subseteq Alive'
    BY DEF Goto, Alive, SchedulerInv
  <1>6. ASSUME NEW n \in 1..Len(tasks) PROVE loop'[tasks[n]] # "none" /\ (n < awaited => loop'[tasks[n]] = "ended")
    <2>1. tasks[n] \in Ids
      OBVIOUS
    <2>2. loop[tasks[n]] # "none" /\ (n < awaited => loop[tasks[n]] = "ended")
      BY DEF SchedulerInv
    <2> QED BY <1>2, <2>1, <2>2 DEF Goto, Alive
  <1>7. SchedulerInv'
    BY <1>4, <1>5, <1>6 DEF SchedulerInv
  <1> QED BY <1>1, <1>3, <1>7

LEMMA StartKeeps == SchedulerIInv /\ Start => SchedulerIInv'
  <1> SUFFICES ASSUME SchedulerIInv, Start PROVE SchedulerIInv'
    OBVIOUS
  <1> USE BoundsAssumption DEF SchedulerIInv, SchedulerTypeOK
  <1>1. PICK k \in 0..MaxTasks : InUse(k)
    BY DEF Numbered
  <1> DEFINE added == [n \in 1..registered |-> k + n]
  <1>2. /\ tasks' = tasks \o added
        /\ loop' = [i \in Ids |-> IF k < i /\ i <= k + registered THEN "new" ELSE loop[i]]
        /\ k + registered <= MaxTasks /\ registered > 0
    <2>1. /\ Cardinality(Ids \ Unused) = k /\ Cardinality(Unused) = MaxTasks - k
          /\ Started = {i \in Ids : k < i /\ i <= k + registered}
      BY <1>1, StartNumbers
    <2>2. tasks' = tasks \o added
      BY <2>1 DEF Start
    <2>3. loop' = [i \in Ids |-> IF k < i /\ i <= k + registered THEN "new" ELSE loop[i]]
      BY <2>1 DEF Start
    <2>4. registered > 0 /\ MaxTasks - k >= registered
      BY <2>1 DEF Start
    <2> QED BY <2>2, <2>3, <2>4
  <1>3. awaited = 0 /\ awaited' = 0 /\ cancelling' = cancelling /\ registered' = registered
    BY DEF Start, Owned
  <1>4. added \in Seq(Ids) /\ Len(added) = registered
    BY <1>2 DEF Ids
  <1>5. /\ tasks' \in Seq(Ids) /\ Len(tasks') = Len(tasks) + registered /\ Len(tasks) \in Nat
        /\ \A n \in 1..(Len(tasks) + registered) :
             tasks'[n] = IF n <= Len(tasks) THEN tasks[n] ELSE added[n - Len(tasks)]
    <2> HIDE DEF added
    <2> QED BY <1>2, <1>4, ConcatProperties, LenProperties
  <1>6. SchedulerTypeOK'
    BY <1>2, <1>3, <1>5
  <1>7. InUse(k + registered)'
    BY <1>1, <1>2, <1>3 DEF InUse, Ids
  <1>8. Numbered'
    <2>1. k + registered \in 0..MaxTasks /\ registered' = registered
      BY <1>2, <1>3
    <2> QED BY <1>7, <2>1 DEF Numbered, InUse
  <1>9. /\ \A n \in 1..Len(tasks) : tasks'[n] = tasks[n] /\ n \in DOMAIN tasks'
        /\ \A m \in 1..registered : tasks'[Len(tasks) + m] = added[m] /\ Len(tasks) + m \in DOMAIN tasks'
    <2> HIDE DEF added
    <2> QED BY <1>2, <1>4, Concatenated
  <1>10. \A m \in 1..registered : tasks'[Len(tasks) + m] = k + m /\ Len(tasks) + m \in DOMAIN tasks'
    BY <1>9
  <1>11. Alive' \subseteq Listed'
    <2> SUFFICES ASSUME NEW i \in Ids, i \in Alive' PROVE i \in Listed'
      BY DEF Alive
    <2>1. CASE k < i /\ i <= k + registered
      <3>1. i - k \in 1..registered /\ k + (i - k) = i
        BY <2>1 DEF Ids
      <3> QED BY <1>10, <3>1 DEF Listed
    <2>2. CASE ~ (k < i /\ i <= k + registered)
      <3>1. i \in Listed
        BY <1>2, <2>2 DEF Alive, SchedulerInv
      <3>2. PICK n \in DOMAIN tasks : i = tasks[n]
        BY <3>1 DEF Listed
      <3>3. n \in 1..Len(tasks)
        OBVIOUS
      <3> QED BY <1>9, <3>2, <3>3 DEF Listed
    <2> QED BY <2>1, <2>2
  <1>12. cancelling' \subseteq Alive'
    BY <1>2, <1>3 DEF SchedulerInv, Alive
  <1>13. ASSUME NEW n \in 1..Len(tasks') PROVE loop'[tasks'[n]] # "none" /\ ~ n < awaited'
    <2>1. CASE n <= Len(tasks)
      <3>1. tasks[n] \in Ids /\ loop[tasks[n]] # "none" /\ tasks'[n] = tasks[n]
        BY <1>5, <1>9, <1>13, <2>1 DEF SchedulerInv
      <3> QED BY <1>2, <1>3, <3>1
    <2>2. CASE n > Len(tasks)
      <3>1. n - Len(tasks) \in 1..registered
        BY <1>5, <1>13, <2>2
      <3>2. tasks'[n] = k + (n - Len(tasks))
        <4>1. n \in 1..(Len(tasks) + registered) /\ ~ n <= Len(tasks)
          BY <1>5, <1>13, <2>2
        <4>2. tasks'[n] = added[n - Len(tasks)]
          BY <1>5, <4>1
        <4> QED BY <3>1, <4>2
      <3>3. tasks'[n] \in Ids /\ k < tasks'[n] /\ tasks'[n] <= k + registered
        BY <1>2, <3>1, <3>2, <1>5 DEF Ids
      <3> QED BY <1>2, <1>3, <3>3
    <2> QED BY <1>5, <2>1, <2>2
  <1>14. SchedulerInv'
    BY <1>3, <1>5, <1>11, <1>12, <1>13 DEF SchedulerInv
  <1> QED BY <1>6, <1>8, <1>14

LEMMA StopKeeps == SchedulerIInv /\ Stop => SchedulerIInv'
  <1> SUFFICES ASSUME SchedulerIInv, Stop PROVE SchedulerIInv'
    OBVIOUS
  <1> USE DEF SchedulerIInv, SchedulerTypeOK
  <1>1. UNCHANGED <<registered, tasks, loop>> /\ awaited' = 1 /\ tasks # <<>>
    BY DEF Stop, FirstAwaited
  <1>2. Len(tasks) \in Nat /\ Len(tasks) # 0
    BY <1>1
  <1>3. Alive' = Alive /\ Listed' = Listed /\ cancelling' \subseteq Alive
    BY <1>1 DEF Stop, Alive, Listed, SchedulerInv
  <1>4. SchedulerTypeOK' /\ Numbered'
    BY <1>1 DEF Numbered, InUse
  <1>5. SchedulerInv'
    BY <1>1, <1>2, <1>3 DEF SchedulerInv
  <1> QED BY <1>4, <1>5

LEMMA StopAwaitsKeeps == SchedulerIInv /\ StopAwaits => SchedulerIInv'
  <1> SUFFICES ASSUME SchedulerIInv, StopAwaits PROVE SchedulerIInv'
    OBVIOUS
  <1> USE DEF SchedulerIInv, SchedulerTypeOK
  <1>1. UNCHANGED <<registered, loop, cancelling>> /\ awaited > 0 /\ loop[tasks[awaited]] = "ended"
    BY DEF StopAwaits
  <1>2. Len(tasks) \in Nat /\ awaited \in 1..Len(tasks)
    BY <1>1 DEF SchedulerInv
  <1>3. Numbered'
    BY <1>1 DEF Numbered, InUse
  <1>4. CASE awaited < Len(tasks) /\ awaited' = awaited + 1 /\ UNCHANGED tasks
    <2>1. SchedulerTypeOK' /\ Alive' = Alive /\ Listed' = Listed /\ awaited' \in 0..Len(tasks)
      BY <1>1, <1>2, <1>4 DEF Alive, Listed
    <2>2. \A n \in 1..Len(tasks) : n < awaited' => n < awaited \/ n = awaited
      BY <1>2, <1>4
    <2> QED BY <1>1, <1>3, <1>4, <2>1, <2>2 DEF SchedulerInv
  <1>5. CASE awaited = Len(tasks) /\ awaited' = 0 /\ tasks' = <<>>
    <2>1. \A n \in 1..Len(tasks) : n < awaited \/ n = awaited
      BY <1>2, <1>5
    <2>2. \A n \in 1..Len(tasks) : loop[tasks[n]] = "ended"
      BY <1>1, <2>1 DEF SchedulerInv
    <2>3. Alive = {}
      <3>1. \A i \in Listed : loop[i] = "ended"
        BY <2>2 DEF Listed
      <3> QED BY <3>1 DEF Alive, SchedulerInv
    <2>4. Alive' = {} /\ cancelling' = {}
      BY <1>1, <2>3 DEF Alive, SchedulerInv
    <2>5. SchedulerTypeOK' /\ Len(tasks') = 0
      BY <1>1, <1>5
    <2> QED BY <1>3, <1>5, <2>4, <2>5 DEF SchedulerInv
  <1> QED BY <1>4, <1>5 DEF StopAwaits

LEMMA SchedulerStep == SchedulerIInv /\ [Next]_vars => SchedulerIInv'
  <1> SUFFICES ASSUME SchedulerIInv, [Next]_vars PROVE SchedulerIInv'
    OBVIOUS
  <1>1. CASE Register
    BY <1>1 DEF Register, SchedulerIInv, SchedulerTypeOK, Numbered, InUse, SchedulerInv, Alive, Listed
  <1>2. ASSUME NEW i \in Ids, LoopNext(i) PROVE SchedulerIInv'
    <2>1. CASE Begin(i) \/ Execute(i) \/ Executed(i) \/ Fails(i)
      BY <2>1, LoopMoves DEF Begin, Execute, Executed, Fails, AfterFailure, LoopStep, Alive
    <2>2. CASE Cancelled(i)
      BY <2>2, LoopMoves DEF Cancelled, AfterCancel, Delivered, Alive
    <2>3. CASE Swallows(i)
      BY <2>3, LoopMoves DEF Swallows, Delivered, Alive
    <2> QED BY <1>2, <2>1, <2>2, <2>3 DEF LoopNext
  <1>3. CASE UNCHANGED schedulerVars
    BY <1>3 DEF schedulerVars, SchedulerIInv, SchedulerTypeOK, Numbered, InUse, SchedulerInv, Alive, Listed
  <1>4. ASSUME NEW t \in Triggers, TriggerEnds(t) \/ \E q \in Requests : Trigger(t, q) PROVE UNCHANGED schedulerVars
    BY <1>4 DEF TriggerEnds, Trigger
  <1>5. CASE UNCHANGED vars
    BY <1>3, <1>5 DEF vars
  <1> QED BY <1>1, <1>2, <1>3, <1>4, <1>5, StartKeeps, StopKeeps, StopAwaitsKeeps DEF Next

(* Every live loop is one that a later stop reaches and waits for, so a    *)
(* scheduler that has stopped executes nothing.  Scheduler.start and stop. *)
THEOREM StopReachesEveryLoop == Spec => []SchedulerInv
  <1>1. SchedulerIInv => SchedulerInv
    BY DEF SchedulerIInv
  <1> QED BY <1>1, SchedulerInit, SchedulerStep, PTL DEF Spec
=============================================================================
