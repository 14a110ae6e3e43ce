----------------------------- MODULE Background -----------------------------
(***************************************************************************)
(* Computes that no request of a user runs: the scheduler (scheduler.py),  *)
(* one asyncio loop per registration and start, and the manual trigger     *)
(* (routing/compute.py) with the error router (errors/router.py) its       *)
(* confidentiality gate reports to.  The application's lifespan owns the   *)
(* scheduler and calls register, start and stop one at a time; loops and   *)
(* triggers interleave with it at every await.                             *)
(***************************************************************************)
EXTENDS Naturals, Sequences, FiniteSets

CONSTANTS
    Computes,   \* [name, scope, gate, inputs]: compute specs; gate is the confidentiality scope
    Contents,
    Requests,   \* [compute, scopes, json, content]: bodies of the trigger
    Handlers,   \* typed error handlers, in declaration order
    Triggers,   \* concurrent trigger calls
    MaxRegistered, MaxTasks,    \* bounds: registrations, loops ever started
    None

(* ctx.compute_lookup is keyed by name, and "ambiguous" is no content.     *)
ASSUME ComputesAssumption ==
    /\ \A c, d \in Computes : c.name = d.name => c = d
    /\ \A c \in Computes : c.inputs \in Seq(Contents)
ASSUME SentinelAssumption == "ambiguous" \notin Contents \union {None}
ASSUME BoundsAssumption == MaxRegistered \in Nat /\ MaxTasks \in Nat

VARIABLES
    registered, \* how many computes are registered with the scheduler
    tasks,      \* _tasks: the loops start has created, by index
    loop,       \* where each loop is
    cancelling, \* loops with a cancellation under way
    awaited,    \* the loop stop is waiting for, 0 when no stop is running
    swallowed,  \* history: loops whose compute swallowed a cancellation
    call,       \* where each trigger call is
    request,    \* its request
    error_log,  \* TerminAtor._error_log, as sources
    rejected    \* history: gate rejections

schedulerVars == <<registered, tasks, loop, cancelling, awaited, swallowed>>
triggerVars   == <<call, request, error_log, rejected>>
vars == <<schedulerVars, triggerVars>>

Ids == 1..MaxTasks
Listed == {tasks[i] : i \in DOMAIN tasks}
Alive == {i \in Ids : loop[i] \in {"new", "sleeping", "running"}}

Init ==
    /\ registered = 0 /\ tasks = <<>> /\ awaited = 0
    /\ loop = [i \in Ids |-> "none"]
    /\ cancelling = {} /\ swallowed = {}
    /\ call = [t \in Triggers |-> "none"] /\ request = [t \in Triggers |-> None]
    /\ error_log = <<>> /\ rejected = <<>>

-----------------------------------------------------------------------------
(* The owner.  Registrations are not looked at before the next start.      *)
Owned == awaited = 0

Register ==
    /\ Owned /\ registered < MaxRegistered
    /\ registered' = registered + 1
    /\ UNCHANGED <<tasks, loop, cancelling, awaited, swallowed, triggerVars>>

Unused == {i \in Ids : loop[i] = "none"}
(* Loops are numbered in the order they are created.                       *)
Started == {i \in Unused : Cardinality({j \in Unused : j < i}) < registered}
Start ==
    /\ Owned /\ registered > 0 /\ Cardinality(Unused) >= registered
    /\ loop' = [i \in Ids |-> IF i \in Started THEN "new" ELSE loop[i]]
    /\ tasks' = tasks \o [n \in 1..registered |-> Cardinality(Ids \ Unused) + n]
    /\ UNCHANGED <<registered, cancelling, awaited, swallowed, triggerVars>>

(* Fault: stop forgets its loops without waiting for them.                 *)
FirstAwaitedNone == 0
FirstAwaited == 1

(* stop cancels all, then awaits one after the other.                      *)
Stop ==
    /\ Owned /\ tasks # <<>>
    /\ cancelling' = cancelling \union (Listed \intersect Alive)
    /\ awaited' = FirstAwaited
    /\ tasks' = IF FirstAwaited = 0 THEN <<>> ELSE tasks
    /\ UNCHANGED <<registered, loop, swallowed, triggerVars>>

StopAwaits ==
    /\ awaited > 0 /\ loop[tasks[awaited]] = "ended"
    /\ \/ awaited < Len(tasks) /\ awaited' = awaited + 1 /\ UNCHANGED tasks
       \/ awaited = Len(tasks) /\ awaited' = 0 /\ tasks' = <<>>
    /\ UNCHANGED <<registered, loop, cancelling, swallowed, triggerVars>>

-----------------------------------------------------------------------------
(* A loop.  A cancellation is delivered where it awaits: before its first  *)
(* step, in its sleep, or inside the compute.                              *)
Goto(i, where) == loop' = [loop EXCEPT ![i] = where]
LoopStep(i, from, to) ==
    /\ loop[i] = from /\ i \notin cancelling
    /\ Goto(i, to)
    /\ UNCHANGED <<registered, tasks, cancelling, awaited, swallowed, triggerVars>>

Begin(i)   == LoopStep(i, "new", "sleeping")
Execute(i) == LoopStep(i, "sleeping", "running")

(* Fault: a compute that fails ends its loop.                              *)
AfterFailureEnds == "ended"
AfterFailure == "sleeping"

Executed(i) == LoopStep(i, "running", "sleeping")
Fails(i)    == LoopStep(i, "running", AfterFailure)

(* Fault: the loop takes a cancellation for a failure of the compute.      *)
AfterCancelSleeps == "sleeping"
AfterCancel == "ended"

Delivered(i) == i \in cancelling /\ cancelling' = cancelling \ {i}
Cancelled(i) ==
    /\ Delivered(i)
    /\ \/ loop[i] \in {"new", "sleeping"} /\ Goto(i, "ended")
       \/ loop[i] = "running" /\ Goto(i, AfterCancel)
    /\ UNCHANGED <<registered, tasks, awaited, swallowed, triggerVars>>

(* The compute is foreign code: it may finish its work, or catch the       *)
(* cancellation and return as if nothing had happened.                     *)
Swallows(i) ==
    /\ Delivered(i) /\ loop[i] = "running"
    /\ Goto(i, "sleeping")
    /\ swallowed' = swallowed \union {i}
    /\ UNCHANGED <<registered, tasks, awaited, triggerVars>>

-----------------------------------------------------------------------------
(* handle_error: the first typed handler that matches decides; escalate    *)
(* stops its actions and lets the error go on.  Conditions that raise, or  *)
(* that nobody can evaluate, do not hold.                                  *)
MatchesError(h, source) ==
    /\ h.catch_all \/ h.source \in {None, source}
    /\ h.condition \in {None, TRUE}
Deciding(source) == {i \in DOMAIN Handlers : MatchesError(Handlers[i], source)}
Escalated(h) == \E n \in DOMAIN h.actions : h.actions[n] = "escalate"
HandledByType(source) ==
    \E i \in Deciding(source) : (\A j \in Deciding(source) : i <= j) /\ ~ Escalated(Handlers[i])

(* Fault: only what no typed handler took is logged.                       *)
LoggedUnhandled(source) == IF HandledByType(source) THEN error_log ELSE Append(error_log, source)
(* route logs before it looks for a handler.                               *)
Logged(source) == Append(error_log, source)

ComputeOf(q) == {c \in Computes : c.name = q.compute}

(* Fault: a content is inferred from the first of several inputs.          *)
ContentOfFirst(c, q) == IF q.content # None THEN q.content ELSE IF c.inputs = <<>> THEN None ELSE c.inputs[1]

(* The content the compute is run on; it must be known, yet a content the  *)
(* caller names need not be one of the compute's inputs.                   *)
ContentOf(c, q) ==
    IF q.content # None THEN q.content
    ELSE CASE Len(c.inputs) = 1 -> c.inputs[1]
           [] Len(c.inputs) = 0 -> None
           [] OTHER             -> "ambiguous"

Passes(scope, q) == scope \in q.scopes \union {None}
Rejected(c, q) == Passes(c.scope, q) /\ ~ Passes(c.gate, q)

Verdict(c, q) ==
    IF ~ Passes(c.scope, q) \/ ~ Passes(c.gate, q) THEN "forbidden"
    ELSE IF ~ q.json \/ ContentOf(c, q) \notin Contents \union {None} THEN "bad request"
    ELSE "executing"

Trigger(t, q) ==
    /\ call[t] = "none"
    /\ request' = [request EXCEPT ![t] = q]
    /\ \/ /\ ComputeOf(q) = {}
          /\ call' = [call EXCEPT ![t] = "not found"]
          /\ UNCHANGED <<error_log, rejected>>
       \/ \E c \in ComputeOf(q) :
            /\ call' = [call EXCEPT ![t] = Verdict(c, q)]
            /\ IF Rejected(c, q)
                 THEN error_log' = Logged(c.name) /\ rejected' = Append(rejected, c.name)
                 ELSE UNCHANGED <<error_log, rejected>>
    /\ UNCHANGED schedulerVars

TriggerEnds(t) ==
    /\ call[t] = "executing"
    /\ \E outcome \in {"completed", "error"} : call' = [call EXCEPT ![t] = outcome]
    /\ UNCHANGED <<schedulerVars, request, error_log, rejected>>

LoopNext(i) == Begin(i) \/ Execute(i) \/ Executed(i) \/ Fails(i) \/ Cancelled(i) \/ Swallows(i)
Next ==
    \/ Register \/ Start \/ Stop \/ StopAwaits
    \/ \E i \in Ids : LoopNext(i)
    \/ \E t \in Triggers : TriggerEnds(t) \/ \E q \in Requests : Trigger(t, q)

(* asyncio wakes sleepers and delivers cancellations, computes end, and    *)
(* stop goes on when the loop it awaits has ended.                         *)
Fairness ==
    /\ \A i \in Ids : WF_vars(LoopNext(i))
    /\ WF_vars(StopAwaits)
    /\ \A t \in Triggers : WF_vars(TriggerEnds(t))

Spec == Init /\ [][Next]_vars
FairSpec == Spec /\ Fairness

-----------------------------------------------------------------------------
(* Properties.                                                             *)

(* Every live loop is one that a later stop reaches, so a scheduler that   *)
(* has stopped executes nothing; and stop has seen the end of every loop   *)
(* it has passed.  Scheduler.start and stop.                               *)
SchedulerInv ==
    /\ Alive \subseteq Listed /\ cancelling \subseteq Alive
    /\ awaited \in 0..Len(tasks)
    /\ \A n \in 1..Len(tasks) : loop[tasks[n]] # "none" /\ (n < awaited => loop[tasks[n]] = "ended")

(* stop returns, unless a compute swallowed its cancellation: its loop     *)
(* then sleeps and executes for ever, and stop waits for it for ever.      *)
(* Scheduler.stop and _run_loop.                                           *)
StopReturns == awaited # 0 ~> awaited = 0 \/ swallowed # {}

(* A compute that fails is executed again; only stop ends a loop.          *)
(* _run_loop.                                                              *)
KeepsTicking ==
    \A i \in Ids : i \in Listed ~> (loop[i] = "running" \/ awaited # 0 \/ i \notin Listed)

(* The two together: the scheduler neither hangs in stop nor stops ticking *)
(* by itself.                                                              *)
SchedulerLives == StopReturns /\ KeepsTicking

(* The audit trail has every rejection of the confidentiality gate, in     *)
(* order, whatever the declared handlers do with it.  trigger_compute_     *)
(* handler and TerminAtor.route.                                           *)
RejectionsAudited == error_log = rejected

(* A compute runs only for a caller the gate lets pass, on a content that  *)
(* exists and that the caller named or could not have meant otherwise.     *)
(* trigger_compute_handler.                                                *)
RunsWhatWasMeant ==
    \A t \in Triggers : call[t] = "executing" =>
        \A c \in ComputeOf(request[t]) :
            /\ Passes(c.scope, request[t]) /\ Passes(c.gate, request[t])
            /\ request[t].content \in Contents \union {None}
            /\ request[t].content = None => Len(c.inputs) <= 1

(* The two together: the trigger's verdicts and the trail they leave.      *)
TriggersSound == RejectionsAudited /\ RunsWhatWasMeant
=============================================================================
