---------------------------- MODULE StateMachine ----------------------------
(***************************************************************************)
(* do_state_transition (state/machine.py), run by a request that handles   *)
(* the record `target` for the principal `caller`.  It awaits three times: *)
(* the read that the gate is judged on, the compare-and-set, and, once the *)
(* compare-and-set has answered, the three publishes (which cannot         *)
(* suspend: the bus puts to unbounded queues).                             *)
(*                                                                         *)
(* Of the events on the bus only their numbers are kept, per record,       *)
(* machine and state: what subscribers can add up to a current state.      *)
(***************************************************************************)
EXTENDS Storage

CONSTANT Tasks      \* the requests in flight

VARIABLES
    pc,        \* where each request is
    result,    \* how it was answered
    target,    \* target_id: the row it is about, 0 for None
    caller,    \* the principal
    frame,     \* locals of do_state_transition
    entered,   \* entered[i][m][s]: <content>.<m>.<s>.entered events
    exited,    \* exited[i][m][s]:  <content>.<m>.<s>.exited events
    news       \* news[i][k]: content.<content>.<k> events

NoResult == "none"
Results  == {NoResult, "ok", "scope", "invalid", "not_found", "conflict", "bad_request", "error"}
Kinds    == {"created", "updated", "deleted"}

(* Machines above NumMachines are names the content does not declare;      *)
(* `from` and `data` are set by the read.                                  *)
Frame == [machine : Nat, to : States \union {Absent}, from : States \union {Absent},
          data : Data \union {Absent}]

smVars  == <<frame, entered, exited>>
busVars == <<entered, exited, news>>

Finish(t, r) ==
    /\ pc' = [pc EXCEPT ![t] = "done"]
    /\ result' = [result EXCEPT ![t] = r]

Goto(t, label) == pc' = [pc EXCEPT ![t] = label] /\ UNCHANGED result

(* The arguments of a call.                                                *)
Call(m, to) == [machine |-> m, to |-> to, from |-> Absent, data |-> Absent]

-----------------------------------------------------------------------------
(* Judging the gate on the record just read, in the code's order.          *)
CondRefusal(g, rec) ==
    CASE g.cond /\ rec.data \in CondRaises    -> "bad_request"
      [] g.cond /\ rec.data \notin CondTrue   -> "conflict"
      [] OTHER                                -> NoResult

EnteredRefusal(g, rec) ==
    IF g.entered /\ rec.data \in CondRaises THEN "bad_request" ELSE NoResult

(* Fault: the scope of an unconditioned gate is not looked at.             *)
UnscopedRefusal(u, m, rec, to) ==
    LET g == Gates[m][<<rec.state[m], to>>]
    IN  IF CondRefusal(g, rec) # NoResult THEN CondRefusal(g, rec) ELSE EnteredRefusal(g, rec)

GateRefusal(u, m, rec, to) ==
    LET g == Gates[m][<<rec.state[m], to>>]
    IN  IF CondRefusal(g, rec) # NoResult THEN CondRefusal(g, rec)
        ELSE IF ~ ScopeOK(u, m, rec.state[m], to) THEN "scope"
        ELSE EnteredRefusal(g, rec)

Refusal(u, m, i, to) ==
    CASE m \notin Machines                       -> "bad_request"
      [] m \in Machines /\ db[i] = NoRecord      -> "not_found"
      [] m \in Machines /\ db[i] # NoRecord /\ ~ Declared(m, db[i].state[m], to) -> "conflict"
      [] OTHER                                   -> GateRefusal(u, m, db[i], to)

TransitionRefused(t) ==
    LET f == frame[t]
        r == Refusal(caller[t], f.machine, target[t], f.to)
    IN  /\ pc[t] = "sm_read"
        /\ r # NoResult
        /\ Finish(t, r)
        /\ UNCHANGED <<storageVars, smVars, news>>

(* The gate is passed; entered: assignments are computed from this read.   *)
TransitionJudged(t) ==
    LET f   == frame[t]
        rec == db[target[t]]
    IN  /\ pc[t] = "sm_read"
        /\ Refusal(caller[t], f.machine, target[t], f.to) = NoResult
        /\ frame' = [frame EXCEPT ![t] =
               [f EXCEPT !.from = rec.state[f.machine],
                         !.data = IF Gates[f.machine][<<rec.state[f.machine], f.to>>].entered
                                  THEN Entered[rec.data] ELSE Absent]]
        /\ Goto(t, "cas")
        /\ UNCHANGED <<storageVars, busVars>>

-----------------------------------------------------------------------------
(* The patch of the compare-and-set: the state column and the assignments. *)
TransitionPatch(f) ==
    [owner |-> Absent, state |-> [m \in {f.machine} |-> f.to], data |-> f.data]

TransitionLands(t) ==
    /\ pc[t] = "cas"
    /\ StorageUpdateIf(target[t], frame[t].machine, frame[t].from, TransitionPatch(frame[t]))
    /\ Goto(t, "publish")
    /\ UNCHANGED <<smVars, news>>

(* not_found when the row is gone, condition_failed when it has moved.     *)
TransitionLost(t) ==
    /\ pc[t] = "cas"
    /\ ~ ConditionMet(target[t], frame[t].machine, frame[t].from)
    /\ Finish(t, IF db[target[t]] = NoRecord THEN "not_found" ELSE "conflict")
    /\ UNCHANGED <<storageVars, smVars, news>>

(* exited, entered and the legacy content.updated event.  Where the        *)
(* request goes next is the handler's part of the step.                    *)
TransitionPublished(t) ==
    LET f == frame[t]
    IN  /\ pc[t] = "publish"
        /\ exited'  = [exited  EXCEPT ![target[t]][f.machine][f.from] = @ + 1]
        /\ entered' = [entered EXCEPT ![target[t]][f.machine][f.to] = @ + 1]
        /\ news'    = [news    EXCEPT ![target[t]]["updated"] = @ + 1]
        /\ UNCHANGED storageVars
=============================================================================
