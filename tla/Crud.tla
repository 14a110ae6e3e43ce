-------------------------------- MODULE Crud --------------------------------
(***************************************************************************)
(* The writing handlers of routing/crud.py - create, update (PUT), delete  *)
(* and transition - run by concurrent requests against one content type.   *)
(* A step is what a handler does between two awaits on the storage         *)
(* provider; the effect of a storage operation and what the handler does   *)
(* with its answer are separate steps whenever something observable        *)
(* follows the answer.                                                     *)
(*                                                                         *)
(* The hooks the runtime puts on ctx (publish_content_event and            *)
(* run_event_handlers_for_content) are external: they either return or     *)
(* raise.                                                                  *)
(***************************************************************************)
EXTENDS StateMachine, FiniteSets

CONSTANTS
    Requests,       \* the requests callers may send
    LookupById,     \* lookup_column_for(content) is "id"
    GuessedKeys,    \* callers may name a key no create has handed out yet
    NoRequest       \* what an idle task handles

VARIABLES
    req,            \* the request a task handles
    body,           \* the handler's `body`, stripped as it goes
    existing,       \* the handler's `existing`
    todo,           \* machines of the PUT still to be transitioned
    landed          \* machines of the request whose transition has landed

vars == <<db, lastId, pc, result, target, caller, frame, entered, exited, news,
          req, body, existing, todo, landed>>

Ops == {"create", "update", "delete", "transition"}

(* machine 0: the path names no machine.                                   *)
Request == [op : Ops, user : Users, key : Ids, body : Patch,
            machine : 0 .. NumMachines + 1, to : States]

ASSUME RequestAssumption == Requests \subseteq Request /\ NoRequest \notin Request
ASSUME RouteAssumption == LookupById \in BOOLEAN /\ GuessedKeys \in BOOLEAN
ASSUME TaskAssumption == IsFiniteSet(Tasks)

EmptyBody == [owner |-> Absent, state |-> [m \in {} |-> Absent], data |-> Absent]

L == INSTANCE Lifecycle WITH rows <- db

Init ==
    /\ L!Init
    /\ pc = [t \in Tasks |-> "idle"]
    /\ result = [t \in Tasks |-> NoResult]
    /\ target = [t \in Tasks |-> 0]
    /\ caller = [t \in Tasks |-> Absent]
    /\ frame = [t \in Tasks |-> Call(0, Absent)]
    /\ entered = [i \in Ids |-> [m \in Machines |-> [s \in States |-> 0]]]
    /\ exited = [i \in Ids |-> [m \in Machines |-> [s \in States |-> 0]]]
    /\ news = [i \in Ids |-> [k \in Kinds |-> 0]]
    /\ req = [t \in Tasks |-> NoRequest]
    /\ body = [t \in Tasks |-> EmptyBody]
    /\ existing = [t \in Tasks |-> NoRecord]
    /\ todo = [t \in Tasks |-> {}]
    /\ landed = [t \in Tasks |-> {}]

-----------------------------------------------------------------------------
(* A request arrives.  Everything a handler does before its first await on *)
(* storage happens together with that await's effect.                      *)
Arrive(t) == \E r \in Requests :
    /\ pc[t] = "idle"
    /\ r.op # "create" /\ ~ GuessedKeys => r.key <= lastId
    /\ req' = [req EXCEPT ![t] = r]
    /\ body' = [body EXCEPT ![t] = r.body]
    /\ caller' = [caller EXCEPT ![t] = r.user]
    /\ Goto(t, r.op)
    /\ UNCHANGED <<storageVars, target, smVars, news, existing, todo, landed>>

handlerVars == <<caller, req>>

(* The request is answered and this step has changed nothing else.         *)
Answer(t, why) ==
    /\ Finish(t, why)
    /\ UNCHANGED <<storageVars, target, handlerVars, smVars, news, body, existing, todo, landed>>

-----------------------------------------------------------------------------
(* create_content_handler                                                  *)
CreateData(b) == IF b.data = Absent THEN DefaultData ELSE b.data
CreateValid(b) == <<Initial, CreateData(b)>> \in Valid

(* The boundary, then validation, then whatever the insert raises.         *)
CreateRefused(t) ==
    /\ pc[t] = "create"
    /\ \/ ~ InBoundary(caller[t]) /\ Answer(t, "scope")
       \/ InBoundary(caller[t]) /\ ~ CreateValid(body[t]) /\ Answer(t, "invalid")
       \/ /\ InBoundary(caller[t]) /\ CreateValid(body[t])
          /\ \E why \in {"conflict", "bad_request", "error"} : Answer(t, why)

CreateInsert(t) ==
    /\ pc[t] = "create"
    /\ InBoundary(caller[t])
    /\ CreateValid(body[t])
    /\ StorageCreate(FreshRecord(caller[t], CreateData(body[t])))
    /\ target' = [target EXCEPT ![t] = lastId + 1]
    /\ Goto(t, "announce")
    /\ UNCHANGED <<handlerVars, smVars, news, body, existing, todo, landed>>

-----------------------------------------------------------------------------
(* update_content_handler                                                  *)
WriteAllowed(u, b) == b.data # Absent => MayWriteData(u)

(* Faults: the ownership field, the state columns stay in the body.        *)
KeepOwner(b) == b
KeepState(b) == b

StripOwner(b) == IF Owned THEN [b EXCEPT !.owner = Absent] ELSE b
StripState(b) == [b EXCEPT !.state = EmptyBody.state]

(* Machines whose value in the body differs from the record read.          *)
Touched(b, rec) == {m \in DOMAIN b.state : b.state[m] # rec.state[m]}

(* Fault: the chain runs in reverse.                                       *)
Last(S) == CHOOSE m \in S : \A n \in S : m >= n

(* The next machine of the chain, in IR order.                             *)
First(S) == CHOOSE m \in S : \A n \in S : m <= n

(* Enter do_state_transition for the first machine in S, or go on.         *)
Chain(t, S) ==
    /\ todo' = [todo EXCEPT ![t] = S]
    /\ \/ /\ S = {}
          /\ Goto(t, "persist")
          /\ UNCHANGED frame
       \/ /\ S # {}
          /\ Goto(t, "sm_read")
          /\ frame' = [frame EXCEPT ![t] = Call(First(S), req[t].body.state[First(S)])]

UpdateRefused(t) ==
    LET rec == db[req[t].key]
    IN  /\ pc[t] = "update"
        /\ \/ ~ WriteAllowed(caller[t], body[t]) /\ Answer(t, "scope")
           \/ /\ WriteAllowed(caller[t], body[t])
              /\ Owned /\ rec # NoRecord /\ rec.owner # caller[t]
              /\ Answer(t, "not_found")

(* The record is there: its state columns leave the body and become        *)
(* transitions.                                                            *)
UpdateFound(t) ==
    LET rec == db[req[t].key]
    IN  /\ pc[t] = "update"
        /\ WriteAllowed(caller[t], body[t])
        /\ rec # NoRecord
        /\ Owned => rec.owner = caller[t]
        /\ existing' = [existing EXCEPT ![t] = rec]
        /\ target' = [target EXCEPT ![t] = req[t].key]
        /\ body' = [body EXCEPT ![t] = StripState(StripOwner(body[t]))]
        /\ Chain(t, Touched(body[t], rec))
        /\ UNCHANGED <<storageVars, handlerVars, busVars, landed>>

(* The record is not there: a primary-key route goes on with the key as    *)
(* target_id and the body as it came, any other route with None.           *)
UpdateMissing(t) ==
    /\ pc[t] = "update"
    /\ WriteAllowed(caller[t], body[t])
    /\ db[req[t].key] = NoRecord
    /\ target' = [target EXCEPT ![t] = IF LookupById THEN req[t].key ELSE 0]
    /\ body' = [body EXCEPT ![t] = StripOwner(body[t])]
    /\ Goto(t, "persist")
    /\ UNCHANGED <<storageVars, handlerVars, smVars, news, existing, todo, landed>>

(* validate_dependent_values on existing overlaid with the body, or on the *)
(* body alone: a column the body lacks violates nothing.                   *)
Validated(rec, b) ==
    IF rec # NoRecord
    THEN <<Patched(rec, b).state, Patched(rec, b).data>> \in Valid
    ELSE \E v \in Valid : /\ \A m \in DOMAIN b.state : v[1][m] = b.state[m]
                          /\ b.data # Absent => v[2] = b.data

NothingToWrite(t) == EmptyPatch(body[t]) \/ target[t] = 0
RowGone(t) == target[t] # 0 => db[target[t]] = NoRecord

(* Validation, then the errors of storage.update and of the read-back.     *)
PersistRefused(t) ==
    /\ pc[t] = "persist"
    /\ \/ ~ Validated(existing[t], body[t]) /\ Answer(t, "invalid")
       \/ Validated(existing[t], body[t]) /\ RowGone(t) /\ Answer(t, "not_found")
       \/ Validated(existing[t], body[t]) /\ ~ NothingToWrite(t) /\ Answer(t, "error")

Persist(t) ==
    /\ pc[t] = "persist"
    /\ Validated(existing[t], body[t])
    /\ ~ NothingToWrite(t)
    /\ StorageUpdate(target[t], body[t])
    /\ Goto(t, "announce")
    /\ UNCHANGED <<target, handlerVars, smVars, news, body, existing, todo, landed>>

ReadBack(t) ==
    /\ pc[t] = "persist"
    /\ Validated(existing[t], body[t])
    /\ NothingToWrite(t)
    /\ ~ RowGone(t)
    /\ Answer(t, "ok")

-----------------------------------------------------------------------------
(* delete_content_handler                                                  *)
DeleteChecked(t) ==
    LET rec == db[req[t].key]
    IN  /\ pc[t] = "delete"
        /\ \/ /\ \/ (Owned \/ ~ LookupById) /\ rec = NoRecord
                 \/ Owned /\ rec # NoRecord /\ rec.owner # caller[t]
              /\ Answer(t, "not_found")
           \/ /\ Owned \/ ~ LookupById => rec # NoRecord
              /\ Owned => rec.owner = caller[t]
              /\ target' = [target EXCEPT ![t] = req[t].key]
              /\ Goto(t, "delete_row")
              /\ UNCHANGED <<storageVars, handlerVars, smVars, news, body, existing, todo, landed>>

(* A foreign-key violation is a conflict; other errors are re-raised.      *)
DeleteRefused(t) ==
    /\ pc[t] = "delete_row"
    /\ \/ db[target[t]] = NoRecord /\ Answer(t, "not_found")
       \/ db[target[t]] # NoRecord /\ \E why \in {"conflict", "error"} : Answer(t, why)

DeleteRow(t) ==
    /\ pc[t] = "delete_row"
    /\ StorageDelete(target[t])
    /\ Goto(t, "announce")
    /\ UNCHANGED <<target, handlerVars, smVars, news, body, existing, todo, landed>>

-----------------------------------------------------------------------------
(* transition_content_handler: the row, the machine (the first one when    *)
(* the path names none; with no machine at all that name is not declared   *)
(* either and the answer is the same bad_request), then the transition.    *)
NamedMachine(r) == IF r.machine = 0 THEN 1 ELSE r.machine

TransitionResolved(t) ==
    LET rec == db[req[t].key]
    IN  /\ pc[t] = "transition"
        /\ \/ rec = NoRecord /\ Answer(t, "not_found")
           \/ /\ rec # NoRecord
              /\ target' = [target EXCEPT ![t] = req[t].key]
              /\ frame' = [frame EXCEPT ![t] = Call(NamedMachine(req[t]), req[t].to)]
              /\ Goto(t, "sm_read")
              /\ UNCHANGED <<storageVars, handlerVars, busVars, body, existing, todo, landed>>

-----------------------------------------------------------------------------
(* do_state_transition inside a handler; when it returns, a transition     *)
(* request is answered and a PUT goes on with the next touched machine.    *)
localVars == <<target, handlerVars, body, existing, todo>>

SMRead(t) == (TransitionRefused(t) \/ TransitionJudged(t)) /\ UNCHANGED <<localVars, landed>>

SMUpdateIf(t) ==
    \/ /\ TransitionLands(t)
       /\ landed' = [landed EXCEPT ![t] = @ \union {frame[t].machine}]
       /\ UNCHANGED localVars
    \/ TransitionLost(t) /\ UNCHANGED <<localVars, landed>>

SMPublish(t) ==
    /\ TransitionPublished(t)
    /\ \/ /\ req[t].op = "transition"
          /\ Finish(t, "ok")
          /\ UNCHANGED <<frame, todo>>
       \/ /\ req[t].op = "update"
          /\ Chain(t, todo[t] \ {frame[t].machine})
    /\ UNCHANGED <<target, handlerVars, body, existing, landed>>

-----------------------------------------------------------------------------
(* publish_content_event and the IR event handlers after a write: either   *)
(* the event is out (and a handler may still raise), or publishing raised. *)
KindOf(op) == CASE op = "create" -> "created" [] op = "delete" -> "deleted" [] OTHER -> "updated"

Announce(t) ==
    /\ pc[t] = "announce"
    /\ \/ /\ news' = [news EXCEPT ![target[t]][KindOf(req[t].op)] = @ + 1]
          /\ \E r \in {"ok", "error"} : Finish(t, r)
       \/ /\ Finish(t, "error")
          /\ UNCHANGED news
    /\ UNCHANGED <<storageVars, smVars, localVars, landed>>

-----------------------------------------------------------------------------
Handle(t) ==
    \/ CreateRefused(t) \/ CreateInsert(t)
    \/ UpdateRefused(t) \/ UpdateFound(t) \/ UpdateMissing(t)
    \/ PersistRefused(t) \/ Persist(t) \/ ReadBack(t)
    \/ DeleteChecked(t) \/ DeleteRefused(t) \/ DeleteRow(t)
    \/ TransitionResolved(t)
    \/ SMRead(t) \/ SMUpdateIf(t) \/ SMPublish(t)
    \/ Announce(t)

Done == (\A t \in Tasks : pc[t] = "done") /\ UNCHANGED vars

Next == (\E t \in Tasks : Arrive(t) \/ Handle(t)) \/ Done

Spec == Init /\ [][Next]_vars
-----------------------------------------------------------------------------
TypeOK ==
    /\ db \in [Ids -> Record \union {NoRecord}]
    /\ lastId \in 0 .. MaxId
    /\ pc \in [Tasks -> Ops \union {"idle", "persist", "delete_row", "sm_read", "cas",
                                    "publish", "announce", "done"}]
    /\ result \in [Tasks -> Results]
    /\ target \in [Tasks -> 0 .. MaxId]
    /\ caller \in [Tasks -> Users \union {Absent}]
    /\ frame \in [Tasks -> Frame]
    /\ entered \in [Ids -> [Machines -> [States -> Nat]]]
    /\ exited \in [Ids -> [Machines -> [States -> Nat]]]
    /\ news \in [Ids -> [Kinds -> Nat]]
    /\ req \in [Tasks -> Request \union {NoRequest}]
    /\ body \in [Tasks -> Patch]
    /\ existing \in [Tasks -> Record \union {NoRecord}]
    /\ todo \in [Tasks -> SUBSET Machines]
    /\ landed \in [Tasks -> SUBSET Machines]

(* What keeps a handler's earlier reads usable when it acts on them: ids   *)
(* are not reused, ownership of an owned row never changes, and a gate is  *)
(* a fact about the caller, not about the row.                             *)
IdsNotReused == \A i \in Ids : i > lastId => db[i] = NoRecord

Locations(op) ==
    CASE op = "create"     -> {"create", "announce", "done"}
      [] op = "update"     -> {"update", "sm_read", "cas", "publish", "persist", "announce", "done"}
      [] op = "delete"     -> {"delete", "delete_row", "announce", "done"}
      [] op = "transition" -> {"transition", "sm_read", "cas", "publish", "done"}

RequestKept(t) ==
    /\ req[t] \in Request
    /\ caller[t] = req[t].user
    /\ pc[t] \in Locations(req[t].op)
    /\ req[t].op # "create" /\ ~ GuessedKeys => req[t].key <= lastId
    /\ pc[t] \in {"sm_read", "cas", "publish", "delete_row", "announce"} => target[t] \in Ids
    /\ req[t].op = "update" /\ pc[t] \in {"sm_read", "cas", "publish"} =>
         todo[t] \subseteq DOMAIN req[t].body.state

TransitionJudgedFor(t) ==
    LET f == frame[t]
    IN  /\ f.machine \in Machines /\ f.from \in States /\ f.to \in States
        /\ Declared(f.machine, f.from, f.to)
        /\ ScopeOK(caller[t], f.machine, f.from, f.to)
        /\ f.data # Absent => Gates[f.machine][<<f.from, f.to>>].entered

(* The row is the caller's as long as it exists.                           *)
StillOwned(t) ==
    Owned => /\ target[t] <= lastId
             /\ db[target[t]] # NoRecord => db[target[t]].owner = caller[t]

UpdateGrounded(t) ==
    /\ WriteAllowed(caller[t], body[t])
    /\ Owned => body[t].owner = Absent
    /\ existing[t] # NoRecord =>
         target[t] \in Ids /\ StillOwned(t) /\ DOMAIN body[t].state = {}
    /\ existing[t] = NoRecord =>
         pc[t] = "persist" /\ (target[t] # 0 => target[t] <= lastId /\ db[target[t]] = NoRecord)

Grounded(t) ==
    /\ pc[t] = "sm_read" => frame[t].to \in States
    /\ pc[t] \in {"cas", "publish"} => TransitionJudgedFor(t)
    /\ pc[t] = "update" => body[t] = req[t].body /\ existing[t] = NoRecord
    /\ req[t].op = "update" /\ pc[t] \in {"sm_read", "cas", "publish", "persist"} => UpdateGrounded(t)
    /\ pc[t] = "delete_row" => StillOwned(t)

HandlerInv ==
    /\ TypeOK
    /\ IdsNotReused
    /\ \A t \in Tasks : IF pc[t] = "idle" THEN existing[t] = NoRecord
                                           ELSE RequestKept(t) /\ Grounded(t)

(* Concurrent handlers together do what Lifecycle promises: every change   *)
(* of the table is one atomic create, field write, delete or declared and  *)
(* authorised state move, although each handler decides on earlier reads.  *)
RefinesLifecycle == L!Spec

(* Adding up the transition events of a row gives the state it is in: per  *)
(* machine and state, arrivals (published or about to be) and the initial  *)
(* state balance departures and the current state.  Of two requests racing *)
(* from one state exactly one lands and publishes.                         *)
Count(P) == IF P THEN 1 ELSE 0
Arriving(i, m, s) ==
    Cardinality({t \in Tasks : pc[t] = "publish" /\ target[t] = i
                               /\ frame[t].machine = m /\ frame[t].to = s})
Departing(i, m, s) ==
    Cardinality({t \in Tasks : pc[t] = "publish" /\ target[t] = i
                               /\ frame[t].machine = m /\ frame[t].from = s})
EventsAddUp == \A i \in Ids, m \in Machines, s \in States :
    db[i] # NoRecord =>
        entered[i][m][s] + Arriving(i, m, s) + Count(Initial[m] = s)
          = exited[i][m][s] + Departing(i, m, s) + Count(db[i].state[m] = s)

(* A PUT transitions the machines it touches in IR order, a failure stops  *)
(* the chain, and its fields are written and it is acknowledged only after *)
(* every one of them has landed.                                           *)
ChainInIROrder == \A t \in Tasks :
    pc[t] # "idle" /\ req[t].op = "update" /\ existing[t] # NoRecord =>
        LET wanted == Touched(req[t].body, existing[t])
        IN  /\ landed[t] \subseteq wanted
            /\ \A m \in landed[t], n \in wanted : n < m => n \in landed[t]
            /\ pc[t] = "announce" \/ result[t] = "ok" => landed[t] = wanted

(* However requests race, a row's birth and death are each announced at    *)
(* most once, a death only when the row is gone, and at most one delete is *)
(* acknowledged.                                                           *)
LifeEventsOnce == \A i \in Ids :
    /\ news[i]["created"] <= 1 /\ news[i]["deleted"] <= 1
    /\ news[i]["deleted"] = 1 => db[i] = NoRecord /\ i <= lastId
    /\ Cardinality({t \in Tasks : /\ pc[t] = "done" /\ result[t] = "ok"
                                  /\ req[t].op = "delete" /\ target[t] = i}) <= news[i]["deleted"]

-----------------------------------------------------------------------------
(* What the documentation says and the code does not do.                   *)

(* update_content_handler: a state column only moves through the declared  *)
(* transition table and its required scope.                                *)
StateMovesDeclared == [][
    \A i \in Ids, m \in Machines :
        db[i] # NoRecord /\ db'[i] # NoRecord /\ db'[i].state[m] # db[i].state[m] =>
            \E t \in Tasks : /\ pc'[t] # pc[t]
                             /\ Declared(m, db[i].state[m], db'[i].state[m])
                             /\ ScopeOK(caller[t], m, db[i].state[m], db'[i].state[m])]_vars

(* do_state_transition: a transition whose condition_expr is falsy is      *)
(* refused, the read-and-write window being atomic.                        *)
ConditionHoldsWhenLanding == [][
    \A t \in Tasks : pc[t] = "cas" /\ pc'[t] = "publish" =>
        (Gates[frame[t].machine][<<frame[t].from, frame[t].to>>].cond
            => db[target[t]].data \in CondTrue)]_vars
=============================================================================
