---------------------------- MODULE Conversation ----------------------------
(***************************************************************************)
(* Appending to a conversation field (routing/append.py).  An append reads *)
(* the parent row, builds an entry, writes the whole list back with a      *)
(* plain update, publishes the event and runs its listeners; every one of  *)
(* these awaits, so appends to one row interleave with each other, with a  *)
(* PUT of the field and with a delete of the row.                          *)
(*                                                                         *)
(* One row with an ownership filter is modelled.  The id of an entry is    *)
(* the rank in which it was made (the code's uuid7 has the millisecond,    *)
(* and does not order the ids of one).  The body and the metadata that     *)
(* nothing here looks at are left out.                                     *)
(***************************************************************************)
EXTENDS Naturals, Sequences

CONSTANTS
    Appenders,  \* requests; each appends once
    Users,
    Payloads,   \* [kind, call]: the bodies clients send
    Invalid,    \* a body without a canonical kind, or without text
    NotAList,   \* a field value that does not decode to a list
    NoEntry

ASSUME SentinelAssumption == Invalid \notin Payloads /\ NotAList \notin Seq([id : Nat, by : Users, payload : Payloads])

VARIABLES
    alive,      \* the parent row exists
    owner,      \* its owner
    field,      \* the conversation field: a list of entries, or NotAList
    clock,      \* the id made last
    pc,         \* where each append is
    user,       \* its principal
    payload,    \* its body
    snapshot,   \* entries: the list it has read
    entry,      \* the entry it adds
    answer,     \* what its caller got
    announced,  \* entries whose event has been published
    landed,     \* history: entries an update has written
    missed,     \* history: entries that landed between an append's read and its update
    overwritten \* history: entries replaced by a writer that had not read them

rowVars     == <<alive, owner, field>>
requestVars == <<pc, user, payload, snapshot, entry, answer>>
historyVars == <<landed, missed, overwritten>>
vars == <<rowVars, clock, requestVars, announced, historyVars>>

Entry == [id : Nat, by : Users, payload : Payloads]
Listed(s) == {s[i] : i \in DOMAIN s}

Init ==
    /\ alive = TRUE /\ owner \in Users /\ field = <<>> /\ clock = 0
    /\ pc = [a \in Appenders |-> "idle"]
    /\ user \in [Appenders -> Users]
    /\ payload = [a \in Appenders |-> Invalid]
    /\ snapshot = [a \in Appenders |-> <<>>]
    /\ entry = [a \in Appenders |-> NoEntry]
    /\ answer = [a \in Appenders |-> "none"]
    /\ announced = {} /\ landed = {} /\ overwritten = {}
    /\ missed = [a \in Appenders |-> {}]

-----------------------------------------------------------------------------
Goto(a, label) == pc' = [pc EXCEPT ![a] = label]
Answer(a, what) == Goto(a, "done") /\ answer' = [answer EXCEPT ![a] = what]

(* The body is validated before anything is awaited.                       *)
Arrive(a, p) ==
    /\ pc[a] = "idle"
    /\ payload' = [payload EXCEPT ![a] = p]
    /\ \/ p = Invalid /\ Answer(a, "invalid")
       \/ p # Invalid /\ Goto(a, "reading") /\ UNCHANGED answer
    /\ UNCHANGED <<rowVars, clock, user, snapshot, entry, announced, historyVars>>

(* Fault: a list that storage returns as JSON text counts as malformed.    *)
EntriesForgotten(v) == <<>>

(* A value that is not a list of entries starts a fresh one.               *)
Entries(v) == IF v = NotAList THEN <<>> ELSE v

(* "Not found" stands for no row as well as for somebody else's row.       *)
Hidden(a) == ~ alive \/ owner # user[a]

ReadRefused(a) ==
    /\ pc[a] = "reading"
    /\ Hidden(a)
    /\ Answer(a, "not_found")
    /\ UNCHANGED <<rowVars, clock, user, payload, snapshot, entry, announced, historyVars>>

(* The read returns, and without an await the entry is built.              *)
Read(a) ==
    /\ pc[a] = "reading"
    /\ ~ Hidden(a)
    /\ clock' = clock + 1
    /\ snapshot' = [snapshot EXCEPT ![a] = Entries(field)]
    /\ entry' = [entry EXCEPT ![a] = [id |-> clock + 1, by |-> user[a], payload |-> payload[a]]]
    /\ missed' = [missed EXCEPT ![a] = {}]
    /\ Goto(a, "updating")
    /\ UNCHANGED <<rowVars, user, payload, answer, announced, landed, overwritten>>

(* Fault: the newest entry first.                                          *)
NewestFirst(a) == <<entry[a]>> \o snapshot[a]

Written(a) == Append(snapshot[a], entry[a])

(* storage.update writes the list, or finds no row and returns None.       *)
Update(a) ==
    /\ pc[a] = "updating"
    /\ \/ /\ alive
          /\ field' = Written(a)
          /\ landed' = landed \union {entry[a]}
          /\ overwritten' = overwritten \union missed[a]
          /\ missed' = [b \in Appenders |-> IF pc[b] = "updating" /\ b # a
                                            THEN missed[b] \union {entry[a]} ELSE missed[b]]
       \/ ~ alive /\ UNCHANGED <<field, historyVars>>
    /\ Goto(a, "publishing")
    /\ UNCHANGED <<alive, owner, clock, user, payload, snapshot, entry, answer, announced>>

Publish(a) ==
    /\ pc[a] = "publishing"
    /\ announced' = announced \union {entry[a]}
    /\ Goto(a, "listening")
    /\ UNCHANGED <<rowVars, clock, user, payload, snapshot, entry, answer, historyVars>>

(* run_event_handlers returns.                                             *)
Listened(a) ==
    /\ pc[a] = "listening"
    /\ Answer(a, "created")
    /\ UNCHANGED <<rowVars, clock, user, payload, snapshot, entry, announced, historyVars>>

(* Fault: an update that raises is taken for one that found no row.        *)
RaisesUnnoticed(a) ==
    /\ pc[a] = "updating"
    /\ Goto(a, "publishing")
    /\ UNCHANGED <<rowVars, clock, user, payload, snapshot, entry, answer, announced, historyVars>>

(* Storage or a listener raises: the caller gets an error; what has been   *)
(* written stays.                                                          *)
Raises(a) ==
    /\ pc[a] \in {"reading", "updating", "listening"}
    /\ Answer(a, "error")
    /\ UNCHANGED <<rowVars, clock, user, payload, snapshot, entry, announced, historyVars>>

-----------------------------------------------------------------------------
(* The CRUD handlers on the same row: a PUT whose body has the field       *)
(* writes what the client sent over it, a delete removes the row.          *)
PutField(v) ==
    /\ alive
    /\ field' = v
    /\ overwritten' = overwritten \union Listed(Entries(field))
    /\ UNCHANGED <<alive, owner, clock, requestVars, announced, landed, missed>>

DeleteParent ==
    /\ alive
    /\ alive' = FALSE
    /\ UNCHANGED <<owner, field, clock, requestVars, announced, historyVars>>

Step(a) ==
    \/ \E p \in Payloads \union {Invalid} : Arrive(a, p)
    \/ ReadRefused(a) \/ Read(a) \/ Update(a) \/ Publish(a) \/ Listened(a) \/ Raises(a)

Next ==
    \/ \E a \in Appenders : Step(a)
    \/ \E v \in {<<>>, NotAList} : PutField(v)
    \/ DeleteParent

Spec == Init /\ [][Next]_vars

-----------------------------------------------------------------------------
Pending(a) == pc[a] = "updating"
Holds(a)   == pc[a] \in {"updating", "publishing", "listening"} \/ answer[a] = "created"

TypeOK ==
    /\ alive \in BOOLEAN /\ owner \in Users /\ clock \in Nat
    /\ field \in Seq(Entry) \union {NotAList}
    /\ pc \in [Appenders -> {"idle", "reading", "updating", "publishing", "listening", "done"}]
    /\ user \in [Appenders -> Users]
    /\ payload \in [Appenders -> Payloads \union {Invalid}]
    /\ snapshot \in [Appenders -> Seq(Entry)]
    /\ answer \in [Appenders -> {"none", "invalid", "not_found", "error", "created"}]
    /\ missed \in [Appenders -> SUBSET Entry]
    /\ announced \subseteq Entry /\ landed \subseteq Entry /\ overwritten \subseteq Entry
    /\ entry \in [Appenders -> Entry \union {NoEntry}]
    /\ \A a \in Appenders :
         /\ Holds(a) => entry[a] \in Entry
         /\ pc[a] \in {"reading", "updating"} => payload[a] \in Payloads
         /\ answer[a] = "created" => pc[a] = "done"

(* Without a lock and with a write of the whole list, an entry can only be *)
(* lost to a writer that overlaps: as long as the row exists, an entry     *)
(* that has been written is in the list unless a PUT of the field, or an   *)
(* append that had read the list before the entry landed, wrote over it.   *)
LostOnlyToOverlap == alive => landed \subseteq Listed(Entries(field)) \union overwritten

(* What makes it inductive: what an append writes over is what it missed.  *)
SnapshotsAccount == \A a \in Appenders :
    Pending(a) /\ alive => landed \subseteq Listed(snapshot[a]) \union missed[a] \union overwritten

(* Whatever writes over what, and although entries that were lost may come *)
(* back with an old snapshot, a conversation reads in the order its        *)
(* entries were made, and none is in it twice: an id is made after the     *)
(* list it is appended to has been read.                                   *)
Increasing(s) == \A i, j \in DOMAIN s : i < j => s[i].id < s[j].id
InOrder == Increasing(Entries(field))

OrderInv ==
    /\ InOrder
    /\ \A i \in DOMAIN Entries(field) : Entries(field)[i].id <= clock
    /\ \A a \in Appenders : Pending(a) =>
         /\ Increasing(snapshot[a])
         /\ entry[a].id <= clock
         /\ \A i \in DOMAIN snapshot[a] : snapshot[a][i].id < entry[a].id

(* An event is published, and "created" answered, only for an entry that   *)
(* was written, unless the row has been deleted in the meantime: nobody    *)
(* hears of an entry that an error has kept out of the list.               *)
AnnouncedWasWritten ==
    /\ alive => announced \subseteq landed
    /\ \A a \in Appenders : answer[a] = "created" => entry[a] \in announced

(* What makes it inductive: where a request is past its update.            *)
PastUpdate == \A a \in Appenders :
    /\ pc[a] \in {"publishing", "listening"} /\ alive => entry[a] \in landed
    /\ pc[a] = "listening" => entry[a] \in announced

ConversationInv ==
    /\ TypeOK /\ LostOnlyToOverlap /\ SnapshotsAccount /\ OrderInv
    /\ AnnouncedWasWritten /\ PastUpdate
=============================================================================
