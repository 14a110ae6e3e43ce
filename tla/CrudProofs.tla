----------------------------- MODULE CrudProofs -----------------------------
(***************************************************************************)
(* Proofs about Crud for every content type, every set of requests and     *)
(* every number of concurrent tasks.                                       *)
(***************************************************************************)
EXTENDS Crud, TLAPS, WellFoundedInduction, FiniteSetTheorems

(* Callers name keys they have been given, or the route does not look rows *)
(* up by primary key.  Without it a PUT can outrun the create of its row.  *)
SafeKeys == LookupById => ~ GuessedKeys

USE DEF Ids, Machines

-----------------------------------------------------------------------------
(* A patch carries well-typed values for some of the machines.             *)
LEMMA PatchShape ==
    ASSUME NEW p \in Patch
    PROVE  /\ p.owner \in Users \union {Absent}
           /\ p.data \in Data \union {Absent}
           /\ DOMAIN p.state \subseteq Machines
           /\ \A m \in DOMAIN p.state : p.state[m] \in States
<1>1. PICK M \in SUBSET Machines : p.state \in [M -> States]
  BY DEF Patch
<1> QED BY <1>1 DEF Patch

(* Storage.update keeps rows well-typed.                                   *)
LEMMA PatchedType ==
    ASSUME NEW rec \in Record, NEW p \in Patch
    PROVE  Patched(rec, p) \in Record
<1>1. [m \in Machines |-> IF m \in DOMAIN p.state THEN p.state[m] ELSE rec.state[m]]
        \in [Machines -> States]
  BY PatchShape DEF Record
<1> QED BY <1>1, PatchShape, SentinelAssumption DEF Patched, Record

(* A function on some of the machines is a patch's state part.             *)
LEMMA PatchIntro ==
    ASSUME NEW o \in Users \union {Absent}, NEW d \in Data \union {Absent},
           NEW M \in SUBSET Machines, NEW s \in [M -> States]
    PROVE  [owner |-> o, state |-> s, data |-> d] \in Patch
<1>1. s \in UNION {[N -> States] : N \in SUBSET Machines}
  OBVIOUS
<1> QED BY <1>1 DEF Patch

(* The empty body is a patch without state columns.                        *)
LEMMA EmptyBodyType == EmptyBody \in Patch /\ DOMAIN EmptyBody.state = {}
<1>1. EmptyBody.state \in [{} -> States]
  BY DEF EmptyBody
<1>2. {} \in SUBSET Machines
  OBVIOUS
<1> QED BY <1>1, <1>2, PatchIntro DEF EmptyBody

(* Stripping leaves a patch, and the fields it does not strip.             *)
LEMMA StripOwnerType ==
    ASSUME NEW b \in Patch
    PROVE  /\ StripOwner(b) \in Patch
           /\ Owned => StripOwner(b).owner = Absent
           /\ StripOwner(b).data = b.data
<1>1. CASE ~ Owned
  BY <1>1 DEF StripOwner
<1>2. CASE Owned
  <2>1. [b EXCEPT !.owner = Absent] \in Patch
    BY DEF Patch
  <2> QED BY <1>2, <2>1 DEF StripOwner, Patch
<1> QED BY <1>1, <1>2, FlagAssumption

LEMMA StripStateType ==
    ASSUME NEW b \in Patch
    PROVE  /\ StripState(b) \in Patch
           /\ DOMAIN StripState(b).state = {}
           /\ StripState(b).owner = b.owner
           /\ StripState(b).data = b.data
<1>1. EmptyBody.state \in UNION {[N -> States] : N \in SUBSET Machines}
  BY EmptyBodyType DEF Patch
<1>2. [b EXCEPT !.state = EmptyBody.state] \in Patch
  BY <1>1 DEF Patch
<1> QED BY <1>2, EmptyBodyType DEF StripState, Patch

(* A created row is well-typed.                                            *)
LEMMA FreshType ==
    ASSUME NEW u \in Users, NEW d \in Data
    PROVE  FreshRecord(u, d) \in Record
BY MachineAssumption DEF FreshRecord, Record

(* The data a create stores.                                               *)
LEMMA CreateDataType ==
    ASSUME NEW b \in Patch
    PROVE  CreateData(b) \in Data
BY PatchShape, DataAssumption DEF CreateData

(* The compare-and-set of a judged transition writes a patch.              *)
LEMMA TransitionPatchType ==
    ASSUME NEW f \in Frame, f.machine \in Machines, f.to \in States
    PROVE  TransitionPatch(f) \in Patch
<1>1. [m \in {f.machine} |-> f.to] \in [{f.machine} -> States]
  OBVIOUS
<1>2. {f.machine} \in SUBSET Machines
  OBVIOUS
<1> QED BY <1>1, <1>2, PatchIntro DEF TransitionPatch, Frame
-----------------------------------------------------------------------------
(* The initial state is well-typed.                                        *)
LEMMA InitType == Init => TypeOK
<1> SUFFICES ASSUME Init PROVE TypeOK
  OBVIOUS
<1>1. db \in [Ids -> Record \union {NoRecord}] /\ lastId \in 0 .. MaxId
  <2>1. L!Fresh \subseteq Record
    BY FreshType DEF L!Fresh, L!FreshRecord, FreshRecord
  <2> QED BY <2>1 DEF Init, L!Init, L!Ids
<1>2. frame \in [Tasks -> Frame]
  BY DEF Init, Frame, Call
<1>3. body \in [Tasks -> Patch]
  BY EmptyBodyType DEF Init
<1>4. /\ pc \in [Tasks -> Ops \union {"idle", "persist", "delete_row", "sm_read", "cas",
                                     "publish", "announce", "done"}]
      /\ result \in [Tasks -> Results]
      /\ target \in [Tasks -> 0 .. MaxId]
  BY SizeAssumption DEF Init, Results, NoResult
<1>5. /\ entered \in [Ids -> [Machines -> [States -> Nat]]]
      /\ exited \in [Ids -> [Machines -> [States -> Nat]]]
      /\ news \in [Ids -> [Kinds -> Nat]]
  BY DEF Init
<1>6. /\ caller \in [Tasks -> Users \union {Absent}]
      /\ req \in [Tasks -> Request \union {NoRequest}]
      /\ existing \in [Tasks -> Record \union {NoRecord}]
      /\ todo \in [Tasks -> SUBSET Machines]
      /\ landed \in [Tasks -> SUBSET Machines]
  BY DEF Init
<1> QED BY <1>1, <1>2, <1>3, <1>4, <1>5, <1>6 DEF TypeOK

-----------------------------------------------------------------------------
(* What a step does to the table, as far as the other requests rely on it: *)
(* no id is given out twice and the owner of an owned row does not change. *)
TableStep ==
    /\ lastId <= lastId'
    /\ \A i \in Ids : i <= lastId =>
         /\ db[i] = NoRecord => db'[i] = NoRecord
         /\ Owned /\ db'[i] # NoRecord => db'[i].owner = db[i].owner

(* A task the step is not about.                                           *)
Same(s) ==
    /\ pc'[s] = pc[s] /\ target'[s] = target[s] /\ caller'[s] = caller[s]
    /\ frame'[s] = frame[s] /\ req'[s] = req[s] /\ body'[s] = body[s]
    /\ existing'[s] = existing[s] /\ todo'[s] = todo[s]

(* A task keeps its invariant while another one takes a step.              *)
LEMMA OthersKept ==
    ASSUME HandlerInv, TableStep, lastId' \in 0 .. MaxId,
           NEW s \in Tasks, Same(s), pc[s] # "idle"
    PROVE  RequestKept(s)' /\ Grounded(s)'
<1> USE DEF HandlerInv
<1>1. RequestKept(s) /\ Grounded(s)
  OBVIOUS
<1>t. /\ lastId \in 0 .. MaxId /\ MaxId \in Nat
      /\ target[s] \in 0 .. MaxId
      /\ req[s] \in Request /\ req[s].key \in Nat
  BY <1>1, SizeAssumption DEF TypeOK, RequestKept, Request
<1>2. RequestKept(s)'
  BY <1>1, <1>t DEF Same, RequestKept, TableStep
<1>3. ASSUME target[s] \in Ids, StillOwned(s) PROVE StillOwned(s)'
  BY <1>3, <1>t, FlagAssumption DEF Same, StillOwned, TableStep
<1>4. ASSUME UpdateGrounded(s) PROVE UpdateGrounded(s)'
  <2>1. target[s] # 0 => target[s] \in Ids
    BY <1>t
  <2> QED BY <1>4, <1>3, <1>t, <2>1 DEF Same, UpdateGrounded, TableStep, WriteAllowed
<1>5. TransitionJudgedFor(s) => TransitionJudgedFor(s)'
  BY DEF Same, TransitionJudgedFor
<1>6. pc[s] = "delete_row" => target[s] \in Ids
  BY <1>1 DEF RequestKept
<1>7. Grounded(s)'
  BY <1>1, <1>3, <1>4, <1>5, <1>6 DEF Same, Grounded
<1> QED BY <1>2, <1>7

(* One action preserves the invariant when it keeps the types, the table   *)
(* discipline and the invariant of its own task.                           *)
LEMMA Assemble ==
    ASSUME HandlerInv, NEW t \in Tasks,
           TypeOK', IdsNotReused', TableStep,
           \A s \in Tasks \ {t} : Same(s),
           RequestKept(t)', Grounded(t)'
    PROVE  HandlerInv'
<1>1. ASSUME NEW s \in Tasks
      PROVE  IF pc'[s] = "idle" THEN existing'[s] = NoRecord
                                ELSE RequestKept(s)' /\ Grounded(s)'
  <2>1. CASE s = t
    <3>1. pc'[t] # "idle"
      BY DEF RequestKept, Request, Locations, Ops
    <3> QED BY <2>1, <3>1
  <2>2. CASE s # t /\ pc[s] # "idle"
    <3>1. Same(s) /\ pc'[s] # "idle"
      BY <2>2 DEF Same
    <3> QED BY <2>2, <3>1, OthersKept DEF TypeOK
  <2>3. CASE s # t /\ pc[s] = "idle"
    BY <2>3 DEF Same, HandlerInv
  <2> QED BY <2>1, <2>2, <2>3
<1> QED BY <1>1 DEF HandlerInv

(* A step that leaves the table alone keeps its discipline.                *)
LEMMA TableUntouched ==
    ASSUME HandlerInv, UNCHANGED <<db, lastId>>
    PROVE  IdsNotReused' /\ TableStep
BY SizeAssumption DEF HandlerInv, TypeOK, IdsNotReused, TableStep

(* Answering a request without changing anything else.                     *)
LEMMA AnswerKeeps ==
    ASSUME HandlerInv, NEW t \in Tasks, pc[t] # "idle",
           NEW r \in Results, Answer(t, r)
    PROVE  HandlerInv'
<1> USE DEF Answer, Finish, storageVars, handlerVars, smVars
<1>1. TypeOK'
  BY DEF HandlerInv, TypeOK
<1>2. \A s \in Tasks \ {t} : Same(s)
  BY DEF HandlerInv, TypeOK, Same
<1>3. pc'[t] = "done"
  BY DEF HandlerInv, TypeOK
<1>4. RequestKept(t)'
  BY <1>3 DEF HandlerInv, RequestKept, Locations, Request, Ops
<1>5. Grounded(t)'
  BY <1>3 DEF Grounded
<1> QED BY <1>1, <1>2, <1>4, <1>5, TableUntouched, Assemble

-----------------------------------------------------------------------------
(* The actions, one lemma each.  The facts every one of them starts from.  *)
LEMMA TaskFacts ==
    ASSUME HandlerInv, NEW t \in Tasks, pc[t] # "idle"
    PROVE  /\ req[t] \in Request /\ caller[t] = req[t].user /\ caller[t] \in Users
           /\ req[t].op \in Ops /\ pc[t] \in Locations(req[t].op)
           /\ req[t].key \in Ids /\ req[t].body \in Patch /\ body[t] \in Patch
           /\ req[t].to \in States /\ req[t].machine \in Nat
           /\ RequestKept(t) /\ Grounded(t)
           /\ lastId \in Nat /\ MaxId \in Nat /\ lastId <= MaxId
<1>1. RequestKept(t) /\ Grounded(t)
  BY DEF HandlerInv
<1> QED BY <1>1, SizeAssumption DEF HandlerInv, TypeOK, RequestKept, Request

(* A request arrives.                                                      *)
LEMMA ArriveKeeps ==
    ASSUME HandlerInv, NEW t \in Tasks, Arrive(t)
    PROVE  HandlerInv'
<1>1. PICK r \in Requests :
        /\ pc[t] = "idle"
        /\ r.op # "create" /\ ~ GuessedKeys => r.key <= lastId
        /\ req' = [req EXCEPT ![t] = r]
        /\ body' = [body EXCEPT ![t] = r.body]
        /\ caller' = [caller EXCEPT ![t] = r.user]
        /\ Goto(t, r.op)
        /\ UNCHANGED <<storageVars, target, smVars, news, existing, todo, landed>>
  BY DEF Arrive
<1>r. r \in Request /\ r.op \in Ops /\ r.user \in Users /\ r.body \in Patch
  BY RequestAssumption DEF Request
<1> USE DEF Goto, storageVars, smVars
<1>2. TypeOK'
  BY <1>1, <1>r DEF HandlerInv, TypeOK
<1>3. \A s \in Tasks \ {t} : Same(s)
  BY <1>1 DEF HandlerInv, TypeOK, Same
<1>4. /\ req'[t] = r /\ body'[t] = r.body /\ caller'[t] = r.user /\ pc'[t] = r.op
      /\ existing'[t] = NoRecord
  BY <1>1 DEF HandlerInv, TypeOK
<1>5. RequestKept(t)'
  BY <1>1, <1>4, <1>r DEF RequestKept, Locations, Ops
<1>6. Grounded(t)'
  BY <1>4, <1>r DEF Grounded, Ops
<1> QED BY <1>1, <1>2, <1>3, <1>5, <1>6, TableUntouched, Assemble

(* create_content_handler: refused, or a row at a new id.                  *)
LEMMA CreateRefusedKeeps ==
    ASSUME HandlerInv, NEW t \in Tasks, CreateRefused(t)
    PROVE  HandlerInv'
<1>1. PICK r \in Results : pc[t] # "idle" /\ Answer(t, r)
  BY DEF CreateRefused, Results
<1> QED BY <1>1, AnswerKeeps

LEMMA CreateInsertKeeps ==
    ASSUME HandlerInv, NEW t \in Tasks, CreateInsert(t)
    PROVE  HandlerInv'
<1> DEFINE row == FreshRecord(caller[t], CreateData(body[t]))
<1> USE DEF Goto, storageVars, smVars, handlerVars
<1>0. pc[t] # "idle"
  BY DEF CreateInsert
<1>f. /\ req[t].op = "create" /\ row \in Record
      /\ lastId \in Nat /\ MaxId \in Nat /\ lastId < MaxId
      /\ lastId' = lastId + 1 /\ lastId + 1 \in Ids
      /\ db' = [db EXCEPT ![lastId + 1] = row]
  BY <1>0, TaskFacts, FreshType, CreateDataType
     DEF CreateInsert, StorageCreate, Locations, Ops
<1> HIDE DEF row
<1>2. TypeOK'
  <2>1. db' \in [Ids -> Record \union {NoRecord}] /\ lastId' \in 0 .. MaxId
    BY <1>f DEF HandlerInv, TypeOK
  <2>2. target' \in [Tasks -> 0 .. MaxId]
    BY <1>f DEF HandlerInv, TypeOK, CreateInsert
  <2> QED BY <2>1, <2>2 DEF HandlerInv, TypeOK, CreateInsert
<1>3. IdsNotReused' /\ TableStep
  BY <1>f DEF HandlerInv, TypeOK, IdsNotReused, TableStep
<1>4. \A s \in Tasks \ {t} : Same(s)
  BY DEF HandlerInv, TypeOK, Same, CreateInsert
<1>5. pc'[t] = "announce" /\ target'[t] = lastId + 1 /\ req'[t] = req[t] /\ caller'[t] = caller[t]
  BY <1>f DEF HandlerInv, TypeOK, CreateInsert
<1>6. RequestKept(t)'
  BY <1>0, <1>5, <1>f, TaskFacts DEF RequestKept, Locations
<1>7. Grounded(t)'
  BY <1>5, <1>f DEF Grounded
<1> QED BY <1>2, <1>3, <1>4, <1>6, <1>7, Assemble

(* update_content_handler up to the chain.                                 *)
LEMMA UpdateRefusedKeeps ==
    ASSUME HandlerInv, NEW t \in Tasks, UpdateRefused(t)
    PROVE  HandlerInv'
<1>1. PICK r \in Results : pc[t] # "idle" /\ Answer(t, r)
  BY DEF UpdateRefused, Results
<1> QED BY <1>1, AnswerKeeps

(* A non-empty set of machines has a first one in IR order.                *)
LEMMA FirstOfMachines ==
    ASSUME NEW S \in SUBSET Machines, S # {}
    PROVE  First(S) \in S /\ \A n \in S : First(S) <= n
<1> DEFINE Less == {p \in Nat \X Nat : p[1] < p[2]}
<1>1. IsWellFoundedOn(Less, Nat)
  BY NatLessThanWellFounded DEF OpToRel
<1>2. \A m, n \in Nat : <<n, m>> \notin Less => m <= n
  BY SMT
<1>3. S \subseteq Nat
  OBVIOUS
<1> HIDE DEF Less
<1>4. PICK m \in S : \A n \in S : ~ (<<n, m>> \in Less)
  BY <1>1, <1>3, WFMin
<1>5. \A n \in S : m <= n
  BY <1>2, <1>3, <1>4
<1> QED BY <1>5 DEF First

(* Entering the chain, or leaving it for the persist step.                 *)
LEMMA ChainFacts ==
    ASSUME HandlerInv, NEW t \in Tasks, pc[t] # "idle",
           NEW S \in SUBSET Machines, S \subseteq DOMAIN req[t].body.state, Chain(t, S)
    PROVE  /\ pc' \in [Tasks -> Ops \union {"idle", "persist", "delete_row", "sm_read", "cas",
                                            "publish", "announce", "done"}]
           /\ frame' \in [Tasks -> Frame] /\ todo' \in [Tasks -> SUBSET Machines]
           /\ result' = result
           /\ todo'[t] = S
           /\ \/ S = {} /\ pc'[t] = "persist"
              \/ S # {} /\ pc'[t] = "sm_read" /\ frame'[t].to \in States
           /\ \A s \in Tasks \ {t} : pc'[s] = pc[s] /\ frame'[s] = frame[s] /\ todo'[s] = todo[s]
<1> USE DEF Chain, Goto, HandlerInv, TypeOK
<1>1. CASE S = {}
  BY <1>1
<1>2. CASE S # {}
  <2> DEFINE f == Call(First(S), req[t].body.state[First(S)])
  <2>0. First(S) \in S
    BY <1>2, FirstOfMachines
  <2>1. First(S) \in S /\ First(S) \in Nat
    BY <2>0
  <2>2. req[t].body.state[First(S)] \in States
    BY <2>1, TaskFacts, PatchShape
  <2>3. f \in Frame /\ f.to \in States
    BY <2>1, <2>2 DEF Call, Frame
  <2>4. frame' = [frame EXCEPT ![t] = f] /\ pc' = [pc EXCEPT ![t] = "sm_read"]
        /\ todo' = [todo EXCEPT ![t] = S] /\ result' = result
    BY <1>2
  <2> HIDE DEF f
  <2> QED BY <1>2, <2>3, <2>4
<1> QED BY <1>1, <1>2

LEMMA UpdateFoundKeeps ==
    ASSUME HandlerInv, NEW t \in Tasks, UpdateFound(t)
    PROVE  HandlerInv'
<1> DEFINE k   == req[t].key
           b   == StripState(StripOwner(body[t]))
           S   == Touched(body[t], db[k])
<1>0. /\ pc[t] = "update" /\ db[k] # NoRecord /\ (Owned => db[k].owner = caller[t])
      /\ WriteAllowed(caller[t], body[t])
      /\ existing' = [existing EXCEPT ![t] = db[k]]
      /\ target' = [target EXCEPT ![t] = k]
      /\ body' = [body EXCEPT ![t] = b]
      /\ Chain(t, S)
      /\ db' = db /\ lastId' = lastId /\ caller' = caller /\ req' = req
      /\ entered' = entered /\ exited' = exited /\ news' = news /\ landed' = landed
  BY DEF UpdateFound, storageVars, handlerVars, busVars
<1>f. /\ req[t].op = "update" /\ body[t] = req[t].body /\ k \in Ids
      /\ db[k] \in Record /\ k <= lastId
  <2>1. req[t].op = "update"
    BY <1>0, TaskFacts DEF Locations, Ops
  <2>2. body[t] = req[t].body /\ k \in Ids
    BY <1>0, TaskFacts DEF Grounded
  <2>3. k <= lastId
    BY <1>0, <2>2, TaskFacts DEF HandlerInv, IdsNotReused
  <2> QED BY <1>0, <2>1, <2>2, <2>3 DEF HandlerInv, TypeOK
<1>b. /\ b \in Patch /\ DOMAIN b.state = {} /\ (Owned => b.owner = Absent)
      /\ b.data = body[t].data
  BY <1>0, TaskFacts, StripOwnerType, StripStateType
<1>s. S \in SUBSET Machines /\ S \subseteq DOMAIN req[t].body.state
  BY <1>0, <1>f, TaskFacts, PatchShape DEF Touched
<1> HIDE DEF k, b, S
<1>c. /\ pc' \in [Tasks -> Ops \union {"idle", "persist", "delete_row", "sm_read", "cas",
                                       "publish", "announce", "done"}]
      /\ frame' \in [Tasks -> Frame] /\ todo' \in [Tasks -> SUBSET Machines]
      /\ result' = result /\ todo'[t] = S
      /\ pc'[t] = "persist" \/ (pc'[t] = "sm_read" /\ frame'[t].to \in States)
      /\ \A s \in Tasks \ {t} : pc'[s] = pc[s] /\ frame'[s] = frame[s] /\ todo'[s] = todo[s]
  BY <1>0, <1>s, ChainFacts
<1>2. TypeOK'
  <2>1. /\ existing' \in [Tasks -> Record \union {NoRecord}]
        /\ target' \in [Tasks -> 0 .. MaxId]
        /\ body' \in [Tasks -> Patch]
    BY <1>0, <1>f, <1>b DEF HandlerInv, TypeOK
  <2>2. /\ db' \in [Ids -> Record \union {NoRecord}] /\ lastId' \in 0 .. MaxId
        /\ result' \in [Tasks -> Results] /\ caller' \in [Tasks -> Users \union {Absent}]
        /\ entered' \in [Ids -> [Machines -> [States -> Nat]]]
        /\ exited' \in [Ids -> [Machines -> [States -> Nat]]]
        /\ news' \in [Ids -> [Kinds -> Nat]]
        /\ req' \in [Tasks -> Request \union {NoRequest}]
        /\ landed' \in [Tasks -> SUBSET Machines]
    BY <1>0, <1>c DEF HandlerInv, TypeOK
  <2> QED BY <1>c, <2>1, <2>2 DEF TypeOK
<1>3. \A s \in Tasks \ {t} : Same(s)
  BY <1>0, <1>c DEF HandlerInv, TypeOK, Same
<1>4. /\ existing'[t] = db[k] /\ target'[t] = k /\ body'[t] = b
      /\ req'[t] = req[t] /\ caller'[t] = caller[t]
  BY <1>0 DEF HandlerInv, TypeOK
<1>5. RequestKept(t)'
  BY <1>0, <1>4, <1>c, <1>f, <1>s, TaskFacts DEF RequestKept, Locations
<1>6. UpdateGrounded(t)'
  BY <1>0, <1>4, <1>b, <1>f DEF UpdateGrounded, WriteAllowed, StillOwned
<1>7. Grounded(t)'
  BY <1>6, <1>c DEF Grounded
<1> QED BY <1>0, <1>2, <1>3, <1>5, <1>7, TableUntouched, Assemble

LEMMA UpdateMissingKeeps ==
    ASSUME HandlerInv, SafeKeys, NEW t \in Tasks, UpdateMissing(t)
    PROVE  HandlerInv'
<1> DEFINE k == req[t].key
           b == StripOwner(body[t])
           i == IF LookupById THEN k ELSE 0
<1>0. /\ pc[t] = "update" /\ db[k] = NoRecord /\ WriteAllowed(caller[t], body[t])
      /\ target' = [target EXCEPT ![t] = i] /\ body' = [body EXCEPT ![t] = b]
      /\ pc' = [pc EXCEPT ![t] = "persist"] /\ result' = result
      /\ db' = db /\ lastId' = lastId /\ caller' = caller /\ req' = req /\ frame' = frame
      /\ entered' = entered /\ exited' = exited /\ news' = news
      /\ existing' = existing /\ todo' = todo /\ landed' = landed
  BY DEF UpdateMissing, Goto, storageVars, handlerVars, smVars
<1>f. /\ req[t].op = "update" /\ k \in Ids /\ b \in Patch
      /\ (Owned => b.owner = Absent) /\ b.data = body[t].data
      /\ i \in 0 .. MaxId /\ (i # 0 => i = k /\ k <= lastId)
  <2>1. req[t].op = "update" /\ k \in Ids /\ RequestKept(t)
    BY <1>0, TaskFacts DEF Locations, Ops
  <2>2. b \in Patch /\ (Owned => b.owner = Absent) /\ b.data = body[t].data
    BY <1>0, TaskFacts, StripOwnerType
  <2>3. i \in 0 .. MaxId
    BY <2>1, SizeAssumption
  <2>4. i # 0 => i = k /\ k <= lastId
    BY <2>1 DEF SafeKeys, RequestKept
  <2> QED BY <2>1, <2>2, <2>3, <2>4
<1> HIDE DEF k, b, i
<1>2. TypeOK'
  BY <1>0, <1>f DEF HandlerInv, TypeOK
<1>3. \A s \in Tasks \ {t} : Same(s)
  BY <1>0 DEF HandlerInv, TypeOK, Same
<1>4. /\ pc'[t] = "persist" /\ existing'[t] = existing[t] /\ target'[t] = i /\ body'[t] = b
      /\ req'[t] = req[t] /\ caller'[t] = caller[t]
  BY <1>0 DEF HandlerInv, TypeOK
<1>5. RequestKept(t)'
  BY <1>0, <1>4, <1>f, TaskFacts DEF RequestKept, Locations
<1>6. existing[t] = NoRecord
  BY <1>0, TaskFacts DEF Grounded
<1>7. UpdateGrounded(t)'
  BY <1>0, <1>4, <1>f, <1>6 DEF UpdateGrounded, WriteAllowed
<1>8. Grounded(t)'
  BY <1>4, <1>7 DEF Grounded
<1> QED BY <1>0, <1>2, <1>3, <1>5, <1>8, TableUntouched, Assemble

(* The persist step: refused, answered from a read, or written.            *)
LEMMA PersistAnswersKeep ==
    ASSUME HandlerInv, NEW t \in Tasks, PersistRefused(t) \/ ReadBack(t)
    PROVE  HandlerInv'
<1>1. PICK r \in Results : pc[t] # "idle" /\ Answer(t, r)
  BY DEF PersistRefused, ReadBack, Results
<1> QED BY <1>1, AnswerKeeps

(* A write that reaches the table is to a row that was read, by its owner  *)
(* on owned content, and without state columns.                            *)
LEMMA PersistFacts ==
    ASSUME HandlerInv, NEW t \in Tasks, Persist(t)
    PROVE  /\ pc[t] = "persist" /\ req[t].op = "update" /\ WriteAllowed(caller[t], body[t])
           /\ target[t] \in Ids /\ target[t] <= lastId
           /\ db[target[t]] \in Record
           /\ body[t] \in Patch /\ DOMAIN body[t].state = {}
           /\ Owned => body[t].owner = Absent /\ db[target[t]].owner = caller[t]
           /\ Patched(db[target[t]], body[t]) \in Record
           /\ db' = [db EXCEPT ![target[t]] = Patched(db[target[t]], body[t])]
           /\ lastId' = lastId
<1>1. /\ pc[t] = "persist" /\ target[t] # 0 /\ db[target[t]] # NoRecord
      /\ db' = [db EXCEPT ![target[t]] = Patched(db[target[t]], body[t])]
      /\ lastId' = lastId
  BY DEF Persist, StorageUpdate, NothingToWrite
<1>2. req[t].op = "update" /\ UpdateGrounded(t) /\ body[t] \in Patch
  BY <1>1, TaskFacts DEF Locations, Ops, Grounded
<1>3. target[t] \in Ids
  BY <1>1, SizeAssumption DEF HandlerInv, TypeOK
<1>4. db[target[t]] \in Record
  BY <1>1, <1>3 DEF HandlerInv, TypeOK
<1>5. existing[t] # NoRecord
  BY <1>1, <1>2 DEF UpdateGrounded
<1>6. target[t] <= lastId
  BY <1>1, <1>3, TaskFacts DEF HandlerInv, IdsNotReused
<1> QED BY <1>1, <1>2, <1>3, <1>4, <1>5, <1>6, PatchedType DEF UpdateGrounded, StillOwned

LEMMA PersistKeeps ==
    ASSUME HandlerInv, NEW t \in Tasks, Persist(t)
    PROVE  HandlerInv'
<1> DEFINE i   == target[t]
           row == Patched(db[i], body[t])
<1>0. /\ pc' = [pc EXCEPT ![t] = "announce"] /\ result' = result
      /\ target' = target /\ caller' = caller /\ req' = req /\ frame' = frame
      /\ entered' = entered /\ exited' = exited /\ news' = news /\ body' = body
      /\ existing' = existing /\ todo' = todo /\ landed' = landed
  BY DEF Persist, Goto, handlerVars, smVars
<1>f. /\ pc[t] = "persist" /\ req[t].op = "update" /\ i \in Ids /\ i <= lastId
      /\ db[i] \in Record /\ row \in Record
      /\ (Owned => row.owner = db[i].owner)
      /\ db' = [db EXCEPT ![i] = row] /\ lastId' = lastId
  BY PersistFacts DEF Patched
<1>r. row # NoRecord /\ db[i] # NoRecord
  BY <1>f, SentinelAssumption
<1> HIDE DEF i, row
<1>2. TypeOK'
  BY <1>0, <1>f DEF HandlerInv, TypeOK
<1>3. IdsNotReused' /\ TableStep
  BY <1>f, <1>r, SizeAssumption DEF HandlerInv, TypeOK, IdsNotReused, TableStep
<1>4. \A s \in Tasks \ {t} : Same(s)
  BY <1>0 DEF HandlerInv, TypeOK, Same
<1>5. pc'[t] = "announce"
  BY <1>0 DEF HandlerInv, TypeOK
<1>6. RequestKept(t)'
  BY <1>0, <1>5, <1>f, TaskFacts DEF RequestKept, Locations, i
<1>7. Grounded(t)'
  BY <1>5 DEF Grounded
<1> QED BY <1>2, <1>3, <1>4, <1>6, <1>7, Assemble

(* delete_content_handler.                                                 *)
LEMMA DeleteCheckedKeeps ==
    ASSUME HandlerInv, NEW t \in Tasks, DeleteChecked(t)
    PROVE  HandlerInv'
<1> DEFINE k == req[t].key
<1>1. CASE Answer(t, "not_found")
  <2>1. pc[t] # "idle" /\ "not_found" \in Results
    BY DEF DeleteChecked, Results
  <2> QED BY <1>1, <2>1, AnswerKeeps
<1>2. CASE ~ Answer(t, "not_found")
  <2>0. /\ pc[t] = "delete" /\ (Owned => db[k] # NoRecord /\ db[k].owner = caller[t])
        /\ target' = [target EXCEPT ![t] = k] /\ pc' = [pc EXCEPT ![t] = "delete_row"]
        /\ result' = result /\ db' = db /\ lastId' = lastId
        /\ caller' = caller /\ req' = req /\ frame' = frame
        /\ entered' = entered /\ exited' = exited /\ news' = news /\ body' = body
        /\ existing' = existing /\ todo' = todo /\ landed' = landed
    BY <1>2 DEF DeleteChecked, Goto, storageVars, handlerVars, smVars
  <2>f. req[t].op = "delete" /\ k \in Ids /\ (Owned => k <= lastId)
    BY <2>0, TaskFacts DEF Locations, Ops, HandlerInv, IdsNotReused
  <2> HIDE DEF k
  <2>2. TypeOK'
    BY <2>0, <2>f DEF HandlerInv, TypeOK
  <2>3. \A s \in Tasks \ {t} : Same(s)
    BY <2>0 DEF HandlerInv, TypeOK, Same
  <2>4. pc'[t] = "delete_row" /\ target'[t] = k /\ req'[t] = req[t] /\ caller'[t] = caller[t]
    BY <2>0 DEF HandlerInv, TypeOK
  <2>5. RequestKept(t)'
    BY <2>0, <2>4, <2>f, TaskFacts DEF RequestKept, Locations
  <2>6. Grounded(t)'
    BY <2>0, <2>4, <2>f DEF Grounded, StillOwned
  <2> QED BY <2>0, <2>2, <2>3, <2>5, <2>6, TableUntouched, Assemble
<1> QED BY <1>1, <1>2

LEMMA DeleteRefusedKeeps ==
    ASSUME HandlerInv, NEW t \in Tasks, DeleteRefused(t)
    PROVE  HandlerInv'
<1>1. PICK r \in Results : pc[t] # "idle" /\ Answer(t, r)
  BY DEF DeleteRefused, Results
<1> QED BY <1>1, AnswerKeeps

LEMMA DeleteRowKeeps ==
    ASSUME HandlerInv, NEW t \in Tasks, DeleteRow(t)
    PROVE  HandlerInv'
<1> DEFINE i == target[t]
<1>0. /\ pc[t] = "delete_row" /\ pc' = [pc EXCEPT ![t] = "announce"] /\ result' = result
      /\ db[i] # NoRecord /\ db' = [db EXCEPT ![i] = NoRecord] /\ lastId' = lastId
      /\ target' = target /\ caller' = caller /\ req' = req /\ frame' = frame
      /\ entered' = entered /\ exited' = exited /\ news' = news /\ body' = body
      /\ existing' = existing /\ todo' = todo /\ landed' = landed
  BY DEF DeleteRow, StorageDelete, Goto, handlerVars, smVars
<1>f. req[t].op = "delete" /\ i \in Ids
  BY <1>0, TaskFacts DEF Locations, Ops, RequestKept
<1> HIDE DEF i
<1>2. TypeOK'
  BY <1>0, <1>f DEF HandlerInv, TypeOK
<1>3. IdsNotReused' /\ TableStep
  BY <1>0, <1>f, SizeAssumption DEF HandlerInv, TypeOK, IdsNotReused, TableStep
<1>4. \A s \in Tasks \ {t} : Same(s)
  BY <1>0 DEF HandlerInv, TypeOK, Same
<1>5. pc'[t] = "announce"
  BY <1>0 DEF HandlerInv, TypeOK
<1>6. RequestKept(t)'
  BY <1>0, <1>5, <1>f, TaskFacts DEF RequestKept, Locations, i
<1>7. Grounded(t)'
  BY <1>5, <1>0, <1>f DEF Grounded
<1> QED BY <1>2, <1>3, <1>4, <1>6, <1>7, Assemble

(* transition_content_handler up to the call.                              *)
LEMMA TransitionResolvedKeeps ==
    ASSUME HandlerInv, NEW t \in Tasks, TransitionResolved(t)
    PROVE  HandlerInv'
<1> DEFINE k == req[t].key
           f == Call(NamedMachine(req[t]), req[t].to)
<1>1. CASE Answer(t, "not_found")
  <2>1. pc[t] # "idle" /\ "not_found" \in Results
    BY DEF TransitionResolved, Results
  <2> QED BY <1>1, <2>1, AnswerKeeps
<1>2. CASE ~ Answer(t, "not_found")
  <2>0. /\ pc[t] = "transition"
        /\ target' = [target EXCEPT ![t] = k] /\ pc' = [pc EXCEPT ![t] = "sm_read"]
        /\ frame' = [frame EXCEPT ![t] = f]
        /\ result' = result /\ db' = db /\ lastId' = lastId
        /\ caller' = caller /\ req' = req
        /\ entered' = entered /\ exited' = exited /\ news' = news /\ body' = body
        /\ existing' = existing /\ todo' = todo /\ landed' = landed
    BY <1>2 DEF TransitionResolved, Goto, storageVars, handlerVars, busVars
  <2>f. req[t].op = "transition" /\ k \in Ids
    BY <2>0, TaskFacts DEF Locations, Ops
  <2>g. f \in Frame /\ f.to \in States
    BY <2>0, TaskFacts DEF Call, Frame, NamedMachine
  <2> HIDE DEF k, f
  <2>2. TypeOK'
    BY <2>0, <2>f, <2>g DEF HandlerInv, TypeOK
  <2>3. \A s \in Tasks \ {t} : Same(s)
    BY <2>0 DEF HandlerInv, TypeOK, Same
  <2>4. /\ pc'[t] = "sm_read" /\ target'[t] = k /\ frame'[t] = f
        /\ req'[t] = req[t] /\ caller'[t] = caller[t]
    BY <2>0 DEF HandlerInv, TypeOK
  <2>5. RequestKept(t)'
    BY <2>0, <2>4, <2>f, TaskFacts DEF RequestKept, Locations
  <2>6. Grounded(t)'
    BY <2>4, <2>f, <2>g DEF Grounded
  <2> QED BY <2>0, <2>2, <2>3, <2>5, <2>6, TableUntouched, Assemble
<1> QED BY <1>1, <1>2

(* Publishing adds one to a counter.                                       *)
LEMMA CountUp ==
    ASSUME NEW A, NEW B, NEW f \in [A -> [B -> Nat]], NEW a \in A, NEW b \in B
    PROVE  [f EXCEPT ![a][b] = @ + 1] \in [A -> [B -> Nat]]
<1>1. [f[a] EXCEPT ![b] = @ + 1] \in [B -> Nat]
  <2>1. f[a] \in [B -> Nat] /\ f[a][b] + 1 \in Nat
    OBVIOUS
  <2> QED BY <2>1
<1> QED BY <1>1

LEMMA CountUpDeep ==
    ASSUME NEW A, NEW B, NEW C, NEW f \in [A -> [B -> [C -> Nat]]],
           NEW a \in A, NEW b \in B, NEW c \in C
    PROVE  [f EXCEPT ![a][b][c] = @ + 1] \in [A -> [B -> [C -> Nat]]]
<1>1. f[a] \in [B -> [C -> Nat]]
  OBVIOUS
<1>2. [f[a] EXCEPT ![b][c] = @ + 1] \in [B -> [C -> Nat]]
  BY <1>1, CountUp
<1> QED BY <1>2

(* The hooks that publish a content event.                                 *)
LEMMA AnnounceKeeps ==
    ASSUME HandlerInv, NEW t \in Tasks, Announce(t)
    PROVE  HandlerInv'
<1> DEFINE i == target[t]
           k == KindOf(req[t].op)
<1>0. /\ pc[t] = "announce"
      /\ \E r \in {"ok", "error"} : Finish(t, r)
      /\ news' = news \/ news' = [news EXCEPT ![i][k] = @ + 1]
      /\ db' = db /\ lastId' = lastId
      /\ target' = target /\ caller' = caller /\ req' = req /\ frame' = frame
      /\ entered' = entered /\ exited' = exited /\ body' = body
      /\ existing' = existing /\ todo' = todo /\ landed' = landed
  BY DEF Announce, storageVars, localVars, handlerVars, smVars
<1>f. i \in Ids /\ k \in Kinds
  BY <1>0, TaskFacts DEF RequestKept, KindOf, Kinds
<1> HIDE DEF i, k
<1>1. news' \in [Ids -> [Kinds -> Nat]]
  <2>1. news \in [Ids -> [Kinds -> Nat]]
    BY DEF HandlerInv, TypeOK
  <2>2. [news EXCEPT ![i][k] = @ + 1] \in [Ids -> [Kinds -> Nat]]
    BY <1>f, <2>1, CountUp
  <2> QED BY <1>0, <2>1, <2>2
<1>2. TypeOK'
  BY <1>0, <1>1 DEF HandlerInv, TypeOK, Finish, Results
<1>3. \A s \in Tasks \ {t} : Same(s)
  BY <1>0 DEF HandlerInv, TypeOK, Same, Finish
<1>4. pc'[t] = "done"
  BY <1>0 DEF HandlerInv, TypeOK, Finish
<1>5. RequestKept(t)'
  BY <1>0, <1>4, TaskFacts DEF RequestKept, Locations, Ops
<1>6. Grounded(t)'
  BY <1>4 DEF Grounded
<1> QED BY <1>0, <1>2, <1>3, <1>5, <1>6, TableUntouched, Assemble

-----------------------------------------------------------------------------
(* do_state_transition.  A call runs for an update or a transition.        *)
LEMMA CallFacts ==
    ASSUME HandlerInv, NEW t \in Tasks, pc[t] \in {"sm_read", "cas", "publish"}
    PROVE  /\ req[t].op \in {"update", "transition"}
           /\ target[t] \in Ids /\ frame[t] \in Frame
           /\ pc[t] = "sm_read" => frame[t].to \in States
           /\ pc[t] \in {"cas", "publish"} => TransitionJudgedFor(t)
           /\ req[t].op = "update" => UpdateGrounded(t)
BY TaskFacts DEF Locations, Ops, RequestKept, Grounded, HandlerInv, TypeOK

LEMMA SMReadKeeps ==
    ASSUME HandlerInv, NEW t \in Tasks, SMRead(t)
    PROVE  HandlerInv'
<1> DEFINE f   == frame[t]
           rec == db[target[t]]
           m   == f.machine
           g   == [f EXCEPT !.from = rec.state[m],
                            !.data = IF Gates[m][<<rec.state[m], f.to>>].entered
                                     THEN Entered[rec.data] ELSE Absent]
<1>1. CASE TransitionRefused(t)
  <2> DEFINE r == Refusal(caller[t], f.machine, target[t], f.to)
  <2>1. pc[t] = "sm_read" /\ Answer(t, r)
    BY <1>1 DEF SMRead, TransitionRefused, Answer, localVars, handlerVars, smVars, storageVars
  <2>2. r \in Results
    BY DEF Refusal, GateRefusal, CondRefusal, EnteredRefusal, Results, NoResult
  <2> QED BY <2>1, <2>2, AnswerKeeps
<1>2. CASE TransitionJudged(t)
  <2>0. /\ pc[t] = "sm_read" /\ Refusal(caller[t], m, target[t], f.to) = NoResult
        /\ frame' = [frame EXCEPT ![t] = g] /\ pc' = [pc EXCEPT ![t] = "cas"]
        /\ result' = result /\ db' = db /\ lastId' = lastId
        /\ target' = target /\ caller' = caller /\ req' = req
        /\ entered' = entered /\ exited' = exited /\ news' = news /\ body' = body
        /\ existing' = existing /\ todo' = todo /\ landed' = landed
    BY <1>2 DEF SMRead, TransitionJudged, Goto, localVars, storageVars, handlerVars, busVars
  <2>r. /\ m \in Machines /\ rec # NoRecord /\ Declared(m, rec.state[m], f.to)
        /\ ScopeOK(caller[t], m, rec.state[m], f.to)
    BY <2>0 DEF Refusal, GateRefusal, NoResult
  <2>f. /\ target[t] \in Ids /\ f \in Frame /\ f.to \in States
        /\ (req[t].op = "update" => UpdateGrounded(t))
    BY <2>0, CallFacts
  <2>s. rec \in Record /\ rec.state[m] \in States /\ Entered[rec.data] \in Data
    BY <2>r, <2>f, DataAssumption DEF HandlerInv, TypeOK, Record
  <2>g. /\ g \in Frame /\ g.machine = m /\ g.to = f.to /\ g.from = rec.state[m]
        /\ (g.data # Absent => Gates[m][<<rec.state[m], f.to>>].entered)
    BY <2>f, <2>s DEF Frame
  <2> HIDE DEF g, f, rec, m
  <2>2. TypeOK'
    BY <2>0, <2>g DEF HandlerInv, TypeOK
  <2>3. \A s \in Tasks \ {t} : Same(s)
    BY <2>0 DEF HandlerInv, TypeOK, Same
  <2>4. pc'[t] = "cas" /\ frame'[t] = g
    BY <2>0 DEF HandlerInv, TypeOK
  <2>5. RequestKept(t)'
    BY <2>0, <2>4, TaskFacts DEF RequestKept, Locations, Ops
  <2>6. TransitionJudgedFor(t)'
    BY <2>0, <2>4, <2>r, <2>f, <2>s, <2>g DEF TransitionJudgedFor
  <2>7. UpdateGrounded(t) => UpdateGrounded(t)'
    BY <2>0, <2>4 DEF UpdateGrounded, StillOwned, WriteAllowed
  <2>8. Grounded(t)'
    BY <2>0, <2>4, <2>6, <2>7, <2>f DEF Grounded
  <2> QED BY <2>0, <2>2, <2>3, <2>5, <2>8, TableUntouched, Assemble
<1> QED BY <1>1, <1>2 DEF SMRead

(* What a compare-and-set writes: one declared, admitted move of one state *)
(* column, and data only where the gate has entered: assignments.          *)
LEMMA LandsFacts ==
    ASSUME HandlerInv, NEW t \in Tasks, TransitionLands(t)
    PROVE  /\ pc[t] = "cas" /\ TransitionJudgedFor(t) /\ target[t] \in Ids
           /\ db[target[t]] \in Record
           /\ db[target[t]].state[frame[t].machine] = frame[t].from
           /\ TransitionPatch(frame[t]) \in Patch
           /\ Patched(db[target[t]], TransitionPatch(frame[t])) \in Record
           /\ db' = [db EXCEPT ![target[t]] = Patched(db[target[t]], TransitionPatch(frame[t]))]
           /\ lastId' = lastId
<1>1. /\ pc[t] = "cas" /\ db[target[t]] # NoRecord
      /\ db[target[t]].state[frame[t].machine] = frame[t].from
      /\ db' = [db EXCEPT ![target[t]] = Patched(db[target[t]], TransitionPatch(frame[t]))]
      /\ lastId' = lastId
  BY DEF TransitionLands, StorageUpdateIf, ConditionMet, StorageUpdate
<1>2. TransitionJudgedFor(t) /\ target[t] \in Ids /\ frame[t] \in Frame
  BY <1>1, CallFacts
<1>3. db[target[t]] \in Record
  BY <1>1, <1>2 DEF HandlerInv, TypeOK
<1>4. TransitionPatch(frame[t]) \in Patch
  BY <1>2, TransitionPatchType DEF TransitionJudgedFor
<1> QED BY <1>1, <1>2, <1>3, <1>4, PatchedType

LEMMA SMUpdateIfKeeps ==
    ASSUME HandlerInv, NEW t \in Tasks, SMUpdateIf(t)
    PROVE  HandlerInv'
<1>1. CASE TransitionLost(t) /\ UNCHANGED <<localVars, landed>>
  <2>1. PICK r \in Results : pc[t] # "idle" /\ Answer(t, r)
    BY <1>1 DEF TransitionLost, Answer, Results, localVars, handlerVars, smVars, storageVars
  <2> QED BY <2>1, AnswerKeeps
<1>2. CASE TransitionLands(t) /\ UNCHANGED localVars
           /\ landed' = [landed EXCEPT ![t] = @ \union {frame[t].machine}]
  <2> DEFINE i   == target[t]
             row == Patched(db[i], TransitionPatch(frame[t]))
  <2>0. /\ pc' = [pc EXCEPT ![t] = "publish"] /\ result' = result
        /\ landed' = [landed EXCEPT ![t] = @ \union {frame[t].machine}]
        /\ target' = target /\ caller' = caller /\ req' = req /\ frame' = frame
        /\ entered' = entered /\ exited' = exited /\ news' = news /\ body' = body
        /\ existing' = existing /\ todo' = todo
    BY <1>2 DEF TransitionLands, Goto, localVars, handlerVars, smVars
  <2>f. /\ pc[t] = "cas" /\ TransitionJudgedFor(t) /\ i \in Ids
        /\ db[i] \in Record /\ row \in Record /\ row.owner = db[i].owner
        /\ db' = [db EXCEPT ![i] = row] /\ lastId' = lastId
    BY <1>2, LandsFacts DEF Patched, TransitionPatch
  <2>m. frame[t].machine \in Machines
    BY <2>f DEF TransitionJudgedFor
  <2>r. row # NoRecord /\ db[i] # NoRecord
    BY <2>f, SentinelAssumption
  <2> HIDE DEF i, row
  <2>1. landed' \in [Tasks -> SUBSET Machines]
    BY <2>0, <2>m DEF HandlerInv, TypeOK
  <2>2. TypeOK'
    BY <2>0, <2>1, <2>f DEF HandlerInv, TypeOK
  <2>3. IdsNotReused' /\ TableStep
    BY <2>f, <2>r, SizeAssumption DEF HandlerInv, TypeOK, IdsNotReused, TableStep
  <2>4. \A s \in Tasks \ {t} : Same(s)
    BY <2>0 DEF HandlerInv, TypeOK, Same
  <2>5. pc'[t] = "publish"
    BY <2>0 DEF HandlerInv, TypeOK
  <2>6. RequestKept(t)'
    BY <2>0, <2>5, <2>f, TaskFacts DEF RequestKept, Locations, Ops
  <2>7. TransitionJudgedFor(t)'
    BY <2>0, <2>f DEF TransitionJudgedFor
  <2>8. UpdateGrounded(t) => UpdateGrounded(t)'
    <3>1. existing[t] # NoRecord /\ StillOwned(t) => StillOwned(t)'
      BY <2>0, <2>f, <2>r DEF StillOwned, i
    <3> QED BY <2>0, <2>f, <2>5, <3>1 DEF UpdateGrounded, WriteAllowed
  <2>9. Grounded(t)'
    BY <2>0, <2>5, <2>7, <2>8, <2>f, CallFacts DEF Grounded
  <2> QED BY <2>2, <2>3, <2>4, <2>6, <2>9, Assemble
<1> QED BY <1>1, <1>2 DEF SMUpdateIf

(* The publishes, and the return to the handler.                           *)
LEMMA SMPublishKeeps ==
    ASSUME HandlerInv, NEW t \in Tasks, SMPublish(t)
    PROVE  HandlerInv'
<1> DEFINE f == frame[t]
           i == target[t]
<1>0. /\ pc[t] = "publish"
      /\ exited'  = [exited  EXCEPT ![i][f.machine][f.from] = @ + 1]
      /\ entered' = [entered EXCEPT ![i][f.machine][f.to] = @ + 1]
      /\ news'    = [news    EXCEPT ![i]["updated"] = @ + 1]
      /\ db' = db /\ lastId' = lastId
      /\ target' = target /\ caller' = caller /\ req' = req /\ body' = body
      /\ existing' = existing /\ landed' = landed
  BY DEF SMPublish, TransitionPublished, storageVars, handlerVars
<1>f. /\ i \in Ids /\ f.machine \in Machines /\ f.from \in States /\ f.to \in States
      /\ (req[t].op = "update" => UpdateGrounded(t))
  BY <1>0, CallFacts DEF TransitionJudgedFor
<1>c. /\ exited' \in [Ids -> [Machines -> [States -> Nat]]]
      /\ entered' \in [Ids -> [Machines -> [States -> Nat]]]
      /\ news' \in [Ids -> [Kinds -> Nat]]
  <2>1. /\ exited \in [Ids -> [Machines -> [States -> Nat]]]
        /\ entered \in [Ids -> [Machines -> [States -> Nat]]]
        /\ news \in [Ids -> [Kinds -> Nat]] /\ "updated" \in Kinds
    BY DEF HandlerInv, TypeOK, Kinds
  <2> HIDE DEF f, i
  <2>2. [exited EXCEPT ![i][f.machine][f.from] = @ + 1] \in [Ids -> [Machines -> [States -> Nat]]]
    BY <1>f, <2>1, CountUpDeep
  <2>3. [entered EXCEPT ![i][f.machine][f.to] = @ + 1] \in [Ids -> [Machines -> [States -> Nat]]]
    BY <1>f, <2>1, CountUpDeep
  <2>4. [news EXCEPT ![i]["updated"] = @ + 1] \in [Ids -> [Kinds -> Nat]]
    BY <1>f, <2>1, CountUp
  <2> QED BY <1>0, <2>2, <2>3, <2>4
<1>u. /\ db' \in [Ids -> Record \union {NoRecord}] /\ lastId' \in 0 .. MaxId
      /\ target' \in [Tasks -> 0 .. MaxId] /\ caller' \in [Tasks -> Users \union {Absent}]
      /\ req' \in [Tasks -> Request \union {NoRequest}] /\ body' \in [Tasks -> Patch]
      /\ existing' \in [Tasks -> Record \union {NoRecord}]
      /\ landed' \in [Tasks -> SUBSET Machines]
  BY <1>0 DEF HandlerInv, TypeOK
<1>1. CASE req[t].op = "transition"
  <2>0. /\ pc' = [pc EXCEPT ![t] = "done"] /\ result' = [result EXCEPT ![t] = "ok"]
        /\ frame' = frame /\ todo' = todo
    BY <1>1 DEF SMPublish, Finish
  <2>1. /\ pc' \in [Tasks -> Ops \union {"idle", "persist", "delete_row", "sm_read", "cas",
                                         "publish", "announce", "done"}]
        /\ result' \in [Tasks -> Results] /\ frame' \in [Tasks -> Frame]
        /\ todo' \in [Tasks -> SUBSET Machines]
    BY <2>0 DEF HandlerInv, TypeOK, Results
  <2>2. TypeOK'
    BY <1>c, <1>u, <2>1 DEF TypeOK
  <2>3. \A s \in Tasks \ {t} : Same(s)
    BY <1>0, <2>0 DEF HandlerInv, TypeOK, Same
  <2>4. pc'[t] = "done"
    BY <2>0 DEF HandlerInv, TypeOK
  <2>5. RequestKept(t)'
    BY <1>0, <1>1, <2>4, TaskFacts DEF RequestKept, Locations
  <2>6. Grounded(t)'
    BY <2>4 DEF Grounded
  <2> QED BY <1>0, <2>2, <2>3, <2>5, <2>6, TableUntouched, Assemble
<1>2. CASE req[t].op = "update"
  <2> DEFINE S == todo[t] \ {f.machine}
  <2>0. Chain(t, S)
    BY <1>2 DEF SMPublish
  <2>s. S \in SUBSET Machines /\ S \subseteq DOMAIN req[t].body.state
    BY <1>0, <1>2, TaskFacts DEF RequestKept, HandlerInv, TypeOK
  <2> HIDE DEF S
  <2>1. /\ pc' \in [Tasks -> Ops \union {"idle", "persist", "delete_row", "sm_read", "cas",
                                         "publish", "announce", "done"}]
        /\ frame' \in [Tasks -> Frame] /\ todo' \in [Tasks -> SUBSET Machines]
        /\ result' = result /\ todo'[t] = S
        /\ pc'[t] = "persist" \/ (pc'[t] = "sm_read" /\ frame'[t].to \in States)
        /\ \A s \in Tasks \ {t} : pc'[s] = pc[s] /\ frame'[s] = frame[s] /\ todo'[s] = todo[s]
    BY <1>0, <2>0, <2>s, ChainFacts
  <2>2. TypeOK'
    <3>1. result' \in [Tasks -> Results]
      BY <2>1 DEF HandlerInv, TypeOK
    <3> QED BY <1>c, <1>u, <2>1, <3>1 DEF TypeOK
  <2>3. \A s \in Tasks \ {t} : Same(s)
    BY <1>0, <2>1 DEF Same
  <2>5. RequestKept(t)'
    BY <1>0, <1>2, <2>1, <2>s, <1>f, TaskFacts DEF RequestKept, Locations
  <2>6. UpdateGrounded(t)'
    <3>1. existing[t] # NoRecord
      BY <1>0, <1>2, <1>f DEF UpdateGrounded
    <3> QED BY <1>0, <1>2, <1>f, <3>1 DEF UpdateGrounded, StillOwned, WriteAllowed
  <2>7. Grounded(t)'
    BY <2>1, <2>6 DEF Grounded
  <2> QED BY <1>0, <2>2, <2>3, <2>5, <2>7, TableUntouched, Assemble
<1>3. req[t].op = "update" \/ req[t].op = "transition"
  BY <1>0, CallFacts
<1> QED BY <1>1, <1>2, <1>3

-----------------------------------------------------------------------------
LEMMA InitInv == Init => HandlerInv
<1> SUFFICES ASSUME Init PROVE HandlerInv
  OBVIOUS
<1>1. TypeOK
  BY InitType
<1>2. IdsNotReused
  BY DEF Init, L!Init, L!Ids, IdsNotReused
<1>3. \A t \in Tasks : pc[t] = "idle" /\ existing[t] = NoRecord
  BY DEF Init
<1> QED BY <1>1, <1>2, <1>3 DEF HandlerInv

LEMMA StepInv == SafeKeys /\ HandlerInv /\ [Next]_vars => HandlerInv'
<1> SUFFICES ASSUME SafeKeys, HandlerInv, [Next]_vars PROVE HandlerInv'
  OBVIOUS
<1>1. ASSUME NEW t \in Tasks, Arrive(t) PROVE HandlerInv'
  BY <1>1, ArriveKeeps
<1>2. ASSUME NEW t \in Tasks, CreateRefused(t) \/ CreateInsert(t) PROVE HandlerInv'
  BY <1>2, CreateRefusedKeeps, CreateInsertKeeps
<1>3. ASSUME NEW t \in Tasks, UpdateRefused(t) \/ UpdateFound(t) \/ UpdateMissing(t)
      PROVE HandlerInv'
  BY <1>3, UpdateRefusedKeeps, UpdateFoundKeeps, UpdateMissingKeeps
<1>4. ASSUME NEW t \in Tasks, PersistRefused(t) \/ Persist(t) \/ ReadBack(t) PROVE HandlerInv'
  BY <1>4, PersistAnswersKeep, PersistKeeps
<1>5. ASSUME NEW t \in Tasks, DeleteChecked(t) \/ DeleteRefused(t) \/ DeleteRow(t)
      PROVE HandlerInv'
  BY <1>5, DeleteCheckedKeeps, DeleteRefusedKeeps, DeleteRowKeeps
<1>6. ASSUME NEW t \in Tasks, TransitionResolved(t) PROVE HandlerInv'
  BY <1>6, TransitionResolvedKeeps
<1>7. ASSUME NEW t \in Tasks, SMRead(t) \/ SMUpdateIf(t) \/ SMPublish(t) PROVE HandlerInv'
  BY <1>7, SMReadKeeps, SMUpdateIfKeeps, SMPublishKeeps
<1>8. ASSUME NEW t \in Tasks, Announce(t) PROVE HandlerInv'
  BY <1>8, AnnounceKeeps
<1>9. CASE UNCHANGED vars
  <2>1. TypeOK'
    BY <1>9 DEF vars, HandlerInv, TypeOK
  <2>2. IdsNotReused' /\ TableStep
    BY <1>9, TableUntouched DEF vars
  <2>3. ASSUME NEW s \in Tasks
        PROVE  IF pc'[s] = "idle" THEN existing'[s] = NoRecord
                                  ELSE RequestKept(s)' /\ Grounded(s)'
    <3>1. Same(s)
      BY <1>9 DEF vars, Same
    <3>2. CASE pc[s] = "idle"
      BY <3>1, <3>2 DEF Same, HandlerInv
    <3>3. CASE pc[s] # "idle"
      BY <2>1, <2>2, <3>1, <3>3, OthersKept DEF Same, TypeOK
    <3> QED BY <3>2, <3>3
  <2> QED BY <2>1, <2>2, <2>3 DEF HandlerInv
<1> QED BY <1>1, <1>2, <1>3, <1>4, <1>5, <1>6, <1>7, <1>8, <1>9 DEF Next, Handle, Done

(* The handlers' grounds for acting on earlier reads hold in every         *)
(* reachable state: what a gate, an ownership check or a write-access      *)
(* check established is still true when the write it admits is made.       *)
THEOREM HandlersGrounded ==
    ASSUME SafeKeys
    PROVE  Spec => []HandlerInv
<1>1. Init => HandlerInv
  BY InitInv
<1>2. HandlerInv /\ [Next]_vars => HandlerInv'
  BY StepInv
<1> QED BY <1>1, <1>2, PTL DEF Spec

(* Rows, requests and counters stay well-typed.                            *)
THEOREM TypeCorrect ==
    ASSUME SafeKeys
    PROVE  Spec => []TypeOK
<1>1. HandlerInv => TypeOK
  BY DEF HandlerInv
<1>2. Spec => []HandlerInv
  BY HandlersGrounded
<1> QED BY <1>1, <1>2, PTL

-----------------------------------------------------------------------------
(* The four steps that change the table, as steps of Lifecycle.            *)
LEMMA CreateInsertIsCreate ==
    ASSUME HandlerInv, NEW t \in Tasks, CreateInsert(t)
    PROVE  L!Next
<1>1. caller[t] \in Users /\ CreateData(body[t]) \in Data
  BY TaskFacts, CreateDataType DEF CreateInsert
<1>2. L!Create(caller[t])
  BY <1>1 DEF CreateInsert, StorageCreate, L!Create, L!InBoundary, InBoundary,
              L!FreshRecord, FreshRecord
<1> QED BY <1>1, <1>2 DEF L!Next

LEMMA LandingIsAdvance ==
    ASSUME HandlerInv, NEW t \in Tasks, TransitionLands(t)
    PROVE  L!Next
<1> DEFINE f   == frame[t]
           i   == target[t]
           m   == f.machine
           row == Patched(db[i], TransitionPatch(f))
           d   == IF f.data = Absent THEN db[i].data ELSE f.data
<1>1. /\ pc[t] = "cas" /\ TransitionJudgedFor(t) /\ i \in Ids /\ db[i] \in Record
      /\ db[i].state[m] = f.from /\ row \in Record
      /\ db' = [db EXCEPT ![i] = row] /\ lastId' = lastId
  BY LandsFacts
<1>2. caller[t] \in Users
  BY <1>1, TaskFacts
<1>3. /\ m \in Machines /\ f.to \in States /\ Declared(m, f.from, f.to)
      /\ ScopeOK(caller[t], m, f.from, f.to)
      /\ (f.data # Absent => Gates[m][<<f.from, f.to>>].entered)
  BY <1>1 DEF TransitionJudgedFor
<1>4. d \in Data
  BY <1>1 DEF HandlerInv, TypeOK, Frame, Record
<1>5. row = [owner |-> db[i].owner, state |-> [db[i].state EXCEPT ![m] = f.to], data |-> d]
  <2>1. [n \in Machines |-> IF n \in {m} THEN f.to ELSE db[i].state[n]]
          = [db[i].state EXCEPT ![m] = f.to]
    BY <1>1, <1>3 DEF Record
  <2>2. row.state = [n \in Machines |-> IF n \in {m} THEN f.to ELSE db[i].state[n]]
    BY DEF Patched, TransitionPatch
  <2>3. row.owner = db[i].owner /\ row.data = d
    BY DEF Patched, TransitionPatch
  <2> QED BY <2>1, <2>2, <2>3 DEF Patched
<1>6. d = db[i].data \/ Gates[m][<<db[i].state[m], f.to>>].entered
  BY <1>1, <1>3
<1>7. db[i] # NoRecord
  BY <1>1, SentinelAssumption
<1>8. /\ L!Declared(m, db[i].state[m], f.to) /\ L!ScopeOK(caller[t], m, db[i].state[m], f.to)
  BY <1>1, <1>3 DEF Declared, ScopeOK, L!Declared, L!ScopeOK
<1> HIDE DEF f, i, m, row, d
<1>9. L!Advance(caller[t], i, m)
  BY <1>1, <1>3, <1>4, <1>5, <1>6, <1>7, <1>8 DEF L!Advance
<1> QED BY <1>1, <1>2, <1>3, <1>9 DEF L!Next, L!Ids, L!Machines

LEMMA PersistIsWrite ==
    ASSUME HandlerInv, NEW t \in Tasks, Persist(t)
    PROVE  L!Next
<1> DEFINE i   == target[t]
           b   == body[t]
           row == Patched(db[i], b)
<1>1. /\ pc[t] = "persist" /\ WriteAllowed(caller[t], b) /\ i \in Ids /\ db[i] \in Record
      /\ b \in Patch /\ DOMAIN b.state = {} /\ row \in Record
      /\ (Owned => b.owner = Absent /\ db[i].owner = caller[t])
      /\ db' = [db EXCEPT ![i] = row] /\ lastId' = lastId
  BY PersistFacts
<1>2. caller[t] \in Users
  BY <1>1, TaskFacts
<1>3. row.state = db[i].state
  <2>1. row.state = [n \in Machines |-> db[i].state[n]]
    BY <1>1 DEF Patched
  <2> QED BY <1>1, <2>1 DEF Record
<1>4. row = [owner |-> row.owner, state |-> db[i].state, data |-> row.data]
  BY <1>3 DEF Patched
<1>5. /\ row.owner \in Users /\ row.data \in Data
      /\ (row.data # db[i].data => L!MayWriteData(caller[t]))
      /\ (Owned => row.owner = db[i].owner)
  <2>1. row.owner \in Users /\ row.data \in Data
    BY <1>1 DEF Record
  <2>2. row.data # db[i].data => b.data # Absent
    BY DEF Patched
  <2>3. Owned => row.owner = db[i].owner
    BY <1>1 DEF Patched
  <2> QED BY <1>1, <2>1, <2>2, <2>3 DEF WriteAllowed, MayWriteData, L!MayWriteData
<1>6. db[i] # NoRecord
  BY <1>1, SentinelAssumption
<1> HIDE DEF i, b, row
<1>7. L!Write(caller[t], i)
  BY <1>1, <1>4, <1>5, <1>6 DEF L!Write
<1> QED BY <1>1, <1>2, <1>7 DEF L!Next, L!Ids

LEMMA DeleteRowIsDelete ==
    ASSUME HandlerInv, NEW t \in Tasks, DeleteRow(t)
    PROVE  L!Next
<1>1. pc[t] = "delete_row" /\ caller[t] \in Users /\ target[t] \in Ids /\ StillOwned(t)
  BY TaskFacts DEF DeleteRow, RequestKept, Grounded
<1>2. L!Delete(caller[t], target[t])
  BY <1>1 DEF DeleteRow, StorageDelete, StillOwned, L!Delete
<1> QED BY <1>1, <1>2 DEF L!Next, L!Ids

(* Every other step leaves the table alone.                                *)
LEMMA OthersStutter ==
    ASSUME NEW t \in Tasks,
           \/ Arrive(t) \/ CreateRefused(t) \/ UpdateRefused(t) \/ UpdateFound(t)
           \/ UpdateMissing(t) \/ PersistRefused(t) \/ ReadBack(t) \/ DeleteChecked(t)
           \/ DeleteRefused(t) \/ TransitionResolved(t) \/ SMRead(t)
           \/ TransitionLost(t) \/ SMPublish(t) \/ Announce(t)
    PROVE  UNCHANGED <<db, lastId>>
<1> USE DEF storageVars
<1>1. ASSUME NEW r, Answer(t, r) PROVE UNCHANGED <<db, lastId>>
  BY <1>1 DEF Answer
<1>2. CASE Arrive(t)
  BY <1>2 DEF Arrive
<1>3. CASE CreateRefused(t) \/ UpdateRefused(t) \/ PersistRefused(t) \/ ReadBack(t)
             \/ DeleteRefused(t)
  BY <1>1, <1>3 DEF CreateRefused, UpdateRefused, PersistRefused, ReadBack, DeleteRefused
<1>4. CASE UpdateFound(t) \/ UpdateMissing(t)
  BY <1>4 DEF UpdateFound, UpdateMissing
<1>5. CASE DeleteChecked(t) \/ TransitionResolved(t)
  BY <1>1, <1>5 DEF DeleteChecked, TransitionResolved
<1>6. CASE SMRead(t) \/ TransitionLost(t) \/ SMPublish(t)
  BY <1>6 DEF SMRead, TransitionRefused, TransitionJudged, TransitionLost,
              SMPublish, TransitionPublished
<1>7. CASE Announce(t)
  BY <1>7 DEF Announce
<1> QED BY <1>2, <1>3, <1>4, <1>5, <1>6, <1>7

LEMMA StepSimulates == HandlerInv /\ [Next]_vars => [L!Next]_(L!lifecycleVars)
<1> SUFFICES ASSUME HandlerInv, [Next]_vars PROVE L!Next \/ UNCHANGED <<db, lastId>>
  BY DEF L!lifecycleVars
<1>1. ASSUME NEW t \in Tasks, Arrive(t) \/ Handle(t) PROVE L!Next \/ UNCHANGED <<db, lastId>>
  <2>1. CASE CreateInsert(t)
    BY <2>1, CreateInsertIsCreate
  <2>2. CASE TransitionLands(t)
    BY <2>2, LandingIsAdvance
  <2>3. CASE Persist(t)
    BY <2>3, PersistIsWrite
  <2>4. CASE DeleteRow(t)
    BY <2>4, DeleteRowIsDelete
  <2> QED BY <1>1, <2>1, <2>2, <2>3, <2>4, OthersStutter DEF Handle, SMUpdateIf
<1>2. CASE UNCHANGED vars
  BY <1>2 DEF vars
<1> QED BY <1>1, <1>2 DEF Next, Done

(* Concurrent handlers implement Lifecycle: for any number of requests,    *)
(* records and machines, every change of the table is one atomic create,   *)
(* declared and admitted move, permitted field write, or delete.           *)
THEOREM CrudRefinesLifecycle ==
    ASSUME SafeKeys
    PROVE  Spec => RefinesLifecycle
<1>1. Init => L!Init
  BY DEF Init
<1>2. HandlerInv /\ [Next]_vars => [L!Next]_(L!lifecycleVars)
  BY StepSimulates
<1>3. Spec => []HandlerInv
  BY HandlersGrounded
<1> QED BY <1>1, <1>2, <1>3, PTL DEF Spec, RefinesLifecycle, L!Spec
-----------------------------------------------------------------------------
(* A step is about one task: it leaves every other one alone, the request  *)
(* a task handles and the record it read do not change, and a task that    *)
(* has begun never becomes idle.                                           *)
Untouched(s) == Same(s) /\ result'[s] = result[s] /\ landed'[s] = landed[s]

LEMMA AnswerFacts ==
    ASSUME HandlerInv, NEW t \in Tasks, NEW r, Answer(t, r)
    PROVE  /\ \A s \in Tasks \ {t} : Untouched(s)
           /\ pc'[t] = "done" /\ result'[t] = r
           /\ target' = target /\ caller' = caller /\ req' = req /\ frame' = frame
           /\ body' = body /\ existing' = existing /\ todo' = todo /\ landed' = landed
           /\ db' = db /\ lastId' = lastId /\ news' = news
           /\ entered' = entered /\ exited' = exited
BY DEF Answer, Finish, HandlerInv, TypeOK, Untouched, Same, storageVars, handlerVars, smVars

(* The steps that answer a request and change nothing else, and what they  *)
(* answer it with.                                                         *)
LEMMA AnswersAre ==
    ASSUME HandlerInv, NEW t \in Tasks,
           \/ CreateRefused(t) \/ UpdateRefused(t) \/ PersistRefused(t) \/ DeleteRefused(t)
           \/ DeleteChecked(t) /\ pc'[t] # "delete_row"
           \/ TransitionResolved(t) /\ pc'[t] # "sm_read"
           \/ SMRead(t) /\ ~ TransitionJudged(t)
           \/ SMUpdateIf(t) /\ ~ TransitionLands(t)
    PROVE  pc[t] \notin {"idle", "publish"} /\ \E r : r # "ok" /\ Answer(t, r)
<1>1. CASE CreateRefused(t) \/ UpdateRefused(t)
  BY <1>1 DEF CreateRefused, UpdateRefused
<1>2. CASE PersistRefused(t) \/ DeleteRefused(t)
  BY <1>2 DEF PersistRefused, DeleteRefused
<1>3. CASE DeleteChecked(t) /\ pc'[t] # "delete_row"
  BY <1>3 DEF DeleteChecked, Goto, HandlerInv, TypeOK
<1>4. CASE TransitionResolved(t) /\ pc'[t] # "sm_read"
  BY <1>4 DEF TransitionResolved, Goto, HandlerInv, TypeOK
<1>5. CASE SMRead(t) /\ ~ TransitionJudged(t)
  <2> DEFINE r == Refusal(caller[t], frame[t].machine, target[t], frame[t].to)
  <2>1. pc[t] = "sm_read" /\ Answer(t, r)
    BY <1>5 DEF SMRead, TransitionRefused, Answer, localVars, handlerVars, smVars, storageVars
  <2>2. r # "ok"
    BY DEF Refusal, GateRefusal, CondRefusal, EnteredRefusal, NoResult
  <2> QED BY <2>1, <2>2
<1>6. CASE SMUpdateIf(t) /\ ~ TransitionLands(t)
  BY <1>6 DEF SMUpdateIf, TransitionLost, Answer, localVars, handlerVars, smVars, storageVars
<1> QED BY <1>1, <1>2, <1>3, <1>4, <1>5, <1>6

(* Where a step takes its task, and that it leaves the others alone.       *)
LEMMA PublishMoves ==
    ASSUME HandlerInv, NEW t \in Tasks, SMPublish(t)
    PROVE  /\ \A s \in Tasks \ {t} : Untouched(s)
           /\ target' = target /\ req' = req /\ existing' = existing /\ landed' = landed
           /\ db' = db /\ lastId' = lastId
           /\ \/ /\ req[t].op = "transition" /\ pc'[t] = "done" /\ result'[t] = "ok"
              \/ /\ req[t].op = "update" /\ existing[t] # NoRecord /\ result'[t] = result[t]
                 /\ todo'[t] = todo[t] \ {frame[t].machine}
                 /\ \/ todo'[t] = {} /\ pc'[t] = "persist"
                    \/ todo'[t] # {} /\ pc'[t] = "sm_read" /\ frame'[t].machine = First(todo'[t])
<1>0. /\ pc[t] = "publish" /\ db' = db /\ lastId' = lastId
      /\ target' = target /\ caller' = caller /\ req' = req /\ body' = body
      /\ existing' = existing /\ landed' = landed
  BY DEF SMPublish, TransitionPublished, storageVars, handlerVars
<1>1. CASE req[t].op = "transition"
  <2>1. /\ pc' = [pc EXCEPT ![t] = "done"] /\ result' = [result EXCEPT ![t] = "ok"]
        /\ frame' = frame /\ todo' = todo
    BY <1>1 DEF SMPublish, Finish
  <2> QED BY <1>0, <1>1, <2>1 DEF HandlerInv, TypeOK, Untouched, Same
<1>2. CASE req[t].op = "update"
  <2> DEFINE S == todo[t] \ {frame[t].machine}
  <2>0. Chain(t, S)
    BY <1>2 DEF SMPublish
  <2>s. S \in SUBSET Machines /\ S \subseteq DOMAIN req[t].body.state
    BY <1>0, <1>2, TaskFacts DEF RequestKept, HandlerInv, TypeOK
  <2>e. existing[t] # NoRecord
    BY <1>0, <1>2, CallFacts DEF UpdateGrounded
  <2>m. S # {} => frame'[t].machine = First(S)
    BY <2>0 DEF Chain, Call, HandlerInv, TypeOK
  <2> HIDE DEF S
  <2>1. /\ result' = result /\ todo'[t] = S
        /\ ((S = {} /\ pc'[t] = "persist") \/ (S # {} /\ pc'[t] = "sm_read"))
        /\ \A s \in Tasks \ {t} : pc'[s] = pc[s] /\ frame'[s] = frame[s] /\ todo'[s] = todo[s]
    BY <1>0, <2>0, <2>s, ChainFacts
  <2> QED BY <1>0, <1>2, <2>1, <2>e, <2>m DEF Untouched, Same, S
<1>3. req[t].op = "update" \/ req[t].op = "transition"
  BY <1>0, CallFacts
<1> QED BY <1>1, <1>2, <1>3

LEMMA FoundMoves ==
    ASSUME HandlerInv, NEW t \in Tasks, UpdateFound(t)
    PROVE  /\ \A s \in Tasks \ {t} : Untouched(s)
           /\ pc[t] = "update" /\ req[t].op = "update" /\ body[t] = req[t].body
           /\ req[t].key \in Ids /\ db[req[t].key] \in Record /\ req[t].key <= lastId
           /\ target'[t] = req[t].key /\ existing'[t] = db[req[t].key]
           /\ req' = req /\ landed' = landed /\ db' = db /\ lastId' = lastId /\ news' = news
           /\ entered' = entered /\ exited' = exited
           /\ result' = result
           /\ todo'[t] = Touched(req[t].body, existing'[t])
           /\ \/ todo'[t] = {} /\ pc'[t] = "persist"
              \/ todo'[t] # {} /\ pc'[t] = "sm_read" /\ frame'[t].machine = First(todo'[t])
<1> DEFINE k   == req[t].key
           b   == StripState(StripOwner(body[t]))
           S   == Touched(body[t], db[k])
<1>0. /\ pc[t] = "update" /\ db[k] # NoRecord
      /\ existing' = [existing EXCEPT ![t] = db[k]]
      /\ target' = [target EXCEPT ![t] = k]
      /\ body' = [body EXCEPT ![t] = b]
      /\ Chain(t, S)
      /\ db' = db /\ lastId' = lastId /\ caller' = caller /\ req' = req
      /\ entered' = entered /\ exited' = exited /\ news' = news /\ landed' = landed
  BY DEF UpdateFound, storageVars, handlerVars, busVars
<1>f. /\ req[t].op = "update" /\ body[t] = req[t].body /\ k \in Ids
      /\ db[k] \in Record /\ k <= lastId
  <2>1. req[t].op = "update" /\ body[t] = req[t].body /\ k \in Ids
    BY <1>0, TaskFacts DEF Locations, Ops, Grounded
  <2>2. k <= lastId
    BY <1>0, <2>1, TaskFacts DEF HandlerInv, IdsNotReused
  <2> QED BY <1>0, <2>1, <2>2 DEF HandlerInv, TypeOK
<1>s. S \in SUBSET Machines /\ S \subseteq DOMAIN req[t].body.state
  BY <1>0, <1>f, TaskFacts, PatchShape DEF Touched
<1>m. S # {} => frame'[t].machine = First(S)
  BY <1>0 DEF Chain, Call, HandlerInv, TypeOK
<1>e. S = Touched(req[t].body, db[k])
  BY <1>f
<1> HIDE DEF k, b, S
<1>1. /\ result' = result /\ todo'[t] = S
      /\ ((S = {} /\ pc'[t] = "persist") \/ (S # {} /\ pc'[t] = "sm_read"))
      /\ \A s \in Tasks \ {t} : pc'[s] = pc[s] /\ frame'[s] = frame[s] /\ todo'[s] = todo[s]
  BY <1>0, <1>s, ChainFacts
<1>2. existing'[t] = db[k] /\ target'[t] = k
  BY <1>0 DEF HandlerInv, TypeOK
<1>3. \A s \in Tasks \ {t} : Untouched(s)
  BY <1>0, <1>1 DEF HandlerInv, TypeOK, Untouched, Same
<1>4. /\ req' = req /\ landed' = landed /\ db' = db /\ lastId' = lastId /\ news' = news
      /\ entered' = entered /\ exited' = exited /\ pc[t] = "update"
  BY <1>0
<1> QED BY <1>1, <1>2, <1>3, <1>4, <1>e, <1>f, <1>m DEF k

-----------------------------------------------------------------------------
(* Births and deaths.  A pending announcement is about a row of its own,   *)
(* and nothing of it has been announced yet; an acknowledged delete has    *)
(* been announced.                                                         *)
BirthPending(t)  == pc[t] = "announce" /\ req[t].op = "create"
DeathPending(t)  == pc[t] = "announce" /\ req[t].op = "delete"
DeathAnswered(t) == pc[t] = "done" /\ result[t] = "ok" /\ req[t].op = "delete"

LifeOfRow(i) ==
    /\ news[i]["created"] <= 1 /\ news[i]["deleted"] <= 1
    /\ i > lastId => news[i]["created"] = 0 /\ news[i]["deleted"] = 0
    /\ news[i]["deleted"] = 1 => db[i] = NoRecord

LifeOfTask(t) ==
    /\ BirthPending(t) => target[t] \in Ids /\ target[t] <= lastId /\ news[target[t]]["created"] = 0
    /\ DeathPending(t) =>
         /\ target[t] \in Ids /\ target[t] <= lastId /\ db[target[t]] = NoRecord
         /\ news[target[t]]["deleted"] = 0
    /\ DeathAnswered(t) => target[t] \in Ids /\ news[target[t]]["deleted"] = 1

LifeApart(s, t) == target[s] = target[t] =>
    /\ ~ (BirthPending(s) /\ BirthPending(t))
    /\ ~ (DeathPending(s) /\ DeathPending(t))
    /\ ~ (DeathAnswered(s) /\ DeathAnswered(t))

LifeInv ==
    /\ \A i \in Ids : LifeOfRow(i)
    /\ \A t \in Tasks : LifeOfTask(t)
    /\ \A s, t \in Tasks : s # t => LifeApart(s, t)

(* A step that is about no birth and no death.                             *)
LifeQuiet(t) ==
    /\ \A s \in Tasks \ {t} : Untouched(s)
    /\ lastId' = lastId
    /\ \A i \in Ids : /\ db[i] = NoRecord => db'[i] = NoRecord
                      /\ news'[i]["created"] = news[i]["created"]
                      /\ news'[i]["deleted"] = news[i]["deleted"]
    /\ pc'[t] = "announce" => req'[t].op = "update"
    /\ pc'[t] = "done" /\ result'[t] = "ok" => req'[t].op # "delete"

LEMMA QuietKeepsLife ==
    ASSUME LifeInv, NEW t \in Tasks, LifeQuiet(t)
    PROVE  LifeInv'
<1>1. ASSUME NEW i \in Ids PROVE LifeOfRow(i)'
  BY DEF LifeInv, LifeOfRow, LifeQuiet
<1>2. ASSUME NEW s \in Tasks
      PROVE  /\ BirthPending(s)' => s # t /\ BirthPending(s)
             /\ DeathPending(s)' => s # t /\ DeathPending(s)
             /\ DeathAnswered(s)' => s # t /\ DeathAnswered(s)
             /\ s # t => target'[s] = target[s]
  BY DEF LifeQuiet, Untouched, Same, BirthPending, DeathPending, DeathAnswered
<1>3. ASSUME NEW s \in Tasks PROVE LifeOfTask(s)'
  <2>1. LifeOfTask(s)
    BY DEF LifeInv
  <2> QED BY <1>2, <2>1 DEF LifeOfTask, LifeQuiet
<1>4. ASSUME NEW s \in Tasks, NEW u \in Tasks, s # u PROVE LifeApart(s, u)'
  <2>1. LifeApart(s, u)
    BY <1>4 DEF LifeInv
  <2> QED BY <1>2, <2>1 DEF LifeApart
<1> QED BY <1>1, <1>3, <1>4 DEF LifeInv

(* The steps that answer, go on, write fields or move a state are quiet.   *)
LEMMA AnswerIsQuiet ==
    ASSUME HandlerInv, NEW t \in Tasks, NEW r, Answer(t, r), r = "ok" => req[t].op # "delete"
    PROVE  LifeQuiet(t)
<1>1. /\ \A s \in Tasks \ {t} : Untouched(s)
      /\ pc'[t] = "done" /\ result'[t] = r /\ req' = req
      /\ db' = db /\ lastId' = lastId /\ news' = news
  BY AnswerFacts
<1> QED BY <1>1 DEF LifeQuiet

LEMMA HandlerIsQuiet ==
    ASSUME HandlerInv, NEW t \in Tasks,
           \/ Arrive(t) \/ UpdateFound(t) \/ UpdateMissing(t) \/ Persist(t) \/ ReadBack(t)
           \/ DeleteChecked(t) \/ TransitionResolved(t)
           \/ TransitionJudged(t) /\ SMRead(t)
           \/ TransitionLands(t) /\ SMUpdateIf(t)
    PROVE  LifeQuiet(t)
<1> USE DEF LifeQuiet, Untouched, Same, Goto, storageVars, handlerVars, smVars, busVars
<1>1. CASE Arrive(t)
  <2>1. PICK r \in Requests :
          /\ req' = [req EXCEPT ![t] = r]
          /\ body' = [body EXCEPT ![t] = r.body]
          /\ caller' = [caller EXCEPT ![t] = r.user]
          /\ Goto(t, r.op)
          /\ UNCHANGED <<storageVars, target, smVars, news, existing, todo, landed>>
    BY <1>1 DEF Arrive
  <2>2. pc'[t] \in Ops
    BY <2>1, RequestAssumption DEF HandlerInv, TypeOK, Request
  <2> QED BY <2>1, <2>2 DEF HandlerInv, TypeOK, Ops
<1>2. CASE UpdateFound(t)
  BY <1>2, FoundMoves
<1>3. CASE UpdateMissing(t)
  BY <1>3 DEF UpdateMissing, HandlerInv, TypeOK
<1>4. CASE Persist(t)
  <2>1. /\ pc' = [pc EXCEPT ![t] = "announce"] /\ result' = result
        /\ target' = target /\ caller' = caller /\ req' = req /\ frame' = frame
        /\ news' = news /\ body' = body
        /\ existing' = existing /\ todo' = todo /\ landed' = landed
    BY <1>4 DEF Persist
  <2>2. /\ req[t].op = "update" /\ lastId' = lastId /\ db[target[t]] \in Record
        /\ db' = [db EXCEPT ![target[t]] = Patched(db[target[t]], body[t])]
    BY <1>4, PersistFacts
  <2>3. \A i \in Ids : db[i] = NoRecord => db'[i] = NoRecord
    BY <2>2, SentinelAssumption DEF HandlerInv, TypeOK
  <2> QED BY <2>1, <2>2, <2>3 DEF HandlerInv, TypeOK
<1>5. CASE ReadBack(t)
  <2>1. pc[t] # "idle" /\ Answer(t, "ok") /\ req[t].op # "delete"
    BY <1>5, TaskFacts DEF ReadBack, Locations, Ops
  <2> QED BY <2>1, AnswerIsQuiet
<1>6. CASE DeleteChecked(t)
  <2>1. CASE pc'[t] # "delete_row"
    BY <1>6, <2>1, AnswersAre, AnswerIsQuiet
  <2>2. CASE pc'[t] = "delete_row"
    <3>1. ~ Answer(t, "not_found")
      BY <2>2, AnswerFacts
    <3> QED BY <1>6, <2>2, <3>1 DEF DeleteChecked, HandlerInv, TypeOK
  <2> QED BY <2>1, <2>2
<1>7. CASE TransitionResolved(t)
  <2>1. CASE pc'[t] # "sm_read"
    BY <1>7, <2>1, AnswersAre, AnswerIsQuiet
  <2>2. CASE pc'[t] = "sm_read"
    <3>1. ~ Answer(t, "not_found")
      BY <2>2, AnswerFacts
    <3> QED BY <1>7, <2>2, <3>1 DEF TransitionResolved, HandlerInv, TypeOK
  <2> QED BY <2>1, <2>2
<1>8. CASE TransitionJudged(t) /\ SMRead(t)
  BY <1>8 DEF TransitionJudged, SMRead, localVars, HandlerInv, TypeOK
<1>9. CASE TransitionLands(t) /\ SMUpdateIf(t)
  <2>1. /\ pc' = [pc EXCEPT ![t] = "publish"] /\ result' = result
        /\ target' = target /\ caller' = caller /\ req' = req /\ frame' = frame
        /\ news' = news /\ body' = body /\ existing' = existing /\ todo' = todo
        /\ \A s \in Tasks \ {t} : landed'[s] = landed[s]
    BY <1>9 DEF TransitionLands, SMUpdateIf, localVars, TransitionLost, Finish, HandlerInv, TypeOK
  <2>2. /\ lastId' = lastId /\ db[target[t]] \in Record /\ target[t] \in Ids
        /\ db' = [db EXCEPT ![target[t]] = Patched(db[target[t]], TransitionPatch(frame[t]))]
    BY <1>9, LandsFacts
  <2>3. \A i \in Ids : db[i] = NoRecord => db'[i] = NoRecord
    BY <2>2, SentinelAssumption DEF HandlerInv, TypeOK
  <2> QED BY <2>1, <2>2, <2>3 DEF HandlerInv, TypeOK
<1> QED BY <1>1, <1>2, <1>3, <1>4, <1>5, <1>6, <1>7, <1>8, <1>9

(* Bumping one news counter.                                               *)
LEMMA NewsUp ==
    ASSUME HandlerInv, NEW j \in Ids, NEW k \in Kinds, news' = [news EXCEPT ![j][k] = @ + 1]
    PROVE  \A i \in Ids, l \in Kinds :
             news'[i][l] = IF i = j /\ l = k THEN news[i][l] + 1 ELSE news[i][l]
BY DEF HandlerInv, TypeOK

LEMMA PublishIsQuiet ==
    ASSUME HandlerInv, NEW t \in Tasks, SMPublish(t)
    PROVE  LifeQuiet(t)
<1>1. pc[t] = "publish" /\ target[t] \in Ids
  BY CallFacts DEF SMPublish, TransitionPublished
<1>2. news' = [news EXCEPT ![target[t]]["updated"] = @ + 1]
  BY DEF SMPublish, TransitionPublished
<1>3. \A i \in Ids, l \in Kinds :
        news'[i][l] = IF i = target[t] /\ l = "updated" THEN news[i][l] + 1 ELSE news[i][l]
  BY <1>1, <1>2, NewsUp DEF Kinds
<1>4. \A i \in Ids : /\ news'[i]["created"] = news[i]["created"]
                     /\ news'[i]["deleted"] = news[i]["deleted"]
  BY <1>3 DEF Kinds
<1> QED BY <1>4, PublishMoves DEF LifeQuiet

(* A create: the id is new, so nothing was announced of it.                *)
LEMMA CreateKeepsLife ==
    ASSUME HandlerInv, LifeInv, NEW t \in Tasks, CreateInsert(t)
    PROVE  LifeInv'
<1>1. /\ pc[t] = "create" /\ pc' = [pc EXCEPT ![t] = "announce"] /\ result' = result
      /\ target' = [target EXCEPT ![t] = lastId + 1]
      /\ req' = req /\ news' = news /\ req[t].op = "create"
      /\ lastId' = lastId + 1 /\ lastId + 1 \in Ids /\ lastId \in Nat
      /\ \A i \in Ids : i # lastId + 1 => db'[i] = db[i]
  <2>1. pc[t] = "create"
    BY DEF CreateInsert
  <2>2. req[t].op = "create" /\ lastId \in Nat /\ MaxId \in Nat
    BY <2>1, TaskFacts DEF Locations, Ops
  <2>3. /\ pc' = [pc EXCEPT ![t] = "announce"] /\ result' = result
        /\ target' = [target EXCEPT ![t] = lastId + 1]
        /\ req' = req /\ news' = news
        /\ lastId < MaxId /\ lastId' = lastId + 1
        /\ \E row : db' = [db EXCEPT ![lastId + 1] = row]
    BY DEF CreateInsert, StorageCreate, Goto, handlerVars
  <2> QED BY <2>1, <2>2, <2>3 DEF HandlerInv, TypeOK
<1>2. /\ pc'[t] = "announce" /\ target'[t] = lastId + 1
      /\ \A s \in Tasks \ {t} : pc'[s] = pc[s] /\ target'[s] = target[s]
  BY <1>1 DEF HandlerInv, TypeOK
<1>3. news[lastId + 1]["created"] = 0 /\ news[lastId + 1]["deleted"] = 0
  BY <1>1 DEF LifeInv, LifeOfRow
<1>4. ASSUME NEW i \in Ids PROVE LifeOfRow(i)'
  BY <1>1, <1>3 DEF LifeInv, LifeOfRow
<1>5. ASSUME NEW s \in Tasks
      PROVE  /\ BirthPending(s)' => s = t \/ BirthPending(s)
             /\ DeathPending(s)' => s # t /\ DeathPending(s)
             /\ DeathAnswered(s)' => s # t /\ DeathAnswered(s)
  BY <1>1, <1>2 DEF BirthPending, DeathPending, DeathAnswered
<1>6. \A s \in Tasks \ {t} : BirthPending(s) => target[s] # lastId + 1
  BY <1>1 DEF LifeInv, LifeOfTask
<1>7. ASSUME NEW s \in Tasks PROVE LifeOfTask(s)'
  <2>1. LifeOfTask(s)
    BY DEF LifeInv
  <2>2. CASE s = t
    BY <1>1, <1>2, <1>3, <1>5, <2>2 DEF LifeOfTask
  <2>3. CASE s # t
    <3>1. target[s] \in Ids /\ target[s] <= lastId =>
            target'[s] \in Ids /\ target'[s] <= lastId' /\ db'[target[s]] = db[target[s]]
      BY <1>1, <1>2, <2>3
    <3>2. target[s] \in Ids => news'[target'[s]] = news[target[s]]
      BY <1>1, <1>2, <2>3
    <3> QED BY <1>1, <1>2, <1>5, <2>1, <2>3, <3>1, <3>2 DEF LifeOfTask
  <2> QED BY <2>2, <2>3
<1>8. ASSUME NEW s \in Tasks, NEW u \in Tasks, s # u PROVE LifeApart(s, u)'
  <2>1. LifeApart(s, u) /\ LifeApart(u, s)
    BY <1>8 DEF LifeInv
  <2> QED BY <1>2, <1>5, <1>6, <1>8, <2>1 DEF LifeApart
<1> QED BY <1>4, <1>7, <1>8 DEF LifeInv

(* A delete takes a row that was there: no other delete of it can have     *)
(* taken place, and none has been announced.                               *)
LEMMA DeleteKeepsLife ==
    ASSUME HandlerInv, LifeInv, NEW t \in Tasks, DeleteRow(t)
    PROVE  LifeInv'
<1> DEFINE j == target[t]
<1>1. /\ pc[t] = "delete_row" /\ pc' = [pc EXCEPT ![t] = "announce"] /\ result' = result
      /\ db[j] # NoRecord /\ db' = [db EXCEPT ![j] = NoRecord] /\ lastId' = lastId
      /\ target' = target /\ req' = req /\ news' = news
  BY DEF DeleteRow, StorageDelete, Goto, handlerVars, smVars
<1>2. req[t].op = "delete" /\ j \in Ids /\ j <= lastId
  <2>1. req[t].op = "delete" /\ j \in Ids /\ lastId \in Nat
    BY <1>1, TaskFacts DEF Locations, Ops, RequestKept
  <2> QED BY <1>1, <2>1 DEF HandlerInv, IdsNotReused
<1>3. /\ pc'[t] = "announce" /\ db'[j] = NoRecord
      /\ \A s \in Tasks \ {t} : pc'[s] = pc[s]
      /\ \A i \in Ids : i # j => db'[i] = db[i]
  BY <1>1, <1>2 DEF HandlerInv, TypeOK
<1>4. news[j]["deleted"] = 0
  <2>1. news[j]["deleted"] \in Nat /\ news[j]["deleted"] <= 1 /\ news[j]["deleted"] # 1
    BY <1>1, <1>2 DEF LifeInv, LifeOfRow, HandlerInv, TypeOK, Kinds
  <2> QED BY <2>1
<1>5. ASSUME NEW i \in Ids PROVE LifeOfRow(i)'
  BY <1>1, <1>3 DEF LifeInv, LifeOfRow
<1>6. ASSUME NEW s \in Tasks
      PROVE  /\ BirthPending(s)' => s # t /\ BirthPending(s)
             /\ DeathPending(s)' => s = t \/ DeathPending(s)
             /\ DeathAnswered(s)' => s # t /\ DeathAnswered(s)
  BY <1>1, <1>2, <1>3 DEF BirthPending, DeathPending, DeathAnswered
<1>7. \A s \in Tasks \ {t} : DeathPending(s) => target[s] # j
  BY <1>1 DEF LifeInv, LifeOfTask
<1> HIDE DEF j
<1>8. ASSUME NEW s \in Tasks PROVE LifeOfTask(s)'
  <2>1. LifeOfTask(s)
    BY DEF LifeInv
  <2>2. CASE s = t
    BY <1>1, <1>2, <1>3, <1>4, <1>6, <2>2 DEF LifeOfTask, j
  <2>3. CASE s # t
    BY <1>1, <1>3, <1>6, <2>1, <2>3 DEF LifeOfTask
  <2> QED BY <2>2, <2>3
<1>9. ASSUME NEW s \in Tasks, NEW u \in Tasks, s # u PROVE LifeApart(s, u)'
  <2>1. LifeApart(s, u) /\ LifeApart(u, s)
    BY <1>9 DEF LifeInv
  <2> QED BY <1>1, <1>6, <1>7, <1>9, <2>1 DEF LifeApart, j
<1> QED BY <1>5, <1>8, <1>9 DEF LifeInv

(* An announcement, made or lost.                                          *)
LEMMA AnnounceKeepsLife ==
    ASSUME HandlerInv, LifeInv, NEW t \in Tasks, Announce(t)
    PROVE  LifeInv'
<1> DEFINE j == target[t]
           k == KindOf(req[t].op)
<1>1. /\ pc[t] = "announce" /\ pc' = [pc EXCEPT ![t] = "done"]
      /\ \/ news' = news /\ result' = [result EXCEPT ![t] = "error"]
         \/ /\ news' = [news EXCEPT ![j][k] = @ + 1]
            /\ \E r \in {"ok", "error"} : result' = [result EXCEPT ![t] = r]
      /\ db' = db /\ lastId' = lastId /\ target' = target /\ req' = req
  BY DEF Announce, Finish, storageVars, localVars, handlerVars, smVars
<1>2. /\ j \in Ids /\ req[t].op \in {"create", "update", "delete"}
      /\ k = (CASE req[t].op = "create" -> "created" [] req[t].op = "delete" -> "deleted"
                [] OTHER -> "updated")
  BY <1>1, TaskFacts DEF Locations, Ops, RequestKept, KindOf
<1>3. /\ pc'[t] = "done"
      /\ \A s \in Tasks \ {t} : pc'[s] = pc[s] /\ result'[s] = result[s]
  BY <1>1 DEF HandlerInv, TypeOK
<1>4. \A i \in Ids : news[i]["created"] \in Nat /\ news[i]["deleted"] \in Nat
  <2>1. "created" \in Kinds /\ "deleted" \in Kinds
    BY DEF Kinds
  <2>2. news \in [Ids -> [Kinds -> Nat]]
    BY DEF HandlerInv, TypeOK
  <2> QED BY <2>1, <2>2
<1>5. LifeOfTask(t)
  BY DEF LifeInv
<1>6. ASSUME NEW s \in Tasks
      PROVE  /\ BirthPending(s)' => s # t /\ BirthPending(s)
             /\ DeathPending(s)' => s # t /\ DeathPending(s)
             /\ DeathAnswered(s)' => s = t \/ DeathAnswered(s)
  BY <1>1, <1>3 DEF BirthPending, DeathPending, DeathAnswered
<1>7. \A s \in Tasks \ {t} :
        target[s] = j =>
          /\ DeathPending(t) => ~ DeathPending(s) /\ ~ DeathAnswered(s)
          /\ BirthPending(t) => ~ BirthPending(s)
  <2>1. ASSUME NEW s \in Tasks \ {t}, target[s] = j
        PROVE  /\ DeathPending(t) => ~ DeathPending(s) /\ ~ DeathAnswered(s)
               /\ BirthPending(t) => ~ BirthPending(s)
    <3>1. LifeApart(s, t) /\ LifeOfTask(s)
      BY DEF LifeInv
    <3> QED BY <2>1, <3>1, <1>5 DEF LifeApart, LifeOfTask
  <2> QED BY <2>1
<1>8. /\ BirthPending(t) <=> req[t].op = "create"
      /\ DeathPending(t) <=> req[t].op = "delete"
  BY <1>1 DEF BirthPending, DeathPending
<1>9. CASE news' = news /\ result' = [result EXCEPT ![t] = "error"]
  <2>1. result'[t] = "error"
    BY <1>9 DEF HandlerInv, TypeOK
  <2>3. ~ DeathAnswered(t)'
    BY <2>1 DEF DeathAnswered
  <2>4. ASSUME NEW i \in Ids PROVE LifeOfRow(i)'
    BY <1>1, <1>9 DEF LifeInv, LifeOfRow
  <2>5. ASSUME NEW s \in Tasks PROVE LifeOfTask(s)'
    <3>1. LifeOfTask(s)
      BY DEF LifeInv
    <3> QED BY <1>1, <1>6, <1>9, <2>3, <3>1 DEF LifeOfTask
  <2>6. ASSUME NEW s \in Tasks, NEW u \in Tasks, s # u PROVE LifeApart(s, u)'
    <3>1. LifeApart(s, u)
      BY <2>6 DEF LifeInv
    <3> QED BY <1>1, <1>6, <2>3, <3>1 DEF LifeApart
  <2> QED BY <2>4, <2>5, <2>6 DEF LifeInv
<1>10. CASE news' = [news EXCEPT ![j][k] = @ + 1]
  <2>1. \A i \in Ids, l \in Kinds :
          news'[i][l] = IF i = j /\ l = k THEN news[i][l] + 1 ELSE news[i][l]
    <3>1. k \in Kinds
      BY <1>2 DEF Kinds
    <3> QED BY <1>2, <1>10, <3>1, NewsUp
  <2>2. \A i \in Ids :
          /\ news'[i]["created"] = IF i = j /\ k = "created" THEN news[i]["created"] + 1
                                                             ELSE news[i]["created"]
          /\ news'[i]["deleted"] = IF i = j /\ k = "deleted" THEN news[i]["deleted"] + 1
                                                             ELSE news[i]["deleted"]
    BY <2>1 DEF Kinds
  <2>3. /\ k = "created" <=> BirthPending(t)
        /\ k = "deleted" <=> DeathPending(t)
    BY <1>2, <1>8
  <2> HIDE DEF j, k
  <2>4. ASSUME NEW i \in Ids PROVE LifeOfRow(i)'
    <3>1. LifeOfRow(i) /\ news[i]["created"] \in Nat /\ news[i]["deleted"] \in Nat
      BY <1>4 DEF LifeInv
    <3>2. CASE i = j
      <4>1. /\ BirthPending(t) => i <= lastId /\ news[i]["created"] = 0
            /\ DeathPending(t) => i <= lastId /\ news[i]["deleted"] = 0 /\ db[i] = NoRecord
        BY <1>5, <3>2 DEF LifeOfTask, j
      <4>2. lastId \in Nat /\ i \in Nat
        BY <1>1, TaskFacts
      <4> QED BY <1>1, <2>2, <2>3, <3>1, <3>2, <4>1, <4>2 DEF LifeOfRow
    <3>3. CASE i # j
      BY <1>1, <2>2, <3>1, <3>3 DEF LifeOfRow
    <3> QED BY <3>2, <3>3
  <2>5. ASSUME NEW s \in Tasks PROVE LifeOfTask(s)'
    <3>1. LifeOfTask(s)
      BY DEF LifeInv
    <3>2. CASE s = t
      <4>1. DeathAnswered(t)' => DeathPending(t) /\ target'[t] = j /\ news[j]["deleted"] = 0
        BY <1>1, <1>5, <1>8 DEF DeathAnswered, LifeOfTask, j
      <4> QED BY <1>2, <1>6, <2>2, <2>3, <3>2, <4>1 DEF LifeOfTask
    <3>3. CASE s # t
      <4>1. target[s] \in Ids /\ target[s] # j =>
              /\ news'[target[s]]["created"] = news[target[s]]["created"]
              /\ news'[target[s]]["deleted"] = news[target[s]]["deleted"]
        BY <2>2
      <4>2. target[s] = j /\ BirthPending(s) => news'[j]["created"] = news[j]["created"]
        BY <1>2, <1>7, <2>2, <2>3, <3>3
      <4>3. target[s] = j /\ (DeathPending(s) \/ DeathAnswered(s))
              => news'[j]["deleted"] = news[j]["deleted"]
        BY <1>2, <1>7, <2>2, <2>3, <3>3
      <4> QED BY <1>1, <1>6, <3>1, <3>3, <4>1, <4>2, <4>3 DEF LifeOfTask
    <3> QED BY <3>2, <3>3
  <2>6. ASSUME NEW s \in Tasks, NEW u \in Tasks, s # u PROVE LifeApart(s, u)'
    <3>1. LifeApart(s, u)
      BY <2>6 DEF LifeInv
    <3>2. DeathAnswered(t)' => DeathPending(t)
      BY <1>1, <1>8 DEF DeathAnswered
    <3> QED BY <1>1, <1>6, <1>7, <2>6, <3>1, <3>2 DEF LifeApart, j
  <2> QED BY <2>4, <2>5, <2>6 DEF LifeInv
<1> QED BY <1>1, <1>9, <1>10

LEMMA LifeStep == HandlerInv /\ LifeInv /\ [Next]_vars => LifeInv'
<1> SUFFICES ASSUME HandlerInv, LifeInv, [Next]_vars PROVE LifeInv'
  OBVIOUS
<1>1. ASSUME NEW t \in Tasks, Arrive(t) \/ Handle(t) PROVE LifeInv'
  <2>1. CASE CreateInsert(t)
    BY <2>1, CreateKeepsLife
  <2>2. CASE DeleteRow(t)
    BY <2>2, DeleteKeepsLife
  <2>3. CASE Announce(t)
    BY <2>3, AnnounceKeepsLife
  <2>4. CASE SMPublish(t)
    BY <2>4, PublishIsQuiet, QuietKeepsLife
  <2>5. CASE \/ CreateRefused(t) \/ UpdateRefused(t) \/ PersistRefused(t) \/ DeleteRefused(t)
             \/ SMRead(t) /\ ~ TransitionJudged(t)
             \/ SMUpdateIf(t) /\ ~ TransitionLands(t)
    BY <2>5, AnswersAre, AnswerIsQuiet, QuietKeepsLife
  <2>6. CASE \/ Arrive(t) \/ UpdateFound(t) \/ UpdateMissing(t) \/ Persist(t) \/ ReadBack(t)
             \/ DeleteChecked(t) \/ TransitionResolved(t)
             \/ TransitionJudged(t) /\ SMRead(t)
             \/ TransitionLands(t) /\ SMUpdateIf(t)
    BY <2>6, HandlerIsQuiet, QuietKeepsLife
  <2> QED BY <1>1, <2>1, <2>2, <2>3, <2>4, <2>5, <2>6 DEF Handle
<1>2. CASE UNCHANGED vars
  BY <1>2 DEF vars, LifeInv, LifeOfRow, LifeOfTask, LifeApart, BirthPending, DeathPending,
              DeathAnswered
<1> QED BY <1>1, <1>2 DEF Next, Done

LEMMA LifeInit == Init => LifeInv
<1> SUFFICES ASSUME Init PROVE LifeInv
  OBVIOUS
<1>1. /\ \A i \in Ids : news[i] = [k \in Kinds |-> 0]
      /\ \A t \in Tasks : pc[t] = "idle"
  BY DEF Init
<1>2. \A i \in Ids : news[i]["created"] = 0 /\ news[i]["deleted"] = 0
  BY <1>1 DEF Kinds
<1> QED BY <1>1, <1>2 DEF LifeInv, LifeOfRow, LifeOfTask, LifeApart, BirthPending, DeathPending,
                          DeathAnswered

(* A set without two different members has at most one.                    *)
LEMMA AtMostOne ==
    ASSUME NEW S, \A x, y \in S : x = y
    PROVE  Cardinality(S) \in {0, 1} /\ (S = {} => Cardinality(S) = 0)
<1>1. CASE S = {}
  BY <1>1, FS_EmptySet
<1>2. CASE S # {}
  <2>1. PICK x : S = {x}
    BY <1>2
  <2> QED BY <1>2, <2>1, FS_Singleton
<1> QED BY <1>1, <1>2

LEMMA LifeHolds == HandlerInv /\ LifeInv => LifeEventsOnce
<1> SUFFICES ASSUME HandlerInv, LifeInv, NEW i \in Ids
             PROVE  /\ news[i]["created"] <= 1 /\ news[i]["deleted"] <= 1
                    /\ news[i]["deleted"] = 1 => db[i] = NoRecord /\ i <= lastId
                    /\ Cardinality({t \in Tasks : /\ pc[t] = "done" /\ result[t] = "ok"
                                                  /\ req[t].op = "delete" /\ target[t] = i})
                         <= news[i]["deleted"]
  BY DEF LifeEventsOnce
<1> DEFINE S == {t \in Tasks : /\ pc[t] = "done" /\ result[t] = "ok"
                               /\ req[t].op = "delete" /\ target[t] = i}
<1>1. LifeOfRow(i)
  BY DEF LifeInv
<1>2. news[i]["deleted"] \in Nat
  <2>1. "deleted" \in Kinds
    BY DEF Kinds
  <2>2. news \in [Ids -> [Kinds -> Nat]]
    BY DEF HandlerInv, TypeOK
  <2> QED BY <2>1, <2>2
<1>3. news[i]["deleted"] = 1 => i <= lastId
  BY <1>1, SizeAssumption DEF LifeOfRow, HandlerInv, TypeOK
<1>4. \A t \in S : DeathAnswered(t) /\ news[i]["deleted"] = 1
  BY DEF DeathAnswered, LifeInv, LifeOfTask
<1>5. \A s, t \in S : s = t
  BY <1>4 DEF LifeInv, LifeApart
<1>6. Cardinality(S) \in {0, 1} /\ (S = {} => Cardinality(S) = 0)
  BY <1>5, AtMostOne
<1>7. Cardinality(S) <= news[i]["deleted"]
  <2>1. S = {} \/ news[i]["deleted"] = 1
    BY <1>4
  <2> HIDE DEF S
  <2> QED BY <1>2, <1>6, <2>1
<1> QED BY <1>1, <1>3, <1>7 DEF LifeOfRow

(* Over any number of racing creates and deletes a row's birth and death   *)
(* are announced once at most, a death only of a row that is gone for      *)
(* good, and no two deletes of a row are acknowledged.                     *)
THEOREM LifeIsAnnouncedOnce ==
    ASSUME SafeKeys
    PROVE  Spec => []LifeEventsOnce
<1>1. Init => LifeInv
  BY LifeInit
<1>2. HandlerInv /\ LifeInv /\ [Next]_vars => LifeInv'
  BY LifeStep
<1>3. HandlerInv /\ LifeInv => LifeEventsOnce
  BY LifeHolds
<1>4. Spec => []HandlerInv
  BY HandlersGrounded
<1> QED BY <1>1, <1>2, <1>3, <1>4, PTL DEF Spec

-----------------------------------------------------------------------------
(* The chain of a PUT.  What has landed, what is still to do and where the *)
(* handler is fit together: before a landing the machine at hand is the    *)
(* first of those to do, after it the machine is among the landed ones.    *)
Wanted(t) == Touched(req[t].body, existing[t])

ChainOf(t) ==
    /\ landed[t] \subseteq Wanted(t)
    /\ todo[t] \subseteq Wanted(t)
    /\ \A m \in landed[t], n \in Wanted(t) : n < m => n \in landed[t]
    /\ pc[t] \in {"sm_read", "cas", "publish"} =>
         todo[t] # {} /\ frame[t].machine = First(todo[t])
    /\ pc[t] \in {"sm_read", "cas"} => landed[t] = Wanted(t) \ todo[t]
    /\ pc[t] = "publish" => landed[t] = (Wanted(t) \ todo[t]) \union {frame[t].machine}
    /\ pc[t] \in {"persist", "announce"} \/ result[t] = "ok" => landed[t] = Wanted(t)

ChainOfTask(t) ==
    /\ pc[t] # "done" => result[t] = NoResult
    /\ pc[t] \in {"idle", "update"} => landed[t] = {}
    /\ pc[t] # "idle" /\ req[t].op = "update" /\ existing[t] # NoRecord => ChainOf(t)

ChainInv == \A t \in Tasks : ChainOfTask(t)

(* Another task's step leaves a chain alone.                               *)
LEMMA ChainElsewhere ==
    ASSUME ChainInv, NEW t \in Tasks, \A s \in Tasks \ {t} : Untouched(s), ChainOfTask(t)'
    PROVE  ChainInv'
<1>1. ASSUME NEW s \in Tasks \ {t} PROVE ChainOfTask(s)'
  <2>1. ChainOfTask(s)
    BY DEF ChainInv
  <2>2. /\ pc'[s] = pc[s] /\ frame'[s] = frame[s] /\ req'[s] = req[s]
        /\ existing'[s] = existing[s] /\ todo'[s] = todo[s]
        /\ result'[s] = result[s] /\ landed'[s] = landed[s]
    BY DEF Untouched, Same
  <2> QED BY <2>1, <2>2 DEF ChainOfTask, ChainOf, Wanted
<1> QED BY <1>1 DEF ChainInv

(* The machines a PUT touches.                                             *)
LEMMA WantedMachines ==
    ASSUME HandlerInv, NEW t \in Tasks, pc[t] # "idle", existing[t] # NoRecord
    PROVE  Wanted(t) \subseteq Machines
BY TaskFacts, PatchShape DEF Wanted, Touched

(* A refusal keeps what has landed; an acknowledgement from the persist    *)
(* step comes after all of it.                                             *)
LEMMA AnswerKeepsChain ==
    ASSUME HandlerInv, ChainInv, NEW t \in Tasks, pc[t] # "idle", NEW r, Answer(t, r),
           r = "ok" => pc[t] = "persist"
    PROVE  ChainInv'
<1>1. /\ \A s \in Tasks \ {t} : Untouched(s)
      /\ pc'[t] = "done" /\ result'[t] = r /\ req' = req /\ frame' = frame
      /\ existing' = existing /\ todo' = todo /\ landed' = landed
  BY AnswerFacts
<1>2. ChainOfTask(t)
  BY DEF ChainInv
<1>3. ChainOfTask(t)'
  BY <1>1, <1>2 DEF ChainOfTask, ChainOf, Wanted
<1> QED BY <1>1, <1>3, ChainElsewhere

(* The chain begins with everything to do, or is empty.                    *)
LEMMA FoundBeginsChain ==
    ASSUME HandlerInv, ChainInv, NEW t \in Tasks, UpdateFound(t)
    PROVE  ChainInv'
<1>1. /\ \A s \in Tasks \ {t} : Untouched(s)
      /\ pc[t] = "update" /\ req' = req /\ landed' = landed /\ result' = result
      /\ todo'[t] = Touched(req[t].body, existing'[t])
      /\ \/ todo'[t] = {} /\ pc'[t] = "persist"
         \/ todo'[t] # {} /\ pc'[t] = "sm_read" /\ frame'[t].machine = First(todo'[t])
  BY FoundMoves
<1>2. landed[t] = {} /\ result[t] = NoResult
  BY <1>1 DEF ChainInv, ChainOfTask
<1>3. ChainOf(t)'
  BY <1>1, <1>2 DEF ChainOf, Wanted, NoResult
<1>4. ChainOfTask(t)'
  BY <1>1, <1>2, <1>3 DEF ChainOfTask
<1> QED BY <1>1, <1>4, ChainElsewhere

(* The first machine to do lands.                                          *)
LEMMA LandingExtendsChain ==
    ASSUME HandlerInv, ChainInv, NEW t \in Tasks, TransitionLands(t), SMUpdateIf(t)
    PROVE  ChainInv'
<1>1. /\ pc[t] = "cas" /\ pc' = [pc EXCEPT ![t] = "publish"] /\ result' = result
      /\ target' = target /\ caller' = caller /\ req' = req /\ frame' = frame
      /\ body' = body /\ existing' = existing /\ todo' = todo
      /\ landed' = [landed EXCEPT ![t] = @ \union {frame[t].machine}]
  <2>1. pc' = [pc EXCEPT ![t] = "publish"] /\ result' = result /\ frame' = frame /\ pc[t] = "cas"
    BY DEF TransitionLands, Goto, smVars
  <2>2. ~ TransitionLost(t)
    BY <2>1 DEF TransitionLost, Finish, HandlerInv, TypeOK
  <2> QED BY <2>1, <2>2 DEF SMUpdateIf, localVars, handlerVars
<1>2. /\ \A s \in Tasks \ {t} : Untouched(s)
      /\ pc'[t] = "publish" /\ landed'[t] = landed[t] \union {frame[t].machine}
  BY <1>1 DEF HandlerInv, TypeOK, Untouched, Same
<1>3. ChainOfTask(t) /\ todo[t] \in SUBSET Machines
  BY DEF ChainInv, HandlerInv, TypeOK
<1>4. CASE req[t].op = "update" /\ existing[t] # NoRecord
  <2> DEFINE m == frame[t].machine
  <2>1. ChainOf(t) /\ result[t] = NoResult
    BY <1>1, <1>3, <1>4 DEF ChainOfTask
  <2>2. /\ todo[t] # {} /\ m = First(todo[t]) /\ landed[t] = Wanted(t) \ todo[t]
        /\ todo[t] \subseteq Wanted(t)
    BY <1>1, <2>1 DEF ChainOf
  <2>3. m \in todo[t] /\ \A n \in todo[t] : m <= n
    BY <1>3, <2>2, FirstOfMachines
  <2>4. Wanted(t) \subseteq Machines
    BY <1>1, <1>4, WantedMachines
  <2>5. \A n \in Wanted(t) : n < m => n \in landed[t]
    BY <2>2, <2>3, <2>4
  <2>6. Wanted(t)' = Wanted(t)
    BY <1>1 DEF Wanted
  <2>7. ChainOf(t)'
    BY <1>1, <1>2, <2>1, <2>2, <2>3, <2>5, <2>6 DEF ChainOf, NoResult
  <2> QED BY <1>1, <1>2, <2>1, <2>7, ChainElsewhere DEF ChainOfTask
<1>5. CASE ~ (req[t].op = "update" /\ existing[t] # NoRecord)
  BY <1>1, <1>2, <1>3, <1>5, ChainElsewhere DEF ChainOfTask
<1> QED BY <1>4, <1>5

(* Its events are out: the next one, or the persist step when all have     *)
(* landed.                                                                 *)
LEMMA PublishGoesOnInChain ==
    ASSUME HandlerInv, ChainInv, NEW t \in Tasks, SMPublish(t)
    PROVE  ChainInv'
<1>0. pc[t] = "publish"
  BY DEF SMPublish, TransitionPublished
<1>1. /\ \A s \in Tasks \ {t} : Untouched(s)
      /\ req' = req /\ existing' = existing /\ landed' = landed
  BY PublishMoves
<1>2. ChainOfTask(t) /\ todo[t] \in SUBSET Machines
  BY DEF ChainInv, HandlerInv, TypeOK
<1>3. CASE req[t].op = "transition" /\ pc'[t] = "done"
  BY <1>1, <1>3, ChainElsewhere DEF ChainOfTask
<1>4. CASE /\ req[t].op = "update" /\ existing[t] # NoRecord /\ result'[t] = result[t]
           /\ todo'[t] = todo[t] \ {frame[t].machine}
           /\ \/ todo'[t] = {} /\ pc'[t] = "persist"
              \/ todo'[t] # {} /\ pc'[t] = "sm_read" /\ frame'[t].machine = First(todo'[t])
  <2>1. ChainOf(t) /\ result[t] = NoResult
    BY <1>0, <1>2, <1>4 DEF ChainOfTask
  <2>2. /\ todo[t] # {} /\ frame[t].machine = First(todo[t])
        /\ landed[t] = (Wanted(t) \ todo[t]) \union {frame[t].machine}
        /\ landed[t] \subseteq Wanted(t) /\ todo[t] \subseteq Wanted(t)
    BY <1>0, <2>1 DEF ChainOf
  <2>3. landed[t] = Wanted(t) \ todo'[t]
    BY <1>4, <2>2
  <2>4. Wanted(t)' = Wanted(t)
    BY <1>1 DEF Wanted
  <2>5. ChainOf(t)'
    BY <1>1, <1>4, <2>1, <2>2, <2>3, <2>4 DEF ChainOf, NoResult
  <2> QED BY <1>1, <1>4, <2>1, <2>5, ChainElsewhere DEF ChainOfTask
<1> QED BY <1>3, <1>4, PublishMoves

(* Steps of a PUT that stay in the chain, and steps outside any chain.     *)
LEMMA OthersKeepChain ==
    ASSUME HandlerInv, ChainInv, NEW t \in Tasks,
           \/ Arrive(t) \/ CreateInsert(t) \/ UpdateMissing(t) \/ Persist(t)
           \/ (DeleteChecked(t) /\ pc'[t] = "delete_row") \/ DeleteRow(t)
           \/ TransitionResolved(t) /\ pc'[t] = "sm_read"
           \/ (TransitionJudged(t) /\ SMRead(t)) \/ Announce(t)
    PROVE  ChainInv'
<1> USE DEF Untouched, Same, Goto, handlerVars
<1>t. ChainOfTask(t)
  BY DEF ChainInv
<1>1. CASE Arrive(t)
  <2>1. PICK r \in Requests :
          /\ pc[t] = "idle"
          /\ req' = [req EXCEPT ![t] = r]
          /\ body' = [body EXCEPT ![t] = r.body]
          /\ caller' = [caller EXCEPT ![t] = r.user]
          /\ Goto(t, r.op)
          /\ UNCHANGED <<storageVars, target, smVars, news, existing, todo, landed>>
    BY <1>1 DEF Arrive
  <2>2. /\ pc'[t] \in Ops /\ existing'[t] = NoRecord /\ result'[t] = NoResult /\ landed'[t] = {}
    BY <2>1, <1>t, RequestAssumption DEF HandlerInv, TypeOK, Request, ChainOfTask
  <2>3. \A s \in Tasks \ {t} : Untouched(s)
    BY <2>1 DEF HandlerInv, TypeOK, smVars
  <2>4. ChainOfTask(t)'
    BY <2>2 DEF ChainOfTask
  <2> QED BY <2>3, <2>4, ChainElsewhere
<1>2. CASE CreateInsert(t) \/ DeleteRow(t) \/ (DeleteChecked(t) /\ pc'[t] = "delete_row")
  <2>1. /\ pc'[t] \in {"announce", "delete_row"} /\ pc[t] \in {"create", "delete", "delete_row"}
        /\ \A s \in Tasks \ {t} : pc'[s] = pc[s] /\ target'[s] = target[s]
        /\ caller' = caller /\ req' = req /\ frame' = frame /\ body' = body /\ result' = result
        /\ existing' = existing /\ todo' = todo /\ landed' = landed
    <3>1. CASE CreateInsert(t)
      BY <3>1 DEF CreateInsert, smVars, HandlerInv, TypeOK
    <3>2. CASE DeleteRow(t)
      BY <3>2 DEF DeleteRow, smVars, HandlerInv, TypeOK
    <3>3. CASE DeleteChecked(t) /\ pc'[t] = "delete_row"
      <4>1. ~ Answer(t, "not_found")
        BY <3>3, AnswerFacts
      <4> QED BY <3>3, <4>1 DEF DeleteChecked, smVars, HandlerInv, TypeOK
    <3> QED BY <1>2, <3>1, <3>2, <3>3
  <2>2. req[t].op # "update" /\ result[t] = NoResult
    BY <2>1, <1>t, TaskFacts DEF Locations, Ops, ChainOfTask
  <2>3. ChainOfTask(t)'
    BY <2>1, <2>2 DEF ChainOfTask
  <2> QED BY <2>1, <2>3, ChainElsewhere
<1>3. CASE UpdateMissing(t)
  <2>1. /\ pc[t] = "update" /\ pc'[t] = "persist"
        /\ \A s \in Tasks \ {t} : pc'[s] = pc[s] /\ target'[s] = target[s] /\ body'[s] = body[s]
        /\ caller' = caller /\ req' = req /\ frame' = frame /\ result' = result
        /\ existing' = existing /\ todo' = todo /\ landed' = landed
    BY <1>3 DEF UpdateMissing, smVars, HandlerInv, TypeOK
  <2>2. existing[t] = NoRecord /\ result[t] = NoResult
    BY <2>1, <1>t, TaskFacts DEF Grounded, ChainOfTask
  <2>3. ChainOfTask(t)'
    BY <2>1, <2>2 DEF ChainOfTask
  <2> QED BY <2>1, <2>3, ChainElsewhere
<1>4. CASE Persist(t)
  <2>1. /\ pc[t] = "persist" /\ pc'[t] = "announce"
        /\ \A s \in Tasks \ {t} : pc'[s] = pc[s]
        /\ target' = target /\ caller' = caller /\ req' = req /\ frame' = frame
        /\ body' = body /\ result' = result
        /\ existing' = existing /\ todo' = todo /\ landed' = landed
    BY <1>4 DEF Persist, smVars, HandlerInv, TypeOK
  <2>2. ChainOfTask(t)'
    BY <2>1, <1>t DEF ChainOfTask, ChainOf, Wanted, NoResult
  <2> QED BY <2>1, <2>2, ChainElsewhere
<1>5. CASE TransitionResolved(t) /\ pc'[t] = "sm_read"
  <2>1. ~ Answer(t, "not_found")
    BY <1>5, AnswerFacts
  <2>2. /\ pc[t] = "transition"
        /\ \A s \in Tasks \ {t} : pc'[s] = pc[s] /\ target'[s] = target[s] /\ frame'[s] = frame[s]
        /\ caller' = caller /\ req' = req /\ body' = body /\ result' = result
        /\ existing' = existing /\ todo' = todo /\ landed' = landed
    BY <1>5, <2>1 DEF TransitionResolved, HandlerInv, TypeOK
  <2>3. req[t].op # "update" /\ result[t] = NoResult
    BY <2>2, <1>t, TaskFacts DEF Locations, Ops, ChainOfTask
  <2>4. ChainOfTask(t)'
    BY <1>5, <2>2, <2>3 DEF ChainOfTask
  <2> QED BY <2>2, <2>4, ChainElsewhere
<1>6. CASE TransitionJudged(t) /\ SMRead(t)
  <2>1. /\ pc[t] = "sm_read" /\ pc'[t] = "cas" /\ frame'[t].machine = frame[t].machine
        /\ \A s \in Tasks \ {t} : pc'[s] = pc[s] /\ frame'[s] = frame[s]
        /\ target' = target /\ caller' = caller /\ req' = req /\ body' = body /\ result' = result
        /\ existing' = existing /\ todo' = todo /\ landed' = landed
    BY <1>6 DEF TransitionJudged, SMRead, localVars, HandlerInv, TypeOK, Frame
  <2>2. ChainOfTask(t)'
    BY <2>1, <1>t DEF ChainOfTask, ChainOf, Wanted
  <2> QED BY <2>1, <2>2, ChainElsewhere
<1>7. CASE Announce(t)
  <2>1. /\ pc[t] = "announce" /\ pc'[t] = "done"
        /\ \A s \in Tasks \ {t} : pc'[s] = pc[s] /\ result'[s] = result[s]
        /\ target' = target /\ caller' = caller /\ req' = req /\ frame' = frame /\ body' = body
        /\ existing' = existing /\ todo' = todo /\ landed' = landed
    BY <1>7 DEF Announce, Finish, localVars, smVars, HandlerInv, TypeOK
  <2>2. ChainOfTask(t)'
    BY <2>1, <1>t DEF ChainOfTask, ChainOf, Wanted
  <2> QED BY <2>1, <2>2, ChainElsewhere
<1> QED BY <1>1, <1>2, <1>3, <1>4, <1>5, <1>6, <1>7

LEMMA ChainStep == HandlerInv /\ ChainInv /\ [Next]_vars => ChainInv'
<1> SUFFICES ASSUME HandlerInv, ChainInv, [Next]_vars PROVE ChainInv'
  OBVIOUS
<1>1. ASSUME NEW t \in Tasks, Arrive(t) \/ Handle(t) PROVE ChainInv'
  <2>1. CASE \/ CreateRefused(t) \/ UpdateRefused(t) \/ PersistRefused(t) \/ DeleteRefused(t)
             \/ DeleteChecked(t) /\ pc'[t] # "delete_row"
             \/ TransitionResolved(t) /\ pc'[t] # "sm_read"
             \/ SMRead(t) /\ ~ TransitionJudged(t)
             \/ SMUpdateIf(t) /\ ~ TransitionLands(t)
    BY <2>1, AnswersAre, AnswerKeepsChain
  <2>2. CASE ReadBack(t)
    <3>1. pc[t] = "persist" /\ Answer(t, "ok")
      BY <2>2 DEF ReadBack
    <3> QED BY <3>1, AnswerKeepsChain
  <2>3. CASE UpdateFound(t)
    BY <2>3, FoundBeginsChain
  <2>4. CASE TransitionLands(t) /\ SMUpdateIf(t)
    BY <2>4, LandingExtendsChain
  <2>5. CASE SMPublish(t)
    BY <2>5, PublishGoesOnInChain
  <2>6. CASE \/ Arrive(t) \/ CreateInsert(t) \/ UpdateMissing(t) \/ Persist(t)
             \/ (DeleteChecked(t) /\ pc'[t] = "delete_row") \/ DeleteRow(t)
             \/ TransitionResolved(t) /\ pc'[t] = "sm_read"
             \/ (TransitionJudged(t) /\ SMRead(t)) \/ Announce(t)
    BY <2>6, OthersKeepChain
  <2> QED BY <1>1, <2>1, <2>2, <2>3, <2>4, <2>5, <2>6 DEF Handle
<1>2. CASE UNCHANGED vars
  BY <1>2 DEF vars, ChainInv, ChainOfTask, ChainOf, Wanted
<1> QED BY <1>1, <1>2 DEF Next, Done

LEMMA ChainInit == Init => ChainInv
BY DEF Init, ChainInv, ChainOfTask

LEMMA ChainHolds == ChainInv => ChainInIROrder
<1> SUFFICES ASSUME ChainInv, NEW t \in Tasks,
                    pc[t] # "idle" /\ req[t].op = "update" /\ existing[t] # NoRecord
             PROVE  /\ landed[t] \subseteq Wanted(t)
                    /\ \A m \in landed[t], n \in Wanted(t) : n < m => n \in landed[t]
                    /\ pc[t] = "announce" \/ result[t] = "ok" => landed[t] = Wanted(t)
  BY DEF ChainInIROrder, Wanted
<1> QED BY DEF ChainInv, ChainOfTask, ChainOf

(* However many machines a PUT touches and whoever interferes: they land   *)
(* in IR order, nothing lands after a failure, and the fields are written  *)
(* and the request acknowledged only when all of them have.                *)
THEOREM ChainsLandInOrder ==
    ASSUME SafeKeys
    PROVE  Spec => []ChainInIROrder
<1>1. Init => ChainInv
  BY ChainInit
<1>2. HandlerInv /\ ChainInv /\ [Next]_vars => ChainInv'
  BY ChainStep
<1>3. ChainInv => ChainInIROrder
  BY ChainHolds
<1>4. Spec => []HandlerInv
  BY HandlersGrounded
<1> QED BY <1>1, <1>2, <1>3, <1>4, PTL DEF Spec

-----------------------------------------------------------------------------
(* Transition events.  Per row, machine and state the events published or  *)
(* about to be balance the state of the row; of a row that does not exist  *)
(* yet there are none.                                                     *)
Balanced(i, m, s) ==
    entered[i][m][s] + Arriving(i, m, s) + Count(Initial[m] = s)
      = exited[i][m][s] + Departing(i, m, s) + Count(db[i].state[m] = s)

EventsInv ==
    /\ \A i \in Ids, m \in Machines, s \in States : db[i] # NoRecord => Balanced(i, m, s)
    /\ \A i \in Ids, m \in Machines, s \in States :
         i > lastId => entered[i][m][s] = 0 /\ exited[i][m][s] = 0
    /\ \A t \in Tasks : pc[t] \in {"sm_read", "cas", "publish"} => target[t] <= lastId

(* The numbers are numbers.                                                *)
LEMMA TalliesAreNumbers ==
    ASSUME NEW i, NEW m, NEW s
    PROVE  /\ Arriving(i, m, s) \in Nat /\ Departing(i, m, s) \in Nat
           /\ Arriving(i, m, s)' \in Nat /\ Departing(i, m, s)' \in Nat
<1> DEFINE A == {t \in Tasks : pc[t] = "publish" /\ target[t] = i
                               /\ frame[t].machine = m /\ frame[t].to = s}
           D == {t \in Tasks : pc[t] = "publish" /\ target[t] = i
                               /\ frame[t].machine = m /\ frame[t].from = s}
<1>1. ASSUME NEW S \in SUBSET Tasks PROVE Cardinality(S) \in Nat
  BY TaskAssumption, FS_Subset, FS_CardinalityType
<1>2. A \in SUBSET Tasks /\ D \in SUBSET Tasks /\ A' \in SUBSET Tasks /\ D' \in SUBSET Tasks
  OBVIOUS
<1>3. /\ Arriving(i, m, s) = Cardinality(A) /\ Arriving(i, m, s)' = Cardinality(A')
      /\ Departing(i, m, s) = Cardinality(D) /\ Departing(i, m, s)' = Cardinality(D')
  BY DEF Arriving, Departing
<1> HIDE DEF A, D
<1> QED BY <1>1, <1>2, <1>3

LEMMA EventsAreNumbers ==
    ASSUME HandlerInv, NEW i \in Ids, NEW m \in Machines, NEW s \in States
    PROVE  entered[i][m][s] \in Nat /\ exited[i][m][s] \in Nat
<1>1. /\ entered \in [Ids -> [Machines -> [States -> Nat]]]
      /\ exited \in [Ids -> [Machines -> [States -> Nat]]]
  BY DEF HandlerInv, TypeOK
<1>2. /\ entered[i] \in [Machines -> [States -> Nat]]
      /\ exited[i] \in [Machines -> [States -> Nat]]
  BY <1>1
<1> QED BY <1>2

(* A step that neither begins nor ends a publication.                      *)
LEMMA SamePublications ==
    ASSUME NEW t \in Tasks, \A s \in Tasks \ {t} : Untouched(s),
           pc[t] # "publish", pc'[t] # "publish", NEW i, NEW m, NEW s
    PROVE  Arriving(i, m, s)' = Arriving(i, m, s) /\ Departing(i, m, s)' = Departing(i, m, s)
<1>1. \A u \in Tasks :
        (pc'[u] = "publish" <=> pc[u] = "publish")
        /\ (pc[u] = "publish" => target'[u] = target[u] /\ frame'[u] = frame[u])
  BY DEF Untouched, Same
<1>2. {u \in Tasks : pc'[u] = "publish" /\ target'[u] = i
                     /\ frame'[u].machine = m /\ frame'[u].to = s}
        = {u \in Tasks : pc[u] = "publish" /\ target[u] = i
                         /\ frame[u].machine = m /\ frame[u].to = s}
  BY <1>1
<1>3. {u \in Tasks : pc'[u] = "publish" /\ target'[u] = i
                     /\ frame'[u].machine = m /\ frame'[u].from = s}
        = {u \in Tasks : pc[u] = "publish" /\ target[u] = i
                         /\ frame[u].machine = m /\ frame[u].from = s}
  BY <1>1
<1> QED BY <1>2, <1>3 DEF Arriving, Departing

(* A step that begins or ends one.                                         *)
LEMMA OnePublication ==
    ASSUME NEW t \in Tasks, \A s \in Tasks \ {t} : Untouched(s),
           pc[t] # "publish", pc'[t] = "publish",
           target'[t] = target[t], frame'[t] = frame[t], NEW i, NEW m, NEW s
    PROVE  /\ Arriving(i, m, s)' = Arriving(i, m, s)
                + Count(target[t] = i /\ frame[t].machine = m /\ frame[t].to = s)
           /\ Departing(i, m, s)' = Departing(i, m, s)
                + Count(target[t] = i /\ frame[t].machine = m /\ frame[t].from = s)
<1> DEFINE A == {u \in Tasks : pc[u] = "publish" /\ target[u] = i
                               /\ frame[u].machine = m /\ frame[u].to = s}
           D == {u \in Tasks : pc[u] = "publish" /\ target[u] = i
                               /\ frame[u].machine = m /\ frame[u].from = s}
           hereA == target[t] = i /\ frame[t].machine = m /\ frame[t].to = s
           hereD == target[t] = i /\ frame[t].machine = m /\ frame[t].from = s
<1>1. \A u \in Tasks \ {t} :
        pc'[u] = pc[u] /\ target'[u] = target[u] /\ frame'[u] = frame[u]
  BY DEF Untouched, Same
<1>2. A' = IF hereA THEN A \union {t} ELSE A
  BY <1>1
<1>3. D' = IF hereD THEN D \union {t} ELSE D
  BY <1>1
<1>4. t \notin A /\ t \notin D
  OBVIOUS
<1>5. IsFiniteSet(A) /\ IsFiniteSet(D)
  <2>1. A \in SUBSET Tasks /\ D \in SUBSET Tasks
    OBVIOUS
  <2> QED BY <2>1, TaskAssumption, FS_Subset
<1>6. Cardinality(A) \in Nat /\ Cardinality(D) \in Nat
  BY <1>5, FS_CardinalityType
<1>7. /\ Cardinality(A \union {t}) = Cardinality(A) + 1
      /\ Cardinality(D \union {t}) = Cardinality(D) + 1
  BY <1>4, <1>5, FS_AddElement
<1>8. /\ Arriving(i, m, s) = Cardinality(A) /\ Arriving(i, m, s)' = Cardinality(A')
      /\ Departing(i, m, s) = Cardinality(D) /\ Departing(i, m, s)' = Cardinality(D')
  BY DEF Arriving, Departing
<1>9. /\ Count(hereA) = (IF hereA THEN 1 ELSE 0)
      /\ Count(hereD) = (IF hereD THEN 1 ELSE 0)
  BY DEF Count
<1> HIDE DEF A, D, hereA, hereD
<1>10. Cardinality(A') = Cardinality(A) + Count(hereA)
  BY <1>2, <1>6, <1>7, <1>9
<1>11. Cardinality(D') = Cardinality(D) + Count(hereD)
  BY <1>3, <1>6, <1>7, <1>9
<1> QED BY <1>8, <1>10, <1>11 DEF hereA, hereD

LEMMA PublicationEnds ==
    ASSUME NEW t \in Tasks, \A s \in Tasks \ {t} : Untouched(s),
           pc[t] = "publish", pc'[t] # "publish", NEW i, NEW m, NEW s
    PROVE  /\ Arriving(i, m, s)
                = Arriving(i, m, s)' + Count(target[t] = i /\ frame[t].machine = m /\ frame[t].to = s)
           /\ Departing(i, m, s)
                = Departing(i, m, s)' + Count(target[t] = i /\ frame[t].machine = m /\ frame[t].from = s)
<1> DEFINE A == {u \in Tasks : pc[u] = "publish" /\ target[u] = i
                               /\ frame[u].machine = m /\ frame[u].to = s}
           D == {u \in Tasks : pc[u] = "publish" /\ target[u] = i
                               /\ frame[u].machine = m /\ frame[u].from = s}
           hereA == target[t] = i /\ frame[t].machine = m /\ frame[t].to = s
           hereD == target[t] = i /\ frame[t].machine = m /\ frame[t].from = s
<1>1. \A u \in Tasks \ {t} :
        pc'[u] = pc[u] /\ target'[u] = target[u] /\ frame'[u] = frame[u]
  BY DEF Untouched, Same
<1>2. A = IF hereA THEN A' \union {t} ELSE A'
  BY <1>1
<1>3. D = IF hereD THEN D' \union {t} ELSE D'
  BY <1>1
<1>4. t \notin A' /\ t \notin D'
  OBVIOUS
<1>5. IsFiniteSet(A') /\ IsFiniteSet(D')
  <2>1. A' \in SUBSET Tasks /\ D' \in SUBSET Tasks
    OBVIOUS
  <2> QED BY <2>1, TaskAssumption, FS_Subset
<1>6. Cardinality(A') \in Nat /\ Cardinality(D') \in Nat
  BY <1>5, FS_CardinalityType
<1>7. /\ Cardinality(A' \union {t}) = Cardinality(A') + 1
      /\ Cardinality(D' \union {t}) = Cardinality(D') + 1
  BY <1>4, <1>5, FS_AddElement
<1>8. /\ Arriving(i, m, s) = Cardinality(A) /\ Arriving(i, m, s)' = Cardinality(A')
      /\ Departing(i, m, s) = Cardinality(D) /\ Departing(i, m, s)' = Cardinality(D')
  BY DEF Arriving, Departing
<1>9. /\ Count(hereA) = (IF hereA THEN 1 ELSE 0)
      /\ Count(hereD) = (IF hereD THEN 1 ELSE 0)
  BY DEF Count
<1> HIDE DEF A, D, hereA, hereD
<1>10. Cardinality(A) = Cardinality(A') + Count(hereA)
  BY <1>2, <1>6, <1>7, <1>9
<1>11. Cardinality(D) = Cardinality(D') + Count(hereD)
  BY <1>3, <1>6, <1>7, <1>9
<1> QED BY <1>8, <1>10, <1>11 DEF hereA, hereD

(* A step without publications that moves no state.                        *)
Calm(t) ==
    /\ \A s \in Tasks \ {t} : Untouched(s)
    /\ pc[t] # "publish" /\ pc'[t] # "publish"
    /\ entered' = entered /\ exited' = exited /\ lastId' = lastId
    /\ \A i \in Ids : db'[i] # NoRecord => db[i] # NoRecord /\ db'[i].state = db[i].state
    /\ pc'[t] \in {"sm_read", "cas"} => target'[t] <= lastId

LEMMA CalmKeepsEvents ==
    ASSUME EventsInv, NEW t \in Tasks, Calm(t)
    PROVE  EventsInv'
<1> USE DEF Calm
<1>1. ASSUME NEW i \in Ids, NEW m \in Machines, NEW s \in States, db'[i] # NoRecord
      PROVE  Balanced(i, m, s)'
  <2>1. Arriving(i, m, s)' = Arriving(i, m, s) /\ Departing(i, m, s)' = Departing(i, m, s)
    BY SamePublications
  <2>2. Balanced(i, m, s) /\ db'[i].state = db[i].state
    BY <1>1 DEF EventsInv
  <2>3. Count(db'[i].state[m] = s) = Count(db[i].state[m] = s)
    BY <2>2
  <2> QED BY <2>1, <2>2, <2>3 DEF Balanced
<1>2. ASSUME NEW u \in Tasks, pc'[u] \in {"sm_read", "cas", "publish"}
      PROVE  target'[u] <= lastId'
  BY <1>2 DEF EventsInv, Untouched, Same
<1>3. \A i \in Ids, m \in Machines, s \in States :
        i > lastId' => entered'[i][m][s] = 0 /\ exited'[i][m][s] = 0
  BY DEF EventsInv
<1> QED BY <1>1, <1>2, <1>3 DEF EventsInv

LEMMA AnswerIsCalm ==
    ASSUME HandlerInv, NEW t \in Tasks, pc[t] # "publish", NEW r, Answer(t, r)
    PROVE  Calm(t)
BY AnswerFacts DEF Calm

LEMMA OthersAreCalm ==
    ASSUME HandlerInv, EventsInv, NEW t \in Tasks,
           \/ Arrive(t) \/ UpdateFound(t) \/ UpdateMissing(t) \/ Persist(t)
           \/ (DeleteChecked(t) /\ pc'[t] = "delete_row") \/ DeleteRow(t)
           \/ (TransitionResolved(t) /\ pc'[t] = "sm_read")
           \/ (TransitionJudged(t) /\ SMRead(t)) \/ Announce(t)
    PROVE  Calm(t)
<1> USE DEF Untouched, Same, Goto, handlerVars, storageVars, smVars
<1>1. CASE Arrive(t)
  <2>1. PICK r \in Requests :
          /\ pc[t] = "idle"
          /\ req' = [req EXCEPT ![t] = r]
          /\ body' = [body EXCEPT ![t] = r.body]
          /\ caller' = [caller EXCEPT ![t] = r.user]
          /\ Goto(t, r.op)
          /\ UNCHANGED <<storageVars, target, smVars, news, existing, todo, landed>>
    BY <1>1 DEF Arrive
  <2>2. pc'[t] \in Ops
    BY <2>1, RequestAssumption DEF HandlerInv, TypeOK, Request
  <2> QED BY <2>1, <2>2 DEF HandlerInv, TypeOK, Calm, Ops
<1>2. CASE UpdateFound(t)
  BY <1>2, FoundMoves DEF Calm
<1>3. CASE UpdateMissing(t)
  BY <1>3 DEF UpdateMissing, HandlerInv, TypeOK, Calm
<1>4. CASE Persist(t)
  <2>1. /\ pc[t] = "persist" /\ pc'[t] = "announce"
        /\ \A s \in Tasks \ {t} : Untouched(s)
        /\ entered' = entered /\ exited' = exited
    BY <1>4 DEF Persist, HandlerInv, TypeOK
  <2>2. /\ lastId' = lastId /\ target[t] \in Ids /\ db[target[t]] \in Record
        /\ body[t] \in Patch /\ DOMAIN body[t].state = {}
        /\ db' = [db EXCEPT ![target[t]] = Patched(db[target[t]], body[t])]
    BY <1>4, PersistFacts
  <2>3. Patched(db[target[t]], body[t]).state = db[target[t]].state
    <3>1. Patched(db[target[t]], body[t]).state = [n \in Machines |-> db[target[t]].state[n]]
      BY <2>2 DEF Patched
    <3> QED BY <2>2, <3>1 DEF Record
  <2>4. \A i \in Ids : db'[i] # NoRecord => db[i] # NoRecord /\ db'[i].state = db[i].state
    BY <2>2, <2>3, SentinelAssumption DEF HandlerInv, TypeOK
  <2> QED BY <2>1, <2>2, <2>4 DEF Calm
<1>5. CASE DeleteChecked(t) /\ pc'[t] = "delete_row"
  <2>1. ~ Answer(t, "not_found")
    BY <1>5, AnswerFacts
  <2> QED BY <1>5, <2>1 DEF DeleteChecked, HandlerInv, TypeOK, Calm
<1>6. CASE DeleteRow(t)
  <2>1. /\ pc[t] = "delete_row" /\ pc'[t] = "announce"
        /\ \A s \in Tasks \ {t} : Untouched(s)
        /\ entered' = entered /\ exited' = exited
    BY <1>6 DEF DeleteRow, HandlerInv, TypeOK
  <2>2. lastId' = lastId /\ db' = [db EXCEPT ![target[t]] = NoRecord]
    BY <1>6 DEF DeleteRow, StorageDelete
  <2>3. \A i \in Ids : db'[i] # NoRecord => db'[i] = db[i]
    BY <2>2 DEF HandlerInv, TypeOK
  <2> QED BY <2>1, <2>2, <2>3 DEF Calm
<1>7. CASE TransitionResolved(t) /\ pc'[t] = "sm_read"
  <2>1. ~ Answer(t, "not_found")
    BY <1>7, AnswerFacts
  <2>2. /\ pc[t] = "transition" /\ db[req[t].key] # NoRecord /\ target'[t] = req[t].key
        /\ \A s \in Tasks \ {t} : Untouched(s)
        /\ entered' = entered /\ exited' = exited /\ lastId' = lastId /\ db' = db
    BY <1>7, <2>1 DEF TransitionResolved, HandlerInv, TypeOK, busVars
  <2>3. req[t].key \in Ids /\ lastId \in Nat
    BY <2>2, TaskFacts
  <2>4. req[t].key <= lastId
    BY <2>2, <2>3 DEF HandlerInv, IdsNotReused
  <2> QED BY <1>7, <2>2, <2>4 DEF Calm
<1>8. CASE TransitionJudged(t) /\ SMRead(t)
  <2>1. /\ pc[t] = "sm_read" /\ pc'[t] = "cas" /\ target' = target
        /\ \A s \in Tasks \ {t} : Untouched(s)
        /\ entered' = entered /\ exited' = exited /\ lastId' = lastId /\ db' = db
    BY <1>8 DEF TransitionJudged, SMRead, localVars, busVars, HandlerInv, TypeOK
  <2> QED BY <2>1 DEF Calm, EventsInv
<1>9. CASE Announce(t)
  <2>1. /\ pc[t] = "announce" /\ pc'[t] = "done"
        /\ \A s \in Tasks \ {t} : Untouched(s)
        /\ entered' = entered /\ exited' = exited /\ lastId' = lastId /\ db' = db
    BY <1>9 DEF Announce, Finish, localVars, HandlerInv, TypeOK
  <2> QED BY <2>1 DEF Calm
<1> QED BY <1>1, <1>2, <1>3, <1>4, <1>5, <1>6, <1>7, <1>8, <1>9

(* A new row is in its initial states and has no events.                   *)
LEMMA CreateKeepsEvents ==
    ASSUME HandlerInv, EventsInv, NEW t \in Tasks, CreateInsert(t)
    PROVE  EventsInv'
<1> DEFINE j == lastId + 1
           row == FreshRecord(caller[t], CreateData(body[t]))
<1>1. /\ pc[t] = "create" /\ pc'[t] = "announce"
      /\ \A s \in Tasks \ {t} : Untouched(s)
      /\ entered' = entered /\ exited' = exited
  BY DEF CreateInsert, Goto, handlerVars, smVars, HandlerInv, TypeOK, Untouched, Same
<1>2. /\ lastId' = j /\ j \in Ids /\ lastId \in Nat
      /\ db' = [db EXCEPT ![j] = row]
  <2>1. lastId \in Nat /\ MaxId \in Nat
    BY <1>1, TaskFacts
  <2> QED BY <2>1 DEF CreateInsert, StorageCreate
<1>3. row.state = Initial
  BY DEF FreshRecord
<1> HIDE DEF row
<1>4. db'[j] = row /\ \A i \in Ids : i # j => db'[i] = db[i]
  BY <1>2 DEF HandlerInv, TypeOK
<1>5. ASSUME NEW i \in Ids, NEW m \in Machines, NEW s \in States, db'[i] # NoRecord
      PROVE  Balanced(i, m, s)'
  <2>1. Arriving(i, m, s)' = Arriving(i, m, s) /\ Departing(i, m, s)' = Departing(i, m, s)
    BY <1>1, SamePublications
  <2>2. CASE i # j
    BY <1>1, <1>4, <1>5, <2>1, <2>2 DEF EventsInv, Balanced
  <2>3. CASE i = j
    <3>1. \A u \in Tasks : pc[u] = "publish" => target[u] # i
      BY <1>2, <2>3 DEF EventsInv, HandlerInv, TypeOK
    <3>2. /\ {u \in Tasks : pc[u] = "publish" /\ target[u] = i
                            /\ frame[u].machine = m /\ frame[u].to = s} = {}
          /\ {u \in Tasks : pc[u] = "publish" /\ target[u] = i
                            /\ frame[u].machine = m /\ frame[u].from = s} = {}
      BY <3>1
    <3>3. Arriving(i, m, s) = 0 /\ Departing(i, m, s) = 0
      BY <3>2, FS_EmptySet DEF Arriving, Departing
    <3>4. entered[i][m][s] = 0 /\ exited[i][m][s] = 0
      BY <1>2, <2>3 DEF EventsInv
    <3>5. Count(db'[i].state[m] = s) = Count(Initial[m] = s)
      BY <1>3, <1>4, <2>3
    <3> QED BY <1>1, <2>1, <3>3, <3>4, <3>5 DEF Balanced
  <2> QED BY <2>2, <2>3
<1>6. ASSUME NEW u \in Tasks, pc'[u] \in {"sm_read", "cas", "publish"}
      PROVE  target'[u] <= lastId'
  <2>1. u # t /\ target'[u] = target[u] /\ pc'[u] = pc[u] /\ target[u] \in Nat
    BY <1>1, <1>6 DEF Untouched, Same, HandlerInv, TypeOK
  <2> QED BY <1>2, <1>6, <2>1 DEF EventsInv
<1>7. \A i \in Ids, m \in Machines, s \in States :
        i > lastId' => entered'[i][m][s] = 0 /\ exited'[i][m][s] = 0
  BY <1>1, <1>2 DEF EventsInv
<1> QED BY <1>5, <1>6, <1>7 DEF EventsInv

(* A compare-and-set moves the state and begins the publication.           *)
LEMMA LandingKeepsEvents ==
    ASSUME HandlerInv, EventsInv, NEW t \in Tasks, TransitionLands(t), SMUpdateIf(t)
    PROVE  EventsInv'
<1> DEFINE f == frame[t]
           j == target[t]
           row == Patched(db[j], TransitionPatch(f))
<1>1. /\ pc[t] = "cas" /\ pc'[t] = "publish" /\ target'[t] = j /\ frame'[t] = f
      /\ \A s \in Tasks \ {t} : Untouched(s)
      /\ entered' = entered /\ exited' = exited
  BY DEF TransitionLands, Goto, smVars, SMUpdateIf, localVars, handlerVars, TransitionLost, Finish,
         HandlerInv, TypeOK, Untouched, Same
<1>2. /\ j \in Ids /\ db[j] \in Record /\ db[j].state[f.machine] = f.from
      /\ db' = [db EXCEPT ![j] = row] /\ lastId' = lastId
      /\ f.machine \in Machines
  BY LandsFacts DEF TransitionJudgedFor
<1>3. \A m \in Machines : row.state[m] = IF m = f.machine THEN f.to ELSE db[j].state[m]
  BY DEF Patched, TransitionPatch
<1>4. db[j] # NoRecord
  BY <1>2, SentinelAssumption
<1> HIDE DEF row
<1>5. db'[j] = row /\ \A i \in Ids : i # j => db'[i] = db[i]
  BY <1>2 DEF HandlerInv, TypeOK
<1>6. ASSUME NEW i \in Ids, NEW m \in Machines, NEW s \in States, db'[i] # NoRecord
      PROVE  Balanced(i, m, s)'
  <2>1. /\ Arriving(i, m, s)' = Arriving(i, m, s) + Count(j = i /\ f.machine = m /\ f.to = s)
        /\ Departing(i, m, s)' = Departing(i, m, s) + Count(j = i /\ f.machine = m /\ f.from = s)
    BY <1>1, OnePublication
  <2>2. /\ Arriving(i, m, s) \in Nat /\ Departing(i, m, s) \in Nat
        /\ entered[i][m][s] \in Nat /\ exited[i][m][s] \in Nat
    BY TalliesAreNumbers, EventsAreNumbers
  <2>3. Balanced(i, m, s)
    BY <1>4, <1>5, <1>6 DEF EventsInv
  <2>4. Count(db'[i].state[m] = s) + Count(j = i /\ f.machine = m /\ f.from = s)
          = Count(db[i].state[m] = s) + Count(j = i /\ f.machine = m /\ f.to = s)
    <3>1. CASE i = j /\ f.machine = m
      BY <1>2, <1>3, <1>5, <3>1 DEF Count
    <3>2. CASE ~ (i = j /\ f.machine = m)
      <4>1. db'[i].state[m] = db[i].state[m]
        BY <1>3, <1>5, <3>2
      <4> QED BY <3>2, <4>1 DEF Count
    <3> QED BY <3>1, <3>2
  <2>5. /\ Count(Initial[m] = s) \in Nat /\ Count(db'[i].state[m] = s) \in Nat
        /\ Count(db[i].state[m] = s) \in Nat
        /\ Count(j = i /\ f.machine = m /\ f.from = s) \in Nat
        /\ Count(j = i /\ f.machine = m /\ f.to = s) \in Nat
    BY DEF Count
  <2> DEFINE e == entered[i][m][s]
             x == exited[i][m][s]
             a == Arriving(i, m, s)
             d == Departing(i, m, s)
             n == Count(Initial[m] = s)
             up   == Count(j = i /\ f.machine = m /\ f.to = s)
             down == Count(j = i /\ f.machine = m /\ f.from = s)
             was  == Count(db[i].state[m] = s)
             is   == Count(db'[i].state[m] = s)
  <2>6. e + a + n = x + d + was /\ is + down = was + up
    BY <2>3, <2>4 DEF Balanced
  <2>7. e + (a + up) + n = x + (d + down) + is
    <3> HIDE DEF e, x, a, d, n, up, down, was, is
    <3>1. /\ e \in Nat /\ x \in Nat /\ a \in Nat /\ d \in Nat /\ n \in Nat
          /\ up \in Nat /\ down \in Nat /\ was \in Nat /\ is \in Nat
      BY <2>2, <2>5 DEF e, x, a, d, n, up, down, was, is
    <3> QED BY <2>6, <3>1
  <2> QED BY <1>1, <2>1, <2>7 DEF Balanced
<1>7. ASSUME NEW u \in Tasks, pc'[u] \in {"sm_read", "cas", "publish"}
      PROVE  target'[u] <= lastId'
  BY <1>1, <1>2, <1>7 DEF EventsInv, Untouched, Same
<1>8. \A i \in Ids, m \in Machines, s \in States :
        i > lastId' => entered'[i][m][s] = 0 /\ exited'[i][m][s] = 0
  BY <1>1, <1>2 DEF EventsInv
<1> QED BY <1>6, <1>7, <1>8 DEF EventsInv

(* Publishing counts one event up in each table.                           *)
LEMMA PublishCounts ==
    ASSUME HandlerInv, NEW t \in Tasks, SMPublish(t),
           NEW i \in Ids, NEW m \in Machines, NEW s \in States
    PROVE  /\ entered'[i][m][s] = entered[i][m][s]
                + Count(target[t] = i /\ frame[t].machine = m /\ frame[t].to = s)
           /\ exited'[i][m][s] = exited[i][m][s]
                + Count(target[t] = i /\ frame[t].machine = m /\ frame[t].from = s)
<1> DEFINE f == frame[t]
           j == target[t]
<1>1. /\ j \in Ids /\ f.machine \in Machines /\ f.from \in States /\ f.to \in States
      /\ exited'  = [exited  EXCEPT ![j][f.machine][f.from] = @ + 1]
      /\ entered' = [entered EXCEPT ![j][f.machine][f.to] = @ + 1]
  BY CallFacts DEF SMPublish, TransitionPublished, TransitionJudgedFor
<1>2. /\ entered \in [Ids -> [Machines -> [States -> Nat]]]
      /\ exited \in [Ids -> [Machines -> [States -> Nat]]]
  BY DEF HandlerInv, TypeOK
<1>3. entered[i][m][s] \in Nat /\ exited[i][m][s] \in Nat
  BY EventsAreNumbers
<1> HIDE DEF f, j
<1>4. CASE j # i
  <2>1. entered'[i] = entered[i] /\ exited'[i] = exited[i]
    BY <1>1, <1>2, <1>4
  <2> QED BY <1>3, <1>4, <2>1 DEF Count, f, j
<1>5. CASE j = i /\ f.machine # m
  <2>1. /\ entered'[i] = [entered[i] EXCEPT ![f.machine][f.to] = @ + 1]
        /\ exited'[i] = [exited[i] EXCEPT ![f.machine][f.from] = @ + 1]
    BY <1>1, <1>2, <1>5
  <2>2. entered'[i][m] = entered[i][m] /\ exited'[i][m] = exited[i][m]
    BY <1>2, <1>5, <2>1
  <2> QED BY <1>3, <1>5, <2>2 DEF Count, f, j
<1>6. CASE j = i /\ f.machine = m
  <2>1. /\ entered'[i] = [entered[i] EXCEPT ![m][f.to] = @ + 1]
        /\ exited'[i] = [exited[i] EXCEPT ![m][f.from] = @ + 1]
    BY <1>1, <1>2, <1>6
  <2>2. /\ entered[i] \in [Machines -> [States -> Nat]]
        /\ exited[i] \in [Machines -> [States -> Nat]]
    BY <1>2
  <2>3. entered[i][m] \in [States -> Nat] /\ exited[i][m] \in [States -> Nat]
    BY <2>2
  <2> DEFINE e == entered[i]
             x == exited[i]
  <2>4. /\ entered'[i][m] = [e[m] EXCEPT ![f.to] = @ + 1]
        /\ exited'[i][m] = [x[m] EXCEPT ![f.from] = @ + 1]
    <3> HIDE DEF e, x
    <3>1. entered'[i] = [e EXCEPT ![m] = [e[m] EXCEPT ![f.to] = @ + 1]]
      BY <2>1 DEF e
    <3>2. exited'[i] = [x EXCEPT ![m] = [x[m] EXCEPT ![f.from] = @ + 1]]
      BY <2>1 DEF x
    <3>3. e \in [Machines -> [States -> Nat]] /\ x \in [Machines -> [States -> Nat]]
      BY <2>2 DEF e, x
    <3>4. entered'[i][m] = [e[m] EXCEPT ![f.to] = @ + 1]
      BY <3>1, <3>3
    <3>5. exited'[i][m] = [x[m] EXCEPT ![f.from] = @ + 1]
      BY <3>2, <3>3
    <3> QED BY <3>4, <3>5
  <2>5. entered'[i][m][s] = IF f.to = s THEN e[m][s] + 1 ELSE e[m][s]
    BY <2>3, <2>4
  <2>6. exited'[i][m][s] = IF f.from = s THEN x[m][s] + 1 ELSE x[m][s]
    BY <2>3, <2>4
  <2> QED BY <1>3, <1>6, <2>5, <2>6 DEF Count, f, j
<1> QED BY <1>4, <1>5, <1>6

(* The publication moves what was pending to the counters.                 *)
LEMMA PublishingKeepsEvents ==
    ASSUME HandlerInv, EventsInv, NEW t \in Tasks, SMPublish(t)
    PROVE  EventsInv'
<1> DEFINE f == frame[t]
           j == target[t]
<1>1. /\ pc[t] = "publish" /\ j \in Ids /\ f.machine \in Machines
      /\ f.from \in States /\ f.to \in States
      /\ exited'  = [exited  EXCEPT ![j][f.machine][f.from] = @ + 1]
      /\ entered' = [entered EXCEPT ![j][f.machine][f.to] = @ + 1]
  BY CallFacts DEF SMPublish, TransitionPublished, TransitionJudgedFor
<1>2. /\ \A s \in Tasks \ {t} : Untouched(s)
      /\ pc'[t] # "publish" /\ target' = target /\ db' = db /\ lastId' = lastId
  BY PublishMoves
<1>3. ASSUME NEW i \in Ids, NEW m \in Machines, NEW s \in States
      PROVE  /\ entered[i][m][s] \in Nat /\ exited[i][m][s] \in Nat
             /\ entered'[i][m][s] = entered[i][m][s] + Count(j = i /\ f.machine = m /\ f.to = s)
             /\ exited'[i][m][s] = exited[i][m][s] + Count(j = i /\ f.machine = m /\ f.from = s)
  BY PublishCounts, EventsAreNumbers
<1>4. ASSUME NEW i \in Ids, NEW m \in Machines, NEW s \in States, db'[i] # NoRecord
      PROVE  Balanced(i, m, s)'
  <2>1. /\ Arriving(i, m, s) = Arriving(i, m, s)' + Count(j = i /\ f.machine = m /\ f.to = s)
        /\ Departing(i, m, s) = Departing(i, m, s)' + Count(j = i /\ f.machine = m /\ f.from = s)
    BY <1>1, <1>2, PublicationEnds
  <2>2. Arriving(i, m, s)' \in Nat /\ Departing(i, m, s)' \in Nat
    BY TalliesAreNumbers
  <2>3. Balanced(i, m, s)
    BY <1>2, <1>4 DEF EventsInv
  <2>4. /\ Count(Initial[m] = s) \in Nat /\ Count(db[i].state[m] = s) \in Nat
        /\ Count(j = i /\ f.machine = m /\ f.from = s) \in Nat
        /\ Count(j = i /\ f.machine = m /\ f.to = s) \in Nat
    BY DEF Count
  <2> QED BY <1>2, <1>3, <2>1, <2>2, <2>3, <2>4 DEF Balanced
<1>5. ASSUME NEW u \in Tasks, pc'[u] \in {"sm_read", "cas", "publish"}
      PROVE  target'[u] <= lastId'
  BY <1>1, <1>2, <1>5 DEF EventsInv, Untouched, Same
<1>6. \A i \in Ids, m \in Machines, s \in States :
        i > lastId' => entered'[i][m][s] = 0 /\ exited'[i][m][s] = 0
  <2>1. j <= lastId /\ lastId \in Nat /\ j \in Nat
    BY <1>1, SizeAssumption DEF EventsInv, HandlerInv, TypeOK
  <2> QED BY <1>2, <1>3, <2>1 DEF EventsInv, Count
<1> QED BY <1>4, <1>5, <1>6 DEF EventsInv


LEMMA EventsStep == HandlerInv /\ EventsInv /\ [Next]_vars => EventsInv'
<1> SUFFICES ASSUME HandlerInv, EventsInv, [Next]_vars PROVE EventsInv'
  OBVIOUS
<1>1. ASSUME NEW t \in Tasks, Arrive(t) \/ Handle(t) PROVE EventsInv'
  <2>1. CASE \/ CreateRefused(t) \/ UpdateRefused(t) \/ PersistRefused(t) \/ DeleteRefused(t)
             \/ DeleteChecked(t) /\ pc'[t] # "delete_row"
             \/ TransitionResolved(t) /\ pc'[t] # "sm_read"
             \/ SMRead(t) /\ ~ TransitionJudged(t)
             \/ SMUpdateIf(t) /\ ~ TransitionLands(t)
    <3>1. pc[t] # "publish" /\ \E r : Answer(t, r)
      BY <2>1, AnswersAre
    <3> QED BY <3>1, AnswerIsCalm, CalmKeepsEvents
  <2>2. CASE ReadBack(t)
    <3>1. pc[t] # "publish" /\ Answer(t, "ok")
      BY <2>2 DEF ReadBack
    <3> QED BY <3>1, AnswerIsCalm, CalmKeepsEvents
  <2>3. CASE CreateInsert(t)
    BY <2>3, CreateKeepsEvents
  <2>4. CASE TransitionLands(t) /\ SMUpdateIf(t)
    BY <2>4, LandingKeepsEvents
  <2>5. CASE SMPublish(t)
    BY <2>5, PublishingKeepsEvents
  <2>6. CASE \/ Arrive(t) \/ UpdateFound(t) \/ UpdateMissing(t) \/ Persist(t)
             \/ (DeleteChecked(t) /\ pc'[t] = "delete_row") \/ DeleteRow(t)
             \/ (TransitionResolved(t) /\ pc'[t] = "sm_read")
             \/ (TransitionJudged(t) /\ SMRead(t)) \/ Announce(t)
    BY <2>6, OthersAreCalm, CalmKeepsEvents
  <2> QED BY <1>1, <2>1, <2>2, <2>3, <2>4, <2>5, <2>6 DEF Handle
<1>2. CASE UNCHANGED vars
  BY <1>2 DEF vars, EventsInv, Balanced, Arriving, Departing
<1> QED BY <1>1, <1>2 DEF Next, Done

LEMMA EventsInit == Init => EventsInv
<1> SUFFICES ASSUME Init PROVE EventsInv
  OBVIOUS
<1>1. \A i \in Ids : db[i] # NoRecord => db[i].state = Initial
  <2>1. db \in [Ids -> L!Fresh \union {NoRecord}]
    BY DEF Init, L!Init, L!Ids
  <2>2. \A r \in L!Fresh : r.state = Initial
    BY DEF L!Fresh, L!FreshRecord
  <2> QED BY <2>1, <2>2
<1>2. \A t \in Tasks : pc[t] = "idle"
  BY DEF Init
<1>3. ASSUME NEW i \in Ids, NEW m \in Machines, NEW s \in States
      PROVE  entered[i][m][s] = 0 /\ exited[i][m][s] = 0
  <2>1. /\ entered[i] = [n \in Machines |-> [q \in States |-> 0]]
        /\ exited[i] = [n \in Machines |-> [q \in States |-> 0]]
    BY DEF Init
  <2>2. entered[i][m] = [q \in States |-> 0] /\ exited[i][m] = [q \in States |-> 0]
    BY <2>1
  <2> QED BY <2>2
<1>4. ASSUME NEW i \in Ids, NEW m \in Machines, NEW s \in States, db[i] # NoRecord
      PROVE  Balanced(i, m, s)
  <2>1. Arriving(i, m, s) = 0 /\ Departing(i, m, s) = 0
    <3>1. {t \in Tasks : pc[t] = "publish" /\ target[t] = i
                         /\ frame[t].machine = m /\ frame[t].to = s} = {}
      BY <1>2
    <3>2. {t \in Tasks : pc[t] = "publish" /\ target[t] = i
                         /\ frame[t].machine = m /\ frame[t].from = s} = {}
      BY <1>2
    <3> QED BY <3>1, <3>2, FS_EmptySet DEF Arriving, Departing
  <2>2. db[i].state = Initial
    BY <1>1, <1>4
  <2> QED BY <1>3, <2>1, <2>2 DEF Balanced
<1> QED BY <1>2, <1>3, <1>4 DEF EventsInv

LEMMA EventsHolds == EventsInv => EventsAddUp
BY DEF EventsInv, EventsAddUp, Balanced

(* For any number of requests racing on any number of rows: the events     *)
(* published about a row, with the ones about to be, add up to the state   *)
(* it is in, so no transition is announced twice, lost, or announced       *)
(* without having landed.                                                  *)
THEOREM TransitionEventsAddUp ==
    ASSUME SafeKeys
    PROVE  Spec => []EventsAddUp
<1>1. Init => EventsInv
  BY EventsInit
<1>2. HandlerInv /\ EventsInv /\ [Next]_vars => EventsInv'
  BY EventsStep
<1>3. EventsInv => EventsAddUp
  BY EventsHolds
<1>4. Spec => []HandlerInv
  BY HandlersGrounded
<1> QED BY <1>1, <1>2, <1>3, <1>4, PTL DEF Spec
=============================================================================
