------------------------------ MODULE Decisions -------------------------------
(***************************************************************************)
(* The algorithms of the core that keep no state: a behaviour asks one     *)
(* question, drawn from the inputs given, and each invariant judges the    *)
(* answers to the questions of its kind.                                   *)
(***************************************************************************)
EXTENDS Integers, Sequences, FiniteSets

CONSTANTS
    Nothing,                                       \* None of the code
    NotCompilable,
    Expressions, Fields, CelRows,                  \* see Predicate
    ScopeSets, Contents, Records, Computes,        \* see Redaction
    ReadApps, Tables, Callers, Queries,            \* see Reading
    ClauseSchemas, Bodies, Stored,                 \* see Dependents
    BoundedApps,                                   \* see Boundaries
    IRs, Requests,                                 \* see Routes
    Conversations,                                 \* see Materialize
    Chains, BoundApps, Products, Packages,         \* see Bindings
    BaseContracts, Default

VARIABLE question

Pr == INSTANCE Predicate WITH Fails <- Nothing
R == INSTANCE Redaction WITH None <- Nothing
Rg == INSTANCE Reading WITH None <- Nothing
Dp == INSTANCE Dependents WITH None <- Nothing
Bd == INSTANCE Boundaries
Rt == INSTANCE Routes WITH None <- Nothing
G == INSTANCE Bindings WITH None <- Nothing

-----------------------------------------------------------------------------
(* The shapes of the inputs.                                               *)
AFunction(d) == d = [f \in DOMAIN d |-> d[f]]
AList(s) == Len(s) \in Nat /\ s = [i \in 1 .. Len(s) |-> s[i]]

(* Operands stand before their operators.                                  *)
ANode(n, i) ==
    /\ n.node \in {"not", "paren"} => n.of \in 1 .. i - 1
    /\ n.node = "cond" => {n.if, n.then, n.else} \subseteq 1 .. i - 1
    /\ n.node \in {"and", "or"} => AList(n.of) /\ \A k \in DOMAIN n.of : n.of[k] \in 1 .. i - 1
    /\ n.node = "rel" => n.op \in {"eq", "ne", "gt", "ge", "lt", "le", "in"}
ACondition(e) == e # <<>> /\ AList(e) /\ \A i \in DOMAIN e : ANode(e[i], i)

(* As a storage provider keeps it: ids and lookup keys are there, and each *)
(* is that of one row only.                                                *)
ATable(app, table) ==
    /\ IsFiniteSet(table)
    /\ \A r \in table : r \in [DOMAIN r -> [redacted : {FALSE}, is : Int]] /\ {"id", app.lookup} \subseteq DOMAIN r
    /\ \A r, s \in table : r["id"].is = s["id"].is \/ r[app.lookup].is = s[app.lookup].is => r = s

AnIR(ir) == AList(ir.routes) /\ AList(ir.channels) /\ \A i \in DOMAIN ir.channels : AList(ir.channels[i].actions)

ABinding(b) == b = [provider |-> b.provider, config |-> b.config] /\ AFunction(b.config)
ALevel(l) ==
    /\ l = [version |-> l.version, single |-> l.single, named |-> l.named]
    /\ ABinding(l.single) /\ AFunction(l.named) /\ \A n \in DOMAIN l.named : ABinding(l.named[n])
AChain(chain) == chain # <<>> /\ AList(chain) /\ \A i \in DOMAIN chain : ALevel(chain[i])

(* A dictionary has no key twice.                                          *)
Keyed(list) == \A i, j \in DOMAIN list : list[i].key = list[j].key => i = j
ADictionary(list) == AList(list) /\ Keyed(list)

(* A stored number is an int.                                              *)
ASSUME ConditionAssumption ==
    /\ \A e \in Expressions : ACondition(e)
    /\ \A r \in CelRows : \A f \in DOMAIN r : r[f].type # "uint"

ASSUME RecordAssumption == \A r \in Records : \A k \in DOMAIN r : r[k].redacted = FALSE

(* No content declares a field called id, and a page holds a table.        *)
ASSUME TableAssumption ==
    \A app \in ReadApps : /\ "id" \notin DOMAIN app.content.fields
                          /\ \A t \in Tables : ATable(app, t) /\ Cardinality(t) <= 1000

(* When clauses are about fields of the schema.                            *)
ASSUME ClauseAssumption ==
    \A s \in ClauseSchemas :
        /\ AList(s.dependent_values)
        /\ \A i \in DOMAIN s.dependent_values : Dp!DependsOn(s.dependent_values[i]) \subseteq DOMAIN s.fields

ASSUME BoundaryAssumption ==
    \A app \in BoundedApps : AList(app.boundaries) /\ \A x \in DOMAIN app.computes : AList(app.computes[x])

ASSUME IRAssumption == \A ir \in IRs : AnIR(ir)

ASSUME BindingAssumption ==
    /\ \A chain \in Chains : AChain(chain)
    /\ \A app \in BoundApps : ADictionary(app.flat) /\ ADictionary(app.nested)

-----------------------------------------------------------------------------
AskPredicate == \E e \in Expressions : question' = [about |-> "predicate", e |-> e]

(* A condition that is pushed down to the storage provider selects the     *)
(* rows that CEL would have selected in the process, and names fields of   *)
(* the content only.                                                       *)
PushdownSound ==
    question.about = "predicate" =>
        /\ Pr!OnlyFieldsAsked(question.e, Fields)
        /\ \A r \in CelRows : Pr!CompiledMeansSame(question.e, Fields, r)

AskRedaction == \E c \in Contents, u \in ScopeSets, r \in Records :
    question' = [about |-> "redaction", content |-> c, caller |-> u, r |-> r]
AskCompute == \E c \in Computes, u \in ScopeSets :
    question' = [about |-> "compute", compute |-> c, caller |-> u]
AskReading == \E a \in ReadApps, t \in Tables, u \in Callers, q \in Queries :
    question' = [about |-> "reading", app |-> a, rows |-> t, user |-> u, query |-> q]

(* redact_record shows records alike that differ only in what the caller   *)
(* may not see; check_write_access lets it write the fields it is shown    *)
(* and no others; check_taint_integrity passes what was redacted for the   *)
(* delegate and no confidential value that was not; and who may start a    *)
(* delegating compute (check_compute_access) may have its output           *)
(* (enforce_output_taint).  list_content_handler and get_content_handler   *)
(* show the same records, and what they answer depends on the caller's own *)
(* rows and the fields it may see.                                         *)
ConfidentialityHolds ==
    /\ question.about = "redaction" =>
          /\ \A s \in Records : R!HidesWhatItHides(question.r, s, question.content, question.caller)
          /\ R!WritesWhatItReads(question.r, question.content, question.caller)
          /\ \A d \in ScopeSets : R!TaintCaught(question.r, question.content, question.caller, d)
    /\ question.about = "compute" => R!GateMatchesExit(question.compute, question.caller)
    /\ question.about = "reading" =>
          /\ Rg!ListShowsWhatGetShows(question.app, question.rows, question.user)
          /\ Rg!AnswersFromOwnRows(question.app, question.rows, question.user, question.query)
          /\ Rg!AnswersFromVisibleFields(question.app, question.rows, question.user, question.query)

AskDependents == \E s \in ClauseSchemas, d \in Bodies :
    question' = [about |-> "dependents", schema |-> s, body |-> d]

(* A created row breaks no When clause, late defaults apart, and keeps the *)
(* caller's values, defaults filling gaps only; a PUT leaves no broken     *)
(* When clause in the merged row, but for what defaults stood in for.      *)
WhenClausesHold ==
    question.about = "dependents" =>
        /\ Dp!CreatedRowHolds(question.body, question.schema)
        /\ Dp!CreateKeepsWhatWasSaid(question.body, question.schema)
        /\ \A d \in Stored : Dp!UpdatedRowHolds(d, question.body, question.schema)

AskBoundaries == \E a \in BoundedApps : question' = [about |-> "boundaries", app |-> a]

(* check_boundary_identity enforces the restriction of the boundary a      *)
(* content lies in, and a compute reaches what it declares, within one     *)
(* boundary.                                                               *)
BoundariesHold ==
    question.about = "boundaries" =>
        /\ \A u \in ScopeSets : Bd!AdmittedByItsBoundary(question.app, u)
        /\ Bd!DeclaredAccessesWork(question.app)

AskRoutes == \E ir \in IRs, r \in Requests :
    question' = [about |-> "routes", ir |-> ir, request |-> r]

(* The dispatcher answers 404 before 405 before 403, whatever the routes   *)
(* shadow, and a handler runs only with the scope the IR demands for it.   *)
RoutesGuarded ==
    question.about = "routes" =>
        /\ Rt!Precedence(question.ir, question.request)
        /\ Rt!HandledAsDeclared(question.ir, question.request)

AskConversation == \E l \in Conversations :
    question' = [about |-> "conversation", entries |-> l]

AskChain == \E c \in Chains : question' = [about |-> "chain", chain |-> c]
AskPresentation == \E a \in BoundApps, p \in Products, k \in Packages :
    question' = [about |-> "presentation", app |-> a, providers |-> p, packages |-> k]

(* A setting of the effective deploy configuration is that of the last     *)
(* boundary that sets it; a contract bound by its name is served by the    *)
(* product it is bound to, whatever the order of the bindings; and the     *)
(* base contracts fall to the default product when nothing binds them.     *)
BindingsResolve ==
    /\ question.about = "chain" => G!LastLevelWins(question.chain)
    /\ question.about = "presentation" =>
          /\ G!ByNameBeforeNamespace(question.app, question.providers, question.packages)
          /\ G!BaseIsServed(question.app, question.providers, question.packages)

-----------------------------------------------------------------------------
Unasked == question = [about |-> "nothing"]

Ask ==
    \/ AskPredicate
    \/ AskRedaction
    \/ AskCompute
    \/ AskReading
    \/ AskDependents
    \/ AskBoundaries
    \/ AskRoutes
    \/ AskConversation
    \/ AskChain
    \/ AskPresentation

Asked == Unasked /\ Ask

Deciding == Unasked /\ [][Asked]_question
=============================================================================
