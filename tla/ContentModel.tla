---------------------------- MODULE ContentModel ----------------------------
(***************************************************************************)
(* One content type of a Termin application as the runtime sees it: its    *)
(* state machines with their gates, its callers and their scopes, and the  *)
(* shape of a record.  Everything here comes from the compiled IR and is   *)
(* fixed while the application runs.                                       *)
(*                                                                         *)
(* A record keeps only what the handlers tell apart: the owning principal, *)
(* one state per machine, and one data field that conditions, validation,  *)
(* assignments and confidentiality are about.                              *)
(***************************************************************************)
EXTENDS Naturals

CONSTANTS
    MaxId,          \* the store hands out the ids 1..MaxId
    Users,          \* principals (AuthContext)
    Scopes,
    UserScopes,     \* AuthContext.scopes of each principal
    NumMachines,    \* state machines on the content, numbered in IR order
    States,
    Initial,        \* initial state of each machine
    Gates,          \* Gates[m][<<from, to>>]: the transition table of machine m
    Data,           \* values of the data field
    DefaultData,    \* its default_expr
    DataScopes,     \* its confidentiality_scopes
    BoundaryScopes, \* identity scopes of the boundary the content lives in
    CondTrue,       \* data for which a condition_expr evaluates to true
    CondRaises,     \* data for which evaluating a CEL expression raises
    Entered,        \* Entered[d]: value of an entered: assignment read from d
    Valid,          \* <<states, data>> pairs validate_dependent_values accepts
    Owned,          \* the routes carry an ownership row_filter
    NoScope,        \* a gate without a required_scope
    NoRecord,       \* "no such row"
    Absent          \* a field a request body does not carry

Ids      == 1 .. MaxId
Machines == 1 .. NumMachines
Gate     == [scope : Scopes \union {NoScope}, cond : BOOLEAN, entered : BOOLEAN]
Record   == [owner : Users, state : [Machines -> States], data : Data]

ASSUME SizeAssumption == MaxId \in Nat /\ NumMachines \in Nat
ASSUME PrincipalAssumption == UserScopes \in [Users -> SUBSET Scopes]
ASSUME MachineAssumption ==
    /\ Initial \in [Machines -> States]
    /\ \A m \in Machines : \E P \in SUBSET (States \X States) : Gates[m] \in [P -> Gate]
ASSUME DataAssumption ==
    /\ DefaultData \in Data
    /\ CondTrue \subseteq Data /\ CondRaises \subseteq Data
    /\ Entered \in [Data -> Data]
    /\ DataScopes \subseteq Scopes /\ BoundaryScopes \subseteq Scopes
    /\ Valid \subseteq [Machines -> States] \X Data
ASSUME FlagAssumption == Owned \in BOOLEAN
ASSUME SentinelAssumption ==
    NoRecord \notin Record /\ Absent \notin Data \union Users /\ NoScope \notin Scopes

-----------------------------------------------------------------------------
(* A transition is declared when the table of its machine has the pair.    *)
Declared(m, from, to) == <<from, to>> \in DOMAIN Gates[m]

(* The gate lets the caller through: a conditioned gate looks at no scope, *)
(* any other one needs its required_scope when it has one.                 *)
ScopeOK(u, m, from, to) ==
    LET g == Gates[m][<<from, to>>]
    IN  g.cond \/ g.scope = NoScope \/ g.scope \in UserScopes[u]

(* check_write_access for a payload that carries the data field.           *)
MayWriteData(u) == DataScopes \subseteq UserScopes[u]

(* check_boundary_identity: the caller holds every scope of the boundary.  *)
InBoundary(u) == BoundaryScopes \subseteq UserScopes[u]

(* The row create stores: owner stamped with the caller, state columns     *)
(* stripped so that every machine starts in its initial state.             *)
FreshRecord(u, d) == [owner |-> u, state |-> Initial, data |-> d]
=============================================================================
