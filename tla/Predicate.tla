------------------------------ MODULE Predicate ------------------------------
(***************************************************************************)
(* compile_cel_to_predicate (expression/predicate.py): a parsed CEL        *)
(* expression becomes a predicate that the storage provider evaluates, or  *)
(* is not compilable and is evaluated in the process.                      *)
(*                                                                         *)
(* The layers of the grammar that have one child are left out: every       *)
(* function of the compiler passes through them.  A condition is the list  *)
(* of its nodes, operands first, the way it is written backwards in Polish *)
(* notation; an operator says how far back its operands stand:             *)
(*   paren(of), not(of), and(of), or(of), cond(if, then, else)             *)
(* The operands of a relation are single nodes, and stand in it:           *)
(*   rel(op, left, right), call(target, method, args)                      *)
(*   ident(name), literal(value), list(items)                              *)
(* Anything else, sums and members among it, is a node of another name.    *)
(* Values carry their type: [type, is].  A uint literal has the type       *)
(* "uint" when CEL reads it; _parse_token_literal takes it for a string.   *)
(***************************************************************************)
EXTENDS Integers, Sequences

CONSTANTS NotCompilable, Fails

Null == [type |-> "null", is |-> 0]
True == [type |-> "bool", is |-> 1]

(* Fault: identifiers are not looked up.                                   *)
FieldOfAny(e, fields) == IF e.node = "ident" THEN e.name ELSE NotCompilable

(* field_names: None admits every identifier.                              *)
FieldOf(e, fields) == IF e.node = "ident" /\ e.name \in fields THEN e.name ELSE NotCompilable

(* Digits and a suffix are neither an int nor a float: the token stays.    *)
ParsedToken(v) == IF v.type = "uint" THEN [type |-> "string", is |-> v.is] ELSE v

LiteralOf(e) == IF e.node = "literal" THEN ParsedToken(e.value) ELSE NotCompilable

ListOf(e) ==
    IF e.node = "list" /\ \A i \in DOMAIN e.items : LiteralOf(e.items[i]) # NotCompilable
    THEN [i \in DOMAIN e.items |-> LiteralOf(e.items[i])]
    ELSE NotCompilable

(* In is for lists, the other relations for one literal.                   *)
Operand(op, e) == IF op = "in" THEN ListOf(e) ELSE LiteralOf(e)

(* Fault: the bounds of >= and <= are lost.                                *)
PredicateOfStrict(op) == CASE op = "ge" -> "gt" [] op = "le" -> "lt" [] OTHER -> op

(* Predicates are called like the relations they stand for.                *)
PredicateOf(op) == op

Comparison(op, field, value) ==
    IF field = NotCompilable \/ value = NotCompilable THEN NotCompilable
    ELSE [op |-> PredicateOf(op), field |-> field, value |-> value]

(* member.method(args): contains only, in any case, of one string.         *)
MethodCall(e, fields) ==
    IF e.method # "contains" \/ Len(e.args) # 1 THEN NotCompilable
    ELSE LET v == LiteralOf(e.args[1])
         IN  IF v # NotCompilable /\ v.type = "string"
             THEN Comparison("contains", FieldOf(e.target, fields), v)
             ELSE NotCompilable

(* What came of the operand so far back.                                   *)
Kid(done, back) == done[Len(done) + 1 - back]

Combined(op, done, backs) ==
    IF \E i \in DOMAIN backs : Kid(done, backs[i]) = NotCompilable THEN NotCompilable
    ELSE [op |-> op, of |-> [i \in DOMAIN backs |-> Len(done) + 1 - backs[i]]]

WalkNode(n, done, fields) ==
    CASE n.node \in {"and", "or"} -> Combined(n.node, done, n.of)
      [] n.node = "not"   -> Combined("not", done, <<n.of>>)
      [] n.node = "paren" -> Kid(done, n.of)
      [] n.node = "cond"  -> Kid(done, n.if)
      [] n.node = "rel"   -> Comparison(n.op, FieldOf(n.left, fields), Operand(n.op, n.right))
      [] n.node = "call"  -> MethodCall(n, fields)
      [] OTHER            -> NotCompilable

(* The predicates of all nodes; those that combine others refer to them.   *)
Walk(e, fields) ==
    LET walk[n \in 0 .. Len(e)] ==
            IF n = 0 THEN <<>>
            ELSE LET done == walk[n - 1] IN Append(done, WalkNode(e[n], done, fields))
    IN  walk[Len(e)]

-----------------------------------------------------------------------------
(* Both sides of the contract, on records that have every field: what a    *)
(* provider selects (storage_contract.py) and what CEL finds.  A type that *)
(* an operator is not defined for fails in CEL and selects nothing.        *)
Comparable(op, v, w) ==
    CASE op \in {"eq", "ne"}  -> TRUE
      [] op = "contains"      -> v.type = "string" /\ w.type = "string"
      [] OTHER                -> v.type = w.type /\ v.type \in {"int", "uint"}

(* A string "is" a number here; it contains those that divide it.          *)
Compare(op, v, w) ==
    CASE op = "eq" -> v = w
      [] op = "ne" -> v # w
      [] op = "gt" -> v.is > w.is
      [] op = "ge" -> v.is >= w.is
      [] op = "lt" -> v.is < w.is
      [] op = "le" -> v.is <= w.is
      [] op = "contains" -> v.is % w.is = 0

SelectsNode(p, done, r) ==
    IF p = NotCompilable THEN FALSE
    ELSE CASE p.op = "and" -> \A i \in DOMAIN p.of : done[p.of[i]]
           [] p.op = "or"  -> \E i \in DOMAIN p.of : done[p.of[i]]
           [] p.op = "not" -> ~ done[p.of[1]]
           [] p.op = "in"  -> \E i \in DOMAIN p.value : p.value[i] = r[p.field]
           [] OTHER        -> Comparable(p.op, r[p.field], p.value) /\ Compare(p.op, r[p.field], p.value)

Selects(ps, r) ==
    LET select[n \in 0 .. Len(ps)] ==
            IF n = 0 THEN <<>>
            ELSE LET done == select[n - 1] IN Append(done, SelectsNode(ps[n], done, r))
    IN  select[Len(ps)]

(* CEL compares ints and uints by their number.                            *)
Same(v, w) == v = w \/ ({v.type, w.type} = {"int", "uint"} /\ v.is = w.is)

CelRelation(op, v, w) ==
    IF op = "eq" THEN Same(v, w)
    ELSE IF op = "ne" THEN ~ Same(v, w)
    ELSE IF v.type # w.type \/ ~ Comparable(op, v, w) THEN Fails
    ELSE Compare(op, v, w)

(* && and || do not fail when one side decides.                            *)
CelJoin(decides, values) ==
    IF decides \in values THEN decides ELSE IF Fails \in values THEN Fails ELSE ~ decides

(* TRUE, FALSE or Fails.  A bare value is not a condition.                 *)
CelNode(n, done, r) ==
    CASE n.node = "paren" -> Kid(done, n.of)
      [] n.node = "and"   -> CelJoin(FALSE, {Kid(done, n.of[i]) : i \in DOMAIN n.of})
      [] n.node = "or"    -> CelJoin(TRUE, {Kid(done, n.of[i]) : i \in DOMAIN n.of})
      [] n.node = "not"   -> IF Kid(done, n.of) = Fails THEN Fails ELSE ~ Kid(done, n.of)
      [] n.node = "cond"  -> IF Kid(done, n.if) = Fails THEN Fails
                             ELSE IF Kid(done, n.if) THEN Kid(done, n.then) ELSE Kid(done, n.else)
      [] n.node = "rel" /\ n.left.node = "ident" /\ n.left.name \in DOMAIN r ->
            (CASE n.op = "in" /\ n.right.node = "list" /\ \A i \in DOMAIN n.right.items : n.right.items[i].node = "literal" ->
                    \E i \in DOMAIN n.right.items : Same(r[n.left.name], n.right.items[i].value)
               [] n.op # "in" /\ n.right.node = "literal" ->
                    CelRelation(n.op, r[n.left.name], n.right.value)
               [] OTHER -> Fails)
      [] n.node = "call" /\ n.method = "contains" /\ n.target.node = "ident" /\ n.target.name \in DOMAIN r
            /\ n.args[1].node = "literal" ->
            CelRelation("contains", r[n.target.name], n.args[1].value)
      [] OTHER -> Fails

Cel(e, r) ==
    LET cel[n \in 0 .. Len(e)] ==
            IF n = 0 THEN <<>>
            ELSE LET done == cel[n - 1] IN Append(done, CelNode(e[n], done, r))
    IN  cel[Len(e)]

-----------------------------------------------------------------------------
(* Two shapes compile to something else: a ternary compiles to its         *)
(* condition, and a uint literal to the string of its digits.              *)
Unsigned(operand) == operand.node = "literal" /\ operand.value.type = "uint"

MisreadNode(n, done) ==
    CASE n.node = "cond" -> TRUE
      [] n.node \in {"and", "or"}    -> \E i \in DOMAIN n.of : Kid(done, n.of[i])
      [] n.node \in {"not", "paren"} -> Kid(done, n.of)
      [] n.node = "rel"  -> \/ Unsigned(n.right)
                            \/ n.right.node = "list" /\ \E i \in DOMAIN n.right.items : Unsigned(n.right.items[i])
      [] OTHER           -> FALSE

Misread(e) ==
    LET misread[n \in 0 .. Len(e)] ==
            IF n = 0 THEN <<>>
            ELSE LET done == misread[n - 1] IN Append(done, MisreadNode(e[n], done))
    IN  misread[Len(e)]

(* Whatever compiles selects the records that CEL finds, the two misread   *)
(* shapes apart.                                                           *)
CompiledMeansSame(e, fields, r) ==
    LET p == Walk(e, fields)
        whole == Len(e)
    IN  p[whole] # NotCompilable /\ ~ Misread(e)[whole] /\ Cel(e, r)[whole] # Fails =>
            Selects(p, r)[whole] = Cel(e, r)[whole]

FieldsNode(p, done) ==
    IF p = NotCompilable THEN {}
    ELSE IF p.op \in {"and", "or", "not"} THEN UNION {done[p.of[i]] : i \in DOMAIN p.of}
    ELSE {p.field}

FieldsIn(ps) ==
    LET found[n \in 0 .. Len(ps)] ==
            IF n = 0 THEN <<>>
            ELSE LET done == found[n - 1] IN Append(done, FieldsNode(ps[n], done))
    IN  found[Len(ps)]

(* The storage provider is asked about fields of the content only.         *)
OnlyFieldsAsked(e, fields) == FieldsIn(Walk(e, fields))[Len(e)] \subseteq fields
=============================================================================
