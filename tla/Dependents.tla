----------------------------- MODULE Dependents -----------------------------
(***************************************************************************)
(* What a create and a PUT check of their data (validation/dependents.py,  *)
(* in the order of routing/crud.py).  Data is a function from some of the  *)
(* fields to values; a value carries its type, [type, is].  A schema is    *)
(* [fields, dependent_values]: fields maps every field to its constraints  *)
(* [one_of, enum, minimum, maximum, default], each None when not declared; *)
(* dependent_values is the list of When clauses, [when, field, constraint, *)
(* values], when is None or a test [field, is].                            *)
(***************************************************************************)
EXTENDS Integers, Sequences, Functions

CONSTANT None

Number(n)  == [type |-> "int", is |-> n]
Text(n) == [type |-> "text", is |-> n]      \* the text of a number
Empty   == [type |-> "text", is |-> None]   \* ""
Null    == [type |-> "null", is |-> None]

Missing(data, f) == f \notin DOMAIN data \/ data[f] \in {Null, Empty}

(* type(allowed[0])(value), where that works.                              *)
Coerced(v, allowed) == IF allowed.type = "int" /\ v.type = "text" /\ v.is # None THEN Number(v.is) ELSE v

OneOf(data, f, allowed) == Missing(data, f) \/ Coerced(data[f], allowed[1]) \in Range(allowed)

(* equals lets only null pass, not "".                                     *)
Equals(data, f, required) ==
    f \notin DOMAIN data \/ data[f] = Null \/ Coerced(data[f], required) = required

(* A condition that cannot be evaluated is one that does not hold.         *)
Applies(clause, data) ==
    clause.when = None \/
        (clause.when.field \in DOMAIN data /\ data[clause.when.field] = clause.when.is)

Filled(data, f, v) == [k \in DOMAIN data \union {f} |-> IF k = f THEN v ELSE data[k]]

(* Fault: what the caller says is overwritten.                             *)
FillsAlways(data, f) == TRUE

FillsIn(data, f) == Missing(data, f)

(* Fault: a clause sees the data as it was given.                          *)
SeenAsGiven(given, data) == given

(* What a clause sees: the data as the clauses before have filled it.      *)
SeenBy(given, data) == data

Satisfies(clause, data) ==
    /\ clause.constraint = "one_of" => OneOf(data, clause.field, clause.values)
    /\ clause.constraint = "equals" => Equals(data, clause.field, clause.values[1])

(* One clause of the loop: it refuses, fills in, or lets pass.             *)
Clause(acc, clause, given) ==
    LET seen == SeenBy(given, acc.data) IN
    IF acc.refused \/ ~ Applies(clause, seen) THEN acc
    ELSE IF clause.constraint # "default" THEN [acc EXCEPT !.refused = ~ Satisfies(clause, seen)]
    ELSE IF FillsIn(acc.data, clause.field)
    THEN [acc EXCEPT !.data = Filled(@, clause.field, clause.values[1])] ELSE acc

FieldsHold(data, schema) ==
    \A f \in DOMAIN schema.fields : schema.fields[f].one_of # None => OneOf(data, f, schema.fields[f].one_of)

(* The loop, after the first n clauses.                                    *)
Judged(data, schema) ==
    LET judged[n \in 0 .. Len(schema.dependent_values)] ==
            IF n = 0 THEN [refused |-> ~ FieldsHold(data, schema), data |-> data]
            ELSE Clause(judged[n - 1], schema.dependent_values[n], data)
    IN  judged

validate_dependent_values(data, schema) == Judged(data, schema)[Len(schema.dependent_values)]

(* Empty values pass.                                                      *)
validate_enum_constraints(data, schema) ==
    \A f \in DOMAIN schema.fields \intersect DOMAIN data :
        schema.fields[f].enum # None /\ data[f] \notin {Null, Empty, Number(0)} =>
            data[f] \in Range(schema.fields[f].enum)

(* float(value), where that works.                                         *)
validate_min_max_constraints(data, schema) ==
    \A f \in DOMAIN schema.fields :
        ~ Missing(data, f) =>
            /\ schema.fields[f].minimum # None => data[f].is >= schema.fields[f].minimum
            /\ schema.fields[f].maximum # None => data[f].is <= schema.fields[f].maximum

evaluate_field_defaults(data, schema) ==
    LET defaulted == {f \in DOMAIN schema.fields \ DOMAIN data : schema.fields[f].default # None}
    IN  [f \in DOMAIN data \union defaulted |->
            IF f \in defaulted THEN schema.fields[f].default ELSE data[f]]

strip_unknown_fields(data, schema) ==
    [f \in DOMAIN data \intersect (DOMAIN schema.fields \union {"status"}) |-> data[f]]

(* A create stores what its checks have filled in.                         *)
Created(body, schema) ==
    LET data == evaluate_field_defaults(body, schema)
        checked == validate_dependent_values(data, schema)
    IN  IF /\ validate_enum_constraints(data, schema)
           /\ validate_min_max_constraints(data, schema)
           /\ ~ checked.refused
        THEN strip_unknown_fields(checked.data, schema)
        ELSE None

(* A PUT checks the merged record, When clauses only, and stores the body  *)
(* alone: what a default fills in is dropped.                              *)
Merged(existing, body) ==
    [f \in DOMAIN existing \union DOMAIN body |-> IF f \in DOMAIN body THEN body[f] ELSE existing[f]]

(* Fault: the body is checked by itself.                                   *)
BodyAlone(existing, body) == body

View(existing, body) == Merged(existing, body)

Updated(existing, body, schema) ==
    IF validate_dependent_values(View(existing, body), schema).refused THEN None
    ELSE Merged(existing, body)

-----------------------------------------------------------------------------
Broken(data, schema) ==
    {i \in DOMAIN schema.dependent_values :
        Applies(schema.dependent_values[i], data) /\ ~ Satisfies(schema.dependent_values[i], data)}

(* The fields that a default after clause i can fill in.                   *)
FilledLater(schema, i) ==
    {schema.dependent_values[j].field :
        j \in {j \in DOMAIN schema.dependent_values :
                  j > i /\ schema.dependent_values[j].constraint = "default"}}

DependsOn(clause) == {clause.field} \union (IF clause.when = None THEN {} ELSE {clause.when.field})

(* A created row breaks no When clause, but where a default further down   *)
(* the list filled in a field that the clause had already been judged on.  *)
CreatedRowHolds(body, schema) ==
    LET row == Created(body, schema) IN
    row # None =>
        \A i \in Broken(row, schema) :
            DependsOn(schema.dependent_values[i]) \intersect FilledLater(schema, i)
                \intersect {f \in DOMAIN schema.fields : Missing(evaluate_field_defaults(body, schema), f)} # {}

(* A created row keeps every value the caller gave to a declared field and *)
(* that was not null or empty.                                             *)
CreateKeepsWhatWasSaid(body, schema) ==
    LET row == Created(body, schema) IN
    row # None =>
        \A f \in DOMAIN body \intersect DOMAIN schema.fields :
            ~ Missing(body, f) => row[f] = body[f]

(* A row that a PUT leaves behind breaks no When clause, but where a       *)
(* default earlier in the list stood in for a null or an empty text, which *)
(* the clause then did not see and the PUT does not store.                 *)
UpdatedRowHolds(existing, body, schema) ==
    LET row == Updated(existing, body, schema) IN
    row # None =>
        \A i \in Broken(row, schema) :
            \E j \in 1 .. i - 1 :
                LET default == schema.dependent_values[j] IN
                /\ default.constraint = "default"
                /\ default.field \in DependsOn(schema.dependent_values[i])
                /\ default.field \in DOMAIN row /\ row[default.field] \in {Null, Empty}
=============================================================================
