------------------------------ MODULE Redaction ------------------------------
(***************************************************************************)
(* Confidentiality (confidentiality/redaction.py).  A content has scopes   *)
(* of its own and fields with theirs: [scopes, fields], fields a function  *)
(* from names to [scopes, type].  A value is [redacted |-> FALSE, is |-> v]*)
(* or a marker.  Scopes are numbers, in their alphabetical order.          *)
(***************************************************************************)
EXTENDS Integers, FiniteSets

CONSTANT None       \* null, or not declared

effective_scopes(f, content) == content.scopes \union content.fields[f].scopes

(* A key that the schema does not declare passes.                          *)
Lacks(f, content, caller) ==
    f \in DOMAIN content.fields /\ ~ (effective_scopes(f, content) \subseteq caller)

FirstOf(scopes) == CHOOSE s \in scopes : \A t \in scopes : s <= t

Marker(f, content, caller) ==
    [redacted |-> TRUE, field |-> f, expected_type |-> content.fields[f].type,
     scope |-> FirstOf(effective_scopes(f, content) \ caller)]

(* Pass 1: fields of the record.                                           *)
RedactedInPlace(record, content, caller) ==
    [k \in DOMAIN record |-> IF Lacks(k, content, caller) THEN Marker(k, content, caller) ELSE record[k]]

(* Fault: before v0.9.4 there was no second pass.                          *)
AbsentIgnored(record, content, caller) == {}

Absent(record, content, caller) ==
    {f \in DOMAIN content.fields \ DOMAIN record : Lacks(f, content, caller)}

(* Pass 2: confidential fields that the record does not have.              *)
redact_record(record, content, caller) ==
    LET first  == RedactedInPlace(record, content, caller)
        absent == Absent(record, content, caller)
    IN  [k \in DOMAIN record \union absent |->
            IF k \in absent THEN Marker(k, content, caller) ELSE first[k]]

(* Fault: the scopes of the content are forgotten for writes.              *)
check_write_access_by_field(payload, content, caller) ==
    \A k \in DOMAIN payload \intersect DOMAIN content.fields : content.fields[k].scopes \subseteq caller

check_write_access(payload, content, caller) == \A k \in DOMAIN payload : ~ Lacks(k, content, caller)

(* Check 2: a field the delegate may not see must be null or a marker.     *)
Tainted(value) == ~ value.redacted /\ value.is # None

(* Fault: the scopes of the content are forgotten.                         *)
check_taint_integrity_by_field(records, content, delegate) ==
    \A r \in records : \A k \in DOMAIN r \intersect DOMAIN content.fields :
        ~ (~ (content.fields[k].scopes \subseteq delegate) /\ Tainted(r[k]))

check_taint_integrity(records, content, delegate) ==
    \A r \in records : \A k \in DOMAIN r : ~ (Lacks(k, content, delegate) /\ Tainted(r[k]))

(* Fault: one of the scopes is enough.                                     *)
check_compute_access_any(compute, caller) ==
    compute.mode = "service" \/ compute.required = {} \/ compute.required \intersect caller # {}

(* Check 1, where a compute enters.                                        *)
check_compute_access(compute, caller) ==
    compute.mode = "service" \/ compute.required \subseteq caller

(* Check 4, where its output leaves.                                       *)
enforce_output_taint(compute, caller) ==
    IF compute.output # None THEN compute.output \in caller ELSE compute.required \subseteq caller

-----------------------------------------------------------------------------
(* Two records that differ only in what the caller may not see, in values  *)
(* or in whether there is a value, look the same to the caller.            *)
HidesWhatItHides(r, s, content, caller) ==
    (/\ \A k \in DOMAIN r \union DOMAIN s : ~ Lacks(k, content, caller) => k \in DOMAIN r \intersect DOMAIN s
     /\ \A k \in DOMAIN r \intersect DOMAIN s : ~ Lacks(k, content, caller) => r[k] = s[k])
    => redact_record(r, content, caller) = redact_record(s, content, caller)

(* A caller may write exactly the fields that it would be shown.           *)
WritesWhatItReads(r, content, caller) ==
    check_write_access(r, content, caller)
        <=> \A k \in DOMAIN r : redact_record(r, content, caller)[k] = r[k]

(* The delegate's input passes the integrity check once it is redacted for *)
(* the delegate, whoever it was redacted for before; and the check passes  *)
(* nothing that redaction would still change, but nulls.                   *)
TaintCaught(r, content, first, delegate) ==
    LET seen == redact_record(r, content, first)
    IN  /\ check_taint_integrity({redact_record(seen, content, delegate)}, content, delegate)
        /\ check_taint_integrity({seen}, content, delegate) =>
              \A k \in DOMAIN seen : Lacks(k, content, delegate) =>
                  seen[k].redacted \/ seen[k].is = None

(* Who passes the gate of a delegating compute is given its output, unless *)
(* the output is reclassified.                                             *)
GateMatchesExit(compute, caller) ==
    compute.mode = "delegate" /\ compute.output = None =>
        (check_compute_access(compute, caller) <=> enforce_output_taint(compute, caller))
=============================================================================
