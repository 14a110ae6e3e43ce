----------------------------- MODULE Migration ------------------------------
(***************************************************************************)
(* Schema migration (migrations/, providers/storage_contract.py): a boot   *)
(* compares the deployed schemas with those of the new IR, folds declared  *)
(* renames, relaxes changes of empty tables, and goes ahead only when      *)
(* nothing is blocked and the deploy configuration acknowledges the rest.  *)
(*                                                                         *)
(* A schema maps content names to field names to specs.  Sets stand for    *)
(* the lists of a diff, whose order only matters for printing.  A          *)
(* fingerprint is the body that is hashed: five hex digits of SHA-256 are  *)
(* taken as collision-free.  The boot sequence and the storage provider    *)
(* live outside this repository; its docstrings fix the order of calls.    *)
(***************************************************************************)
EXTENDS Integers, Sequences, FiniteSets, FiniteSetsExt

CONSTANTS
    Schemas,        \* the schemas that are deployed, one after another
    RenameConfigs,  \* [contents, fields]: the rename mappings of a deploy configuration
    None,
    MaxBoots        \* bound: boots of a behaviour

(* What a diff reads of a field's spec.                                    *)
FieldSpec ==
    [business_type : STRING, required : BOOLEAN, unique : BOOLEAN, has_default : BOOLEAN,
     min : {None} \union Int, max : {None} \union Int, enum_values : Seq(STRING),
     cascade_mode : {None} \union STRING, foreign_key : {None} \union STRING]

ASSUME SchemaAssumption ==
    \A s \in Schemas : \A c \in DOMAIN s : \A f \in DOMAIN s[c] : s[c][f] \in FieldSpec

VARIABLES
    current,        \* the schemas deployed last
    target,         \* those of the booting IR
    rows,           \* contents whose table has rows
    renames,        \* rename mappings configured
    blanket,        \* dev_mode and accept_any_low are both set
    acknowledged,   \* <<content, change>>: what the operator has acknowledged
    diff,           \* the content changes found
    stage,          \* what has been computed, or how the boot ended
    boots

vars == <<current, target, rows, renames, blanket, acknowledged, diff, stage, boots>>
config == <<renames, blanket, acknowledged>>

-----------------------------------------------------------------------------
(* Tiers, from harmless to refused.                                        *)
Rank == [safe |-> 0, low |-> 1, medium |-> 2, high |-> 3, blocked |-> 4]
Worst(tiers) == IF tiers = {} THEN "safe" ELSE CHOOSE t \in tiers : \A u \in tiers : Rank[u] <= Rank[t]

Widenings ==
    {<<"whole_number", "number">>} \union
    {<<t, "text">> : t \in {"number", "whole_number", "currency", "percentage", "date", "datetime", "boolean", "enum"}}
LosslessTypeChange(from, to) == from = to \/ <<from, to>> \in Widenings

AddedTier(spec) ==
    CASE spec.foreign_key # None                                          -> "blocked"
      [] spec.foreign_key = None /\ spec.unique                           -> "medium"
      [] spec.foreign_key = None /\ spec.required /\ ~ spec.has_default  -> "medium"
      [] OTHER                                                            -> "safe"

RenamedTier(d) ==
    CASE ~ d.type_changed                                               -> "low"
      [] d.type_changed /\ LosslessTypeChange(d.from_type, d.to_type)  -> "medium"
      [] OTHER                                                          -> "high"

(* classify_field_change.                                                  *)
FieldTier(c) ==
    CASE c.kind = "added"                 -> AddedTier(c.detail.spec)
      [] c.kind = "removed"               -> "blocked"
      [] c.kind = "renamed"               -> RenamedTier(c.detail)
      [] c.kind = "type_changed"          -> IF LosslessTypeChange(c.detail.from_type, c.detail.to_type) THEN "medium" ELSE "blocked"
      [] c.kind = "required_added"        -> "high"
      [] c.kind = "unique_added"          -> "high"
      [] c.kind = "bounds_changed"        -> IF c.detail.tightening THEN "high" ELSE "medium"
      [] c.kind = "enum_values_changed"   -> IF c.detail.removed # {} THEN "high" ELSE "medium"
      [] c.kind = "cascade_mode_changed"  -> "high"
      [] c.kind = "foreign_key_changed"   -> IF c.detail.to = None THEN "medium" ELSE "blocked"
      [] OTHER                            -> "medium"   \* required_removed, unique_removed

ModifiedTier(changes) == Worst({FieldTier(c) : c \in changes})

-----------------------------------------------------------------------------
(* compute_migration_diff.                                                 *)
NoDetail == [x \in {} |-> x]
FieldChange(kind, f, detail) == [kind |-> kind, field |-> f, detail |-> detail]
ContentChange(kind, c, tier, changes, from) ==
    [kind |-> kind, content |-> c, classification |-> tier, field_changes |-> changes, from |-> from]

When(condition, change) == IF condition THEN {change} ELSE {}
Values(seq) == {seq[i] : i \in DOMAIN seq}

(* Fault: a bound where there was none does not count.                     *)
TighteningOfBoth(old, new) ==
    \/ old.min # None /\ new.min # None /\ new.min > old.min
    \/ old.max # None /\ new.max # None /\ new.max < old.max

Tightening(old, new) ==
    \/ new.min # None /\ (old.min = None \/ new.min > old.min)
    \/ new.max # None /\ (old.max = None \/ new.max < old.max)

(* _diff_one_field: one change per aspect that differs.  A different       *)
(* default is no change.                                                   *)
FlagChanges(f, old, new) ==
    UNION {
        When(~ old.required /\ new.required, FieldChange("required_added", f, NoDetail)),
        When(old.required /\ ~ new.required, FieldChange("required_removed", f, NoDetail)),
        When(~ old.unique /\ new.unique, FieldChange("unique_added", f, NoDetail)),
        When(old.unique /\ ~ new.unique, FieldChange("unique_removed", f, NoDetail)) }

(* Fault: what the enum loses is not looked at.                            *)
EnumChangeGrown(f, old, new) ==
    When(Values(new.enum_values) \ Values(old.enum_values) # {},
         FieldChange("enum_values_changed", f, [added   |-> Values(new.enum_values) \ Values(old.enum_values),
                                                removed |-> {}]))

EnumChange(f, old, new) ==
    When(old.enum_values # new.enum_values,
         FieldChange("enum_values_changed", f, [added   |-> Values(new.enum_values) \ Values(old.enum_values),
                                                removed |-> Values(old.enum_values) \ Values(new.enum_values)]))

FieldAspects(f, old, new) ==
    FlagChanges(f, old, new) \union EnumChange(f, old, new) \union
    UNION {
        When(old.business_type # new.business_type,
             FieldChange("type_changed", f, [from_type |-> old.business_type, to_type |-> new.business_type])),
        When(<<old.min, old.max>> # <<new.min, new.max>>,
             FieldChange("bounds_changed", f, [from |-> <<old.min, old.max>>, to |-> <<new.min, new.max>>,
                                               tightening |-> Tightening(old, new)])),
        When(old.cascade_mode # new.cascade_mode,
             FieldChange("cascade_mode_changed", f, [from |-> old.cascade_mode, to |-> new.cascade_mode])),
        When(old.foreign_key # new.foreign_key,
             FieldChange("foreign_key_changed", f, [from |-> old.foreign_key, to |-> new.foreign_key])) }

FieldChanges(old, new) ==
    {FieldChange("removed", f, NoDetail) : f \in DOMAIN old \ DOMAIN new} \union
    {FieldChange("added", f, [spec |-> new[f]]) : f \in DOMAIN new \ DOMAIN old} \union
    UNION {FieldAspects(f, old[f], new[f]) : f \in DOMAIN old \intersect DOMAIN new}

Modified(c, changes) == ContentChange("modified", c, ModifiedTier(changes), changes, None)

MigrationDiff(old, new) ==
    {ContentChange("removed", c, "blocked", {}, None) : c \in DOMAIN old \ DOMAIN new} \union
    {ContentChange("added", c, "safe", {}, None) : c \in DOMAIN new \ DOMAIN old} \union
    {Modified(c, FieldChanges(old[c], new[c])) :
        c \in {b \in DOMAIN old \intersect DOMAIN new : FieldChanges(old[b], new[b]) # {}}}

-----------------------------------------------------------------------------
(* apply_rename_mappings.  Mappings that pass the validation do not touch  *)
(* one another's changes, so folding them one by one is folding them all.  *)
Apart(m, n) == m.from # n.from /\ m.to # n.to

(* M005: field mappings must be distinct within a content, and only the    *)
(* content mappings are checked for cycles.                                *)
WellFormed(r) ==
    /\ \A m \in Values(r.contents) \union Values(r.fields) : m.from # m.to
    /\ \A i, j \in DOMAIN r.contents : i # j => Apart(r.contents[i], r.contents[j])
    /\ \A i, j \in DOMAIN r.contents : r.contents[i].to # r.contents[j].from
    /\ \A i, j \in DOMAIN r.fields :
          i # j /\ r.fields[i].content = r.fields[j].content => Apart(r.fields[i], r.fields[j])

HasPair(changes, name, m) ==
    /\ \E c \in changes : c.kind = "removed" /\ c[name] = m.from
    /\ \E c \in changes : c.kind = "added" /\ c[name] = m.to
Unpaired(changes, name, ms) ==
    {c \in changes : \A m \in ms : /\ ~ (c.kind = "removed" /\ c[name] = m.from)
                                   /\ ~ (c.kind = "added" /\ c[name] = m.to)}

ContentsRenamed(changes, ms) ==
    Unpaired(changes, "content", ms) \union {ContentChange("renamed", m.to, "low", {}, m.from) : m \in ms}

(* A removed field carries no spec, and nothing else in the diff names it: *)
(* the type it had is taken to be the new one's.                           *)
OldType(changes, m, new) ==
    LET known == {c \in changes : c.kind = "type_changed" /\ c.field = m.from} IN
    IF known = {} THEN new ELSE (CHOOSE c \in known : TRUE).detail.from_type

Renamed(changes, m) ==
    LET added == CHOOSE c \in changes : c.kind = "added" /\ c.field = m.to
        new   == added.detail.spec.business_type
        old   == OldType(changes, m, new)
    IN FieldChange("renamed", m.to, [from |-> m.from, to |-> m.to, type_changed |-> old # new,
                                     from_type |-> old, to_type |-> new])

FieldsRenamed(changes, ms) ==
    Unpaired(changes, "field", ms) \union {Renamed(changes, m) : m \in ms}

Mappings(c) == {m \in Values(renames.fields) : m.content = c}

(* M006: every mapping has its pair; a field mapping finds the content     *)
(* among those modified, where a renamed content never is.                 *)
Matches(changes) ==
    /\ \A m \in Values(renames.contents) : HasPair(changes, "content", m)
    /\ \A m \in Values(renames.fields) :
          \E cc \in changes : cc.kind = "modified" /\ cc.content = m.content /\ HasPair(cc.field_changes, "field", m)

Folded(changes) ==
    {IF cc.kind = "modified" /\ Mappings(cc.content) # {}
       THEN Modified(cc.content, FieldsRenamed(cc.field_changes, Mappings(cc.content)))
       ELSE cc
     : cc \in ContentsRenamed(changes, Values(renames.contents))}

-----------------------------------------------------------------------------
(* Fault: a query that fails counts as no rows.                            *)
EmptyOrUnreadable(c, unreadable) == c \notin rows \/ c \in unreadable

(* downgrade_for_empty_tables.  A query that fails counts as rows.         *)
Empty(c, unreadable) == c \notin rows /\ c \notin unreadable

EmptyDowngradeKinds == {"removed", "required_added", "unique_added", "bounds_changed", "enum_values_changed"}
EmptyTier(changes) == Worst({IF c.kind \in EmptyDowngradeKinds THEN "low" ELSE FieldTier(c) : c \in changes})

Downgraded(cc, unreadable) ==
    CASE cc.kind = "removed" /\ Empty(cc.content, unreadable)  -> [cc EXCEPT !.classification = "low"]
      [] cc.kind = "modified" /\ Empty(cc.content, unreadable) -> [cc EXCEPT !.classification = EmptyTier(cc.field_changes)]
      [] OTHER                                                 -> cc

-----------------------------------------------------------------------------
(* Acknowledgements (ack.py).  An added field's default is not hashed.     *)
Normalized(c) == IF c.kind = "added" THEN [c EXCEPT !.detail.spec.has_default = FALSE] ELSE c
ContentBody(cc) == FieldChange(cc.kind, None, [from |-> cc.from])

(* Fault: the detail of a change is left out of its fingerprint.           *)
FingerprintOfKind(c, change) == <<c, change.kind, change.field>>

Fingerprint(c, change) == <<c, Normalized(change)>>

Accepted(c, change) == \E a \in acknowledged : Fingerprint(a[1], a[2]) = Fingerprint(c, change)

(* The tier of a field change is computed again, as if its table had rows; *)
(* what is then blocked is skipped along with what is safe.                *)
MissingOf(cc) ==
    IF cc.classification \in {"safe", "blocked"} THEN {}
    ELSE IF cc.kind = "modified"
    THEN {<<cc.content, c>> : c \in {d \in cc.field_changes :
             ~ Accepted(cc.content, d) /\ FieldTier(d) \notin {"safe", "blocked"}
                                       /\ ~ (FieldTier(d) = "low" /\ blanket)}}
    ELSE IF Accepted(cc.content, ContentBody(cc)) \/ (cc.classification = "low" /\ blanket) THEN {}
    ELSE {<<cc.content, ContentBody(cc)>>}

MissingAcks == UNION {MissingOf(cc) : cc \in diff}

-----------------------------------------------------------------------------
Init ==
    /\ current \in Schemas /\ target = current
    /\ rows \in SUBSET DOMAIN current
    /\ renames \in RenameConfigs
    /\ blanket \in BOOLEAN
    /\ acknowledged = {} /\ diff = {} /\ stage = "up" /\ boots = 0

(* A boot with some IR, the first time or after a refusal.                 *)
Boot(schemas) ==
    /\ stage \in {"up", "refused", "blocked"} /\ boots < MaxBoots
    /\ target' = schemas
    /\ diff' = MigrationDiff(current, schemas)
    /\ stage' = "diffed" /\ boots' = boots + 1
    /\ UNCHANGED <<current, rows, config>>

ApplyRenames ==
    /\ stage = "diffed"
    /\ \/ /\ WellFormed(renames) /\ Matches(diff)
          /\ diff' = Folded(diff) /\ stage' = "renamed"
       \/ /\ ~ (WellFormed(renames) /\ Matches(diff))
          /\ stage' = "refused" /\ UNCHANGED diff
    /\ UNCHANGED <<current, target, rows, config, boots>>

DowngradeEmpty(unreadable) ==
    /\ stage = "renamed"
    /\ diff' = {Downgraded(cc, unreadable) : cc \in diff}
    /\ stage' = "classified"
    /\ UNCHANGED <<current, target, rows, config, boots>>

IsBlocked == \E cc \in diff : cc.classification = "blocked"

Refuse ==
    /\ stage = "classified"
    /\ \/ IsBlocked /\ stage' = "blocked"
       \/ ~ IsBlocked /\ MissingAcks # {} /\ stage' = "unacknowledged"
    /\ UNCHANGED <<current, target, rows, config, diff, boots>>

(* The provider applies the diff in one transaction.                       *)
RowsAfter == {c \in DOMAIN target : c \in rows \/ \E cc \in diff : cc.kind = "renamed" /\ cc.content = c /\ cc.from \in rows}
Migrate ==
    /\ stage = "classified" /\ ~ IsBlocked /\ MissingAcks = {}
    /\ current' = target /\ rows' = RowsAfter
    /\ renames' = [contents |-> <<>>, fields |-> <<>>]
    /\ stage' = "up"
    /\ UNCHANGED <<target, blanket, acknowledged, diff, boots>>

(* Before a high-risk migration the provider is asked for a backup, which  *)
(* fails or is not to be had.                                              *)
HighRisk == \E cc \in diff : cc.classification = "high"
BackupFails ==
    /\ stage = "classified" /\ ~ IsBlocked /\ MissingAcks = {} /\ HighRisk
    /\ stage' = "refused"
    /\ UNCHANGED <<current, target, rows, config, diff, boots>>

(* A change that cannot be applied, or a validation that fails before the  *)
(* commit, rolls the transaction back.                                     *)
RollsBack ==
    /\ stage = "classified" /\ ~ IsBlocked /\ MissingAcks = {} /\ diff # {}
    /\ stage' = "refused"
    /\ UNCHANGED <<current, target, rows, config, diff, boots>>

(* The operator puts the fingerprints the refusal lists into the           *)
(* configuration, where they stay.                                         *)
Acknowledge ==
    /\ stage = "unacknowledged"
    /\ acknowledged' = acknowledged \union MissingAcks
    /\ stage' = "refused"
    /\ UNCHANGED <<current, target, rows, renames, blanket, diff, boots>>

Use(c) ==
    /\ stage = "up" /\ c \notin rows
    /\ rows' = rows \union {c}
    /\ UNCHANGED <<current, target, config, diff, stage, boots>>

Next ==
    \/ \E s \in Schemas : Boot(s)
    \/ ApplyRenames
    \/ \E unreadable \in SUBSET DOMAIN current : DowngradeEmpty(unreadable)
    \/ Refuse \/ Migrate \/ BackupFails \/ RollsBack \/ Acknowledge
    \/ \E c \in DOMAIN current : Use(c)

Spec == Init /\ [][Next]_vars

-----------------------------------------------------------------------------
(* Properties.                                                             *)

(* What a diff says of a field, carried out on the old spec.               *)
Patch(spec, changes) ==
    LET Of(kind) == {c \in changes : c.kind = kind}
        Detail(kind) == (CHOOSE c \in Of(kind) : TRUE).detail
    IN [business_type |-> IF Of("type_changed") = {} THEN spec.business_type ELSE Detail("type_changed").to_type,
        required      |-> (spec.required \/ Of("required_added") # {}) /\ Of("required_removed") = {},
        unique        |-> (spec.unique \/ Of("unique_added") # {}) /\ Of("unique_removed") = {},
        bounds        |-> IF Of("bounds_changed") = {} THEN <<spec.min, spec.max>> ELSE Detail("bounds_changed").to,
        enum          |-> IF Of("enum_values_changed") = {} THEN Values(spec.enum_values)
                          ELSE (Values(spec.enum_values) \ Detail("enum_values_changed").removed)
                                   \union Detail("enum_values_changed").added,
        cascade_mode  |-> IF Of("cascade_mode_changed") = {} THEN spec.cascade_mode ELSE Detail("cascade_mode_changed").to,
        foreign_key   |-> IF Of("foreign_key_changed") = {} THEN spec.foreign_key ELSE Detail("foreign_key_changed").to]

ChangesOf(c, f) == UNION {{d \in cc.field_changes : d.field = f} : cc \in {b \in diff : b.content = c}}

(* The diff leaves nothing out: carried out on the deployed schemas it     *)
(* gives the new ones, defaults and the order of enum values excepted.     *)
(* compute_migration_diff and _diff_one_field.                             *)
DiffExplains ==
    stage = "diffed" =>
        /\ DOMAIN target = (DOMAIN current \ {cc.content : cc \in {b \in diff : b.kind = "removed"}})
                               \union {cc.content : cc \in {b \in diff : b.kind = "added"}}
        /\ \A c \in DOMAIN target \intersect DOMAIN current :
              /\ \A f \in DOMAIN target[c] \intersect DOMAIN current[c] :
                    Patch(current[c][f], ChangesOf(c, f)) = Patch(target[c][f], {})
              /\ \A f \in DOMAIN target[c] \ DOMAIN current[c] :
                    ChangesOf(c, f) = {FieldChange("added", f, [spec |-> target[c][f]])}
              /\ \A f \in DOMAIN current[c] \ DOMAIN target[c] : \E d \in ChangesOf(c, f) : d.kind = "removed"

(* The values a column may hold, numbers doubled to have halves; text      *)
(* holds whatever can be printed.                                          *)
Numbers(step) == {<<"number", n>> : n \in {m \in 0..8 : m % step = 0}}
Booleans == {<<"boolean", b>> : b \in BOOLEAN}
Labels == {<<"label", l>> : l \in {"a", "b"}}
Domain(type) ==
    CASE type = "whole_number" -> Numbers(2)
      [] type = "number"       -> Numbers(1)
      [] type = "boolean"      -> Booleans
      [] type = "enum"         -> Labels
      [] OTHER                 -> Numbers(1) \union Booleans \union Labels
Within(spec, v) ==
    /\ v[1] = "number" /\ spec.business_type # "text" =>
          (spec.min # None => 2 * spec.min <= v[2]) /\ (spec.max # None => v[2] <= 2 * spec.max)
    /\ spec.business_type = "enum" => v[2] \in Values(spec.enum_values)
Holds(spec) == {v \in Domain(spec.business_type) : Within(spec, v)} \union (IF spec.required THEN {} ELSE {<<"null">>})

(* Every row stored under the old spec is a row of the new one.            *)
Compatible(old, new) ==
    /\ Holds(old) \subseteq Holds(new)
    /\ new.unique => old.unique
    /\ new.foreign_key \in {None, old.foreign_key}

(* Tiers are about data: a change that may leave stored rows outside the   *)
(* new schema is high or blocked before emptiness is looked at.            *)
(* classify_field_change and _diff_one_field together.                     *)
TiersSound ==
    stage = "diffed" =>
        \A c \in DOMAIN target \intersect DOMAIN current : \A f \in DOMAIN target[c] \intersect DOMAIN current[c] :
            ~ Compatible(current[c][f], target[c][f]) => \E d \in ChangesOf(c, f) : FieldTier(d) \in {"high", "blocked"}

Migrates == current' # current
RenamedContent(c) == \E m \in Values(renames.contents) : m.from = c
RenamedField(c, f) == \E m \in Values(renames.fields) : m.content = c /\ m.from = f

(* However refusals, acknowledgements and edits of the IR follow one       *)
(* another, a table with rows keeps its place and its columns, declared    *)
(* renames excepted.  downgrade_for_empty_tables and missing_acks.         *)
NothingLost ==
    [][Migrates =>
        \A c \in rows :
            /\ c \in DOMAIN target \/ RenamedContent(c)
            /\ c \in DOMAIN target => \A f \in DOMAIN current[c] : f \in DOMAIN target[c] \/ RenamedField(c, f)]_vars

(* ack.py:15: an acknowledgement given for one change does not cover       *)
(* another.  What is medium or high on a table with rows has been shown to *)
(* the operator in this very shape, a default excepted, and acknowledged.  *)
AcknowledgedAsShown ==
    [][Migrates =>
        \A cc \in diff : cc.kind = "modified" /\ cc.content \in rows =>
            \A d \in cc.field_changes : FieldTier(d) \in {"medium", "high"} =>
                \E a \in acknowledged : a[1] = cc.content /\ Normalized(a[2]) = Normalized(d)]_vars

(* classifier.py:88: "Low if same type; medium if lossless type change;    *)
(* high if lossy."  With the type the field had when it was deployed.      *)
RenamesTiered ==
    stage = "renamed" =>
        \A cc \in diff : cc.kind = "modified" => \A d \in cc.field_changes : d.kind = "renamed" =>
            LET old == current[cc.content][d.detail.from].business_type
                new == target[cc.content][d.field].business_type
            IN old # new => FieldTier(d) = IF LosslessTypeChange(old, new) THEN "medium" ELSE "high"
=============================================================================
