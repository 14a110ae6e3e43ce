----------------------------- MODULE DataProofs -----------------------------
(***************************************************************************)
(* Proofs about the parts of the core that compute over data: schema       *)
(* migration, for any schemas, renames and order of boots; the redaction   *)
(* of records, for any schema, records, values and scopes; the route table *)
(* and its dispatcher, for any IR and request; the merge of deploy         *)
(* configurations and of presentation bindings, of any length; the         *)
(* boundaries; the When clauses; the reading handlers; and the conditions  *)
(* that are pushed down to storage.  The last section draws them together  *)
(* as theorems of Decisions.                                               *)
(***************************************************************************)
EXTENDS Introspection, Decisions, Functions, SequenceTheorems, FiniteSetTheorems, WellFoundedInduction, TLAPS

-----------------------------------------------------------------------------
(* Tiers.                                                                  *)
Tiers == {"safe", "low", "medium", "high", "blocked"}

LEMMA RanksOrder ==
    /\ Rank["safe"] = 0 /\ Rank["low"] = 1 /\ Rank["medium"] = 2
    /\ Rank["high"] = 3 /\ Rank["blocked"] = 4
BY DEF Rank

(* The worst of some tiers is one of them, and none of them is worse.      *)
LEMMA WorstIsWorst ==
    ASSUME NEW S \in SUBSET Tiers, S # {}
    PROVE  Worst(S) \in S /\ \A u \in S : Rank[u] <= Rank[Worst(S)]
<1>1. \E t \in S : \A u \in S : Rank[u] <= Rank[t]
  <2>1. CASE "blocked" \in S
    BY <2>1, RanksOrder DEF Tiers
  <2>2. CASE "high" \in S /\ "blocked" \notin S
    BY <2>2, RanksOrder DEF Tiers
  <2>3. CASE "medium" \in S /\ "high" \notin S /\ "blocked" \notin S
    BY <2>3, RanksOrder DEF Tiers
  <2>4. CASE "low" \in S /\ "medium" \notin S /\ "high" \notin S /\ "blocked" \notin S
    BY <2>4, RanksOrder DEF Tiers
  <2>5. CASE S = {"safe"}
    BY <2>5, RanksOrder
  <2> QED BY <2>1, <2>2, <2>3, <2>4, <2>5 DEF Tiers
<1>2. Worst(S) = CHOOSE t \in S : \A u \in S : Rank[u] <= Rank[t]
  BY DEF Worst
<1> QED BY <1>1, <1>2

LEMMA FieldTierType ==
    ASSUME NEW c
    PROVE  FieldTier(c) \in Tiers
BY DEF FieldTier, AddedTier, RenamedTier, Tiers

(* A change makes its content at least as risky as it is itself.           *)
LEMMA ModifiedIsAsBad ==
    ASSUME NEW changes, NEW c \in changes
    PROVE  /\ ModifiedTier(changes) \in Tiers
           /\ Rank[FieldTier(c)] <= Rank[ModifiedTier(changes)]
<1> DEFINE S == {FieldTier(d) : d \in changes}
<1>1. S \in SUBSET Tiers /\ FieldTier(c) \in S
  BY FieldTierType
<1> HIDE DEF S
<1>2. Worst(S) \in S /\ Rank[FieldTier(c)] <= Rank[Worst(S)]
  BY <1>1, WorstIsWorst
<1> QED BY <1>1, <1>2 DEF ModifiedTier, S

LEMMA BlockedSpreads ==
    ASSUME NEW changes, NEW c \in changes, FieldTier(c) = "blocked"
    PROVE  ModifiedTier(changes) = "blocked"
BY ModifiedIsAsBad, RanksOrder DEF Tiers

-----------------------------------------------------------------------------
(* What there is in a diff.                                                *)
LEMMA DiffHas ==
    ASSUME NEW old, NEW new, NEW cc
    PROVE  cc \in MigrationDiff(old, new) <=>
              \/ \E c \in DOMAIN old \ DOMAIN new : cc = ContentChange("removed", c, "blocked", {}, None)
              \/ \E c \in DOMAIN new \ DOMAIN old : cc = ContentChange("added", c, "safe", {}, None)
              \/ \E c \in DOMAIN old \intersect DOMAIN new :
                    FieldChanges(old[c], new[c]) # {} /\ cc = Modified(c, FieldChanges(old[c], new[c]))
BY DEF MigrationDiff

LEMMA FieldsHave ==
    ASSUME NEW old, NEW new, NEW d
    PROVE  d \in FieldChanges(old, new) <=>
              \/ \E f \in DOMAIN old \ DOMAIN new : d = FieldChange("removed", f, NoDetail)
              \/ \E f \in DOMAIN new \ DOMAIN old : d = FieldChange("added", f, [spec |-> new[f]])
              \/ \E f \in DOMAIN old \intersect DOMAIN new : d \in FieldAspects(f, old[f], new[f])
BY DEF FieldChanges

LEMMA AspectsAre ==
    ASSUME NEW f, NEW old, NEW new, NEW d
    PROVE  d \in FieldAspects(f, old, new) <=>
              \/ ~ old.required /\ new.required /\ d = FieldChange("required_added", f, NoDetail)
              \/ old.required /\ ~ new.required /\ d = FieldChange("required_removed", f, NoDetail)
              \/ ~ old.unique /\ new.unique /\ d = FieldChange("unique_added", f, NoDetail)
              \/ old.unique /\ ~ new.unique /\ d = FieldChange("unique_removed", f, NoDetail)
              \/ /\ old.enum_values # new.enum_values
                 /\ d = FieldChange("enum_values_changed", f,
                           [added   |-> Values(new.enum_values) \ Values(old.enum_values),
                            removed |-> Values(old.enum_values) \ Values(new.enum_values)])
              \/ /\ old.business_type # new.business_type
                 /\ d = FieldChange("type_changed", f,
                           [from_type |-> old.business_type, to_type |-> new.business_type])
              \/ /\ <<old.min, old.max>> # <<new.min, new.max>>
                 /\ d = FieldChange("bounds_changed", f,
                           [from |-> <<old.min, old.max>>, to |-> <<new.min, new.max>>,
                            tightening |-> Tightening(old, new)])
              \/ /\ old.cascade_mode # new.cascade_mode
                 /\ d = FieldChange("cascade_mode_changed", f,
                           [from |-> old.cascade_mode, to |-> new.cascade_mode])
              \/ /\ old.foreign_key # new.foreign_key
                 /\ d = FieldChange("foreign_key_changed", f,
                           [from |-> old.foreign_key, to |-> new.foreign_key])
BY DEF FieldAspects, FlagChanges, EnumChange, When

-----------------------------------------------------------------------------
(* What the stages of a boot leave for the next one: the diff is still     *)
(* that of the deployed schemas and the booting ones, with the renames     *)
(* folded and then with the empty tables relaxed, and no step between      *)
(* changes what it was computed from.                                      *)
Unfolded == MigrationDiff(current, target)

MigrationInv ==
    /\ current \in Schemas /\ target \in Schemas
    /\ rows \subseteq DOMAIN current
    /\ stage = "diffed" => diff = Unfolded
    /\ stage = "renamed" => diff = Folded(Unfolded)
    /\ stage = "classified" =>
         \E unreadable \in SUBSET DOMAIN current :
            diff = {Downgraded(cc, unreadable) : cc \in Folded(Unfolded)}

LEMMA MigrationInit == Init => MigrationInv
BY DEF Init, MigrationInv

LEMMA MigrationStep == MigrationInv /\ [Next]_vars => MigrationInv'
<1> SUFFICES ASSUME MigrationInv, [Next]_vars PROVE MigrationInv'
  OBVIOUS
<1> USE DEF MigrationInv
<1>1. ASSUME NEW s \in Schemas, Boot(s) PROVE MigrationInv'
  BY <1>1 DEF Boot, Unfolded
<1>2. CASE ApplyRenames
  <2>1. /\ stage = "diffed" /\ stage' \in {"renamed", "refused"}
        /\ stage' = "renamed" => diff' = Folded(diff)
        /\ current' = current /\ target' = target /\ rows' = rows /\ renames' = renames
    BY <1>2 DEF ApplyRenames, config
  <2>2. stage' = "renamed" => diff' = Folded(Unfolded)'
    BY <2>1 DEF Folded, ContentsRenamed, Mappings, Unfolded
  <2> QED BY <2>1, <2>2
<1>3. ASSUME NEW unreadable \in SUBSET DOMAIN current, DowngradeEmpty(unreadable)
      PROVE  MigrationInv'
  <2>1. /\ stage = "renamed" /\ stage' = "classified"
        /\ diff' = {Downgraded(cc, unreadable) : cc \in diff}
        /\ current' = current /\ target' = target /\ rows' = rows /\ renames' = renames
    BY <1>3 DEF DowngradeEmpty, config
  <2>2. diff' = {Downgraded(cc, unreadable)' : cc \in Folded(Unfolded)'}
    <3>1. \A cc : Downgraded(cc, unreadable)' = Downgraded(cc, unreadable)
      BY <2>1 DEF Downgraded, Empty
    <3>2. Folded(Unfolded)' = Folded(Unfolded)
      BY <2>1 DEF Folded, ContentsRenamed, Mappings, Unfolded
    <3> QED BY <2>1, <3>1, <3>2
  <2> QED BY <2>1, <2>2
<1>4. CASE Refuse \/ BackupFails \/ RollsBack \/ Acknowledge
  BY <1>4 DEF Refuse, BackupFails, RollsBack, Acknowledge, config
<1>5. CASE Migrate
  BY <1>5 DEF Migrate, RowsAfter
<1>6. ASSUME NEW c \in DOMAIN current, Use(c) PROVE MigrationInv'
  BY <1>6 DEF Use, config
<1>7. CASE UNCHANGED vars
  <2>1. /\ current' = current /\ target' = target /\ rows' = rows /\ renames' = renames
        /\ stage' = stage /\ diff' = diff
    BY <1>7 DEF vars
  <2>2. Unfolded' = Unfolded
    BY <2>1 DEF Unfolded
  <2>3. Folded(Unfolded)' = Folded(Unfolded)
    BY <2>1 DEF Folded, ContentsRenamed, Mappings, Unfolded
  <2>4. \A cc, unreadable : Downgraded(cc, unreadable)' = Downgraded(cc, unreadable)
    BY <2>1 DEF Downgraded, Empty
  <2>5. \A unreadable : {Downgraded(cc, unreadable)' : cc \in Folded(Unfolded)'}
                            = {Downgraded(cc, unreadable) : cc \in Folded(Unfolded)}
    BY <2>3, <2>4
  <2> QED BY <2>1, <2>2, <2>3, <2>5
<1> QED BY <1>1, <1>2, <1>3, <1>4, <1>5, <1>6, <1>7 DEF Next

LEMMA BootsAreInStep == Spec => []MigrationInv
BY MigrationInit, MigrationStep, PTL DEF Spec

-----------------------------------------------------------------------------
(* What happens to a change between the diff and the decision.             *)

(* The steps that migrate, and what they rely on.                          *)
LEMMA OnlyMigrateMigrates ==
    ASSUME MigrationInv, [Next]_vars, current' # current
    PROVE  /\ Migrate
           /\ stage = "classified" /\ ~ IsBlocked /\ MissingAcks = {}
<1>1. Migrate
  BY DEF Next, Boot, ApplyRenames, DowngradeEmpty, Refuse, BackupFails, RollsBack, Acknowledge,
         Use, config, vars
<1> QED BY <1>1 DEF Migrate

(* A removed content that no mapping names is refused while it has rows.   *)
LEMMA RemovedIsBlocked ==
    ASSUME MigrationInv, stage = "classified", NEW c \in rows, c \notin DOMAIN target,
           ~ RenamedContent(c)
    PROVE  IsBlocked
<1> DEFINE cc == ContentChange("removed", c, "blocked", {}, None)
<1>1. cc \in Unfolded
  BY DiffHas DEF Unfolded, MigrationInv
<1>2. cc.kind = "removed" /\ cc.content = c /\ cc["content"] = c /\ cc.classification = "blocked"
  BY DEF ContentChange
<1>3. cc \in ContentsRenamed(Unfolded, Values(renames.contents))
  BY <1>1, <1>2 DEF ContentsRenamed, Unpaired, RenamedContent
<1> HIDE DEF cc
<1>4. cc \in Folded(Unfolded)
  BY <1>2, <1>3 DEF Folded
<1>5. \A unreadable : Downgraded(cc, unreadable) = cc
  BY <1>2 DEF Downgraded, Empty
<1>6. cc \in diff
  BY <1>4, <1>5 DEF MigrationInv
<1> QED BY <1>2, <1>6 DEF IsBlocked


(* A modified content keeps its tier while it has rows, renames or not.    *)
LEMMA ModifiedKeepsTier ==
    ASSUME MigrationInv, stage = "classified", NEW c \in rows,
           c \in DOMAIN target, FieldChanges(current[c], target[c]) # {}
    PROVE  LET changes == IF Mappings(c) = {} THEN FieldChanges(current[c], target[c])
                          ELSE FieldsRenamed(FieldChanges(current[c], target[c]), Mappings(c))
           IN  Modified(c, changes) \in diff
<1> DEFINE before  == FieldChanges(current[c], target[c])
           changes == IF Mappings(c) = {} THEN before ELSE FieldsRenamed(before, Mappings(c))
<1>1. Modified(c, before) \in Unfolded
  BY DiffHas DEF Unfolded, MigrationInv
<1> HIDE DEF before
<1>2. \A fcs : Modified(c, fcs).kind = "modified" /\ Modified(c, fcs).content = c
               /\ Modified(c, fcs).field_changes = fcs
  BY DEF Modified, ContentChange
<1>3. Modified(c, before) \in ContentsRenamed(Unfolded, Values(renames.contents))
  BY <1>1, <1>2 DEF ContentsRenamed, Unpaired
<1>4. Modified(c, changes) \in Folded(Unfolded)
  <2>1. CASE Mappings(c) = {}
    BY <1>2, <1>3, <2>1 DEF Folded
  <2>2. CASE Mappings(c) # {}
    BY <1>2, <1>3, <2>2 DEF Folded
  <2> QED BY <2>1, <2>2
<1>5. \A unreadable : Downgraded(Modified(c, changes), unreadable) = Modified(c, changes)
  BY <1>2 DEF Downgraded, Empty
<1>6. Modified(c, changes) \in diff
  BY <1>4, <1>5 DEF MigrationInv
<1> QED BY <1>6 DEF before

(* A removed field that no mapping names is refused while its table has    *)
(* rows.                                                                   *)
LEMMA RemovedFieldIsBlocked ==
    ASSUME MigrationInv, stage = "classified", NEW c \in rows, c \in DOMAIN target,
           NEW f \in DOMAIN current[c], f \notin DOMAIN target[c], ~ RenamedField(c, f)
    PROVE  IsBlocked
<1> DEFINE before  == FieldChanges(current[c], target[c])
           changes == IF Mappings(c) = {} THEN before ELSE FieldsRenamed(before, Mappings(c))
           d       == FieldChange("removed", f, NoDetail)
<1>1. d \in before
  BY FieldsHave
<1>2. d.kind = "removed" /\ d.field = f /\ d["field"] = f
  BY DEF FieldChange
<1>3. \A m \in Mappings(c) : m.from # f
  BY DEF Mappings, RenamedField
<1> HIDE DEF before, d
<1>4. d \in changes
  BY <1>1, <1>2, <1>3 DEF FieldsRenamed, Unpaired
<1>5. FieldTier(d) = "blocked"
  BY <1>2 DEF FieldTier
<1>6. Modified(c, changes) \in diff
  BY <1>1, ModifiedKeepsTier DEF before
<1> HIDE DEF changes
<1>7. Modified(c, changes).classification = "blocked"
  BY <1>4, <1>5, BlockedSpreads DEF Modified, ContentChange
<1> QED BY <1>6, <1>7 DEF IsBlocked

(* Whatever is refused, acknowledged and edited in between: a migration    *)
(* that happens takes no table with rows away, nor a column of one, unless *)
(* a declared rename moves it.                                             *)
THEOREM MigrationLosesNothing == Spec => NothingLost
<1>1. ASSUME MigrationInv, [Next]_vars, Migrates, NEW c \in rows
      PROVE  /\ c \in DOMAIN target \/ RenamedContent(c)
             /\ c \in DOMAIN target =>
                   \A f \in DOMAIN current[c] : f \in DOMAIN target[c] \/ RenamedField(c, f)
  BY <1>1, OnlyMigrateMigrates, RemovedIsBlocked, RemovedFieldIsBlocked DEF Migrates
<1>2. MigrationInv /\ [Next]_vars =>
        (Migrates =>
           \A c \in rows :
             /\ c \in DOMAIN target \/ RenamedContent(c)
             /\ c \in DOMAIN target => \A f \in DOMAIN current[c] : f \in DOMAIN target[c] \/ RenamedField(c, f))
  BY <1>1
<1> QED BY <1>2, BootsAreInStep, PTL DEF Spec, NothingLost

(* What is accepted has been shown.                                        *)
LEMMA AcceptedIsShown ==
    ASSUME NEW c, NEW d, Accepted(c, d)
    PROVE  \E a \in acknowledged : a[1] = c /\ Normalized(a[2]) = Normalized(d)
BY DEF Accepted, Fingerprint


LEMMA FoldedIs ==
    ASSUME NEW cc \in Folded(Unfolded)
    PROVE  \/ \E c, fcs : cc = Modified(c, fcs)
           \/ \E kind \in {"removed", "added", "renamed"} : \E c, tier, from :
                 cc = ContentChange(kind, c, tier, {}, from)
<1>1. \A b \in Unfolded :
        \/ \E c, fcs : b = Modified(c, fcs)
        \/ \E kind \in {"removed", "added", "renamed"} : \E c, tier, from :
              b = ContentChange(kind, c, tier, {}, from)
  BY DiffHas DEF Unfolded
<1>2. \A b \in ContentsRenamed(Unfolded, Values(renames.contents)) :
        \/ \E c, fcs : b = Modified(c, fcs)
        \/ \E kind \in {"removed", "added", "renamed"} : \E c, tier, from :
              b = ContentChange(kind, c, tier, {}, from)
  BY <1>1 DEF ContentsRenamed, Unpaired
<1>3. PICK b \in ContentsRenamed(Unfolded, Values(renames.contents)) :
        \/ cc = b
        \/ cc = Modified(b.content, FieldsRenamed(b.field_changes, Mappings(b.content)))
  BY DEF Folded
<1> QED BY <1>2, <1>3

(* What is modified and has rows goes into the decision at its own tier.   *)
LEMMA ModifiedInDiff ==
    ASSUME MigrationInv, stage = "classified", NEW cc \in diff,
           cc.kind = "modified", cc.content \in rows
    PROVE  cc.classification = ModifiedTier(cc.field_changes)
<1>0. PICK unreadable \in SUBSET DOMAIN current :
        diff = {Downgraded(b, unreadable) : b \in Folded(Unfolded)}
  BY DEF MigrationInv
<1>1. PICK b \in Folded(Unfolded) : cc = Downgraded(b, unreadable)
  BY <1>0
<1>2. CASE \E c, fcs : b = Modified(c, fcs)
  <2>1. PICK c, fcs : b = Modified(c, fcs)
    BY <1>2
  <2>2. /\ b.kind = "modified" /\ b.content = c /\ b.field_changes = fcs
        /\ b.classification = ModifiedTier(fcs)
    BY <2>1 DEF Modified, ContentChange
  <2>3. cc.content = c
    BY <1>1, <2>1, <2>2 DEF Downgraded, Modified, ContentChange
  <2>4. cc = b
    BY <1>1, <2>2, <2>3 DEF Downgraded, Empty
  <2> QED BY <2>2, <2>4
<1>3. CASE \E kind \in {"removed", "added", "renamed"} : \E c, tier, from :
              b = ContentChange(kind, c, tier, {}, from)
  <2>1. PICK kind \in {"removed", "added", "renamed"} :
           \E c, tier, from : b = ContentChange(kind, c, tier, {}, from)
    BY <1>3
  <2>2. PICK c, tier, from : b = ContentChange(kind, c, tier, {}, from)
    BY <2>1
  <2>3. cc.kind = kind
    BY <1>1, <2>2 DEF Downgraded, ContentChange
  <2> QED BY <2>1, <2>3
<1> QED BY <1>2, <1>3, FoldedIs

(* Whatever was acknowledged in earlier boots: a change of a table with    *)
(* rows that is more than harmless only migrates when the operator has     *)
(* acknowledged it in this very shape.                                     *)
THEOREM MigrationShowsFirst == Spec => AcknowledgedAsShown
<1>1. ASSUME MigrationInv, [Next]_vars, Migrates, NEW cc \in diff,
             cc.kind = "modified", cc.content \in rows,
             NEW d \in cc.field_changes, FieldTier(d) \in {"medium", "high"}
      PROVE  \E a \in acknowledged : a[1] = cc.content /\ Normalized(a[2]) = Normalized(d)
  <2>1. stage = "classified" /\ ~ IsBlocked /\ MissingAcks = {}
    BY <1>1, OnlyMigrateMigrates DEF Migrates
  <2>2. MissingOf(cc) = {}
    BY <1>1, <2>1 DEF MissingAcks
  <2>3. cc.classification = ModifiedTier(cc.field_changes)
    BY <1>1, <2>1, ModifiedInDiff
  <2>4. cc.classification \notin {"safe", "blocked"}
    <3>1. cc.classification # "blocked"
      BY <1>1, <2>1 DEF IsBlocked
    <3>2. Rank[FieldTier(d)] >= 2
      BY <1>1, RanksOrder
    <3>3. cc.classification # "safe"
      <4>1. FieldTier(d) \in Tiers /\ Rank[FieldTier(d)] <= Rank[ModifiedTier(cc.field_changes)]
        BY <1>1, FieldTierType, ModifiedIsAsBad
      <4> QED BY <1>1, <2>3, <4>1, RanksOrder
    <3> QED BY <3>1, <3>3
  <2>5. Accepted(cc.content, d)
    BY <1>1, <2>2, <2>4 DEF MissingOf
  <2> QED BY <2>5, AcceptedIsShown
<1>2. MigrationInv /\ [Next]_vars =>
        (Migrates =>
           \A cc \in diff : cc.kind = "modified" /\ cc.content \in rows =>
             \A d \in cc.field_changes : FieldTier(d) \in {"medium", "high"} =>
               \E a \in acknowledged : a[1] = cc.content /\ Normalized(a[2]) = Normalized(d))
  BY <1>1
<1> QED BY <1>2, BootsAreInStep, PTL DEF Spec, AcknowledgedAsShown

(* What booting an unchanged IR on a v0.8 database finds of one field.     *)
LEMMA FieldIntrospected ==
    ASSUME NEW f, NEW spec \in FieldSpec, ToldApart(spec)
    PROVE  {<<d.kind, FieldTier(d)>> : d \in FieldAspects(f, IntrospectedField(V8Column(spec)), spec)} =
              When(spec.cascade_mode # None, <<"cascade_mode_changed", "high">>)
              \union When(<<spec.min, spec.max>> # <<None, None>>, <<"bounds_changed", "high">>)
              \union When(spec.foreign_key # None /\ spec.unique, <<"unique_added", "high">>)
<1> DEFINE old == IntrospectedField(V8Column(spec))
           cascade == FieldChange("cascade_mode_changed", f, [from |-> None, to |-> spec.cascade_mode])
           bounds == FieldChange("bounds_changed", f, [from |-> <<None, None>>, to |-> <<spec.min, spec.max>>,
                                                       tightening |-> Tightening(old, spec)])
           unique == FieldChange("unique_added", f, NoDetail)
           reference == spec.foreign_key # None
<1>1. /\ old.required = spec.required /\ old.unique = (~ reference /\ spec.unique)
      /\ old.min = None /\ old.max = None /\ old.enum_values = <<>> /\ old.foreign_key = spec.foreign_key
      /\ old.business_type = IF reference THEN "reference" ELSE BusinessType[SqlType(spec.business_type)]
      /\ old.cascade_mode = IF reference THEN CascadeMode("NO ACTION") ELSE None
  BY DEF IntrospectedField, V8Column
<1>2. old.cascade_mode = None
  BY <1>1 DEF CascadeMode
<1>3. old.business_type = spec.business_type
  <2>1. CASE spec.business_type = "reference"
    BY <1>1, <2>1 DEF ToldApart
  <2>2. CASE spec.business_type \in {"text", "whole_number", "number", "datetime"}
    <3>1. BusinessType[SqlType(spec.business_type)] = spec.business_type
      BY <2>2 DEF BusinessType, SqlType
    <3> QED BY <1>1, <2>2, <3>1 DEF ToldApart
  <2> QED BY <2>1, <2>2 DEF ToldApart
<1>4. spec.required \in BOOLEAN /\ spec.unique \in BOOLEAN
  BY DEF FieldSpec
<1> HIDE DEF old, reference
<1>5. FlagChanges(f, old, spec) = When(reference /\ spec.unique, unique)
  <2>1. /\ (~ old.required /\ spec.required) = FALSE /\ (old.required /\ ~ spec.required) = FALSE
        /\ (~ old.unique /\ spec.unique) = (reference /\ spec.unique) /\ (old.unique /\ ~ spec.unique) = FALSE
    BY <1>1, <1>4
  <2> QED BY <2>1 DEF FlagChanges, When
<1>6. EnumChange(f, old, spec) = {}
  BY <1>1 DEF EnumChange, When, ToldApart
<1>7. FieldAspects(f, old, spec) =
         When(reference /\ spec.unique, unique) \union When(<<spec.min, spec.max>> # <<None, None>>, bounds)
           \union When(spec.cascade_mode # None, cascade)
  <2>1. When(old.business_type # spec.business_type,
             FieldChange("type_changed", f, [from_type |-> old.business_type, to_type |-> spec.business_type])) = {}
    BY <1>3 DEF When
  <2>2. When(old.foreign_key # spec.foreign_key,
             FieldChange("foreign_key_changed", f, [from |-> old.foreign_key, to |-> spec.foreign_key])) = {}
    BY <1>1 DEF When
  <2>3. When(old.cascade_mode # spec.cascade_mode,
             FieldChange("cascade_mode_changed", f, [from |-> old.cascade_mode, to |-> spec.cascade_mode]))
           = When(spec.cascade_mode # None, cascade)
    BY <1>2 DEF When
  <2>4. When(<<old.min, old.max>> # <<spec.min, spec.max>>,
             FieldChange("bounds_changed", f, [from |-> <<old.min, old.max>>, to |-> <<spec.min, spec.max>>,
                                               tightening |-> Tightening(old, spec)]))
           = When(<<spec.min, spec.max>> # <<None, None>>, bounds)
    BY <1>1 DEF When
  <2> HIDE DEF cascade, bounds, unique
  <2> QED BY <1>5, <1>6, <2>1, <2>2, <2>3, <2>4 DEF FieldAspects
<1>8. unique.kind = "unique_added" /\ FieldTier(unique) = "high"
  BY DEF FieldChange, FieldTier
<1>9. cascade.kind = "cascade_mode_changed" /\ FieldTier(cascade) = "high"
  BY DEF FieldChange, FieldTier
<1>10. <<spec.min, spec.max>> # <<None, None>> => bounds.kind = "bounds_changed" /\ FieldTier(bounds) = "high"
  <2>1. <<spec.min, spec.max>> # <<None, None>> => Tightening(old, spec)
    BY <1>1 DEF Tightening
  <2>2. bounds.kind = "bounds_changed" /\ bounds.detail.tightening = Tightening(old, spec)
    BY DEF FieldChange
  <2> HIDE DEF bounds
  <2> QED BY <2>1, <2>2 DEF FieldTier
<1> HIDE DEF cascade, bounds, unique
<1>11. {<<d.kind, FieldTier(d)>> : d \in FieldAspects(f, old, spec)} =
          When(spec.cascade_mode # None, <<"cascade_mode_changed", "high">>)
          \union When(<<spec.min, spec.max>> # <<None, None>>, <<"bounds_changed", "high">>)
          \union When(reference /\ spec.unique, <<"unique_added", "high">>)
  BY <1>7, <1>8, <1>9, <1>10 DEF When
<1> QED BY <1>11 DEF old, reference

(* Whatever the schemas and the boots: what a diff against a database of   *)
(* v0.8 finds of an unchanged IR is what v0.8 did not record, at high risk.*)
THEOREM IntrospectionIsFaithful == Spec => []IntrospectionAgrees
<1>1. MigrationInv => IntrospectionAgrees
  <2>1. SUFFICES ASSUME MigrationInv, NEW c \in DOMAIN target
        PROVE  LET seen == Introspected(V8Table(target[c])) IN
               /\ DOMAIN seen = DOMAIN target[c]
               /\ \A f \in DOMAIN seen : LET spec == target[c][f] IN
                     ToldApart(spec) =>
                         {<<d.kind, FieldTier(d)>> : d \in FieldAspects(f, seen[f], spec)} =
                             When(spec.cascade_mode # None, <<"cascade_mode_changed", "high">>)
                             \union When(<<spec.min, spec.max>> # <<None, None>>, <<"bounds_changed", "high">>)
                             \union When(spec.foreign_key # None /\ spec.unique, <<"unique_added", "high">>)
    BY DEF IntrospectionAgrees
  <2> DEFINE table == V8Table(target[c])
             seen == Introspected(table)
  <2>2. /\ DOMAIN table = DOMAIN target[c] \union {"id"}
        /\ \A f \in DOMAIN target[c] : table[f] = V8Column(target[c][f]) /\ ~ table[f].pk
        /\ "id" \notin DOMAIN target[c] => table["id"].pk
    BY DEF V8Table, V8Column
  <2>3. seen = [f \in {g \in DOMAIN table : ~ (g = "id" /\ table[g].pk)} |-> IntrospectedField(table[f])]
    BY DEF Introspected
  <2> HIDE DEF table, seen
  <2>4. {g \in DOMAIN table : ~ (g = "id" /\ table[g].pk)} = DOMAIN target[c]
    BY <2>2
  <2>5. DOMAIN seen = DOMAIN target[c] /\ \A f \in DOMAIN seen : seen[f] = IntrospectedField(V8Column(target[c][f]))
    BY <2>2, <2>3, <2>4
  <2>6. \A f \in DOMAIN target[c] : target[c][f] \in FieldSpec
    BY <2>1, SchemaAssumption DEF MigrationInv
  <2>7. \A f \in DOMAIN seen : LET spec == target[c][f] IN
           ToldApart(spec) =>
               {<<d.kind, FieldTier(d)>> : d \in FieldAspects(f, seen[f], spec)} =
                   When(spec.cascade_mode # None, <<"cascade_mode_changed", "high">>)
                   \union When(<<spec.min, spec.max>> # <<None, None>>, <<"bounds_changed", "high">>)
                   \union When(spec.foreign_key # None /\ spec.unique, <<"unique_added", "high">>)
    BY <2>5, <2>6, FieldIntrospected
  <2> QED BY <2>5, <2>7 DEF seen, table
<1> QED BY <1>1, MigrationInit, MigrationStep, PTL DEF Spec

-----------------------------------------------------------------------------
(* The diff of two schemas, seen from one field.                           *)
LEMMA ChangesOfContent ==
    ASSUME MigrationInv, stage = "diffed",
           NEW c \in DOMAIN target \intersect DOMAIN current, NEW f
    PROVE  ChangesOf(c, f) = {d \in FieldChanges(current[c], target[c]) : d.field = f}
<1> DEFINE F == FieldChanges(current[c], target[c])
<1>1. diff = Unfolded
  BY DEF MigrationInv
<1>2. \A cc \in diff : cc.content = c => cc = Modified(c, F)
  BY <1>1, DiffHas DEF Unfolded, Modified, ContentChange
<1>3. F # {} => Modified(c, F) \in diff
  BY <1>1, DiffHas DEF Unfolded
<1> HIDE DEF F
<1>4. Modified(c, F).content = c /\ Modified(c, F).field_changes = F
  BY DEF Modified, ContentChange
<1>5. ASSUME NEW d \in ChangesOf(c, f) PROVE d \in F /\ d.field = f
  <2>1. PICK cc \in diff : cc.content = c /\ d \in cc.field_changes /\ d.field = f
    BY <1>5 DEF ChangesOf
  <2> QED BY <1>2, <1>4, <2>1
<1>6. ASSUME NEW d \in F, d.field = f PROVE d \in ChangesOf(c, f)
  BY <1>3, <1>4, <1>6 DEF ChangesOf
<1> QED BY <1>5, <1>6 DEF F

(* A field of both: the aspects in which it differs, and nothing else.     *)
LEMMA ChangesOfField ==
    ASSUME MigrationInv, stage = "diffed",
           NEW c \in DOMAIN target \intersect DOMAIN current,
           NEW f \in DOMAIN target[c] \intersect DOMAIN current[c]
    PROVE  ChangesOf(c, f) = FieldAspects(f, current[c][f], target[c][f])
<1> DEFINE F == FieldChanges(current[c], target[c])
           A(g) == FieldAspects(g, current[c][g], target[c][g])
<1>1. ASSUME NEW g, NEW d \in A(g) PROVE d.field = g
  BY <1>1, AspectsAre DEF FieldChange
<1>2. \A d \in A(f) : d \in F /\ d.field = f
  BY <1>1, FieldsHave
<1>3. ASSUME NEW d \in F, d.field = f PROVE d \in A(f)
  <2>1. CASE \E g \in DOMAIN current[c] \ DOMAIN target[c] : d = FieldChange("removed", g, NoDetail)
    BY <1>3, <2>1 DEF FieldChange
  <2>2. CASE \E g \in DOMAIN target[c] \ DOMAIN current[c] : d = FieldChange("added", g, [spec |-> target[c][g]])
    BY <1>3, <2>2 DEF FieldChange
  <2>3. CASE \E g \in DOMAIN current[c] \intersect DOMAIN target[c] : d \in A(g)
    <3> HIDE DEF A
    <3> QED BY <1>1, <1>3, <2>3
  <2> QED BY <1>3, <2>1, <2>2, <2>3, FieldsHave
<1>4. ChangesOf(c, f) = {d \in F : d.field = f}
  BY ChangesOfContent
<1> HIDE DEF F, A
<1>5. ChangesOf(c, f) = A(f)
  BY <1>2, <1>3, <1>4
<1> QED BY <1>5 DEF A


(* Each kind of change is there once or not at all.                        *)
OfKind(changes, kind) == {d \in changes : d.kind = kind}

LEMMA FlagsByKind ==
    ASSUME NEW f, NEW old, NEW new
    PROVE  LET A == FieldAspects(f, old, new)
           IN  /\ OfKind(A, "required_added") # {} <=> ~ old.required /\ new.required
               /\ OfKind(A, "required_removed") # {} <=> old.required /\ ~ new.required
               /\ OfKind(A, "unique_added") # {} <=> ~ old.unique /\ new.unique
               /\ OfKind(A, "unique_removed") # {} <=> old.unique /\ ~ new.unique
<1> DEFINE A == FieldAspects(f, old, new)
<1>k. \A kind : FieldChange(kind, f, NoDetail).kind = kind
  BY DEF FieldChange
<1>1. OfKind(A, "required_added") # {} <=> ~ old.required /\ new.required
  <2>1. \A d \in A : d.kind = "required_added" => ~ old.required /\ new.required
    BY AspectsAre DEF FieldChange
  <2>2. ~ old.required /\ new.required => FieldChange("required_added", f, NoDetail) \in A
    BY AspectsAre
  <2> HIDE DEF A
  <2> QED BY <1>k, <2>1, <2>2 DEF OfKind
<1>2. OfKind(A, "required_removed") # {} <=> old.required /\ ~ new.required
  <2>1. \A d \in A : d.kind = "required_removed" => old.required /\ ~ new.required
    BY AspectsAre DEF FieldChange
  <2>2. old.required /\ ~ new.required => FieldChange("required_removed", f, NoDetail) \in A
    BY AspectsAre
  <2> HIDE DEF A
  <2> QED BY <1>k, <2>1, <2>2 DEF OfKind
<1>3. OfKind(A, "unique_added") # {} <=> ~ old.unique /\ new.unique
  <2>1. \A d \in A : d.kind = "unique_added" => ~ old.unique /\ new.unique
    BY AspectsAre DEF FieldChange
  <2>2. ~ old.unique /\ new.unique => FieldChange("unique_added", f, NoDetail) \in A
    BY AspectsAre
  <2> HIDE DEF A
  <2> QED BY <1>k, <2>1, <2>2 DEF OfKind
<1>4. OfKind(A, "unique_removed") # {} <=> old.unique /\ ~ new.unique
  <2>1. \A d \in A : d.kind = "unique_removed" => old.unique /\ ~ new.unique
    BY AspectsAre DEF FieldChange
  <2>2. old.unique /\ ~ new.unique => FieldChange("unique_removed", f, NoDetail) \in A
    BY AspectsAre
  <2> HIDE DEF A
  <2> QED BY <1>k, <2>1, <2>2 DEF OfKind
<1> QED BY <1>1, <1>2, <1>3, <1>4

EnumAspect(f, old, new) ==
    FieldChange("enum_values_changed", f,
        [added   |-> Values(new.enum_values) \ Values(old.enum_values),
         removed |-> Values(old.enum_values) \ Values(new.enum_values)])
TypeAspect(f, old, new) ==
    FieldChange("type_changed", f,
        [from_type |-> old.business_type, to_type |-> new.business_type])
BoundsAspect(f, old, new) ==
    FieldChange("bounds_changed", f,
        [from |-> <<old.min, old.max>>, to |-> <<new.min, new.max>>,
         tightening |-> Tightening(old, new)])
CascadeAspect(f, old, new) ==
    FieldChange("cascade_mode_changed", f,
        [from |-> old.cascade_mode, to |-> new.cascade_mode])
ForeignKeyAspect(f, old, new) ==
    FieldChange("foreign_key_changed", f,
        [from |-> old.foreign_key, to |-> new.foreign_key])

LEMMA DetailsByKind ==
    ASSUME NEW f, NEW old, NEW new
    PROVE  LET A == FieldAspects(f, old, new)
           IN  /\ OfKind(A, "enum_values_changed") =
                    When(old.enum_values # new.enum_values, EnumAspect(f, old, new))
               /\ OfKind(A, "type_changed") =
                    When(old.business_type # new.business_type, TypeAspect(f, old, new))
               /\ OfKind(A, "bounds_changed") =
                    When(<<old.min, old.max>> # <<new.min, new.max>>, BoundsAspect(f, old, new))
               /\ OfKind(A, "cascade_mode_changed") =
                    When(old.cascade_mode # new.cascade_mode, CascadeAspect(f, old, new))
               /\ OfKind(A, "foreign_key_changed") =
                    When(old.foreign_key # new.foreign_key, ForeignKeyAspect(f, old, new))
<1> DEFINE A == FieldAspects(f, old, new)
<1>1. OfKind(A, "enum_values_changed") = When(old.enum_values # new.enum_values, EnumAspect(f, old, new))
  <2> DEFINE x == EnumAspect(f, old, new)
  <2>1. \A d \in A : d.kind = "enum_values_changed" => (old.enum_values # new.enum_values) /\ d = x
    BY AspectsAre DEF FieldChange, EnumAspect
  <2>2. old.enum_values # new.enum_values => x \in A
    BY DEF FieldAspects, FlagChanges, EnumChange, When, EnumAspect
  <2>3. x.kind = "enum_values_changed"
    BY DEF FieldChange, EnumAspect
  <2> HIDE DEF A
  <2> QED BY <2>1, <2>2, <2>3 DEF OfKind, When
<1>2. OfKind(A, "type_changed") = When(old.business_type # new.business_type, TypeAspect(f, old, new))
  <2> DEFINE x == TypeAspect(f, old, new)
  <2>1. \A d \in A : d.kind = "type_changed" => (old.business_type # new.business_type) /\ d = x
    BY AspectsAre DEF FieldChange, TypeAspect
  <2>2. old.business_type # new.business_type => x \in A
    BY DEF FieldAspects, FlagChanges, EnumChange, When, TypeAspect
  <2>3. x.kind = "type_changed"
    BY DEF FieldChange, TypeAspect
  <2> HIDE DEF A
  <2> QED BY <2>1, <2>2, <2>3 DEF OfKind, When
<1>3. OfKind(A, "bounds_changed") = When(<<old.min, old.max>> # <<new.min, new.max>>, BoundsAspect(f, old, new))
  <2> DEFINE x == BoundsAspect(f, old, new)
  <2>1. \A d \in A : d.kind = "bounds_changed" => (<<old.min, old.max>> # <<new.min, new.max>>) /\ d = x
    BY AspectsAre DEF FieldChange, BoundsAspect
  <2>2. <<old.min, old.max>> # <<new.min, new.max>> => x \in A
    BY DEF FieldAspects, FlagChanges, EnumChange, When, BoundsAspect
  <2>3. x.kind = "bounds_changed"
    BY DEF FieldChange, BoundsAspect
  <2> HIDE DEF A
  <2> QED BY <2>1, <2>2, <2>3 DEF OfKind, When
<1>4. OfKind(A, "cascade_mode_changed") = When(old.cascade_mode # new.cascade_mode, CascadeAspect(f, old, new))
  <2> DEFINE x == CascadeAspect(f, old, new)
  <2>1. \A d \in A : d.kind = "cascade_mode_changed" => (old.cascade_mode # new.cascade_mode) /\ d = x
    BY AspectsAre DEF FieldChange, CascadeAspect
  <2>2. old.cascade_mode # new.cascade_mode => x \in A
    BY DEF FieldAspects, FlagChanges, EnumChange, When, CascadeAspect
  <2>3. x.kind = "cascade_mode_changed"
    BY DEF FieldChange, CascadeAspect
  <2> HIDE DEF A
  <2> QED BY <2>1, <2>2, <2>3 DEF OfKind, When
<1>5. OfKind(A, "foreign_key_changed") = When(old.foreign_key # new.foreign_key, ForeignKeyAspect(f, old, new))
  <2> DEFINE x == ForeignKeyAspect(f, old, new)
  <2>1. \A d \in A : d.kind = "foreign_key_changed" => (old.foreign_key # new.foreign_key) /\ d = x
    BY AspectsAre DEF FieldChange, ForeignKeyAspect
  <2>2. old.foreign_key # new.foreign_key => x \in A
    BY DEF FieldAspects, FlagChanges, EnumChange, When, ForeignKeyAspect
  <2>3. x.kind = "foreign_key_changed"
    BY DEF FieldChange, ForeignKeyAspect
  <2> HIDE DEF A
  <2> QED BY <2>1, <2>2, <2>3 DEF OfKind, When
<1> QED BY <1>1, <1>2, <1>3, <1>4, <1>5


(* The aspects of a field, carried out on its old spec, give the new one.  *)
LEMMA AspectsExplain ==
    ASSUME NEW f, NEW old \in FieldSpec, NEW new \in FieldSpec
    PROVE  Patch(old, FieldAspects(f, old, new)) = Patch(new, {})
<1> DEFINE A == FieldAspects(f, old, new)
           Detail(kind) == (CHOOSE c \in OfKind(A, kind) : TRUE).detail
<1>0. \A x : (CHOOSE c \in {x} : TRUE) = x
  OBVIOUS
<1> HIDE DEF A
<1>1. new.business_type = IF OfKind(A, "type_changed") = {} THEN old.business_type
                          ELSE Detail("type_changed").to_type
  <2>1. OfKind(A, "type_changed") = When(old.business_type # new.business_type, TypeAspect(f, old, new))
    BY DetailsByKind DEF A
  <2>2. CASE old.business_type = new.business_type
    <3>1. OfKind(A, "type_changed") = {}
      BY <2>1, <2>2 DEF When
    <3> QED BY <2>2, <3>1
  <2>3. CASE old.business_type # new.business_type
    <3>1. OfKind(A, "type_changed") = {TypeAspect(f, old, new)}
      BY <2>1, <2>3 DEF When
    <3>2. TypeAspect(f, old, new).detail =
            [from_type |-> old.business_type, to_type |-> new.business_type]
      BY DEF TypeAspect, FieldChange
    <3>3. Detail("type_changed") = TypeAspect(f, old, new).detail
      BY <1>0, <3>1
    <3> HIDE DEF Detail
    <3> QED BY <2>3, <3>1, <3>2, <3>3
  <2> QED BY <2>2, <2>3
<1>2. new.required = ((old.required \/ OfKind(A, "required_added") # {}) /\ OfKind(A, "required_removed") = {})
  <2>1. /\ OfKind(A, "required_added") # {} <=> ~ old.required /\ new.required
        /\ OfKind(A, "required_removed") # {} <=> old.required /\ ~ new.required
    BY FlagsByKind DEF A
  <2> QED BY <2>1 DEF FieldSpec
<1>3. new.unique = ((old.unique \/ OfKind(A, "unique_added") # {}) /\ OfKind(A, "unique_removed") = {})
  <2>1. /\ OfKind(A, "unique_added") # {} <=> ~ old.unique /\ new.unique
        /\ OfKind(A, "unique_removed") # {} <=> old.unique /\ ~ new.unique
    BY FlagsByKind DEF A
  <2> QED BY <2>1 DEF FieldSpec
<1>4. <<new.min, new.max>> = IF OfKind(A, "bounds_changed") = {} THEN <<old.min, old.max>>
                             ELSE Detail("bounds_changed").to
  <2>1. OfKind(A, "bounds_changed") =
          When(<<old.min, old.max>> # <<new.min, new.max>>, BoundsAspect(f, old, new))
    BY DetailsByKind DEF A
  <2>2. CASE <<old.min, old.max>> = <<new.min, new.max>>
    <3>1. OfKind(A, "bounds_changed") = {}
      BY <2>1, <2>2 DEF When
    <3> QED BY <2>2, <3>1
  <2>3. CASE <<old.min, old.max>> # <<new.min, new.max>>
    <3>1. OfKind(A, "bounds_changed") = {BoundsAspect(f, old, new)}
      BY <2>1, <2>3 DEF When
    <3>2. BoundsAspect(f, old, new).detail =
            [from |-> <<old.min, old.max>>, to |-> <<new.min, new.max>>,
             tightening |-> Tightening(old, new)]
      BY DEF BoundsAspect, FieldChange
    <3>3. Detail("bounds_changed") = BoundsAspect(f, old, new).detail
      BY <1>0, <3>1
    <3> HIDE DEF Detail
    <3> QED BY <2>3, <3>1, <3>2, <3>3
  <2> QED BY <2>2, <2>3
<1>5. Values(new.enum_values) =
        IF OfKind(A, "enum_values_changed") = {} THEN Values(old.enum_values)
        ELSE (Values(old.enum_values) \ Detail("enum_values_changed").removed)
                 \union Detail("enum_values_changed").added
  <2> DEFINE O == Values(old.enum_values)
             N == Values(new.enum_values)
  <2>1. OfKind(A, "enum_values_changed") =
          When(old.enum_values # new.enum_values, EnumAspect(f, old, new))
    BY DetailsByKind DEF A
  <2>2. EnumAspect(f, old, new).detail = [added |-> N \ O, removed |-> O \ N]
    BY DEF EnumAspect, FieldChange
  <2>3. old.enum_values = new.enum_values => O = N
    OBVIOUS
  <2>4. N = (O \ (O \ N)) \union (N \ O)
    OBVIOUS
  <2> HIDE DEF O, N
  <2>5. CASE old.enum_values = new.enum_values
    <3>1. OfKind(A, "enum_values_changed") = {}
      BY <2>1, <2>5 DEF When
    <3> QED BY <2>3, <2>5, <3>1 DEF O, N
  <2>6. CASE old.enum_values # new.enum_values
    <3>1. OfKind(A, "enum_values_changed") # {}
          /\ Detail("enum_values_changed") = [added |-> N \ O, removed |-> O \ N]
      <4>1. OfKind(A, "enum_values_changed") = {EnumAspect(f, old, new)}
        BY <2>1, <2>6 DEF When
      <4> QED BY <1>0, <2>2, <4>1
    <3> QED BY <2>4, <3>1 DEF O, N
  <2> QED BY <2>5, <2>6
<1>6. new.cascade_mode = IF OfKind(A, "cascade_mode_changed") = {} THEN old.cascade_mode
                         ELSE Detail("cascade_mode_changed").to
  <2>1. OfKind(A, "cascade_mode_changed") =
          When(old.cascade_mode # new.cascade_mode, CascadeAspect(f, old, new))
    BY DetailsByKind DEF A
  <2>2. CASE old.cascade_mode = new.cascade_mode
    <3>1. OfKind(A, "cascade_mode_changed") = {}
      BY <2>1, <2>2 DEF When
    <3> QED BY <2>2, <3>1
  <2>3. CASE old.cascade_mode # new.cascade_mode
    <3>1. OfKind(A, "cascade_mode_changed") = {CascadeAspect(f, old, new)}
      BY <2>1, <2>3 DEF When
    <3>2. CascadeAspect(f, old, new).detail =
            [from |-> old.cascade_mode, to |-> new.cascade_mode]
      BY DEF CascadeAspect, FieldChange
    <3>3. Detail("cascade_mode_changed") = CascadeAspect(f, old, new).detail
      BY <1>0, <3>1
    <3> HIDE DEF Detail
    <3> QED BY <2>3, <3>1, <3>2, <3>3
  <2> QED BY <2>2, <2>3
<1>7. new.foreign_key = IF OfKind(A, "foreign_key_changed") = {} THEN old.foreign_key
                        ELSE Detail("foreign_key_changed").to
  <2>1. OfKind(A, "foreign_key_changed") =
          When(old.foreign_key # new.foreign_key, ForeignKeyAspect(f, old, new))
    BY DetailsByKind DEF A
  <2>2. CASE old.foreign_key = new.foreign_key
    <3>1. OfKind(A, "foreign_key_changed") = {}
      BY <2>1, <2>2 DEF When
    <3> QED BY <2>2, <3>1
  <2>3. CASE old.foreign_key # new.foreign_key
    <3>1. OfKind(A, "foreign_key_changed") = {ForeignKeyAspect(f, old, new)}
      BY <2>1, <2>3 DEF When
    <3>2. ForeignKeyAspect(f, old, new).detail =
            [from |-> old.foreign_key, to |-> new.foreign_key]
      BY DEF ForeignKeyAspect, FieldChange
    <3>3. Detail("foreign_key_changed") = ForeignKeyAspect(f, old, new).detail
      BY <1>0, <3>1
    <3> HIDE DEF Detail
    <3> QED BY <2>3, <3>1, <3>2, <3>3
  <2> QED BY <2>2, <2>3
<1>8. \A kind : {c \in {} : c.kind = kind} = {}
  OBVIOUS
<1>9. new.required \in BOOLEAN /\ new.unique \in BOOLEAN
  BY DEF FieldSpec
<1>10. Patch(new, {}) =
         [business_type |-> new.business_type, required |-> new.required, unique |-> new.unique,
          bounds |-> <<new.min, new.max>>, enum |-> Values(new.enum_values),
          cascade_mode |-> new.cascade_mode, foreign_key |-> new.foreign_key]
  <2>1. new.required = ((new.required \/ {} # {}) /\ {} = {})
    BY <1>9
  <2>2. new.unique = ((new.unique \/ {} # {}) /\ {} = {})
    BY <1>9
  <2> QED BY <1>8, <2>1, <2>2 DEF Patch
<1>11. Patch(old, A) =
         [business_type |-> new.business_type, required |-> new.required, unique |-> new.unique,
          bounds |-> <<new.min, new.max>>, enum |-> Values(new.enum_values),
          cascade_mode |-> new.cascade_mode, foreign_key |-> new.foreign_key]
  BY <1>1, <1>2, <1>3, <1>4, <1>5, <1>6, <1>7 DEF Patch, OfKind
<1> QED BY <1>10, <1>11 DEF A


(* A boot that has computed its diff can carry it out: for any two sets of *)
(* schemas the diff names the contents and fields that come and go, and    *)
(* every aspect in which a field that stays differs.                       *)
THEOREM MigrationDiffExplains == Spec => []DiffExplains
<1>1. ASSUME MigrationInv, stage = "diffed" PROVE DiffExplains
  <2>1. diff = Unfolded
    BY <1>1 DEF MigrationInv
  <2>2. DOMAIN target = (DOMAIN current \ {cc.content : cc \in {b \in diff : b.kind = "removed"}})
                            \union {cc.content : cc \in {b \in diff : b.kind = "added"}}
    <3> DEFINE gone == {cc.content : cc \in {b \in diff : b.kind = "removed"}}
               come == {cc.content : cc \in {b \in diff : b.kind = "added"}}
    <3>1. \A c : c \in gone <=> c \in DOMAIN current \ DOMAIN target
      <4>1. ASSUME NEW cc \in diff, cc.kind = "removed" PROVE cc.content \in DOMAIN current \ DOMAIN target
        BY <2>1, <4>1, DiffHas DEF Unfolded, ContentChange, Modified
      <4>2. ASSUME NEW c \in DOMAIN current \ DOMAIN target PROVE c \in gone
        <5>1. ContentChange("removed", c, "blocked", {}, None) \in diff
          BY <2>1, DiffHas DEF Unfolded
        <5> QED BY <5>1 DEF ContentChange
      <4> QED BY <4>1, <4>2
    <3>2. \A c : c \in come <=> c \in DOMAIN target \ DOMAIN current
      <4>1. ASSUME NEW cc \in diff, cc.kind = "added" PROVE cc.content \in DOMAIN target \ DOMAIN current
        BY <2>1, <4>1, DiffHas DEF Unfolded, ContentChange, Modified
      <4>2. ASSUME NEW c \in DOMAIN target \ DOMAIN current PROVE c \in come
        <5>1. ContentChange("added", c, "safe", {}, None) \in diff
          BY <2>1, DiffHas DEF Unfolded
        <5> QED BY <5>1 DEF ContentChange
      <4> QED BY <4>1, <4>2
    <3> HIDE DEF gone, come
    <3>3. \A c : c \in DOMAIN target <=> c \in (DOMAIN current \ gone) \union come
      BY <3>1, <3>2
    <3>4. DOMAIN target = (DOMAIN current \ gone) \union come
      BY <3>3
    <3> QED BY <3>4 DEF gone, come
  <2>3. ASSUME NEW c \in DOMAIN target \intersect DOMAIN current
        PROVE  /\ \A f \in DOMAIN target[c] \intersect DOMAIN current[c] :
                     Patch(current[c][f], ChangesOf(c, f)) = Patch(target[c][f], {})
               /\ \A f \in DOMAIN target[c] \ DOMAIN current[c] :
                     ChangesOf(c, f) = {FieldChange("added", f, [spec |-> target[c][f]])}
               /\ \A f \in DOMAIN current[c] \ DOMAIN target[c] :
                     \E d \in ChangesOf(c, f) : d.kind = "removed"
    <3> DEFINE F == FieldChanges(current[c], target[c])
    <3>1. ASSUME NEW f \in DOMAIN target[c] \intersect DOMAIN current[c]
          PROVE  Patch(current[c][f], ChangesOf(c, f)) = Patch(target[c][f], {})
      <4>1. current[c][f] \in FieldSpec /\ target[c][f] \in FieldSpec
        BY <1>1, SchemaAssumption DEF MigrationInv
      <4>2. ChangesOf(c, f) = FieldAspects(f, current[c][f], target[c][f])
        BY <1>1, ChangesOfField
      <4> QED BY <4>1, <4>2, AspectsExplain
    <3>2. ASSUME NEW f \in DOMAIN target[c] \ DOMAIN current[c]
          PROVE  ChangesOf(c, f) = {FieldChange("added", f, [spec |-> target[c][f]])}
      <4>1. ChangesOf(c, f) = {d \in F : d.field = f}
        BY <1>1, ChangesOfContent
      <4>2. FieldChange("added", f, [spec |-> target[c][f]]) \in F
        BY FieldsHave
      <4>3. FieldChange("added", f, [spec |-> target[c][f]]).field = f
        BY DEF FieldChange
      <4>4. ASSUME NEW d \in F, d.field = f PROVE d = FieldChange("added", f, [spec |-> target[c][f]])
        <5>1. CASE \E g \in DOMAIN current[c] \ DOMAIN target[c] : d = FieldChange("removed", g, NoDetail)
          BY <4>4, <5>1 DEF FieldChange
        <5>2. CASE \E g \in DOMAIN target[c] \ DOMAIN current[c] :
                      d = FieldChange("added", g, [spec |-> target[c][g]])
          <6>1. PICK g \in DOMAIN target[c] \ DOMAIN current[c] :
                      d = FieldChange("added", g, [spec |-> target[c][g]])
            BY <5>2
          <6>2. g = f
            BY <4>4, <6>1 DEF FieldChange
          <6> QED BY <6>1, <6>2
        <5>3. CASE \E g \in DOMAIN current[c] \intersect DOMAIN target[c] :
                      d \in FieldAspects(g, current[c][g], target[c][g])
          <6>1. PICK g \in DOMAIN current[c] \intersect DOMAIN target[c] :
                      d \in FieldAspects(g, current[c][g], target[c][g])
            BY <5>3
          <6>2. d.field = g
            BY <6>1, AspectsAre DEF FieldChange
          <6> QED BY <4>4, <6>1, <6>2
        <5> QED BY <4>4, <5>1, <5>2, <5>3, FieldsHave
      <4> HIDE DEF F
      <4> QED BY <4>1, <4>2, <4>3, <4>4
    <3>3. ASSUME NEW f \in DOMAIN current[c] \ DOMAIN target[c]
          PROVE  \E d \in ChangesOf(c, f) : d.kind = "removed"
      <4>1. ChangesOf(c, f) = {d \in F : d.field = f}
        BY <1>1, ChangesOfContent
      <4>2. FieldChange("removed", f, NoDetail) \in F
        BY FieldsHave
      <4>3. /\ FieldChange("removed", f, NoDetail).field = f
            /\ FieldChange("removed", f, NoDetail).kind = "removed"
        BY DEF FieldChange
      <4> HIDE DEF F
      <4> QED BY <4>1, <4>2, <4>3
    <3> QED BY <3>1, <3>2, <3>3
  <2> QED BY <2>2, <2>3 DEF DiffExplains
<1>2. MigrationInv => DiffExplains
  BY <1>1 DEF DiffExplains
<1> QED BY <1>2, BootsAreInStep, PTL

-----------------------------------------------------------------------------
(* Tiers and stored values.                                                *)

(* What a field may have changed in without a change that is high.         *)
LEMMA MildAspects ==
    ASSUME NEW f, NEW old \in FieldSpec, NEW new \in FieldSpec,
           \A d \in FieldAspects(f, old, new) : FieldTier(d) \notin {"high", "blocked"}
    PROVE  /\ new.required => old.required
           /\ new.unique => old.unique
           /\ LosslessTypeChange(old.business_type, new.business_type)
           /\ <<old.min, old.max>> # <<new.min, new.max>> => ~ Tightening(old, new)
           /\ Values(old.enum_values) \subseteq Values(new.enum_values)
           /\ new.foreign_key \in {None, old.foreign_key}
<1> DEFINE A == FieldAspects(f, old, new)
<1>t. \A d \in A : FieldTier(d) \notin {"high", "blocked"}
  OBVIOUS
<1>1. ~ old.required /\ new.required => FALSE
  <2>1. ~ old.required /\ new.required => FieldChange("required_added", f, NoDetail) \in A
    BY AspectsAre
  <2>2. FieldTier(FieldChange("required_added", f, NoDetail)) = "high"
    BY DEF FieldTier, FieldChange
  <2> HIDE DEF A
  <2> QED BY <1>t, <2>1, <2>2
<1>2. ~ old.unique /\ new.unique => FALSE
  <2>1. ~ old.unique /\ new.unique => FieldChange("unique_added", f, NoDetail) \in A
    BY AspectsAre
  <2>2. FieldTier(FieldChange("unique_added", f, NoDetail)) = "high"
    BY DEF FieldTier, FieldChange
  <2> HIDE DEF A
  <2> QED BY <1>t, <2>1, <2>2
<1>3. old.business_type # new.business_type => LosslessTypeChange(old.business_type, new.business_type)
  <2>1. old.business_type # new.business_type => TypeAspect(f, old, new) \in A
    BY DEF FieldAspects, FlagChanges, EnumChange, When, TypeAspect
  <2>2. ~ LosslessTypeChange(old.business_type, new.business_type) =>
           FieldTier(TypeAspect(f, old, new)) = "blocked"
    BY DEF FieldTier, FieldChange, TypeAspect
  <2> HIDE DEF A
  <2> QED BY <1>t, <2>1, <2>2
<1>4. <<old.min, old.max>> # <<new.min, new.max>> => ~ Tightening(old, new)
  <2>1. <<old.min, old.max>> # <<new.min, new.max>> => BoundsAspect(f, old, new) \in A
    BY DEF FieldAspects, FlagChanges, EnumChange, When, BoundsAspect
  <2>2. Tightening(old, new) => FieldTier(BoundsAspect(f, old, new)) = "high"
    BY DEF FieldTier, FieldChange, BoundsAspect
  <2> HIDE DEF A
  <2> QED BY <1>t, <2>1, <2>2
<1>5. Values(old.enum_values) \subseteq Values(new.enum_values)
  <2>1. old.enum_values # new.enum_values => EnumAspect(f, old, new) \in A
    BY DEF FieldAspects, FlagChanges, EnumChange, When, EnumAspect
  <2>2. Values(old.enum_values) \ Values(new.enum_values) # {} =>
           FieldTier(EnumAspect(f, old, new)) = "high"
    <3>1. /\ EnumAspect(f, old, new).kind = "enum_values_changed"
          /\ EnumAspect(f, old, new).detail.removed = Values(old.enum_values) \ Values(new.enum_values)
      BY DEF FieldChange, EnumAspect
    <3> QED BY <3>1 DEF FieldTier
  <2>3. old.enum_values = new.enum_values => Values(old.enum_values) = Values(new.enum_values)
    OBVIOUS
  <2> HIDE DEF A
  <2> QED BY <1>t, <2>1, <2>2, <2>3
<1>6. new.foreign_key \in {None, old.foreign_key}
  <2>1. old.foreign_key # new.foreign_key => ForeignKeyAspect(f, old, new) \in A
    BY DEF FieldAspects, FlagChanges, EnumChange, When, ForeignKeyAspect
  <2>2. new.foreign_key # None => FieldTier(ForeignKeyAspect(f, old, new)) = "blocked"
    BY DEF FieldTier, FieldChange, ForeignKeyAspect
  <2> HIDE DEF A
  <2> QED BY <1>t, <2>1, <2>2
<1>7. /\ old.required \in BOOLEAN /\ new.required \in BOOLEAN
      /\ old.unique \in BOOLEAN /\ new.unique \in BOOLEAN
  BY DEF FieldSpec
<1>8. LosslessTypeChange(old.business_type, new.business_type)
  BY <1>3 DEF LosslessTypeChange
<1> QED BY <1>1, <1>2, <1>4, <1>5, <1>6, <1>7, <1>8


(* Every type of value is printable, and a whole number is a number.       *)
LEMMA DomainsWiden ==
    ASSUME NEW from, NEW to, LosslessTypeChange(from, to)
    PROVE  Domain(from) \subseteq Domain(to)
<1>1. CASE from = to
  BY <1>1
<1>2. CASE <<from, to>> = <<"whole_number", "number">>
  <2>1. from = "whole_number" /\ to = "number"
    BY <1>2
  <2>2. \A m \in 0 .. 8 : m % 1 = 0
    OBVIOUS
  <2>3. Numbers(2) \subseteq Numbers(1)
    BY <2>2 DEF Numbers
  <2> QED BY <2>1, <2>3 DEF Domain
<1>3. CASE to = "text"
  <2>1. Domain(to) = Numbers(1) \union Booleans \union Labels
    BY <1>3 DEF Domain
  <2>2. \A m \in 0 .. 8 : m % 1 = 0
    OBVIOUS
  <2>3. Numbers(2) \subseteq Numbers(1)
    BY <2>2 DEF Numbers
  <2>4. Domain(from) \in {Numbers(1), Numbers(2), Booleans, Labels, Numbers(1) \union Booleans \union Labels}
    BY DEF Domain
  <2> QED BY <2>1, <2>3, <2>4
<1> QED BY <1>1, <1>2, <1>3 DEF LosslessTypeChange, Widenings

LEMMA NumbersAreNumbers ==
    ASSUME NEW type, NEW v \in Domain(type), v[1] = "number"
    PROVE  v[2] \in Int
<1>1. v \in Numbers(1) \union Numbers(2) \union Booleans \union Labels
  BY DEF Domain
<1>2. ASSUME NEW step, v \in Numbers(step) PROVE v[2] \in Int
  BY <1>2 DEF Numbers
<1>3. v \notin Booleans /\ v \notin Labels
  BY DEF Booleans, Labels
<1> QED BY <1>1, <1>2, <1>3

(* Bounds that are not tightened keep every number.                        *)
LEMMA LooseBoundsKeep ==
    ASSUME NEW old \in FieldSpec, NEW new \in FieldSpec, NEW n \in Int,
           <<old.min, old.max>> # <<new.min, new.max>> => ~ Tightening(old, new),
           old.min # None => 2 * old.min <= n, old.max # None => n <= 2 * old.max
    PROVE  (new.min # None => 2 * new.min <= n) /\ (new.max # None => n <= 2 * new.max)
<1>1. /\ old.min \in {None} \union Int /\ old.max \in {None} \union Int
      /\ new.min \in {None} \union Int /\ new.max \in {None} \union Int
  BY DEF FieldSpec
<1>2. CASE <<old.min, old.max>> = <<new.min, new.max>>
  <2>1. old.min = new.min /\ old.max = new.max
    BY <1>2
  <2> QED BY <2>1
<1>3. CASE ~ Tightening(old, new)
  <2>1. /\ new.min # None => old.min # None /\ ~ (new.min > old.min)
        /\ new.max # None => old.max # None /\ ~ (new.max < old.max)
    BY <1>3 DEF Tightening
  <2> QED BY <1>1, <2>1
<1> QED BY <1>2, <1>3

(* Whatever the schemas: a field that may hold a row the new schema does   *)
(* not is never said to change in low or medium ways only.                 *)
THEOREM MigrationTiersSound == Spec => []TiersSound
<1>1. ASSUME NEW f, NEW old \in FieldSpec, NEW new \in FieldSpec,
             \A d \in FieldAspects(f, old, new) : FieldTier(d) \notin {"high", "blocked"}
      PROVE  Compatible(old, new)
  <2>1. /\ new.required => old.required
        /\ new.unique => old.unique
        /\ LosslessTypeChange(old.business_type, new.business_type)
        /\ <<old.min, old.max>> # <<new.min, new.max>> => ~ Tightening(old, new)
        /\ Values(old.enum_values) \subseteq Values(new.enum_values)
        /\ new.foreign_key \in {None, old.foreign_key}
    BY <1>1, MildAspects
  <2>2. ASSUME NEW v \in Domain(old.business_type), Within(old, v)
        PROVE  v \in Domain(new.business_type) /\ Within(new, v)
    <3>1. v \in Domain(new.business_type)
      BY <2>1, DomainsWiden
    <3>2. new.business_type # "text" => old.business_type # "text"
      BY <2>1 DEF LosslessTypeChange, Widenings
    <3>3. new.business_type = "enum" => old.business_type = "enum"
      BY <2>1 DEF LosslessTypeChange, Widenings
    <3>4. ASSUME v[1] = "number", new.business_type # "text"
          PROVE  (new.min # None => 2 * new.min <= v[2]) /\ (new.max # None => v[2] <= 2 * new.max)
      <4>1. v[2] \in Int
        BY <3>4, NumbersAreNumbers
      <4>2. (old.min # None => 2 * old.min <= v[2]) /\ (old.max # None => v[2] <= 2 * old.max)
        BY <2>2, <3>2, <3>4 DEF Within
      <4> QED BY <2>1, <4>1, <4>2, LooseBoundsKeep
    <3>5. new.business_type = "enum" => v[2] \in Values(new.enum_values)
      BY <2>1, <2>2, <3>3 DEF Within
    <3> QED BY <3>1, <3>4, <3>5 DEF Within
  <2>3. Holds(old) \subseteq Holds(new)
    BY <2>1, <2>2 DEF Holds
  <2> QED BY <2>1, <2>3 DEF Compatible
<1>2. ASSUME MigrationInv, stage = "diffed",
             NEW c \in DOMAIN target \intersect DOMAIN current,
             NEW f \in DOMAIN target[c] \intersect DOMAIN current[c],
             ~ Compatible(current[c][f], target[c][f])
      PROVE  \E d \in ChangesOf(c, f) : FieldTier(d) \in {"high", "blocked"}
  <2>1. current[c][f] \in FieldSpec /\ target[c][f] \in FieldSpec
    BY <1>2, SchemaAssumption DEF MigrationInv
  <2>2. ChangesOf(c, f) = FieldAspects(f, current[c][f], target[c][f])
    BY <1>2, ChangesOfField
  <2> QED BY <1>1, <1>2, <2>1, <2>2
<1>3. MigrationInv => TiersSound
  BY <1>2 DEF TiersSound
<1> QED BY <1>3, BootsAreInStep, PTL

-----------------------------------------------------------------------------
(* Redaction.                                                              *)

(* The keys a caller is shown are those of the record and every field that *)
(* it may not see.                                                         *)
LEMMA ShownKeys ==
    ASSUME NEW r, NEW content, NEW caller
    PROVE  DOMAIN R!redact_record(r, content, caller) =
              DOMAIN r \union {f \in DOMAIN content.fields : R!Lacks(f, content, caller)}
BY DEF R!redact_record, R!Absent

(* What stands at each of them: a marker that the record has no part in,   *)
(* or the record's own value.                                              *)
LEMMA ShownValues ==
    ASSUME NEW r, NEW content, NEW caller, NEW k \in DOMAIN R!redact_record(r, content, caller)
    PROVE  /\ R!Lacks(k, content, caller) =>
                 R!redact_record(r, content, caller)[k] = R!Marker(k, content, caller)
           /\ ~ R!Lacks(k, content, caller) =>
                 k \in DOMAIN r /\ R!redact_record(r, content, caller)[k] = r[k]
BY DEF R!redact_record, R!Absent, R!RedactedInPlace, R!Lacks

LEMMA MarkerIsRedacted ==
    ASSUME NEW k, NEW content, NEW caller
    PROVE  R!Marker(k, content, caller).redacted
BY DEF R!Marker

(* redact_record: a caller cannot tell two records apart that differ only  *)
(* in fields it may not see, in their values or in whether they are there. *)
THEOREM RedactionHides ==
    ASSUME NEW r, NEW s, NEW content, NEW caller
    PROVE  R!HidesWhatItHides(r, s, content, caller)
<1> DEFINE A == R!redact_record(r, content, caller)
           C == R!redact_record(s, content, caller)
           Same == /\ \A k \in DOMAIN r \union DOMAIN s :
                          ~ R!Lacks(k, content, caller) => k \in DOMAIN r \intersect DOMAIN s
                   /\ \A k \in DOMAIN r \intersect DOMAIN s :
                          ~ R!Lacks(k, content, caller) => r[k] = s[k]
<1>1. SUFFICES ASSUME Same PROVE A = C
  BY DEF R!HidesWhatItHides
<1>2. DOMAIN A = DOMAIN C
  <2>1. \A k : R!Lacks(k, content, caller) => k \in DOMAIN content.fields
    BY DEF R!Lacks
  <2>2. DOMAIN A = DOMAIN r \union {f \in DOMAIN content.fields : R!Lacks(f, content, caller)}
    BY ShownKeys
  <2>3. DOMAIN C = DOMAIN s \union {f \in DOMAIN content.fields : R!Lacks(f, content, caller)}
    BY ShownKeys
  <2>4. \A k : k \in DOMAIN A <=> k \in DOMAIN r \/ R!Lacks(k, content, caller)
    BY <2>1, <2>2
  <2>5. \A k : k \in DOMAIN C <=> k \in DOMAIN s \/ R!Lacks(k, content, caller)
    BY <2>1, <2>3
  <2>6. \A k : k \in DOMAIN A <=> k \in DOMAIN C
    BY <1>1, <2>4, <2>5
  <2> QED
    BY <2>6
<1>3. \A k \in DOMAIN A : A[k] = C[k]
  <2>1. SUFFICES ASSUME NEW k \in DOMAIN A PROVE A[k] = C[k]
    OBVIOUS
  <2>2. CASE R!Lacks(k, content, caller)
    BY <1>2, <2>1, <2>2, ShownValues
  <2>3. CASE ~ R!Lacks(k, content, caller)
    BY <1>1, <1>2, <2>1, <2>3, ShownValues
  <2> QED
    BY <2>2, <2>3
<1>4. A = [k \in DOMAIN A |-> A[k]] /\ C = [k \in DOMAIN C |-> C[k]]
  BY DEF R!redact_record
<1> QED
  BY <1>2, <1>3, <1>4

(* check_taint_integrity passes whatever was redacted for the delegate,    *)
(* and only records in which the delegate's hidden fields are markers or   *)
(* null.                                                                   *)
THEOREM TaintIsCaught ==
    ASSUME NEW r, NEW content, NEW first, NEW delegate
    PROVE  R!TaintCaught(r, content, first, delegate)
<1> DEFINE seen == R!redact_record(r, content, first)
           again == R!redact_record(seen, content, delegate)
<1>1. R!check_taint_integrity({again}, content, delegate)
  <2>1. SUFFICES ASSUME NEW k \in DOMAIN again, R!Lacks(k, content, delegate)
                 PROVE  ~ R!Tainted(again[k])
    BY DEF R!check_taint_integrity
  <2>2. again[k] = R!Marker(k, content, delegate)
    BY <2>1, ShownValues
  <2> QED
    BY <2>2, MarkerIsRedacted DEF R!Tainted
<1>2. ASSUME R!check_taint_integrity({seen}, content, delegate),
             NEW k \in DOMAIN seen, R!Lacks(k, content, delegate)
      PROVE  seen[k].redacted \/ seen[k].is = Nothing
  BY <1>2 DEF R!check_taint_integrity, R!Tainted
<1> QED
  BY <1>1, <1>2 DEF R!TaintCaught

(* check_write_access: whoever sends plain values may write them exactly   *)
(* when it would be shown each of them.                                    *)
THEOREM WritesAreReads ==
    ASSUME NEW r, NEW content, NEW caller,
           \A k \in DOMAIN r : r[k].redacted = FALSE
    PROVE  R!WritesWhatItReads(r, content, caller)
<1>1. \A k \in DOMAIN r : k \in DOMAIN R!redact_record(r, content, caller)
  <2>1. DOMAIN R!redact_record(r, content, caller) =
            DOMAIN r \union {f \in DOMAIN content.fields : R!Lacks(f, content, caller)}
    BY ShownKeys
  <2> QED
    BY <2>1
<1>2. ASSUME NEW k \in DOMAIN r
      PROVE  R!redact_record(r, content, caller)[k] = r[k] <=> ~ R!Lacks(k, content, caller)
  <2>1. CASE R!Lacks(k, content, caller)
    BY <1>1, <1>2, <2>1, ShownValues, MarkerIsRedacted
  <2>2. CASE ~ R!Lacks(k, content, caller)
    BY <1>1, <1>2, <2>2, ShownValues
  <2> QED
    BY <2>1, <2>2
<1> QED
  BY <1>2 DEF R!WritesWhatItReads, R!check_write_access

-----------------------------------------------------------------------------
(* Induction up to N, over a set.                                          *)
LEMMA UpTo ==
    ASSUME NEW N \in Nat, NEW T, 0 \in T, \A n \in 1 .. N : n - 1 \in T => n \in T
    PROVE  0 .. N \subseteq T
<1> DEFINE Less == {p \in Nat \X Nat : p[1] < p[2]}
           Out  == (0 .. N) \ T
<1>1. IsWellFoundedOn(Less, Nat)
  BY NatLessThanWellFounded DEF OpToRel
<1>2. \A m, n \in Nat : <<m, n>> \notin Less => n <= m
  BY SMT
<1>3. SUFFICES ASSUME Out # {} PROVE FALSE
  OBVIOUS
<1>4. Out \subseteq Nat
  OBVIOUS
<1>5. PICK n \in Out : \A m \in Out : n <= m
  <2> HIDE DEF Less, Out
  <2>1. PICK n \in Out : \A m \in Out : <<m, n>> \notin Less
    BY <1>1, <1>3, <1>4, WFMin
  <2> QED BY <1>2, <1>4, <2>1
<1>6. n \in 1 .. N /\ n - 1 \in 0 .. N
  OBVIOUS
<1> QED BY <1>5, <1>6

(* A recursion over 1 .. N whose step is a function on a set A has a        *)
(* solution.                                                               *)
Steps(N, A) == [(1 .. N) \X A -> A]

Recurs(f, N, A, base, step) ==
    f \in [0 .. N -> A] /\ f[0] = base /\ \A n \in 1 .. N : f[n] = step[<<n, f[n - 1]>>]

LEMMA Recursion ==
    ASSUME NEW N \in Nat, NEW A, NEW base \in A, NEW step \in Steps(N, A)
    PROVE  \E f : Recurs(f, N, A, base, step)
<1> USE DEF Steps
<1> DEFINE Upto(n, g) == /\ g \in [0 .. n -> A] /\ g[0] = base
                         /\ \A m \in 1 .. n : g[m] = step[<<m, g[m - 1]>>]
           T == {n \in 0 .. N : \E g : Upto(n, g)}
<1>1. 0 \in T
  <2>1. Upto(0, [m \in 0 .. 0 |-> base])
    OBVIOUS
  <2> HIDE DEF Upto
  <2> QED BY <2>1
<1>2. ASSUME NEW n \in 1 .. N, n - 1 \in T PROVE n \in T
  <2>1. PICK g : Upto(n - 1, g)
    BY <1>2
  <2> DEFINE h == [m \in 0 .. n |-> IF m = n THEN step[<<n, g[n - 1]>>] ELSE g[m]]
  <2>2. /\ h[0] = base /\ h[n] = step[<<n, g[n - 1]>>] /\ \A m \in 0 .. n - 1 : h[m] = g[m]
    BY <2>1
  <2>3. step[<<n, g[n - 1]>>] \in A
    BY <2>1
  <2>4. h \in [0 .. n -> A]
    BY <2>1, <2>3
  <2>5. ASSUME NEW m \in 1 .. n PROVE h[m] = step[<<m, h[m - 1]>>]
    <3>1. m - 1 \in 0 .. n - 1 /\ h[m - 1] = g[m - 1]
      BY <2>2, <2>5
    <3> HIDE DEF h
    <3>2. CASE m = n
      BY <2>2, <3>1, <3>2
    <3>3. CASE m # n
      <4>1. m \in 1 .. n - 1 /\ m \in 0 .. n - 1
        BY <2>5, <3>3
      <4> QED BY <2>1, <2>2, <3>1, <4>1
    <3> QED BY <3>2, <3>3
  <2>6. Upto(n, h)
    <3> HIDE DEF h
    <3> QED BY <2>2, <2>4, <2>5
  <2> HIDE DEF Upto
  <2> QED BY <2>6
<1>3. N \in T
  <2> HIDE DEF T
  <2> QED BY <1>1, <1>2, UpTo
<1>4. PICK g : Upto(N, g)
  BY <1>3
<1> QED BY <1>4 DEF Recurs

-----------------------------------------------------------------------------
(* The route table: content routes first, in the order of the IR.          *)
FromContent(ir) == {Rt!ContentRoute(ir.routes[i]) : i \in DOMAIN ir.routes}

LEMMA ContentRoutesAre ==
    ASSUME NEW S, NEW ir, ir.routes \in Seq(S)
    PROVE  /\ Rt!ContentRoutes(ir) \in [0 .. Len(ir.routes) -> Seq(FromContent(ir))]
           /\ Rt!ContentRoutes(ir)[0] = <<>>
           /\ \A n \in 1 .. Len(ir.routes) :
                 Rt!ContentRoutes(ir)[n] =
                     IF ir.routes[n].kind \in Rt!Kinds
                     THEN Append(Rt!ContentRoutes(ir)[n - 1], Rt!ContentRoute(ir.routes[n]))
                     ELSE Rt!ContentRoutes(ir)[n - 1]
<1> DEFINE N == Len(ir.routes)
           B == FromContent(ir)
           A == Seq(B)
           Next1(n, a) == IF ir.routes[n].kind \in Rt!Kinds THEN Append(a, Rt!ContentRoute(ir.routes[n])) ELSE a
           step == [p \in (1 .. N) \X A |-> Next1(p[1], p[2])]
           g == Rt!ContentRoutes(ir)
           Solves(f) == f = [n \in 0 .. N |-> IF n = 0 THEN <<>> ELSE Next1(n, f[n - 1])]
<1>1. N \in Nat /\ <<>> \in A
  OBVIOUS
<1>2. \A n \in 1 .. N : Rt!ContentRoute(ir.routes[n]) \in B
  BY DEF FromContent
<1>3. \A n \in 1 .. N, a \in A : Next1(n, a) \in A
  <2> HIDE DEF B
  <2> QED BY <1>2
<1>4. step \in Steps(N, A) /\ \A n \in 1 .. N, a \in A : step[<<n, a>>] = Next1(n, a)
  <2> HIDE DEF N, A, Next1
  <2> QED BY <1>3 DEF Steps
<1>5. g = CHOOSE f : Solves(f)
  BY DEF Rt!ContentRoutes
<1> DEFINE base == <<>>
<1>6. base \in A /\ N \in Nat
  BY <1>1
<1> HIDE DEF N, A, B, Next1, step, g, base
<1>7. PICK f \in [0 .. N -> A] : f[0] = base /\ \A n \in 1 .. N : f[n] = step[<<n, f[n - 1]>>]
  <2>1. \E f : Recurs(f, N, A, base, step)
    BY <1>4, <1>6, Recursion
  <2> QED BY <2>1 DEF Recurs
<1>8. Solves(f)
  <2>1. \A n \in 0 .. N : f[n] = IF n = 0 THEN <<>> ELSE Next1(n, f[n - 1])
    <3>1. SUFFICES ASSUME NEW n \in 0 .. N PROVE f[n] = IF n = 0 THEN <<>> ELSE Next1(n, f[n - 1])
      OBVIOUS
    <3>2. CASE n = 0
      BY <1>7, <3>2 DEF base
    <3>3. CASE n # 0
      <4>1. n \in 1 .. N /\ n - 1 \in 0 .. N
        BY <1>6, <3>3
      <4> QED BY <1>4, <1>7, <3>3, <4>1
    <3> QED BY <3>2, <3>3
  <2> QED BY <1>7, <2>1
<1>9. Solves(g)
  <2> HIDE DEF Solves
  <2> QED BY <1>5, <1>8
<1>10. g[0] = <<>> /\ \A n \in 1 .. N : g[n] = Next1(n, g[n - 1])
  BY <1>6, <1>9
<1> DEFINE H == {n \in 0 .. N : g[n] \in A}
<1>11. 0 .. N \subseteq H
  <2>1. 0 \in H
    BY <1>1, <1>6, <1>10
  <2>2. \A n \in 1 .. N : n - 1 \in H => n \in H
    BY <1>3, <1>6, <1>10
  <2> HIDE DEF H
  <2> QED BY <1>6, <2>1, <2>2, UpTo
<1>12. g \in [0 .. N -> A]
  BY <1>9, <1>11
<1> QED BY <1>10, <1>12 DEF g, N, A, B, Next1

(* Which of them stands where: a content route stands behind those of the  *)
(* routes that the IR lists before its own.                                *)
Stands(ir, specs, m, i) ==
    /\ ir.routes[i].kind \in Rt!Kinds
    /\ specs[m] = Rt!ContentRoute(ir.routes[i])
    /\ \A j \in 1 .. i - 1 : ir.routes[j].kind \in Rt!Kinds =>
          \E k \in 1 .. m - 1 : specs[k] = Rt!ContentRoute(ir.routes[j])

LEMMA ContentRoutesInOrder ==
    ASSUME NEW S, NEW ir, ir.routes \in Seq(S),
           NEW m \in 1 .. Len(Rt!ContentRoutes(ir)[Len(ir.routes)])
    PROVE  \E i \in 1 .. Len(ir.routes) : Stands(ir, Rt!ContentRoutes(ir)[Len(ir.routes)], m, i)
<1> DEFINE N == Len(ir.routes)
           g == Rt!ContentRoutes(ir)
           B == FromContent(ir)
           All(n) == \A j \in 1 .. n : ir.routes[j].kind \in Rt!Kinds =>
                        \E k \in 1 .. Len(g[n]) : g[n][k] = Rt!ContentRoute(ir.routes[j])
           Each(n) == \A l \in 1 .. Len(g[n]) : \E i \in 1 .. n : Stands(ir, g[n], l, i)
           H == {n \in 0 .. N : All(n) /\ Each(n)}
<1>1. /\ N \in Nat /\ g \in [0 .. N -> Seq(B)] /\ g[0] = <<>>
      /\ \A n \in 1 .. N : g[n] = IF ir.routes[n].kind \in Rt!Kinds
                                  THEN Append(g[n - 1], Rt!ContentRoute(ir.routes[n])) ELSE g[n - 1]
  BY ContentRoutesAre
<1> HIDE DEF g, N, B
<1>2. 0 \in H
  BY <1>1
<1>3. ASSUME NEW n \in 1 .. N, n - 1 \in H PROVE n \in H
  <2>1. n - 1 \in 0 .. N /\ g[n - 1] \in Seq(B) /\ All(n - 1) /\ Each(n - 1) /\ n \in 0 .. N /\ n \in Nat
    <3>1. n - 1 \in 0 .. N /\ All(n - 1) /\ Each(n - 1)
      BY <1>3
    <3> HIDE DEF All, Each, H
    <3>2. n - 1 \in 0 .. N /\ n \in 0 .. N /\ n \in Nat
      BY <1>1, <1>3, <3>1
    <3> QED BY <1>1, <3>1, <3>2
  <2>2. CASE ir.routes[n].kind \notin Rt!Kinds
    <3>1. g[n] = g[n - 1]
      BY <1>1, <2>2
    <3>2. All(n)
      BY <2>1, <2>2, <3>1
    <3>3. Each(n)
      BY <2>1, <3>1
    <3> QED BY <2>1, <3>2, <3>3
  <2>3. CASE ir.routes[n].kind \in Rt!Kinds
    <3> DEFINE r == Rt!ContentRoute(ir.routes[n])
               L == Len(g[n - 1])
    <3>1. g[n] = Append(g[n - 1], r)
      BY <1>1, <2>3
    <3>2. L \in Nat /\ Len(g[n]) = L + 1 /\ g[n][L + 1] = r /\ \A k \in 1 .. L : g[n][k] = g[n - 1][k]
      <4> HIDE DEF r
      <4> QED BY <2>1, <3>1
    <3> HIDE DEF r, L
    <3>3. \A j \in 1 .. n - 1 : ir.routes[j].kind \in Rt!Kinds =>
             \E k \in 1 .. L : g[n][k] = Rt!ContentRoute(ir.routes[j])
      BY <2>1, <3>2 DEF L
    <3>4. All(n)
      <4>1. SUFFICES ASSUME NEW j \in 1 .. n, ir.routes[j].kind \in Rt!Kinds
                     PROVE  \E k \in 1 .. Len(g[n]) : g[n][k] = Rt!ContentRoute(ir.routes[j])
        OBVIOUS
      <4>2. CASE j = n
        BY <3>2, <4>2 DEF r
      <4>3. CASE j # n
        BY <2>1, <3>2, <3>3, <4>1, <4>3
      <4> QED BY <4>2, <4>3
    <3>5. Each(n)
      <4>1. SUFFICES ASSUME NEW l \in 1 .. Len(g[n]) PROVE \E i \in 1 .. n : Stands(ir, g[n], l, i)
        OBVIOUS
      <4>2. CASE l = L + 1
        <5>1. Stands(ir, g[n], l, n)
          BY <2>3, <3>2, <3>3, <4>2 DEF Stands, r
        <5> QED BY <5>1
      <4>3. CASE l # L + 1
        <5>1. l \in 1 .. L
          BY <3>2, <4>1, <4>3
        <5>2. PICK i \in 1 .. n - 1 : Stands(ir, g[n - 1], l, i)
          BY <2>1, <5>1 DEF L
        <5>3. Stands(ir, g[n], l, i)
          BY <3>2, <5>1, <5>2 DEF Stands
        <5> QED BY <5>3
      <4> QED BY <4>2, <4>3
    <3> QED BY <2>1, <3>4, <3>5
  <2> QED BY <2>2, <2>3
<1>4. N \in H
  <2> HIDE DEF H
  <2>1. 0 .. N \subseteq H
    BY <1>1, <1>2, <1>3, UpTo
  <2> QED BY <1>1, <2>1
<1> QED BY <1>4 DEF N, g

(* The routes of the channels follow, and are about no content.            *)
ActionsOf(channel) == {channel.actions[i] : i \in DOMAIN channel.actions}
FromChannel(channel) ==
    {Rt!ChannelRoute(channel, last, handler) :
        last \in {"send", "webhook"} \union ActionsOf(channel),
        handler \in {"channel_send", "channel_invoke", "webhook"}}
FromChannels(ir) == UNION {FromChannel(ir.channels[n]) : n \in DOMAIN ir.channels}

LEMMA ChannelRoutesAre ==
    ASSUME NEW C, NEW Y, NEW ir, ir.channels \in Seq(C), NEW n \in 1 .. Len(ir.channels),
           ir.channels[n].actions \in Seq(Y)
    PROVE  Rt!ChannelRoutes(ir.channels[n]) \in Seq(FromChannels(ir))
<1> DEFINE ch == ir.channels[n]
           B == FromChannels(ir)
           invoked == [i \in DOMAIN ch.actions |-> Rt!ChannelRoute(ch, ch.actions[i], "channel_invoke")]
           inbound == IF ch.direction \in {"inbound", "bidirectional"}
                      THEN <<Rt!ChannelRoute(ch, "webhook", "webhook")>> ELSE <<>>
<1>1. n \in DOMAIN ir.channels
  OBVIOUS
<1>9. FromChannel(ch) \subseteq B
  BY <1>1 DEF FromChannels
<1>2. Rt!ChannelRoute(ch, "send", "channel_send") \in B /\ Rt!ChannelRoute(ch, "webhook", "webhook") \in B
  BY <1>9 DEF FromChannel
<1>3. \A i \in DOMAIN ch.actions : Rt!ChannelRoute(ch, ch.actions[i], "channel_invoke") \in B
  <2> HIDE DEF ch, B
  <2>1. \A i \in DOMAIN ch.actions : ch.actions[i] \in ActionsOf(ch)
    BY DEF ActionsOf
  <2>2. \A a \in ActionsOf(ch) : Rt!ChannelRoute(ch, a, "channel_invoke") \in FromChannel(ch)
    BY DEF FromChannel
  <2> QED BY <1>9, <2>1, <2>2
<1>4. DOMAIN ch.actions = 1 .. Len(ch.actions) /\ Len(ch.actions) \in Nat
  OBVIOUS
<1>5. Rt!ChannelRoutes(ch) = <<Rt!ChannelRoute(ch, "send", "channel_send")>> \o invoked \o inbound
  BY DEF Rt!ChannelRoutes
<1> HIDE DEF B
<1>6. invoked \in Seq(B)
  BY <1>3, <1>4
<1>7. inbound \in Seq(B) /\ <<Rt!ChannelRoute(ch, "send", "channel_send")>> \in Seq(B)
  BY <1>2
<1> HIDE DEF ch, invoked, inbound
<1> QED BY <1>5, <1>6, <1>7 DEF ch, B

(* An IR: a list of routes, and one of channels that have lists of actions.*)
Irs(ir) ==
    /\ \E S : ir.routes \in Seq(S)
    /\ \E C : ir.channels \in Seq(C)
    /\ \E Y : \A n \in 1 .. Len(ir.channels) : ir.channels[n].actions \in Seq(Y)

LEMMA WithChannelsAre ==
    ASSUME NEW ir, Irs(ir)
    PROVE  /\ Rt!WithChannels(ir) \in [0 .. Len(ir.channels) -> Seq(FromContent(ir) \union FromChannels(ir))]
           /\ Rt!WithChannels(ir)[0] = Rt!ContentRoutes(ir)[Len(ir.routes)]
           /\ \A n \in 1 .. Len(ir.channels) :
                 Rt!WithChannels(ir)[n] = Rt!WithChannels(ir)[n - 1] \o Rt!ChannelRoutes(ir.channels[n])
<1> DEFINE N == Len(ir.channels)
           B == FromContent(ir) \union FromChannels(ir)
           A == Seq(B)
           base == Rt!ContentRoutes(ir)[Len(ir.routes)]
           Next1(n, a) == a \o Rt!ChannelRoutes(ir.channels[n])
           step == [p \in (1 .. N) \X A |-> Next1(p[1], p[2])]
           g == Rt!WithChannels(ir)
           Solves(f) == f = [n \in 0 .. N |-> IF n = 0 THEN base ELSE Next1(n, f[n - 1])]
<1>20. PICK S : ir.routes \in Seq(S)
  BY DEF Irs
<1>21. PICK C : ir.channels \in Seq(C)
  BY DEF Irs
<1>22. PICK Y : \A n \in 1 .. Len(ir.channels) : ir.channels[n].actions \in Seq(Y)
  BY DEF Irs
<1>1. N \in Nat
  BY <1>21
<1>2. base \in A
  <2>1. base \in Seq(FromContent(ir))
    <3>1. Len(ir.routes) \in 0 .. Len(ir.routes)
      BY <1>20
    <3> QED BY <1>20, <3>1, ContentRoutesAre
  <2> QED BY <2>1
<1>3. \A n \in 1 .. N : Rt!ChannelRoutes(ir.channels[n]) \in Seq(B)
  <2>1. SUFFICES ASSUME NEW n \in 1 .. N PROVE Rt!ChannelRoutes(ir.channels[n]) \in Seq(B)
    OBVIOUS
  <2>2. Rt!ChannelRoutes(ir.channels[n]) \in Seq(FromChannels(ir))
    BY <1>21, <1>22, ChannelRoutesAre
  <2> QED BY <2>2
<1>4. \A n \in 1 .. N, a \in A : Next1(n, a) \in A
  <2> HIDE DEF B, N
  <2> QED BY <1>3
<1>5. step \in Steps(N, A) /\ \A n \in 1 .. N, a \in A : step[<<n, a>>] = Next1(n, a)
  <2> HIDE DEF N, A, Next1
  <2> QED BY <1>4 DEF Steps
<1>6. g = CHOOSE f : Solves(f)
  BY DEF Rt!WithChannels
<1> HIDE DEF N, A, B, Next1, step, g, base
<1>7. PICK f \in [0 .. N -> A] : f[0] = base /\ \A n \in 1 .. N : f[n] = step[<<n, f[n - 1]>>]
  <2>1. \E f : Recurs(f, N, A, base, step)
    BY <1>1, <1>2, <1>5, Recursion
  <2> QED BY <2>1 DEF Recurs
<1>8. Solves(f)
  <2>1. \A n \in 0 .. N : f[n] = IF n = 0 THEN base ELSE Next1(n, f[n - 1])
    <3>1. SUFFICES ASSUME NEW n \in 0 .. N PROVE f[n] = IF n = 0 THEN base ELSE Next1(n, f[n - 1])
      OBVIOUS
    <3>2. CASE n = 0
      BY <1>7, <3>2
    <3>3. CASE n # 0
      <4>1. n \in 1 .. N /\ n - 1 \in 0 .. N
        BY <1>1, <3>3
      <4> QED BY <1>5, <1>7, <3>3, <4>1
    <3> QED BY <3>2, <3>3
  <2> QED BY <1>7, <2>1
<1>9. Solves(g)
  <2> HIDE DEF Solves
  <2> QED BY <1>6, <1>8
<1>10. g[0] = base /\ \A n \in 1 .. N : g[n] = Next1(n, g[n - 1])
  BY <1>1, <1>9
<1> DEFINE H == {n \in 0 .. N : g[n] \in A}
<1>11. 0 .. N \subseteq H
  <2>1. 0 \in H
    BY <1>1, <1>2, <1>10
  <2>2. \A n \in 1 .. N : n - 1 \in H => n \in H
    BY <1>1, <1>4, <1>10
  <2> HIDE DEF H
  <2> QED BY <1>1, <2>1, <2>2, UpTo
<1>12. g \in [0 .. N -> A]
  BY <1>9, <1>11
<1> QED BY <1>10, <1>12 DEF g, N, A, B, Next1, base

(* The table begins with the content routes, and the rest of it is about   *)
(* no content.                                                             *)
LEMMA TableIs ==
    ASSUME NEW ir, Irs(ir)
    PROVE  LET specs == Rt!build_route_specs(ir)
               first == Rt!ContentRoutes(ir)[Len(ir.routes)]
           IN  /\ \E B : specs \in Seq(B)
               /\ Len(first) \in Nat /\ Len(first) <= Len(specs)
               /\ \A i \in 1 .. Len(first) : specs[i] = first[i]
               /\ \A i \in 1 .. Len(specs) : Len(first) < i => specs[i].content = Nothing
<1>2. PICK C : ir.channels \in Seq(C)
  BY DEF Irs
<1>3. PICK Y : \A n \in 1 .. Len(ir.channels) : ir.channels[n].actions \in Seq(Y)
  BY DEF Irs
<1> DEFINE N == Len(ir.channels)
           first == Rt!ContentRoutes(ir)[Len(ir.routes)]
           g == Rt!WithChannels(ir)
           B == FromContent(ir) \union FromChannels(ir)
           Good(s) == /\ s \in Seq(B) /\ Len(first) <= Len(s)
                      /\ \A i \in 1 .. Len(first) : s[i] = first[i]
                      /\ \A i \in 1 .. Len(s) : Len(first) < i => s[i].content = Nothing
           H == {n \in 0 .. N : Good(g[n])}
<1>4. N \in Nat
  BY <1>2
<1>5. /\ g \in [0 .. N -> Seq(B)] /\ g[0] = first
      /\ \A n \in 1 .. N : g[n] = g[n - 1] \o Rt!ChannelRoutes(ir.channels[n])
  BY WithChannelsAre
<1>6. \A n \in 1 .. N : Rt!ChannelRoutes(ir.channels[n]) \in Seq(FromChannels(ir))
  BY <1>2, <1>3, ChannelRoutesAre
<1>7. \A r \in FromChannels(ir) : r.content = Nothing
  BY DEF FromChannels, FromChannel, Rt!ChannelRoute
<1>8. first \in Seq(B) /\ Len(first) \in Nat
  BY <1>4, <1>5
<1> HIDE DEF N, first, g
<1>9. 0 \in H
  BY <1>4, <1>5, <1>8
<1>10. ASSUME NEW n \in 1 .. N, n - 1 \in H PROVE n \in H
  <2> DEFINE s == g[n - 1]
             t == Rt!ChannelRoutes(ir.channels[n])
  <2>1. n \in 0 .. N /\ n - 1 \in 0 .. N
    BY <1>4
  <2>2. Good(s)
    BY <1>10
  <2>3. t \in Seq(FromChannels(ir)) /\ g[n] = s \o t
    BY <1>5, <1>6
  <2>4. g[n] \in Seq(B)
    BY <1>5, <2>1
  <2> HIDE DEF s, t, B
  <2>5. /\ Len(s) \in Nat /\ Len(t) \in Nat /\ Len(g[n]) = Len(s) + Len(t)
        /\ \A i \in 1 .. Len(s) : g[n][i] = s[i]
        /\ \A i \in 1 .. Len(s) + Len(t) : Len(s) < i => i - Len(s) \in 1 .. Len(t) /\ g[n][i] = t[i - Len(s)]
    BY <2>2, <2>3
  <2>6. \A i \in 1 .. Len(t) : t[i].content = Nothing
    BY <1>7, <2>3
  <2>7. Len(first) <= Len(g[n]) /\ \A i \in 1 .. Len(first) : g[n][i] = first[i]
    BY <1>8, <2>2, <2>5
  <2>8. \A i \in 1 .. Len(g[n]) : Len(first) < i => g[n][i].content = Nothing
    <3>1. SUFFICES ASSUME NEW i \in 1 .. Len(g[n]), Len(first) < i PROVE g[n][i].content = Nothing
      OBVIOUS
    <3>2. CASE i <= Len(s)
      BY <2>2, <2>5, <3>1, <3>2
    <3>3. CASE Len(s) < i
      BY <2>5, <2>6, <3>1, <3>3
    <3> QED BY <2>5, <3>2, <3>3
  <2> QED BY <2>1, <2>4, <2>7, <2>8
<1>11. N \in H
  <2> HIDE DEF H
  <2> QED BY <1>4, <1>9, <1>10, UpTo
<1>12. Rt!build_route_specs(ir) = g[N]
  BY DEF Rt!build_route_specs, g, N
<1> QED BY <1>8, <1>11, <1>12 DEF first

(* The loop of the dispatcher.                                             *)
States(routes) ==
    [status : {0, 200, 403}, mismatch : BOOLEAN, route : {Nothing} \union {routes[i] : i \in DOMAIN routes}]

LEMMA TryTyped ==
    ASSUME NEW K, NEW a \in [status : {0, 200, 403}, mismatch : BOOLEAN, route : K], NEW r \in K, NEW request
    PROVE  Rt!Try(a, r, request) \in [status : {0, 200, 403}, mismatch : BOOLEAN, route : K]
<1>1. [a EXCEPT !.mismatch = TRUE] \in [status : {0, 200, 403}, mismatch : BOOLEAN, route : K]
  OBVIOUS
<1>2. [a EXCEPT !.status = 403] \in [status : {0, 200, 403}, mismatch : BOOLEAN, route : K]
  OBVIOUS
<1>3. [a EXCEPT !.status = 200, !.route = r] \in [status : {0, 200, 403}, mismatch : BOOLEAN, route : K]
  OBVIOUS
<1> QED BY <1>1, <1>2, <1>3 DEF Rt!Try

LEMMA TriedIs ==
    ASSUME NEW B, NEW routes \in Seq(B), NEW request
    PROVE  /\ Rt!Tried(routes, request) \in [0 .. Len(routes) -> States(routes)]
           /\ Rt!Tried(routes, request)[0] = Rt!Untried
           /\ \A n \in 1 .. Len(routes) :
                 Rt!Tried(routes, request)[n] = Rt!Try(Rt!Tried(routes, request)[n - 1], routes[n], request)
<1> DEFINE N == Len(routes)
           A == States(routes)
           base == Rt!Untried
           Next1(n, a) == Rt!Try(a, routes[n], request)
           step == [p \in (1 .. N) \X A |-> Next1(p[1], p[2])]
           g == Rt!Tried(routes, request)
           Solves(f) == f = [n \in 0 .. N |-> IF n = 0 THEN base ELSE Next1(n, f[n - 1])]
<1>1. N \in Nat
  OBVIOUS
<1>2. base \in A
  BY DEF Rt!Untried, States
<1>4. \A n \in 1 .. N, a \in A : Next1(n, a) \in A
  <2>1. SUFFICES ASSUME NEW n \in 1 .. N, NEW a \in A PROVE Next1(n, a) \in A
    OBVIOUS
  <2>2. routes[n] \in {Nothing} \union {routes[i] : i \in DOMAIN routes}
    OBVIOUS
  <2> DEFINE K == {Nothing} \union {routes[i] : i \in DOMAIN routes}
  <2>3. A = [status : {0, 200, 403}, mismatch : BOOLEAN, route : K] /\ routes[n] \in K
    BY <2>2 DEF States
  <2> HIDE DEF A, K
  <2> QED BY <2>1, <2>3, TryTyped
<1>5. step \in Steps(N, A) /\ \A n \in 1 .. N, a \in A : step[<<n, a>>] = Next1(n, a)
  <2> HIDE DEF N, A, Next1
  <2> QED BY <1>4 DEF Steps
<1>6. g = CHOOSE f : Solves(f)
  BY DEF Rt!Tried
<1> HIDE DEF N, A, Next1, step, g, base
<1>7. PICK f \in [0 .. N -> A] : f[0] = base /\ \A n \in 1 .. N : f[n] = step[<<n, f[n - 1]>>]
  <2>1. \E f : Recurs(f, N, A, base, step)
    BY <1>1, <1>2, <1>5, Recursion
  <2> QED BY <2>1 DEF Recurs
<1>8. Solves(f)
  <2>1. \A n \in 0 .. N : f[n] = IF n = 0 THEN base ELSE Next1(n, f[n - 1])
    <3>1. SUFFICES ASSUME NEW n \in 0 .. N PROVE f[n] = IF n = 0 THEN base ELSE Next1(n, f[n - 1])
      OBVIOUS
    <3>2. CASE n = 0
      BY <1>7, <3>2
    <3>3. CASE n # 0
      <4>1. n \in 1 .. N /\ n - 1 \in 0 .. N
        BY <1>1, <3>3
      <4> QED BY <1>5, <1>7, <3>3, <4>1
    <3> QED BY <3>2, <3>3
  <2> QED BY <1>7, <2>1
<1>9. Solves(g)
  <2> HIDE DEF Solves
  <2> QED BY <1>6, <1>8
<1>10. g[0] = base /\ \A n \in 1 .. N : g[n] = Next1(n, g[n - 1])
  BY <1>1, <1>9
<1> DEFINE H == {n \in 0 .. N : g[n] \in A}
<1>11. 0 .. N \subseteq H
  <2>1. 0 \in H
    BY <1>1, <1>2, <1>10
  <2>2. \A n \in 1 .. N : n - 1 \in H => n \in H
    BY <1>1, <1>4, <1>10
  <2> HIDE DEF H
  <2> QED BY <1>1, <2>1, <2>2, UpTo
<1>12. g \in [0 .. N -> A]
  BY <1>9, <1>11
<1> QED BY <1>10, <1>12 DEF g, N, A, Next1, base

(* A route of the path, and one of the path and the method.                *)
Fits(route, request) == Rt!Matches(route.path, request.path)
Claims(route, request) == Fits(route, request) /\ route.method = request.method

(* What is known after n routes: the first route that claims the request   *)
(* has decided, or there was none yet.                                     *)
Decided(routes, request, n, found) ==
    \/ /\ found.status = 0
       /\ \A i \in 1 .. n : ~ Claims(routes[i], request)
       /\ ~ found.mismatch => \A i \in 1 .. n : ~ Fits(routes[i], request)
       /\ found.mismatch => \E i \in 1 .. n : Fits(routes[i], request)
    \/ \E k \in 1 .. n :
          /\ Claims(routes[k], request)
          /\ \A i \in 1 .. k - 1 : ~ Claims(routes[i], request)
          /\ \/ found.status = 200 /\ found.route = routes[k] /\ Rt!MayCall(routes[k].scope, request)
             \/ found.status = 403 /\ ~ Rt!MayCall(routes[k].scope, request)

LEMMA FirstDecides ==
    ASSUME NEW B, NEW routes \in Seq(B), NEW request
    PROVE  Decided(routes, request, Len(routes), Rt!Tried(routes, request)[Len(routes)])
<1> DEFINE N == Len(routes)
           g == Rt!Tried(routes, request)
           H == {n \in 0 .. N : Decided(routes, request, n, g[n])}
<1>1. /\ N \in Nat /\ g \in [0 .. N -> States(routes)] /\ g[0] = Rt!Untried
      /\ \A n \in 1 .. N : g[n] = Rt!Try(g[n - 1], routes[n], request)
  BY TriedIs
<1> HIDE DEF N, g
<1>2. 0 \in H
  BY <1>1 DEF Rt!Untried, Decided
<1>3. ASSUME NEW n \in 1 .. N, n - 1 \in H PROVE n \in H
  <2> DEFINE acc == g[n - 1]
             r == routes[n]
  <2>1. n \in 0 .. N /\ n - 1 \in 0 .. N /\ n \in Nat
    BY <1>1
  <2>2. acc \in States(routes) /\ g[n] = Rt!Try(acc, r, request) /\ Decided(routes, request, n - 1, acc)
    BY <1>1, <1>3, <2>1
  <2> HIDE DEF acc, r
  <2>3. CASE acc.status # 0 \/ ~ Fits(r, request)
    <3>1. g[n] = acc
      BY <2>2, <2>3 DEF Rt!Try, Fits
    <3>2. Decided(routes, request, n, acc)
      BY <2>1, <2>2, <2>3 DEF Decided, Claims, r
    <3> QED BY <2>1, <3>1, <3>2
  <2>4. CASE acc.status = 0 /\ Fits(r, request) /\ r.method # request.method
    <3>1. g[n] = [acc EXCEPT !.mismatch = TRUE]
      BY <2>2, <2>4 DEF Rt!Try, Fits
    <3>2. g[n].status = 0 /\ g[n].mismatch
      BY <2>2, <2>4, <3>1 DEF States
    <3>3. \A i \in 1 .. n - 1 : ~ Claims(routes[i], request)
      BY <2>2, <2>4 DEF Decided
    <3>4. ~ Claims(routes[n], request) /\ Fits(routes[n], request)
      BY <2>4 DEF Claims, r
    <3>5. Decided(routes, request, n, g[n])
      BY <2>1, <3>2, <3>3, <3>4 DEF Decided
    <3> QED BY <2>1, <3>5
  <2>5. CASE acc.status = 0 /\ Claims(r, request)
    <3>1. \A i \in 1 .. n - 1 : ~ Claims(routes[i], request)
      BY <2>2, <2>5 DEF Decided
    <3>2. g[n] = IF ~ Rt!MayCall(r.scope, request) THEN [acc EXCEPT !.status = 403]
                 ELSE [acc EXCEPT !.status = 200, !.route = r]
      BY <2>2, <2>5 DEF Rt!Try, Fits, Claims
    <3>3. \/ g[n].status = 200 /\ g[n].route = r /\ Rt!MayCall(r.scope, request)
          \/ g[n].status = 403 /\ ~ Rt!MayCall(r.scope, request)
      BY <2>2, <3>2 DEF States
    <3>4. Decided(routes, request, n, g[n])
      BY <2>1, <2>5, <3>1, <3>3 DEF Decided, r
    <3> QED BY <2>1, <3>4
  <2> QED BY <2>3, <2>4, <2>5 DEF Claims
<1>4. N \in H
  <2> HIDE DEF H
  <2>1. 0 .. N \subseteq H
    BY <1>1, <1>2, <1>3, UpTo
  <2> QED BY <1>1, <2>1
<1> QED BY <1>4 DEF N, g

LEMMA Answers ==
    ASSUME NEW ir, Irs(ir), NEW request
    PROVE  LET specs == Rt!build_route_specs(ir)
               answer == Rt!dispatch_http_request(ir, request)
           IN  \/ /\ \A i \in 1 .. Len(specs) : ~ Claims(specs[i], request)
                  /\ \/ answer.status = 405
                     \/ answer.status = 404 /\ \A i \in 1 .. Len(specs) : ~ Fits(specs[i], request)
               \/ \E k \in 1 .. Len(specs) :
                     /\ Claims(specs[k], request)
                     /\ \A i \in 1 .. k - 1 : ~ Claims(specs[i], request)
                     /\ \/ answer.status = 200 /\ answer.route = specs[k] /\ Rt!MayCall(specs[k].scope, request)
                        \/ answer.status = 403
<1> DEFINE specs == Rt!build_route_specs(ir)
           found == Rt!Tried(specs, request)[Len(specs)]
           answer == Rt!dispatch_http_request(ir, request)
<1>1. PICK B : specs \in Seq(B)
  BY TableIs
<1>2. Decided(specs, request, Len(specs), found)
  BY <1>1, FirstDecides
<1>3. answer = IF found.status # 0 THEN Rt!Answer(found.status, found.route)
               ELSE Rt!Answer(IF found.mismatch THEN 405 ELSE 404, Nothing)
  BY DEF Rt!dispatch_http_request
<1> HIDE DEF specs, found, answer
<1>4. CASE found.status = 0
  <2>1. answer.status = IF found.mismatch THEN 405 ELSE 404
    BY <1>3, <1>4 DEF Rt!Answer
  <2> QED BY <1>2, <1>4, <2>1 DEF Decided, specs, answer
<1>5. CASE found.status # 0
  <2>1. answer.status = found.status /\ answer.route = found.route
    BY <1>3, <1>5 DEF Rt!Answer
  <2>2. PICK k \in 1 .. Len(specs) :
            /\ Claims(specs[k], request)
            /\ \A i \in 1 .. k - 1 : ~ Claims(specs[i], request)
            /\ \/ found.status = 200 /\ found.route = specs[k] /\ Rt!MayCall(specs[k].scope, request)
               \/ found.status = 403
    BY <1>2, <1>5 DEF Decided
  <2> QED BY <2>1, <2>2 DEF specs, answer
<1> QED BY <1>4, <1>5

(* dispatch_http_request: 404 before 405 before 403, however many routes   *)
(* shadow each other.                                                      *)
THEOREM RoutesTakePrecedence ==
    ASSUME NEW ir, Irs(ir), NEW request
    PROVE  Rt!Precedence(ir, request)
<1> DEFINE specs == Rt!build_route_specs(ir)
           answer == Rt!dispatch_http_request(ir, request)
<1>1. DOMAIN specs = 1 .. Len(specs)
  BY TableIs
<1>2. Rt!Asked(ir, request) = {i \in 1 .. Len(specs) : Claims(specs[i], request)}
  BY <1>1 DEF Rt!Asked, Claims, Fits
<1>3. \/ /\ \A i \in 1 .. Len(specs) : ~ Claims(specs[i], request)
         /\ \/ answer.status = 405
            \/ answer.status = 404 /\ \A i \in 1 .. Len(specs) : ~ Fits(specs[i], request)
      \/ /\ \E k \in 1 .. Len(specs) : Claims(specs[k], request)
         /\ answer.status \in {200, 403}
  BY Answers
<1> HIDE DEF specs, answer
<1>4. answer.status \in {404, 405} <=> Rt!Asked(ir, request) = {}
  BY <1>2, <1>3
<1>5. answer.status = 404 => \A i \in DOMAIN specs : ~ Fits(specs[i], request)
  BY <1>1, <1>3
<1> QED BY <1>4, <1>5 DEF Rt!Precedence, Fits, specs, answer

(* dispatch_http_request over build_route_specs: a handler of a content    *)
(* runs only for a request, and a scope, that the IR has a route for, and  *)
(* the first route that claims the request decides.                        *)
THEOREM RoutesHandleAsDeclared ==
    ASSUME NEW ir, Irs(ir), NEW request
    PROVE  Rt!HandledAsDeclared(ir, request)
<1> DEFINE specs == Rt!build_route_specs(ir)
           first == Rt!ContentRoutes(ir)[Len(ir.routes)]
           answer == Rt!dispatch_http_request(ir, request)
           Declares(i) == /\ ir.routes[i].kind = answer.route.handler
                          /\ ir.routes[i].content = answer.route.content
                          /\ ir.routes[i].method = request.method
                          /\ Rt!Matches(ir.routes[i].path, request.path)
                          /\ ir.routes[i].scope = Nothing \/ (request.auth # Nothing /\ ir.routes[i].scope \in request.auth)
           Shadows(j) == /\ ir.routes[j].kind \in Rt!Kinds
                         /\ ir.routes[j].method = request.method
                         /\ Rt!Matches(ir.routes[j].path, request.path)
<1>1. PICK S : ir.routes \in Seq(S)
  BY DEF Irs
<1>2. SUFFICES ASSUME answer.status = 200, answer.route.content # Nothing
               PROVE  \E i \in DOMAIN ir.routes : Declares(i) /\ \A j \in 1 .. i - 1 : ~ Shadows(j)
  BY DEF Rt!HandledAsDeclared
<1>3. PICK k \in 1 .. Len(specs) :
          /\ Claims(specs[k], request)
          /\ \A i \in 1 .. k - 1 : ~ Claims(specs[i], request)
          /\ answer.route = specs[k] /\ Rt!MayCall(specs[k].scope, request)
  BY <1>2, Answers
<1>4. /\ Len(first) \in Nat /\ Len(first) <= Len(specs) /\ Len(specs) \in Nat
      /\ \A i \in 1 .. Len(first) : specs[i] = first[i]
      /\ \A i \in 1 .. Len(specs) : Len(first) < i => specs[i].content = Nothing
  BY TableIs
<1> HIDE DEF specs, answer
<1>5. k \in 1 .. Len(first)
  BY <1>2, <1>3, <1>4
<1>6. PICK i \in 1 .. Len(ir.routes) : Stands(ir, first, k, i)
  BY <1>1, <1>5, ContentRoutesInOrder
<1> HIDE DEF first
<1>7. specs[k] = Rt!ContentRoute(ir.routes[i])
  BY <1>4, <1>5, <1>6 DEF Stands
<1>8. Declares(i)
  BY <1>3, <1>7 DEF Rt!ContentRoute, Claims, Fits, Rt!MayCall
<1>9. \A j \in 1 .. i - 1 : ~ Shadows(j)
  <2>1. SUFFICES ASSUME NEW j \in 1 .. i - 1, Shadows(j) PROVE FALSE
    OBVIOUS
  <2>2. PICK l \in 1 .. k - 1 : first[l] = Rt!ContentRoute(ir.routes[j])
    BY <1>6, <2>1 DEF Stands
  <2>3. specs[l] = Rt!ContentRoute(ir.routes[j])
    BY <1>4, <1>5, <2>2
  <2>4. Claims(specs[l], request)
    BY <2>1, <2>3 DEF Rt!ContentRoute, Claims, Fits
  <2> QED BY <1>3, <2>2, <2>4
<1>10. i \in DOMAIN ir.routes
  BY <1>1, <1>6
<1> QED BY <1>8, <1>9, <1>10

-----------------------------------------------------------------------------
(* Maps from some of the keys in K to values in V.                         *)
Maps(K, V) == UNION {[D -> V] : D \in SUBSET K}

LEMMA MapsAre ==
    ASSUME NEW K, NEW V, NEW f
    PROVE  f \in Maps(K, V) <=>
             f = [k \in DOMAIN f |-> f[k]] /\ DOMAIN f \subseteq K /\ \A k \in DOMAIN f : f[k] \in V
<1>1. ASSUME f \in Maps(K, V)
      PROVE  f = [k \in DOMAIN f |-> f[k]] /\ DOMAIN f \subseteq K /\ \A k \in DOMAIN f : f[k] \in V
  <2>1. PICK D \in SUBSET K : f \in [D -> V]
    BY <1>1 DEF Maps
  <2> QED BY <2>1
<1>2. ASSUME f = [k \in DOMAIN f |-> f[k]], DOMAIN f \subseteq K, \A k \in DOMAIN f : f[k] \in V
      PROVE  f \in Maps(K, V)
  <2>1. f \in [DOMAIN f -> V] /\ DOMAIN f \in SUBSET K
    BY <1>2
  <2> QED BY <2>1 DEF Maps
<1> QED BY <1>1, <1>2

-----------------------------------------------------------------------------
(* The merge of the levels of a chain.                                     *)
BindingsOf(P, K, V) == [provider : P, config : Maps(K, V)]
LevelsOf(Vs, Ns, B) == [version : Vs, single : B, named : Maps(Ns, B)]

LEMMA MergeBindingTyped ==
    ASSUME NEW P, NEW K, NEW V, NEW b \in BindingsOf(P, K, V), NEW c \in BindingsOf(P, K, V)
    PROVE  G!MergeBinding(b, c) \in BindingsOf(P, K, V)
<1> DEFINE merged == G!ShallowMerge(b.config, c.config)
<1>1. b.config \in Maps(K, V) /\ c.config \in Maps(K, V) /\ c.provider \in P
  BY DEF BindingsOf
<1>2. merged = [k \in DOMAIN b.config \union DOMAIN c.config |->
                   IF k \in DOMAIN c.config THEN c.config[k] ELSE b.config[k]]
  BY DEF G!ShallowMerge
<1>3. merged \in Maps(K, V)
  <2>1. DOMAIN merged \subseteq K /\ \A k \in DOMAIN merged : merged[k] \in V
    BY <1>1, <1>2, MapsAre
  <2>2. merged = [k \in DOMAIN merged |-> merged[k]]
    BY <1>2
  <2> HIDE DEF merged
  <2> QED BY <2>1, <2>2, MapsAre
<1> HIDE DEF merged
<1>4. [provider |-> c.provider, config |-> merged] \in BindingsOf(P, K, V)
  BY <1>1, <1>3 DEF BindingsOf
<1> QED BY <1>4 DEF G!MergeBinding, merged

LEMMA MergeTwoTyped ==
    ASSUME NEW Vs, NEW Ns, NEW P, NEW K, NEW V,
           NEW b \in LevelsOf(Vs, Ns, BindingsOf(P, K, V)), NEW c \in LevelsOf(Vs, Ns, BindingsOf(P, K, V))
    PROVE  G!MergeTwo(b, c) \in LevelsOf(Vs, Ns, BindingsOf(P, K, V))
<1> DEFINE B == BindingsOf(P, K, V)
           merged == G!MergeNamedMap(b.named, c.named)
<1>1. /\ b.named \in Maps(Ns, B) /\ c.named \in Maps(Ns, B) /\ c.version \in Vs
      /\ b.single \in B /\ c.single \in B
  BY DEF LevelsOf
<1>2. G!MergeBinding(b.single, c.single) \in B
  BY <1>1, MergeBindingTyped
<1>3. DOMAIN merged = DOMAIN b.named \union DOMAIN c.named /\ merged = [k \in DOMAIN merged |-> merged[k]]
  BY DEF G!MergeNamedMap
<1>4. \A k \in DOMAIN merged : merged[k] \in B
  <2>1. SUFFICES ASSUME NEW k \in DOMAIN merged PROVE merged[k] \in B
    OBVIOUS
  <2>2. CASE k \notin DOMAIN c.named
    <3>1. merged[k] = b.named[k] /\ k \in DOMAIN b.named
      BY <2>1, <2>2, <1>3 DEF G!MergeNamedMap
    <3> HIDE DEF merged, B
    <3> QED BY <1>1, <3>1, MapsAre
  <2>3. CASE k \notin DOMAIN b.named
    <3>1. merged[k] = c.named[k] /\ k \in DOMAIN c.named
      BY <2>1, <2>3, <1>3 DEF G!MergeNamedMap
    <3> HIDE DEF merged, B
    <3> QED BY <1>1, <3>1, MapsAre
  <2>4. CASE k \in DOMAIN b.named /\ k \in DOMAIN c.named
    <3>1. merged[k] = G!MergeBinding(b.named[k], c.named[k])
      BY <2>1, <2>4, <1>3 DEF G!MergeNamedMap
    <3>2. b.named[k] \in B /\ c.named[k] \in B
      <4> HIDE DEF merged, B
      <4> QED BY <1>1, <2>4, MapsAre
    <3> QED BY <3>1, <3>2, MergeBindingTyped
  <2> QED BY <2>2, <2>3, <2>4
<1>5. merged \in Maps(Ns, B)
  <2>1. DOMAIN merged \subseteq Ns
    <3> HIDE DEF merged, B
    <3> QED BY <1>1, <1>3, MapsAre
  <2> HIDE DEF merged, B
  <2> QED BY <1>3, <1>4, <2>1, MapsAre
<1>6. G!MergeTwo(b, c) = [version |-> c.version, single |-> G!MergeBinding(b.single, c.single), named |-> merged]
  BY DEF G!MergeTwo
<1> HIDE DEF merged, B
<1>7. G!MergeTwo(b, c) \in LevelsOf(Vs, Ns, B)
  BY <1>1, <1>2, <1>5, <1>6 DEF LevelsOf
<1> QED BY <1>7 DEF B

LEMMA MergedOverIs ==
    ASSUME NEW Vs, NEW Ns, NEW P, NEW K, NEW V,
           NEW chain \in Seq(LevelsOf(Vs, Ns, BindingsOf(P, K, V))), chain # <<>>
    PROVE  /\ G!MergedOver(chain)[0] = chain[1]
           /\ \A n \in 1 .. Len(chain) - 1 :
                 G!MergedOver(chain)[n] = G!MergeTwo(G!MergedOver(chain)[n - 1], chain[n + 1])
<1> DEFINE N == Len(chain) - 1
           A == LevelsOf(Vs, Ns, BindingsOf(P, K, V))
           base == chain[1]
           Next1(n, a) == G!MergeTwo(a, chain[n + 1])
           step == [p \in (1 .. N) \X A |-> Next1(p[1], p[2])]
           g == G!MergedOver(chain)
           Solves(f) == f = [n \in 0 .. N |-> IF n = 0 THEN base ELSE Next1(n, f[n - 1])]
<1>1. N \in Nat /\ \A n \in 1 .. N : n + 1 \in 1 .. Len(chain)
  OBVIOUS
<1>3. N \in Nat
  BY <1>1
<1>2. base \in A
  OBVIOUS
<1>4. \A n \in 1 .. N, a \in A : Next1(n, a) \in A
  <2>1. SUFFICES ASSUME NEW n \in 1 .. N, NEW a \in A PROVE Next1(n, a) \in A
    OBVIOUS
  <2>2. chain[n + 1] \in A
    BY <1>1
  <2> QED BY <2>2, MergeTwoTyped
<1>5. step \in Steps(N, A) /\ \A n \in 1 .. N, a \in A : step[<<n, a>>] = Next1(n, a)
  <2> HIDE DEF N, A, Next1
  <2> QED BY <1>4 DEF Steps
<1>6. g = CHOOSE f : Solves(f)
  BY DEF G!MergedOver
<1> HIDE DEF N, A, Next1, step, g, base
<1>7. PICK f \in [0 .. N -> A] : f[0] = base /\ \A n \in 1 .. N : f[n] = step[<<n, f[n - 1]>>]
  <2>1. \E f : Recurs(f, N, A, base, step)
    BY <1>2, <1>3, <1>5, Recursion
  <2> QED BY <2>1 DEF Recurs
<1>8. Solves(f)
  <2>1. \A n \in 0 .. N : f[n] = IF n = 0 THEN base ELSE Next1(n, f[n - 1])
    <3>1. SUFFICES ASSUME NEW n \in 0 .. N PROVE f[n] = IF n = 0 THEN base ELSE Next1(n, f[n - 1])
      OBVIOUS
    <3>2. CASE n = 0
      BY <1>7, <3>2
    <3>3. CASE n # 0
      <4>1. n \in 1 .. N /\ n - 1 \in 0 .. N
        BY <1>1, <3>3
      <4> QED BY <1>5, <1>7, <3>3, <4>1
    <3> QED BY <3>2, <3>3
  <2> QED BY <1>7, <2>1
<1>9. Solves(g)
  <2> HIDE DEF Solves
  <2> QED BY <1>6, <1>8
<1>10. g[0] = base /\ \A n \in 1 .. N : g[n] = Next1(n, g[n - 1])
  BY <1>1, <1>9
<1> QED BY <1>10 DEF g, N, Next1, base

(* The last of some levels, among the first m.                             *)
LastIn(S, m, i) == i \in S /\ i <= m /\ \A j \in S : j <= m => j <= i

(* What the first m levels say of a name.                                  *)
Explains(chain, name, m, binding) ==
    /\ \E i \in DOMAIN chain : LastIn(G!Binding(chain, name), m, i) /\ binding.provider = chain[i].named[name].provider
    /\ \A k : k \in DOMAIN binding.config <=> \E i \in G!Setting(chain, name, k) : i <= m
    /\ \A k \in DOMAIN binding.config : \E i \in DOMAIN chain :
          LastIn(G!Setting(chain, name, k), m, i) /\ binding.config[k] = chain[i].named[name].config[k]

(* A level that does not bind the name changes nothing.                    *)
LEMMA ExplainsOn ==
    ASSUME NEW S, NEW chain \in Seq(S), NEW name, NEW m \in Nat, NEW b, Explains(chain, name, m, b),
           m + 1 \notin G!Binding(chain, name)
    PROVE  Explains(chain, name, m + 1, b)
<1>1. DOMAIN chain \subseteq Nat
  OBVIOUS
<1>2. G!Binding(chain, name) \subseteq DOMAIN chain /\ \A k : G!Setting(chain, name, k) \subseteq G!Binding(chain, name)
  BY DEF G!Binding, G!Setting
<1>3. \A i \in G!Binding(chain, name) : i <= m + 1 <=> i <= m
  BY <1>1, <1>2
<1>4. \A k : \A i \in G!Setting(chain, name, k) : i <= m + 1 <=> i <= m
  BY <1>2, <1>3
<1>5. \A i : LastIn(G!Binding(chain, name), m, i) => LastIn(G!Binding(chain, name), m + 1, i)
  BY <1>3 DEF LastIn
<1>6. \A k, i : LastIn(G!Setting(chain, name, k), m, i) => LastIn(G!Setting(chain, name, k), m + 1, i)
  BY <1>4 DEF LastIn
<1> QED BY <1>4, <1>5, <1>6 DEF Explains

(* The first level that binds it.                                          *)
LEMMA ExplainsFirst ==
    ASSUME NEW S, NEW chain \in Seq(S), NEW name, NEW m \in Nat, m + 1 \in G!Binding(chain, name),
           \A i \in G!Binding(chain, name) : ~ (i <= m)
    PROVE  Explains(chain, name, m + 1, chain[m + 1].named[name])
<1> DEFINE b == chain[m + 1].named[name]
<1>1. DOMAIN chain \subseteq Nat
  OBVIOUS
<1>2. G!Binding(chain, name) \subseteq DOMAIN chain /\ \A k : G!Setting(chain, name, k) \subseteq G!Binding(chain, name)
  BY DEF G!Binding, G!Setting
<1>3. \A i \in G!Binding(chain, name) : i <= m + 1 <=> i = m + 1
  BY <1>1, <1>2
<1>4. LastIn(G!Binding(chain, name), m + 1, m + 1) /\ m + 1 \in DOMAIN chain
  BY <1>2, <1>3 DEF LastIn
<1>5. \A k : k \in DOMAIN b.config <=> m + 1 \in G!Setting(chain, name, k)
  BY DEF G!Setting
<1> HIDE DEF b
<1>6. \A k : k \in DOMAIN b.config <=> \E i \in G!Setting(chain, name, k) : i <= m + 1
  BY <1>2, <1>3, <1>5
<1>7. \A k \in DOMAIN b.config : LastIn(G!Setting(chain, name, k), m + 1, m + 1)
  BY <1>2, <1>3, <1>5 DEF LastIn
<1> QED BY <1>4, <1>6, <1>7 DEF Explains, b

(* A level that binds it over earlier ones.                                *)
LEMMA ExplainsOver ==
    ASSUME NEW S, NEW chain \in Seq(S), NEW name, NEW m \in Nat, NEW b, Explains(chain, name, m, b),
           m + 1 \in G!Binding(chain, name)
    PROVE  Explains(chain, name, m + 1, G!MergeBinding(b, chain[m + 1].named[name]))
<1> DEFINE leaf == chain[m + 1].named[name]
           c == G!MergeBinding(b, leaf)
<1>1. DOMAIN chain \subseteq Nat
  OBVIOUS
<1>2. G!Binding(chain, name) \subseteq DOMAIN chain /\ \A k : G!Setting(chain, name, k) \subseteq G!Binding(chain, name)
  BY DEF G!Binding, G!Setting
<1>3. c.provider = leaf.provider /\ c.config = G!ShallowMerge(b.config, leaf.config)
  BY DEF G!MergeBinding
<1>4. /\ DOMAIN c.config = DOMAIN b.config \union DOMAIN leaf.config
      /\ \A k \in DOMAIN c.config : c.config[k] = IF k \in DOMAIN leaf.config THEN leaf.config[k] ELSE b.config[k]
  BY <1>3 DEF G!ShallowMerge
<1>5. LastIn(G!Binding(chain, name), m + 1, m + 1) /\ m + 1 \in DOMAIN chain
  BY <1>1, <1>2 DEF LastIn
<1>6. \A k : k \in DOMAIN leaf.config <=> m + 1 \in G!Setting(chain, name, k)
  BY DEF G!Setting
<1> HIDE DEF leaf, c
<1>7. \A k : k \in DOMAIN c.config <=> \E i \in G!Setting(chain, name, k) : i <= m + 1
  <2>1. SUFFICES ASSUME NEW k PROVE k \in DOMAIN c.config <=> \E i \in G!Setting(chain, name, k) : i <= m + 1
    OBVIOUS
  <2>2. k \in DOMAIN b.config <=> \E i \in G!Setting(chain, name, k) : i <= m
    BY DEF Explains
  <2>3. \A i \in G!Setting(chain, name, k) : i \in Nat
    BY <1>1, <1>2
  <2>4. \A i \in G!Setting(chain, name, k) : i <= m + 1 <=> i <= m \/ i = m + 1
    BY <2>3
  <2> QED BY <1>4, <1>6, <2>2, <2>4
<1>8. ASSUME NEW k \in DOMAIN c.config
      PROVE  \E i \in DOMAIN chain :
                LastIn(G!Setting(chain, name, k), m + 1, i) /\ c.config[k] = chain[i].named[name].config[k]
  <2>1. \A i \in G!Setting(chain, name, k) : i \in Nat
    BY <1>1, <1>2
  <2>2. CASE k \in DOMAIN leaf.config
    <3>1. LastIn(G!Setting(chain, name, k), m + 1, m + 1)
      BY <1>6, <2>1, <2>2 DEF LastIn
    <3>2. c.config[k] = chain[m + 1].named[name].config[k]
      BY <1>4, <1>8, <2>2 DEF leaf
    <3> QED BY <1>5, <3>1, <3>2
  <2>3. CASE k \notin DOMAIN leaf.config
    <3>1. k \in DOMAIN b.config /\ c.config[k] = b.config[k]
      BY <1>4, <1>8, <2>3
    <3>2. PICK i \in DOMAIN chain :
              LastIn(G!Setting(chain, name, k), m, i) /\ b.config[k] = chain[i].named[name].config[k]
      BY <3>1 DEF Explains
    <3>3. m + 1 \notin G!Setting(chain, name, k)
      BY <1>6, <2>3
    <3>4. LastIn(G!Setting(chain, name, k), m + 1, i)
      BY <2>1, <3>2, <3>3 DEF LastIn
    <3> QED BY <3>1, <3>2, <3>4
  <2> QED BY <2>2, <2>3
<1>9. c.provider = chain[m + 1].named[name].provider
  BY <1>3 DEF leaf
<1> QED BY <1>5, <1>7, <1>8, <1>9 DEF Explains, c, leaf

(* resolve_effective_bindings, for a chain of any length: every setting is *)
(* that of the last level that sets it, under the product of the last      *)
(* level that binds the name.                                              *)
THEOREM LastLevelIsHeard ==
    ASSUME NEW Vs, NEW Ns, NEW P, NEW K, NEW V,
           NEW chain \in Seq(LevelsOf(Vs, Ns, BindingsOf(P, K, V))), chain # <<>>
    PROVE  G!LastLevelWins(chain)
<1> DEFINE N == Len(chain) - 1
           g == G!MergedOver(chain)
           Names(n) == \A name : name \in DOMAIN g[n].named <=> \E i \in G!Binding(chain, name) : i <= n + 1
           Says(n) == \A name \in DOMAIN g[n].named : Explains(chain, name, n + 1, g[n].named[name])
           H == {n \in 0 .. N : Names(n) /\ Says(n)}
<1>1. N \in Nat /\ DOMAIN chain = 1 .. N + 1 /\ chain \in Seq(LevelsOf(Vs, Ns, BindingsOf(P, K, V)))
  OBVIOUS
<1>2. g[0] = chain[1] /\ \A n \in 1 .. N : g[n] = G!MergeTwo(g[n - 1], chain[n + 1])
  BY MergedOverIs
<1>3. \A name : \A i \in G!Binding(chain, name) : i \in DOMAIN chain /\ name \in DOMAIN chain[i].named
  BY DEF G!Binding
<1>4. \A name : \A i \in DOMAIN chain : name \in DOMAIN chain[i].named => i \in G!Binding(chain, name)
  BY DEF G!Binding
<1> HIDE DEF g, N
<1>5. 0 \in H
  <2>1. Names(0)
    <3>1. SUFFICES ASSUME NEW name
                   PROVE  name \in DOMAIN chain[1].named <=> \E i \in G!Binding(chain, name) : i <= 1
      BY <1>2
    <3>2. \A i \in G!Binding(chain, name) : i <= 1 => i = 1
      BY <1>1, <1>3
    <3>3. 1 \in DOMAIN chain
      BY <1>1
    <3> QED BY <1>3, <1>4, <3>2, <3>3
  <2>2. Says(0)
    <3>1. SUFFICES ASSUME NEW name \in DOMAIN chain[1].named PROVE Explains(chain, name, 1, chain[1].named[name])
      BY <1>2
    <3>2. 1 \in G!Binding(chain, name)
      BY <1>1, <1>4, <3>1
    <3>3. \A i \in G!Binding(chain, name) : ~ (i <= 0)
      BY <1>1, <1>3
    <3>4. 0 + 1 \in G!Binding(chain, name) /\ 0 \in Nat
      BY <3>2
    <3>5. Explains(chain, name, 0 + 1, chain[0 + 1].named[name])
      BY <1>1, <3>3, <3>4, ExplainsFirst
    <3> QED BY <3>5
  <2> QED BY <1>1, <2>1, <2>2
<1>6. ASSUME NEW n \in 1 .. N, n - 1 \in H PROVE n \in H
  <2> DEFINE a == g[n - 1]
             leaf == chain[n + 1]
  <2>1. n \in Nat /\ n \in 0 .. N /\ n + 1 \in DOMAIN chain /\ (n - 1) + 1 = n
    BY <1>1
  <2>2. g[n].named = G!MergeNamedMap(a.named, leaf.named)
    <3>1. g[n] = G!MergeTwo(a, leaf)
      BY <1>2
    <3> HIDE DEF a, leaf
    <3> QED BY <3>1 DEF G!MergeTwo
  <2>3. /\ \A name : name \in DOMAIN a.named <=> \E i \in G!Binding(chain, name) : i <= n
        /\ \A name \in DOMAIN a.named : Explains(chain, name, n, a.named[name])
    BY <1>6, <2>1
  <2> HIDE DEF a
  <2>4. \A name : name \in DOMAIN leaf.named <=> n + 1 \in G!Binding(chain, name)
    BY <1>3, <1>4, <2>1
  <2>5. DOMAIN g[n].named = DOMAIN a.named \union DOMAIN leaf.named
    BY <2>2 DEF G!MergeNamedMap
  <2>6. Names(n)
    <3>1. SUFFICES ASSUME NEW name
                   PROVE  name \in DOMAIN g[n].named <=> \E i \in G!Binding(chain, name) : i <= n + 1
      OBVIOUS
    <3>2. \A i \in G!Binding(chain, name) : i <= n + 1 <=> i <= n \/ i = n + 1
      BY <1>1, <1>3, <2>1
    <3> QED BY <2>3, <2>4, <2>5, <3>2
  <2>7. Says(n)
    <3>1. SUFFICES ASSUME NEW name \in DOMAIN g[n].named
                   PROVE  Explains(chain, name, n + 1, g[n].named[name])
      OBVIOUS
    <3>2. CASE name \notin DOMAIN leaf.named
      <4>1. name \in DOMAIN a.named /\ n + 1 \notin G!Binding(chain, name)
        BY <2>4, <2>5, <3>1, <3>2
      <4>2. g[n].named[name] = a.named[name]
        BY <2>2, <2>5, <3>1, <3>2 DEF G!MergeNamedMap
      <4>3. Explains(chain, name, n + 1, a.named[name])
        BY <1>1, <2>1, <2>3, <4>1, ExplainsOn
      <4> QED BY <4>2, <4>3
    <3>3. CASE name \in DOMAIN leaf.named /\ name \notin DOMAIN a.named
      <4>1. n + 1 \in G!Binding(chain, name) /\ \A i \in G!Binding(chain, name) : ~ (i <= n)
        BY <2>3, <2>4, <3>3
      <4>2. g[n].named[name] = leaf.named[name]
        BY <2>2, <2>5, <3>1, <3>3 DEF G!MergeNamedMap
      <4>3. Explains(chain, name, n + 1, leaf.named[name])
        BY <1>1, <2>1, <4>1, ExplainsFirst
      <4> QED BY <4>2, <4>3
    <3>4. CASE name \in DOMAIN leaf.named /\ name \in DOMAIN a.named
      <4>1. n + 1 \in G!Binding(chain, name) /\ Explains(chain, name, n, a.named[name])
        BY <2>3, <2>4, <3>4
      <4>2. g[n].named[name] = G!MergeBinding(a.named[name], leaf.named[name])
        BY <2>2, <2>5, <3>1, <3>4 DEF G!MergeNamedMap
      <4>3. Explains(chain, name, n + 1, G!MergeBinding(a.named[name], leaf.named[name]))
        BY <1>1, <2>1, <4>1, ExplainsOver
      <4> QED BY <4>2, <4>3
    <3> QED BY <2>5, <3>1, <3>2, <3>3, <3>4
  <2> QED BY <2>1, <2>6, <2>7
<1>7. N \in H
  <2> HIDE DEF H
  <2>1. 0 .. N \subseteq H
    BY <1>1, <1>5, <1>6, UpTo
  <2> QED BY <1>1, <2>1
<1>8. \A name : \A i \in G!Binding(chain, name) : i \in DOMAIN chain /\ i <= N + 1
  BY <1>1, <1>3
<1>9. \A name, k : \A i \in G!Setting(chain, name, k) : i \in DOMAIN chain /\ i <= N + 1
  BY <1>8 DEF G!Setting
<1>10. \A S, i : S \subseteq DOMAIN chain /\ LastIn(S, N + 1, i) => i = G!Latest(S)
  <2>1. SUFFICES ASSUME NEW S, NEW i, S \subseteq DOMAIN chain, LastIn(S, N + 1, i) PROVE i = G!Latest(S)
    OBVIOUS
  <2>2. i \in S /\ \A j \in S : j <= i
    BY <1>1, <2>1 DEF LastIn
  <2>3. \A l \in S : (\A j \in S : j <= l) => l = i
    BY <1>1, <2>1, <2>2
  <2> QED BY <2>2, <2>3 DEF G!Latest
<1> DEFINE effective == G!resolve_effective_bindings(chain)
<1>11. SUFFICES ASSUME effective # Nothing,
                       NEW name \in UNION {DOMAIN chain[i].named : i \in DOMAIN chain}
                PROVE  /\ name \in DOMAIN effective.named
                       /\ effective.named[name].provider = chain[G!Latest(G!Binding(chain, name))].named[name].provider
                       /\ DOMAIN effective.named[name].config =
                             UNION {DOMAIN chain[i].named[name].config : i \in G!Binding(chain, name)}
                       /\ \A k \in DOMAIN effective.named[name].config :
                             effective.named[name].config[k] =
                                 chain[G!Latest(G!Setting(chain, name, k))].named[name].config[k]
  BY DEF G!LastLevelWins
<1>12. effective = g[N]
  BY <1>11 DEF G!resolve_effective_bindings, g, N
<1>13. name \in DOMAIN g[N].named
  BY <1>4, <1>7, <1>8, <1>11
<1> DEFINE b == g[N].named[name]
<1>14. Explains(chain, name, N + 1, b)
  BY <1>7, <1>13
<1> HIDE DEF effective, b
<1>15. G!Binding(chain, name) \subseteq DOMAIN chain /\ \A k : G!Setting(chain, name, k) \subseteq DOMAIN chain
  BY <1>8, <1>9
<1>16. b.provider = chain[G!Latest(G!Binding(chain, name))].named[name].provider
  BY <1>10, <1>14, <1>15 DEF Explains
<1>17. \A k \in DOMAIN b.config : b.config[k] = chain[G!Latest(G!Setting(chain, name, k))].named[name].config[k]
  BY <1>10, <1>14, <1>15 DEF Explains
<1>18. DOMAIN b.config = UNION {DOMAIN chain[i].named[name].config : i \in G!Binding(chain, name)}
  <2>1. \A k : k \in DOMAIN b.config <=> \E i \in G!Setting(chain, name, k) : i <= N + 1
    BY <1>14 DEF Explains
  <2>2. \A k : k \in DOMAIN b.config <=> \E i \in G!Binding(chain, name) : k \in DOMAIN chain[i].named[name].config
    BY <1>8, <2>1 DEF G!Setting
  <2> QED BY <2>2
<1> QED BY <1>12, <1>13, <1>16, <1>17, <1>18 DEF b

-----------------------------------------------------------------------------
(* Presentation: the entries of the two dictionaries.                      *)
In(x, list) == \E i \in DOMAIN list : list[i] = x

(* One entry put into a dictionary.                                        *)
LEMMA PutIs ==
    ASSUME NEW B, NEW list \in Seq(B), NEW b \in B, Keyed(list)
    PROVE  /\ G!Put(list, b) \in Seq(B) /\ Keyed(G!Put(list, b))
           /\ \A x : In(x, G!Put(list, b)) <=> x = b \/ (In(x, list) /\ x.key # b.key)
<1>1. DOMAIN list = 1 .. Len(list) /\ Len(list) \in Nat
  OBVIOUS
<1>2. CASE b.key \in G!KeysOf(list)
  <2> DEFINE new == [i \in DOMAIN list |-> IF list[i].key = b.key THEN b ELSE list[i]]
  <2>1. G!Put(list, b) = new
    BY <1>2 DEF G!Put
  <2>2. new \in Seq(B)
    BY <1>1
  <2>3. DOMAIN new = DOMAIN list /\ \A i \in DOMAIN list : new[i].key = list[i].key
    OBVIOUS
  <2>4. PICK l \in DOMAIN list : list[l].key = b.key
    BY <1>2 DEF G!KeysOf
  <2>5. \A i \in DOMAIN list : list[i].key = b.key => i = l
    BY <2>4 DEF Keyed
  <2>6. \A i \in DOMAIN list : new[i] = IF i = l THEN b ELSE list[i]
    BY <2>4, <2>5
  <2> HIDE DEF new
  <2>7. Keyed(new)
    BY <2>3 DEF Keyed
  <2>8. \A x : In(x, new) <=> x = b \/ (In(x, list) /\ x.key # b.key)
    BY <2>3, <2>4, <2>5, <2>6 DEF In
  <2> QED BY <2>1, <2>2, <2>7, <2>8
<1>3. CASE b.key \notin G!KeysOf(list)
  <2> DEFINE new == Append(list, b)
             L == Len(list)
  <2>1. G!Put(list, b) = new
    BY <1>3 DEF G!Put
  <2>2. /\ new \in Seq(B) /\ DOMAIN new = 1 .. L + 1 /\ new[L + 1] = b /\ L \in Nat
        /\ \A i \in 1 .. L : new[i] = list[i]
    OBVIOUS
  <2>3. \A i \in 1 .. L : list[i].key # b.key
    BY <1>1, <1>3 DEF G!KeysOf
  <2> HIDE DEF new, L
  <2>4. DOMAIN list = 1 .. L
    BY <1>1 DEF L
  <2>5. Keyed(new)
    BY <2>2, <2>3, <2>4 DEF Keyed
  <2>6. \A x : In(x, new) <=> x = b \/ (In(x, list) /\ x.key # b.key)
    BY <2>2, <2>3, <2>4 DEF In
  <2> QED BY <2>1, <2>2, <2>5, <2>6
<1> QED BY <1>2, <1>3

(* Both dictionaries of an application, with the entries of each.          *)
TwoMaps(app) == (\E B : app.nested \in Seq(B) /\ app.flat \in Seq(B)) /\ Keyed(app.nested) /\ Keyed(app.flat)

LEMMA OverlaidIs ==
    ASSUME NEW B, NEW app, app.nested \in Seq(B), app.flat \in Seq(B), Keyed(app.nested)
    PROVE  /\ G!Overlaid(app)[0] = app.nested
           /\ \A n \in 1 .. Len(app.flat) :
                 G!Overlaid(app)[n] = G!Put(G!Overlaid(app)[n - 1], app.flat[n])
<1> DEFINE N == Len(app.flat)
           A == {list \in Seq(B) : Keyed(list)}
           base == app.nested
           Next1(n, a) == G!Put(a, app.flat[n])
           step == [p \in (1 .. N) \X A |-> Next1(p[1], p[2])]
           g == G!Overlaid(app)
           Solves(f) == f = [n \in 0 .. N |-> IF n = 0 THEN base ELSE Next1(n, f[n - 1])]
<1>1. N \in Nat
  OBVIOUS
<1>2. base \in A
  OBVIOUS
<1>4. \A n \in 1 .. N, a \in A : Next1(n, a) \in A
  <2>1. SUFFICES ASSUME NEW n \in 1 .. N, NEW a \in A PROVE Next1(n, a) \in A
    OBVIOUS
  <2>2. app.flat[n] \in B /\ a \in Seq(B) /\ Keyed(a)
    OBVIOUS
  <2> QED BY <2>2, PutIs
<1>5. step \in Steps(N, A) /\ \A n \in 1 .. N, a \in A : step[<<n, a>>] = Next1(n, a)
  <2> HIDE DEF N, A, Next1
  <2> QED BY <1>4 DEF Steps
<1>6. g = CHOOSE f : Solves(f)
  BY DEF G!Overlaid
<1> HIDE DEF N, A, Next1, step, g, base
<1>7. PICK f \in [0 .. N -> A] : f[0] = base /\ \A n \in 1 .. N : f[n] = step[<<n, f[n - 1]>>]
  <2>1. \E f : Recurs(f, N, A, base, step)
    BY <1>1, <1>2, <1>5, Recursion
  <2> QED BY <2>1 DEF Recurs
<1>8. Solves(f)
  <2>1. \A n \in 0 .. N : f[n] = IF n = 0 THEN base ELSE Next1(n, f[n - 1])
    <3>1. SUFFICES ASSUME NEW n \in 0 .. N PROVE f[n] = IF n = 0 THEN base ELSE Next1(n, f[n - 1])
      OBVIOUS
    <3>2. CASE n = 0
      BY <1>7, <3>2
    <3>3. CASE n # 0
      <4>1. n \in 1 .. N /\ n - 1 \in 0 .. N
        BY <1>1, <3>3
      <4> QED BY <1>5, <1>7, <3>3, <4>1
    <3> QED BY <3>2, <3>3
  <2> QED BY <1>7, <2>1
<1>9. Solves(g)
  <2> HIDE DEF Solves
  <2> QED BY <1>6, <1>8
<1>10. g[0] = base /\ \A n \in 1 .. N : g[n] = Next1(n, g[n - 1])
  BY <1>1, <1>9
<1> QED BY <1>10 DEF g, N, Next1, base

(* What an application declares: every flat entry, and the nested ones     *)
(* that have no flat one, each key once.                                   *)
LEMMA DeclaredIs ==
    ASSUME NEW app, TwoMaps(app)
    PROVE  /\ \E B : G!Declared(app) \in Seq(B)
           /\ Keyed(G!Declared(app))
           /\ \A x : In(x, G!Declared(app)) <=>
                        In(x, app.flat) \/ (In(x, app.nested) /\ x.key \notin G!KeysOf(app.flat))
<1> DEFINE N == Len(app.flat)
           flat == app.flat
           nested == app.nested
           g == G!Overlaid(app)
           Has(n) == \A x : In(x, g[n]) <=> (\E i \in 1 .. n : flat[i] = x)
                                            \/ (In(x, nested) /\ \A i \in 1 .. n : flat[i].key # x.key)
<1>1. PICK B : nested \in Seq(B) /\ flat \in Seq(B)
  BY DEF TwoMaps
<1>2. Keyed(nested) /\ Keyed(flat)
  BY DEF TwoMaps
<1>3. N \in Nat /\ DOMAIN flat = 1 .. N /\ \A n \in 1 .. N : flat[n] \in B
  BY <1>1
<1>4. g[0] = nested /\ \A n \in 1 .. N : g[n] = G!Put(g[n - 1], flat[n])
  BY <1>1, <1>2, OverlaidIs
<1> DEFINE H == {n \in 0 .. N : g[n] \in Seq(B) /\ Keyed(g[n]) /\ Has(n)}
<1> HIDE DEF g, N, flat, nested
<1>5. 0 \in H
  BY <1>1, <1>2, <1>3, <1>4
<1>6. ASSUME NEW n \in 1 .. N, n - 1 \in H PROVE n \in H
  <2>1. g[n - 1] \in Seq(B) /\ Keyed(g[n - 1]) /\ Has(n - 1) /\ n \in 0 .. N /\ n \in DOMAIN flat
    BY <1>3, <1>6
  <2>2. /\ g[n] \in Seq(B) /\ Keyed(g[n])
        /\ \A x : In(x, g[n]) <=> x = flat[n] \/ (In(x, g[n - 1]) /\ x.key # flat[n].key)
    BY <1>3, <1>4, <2>1, PutIs
  <2>3. \A i \in 1 .. n - 1 : flat[i].key # flat[n].key
    BY <1>2, <1>3, <2>1 DEF Keyed
  <2>4. \A i : i \in 1 .. n <=> i \in 1 .. n - 1 \/ i = n
    BY <1>3
  <2>5. Has(n)
    <3>1. SUFFICES ASSUME NEW x
                   PROVE  In(x, g[n]) <=> (\E i \in 1 .. n : flat[i] = x)
                                          \/ (In(x, nested) /\ \A i \in 1 .. n : flat[i].key # x.key)
      OBVIOUS
    <3>2. In(x, g[n - 1]) <=> (\E i \in 1 .. n - 1 : flat[i] = x)
                              \/ (In(x, nested) /\ \A i \in 1 .. n - 1 : flat[i].key # x.key)
      BY <2>1
    <3> QED BY <2>2, <2>3, <2>4, <3>2
  <2> QED BY <2>1, <2>2, <2>5
<1>7. N \in H
  <2> HIDE DEF H
  <2>1. 0 .. N \subseteq H
    BY <1>3, <1>5, <1>6, UpTo
  <2> QED BY <1>3, <2>1
<1>8. G!Declared(app) = g[N]
  BY DEF G!Declared, g, N
<1>9. \A x : (\E i \in 1 .. N : flat[i] = x) <=> In(x, flat)
  BY <1>3 DEF In
<1>10. \A x : (\A i \in 1 .. N : flat[i].key # x.key) <=> x.key \notin G!KeysOf(flat)
  BY <1>3 DEF G!KeysOf
<1> QED BY <1>7, <1>8, <1>9, <1>10 DEF flat, nested

DefaultBinding == [key |-> <<G!Base>>, provider |-> Default, config |-> Nothing]

LEMMA AllBindingsAre ==
    ASSUME NEW app, TwoMaps(app)
    PROVE  /\ \E B : G!AllBindings(app) \in Seq(B)
           /\ Keyed(G!AllBindings(app))
           /\ \A x : In(x, G!Declared(app)) => In(x, G!AllBindings(app))
<1> DEFINE d == G!Declared(app)
           L == Len(d)
           new == Append(d, DefaultBinding)
<1>1. PICK B : d \in Seq(B)
  BY DeclaredIs
<1>2. Keyed(d)
  BY DeclaredIs
<1> HIDE DEF d
<1>3. CASE G!HasBase(d)
  BY <1>1, <1>2, <1>3 DEF G!AllBindings, d
<1>4. CASE ~ G!HasBase(d)
  <2>1. G!AllBindings(app) = new
    BY <1>4 DEF G!AllBindings, d, DefaultBinding
  <2>2. d \in Seq(B \union {DefaultBinding}) /\ DefaultBinding \in B \union {DefaultBinding}
    BY <1>1
  <2>3. /\ new \in Seq(B \union {DefaultBinding}) /\ DOMAIN new = 1 .. L + 1 /\ new[L + 1] = DefaultBinding
        /\ \A i \in 1 .. L : new[i] = d[i]
        /\ DOMAIN d = 1 .. L /\ L \in Nat
    BY <2>2
  <2>4. DefaultBinding.key = <<G!Base>> /\ G!NamespaceOf(<<G!Base>>) = G!Base
    BY DEF DefaultBinding, G!NamespaceOf
  <2>5. \A i \in 1 .. L : G!NamespaceOf(d[i].key) # G!Base
    BY <1>4, <2>3 DEF G!HasBase, G!KeysOf
  <2> HIDE DEF new, L
  <2>6. Keyed(new)
    <3>1. SUFFICES ASSUME NEW i \in DOMAIN new, NEW j \in DOMAIN new, new[i].key = new[j].key PROVE i = j
      BY DEF Keyed
    <3>2. CASE i \in 1 .. L /\ j \in 1 .. L
      BY <1>2, <2>3, <3>1, <3>2 DEF Keyed
    <3>3. CASE i \in 1 .. L /\ j = L + 1
      BY <2>3, <2>4, <2>5, <3>1, <3>3
    <3>4. CASE j \in 1 .. L /\ i = L + 1
      BY <2>3, <2>4, <2>5, <3>1, <3>4
    <3>5. i \in 1 .. L \/ i = L + 1
      BY <2>3
    <3>6. j \in 1 .. L \/ j = L + 1
      BY <2>3
    <3> QED BY <3>2, <3>3, <3>4, <3>5, <3>6
  <2>7. \A x : In(x, d) => In(x, new)
    BY <2>3 DEF In
  <2> QED BY <2>1, <2>3, <2>6, <2>7 DEF d
<1> QED BY <1>3, <1>4

-----------------------------------------------------------------------------
(* What the entries of a list bind, one after the other.                   *)
LEMMA BoundByIs ==
    ASSUME NEW B, NEW bs \in Seq(B), NEW providers, NEW packages
    PROVE  /\ G!BoundBy(bs, providers, packages)[0] = [c \in {} |-> Nothing]
           /\ \A n \in 1 .. Len(bs) :
                 G!BoundBy(bs, providers, packages)[n] =
                     G!Bound(G!BoundBy(bs, providers, packages)[n - 1], bs[n], providers, packages)
<1> DEFINE N == Len(bs)
           Names(n) == {bs[n].key} \union G!Expansion(bs[n], providers, packages)
           Cs == UNION {Names(n) : n \in 1 .. N}
           A == Maps(Cs, B)
           base == [c \in {} |-> Nothing]
           Next1(n, a) == G!Bound(a, bs[n], providers, packages)
           step == [p \in (1 .. N) \X A |-> Next1(p[1], p[2])]
           g == G!BoundBy(bs, providers, packages)
           Solves(f) == f = [n \in 0 .. N |-> IF n = 0 THEN base ELSE Next1(n, f[n - 1])]
<1>1. N \in Nat
  OBVIOUS
<1>2. base \in A
  <2>1. DOMAIN base = {} /\ base = [c \in DOMAIN base |-> base[c]]
    OBVIOUS
  <2> HIDE DEF base, Cs
  <2>2. DOMAIN base \subseteq Cs /\ \A c \in DOMAIN base : base[c] \in B
    BY <2>1
  <2> QED BY <2>1, <2>2, MapsAre
<1>4. \A n \in 1 .. N, a \in A : Next1(n, a) \in A
  <2>1. SUFFICES ASSUME NEW n \in 1 .. N, NEW a \in A PROVE Next1(n, a) \in A
    OBVIOUS
  <2> DEFINE b == bs[n]
             names == G!Expansion(b, providers, packages)
  <2>2. b \in B /\ b.key \in Cs /\ names \subseteq Cs
    <3>1. Names(n) \subseteq Cs
      OBVIOUS
    <3>2. b \in B
      BY <1>1
    <3> HIDE DEF Cs
    <3> QED BY <3>1, <3>2
  <2>3. Next1(n, a) = IF G!IsContract(b.key)
                      THEN [c \in DOMAIN a \union {b.key} |-> IF c = b.key THEN b ELSE a[c]]
                      ELSE [c \in DOMAIN a \union names |-> IF c \in DOMAIN a THEN a[c] ELSE b]
    BY DEF G!Bound, G!SetDefault
  <2> HIDE DEF b, names, Next1, Cs
  <2>4. DOMAIN a \subseteq Cs /\ \A c \in DOMAIN a : a[c] \in B
    BY MapsAre
  <2>5. /\ Next1(n, a) = [c \in DOMAIN Next1(n, a) |-> Next1(n, a)[c]]
        /\ DOMAIN Next1(n, a) \subseteq Cs
        /\ \A c \in DOMAIN Next1(n, a) : Next1(n, a)[c] \in B
    <3>1. CASE G!IsContract(b.key)
      BY <2>2, <2>3, <2>4, <3>1
    <3>2. CASE ~ G!IsContract(b.key)
      BY <2>2, <2>3, <2>4, <3>2
    <3> QED BY <3>1, <3>2
  <2> QED BY <2>5, MapsAre
<1>5. step \in Steps(N, A) /\ \A n \in 1 .. N, a \in A : step[<<n, a>>] = Next1(n, a)
  <2> HIDE DEF N, A, Next1
  <2> QED BY <1>4 DEF Steps
<1>6. g = CHOOSE f : Solves(f)
  BY DEF G!BoundBy
<1> HIDE DEF N, A, Next1, step, g, base
<1>7. PICK f \in [0 .. N -> A] : f[0] = base /\ \A n \in 1 .. N : f[n] = step[<<n, f[n - 1]>>]
  <2>1. \E f : Recurs(f, N, A, base, step)
    BY <1>1, <1>2, <1>5, Recursion
  <2> QED BY <2>1 DEF Recurs
<1>8. Solves(f)
  <2>1. \A n \in 0 .. N : f[n] = IF n = 0 THEN base ELSE Next1(n, f[n - 1])
    <3>1. SUFFICES ASSUME NEW n \in 0 .. N PROVE f[n] = IF n = 0 THEN base ELSE Next1(n, f[n - 1])
      OBVIOUS
    <3>2. CASE n = 0
      BY <1>7, <3>2
    <3>3. CASE n # 0
      <4>1. n \in 1 .. N /\ n - 1 \in 0 .. N
        BY <1>1, <3>3
      <4> QED BY <1>5, <1>7, <3>3, <4>1
    <3> QED BY <3>2, <3>3
  <2> QED BY <1>7, <2>1
<1>9. Solves(g)
  <2> HIDE DEF Solves
  <2> QED BY <1>6, <1>8
<1>10. g[0] = base /\ \A n \in 1 .. N : g[n] = Next1(n, g[n - 1])
  BY <1>1, <1>9
<1> QED BY <1>10 DEF g, N, Next1, base

(* A namespace stands for contracts of that namespace.                     *)
LEMMA ExpansionStaysInside ==
    ASSUME NEW b, NEW providers, NEW packages, NEW c \in G!Expansion(b, providers, packages)
    PROVE  G!NamespaceOf(c) = G!NamespaceOf(b.key)
<1> DEFINE ns == G!NamespaceOf(b.key)
<1>1. CASE ns = G!Base
  BY <1>1 DEF G!Expansion, G!NamespaceOf
<1>2. CASE ns # G!Base /\ ns \in DOMAIN packages
  BY <1>2 DEF G!Expansion, G!NamespaceOf
<1>3. CASE ns # G!Base /\ ns \notin DOMAIN packages
  BY <1>3 DEF G!Expansion
<1> QED BY <1>1, <1>2, <1>3

(* What the first n entries bind: what is bound by name is bound so, and   *)
(* every contract is bound by an entry of its namespace.                   *)
ByName(bs, n, acc) == \A i \in 1 .. n : G!IsContract(bs[i].key) =>
                          bs[i].key \in DOMAIN acc /\ acc[bs[i].key] = bs[i]
ByNamespace(bs, n, acc) == \A c \in DOMAIN acc : \E i \in 1 .. n :
                               acc[c] = bs[i] /\ G!NamespaceOf(c) = G!NamespaceOf(bs[i].key)

LEMMA BoundHolds ==
    ASSUME NEW B, NEW bs \in Seq(B), Keyed(bs), NEW providers, NEW packages, NEW n \in 0 .. Len(bs)
    PROVE  LET acc == G!BoundBy(bs, providers, packages)[n]
           IN  ByName(bs, n, acc) /\ ByNamespace(bs, n, acc)
<1> DEFINE N == Len(bs)
           g == G!BoundBy(bs, providers, packages)
           H == {m \in 0 .. N : ByName(bs, m, g[m]) /\ ByNamespace(bs, m, g[m])}
<1>1. N \in Nat /\ DOMAIN bs = 1 .. N /\ n \in 0 .. N
  OBVIOUS
<1>2. g[0] = [c \in {} |-> Nothing] /\ \A m \in 1 .. N : g[m] = G!Bound(g[m - 1], bs[m], providers, packages)
  BY BoundByIs
<1> HIDE DEF g, N
<1>3. 0 \in H
  <2>1. DOMAIN g[0] = {}
    BY <1>2
  <2>2. \A i \in 1 .. 0 : FALSE
    OBVIOUS
  <2> QED BY <1>1, <2>1, <2>2 DEF ByName, ByNamespace
<1>4. ASSUME NEW m \in 1 .. N, m - 1 \in H PROVE m \in H
  <2> DEFINE b == bs[m]
             a == g[m - 1]
             names == G!Expansion(b, providers, packages)
  <2>1. ByName(bs, m - 1, a) /\ ByNamespace(bs, m - 1, a) /\ m \in 0 .. N
    BY <1>1, <1>4
  <2>2. \A i : i \in 1 .. m <=> i \in 1 .. m - 1 \/ i = m
    BY <1>1
  <2>3. \A i \in 1 .. m - 1 : bs[i].key # b.key
    BY <1>1 DEF Keyed
  <2>4. \A c \in names : G!NamespaceOf(c) = G!NamespaceOf(b.key)
    BY ExpansionStaysInside
  <2>5. g[m] = IF G!IsContract(b.key)
               THEN [c \in DOMAIN a \union {b.key} |-> IF c = b.key THEN b ELSE a[c]]
               ELSE [c \in DOMAIN a \union names |-> IF c \in DOMAIN a THEN a[c] ELSE b]
    BY <1>2 DEF G!Bound, G!SetDefault
  <2> HIDE DEF a, names
  <2>6. CASE G!IsContract(b.key)
    <3>1. DOMAIN g[m] = DOMAIN a \union {b.key} /\ \A c \in DOMAIN g[m] : g[m][c] = IF c = b.key THEN b ELSE a[c]
      BY <2>5, <2>6
    <3>2. ByName(bs, m, g[m])
      BY <2>1, <2>2, <2>3, <3>1 DEF ByName
    <3>3. ByNamespace(bs, m, g[m])
      <4>1. SUFFICES ASSUME NEW c \in DOMAIN g[m]
                     PROVE  \E i \in 1 .. m : g[m][c] = bs[i] /\ G!NamespaceOf(c) = G!NamespaceOf(bs[i].key)
        BY DEF ByNamespace
      <4>2. CASE c = b.key
        BY <2>2, <3>1, <4>2
      <4>3. CASE c # b.key
        BY <2>1, <2>2, <3>1, <4>3 DEF ByNamespace
      <4> QED BY <4>2, <4>3
    <3> QED BY <2>1, <3>2, <3>3
  <2>7. CASE ~ G!IsContract(b.key)
    <3>1. /\ DOMAIN g[m] = DOMAIN a \union names
          /\ \A c \in DOMAIN g[m] : g[m][c] = IF c \in DOMAIN a THEN a[c] ELSE b
      BY <2>5, <2>7
    <3>2. ByName(bs, m, g[m])
      BY <2>1, <2>2, <2>7, <3>1 DEF ByName
    <3>3. ByNamespace(bs, m, g[m])
      <4>1. SUFFICES ASSUME NEW c \in DOMAIN g[m]
                     PROVE  \E i \in 1 .. m : g[m][c] = bs[i] /\ G!NamespaceOf(c) = G!NamespaceOf(bs[i].key)
        BY DEF ByNamespace
      <4>2. CASE c \in DOMAIN a
        BY <2>1, <2>2, <3>1, <4>2 DEF ByNamespace
      <4>3. CASE c \notin DOMAIN a
        BY <2>2, <2>4, <3>1, <4>3
      <4> QED BY <4>2, <4>3
    <3> QED BY <2>1, <3>2, <3>3
  <2> QED BY <2>6, <2>7
<1>5. 0 .. N \subseteq H
  <2> HIDE DEF H
  <2> QED BY <1>1, <1>3, <1>4, UpTo
<1> QED BY <1>1, <1>5 DEF g

(* The presentation bindings of any application: a contract that it binds  *)
(* by name is served by that product, whatever its namespace is bound to   *)
(* and in whatever order.                                                  *)
THEOREM NamedContractsAreServed ==
    ASSUME NEW app, TwoMaps(app), NEW providers, NEW packages
    PROVE  G!ByNameBeforeNamespace(app, providers, packages)
<1> DEFINE bs == G!AllBindings(app)
           acc == G!BoundBy(bs, providers, packages)[Len(bs)]
           serving == G!Serving(app, providers, packages)
           Heard(b) == b \in Range(app.flat) \/ b.key \notin G!KeysOf(app.flat)
<1>1. PICK B : bs \in Seq(B)
  BY AllBindingsAre
<1>2. Keyed(bs)
  BY AllBindingsAre
<1>3. ByName(bs, Len(bs), acc)
  <2> HIDE DEF bs
  <2>1. Len(bs) \in 0 .. Len(bs)
    BY <1>1
  <2> QED BY <1>1, <1>2, <2>1, BoundHolds
<1>4. serving = [c \in {c \in DOMAIN acc : acc[c].provider \in DOMAIN providers} |-> acc[c].provider]
  BY DEF G!Serving
<1> HIDE DEF bs, acc, serving
<1>5. SUFFICES ASSUME NEW b, b \in Range(app.flat) \union Range(app.nested), G!IsContract(b.key), Heard(b)
               PROVE  IF b.provider \in DOMAIN providers
                      THEN b.key \in DOMAIN serving /\ serving[b.key] = b.provider
                      ELSE b.key \notin DOMAIN serving
  BY DEF G!ByNameBeforeNamespace, serving, G!Range, Range
<1>6. In(b, G!Declared(app))
  <2>1. In(b, app.flat) \/ (In(b, app.nested) /\ b.key \notin G!KeysOf(app.flat))
    BY <1>5 DEF Range, In
  <2> QED BY <2>1, DeclaredIs
<1>7. PICK i \in DOMAIN bs : bs[i] = b
  BY <1>6, AllBindingsAre DEF In, bs
<1>8. b.key \in DOMAIN acc /\ acc[b.key] = b
  <2>1. i \in 1 .. Len(bs)
    BY <1>1, <1>7
  <2> QED BY <1>3, <1>5, <1>7, <2>1 DEF ByName
<1> QED BY <1>4, <1>8

(* Every base contract is served by the default product when the           *)
(* application binds nothing of the base.                                  *)
THEOREM BaseContractsAreServed ==
    ASSUME NEW app, TwoMaps(app), NEW providers, NEW packages
    PROVE  G!BaseIsServed(app, providers, packages)
<1> DEFINE d == G!Declared(app)
           L == Len(d)
           bs == G!AllBindings(app)
           g == G!BoundBy(bs, providers, packages)
           serving == G!Serving(app, providers, packages)
<1>1. SUFFICES ASSUME Default \in DOMAIN providers, ~ G!HasBase(app.flat), ~ G!HasBase(app.nested),
                      NEW c \in BaseContracts
               PROVE  <<G!Base, c>> \in DOMAIN serving
  BY DEF G!BaseIsServed
<1>2. PICK B : d \in Seq(B)
  BY DeclaredIs
<1>3. ~ G!HasBase(d)
  <2>1. SUFFICES ASSUME G!HasBase(d) PROVE FALSE
    OBVIOUS
  <2>2. PICK i \in DOMAIN d : G!NamespaceOf(d[i].key) = G!Base
    BY <2>1 DEF G!HasBase, G!KeysOf
  <2>3. In(d[i], app.flat) \/ In(d[i], app.nested)
    <3>1. In(d[i], d)
      BY DEF In
    <3> QED BY <3>1, DeclaredIs
  <2> QED BY <1>1, <2>2, <2>3 DEF In, G!HasBase, G!KeysOf
<1>4. bs = Append(d, DefaultBinding)
  BY <1>3 DEF G!AllBindings, DefaultBinding
<1>5. Keyed(bs)
  BY AllBindingsAre
<1> HIDE DEF d, bs, serving
<1>6. /\ bs \in Seq(B \union {DefaultBinding}) /\ Len(bs) = L + 1 /\ bs[L + 1] = DefaultBinding
      /\ \A i \in 1 .. L : bs[i] = d[i]
      /\ DOMAIN d = 1 .. L /\ L \in Nat
  <2>1. d \in Seq(B \union {DefaultBinding}) /\ DefaultBinding \in B \union {DefaultBinding}
    BY <1>2
  <2> QED BY <1>4, <2>1
<1>7. ByNamespace(bs, L, g[L])
  <2>1. L \in 0 .. Len(bs)
    BY <1>6
  <2> QED BY <1>5, <1>6, <2>1, BoundHolds
<1>8. <<G!Base, c>> \notin DOMAIN g[L]
  <2>1. SUFFICES ASSUME <<G!Base, c>> \in DOMAIN g[L] PROVE FALSE
    OBVIOUS
  <2>2. PICK i \in 1 .. L : G!NamespaceOf(<<G!Base, c>>) = G!NamespaceOf(bs[i].key)
    BY <1>7, <2>1 DEF ByNamespace
  <2>3. G!NamespaceOf(d[i].key) = G!Base
    BY <1>6, <2>2 DEF G!NamespaceOf
  <2> QED BY <1>3, <1>6, <2>3 DEF G!HasBase, G!KeysOf
<1>9. g[L + 1] = G!Bound(g[L], DefaultBinding, providers, packages)
  <2>1. L + 1 \in 1 .. Len(bs) /\ (L + 1) - 1 = L
    BY <1>6
  <2>2. \A n \in 1 .. Len(bs) : g[n] = G!Bound(g[n - 1], bs[n], providers, packages)
    BY <1>6, BoundByIs
  <2> HIDE DEF g
  <2>3. g[L + 1] = G!Bound(g[(L + 1) - 1], bs[L + 1], providers, packages)
    BY <2>1, <2>2
  <2> QED BY <1>6, <2>1, <2>3
<1> HIDE DEF g
<1>10. DefaultBinding.key = <<G!Base>> /\ DefaultBinding.provider = Default
  BY DEF DefaultBinding
<1>11. ~ G!IsContract(DefaultBinding.key)
  BY <1>10 DEF G!IsContract
<1>12. G!Expansion(DefaultBinding, providers, packages) = {<<G!Base, x>> : x \in BaseContracts}
  BY <1>10 DEF G!Expansion, G!NamespaceOf
<1>13. <<G!Base, c>> \in DOMAIN g[L + 1] /\ g[L + 1][<<G!Base, c>>] = DefaultBinding
  BY <1>8, <1>9, <1>11, <1>12 DEF G!Bound, G!SetDefault
<1>14. serving = [x \in {x \in DOMAIN g[L + 1] : g[L + 1][x].provider \in DOMAIN providers} |-> g[L + 1][x].provider]
  BY <1>6 DEF serving, G!Serving, g, bs
<1> QED BY <1>1, <1>10, <1>13, <1>14

-----------------------------------------------------------------------------
(* Boundaries.  A list of numbers up to N has a last and a first.          *)
LEMMA EndsExist ==
    ASSUME NEW N \in Nat, NEW S \in SUBSET (0 .. N), S # {}
    PROVE  /\ Bd!Max(S) \in S /\ \A y \in S : y <= Bd!Max(S)
           /\ Bd!Min(S) \in S /\ \A y \in S : Bd!Min(S) <= y
<1> DEFINE Ends(Q) == (\E x \in Q : \A y \in Q : x >= y) /\ (\E x \in Q : \A y \in Q : x <= y)
           H == {n \in 0 .. N : \A Q \in SUBSET (0 .. n) : Q # {} => Ends(Q)}
<1>1. 0 \in H
  <2>0. 0 .. 0 = {0}
    OBVIOUS
  <2>1. \A Q \in SUBSET {0} : Q # {} => Q = {0}
    OBVIOUS
  <2> QED BY <2>0, <2>1
<1>2. ASSUME NEW n \in 1 .. N, n - 1 \in H PROVE n \in H
  <2>1. SUFFICES ASSUME NEW Q \in SUBSET (0 .. n), Q # {} PROVE Ends(Q)
    BY <1>2
  <2>2. \A P \in SUBSET (0 .. n - 1) : P # {} => Ends(P)
    BY <1>2
  <2>3. CASE n \notin Q
    <3>1. Q \in SUBSET (0 .. n - 1)
      BY <2>3
    <3> QED BY <2>1, <2>2, <3>1
  <2>4. CASE n \in Q
    <3> DEFINE P == Q \ {n}
    <3>1. P \in SUBSET (0 .. n - 1)
      OBVIOUS
    <3>2. CASE P = {}
      <4>1. Q = {n}
        BY <2>4, <3>2
      <4> QED BY <4>1
    <3>3. CASE P # {}
      <4>1. PICK x \in P : \A y \in P : x <= y
        BY <2>2, <3>1, <3>3
      <4>2. \A y \in Q : x <= y /\ n >= y
        BY <3>1, <4>1
      <4> QED BY <2>4, <4>2
    <3> QED BY <3>2, <3>3
  <2> QED BY <2>3, <2>4
<1>3. N \in H
  <2> HIDE DEF H
  <2>1. 0 .. N \subseteq H
    BY <1>1, <1>2, UpTo
  <2> QED BY <2>1
<1>4. Ends(S)
  BY <1>3
<1> QED BY <1>4 DEF Bd!Max, Bd!Min

(* check_boundary_identity, however boundaries overlap: whoever is         *)
(* admitted satisfies the restriction of the boundary a content lies in.   *)
THEOREM BoundaryAdmits ==
    ASSUME NEW X, NEW app, app.boundaries \in Seq(X), NEW caller
    PROVE  Bd!AdmittedByItsBoundary(app, caller)
<1> DEFINE N == Len(app.boundaries)
<1>1. N \in Nat /\ DOMAIN app.boundaries = 1 .. N
  OBVIOUS
<1>2. SUFFICES ASSUME NEW c \in app.content,
                      Bd!check_boundary_identity(app, c, caller),
                      Bd!BoundaryForContent(app, c) # Bd!AppBoundary,
                      app.boundaries[Bd!BoundaryForContent(app, c)].mode = "restrict"
               PROVE  app.boundaries[Bd!BoundaryForContent(app, c)].scopes \subseteq caller
  BY DEF Bd!AdmittedByItsBoundary
<1> DEFINE bs == Bd!Containing(app, c)
           rs == Bd!Restricting(app, c)
           b == Bd!BoundaryForContent(app, c)
<1>3. bs \subseteq 1 .. N /\ rs \subseteq bs
  BY <1>1 DEF Bd!Containing, Bd!Restricting
<1>4. b = Bd!Max(bs \union {0})
  BY DEF Bd!BoundaryForContent, Bd!LastOf, Bd!AppBoundary
<1>5. rs = {x \in bs : app.boundaries[x].mode = "restrict" /\ app.boundaries[x].scopes # {}}
  BY DEF Bd!Restricting
<1>6. b # 0
  BY <1>2 DEF Bd!AppBoundary
<1>7. IF rs = {} THEN TRUE ELSE app.boundaries[Bd!Max(rs)].scopes \subseteq caller
  BY <1>2 DEF Bd!check_boundary_identity, Bd!RequiredFor
<1>8. app.boundaries[b].mode = "restrict"
  BY <1>2
<1> HIDE DEF bs, rs, b, N
<1>9. b \in bs /\ \A y \in bs : y <= b
  <2>1. bs \union {0} \in SUBSET (0 .. N) /\ bs \union {0} # {}
    BY <1>1, <1>3
  <2>2. b \in bs \union {0} /\ \A y \in bs \union {0} : y <= b
    BY <1>1, <1>4, <2>1, EndsExist
  <2> QED BY <1>6, <2>2
<1>10. CASE app.boundaries[b].scopes = {}
  BY <1>10 DEF b
<1>11. CASE app.boundaries[b].scopes # {}
  <2>1. b \in rs
    BY <1>5, <1>8, <1>9, <1>11
  <2>2. rs \in SUBSET (0 .. N)
    BY <1>1, <1>3
  <2>3. Bd!Max(rs) \in rs /\ b <= Bd!Max(rs)
    BY <1>1, <2>1, <2>2, EndsExist
  <2>4. Bd!Max(rs) <= b
    BY <1>3, <1>9, <2>3
  <2>5. Bd!Max(rs) = b
    <3> DEFINE top == Bd!Max(rs)
    <3>0. top \in bs /\ b \in bs /\ b <= top /\ top <= b
      BY <1>3, <1>9, <2>3, <2>4
    <3> HIDE DEF top
    <3>1. top \in Nat /\ b \in Nat /\ b <= top /\ top <= b
      BY <1>1, <1>3, <3>0
    <3>2. top = b
      BY <3>1
    <3> QED BY <3>2 DEF top
  <2> QED BY <1>7, <2>1, <2>5 DEF b
<1> QED BY <1>10, <1>11

(* check_boundary_access: a compute whose declared contents lie in one     *)
(* boundary may access every one of them.                                  *)
THEOREM DeclaredAccessIsGranted ==
    ASSUME NEW Y, NEW app, \A x \in DOMAIN app.computes : app.computes[x] \in Seq(Y)
    PROVE  Bd!DeclaredAccessesWork(app)
<1>1. SUFFICES ASSUME NEW x \in DOMAIN app.computes,
                      \A c \in {c \in Bd!Range(app.computes[x]) : Bd!Known(app, c)},
                         d \in {c \in Bd!Range(app.computes[x]) : Bd!Known(app, c)} :
                            Bd!BoundaryForContent(app, c) = Bd!BoundaryForContent(app, d),
                      NEW c \in {c \in Bd!Range(app.computes[x]) : Bd!Known(app, c)}
               PROVE  Bd!check_boundary_access(app, x, c)
  BY DEF Bd!DeclaredAccessesWork, Bd!Range
<1> DEFINE accesses == app.computes[x]
           mapped == Bd!Mapped(app, x)
<1>2. accesses \in Seq(Y) /\ Bd!Range(accesses) = {accesses[i] : i \in DOMAIN accesses}
  BY DEF Bd!Range
<1>3. mapped = {i \in DOMAIN accesses : Bd!Known(app, accesses[i])}
  BY DEF Bd!Mapped
<1>4. mapped \in SUBSET (0 .. Len(accesses)) /\ Len(accesses) \in Nat
  BY <1>2, <1>3
<1>5. mapped # {}
  BY <1>1, <1>2, <1>3
<1>6. Bd!Min(mapped) \in mapped
  BY <1>4, <1>5, EndsExist
<1>7. Bd!BoundaryForCompute(app, x) = Bd!BoundaryForContent(app, accesses[Bd!Min(mapped)])
  BY <1>5 DEF Bd!BoundaryForCompute
<1>8. accesses[Bd!Min(mapped)] \in {d \in Bd!Range(accesses) : Bd!Known(app, d)}
  BY <1>2, <1>3, <1>6
<1> QED BY <1>1, <1>7, <1>8 DEF Bd!check_boundary_access

-----------------------------------------------------------------------------
(* When clauses: what one clause makes of the data.                        *)
Verdicts(F, V) == [refused : BOOLEAN, data : Maps(F, V)]

LEMMA FilledIs ==
    ASSUME NEW F, NEW V, NEW d \in Maps(F, V), NEW f \in F, NEW v \in V
    PROVE  Dp!Filled(d, f, v) \in Maps(F, V)
<1> DEFINE new == Dp!Filled(d, f, v)
<1>1. DOMAIN d \subseteq F /\ \A k \in DOMAIN d : d[k] \in V
  BY MapsAre
<1>2. new = [k \in DOMAIN d \union {f} |-> IF k = f THEN v ELSE d[k]]
  BY DEF Dp!Filled
<1>3. new = [k \in DOMAIN new |-> new[k]] /\ DOMAIN new \subseteq F /\ \A k \in DOMAIN new : new[k] \in V
  BY <1>1, <1>2
<1> HIDE DEF new
<1>4. new \in Maps(F, V)
  BY <1>3, MapsAre
<1> QED BY <1>4 DEF new

Fills(a, clause) == /\ ~ a.refused /\ Dp!Applies(clause, a.data) /\ clause.constraint = "default"
                    /\ Dp!Missing(a.data, clause.field)
Refuses(a, clause) == /\ Dp!Applies(clause, a.data) /\ clause.constraint # "default"
                      /\ ~ Dp!Satisfies(clause, a.data)

LEMMA ClauseIs ==
    ASSUME NEW F, NEW V, NEW a \in Verdicts(F, V), NEW given,
           NEW clause, clause.field \in F, clause.values[1] \in V
    PROVE  /\ Dp!Clause(a, clause, given) \in Verdicts(F, V)
           /\ Dp!Clause(a, clause, given).refused <=> a.refused \/ Refuses(a, clause)
           /\ Dp!Clause(a, clause, given).data =
                 IF Fills(a, clause) THEN Dp!Filled(a.data, clause.field, clause.values[1]) ELSE a.data
<1> DEFINE c == Dp!Clause(a, clause, given)
           full == Dp!Filled(a.data, clause.field, clause.values[1])
           sat == Dp!Satisfies(clause, a.data)
<1>1. a = [refused |-> a.refused, data |-> a.data] /\ a.refused \in BOOLEAN /\ a.data \in Maps(F, V)
  BY DEF Verdicts
<1>2. full \in Maps(F, V)
  BY <1>1, FilledIs
<1>3. c = IF a.refused \/ ~ Dp!Applies(clause, a.data) THEN a
          ELSE IF clause.constraint # "default" THEN [a EXCEPT !.refused = ~ sat]
          ELSE IF Dp!Missing(a.data, clause.field) THEN [a EXCEPT !.data = full]
          ELSE a
  BY DEF Dp!Clause, Dp!SeenBy, Dp!FillsIn
<1>4. sat \in BOOLEAN
  BY DEF Dp!Satisfies
<1> HIDE DEF c, full, sat
<1>5. /\ [a EXCEPT !.refused = ~ sat] = [refused |-> ~ sat, data |-> a.data]
      /\ [a EXCEPT !.data = full] = [refused |-> a.refused, data |-> full]
  BY <1>1 DEF Verdicts
<1>6. CASE a.refused \/ ~ Dp!Applies(clause, a.data)
  BY <1>3, <1>6 DEF Fills, Refuses, c
<1>7. CASE ~ a.refused /\ Dp!Applies(clause, a.data) /\ clause.constraint # "default"
  <2>1. c = [refused |-> ~ sat, data |-> a.data]
    BY <1>3, <1>5, <1>7
  <2>2. c \in Verdicts(F, V) /\ (c.refused <=> ~ sat) /\ c.data = a.data
    BY <1>1, <1>4, <2>1 DEF Verdicts
  <2> QED BY <1>7, <2>2 DEF Fills, Refuses, c, sat
<1>8. CASE ~ a.refused /\ Dp!Applies(clause, a.data) /\ clause.constraint = "default"
  <2>1. CASE Dp!Missing(a.data, clause.field)
    <3>1. c = [refused |-> a.refused, data |-> full]
      BY <1>3, <1>5, <1>8, <2>1
    <3>2. c \in Verdicts(F, V) /\ c.refused = a.refused /\ c.data = full
      BY <1>1, <1>2, <3>1 DEF Verdicts
    <3> QED BY <1>8, <2>1, <3>2 DEF Fills, Refuses, c, full
  <2>2. CASE ~ Dp!Missing(a.data, clause.field)
    BY <1>3, <1>8, <2>2 DEF Fills, Refuses, c
  <2> QED BY <2>1, <2>2
<1> QED BY <1>6, <1>7, <1>8

(* The loop over the clauses.                                              *)
LEMMA JudgedIs ==
    ASSUME NEW X, NEW schema, schema.dependent_values \in Seq(X), NEW data, AFunction(data)
    PROVE  LET N == Len(schema.dependent_values)
               g == Dp!Judged(data, schema)
               c == schema.dependent_values
           IN  /\ g[0].data = data
               /\ \A n \in 1 .. N : /\ g[n].refused <=> g[n - 1].refused \/ Refuses(g[n - 1], c[n])
                                    /\ g[n].data = IF Fills(g[n - 1], c[n])
                                                   THEN Dp!Filled(g[n - 1].data, c[n].field, c[n].values[1])
                                                   ELSE g[n - 1].data
<1> DEFINE c == schema.dependent_values
           N == Len(c)
           F == DOMAIN data \union {c[n].field : n \in 1 .. N}
           V == {data[f] : f \in DOMAIN data} \union {c[n].values[1] : n \in 1 .. N}
           A == Verdicts(F, V)
           base == [refused |-> ~ Dp!FieldsHold(data, schema), data |-> data]
           Next1(n, a) == Dp!Clause(a, c[n], data)
           step == [p \in (1 .. N) \X A |-> Next1(p[1], p[2])]
           g == Dp!Judged(data, schema)
           Solves(f) == f = [n \in 0 .. N |-> IF n = 0 THEN base ELSE Next1(n, f[n - 1])]
<1>1. N \in Nat
  OBVIOUS
<1>2. base \in A /\ base.data = data
  <2>1. data \in Maps(F, V)
    <3>1. DOMAIN data \subseteq F /\ \A f \in DOMAIN data : data[f] \in V
      OBVIOUS
    <3> HIDE DEF F, V
    <3> QED BY <3>1, MapsAre DEF AFunction
  <2>2. (~ Dp!FieldsHold(data, schema)) \in BOOLEAN
    BY DEF Dp!FieldsHold
  <2> HIDE DEF F, V
  <2> QED BY <2>1, <2>2 DEF Verdicts
<1>3. \A n \in 1 .. N : c[n].field \in F /\ c[n].values[1] \in V
  OBVIOUS
<1>4. \A n \in 1 .. N, a \in A : Next1(n, a) \in A
  <2> HIDE DEF F, V
  <2>1. SUFFICES ASSUME NEW n \in 1 .. N, NEW a \in A PROVE Next1(n, a) \in A
    OBVIOUS
  <2>2. c[n].field \in F /\ c[n].values[1] \in V
    BY <1>3
  <2> QED BY <2>1, <2>2, ClauseIs
<1>5. step \in Steps(N, A) /\ \A n \in 1 .. N, a \in A : step[<<n, a>>] = Next1(n, a)
  <2> HIDE DEF N, A, Next1
  <2> QED BY <1>4 DEF Steps
<1>6. g = CHOOSE f : Solves(f)
  BY DEF Dp!Judged
<1> HIDE DEF N, A, Next1, step, g, base, F, V
<1>7. PICK f \in [0 .. N -> A] : f[0] = base /\ \A n \in 1 .. N : f[n] = step[<<n, f[n - 1]>>]
  <2>1. \E f : Recurs(f, N, A, base, step)
    BY <1>1, <1>2, <1>5, Recursion
  <2> QED BY <2>1 DEF Recurs
<1>8. \A n \in 1 .. N : n \in 0 .. N /\ n - 1 \in 0 .. N
  BY <1>1
<1>9. \A n \in 0 .. N : f[n] = IF n = 0 THEN base ELSE Next1(n, f[n - 1])
  <2>1. SUFFICES ASSUME NEW n \in 0 .. N PROVE f[n] = IF n = 0 THEN base ELSE Next1(n, f[n - 1])
    OBVIOUS
  <2>2. CASE n = 0
    BY <1>7, <2>2
  <2>3. CASE n # 0
    <3>1. n \in 1 .. N
      BY <1>1, <2>3
    <3> QED BY <1>5, <1>7, <1>8, <2>3, <3>1
  <2> QED BY <2>2, <2>3
<1>10. Solves(f)
  BY <1>7, <1>9
<1>11. Solves(g)
  <2> HIDE DEF Solves
  <2> QED BY <1>6, <1>10
<1>12. g[0] = base /\ \A n \in 1 .. N : g[n] = Next1(n, g[n - 1])
  BY <1>1, <1>11
<1> DEFINE H == {n \in 0 .. N : g[n] \in A}
<1>13. 0 .. N \subseteq H
  <2>1. 0 \in H
    BY <1>1, <1>2, <1>12
  <2>2. \A n \in 1 .. N : n - 1 \in H => n \in H
    BY <1>4, <1>8, <1>12
  <2> HIDE DEF H
  <2> QED BY <1>1, <2>1, <2>2, UpTo
<1>14. ASSUME NEW n \in 1 .. N
       PROVE  /\ g[n].refused <=> g[n - 1].refused \/ Refuses(g[n - 1], c[n])
              /\ g[n].data = IF Fills(g[n - 1], c[n])
                             THEN Dp!Filled(g[n - 1].data, c[n].field, c[n].values[1])
                             ELSE g[n - 1].data
  <2>1. g[n - 1] \in Verdicts(F, V)
    BY <1>8, <1>13 DEF A
  <2>2. c[n].field \in F /\ c[n].values[1] \in V
    BY <1>3
  <2>3. g[n] = Dp!Clause(g[n - 1], c[n], data)
    BY <1>12 DEF Next1
  <2> QED BY <2>1, <2>2, <2>3, ClauseIs
<1> QED BY <1>2, <1>12, <1>14 DEF g, N

(* The clauses read and fill the data field by field.                      *)
Alike(d, e, f) == (f \in DOMAIN d <=> f \in DOMAIN e) /\ (f \in DOMAIN d => d[f] = e[f])

LEMMA JudgedAlike ==
    ASSUME NEW clause, NEW d, NEW e, \A f \in Dp!DependsOn(clause) : Alike(d, e, f)
    PROVE  /\ Dp!Applies(clause, d) <=> Dp!Applies(clause, e)
           /\ Dp!Satisfies(clause, d) <=> Dp!Satisfies(clause, e)
<1>1. Alike(d, e, clause.field)
  BY DEF Dp!DependsOn
<1>2. clause.when # Nothing => Alike(d, e, clause.when.field)
  BY DEF Dp!DependsOn
<1>3. Dp!Applies(clause, d) <=> Dp!Applies(clause, e)
  BY <1>2 DEF Dp!Applies, Alike
<1>4. Dp!Missing(d, clause.field) <=> Dp!Missing(e, clause.field)
  BY <1>1 DEF Dp!Missing, Alike
<1>5. \A allowed : Dp!OneOf(d, clause.field, allowed) <=> Dp!OneOf(e, clause.field, allowed)
  BY <1>1, <1>4 DEF Dp!OneOf, Dp!Missing, Alike
<1>6. \A v : Dp!Equals(d, clause.field, v) <=> Dp!Equals(e, clause.field, v)
  BY <1>1 DEF Dp!Equals, Alike
<1> QED BY <1>3, <1>5, <1>6 DEF Dp!Satisfies

(* From clause i to clause m a field changes only when a default between   *)
(* them fills it, and a default fills only what was missing from the first.*)
FilledBetween(schema, data, i, m, f) ==
    \E j \in i + 1 .. m : /\ schema.dependent_values[j].constraint = "default"
                          /\ schema.dependent_values[j].field = f /\ Dp!Missing(data, f)

LEMMA KeepsValues ==
    ASSUME NEW X, NEW schema, schema.dependent_values \in Seq(X), NEW data, AFunction(data),
           NEW m \in 0 .. Len(schema.dependent_values), NEW f, ~ Dp!Missing(data, f)
    PROVE  Alike(data, Dp!Judged(data, schema)[m].data, f)
<1> DEFINE c == schema.dependent_values
           N == Len(c)
           g == Dp!Judged(data, schema)
           H == {n \in 0 .. N : Alike(data, g[n].data, f)}
<1>1. N \in Nat
  OBVIOUS
<1>2. g[0].data = data
  BY JudgedIs
<1>3. \A n \in 1 .. N : g[n].data = IF Fills(g[n - 1], c[n])
                                    THEN Dp!Filled(g[n - 1].data, c[n].field, c[n].values[1])
                                    ELSE g[n - 1].data
  BY JudgedIs
<1> HIDE DEF g
<1>4. 0 \in H
  BY <1>1, <1>2 DEF Alike
<1>5. ASSUME NEW n \in 1 .. N, n - 1 \in H PROVE n \in H
  <2>1. Alike(data, g[n - 1].data, f) /\ n \in 0 .. N
    BY <1>1, <1>5
  <2>2. CASE ~ Fills(g[n - 1], c[n])
    BY <1>3, <2>1, <2>2
  <2>3. CASE Fills(g[n - 1], c[n])
    <3>1. f # c[n].field
      BY <2>1, <2>3 DEF Fills, Alike, Dp!Missing
    <3>2. g[n].data = Dp!Filled(g[n - 1].data, c[n].field, c[n].values[1])
      BY <1>3, <2>3
    <3>3. Alike(g[n - 1].data, g[n].data, f)
      BY <3>1, <3>2 DEF Alike, Dp!Filled
    <3> QED BY <2>1, <3>3 DEF Alike
  <2> QED BY <2>2, <2>3
<1>6. 0 .. N \subseteq H
  <2> HIDE DEF H, N
  <2> QED BY <1>1, <1>4, <1>5, UpTo
<1> QED BY <1>6 DEF g

LEMMA Between ==
    ASSUME NEW X, NEW schema, schema.dependent_values \in Seq(X), NEW data, AFunction(data),
           NEW i \in 0 .. Len(schema.dependent_values), NEW m \in 0 .. Len(schema.dependent_values), i <= m
    PROVE  /\ Dp!Judged(data, schema)[i].refused => Dp!Judged(data, schema)[m].refused
           /\ \A f : \/ FilledBetween(schema, data, i, m, f)
                     \/ Alike(Dp!Judged(data, schema)[i].data, Dp!Judged(data, schema)[m].data, f)
<1> DEFINE c == schema.dependent_values
           N == Len(c)
           g == Dp!Judged(data, schema)
           Holds1(n) == /\ g[i].refused => g[n].refused
                        /\ \A f : FilledBetween(schema, data, i, n, f) \/ Alike(g[i].data, g[n].data, f)
           H == {n \in 0 .. N : i <= n => Holds1(n)}
<1>1. N \in Nat /\ i \in 0 .. N /\ m \in 0 .. N
  OBVIOUS
<1>2. \A n \in 1 .. N : /\ g[n - 1].refused => g[n].refused
                        /\ g[n].data = IF Fills(g[n - 1], c[n])
                                       THEN Dp!Filled(g[n - 1].data, c[n].field, c[n].values[1])
                                       ELSE g[n - 1].data
  BY JudgedIs
<1>3. \A n \in 0 .. N : \A f : ~ Dp!Missing(data, f) => Alike(data, g[n].data, f)
  BY KeepsValues
<1> HIDE DEF g, N, c
<1>4. Holds1(i)
  BY DEF Alike
<1>5. 0 \in H
  BY <1>1, <1>4
<1>6. ASSUME NEW n \in 1 .. N, n - 1 \in H PROVE n \in H
  <2>1. n \in 0 .. N /\ n - 1 \in 0 .. N /\ n \in Nat
    BY <1>1
  <2>2. CASE n < i
    BY <1>1, <2>1, <2>2
  <2>3. CASE n = i
    BY <1>4, <2>1, <2>3
  <2>4. CASE i < n
    <3>1. Holds1(n - 1)
      BY <1>1, <1>6, <2>1, <2>4
    <3>2. g[i].refused => g[n].refused
      BY <1>2, <3>1
    <3>3. ASSUME NEW f PROVE FilledBetween(schema, data, i, n, f) \/ Alike(g[i].data, g[n].data, f)
      <4>1. CASE FilledBetween(schema, data, i, n - 1, f)
        BY <1>1, <2>1, <4>1 DEF FilledBetween
      <4>2. CASE Alike(g[i].data, g[n - 1].data, f)
        <5>1. CASE ~ Fills(g[n - 1], c[n]) \/ f # c[n].field
          <6>1. Alike(g[n - 1].data, g[n].data, f)
            BY <1>2, <5>1 DEF Alike, Dp!Filled
          <6> QED BY <4>2, <6>1 DEF Alike
        <5>2. CASE Fills(g[n - 1], c[n]) /\ f = c[n].field
          <6>1. Dp!Missing(data, f)
            <7>1. Dp!Missing(g[n - 1].data, f)
              BY <5>2 DEF Fills
            <7>2. ~ Dp!Missing(data, f) => Alike(data, g[n - 1].data, f)
              BY <1>3, <2>1
            <7> QED BY <7>1, <7>2 DEF Dp!Missing, Alike
          <6>2. c[n].constraint = "default" /\ n \in i + 1 .. n
            BY <1>1, <2>1, <2>4, <5>2 DEF Fills
          <6> QED BY <5>2, <6>1, <6>2 DEF FilledBetween, c
        <5> QED BY <5>1, <5>2
      <4> QED BY <3>1, <4>1, <4>2
    <3> QED BY <2>1, <3>2, <3>3
  <2> QED BY <1>1, <2>1, <2>2, <2>3, <2>4
<1>7. m \in H
  <2> HIDE DEF H
  <2>1. 0 .. N \subseteq H
    BY <1>1, <1>5, <1>6, UpTo
  <2> QED BY <1>1, <2>1
<1> QED BY <1>7 DEF g

(* A clause that was let pass is satisfied by the data it saw.             *)
LEMMA PassedClause ==
    ASSUME NEW X, NEW schema, schema.dependent_values \in Seq(X), NEW data, AFunction(data),
           ~ Dp!validate_dependent_values(data, schema).refused, NEW i \in 1 .. Len(schema.dependent_values),
           Dp!Applies(schema.dependent_values[i], Dp!Judged(data, schema)[i - 1].data)
    PROVE  Dp!Satisfies(schema.dependent_values[i], Dp!Judged(data, schema)[i - 1].data)
<1> DEFINE c == schema.dependent_values
           N == Len(c)
           g == Dp!Judged(data, schema)
<1>1. N \in Nat /\ i \in 0 .. N /\ N \in 0 .. N /\ i <= N
  OBVIOUS
<1>2. ~ g[N].refused
  BY DEF Dp!validate_dependent_values
<1>3. ~ g[i].refused
  BY <1>1, <1>2, Between
<1>4. g[i].refused <=> g[i - 1].refused \/ Refuses(g[i - 1], c[i])
  BY JudgedIs
<1>5. c[i].constraint = "default" => Dp!Satisfies(c[i], g[i - 1].data)
  BY DEF Dp!Satisfies
<1> QED BY <1>3, <1>4, <1>5 DEF Refuses

(* A broken clause is no default, and tests fields that are there.         *)
LEMMA BrokenClause ==
    ASSUME NEW clause, NEW row, Dp!Applies(clause, row), ~ Dp!Satisfies(clause, row)
    PROVE  clause.constraint # "default" /\ \A f \in Dp!DependsOn(clause) : f \in DOMAIN row
<1>1. clause.constraint # "default" /\ clause.field \in DOMAIN row
  BY DEF Dp!Satisfies, Dp!OneOf, Dp!Equals, Dp!Missing
<1>2. clause.when # Nothing => clause.when.field \in DOMAIN row
  BY DEF Dp!Applies
<1> QED BY <1>1, <1>2 DEF Dp!DependsOn

(* create_content_handler: whatever the schema and the body, the values    *)
(* the caller gave are stored.                                             *)
THEOREM CreatesKeepValues ==
    ASSUME NEW X, NEW schema, schema.dependent_values \in Seq(X), NEW body
    PROVE  Dp!CreateKeepsWhatWasSaid(body, schema)
<1> DEFINE data == Dp!evaluate_field_defaults(body, schema)
           c == schema.dependent_values
           N == Len(c)
           final == Dp!Judged(data, schema)[N].data
           row == Dp!Created(body, schema)
<1>1. SUFFICES ASSUME row # Nothing, NEW f \in DOMAIN body \intersect DOMAIN schema.fields, ~ Dp!Missing(body, f)
               PROVE  row[f] = body[f]
  BY DEF Dp!CreateKeepsWhatWasSaid
<1>2. row = Dp!strip_unknown_fields(final, schema)
  BY <1>1 DEF Dp!Created, Dp!validate_dependent_values
<1>3. AFunction(data) /\ f \in DOMAIN data /\ data[f] = body[f]
  BY <1>1 DEF Dp!evaluate_field_defaults, AFunction
<1>4. N \in Nat /\ N \in 0 .. N
  OBVIOUS
<1> HIDE DEF data
<1>5. Alike(data, final, f)
  BY <1>1, <1>3, <1>4, KeepsValues DEF Dp!Missing
<1> HIDE DEF final, row
<1> QED BY <1>1, <1>2, <1>3, <1>5 DEF Alike, Dp!strip_unknown_fields

(* create_content_handler: for every schema whose clauses are about its    *)
(* fields and every body, the stored row satisfies every When clause,      *)
(* but where a default further down filled in what the clause was judged   *)
(* on.                                                                     *)
THEOREM CreatedRowsHold ==
    ASSUME NEW X, NEW schema, schema.dependent_values \in Seq(X), NEW body,
           \A n \in DOMAIN schema.dependent_values :
               Dp!DependsOn(schema.dependent_values[n]) \subseteq DOMAIN schema.fields
    PROVE  Dp!CreatedRowHolds(body, schema)
<1> DEFINE data == Dp!evaluate_field_defaults(body, schema)
           c == schema.dependent_values
           N == Len(c)
           g == Dp!Judged(data, schema)
           final == g[N].data
           row == Dp!Created(body, schema)
<1>1. SUFFICES ASSUME row # Nothing, NEW i \in Dp!Broken(row, schema),
                      Dp!DependsOn(c[i]) \intersect Dp!FilledLater(schema, i)
                          \intersect {f \in DOMAIN schema.fields : Dp!Missing(data, f)} = {}
               PROVE  FALSE
  BY DEF Dp!CreatedRowHolds
<1>2. row = Dp!strip_unknown_fields(final, schema) /\ ~ Dp!validate_dependent_values(data, schema).refused
  BY <1>1 DEF Dp!Created, Dp!validate_dependent_values
<1>3. AFunction(data)
  BY DEF Dp!evaluate_field_defaults, AFunction
<1> HIDE DEF data, row
<1>4. N \in Nat /\ i \in 1 .. N /\ N \in 0 .. N /\ i - 1 \in 0 .. N /\ i - 1 <= N /\ DOMAIN c = 1 .. N
  BY DEF Dp!Broken
<1>5. Dp!Applies(c[i], row) /\ ~ Dp!Satisfies(c[i], row)
  BY DEF Dp!Broken
<1>6. c[i].constraint # "default"
  BY <1>5, BrokenClause
<1>7. Dp!DependsOn(c[i]) \subseteq DOMAIN schema.fields
  BY <1>4
<1>8. \A f : FilledBetween(schema, data, i - 1, N, f) \/ Alike(g[i - 1].data, final, f)
  BY <1>3, <1>4, Between
<1>9. ASSUME NEW f \in Dp!DependsOn(c[i]) PROVE Alike(g[i - 1].data, row, f)
  <2>1. f \in DOMAIN schema.fields
    BY <1>7
  <2>2. Alike(final, row, f)
    BY <1>2, <2>1 DEF Alike, Dp!strip_unknown_fields
  <2>3. CASE FilledBetween(schema, data, i - 1, N, f)
    <3>1. PICK j \in (i - 1) + 1 .. N : c[j].constraint = "default" /\ c[j].field = f /\ Dp!Missing(data, f)
      BY <2>3 DEF FilledBetween
    <3>2. j # i /\ j > i /\ j \in DOMAIN c
      BY <1>4, <1>6, <3>1
    <3>3. f \in Dp!FilledLater(schema, i)
      BY <3>1, <3>2 DEF Dp!FilledLater
    <3> QED BY <1>1, <2>1, <3>1, <3>3
  <2>4. CASE Alike(g[i - 1].data, final, f)
    BY <2>2, <2>4 DEF Alike
  <2> QED BY <1>8, <2>3, <2>4
<1>10. Dp!Applies(c[i], g[i - 1].data) /\ ~ Dp!Satisfies(c[i], g[i - 1].data)
  BY <1>5, <1>9, JudgedAlike
<1> QED BY <1>2, <1>3, <1>4, <1>10, PassedClause

(* update_content_handler: for every schema, row and body, the row that a  *)
(* PUT leaves satisfies every When clause, but where an earlier default    *)
(* stood in for a null or an empty text.                                   *)
THEOREM UpdatedRowsHold ==
    ASSUME NEW X, NEW schema, schema.dependent_values \in Seq(X), NEW existing, NEW body
    PROVE  Dp!UpdatedRowHolds(existing, body, schema)
<1> DEFINE data == Dp!Merged(existing, body)
           c == schema.dependent_values
           N == Len(c)
           g == Dp!Judged(data, schema)
           row == Dp!Updated(existing, body, schema)
<1>1. SUFFICES ASSUME row # Nothing, NEW i \in Dp!Broken(row, schema)
               PROVE  \E j \in 1 .. i - 1 :
                         /\ c[j].constraint = "default"
                         /\ c[j].field \in Dp!DependsOn(c[i])
                         /\ c[j].field \in DOMAIN row /\ row[c[j].field] \in {Dp!Null, Dp!Empty}
  BY DEF Dp!UpdatedRowHolds
<1>2. row = data /\ ~ Dp!validate_dependent_values(data, schema).refused
  BY <1>1 DEF Dp!Updated, Dp!View
<1>3. AFunction(data)
  BY DEF Dp!Merged, AFunction
<1> HIDE DEF data, row
<1>4. N \in Nat /\ i \in 1 .. N /\ i - 1 \in 0 .. N /\ 0 \in 0 .. N /\ 0 <= i - 1
  BY DEF Dp!Broken
<1>5. Dp!Applies(c[i], data) /\ ~ Dp!Satisfies(c[i], data)
  BY <1>2 DEF Dp!Broken
<1>6. g[0].data = data
  BY <1>3, JudgedIs
<1>7. PICK f \in Dp!DependsOn(c[i]) : ~ Alike(data, g[i - 1].data, f)
  <2>1. ~ (Dp!Applies(c[i], g[i - 1].data) /\ ~ Dp!Satisfies(c[i], g[i - 1].data))
    BY <1>2, <1>3, <1>4, PassedClause
  <2> QED BY <1>5, <2>1, JudgedAlike
<1>8. FilledBetween(schema, data, 0, i - 1, f)
  BY <1>3, <1>4, <1>6, <1>7, Between
<1>9. PICK j \in 0 + 1 .. i - 1 : c[j].constraint = "default" /\ c[j].field = f /\ Dp!Missing(data, f)
  BY <1>8 DEF FilledBetween
<1>10. j \in 1 .. i - 1
  BY <1>9
<1>11. f \in DOMAIN data
  BY <1>5, BrokenClause
<1> QED BY <1>2, <1>7, <1>9, <1>10, <1>11 DEF Dp!Missing

-----------------------------------------------------------------------------
(* A finite set in the order of a relation B.                              *)
StrictTotal(B, S) ==
    /\ \A r, s \in S : r = s \/ <<r, s>> \in B \/ <<s, r>> \in B
    /\ \A r, s \in S : ~ (<<r, s>> \in B /\ <<s, r>> \in B)
    /\ \A r, s, t \in S : <<r, s>> \in B /\ <<s, t>> \in B => <<r, t>> \in B

Sorted(B, S, n, s) ==
    /\ s \in [1 .. n -> S]
    /\ \A t \in S : \E i \in 1 .. n : s[i] = t
    /\ \A i, j \in 1 .. n : i < j => <<s[i], s[j]>> \in B

LEMMA InsertKeepsOrder ==
    ASSUME NEW B, NEW S, StrictTotal(B, S), NEW n \in Nat, n # 0,
           NEW x \in S, NEW old, Sorted(B, S \ {x}, n - 1, old)
    PROVE  \E s : Sorted(B, S, n, s)
<1> DEFINE before == {i \in 1 .. n - 1 : <<old[i], x>> \in B}
           k == IF before = {} THEN 0 ELSE Bd!Max(before)
           new == [i \in 1 .. n |-> IF i <= k THEN old[i] ELSE IF i = k + 1 THEN x ELSE old[i - 1]]
<1>1. /\ \A i \in 1 .. n - 1 : old[i] \in S /\ old[i] # x
      /\ \A t \in S \ {x} : \E i \in 1 .. n - 1 : old[i] = t
      /\ \A i, j \in 1 .. n - 1 : i < j => <<old[i], old[j]>> \in B
  BY DEF Sorted
<1>2. k \in 0 .. n - 1 /\ (k # 0 => <<old[k], x>> \in B) /\ \A i \in 1 .. n - 1 : i > k => <<old[i], x>> \notin B
  <2>1. CASE before = {}
    <3>1. k = 0
      BY <2>1
    <3>2. \A i \in 1 .. n - 1 : i \notin before
      BY <2>1
    <3>3. \A i \in 1 .. n - 1 : <<old[i], x>> \notin B
      BY <3>2
    <3>4. 0 \in 0 .. n - 1
      OBVIOUS
    <3> HIDE DEF k, before
    <3> QED BY <3>1, <3>3, <3>4
  <2>2. CASE before # {}
    <3>1. before \in SUBSET (0 .. n - 1) /\ n - 1 \in Nat
      OBVIOUS
    <3>2. Bd!Max(before) \in before /\ \A y \in before : y <= Bd!Max(before)
      BY <2>2, <3>1, EndsExist
    <3>3. k \in before /\ \A y \in before : y <= k
      BY <2>2, <3>2
    <3> HIDE DEF k
    <3>4. \A i \in 1 .. n - 1 : i > k => i \notin before
      BY <3>3
    <3> QED BY <3>3, <3>4
  <2> QED BY <2>1, <2>2
<1> HIDE DEF k
<1>3. \A i \in 1 .. n - 1 : i <= k => <<old[i], x>> \in B
  <2>1. SUFFICES ASSUME NEW i \in 1 .. n - 1, i <= k PROVE <<old[i], x>> \in B
    OBVIOUS
  <2>2. CASE i = k
    BY <1>2, <2>1, <2>2
  <2>3. CASE i # k
    <3>1. k \in 1 .. n - 1 /\ i < k /\ k # 0
      BY <1>2, <2>1, <2>3
    <3>2. <<old[i], old[k]>> \in B /\ <<old[k], x>> \in B
      BY <1>1, <1>2, <3>1
    <3> QED BY <1>1, <2>1, <3>1, <3>2 DEF StrictTotal
  <2> QED BY <2>2, <2>3
<1>4. \A i \in 1 .. n - 1 : i > k => <<x, old[i]>> \in B
  BY <1>1, <1>2 DEF StrictTotal
<1>5. /\ \A i \in 1 .. n : i <= k => i \in 1 .. n - 1 /\ new[i] = old[i]
      /\ k + 1 \in 1 .. n /\ new[k + 1] = x
      /\ \A i \in 1 .. n : i > k + 1 => i - 1 \in 1 .. n - 1 /\ i - 1 > k /\ new[i] = old[i - 1]
  BY <1>2
<1>6. new \in [1 .. n -> S]
  BY <1>1, <1>2
<1> HIDE DEF new
<1>7. \A t \in S : \E i \in 1 .. n : new[i] = t
  <2>1. SUFFICES ASSUME NEW t \in S, t # x PROVE \E i \in 1 .. n : new[i] = t
    BY <1>5
  <2>2. PICK i \in 1 .. n - 1 : old[i] = t
    BY <1>1, <2>1
  <2>3. CASE i <= k
    <3>1. i \in 1 .. n
      BY <2>2
    <3> QED BY <1>5, <2>2, <2>3, <3>1
  <2>4. CASE i > k
    <3>1. i + 1 \in 1 .. n /\ i + 1 > k + 1 /\ (i + 1) - 1 = i
      BY <1>2, <2>2, <2>4
    <3>2. new[i + 1] = t
      BY <1>5, <2>2, <3>1
    <3> QED BY <3>1, <3>2
  <2> QED BY <1>2, <2>3, <2>4
<1>8. ASSUME NEW i \in 1 .. n, NEW j \in 1 .. n, i < j PROVE <<new[i], new[j]>> \in B
  <2>1. CASE j <= k
    <3>1. i <= k
      BY <1>2, <1>8, <2>1
    <3> QED BY <1>1, <1>5, <1>8, <2>1, <3>1
  <2>2. CASE j = k + 1
    <3>1. i <= k
      BY <1>2, <1>8, <2>2
    <3> QED BY <1>3, <1>5, <2>2, <3>1
  <2>3. CASE j > k + 1
    <3>1. j - 1 \in 1 .. n - 1 /\ j - 1 > k /\ new[j] = old[j - 1]
      BY <1>5, <2>3
    <3>2. CASE i <= k
      <4>1. i < j - 1
        BY <1>2, <3>1, <3>2
      <4> QED BY <1>1, <1>5, <3>1, <3>2, <4>1
    <3>3. CASE i = k + 1
      BY <1>4, <1>5, <3>1, <3>3
    <3>4. CASE i > k + 1
      <4>1. i - 1 < j - 1
        BY <1>8
      <4> QED BY <1>1, <1>5, <3>1, <3>4, <4>1
    <3> QED BY <1>2, <3>2, <3>3, <3>4
  <2> QED BY <1>2, <2>1, <2>2, <2>3
<1>9. Sorted(B, S, n, new)
  BY <1>6, <1>7, <1>8 DEF Sorted
<1> QED BY <1>9

LEMMA SortExists ==
    ASSUME NEW B, NEW S, IsFiniteSet(S), StrictTotal(B, S)
    PROVE  \E s : Sorted(B, S, Cardinality(S), s)
<1> DEFINE N == Cardinality(S)
           H == {n \in 0 .. N : \A Q \in SUBSET S : Cardinality(Q) = n => \E s : Sorted(B, Q, n, s)}
<1>1. N \in Nat
  BY FS_CardinalityType
<1>2. \A Q \in SUBSET S : IsFiniteSet(Q)
  BY FS_Subset
<1> HIDE DEF N
<1>3. 0 \in H
  <2>1. SUFFICES ASSUME NEW Q \in SUBSET S, Cardinality(Q) = 0 PROVE \E s : Sorted(B, Q, 0, s)
    BY <1>1
  <2>2. Q = {}
    BY <1>2, <2>1, FS_EmptySet
  <2>3. Sorted(B, Q, 0, [i \in 1 .. 0 |-> i])
    BY <2>2 DEF Sorted
  <2> QED BY <2>3
<1>4. ASSUME NEW n \in 1 .. N, n - 1 \in H PROVE n \in H
  <2>1. SUFFICES ASSUME NEW Q \in SUBSET S, Cardinality(Q) = n PROVE \E s : Sorted(B, Q, n, s)
    BY <1>1
  <2>2. n \in Nat /\ n # 0
    BY <1>1
  <2>3. Q # {}
    BY <2>1, <2>2, FS_EmptySet
  <2>4. PICK x \in Q : TRUE
    BY <2>3
  <2>5. Cardinality(Q \ {x}) = n - 1
    BY <1>2, <2>1, <2>4, FS_RemoveElement
  <2>6. PICK old : Sorted(B, Q \ {x}, n - 1, old)
    <3>1. Q \ {x} \in SUBSET S
      OBVIOUS
    <3> QED BY <1>4, <2>5, <3>1
  <2>7. StrictTotal(B, Q)
    BY DEF StrictTotal
  <2> QED BY <2>2, <2>4, <2>6, <2>7, InsertKeepsOrder
<1>5. N \in H
  <2> HIDE DEF H
  <2>1. 0 .. N \subseteq H
    BY <1>1, <1>3, <1>4, UpTo
  <2> QED BY <1>1, <2>1
<1> QED BY <1>5 DEF N

LEMMA SortUnique ==
    ASSUME NEW B, NEW S, StrictTotal(B, S), NEW n \in Nat,
           NEW s, Sorted(B, S, n, s), NEW t, Sorted(B, S, n, t)
    PROVE  s = t
<1> DEFINE H == {m \in 0 .. n : \A i \in 1 .. m : s[i] = t[i]}
<1>1. /\ s \in [1 .. n -> S] /\ t \in [1 .. n -> S]
      /\ \A x \in S : \E i \in 1 .. n : s[i] = x
      /\ \A x \in S : \E i \in 1 .. n : t[i] = x
      /\ \A i, j \in 1 .. n : i < j => <<s[i], s[j]>> \in B
      /\ \A i, j \in 1 .. n : i < j => <<t[i], t[j]>> \in B
  BY DEF Sorted
<1>2. \A i, j \in 1 .. n : i < j => s[i] # s[j] /\ t[i] # t[j]
  BY <1>1 DEF StrictTotal
<1>3. 0 \in H
  OBVIOUS
<1>4. ASSUME NEW m \in 1 .. n, m - 1 \in H PROVE m \in H
  <2>1. m \in 0 .. n /\ \A i \in 1 .. m - 1 : s[i] = t[i]
    BY <1>4
  <2>2. PICK j \in 1 .. n : t[j] = s[m]
    BY <1>1
  <2>3. PICK k \in 1 .. n : s[k] = t[m]
    BY <1>1
  <2>4. j >= m
    <3>1. SUFFICES ASSUME j < m PROVE FALSE
      OBVIOUS
    <3>2. s[j] = t[j]
      BY <2>1, <3>1
    <3> QED BY <1>2, <2>2, <3>1, <3>2
  <2>5. k >= m
    <3>1. SUFFICES ASSUME k < m PROVE FALSE
      OBVIOUS
    <3>2. s[k] = t[k]
      BY <2>1, <3>1
    <3> QED BY <1>2, <2>3, <3>1, <3>2
  <2>6. s[m] = t[m]
    <3>1. SUFFICES ASSUME s[m] # t[m] PROVE FALSE
      OBVIOUS
    <3>2. m < j /\ m < k
      BY <2>2, <2>3, <2>4, <2>5, <3>1
    <3>3. <<t[m], s[m]>> \in B
      BY <1>1, <2>2, <3>2
    <3>4. <<s[m], t[m]>> \in B
      BY <1>1, <2>3, <3>2
    <3>5. s[m] \in S /\ t[m] \in S
      BY <1>1
    <3> QED BY <3>3, <3>4, <3>5 DEF StrictTotal
  <2>7. \A i \in 1 .. m : i \in 1 .. m - 1 \/ i = m
    OBVIOUS
  <2> QED BY <2>1, <2>6, <2>7
<1>5. n \in H
  <2> HIDE DEF H
  <2>1. 0 .. n \subseteq H
    BY <1>3, <1>4, UpTo
  <2> QED BY <2>1
<1> QED BY <1>1, <1>5

-----------------------------------------------------------------------------
(* Reading.  A table: its rows have a key and an id of their own, and hold *)
(* numbers.                                                                *)
LEMMA CellIs ==
    ASSUME NEW app, NEW table, ATable(app, table), NEW r \in table, NEW f \in DOMAIN r
    PROVE  r[f] \in [redacted : {FALSE}, is : Int] /\ r[f].is \in Int
<1>1. r \in [DOMAIN r -> [redacted : {FALSE}, is : Int]]
  BY DEF ATable
<1>2. r[f] \in [redacted : {FALSE}, is : Int]
  BY <1>1
<1> QED BY <1>2

Order(sort, table) == {p \in table \X table : Rg!Before(sort, p[1], p[2])}

LEMMA RowsAreOrdered ==
    ASSUME NEW app, NEW table, ATable(app, table), NEW found \in SUBSET table, NEW sort
    PROVE  StrictTotal(Order(sort, found), found)
<1> DEFINE B == Order(sort, found)
           Id(r) == r["id"].is
           At(r) == IF sort = Nothing THEN 0 ELSE Rg!Key(r, sort.field)
           Up == sort # Nothing /\ sort.direction = "asc"
           Less(r, s) == IF At(r) = At(s) THEN Id(r) < Id(s) ELSE Up <=> At(r) < At(s)
<1>1. \A r \in found : Id(r) \in Int
  BY DEF ATable
<1>2. \A r, s \in found : Id(r) = Id(s) => r = s
  BY DEF ATable
<1>3. \A r \in found : At(r) \in Int
  <2>1. \A r \in found : \A f \in DOMAIN r : r[f].is \in Int
    BY CellIs
  <2> QED BY <2>1 DEF Rg!Key
<1>4. ASSUME NEW r \in found, NEW s \in found PROVE <<r, s>> \in B <=> Less(r, s)
  <2>1. <<r, s>> \in B <=> Rg!Before(sort, r, s)
    BY DEF Order
  <2>2. CASE sort = Nothing
    BY <2>1, <2>2 DEF Rg!Before
  <2>3. CASE sort # Nothing
    <3> DEFINE a == Rg!Key(r, sort.field)
               b == Rg!Key(s, sort.field)
    <3>1. Rg!Before(sort, r, s) <=> IF a - b = 0 THEN Id(r) < Id(s) ELSE (sort.direction = "asc") <=> (a - b < 0)
      BY <2>3 DEF Rg!Before
    <3>2. a \in Int /\ b \in Int /\ At(r) = a /\ At(s) = b
      BY <1>3, <2>3
    <3> HIDE DEF a, b, Id, At
    <3>3. (a - b = 0 <=> a = b) /\ (a - b < 0 <=> a < b)
      BY <3>2
    <3> QED BY <2>1, <2>3, <3>1, <3>2, <3>3
  <2> QED BY <2>2, <2>3
<1> HIDE DEF B, Id, At, Up
<1>5. \A r, s \in found : r = s \/ Less(r, s) \/ Less(s, r)
  <2>1. SUFFICES ASSUME NEW r \in found, NEW s \in found, r # s PROVE Less(r, s) \/ Less(s, r)
    OBVIOUS
  <2>2. Id(r) \in Int /\ Id(s) \in Int /\ Id(r) # Id(s) /\ At(r) \in Int /\ At(s) \in Int
    BY <1>1, <1>2, <1>3, <2>1
  <2> QED BY <2>2
<1>6. \A r, s \in found : ~ (Less(r, s) /\ Less(s, r))
  <2>1. SUFFICES ASSUME NEW r \in found, NEW s \in found PROVE ~ (Less(r, s) /\ Less(s, r))
    OBVIOUS
  <2>2. Id(r) \in Int /\ Id(s) \in Int /\ At(r) \in Int /\ At(s) \in Int
    BY <1>1, <1>3
  <2> QED BY <2>2
<1>7. \A r, s, t \in found : Less(r, s) /\ Less(s, t) => Less(r, t)
  <2>1. SUFFICES ASSUME NEW r \in found, NEW s \in found, NEW t \in found, Less(r, s), Less(s, t)
                 PROVE  Less(r, t)
    OBVIOUS
  <2>2. /\ Id(r) \in Int /\ Id(s) \in Int /\ Id(t) \in Int
        /\ At(r) \in Int /\ At(s) \in Int /\ At(t) \in Int
    BY <1>1, <1>3
  <2> QED BY <2>1, <2>2
<1>8. StrictTotal(B, found)
  BY <1>4, <1>5, <1>6, <1>7 DEF StrictTotal
<1> QED BY <1>8 DEF B

(* QueryOptions: what the order by of a query returns is the found rows,   *)
(* each once, in its order.                                                *)
LEMMA OrderedIs ==
    ASSUME NEW app, NEW table, ATable(app, table), NEW found \in SUBSET table, NEW sort
    PROVE  /\ Cardinality(found) \in Nat
           /\ Sorted(Order(sort, found), found, Cardinality(found), Rg!Ordered(found, sort))
<1> DEFINE n == Cardinality(found)
           B == Order(sort, found)
           Right(s) == \A i, j \in DOMAIN s : i < j => Rg!Before(sort, s[i], s[j])
           out == Rg!Ordered(found, sort)
<1>1. IsFiniteSet(found)
  BY FS_Subset DEF ATable
<1>2. n \in Nat
  BY <1>1, FS_CardinalityType
<1>3. StrictTotal(B, found)
  BY RowsAreOrdered
<1>4. \A r, s \in found : <<r, s>> \in B <=> Rg!Before(sort, r, s)
  BY DEF Order
<1>5. out = CHOOSE s \in Bijection(1 .. n, found) : Right(s)
  BY DEF Rg!Ordered, Rg!Cardinality, Cardinality, Rg!Bijection, Bijection, Rg!Injection, Injection,
         Rg!Surjection, Surjection, Rg!IsInjective, IsInjective
<1> HIDE DEF n, B, out
<1>6. \E s \in Bijection(1 .. n, found) : Right(s)
  <2>1. PICK s : Sorted(B, found, n, s)
    BY <1>1, <1>3, SortExists DEF n
  <2>2. /\ s \in [1 .. n -> found] /\ \A t \in found : \E i \in 1 .. n : s[i] = t
        /\ \A i, j \in 1 .. n : i < j => <<s[i], s[j]>> \in B
    BY <2>1 DEF Sorted
  <2>3. \A i, j \in 1 .. n : i < j => s[i] # s[j]
    BY <1>3, <2>2 DEF StrictTotal
  <2>4. \A i, j \in 1 .. n : s[i] = s[j] => i = j
    <3>1. SUFFICES ASSUME NEW i \in 1 .. n, NEW j \in 1 .. n, i # j PROVE s[i] # s[j]
      OBVIOUS
    <3>2. i < j \/ j < i
      BY <3>1
    <3> QED BY <2>3, <3>2
  <2>5. s \in Bijection(1 .. n, found)
    BY <2>2, <2>4 DEF Bijection, Injection, Surjection, IsInjective
  <2>6. Right(s)
    BY <1>4, <2>2
  <2> QED BY <2>5, <2>6
<1>7. out \in Bijection(1 .. n, found) /\ Right(out)
  BY <1>5, <1>6
<1>8. /\ out \in [1 .. n -> found] /\ \A t \in found : \E i \in 1 .. n : out[i] = t
      /\ \A i, j \in 1 .. n : i < j => Rg!Before(sort, out[i], out[j])
  BY <1>7 DEF Bijection, Injection, Surjection
<1>9. Sorted(B, found, n, out)
  BY <1>4, <1>8 DEF Sorted
<1> QED BY <1>2, <1>9 DEF n, B, out

(* StorageProvider.query: as many of the rows found as the limit lets.     *)
Found(table, equations) == {r \in table : Rg!Satisfies(r, equations)}
Size(limit, found) == IF limit < Cardinality(found) THEN limit ELSE Cardinality(found)

LEMMA QueryIs ==
    ASSUME NEW table, NEW equations, NEW sort, NEW limit
    PROVE  Rg!query(table, equations, sort, limit) =
              [i \in 1 .. Size(limit, Found(table, equations)) |-> Rg!Ordered(Found(table, equations), sort)[i]]
BY DEF Rg!query, Size, Found, Rg!Cardinality, Cardinality

(* get_content_handler reads the one row that has the key.                 *)
LEMMA LookedIs ==
    ASSUME NEW app, NEW table, ATable(app, table), NEW mine \in SUBSET table, NEW r \in table
    PROVE  Rg!Looked(app, mine, r[app.lookup].is) = IF r \in mine THEN <<r>> ELSE <<>>
<1> DEFINE key == r[app.lookup].is
           found == Found(mine, {<<app.lookup, key>>})
<1>1. \A s \in mine : s[app.lookup].is = key => s = r
  BY DEF ATable
<1>2. \A s \in mine : Rg!Satisfies(s, {<<app.lookup, key>>}) <=> s[app.lookup].is = key
  <2>1. \A s \in mine : app.lookup \in DOMAIN s
    BY DEF ATable
  <2> QED BY <2>1 DEF Rg!Satisfies
<1>3. found = IF r \in mine THEN {r} ELSE {}
  BY <1>1, <1>2 DEF Found
<1>4. Rg!Looked(app, mine, key) = [i \in 1 .. Size(1, found) |-> Rg!Ordered(found, Nothing)[i]]
  BY QueryIs DEF Rg!Looked
<1> HIDE DEF found, key
<1>5. CASE r \in mine
  <2>1. found = {r} /\ Cardinality(found) = 1
    BY <1>3, <1>5, FS_Singleton
  <2>2. Sorted(Order(Nothing, found), found, 1, Rg!Ordered(found, Nothing))
    <3>1. found \in SUBSET table
      BY <2>1
    <3> QED BY <2>1, <3>1, OrderedIs
  <2>3. Rg!Ordered(found, Nothing)[1] = r
    BY <2>1, <2>2 DEF Sorted
  <2>4. Size(1, found) = 1 /\ 1 .. 1 = {1}
    BY <2>1 DEF Size
  <2> QED BY <1>4, <1>5, <2>3, <2>4 DEF key
<1>6. CASE r \notin mine
  <2>1. found = {} /\ Cardinality(found) = 0
    BY <1>3, <1>6, FS_EmptySet
  <2>2. Size(1, found) = 0 /\ 1 .. 0 = {}
    BY <2>1 DEF Size
  <2> QED BY <1>4, <1>6, <2>2 DEF key
<1> QED BY <1>5, <1>6

(* What a list finds among the rows of an owner.                           *)
LEMMA FoundAreMine ==
    ASSUME NEW app, NEW table, NEW caller, NEW q
    PROVE  /\ Found(table, Rg!Equations(app, caller, q)) \subseteq Rg!Mine(app, table, caller)
           /\ Found(Rg!Mine(app, table, caller), Rg!Equations(app, caller, q)) = Found(table, Rg!Equations(app, caller, q))
<1> DEFINE es == Rg!Equations(app, caller, q)
<1>1. ASSUME NEW r \in table, Rg!Satisfies(r, es) PROVE r \in Rg!Mine(app, table, caller)
  <2>1. CASE app.owner = Nothing \/ caller.id = Nothing
    BY <2>1 DEF Rg!Mine
  <2>2. CASE app.owner # Nothing /\ caller.id # Nothing
    <3>1. <<app.owner, caller.id>> \in es
      BY <2>2 DEF Rg!Equations, Rg!OwnerFilter
    <3>2. app.owner \in DOMAIN r /\ r[app.owner].is = caller.id
      BY <1>1, <3>1 DEF Rg!Satisfies
    <3> QED BY <2>2, <3>2 DEF Rg!Mine, Rg!Foreign
  <2> QED BY <2>1, <2>2
<1>2. Rg!Mine(app, table, caller) \subseteq table
  BY DEF Rg!Mine
<1> QED BY <1>1, <1>2 DEF Found

(* Ownership: what anyone is answered, by a list or a get, does not depend *)
(* on rows that are not the caller's.                                      *)
THEOREM AnswersFromOwnRows ==
    ASSUME NEW app, NEW table, ATable(app, table), NEW caller, NEW q
    PROVE  Rg!AnswersFromOwnRows(app, table, caller, q)
<1> DEFINE mine == Rg!Mine(app, table, caller)
<1>1. mine \in SUBSET table
  BY DEF Rg!Mine
<1>2. Rg!list_content_handler(app, table, caller, q) = Rg!list_content_handler(app, mine, caller, q)
  <2> DEFINE limit == IF q.limit = Nothing THEN 1000 ELSE q.limit
             es == Rg!Equations(app, caller, q)
  <2>1. Found(mine, es) = Found(table, es)
    BY FoundAreMine
  <2>2. Rg!query(mine, es, q.sort, limit) = Rg!query(table, es, q.sort, limit)
    <3> HIDE DEF limit, mine, es
    <3> QED BY <2>1, QueryIs
  <2>3. \A t : Rg!list_content_handler(app, t, caller, q) =
                 IF ~ (app.admits \subseteq caller.scopes) THEN Rg!Refused("forbidden")
                 ELSE IF Rg!Malformed(app, q) THEN Rg!Refused("bad request")
                 ELSE Rg!Shown(Rg!query(t, es, q.sort, limit), app, caller)
    BY DEF Rg!list_content_handler
  <2> HIDE DEF mine, es, limit
  <2> QED BY <2>2, <2>3
<1>3. ASSUME NEW r \in table
      PROVE  Rg!get_content_handler(app, table, caller, r[app.lookup].is)
               = Rg!get_content_handler(app, mine, caller, r[app.lookup].is)
  <2> DEFINE key == r[app.lookup].is
  <2>1. table \in SUBSET table
    OBVIOUS
  <2>2. Rg!Looked(app, table, key) = <<r>> /\ Rg!Looked(app, mine, key) = IF r \in mine THEN <<r>> ELSE <<>>
    BY <1>1, <2>1, LookedIs
  <2> HIDE DEF key, mine
  <2>3. CASE r \in mine
    <3>1. Rg!Looked(app, table, key) = Rg!Looked(app, mine, key)
      BY <2>2, <2>3
    <3> QED BY <3>1 DEF Rg!get_content_handler, key
  <2>4. CASE r \notin mine
    <3>1. Rg!Foreign(app, caller, r)
      BY <2>4 DEF mine, Rg!Mine
    <3>2. Rg!Looked(app, table, key)[1] = r
      BY <2>2
    <3>3. Rg!get_content_handler(app, table, caller, key) = Rg!Refused("not found")
      BY <3>1, <3>2 DEF Rg!get_content_handler
    <3>4. Rg!get_content_handler(app, mine, caller, key) = Rg!Refused("not found")
      BY <2>2, <2>4 DEF Rg!get_content_handler
    <3> QED BY <3>3, <3>4 DEF key
  <2> QED BY <2>3, <2>4
<1> QED BY <1>2, <1>3 DEF Rg!AnswersFromOwnRows

(* For content with no more rows than a page: a list shows exactly the     *)
(* records that gets show, and as they show them.                          *)
THEOREM ListShowsWhatGetShows ==
    ASSUME NEW app, NEW table, ATable(app, table), Cardinality(table) <= 1000, NEW caller
    PROVE  Rg!ListShowsWhatGetShows(app, table, caller)
<1> DEFINE list == Rg!list_content_handler(app, table, caller, Rg!Everything)
           Get(r) == Rg!get_content_handler(app, table, caller, r[app.lookup].is)
           As(r) == Rg!redact_record(r, app.content, caller.scopes)
           found == Found(table, Rg!Equations(app, caller, Rg!Everything))
           o == Rg!Ordered(found, Nothing)
           n == Cardinality(found)
<1>1. SUFFICES ASSUME app.admits \subseteq caller.scopes, app.owner # Nothing => caller.id # Nothing
               PROVE  {list.body[i] : i \in DOMAIN list.body} = {Get(r).body[1] : r \in {s \in table : Get(s).status = "ok"}}
  BY DEF Rg!ListShowsWhatGetShows
<1>2. Rg!Everything.filters = <<>> /\ Rg!Everything.sort = Nothing /\ Rg!Everything.limit = Nothing /\ ~ Rg!Everything.offset
  BY DEF Rg!Everything
<1>3. found = {r \in table : ~ Rg!Foreign(app, caller, r)}
  <2>1. Rg!Equations(app, caller, Rg!Everything) = Rg!OwnerFilter(app, caller, Rg!Everything)
    BY <1>2 DEF Rg!Equations
  <2>2. ASSUME NEW r \in table
        PROVE  Rg!Satisfies(r, Rg!OwnerFilter(app, caller, Rg!Everything)) <=> ~ Rg!Foreign(app, caller, r)
    <3>1. CASE app.owner = Nothing
      BY <3>1 DEF Rg!Satisfies, Rg!OwnerFilter, Rg!Foreign
    <3>2. CASE app.owner # Nothing
      <4>1. Rg!OwnerFilter(app, caller, Rg!Everything) = {<<app.owner, caller.id>>}
        BY <1>1, <3>2 DEF Rg!OwnerFilter
      <4>2. <<app.owner, caller.id>>[1] = app.owner /\ <<app.owner, caller.id>>[2] = caller.id
        OBVIOUS
      <4> QED BY <3>2, <4>1, <4>2 DEF Rg!Satisfies, Rg!Foreign
    <3> QED BY <3>1, <3>2
  <2> QED BY <2>1, <2>2 DEF Found
<1>4. n \in Nat /\ Sorted(Order(Nothing, found), found, n, o)
  <2>1. found \in SUBSET table
    BY DEF Found
  <2> QED BY <2>1, OrderedIs
<1>5. n <= 1000
  <2>1. found \in SUBSET table /\ IsFiniteSet(table)
    BY DEF Found, ATable
  <2>2. n <= Cardinality(table) /\ Cardinality(table) \in Nat
    BY <2>1, FS_Subset, FS_CardinalityType
  <2> HIDE DEF n
  <2> QED BY <1>4, <2>2
<1>6. list = Rg!Shown(Rg!query(table, Rg!Equations(app, caller, Rg!Everything), Nothing, 1000), app, caller)
  <2>1. ~ Rg!Malformed(app, Rg!Everything)
    <3>1. DOMAIN Rg!Everything.filters = {}
      BY <1>2
    <3> QED BY <1>2, <3>1 DEF Rg!Malformed
  <2>2. list = Rg!Shown(Rg!query(table, Rg!Equations(app, caller, Rg!Everything), Rg!Everything.sort,
                               IF Rg!Everything.limit = Nothing THEN 1000 ELSE Rg!Everything.limit), app, caller)
    BY <1>1, <2>1 DEF Rg!list_content_handler
  <2> QED BY <1>2, <2>2
<1>7. Size(1000, found) = n
  BY <1>4, <1>5 DEF Size
<1>8. Rg!query(table, Rg!Equations(app, caller, Rg!Everything), Nothing, 1000) = [i \in 1 .. n |-> o[i]]
  BY <1>7, QueryIs
<1> HIDE DEF found, o, n, list
<1>9. list.body = [i \in 1 .. n |-> As(o[i])]
  <2> DEFINE page == [i \in 1 .. n |-> o[i]]
  <2>1. list = Rg!Shown(page, app, caller)
    BY <1>6, <1>8
  <2>2. list.body = [i \in DOMAIN page |-> As(page[i])]
    BY <2>1 DEF Rg!Shown, Rg!redact_records
  <2> QED BY <2>2
<1>10. {list.body[i] : i \in DOMAIN list.body} = {As(r) : r \in found}
  BY <1>4, <1>9 DEF Sorted
<1>11. ASSUME NEW r \in table
       PROVE  /\ Get(r).status = "ok" <=> r \in found
              /\ r \in found => Get(r).body[1] = As(r)
  <2>1. Rg!Looked(app, table, r[app.lookup].is) = <<r>>
    <3>1. table \in SUBSET table
      OBVIOUS
    <3> QED BY <3>1, LookedIs
  <2>2. Get(r) = IF Rg!Foreign(app, caller, r) THEN Rg!Refused("not found") ELSE Rg!Shown(<<r>>, app, caller)
    BY <2>1 DEF Rg!get_content_handler
  <2>3. CASE Rg!Foreign(app, caller, r)
    <3> DEFINE refused == Rg!Refused("not found")
    <3>1. refused.status = "not found"
      BY DEF Rg!Refused
    <3> HIDE DEF refused, Get
    <3>2. Get(r).status = "not found"
      BY <2>2, <2>3, <3>1 DEF refused
    <3>3. r \notin found
      BY <1>3, <2>3
    <3> QED BY <3>2, <3>3
  <2>4. CASE ~ Rg!Foreign(app, caller, r)
    <3>1. Get(r).status = "ok" /\ Get(r).body = Rg!redact_records(<<r>>, app.content, caller.scopes)
      BY <2>2, <2>4 DEF Rg!Shown
    <3>2. Rg!redact_records(<<r>>, app.content, caller.scopes)[1] = As(r)
      BY DEF Rg!redact_records
    <3> QED BY <1>3, <2>4, <3>1, <3>2
  <2> QED BY <2>3, <2>4
<1>12. found = {s \in table : Get(s).status = "ok"}
  BY <1>3, <1>11
<1> HIDE DEF As, Get
<1> QED BY <1>3, <1>10, <1>11, <1>12

(* A field the caller may not see does not show: rows that differ in it    *)
(* alone are listed alike, in the same order, unless the query sorts or    *)
(* filters by it.                                                          *)
THEOREM AnswersFromVisibleFields ==
    ASSUME NEW app, NEW table, ATable(app, table), "id" \notin DOMAIN app.content.fields, NEW caller, NEW q
    PROVE  Rg!AnswersFromVisibleFields(app, table, caller, q)
<1>1. SUFFICES ASSUME NEW f \in Rg!Hidden(app, caller), f # app.lookup, f # app.owner, f \notin DOMAIN q.filters,
                      q.sort = Nothing \/ f # q.sort.field
               PROVE  Rg!list_content_handler(app, table, caller, q)
                        = Rg!list_content_handler(app, {IF f \in DOMAIN r THEN Rg!Blank(r, f) ELSE r : r \in table}, caller, q)
  BY DEF Rg!AnswersFromVisibleFields
<1> DEFINE Other(r) == IF f \in DOMAIN r THEN Rg!Blank(r, f) ELSE r
           others == {Other(r) : r \in table}
           es == Rg!Equations(app, caller, q)
           found == Found(table, es)
           there == Found(others, es)
           n == Cardinality(found)
           o == Rg!Ordered(found, q.sort)
           As(r) == Rg!redact_record(r, app.content, caller.scopes)
<1>2. f # "id" /\ f \in DOMAIN app.content.fields /\ Rg!Lacks(f, app.content, caller.scopes)
  BY <1>1 DEF Rg!Hidden
<1>3. ASSUME NEW r \in table
      PROVE  /\ DOMAIN Other(r) = DOMAIN r /\ Other(r) = [k \in DOMAIN r |-> Other(r)[k]]
             /\ \A k \in DOMAIN r : k # f => Other(r)[k] = r[k]
             /\ f \in DOMAIN r => Other(r)[f] = [redacted |-> FALSE, is |-> 0]
  <2>1. r \in [DOMAIN r -> [redacted : {FALSE}, is : Int]]
    BY DEF ATable
  <2>2. CASE f \in DOMAIN r
    <3>1. [r[f] EXCEPT !.is = 0] = [redacted |-> FALSE, is |-> 0]
      <4> DEFINE v == r[f]
      <4>1. v \in [redacted : {FALSE}, is : Int]
        BY <2>2, CellIs
      <4> HIDE DEF v
      <4>2. [v EXCEPT !.is = 0] = [redacted |-> FALSE, is |-> 0]
        <5>1. v \in [redacted : BOOLEAN, is : Int] /\ v.redacted = FALSE
          BY <4>1
        <5>2. [v EXCEPT !.is = 0] = [redacted |-> v.redacted, is |-> 0]
          BY <5>1
        <5> QED BY <5>1, <5>2
      <4> QED BY <4>2 DEF v
    <3>2. Other(r) = [r EXCEPT ![f] = [r[f] EXCEPT !.is = 0]]
      BY <2>2 DEF Rg!Blank
    <3> QED BY <2>2, <3>1, <3>2
  <2>3. CASE f \notin DOMAIN r
    BY <2>1, <2>3
  <2> QED BY <2>2, <2>3
<1>4. \A r \in table : {"id", app.lookup} \subseteq DOMAIN r
  BY DEF ATable
<1> HIDE DEF Other
<1>5. \A r \in table : Other(r)["id"] = r["id"] /\ Other(r)[app.lookup] = r[app.lookup]
  BY <1>1, <1>2, <1>3, <1>4
<1>6. \A r, s \in table : r["id"].is = s["id"].is \/ r[app.lookup].is = s[app.lookup].is => r = s
  BY DEF ATable
<1>7. \A r, s \in table : Other(r) = Other(s) => r = s
  BY <1>5, <1>6
<1>8. ATable(app, others)
  <2>1. IsFiniteSet(others)
    <3> DEFINE g == [r \in table |-> Other(r)]
    <3>1. g \in Surjection(table, others)
      BY DEF Surjection
    <3>2. IsFiniteSet(table)
      BY DEF ATable
    <3> HIDE DEF g, others
    <3> QED BY <3>1, <3>2, FS_Surjection
  <2>2. ASSUME NEW r \in others
        PROVE  r \in [DOMAIN r -> [redacted : {FALSE}, is : Int]] /\ {"id", app.lookup} \subseteq DOMAIN r
    <3>1. PICK s \in table : r = Other(s)
      BY <2>2
    <3>2. r = [k \in DOMAIN r |-> r[k]] /\ {"id", app.lookup} \subseteq DOMAIN r
      BY <1>3, <1>4, <3>1
    <3>3. ASSUME NEW k \in DOMAIN r PROVE r[k] \in [redacted : {FALSE}, is : Int]
      <4>1. k \in DOMAIN s
        BY <1>3, <3>1
      <4>2. CASE k = f
        <5>1. r[k] = [redacted |-> FALSE, is |-> 0]
          BY <1>3, <3>1, <4>1, <4>2
        <5> QED BY <5>1
      <4>3. CASE k # f
        <5>1. r[k] = s[k]
          BY <1>3, <3>1, <4>1, <4>3
        <5> QED BY <4>1, <5>1 DEF ATable
      <4> QED BY <4>2, <4>3
    <3> QED BY <3>2, <3>3
  <2>3. \A r, s \in others : r["id"].is = s["id"].is \/ r[app.lookup].is = s[app.lookup].is => r = s
    BY <1>5, <1>6
  <2> QED BY <2>1, <2>2, <2>3 DEF ATable
<1>9. ASSUME NEW r \in table PROVE Rg!Satisfies(Other(r), es) <=> Rg!Satisfies(r, es)
  <2>1. \A e \in es : e[1] # f
    BY <1>1 DEF Rg!Equations, Rg!OwnerFilter
  <2>2. \A e \in es : (e[1] \in DOMAIN Other(r) /\ Other(r)[e[1]].is = e[2])
                         <=> (e[1] \in DOMAIN r /\ r[e[1]].is = e[2])
    BY <1>3, <2>1
  <2> QED BY <2>2 DEF Rg!Satisfies
<1>10. there = {Other(r) : r \in found}
  BY <1>9 DEF Found
<1>11. found \in SUBSET table /\ there \in SUBSET others
  BY DEF Found
<1>12. n \in Nat /\ Sorted(Order(q.sort, found), found, n, o)
  BY <1>11, OrderedIs
<1>13. Cardinality(there) = n
  <2> DEFINE g == [r \in found |-> Other(r)]
  <2>1. g \in Bijection(found, there)
    <3> HIDE DEF found, there
    <3> QED BY <1>7, <1>10, <1>11 DEF Bijection, Injection, Surjection, IsInjective
  <2>2. IsFiniteSet(found)
    BY <1>11, FS_Subset DEF ATable
  <2> HIDE DEF g, found, there
  <2> QED BY <2>1, <2>2, FS_Bijection DEF ExistsBijection, n
<1>14. \A r, s \in table : Rg!Before(q.sort, Other(r), Other(s)) <=> Rg!Before(q.sort, r, s)
  <2>1. \A r \in table : q.sort # Nothing => Rg!Key(Other(r), q.sort.field) = Rg!Key(r, q.sort.field)
    BY <1>1, <1>3 DEF Rg!Key
  <2>2. SUFFICES ASSUME NEW r \in table, NEW s \in table
                 PROVE  Rg!Before(q.sort, Other(r), Other(s)) <=> Rg!Before(q.sort, r, s)
    OBVIOUS
  <2>3. Other(r)["id"] = r["id"] /\ Other(s)["id"] = s["id"]
    BY <1>5
  <2>4. CASE q.sort = Nothing
    BY <2>3, <2>4 DEF Rg!Before
  <2>5. CASE q.sort # Nothing
    <3>1. Rg!Key(Other(r), q.sort.field) = Rg!Key(r, q.sort.field) /\ Rg!Key(Other(s), q.sort.field) = Rg!Key(s, q.sort.field)
      BY <2>1, <2>5
    <3> QED BY <2>3, <2>5, <3>1 DEF Rg!Before
  <2> QED BY <2>4, <2>5
<1>15. Rg!Ordered(there, q.sort) = [i \in 1 .. n |-> Other(o[i])]
  <2> DEFINE B == Order(q.sort, there)
             t == [i \in 1 .. n |-> Other(o[i])]
  <2>1. Sorted(B, there, n, Rg!Ordered(there, q.sort))
    BY <1>8, <1>11, <1>13, OrderedIs
  <2>2. StrictTotal(B, there)
    BY <1>8, <1>11, RowsAreOrdered
  <2>3. /\ o \in [1 .. n -> found] /\ \A r \in found : \E i \in 1 .. n : o[i] = r
        /\ \A i, j \in 1 .. n : i < j => <<o[i], o[j]>> \in Order(q.sort, found)
    BY <1>12 DEF Sorted
  <2> HIDE DEF found, there, o, n, B
  <2>4. t \in [1 .. n -> there] /\ \A r \in there : \E i \in 1 .. n : t[i] = r
    BY <1>10, <2>3
  <2>5. ASSUME NEW i \in 1 .. n, NEW j \in 1 .. n, i < j PROVE <<t[i], t[j]>> \in B
    <3>1. o[i] \in table /\ o[j] \in table /\ t[i] = Other(o[i]) /\ t[j] = Other(o[j])
      BY <1>11, <2>3
    <3>2. Rg!Before(q.sort, o[i], o[j])
      BY <2>3, <2>5 DEF Order
    <3>3. t[i] \in there /\ t[j] \in there
      BY <2>4
    <3>4. Rg!Before(q.sort, t[i], t[j])
      BY <1>14, <3>1, <3>2
    <3> QED BY <3>3, <3>4 DEF B, Order
  <2> HIDE DEF t
  <2>6. Sorted(B, there, n, t)
    BY <2>4, <2>5 DEF Sorted
  <2>7. Rg!Ordered(there, q.sort) = t
    BY <1>12, <2>1, <2>2, <2>6, SortUnique
  <2> QED BY <2>7 DEF t
<1>16. ASSUME NEW r \in table PROVE As(Other(r)) = As(r)
  <2>1. DOMAIN Other(r) = DOMAIN r
    BY <1>3
  <2>2. Rg!Absent(Other(r), app.content, caller.scopes) = Rg!Absent(r, app.content, caller.scopes)
    BY <2>1 DEF Rg!Absent
  <2>3. \A k \in DOMAIN r : ~ Rg!Lacks(k, app.content, caller.scopes) => Other(r)[k] = r[k]
    BY <1>2, <1>3
  <2>4. Rg!RedactedInPlace(Other(r), app.content, caller.scopes) = Rg!RedactedInPlace(r, app.content, caller.scopes)
    BY <2>1, <2>3 DEF Rg!RedactedInPlace
  <2> QED BY <2>1, <2>2, <2>4 DEF Rg!redact_record
<1> DEFINE limit == IF q.limit = Nothing THEN 1000 ELSE q.limit
<1>17. CASE Rg!Malformed(app, q)
  BY <1>17 DEF Rg!list_content_handler
<1>18. CASE ~ Rg!Malformed(app, q)
  <2>1. limit \in Nat
    BY <1>18 DEF Rg!Malformed
  <2>2. Size(limit, there) = Size(limit, found) /\ \A i \in 1 .. Size(limit, found) : i \in 1 .. n
    BY <1>12, <1>13, <2>1 DEF Size
  <2> DEFINE m == Size(limit, found)
             page == [i \in 1 .. m |-> o[i]]
             other == [i \in 1 .. m |-> Rg!Ordered(there, q.sort)[i]]
  <2>3. Rg!query(table, es, q.sort, limit) = page /\ Rg!query(others, es, q.sort, limit) = other
    <3>1. Rg!query(table, es, q.sort, limit) = page
      BY QueryIs
    <3>2. Rg!query(others, es, q.sort, limit) = [i \in 1 .. Size(limit, there) |-> Rg!Ordered(there, q.sort)[i]]
      <4> HIDE DEF others, es, limit
      <4> QED BY QueryIs DEF there
    <3> HIDE DEF page, others, es, limit, there, found
    <3> QED BY <2>2, <3>1, <3>2
  <2>4. \A i \in 1 .. n : o[i] \in table
    <3> HIDE DEF n, o, found
    <3> QED BY <1>11, <1>12 DEF Sorted
  <2> HIDE DEF n, o, found, there, m, limit, es, others, As
  <2>5. \A i \in 1 .. m : As(other[i]) = As(page[i])
    BY <1>15, <1>16, <2>2, <2>4 DEF m
  <2>6. [i \in DOMAIN other |-> As(other[i])] = [i \in DOMAIN page |-> As(page[i])]
    BY <2>5
  <2>7. Rg!Shown(other, app, caller) = Rg!Shown(page, app, caller)
    BY <2>6 DEF Rg!Shown, Rg!redact_records, As
  <2>8. \A t : Rg!list_content_handler(app, t, caller, q) =
                 IF ~ (app.admits \subseteq caller.scopes) THEN Rg!Refused("forbidden")
                 ELSE IF Rg!Malformed(app, q) THEN Rg!Refused("bad request")
                 ELSE Rg!Shown(Rg!query(t, es, q.sort, limit), app, caller)
    BY DEF Rg!list_content_handler, es, limit
  <2> HIDE DEF page, other
  <2>9. Rg!list_content_handler(app, table, caller, q) = Rg!list_content_handler(app, others, caller, q)
    BY <2>3, <2>7, <2>8
  <2> QED BY <2>9 DEF others, Other
<1> QED BY <1>17, <1>18

-----------------------------------------------------------------------------
(* Conditions.  The functions of Predicate pass over a list of nodes and   *)
(* append what comes of each; T are the things that may come of one, and   *)
(* node says what does, after whatever came of those before.               *)
Nodewise(N, T) == [(1 .. N) \X Seq(T) -> T]

SoFar(list, n, done) == Len(done) = n - 1 /\ \A k \in 1 .. n - 1 : done[k] = list[k]

(* A pass, as far as its results are of the right length and type.         *)
Passes(g, N, T, node) ==
    /\ g[0] = <<>>
    /\ \A n \in 1 .. N : g[n - 1] \in Seq(T) /\ Len(g[n - 1]) = n - 1 =>
                             g[n] = Append(g[n - 1], node[<<n, g[n - 1]>>])

(* One that was made.                                                      *)
Passed(f, N, T, node) ==
    /\ f \in [0 .. N -> Seq(T)]
    /\ f[0] = <<>>
    /\ \A n \in 0 .. N : Len(f[n]) = n
    /\ \A n \in 1 .. N : f[n] = Append(f[n - 1], node[<<n, f[n - 1]>>])

(* What it leaves.                                                         *)
Listed(list, N, T, node) ==
    /\ list \in Seq(T) /\ Len(list) = N
    /\ \A n \in 1 .. N : \E done \in Seq(T) : SoFar(list, n, done) /\ list[n] = node[<<n, done>>]

LEMMA PassExists ==
    ASSUME NEW N \in Nat, NEW T, NEW node \in Nodewise(N, T)
    PROVE  \E f : Passed(f, N, T, node)
<1> DEFINE A == Seq(T)
           step == [p \in (1 .. N) \X A |-> Append(p[2], node[p])]
           base == <<>>
<1>1. ASSUME NEW p \in (1 .. N) \X A PROVE Append(p[2], node[p]) \in A
  <2>1. node[p] \in T /\ p[2] \in Seq(T)
    BY DEF Nodewise
  <2> QED BY <2>1
<1>2. base \in A
  OBVIOUS
<1>3. step \in Steps(N, A)
  <2> HIDE DEF A
  <2> QED BY <1>1 DEF Steps
<1>4. \A n \in 1 .. N, a \in A : step[<<n, a>>] = Append(a, node[<<n, a>>])
  <2> HIDE DEF A
  <2> QED OBVIOUS
<1> HIDE DEF A, step, base
<1>5. \E f : Recurs(f, N, A, base, step)
  BY <1>2, <1>3, Recursion
<1>6. PICK f : f \in [0 .. N -> A] /\ f[0] = base /\ \A n \in 1 .. N : f[n] = step[<<n, f[n - 1]>>]
  BY <1>5 DEF Recurs
<1>7. ASSUME NEW n \in 1 .. N PROVE f[n] = Append(f[n - 1], node[<<n, f[n - 1]>>])
  <2>1. n - 1 \in 0 .. N
    OBVIOUS
  <2> QED BY <1>4, <1>6, <2>1
<1>8. \A n \in 0 .. N : Len(f[n]) = n
  <2> DEFINE H == {n \in 0 .. N : Len(f[n]) = n}
  <2>1. 0 \in H
    BY <1>6 DEF base
  <2>2. ASSUME NEW n \in 1 .. N, n - 1 \in H PROVE n \in H
    <3>1. n - 1 \in 0 .. N /\ n \in 0 .. N /\ Len(f[n - 1]) = n - 1
      BY <2>2
    <3>2. f[n - 1] \in Seq(T) /\ f[n] = Append(f[n - 1], node[<<n, f[n - 1]>>])
      BY <1>6, <1>7, <3>1 DEF A
    <3>3. Len(f[n]) = n
      BY <3>1, <3>2
    <3> QED BY <3>1, <3>3
  <2> HIDE DEF H
  <2>3. 0 .. N \subseteq H
    BY <2>1, <2>2, UpTo
  <2> QED BY <2>3 DEF H
<1> QED BY <1>6, <1>7, <1>8 DEF A, base, Passed

LEMMA PassIsList ==
    ASSUME NEW N \in Nat, NEW T, NEW node \in Nodewise(N, T), NEW g, Passes(g, N, T, node)
    PROVE  Listed(g[N], N, T, node)
<1> USE DEF Passes
<1> DEFINE AsLong(n) == g[n] \in Seq(T) /\ Len(g[n]) = n
           Stand(n) == \A m \in 1 .. n : \E done \in Seq(T) :
                           SoFar(g[n], m, done) /\ g[n][m] = node[<<m, done>>]
           H == {n \in 0 .. N : AsLong(n) /\ Stand(n)}
<1>1. 0 \in H
  <2>1. AsLong(0)
    OBVIOUS
  <2>2. Stand(0)
    OBVIOUS
  <2>3. 0 \in 0 .. N
    OBVIOUS
  <2> HIDE DEF AsLong, Stand
  <2> QED BY <2>1, <2>2, <2>3
<1>2. ASSUME NEW n \in 1 .. N, n - 1 \in H PROVE n \in H
  <2> DEFINE old == g[n - 1]
             x == node[<<n, old>>]
  <2>1. old \in Seq(T) /\ Len(old) = n - 1 /\ Stand(n - 1)
    BY <1>2
  <2>2. g[n] = Append(old, x)
    BY <2>1
  <2>3. x \in T
    <3> HIDE DEF old
    <3> QED BY <2>1 DEF Nodewise
  <2> HIDE DEF x
  <2>4. g[n] \in Seq(T) /\ Len(g[n]) = n /\ g[n][n] = x /\ \A k \in 1 .. n - 1 : g[n][k] = old[k]
    <3> HIDE DEF old
    <3> QED BY <2>1, <2>2, <2>3
  <2>5. ASSUME NEW m \in 1 .. n
        PROVE  \E done \in Seq(T) : SoFar(g[n], m, done) /\ g[n][m] = node[<<m, done>>]
    <3>1. CASE m = n
      BY <2>1, <2>4, <3>1 DEF x, SoFar
    <3>2. CASE m # n
      <4>1. m \in 1 .. n - 1
        BY <3>2
      <4>2. PICK done \in Seq(T) : SoFar(old, m, done) /\ old[m] = node[<<m, done>>]
        BY <2>1, <4>1
      <4>3. SoFar(g[n], m, done) /\ g[n][m] = node[<<m, done>>]
        <5>1. m - 1 \in 0 .. n - 2 /\ \A k \in 1 .. m - 1 : k \in 1 .. n - 1
          BY <4>1
        <5> HIDE DEF old
        <5> QED BY <2>4, <4>1, <4>2, <5>1 DEF SoFar
      <4> QED BY <4>3
    <3> QED BY <3>1, <3>2
  <2>6. n \in 0 .. N
    OBVIOUS
  <2> HIDE DEF old
  <2> QED BY <2>4, <2>5, <2>6
<1>3. N \in H
  <2> HIDE DEF H
  <2>1. 0 .. N \subseteq H
    BY <1>1, <1>2, UpTo
  <2> QED BY <2>1
<1> QED BY <1>3 DEF Listed

(* An operand stands that far back, wherever it is looked for.             *)
LEMMA KidIs ==
    ASSUME NEW T, NEW list, NEW n \in Nat, NEW done \in Seq(T), SoFar(list, n, done), NEW back \in 1 .. n - 1
    PROVE  Pr!Kid(done, back) = list[n - back] /\ n - back \in 1 .. n - 1 /\ Pr!Kid(done, back) \in T
<1>1. Len(done) + 1 - back = n - back /\ n - back \in 1 .. n - 1 /\ n - back \in 1 .. Len(done)
  BY DEF SoFar
<1>2. done[n - back] = list[n - back] /\ done[n - back] \in T
  BY <1>1 DEF SoFar
<1> QED BY <1>1, <1>2 DEF Pr!Kid

LEMMA ConditionIs ==
    ASSUME NEW e, ACondition(e)
    PROVE  Len(e) \in Nat \ {0} /\ DOMAIN e = 1 .. Len(e) /\ \A n \in 1 .. Len(e) : ANode(e[n], n)
<1>1. Len(e) \in Nat /\ e = [i \in 1 .. Len(e) |-> e[i]] /\ e # <<>>
  BY DEF ACondition, AList
<1>2. Len(e) # 0
  BY <1>1
<1>3. DOMAIN e = 1 .. Len(e)
  BY <1>1
<1> QED BY <1>1, <1>2, <1>3 DEF ACondition

(* The compiler.  A predicate that combines others names them by the       *)
(* places of their nodes.                                                  *)
Combines(p, n) ==
    \E op \in {"and", "or", "not"}, of \in Seq(1 .. n - 1) :
        p = [op |-> op, of |-> of] /\ (op = "not" => of # <<>>)
Compares(p, fields) ==
    \E op \in {"eq", "ne", "gt", "ge", "lt", "le", "in", "contains"}, f \in fields : \E v :
        p = [op |-> op, field |-> f, value |-> v]

LEMMA ComparisonIs ==
    ASSUME NEW op \in {"eq", "ne", "gt", "ge", "lt", "le", "in", "contains"}, NEW o, NEW v, NEW fields
    PROVE  \/ Pr!Comparison(op, Pr!FieldOf(o, fields), v) = NotCompilable
           \/ Compares(Pr!Comparison(op, Pr!FieldOf(o, fields), v), fields)
BY DEF Pr!Comparison, Pr!FieldOf, Pr!PredicateOf, Compares

LEMMA WalkNodeIs ==
    ASSUME NEW T, NEW fields, NEW n \in Nat, NEW node, ANode(node, n), NEW done \in Seq(T), Len(done) = n - 1
    PROVE  \/ Pr!WalkNode(node, done, fields) = NotCompilable
           \/ Combines(Pr!WalkNode(node, done, fields), n)
           \/ \E k \in 1 .. n - 1 : Pr!WalkNode(node, done, fields) = done[k]
           \/ node.node \in {"rel", "call"} /\ Compares(Pr!WalkNode(node, done, fields), fields)
<1> DEFINE p == Pr!WalkNode(node, done, fields)
<1>1. SoFar(done, n, done)
  BY DEF SoFar
<1>2. CASE node.node \in {"and", "or"}
  <2>1. p = Pr!Combined(node.node, done, node.of)
    BY <1>2 DEF Pr!WalkNode
  <2>2. Combines([op |-> node.node, of |-> [k \in DOMAIN node.of |-> Len(done) + 1 - node.of[k]]], n)
    <3> DEFINE of == [k \in DOMAIN node.of |-> Len(done) + 1 - node.of[k]]
    <3>1. Len(node.of) \in Nat /\ DOMAIN node.of = 1 .. Len(node.of) /\ \A k \in DOMAIN node.of : node.of[k] \in 1 .. n - 1
      BY <1>2 DEF ANode, AList
    <3>2. \A k \in 1 .. Len(node.of) : Len(done) + 1 - node.of[k] \in 1 .. n - 1
      BY <3>1
    <3>3. of \in Seq(1 .. n - 1)
      BY <3>1, <3>2
    <3> HIDE DEF of
    <3>4. Combines([op |-> node.node, of |-> of], n)
      BY <1>2, <3>3 DEF Combines
    <3> QED BY <3>4 DEF of
  <2> QED BY <2>1, <2>2 DEF Pr!Combined
<1>3. CASE node.node = "not"
  <2>1. p = Pr!Combined("not", done, <<node.of>>)
    BY <1>3 DEF Pr!WalkNode
  <2>2. Combines([op |-> "not", of |-> [k \in DOMAIN <<node.of>> |-> Len(done) + 1 - <<node.of>>[k]]], n)
    <3> DEFINE of == [k \in DOMAIN <<node.of>> |-> Len(done) + 1 - <<node.of>>[k]]
    <3>1. node.of \in 1 .. n - 1
      BY <1>3 DEF ANode
    <3>2. DOMAIN <<node.of>> = 1 .. 1 /\ \A k \in 1 .. 1 : Len(done) + 1 - <<node.of>>[k] \in 1 .. n - 1
      BY <3>1
    <3>3. of \in Seq(1 .. n - 1)
      BY <3>2
    <3>4. of # <<>>
      BY <3>2
    <3> HIDE DEF of
    <3>5. Combines([op |-> "not", of |-> of], n)
      BY <3>3, <3>4 DEF Combines
    <3> QED BY <3>5 DEF of
  <2> QED BY <2>1, <2>2 DEF Pr!Combined
<1>4. CASE node.node = "paren"
  BY <1>1, <1>4, KidIs DEF Pr!WalkNode, ANode
<1>5. CASE node.node = "cond"
  BY <1>1, <1>5, KidIs DEF Pr!WalkNode, ANode
<1>6. CASE node.node = "rel"
  <2>1. p = Pr!Comparison(node.op, Pr!FieldOf(node.left, fields), Pr!Operand(node.op, node.right))
    BY <1>6 DEF Pr!WalkNode
  <2>2. node.op \in {"eq", "ne", "gt", "ge", "lt", "le", "in", "contains"}
    BY <1>6 DEF ANode
  <2>3. p = NotCompilable \/ Compares(p, fields)
    <3> HIDE DEF p
    <3> QED BY <2>1, <2>2, ComparisonIs
  <2> QED BY <1>6, <2>3
<1>7. CASE node.node = "call"
  <2>1. p = Pr!MethodCall(node, fields)
    BY <1>7 DEF Pr!WalkNode
  <2>2. p = NotCompilable \/ p = Pr!Comparison("contains", Pr!FieldOf(node.target, fields), Pr!LiteralOf(node.args[1]))
    BY <2>1 DEF Pr!MethodCall
  <2>3. p = NotCompilable \/ Compares(p, fields)
    <3> HIDE DEF p
    <3> QED BY <2>2, ComparisonIs
  <2> QED BY <1>7, <2>3
<1>8. CASE node.node \notin {"and", "or", "not", "paren", "cond", "rel", "call"}
  BY <1>8 DEF Pr!WalkNode
<1> QED BY <1>2, <1>3, <1>4, <1>5, <1>6, <1>7, <1>8

(* What Walk makes of a condition, node by node: P are the predicates.     *)
Walked(P, e, fields) ==
    /\ Len(P) = Len(e)
    /\ \A n \in 1 .. Len(e) :
          /\ \E T : \E done \in Seq(T) : SoFar(P, n, done) /\ P[n] = Pr!WalkNode(e[n], done, fields)
          /\ P[n] = NotCompilable \/ Combines(P[n], n) \/ Compares(P[n], fields)

LEMMA WalkIs ==
    ASSUME NEW e, ACondition(e), NEW fields
    PROVE  Walked(Pr!Walk(e, fields), e, fields)
<1> DEFINE N == Len(e)
           Next1(n, done) == Append(done, Pr!WalkNode(e[n], done, fields))
           T == {NotCompilable} \union [op : {"and", "or", "not"}, of : Seq(Nat)]
                  \union {Pr!WalkNode(e[n], <<>>, fields) : n \in 1 .. N}
           node == [p \in (1 .. N) \X Seq(T) |->
                       IF Len(p[2]) = p[1] - 1 THEN Pr!WalkNode(e[p[1]], p[2], fields) ELSE NotCompilable]
           Solves(f) == f = [n \in 0 .. N |-> IF n = 0 THEN <<>> ELSE Next1(n, f[n - 1])]
           g == CHOOSE f : Solves(f)
<1>1. N \in Nat \ {0} /\ DOMAIN e = 1 .. N /\ \A n \in 1 .. N : ANode(e[n], n)
  BY ConditionIs
<1>2. Pr!Walk(e, fields) = g[N]
  BY DEF Pr!Walk
<1>3. ASSUME NEW n \in 1 .. N, NEW done \in Seq(T), Len(done) = n - 1
      PROVE  Pr!WalkNode(e[n], done, fields) \in T
  <2> DEFINE x == Pr!WalkNode(e[n], done, fields)
  <2>1. \/ x = NotCompilable \/ Combines(x, n) \/ \E k \in 1 .. n - 1 : x = done[k]
        \/ e[n].node \in {"rel", "call"} /\ Compares(x, fields)
    BY <1>1, <1>3, WalkNodeIs
  <2>2. e[n].node \in {"rel", "call"} => x = Pr!WalkNode(e[n], <<>>, fields)
    BY DEF Pr!WalkNode
  <2>3. ASSUME Combines(x, n) PROVE x \in T
    <3>1. Seq(1 .. n - 1) \subseteq Seq(Nat)
      OBVIOUS
    <3>2. PICK op \in {"and", "or", "not"}, of \in Seq(1 .. n - 1) : x = [op |-> op, of |-> of]
      BY <2>3 DEF Combines
    <3> HIDE DEF x
    <3> QED BY <3>1, <3>2
  <2>4. \A k \in 1 .. n - 1 : done[k] \in T
    <3> HIDE DEF T
    <3> QED BY <1>3
  <2> HIDE DEF x
  <2>5. x \in T
    BY <2>1, <2>2, <2>3, <2>4
  <2> QED BY <2>5 DEF x
<1>4. node \in Nodewise(N, T)
  <2>1. NotCompilable \in T
    OBVIOUS
  <2>2. ASSUME NEW p \in (1 .. N) \X Seq(T)
        PROVE  (IF Len(p[2]) = p[1] - 1 THEN Pr!WalkNode(e[p[1]], p[2], fields) ELSE NotCompilable) \in T
    <3> HIDE DEF T, N
    <3> QED BY <1>3, <2>1
  <2> HIDE DEF T, N
  <2> QED BY <2>2 DEF Nodewise
<1>5. \A n \in 1 .. N, done \in Seq(T) :
         Len(done) = n - 1 => node[<<n, done>>] = Pr!WalkNode(e[n], done, fields)
  <2> HIDE DEF T, N
  <2> QED OBVIOUS
<1> HIDE DEF T, N, node, g
<1>6. PICK f : Passed(f, N, T, node)
  <2>1. N \in Nat
    BY <1>1
  <2> QED BY <1>4, <2>1, PassExists
<1>7. /\ f \in [0 .. N -> Seq(T)] /\ f[0] = <<>>
      /\ \A n \in 0 .. N : Len(f[n]) = n
      /\ \A n \in 1 .. N : f[n] = Append(f[n - 1], node[<<n, f[n - 1]>>])
  BY <1>6 DEF Passed
<1>8. Solves(f)
  <2>1. ASSUME NEW n \in 0 .. N PROVE f[n] = IF n = 0 THEN <<>> ELSE Next1(n, f[n - 1])
    <3>1. CASE n = 0
      BY <1>7, <3>1
    <3>2. CASE n # 0
      <4>1. n \in 1 .. N /\ n - 1 \in 0 .. N
        BY <1>1, <3>2
      <4>2. f[n - 1] \in Seq(T) /\ Len(f[n - 1]) = n - 1
        BY <1>7, <4>1
      <4> QED BY <1>5, <1>7, <3>2, <4>1, <4>2
    <3> QED BY <3>1, <3>2
  <2> HIDE DEF Next1
  <2> QED BY <1>7, <2>1
<1>9. Solves(g)
  <2> HIDE DEF Solves
  <2> QED BY <1>8 DEF g
<1> HIDE DEF Next1
<1>10. g[0] = <<>> /\ \A n \in 1 .. N : g[n] = Next1(n, g[n - 1])
  <2>1. \A n \in 0 .. N : g[n] = IF n = 0 THEN <<>> ELSE Next1(n, g[n - 1])
    BY <1>9
  <2>2. 0 \in 0 .. N /\ \A n \in 1 .. N : n \in 0 .. N /\ n # 0
    BY <1>1
  <2> HIDE DEF Solves
  <2> QED BY <2>1, <2>2
<1> HIDE DEF Solves
<1>11. ASSUME NEW n \in 1 .. N, g[n - 1] \in Seq(T), Len(g[n - 1]) = n - 1
       PROVE  g[n] = Append(g[n - 1], node[<<n, g[n - 1]>>])
  BY <1>5, <1>10, <1>11 DEF Next1
<1>12. Listed(g[N], N, T, node)
  <2>1. N \in Nat
    BY <1>1
  <2>2. Passes(g, N, T, node)
    BY <1>10, <1>11 DEF Passes
  <2> QED BY <1>4, <2>1, <2>2, PassIsList
<1> DEFINE P == g[N]
<1>13. ASSUME NEW n \in 1 .. N
       PROVE  \E done \in Seq(T) : SoFar(P, n, done) /\ P[n] = Pr!WalkNode(e[n], done, fields)
  BY <1>5, <1>12 DEF SoFar, Listed
<1> DEFINE Shaped(n) == P[n] = NotCompilable \/ Combines(P[n], n) \/ Compares(P[n], fields)
           H == {n \in 0 .. N : \A m \in 1 .. n : Shaped(m)}
<1>14. 0 \in H
  BY <1>1
<1>15. ASSUME NEW n \in 1 .. N, n - 1 \in H PROVE n \in H
  <2>1. n \in 0 .. N /\ \A m \in 1 .. n - 1 : Shaped(m)
    BY <1>1, <1>15
  <2>2. PICK done \in Seq(T) : SoFar(P, n, done) /\ P[n] = Pr!WalkNode(e[n], done, fields)
    BY <1>13
  <2> HIDE DEF P
  <2>3. \/ P[n] = NotCompilable \/ Combines(P[n], n) \/ \E k \in 1 .. n - 1 : P[n] = P[k]
        \/ Compares(P[n], fields)
    <3>1. n \in Nat /\ ANode(e[n], n) /\ Len(done) = n - 1 /\ \A k \in 1 .. n - 1 : done[k] = P[k]
      BY <1>1, <2>2 DEF SoFar
    <3> DEFINE x == Pr!WalkNode(e[n], done, fields)
    <3>2. x = NotCompilable \/ Combines(x, n) \/ (\E k \in 1 .. n - 1 : x = done[k]) \/ Compares(x, fields)
      BY <3>1, WalkNodeIs
    <3>3. P[n] = x
      BY <2>2
    <3> HIDE DEF x
    <3> QED BY <3>1, <3>2, <3>3
  <2>4. ASSUME NEW k \in 1 .. n - 1, P[n] = P[k] PROVE Shaped(n)
    <3>1. Combines(P[k], k) => Combines(P[k], n)
      <4>1. Seq(1 .. k - 1) \subseteq Seq(1 .. n - 1)
        <5>1. 1 .. k - 1 \subseteq 1 .. n - 1
          BY <1>1
        <5> QED BY <5>1
      <4> QED BY <4>1 DEF Combines
    <3> QED BY <2>1, <2>4, <3>1
  <2>5. Shaped(n)
    BY <2>3, <2>4
  <2>6. \A m \in 1 .. n : m \in 1 .. n - 1 \/ m = n
    BY <1>1
  <2> HIDE DEF Shaped
  <2> QED BY <2>1, <2>5, <2>6
<1>16. \A n \in 1 .. N : Shaped(n)
  <2> HIDE DEF H
  <2>1. 0 .. N \subseteq H
    BY <1>1, <1>14, <1>15, UpTo
  <2>2. N \in 0 .. N
    BY <1>1
  <2> HIDE DEF Shaped
  <2> QED BY <2>1, <2>2 DEF H
<1>17. Walked(P, e, fields)
  BY <1>12, <1>13, <1>16 DEF Walked, Listed, N
<1> QED BY <1>2, <1>17 DEF P

LEMMA ComparesOrNot ==
    ASSUME NEW op \in {"gt", "ge", "lt", "le", "contains"}, NEW v, NEW w
    PROVE  Pr!Compare(op, v, w) \in BOOLEAN
<1>1. CASE op = "gt"
  BY <1>1 DEF Pr!Compare
<1>2. CASE op = "ge"
  BY <1>2 DEF Pr!Compare
<1>3. CASE op = "lt"
  BY <1>3 DEF Pr!Compare
<1>4. CASE op = "le"
  BY <1>4 DEF Pr!Compare
<1>5. CASE op = "contains"
  BY <1>5 DEF Pr!Compare
<1> QED BY <1>1, <1>2, <1>3, <1>4, <1>5

(* What is selected.  Predicates refer to those before them only.          *)
LEMMA SelectsIs ==
    ASSUME NEW P, Len(P) \in Nat, NEW r,
           \A n \in 1 .. Len(P) : P[n] = NotCompilable \/ Combines(P[n], n) \/ \E fields : Compares(P[n], fields)
    PROVE  LET S == Pr!Selects(P, r)
           IN  \A n \in 1 .. Len(P) : S[n] = Pr!SelectsNode(P[n], S, r) /\ S[n] \in BOOLEAN
<1> DEFINE N == Len(P)
           T == BOOLEAN
           Next1(n, done) == Append(done, Pr!SelectsNode(P[n], done, r))
           node == [p \in (1 .. N) \X Seq(T) |->
                       IF Len(p[2]) = p[1] - 1 THEN Pr!SelectsNode(P[p[1]], p[2], r) ELSE FALSE]
           Solves(f) == f = [n \in 0 .. N |-> IF n = 0 THEN <<>> ELSE Next1(n, f[n - 1])]
           g == CHOOSE f : Solves(f)
<1>1. N \in Nat
  OBVIOUS
<1>2. Pr!Selects(P, r) = g[N]
  BY DEF Pr!Selects
<1>3. ASSUME NEW n \in 1 .. N, NEW done \in Seq(T), Len(done) = n - 1
      PROVE  Pr!SelectsNode(P[n], done, r) \in T
  BY DEF Pr!SelectsNode
<1>4. node \in Nodewise(N, T)
  <2>1. FALSE \in T
    OBVIOUS
  <2>2. ASSUME NEW p \in (1 .. N) \X Seq(T)
        PROVE  (IF Len(p[2]) = p[1] - 1 THEN Pr!SelectsNode(P[p[1]], p[2], r) ELSE FALSE) \in T
    <3> HIDE DEF T, N
    <3> QED BY <1>3, <2>1
  <2> HIDE DEF T, N
  <2> QED BY <2>2 DEF Nodewise
<1>5. \A n \in 1 .. N, done \in Seq(T) :
         Len(done) = n - 1 => node[<<n, done>>] = Pr!SelectsNode(P[n], done, r)
  <2> HIDE DEF T, N
  <2> QED OBVIOUS
<1> HIDE DEF T, N, node, g
<1>6. PICK f : Passed(f, N, T, node)
  <2>1. N \in Nat
    BY <1>1
  <2> QED BY <1>4, <2>1, PassExists
<1>7. /\ f \in [0 .. N -> Seq(T)] /\ f[0] = <<>>
      /\ \A n \in 0 .. N : Len(f[n]) = n
      /\ \A n \in 1 .. N : f[n] = Append(f[n - 1], node[<<n, f[n - 1]>>])
  BY <1>6 DEF Passed
<1>8. Solves(f)
  <2>1. ASSUME NEW n \in 0 .. N PROVE f[n] = IF n = 0 THEN <<>> ELSE Next1(n, f[n - 1])
    <3>1. CASE n = 0
      BY <1>7, <3>1
    <3>2. CASE n # 0
      <4>1. n \in 1 .. N /\ n - 1 \in 0 .. N
        BY <1>1, <3>2
      <4>2. f[n - 1] \in Seq(T) /\ Len(f[n - 1]) = n - 1
        BY <1>7, <4>1
      <4> QED BY <1>5, <1>7, <3>2, <4>1, <4>2
    <3> QED BY <3>1, <3>2
  <2> HIDE DEF Next1
  <2> QED BY <1>7, <2>1
<1>9. Solves(g)
  <2> HIDE DEF Solves
  <2> QED BY <1>8 DEF g
<1> HIDE DEF Next1
<1>10. g[0] = <<>> /\ \A n \in 1 .. N : g[n] = Next1(n, g[n - 1])
  <2>1. \A n \in 0 .. N : g[n] = IF n = 0 THEN <<>> ELSE Next1(n, g[n - 1])
    BY <1>9
  <2>2. 0 \in 0 .. N /\ \A n \in 1 .. N : n \in 0 .. N /\ n # 0
    BY <1>1
  <2> HIDE DEF Solves
  <2> QED BY <2>1, <2>2
<1> HIDE DEF Solves
<1>11. ASSUME NEW n \in 1 .. N, g[n - 1] \in Seq(T), Len(g[n - 1]) = n - 1
       PROVE  g[n] = Append(g[n - 1], node[<<n, g[n - 1]>>])
  BY <1>5, <1>10, <1>11 DEF Next1
<1>12. Listed(g[N], N, T, node)
  <2>1. N \in Nat
    BY <1>1
  <2>2. Passes(g, N, T, node)
    BY <1>10, <1>11 DEF Passes
  <2> QED BY <1>4, <2>1, <2>2, PassIsList
<1>13. ASSUME NEW n \in 1 .. N
       PROVE  \E done \in Seq(T) : SoFar(g[N], n, done) /\ g[N][n] = Pr!SelectsNode(P[n], done, r)
  BY <1>5, <1>12 DEF SoFar, Listed
<1> DEFINE S == g[N]
<1>14. ASSUME NEW n \in 1 .. N PROVE S[n] = Pr!SelectsNode(P[n], S, r) /\ S[n] \in BOOLEAN
  <2>1. PICK done \in Seq(T) : SoFar(S, n, done) /\ S[n] = Pr!SelectsNode(P[n], done, r)
    BY <1>13
  <2> HIDE DEF S
  <2>2. CASE P[n] = NotCompilable
    BY <2>1, <2>2 DEF Pr!SelectsNode
  <2>3. CASE Combines(P[n], n)
    <3>1. PICK op \in {"and", "or", "not"}, of \in Seq(1 .. n - 1) :
             P[n] = [op |-> op, of |-> of] /\ (op = "not" => of # <<>>)
      BY <2>3 DEF Combines
    <3>2. P[n].op = op /\ P[n].of = of
      BY <3>1
    <3>3. \A i \in DOMAIN of : of[i] \in 1 .. n - 1 /\ done[of[i]] = S[of[i]]
      BY <2>1 DEF SoFar
    <3>4. CASE op = "and"
      BY <2>1, <3>2, <3>3, <3>4 DEF Pr!SelectsNode
    <3>5. CASE op = "or"
      BY <2>1, <3>2, <3>3, <3>5 DEF Pr!SelectsNode
    <3>6. CASE op = "not"
      <4>1. 1 \in DOMAIN of
        BY <3>1, <3>6
      <4> QED BY <4>1, <2>1, <3>2, <3>3, <3>6 DEF Pr!SelectsNode
    <3> QED BY <3>4, <3>5, <3>6
  <2>4. CASE \E fields : Compares(P[n], fields)
    <3>1. P[n].op \in {"eq", "ne", "gt", "ge", "lt", "le", "in", "contains"}
      BY <2>4 DEF Compares
    <3> QED BY <2>1, <3>1 DEF Pr!SelectsNode
  <2> QED BY <2>2, <2>3, <2>4 DEF N
<1> QED BY <1>2, <1>14 DEF S, N

(* What is misread.                                                        *)
LEMMA MisreadIs ==
    ASSUME NEW e, ACondition(e)
    PROVE  LET M == Pr!Misread(e)
           IN  \A n \in 1 .. Len(e) : \E done \in Seq(BOOLEAN) :
                   SoFar(M, n, done) /\ M[n] = Pr!MisreadNode(e[n], done)
<1> DEFINE N == Len(e)
           T == BOOLEAN
           Next1(n, done) == Append(done, Pr!MisreadNode(e[n], done))
           node == [p \in (1 .. N) \X Seq(T) |->
                       IF Len(p[2]) = p[1] - 1 THEN Pr!MisreadNode(e[p[1]], p[2]) ELSE FALSE]
           Solves(f) == f = [n \in 0 .. N |-> IF n = 0 THEN <<>> ELSE Next1(n, f[n - 1])]
           g == CHOOSE f : Solves(f)
<1>1. N \in Nat /\ \A n \in 1 .. N : ANode(e[n], n)
  BY ConditionIs
<1>2. Pr!Misread(e) = g[N]
  BY DEF Pr!Misread
<1>3. ASSUME NEW n \in 1 .. N, NEW done \in Seq(T), Len(done) = n - 1
      PROVE  Pr!MisreadNode(e[n], done) \in T
  <2>1. ANode(e[n], n) /\ n \in Nat
    BY <1>1
  <2>2. CASE e[n].node \in {"not", "paren"}
    <3>1. SoFar(done, n, done)
      BY <1>3 DEF SoFar
    <3>2. Pr!Kid(done, e[n].of) \in T
      BY <2>1, <2>2, <3>1, KidIs DEF ANode
    <3> QED BY <2>2, <3>2 DEF Pr!MisreadNode
  <2>3. CASE e[n].node \notin {"not", "paren"}
    BY <2>3 DEF Pr!MisreadNode
  <2> QED BY <2>2, <2>3
<1>4. node \in Nodewise(N, T)
  <2>1. FALSE \in T
    OBVIOUS
  <2>2. ASSUME NEW p \in (1 .. N) \X Seq(T)
        PROVE  (IF Len(p[2]) = p[1] - 1 THEN Pr!MisreadNode(e[p[1]], p[2]) ELSE FALSE) \in T
    <3> HIDE DEF T, N
    <3> QED BY <1>3, <2>1
  <2> HIDE DEF T, N
  <2> QED BY <2>2 DEF Nodewise
<1>5. \A n \in 1 .. N, done \in Seq(T) :
         Len(done) = n - 1 => node[<<n, done>>] = Pr!MisreadNode(e[n], done)
  <2> HIDE DEF T, N
  <2> QED OBVIOUS
<1> HIDE DEF T, N, node, g
<1>6. PICK f : Passed(f, N, T, node)
  <2>1. N \in Nat
    BY <1>1
  <2> QED BY <1>4, <2>1, PassExists
<1>7. /\ f \in [0 .. N -> Seq(T)] /\ f[0] = <<>>
      /\ \A n \in 0 .. N : Len(f[n]) = n
      /\ \A n \in 1 .. N : f[n] = Append(f[n - 1], node[<<n, f[n - 1]>>])
  BY <1>6 DEF Passed
<1>8. Solves(f)
  <2>1. ASSUME NEW n \in 0 .. N PROVE f[n] = IF n = 0 THEN <<>> ELSE Next1(n, f[n - 1])
    <3>1. CASE n = 0
      BY <1>7, <3>1
    <3>2. CASE n # 0
      <4>1. n \in 1 .. N /\ n - 1 \in 0 .. N
        BY <1>1, <3>2
      <4>2. f[n - 1] \in Seq(T) /\ Len(f[n - 1]) = n - 1
        BY <1>7, <4>1
      <4> QED BY <1>5, <1>7, <3>2, <4>1, <4>2
    <3> QED BY <3>1, <3>2
  <2> HIDE DEF Next1
  <2> QED BY <1>7, <2>1
<1>9. Solves(g)
  <2> HIDE DEF Solves
  <2> QED BY <1>8 DEF g
<1> HIDE DEF Next1
<1>10. g[0] = <<>> /\ \A n \in 1 .. N : g[n] = Next1(n, g[n - 1])
  <2>1. \A n \in 0 .. N : g[n] = IF n = 0 THEN <<>> ELSE Next1(n, g[n - 1])
    BY <1>9
  <2>2. 0 \in 0 .. N /\ \A n \in 1 .. N : n \in 0 .. N /\ n # 0
    BY <1>1
  <2> HIDE DEF Solves
  <2> QED BY <2>1, <2>2
<1> HIDE DEF Solves
<1>11. ASSUME NEW n \in 1 .. N, g[n - 1] \in Seq(T), Len(g[n - 1]) = n - 1
       PROVE  g[n] = Append(g[n - 1], node[<<n, g[n - 1]>>])
  BY <1>5, <1>10, <1>11 DEF Next1
<1>12. Listed(g[N], N, T, node)
  <2>1. N \in Nat
    BY <1>1
  <2>2. Passes(g, N, T, node)
    BY <1>10, <1>11 DEF Passes
  <2> QED BY <1>4, <2>1, <2>2, PassIsList
<1>13. ASSUME NEW n \in 1 .. N
       PROVE  \E done \in Seq(T) : SoFar(g[N], n, done) /\ g[N][n] = Pr!MisreadNode(e[n], done)
  BY <1>5, <1>12 DEF SoFar, Listed
<1> QED BY <1>2, <1>13 DEF T, N

(* What CEL finds.                                                         *)
LEMMA CelIs ==
    ASSUME NEW e, ACondition(e), NEW r
    PROVE  LET C == Pr!Cel(e, r)
           IN  \A n \in 1 .. Len(e) : \E done \in Seq(BOOLEAN \union {Nothing}) :
                   SoFar(C, n, done) /\ C[n] = Pr!CelNode(e[n], done, r)
<1> DEFINE N == Len(e)
           T == BOOLEAN \union {Nothing}
           Next1(n, done) == Append(done, Pr!CelNode(e[n], done, r))
           node == [p \in (1 .. N) \X Seq(T) |->
                       IF Len(p[2]) = p[1] - 1 THEN Pr!CelNode(e[p[1]], p[2], r) ELSE FALSE]
           Solves(f) == f = [n \in 0 .. N |-> IF n = 0 THEN <<>> ELSE Next1(n, f[n - 1])]
           g == CHOOSE f : Solves(f)
<1>1. N \in Nat /\ \A n \in 1 .. N : ANode(e[n], n)
  BY ConditionIs
<1>2. Pr!Cel(e, r) = g[N]
  BY DEF Pr!Cel
<1>3. ASSUME NEW n \in 1 .. N, NEW done \in Seq(T), Len(done) = n - 1
      PROVE  Pr!CelNode(e[n], done, r) \in T
  <2> DEFINE x == e[n]
  <2>1. ANode(x, n) /\ n \in Nat /\ SoFar(done, n, done)
    BY <1>1, <1>3 DEF SoFar
  <2>2. ASSUME NEW back \in 1 .. n - 1 PROVE Pr!Kid(done, back) \in T
    <3> HIDE DEF T
    <3> QED BY <2>1, KidIs
  <2>3. ASSUME NEW op \in {"eq", "ne", "gt", "ge", "lt", "le", "contains"}, NEW v, NEW w
        PROVE  Pr!CelRelation(op, v, w) \in T
    <3>1. CASE op = "eq"
      BY <3>1 DEF Pr!CelRelation, Pr!Same
    <3>2. CASE op = "ne"
      BY <3>2 DEF Pr!CelRelation, Pr!Same
    <3>3. CASE op \in {"gt", "ge", "lt", "le", "contains"}
      <4>1. Pr!Compare(op, v, w) \in BOOLEAN
        BY <3>3, ComparesOrNot
      <4> QED BY <3>3, <4>1 DEF Pr!CelRelation
    <3> QED BY <3>1, <3>2, <3>3
  <2> HIDE DEF x
  <2>4. Pr!CelNode(x, done, r) \in T
    <3>1. CASE x.node = "paren"
      BY <2>1, <2>2, <3>1 DEF Pr!CelNode, ANode
    <3>2. CASE x.node \in {"and", "or"}
      BY <3>2 DEF Pr!CelNode, Pr!CelJoin
    <3>3. CASE x.node = "not"
      BY <3>3 DEF Pr!CelNode
    <3>4. CASE x.node = "cond"
      BY <2>1, <2>2, <3>4 DEF Pr!CelNode, ANode
    <3>5. CASE x.node = "rel"
      <4>1. x.op # "in" => x.op \in {"eq", "ne", "gt", "ge", "lt", "le", "contains"}
        BY <2>1, <3>5 DEF ANode
      <4>2. x.op # "in" => Pr!CelRelation(x.op, r[x.left.name], x.right.value) \in T
        BY <2>3, <4>1
      <4>3. (\E i \in DOMAIN x.right.items : Pr!Same(r[x.left.name], x.right.items[i].value)) \in T
        OBVIOUS
      <4> QED BY <3>5, <4>2, <4>3 DEF Pr!CelNode
    <3>6. CASE x.node = "call"
      <4>1. Pr!CelRelation("contains", r[x.target.name], x.args[1].value) \in T
        BY <2>3
      <4> QED BY <3>6, <4>1 DEF Pr!CelNode
    <3>7. CASE x.node \notin {"and", "or", "not", "paren", "cond", "rel", "call"}
      BY <3>7 DEF Pr!CelNode
    <3> QED BY <3>1, <3>2, <3>3, <3>4, <3>5, <3>6, <3>7
  <2> QED BY <2>4 DEF x
<1>4. node \in Nodewise(N, T)
  <2>1. FALSE \in T
    OBVIOUS
  <2>2. ASSUME NEW p \in (1 .. N) \X Seq(T)
        PROVE  (IF Len(p[2]) = p[1] - 1 THEN Pr!CelNode(e[p[1]], p[2], r) ELSE FALSE) \in T
    <3> HIDE DEF T, N
    <3> QED BY <1>3, <2>1
  <2> HIDE DEF T, N
  <2> QED BY <2>2 DEF Nodewise
<1>5. \A n \in 1 .. N, done \in Seq(T) :
         Len(done) = n - 1 => node[<<n, done>>] = Pr!CelNode(e[n], done, r)
  <2> HIDE DEF T, N
  <2> QED OBVIOUS
<1> HIDE DEF T, N, node, g
<1>6. PICK f : Passed(f, N, T, node)
  <2>1. N \in Nat
    BY <1>1
  <2> QED BY <1>4, <2>1, PassExists
<1>7. /\ f \in [0 .. N -> Seq(T)] /\ f[0] = <<>>
      /\ \A n \in 0 .. N : Len(f[n]) = n
      /\ \A n \in 1 .. N : f[n] = Append(f[n - 1], node[<<n, f[n - 1]>>])
  BY <1>6 DEF Passed
<1>8. Solves(f)
  <2>1. ASSUME NEW n \in 0 .. N PROVE f[n] = IF n = 0 THEN <<>> ELSE Next1(n, f[n - 1])
    <3>1. CASE n = 0
      BY <1>7, <3>1
    <3>2. CASE n # 0
      <4>1. n \in 1 .. N /\ n - 1 \in 0 .. N
        BY <1>1, <3>2
      <4>2. f[n - 1] \in Seq(T) /\ Len(f[n - 1]) = n - 1
        BY <1>7, <4>1
      <4> QED BY <1>5, <1>7, <3>2, <4>1, <4>2
    <3> QED BY <3>1, <3>2
  <2> HIDE DEF Next1
  <2> QED BY <1>7, <2>1
<1>9. Solves(g)
  <2> HIDE DEF Solves
  <2> QED BY <1>8 DEF g
<1> HIDE DEF Next1
<1>10. g[0] = <<>> /\ \A n \in 1 .. N : g[n] = Next1(n, g[n - 1])
  <2>1. \A n \in 0 .. N : g[n] = IF n = 0 THEN <<>> ELSE Next1(n, g[n - 1])
    BY <1>9
  <2>2. 0 \in 0 .. N /\ \A n \in 1 .. N : n \in 0 .. N /\ n # 0
    BY <1>1
  <2> HIDE DEF Solves
  <2> QED BY <2>1, <2>2
<1> HIDE DEF Solves
<1>11. ASSUME NEW n \in 1 .. N, g[n - 1] \in Seq(T), Len(g[n - 1]) = n - 1
       PROVE  g[n] = Append(g[n - 1], node[<<n, g[n - 1]>>])
  BY <1>5, <1>10, <1>11 DEF Next1
<1>12. Listed(g[N], N, T, node)
  <2>1. N \in Nat
    BY <1>1
  <2>2. Passes(g, N, T, node)
    BY <1>10, <1>11 DEF Passes
  <2> QED BY <1>4, <2>1, <2>2, PassIsList
<1>13. ASSUME NEW n \in 1 .. N
       PROVE  \E done \in Seq(T) : SoFar(g[N], n, done) /\ g[N][n] = Pr!CelNode(e[n], done, r)
  BY <1>5, <1>12 DEF SoFar, Listed
<1> QED BY <1>2, <1>13 DEF T, N

(* What is asked about.                                                    *)
LEMMA FieldsAre ==
    ASSUME NEW P, Len(P) \in Nat, NEW fields,
           \A n \in 1 .. Len(P) : P[n] = NotCompilable \/ Combines(P[n], n) \/ Compares(P[n], fields)
    PROVE  \A n \in 1 .. Len(P) : Pr!FieldsIn(P)[n] \subseteq fields
<1> DEFINE N == Len(P)
           T == SUBSET fields
           Next1(n, done) == Append(done, Pr!FieldsNode(P[n], done))
           node == [p \in (1 .. N) \X Seq(T) |->
                       IF Len(p[2]) = p[1] - 1 THEN Pr!FieldsNode(P[p[1]], p[2]) ELSE {}]
           Solves(f) == f = [n \in 0 .. N |-> IF n = 0 THEN <<>> ELSE Next1(n, f[n - 1])]
           g == CHOOSE f : Solves(f)
<1>1. N \in Nat
  OBVIOUS
<1>2. Pr!FieldsIn(P) = g[N]
  BY DEF Pr!FieldsIn
<1>3. ASSUME NEW n \in 1 .. N, NEW done \in Seq(T), Len(done) = n - 1
      PROVE  Pr!FieldsNode(P[n], done) \in T
  <2>1. CASE P[n] = NotCompilable
    BY <2>1 DEF Pr!FieldsNode
  <2>2. CASE P[n] # NotCompilable /\ Combines(P[n], n)
    <3>1. PICK op \in {"and", "or", "not"}, of \in Seq(1 .. n - 1) : P[n] = [op |-> op, of |-> of]
      BY <2>2 DEF Combines
    <3>2. P[n].op = op /\ P[n].of = of
      BY <3>1
    <3>3. \A i \in DOMAIN of : of[i] \in 1 .. n - 1 /\ done[of[i]] \in SUBSET fields
      BY <1>3
    <3> QED BY <2>2, <3>2, <3>3 DEF Pr!FieldsNode
  <2>3. CASE P[n] # NotCompilable /\ Compares(P[n], fields)
    BY <2>3 DEF Pr!FieldsNode, Compares
  <2> QED BY <2>1, <2>2, <2>3
<1>4. node \in Nodewise(N, T)
  <2>1. {} \in T
    OBVIOUS
  <2>2. ASSUME NEW p \in (1 .. N) \X Seq(T)
        PROVE  (IF Len(p[2]) = p[1] - 1 THEN Pr!FieldsNode(P[p[1]], p[2]) ELSE {}) \in T
    <3> HIDE DEF T, N
    <3> QED BY <1>3, <2>1
  <2> HIDE DEF T, N
  <2> QED BY <2>2 DEF Nodewise
<1>5. \A n \in 1 .. N, done \in Seq(T) :
         Len(done) = n - 1 => node[<<n, done>>] = Pr!FieldsNode(P[n], done)
  <2> HIDE DEF T, N
  <2> QED OBVIOUS
<1> HIDE DEF T, N, node, g
<1>6. PICK f : Passed(f, N, T, node)
  <2>1. N \in Nat
    BY <1>1
  <2> QED BY <1>4, <2>1, PassExists
<1>7. /\ f \in [0 .. N -> Seq(T)] /\ f[0] = <<>>
      /\ \A n \in 0 .. N : Len(f[n]) = n
      /\ \A n \in 1 .. N : f[n] = Append(f[n - 1], node[<<n, f[n - 1]>>])
  BY <1>6 DEF Passed
<1>8. Solves(f)
  <2>1. ASSUME NEW n \in 0 .. N PROVE f[n] = IF n = 0 THEN <<>> ELSE Next1(n, f[n - 1])
    <3>1. CASE n = 0
      BY <1>7, <3>1
    <3>2. CASE n # 0
      <4>1. n \in 1 .. N /\ n - 1 \in 0 .. N
        BY <1>1, <3>2
      <4>2. f[n - 1] \in Seq(T) /\ Len(f[n - 1]) = n - 1
        BY <1>7, <4>1
      <4> QED BY <1>5, <1>7, <3>2, <4>1, <4>2
    <3> QED BY <3>1, <3>2
  <2> HIDE DEF Next1
  <2> QED BY <1>7, <2>1
<1>9. Solves(g)
  <2> HIDE DEF Solves
  <2> QED BY <1>8 DEF g
<1> HIDE DEF Next1
<1>10. g[0] = <<>> /\ \A n \in 1 .. N : g[n] = Next1(n, g[n - 1])
  <2>1. \A n \in 0 .. N : g[n] = IF n = 0 THEN <<>> ELSE Next1(n, g[n - 1])
    BY <1>9
  <2>2. 0 \in 0 .. N /\ \A n \in 1 .. N : n \in 0 .. N /\ n # 0
    BY <1>1
  <2> HIDE DEF Solves
  <2> QED BY <2>1, <2>2
<1> HIDE DEF Solves
<1>11. ASSUME NEW n \in 1 .. N, g[n - 1] \in Seq(T), Len(g[n - 1]) = n - 1
       PROVE  g[n] = Append(g[n - 1], node[<<n, g[n - 1]>>])
  BY <1>5, <1>10, <1>11 DEF Next1
<1>12. Listed(g[N], N, T, node)
  <2>1. N \in Nat
    BY <1>1
  <2>2. Passes(g, N, T, node)
    BY <1>10, <1>11 DEF Passes
  <2> QED BY <1>4, <2>1, <2>2, PassIsList
<1>13. ASSUME NEW n \in 1 .. N
       PROVE  \E done \in Seq(T) : SoFar(g[N], n, done) /\ g[N][n] = Pr!FieldsNode(P[n], done)
  BY <1>5, <1>12 DEF SoFar, Listed
<1>14. ASSUME NEW n \in 1 .. N PROVE g[N][n] \in T
  BY <1>3, <1>13 DEF SoFar
<1> QED BY <1>2, <1>14 DEF T, N

(* A relation, or a call, that compiles selects what CEL finds, but for    *)
(* unsigned literals.                                                      *)
LEMMA RelationMeansSame ==
    ASSUME NEW x, x.node = "rel", NEW fields, NEW S, NEW C, NEW done, NEW other,
           x.op \in {"eq", "ne", "gt", "ge", "lt", "le", "in"},
           NEW r, \A f \in DOMAIN r : r[f].type # "uint",
           Pr!WalkNode(x, done, fields) # NotCompilable, ~ Pr!MisreadNode(x, other),
           Pr!CelNode(x, C, r) # Nothing
    PROVE  Pr!SelectsNode(Pr!WalkNode(x, done, fields), S, r) = Pr!CelNode(x, C, r)
<1> DEFINE p == Pr!WalkNode(x, done, fields)
           v == Pr!Operand(x.op, x.right)
           f == x.left.name
<1>1. p = Pr!Comparison(x.op, Pr!FieldOf(x.left, fields), v)
  BY DEF Pr!WalkNode
<1>2. Pr!FieldOf(x.left, fields) # NotCompilable /\ v # NotCompilable
  BY <1>1 DEF Pr!Comparison
<1>3. x.left.node = "ident" /\ Pr!FieldOf(x.left, fields) = f
  BY <1>2 DEF Pr!FieldOf
<1>4. p = [op |-> x.op, field |-> f, value |-> v]
  BY <1>1, <1>2, <1>3 DEF Pr!Comparison, Pr!PredicateOf
<1>5. p.op = x.op /\ p.field = f /\ p.value = v /\ p # NotCompilable
  BY <1>4
<1> HIDE DEF p
<1>6. SUFFICES Pr!SelectsNode(p, S, r) = Pr!CelNode(x, C, r)
  BY DEF p
<1>7. ~ Pr!Unsigned(x.right)
  BY DEF Pr!MisreadNode
<1>8. f \in DOMAIN r
  BY DEF Pr!CelNode
<1>9. CASE x.op = "in"
  <2> DEFINE items == x.right.items
  <2>1. x.right.node = "list" /\ \A i \in DOMAIN items : Pr!LiteralOf(items[i]) # NotCompilable
    BY <1>2, <1>9 DEF Pr!Operand, Pr!ListOf
  <2>2. v = [i \in DOMAIN items |-> Pr!LiteralOf(items[i])]
    BY <1>9, <2>1 DEF Pr!Operand, Pr!ListOf
  <2>3. \A i \in DOMAIN items : items[i].node = "literal"
    BY <2>1 DEF Pr!LiteralOf
  <2>4. \A i \in DOMAIN items : ~ Pr!Unsigned(items[i])
    BY <2>1 DEF Pr!MisreadNode
  <2>5. \A i \in DOMAIN items : v[i] = items[i].value /\ items[i].value.type # "uint"
    BY <2>2, <2>3, <2>4 DEF Pr!LiteralOf, Pr!ParsedToken, Pr!Unsigned
  <2>6. \A i \in DOMAIN items : Pr!Same(r[f], items[i].value) <=> v[i] = r[f]
    BY <1>8, <2>5 DEF Pr!Same
  <2>7. Pr!CelNode(x, C, r) = \E i \in DOMAIN items : Pr!Same(r[f], items[i].value)
    BY <1>3, <1>8, <1>9, <2>1, <2>3 DEF Pr!CelNode
  <2>8. Pr!SelectsNode(p, S, r) = \E i \in DOMAIN v : v[i] = r[f]
    BY <1>5, <1>9 DEF Pr!SelectsNode
  <2>9. DOMAIN v = DOMAIN items
    BY <2>2
  <2> HIDE DEF items, v, f
  <2> QED BY <2>6, <2>7, <2>8, <2>9
<1>10. CASE x.op # "in"
  <2> DEFINE w == x.right.value
  <2>1. x.right.node = "literal" /\ v = w /\ w.type # "uint"
    BY <1>2, <1>7, <1>10 DEF Pr!Operand, Pr!LiteralOf, Pr!ParsedToken, Pr!Unsigned
  <2>2. Pr!CelNode(x, C, r) = Pr!CelRelation(x.op, r[f], w)
    BY <1>3, <1>8, <1>10, <2>1 DEF Pr!CelNode
  <2>3. Pr!SelectsNode(p, S, r) = (Pr!Comparable(x.op, r[f], w) /\ Pr!Compare(x.op, r[f], w))
    BY <1>5, <1>10, <2>1 DEF Pr!SelectsNode
  <2>4. Pr!Same(r[f], w) = (r[f] = w)
    BY <1>8, <2>1 DEF Pr!Same
  <2> HIDE DEF w, v, f
  <2>5. CASE x.op = "eq"
    <3>1. Pr!CelNode(x, C, r) = (r[f] = w)
      BY <2>2, <2>4, <2>5 DEF Pr!CelRelation
    <3>2. Pr!SelectsNode(p, S, r) = (r[f] = w)
      BY <2>3, <2>5 DEF Pr!Comparable, Pr!Compare
    <3> QED BY <3>1, <3>2
  <2>6. CASE x.op = "ne"
    BY <2>2, <2>3, <2>4, <2>6 DEF Pr!CelRelation, Pr!Comparable, Pr!Compare
  <2>7. CASE x.op \in {"gt", "ge", "lt", "le"}
    <3>1. Pr!CelRelation(x.op, r[f], w) = Pr!Compare(x.op, r[f], w) /\ Pr!Comparable(x.op, r[f], w)
      BY <2>2, <2>7 DEF Pr!CelRelation
    <3>2. Pr!Compare(x.op, r[f], w) \in BOOLEAN
      BY <2>7, ComparesOrNot
    <3> QED BY <2>2, <2>3, <3>1, <3>2
  <2> QED BY <1>10, <2>5, <2>6, <2>7
<1> QED BY <1>9, <1>10

LEMMA CallMeansSame ==
    ASSUME NEW x, x.node = "call", NEW fields, NEW S, NEW C, NEW done, NEW r,
           Pr!WalkNode(x, done, fields) # NotCompilable, Pr!CelNode(x, C, r) # Nothing
    PROVE  Pr!SelectsNode(Pr!WalkNode(x, done, fields), S, r) = Pr!CelNode(x, C, r)
<1> DEFINE p == Pr!WalkNode(x, done, fields)
           v == Pr!LiteralOf(x.args[1])
           w == x.args[1].value
           f == x.target.name
<1>1. p = Pr!MethodCall(x, fields)
  BY DEF Pr!WalkNode
<1>2. x.method = "contains" /\ p = Pr!Comparison("contains", Pr!FieldOf(x.target, fields), v) /\ v # NotCompilable
  BY <1>1 DEF Pr!MethodCall
<1>3. Pr!FieldOf(x.target, fields) # NotCompilable
  BY <1>2 DEF Pr!Comparison
<1>4. x.target.node = "ident" /\ Pr!FieldOf(x.target, fields) = f
  BY <1>3 DEF Pr!FieldOf
<1>5. p = [op |-> "contains", field |-> f, value |-> v]
  BY <1>2, <1>3, <1>4 DEF Pr!Comparison, Pr!PredicateOf
<1>6. p.op = "contains" /\ p.field = f /\ p.value = v /\ p # NotCompilable
  BY <1>5
<1>7. x.args[1].node = "literal"
  BY <1>2 DEF Pr!LiteralOf
<1>8. Pr!CelNode(x, C, r) = Pr!CelRelation("contains", r[f], w)
  BY DEF Pr!CelNode
<1>9. r[f].type = w.type /\ Pr!Comparable("contains", r[f], w) /\ Pr!CelNode(x, C, r) = Pr!Compare("contains", r[f], w)
  BY <1>8 DEF Pr!CelRelation
<1>10. v = w
  BY <1>7, <1>9 DEF Pr!LiteralOf, Pr!ParsedToken, Pr!Comparable
<1> HIDE DEF p
<1>11. Pr!SelectsNode(p, S, r) = (Pr!Comparable("contains", r[f], w) /\ Pr!Compare("contains", r[f], w))
  BY <1>6, <1>10 DEF Pr!SelectsNode
<1>12. Pr!Compare("contains", r[f], w) \in BOOLEAN
  BY ComparesOrNot
<1> HIDE DEF v, w, f
<1>13. Pr!SelectsNode(p, S, r) = Pr!CelNode(x, C, r)
  BY <1>9, <1>11, <1>12
<1> QED BY <1>13 DEF p

(* Below, what became of the nodes of a condition: its predicates, what    *)
(* they select of a row, what CEL finds in it, and what is misread.        *)
LEMMA NodesMeanSame ==
    ASSUME NEW e, ACondition(e), NEW fields, NEW r, \A f \in DOMAIN r : r[f].type # "uint"
    PROVE  LET P == Pr!Walk(e, fields)
               S == Pr!Selects(P, r)
               C == Pr!Cel(e, r)
               M == Pr!Misread(e)
           IN  \A n \in 1 .. Len(e) : P[n] # NotCompilable /\ ~ M[n] /\ C[n] # Nothing => S[n] = C[n]
<1> DEFINE N == Len(e)
           P == Pr!Walk(e, fields)
           S == Pr!Selects(P, r)
           C == Pr!Cel(e, r)
           M == Pr!Misread(e)
           Same(n) == P[n] # NotCompilable /\ ~ M[n] /\ C[n] # Nothing => S[n] = C[n]
           H == {n \in 0 .. N : \A m \in 1 .. n : Same(m)}
           B == BOOLEAN \union {Nothing}
<1>1. N \in Nat /\ \A n \in 1 .. N : ANode(e[n], n)
  BY ConditionIs
<1>2. Walked(P, e, fields)
  BY WalkIs
<1>3. Len(P) = N /\ \A n \in 1 .. N : P[n] = NotCompilable \/ Combines(P[n], n) \/ Compares(P[n], fields)
  BY <1>2 DEF Walked
<1>4. \A n \in 1 .. N : S[n] = Pr!SelectsNode(P[n], S, r) /\ S[n] \in BOOLEAN
  <2> HIDE DEF P
  <2> QED BY <1>1, <1>3, SelectsIs
<1>5. \A n \in 1 .. N : \E done \in Seq(BOOLEAN) : SoFar(M, n, done) /\ M[n] = Pr!MisreadNode(e[n], done)
  BY MisreadIs
<1>6. \A n \in 1 .. N : \E done \in Seq(B) : SoFar(C, n, done) /\ C[n] = Pr!CelNode(e[n], done, r)
  BY CelIs
<1>7. \A n \in 1 .. N : \E T : \E done \in Seq(T) : SoFar(P, n, done) /\ P[n] = Pr!WalkNode(e[n], done, fields)
  BY <1>2 DEF Walked
<1> HIDE DEF N, P, S, C, M
<1>8. 0 \in H
  BY <1>1
<1>9. ASSUME NEW n \in 1 .. N, n - 1 \in H PROVE n \in H
  <2>1. n \in 0 .. N /\ n \in Nat /\ \A m \in 1 .. n - 1 : m \in 1 .. N /\ Same(m)
    BY <1>1, <1>9
  <2> PICK T : \E done \in Seq(T) : SoFar(P, n, done) /\ P[n] = Pr!WalkNode(e[n], done, fields)
    BY <1>7
  <2>2. PICK p \in Seq(T) : SoFar(P, n, p) /\ P[n] = Pr!WalkNode(e[n], p, fields)
    OBVIOUS
  <2>3. PICK c \in Seq(B) : SoFar(C, n, c) /\ C[n] = Pr!CelNode(e[n], c, r)
    BY <1>6
  <2>4. PICK m \in Seq(BOOLEAN) : SoFar(M, n, m) /\ M[n] = Pr!MisreadNode(e[n], m)
    BY <1>5
  <2> DEFINE x == e[n]
  <2>5. ASSUME NEW back \in 1 .. n - 1
        PROVE  /\ n - back \in 1 .. n - 1 /\ Len(p) + 1 - back = n - back
               /\ Pr!Kid(p, back) = P[n - back] /\ Pr!Kid(c, back) = C[n - back] /\ Pr!Kid(m, back) = M[n - back]
               /\ C[n - back] \in B /\ S[n - back] \in BOOLEAN
    <3>1. n - back \in 1 .. n - 1 /\ Len(p) + 1 - back = n - back
      BY <2>1, <2>2 DEF SoFar
    <3>2. Pr!Kid(p, back) = P[n - back]
      BY <2>1, <2>2, KidIs
    <3>3. Pr!Kid(c, back) = C[n - back] /\ Pr!Kid(c, back) \in B
      <4> HIDE DEF B
      <4> QED BY <2>1, <2>3, KidIs
    <3>4. Pr!Kid(m, back) = M[n - back]
      <4> DEFINE L == BOOLEAN
      <4>1. m \in Seq(L) /\ SoFar(M, n, m)
        BY <2>4
      <4> HIDE DEF L
      <4> QED BY <2>1, <4>1, KidIs
    <3> QED BY <1>4, <2>1, <3>1, <3>2, <3>3, <3>4
  <2>6. SUFFICES ASSUME P[n] # NotCompilable, ~ M[n], C[n] # Nothing PROVE S[n] = C[n]
    <3>1. Same(n) => \A k \in 1 .. n : Same(k)
      <4>1. \A k \in 1 .. n : k \in 1 .. n - 1 \/ k = n
        BY <2>1
      <4> HIDE DEF Same
      <4> QED BY <2>1, <4>1
    <3>2. Same(n)
      BY <2>6
    <3> HIDE DEF Same
    <3> QED BY <2>1, <3>1, <3>2
  <2>7. S[n] = Pr!SelectsNode(P[n], S, r)
    BY <1>4
  <2>8. ANode(x, n)
    BY <1>1
  <2> HIDE DEF x, Same, H, B
  <2>9. CASE x.node \in {"and", "or"}
    <3> DEFINE at(i) == n - x.of[i]
    <3>1. \A i \in DOMAIN x.of : x.of[i] \in 1 .. n - 1
      BY <2>8, <2>9 DEF ANode
    <3>2. P[n] = Pr!Combined(x.node, p, x.of)
      BY <2>2, <2>9 DEF x, Pr!WalkNode
    <3>3. \A i \in DOMAIN x.of : Pr!Kid(p, x.of[i]) # NotCompilable
      BY <2>6, <3>2 DEF Pr!Combined
    <3>4. P[n] = [op |-> x.node, of |-> [i \in DOMAIN x.of |-> Len(p) + 1 - x.of[i]]]
      BY <3>2, <3>3 DEF Pr!Combined
    <3>5. \A i \in DOMAIN x.of : ~ M[at(i)]
      <4>1. \A i \in DOMAIN x.of : ~ Pr!Kid(m, x.of[i])
        BY <2>4, <2>6, <2>9 DEF x, Pr!MisreadNode
      <4> QED BY <2>5, <3>1, <4>1
    <3>6. \A i \in DOMAIN x.of : P[at(i)] # NotCompilable /\ P[n].of[i] = at(i) /\ at(i) \in 1 .. n - 1
      BY <2>5, <3>1, <3>3, <3>4
    <3>7. P[n].op = x.node /\ DOMAIN P[n].of = DOMAIN x.of
      BY <3>4
    <3>8. \A i \in DOMAIN x.of : C[at(i)] = Nothing \/ S[at(i)] = C[at(i)]
      BY <2>1, <3>5, <3>6 DEF Same
    <3>9. \A i \in DOMAIN x.of : C[at(i)] \in B /\ S[at(i)] \in BOOLEAN /\ C[at(i)] = Pr!Kid(c, x.of[i])
      BY <2>5, <3>1
    <3> DEFINE values == {Pr!Kid(c, x.of[i]) : i \in DOMAIN x.of}
    <3>10. values = {C[at(i)] : i \in DOMAIN x.of}
      BY <3>9
    <3> HIDE DEF values, at
    <3>11. CASE x.node = "and"
      <4>1. S[n] = \A i \in DOMAIN x.of : S[at(i)]
        BY <2>6, <2>7, <3>6, <3>7, <3>11 DEF Pr!SelectsNode
      <4>2. C[n] = Pr!CelJoin(FALSE, values)
        BY <2>3, <3>11 DEF x, values, Pr!CelNode
      <4>3. CASE FALSE \in values
        <5>1. PICK i \in DOMAIN x.of : C[at(i)] = FALSE
          BY <3>10, <4>3
        <5>2. C[n] = FALSE
          BY <4>2, <4>3 DEF Pr!CelJoin
        <5>3. S[at(i)] = FALSE
          BY <2>6, <3>8, <5>1, <5>2
        <5> QED BY <4>1, <5>2, <5>3
      <4>4. CASE FALSE \notin values
        <5>1. Nothing \notin values /\ C[n] = TRUE
          BY <2>6, <4>2, <4>4 DEF Pr!CelJoin
        <5>2. \A i \in DOMAIN x.of : S[at(i)] = TRUE
          BY <3>8, <3>9, <3>10, <4>4, <5>1
        <5> QED BY <4>1, <5>1, <5>2
      <4> QED BY <4>3, <4>4
    <3>12. CASE x.node = "or"
      <4>1. S[n] = \E i \in DOMAIN x.of : S[at(i)]
        BY <2>6, <2>7, <3>6, <3>7, <3>12 DEF Pr!SelectsNode
      <4>2. C[n] = Pr!CelJoin(TRUE, values)
        BY <2>3, <3>12 DEF x, values, Pr!CelNode
      <4>3. CASE TRUE \in values
        <5>1. PICK i \in DOMAIN x.of : C[at(i)] = TRUE
          BY <3>10, <4>3
        <5>2. C[n] = TRUE
          BY <4>2, <4>3 DEF Pr!CelJoin
        <5>3. S[at(i)] = TRUE
          BY <2>6, <3>8, <5>1, <5>2
        <5> QED BY <4>1, <5>2, <5>3
      <4>4. CASE TRUE \notin values
        <5>1. Nothing \notin values /\ C[n] = FALSE
          BY <2>6, <4>2, <4>4 DEF Pr!CelJoin
        <5>2. \A i \in DOMAIN x.of : S[at(i)] = FALSE
          BY <3>8, <3>9, <3>10, <4>4, <5>1
        <5> QED BY <4>1, <5>1, <5>2
      <4> QED BY <4>3, <4>4
    <3> QED BY <2>9, <3>11, <3>12
  <2>10. CASE x.node = "not"
    <3> DEFINE k == n - x.of
    <3>1. x.of \in 1 .. n - 1
      BY <2>8, <2>10 DEF ANode
    <3>2. P[n] = Pr!Combined("not", p, <<x.of>>)
      BY <2>2, <2>10 DEF x, Pr!WalkNode
    <3>3. DOMAIN <<x.of>> = {1} /\ <<x.of>>[1] = x.of
      OBVIOUS
    <3>4. Pr!Kid(p, x.of) # NotCompilable /\ P[n] = [op |-> "not", of |-> [i \in {1} |-> Len(p) + 1 - x.of]]
      BY <2>6, <3>2, <3>3 DEF Pr!Combined
    <3>5. P[n].op = "not" /\ P[n].of[1] = k
      BY <2>5, <3>1, <3>4
    <3>6. ~ M[k]
      BY <2>4, <2>5, <2>6, <2>10, <3>1 DEF x, Pr!MisreadNode
    <3>7. C[k] # Nothing /\ C[n] = ~ C[k]
      BY <2>3, <2>5, <2>6, <2>10, <3>1 DEF x, Pr!CelNode
    <3>8. S[k] = C[k]
      <4>1. k \in 1 .. n - 1 /\ P[k] # NotCompilable
        BY <2>5, <3>1, <3>4
      <4> QED BY <2>1, <3>6, <3>7, <4>1 DEF Same
    <3>9. S[n] = ~ S[k]
      BY <2>6, <2>7, <3>5 DEF Pr!SelectsNode
    <3> QED BY <3>7, <3>8, <3>9
  <2>11. CASE x.node = "paren"
    <3> DEFINE k == n - x.of
    <3>1. x.of \in 1 .. n - 1
      BY <2>8, <2>11 DEF ANode
    <3>2. P[n] = P[k]
      BY <2>2, <2>5, <2>11, <3>1 DEF x, Pr!WalkNode
    <3>3. ~ M[k]
      BY <2>4, <2>5, <2>6, <2>11, <3>1 DEF x, Pr!MisreadNode
    <3>4. C[n] = C[k]
      BY <2>3, <2>5, <2>11, <3>1 DEF x, Pr!CelNode
    <3>5. k \in 1 .. n - 1
      BY <2>5, <3>1
    <3> HIDE DEF k
    <3>6. S[k] = C[k]
      BY <2>1, <2>6, <3>2, <3>3, <3>4, <3>5 DEF Same
    <3>7. S[k] = Pr!SelectsNode(P[k], S, r)
      BY <1>4, <2>1, <3>5
    <3> QED BY <2>7, <3>2, <3>4, <3>6, <3>7
  <2>12. CASE x.node = "cond"
    BY <2>4, <2>6, <2>12 DEF x, Pr!MisreadNode
  <2>13. CASE x.node = "rel"
    <3>1. x.op \in {"eq", "ne", "gt", "ge", "lt", "le", "in"}
      BY <2>8, <2>13 DEF ANode
    <3>2. /\ P[n] = Pr!WalkNode(x, p, fields) /\ C[n] = Pr!CelNode(x, c, r) /\ M[n] = Pr!MisreadNode(x, m)
      BY <2>2, <2>3, <2>4 DEF x
    <3> QED BY <2>6, <2>7, <2>13, <3>1, <3>2, RelationMeansSame
  <2>14. CASE x.node = "call"
    <3>1. P[n] = Pr!WalkNode(x, p, fields) /\ C[n] = Pr!CelNode(x, c, r)
      BY <2>2, <2>3 DEF x
    <3> QED BY <2>6, <2>7, <2>14, <3>1, CallMeansSame
  <2>15. CASE x.node \notin {"and", "or", "not", "paren", "cond", "rel", "call"}
    BY <2>2, <2>6, <2>15 DEF x, Pr!WalkNode
  <2> QED BY <2>9, <2>10, <2>11, <2>12, <2>13, <2>14, <2>15
<1>10. \A n \in 1 .. N : Same(n)
  <2> HIDE DEF H
  <2>1. 0 .. N \subseteq H
    BY <1>1, <1>8, <1>9, UpTo
  <2>2. N \in 0 .. N
    BY <1>1
  <2> HIDE DEF Same
  <2> QED BY <2>1, <2>2 DEF H
<1> QED BY <1>10 DEF N, P, S, C, M

(* Whatever compiles selects the rows that CEL finds, the two misread      *)
(* shapes apart: compile_cel_to_predicate and the storage provider against *)
(* the evaluator in the process.                                           *)
LEMMA CompiledMeansTheSame ==
    ASSUME NEW e, ACondition(e), NEW fields, NEW r, \A f \in DOMAIN r : r[f].type # "uint"
    PROVE  Pr!CompiledMeansSame(e, fields, r)
<1>1. Len(e) \in 1 .. Len(e)
  BY ConditionIs
<1> QED BY <1>1, NodesMeanSame DEF Pr!CompiledMeansSame

(* A compiled condition asks the storage provider about fields of the      *)
(* content only.                                                           *)
LEMMA OnlyFieldsAreAsked ==
    ASSUME NEW e, ACondition(e), NEW fields
    PROVE  Pr!OnlyFieldsAsked(e, fields)
<1> DEFINE P == Pr!Walk(e, fields)
<1>1. Len(e) \in 1 .. Len(e) /\ Len(e) \in Nat
  BY ConditionIs
<1>2. Walked(P, e, fields)
  BY WalkIs
<1> HIDE DEF P
<1>3. Len(P) = Len(e) /\ \A n \in 1 .. Len(P) : P[n] = NotCompilable \/ Combines(P[n], n) \/ Compares(P[n], fields)
  BY <1>2 DEF Walked
<1>4. \A n \in 1 .. Len(P) : Pr!FieldsIn(P)[n] \subseteq fields
  BY <1>1, <1>3, FieldsAre
<1> QED BY <1>1, <1>3, <1>4 DEF P, Pr!OnlyFieldsAsked

-----------------------------------------------------------------------------
(* The decisions: what was proved of each algorithm, for whatever inputs   *)
(* questions are drawn from.                                               *)
LEMMA ListIs ==
    ASSUME NEW s, AList(s)
    PROVE  s \in Seq({s[i] : i \in 1 .. Len(s)}) /\ DOMAIN s = 1 .. Len(s)
<1> DEFINE n == Len(s)
           B == {s[i] : i \in 1 .. n}
           t == [i \in 1 .. n |-> s[i]]
<1>1. n \in Nat /\ s = t
  BY DEF AList
<1>2. ASSUME n \in Nat PROVE t \in Seq(B)
  BY <1>2
<1> QED BY <1>1, <1>2

LEMMA QuestionIs ==
    ASSUME Ask
    PROVE  /\ question'.about = "predicate" => AskPredicate
           /\ question'.about = "redaction" => AskRedaction
           /\ question'.about = "compute" => AskCompute
           /\ question'.about = "reading" => AskReading
           /\ question'.about = "dependents" => AskDependents
           /\ question'.about = "boundaries" => AskBoundaries
           /\ question'.about = "routes" => AskRoutes
           /\ question'.about = "chain" => AskChain
           /\ question'.about = "presentation" => AskPresentation
<1>1. /\ AskPredicate => question'.about = "predicate"
      /\ AskRedaction => question'.about = "redaction"
      /\ AskCompute => question'.about = "compute"
      /\ AskReading => question'.about = "reading"
      /\ AskDependents => question'.about = "dependents"
      /\ AskBoundaries => question'.about = "boundaries"
      /\ AskRoutes => question'.about = "routes"
      /\ AskConversation => question'.about = "conversation"
      /\ AskChain => question'.about = "chain"
      /\ AskPresentation => question'.about = "presentation"
  BY DEF AskPredicate, AskRedaction, AskCompute, AskReading, AskDependents, AskBoundaries,
         AskRoutes, AskConversation, AskChain, AskPresentation
<1> QED BY <1>1 DEF Ask

LEMMA NothingAsked == Unasked => question.about = "nothing"
BY DEF Unasked

(* Whatever the conditions, rows and fields: what compiles is pushed down  *)
(* without changing what it selects.                                       *)
THEOREM PushdownIsSound == Deciding => []PushdownSound
<1>1. Unasked => PushdownSound
  BY NothingAsked DEF PushdownSound
<1>2. ASSUME Ask PROVE PushdownSound'
  <2>1. SUFFICES ASSUME question'.about = "predicate"
        PROVE  /\ Pr!OnlyFieldsAsked(question'.e, Fields)
               /\ \A r \in CelRows : Pr!CompiledMeansSame(question'.e, Fields, r)
    BY DEF PushdownSound
  <2>2. question'.e \in Expressions
    BY <1>2, <2>1, QuestionIs DEF AskPredicate
  <2>3. ACondition(question'.e) /\ \A r \in CelRows : \A f \in DOMAIN r : r[f].type # "uint"
    BY <2>2, ConditionAssumption
  <2> QED BY <2>3, OnlyFieldsAreAsked, CompiledMeansTheSame
<1>3. PushdownSound /\ UNCHANGED question => PushdownSound'
  BY DEF PushdownSound
<1> QED BY <1>1, <1>2, <1>3, PTL DEF Deciding, Asked

(* Whatever the schemas, records, tables, callers and queries: redaction,  *)
(* write access, the taint check, the gates of computes and the reading    *)
(* handlers keep what is confidential.                                     *)
THEOREM ConfidentialityIsKept == Deciding => []ConfidentialityHolds
<1>1. Unasked => ConfidentialityHolds
  BY NothingAsked DEF ConfidentialityHolds
<1>2. ASSUME Ask PROVE ConfidentialityHolds'
  <2>1. ASSUME question'.about = "redaction"
        PROVE  /\ \A s \in Records : R!HidesWhatItHides(question'.r, s, question'.content, question'.caller)
               /\ R!WritesWhatItReads(question'.r, question'.content, question'.caller)
               /\ \A d \in ScopeSets : R!TaintCaught(question'.r, question'.content, question'.caller, d)
    <3>1. question'.r \in Records
      BY <1>2, <2>1, QuestionIs DEF AskRedaction
    <3>2. \A k \in DOMAIN question'.r : question'.r[k].redacted = FALSE
      BY <3>1, RecordAssumption
    <3> QED BY <3>2, RedactionHides, WritesAreReads, TaintIsCaught
  <2>2. R!GateMatchesExit(question'.compute, question'.caller)
    BY DEF R!GateMatchesExit, R!check_compute_access, R!enforce_output_taint
  <2>3. ASSUME question'.about = "reading"
        PROVE  /\ Rg!ListShowsWhatGetShows(question'.app, question'.rows, question'.user)
               /\ Rg!AnswersFromOwnRows(question'.app, question'.rows, question'.user, question'.query)
               /\ Rg!AnswersFromVisibleFields(question'.app, question'.rows, question'.user, question'.query)
    <3>1. question'.app \in ReadApps /\ question'.rows \in Tables
      BY <1>2, <2>3, QuestionIs DEF AskReading
    <3>2. /\ "id" \notin DOMAIN question'.app.content.fields
          /\ ATable(question'.app, question'.rows) /\ Cardinality(question'.rows) <= 1000
      BY <3>1, TableAssumption
    <3> QED BY <3>2, ListShowsWhatGetShows, AnswersFromOwnRows, AnswersFromVisibleFields
  <2> QED BY <2>1, <2>2, <2>3 DEF ConfidentialityHolds
<1>3. ConfidentialityHolds /\ UNCHANGED question => ConfidentialityHolds'
  BY DEF ConfidentialityHolds
<1> QED BY <1>1, <1>2, <1>3, PTL DEF Deciding, Asked

(* Whatever the schemas, bodies and stored rows: creates and PUTs keep the *)
(* When clauses.                                                           *)
THEOREM WhenClausesAreKept == Deciding => []WhenClausesHold
<1>1. Unasked => WhenClausesHold
  BY NothingAsked DEF WhenClausesHold
<1>2. ASSUME Ask PROVE WhenClausesHold'
  <2>1. SUFFICES ASSUME question'.about = "dependents"
        PROVE  /\ Dp!CreatedRowHolds(question'.body, question'.schema)
               /\ Dp!CreateKeepsWhatWasSaid(question'.body, question'.schema)
               /\ \A d \in Stored : Dp!UpdatedRowHolds(d, question'.body, question'.schema)
    BY DEF WhenClausesHold
  <2>2. question'.schema \in ClauseSchemas
    BY <1>2, <2>1, QuestionIs DEF AskDependents
  <2>3. /\ AList(question'.schema.dependent_values)
        /\ \A i \in DOMAIN question'.schema.dependent_values :
              Dp!DependsOn(question'.schema.dependent_values[i]) \subseteq DOMAIN question'.schema.fields
    BY <2>2, ClauseAssumption
  <2>4. PICK X : question'.schema.dependent_values \in Seq(X)
    BY <2>3, ListIs
  <2> QED BY <2>3, <2>4, CreatedRowsHold, CreatesKeepValues, UpdatedRowsHold
<1>3. WhenClausesHold /\ UNCHANGED question => WhenClausesHold'
  BY DEF WhenClausesHold
<1> QED BY <1>1, <1>2, <1>3, PTL DEF Deciding, Asked

(* Whatever the boundaries, contents, computes and callers.                *)
THEOREM BoundariesAreKept == Deciding => []BoundariesHold
<1>1. Unasked => BoundariesHold
  BY NothingAsked DEF BoundariesHold
<1>2. ASSUME Ask PROVE BoundariesHold'
  <2>1. SUFFICES ASSUME question'.about = "boundaries"
        PROVE  /\ \A u \in ScopeSets : Bd!AdmittedByItsBoundary(question'.app, u)
               /\ Bd!DeclaredAccessesWork(question'.app)
    BY DEF BoundariesHold
  <2>2. question'.app \in BoundedApps
    BY <1>2, <2>1, QuestionIs DEF AskBoundaries
  <2>3. AList(question'.app.boundaries) /\ \A x \in DOMAIN question'.app.computes : AList(question'.app.computes[x])
    BY <2>2, BoundaryAssumption
  <2>4. PICK X : question'.app.boundaries \in Seq(X)
    BY <2>3, ListIs
  <2>5. \A u : Bd!AdmittedByItsBoundary(question'.app, u)
    BY <2>4, BoundaryAdmits
  <2> DEFINE accesses == question'.app.computes
             Y == UNION {{accesses[x][i] : i \in 1 .. Len(accesses[x])} : x \in DOMAIN accesses}
  <2>6. ASSUME NEW x \in DOMAIN accesses PROVE accesses[x] \in Seq(Y)
    <3>1. accesses[x] \in Seq({accesses[x][i] : i \in 1 .. Len(accesses[x])})
      BY <2>3, ListIs
    <3>2. {accesses[x][i] : i \in 1 .. Len(accesses[x])} \subseteq Y
      OBVIOUS
    <3> HIDE DEF Y, accesses
    <3> QED BY <3>1, <3>2
  <2>7. Bd!DeclaredAccessesWork(question'.app)
    <3> HIDE DEF Y
    <3> QED BY <2>6, DeclaredAccessIsGranted
  <2> QED BY <2>5, <2>7
<1>3. BoundariesHold /\ UNCHANGED question => BoundariesHold'
  BY DEF BoundariesHold
<1> QED BY <1>1, <1>2, <1>3, PTL DEF Deciding, Asked

(* Whatever the IRs and the requests.                                      *)
THEOREM RoutesAreGuarded == Deciding => []RoutesGuarded
<1>1. Unasked => RoutesGuarded
  BY NothingAsked DEF RoutesGuarded
<1>2. ASSUME Ask PROVE RoutesGuarded'
  <2>1. SUFFICES ASSUME question'.about = "routes"
        PROVE  /\ Rt!Precedence(question'.ir, question'.request)
               /\ Rt!HandledAsDeclared(question'.ir, question'.request)
    BY DEF RoutesGuarded
  <2> DEFINE ir == question'.ir
             acts(n) == ir.channels[n].actions
             Y == UNION {{acts(n)[i] : i \in 1 .. Len(acts(n))} : n \in 1 .. Len(ir.channels)}
  <2>2. question'.ir \in IRs
    BY <1>2, <2>1, QuestionIs DEF AskRoutes
  <2>3. AList(ir.routes) /\ AList(ir.channels) /\ \A n \in DOMAIN ir.channels : AList(acts(n))
    BY <2>2, IRAssumption DEF AnIR
  <2>4. (\E S : ir.routes \in Seq(S)) /\ (\E C : ir.channels \in Seq(C)) /\ DOMAIN ir.channels = 1 .. Len(ir.channels)
    BY <2>3, ListIs
  <2>5. ASSUME NEW n \in 1 .. Len(ir.channels) PROVE acts(n) \in Seq(Y)
    <3>1. acts(n) \in Seq({acts(n)[i] : i \in 1 .. Len(acts(n))})
      BY <2>3, <2>4, ListIs
    <3>2. {acts(n)[i] : i \in 1 .. Len(acts(n))} \subseteq Y
      OBVIOUS
    <3> HIDE DEF Y, acts
    <3> QED BY <3>1, <3>2
  <2>6. Irs(ir)
    <3> HIDE DEF Y
    <3> QED BY <2>4, <2>5 DEF Irs
  <2> QED BY <2>6, RoutesTakePrecedence, RoutesHandleAsDeclared
<1>3. RoutesGuarded /\ UNCHANGED question => RoutesGuarded'
  BY DEF RoutesGuarded
<1> QED BY <1>1, <1>2, <1>3, PTL DEF Deciding, Asked

LEMMA FunctionIs ==
    ASSUME NEW d, AFunction(d), NEW K, NEW V, DOMAIN d \subseteq K, \A k \in DOMAIN d : d[k] \in V
    PROVE  d \in Maps(K, V)
<1>1. d \in [DOMAIN d -> V]
  BY DEF AFunction
<1> QED BY <1>1 DEF Maps

(* A chain of levels has the types that resolve_effective_bindings needs.  *)
LEMMA ChainIs ==
    ASSUME NEW chain, AChain(chain)
    PROVE  \E Vs, Ns, P, K, V : chain \in Seq(LevelsOf(Vs, Ns, BindingsOf(P, K, V)))
<1> DEFINE I == 1 .. Len(chain)
           said(i) == {chain[i].single} \union {chain[i].named[n] : n \in DOMAIN chain[i].named}
           All == UNION {said(i) : i \in I}
           Vs == {chain[i].version : i \in I}
           Ns == UNION {DOMAIN chain[i].named : i \in I}
           P == {b.provider : b \in All}
           K == UNION {DOMAIN b.config : b \in All}
           V == UNION {{b.config[k] : k \in DOMAIN b.config} : b \in All}
<1>1. chain \in Seq({chain[i] : i \in I}) /\ DOMAIN chain = I /\ \A i \in I : ALevel(chain[i])
  BY ListIs DEF AChain
<1>2. ASSUME NEW b \in All, ABinding(b) PROVE b \in BindingsOf(P, K, V)
  <2>1. DOMAIN b.config \subseteq K /\ \A k \in DOMAIN b.config : b.config[k] \in V
    OBVIOUS
  <2>2. b.provider \in P
    OBVIOUS
  <2> HIDE DEF P, K, V, All
  <2>3. b.config \in Maps(K, V)
    BY <1>2, <2>1, FunctionIs DEF ABinding
  <2>4. b = [provider |-> b.provider, config |-> b.config]
    BY <1>2 DEF ABinding
  <2> QED BY <2>2, <2>3, <2>4 DEF BindingsOf
<1>3. ASSUME NEW i \in I PROVE chain[i] \in LevelsOf(Vs, Ns, BindingsOf(P, K, V))
  <2> DEFINE l == chain[i]
  <2>1. /\ l = [version |-> l.version, single |-> l.single, named |-> l.named]
        /\ ABinding(l.single) /\ AFunction(l.named) /\ \A n \in DOMAIN l.named : ABinding(l.named[n])
    BY <1>1 DEF ALevel
  <2>2. l.single \in All /\ \A n \in DOMAIN l.named : l.named[n] \in All
    OBVIOUS
  <2>3. l.version \in Vs /\ DOMAIN l.named \subseteq Ns
    OBVIOUS
  <2> HIDE DEF Vs, Ns, P, K, V, All, l
  <2>4. l.single \in BindingsOf(P, K, V) /\ \A n \in DOMAIN l.named : l.named[n] \in BindingsOf(P, K, V)
    BY <1>2, <2>1, <2>2
  <2>5. l.named \in Maps(Ns, BindingsOf(P, K, V))
    BY <2>1, <2>3, <2>4, FunctionIs
  <2>6. l \in LevelsOf(Vs, Ns, BindingsOf(P, K, V))
    BY <2>1, <2>3, <2>4, <2>5 DEF LevelsOf
  <2> QED BY <2>6 DEF l
<1> HIDE DEF Vs, Ns, P, K, V
<1>4. {chain[i] : i \in I} \subseteq LevelsOf(Vs, Ns, BindingsOf(P, K, V))
  BY <1>3
<1>5. chain \in Seq(LevelsOf(Vs, Ns, BindingsOf(P, K, V)))
  BY <1>1, <1>4
<1> QED BY <1>5

(* Whatever the chains of boundaries, applications and products.           *)
THEOREM BindingsAreResolved == Deciding => []BindingsResolve
<1>1. Unasked => BindingsResolve
  BY NothingAsked DEF BindingsResolve
<1>2. ASSUME Ask PROVE BindingsResolve'
  <2>1. ASSUME question'.about = "chain" PROVE G!LastLevelWins(question'.chain)
    <3>1. AChain(question'.chain)
      BY <1>2, <2>1, QuestionIs, BindingAssumption DEF AskChain
    <3>2. question'.chain # <<>>
      BY <3>1 DEF AChain
    <3> QED BY <3>1, <3>2, ChainIs, LastLevelIsHeard
  <2>2. ASSUME question'.about = "presentation"
        PROVE  /\ G!ByNameBeforeNamespace(question'.app, question'.providers, question'.packages)
               /\ G!BaseIsServed(question'.app, question'.providers, question'.packages)
    <3> DEFINE app == question'.app
               S == {app.nested[i] : i \in 1 .. Len(app.nested)}
               T == {app.flat[i] : i \in 1 .. Len(app.flat)}
    <3>1. ADictionary(app.flat) /\ ADictionary(app.nested)
      BY <1>2, <2>2, QuestionIs, BindingAssumption DEF AskPresentation
    <3>2. app.nested \in Seq(S) /\ app.flat \in Seq(T)
      BY <3>1, ListIs DEF ADictionary
    <3>3. app.nested \in Seq(S \union T) /\ app.flat \in Seq(S \union T)
      <4> HIDE DEF S, T, app
      <4> QED BY <3>2
    <3>4. TwoMaps(app)
      BY <3>1, <3>3 DEF TwoMaps, ADictionary
    <3> QED BY <3>4, NamedContractsAreServed, BaseContractsAreServed
  <2> QED BY <2>1, <2>2 DEF BindingsResolve
<1>3. BindingsResolve /\ UNCHANGED question => BindingsResolve'
  BY DEF BindingsResolve
<1> QED BY <1>1, <1>2, <1>3, PTL DEF Deciding, Asked
=============================================================================
