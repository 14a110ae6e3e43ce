--------------------------- MODULE Introspection ----------------------------
(***************************************************************************)
(* introspect_sqlite_schema (migrations/introspect.py): without stored     *)
(* metadata the schemas are read back from the tables a v0.8 release made. *)
(* A table maps column names to what SQLite says of each.                  *)
(***************************************************************************)
EXTENDS Migration

BusinessType == [TEXT |-> "text", INTEGER |-> "whole_number", REAL |-> "number", TIMESTAMP |-> "datetime"]

(* Fault: a constraint without an ON DELETE clause counts as restrict.     *)
RestrictByDefault(on_delete) == IF on_delete = "CASCADE" THEN "cascade" ELSE "restrict"

CascadeMode(on_delete) ==
    CASE on_delete = "CASCADE"  -> "cascade"
      [] on_delete = "RESTRICT" -> "restrict"
      [] OTHER                  -> None

(* Bounds and enum values live in CHECK clauses, which are not parsed.     *)
IntrospectedField(col) ==
    LET reference == col.references # None IN
    [business_type |-> IF reference THEN "reference" ELSE BusinessType[col.type],
     required      |-> col.notnull,
     unique        |-> ~ reference /\ col.unique,
     has_default   |-> ~ reference /\ col.has_default,
     min |-> None, max |-> None, enum_values |-> <<>>,
     cascade_mode  |-> IF reference THEN CascadeMode(col.on_delete) ELSE None,
     foreign_key   |-> col.references]

(* The primary key is implicit.                                            *)
Introspected(table) == [f \in {g \in DOMAIN table : ~ (g = "id" /\ table[g].pk)} |-> IntrospectedField(table[f])]

-----------------------------------------------------------------------------
(* The column v0.8 made for a field: booleans as INTEGER, enums as TEXT    *)
(* and no ON DELETE clause.                                                *)
SqlType(type) ==
    CASE type \in {"whole_number", "boolean", "reference"} -> "INTEGER"
      [] type = "number"   -> "REAL"
      [] type = "datetime" -> "TIMESTAMP"
      [] OTHER             -> "TEXT"
V8Column(spec) ==
    [type |-> SqlType(spec.business_type), notnull |-> spec.required, has_default |-> spec.has_default,
     pk |-> FALSE, unique |-> spec.unique, references |-> spec.foreign_key, on_delete |-> "NO ACTION"]
V8Table(fields) ==
    [f \in DOMAIN fields \union {"id"} |->
        IF f \in DOMAIN fields THEN V8Column(fields[f])
        ELSE [type |-> "INTEGER", notnull |-> FALSE, has_default |-> FALSE, pk |-> TRUE, unique |-> FALSE,
              references |-> None, on_delete |-> "NO ACTION"]]

-----------------------------------------------------------------------------
(* A field of a type SQLite tells apart from the others, a reference being *)
(* one by its foreign key.                                                 *)
ToldApart(spec) ==
    /\ spec.business_type \in {"text", "whole_number", "number", "datetime", "reference"}
    /\ spec.business_type = "reference" <=> spec.foreign_key # None
    /\ spec.enum_values = <<>>

(* introspect.py: booting an unchanged IR on a v0.8 database finds no more *)
(* than what v0.8 did not record, and has each acknowledged as a high      *)
(* risk: bounds, and of a reference its cascade mode and that it is        *)
(* unique; types SQLite does not tell apart are left out.                  *)
IntrospectionAgrees ==
    \A c \in DOMAIN target :
        LET seen == Introspected(V8Table(target[c])) IN
        /\ DOMAIN seen = DOMAIN target[c]
        /\ \A f \in DOMAIN seen : LET spec == target[c][f] IN
              ToldApart(spec) =>
                  {<<d.kind, FieldTier(d)>> : d \in FieldAspects(f, seen[f], spec)} =
                      When(spec.cascade_mode # None, <<"cascade_mode_changed", "high">>)
                      \union When(<<spec.min, spec.max>> # <<None, None>>, <<"bounds_changed", "high">>)
                      \union When(spec.foreign_key # None /\ spec.unique, <<"unique_added", "high">>)
=============================================================================
