---------------------------- MODULE MCMigration -----------------------------
(* One table whose first column goes through every kind of spec, with a    *)
(* second column that comes and goes, and a second table to rename into.   *)
EXTENDS Introspection

PlainSpec ==
    [business_type |-> "whole_number", required |-> FALSE, unique |-> FALSE, has_default |-> FALSE,
     min |-> None, max |-> None, enum_values |-> <<>>, cascade_mode |-> None, foreign_key |-> None]
RequiredSpec  == [PlainSpec EXCEPT !.required = TRUE]
UniqueSpec    == [PlainSpec EXCEPT !.unique = TRUE, !.required = TRUE, !.has_default = TRUE]
NumberSpec    == [PlainSpec EXCEPT !.business_type = "number"]
TextSpec      == [PlainSpec EXCEPT !.business_type = "text"]
BoundedSpecs  == {[PlainSpec EXCEPT !.min = b[1], !.max = b[2]] : b \in {<<1, None>>, <<1, 3>>, <<0, 3>>}}
EnumSpecs     == {[PlainSpec EXCEPT !.business_type = "enum", !.enum_values = e] : e \in {<<"a">>, <<"b", "a">>}}
BooleanSpec   == [PlainSpec EXCEPT !.business_type = "boolean"]
ReferenceSpec == [PlainSpec EXCEPT !.business_type = "reference", !.foreign_key = "notes", !.cascade_mode = "restrict"]
OneToOneSpec  == [ReferenceSpec EXCEPT !.unique = TRUE, !.required = TRUE]

Specs == {PlainSpec, RequiredSpec, UniqueSpec, NumberSpec, TextSpec, BooleanSpec, ReferenceSpec, OneToOneSpec}
            \union BoundedSpecs \union EnumSpecs
Columns == [{"size"} -> Specs] \union {[size |-> s, width |-> PlainSpec] : s \in {PlainSpec, RequiredSpec}}
              \union {[width |-> s] : s \in {PlainSpec, TextSpec}}
MCSchemas == [{"tickets"} -> Columns] \union {[notes |-> [size |-> PlainSpec]]}

NoRenames == [contents |-> <<>>, fields |-> <<>>]
MCRenames ==
    {NoRenames,
     [contents |-> <<[from |-> "tickets", to |-> "notes"]>>, fields |-> <<>>],
     [contents |-> <<>>, fields |-> <<[content |-> "tickets", from |-> "size", to |-> "width"]>>],
     [contents |-> <<[from |-> "tickets", to |-> "notes"], [from |-> "notes", to |-> "tickets"]>>, fields |-> <<>>]}
=============================================================================
