----------------------------- MODULE MCDecisions -----------------------------
(***************************************************************************)
(* The decisions, over all small inputs.                                   *)
(***************************************************************************)
EXTENDS Translations, TLC

MCBaseContracts == {"text", "form"}

ListsOf(S, n) == UNION {[1 .. k -> S] : k \in 0 .. n}
SomeOf(S, V) == UNION {[D -> V] : D \in SUBSET S}

-----------------------------------------------------------------------------
(* CEL: two fields, a name that is none, every node of the grammar; two    *)
(* levels of connectives.                                                  *)
MCFields == {"size", "name"}
Ident(n) == [node |-> "ident", name |-> n]
Lit(t, n) == [node |-> "literal", value |-> [type |-> t, is |-> n]]
Rel(op, l, r) == <<[node |-> "rel", op |-> op, left |-> l, right |-> r]>>
HasText(e, args) == <<[node |-> "call", method |-> "contains", target |-> e, args |-> args]>>

Literals == {Lit("int", 1), Lit("int", 2), Lit("uint", 1), Lit("string", 1), Lit("string", 2), Lit("null", 0)}
Lists == {[node |-> "list", items |-> l] : l \in ListsOf({Lit("int", 1), Lit("uint", 2), Ident("name")}, 2)}
Lefts == {Ident("size"), Ident("name"), Ident("user"), Lit("int", 1), [node |-> "dot"], [node |-> "paren"]}
Atoms == {Rel(op, l, r) : op \in {"eq", "ne", "gt", "ge", "lt", "le"}, l \in Lefts,
                          r \in Literals \union {Ident("name"), [node |-> "neg"]}}
            \union {Rel("in", l, r) : l \in Lefts, r \in Lists}
            \union {HasText(l, a) : l \in Lefts, a \in ListsOf(Literals, 2) \ {<<>>}}
            \union {<<[node |-> "sum"]>>, <<Ident("size")>>, <<Lit("bool", 1)>>}
Some == {Rel("eq", Ident("size"), Lit("int", 1)), Rel("ge", Ident("size"), Lit("int", 2)),
         Rel("lt", Ident("size"), Lit("null", 0)), Rel("ne", Ident("name"), Lit("string", 2)),
         HasText(Ident("name"), <<Lit("string", 2)>>), <<Ident("size")>>}
Ends == {Rel("eq", Ident("size"), Lit("int", 2)), <<Ident("size")>>}
Of(n, e) == Append(e, [node |-> n, of |-> 1])
Both(n, e, f) == e \o f \o <<[node |-> n, of |-> <<Len(f) + 1, 1>>]>>
Cond(c, t, e) == c \o t \o e \o <<[node |-> "cond", if |-> Len(t) + Len(e) + 1, then |-> Len(e) + 1, else |-> 1]>>
Nest(E) == {Of(n, e) : n \in {"not", "paren"}, e \in E}
             \union {Both(n, e, f) : n \in {"and", "or"}, e \in E, f \in E}
             \union {Cond(c, t, e) : c \in Some, t \in Ends, e \in Ends}
MCExpressions == Atoms \union Nest(Some) \union {Of("not", e) : e \in Nest(Some)}
                   \union {Both(n, e, f) : n \in {"and", "or"}, e \in Nest(Some), f \in Some}
Sizes == {[type |-> "int", is |-> 1], [type |-> "int", is |-> 2], Pr!Null}
MCCelRows == {[size |-> s, name |-> [type |-> "string", is |-> n]] : s \in Sizes, n \in 1 .. 2}

-----------------------------------------------------------------------------
(* Confidentiality: two fields, two scopes; values, null and absence.      *)
MCScopeSets == SUBSET {1, 2}
MCContents == [scopes : {{}, {1}}, fields : [{"a", "b"} -> [scopes : MCScopeSets, type : {"text"}]]]
Values == {[redacted |-> FALSE, is |-> v] : v \in {1, 2, Nothing}}
MCRecords == SomeOf({"a", "b"}, Values)
MCComputes == [mode : {"delegate", "service"}, required : MCScopeSets, output : {Nothing, 1}]

(* Reading: up to two rows, owned or not, one confidential field, which may*)
(* be absent; limits, sorts and filters, well formed and not.              *)
Number(n) == [redacted |-> FALSE, is |-> n]
Row(i, o, v) == [id |-> Number(i), ref |-> Number(3 - i), owner |-> Number(o)]
                  @@ (IF v = 0 THEN <<>> ELSE [size |-> Number(v)])
MCTables == {{Row(i, t[i][1], t[i][2]) : i \in DOMAIN t} : t \in SomeOf({1, 2}, (1 .. 2) \X (0 .. 2))}
Visible(s) == [scopes |-> s, type |-> "text"]
MCReadApps == [content : {[scopes |-> {}, fields |-> [ref |-> Visible({}), owner |-> Visible({}), size |-> Visible({1})]]},
               machines : {{"life"}}, owner : {Nothing, "owner"}, admits : {{}, {2}}, lookup : {"id", "ref"}]
MCCallers == {[id |-> 1, scopes |-> {}], [id |-> 1, scopes |-> {1}], [id |-> 2, scopes |-> {1, 2}],
              [id |-> Nothing, scopes |-> {}]}
By(f, d) == [field |-> f, direction |-> d]
MCQueries == [offset : {FALSE}, limit : {Nothing, 0, 1}, sort : {Nothing, By("size", "asc"), By("size", "desc")},
              filters : {<<>>, [size |-> 1], [owner |-> 2]}]
             \union {[Rg!Everything EXCEPT !.offset = TRUE], [Rg!Everything EXCEPT !.limit = 1001],
                     [Rg!Everything EXCEPT !.limit = -1], [Rg!Everything EXCEPT !.sort = By("size", "up")],
                     [Rg!Everything EXCEPT !.filters = [ghost |-> 1]]}

-----------------------------------------------------------------------------
(* When clauses: up to two, on two fields, of every kind; bounds, a list   *)
(* of choices and a default on one of the fields; numbers, their texts,    *)
(* "" and null.                                                            *)
Plain == [one_of |-> Nothing, enum |-> Nothing, minimum |-> Nothing, maximum |-> Nothing, default |-> Nothing]
FieldDefs == {Plain, [Plain EXCEPT !.one_of = <<Dp!Number(1)>>], [Plain EXCEPT !.maximum = 1],
              [Plain EXCEPT !.minimum = 2], [Plain EXCEPT !.enum = <<Dp!Number(1)>>],
              [Plain EXCEPT !.default = Dp!Number(2)]}
Clauses == [when : {Nothing, [field |-> "kind", is |-> Dp!Number(1)], [field |-> "kind", is |-> Dp!Empty]},
            field : {"kind", "size"},
            constraint : {"one_of", "equals", "default"}, values : {<<Dp!Number(1)>>, <<Dp!Number(2)>>}]
MCClauseSchemas == [fields : {[kind |-> Plain, size |-> f] : f \in FieldDefs}, dependent_values : ListsOf(Clauses, 2)]
Data(V) == SomeOf({"kind", "size"}, V)
MCStored == Data({Dp!Number(1), Dp!Number(2), Dp!Empty})
Sent == Data({Dp!Number(1), Dp!Number(2), Dp!Text(1), Dp!Empty, Dp!Null})
MCBodies == Sent \union {[d EXCEPT !["kind"] = Dp!Number(1)] @@ [other |-> Dp!Number(1)] :
                       d \in {d \in Sent : DOMAIN d = {"kind"}}}

-----------------------------------------------------------------------------
(* Boundaries: up to two, over two contents, overlapping or not.           *)
BoundarySpecs == [contains : SUBSET {"c", "d"}, mode : {"restrict", "inherit"}, scopes : MCScopeSets]
MCBoundedApps == [boundaries : ListsOf(BoundarySpecs, 2), content : {{"c", "d"}},
                  computes : {[x |-> a] : a \in ListsOf({"c", "d", "e"}, 2)}]

-----------------------------------------------------------------------------
(* Routes: two contents, parameters that overlap names, a kind that is not *)
(* known, a channel.                                                       *)
Route(k, m, p, s, c) == [kind |-> k, method |-> m, path |-> p, scope |-> s, content |-> c]
IrRoutes ==
    {Route("LIST", "GET", <<Rt!Name("c")>>, Nothing, "c"),
     Route("CREATE", "POST", <<Rt!Name("c")>>, "write", "c"),
     Route("GET_ONE", "GET", <<Rt!Name("c"), Rt!Param("key")>>, "read", "c"),
     Route("LIST", "GET", <<Rt!Name("c"), Rt!Name("d")>>, Nothing, "d"),
     Route("UPDATE", "PUT", <<Rt!Param("any"), Rt!Param("key")>>, "write", "d"),
     Route("APPEND", "POST", <<Rt!Name("_channels"), Rt!Name("ch"), Rt!Param("field")>>, "write", "d"),
     Route("OTHER", "GET", <<Rt!Name("d")>>, Nothing, "d")}
IrChannels == {<<>>, <<[snake |-> "ch", actions |-> <<"go">>, direction |-> "inbound"]>>,
               <<[snake |-> "ch", actions |-> <<"webhook">>, direction |-> "INBOUND"]>>}
MCRequests == [method : {"GET", "POST", "PUT"}, auth : {Nothing, {}, {"read"}, {"write"}},
               path : {<<"c">>, <<"d">>, <<"c", "d">>, <<"c", "1">>, <<"_channels", "ch", "send">>,
                       <<"_channels", "ch", "go">>, <<"_channels", "ch", "webhook">>}]

MCIRs == [routes : ListsOf(IrRoutes, 3), channels : IrChannels]

-----------------------------------------------------------------------------
(* Conversations of up to four entries, and two tool calls.                *)
Shapes == {[kind |-> k, call |-> Nothing] : k \in {"user", "agent", "tool_call", "tool_result"}}
            \union [kind : {"tool_call", "tool_result"}, call : {1, 2}]
MCConversations == {[i \in DOMAIN l |-> [id |-> i, payload |-> l[i]]] : l \in ListsOf(Shapes, 4)}

-----------------------------------------------------------------------------
(* Chains of up to three levels that bind one name, with two settings;     *)
(* presentation bindings by name and by namespace, in both places.         *)
Named == {<<>>} \union {[a |-> b] : b \in [provider : {"p", "q"}, config : SomeOf({"k", "l"}, {1, 2})]}
Levels == {[version |-> v, single |-> [provider |-> "s", config |-> <<>>], named |-> n] : v \in {1}, n \in Named}
MCChains == UNION {[1 .. n -> Levels] : n \in 1 .. 3}

Keys == {<<"presentation-base">>, <<"presentation-base", "text">>, <<"orbs">>, <<"orbs", "big">>}
Bindings == [key : Keys, provider : {"tailwind", "sphere", "gone"}, config : {Nothing}]
BindingLists == {l \in ListsOf(Bindings, 2) : \A i, j \in DOMAIN l : l[i].key = l[j].key => i = j}
MCBoundApps == [flat : BindingLists, nested : {l \in BindingLists : Len(l) < 2}]
MCProducts == {[tailwind |-> {}, sphere |-> {<<"orbs", "big">>, <<"orbs", "small">>}], [sphere |-> {<<"orbs", "big">>}]}
MCPackages == {<<>>, [orbs |-> {"big", "huge"}]}
=============================================================================
