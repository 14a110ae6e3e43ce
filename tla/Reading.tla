------------------------------- MODULE Reading --------------------------------
(***************************************************************************)
(* The reading handlers (routing/crud.py: list and get) over the query     *)
(* contract of a storage provider.  An app is one content: [content, see   *)
(* Redaction, machines, owner, the ownership field of its routes or None,  *)
(* admits, the scopes of its boundary, lookup, the column of its keys].  A *)
(* caller is [id, scopes], its id None without auth.  Rows are a set of    *)
(* records with fields as in Redaction, and values are numbers.            *)
(***************************************************************************)
EXTENDS Redaction, Sequences, Functions

SchemaFields(app) == DOMAIN app.content.fields \union {"id", "status"} \union app.machines

(* A query is [offset, limit, sort, filters]; a limit that is no number is *)
(* refused as a negative one is.  QueryOptions has the same bounds.        *)
Malformed(app, q) ==
    \/ q.offset
    \/ q.limit # None /\ q.limit \notin 0 .. 1000
    \/ q.sort # None /\ (q.sort.direction \notin {"asc", "desc"} \/ q.sort.field \notin SchemaFields(app))
    \/ ~ (DOMAIN q.filters \subseteq SchemaFields(app))

(* Without auth there is no owner to filter by.                            *)
OwnerFilter(app, caller, q) ==
    IF app.owner = None \/ caller.id = None THEN {} ELSE {<<app.owner, caller.id>>}

Equations(app, caller, q) ==
    {<<f, q.filters[f]>> : f \in DOMAIN q.filters} \union OwnerFilter(app, caller, q)

(* StorageProvider.query (external): the rows that satisfy the equations,  *)
(* in the order asked for and by id where that leaves it open; those with  *)
(* no value for a field satisfy no equation about it.                      *)
Satisfies(r, equations) == \A e \in equations : e[1] \in DOMAIN r /\ r[e[1]].is = e[2]
Key(r, f) == IF f \in DOMAIN r THEN r[f].is ELSE 0
Before(sort, r, s) ==
    LET first == IF sort = None THEN 0 ELSE Key(r, sort.field) - Key(s, sort.field)
    IN  IF first = 0 THEN r["id"].is < s["id"].is
        ELSE (sort.direction = "asc") <=> (first < 0)
Ordered(found, sort) ==
    CHOOSE s \in Bijection(1 .. Cardinality(found), found) :
        \A i, j \in DOMAIN s : i < j => Before(sort, s[i], s[j])
query(rows, equations, sort, limit) ==
    LET found == {r \in rows : Satisfies(r, equations)}
        size  == IF limit < Cardinality(found) THEN limit ELSE Cardinality(found)
    IN  [i \in 1 .. size |-> Ordered(found, sort)[i]]

(* redact_records.                                                         *)
redact_records(page, content, scopes) == [i \in DOMAIN page |-> redact_record(page[i], content, scopes)]

Refused(status) == [status |-> status, body |-> <<>>]
Shown(page, app, caller) == [status |-> "ok", body |-> redact_records(page, app.content, caller.scopes)]

(* The next_cursor of the page is not in the answer, so nobody has one to  *)
(* send.                                                                   *)
list_content_handler(app, rows, caller, q) ==
    IF ~ (app.admits \subseteq caller.scopes) THEN Refused("forbidden")
    ELSE IF Malformed(app, q) THEN Refused("bad request")
    ELSE Shown(query(rows, Equations(app, caller, q), q.sort, IF q.limit = None THEN 1000 ELSE q.limit),
               app, caller)

(* storage.read by id, a query with limit 1 by any other column.           *)
Looked(app, rows, key) == query(rows, {<<app.lookup, key>>}, None, 1)

Foreign(app, caller, r) ==
    app.owner # None /\ ~ (app.owner \in DOMAIN r /\ r[app.owner].is = caller.id)

get_content_handler(app, rows, caller, key) ==
    LET found == Looked(app, rows, key)
    IN  IF found = <<>> \/ Foreign(app, caller, found[1]) THEN Refused("not found")
        ELSE Shown(found, app, caller)

-----------------------------------------------------------------------------
Everything == [offset |-> FALSE, limit |-> None, sort |-> None, filters |-> <<>>]

(* list and get agree: a caller the list admits is listed the records that *)
(* it can get, as it would get them, and no others.  Without auth a list   *)
(* of owned content shows every row and get none, which is left out.       *)
ListShowsWhatGetShows(app, rows, caller) ==
    app.admits \subseteq caller.scopes /\ (app.owner # None => caller.id # None) =>
        {list_content_handler(app, rows, caller, Everything).body[i] :
            i \in DOMAIN list_content_handler(app, rows, caller, Everything).body}
        = {get_content_handler(app, rows, caller, r[app.lookup].is).body[1] :
            r \in {s \in rows : get_content_handler(app, rows, caller, s[app.lookup].is).status = "ok"}}

Mine(app, rows, caller) == {r \in rows : app.owner = None \/ caller.id = None \/ ~ Foreign(app, caller, r)}

(* Whatever is asked, an answer depends on the caller's own rows only, and *)
(* of these, as long as it does not sort or filter by a field the caller   *)
(* may not see, on what is visible to the caller.                          *)
AnswersFromOwnRows(app, rows, caller, q) ==
    /\ list_content_handler(app, rows, caller, q)
         = list_content_handler(app, Mine(app, rows, caller), caller, q)
    /\ \A r \in rows : LET key == r[app.lookup].is IN
         get_content_handler(app, rows, caller, key)
            = get_content_handler(app, Mine(app, rows, caller), caller, key)
Hidden(app, caller) == {f \in DOMAIN app.content.fields : Lacks(f, app.content, caller.scopes)}
Blank(r, f) == [r EXCEPT ![f].is = 0]
AnswersFromVisibleFields(app, rows, caller, q) ==
    \A f \in Hidden(app, caller) \ ({app.lookup, app.owner} \union DOMAIN q.filters
                                      \union (IF q.sort = None THEN {} ELSE {q.sort.field})) :
        list_content_handler(app, rows, caller, q)
          = list_content_handler(app, {IF f \in DOMAIN r THEN Blank(r, f) ELSE r : r \in rows}, caller, q)
=============================================================================
