------------------------------- MODULE MCCrud -------------------------------
(***************************************************************************)
(* Crud on a content type with two machines: `stage` (1), whose table has  *)
(* a scoped, a conditioned and a self transition, and `review` (2), with   *)
(* an unguarded transition and one that runs an entered: assignment.       *)
(***************************************************************************)
EXTENDS Crud, TLC

CONSTANTS t1, t2, t3, ann, bob, d0, d1, d2, noRecord, absent, noScope, noRequest

MCUsers      == {ann, bob}
MCUserScopes == (ann :> {"write", "publish"}) @@ (bob :> {"write"})
MCInitial    == <<"draft", "draft">>
Plain        == [scope |-> noScope, cond |-> FALSE, entered |-> FALSE]
MCGates == <<
    (<<"draft", "live">> :> [Plain EXCEPT !.scope = "publish"]) @@
    (<<"live", "done">>  :> [Plain EXCEPT !.cond = TRUE]) @@
    (<<"live", "live">>  :> Plain),
    (<<"draft", "live">> :> Plain) @@
    (<<"live", "draft">> :> [Plain EXCEPT !.entered = TRUE]) >>

\* d0: nothing special; d1 satisfies conditions; on d2 expressions raise.
MCEntered == (d0 :> d1) @@ (d1 :> d0) @@ (d2 :> d2)
\* When stage is "live", the data field must not be d2.
MCValid == {v \in [Machines -> States] \X Data : v[1][1] = "live" => v[2] # d2}

Body(o, s, d) == [owner |-> o, state |-> s, data |-> d]
NoState == [m \in {} |-> "draft"]
Req(op, u, k, b, m, to) ==
    [op |-> op, user |-> u, key |-> k, body |-> b, machine |-> m, to |-> to]
Empty == Body(absent, NoState, absent)

PutBodies == {
    Empty,
    Body(bob, NoState, d1),
    Body(absent, NoState, d2),
    Body(absent, (1 :> "live") @@ (2 :> "live"), absent),
    Body(absent, (1 :> "done"), d0),
    Body(absent, (1 :> "live") @@ (2 :> "draft"), d2)}

Creates(D)  == {Req("create", u, 1, Body(absent, NoState, d), 0, "draft") :
                  u \in MCUsers, d \in D}
Puts(B, K)  == {Req("update", u, k, b, 0, "draft") : u \in MCUsers, b \in B, k \in K}
Deletes(K)  == {Req("delete", u, k, Empty, 0, "draft") : u \in MCUsers, k \in K}
Moves(K)    == {Req("transition", u, k, Empty, m[1], m[2]) :
                  u \in MCUsers, k \in K,
                  m \in {<<0, "live">>, <<1, "done">>, <<2, "live">>, <<2, "draft">>, <<3, "live">>}}

AllRequests == Creates({d0, d2, absent}) \union Puts(PutBodies, Ids) \union Deletes(Ids) \union Moves(Ids)

\* Requests that meet on one row, for three tasks.
RaceRequests ==
    Creates({d0})
      \union {Req("update", ann, 1, Body(bob, (1 :> "live") @@ (2 :> "live"), d1), 0, "draft"),
              Req("update", bob, 1, Body(absent, NoState, d0), 0, "draft"),
              Req("delete", bob, 1, Empty, 0, "draft"),
              Req("transition", ann, 1, Empty, 1, "live"),
              Req("transition", bob, 1, Empty, 2, "live"),
              Req("transition", bob, 1, Empty, 2, "draft")}

TaskSymmetry == Permutations(Tasks)
=============================================================================
