---------------------------- MODULE MCBackground ----------------------------
(* A scheduler that is filled, started and stopped more than once, and two *)
(* trigger calls: every verdict, with a typed handler that keeps an error  *)
(* and one that lets it go on.                                             *)
EXTENDS Background

MCComputes ==
    {[name |-> "plain",   scope |-> None,  gate |-> None, inputs |-> <<>>],
     [name |-> "summary", scope |-> "run", gate |-> None, inputs |-> <<"notes", "tasks">>],
     [name |-> "secret",  scope |-> "run", gate |-> "see", inputs |-> <<"notes">>],
     [name |-> "vault",   scope |-> None,  gate |-> "see", inputs |-> <<"notes">>]}
Ask(c, scopes, content) == [compute |-> c, scopes |-> scopes, json |-> TRUE, content |-> content]
MCRequests ==
    {Ask("none", {}, None),
     Ask("vault", {}, None), Ask("secret", {"run"}, "notes"), Ask("secret", {"see"}, "tasks"),
     Ask("secret", {"run", "see"}, None),
     Ask("summary", {}, "notes"), Ask("summary", {"run"}, None), Ask("summary", {"run"}, "tasks"),
     Ask("plain", {}, "gone"), [Ask("plain", {}, None) EXCEPT !.json = FALSE]}
MCHandlers ==
    <<[catch_all |-> FALSE, source |-> "secret", condition |-> FALSE, actions |-> <<"notify">>],
      [catch_all |-> FALSE, source |-> "secret", condition |-> None,  actions |-> <<"notify", "disable">>],
      [catch_all |-> TRUE,  source |-> None,     condition |-> TRUE,  actions |-> <<"retry", "escalate">>]>>
=============================================================================
