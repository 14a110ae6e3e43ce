--------------------------- MODULE MCConversation ---------------------------
(* An agent's tool call and its result and what others append meanwhile,   *)
(* by two users, the list they leave being materialised for a provider.    *)
EXTENDS Transcript

CONSTANTS a1, a2, a3, ann, bob, c1

Requests == {[kind |-> k, call |-> c1] : k \in {"tool_call", "tool_result"}}

AppendSymmetry == Permutations(Appenders) \union Permutations(Users)
=============================================================================
