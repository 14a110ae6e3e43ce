----------------------------- MODULE Transcript ------------------------------
(***************************************************************************)
(* The two ends of a conversation: the list that appends, PUTs and deletes *)
(* leave in the row (Conversation), and its translation for a model        *)
(* provider (Materialize).                                                 *)
(***************************************************************************)
EXTENDS Conversation, Materialize

ASSUME BodyAssumption == \A p \in Payloads : p = [kind |-> p.kind, call |-> p.call]

(* Every result that has been written names its call and was made after    *)
(* it, which had been written, as an agent does that waits for the answer  *)
(* to an append.                                                           *)
ResultsFollowCalls ==
    \A r \in landed : r.payload.kind = "tool_result" =>
        /\ r.payload.call # NoCall
        /\ \E c \in landed : c.payload = [kind |-> "tool_call", call |-> r.payload.call] /\ c.id < r.id

(* materialize_to_anthropic: a conversation it cannot translate is a       *)
(* server-side error for good.  When every result is appended after its    *)
(* call only an overlap, which loses the call, leaves such a conversation. *)
BrokenOnlyByOverlap ==
    alive /\ ResultsFollowCalls /\ overwritten = {} => ~ Materialized(Entries(field)).failed
=============================================================================
