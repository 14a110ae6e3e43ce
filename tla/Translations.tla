----------------------------- MODULE Translations -----------------------------
(***************************************************************************)
(* Materialize among the decisions: any conversation may be asked about.   *)
(***************************************************************************)
EXTENDS Decisions, Materialize

ASSUME ConversationAssumption ==
    \A l \in Conversations :
        /\ AList(l)
        /\ \A i \in DOMAIN l : l[i].payload = [kind |-> l[i].payload.kind, call |-> l[i].payload.call]

(* The messages of a materialised conversation say what its entries say,   *)
(* in order; their roles alternate; every tool use with an id is answered, *)
(* and never before it is made; and materialising fails on a result that   *)
(* nothing called for, and only then.                                      *)
ConversationTranslates ==
    question.about = "conversation" =>
        /\ SaysWhatWasSaid(question.entries)
        /\ Alternates(question.entries)
        /\ UsesAnswered(question.entries)
        /\ FailsOnOrphanResult(question.entries)
=============================================================================
