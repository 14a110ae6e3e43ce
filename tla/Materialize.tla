---------------------------- MODULE Materialize -----------------------------
(***************************************************************************)
(* materialize_to_anthropic (compute/materialize.py): a conversation's     *)
(* entries become messages of alternating roles for a model provider.      *)
(* Entries carry [kind, call]: the kind and the tool_call_id, NoCall when  *)
(* there is none.  A block refers to the entry it is made from.            *)
(***************************************************************************)
EXTENDS Naturals, Sequences, SequencesExt

CONSTANT NoCall

AssistantKinds == {"agent", "assistant", "tool_call"}
EntryRole(kind) == IF kind \in AssistantKinds THEN "assistant" ELSE "user"

(* Attachments ride with the text of a user entry and are left out.        *)
BlockType(kind) ==
    CASE kind = "tool_call"   -> "tool_use"
      [] kind = "tool_result" -> "tool_result"
      [] OTHER                -> "text"
Blocks(e) == <<[type |-> BlockType(e.payload.kind), call |-> e.payload.call, of |-> e.id]>>

MatchedCalls(entries) ==
    {entries[i].payload.call : i \in {j \in DOMAIN entries : entries[j].payload.kind = "tool_result"}} \ {NoCall}

(* Fault: calls without a result are kept.                                 *)
KeepsOrphan(e, matched) == FALSE

OrphanCall(e, matched) ==
    e.payload.kind = "tool_call" /\ e.payload.call # NoCall /\ e.payload.call \notin matched

(* Fault: a result without an id passes.                                   *)
PassesUnnamed(e, seen) ==
    e.payload.kind = "tool_result" /\ e.payload.call # NoCall /\ e.payload.call \notin seen

UnknownResult(e, seen) ==
    e.payload.kind = "tool_result" /\ (e.payload.call = NoCall \/ e.payload.call \notin seen)

(* Fault: every entry opens a message.                                     *)
NewMessage(messages, e) ==
    Append(messages, [role |-> EntryRole(e.payload.kind), content |-> Blocks(e)])

(* Fault: merging replaces what the message said before.                   *)
MergedOver(messages, e) ==
    LET role == EntryRole(e.payload.kind) IN
    IF messages # <<>> /\ Last(messages).role = role
    THEN [messages EXCEPT ![Len(messages)].content = Blocks(e)]
    ELSE Append(messages, [role |-> role, content |-> Blocks(e)])

Merged(messages, e) ==
    LET role == EntryRole(e.payload.kind) IN
    IF messages # <<>> /\ Last(messages).role = role
    THEN [messages EXCEPT ![Len(messages)].content = @ \o Blocks(e)]
    ELSE Append(messages, [role |-> role, content |-> Blocks(e)])

Seen(seen, e) ==
    IF e.payload.kind = "tool_call" /\ e.payload.call # NoCall THEN seen \union {e.payload.call} ELSE seen

(* The second pass, one entry; it stops at the first unknown result.       *)
Take(acc, e, matched) ==
    IF acc.failed \/ OrphanCall(e, matched) THEN acc
    ELSE IF UnknownResult(e, acc.seen) THEN [acc EXCEPT !.failed = TRUE]
    ELSE [failed |-> FALSE, seen |-> Seen(acc.seen, e), messages |-> Merged(acc.messages, e)]

Start == [failed |-> FALSE, seen |-> {}, messages |-> <<>>]

(* What the second pass has made of the first n entries.                   *)
Pass(entries) ==
    LET pass[n \in 0 .. Len(entries)] ==
            IF n = 0 THEN Start ELSE Take(pass[n - 1], entries[n], MatchedCalls(entries))
    IN  pass

Materialized(entries) == Pass(entries)[Len(entries)]

-----------------------------------------------------------------------------
(* What it promises, stated without the two passes.                        *)
Said(m) == FlattenSeq([i \in DOMAIN m.messages |-> m.messages[i].content])

Answered(entries, i) ==
    \E j \in DOMAIN entries : entries[j].payload = [kind |-> "tool_result", call |-> entries[i].payload.call]
Kept(entries, i) ==
    entries[i].payload.kind = "tool_call" /\ entries[i].payload.call # NoCall => Answered(entries, i)

(* The messages say what the entries say, in their order, each once; only  *)
(* tool calls that nothing answers are left out.                           *)
SaysWhatWasSaid(entries) ==
    LET m == Materialized(entries)
    IN  ~ m.failed =>
          Said(m) = FlattenSeq([i \in DOMAIN entries |->
                                   IF Kept(entries, i) THEN Blocks(entries[i]) ELSE <<>>])

(* The provider requires alternating roles.                                *)
Alternates(entries) ==
    LET m == Materialized(entries).messages
    IN  \A i \in 1 .. Len(m) - 1 : m[i].role # m[i + 1].role

(* The provider rejects a tool use that is not answered: each one with an  *)
(* id has a result, and each result comes after its use.                   *)
UsesAnswered(entries) ==
    LET m == Materialized(entries)
        said == Said(m)
        uses == {i \in DOMAIN said : said[i].type = "tool_use" /\ said[i].call # NoCall}
        results == {i \in DOMAIN said : said[i].type = "tool_result"}
    IN  ~ m.failed =>
            /\ \A u \in uses : \E r \in results : said[r].call = said[u].call
            /\ \A r \in results : \E u \in uses : u < r /\ said[u].call = said[r].call

(* It fails on a result that no earlier call explains, and on nothing else.*)
FailsOnOrphanResult(entries) ==
    Materialized(entries).failed <=>
        \E i \in DOMAIN entries :
            /\ entries[i].payload.kind = "tool_result"
            /\ entries[i].payload.call = NoCall \/
               ~ \E j \in 1 .. i - 1 : entries[j].payload = [kind |-> "tool_call", call |-> entries[i].payload.call]
=============================================================================
