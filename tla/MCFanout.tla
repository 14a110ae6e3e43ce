------------------------------ MODULE MCFanout ------------------------------
(* Small instances of Fanout: who owns and who is who, and the topics.     *)
EXTENDS Fanout

CONSTANTS
    c1, c2, c3,                     \* connections
    r1,                             \* rows
    alice, bob,                     \* principals
    content, notes,                 \* topics: "content", "content.notes"
    updated, appended               \* channels: content.notes.updated, ...

(* Two browsers of the owner, and one of somebody else.                    *)
MCOwnerOf == [r \in {r1} |-> alice]
MCPrincipalOf == [c \in {c1, c2, c3} |-> IF c = c3 THEN bob ELSE alice]

MCMatching == {<<content, updated>>, <<content, appended>>, <<notes, updated>>,
               <<notes, appended>>} \intersect (Patterns \X Channels)
=============================================================================
