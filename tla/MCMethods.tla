------------------------------ MODULE MCMethods ------------------------------
(* Small instances of Methods. *)
EXTENDS Methods, TLC

CONSTANTS t1, t2, a, b

MCTasks == {t1, t2}
MCItems == {a, b}
Symmetry == Permutations(MCTasks)
AllKinds == {"guild", "channel", "thread", "stage", "role", "member", "emoji", "sticker",
             "message", "event", "voice", "presence", "user"}

\* Two tasks race for one channel, which has the most methods, and for one role.  Of a guild,
\* a role and a member there is one, which changes twice; of other kinds there is one object,
\* or two of which one is evicted, and one change.
Racing == {"channel", "role"}
Twice == {"guild", "role", "member"}
MCObjects == [k \in AllKinds |-> IF k \in Racing \cup Twice \cup {"message"} THEN 1 ELSE 2]
MCChanges == [k \in AllKinds |-> IF k \in Twice THEN 2 ELSE 1]
MCLists == [k \in AllKinds |-> CASE k = "guild" -> {{}, {a}, {b}}
                              [] k \in {"channel", "member", "emoji", "sticker"} -> {{a}}
                              [] OTHER -> {{}, {a}}]
MCCalls == [k \in AllKinds |-> IF k \in Racing THEN 2 ELSE 1]
=============================================================================
