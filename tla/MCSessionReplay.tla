--------------------------- MODULE MCSessionReplay ---------------------------
(* Instances of SessionReplay: two small graphs. *)
EXTENDS SessionReplay

\* Two parallel branches and the event that joins them.
Join == [e \in {"a", "b", "c"} |-> IF e = "c" THEN {"a", "b"} ELSE {}]

\* A conversation of two turns.
Chain == [e \in {"a", "b"} |-> IF e = "b" THEN {"a"} ELSE {}]

\* Every placement of the sessions on the workers but for the names of the workers:
\* the first session is replayed by one of them, and so would one be that cannot be
\* built.
Someone == CHOOSE w \in Workers : TRUE
LiveInit == Init /\ \A s \in {1} \cup Unbuildable : home[s] = Someone
LiveSpec == LiveInit /\ [][Next]_vars /\ Fairness
=============================================================================
