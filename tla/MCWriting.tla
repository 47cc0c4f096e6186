---------------------------- MODULE MCWriting ----------------------------
(* Small instances of Writing: "té", then "t". *)
EXTENDS Writing

MCCards    == <<<<"t", "e'">>, <<"t">>>>
MCVariants == [l \in {"t", "e", "e'"} |-> IF l = "e" THEN {"e'"} ELSE {}]
=============================================================================
