----------------------------- MODULE MCKbIndex -----------------------------
(* Small instances of KbTexts, where fragments and tags are interchangeable. *)
EXTENDS KbTexts, TLC

MCSpots == ({"long document"} \X (1..4)) \union {<<"short document", 1>>}

Symmetry == Permutations(Fragments) \union Permutations(Tags)
=============================================================================
