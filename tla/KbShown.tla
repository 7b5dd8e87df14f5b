------------------------------ MODULE KbShown ------------------------------
(***************************************************************************)
(* What replacing the index of a document promises to a search that looks   *)
(* at Qdrant and at the database at one moment: it finds all fragments of   *)
(* the current index or, while the document is not open to search, none.    *)
(* The index is replaced by a new one in a single step.                     *)
(***************************************************************************)
CONSTANT Fragments   \* identifiers of fragments, never given out twice

VARIABLES
    index,   \* the fragments of the current index
    shown    \* those of them that are found

vars == <<index, shown>>

Init == index = {} /\ shown = {}

Replace(new) ==
    /\ new # {}
    /\ new \intersect index = {}
    /\ index' = new
    /\ shown' = new

(* The document goes back to the queue, into error or is deleted. *)
Hide == shown' = {} /\ UNCHANGED index

Erase == index' = {} /\ shown' = {}

Next == (\E new \in SUBSET Fragments : Replace(new)) \/ Hide \/ Erase

Spec == Init /\ [][Next]_vars
=============================================================================
