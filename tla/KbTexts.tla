------------------------------ MODULE KbTexts ------------------------------
(***************************************************************************)
(* A document and its texts: how the fragments of its pages are cut while  *)
(* an index is built (kb/indexing.py calls kb/chunking.py), and how what a *)
(* search has found is extended (kb/retrieval.py calls kb/context.py),     *)
(* whatever has become of the index by then.                               *)
(***************************************************************************)
EXTENDS KbIndex, TextSplitting, SourcesFit

\* Whenever an index is staged: the fragments of a page hold all of its text, each within
\* the limit, and begin in the middle of a word only where the former one had to end there.
StagedKeepsAll == rows # {} => SplitKeepsAll

\* Whenever a search has found its sources: they are extended within the budget, each
\* without gaps, and share no fragment.
FoundIsExtended == search.pc = "found" => SourcesAreExtended

\* No text is lost or given twice on its way from a page to a source.
TextsAreKept == StagedKeepsAll /\ FoundIsExtended

=============================================================================
