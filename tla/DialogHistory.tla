--------------------------- MODULE DialogHistory ---------------------------
(***************************************************************************)
(* A dialog and the history its answers are formed from: what is given to  *)
(* the model while an answer is produced (dialogs/generation.py calls      *)
(* dialogs/context.py), whatever the dialog has come to by then.           *)
(***************************************************************************)
EXTENDS DialogAnswers, HistoryFit

Producing == \E a \in Answers : task[a] # None /\ task[a].pc = "produce"

\* Whenever an answer is formed: the model is given the longest end of the history that
\* fits, by its own sums, and after a refusal at most half of it, which fits too.
LongestEndIsGiven == Producing => FitIsLargest

\* Whenever an answer is formed, whatever is dropped, excluded, summarised or empty: an
\* answer is given with its question, and what is summarised leaves the last questions.
PairsAreGivenWhole == Producing => PairsStayWhole

\* The history given is as long as it may be, and of whole pairs.
HistoryIsGivenWhole == LongestEndIsGiven /\ PairsAreGivenWhole

=============================================================================
