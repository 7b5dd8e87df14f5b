-------------------------- MODULE MCDialogAnswers --------------------------
(* DialogAnswers on small sets, and the history given to the model in short dialogs.       *)
EXTENDS DialogHistory, TLC

\* A budget that is used up before the history, and others.
MCLimits == {-1, 0, 2, 4}

Symmetry == Permutations(Answers) \union Permutations(Requests)
=============================================================================
