--------------------------- MODULE MCCodeProject ---------------------------
EXTENDS CodeProject, TLC

CONSTANTS P1, P2, C1, C2

\* One path has two contents, the other one.
MCTexts == [path : {P1}, content : {C1, C2}] \union [path : {P2}, content : {C1}]

\* One is a folder of the other.
MCClashing == {<<P2, P1>>}

SecondEdit ==
    \A a \in Answers : edit[a] # None \/ (assistant # None /\ assistant.answer = a)

Building == archive # None \/ \E b \in Builds : builds[b] # None

\* Bounds: a second edit is formed or decided only while nothing is built and the project
\* has changed once at most; the third number is seen by builds of the button while the last
\* answer has no edit, the last one without builds.
EditsOrBuilds ==
    /\ SecondEdit => ~Building /\ (project = None \/ project <= 2)
    /\ Building /\ project # None =>
         project <= 2 \/ (project = 3 /\ assistant = None /\ last = None)

Symmetry == Permutations(FileIds) \union Permutations(Answers) \union Permutations(Builds)
=============================================================================
