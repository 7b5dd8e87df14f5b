----------------------------- MODULE SourcesFit -----------------------------
(***************************************************************************)
(* From the fragments a search has ranked to the texts given to the model  *)
(* (kb/context.py).  Pure functions.  A fragment is known by its place:    *)
(* its document and its number in it.  Sizes are in tokens, and the title  *)
(* line of a source is one.                                                *)
(***************************************************************************)
EXTENDS Integers, Sequences
Order == INSTANCE FiniteSetsExt
Lists == INSTANCE SequencesExt

CONSTANTS
    Spots,      \* pairs of a document and a number
    Found,      \* a search finds up to this number of fragments
    Distances,  \* values of kb.search.neighbors
    Remainders  \* what the rules leave of kb.context_max_tokens

ASSUME SpotsAssumption == \A spot \in Spots : spot \in {spot[1]} \X Nat
ASSUME NumbersAssumption == {Found} \union Distances \subseteq Nat

\* What is in a place: a text, a longer one, a picture, nothing the user may see.
Contents == [Spots -> {"text", "long", "image", "none"}]
Size(content, spot) == IF content[spot] = "long" THEN 2 ELSE 1
IsText(content, spot) == spot \in Spots /\ content[spot] \in {"text", "long"}

\* The size of the block: each source with the texts that extend it.
Tokens(content, runs) ==
    LET Texts(run) ==
          Lists!FoldLeft(LAMBDA sum, spot : sum + Size(content, spot), 0, Lists!SetToSeq(run))
    IN  Lists!FoldLeft(LAMBDA sum, run : sum + 1 + Texts(run), 0, runs)

Fits(content, runs, budget) == Tokens(content, runs) <= budget

Alone(sources) == [n \in DOMAIN sources |-> {sources[n]}]

\* The sources: the first that does not fit ends the list.
FitSources(content, found, budget) ==
    SubSeq(found, 1, Order!Max({n \in 0..Len(found) :
        \A m \in 1..n : Fits(content, Alone(SubSeq(found, 1, m)), budget)}))

\* Nearer neighbours before farther, the one before first.
Attempt(n, k) == [n |-> n, step |-> (k + 1) \div 2, side |-> IF k % 2 = 1 THEN -1 ELSE 1]

Neighbor(sources, a) == <<sources[a.n][1], sources[a.n][2] + a.side * a.step>>

\* Mutated form: what was added to one source may be added to another.
ExtendUntaken(content, sources, budget, state, a) ==
    LET spot == Neighbor(sources, a)
        runs == [state.runs EXCEPT ![a.n] = @ \union {spot}]
    IN  IF state.full \/ <<a.n, a.side>> \in state.closed THEN state
        ELSE IF spot \in state.taken \/ ~IsText(content, spot)
             THEN [state EXCEPT !.closed = @ \union {<<a.n, a.side>>}]
        ELSE IF ~Fits(content, runs, budget) THEN [state EXCEPT !.full = TRUE]
        ELSE [state EXCEPT !.runs = runs]

\* One neighbour: a place that is taken or has no text closes its side, and the first that
\* does not fit ends it all.
Extend(content, sources, budget, state, a) ==
    LET spot == Neighbor(sources, a)
        runs == [state.runs EXCEPT ![a.n] = @ \union {spot}]
    IN  IF state.full \/ <<a.n, a.side>> \in state.closed THEN state
        ELSE IF spot \in state.taken \/ ~IsText(content, spot)
             THEN [state EXCEPT !.closed = @ \union {<<a.n, a.side>>}]
        ELSE IF ~Fits(content, runs, budget) THEN [state EXCEPT !.full = TRUE]
        ELSE [state EXCEPT !.runs = runs, !.taken = @ \union {spot}]

Around(content, sources, distance, budget, former, n) ==
    LET state[k \in 0..2 * distance] ==
          IF k = 0 THEN former
          ELSE Extend(content, sources, budget, state[k - 1], Attempt(n, k))
    IN  state[2 * distance]

\* In the order of the sources; a picture gets no neighbours.
WithNeighbors(content, sources, distance, budget) ==
    LET state[n \in 0..Len(sources)] ==
          IF n = 0
          THEN [runs |-> Alone(sources), taken |-> {sources[m] : m \in DOMAIN sources},
                closed |-> {}, full |-> FALSE]
          ELSE IF content[sources[n]] = "image" THEN state[n - 1]
          ELSE Around(content, sources, distance, budget, state[n - 1], n)
    IN  state[Len(sources)]
-----------------------------------------------------------------------------
(* What it is for.                                                         *)

Rankings(content) ==
    {s \in Lists!BoundedSeq({p \in Spots : content[p] # "none"}, Found) :
       \A i, j \in DOMAIN s : s[i] = s[j] => i = j}

\* What the model is given fits the budget, though sources compete for it and for the
\* fragments between them.  No source is left out that would have fitted; each is extended
\* by the fragments next to it without a gap, up to the distance; no fragment is given
\* twice; and a text next to a source is left out only if it was given elsewhere or the
\* budget was used up.
SourcesAreExtended ==
    \A content \in Contents : \A found \in Rankings(content) :
      \A distance \in Distances, budget \in Remainders :
        LET sources == FitSources(content, found, budget)
            state == WithNeighbors(content, sources, distance, budget)
            Run(n) == state.runs[n]
            Near(n, spot) ==
                spot[1] = sources[n][1]
                /\ spot[2] - sources[n][2] \in -distance..distance
        IN  /\ Lists!IsPrefix(sources, found)
            /\ Len(sources) < Len(found) =>
                 ~Fits(content, Alone(SubSeq(found, 1, Len(sources) + 1)), budget)
            /\ sources = <<>> \/ Fits(content, state.runs, budget)
            /\ \A n \in DOMAIN sources :
                 /\ sources[n] \in Run(n)
                 /\ content[sources[n]] = "image" => Run(n) = {sources[n]}
                 /\ \A s \in Run(n) : Near(n, s)
                 /\ \A s, t \in Run(n) : \A m \in s[2]..t[2] : <<s[1], m>> \in Run(n)
                 /\ \A m \in DOMAIN sources : m # n => Run(m) \cap Run(n) = {}
                 /\ content[sources[n]] # "image" /\ ~state.full =>
                      \A s \in Run(n), side \in {-1, 1} :
                        LET next == <<s[1], s[2] + side>>
                        IN  Near(n, next) /\ IsText(content, next) =>
                              \E m \in DOMAIN sources : next \in Run(m)

=============================================================================
