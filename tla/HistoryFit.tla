----------------------------- MODULE HistoryFit -----------------------------
(***************************************************************************)
(* What of the history of a dialog is given to the model                   *)
(* (dialogs/context.py), and which pairs a summary may replace             *)
(* (dialogs/memory.py).  Pure functions of the messages in their order.    *)
(*                                                                         *)
(* A text is its size in tokens; 0 is the empty text.                      *)
(***************************************************************************)
EXTENDS FiniteSets, Integers, Sequences
Sets == INSTANCE FiniteSetsExt
Seqs == INSTANCE SequencesExt

CONSTANTS
    Sizes,      \* of texts
    Limits,     \* what the system message and the question leave of the budget
    Turns,      \* histories up to this length are fitted
    Pairs,      \* and dialogs up to this number of pairs
    KeepRecent, \* memory.keep_recent_pairs
    ImageSize,  \* of an image, in tokens
    MaxImages   \* MAX_IMAGES_PER_REQUEST

ASSUME SizesAssumption == Sizes \subseteq Nat /\ Limits \subseteq Int
ASSUME CountsAssumption == {Turns, Pairs, KeepRecent, ImageSize, MaxImages} \subseteq Nat

Modes == {"full", "text_only", "excluded"}
Question == [role : {"user"}, mode : Modes, text : {1}, file : Sizes, images : {0, 1}]
Answer == [role : {"assistant"}, mode : {"full"}, text : {0, 1}, file : {0}, images : {0}]
Turn == [pair : {0}, role : {"user", "assistant"}, text : Sizes \ {0}, images : 0..MaxImages + 1]
-----------------------------------------------------------------------------
(* From messages to turns.                                                 *)

\* The question before a message and itself; the mode of a pair is that of its question.
PairOf(messages, i) ==
    LET asked == {j \in 1..i : messages[j].role = "user"}
    IN  IF asked = {} THEN i ELSE Sets!Max(asked)

\* Mutated form: each message by its own mode.
ConsideredAlone(messages, until) ==
    {i \in DOMAIN messages : i > until /\ messages[i].mode # "excluded"}

\* Without the pairs up to the border of the summary (0: there is none) and the excluded.
ConsideredHistory(messages, until) ==
    {i \in DOMAIN messages : i > until /\ messages[PairOf(messages, i)].mode # "excluded"}

TurnOf(messages, i) ==
    LET message == messages[i]
        plain == message.role = "assistant" \/ message.mode = "text_only"
    IN  [pair |-> PairOf(messages, i), role |-> message.role,
         text |-> message.text + IF plain THEN 0 ELSE message.file,
         images |-> IF plain THEN 0 ELSE message.images]

\* Empty answers are passed over.
Said(messages, until) ==
    {i \in ConsideredHistory(messages, until) :
       messages[i].role = "user" \/ messages[i].text > 0}

PairTurns(messages, until) ==
    LET turns[n \in 0..Len(messages)] ==
          IF n = 0 THEN <<>>
          ELSE IF n \in Said(messages, until) THEN Append(turns[n - 1], TurnOf(messages, n))
          ELSE turns[n - 1]
    IN  turns[Len(messages)]
-----------------------------------------------------------------------------
(* The fitting.                                                            *)

TurnTokens(turn) == turn.text + ImageSize * turn.images
TurnsTokens(turns) == Seqs!FoldLeft(LAMBDA sum, turn : sum + TurnTokens(turn), 0, turns)
Images(turns) == Seqs!FoldLeft(LAMBDA sum, turn : sum + turn.images, 0, turns)

\* Mutated form: the images of a message that is dropped are still counted.
LeftImagesKept(history, head, shown, first) ==
    LET left[d \in first..Len(history)] ==
          IF d = first
          THEN [tokens |-> head + TurnsTokens(history) - TurnsTokens(SubSeq(history, 1, first)),
                images |-> shown + Images(SubSeq(history, first + 1, Len(history)))]
          ELSE [left[d - 1] EXCEPT !.tokens = @ - TurnTokens(history[d])]
    IN  left

\* What is left after d messages were dropped, kept by subtraction.
Left(history, head, shown, first) ==
    LET left[d \in first..Len(history)] ==
          IF d = first
          THEN [tokens |-> head + TurnsTokens(history) - TurnsTokens(SubSeq(history, 1, first)),
                images |-> shown + Images(SubSeq(history, first + 1, Len(history)))]
          ELSE [tokens |-> left[d - 1].tokens - TurnTokens(history[d]),
                images |-> left[d - 1].images - history[d].images]
    IN  left

\* How many messages are dropped from the start: head is the size of the message that is
\* never dropped, shown the images of the question, at least minDropped go.
FitMemory(history, limit, head, shown, minDropped) ==
    LET first == Sets!Min({minDropped, Len(history)})
        left == Left(history, head, shown, first)
        Fits(d) == left[d].tokens <= limit /\ left[d].images <= MaxImages
    IN  Sets!Min({d \in first..Len(history) :
               d = Len(history) \/ (Fits(d) /\ history[d + 1].role = "user")})

\* After the model has refused a request that was fitted: half as much, once.
Retried(history, limit, head, shown, dropped) ==
    LET remaining == Len(history) - dropped
    IN  FitMemory(history, limit, head, shown,
                  Sets!Max({dropped * 2, dropped + (remaining + 1) \div 2}))
-----------------------------------------------------------------------------
(* The summary of the memory.                                              *)

NoRange == [first |-> 0, last |-> 0]

\* modes are those of the pairs; the pairs up to until are summarised already.  The last
\* KeepRecent pairs that are considered stay as they are.
CompressRange(modes, until) ==
    LET Considered(from, to) == {n \in from..to : modes[n] # "excluded"}
        late == {n \in DOMAIN modes : Cardinality(Considered(n, Len(modes))) = KeepRecent}
    IN  IF late = {} \/ Considered(until + 1, Sets!Max(late) - 1) = {} THEN NoRange
        ELSE [first |-> until + 1, last |-> Sets!Max(late) - 1]

\* set_summary wants an answer with that many questions after it.
SetSummaryAccepts(modes, border) == border \in DOMAIN modes /\ Len(modes) - border >= KeepRecent
-----------------------------------------------------------------------------
(* What it is for.                                                         *)

Fitted(history, limit, head, shown, d) ==
    LET kept == SubSeq(history, d + 1, Len(history))
    IN  kept = <<>> \/ (/\ head + TurnsTokens(kept) <= limit
                        /\ shown + Images(kept) <= MaxImages
                        /\ kept[1].role = "user")

\* The longest end of the history that fits, by its own sums, is given to the model, and
\* after a refusal at most half of it, which fits too.
FitIsLargest ==
    \A history \in Seqs!BoundedSeq(Turn, Turns), limit \in Limits, shown \in {0, 1} :
        LET d == FitMemory(history, limit, 1, shown, 0)
            e == Retried(history, limit, 1, shown, d)
        IN  /\ Fitted(history, limit, 1, shown, d)
            /\ \A c \in 0..d - 1 : ~Fitted(history, limit, 1, shown, c)
            /\ d < Len(history) =>
                 /\ Fitted(history, limit, 1, shown, e)
                 /\ 2 * (Len(history) - e) <= Len(history) - d

Dialogs == UNION {[1..n -> Question \X Answer] : n \in 0..Pairs}
Messages(pairs) == [i \in 1..2 * Len(pairs) |-> pairs[(i + 1) \div 2][2 - (i % 2)]]

Border(n) == 2 * n  \* the answer of pair n
Answered(turns, d) ==
    \A n \in d + 1..Len(turns) : turns[n].role = "assistant" =>
        n > d + 1 /\ turns[n - 1].role = "user" /\ turns[n - 1].pair = turns[n].pair

\* Whatever is dropped, excluded, summarised or empty: an answer is given with its question.
\* What the portal offers to summarise it accepts, and the last considered questions stay.
PairsStayWhole ==
    \A pairs \in Dialogs : \A n \in 0..Len(pairs) :
        LET messages == Messages(pairs)
            turns == PairTurns(messages, Border(n))
            modes == [m \in DOMAIN pairs |-> pairs[m][1].mode]
            range == CompressRange(modes, n)
            after == PairTurns(messages, Border(range.last))
        IN  /\ \A limit \in Limits : Answered(turns, FitMemory(turns, limit, 0, 0, 0))
            /\ range # NoRange =>
                 /\ SetSummaryAccepts(modes, range.last)
                 /\ Len(after) < Len(turns)
                 /\ Cardinality({m \in DOMAIN after : after[m].role = "user"}) = KeepRecent

=============================================================================
