---------------------------- MODULE TextSplitting ----------------------------
(***************************************************************************)
(* How the text of a page is cut into fragments (kb/chunking.py).          *)
(* Pure functions.  A character is of the kind the cutting tells apart;    *)
(* positions count from 0, and a span ends before its end.                 *)
(***************************************************************************)
EXTENDS Integers, Sequences
Sets == INSTANCE FiniteSetsExt
Seqs == INSTANCE SequencesExt

CONSTANTS
    TextLength, \* texts up to this length
    MaxChars    \* values of kb.chunking.max_chars; the overlap is at most half of it

ASSUME LimitsAssumption == TextLength \in Nat /\ MaxChars \subseteq Nat \ {0}

Chars == {"letter", "stop", "space", "newline"}
Char(text, i) == text[i + 1]
IsSpace(text, i) == Char(text, i) \in {"space", "newline"}
Blank(text, from, to) == \A i \in from..to - 1 : IsSpace(text, i)
-----------------------------------------------------------------------------
(* A page.                                                                 *)

\* Where a match ends that lies in the window, for each kind of boundary, the best first.
Paragraphs(text, low, high) ==
    {j + 1 : j \in {j \in low..high - 1 :
        /\ Char(text, j) = "newline"
        /\ \E i \in low..j - 1 : Char(text, i) = "newline" /\ Blank(text, i, j)}}
Lines(text, low, high) == {i + 1 : i \in {i \in low..high - 1 : Char(text, i) = "newline"}}
Sentences(text, low, high) ==
    {i + 2 : i \in {i \in low..high - 2 : Char(text, i) = "stop" /\ IsSpace(text, i + 1)}}
Spaces(text, low, high) == {i + 1 : i \in {i \in low..high - 1 : IsSpace(text, i)}}

Boundaries(text, low, high) ==
    <<Paragraphs(text, low, high), Lines(text, low, high),
      Sentences(text, low, high), Spaces(text, low, high)>>

\* The last boundary of the best kind in the second half of the window, or its end.
Cut(text, start, max) ==
    LET hard == start + max
        found == Boundaries(text, start + max \div 2, hard)
        best == {k \in DOMAIN found : found[k] # {}}
    IN  IF hard >= Len(text) THEN Len(text)
        ELSE IF best = {} THEN hard ELSE Sets!Max(found[Sets!Min(best)])

\* Mutated form: on to the start of a word, past the end of the fragment if need be.
NextStartPastEnd(text, start, end, overlap) ==
    Sets!Min({p \in Sets!Max({end - overlap, start + 1})..Len(text) : p = Len(text) \/ IsSpace(text, p - 1)})

\* Back by the overlap, then on to the start of a word.
NextStart(text, start, end, overlap) ==
    Sets!Min({p \in Sets!Max({end - overlap, start + 1})..end : p = end \/ IsSpace(text, p - 1)})

FirstText(text, start) ==
    Sets!Min({i \in start..Len(text) : i = Len(text) \/ ~IsSpace(text, i)})

StrippedEnd(text, start, end) ==
    Sets!Min({i \in start..end : Blank(text, i, end)})

SplitPage(text, max, overlap) ==
    LET spans[from \in 0..Len(text)] ==
          LET start == FirstText(text, from)
              end == Cut(text, start, max)
              stripped == StrippedEnd(text, start, end)
              span == IF stripped > start THEN <<[start |-> start, end |-> stripped]>> ELSE <<>>
          IN  IF from = Len(text) THEN <<>>
              ELSE IF end >= Len(text) THEN span
              ELSE span \o spans[NextStart(text, start, end, overlap)]
    IN  spans[0]
-----------------------------------------------------------------------------
(* What it is for.                                                         *)

\* However windows, overlaps and boundaries meet: every character that is not a space is in
\* a fragment, no fragment is longer than the limit or has spaces at its edges, each begins
\* later than the former, and it begins within a word only where the former one had to be
\* cut within it.
SplitKeepsAll ==
    \A text \in Seqs!BoundedSeq(Chars, TextLength), max \in MaxChars :
      \A overlap \in 0..max \div 2 :
        LET spans == SplitPage(text, max, overlap)
            Covered(i) == \E n \in DOMAIN spans : spans[n].start <= i /\ i < spans[n].end
        IN  /\ \A i \in 0..Len(text) - 1 : IsSpace(text, i) \/ Covered(i)
            /\ \A n \in DOMAIN spans :
                 LET start == spans[n].start end == spans[n].end
                 IN  /\ start < end /\ end - start <= max
                     /\ ~IsSpace(text, start) /\ ~IsSpace(text, end - 1)
                     /\ n > 1 =>
                          /\ spans[n - 1].start < start
                          /\ IsSpace(text, start - 1) \/ spans[n - 1].end = start

=============================================================================
