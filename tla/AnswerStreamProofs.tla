------------------------- MODULE AnswerStreamProofs -------------------------
(***************************************************************************)
(* The safety of AnswerStream for every bound of what the model says, every *)
(* limit of a draft and every size of the pieces.                          *)
(***************************************************************************)
EXTENDS AnswerStream, FiniteSetTheorems, SequenceTheorems, TLAPS

Early == {"asking", "waiting", "session", "subject"}
Gone == ~session \/ ~subject

(* An ending is on its way or was received. *)
HasEnding(ch, pg) ==
    pg.endings # << >> \/ \E i \in 1..Len(ch) : ch[i].type \in Endings

Carries(ch, pg, type) ==
    type \in ToSet(pg.endings) \/ \E i \in 1..Len(ch) : ch[i].type = type

(* Behind an ending nothing comes but the close. *)
InOrder(ch, pg) ==
    /\ Len(pg.endings) <= 1
    /\ \A i \in 1..Len(ch) :
          pg.endings # << >> \/ (\E j \in 1..(i - 1) : ch[j].type \in Endings)
          => ch[i].type = "end"

(* What the page has and what is on its way is the text, all of it before an ending. *)
Adds(ch, from, total, sum) ==
    /\ sum[0] = from /\ sum[Len(ch)] = total
    /\ \A i \in 1..Len(ch) :
          /\ sum[i] = sum[i - 1] + ch[i].size
          /\ ch[i].type \in Endings => sum[i] = total

Flows(ch, pg, total) ==
    /\ \A i \in 1..Len(ch) : ch[i].type # "delta" => ch[i].size = 0
    /\ pg.endings # << >> => pg.text = total
    /\ \E sum \in [0..Len(ch) -> 0..total] : Adds(ch, pg.text, total, sum)

EventsAreInOrder ==
    /\ InOrder(channel, page)
    /\ Flows(channel, page, outcome.text)

(* A stream has its ending exactly when it has been told. *)
EndingIsTold ==
    /\ kind = "answer" /\ task.pc # "idle" => ~HasEnding(channel, page)
    /\ kind = "draft" /\ task.pc # "idle" =>
          (HasEnding(channel, page) <=> outcome.status \in Whole)
    /\ task.pc = "idle" /\ page.open => HasEnding(channel, page)
    /\ \A e \in {"done", "cut"} : Carries(channel, page, e) =>
          outcome.status \in Whole /\ e = EndingOf(outcome.status)

(* What the model said is in the outcome but for the piece that is held. *)
Held == IF pending.is = "text" THEN pending.size ELSE 0

TextIsCounted ==
    /\ task.pc = "asking" => outcome.text = 0
    /\ task.pc \in {"waiting", "session", "subject"} =>
          /\ request.said = outcome.text + Held
          /\ kind = "draft" => outcome.text <= MaxChars
    /\ task.pc # "asking" => outcome.text <= request.said
    /\ ~request.received \/ pending.is = "context_overflow" => request.said = 0
    /\ pending.is \in {"usage", "finished"} => request.finish # "none"

(* A whole outcome is of all the model said, and the answer is saved as such. *)
WholeIsKnown ==
    /\ ~Reading
    /\ request.finish # "none" \/ (kind = "draft" /\ Truncated)
    /\ kind = "answer" => outcome.status = Ended /\ outcome.text = request.said
    /\ kind = "draft" =>
          /\ outcome.text = Min({request.said, MaxChars})
          /\ outcome.status = "length_limit" <=> Truncated
    /\ task.pc = "closing" => outcome.code # "dialog_deleted"
    /\ kind = "answer" /\ task.pc \in {"telling", "idle"} /\ subject =>
          row = [status |-> outcome.status, text |-> outcome.text]

OutcomeIsKnown ==
    /\ task.pc \in Early => outcome.status = "error" /\ outcome.code = "internal_error"
    /\ outcome.status = "stopped" => ~page.open
    /\ kind = "draft" => task.pc # "saving"
    /\ outcome.status \in Whole => WholeIsKnown

RequestIsOver ==
    task.pc \in {"idle", "asking", "saving", "telling"} => ~request.open /\ pending = Nothing

(* A stream that is to be cut off does not take an event before it has seen that. *)
CutOffIsAhead ==
    /\ late # "more"
    /\ late # "no" =>
          /\ \/ task.pc \in {"asking", "waiting"}
             \/ task.pc = "closing" /\ outcome.code = "message_too_long"
             \/ task.pc = "subject" /\ subject
             => term \/ (look /\ Gone)
          /\ task.pc = "session" => term \/ Gone
    /\ late = "one" =>
          /\ task.pc = "session" => Gone
          /\ task.pc = "subject" => ~subject

StreamInv ==
    /\ TypeOK
    /\ EventsAreInOrder
    /\ EndingIsTold
    /\ TextIsCounted
    /\ OutcomeIsKnown
    /\ RequestIsOver
    /\ CutOffIsAhead
-----------------------------------------------------------------------------
(* Events that are sent and received.                                      *)

LEMMA Appended ==
    ASSUME NEW ch \in Seq(Event), NEW e \in Event
    PROVE  /\ Append(ch, e) \in Seq(Event)
           /\ Len(ch) \in Nat
           /\ Len(Append(ch, e)) = Len(ch) + 1
           /\ \A i \in 1..Len(ch) : Append(ch, e)[i] = ch[i]
           /\ Append(ch, e)[Len(ch) + 1] = e
BY AppendProperties

LEMMA Carried ==
    ASSUME NEW ch \in Seq(Event), NEW e \in Event, NEW pg, NEW type
    PROVE  Carries(Append(ch, e), pg, type) <=> Carries(ch, pg, type) \/ e.type = type
<1> DEFINE c == Append(ch, e)
<1>1. /\ Len(ch) \in Nat /\ Len(c) = Len(ch) + 1
      /\ \A i \in 1..Len(ch) : c[i] = ch[i]
      /\ c[Len(ch) + 1] = e
  BY Appended
<1> HIDE DEF c
<1>2. (\E i \in 1..Len(c) : c[i].type = type)
      <=> (\E i \in 1..Len(ch) : ch[i].type = type) \/ e.type = type
  <2>1. ASSUME NEW i \in 1..Len(c), c[i].type = type
        PROVE  (\E j \in 1..Len(ch) : ch[j].type = type) \/ e.type = type
    <3>1. i \in 1..Len(ch) \/ i = Len(ch) + 1  BY <1>1
    <3> QED  BY <1>1, <2>1, <3>1
  <2>2. ASSUME NEW i \in 1..Len(ch), ch[i].type = type
        PROVE  \E j \in 1..Len(c) : c[j].type = type
    <3>1. i \in 1..Len(c)  BY <1>1
    <3> QED  BY <1>1, <2>2, <3>1
  <2>3. ASSUME e.type = type PROVE \E j \in 1..Len(c) : c[j].type = type
    <3>1. Len(ch) + 1 \in 1..Len(c)  BY <1>1
    <3> QED  BY <1>1, <2>3, <3>1
  <2> QED  BY <2>1, <2>2, <2>3
<1> QED  BY <1>2 DEF Carries, c

LEMMA EndingCarried ==
    ASSUME NEW ch \in Seq(Event), NEW e \in Event, NEW pg
    PROVE  HasEnding(Append(ch, e), pg) <=> HasEnding(ch, pg) \/ e.type \in Endings
<1> DEFINE c == Append(ch, e)
<1>1. /\ Len(ch) \in Nat /\ Len(c) = Len(ch) + 1
      /\ \A i \in 1..Len(ch) : c[i] = ch[i]
      /\ c[Len(ch) + 1] = e
  BY Appended
<1> HIDE DEF c
<1>2. (\E i \in 1..Len(c) : c[i].type \in Endings)
      <=> (\E i \in 1..Len(ch) : ch[i].type \in Endings) \/ e.type \in Endings
  <2>1. ASSUME NEW i \in 1..Len(c), c[i].type \in Endings
        PROVE  (\E j \in 1..Len(ch) : ch[j].type \in Endings) \/ e.type \in Endings
    <3>1. i \in 1..Len(ch) \/ i = Len(ch) + 1  BY <1>1
    <3> QED  BY <1>1, <2>1, <3>1
  <2>2. ASSUME NEW i \in 1..Len(ch), ch[i].type \in Endings
        PROVE  \E j \in 1..Len(c) : c[j].type \in Endings
    <3>1. i \in 1..Len(c)  BY <1>1
    <3> QED  BY <1>1, <2>2, <3>1
  <2>3. ASSUME e.type \in Endings PROVE \E j \in 1..Len(c) : c[j].type \in Endings
    <3>1. Len(ch) + 1 \in 1..Len(c)  BY <1>1
    <3> QED  BY <1>1, <2>3, <3>1
  <2> QED  BY <2>1, <2>2, <2>3
<1> QED  BY <1>2 DEF HasEnding, c

(* An event is sent: nothing behind an ending but the close, and only text has a size. *)
LEMMA Sent ==
    ASSUME NEW ch \in Seq(Event), NEW pg, NEW total \in Nat, NEW e \in Event,
           InOrder(ch, pg), Flows(ch, pg, total),
           e.type # "delta" => e.size = 0,
           e.type = "end" \/ ~HasEnding(ch, pg)
    PROVE  /\ InOrder(Append(ch, e), pg)
           /\ Flows(Append(ch, e), pg, total + e.size)
<1> DEFINE c == Append(ch, e)
           n == Len(ch)
<1>1. /\ n \in Nat /\ Len(c) = n + 1
      /\ \A i \in 1..n : c[i] = ch[i]
      /\ c[n + 1] = e
  BY Appended
<1>2. e.size \in Nat  BY SizesAssumption DEF Event
<1>3. e.type \in Endings => ~HasEnding(ch, pg) /\ e.size = 0  BY DEF Endings
<1>4. e.size # 0 => ~HasEnding(ch, pg)  BY DEF Endings
<1> HIDE DEF c, n
<1>5. InOrder(c, pg)
  <2>1. ASSUME NEW i \in 1..(n + 1),
               pg.endings # << >> \/ \E j \in 1..(i - 1) : c[j].type \in Endings
        PROVE  c[i].type = "end"
    <3>1. CASE i \in 1..n
      <4>1. \A j \in 1..(i - 1) : j \in 1..n  BY <1>1, <3>1
      <4>2. pg.endings # << >> \/ \E j \in 1..(i - 1) : ch[j].type \in Endings
        BY <1>1, <2>1, <4>1
      <4> QED  BY <1>1, <3>1, <4>2 DEF InOrder, n
    <3>2. CASE i = n + 1
      <4>1. \A j \in 1..(i - 1) : j \in 1..n  BY <1>1, <3>2
      <4>2. HasEnding(ch, pg)  BY <1>1, <2>1, <4>1 DEF HasEnding, n
      <4> QED  BY <1>1, <3>2, <4>2
    <3> QED  BY <1>1, <3>1, <3>2
  <2> QED  BY <1>1, <2>1 DEF InOrder
<1>6. Flows(c, pg, total + e.size)
  <2>1. PICK sum \in [0..n -> 0..total] : Adds(ch, pg.text, total, sum)  BY DEF Flows, n
  <2> DEFINE more == [i \in 0..(n + 1) |-> IF i = n + 1 THEN total + e.size ELSE sum[i]]
  <2>2. more \in [0..Len(c) -> 0..(total + e.size)]
    <3>1. ASSUME NEW i \in 0..(n + 1) PROVE more[i] \in 0..(total + e.size)
      <4>1. CASE i = n + 1  BY <1>2, <4>1
      <4>2. CASE i # n + 1
        <5>1. i \in 0..n  BY <1>1, <4>2
        <5>2. sum[i] \in 0..total  BY <2>1, <5>1
        <5> QED  BY <1>2, <4>2, <5>2
      <4> QED  BY <4>1, <4>2
    <3> QED  BY <1>1, <3>1
  <2>3. Adds(c, pg.text, total + e.size, more)
    <3>1. more[0] = pg.text  BY <1>1, <2>1 DEF Adds
    <3>2. more[Len(c)] = total + e.size  BY <1>1
    <3>3. sum[n] = total  BY <2>1 DEF Adds, n
    <3>4. ASSUME NEW i \in 1..(n + 1)
          PROVE  /\ more[i] = more[i - 1] + c[i].size
                 /\ c[i].type \in Endings => more[i] = total + e.size
      <4>1. CASE i \in 1..n
        <5>1. /\ sum[i] = sum[i - 1] + ch[i].size
              /\ ch[i].type \in Endings => sum[i] = total
          BY <2>1, <4>1 DEF Adds, n
        <5>2. ch[i].type \in Endings => e.size = 0
          BY <1>4, <4>1 DEF HasEnding, n
        <5>3. more[i] = sum[i] /\ more[i - 1] = sum[i - 1] /\ c[i] = ch[i]
          BY <1>1, <4>1
        <5> QED  BY <5>1, <5>2, <5>3
      <4>2. CASE i = n + 1
        <5>1. more[i] = total + e.size /\ more[i - 1] = total /\ c[i] = e
          BY <1>1, <3>3, <4>2
        <5> QED  BY <5>1
      <4> QED  BY <1>1, <4>1, <4>2
    <3> QED  BY <1>1, <3>1, <3>2, <3>4 DEF Adds
  <2>4. ASSUME NEW i \in 1..(n + 1), c[i].type # "delta" PROVE c[i].size = 0
    <3>1. i \in 1..n \/ i = n + 1  BY <1>1
    <3> QED  BY <1>1, <2>4, <3>1 DEF Flows, n
  <2>5. pg.endings # << >> => pg.text = total + e.size
    BY <1>4 DEF HasEnding, Flows
  <2> QED  BY <1>1, <2>2, <2>3, <2>4, <2>5 DEF Flows
<1> QED  BY <1>5, <1>6 DEF c

(* What the page is after an event. *)
Read(pg, e) ==
    [open |-> e.type # "end",
     text |-> pg.text + e.size,
     endings |-> IF e.type \in Endings THEN Append(pg.endings, e.type) ELSE pg.endings]

LEMMA EndingReceived ==
    ASSUME NEW pg, pg.endings \in Seq(Endings), NEW e \in Event
    PROVE  /\ Read(pg, e).endings \in Seq(Endings)
           /\ Read(pg, e).endings # << >> <=> pg.endings # << >> \/ e.type \in Endings
           /\ e.type \notin Endings => Read(pg, e).endings = pg.endings
           /\ e.type \in Endings => Len(Read(pg, e).endings) = Len(pg.endings) + 1
           /\ \A type \in Endings :
                 type \in ToSet(Read(pg, e).endings) <=> type \in ToSet(pg.endings) \/ e.type = type
<1>1. CASE e.type \notin Endings  BY <1>1 DEF Read
<1>2. CASE e.type \in Endings
  <2> DEFINE n == Len(pg.endings)
             s == Append(pg.endings, e.type)
  <2>1. /\ s \in Seq(Endings) /\ n \in Nat /\ Len(s) = n + 1 /\ s # << >>
        /\ \A i \in 1..n : s[i] = pg.endings[i]
        /\ s[n + 1] = e.type
    BY <1>2, AppendProperties
  <2>2. DOMAIN s = 1..(n + 1) /\ DOMAIN pg.endings = 1..n  BY <2>1, LenProperties
  <2>3. Read(pg, e).endings = s  BY <1>2 DEF Read
  <2> HIDE DEF s, n
  <2>4. ASSUME NEW type, type \in ToSet(s) PROVE type \in ToSet(pg.endings) \/ e.type = type
    <3>1. PICK i \in 1..(n + 1) : type = s[i]  BY <2>2, <2>4 DEF ToSet
    <3>2. i \in 1..n \/ i = n + 1  BY <2>1
    <3> QED  BY <2>1, <2>2, <3>1, <3>2 DEF ToSet
  <2>5. ASSUME NEW type, type \in ToSet(pg.endings) \/ e.type = type PROVE type \in ToSet(s)
    <3>1. \A i \in 1..n : i \in 1..(n + 1)  BY <2>1
    <3>2. n + 1 \in 1..(n + 1)  BY <2>1
    <3> QED  BY <2>1, <2>2, <2>5, <3>1, <3>2 DEF ToSet
  <2> QED  BY <1>2, <2>1, <2>3, <2>4, <2>5 DEF n
<1> QED  BY <1>1, <1>2

(* An event is received. *)
LEMMA Received ==
    ASSUME NEW ch \in Seq(Event), ch # << >>, NEW pg, NEW total \in Nat,
           pg.endings \in Seq(Endings),
           InOrder(ch, pg), Flows(ch, pg, total)
    PROVE  /\ Head(ch) \in Event /\ Tail(ch) \in Seq(Event)
           /\ InOrder(Tail(ch), Read(pg, Head(ch)))
           /\ Flows(Tail(ch), Read(pg, Head(ch)), total)
           /\ Read(pg, Head(ch)).text \in 0..total
           /\ HasEnding(Tail(ch), Read(pg, Head(ch))) <=> HasEnding(ch, pg)
           /\ \A type \in Endings :
                 Carries(Tail(ch), Read(pg, Head(ch)), type) <=> Carries(ch, pg, type)
<1> DEFINE c == Tail(ch)
           n == Len(ch)
           p == Read(pg, Head(ch))
<1>1. /\ c \in Seq(Event) /\ n \in Nat /\ n >= 1 /\ Len(c) = n - 1
      /\ \A i \in 1..(n - 1) : c[i] = ch[i + 1]
      /\ Head(ch) = ch[1] /\ ch[1] \in Event
  BY HeadTailProperties, LenProperties, EmptySeq, ElementOfSeq
<1>2. /\ p.endings # << >> <=> pg.endings # << >> \/ ch[1].type \in Endings
      /\ ch[1].type \notin Endings => p.endings = pg.endings
      /\ ch[1].type \in Endings => Len(p.endings) = Len(pg.endings) + 1
      /\ \A type \in Endings :
            type \in ToSet(p.endings) <=> type \in ToSet(pg.endings) \/ ch[1].type = type
  BY <1>1, EndingReceived
<1>3. p.text = pg.text + ch[1].size  BY <1>1 DEF Read
<1> HIDE DEF c, n, p
<1>4. \A i \in 1..(n - 1) : i + 1 \in 1..n /\ i + 1 # 1  BY <1>1
<1>5. \A i \in 1..n : i = 1 \/ (i - 1 \in 1..(n - 1) /\ c[i - 1] = ch[i])  BY <1>1
<1>6. 1 \in 1..n  BY <1>1
<1>7. pg.endings # << >> => ch[1].type \notin Endings
  BY <1>6 DEF InOrder, Endings, n
<1>8. InOrder(c, p)
  <2>1. Len(p.endings) <= 1
    <3>1. pg.endings = << >> => Len(pg.endings) = 0  BY EmptySeq
    <3> QED  BY <1>2, <1>7, <3>1 DEF InOrder
  <2>2. ASSUME NEW i \in 1..(n - 1),
               p.endings # << >> \/ \E j \in 1..(i - 1) : c[j].type \in Endings
        PROVE  c[i].type = "end"
    <3>1. 1 \in 1..((i + 1) - 1)  BY <1>1
    <3>2. \A j \in 1..(i - 1) : j + 1 \in 1..((i + 1) - 1) /\ c[j] = ch[j + 1]  BY <1>1
    <3>3. pg.endings # << >> \/ \E j \in 1..((i + 1) - 1) : ch[j].type \in Endings
      BY <1>2, <2>2, <3>1, <3>2
    <3>4. ch[i + 1].type = "end"  BY <1>4, <3>3 DEF InOrder, n
    <3> QED  BY <1>1, <3>4
  <2> QED  BY <1>1, <2>1, <2>2 DEF InOrder
<1>9. PICK sum \in [0..n -> 0..total] : Adds(ch, pg.text, total, sum)  BY DEF Flows, n
<1>10. /\ sum[1] = p.text /\ sum[1] \in 0..total
       /\ p.endings # << >> => p.text = total
  <2>1. 0 \in 0..n /\ 1 \in 0..n /\ 1 - 1 = 0  BY <1>1
  <2>2. sum[1] = sum[0] + ch[1].size /\ (ch[1].type \in Endings => sum[1] = total)
    BY <1>6, <1>9, <2>1 DEF Adds, n
  <2>3. pg.endings # << >> => ch[1].type = "end" /\ ch[1].size = 0 /\ pg.text = total
    BY <1>6 DEF InOrder, Flows, n
  <2>4. sum[0] = pg.text  BY <1>9 DEF Adds
  <2>5. sum[1] \in 0..total  BY <1>9, <2>1
  <2> QED  BY <1>2, <1>3, <2>2, <2>3, <2>4, <2>5
<1>11. Flows(c, p, total)
  <2> DEFINE less == [i \in 0..(n - 1) |-> sum[i + 1]]
  <2>1. \A i \in 0..(n - 1) : i + 1 \in 0..n  BY <1>1
  <2>2. less \in [0..Len(c) -> 0..total]  BY <1>1, <1>9, <2>1
  <2>3. Adds(c, p.text, total, less)
    <3>1. less[0] = p.text  BY <1>1, <1>10
    <3>2. less[n - 1] = total  BY <1>1, <1>9 DEF Adds, n
    <3>3. ASSUME NEW i \in 1..(n - 1)
          PROVE  /\ less[i] = less[i - 1] + c[i].size
                 /\ c[i].type \in Endings => less[i] = total
      <4>1. /\ sum[i + 1] = sum[(i + 1) - 1] + ch[i + 1].size
            /\ ch[i + 1].type \in Endings => sum[i + 1] = total
        BY <1>4, <1>9 DEF Adds, n
      <4>2. (i + 1) - 1 = i /\ (i - 1) + 1 = i /\ i \in 0..(n - 1) /\ i - 1 \in 0..(n - 1)
        BY <1>1
      <4>3. less[i] = sum[i + 1] /\ less[i - 1] = sum[i]  BY <4>2
      <4> QED  BY <1>1, <4>1, <4>2, <4>3
    <3> HIDE DEF less
    <3> QED  BY <1>1, <3>1, <3>2, <3>3 DEF Adds
  <2> HIDE DEF less
  <2>4. \A i \in 1..Len(c) : c[i].type # "delta" => c[i].size = 0
    <3>1. \A i \in 1..n : ch[i].type # "delta" => ch[i].size = 0  BY DEF Flows, n
    <3>2. ASSUME NEW i \in 1..(n - 1), c[i].type # "delta" PROVE c[i].size = 0
      <4>1. c[i] = ch[i + 1] /\ i + 1 \in 1..n  BY <1>1, <1>4
      <4> QED  BY <3>1, <3>2, <4>1
    <3> QED  BY <1>1, <3>2
  <2> QED  BY <1>10, <2>2, <2>3, <2>4 DEF Flows
<1>13. HasEnding(c, p) <=> HasEnding(ch, pg)
  <2>1. (\E i \in 1..n : ch[i].type \in Endings)
          <=> ch[1].type \in Endings \/ \E i \in 1..(n - 1) : c[i].type \in Endings
    BY <1>1, <1>4, <1>5, <1>6
  <2> QED  BY <1>1, <1>2, <2>1 DEF HasEnding, n
<1>14. ASSUME NEW type \in Endings PROVE Carries(c, p, type) <=> Carries(ch, pg, type)
  <2>1. (\E i \in 1..n : ch[i].type = type)
          <=> ch[1].type = type \/ \E i \in 1..(n - 1) : c[i].type = type
    <3>1. ASSUME NEW i \in 1..n, ch[i].type = type
          PROVE  ch[1].type = type \/ \E j \in 1..(n - 1) : c[j].type = type
      BY <1>5, <3>1
    <3>2. ASSUME NEW i \in 1..(n - 1), c[i].type = type
          PROVE  \E j \in 1..n : ch[j].type = type
      <4>1. i + 1 \in 1..n /\ ch[i + 1].type = type  BY <1>1, <1>4, <3>2
      <4> QED  BY <4>1
    <3> QED  BY <1>6, <3>1, <3>2
  <2>2. type \in ToSet(p.endings) <=> type \in ToSet(pg.endings) \/ ch[1].type = type
    BY <1>2
  <2>3. Carries(c, p, type)
          <=> type \in ToSet(p.endings) \/ \E i \in 1..(n - 1) : c[i].type = type
    BY <1>1 DEF Carries
  <2>4. Carries(ch, pg, type)
          <=> type \in ToSet(pg.endings) \/ \E i \in 1..n : ch[i].type = type
    BY DEF Carries, n
  <2> QED  BY <2>1, <2>2, <2>3, <2>4
<1>15. Head(ch) \in Event  BY <1>1
<1>16. p.text \in 0..total  BY <1>10
<1> QED  BY <1>1, <1>8, <1>11, <1>13, <1>14, <1>15, <1>16 DEF c, p

(* Before anything is sent. *)
LEMMA NothingIsSent ==
    ASSUME NEW pg, pg.endings = << >>, pg.text = 0
    PROVE  /\ << >> \in Seq(Event)
           /\ InOrder(<< >>, pg) /\ Flows(<< >>, pg, 0)
           /\ ~HasEnding(<< >>, pg)
<1>1. << >> \in Seq(Event) /\ Len(<< >>) = 0  BY EmptySeq
<1>2. Len(pg.endings) = 0  BY EmptySeq
<1>3. 1..0 = {} /\ 0..0 = {0}  OBVIOUS
<1> DEFINE sum == [i \in {0} |-> 0]
<1>4. sum \in [0..0 -> 0..0] /\ sum[0] = 0  BY <1>3
<1> HIDE DEF sum
<1>5. Adds(<< >>, 0, 0, sum)  BY <1>1, <1>3, <1>4 DEF Adds
<1> QED  BY <1>1, <1>2, <1>3, <1>4, <1>5 DEF InOrder, Flows, HasEnding

LEMMA CarriedIsEnding ==
    ASSUME NEW ch, NEW pg, NEW type \in Endings, Carries(ch, pg, type)
    PROVE  HasEnding(ch, pg)
<1>1. CASE pg.endings = << >>
  <2>1. ToSet(pg.endings) = {}  BY <1>1 DEF ToSet
  <2> QED  BY <2>1 DEF Carries, HasEnding
<1>2. CASE pg.endings # << >>  BY <1>2 DEF HasEnding
<1> QED  BY <1>1, <1>2

(* A step that sends and receives nothing. *)
LEMMA Silent ==
    ASSUME EventsAreInOrder, UNCHANGED channel,
           page'.endings = page.endings, page'.text = page.text,
           outcome'.text = outcome.text
    PROVE  /\ EventsAreInOrder'
           /\ HasEnding(channel, page)' <=> HasEnding(channel, page)
           /\ \A type : Carries(channel, page, type)' <=> Carries(channel, page, type)
BY DEF EventsAreInOrder, InOrder, Flows, HasEnding, Carries

(* A step that sends one event. *)
LEMMA Sends ==
    ASSUME TypeOK, EventsAreInOrder, NEW e \in Event,
           channel' = Append(channel, e), UNCHANGED page,
           outcome'.text = outcome.text + e.size,
           e.type # "delta" => e.size = 0,
           e.type = "end" \/ ~HasEnding(channel, page)
    PROVE  /\ channel' \in Seq(Event)
           /\ EventsAreInOrder'
           /\ HasEnding(channel, page)' <=> HasEnding(channel, page) \/ e.type \in Endings
           /\ \A type : Carries(channel, page, type)' <=> Carries(channel, page, type) \/ e.type = type
<1>1. channel \in Seq(Event) /\ outcome.text \in Nat  BY SizesAssumption DEF TypeOK
<1>2. channel' \in Seq(Event)  BY <1>1, Appended
<1>3. /\ InOrder(Append(channel, e), page)
      /\ Flows(Append(channel, e), page, outcome.text + e.size)
  BY <1>1, Sent DEF EventsAreInOrder
<1>4. EventsAreInOrder'
  <2>1. InOrder(channel, page)' <=> InOrder(Append(channel, e), page)  BY DEF InOrder
  <2>2. Flows(channel, page, outcome.text)' <=> Flows(Append(channel, e), page, outcome.text + e.size)
    BY DEF Flows
  <2> QED  BY <1>3, <2>1, <2>2 DEF EventsAreInOrder
<1>5. HasEnding(channel, page)' <=> HasEnding(Append(channel, e), page)  BY DEF HasEnding
<1>6. \A type : Carries(channel, page, type)' <=> Carries(Append(channel, e), page, type)
  BY DEF Carries
<1> QED  BY <1>1, <1>2, <1>4, <1>5, <1>6, Carried, EndingCarried

(* A step that sends two, the second an ending or the close. *)
LEMMA SendsTwo ==
    ASSUME TypeOK, EventsAreInOrder, NEW d \in Event, NEW e \in Event,
           channel' = Append(Append(channel, d), e), UNCHANGED page,
           outcome'.text = outcome.text + d.size,
           d.type # "delta" => d.size = 0, e.type # "delta", e.size = 0,
           ~HasEnding(channel, page), d.type \in Endings => e.type = "end"
    PROVE  /\ channel' \in Seq(Event)
           /\ EventsAreInOrder'
           /\ HasEnding(channel, page)' <=> d.type \in Endings \/ e.type \in Endings
           /\ \A type \in Endings : Carries(channel, page, type)' <=> d.type = type \/ e.type = type
<1> DEFINE c == Append(channel, d)
<1>1. channel \in Seq(Event) /\ outcome.text \in Nat  BY SizesAssumption DEF TypeOK
<1>2. d.size \in Nat  BY SizesAssumption DEF Event
<1>3. c \in Seq(Event)  BY <1>1, Appended
<1>4. /\ InOrder(c, page)
      /\ Flows(c, page, outcome.text + d.size)
  BY <1>1, Sent DEF EventsAreInOrder
<1>5. HasEnding(c, page) <=> d.type \in Endings  BY <1>1, EndingCarried
<1>6. \A type \in Endings : Carries(c, page, type) <=> d.type = type
  BY <1>1, Carried, CarriedIsEnding
<1> HIDE DEF c
<1>7. channel' = Append(c, e)  BY DEF c
<1>8. channel' \in Seq(Event)  BY <1>3, <1>7, Appended
<1>9. /\ InOrder(Append(c, e), page)
      /\ Flows(Append(c, e), page, outcome.text + d.size + e.size)
  BY <1>1, <1>2, <1>3, <1>4, <1>5, Sent
<1>10. EventsAreInOrder'
  <2>1. InOrder(channel, page)' <=> InOrder(Append(c, e), page)  BY <1>7 DEF InOrder
  <2>2. outcome'.text = outcome.text + d.size + e.size  BY <1>1, <1>2
  <2>3. Flows(channel, page, outcome.text)'
          <=> Flows(Append(c, e), page, outcome.text + d.size + e.size)
    BY <1>7, <2>2 DEF Flows
  <2> QED  BY <1>9, <2>1, <2>3 DEF EventsAreInOrder
<1>11. HasEnding(channel, page)' <=> HasEnding(Append(c, e), page)  BY <1>7 DEF HasEnding
<1>12. \A type : Carries(channel, page, type)' <=> Carries(Append(c, e), page, type)
  BY <1>7 DEF Carries
<1> QED  BY <1>3, <1>5, <1>6, <1>8, <1>10, <1>11, <1>12, Carried, EndingCarried
-----------------------------------------------------------------------------
(* What the page is told.                                                  *)

LEMMA Lesser ==
    ASSUME NEW a \in Nat, NEW b \in Nat
    PROVE  Min({a, b}) = IF a <= b THEN a ELSE b
<1> DEFINE m == IF a <= b THEN a ELSE b
<1>1. m \in {a, b} /\ \A y \in {a, b} : m <= y  OBVIOUS
<1>2. \A x \in {a, b} : (\A y \in {a, b} : x <= y) => x = m  OBVIOUS
<1> QED  BY <1>1, <1>2 DEF Min

(* Only the task of the stream, while it waits for an event, takes one. *)
LEMMA TakenEvents ==
    ASSUME StreamInv, Taken, task.pc \in Early
    PROVE  channel' \in Seq(Event) /\ EventsAreInOrder' /\ EndingIsTold'
<1>1. /\ outcome.status = "error" /\ ~HasEnding(channel, page) /\ task.pc # "idle"
      /\ kind \in {"answer", "draft"} /\ outcome.text \in 0..MaxSaid /\ MaxSaid \in Nat
      /\ pending.size \in 0..MaxSaid /\ MaxChars \in Nat /\ channel \in Seq(Event)
      /\ TypeOK /\ EventsAreInOrder /\ kind' = kind /\ page' = page
      /\ task \in [pc : {"idle", "asking", "waiting", "session", "subject", "closing",
                          "saving", "telling"}, attempt : 1..2]
      /\ outcome \in [status : Status, code : Codes, text : 0..MaxSaid]
  BY SizesAssumption
     DEF StreamInv, EndingIsTold, OutcomeIsKnown, Early, TypeOK, Whole, Taken, world
<1>2. \A type \in Endings : ~Carries(channel, page, type)  BY <1>1, CarriedIsEnding
<1>3. CASE TakeText
  <2>1. PICK e \in Event : e.type = "delta" /\ e.size = pending.size /\ e = Say("delta", pending.size)
    BY <1>1 DEF Say, Event
  <2>2. /\ channel' = Append(channel, e) /\ outcome'.text = outcome.text + e.size
        /\ outcome'.status = "error" /\ task'.pc = "waiting" /\ kind = "answer"
    BY <1>1, <1>3, <2>1 DEF TakeText, Goes
  <2>3. /\ channel' \in Seq(Event) /\ EventsAreInOrder'
        /\ ~HasEnding(channel, page)'
        /\ \A type \in Endings : ~Carries(channel, page, type)'
    BY <1>1, <1>2, <2>1, <2>2, Sends DEF Endings
  <2> QED  BY <1>1, <2>2, <2>3 DEF EndingIsTold, Endings
<1>4. CASE TakeUsage \/ TakeFailure
  <2>1. /\ channel' = channel /\ outcome'.text = outcome.text
        /\ outcome'.status = "error" /\ task'.pc # "idle"
    BY <1>1, <1>4 DEF TakeUsage, TakeFailure, Goes
  <2>2. /\ EventsAreInOrder' /\ ~HasEnding(channel, page)'
        /\ \A type \in Endings : ~Carries(channel, page, type)'
    BY <1>1, <1>2, <2>1, Silent
  <2> QED  BY <1>1, <2>1, <2>2 DEF EndingIsTold, Endings, Whole
<1>5. CASE TakeFinished /\ kind = "answer"
  <2>1. channel' = channel /\ outcome'.text = outcome.text /\ task'.pc # "idle"
    BY <1>1, <1>5 DEF TakeFinished, Goes
  <2>2. /\ EventsAreInOrder' /\ ~HasEnding(channel, page)'
        /\ \A type \in Endings : ~Carries(channel, page, type)'
    BY <1>1, <1>2, <2>1, Silent
  <2> QED  BY <1>1, <1>5, <2>1, <2>2 DEF EndingIsTold, Endings
<1>6. CASE TakeFinished /\ kind = "draft"
  <2> DEFINE e == Say(EndingOf(Ended), 0)
  <2>1. e \in Event /\ e.type = EndingOf(Ended) /\ e.size = 0
    BY <1>1 DEF Say, Event, EndingOf, Endings
  <2>2. /\ channel' = Append(channel, e) /\ outcome'.text = outcome.text + e.size
        /\ outcome'.status = Ended /\ task'.pc = "closing"
    BY <1>1, <1>6, <2>1 DEF TakeFinished, Goes
  <2> HIDE DEF e
  <2>3. Ended \in Whole /\ e.type \in {"done", "cut"}  BY <2>1 DEF Ended, Whole, EndingOf
  <2>4. /\ channel' \in Seq(Event) /\ EventsAreInOrder'
        /\ HasEnding(channel, page)'
        /\ \A type \in Endings : Carries(channel, page, type)' <=> type = EndingOf(Ended)
    BY <1>1, <1>2, <2>1, <2>2, <2>3, Sends DEF Endings
  <2> QED  BY <1>1, <1>6, <2>2, <2>3, <2>4 DEF EndingIsTold, Endings
<1>7. CASE TakeDraft
  <2> DEFINE room == MaxChars - outcome.text
             piece == Min({pending.size, room})
             full == pending.size > room
             cut == Say("cut", 0)
             text == Say("delta", piece)
  <2>1. outcome.text <= MaxChars /\ kind = "draft" /\ pending.is = "text"
    <3>1. task.pc \in {"waiting", "session", "subject"}
      <4>1. pending.is = "text"  BY <1>7 DEF TakeDraft
      <4> QED  BY <1>1, <4>1 DEF StreamInv, RequestIsOver, Nothing, Early
    <3> QED  BY <1>7, <3>1 DEF TakeDraft, StreamInv, TextIsCounted
  <2>2. room \in Nat  BY <1>1, <2>1
  <2>3. piece \in 0..MaxSaid /\ piece \in Nat  BY <1>1, <2>2, Lesser
  <2>4. /\ text \in Event /\ text.type = "delta" /\ text.size = piece
        /\ cut \in Event /\ cut.type = "cut" /\ cut.size = 0
    BY <1>1, <2>3 DEF Say, Event, Endings
  <2>5. outcome'.text = outcome.text + piece
    BY <1>1, <1>7 DEF TakeDraft
  <2>6. /\ full => outcome'.status = "length_limit" /\ task'.pc = "closing"
        /\ ~full => outcome'.status = "error" /\ task'.pc = "waiting"
    BY <1>1, <1>7 DEF TakeDraft, Goes
  <2>7. channel' = (channel \o (IF piece = 0 THEN << >> ELSE <<text>>))
                     \o (IF full THEN <<cut>> ELSE << >>)
    BY <1>7 DEF TakeDraft
  <2>8. \A ch \in Seq(Event) : /\ ch \o << >> = ch
                                /\ ch \o <<text>> = Append(ch, text) /\ Append(ch, text) \in Seq(Event)
                                /\ ch \o <<cut>> = Append(ch, cut)
    BY <2>4, ConcatEmptySeq, AppendIsConcat, Appended
  <2> HIDE DEF room, piece, full, cut, text
  <2>9. CASE piece = 0 /\ ~full
    <3>1. channel' = channel /\ outcome'.text = outcome.text
      BY <1>1, <2>5, <2>7, <2>8, <2>9
    <3>2. /\ EventsAreInOrder' /\ ~HasEnding(channel, page)'
          /\ \A type \in Endings : ~Carries(channel, page, type)'
      BY <1>1, <1>2, <3>1, Silent
    <3> QED  BY <1>1, <2>1, <2>6, <2>9, <3>1, <3>2 DEF EndingIsTold, Endings, Whole
  <2>10. CASE piece # 0 /\ ~full
    <3>1. channel' = Append(channel, text)  BY <1>1, <2>7, <2>8, <2>10
    <3>2. /\ channel' \in Seq(Event) /\ EventsAreInOrder'
          /\ ~HasEnding(channel, page)'
          /\ \A type \in Endings : ~Carries(channel, page, type)'
      BY <1>1, <1>2, <2>4, <2>5, <3>1, Sends DEF Endings
    <3> QED  BY <1>1, <2>1, <2>6, <2>10, <3>2 DEF EndingIsTold, Endings, Whole
  <2>11. CASE piece = 0 /\ full
    <3>1. channel' = Append(channel, cut)  BY <1>1, <2>7, <2>8, <2>11
    <3>2. /\ channel' \in Seq(Event) /\ EventsAreInOrder'
          /\ HasEnding(channel, page)'
          /\ \A type \in Endings : Carries(channel, page, type)' <=> type = "cut"
      BY <1>1, <1>2, <2>4, <2>5, <2>11, <3>1, Sends DEF Endings
    <3> QED  BY <1>1, <2>1, <2>6, <2>11, <3>2 DEF EndingIsTold, EndingOf, Endings, Whole
  <2>12. CASE piece # 0 /\ full
    <3>1. channel' = Append(Append(channel, text), cut)  BY <1>1, <2>7, <2>8, <2>12
    <3>2. /\ channel' \in Seq(Event) /\ EventsAreInOrder'
          /\ HasEnding(channel, page)'
          /\ \A type \in Endings : Carries(channel, page, type)' <=> type = "cut"
      BY <1>1, <2>4, <2>5, <3>1, SendsTwo DEF Endings
    <3> QED  BY <1>1, <2>1, <2>6, <2>12, <3>2 DEF EndingIsTold, EndingOf, Endings, Whole
  <2> QED  BY <2>9, <2>10, <2>11, <2>12
<1> QED  BY <1>1, <1>3, <1>4, <1>5, <1>6, <1>7 DEF Taken

(* An answer is told its ending with the close, a draft the close and what failed. *)
LEMMA TellEvents ==
    ASSUME StreamInv, Tell \/ TellDraft
    PROVE  channel' \in Seq(Event) /\ EventsAreInOrder' /\ EndingIsTold'
<1> DEFINE close == Say("end", 0)
<1>1. /\ TypeOK /\ EventsAreInOrder /\ channel \in Seq(Event) /\ MaxSaid \in Nat
      /\ task.pc # "idle" /\ task'.pc = "idle" /\ page' = page /\ outcome' = outcome
      /\ kind' = kind /\ outcome.text \in Nat
      /\ outcome \in [status : Status, code : Codes, text : 0..MaxSaid]
  BY SizesAssumption DEF StreamInv, TypeOK, Tell, TellDraft, Goes, world
<1>2. \A type \in Endings : Carries(channel, page, type) => HasEnding(channel, page)
  BY CarriedIsEnding
<1>3. close \in Event /\ close.type = "end" /\ close.size = 0  BY <1>1 DEF Say, Event
<1>4. "end" \notin Endings /\ "error" \in Endings  BY DEF Endings
<1>5. channel \o << >> = channel /\ channel \o <<close>> = Append(channel, close)
  BY <1>1, <1>3, ConcatEmptySeq, AppendIsConcat
<1>6. ASSUME NEW type \in Endings
      PROVE  /\ Say(type, 0) \in Event /\ Say(type, 0).type = type /\ Say(type, 0).size = 0
             /\ channel \o <<Say(type, 0)>> \o <<close>> = Append(Append(channel, Say(type, 0)), close)
  <2>1. Say(type, 0) \in Event /\ Say(type, 0).type = type /\ Say(type, 0).size = 0
    BY <1>1 DEF Say, Event
  <2>2. Append(channel, Say(type, 0)) \in Seq(Event)  BY <1>1, <2>1, Appended
  <2> QED  BY <1>1, <1>3, <2>1, <2>2, AppendIsConcat
<1>7. outcome.status = "stopped" => ~page.open  BY DEF StreamInv, OutcomeIsKnown
<1> HIDE DEF close
<1>8. CASE channel' = Append(channel, close)
           /\ (~page.open \/ HasEnding(channel, page))
           /\ (HasEnding(channel, page) => outcome.status \in Whole)
  <2>1. /\ channel' \in Seq(Event) /\ EventsAreInOrder'
        /\ HasEnding(channel, page)' <=> HasEnding(channel, page)
        /\ \A type \in Endings : Carries(channel, page, type)' <=> Carries(channel, page, type)
    BY <1>1, <1>3, <1>4, <1>8, Sends
  <2>2. EndingIsTold  BY DEF StreamInv
  <2> QED  BY <1>1, <1>8, <2>1, <2>2 DEF EndingIsTold, Endings
<1>9. ASSUME NEW type \in Endings, channel' = Append(Append(channel, Say(type, 0)), close),
             ~HasEnding(channel, page),
             type = "error" \/ (outcome.status \in Whole /\ type = EndingOf(outcome.status))
      PROVE  channel' \in Seq(Event) /\ EventsAreInOrder' /\ EndingIsTold'
  <2>1. /\ channel' \in Seq(Event) /\ EventsAreInOrder'
        /\ HasEnding(channel, page)'
        /\ \A x \in Endings : Carries(channel, page, x)' <=> type = x
    <3> DEFINE ending == Say(type, 0)
    <3>1. /\ ending \in Event /\ ending.type = type /\ ending.size = 0
          /\ channel' = Append(Append(channel, ending), close)
      BY <1>6, <1>9
    <3>2. outcome'.text = outcome.text + ending.size  BY <1>1, <3>1
    <3> HIDE DEF ending
    <3>3. /\ TypeOK /\ EventsAreInOrder /\ UNCHANGED page /\ ~HasEnding(channel, page)
          /\ ending.type # "delta" => ending.size = 0
          /\ close.type # "delta" /\ close.size = 0
          /\ ending.type \in Endings => close.type = "end"
      BY <1>1, <1>3, <1>9, <3>1
    <3>4. /\ channel' \in Seq(Event) /\ EventsAreInOrder'
          /\ HasEnding(channel, page)' <=> ending.type \in Endings \/ close.type \in Endings
          /\ \A x \in Endings : Carries(channel, page, x)' <=> ending.type = x \/ close.type = x
      BY <1>3, <3>1, <3>2, <3>3, SendsTwo
    <3> QED  BY <1>3, <1>4, <3>1, <3>4
  <2>2. ASSUME NEW e \in {"done", "cut"}, Carries(channel, page, e)'
        PROVE  outcome'.status \in Whole /\ e = EndingOf(outcome'.status)
    <3>1. e = type /\ type # "error"  BY <2>1, <2>2 DEF Endings
    <3> QED  BY <1>1, <1>9, <3>1
  <2>3. task'.pc = "idle"  BY <1>1
  <2> QED  BY <2>1, <2>2, <2>3 DEF EndingIsTold
<1>10. CASE Tell
  <2>1. ~HasEnding(channel, page)  BY <1>1, <1>10 DEF Tell, StreamInv, EndingIsTold
  <2>2. PICK why \in IF outcome.status \in Whole THEN CutOff ELSE {outcome.status} :
          channel' = channel
            \o (CASE why = "no" -> <<Say(EndingOf(outcome.status), 0)>>
                  [] why = "error" -> <<Say("error", 0)>>
                  [] why = "stopped" -> << >>)
            \o <<close>>
    BY <1>10 DEF Tell, close
  <2>3. why = "no" => outcome.status \in Whole  BY <1>1 DEF Whole, Status
  <2>4. why = "stopped" => ~page.open  BY <1>7, <2>2 DEF CutOff
  <2>5. why \in {"no", "error", "stopped"}  BY <1>1, <2>2 DEF CutOff, Status
  <2>6. CASE why = "no"
    <3>1. EndingOf(outcome.status) \in Endings  BY DEF EndingOf, Endings
    <3>2. channel' = channel \o <<Say(EndingOf(outcome.status), 0)>> \o <<close>>  BY <2>2, <2>6
    <3> QED  BY <1>6, <1>9, <2>1, <2>3, <2>6, <3>1, <3>2
  <2>7. CASE why = "error"
    <3>1. channel' = channel \o <<Say("error", 0)>> \o <<close>>  BY <2>2, <2>7
    <3> QED  BY <1>4, <1>6, <1>9, <2>1, <3>1
  <2>8. CASE why = "stopped"
    <3>1. channel' = channel \o << >> \o <<close>>  BY <2>2, <2>8
    <3> QED  BY <1>5, <1>8, <2>1, <2>4, <2>8, <3>1
  <2> QED  BY <2>5, <2>6, <2>7, <2>8
<1>11. CASE TellDraft
  <2>1. HasEnding(channel, page) <=> outcome.status \in Whole
    BY <1>1, <1>11 DEF TellDraft, StreamInv, EndingIsTold
  <2>2. CASE outcome.status = "error"
    <3>1. channel' = channel \o <<Say("error", 0)>> \o <<close>>  BY <1>11, <2>2 DEF TellDraft, close
    <3> QED  BY <1>4, <1>6, <1>9, <2>1, <2>2, <3>1 DEF Whole
  <2>3. CASE outcome.status # "error"
    <3>1. channel' = channel \o << >> \o <<close>>  BY <1>11, <2>3 DEF TellDraft, close
    <3>2. outcome.status \in Whole \/ ~page.open  BY <1>1, <1>7, <2>3 DEF Status
    <3> QED  BY <1>5, <1>8, <2>1, <3>1, <3>2
  <2> QED  BY <2>2, <2>3
<1> QED  BY <1>10, <1>11

(* Steps that neither send nor receive. *)
Quiet == UNCHANGED channel /\ page'.endings = page.endings /\ page'.text = page.text

LEMMA QuietEvents ==
    ASSUME StreamInv, Quiet, outcome'.text = outcome.text, UNCHANGED kind,
           page'.open => page.open,
           task'.pc = "idle" => task.pc = "idle",
           task'.pc # "idle" => task.pc # "idle",
           \/ outcome'.status = outcome.status
           \/ /\ task.pc # "idle"
              /\ kind = "draft" => outcome.status \notin Whole /\ outcome'.status \notin Whole
    PROVE  channel' \in Seq(Event) /\ EventsAreInOrder' /\ EndingIsTold'
<1>1. /\ TypeOK /\ EventsAreInOrder /\ EndingIsTold /\ channel \in Seq(Event)
      /\ kind \in {"answer", "draft"}
  BY DEF StreamInv, TypeOK
<1>2. /\ EventsAreInOrder'
      /\ HasEnding(channel, page)' <=> HasEnding(channel, page)
      /\ \A type : Carries(channel, page, type)' <=> Carries(channel, page, type)
  BY <1>1, Silent DEF Quiet
<1>3. \A type \in Endings : Carries(channel, page, type) => HasEnding(channel, page)
  BY CarriedIsEnding
<1> QED  BY <1>1, <1>2, <1>3 DEF Quiet, EndingIsTold, Endings

LEMMA EventsStep ==
    ASSUME StreamInv, [Next]_vars
    PROVE  channel' \in Seq(Event) /\ EventsAreInOrder' /\ EndingIsTold'
<1>1. /\ TypeOK /\ MaxSaid \in Nat /\ channel \in Seq(Event)
      /\ kind \in {"answer", "draft"} /\ outcome.text \in 0..MaxSaid
      /\ task \in [pc : {"idle", "asking", "waiting", "session", "subject", "closing",
                          "saving", "telling"}, attempt : 1..2]
      /\ outcome \in [status : Status, code : Codes, text : 0..MaxSaid]
      /\ page \in [open : BOOLEAN, text : 0..MaxSaid, endings : Seq(Endings)]
  BY SizesAssumption DEF StreamInv, TypeOK
<1>2. task.pc \in Early => outcome.status \notin Whole
  BY DEF StreamInv, OutcomeIsKnown, Whole
<1>3. ASSUME NEW k \in {"answer", "draft"}, NEW tail \in BOOLEAN, Start(k, tail)
      PROVE  channel' \in Seq(Event) /\ EventsAreInOrder' /\ EndingIsTold'
  <2> DEFINE e == Say("start", 0)
             pg == [open |-> TRUE, text |-> 0, endings |-> << >>]
  <2>1. e \in Event /\ e.type = "start" /\ e.size = 0  BY <1>1 DEF Say, Event
  <2>2. /\ << >> \in Seq(Event) /\ InOrder(<< >>, pg) /\ Flows(<< >>, pg, 0)
        /\ ~HasEnding(<< >>, pg)
    BY NothingIsSent
  <2>3. channel' = <<e>> /\ page' = pg /\ outcome' = Unsaved /\ task'.pc = "asking" /\ kind' = k
    BY <1>3 DEF Start
  <2>4. <<e>> = Append(<< >>, e)  BY <2>1
  <2> HIDE DEF e, pg
  <2>5. /\ Append(<< >>, e) \in Seq(Event)
        /\ InOrder(Append(<< >>, e), pg) /\ Flows(Append(<< >>, e), pg, 0 + e.size)
        /\ ~HasEnding(Append(<< >>, e), pg)
    BY <2>1, <2>2, Appended, Sent, EndingCarried DEF Endings
  <2>6. outcome'.text = 0 + e.size /\ outcome'.status = "error"  BY <2>1, <2>3 DEF Unsaved
  <2>7. EventsAreInOrder' /\ ~HasEnding(channel, page)'
    <3>1. InOrder(channel, page)' <=> InOrder(Append(<< >>, e), pg)  BY <2>3, <2>4 DEF InOrder
    <3>2. Flows(channel, page, outcome.text)' <=> Flows(Append(<< >>, e), pg, 0 + e.size)
      BY <2>3, <2>4, <2>6 DEF Flows
    <3>3. HasEnding(channel, page)' <=> HasEnding(Append(<< >>, e), pg)
      BY <2>3, <2>4 DEF HasEnding
    <3> QED  BY <2>5, <3>1, <3>2, <3>3 DEF EventsAreInOrder
  <2>8. \A type \in Endings : ~Carries(channel, page, type)'
    <3>1. ASSUME NEW type \in Endings, Carries(channel', page', type) PROVE HasEnding(channel', page')
      BY <3>1, CarriedIsEnding
    <3>2. \A type : Carries(channel, page, type)' <=> Carries(channel', page', type)  BY DEF Carries
    <3>3. HasEnding(channel, page)' <=> HasEnding(channel', page')  BY DEF HasEnding
    <3> QED  BY <2>7, <3>1, <3>2, <3>3
  <2> QED  BY <2>3, <2>4, <2>5, <2>6, <2>7, <2>8 DEF EndingIsTold, Endings, Whole
<1>4. CASE World \/ TermEnds \/ Model \/ UNCHANGED vars
  <2>1. /\ UNCHANGED <<kind, channel, task, outcome>>
        /\ page' = page \/ page' = [page EXCEPT !.open = FALSE]
    BY <1>4 DEF World, EndSession, DeleteSubject, LookDue, Leave, TermEnds, Model, Chunk, BodyEnds,
                Breaks, Refused, world, clock, told, vars
  <2> QED  BY <1>1, <2>1, QuietEvents DEF Quiet
<1>5. CASE Receive
  <2> DEFINE e == Head(channel)
  <2>1. /\ page.open /\ channel # << >> /\ channel' = Tail(channel)
        /\ page' = Read(page, e) /\ UNCHANGED <<kind, task, outcome>>
    BY <1>5 DEF Receive, Read, world
  <2>2. /\ Tail(channel) \in Seq(Event)
        /\ InOrder(Tail(channel), Read(page, e))
        /\ Flows(Tail(channel), Read(page, e), outcome.text)
        /\ HasEnding(Tail(channel), Read(page, e)) <=> HasEnding(channel, page)
        /\ \A type \in Endings :
              Carries(Tail(channel), Read(page, e), type) <=> Carries(channel, page, type)
    BY <1>1, <2>1, Received DEF StreamInv, EventsAreInOrder
  <2>3. EventsAreInOrder'
    BY <2>1, <2>2 DEF EventsAreInOrder, InOrder, Flows
  <2>4. /\ HasEnding(channel, page)' <=> HasEnding(channel, page)
        /\ \A type \in Endings : Carries(channel, page, type)' <=> Carries(channel, page, type)
    BY <2>1, <2>2 DEF HasEnding, Carries
  <2>5. EndingIsTold  BY DEF StreamInv
  <2> QED  BY <2>1, <2>2, <2>3, <2>4, <2>5 DEF EndingIsTold, Endings
<1>6. CASE Asking
  <2>1. /\ task.pc = "asking" /\ task'.pc # "idle" /\ outcome'.status = outcome.status
        /\ outcome'.text = outcome.text /\ UNCHANGED <<kind, channel, page>>
    BY <1>1, <1>6 DEF Asking, Ask, AskFails, Goes, world, told
  <2> QED  BY <1>1, <2>1, QuietEvents DEF Quiet
<1>7. CASE Stop \/ TimeOut \/ LookAgain \/ LookAtSession \/ LookFails
           \/ (LookAtSubject /\ ~Taken)
  <2>1. /\ task.pc \in Early \ {"asking"} /\ task'.pc # "idle"
        /\ outcome'.status \in {outcome.status, "stopped", "error"}
        /\ outcome'.text = outcome.text /\ UNCHANGED <<kind, channel, page>>
    BY <1>1, <1>7 DEF Stop, TimeOut, LookAgain, LookAtSession, LookFails, LookAtSubject, Interrupt,
                      Goes, Early, world, told
  <2> QED  BY <1>1, <1>2, <2>1, QuietEvents DEF Quiet, Early, Whole
<1>8. CASE Take \/ (LookAtSubject /\ Taken)
  <2>1. Taken /\ task.pc \in Early  BY <1>8 DEF Take, LookAtSubject, Early
  <2> QED  BY <2>1, TakenEvents
<1>9. CASE Close
  <2>1. /\ task.pc = "closing" /\ task'.pc # "idle" /\ UNCHANGED <<kind, channel, page>>
        /\ \/ outcome' = outcome
           \/ kind = "answer" /\ pending.is = "context_overflow" /\ outcome' = Unsaved
    BY <1>1, <1>9 DEF Close, Goes, world, told
  <2>2. pending.is = "context_overflow" => outcome.text = 0
    BY <1>1, <2>1 DEF StreamInv, TypeOK, TextIsCounted
  <2> QED  BY <1>1, <2>1, <2>2, QuietEvents DEF Quiet, Unsaved
<1>10. CASE Save \/ SaveFails
  <2>1. /\ task.pc = "saving" /\ task'.pc # "idle" /\ UNCHANGED <<kind, channel, page>>
        /\ outcome'.text = outcome.text /\ kind # "draft"
    BY <1>1, <1>10 DEF Save, SaveFails, Goes, world, told, StreamInv, OutcomeIsKnown
  <2> QED  BY <1>1, <2>1, QuietEvents DEF Quiet
<1>11. CASE Tell \/ TellDraft  BY <1>11, TellEvents
<1> QED  BY <1>3, <1>4, <1>5, <1>6, <1>7, <1>8, <1>9, <1>10, <1>11
         DEF Next, Waiting, Ending
-----------------------------------------------------------------------------
(* The request to the model, the text, and the end of it.                  *)

LEMMA RequestStep ==
    ASSUME StreamInv, [Next]_vars
    PROVE  RequestIsOver'
<1>1. RequestIsOver  BY DEF StreamInv
<1>2. task \in [pc : {"idle", "asking", "waiting", "session", "subject", "closing",
                      "saving", "telling"}, attempt : 1..2]
      /\ request \in [open : BOOLEAN, tail : BOOLEAN, received : BOOLEAN, said : 0..MaxSaid,
                      finish : {"none", "stop", "length"}, usage : BOOLEAN]
  BY DEF StreamInv, TypeOK
<1>3. Nothing.is = "none"  BY DEF Nothing
<1>4. ASSUME NEW k \in {"answer", "draft"}, NEW tail \in BOOLEAN, Start(k, tail)
      PROVE  RequestIsOver'
  <2>1. pending' = Nothing /\ ~request'.open
    BY <1>1, <1>4 DEF Start, RequestIsOver, NoRequest
  <2> QED  BY <2>1 DEF RequestIsOver
<1>5. CASE World \/ TermEnds \/ Receive \/ UNCHANGED vars
  <2>1. UNCHANGED <<task, request, pending>>
    BY <1>5 DEF World, EndSession, DeleteSubject, LookDue, Leave, TermEnds, Receive, vars
  <2> QED  BY <1>1, <2>1 DEF RequestIsOver
<1>6. CASE Model
  <2>1. Reading /\ UNCHANGED task
    BY <1>6 DEF Model, Chunk, BodyEnds, Breaks, Refused
  <2> QED  BY <1>1, <1>3, <2>1 DEF RequestIsOver, Reading
<1>7. CASE Asking \/ Stop \/ TimeOut \/ LookAgain \/ LookAtSession \/ LookAtSubject \/ LookFails \/ Take
  <2>1. task'.pc \in {"waiting", "session", "subject", "closing"}
    BY <1>2, <1>7 DEF Asking, Ask, AskFails, Stop, TimeOut, LookAgain, LookAtSession, LookAtSubject,
                      LookFails, Take, Taken, TakeText, TakeDraft, TakeUsage, TakeFinished,
                      TakeFailure, Interrupt, Goes
  <2> QED  BY <2>1 DEF RequestIsOver
<1>8. CASE Close
  <2>1. ~request'.open /\ pending' = Nothing  BY <1>2, <1>8 DEF Close, GivenUp
  <2> QED  BY <2>1 DEF RequestIsOver
<1>9. CASE Save \/ SaveFails \/ Tell \/ TellDraft
  <2>1. task.pc \in {"saving", "telling"} /\ UNCHANGED <<request, pending>>
    BY <1>9 DEF Save, SaveFails, Tell, TellDraft
  <2> QED  BY <1>1, <2>1 DEF RequestIsOver
<1> QED  BY <1>4, <1>5, <1>6, <1>7, <1>8, <1>9 DEF Next, Waiting, Ending

(* A chunk is counted when it comes; behind the last event nothing is said. *)
LEMMA ModelText ==
    ASSUME StreamInv, Model
    PROVE  /\ TextIsCounted'
           /\ request' \in [open : BOOLEAN, tail : BOOLEAN, received : BOOLEAN, said : 0..MaxSaid,
                            finish : {"none", "stop", "length"}, usage : BOOLEAN]
           /\ pending' \in [is : {"none", "running", "text", "usage", "finished"} \union Failures,
                            size : 0..MaxSaid]
<1>0. Reading  BY DEF Model, Chunk, BodyEnds, Breaks, Refused
<1>1. /\ MaxSaid \in Nat /\ Sizes \subseteq 1..MaxSaid
      /\ request \in [open : BOOLEAN, tail : BOOLEAN, received : BOOLEAN, said : 0..MaxSaid,
                       finish : {"none", "stop", "length"}, usage : BOOLEAN]
      /\ pending \in [is : {"none", "running", "text", "usage", "finished"} \union Failures,
                       size : 0..MaxSaid]
      /\ outcome.text \in 0..MaxSaid /\ TextIsCounted
      /\ task.pc \notin {"idle", "asking", "saving", "telling"}
  BY <1>0, SizesAssumption DEF StreamInv, TypeOK, RequestIsOver, Nothing, Reading
<1>2. pending.is = "running" /\ UNCHANGED <<kind, task, outcome>> /\ Held = 0
  BY <1>0 DEF Model, Chunk, BodyEnds, Breaks, Refused, Reading, Held, world
<1>3. ASSUME NEW size \in {0} \union Sizes, NEW finish \in {"none", "stop", "length"},
             NEW usage \in BOOLEAN, Chunk(size, finish, usage)
      PROVE  /\ request'.said = request.said + size /\ request.said + size <= MaxSaid
             /\ request'.received \in BOOLEAN /\ (~request'.received => request'.said = 0)
             /\ request'.finish \in {"none", "stop", "length"}
             /\ \/ pending' = [is |-> "text", size |-> size]
                \/ size = 0 /\ pending' = pending
                \/ size = 0 /\ pending' = [is |-> "finished", size |-> 0] /\ request'.finish # "none"
  <2>1. size \in 0..MaxSaid  BY <1>1
  <2>2. CASE request.finish = "none"
    <3>1. /\ request.said + size <= MaxSaid
          /\ request' = [request EXCEPT !.received = TRUE, !.said = @ + size, !.finish = finish,
                                        !.usage = @ \/ (usage /\ request.tail)]
      BY <1>3, <2>2 DEF Chunk
    <3>2. /\ request'.said = request.said + size /\ request'.received = TRUE
          /\ request'.finish = finish
      BY <1>1, <3>1
    <3>3. \/ pending' = [is |-> "text", size |-> size]
          \/ size = 0 /\ pending' = pending
          \/ size = 0 /\ pending' = [is |-> "finished", size |-> 0] /\ finish # "none"
      BY <1>3, <2>1, <2>2 DEF Chunk, Comes
    <3> QED  BY <3>1, <3>2, <3>3
  <2>3. CASE request.finish # "none"
    <3>1. /\ size = 0 /\ request' = [request EXCEPT !.usage = @ \/ usage] /\ pending' = pending
      BY <1>3, <2>3 DEF Chunk
    <3>2. /\ request'.said = request.said /\ request'.received = request.received
          /\ request'.finish = request.finish
      BY <1>1, <3>1
    <3> QED  BY <1>1, <3>1, <3>2 DEF TextIsCounted
  <2> QED  BY <2>2, <2>3
<1>4. CASE BodyEnds \/ Breaks \/ Refused
  <2>1. /\ request'.said = request.said /\ request'.received = request.received
        /\ request'.finish = request.finish
    BY <1>1, <1>4 DEF BodyEnds, Breaks, Refused
  <2>2. /\ pending'.size = 0
        /\ pending'.is \in {"usage", "finished"} \union Failures
        /\ pending'.is \in {"usage", "finished"} => request.finish # "none"
        /\ pending'.is = "context_overflow" => ~request.received
    BY <1>4 DEF BodyEnds, Breaks, Refused, Comes, Failures
  <2>3. TextIsCounted'
    BY <1>1, <1>2, <2>1, <2>2 DEF TextIsCounted, Held, Failures
  <2>4. request' \in {request, [request EXCEPT !.usage = FALSE]}
    BY <1>4 DEF BodyEnds, Breaks, Refused
  <2>5. \E what : pending' = [is |-> what, size |-> 0]
    BY <1>4 DEF BodyEnds, Breaks, Refused, Comes
  <2>6. pending' \in [is : {"none", "running", "text", "usage", "finished"} \union Failures,
                      size : 0..MaxSaid]
    BY <1>1, <2>2, <2>5
  <2> QED  BY <1>1, <2>3, <2>4, <2>6
<1>5. ASSUME NEW size \in {0} \union Sizes, NEW finish \in {"none", "stop", "length"},
             NEW usage \in BOOLEAN, Chunk(size, finish, usage)
      PROVE  /\ TextIsCounted'
             /\ request' \in [open : BOOLEAN, tail : BOOLEAN, received : BOOLEAN, said : 0..MaxSaid,
                              finish : {"none", "stop", "length"}, usage : BOOLEAN]
             /\ pending' \in [is : {"none", "running", "text", "usage", "finished"} \union Failures,
                              size : 0..MaxSaid]
  <2>1. size \in 0..MaxSaid  BY <1>1
  <2>2. Held' = size
    BY <1>2, <1>3, <1>5 DEF Held
  <2>3. pending'.is # "context_overflow"  BY <1>2, <1>3, <1>5
  <2>4. pending'.is \in {"usage", "finished"} => request'.finish # "none"
    BY <1>2, <1>3, <1>5
  <2>5. TextIsCounted'
    BY <1>1, <1>2, <1>3, <1>5, <2>1, <2>2, <2>3, <2>4 DEF TextIsCounted
  <2>6. request.said + size \in 0..MaxSaid  BY <1>1, <1>3, <1>5, <2>1
  <2>7. request' \in [open : BOOLEAN, tail : BOOLEAN, received : BOOLEAN, said : 0..MaxSaid,
                      finish : {"none", "stop", "length"}, usage : BOOLEAN]
    <3>1. CASE request.finish = "none"
      <4>1. \E u \in BOOLEAN :
              request' = [request EXCEPT !.received = TRUE, !.said = request.said + size,
                                         !.finish = finish, !.usage = u]
        BY <1>1, <1>5, <3>1 DEF Chunk
      <4> QED  BY <1>1, <2>6, <4>1
    <3>2. CASE request.finish # "none"
      <4>1. \E u \in BOOLEAN : request' = [request EXCEPT !.usage = u]
        BY <1>1, <1>5, <3>2 DEF Chunk
      <4> QED  BY <1>1, <4>1
    <3> QED  BY <3>1, <3>2
  <2>8. pending' \in {pending, [is |-> "text", size |-> size], [is |-> "finished", size |-> 0]}
    BY <1>5 DEF Chunk, Comes
  <2>9. pending' \in [is : {"none", "running", "text", "usage", "finished"} \union Failures,
                      size : 0..MaxSaid]
    BY <1>1, <2>1, <2>8
  <2> QED  BY <2>5, <2>7, <2>9
<1> QED  BY <1>4, <1>5 DEF Model

LEMMA TakenText ==
    ASSUME StreamInv, Taken, task.pc \in {"waiting", "session", "subject"}
    PROVE  /\ TextIsCounted'
           /\ outcome' \in [status : Status, code : Codes, text : 0..MaxSaid]
           /\ pending' \in [is : {"none", "running", "text", "usage", "finished"} \union Failures,
                            size : 0..MaxSaid]
           /\ \/ task' = [task EXCEPT !.pc = "closing"] /\ pending' = pending
              \/ /\ task' = [task EXCEPT !.pc = "waiting"] /\ outcome'.status = outcome.status
                 /\ outcome'.code = outcome.code
<1>1. /\ MaxSaid \in Nat /\ MaxChars \in Nat /\ TextIsCounted
      /\ request \in [open : BOOLEAN, tail : BOOLEAN, received : BOOLEAN, said : 0..MaxSaid,
                       finish : {"none", "stop", "length"}, usage : BOOLEAN]
      /\ pending \in [is : {"none", "running", "text", "usage", "finished"} \union Failures,
                       size : 0..MaxSaid]
      /\ task \in [pc : {"idle", "asking", "waiting", "session", "subject", "closing",
                          "saving", "telling"}, attempt : 1..2]
      /\ outcome \in [status : Status, code : Codes, text : 0..MaxSaid]
      /\ UNCHANGED <<kind, request>>
  BY SizesAssumption DEF StreamInv, TypeOK, Taken, world
<1>2. /\ request.said = outcome.text + Held
      /\ kind = "draft" => outcome.text <= MaxChars
      /\ ~request.received \/ pending.is = "context_overflow" => request.said = 0
      /\ pending.is \in {"usage", "finished"} => request.finish # "none"
  BY <1>1 DEF TextIsCounted
<1>3. ASSUME Resumed, pending.is \in {"text", "usage"}
      PROVE  /\ pending'.is \in {"running", "finished"} /\ pending'.size = 0 /\ Held' = 0
             /\ pending' \in [is : {"none", "running", "text", "usage", "finished"} \union Failures,
                              size : 0..MaxSaid]
             /\ pending'.is = "finished" => request.finish # "none"
  BY <1>1, <1>2, <1>3 DEF Resumed, Comes, Held
<1>4. CASE TakeText
  <2>1. /\ Resumed /\ pending.is = "text" /\ kind = "answer"
        /\ task' = [task EXCEPT !.pc = "waiting"]
        /\ outcome' = [outcome EXCEPT !.text = @ + pending.size]
    BY <1>4 DEF TakeText, Goes
  <2>2. outcome'.text = request.said /\ outcome.text + pending.size \in 0..MaxSaid
    BY <1>1, <1>2, <2>1 DEF Held
  <2> QED  BY <1>1, <1>2, <1>3, <2>1, <2>2 DEF TextIsCounted
<1>5. CASE TakeUsage
  <2>1. /\ Resumed /\ pending.is = "usage" /\ outcome' = outcome
        /\ task' = [task EXCEPT !.pc = "waiting"]
    BY <1>5 DEF TakeUsage, Goes
  <2> QED  BY <1>1, <1>2, <1>3, <2>1 DEF TextIsCounted, Held
<1>6. CASE TakeFinished \/ TakeFailure
  <2>1. /\ pending' = pending /\ task' = [task EXCEPT !.pc = "closing"]
        /\ outcome' \in [status : Status, code : Codes, text : 0..MaxSaid]
        /\ outcome'.text = outcome.text
    BY <1>1, <1>6 DEF TakeFinished, TakeFailure, Goes, Ended, Status, Whole, Codes, Failures
  <2> QED  BY <1>1, <1>2, <2>1 DEF TextIsCounted, Held
<1>7. CASE TakeDraft
  <2> DEFINE room == MaxChars - outcome.text
             piece == Min({pending.size, room})
             full == pending.size > room
  <2>1. kind = "draft" /\ pending.is = "text" /\ outcome.text <= MaxChars
    BY <1>2, <1>7 DEF TakeDraft
  <2>2. room \in Nat  BY <1>1, <2>1
  <2>3. piece = IF full THEN room ELSE pending.size  BY <1>1, <2>2, Lesser
  <2>4. /\ outcome' = [outcome EXCEPT !.text = @ + piece,
                                      !.status = IF full THEN "length_limit" ELSE @]
        /\ full => task' = [task EXCEPT !.pc = "closing"] /\ pending' = pending
        /\ ~full => task' = [task EXCEPT !.pc = "waiting"] /\ Resumed
    BY <1>7 DEF TakeDraft, Goes
  <2> HIDE DEF piece
  <2>5. CASE full
    <3>1. outcome.text + piece = MaxChars /\ MaxChars <= request.said
      BY <1>1, <1>2, <2>1, <2>3, <2>5 DEF Held
    <3>2. outcome.text + piece \in 0..MaxSaid  BY <1>1, <3>1
    <3>3. outcome'.text = MaxChars  BY <1>1, <2>4, <3>1
    <3>4. outcome' \in [status : Status, code : Codes, text : 0..MaxSaid]
      BY <1>1, <2>4, <3>2 DEF Status, Whole
    <3> QED  BY <1>1, <1>2, <2>1, <2>4, <2>5, <3>1, <3>3, <3>4 DEF TextIsCounted
  <2>6. CASE ~full
    <3>1. outcome.text + piece = request.said /\ request.said <= MaxChars
      BY <1>1, <1>2, <2>1, <2>3, <2>6 DEF Held
    <3>2. /\ outcome'.text = request.said /\ outcome'.status = outcome.status
          /\ outcome'.code = outcome.code
      BY <1>1, <2>4, <2>6, <3>1
    <3>3. outcome' \in [status : Status, code : Codes, text : 0..MaxSaid]
      BY <1>1, <2>4, <2>6, <3>1
    <3> QED  BY <1>1, <1>2, <1>3, <2>1, <2>4, <2>6, <3>1, <3>2, <3>3 DEF TextIsCounted
  <2> QED  BY <2>5, <2>6
<1> QED  BY <1>4, <1>5, <1>6, <1>7 DEF Taken

(* The parts of the types, opened where a step changes them. *)
RequestShape == [open : BOOLEAN, tail : BOOLEAN, received : BOOLEAN, said : 0..MaxSaid,
                 finish : {"none", "stop", "length"}, usage : BOOLEAN]
PendingShape == [is : {"none", "running", "text", "usage", "finished"} \union Failures,
                 size : 0..MaxSaid]
TaskShape == [pc : {"idle", "asking", "waiting", "session", "subject", "closing", "saving",
                    "telling"},
              attempt : 1..2]
OutcomeShape == [status : Status, code : Codes, text : 0..MaxSaid]
RowShape == [status : Status \union {"streaming"}, text : 0..MaxSaid]
PageShape == [open : BOOLEAN, text : 0..MaxSaid, endings : Seq(Endings)]

Shapes ==
    /\ kind \in {"answer", "draft"}
    /\ {session, subject, term, look} \subseteq BOOLEAN
    /\ request \in RequestShape /\ pending \in PendingShape /\ task \in TaskShape
    /\ outcome \in OutcomeShape /\ row \in RowShape
    /\ channel \in Seq(Event) /\ page \in PageShape
    /\ late \in {"no", "due", "one", "more"}

LEMMA TypesAreShapes == (TypeOK <=> Shapes) /\ (TypeOK' <=> Shapes')
BY DEF TypeOK, Shapes, RequestShape, PendingShape, TaskShape, OutcomeShape, RowShape, PageShape

LEMMA Requests ==
    ASSUME NEW open \in BOOLEAN, NEW tail \in BOOLEAN
    PROVE  /\ [NoRequest EXCEPT !.tail = tail] \in RequestShape
           /\ [NoRequest EXCEPT !.open = open, !.tail = tail] \in RequestShape
<1>1. 0 \in 0..MaxSaid  BY SizesAssumption
<1>2. NoRequest \in RequestShape  BY <1>1 DEF NoRequest, RequestShape
<1>3. ASSUME NEW r \in RequestShape
      PROVE  /\ [r EXCEPT !.tail = tail] \in RequestShape
             /\ [r EXCEPT !.open = open, !.tail = tail] \in RequestShape
  BY DEF RequestShape
<1> QED  BY <1>2, <1>3

LEMMA TypesStep ==
    ASSUME StreamInv, [Next]_vars
    PROVE  TypeOK'
<1>1. /\ Shapes /\ kind \in {"answer", "draft"} /\ {session, subject, term, look} \subseteq BOOLEAN
      /\ request \in RequestShape /\ pending \in PendingShape /\ task \in TaskShape
      /\ outcome \in OutcomeShape /\ row \in RowShape /\ page \in PageShape
      /\ late \in {"no", "due", "one", "more"} /\ channel \in Seq(Event)
  BY TypesAreShapes DEF StreamInv, Shapes
<1>2. channel' \in Seq(Event)  BY EventsStep
<1>3. MaxSaid \in Nat  BY SizesAssumption
<1> SUFFICES Shapes'  BY TypesAreShapes
<1>4. ASSUME NEW k \in {"answer", "draft"}, NEW tail \in BOOLEAN, Start(k, tail)
      PROVE  Shapes'
  <2>1. request' \in RequestShape
    <3>1. [NoRequest EXCEPT !.tail = tail] \in RequestShape  BY Requests
    <3> QED  BY <1>4, <3>1 DEF Start
  <2>2. task' \in TaskShape  BY <1>4 DEF Start, TaskShape
  <2>3. outcome' \in OutcomeShape /\ row' \in RowShape
    BY <1>3, <1>4 DEF Start, Unsaved, Streaming, OutcomeShape, RowShape, Status, Whole, Codes
  <2>4. page' \in PageShape
    <3>1. << >> \in Seq(Endings)  BY EmptySeq
    <3> QED  BY <1>3, <1>4, <3>1 DEF Start, PageShape
  <2> QED  BY <1>1, <1>2, <1>4, <2>1, <2>2, <2>3, <2>4 DEF Start, Shapes
<1>5. CASE World \/ TermEnds \/ UNCHANGED vars
  <2>1. /\ UNCHANGED <<kind, request, pending, task, outcome, row>>
        /\ session' \in {session, FALSE} /\ subject' \in {subject, FALSE}
        /\ term' \in {term, TRUE} /\ look' \in {look, TRUE} /\ late' \in {late, "due"}
        /\ page' \in {page, [page EXCEPT !.open = FALSE]}
    BY <1>5 DEF World, EndSession, DeleteSubject, LookDue, Leave, TermEnds, Due, world, clock, told, vars
  <2>2. page' \in PageShape  BY <1>1, <2>1 DEF PageShape
  <2> QED  BY <1>1, <1>2, <2>1, <2>2 DEF Shapes
<1>6. CASE Receive
  <2>1. page' = Read(page, Head(channel)) /\ channel # << >>  BY <1>6 DEF Receive, Read
  <2>2. page'.text \in 0..MaxSaid
    <3>1. page.endings \in Seq(Endings) /\ outcome.text \in 0..MaxSaid
      BY <1>1 DEF PageShape, OutcomeShape
    <3>2. page'.text \in 0..outcome.text
      BY <1>1, <1>3, <2>1, <3>1, Received DEF StreamInv, EventsAreInOrder
    <3> QED  BY <1>3, <3>1, <3>2
  <2>3. page'.endings \in Seq(Endings)
    <3>1. Head(channel) \in Event /\ page.endings \in Seq(Endings)
      BY <1>1, <2>1, HeadTailProperties DEF PageShape
    <3> QED  BY <2>1, <3>1, EndingReceived
  <2>4. page' \in PageShape  BY <2>1, <2>2, <2>3 DEF Read, PageShape
  <2> QED  BY <1>1, <1>2, <1>6, <2>4 DEF Receive, Shapes, world, clock
<1>7. CASE Model
  <2>1. UNCHANGED <<world, clock, task, outcome, row, page>>
    BY <1>7 DEF Model, Chunk, BodyEnds, Breaks, Refused, told
  <2>2. request' \in RequestShape /\ pending' \in PendingShape
    BY <1>7, ModelText DEF RequestShape, PendingShape
  <2> QED  BY <1>1, <1>2, <2>1, <2>2 DEF Shapes, world, clock
<1>8. CASE Asking
  <2>1. UNCHANGED <<world, clock, row, page>>  BY <1>8 DEF Asking, Ask, AskFails, told
  <2>2. request' \in RequestShape
    <3>1. request.tail \in BOOLEAN  BY <1>1 DEF RequestShape
    <3>2. [NoRequest EXCEPT !.open = TRUE, !.tail = request.tail] \in RequestShape
      BY <3>1, Requests
    <3> QED  BY <1>1, <1>8, <3>2 DEF Asking, Ask, AskFails
  <2>3. pending' \in PendingShape
    BY <1>1, <1>3, <1>8 DEF Asking, Ask, AskFails, Comes, PendingShape
  <2>4. task' \in TaskShape  BY <1>1, <1>8 DEF Asking, Ask, AskFails, Goes, TaskShape
  <2>5. outcome' \in OutcomeShape
    BY <1>1, <1>8 DEF Asking, Ask, AskFails, OutcomeShape, Codes
  <2> QED  BY <1>1, <1>2, <2>1, <2>2, <2>3, <2>4, <2>5 DEF Shapes, world, clock
<1>9. CASE Stop \/ TimeOut \/ LookAgain \/ LookAtSession \/ LookFails
           \/ (LookAtSubject /\ ~Taken)
  <2>1. UNCHANGED <<world, term, late, request, pending, row, page>> /\ look' \in {look, FALSE}
    BY <1>9 DEF Stop, TimeOut, LookAgain, LookAtSession, LookFails, LookAtSubject, Interrupt, clock, told
  <2>2. task' \in TaskShape
    BY <1>1, <1>9 DEF Stop, TimeOut, LookAgain, LookAtSession, LookFails, LookAtSubject, Interrupt,
                      Goes, TaskShape
  <2>3. outcome' \in OutcomeShape
    BY <1>1, <1>9 DEF Stop, TimeOut, LookAgain, LookAtSession, LookFails, LookAtSubject, Interrupt,
                      OutcomeShape, Status, Whole, Codes
  <2> QED  BY <1>1, <1>2, <2>1, <2>2, <2>3 DEF Shapes, world
<1>10. CASE Take \/ (LookAtSubject /\ Taken)
  <2>1. Taken /\ task.pc \in {"waiting", "session", "subject"}
    BY <1>10 DEF Take, LookAtSubject
  <2>2. late' \in {"no", "due", "one", "more"}
    BY <1>1, <2>1 DEF Taken, TakeText, TakeDraft, TakeUsage, TakeFinished, TakeFailure, Late
  <2>3. UNCHANGED <<world, term, look, request, row, page>>  BY <2>1 DEF Taken
  <2>4. outcome' \in OutcomeShape /\ pending' \in PendingShape
    BY <2>1, TakenText DEF OutcomeShape, PendingShape
  <2>5. task' \in TaskShape  BY <1>1, <2>1, TakenText DEF TaskShape
  <2> QED  BY <1>1, <1>2, <2>2, <2>3, <2>4, <2>5 DEF Shapes, world
<1>11. CASE Close
  <2>1. UNCHANGED <<world, clock, row, page>> /\ pending' = Nothing  BY <1>11 DEF Close, told
  <2>2. pending' \in PendingShape /\ request' \in RequestShape
    <3>1. Nothing \in PendingShape  BY <1>3 DEF Nothing, PendingShape
    <3>2. [request EXCEPT !.open = FALSE] \in RequestShape  BY <1>1 DEF RequestShape
    <3> QED  BY <1>11, <2>1, <3>1, <3>2 DEF Close, GivenUp
  <2>3. task' \in TaskShape  BY <1>1, <1>11 DEF Close, Goes, TaskShape
  <2>4. outcome' \in OutcomeShape
    BY <1>1, <1>3, <1>11 DEF Close, Unsaved, OutcomeShape, Status, Whole, Codes
  <2> QED  BY <1>1, <1>2, <2>1, <2>2, <2>3, <2>4 DEF Shapes, world, clock
<1>12. CASE Save \/ SaveFails
  <2>1. UNCHANGED <<world, clock, request, pending, page>>
    BY <1>12 DEF Save, SaveFails, told
  <2>2. row' \in RowShape
    <3>1. [status |-> outcome.status, text |-> outcome.text] \in RowShape
      BY <1>1 DEF OutcomeShape, RowShape
    <3> QED  BY <1>1, <1>12, <3>1 DEF Save, SaveFails, Saved
  <2>3. task' \in TaskShape  BY <1>1, <1>12 DEF Save, SaveFails, Goes, TaskShape
  <2>4. outcome' \in OutcomeShape
    BY <1>1, <1>12 DEF Save, SaveFails, OutcomeShape, Status, Whole, Codes
  <2> QED  BY <1>1, <1>2, <2>1, <2>2, <2>3, <2>4 DEF Shapes, world, clock
<1>13. CASE Tell \/ TellDraft
  <2>1. UNCHANGED <<world, clock, request, pending, outcome, row, page>>
    BY <1>13 DEF Tell, TellDraft
  <2>2. task' \in TaskShape  BY <1>1, <1>13 DEF Tell, TellDraft, Goes, TaskShape
  <2> QED  BY <1>1, <1>2, <2>1, <2>2 DEF Shapes, world, clock
<1> QED  BY <1>4, <1>5, <1>6, <1>7, <1>8, <1>9, <1>10, <1>11, <1>12, <1>13
         DEF Next, Waiting, Ending

LEMMA TextStep ==
    ASSUME StreamInv, [Next]_vars
    PROVE  TextIsCounted'
<1>1. /\ MaxSaid \in Nat /\ MaxChars \in Nat /\ TextIsCounted
      /\ request.said \in Nat /\ outcome.text \in Nat /\ pending.size \in Nat
      /\ task \in TaskShape /\ outcome \in OutcomeShape
  BY SizesAssumption, TypesAreShapes
     DEF StreamInv, Shapes, RequestShape, PendingShape, OutcomeShape
<1>2. ASSUME NEW k \in {"answer", "draft"}, NEW tail \in BOOLEAN, Start(k, tail)
      PROVE  TextIsCounted'
  <2>1. pending' = Nothing  BY <1>2 DEF Start, StreamInv, RequestIsOver
  <2>2. request'.said = 0 /\ outcome'.text = 0 /\ task'.pc = "asking"
    BY <1>2 DEF Start, NoRequest, Unsaved
  <2> QED  BY <2>1, <2>2 DEF TextIsCounted, Nothing
<1>3. CASE World \/ TermEnds \/ Receive \/ Tell \/ TellDraft \/ UNCHANGED vars
  <2>1. /\ UNCHANGED <<kind, request, pending, outcome>>
        /\ task' = task \/ (task.pc = "telling" /\ task' = [task EXCEPT !.pc = "idle"])
    BY <1>3 DEF World, EndSession, DeleteSubject, LookDue, Leave, TermEnds, Receive, Tell, TellDraft,
                Goes, world, clock, told, vars
  <2> QED  BY <1>1, <2>1 DEF TextIsCounted, Held, TaskShape
<1>4. CASE Model  BY <1>4, ModelText
<1>5. CASE Asking
  <2>1. task.pc = "asking" /\ kind' = kind  BY <1>5 DEF Asking, Ask, AskFails, world
  <2>2. outcome.text = 0 /\ outcome'.text = 0
    BY <1>1, <1>5, <2>1 DEF TextIsCounted, Asking, Ask, AskFails, OutcomeShape
  <2>3. \/ UNCHANGED <<request, pending>> /\ task'.pc = "closing"
        \/ request'.said = 0 /\ pending' = [is |-> "running", size |-> 0] /\ task'.pc = "waiting"
    BY <1>1, <1>5 DEF Asking, Ask, AskFails, Comes, Goes, NoRequest, TaskShape
  <2> QED  BY <1>1, <2>1, <2>2, <2>3 DEF TextIsCounted, Held
<1>6. CASE Stop \/ TimeOut \/ LookAgain \/ LookAtSession \/ LookFails
           \/ (LookAtSubject /\ ~Taken)
  <2>1. /\ UNCHANGED <<kind, request, pending>> /\ outcome'.text = outcome.text
        /\ task.pc \in {"waiting", "session", "subject"}
        /\ task'.pc \in {"waiting", "session", "subject", "closing"}
    BY <1>1, <1>6 DEF Stop, TimeOut, LookAgain, LookAtSession, LookFails, LookAtSubject, Interrupt,
                      Goes, world, OutcomeShape, TaskShape
  <2> QED  BY <1>1, <2>1 DEF TextIsCounted, Held
<1>7. CASE Take \/ (LookAtSubject /\ Taken)
  <2>1. Taken /\ task.pc \in {"waiting", "session", "subject"}
    BY <1>7 DEF Take, LookAtSubject
  <2> QED  BY <2>1, TakenText
<1>8. CASE Close
  <2>1. /\ pending' = Nothing /\ request'.said = request.said /\ kind' = kind
        /\ request'.received = request.received /\ task.pc = "closing"
        /\ \/ task'.pc = "asking" /\ outcome' = Unsaved
           \/ task'.pc \in {"saving", "telling"} /\ outcome' = outcome
    <3>1. request \in RequestShape  BY TypesAreShapes DEF StreamInv, Shapes
    <3> QED  BY <1>1, <1>8, <3>1 DEF Close, GivenUp, Goes, world, RequestShape, TaskShape
  <2> QED  BY <1>1, <2>1 DEF TextIsCounted, Nothing, Unsaved
<1>9. CASE Save \/ SaveFails
  <2>1. /\ UNCHANGED <<kind, request, pending>> /\ outcome'.text = outcome.text
        /\ task.pc = "saving" /\ task'.pc = "telling"
    BY <1>1, <1>9 DEF Save, SaveFails, Goes, world, OutcomeShape, TaskShape
  <2> QED  BY <1>1, <2>1 DEF TextIsCounted, Held
<1> QED  BY <1>2, <1>3, <1>4, <1>5, <1>6, <1>7, <1>8, <1>9 DEF Next, Waiting, Ending

LEMMA OutcomeStep ==
    ASSUME StreamInv, [Next]_vars
    PROVE  OutcomeIsKnown'
<1>1. /\ MaxSaid \in Nat /\ MaxChars \in Nat /\ TextIsCounted /\ OutcomeIsKnown /\ RequestIsOver
      /\ kind \in {"answer", "draft"} /\ subject \in BOOLEAN
      /\ request \in RequestShape /\ pending \in PendingShape /\ task \in TaskShape
      /\ outcome \in OutcomeShape /\ page \in PageShape
  BY SizesAssumption, TypesAreShapes DEF StreamInv, Shapes
<1>2. {"error", "stopped"} \intersect Whole = {}  BY DEF Whole
<1>3. ASSUME NEW k \in {"answer", "draft"}, NEW tail \in BOOLEAN, Start(k, tail)
      PROVE  OutcomeIsKnown'
  <2>1. outcome' = Unsaved /\ task'.pc = "asking"  BY <1>3 DEF Start
  <2> QED  BY <1>2, <2>1 DEF OutcomeIsKnown, Unsaved
<1>4. CASE World \/ TermEnds \/ Receive \/ UNCHANGED vars
  <2>1. /\ UNCHANGED <<kind, request, pending, task, outcome, row>>
        /\ subject' \in {subject, FALSE} /\ (page'.open => page.open)
    BY <1>1, <1>4 DEF World, EndSession, DeleteSubject, LookDue, Leave, TermEnds, Receive, world, clock,
                      told, vars, PageShape
  <2>2. (Reading' <=> Reading) /\ Ended' = Ended /\ (Truncated' <=> Truncated)
    BY <2>1 DEF Reading, Ended, Truncated
  <2>3. outcome.status \in Whole => WholeIsKnown'
    <3> SUFFICES ASSUME outcome.status \in Whole PROVE WholeIsKnown'  OBVIOUS
    <3>1. WholeIsKnown  BY <1>1 DEF OutcomeIsKnown
    <3>2. /\ ~Reading' /\ (request'.finish # "none" \/ (kind' = "draft" /\ Truncated'))
          /\ task'.pc = "closing" => outcome'.code # "dialog_deleted"
      BY <2>1, <2>2, <3>1 DEF WholeIsKnown
    <3>3. kind' = "answer" => outcome'.status = Ended' /\ outcome'.text = request'.said
      BY <2>1, <2>2, <3>1 DEF WholeIsKnown
    <3>4. kind' = "draft" =>
            /\ outcome'.text = Min({request'.said, MaxChars})
            /\ outcome'.status = "length_limit" <=> Truncated'
      BY <2>1, <2>2, <3>1 DEF WholeIsKnown
    <3>5. kind' = "answer" /\ task'.pc \in {"telling", "idle"} /\ subject' =>
            row' = [status |-> outcome'.status, text |-> outcome'.text]
      <4>1. subject' => subject  BY <2>1
      <4>2. kind = "answer" /\ task.pc \in {"telling", "idle"} /\ subject =>
              row = [status |-> outcome.status, text |-> outcome.text]
        BY <3>1 DEF WholeIsKnown
      <4> QED  BY <2>1, <4>1, <4>2
    <3> QED  BY <3>2, <3>3, <3>4, <3>5 DEF WholeIsKnown
  <2> QED  BY <1>1, <2>1, <2>3 DEF OutcomeIsKnown
<1>5. CASE Model
  <2>1. Reading /\ UNCHANGED <<kind, task, outcome, page>>
    BY <1>5 DEF Model, Chunk, BodyEnds, Breaks, Refused, world, told
  <2>2. outcome.status \notin Whole  BY <1>1, <2>1 DEF OutcomeIsKnown, WholeIsKnown
  <2> QED  BY <1>1, <2>1, <2>2 DEF OutcomeIsKnown
<1>6. CASE Asking
  <2>1. /\ UNCHANGED <<kind, page>> /\ outcome'.status = outcome.status /\ outcome.status = "error"
        /\ \/ task'.pc = "waiting" /\ outcome'.code = outcome.code
           \/ task'.pc = "closing"
    BY <1>1, <1>6 DEF Asking, Ask, AskFails, Goes, world, told, OutcomeIsKnown, Early, TaskShape,
                      OutcomeShape
  <2>2. outcome.code = "internal_error"
    BY <1>1, <1>6 DEF Asking, Ask, AskFails, OutcomeIsKnown, Early
  <2> QED  BY <1>2, <2>1, <2>2 DEF OutcomeIsKnown, Early
<1>7. CASE Stop \/ TimeOut \/ LookAgain \/ LookAtSession \/ LookFails
           \/ (LookAtSubject /\ ~Taken)
  <2>1. task.pc \in {"waiting", "session", "subject"} /\ UNCHANGED <<kind, page>>
    BY <1>7 DEF Stop, TimeOut, LookAgain, LookAtSession, LookFails, LookAtSubject, Interrupt, world,
                told
  <2>2. outcome.status = "error" /\ outcome.code = "internal_error"
    BY <1>1, <2>1 DEF OutcomeIsKnown, Early
  <2>3. \/ \E code : Interrupt("error", code)
        \/ ~page.open /\ \E code : Interrupt("stopped", code)
        \/ task'.pc \in {"waiting", "session", "subject"} /\ outcome' = outcome
    BY <1>1, <1>7 DEF Stop, TimeOut, LookAgain, LookAtSession, LookFails, LookAtSubject, Goes, TaskShape
  <2>4. ASSUME NEW status, NEW code, Interrupt(status, code)
        PROVE  outcome'.status = status /\ task'.pc = "closing"
    BY <1>1, <2>4 DEF Interrupt, Goes, TaskShape, OutcomeShape
  <2>5. \/ /\ task'.pc = "closing" /\ outcome'.status \in {"stopped", "error"}
           /\ outcome'.status = "stopped" => ~page.open
        \/ task'.pc \in {"waiting", "session", "subject"} /\ outcome' = outcome
    BY <2>3, <2>4
  <2> QED  BY <1>2, <2>1, <2>2, <2>5 DEF OutcomeIsKnown, Early
<1>8. CASE Take \/ (LookAtSubject /\ Taken)
  <2>1. Taken /\ task.pc \in {"waiting", "session", "subject"} /\ UNCHANGED <<kind, request, page>>
    BY <1>8 DEF Take, LookAtSubject, Taken, world
  <2>2. outcome.status = "error" /\ outcome.code = "internal_error"
    BY <1>1, <2>1 DEF OutcomeIsKnown, Early
  <2>3. /\ request.said = outcome.text + Held /\ (kind = "draft" => outcome.text <= MaxChars)
        /\ pending.is = "finished" => request.finish # "none"
    BY <1>1, <2>1 DEF TextIsCounted
  <2>4. request.said \in Nat /\ outcome.text \in Nat /\ pending.size \in Nat
    BY <1>1 DEF RequestShape, OutcomeShape, PendingShape
  <2>5. CASE outcome'.status = "error" /\ task'.pc = "closing"
    BY <1>2, <2>1, <2>5 DEF OutcomeIsKnown, Early
  <2>6. CASE /\ outcome'.status = outcome.status /\ outcome'.code = outcome.code
             /\ task'.pc = "waiting"
    BY <1>2, <2>1, <2>2, <2>6 DEF OutcomeIsKnown
  <2>7. CASE TakeFinished
    <3>1. /\ pending.is = "finished" /\ pending' = pending /\ task'.pc = "closing"
          /\ outcome'.status = Ended /\ outcome'.text = outcome.text
          /\ outcome'.code = "internal_error"
      BY <1>1, <2>2, <2>7 DEF TakeFinished, Goes, TaskShape, OutcomeShape
    <3>2. outcome.text = request.said  BY <2>3, <2>4, <3>1 DEF Held
    <3>3. kind = "draft" =>
            outcome.text = Min({request.said, MaxChars}) /\ ~(request.said > MaxChars)
      BY <1>1, <2>3, <2>4, <3>2, Lesser
    <3>4. Ended = "length_limit" <=> request.finish = "length"  BY DEF Ended
    <3>5. ~Reading'  BY <2>1, <3>1 DEF Reading
    <3>6. Ended' = Ended /\ (Truncated' <=> Truncated)  BY <2>1 DEF Ended, Truncated
    <3>7. kind = "draft" => (Ended = "length_limit" <=> Truncated)
      BY <3>3, <3>4 DEF Truncated
    <3>8. WholeIsKnown'
      BY <2>1, <2>3, <3>1, <3>2, <3>3, <3>5, <3>6, <3>7 DEF WholeIsKnown
    <3>9. outcome'.status # "stopped"  BY <3>1 DEF Ended
    <3> QED  BY <3>1, <3>8, <3>9 DEF OutcomeIsKnown, Early
  <2>8. CASE TakeDraft
    <3> DEFINE room == MaxChars - outcome.text
               piece == Min({pending.size, room})
               full == pending.size > room
    <3>1. /\ kind = "draft" /\ pending.is = "text"
          /\ outcome' = [outcome EXCEPT !.text = @ + piece,
                                        !.status = IF full THEN "length_limit" ELSE @]
          /\ full => task' = [task EXCEPT !.pc = "closing"] /\ pending' = pending
          /\ ~full => task' = [task EXCEPT !.pc = "waiting"]
      BY <2>8 DEF TakeDraft, Goes
    <3>2. room \in Nat  BY <1>1, <2>3, <2>4, <3>1
    <3>3. CASE full
      <4>1. piece = room  BY <2>4, <3>2, <3>3, Lesser
      <4> HIDE DEF piece
      <4>2. /\ outcome'.text = MaxChars /\ outcome'.status = "length_limit"
            /\ outcome'.code = "internal_error" /\ task'.pc = "closing"
        BY <1>1, <2>2, <2>4, <3>1, <3>3, <4>1 DEF TaskShape, OutcomeShape
      <4>3. request.said > MaxChars  BY <1>1, <2>3, <2>4, <3>1, <3>3 DEF Held
      <4>4. Min({request.said, MaxChars}) = MaxChars  BY <1>1, <2>4, <4>3, Lesser
      <4>5. Truncated' /\ Truncated  BY <2>1, <4>3 DEF Truncated
      <4>6. ~Reading'  BY <3>1, <3>3 DEF Reading
      <4>7. WholeIsKnown'  BY <2>1, <3>1, <4>2, <4>4, <4>5, <4>6 DEF WholeIsKnown
      <4> QED  BY <4>2, <4>7 DEF OutcomeIsKnown, Early
    <3>4. CASE ~full
      <4>1. /\ outcome'.status = outcome.status /\ outcome'.code = outcome.code
            /\ task'.pc = "waiting"
        BY <1>1, <3>1, <3>4 DEF TaskShape, OutcomeShape
      <4> QED  BY <2>6, <4>1
    <3> QED  BY <3>3, <3>4
  <2>9. CASE TakeText \/ TakeUsage
    <3>1. /\ outcome'.status = outcome.status /\ outcome'.code = outcome.code
          /\ task'.pc = "waiting"
      BY <1>1, <2>9 DEF TakeText, TakeUsage, Goes, TaskShape, OutcomeShape
    <3> QED  BY <2>6, <3>1
  <2>10. CASE TakeFailure
    <3>1. outcome'.status = "error" /\ task'.pc = "closing"
      BY <1>1, <2>10 DEF TakeFailure, Goes, TaskShape, OutcomeShape
    <3> QED  BY <2>5, <3>1
  <2> QED  BY <2>1, <2>7, <2>8, <2>9, <2>10 DEF Taken
<1>9. CASE Close
  <2>1. /\ UNCHANGED <<kind, subject, page, row>> /\ task.pc = "closing" /\ ~request'.open
        /\ request'.said = request.said /\ request'.finish = request.finish
        /\ \/ task'.pc = "asking" /\ outcome' = Unsaved
           \/ /\ outcome' = outcome
              /\ task'.pc = IF kind = "draft" \/ outcome.code = "dialog_deleted" THEN "telling"
                            ELSE "saving"
    BY <1>1, <1>9 DEF Close, GivenUp, Goes, world, told, RequestShape, TaskShape
  <2>2. CASE task'.pc = "asking" /\ outcome' = Unsaved
    BY <1>2, <2>1, <2>2 DEF OutcomeIsKnown, Unsaved
  <2>3. CASE /\ outcome' = outcome
             /\ task'.pc = IF kind = "draft" \/ outcome.code = "dialog_deleted" THEN "telling"
                           ELSE "saving"
    <3>1. outcome.status \in Whole => WholeIsKnown'
      BY <1>1, <2>1, <2>3 DEF OutcomeIsKnown, WholeIsKnown, Reading, Ended, Truncated
    <3> QED  BY <1>1, <2>1, <2>3, <3>1 DEF OutcomeIsKnown, Early
  <2> QED  BY <2>1, <2>2, <2>3
<1>10. CASE Save
  <2>1. /\ UNCHANGED <<kind, subject, page, request, pending, outcome>> /\ task.pc = "saving"
        /\ task'.pc = "telling"
        /\ subject => row' = [status |-> outcome.status, text |-> outcome.text]
    BY <1>1, <1>10 DEF Save, Saved, Goes, world, told, TaskShape
  <2> QED  BY <1>1, <2>1 DEF OutcomeIsKnown, WholeIsKnown, Early, Reading, Ended, Truncated
<1>11. CASE SaveFails
  <2>1. /\ UNCHANGED <<kind, page>> /\ outcome'.status = "error" /\ task'.pc = "telling"
    BY <1>1, <1>11 DEF SaveFails, Goes, world, told, TaskShape, OutcomeShape
  <2> QED  BY <1>2, <2>1 DEF OutcomeIsKnown, Early
<1>12. CASE Tell \/ TellDraft
  <2>1. /\ UNCHANGED <<kind, subject, page, request, pending, outcome, row>>
        /\ task.pc = "telling" /\ task'.pc = "idle"
    BY <1>1, <1>12 DEF Tell, TellDraft, Goes, world, TaskShape
  <2> QED  BY <1>1, <2>1 DEF OutcomeIsKnown, WholeIsKnown, Early, Reading, Ended, Truncated
<1> QED  BY <1>3, <1>4, <1>5, <1>6, <1>7, <1>8, <1>9, <1>10, <1>11, <1>12
         DEF Next, Waiting, Ending

LEMMA CutOffStep ==
    ASSUME StreamInv, [Next]_vars
    PROVE  CutOffIsAhead'
<1>1. /\ CutOffIsAhead /\ OutcomeIsKnown
      /\ session \in BOOLEAN /\ subject \in BOOLEAN /\ term \in BOOLEAN /\ look \in BOOLEAN
      /\ task \in TaskShape /\ outcome \in OutcomeShape
      /\ late \in {"no", "due", "one", "more"}
  BY TypesAreShapes DEF StreamInv, Shapes
<1> DEFINE Shown == term \/ (look /\ Gone)
<1>2. ASSUME NEW k \in {"answer", "draft"}, NEW tail \in BOOLEAN, Start(k, tail)
      PROVE  CutOffIsAhead'
  BY <1>2 DEF Start, CutOffIsAhead
<1>3. CASE World \/ TermEnds
  <2>1. /\ UNCHANGED <<task, outcome>> /\ (Gone => Gone') /\ (subject' => subject)
        /\ (term => term') /\ (look => look')
        /\ late' \in {late, "due"} /\ (late' # late => late = "no" /\ (term' \/ (look' /\ Gone')))
    BY <1>1, <1>3 DEF World, EndSession, DeleteSubject, LookDue, Leave, TermEnds, Due, Gone, world,
                      clock
  <2>2. late # "no" /\ Shown => Shown'  BY <2>1
  <2> QED  BY <1>1, <2>1, <2>2 DEF CutOffIsAhead
<1>4. CASE Receive \/ Model \/ UNCHANGED vars
  <2>1. UNCHANGED <<session, subject, term, look, late, task, outcome>>
    BY <1>4 DEF Receive, Model, Chunk, BodyEnds, Breaks, Refused, world, clock, vars
  <2> QED  BY <1>1, <2>1 DEF CutOffIsAhead, Gone
<1>5. CASE Asking
  <2>1. /\ UNCHANGED <<session, subject, term, look, late>> /\ task.pc = "asking"
        /\ \/ task'.pc = "waiting"
           \/ task'.pc = "closing" /\ outcome'.code # "message_too_long"
    BY <1>1, <1>5 DEF Asking, Ask, AskFails, Goes, world, clock, TaskShape, OutcomeShape
  <2> QED  BY <1>1, <2>1 DEF CutOffIsAhead, Gone
<1>6. CASE Stop \/ TimeOut \/ LookFails \/ (LookAtSession /\ ~session)
           \/ (LookAtSubject /\ ~subject)
  <2>1. UNCHANGED <<session, subject, term, look, late>> /\ task.pc \in Early
    BY <1>6 DEF Stop, TimeOut, LookFails, LookAtSession, LookAtSubject, Interrupt, world, clock,
                Early
  <2>2. outcome.code = "internal_error"  BY <1>1, <2>1 DEF OutcomeIsKnown
  <2>3. \E status, code : Interrupt(status, code) /\ code # "message_too_long"
    BY <1>6, <2>2 DEF Stop, TimeOut, LookFails, LookAtSession, LookAtSubject
  <2>4. task'.pc = "closing" /\ outcome'.code # "message_too_long"
    BY <1>1, <2>3 DEF Interrupt, Goes, TaskShape, OutcomeShape
  <2> QED  BY <1>1, <2>1, <2>4 DEF CutOffIsAhead
<1>7. CASE LookAgain
  <2>1. /\ UNCHANGED <<session, subject, term, late>> /\ task.pc = "waiting" /\ ~term
        /\ task'.pc = "session"
    BY <1>1, <1>7 DEF LookAgain, Goes, world, TaskShape
  <2>2. late # "no" => Gone  BY <1>1, <2>1 DEF CutOffIsAhead
  <2> QED  BY <1>1, <2>1, <2>2 DEF CutOffIsAhead, Gone
<1>8. CASE LookAtSession /\ session
  <2>1. /\ UNCHANGED <<session, subject, term, look, late>> /\ task.pc = "session"
        /\ task'.pc = "subject"
    BY <1>1, <1>8 DEF LookAtSession, Goes, world, clock, TaskShape
  <2> QED  BY <1>1, <1>8, <2>1 DEF CutOffIsAhead, Gone
<1>9. ASSUME Taken, UNCHANGED <<term, look>>, late # "no" => Shown, late \in {"no", "due"}
      PROVE  CutOffIsAhead'
  <2>1. task'.pc \in {"waiting", "closing"}
    BY <1>1, <1>9 DEF Taken, TakeText, TakeDraft, TakeUsage, TakeFinished, TakeFailure, Goes,
                      TaskShape
  <2>2. late' \in {late, "no", "one"} /\ (late = "no" => late' = "no")
    BY <1>9 DEF Taken, TakeText, TakeDraft, TakeUsage, TakeFinished, TakeFailure, Late
  <2>3. UNCHANGED <<session, subject>>  BY <1>9 DEF Taken, world
  <2> QED  BY <1>9, <2>1, <2>2, <2>3 DEF CutOffIsAhead, Gone
<1>10. CASE LookAtSubject /\ subject
  <2>1. task.pc = "subject" /\ UNCHANGED <<session, subject, term, look>>
    BY <1>10 DEF LookAtSubject, Taken, Interrupt, world, clock
  <2>2. (late # "no" => Shown) /\ late \in {"no", "due"}
    BY <1>1, <1>10, <2>1 DEF CutOffIsAhead
  <2>3. CASE Taken  BY <1>9, <2>1, <2>2, <2>3
  <2>4. CASE ~Taken
    <3>1. task'.pc = "waiting" /\ UNCHANGED late
      BY <1>1, <1>10, <2>4 DEF LookAtSubject, Goes, clock, TaskShape
    <3> QED  BY <2>1, <2>2, <3>1 DEF CutOffIsAhead, Gone
  <2> QED  BY <2>3, <2>4
<1>11. CASE Take
  <2>1. task.pc = "waiting" /\ ~term /\ ~look /\ Taken  BY <1>11 DEF Take
  <2>2. late = "no"  BY <1>1, <2>1 DEF CutOffIsAhead
  <2> QED  BY <1>9, <2>1, <2>2 DEF Taken
<1>12. CASE Close
  <2>1. /\ UNCHANGED <<session, subject, term, look, late>> /\ task.pc = "closing"
        /\ \/ outcome.code = "message_too_long" /\ task'.pc = "asking"
           \/ task'.pc \in {"saving", "telling"}
    BY <1>1, <1>12 DEF Close, Goes, world, clock, TaskShape
  <2> QED  BY <1>1, <2>1 DEF CutOffIsAhead, Gone
<1>13. CASE Save \/ SaveFails \/ Tell \/ TellDraft
  <2>1. UNCHANGED late /\ task'.pc \in {"telling", "idle"}
    BY <1>1, <1>13 DEF Save, SaveFails, Tell, TellDraft, Goes, clock, TaskShape
  <2> QED  BY <1>1, <2>1 DEF CutOffIsAhead
<1> QED  BY <1>1, <1>2, <1>3, <1>4, <1>5, <1>6, <1>7, <1>8, <1>10, <1>11, <1>12, <1>13
         DEF Next, Waiting, Ending

LEMMA RequestStarts == Init => RequestIsOver
BY DEF Init, RequestIsOver, NoRequest

LEMMA StreamStarts == Init => StreamInv
<1> SUFFICES ASSUME Init PROVE StreamInv  OBVIOUS
<1>1. MaxSaid \in Nat  BY SizesAssumption
<1>2. << >> \in Seq(Event) /\ << >> \in Seq(Endings)  BY EmptySeq
<1>3. TypeOK
  <2>1. request \in RequestShape  BY <1>1 DEF Init, NoRequest, RequestShape
  <2>2. pending \in PendingShape  BY <1>1 DEF Init, Nothing, PendingShape
  <2>3. task \in TaskShape  BY DEF Init, TaskShape
  <2>4. outcome \in OutcomeShape /\ row \in RowShape
    BY <1>1 DEF Init, Unsaved, Streaming, OutcomeShape, RowShape, Status, Whole, Codes
  <2>5. page \in PageShape  BY <1>1, <1>2 DEF Init, PageShape
  <2> QED  BY <1>2, <2>1, <2>2, <2>3, <2>4, <2>5, TypesAreShapes DEF Init, Shapes
<1>4. page.endings = << >> /\ page.text = 0 /\ ~page.open  BY DEF Init
<1>5. EventsAreInOrder /\ ~HasEnding(channel, page)
  BY <1>4, NothingIsSent DEF Init, EventsAreInOrder, Unsaved
<1>6. EndingIsTold
  <2>1. \A e \in {"done", "cut"} : ~Carries(channel, page, e)
    BY <1>5, CarriedIsEnding DEF Endings
  <2> QED  BY <1>4, <1>5, <2>1 DEF Init, EndingIsTold
<1>7. TextIsCounted  BY DEF Init, TextIsCounted, NoRequest, Nothing, Unsaved
<1>8. OutcomeIsKnown  BY DEF Init, OutcomeIsKnown, Unsaved, Early, Whole
<1>9. RequestIsOver  BY RequestStarts
<1>10. CutOffIsAhead  BY DEF Init, CutOffIsAhead
<1> QED  BY <1>3, <1>5, <1>6, <1>7, <1>8, <1>9, <1>10 DEF StreamInv

LEMMA StreamGoesOn == StreamInv /\ [Next]_vars => StreamInv'
BY TypesStep, EventsStep, TextStep, OutcomeStep, RequestStep, CutOffStep DEF StreamInv

LEMMA StreamInvariant == Spec => []StreamInv
BY StreamStarts, StreamGoesOn, PTL DEF Spec
-----------------------------------------------------------------------------
(* An answer and a draft keep to the types of what the page, the task and the database hold: *)
(* above all, no sum of pieces is more than the model said.                                  *)
THEOREM StreamTypes == Spec => []TypeOK
<1>1. StreamInv => TypeOK  BY DEF StreamInv
<1> QED  BY <1>1, StreamInvariant, PTL

EndingsIn(ch) == {i \in 1..Len(ch) : ch[i].type \in Endings}

(* At most one ending is on its way, and none when one was received. *)
LEMMA OneEnding ==
    ASSUME NEW ch \in Seq(Event), NEW pg, pg.endings \in Seq(Endings), InOrder(ch, pg)
    PROVE  /\ Len(pg.endings) + Cardinality(EndingsIn(ch)) \in {0, 1}
           /\ HasEnding(ch, pg) <=> Len(pg.endings) + Cardinality(EndingsIn(ch)) = 1
<1> DEFINE coming == EndingsIn(ch)
           told_ == Len(pg.endings)
<1>1. Len(ch) \in Nat /\ told_ \in Nat  BY LenProperties
<1>2. pg.endings = << >> <=> told_ = 0  BY EmptySeq
<1>3. Len(pg.endings) <= 1  BY DEF InOrder
<1>4. \A i \in coming :
        i \in 1..Len(ch) /\ pg.endings = << >> /\ \A j \in 1..(i - 1) : ch[j].type \notin Endings
  BY DEF EndingsIn, InOrder, Endings
<1>5. \A i, j \in coming : i = j
  <2>1. ASSUME NEW i \in coming, NEW j \in coming, i < j PROVE FALSE
    <3>1. i \in 1..(j - 1)  BY <1>1, <1>4, <2>1
    <3>2. ch[i].type \in Endings  BY DEF EndingsIn
    <3> QED  BY <1>4, <3>1, <3>2
  <2>2. \A i \in coming : i \in Nat  BY <1>1, <1>4
  <2> QED  BY <2>1, <2>2
<1>6. HasEnding(ch, pg) <=> told_ # 0 \/ coming # {}
  BY <1>2 DEF HasEnding, EndingsIn
<1>7. told_ <= 1  BY <1>3
<1> HIDE DEF coming, told_
<1>8. told_ \in {0, 1}  BY <1>1, <1>7
<1>9. /\ told_ + Cardinality(coming) \in {0, 1}
      /\ HasEnding(ch, pg) <=> told_ + Cardinality(coming) = 1
  <2>1. CASE coming = {}
    <3>1. Cardinality(coming) = 0  BY <2>1, FS_EmptySet
    <3> QED  BY <1>6, <1>8, <2>1, <3>1
  <2>2. CASE coming # {}
    <3>1. PICK i : i \in coming  BY <2>2
    <3>2. coming = {i}  BY <1>5, <3>1
    <3>3. Cardinality(coming) = 1  BY <3>2, FS_Singleton
    <3>4. told_ = 0  BY <1>2, <1>4, <3>1
    <3> QED  BY <1>6, <2>2, <3>3, <3>4
  <2> QED  BY <2>1, <2>2
<1> QED  BY <1>9 DEF coming, told_

(* A page that reads on gets exactly one ending and nothing but the close behind it.  Told  *)
(* that the answer is whole, it has all the model said, in the state that is saved; a draft *)
(* has all of it up to the limit, and says whether something is missing.                    *)
THEOREM EndingsAreTrue == Spec => []EndingIsTrue
<1>1. StreamInv => EndingIsTrue
  <2> SUFFICES ASSUME StreamInv PROVE EndingIsTrue  OBVIOUS
  <2>1. /\ channel \in Seq(Event) /\ page.endings \in Seq(Endings)
        /\ kind \in {"answer", "draft"} /\ InOrder(channel, page) /\ EndingIsTold
        /\ OutcomeIsKnown /\ Flows(channel, page, outcome.text)
    BY TypesAreShapes DEF StreamInv, Shapes, PageShape, EventsAreInOrder
  <2>2. /\ Len(page.endings) + Cardinality(Coming) \in {0, 1}
        /\ HasEnding(channel, page) <=> Len(page.endings) + Cardinality(Coming) = 1
    BY <2>1, OneEnding DEF Coming, EndingsIn
  <2>3. page.open /\ task.pc = "idle" => HasEnding(channel, page)  BY <2>1 DEF EndingIsTold
  <2>4. ASSUME NEW i \in 1..Len(channel),
               page.endings # << >> \/ \E j \in 1..(i - 1) : channel[j].type \in Endings
        PROVE  channel[i].type = "end"
    BY <2>1, <2>4 DEF InOrder
  <2>5. ASSUME NEW ending \in {"done", "cut"} \intersect ToSet(page.endings)
        PROVE  /\ request.finish # "none" \/ (kind = "draft" /\ Truncated)
               /\ kind = "answer" =>
                    /\ page.text = request.said
                    /\ ending = EndingOf(Ended)
                    /\ subject => row = [status |-> Ended, text |-> page.text]
               /\ kind = "draft" =>
                    /\ page.text = Min({request.said, MaxChars})
                    /\ (ending = "cut") = Truncated
    <3>1. /\ Carries(channel, page, ending) /\ ending \in Endings
      BY DEF Carries, Endings
    <3>2. outcome.status \in Whole /\ ending = EndingOf(outcome.status)
      BY <2>1, <3>1 DEF EndingIsTold
    <3>3. WholeIsKnown  BY <2>1, <3>2 DEF OutcomeIsKnown
    <3>4. page.endings # << >>
      <4>1. page.endings = << >> => ToSet(page.endings) = {}  BY DEF ToSet
      <4> QED  BY <4>1
    <3>5. page.text = outcome.text  BY <2>1, <3>4 DEF Flows
    <3>6. kind = "answer" => task.pc = "idle"
      BY <2>1, <3>1, CarriedIsEnding DEF EndingIsTold
    <3>7. ending = "cut" <=> outcome.status = "length_limit"
      BY <3>2 DEF EndingOf, Whole
    <3>8. Truncated \in BOOLEAN  BY DEF Truncated
    <3>9. kind = "draft" => (ending = "cut") = Truncated
      BY <3>3, <3>7, <3>8 DEF WholeIsKnown
    <3>10. /\ request.finish # "none" \/ (kind = "draft" /\ Truncated)
           /\ kind = "draft" => page.text = Min({request.said, MaxChars})
      BY <3>3, <3>5 DEF WholeIsKnown
    <3>11. kind = "answer" => outcome.status = Ended /\ page.text = request.said
      BY <3>3, <3>5 DEF WholeIsKnown
    <3>12. kind = "answer" /\ subject => row = [status |-> outcome.status, text |-> page.text]
      BY <3>3, <3>5, <3>6 DEF WholeIsKnown
    <3> QED  BY <3>2, <3>9, <3>10, <3>11, <3>12
  <2>6. Len(page.endings) + Cardinality(Coming) <= 1  BY <2>2
  <2>7. page.open /\ task.pc = "idle" => Len(page.endings) + Cardinality(Coming) = 1
    BY <2>2, <2>3
  <2>8. \A i \in 1..Len(channel) :
          page.endings # << >> \/ (\E j \in 1..(i - 1) : channel[j].type \in Endings) =>
              channel[i].type = "end"
    BY <2>4
  <2>9. \A ending \in {"done", "cut"} \intersect ToSet(page.endings) :
          /\ request.finish # "none" \/ (kind = "draft" /\ Truncated)
          /\ kind = "answer" =>
               /\ page.text = request.said
               /\ ending = EndingOf(Ended)
               /\ subject => row = [status |-> Ended, text |-> page.text]
          /\ kind = "draft" =>
               /\ page.text = Min({request.said, MaxChars})
               /\ (ending = "cut") = Truncated
    BY <2>5
  <2> QED  BY <2>6, <2>7, <2>8, <2>9 DEF EndingIsTrue
<1> QED  BY <1>1, StreamInvariant, PTL

(* A stream whose time is over, whose session or subject is found gone, passes on one more  *)
(* piece at most; when it has ended, nothing of it runs on at the model.                    *)
THEOREM CutOffsAreHeeded == Spec => []CutOffIsHeeded
<1>1. StreamInv => CutOffIsHeeded
  BY DEF StreamInv, CutOffIsAhead, RequestIsOver, CutOffIsHeeded
<1> QED  BY <1>1, StreamInvariant, PTL
=============================================================================
