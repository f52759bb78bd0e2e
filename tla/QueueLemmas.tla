---------------------------- MODULE QueueLemmas ----------------------------
(***************************************************************************)
(* Queues: what a read of several packets takes and leaves, and what a     *)
(* queue is that lies in two places, one part received and one on its way. *)
(***************************************************************************)
EXTENDS SequenceTheorems, TLAPS

\* What recv leaves of a queue, and what it returned, are packets of the queue.
LEMMA SplitType ==
    ASSUME NEW S, NEW q \in Seq(S), NEW n \in Nat, n <= Len(q)
    PROVE  /\ SubSeq(q, 1, n) \in Seq(S)
           /\ SubSeq(q, n + 1, Len(q)) \in Seq(S)
<1>1. \A i \in 1..Len(q) : q[i] \in S
  BY ElementOfSeq
<1>2. Len(q) \in Nat
  BY LenProperties
<1>3. \A i \in 1..n : q[i] \in S
  BY <1>1, <1>2
<1>4. \A i \in (n + 1)..Len(q) : q[i] \in S
  BY <1>1, <1>2
<1>5. SubSeq(q, 1, n) \in Seq(S)
  BY <1>3, SubSeqProperties
<1>6. SubSeq(q, n + 1, Len(q)) \in Seq(S)
  BY <1>2, <1>4, SubSeqProperties
<1> QED
  BY <1>5, <1>6

\* What recv took and what it left are the queue it found.
LEMMA SplitConcat ==
    ASSUME NEW S, NEW q \in Seq(S), NEW n \in Nat, n <= Len(q)
    PROVE  SubSeq(q, 1, n) \o SubSeq(q, n + 1, Len(q)) = q
<1>1. Len(q) \in Nat
  BY LenProperties
<1>2. 1 \in 1..(Len(q) + 1) /\ n \in (1 - 1)..Len(q) /\ Len(q) \in n..Len(q)
  BY <1>1
<1> QED
  BY <1>2, ConcatAdjacentSubSeq, SubSeqFull

\* The first of two queues is read first.
LEMMA ConcatTail ==
    ASSUME NEW S, NEW b \in Seq(S), NEW c \in Seq(S), b # <<>>
    PROVE  /\ b \o c \in Seq(S) /\ b \o c # <<>>
           /\ Head(b \o c) = Head(b)
           /\ Tail(b \o c) = Tail(b) \o c
<1> DEFINE bc == b \o c
<1>1. /\ Len(b) \in Nat \ {0} /\ Len(c) \in Nat
      /\ bc \in Seq(S) /\ Len(bc) = Len(b) + Len(c)
      /\ \A i \in 1..(Len(b) + Len(c)) : bc[i] = IF i <= Len(b) THEN b[i] ELSE c[i - Len(b)]
  BY EmptySeq, LenProperties, ConcatProperties
<1>2. bc # <<>>
  BY <1>1, EmptySeq
<1>3. /\ Tail(b) \in Seq(S) /\ Len(Tail(b)) = Len(b) - 1
      /\ \A i \in 1..Len(Tail(b)) : Tail(b)[i] = b[i + 1]
  BY HeadTailProperties
<1>4. /\ Tail(bc) \in Seq(S) /\ Len(Tail(bc)) = Len(bc) - 1
      /\ \A i \in 1..Len(Tail(bc)) : Tail(bc)[i] = bc[i + 1]
  BY <1>1, <1>2, HeadTailProperties
<1> DEFINE tc == Tail(b) \o c
<1>5. /\ tc \in Seq(S) /\ Len(tc) = Len(b) - 1 + Len(c)
      /\ \A i \in 1..(Len(Tail(b)) + Len(c)) :
            tc[i] = IF i <= Len(Tail(b)) THEN Tail(b)[i] ELSE c[i - Len(Tail(b))]
  BY <1>1, <1>3, ConcatProperties
<1>6. Head(bc) = Head(b)
  <2>1. Head(bc) = bc[1] /\ Head(b) = b[1]
    BY <1>1
  <2>2. 1 \in 1..(Len(b) + Len(c)) /\ 1 <= Len(b)
    BY <1>1
  <2> QED
    BY <1>1, <2>1, <2>2
<1> HIDE DEF bc, tc
<1>7. Tail(bc) = tc
  <2>1. Len(Tail(bc)) = Len(tc)
    BY <1>1, <1>4, <1>5
  <2>2. ASSUME NEW i \in 1..Len(Tail(bc))
        PROVE  Tail(bc)[i] = tc[i]
    <3>1. i + 1 \in 1..(Len(b) + Len(c)) /\ i \in 1..(Len(Tail(b)) + Len(c)) /\ i \in Nat
      BY <1>1, <1>3, <1>4
    <3>2. Tail(bc)[i] = bc[i + 1]
      BY <1>4
    <3>3. CASE i <= Len(Tail(b))
      <4>1. i + 1 <= Len(b) /\ i \in 1..Len(Tail(b))
        BY <1>1, <1>3, <3>1, <3>3
      <4> QED
        BY <1>1, <1>3, <1>5, <3>1, <3>2, <4>1
    <3>4. CASE ~(i <= Len(Tail(b)))
      <4>1. ~(i + 1 <= Len(b)) /\ i + 1 - Len(b) = i - Len(Tail(b))
        BY <1>1, <1>3, <3>1, <3>4
      <4>2. bc[i + 1] = c[i + 1 - Len(b)]
        BY <1>1, <3>1, <4>1
      <4>3. tc[i] = c[i - Len(Tail(b))]
        BY <1>5, <3>1, <3>4
      <4> QED
        BY <3>2, <4>1, <4>2, <4>3
    <3> QED
      BY <3>3, <3>4
  <2> QED
    BY <1>4, <1>5, <2>1, <2>2, SeqEqual
<1> QED
  BY <1>1, <1>2, <1>6, <1>7 DEF bc, tc

\* A packet sent joins what is pending at its end.
LEMMA AppendConcat ==
    ASSUME NEW S, NEW b \in Seq(S), NEW c \in Seq(S), NEW e \in S
    PROVE  b \o Append(c, e) = Append(b \o c, e)
<1>1. <<e>> \in Seq(S)
  OBVIOUS
<1>2. b \o c \in Seq(S)
  BY ConcatProperties
<1> QED
  BY <1>1, <1>2, AppendIsConcat, ConcatAssociative

\* What was in a queue stays in front of what is put behind it.
LEMMA ConcatPrefix ==
    ASSUME NEW S, NEW q \in Seq(S), NEW c \in Seq(S)
    PROVE  /\ q \o c \in Seq(S) /\ Len(q \o c) = Len(q) + Len(c)
           /\ SubSeq(q \o c, 1, Len(q)) = q
<1>1. /\ Len(q) \in Nat /\ Len(c) \in Nat
      /\ q \o c \in Seq(S) /\ Len(q \o c) = Len(q) + Len(c)
  BY LenProperties, ConcatProperties
<1>2. CASE Len(q) = 0
  <2>1. q = <<>>
    BY <1>2, EmptySeq
  <2> QED
    BY <1>1, <1>2, <2>1, SubSeqEmpty
<1>3. CASE Len(q) # 0
  <2>1. 1 \in 1..Len(q) /\ Len(q) \in 1..Len(q)
    BY <1>1, <1>3
  <2> QED
    BY <1>1, <2>1, SubSeqOfConcat1, SubSeqFull
<1> QED
  BY <1>1, <1>2, <1>3

\* The end of a sequence, from some place on.
LEMMA EndType ==
    ASSUME NEW S, NEW q \in Seq(S), NEW k \in Nat \ {0}
    PROVE  /\ SubSeq(q, k, Len(q)) \in Seq(S)
           /\ Len(SubSeq(q, k, Len(q))) = IF k <= Len(q) THEN Len(q) - k + 1 ELSE 0
           /\ \A j \in 1..Len(SubSeq(q, k, Len(q))) :
                 /\ SubSeq(q, k, Len(q))[j] = q[j + k - 1]
                 /\ j + k - 1 \in 1..Len(q)
<1>1. Len(q) \in Nat /\ \A i \in k..Len(q) : q[i] \in S
  BY LenProperties, ElementOfSeq
<1>2. /\ SubSeq(q, k, Len(q)) \in Seq(S)
      /\ Len(SubSeq(q, k, Len(q))) = IF k <= Len(q) THEN Len(q) - k + 1 ELSE 0
      /\ \A j \in 1..(Len(q) - k + 1) : SubSeq(q, k, Len(q))[j] = q[k + j - 1]
  BY <1>1, SubSeqProperties
<1> QED
  BY <1>1, <1>2

\* The beginning of a sequence, up to some place.
LEMMA FrontType ==
    ASSUME NEW S, NEW q \in Seq(S), NEW k \in Nat, k <= Len(q)
    PROVE  /\ SubSeq(q, 1, k) \in Seq(S) /\ Len(SubSeq(q, 1, k)) = k
           /\ \A j \in 1..k : SubSeq(q, 1, k)[j] = q[j]
<1>1. Len(q) \in Nat /\ \A i \in 1..k : q[i] \in S
  BY LenProperties, ElementOfSeq
<1> QED
  BY <1>1, SubSeqProperties
=============================================================================
