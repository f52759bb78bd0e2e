---------------------------- MODULE CommandProofs ----------------------------
(***************************************************************************)
(* What the chat client sends was typed: the proof, for all lines and all  *)
(* bounds, that reads of words and of lines, by the menu and by ReadCin,   *)
(* never take one command for another.                                     *)
(***************************************************************************)
EXTENDS ChatClientProofs, FiniteSetTheorems

\* The end of the line l is in q, where the line would begin at k; words of it
\* that lie before the first place of q have been read.
Fits(q, k, l) ==
    /\ k + Len(l) \in 1..Len(q) /\ q[k + Len(l)] = Eol
    /\ \A j \in 1..Len(l) : k + j - 1 >= 1 => q[k + j - 1] = l[j]

\* Where lines begin in q; its first place may lie in the midst of one.
Starts(q, mid) == {k \in 1..Len(q) : IF k = 1 THEN ~mid ELSE q[k - 1] = Eol}

\* The copies of l that q holds.
Copies(q, mid, l) == {k \in Starts(q, mid) : Fits(q, k, l)}

\* From k to the end of its line there is no command.
Plain(q, k) == \A j \in k..Len(q) : (\A i \in k..j : q[i] # Eol) => q[j] \notin Commands

\* A command at the beginning of a line begins a line that was typed.
WellTyped(q, mid) ==
    \A k \in Starts(q, mid) :
        IF q[k] \in Commands THEN \E l \in CommandLines : Fits(q, k, l) ELSE Plain(q, k)

\* A thread has read the first words of l, and the others come next.
Holds(r, q, l) ==
    \/ r.at = "room" /\ r.word = l[1] /\ Fits(q, 0, l)
    \/ r.at = "text" /\ r.word = l[1] /\ r.room = l[2] /\ Fits(q, -1, l)
    \/ r.at = "send" /\ LineOf(r) = l

HasWord == {"room", "text", "send"}
Midway  == \E t \in Readers : readers[t].at \in {"room", "text"}
InHand(l) == IF \E t \in Readers : Holds(readers[t], input, l) THEN 1 ELSE 0

\* What is in the console and in the hands of the threads.
InOrder ==
    /\ failed => main = "badOption"
    /\ ~HasLong(input)
    /\ input # <<>> => input[Len(input)] = Eol
    /\ \A t \in Readers : readers[t].at # "send" => readers[t].text = <<>>
    /\ \A t \in Readers : readers[t].at \in HasWord =>
                            \E l \in CommandLines : Holds(readers[t], input, l)
    /\ WellTyped(input, Midway)

\* A command that was typed has been sent, is in a thread's hands, waits in the
\* console, or was read by a menu.
Accounted ==
    /\ strays = 0
    /\ \A l \in CommandLines :
          sent[l] + Cardinality(Copies(input, Midway, l)) + InHand(l) <= typed[l]

LinesKept == ProperLines /\ ~doubled /\ ~overlong => InOrder /\ Accounted

-----------------------------------------------------------------------------
(***************************************************************************)
(* Lines in a sequence of words.                                           *)
(***************************************************************************)

LEMMA CommandLineParts ==
    ASSUME ProperLines, NEW l \in CommandLines
    PROVE  /\ l \in Lines /\ l \in Seq(STRING) /\ Len(l) \in Nat /\ Len(l) > 1
           /\ l[1] \in Commands
           /\ l[1] # "/say" => Len(l) = 2
           /\ \A j \in 1..Len(l) : l[j] # Eol
<1>1. l \in Lines /\ l \in Seq(STRING) /\ Len(l) > 1 /\ l[1] \in Commands
  BY LinesAssumption DEF CommandLines
<1>2. Len(l) \in Nat /\ DOMAIN l = 1..Len(l) /\ l # <<>>
  BY <1>1, LenProperties, EmptySeq
<1> QED
  BY <1>1, <1>2 DEF ProperLines

LEMMA EolPlain == Eol \notin Commands
  BY DEF Eol, Commands

\* A line with fewer words left than q has.
LEMMA FitsRest ==
    ASSUME NEW q \in Texts, NEW m \in 0..Len(q), NEW k \in Int, NEW l, Len(l) \in Nat
    PROVE  LET r == SubSeq(q, m + 1, Len(q)) IN
           /\ Fits(q, k, l) /\ k + Len(l) > m => Fits(r, k - m, l)
           /\ /\ Fits(r, k - m, l)
              /\ \A j \in 1..Len(l) : k + j - 1 \in 1..m => q[k + j - 1] = l[j]
              => Fits(q, k, l)
<1> DEFINE r == SubSeq(q, m + 1, Len(q))
<1>1. Len(q) \in Nat /\ m \in Nat
  BY LenProperties DEF Texts
<1>2. Len(r) = Len(q) - m /\ \A j \in 1..Len(r) : r[j] = q[j + m]
  <2>1. /\ Len(r) = IF m + 1 <= Len(q) THEN Len(q) - (m + 1) + 1 ELSE 0
        /\ \A j \in 1..Len(r) : r[j] = q[j + (m + 1) - 1]
    BY <1>1, EndType DEF Texts
  <2>2. Len(r) = Len(q) - m
    BY <1>1, <2>1
  <2> HIDE DEF r
  <2> QED
    BY <1>1, <2>1, <2>2
<1> HIDE DEF r
<1>3. ASSUME Fits(q, k, l), k + Len(l) > m
      PROVE  Fits(r, k - m, l)
  <2>1. (k - m) + Len(l) \in 1..Len(r) /\ r[(k - m) + Len(l)] = q[k + Len(l)]
    BY <1>1, <1>2, <1>3 DEF Fits
  <2>2. ASSUME NEW j \in 1..Len(l), (k - m) + j - 1 >= 1
        PROVE  r[(k - m) + j - 1] = l[j]
    <3>1. (k - m) + j - 1 \in 1..Len(r) /\ ((k - m) + j - 1) + m = k + j - 1 /\ k + j - 1 >= 1
      BY <1>1, <1>2, <1>3, <2>1, <2>2
    <3> QED
      BY <1>2, <1>3, <3>1 DEF Fits
  <2> QED
    BY <1>3, <2>1, <2>2 DEF Fits
<1>4. ASSUME Fits(r, k - m, l),
             \A j \in 1..Len(l) : k + j - 1 \in 1..m => q[k + j - 1] = l[j]
      PROVE  Fits(q, k, l)
  <2>1. /\ (k - m) + Len(l) \in 1..Len(r)
        /\ r[(k - m) + Len(l)] = Eol
    BY <1>4 DEF Fits
  <2>2. k + Len(l) \in 1..Len(q) /\ q[k + Len(l)] = Eol
    <3>1. ((k - m) + Len(l)) + m = k + Len(l)
      BY <1>1
    <3> QED
      BY <1>1, <1>2, <2>1, <3>1
  <2>3. ASSUME NEW j \in 1..Len(l), k + j - 1 >= 1
        PROVE  q[k + j - 1] = l[j]
    <3>1. CASE k + j - 1 <= m
      BY <1>1, <1>4, <2>3, <3>1
    <3>2. CASE k + j - 1 > m
      <4>1. (k - m) + j - 1 \in 1..Len(r) /\ ((k - m) + j - 1) + m = k + j - 1
        BY <1>1, <1>2, <2>1, <2>3, <3>2
      <4>2. r[(k - m) + j - 1] = l[j]
        BY <1>4, <4>1 DEF Fits
      <4> QED
        BY <1>2, <4>1, <4>2
    <3> QED
      BY <1>1, <3>1, <3>2
  <2> QED
    BY <2>2, <2>3 DEF Fits
<1> QED
  BY <1>3, <1>4 DEF r

\* When m words have been read, the next one begins a line, or belongs to one
\* without commands, or to one that a thread is reading.
Aligned(q, m, mid, after) ==
    m < Len(q) /\ ~after =>
        m + 1 \in Starts(q, mid) \/ (q[m + 1] \notin Commands /\ Plain(q, m + 1))

LEMMA RestTyped ==
    ASSUME NEW q \in Texts, NEW m \in 0..Len(q), NEW mid \in BOOLEAN, NEW after \in BOOLEAN,
           ProperLines, WellTyped(q, mid), Aligned(q, m, mid, after)
    PROVE  WellTyped(SubSeq(q, m + 1, Len(q)), after)
<1> DEFINE r == SubSeq(q, m + 1, Len(q))
<1>1. Len(q) \in Nat /\ m \in Nat
  BY LenProperties DEF Texts
<1>2. Len(r) = Len(q) - m /\ \A j \in 1..Len(r) : r[j] = q[j + m]
  <2>1. /\ Len(r) = IF m + 1 <= Len(q) THEN Len(q) - (m + 1) + 1 ELSE 0
        /\ \A j \in 1..Len(r) : r[j] = q[j + (m + 1) - 1]
    BY <1>1, EndType DEF Texts
  <2>2. Len(r) = Len(q) - m
    BY <1>1, <2>1
  <2> HIDE DEF r
  <2> QED
    BY <1>1, <2>1, <2>2
<1>3. ASSUME NEW k \in Starts(r, after)
      PROVE  IF r[k] \in Commands THEN \E l \in CommandLines : Fits(r, k, l) ELSE Plain(r, k)
  <2> HIDE DEF r
  <2>1. k \in 1..Len(r) /\ k + m \in 1..Len(q) /\ r[k] = q[k + m]
    BY <1>1, <1>2 DEF Starts
  <2>2. ASSUME Plain(q, k + m)
        PROVE  Plain(r, k)
    <3> SUFFICES ASSUME NEW j \in k..Len(r), \A i \in k..j : r[i] # Eol
                 PROVE  r[j] \notin Commands
      BY DEF Plain
    <3>1. j + m \in (k + m)..Len(q) /\ r[j] = q[j + m]
      BY <1>1, <1>2, <2>1
    <3>2. ASSUME NEW i \in (k + m)..(j + m)
          PROVE  q[i] # Eol
      <4>1. i - m \in k..j /\ i - m \in 1..Len(r) /\ (i - m) + m = i
        BY <1>1, <1>2, <2>1
      <4> QED
        BY <1>2, <4>1
    <3> QED
      BY <2>2, <3>1, <3>2 DEF Plain
  <2>3. CASE k + m \in Starts(q, mid)
    <3>1. CASE r[k] \in Commands
      <4>1. PICK l \in CommandLines : Fits(q, k + m, l)
        BY <2>1, <2>3, <3>1 DEF WellTyped
      <4>2. Len(l) \in Nat /\ k + m \in Int /\ (k + m) + Len(l) > m
        BY <1>1, <2>1, CommandLineParts
      <4>3. Fits(r, (k + m) - m, l)
        BY <4>1, <4>2, FitsRest DEF r
      <4>4. (k + m) - m = k
        BY <1>1, <2>1
      <4> QED
        BY <3>1, <4>3, <4>4
    <3>2. CASE r[k] \notin Commands
      BY <2>1, <2>2, <2>3, <3>2 DEF WellTyped
    <3> QED
      BY <3>1, <3>2
  <2>4. CASE k + m \notin Starts(q, mid)
    <3>1. k = 1
      <4> SUFFICES ASSUME k # 1
                   PROVE  FALSE
        OBVIOUS
      <4>1. r[k - 1] = Eol /\ k - 1 \in 1..Len(r) /\ (k - 1) + m = (k + m) - 1 /\ k + m # 1
        BY <1>1, <2>1 DEF Starts
      <4>2. q[(k + m) - 1] = Eol
        BY <1>2, <4>1
      <4> QED
        BY <2>1, <2>4, <4>1, <4>2 DEF Starts
    <3>2. ~after
      BY <3>1 DEF Starts
    <3>3. m < Len(q) /\ k + m = m + 1
      BY <1>1, <1>2, <2>1, <3>1
    <3>4. q[m + 1] \notin Commands /\ Plain(q, m + 1)
      BY <2>4, <3>2, <3>3 DEF Aligned
    <3> QED
      BY <2>1, <2>2, <3>3, <3>4
  <2> QED
    BY <2>3, <2>4
<1> QED
  BY <1>3 DEF WellTyped

LEMMA CopiesFinite ==
    ASSUME NEW q \in Texts, NEW mid, NEW l
    PROVE  IsFiniteSet(Copies(q, mid, l)) /\ Cardinality(Copies(q, mid, l)) \in Nat
<1>1. Copies(q, mid, l) \in SUBSET (1..Len(q)) /\ 1 \in Int /\ Len(q) \in Int
  BY LenProperties DEF Copies, Starts, Texts
<1>2. IsFiniteSet(1..Len(q))
  BY <1>1, FS_Interval
<1> QED
  BY <1>1, <1>2, FS_Subset, FS_CardinalityType

\* No copy is made by reading, and one is gone that began in what was read.
LEMMA RestCopies ==
    ASSUME NEW q \in Texts, NEW m \in 0..Len(q), NEW mid \in BOOLEAN, NEW after \in BOOLEAN,
           ProperLines, Aligned(q, m, mid, after), NEW l \in CommandLines
    PROVE  LET n == Cardinality(Copies(SubSeq(q, m + 1, Len(q)), after, l)) IN
           /\ n <= Cardinality(Copies(q, mid, l))
           /\ (\E k \in Copies(q, mid, l) : k <= m) => n < Cardinality(Copies(q, mid, l))
<1> DEFINE r == SubSeq(q, m + 1, Len(q))
           S == Copies(r, after, l)
           T == Copies(q, mid, l)
           f == [k \in S |-> k + m]
<1>1. Len(q) \in Nat /\ m \in Nat
  BY LenProperties DEF Texts
<1>2. Len(r) = Len(q) - m /\ \A j \in 1..Len(r) : r[j] = q[j + m]
  <2>1. /\ Len(r) = IF m + 1 <= Len(q) THEN Len(q) - (m + 1) + 1 ELSE 0
        /\ \A j \in 1..Len(r) : r[j] = q[j + (m + 1) - 1]
    BY <1>1, EndType DEF Texts
  <2>2. Len(r) = Len(q) - m
    BY <1>1, <2>1
  <2> HIDE DEF r
  <2> QED
    BY <1>1, <2>1, <2>2
<1>3. /\ Len(l) \in Nat /\ Len(l) > 1 /\ l[1] \in Commands
  BY CommandLineParts
<1>4. ASSUME NEW k \in S
      PROVE  k \in Nat /\ k + m \in T /\ k + m > m
  <2>1. k \in 1..Len(r) /\ k + m \in 1..Len(q) /\ r[k] = q[k + m] /\ Fits(r, k, l)
        /\ k \in Starts(r, after)
    <3> HIDE DEF r
    <3> QED
      BY <1>1, <1>2 DEF Copies, Starts
  <2>2. r[k] = l[1]
    <3> HIDE DEF r
    <3>1. 1 \in 1..Len(l) /\ k + 1 - 1 = k /\ k >= 1
      BY <1>3, <2>1
    <3> QED
      BY <2>1, <3>1 DEF Fits
  <2>3. Fits(q, k + m, l)
    <3>1. (k + m) - m = k /\ k + m \in Int /\ \A j \in 1..Len(l) : (k + m) + j - 1 \notin 1..m
      <4> HIDE DEF r
      <4>1. k \in Nat \ {0} /\ k + m > m
        BY <1>1, <2>1, <1>2
      <4> HIDE DEF S, T, f
      <4> QED
        BY <1>1, <1>3, <4>1
    <3>2. Fits(r, (k + m) - m, l)
      BY <2>1, <3>1
    <3> QED
      BY <1>3, <3>1, <3>2, FitsRest
  <2>4. k + m \in Starts(q, mid)
    <3> HIDE DEF r
    <3>1. CASE k = 1
      <4>1. ~after /\ m < Len(q) /\ k + m = m + 1
        BY <1>1, <2>1, <3>1 DEF Starts
      <4>2. q[m + 1] \in Commands
        BY <1>3, <2>1, <2>2, <4>1
      <4> QED
        BY <4>1, <4>2 DEF Aligned
    <3>2. CASE k # 1
      <4>1. r[k - 1] = Eol /\ k - 1 \in 1..Len(r) /\ (k - 1) + m = (k + m) - 1 /\ k + m # 1
        BY <1>1, <2>1, <3>2 DEF Starts
      <4>2. q[(k + m) - 1] = Eol
        BY <1>2, <4>1
      <4> QED
        BY <2>1, <4>1, <4>2 DEF Starts
    <3> QED
      BY <3>1, <3>2
  <2> QED
    BY <1>1, <2>1, <2>3, <2>4 DEF Copies
<1>5. IsFiniteSet(T) /\ Cardinality(T) \in Nat
  BY CopiesFinite
<1>6. ASSUME NEW U, U \in SUBSET T, \A k \in S : k + m \in U
      PROVE  Cardinality(S) <= Cardinality(U)
  <2> HIDE DEF S, T
  <2>1. f \in Injection(S, U)
    BY <1>1, <1>4, <1>6 DEF Injection, IsInjective
  <2>2. IsFiniteSet(U)
    BY <1>5, <1>6, FS_Subset
  <2> QED
    BY <2>1, <2>2, FS_Injection
<1>7. Cardinality(S) <= Cardinality(T)
  BY <1>4, <1>6
<1>8. ASSUME NEW k \in T, k <= m
      PROVE  Cardinality(S) < Cardinality(T)
  <2> HIDE DEF S, T
  <2>1. \A j \in S : j + m \in T \ {k}
    BY <1>1, <1>4, <1>8
  <2>2. Cardinality(S) <= Cardinality(T \ {k})
    BY <1>6, <2>1
  <2>3. Cardinality(T \ {k}) = Cardinality(T) - 1
    BY <1>5, <1>8, FS_RemoveElement
  <2>4. Cardinality(S) \in Nat
    <3>1. r \in Texts
      BY <1>1, EndType DEF Texts
    <3> QED
      BY <3>1, CopiesFinite DEF S
  <2> QED
    BY <1>5, <2>2, <2>3, <2>4
<1> QED
  BY <1>7, <1>8

\* A line is typed behind q.
LEMMA TypedParts ==
    ASSUME NEW q \in Texts, NEW l \in Lines, ProperLines
    PROVE  LET p == q \o l \o <<Eol>> IN
           /\ Len(q) \in Nat /\ Len(l) \in Nat /\ Len(p) = Len(q) + Len(l) + 1
           /\ \A j \in 1..Len(q) : p[j] = q[j]
           /\ \A j \in 1..Len(l) : p[Len(q) + j] = l[j] /\ l[j] # Eol
           /\ p[Len(p)] = Eol /\ p \in Texts
<1> DEFINE ql == q \o l
           p == ql \o <<Eol>>
<1>1. l \in Texts /\ Len(q) \in Nat /\ Len(l) \in Nat /\ <<Eol>> \in Texts
  BY LineType, MarksType, LenProperties DEF Texts
<1>2. /\ ql \in Seq(Words) /\ Len(ql) = Len(q) + Len(l)
      /\ \A j \in 1..Len(q) : ql[j] = q[j]
      /\ \A j \in 1..Len(l) : ql[Len(q) + j] = l[j]
  <2>1. \A j \in 1..(Len(q) + Len(l)) : ql[j] = IF j <= Len(q) THEN q[j] ELSE l[j - Len(q)]
    BY <1>1, ConcatProperties DEF Texts
  <2>2. ql \in Seq(Words) /\ Len(ql) = Len(q) + Len(l)
    BY <1>1, ConcatProperties DEF Texts
  <2> HIDE DEF ql
  <2>3. ASSUME NEW j \in 1..Len(l)
        PROVE  ql[Len(q) + j] = l[j]
    <3>1. Len(q) + j \in 1..(Len(q) + Len(l)) /\ ~(Len(q) + j <= Len(q)) /\ (Len(q) + j) - Len(q) = j
      BY <1>1
    <3> QED
      BY <2>1, <3>1
  <2> QED
    BY <1>1, <2>1, <2>2, <2>3
<1>3. /\ p \in Seq(Words) /\ Len(p) = Len(ql) + 1
      /\ \A j \in 1..Len(ql) : p[j] = ql[j]
      /\ p[Len(ql) + 1] = Eol
  <2> HIDE DEF ql
  <2>1. \A j \in 1..(Len(ql) + 1) : p[j] = IF j <= Len(ql) THEN ql[j] ELSE <<Eol>>[j - Len(ql)]
    BY <1>1, <1>2, ConcatProperties DEF Texts
  <2>2. p \in Seq(Words) /\ Len(p) = Len(ql) + 1
    <3>1. Len(<<Eol>>) = 1 /\ <<Eol>> \in Seq(Words)
      BY MarksType
    <3>2. ql \in Seq(Words)
      BY <1>2
    <3>3. p \in Seq(Words) /\ Len(p) = Len(ql) + Len(<<Eol>>)
      BY <3>1, <3>2, ConcatProperties
    <3> HIDE DEF p
    <3> QED
      BY <3>1, <3>3
  <2>3. Len(ql) \in Nat
    BY <1>1, <1>2
  <2> HIDE DEF p
  <2> QED
    BY <2>1, <2>2, <2>3
<1>4. \A j \in 1..Len(l) : l[j] # Eol
  <2>1. DOMAIN l = 1..Len(l)
    BY <1>1, LenProperties DEF Texts
  <2> QED
    BY <2>1 DEF ProperLines
<1> HIDE DEF p, ql
<1> QED
  BY <1>1, <1>2, <1>3, <1>4 DEF p, ql, Texts

LEMMA TypedFits ==
    ASSUME NEW q \in Texts, NEW l \in Lines, ProperLines, NEW c \in CommandLines, NEW k \in Int,
           q # <<>> => q[Len(q)] = Eol
    PROVE  LET p == q \o l \o <<Eol>> IN
           /\ Fits(q, k, c) => Fits(p, k, c)
           /\ Fits(p, k, c) /\ k <= Len(q) /\ q # <<>> => Fits(q, k, c)
           /\ Fits(p, Len(q) + 1, c) => c = l
           /\ c = l => Fits(p, Len(q) + 1, c)
<1> DEFINE p == q \o l \o <<Eol>>
<1>1. /\ Len(q) \in Nat /\ Len(l) \in Nat /\ Len(p) = Len(q) + Len(l) + 1
      /\ \A j \in 1..Len(q) : p[j] = q[j]
      /\ \A j \in 1..Len(l) : p[Len(q) + j] = l[j] /\ l[j] # Eol
      /\ p[Len(p)] = Eol
  BY TypedParts
<1> HIDE DEF p
<1>2. Len(c) \in Nat /\ Len(c) > 1 /\ \A j \in 1..Len(c) : c[j] # Eol
  BY CommandLineParts
<1>3. ASSUME Fits(q, k, c)
      PROVE  Fits(p, k, c)
  <2>1. k + Len(c) \in 1..Len(q) /\ k + Len(c) \in 1..Len(p) /\ p[k + Len(c)] = Eol
    BY <1>1, <1>3 DEF Fits
  <2>2. \A j \in 1..Len(c) : k + j - 1 >= 1 => k + j - 1 \in 1..Len(q)
    BY <1>1, <1>2, <2>1
  <2>3. \A j \in 1..Len(c) : k + j - 1 >= 1 => p[k + j - 1] = c[j]
    BY <1>1, <1>3, <2>2 DEF Fits
  <2> QED
    BY <2>1, <2>3 DEF Fits
<1>4. ASSUME Fits(p, k, c), k <= Len(q), q # <<>>
      PROVE  Fits(q, k, c)
  <2>0. Len(q) \in 1..Len(q) /\ q[Len(q)] = Eol /\ p[Len(q)] = Eol
    <3>1. Len(q) # 0
      BY <1>4, EmptySeq DEF Texts
    <3> QED
      BY <1>1, <1>4, <3>1
  <2>1. k + Len(c) <= Len(q)
    <3> SUFFICES ASSUME k + Len(c) > Len(q)
                 PROVE  FALSE
      BY <1>1, <1>2
    <3>1. Len(q) - k + 1 \in 1..Len(c) /\ k + (Len(q) - k + 1) - 1 = Len(q)
      BY <1>1, <1>2, <1>4
    <3>2. p[k + (Len(q) - k + 1) - 1] = c[Len(q) - k + 1]
      BY <1>4, <2>0, <3>1 DEF Fits
    <3> QED
      BY <1>2, <2>0, <3>1, <3>2
  <2>2. k + Len(c) \in 1..Len(q) /\ q[k + Len(c)] = Eol
    <3>1. k + Len(c) \in 1..Len(p) /\ p[k + Len(c)] = Eol
      BY <1>4 DEF Fits
    <3>2. k + Len(c) \in 1..Len(q)
      BY <1>1, <2>1, <3>1
    <3> QED
      BY <1>1, <3>1, <3>2
  <2>3. \A j \in 1..Len(c) : k + j - 1 >= 1 => k + j - 1 \in 1..Len(q)
    BY <1>1, <1>2, <2>1
  <2>4. \A j \in 1..Len(c) : k + j - 1 >= 1 => q[k + j - 1] = c[j]
    BY <1>1, <1>4, <2>3 DEF Fits
  <2> QED
    BY <2>2, <2>4 DEF Fits
<1>5. ASSUME Fits(p, Len(q) + 1, c)
      PROVE  c = l
  <2>1. (Len(q) + 1) + Len(c) \in 1..Len(p) /\ p[(Len(q) + 1) + Len(c)] = Eol
    BY <1>5 DEF Fits
  <2>2. ASSUME NEW j \in 1..Len(c)
        PROVE  p[Len(q) + j] = c[j]
    <3>1. (Len(q) + 1) + j - 1 = Len(q) + j /\ (Len(q) + 1) + j - 1 >= 1
      BY <1>1
    <3> QED
      BY <1>5, <3>1 DEF Fits
  <2>3. Len(c) = Len(l)
    <3> SUFFICES ASSUME Len(c) # Len(l)
                 PROVE  FALSE
      OBVIOUS
    <3>1. Len(c) < Len(l)
      BY <1>1, <1>2, <2>1
    <3>2. Len(c) + 1 \in 1..Len(l) /\ Len(q) + (Len(c) + 1) = (Len(q) + 1) + Len(c)
      BY <1>1, <1>2, <3>1
    <3> QED
      BY <1>1, <2>1, <3>2
  <2>4. ASSUME NEW j \in 1..Len(c)
        PROVE  c[j] = l[j]
    BY <1>1, <2>2, <2>3
  <2>5. c \in Seq(STRING) /\ l \in Seq(STRING)
    BY CommandLineParts, LinesAssumption
  <2> QED
    BY <2>3, <2>4, <2>5, SeqEqual
<1>6. ASSUME c = l
      PROVE  Fits(p, Len(q) + 1, c)
  <2>1. (Len(q) + 1) + Len(c) = Len(p) /\ Len(p) \in 1..Len(p)
    BY <1>1, <1>6
  <2>2. ASSUME NEW j \in 1..Len(c)
        PROVE  p[(Len(q) + 1) + j - 1] = c[j]
    <3>1. (Len(q) + 1) + j - 1 = Len(q) + j
      BY <1>1
    <3> QED
      BY <1>1, <1>6, <3>1
  <2> QED
    BY <1>1, <2>1, <2>2 DEF Fits
<1> QED
  BY <1>3, <1>4, <1>5, <1>6 DEF p

LEMMA LineTyped ==
    ASSUME NEW q \in Texts, NEW l \in Lines, ProperLines, NEW mid \in BOOLEAN,
           q # <<>> => q[Len(q)] = Eol, WellTyped(q, mid)
    PROVE  WellTyped(q \o l \o <<Eol>>, mid)
<1> DEFINE p == q \o l \o <<Eol>>
<1>1. /\ Len(q) \in Nat /\ Len(l) \in Nat /\ Len(p) = Len(q) + Len(l) + 1
      /\ \A j \in 1..Len(q) : p[j] = q[j]
      /\ \A j \in 1..Len(l) : p[Len(q) + j] = l[j] /\ l[j] # Eol
      /\ p[Len(p)] = Eol
  BY TypedParts
<1>2. \A c \in CommandLines : \A k \in Int :
          /\ Fits(q, k, c) => Fits(p, k, c)
          /\ c = l => Fits(p, Len(q) + 1, c)
  BY TypedFits
<1>3. DOMAIN l = 1..Len(l) /\ (l # <<>> => Len(l) > 0)
  BY <1>1, LinesAssumption, LenProperties, EmptySeq
<1> HIDE DEF p
<1>4. ASSUME NEW k \in Starts(p, mid)
      PROVE  IF p[k] \in Commands THEN \E c \in CommandLines : Fits(p, k, c) ELSE Plain(p, k)
  <2>1. k \in 1..Len(p) /\ k \in Int
    BY <1>1 DEF Starts
  <2>2. CASE k <= Len(q)
    <3>1. k \in Starts(q, mid) /\ p[k] = q[k]
      <4>1. k \in 1..Len(q) /\ (k # 1 => k - 1 \in 1..Len(q))
        BY <1>1, <2>1, <2>2
      <4> QED
        BY <1>1, <4>1 DEF Starts
    <3>2. CASE p[k] \in Commands
      BY <1>2, <2>1, <3>1, <3>2 DEF WellTyped
    <3>3. CASE p[k] \notin Commands
      <4>1. Plain(q, k)
        BY <3>1, <3>3 DEF WellTyped
      <4>2. Len(q) \in 1..Len(q) /\ p[Len(q)] = Eol
        <5>1. q # <<>> /\ Len(q) \in 1..Len(q)
          BY <1>1, <2>1, <2>2, EmptySeq
        <5> QED
          BY <1>1, <5>1
      <4>3. ASSUME NEW j \in k..Len(p), \A i \in k..j : p[i] # Eol
            PROVE  p[j] \notin Commands
        <5>1. j <= Len(q)
          <6> SUFFICES ASSUME j > Len(q)
                       PROVE  FALSE
            BY <1>1, <2>1
          <6>1. Len(q) \in k..j
            BY <1>1, <2>1, <2>2
          <6> QED
            BY <4>2, <4>3, <6>1
        <5>2. \A i \in k..j : i \in 1..Len(q)
          BY <1>1, <2>1, <5>1
        <5>3. j \in k..Len(q) /\ j \in 1..Len(q)
          BY <1>1, <2>1, <5>1
        <5> QED
          BY <1>1, <4>1, <4>3, <5>2, <5>3 DEF Plain
      <4> QED
        BY <3>3, <4>3 DEF Plain
    <3> QED
      BY <3>2, <3>3
  <2>3. CASE k = Len(q) + 1
    <3>1. CASE l = <<>>
      <4>1. p[k] = Eol
        BY <1>1, <2>3, <3>1, EmptySeq
      <4>2. Plain(p, k)
        <5>1. \A j \in k..Len(p) : k \in k..j
          BY <1>1, <2>1
        <5> QED
          BY <4>1, <5>1 DEF Plain
      <4> QED
        BY <4>1, <4>2, EolPlain
    <3>2. CASE l # <<>> /\ l[1] \in Commands
      <4>1. Len(l) > 1
        <5>1. IF l[1] = "/say" THEN Len(l) > 1 ELSE Len(l) = 2
          BY <3>2 DEF ProperLines
        <5> QED
          BY <5>1
      <4>2. l \in CommandLines
        BY <3>2, <4>1 DEF CommandLines
      <4>3. 1 \in 1..Len(l) /\ p[k] = l[1]
        BY <1>1, <2>3, <4>1
      <4> QED
        BY <1>2, <2>1, <2>3, <3>2, <4>2, <4>3
    <3>3. CASE l # <<>> /\ l[1] \notin Commands
      <4>1. \A j \in 1..Len(l) : l[j] \notin Commands
        BY <1>3, <3>3 DEF ProperLines
      <4>2. ASSUME NEW j \in k..Len(p)
            PROVE  p[j] \notin Commands
        <5>1. CASE j = Len(p)
          BY <1>1, <5>1, EolPlain
        <5>2. CASE j # Len(p)
          <6>0. j \in Int /\ j >= Len(q) + 1 /\ j <= Len(q) + Len(l)
            <7>1. k \in Int /\ Len(p) \in Int
              BY <1>1, <2>1
            <7>2. j \in Int /\ j >= k /\ j <= Len(p)
              BY <7>1
            <7>3. /\ Len(q) \in Int /\ Len(l) \in Int /\ Len(p) = Len(q) + Len(l) + 1
                  /\ k = Len(q) + 1 /\ j # Len(p)
              BY <1>1, <2>3, <5>2
            <7> QED
              BY <7>2, <7>3
          <6>1. j - Len(q) \in 1..Len(l) /\ Len(q) + (j - Len(q)) = j
            BY <1>1, <6>0
          <6> QED
            BY <1>1, <4>1, <6>1
        <5> QED
          BY <5>1, <5>2
      <4>3. k \in k..Len(p)
        BY <2>1
      <4> QED
        BY <4>2, <4>3 DEF Plain
    <3> QED
      BY <3>1, <3>2, <3>3
  <2>4. CASE k > Len(q) + 1
    <3>1. k # 1 /\ p[k - 1] = Eol
      BY <1>1, <2>4 DEF Starts
    <3>2. (k - 1) - Len(q) \in 1..Len(l) /\ Len(q) + ((k - 1) - Len(q)) = k - 1
      BY <1>1, <2>1, <2>4
    <3> QED
      BY <1>1, <3>1, <3>2
  <2> QED
    BY <1>1, <2>1, <2>2, <2>3, <2>4
<1> QED
  BY <1>4 DEF WellTyped, p

\* It is the only copy that is new.
LEMMA TypedCopies ==
    ASSUME NEW q \in Texts, NEW l \in Lines, ProperLines, NEW mid \in BOOLEAN,
           q # <<>> => q[Len(q)] = Eol, NEW c \in CommandLines
    PROVE  LET n == Cardinality(Copies(q \o l \o <<Eol>>, mid, c)) IN
           /\ n <= Cardinality(Copies(q, mid, c)) + (IF c = l THEN 1 ELSE 0)
<1> DEFINE p == q \o l \o <<Eol>>
           S == Copies(p, mid, c)
           T == Copies(q, mid, c)
<1>1. /\ Len(q) \in Nat /\ Len(l) \in Nat /\ Len(p) = Len(q) + Len(l) + 1
      /\ \A j \in 1..Len(q) : p[j] = q[j]
      /\ \A j \in 1..Len(l) : p[Len(q) + j] = l[j] /\ l[j] # Eol
      /\ p \in Texts
  BY TypedParts
<1>2. \A k \in Int :
          /\ Fits(p, k, c) /\ k <= Len(q) /\ q # <<>> => Fits(q, k, c)
          /\ Fits(p, Len(q) + 1, c) => c = l
  BY TypedFits
<1> HIDE DEF p
<1>3. ASSUME NEW k \in S
      PROVE  k \in T \/ (c = l /\ k = Len(q) + 1)
  <2>1. k \in 1..Len(p) /\ k \in Int /\ Fits(p, k, c) /\ k \in Starts(p, mid)
    BY <1>1 DEF Copies, Starts
  <2>2. CASE k <= Len(q)
    <3>1. k \in 1..Len(q) /\ (k # 1 => k - 1 \in 1..Len(q)) /\ q # <<>>
      BY <1>1, <2>1, <2>2, EmptySeq
    <3>2. k \in Starts(q, mid)
      BY <1>1, <2>1, <3>1 DEF Starts
    <3> QED
      BY <1>2, <2>1, <2>2, <3>1, <3>2 DEF Copies
  <2>3. CASE k = Len(q) + 1
    BY <1>2, <2>1, <2>3
  <2>4. CASE k > Len(q) + 1
    <3>1. k # 1 /\ p[k - 1] = Eol
      BY <1>1, <2>1, <2>4 DEF Starts
    <3>2. (k - 1) - Len(q) \in 1..Len(l) /\ Len(q) + ((k - 1) - Len(q)) = k - 1
      BY <1>1, <2>1, <2>4
    <3> QED
      BY <1>1, <3>1, <3>2
  <2> QED
    BY <1>1, <2>1, <2>2, <2>3, <2>4
<1>4. IsFiniteSet(T) /\ Cardinality(T) \in Nat /\ IsFiniteSet(S) /\ Cardinality(S) \in Nat
  BY <1>1, CopiesFinite
<1> HIDE DEF S, T
<1>5. CASE c # l
  <2>1. S \in SUBSET T
    BY <1>3, <1>5
  <2> QED
    BY <1>4, <1>5, <2>1, FS_Subset DEF S, T, p
<1>6. CASE c = l
  <2>1. S \in SUBSET (T \cup {Len(q) + 1})
    BY <1>3
  <2>2. /\ IsFiniteSet(T \cup {Len(q) + 1})
        /\ Cardinality(T \cup {Len(q) + 1}) <= Cardinality(T) + 1
        /\ Cardinality(T \cup {Len(q) + 1}) \in Nat
    <3>1. /\ IsFiniteSet(T \cup {Len(q) + 1})
          /\ Cardinality(T \cup {Len(q) + 1}) =
                IF Len(q) + 1 \in T THEN Cardinality(T) ELSE Cardinality(T) + 1
      BY <1>4, FS_AddElement
    <3> QED
      BY <1>4, <3>1
  <2>3. Cardinality(S) <= Cardinality(T \cup {Len(q) + 1})
    BY <2>1, <2>2, FS_Subset
  <2>4. Cardinality(S) <= Cardinality(T) + 1
    BY <1>4, <2>2, <2>3
  <2> QED
    BY <1>6, <2>4 DEF S, T, p
<1> QED
  BY <1>5, <1>6

-----------------------------------------------------------------------------
(***************************************************************************)
(* Steps.                                                                  *)
(***************************************************************************)

Tidy == TypeInv /\ OneTurn /\ ProperLines /\ ~doubled /\ ~overlong /\ InOrder /\ Accounted

LEMMA TidyTypes ==
    ASSUME Tidy
    PROVE  /\ input \in Texts /\ Len(input) \in Nat /\ DOMAIN input = 1..Len(input)
           /\ readers \in [Readers -> [at: Places, word: Words, room: Words, text: Texts]]
           /\ typed \in [CommandLines -> Nat] /\ sent \in [CommandLines -> Nat]
           /\ Midway \in BOOLEAN /\ Midway' \in BOOLEAN
           /\ \A l : InHand(l) \in {0, 1}
  BY LenProperties DEF Tidy, TypeInv, TypeOK, Texts, Midway, InHand

\* A thread that runs is alone, and std::cin has not failed.
LEMMA TidyAlone ==
    ASSUME Tidy
    PROVE  /\ \A t, u \in Readers : readers[t].at # "none" /\ readers[u].at # "none" => t = u
           /\ (\E t \in Readers : readers[t].at # "none") => ~failed /\ ~InMenu
           /\ main \in StartSteps \cup MenuSteps => \A t \in Readers : readers[t].at = "none"
<1>1. /\ \A t, u \in Readers : readers[t].at # "none" /\ readers[u].at # "none" => t = u
      /\ main \in StartSteps \cup MenuSteps => \A t \in Readers : readers[t].at = "none"
  BY DEF Tidy, OneTurn, MenuTurn, NoReader
<1>2. failed => main \in MenuSteps
  BY DEF Tidy, InOrder, MenuSteps
<1> QED
  BY <1>1, <1>2 DEF InMenu

\* After a step that reads m words.
LEMMA AfterReading ==
    ASSUME Tidy, NEW m \in 0..Len(input),
           input' = SubSeq(input, m + 1, Len(input)),
           Aligned(input, m, Midway, Midway'),
           UNCHANGED <<sent, strays, typed>>,
           failed' => main' = "badOption",
           \A t \in Readers : readers'[t].at # "send" => readers'[t].text = <<>>,
           \A t \in Readers : readers'[t].at \in HasWord =>
                                \E l \in CommandLines : Holds(readers'[t], input', l),
           \A l \in CommandLines : \A t \in Readers : Holds(readers'[t], input', l) =>
                InHand(l) = 1 \/ \E k \in Copies(input, Midway, l) : k <= m
    PROVE  InOrder' /\ Accounted'
<1>0. /\ input \in Texts /\ Len(input) \in Nat
      /\ typed \in [CommandLines -> Nat] /\ sent \in [CommandLines -> Nat]
      /\ Midway \in BOOLEAN /\ Midway' \in BOOLEAN
      /\ \A l : InHand(l) \in {0, 1}
  BY TidyTypes
<1>1. WellTyped(input, Midway) /\ ProperLines /\ ~HasLong(input)
      /\ (input # <<>> => input[Len(input)] = Eol)
  BY DEF Tidy, InOrder
<1>2. WellTyped(input', Midway')
  BY <1>0, <1>1, RestTyped
<1>3. /\ input' \in Texts /\ Len(input') = Len(input) - m
      /\ \A j \in 1..Len(input') : input'[j] = input[j + m] /\ j + m \in 1..Len(input)
  <2>1. m + 1 \in Nat \ {0}
    OBVIOUS
  <2>2. /\ SubSeq(input, m + 1, Len(input)) \in Texts
        /\ Len(input') = IF m + 1 <= Len(input) THEN Len(input) - (m + 1) + 1 ELSE 0
        /\ \A j \in 1..Len(input') : /\ input'[j] = input[j + (m + 1) - 1]
                                     /\ j + (m + 1) - 1 \in 1..Len(input)
    BY <1>0, <2>1, EndType DEF Texts
  <2>3. Len(input') = Len(input) - m
    BY <1>0, <2>2
  <2>4. \A j \in 1..Len(input') : j + (m + 1) - 1 = j + m
    BY <1>0, <2>3
  <2> QED
    BY <2>2, <2>3, <2>4
<1>4. ~HasLong(input')
  <2>1. DOMAIN input' = 1..Len(input') /\ DOMAIN input = 1..Len(input)
    BY <1>0, <1>3, LenProperties DEF Texts
  <2> QED
    BY <1>1, <1>3, <2>1 DEF HasLong
<1>5. input' # <<>> => input'[Len(input')] = Eol
  <2> SUFFICES ASSUME input' # <<>>
               PROVE  input'[Len(input')] = Eol
    OBVIOUS
  <2>1. Len(input') # 0
    BY <1>3, EmptySeq DEF Texts
  <2>2. Len(input') \in 1..Len(input') /\ Len(input') + m = Len(input)
    BY <1>0, <1>3, <2>1
  <2>3. input # <<>>
    BY <1>0, <1>3, <2>2, EmptySeq
  <2> QED
    BY <1>1, <1>3, <2>2, <2>3
<1>6. InOrder'
  BY <1>2, <1>4, <1>5 DEF InOrder
<1>7. ASSUME NEW l \in CommandLines
      PROVE  sent'[l] + Cardinality(Copies(input', Midway', l)) + InHand(l)' <= typed'[l]
  <2> DEFINE n == Cardinality(Copies(input, Midway, l))
             nn == Cardinality(Copies(input', Midway', l))
  <2>1. n \in Nat /\ nn \in Nat
    BY <1>0, <1>3, CopiesFinite
  <2>2. nn <= n /\ ((\E k \in Copies(input, Midway, l) : k <= m) => nn < n)
    BY <1>0, <1>1, RestCopies
  <2>3. sent[l] + n + InHand(l) <= typed[l] /\ sent'[l] = sent[l] /\ typed'[l] = typed[l]
    BY DEF Tidy, Accounted
  <2>4. InHand(l)' \in {0, 1} /\ InHand(l) \in {0, 1} /\ sent[l] \in Nat /\ typed[l] \in Nat
    BY <1>0 DEF InHand
  <2>5. InHand(l)' = 1 => InHand(l) = 1 \/ \E k \in Copies(input, Midway, l) : k <= m
    BY DEF InHand
  <2> HIDE DEF n, nn
  <2>6. sent[l] + nn + InHand(l)' <= typed[l]
    <3>1. CASE InHand(l)' = 0
      BY <2>1, <2>2, <2>3, <2>4, <3>1
    <3>2. CASE InHand(l)' = 1
      BY <2>1, <2>2, <2>3, <2>4, <2>5, <3>2
    <3> QED
      BY <2>4, <3>1, <3>2
  <2> QED
    BY <2>3, <2>6 DEF nn
<1> QED
  BY <1>6, <1>7 DEF Accounted, Tidy

\* A step that reads nothing, and changes threads only between places where
\* they have read nothing.
LEMMA NothingRead ==
    ASSUME Tidy, UNCHANGED <<input, sent, strays, typed>>,
           failed' => main' = "badOption",
           \A t \in Readers :
              \/ readers'[t] = readers[t]
              \/ /\ readers[t].at \notin HasWord /\ readers'[t].at \notin HasWord
                 /\ readers'[t].text = readers[t].text
    PROVE  InOrder' /\ Accounted'
<1>0. /\ input \in Texts /\ Len(input) \in Nat
  BY TidyTypes
<1>1. 0 \in 0..Len(input) /\ input' = SubSeq(input, 0 + 1, Len(input))
  <2>1. SubSeq(input, 1, Len(input)) = input
    BY <1>0, SubSeqFull DEF Texts
  <2> QED
    BY <1>0, <2>1
<1>2. Midway' = Midway
  BY DEF Midway, HasWord
<1>3. Aligned(input, 0, Midway, Midway')
  BY <1>0, <1>2 DEF Aligned, Starts
<1>4. \A l \in CommandLines : \A t \in Readers :
          readers'[t] = readers[t] \/ (~Holds(readers[t], input, l) /\ ~Holds(readers'[t], input, l))
  BY DEF Holds, HasWord
<1>5. \A l \in CommandLines : \A t \in Readers :
          Holds(readers'[t], input', l) => InHand(l) = 1
  BY <1>4 DEF InHand
<1>6. \A t \in Readers : readers'[t].at # "send" => readers'[t].text = <<>>
  BY DEF Tidy, InOrder, HasWord
<1>7. \A t \in Readers : readers'[t].at \in HasWord =>
          \E l \in CommandLines : Holds(readers'[t], input', l)
  BY DEF Tidy, InOrder
<1> QED
  BY <1>1, <1>3, <1>5, <1>6, <1>7, AfterReading

\* The next word on the console is the first of a line, or of the rest of one
\* without commands.
LEMMA NextWord ==
    ASSUME Tidy, ~Midway, NEW k \in DOMAIN input, WordAt(k)
    PROVE  /\ k \in Starts(input, Midway) /\ k \in 1..Len(input)
           /\ input[k] \notin Commands => Aligned(input, k, Midway, FALSE)
           /\ k - 1 \in 0..Len(input) /\ Aligned(input, k - 1, Midway, FALSE)
<1>1. k \in 1..Len(input) /\ Len(input) \in Nat
  BY TidyTypes
<1>2. k \in Starts(input, Midway)
  <2>1. k # 1 => k - 1 \in 1..(k - 1)
    BY <1>1
  <2> QED
    BY <1>1, <2>1 DEF Starts, WordAt
<1>3. ASSUME input[k] \notin Commands, k < Len(input)
      PROVE  input[k + 1] \notin Commands /\ Plain(input, k + 1)
  <2>1. Plain(input, k) /\ input[k] # Eol
    BY <1>2, <1>3 DEF Tidy, InOrder, WellTyped, WordAt
  <2>2. ASSUME NEW j \in (k + 1)..Len(input), \A i \in (k + 1)..j : input[i] # Eol
        PROVE  input[j] \notin Commands
    <3>1. \A i \in k..j : i = k \/ i \in (k + 1)..j
      BY <1>1
    <3>2. j \in k..Len(input)
      BY <1>1
    <3> QED
      BY <2>1, <2>2, <3>1, <3>2 DEF Plain
  <2>3. CASE input[k + 1] = Eol
    BY <2>2, <2>3, EolPlain DEF Plain
  <2>4. CASE input[k + 1] # Eol
    <3>1. k + 1 \in (k + 1)..Len(input) /\ \A i \in (k + 1)..(k + 1) : i = k + 1
      BY <1>1, <1>3
    <3> QED
      BY <2>2, <2>4, <3>1 DEF Plain
  <2> QED
    BY <2>3, <2>4
<1>4. (k - 1) + 1 = k /\ k - 1 \in 0..Len(input)
  BY <1>1
<1> QED
  BY <1>1, <1>2, <1>3, <1>4 DEF Aligned

\* A menu, or a thread that is at the head of its loop, reads m words: no
\* command is in a thread's hands.
LEMMA FreeHands ==
    ASSUME Tidy, NEW m \in 0..Len(input),
           input' = SubSeq(input, m + 1, Len(input)),
           Aligned(input, m, Midway, FALSE),
           UNCHANGED <<sent, strays, typed>>,
           failed' => main' = "badOption",
           \A t \in Readers : readers'[t].at \notin HasWord /\ readers'[t].text = <<>>
    PROVE  InOrder' /\ Accounted'
<1>1. Midway' = FALSE
  BY DEF Midway, HasWord
<1>2. \A l \in CommandLines : \A t \in Readers : ~Holds(readers'[t], input', l)
  BY DEF Holds, HasWord
<1> QED
  BY <1>1, <1>2, AfterReading

LEMMA NoHands ==
    ASSUME Tidy, \A t \in Readers : readers[t].at = "none"
    PROVE  ~Midway /\ \A t \in Readers : readers[t].at \notin HasWord /\ readers[t].text = <<>>
  BY DEF Midway, HasWord, Tidy, InOrder

\* getline reads up to the end of the line.
LEMMA LineRead ==
    ASSUME Tidy, NEW k \in DOMAIN input, EolAt(k)
    PROVE  k \in 0..Len(input) /\ Aligned(input, k, Midway, FALSE)
<1>1. k \in 1..Len(input) /\ Len(input) \in Nat /\ k \in 0..Len(input)
  BY TidyTypes
<1>2. k < Len(input) => k + 1 \in Starts(input, Midway)
  <2>1. k + 1 # 1 /\ (k + 1) - 1 = k /\ (k < Len(input) => k + 1 \in 1..Len(input))
    BY <1>1
  <2> QED
    BY <2>1 DEF Starts, EolAt
<1> QED
  BY <1>1, <1>2 DEF Aligned

\* No text that was typed is too long for getline.
LEMMA LineFits ==
    ASSUME Tidy, ~failed, NEW text, GetLine(text)
    PROVE  /\ UNCHANGED failed
           /\ \E k \in DOMAIN input : /\ EolAt(k) /\ input' = From(k + 1)
                                      /\ text = SubSeq(input, 1, k - 1)
<1>1. PICK k \in DOMAIN input :
        /\ EolAt(k) /\ text = SubSeq(input, 1, k - 1)
        /\ IF HasLong(text) THEN input' = <<"tail">> \o From(k) /\ failed' = TRUE
                            ELSE input' = From(k + 1) /\ UNCHANGED failed
  BY DEF GetLine
<1>2. ~HasLong(text)
  <2>1. k \in 1..Len(input) /\ input \in Texts /\ Len(input) \in Nat /\ DOMAIN input = 1..Len(input)
    BY TidyTypes
  <2>2. k - 1 \in Nat /\ k - 1 <= Len(input)
    BY <2>1
  <2>3. /\ text \in Seq(Words) /\ Len(text) = k - 1
        /\ \A j \in 1..(k - 1) : text[j] = input[j]
    BY <1>1, <2>1, <2>2, FrontType DEF Texts
  <2>4. DOMAIN text = 1..(k - 1) /\ \A j \in 1..(k - 1) : j \in DOMAIN input
    BY <2>1, <2>3, LenProperties
  <2>5. ~HasLong(input)
    BY DEF Tidy, InOrder
  <2> QED
    BY <2>3, <2>4, <2>5 DEF HasLong
<1> QED
  BY <1>1, <1>2

LEMMA MenuKeeps == ASSUME Tidy, Menu PROVE InOrder' /\ Accounted'
<1>1. main \in MenuSteps /\ \A t \in Readers : readers[t].at = "none"
  <2>1. main \in MenuSteps
    BY DEF Menu, PickOption, MisreadOption, ClearLine, PromptName, PromptPassword, SendRequest,
       AtMenu, MenuSteps
  <2> QED
    BY <2>1, TidyAlone
<1>2. /\ ~Midway /\ \A t \in Readers : readers[t].at \notin HasWord /\ readers[t].text = <<>>
      /\ failed => main = "badOption"
  BY <1>1, NoHands DEF Tidy, InOrder
<1>3. Len(input) \in Nat /\ DOMAIN input = 1..Len(input)
  BY TidyTypes
<1>4. ASSUME PickOption
      PROVE  InOrder' /\ Accounted'
  <2>1. /\ ~failed /\ UNCHANGED <<sent, strays, typed, readers>>
        /\ \E w \in Options : Extract("", w)
    BY <1>4 DEF PickOption, MenuOnly, sentVars, typedVars
  <2>a. PICK w \in Options : Extract("", w)
    BY <2>1
  <2>2. PICK k \in DOMAIN input : WordAt(k) /\ input[k] \in Options /\ input' = From(k + 1)
    BY <2>1, <2>a DEF Extract
  <2>3. UNCHANGED failed
    BY <2>1 DEF Extract
  <2>4. k \in 1..Len(input) /\ Aligned(input, k, Midway, FALSE)
    <3>1. input[k] \notin Commands
      BY <2>2 DEF Options, Commands
    <3> QED
      BY <1>2, <2>2, <3>1, NextWord
  <2>5. k \in 0..Len(input) /\ input' = SubSeq(input, k + 1, Len(input))
    BY <1>3, <2>2, <2>4 DEF From
  <2> QED
    BY <1>2, <2>1, <2>3, <2>4, <2>5, FreeHands
<1>5. ASSUME MisreadOption
      PROVE  InOrder' /\ Accounted'
  <2>1. /\ UNCHANGED <<sent, strays, typed, readers>> /\ main' = "badOption" /\ ~failed
    <3>1. main = "option"
      BY <1>5 DEF MisreadOption, AtMenu
    <3>2. ~failed
      BY <1>2, <3>1
    <3> QED
      BY <1>5, <3>2 DEF MisreadOption, MenuOnly, sentVars, typedVars
  <2>2. \E k \in DOMAIN input : WordAt(k)
    BY <1>5, <2>1 DEF MisreadOption
  <2>3. PICK k \in DOMAIN input : k = CHOOSE j \in DOMAIN input : WordAt(j)
    BY <2>2
  <2>4. WordAt(k) /\ input' = From(k)
    BY <1>5, <2>1, <2>2, <2>3 DEF MisreadOption
  <2>5. k - 1 \in 0..Len(input) /\ Aligned(input, k - 1, Midway, FALSE)
    BY <1>2, <2>4, NextWord
  <2>6. (k - 1) + 1 = k
    BY <1>3
  <2>7. input' = SubSeq(input, (k - 1) + 1, Len(input))
    BY <2>4, <2>6 DEF From
  <2> QED
    BY <1>2, <2>1, <2>5, <2>7, FreeHands
<1>6. ASSUME ClearLine
      PROVE  InOrder' /\ Accounted'
  <2>1. UNCHANGED <<sent, strays, typed, readers>> /\ failed' = FALSE
    BY <1>6 DEF ClearLine, MenuOnly, sentVars, typedVars
  <2>2. PICK k \in DOMAIN input : EolAt(k) /\ input' = From(k + 1)
    BY <1>6 DEF ClearLine
  <2>3. k \in 0..Len(input) /\ Aligned(input, k, Midway, FALSE)
    BY <2>2, LineRead
  <2> QED
    BY <1>2, <2>1, <2>2, <2>3, FreeHands DEF From
<1>7. ASSUME PromptName \/ PromptPassword
      PROVE  InOrder' /\ Accounted'
  <2>1. UNCHANGED <<sent, strays, typed, readers>> /\ main \in {"name", "password"}
    BY <1>7 DEF PromptName, PromptPassword, MenuOnly, AtMenu, sentVars, typedVars
  <2>2. \E text : GetLine(text)
    BY <1>7 DEF PromptName, PromptPassword
  <2>3. ~failed
    BY <1>2, <2>1
  <2>4. failed' = failed /\ \E k \in DOMAIN input : EolAt(k) /\ input' = From(k + 1)
    BY <2>2, <2>3, LineFits
  <2>5. PICK k \in DOMAIN input : EolAt(k) /\ input' = From(k + 1)
    BY <2>4
  <2>6. k \in 0..Len(input) /\ Aligned(input, k, Midway, FALSE)
    BY <2>5, LineRead
  <2> QED
    BY <1>2, <2>1, <2>3, <2>4, <2>5, <2>6, FreeHands DEF From
<1>8. ASSUME SendRequest
      PROVE  InOrder' /\ Accounted'
  <2>1. UNCHANGED <<sent, strays, typed, readers, input, failed>> /\ ~failed
    BY <1>2, <1>8 DEF SendRequest, AtMenu, consoleVars, typedVars
  <2> QED
    BY <2>1, NothingRead
<1> QED
  BY <1>4, <1>5, <1>6, <1>7, <1>8 DEF Menu

\* The only thread, at one of its reads.
LEMMA ReaderAlone ==
    ASSUME Tidy, NEW t \in Readers, readers[t].at \in {"word", "room", "text", "send"}
    PROVE  /\ ~failed /\ \A u \in Readers : u # t => readers[u].at = "none" /\ readers[u].text = <<>>
           /\ Midway <=> readers[t].at \in {"room", "text"}
           /\ readers[t].at # "send" => readers[t].text = <<>>
<1>1. ~failed /\ \A u \in Readers : u # t => readers[u].at = "none"
  BY TidyAlone
<1>2. \A u \in Readers : readers[u].at # "send" => readers[u].text = <<>>
  BY DEF Tidy, InOrder
<1>3. Midway <=> readers[t].at \in {"room", "text"}
  <2>1. CASE readers[t].at \in {"room", "text"}
    BY <2>1 DEF Midway
  <2>2. CASE readers[t].at \notin {"room", "text"}
    <3>1. ~Midway
      BY <1>1, <2>2 DEF Midway
    <3> QED
      BY <2>2, <3>1 DEF Midway
  <2> QED
    BY <2>1, <2>2
<1> QED
  BY <1>1, <1>2, <1>3

\* What the thread has taken in hand.
LEMMA ReaderHolds ==
    ASSUME Tidy, NEW t \in Readers, readers[t].at \in HasWord
    PROVE  \E l \in CommandLines : Holds(readers[t], input, l)
  BY DEF Tidy, InOrder

LEMMA ReadWordKeeps ==
    ASSUME Tidy, NEW t \in Readers, ReadWord(t)
    PROVE  InOrder' /\ Accounted'
<1>0. /\ readers \in [Readers -> [at: Places, word: Words, room: Words, text: Texts]]
      /\ Len(input) \in Nat /\ input \in Texts
  BY TidyTypes
<1>1. /\ readers[t].at = "word" /\ UNCHANGED <<sent, strays, typed>>
  BY DEF ReadWord, ReaderAt, ReadingOnly, sentVars, typedVars
<1>2. /\ ~failed /\ ~Midway /\ readers[t].text = <<>>
      /\ \A u \in Readers : u # t => readers[u].at = "none" /\ readers[u].text = <<>>
  BY <1>1, ReaderAlone
<1>3. PICK w : /\ Extract(readers[t].word, w)
               /\ readers' = [readers EXCEPT
                    ![t].word = w,
                    ![t].at = IF w = "/quit" THEN "shutdown"
                              ELSE IF w \in Commands THEN "room" ELSE NextLoop]
  BY DEF ReadWord
<1>4. PICK k \in DOMAIN input : WordAt(k) /\ w = input[k] /\ input' = From(k + 1)
  BY <1>2, <1>3 DEF Extract
<1>5. ~failed'
  BY <1>2, <1>3 DEF Extract
<1>6. k \in 1..Len(input) /\ k \in 0..Len(input) /\ k \in Starts(input, Midway)
      /\ (w \notin Commands => Aligned(input, k, Midway, FALSE))
  <2>1. k \in Starts(input, Midway) /\ k \in 1..Len(input)
        /\ (w \notin Commands => Aligned(input, k, Midway, FALSE))
    BY <1>2, <1>4, NextWord
  <2>2. k \in 0..Len(input)
    BY <1>0, <2>1
  <2> QED
    BY <2>1, <2>2
<1>7. input' = SubSeq(input, k + 1, Len(input))
  BY <1>4 DEF From
<1>8. \A u \in Readers : readers'[u].text = <<>> /\ (u # t => readers'[u] = readers[u])
  BY <1>0, <1>2, <1>3
<1>9. CASE w \notin Commands
  <2>1. readers'[t].at \in {"shutdown", "word", "over"}
    BY <1>0, <1>3, <1>9 DEF NextLoop
  <2>2. \A u \in Readers : readers'[u].at \notin HasWord
    BY <1>2, <1>8, <2>1 DEF HasWord
  <2> QED
    BY <1>1, <1>5, <1>6, <1>7, <1>8, <1>9, <2>2, FreeHands
<1>10. CASE w \in Commands
  <2>1. readers'[t].at = "room" /\ readers'[t].word = w
    <3>1. w # "/quit"
      BY <1>10 DEF Commands
    <3> QED
      BY <1>0, <1>3, <1>10, <3>1
  <2>2. Midway' = TRUE
    BY <2>1 DEF Midway
  <2>3. Aligned(input, k, Midway, Midway')
    BY <2>2 DEF Aligned
  <2>4. \A c \in CommandLines : Len(c) \in Nat /\ Len(c) > 1
    BY CommandLineParts DEF Tidy
  <2>5. PICK l \in CommandLines : Fits(input, k, l)
    BY <1>4, <1>6, <1>10 DEF Tidy, InOrder, WellTyped
  <2>6. k \in Int /\ k - k = 0 /\ \A c \in CommandLines :
          /\ k + Len(c) > k
          /\ \A j \in 1..Len(c) : k + j - 1 \in 1..k => j = 1
    BY <1>0, <1>6, <2>4
  <2>7. Fits(input', 0, l)
    <3>1. Fits(SubSeq(input, k + 1, Len(input)), k - k, l)
      BY <1>0, <1>6, <2>4, <2>5, <2>6, FitsRest
    <3> QED
      BY <1>7, <2>6, <3>1
  <2>8. Holds(readers'[t], input', l)
    <3>1. 1 \in 1..Len(l) /\ k + 1 - 1 = k /\ k >= 1
      BY <1>0, <1>6, <2>4
    <3>2. input[k] = l[1]
      BY <2>5, <3>1 DEF Fits
    <3> QED
      BY <1>4, <2>1, <2>7, <3>2 DEF Holds
  <2>9. ASSUME NEW u \in Readers, readers'[u].at \in HasWord
        PROVE  u = t
    BY <1>2, <1>8, <2>9 DEF HasWord
  <2>10. ASSUME NEW c \in CommandLines, NEW u \in Readers, Holds(readers'[u], input', c)
         PROVE  \E j \in Copies(input, Midway, c) : j <= k
    <3>1. u = t
      BY <2>9, <2>10 DEF Holds, HasWord
    <3>2. Fits(input', 0, c) /\ input[k] = c[1]
      BY <1>4, <2>1, <2>10, <3>1 DEF Holds
    <3>3. \A j \in 1..Len(c) : k + j - 1 \in 1..k => input[k + j - 1] = c[j]
      <4>1. k + 1 - 1 = k
        BY <1>0, <1>6
      <4> QED
        BY <2>6, <3>2, <4>1
    <3>4. Fits(SubSeq(input, k + 1, Len(input)), k - k, c)
      BY <1>7, <2>6, <3>2
    <3>5. Fits(input, k, c)
      BY <1>0, <1>6, <2>4, <2>6, <3>3, <3>4, FitsRest
    <3>6. k \in Copies(input, Midway, c) /\ k <= k
      BY <1>6, <2>6, <3>5 DEF Copies
    <3> QED
      BY <3>6
  <2> QED
    BY <1>1, <1>5, <1>6, <1>7, <1>8, <2>3, <2>5, <2>8, <2>9, <2>10, AfterReading
<1> QED
  BY <1>9, <1>10

LEMMA ReadRoomKeeps ==
    ASSUME Tidy, NEW t \in Readers, ReadRoom(t)
    PROVE  InOrder' /\ Accounted'
<1>0. /\ readers \in [Readers -> [at: Places, word: Words, room: Words, text: Texts]]
      /\ Len(input) \in Nat /\ input \in Texts /\ DOMAIN input = 1..Len(input)
  BY TidyTypes
<1>1. /\ readers[t].at = "room" /\ UNCHANGED <<sent, strays, typed>>
  BY DEF ReadRoom, ReaderAt, ReadingOnly, sentVars, typedVars
<1>2. /\ ~failed /\ Midway /\ readers[t].text = <<>>
      /\ \A u \in Readers : u # t => readers[u].at = "none" /\ readers[u].text = <<>>
  BY <1>1, ReaderAlone
<1>3. PICK w : /\ Extract("", w)
               /\ readers' = [readers EXCEPT
                    ![t].room = w,
                    ![t].at = IF readers[t].word = "/say" THEN "text" ELSE "send"]
  BY DEF ReadRoom
<1>4. PICK k \in DOMAIN input : WordAt(k) /\ w = input[k] /\ input' = From(k + 1)
  BY <1>2, <1>3 DEF Extract
<1>5. ~failed'
  BY <1>2, <1>3 DEF Extract
<1>6. PICK l \in CommandLines : readers[t].word = l[1] /\ Fits(input, 0, l)
  <2>1. readers[t].at \in HasWord /\ readers[t].at # "text" /\ readers[t].at # "send"
    BY <1>1 DEF HasWord
  <2> QED
    BY <2>1, ReaderHolds DEF Holds
<1>7. \A c \in CommandLines :
        /\ Len(c) \in Nat /\ Len(c) > 1 /\ c \in Seq(STRING)
        /\ c[1] # "/say" => Len(c) = 2
        /\ \A j \in 1..Len(c) : c[j] # Eol
  BY CommandLineParts DEF Tidy
<1>8. 2 \in 1..Len(l) /\ input[1] = l[2] /\ input[1] # Eol /\ 1 \in 1..Len(input)
  <2>1. 2 \in 1..Len(l) /\ 0 + 2 - 1 = 1 /\ 0 + 2 - 1 >= 1 /\ 0 + Len(l) >= 1
    BY <1>7
  <2>2. 0 + Len(l) \in 1..Len(input) /\ input[0 + 2 - 1] = l[2]
    BY <1>6, <2>1 DEF Fits
  <2>3. 1 \in 1..Len(input)
    BY <1>0, <2>1, <2>2
  <2> QED
    BY <1>7, <2>1, <2>2, <2>3
<1>9. k = 1
  <2>1. k \in 1..Len(input) /\ (k # 1 => 1 \in 1..(k - 1))
    BY <1>0
  <2> QED
    BY <1>4, <1>8, <2>1 DEF WordAt
<1>10. /\ 1 \in 0..Len(input) /\ input' = SubSeq(input, 1 + 1, Len(input)) /\ w = l[2]
       /\ w = input[1]
  BY <1>0, <1>4, <1>8, <1>9 DEF From
<1>11. /\ \A u \in Readers : readers'[u].text = <<>> /\ (u # t => readers'[u] = readers[u])
       /\ readers'[t].word = readers[t].word /\ readers'[t].room = w
       /\ readers'[t].at = IF readers[t].word = "/say" THEN "text" ELSE "send"
  BY <1>0, <1>2, <1>3
<1>12. ASSUME NEW u \in Readers, readers'[u].at \in HasWord
       PROVE  u = t
  BY <1>2, <1>11, <1>12 DEF HasWord
<1>13. CASE readers[t].word = "/say"
  <2>1. readers'[t].at = "text" /\ Midway' = TRUE
    BY <1>11, <1>13 DEF Midway
  <2>2. Aligned(input, 1, Midway, Midway')
    BY <2>1 DEF Aligned
  <2>3. 0 - 1 = -1 /\ \A c \in CommandLines :
          0 + Len(c) > 1 /\ \A j \in 1..Len(c) : 0 + j - 1 \in 1..1 => j = 2
    BY <1>7
  <2>4. Holds(readers'[t], input', l)
    <3>1. Fits(SubSeq(input, 1 + 1, Len(input)), 0 - 1, l)
      BY <1>0, <1>6, <1>7, <1>10, <2>3, FitsRest
    <3>2. Fits(input', -1, l)
      BY <1>10, <2>3, <3>1
    <3> QED
      BY <1>6, <1>10, <1>11, <2>1, <3>2 DEF Holds
  <2>5. ASSUME NEW c \in CommandLines, NEW u \in Readers, Holds(readers'[u], input', c)
        PROVE  InHand(c) = 1
    <3>1. u = t
      BY <1>12, <2>5 DEF Holds, HasWord
    <3>2. Fits(input', -1, c) /\ readers[t].word = c[1] /\ w = c[2]
      BY <1>11, <2>1, <2>5, <3>1 DEF Holds
    <3>3. ASSUME NEW j \in 1..Len(c), 0 + j - 1 \in 1..1
          PROVE  input[0 + j - 1] = c[j]
      <4>1. j = 2 /\ 0 + 2 - 1 = 1
        BY <2>3, <3>3
      <4> QED
        BY <1>10, <3>2, <4>1
    <3>4. Fits(SubSeq(input, 1 + 1, Len(input)), 0 - 1, c)
      BY <1>10, <2>3, <3>2
    <3>5. Fits(input, 0, c)
      BY <1>0, <1>7, <1>10, <3>3, <3>4, FitsRest
    <3>6. Holds(readers[t], input, c)
      BY <1>1, <3>2, <3>5 DEF Holds
    <3> QED
      BY <3>6 DEF InHand
  <2> QED
    BY <1>1, <1>5, <1>10, <1>11, <1>12, <2>2, <2>4, <2>5, AfterReading
<1>14. CASE readers[t].word # "/say"
  <2>1. readers'[t].at = "send" /\ Midway' = FALSE
    <3>1. readers'[t].at = "send" /\ \A u \in Readers : u # t => readers'[u].at = "none"
      BY <1>2, <1>11, <1>14
    <3> QED
      BY <3>1 DEF Midway
  <2>2. Len(l) = 2
    BY <1>6, <1>7, <1>14
  <2>3. Aligned(input, 1, Midway, Midway')
    <3>1. input[2] = Eol
      BY <1>6, <2>2 DEF Fits
    <3>2. Plain(input, 2)
      <4>1. \A j \in 2..Len(input) : 2 \in 2..j
        BY <1>0
      <4> QED
        BY <3>1, <4>1 DEF Plain
    <3> QED
      BY <3>1, <3>2, EolPlain DEF Aligned
  <2>4. LineOf(readers'[t]) = l
    <3>1. LineOf(readers'[t]) = <<l[1], l[2]>> \o <<>>
      BY <1>6, <1>10, <1>11 DEF LineOf
    <3>2. l[1] \in STRING /\ l[2] \in STRING
      BY <1>7, <1>8, ElementOfSeq
    <3>3. <<l[1], l[2]>> \in Seq(STRING)
      BY <3>2
    <3>4. <<l[1], l[2]>> \o <<>> = <<l[1], l[2]>>
      BY <3>3, ConcatEmptySeq
    <3>5. <<l[1], l[2]>> = l
      BY <1>7, <2>2, <3>3, SeqEqual
    <3> QED
      BY <3>1, <3>4, <3>5
  <2>5. Holds(readers'[t], input', l)
    BY <2>1, <2>4 DEF Holds
  <2>6. ASSUME NEW c \in CommandLines, NEW u \in Readers, Holds(readers'[u], input', c)
        PROVE  InHand(c) = 1
    <3>1. u = t
      BY <1>12, <2>6 DEF Holds, HasWord
    <3>2. c = l
      BY <2>1, <2>4, <2>6, <3>1 DEF Holds
    <3>3. Holds(readers[t], input, c)
      BY <1>1, <1>6, <3>2 DEF Holds
    <3> QED
      BY <3>3 DEF InHand
  <2> QED
    BY <1>1, <1>5, <1>10, <1>11, <1>12, <2>3, <2>5, <2>6, AfterReading
<1> QED
  BY <1>13, <1>14

\* The rest of its line is the text of the line.
LEMMA TextOfLine ==
    ASSUME Tidy, NEW l \in CommandLines, Fits(input, -1, l), NEW k \in DOMAIN input, EolAt(k)
    PROVE  <<l[1], l[2]>> \o SubSeq(input, 1, k - 1) = l
<1> DEFINE text == SubSeq(input, 1, k - 1)
           s == <<l[1], l[2]>>
<1>1. Len(input) \in Nat /\ input \in Texts /\ DOMAIN input = 1..Len(input) /\ k \in 1..Len(input)
  BY TidyTypes
<1>2. Len(l) \in Nat /\ Len(l) > 1 /\ l \in Seq(STRING) /\ \A j \in 1..Len(l) : l[j] # Eol
  BY CommandLineParts DEF Tidy
<1>3. Len(l) - 1 \in 1..Len(input) /\ input[Len(l) - 1] = Eol
  <2>1. -1 + Len(l) = Len(l) - 1
    BY <1>2
  <2>2. -1 + Len(l) \in 1..Len(input) /\ input[-1 + Len(l)] = Eol
    BY DEF Fits
  <2> QED
    BY <2>1, <2>2
<1>4. ASSUME NEW j \in 1..(Len(l) - 2)
      PROVE  input[j] = l[j + 2] /\ j + 2 \in 1..Len(l)
  <2>1. j + 2 \in 1..Len(l) /\ -1 + (j + 2) - 1 = j /\ -1 + (j + 2) - 1 >= 1
    BY <1>2
  <2>2. input[-1 + (j + 2) - 1] = l[j + 2]
    BY <2>1 DEF Fits
  <2> QED
    BY <2>1, <2>2
<1>5. k = Len(l) - 1
  <2>1. CASE k < Len(l) - 1
    <3>1. k \in 1..(Len(l) - 2)
      BY <1>1, <1>2, <2>1
    <3> QED
      BY <1>2, <1>4, <3>1 DEF EolAt
  <2>2. CASE k > Len(l) - 1
    <3>1. Len(l) - 1 \in 1..(k - 1)
      BY <1>1, <1>3, <2>2
    <3> QED
      BY <1>3, <3>1 DEF EolAt
  <2> QED
    BY <1>1, <1>2, <2>1, <2>2
<1>6. k - 1 = Len(l) - 2 /\ k - 1 \in Nat /\ k - 1 <= Len(input)
  BY <1>1, <1>2, <1>5
<1>7. Len(text) = k - 1 /\ \A j \in 1..(k - 1) : text[j] = input[j]
  BY <1>1, <1>6, FrontType DEF Texts
<1> HIDE DEF text
<1>8. \A j \in 1..(Len(l) - 2) : text[j] \in STRING
  <2>1. \A j \in 1..Len(l) : l[j] \in STRING
    BY <1>2, ElementOfSeq
  <2> QED
    BY <1>4, <1>6, <1>7, <2>1
<1>9. text \in Seq(STRING)
  <2>1. text \in Seq(Words)
    BY <1>1, <1>6, FrontType DEF Texts, text
  <2>2. text = [j \in 1..Len(text) |-> text[j]] /\ Len(text) \in Nat
    BY <2>1, SeqDef, LenProperties
  <2>3. \A j \in 1..Len(text) : text[j] \in STRING
    BY <1>6, <1>7, <1>8
  <2>4. text \in [1..Len(text) -> STRING]
    BY <2>2, <2>3
  <2> QED
    BY <2>2, <2>4, SeqDef
<1>10. s \in Seq(STRING) /\ Len(s) = 2 /\ s[1] = l[1] /\ s[2] = l[2]
  <2>1. 1 \in 1..Len(l) /\ 2 \in 1..Len(l)
    BY <1>2
  <2>2. l[1] \in STRING /\ l[2] \in STRING
    BY <1>2, <2>1, ElementOfSeq
  <2>3. s \in Seq(STRING)
    BY <2>2
  <2>4. Len(s) = 2 /\ s[1] = l[1] /\ s[2] = l[2]
    OBVIOUS
  <2> QED
    BY <2>3, <2>4
<1> HIDE DEF s
<1>11. s \o text \in Seq(STRING) /\ Len(s \o text) = 2 + Len(text)
       /\ \A j \in 1..(2 + Len(text)) : (s \o text)[j] = IF j <= 2 THEN s[j] ELSE text[j - 2]
  <2>1. /\ s \o text \in Seq(STRING) /\ Len(s \o text) = Len(s) + Len(text)
        /\ \A j \in 1..(Len(s) + Len(text)) :
              (s \o text)[j] = IF j <= Len(s) THEN s[j] ELSE text[j - Len(s)]
    <3>1. s \in Seq(STRING)
      BY <1>10
    <3> QED
      BY <1>9, <3>1, ConcatProperties
  <2>2. Len(s) = 2
    BY <1>10
  <2> QED
    BY <2>1, <2>2
<1>12. Len(s \o text) = Len(l)
  BY <1>2, <1>6, <1>7, <1>11
<1>13. ASSUME NEW j \in 1..Len(l)
       PROVE  (s \o text)[j] = l[j]
  <2>1. j \in 1..(2 + Len(text))
    BY <1>2, <1>6, <1>7
  <2>2. CASE j <= 2
    <3>1. j = 1 \/ j = 2
      BY <2>2
    <3>2. (s \o text)[j] = s[j]
      BY <1>11, <2>1, <2>2
    <3> QED
      BY <1>10, <3>1, <3>2
  <2>3. CASE ~(j <= 2)
    <3>1. j - 2 \in 1..(Len(l) - 2) /\ j - 2 \in 1..(k - 1) /\ (j - 2) + 2 = j
      BY <1>2, <1>6, <2>3
    <3>2. (s \o text)[j] = text[j - 2]
      BY <1>11, <2>1, <2>3
    <3> QED
      BY <1>4, <1>7, <3>1, <3>2
  <2> QED
    BY <2>2, <2>3
<1>14. s \o text = l
  BY <1>2, <1>11, <1>12, <1>13, SeqEqual
<1> QED
  BY <1>14 DEF s, text

LEMMA ReadTextKeeps ==
    ASSUME Tidy, NEW t \in Readers, ReadText(t)
    PROVE  InOrder' /\ Accounted'
<1>0. /\ readers \in [Readers -> [at: Places, word: Words, room: Words, text: Texts]]
      /\ Len(input) \in Nat /\ input \in Texts /\ DOMAIN input = 1..Len(input)
  BY TidyTypes
<1>1. /\ readers[t].at = "text" /\ UNCHANGED <<sent, strays, typed>>
  BY DEF ReadText, ReaderAt, ReadingOnly, sentVars, typedVars
<1>2. /\ ~failed /\ \A u \in Readers : u # t => readers[u].at = "none" /\ readers[u].text = <<>>
  BY <1>1, ReaderAlone
<1>3. PICK text : /\ GetLine(text)
                  /\ readers' = [readers EXCEPT ![t].text = text, ![t].at = "send"]
  BY DEF ReadText
<1>4. failed' = failed /\ \E k \in DOMAIN input :
        EolAt(k) /\ input' = From(k + 1) /\ text = SubSeq(input, 1, k - 1)
  BY <1>2, <1>3, LineFits
<1>5. PICK k \in DOMAIN input :
        EolAt(k) /\ input' = From(k + 1) /\ text = SubSeq(input, 1, k - 1)
  BY <1>4
<1>6. k \in 0..Len(input) /\ Aligned(input, k, Midway, FALSE)
      /\ input' = SubSeq(input, k + 1, Len(input))
  BY <1>5, LineRead DEF From
<1>7. /\ readers'[t].at = "send" /\ readers'[t].text = text
      /\ readers'[t].word = readers[t].word /\ readers'[t].room = readers[t].room
      /\ \A u \in Readers : u # t => readers'[u] = readers[u]
  BY <1>0, <1>3
<1>8. Midway' = FALSE
  <2>1. \A u \in Readers : readers'[u].at \notin {"room", "text"}
    BY <1>2, <1>7
  <2> QED
    BY <2>1 DEF Midway
<1>9. PICK l \in CommandLines : /\ readers[t].word = l[1] /\ readers[t].room = l[2]
                                /\ Fits(input, -1, l)
  <2>1. readers[t].at \in HasWord /\ readers[t].at # "room" /\ readers[t].at # "send"
    BY <1>1 DEF HasWord
  <2> QED
    BY <2>1, ReaderHolds DEF Holds
<1>10. LineOf(readers'[t]) = l
  BY <1>5, <1>7, <1>9, TextOfLine DEF LineOf
<1>11. Holds(readers'[t], input', l) /\ InHand(l) = 1
  BY <1>1, <1>7, <1>9, <1>10 DEF Holds, InHand
<1>12. ASSUME NEW u \in Readers, readers'[u].at \in HasWord
       PROVE  u = t
  BY <1>2, <1>7, <1>12 DEF HasWord
<1>13. ASSUME NEW c \in CommandLines, NEW u \in Readers, Holds(readers'[u], input', c)
       PROVE  InHand(c) = 1
  <2>1. u = t
    BY <1>12, <1>13 DEF Holds, HasWord
  <2>2. c = l
    BY <1>7, <1>10, <1>13, <2>1 DEF Holds
  <2> QED
    BY <1>11, <2>2
<1>14. \A u \in Readers : readers'[u].at # "send" => readers'[u].text = <<>>
  BY <1>2, <1>7
<1>15. \A u \in Readers : readers'[u].at \in HasWord =>
                            \E c \in CommandLines : Holds(readers'[u], input', c)
  BY <1>11, <1>12
<1>16. Aligned(input, k, Midway, Midway') /\ ~failed'
  BY <1>2, <1>4, <1>6, <1>8
<1> QED
  BY <1>1, <1>6, <1>13, <1>14, <1>15, <1>16, AfterReading

\* A command that a thread had in hand is sent.
LEMMA SendCommandKeeps ==
    ASSUME Tidy, NEW t \in Readers, SendCommand(t)
    PROVE  InOrder' /\ Accounted'
<1>0. /\ readers \in [Readers -> [at: Places, word: Words, room: Words, text: Texts]]
      /\ Len(input) \in Nat /\ input \in Texts
      /\ typed \in [CommandLines -> Nat] /\ sent \in [CommandLines -> Nat]
  BY TidyTypes
<1>1. readers[t].at = "send" /\ UNCHANGED <<input, failed, typed>>
  BY DEF SendCommand, ReaderAt, consoleVars, typedVars
<1>2. /\ ~failed /\ ~Midway
      /\ \A u \in Readers : u # t => readers[u].at = "none" /\ readers[u].text = <<>>
  BY <1>1, ReaderAlone
<1>3. CASE ~(CommandSize(readers[t]) <= BufferLength)
  <2>1. UNCHANGED <<readers, sent, strays>>
    BY <1>3 DEF SendCommand, sentVars
  <2> QED
    BY <1>1, <1>2, <2>1, NothingRead
<1>4. CASE CommandSize(readers[t]) <= BufferLength
  <2>1. SendsCommand(t, readers[t])
    BY <1>4 DEF SendCommand
  <2>2. PICK l \in CommandLines : LineOf(readers[t]) = l
    <3>1. readers[t].at \in HasWord /\ readers[t].at # "room" /\ readers[t].at # "text"
      BY <1>1 DEF HasWord
    <3> QED
      BY <3>1, ReaderHolds DEF Holds
  <2>3. sent' = [sent EXCEPT ![l] = @ + 1] /\ strays' = strays
    BY <2>1, <2>2 DEF SendsCommand
  <2>4. /\ readers'[t].at \in {"word", "over"} /\ readers'[t].text = <<>>
        /\ \A u \in Readers : u # t => readers'[u] = readers[u]
    <3>1. readers' = [readers EXCEPT ![t] = AfterCommand(readers[t])]
      BY <2>1 DEF SendsCommand
    <3> QED
      BY <1>0, <3>1 DEF AfterCommand, NextLoop
  <2>5. \A u \in Readers : readers'[u].at \notin HasWord /\ readers'[u].text = <<>>
    BY <1>2, <2>4 DEF HasWord
  <2>6. Midway' = FALSE /\ Midway = FALSE
    BY <1>2, <2>5 DEF Midway, HasWord
  <2>7. InOrder'
    <3>1. \A u \in Readers : readers'[u].at # "send" => readers'[u].text = <<>>
      BY <2>5
    <3>2. WellTyped(input', Midway') /\ ~HasLong(input') /\ ~failed'
      BY <1>1, <1>2, <2>6 DEF Tidy, InOrder
    <3>3. input' # <<>> => input'[Len(input')] = Eol
      BY <1>1 DEF Tidy, InOrder
    <3> QED
      BY <2>5, <3>1, <3>2, <3>3 DEF InOrder
  <2>8. ASSUME NEW c \in CommandLines
        PROVE  sent'[c] + Cardinality(Copies(input', Midway', c)) + InHand(c)' <= typed'[c]
    <3> DEFINE n == Cardinality(Copies(input, Midway, c))
    <3>1. Cardinality(Copies(input', Midway', c)) = n /\ typed'[c] = typed[c]
      BY <1>1, <2>6
    <3>2. InHand(c)' = 0
      BY <2>5 DEF InHand, Holds, HasWord
    <3>3. sent[c] + n + InHand(c) <= typed[c]
      BY DEF Tidy, Accounted
    <3>4. n \in Nat /\ sent[c] \in Nat /\ typed[c] \in Nat /\ InHand(c) \in {0, 1}
      BY <1>0, CopiesFinite, TidyTypes
    <3>5. CASE c = l
      <4>1. Holds(readers[t], input, c)
        BY <1>1, <2>2, <3>5 DEF Holds
      <4>2. InHand(c) = 1 /\ sent'[c] = sent[c] + 1
        BY <1>0, <2>3, <3>5, <4>1 DEF InHand
      <4> HIDE DEF n
      <4>3. sent'[c] + n + 0 <= typed[c]
        BY <3>3, <3>4, <4>2
      <4> QED
        BY <3>1, <3>2, <4>3
    <3>6. CASE c # l
      <4>1. sent'[c] = sent[c]
        BY <1>0, <2>3, <3>6
      <4> HIDE DEF n
      <4>2. sent'[c] + n + 0 <= typed[c]
        BY <3>3, <3>4, <4>1
      <4> QED
        BY <3>1, <3>2, <4>2
    <3> QED
      BY <3>5, <3>6
  <2> QED
    BY <2>3, <2>7, <2>8 DEF Accounted, Tidy
<1> QED
  BY <1>3, <1>4

\* Only the console, and what was typed, change.
LEMMA UserTypesKeeps ==
    ASSUME Tidy, NEW l \in Lines, UserTypes(l), ~overlong'
    PROVE  InOrder' /\ Accounted'
<1> DEFINE p == input \o l \o <<Eol>>
<1>0. /\ input \in Texts /\ Len(input) \in Nat /\ DOMAIN input = 1..Len(input)
      /\ typed \in [CommandLines -> Nat] /\ sent \in [CommandLines -> Nat]
      /\ Midway \in BOOLEAN /\ ProperLines
      /\ WellTyped(input, Midway) /\ (input # <<>> => input[Len(input)] = Eol)
  BY TidyTypes DEF Tidy, InOrder
<1>1. /\ input' = p /\ ~HasLong(l) /\ UNCHANGED <<failed, readers, sent, strays, main>>
      /\ typed' = IF l \in CommandLines THEN [typed EXCEPT ![l] = @ + 1] ELSE typed
  BY DEF UserTypes, sentVars
<1>2. /\ Len(l) \in Nat /\ Len(p) = Len(input) + Len(l) + 1
      /\ \A j \in 1..Len(input) : p[j] = input[j]
      /\ \A j \in 1..Len(l) : p[Len(input) + j] = l[j]
      /\ p[Len(p)] = Eol /\ p \in Texts
  BY <1>0, TypedParts
<1>3. Midway' = Midway
  BY <1>1 DEF Midway
<1>4. WellTyped(p, Midway)
  BY <1>0, LineTyped
<1>5. \A c \in CommandLines :
        Cardinality(Copies(p, Midway, c))
          <= Cardinality(Copies(input, Midway, c)) + (IF c = l THEN 1 ELSE 0)
  BY <1>0, TypedCopies
<1>6. \A c \in CommandLines : \A k \in {-1, 0} :
        /\ Fits(input, k, c) => Fits(p, k, c)
        /\ Fits(p, k, c) /\ input # <<>> => Fits(input, k, c)
  <2>1. \A k \in {-1, 0} : k \in Int /\ k <= Len(input)
    BY <1>0
  <2> QED
    BY <1>0, <2>1, TypedFits
<1> HIDE DEF p
<1>7. ~HasLong(p)
  <2>1. DOMAIN p = 1..Len(p) /\ DOMAIN l = 1..Len(l)
    BY <1>2, LinesAssumption, LenProperties DEF Texts
  <2>2. ~HasLong(input)
    BY DEF Tidy, InOrder
  <2>3. ASSUME NEW j \in 1..Len(p)
        PROVE  p[j] # "long"
    <3>1. CASE j <= Len(input)
      <4>1. j \in 1..Len(input)
        BY <1>0, <3>1
      <4> QED
        BY <1>0, <1>2, <2>2, <4>1 DEF HasLong
    <3>2. CASE j > Len(input) /\ j # Len(p)
      <4>1. j - Len(input) \in 1..Len(l) /\ Len(input) + (j - Len(input)) = j
        BY <1>0, <1>2, <3>2
      <4> QED
        BY <1>1, <1>2, <2>1, <4>1 DEF HasLong
    <3>3. CASE j = Len(p)
      BY <1>2, <3>3 DEF Eol
    <3> QED
      BY <1>0, <1>2, <3>1, <3>2, <3>3
  <2> QED
    BY <2>1, <2>3 DEF HasLong
<1>8. \A c \in CommandLines : \A t \in Readers :
        Holds(readers[t], input, c) => Holds(readers[t], p, c)
  BY <1>6 DEF Holds
<1>9. ASSUME NEW c \in CommandLines, NEW t \in Readers, Holds(readers[t], p, c)
      PROVE  Holds(readers[t], input, c)
  <2>1. CASE readers[t].at = "send"
    BY <1>9, <2>1 DEF Holds
  <2>2. CASE readers[t].at # "send"
    <3>1. readers[t].at \in HasWord
      BY <1>9 DEF Holds, HasWord
    <3>2. PICK d \in CommandLines : Holds(readers[t], input, d)
      BY <3>1, ReaderHolds
    <3>3. \E k \in {-1, 0} : k + Len(d) \in 1..Len(input)
      BY <2>2, <3>2 DEF Holds, Fits
    <3>4. input # <<>>
      BY <1>0, <3>3, EmptySeq
    <3> QED
      BY <1>6, <1>9, <3>4 DEF Holds
  <2> QED
    BY <2>1, <2>2
<1>10. InOrder'
  <2>1. \A t \in Readers : readers[t].at \in HasWord =>
                              \E c \in CommandLines : Holds(readers[t], p, c)
    BY <1>8, ReaderHolds
  <2>2. (failed => main = "badOption")
        /\ \A t \in Readers : readers[t].at # "send" => readers[t].text = <<>>
    BY DEF Tidy, InOrder
  <2> QED
    BY <1>1, <1>2, <1>3, <1>4, <1>7, <2>1, <2>2 DEF InOrder
<1>11. ASSUME NEW c \in CommandLines
       PROVE  sent'[c] + Cardinality(Copies(input', Midway', c)) + InHand(c)' <= typed'[c]
  <2> DEFINE n == Cardinality(Copies(input, Midway, c))
             nn == Cardinality(Copies(p, Midway, c))
  <2>1. n \in Nat /\ nn \in Nat /\ sent[c] \in Nat /\ typed[c] \in Nat
        /\ InHand(c) \in {0, 1}
    BY <1>0, <1>2, CopiesFinite, TidyTypes
  <2>2. sent[c] + n + InHand(c) <= typed[c]
    BY DEF Tidy, Accounted
  <2>3. InHand(c)' = InHand(c) /\ sent'[c] = sent[c]
        /\ Cardinality(Copies(input', Midway', c)) = nn
    BY <1>1, <1>3, <1>8, <1>9 DEF InHand
  <2>4. nn <= n + (IF c = l THEN 1 ELSE 0) /\ typed'[c] = typed[c] + (IF c = l THEN 1 ELSE 0)
    BY <1>0, <1>1, <1>5
  <2> HIDE DEF n, nn
  <2>5. sent[c] + nn + InHand(c) <= typed'[c]
    BY <2>1, <2>2, <2>4
  <2> QED
    BY <2>3, <2>5
<1> QED
  BY <1>1, <1>10, <1>11 DEF Accounted, Tidy

\* Everybody else leaves the console, and what was read from it, alone.
LEMMA ElsewhereKeeps ==
    ASSUME Tidy, Start \/ Listen \/ Server \/ UNCHANGED vars \/ \E t \in Readers : Quit(t)
    PROVE  InOrder' /\ Accounted'
<1>0. /\ readers \in [Readers -> [at: Places, word: Words, room: Words, text: Texts]]
      /\ failed => main = "badOption"
  BY TidyTypes DEF Tidy, InOrder
<1>1. CASE Start
  <2>1. UNCHANGED <<input, failed, readers, sent, strays, typed>> /\ main # "badOption"
    BY <1>1 DEF Start, InitializeWinsock, ResolveServerAddr, TryAddress, ConnectFails, Starting,
       consoleVars, typedVars, sentVars
  <2> QED
    BY <1>0, <2>1, NothingRead
<1>2. CASE Receive \/ ReceiveEnd \/ HandleNotice \/ HandleVerdict
  <2>1. UNCHANGED <<input, failed, readers, sent, strays, typed>> /\ main # "badOption"
    BY <1>2 DEF Receive, ReceiveEnd, ProcessEnds, HandleNotice, HandleVerdict, HandlesPacket,
       consoleVars, typedVars, sentVars
  <2> QED
    BY <1>0, <2>1, NothingRead
<1>3. CASE HandleLoggedIn
  <2>1. UNCHANGED <<input, failed, sent, strays, typed>> /\ main # "badOption"
    BY <1>3 DEF HandleLoggedIn, HandlesPacket, consoleVars, typedVars, sentVars
  <2>2. PICK t \in Readers : /\ readers[t].at = "none"
                             /\ readers' = [readers EXCEPT ![t].at = NextLoop]
    BY <1>3 DEF HandleLoggedIn
  <2>3. readers'[t].at \notin HasWord /\ readers[t].at \notin HasWord
        /\ readers'[t].text = readers[t].text
        /\ \A u \in Readers : u # t => readers'[u] = readers[u]
    BY <1>0, <2>2 DEF NextLoop, HasWord
  <2> QED
    BY <1>0, <2>1, <2>3, NothingRead
<1>4. CASE Server \/ UNCHANGED vars
  <2>1. UNCHANGED <<input, failed, readers, sent, strays, typed, main>>
    BY <1>4 DEF Server, ServerAnswers, ServerTakesCommand, ServerNotifies, ServerEnds,
       EnvironmentOnly, vars, consoleVars, typedVars, sentVars
  <2> QED
    BY <1>0, <2>1, NothingRead
<1>5. ASSUME NEW t \in Readers, Quit(t)
      PROVE  InOrder' /\ Accounted'
  <2>1. /\ UNCHANGED <<input, failed, sent, strays, typed, main>>
        /\ readers[t].at \in {"shutdown", "cleanUp", "exit"}
        /\ \/ UNCHANGED readers
           \/ \E place \in {"cleanUp", "exit"} : readers' = [readers EXCEPT ![t].at = place]
    BY <1>5 DEF Quit, ShutDown, CleanUp, Exit, QuitOnly, ReaderAt, consoleVars, typedVars, sentVars
  <2>2. CASE UNCHANGED readers
    BY <1>0, <2>1, <2>2, NothingRead
  <2>3. ASSUME NEW place \in {"cleanUp", "exit"}, readers' = [readers EXCEPT ![t].at = place]
        PROVE  InOrder' /\ Accounted'
    <3>1. readers'[t].at \notin HasWord /\ readers[t].at \notin HasWord
          /\ readers'[t].text = readers[t].text
          /\ \A u \in Readers : u # t => readers'[u] = readers[u]
      BY <1>0, <2>1, <2>3 DEF HasWord
    <3> QED
      BY <1>0, <2>1, <3>1, NothingRead
  <2> QED
    BY <2>1, <2>2, <2>3
<1> QED
  BY <1>1, <1>2, <1>3, <1>4, <1>5 DEF Listen, HandleMessage

\* What went wrong once stays wrong.
LEMMA DoubledStays == ASSUME TypeInv, [Next]_vars, doubled PROVE doubled'
<1>1. CASE Start
  BY <1>1 DEF Start, InitializeWinsock, ResolveServerAddr, TryAddress, ConnectFails, Starting
<1>2. CASE Menu
  BY <1>2 DEF Menu, PickOption, MisreadOption, ClearLine, PromptName, PromptPassword, MenuOnly,
     SendRequest, serverVars
<1>3. CASE Listen
  BY <1>3 DEF Listen, Receive, ReceiveEnd, ProcessEnds, HandleMessage, HandleNotice, HandleLoggedIn,
     HandleVerdict, HandlesPacket, serverVars
<1>4. ASSUME NEW t \in Readers, ReadCin(t)
      PROVE  UNCHANGED doubled
  BY <1>4 DEF ReadCin, ReadWord, ReadRoom, ReadText, ReadingOnly, SendCommand, Quit, ShutDown,
     CleanUp, Exit, QuitOnly, serverVars
<1>5. CASE Server \/ UNCHANGED vars
  BY <1>5 DEF Server, ServerAnswers, ServerTakesCommand, ServerNotifies, ServerEnds,
     EnvironmentOnly, vars, serverVars
<1>6. CASE \E l \in Lines : UserTypes(l)
  BY <1>6 DEF UserTypes, serverVars
<1> QED
  BY <1>1, <1>2, <1>3, <1>4, <1>5, <1>6 DEF Next

LEMMA LinesStep ==
    ASSUME TypeInv, AllHandled /\ OneTurn, LinesKept, [Next]_vars
    PROVE  LinesKept'
<1> SUFFICES ASSUME ProperLines, ~doubled', ~overlong'
             PROVE  InOrder' /\ Accounted'
  BY DEF LinesKept, ProperLines
<1>1. ~doubled /\ ~overlong
  <2>1. overlong => overlong'
    BY TypedFrame DEF typedVars, UserTypes
  <2> QED
    BY <2>1, DoubledStays
<1>2. Tidy
  BY <1>1 DEF Tidy, LinesKept
<1>3. ASSUME NEW t \in Readers, ReadCin(t)
      PROVE  InOrder' /\ Accounted'
  BY <1>2, <1>3, ReadWordKeeps, ReadRoomKeeps, ReadTextKeeps, SendCommandKeeps, ElsewhereKeeps
     DEF ReadCin
<1>4. ASSUME NEW l \in Lines, UserTypes(l)
      PROVE  InOrder' /\ Accounted'
  BY <1>2, <1>4, UserTypesKeeps
<1> QED
  BY <1>2, <1>3, <1>4, MenuKeeps, ElsewhereKeeps DEF Next

LEMMA LinesInit == Init => LinesKept
<1> SUFFICES ASSUME Init
             PROVE  InOrder /\ Accounted
  BY DEF LinesKept
<1>1. /\ input = <<>> /\ failed = FALSE /\ strays = 0
      /\ \A t \in Readers : readers[t].at = "none" /\ readers[t].text = <<>>
      /\ \A l \in CommandLines : sent[l] = 0 /\ typed[l] = 0
  BY DEF Init, Idle
<1>2. Len(input) = 0 /\ DOMAIN input = {}
  BY <1>1
<1>3. Starts(input, Midway) = {} /\ ~HasLong(input)
  BY <1>2 DEF Starts, HasLong
<1>4. InOrder
  BY <1>1, <1>3 DEF InOrder, HasWord, WellTyped
<1>5. ASSUME NEW l \in CommandLines
      PROVE  sent[l] + Cardinality(Copies(input, Midway, l)) + InHand(l) <= typed[l]
  <2>1. Copies(input, Midway, l) = {}
    BY <1>3 DEF Copies
  <2>2. Cardinality(Copies(input, Midway, l)) = 0
    BY <2>1, FS_EmptySet
  <2>3. InHand(l) = 0
    BY <1>1 DEF InHand, Holds
  <2> QED
    BY <1>1, <2>2, <2>3
<1> QED
  BY <1>1, <1>4, <1>5 DEF Accounted

\* For any set of proper lines: as long as no request got a second answer and
\* no line was too long, the client sends no command that was not typed, and
\* none more often than it was typed.
THEOREM UnaskedCorrect == Spec => []NothingUnasked
<1>1. TypeInv /\ LinesKept => NothingUnasked
  <2> SUFFICES ASSUME TypeInv, ProperLines, InOrder, Accounted
               PROVE  strays = 0 /\ \A l \in CommandLines : sent[l] <= typed[l]
    BY DEF LinesKept, NothingUnasked
  <2>1. ASSUME NEW l \in CommandLines
        PROVE  sent[l] <= typed[l]
    <3> DEFINE n == Cardinality(Copies(input, Midway, l))
    <3>1. /\ input \in Texts /\ typed \in [CommandLines -> Nat]
          /\ sent \in [CommandLines -> Nat] /\ InHand(l) \in {0, 1}
      BY DEF TypeInv, TypeOK, InHand
    <3>2. n \in Nat /\ sent[l] + n + InHand(l) <= typed[l]
      BY <3>1, CopiesFinite DEF Accounted
    <3> HIDE DEF n
    <3> QED
      BY <3>1, <3>2
  <2> QED
    BY <2>1 DEF Accounted
<1>2. Spec => []LinesKept
  BY LinesInit, LinesStep, TypeInvCorrect, TurnCorrect, PTL DEF Spec
<1> QED
  BY <1>1, <1>2, TypeInvCorrect, PTL
=============================================================================
