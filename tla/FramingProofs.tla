--------------------------- MODULE FramingProofs ---------------------------
(***************************************************************************)
(* Theorems about Framing, for all conversations and buffer lengths.  The  *)
(* places of packets and fields are functions that LaidOut relates step by *)
(* step, so no proof needs an induction over the stream.                   *)
(***************************************************************************)
EXTENDS Framing, TLAPS

\* The assumption on the constants, for the conversation of this behaviour.
LEMMA TalkLaidOut ==
    ASSUME TypeOK
    PROVE  LaidOut(talk)
BY TalksAssumption DEF TypeOK

\* Packets of a conversation start in order, and at least two words apart.
LEMMA StartsInOrder ==
    ASSUME NEW t, LaidOut(t)
    PROVE  /\ Len(t.packets) \in Nat
           /\ \A k \in 1..(Len(t.packets) + 1) : t.start[k] \in Nat
           /\ \A j, k \in 1..(Len(t.packets) + 1) : j <= k => t.start[j] <= t.start[k]
           /\ \A j, k \in 1..(Len(t.packets) + 1) : j < k => t.start[j] + 2 <= t.start[k]
<1> DEFINE count == Len(t.packets)
<1>1. /\ count \in Nat
      /\ t.start \in [1..(count + 1) -> Nat]
      /\ \A j, k \in 1..(count + 1) : j < k => t.start[j] < t.start[k]
      /\ \A n \in 1..count : PacketLaidOut(t, n)
    BY DEF LaidOut
<1>2. \A k \in 1..(count + 1) : t.start[k] \in Nat
    BY <1>1
<1>3. \A j, k \in 1..(count + 1) : j <= k => t.start[j] <= t.start[k]
    BY <1>1, <1>2
<1>4. ASSUME NEW j \in 1..(count + 1), NEW k \in 1..(count + 1), j < k
      PROVE  t.start[j] + 2 <= t.start[k]
    <2>1. j \in 1..count /\ j + 1 \in 1..(count + 1) /\ j + 1 <= k
        BY <1>1, <1>4
    <2>2. PacketLaidOut(t, j)
        BY <1>1, <2>1
    <2>3. Len(Layout(t.end, t.packets[j].id)) \in Nat
        BY <2>2 DEF PacketLaidOut, Layout
    <2>4. t.start[j] + 2 <= t.start[j + 1]
        BY <2>2, <2>3, <2>1, <1>2 DEF PacketLaidOut
    <2>5. t.start[j + 1] <= t.start[k]
        BY <1>3, <2>1
    <2> QED
        BY <2>4, <2>5, <2>1, <1>2
<1> QED
    BY <1>1, <1>2, <1>3, <1>4

\* What a handler reads for an id: known kinds of fields, and at the
\* authentication ends all the rest or nothing.
LEMMA Kinds ==
    ASSUME NEW end, NEW i
    PROVE  /\ Layout(end, i) \in Seq({"string", "number", "rest"})
           /\ end \in AuthEnds => Layout(end, i) \in {<<>>, <<"rest">>}
           /\ end \notin AuthEnds =>
                \A f \in 1..Len(Layout(end, i)) : Layout(end, i)[f] # "rest"
<1> DEFINE chatLayouts == {<<>>, <<"string">>, <<"string", "string">>,
                           <<"string", "string", "string">>,
                           <<"number">>, <<"number", "string">>}
<1>1. end \in AuthEnds => Layout(end, i) \in {<<>>, <<"rest">>}
    BY DEF Layout, AuthEnds
<1>2. end \notin AuthEnds => Layout(end, i) \in chatLayouts
    BY DEF Layout, AuthEnds
<1>3. ASSUME NEW layout \in chatLayouts
      PROVE  /\ layout \in Seq({"string", "number", "rest"})
             /\ \A f \in 1..Len(layout) : layout[f] # "rest"
    <2>1. CASE layout = <<>>
        BY <2>1
    <2>2. CASE layout = <<"string">>
        BY <2>2
    <2>3. CASE layout = <<"string", "string">>
        BY <2>3
    <2>4. CASE layout = <<"string", "string", "string">>
        BY <2>4
    <2>5. CASE layout = <<"number">>
        BY <2>5
    <2>6. CASE layout = <<"number", "string">>
        BY <2>6
    <2> QED
        BY <2>1, <2>2, <2>3, <2>4, <2>5, <2>6
<1>4. ASSUME NEW layout \in {<<>>, <<"rest">>}
      PROVE  layout \in Seq({"string", "number", "rest"})
    <2>1. CASE layout = <<>>
        BY <2>1
    <2>2. CASE layout = <<"rest">>
        BY <2>2
    <2> QED
        BY <2>1, <2>2
<1> QED
    BY <1>1, <1>2, <1>3, <1>4
-----------------------------------------------------------------------------
\* Type correctness, action by action.
LEMMA TypeStep ==
    ASSUME TypeOK, [Next]_vars
    PROVE  TypeOK'
<1> USE DEF TypeOK, bufferVars
<1>1. LaidOut(talk)
    BY TalkLaidOut
<1>2. /\ Len(talk.packets) \in Nat
      /\ \A k \in 1..(Len(talk.packets) + 1) : talk.start[k] \in Nat
      /\ \A j, k \in 1..(Len(talk.packets) + 1) : j <= k => talk.start[j] <= talk.start[k]
    BY <1>1, StartsInOrder
<1>3. CASE Send
    <2>1. sent + 1 \in 0..Len(talk.packets)
        BY <1>3, <1>2 DEF Send
    <2>2. sent + 1 \in 1..(Len(talk.packets) + 1) /\ sent + 2 \in 1..(Len(talk.packets) + 1)
        BY <2>1, <1>2
    <2>3. /\ talk.start[sent + 1] <= talk.start[sent + 2]
          /\ talk.start[sent + 1] \in Nat /\ talk.start[sent + 2] \in Nat
        BY <1>2, <2>2
    <2>4. received \in 0..talk.start[sent + 2]
        BY <2>3
    <2> QED
        BY <1>3, <2>1, <2>4 DEF Send
<1>4. ASSUME NEW n \in 1..RecvMax, Recv(n)
      PROVE  TypeOK'
    <2>0. n \in Nat
        BY LengthAssumption
    <2>1. received' \in 0..talk.start[sent + 1]
        BY <1>4, <1>2, <2>0 DEF Recv
    <2>2. CASE writeIndex < 0 \/ writeIndex + n > Grown(n)
        BY <1>4, <2>1, <2>2 DEF Recv, Dies
    <2>3. CASE ~(writeIndex < 0 \/ writeIndex + n > Grown(n))
        <3>1. Grown(n) \in Nat /\ writeIndex + n \in Nat /\ writeIndex + n <= Grown(n)
            BY <2>0, <2>3 DEF Grown
        <3>2. talk.word \in [0..(talk.start[Len(talk.packets) + 1] - 1) -> Nat]
            BY <1>1 DEF LaidOut
        <3>3. /\ talk.start[sent + 1] <= talk.start[Len(talk.packets) + 1]
              /\ talk.start[sent + 1] \in Nat /\ talk.start[Len(talk.packets) + 1] \in Nat
            <4> DEFINE last == Len(talk.packets) + 1
            <4>1. sent + 1 \in 1..last /\ last \in 1..last /\ sent + 1 <= last
                BY <1>2
            <4>2. /\ \A k \in 1..last : talk.start[k] \in Nat
                  /\ \A j, k \in 1..last : j <= k => talk.start[j] <= talk.start[k]
                BY <1>2
            <4> HIDE DEF last
            <4>3. talk.start[sent + 1] <= talk.start[last]
                BY <4>1, <4>2
            <4>4. talk.start[sent + 1] \in Nat /\ talk.start[last] \in Nat
                BY <4>1, <4>2
            <4> QED
                BY <4>3, <4>4 DEF last
        <3>4. ASSUME NEW i \in 0..(Grown(n) - 1)
              PROVE  Loaded(n)[i] \in Nat
            <4>1. CASE i \in writeIndex..(writeIndex + n - 1)
                <5>1. received + (i - writeIndex) \in 0..(talk.start[Len(talk.packets) + 1] - 1)
                    <6>1. received \in Nat /\ received + n <= talk.start[sent + 1]
                        BY <3>3, <1>4 DEF Recv
                    <6>2. i - writeIndex \in 0..(n - 1)
                        BY <4>1, <2>0
                    <6>3. ASSUME NEW r \in Nat, NEW d \in 0..(n - 1), NEW a \in Nat, NEW b \in Nat,
                                 r + n <= a, a <= b
                          PROVE  r + d \in 0..(b - 1)
                        BY <2>0, <6>3
                    <6> QED
                        BY <6>1, <6>2, <6>3, <3>3
                <5>2. talk.word[received + (i - writeIndex)] \in Nat
                    BY <5>1, <3>2
                <5> QED
                    BY <4>1, <5>2 DEF Loaded
            <4>2. CASE ~(i \in writeIndex..(writeIndex + n - 1))
                BY <4>2, <3>1 DEF Loaded
            <4> QED
                BY <4>1, <4>2
        <3>5. Loaded(n) \in [0..(Grown(n) - 1) -> Nat]
            BY <3>4 DEF Loaded
        <3>6. /\ buffer' = Loaded(n) /\ capacity' = Grown(n)
              /\ writeIndex' = writeIndex + n /\ step' = "header"
              /\ UNCHANGED <<talk, sent, readIndex, id, got, handled>>
              /\ clean' \in BOOLEAN
            BY <1>4, <2>3 DEF Recv, EndsWithPacket
        <3>7. readIndex <= capacity'
            BY <3>6, <2>0 DEF Grown
        <3> QED
            BY <3>1, <3>5, <3>6, <3>7, <2>1
    <2> QED
        BY <2>2, <2>3
<1>5. CASE ReadHeader
    <2>1. HeaderWords \in {1, 2} /\ readIndex + HeaderWords <= capacity
        BY <1>5 DEF ReadHeader, HeaderWords, InMemory
    <2>2. got' = <<>>
        BY <1>5 DEF ReadHeader
    <2>3. CASE HasAllData
        <3>1. readIndex + 2 <= capacity
            BY <1>5, <2>3 DEF ReadHeader, InMemory
        <3>2. buffer[readIndex + 1] \in Nat
            BY <3>1
        <3> QED
            BY <1>5, <2>3, <3>1, <3>2 DEF ReadHeader
    <2>4. CASE ~HasAllData
        BY <1>5, <2>4, <2>1 DEF ReadHeader, ReturnShort
    <2> QED
        BY <2>3, <2>4
<1>6. CASE ReadField
    <2>1. NextKind \in {"string", "number", "rest"}
        <3>1. Layout(talk.end, id) \in Seq({"string", "number", "rest"})
            BY Kinds
        <3>2. Len(got) + 1 \in 1..Len(Layout(talk.end, id))
            BY <1>6, <3>1 DEF ReadField, Reading
        <3> QED
            BY <3>1, <3>2 DEF NextKind
    <2>2. Prefix \in {0, 1} /\ readIndex + Prefix <= capacity
        BY <1>6 DEF ReadField, FieldInMemory, InMemory, Prefix
    <2>3. FieldLength \in Nat
        <3>1. FieldLength >= 0
            BY <1>6 DEF ReadField, FieldInMemory
        <3>2. CASE NextKind = "string"
            <4>1. readIndex \in 0..(capacity - 1)
                BY <2>2, <3>2 DEF Prefix
            <4> QED
                BY <4>1, <3>2 DEF FieldLength
        <3>3. CASE NextKind = "number"
            BY <3>3 DEF FieldLength
        <3>4. CASE NextKind = "rest"
            BY <3>1, <3>4 DEF FieldLength, Unread
        <3> QED
            BY <2>1, <3>2, <3>3, <3>4
    <2>4. readIndex + Prefix + FieldLength \in Nat
          /\ readIndex + Prefix + FieldLength <= capacity
        BY <1>6, <2>2, <2>3 DEF ReadField, FieldInMemory, InMemory
    <2>5. \A i \in 1..FieldLength : buffer[readIndex + Prefix + (i - 1)] \in Nat
        BY <2>2, <2>3, <2>4
    <2>6. [i \in 1..FieldLength |-> buffer[readIndex + Prefix + (i - 1)]] \in Seq(Nat)
        BY <2>3, <2>5
    <2>7. got' \in Seq(Seq(Nat))
        BY <1>6, <2>6 DEF ReadField
    <2> QED
        BY <1>6, <2>4, <2>7 DEF ReadField
<1>7. CASE ReadsOutside
    BY <1>7 DEF ReadsOutside, Dies
<1>8. ASSUME Took
      PROVE  handled' \in Seq(Packets)
    BY <1>8 DEF Took, Packets
<1>9. CASE FinishPacket
    <2>1. \A i \in 0..(capacity - 1) : Shifted[i] \in Nat
        BY DEF Shifted, Unread
    <2>2. Shifted \in [0..(capacity - 1) -> Nat]
        BY <2>1 DEF Shifted
    <2>3. buffer' \in [0..(capacity' - 1) -> Nat] /\ capacity' = capacity
        BY <1>9, <2>2 DEF FinishPacket, FlushBuffer
    <2>4. writeIndex' \in Int /\ writeIndex' <= capacity /\ readIndex' = 0
        BY <1>9 DEF FinishPacket, FlushBuffer, Unread
    <2>5. step' \in {"recv", "header"}
        BY <1>9 DEF FinishPacket
    <2> QED
        BY <1>8, <1>9, <2>3, <2>4, <2>5 DEF FinishPacket
<1>10. CASE LeaveUnknown
    BY <1>8, <1>10 DEF LeaveUnknown
<1>11. CASE UNCHANGED vars
    BY <1>11 DEF vars
<1> QED
    BY <1>3, <1>4, <1>5, <1>6, <1>7, <1>9, <1>10, <1>11 DEF Next, HandleMessage

\* The types, and the bounds of the two indices, hold in every state.
THEOREM TypeCorrect == Spec => []TypeOK
<1>1. Init => TypeOK
    <2> SUFFICES ASSUME Init PROVE TypeOK
        OBVIOUS
    <2>1. LaidOut(talk)
        BY TalksAssumption DEF Init
    <2>2. Len(talk.packets) \in Nat /\ talk.start[1] = 0
        BY <2>1, StartsInOrder DEF LaidOut
    <2> QED
        BY <2>2, LengthAssumption DEF Init, TypeOK, Packets
<1>2. TypeOK /\ [Next]_vars => TypeOK'
    BY TypeStep
<1> QED
    BY <1>1, <1>2, PTL DEF Spec
-----------------------------------------------------------------------------
Inductive == TypeOK /\ InStream /\ TakenInOrder /\ ReadsWhatWasWritten /\ NothingLeftBehind

\* A handler that starts has the whole of the next packet before it.
LEMMA PacketAhead ==
    ASSUME Inductive, clean, step = "header"
    PROVE  LET size == talk.start[Number + 1] - talk.start[Number]
           IN  /\ Number \in 1..Len(talk.packets)
               /\ talk.start[Number + 1] <= received
               /\ size >= 2 /\ Unread >= size
               /\ buffer[readIndex] = size
               /\ buffer[readIndex + 1] = talk.packets[Number].id
<1> DEFINE count == Len(talk.packets)
<1>1. LaidOut(talk)
    BY TalkLaidOut DEF Inductive
<1>2. /\ count \in Nat
      /\ \A k \in 1..(count + 1) : talk.start[k] \in Nat
      /\ \A j, k \in 1..(count + 1) : j <= k => talk.start[j] <= talk.start[k]
      /\ \A j, k \in 1..(count + 1) : j < k => talk.start[j] + 2 <= talk.start[k]
    BY <1>1, StartsInOrder
<1>3. Len(handled) \in Nat /\ Number = Len(handled) + 1 /\ Number \in 1..(count + 1)
    BY <1>2 DEF Inductive, TypeOK, InStream, Number
<1>4. PICK m \in 1..(count + 1) : received = talk.start[m]
    BY DEF Inductive, InStream
<1>5. Unread = received - talk.start[Number] /\ Unread > 0
    BY DEF Inductive, InStream
<1>6. talk.start[m] > talk.start[Number] /\ talk.start[m] \in Nat /\ talk.start[Number] \in Nat
    BY <1>2, <1>3, <1>4, <1>5
<1>7. Number < m
    BY <1>2, <1>3, <1>6
<1>8. Number \in 1..count /\ Number + 1 \in 1..(count + 1) /\ Number + 1 <= m
    BY <1>2, <1>3, <1>7
<1>9. /\ talk.start[Number + 1] \in Nat
      /\ talk.start[Number + 1] <= received
      /\ talk.start[Number] + 2 <= talk.start[Number + 1]
    BY <1>2, <1>3, <1>4, <1>8
<1>10. \A i \in readIndex..(writeIndex - 1) : buffer[i] = talk.word[received - writeIndex + i]
    BY DEF Inductive, InStream
<1>11. /\ readIndex \in readIndex..(writeIndex - 1)
       /\ readIndex + 1 \in readIndex..(writeIndex - 1)
       /\ received - writeIndex + readIndex = talk.start[Number]
       /\ received - writeIndex + (readIndex + 1) = talk.start[Number] + 1
    <2>1. readIndex \in Nat /\ writeIndex \in Int /\ received \in Nat
        BY <1>4, <1>6 DEF Inductive, TypeOK
    <2>2. writeIndex - readIndex = received - talk.start[Number] /\ received \in Nat
        BY <1>4, <1>5, <1>6 DEF Unread
    <2>3. received >= talk.start[Number] + 2
        BY <1>6, <1>9, <2>1
    <2>4. ASSUME NEW r \in Nat, NEW w \in Int, NEW x \in Nat, NEW a \in Nat,
                 w - r = x - a, x >= a + 2
          PROVE  /\ r \in r..(w - 1) /\ r + 1 \in r..(w - 1)
                 /\ x - w + r = a /\ x - w + (r + 1) = a + 1
        BY <2>4
    <2> QED
        BY <1>6, <2>1, <2>2, <2>3, <2>4
<1>12. PacketLaidOut(talk, Number)
    BY <1>1, <1>8 DEF LaidOut
<1>13. /\ buffer[readIndex] = talk.word[talk.start[Number]]
       /\ buffer[readIndex + 1] = talk.word[talk.start[Number] + 1]
    BY <1>10, <1>11
<1>14. /\ buffer[readIndex] = talk.start[Number + 1] - talk.start[Number]
       /\ buffer[readIndex + 1] = talk.packets[Number].id
    BY <1>12, <1>13 DEF PacketLaidOut
<1>15. Unread >= talk.start[Number + 1] - talk.start[Number]
    BY <1>4, <1>5, <1>6, <1>9
<1> QED
    BY <1>6, <1>8, <1>9, <1>14, <1>15

\* A handler that reads a field reads the field that was sent.
LEMMA FieldAhead ==
    ASSUME Inductive, clean, Reading
    PROVE  LET field == talk.packets[Number].fields[Len(got) + 1]
           IN  /\ field \in Seq(Nat)
               /\ Prefix \in {0, 1}
               /\ FieldLength = Len(field)
               /\ readIndex + Prefix + FieldLength <= writeIndex
               /\ \A i \in 1..Len(field) : buffer[readIndex + Prefix + (i - 1)] = field[i]
               /\ Len(got) + 1 <= Len(talk.packets[Number].fields)
               /\ Unread - (Prefix + FieldLength) = received - talk.at[Number][Len(got) + 2]
<1> DEFINE packet == talk.packets[Number]
           layout == Layout(talk.end, id)
           f      == Len(got) + 1
           field  == packet.fields[f]
           place  == talk.at[Number][f]
           next   == talk.at[Number][f + 1]
<1>1. LaidOut(talk)
    BY TalkLaidOut DEF Inductive
<1>2. /\ Number <= Len(talk.packets) /\ Number \in 1..Len(talk.packets)
      /\ talk.start[Number + 1] <= received
      /\ id = packet.id
      /\ Unread = received - place
      /\ Len(got) \in Nat
      /\ \A i \in readIndex..(writeIndex - 1) : buffer[i] = talk.word[received - writeIndex + i]
      /\ talk.end \in AuthEnds => received = talk.start[Number + 1]
    <2>1. Len(handled) \in Nat /\ Len(got) \in Nat /\ Len(talk.packets) \in Nat
        BY <1>1 DEF Inductive, TypeOK, LaidOut
    <2>2. Number \in Nat /\ Number >= 1
        BY <2>1 DEF Number
    <2>3. step = "fields"
        BY DEF Reading
    <2>4. InStream
        BY DEF Inductive
    <2> QED
        BY <2>1, <2>2, <2>3, <2>4 DEF InStream
<1>3. PacketLaidOut(talk, Number)
    BY <1>1, <1>2 DEF LaidOut
<1>4. packet \in Packets
    BY <1>1, <1>2 DEF LaidOut
<1>5. layout \in Seq({"string", "number", "rest"}) /\ Len(layout) \in Nat
    BY Kinds
<1>6. f \in 1..Len(layout) /\ Len(packet.fields) = Len(layout)
    BY <1>2, <1>3, <1>5 DEF Reading, PacketLaidOut
<1>7. field \in Seq(Nat) /\ Len(field) \in Nat
    BY <1>4, <1>6, <1>5 DEF Packets
<1>8. FieldLaidOut(talk, Number, f)
    BY <1>2, <1>3, <1>6 DEF PacketLaidOut
<1>9. /\ place \in Nat /\ talk.at[Number][f + 1] \in Nat
      /\ talk.at[Number][f + 1] <= talk.start[Number + 1]
    <2>1. f \in 1..(Len(layout) + 1) /\ f + 1 \in 1..(Len(layout) + 1)
        BY <1>5, <1>6
    <2> QED
        BY <2>1, <1>2, <1>3 DEF PacketLaidOut
<1>10. NextKind = layout[f] /\ NextKind \in {"string", "number", "rest"}
    BY <1>5, <1>6 DEF NextKind
<1>11. Prefix \in {0, 1} /\ Prefix = IF layout[f] = "string" THEN 1 ELSE 0
    BY <1>10 DEF Prefix
<1>12. /\ talk.at[Number][f + 1] = place + Prefix + Len(field)
       /\ layout[f] = "string" => talk.word[place] = Len(field)
       /\ layout[f] = "number" => Len(field) = 1
       /\ \A i \in 1..Len(field) : talk.word[place + Prefix + i - 1] = field[i]
    BY <1>2, <1>8, <1>11 DEF FieldLaidOut
<1>13. /\ received \in Nat /\ readIndex \in Nat /\ writeIndex \in Int
       /\ talk.start[Number + 1] \in Nat
    <2>1. \A k \in 1..(Len(talk.packets) + 1) : talk.start[k] \in Nat
        BY <1>1, StartsInOrder
    <2>2. Number + 1 \in 1..(Len(talk.packets) + 1)
        BY <1>2
    <2>3. \E m \in 1..(Len(talk.packets) + 1) : received = talk.start[m]
        BY DEF Inductive, InStream
    <2> QED
        BY <2>1, <2>2, <2>3 DEF Inductive, TypeOK
<1>14. next = received \/ NextKind # "rest"
    <2>1. SUFFICES ASSUME NextKind = "rest"
                   PROVE  next = received
        OBVIOUS
    <2>2. talk.end \in AuthEnds
        BY <2>1, <1>6, <1>10, Kinds
    <2>3. layout = <<"rest">>
        BY <2>2, <1>6, <1>5, Kinds
    <2>4. Len(layout) = 1 /\ f = 1
        BY <2>3, <1>6
    <2>5. next = talk.start[Number + 1]
        BY <2>4, <1>2, <1>3 DEF PacketLaidOut
    <2> QED
        BY <2>2, <2>5, <1>2
<1> HIDE DEF packet, layout, f, field, place, next
<1>15. /\ place \in Nat /\ next \in Nat /\ Len(field) \in Nat
       /\ next = place + Prefix + Len(field)
       /\ next <= received
       /\ writeIndex - readIndex = received - place
    BY <1>2, <1>7, <1>9, <1>12, <1>13 DEF place, next, field, f, packet, Unread
<1>16. Unread = writeIndex - readIndex /\ Unread >= Prefix + Len(field) /\ Unread \in Nat
    BY <1>11, <1>13, <1>15 DEF Unread
<1>17. FieldLength = Len(field)
    <2>1. CASE NextKind = "string"
        <3>1. readIndex \in readIndex..(writeIndex - 1)
            BY <2>1, <1>10, <1>11, <1>13, <1>15, <1>16
        <3>2. received - writeIndex + readIndex = place
            BY <1>13, <1>15
        <3>3. buffer[readIndex] = talk.word[place]
            BY <3>1, <3>2, <1>2
        <3> QED
            BY <2>1, <3>3, <1>10, <1>12 DEF FieldLength
    <2>2. CASE NextKind = "number"
        BY <2>2, <1>10, <1>12 DEF FieldLength
    <2>3. CASE NextKind = "rest"
        <3>1. Prefix = 0 /\ next = received
            BY <2>3, <1>10, <1>11, <1>14
        <3>2. Unread = Len(field)
            BY <3>1, <1>13, <1>15, <1>16
        <3> QED
            BY <2>3, <3>2 DEF FieldLength
    <2> QED
        BY <1>10, <2>1, <2>2, <2>3
<1>18. ASSUME NEW i \in 1..Len(field)
       PROVE  buffer[readIndex + Prefix + (i - 1)] = field[i]
    <2>1. readIndex + Prefix + (i - 1) \in readIndex..(writeIndex - 1)
        BY <1>11, <1>13, <1>15, <1>16
    <2>2. received - writeIndex + (readIndex + Prefix + (i - 1)) = place + Prefix + i - 1
        BY <1>11, <1>13, <1>15
    <2>3. talk.word[place + Prefix + i - 1] = field[i]
        BY <1>12
    <2> QED
        BY <2>1, <2>2, <2>3, <1>2
<1>19. readIndex + Prefix + FieldLength <= writeIndex
    BY <1>11, <1>13, <1>15, <1>16, <1>17
<1>20. Unread - (Prefix + FieldLength) = received - next
    BY <1>11, <1>13, <1>15, <1>16, <1>17
<1>21. f + 1 = Len(got) + 2 /\ f <= Len(packet.fields)
    BY <1>2, <1>5, <1>6 DEF f
<1> QED
    BY <1>7, <1>11, <1>17, <1>18, <1>19, <1>20, <1>21 DEF f, field, packet, next
-----------------------------------------------------------------------------
\* What the four properties say of a clean state.
Clean ==
    /\ clean
    /\ InStream /\ TakenInOrder /\ ReadsWhatWasWritten /\ NothingLeftBehind

\* recv appends whole packets to what is there.
LEMMA RecvClean ==
    ASSUME Inductive, TypeOK', NEW n \in 1..RecvMax, Recv(n), clean'
    PROVE  Clean'
<1> DEFINE count == Len(talk.packets)
<1>1. clean /\ step = "recv" /\ EndsWithPacket(n) /\ received' = received + n
    BY DEF Recv
<1>2. LaidOut(talk) /\ TypeOK
    BY TalkLaidOut DEF Inductive
<1>3. /\ count \in Nat
      /\ \A k \in 1..(count + 1) : talk.start[k] \in Nat
      /\ \A j, k \in 1..(count + 1) : j < k => talk.start[j] + 2 <= talk.start[k]
    BY <1>2, StartsInOrder
<1>4. n \in Nat /\ n >= 1
    BY LengthAssumption
<1>5. /\ readIndex \in Nat /\ writeIndex \in Int /\ capacity \in Nat /\ received \in Nat
      /\ readIndex <= writeIndex /\ writeIndex <= capacity
    BY <1>1, <1>2, <1>3, LengthAssumption DEF TypeOK, Inductive, ReadsWhatWasWritten, LaidOut
<1>6. ~(writeIndex < 0 \/ writeIndex + n > Grown(n))
    BY <1>4, <1>5 DEF Grown
<1>7. /\ buffer' = Loaded(n) /\ writeIndex' = writeIndex + n /\ step' = "header"
      /\ UNCHANGED <<talk, readIndex, id, got, handled>>
    BY <1>6 DEF Recv
<1>8. /\ Len(handled) <= count /\ Number' = Number /\ Number \in 1..(count + 1)
      /\ Unread = received - talk.start[Number]
    <2>1. Len(handled) \in Nat /\ Len(handled) <= count
        BY <1>1, <1>2 DEF Inductive, InStream, TypeOK
    <2>2. Number' = Number /\ Number = Len(handled) + 1
        BY <1>7 DEF Number
    <2>3. Unread = received - talk.start[Number]
        BY <1>1 DEF Inductive, InStream
    <2> QED
        BY <1>3, <2>1, <2>2, <2>3
<1>9. PICK m \in 1..count : /\ received' = talk.start[m + 1]
                            /\ talk.end \in AuthEnds => received = talk.start[m]
    BY <1>1 DEF EndsWithPacket
<1>10. Unread' = Unread + n /\ Unread' = received' - talk.start[Number] /\ Unread' > 0
    <2>1. Unread = writeIndex - readIndex /\ Unread' = (writeIndex + n) - readIndex
        BY <1>7 DEF Unread
    <2>2. Unread \in Nat /\ Unread' = Unread + n
        BY <1>4, <1>5, <2>1
    <2>3. talk.start[Number] \in Nat
        BY <1>3, <1>8
    <2> QED
        BY <1>1, <1>4, <1>5, <1>8, <2>2, <2>3
<1>11. ASSUME NEW i \in readIndex..(writeIndex + n - 1)
       PROVE  buffer'[i] = talk.word[received' - writeIndex' + i]
    <2>1. /\ i \in 0..(Grown(n) - 1) /\ Grown(n) \in Nat
          /\ received' - writeIndex' + i = received - writeIndex + i
        BY <1>1, <1>4, <1>5, <1>6, <1>7 DEF Grown
    <2>2. CASE i \in writeIndex..(writeIndex + n - 1)
        <3>1. received + (i - writeIndex) = received - writeIndex + i
            BY <1>5, <2>2
        <3> QED
            BY <1>7, <2>1, <2>2, <3>1 DEF Loaded
    <2>3. CASE i \notin writeIndex..(writeIndex + n - 1)
        <3>1. i \in readIndex..(writeIndex - 1) /\ i < capacity
            BY <2>3, <1>4, <1>5
        <3>2. buffer[i] = talk.word[received - writeIndex + i]
            BY <3>1, <1>1 DEF Inductive, InStream
        <3> QED
            BY <1>7, <2>1, <2>3, <3>1, <3>2 DEF Loaded
    <2> QED
        BY <2>2, <2>3
<1>12. talk.end \in AuthEnds => received' = talk.start[Number + 1]
    <2>1. SUFFICES ASSUME talk.end \in AuthEnds
                   PROVE  received' = talk.start[Number + 1]
        OBVIOUS
    <2>2. Unread = 0
        BY <1>1, <2>1 DEF Inductive, InStream
    <2>3. talk.start[m] = talk.start[Number]
        BY <1>3, <1>5, <1>8, <1>9, <2>1, <2>2
    <2>4. m = Number
        BY <1>3, <1>8, <2>3
    <2> QED
        BY <1>9, <2>4
<1>13. InStream'
    <2>1. m + 1 \in 1..(count + 1)
        BY <1>3
    <2>2. \E k \in 1..(Len(talk'.packets) + 1) : received' = talk'.start[k]
        BY <1>7, <1>9, <2>1
    <2>3. \A i \in readIndex'..(writeIndex' - 1) : buffer'[i] = talk'.word[received' - writeIndex' + i]
        <3>1. readIndex' = readIndex /\ writeIndex' - 1 = writeIndex + n - 1 /\ talk' = talk
            BY <1>4, <1>5, <1>7
        <3> QED
            BY <3>1, <1>11
    <2>4. Unread' = received' - talk'.start[Number'] /\ Unread' > 0
        BY <1>7, <1>8, <1>10
    <2>5. talk'.end \in AuthEnds => received' = talk'.start[Number' + 1]
        BY <1>7, <1>8, <1>12
    <2>6. Len(handled') <= Len(talk'.packets) /\ step' = "header"
        BY <1>7, <1>8
    <2> QED
        BY <2>2, <2>3, <2>4, <2>5, <2>6 DEF InStream
<1>14. TakenInOrder'
    BY <1>1, <1>7 DEF Inductive, TakenInOrder
<1>15. ReadsWhatWasWritten'
    BY <1>4, <1>5, <1>7 DEF ReadsWhatWasWritten
<1>16. NothingLeftBehind'
    BY <1>7 DEF NothingLeftBehind
<1> QED
    BY <1>13, <1>14, <1>15, <1>16 DEF Clean

\* The header is that of the next packet, all of which is there.
LEMMA HeaderClean ==
    ASSUME Inductive, TypeOK', ReadHeader, clean'
    PROVE  Clean'
<1> DEFINE count == Len(talk.packets)
           size  == talk.start[Number + 1] - talk.start[Number]
<1>1. clean /\ step = "header" /\ TypeOK
    BY DEF ReadHeader, Inductive
<1>2. LaidOut(talk)
    BY <1>1, TalkLaidOut
<1>3. /\ count \in Nat
      /\ \A k \in 1..(count + 1) : talk.start[k] \in Nat
    BY <1>2, StartsInOrder
<1>4. /\ Number \in 1..count
      /\ talk.start[Number + 1] <= received
      /\ size >= 2 /\ Unread >= size
      /\ buffer[readIndex] = size
      /\ buffer[readIndex + 1] = talk.packets[Number].id
    BY <1>1, PacketAhead
<1>5. Number + 1 \in 1..(count + 1) /\ Number \in 1..(count + 1)
    BY <1>3, <1>4
<1>6. size \in Int /\ HeaderWords \in {1, 2}
    BY <1>3, <1>5 DEF HeaderWords
<1>7. /\ readIndex \in Nat /\ writeIndex \in Int /\ received \in Nat
      /\ Unread = writeIndex - readIndex
      /\ Unread = received - talk.start[Number]
    <2>1. \E m \in 1..(count + 1) : received = talk.start[m]
        BY <1>1 DEF Inductive, InStream
    <2> QED
        BY <1>1, <1>3, <2>1 DEF Inductive, InStream, TypeOK, Unread
<1>8. HasAllData
    BY <1>4, <1>6, <1>7 DEF HasAllData
<1>9. /\ id' = talk.packets[Number].id
      /\ readIndex' = readIndex + 2
      /\ step' = "fields" /\ got' = <<>>
      /\ UNCHANGED <<talk, received, buffer, writeIndex, handled, clean>>
    BY <1>4, <1>8 DEF ReadHeader
<1>10. PacketLaidOut(talk, Number)
    BY <1>2, <1>4 DEF LaidOut
<1>11. talk.at[Number][1] = talk.start[Number] + 2 /\ talk.packets[Number].fields \in Seq(Seq(Nat))
    <2>1. talk.packets[Number] \in Packets
        BY <1>2, <1>4 DEF LaidOut
    <2> QED
        BY <1>10, <2>1 DEF PacketLaidOut, Packets
<1>12. Number' = Number /\ Len(got') = 0 /\ Unread' = received - talk.at[Number][Len(got') + 1]
    <2>1. Unread' = writeIndex - (readIndex + 2)
        BY <1>9 DEF Unread
    <2>2. talk.start[Number] \in Nat
        BY <1>3, <1>5
    <2>3. Unread' = received - (talk.start[Number] + 2)
        BY <1>7, <2>1, <2>2
    <2>4. Len(got') = 0 /\ Len(got') + 1 = 1
        BY <1>9
    <2> QED
        BY <1>9, <1>11, <2>3, <2>4 DEF Number
<1>13. \A i \in readIndex'..(writeIndex' - 1) : buffer'[i] = talk.word[received' - writeIndex' + i]
    <2>1. \A i \in readIndex..(writeIndex - 1) : buffer[i] = talk.word[received - writeIndex + i]
        BY <1>1 DEF Inductive, InStream
    <2> QED
        BY <1>7, <1>9, <2>1
<1>14. InStream'
    BY <1>1, <1>4, <1>9, <1>11, <1>12, <1>13 DEF Inductive, InStream
<1>15. TakenInOrder'
    BY <1>1, <1>9 DEF Inductive, TakenInOrder
<1>16. ReadsWhatWasWritten'
    BY <1>4, <1>6, <1>7, <1>9 DEF ReadsWhatWasWritten
<1>17. NothingLeftBehind'
    BY <1>9 DEF NothingLeftBehind
<1> QED
    BY <1>9, <1>14, <1>15, <1>16, <1>17 DEF Clean

\* A field read is the next field sent.
LEMMA FieldClean ==
    ASSUME Inductive, TypeOK', ReadField, clean'
    PROVE  Clean'
<1> DEFINE packet == talk.packets[Number]
           f      == Len(got) + 1
           field  == packet.fields[f]
<1>1. clean /\ step = "fields" /\ Reading /\ TypeOK
    BY DEF ReadField, Reading, Inductive
<1>2. /\ field \in Seq(Nat)
      /\ Prefix \in {0, 1}
      /\ FieldLength = Len(field)
      /\ readIndex + Prefix + FieldLength <= writeIndex
      /\ \A i \in 1..Len(field) : buffer[readIndex + Prefix + (i - 1)] = field[i]
      /\ f <= Len(packet.fields)
      /\ Unread - (Prefix + FieldLength) = received - talk.at[Number][Len(got) + 2]
    BY <1>1, FieldAhead
<1>3. /\ got' = Append(got, [i \in 1..FieldLength |-> buffer[readIndex + Prefix + (i - 1)]])
      /\ readIndex' = readIndex + Prefix + FieldLength
      /\ UNCHANGED <<talk, received, buffer, writeIndex, step, id, handled, clean>>
    BY DEF ReadField
<1> HIDE DEF packet, f, field
<1>4. [i \in 1..FieldLength |-> buffer[readIndex + Prefix + (i - 1)]] = field
    <2>1. field = [i \in 1..Len(field) |-> field[i]]
        BY <1>2
    <2>2. [i \in 1..Len(field) |-> buffer[readIndex + Prefix + (i - 1)]] = [i \in 1..Len(field) |-> field[i]]
        BY <1>2
    <2> QED
        BY <1>2, <2>1, <2>2
<1>5. got' = Append(got, field) /\ got \in Seq(Seq(Nat)) /\ Len(got) \in Nat /\ f = Len(got) + 1
    <2>1. got' = Append(got, field)
        BY <1>3, <1>4
    <2>2. got \in Seq(Seq(Nat))
        BY <1>1 DEF TypeOK
    <2> QED
        BY <2>1, <2>2 DEF f
<1>6. Len(got') = f /\ Len(got') + 1 = Len(got) + 2
    BY <1>2, <1>5
<1>7. Number' = Number
    BY <1>3 DEF Number
<1>8. /\ readIndex \in Nat /\ writeIndex \in Int /\ FieldLength \in Nat
      /\ Unread = writeIndex - readIndex /\ Unread' = writeIndex - readIndex'
    <2>1. FieldLength \in Nat
        BY <1>2
    <2> QED
        BY <1>1, <1>3, <2>1 DEF TypeOK, Unread
<1>9. Unread' = received - talk.at[Number][Len(got') + 1]
    <2>1. Unread' = Unread - (Prefix + FieldLength)
        BY <1>2, <1>3, <1>8
    <2> QED
        BY <2>1, <1>2, <1>6
<1>10. InStream
    BY DEF Inductive
<1>11. \A g \in 1..Len(got') : got'[g] = packet.fields[g]
    <2>1. \A g \in 1..Len(got) : got[g] = packet.fields[g]
        BY <1>1, <1>10 DEF InStream, packet
    <2>2. ASSUME NEW g \in 1..Len(got')
          PROVE  got'[g] = packet.fields[g]
        <3>1. CASE g = f
            <4>1. got'[g] = field
                BY <3>1, <1>2, <1>5
            <4> QED
                BY <3>1, <4>1 DEF field
        <3>2. CASE g # f
            <4>1. g \in 1..Len(got)
                BY <2>2, <3>2, <1>5, <1>6
            <4>2. got'[g] = got[g]
                BY <4>1, <1>2, <1>5
            <4> QED
                BY <4>1, <4>2, <2>1
        <3> QED
            BY <3>1, <3>2
    <2> QED
        BY <2>2
<1>12. \A i \in readIndex'..(writeIndex' - 1) : buffer'[i] = talk.word[received' - writeIndex' + i]
    <2>1. \A i \in readIndex..(writeIndex - 1) : buffer[i] = talk.word[received - writeIndex + i]
        BY <1>1, <1>10 DEF InStream
    <2> QED
        BY <1>2, <1>3, <1>8, <2>1
<1>13. InStream'
    <2>1. Len(got') <= Len(packet.fields)
        BY <1>2, <1>6
    <2>2. packet = talk.packets[Number]
        BY DEF packet
    <2> QED
        BY <1>1, <1>3, <1>7, <1>9, <1>10, <1>11, <1>12, <2>1, <2>2 DEF InStream
<1>14. TakenInOrder'
    BY <1>1, <1>3 DEF Inductive, TakenInOrder
<1>15. ReadsWhatWasWritten'
    BY <1>1, <1>2, <1>3 DEF ReadsWhatWasWritten
<1>16. NothingLeftBehind'
    BY <1>1, <1>3 DEF NothingLeftBehind
<1> QED
    BY <1>3, <1>13, <1>14, <1>15, <1>16 DEF Clean

\* When all fields are read the packet is the one that was sent, and the rest
\* of the buffer begins with the next.
LEMMA PacketTaken ==
    ASSUME Inductive, clean, AllRead, Took
    PROVE  /\ Number \in 1..Len(talk.packets)
           /\ handled' = Append(handled, talk.packets[Number])
           /\ handled \in Seq(Packets) /\ talk.packets[Number] \in Packets
           /\ Unread = received - talk.start[Number + 1]
           /\ talk.start[Number + 1] <= received
           /\ talk.start[Number + 1] \in Nat
           /\ talk.end \in AuthEnds => Unread = 0
<1> DEFINE packet == talk.packets[Number]
<1>1. LaidOut(talk) /\ TypeOK /\ InStream /\ step = "fields"
    BY TalkLaidOut DEF Inductive, AllRead
<1>2. /\ Number <= Len(talk.packets) /\ id = packet.id
      /\ talk.start[Number + 1] <= received
      /\ Len(got) <= Len(packet.fields)
      /\ \A f \in 1..Len(got) : got[f] = packet.fields[f]
      /\ Unread = received - talk.at[Number][Len(got) + 1]
      /\ talk.end \in AuthEnds => received = talk.start[Number + 1]
    BY <1>1 DEF InStream
<1>3. Number \in 1..Len(talk.packets) /\ Number + 1 \in 1..(Len(talk.packets) + 1)
    <2>1. Len(handled) \in Nat /\ Len(talk.packets) \in Nat
        BY <1>1 DEF TypeOK, LaidOut
    <2> QED
        BY <1>2, <2>1 DEF Number
<1>4. PacketLaidOut(talk, Number) /\ packet \in Packets
    BY <1>1, <1>3 DEF LaidOut
<1>5. got \in Seq(Seq(Nat)) /\ packet.fields \in Seq(Seq(Nat))
    BY <1>1, <1>4 DEF TypeOK, Packets
<1>6. Len(got) >= Len(Layout(talk.end, packet.id)) /\ Len(Layout(talk.end, packet.id)) \in Nat
    BY <1>2, Kinds DEF AllRead
<1>7. Len(got) = Len(packet.fields) /\ Len(got) = Len(Layout(talk.end, packet.id))
    BY <1>2, <1>4, <1>5, <1>6 DEF PacketLaidOut
<1>8. got = packet.fields
    <2>1. ASSUME NEW s \in Seq(Seq(Nat)), NEW t \in Seq(Seq(Nat)), Len(s) = Len(t),
                 \A f \in 1..Len(s) : s[f] = t[f]
          PROVE  s = t
        <3>1. s = [f \in 1..Len(s) |-> s[f]] /\ t = [f \in 1..Len(t) |-> t[f]]
            OBVIOUS
        <3>2. [f \in 1..Len(s) |-> s[f]] = [f \in 1..Len(t) |-> t[f]]
            BY <2>1
        <3> QED
            BY <3>1, <3>2
    <2> QED
        BY <1>2, <1>5, <1>7, <2>1
<1>9. [id |-> id, fields |-> got] = packet
    BY <1>2, <1>4, <1>8 DEF Packets
<1>10. handled' = Append(handled, packet)
    BY <1>9 DEF Took
<1>11. talk.at[Number][Len(got) + 1] = talk.start[Number + 1]
    BY <1>4, <1>7 DEF PacketLaidOut
<1>12. talk.start[Number + 1] \in Nat
    BY <1>1, <1>3, StartsInOrder
<1>13. Unread = received - talk.start[Number + 1]
    BY <1>2, <1>11
<1>14. talk.end \in AuthEnds => Unread = 0
    BY <1>2, <1>12, <1>13
<1> QED
    BY <1>1, <1>2, <1>3, <1>4, <1>10, <1>12, <1>13, <1>14 DEF TypeOK

\* The history grows by the packet taken.
LEMMA OneMoreTaken ==
    ASSUME Inductive, clean, clean', AllRead, Took, UNCHANGED talk
    PROVE  /\ Len(handled') = Number /\ Number' = Number + 1
           /\ Len(handled') <= Len(talk'.packets)
           /\ TakenInOrder'
<1> DEFINE packet == talk.packets[Number]
<1>1. /\ Number \in 1..Len(talk.packets)
      /\ handled' = Append(handled, packet)
      /\ handled \in Seq(Packets) /\ packet \in Packets
    BY PacketTaken
<1>2. TakenInOrder
    BY DEF Inductive
<1> HIDE DEF packet
<1>3. Len(handled) \in Nat /\ Number = Len(handled) + 1
    BY <1>1 DEF Number
<1>4. Len(handled') = Len(handled) + 1
    BY <1>1
<1>5. Len(handled') = Number /\ Number' = Number + 1
    BY <1>3, <1>4 DEF Number
<1>6. Len(handled') <= Len(talk'.packets)
    BY <1>1, <1>5
<1>7. ASSUME NEW k \in 1..Len(handled')
      PROVE  k <= Len(talk'.packets) /\ handled'[k] = talk'.packets[k]
    <2>1. CASE k = Number
        <3>1. handled'[k] = packet
            BY <2>1, <1>1, <1>3
        <3> QED
            BY <2>1, <3>1, <1>1 DEF packet
    <2>2. CASE k # Number
        <3>1. k \in 1..Len(handled)
            BY <1>3, <1>5, <2>2
        <3>2. handled'[k] = handled[k]
            BY <3>1, <1>1
        <3> QED
            BY <3>1, <3>2, <1>2 DEF TakenInOrder
    <2> QED
        BY <2>1, <2>2
<1>8. TakenInOrder'
    BY <1>7 DEF TakenInOrder
<1> QED
    BY <1>5, <1>6, <1>8

\* The flush brings the next packet to the front, and the handler goes on
\* until nothing is left.
LEMMA FinishClean ==
    ASSUME Inductive, TypeOK', FinishPacket, clean'
    PROVE  Clean'
<1> DEFINE count == Len(talk.packets)
<1>1. /\ clean /\ step = "fields" /\ TypeOK /\ InStream /\ AllRead /\ Took
      /\ ReadsWhatWasWritten
      /\ UNCHANGED <<talk, received, id, got, clean>>
    BY DEF FinishPacket, AllRead, Inductive
<1>2. /\ count \in Nat
      /\ \A k \in 1..(count + 1) : talk.start[k] \in Nat
      /\ \A j, k \in 1..(count + 1) : j < k => talk.start[j] + 2 <= talk.start[k]
    BY TalkLaidOut, StartsInOrder DEF Inductive
<1>3. /\ Number \in 1..count
      /\ Unread = received - talk.start[Number + 1]
      /\ talk.start[Number + 1] <= received
      /\ talk.end \in AuthEnds => Unread = 0
    BY <1>1, PacketTaken
<1>4. /\ Len(handled') = Number /\ Number' = Number + 1
      /\ Len(handled') <= Len(talk'.packets) /\ TakenInOrder'
    BY <1>1, OneMoreTaken
<1>5. PICK m \in 1..(count + 1) : received = talk.start[m]
    BY <1>1 DEF InStream
<1>6. /\ readIndex \in Nat /\ writeIndex \in Nat /\ capacity \in Nat
      /\ readIndex <= writeIndex /\ writeIndex <= capacity
      /\ Unread = writeIndex - readIndex /\ Unread \in Nat /\ received \in Nat
    BY <1>1, <1>2, <1>5 DEF TypeOK, ReadsWhatWasWritten, Unread
<1>7. writeIndex' = Unread /\ readIndex' = 0 /\ Unread' = Unread
    <2>1. writeIndex' = Unread /\ readIndex' = 0
        BY DEF FinishPacket, FlushBuffer
    <2>2. Unread' = writeIndex' - readIndex'
        BY DEF Unread
    <2> QED
        BY <1>6, <2>1, <2>2
<1>8. ASSUME NEW i \in readIndex'..(writeIndex' - 1)
      PROVE  buffer'[i] = talk'.word[received' - writeIndex' + i]
    <2>1. i \in 0..(writeIndex - readIndex - 1) /\ Unread # 0
        BY <1>6, <1>7
    <2>2. /\ i \in 0..(capacity - 1) /\ i < Unread
          /\ i + readIndex \in readIndex..(writeIndex - 1)
        BY <1>6, <2>1
    <2>3. buffer'[i] = buffer[i + readIndex]
        BY <2>1, <2>2 DEF FinishPacket, FlushBuffer, Shifted
    <2>4. buffer[i + readIndex] = talk.word[received - writeIndex + (i + readIndex)]
        BY <1>1, <2>2 DEF InStream
    <2>5. received - writeIndex + (i + readIndex) = received' - writeIndex' + i
        BY <1>1, <1>6, <1>7, <2>2
    <2> QED
        BY <1>1, <2>3, <2>4, <2>5
<1>9. step' \in {"recv", "header"} /\ (step' = "header" <=> GoesOn)
    BY DEF FinishPacket
<1>10. step' = "header" => Unread' > 0 /\ talk'.end \notin AuthEnds
    BY <1>1, <1>3, <1>6, <1>7, <1>9 DEF GoesOn
<1>11. talk'.end \in AuthEnds => Unread' = 0
    BY <1>1, <1>3, <1>7
<1>12. Unread' = received' - talk'.start[Number']
    BY <1>1, <1>3, <1>4, <1>7
<1>13. InStream'
    <2>1. \E k \in 1..(Len(talk'.packets) + 1) : received' = talk'.start[k]
        BY <1>1, <1>5
    <2> QED
        BY <1>4, <1>8, <1>9, <1>10, <1>11, <1>12, <2>1 DEF InStream
<1>14. ReadsWhatWasWritten'
    BY <1>6, <1>7, <1>9 DEF ReadsWhatWasWritten
<1>15. ASSUME step' = "recv"
       PROVE  received' = talk'.start[Len(handled') + 1]
    <2>1. Unread < 2
        BY <1>6, <1>9, <1>15 DEF GoesOn
    <2>2. Number + 1 \in 1..(count + 1) /\ talk.start[Number + 1] \in Nat
        BY <1>2, <1>3
    <2>3. talk.start[m] < talk.start[Number + 1] + 2
        BY <1>3, <1>5, <1>6, <2>1, <2>2
    <2>4. ~(m < Number + 1) /\ ~(m > Number + 1)
        <3>1. talk.start[m] \in Nat
            BY <1>2
        <3>2. talk.start[Number + 1] <= talk.start[m]
            BY <1>3, <1>5
        <3>3. m < Number + 1 => talk.start[m] + 2 <= talk.start[Number + 1]
            BY <1>2, <2>2
        <3>4. m > Number + 1 => talk.start[Number + 1] + 2 <= talk.start[m]
            BY <1>2, <2>2
        <3> QED
            BY <3>1, <3>2, <3>3, <3>4, <2>2, <2>3
    <2>5. m = Number + 1
        BY <1>3, <1>2, <2>4
    <2> QED
        BY <1>1, <1>4, <1>5, <2>5
<1>16. NothingLeftBehind'
    BY <1>15 DEF NothingLeftBehind
<1> QED
    BY <1>1, <1>4, <1>13, <1>14, <1>16 DEF Clean

\* The early return leaves the buffer as it is, at the start of the next
\* packet.
LEMMA LeaveClean ==
    ASSUME Inductive, TypeOK', LeaveUnknown, clean'
    PROVE  Clean'
<1> DEFINE count == Len(talk.packets)
<1>1. /\ clean /\ step = "fields" /\ TypeOK /\ InStream /\ AllRead /\ Took
      /\ ReadsWhatWasWritten /\ talk.end = "chatServer" /\ id = 4 /\ step' = "recv"
      /\ UNCHANGED <<talk, received, buffer, writeIndex, readIndex, clean>>
    BY DEF LeaveUnknown, AllRead, Inductive, bufferVars
<1>2. Unread = received - talk.start[Number + 1]
    BY <1>1, PacketTaken
<1>3. /\ Len(handled') = Number /\ Number' = Number + 1
      /\ Len(handled') <= Len(talk'.packets) /\ TakenInOrder'
    BY <1>1, OneMoreTaken
<1>4. Unread' = received' - talk'.start[Number']
    <2>1. Unread' = Unread
        BY <1>1 DEF Unread
    <2> QED
        BY <1>1, <1>2, <1>3, <2>1
<1>5. InStream'
    <2>1. talk'.end \notin AuthEnds
        BY <1>1 DEF AuthEnds
    <2> QED
        BY <1>1, <1>3, <1>4, <2>1 DEF InStream
<1>6. ReadsWhatWasWritten'
    BY <1>1 DEF ReadsWhatWasWritten
<1>7. handled'[Len(handled')].id = 4
    <2>1. handled \in Seq(Packets) /\ [id |-> id, fields |-> got] \in Packets
        BY <1>1 DEF TypeOK, Packets
    <2> QED
        BY <1>1, <2>1 DEF Took
<1>8. NothingLeftBehind'
    BY <1>1, <1>7 DEF NothingLeftBehind
<1> QED
    BY <1>1, <1>3, <1>5, <1>6, <1>8 DEF Clean

\* Nothing is read beyond the vector: the packet whose header is read is in
\* it, and so is each field.
LEMMA InsideOnly ==
    ASSUME Inductive, clean
    PROVE  ~ReadsOutside
<1> SUFFICES ASSUME ReadsOutside PROVE FALSE
    OBVIOUS
<1>1. TypeOK /\ LaidOut(talk)
    BY TalkLaidOut DEF Inductive
<1>2. /\ readIndex \in Nat /\ writeIndex \in Int /\ capacity \in Nat
      /\ readIndex <= writeIndex /\ writeIndex <= capacity
    BY <1>1 DEF TypeOK, Inductive, ReadsWhatWasWritten
<1>3. CASE step = "header"
    <2>1. Unread >= 2
        <3>1. /\ Number \in 1..Len(talk.packets)
              /\ talk.start[Number + 1] - talk.start[Number] >= 2
              /\ Unread >= talk.start[Number + 1] - talk.start[Number]
            BY <1>3, PacketAhead
        <3>2. /\ Number \in 1..(Len(talk.packets) + 1)
              /\ Number + 1 \in 1..(Len(talk.packets) + 1)
            BY <3>1, <1>1, StartsInOrder
        <3>3. talk.start[Number + 1] \in Nat /\ talk.start[Number] \in Nat
            BY <1>1, <3>2, StartsInOrder
        <3>4. Unread \in Int
            BY <1>2 DEF Unread
        <3> QED
            BY <3>1, <3>3, <3>4
    <2>2. InMemory(2) /\ InMemory(HeaderWords)
        BY <1>2, <2>1 DEF Unread, InMemory, HeaderWords
    <2> QED
        BY <1>3, <2>2 DEF ReadsOutside, Reading
<1>4. CASE Reading /\ ~FieldInMemory
    <2>1. /\ Prefix \in {0, 1} /\ FieldLength \in Nat
          /\ readIndex + Prefix + FieldLength <= writeIndex
        <3>1. /\ talk.packets[Number].fields[Len(got) + 1] \in Seq(Nat)
              /\ FieldLength = Len(talk.packets[Number].fields[Len(got) + 1])
              /\ Prefix \in {0, 1}
              /\ readIndex + Prefix + FieldLength <= writeIndex
            BY <1>4, FieldAhead
        <3> QED
            BY <3>1
    <2>2. FieldInMemory
        BY <1>2, <2>1 DEF FieldInMemory, InMemory
    <2> QED
        BY <1>4, <2>2
<1> QED
    BY <1>3, <1>4 DEF ReadsOutside, Reading

\* Every step keeps the types and what the properties say.
LEMMA InductiveStep ==
    ASSUME Inductive, [Next]_vars
    PROVE  Inductive'
<1>1. TypeOK /\ TypeOK'
    BY TypeStep DEF Inductive
<1>2. CASE ~clean'
    BY <1>1, <1>2 DEF Inductive, InStream, TakenInOrder, ReadsWhatWasWritten, NothingLeftBehind
<1>3. CASE clean'
    <2>1. clean
        BY <1>3 DEF Next, HandleMessage, Send, Recv, ReadHeader, ReadField, ReadsOutside,
                    FinishPacket, LeaveUnknown, vars
    <2>2. Clean' => Inductive'
        BY <1>1 DEF Clean, Inductive
    <2>3. CASE Send
        <3>1. UNCHANGED <<talk, received, bufferVars, step, id, got, handled, clean>>
            BY <2>3 DEF Send
        <3> QED
            BY <1>1, <3>1 DEF Inductive, InStream, TakenInOrder, ReadsWhatWasWritten,
                              NothingLeftBehind, Unread, Number, bufferVars
    <2>4. CASE UNCHANGED vars
        BY <1>1, <2>4 DEF Inductive, InStream, TakenInOrder, ReadsWhatWasWritten,
                          NothingLeftBehind, Unread, Number, vars, bufferVars
    <2>5. ASSUME NEW n \in 1..RecvMax, Recv(n)
          PROVE  Inductive'
        BY <1>1, <1>3, <2>2, <2>5, RecvClean
    <2>6. CASE ReadHeader
        BY <1>1, <1>3, <2>2, <2>6, HeaderClean
    <2>7. CASE ReadField
        BY <1>1, <1>3, <2>2, <2>7, FieldClean
    <2>8. CASE FinishPacket
        BY <1>1, <1>3, <2>2, <2>8, FinishClean
    <2>9. CASE LeaveUnknown
        BY <1>1, <1>3, <2>2, <2>9, LeaveClean
    <2>10. CASE ReadsOutside
        BY <2>1, <2>10, InsideOnly
    <2> QED
        BY <2>3, <2>4, <2>5, <2>6, <2>7, <2>8, <2>9, <2>10 DEF Next, HandleMessage
<1> QED
    BY <1>2, <1>3

\* So they hold in every state.
LEMMA InductiveCorrect == Spec => []Inductive
<1>1. Init => Inductive
    <2> SUFFICES ASSUME Init PROVE Inductive
        OBVIOUS
    <2>1. LaidOut(talk)
        BY TalksAssumption DEF Init
    <2>2. Len(talk.packets) \in Nat /\ talk.start[1] = 0
        BY <2>1, StartsInOrder DEF LaidOut
    <2>3. TypeOK
        BY <2>2, LengthAssumption DEF Init, TypeOK, Packets
    <2>4. Number = 1 /\ Len(handled) = 0
        BY DEF Init, Number
    <2>5. InStream
        <3>1. 1 \in 1..(Len(talk.packets) + 1) /\ received = talk.start[1]
            BY <2>2 DEF Init
        <3> QED
            BY <2>2, <2>4, <3>1 DEF Init, InStream, Unread
    <2>6. TakenInOrder /\ ReadsWhatWasWritten /\ NothingLeftBehind
        BY <2>2, <2>4 DEF Init, TakenInOrder, ReadsWhatWasWritten, NothingLeftBehind
    <2> QED
        BY <2>3, <2>5, <2>6 DEF Inductive
<1>2. Inductive /\ [Next]_vars => Inductive'
    BY InductiveStep
<1> QED
    BY <1>1, <1>2, PTL DEF Spec

\* The unread words are the stream from the next packet, or its next field, on.
THEOREM StreamCorrect == Spec => []InStream
<1>1. Inductive => InStream
    BY DEF Inductive
<1> QED
    BY <1>1, InductiveCorrect, PTL

\* Packets whole in what recv returned are taken whole and in order, whatever
\* the lengths and however many come at once.
THEOREM InOrderCorrect == Spec => []TakenInOrder
<1>1. Inductive => TakenInOrder
    BY DEF Inductive
<1> QED
    BY <1>1, InductiveCorrect, PTL

\* The handlers read only what was written, and no index ends the program.
THEOREM ReadsCorrect == Spec => []ReadsWhatWasWritten
<1>1. Inductive => ReadsWhatWasWritten
    BY DEF Inductive
<1> QED
    BY <1>1, InductiveCorrect, PTL

\* A handler that returns leaves nothing unread, but for the unknown room.
THEOREM NothingLeftCorrect == Spec => []NothingLeftBehind
<1>1. Inductive => NothingLeftBehind
    BY DEF Inductive
<1> QED
    BY <1>1, InductiveCorrect, PTL
-----------------------------------------------------------------------------
(***************************************************************************)
(* What a handler reads lets it come to an end, cut packets included.      *)
(***************************************************************************)

\* The words left, counting from two before the end: a header is read with
\* one of them left at least, even when misread lengths brought the read index
\* past the write index.
CountedFrom(unread) == IF unread + 2 > 0 THEN unread + 2 ELSE 0

WordsLeft == CountedFrom(Unread)

FieldsLeft == IF Reading THEN Len(Layout(talk.end, id)) - Len(got) ELSE 0

StepsLeft ==
    CASE step = "header" -> 1
      [] step = "fields" -> 2 + FieldsLeft
      [] OTHER           -> 0

WorkLeft == 6 * WordsLeft + StepsLeft

\* No packet has more than three fields.
LEMMA LayoutShort ==
    ASSUME NEW end, NEW i
    PROVE  Len(Layout(end, i)) \in Nat /\ Len(Layout(end, i)) <= 3
<1> DEFINE layouts == {<<>>, <<"string">>, <<"string", "string">>,
                       <<"string", "string", "string">>,
                       <<"number">>, <<"number", "string">>, <<"rest">>}
<1>1. Layout(end, i) \in layouts
    BY DEF Layout, AuthEnds
<1>2. \A layout \in layouts : Len(layout) \in Nat /\ Len(layout) <= 3
    OBVIOUS
<1> QED
    BY <1>1, <1>2

LEMMA CountedFromLess ==
    ASSUME NEW m \in Int, NEW n \in Int, m <= n
    PROVE  /\ CountedFrom(m) \in Nat /\ CountedFrom(m) <= CountedFrom(n)
           /\ m < n /\ n >= -1 => CountedFrom(m) < CountedFrom(n)
    BY DEF CountedFrom

LEMMA LessWork ==
    ASSUME NEW a \in Nat, NEW b \in Nat, NEW m \in Nat, NEW n \in Nat,
           n <= 5, b < a \/ (b <= a /\ n < m)
    PROVE  6 * b + n < 6 * a + m
    OBVIOUS

WorkTypes ==
    /\ Unread \in Int /\ WordsLeft \in Nat /\ Len(got) \in Nat
    /\ FieldsLeft \in Nat /\ FieldsLeft <= 3 /\ StepsLeft \in Nat /\ StepsLeft <= 5 /\ WorkLeft \in Nat

LEMMA WorkTyped ==
    ASSUME TypeOK
    PROVE  WorkTypes
<1>1. readIndex \in Nat /\ writeIndex \in Int /\ got \in Seq(Seq(Nat))
    BY DEF TypeOK
<1>2. Unread \in Int /\ Len(got) \in Nat
    BY <1>1 DEF Unread
<1>3. WordsLeft \in Nat
    BY <1>2, CountedFromLess DEF WordsLeft
<1>4. Len(Layout(talk.end, id)) \in Nat /\ Len(Layout(talk.end, id)) <= 3
    BY LayoutShort
<1>5. FieldsLeft \in Nat /\ FieldsLeft <= 3
    <2>1. CASE Reading
        BY <1>2, <1>4, <2>1 DEF FieldsLeft, Reading
    <2>2. CASE ~Reading
        BY <2>2 DEF FieldsLeft
    <2> QED
        BY <2>1, <2>2
<1>6. StepsLeft \in Nat /\ StepsLeft <= 5
    <2>1. FieldsLeft \in Nat /\ FieldsLeft <= 3
        BY <1>5
    <2>2. CASE step = "header"
        BY <2>2 DEF StepsLeft
    <2>3. CASE step = "fields"
        BY <2>1, <2>3 DEF StepsLeft
    <2>4. CASE step \notin {"header", "fields"}
        BY <2>4 DEF StepsLeft
    <2> QED
        BY <2>2, <2>3, <2>4
<1> QED
    BY <1>2, <1>3, <1>5, <1>6 DEF WorkTypes, WorkLeft

\* Every step of a handler leaves it less to do: a header takes two words, a
\* field is one less of at most three, the flush keeps the count of what is
\* unread, and a handler that returns has nothing to do.
LEMMA AdvanceStep ==
    ASSUME TypeOK, TypeOK', WorkTypes, WorkTypes', HandleMessage
    PROVE  WorkLeft' < WorkLeft
<1>0. /\ WordsLeft \in Nat /\ WordsLeft' \in Nat /\ WorkLeft \in Nat /\ WorkLeft' \in Nat
      /\ StepsLeft \in Nat /\ StepsLeft' \in Nat /\ StepsLeft <= 5 /\ StepsLeft' <= 5
      /\ FieldsLeft \in Nat /\ FieldsLeft' \in Nat
    BY DEF WorkTypes
<1>1. /\ Unread \in Int
      /\ readIndex \in Nat /\ writeIndex \in Int /\ capacity \in Nat
      /\ buffer \in [0..(capacity - 1) -> Nat]
      /\ got \in Seq(Seq(Nat)) /\ Len(got) \in Nat
    BY DEF WorkTypes, TypeOK
<1>2. readIndex' \in Nat /\ writeIndex' \in Int
    BY DEF TypeOK
<1>3. \/ WordsLeft' < WordsLeft
      \/ WordsLeft' <= WordsLeft /\ StepsLeft' < StepsLeft
    <2>1. CASE ReadHeader
        <3>1. step = "header" /\ writeIndex' = writeIndex /\ HeaderWords \in {1, 2}
            BY <2>1 DEF ReadHeader, HeaderWords
        <3>2. StepsLeft = 1
            BY <3>1 DEF StepsLeft
        <3>3. CASE HasAllData
            <4>1. readIndex' = readIndex + 2 /\ InMemory(HeaderWords)
                BY <2>1, <3>3 DEF ReadHeader
            <4>2. buffer[readIndex] \in Nat
                BY <1>1, <3>1, <4>1 DEF InMemory
            <4>3. Unread >= -1
                BY <1>1, <3>1, <3>3, <4>2 DEF HasAllData
            <4>4. Unread' < Unread /\ Unread' \in Int
                BY <1>1, <3>1, <4>1 DEF Unread
            <4>5. WordsLeft' < WordsLeft
                BY <1>1, <4>3, <4>4, CountedFromLess DEF WordsLeft
            <4> QED
                BY <4>5
        <3>4. CASE ~HasAllData
            <4>1. step' = "recv" /\ readIndex' = readIndex + HeaderWords
                BY <2>1, <3>4 DEF ReadHeader, ReturnShort
            <4>2. Unread' <= Unread /\ Unread' \in Int
                BY <1>1, <3>1, <4>1 DEF Unread
            <4>3. WordsLeft' <= WordsLeft
                BY <1>1, <4>2, CountedFromLess DEF WordsLeft
            <4>4. StepsLeft' = 0
                BY <4>1 DEF StepsLeft
            <4> QED
                BY <3>2, <4>3, <4>4
        <3> QED
            BY <3>3, <3>4
    <2>2. CASE ReadField
        <3>1. /\ Reading /\ FieldInMemory /\ step = "fields" /\ step' = "fields"
              /\ UNCHANGED <<talk, id, writeIndex>>
              /\ readIndex' = readIndex + Prefix + FieldLength
              /\ Len(got') = Len(got) + 1
            BY <1>1, <2>2 DEF ReadField, Reading
        <3>2. Prefix \in {0, 1} /\ FieldLength >= 0 /\ InMemory(Prefix)
            BY <3>1 DEF FieldInMemory, Prefix
        <3>3. FieldLength \in Int
            <4>1. NextKind \in {"string", "number", "rest"}
                <5>1. Len(got) + 1 \in 1..Len(Layout(talk.end, id))
                    BY <1>1, <3>1, LayoutShort DEF Reading
                <5>2. Layout(talk.end, id) \in Seq({"string", "number", "rest"})
                    BY Kinds
                <5> QED
                    BY <5>1, <5>2 DEF NextKind
            <4>2. CASE NextKind = "string"
                <5>1. buffer[readIndex] \in Nat
                    BY <1>1, <3>2, <4>2 DEF InMemory, Prefix
                <5> QED
                    BY <4>2, <5>1 DEF FieldLength
            <4>3. CASE NextKind = "number"
                BY <4>3 DEF FieldLength
            <4>4. CASE NextKind = "rest"
                BY <1>1, <4>4 DEF FieldLength
            <4> QED
                BY <4>1, <4>2, <4>3, <4>4
        <3>4. Unread' <= Unread /\ Unread' \in Int
            BY <1>1, <3>1, <3>2, <3>3 DEF Unread
        <3>5. WordsLeft' <= WordsLeft
            BY <1>1, <3>4, CountedFromLess DEF WordsLeft
        <3>6. FieldsLeft' < FieldsLeft
            <4>1. Len(Layout(talk.end, id)) \in Nat /\ Len(Layout(talk.end, id)) <= 3
                BY LayoutShort
            <4>2. FieldsLeft = Len(Layout(talk.end, id)) - Len(got)
                BY <3>1 DEF FieldsLeft
            <4>3. \/ FieldsLeft' = Len(Layout(talk.end, id)) - (Len(got) + 1)
                  \/ FieldsLeft' = 0
                BY <3>1 DEF FieldsLeft
            <4> QED
                BY <1>0, <1>1, <3>1, <4>1, <4>2, <4>3 DEF Reading
        <3>7. StepsLeft = 2 + FieldsLeft /\ StepsLeft' = 2 + FieldsLeft'
            BY <3>1 DEF StepsLeft
        <3>8. \A m, n \in Nat : n < m => 2 + n < 2 + m
            OBVIOUS
        <3>9. StepsLeft' < StepsLeft
            BY <1>0, <3>6, <3>7, <3>8
        <3> QED
            BY <3>5, <3>9
    <2>3. CASE FinishPacket \/ LeaveUnknown
        <3>1. step = "fields" /\ Unread' = Unread /\ step' \in {"header", "recv"}
            BY <1>1, <2>3 DEF FinishPacket, LeaveUnknown, AllRead, FlushBuffer, Unread, bufferVars
        <3>2. WordsLeft' = WordsLeft
            BY <3>1 DEF WordsLeft
        <3>3. StepsLeft = 2 + FieldsLeft /\ StepsLeft' \in {0, 1}
            BY <3>1 DEF StepsLeft
        <3> QED
            BY <1>0, <3>2, <3>3
    <2>4. CASE ReadsOutside
        <3>1. step \in {"header", "fields"} /\ Unread' = Unread /\ step' = "dead"
            BY <2>4 DEF ReadsOutside, Reading, Dies, Unread, bufferVars
        <3>2. WordsLeft' = WordsLeft
            BY <3>1 DEF WordsLeft
        <3>3. StepsLeft \in {1, 2 + FieldsLeft} /\ StepsLeft' = 0
            BY <3>1 DEF StepsLeft
        <3> QED
            BY <1>0, <3>2, <3>3
    <2> QED
        BY <2>1, <2>2, <2>3, <2>4 DEF HandleMessage
<1>4. WorkLeft = 6 * WordsLeft + StepsLeft /\ WorkLeft' = 6 * WordsLeft' + StepsLeft'
    BY DEF WorkLeft
<1> QED
    BY <1>0, <1>3, <1>4, LessWork

\* The safety half of HandlerReturns, for packets cut anywhere and misread in
\* any way: the recursion cannot go on for ever, since each of its steps takes
\* something from a natural number.
THEOREM HandlerAdvances ==
    Spec => [][HandleMessage => WorkLeft \in Nat /\ WorkLeft' < WorkLeft]_vars
<1>1. TypeOK /\ TypeOK' /\ WorkTypes /\ WorkTypes' =>
          [HandleMessage => WorkLeft \in Nat /\ WorkLeft' < WorkLeft]_vars
    BY AdvanceStep DEF WorkTypes
<1>2. TypeOK => WorkTypes
    BY WorkTyped
<1> QED
    BY <1>1, <1>2, TypeCorrect, PTL
=============================================================================
