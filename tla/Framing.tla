------------------------------ MODULE Framing ------------------------------
(***************************************************************************)
(* How a program takes packets from a TCP stream: recv appends what it got *)
(* to a cBuffer, and handleMessage reads a header, tests that the data is  *)
(* there, reads the fields, flushes the buffer and calls itself.  The four *)
(* receiving ends share the scheme and differ in details.                  *)
(*                                                                         *)
(* The unit is a word of four bytes, the size of every number in a packet. *)
(* A conversation ("talk") is what the peer sends over one connection,     *)
(* packet by packet; recv may cut the stream anywhere.  Text is ASCII, so  *)
(* that no word is negative when it is misread as a number.  The program   *)
(* is the Debug build, the only one there is: an index outside the vector  *)
(* ends it, as does the exception of at().                                 *)
(***************************************************************************)
EXTENDS Integers, Sequences

CONSTANTS
    Talks,          \* the conversations considered
    BufferLength,   \* DEFAULT_BUFFER_LENGTH
    RecvMax         \* MAX_RECV, DEFAULT_BUFLEN

AuthEnds == {"authServer", "authClient"}
Ends     == {"chatServer", "chatClient"} \cup AuthEnds

\* The fields a handler reads for a message id (the switches of the four
\* handleMessage): numbers, strings with their length in front, or (protobuf)
\* all the rest of the buffer.
Layout(end, id) ==
    CASE end = "chatServer" /\ id \in {0, 2, 5, 6, 7, 8} -> <<"string", "string">>
      [] end = "chatServer" /\ id \in {1, 4}       -> <<"string">>
      [] end = "chatClient" /\ id = 3              -> <<"string", "string", "string">>
      [] end = "chatClient" /\ id \in {2, 5, 6}    -> <<"string", "string">>
      [] end = "chatClient" /\ id = 1              -> <<"string">>
      [] end = "chatClient" /\ id = 7              -> <<"number", "string">>
      [] end = "chatClient" /\ id \in {8, 9, 10}   -> <<"number">>
      [] end = "authServer" /\ id \in {1, 4}       -> <<"rest">>
      [] end = "authClient" /\ id \in {2, 3, 5, 6} -> <<"rest">>
      [] OTHER                                     -> <<>>

Packets == [id : Nat, fields : Seq(Seq(Nat))]

(***************************************************************************)
(* What a sender makes of its packets: word is the stream, start the place *)
(* of each packet in it (and the end of the last), at the places of a      *)
(* packet's fields (and its end).  A packet begins with its size and id.   *)
(***************************************************************************)
FieldLaidOut(t, n, f) ==
    LET kind   == Layout(t.end, t.packets[n].id)[f]
        field  == t.packets[n].fields[f]
        place  == t.at[n][f]
        prefix == IF kind = "string" THEN 1 ELSE 0
    IN  /\ t.at[n][f + 1] = place + prefix + Len(field)
        /\ kind = "string" => t.word[place] = Len(field)
        /\ kind = "number" => Len(field) = 1
        /\ \A i \in 1..Len(field) : t.word[place + prefix + i - 1] = field[i]

PacketLaidOut(t, n) ==
    LET fields == Len(Layout(t.end, t.packets[n].id))
    IN  /\ fields > 0 /\ Len(t.packets[n].fields) = fields
        /\ t.word[t.start[n]] = t.start[n + 1] - t.start[n]
        /\ t.word[t.start[n] + 1] = t.packets[n].id
        /\ t.at[n] \in [1..(fields + 1) -> Nat]
        /\ t.at[n][1] = t.start[n] + 2
        /\ t.at[n][fields + 1] = t.start[n + 1]
        /\ \A f \in 1..(fields + 1) : t.at[n][f] <= t.start[n + 1]
        /\ \A f \in 1..fields : FieldLaidOut(t, n, f)

LaidOut(t) ==
    LET count == Len(t.packets)
    IN  /\ t.end \in Ends
        /\ t.packets \in Seq(Packets)
        /\ t.start \in [1..(count + 1) -> Nat]
        /\ t.start[1] = 0
        /\ \A j, k \in 1..(count + 1) : j < k => t.start[j] < t.start[k]
        /\ t.word \in [0..(t.start[count + 1] - 1) -> Nat]
        /\ \A n \in 1..count : PacketLaidOut(t, n)

ASSUME TalksAssumption  == \A t \in Talks : LaidOut(t)
ASSUME LengthAssumption == BufferLength \in Nat /\ RecvMax \in Nat

VARIABLES
    talk,        \* the conversation on this connection
    sent,        \* packets the peer has sent
    received,    \* words recv has returned
    buffer, capacity, writeIndex, readIndex, \* the cBuffer
    step,        \* "recv", "header", "fields", or "dead"
    id, got,     \* locals of handleMessage: messageId, and the fields read
    handled,     \* history: the packets it took from the stream
    clean        \* history: every recv ended where a packet does

bufferVars == <<buffer, capacity, writeIndex, readIndex>>
vars == <<talk, sent, received, bufferVars, step, id, got, handled, clean>>

Init ==
    /\ talk \in Talks
    /\ sent = 0 /\ received = 0
    /\ buffer = [i \in 0..(BufferLength - 1) |-> 0] /\ capacity = BufferLength
    /\ writeIndex = 0 /\ readIndex = 0
    /\ step = "recv" /\ id = 0 /\ got = <<>>
    /\ handled = <<>> /\ clean = TRUE
-----------------------------------------------------------------------------
\* getLength(), which the handlers take for signed, and flushBuffer's caller
\* for unsigned.
Unread == writeIndex - readIndex

\* The next n words exist in the vector, written or not.
InMemory(n) == readIndex + n <= capacity

Dies ==
    /\ step' = "dead"
    /\ UNCHANGED <<talk, sent, bufferVars, id, got, handled>>

Send ==
    /\ sent < Len(talk.packets)
    /\ sent' = sent + 1
    /\ UNCHANGED <<talk, received, bufferVars, step, id, got, handled, clean>>

\* Mutant: resize is taken for "grow by".
GrownShort(n) == IF n + writeIndex > capacity THEN n ELSE capacity

Grown(n) == IF n + writeIndex > capacity THEN capacity + n ELSE capacity

\* Mutant: the vector keeps its size.
LoadedWithoutGrowing(n) ==
    [i \in 0..(capacity - 1) |->
        IF i \in writeIndex..(writeIndex + n - 1)
        THEN talk.word[received + (i - writeIndex)] ELSE buffer[i]]

Loaded(n) ==
    [i \in 0..(Grown(n) - 1) |->
        IF i \in writeIndex..(writeIndex + n - 1)
        THEN talk.word[received + (i - writeIndex)]
        ELSE IF i < capacity THEN buffer[i] ELSE 0]

\* recv ends with a packet; the ends that read all the rest need it to return
\* one packet only.
EndsWithPacket(n) ==
    \E m \in 1..Len(talk.packets) :
        /\ received + n = talk.start[m + 1]
        /\ talk.end \in AuthEnds => received = talk.start[m]

\* recv, loadBuffer and the call of handleMessage.
Recv(n) ==
    /\ step = "recv"
    /\ received + n <= talk.start[sent + 1]
    /\ received' = received + n
    /\ clean' = (clean /\ EndsWithPacket(n))
    /\ IF writeIndex < 0 \/ writeIndex + n > Grown(n)
       THEN Dies
       ELSE /\ buffer' = Loaded(n) /\ capacity' = Grown(n)
            /\ writeIndex' = writeIndex + n
            /\ step' = "header"
            /\ UNCHANGED <<talk, sent, readIndex, id, got, handled>>
-----------------------------------------------------------------------------
\* What is read before the test of the length: the authentication ends have
\* not read the id yet, but allow for it.
HeaderWords == IF talk.end \in AuthEnds THEN 1 ELSE 2

HasAllData == Unread - HeaderWords >= buffer[readIndex] - 2

\* Mutant: the handler waits for the data instead of returning.
WaitShort == UNCHANGED <<readIndex, step>>

\* The header stays read.
ReturnShort == readIndex' = readIndex + HeaderWords /\ step' = "recv"

ReadHeader ==
    /\ step = "header" /\ InMemory(HeaderWords)
    /\ IF HasAllData
       THEN /\ InMemory(2)
            /\ id' = buffer[readIndex + 1]
            /\ readIndex' = readIndex + 2
            /\ step' = "fields"
       ELSE /\ ReturnShort
            /\ UNCHANGED id
    /\ got' = <<>>
    /\ UNCHANGED <<talk, sent, received, buffer, capacity, writeIndex, handled, clean>>

NextKind == Layout(talk.end, id)[Len(got) + 1]

Prefix == IF NextKind = "string" THEN 1 ELSE 0

FieldLength ==
    CASE NextKind = "string" -> buffer[readIndex]
      [] NextKind = "number" -> 1
      [] NextKind = "rest"   -> Unread

FieldInMemory ==
    InMemory(Prefix) /\ FieldLength >= 0 /\ InMemory(Prefix + FieldLength)

Reading == step = "fields" /\ Len(got) < Len(Layout(talk.end, id))
AllRead == step = "fields" /\ Len(got) >= Len(Layout(talk.end, id))

ReadField ==
    /\ Reading /\ FieldInMemory
    /\ got' = Append(got, [i \in 1..FieldLength |-> buffer[readIndex + Prefix + (i - 1)]])
    /\ readIndex' = readIndex + Prefix + FieldLength
    /\ UNCHANGED <<talk, sent, received, buffer, capacity, writeIndex, step, id, handled, clean>>

ReadsOutside ==
    /\ \/ step = "header" /\ ~(InMemory(HeaderWords) /\ (HasAllData => InMemory(2)))
       \/ Reading /\ ~FieldInMemory
    /\ Dies
    /\ UNCHANGED <<received, clean>>

Took == handled' = Append(handled, [id |-> id, fields |-> got])

\* Mutant: the first unread word is dropped.
ShiftedTooFar == [i \in 0..(capacity - 1) |->
    IF i < Unread - 1 THEN buffer[i + readIndex + 1] ELSE buffer[i]]

Shifted == [i \in 0..(capacity - 1) |->
    IF i < Unread THEN buffer[i + readIndex] ELSE buffer[i]]

FlushBuffer ==
    /\ buffer' = IF Unread = 0 THEN buffer ELSE Shifted
    /\ writeIndex' = Unread
    /\ readIndex' = 0
    /\ UNCHANGED capacity

\* Mutant: 8 words instead of 8 bytes.
GoesOnLate == Unread >= 8

\* The length is unsigned here.
GoesOn == Unread < 0 \/ Unread >= (IF talk.end = "authClient" THEN 1 ELSE 2)

FinishPacket ==
    /\ AllRead
    /\ Took
    /\ FlushBuffer
    /\ step' = IF GoesOn THEN "header" ELSE "recv"
    /\ UNCHANGED <<talk, sent, received, id, got, clean>>

\* A room that does not exist: the handler returns at once.
LeaveUnknown ==
    /\ AllRead
    /\ talk.end = "chatServer" /\ id = 4
    /\ Took
    /\ step' = "recv"
    /\ UNCHANGED <<talk, sent, received, bufferVars, id, got, clean>>
-----------------------------------------------------------------------------
HandleMessage ==
    ReadHeader \/ ReadField \/ ReadsOutside \/ FinishPacket \/ LeaveUnknown

Next == Send \/ (\E n \in 1..RecvMax : Recv(n)) \/ HandleMessage

Spec == Init /\ [][Next]_vars

\* The thread that called handleMessage goes on.
FairSpec == Spec /\ WF_vars(HandleMessage)
-----------------------------------------------------------------------------
(***************************************************************************)
(* Properties.                                                             *)
(***************************************************************************)

\* The type of every variable; whatever was received, no index is beyond the
\* vector.
TypeOK ==
    /\ talk \in Talks
    /\ sent \in 0..Len(talk.packets)
    /\ received \in 0..talk.start[sent + 1]
    /\ capacity \in Nat /\ buffer \in [0..(capacity - 1) -> Nat]
    /\ writeIndex \in Int /\ writeIndex <= capacity
    /\ readIndex \in Nat /\ readIndex <= capacity
    /\ step \in {"recv", "header", "fields", "dead"}
    /\ id \in Nat /\ got \in Seq(Seq(Nat))
    /\ handled \in Seq(Packets)
    /\ clean \in BOOLEAN

\* As long as recv ends where packets do, they are taken from the stream one
\* by one, complete and in order, however many a recv returned and whichever
\* branch returned early.
TakenInOrder ==
    clean => \A k \in 1..Len(handled) :
                 k <= Len(talk.packets) /\ handled[k] = talk.packets[k]

\* Then, too, reading never passes writing, and the program survives.
ReadsWhatWasWritten ==
    clean => readIndex <= writeIndex /\ step # "dead"

\* When the handler returns it has taken everything received, unless it came
\* from the branch that leaves an unknown room.
NothingLeftBehind ==
    clean /\ step = "recv" =>
        \/ received = talk.start[Len(handled) + 1]
        \/ talk.end = "chatServer" /\ handled[Len(handled)].id = 4

\* What makes these inductive: the unread words are the stream from the next
\* packet on, or, while a packet is read, from its next field on, and what has
\* been read of it is right.
Number == Len(handled) + 1

InStream ==
    clean =>
        /\ Len(handled) <= Len(talk.packets)
        /\ \E m \in 1..(Len(talk.packets) + 1) : received = talk.start[m]
        /\ \A i \in readIndex..(writeIndex - 1) :
               buffer[i] = talk.word[received - writeIndex + i]
        /\ step \in {"recv", "header"} => Unread = received - talk.start[Number]
        /\ step = "header" => Unread > 0
        /\ step = "fields" =>
               /\ Number <= Len(talk.packets)
               /\ talk.start[Number + 1] <= received
               /\ id = talk.packets[Number].id
               /\ Len(got) <= Len(talk.packets[Number].fields)
               /\ \A f \in 1..Len(got) : got[f] = talk.packets[Number].fields[f]
               /\ Unread = received - talk.at[Number][Len(got) + 1]
        /\ talk.end \in AuthEnds =>
               /\ step = "recv" => Unread = 0
               /\ step \in {"header", "fields"} => received = talk.start[Number + 1]

\* The recursion of handleMessage ends, whatever it reads.
HandlerReturns == (step \in {"header", "fields"}) ~> (step \in {"recv", "dead"})
=============================================================================
