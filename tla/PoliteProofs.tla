---------------------------- MODULE PoliteProofs ----------------------------
(***************************************************************************)
(* What the chat server does for clients that join and leave rooms         *)
(* properly and whose connections end in an orderly way: it agrees with    *)
(* them on who is in which room, leaves nothing behind for the next user   *)
(* of a slot or a handle, and implements RoomService.                      *)
(*                                                                         *)
(* Membership changes long after a user typed the command: the packet goes *)
(* through the connection, is received with others and handled in turn.    *)
(* The invariant therefore follows the packets under way: from what the    *)
(* server has now, they lead, one after the other, to what the user did.   *)
(***************************************************************************)
EXTENDS SessionProofs, WellFoundedInduction

Orderly == Polite /\ ~AbruptCloses

\* What the client of s sent and no handler has taken.
Pending(s) ==
    IF handling # NoSlot /\ Handler = s THEN recvBuffer[handling] \o inbox[s]
                                        ELSE inbox[s]

\* Handling msg takes a client from a to b copies in room r, properly.
Moves(msg, r, a, b) ==
    IF msg.type = "join" /\ msg.room = r THEN a = 0 /\ b = 1
    ELSE IF msg.type = "leave" /\ msg.room = r THEN a = 1 /\ b = 0
    ELSE a = b

\* Handling all of q does, by the counts of m in between.
Leads(q, r, a, b) ==
    \E m \in [0..Len(q) -> {0, 1}] :
        /\ m[0] = a /\ m[Len(q)] = b
        /\ \A k \in 1..Len(q) : Moves(q[k], r, m[k - 1], m[k])

Concerns(msg, r) == msg.type \in {"join", "leave"} /\ msg.room = r

\* Only the handler at work has packets, and it has one.
HandlerHasAll ==
    /\ BuffersDrained
    /\ handling # NoSlot => recvBuffer[handling] # <<>>

\* A handle without a connection has nothing of the last one.
LeftNothing ==
    \A s \in Sockets :
        /\ conn[s] \in {"free", "open", "closed"}
        /\ conn[s] = "free" => inbox[s] = <<>> /\ \A r \in Rooms : members[r][s] = 0
        /\ conn[s] # "open" => \A r \in Rooms : view[s][r] = "never"

\* What is pending leads to what the user of an open connection did.
PendingLeads ==
    \A s \in Sockets, r \in Rooms :
        \E b \in {0, 1} :
            /\ Leads(Pending(s), r, members[r][s], b)
            /\ conn[s] = "open" => (b = 1 <=> view[s][r] = "in")

\* A room the user did not touch is not touched by what is pending.
UntouchedStays ==
    \A s \in Sockets, r \in Rooms :
        conn[s] = "open" /\ view[s][r] = "never" =>
            /\ members[r][s] = 0
            /\ \A k \in 1..Len(Pending(s)) : ~Concerns(Pending(s)[k], r)

PoliteInv ==
    /\ HandlerHasAll
    /\ LeftNothing
    /\ PendingLeads
    /\ UntouchedStays
    /\ HearsOnlyRoomsItJoined

\* What is known already.
Known == TypeOK /\ SlotsHoldDistinctOpenSockets /\ NoOrphanMembers /\ IdleUnlessOpen

-----------------------------------------------------------------------------
(***************************************************************************)
(* Courses of membership.                                                  *)
(***************************************************************************)

\* Nothing leads nowhere.
LEMMA LeadsEmpty ==
    ASSUME NEW r, NEW a, NEW b
    PROVE  Leads(<<>>, r, a, b) <=> a = b /\ a \in {0, 1}
<1>1. Len(<<>>) = 0 /\ 0..0 = {0} /\ 1..0 = {}
  BY EmptySeq
<1>2. ASSUME a \in {0, 1}, a = b
      PROVE  Leads(<<>>, r, a, b)
  <2> DEFINE m == [k \in 0..0 |-> a]
  <2>1. m \in [0..Len(<<>>) -> {0, 1}] /\ m[0] = a
    BY <1>1, <1>2
  <2> QED
    BY <1>1, <1>2, <2>1 DEF Leads
<1>3. ASSUME Leads(<<>>, r, a, b)
      PROVE  a = b /\ a \in {0, 1}
  BY <1>1, <1>3 DEF Leads
<1> QED
  BY <1>2, <1>3

\* The first packet makes the first move.
LEMMA LeadsTail ==
    ASSUME NEW S, NEW q \in Seq(S), q # <<>>, NEW r, NEW a, NEW b, Leads(q, r, a, b)
    PROVE  \E c \in {0, 1} : Moves(Head(q), r, a, c) /\ Leads(Tail(q), r, c, b)
<1>1. /\ Len(q) \in Nat \ {0}
      /\ Len(Tail(q)) = Len(q) - 1
      /\ \A i \in 1..Len(Tail(q)) : Tail(q)[i] = q[i + 1]
      /\ Head(q) = q[1]
  BY EmptySeq, HeadTailProperties
<1>2. PICK m \in [0..Len(q) -> {0, 1}] :
        /\ m[0] = a /\ m[Len(q)] = b
        /\ \A k \in 1..Len(q) : Moves(q[k], r, m[k - 1], m[k])
  BY DEF Leads
<1> DEFINE t == [k \in 0..Len(Tail(q)) |-> m[k + 1]]
<1>3. t \in [0..Len(Tail(q)) -> {0, 1}]
  BY <1>1
<1>4. t[0] = m[1] /\ t[Len(Tail(q))] = b /\ m[1] \in {0, 1}
  BY <1>1, <1>2
<1>5. Moves(Head(q), r, a, m[1])
  <2>1. 1 \in 1..Len(q) /\ 1 - 1 = 0
    BY <1>1
  <2>2. Moves(q[1], r, m[1 - 1], m[1])
    BY <1>2, <2>1
  <2> QED
    BY <1>1, <1>2, <2>1, <2>2
<1>6. ASSUME NEW k \in 1..Len(Tail(q))
      PROVE  Moves(Tail(q)[k], r, t[k - 1], t[k])
  <2>1. /\ k + 1 \in 1..Len(q) /\ k - 1 \in 0..Len(Tail(q)) /\ k \in 0..Len(Tail(q))
        /\ (k - 1) + 1 = k /\ (k + 1) - 1 = k
    BY <1>1
  <2>2. t[k - 1] = m[k] /\ t[k] = m[k + 1] /\ Tail(q)[k] = q[k + 1]
    BY <1>1, <2>1
  <2>3. Moves(q[k + 1], r, m[(k + 1) - 1], m[k + 1])
    BY <1>2, <2>1
  <2> HIDE DEF t
  <2> QED
    BY <2>1, <2>2, <2>3
<1>7. Leads(Tail(q), r, m[1], b)
  <2> HIDE DEF t
  <2> QED
    BY <1>3, <1>4, <1>6 DEF Leads
<1> QED
  BY <1>4, <1>5, <1>7

\* A packet more makes one move more.
LEMMA LeadsAppend ==
    ASSUME NEW S, NEW q \in Seq(S), NEW e \in S, NEW r, NEW a, NEW b, NEW c \in {0, 1},
           Leads(q, r, a, b), Moves(e, r, b, c)
    PROVE  Leads(Append(q, e), r, a, c)
<1> DEFINE p == Append(q, e)
<1>1. /\ Len(q) \in Nat /\ Len(p) = Len(q) + 1
      /\ \A i \in 1..Len(q) : p[i] = q[i]
      /\ p[Len(q) + 1] = e
  BY LenProperties, AppendProperties
<1>2. PICK m \in [0..Len(q) -> {0, 1}] :
        /\ m[0] = a /\ m[Len(q)] = b
        /\ \A k \in 1..Len(q) : Moves(q[k], r, m[k - 1], m[k])
  BY DEF Leads
<1> DEFINE t == [k \in 0..Len(p) |-> IF k <= Len(q) THEN m[k] ELSE c]
<1> HIDE DEF p
<1>3. t \in [0..Len(p) -> {0, 1}]
  BY <1>1
<1>4. t[0] = a /\ t[Len(p)] = c
  BY <1>1, <1>2
<1>5. ASSUME NEW k \in 1..Len(p)
      PROVE  Moves(p[k], r, t[k - 1], t[k])
  <2>1. CASE k \in 1..Len(q)
    <3>1. k - 1 \in 0..Len(p) /\ k \in 0..Len(p) /\ k <= Len(q) /\ k - 1 <= Len(q)
      BY <1>1, <2>1
    <3>2. t[k - 1] = m[k - 1] /\ t[k] = m[k] /\ p[k] = q[k]
      BY <1>1, <2>1, <3>1
    <3> HIDE DEF t
    <3> QED
      BY <1>2, <2>1, <3>2
  <2>2. CASE k = Len(q) + 1
    <3>1. k - 1 \in 0..Len(p) /\ k \in 0..Len(p) /\ ~(k <= Len(q)) /\ k - 1 = Len(q)
      BY <1>1, <2>2
    <3>2. t[k - 1] = b /\ t[k] = c /\ p[k] = e
      BY <1>1, <1>2, <2>2, <3>1
    <3> HIDE DEF t
    <3> QED
      BY <3>2
  <2> QED
    BY <1>1, <2>1, <2>2
<1>6. Leads(p, r, a, c)
  <2> HIDE DEF t
  <2> QED
    BY <1>3, <1>4, <1>5 DEF Leads
<1> QED
  BY <1>6 DEF p

\* Membership is counted in ones.
LEMMA LeadsFrom ==
    ASSUME NEW S, NEW q \in Seq(S), NEW r, NEW a, NEW b, Leads(q, r, a, b)
    PROVE  a \in {0, 1} /\ b \in {0, 1}
<1>1. Len(q) \in Nat
  BY LenProperties
<1>2. 0 \in 0..Len(q) /\ Len(q) \in 0..Len(q)
  BY <1>1
<1> QED
  BY <1>2 DEF Leads

-----------------------------------------------------------------------------
(***************************************************************************)
(* What is pending, step by step.                                          *)
(***************************************************************************)

LEMMA PendingType ==
    ASSUME TypeOK, NEW s \in Sockets
    PROVE  Pending(s) \in Seq(ClientMsgs)
<1>1. inbox[s] \in Seq(ClientMsgs)
  BY DEF TypeOK
<1>2. CASE handling # NoSlot
  <2>1. recvBuffer[handling] \in Seq(ClientMsgs)
    BY <1>2 DEF TypeOK
  <2> QED
    BY <1>1, <2>1, ConcatProperties DEF Pending
<1>3. CASE handling = NoSlot
  BY <1>1, <1>3 DEF Pending
<1> QED
  BY <1>2, <1>3

\* recv moves packets from the connection into the buffer, which was empty.
LEMMA PendingRecv ==
    ASSUME Known, HandlerHasAll, NEW i \in Slots, RecvData(i), NEW s \in Sockets
    PROVE  Pending(s)' = Pending(s) /\ HandlerHasAll'
<1> DEFINE t == clientSockets[i]
<1>1. /\ handling = NoSlot /\ handling' = i /\ i # NoSlot
      /\ recvBuffer[i] = <<>>
      /\ UNCHANGED clientSockets
      /\ t \in Sockets
  <2>1. handling = NoSlot /\ handling' = i /\ UNCHANGED clientSockets /\ t # NoSocket
    BY DEF RecvData, InSelect
  <2>2. i # NoSlot
    BY SlotsAssumption DEF Slots, NoSlot
  <2>3. recvBuffer[i] = <<>>
    BY <2>1, <2>2 DEF HandlerHasAll, BuffersDrained
  <2>4. t \in Sockets
    BY <2>1 DEF Known, TypeOK
  <2> QED
    BY <2>1, <2>2, <2>3, <2>4
<1>2. PICK n \in 1..MaxRecvBatch :
        /\ n <= Len(inbox[t])
        /\ recvBuffer' = [recvBuffer EXCEPT ![i] = @ \o SubSeq(inbox[t], 1, n)]
        /\ inbox' = [inbox EXCEPT ![t] = SubSeq(@, n + 1, Len(@))]
  BY DEF RecvData
<1> DEFINE got == SubSeq(inbox[t], 1, n)
           left == SubSeq(inbox[t], n + 1, Len(inbox[t]))
<1>3. inbox[t] \in Seq(ClientMsgs) /\ n \in Nat \ {0}
  BY <1>1, BoundsAssumption DEF Known, TypeOK
<1>4. got \in Seq(ClientMsgs) /\ got \o left = inbox[t] /\ got # <<>>
  <2>1. got \in Seq(ClientMsgs)
    BY <1>2, <1>3, SplitType
  <2>2. got \o left = inbox[t]
    BY <1>2, <1>3, SplitConcat
  <2>3. Len(got) = n
    <3>1. \A k \in 1..n : inbox[t][k] \in ClientMsgs
      <4>1. Len(inbox[t]) \in Nat
        BY <1>3, LenProperties
      <4> QED
        BY <1>2, <1>3, <4>1, ElementOfSeq
    <3> QED
      BY <1>3, <3>1, SubSeqProperties
  <2> QED
    BY <1>3, <2>1, <2>2, <2>3, EmptySeq
<1>5. /\ recvBuffer'[i] = got
      /\ inbox'[t] = left
      /\ \A j \in Slots : j # i => recvBuffer'[j] = recvBuffer[j]
      /\ \A u \in Sockets : u # t => inbox'[u] = inbox[u]
  <2>1. <<>> \o got = got
    BY <1>4, ConcatEmptySeq
  <2>2. recvBuffer \in [Slots -> Seq(ClientMsgs)] /\ inbox \in [Sockets -> Seq(ClientMsgs)]
    BY DEF Known, TypeOK
  <2> HIDE DEF got, left
  <2>3. recvBuffer'[i] = recvBuffer[i] \o got
    BY <1>2, <2>2 DEF got
  <2>4. inbox'[t] = left
    BY <1>1, <1>2, <2>2 DEF left
  <2> QED
    BY <1>1, <1>2, <2>1, <2>2, <2>3, <2>4
<1> HIDE DEF t, got, left
<1>6. HandlerHasAll'
  <2>1. ASSUME NEW j \in Slots, recvBuffer'[j] # <<>>
        PROVE  j = i
    <3>1. CASE j # i
      <4>1. recvBuffer[j] # <<>>
        BY <1>5, <2>1, <3>1
      <4>2. handling = j
        BY <4>1 DEF HandlerHasAll, BuffersDrained
      <4>3. j # NoSlot
        BY SlotsAssumption DEF Slots, NoSlot
      <4> QED
        BY <1>1, <4>2, <4>3
    <3> QED
      BY <3>1
  <2> QED
    BY <1>1, <1>4, <1>5, <2>1 DEF HandlerHasAll, BuffersDrained
<1>7. Handler' = t
  BY <1>1 DEF Handler, t
<1>0. /\ Pending(s) = inbox[s]
      /\ Pending(s)' = IF s = t THEN recvBuffer'[i] \o inbox'[s] ELSE inbox'[s]
  <2>1. Pending(s) = inbox[s]
    BY <1>1 DEF Pending
  <2>2. handling' # NoSlot
    BY <1>1
  <2>3. Pending(s)' = IF Handler' = s THEN recvBuffer'[handling'] \o inbox'[s] ELSE inbox'[s]
    BY <2>2 DEF Pending
  <2> QED
    BY <1>1, <1>7, <2>1, <2>3
<1>8. CASE s = t
  BY <1>0, <1>4, <1>5, <1>6, <1>8
<1>9. CASE s # t
  BY <1>0, <1>5, <1>6, <1>9
<1> QED
  BY <1>6, <1>8, <1>9

\* A handler takes the first pending packet of its socket, and goes on until
\* its buffer is empty.
LEMMA PendingDone ==
    ASSUME Known, HandlerHasAll, handling # NoSlot, PacketDone,
           UNCHANGED <<clientSockets, inbox>>
    PROVE  /\ HandlerHasAll'
           /\ Handler \in Sockets
           /\ Pending(Handler) \in Seq(ClientMsgs) /\ Pending(Handler) # <<>>
           /\ Head(Pending(Handler)) = Packet
           /\ \A s \in Sockets :
                 Pending(s)' = IF s = Handler THEN Tail(Pending(s)) ELSE Pending(s)
<1> DEFINE b == recvBuffer[handling]
<1>1. /\ b \in Seq(ClientMsgs) /\ b # <<>>
      /\ Handler \in Sockets /\ handling \in Slots
      /\ inbox[Handler] \in Seq(ClientMsgs)
  BY DEF Known, TypeOK, HandlerHasAll, Handler
<1>2. /\ Pending(Handler) = b \o inbox[Handler]
      /\ Pending(Handler) \in Seq(ClientMsgs) /\ Pending(Handler) # <<>>
      /\ Head(Pending(Handler)) = Packet
      /\ Tail(Pending(Handler)) = Tail(b) \o inbox[Handler]
  <2>1. Pending(Handler) = b \o inbox[Handler]
    BY DEF Pending
  <2> HIDE DEF b
  <2>2. /\ b \o inbox[Handler] \in Seq(ClientMsgs) /\ b \o inbox[Handler] # <<>>
        /\ Head(b \o inbox[Handler]) = Head(b)
        /\ Tail(b \o inbox[Handler]) = Tail(b) \o inbox[Handler]
    BY <1>1, ConcatTail
  <2> QED
    BY <2>1, <2>2 DEF Packet, b
<1>3. /\ Tail(b) \in Seq(ClientMsgs) /\ Len(Tail(b)) = Len(b) - 1 /\ Len(b) \in Nat \ {0}
      /\ Tail(b) # <<>> <=> Len(b) > 1
  <2>1. Tail(b) \in Seq(ClientMsgs) /\ Len(Tail(b)) = Len(b) - 1 /\ Len(b) \in Nat \ {0}
    BY <1>1, HeadTailProperties, EmptySeq
  <2>2. Tail(b) # <<>> => Len(Tail(b)) \in Nat \ {0}
    BY <2>1, EmptySeq
  <2>3. Tail(b) = <<>> => Len(Tail(b)) = 0
    BY EmptySeq
  <2> DEFINE c == Tail(b)
             n == Len(b)
  <2>4. n \in Nat \ {0} /\ Len(c) = n - 1 /\ (c # <<>> => Len(c) \in Nat \ {0}) /\ (c = <<>> => Len(c) = 0)
    BY <2>1, <2>2, <2>3
  <2> HIDE DEF c, n
  <2>5. c # <<>> <=> n > 1
    BY <2>4
  <2> QED
    BY <2>1, <2>5 DEF c, n
<1>4. /\ recvBuffer'[handling] = Tail(b)
      /\ \A j \in Slots : j # handling => recvBuffer'[j] = recvBuffer[j]
      /\ handling' = IF Len(b) > 1 THEN handling ELSE NoSlot
  BY <1>1 DEF PacketDone, Known, TypeOK
<1> HIDE DEF b
<1>5. HandlerHasAll'
  <2>1. ASSUME NEW j \in Slots, recvBuffer'[j] # <<>>
        PROVE  handling' = j
    <3>1. CASE j # handling
      BY <1>4, <2>1, <3>1 DEF HandlerHasAll, BuffersDrained
    <3>2. CASE j = handling
      BY <1>3, <1>4, <2>1, <3>2
    <3> QED
      BY <3>1, <3>2
  <2>2. handling' # NoSlot => recvBuffer'[handling'] # <<>>
    BY <1>3, <1>4
  <2> QED
    BY <2>1, <2>2 DEF HandlerHasAll, BuffersDrained
<1>6. ASSUME NEW s \in Sockets
      PROVE  Pending(s)' = IF s = Handler THEN Tail(Pending(s)) ELSE Pending(s)
  <2>1. inbox'[s] = inbox[s] /\ clientSockets'[handling] = Handler
    BY DEF Handler
  <2>2. CASE s # Handler
    <3>1. Pending(s) = inbox[s]
      BY <2>2 DEF Pending
    <3>2. Pending(s)' = IF handling' # NoSlot /\ Handler' = s
                        THEN recvBuffer'[handling'] \o inbox'[s] ELSE inbox'[s]
      BY DEF Pending
    <3>3. handling' # NoSlot => Handler' = Handler
      BY <1>4 DEF Handler
    <3> QED
      BY <2>1, <2>2, <3>1, <3>2, <3>3
  <2>3. CASE s = Handler
    <3>1. CASE Len(b) > 1
      <4>1. handling' = handling /\ Handler' = Handler
        BY <1>4, <3>1 DEF Handler
      <4>2. Pending(s)' = recvBuffer'[handling] \o inbox'[s]
        BY <2>3, <4>1 DEF Pending
      <4> QED
        BY <1>2, <1>4, <2>1, <2>3, <4>2
    <3>2. CASE ~(Len(b) > 1)
      <4>1. handling' = NoSlot /\ Tail(b) = <<>>
        BY <1>3, <1>4, <3>2
      <4>2. Pending(s)' = inbox[s]
        BY <2>1, <4>1 DEF Pending
      <4>3. Tail(b) \o inbox[Handler] = inbox[Handler]
        BY <1>1, <4>1, ConcatEmptySeq
      <4> QED
        BY <1>2, <2>3, <4>2, <4>3
    <3> QED
      BY <3>1, <3>2
  <2> QED
    BY <2>2, <2>3
<1> QED
  BY <1>1, <1>2, <1>5, <1>6

\* A client sends: its packet is the last of what is pending.
LEMMA PendingSend ==
    ASSUME Known, NEW t \in Sockets, NEW msg \in ClientMsgs, Send(t, msg), NEW s \in Sockets
    PROVE  Pending(s)' = IF s = t THEN Append(Pending(s), msg) ELSE Pending(s)
<1>1. /\ UNCHANGED <<handling, clientSockets, recvBuffer>>
      /\ inbox'[s] = IF s = t THEN Append(inbox[s], msg) ELSE inbox[s]
  BY DEF Send, serverVars, Known, TypeOK
<1>2. inbox[s] \in Seq(ClientMsgs)
  BY DEF Known, TypeOK
<1>3. CASE handling # NoSlot /\ Handler = s
  <2>1. recvBuffer[handling] \in Seq(ClientMsgs)
    BY <1>3 DEF Known, TypeOK
  <2> DEFINE b == recvBuffer[handling]
             c == inbox[s]
  <2>2. b \o Append(c, msg) = Append(b \o c, msg)
    <3> HIDE DEF b, c
    <3>1. b \in Seq(ClientMsgs) /\ c \in Seq(ClientMsgs)
      BY <1>2, <2>1 DEF b, c
    <3> QED
      BY <3>1, AppendConcat
  <2>3. Handler' = Handler
    BY <1>1 DEF Handler
  <2>4. Pending(s) = recvBuffer[handling] \o inbox[s] /\ Pending(s)' = recvBuffer[handling] \o inbox'[s]
    BY <1>1, <1>3, <2>3 DEF Pending
  <2> QED
    BY <1>1, <2>2, <2>4
<1>4. CASE ~(handling # NoSlot /\ Handler = s)
  <2>1. Handler' = Handler
    BY <1>1 DEF Handler
  <2>2. Pending(s) = inbox[s] /\ Pending(s)' = inbox'[s]
    BY <1>1, <1>4, <2>1 DEF Pending
  <2> QED
    BY <1>1, <2>2
<1> QED
  BY <1>3, <1>4

\* Nothing happens to what is pending.
LEMMA PendingSame ==
    ASSUME UNCHANGED <<handling, clientSockets, recvBuffer, inbox>>, NEW s \in Sockets
    PROVE  Pending(s)' = Pending(s)
<1>1. Handler' = Handler
  BY DEF Handler
<1> QED
  BY <1>1 DEF Pending

-----------------------------------------------------------------------------
(***************************************************************************)
(* The invariant, kind of step by kind of step.                            *)
(***************************************************************************)

\* The packet at hand moves its sender as the sender meant it.
LEMMA PacketMoves ==
    ASSUME Known, PoliteInv, handling # NoSlot, NEW r \in Rooms
    PROVE  /\ Handler \in Sockets
           /\ \E b, c \in {0, 1} :
                /\ Moves(Packet, r, members[r][Handler], c)
                /\ Leads(Tail(Pending(Handler)), r, c, b)
                /\ conn[Handler] = "open" => (b = 1 <=> view[Handler][r] = "in")
<1> DEFINE b == recvBuffer[handling]
<1>1. /\ b \in Seq(ClientMsgs) /\ b # <<>>
      /\ Handler \in Sockets
      /\ inbox[Handler] \in Seq(ClientMsgs)
      /\ Pending(Handler) = b \o inbox[Handler]
  BY DEF Known, TypeOK, PoliteInv, HandlerHasAll, Handler, Pending
<1>2. /\ Pending(Handler) \in Seq(ClientMsgs) /\ Pending(Handler) # <<>>
      /\ Head(Pending(Handler)) = Packet
  <2> HIDE DEF b
  <2>1. /\ b \o inbox[Handler] \in Seq(ClientMsgs) /\ b \o inbox[Handler] # <<>>
        /\ Head(b \o inbox[Handler]) = Head(b)
    BY <1>1, ConcatTail
  <2> QED
    BY <1>1, <2>1 DEF Packet, b
<1>3. PICK e \in {0, 1} :
        /\ Leads(Pending(Handler), r, members[r][Handler], e)
        /\ conn[Handler] = "open" => (e = 1 <=> view[Handler][r] = "in")
  BY <1>1 DEF PoliteInv, PendingLeads
<1>4. PICK c \in {0, 1} :
        /\ Moves(Head(Pending(Handler)), r, members[r][Handler], c)
        /\ Leads(Tail(Pending(Handler)), r, c, e)
  BY <1>2, <1>3, LeadsTail
<1> QED
  BY <1>1, <1>2, <1>3, <1>4

\* So a room that somebody leaves is there: the early return is never taken.
LEMMA LeaveKnown ==
    ASSUME Known, PoliteInv
    PROVE  ~HandleLeaveUnknown
<1> SUFFICES ASSUME HandleLeaveUnknown
             PROVE  FALSE
  OBVIOUS
<1>1. /\ handling # NoSlot /\ recvBuffer[handling] # <<>>
      /\ Packet.type = "leave" /\ Packet.room \notin rooms
  BY DEF HandleLeaveUnknown, Handling
<1>2. Packet.room \in Rooms /\ Handler \in Sockets
  BY <1>1, PacketType DEF Known
<1>3. members[Packet.room][Handler] = 1
  BY <1>1, <1>2, PacketMoves DEF Moves
<1>4. members[Packet.room][Handler] = 0
  BY <1>1, <1>2 DEF Known, NoOrphanMembers, IsEmptyRoom
<1> QED
  BY <1>3, <1>4

\* What one packet does to the memberships: of others nothing, of its sender
\* what it says.
Handled ==
    /\ handling # NoSlot
    /\ PacketDone
    /\ UNCHANGED <<clientSockets, inbox, conn, view>>
    /\ \A r \in Rooms, s \in Sockets :
          members'[r][s] = IF s # Handler \/ ~Concerns(Packet, r) THEN members[r][s]
                           ELSE IF Packet.type = "join" THEN 1 ELSE 0

LEMMA HandledStep ==
    ASSUME Known, PoliteInv, Handled
    PROVE  HandlerHasAll' /\ LeftNothing' /\ PendingLeads' /\ UntouchedStays'
<1>1. /\ HandlerHasAll'
      /\ Handler \in Sockets
      /\ Pending(Handler) \in Seq(ClientMsgs) /\ Pending(Handler) # <<>>
      /\ Head(Pending(Handler)) = Packet
      /\ \A s \in Sockets :
            Pending(s)' = IF s = Handler THEN Tail(Pending(s)) ELSE Pending(s)
  BY PendingDone DEF PoliteInv, Handled
<1>2. conn[Handler] # "free"
  <2>1. handling \in Slots /\ clientSockets[handling] # NoSocket
    BY NamesAssumption DEF Handled, Known, TypeOK
  <2> QED
    BY <2>1 DEF Known, SlotsHoldDistinctOpenSockets, Handler
<1>3. LeftNothing'
  BY <1>2 DEF Handled, PoliteInv, LeftNothing
<1>4. ASSUME NEW s \in Sockets, NEW r \in Rooms
      PROVE  \E b \in {0, 1} :
                /\ Leads(Pending(s)', r, members'[r][s], b)
                /\ conn'[s] = "open" => (b = 1 <=> view'[s][r] = "in")
  <2>1. CASE s # Handler
    <3>1. Pending(s)' = Pending(s) /\ members'[r][s] = members[r][s]
      BY <1>1, <2>1 DEF Handled
    <3> QED
      BY <3>1 DEF PoliteInv, PendingLeads, Handled
  <2>2. CASE s = Handler
    <3>1. PICK b, c \in {0, 1} :
            /\ Moves(Packet, r, members[r][s], c)
            /\ Leads(Tail(Pending(s)), r, c, b)
            /\ conn[s] = "open" => (b = 1 <=> view[s][r] = "in")
      BY <2>2, PacketMoves DEF Handled
    <3>2. members'[r][s] = c
      BY <2>2, <3>1 DEF Handled, Moves, Concerns
    <3>3. Pending(s)' = Tail(Pending(s))
      BY <1>1, <2>2
    <3> QED
      BY <3>1, <3>2, <3>3 DEF Handled
  <2> QED
    BY <2>1, <2>2
<1>5. ASSUME NEW s \in Sockets, NEW r \in Rooms, conn'[s] = "open", view'[s][r] = "never"
      PROVE  /\ members'[r][s] = 0
             /\ \A k \in 1..Len(Pending(s)') : ~Concerns(Pending(s)'[k], r)
  <2>0. /\ members[r][s] = 0
        /\ \A k \in 1..Len(Pending(s)) : ~Concerns(Pending(s)[k], r)
    BY <1>5 DEF Handled, PoliteInv, UntouchedStays
  <2>1. CASE s # Handler
    <3>1. Pending(s)' = Pending(s) /\ members'[r][s] = members[r][s]
      BY <1>1, <2>1 DEF Handled
    <3> QED
      BY <2>0, <3>1
  <2>2. CASE s = Handler
    <3> DEFINE q == Pending(s)
    <3>1. /\ Len(q) \in Nat \ {0} /\ Len(Tail(q)) = Len(q) - 1
          /\ \A i \in 1..Len(Tail(q)) : Tail(q)[i] = q[i + 1]
          /\ Head(q) = q[1] /\ q[1] = Packet
      BY <1>1, <2>2, EmptySeq, HeadTailProperties
    <3>2. Pending(s)' = Tail(q)
      BY <1>1, <2>2
    <3>3. \A k \in 1..Len(q) : ~Concerns(q[k], r)
      BY <2>0
    <3> HIDE DEF q
    <3>4. ~Concerns(Packet, r)
      <4>1. 1 \in 1..Len(q)
        BY <3>1
      <4> QED
        BY <3>1, <3>3, <4>1
    <3>5. members'[r][s] = 0
      BY <2>0, <3>4 DEF Handled
    <3>6. ASSUME NEW k \in 1..Len(Tail(q))
          PROVE  ~Concerns(Tail(q)[k], r)
      <4>1. k + 1 \in 1..Len(q)
        BY <3>1
      <4> QED
        BY <3>1, <3>3, <4>1
    <3> QED
      BY <3>2, <3>5, <3>6
  <2> QED
    BY <2>1, <2>2
<1>6. PendingLeads'
  BY <1>4 DEF PendingLeads
<1>7. UntouchedStays'
  BY <1>5 DEF UntouchedStays
<1> QED
  BY <1>1, <1>3, <1>6, <1>7

\* Each handler is such a step.
LEMMA HandlersHandle ==
    ASSUME Known, PoliteInv,
           HandleLogin \/ HandleRegister \/ HandleJoin \/ HandleSay \/ HandleLeave
    PROVE  Handled
<1>1. handling # NoSlot /\ recvBuffer[handling] # <<>>
  BY DEF HandleLogin, HandleRegister, AskAuth, HandleJoin, HandleSay, HandleLeave, Handling
<1>2. members \in [Rooms -> [Sockets -> Nat]]
  BY DEF Known, TypeOK
<1>3. /\ Packet.type \in {"login", "register", "join", "say", "leave"}
      /\ Packet.type \in {"join", "say", "leave"} => Packet.room \in Rooms
      /\ Handler \in Sockets
  BY <1>1, PacketType DEF Known, HandleLogin, HandleRegister, AskAuth, HandleJoin, HandleSay,
     HandleLeave, Handling
<1>4. \A r \in Rooms : \E c \in {0, 1} : Moves(Packet, r, members[r][Handler], c)
  BY <1>1, PacketMoves
<1>5. CASE HandleLogin \/ HandleRegister
  BY <1>1, <1>5 DEF HandleLogin, HandleRegister, AskAuth, Handling, Handled, Concerns, clientVars
<1>6. CASE HandleSay
  BY <1>1, <1>6 DEF HandleSay, Handling, Handled, Concerns, clientVars
<1>7. CASE HandleJoin
  <2>1. members[Packet.room][Handler] = 0 /\ Packet.type = "join"
    BY <1>3, <1>4, <1>7 DEF Moves, HandleJoin, Handling
  <2>2. members' = [members EXCEPT ![Packet.room][Handler] = members[Packet.room][Handler] + 1]
    BY <1>7 DEF HandleJoin
  <2>3. ASSUME NEW r \in Rooms, NEW s \in Sockets
        PROVE  members'[r][s] = IF s # Handler \/ ~Concerns(Packet, r) THEN members[r][s]
                                ELSE IF Packet.type = "join" THEN 1 ELSE 0
    BY <1>2, <1>3, <2>1, <2>2 DEF Concerns
  <2> QED
    BY <1>1, <1>7, <2>3 DEF HandleJoin, Handled, clientVars
<1>8. CASE HandleLeave
  <2>1. members[Packet.room][Handler] = 1 /\ Packet.type = "leave"
    BY <1>3, <1>4, <1>8 DEF Moves, HandleLeave, Handling
  <2>2. members' = [members EXCEPT ![Packet.room] =
                       [members[Packet.room] EXCEPT ![Handler] = 0]]
    BY <1>2, <1>3, <1>8, <2>1 DEF HandleLeave, EraseOne
  <2>3. ASSUME NEW r \in Rooms, NEW s \in Sockets
        PROVE  members'[r][s] = IF s # Handler \/ ~Concerns(Packet, r) THEN members[r][s]
                                ELSE IF Packet.type = "join" THEN 1 ELSE 0
    BY <1>2, <1>3, <2>1, <2>2 DEF Concerns
  <2> QED
    BY <1>1, <1>8, <2>3 DEF HandleLeave, Handled, clientVars
<1> QED
  BY <1>5, <1>6, <1>7, <1>8

\* Where nothing happens to packets, memberships, connections and views.
LEMMA QuietStep ==
    ASSUME PoliteInv,
           UNCHANGED <<handling, clientSockets, recvBuffer, inbox, members, conn, view>>
    PROVE  HandlerHasAll' /\ LeftNothing' /\ PendingLeads' /\ UntouchedStays'
<1>1. HandlerHasAll' /\ LeftNothing'
  BY DEF PoliteInv, HandlerHasAll, BuffersDrained, LeftNothing
<1>2. \A s \in Sockets : Pending(s)' = Pending(s)
  BY PendingSame
<1>3. PendingLeads'
  BY <1>2 DEF PoliteInv, PendingLeads
<1>4. UntouchedStays'
  BY <1>2 DEF PoliteInv, UntouchedStays
<1> QED
  BY <1>1, <1>3, <1>4

\* A handle that is given out again comes without packets and memberships.
LEMMA ConnectStep ==
    ASSUME Known, PoliteInv, NEW t \in Sockets, Connected(t)
    PROVE  HandlerHasAll' /\ LeftNothing' /\ PendingLeads' /\ UntouchedStays'
<1>1. /\ handling = NoSlot /\ conn[t] = "free"
      /\ conn' = [conn EXCEPT ![t] = "open"]
      /\ UNCHANGED <<recvBuffer, handling, members, inbox, view>>
  BY DEF Connected, InSelect
<1>2. /\ inbox[t] = <<>>
      /\ \A r \in Rooms : members[r][t] = 0 /\ view[t][r] = "never"
  BY <1>1 DEF PoliteInv, LeftNothing
<1>3. conn'[t] = "open" /\ \A s \in Sockets : s # t => conn'[s] = conn[s]
  BY <1>1 DEF Known, TypeOK
<1>4. HandlerHasAll' /\ LeftNothing'
  BY <1>1, <1>3 DEF PoliteInv, HandlerHasAll, BuffersDrained, LeftNothing
<1>5. \A s \in Sockets : Pending(s) = inbox[s] /\ Pending(s)' = inbox[s]
  BY <1>1 DEF Pending
<1>6. PendingLeads'
  <2> SUFFICES ASSUME NEW s \in Sockets, NEW r \in Rooms
               PROVE  \E b \in {0, 1} :
                         /\ Leads(Pending(s)', r, members'[r][s], b)
                         /\ conn'[s] = "open" => (b = 1 <=> view'[s][r] = "in")
    BY DEF PendingLeads
  <2>1. CASE s # t
    BY <1>1, <1>3, <1>5, <2>1 DEF PoliteInv, PendingLeads
  <2>2. CASE s = t
    <3>1. Leads(<<>>, r, 0, 0)
      BY LeadsEmpty
    <3> QED
      BY <1>1, <1>2, <1>5, <2>2, <3>1
  <2> QED
    BY <2>1, <2>2
<1>7. UntouchedStays'
  <2> SUFFICES ASSUME NEW s \in Sockets, NEW r \in Rooms,
                      conn'[s] = "open", view'[s][r] = "never"
               PROVE  /\ members'[r][s] = 0
                      /\ \A k \in 1..Len(Pending(s)') : ~Concerns(Pending(s)'[k], r)
    BY DEF UntouchedStays
  <2>1. CASE s # t
    BY <1>1, <1>3, <1>5, <2>1 DEF PoliteInv, UntouchedStays
  <2>2. CASE s = t
    <3>1. Pending(s)' = <<>> /\ 1..Len(<<>>) = {}
      BY <1>2, <1>5, <2>2, EmptySeq
    <3> QED
      BY <1>1, <1>2, <2>2, <3>1
  <2> QED
    BY <2>1, <2>2
<1> QED
  BY <1>4, <1>6, <1>7

\* removeUserOnDisconnect finds one copy or none: no membership is left.
LEMMA ZeroStep ==
    ASSUME Known, PoliteInv, NEW i \in Slots, RecvZero(i)
    PROVE  /\ HandlerHasAll' /\ LeftNothing' /\ PendingLeads' /\ UntouchedStays'
           /\ \A r \in Rooms, s \in Sockets :
                 members'[r][s] = IF s = clientSockets[i] THEN 0 ELSE members[r][s]
<1> DEFINE t == clientSockets[i]
<1>1. /\ handling = NoSlot /\ t \in Sockets
      /\ conn[t] = "closed" /\ inbox[t] = <<>>
      /\ conn' = [conn EXCEPT ![t] = "free"]
      /\ members' = [r \in Rooms |-> EraseOne(members[r], t)]
      /\ UNCHANGED <<recvBuffer, handling, inbox, view>>
  BY DEF RecvZero, InSelect, RemoveUserOnDisconnect, FreeSlot, clientVars, Known, TypeOK
<1>2. \A s \in Sockets : Pending(s) = inbox[s] /\ Pending(s)' = inbox[s]
  BY <1>1 DEF Pending
<1>3. \A r \in Rooms : members[r][t] \in {0, 1}
  <2> SUFFICES ASSUME NEW r \in Rooms
               PROVE  members[r][t] \in {0, 1}
    OBVIOUS
  <2>1. PICK b \in {0, 1} : Leads(<<>>, r, members[r][t], b)
    BY <1>1, <1>2 DEF PoliteInv, PendingLeads
  <2> QED
    BY <2>1, LeadsEmpty
<1>4. ASSUME NEW r \in Rooms, NEW s \in Sockets
      PROVE  members'[r][s] = IF s = t THEN 0 ELSE members[r][s]
  BY <1>1, <1>3 DEF EraseOne, Known, TypeOK
<1>5. conn'[t] = "free" /\ \A s \in Sockets : s # t => conn'[s] = conn[s]
  BY <1>1 DEF Known, TypeOK
<1> HIDE DEF t
<1>6. HandlerHasAll'
  BY <1>1 DEF PoliteInv, HandlerHasAll, BuffersDrained
<1>7. LeftNothing'
  BY <1>1, <1>4, <1>5 DEF PoliteInv, LeftNothing
<1>8. PendingLeads'
  <2> SUFFICES ASSUME NEW s \in Sockets, NEW r \in Rooms
               PROVE  \E b \in {0, 1} :
                         /\ Leads(Pending(s)', r, members'[r][s], b)
                         /\ conn'[s] = "open" => (b = 1 <=> view'[s][r] = "in")
    BY DEF PendingLeads
  <2>1. CASE s # t
    BY <1>1, <1>2, <1>4, <1>5, <2>1 DEF PoliteInv, PendingLeads
  <2>2. CASE s = t
    <3>1. Leads(<<>>, r, 0, 0)
      BY LeadsEmpty
    <3> QED
      BY <1>1, <1>2, <1>4, <1>5, <2>2, <3>1
  <2> QED
    BY <2>1, <2>2
<1>9. UntouchedStays'
  BY <1>1, <1>2, <1>4, <1>5 DEF PoliteInv, UntouchedStays
<1> QED
  BY <1>4, <1>6, <1>7, <1>8, <1>9 DEF t

\* A client that quits leaves what it sent to be handled.
LEMMA QuitStep ==
    ASSUME Known, PoliteInv, NEW t \in Sockets, ClientQuits(t)
    PROVE  HandlerHasAll' /\ LeftNothing' /\ PendingLeads' /\ UntouchedStays'
<1>1. /\ conn'[t] = "closed" /\ \A s \in Sockets : s # t => conn'[s] = conn[s]
      /\ \A r \in Rooms : view'[t][r] = "never"
      /\ \A s \in Sockets : s # t => view'[s] = view[s]
      /\ conn[t] = "open"
      /\ UNCHANGED <<handling, clientSockets, recvBuffer, inbox, members>>
  BY DEF ClientQuits, ClientGone, serverVars, Known, TypeOK
<1>2. HandlerHasAll' /\ LeftNothing'
  BY <1>1 DEF PoliteInv, HandlerHasAll, BuffersDrained, LeftNothing
<1>3. \A s \in Sockets : Pending(s)' = Pending(s)
  BY <1>1, PendingSame
<1>4. PendingLeads'
  <2> SUFFICES ASSUME NEW s \in Sockets, NEW r \in Rooms
               PROVE  \E b \in {0, 1} :
                         /\ Leads(Pending(s)', r, members'[r][s], b)
                         /\ conn'[s] = "open" => (b = 1 <=> view'[s][r] = "in")
    BY DEF PendingLeads
  <2>1. PICK b \in {0, 1} :
          /\ Leads(Pending(s), r, members[r][s], b)
          /\ conn[s] = "open" => (b = 1 <=> view[s][r] = "in")
    BY DEF PoliteInv, PendingLeads
  <2> QED
    BY <1>1, <1>3, <2>1
<1>5. UntouchedStays'
  BY <1>1, <1>3 DEF PoliteInv, UntouchedStays
<1> QED
  BY <1>2, <1>4, <1>5

\* What a client sends moves its membership as it moves the user's view.
LEMMA SendStep ==
    ASSUME Known, PoliteInv, NEW t \in Sockets, NEW msg \in ClientMsgs, Send(t, msg),
           \A s \in Sockets : s # t => view'[s] = view[s],
           \A r \in Rooms :
              IF Concerns(msg, r)
              THEN /\ view'[t][r] # "never"
                   /\ msg.type = "join" => view[t][r] # "in" /\ view'[t][r] = "in"
                   /\ msg.type = "leave" => view[t][r] = "in" /\ view'[t][r] # "in"
              ELSE view'[t][r] = view[t][r]
    PROVE  HandlerHasAll' /\ LeftNothing' /\ PendingLeads' /\ UntouchedStays'
<1>1. /\ conn[t] = "open" /\ UNCHANGED <<handling, clientSockets, recvBuffer, members, conn>>
      /\ \A s \in Sockets : s # t => inbox'[s] = inbox[s]
  BY DEF Send, serverVars, Known, TypeOK
<1>2. HandlerHasAll' /\ LeftNothing'
  BY <1>1 DEF PoliteInv, HandlerHasAll, BuffersDrained, LeftNothing
<1>3. \A s \in Sockets :
         Pending(s)' = IF s = t THEN Append(Pending(s), msg) ELSE Pending(s)
  BY PendingSend
<1>4. Pending(t) \in Seq(ClientMsgs)
  BY PendingType DEF Known
<1>5. ASSUME NEW s \in Sockets, NEW r \in Rooms
      PROVE  \E b \in {0, 1} :
                /\ Leads(Pending(s)', r, members'[r][s], b)
                /\ conn'[s] = "open" => (b = 1 <=> view'[s][r] = "in")
  <2>1. PICK b \in {0, 1} :
          /\ Leads(Pending(s), r, members[r][s], b)
          /\ conn[s] = "open" => (b = 1 <=> view[s][r] = "in")
    BY DEF PoliteInv, PendingLeads
  <2>2. CASE s # t
    BY <1>1, <1>3, <2>1, <2>2
  <2>3. CASE s = t
    <3> DEFINE c == IF ~Concerns(msg, r) THEN b ELSE IF msg.type = "join" THEN 1 ELSE 0
    <3>1. c \in {0, 1} /\ Moves(msg, r, b, c) /\ (c = 1 <=> view'[t][r] = "in")
      BY <1>1, <2>1, <2>3 DEF Concerns, Moves
    <3> HIDE DEF c
    <3>2. Leads(Append(Pending(t), msg), r, members[r][t], c)
      BY <1>4, <2>1, <2>3, <3>1, LeadsAppend
    <3> QED
      BY <1>1, <1>3, <2>3, <3>1, <3>2
  <2> QED
    BY <2>2, <2>3
<1>6. ASSUME NEW s \in Sockets, NEW r \in Rooms, conn'[s] = "open", view'[s][r] = "never"
      PROVE  /\ members'[r][s] = 0
             /\ \A k \in 1..Len(Pending(s)') : ~Concerns(Pending(s)'[k], r)
  <2>1. CASE s # t
    BY <1>1, <1>3, <1>6, <2>1 DEF PoliteInv, UntouchedStays
  <2>2. CASE s = t
    <3>1. ~Concerns(msg, r) /\ view[t][r] = "never"
      BY <1>6, <2>2
    <3>2. /\ members[r][t] = 0
          /\ \A k \in 1..Len(Pending(t)) : ~Concerns(Pending(t)[k], r)
      BY <1>1, <3>1 DEF PoliteInv, UntouchedStays
    <3> DEFINE q == Pending(t)
               p == Append(q, msg)
    <3>3. /\ Len(q) \in Nat /\ Len(p) = Len(q) + 1
          /\ \A k \in 1..Len(q) : p[k] = q[k]
          /\ p[Len(q) + 1] = msg
      BY <1>4, LenProperties, AppendProperties
    <3>4. Pending(s)' = p
      BY <1>3, <2>2
    <3>5. \A k \in 1..Len(q) : ~Concerns(q[k], r)
      BY <3>2
    <3> HIDE DEF p, q
    <3>6. \A k \in 1..Len(p) : k \in 1..Len(q) \/ k = Len(q) + 1
      BY <3>3
    <3>7. \A k \in 1..Len(p) : ~Concerns(p[k], r)
      BY <3>1, <3>3, <3>5, <3>6
    <3> QED
      BY <1>1, <2>2, <3>2, <3>4, <3>7
  <2> QED
    BY <2>1, <2>2
<1>7. PendingLeads'
  BY <1>5 DEF PendingLeads
<1>8. UntouchedStays'
  BY <1>6 DEF UntouchedStays
<1> QED
  BY <1>2, <1>7, <1>8

\* A step of an orderly system keeps what is said of packets and memberships.
LEMMA AgreeStep ==
    ASSUME Orderly, Known, PoliteInv, [Next]_vars
    PROVE  HandlerHasAll' /\ LeftNothing' /\ PendingLeads' /\ UntouchedStays'
<1>1. ASSUME NEW t \in Sockets, NEW i \in Slots, AcceptIntoSlot(t, i)
      PROVE  HandlerHasAll' /\ LeftNothing' /\ PendingLeads' /\ UntouchedStays'
  BY <1>1, ConnectStep DEF AcceptIntoSlot
<1>2. ASSUME NEW t \in Sockets, AcceptWithoutSlot(t)
      PROVE  HandlerHasAll' /\ LeftNothing' /\ PendingLeads' /\ UntouchedStays'
  BY <1>2, ConnectStep DEF AcceptWithoutSlot
<1>3. ASSUME NEW i \in Slots, RecvData(i)
      PROVE  HandlerHasAll' /\ LeftNothing' /\ PendingLeads' /\ UntouchedStays'
  <2>1. HandlerHasAll' /\ \A s \in Sockets : Pending(s)' = Pending(s)
    <3>1. ASSUME NEW s \in Sockets
          PROVE  Pending(s)' = Pending(s)
      BY <1>3, PendingRecv DEF PoliteInv
    <3>2. HandlerHasAll'
      <4>1. \E s \in Sockets : TRUE
        BY <1>3, NamesAssumption DEF RecvData, Known, TypeOK
      <4> QED
        BY <1>3, <4>1, PendingRecv DEF PoliteInv
    <3> QED
      BY <3>1, <3>2
  <2> DEFINE t == clientSockets[i]
  <2>2. /\ UNCHANGED <<members, conn, view>>
        /\ t \in Sockets /\ conn[t] # "free"
        /\ \A s \in Sockets : s # t => inbox'[s] = inbox[s]
    BY <1>3 DEF RecvData, clientVars, Known, TypeOK
  <2>3. LeftNothing'
    BY <2>2 DEF PoliteInv, LeftNothing
  <2>4. PendingLeads'
    BY <2>1, <2>2 DEF PoliteInv, PendingLeads
  <2>5. UntouchedStays'
    BY <2>1, <2>2 DEF PoliteInv, UntouchedStays
  <2> QED
    BY <2>1, <2>3, <2>4, <2>5
<1>4. ASSUME NEW i \in Slots, RecvZero(i)
      PROVE  HandlerHasAll' /\ LeftNothing' /\ PendingLeads' /\ UntouchedStays'
  BY <1>4, ZeroStep
<1>5. ASSUME NEW i \in Slots, RecvReset(i)
      PROVE  FALSE
  <2>1. clientSockets[i] \in Sockets
    BY <1>5 DEF RecvReset, Known, TypeOK
  <2> QED
    BY <1>5, <2>1 DEF RecvReset, PoliteInv, LeftNothing
<1>6. CASE HandleMessage
  BY <1>6, LeaveKnown, HandlersHandle, HandledStep DEF HandleMessage
<1>7. CASE AuthThread \/ AuthServe \/ LinkFails \/ SelectFails
  <2>1. UNCHANGED <<handling, clientSockets, recvBuffer, inbox, members, conn, view>>
    BY <1>7 DEF AuthThread, AuthStart, AuthConnect, StartsUp, AuthReceive, AuthFind, AuthStore,
       AuthServe, LinkFails, SelectFails, serverVars, clientVars
  <2> QED
    BY <2>1, QuietStep
<1>8. ASSUME NEW t \in Sockets, ClientMenu(t)
      PROVE  HandlerHasAll' /\ LeftNothing' /\ PendingLeads' /\ UntouchedStays'
  <2>1. PICK type \in Requests, e \in Emails : Send(t, [type |-> type, email |-> e])
    BY <1>8 DEF ClientMenu
  <2> DEFINE msg == [type |-> type, email |-> e]
  <2>2. msg \in ClientMsgs /\ msg.type \in {"login", "register"}
    BY BoundsAssumption DEF ClientMsgs, Credentials
  <2>3. Send(t, msg)
    BY <2>1
  <2> HIDE DEF msg
  <2>4. \A r : ~Concerns(msg, r)
    BY <2>2 DEF Concerns
  <2>5. UNCHANGED view
    BY <1>8 DEF ClientMenu
  <2> QED
    BY <2>2, <2>3, <2>4, <2>5, SendStep
<1>9. ASSUME NEW t \in Sockets, ClientReceive(t)
      PROVE  HandlerHasAll' /\ LeftNothing' /\ PendingLeads' /\ UntouchedStays'
  BY <1>9, QuietStep DEF ClientReceive, serverVars
<1>10. ASSUME NEW t \in Sockets, ClientCommand(t)
       PROVE  HandlerHasAll' /\ LeftNothing' /\ PendingLeads' /\ UntouchedStays'
  <2>1. PICK type \in {"join", "say", "leave"}, q \in Rooms :
          /\ MayCommand(t, type, q)
          /\ Send(t, [type |-> type, room |-> q])
          /\ view' = [view EXCEPT ![t][q] = ViewAfter(@, type)]
    BY <1>10 DEF ClientCommand
  <2> DEFINE msg == [type |-> type, room |-> q]
  <2>2. msg \in ClientMsgs /\ msg.type = type /\ msg.room = q
    BY DEF ClientMsgs, RoomCommands
  <2>3. Send(t, msg)
    BY <2>1
  <2> HIDE DEF msg
  <2>4. /\ \A s \in Sockets : s # t => view'[s] = view[s]
        /\ view'[t][q] = ViewAfter(view[t][q], type)
        /\ \A r \in Rooms : r # q => view'[t][r] = view[t][r]
    BY <2>1 DEF Known, TypeOK
  <2>5. /\ type = "join" => view[t][q] # "in" /\ view'[t][q] = "in"
        /\ type = "leave" => view[t][q] = "in" /\ view'[t][q] = "left"
        /\ type = "say" => view'[t][q] = view[t][q]
    BY <2>1, <2>4 DEF MayCommand, ViewAfter, Orderly
  <2>6. \A r \in Rooms :
           IF Concerns(msg, r)
           THEN /\ view'[t][r] # "never"
                /\ msg.type = "join" => view[t][r] # "in" /\ view'[t][r] = "in"
                /\ msg.type = "leave" => view[t][r] = "in" /\ view'[t][r] # "in"
           ELSE view'[t][r] = view[t][r]
    BY <2>2, <2>4, <2>5 DEF Concerns
  <2> QED
    BY <2>2, <2>3, <2>4, <2>6, SendStep
<1>11. ASSUME NEW t \in Sockets, ClientQuits(t)
       PROVE  HandlerHasAll' /\ LeftNothing' /\ PendingLeads' /\ UntouchedStays'
  BY <1>11, QuitStep
<1>12. ASSUME NEW t \in Sockets, ClientDies(t)
       PROVE  FALSE
  BY <1>12 DEF ClientDies, Orderly
<1>13. CASE UNCHANGED vars
  BY <1>13, QuietStep DEF vars, serverVars, clientVars
<1> QED
  BY <1>1, <1>2, <1>3, <1>4, <1>5, <1>6, <1>7, <1>8, <1>9, <1>10, <1>11, <1>12, <1>13
     DEF Next, ServeSlot

-----------------------------------------------------------------------------
(***************************************************************************)
(* What a client hears.                                                    *)
(***************************************************************************)

\* What may be on the wire to s.
Heard(s) == {m \in ServerMsgs : m \in RoomNotices => view[s][m.room] # "never"}

LEMMA HeardDef ==
    ASSUME TypeOK
    PROVE  HearsOnlyRoomsItJoined <=> \A s \in Sockets : wire[s] \in Seq(Heard(s))
<1>1. ASSUME NEW s \in Sockets
      PROVE  /\ wire[s] \in Seq(ServerMsgs) /\ Len(wire[s]) \in Nat
             /\ DOMAIN wire[s] = 1..Len(wire[s])
             /\ wire[s] = [k \in 1..Len(wire[s]) |-> wire[s][k]]
             /\ \A k \in 1..Len(wire[s]) : wire[s][k] \in ServerMsgs
  <2>1. wire[s] \in Seq(ServerMsgs)
    BY DEF TypeOK
  <2> QED
    BY <2>1, LenProperties, ElementOfSeq
<1>2. ASSUME HearsOnlyRoomsItJoined, NEW s \in Sockets
      PROVE  wire[s] \in Seq(Heard(s))
  <2> DEFINE n == Len(wire[s])
             f == [k \in 1..n |-> wire[s][k]]
  <2>1. n \in Nat /\ f = wire[s]
    BY <1>1
  <2>2. \A k \in 1..n : wire[s][k] \in Heard(s)
    BY <1>1, <1>2 DEF HearsOnlyRoomsItJoined, Heard
  <2>3. f \in Seq(Heard(s))
    <3> HIDE DEF n
    <3> QED
      BY <2>1, <2>2, IsASeq
  <2> QED
    BY <2>1, <2>3
<1>3. ASSUME \A s \in Sockets : wire[s] \in Seq(Heard(s))
      PROVE  HearsOnlyRoomsItJoined
  <2>1. ASSUME NEW s \in Sockets, NEW k \in DOMAIN wire[s]
        PROVE  wire[s][k] \in Heard(s)
    BY <1>1, <1>3, ElementOfSeq
  <2> QED
    BY <2>1 DEF HearsOnlyRoomsItJoined, Heard
<1> QED
  BY <1>2, <1>3

\* What is heard of a room is heard by its members, and none of them is there
\* without having joined.
LEMMA BroadcastHeard ==
    ASSUME TypeOK, \A s \in Sockets : wire[s] \in Seq(Heard(s)),
           NEW m \in [Sockets -> Nat], NEW msg \in ServerMsgs, Broadcast(m, msg),
           \A s \in Sockets : conn[s] = "open" /\ view[s][msg.room] = "never" => m[s] = 0
    PROVE  \A s \in Sockets : wire'[s] \in Seq(Heard(s))
<1> SUFFICES ASSUME NEW s \in Sockets
             PROVE  wire'[s] \in Seq(Heard(s))
  OBVIOUS
<1>1. wire[s] \in Seq(Heard(s)) /\ m[s] \in Nat
  OBVIOUS
<1>2. wire'[s] = IF Carries(s) THEN wire[s] \o [k \in 1..m[s] |-> msg] ELSE wire[s]
  BY DEF Broadcast
<1>3. CASE msg \in Heard(s)
  BY <1>1, <1>2, <1>3, CopiesType
<1>4. CASE msg \notin Heard(s)
  <2>1. Carries(s) => m[s] = 0
    BY <1>4 DEF Heard, Carries
  <2>2. [k \in 1..0 |-> msg] = <<>>
    OBVIOUS
  <2>3. wire[s] \o <<>> = wire[s]
    BY <1>1, ConcatEmptySeq
  <2> QED
    BY <1>1, <1>2, <2>1, <2>2, <2>3
<1> QED
  BY <1>3, <1>4

\* Who gets a notice has joined its room, also when that notice is of a join.
LEMMA HearsStep ==
    ASSUME Orderly, Known, PoliteInv, [Next]_vars
    PROVE  \A s \in Sockets : wire'[s] \in Seq(Heard(s)')
<1>0. /\ \A s \in Sockets : wire[s] \in Seq(Heard(s))
      /\ members \in [Rooms -> [Sockets -> Nat]]
      /\ wire \in [Sockets -> Seq(ServerMsgs)]
      /\ view \in [Sockets -> [Rooms -> {"never", "in", "left"}]]
      /\ TypeOK
  BY HeardDef DEF PoliteInv, Known, TypeOK
<1>a. UNCHANGED view => \A s \in Sockets : Heard(s)' = Heard(s)
  BY DEF Heard
<1>b. UNCHANGED <<wire, view>> => \A s \in Sockets : wire'[s] \in Seq(Heard(s)')
  BY <1>0, <1>a
<1>1. CASE HandleMessage
  <2>1. handling # NoSlot /\ recvBuffer[handling] # <<>> /\ UNCHANGED view
    BY <1>1 DEF HandleMessage, HandleLogin, HandleRegister, AskAuth, HandleJoin, HandleSay,
       HandleLeave, HandleLeaveUnknown, Handling, clientVars
  <2>2. Handler \in Sockets /\ (Packet.type \in {"join", "say", "leave"} => Packet.room \in Rooms)
    BY <1>0, <2>1, PacketType
  <2> DEFINE R == Packet.room
  <2>3. ASSUME HandleJoin \/ HandleSay \/ HandleLeave
        PROVE  R \in Rooms /\ NameOf(Handler) \in Names
    BY <1>0, <2>2, <2>3, NameLookupType DEF HandleJoin, HandleSay, HandleLeave, Handling
  <2>4. CASE HandleJoin
    <3>1. /\ Broadcast(members'[R], Notice("joined"))
          /\ members' = [members EXCEPT ![R][Handler] = @ + 1]
          /\ UNCHANGED conn
      BY <2>4 DEF HandleJoin
    <3>2. members'[R] \in [Sockets -> Nat]
      BY <1>0, <2>2, <2>3, <2>4, <3>1
    <3>3. Notice("joined") \in ServerMsgs /\ Notice("joined").room = R
      BY <1>0, <2>3, <2>4, NoticeType DEF Notice
    <3>4. UntouchedStays'
      BY <1>1, AgreeStep DEF Next
    <3>5. \A s \in Sockets : conn[s] = "open" /\ view[s][R] = "never" => members'[R][s] = 0
      BY <2>1, <2>3, <2>4, <3>1, <3>4 DEF UntouchedStays
    <3> DEFINE m == members'[R]
               msg == Notice("joined")
    <3>6. /\ m \in [Sockets -> Nat] /\ msg \in ServerMsgs /\ Broadcast(m, msg)
           /\ \A s \in Sockets : conn[s] = "open" /\ view[s][msg.room] = "never" => m[s] = 0
      BY <3>1, <3>2, <3>3, <3>5
    <3> HIDE DEF R, m, msg
    <3>7. \A s \in Sockets : wire'[s] \in Seq(Heard(s))
      BY <1>0, <3>6, BroadcastHeard
    <3> QED
      BY <1>a, <2>1, <3>7
  <2>5. CASE HandleSay
    <3>1. Broadcast(members[R], Notice("said")) /\ members[R] \in [Sockets -> Nat]
      BY <1>0, <2>3, <2>5 DEF HandleSay
    <3>2. Notice("said") \in ServerMsgs /\ Notice("said").room = R
      BY <1>0, <2>3, <2>5, NoticeType DEF Notice
    <3>3. \A s \in Sockets : conn[s] = "open" /\ view[s][R] = "never" => members[R][s] = 0
      BY <2>3, <2>5 DEF PoliteInv, UntouchedStays
    <3> DEFINE m == members[R]
               msg == Notice("said")
    <3>4. /\ m \in [Sockets -> Nat] /\ msg \in ServerMsgs /\ Broadcast(m, msg)
           /\ \A s \in Sockets : conn[s] = "open" /\ view[s][msg.room] = "never" => m[s] = 0
      BY <3>1, <3>2, <3>3
    <3> HIDE DEF R, m, msg
    <3>5. \A s \in Sockets : wire'[s] \in Seq(Heard(s))
      BY <1>0, <3>4, BroadcastHeard
    <3> QED
      BY <1>a, <2>1, <3>5
  <2>6. CASE HandleLeave
    <3>1. Broadcast(members[R], Notice("left")) /\ members[R] \in [Sockets -> Nat]
      BY <1>0, <2>3, <2>6 DEF HandleLeave
    <3>2. Notice("left") \in ServerMsgs /\ Notice("left").room = R
      BY <1>0, <2>3, <2>6, NoticeType DEF Notice
    <3>3. \A s \in Sockets : conn[s] = "open" /\ view[s][R] = "never" => members[R][s] = 0
      BY <2>3, <2>6 DEF PoliteInv, UntouchedStays
    <3> DEFINE m == members[R]
               msg == Notice("left")
    <3>4. /\ m \in [Sockets -> Nat] /\ msg \in ServerMsgs /\ Broadcast(m, msg)
           /\ \A s \in Sockets : conn[s] = "open" /\ view[s][msg.room] = "never" => m[s] = 0
      BY <3>1, <3>2, <3>3
    <3> HIDE DEF R, m, msg
    <3>5. \A s \in Sockets : wire'[s] \in Seq(Heard(s))
      BY <1>0, <3>4, BroadcastHeard
    <3> QED
      BY <1>a, <2>1, <3>5
  <2>7. CASE HandleLogin \/ HandleRegister \/ HandleLeaveUnknown
    BY <1>b, <2>7 DEF HandleLogin, HandleRegister, AskAuth, HandleLeaveUnknown, clientVars
  <2> QED
    BY <1>1, <2>4, <2>5, <2>6, <2>7 DEF HandleMessage
<1>2. CASE AuthReceive
  <2> DEFINE ans == Head(authAnswers)
  <2>1. Reply(ans.sock, ans.type) /\ UNCHANGED view
    BY <1>2 DEF AuthReceive, clientVars
  <2>2. ans \in AuthAnswers
    <3>1. authAnswers # <<>> /\ authAnswers \in Seq(AuthAnswers)
      <4>1. PICK n \in 1..MaxAuthBatch : n <= Len(authAnswers)
        BY <1>2 DEF AuthReceive
      <4>2. Len(<<>>) = 0 /\ n \in Nat \ {0}
        BY EmptySeq, BoundsAssumption
      <4> QED
        BY <1>0, <4>1, <4>2 DEF TypeOK
    <3> QED
      BY <3>1, HeadTailProperties
  <2>3. ans.sock \in Sockets /\ ans.type \in Verdicts
    BY <2>2 DEF AuthAnswers
  <2> HIDE DEF ans
  <2>4. [type |-> ans.type] \in Heard(ans.sock)
    BY <2>3 DEF Heard, ServerMsgs, RoomNotices, Verdicts
  <2>5. Append(wire[ans.sock], [type |-> ans.type]) \in Seq(Heard(ans.sock))
    BY <1>0, <2>3, <2>4, AppendProperties
  <2>6. \A s \in Sockets : wire'[s] \in Seq(Heard(s))
    BY <1>0, <2>1, <2>3, <2>5 DEF Reply
  <2> QED
    BY <1>a, <2>1, <2>6
<1>3. ASSUME NEW t \in Sockets, ClientReceive(t)
      PROVE  \A s \in Sockets : wire'[s] \in Seq(Heard(s)')
  <2>1. wire' = [wire EXCEPT ![t] = Tail(@)] /\ wire[t] # <<>> /\ UNCHANGED view
    BY <1>3 DEF ClientReceive
  <2>2. Tail(wire[t]) \in Seq(Heard(t))
    BY <1>0, <2>1, HeadTailProperties
  <2>3. \A s \in Sockets : wire'[s] \in Seq(Heard(s))
    BY <1>0, <2>1, <2>2
  <2> QED
    BY <1>a, <2>1, <2>3
<1>4. ASSUME NEW t \in Sockets, ClientCommand(t)
      PROVE  \A s \in Sockets : wire'[s] \in Seq(Heard(s)')
  <2>1. PICK type \in {"join", "say", "leave"}, q \in Rooms :
           view' = [view EXCEPT ![t][q] = ViewAfter(@, type)]
    BY <1>4 DEF ClientCommand
  <2>2. UNCHANGED wire
    BY <1>4 DEF ClientCommand, Send
  <2>3. \A s \in Sockets, r \in Rooms : view[s][r] # "never" => view'[s][r] # "never"
    BY <1>0, <2>1 DEF ViewAfter
  <2>4. \A s \in Sockets : Heard(s) \subseteq Heard(s)'
    BY <2>3 DEF Heard, RoomNotices
  <2> SUFFICES ASSUME NEW s \in Sockets
               PROVE  wire[s] \in Seq(Heard(s)')
    BY <2>2
  <2> DEFINE n == Len(wire[s])
             H == Heard(s)'
             f == [k \in 1..n |-> wire[s][k]]
  <2>5. wire[s] \in Seq(Heard(s))
    BY <1>0
  <2>6. n \in Nat /\ wire[s] = f
    BY <2>5, LenProperties
  <2>7. \A k \in 1..n : wire[s][k] \in H
    BY <2>4, <2>5, ElementOfSeq
  <2> HIDE DEF n, H
  <2>8. f \in Seq(H)
    BY <2>6, <2>7, IsASeq
  <2> QED
    BY <2>6, <2>8 DEF H
<1>5. ASSUME NEW t \in Sockets, ClientQuits(t)
      PROVE  \A s \in Sockets : wire'[s] \in Seq(Heard(s)')
  <2>1. /\ wire'[t] = <<>>
        /\ \A s \in Sockets : s # t => wire'[s] = wire[s] /\ view'[s] = view[s]
    BY <1>0, <1>5 DEF ClientQuits, ClientGone
  <2>2. \A s \in Sockets : s # t => Heard(s)' = Heard(s)
    BY <2>1 DEF Heard
  <2>3. \A S : <<>> \in Seq(S)
    BY EmptySeq
  <2> QED
    BY <1>0, <2>1, <2>2, <2>3
<1>6. ASSUME NEW t \in Sockets, ClientDies(t)
      PROVE  FALSE
  BY <1>6 DEF ClientDies, Orderly
<1>7. ASSUME NEW i \in Slots, ServeSlot(i)
      PROVE  UNCHANGED <<wire, view>>
  BY <1>7 DEF ServeSlot, RecvData, RecvZero, RecvReset, clientVars
<1>8. CASE UNCHANGED <<wire, view>>
  BY <1>8, <1>b
<1>9. ASSUME NEW t \in Sockets, ClientMenu(t)
      PROVE  UNCHANGED <<wire, view>>
  BY <1>9 DEF ClientMenu, Send
<1> QED
  BY <1>1, <1>2, <1>3, <1>4, <1>5, <1>6, <1>7, <1>8, <1>9
     DEF Next, vars, AuthThread, AuthStart, AuthConnect, StartsUp, AuthFind, AuthStore, AuthServe,
         LinkFails, SelectFails, AcceptIntoSlot, AcceptWithoutSlot, Connected, clientVars

\* The invariant holds from the start and stays.
LEMMA PoliteInit == Init => PoliteInv
<1> SUFFICES ASSUME Init
             PROVE  PoliteInv
  OBVIOUS
<1>1. \A s \in Sockets : Pending(s) = <<>>
  BY DEF Init, Pending
<1>2. PendingLeads
  <2>1. \A r : Leads(<<>>, r, 0, 0)
    BY LeadsEmpty
  <2> QED
    BY <1>1, <2>1 DEF PendingLeads, Init
<1>3. UntouchedStays
  <2>1. 1..Len(<<>>) = {}
    BY EmptySeq
  <2> QED
    BY <1>1, <2>1 DEF UntouchedStays, Init
<1>4. HearsOnlyRoomsItJoined
  <2>1. DOMAIN <<>> = {}
    OBVIOUS
  <2> QED
    BY <2>1 DEF HearsOnlyRoomsItJoined, Init
<1> QED
  BY <1>2, <1>3, <1>4 DEF PoliteInv, Init, HandlerHasAll, BuffersDrained, LeftNothing

LEMMA PoliteStep ==
    ASSUME Orderly
    PROVE  Known /\ TypeOK' /\ PoliteInv /\ [Next]_vars => PoliteInv'
<1> SUFFICES ASSUME Known, TypeOK', PoliteInv, [Next]_vars
             PROVE  PoliteInv'
  OBVIOUS
<1>1. HandlerHasAll' /\ LeftNothing' /\ PendingLeads' /\ UntouchedStays'
  BY AgreeStep
<1>2. \A s \in Sockets : wire'[s] \in Seq(Heard(s)')
  BY HearsStep
<1>3. HearsOnlyRoomsItJoined'
  <2>1. ASSUME NEW s \in Sockets, NEW k \in DOMAIN wire'[s]
        PROVE  wire'[s][k] \in Heard(s)'
    <3>1. DOMAIN wire'[s] = 1..Len(wire'[s])
      BY <1>2
    <3> QED
      BY <1>2, <3>1, ElementOfSeq
  <2> QED
    BY <2>1 DEF HearsOnlyRoomsItJoined, Heard
<1> QED
  BY <1>1, <1>3 DEF PoliteInv

LEMMA KnownCorrect == Spec => []Known
<1>1. Spec => []TypeOK
  BY TypeCorrect
<1>2. Spec => []SlotsHoldDistinctOpenSockets
  BY SlotsCorrect
<1>3. Spec => []NoOrphanMembers
  BY RoomsCorrect
<1>4. Spec => []IdleUnlessOpen
  BY <1>1, SessionInit, IdleStep, PTL DEF Spec
<1> QED
  BY <1>1, <1>2, <1>3, <1>4, PTL DEF Known

LEMMA PoliteCorrect ==
    ASSUME Orderly
    PROVE  Spec => []PoliteInv
<1>1. Spec => []Known
  BY KnownCorrect
<1>2. Spec => []TypeOK
  BY TypeCorrect
<1>3. Known /\ TypeOK' /\ PoliteInv /\ [Next]_vars => PoliteInv'
  BY PoliteStep
<1> QED
  BY <1>1, <1>2, <1>3, PoliteInit, PTL DEF Spec

\* Of orderly clients, whatever recv returns together: handleMessage goes on
\* until the buffer of the slot is empty.
THEOREM DrainsCorrect ==
    ASSUME Orderly
    PROVE  Spec => []BuffersDrained
<1>1. PoliteInv => BuffersDrained
  BY DEF PoliteInv, HandlerHasAll
<1> QED
  BY <1>1, PoliteCorrect, PTL

\* A connection never hears of a room its own user did not join, though its
\* handle was another's before.
THEOREM HearsCorrect ==
    ASSUME Orderly
    PROVE  Spec => []HearsOnlyRoomsItJoined
<1>1. PoliteInv => HearsOnlyRoomsItJoined
  BY DEF PoliteInv
<1> QED
  BY <1>1, PoliteCorrect, PTL

\* When all it sent is handled, a client is in the rooms its user thinks it is
\* in, once in each.
THEOREM ViewsCorrect ==
    ASSUME Orderly
    PROVE  Spec => []ViewsAgree
<1>1. Known /\ PoliteInv => ViewsAgree
  <2> SUFFICES ASSUME Known, PoliteInv, NEW i \in Slots, NEW r \in Rooms,
                      clientSockets[i] # NoSocket, conn[clientSockets[i]] = "open",
                      inbox[clientSockets[i]] = <<>>, recvBuffer[i] = <<>>
               PROVE  members[r][clientSockets[i]] =
                         IF view[clientSockets[i]][r] = "in" THEN 1 ELSE 0
    BY DEF ViewsAgree
  <2> DEFINE s == clientSockets[i]
  <2>1. s \in Sockets
    BY DEF Known, TypeOK
  <2>2. Pending(s) = <<>>
    <3>1. CASE handling # NoSlot /\ Handler = s
      <4>1. handling = i
        BY <2>1, <3>1 DEF Known, TypeOK, SlotsHoldDistinctOpenSockets, Handler
      <4> QED
        BY <3>1, <4>1 DEF PoliteInv, HandlerHasAll
    <3>2. CASE ~(handling # NoSlot /\ Handler = s)
      BY <3>2 DEF Pending
    <3> QED
      BY <3>1, <3>2
  <2> HIDE DEF s
  <2>3. PICK b \in {0, 1} :
          /\ Leads(<<>>, r, members[r][s], b)
          /\ conn[s] = "open" => (b = 1 <=> view[s][r] = "in")
    BY <2>1, <2>2 DEF PoliteInv, PendingLeads
  <2>4. members[r][s] = b
    BY <2>3, LeadsEmpty
  <2> QED
    BY <2>3, <2>4 DEF s
<1> QED
  BY <1>1, KnownCorrect, PoliteCorrect, PTL

-----------------------------------------------------------------------------
(***************************************************************************)
(* What JoinTakesEffect rests on: until a join has taken effect, its       *)
(* packet is under way.                                                    *)
(***************************************************************************)

\* A set of natural numbers has a least one.
LEMMA LeastOf ==
    ASSUME NEW T, T \subseteq Nat, T # {}
    PROVE  \E x \in T : \A y \in T : ~(y < x)
<1> DEFINE R == OpToRel(<, Nat)
<1>1. IsWellFoundedOn(R, Nat)
  BY NatLessThanWellFounded
<1>2. \A x, y \in Nat : x < y <=> <<x, y>> \in R
  BY DEF OpToRel
<1> HIDE DEF R
<1>3. PICK x \in T : \A y \in T : ~ (<<y, x>> \in R)
  BY <1>1, WFMin
<1> QED
  BY <1>2, <1>3

\* Packets that lead somewhere else: the first of them that arrives there does
\* the move.
LEMMA LeadsElsewhere ==
    ASSUME NEW S, NEW q \in Seq(S), NEW r, NEW a, NEW b, Leads(q, r, a, b), a # b
    PROVE  \E k \in 1..Len(q) : Moves(q[k], r, a, b)
<1>1. Len(q) \in Nat
  BY LenProperties
<1>2. PICK m \in [0..Len(q) -> {0, 1}] :
        /\ m[0] = a /\ m[Len(q)] = b
        /\ \A k \in 1..Len(q) : Moves(q[k], r, m[k - 1], m[k])
  BY DEF Leads
<1> DEFINE T == {k \in 0..Len(q) : m[k] = b}
<1>3. T \subseteq Nat /\ T # {}
  BY <1>1, <1>2
<1>4. PICK k \in T : \A j \in T : ~(j < k)
  BY <1>3, LeastOf
<1>5. k \in 0..Len(q) /\ m[k] = b /\ k # 0
  BY <1>2, <1>4
<1>6. k \in 1..Len(q) /\ k - 1 \in 0..Len(q) /\ k - 1 < k
  BY <1>1, <1>5
<1>7. m[k - 1] # b
  BY <1>4, <1>6
<1>8. a \in {0, 1} /\ b \in {0, 1} /\ m[k - 1] \in {0, 1}
  BY <1>1, <1>2, <1>6
<1>9. m[k - 1] = a
  BY <1>7, <1>8
<1> QED
  BY <1>2, <1>5, <1>6, <1>9

\* What the user of a connection did about a room and the server has not yet
\* taken in is in a packet of that connection: none is lost between the client
\* and the room.
CommandsUnderWay ==
    \A s \in Sockets, r \in Rooms :
        conn[s] = "open" =>
            /\ view[s][r] = "in" =>
                 members[r][s] = 1 \/ Some(Pending(s), [type: {"join"}, room: {r}])
            /\ view[s][r] = "left" =>
                 members[r][s] = 0 \/ Some(Pending(s), [type: {"leave"}, room: {r}])

LEMMA CommandsFollow == Known /\ PoliteInv => CommandsUnderWay
<1> SUFFICES ASSUME Known, PoliteInv, NEW s \in Sockets, NEW r \in Rooms, conn[s] = "open"
             PROVE  /\ view[s][r] = "in" =>
                         members[r][s] = 1 \/ Some(Pending(s), [type: {"join"}, room: {r}])
                    /\ view[s][r] = "left" =>
                         members[r][s] = 0 \/ Some(Pending(s), [type: {"leave"}, room: {r}])
  BY DEF CommandsUnderWay
<1>1. TypeOK
  BY DEF Known
<1>2. Pending(s) \in Seq(ClientMsgs)
  BY <1>1, PendingType
<1>3. PICK b \in {0, 1} : Leads(Pending(s), r, members[r][s], b) /\ (b = 1 <=> view[s][r] = "in")
  BY DEF PoliteInv, PendingLeads
<1>4. members[r][s] \in {0, 1}
  <2>1. PICK m \in [0..Len(Pending(s)) -> {0, 1}] : m[0] = members[r][s]
    BY <1>3 DEF Leads
  <2>2. 0 \in 0..Len(Pending(s))
    BY <1>2, LenProperties
  <2> QED
    BY <2>1, <2>2
<1>5. CASE members[r][s] = b
  BY <1>3, <1>5
<1>6. CASE members[r][s] # b
  <2>1. PICK k \in 1..Len(Pending(s)) : Moves(Pending(s)[k], r, members[r][s], b)
    BY <1>2, <1>3, <1>6, LeadsElsewhere
  <2> DEFINE msg == Pending(s)[k]
  <2>2. msg \in ClientMsgs /\ k \in DOMAIN Pending(s)
    BY <1>2, ElementOfSeq, LenProperties
  <2>3. msg.type = (IF b = 1 THEN "join" ELSE "leave") /\ msg.room = r
    BY <1>4, <1>6, <2>1 DEF Moves
  <2>4. msg \in RoomCommands
    BY <2>2, <2>3 DEF ClientMsgs, Credentials
  <2>5. msg \in [type: {msg.type}, room: {r}]
    BY <2>3, <2>4 DEF RoomCommands
  <2> HIDE DEF msg
  <2>6. CASE b = 1
    BY <1>3, <2>2, <2>3, <2>5, <2>6 DEF Some, msg
  <2>7. CASE b = 0
    BY <1>3, <2>2, <2>3, <2>5, <2>7 DEF Some, msg
  <2> QED
    BY <2>6, <2>7
<1> QED
  BY <1>5, <1>6

\* What an orderly user last did about a room, joining or leaving, has reached its
\* vector, or the packet that will do it is in the connection or in the slot's
\* buffer: the safety half of JoinTakesEffect, and the same of leaving.
THEOREM CommandsCorrect ==
    ASSUME Orderly
    PROVE  Spec => []CommandsUnderWay
  BY CommandsFollow, KnownCorrect, PoliteCorrect, PTL

-----------------------------------------------------------------------------
(***************************************************************************)
(* The server implements RoomService.  Where the link cannot fail, Winsock *)
(* stays started and every send reaches its connection.                    *)
(***************************************************************************)
LinkStays == linkUp /\ Alive /\ ~LinkStarts

LEMMA LinkInit ==
    ASSUME ~LinkMayFail
    PROVE  Init => LinkStays
  BY DEF Init, LinkStays, Alive, LinkStarts

LEMMA LinkStep ==
    ASSUME ~LinkMayFail
    PROVE  LinkStays /\ [Next]_vars => LinkStays'
<1> SUFFICES ASSUME LinkStays, [Next]_vars
             PROVE  LinkStays'
  OBVIOUS
<1> USE DEF LinkStays, Alive, LinkStarts, linkVars, authVars
<1>1. CASE HandleMessage
  BY <1>1 DEF HandleMessage, HandleLogin, HandleRegister, AskAuth, SendToAuth, HandleJoin,
     HandleSay, HandleLeave, HandleLeaveUnknown
<1>2. CASE AuthThread
  BY <1>2 DEF AuthThread, AuthStart, AuthConnect, AuthReceive, AuthFind, AuthStore
<1>3. CASE AuthServe \/ LinkFails \/ SelectFails
  BY <1>3 DEF AuthServe, LinkFails, SelectFails
<1>4. ASSUME NEW i \in Slots, ServeSlot(i)
      PROVE  LinkStays'
  BY <1>4 DEF ServeSlot, RecvData, RecvZero, RecvReset
<1>5. ASSUME NEW s \in Sockets,
             \/ \E i \in Slots : AcceptIntoSlot(s, i)
             \/ AcceptWithoutSlot(s)
      PROVE  LinkStays'
  BY <1>5 DEF AcceptIntoSlot, AcceptWithoutSlot, Connected
<1>6. ASSUME NEW s \in Sockets,
             \/ ClientMenu(s) \/ ClientReceive(s) \/ ClientCommand(s)
             \/ ClientQuits(s) \/ ClientDies(s)
      PROVE  LinkStays'
  BY <1>6 DEF ClientMenu, ClientReceive, ClientCommand, Send, ClientQuits, ClientDies, ClientGone
<1>7. CASE UNCHANGED vars
  BY <1>7 DEF vars
<1> QED
  BY <1>1, <1>2, <1>3, <1>4, <1>5, <1>6, <1>7 DEF Next

\* The refinement mapping.
Open == {s \in Sockets : conn[s] = "open"}
In   == [r \in Rooms |-> {s \in Sockets : members[r][s] > 0}]

\* A vector with each member once is told once each.
LEMMA BroadcastTells ==
    ASSUME Known, LinkStays, NEW m, NEW msg \in ServerMsgs, Broadcast(m, msg),
           \A s \in Sockets : m[s] \in {0, 1}
    PROVE  Service!Tell({s \in Sockets : m[s] > 0}, msg)
<1> DEFINE group == {s \in Sockets : m[s] > 0}
<1>1. wire' = [s \in Sockets |->
                 IF Carries(s) THEN wire[s] \o [k \in 1..m[s] |-> msg] ELSE wire[s]]
  BY DEF Broadcast
<1>2. ASSUME NEW s \in Sockets
      PROVE  (IF Carries(s) THEN wire[s] \o [k \in 1..m[s] |-> msg] ELSE wire[s])
                = IF s \in group \cap Open THEN Append(wire[s], msg) ELSE wire[s]
  <2>1. Carries(s) <=> s \in Open
    BY DEF Carries, LinkStays, Open
  <2>2. wire[s] \in Seq(ServerMsgs)
    BY DEF Known, TypeOK
  <2>3. CASE m[s] = 0
    <3>1. [k \in 1..0 |-> msg] = <<>> /\ wire[s] \o <<>> = wire[s]
      BY <2>2, ConcatEmptySeq
    <3> QED
      BY <2>1, <2>3, <3>1
  <2>4. CASE m[s] = 1
    <3>1. [k \in 1..1 |-> msg] = <<msg>>
      OBVIOUS
    <3>2. wire[s] \o <<msg>> = Append(wire[s], msg)
      BY <2>2, AppendIsConcat
    <3>3. s \in group
      BY <2>4
    <3> HIDE DEF group
    <3> QED
      BY <2>1, <2>4, <3>1, <3>2, <3>3
  <2> QED
    BY <2>3, <2>4
<1>3. wire' = [s \in Sockets |->
                 IF s \in group \cap Open THEN Append(wire[s], msg) ELSE wire[s]]
  BY <1>1, <1>2
<1> QED
  BY <1>3 DEF Service!Tell, Open

\* Of polite clients the map holds nobody twice.
LEMMA OnceInRoom ==
    ASSUME Known, PoliteInv, NEW r \in Rooms, NEW s \in Sockets
    PROVE  members[r][s] \in {0, 1}
<1>1. Pending(s) \in Seq(ClientMsgs)
  BY PendingType DEF Known
<1>2. PICK b \in {0, 1} : Leads(Pending(s), r, members[r][s], b)
  BY DEF PoliteInv, PendingLeads
<1> QED
  BY <1>1, <1>2, LeadsFrom

ServiceStep == [Service!Next]_(Service!vars)

LEMMA ServiceSame ==
    ASSUME UNCHANGED <<conn, members, wire>>
    PROVE  ServiceStep
  BY DEF ServiceStep, Service!vars

\* These are steps of the service.
LEMMA ServiceSteps ==
    /\ \A p \in Sockets : Service!Forget(p) => ServiceStep
    /\ \A p \in Sockets, name \in Names, r \in Rooms :
          Service!Join(p, name, r) \/ Service!Leave(p, name, r) => ServiceStep
  BY DEF ServiceStep, Service!Next

LEMMA HandlersServe ==
    ASSUME Known, PoliteInv, LinkStays, HandleMessage
    PROVE  ServiceStep
<1> DEFINE R == Packet.room
<1>0. handling # NoSlot /\ recvBuffer[handling] # <<>>
  BY DEF HandleMessage, HandleLogin, HandleRegister, AskAuth, HandleJoin, HandleSay,
     HandleLeave, HandleLeaveUnknown, Handling
<1>1. /\ Handler \in Sockets
      /\ Packet.type \in {"join", "say", "leave"} => R \in Rooms
      /\ members \in [Rooms -> [Sockets -> Nat]]
  BY <1>0, PacketType DEF Known, TypeOK
<1>2. HandleJoin \/ HandleSay \/ HandleLeave =>
         /\ R \in Rooms /\ NameOf(Handler) \in Names /\ UNCHANGED conn
         /\ \A type \in {"joined", "said", "left"} :
               /\ Notice(type) \in ServerMsgs
               /\ Notice(type) = Service!Notice(type, NameOf(Handler), R)
  <2> SUFFICES ASSUME HandleJoin \/ HandleSay \/ HandleLeave
               PROVE  /\ R \in Rooms /\ NameOf(Handler) \in Names /\ UNCHANGED conn
                      /\ \A type \in {"joined", "said", "left"} :
                            /\ Notice(type) \in ServerMsgs
                            /\ Notice(type) = Service!Notice(type, NameOf(Handler), R)
    OBVIOUS
  <2>1. R \in Rooms /\ NameLookup(Handler) /\ UNCHANGED conn
    BY <1>1 DEF HandleJoin, HandleSay, HandleLeave, Handling
  <2>2. NameOf(Handler) \in Names
    BY <1>1, <2>1, NameLookupType DEF Known
  <2> QED
    BY <2>1, <2>2, NoticeType DEF Known, Notice, Service!Notice
<1>3. \A r \in Rooms, s \in Sockets : members[r][s] \in {0, 1}
  BY OnceInRoom
<1>4. Moves(Packet, R, members[R][Handler], 1) \/ Moves(Packet, R, members[R][Handler], 0)
      \/ R \notin Rooms
  BY <1>0, PacketMoves
<1>5. CASE HandleJoin
  <2>1. /\ Broadcast(members'[R], Notice("joined")) /\ Packet.type = "join"
        /\ members' = [members EXCEPT ![R][Handler] = @ + 1]
    BY <1>5 DEF HandleJoin, Handling
  <2>2. members[R][Handler] = 0
    BY <1>2, <1>4, <1>5, <2>1 DEF Moves
  <2>3. /\ members'[R][Handler] = 1
        /\ \A s \in Sockets : s # Handler => members'[R][s] = members[R][s]
        /\ \A r \in Rooms : r # R => members'[r] = members[r]
    BY <1>1, <1>2, <1>5, <2>1, <2>2
  <2> DEFINE m == members'[R]
             msg == Notice("joined")
  <2>4. (\A s \in Sockets : m[s] \in {0, 1}) /\ msg \in ServerMsgs /\ Broadcast(m, msg)
    BY <1>2, <1>3, <1>5, <2>1, <2>3
  <2>5. Service!Tell({s \in Sockets : m[s] > 0}, msg)
    <3> HIDE DEF m, msg
    <3> QED
      BY <2>4, BroadcastTells
  <2>6. In' = [In EXCEPT ![R] = @ \cup {Handler}] /\ Handler \notin In[R]
    <3>1. Handler \notin In[R]
      BY <1>2, <1>5, <2>2 DEF In
    <3>2. {s \in Sockets : members'[R][s] > 0} = {s \in Sockets : members[R][s] > 0} \cup {Handler}
      BY <1>1, <2>3
    <3>3. ASSUME NEW r \in Rooms
          PROVE  In'[r] = [In EXCEPT ![R] = @ \cup {Handler}][r]
      BY <1>2, <1>5, <2>3, <3>2 DEF In
    <3> QED
      BY <3>1, <3>3 DEF In
  <2>7. In'[R] = {s \in Sockets : m[s] > 0}
    BY <1>2, <1>5 DEF In
  <2>8. PICK p \in Sockets, name \in Names, r \in Rooms :
          p = Handler /\ name = NameOf(Handler) /\ r = R
    BY <1>1, <1>2, <1>5
  <2>9. Service!Join(p, name, r)
    <3> HIDE DEF R, m
    <3> QED
      BY <1>2, <1>5, <2>5, <2>6, <2>7, <2>8 DEF Service!Join, In
  <2> QED
    BY <2>9, ServiceSteps
<1>6. CASE HandleSay
  <2>1. Broadcast(members[R], Notice("said")) /\ UNCHANGED members
    BY <1>6 DEF HandleSay
  <2> DEFINE m == members[R]
             msg == Notice("said")
  <2>2. (\A s \in Sockets : m[s] \in {0, 1}) /\ msg \in ServerMsgs /\ Broadcast(m, msg)
    BY <1>2, <1>3, <1>6, <2>1
  <2>3. Service!Tell({s \in Sockets : m[s] > 0}, msg)
    <3> HIDE DEF m, msg
    <3> QED
      BY <2>2, BroadcastTells
  <2>4. In[R] = {s \in Sockets : m[s] > 0}
    BY <1>2, <1>6 DEF In
  <2>5. Service!Say(NameOf(Handler), R)
    <3> HIDE DEF R, m
    <3> QED
      BY <1>2, <1>6, <2>1, <2>3, <2>4 DEF Service!Say, In
  <2> QED
    BY <1>1, <1>2, <1>6, <2>5 DEF ServiceStep, Service!Next
<1>7. CASE HandleLeave
  <2>1. /\ Broadcast(members[R], Notice("left")) /\ Packet.type = "leave"
        /\ members' = [members EXCEPT ![R] = EraseOne(@, Handler)]
    BY <1>7 DEF HandleLeave, Handling
  <2>2. members[R][Handler] = 1
    BY <1>2, <1>4, <1>7, <2>1 DEF Moves
  <2>3. /\ members'[R][Handler] = 0
        /\ \A s \in Sockets : s # Handler => members'[R][s] = members[R][s]
        /\ \A r \in Rooms : r # R => members'[r] = members[r]
    BY <1>1, <1>2, <1>7, <2>1, <2>2 DEF EraseOne
  <2> DEFINE m == members[R]
             msg == Notice("left")
  <2>4. (\A s \in Sockets : m[s] \in {0, 1}) /\ msg \in ServerMsgs /\ Broadcast(m, msg)
    BY <1>2, <1>3, <1>7, <2>1
  <2>5. Service!Tell({s \in Sockets : m[s] > 0}, msg)
    <3> HIDE DEF m, msg
    <3> QED
      BY <2>4, BroadcastTells
  <2>6. In' = [In EXCEPT ![R] = @ \ {Handler}] /\ Handler \in In[R]
    <3>1. Handler \in In[R]
      BY <1>1, <1>2, <1>7, <2>2 DEF In
    <3>2. {s \in Sockets : members'[R][s] > 0} = {s \in Sockets : members[R][s] > 0} \ {Handler}
      BY <1>1, <2>3
    <3>3. ASSUME NEW r \in Rooms
          PROVE  In'[r] = [In EXCEPT ![R] = @ \ {Handler}][r]
      BY <1>2, <1>7, <2>3, <3>2 DEF In
    <3> QED
      BY <3>1, <3>3 DEF In
  <2>7. In[R] = {s \in Sockets : m[s] > 0}
    BY <1>2, <1>7 DEF In
  <2>8. PICK p \in Sockets, name \in Names, r \in Rooms :
          p = Handler /\ name = NameOf(Handler) /\ r = R
    BY <1>1, <1>2, <1>7
  <2>9. Service!Leave(p, name, r)
    <3> HIDE DEF R, m
    <3> QED
      BY <1>2, <1>7, <2>5, <2>6, <2>7, <2>8 DEF Service!Leave, In
  <2> QED
    BY <2>9, ServiceSteps
<1>8. CASE HandleLogin \/ HandleRegister \/ HandleLeaveUnknown
  BY <1>8, ServiceSame DEF HandleLogin, HandleRegister, AskAuth, HandleLeaveUnknown
<1> QED
  BY <1>5, <1>6, <1>7, <1>8 DEF HandleMessage

\* Each step of the server is one of the service or none.
LEMMA ServeStep ==
    ASSUME Orderly, Known, PoliteInv, LinkStays, [Next]_vars
    PROVE  ServiceStep
<1>0. /\ members \in [Rooms -> [Sockets -> Nat]]
      /\ wire \in [Sockets -> Seq(ServerMsgs)]
      /\ conn \in [Sockets -> ConnStates]
  BY DEF Known, TypeOK
<1>1. ASSUME NEW t \in Sockets, Connected(t)
      PROVE  ServiceStep
  <2>1. /\ conn[t] = "free" /\ conn' = [conn EXCEPT ![t] = "open"]
        /\ UNCHANGED <<members, wire>>
    BY <1>1 DEF Connected
  <2>2. wire[t] = <<>> /\ \A r \in Rooms : members[r][t] = 0
    BY <2>1 DEF Known, IdleUnlessOpen, PoliteInv, LeftNothing
  <2>3. Open' = Open \cup {t} /\ t \notin Open
    BY <1>0, <2>1 DEF Open
  <2>4. \A r \in Rooms : t \notin In[r]
    BY <2>2 DEF In
  <2>5. UNCHANGED In
    BY <2>1 DEF In
  <2>6. Service!Begin(t)
    BY <2>1, <2>2, <2>3, <2>4, <2>5 DEF Service!Begin, Open, In
  <2> QED
    BY <2>6 DEF ServiceStep, Service!Next
<1>2. ASSUME NEW i \in Slots, RecvData(i)
      PROVE  ServiceStep
  BY <1>2, ServiceSame DEF RecvData
<1>3. ASSUME NEW i \in Slots, RecvZero(i)
      PROVE  ServiceStep
  <2> DEFINE t == clientSockets[i]
  <2>1. /\ conn[t] = "closed" /\ conn' = [conn EXCEPT ![t] = "free"] /\ t \in Sockets
        /\ UNCHANGED wire
        /\ members' = [r \in Rooms |-> EraseOne(members[r], t)]
    BY <1>3 DEF RecvZero, FreeSlot, RemoveUserOnDisconnect, Known, TypeOK
  <2>2. \A r \in Rooms, s \in Sockets : members'[r][s] = IF s = t THEN 0 ELSE members[r][s]
    BY <1>3, ZeroStep
  <2> HIDE DEF t
  <2>3. t \notin Open /\ UNCHANGED Open
    BY <1>0, <2>1 DEF Open
  <2>4. In' = [r \in Rooms |-> In[r] \ {t}]
    <3>1. ASSUME NEW r \in Rooms
          PROVE  {s \in Sockets : members'[r][s] > 0} = {s \in Sockets : members[r][s] > 0} \ {t}
      BY <2>1, <2>2
    <3> QED
      BY <3>1 DEF In
  <2>5. PICK p \in Sockets : p = t
    BY <2>1
  <2>6. Service!Forget(p)
    BY <2>1, <2>3, <2>4, <2>5 DEF Service!Forget, Open, In
  <2> QED
    BY <2>6, ServiceSteps
<1>4. ASSUME NEW i \in Slots, RecvReset(i)
      PROVE  FALSE
  <2>1. clientSockets[i] \in Sockets
    BY <1>4 DEF RecvReset, Known, TypeOK
  <2> QED
    BY <1>4, <2>1 DEF RecvReset, PoliteInv, LeftNothing
<1>5. CASE HandleMessage
  BY <1>5, HandlersServe
<1>6. CASE AuthReceive
  <2> DEFINE ans == Head(authAnswers)
  <2>1. Reply(ans.sock, ans.type) /\ UNCHANGED <<conn, members>>
    BY <1>6 DEF AuthReceive, serverVars
  <2>2. ans \in AuthAnswers
    <3>1. authAnswers # <<>> /\ authAnswers \in Seq(AuthAnswers)
      <4>1. PICK n \in 1..MaxAuthBatch : n <= Len(authAnswers)
        BY <1>6 DEF AuthReceive
      <4>2. Len(<<>>) = 0 /\ n \in Nat \ {0}
        BY EmptySeq, BoundsAssumption
      <4> QED
        BY <4>1, <4>2 DEF Known, TypeOK
    <3> QED
      BY <3>1, HeadTailProperties
  <2>3. ans.sock \in Sockets /\ ans.type \in Verdicts
    BY <2>2 DEF AuthAnswers
  <2> HIDE DEF ans
  <2>4. wire' = [s \in Sockets |->
                   IF s \in {ans.sock} \cap Open THEN Append(wire[s], [type |-> ans.type])
                   ELSE wire[s]]
    BY <1>0, <2>1, <2>3 DEF Reply, Carries, LinkStays, Open
  <2>5. UNCHANGED <<Open, In>>
    BY <2>1 DEF Open, In
  <2>6. Service!Verdict(ans.sock, ans.type)
    BY <2>4, <2>5 DEF Service!Verdict, Service!Tell, Open, In
  <2> QED
    BY <2>3, <2>6 DEF ServiceStep, Service!Next, Verdicts, Service!Verdicts
<1>7. CASE \/ AuthStart \/ AuthConnect \/ AuthFind \/ AuthStore \/ AuthServe
           \/ LinkFails \/ SelectFails
  BY <1>7, ServiceSame DEF AuthStart, AuthConnect, StartsUp, AuthFind, AuthStore, AuthServe, SelectFails,
     LinkFails, serverVars
<1>8. ASSUME NEW t \in Sockets, ClientMenu(t) \/ ClientCommand(t)
      PROVE  ServiceStep
  BY <1>8, ServiceSame DEF ClientMenu, ClientCommand, Send, serverVars
<1>9. ASSUME NEW t \in Sockets, ClientReceive(t)
      PROVE  ServiceStep
  <2>1. /\ wire[t] # <<>> /\ wire' = [wire EXCEPT ![t] = Tail(@)]
        /\ UNCHANGED <<conn, members>>
    BY <1>9 DEF ClientReceive, serverVars
  <2>2. UNCHANGED <<Open, In>>
    BY <2>1 DEF Open, In
  <2>3. Service!Read(t)
    BY <2>1, <2>2 DEF Service!Read, Open, In
  <2> QED
    BY <2>3 DEF ServiceStep, Service!Next
<1>10. ASSUME NEW t \in Sockets, ClientQuits(t)
       PROVE  ServiceStep
  <2>1. /\ conn[t] = "open" /\ conn' = [conn EXCEPT ![t] = "closed"]
        /\ wire' = [wire EXCEPT ![t] = <<>>] /\ UNCHANGED members
    BY <1>10 DEF ClientQuits, ClientGone, serverVars
  <2>2. Open' = Open \ {t} /\ t \in Open /\ UNCHANGED In
    BY <1>0, <2>1 DEF Open, In
  <2>3. Service!End(t)
    BY <2>1, <2>2 DEF Service!End, Open, In
  <2> QED
    BY <2>3 DEF ServiceStep, Service!Next
<1>11. ASSUME NEW t \in Sockets, ClientDies(t)
       PROVE  FALSE
  BY <1>11 DEF ClientDies, Orderly
<1>12. CASE UNCHANGED vars
  BY <1>12, ServiceSame DEF vars, serverVars
<1> QED
  BY <1>1, <1>2, <1>3, <1>4, <1>5, <1>6, <1>7, <1>8, <1>9, <1>10, <1>11, <1>12
     DEF Next, ServeSlot, AuthThread, AcceptIntoSlot, AcceptWithoutSlot

LEMMA ServeInit == Init => Service!Init
  BY DEF Init, Service!Init

\* Batches, copies, reused handles and all: to orderly clients the server is
\* the service, as long as its other server stays.
THEOREM ServiceCorrect ==
    ASSUME Orderly, ~LinkMayFail
    PROVE  Spec => ImplementsRoomService
<1>1. Spec => []Known
  BY KnownCorrect
<1>2. Spec => []PoliteInv
  BY PoliteCorrect
<1>3. Spec => []LinkStays
  BY LinkInit, LinkStep, PTL DEF Spec
<1>4. Known /\ PoliteInv /\ LinkStays /\ [Next]_vars => [Service!Next]_(Service!vars)
  BY ServeStep DEF ServiceStep
<1> QED
  BY <1>1, <1>2, <1>3, <1>4, ServeInit, PTL DEF Spec, ImplementsRoomService, Service!Spec
=============================================================================
