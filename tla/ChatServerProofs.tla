-------------------------- MODULE ChatServerProofs --------------------------
(***************************************************************************)
(* Theorems about the chat server, for every number of slots, handles,     *)
(* names, rooms and bounds.                                                *)
(***************************************************************************)
EXTENDS ChatServer, QueueLemmas, FiniteSetTheorems

-----------------------------------------------------------------------------
(***************************************************************************)
(* Queues of packets: what reading from one and writing to one leaves.     *)
(***************************************************************************)

\* The copies that one broadcast sends to one socket.
LEMMA CopiesType ==
    ASSUME NEW S, NEW msg \in S, NEW n \in Nat, NEW q \in Seq(S)
    PROVE  q \o [k \in 1..n |-> msg] \in Seq(S)
<1>1. [k \in 1..n |-> msg] \in Seq(S)
  BY IsASeq
<1> QED
  BY <1>1, ConcatProperties

\* A packet of some kind in a queue: what a read or a write leaves there.
LEMMA SomeTail ==
    ASSUME NEW T, NEW q \in Seq(T), q # <<>>, NEW S, Some(q, S), Head(q) \notin S
    PROVE  Some(Tail(q), S)
<1>1. PICK k \in DOMAIN q : q[k] \in S
  BY DEF Some
<1>2. Len(q) \in Nat /\ DOMAIN q = 1..Len(q) /\ Head(q) = q[1]
  BY LenProperties
<1>3. /\ Tail(q) \in Seq(T) /\ Len(Tail(q)) = Len(q) - 1
      /\ \A i \in 1..Len(Tail(q)) : Tail(q)[i] = q[i + 1]
  BY HeadTailProperties
<1>4. DOMAIN Tail(q) = 1..Len(Tail(q))
  BY <1>3, LenProperties
<1>5. k - 1 \in 1..Len(Tail(q)) /\ (k - 1) + 1 = k
  BY <1>1, <1>2, <1>3
<1>6. Tail(q)[k - 1] \in S
  BY <1>1, <1>3, <1>5
<1> QED
  BY <1>4, <1>5, <1>6 DEF Some

LEMMA SomeConcat ==
    ASSUME NEW T, NEW q \in Seq(T), NEW c \in Seq(T), NEW S, Some(q, S) \/ Some(c, S)
    PROVE  Some(q \o c, S)
<1> DEFINE qc == q \o c
<1>1. /\ Len(q) \in Nat /\ DOMAIN q = 1..Len(q) /\ Len(c) \in Nat /\ DOMAIN c = 1..Len(c)
  BY LenProperties
<1>2. /\ qc \in Seq(T) /\ Len(qc) = Len(q) + Len(c)
      /\ \A i \in 1..(Len(q) + Len(c)) : qc[i] = IF i <= Len(q) THEN q[i] ELSE c[i - Len(q)]
  BY ConcatProperties
<1> HIDE DEF qc
<1>3. DOMAIN qc = 1..(Len(q) + Len(c))
  BY <1>2, LenProperties
<1>4. ASSUME NEW k \in DOMAIN q, q[k] \in S
      PROVE  Some(qc, S)
  <2>1. k \in 1..(Len(q) + Len(c)) /\ k <= Len(q)
    BY <1>1, <1>4
  <2>2. qc[k] \in S
    BY <1>2, <1>4, <2>1
  <2> QED
    BY <1>3, <2>1, <2>2 DEF Some
<1>5. ASSUME NEW k \in DOMAIN c, c[k] \in S
      PROVE  Some(qc, S)
  <2>1. Len(q) + k \in 1..(Len(q) + Len(c)) /\ ~(Len(q) + k <= Len(q)) /\ (Len(q) + k) - Len(q) = k
    BY <1>1, <1>5
  <2>2. qc[Len(q) + k] \in S
    BY <1>2, <1>5, <2>1
  <2> QED
    BY <1>3, <2>1, <2>2 DEF Some
<1>6. Some(qc, S)
  BY <1>4, <1>5 DEF Some
<1> QED
  BY <1>6 DEF qc

LEMMA SomeAppend ==
    ASSUME NEW T, NEW q \in Seq(T), NEW e \in T, NEW S, Some(q, S) \/ e \in S
    PROVE  Some(Append(q, e), S)
<1>1. <<e>> \in Seq(T) /\ DOMAIN <<e>> = {1} /\ <<e>>[1] = e
  OBVIOUS
<1>2. Some(q, S) \/ Some(<<e>>, S)
  BY <1>1 DEF Some
<1>3. Some(q \o <<e>>, S)
  BY <1>1, <1>2, SomeConcat
<1> QED
  BY <1>3, AppendIsConcat

LEMMA SomeSplit ==
    ASSUME NEW T, NEW q \in Seq(T), NEW n \in Nat, n <= Len(q), NEW S, Some(q, S)
    PROVE  Some(SubSeq(q, 1, n), S) \/ Some(SubSeq(q, n + 1, Len(q)), S)
<1>1. PICK k \in DOMAIN q : q[k] \in S
  BY DEF Some
<1>2. Len(q) \in Nat /\ DOMAIN q = 1..Len(q)
  BY LenProperties
<1>3. CASE k <= n
  <2>1. /\ SubSeq(q, 1, n) \in Seq(T) /\ Len(SubSeq(q, 1, n)) = n
        /\ \A j \in 1..n : SubSeq(q, 1, n)[j] = q[j]
    BY FrontType
  <2>2. DOMAIN SubSeq(q, 1, n) = 1..n /\ k \in 1..n
    BY <1>2, <1>3, <2>1, LenProperties
  <2> QED
    BY <1>1, <2>1, <2>2 DEF Some
<1>4. CASE k > n
  <2> DEFINE r == SubSeq(q, n + 1, Len(q))
  <2>1. /\ r \in Seq(T) /\ Len(r) = (IF n + 1 <= Len(q) THEN Len(q) - (n + 1) + 1 ELSE 0)
        /\ \A j \in 1..Len(r) : r[j] = q[j + (n + 1) - 1]
    BY EndType
  <2> HIDE DEF r
  <2>2. DOMAIN r = 1..Len(r)
    BY <2>1, LenProperties
  <2>a. k \in Nat /\ k <= Len(q) /\ n + 1 <= Len(q) /\ Len(r) = Len(q) - n
    <3>1. k \in Nat /\ k <= Len(q) /\ n + 1 <= Len(q)
      BY <1>1, <1>2, <1>4
    <3>2. Len(r) = Len(q) - (n + 1) + 1
      BY <2>1, <3>1
    <3> QED
      BY <1>2, <3>1, <3>2
  <2>3. k - n \in 1..Len(r) /\ (k - n) + (n + 1) - 1 = k
    BY <1>2, <1>4, <2>a
  <2>4. r[k - n] \in S
    BY <1>1, <2>1, <2>3
  <2>5. Some(r, S)
    BY <2>2, <2>3, <2>4 DEF Some
  <2> QED
    BY <2>5 DEF r
<1> QED
  BY <1>1, <1>2, <1>3, <1>4

LEMMA SomeMiddle ==
    ASSUME NEW T, NEW q \in Seq(T), NEW n \in Nat, 1 <= n, n <= Len(q),
           NEW S, Some(q, S), Head(q) \notin S
    PROVE  Some(SubSeq(q, 2, n), S) \/ Some(SubSeq(q, n + 1, Len(q)), S)
<1> DEFINE front == SubSeq(q, 1, n)
           mid == SubSeq(q, 2, n)
<1>1. Some(front, S) \/ Some(SubSeq(q, n + 1, Len(q)), S)
  BY SomeSplit
<1>2. SUFFICES ASSUME Some(front, S)
               PROVE  Some(mid, S)
  BY <1>1
<1>3. /\ front \in Seq(T) /\ Len(front) = n
      /\ \A j \in 1..n : front[j] = q[j]
  BY FrontType
<1>4. PICK k \in 1..n : q[k] \in S
  <2>1. DOMAIN front = 1..n
    BY <1>3, LenProperties
  <2> QED
    BY <1>2, <1>3, <2>1 DEF Some
<1>5. k # 1 /\ 2 \in Int
  <2>1. Head(q) = q[1]
    OBVIOUS
  <2> QED
    BY <1>4, <2>1
<1>6. DOMAIN mid = 1..(n - 1) /\ \A j \in 1..(n - 1) : mid[j] = q[j + 1]
  <2>1. DOMAIN q = 1..Len(q) /\ Len(q) \in Nat
    BY LenProperties
  <2>2. \A j \in 2..n : q[j] \in T
    BY <2>1, ElementOfSeq
  <2>3. /\ mid \in Seq(T) /\ Len(mid) = (IF 2 <= n THEN n - 2 + 1 ELSE 0)
        /\ \A j \in 1..(n - 2 + 1) : mid[j] = q[2 + j - 1]
    BY <2>2, SubSeqProperties
  <2> HIDE DEF mid
  <2>4. Len(mid) = n - 1 /\ n - 2 + 1 = n - 1
    BY <2>3
  <2>5. DOMAIN mid = 1..(n - 1)
    BY <2>3, <2>4, LenProperties
  <2> QED
    BY <2>3, <2>4, <2>5
<1> HIDE DEF front, mid
<1>7. k - 1 \in 1..(n - 1) /\ (k - 1) + 1 = k
  BY <1>4, <1>5
<1>8. mid[k - 1] = q[k]
  BY <1>6, <1>7
<1> QED
  BY <1>4, <1>6, <1>7, <1>8 DEF Some

\* And what a read or a write cannot add.
LEMMA SomeHead ==
    ASSUME NEW T, NEW q \in Seq(T), q # <<>>, NEW S, Head(q) \in S
    PROVE  Some(q, S)
<1>1. 1 \in DOMAIN q /\ Head(q) = q[1]
  BY LenProperties, EmptySeq
<1> QED
  BY <1>1 DEF Some

LEMMA SomeInRest ==
    ASSUME NEW T, NEW q \in Seq(T), NEW k \in Nat \ {0}, NEW S, Some(SubSeq(q, k, Len(q)), S)
    PROVE  Some(q, S)
<1> DEFINE r == SubSeq(q, k, Len(q))
<1>1. /\ r \in Seq(T)
      /\ \A j \in 1..Len(r) : r[j] = q[j + k - 1] /\ j + k - 1 \in 1..Len(q)
  BY EndType
<1>2. Some(r, S)
  OBVIOUS
<1> HIDE DEF r
<1>3. DOMAIN r = 1..Len(r) /\ DOMAIN q = 1..Len(q)
  BY <1>1, LenProperties
<1>4. PICK j \in 1..Len(r) : r[j] \in S
  BY <1>2, <1>3 DEF Some
<1> QED
  BY <1>1, <1>3, <1>4 DEF Some

LEMMA SomeInTail ==
    ASSUME NEW T, NEW q \in Seq(T), q # <<>>, NEW S, Some(Tail(q), S)
    PROVE  Some(q, S)
<1>1. Tail(q) = SubSeq(q, 2, Len(q)) /\ 2 \in Nat \ {0}
  BY TailIsSubSeq
<1> QED
  BY <1>1, SomeInRest

LEMMA SomeInFront ==
    ASSUME NEW T, NEW q \in Seq(T), NEW n \in Nat, n <= Len(q), NEW S, Some(SubSeq(q, 1, n), S)
    PROVE  Some(q, S)
<1> DEFINE r == SubSeq(q, 1, n)
<1>1. r \in Seq(T) /\ Len(r) = n /\ \A j \in 1..n : r[j] = q[j]
  BY FrontType
<1>2. Some(r, S)
  OBVIOUS
<1> HIDE DEF r
<1>3. DOMAIN r = 1..n /\ DOMAIN q = 1..Len(q) /\ Len(q) \in Nat
  BY <1>1, LenProperties
<1>4. PICK j \in 1..n : r[j] \in S
  BY <1>2, <1>3 DEF Some
<1>5. j \in 1..Len(q)
  BY <1>3, <1>4
<1> QED
  BY <1>1, <1>3, <1>4, <1>5 DEF Some

LEMMA SomeInConcat ==
    ASSUME NEW T, NEW q \in Seq(T), NEW c \in Seq(T), NEW S, Some(q \o c, S)
    PROVE  Some(q, S) \/ Some(c, S)
<1> DEFINE qc == q \o c
<1>1. /\ Len(q) \in Nat /\ DOMAIN q = 1..Len(q) /\ Len(c) \in Nat /\ DOMAIN c = 1..Len(c)
  BY LenProperties
<1>2. /\ qc \in Seq(T) /\ Len(qc) = Len(q) + Len(c)
      /\ \A i \in 1..(Len(q) + Len(c)) : qc[i] = IF i <= Len(q) THEN q[i] ELSE c[i - Len(q)]
  BY ConcatProperties
<1>3. Some(qc, S)
  OBVIOUS
<1> HIDE DEF qc
<1>4. DOMAIN qc = 1..(Len(q) + Len(c))
  BY <1>2, LenProperties
<1>5. PICK i \in 1..(Len(q) + Len(c)) : qc[i] \in S
  BY <1>3, <1>4 DEF Some
<1>6. CASE i <= Len(q)
  <2>1. i \in DOMAIN q
    BY <1>1, <1>5, <1>6
  <2> QED
    BY <1>2, <1>5, <1>6, <2>1 DEF Some
<1>7. CASE ~(i <= Len(q))
  <2>1. i - Len(q) \in DOMAIN c
    BY <1>1, <1>5, <1>7
  <2> QED
    BY <1>2, <1>5, <1>7, <2>1 DEF Some
<1> QED
  BY <1>6, <1>7

LEMMA SomeInAppend ==
    ASSUME NEW T, NEW q \in Seq(T), NEW e \in T, NEW S, Some(Append(q, e), S)
    PROVE  Some(q, S) \/ e \in S
<1>1. <<e>> \in Seq(T) /\ DOMAIN <<e>> = {1} /\ <<e>>[1] = e
  OBVIOUS
<1>2. Some(q \o <<e>>, S)
  BY AppendIsConcat
<1>3. Some(q, S) \/ Some(<<e>>, S)
  BY <1>1, <1>2, SomeInConcat
<1> QED
  BY <1>1, <1>3 DEF Some

LEMMA SomeInCopies ==
    ASSUME NEW T, NEW q \in Seq(T), NEW e \in T, NEW n \in Nat, NEW S,
           Some(q \o [k \in 1..n |-> e], S)
    PROVE  Some(q, S) \/ e \in S
<1>1. [k \in 1..n |-> e] \in Seq(T)
  BY IsASeq
<1>2. Some(q, S) \/ Some([k \in 1..n |-> e], S)
  BY <1>1, SomeInConcat
<1> QED
  BY <1>2 DEF Some

-----------------------------------------------------------------------------
(***************************************************************************)
(* Type correctness.                                                       *)
(***************************************************************************)

LEMMA TypeInit == Init => TypeOK
<1> SUFFICES ASSUME Init
             PROVE  TypeOK
  OBVIOUS
<1> USE DEF Init
<1>0. \A S : <<>> \in Seq(S)
  BY EmptySeq
<1>1. /\ recvBuffer \in [Slots -> Seq(ClientMsgs)]
      /\ inbox \in [Sockets -> Seq(ClientMsgs)]
      /\ wire \in [Sockets -> Seq(ServerMsgs)]
      /\ authRequests \in Seq(AuthRequests)
      /\ authAnswers \in Seq(AuthAnswers)
  BY <1>0
<1>2. /\ clientSockets \in [Slots -> Sockets \cup {NoSocket}]
      /\ connectedUsers \in [Sockets -> Names \cup {Absent}]
      /\ members \in [Rooms -> [Sockets -> Nat]]
      /\ conn \in [Sockets -> ConnStates]
      /\ view \in [Sockets -> [Rooms -> {"never", "in", "left"}]]
  BY DEF ConnStates
<1>3. /\ linkUp \in BOOLEAN
      /\ wsaRefs \in Nat
      /\ connects \in Nat /\ sends \in Nat
  <2>1. linkUp \in BOOLEAN /\ wsaRefs \in {1, 2} /\ connects = 0 /\ sends = 0
    BY Zenon
  <2> QED
    BY <2>1
<1>4. /\ handling \in Slots \cup {NoSlot}
      /\ handling # NoSlot => clientSockets[handling] \in Sockets
      /\ authStep \in {"start", "connect", "recv", "find", "store"}
      /\ authStep \in {"find", "store"} => authCur \in AuthAnswers
      /\ authCur \in AuthAnswers \cup {NoAnswer}
      /\ rooms \subseteq Rooms /\ listening \subseteq Sockets /\ chatting \subseteq Sockets
      /\ process \in {"up", "cut", "ended"}
      /\ asked \subseteq Sockets \X Emails /\ granted \subseteq Sockets \X Emails
      /\ staleLogin \subseteq Sockets /\ staleRooms \subseteq Sockets
      /\ lost \subseteq Sockets
  OBVIOUS
<1> QED
  BY <1>1, <1>2, <1>3, <1>4 DEF TypeOK

\* The packet a handler reads is well formed, and so is what it leaves.
LEMMA PacketType ==
    ASSUME TypeOK, handling # NoSlot, recvBuffer[handling] # <<>>
    PROVE  /\ Handler \in Sockets
           /\ Packet \in ClientMsgs
           /\ Packet.type \in {"login", "register"} => Packet.email \in Emails
           /\ Packet.type \in {"join", "say", "leave"} => Packet.room \in Rooms
           /\ [recvBuffer EXCEPT ![handling] = Tail(@)] \in [Slots -> Seq(ClientMsgs)]
           /\ PacketDone => (handling' # NoSlot => handling' = handling)
<1>1. Handler \in Sockets /\ handling \in Slots
  BY DEF TypeOK, Handler
<1>2. recvBuffer[handling] \in Seq(ClientMsgs)
  BY <1>1 DEF TypeOK
<1>3. Packet \in ClientMsgs /\ Tail(recvBuffer[handling]) \in Seq(ClientMsgs)
  BY <1>2, HeadTailProperties DEF Packet
<1>4. /\ Packet.type \in {"login", "register"} => Packet.email \in Emails
      /\ Packet.type \in {"join", "say", "leave"} => Packet.room \in Rooms
  BY <1>3 DEF ClientMsgs, Credentials, RoomCommands
<1>5. [recvBuffer EXCEPT ![handling] = Tail(@)] \in [Slots -> Seq(ClientMsgs)]
  BY <1>1, <1>3 DEF TypeOK
<1>6. PacketDone => (handling' # NoSlot => handling' = handling)
  BY DEF PacketDone
<1> QED
  BY <1>1, <1>3, <1>4, <1>5, <1>6

\* operator[] and send, as the handlers and the authentication thread use them.
LEMMA NameLookupType ==
    ASSUME TypeOK, NEW s \in Sockets, NameLookup(s)
    PROVE  /\ connectedUsers' \in [Sockets -> Names \cup {Absent}]
           /\ NameOf(s) \in Names
  BY DEF TypeOK, NameLookup, NameOf, Names

LEMMA BroadcastType ==
    ASSUME TypeOK, NEW m \in [Sockets -> Nat], NEW msg \in ServerMsgs, Broadcast(m, msg)
    PROVE  wire' \in [Sockets -> Seq(ServerMsgs)]
<1>1. ASSUME NEW s \in Sockets
      PROVE  wire[s] \o [k \in 1..m[s] |-> msg] \in Seq(ServerMsgs)
  <2>1. wire[s] \in Seq(ServerMsgs) /\ m[s] \in Nat
    BY DEF TypeOK
  <2> QED
    BY <2>1, CopiesType
<1> QED
  BY <1>1 DEF TypeOK, Broadcast

LEMMA NoticeType ==
    ASSUME TypeOK, NEW type \in {"joined", "said", "left"}, NameOf(Handler) \in Names,
           Packet.room \in Rooms
    PROVE  Notice(type) \in ServerMsgs
  BY DEF Notice, ServerMsgs, RoomNotices

LEMMA ReplyType ==
    ASSUME TypeOK, NEW s \in Sockets, NEW v \in Verdicts, Reply(s, v)
    PROVE  wire' \in [Sockets -> Seq(ServerMsgs)]
<1>1. [type |-> v] \in ServerMsgs
  BY DEF ServerMsgs
<1>2. wire[s] \in Seq(ServerMsgs)
  BY DEF TypeOK
<1>3. Append(wire[s], [type |-> v]) \in Seq(ServerMsgs)
  BY <1>1, <1>2, AppendProperties
<1> QED
  BY <1>3 DEF TypeOK, Reply

LEMMA AnswersType ==
    ASSUME NEW req \in AuthRequests, NEW v \in VerdictsOn(req)
    PROVE  AnswersTo(req, v) \in Seq(AuthAnswers)
<1>1. v \in Seq(Verdicts)
  <2>1. /\ "authOk" \in Verdicts /\ "authFail" \in Verdicts
        /\ "regOk" \in Verdicts /\ "regFail" \in Verdicts
    BY DEF Verdicts
  <2>2. \A a, b, c \in Verdicts : /\ <<a>> \in Seq(Verdicts)
                               /\ <<a, b>> \in Seq(Verdicts)
                               /\ <<a, b, c>> \in Seq(Verdicts)
    OBVIOUS
  <2> QED
    BY <2>1, <2>2 DEF VerdictsOn
<1>2. /\ DOMAIN v = 1..Len(v) /\ Len(v) \in Nat
      /\ \A k \in 1..Len(v) : v[k] \in Verdicts
  BY <1>1, LenProperties, ElementOfSeq
<1>3. \A k \in 1..Len(v) : [type |-> v[k], sock |-> req.sock, email |-> req.email] \in AuthAnswers
  BY <1>2 DEF AuthRequests, AuthAnswers
<1> QED
  BY <1>2, <1>3, IsASeq DEF AnswersTo

\* The history.
LEMMA LeavesType ==
    ASSUME TypeOK, NEW s \in Sockets, NEW login, NEW memberships, Leaves(s, login, memberships)
    PROVE  staleLogin' \subseteq Sockets /\ staleRooms' \subseteq Sockets
  BY DEF TypeOK, Leaves

LEMMA EndsType ==
    ASSUME TypeOK, NEW s \in Sockets, NEW login, NEW memberships,
           EndsConnection(s, login, memberships)
    PROVE  /\ asked' \subseteq Sockets \X Emails /\ granted' \subseteq Sockets \X Emails
           /\ staleLogin' \subseteq Sockets /\ staleRooms' \subseteq Sockets
           /\ lost' \subseteq Sockets
<1>1. staleLogin' \subseteq Sockets /\ staleRooms' \subseteq Sockets
  BY LeavesType DEF EndsConnection
<1> QED
  BY <1>1 DEF TypeOK, EndsConnection

LEMMA DropsType ==
    ASSUME TypeOK, NEW q, Drops(q)
    PROVE  lost' \subseteq Sockets
  BY DEF TypeOK, Drops, Waiting

LEMMA WSACleanupType ==
    ASSUME TypeOK, WSACleanup
    PROVE  wsaRefs' \in Nat /\ process' \in {"up", "cut", "ended"}
<1>1. \A n \in Nat : (IF n = 0 THEN 0 ELSE n - 1) \in Nat
  OBVIOUS
<1> QED
  BY <1>1 DEF TypeOK, WSACleanup

LEMMA TypeStep == TypeOK /\ [Next]_vars => TypeOK'
<1> SUFFICES ASSUME TypeOK, [Next]_vars
             PROVE  TypeOK'
  OBVIOUS
<1> USE DEF serverVars, linkVars, authVars, clientVars, histVars
<1>1. ASSUME NEW s \in Sockets, NEW i \in Slots, AcceptIntoSlot(s, i)
      PROVE  TypeOK'
  <2>1. staleLogin' \subseteq Sockets /\ staleRooms' \subseteq Sockets
    BY <1>1, LeavesType DEF AcceptIntoSlot
  <2> QED
    BY <1>1, <2>1 DEF TypeOK, AcceptIntoSlot, Connected, InSelect, ConnStates
<1>2. ASSUME NEW s \in Sockets, AcceptWithoutSlot(s)
      PROVE  TypeOK'
  BY <1>2 DEF TypeOK, AcceptWithoutSlot, Connected, ConnStates
<1>3. ASSUME NEW i \in Slots, RecvData(i)
      PROVE  TypeOK'
  <2> DEFINE s == clientSockets[i]
  <2>1. s \in Sockets /\ inbox[s] \in Seq(ClientMsgs) /\ recvBuffer[i] \in Seq(ClientMsgs)
    BY <1>3 DEF RecvData, TypeOK
  <2>2. PICK n \in 1..MaxRecvBatch :
           /\ n <= Len(inbox[s])
           /\ recvBuffer' = [recvBuffer EXCEPT ![i] = @ \o SubSeq(inbox[s], 1, n)]
           /\ inbox' = [inbox EXCEPT ![s] = SubSeq(@, n + 1, Len(@))]
    BY <1>3 DEF RecvData
  <2>3. n \in Nat
    BY BoundsAssumption
  <2>4. /\ SubSeq(inbox[s], 1, n) \in Seq(ClientMsgs)
        /\ SubSeq(inbox[s], n + 1, Len(inbox[s])) \in Seq(ClientMsgs)
    BY <2>1, <2>2, <2>3, SplitType
  <2>5. recvBuffer[i] \o SubSeq(inbox[s], 1, n) \in Seq(ClientMsgs)
    BY <2>1, <2>4, ConcatProperties
  <2> HIDE DEF s
  <2>6. /\ recvBuffer' \in [Slots -> Seq(ClientMsgs)]
        /\ inbox' \in [Sockets -> Seq(ClientMsgs)]
    BY <2>1, <2>2, <2>4, <2>5 DEF TypeOK
  <2> QED
    BY <1>3, <2>1, <2>6 DEF TypeOK, RecvData, s
<1>4. ASSUME NEW i \in Slots, RecvZero(i)
      PROVE  TypeOK'
  <2>1. clientSockets[i] \in Sockets /\ handling = NoSlot
    BY <1>4 DEF RecvZero, InSelect, TypeOK
  <2>2. members' \in [Rooms -> [Sockets -> Nat]]
    BY <1>4 DEF RecvZero, RemoveUserOnDisconnect, EraseOne, TypeOK
  <2>3. /\ clientSockets' \in [Slots -> Sockets \cup {NoSocket}]
        /\ conn' \in [Sockets -> ConnStates]
        /\ connectedUsers' \in [Sockets -> Names \cup {Absent}]
    BY <1>4 DEF RecvZero, FreeSlot, RemoveUserOnDisconnect, TypeOK, ConnStates
  <2>4. /\ asked' \subseteq Sockets \X Emails /\ granted' \subseteq Sockets \X Emails
        /\ staleLogin' \subseteq Sockets /\ staleRooms' \subseteq Sockets
        /\ lost' \subseteq Sockets
    BY <1>4, <2>1, EndsType DEF RecvZero
  <2> QED
    BY <1>4, <2>1, <2>2, <2>3, <2>4 DEF TypeOK, RecvZero
<1>5. ASSUME NEW i \in Slots, RecvReset(i)
      PROVE  TypeOK'
  <2>1. handling = NoSlot
    BY <1>5 DEF RecvReset, InSelect
  <2>2. /\ clientSockets' \in [Slots -> Sockets \cup {NoSocket}]
        /\ conn' \in [Sockets -> ConnStates]
    BY <1>5 DEF RecvReset, FreeSlot, TypeOK, ConnStates
  <2>3. clientSockets[i] \in Sockets
    BY <1>5 DEF RecvReset, TypeOK
  <2>4. /\ asked' \subseteq Sockets \X Emails /\ granted' \subseteq Sockets \X Emails
        /\ staleLogin' \subseteq Sockets /\ staleRooms' \subseteq Sockets
        /\ lost' \subseteq Sockets
    BY <1>5, <2>3, EndsType DEF RecvReset
  <2> QED
    BY <1>5, <2>1, <2>2, <2>4 DEF TypeOK, RecvReset
<1>6. ASSUME NEW type \in {"login", "register"}, AskAuth(type)
      PROVE  TypeOK'
  <2>1. /\ Handler \in Sockets /\ Packet.email \in Emails
        /\ recvBuffer' \in [Slots -> Seq(ClientMsgs)]
        /\ handling' # NoSlot => handling' = handling
    BY <1>6, PacketType DEF AskAuth, Handling, PacketDone
  <2>2. [type |-> type, sock |-> Handler, email |-> Packet.email] \in AuthRequests
    BY <2>1 DEF AuthRequests
  <2>3. /\ authRequests' \in Seq(AuthRequests)
        /\ authAnswers' \in Seq(AuthAnswers)
        /\ wsaRefs' \in Nat /\ linkUp' \in BOOLEAN
        /\ process' \in {"up", "cut", "ended"} /\ lost' \subseteq Sockets
    <3> DEFINE req == [type |-> type, sock |-> Handler, email |-> Packet.email]
    <3>1. /\ Append(authRequests, req) \in Seq(AuthRequests)
          /\ <<>> \in Seq(AuthAnswers)
      BY <2>2, AppendProperties, EmptySeq DEF TypeOK
    <3>2. SendToAuth(req)
      BY <1>6 DEF AskAuth
    <3> HIDE DEF req
    <3>3. /\ authRequests' \in {authRequests, Append(authRequests, req)}
          /\ authAnswers' \in {authAnswers, <<>>}
          /\ linkUp' = linkUp
          /\ WSACleanup \/ UNCHANGED <<wsaRefs, process>>
          /\ lost' = lost \/ (\E q : Drops(q))
      BY <3>2, Zenon DEF SendToAuth
    <3>4. /\ authRequests' \in Seq(AuthRequests)
          /\ authAnswers' \in Seq(AuthAnswers)
      BY <3>1, <3>3 DEF TypeOK
    <3>5. wsaRefs' \in Nat /\ process' \in {"up", "cut", "ended"}
      BY <3>3, WSACleanupType DEF TypeOK
    <3>6. linkUp' \in BOOLEAN
      BY <3>3 DEF TypeOK
    <3>7. lost' \subseteq Sockets
      BY <3>3, DropsType DEF TypeOK
    <3> QED
      BY <3>4, <3>5, <3>6, <3>7
  <2>4. handling' \in Slots \cup {NoSlot}
    BY <2>1 DEF TypeOK
  <2> QED
    BY <1>6, <2>1, <2>3, <2>4 DEF TypeOK, AskAuth
<1>7. CASE HandleJoin
  <2>1. /\ Handler \in Sockets /\ Packet.room \in Rooms
        /\ recvBuffer' \in [Slots -> Seq(ClientMsgs)]
        /\ handling' # NoSlot => handling' = handling
    BY <1>7, PacketType DEF HandleJoin, Handling, PacketDone
  <2>2. /\ connectedUsers' \in [Sockets -> Names \cup {Absent}]
        /\ Notice("joined") \in ServerMsgs
    BY <1>7, <2>1, NameLookupType, NoticeType DEF HandleJoin
  <2>3. members' \in [Rooms -> [Sockets -> Nat]]
    BY <1>7, <2>1 DEF HandleJoin, TypeOK
  <2>4. members'[Packet.room] \in [Sockets -> Nat]
    BY <2>1, <2>3
  <2>5. wire' \in [Sockets -> Seq(ServerMsgs)]
    BY <1>7, <2>2, <2>4, BroadcastType DEF HandleJoin
  <2>6. rooms' \subseteq Rooms
    BY <1>7, <2>1 DEF HandleJoin, TypeOK
  <2>7. handling' \in Slots \cup {NoSlot}
    BY <2>1 DEF TypeOK
  <2> QED
    BY <1>7, <2>1, <2>2, <2>3, <2>5, <2>6, <2>7 DEF TypeOK, HandleJoin
<1>8. CASE HandleSay
  <2>1. /\ Handler \in Sockets /\ Packet.room \in Rooms
        /\ recvBuffer' \in [Slots -> Seq(ClientMsgs)]
        /\ handling' # NoSlot => handling' = handling
    BY <1>8, PacketType DEF HandleSay, Handling, PacketDone
  <2>2. /\ connectedUsers' \in [Sockets -> Names \cup {Absent}]
        /\ Notice("said") \in ServerMsgs
    BY <1>8, <2>1, NameLookupType, NoticeType DEF HandleSay
  <2>3. members[Packet.room] \in [Sockets -> Nat]
    BY <2>1 DEF TypeOK
  <2>4. wire' \in [Sockets -> Seq(ServerMsgs)]
    BY <1>8, <2>2, <2>3, BroadcastType DEF HandleSay
  <2>5. rooms' \subseteq Rooms
    BY <1>8, <2>1 DEF HandleSay, TypeOK
  <2>6. handling' \in Slots \cup {NoSlot}
    BY <2>1 DEF TypeOK
  <2> QED
    BY <1>8, <2>1, <2>2, <2>4, <2>5, <2>6 DEF TypeOK, HandleSay
<1>9. CASE HandleLeave
  <2>1. /\ Handler \in Sockets /\ Packet.room \in Rooms
        /\ recvBuffer' \in [Slots -> Seq(ClientMsgs)]
        /\ handling' # NoSlot => handling' = handling
    BY <1>9, PacketType DEF HandleLeave, Handling, PacketDone
  <2>2. /\ connectedUsers' \in [Sockets -> Names \cup {Absent}]
        /\ Notice("left") \in ServerMsgs
    BY <1>9, <2>1, NameLookupType, NoticeType DEF HandleLeave
  <2>3. members[Packet.room] \in [Sockets -> Nat]
    BY <2>1 DEF TypeOK
  <2>4. wire' \in [Sockets -> Seq(ServerMsgs)]
    BY <1>9, <2>2, <2>3, BroadcastType DEF HandleLeave
  <2>5. EraseOne(members[Packet.room], Handler) \in [Sockets -> Nat]
    BY <2>1, <2>3 DEF EraseOne
  <2>6. members' \in [Rooms -> [Sockets -> Nat]] /\ rooms' \subseteq Rooms
    BY <1>9, <2>1, <2>5 DEF HandleLeave, TypeOK
  <2>7. handling' \in Slots \cup {NoSlot}
    BY <2>1 DEF TypeOK
  <2> QED
    BY <1>9, <2>1, <2>2, <2>4, <2>6, <2>7 DEF TypeOK, HandleLeave
<1>10. CASE HandleLeaveUnknown
  <2>1. recvBuffer' \in [Slots -> Seq(ClientMsgs)]
    BY <1>10, PacketType DEF HandleLeaveUnknown, Handling
  <2> QED
    BY <1>10, <2>1 DEF TypeOK, HandleLeaveUnknown
<1>11. CASE AuthReceive
  <2>1. PICK n \in 1..MaxAuthBatch :
           /\ n <= Len(authAnswers)
           /\ authAnswers' = SubSeq(authAnswers, n + 1, Len(authAnswers))
           /\ Drops(SubSeq(authAnswers, 2, n))
    BY <1>11 DEF AuthReceive
  <2>2. authAnswers \in Seq(AuthAnswers) /\ n \in Nat
    BY BoundsAssumption DEF TypeOK
  <2>3. authAnswers' \in Seq(AuthAnswers)
    BY <2>1, <2>2, SplitType
  <2>4. Head(authAnswers) \in AuthAnswers
    BY <2>1, <2>2, HeadTailProperties, EmptySeq
  <2>5. Head(authAnswers).sock \in Sockets /\ Head(authAnswers).type \in Verdicts
    BY <2>4 DEF AuthAnswers
  <2>6. wire' \in [Sockets -> Seq(ServerMsgs)]
    BY <1>11, <2>5, ReplyType DEF AuthReceive
  <2>7. lost' \subseteq Sockets
    BY <2>1, DropsType
  <2> QED
    BY <1>11, <2>3, <2>4, <2>6, <2>7 DEF TypeOK, AuthReceive
<1>12. CASE AuthFind
  BY <1>12 DEF TypeOK, AuthFind
<1>13. CASE AuthStore
  <2>1. authCur.sock \in Sockets /\ authCur.email \in Emails
    BY <1>13 DEF AuthStore, TypeOK, AuthAnswers
  <2>2. connectedUsers' \in [Sockets -> Names \cup {Absent}]
    BY <1>13, <2>1 DEF AuthStore, TypeOK, Names
  <2> QED
    BY <1>13, <2>2 DEF TypeOK, AuthStore
<1>14. CASE AuthServe
  <2> DEFINE req == Head(authRequests)
  <2>1. PICK n \in 1..MaxAuthBatch :
           /\ n <= Len(authRequests)
           /\ authRequests' = SubSeq(authRequests, n + 1, Len(authRequests))
           /\ Drops(SubSeq(authRequests, 2, n))
    BY <1>14 DEF AuthServe
  <2>2. authRequests \in Seq(AuthRequests) /\ n \in Nat
    BY BoundsAssumption DEF TypeOK
  <2>3. authRequests' \in Seq(AuthRequests)
    BY <2>1, <2>2, SplitType
  <2>4. req \in AuthRequests
    BY <2>1, <2>2, HeadTailProperties, EmptySeq
  <2>5. PICK v \in VerdictsOn(req) :
           /\ authAnswers' = authAnswers \o AnswersTo(req, v)
           /\ granted' = IF Accepts(v)
                         THEN granted \cup (asked \cap {<<req.sock, req.email>>})
                         ELSE granted
    BY <1>14 DEF AuthServe
  <2>6. authAnswers' \in Seq(AuthAnswers)
    <3>1. AnswersTo(req, v) \in Seq(AuthAnswers) /\ authAnswers \in Seq(AuthAnswers)
      BY <2>4, AnswersType DEF TypeOK
    <3> QED
      BY <2>5, <3>1, ConcatProperties
  <2>7. granted' \subseteq Sockets \X Emails
    BY <2>5 DEF TypeOK
  <2>8. lost' \subseteq Sockets
    BY <2>1, DropsType
  <2> QED
    BY <1>14, <2>3, <2>6, <2>7, <2>8 DEF TypeOK, AuthServe
<1>15. CASE LinkFails
  <2>1. authRequests' \in Seq(AuthRequests)
    BY <1>15, EmptySeq DEF LinkFails
  <2>2. lost' \subseteq Sockets
    BY <1>15, DropsType DEF LinkFails
  <2> QED
    BY <1>15, <2>1, <2>2 DEF TypeOK, LinkFails
<1>16. ASSUME NEW s \in Sockets, ClientMenu(s)
       PROVE  TypeOK'
  <2>1. PICK type \in Requests, e \in Emails :
           /\ Send(s, [type |-> type, email |-> e])
           /\ asked' = IF type = "login" THEN asked \cup {<<s, e>>} ELSE asked
    BY <1>16 DEF ClientMenu
  <2>2. [type |-> type, email |-> e] \in ClientMsgs
    BY BoundsAssumption DEF ClientMsgs, Credentials
  <2>3. inbox' \in [Sockets -> Seq(ClientMsgs)]
    BY <2>1, <2>2, AppendProperties DEF Send, TypeOK
  <2>4. asked' \subseteq Sockets \X Emails
    BY <2>1 DEF TypeOK
  <2> QED
    BY <1>16, <2>1, <2>3, <2>4 DEF TypeOK, ClientMenu, Send
<1>17. ASSUME NEW s \in Sockets, ClientReceive(s)
       PROVE  TypeOK'
  <2>1. wire' \in [Sockets -> Seq(ServerMsgs)]
    BY <1>17, HeadTailProperties DEF ClientReceive, TypeOK
  <2> QED
    BY <1>17, <2>1 DEF TypeOK, ClientReceive
<1>18. ASSUME NEW s \in Sockets, ClientCommand(s)
       PROVE  TypeOK'
  <2>1. PICK type \in {"join", "say", "leave"}, r \in Rooms :
           /\ Send(s, [type |-> type, room |-> r])
           /\ view' = [view EXCEPT ![s][r] = ViewAfter(@, type)]
    BY <1>18 DEF ClientCommand
  <2>2. [type |-> type, room |-> r] \in ClientMsgs
    BY DEF ClientMsgs, RoomCommands
  <2>3. inbox' \in [Sockets -> Seq(ClientMsgs)]
    BY <2>1, <2>2, AppendProperties DEF Send, TypeOK
  <2>4. ViewAfter(view[s][r], type) \in {"never", "in", "left"}
    BY DEF ViewAfter, TypeOK
  <2>5. view' \in [Sockets -> [Rooms -> {"never", "in", "left"}]]
    BY <2>1, <2>4 DEF TypeOK
  <2>6. /\ UNCHANGED <<serverVars, connectedUsers, linkVars, authVars, conn, wire, listening,
                       chatting, connects, histVars>>
        /\ sends' = sends + 1
    BY <1>18, <2>1 DEF ClientCommand, Send
  <2>7. sends' \in Nat
    BY <2>6 DEF TypeOK
  <2> QED
    BY <2>3, <2>5, <2>6, <2>7 DEF TypeOK
<1>19. ASSUME NEW s \in Sockets, ClientQuits(s)
       PROVE  TypeOK'
  <2>1. wire' \in [Sockets -> Seq(ServerMsgs)]
    BY <1>19, EmptySeq DEF ClientQuits, ClientGone, TypeOK
  <2> QED
    BY <1>19, <2>1 DEF TypeOK, ClientQuits, ClientGone, ConnStates
<1>20. ASSUME NEW s \in Sockets, ClientDies(s)
       PROVE  TypeOK'
  <2>1. /\ wire' \in [Sockets -> Seq(ServerMsgs)]
        /\ inbox' \in [Sockets -> Seq(ClientMsgs)]
    BY <1>20, EmptySeq DEF ClientDies, ClientGone, TypeOK
  <2> QED
    BY <1>20, <2>1 DEF TypeOK, ClientDies, ClientGone, ConnStates
<1>21. CASE AuthStart
  BY <1>21 DEF TypeOK, AuthStart, StartsUp
<1>22. CASE AuthConnect
  <2>1. /\ wsaRefs' \in Nat /\ linkUp' \in BOOLEAN
        /\ process' \in {"up", "cut", "ended"}
    BY <1>22, WSACleanupType DEF TypeOK, AuthConnect
  <2> QED
    BY <1>22, <2>1 DEF TypeOK, AuthConnect, StartsUp
<1>23. CASE UNCHANGED vars
  BY <1>23 DEF TypeOK, vars
<1>24. CASE SelectFails
  BY <1>24 DEF TypeOK, SelectFails
<1> QED
  BY <1>1, <1>2, <1>3, <1>4, <1>5, <1>6, <1>7, <1>8, <1>9, <1>10, <1>11, <1>12,
     <1>13, <1>14, <1>15, <1>16, <1>17, <1>18, <1>19, <1>20, <1>21, <1>22, <1>23, <1>24
     DEF Next, ServeSlot, HandleMessage, HandleLogin, HandleRegister, AuthThread

\* The type of every variable holds in every state of every behaviour.
THEOREM TypeCorrect == Spec => []TypeOK
<1> QED
  BY TypeInit, TypeStep, PTL DEF Spec
-----------------------------------------------------------------------------
(***************************************************************************)
(* The table of slots.                                                     *)
(***************************************************************************)

LEMMA SlotsInit == Init => SlotsHoldDistinctOpenSockets
  BY DEF Init, SlotsHoldDistinctOpenSockets

LEMMA SlotsStep ==
    TypeOK /\ SlotsHoldDistinctOpenSockets /\ [Next]_vars => SlotsHoldDistinctOpenSockets'
<1> SUFFICES ASSUME TypeOK, SlotsHoldDistinctOpenSockets, [Next]_vars
             PROVE  SlotsHoldDistinctOpenSockets'
  OBVIOUS
<1> USE NamesAssumption DEF TypeOK, SlotsHoldDistinctOpenSockets, serverVars
<1>1. ASSUME NEW s \in Sockets, NEW i \in Slots, AcceptIntoSlot(s, i)
      PROVE  SlotsHoldDistinctOpenSockets'
  <2>1. /\ clientSockets' = [clientSockets EXCEPT ![i] = s]
        /\ conn' = [conn EXCEPT ![s] = "open"] /\ conn[s] = "free"
    BY <1>1 DEF AcceptIntoSlot, Connected
  <2>2. \A j \in Slots : clientSockets[j] # s
    BY <2>1
  <2> QED
    BY <2>1, <2>2
<1>2. ASSUME NEW s \in Sockets, AcceptWithoutSlot(s)
      PROVE  SlotsHoldDistinctOpenSockets'
  BY <1>2 DEF AcceptWithoutSlot, Connected
<1>3. ASSUME NEW i \in Slots, clientSockets[i] # NoSocket, FreeSlot(i)
      PROVE  SlotsHoldDistinctOpenSockets'
  BY <1>3 DEF FreeSlot
<1>4. ASSUME NEW i \in Slots, ServeSlot(i)
      PROVE  SlotsHoldDistinctOpenSockets'
  BY <1>3, <1>4 DEF ServeSlot, RecvData, RecvZero, RecvReset
<1>5. ASSUME NEW s \in Sockets, ClientQuits(s) \/ ClientDies(s)
      PROVE  SlotsHoldDistinctOpenSockets'
  BY <1>5 DEF ClientQuits, ClientDies, ClientGone
<1>6. CASE UNCHANGED <<clientSockets, conn>>
  BY <1>6
<1> QED
  BY <1>1, <1>2, <1>4, <1>5, <1>6
     DEF Next, vars, HandleMessage, HandleLogin, HandleRegister, AskAuth, HandleJoin, HandleSay,
         HandleLeave, HandleLeaveUnknown, AuthThread, AuthStart, AuthConnect, StartsUp, AuthReceive, AuthFind, AuthStore,
         AuthServe, LinkFails, SelectFails, ClientMenu, ClientReceive, ClientCommand, Send

\* Every reachable table of slots names different sockets, all of them open.
THEOREM SlotsCorrect == Spec => []SlotsHoldDistinctOpenSockets
<1>1. Spec => []TypeOK
  BY TypeCorrect
<1> QED
  BY <1>1, SlotsInit, SlotsStep, PTL DEF Spec

\* The server has a slot for every handle.
EnoughSlots == IsFiniteSet(Sockets) /\ Cardinality(Sockets) <= NumSlots

\* The select loop looks at every connection.
AllInSlots == \A s \in Sockets : conn[s] # "free" => \E i \in Slots : clientSockets[i] = s

\* Slots that are all taken hold as many handles, so none is free.
LEMMA FreeSlotLeft ==
    ASSUME EnoughSlots, TypeOK, SlotsHoldDistinctOpenSockets, NEW s \in Sockets, conn[s] = "free"
    PROVE  \E i \in Slots : clientSockets[i] = NoSocket
<1> SUFFICES ASSUME \A i \in Slots : clientSockets[i] # NoSocket
             PROVE  FALSE
  OBVIOUS
<1>1. clientSockets \in [Slots -> Sockets \ {s}]
  BY DEF TypeOK, SlotsHoldDistinctOpenSockets
<1>2. \A i, j \in Slots : clientSockets[i] = clientSockets[j] => i = j
  BY DEF SlotsHoldDistinctOpenSockets
<1>3. clientSockets \in Injection(Slots, Sockets \ {s})
  BY <1>1, <1>2 DEF Injection, IsInjective
<1>4. IsFiniteSet(Sockets \ {s}) /\ Cardinality(Sockets \ {s}) = Cardinality(Sockets) - 1
  BY FS_RemoveElement DEF EnoughSlots
<1>5. Cardinality(Slots) <= Cardinality(Sockets \ {s})
  BY <1>3, <1>4, FS_Injection
<1>6. Cardinality(Slots) = NumSlots
  BY SlotsAssumption, FS_Interval DEF Slots
<1>7. Cardinality(Sockets) \in Nat /\ Cardinality(Sockets) <= NumSlots
  BY FS_CardinalityType DEF EnoughSlots
<1> QED
  BY SlotsAssumption, <1>4, <1>5, <1>6, <1>7

LEMMA AllInSlotsStep ==
    ASSUME EnoughSlots, TypeOK, SlotsHoldDistinctOpenSockets, AllInSlots, [Next]_vars
    PROVE  AllInSlots'
<1> USE NamesAssumption DEF TypeOK, AllInSlots, serverVars
<1>1. ASSUME NEW s \in Sockets, NEW i \in Slots, AcceptIntoSlot(s, i)
      PROVE  AllInSlots'
  <2>1. /\ clientSockets' = [clientSockets EXCEPT ![i] = s] /\ clientSockets[i] = NoSocket
        /\ conn' = [conn EXCEPT ![s] = "open"]
    BY <1>1 DEF AcceptIntoSlot, Connected, IsFirstFree
  <2> QED
    BY <2>1
<1>2. ASSUME NEW s \in Sockets, AcceptWithoutSlot(s)
      PROVE  FALSE
  BY <1>2, FreeSlotLeft DEF AcceptWithoutSlot, Connected
<1>3. ASSUME NEW i \in Slots, ServeSlot(i)
      PROVE  AllInSlots'
  <2>1. CASE RecvData(i)
    BY <2>1 DEF RecvData
  <2>2. CASE clientSockets[i] # NoSocket /\ FreeSlot(i)
    BY <2>2 DEF FreeSlot
  <2> QED
    BY <1>3, <2>1, <2>2 DEF ServeSlot, RecvZero, RecvReset
<1>4. ASSUME NEW s \in Sockets, ClientQuits(s) \/ ClientDies(s)
      PROVE  AllInSlots'
  BY <1>4 DEF ClientQuits, ClientDies, ClientGone
<1>5. CASE UNCHANGED <<clientSockets, conn>>
  BY <1>5
<1> QED
  BY <1>1, <1>2, <1>3, <1>4, <1>5
     DEF Next, vars, HandleMessage, HandleLogin, HandleRegister, AskAuth, HandleJoin, HandleSay,
         HandleLeave, HandleLeaveUnknown, AuthThread, AuthStart, AuthConnect, StartsUp, AuthReceive,
         AuthFind, AuthStore, AuthServe, LinkFails, SelectFails, ClientMenu, ClientReceive, ClientCommand, Send

\* With a slot for every handle no accepted socket is forgotten, so that the loop
\* finds out about each connection that ends: the safety half of
\* CloseReclaimsSlot.
THEOREM NobodyForgotten ==
    ASSUME EnoughSlots
    PROVE  Spec => []AllInSlots
<1>1. Init => AllInSlots
  BY DEF Init, AllInSlots
<1>2. TypeOK /\ SlotsHoldDistinctOpenSockets /\ AllInSlots /\ [Next]_vars => AllInSlots'
  BY AllInSlotsStep
<1> QED
  BY <1>1, <1>2, TypeCorrect, SlotsCorrect, PTL DEF Spec
-----------------------------------------------------------------------------
(***************************************************************************)
(* Rooms.                                                                  *)
(***************************************************************************)

LEMMA OrphansInit == Init => NoOrphanMembers
  BY DEF Init, NoOrphanMembers, IsEmptyRoom

LEMMA OrphansStep == TypeOK /\ NoOrphanMembers /\ [Next]_vars => NoOrphanMembers'
<1> SUFFICES ASSUME TypeOK, NoOrphanMembers, [Next]_vars
             PROVE  NoOrphanMembers'
  OBVIOUS
<1> USE DEF TypeOK, NoOrphanMembers, IsEmptyRoom
<1>1. ASSUME NEW i \in Slots, RecvZero(i)
      PROVE  NoOrphanMembers'
  BY <1>1 DEF RecvZero, RemoveUserOnDisconnect, EraseOne
<1>2. CASE HandleJoin
  BY <1>2 DEF HandleJoin
<1>3. CASE HandleSay
  BY <1>3 DEF HandleSay
<1>4. CASE HandleLeave
  <2>1. /\ members' = [members EXCEPT ![Packet.room] = EraseOne(@, Handler)]
        /\ rooms' = IF DropsRoom(Packet.room, members'[Packet.room])
                    THEN rooms \ {Packet.room} ELSE rooms
        /\ Packet.room \in rooms
    BY <1>4 DEF HandleLeave
  <2> QED
    BY <2>1 DEF DropsRoom
<1>5. CASE UNCHANGED <<rooms, members>>
  BY <1>5
<1> QED
  BY <1>1, <1>2, <1>3, <1>4, <1>5
     DEF Next, vars, serverVars, ServeSlot, HandleMessage, HandleLogin, HandleRegister, AskAuth,
         HandleLeaveUnknown, AuthThread, AuthStart, AuthConnect, StartsUp, AuthReceive, AuthFind, AuthStore,
         AuthServe, LinkFails, SelectFails, AcceptIntoSlot, AcceptWithoutSlot, Connected, RecvData, RecvReset,
         ClientMenu, ClientReceive, ClientCommand, ClientQuits, ClientDies, ClientGone, Send

\* No reachable roomUserMap has lost a room with somebody in it.
THEOREM RoomsCorrect == Spec => []NoOrphanMembers
<1>1. Spec => []TypeOK
  BY TypeCorrect
<1> QED
  BY <1>1, OrphansInit, OrphansStep, PTL DEF Spec

LEMMA OwnedStep ==
    TypeOK /\ [Next]_vars =>
        \A r \in Rooms, s \in Sockets :
            members'[r][s] # members[r][s] =>
               \/ handling # NoSlot /\ clientSockets[handling] = s
               \/ conn[s] = "closed" /\ conn'[s] = "free"
<1> SUFFICES ASSUME TypeOK, [Next]_vars, NEW r \in Rooms, NEW s \in Sockets,
                    members'[r][s] # members[r][s]
             PROVE  \/ handling # NoSlot /\ clientSockets[handling] = s
                    \/ conn[s] = "closed" /\ conn'[s] = "free"
  OBVIOUS
<1> USE DEF TypeOK
<1>1. ASSUME NEW i \in Slots, RecvZero(i)
      PROVE  conn[s] = "closed" /\ conn'[s] = "free"
  <2>1. members'[r] = EraseOne(members[r], clientSockets[i])
    BY <1>1 DEF RecvZero, RemoveUserOnDisconnect
  <2>2. s = clientSockets[i]
    BY <2>1 DEF EraseOne
  <2> QED
    BY <1>1, <2>2 DEF RecvZero, FreeSlot
<1>2. CASE HandleJoin \/ HandleLeave
  <2>1. handling # NoSlot
    BY <1>2 DEF HandleJoin, HandleLeave, Handling
  <2>2. CASE members' = [members EXCEPT ![Packet.room][Handler] = @ + 1]
    <3>1. s = Handler
      BY <2>2
    <3> QED
      BY <2>1, <3>1 DEF Handler
  <2>3. CASE members' = [members EXCEPT ![Packet.room] = EraseOne(@, Handler)]
    <3>1. members'[r] \in {members[r], EraseOne(members[r], Handler)}
      BY <2>3
    <3>2. s = Handler
      BY <3>1 DEF EraseOne
    <3> QED
      BY <2>1, <3>2 DEF Handler
  <2> QED
    BY <1>2, <2>2, <2>3 DEF HandleJoin, HandleLeave
<1>3. CASE UNCHANGED members
  BY <1>3
<1> QED
  BY <1>1, <1>2, <1>3
     DEF Next, vars, serverVars, ServeSlot, HandleMessage, HandleLogin, HandleRegister, AskAuth,
         HandleSay, HandleLeaveUnknown, AuthThread, AuthStart, AuthConnect, StartsUp, AuthReceive, AuthFind, AuthStore,
         AuthServe, LinkFails, SelectFails, AcceptIntoSlot, AcceptWithoutSlot, Connected, RecvData, RecvReset,
         ClientMenu, ClientReceive, ClientCommand, ClientQuits, ClientDies, ClientGone, Send

\* No step moves a socket in or out of a room on another connection's account.
THEOREM OwnedCorrect == Spec => MembershipOwned
<1>1. Spec => []TypeOK
  BY TypeCorrect
<1> QED
  BY <1>1, OwnedStep, PTL DEF Spec, MembershipOwned
-----------------------------------------------------------------------------
(***************************************************************************)
(* Logins.  GrantsTravel is inductive: a login is asked for when the menu  *)
(* sends it and accepted when its answer is queued; news of both only      *)
(* moves on from there, until the connection ends.                         *)
(***************************************************************************)

LEMMA GrantsInit == Init => GrantsTravel
<1> SUFFICES ASSUME Init
             PROVE  GrantsTravel
  OBVIOUS
<1>1. \A S : ~Some(<<>>, S)
  BY DEF Some
<1>2. InboxesAsked /\ BuffersAsked /\ RequestsAsked /\ AnswersGranted /\ WiresGranted
  BY <1>1, NamesAssumption
     DEF Init, InboxesAsked, BuffersAsked, RequestsAsked, AnswersGranted, WiresGranted, Fresh
<1>3. HandGranted /\ ChattersWereGranted
  BY DEF Init, HandGranted, ChattersWereGranted
<1>4. GoneAreSilent
  BY DEF Init, GoneAreSilent
<1>5. NamesAreGranted
  BY NamesAssumption DEF Init, NamesAreGranted, Fresh
<1> QED
  BY <1>2, <1>3, <1>4, <1>5 DEF GrantsTravel

\* No step but the end of a connection takes anything out of the history.
Growing == asked \subseteq asked' /\ granted \subseteq granted' /\ staleLogin \subseteq staleLogin'

OkVerdict == [type: {"authOk"}]

BadRequests ==
    {req \in AuthRequests : /\ req.type = "login" /\ req.sock \in Fresh
                            /\ <<req.sock, req.email>> \notin asked}
BadAnswers ==
    {ans \in AuthAnswers : /\ ans.type = "authOk" /\ ans.sock \in Fresh
                           /\ ~Granted(ans.sock, ans.email)}

\* What is then left of the exceptions each part of GrantsTravel looks for.
LEMMA GrowingShrinks ==
    ASSUME Growing
    PROVE  /\ Fresh' \subseteq Fresh
           /\ \A s : Unasked(s)' \subseteq Unasked(s)
           /\ BadRequests' \subseteq BadRequests
           /\ BadAnswers' \subseteq BadAnswers
           /\ \A s, e : Granted(s, e) => Granted(s, e)'
           /\ \A s : HasLogin(s) => HasLogin(s)'
<1>1. Fresh' \subseteq Fresh
  BY DEF Growing, Fresh
<1>2. \A s, e : Granted(s, e) => Granted(s, e)'
  BY DEF Growing, Granted
<1>3. \A s : Unasked(s)' \subseteq Unasked(s)
  BY DEF Growing, Unasked
<1>4. BadRequests' \subseteq BadRequests
  BY <1>1 DEF Growing, BadRequests
<1>5. BadAnswers' \subseteq BadAnswers
  BY <1>1, <1>2 DEF BadAnswers
<1>6. \A s : HasLogin(s) => HasLogin(s)'
  BY <1>2 DEF HasLogin
<1> QED
  BY <1>1, <1>2, <1>3, <1>4, <1>5, <1>6

\* Each part survives a step that adds nothing to what it speaks of.
LEMMA InboxesKept ==
    ASSUME InboxesAsked, Growing,
           \A s \in Sockets : Some(inbox'[s], Unasked(s)') =>
                Some(inbox[s], Unasked(s)') \/ s \notin Fresh'
    PROVE  InboxesAsked'
<1>1. ASSUME NEW s \in Fresh'
      PROVE  ~Some(inbox'[s], Unasked(s)')
  <2>1. s \in Fresh /\ s \in Sockets /\ Unasked(s)' \subseteq Unasked(s)
    BY <1>1, GrowingShrinks DEF Fresh
  <2>2. ~Some(inbox[s], Unasked(s))
    BY <2>1 DEF InboxesAsked
  <2>3. ~Some(inbox[s], Unasked(s)')
    BY <2>1, <2>2 DEF Some
  <2> QED
    BY <1>1, <2>1, <2>3
<1> QED
  BY <1>1 DEF InboxesAsked, Some

LEMMA BuffersKept ==
    ASSUME BuffersAsked, Growing,
           \A i \in Slots : clientSockets'[i] \in Fresh' =>
                /\ clientSockets'[i] = clientSockets[i]
                /\ Some(recvBuffer'[i], Unasked(clientSockets[i])') =>
                      Some(recvBuffer[i], Unasked(clientSockets[i])')
    PROVE  BuffersAsked'
<1>1. ASSUME NEW i \in Slots, clientSockets'[i] \in Fresh'
      PROVE  ~Some(recvBuffer'[i], Unasked(clientSockets[i])')
  <2>1. clientSockets[i] \in Fresh /\ Unasked(clientSockets[i])' \subseteq Unasked(clientSockets[i])
    BY <1>1, GrowingShrinks
  <2>2. ~Some(recvBuffer[i], Unasked(clientSockets[i]))
    BY <2>1 DEF BuffersAsked
  <2> QED
    BY <1>1, <2>1, <2>2 DEF Some
<1> QED
  BY <1>1 DEF BuffersAsked, Unasked

LEMMA RequestsKept ==
    ASSUME RequestsAsked, Growing,
           Some(authRequests', BadRequests') => Some(authRequests, BadRequests')
    PROVE  RequestsAsked'
<1>1. ~Some(authRequests, BadRequests)
  BY DEF RequestsAsked, BadRequests
<1>2. ~Some(authRequests', BadRequests')
  BY <1>1, GrowingShrinks DEF Some
<1> QED
  BY <1>2 DEF RequestsAsked, BadRequests

LEMMA AnswersKept ==
    ASSUME AnswersGranted, Growing,
           Some(authAnswers', BadAnswers') => Some(authAnswers, BadAnswers')
    PROVE  AnswersGranted'
<1>1. ~Some(authAnswers, BadAnswers)
  BY DEF AnswersGranted, BadAnswers
<1>2. ~Some(authAnswers', BadAnswers')
  BY <1>1, GrowingShrinks DEF Some
<1> QED
  BY <1>2 DEF AnswersGranted, BadAnswers

LEMMA HandKept ==
    ASSUME TypeOK, HandGranted, Growing,
           authStep' \in {"find", "store"} => authStep' = authStep /\ authCur' = authCur,
           \A s \in Sockets : connectedUsers'[s] \in Emails => connectedUsers'[s] = connectedUsers[s]
    PROVE  HandGranted'
<1> SUFFICES ASSUME authStep' \in {"find", "store"}
             PROVE  /\ authCur'.sock \in Fresh' => Granted(authCur.sock, authCur.email)'
                    /\ authStep' = "store" => connectedUsers'[authCur'.sock] \notin Emails
  BY DEF HandGranted
<1>1. authStep' = authStep /\ authCur' = authCur
  OBVIOUS
<1>2. authCur.sock \in Sockets
  BY <1>1 DEF TypeOK, AuthAnswers
<1>3. authCur.sock \in Fresh' => Granted(authCur.sock, authCur.email)
  BY <1>1, GrowingShrinks DEF HandGranted
<1>4. authStep = "store" => connectedUsers[authCur.sock] \notin Emails
  BY DEF HandGranted
<1>5. authCur'.sock \in Fresh' => Granted(authCur.sock, authCur.email)'
  BY <1>1, <1>3 DEF Growing, Granted
<1> QED
  BY <1>1, <1>2, <1>4, <1>5

LEMMA WiresKept ==
    ASSUME WiresGranted, Growing,
           \A s \in Sockets : Some(wire'[s], OkVerdict) => Some(wire[s], OkVerdict)
    PROVE  WiresGranted'
<1>1. ASSUME NEW s \in Fresh', Some(wire'[s], OkVerdict)
      PROVE  HasLogin(s)'
  <2>1. s \in Fresh /\ s \in Sockets
    BY <1>1, GrowingShrinks DEF Fresh
  <2>2. HasLogin(s)
    BY <1>1, <2>1 DEF WiresGranted, OkVerdict
  <2> QED
    BY <2>2, GrowingShrinks
<1> QED
  BY <1>1 DEF WiresGranted, OkVerdict

LEMMA SilenceKept ==
    ASSUME GoneAreSilent, UNCHANGED conn,
           \A s \in Sockets :
               /\ conn[s] # "open" => wire'[s] = wire[s] /\ (s \in chatting' => s \in chatting)
               /\ conn[s] \in {"reset", "free"} => inbox'[s] = inbox[s]
    PROVE  GoneAreSilent'
  BY DEF GoneAreSilent

LEMMA NamesKept ==
    ASSUME NamesAreGranted, Growing,
           \A s \in Sockets : connectedUsers'[s] \in Emails => connectedUsers'[s] = connectedUsers[s]
    PROVE  NamesAreGranted'
<1>1. ASSUME NEW s \in Fresh', connectedUsers'[s] \in Emails
      PROVE  Granted(s, connectedUsers[s])'
  <2>1. s \in Fresh /\ s \in Sockets
    BY <1>1, GrowingShrinks DEF Fresh
  <2>2. connectedUsers'[s] = connectedUsers[s] /\ Granted(s, connectedUsers[s])
    BY <1>1, <2>1 DEF NamesAreGranted
  <2> QED
    BY <2>2 DEF Growing, Granted
<1> QED
  BY <1>1 DEF NamesAreGranted

LEMMA ChattersKept ==
    ASSUME ChattersWereGranted, Growing, chatting' \subseteq chatting
    PROVE  ChattersWereGranted'
<1>1. ASSUME NEW s \in chatting' \cap Fresh'
      PROVE  HasLogin(s)'
  <2>1. HasLogin(s)
    BY <1>1, GrowingShrinks DEF ChattersWereGranted
  <2> QED
    BY <2>1, GrowingShrinks
<1> QED
  BY <1>1 DEF ChattersWereGranted

\* And what a step does not touch stays as it is.
LEMMA OthersKept ==
    ASSUME TypeOK, GrantsTravel, Growing
    PROVE  /\ UNCHANGED inbox => InboxesAsked'
           /\ UNCHANGED <<clientSockets, recvBuffer>> => BuffersAsked'
           /\ UNCHANGED authRequests => RequestsAsked'
           /\ UNCHANGED authAnswers => AnswersGranted'
           /\ UNCHANGED <<authVars, connectedUsers>> => HandGranted'
           /\ UNCHANGED wire => WiresGranted'
           /\ UNCHANGED <<conn, wire, chatting, inbox>> => GoneAreSilent'
           /\ UNCHANGED connectedUsers => NamesAreGranted'
           /\ UNCHANGED chatting => ChattersWereGranted'
<1>1. /\ InboxesAsked /\ BuffersAsked /\ RequestsAsked
      /\ AnswersGranted /\ HandGranted /\ WiresGranted
      /\ GoneAreSilent /\ NamesAreGranted /\ ChattersWereGranted
  BY DEF GrantsTravel
<1>2. UNCHANGED inbox => InboxesAsked'
  BY <1>1, InboxesKept
<1>3. UNCHANGED <<clientSockets, recvBuffer>> => BuffersAsked'
  BY <1>1, BuffersKept
<1>4. UNCHANGED authRequests => RequestsAsked'
  BY <1>1, RequestsKept
<1>5. UNCHANGED authAnswers => AnswersGranted'
  BY <1>1, AnswersKept
<1>6. UNCHANGED <<authVars, connectedUsers>> => HandGranted'
  BY <1>1, HandKept DEF authVars
<1>7. UNCHANGED wire => WiresGranted'
  BY <1>1, WiresKept
<1>8. UNCHANGED <<conn, wire, chatting, inbox>> => GoneAreSilent'
  BY <1>1, SilenceKept
<1>9. UNCHANGED connectedUsers => NamesAreGranted'
  BY <1>1, NamesKept
<1>10. UNCHANGED chatting => ChattersWereGranted'
  BY <1>1, ChattersKept
<1> QED
  BY <1>2, <1>3, <1>4, <1>5, <1>6, <1>7, <1>8, <1>9, <1>10

\* A connection begins.
LEMMA AcceptGrants ==
    ASSUME TypeOK, GrantsTravel, NEW s \in Sockets,
           AcceptWithoutSlot(s) \/ \E i \in Slots : AcceptIntoSlot(s, i)
    PROVE  GrantsTravel'
<1>1. /\ Connected(s) /\ conn' = [conn EXCEPT ![s] = "open"] /\ conn[s] = "free"
      /\ UNCHANGED <<recvBuffer, connectedUsers, authRequests, authAnswers, authVars, inbox,
                     wire, chatting, asked, granted>>
  BY DEF AcceptWithoutSlot, AcceptIntoSlot, Connected, linkVars
<1>2. Growing
  BY <1>1 DEF Growing, AcceptWithoutSlot, AcceptIntoSlot, Leaves
<1>3. BuffersAsked'
  <2>1. CASE AcceptWithoutSlot(s)
    BY <1>1, <1>2, <2>1, OthersKept DEF AcceptWithoutSlot
  <2>2. ASSUME NEW i \in Slots, AcceptIntoSlot(s, i)
        PROVE  BuffersAsked'
    <3>1. /\ clientSockets' = [clientSockets EXCEPT ![i] = s]
          /\ recvBuffer[i] # <<>> => s \in staleLogin'
      BY <2>2 DEF AcceptIntoSlot, Leaves
    <3>2. ASSUME NEW j \in Slots, clientSockets'[j] \in Fresh'
          PROVE  ~Some(recvBuffer'[j], Unasked(clientSockets[j])')
      <4>1. CASE j = i
        <5>1. clientSockets'[j] = s /\ s \notin staleLogin'
          BY <3>1, <3>2, <4>1 DEF Fresh, TypeOK
        <5>2. recvBuffer'[j] = <<>>
          BY <1>1, <3>1, <4>1, <5>1
        <5> QED
          BY <5>2 DEF Some
      <4>2. CASE j # i
        <5>1. clientSockets'[j] = clientSockets[j] /\ clientSockets[j] \in Fresh
          BY <1>2, <3>1, <3>2, <4>2, GrowingShrinks DEF TypeOK
        <5>2. ~Some(recvBuffer[j], Unasked(clientSockets[j]))
          BY <5>1 DEF GrantsTravel, BuffersAsked
        <5>3. Unasked(clientSockets[j])' = Unasked(clientSockets[j])
          BY <1>1, <5>1 DEF Unasked
        <5> QED
          BY <1>1, <5>2, <5>3
      <4> QED
        BY <4>1, <4>2
    <3> QED
      BY <3>2 DEF BuffersAsked
  <2> QED
    BY <2>1, <2>2
<1>4. GoneAreSilent'
  BY <1>1 DEF GrantsTravel, GoneAreSilent, TypeOK
<1> QED
  BY <1>1, <1>2, <1>3, <1>4, OthersKept DEF GrantsTravel

\* recv moves packets from the connection to the buffer of its slot.
LEMMA RecvGrants ==
    ASSUME TypeOK, GrantsTravel, NEW i \in Slots, RecvData(i)
    PROVE  GrantsTravel'
<1> DEFINE s == clientSockets[i]
<1>1. /\ s \in Sockets /\ inbox[s] \in Seq(ClientMsgs) /\ recvBuffer[i] \in Seq(ClientMsgs)
      /\ conn[s] \in {"open", "closed"}
      /\ UNCHANGED <<clientSockets, connectedUsers, authRequests, authAnswers, authVars, conn,
                     wire, chatting, histVars>>
  BY DEF RecvData, TypeOK, linkVars, clientVars
<1>2. PICK n \in 1..MaxRecvBatch :
         /\ n <= Len(inbox[s])
         /\ recvBuffer' = [recvBuffer EXCEPT ![i] = @ \o SubSeq(inbox[s], 1, n)]
         /\ inbox' = [inbox EXCEPT ![s] = SubSeq(@, n + 1, Len(@))]
  BY DEF RecvData
<1>3. n \in Nat /\ n + 1 \in Nat \ {0} /\ SubSeq(inbox[s], 1, n) \in Seq(ClientMsgs)
  <2>1. n \in Nat
    BY BoundsAssumption
  <2> QED
    BY <1>1, <1>2, <2>1, SplitType
<1>4. Growing
  BY <1>1 DEF Growing, histVars
<1>5. InboxesAsked'
  <2>1. ASSUME NEW t \in Sockets, Some(inbox'[t], Unasked(t)')
        PROVE  Some(inbox[t], Unasked(t)')
    <3>1. CASE t = s
      <4>1. inbox'[t] = SubSeq(inbox[t], n + 1, Len(inbox[t]))
        BY <1>2, <3>1 DEF TypeOK
      <4> QED
        BY <1>1, <1>3, <2>1, <3>1, <4>1, SomeInRest
    <3>2. CASE t # s
      BY <1>2, <2>1, <3>2 DEF TypeOK
    <3> QED
      BY <3>1, <3>2
  <2> QED
    BY <1>4, <2>1, InboxesKept DEF GrantsTravel
<1>6. BuffersAsked'
  <2>0. Unasked(s)' = Unasked(s) /\ Fresh' = Fresh
    BY <1>1 DEF Unasked, Fresh, histVars
  <2>1. ASSUME NEW j \in Slots, clientSockets[j] \in Fresh
        PROVE  Some(recvBuffer'[j], Unasked(clientSockets[j])') =>
                  Some(recvBuffer[j], Unasked(clientSockets[j])')
    <3>1. CASE j = i
      <4>1. recvBuffer'[j] = recvBuffer[i] \o SubSeq(inbox[s], 1, n)
        BY <1>2, <3>1 DEF TypeOK
      <4>2. ~Some(inbox[s], Unasked(s))
        BY <2>1, <3>1 DEF GrantsTravel, InboxesAsked
      <4>3. ~Some(SubSeq(inbox[s], 1, n), Unasked(s))
        BY <1>1, <1>2, <1>3, <4>2, SomeInFront
      <4>4. Some(recvBuffer'[j], Unasked(s)) => Some(recvBuffer[i], Unasked(s))
        BY <1>1, <1>3, <4>1, <4>3, SomeInConcat
      <4> QED
        BY <1>1, <2>0, <3>1, <4>4
    <3>2. CASE j # i
      BY <1>2, <3>2 DEF TypeOK
    <3> QED
      BY <3>1, <3>2
  <2> QED
    BY <1>1, <1>4, <2>0, <2>1, BuffersKept DEF GrantsTravel
<1>7. GoneAreSilent'
  <2>1. \A t \in Sockets : conn[t] \in {"reset", "free"} => inbox'[t] = inbox[t]
    BY <1>1, <1>2 DEF TypeOK
  <2> QED
    BY <1>1, <2>1, SilenceKept DEF GrantsTravel
<1> QED
  BY <1>1, <1>4, <1>5, <1>6, <1>7, OthersKept DEF GrantsTravel

\* The end of a connection: its logins leave the history, and unless its handle
\* is set apart nothing of them is left anywhere else.
LEMMA EndGrants ==
    ASSUME TypeOK, SlotsHoldDistinctOpenSockets, GrantsTravel,
           NEW i \in Slots, RecvZero(i) \/ RecvReset(i)
    PROVE  GrantsTravel'
<1> DEFINE s == clientSockets[i]
<1>1. /\ s \in Sockets /\ conn[s] \in {"closed", "reset"}
      /\ conn' = [conn EXCEPT ![s] = "free"]
      /\ clientSockets' = [clientSockets EXCEPT ![i] = NoSocket]
      /\ UNCHANGED <<recvBuffer, authRequests, authAnswers, authVars, inbox, wire, chatting>>
  BY DEF RecvZero, RecvReset, FreeSlot, TypeOK, linkVars, clientVars
<1>2. PICK login, memberships \in BOOLEAN :
         /\ EndsConnection(s, login, memberships)
         /\ LoginAtWork(s) => login
         /\ connectedUsers'[s] \in Emails => login
  <2>1. CASE RecvZero(i)
    <3>1. connectedUsers'[s] = Absent
      BY <1>1, <2>1 DEF RecvZero, RemoveUserOnDisconnect, TypeOK
    <3>2. LoginAtWork(s) \in BOOLEAN /\ Joined(s, 2) \in BOOLEAN
      BY DEF LoginAtWork, Joined
    <3> QED
      BY <2>1, <3>1, <3>2, NamesAssumption DEF RecvZero
  <2>2. CASE RecvReset(i)
    <3>1. connectedUsers' = connectedUsers
      BY <2>2 DEF RecvReset
    <3>2. (LoginAtWork(s) \/ connectedUsers[s] \in Emails) \in BOOLEAN /\ Joined(s, 1) \in BOOLEAN
      BY DEF LoginAtWork, Joined
    <3> QED
      BY <2>2, <3>1, <3>2 DEF RecvReset
  <2> QED
    BY <2>1, <2>2
<1>3. \A t \in Sockets : connectedUsers'[t] \in Emails => connectedUsers'[t] = connectedUsers[t]
  BY <1>1, NamesAssumption DEF RecvZero, RecvReset, RemoveUserOnDisconnect, TypeOK
<1> HIDE DEF s
<1>4. inbox[s] = <<>> /\ wire[s] = <<>> /\ s \notin chatting
  <2>1. conn[s] # "open" /\ (conn[s] = "closed" => inbox[s] = <<>>)
    BY <1>1 DEF RecvZero, RecvReset, s
  <2> QED
    BY <1>1, <2>1 DEF GrantsTravel, GoneAreSilent
<1>5. s \in Fresh' => ~login
  BY <1>2 DEF EndsConnection, Leaves, Fresh
<1>6. ASSUME NEW t \in Sockets, t # s
      PROVE  /\ t \in Fresh' => t \in Fresh
             /\ \A e : (<<t, e>> \in asked <=> <<t, e>> \in asked')
                       /\ (<<t, e>> \in granted <=> <<t, e>> \in granted')
  <2>1. /\ asked' = {a \in asked : a[1] # s}
        /\ granted' = {g \in granted : g[1] # s}
        /\ staleLogin \subseteq staleLogin' \cup {s}
    BY <1>2 DEF EndsConnection, Leaves
  <2> QED
    BY <1>6, <2>1 DEF Fresh
<1>7. InboxesAsked'
  <2>1. ASSUME NEW t \in Fresh'
        PROVE  ~Some(inbox'[t], Unasked(t)')
    <3>1. CASE t = s
      BY <1>1, <1>4, <3>1 DEF Some
    <3>2. CASE t # s
      <4>1. t \in Fresh /\ Unasked(t)' = Unasked(t)
        BY <1>6, <2>1, <3>2 DEF Fresh, Unasked
      <4> QED
        BY <1>1, <4>1 DEF GrantsTravel, InboxesAsked
    <3> QED
      BY <3>1, <3>2
  <2> QED
    BY <2>1 DEF InboxesAsked
<1>8. BuffersAsked'
  <2>1. ASSUME NEW j \in Slots, clientSockets'[j] \in Fresh'
        PROVE  ~Some(recvBuffer'[j], Unasked(clientSockets[j])')
    <3>1. j # i /\ clientSockets'[j] = clientSockets[j]
      BY <1>1, <2>1, NamesAssumption DEF TypeOK, Fresh
    <3>2. clientSockets[j] # s /\ clientSockets[j] \in Sockets
      BY <1>1, <2>1, <3>1, NamesAssumption DEF SlotsHoldDistinctOpenSockets, s, Fresh
    <3>3. clientSockets[j] \in Fresh /\ Unasked(clientSockets[j])' = Unasked(clientSockets[j])
      BY <1>6, <2>1, <3>1, <3>2 DEF Unasked
    <3> QED
      BY <1>1, <3>3 DEF GrantsTravel, BuffersAsked
  <2> QED
    BY <2>1 DEF BuffersAsked
<1>9. RequestsAsked'
  <2>1. ASSUME NEW k \in DOMAIN authRequests, authRequests[k] \in BadRequests'
        PROVE  FALSE
    <3>1. /\ authRequests[k] \in AuthRequests /\ authRequests[k].type = "login"
          /\ authRequests[k].sock \in Fresh'
          /\ <<authRequests[k].sock, authRequests[k].email>> \notin asked'
      BY <2>1 DEF BadRequests
    <3>2. authRequests[k].sock \in Sockets
      BY <3>1 DEF AuthRequests
    <3>3. CASE authRequests[k].sock = s
      <4>1. authRequests[k] \in [type: {"login"}, sock: {s}, email: Emails]
        BY <3>1, <3>3 DEF AuthRequests
      <4>2. LoginAtWork(s)
        BY <4>1 DEF LoginAtWork, Some
      <4> QED
        BY <1>2, <1>5, <3>1, <3>3, <4>2
    <3>4. CASE authRequests[k].sock # s
      <4>1. authRequests[k] \in BadRequests
        BY <1>6, <3>1, <3>2, <3>4 DEF BadRequests
      <4> QED
        BY <4>1 DEF GrantsTravel, RequestsAsked, BadRequests, Some
    <3> QED
      BY <3>3, <3>4
  <2> QED
    BY <1>1, <2>1 DEF RequestsAsked, BadRequests, Some
<1>10. AnswersGranted'
  <2>1. ASSUME NEW k \in DOMAIN authAnswers, authAnswers[k] \in BadAnswers'
        PROVE  FALSE
    <3>1. /\ authAnswers[k] \in AuthAnswers /\ authAnswers[k].type = "authOk"
          /\ authAnswers[k].sock \in Fresh'
          /\ <<authAnswers[k].sock, authAnswers[k].email>> \notin granted'
      BY <2>1 DEF BadAnswers, Granted
    <3>2. authAnswers[k].sock \in Sockets
      BY <3>1 DEF AuthAnswers
    <3>3. CASE authAnswers[k].sock = s
      <4>1. authAnswers[k] \in [type: {"authOk"}, sock: {s}, email: Emails]
        BY <3>1, <3>3 DEF AuthAnswers
      <4>2. LoginAtWork(s)
        BY <4>1 DEF LoginAtWork, Some
      <4> QED
        BY <1>2, <1>5, <3>1, <3>3, <4>2
    <3>4. CASE authAnswers[k].sock # s
      <4>1. authAnswers[k] \in BadAnswers
        BY <1>6, <3>1, <3>2, <3>4 DEF BadAnswers, Granted
      <4> QED
        BY <4>1 DEF GrantsTravel, AnswersGranted, BadAnswers, Some
    <3> QED
      BY <3>3, <3>4
  <2> QED
    BY <1>1, <2>1 DEF AnswersGranted, BadAnswers, Some
<1>11. HandGranted'
  <2> SUFFICES ASSUME authStep \in {"find", "store"}
               PROVE  /\ authCur.sock \in Fresh' => Granted(authCur.sock, authCur.email)'
                      /\ authStep = "store" => connectedUsers'[authCur.sock] \notin Emails
    BY <1>1 DEF HandGranted, authVars
  <2>1. authCur.sock \in Sockets
    BY DEF TypeOK, AuthAnswers
  <2>2. authStep = "store" => connectedUsers'[authCur.sock] \notin Emails
    BY <1>3, <2>1 DEF GrantsTravel, HandGranted
  <2>3. CASE authCur.sock = s
    <3>1. LoginAtWork(s)
      BY <2>3 DEF LoginAtWork
    <3> QED
      BY <1>2, <1>5, <2>2, <2>3, <3>1
  <2>4. CASE authCur.sock # s
    <3>1. authCur.sock \in Fresh' => <<authCur.sock, authCur.email>> \in granted
      BY <1>6, <2>1, <2>4 DEF GrantsTravel, HandGranted, Granted
    <3>2. authCur.sock \in Fresh' => <<authCur.sock, authCur.email>> \in granted'
      BY <1>6, <2>1, <2>4, <3>1
    <3> QED
      BY <1>1, <2>2, <3>2 DEF Granted, authVars
  <2> QED
    BY <2>3, <2>4
<1>12. WiresGranted'
  <2>1. ASSUME NEW t \in Fresh', Some(wire[t], OkVerdict)
        PROVE  HasLogin(t)'
    <3>1. t # s
      BY <1>4, <2>1 DEF Some
    <3>2. t \in Fresh /\ t \in Sockets
      BY <1>6, <2>1, <3>1 DEF Fresh
    <3>3. PICK e \in Emails : <<t, e>> \in granted
      BY <2>1, <3>2 DEF GrantsTravel, WiresGranted, OkVerdict, HasLogin, Granted
    <3> QED
      BY <1>6, <3>1, <3>2, <3>3 DEF HasLogin, Granted
  <2> QED
    BY <1>1, <2>1 DEF WiresGranted, OkVerdict
<1>13. GoneAreSilent'
  BY <1>1, <1>4 DEF GrantsTravel, GoneAreSilent, TypeOK
<1>14. NamesAreGranted'
  <2>1. ASSUME NEW t \in Fresh', connectedUsers'[t] \in Emails
        PROVE  Granted(t, connectedUsers[t])'
    <3>1. t # s
      BY <1>2, <1>5, <2>1
    <3>2. t \in Fresh /\ t \in Sockets
      BY <1>6, <2>1, <3>1 DEF Fresh
    <3>3. connectedUsers'[t] = connectedUsers[t] /\ <<t, connectedUsers[t]>> \in granted
      BY <1>3, <2>1, <3>2 DEF GrantsTravel, NamesAreGranted, Granted
    <3> QED
      BY <1>6, <3>1, <3>2, <3>3 DEF Granted
  <2> QED
    BY <2>1 DEF NamesAreGranted
<1>15. ChattersWereGranted'
  <2>1. ASSUME NEW t \in chatting \cap Fresh'
        PROVE  HasLogin(t)'
    <3>1. t # s
      BY <1>4, <2>1
    <3>2. t \in Fresh /\ t \in Sockets
      BY <1>6, <2>1, <3>1 DEF Fresh
    <3>3. PICK e \in Emails : <<t, e>> \in granted
      BY <2>1, <3>2 DEF GrantsTravel, ChattersWereGranted, HasLogin, Granted
    <3> QED
      BY <1>6, <3>1, <3>2, <3>3 DEF HasLogin, Granted
  <2> QED
    BY <1>1, <2>1 DEF ChattersWereGranted
<1> QED
  BY <1>7, <1>8, <1>9, <1>10, <1>11, <1>12, <1>13, <1>14, <1>15 DEF GrantsTravel

\* What the handler has read is gone from its buffer.
LEMMA TailGrants ==
    ASSUME TypeOK, GrantsTravel, Growing, handling # NoSlot, recvBuffer[handling] # <<>>,
           recvBuffer' = [recvBuffer EXCEPT ![handling] = Tail(@)],
           UNCHANGED clientSockets
    PROVE  BuffersAsked'
<1>1. handling \in Slots /\ recvBuffer[handling] \in Seq(ClientMsgs)
  BY DEF TypeOK
<1>2. \A S : Some(Tail(recvBuffer[handling]), S) => Some(recvBuffer[handling], S)
  BY <1>1, SomeInTail
<1>3. \A j \in Slots : \A S : Some(recvBuffer'[j], S) => Some(recvBuffer[j], S)
  BY <1>1, <1>2 DEF TypeOK
<1> QED
  BY <1>3, BuffersKept DEF GrantsTravel

LEMMA AskGrants ==
    ASSUME TypeOK, GrantsTravel, NEW type \in {"login", "register"}, AskAuth(type)
    PROVE  GrantsTravel'
<1> DEFINE req == [type |-> type, sock |-> Handler, email |-> Packet.email]
<1>1. /\ SendToAuth(req)
      /\ recvBuffer' = [recvBuffer EXCEPT ![handling] = Tail(@)]
      /\ handling # NoSlot /\ recvBuffer[handling] # <<>> /\ Packet.type = type
      /\ UNCHANGED <<clientSockets, connectedUsers, authVars, conn, inbox, wire, chatting,
                     asked, granted, staleLogin>>
  BY DEF AskAuth, PacketDone, Handling, clientVars
<1>2. /\ handling \in Slots /\ recvBuffer[handling] \in Seq(ClientMsgs)
      /\ Handler \in Sockets /\ Packet \in ClientMsgs /\ Packet.email \in Emails
  BY <1>1, PacketType DEF TypeOK
<1>3. Growing
  BY <1>1 DEF Growing
<1>4. BuffersAsked'
  BY <1>1, <1>3, TailGrants
<1>5. RequestsAsked'
  <2>1. req \in AuthRequests /\ authRequests \in Seq(AuthRequests)
    BY <1>2 DEF AuthRequests, TypeOK
  <2>2. req \notin BadRequests'
    <3> SUFFICES ASSUME type = "login", Handler \in Fresh, <<Handler, Packet.email>> \notin asked
                 PROVE  FALSE
      BY <1>1, <1>3, GrowingShrinks DEF BadRequests
    <3>1. Packet \in Unasked(Handler)
      BY <1>1, <1>2 DEF ClientMsgs, Credentials, RoomCommands, Unasked
    <3>2. Some(recvBuffer[handling], Unasked(clientSockets[handling]))
      BY <1>1, <1>2, <3>1, SomeHead DEF Packet, Handler
    <3> QED
      BY <1>2, <3>2 DEF GrantsTravel, BuffersAsked, Handler
  <2>3. authRequests' \in {authRequests, Append(authRequests, req)}
    BY <1>1 DEF SendToAuth, linkVars
  <2> HIDE DEF req
  <2>4. Some(authRequests', BadRequests') => Some(authRequests, BadRequests')
    BY <2>1, <2>2, <2>3, SomeInAppend
  <2> QED
    BY <1>3, <2>4, RequestsKept DEF GrantsTravel
<1>6. AnswersGranted'
  <2>1. authAnswers' \in {authAnswers, <<>>}
    BY <1>1 DEF SendToAuth, linkVars
  <2>2. \A S : ~Some(<<>>, S)
    BY DEF Some
  <2> QED
    BY <1>3, <2>1, <2>2, AnswersKept DEF GrantsTravel
<1> HIDE DEF req
<1> QED
  BY <1>1, <1>3, <1>4, <1>5, <1>6, OthersKept DEF GrantsTravel

\* A broadcast carries no verdict, and operator[] gives nobody a name.
LEMMA ChatGrants ==
    ASSUME TypeOK, GrantsTravel, HandleJoin \/ HandleSay \/ HandleLeave
    PROVE  GrantsTravel'
<1>1. /\ recvBuffer' = [recvBuffer EXCEPT ![handling] = Tail(@)]
      /\ handling # NoSlot /\ recvBuffer[handling] # <<>>
      /\ Packet.type \in {"join", "say", "leave"}
      /\ NameLookup(Handler)
      /\ UNCHANGED <<clientSockets, authRequests, authAnswers, authVars, conn, inbox, chatting,
                     asked, granted, staleLogin>>
  BY DEF HandleJoin, HandleSay, HandleLeave, PacketDone, Handling, linkVars, clientVars, histVars
<1>2. Handler \in Sockets /\ Packet.room \in Rooms
  BY <1>1, PacketType
<1>3. Growing
  BY <1>1 DEF Growing
<1>4. BuffersAsked'
  BY <1>1, <1>3, TailGrants
<1>5. PICK m \in [Sockets -> Nat], type \in {"joined", "said", "left"} : Broadcast(m, Notice(type))
  <2>1. CASE HandleJoin
    <3>1. members'[Packet.room] \in [Sockets -> Nat]
      BY <1>2, <2>1 DEF HandleJoin, TypeOK
    <3> QED
      BY <2>1, <3>1 DEF HandleJoin
  <2>2. CASE HandleSay \/ HandleLeave
    <3>1. members[Packet.room] \in [Sockets -> Nat]
      BY <1>2 DEF TypeOK
    <3> QED
      BY <2>2, <3>1 DEF HandleSay, HandleLeave
  <2> QED
    BY <2>1, <2>2
<1>6. Notice(type) \in ServerMsgs /\ Notice(type) \notin OkVerdict
  <2>1. NameOf(Handler) \in Names
    BY <1>1, <1>2, NameLookupType
  <2>2. Notice(type) \in ServerMsgs
    BY <1>2, <2>1, NoticeType
  <2>3. Notice(type).type # "authOk"
    BY DEF Notice
  <2> QED
    BY <2>2, <2>3 DEF OkVerdict
<1>7. ASSUME NEW s \in Sockets, Some(wire'[s], OkVerdict)
      PROVE  Some(wire[s], OkVerdict)
  <2>1. wire[s] \in Seq(ServerMsgs) /\ m[s] \in Nat
    BY DEF TypeOK
  <2>2. \/ wire'[s] = wire[s]
        \/ wire'[s] = wire[s] \o [k \in 1..m[s] |-> Notice(type)]
    BY <1>5 DEF Broadcast
  <2> HIDE DEF Notice
  <2> QED
    BY <1>6, <1>7, <2>1, <2>2, SomeInCopies
<1>8. WiresGranted'
  BY <1>3, <1>7, WiresKept DEF GrantsTravel
<1>9. \A s \in Sockets : connectedUsers'[s] \in Emails => connectedUsers'[s] = connectedUsers[s]
  BY <1>1, <1>2, NamesAssumption DEF NameLookup, TypeOK
<1>10. HandGranted' /\ NamesAreGranted'
  BY <1>1, <1>3, <1>9, HandKept, NamesKept DEF GrantsTravel, authVars
<1>11. GoneAreSilent'
  <2>1. \A s \in Sockets : conn[s] # "open" => wire'[s] = wire[s]
    BY <1>5 DEF Broadcast, Carries
  <2> QED
    BY <1>1, <2>1, SilenceKept DEF GrantsTravel
<1> QED
  BY <1>1, <1>3, <1>4, <1>8, <1>10, <1>11, OthersKept DEF GrantsTravel

LEMMA AnswerGrants ==
    ASSUME TypeOK, GrantsTravel, AuthReceive
    PROVE  GrantsTravel'
<1> DEFINE ans == Head(authAnswers)
<1>1. PICK n \in 1..MaxAuthBatch :
         /\ n <= Len(authAnswers)
         /\ authAnswers' = SubSeq(authAnswers, n + 1, Len(authAnswers))
  BY DEF AuthReceive
<1>2. /\ n + 1 \in Nat \ {0} /\ authAnswers \in Seq(AuthAnswers) /\ authAnswers # <<>>
      /\ ans \in AuthAnswers
  <2>1. n \in Nat /\ n >= 1 /\ authAnswers \in Seq(AuthAnswers)
    BY BoundsAssumption DEF TypeOK
  <2> QED
    BY <1>1, <2>1, HeadTailProperties, EmptySeq
<1>3. /\ UNCHANGED <<serverVars, connectedUsers, authRequests, conn, inbox, chatting,
                     asked, granted, staleLogin>>
      /\ Reply(ans.sock, ans.type)
      /\ \/ ans.type = "authOk" /\ authStep' = "find" /\ authCur' = ans
         \/ UNCHANGED authVars /\ authStep = "recv"
  BY DEF AuthReceive, StoresName, clientVars
<1>4. Growing
  BY <1>3 DEF Growing
<1>5. AnswersGranted'
  <2>1. \A S : Some(authAnswers', S) => Some(authAnswers, S)
    BY <1>1, <1>2, SomeInRest
  <2> QED
    BY <1>4, <2>1, AnswersKept DEF GrantsTravel
<1>6. ans.type = "authOk" /\ ans.sock \in Fresh => Granted(ans.sock, ans.email)
  <2> SUFFICES ASSUME ans.type = "authOk", ans.sock \in Fresh, ~Granted(ans.sock, ans.email)
               PROVE  FALSE
    OBVIOUS
  <2>1. ans \in BadAnswers
    BY <1>2 DEF BadAnswers
  <2>2. Some(authAnswers, BadAnswers)
    BY <1>2, <2>1, SomeHead
  <2> QED
    BY <2>2 DEF GrantsTravel, AnswersGranted, BadAnswers
<1> HIDE DEF ans
<1>7. ans.sock \in Sockets /\ ans.type \in Verdicts /\ ans.email \in Emails
  BY <1>2 DEF AuthAnswers
<1>8. UNCHANGED staleLogin /\ Fresh' = Fresh /\ \A s, e : Granted(s, e)' = Granted(s, e)
  BY <1>3 DEF Fresh, Granted
<1>9. HandGranted'
  BY <1>3, <1>6, <1>8 DEF HandGranted, authVars
<1>10. WiresGranted'
  <2>1. ASSUME NEW s \in Fresh, Some(wire'[s], OkVerdict)
        PROVE  HasLogin(s)
    <3>1. s \in Sockets /\ wire[s] \in Seq(ServerMsgs) /\ [type |-> ans.type] \in ServerMsgs
      BY <1>7 DEF TypeOK, Fresh, ServerMsgs
    <3>2. wire'[s] = wire[s] \/ (s = ans.sock /\ wire'[s] = Append(wire[s], [type |-> ans.type]))
      BY <1>3, <1>7, <3>1 DEF Reply, TypeOK
    <3>3. Some(wire[s], OkVerdict) \/ (s = ans.sock /\ [type |-> ans.type] \in OkVerdict)
      BY <2>1, <3>1, <3>2, SomeInAppend
    <3>4. CASE Some(wire[s], OkVerdict)
      BY <2>1, <3>4 DEF GrantsTravel, WiresGranted, OkVerdict
    <3>5. CASE s = ans.sock /\ [type |-> ans.type] \in OkVerdict
      BY <1>6, <1>7, <2>1, <3>5 DEF OkVerdict, HasLogin
    <3> QED
      BY <3>3, <3>4, <3>5
  <2> QED
    BY <1>8, <2>1 DEF WiresGranted, OkVerdict, HasLogin
<1>11. GoneAreSilent'
  <2>1. \A s \in Sockets : conn[s] # "open" => wire'[s] = wire[s]
    BY <1>3 DEF Reply, Carries, TypeOK
  <2> QED
    BY <1>3, <2>1, SilenceKept DEF GrantsTravel
<1> QED
  BY <1>3, <1>4, <1>5, <1>9, <1>10, <1>11, OthersKept DEF GrantsTravel, serverVars

LEMMA FindGrants ==
    ASSUME TypeOK, GrantsTravel, AuthFind
    PROVE  GrantsTravel'
<1>1. UNCHANGED <<serverVars, connectedUsers, linkVars, conn, inbox, wire, clientVars, histVars>>
  BY DEF AuthFind
<1>2. Growing
  BY <1>1 DEF Growing, histVars
<1>3. HandGranted'
  <2>1. \/ authStep' = "recv"
        \/ /\ authStep = "find" /\ authStep' = "store" /\ authCur' = authCur
           /\ connectedUsers[authCur.sock] = Absent
    BY DEF AuthFind
  <2>2. Fresh' = Fresh /\ \A s, e : Granted(s, e)' = Granted(s, e)
    BY <1>1 DEF Fresh, Granted, histVars
  <2> QED
    BY <1>1, <2>1, <2>2, NamesAssumption DEF GrantsTravel, HandGranted
<1> QED
  BY <1>1, <1>2, <1>3, OthersKept DEF GrantsTravel, serverVars, linkVars, clientVars

LEMMA StoreGrants ==
    ASSUME TypeOK, GrantsTravel, AuthStore
    PROVE  GrantsTravel'
<1>1. /\ UNCHANGED <<serverVars, linkVars, conn, inbox, wire, clientVars, histVars>>
      /\ authStep = "store" /\ authStep' = "recv"
      /\ connectedUsers' \in {connectedUsers, [connectedUsers EXCEPT ![authCur.sock] = authCur.email]}
  BY DEF AuthStore
<1>2. Growing
  BY <1>1 DEF Growing, histVars
<1>3. HandGranted'
  BY <1>1 DEF HandGranted
<1>4. NamesAreGranted'
  <2>1. authCur.sock \in Sockets /\ (authCur.sock \in Fresh => Granted(authCur.sock, authCur.email))
    BY <1>1 DEF GrantsTravel, HandGranted, TypeOK, AuthAnswers
  <2>2. ASSUME NEW s \in Fresh, connectedUsers'[s] \in Emails
        PROVE  Granted(s, connectedUsers'[s])
    BY <1>1, <2>1, <2>2 DEF GrantsTravel, NamesAreGranted, Fresh, TypeOK
  <2> QED
    BY <1>1, <2>2 DEF NamesAreGranted, Fresh, Granted, histVars
<1> QED
  BY <1>1, <1>2, <1>3, <1>4, OthersKept DEF GrantsTravel, serverVars, linkVars, clientVars

LEMMA ServeGrants ==
    ASSUME TypeOK, GrantsTravel, AuthServe
    PROVE  GrantsTravel'
<1> DEFINE req == Head(authRequests)
<1>1. PICK n \in 1..MaxAuthBatch :
         /\ n <= Len(authRequests)
         /\ authRequests' = SubSeq(authRequests, n + 1, Len(authRequests))
  BY DEF AuthServe
<1>2. /\ n + 1 \in Nat \ {0} /\ authRequests \in Seq(AuthRequests) /\ authRequests # <<>>
      /\ req \in AuthRequests
  <2>1. n \in Nat /\ n >= 1 /\ authRequests \in Seq(AuthRequests)
    BY BoundsAssumption DEF TypeOK
  <2> QED
    BY <1>1, <2>1, HeadTailProperties, EmptySeq
<1>3. PICK v \in VerdictsOn(req) :
         /\ authAnswers' = authAnswers \o AnswersTo(req, v)
         /\ granted' = IF Accepts(v) THEN granted \cup (asked \cap {<<req.sock, req.email>>})
                       ELSE granted
  BY DEF AuthServe
<1>4. UNCHANGED <<serverVars, connectedUsers, authVars, conn, inbox, wire, clientVars,
                  asked, staleLogin>>
  BY DEF AuthServe
<1>5. Growing
  BY <1>3, <1>4 DEF Growing
<1>6. RequestsAsked'
  <2>1. \A S : Some(authRequests', S) => Some(authRequests, S)
    BY <1>1, <1>2, SomeInRest
  <2> QED
    BY <1>5, <2>1, RequestsKept DEF GrantsTravel
<1>7. req.type = "login" /\ req.sock \in Fresh => <<req.sock, req.email>> \in asked
  <2> SUFFICES ASSUME req \in BadRequests
               PROVE  FALSE
    BY <1>2 DEF BadRequests
  <2>1. Some(authRequests, BadRequests)
    BY <1>2, SomeHead
  <2> QED
    BY <2>1 DEF GrantsTravel, RequestsAsked, BadRequests
<1> HIDE DEF req
<1>8. AnswersTo(req, v) \in Seq(AuthAnswers) /\ authAnswers \in Seq(AuthAnswers)
  BY <1>2, AnswersType DEF TypeOK
<1>9. ~Some(AnswersTo(req, v), BadAnswers')
  <2> SUFFICES ASSUME NEW k \in DOMAIN AnswersTo(req, v), AnswersTo(req, v)[k] \in BadAnswers'
               PROVE  FALSE
    BY DEF Some
  <2>1. /\ k \in DOMAIN v
        /\ AnswersTo(req, v)[k] = [type |-> v[k], sock |-> req.sock, email |-> req.email]
    BY DEF AnswersTo
  <2>2. /\ v[k] = "authOk" /\ req.sock \in Fresh'
        /\ <<req.sock, req.email>> \notin granted'
    BY <2>1 DEF BadAnswers, Granted
  <2>3. Accepts(v)
    BY <2>1, <2>2 DEF Accepts
  <2>4. req.type = "login"
    <3> SUFFICES ASSUME req.type # "login"
                 PROVE  v[k] # "authOk"
      BY <2>2
    <3>1. v \in {<<"regOk">>, <<"regFail">>, <<"regFail", "regOk">>, <<"regFail", "regFail">>,
                 <<"regFail", "regFail", "regOk">>, <<"regFail", "regFail", "regFail">>}
      BY DEF VerdictsOn
    <3> QED
      BY <2>1, <3>1
  <2>5. req.sock \in Fresh
    BY <1>5, <2>2, GrowingShrinks
  <2> QED
    BY <1>3, <1>7, <2>2, <2>3, <2>4, <2>5
<1>10. AnswersGranted'
  <2>1. Some(authAnswers', BadAnswers') => Some(authAnswers, BadAnswers')
    BY <1>3, <1>8, <1>9, SomeInConcat
  <2> QED
    BY <1>5, <2>1, AnswersKept DEF GrantsTravel
<1> QED
  BY <1>4, <1>5, <1>6, <1>10, OthersKept DEF GrantsTravel, serverVars, authVars, clientVars

\* What a menu sends was asked for, and a command is no request.
LEMMA SendGrants ==
    ASSUME TypeOK, GrantsTravel, NEW s \in Sockets, ClientMenu(s) \/ ClientCommand(s)
    PROVE  GrantsTravel'
<1>1. /\ UNCHANGED <<serverVars, connectedUsers, linkVars, authVars, conn, wire, chatting,
                     granted, staleLogin>>
      /\ conn[s] = "open" /\ asked \subseteq asked'
  BY DEF ClientMenu, ClientCommand, Send, histVars
<1>2. Growing
  BY <1>1 DEF Growing
<1>3. PICK msg \in ClientMsgs : /\ inbox' = [inbox EXCEPT ![s] = Append(@, msg)]
                                /\ msg \notin Unasked(s)'
  <2>1. CASE ClientMenu(s)
    <3>1. PICK type \in Requests, e \in Emails :
             /\ Send(s, [type |-> type, email |-> e])
             /\ asked' = IF type = "login" THEN asked \cup {<<s, e>>} ELSE asked
      BY <2>1 DEF ClientMenu
    <3>2. [type |-> type, email |-> e] \in ClientMsgs
      BY BoundsAssumption DEF ClientMsgs, Credentials
    <3>3. [type |-> type, email |-> e] \notin Unasked(s)'
      BY <3>1 DEF Unasked
    <3> QED
      BY <3>1, <3>2, <3>3 DEF Send
  <2>2. CASE ClientCommand(s)
    <3>1. PICK type \in {"join", "say", "leave"}, r \in Rooms :
             Send(s, [type |-> type, room |-> r])
      BY <2>2 DEF ClientCommand
    <3>2. [type |-> type, room |-> r] \in ClientMsgs
      BY DEF ClientMsgs, RoomCommands
    <3>3. [type |-> type, room |-> r] \notin Unasked(s)'
      BY DEF Unasked
    <3> QED
      BY <3>1, <3>2, <3>3 DEF Send
  <2> QED
    BY <2>1, <2>2
<1>4. InboxesAsked'
  <2>1. ASSUME NEW t \in Sockets, Some(inbox'[t], Unasked(t)')
        PROVE  Some(inbox[t], Unasked(t)')
    <3>1. inbox[t] \in Seq(ClientMsgs)
      BY DEF TypeOK
    <3>2. CASE t = s
      <4>1. inbox'[t] = Append(inbox[t], msg)
        BY <1>3, <3>2 DEF TypeOK
      <4> QED
        BY <1>3, <2>1, <3>1, <3>2, <4>1, SomeInAppend
    <3>3. CASE t # s
      BY <1>3, <2>1, <3>3 DEF TypeOK
    <3> QED
      BY <3>2, <3>3
  <2> QED
    BY <1>2, <2>1, InboxesKept DEF GrantsTravel
<1>5. GoneAreSilent'
  <2>1. \A t \in Sockets : conn[t] \in {"reset", "free"} => inbox'[t] = inbox[t]
    BY <1>1, <1>3 DEF TypeOK
  <2> QED
    BY <1>1, <2>1, SilenceKept DEF GrantsTravel
<1> QED
  BY <1>1, <1>2, <1>4, <1>5, OthersKept DEF GrantsTravel, serverVars, linkVars

LEMMA ReceiveGrants ==
    ASSUME TypeOK, GrantsTravel, NEW s \in Sockets, ClientReceive(s)
    PROVE  GrantsTravel'
<1>1. /\ wire[s] \in Seq(ServerMsgs) /\ wire[s] # <<>> /\ conn[s] = "open"
      /\ wire' = [wire EXCEPT ![s] = Tail(@)]
      /\ chatting' = IF Head(wire[s]).type = "authOk" THEN chatting \cup {s} ELSE chatting
      /\ UNCHANGED <<serverVars, connectedUsers, linkVars, authVars, conn, inbox,
                     asked, granted, staleLogin>>
  BY DEF ClientReceive, StartsChat, TypeOK
<1>2. Growing
  BY <1>1 DEF Growing
<1>3. \A t \in Sockets : Some(wire'[t], OkVerdict) => Some(wire[t], OkVerdict)
  <2>1. Some(Tail(wire[s]), OkVerdict) => Some(wire[s], OkVerdict)
    BY <1>1, SomeInTail
  <2> QED
    BY <1>1, <2>1 DEF TypeOK
<1>4. WiresGranted'
  BY <1>2, <1>3, WiresKept DEF GrantsTravel
<1>5. GoneAreSilent'
  <2>1. \A t \in Sockets : conn[t] # "open" => wire'[t] = wire[t] /\ (t \in chatting' => t \in chatting)
    BY <1>1 DEF TypeOK
  <2> QED
    BY <1>1, <2>1, SilenceKept DEF GrantsTravel
<1>6. ChattersWereGranted'
  <2>1. CASE Head(wire[s]).type = "authOk"
    <3>1. Head(wire[s]) \in ServerMsgs
      BY <1>1, HeadTailProperties
    <3>2. Head(wire[s]) \in OkVerdict
      BY <2>1, <3>1 DEF ServerMsgs, RoomNotices, OkVerdict
    <3>3. Some(wire[s], OkVerdict)
      BY <1>1, <3>2, SomeHead
    <3>4. \A t \in (chatting \cup {s}) \cap Fresh : HasLogin(t)
      BY <3>3 DEF GrantsTravel, WiresGranted, ChattersWereGranted, OkVerdict
    <3> QED
      BY <1>1, <1>2, <2>1, <3>4, GrowingShrinks DEF ChattersWereGranted
  <2>2. CASE Head(wire[s]).type # "authOk"
    BY <1>1, <1>2, <2>2, ChattersKept DEF GrantsTravel
  <2> QED
    BY <2>1, <2>2
<1> QED
  BY <1>1, <1>2, <1>4, <1>5, <1>6, OthersKept DEF GrantsTravel, serverVars, linkVars

LEMMA GoneGrants ==
    ASSUME TypeOK, GrantsTravel, NEW s \in Sockets, ClientQuits(s) \/ ClientDies(s)
    PROVE  GrantsTravel'
<1>1. /\ wire' = [wire EXCEPT ![s] = <<>>] /\ chatting' = chatting \ {s}
      /\ inbox' = inbox \/ inbox' = [inbox EXCEPT ![s] = <<>>]
      /\ UNCHANGED <<serverVars, connectedUsers, linkVars, authVars, asked, granted, staleLogin>>
  BY DEF ClientQuits, ClientDies, ClientGone
<1>2. Growing
  BY <1>1 DEF Growing
<1>3. \A S : ~Some(<<>>, S)
  BY DEF Some
<1>4. InboxesAsked'
  <2>1. \A t \in Sockets : inbox'[t] = inbox[t] \/ inbox'[t] = <<>>
    BY <1>1 DEF TypeOK
  <2> QED
    BY <1>2, <1>3, <2>1, InboxesKept DEF GrantsTravel
<1>5. WiresGranted'
  <2>1. \A t \in Sockets : wire'[t] = wire[t] \/ wire'[t] = <<>>
    BY <1>1 DEF TypeOK
  <2> QED
    BY <1>2, <1>3, <2>1, WiresKept DEF GrantsTravel
<1>6. GoneAreSilent'
  <2>1. /\ wire'[s] = <<>> /\ s \notin chatting'
        /\ conn'[s] = "reset" => inbox'[s] = <<>>
        /\ conn'[s] # "free"
    BY <1>1 DEF ClientQuits, ClientDies, TypeOK
  <2>2. \A t \in Sockets : t # s => /\ conn'[t] = conn[t] /\ wire'[t] = wire[t]
                                    /\ inbox'[t] = inbox[t]
                                    /\ t \in chatting' => t \in chatting
    BY <1>1 DEF ClientQuits, ClientDies, TypeOK
  <2> QED
    BY <2>1, <2>2 DEF GrantsTravel, GoneAreSilent
<1>7. ChattersWereGranted'
  BY <1>1, <1>2, ChattersKept DEF GrantsTravel
<1> QED
  BY <1>1, <1>2, <1>4, <1>5, <1>6, <1>7, OthersKept DEF GrantsTravel, serverVars, linkVars

\* The link fails, the thread starts up, the process ends.
LEMMA LinkGrants ==
    ASSUME TypeOK, GrantsTravel, LinkFails \/ AuthStart \/ AuthConnect \/ SelectFails
    PROVE  GrantsTravel'
<1>1. /\ UNCHANGED <<serverVars, connectedUsers, authAnswers, conn, inbox, wire, clientVars,
                     asked, granted, staleLogin>>
      /\ authRequests' \in {authRequests, <<>>}
      /\ UNCHANGED authVars \/ authStep' \notin {"find", "store"}
  BY DEF LinkFails, AuthStart, AuthConnect, StartsUp, SelectFails, histVars
<1>2. Growing
  BY <1>1 DEF Growing
<1>3. RequestsAsked'
  <2>1. \A S : ~Some(<<>>, S)
    BY DEF Some
  <2> QED
    BY <1>1, <1>2, <2>1, RequestsKept DEF GrantsTravel
<1>4. HandGranted'
  BY <1>1, <1>2, HandKept DEF GrantsTravel, authVars
<1> QED
  BY <1>1, <1>2, <1>3, <1>4, OthersKept DEF GrantsTravel, serverVars, clientVars

LEMMA GrantsStep ==
    TypeOK /\ SlotsHoldDistinctOpenSockets /\ GrantsTravel /\ [Next]_vars => GrantsTravel'
<1> SUFFICES ASSUME TypeOK, SlotsHoldDistinctOpenSockets, GrantsTravel, [Next]_vars
             PROVE  GrantsTravel'
  OBVIOUS
<1>1. CASE HandleLeaveUnknown
  <2>1. /\ recvBuffer' = [recvBuffer EXCEPT ![handling] = Tail(@)]
        /\ handling # NoSlot /\ recvBuffer[handling] # <<>>
        /\ UNCHANGED <<clientSockets, connectedUsers, linkVars, authVars, conn, inbox, wire,
                       clientVars, histVars>>
    BY <1>1 DEF HandleLeaveUnknown, Handling
  <2>2. Growing
    BY <2>1 DEF Growing, histVars
  <2>3. BuffersAsked'
    BY <2>1, <2>2, TailGrants
  <2> QED
    BY <2>1, <2>2, <2>3, OthersKept DEF GrantsTravel, linkVars, clientVars
<1>2. CASE UNCHANGED vars
  <2>1. Growing
    BY <1>2 DEF Growing, vars, histVars
  <2> QED
    BY <1>2, <2>1, OthersKept DEF GrantsTravel, vars, serverVars, linkVars, clientVars
<1> QED
  BY <1>1, <1>2, AcceptGrants, RecvGrants, EndGrants, AskGrants, ChatGrants, AnswerGrants,
     FindGrants, StoreGrants, ServeGrants, SendGrants, ReceiveGrants, GoneGrants, LinkGrants
     DEF Next, ServeSlot, HandleMessage, HandleLogin, HandleRegister, AuthThread

\* A login that is anywhere on its way in a connection was asked for in it, and
\* one whose success is anywhere on its way, listed or believed was accepted in it,
\* on every handle not set apart when its last connection ended.
THEOREM TravelCorrect == Spec => []GrantsTravel
<1>1. Spec => []TypeOK /\ []SlotsHoldDistinctOpenSockets
  BY TypeCorrect, SlotsCorrect
<1> QED
  BY <1>1, GrantsInit, GrantsStep, PTL DEF Spec

\* A name in the list is of a login that this connection asked for and that the
\* authentication server accepted, on those handles.
THEOREM NamesCorrect == Spec => []NamesAreGranted
<1>1. GrantsTravel => NamesAreGranted
  BY DEF GrantsTravel
<1> QED
  BY <1>1, TravelCorrect, PTL

\* So is a user in the chat.
THEOREM ChattersCorrect == Spec => []ChattersWereGranted
<1>1. GrantsTravel => ChattersWereGranted
  BY DEF GrantsTravel
<1> QED
  BY <1>1, TravelCorrect, PTL

LEMMA StickyStep ==
    TypeOK /\ GrantsTravel /\ [Next]_vars =>
        \A s \in Sockets :
            connectedUsers[s] \in Emails /\ connectedUsers'[s] # connectedUsers[s] =>
               connectedUsers'[s] = Absent /\ conn[s] = "closed" /\ conn'[s] = "free"
<1> SUFFICES ASSUME TypeOK, GrantsTravel, [Next]_vars, NEW s \in Sockets,
                    connectedUsers[s] \in Emails, connectedUsers'[s] # connectedUsers[s]
             PROVE  connectedUsers'[s] = Absent /\ conn[s] = "closed" /\ conn'[s] = "free"
  OBVIOUS
<1> USE DEF TypeOK
<1>1. ASSUME NEW i \in Slots, RecvZero(i)
      PROVE  connectedUsers'[s] = Absent /\ conn[s] = "closed" /\ conn'[s] = "free"
  <2>1. s = clientSockets[i]
    BY <1>1 DEF RecvZero, RemoveUserOnDisconnect
  <2> QED
    BY <1>1, <2>1 DEF RecvZero, RemoveUserOnDisconnect, FreeSlot
<1>2. ASSUME NameLookup(Handler)
      PROVE  FALSE
  BY <1>2, NamesAssumption DEF NameLookup
<1>3. CASE AuthStore
  <2>1. connectedUsers[authCur.sock] \notin Emails
    BY <1>3 DEF AuthStore, GrantsTravel, HandGranted
  <2> QED
    BY <1>3, <2>1 DEF AuthStore
<1>4. CASE UNCHANGED connectedUsers
  BY <1>4
<1> QED
  BY <1>1, <1>2, <1>3, <1>4
     DEF Next, vars, serverVars, ServeSlot, HandleMessage, HandleLogin, HandleRegister, AskAuth,
         HandleJoin, HandleSay, HandleLeave, HandleLeaveUnknown, AuthThread, AuthStart, AuthConnect, StartsUp, AuthReceive, AuthFind,
         AuthServe, LinkFails, SelectFails, AcceptIntoSlot, AcceptWithoutSlot, Connected, RecvData, RecvReset,
         ClientMenu, ClientReceive, ClientCommand, ClientQuits, ClientDies, ClientGone, Send

\* No interleaving of the two threads replaces or blanks a name that is listed.
THEOREM StickyCorrect == Spec => NameSticky
<1>1. Spec => []TypeOK
  BY TypeCorrect
<1>2. Spec => []GrantsTravel
  BY TravelCorrect
<1> QED
  BY <1>1, <1>2, StickyStep, PTL DEF Spec, NameSticky
-----------------------------------------------------------------------------
(***************************************************************************)
(* Memberships and the users they are of.                                  *)
(***************************************************************************)

JoinsOf(r) == [type: {"join"}, room: {r}]

\* A membership of s in r, or a join on its way to become one.
Joining(s, r) ==
    \/ members[r][s] > 0
    \/ Some(inbox[s], JoinsOf(r))
    \/ \E i \in Slots : clientSockets[i] = s /\ Some(recvBuffer[i], JoinsOf(r))

\* What makes MembersJoined inductive: a join that is anywhere in this connection
\* is one its user made, and a handle nobody has is in no room.
JoinsTravel ==
    \A s \in Sockets \ staleRooms, r \in Rooms :
        /\ conn[s] = "free" => members[r][s] = 0
        /\ conn[s] = "open" /\ Joining(s, r) => view[s][r] # "never"

\* Steps that begin and end no connection, and add no join to one.
LEMMA JoinsKept ==
    ASSUME TypeOK, JoinsTravel, UNCHANGED staleRooms,
           NEW s \in Sockets, NEW r \in Rooms, s \notin staleRooms,
           conn'[s] = conn[s], view'[s][r] = view[s][r],
           conn[s] = "free" => members'[r][s] = members[r][s],
           conn[s] = "open" => (Joining(s, r)' => Joining(s, r))
    PROVE  /\ conn'[s] = "free" => members'[r][s] = 0
           /\ conn'[s] = "open" /\ Joining(s, r)' => view'[s][r] # "never"
  BY DEF JoinsTravel

LEMMA JoinsStep ==
    TypeOK /\ SlotsHoldDistinctOpenSockets /\ GrantsTravel /\ JoinsTravel /\ [Next]_vars
        => JoinsTravel'
<1> SUFFICES ASSUME TypeOK, SlotsHoldDistinctOpenSockets, GrantsTravel, JoinsTravel, [Next]_vars,
                    NEW s \in Sockets, s \notin staleRooms', NEW r \in Rooms
             PROVE  /\ conn'[s] = "free" => members'[r][s] = 0
                    /\ conn'[s] = "open" /\ Joining(s, r)' => view'[s][r] # "never"
  BY DEF JoinsTravel
<1> DEFINE Goal == /\ conn'[s] = "free" => members'[r][s] = 0
                   /\ conn'[s] = "open" /\ Joining(s, r)' => view'[s][r] # "never"
<1>a. conn[s] = "free" => /\ inbox[s] = <<>>
                          /\ \A i \in Slots : clientSockets[i] # s
  BY NamesAssumption DEF GrantsTravel, GoneAreSilent, SlotsHoldDistinctOpenSockets
<1>b. members[r][s] \in Nat /\ s # NoSocket
  BY NamesAssumption DEF TypeOK
<1>c. \A S : ~Some(<<>>, S)
  BY DEF Some
<1>1. ASSUME NEW u \in Sockets, NEW i \in Slots, AcceptIntoSlot(u, i)
      PROVE  Goal
  <2>1. /\ conn' = [conn EXCEPT ![u] = "open"] /\ conn[u] = "free"
        /\ clientSockets' = [clientSockets EXCEPT ![i] = u]
        /\ UNCHANGED <<recvBuffer, members, inbox, view>>
        /\ staleRooms' = IF recvBuffer[i] # <<>> \/ u \in staleRooms
                         THEN staleRooms \cup {u} ELSE staleRooms \ {u}
    BY <1>1 DEF AcceptIntoSlot, Connected, Leaves
  <2>2. s \notin staleRooms /\ (s = u => recvBuffer[i] = <<>>)
    BY <2>1
  <2>3. CASE s = u
    <3>1. members[r][s] = 0
      BY <2>1, <2>2, <2>3 DEF JoinsTravel
    <3>2. \A j \in Slots : clientSockets'[j] = s => j = i
      BY <1>a, <2>1, <2>3 DEF TypeOK
    <3>3. ~Joining(s, r)'
      BY <1>a, <1>c, <2>1, <2>2, <2>3, <3>1, <3>2 DEF Joining
    <3> QED
      BY <2>1, <2>3, <3>1, <3>3
  <2>4. CASE s # u
    <3>1. \A j \in Slots : clientSockets'[j] = s => clientSockets[j] = s
      BY <2>1, <2>4 DEF TypeOK
    <3>2. Joining(s, r)' => Joining(s, r)
      BY <2>1, <3>1 DEF Joining
    <3>3. conn'[s] = conn[s]
      BY <2>1, <2>4 DEF TypeOK
    <3> QED
      BY <2>1, <2>2, <3>2, <3>3 DEF JoinsTravel
  <2> QED
    BY <2>3, <2>4
<1>2. ASSUME NEW u \in Sockets, AcceptWithoutSlot(u)
      PROVE  Goal
  <2>1. /\ conn' = [conn EXCEPT ![u] = "open"] /\ conn[u] = "free"
        /\ UNCHANGED <<clientSockets, recvBuffer, members, inbox, view, staleRooms>>
    BY <1>2 DEF AcceptWithoutSlot, Connected
  <2>2. Joining(s, r)' <=> Joining(s, r)
    BY <2>1 DEF Joining
  <2>3. CASE s = u
    <3>1. members[r][s] = 0
      BY <2>1, <2>3 DEF JoinsTravel
    <3>2. ~Joining(s, r)
      BY <1>a, <1>c, <2>1, <2>3, <3>1 DEF Joining
    <3> QED
      BY <2>1, <2>2, <3>1, <3>2
  <2>4. CASE s # u
    BY <2>1, <2>2, <2>4 DEF JoinsTravel, TypeOK
  <2> QED
    BY <2>3, <2>4
<1>3. ASSUME NEW i \in Slots, RecvData(i)
      PROVE  Goal
  <2> DEFINE u == clientSockets[i]
  <2>1. /\ u \in Sockets /\ inbox[u] \in Seq(ClientMsgs) /\ recvBuffer[i] \in Seq(ClientMsgs)
        /\ UNCHANGED <<clientSockets, members, conn, view, staleRooms>>
    BY <1>3 DEF RecvData, TypeOK, clientVars, histVars
  <2>2. PICK n \in 1..MaxRecvBatch :
           /\ n <= Len(inbox[u])
           /\ recvBuffer' = [recvBuffer EXCEPT ![i] = @ \o SubSeq(inbox[u], 1, n)]
           /\ inbox' = [inbox EXCEPT ![u] = SubSeq(@, n + 1, Len(@))]
    BY <1>3 DEF RecvData
  <2>3. n \in Nat /\ n + 1 \in Nat \ {0} /\ SubSeq(inbox[u], 1, n) \in Seq(ClientMsgs)
    <3>1. n \in Nat
      BY BoundsAssumption
    <3> QED
      BY <2>1, <2>2, <3>1, SplitType
  <2> HIDE DEF u
  <2>4. Some(inbox'[s], JoinsOf(r)) => Some(inbox[s], JoinsOf(r))
    <3>1. CASE s = u
      <4>1. inbox'[s] = SubSeq(inbox[s], n + 1, Len(inbox[s]))
        BY <2>2, <3>1 DEF TypeOK
      <4> QED
        BY <2>1, <2>3, <3>1, <4>1, SomeInRest
    <3>2. CASE s # u
      BY <2>2, <3>2 DEF TypeOK
    <3> QED
      BY <3>1, <3>2
  <2>5. ASSUME NEW j \in Slots, clientSockets[j] = s, Some(recvBuffer'[j], JoinsOf(r))
        PROVE  Joining(s, r)
    <3>1. CASE j = i
      <4>1. recvBuffer'[j] = recvBuffer[i] \o SubSeq(inbox[u], 1, n) /\ u = s
        BY <2>2, <2>5, <3>1 DEF TypeOK, u
      <4>2. Some(recvBuffer[i], JoinsOf(r)) \/ Some(SubSeq(inbox[u], 1, n), JoinsOf(r))
        <5>1. Some(recvBuffer[i] \o SubSeq(inbox[u], 1, n), JoinsOf(r))
          BY <2>5, <4>1
        <5> QED
          BY <2>1, <2>3, <5>1, SomeInConcat
      <4>3. Some(recvBuffer[i], JoinsOf(r)) \/ Some(inbox[s], JoinsOf(r))
        BY <2>1, <2>2, <2>3, <4>1, <4>2, SomeInFront
      <4> QED
        BY <2>5, <3>1, <4>3 DEF Joining
    <3>2. CASE j # i
      BY <2>2, <2>5, <3>2 DEF Joining, TypeOK
    <3> QED
      BY <3>1, <3>2
  <2>6. Joining(s, r)' => Joining(s, r)
    BY <2>1, <2>4, <2>5 DEF Joining
  <2> QED
    BY <2>1, <2>6, JoinsKept
<1>4. ASSUME NEW i \in Slots, RecvZero(i) \/ RecvReset(i)
      PROVE  Goal
  <2> DEFINE u == clientSockets[i]
  <2>1. /\ u \in Sockets /\ conn' = [conn EXCEPT ![u] = "free"]
        /\ clientSockets' = [clientSockets EXCEPT ![i] = NoSocket]
        /\ UNCHANGED <<recvBuffer, inbox, view>>
    BY <1>4 DEF RecvZero, RecvReset, FreeSlot, TypeOK, clientVars
  <2>2. CASE s = u
    <3>1. CASE RecvZero(i)
      <4>1. ~Joined(u, 2) /\ members'[r] = EraseOne(members[r], u)
        BY <2>2, <3>1 DEF RecvZero, EndsConnection, Leaves, RemoveUserOnDisconnect
      <4>2. ~(members[r][s] >= 2)
        BY <2>2, <4>1 DEF Joined
      <4>3. members'[r][s] = IF members[r][s] = 0 THEN 0 ELSE members[r][s] - 1
        BY <2>1, <2>2, <4>1 DEF EraseOne, TypeOK
      <4>4. members'[r][s] = 0
        BY <1>b, <4>2, <4>3
      <4> QED
        BY <2>1, <2>2, <4>4 DEF TypeOK
    <3>2. CASE RecvReset(i)
      <4>1. ~Joined(u, 1) /\ members' = members
        BY <2>2, <3>2 DEF RecvReset, EndsConnection, Leaves
      <4>2. members'[r][s] = 0
        BY <1>b, <2>2, <4>1 DEF Joined
      <4> QED
        BY <2>1, <2>2, <4>2 DEF TypeOK
    <3> QED
      BY <1>4, <3>1, <3>2
  <2>3. CASE s # u
    <3>1. members'[r][s] = members[r][s]
      BY <1>4, <2>3 DEF RecvZero, RecvReset, RemoveUserOnDisconnect, EraseOne, TypeOK
    <3>2. s \notin staleRooms
      BY <1>4, <2>3 DEF RecvZero, RecvReset, EndsConnection, Leaves
    <3>3. \A j \in Slots : clientSockets'[j] = s => clientSockets[j] = s
      BY <1>b, <2>1 DEF TypeOK
    <3>4. Joining(s, r)' => Joining(s, r)
      BY <2>1, <3>1, <3>3 DEF Joining
    <3>5. conn'[s] = conn[s]
      BY <2>1, <2>3 DEF TypeOK
    <3> QED
      BY <2>1, <3>1, <3>2, <3>4, <3>5 DEF JoinsTravel
  <2> QED
    BY <2>2, <2>3
<1>5. ASSUME handling # NoSlot, recvBuffer[handling] # <<>>,
             recvBuffer' = [recvBuffer EXCEPT ![handling] = Tail(@)],
             UNCHANGED <<clientSockets, conn, inbox, view, staleRooms>>,
             members'[r][s] > members[r][s] => s = Handler /\ Packet \in JoinsOf(r),
             conn[s] = "free" => members'[r][s] = members[r][s]
      PROVE  Goal
  <2>1. handling \in Slots /\ recvBuffer[handling] \in Seq(ClientMsgs)
    BY <1>5 DEF TypeOK
  <2>2. Some(Tail(recvBuffer[handling]), JoinsOf(r)) => Some(recvBuffer[handling], JoinsOf(r))
    BY <1>5, <2>1, SomeInTail
  <2>3. \A j \in Slots : Some(recvBuffer'[j], JoinsOf(r)) => Some(recvBuffer[j], JoinsOf(r))
    BY <1>5, <2>1, <2>2 DEF TypeOK
  <2>4. members'[r][s] > 0 => Joining(s, r)
    <3>1. CASE s = Handler /\ Packet \in JoinsOf(r)
      <4>1. Some(recvBuffer[handling], JoinsOf(r))
        BY <1>5, <2>1, <3>1, SomeHead DEF Packet
      <4> QED
        BY <2>1, <3>1, <4>1 DEF Joining, Handler
    <3>2. CASE ~(members'[r][s] > members[r][s]) /\ members'[r][s] > 0
      <4>1. members'[r][s] \in Nat
        <5>1. TypeOK'
          BY TypeStep
        <5> QED
          BY <5>1 DEF TypeOK
      <4>2. \A a, b \in Nat : ~(a > b) /\ a > 0 => b > 0
        OBVIOUS
      <4>3. members[r][s] > 0
        BY <1>b, <3>2, <4>1, <4>2
      <4> QED
        BY <4>3 DEF Joining
    <3> QED
      BY <1>5, <3>1, <3>2
  <2>5. Joining(s, r)' => Joining(s, r)
    BY <1>5, <2>3, <2>4 DEF Joining
  <2> QED
    BY <1>5, <2>5, JoinsKept
<1>6. CASE HandleJoin
  <2>1. /\ handling # NoSlot /\ recvBuffer[handling] # <<>> /\ Packet.type = "join"
        /\ recvBuffer' = [recvBuffer EXCEPT ![handling] = Tail(@)]
        /\ UNCHANGED <<clientSockets, conn, inbox, view, staleRooms>>
        /\ members' = [members EXCEPT ![Packet.room][Handler] = @ + 1]
    BY <1>6 DEF HandleJoin, Handling, PacketDone, clientVars, histVars
  <2>2. Handler \in Sockets /\ Packet.room \in Rooms /\ Packet \in ClientMsgs
    BY <2>1, PacketType
  <2>3. Packet \in JoinsOf(Packet.room)
    BY <2>1, <2>2 DEF ClientMsgs, Credentials, RoomCommands, JoinsOf
  <2>4. (s = Handler /\ r = Packet.room) \/ members'[r][s] = members[r][s]
    BY <2>1, <2>2 DEF TypeOK
  <2>5. conn[Handler] # "free" /\ ~(members[r][s] > members[r][s])
    BY <1>b, <2>1, <2>2, NamesAssumption DEF SlotsHoldDistinctOpenSockets, Handler, TypeOK
  <2> QED
    BY <1>5, <2>1, <2>3, <2>4, <2>5
<1>7. CASE HandleLeave
  <2>1. /\ handling # NoSlot /\ recvBuffer[handling] # <<>>
        /\ recvBuffer' = [recvBuffer EXCEPT ![handling] = Tail(@)]
        /\ UNCHANGED <<clientSockets, conn, inbox, view, staleRooms>>
        /\ members' = [members EXCEPT ![Packet.room] = EraseOne(@, Handler)]
        /\ Packet.type = "leave"
    BY <1>7 DEF HandleLeave, Handling, PacketDone, clientVars, histVars
  <2>2. Handler \in Sockets /\ Packet.room \in Rooms
    BY <2>1, PacketType
  <2>3. \/ members'[r][s] = members[r][s]
        \/ s = Handler /\ members'[r][s] = members[r][s] - 1
    BY <2>1, <2>2 DEF EraseOne, TypeOK
  <2>4. conn[Handler] # "free" /\ ~(members'[r][s] > members[r][s])
    <3>1. \A n \in Nat : ~(n > n) /\ ~(n - 1 > n)
      OBVIOUS
    <3> QED
      BY <1>b, <2>1, <2>2, <2>3, <3>1, NamesAssumption
         DEF SlotsHoldDistinctOpenSockets, Handler, TypeOK
  <2> QED
    BY <1>5, <2>1, <2>3, <2>4
<1>8. CASE HandleSay \/ HandleLeaveUnknown \/ HandleLogin \/ HandleRegister
  <2>1. /\ handling # NoSlot /\ recvBuffer[handling] # <<>>
        /\ recvBuffer' = [recvBuffer EXCEPT ![handling] = Tail(@)]
        /\ UNCHANGED <<clientSockets, conn, inbox, view, staleRooms, members>>
    BY <1>8 DEF HandleSay, HandleLeaveUnknown, HandleLogin, HandleRegister, AskAuth, Handling,
       PacketDone, clientVars, histVars
  <2>2. ~(members[r][s] > members[r][s])
    BY <1>b
  <2> QED
    BY <1>5, <2>1, <2>2
<1>9. ASSUME NEW u \in Sockets, NEW msg \in ClientMsgs, conn[u] = "open",
             inbox' = [inbox EXCEPT ![u] = Append(@, msg)],
             UNCHANGED <<clientSockets, recvBuffer, members, conn, staleRooms>>,
             view[s][r] # "never" => view'[s][r] # "never",
             s = u /\ msg \in JoinsOf(r) => view'[s][r] # "never"
      PROVE  Goal
  <2>1. inbox[s] \in Seq(ClientMsgs) /\ (s # u => inbox'[s] = inbox[s])
        /\ (s = u => inbox'[s] = Append(inbox[s], msg))
    BY <1>9 DEF TypeOK
  <2>2. Some(inbox'[s], JoinsOf(r)) => Some(inbox[s], JoinsOf(r)) \/ (s = u /\ msg \in JoinsOf(r))
    BY <2>1, SomeInAppend
  <2>3. Joining(s, r)' => Joining(s, r) \/ (s = u /\ msg \in JoinsOf(r))
    BY <1>9, <2>2 DEF Joining
  <2> QED
    BY <1>9, <2>3 DEF JoinsTravel
<1>10. ASSUME NEW u \in Sockets, ClientMenu(u)
       PROVE  Goal
  <2>1. PICK type \in Requests, e \in Emails : Send(u, [type |-> type, email |-> e])
    BY <1>10 DEF ClientMenu
  <2>2. [type |-> type, email |-> e] \in ClientMsgs /\ [type |-> type, email |-> e] \notin JoinsOf(r)
    BY BoundsAssumption DEF ClientMsgs, Credentials, JoinsOf
  <2>3. UNCHANGED <<view, staleRooms>>
    BY <1>10 DEF ClientMenu
  <2> QED
    BY <1>9, <2>1, <2>2, <2>3 DEF Send, serverVars
<1>11. ASSUME NEW u \in Sockets, ClientCommand(u)
       PROVE  Goal
  <2>1. PICK type \in {"join", "say", "leave"}, q \in Rooms :
           /\ Send(u, [type |-> type, room |-> q])
           /\ view' = [view EXCEPT ![u][q] = ViewAfter(@, type)]
    BY <1>11 DEF ClientCommand
  <2>2. [type |-> type, room |-> q] \in ClientMsgs
    BY DEF ClientMsgs, RoomCommands
  <2>3. view'[s][r] = view[s][r] \/ (s = u /\ r = q /\ view'[s][r] = ViewAfter(view[s][r], type))
    BY <2>1 DEF TypeOK
  <2>4. view[s][r] # "never" => view'[s][r] # "never"
    BY <2>3 DEF ViewAfter
  <2>5. ASSUME s = u, [type |-> type, room |-> q] \in JoinsOf(r)
        PROVE  view'[s][r] # "never"
    <3>1. type = "join" /\ q = r
      BY <2>5 DEF JoinsOf
    <3>2. view'[s][r] = ViewAfter(view[s][r], type)
      BY <2>1, <2>5, <3>1 DEF TypeOK
    <3> QED
      BY <3>1, <3>2 DEF ViewAfter
  <2>6. UNCHANGED staleRooms
    BY <1>11 DEF ClientCommand, histVars
  <2> QED
    BY <1>9, <2>1, <2>2, <2>4, <2>5, <2>6 DEF Send, serverVars
<1>12. ASSUME NEW u \in Sockets, ClientQuits(u) \/ ClientDies(u)
       PROVE  Goal
  <2>1. /\ UNCHANGED <<clientSockets, recvBuffer, members, staleRooms>>
        /\ view' = [view EXCEPT ![u] = [q \in Rooms |-> "never"]]
        /\ inbox' = inbox \/ inbox' = [inbox EXCEPT ![u] = <<>>]
        /\ conn'[u] \notin {"open", "free"}
        /\ s # u => conn'[s] = conn[s]
    BY <1>12 DEF ClientQuits, ClientDies, ClientGone, serverVars, TypeOK
  <2>2. CASE s = u
    BY <2>1, <2>2
  <2>3. CASE s # u
    <3>1. inbox'[s] = inbox[s] /\ view'[s] = view[s] /\ conn'[s] = conn[s]
      BY <2>1, <2>3 DEF TypeOK
    <3>2. Joining(s, r)' => Joining(s, r)
      BY <2>1, <3>1 DEF Joining
    <3> QED
      BY <2>1, <3>1, <3>2 DEF JoinsTravel
  <2> QED
    BY <2>2, <2>3
<1>13. CASE UNCHANGED <<clientSockets, recvBuffer, members, conn, inbox, view, staleRooms>>
  <2>1. Joining(s, r)' <=> Joining(s, r)
    BY <1>13 DEF Joining
  <2> QED
    BY <1>13, <2>1 DEF JoinsTravel
<1>14. ASSUME NEW u \in Sockets, ClientReceive(u)
       PROVE  Goal
  BY <1>13, <1>14 DEF ClientReceive, serverVars
<1>15. CASE AuthThread \/ AuthServe \/ LinkFails \/ SelectFails \/ UNCHANGED vars
  BY <1>13, <1>15 DEF AuthThread, AuthStart, AuthConnect, StartsUp, AuthReceive, AuthFind,
     AuthStore, AuthServe, LinkFails, SelectFails, vars, serverVars, clientVars, histVars
<1> QED
  BY <1>1, <1>2, <1>3, <1>4, <1>6, <1>7, <1>8, <1>10, <1>11, <1>12, <1>14, <1>15
     DEF Next, ServeSlot, HandleMessage

\* A handle takes no membership from one client to the next, except in the ways
\* that set it apart: whoever is in a room joined it in this connection.
THEOREM JoinedCorrect == Spec => []MembersJoined
<1>1. Init => JoinsTravel
  <2>1. \A S : ~Some(<<>>, S)
    BY DEF Some
  <2> QED
    BY <2>1 DEF Init, JoinsTravel, Joining
<1>2. TypeOK /\ JoinsTravel => MembersJoined
  BY DEF JoinsTravel, Joining, MembersJoined
<1>3. Spec => []TypeOK /\ []SlotsHoldDistinctOpenSockets /\ []GrantsTravel
  BY TypeCorrect, SlotsCorrect, TravelCorrect
<1> QED
  BY <1>1, <1>2, <1>3, JoinsStep, PTL DEF Spec

-----------------------------------------------------------------------------
(***************************************************************************)
(* Requests and verdicts on their way.                                     *)
(***************************************************************************)

LEMMA BroadcastKeeps ==
    ASSUME TypeOK, NEW m \in [Sockets -> Nat], NEW msg \in ServerMsgs, Broadcast(m, msg)
    PROVE  \A s \in Sockets : \A S : Some(wire[s], S) => Some(wire'[s], S)
<1> SUFFICES ASSUME NEW s \in Sockets, NEW S, Some(wire[s], S)
             PROVE  Some(wire'[s], S)
  OBVIOUS
<1>1. wire[s] \in Seq(ServerMsgs) /\ [k \in 1..m[s] |-> msg] \in Seq(ServerMsgs)
  <2>1. m[s] \in Nat /\ \A k \in 1..m[s] : msg \in ServerMsgs
    OBVIOUS
  <2>2. [k \in 1..m[s] |-> msg] \in Seq(ServerMsgs)
    BY <2>1, IsASeq
  <2> QED
    BY <2>2 DEF TypeOK
<1>2. Some(wire[s] \o [k \in 1..m[s] |-> msg], S)
  BY <1>1, SomeConcat
<1> QED
  BY <1>2 DEF Broadcast

LEMMA ReplyKeeps ==
    ASSUME TypeOK, Alive, NEW u \in Sockets, NEW v \in Verdicts, Reply(u, v)
    PROVE  /\ \A s \in Sockets : \A S : Some(wire[s], S) => Some(wire'[s], S)
           /\ conn[u] = "open" => Some(wire'[u], [type: Verdicts])
<1>1. [type |-> v] \in ServerMsgs /\ [type |-> v] \in [type: Verdicts]
  BY DEF ServerMsgs
<1>2. \A s \in Sockets : wire[s] \in Seq(ServerMsgs)
  BY DEF TypeOK
<1>3. \A s \in Sockets : \A S :
        Some(wire[s], S) \/ [type |-> v] \in S => Some(Append(wire[s], [type |-> v]), S)
  BY <1>1, <1>2, SomeAppend
<1>4. /\ \A s \in Sockets : wire'[s] = wire[s] \/ wire'[s] = Append(wire[s], [type |-> v])
      /\ conn[u] = "open" => wire'[u] = Append(wire[u], [type |-> v])
  BY DEF Reply, Carries, TypeOK
<1> QED
  BY <1>1, <1>3, <1>4

\* Handling a packet that is no request.
LEMMA CommandKeeps ==
    ASSUME TypeOK, NEW type, Handling(type), type \notin {"login", "register"},
           recvBuffer' = [recvBuffer EXCEPT ![handling] = Tail(@)]
    PROVE  \A i \in Slots : Some(recvBuffer[i], Credentials) => Some(recvBuffer'[i], Credentials)
<1>1. handling \in Slots /\ \A i \in Slots : recvBuffer[i] \in Seq(ClientMsgs)
  BY DEF TypeOK, Handling
<1>2. Head(recvBuffer[handling]) \notin Credentials /\ recvBuffer[handling] # <<>>
  BY DEF Handling, Packet, Credentials
<1>3. Some(recvBuffer[handling], Credentials) => Some(Tail(recvBuffer[handling]), Credentials)
  BY <1>1, <1>2, SomeTail
<1> QED
  BY <1>1, <1>3 DEF TypeOK

\* A client that listens is connected.
ListenersOpen == \A s \in listening : conn[s] = "open"

LEMMA ListenersStep == TypeOK /\ ListenersOpen /\ [Next]_vars => ListenersOpen'
<1> SUFFICES ASSUME TypeOK, ListenersOpen, [Next]_vars
             PROVE  ListenersOpen'
  OBVIOUS
<1> USE DEF TypeOK, ListenersOpen, clientVars
<1>1. ASSUME NEW s \in Sockets, Connected(s)
      PROVE  ListenersOpen'
  BY <1>1 DEF Connected
<1>2. ASSUME NEW i \in Slots, RecvZero(i) \/ RecvReset(i)
      PROVE  ListenersOpen'
  BY <1>2 DEF RecvZero, RecvReset, FreeSlot
<1>3. ASSUME NEW s \in Sockets, ClientMenu(s)
      PROVE  ListenersOpen'
  BY <1>3 DEF ClientMenu, Send
<1>4. ASSUME NEW s \in Sockets, ClientReceive(s)
      PROVE  ListenersOpen'
  BY <1>4 DEF ClientReceive
<1>5. ASSUME NEW s \in Sockets, ClientQuits(s) \/ ClientDies(s)
      PROVE  ListenersOpen'
  BY <1>5 DEF ClientQuits, ClientDies, ClientGone
<1>6. CASE UNCHANGED <<listening, conn>>
  BY <1>6
<1> QED
  BY <1>1, <1>2, <1>3, <1>4, <1>5, <1>6
     DEF Next, vars, ServeSlot, HandleMessage, HandleLogin, HandleRegister, HandleJoin, AskAuth,
         HandleSay, HandleLeave, HandleLeaveUnknown, AcceptIntoSlot, AcceptWithoutSlot,
         RecvData, ClientCommand, Send, AuthThread, AuthStart, AuthConnect, StartsUp, AuthReceive,
         AuthFind, AuthStore, AuthServe, LinkFails, SelectFails

RequestsOf(s) == {req \in AuthRequests : req.sock = s}
AnswersOf(s)  == {ans \in AuthAnswers : ans.sock = s}

\* A step that takes nothing off the way.
LEMMA NothingDropped ==
    ASSUME NEW s \in Sockets, UnderWay(s),
           Some(inbox[s], Credentials) => Some(inbox'[s], Credentials),
           \A i \in Slots : clientSockets[i] = s /\ Some(recvBuffer[i], Credentials) =>
                clientSockets'[i] = s /\ Some(recvBuffer'[i], Credentials),
           Some(authRequests, RequestsOf(s)) => Some(authRequests', RequestsOf(s)),
           Some(authAnswers, AnswersOf(s)) => Some(authAnswers', AnswersOf(s)),
           Some(wire[s], [type: Verdicts]) => Some(wire'[s], [type: Verdicts])
    PROVE  UnderWay(s)'
  BY DEF UnderWay, RequestsOf, AnswersOf

\* What Drops throws away of a client that waits is remembered.
LEMMA DropsNoted ==
    ASSUME NEW q, Drops(q), NEW s, s \in Waiting, NEW S, \A p \in S : p.sock = s, Some(q, S)
    PROVE  s \in lost'
  BY DEF Drops, Some

\* A request is passed on to the link, or noted as dropped.
LEMMA AskKeeps ==
    ASSUME TypeOK, NEW type \in {"login", "register"}, AskAuth(type),
           NEW s \in Sockets, s \in Waiting, s \notin lost', UnderWay(s)
    PROVE  UnderWay(s)'
<1> DEFINE req == [type |-> type, sock |-> Handler, email |-> Packet.email]
<1>1. /\ SendToAuth(req) /\ UNCHANGED <<clientSockets, inbox, wire>>
      /\ recvBuffer' = [recvBuffer EXCEPT ![handling] = Tail(@)]
      /\ handling # NoSlot /\ recvBuffer[handling] # <<>>
  BY DEF AskAuth, PacketDone, Handling
<1>2. Handler \in Sockets /\ Packet.email \in Emails
  BY <1>1, PacketType DEF AskAuth, Handling
<1>3. /\ req \in AuthRequests /\ req.sock = Handler
      /\ authRequests \in Seq(AuthRequests) /\ authAnswers \in Seq(AuthAnswers)
  BY <1>2 DEF AuthRequests, TypeOK
<1> HIDE DEF req
<1>4. /\ s = Handler => Some(authRequests', RequestsOf(s))
      /\ Some(authRequests, RequestsOf(s)) => Some(authRequests', RequestsOf(s))
      /\ Some(authAnswers, AnswersOf(s)) => Some(authAnswers', AnswersOf(s))
  <2>1. CASE authRequests' = Append(authRequests, req) /\ UNCHANGED authAnswers
    <3>1. s = Handler => req \in RequestsOf(s)
      BY <1>3 DEF RequestsOf
    <3> QED
      BY <1>3, <2>1, <3>1, SomeAppend
  <2>2. CASE Drops(<<req>>) /\ UNCHANGED linkVars
    <3>1. s # Handler
      <4>1. Some(<<req>>, {req})
        BY DEF Some
      <4> QED
        BY <1>3, <2>2, <4>1, DropsNoted
    <3> QED
      BY <2>2, <3>1 DEF linkVars
  <2>3. CASE Drops(Append(authAnswers, req)) /\ UNCHANGED authRequests
    <3>1. authAnswers \in Seq(AuthAnswers \cup AuthRequests)
          /\ req \in AuthAnswers \cup AuthRequests
      BY <1>3, SeqMonotonic
    <3>2. \A S : Some(authAnswers, S) \/ req \in S => Some(Append(authAnswers, req), S)
      BY <3>1, SomeAppend
    <3>3. s # Handler
      <4>1. Some(Append(authAnswers, req), {req})
        BY <3>2
      <4> QED
        BY <1>3, <2>3, <4>1, DropsNoted
    <3>4. ~Some(authAnswers, AnswersOf(s))
      <4> SUFFICES ASSUME Some(authAnswers, AnswersOf(s))
                   PROVE  FALSE
        OBVIOUS
      <4>1. Some(Append(authAnswers, req), AnswersOf(s)) /\ \A p \in AnswersOf(s) : p.sock = s
        BY <3>2 DEF AnswersOf
      <4> QED
        BY <2>3, <4>1, DropsNoted
    <3> QED
      BY <2>3, <3>3, <3>4
  <2> QED
    BY <1>1, <2>1, <2>2, <2>3 DEF SendToAuth
<1>5. CASE s = Handler
  BY <1>4, <1>5 DEF UnderWay, RequestsOf
<1>6. CASE s # Handler
  <2>1. ASSUME NEW i \in Slots, clientSockets[i] = s
        PROVE  recvBuffer'[i] = recvBuffer[i]
    <3>1. i # handling
      BY <1>6, <2>1 DEF Handler
    <3> QED
      BY <1>1, <3>1 DEF TypeOK
  <2> QED
    BY <1>1, <1>4, <2>1, NothingDropped
<1> QED
  BY <1>5, <1>6

\* A queue of which one recv took n packets: the kind that was in it is the first,
\* is still there, or is among those the receiver drops.
LEMMA BatchKeeps ==
    ASSUME NEW T, NEW q \in Seq(T), NEW n \in Nat, 1 <= n, n <= Len(q),
           Drops(SubSeq(q, 2, n)), NEW s, s \in Waiting, s \notin lost',
           NEW S, \A p \in S : p.sock = s, Some(q, S), Head(q) \notin S
    PROVE  Some(SubSeq(q, n + 1, Len(q)), S)
<1>1. ~Some(SubSeq(q, 2, n), S)
  BY DropsNoted
<1> QED
  BY <1>1, SomeMiddle

\* The first request of a recv is answered.
LEMMA ServeKeeps ==
    ASSUME TypeOK, AuthServe,
           NEW s \in Sockets, s \in Waiting, s \notin lost', UnderWay(s)
    PROVE  UnderWay(s)'
<1> DEFINE req == Head(authRequests)
<1>1. UNCHANGED <<inbox, clientSockets, recvBuffer, wire>>
  BY DEF AuthServe, serverVars
<1>2. PICK n \in 1..MaxAuthBatch :
         /\ n <= Len(authRequests)
         /\ authRequests' = SubSeq(authRequests, n + 1, Len(authRequests))
         /\ Drops(SubSeq(authRequests, 2, n))
  BY DEF AuthServe
<1>3. PICK v \in VerdictsOn(req) : authAnswers' = authAnswers \o AnswersTo(req, v)
  BY DEF AuthServe
<1>4. /\ n \in Nat /\ 1 <= n /\ authRequests \in Seq(AuthRequests) /\ req \in AuthRequests
  <2>1. n \in Nat /\ 1 <= n /\ authRequests \in Seq(AuthRequests)
    BY BoundsAssumption DEF TypeOK
  <2>2. authRequests # <<>>
    BY <1>2, <2>1, EmptySeq
  <2> QED
    BY <2>1, <2>2, HeadTailProperties
<1> HIDE DEF req
<1>5. authAnswers \in Seq(AuthAnswers) /\ AnswersTo(req, v) \in Seq(AuthAnswers)
  BY <1>4, AnswersType DEF TypeOK
<1>6. \A S : Some(authAnswers, S) \/ Some(AnswersTo(req, v), S) => Some(authAnswers', S)
  BY <1>3, <1>5, SomeConcat
<1>7. CASE req.sock = s
  <2>1. 1 \in DOMAIN v
    BY <1>3 DEF VerdictsOn
  <2>2. 1 \in DOMAIN AnswersTo(req, v) /\ AnswersTo(req, v)[1].sock = s
    BY <1>7, <2>1 DEF AnswersTo
  <2>3. AnswersTo(req, v)[1] \in AuthAnswers
    <3>1. DOMAIN AnswersTo(req, v) = 1..Len(AnswersTo(req, v))
      BY <1>5, LenProperties
    <3> QED
      BY <1>5, <2>2, <3>1, ElementOfSeq
  <2>4. Some(AnswersTo(req, v), AnswersOf(s))
    BY <2>2, <2>3 DEF Some, AnswersOf
  <2>5. Some(authAnswers', AnswersOf(s))
    BY <1>6, <2>4
  <2> QED
    BY <2>5 DEF UnderWay, AnswersOf
<1>8. CASE req.sock # s
  <2>1. Head(authRequests) \notin RequestsOf(s) /\ \A p \in RequestsOf(s) : p.sock = s
    BY <1>8 DEF RequestsOf, req
  <2>2. Some(authRequests, RequestsOf(s)) => Some(authRequests', RequestsOf(s))
    BY <1>2, <1>4, <2>1, BatchKeeps
  <2> QED
    BY <1>1, <1>6, <2>2, NothingDropped
<1> QED
  BY <1>7, <1>8

\* The first answer of a recv is passed on to its client.
LEMMA AnswerKeeps ==
    ASSUME TypeOK, Alive, AuthReceive,
           NEW s \in Sockets, conn[s] = "open", s \in Waiting, s \notin lost', UnderWay(s)
    PROVE  UnderWay(s)'
<1> DEFINE ans == Head(authAnswers)
<1>1. UNCHANGED <<inbox, clientSockets, recvBuffer, authRequests>> /\ Reply(ans.sock, ans.type)
  BY DEF AuthReceive, serverVars
<1>2. PICK n \in 1..MaxAuthBatch :
         /\ n <= Len(authAnswers)
         /\ authAnswers' = SubSeq(authAnswers, n + 1, Len(authAnswers))
         /\ Drops(SubSeq(authAnswers, 2, n))
  BY DEF AuthReceive
<1>3. /\ n \in Nat /\ 1 <= n /\ authAnswers \in Seq(AuthAnswers) /\ ans \in AuthAnswers
  <2>1. n \in Nat /\ 1 <= n /\ authAnswers \in Seq(AuthAnswers)
    BY BoundsAssumption DEF TypeOK
  <2>2. authAnswers # <<>>
    BY <1>2, <2>1, EmptySeq
  <2> QED
    BY <2>1, <2>2, HeadTailProperties
<1> HIDE DEF ans
<1>4. ans.sock \in Sockets /\ ans.type \in Verdicts
  BY <1>3 DEF AuthAnswers
<1>5. /\ \A S : Some(wire[s], S) => Some(wire'[s], S)
      /\ ans.sock = s => Some(wire'[s], [type: Verdicts])
  BY <1>1, <1>4, ReplyKeeps
<1>6. CASE ans.sock = s
  BY <1>5, <1>6 DEF UnderWay
<1>7. CASE ans.sock # s
  <2>1. Head(authAnswers) \notin AnswersOf(s) /\ \A p \in AnswersOf(s) : p.sock = s
    BY <1>7 DEF AnswersOf, ans
  <2>2. Some(authAnswers, AnswersOf(s)) => Some(authAnswers', AnswersOf(s))
    BY <1>2, <1>3, <2>1, BatchKeeps
  <2> QED
    BY <1>1, <1>5, <2>2, NothingDropped
<1> QED
  BY <1>6, <1>7

\* The link takes the requests with it, and no answer.
LEMMA FailKeeps ==
    ASSUME TypeOK, LinkFails,
           NEW s \in Sockets, s \in Waiting, s \notin lost', UnderWay(s)
    PROVE  UnderWay(s)'
<1>1. /\ UNCHANGED <<inbox, clientSockets, recvBuffer, authAnswers, wire>>
      /\ Drops(authRequests)
  BY DEF LinkFails, serverVars
<1>2. \A p \in RequestsOf(s) : p.sock = s
  BY DEF RequestsOf
<1>3. ~Some(authRequests, RequestsOf(s))
  BY <1>1, <1>2, DropsNoted
<1> QED
  BY <1>1, <1>3, NothingDropped

\* What recv takes from the connection is in the buffer of the slot.
LEMMA RecvKeeps ==
    ASSUME TypeOK, NEW i \in Slots, RecvData(i), NEW s \in Sockets, UnderWay(s)
    PROVE  UnderWay(s)'
<1> DEFINE u == clientSockets[i]
<1>1. /\ u \in Sockets /\ inbox[u] \in Seq(ClientMsgs) /\ recvBuffer[i] \in Seq(ClientMsgs)
      /\ UNCHANGED <<clientSockets, authRequests, authAnswers, wire>>
  BY DEF RecvData, TypeOK, linkVars
<1>2. PICK n \in 1..MaxRecvBatch :
         /\ n <= Len(inbox[u])
         /\ recvBuffer' = [recvBuffer EXCEPT ![i] = @ \o SubSeq(inbox[u], 1, n)]
         /\ inbox' = [inbox EXCEPT ![u] = SubSeq(@, n + 1, Len(@))]
  BY DEF RecvData
<1> HIDE DEF u
<1>3. n \in Nat
  BY BoundsAssumption
<1>4. SubSeq(inbox[u], 1, n) \in Seq(ClientMsgs)
  BY <1>1, <1>2, <1>3, SplitType
<1>5. \A S : Some(recvBuffer[i], S) \/ Some(SubSeq(inbox[u], 1, n), S) => Some(recvBuffer'[i], S)
  <2>0. recvBuffer \in [Slots -> Seq(ClientMsgs)]
    BY DEF TypeOK
  <2>1. recvBuffer'[i] = recvBuffer[i] \o SubSeq(inbox[u], 1, n)
    BY <1>2, <2>0
  <2>2. ASSUME NEW S, Some(recvBuffer[i], S) \/ Some(SubSeq(inbox[u], 1, n), S)
        PROVE  Some(recvBuffer'[i], S)
    <3>1. Some(recvBuffer[i] \o SubSeq(inbox[u], 1, n), S)
      BY <1>1, <1>4, <2>2, SomeConcat
    <3> QED
      BY <2>1, <3>1
  <2> QED
    BY <2>2
<1>6. \A j \in Slots : j # i => recvBuffer'[j] = recvBuffer[j]
  BY <1>2 DEF TypeOK
<1>7. ASSUME s = u, Some(inbox[s], Credentials)
      PROVE  Some(inbox'[s], Credentials) \/ Some(recvBuffer'[i], Credentials)
  <2>1. inbox'[s] = SubSeq(inbox[s], n + 1, Len(inbox[s]))
    BY <1>2, <1>7 DEF TypeOK
  <2> QED
    BY <1>1, <1>2, <1>3, <1>5, <1>7, <2>1, SomeSplit
<1>8. CASE s = u /\ Some(recvBuffer'[i], Credentials)
  <2>1. clientSockets'[i] = s
    BY <1>1, <1>8 DEF u
  <2> QED
    BY <1>8, <2>1 DEF UnderWay
<1>9. CASE ~(s = u /\ Some(recvBuffer'[i], Credentials))
  <2>1. s # u => inbox'[s] = inbox[s]
    BY <1>2 DEF TypeOK
  <2>2. \A j \in Slots : clientSockets[j] = s /\ Some(recvBuffer[j], Credentials) =>
            clientSockets'[j] = s /\ Some(recvBuffer'[j], Credentials)
    BY <1>1, <1>5, <1>6
  <2> QED
    BY <1>1, <1>7, <1>9, <2>1, <2>2, NothingDropped
<1> QED
  BY <1>8, <1>9

\* A packet of the chat is handled.
LEMMA ChatKeeps ==
    ASSUME TypeOK, NEW s \in Sockets, UnderWay(s),
           HandleJoin \/ HandleSay \/ HandleLeave \/ HandleLeaveUnknown
    PROVE  UnderWay(s)'
<1>1. /\ UNCHANGED <<clientSockets, inbox, authRequests, authAnswers>>
      /\ recvBuffer' = [recvBuffer EXCEPT ![handling] = Tail(@)]
      /\ \E type \in {"join", "say", "leave"} : Handling(type)
  BY DEF HandleJoin, HandleSay, HandleLeave, HandleLeaveUnknown, PacketDone, linkVars
<1>2. \A i \in Slots : Some(recvBuffer[i], Credentials) => Some(recvBuffer'[i], Credentials)
  BY <1>1, CommandKeeps
<1>3. Packet.room \in Rooms
  BY <1>1, PacketType DEF Handling
<1>4. \A S : Some(wire[s], S) => Some(wire'[s], S)
  <2>1. CASE HandleJoin
    <3>1. Notice("joined") \in ServerMsgs /\ members'[Packet.room] \in [Sockets -> Nat]
      <4>1. members' \in [Rooms -> [Sockets -> Nat]]
        <5>1. Next
          BY <2>1 DEF Next, HandleMessage
        <5>2. TypeOK'
          BY <5>1, TypeStep
        <5> QED
          BY <5>2 DEF TypeOK
      <4>2. NameOf(Handler) \in Names
        BY <1>1, <2>1, PacketType, NameLookupType DEF HandleJoin, Handling
      <4> QED
        BY <1>3, <4>1, <4>2, NoticeType
    <3> QED
      BY <2>1, <3>1, BroadcastKeeps DEF HandleJoin
  <2>2. ASSUME NEW type \in {"said", "left"}, Broadcast(members[Packet.room], Notice(type)),
               NameLookup(Handler)
        PROVE  \A S : Some(wire[s], S) => Some(wire'[s], S)
    <3>1. Notice(type) \in ServerMsgs /\ members[Packet.room] \in [Sockets -> Nat]
      <4>1. NameOf(Handler) \in Names
        BY <1>1, <2>2, PacketType, NameLookupType DEF Handling
      <4> QED
        BY <1>3, <4>1, NoticeType DEF TypeOK
    <3> QED
      BY <2>2, <3>1, BroadcastKeeps
  <2>3. CASE HandleLeaveUnknown
    BY <2>3 DEF HandleLeaveUnknown
  <2> QED
    BY <2>1, <2>2, <2>3 DEF HandleSay, HandleLeave
<1> QED
  BY <1>1, <1>2, <1>4, NothingDropped
\* A client's own step.
LEMMA ClientKeeps ==
    ASSUME TypeOK, NEW u \in Sockets, ClientReceive(u) \/ ClientCommand(u) \/ ClientMenu(u)
                                      \/ ClientQuits(u) \/ ClientDies(u),
           NEW s \in Sockets, s \in Waiting', s \notin lost',
           s \in Waiting \ lost => UnderWay(s)
    PROVE  UnderWay(s)'
<1>1. ASSUME NEW m \in ClientMsgs, Send(u, m), s = u => UnderWay(s) \/ m \in Credentials,
             s # u => UnderWay(s)
      PROVE  UnderWay(s)'
  <2>1. /\ inbox[u] \in Seq(ClientMsgs)
        /\ inbox' = [inbox EXCEPT ![u] = Append(@, m)]
        /\ UNCHANGED <<clientSockets, recvBuffer, authRequests, authAnswers, wire>>
    BY <1>1 DEF Send, serverVars, linkVars, TypeOK
  <2>2. \A S : Some(inbox[u], S) \/ m \in S => Some(inbox'[u], S)
    <3>1. inbox'[u] = Append(inbox[u], m)
      BY <2>1 DEF TypeOK
    <3> QED
      BY <2>1, <3>1, SomeAppend
  <2>3. \A S : Some(inbox[s], S) => Some(inbox'[s], S)
    BY <2>1, <2>2 DEF TypeOK
  <2>4. CASE UnderWay(s)
    BY <2>1, <2>3, <2>4, NothingDropped
  <2>5. CASE s = u /\ m \in Credentials
    <3>1. Some(inbox'[s], Credentials)
      BY <2>2, <2>5
    <3> QED
      BY <3>1 DEF UnderWay
  <2> QED
    BY <1>1, <2>4, <2>5
<1>2. CASE ClientMenu(u)
  <2>1. PICK type \in Requests, e \in Emails : Send(u, [type |-> type, email |-> e])
    BY <1>2 DEF ClientMenu
  <2>2. [type |-> type, email |-> e] \in Credentials
    BY <2>1, BoundsAssumption DEF Credentials
  <2>3. s # u => s \in Waiting \ lost
    BY <1>2, <2>1 DEF ClientMenu, Send, Waiting
  <2> QED
    BY <1>1, <2>1, <2>2, <2>3 DEF ClientMsgs
<1>3. CASE ClientCommand(u)
  <2>1. PICK type \in {"join", "say", "leave"}, r \in Rooms : Send(u, [type |-> type, room |-> r])
    BY <1>3 DEF ClientCommand
  <2>2. [type |-> type, room |-> r] \in ClientMsgs
    BY <2>1 DEF ClientMsgs, RoomCommands
  <2>3. s \in Waiting \ lost
    BY <1>3, <2>1 DEF ClientCommand, Send, Waiting, histVars
  <2> QED
    BY <1>1, <2>1, <2>2, <2>3
<1>4. CASE ClientReceive(u)
  <2>1. /\ wire[u] \in Seq(ServerMsgs) /\ wire[u] # <<>>
        /\ wire' = [wire EXCEPT ![u] = Tail(@)]
        /\ UNCHANGED <<clientSockets, recvBuffer, authRequests, authAnswers, inbox>>
    BY <1>4 DEF ClientReceive, serverVars, linkVars, TypeOK
  <2>2. s \in Waiting \ lost /\ (s = u => Head(wire[s]).type \notin Verdicts)
    <3>1. Head(wire[u]).type \in Verdicts => u \notin Waiting'
      BY <1>4 DEF ClientReceive, StartsChat, Waiting
    <3>2. listening' \subseteq listening /\ chatting \subseteq chatting'
      BY <1>4 DEF ClientReceive
    <3>3. s \in lost => s \in lost' \/ (s = u /\ Head(wire[u]).type \in Verdicts)
      BY <1>4 DEF ClientReceive
    <3> QED
      BY <3>1, <3>2, <3>3 DEF Waiting
  <2>3. Some(wire[s], [type: Verdicts]) => Some(wire'[s], [type: Verdicts])
    <3>1. CASE s = u
      <4>1. Head(wire[s]) \notin [type: Verdicts] /\ wire'[s] = Tail(wire[s])
        BY <2>1, <2>2, <3>1 DEF TypeOK
      <4> QED
        BY <2>1, <3>1, <4>1, SomeTail
    <3>2. CASE s # u
      BY <2>1, <3>2 DEF TypeOK
    <3> QED
      BY <3>1, <3>2
  <2> QED
    BY <2>1, <2>2, <2>3, NothingDropped
<1>5. CASE ClientQuits(u) \/ ClientDies(u)
  <2>1. s # u /\ s \in Waiting \ lost
    BY <1>5 DEF ClientQuits, ClientDies, ClientGone, Waiting
  <2>2. /\ UNCHANGED <<clientSockets, recvBuffer, authRequests, authAnswers>>
        /\ inbox'[s] = inbox[s] /\ wire'[s] = wire[s]
    BY <1>5, <2>1 DEF ClientQuits, ClientDies, ClientGone, serverVars, linkVars, TypeOK
  <2> QED
    BY <2>1, <2>2, NothingDropped
<1> QED
  BY <1>2, <1>3, <1>4, <1>5

LEMMA LoginsStep ==
    TypeOK /\ ListenersOpen /\ LoginsUnderWay /\ [Next]_vars => LoginsUnderWay'
<1> SUFFICES ASSUME TypeOK, ListenersOpen, LoginsUnderWay, [Next]_vars, Alive',
                    NEW s \in Waiting', s \notin lost'
             PROVE  UnderWay(s)'
  BY DEF LoginsUnderWay
<1>a. s \in Sockets
  <2>1. TypeOK'
    BY TypeStep
  <2> QED
    BY <2>1 DEF TypeOK, Waiting
<1>b. Alive
  <2>1. process' # process => process' \in {"cut", "ended"}
    <3>1. ASSUME NEW type \in {"login", "register"}, AskAuth(type)
          PROVE  process' # process => process' \in {"cut", "ended"}
      BY <3>1, Zenon DEF AskAuth, SendToAuth, linkVars, WSACleanup
    <3>2. CASE AuthConnect
      BY <3>2 DEF AuthConnect, WSACleanup
    <3>3. CASE SelectFails
      BY <3>3 DEF SelectFails
    <3>4. CASE UNCHANGED process
      BY <3>4
    <3> QED
      BY <3>1, <3>2, <3>3, <3>4
         DEF Next, vars, linkVars, ServeSlot, HandleMessage, HandleLogin, HandleRegister, HandleJoin,
             HandleSay, HandleLeave, HandleLeaveUnknown, AuthThread, AuthStart, AuthReceive, AuthFind,
             AuthStore, AuthServe, LinkFails, AcceptIntoSlot, AcceptWithoutSlot, Connected, RecvData,
             RecvZero, RecvReset, ClientMenu, ClientReceive, ClientCommand, ClientQuits, ClientDies,
             ClientGone, Send
  <2> QED
    BY <2>1 DEF Alive
<1>0. /\ s \in Waiting \ lost => UnderWay(s)
      /\ s \in Waiting => conn[s] = "open"
  BY <1>b DEF ListenersOpen, LoginsUnderWay, Waiting
<1>1. ASSUME NEW u \in Sockets, NEW i \in Slots, AcceptIntoSlot(u, i)
      PROVE  UnderWay(s)'
  <2>1. \A j \in Slots : clientSockets[j] = s => clientSockets'[j] = s
    BY <1>a, <1>1, NamesAssumption DEF AcceptIntoSlot, IsFirstFree, TypeOK
  <2>2. /\ UNCHANGED <<recvBuffer, authRequests, authAnswers, inbox, wire>>
        /\ s \in Waiting \ lost
    BY <1>1 DEF AcceptIntoSlot, Connected, linkVars, Waiting
  <2> QED
    BY <1>0, <1>a, <2>1, <2>2, NothingDropped
<1>2. ASSUME NEW i \in Slots, RecvZero(i) \/ RecvReset(i)
      PROVE  UnderWay(s)'
  <2>1. /\ s \in Waiting \ lost
        /\ UNCHANGED <<recvBuffer, authRequests, authAnswers, inbox, wire>>
    BY <1>2 DEF RecvZero, RecvReset, EndsConnection, clientVars, linkVars, Waiting
  <2>2. conn[clientSockets[i]] # "open" /\ clientSockets' = [clientSockets EXCEPT ![i] = NoSocket]
    BY <1>2 DEF RecvZero, RecvReset, FreeSlot
  <2>3. \A j \in Slots : clientSockets[j] = s => clientSockets'[j] = s
    BY <1>0, <1>a, <2>1, <2>2 DEF TypeOK
  <2> QED
    BY <1>0, <1>a, <2>1, <2>3, NothingDropped
<1>3. ASSUME NEW i \in Slots, RecvData(i)
      PROVE  UnderWay(s)'
  <2>1. s \in Waiting \ lost
    BY <1>3 DEF RecvData, clientVars, histVars, Waiting
  <2> QED
    BY <1>0, <1>a, <1>3, <2>1, RecvKeeps
<1>4. ASSUME NEW type \in {"login", "register"}, AskAuth(type)
      PROVE  UnderWay(s)'
  <2>1. s \in Waiting /\ lost \subseteq lost'
    <3>1. UNCHANGED <<listening, chatting>>
      BY <1>4 DEF AskAuth, clientVars
    <3>2. lost' = lost \/ \E q : Drops(q)
      BY <1>4, Zenon DEF AskAuth, SendToAuth
    <3> QED
      BY <3>1, <3>2 DEF Waiting, Drops
  <2> QED
    BY <1>0, <1>a, <1>4, <2>1, AskKeeps
<1>5. CASE HandleJoin \/ HandleSay \/ HandleLeave \/ HandleLeaveUnknown
  <2>1. s \in Waiting \ lost
    BY <1>5 DEF HandleJoin, HandleSay, HandleLeave, HandleLeaveUnknown, clientVars, histVars, Waiting
  <2> QED
    BY <1>0, <1>a, <1>5, <2>1, ChatKeeps
<1>6. CASE AuthReceive \/ AuthServe \/ LinkFails
  <2>1. s \in Waiting /\ lost \subseteq lost'
    BY <1>6 DEF AuthReceive, AuthServe, LinkFails, clientVars, Waiting, Drops
  <2> QED
    BY <1>0, <1>a, <1>b, <1>6, <2>1, AnswerKeeps, ServeKeeps, FailKeeps
<1>7. ASSUME NEW u \in Sockets, ClientReceive(u) \/ ClientCommand(u) \/ ClientMenu(u)
                                 \/ ClientQuits(u) \/ ClientDies(u)
      PROVE  UnderWay(s)'
  BY <1>0, <1>a, <1>7, ClientKeeps
<1>8. CASE \/ AuthStart \/ AuthConnect \/ AuthFind \/ AuthStore \/ SelectFails \/ UNCHANGED vars
           \/ \E u \in Sockets : AcceptWithoutSlot(u)
  <2>1. /\ UNCHANGED <<clientSockets, recvBuffer, authRequests, authAnswers, inbox, wire>>
        /\ s \in Waiting \ lost
    BY <1>8 DEF AuthStart, AuthConnect, StartsUp, AuthFind, AuthStore, SelectFails, vars,
       AcceptWithoutSlot, Connected, serverVars, linkVars, clientVars, histVars, Waiting
  <2> QED
    BY <1>0, <1>a, <2>1, NothingDropped
<1> QED
  BY <1>1, <1>2, <1>3, <1>4, <1>5, <1>6, <1>7, <1>8
     DEF Next, ServeSlot, HandleMessage, HandleLogin, HandleRegister, AuthThread

\* A client that waits in vain lost its request or its verdict in one of the ways
\* that are noted: with the link, or behind the first packet of one recv.
\* Everything else, both threads and every reuse of slots and handles, loses none.
THEOREM LoginsCorrect == Spec => []LoginsUnderWay
<1>1. Init => ListenersOpen /\ LoginsUnderWay
  BY DEF Init, ListenersOpen, LoginsUnderWay, Waiting
<1>2. Spec => []TypeOK
  BY TypeCorrect
<1> QED
  BY <1>1, <1>2, ListenersStep, LoginsStep, PTL DEF Spec
=============================================================================
