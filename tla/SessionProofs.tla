---------------------------- MODULE SessionProofs ----------------------------
(***************************************************************************)
(* What ChatServer takes its clients to be is ClientSession, for every     *)
(* handle: the interface on which ChatServer and ChatClient meet.          *)
(***************************************************************************)
EXTENDS ChatServerProofs

-----------------------------------------------------------------------------
(***************************************************************************)
(* Queues, as ClientSession compares them.                                 *)
(***************************************************************************)

\* A queue is the end of itself.
LEMMA ShorterSame ==
    ASSUME NEW S, NEW q \in Seq(S), NEW s
    PROVE  Session(s)!Shorter(q, q)
<1>1. q = SubSeq(q, 1, Len(q)) /\ Len(q) \in Nat
  BY SubSeqProperties, LenProperties
<1>2. 1 \in 1..(Len(q) + 1)
  BY <1>1
<1> QED
  BY <1>1, <1>2 DEF Session!Shorter

\* What a read leaves is the end of what there was.
LEMMA ShorterRest ==
    ASSUME NEW S, NEW q \in Seq(S), NEW n \in Nat, n <= Len(q), NEW s
    PROVE  Session(s)!Shorter(q, SubSeq(q, n + 1, Len(q)))
<1>1. Len(q) \in Nat
  BY LenProperties
<1>2. n + 1 \in 1..(Len(q) + 1)
  BY <1>1
<1> QED
  BY <1>2 DEF Session!Shorter

\* A queue that lost everything is the end of the old one.
LEMMA ShorterEmpty ==
    ASSUME NEW S, NEW q \in Seq(S), NEW s
    PROVE  Session(s)!Shorter(q, <<>>)
<1>1. Len(q) \in Nat
  BY LenProperties
<1>2. SubSeq(q, Len(q) + 1, Len(q)) = <<>>
  BY <1>1, SubSeqEmpty
<1>3. Len(q) + 1 \in 1..(Len(q) + 1)
  BY <1>1
<1> QED
  BY <1>2, <1>3 DEF Session!Shorter

\* What is appended to a queue makes it longer, unless it is nothing.
LEMMA LongerConcat ==
    ASSUME NEW S, NEW q \in Seq(S), NEW c \in Seq(S), NEW s
    PROVE  q \o c = q \/ Session(s)!Longer(q, q \o c)
<1> DEFINE all == q \o c
<1>1. /\ Len(q) \in Nat /\ Len(c) \in Nat
      /\ Len(all) = Len(q) + Len(c) /\ all \in Seq(S)
      /\ \A i \in 1..Len(q) : all[i] = q[i] /\ q[i] \in S
  BY LenProperties, ConcatProperties, ElementOfSeq
<1>2. CASE c = <<>>
  BY <1>2, ConcatEmptySeq
<1>3. CASE c # <<>>
  <2>1. Len(c) > 0
    BY <1>1, <1>3, EmptySeq
  <2> HIDE DEF all
  <2>2. /\ SubSeq(all, 1, Len(q)) \in Seq(S)
        /\ Len(SubSeq(all, 1, Len(q))) = Len(q)
        /\ \A i \in 1..Len(q) : SubSeq(all, 1, Len(q))[i] = all[i]
    <3>1. \A i \in 1..Len(q) : all[i] \in S
      BY <1>1
    <3>2. \A i \in 1..(Len(q) - 1 + 1) : SubSeq(all, 1, Len(q))[i] = all[1 + i - 1]
      BY <1>1, <3>1, SubSeqProperties
    <3>3. /\ SubSeq(all, 1, Len(q)) \in Seq(S)
          /\ Len(SubSeq(all, 1, Len(q))) = IF 1 <= Len(q) THEN Len(q) - 1 + 1 ELSE 0
      BY <1>1, <3>1, SubSeqProperties
    <3> QED
      BY <1>1, <3>2, <3>3
  <2>3. SubSeq(all, 1, Len(q)) = q
    BY <1>1, <2>2, SeqEqual
  <2>4. Len(all) > Len(q)
    BY <1>1, <2>1
  <2>5. Session(s)!Longer(q, all)
    BY <2>3, <2>4 DEF Session!Longer
  <2> QED
    BY <2>5 DEF all
<1> QED
  BY <1>2, <1>3

\* One more packet.
LEMMA LongerAppend ==
    ASSUME NEW S, NEW q \in Seq(S), NEW e \in S, NEW s
    PROVE  /\ Session(s)!Longer(q, Append(q, e))
           /\ \A types : e.type \in types => Session(s)!OneLonger(q, Append(q, e), types)
<1>1. /\ Len(q) \in Nat
      /\ Len(Append(q, e)) = Len(q) + 1
      /\ Append(q, e)[Len(q) + 1] = e
      /\ SubSeq(Append(q, e), 1, Len(q)) = q
  BY LenProperties, AppendProperties, SubSeqProperties
<1> QED
  BY <1>1 DEF Session!Longer, Session!OneLonger

-----------------------------------------------------------------------------
(***************************************************************************)
(* A handle that carries no connection is nobody's: nothing waits on it.   *)
(***************************************************************************)

IdleUnlessOpen ==
    \A s \in Sockets :
        conn[s] # "open" => s \notin listening /\ s \notin chatting /\ wire[s] = <<>>

LEMMA IdleStep == TypeOK /\ IdleUnlessOpen /\ [Next]_vars => IdleUnlessOpen'
<1> SUFFICES ASSUME TypeOK, IdleUnlessOpen, [Next]_vars,
                    NEW s \in Sockets, conn'[s] # "open"
             PROVE  s \notin listening' /\ s \notin chatting' /\ wire'[s] = <<>>
  BY DEF IdleUnlessOpen
<1> USE DEF TypeOK, IdleUnlessOpen, clientVars, serverVars
<1>1. ASSUME NEW t \in Sockets, Connected(t)
      PROVE  s \notin listening' /\ s \notin chatting' /\ wire'[s] = <<>>
  BY <1>1 DEF Connected
<1>2. ASSUME NEW i \in Slots, RecvZero(i) \/ RecvReset(i)
      PROVE  s \notin listening' /\ s \notin chatting' /\ wire'[s] = <<>>
  <2>1. conn[s] # "open" /\ UNCHANGED <<listening, chatting, wire>>
    BY <1>2 DEF RecvZero, RecvReset, FreeSlot
  <2> QED
    BY <2>1
<1>3. ASSUME NEW m, NEW msg, Broadcast(m, msg), UNCHANGED <<conn, listening, chatting>>
      PROVE  s \notin listening' /\ s \notin chatting' /\ wire'[s] = <<>>
  BY <1>3 DEF Broadcast, Carries
<1>4. CASE AuthReceive
  BY <1>4 DEF AuthReceive, Reply, Carries
<1>5. ASSUME NEW t \in Sockets, ClientMenu(t) \/ ClientReceive(t) \/ ClientCommand(t)
      PROVE  s \notin listening' /\ s \notin chatting' /\ wire'[s] = <<>>
  BY <1>5 DEF ClientMenu, ClientReceive, ClientCommand, Send
<1>6. ASSUME NEW t \in Sockets, ClientQuits(t) \/ ClientDies(t)
      PROVE  s \notin listening' /\ s \notin chatting' /\ wire'[s] = <<>>
  <2>1. /\ wire' = [wire EXCEPT ![t] = <<>>]
        /\ listening' = listening \ {t} /\ chatting' = chatting \ {t}
        /\ t # s => conn'[s] = conn[s]
    BY <1>6 DEF ClientQuits, ClientDies, ClientGone
  <2> QED
    BY <2>1
<1>7. CASE UNCHANGED <<conn, listening, chatting, wire>>
  BY <1>7
<1>8. ASSUME HandleJoin \/ HandleSay \/ HandleLeave
      PROVE  s \notin listening' /\ s \notin chatting' /\ wire'[s] = <<>>
  BY <1>3, <1>8 DEF HandleJoin, HandleSay, HandleLeave
<1> QED
  BY <1>1, <1>2, <1>4, <1>5, <1>6, <1>7, <1>8
     DEF Next, vars, ServeSlot, HandleMessage, HandleLogin, HandleRegister, AskAuth,
         HandleLeaveUnknown, AuthThread, AuthStart, AuthConnect, StartsUp, AuthFind, AuthStore,
         AuthServe, LinkFails, SelectFails, AcceptIntoSlot, AcceptWithoutSlot, RecvData

-----------------------------------------------------------------------------
(***************************************************************************)
(* Steps of one handle.                                                    *)
(***************************************************************************)

SessionNext(s) == [Session(s)!Next]_(Session(s)!session)

\* The server takes packets, or sends some over an open connection.
LEMMA ServerActsStep ==
    ASSUME TypeOK, NEW s \in Sockets,
           Session(s)!Shorter(inbox[s], inbox'[s]),
           \/ wire'[s] = wire[s]
           \/ conn[s] = "open" /\ Session(s)!Longer(wire[s], wire'[s]),
           conn'[s] = "open" <=> conn[s] = "open",
           UNCHANGED <<listening, chatting>>
    PROVE  SessionNext(s)
  BY DEF SessionNext, Session!Next, Session!ServerActs

LEMMA BroadcastStep ==
    ASSUME TypeOK, NEW s \in Sockets, NEW m \in [Sockets -> Nat], NEW msg \in ServerMsgs,
           Broadcast(m, msg), UNCHANGED <<inbox, conn, listening, chatting>>
    PROVE  SessionNext(s)
<1>1. inbox[s] \in Seq(ClientMsgs) /\ wire[s] \in Seq(ServerMsgs) /\ m[s] \in Nat
  BY DEF TypeOK
<1>2. Session(s)!Shorter(inbox[s], inbox'[s])
  BY <1>1, ShorterSame
<1>3. [k \in 1..m[s] |-> msg] \in Seq(ServerMsgs)
  BY <1>1, IsASeq
<1>4. \/ wire'[s] = wire[s]
      \/ conn[s] = "open" /\ Session(s)!Longer(wire[s], wire'[s])
  BY <1>1, <1>3, LongerConcat DEF Broadcast, Carries
<1> QED
  BY <1>2, <1>4, ServerActsStep

LEMMA SessionStep ==
    TypeOK /\ IdleUnlessOpen /\ [Next]_vars => \A s \in Sockets : SessionNext(s)
<1> SUFFICES ASSUME TypeOK, IdleUnlessOpen, [Next]_vars, NEW s \in Sockets
             PROVE  SessionNext(s)
  OBVIOUS
<1> USE DEF serverVars, clientVars
<1>a. /\ inbox[s] \in Seq(ClientMsgs) /\ wire[s] \in Seq(ServerMsgs)
      /\ Session(s)!Shorter(inbox[s], inbox[s])
  BY ShorterSame DEF TypeOK
<1>b. ASSUME inbox'[s] = inbox[s], wire'[s] = wire[s],
             conn'[s] = "open" <=> conn[s] = "open", UNCHANGED <<listening, chatting>>
      PROVE  SessionNext(s)
  BY <1>a, <1>b, ServerActsStep
<1>1. ASSUME NEW t \in Sockets, Connected(t)
      PROVE  SessionNext(s)
  <2>1. CASE t # s
    BY <1>1, <1>b, <2>1 DEF Connected, TypeOK
  <2>2. CASE t = s
    <3>1. conn[s] = "free" /\ conn'[s] = "open" /\ UNCHANGED <<inbox, wire, listening, chatting>>
      BY <1>1, <2>2 DEF Connected, TypeOK
    <3>2. s \notin listening
      BY <3>1 DEF IdleUnlessOpen
    <3> QED
      BY <3>1, <3>2 DEF SessionNext, Session!Next, Session!Connect
  <2> QED
    BY <2>1, <2>2
<1>2. ASSUME NEW i \in Slots, RecvData(i)
      PROVE  SessionNext(s)
  <2> DEFINE t == clientSockets[i]
  <2>1. PICK n \in 1..MaxRecvBatch :
           n <= Len(inbox[t]) /\ inbox' = [inbox EXCEPT ![t] = SubSeq(@, n + 1, Len(@))]
    BY <1>2 DEF RecvData
  <2>2. n \in Nat /\ UNCHANGED <<conn, wire, listening, chatting>>
    BY <1>2, BoundsAssumption DEF RecvData
  <2>3. CASE t = s
    <3>1. inbox'[s] = SubSeq(inbox[s], n + 1, Len(inbox[s])) /\ n <= Len(inbox[s])
      BY <2>1, <2>3 DEF TypeOK
    <3>2. Session(s)!Shorter(inbox[s], inbox'[s])
      BY <1>a, <2>2, <3>1, ShorterRest
    <3> QED
      BY <2>2, <3>2, ServerActsStep
  <2>4. CASE t # s
    <3>1. inbox'[s] = inbox[s]
      BY <2>1, <2>4 DEF TypeOK
    <3> QED
      BY <1>b, <2>2, <3>1
  <2> QED
    BY <2>3, <2>4
<1>3. ASSUME NEW i \in Slots, RecvZero(i) \/ RecvReset(i)
      PROVE  SessionNext(s)
  <2>1. /\ conn' = [conn EXCEPT ![clientSockets[i]] = "free"]
        /\ conn[clientSockets[i]] # "open"
        /\ UNCHANGED <<inbox, wire, listening, chatting>>
    BY <1>3 DEF RecvZero, RecvReset, FreeSlot
  <2>2. conn'[s] = "open" <=> conn[s] = "open"
    BY <2>1 DEF TypeOK
  <2> QED
    BY <1>b, <2>1, <2>2
<1>4. CASE HandleJoin
  <2>1. /\ Handler \in Sockets /\ Packet.room \in Rooms
    BY <1>4, PacketType DEF HandleJoin, Handling
  <2>2. Notice("joined") \in ServerMsgs
    BY <1>4, <2>1, NameLookupType, NoticeType DEF HandleJoin
  <2>3. members'[Packet.room] \in [Sockets -> Nat]
    BY <1>4, <2>1 DEF HandleJoin, TypeOK
  <2> QED
    BY <1>4, <2>2, <2>3, BroadcastStep DEF HandleJoin
<1>5. CASE HandleSay \/ HandleLeave
  <2>1. /\ Handler \in Sockets /\ Packet.room \in Rooms
    BY <1>5, PacketType DEF HandleSay, HandleLeave, Handling
  <2>2. Notice("said") \in ServerMsgs /\ Notice("left") \in ServerMsgs
    BY <1>5, <2>1, NameLookupType, NoticeType DEF HandleSay, HandleLeave
  <2>3. members[Packet.room] \in [Sockets -> Nat]
    BY <2>1 DEF TypeOK
  <2> QED
    BY <1>5, <2>2, <2>3, BroadcastStep DEF HandleSay, HandleLeave
<1>6. CASE AuthReceive
  <2>1. /\ Reply(Head(authAnswers).sock, Head(authAnswers).type)
        /\ UNCHANGED <<inbox, conn, listening, chatting>>
    BY <1>6 DEF AuthReceive
  <2>2. Head(authAnswers) \in AuthAnswers
    <3>1. PICK n \in 1..MaxAuthBatch : n <= Len(authAnswers)
      BY <1>6 DEF AuthReceive
    <3>2. authAnswers \in Seq(AuthAnswers) /\ n \in Nat
      BY BoundsAssumption DEF TypeOK
    <3> QED
      BY <3>1, <3>2, HeadTailProperties, EmptySeq
  <2>3. [type |-> Head(authAnswers).type] \in ServerMsgs
    BY <2>2 DEF AuthAnswers, ServerMsgs
  <2>4. Session(s)!Longer(wire[s], Append(wire[s], [type |-> Head(authAnswers).type]))
    BY <1>a, <2>3, LongerAppend
  <2>5. \/ wire'[s] = wire[s]
        \/ conn[s] = "open" /\ Session(s)!Longer(wire[s], wire'[s])
    BY <2>1, <2>4 DEF Reply, Carries, TypeOK
  <2> QED
    BY <1>a, <2>1, <2>5, ServerActsStep
<1>7. ASSUME NEW t \in Sockets, ClientMenu(t)
      PROVE  SessionNext(s)
  <2>1. PICK type \in Requests, e \in Emails : Send(t, [type |-> type, email |-> e])
    BY <1>7 DEF ClientMenu
  <2>2. /\ listening' = listening \cup {t} /\ t \notin listening
        /\ UNCHANGED <<conn, wire, chatting>> /\ conn[t] = "open"
    BY <1>7, <2>1 DEF ClientMenu, Send
  <2>3. inbox' = [inbox EXCEPT ![t] = Append(@, [type |-> type, email |-> e])]
    BY <2>1 DEF Send
  <2>4. CASE t = s
    <3>1. inbox'[s] = Append(inbox[s], [type |-> type, email |-> e])
      BY <2>3, <2>4 DEF TypeOK
    <3>2. /\ [type |-> type, email |-> e] \in ClientMsgs
          /\ type \in {"login", "register"}
      BY BoundsAssumption DEF ClientMsgs, Credentials
    <3>3. Session(s)!OneLonger(inbox[s], inbox'[s], {"login", "register"})
      BY <1>a, <3>1, <3>2, LongerAppend
    <3> QED
      BY <2>2, <2>4, <3>3 DEF SessionNext, Session!Next, Session!Ask, Session!RequestTypes
  <2>5. CASE t # s
    <3>1. inbox'[s] = inbox[s] /\ (s \in listening' <=> s \in listening)
      BY <2>2, <2>3, <2>5 DEF TypeOK
    <3> QED
      BY <2>2, <3>1 DEF SessionNext, Session!session
  <2> QED
    BY <2>4, <2>5
<1>8. ASSUME NEW t \in Sockets, ClientReceive(t)
      PROVE  SessionNext(s)
  <2>1. /\ wire' = [wire EXCEPT ![t] = Tail(@)]
        /\ UNCHANGED <<conn, inbox>>
        /\ conn[t] = "open" /\ t \in listening /\ wire[t] # <<>>
    BY <1>8 DEF ClientReceive
  <2>2. /\ chatting' = IF Head(wire[t]).type = "authOk" THEN chatting \cup {t} ELSE chatting
        /\ listening' = IF Head(wire[t]).type \in Verdicts \ {"authOk"}
                        THEN listening \ {t} ELSE listening
    BY <1>8 DEF ClientReceive, StartsChat
  <2>3. CASE t = s
    <3>1. wire'[s] = Tail(wire[s])
      BY <2>1, <2>3 DEF TypeOK
    <3>2. s \in chatting' <=> (s \in chatting \/ Head(wire[s]).type = "authOk")
      BY <2>2, <2>3
    <3>3. s \in listening' <=> ~(Head(wire[s]).type \in Verdicts \ {"authOk"})
      BY <2>1, <2>2, <2>3
    <3>4. Session(s)!Verdicts = Verdicts
      BY DEF Session!Verdicts, Verdicts
    <3> QED
      BY <2>1, <2>3, <3>1, <3>2, <3>3, <3>4 DEF SessionNext, Session!Next, Session!Read
  <2>4. CASE t # s
    <3>1. /\ wire'[s] = wire[s] /\ (s \in listening' <=> s \in listening)
          /\ (s \in chatting' <=> s \in chatting)
      BY <2>1, <2>2, <2>4 DEF TypeOK
    <3> QED
      BY <2>1, <3>1 DEF SessionNext, Session!session
  <2> QED
    BY <2>3, <2>4
<1>9. ASSUME NEW t \in Sockets, ClientCommand(t)
      PROVE  SessionNext(s)
  <2>1. PICK type \in {"join", "say", "leave"}, r \in Rooms : Send(t, [type |-> type, room |-> r])
    BY <1>9 DEF ClientCommand
  <2>2. /\ UNCHANGED <<conn, wire, chatting, listening>>
        /\ conn[t] = "open" /\ t \in chatting
        /\ inbox' = [inbox EXCEPT ![t] = Append(@, [type |-> type, room |-> r])]
    BY <1>9, <2>1 DEF ClientCommand, Send
  <2>3. CASE t = s
    <3>1. inbox'[s] = Append(inbox[s], [type |-> type, room |-> r])
      BY <2>2, <2>3 DEF TypeOK
    <3>2. [type |-> type, room |-> r] \in ClientMsgs
      BY DEF ClientMsgs, RoomCommands
    <3>3. Session(s)!OneLonger(inbox[s], inbox'[s], {"join", "say", "leave"})
      BY <1>a, <3>1, <3>2, LongerAppend
    <3> QED
      BY <2>2, <2>3, <3>3 DEF SessionNext, Session!Next, Session!Command, Session!CommandTypes
  <2>4. CASE t # s
    <3>1. inbox'[s] = inbox[s]
      BY <2>2, <2>4 DEF TypeOK
    <3> QED
      BY <1>b, <2>2, <3>1
  <2> QED
    BY <2>3, <2>4
<1>10. ASSUME NEW t \in Sockets, ClientQuits(t) \/ ClientDies(t)
       PROVE  SessionNext(s)
  <2>1. /\ wire' = [wire EXCEPT ![t] = <<>>]
        /\ listening' = listening \ {t} /\ chatting' = chatting \ {t}
        /\ inbox' \in {inbox, [inbox EXCEPT ![t] = <<>>]}
        /\ conn'[t] # "open"
        /\ t # s => conn'[s] = conn[s]
    BY <1>10 DEF ClientQuits, ClientDies, ClientGone, TypeOK
  <2>2. CASE t # s
    <3>1. inbox'[s] = inbox[s] /\ wire'[s] = wire[s]
      BY <2>1, <2>2 DEF TypeOK
    <3> QED
      BY <2>1, <2>2, <3>1 DEF SessionNext, Session!session
  <2>3. CASE t = s
    <3>1. wire'[s] = <<>> /\ inbox'[s] \in {inbox[s], <<>>}
      BY <2>1, <2>3 DEF TypeOK
    <3>2. CASE conn[s] = "open"
      BY <2>1, <2>3, <3>1, <3>2 DEF SessionNext, Session!Next, Session!End
    <3>3. CASE conn[s] # "open"
      <4>1. wire'[s] = wire[s] /\ s \notin listening /\ s \notin chatting
        BY <3>1, <3>3 DEF IdleUnlessOpen
      <4>2. Session(s)!Shorter(inbox[s], inbox'[s])
        BY <1>a, <3>1, ShorterEmpty
      <4> QED
        BY <2>1, <2>3, <3>3, <4>1, <4>2 DEF SessionNext, Session!Next, Session!ServerActs
    <3> QED
      BY <3>2, <3>3
  <2> QED
    BY <2>2, <2>3
<1>11. CASE UNCHANGED <<inbox, wire, conn, listening, chatting>>
  BY <1>11, <1>b
<1> QED
  BY <1>1, <1>2, <1>3, <1>4, <1>5, <1>6, <1>7, <1>8, <1>9, <1>10, <1>11
     DEF Next, vars, ServeSlot, HandleMessage, HandleLogin, HandleRegister, AskAuth,
         HandleLeaveUnknown, AuthThread, AuthStart, AuthConnect, StartsUp, AuthFind, AuthStore,
         AuthServe, LinkFails, SelectFails, AcceptIntoSlot, AcceptWithoutSlot

LEMMA SessionInit == Init => IdleUnlessOpen /\ \A s \in Sockets : Session(s)!Init
  BY DEF Init, IdleUnlessOpen, Session!Init

\* The clients of every instance of ChatServer keep the order that ChatClient
\* keeps: whatever the server and the network do, each handle goes through
\* sessions.
THEOREM SessionsCorrect == Spec => ClientsKeepSession
<1>1. Spec => []TypeOK
  BY TypeCorrect
<1>2. Spec => []IdleUnlessOpen
  BY <1>1, SessionInit, IdleStep, PTL DEF Spec
<1>3. TypeOK /\ IdleUnlessOpen /\ [Next]_vars =>
        [\A s \in Sockets : [Session(s)!Next]_(Session(s)!session)]_vars
  BY SessionStep DEF SessionNext
<1>4. Spec => [][\A s \in Sockets : [Session(s)!Next]_(Session(s)!session)]_vars
  BY <1>1, <1>2, <1>3, PTL DEF Spec
<1>5. Spec => \A s \in Sockets : Session(s)!Init
  BY SessionInit DEF Spec
<1> QED
  BY <1>4, <1>5 DEF ClientsKeepSession
=============================================================================
