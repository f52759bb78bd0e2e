----------------------------- MODULE ChatServer -----------------------------
(***************************************************************************)
(* The chat server process: the select loop of cTCPServer and the handler  *)
(* cServerMessageHandler on the main thread, cTCPAuthClient and            *)
(* cAuthClientMessageHandler on the authentication thread, and the         *)
(* environment they work in: client processes on the far side of TCP       *)
(* connections and the authentication server on the far side of one link.  *)
(*                                                                         *)
(* Messages are whole packets.  A recv on the chat side takes one or more  *)
(* of the packets that wait; a recv on the link takes one or more answers, *)
(* of which the handler keeps the first (it hands its whole buffer to      *)
(* ParseFromArray).  Packets cut by recv are the business of the module    *)
(* Framing.  Socket handles are small numbers that Windows reuses: a       *)
(* handle is "free" until accept returns it.                               *)
(***************************************************************************)
EXTENDS AuthVerdicts, FiniteSets

CONSTANTS
    NumSlots,       \* MAX_CLIENTS
    Sockets,        \* handles the operating system may return from accept
    NoSocket,       \* the 0 of an unused client_sockets entry
    Emails, NoName, Absent,  \* account names; ""; no key in g_connectedUsers
    Rooms, General, \* room names; "General" is never dropped
    MaxRecvBatch,   \* bound: packets one recv of the chat side can return
    MaxAuthBatch,   \* bound: packets one recv of the link can return
    MaxAnswers,     \* bound: answers to one request
    MaxConnects,    \* bound: connections the clients open
    MaxSends,       \* bound: messages the clients send
    Requests,       \* which of "login", "register" the menus of the clients use
    Polite,         \* clients join only rooms they are not in, leave only theirs
    AbruptCloses,   \* connections may be reset, or lost without an end
    LinkMayFail     \* the link to the authentication server may break

ASSUME SlotsAssumption == NumSlots \in Nat \ {0}
ASSUME NamesAssumption ==
    /\ NoSocket \notin Sockets
    /\ General \in Rooms
    /\ NoName \notin Emails /\ Absent \notin Emails /\ NoName # Absent
ASSUME BoundsAssumption ==
    /\ MaxRecvBatch \in Nat \ {0} /\ MaxAuthBatch \in Nat \ {0}
    /\ MaxAnswers \in Nat /\ MaxConnects \in Nat /\ MaxSends \in Nat
    /\ Requests \subseteq {"login", "register"}
    /\ {Polite, AbruptCloses, LinkMayFail} \subseteq BOOLEAN

VARIABLES
    clientSockets,   \* cTCPServer::client_sockets
    recvBuffer,      \* cTCPServer::recvBuffer, one per slot, never cleared
    handling,        \* the slot whose buffer handleMessage works on, or NoSlot
    connectedUsers,  \* g_connectedUsers, shared by both threads without a lock
    rooms,           \* the keys of roomUserMap
    members,         \* how many copies of a socket roomUserMap holds in a room
    authRequests,    \* packets on their way to the authentication server
    authAnswers,     \* packets on their way back
    linkUp,          \* the link's connection is usable at this end
    wsaRefs,         \* WSAStartup calls minus WSACleanup calls of the process
    process,         \* "up", "cut" once wsaRefs has been 0, "ended" by exit
    authStep,        \* where the authentication thread is
    authCur,         \* the answer it is working on
    conn,            \* what became of the connection behind a handle
    inbox,           \* bytes the client sent and recv has not returned
    wire,            \* bytes the server sent and the client has not read
    listening,       \* clients in their receive loop, not in a menu
    chatting,        \* clients whose ReadCin thread runs
    view,            \* what the user of a connection did about each room
    connects, sends  \* what MaxConnects and MaxSends bound

\* History, for the properties only.  A login is a pair of handle and name, and
\* is of the connection that has the handle now.
VARIABLES
    asked,           \* the logins asked for in this connection
    granted,         \* those of them the authentication server accepted
    staleLogin,      \* handles with traces of a login of an earlier connection
    staleRooms,      \* handles with memberships of an earlier connection
    lost             \* clients that wait, and had a request or answer dropped

serverVars == <<clientSockets, recvBuffer, handling, rooms, members>>
linkVars   == <<authRequests, authAnswers, linkUp, wsaRefs, process>>
authVars   == <<authStep, authCur>>
clientVars == <<listening, chatting, view, connects, sends>>
histVars   == <<asked, granted, staleLogin, staleRooms, lost>>
vars == <<serverVars, connectedUsers, linkVars, authVars, conn, inbox, wire,
          clientVars, histVars>>

Slots  == 1..NumSlots
NoSlot == 0
Names  == Emails \cup {NoName}

Credentials  == [type: {"login", "register"}, email: Emails]
RoomCommands == [type: {"join", "say", "leave"}, room: Rooms]
ClientMsgs   == Credentials \cup RoomCommands

AuthRequests == [type: {"login", "register"}, sock: Sockets, email: Emails]
AuthAnswers  == [type: Verdicts, sock: Sockets, email: Emails]
NoAnswer     == [type |-> "none"]

RoomNotices == [type: {"joined", "said", "left"}, name: Names, room: Rooms]
ServerMsgs  == [type: Verdicts] \cup RoomNotices

ConnStates == {"free", "open", "closed", "reset", "lost"}
-----------------------------------------------------------------------------
Init ==
    /\ clientSockets = [i \in Slots |-> NoSocket]
    /\ recvBuffer = [i \in Slots |-> <<>>]
    /\ handling = NoSlot
    /\ connectedUsers = [s \in Sockets |-> Absent]
    /\ rooms = {}
    /\ members = [r \in Rooms |-> [s \in Sockets |-> 0]]
    /\ authRequests = <<>>
    /\ authAnswers = <<>>
    \* The main thread does not wait for the authentication thread; where the
    \* link cannot fail, that one is taken to be the faster.
    /\ IF LinkMayFail
       THEN linkUp = FALSE /\ wsaRefs = 1 /\ authStep = "start"
       ELSE linkUp = TRUE /\ wsaRefs = 2 /\ authStep = "recv"
    /\ process = "up"
    /\ authCur = NoAnswer
    /\ conn = [s \in Sockets |-> "free"]
    /\ inbox = [s \in Sockets |-> <<>>]
    /\ wire = [s \in Sockets |-> <<>>]
    /\ listening = {}
    /\ chatting = {}
    /\ view = [s \in Sockets |-> [r \in Rooms |-> "never"]]
    /\ connects = 0
    /\ sends = 0
    /\ asked = {} /\ granted = {}
    /\ staleLogin = {} /\ staleRooms = {}
    /\ lost = {}
-----------------------------------------------------------------------------
(***************************************************************************)
(* How the history is kept.                                                *)
(***************************************************************************)
Some(q, S) == \E k \in DOMAIN q : q[k] \in S

\* The packets of q are thrown away by a receiver that reads only the first of
\* a recv, or go down with the link.
Waiting  == listening \ chatting
Drops(q) == lost' = lost \cup (Waiting \cap {q[k].sock : k \in DOMAIN q})

\* What the next connection of handle s finds of this one.
Leaves(s, login, memberships) ==
    /\ staleLogin' = IF login THEN staleLogin \cup {s} ELSE staleLogin \ {s}
    /\ staleRooms' = IF memberships THEN staleRooms \cup {s} ELSE staleRooms \ {s}

EndsConnection(s, login, memberships) ==
    /\ asked' = {a \in asked : a[1] # s}
    /\ granted' = {g \in granted : g[1] # s}
    /\ Leaves(s, login, memberships)
    /\ UNCHANGED lost

\* A login of s is with the authentication server or its thread here.
LoginAtWork(s) ==
    \/ Some(authRequests, [type: {"login"}, sock: {s}, email: Emails])
    \/ Some(authAnswers, [type: {"authOk"}, sock: {s}, email: Emails])
    \/ authStep \in {"find", "store"} /\ authCur.sock = s

Joined(s, copies) == \E r \in Rooms : members[r][s] >= copies
-----------------------------------------------------------------------------
(***************************************************************************)
(* The select loop, outside handleMessage.  When Winsock has been cleaned  *)
(* up as often as it was started every socket is dead, also after another  *)
(* WSAStartup: the next select fails, and the process exits.               *)
(***************************************************************************)
Alive    == process = "up"
InSelect == handling = NoSlot /\ Alive

SelectFails ==
    /\ handling = NoSlot
    /\ process = "cut"
    /\ process' = "ended"
    /\ linkUp' = FALSE
    /\ UNCHANGED <<serverVars, connectedUsers, authRequests, authAnswers, wsaRefs, authVars,
                   conn, inbox, wire, clientVars, histVars>>

IsFirstFree(i) ==
    /\ clientSockets[i] = NoSocket
    /\ \A j \in Slots : j < i => clientSockets[j] # NoSocket

\* A client opens a connection and accept returns the handle s for it.
Connected(s) ==
    /\ InSelect
    /\ conn[s] = "free" /\ connects < MaxConnects
    /\ conn' = [conn EXCEPT ![s] = "open"]
    /\ connects' = connects + 1
    /\ UNCHANGED <<recvBuffer, handling, rooms, members, connectedUsers, linkVars,
                   authVars, inbox, wire, listening, chatting, view, sends, asked,
                   granted, lost>>

\* What the last client of the slot left in its recvBuffer is taken for the
\* packets of this one.
AcceptIntoSlot(s, i) ==
    LET leftover == recvBuffer[i] # <<>> IN
    /\ IsFirstFree(i)
    /\ clientSockets' = [clientSockets EXCEPT ![i] = s]
    /\ Connected(s)
    /\ Leaves(s, leftover \/ s \in staleLogin, leftover \/ s \in staleRooms)

\* No slot is free: the socket stays open and the loop never looks at it.
AcceptWithoutSlot(s) ==
    /\ \A i \in Slots : clientSockets[i] # NoSocket
    /\ UNCHANGED <<clientSockets, staleLogin, staleRooms>>
    /\ Connected(s)

RecvData(i) ==
    LET s == clientSockets[i] IN
    /\ InSelect
    /\ s # NoSocket
    /\ conn[s] \in {"open", "closed"}
    /\ \E n \in 1..MaxRecvBatch :
         /\ n <= Len(inbox[s])
         /\ recvBuffer' = [recvBuffer EXCEPT ![i] = @ \o SubSeq(inbox[s], 1, n)]
         /\ inbox' = [inbox EXCEPT ![s] = SubSeq(@, n + 1, Len(@))]
    /\ handling' = i
    /\ UNCHANGED <<clientSockets, rooms, members, connectedUsers, linkVars,
                   authVars, conn, wire, clientVars, histVars>>

\* Mutant: the entry of a closed socket is not set to 0.
FreeSlotKeepsEntry(i) ==
    /\ UNCHANGED clientSockets
    /\ conn' = [conn EXCEPT ![clientSockets[i]] = "free"]

\* Mutant: the entry is set to 0 but the socket is not closed.
FreeSlotKeepsSocket(i) ==
    /\ clientSockets' = [clientSockets EXCEPT ![i] = NoSocket]
    /\ UNCHANGED conn

\* closesocket on the socket of slot i; the slot's recvBuffer is left as it is.
FreeSlot(i) ==
    /\ clientSockets' = [clientSockets EXCEPT ![i] = NoSocket]
    /\ conn' = [conn EXCEPT ![clientSockets[i]] = "free"]

IsEmptyRoom(m) == \A s \in Sockets : m[s] = 0

\* Mutants: erase without looking for s first; erase whatever is in front;
\* forget to erase.
EraseBlindly(m, s) == [m EXCEPT ![s] = @ - 1]
EraseFront(m, s) ==
    IF IsEmptyRoom(m) THEN m ELSE [m EXCEPT ![CHOOSE t \in Sockets : m[t] > 0] = @ - 1]
EraseNothing(m, s) == m

\* A vector without the first copy of s.
EraseOne(m, s) == [m EXCEPT ![s] = IF @ = 0 THEN 0 ELSE @ - 1]

\* Mutant: the rooms are forgotten.
RemoveNameOnly(s) ==
    /\ connectedUsers' = [connectedUsers EXCEPT ![s] = Absent]
    /\ UNCHANGED members

\* Mutant: the name is forgotten.
RemoveRoomsOnly(s) ==
    /\ members' = [r \in Rooms |-> EraseOne(members[r], s)]
    /\ UNCHANGED connectedUsers

\* removeUserOnDisconnect: the name goes, and one copy from every room; a
\* room it empties stays in the map.
RemoveUserOnDisconnect(s) ==
    /\ connectedUsers' = [connectedUsers EXCEPT ![s] = Absent]
    /\ members' = [r \in Rooms |-> EraseOne(members[r], s)]

\* recv returned 0: the client shut its side down and all it sent was read.
RecvZero(i) ==
    LET s == clientSockets[i] IN
    /\ InSelect
    /\ s # NoSocket
    /\ conn[s] = "closed" /\ inbox[s] = <<>>
    /\ RemoveUserOnDisconnect(s)
    /\ FreeSlot(i)
    /\ EndsConnection(s, LoginAtWork(s), Joined(s, 2))
    /\ UNCHANGED <<recvBuffer, handling, rooms, linkVars, authVars, inbox, wire,
                   clientVars>>

\* recv failed with WSAECONNRESET: the name and the memberships stay.  Any
\* other error leaves everything as it is, so a "lost" socket keeps its slot.
RecvReset(i) ==
    LET s == clientSockets[i] IN
    /\ InSelect
    /\ s # NoSocket
    /\ conn[s] = "reset"
    /\ FreeSlot(i)
    /\ EndsConnection(s, LoginAtWork(s) \/ connectedUsers[s] \in Emails, Joined(s, 1))
    /\ UNCHANGED <<recvBuffer, handling, rooms, members, connectedUsers, linkVars,
                   authVars, inbox, wire, clientVars>>
-----------------------------------------------------------------------------
(***************************************************************************)
(* handleMessage: one step for every packet of the buffer it works on; it  *)
(* calls itself while the buffer holds another header.                     *)
(***************************************************************************)
Handler == clientSockets[handling]
Packet  == Head(recvBuffer[handling])

Handling(type) ==
    /\ handling # NoSlot
    /\ recvBuffer[handling] # <<>>
    /\ Packet.type = type

\* Mutant: handleMessage does not call itself.
PacketDoneOnce ==
    /\ recvBuffer' = [recvBuffer EXCEPT ![handling] = Tail(@)]
    /\ handling' = NoSlot

\* The packet is read; the next one, if there is one, is handled next.
PacketDone ==
    /\ recvBuffer' = [recvBuffer EXCEPT ![handling] = Tail(@)]
    /\ handling' = IF Len(recvBuffer[handling]) > 1 THEN handling ELSE NoSlot

WSACleanup ==
    /\ wsaRefs' = IF wsaRefs = 0 THEN 0 ELSE wsaRefs - 1
    /\ process' = IF Alive /\ wsaRefs <= 1 THEN "cut" ELSE process

LinkStarts == authStep \in {"start", "connect"}

\* cTCPAuthClient::sendMessage.  The first send after the peer went may still
\* succeed; a failing one, as every one is before the link is connected,
\* closes the socket and calls WSACleanup, and nobody looks at the result.
SendToAuth(req) ==
    \/ /\ linkUp
       /\ authRequests' = Append(authRequests, req)
       /\ UNCHANGED <<authAnswers, linkUp, wsaRefs, process, lost>>
    \/ /\ ~linkUp /\ ~LinkStarts
       /\ Drops(<<req>>)
       /\ UNCHANGED linkVars
    \/ /\ ~linkUp
       /\ authAnswers' = <<>>
       /\ WSACleanup
       /\ Drops(Append(authAnswers, req))
       /\ UNCHANGED <<authRequests, linkUp>>

AskAuth(type) ==
    /\ Handling(type)
    /\ SendToAuth([type |-> type, sock |-> Handler, email |-> Packet.email])
    /\ PacketDone
    /\ UNCHANGED <<clientSockets, rooms, members, connectedUsers, authVars, conn,
                   inbox, wire, clientVars, asked, granted, staleLogin, staleRooms>>

HandleLogin    == AskAuth("login")
HandleRegister == AskAuth("register")

\* g_connectedUsers[s] with operator[]: a missing key is inserted with "".
\* The insertion can be lost when the authentication thread is inserting too.
NameLookup(s) ==
    \/ connectedUsers[s] # Absent /\ UNCHANGED connectedUsers
    \/ /\ connectedUsers[s] = Absent
       /\ connectedUsers' = [connectedUsers EXCEPT ![s] = NoName]
    \/ /\ connectedUsers[s] = Absent /\ authStep = "store"
       /\ UNCHANGED connectedUsers

NameOf(s) == IF connectedUsers[s] = Absent THEN NoName ELSE connectedUsers[s]

\* send(): only an open connection carries the packets to its client.
Carries(s) == conn[s] = "open" /\ Alive

\* Mutant: the sender is left out.
BroadcastToOthers(m, msg) ==
    wire' = [s \in Sockets |->
               IF Carries(s) /\ s # Handler THEN wire[s] \o [k \in 1..m[s] |-> msg]
               ELSE wire[s]]

\* One send for every copy of a socket in the vector m.
Broadcast(m, msg) ==
    wire' = [s \in Sockets |->
               IF Carries(s) THEN wire[s] \o [k \in 1..m[s] |-> msg] ELSE wire[s]]

Notice(type) == [type |-> type, name |-> NameOf(Handler), room |-> Packet.room]

HandleJoin ==
    LET r == Packet.room IN
    /\ Handling("join")
    /\ NameLookup(Handler)
    /\ rooms' = rooms \cup {r}
    /\ members' = [members EXCEPT ![r][Handler] = @ + 1]
    /\ Broadcast(members'[r], Notice("joined"))
    /\ PacketDone
    /\ UNCHANGED <<clientSockets, linkVars, authVars, conn, inbox, clientVars, histVars>>

\* roomUserMap[roomName] creates the room too; nobody asks for membership.
HandleSay ==
    LET r == Packet.room IN
    /\ Handling("say")
    /\ NameLookup(Handler)
    /\ rooms' = rooms \cup {r}
    /\ Broadcast(members[r], Notice("said"))
    /\ PacketDone
    /\ UNCHANGED <<clientSockets, members, linkVars, authVars, conn, inbox,
                   clientVars, histVars>>

\* Mutant: the size is not looked at.
DropsAnyRoom(r, m) == r # General

DropsRoom(r, m) == r # General /\ IsEmptyRoom(m)

\* "left" goes to the room as it was, the leaver's own copies included; then
\* one copy of the leaver goes and an empty room other than General is erased.
HandleLeave ==
    LET r == Packet.room IN
    /\ Handling("leave")
    /\ r \in rooms
    /\ NameLookup(Handler)
    /\ Broadcast(members[r], Notice("left"))
    /\ members' = [members EXCEPT ![r] = EraseOne(@, Handler)]
    /\ rooms' = IF DropsRoom(r, members'[r]) THEN rooms \ {r} ELSE rooms
    /\ PacketDone
    /\ UNCHANGED <<clientSockets, linkVars, authVars, conn, inbox, clientVars, histVars>>

\* The early return of an unknown room: packets behind it wait for the next
\* recv of this slot.
HandleLeaveUnknown ==
    /\ Handling("leave")
    /\ Packet.room \notin rooms
    /\ recvBuffer' = [recvBuffer EXCEPT ![handling] = Tail(@)]
    /\ handling' = NoSlot
    /\ UNCHANGED <<clientSockets, rooms, members, connectedUsers, linkVars, authVars,
                   conn, inbox, wire, clientVars, histVars>>
-----------------------------------------------------------------------------
(***************************************************************************)
(* The authentication thread before its receive loop.  WSAStartup is taken *)
(* to succeed, as it has on the main thread; without an address, or when   *)
(* none can be connected to, WSACleanup is called, and nobody tries again. *)
(* It goes on beside a main thread whose sockets are already dead.         *)
(***************************************************************************)
Runs == process # "ended"

StartsUp(step) ==
    /\ Runs
    /\ authStep' = step
    /\ UNCHANGED <<serverVars, connectedUsers, authRequests, authAnswers, authCur, conn,
                   inbox, wire, clientVars, histVars>>

AuthStart ==
    /\ authStep = "start"
    /\ wsaRefs' = wsaRefs + 1
    /\ UNCHANGED <<linkUp, process>>
    /\ StartsUp("connect")

\* A failing send of the main thread closes the socket that is connecting; one
\* of the next addresses may still be reached, as long as Winsock is there.
AuthConnect ==
    /\ authStep = "connect"
    /\ \/ wsaRefs > 0 /\ linkUp' = TRUE /\ UNCHANGED <<wsaRefs, process>>
       \/ WSACleanup /\ UNCHANGED linkUp
    /\ StartsUp("recv")

(***************************************************************************)
(* Its receive loop.  Of the packets one recv returned it answers          *)
(* the first.  A login is announced to the client, then looked up, then    *)
(* stored, while the main thread uses the same map.                        *)
(***************************************************************************)
\* Mutant: the map is searched before the send, and a handle that is there ends
\* the packet's handling.
ReplyUnlessListed(s, verdict) ==
    wire' = IF Carries(s) /\ connectedUsers[s] = Absent
            THEN [wire EXCEPT ![s] = Append(@, [type |-> verdict])] ELSE wire

Reply(s, verdict) ==
    wire' = IF Carries(s) THEN [wire EXCEPT ![s] = Append(@, [type |-> verdict])]
            ELSE wire

\* Mutant: the case of a success runs on from the case of a failure.
StoresNameAlways(ans) == ans.type \in {"authOk", "authFail"}

StoresName(ans) == ans.type = "authOk"

AuthReceive ==
    LET ans == Head(authAnswers) IN
    /\ Runs /\ authStep = "recv"
    /\ \E n \in 1..MaxAuthBatch :
         /\ n <= Len(authAnswers)
         /\ authAnswers' = SubSeq(authAnswers, n + 1, Len(authAnswers))
         /\ Drops(SubSeq(authAnswers, 2, n))
    /\ Reply(ans.sock, ans.type)
    /\ IF StoresName(ans) THEN authStep' = "find" /\ authCur' = ans
       ELSE UNCHANGED authVars
    /\ UNCHANGED <<serverVars, connectedUsers, authRequests, linkUp, wsaRefs, process,
                   conn, inbox, clientVars, asked, granted, staleLogin, staleRooms>>

\* Mutant: the name is stored without looking.
AuthFindNothing ==
    /\ authStep = "find"
    /\ authStep' = "store"
    /\ UNCHANGED <<authCur, serverVars, connectedUsers, linkVars, conn, inbox, wire,
                   clientVars, histVars>>

\* A key that is there, whatever its name, ends the packet's handling.
AuthFind ==
    /\ Runs /\ authStep = "find"
    /\ IF connectedUsers[authCur.sock] = Absent
       THEN authStep' = "store" /\ UNCHANGED authCur
       ELSE authStep' = "recv" /\ authCur' = NoAnswer
    /\ UNCHANGED <<serverVars, connectedUsers, linkVars, conn, inbox, wire, clientVars,
                   histVars>>

\* The insertion can be lost when the main thread is in its handler.
AuthStore ==
    /\ Runs /\ authStep = "store"
    /\ \/ connectedUsers' = [connectedUsers EXCEPT ![authCur.sock] = authCur.email]
       \/ handling # NoSlot /\ UNCHANGED connectedUsers
    /\ authStep' = "recv"
    /\ authCur' = NoAnswer
    /\ UNCHANGED <<serverVars, linkVars, conn, inbox, wire, clientVars, histVars>>
-----------------------------------------------------------------------------
(***************************************************************************)
(* The authentication server, reduced to the answers one request can get.  *)
(***************************************************************************)
AnswersTo(req, verdicts) ==
    [k \in DOMAIN verdicts |->
        [type |-> verdicts[k], sock |-> req.sock, email |-> req.email]]

Accepts(verdicts) == \E k \in DOMAIN verdicts : verdicts[k] = "authOk"

\* It too answers only the first of the requests one recv returned.
AuthServe ==
    LET req == Head(authRequests) IN
    /\ linkUp
    /\ \E n \in 1..MaxAuthBatch :
         /\ n <= Len(authRequests)
         /\ authRequests' = SubSeq(authRequests, n + 1, Len(authRequests))
         /\ Drops(SubSeq(authRequests, 2, n))
    /\ \E v \in VerdictsOn(req) :
         /\ Len(v) <= MaxAnswers
         /\ authAnswers' = authAnswers \o AnswersTo(req, v)
         /\ granted' = IF Accepts(v) THEN granted \cup (asked \cap {<<req.sock, req.email>>})
                       ELSE granted
    /\ UNCHANGED <<serverVars, connectedUsers, linkUp, wsaRefs, process, authVars, conn,
                   inbox, wire, clientVars, asked, staleLogin, staleRooms>>

\* The authentication server goes; answers on their way still arrive.
LinkFails ==
    /\ LinkMayFail /\ linkUp
    /\ linkUp' = FALSE
    /\ authRequests' = <<>>
    /\ Drops(authRequests)
    /\ UNCHANGED <<serverVars, connectedUsers, authAnswers, wsaRefs, process, authVars, conn,
                   inbox, wire, clientVars, asked, granted, staleLogin, staleRooms>>
-----------------------------------------------------------------------------
(***************************************************************************)
(* The clients: a menu that sends one request and then a receive loop; a   *)
(* successful login starts the ReadCin thread beside it, which sends       *)
(* commands.  A verdict other than "authOk" brings the menu back.          *)
(***************************************************************************)
Send(s, msg) ==
    /\ conn[s] = "open" /\ sends < MaxSends
    /\ inbox' = [inbox EXCEPT ![s] = Append(@, msg)]
    /\ sends' = sends + 1
    /\ UNCHANGED <<serverVars, connectedUsers, linkVars, authVars, conn, wire,
                   chatting, connects>>

ClientMenu(s) ==
    /\ s \notin listening
    /\ \E type \in Requests, e \in Emails :
         /\ Send(s, [type |-> type, email |-> e])
         /\ asked' = IF type = "login" THEN asked \cup {<<s, e>>} ELSE asked
    /\ listening' = listening \cup {s}
    /\ UNCHANGED <<view, granted, staleLogin, staleRooms, lost>>

\* Mutant: the case of a failed login has no break before the next one.
StartsChatAlways(type) == type \in {"authOk", "authFail"}

StartsChat(type) == type = "authOk"

ClientReceive(s) ==
    LET type == Head(wire[s]).type IN
    /\ conn[s] = "open" /\ s \in listening
    /\ wire[s] # <<>>
    /\ wire' = [wire EXCEPT ![s] = Tail(@)]
    /\ chatting' = IF StartsChat(type) THEN chatting \cup {s} ELSE chatting
    /\ listening' = IF type \in Verdicts \ {"authOk"} THEN listening \ {s} ELSE listening
    /\ lost' = IF type \in Verdicts THEN lost \ {s} ELSE lost
    /\ UNCHANGED <<serverVars, connectedUsers, linkVars, authVars, conn, inbox, view,
                   connects, sends, asked, granted, staleLogin, staleRooms>>

MayCommand(s, type, r) ==
    Polite => CASE type = "join"  -> view[s][r] # "in"
                [] type = "leave" -> view[s][r] = "in"
                [] type = "say"   -> TRUE

ViewAfter(was, type) ==
    CASE type = "join"                  -> "in"
      [] type = "leave" /\ was = "in"   -> "left"
      [] OTHER                          -> was

ClientCommand(s) ==
    /\ s \in chatting
    /\ \E type \in {"join", "say", "leave"}, r \in Rooms :
         /\ MayCommand(s, type, r)
         /\ Send(s, [type |-> type, room |-> r])
         /\ view' = [view EXCEPT ![s][r] = ViewAfter(@, type)]
    /\ UNCHANGED <<listening, histVars>>

ClientGone(s) ==
    /\ wire' = [wire EXCEPT ![s] = <<>>]
    /\ listening' = listening \ {s}
    /\ chatting' = chatting \ {s}
    /\ view' = [view EXCEPT ![s] = [r \in Rooms |-> "never"]]
    /\ lost' = lost \ {s}
    /\ UNCHANGED <<serverVars, connectedUsers, linkVars, authVars, connects, sends,
                   asked, granted, staleLogin, staleRooms>>

\* /quit: what was sent before is still delivered.
ClientQuits(s) ==
    /\ conn[s] = "open"
    /\ conn' = [conn EXCEPT ![s] = "closed"]
    /\ ClientGone(s)
    /\ UNCHANGED inbox

\* The process or its machine dies: unread packets are dropped.
ClientDies(s) ==
    /\ AbruptCloses
    /\ conn[s] \in {"open", "closed"}
    /\ \E c \in {"reset", "lost"} : conn' = [conn EXCEPT ![s] = c]
    /\ inbox' = [inbox EXCEPT ![s] = <<>>]
    /\ ClientGone(s)
-----------------------------------------------------------------------------
ServeSlot(i) == RecvData(i) \/ RecvZero(i) \/ RecvReset(i)

HandleMessage ==
    \/ HandleLogin \/ HandleRegister
    \/ HandleJoin \/ HandleSay
    \/ HandleLeave \/ HandleLeaveUnknown

AuthThread == AuthStart \/ AuthConnect \/ AuthReceive \/ AuthFind \/ AuthStore

Next ==
    \/ \E s \in Sockets, i \in Slots : AcceptIntoSlot(s, i)
    \/ \E s \in Sockets : AcceptWithoutSlot(s)
    \/ \E i \in Slots : ServeSlot(i)
    \/ SelectFails
    \/ HandleMessage
    \/ AuthThread
    \/ AuthServe
    \/ LinkFails
    \/ \E s \in Sockets : \/ ClientMenu(s) \/ ClientReceive(s) \/ ClientCommand(s)
                          \/ ClientQuits(s) \/ ClientDies(s)

Spec == Init /\ [][Next]_vars

(***************************************************************************)
(* Every round of the select loop visits every slot, so a readable slot is *)
(* served however often the others are; a handler, the authentication      *)
(* thread and a client's receive loop run on threads that are always       *)
(* ready.  Nothing makes a client open, send or close.                     *)
(***************************************************************************)
Fairness ==
    /\ \A i \in Slots : SF_vars(ServeSlot(i))
    /\ WF_vars(HandleMessage)
    /\ WF_vars(AuthThread)
    /\ WF_vars(AuthServe)
    /\ \A s \in Sockets : WF_vars(ClientReceive(s))

FairSpec == Spec /\ Fairness
-----------------------------------------------------------------------------
(***************************************************************************)
(* Properties.                                                             *)
(***************************************************************************)

\* The type of every variable.
TypeOK ==
    /\ clientSockets \in [Slots -> Sockets \cup {NoSocket}]
    /\ recvBuffer \in [Slots -> Seq(ClientMsgs)]
    /\ handling \in Slots \cup {NoSlot}
    /\ handling # NoSlot => clientSockets[handling] \in Sockets
    /\ connectedUsers \in [Sockets -> Names \cup {Absent}]
    /\ rooms \subseteq Rooms
    /\ members \in [Rooms -> [Sockets -> Nat]]
    /\ authRequests \in Seq(AuthRequests)
    /\ authAnswers \in Seq(AuthAnswers)
    /\ linkUp \in BOOLEAN
    /\ wsaRefs \in Nat
    /\ process \in {"up", "cut", "ended"}
    /\ authStep \in {"start", "connect", "recv", "find", "store"}
    /\ authCur \in AuthAnswers \cup {NoAnswer}
    /\ authStep \in {"find", "store"} => authCur \in AuthAnswers
    /\ conn \in [Sockets -> ConnStates]
    /\ inbox \in [Sockets -> Seq(ClientMsgs)]
    /\ wire \in [Sockets -> Seq(ServerMsgs)]
    /\ listening \subseteq Sockets
    /\ chatting \subseteq Sockets
    /\ view \in [Sockets -> [Rooms -> {"never", "in", "left"}]]
    /\ asked \subseteq Sockets \X Emails /\ granted \subseteq Sockets \X Emails
    /\ staleLogin \subseteq Sockets /\ staleRooms \subseteq Sockets
    /\ lost \subseteq Sockets
    /\ connects \in Nat /\ sends \in Nat

\* No two slots serve one socket, a slot never keeps a socket it has closed
\* (the system would hand that handle to somebody else).
SlotsHoldDistinctOpenSockets ==
    /\ \A i \in Slots : clientSockets[i] # NoSocket => conn[clientSockets[i]] # "free"
    /\ \A i, j \in Slots : clientSockets[i] = clientSockets[j] =>
                             i = j \/ clientSockets[i] = NoSocket

Granted(s, e) == <<s, e>> \in granted
HasLogin(s)   == \E e \in Emails : Granted(s, e)
Fresh         == Sockets \ staleLogin

\* A listed name is of a login that this connection asked for and that the
\* authentication server accepted: no interleaving of the two threads attaches
\* a name to another client, nor does a handle pass one on to its next client.
\* Excepted are handles whose last connection was listed when it was reset, or
\* ended with a login at work, or whose slot had packets left: these do pass
\* names on.
NamesAreGranted ==
    \A s \in Fresh : connectedUsers[s] \in Emails => Granted(s, connectedUsers[s])

\* Nobody is in the chat without a login accepted in this connection, however
\* verdicts are lost, coalesced or repeated, and whoever had the handle before.
\* The same handles are excepted: an answer that comes after its client has
\* gone lets the next one in.
ChattersWereGranted ==
    \A s \in chatting \cap Fresh : HasLogin(s)

Unasked(s) == [type: {"login"}, email: {e \in Emails : <<s, e>> \notin asked}]

\* Where a login of this connection is on its way, it was asked for in it.
InboxesAsked == \A s \in Fresh : ~Some(inbox[s], Unasked(s))

BuffersAsked ==
    \A i \in Slots : clientSockets[i] \in Fresh =>
        ~Some(recvBuffer[i], Unasked(clientSockets[i]))

RequestsAsked ==
    ~Some(authRequests, {req \in AuthRequests : /\ req.type = "login" /\ req.sock \in Fresh
                                                /\ <<req.sock, req.email>> \notin asked})

\* Where the news of its success is on its way, it was accepted.
AnswersGranted ==
    ~Some(authAnswers, {ans \in AuthAnswers : /\ ans.type = "authOk" /\ ans.sock \in Fresh
                                              /\ ~Granted(ans.sock, ans.email)})

HandGranted ==
    authStep \in {"find", "store"} =>
        /\ authCur.sock \in Fresh => Granted(authCur.sock, authCur.email)
        /\ authStep = "store" => connectedUsers[authCur.sock] \notin Emails

WiresGranted == \A s \in Fresh : Some(wire[s], [type: {"authOk"}]) => HasLogin(s)

\* Nothing waits for a client that has gone, nor from one that is dead.
GoneAreSilent ==
    \A s \in Sockets :
        /\ conn[s] # "open" => wire[s] = <<>> /\ s \notin chatting
        /\ conn[s] \in {"reset", "free"} => inbox[s] = <<>>

\* What makes the two inductive: wherever a login of this connection is - in
\* the connection, in the buffer of its slot, on the link - it was asked for,
\* and wherever the news of its success is - in an answer under way, in the
\* hands of the authentication thread, on the wire - it was accepted.  While
\* that thread is about to store a name the map has no other name there, and a
\* client that goes leaves nothing in its connection.
GrantsTravel ==
    /\ InboxesAsked /\ BuffersAsked /\ RequestsAsked
    /\ AnswersGranted /\ HandGranted /\ WiresGranted
    /\ GoneAreSilent
    /\ NamesAreGranted /\ ChattersWereGranted

\* No socket is a member of a room that is not in roomUserMap: erasing an
\* empty room never takes somebody's membership with it.
NoOrphanMembers ==
    \A r \in Rooms : r \notin rooms => IsEmptyRoom(members[r])

\* A handle that passes from one client to another takes no membership along: a
\* socket is in the vector of a room only if the user of this connection joined
\* it, in whatever order commands and ends were handled.  Excepted are handles
\* whose last connection was in a vector when it was reset, or in one twice when
\* it ended, or whose slot had packets left.
MembersJoined ==
    \A s \in Sockets \ staleRooms : conn[s] = "open" =>
        \A r \in Rooms : members[r][s] > 0 => view[s][r] # "never"

\* Though both threads write the map without a lock, a name once listed stays
\* until removeUserOnDisconnect takes it away at the end of that connection.
NameSticky ==
    [][\A s \in Sockets :
         connectedUsers[s] \in Emails /\ connectedUsers'[s] # connectedUsers[s] =>
            connectedUsers'[s] = Absent /\ conn[s] = "closed" /\ conn'[s] = "free"]_vars

\* Nobody is put into or taken out of a room by what another connection does:
\* memberships change while the handler works for that socket or when its own
\* connection has ended.
MembershipOwned ==
    [][\A r \in Rooms, s \in Sockets :
         members'[r][s] # members[r][s] =>
            \/ handling # NoSlot /\ clientSockets[handling] = s
            \/ conn[s] = "closed" /\ conn'[s] = "free"]_vars

\* Of polite clients whose connections end in an orderly way: a client hears
\* only of rooms it joined in this connection, so nothing of the connection
\* that had the handle before it is left in roomUserMap.
HearsOnlyRoomsItJoined ==
    \A s \in Sockets : \A k \in DOMAIN wire[s] :
        wire[s][k] \in RoomNotices => view[s][wire[s][k].room] # "never"

\* Of the same clients: when nothing a client sent is on its way, the server
\* has it in a room, once, exactly if its user joined the room and has not
\* left it.
ViewsAgree ==
    \A i \in Slots :
        LET s == clientSockets[i] IN
        s # NoSocket /\ conn[s] = "open" /\ inbox[s] = <<>> /\ recvBuffer[i] = <<>> =>
            \A r \in Rooms : members[r][s] = IF view[s][r] = "in" THEN 1 ELSE 0

\* Of the same clients: handleMessage leaves no whole packet in the buffer of
\* a slot, where it would wait for the next recv or the slot's next client.
BuffersDrained ==
    \A i \in Slots : recvBuffer[i] # <<>> => handling = i

\* What this module takes its clients to be is what ClientSession says of them
\* and ChatClient is shown to be: for each handle, menu, request, receive loop
\* and commands come in that order, over all the connections the handle has.
Session(s) == INSTANCE ClientSession WITH
    mode     <- IF conn[s] # "open" THEN "away"
                ELSE IF s \in listening THEN "listening" ELSE "menu",
    chatting <- s \in chatting,
    out      <- inbox[s],
    in       <- wire[s]

ClientsKeepSession ==
    /\ \A s \in Sockets : Session(s)!Init
    /\ [][\A s \in Sockets : [Session(s)!Next]_(Session(s)!session)]_vars

\* To polite clients whose connections end in an orderly way, the server is
\* what RoomService says: rooms are sets, everything said in one reaches each
\* member once and in the same order, though members are counted copies in a
\* vector, packets are handled in batches and handles are reused.
Service == INSTANCE RoomService WITH
    open <- {s \in Sockets : conn[s] = "open"},
    in   <- [r \in Rooms |-> {s \in Sockets : members[r][s] > 0}],
    mail <- wire

ImplementsRoomService == Service!Spec

\* Of a client that waits for a verdict, its request or a verdict for it is
\* somewhere on the way: in the connection, in the buffer of its slot, on the
\* link, or sent to it.  It waits in vain only if that packet went down with the
\* link or was behind the first of one recv at either end of it: no thread, no
\* reuse of slot or handle and no failure of another client loses one.
UnderWay(s) ==
    \/ Some(inbox[s], Credentials)
    \/ \E i \in Slots : clientSockets[i] = s /\ Some(recvBuffer[i], Credentials)
    \/ Some(authRequests, {req \in AuthRequests : req.sock = s})
    \/ Some(authAnswers, {ans \in AuthAnswers : ans.sock = s})
    \/ Some(wire[s], [type: Verdicts])

LoginsUnderWay ==
    Alive => \A s \in Waiting \ lost : UnderWay(s)

\* A client that waits for the verdict on its login gets it, or goes.
LoginAnswered ==
    \A s \in Sockets :
        (s \in Waiting) ~>
            (s \notin listening \/ s \in chatting \/ conn[s] # "open")

\* A connection that ends gives its slot and its handle back.
CloseReclaimsSlot ==
    \A s \in Sockets : (conn[s] = "closed") ~> (conn[s] # "closed")

\* A user who joins a room and stays becomes a member of it.
JoinTakesEffect ==
    \A s \in Sockets, r \in Rooms :
        (view[s][r] = "in") ~> (members[r][s] > 0 \/ view[s][r] # "in")
=============================================================================
