# A verification project for GDP-Networked-Chat

Three Windows programs: a console **client**, a **chat server** and an
**authentication server** with a MySQL database. This directory holds TLA+
modules that model them, TLC configurations that check the models on small
instances, and proofs that TLAPS checks for every instance. `PROJECT.json` is
the index: components, runs, mutants, the lines each definition stands for,
findings, hazards and theorems.

## 1. The system

### Components

**Chat server: connections** (`Server/cTCPServer.cpp`). One thread, one loop:
`select` over the listening socket and 30 slots, `accept` into the first free
slot, `recv` of at most 512 bytes from each readable slot, appended to the
slot's `recvBuffer`, which is handed to the message handler. State:
`client_sockets[30]`, `recvBuffer[30]`. Ends of a connection: `recv` = 0
(orderly: `removeUserOnDisconnect`, close, free the slot), `WSAECONNRESET`
(close and free only), any other error (print, keep the slot). Hard: slots and
Windows handles are reused, `recvBuffer` is never cleared, an accepted socket
without a slot is forgotten. Correct means: slots name different open sockets,
every ended connection gives its slot back, nothing of it is left for the next.

**Chat server: message handler** (`Server/cServerMessageHandler.cpp`). State:
`g_connectedUsers` (socket to name) and `roomUserMap` (room to a vector of
sockets). Operations: login and register (forwarded to the authentication
server), join, say, leave, `removeUserOnDisconnect`. It handles the packets of
a buffer by calling itself. Hard: `operator[]` inserts what it does not find, a
vector can hold a socket twice, one branch returns early. Correct means: rooms
hold exactly who joined and did not leave, nobody changes another's membership,
every packet received is handled.

**Chat server: authentication client** (`Server/cTCPAuthClient.cpp`,
`Server/cAuthenticationClientMessageHandler.cpp`). A second thread of the same
process: connects once, receives answers, tells the client, and stores its name
in `g_connectedUsers`, which both threads use without a lock. The main thread
sends through the same object; a failing send closes the link and calls
`WSACleanup`. Hard: requests sent before the link is connected, the order of
"tell" and "store", answers for sockets that are gone, several answers in one
`recv`, a broken link. Correct means: only accepted logins get a name or enter
the chat, a name stays until its connection ends, and no request or answer gets
lost but with the link.

**Authentication server** (`AuthenticationServer/cAuthServerMessageHandler.cpp`,
`cTCPAuthServer.cpp`). The same select loop; its handler verifies passwords and
creates accounts through `cDatabaseHelper`. Hard: failure branches that do not
return, requests coalesced by TCP, crashes. Correct means: each request has one
answer and the answer tells what happened to the account.

**Accounts** (`AuthenticationServer/cDatabaseHelper.cpp`, `database_setup.sql`).
Two tables, one transaction in `createUser`; e-mails are indexed, not unique.
Correct means: one account per e-mail, both rows or none.

**Client** (`Client/*.cpp`). A menu that sends one request, then a receive loop;
a successful login starts a second thread, `ReadCin`, for `/join`, `/say`,
`/leave`, `/quit`. A failed one calls the menu from within the handler. State:
the history of messages (25 are kept), the console both threads use, the two
arrays of name and password, the flag `run`. Hard: menu and `ReadCin` on one
console and one socket, `std::cin` in its failed state, texts that fill or
exceed a buffer, a server that goes while packets wait or a menu is open.
Correct means: after each request the user is in the chat or back in the menu,
what is sent is what was typed, the screen shows the newest messages, and the
process ends when its user quits or its server goes.

**Buffers and framing** (`include/cBuffer.cpp`, the header loops of the four
handlers). A growing array with a write and a read index. The handlers read a
header, compare the remaining length with the packet size, handle the packet,
shift the buffer and recurse. Hard: packets cut or joined by `recv`, indices
that pass each other, an off-by-four. Correct means: the packets handled are
the packets sent, in order, however the bytes arrive.

**Packet layouts** (`include/cMessageProtocolHelper.cpp`,
`AuthenticationServer/cProtoBufHelper.cpp`), **password hashing**
(`cHashGenerator.cpp`) and **console output** (`cConsole.cpp`) are pure data or
output. Everything else under `src/include` is vendored, and
`AuthenticationProtocol.pb.*` is generated.

### Interactions

    client --TCP--> slot --recvBuffer--> handleMessage --+--> roomUserMap --send--> clients
                                             |            \
                                  authClient.sendMessage   g_connectedUsers  (no lock)
                                             v                 ^
                          authentication server --answers--> authentication thread --send--> client

## 2. The modules

| module | what it is |
| --- | --- |
| `ChatServer` | the chat server process with both threads, its link, and clients and authentication server as its environment; properties at the end |
| `MCChatServer` | `ChatServer` for TLC: symmetry, and the statements of comments and manual that the code contradicts |
| `RoomService` | what the chat server promises to orderly clients: rooms as sets, each message once to each member |
| `ClientSession` | what the two ends of a chat connection may count on: menu, request, receive loop, commands |
| `QueueLemmas` | lemmas about queues that the proof modules share |
| `ChatServerProofs` | theorems about `ChatServer` and their proofs |
| `SessionProofs` | the proof that `ChatServer`'s clients are those of `ClientSession` |
| `PoliteProofs` | theorems about `ChatServer` with orderly clients, among them that it implements `RoomService` |
| `ChatClient` | the client process: the main thread with menu, handler and history, the `ReadCin` threads, the console; a user and a chat server as its environment; properties at the end |
| `ChatClientProofs` | theorems about `ChatClient` and their proofs, among them that it implements `ClientSession` |
| `CommandProofs` | the theorem about what `ReadCin` sends and its proof |
| `MCChatClient` | `ChatClient` for TLC: the lines the user types |
| `AuthVerdicts` | the answers a request to the authentication server can get: what the two servers' models share |
| `AuthService` | what the authentication server promises, with an account as one thing made in one step |
| `AuthServer` | its handler and the two tables, query by query, with failures, crashes and restarts; properties at the end, among them that it implements `AuthService` |
| `MCAuthServer` | `AuthServer` with the statement of the manual that the code contradicts |
| `AuthServerProofs` | theorems about `AuthServer` and their proofs |
| `Framing` | how the four receiving ends take packets from a stream: `cBuffer`, the header loops, `recv` that cuts and joins; properties at the end |
| `MCFraming` | `Framing` for TLC: six conversations laid out as the senders do it, and the comments that cut packets contradict |
| `FramingProofs` | theorems about `Framing` and their proofs |

### `ChatServer`

State and code:

| variable | code |
| --- | --- |
| `clientSockets`, `recvBuffer` | the two arrays of `cTCPServer` |
| `handling` | the main thread's place: in the select loop (`NoSlot`) or inside `handleMessage` for a slot |
| `connectedUsers` | `g_connectedUsers`; `Absent` is "no key", `NoName` is `""` |
| `rooms`, `members` | the keys of `roomUserMap`, and how many copies of each socket a room's vector holds |
| `authRequests`, `authAnswers`, `linkUp` | the two directions of the link and whether it still works here |
| `wsaRefs` | calls of `WSAStartup` minus those of `WSACleanup` |
| `process` | `"cut"` once that number has been 0: every socket is dead, also after another `WSAStartup`; `"ended"` by the `exit` after the failing `select` |
| `authStep`, `authCur` | the authentication thread: starting up, connecting, receiving, about to look up, about to store |
| `conn`, `inbox`, `wire` | per handle: the state of the connection, what the server has not read, what the client has not read |
| `listening`, `chatting`, `view` | the client: in its receive loop or in a menu, `ReadCin` running, what its user did about each room |
| `asked`, `granted` | history: the logins asked for in the connection that has a handle now, and those accepted; emptied when it ends |
| `staleLogin`, `staleRooms` | history: handles on which the code leaves a name or login, or a membership, of the connection before |
| `lost` | history: clients that wait for a verdict and had the request or answer dropped on the way |

Actions and code: `AcceptIntoSlot`, `AcceptWithoutSlot`, `RecvData`, `RecvZero`,
`RecvReset` are the branches of the select loop (a "lost" connection is the
error branch that changes nothing). `HandleLogin` ... `HandleLeaveUnknown` are
the cases of `handleMessage`, one step per packet, whole: with the lookup that
inserts, the broadcast, the change of the room and the recursion or return at
the end (`PacketDone`). `SelectFails` is the `exit` of a server whose sockets are
dead. `AuthStart` and `AuthConnect` are what the
authentication thread does before its loop, `AuthReceive`, `AuthFind`,
`AuthStore` the three places of the loop between which the main thread can run.
`AuthServe`, `LinkFails` and the `Client...` actions are the environment.

Choices made:

- *Packets are whole.* `recv` takes one or more packets. That a buffer is then
  the queue of packets it is here, `Framing` proves for the chat ends
  (`InOrderCorrect`, `NothingLeftCorrect`); a packet that `recv` cuts is misread
  by this code, which is not mixed into this module.
- *The link loses coalesced packets.* `ParseFromArray` gets the whole buffer:
  when `recv` returns several packets of the link, the first is handled and all
  are consumed. (Its two arguments are unsequenced; the 32-bit Microsoft build
  the solution is for evaluates the length first, and the model takes that.)
- *Start-up is part of the link's failures.* `main` starts the authentication
  thread and goes on; where the link may fail (`LinkMayFail`), clients can be
  served before it is connected, and a request then fails as one does on a
  broken link. In the other instances the link is up in the initial state.
- *Winsock cleaned up.* A failing send calls `WSACleanup`. When that takes the
  count to 0 the sockets of the main thread are dead and its next `select` ends
  the process. Until then the authentication thread goes on: it may call
  `WSAStartup` and connect, so that the link comes up beside a server that is
  about to exit. Handlers under way go on too, and their sends reach nobody.
- *The unlocked map.* Each use of `g_connectedUsers` is one step. When both
  threads are inserting, the insertion of either can be lost (the second
  disjunct of `AuthStore`, the third of `NameLookup`). A corrupted tree or a
  crash of the debug build, which the data race also allows, ends the process
  and is not followed.
- *Handles* are reused as soon as they are free: `send` and the map key on the
  handle, so an answer for an old connection can reach a new one.
- *What a handle takes along* is noted where a connection ends (`Leaves`). The
  code lets three things pass: after a reset, the name and the memberships; after
  an orderly end, a login whose answer is still to come, and the second copy of
  a handle that joined a room twice; at an accept, the packets left in the slot's
  buffer. Such handles are in `staleLogin` or `staleRooms`, and the properties
  about names, chat access and memberships leave these handles alone. On all other
  handles they speak of the connection that has the handle now, whoever had it
  before.
- `closesocket` and `removeUserOnDisconnect` of one branch are one step: the
  authentication thread cannot tell the moments between them apart.
- The order in which the loop serves the readable slots of a round is left
  open, which is more than the code does.

### `AuthServer`

| variable | code |
| --- | --- |
| `up` | the process runs |
| `step` | the place in `handleMessage`, `verifyPassword`, `isUserExist` or `createUser`: the next query, or the next test |
| `cur`, `told` | the request worked on and the answers sent for it |
| `session` | `cDatabaseHelper::con`: never assigned, connected without its schema, or good |
| `autoCommit`, `lastId`, `txnUsers`, `txnAuth` | the state of that connection in the database |
| `users`, `webAuth`, `nextId` | the committed rows of the two tables and the counter of ids |
| `before`, `faulty` | history: the accounts when the request came, and whether something failed since |

`Connect` and `ConnectFails` are `ConnectToDatabase`; `VerifyPassword`,
`CheckExists`, `CheckStrength` are the conditions of the handler with the
answers behind them; `Recheck`, `InsertUser`, `InsertAuth`, `Commit` are
`createUser`; each query has a step in which it throws, with the rollback of its
`catch`. `FinishRegister` sends the last answer. `Crash` can happen anywhere and
`Restart` follows it.

Choices made:

- *One request at a time.* One thread serves the sockets. Requests that one
  `recv` returns together are consumed with the first and do not reach the
  tables; that loss is in `ChatServer`, where somebody waits for the answer.
- *A password stands for its salted hash*: the hashes of two passwords differ.
- *A commit can take effect and still throw* (`CommitUnheard`): the connection
  can break between the two.
- *An uninitialised `con`*, left when `connect` throws, ends the process at the
  first query (`UseOfGarbage`): the manual says that only the Debug build is
  kept, and it fills fresh memory with a pattern that is no address.
- `getUserIdWithCreateDate` reads the id and date that go into an answer; when
  it fails they are undefined, the answer is a success nonetheless. The model
  leaves both out of the answer.

`ChatServer` takes `VerdictsOn` as the behaviour of its peer; `AuthServer` is
shown to give no other answers (the theorem `Refinement`).

### `ChatClient` and `ClientSession`

| variable | code |
| --- | --- |
| `status` | the process runs, or how it ended: after a call that failed at start-up, by `exit` or the end of `main`, by an exception nobody catches ("aborted") |
| `main` | the place of the main thread: start-up, menu (`promptMenu`, the two prompts, about to send), `recv`, in `handleMessage` |
| `choice`, `nameSize`, `passSize` | the request the menu prepares: `selectedOption`, the lengths of `username` and `password` |
| `addresses`, `sock`, `wsaRefs` | addresses of the server not tried yet, `connectSocket`, calls of `WSAStartup` minus `WSACleanup` |
| `run`, `readers` | the flag of the loop in `ReadCin`; for each thread its place in the loop and what `buffer`, `roomName` and `message` hold |
| `input`, `failed` | what was typed and not read, as words and ends of lines; the failbit of `std::cin` |
| `recvBuffer`, `history`, `shown` | packets not handled yet, `messageHistory`, what `updateUI` printed last |
| `serverUp`, `toServer`, `wire` | the connection beyond the socket |
| `heard`, `typed`, `sent`, `strays`, `overlong`, `full`, `doubled` | history: messages handled, commands typed and sent, commands sent that nobody typed, lines that do not fit or just fit a prompt, a request answered twice |

`InitializeWinsock` ... `ConnectFails` are `main` up to the menu; `PickOption`
... `SendRequest` the menu, one step for each read of `std::cin`;
`Receive`, `ReceiveEnd`, `HandleNotice`, `HandleLoggedIn`, `HandleVerdict` are
`startListen` and `handleMessage`; `ReadWord` ... `Exit` are the loop of a
`ReadCin` thread, again one step for each read. `UserTypes` is the user,
`Server` the chat server as `ChatServer` has it.

`ClientSession` is the contract between the two models. `ChatClient` is shown
to implement it (`ImplementsClientSession`), and what `ChatServer` does with
its `Client...` actions, for every handle, is shown to be nothing else
(`ClientsKeepSession`): the server's model takes nothing for granted that the
client's model does not give.

Choices made:

- *A read of `std::cin` is one step.* The runtime locks the stream for one
  extraction, not for a line: the reads of two threads interleave, the
  characters of a word do not. `cin.clear` and the `cin.ignore` behind it are
  one step.
- *The failed state.* Nothing is read while the failbit is set: `operator>>`
  leaves its variable, `getline` makes its array empty. Only the menu clears it.
- *Lengths* are those of the longest text of a kind: short, filling a prompt
  (254), too long for a prompt and for a packet.
- *The menu inside the handler* is followed through `main`: the packets behind
  the verdict stay in `recvBuffer` until the request is sent. The recursion ends
  with one `updateUI` per level; the levels above the last show the same.
- A verdict's reason is one of those the servers send; the branch of each opens
  the menu.
- `recv` hands over whole packets; `Framing` has the cut ones.

### `RoomService`

Rooms as sets of connections, messages as a queue per connection. A step of the
server that broadcasts is `Join`, `Say` or `Leave`, with one copy for each
member; a connection that ends leaves its rooms without a word (`Forget`). Its
variables are `ChatServer`'s under the mapping in that module: who is in a room
is who has a copy in its vector. It holds of clients that join rooms they are
not in, leave those they are in, and end in an orderly way (`server_polite`).

### `Framing`

| variable | code |
| --- | --- |
| `talk` | the conversation: the receiving end, what its peer sends, and the layout of that in the stream |
| `sent`, `received` | packets sent, words that `recv` has returned |
| `buffer`, `capacity`, `writeIndex`, `readIndex` | the `cBuffer` of the receiving end: `_buffer`, its size, the two indices |
| `step`, `id`, `got` | the place in `handleMessage`, `messageId`, and the fields read so far |
| `handled` | history: the packets taken from the stream |
| `clean` | history: every `recv` ended where a packet does (and, at the authentication ends, held one) |

`Recv` is `recv`, `loadBuffer` and the call of the handler; `ReadHeader` the
reads before the test of the length, and the test; `ReadField` a `readIntBE` or
`readStringBE`; `FinishPacket` the flush and the recursion; `LeaveUnknown` the
branch of the chat server that does neither. `ReadsOutside` is an index beyond
the vector. What the handlers do with a packet is in the other modules.

Choices made:

- *A word is four bytes*, the unit of every number in a packet, so a size of 8
  bytes is 2 words; strings are whole words. `recv` cuts between words: a cut
  inside a word is one more way of cutting a packet, about which nothing is
  promised. Text is ASCII: a string that is misread as a number is positive.
- *One parameter for four handlers.* They differ in three places: the
  authentication ends test the length before reading the id, with the
  comparison of the chat ends (`HeaderWords`); they read all the rest of the
  buffer as one field (`"rest"` in `Layout`); the authentication thread recurses
  from 4 bytes on instead of 8 (`GoesOn`).
- *The Debug build* is the one that is kept: its vectors check every index, so
  reading behind the end ends the program. Reading beyond `writeIndex`, but
  inside the vector, goes through and returns what is there.
- `size_t` against `int`: the handlers cast the length, the flush does not;
  with `readIndex` beyond `writeIndex` the recursion goes on (`GoesOn`) and the
  next `loadBuffer` may throw (`Recv`). Both are in the model.
- A connection starts with a fresh buffer. What an earlier client of the slot
  left in it is `ChatServer`'s `recvBuffer`.
- The places of packets and fields are functions that `LaidOut` ties together
  step by step, not sums: proofs need no induction over the stream.

## 3. What is checked

All bounds are named constants; nothing is hidden in a definition.

| run | instance | question |
| --- | --- | --- |
| `server_safety` | 2 slots, 2 handles, 3 connections, 4 messages, 2 rooms, any behaviour, resets and losses | Is the state of the server consistent whatever clients do? `TypeOK`, `SlotsHoldDistinctOpenSockets`, `NoOrphanMembers`, `MembershipOwned`; does a handle take memberships from one client to the next? `MembersJoined` |
| `server_link` | 1 slot, 2 handles, 3 connections, 3 messages, 2 accounts, coalescing link that starts beside the clients and may break, resets | Who gets a name and enters the chat? `NamesAreGranted`, `ChattersWereGranted`, `NameSticky`, and `GrantsTravel`, the inductive invariant behind them; is a request or its answer ever lost without the link having lost it? `LoginsUnderWay`; are the clients those of `ClientSession`? `ClientsKeepSession` |
| `server_polite` | 2 slots, 2 handles, 3 connections, 4 messages, 2 rooms; users join and leave properly, connections end in order | Do server and users agree? `ViewsAgree`, `HearsOnlyRoomsItJoined`, `BuffersDrained`; is the server a `RoomService`? `ImplementsRoomService` |
| `server_live` | 2 slots, 2 handles, 2 connections, 3 messages, no coalescing on the link, no link failure | Do things happen that must? `LoginAnswered`, `CloseReclaimsSlot`, `JoinTakesEffect` |
| `auth_server` | 4 requests, 2 e-mails, 3 passwords of which 1 fails the strength check, failures and crashes everywhere | Are tables and answers right? `RowsPaired`, `OneAccountPerEmail`, `OkMeansStored`, `VerdictsAreExact`, `StepsInOrder` (the inductive invariant behind them), `ImplementsAuthService`, `RequestAnswered` |
| `chat_client` | 8 lines (options, a name, filling and over-long texts, join, say, quit), 2 logins, 2 answers to a request, 1 notice, 3 messages, 1 message on the screen, 2 packets in a `recv` | Does the client send what was typed, show what came, and end? `OneReader`, `NothingUnasked`, `ScreenShowsNewest`, `ShortTextsFit`, `ImplementsClientSession`, `EndIsNoticed`, `QuitEnds` |
| `framing` | 6 conversations of 3 or 4 packets with the 4 receiving ends, `recv` of 1 to 16 words, a vector of 16 words | Are the packets taken the packets sent? `TakenInOrder`, `ReadsWhatWasWritten`, `NothingLeftBehind`, `InStream` (the inductive invariant behind them), `HandlerReturns` |
| `blank_name`, `leave_once`, `login_lost`, `weak_password`, `cut_packet` | one or two clients; up to four requests; the conversations of `framing` | Statements of comments and manual that TLC refutes (section 5) |

Why these bounds are enough for the interesting cases: three connections on two
handles reuse a handle while another client is active; one slot for two handles
leaves a connection without a slot; two packets in one `recv` exercise the
recursion, the early return with packets behind it and the coalesced link; four
messages are a login and a join of two clients, or login, join, leave and
another command of one. `server_polite` and `server_live` restrict clients on
purpose: their properties are false of a client that joins twice or dies, as
the findings show, and what they establish is that nothing *else* breaks them.
A registration can get three answers (`AuthVerdicts`); `server_link` allows two
(`MaxAnswers`), enough for a second verdict that comes when its client has gone
or asked again, the other runs one, and `auth_server` has all three. In
`server_link` three connections on two handles also let a login be answered after
its handle has changed hands, and one login sent before the authentication thread
has started takes the count of Winsock to 0.
Four requests let one e-mail be registered, refused, logged in to and, after a
failed start, tried again, with another e-mail in between.
The conversations hold each kind of field and layout, leave rooms that exist
and that do not, and are longer than the vector of 16 words (512 bytes in the
code), so that it grows; `recv` can return all that was sent, or single words.
In `chat_client` two logins and two answers start two `ReadCin` threads beside a
menu; one place on the screen makes every second message push one out (25 in the
code); a command is typed once, so that sending it twice shows.
Deadlock checking is off: with bounded messages every run ends.

Each property has a mutant in `PROJECT.json`: an operator beside the original
(marked *Mutant* in the module) that changes it as a plausible bug would, and
with which TLC finds the property violated.

**Fairness** (`Fairness` in `ChatServer`). A round of the select loop visits
every slot, so a slot that is readable again and again is served: strong
fairness per slot, since the slot cannot be served while a handler runs.
Handler, authentication thread, authentication server and a client's receive
loop are threads that run whenever they can: weak fairness. Nobody is assumed
to connect, send, quit or fail. In `AuthServer` the handler's thread goes on
while the process runs (weak fairness of `HandleMessage`); queries return or
throw, which is an assumption about the MySQL connector. In `Framing` the thread
that called `handleMessage` goes on (weak fairness of `HandleMessage`); for the
client that includes a user who answers the menu the handler opens. In
`ChatClient` the main thread outside the menu goes on when there is a packet, or
the end of the connection, to receive (weak fairness of `Listen`), and a thread
that has read `/quit` goes on to `exit` (weak fairness of `Quit`); nothing is
assumed of the user, of the menu or of the server.

## 4. What is proved

`ChatServerProofs` proves, for every number of slots, handles, accounts, rooms
and every bound, and for polite and impolite environments alike:

- `TypeCorrect`: `Spec => []TypeOK`. One step per action; queues are handled by
  the lemmas `SplitType` (what `recv` takes and leaves) and `CopiesType`.
- `SlotsCorrect`: `[]SlotsHoldDistinctOpenSockets`. Inductive relative to
  `TypeOK`: a handle enters the table only when it is free, and becomes free
  only when it leaves the table.
- `RoomsCorrect`: `[]NoOrphanMembers`, and `OwnedCorrect`: `MembershipOwned`,
  both step by step from `TypeOK`.
- `NamesCorrect`: `[]NamesAreGranted`, and `ChattersCorrect`:
  `[]ChattersWereGranted`. Neither is inductive: the name comes from the
  authentication thread, which has it from the queue of answers; access to the
  chat comes from the wire; and what was accepted must have been asked for in the
  same connection, through its inbox, the buffer of its slot and the queue of
  requests. `GrantsTravel` (`TravelCorrect`) says what is true of each of these
  places, for handles outside `staleLogin`, and is inductive together with
  `TypeOK` and `SlotsHoldDistinctOpenSockets`. The hard steps are those where
  connections begin and end (`AcceptGrants`, `EndGrants`): a handle that is not
  set apart has nothing of its last connection on any of the queues.
- `JoinedCorrect`: `[]MembersJoined`, from `JoinsTravel`: a membership, or a join
  in the connection or in the buffer of its slot, is one the user of this
  connection made, and a handle nobody has is in no room.
- `LoginsCorrect`: `[]LoginsUnderWay`, the safety half of `LoginAnswered`. While
  a client waits, its request is in the inbox, the slot's buffer or the link, or
  an answer is in the link or on its wire, or the client is in `lost`. Each step
  hands the request on or turns it into an answer (`RecvKeeps`, `AskKeeps`,
  `ChatKeeps`, `ServeKeeps`, `AnswerKeeps`, `ClientKeeps`), or notes whom it
  leaves waiting (`Drops`, in the send that fails, the two receivers that read
  one packet of a `recv`, and the end of the link); `ListenersOpen` is needed
  beside it. It holds of every link, coalescing or failing, and every number of
  packets in a `recv`; `login_lost` shows one of the losses it allows.
- `NobodyForgotten`: `[]AllInSlots`, every open connection is in the slot table:
  the safety half of `CloseReclaimsSlot`. Its hypothesis `EnoughSlots`, no more
  handles than slots, is what `server_live` has too; without it the statement is
  false, as the hazard list says (`cTCPServer.cpp:117`). `FreeSlotLeft` is the
  counting: a free handle and distinct sockets in all slots would be too many.
- `StickyCorrect`: `NameSticky`. The conjunct of `GrantsTravel` that does it:
  while the authentication thread is about to store a name, no name is listed
  under that handle; only this thread stores names.

`SessionProofs` adds `SessionsCorrect`: `Spec => ClientsKeepSession`. Each step
of the server's model is, for every handle, a step of `ClientSession` or a
stutter; `IdleUnlessOpen` says that a handle without a connection has nothing on
its queues that a next one would take for its own.

`PoliteProofs` proves what `server_polite` checks, under that run's conditions:
users join rooms they are not in and leave those they are in, and connections end
in order (`Orderly`).

- `DrainsCorrect` (`BuffersDrained`), `HearsCorrect` (`HearsOnlyRoomsItJoined`) and
  `ViewsCorrect` (`ViewsAgree`) come from one inductive invariant, `PoliteInv`.
  None is inductive by itself: a command takes effect long after it was typed,
  so what a room's vector holds and what the user believes agree only when
  nothing is under way. `PendingLeads` says what is true in between: the packets
  in the connection and in the slot's buffer, handled one after the other, lead
  from the copies the vector holds now to what the user believes, and each is
  proper where it is handled. So no packet is a leave of an unknown room, the
  early return is not taken, and a handler that returns has left nothing in the
  buffer (`HandlerHasAll`); a handle without a connection has nothing of the last
  one (`LeftNothing`); rooms the user did not touch are in no packet under way
  (`UntouchedStays`), so nobody hears of them.
- `ServiceCorrect`: `Spec => ImplementsRoomService`, where in addition the link
  stays up (`~LinkMayFail`), without which the process may exit (`LinkStays`). Accepting is
  `Begin`; `RecvZero` is `Forget`; join, say and leave are themselves, because
  the invariant makes every vector a set (`OnceInRoom`) and a broadcast then one
  message to each member (`BroadcastTells`); a verdict of the authentication
  thread is `Verdict`, a client that reads or quits is `Read` or `End`; all other
  steps stutter.

- `CommandsCorrect` (`CommandsUnderWay`), the safety half of `JoinTakesEffect`, of
  leaving as well: where what the user last did about a room and what the room's
  vector holds differ, the packet that makes the difference is in the connection
  or in the buffer. `PendingLeads` has the packets lead from one to the other; so
  there is a first packet after which they agree (`LeastOf`), and that packet is the
  command (`LeadsElsewhere`).

The assumptions of these three modules: at least one slot, `NoSocket` is no
handle, `NoName` and `Absent` are no account names, "General" is a room, and the types of the bounds
(`SlotsAssumption`, `NamesAssumption`, `BoundsAssumption`).

`AuthServerProofs` proves, for all e-mails, passwords and numbers of requests:

- `TypeCorrect` and `OrderCorrect`: `TypeOK` and `StepsInOrder`, together the
  inductive invariant. It says, step by step, what the open transaction holds
  (nothing, the row of `user`, or both rows) and which failures have been
  answered; without it neither the pairing of the rows nor the shape of the
  answers is inductive, because both are decided several steps before they show.
- `PairedCorrect` (`RowsPaired`): between `InsertUser` and `Commit` the rows are
  in the transaction only, with an id no committed row has.
- `OneAccountCorrect` (`OneAccountPerEmail`): the e-mail had no account at
  `Recheck`, and nobody else writes the tables.
- `OkCorrect` (`OkMeansStored`).
- `VerdictsCorrect` (`VerdictsAreExact`): as long as nothing failed since the
  request came, each query has seen the accounts as they were then
  (`QueriesSee`), so each answer is the one that their state calls for.
- `Refinement`: `AuthServer!Spec => AuthService!Spec`, with the rows of
  `web_auth` as the accounts. `Receive` is `Ask`; the two commits are `Create`;
  steps that answer are `Answer`; everything else, crash and restart included,
  stutters. `CompleteAllowed` is the lemma that the answers of each step begin a
  sequence of `VerdictsOn`.

- `AnswersComplete`: when the handler returns and the process is up, the answers
  are a whole sequence of `VerdictsOn`. `AuthService` lets a request stop short,
  as a crash makes it; that nothing else does is what `AuthServe` of `ChatServer`
  takes for granted.
- `HandlerAdvances`: no branch leads back, whatever throws, so a request takes at
  most eight steps (`StepsLeft`): the safety half of `RequestAnswered`.

These proofs use no assumption on the constants.

`FramingProofs` proves, for all conversations that are laid out as the senders
do it (`TalksAssumption`) and all lengths of buffer and `recv`
(`LengthAssumption`):

- `TypeCorrect` (`TypeOK`), without any condition on `recv`: the indices stay in
  the vector even when packets are cut.
- `StreamCorrect` (`InStream`), `InOrderCorrect` (`TakenInOrder`),
  `ReadsCorrect` (`ReadsWhatWasWritten`) and `NothingLeftCorrect`
  (`NothingLeftBehind`), as long as `recv` ends where packets do. `TakenInOrder`
  is not inductive: what a handler takes depends on what the buffer holds.
  `InStream` says that the unread words are the stream from the next packet on,
  or from the next field on while a packet is read, and the five together are
  the induction. `PacketAhead` and `FieldAhead` derive from it what the next
  read returns; `RecvClean`, `HeaderClean`, `FieldClean`, `FinishClean` and
  `LeaveClean` are the steps; `InsideOnly` says that `ReadsOutside` is not one.

Of cut packets `TypeOK` is proved, and `HandlerAdvances`: each step of
`HandleMessage` takes from the natural number `WorkLeft`, six for every unread
word and one for every field still to be read, so its recursion ends also when it
reads texts for lengths. It is the safety half of `HandlerReturns`.

`ChatClientProofs` proves, for all lines a user may type, any number of threads,
addresses and places on the screen, and all bounds (`LinesAssumption`,
`ClientBoundsAssumption`):

- `TypeCorrect` (`TypeOK`). With it in the induction: a thread goes past the
  head of its loop only with a command (`WordsAreCommands`), and until the
  client is connected it has its main thread only (`StartsAlone`).
- `ScreenCorrect` (`ScreenShowsNewest`) from `KeepsNewest`: between two redraws
  the history may be longer than the screen and holds what no redraw has shown,
  but it is always the end of what was handled, and never shorter than the
  screen unless it is all of it.
- `ShortCorrect` (`ShortTextsFit`) from `OnlyShort`: as long as no long word was
  typed none is in the console's input, in a prompt's array or in a thread's
  `message`, through every read that cuts the input in two.
- `ReaderCorrect` (`OneReader`) from `OneTurn`: of the menu, a request under way,
  a verdict under way (on the wire or behind other packets in `recvBuffer`) and
  a `ReadCin` thread there is one at a time, unless a request got a second
  answer. `AllHandled` says that nothing is left in `recvBuffer` when `recv` is
  called, so the queue on the wire may be joined to it.
- `EndAdvances`, the safety half of `EndIsNoticed`: without the server `ToHandle`,
  two for each packet on the wire, one for each in `recvBuffer` and one for the
  process, never grows, and each `Listen` step takes from it.
- `QuitAdvances`, the safety half of `QuitEnds`: `QuitLeft(t)`, the steps left of a
  thread that is quitting, shrinks by its own steps and grows by nobody's.
- `SessionCorrect`: `Spec => ImplementsClientSession`, step by step
  (`SessionStep`). With `SessionsCorrect` above, what the server's model takes its
  clients to be is what the client's model is proved to be.

`CommandProofs` proves `UnaskedCorrect` (`NothingUnasked`), again for any number
of threads, any lines and any bounds. The property presupposes `ProperLines`: a
command stands at the start of its line and has its room and text behind it, and
nowhere else. Without that it is false: `ReadCin` reads word by word, so it takes
the second `/join` in `/join tea /join x` for a command, and the next line's first
word for the room that a bare `/join` lacks. `NothingUnasked` counts commands
sent against lines typed; the reads of menu and threads lie in between, word by
word. The invariant `LinesKept` says what is in between: `InOrder`, the input is a
sequence of typed lines of which the first may have lost its beginning, and each
thread holds the words of one typed line up to where it has read (`Holds`); and
`Accounted`, commands sent, commands still in the input and commands in the hands
of a thread are together at most as many as were typed. That only one party reads
at a time is `OneTurn`, of `ChatClientProofs`. `RestTyped` and `RestCopies` are the
lemmas about reading, `TypedCopies` about typing; one lemma per place of the loop
(`ReadWordKeeps` to `SendCommandKeeps`) uses them.

What must eventually happen is only model-checked, because liveness under
fairness is beyond the prover. Of each of these properties the part that is not
about fairness is proved: that what is to come is under way (`LoginsUnderWay`,
`CommandsUnderWay`, `AllInSlots`), or that each step of those that must happen
brings it nearer (the two `HandlerAdvances`, `EndAdvances`, `QuitAdvances`), in
the client also that no other step puts it off. That those steps happen, and are possible, is
what TLC adds.

## 5. What the code does not do

- **`blank_name`**: a client that sends a command right after its login can be
  handled before the authentication thread has stored its name; a blank name is
  inserted, is never replaced, and goes out with everything the user says.
- **`leave_once`**: after joining twice, `/leave` does not leave the room (and
  every message of the room comes twice).
- **`weak_password`**: a registration whose password fails the strength check is
  answered with a failure, and the account is created.
- **`login_lost`**: of two logins that reach the authentication server in one
  `recv`, one is never answered.
- **`cut_packet`**: the length test of the authentication ends is off by four
  bytes, so a packet without its last four bytes is parsed; at the chat ends the
  header of a cut packet is read and lost. What follows is misread, and can end
  the program.

The models show five more, which no sentence of the repository denies:

- A handle can pass a login on (`staleLogin`). A client asks for one and quits;
  the handle goes to the next client; the answer comes, is sent to that client,
  lets it into the chat (a client in its menu reads it when it listens) and lists
  it under the name of the other (`AuthReceive`, `AuthStore`). Without
  `\cap Fresh` `ChattersWereGranted` and `NamesAreGranted` are false. The comment
  of the handler says that messages go "back to the appropriate clients"
  (`cAuthenticationClientMessageHandler.cpp:31`), which does not settle whether a
  handle is one.
- After a reset the next client with the handle has the name and the rooms of the
  last one (`RecvReset`, `staleRooms`).
- The text of `/say` with 255 characters or more sets the failbit of
  `std::cin`. `ReadCin` does not clear it, its `buffer` stays "/say", and it sends
  an empty text to an empty room, which the server creates, for ever.
  `NothingUnasked` is false without `~overlong`. An over-long name makes the
  prompt for the password repeat without end in the same way.
- A name and a password that both fill their prompts make a packet of 524 bytes
  in a buffer of 512, which ends the client (`SendRequest`). `ShortTextsFit` gives
  the length up to which this cannot happen. That a password of "more than 255"
  characters fails the strength check, as the manual says, cannot be seen from
  this client: its prompt holds 254.
- Requests that clients make before the link to the authentication server is
  connected are lost, and each costs one `WSACleanup`; with as many of them as
  calls of `WSAStartup` so far, the sockets are dead and the server exits at its
  next `select` (`SelectFails`), though the authentication thread may still
  connect.

## 6. Plan, and what is not modelled

Every safety property of a passing run is proved. Two extensions would be worth a module
each: packets cut by `recv` within `ChatServer` (now only in `Framing`), and
several chat servers on one authentication server.

Not modelled, and why:

- *Password hashing and console output*: pure functions and output.
- *Socket set-up* of the servers (bind, listen): straight-line calls that print
  or exit when they fail.
- *The select loop of the authentication server* a second time: it is the code
  of the chat server's with one client; what differs, several requests in one
  `recv`, is in `ChatServer`'s link.
- *A full send buffer.* `send` on a blocking socket waits for a client that does
  not read, which one at its menu does not. Buffers of the operating system have
  no limit in the models.
- *The lengths of texts in the server.* A message that fitted the client's
  packet may not fit the server's, which carries the sender's name as well.
- *Handles of the link among those of clients.* After a failed send the closed
  link keeps its handle, which `accept` may return for a client.
- *Bytes within a word* and the protobuf encoding.
