----------------------------- MODULE ChatClient -----------------------------
(***************************************************************************)
(* The chat client process.  The main thread connects, opens the menu and  *)
(* then receives: cTCPClient::startListen hands what came to the handler   *)
(* cClientMessageHandler, which shows notices, opens the menu again inside *)
(* the handler when a request failed, and starts a ReadCin thread when a   *)
(* login succeeded.  Menu and ReadCin threads read the same std::cin and   *)
(* use the same socket.  Around it: a user who types lines and a chat      *)
(* server that answers requests, sends notices and may go away.            *)
(*                                                                         *)
(* The console input is the sequence of the words typed, with Eol at the   *)
(* end of each line.  Only three things about a word matter: whether it is *)
(* a menu option or a command, and whether it is short, fills a prompt     *)
(* ("full") or is too long for a prompt and for a packet ("long").         *)
(***************************************************************************)
EXTENDS AuthVerdicts, FiniteSets

CONSTANTS
    MaxLogins,    \* bound: logins the server accepts
    Lines,        \* the lines the user may type
    HistoryLimit, \* messages on the screen at once
    MaxAddresses, \* bound: addresses the server's name resolves to
    MaxRecvBatch, \* bound: packets one recv can return
    MaxAnswers,   \* bound: answers to one request
    MaxTyped,     \* bound: how often the user types a command
    MaxAhead,     \* bound: lines typed and not read
    NoticeTypes, MaxNotices,  \* bound: notices the server sends
    MaxSends      \* bound: messages the client sends

Readers  == 1..MaxLogins   \* the ReadCin threads
Options  == {"1", "2", "3"}
Commands == {"/join", "/leave", "/say"}
Eol      == "eol"

CommandLines ==
    {l \in Lines : Len(l) > 1 /\ l[1] \in Commands}

ASSUME LinesAssumption == Lines \subseteq Seq(STRING) /\ HistoryLimit \in Nat \ {0}
ASSUME ClientBoundsAssumption ==
    /\ MaxAddresses \in Nat /\ MaxRecvBatch \in Nat \ {0} /\ MaxAnswers \in Nat
    /\ MaxLogins \in Nat /\ MaxTyped \in Nat /\ MaxAhead \in Nat
    /\ NoticeTypes \subseteq {"said", "left", "joined"}
    /\ MaxNotices \in Nat /\ MaxSends \in Nat

VARIABLES
    status,      \* "running", or how the process ended
    main,        \* where the main thread is
    choice,      \* the request the menu prepares
    nameSize, passSize,  \* strlen(username), strlen(password)
    addresses,   \* addresses not tried yet
    wsaRefs,     \* WSAStartup calls minus WSACleanup calls
    sock,        \* connectSocket: "none", "open", "down" (shut down), "closed"
    run,         \* the flag the ReadCin threads look at
    readers,     \* each ReadCin thread: place, word, room and text read
    input,       \* what was typed and nobody has read
    failed,      \* std::cin has its failbit set
    recvBuffer,  \* packets recv has returned and no handler has read
    history,     \* messageHistory
    shown,       \* the messages on the screen
    serverUp,    \* the server's end of the connection exists
    toServer,    \* packets on their way to the server
    wire,        \* packets on their way from the server
    heard,       \* history: the messages the handler took, in order
    typed, sent, \* history: how often each command was typed, and sent
    strays,      \* history: commands sent that nobody typed
    overlong,    \* history: a line too long for a prompt was typed
    full,        \* history: a line that fills a prompt was typed
    doubled,     \* history: a request got more than one answer
    notices, sends  \* what the bounds count

startVars   == <<addresses, wsaRefs>>
menuVars    == <<choice, nameSize, passSize>>
screenVars  == <<history, shown, heard>>
consoleVars == <<input, failed>>
serverVars  == <<serverUp, wire, notices, doubled>>
typedVars   == <<typed, overlong, full>>
sentVars    == <<sent, strays, sends>>
linkVars    == <<sock, wsaRefs, toServer>>
vars == <<status, main, menuVars, addresses, linkVars, run, readers, consoleVars,
          recvBuffer, screenVars, serverVars, typedVars, sentVars>>

Running == status = "running"
MenuSteps == {"option", "badOption", "name", "password", "request"}
InMenu  == main \in MenuSteps
Connected == Running /\ sock = "open" /\ serverUp

Idle == [at |-> "none", word |-> "", room |-> "", text |-> <<>>]

Init ==
    /\ status = "running"
    /\ main = "winsock"
    /\ choice = "none" /\ nameSize = 0 /\ passSize = 0
    /\ addresses = 0
    /\ wsaRefs = 0
    /\ sock = "none"
    /\ run = TRUE
    /\ readers = [t \in Readers |-> Idle]
    /\ input = <<>> /\ failed = FALSE
    /\ recvBuffer = <<>>
    /\ history = <<>> /\ shown = <<>> /\ heard = <<>>
    /\ serverUp = FALSE /\ toServer = <<>> /\ wire = <<>>
    /\ typed = [l \in CommandLines |-> 0]
    /\ sent = [l \in CommandLines |-> 0]
    /\ strays = 0
    /\ overlong = FALSE /\ full = FALSE /\ doubled = FALSE
    /\ notices = 0 /\ sends = 0
-----------------------------------------------------------------------------
(***************************************************************************)
(* main() up to the first menu.  A call that fails ends the process; after *)
(* a failed connect WSACleanup has been called twice.                      *)
(***************************************************************************)
Starting ==
    UNCHANGED <<menuVars, toServer, run, readers, consoleVars, recvBuffer, screenVars,
                wire, notices, doubled, typedVars, sentVars>>

InitializeWinsock ==
    /\ Running /\ main = "winsock"
    /\ \/ wsaRefs' = 1 /\ main' = "resolve" /\ UNCHANGED status
       \/ status' = "failed" /\ UNCHANGED <<wsaRefs, main>>
    /\ UNCHANGED <<addresses, sock, serverUp>>
    /\ Starting

ResolveServerAddr ==
    /\ Running /\ main = "resolve"
    /\ \/ /\ addresses' \in 0..MaxAddresses
          /\ main' = "connect"
          /\ UNCHANGED <<wsaRefs, status>>
       \/ /\ wsaRefs' = wsaRefs - 1
          /\ status' = "failed"
          /\ UNCHANGED <<addresses, main>>
    /\ UNCHANGED <<sock, serverUp>>
    /\ Starting

\* One address: connect succeeds, or fails and the next one is tried.
TryAddress ==
    /\ Running /\ main = "connect" /\ addresses > 0
    /\ addresses' = addresses - 1
    /\ \/ sock' = "open" /\ serverUp' = TRUE /\ main' = "option"
       \/ UNCHANGED <<sock, serverUp, main>>
    /\ UNCHANGED <<wsaRefs, status>>
    /\ Starting

\* No address is left, or socket() fails: connectToServer cleans up, and so
\* does main().
ConnectFails ==
    /\ Running /\ main = "connect"
    /\ wsaRefs' = 0
    /\ status' = "failed"
    /\ UNCHANGED <<addresses, main, sock, serverUp>>
    /\ Starting
-----------------------------------------------------------------------------
(***************************************************************************)
(* Reading std::cin.  operator>> takes the next word and skips the ends of *)
(* lines in front of it; getline takes the rest of the line, and as much   *)
(* of a long one as fits, in which case it sets the failbit.  While that   *)
(* is set nothing is read: operator>> leaves its variable as it is and     *)
(* getline makes its array empty.                                          *)
(***************************************************************************)
WordAt(k) == input[k] # Eol /\ \A j \in 1..(k - 1) : input[j] = Eol
EolAt(k)  == input[k] = Eol /\ \A j \in 1..(k - 1) : input[j] # Eol

From(k) == SubSeq(input, k, Len(input))

HasLong(text) == \E j \in DOMAIN text : text[j] = "long"
HasFull(text) == \E j \in DOMAIN text : text[j] = "full"

\* operator>> puts w into its variable, which held old.
Extract(old, w) ==
    \/ failed /\ w = old /\ UNCHANGED consoleVars
    \/ /\ ~failed
       /\ \E k \in DOMAIN input :
            WordAt(k) /\ w = input[k] /\ input' = From(k + 1)
       /\ UNCHANGED failed

\* getline puts text into its array.
GetLine(text) ==
    \/ failed /\ text = <<>> /\ UNCHANGED consoleVars
    \/ /\ ~failed
       /\ \E k \in DOMAIN input :
            /\ EolAt(k) /\ text = SubSeq(input, 1, k - 1)
            /\ IF HasLong(text) THEN input' = <<"tail">> \o From(k) /\ failed' = TRUE
                                ELSE input' = From(k + 1) /\ UNCHANGED failed

InputWords == {input[k] : k \in DOMAIN input}
InputTexts == {<<>>} \cup {SubSeq(input, 1, k - 1) : k \in DOMAIN input}

BufferLength == 512   \* cBuffer::DEFAULT_BUFFER_LENGTH
HeaderSize   == 8
IntSize      == 4
PromptSize   == 254   \* what getline(text, 255) can return
ShortSize    == 248   \* the most a short name, password or text has
ShortRoom    == 242   \* the most a short room name has

TextSize(text) ==
    IF text = <<>> THEN 0
    ELSE IF HasLong(text) \/ HasFull(text) THEN PromptSize ELSE ShortSize
-----------------------------------------------------------------------------
(***************************************************************************)
(* cTCPClient::sendMessage.  The socket may be shut or closed by another   *)
(* thread, and the first send after the server went may still succeed; a   *)
(* failing one closes the socket and calls WSACleanup, and nobody looks at *)
(* the result.                                                             *)
(***************************************************************************)
CleanedUp(n) == IF n = 0 THEN 0 ELSE n - 1

\* Mutant: a send that succeeded is repeated.
SendMessageTwice(msg) ==
    /\ sends < MaxSends
    /\ sends' = sends + 1
    /\ sock = "open" /\ serverUp
    /\ toServer' = toServer \o <<msg, msg>>
    /\ UNCHANGED <<sock, wsaRefs>>

SendMessage(msg) ==
    /\ sends < MaxSends
    /\ sends' = sends + 1
    /\ \/ /\ sock = "open" /\ serverUp
          /\ toServer' = Append(toServer, msg)
          /\ UNCHANGED <<sock, wsaRefs>>
       \/ /\ sock = "open" /\ ~serverUp
          /\ UNCHANGED linkVars
       \/ /\ ~(sock = "open" /\ serverUp)
          /\ sock' = "closed"
          /\ wsaRefs' = CleanedUp(wsaRefs)
          /\ UNCHANGED toServer
-----------------------------------------------------------------------------
(***************************************************************************)
(* After a packet: the buffer is flushed, the next packet is handled, and  *)
(* once none is left every level of the recursion redraws the screen,      *)
(* which cuts the history h to its newest messages.                        *)
(***************************************************************************)
\* Mutant: one message too few is kept.
NewestTooFew(h) ==
    IF Len(h) >= HistoryLimit THEN SubSeq(h, Len(h) - HistoryLimit + 2, Len(h)) ELSE h

Newest(h) ==
    IF Len(h) > HistoryLimit THEN SubSeq(h, Len(h) - HistoryLimit + 1, Len(h)) ELSE h

\* Mutant: the recursion goes on whatever is left.
GoOnAlways(h, rest) ==
    main' = "handle" /\ history' = h /\ UNCHANGED shown

GoOn(h, rest) ==
    IF rest = <<>>
    THEN main' = "recv" /\ history' = Newest(h) /\ shown' = Newest(h)
    ELSE main' = "handle" /\ history' = h /\ UNCHANGED shown

(***************************************************************************)
(* promptMenu, promptLogin, promptRegisterAccount: on the main thread,     *)
(* first from main(), later from within the handler of a verdict.          *)
(***************************************************************************)
AtMenu(step) == Running /\ main = step

MenuOnly ==
    UNCHANGED <<addresses, linkVars, run, readers, recvBuffer, screenVars, serverVars,
                typedVars, sentVars>>

\* cin >> selectedOption, with a word that is one.  "3" calls exit.
PickOption ==
    /\ AtMenu("option") /\ ~failed
    /\ \E w \in InputWords \cap Options :
         /\ Extract("", w)
         /\ CASE w = "1" -> choice' = "login" /\ main' = "name" /\ UNCHANGED status
              [] w = "2" -> choice' = "register" /\ main' = "name" /\ UNCHANGED status
              [] w = "3" -> status' = "ended" /\ UNCHANGED <<choice, main>>
    /\ UNCHANGED <<nameSize, passSize>>
    /\ MenuOnly

\* The word is no number and stays where it is, or std::cin had failed before.
MisreadOption ==
    /\ AtMenu("option")
    /\ failed \/ \E k \in DOMAIN input : WordAt(k) /\ input[k] \notin Options
    /\ failed' = TRUE
    /\ main' = "badOption"
    /\ input' = IF failed THEN input
                ELSE From(CHOOSE k \in DOMAIN input : WordAt(k))
    /\ UNCHANGED <<status, menuVars>>
    /\ MenuOnly

\* cin.clear(), and cin.ignore() of the rest of the line.
ClearLine ==
    /\ AtMenu("badOption")
    /\ \E k \in DOMAIN input : EolAt(k) /\ input' = From(k + 1)
    /\ failed' = FALSE
    /\ main' = "option"
    /\ UNCHANGED <<status, menuVars>>
    /\ MenuOnly

\* An empty line is asked for again; so is the empty array that getline
\* leaves once std::cin has failed.
PromptName ==
    /\ AtMenu("name")
    /\ \E text \in InputTexts :
         /\ GetLine(text)
         /\ nameSize' = TextSize(text)
         /\ main' = IF text = <<>> THEN "name" ELSE "password"
    /\ UNCHANGED <<status, choice, passSize>>
    /\ MenuOnly

PromptPassword ==
    /\ AtMenu("password")
    /\ \E text \in InputTexts :
         /\ GetLine(text)
         /\ passSize' = TextSize(text)
         /\ main' = IF text = <<>> THEN "password" ELSE "request"
    /\ UNCHANGED <<status, choice, nameSize>>
    /\ MenuOnly

\* Mutant: the strings are written with their terminating zeros.
CredentialsSizeTerminated(name, pass) ==
    HeaderSize + IntSize + name + 1 + IntSize + pass + 1

\* createServerJoinMessage, createRegisterMessage.
CredentialsSize(name, pass) == HeaderSize + IntSize + name + IntSize + pass

\* The strings are written with at(), which throws behind the last byte of
\* the buffer; nothing catches that.  The two arrays keep their text, but no
\* thread reads it before the next menu replaces it: the model forgets it.
SendRequest ==
    /\ AtMenu("request")
    /\ IF CredentialsSize(nameSize, passSize) <= BufferLength
       THEN /\ SendMessage([type |-> choice])
            /\ GoOn(history, recvBuffer)
            /\ UNCHANGED status
       ELSE /\ status' = "aborted"
            /\ UNCHANGED <<main, history, shown, linkVars, sends>>
    /\ choice' = "none" /\ nameSize' = 0 /\ passSize' = 0
    /\ UNCHANGED <<addresses, run, readers, consoleVars, recvBuffer, heard,
                   serverVars, typedVars, sent, strays>>
-----------------------------------------------------------------------------
(***************************************************************************)
(* startListen and handleMessage.                                          *)
(***************************************************************************)
Receive ==
    /\ Running /\ main = "recv" /\ sock = "open"
    /\ \E n \in 1..MaxRecvBatch :
         /\ n <= Len(wire)
         /\ recvBuffer' = SubSeq(wire, 1, n)
         /\ wire' = SubSeq(wire, n + 1, Len(wire))
    /\ main' = "handle"
    /\ UNCHANGED <<status, menuVars, addresses, linkVars, run, readers, consoleVars,
                   screenVars, serverUp, notices, doubled, typedVars, sentVars>>

ProcessEnds ==
    /\ Running /\ main = "recv"
    /\ status' = "ended"
    /\ UNCHANGED <<main, menuVars, addresses, linkVars, run, readers, consoleVars,
                   recvBuffer, screenVars, serverVars, typedVars, sentVars>>

\* Mutant: the loop goes on when recv returns 0.
ReceiveEndOnError ==
    /\ sock # "open"
    /\ ProcessEnds

\* recv returns 0 or an error: main() returns, and the process ends with it.
ReceiveEnd ==
    /\ sock # "open" \/ (~serverUp /\ wire = <<>>)
    /\ ProcessEnds

Packet == Head(recvBuffer)
Rest   == Tail(recvBuffer)

HandlesPacket ==
    /\ Running /\ main = "handle"
    /\ recvBuffer' = Rest
    /\ UNCHANGED <<status, menuVars, addresses, linkVars, run, consoleVars,
                   serverVars, typedVars, sentVars>>

\* A line for the message history.
AddsLine ==
    /\ heard' = Append(heard, Packet)
    /\ GoOn(Append(history, Packet), Rest)

\* Messages 3, 5 and 6.
HandleNotice ==
    /\ HandlesPacket
    /\ Packet.type \in {"said", "left", "joined"}
    /\ AddsLine
    /\ UNCHANGED readers

NextLoop == IF run THEN "word" ELSE "over"

\* Message 7: detachCIN starts one more thread.
HandleLoggedIn ==
    /\ HandlesPacket
    /\ Packet.type = "authOk"
    /\ \E t \in Readers :
         /\ readers[t].at = "none" /\ \A u \in Readers : u < t => readers[u].at # "none"
         /\ readers' = [readers EXCEPT ![t].at = NextLoop]
    /\ AddsLine

\* Mutant: a reason that is not among the cases.
HandleVerdictSilently ==
    /\ HandlesPacket
    /\ Packet.type \in Verdicts \ {"authOk"}
    /\ GoOn(history, Rest)
    /\ UNCHANGED <<readers, heard>>

\* Messages 8, 9 and 10: the menu opens, and the packets behind wait for it.
HandleVerdict ==
    /\ HandlesPacket
    /\ Packet.type \in Verdicts \ {"authOk"}
    /\ main' = "option"
    /\ UNCHANGED <<readers, screenVars>>
-----------------------------------------------------------------------------
(***************************************************************************)
(* ReadCin, on a thread of its own for every accepted login.               *)
(***************************************************************************)
ReaderAt(t, place) == Running /\ readers[t].at = place

ReadingOnly ==
    UNCHANGED <<status, main, menuVars, addresses, linkVars, recvBuffer, screenVars,
                serverVars, typedVars, sentVars>>

\* cin >> buffer.  A word that is no command is dropped.
ReadWord(t) ==
    /\ ReaderAt(t, "word")
    /\ \E w \in InputWords \cup {readers[t].word} :
         /\ Extract(readers[t].word, w)
         /\ run' = (run /\ w # "/quit")
         /\ readers' = [readers EXCEPT
              ![t].word = w,
              ![t].at = IF w = "/quit" THEN "shutdown"
                        ELSE IF w \in Commands THEN "room" ELSE NextLoop]
    /\ ReadingOnly

\* cin >> roomName, which starts empty.
ReadRoom(t) ==
    /\ ReaderAt(t, "room")
    /\ \E w \in InputWords \cup {""} :
         /\ Extract("", w)
         /\ readers' = [readers EXCEPT
              ![t].room = w,
              ![t].at = IF readers[t].word = "/say" THEN "text" ELSE "send"]
    /\ UNCHANGED run
    /\ ReadingOnly

\* cin.getline(message, 255).
ReadText(t) ==
    /\ ReaderAt(t, "text")
    /\ \E text \in InputTexts :
         /\ GetLine(text)
         /\ readers' = [readers EXCEPT ![t].text = text, ![t].at = "send"]
    /\ UNCHANGED run
    /\ ReadingOnly

CommandOf(r) ==
    [type |-> CASE r.word = "/join"  -> "join"
                [] r.word = "/leave" -> "leave"
                [] r.word = "/say"   -> "say"]

LineOf(r) == <<r.word, r.room>> \o r.text

RoomSize(room) ==
    CASE room = ""     -> 0
      [] room = "full" -> PromptSize
      [] room = "long" -> BufferLength
      [] OTHER         -> ShortRoom

\* createJoinRoomMessage, createLeaveRoomMessage, createSendMessage.
CommandSize(r) ==
    HeaderSize + IntSize + RoomSize(r.room)
    + (IF r.word = "/say" THEN IntSize + TextSize(r.text) ELSE 0)

\* Mutant: the branch of /leave is not an else of the branch of /join.
AfterCommandAgain(r) ==
    IF r.word = "/join" THEN [r EXCEPT !.word = "/leave"]
    ELSE [r EXCEPT !.at = NextLoop, !.room = "", !.text = <<>>]

\* Where a thread goes after its command, back to the head of the loop.
AfterCommand(r) == [r EXCEPT !.at = NextLoop, !.room = "", !.text = <<>>]

SendsCommand(t, r) ==
    /\ SendMessage(CommandOf(r))
    /\ readers' = [readers EXCEPT ![t] = AfterCommand(r)]
    /\ IF LineOf(r) \in CommandLines
       THEN sent' = [sent EXCEPT ![LineOf(r)] = @ + 1] /\ UNCHANGED strays
       ELSE strays' = strays + 1 /\ UNCHANGED sent

SendCommand(t) ==
    LET r == readers[t] IN
    /\ ReaderAt(t, "send")
    /\ IF CommandSize(r) <= BufferLength
       THEN SendsCommand(t, r) /\ UNCHANGED status
       ELSE status' = "aborted" /\ UNCHANGED <<readers, linkVars, sentVars>>
    /\ UNCHANGED <<main, menuVars, addresses, run, consoleVars, recvBuffer,
                   screenVars, serverVars, typedVars>>

QuitOnly ==
    UNCHANGED <<main, menuVars, addresses, toServer, run, consoleVars, recvBuffer,
                screenVars, serverVars, typedVars, sentVars>>

\* closeSendSocket: shutdown, and when that fails closesocket and WSACleanup.
ShutDown(t) ==
    /\ ReaderAt(t, "shutdown")
    /\ readers' = [readers EXCEPT ![t].at = "cleanUp"]
    /\ \/ sock \in {"open", "down"} /\ sock' = "down" /\ UNCHANGED wsaRefs
       \/ /\ ~(sock = "open" /\ serverUp)
          /\ sock' = "closed" /\ wsaRefs' = CleanedUp(wsaRefs)
    /\ UNCHANGED status
    /\ QuitOnly

\* Mutant: the thread returns where it should call exit.
CleanUpReturns(t) ==
    /\ ReaderAt(t, "cleanUp")
    /\ readers' = [readers EXCEPT ![t].at = "over"]
    /\ sock' = "closed" /\ wsaRefs' = CleanedUp(wsaRefs)
    /\ UNCHANGED status
    /\ QuitOnly

CleanUp(t) ==
    /\ ReaderAt(t, "cleanUp")
    /\ readers' = [readers EXCEPT ![t].at = "exit"]
    /\ sock' = "closed" /\ wsaRefs' = CleanedUp(wsaRefs)
    /\ UNCHANGED status
    /\ QuitOnly

Exit(t) ==
    /\ ReaderAt(t, "exit")
    /\ status' = "ended"
    /\ UNCHANGED <<readers, sock, wsaRefs>>
    /\ QuitOnly
-----------------------------------------------------------------------------
(***************************************************************************)
(* The user types a line, and the chat server does what ChatServer shows   *)
(* of it: it answers requests, sends notices, and may go away.             *)
(***************************************************************************)
LinesAhead == {k \in DOMAIN input : input[k] = Eol}

UserTypes(l) ==
    /\ Running
    /\ Cardinality(LinesAhead) < MaxAhead
    /\ l \in CommandLines => typed[l] < MaxTyped
    /\ input' = input \o l \o <<Eol>>
    /\ overlong' = (overlong \/ HasLong(l))
    /\ full' = (full \/ HasFull(l))
    /\ typed' = IF l \in CommandLines THEN [typed EXCEPT ![l] = @ + 1] ELSE typed
    /\ UNCHANGED <<status, main, menuVars, addresses, linkVars, run, readers, failed,
                   recvBuffer, screenVars, serverVars, sentVars>>

EnvironmentOnly ==
    UNCHANGED <<status, main, menuVars, addresses, sock, wsaRefs, run, readers,
                consoleVars, recvBuffer, screenVars, typedVars, sentVars>>

\* Logins whose thread is started or will be.
Accepted(q) == Cardinality({k \in DOMAIN q : q[k].type = "authOk"})
Logins ==
    Cardinality({t \in Readers : readers[t].at # "none"}) + Accepted(recvBuffer) + Accepted(wire)

ServerAnswers ==
    LET req == Head(toServer) IN
    /\ Connected /\ toServer # <<>>
    /\ req.type \in {"login", "register"}
    /\ toServer' = Tail(toServer)
    /\ \E v \in VerdictsOn(req) :
         /\ Len(v) <= MaxAnswers
         /\ Logins + Accepted([k \in DOMAIN v |-> [type |-> v[k]]]) <= Cardinality(Readers)
         /\ wire' = wire \o [k \in DOMAIN v |-> [type |-> v[k]]]
         /\ doubled' = (doubled \/ Len(v) > 1)
    /\ UNCHANGED <<serverUp, notices>>
    /\ EnvironmentOnly

ServerTakesCommand ==
    /\ Connected /\ toServer # <<>>
    /\ Head(toServer).type \in {"join", "say", "leave"}
    /\ toServer' = Tail(toServer)
    /\ UNCHANGED serverVars
    /\ EnvironmentOnly

ServerNotifies ==
    /\ Connected /\ notices < MaxNotices
    /\ notices' = notices + 1
    /\ \E type \in NoticeTypes :
         wire' = Append(wire, [type |-> type, number |-> notices'])
    /\ UNCHANGED <<serverUp, doubled, toServer>>
    /\ EnvironmentOnly

\* The server goes: what it sent arrives, or is lost with the connection.
ServerEnds ==
    /\ Running /\ serverUp
    /\ serverUp' = FALSE
    /\ toServer' = <<>>
    /\ wire' \in {wire, <<>>}
    /\ UNCHANGED <<notices, doubled>>
    /\ EnvironmentOnly
-----------------------------------------------------------------------------
Start == InitializeWinsock \/ ResolveServerAddr \/ TryAddress \/ ConnectFails
Menu  == \/ PickOption \/ MisreadOption \/ ClearLine
         \/ PromptName \/ PromptPassword \/ SendRequest
HandleMessage == HandleNotice \/ HandleLoggedIn \/ HandleVerdict
Listen == Receive \/ ReceiveEnd \/ HandleMessage
Quit(t) == ShutDown(t) \/ CleanUp(t) \/ Exit(t)
ReadCin(t) == ReadWord(t) \/ ReadRoom(t) \/ ReadText(t) \/ SendCommand(t) \/ Quit(t)
Server == ServerAnswers \/ ServerTakesCommand \/ ServerNotifies \/ ServerEnds

Next ==
    \/ Start \/ Menu \/ Listen
    \/ \E t \in Readers : ReadCin(t)
    \/ \E l \in Lines : UserTypes(l)
    \/ Server

Spec == Init /\ [][Next]_vars

(***************************************************************************)
(* The main thread goes on whenever there is something for it to receive   *)
(* or handle, and so does a thread that is quitting.  Nothing makes the    *)
(* user type or the server answer.                                         *)
(***************************************************************************)
Fairness ==
    /\ WF_vars(Listen)
    /\ \A t \in Readers : WF_vars(Quit(t))

FairSpec == Spec /\ Fairness
-----------------------------------------------------------------------------
(***************************************************************************)
(* Properties.                                                             *)
(***************************************************************************)
\* What the variables of the console can hold.
Words == {"", "tail", Eol} \cup UNION {{l[k] : k \in DOMAIN l} : l \in Lines}
Texts == Seq(Words)
Notices == [type: {"said", "left", "joined"}, number: Nat]
ServerMsgs == [type: Verdicts] \cup Notices
ClientMsgs == [type: {"login", "register", "join", "say", "leave"}]
Places == {"none", "word", "room", "text", "send", "over", "shutdown", "cleanUp", "exit"}

\* The type of every variable.
TypeOK ==
    /\ status \in {"running", "failed", "ended", "aborted"}
    /\ main \in {"winsock", "resolve", "connect", "recv", "handle"} \cup MenuSteps
    /\ main = "handle" => recvBuffer # <<>>
    /\ choice \in {"login", "register", "none"}
    /\ Running /\ main \in {"name", "password", "request"} => choice # "none"
    /\ nameSize \in Nat /\ passSize \in Nat
    /\ addresses \in Nat /\ wsaRefs \in Nat
    /\ sock \in {"none", "open", "down", "closed"}
    /\ {run, failed, serverUp, overlong, full, doubled} \subseteq BOOLEAN
    /\ readers \in [Readers -> [at: Places, word: Words, room: Words, text: Texts]]
    /\ input \in Texts
    /\ recvBuffer \in Seq(ServerMsgs) /\ wire \in Seq(ServerMsgs)
    /\ toServer \in Seq(ClientMsgs)
    /\ history \in Seq(ServerMsgs) /\ shown \in Seq(ServerMsgs) /\ heard \in Seq(ServerMsgs)
    /\ typed \in [CommandLines -> Nat] /\ sent \in [CommandLines -> Nat]
    /\ strays \in Nat
    /\ notices \in Nat /\ sends \in Nat

\* The places where a ReadCin thread can take words from the console.
Reads(t) == readers[t].at \in {"word", "room", "text", "send"}

\* As long as every request gets one answer, only one thread at a time uses
\* the console: the menu is closed while a ReadCin thread runs, and there is
\* one such thread.
OneReader ==
    ~doubled =>
        \A t, u \in Readers : Reads(t) => ~InMenu /\ (Reads(u) => t = u)

\* A line that begins with a command has all the command needs, and nothing
\* behind a room name that is to be read; other lines hold no command.
ProperLines ==
    \A l \in Lines :
        /\ \A k \in DOMAIN l : l[k] # Eol
        /\ IF l # <<>> /\ l[1] \in Commands
           THEN IF l[1] = "/say" THEN Len(l) > 1 ELSE Len(l) = 2
           ELSE \A k \in DOMAIN l : l[k] \notin Commands

\* Of a user who types such lines: as long as no request gets a second answer
\* and no line is too long for its prompt, every command the client sends was
\* typed, with its room and its text, and is sent at most as often: threads
\* do not mix their lines.
NothingUnasked ==
    ProperLines /\ ~doubled /\ ~overlong =>
        strays = 0 /\ \A l \in CommandLines : sent[l] <= typed[l]

\* When the client waits for the server, the screen shows the newest messages
\* of all it has handled, in the order they came, whichever came in one recv
\* and whichever menus opened in between.
ScreenShowsNewest ==
    main = "recv" =>
        LET n == IF Len(heard) < HistoryLimit THEN Len(heard) ELSE HistoryLimit
        IN  shown = SubSeq(heard, Len(heard) - n + 1, Len(heard))

\* Names, passwords and texts of up to ShortSize characters, and room names of
\* up to ShortRoom, never end the program.
ShortTextsFit ==
    ~full /\ ~overlong => status # "aborted"

\* What the chat server may count on (ClientSession), and what ChatServer
\* assumes of its clients, is what this program does.
Session == INSTANCE ClientSession WITH
    mode     <- IF ~Connected THEN "away" ELSE IF InMenu THEN "menu" ELSE "listening",
    chatting <- Connected /\ \E t \in Readers : readers[t].at # "none",
    out      <- toServer,
    in       <- IF Connected THEN recvBuffer \o wire ELSE <<>>

ImplementsClientSession == Session!Spec

\* A client whose server is gone ends, unless a menu waits for its user.
EndIsNoticed ==
    (Running /\ ~serverUp /\ main = "recv") ~> (~Running \/ InMenu)

\* A user who quits leaves: the other threads cannot keep the process.
QuitEnds ==
    (\E t \in Readers : readers[t].at = "shutdown") ~> ~Running
=============================================================================
