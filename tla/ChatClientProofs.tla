-------------------------- MODULE ChatClientProofs --------------------------
(***************************************************************************)
(* Theorems about the chat client, for all lines its user may type and all *)
(* bounds.                                                                 *)
(***************************************************************************)
EXTENDS ChatClient, QueueLemmas

StartSteps == {"winsock", "resolve", "connect"}

\* A thread goes past the head of its loop only with a command.
WordsAreCommands ==
    \A t \in Readers : readers[t].at \in {"room", "text", "send"} => readers[t].word \in Commands

\* Until it is connected, the program has its main thread only.
StartsAlone ==
    main \in StartSteps =>
        /\ \A t \in Readers : readers[t].at = "none"
        /\ sock = "none" /\ ~serverUp
        /\ toServer = <<>> /\ wire = <<>> /\ recvBuffer = <<>>
        /\ Running /\ main = "resolve" => wsaRefs > 0

TypeInv == TypeOK /\ WordsAreCommands /\ StartsAlone

-----------------------------------------------------------------------------
(***************************************************************************)
(* Reading the console, and other operators.                               *)
(***************************************************************************)

\* Words that no line holds.
LEMMA MarksType ==
    /\ "" \in Words /\ "tail" \in Words /\ Eol \in Words
    /\ <<"tail">> \in Seq(Words) /\ <<Eol>> \in Seq(Words)
<1>1. "" \in Words /\ "tail" \in Words /\ Eol \in Words
  BY DEF Words
<1>2. \A S : \A a \in S : <<a>> \in Seq(S)
  OBVIOUS
<1> QED
  BY <1>1, <1>2

\* A line that is typed.
LEMMA LineType ==
    ASSUME NEW l \in Lines
    PROVE  l \in Texts /\ l \o <<Eol>> \in Texts
<1>1. l \in Seq(STRING) /\ Len(l) \in Nat /\ DOMAIN l = 1..Len(l) /\ l \in [1..Len(l) -> STRING]
  BY LinesAssumption, LenProperties
<1>2. \A k \in 1..Len(l) : l[k] \in Words
  <2>1. ASSUME NEW k \in 1..Len(l)
        PROVE  l[k] \in Words
    <3>1. l[k] \in {l[j] : j \in DOMAIN l}
      BY <1>1
    <3> QED
      BY <3>1 DEF Words
  <2> QED
    BY <2>1
<1>3. l = [k \in 1..Len(l) |-> l[k]]
  BY <1>1
<1>4. [k \in 1..Len(l) |-> l[k]] \in Seq(Words)
  BY <1>1, <1>2, IsASeq
<1>5. l \in Seq(Words)
  BY <1>3, <1>4
<1>6. <<Eol>> \in Seq(Words)
  BY MarksType
<1> QED
  BY <1>5, <1>6, ConcatProperties DEF Texts

\* The rest of the input.
LEMMA FromType ==
    ASSUME TypeOK, NEW k \in DOMAIN input
    PROVE  /\ From(k) \in Texts /\ From(k + 1) \in Texts
           /\ SubSeq(input, 1, k - 1) \in Texts
           /\ input[k] \in Words
<1>1. input \in Seq(Words) /\ Len(input) \in Nat /\ k \in 1..Len(input)
  BY LenProperties DEF TypeOK, Texts
<1>2. k \in Nat \ {0} /\ k + 1 \in Nat \ {0} /\ k - 1 \in Nat /\ k - 1 <= Len(input)
  BY <1>1
<1>3. SubSeq(input, k, Len(input)) \in Seq(Words)
  BY <1>1, <1>2, EndType
<1>4. SubSeq(input, k + 1, Len(input)) \in Seq(Words)
  BY <1>1, <1>2, EndType
<1>5. SubSeq(input, 1, k - 1) \in Seq(Words)
  BY <1>1, <1>2, FrontType
<1>6. input[k] \in Words
  BY <1>1, ElementOfSeq
<1> QED
  BY <1>3, <1>4, <1>5, <1>6 DEF From, Texts

LEMMA ExtractType ==
    ASSUME TypeOK, NEW old \in Words, NEW w, Extract(old, w)
    PROVE  w \in Words /\ input' \in Texts /\ failed' \in BOOLEAN
<1>1. CASE failed
  BY <1>1 DEF Extract, TypeOK, consoleVars
<1>2. CASE ~failed
  <2>1. PICK k \in DOMAIN input : w = input[k] /\ input' = From(k + 1)
    BY <1>2 DEF Extract
  <2>2. failed' = failed
    BY <1>2 DEF Extract
  <2> QED
    BY <2>1, <2>2, FromType DEF TypeOK
<1> QED
  BY <1>1, <1>2

LEMMA GetLineType ==
    ASSUME TypeOK, NEW text, GetLine(text)
    PROVE  text \in Texts /\ input' \in Texts /\ failed' \in BOOLEAN
<1>1. CASE failed
  BY <1>1, EmptySeq DEF GetLine, TypeOK, consoleVars, Texts
<1>2. CASE ~failed
  <2>1. PICK k \in DOMAIN input :
          /\ text = SubSeq(input, 1, k - 1)
          /\ IF HasLong(text) THEN input' = <<"tail">> \o From(k) /\ failed' = TRUE
                              ELSE input' = From(k + 1) /\ UNCHANGED failed
    BY <1>2 DEF GetLine
  <2>2. <<"tail">> \in Texts
    BY MarksType DEF Texts
  <2>3. <<"tail">> \o From(k) \in Texts
    BY <2>2, FromType, ConcatProperties DEF Texts
  <2> QED
    BY <2>1, <2>3, FromType DEF TypeOK
<1> QED
  BY <1>1, <1>2

LEMMA TextSizeType == \A text : TextSize(text) \in Nat
  BY DEF TextSize, PromptSize, ShortSize

\* The verdicts on a request, as the packets that carry them.
VerdictPackets(v) == [k \in DOMAIN v |-> [type |-> v[k]]]

LEMMA VerdictsType ==
    ASSUME NEW req, NEW v \in VerdictsOn(req)
    PROVE  /\ VerdictPackets(v) \in Seq([type: Verdicts])
           /\ Len(VerdictPackets(v)) = Len(v) /\ Len(v) \in Nat \ {0}
<1>1. v \in Seq(Verdicts) /\ v # <<>>
  <2>1. /\ "authOk" \in Verdicts /\ "authFail" \in Verdicts
        /\ "regOk" \in Verdicts /\ "regFail" \in Verdicts
    BY DEF Verdicts
  <2>2. \A a, b, c \in Verdicts :
          /\ <<a>> \in Seq(Verdicts) /\ <<a>> # <<>>
          /\ <<a, b>> \in Seq(Verdicts) /\ <<a, b>> # <<>>
          /\ <<a, b, c>> \in Seq(Verdicts) /\ <<a, b, c>> # <<>>
    OBVIOUS
  <2> QED
    BY <2>1, <2>2 DEF VerdictsOn
<1>2. /\ DOMAIN v = 1..Len(v) /\ Len(v) \in Nat \ {0}
      /\ \A k \in 1..Len(v) : v[k] \in Verdicts
  BY <1>1, LenProperties, ElementOfSeq, EmptySeq
<1>3. \A k \in 1..Len(v) : [type |-> v[k]] \in [type: Verdicts]
  BY <1>2
<1>4. VerdictPackets(v) = [k \in 1..Len(v) |-> [type |-> v[k]]]
  BY <1>2 DEF VerdictPackets
<1>5. VerdictPackets(v) \in Seq([type: Verdicts])
  BY <1>2, <1>3, <1>4, IsASeq
<1>6. /\ Len(VerdictPackets(v)) \in Nat
      /\ 1..Len(VerdictPackets(v)) = 1..Len(v)
  BY <1>4, <1>5, LenProperties
<1>7. Len(VerdictPackets(v)) = Len(v)
  BY <1>2, <1>6
<1> QED
  BY <1>2, <1>5, <1>7

\* The history that a redrawn screen shows is a history.
LEMMA NewestType ==
    ASSUME NEW S, NEW h \in Seq(S)
    PROVE  /\ Newest(h) \in Seq(S)
           /\ Len(h) <= HistoryLimit => Newest(h) = h
           /\ Len(h) > HistoryLimit =>
                 /\ Len(Newest(h)) = HistoryLimit
                 /\ \A j \in 1..HistoryLimit : Newest(h)[j] = h[j + Len(h) - HistoryLimit]
<1>1. Len(h) \in Nat /\ HistoryLimit \in Nat \ {0}
  BY LenProperties, LinesAssumption
<1>2. CASE Len(h) > HistoryLimit
  <2> DEFINE k == Len(h) - HistoryLimit + 1
  <2>1. k \in Nat \ {0} /\ k <= Len(h) /\ Len(h) - k + 1 = HistoryLimit
    BY <1>1, <1>2
  <2>2. Newest(h) = SubSeq(h, k, Len(h))
    BY <1>2 DEF Newest
  <2>3. /\ SubSeq(h, k, Len(h)) \in Seq(S)
        /\ Len(SubSeq(h, k, Len(h))) = HistoryLimit
        /\ \A j \in 1..HistoryLimit : SubSeq(h, k, Len(h))[j] = h[j + k - 1]
    <3> HIDE DEF k
    <3> QED
      BY <2>1, EndType
  <2>4. \A j \in 1..HistoryLimit : j + k - 1 = j + Len(h) - HistoryLimit
    BY <1>1
  <2>5. \A j \in 1..HistoryLimit : Newest(h)[j] = h[j + Len(h) - HistoryLimit]
    BY <2>2, <2>3, <2>4
  <2>6. Newest(h) \in Seq(S) /\ Len(Newest(h)) = HistoryLimit
    BY <2>2, <2>3
  <2> HIDE DEF k
  <2> QED
    BY <1>1, <1>2, <2>5, <2>6
<1>3. CASE Len(h) <= HistoryLimit
  BY <1>1, <1>3 DEF Newest
<1> QED
  BY <1>1, <1>2, <1>3

-----------------------------------------------------------------------------
(***************************************************************************)
(* Type correctness.                                                       *)
(***************************************************************************)

\* GoOn leaves the handler exactly when nothing is left to handle.
LEMMA GoOnType ==
    ASSUME NEW h \in Seq(ServerMsgs), NEW rest, GoOn(h, rest), shown \in Seq(ServerMsgs)
    PROVE  /\ main' \in {"recv", "handle"} /\ (main' = "handle" => rest # <<>>)
           /\ history' \in Seq(ServerMsgs) /\ shown' \in Seq(ServerMsgs)
<1>1. Newest(h) \in Seq(ServerMsgs)
  BY NewestType
<1> QED
  BY <1>1 DEF GoOn

LEMMA SendType ==
    ASSUME TypeOK, NEW msg \in ClientMsgs, SendMessage(msg)
    PROVE  /\ toServer' \in Seq(ClientMsgs) /\ sends' \in Nat
           /\ sock' \in {"none", "open", "down", "closed"} /\ wsaRefs' \in Nat
<1>1. /\ toServer \in Seq(ClientMsgs) /\ sends \in Nat /\ wsaRefs \in Nat
      /\ sock \in {"none", "open", "down", "closed"}
  BY DEF TypeOK
<1>2. Append(toServer, msg) \in Seq(ClientMsgs)
  BY <1>1, AppendProperties
<1> QED
  BY <1>1, <1>2 DEF SendMessage, CleanedUp, linkVars

LEMMA StartType == ASSUME TypeInv, Start PROVE TypeOK'
<1>1. CASE InitializeWinsock
  BY <1>1 DEF InitializeWinsock, Starting, TypeInv, TypeOK, Running, MenuSteps, menuVars,
     consoleVars, screenVars, typedVars, sentVars
<1>2. CASE ResolveServerAddr
  <2>1. wsaRefs \in Nat /\ wsaRefs > 0
    BY <1>2 DEF ResolveServerAddr, TypeInv, TypeOK, StartsAlone, StartSteps
  <2>2. wsaRefs' \in Nat /\ addresses' \in Nat
    BY <1>2, <2>1, ClientBoundsAssumption DEF ResolveServerAddr, TypeInv, TypeOK
  <2> QED
    BY <1>2, <2>2 DEF ResolveServerAddr, Starting, TypeInv, TypeOK, Running, MenuSteps, menuVars,
       consoleVars, screenVars, typedVars, sentVars
<1>3. CASE TryAddress
  <2>1. addresses' \in Nat
    BY <1>3 DEF TryAddress, TypeInv, TypeOK
  <2>2. /\ sock' \in {"none", "open", "down", "closed"} /\ serverUp' \in BOOLEAN
        /\ main' \in {"connect", "option"} /\ status' = status
    BY <1>3 DEF TryAddress, TypeInv, TypeOK
  <2> QED
    BY <1>3, <2>1, <2>2 DEF TryAddress, Starting, TypeInv, TypeOK, Running, MenuSteps, menuVars,
       consoleVars, screenVars, typedVars, sentVars
<1>4. CASE ConnectFails
  BY <1>4 DEF ConnectFails, Starting, TypeInv, TypeOK, Running, MenuSteps, menuVars,
     consoleVars, screenVars, typedVars, sentVars
<1> QED
  BY <1>1, <1>2, <1>3, <1>4 DEF Start

LEMMA MenuType == ASSUME TypeInv, Menu PROVE TypeOK'
<1> USE DEF TypeInv
<1>0. ASSUME MenuOnly,
             status' \in {"running", "ended"}, Running,
             main' \in MenuSteps,
             main' \in {"name", "password", "request"} /\ Running' => choice' # "none",
             choice' \in {"login", "register", "none"},
             nameSize' \in Nat, passSize' \in Nat,
             input' \in Texts, failed' \in BOOLEAN
      PROVE  TypeOK'
  BY <1>0 DEF MenuOnly, TypeOK, MenuSteps, Running, linkVars, screenVars, serverVars,
     typedVars, sentVars
<1>1. CASE PickOption
  <2>1. PICK w \in InputWords \cap Options :
          /\ Extract("", w)
          /\ CASE w = "1" -> choice' = "login" /\ main' = "name" /\ UNCHANGED status
               [] w = "2" -> choice' = "register" /\ main' = "name" /\ UNCHANGED status
               [] w = "3" -> status' = "ended" /\ UNCHANGED <<choice, main>>
    BY <1>1 DEF PickOption
  <2>2. input' \in Texts /\ failed' \in BOOLEAN
    BY <2>1, ExtractType, MarksType
  <2>3. /\ status' \in {"running", "ended"} /\ main' \in MenuSteps
        /\ main' \in {"name", "password", "request"} /\ Running' => choice' # "none"
        /\ choice' \in {"login", "register", "none"}
    BY <1>1, <2>1 DEF PickOption, Options, AtMenu, Running, MenuSteps, TypeOK
  <2> QED
    BY <1>0, <1>1, <2>2, <2>3 DEF PickOption, AtMenu, TypeOK
<1>2. CASE MisreadOption
  <2>1. input' \in Texts
    <3>1. CASE failed
      BY <1>2, <3>1 DEF MisreadOption, TypeOK
    <3>2. CASE ~failed
      <4>1. \E k \in DOMAIN input : WordAt(k)
        BY <1>2, <3>2 DEF MisreadOption
      <4>2. PICK k \in DOMAIN input : k = CHOOSE j \in DOMAIN input : WordAt(j)
        BY <4>1
      <4> QED
        BY <1>2, <3>2, <4>2, FromType DEF MisreadOption
    <3> QED
      BY <3>1, <3>2
  <2> QED
    BY <1>0, <1>2, <2>1 DEF MisreadOption, AtMenu, TypeOK, menuVars, Running, MenuSteps
<1>3. CASE ClearLine
  <2>1. input' \in Texts
    BY <1>3, FromType DEF ClearLine
  <2> QED
    BY <1>0, <1>3, <2>1 DEF ClearLine, AtMenu, TypeOK, menuVars, Running, MenuSteps
<1>4. CASE PromptName
  <2>1. PICK text : /\ GetLine(text) /\ nameSize' = TextSize(text)
                    /\ main' = IF text = <<>> THEN "name" ELSE "password"
    BY <1>4 DEF PromptName
  <2>2. input' \in Texts /\ failed' \in BOOLEAN /\ nameSize' \in Nat
    BY <2>1, GetLineType, TextSizeType
  <2> QED
    BY <1>0, <1>4, <2>1, <2>2 DEF PromptName, AtMenu, TypeOK, Running, MenuSteps
<1>5. CASE PromptPassword
  <2>1. PICK text : /\ GetLine(text) /\ passSize' = TextSize(text)
                    /\ main' = IF text = <<>> THEN "password" ELSE "request"
    BY <1>5 DEF PromptPassword
  <2>2. input' \in Texts /\ failed' \in BOOLEAN /\ passSize' \in Nat
    BY <2>1, GetLineType, TextSizeType
  <2> QED
    BY <1>0, <1>5, <2>1, <2>2 DEF PromptPassword, AtMenu, TypeOK, Running, MenuSteps
<1>6. CASE SendRequest
  <2>1. CASE CredentialsSize(nameSize, passSize) <= BufferLength
    <3>1. [type |-> choice] \in ClientMsgs
      BY <1>6 DEF SendRequest, AtMenu, TypeOK, ClientMsgs
    <3>2. SendMessage([type |-> choice]) /\ GoOn(history, recvBuffer) /\ UNCHANGED status
      BY <1>6, <2>1 DEF SendRequest
    <3>3. /\ toServer' \in Seq(ClientMsgs) /\ sends' \in Nat
          /\ sock' \in {"none", "open", "down", "closed"} /\ wsaRefs' \in Nat
      BY <3>1, <3>2, SendType
    <3>4. /\ main' \in {"recv", "handle"} /\ (main' = "handle" => recvBuffer # <<>>)
          /\ history' \in Seq(ServerMsgs) /\ shown' \in Seq(ServerMsgs)
      BY <3>2, GoOnType DEF TypeOK
    <3> QED
      BY <1>6, <3>2, <3>3, <3>4 DEF SendRequest, TypeOK, Running, MenuSteps, consoleVars, serverVars, typedVars
  <2>2. CASE ~(CredentialsSize(nameSize, passSize) <= BufferLength)
    BY <1>6, <2>2 DEF SendRequest, AtMenu, TypeOK, Running, MenuSteps, consoleVars, serverVars,
       typedVars, linkVars
  <2> QED
    BY <2>1, <2>2
<1> QED
  BY <1>1, <1>2, <1>3, <1>4, <1>5, <1>6 DEF Menu

LEMMA ListenType == ASSUME TypeInv, Listen PROVE TypeOK'
<1> USE DEF TypeInv
<1>1. CASE Receive
  <2>1. PICK n \in 1..MaxRecvBatch :
          /\ n <= Len(wire) /\ recvBuffer' = SubSeq(wire, 1, n)
          /\ wire' = SubSeq(wire, n + 1, Len(wire))
    BY <1>1 DEF Receive
  <2>2. n \in Nat \ {0} /\ wire \in Seq(ServerMsgs)
    BY ClientBoundsAssumption DEF TypeOK
  <2>3. /\ recvBuffer' \in Seq(ServerMsgs) /\ wire' \in Seq(ServerMsgs)
        /\ recvBuffer' # <<>>
    BY <2>1, <2>2, SplitType, FrontType, EmptySeq
  <2> QED
    BY <1>1, <2>3 DEF Receive, TypeOK, Running, MenuSteps, menuVars, linkVars, consoleVars,
       screenVars, typedVars, sentVars
<1>2. CASE ReceiveEnd
  BY <1>2 DEF ReceiveEnd, ProcessEnds, TypeOK, Running, MenuSteps, menuVars, linkVars, consoleVars,
     screenVars, serverVars, typedVars, sentVars
<1>3. ASSUME HandlesPacket
      PROVE  /\ Packet \in ServerMsgs /\ recvBuffer' \in Seq(ServerMsgs)
             /\ Append(heard, Packet) \in Seq(ServerMsgs)
             /\ Append(history, Packet) \in Seq(ServerMsgs)
  <2>1. recvBuffer \in Seq(ServerMsgs) /\ recvBuffer # <<>>
    BY <1>3 DEF HandlesPacket, TypeOK
  <2>2. Packet \in ServerMsgs /\ Rest \in Seq(ServerMsgs)
    BY <2>1, HeadTailProperties DEF Packet, Rest
  <2> QED
    BY <1>3, <2>2, AppendProperties DEF HandlesPacket, TypeOK
<1>4. ASSUME HandlesPacket, AddsLine
      PROVE  /\ main' \in {"recv", "handle"} /\ (main' = "handle" => recvBuffer' # <<>>)
             /\ history' \in Seq(ServerMsgs) /\ shown' \in Seq(ServerMsgs)
             /\ heard' \in Seq(ServerMsgs)
  <2>1. shown \in Seq(ServerMsgs)
    BY DEF TypeOK
  <2>2. GoOn(Append(history, Packet), Rest) /\ recvBuffer' = Rest
    BY <1>4 DEF AddsLine, HandlesPacket
  <2> QED
    BY <1>3, <1>4, <2>1, <2>2, GoOnType DEF AddsLine
<1>5. CASE HandleNotice
  <2>1. HandlesPacket /\ AddsLine
    BY <1>5 DEF HandleNotice
  <2> QED
    BY <1>3, <1>4, <1>5, <2>1 DEF HandleNotice, HandlesPacket, TypeOK, Running, MenuSteps,
       menuVars, linkVars, consoleVars, serverVars, typedVars, sentVars
<1>6. CASE HandleLoggedIn
  <2>1. HandlesPacket /\ AddsLine
    BY <1>6 DEF HandleLoggedIn
  <2>2. readers' \in [Readers -> [at: Places, word: Words, room: Words, text: Texts]]
    BY <1>6 DEF HandleLoggedIn, TypeOK, NextLoop, Places
  <2> QED
    BY <1>3, <1>4, <1>6, <2>1, <2>2 DEF HandlesPacket, TypeOK, Running, MenuSteps,
       menuVars, linkVars, consoleVars, serverVars, typedVars, sentVars
<1>7. CASE HandleVerdict
  <2>1. HandlesPacket
    BY <1>7 DEF HandleVerdict
  <2> QED
    BY <1>3, <1>7, <2>1 DEF HandleVerdict, HandlesPacket, TypeOK, Running, MenuSteps, screenVars,
       menuVars, linkVars, consoleVars, serverVars, typedVars, sentVars
<1> QED
  BY <1>1, <1>2, <1>5, <1>6, <1>7 DEF Listen, HandleMessage

\* A command that goes out.
LEMMA CommandType ==
    ASSUME TypeInv, NEW t \in Readers, readers[t].at = "send"
    PROVE  /\ CommandOf(readers[t]).type \in {"join", "leave", "say"}
           /\ CommandOf(readers[t]) \in [type: {"join", "leave", "say"}]
<1>1. readers[t].word \in {"/join", "/leave", "/say"}
  BY DEF TypeInv, WordsAreCommands, Commands
<1> QED
  BY <1>1 DEF CommandOf

LEMMA ReaderType == ASSUME TypeInv, NEW t \in Readers, ReadCin(t) PROVE TypeOK'
<1> USE DEF TypeInv
<1> DEFINE ReaderStates == [at: Places, word: Words, room: Words, text: Texts]
<1>0. /\ readers \in [Readers -> ReaderStates] /\ readers[t] \in ReaderStates
      /\ readers[t].word \in Words
  BY DEF TypeOK
<1>1. ASSUME ReadingOnly, run' \in BOOLEAN, input' \in Texts, failed' \in BOOLEAN,
             readers' \in [Readers -> ReaderStates]
      PROVE  TypeOK'
  BY <1>1 DEF ReadingOnly, TypeOK, MenuSteps, Running, menuVars, linkVars, screenVars, serverVars,
     typedVars, sentVars
<1>2. CASE ReadWord(t)
  <2>1. PICK w \in InputWords \cup {readers[t].word} :
          /\ Extract(readers[t].word, w)
          /\ run' = (run /\ w # "/quit")
          /\ readers' = [readers EXCEPT
               ![t].word = w,
               ![t].at = IF w = "/quit" THEN "shutdown"
                         ELSE IF w \in Commands THEN "room" ELSE NextLoop]
    BY <1>2 DEF ReadWord
  <2>2. w \in Words /\ input' \in Texts /\ failed' \in BOOLEAN
    BY <1>0, <2>1, ExtractType
  <2>3. readers' \in [Readers -> ReaderStates]
    BY <1>0, <2>1, <2>2 DEF NextLoop, Places
  <2> QED
    BY <1>1, <1>2, <2>1, <2>2, <2>3 DEF ReadWord, TypeOK
<1>3. CASE ReadRoom(t)
  <2>1. PICK w \in InputWords \cup {""} :
          /\ Extract("", w)
          /\ readers' = [readers EXCEPT
               ![t].room = w,
               ![t].at = IF readers[t].word = "/say" THEN "text" ELSE "send"]
    BY <1>3 DEF ReadRoom
  <2>2. w \in Words /\ input' \in Texts /\ failed' \in BOOLEAN
    BY <2>1, ExtractType, MarksType
  <2>3. readers' \in [Readers -> ReaderStates]
    BY <1>0, <2>1, <2>2 DEF Places
  <2> QED
    BY <1>1, <1>3, <2>2, <2>3 DEF ReadRoom, TypeOK
<1>4. CASE ReadText(t)
  <2>1. PICK text :
          GetLine(text) /\ readers' = [readers EXCEPT ![t].text = text, ![t].at = "send"]
    BY <1>4 DEF ReadText
  <2>2. text \in Texts /\ input' \in Texts /\ failed' \in BOOLEAN
    BY <2>1, GetLineType
  <2>3. readers' \in [Readers -> ReaderStates]
    BY <1>0, <2>1, <2>2 DEF Places
  <2> QED
    BY <1>1, <1>4, <2>2, <2>3 DEF ReadText, TypeOK
<1>5. CASE SendCommand(t)
  <2>1. CASE CommandSize(readers[t]) <= BufferLength
    <3>1. /\ SendMessage(CommandOf(readers[t]))
          /\ readers' = [readers EXCEPT ![t] = AfterCommand(readers[t])]
          /\ IF LineOf(readers[t]) \in CommandLines
             THEN sent' = [sent EXCEPT ![LineOf(readers[t])] = @ + 1] /\ UNCHANGED strays
             ELSE strays' = strays + 1 /\ UNCHANGED sent
          /\ UNCHANGED status
      BY <1>5, <2>1 DEF SendCommand, SendsCommand
    <3>2. CommandOf(readers[t]) \in ClientMsgs
      BY <1>5, CommandType DEF SendCommand, ReaderAt, ClientMsgs
    <3>3. /\ toServer' \in Seq(ClientMsgs) /\ sends' \in Nat
          /\ sock' \in {"none", "open", "down", "closed"} /\ wsaRefs' \in Nat
      BY <3>1, <3>2, SendType
    <3>4. AfterCommand(readers[t]) \in ReaderStates
      <4>1. "" \in Words /\ <<>> \in Texts
        BY MarksType, EmptySeq DEF Texts
      <4> QED
        BY <1>0, <4>1 DEF AfterCommand, NextLoop, Places
    <3>5. readers' \in [Readers -> ReaderStates]
      BY <1>0, <3>1, <3>4
    <3>6. sent' \in [CommandLines -> Nat] /\ strays' \in Nat
      <4>1. sent \in [CommandLines -> Nat] /\ strays \in Nat
        BY DEF TypeOK
      <4>2. CASE LineOf(readers[t]) \in CommandLines
        BY <3>1, <4>1, <4>2
      <4>3. CASE LineOf(readers[t]) \notin CommandLines
        BY <3>1, <4>1, <4>3
      <4> QED
        BY <4>2, <4>3
    <3> QED
      BY <1>5, <3>1, <3>3, <3>5, <3>6 DEF SendCommand, TypeOK, Running, MenuSteps, menuVars,
         consoleVars, screenVars, serverVars, typedVars
  <2>2. CASE ~(CommandSize(readers[t]) <= BufferLength)
    BY <1>5, <2>2 DEF SendCommand, TypeOK, Running, MenuSteps, menuVars, linkVars,
       consoleVars, screenVars, serverVars, typedVars, sentVars
  <2> QED
    BY <2>1, <2>2
<1>6. CASE Quit(t)
  <2>1. /\ QuitOnly
        /\ readers' \in [Readers -> ReaderStates]
        /\ sock' \in {"none", "open", "down", "closed"} /\ wsaRefs' \in Nat
        /\ status' \in {"running", "ended"} /\ Running
    <3>1. /\ wsaRefs \in Nat /\ CleanedUp(wsaRefs) \in Nat
          /\ sock \in {"none", "open", "down", "closed"}
      BY DEF TypeOK, CleanedUp
    <3>2. CASE ShutDown(t)
      BY <1>0, <3>1, <3>2 DEF ShutDown, ReaderAt, Running, Places
    <3>3. CASE CleanUp(t)
      BY <1>0, <3>1, <3>3 DEF CleanUp, ReaderAt, Running, Places
    <3>4. CASE Exit(t)
      BY <1>0, <3>1, <3>4 DEF Exit, ReaderAt, Running
    <3> QED
      BY <1>6, <3>2, <3>3, <3>4 DEF Quit
  <2> QED
    BY <2>1 DEF QuitOnly, TypeOK, Running, MenuSteps, menuVars, consoleVars, screenVars,
       serverVars, typedVars, sentVars
<1> QED
  BY <1>2, <1>3, <1>4, <1>5, <1>6 DEF ReadCin

LEMMA OutsideType == ASSUME TypeInv, Server \/ \E l \in Lines : UserTypes(l) PROVE TypeOK'
<1> USE DEF TypeInv
<1>0. ASSUME EnvironmentOnly, serverUp' \in BOOLEAN, toServer' \in Seq(ClientMsgs),
             wire' \in Seq(ServerMsgs), notices' \in Nat, doubled' \in BOOLEAN
      PROVE  TypeOK'
  BY <1>0 DEF EnvironmentOnly, TypeOK, Running, MenuSteps, menuVars, consoleVars, screenVars,
     typedVars, sentVars
<1>1. ASSUME toServer # <<>>
      PROVE  Head(toServer) \in ClientMsgs /\ Tail(toServer) \in Seq(ClientMsgs)
  BY <1>1, HeadTailProperties DEF TypeOK
<1>2. CASE ServerAnswers
  <2>1. PICK v \in VerdictsOn(Head(toServer)) :
          /\ wire' = wire \o [k \in DOMAIN v |-> [type |-> v[k]]]
          /\ doubled' = (doubled \/ Len(v) > 1)
    BY <1>2 DEF ServerAnswers
  <2>2. VerdictPackets(v) \in Seq(ServerMsgs)
    BY VerdictsType, SeqMonotonic DEF ServerMsgs
  <2>3. wire' \in Seq(ServerMsgs)
    BY <2>1, <2>2, ConcatProperties DEF TypeOK, VerdictPackets
  <2> QED
    BY <1>0, <1>1, <1>2, <2>1, <2>3 DEF ServerAnswers, TypeOK
<1>3. CASE ServerTakesCommand
  BY <1>0, <1>1, <1>3 DEF ServerTakesCommand, TypeOK, serverVars
<1>4. CASE ServerNotifies
  <2>1. PICK type \in NoticeTypes :
          wire' = Append(wire, [type |-> type, number |-> notices']) /\ notices' = notices + 1
    BY <1>4 DEF ServerNotifies
  <2>2. notices' \in Nat /\ [type |-> type, number |-> notices'] \in ServerMsgs
    BY <2>1, ClientBoundsAssumption DEF TypeOK, ServerMsgs, Notices
  <2>3. wire' \in Seq(ServerMsgs)
    BY <2>1, <2>2, AppendProperties DEF TypeOK
  <2> QED
    BY <1>0, <1>4, <2>2, <2>3 DEF ServerNotifies, TypeOK
<1>5. CASE ServerEnds
  <2>1. toServer' \in Seq(ClientMsgs) /\ wire' \in Seq(ServerMsgs)
    BY <1>5, EmptySeq DEF ServerEnds, TypeOK
  <2> QED
    BY <1>0, <1>5, <2>1 DEF ServerEnds, TypeOK
<1>6. ASSUME NEW l \in Lines, UserTypes(l)
      PROVE  TypeOK'
  <2>1. input' = input \o l \o <<Eol>>
    BY <1>6 DEF UserTypes
  <2>2. input \o l \in Texts
    BY LineType, ConcatProperties DEF TypeOK, Texts
  <2>3. input' \in Texts
    BY <2>1, <2>2, MarksType, ConcatProperties DEF Texts
  <2>4. /\ overlong' \in BOOLEAN /\ full' \in BOOLEAN
        /\ typed' \in [CommandLines -> Nat]
    BY <1>6 DEF UserTypes, TypeOK
  <2> QED
    BY <1>6, <2>3, <2>4 DEF UserTypes, TypeOK, Running, MenuSteps, menuVars, linkVars,
       screenVars, serverVars, sentVars
<1> QED
  BY <1>2, <1>3, <1>4, <1>5, <1>6 DEF Server

LEMMA TypeInit == Init => TypeInv
<1> SUFFICES ASSUME Init
             PROVE  TypeInv
  OBVIOUS
<1>1. /\ Idle \in [at: Places, word: Words, room: Words, text: Texts]
      /\ \A S : <<>> \in Seq(S)
  BY MarksType, EmptySeq DEF Idle, Places, Texts
<1>2. TypeOK
  BY <1>1 DEF Init, TypeOK, Running, MenuSteps, Texts
<1>3. WordsAreCommands /\ StartsAlone
  BY DEF Init, Idle, WordsAreCommands, StartsAlone, Running
<1> QED
  BY <1>2, <1>3 DEF TypeInv

\* Where the main thread goes.
LEMMA MenuPlaces == ASSUME TypeInv, Menu PROVE main' \in MenuSteps \cup {"recv", "handle"}
<1>1. CASE PickOption
  BY <1>1 DEF PickOption, Options, AtMenu, MenuSteps
<1>2. CASE SendRequest
  BY <1>2 DEF SendRequest, AtMenu, MenuSteps, GoOn
<1> QED
  BY <1>1, <1>2 DEF Menu, MisreadOption, ClearLine, PromptName, PromptPassword, AtMenu, MenuSteps

LEMMA ListenPlaces ==
    ASSUME Listen
    PROVE  /\ main \in {"recv", "handle"} /\ main' \in {"recv", "handle", "option"}
           /\ main' \notin StartSteps
BY DEF Listen, HandleMessage, Receive, ReceiveEnd, ProcessEnds, HandleNotice, HandleLoggedIn,
   HandleVerdict, HandlesPacket, AddsLine, GoOn, StartSteps

LEMMA ReaderPlaces ==
    ASSUME TypeInv, NEW t \in Readers, ReadCin(t)
    PROVE  /\ UNCHANGED main /\ Running
           /\ readers[t].at \notin {"none", "over"}
           /\ \A u \in Readers : readers'[u].at = "none" <=> readers[u].at = "none"
<1>0. readers \in [Readers -> [at: Places, word: Words, room: Words, text: Texts]]
  BY DEF TypeInv, TypeOK
<1>1. CASE ReadWord(t)
  BY <1>0, <1>1 DEF ReadWord, ReaderAt, ReadingOnly, NextLoop
<1>2. CASE ReadRoom(t)
  BY <1>0, <1>2 DEF ReadRoom, ReaderAt, ReadingOnly
<1>3. CASE ReadText(t)
  BY <1>0, <1>3 DEF ReadText, ReaderAt, ReadingOnly
<1>4. CASE SendCommand(t)
  BY <1>0, <1>4 DEF SendCommand, SendsCommand, AfterCommand, ReaderAt, NextLoop
<1>5. CASE Quit(t)
  BY <1>0, <1>5 DEF Quit, ShutDown, CleanUp, Exit, QuitOnly, ReaderAt
<1> QED
  BY <1>1, <1>2, <1>3, <1>4, <1>5 DEF ReadCin

\* Steps outside the ReadCin threads and the main thread.
LEMMA OutsidePlaces ==
    ASSUME Server \/ (\E l \in Lines : UserTypes(l)) \/ UNCHANGED vars
    PROVE  UNCHANGED <<status, main, menuVars, addresses, sock, wsaRefs, run, readers,
                       recvBuffer, screenVars, sentVars>>
BY DEF Server, ServerAnswers, ServerTakesCommand, ServerNotifies, ServerEnds, EnvironmentOnly,
   UserTypes, linkVars, vars

LEMMA AloneStep == ASSUME TypeInv, [Next]_vars PROVE StartsAlone'
<1> USE DEF TypeInv
<1>1. CASE Start
  <2>1. /\ UNCHANGED <<readers, toServer, wire, recvBuffer>>
        /\ main \in StartSteps
    BY <1>1 DEF Start, InitializeWinsock, ResolveServerAddr, TryAddress, ConnectFails, Starting,
       StartSteps
  <2>2. main' \in StartSteps => UNCHANGED <<sock, serverUp>>
    BY <1>1 DEF Start, InitializeWinsock, ResolveServerAddr, TryAddress, ConnectFails, StartSteps
  <2>3. Running' /\ main' = "resolve" => wsaRefs' > 0
    BY <1>1 DEF Start, InitializeWinsock, ResolveServerAddr, TryAddress, ConnectFails, StartSteps,
       Running
  <2> QED
    BY <2>1, <2>2, <2>3 DEF StartsAlone
<1>2. CASE Menu
  BY <1>2, MenuPlaces DEF StartsAlone, StartSteps, MenuSteps
<1>3. CASE Listen
  BY <1>3, ListenPlaces DEF StartsAlone
<1>4. ASSUME NEW t \in Readers, ReadCin(t)
      PROVE  StartsAlone'
  BY <1>4, ReaderPlaces DEF StartsAlone
<1>5. CASE Server \/ (\E l \in Lines : UserTypes(l)) \/ UNCHANGED vars
  <2>1. UNCHANGED <<status, main, sock, wsaRefs, readers, recvBuffer>>
    BY <1>5, OutsidePlaces
  <2>2. serverUp \/ UNCHANGED <<serverUp, toServer, wire>>
    BY <1>5 DEF Server, ServerAnswers, ServerTakesCommand, ServerNotifies, ServerEnds, Connected,
       UserTypes, serverVars, linkVars, vars
  <2> QED
    BY <2>1, <2>2 DEF StartsAlone, Running
<1> QED
  BY <1>1, <1>2, <1>3, <1>4, <1>5 DEF Next

LEMMA WordsStep == ASSUME TypeInv, [Next]_vars PROVE WordsAreCommands'
<1>0. /\ readers \in [Readers -> [at: Places, word: Words, room: Words, text: Texts]]
      /\ WordsAreCommands
  BY DEF TypeInv, TypeOK
<1>1. CASE UNCHANGED readers
  BY <1>0, <1>1 DEF WordsAreCommands
<1>2. CASE HandleLoggedIn
  BY <1>0, <1>2 DEF HandleLoggedIn, WordsAreCommands, NextLoop
<1>3. ASSUME NEW t \in Readers, ReadCin(t)
      PROVE  WordsAreCommands'
  <2>1. CASE ReadWord(t)
    BY <1>0, <2>1 DEF ReadWord, WordsAreCommands, NextLoop
  <2>2. CASE ReadRoom(t)
    BY <1>0, <2>2 DEF ReadRoom, ReaderAt, WordsAreCommands
  <2>3. CASE ReadText(t)
    BY <1>0, <2>3 DEF ReadText, ReaderAt, WordsAreCommands
  <2>4. CASE SendCommand(t)
    BY <1>0, <2>4 DEF SendCommand, SendsCommand, AfterCommand, WordsAreCommands, NextLoop
  <2>5. CASE Quit(t)
    BY <1>0, <2>5 DEF Quit, ShutDown, CleanUp, Exit, WordsAreCommands
  <2> QED
    BY <1>3, <2>1, <2>2, <2>3, <2>4, <2>5 DEF ReadCin
<1>4. CASE Start \/ Menu
  BY <1>1, <1>4 DEF Start, InitializeWinsock, ResolveServerAddr, TryAddress, ConnectFails, Starting,
     Menu, PickOption, MisreadOption, ClearLine, PromptName, PromptPassword, MenuOnly, SendRequest
<1>5. CASE Receive \/ ReceiveEnd \/ HandleNotice \/ HandleVerdict
  BY <1>1, <1>5 DEF Receive, ReceiveEnd, ProcessEnds, HandleNotice, HandleVerdict
<1>6. CASE Server \/ (\E l \in Lines : UserTypes(l)) \/ UNCHANGED vars
  BY <1>1, <1>6, OutsidePlaces
<1> QED
  BY <1>2, <1>3, <1>4, <1>5, <1>6 DEF Next, Listen, HandleMessage

LEMMA TypeInvCorrect == Spec => []TypeInv
<1>1. TypeInv /\ [Next]_vars => TypeOK'
  <2>1. CASE UNCHANGED vars
    BY <2>1 DEF TypeInv, TypeOK, vars, Running, MenuSteps, menuVars, linkVars, consoleVars,
       screenVars, serverVars, typedVars, sentVars
  <2> QED
    BY <2>1, StartType, MenuType, ListenType, ReaderType, OutsideType DEF Next
<1>2. TypeInv /\ [Next]_vars => TypeInv'
  BY <1>1, AloneStep, WordsStep DEF TypeInv
<1> QED
  BY <1>2, TypeInit, PTL DEF Spec

\* Every variable of the client keeps its type, whatever its user types, its
\* server sends, and its threads do to each other.
THEOREM TypeCorrect == Spec => []TypeOK
BY TypeInvCorrect, PTL DEF TypeInv

-----------------------------------------------------------------------------
(***************************************************************************)
(* The screen.                                                             *)
(***************************************************************************)

\* h is the end of all that was handled, g, and no shorter than the screen
\* unless it is all of it.
EndsWith(g, h) ==
    /\ Len(h) <= Len(g)
    /\ \A j \in 1..Len(h) : h[j] = g[j + Len(g) - Len(h)]
    /\ Len(h) >= HistoryLimit \/ Len(h) = Len(g)

KeepsNewest ==
    /\ EndsWith(heard, history)
    /\ main = "recv" => shown = history /\ Len(history) <= HistoryLimit

LEMMA EndsWithNewest ==
    ASSUME NEW g \in Seq(ServerMsgs), NEW h \in Seq(ServerMsgs), EndsWith(g, h)
    PROVE  EndsWith(g, Newest(h)) /\ Len(Newest(h)) <= HistoryLimit
<1>1. Len(g) \in Nat /\ Len(h) \in Nat /\ HistoryLimit \in Nat \ {0}
  BY LenProperties, LinesAssumption
<1>2. CASE Len(h) <= HistoryLimit
  BY <1>2, NewestType
<1>3. CASE Len(h) > HistoryLimit
  <2>1. /\ Len(Newest(h)) = HistoryLimit
        /\ \A j \in 1..HistoryLimit : Newest(h)[j] = h[j + Len(h) - HistoryLimit]
    BY <1>3, NewestType
  <2>2. ASSUME NEW j \in 1..HistoryLimit
        PROVE  Newest(h)[j] = g[j + Len(g) - HistoryLimit]
    <3>1. j + Len(h) - HistoryLimit \in 1..Len(h)
      BY <1>1, <1>3
    <3>2. h[j + Len(h) - HistoryLimit] = g[(j + Len(h) - HistoryLimit) + Len(g) - Len(h)]
      BY <3>1 DEF EndsWith
    <3>3. (j + Len(h) - HistoryLimit) + Len(g) - Len(h) = j + Len(g) - HistoryLimit
      BY <1>1
    <3> QED
      BY <2>1, <3>2, <3>3
  <2> QED
    BY <1>1, <1>3, <2>1, <2>2 DEF EndsWith
<1> QED
  BY <1>1, <1>2, <1>3

LEMMA EndsWithAppend ==
    ASSUME NEW g \in Seq(ServerMsgs), NEW h \in Seq(ServerMsgs), NEW e \in ServerMsgs,
           EndsWith(g, h)
    PROVE  EndsWith(Append(g, e), Append(h, e))
<1> DEFINE gg == Append(g, e)
           hh == Append(h, e)
<1>1. /\ Len(g) \in Nat /\ Len(h) \in Nat /\ HistoryLimit \in Nat \ {0}
      /\ Len(gg) = Len(g) + 1 /\ Len(hh) = Len(h) + 1
      /\ \A i \in 1..Len(g) : gg[i] = g[i]
      /\ \A i \in 1..Len(h) : hh[i] = h[i]
      /\ gg[Len(g) + 1] = e /\ hh[Len(h) + 1] = e
  BY LenProperties, LinesAssumption, AppendProperties
<1>2. Len(h) <= Len(g)
  BY DEF EndsWith
<1> HIDE DEF gg, hh
<1>3. ASSUME NEW j \in 1..Len(hh)
      PROVE  hh[j] = gg[j + Len(gg) - Len(hh)]
  <2>1. j + Len(gg) - Len(hh) = j + Len(g) - Len(h)
    BY <1>1
  <2>2. CASE j = Len(h) + 1
    BY <1>1, <2>1, <2>2
  <2>3. CASE j # Len(h) + 1
    <3>1. j \in 1..Len(h) /\ j + Len(g) - Len(h) \in 1..Len(g)
      BY <1>1, <1>2, <2>3
    <3>2. h[j] = g[j + Len(g) - Len(h)]
      BY <3>1 DEF EndsWith
    <3> QED
      BY <1>1, <2>1, <3>1, <3>2
  <2> QED
    BY <2>2, <2>3
<1>4. EndsWith(gg, hh)
  BY <1>1, <1>2, <1>3 DEF EndsWith
<1> QED
  BY <1>4 DEF gg, hh

\* A redraw, or none because packets are left.
LEMMA GoOnKeeps ==
    ASSUME NEW h \in Seq(ServerMsgs), NEW rest, heard' \in Seq(ServerMsgs),
           EndsWith(heard', h), GoOn(h, rest)
    PROVE  KeepsNewest'
<1>1. CASE rest = <<>>
  BY <1>1, EndsWithNewest DEF GoOn, KeepsNewest
<1>2. CASE rest # <<>>
  BY <1>2 DEF GoOn, KeepsNewest
<1> QED
  BY <1>1, <1>2

LEMMA KeepsStep == ASSUME TypeInv, KeepsNewest, [Next]_vars PROVE KeepsNewest'
<1>0. /\ heard \in Seq(ServerMsgs) /\ history \in Seq(ServerMsgs)
      /\ EndsWith(heard, history)
  BY DEF TypeInv, TypeOK, KeepsNewest
<1>1. ASSUME UNCHANGED screenVars, main' = "recv" => main = "recv"
      PROVE  KeepsNewest'
  BY <1>1 DEF KeepsNewest, screenVars
<1>2. ASSUME HandlesPacket, AddsLine
      PROVE  KeepsNewest'
  <2>1. recvBuffer \in Seq(ServerMsgs) /\ recvBuffer # <<>>
    BY <1>2 DEF HandlesPacket, TypeInv, TypeOK
  <2>2. Packet \in ServerMsgs
    BY <2>1, HeadTailProperties DEF Packet
  <2>3. /\ heard' \in Seq(ServerMsgs) /\ Append(history, Packet) \in Seq(ServerMsgs)
        /\ EndsWith(heard', Append(history, Packet))
    BY <1>0, <1>2, <2>2, EndsWithAppend, AppendProperties DEF AddsLine
  <2> QED
    BY <1>2, <2>3, GoOnKeeps DEF AddsLine
<1>3. CASE Start
  BY <1>1, <1>3 DEF Start, InitializeWinsock, ResolveServerAddr, TryAddress, ConnectFails, Starting,
     screenVars
<1>4. CASE SendRequest
  <2>1. CASE CredentialsSize(nameSize, passSize) <= BufferLength
    BY <1>0, <1>4, <2>1, GoOnKeeps DEF SendRequest
  <2>2. CASE ~(CredentialsSize(nameSize, passSize) <= BufferLength)
    BY <1>1, <1>4, <2>2 DEF SendRequest, screenVars
  <2> QED
    BY <2>1, <2>2
<1>5. CASE PickOption \/ MisreadOption \/ ClearLine \/ PromptName \/ PromptPassword
  BY <1>1, <1>5 DEF PickOption, MisreadOption, ClearLine, PromptName, PromptPassword, MenuOnly,
     AtMenu, Options
<1>6. CASE Receive \/ ReceiveEnd
  BY <1>1, <1>6 DEF Receive, ReceiveEnd, ProcessEnds
<1>7. CASE HandleNotice \/ HandleLoggedIn
  BY <1>2, <1>7 DEF HandleNotice, HandleLoggedIn
<1>8. CASE HandleVerdict
  BY <1>1, <1>8 DEF HandleVerdict
<1>9. ASSUME NEW t \in Readers, ReadCin(t)
      PROVE  KeepsNewest'
  BY <1>1, <1>9 DEF ReadCin, ReadWord, ReadRoom, ReadText, ReadingOnly, SendCommand, Quit, ShutDown,
     CleanUp, Exit, QuitOnly
<1>10. CASE Server \/ (\E l \in Lines : UserTypes(l)) \/ UNCHANGED vars
  BY <1>1, <1>10, OutsidePlaces
<1> QED
  BY <1>3, <1>4, <1>5, <1>6, <1>7, <1>8, <1>9, <1>10 DEF Next, Menu, Listen, HandleMessage

\* When the client waits for its server, its screen shows the newest of all
\* messages it handled, in their order, however many came in one recv, and
\* with menus opened in between.
THEOREM ScreenCorrect == Spec => []ScreenShowsNewest
<1>1. Init => KeepsNewest
  BY EmptySeq DEF Init, KeepsNewest, EndsWith
<1>2. Spec => []KeepsNewest
  BY <1>1, KeepsStep, TypeInvCorrect, PTL DEF Spec
<1>3. TypeInv /\ KeepsNewest => ScreenShowsNewest
  <2> SUFFICES ASSUME TypeInv, KeepsNewest, main = "recv"
               PROVE  LET n == IF Len(heard) < HistoryLimit THEN Len(heard) ELSE HistoryLimit
                      IN  shown = SubSeq(heard, Len(heard) - n + 1, Len(heard))
    BY DEF ScreenShowsNewest
  <2> DEFINE n == IF Len(heard) < HistoryLimit THEN Len(heard) ELSE HistoryLimit
             newest == SubSeq(heard, Len(heard) - n + 1, Len(heard))
  <2>1. /\ heard \in Seq(ServerMsgs) /\ history \in Seq(ServerMsgs)
        /\ Len(heard) \in Nat /\ Len(history) \in Nat /\ HistoryLimit \in Nat \ {0}
        /\ shown = history /\ Len(history) <= HistoryLimit /\ EndsWith(heard, history)
    BY LenProperties, LinesAssumption DEF TypeInv, TypeOK, KeepsNewest
  <2>2. Len(history) = n
    BY <2>1 DEF EndsWith
  <2>3. n \in Nat /\ n <= Len(heard) /\ Len(heard) - n + 1 \in Nat \ {0}
    BY <2>1
  <2> HIDE DEF n
  <2>4. /\ newest \in Seq(ServerMsgs)
        /\ Len(newest) = IF Len(heard) - n + 1 <= Len(heard)
                         THEN Len(heard) - (Len(heard) - n + 1) + 1 ELSE 0
        /\ \A j \in 1..Len(newest) : newest[j] = heard[j + (Len(heard) - n + 1) - 1]
    BY <2>1, <2>3, EndType
  <2>5. Len(newest) = n
    BY <2>1, <2>3, <2>4
  <2>6. ASSUME NEW j \in 1..n
        PROVE  history[j] = newest[j]
    <3>1. history[j] = heard[j + Len(heard) - n]
      BY <2>1, <2>2 DEF EndsWith
    <3>2. newest[j] = heard[j + (Len(heard) - n + 1) - 1]
      BY <2>4, <2>5
    <3>3. j + (Len(heard) - n + 1) - 1 = j + Len(heard) - n
      BY <2>1, <2>3
    <3> HIDE DEF newest
    <3> QED
      BY <3>1, <3>2, <3>3
  <2>7. history = newest
    <3> HIDE DEF newest
    <3> QED
      BY <2>1, <2>2, <2>4, <2>5, <2>6, SeqEqual
  <2> QED
    BY <2>1, <2>7 DEF n
<1> QED
  BY <1>2, <1>3, TypeInvCorrect, PTL

-----------------------------------------------------------------------------
(***************************************************************************)
(* The sizes of packets.                                                   *)
(***************************************************************************)

Short(text) == ~HasLong(text) /\ ~HasFull(text)

\* As long as only short words were typed, only such words are anywhere.
OnlyShort ==
    ~full /\ ~overlong =>
        /\ status # "aborted"
        /\ Short(input)
        /\ nameSize <= ShortSize /\ passSize <= ShortSize
        /\ \A t \in Readers :
              readers[t].room \notin {"long", "full"} /\ Short(readers[t].text)

\* A part of a short text is short, and so are two short texts.
LEMMA ShortParts ==
    ASSUME NEW s \in Texts, Short(s), NEW k \in 1..Len(s)
    PROVE  /\ Short(SubSeq(s, 1, k - 1)) /\ Short(SubSeq(s, k, Len(s)))
           /\ Short(SubSeq(s, k + 1, Len(s)))
           /\ s[k] \notin {"long", "full"}
<1>1. /\ s \in Seq(Words) /\ Len(s) \in Nat /\ DOMAIN s = 1..Len(s)
      /\ \A j \in 1..Len(s) : s[j] \notin {"long", "full"}
  BY LenProperties DEF Texts, Short, HasLong, HasFull
<1>2. ASSUME NEW i \in Nat \ {0}
      PROVE  Short(SubSeq(s, i, Len(s)))
  <2> DEFINE e == SubSeq(s, i, Len(s))
  <2>1. /\ e \in Seq(Words)
        /\ \A j \in 1..Len(e) : e[j] = s[j + i - 1] /\ j + i - 1 \in 1..Len(s)
    BY <1>1, EndType
  <2>2. DOMAIN e = 1..Len(e)
    BY <2>1, LenProperties
  <2> HIDE DEF e
  <2>3. Short(e)
    BY <1>1, <2>1, <2>2 DEF Short, HasLong, HasFull
  <2> QED
    BY <2>3 DEF e
<1>3. Short(SubSeq(s, 1, k - 1))
  <2> DEFINE b == SubSeq(s, 1, k - 1)
  <2>0. k - 1 \in Nat /\ k - 1 <= Len(s)
    BY <1>1
  <2>1. /\ b \in Seq(Words) /\ Len(b) = k - 1
        /\ \A j \in 1..(k - 1) : b[j] = s[j]
    BY <1>1, <2>0, FrontType
  <2>2. DOMAIN b = 1..(k - 1) /\ \A j \in 1..(k - 1) : j \in 1..Len(s)
    BY <1>1, <2>0, <2>1, LenProperties
  <2> HIDE DEF b
  <2>3. Short(b)
    BY <1>1, <2>1, <2>2 DEF Short, HasLong, HasFull
  <2> QED
    BY <2>3 DEF b
<1>4. k \in Nat \ {0} /\ k + 1 \in Nat \ {0}
  BY <1>1
<1> QED
  BY <1>1, <1>2, <1>3, <1>4

LEMMA ShortConcat ==
    ASSUME NEW a \in Texts, NEW b \in Texts, Short(a), Short(b)
    PROVE  Short(a \o b)
<1> DEFINE ab == a \o b
<1>1. /\ Len(a) \in Nat /\ Len(b) \in Nat /\ DOMAIN a = 1..Len(a) /\ DOMAIN b = 1..Len(b)
      /\ ab \in Seq(Words) /\ Len(ab) = Len(a) + Len(b)
      /\ \A i \in 1..(Len(a) + Len(b)) : ab[i] = IF i <= Len(a) THEN a[i] ELSE b[i - Len(a)]
  BY LenProperties, ConcatProperties DEF Texts
<1>2. DOMAIN ab = 1..(Len(a) + Len(b))
  BY <1>1, LenProperties
<1> HIDE DEF ab
<1>3. ASSUME NEW i \in 1..(Len(a) + Len(b))
      PROVE  ab[i] \notin {"long", "full"}
  <2>1. CASE i <= Len(a)
    BY <1>1, <2>1 DEF Short, HasLong, HasFull
  <2>2. CASE ~(i <= Len(a))
    <3>1. i - Len(a) \in 1..Len(b)
      BY <1>1, <2>2
    <3> QED
      BY <1>1, <2>2, <3>1 DEF Short, HasLong, HasFull
  <2> QED
    BY <2>1, <2>2
<1>4. Short(ab)
  BY <1>2, <1>3 DEF Short, HasLong, HasFull
<1> QED
  BY <1>4 DEF ab

\* The marks are short, and so is nothing.
LEMMA ShortMarks == Short(<<>>) /\ Short(<<"tail">>) /\ Short(<<Eol>>)
  BY DEF Short, HasLong, HasFull, Eol

\* What is read of a short input is short, and so is what stays.
LEMMA ShortExtract ==
    ASSUME TypeOK, Short(input), NEW old, NEW w, Extract(old, w), old \notin {"long", "full"}
    PROVE  Short(input') /\ w \notin {"long", "full"}
<1>1. CASE failed
  BY <1>1 DEF Extract, consoleVars
<1>2. CASE ~failed
  <2>1. PICK k \in DOMAIN input : w = input[k] /\ input' = From(k + 1)
    BY <1>2 DEF Extract
  <2>2. input \in Texts /\ k \in 1..Len(input)
    BY <2>1, LenProperties DEF TypeOK, Texts
  <2> QED
    BY <2>1, <2>2, ShortParts DEF From
<1> QED
  BY <1>1, <1>2

LEMMA ShortGetLine ==
    ASSUME TypeOK, Short(input), NEW text, GetLine(text)
    PROVE  Short(input') /\ Short(text)
<1>1. CASE failed
  BY <1>1, ShortMarks DEF GetLine, consoleVars
<1>2. CASE ~failed
  <2>1. PICK k \in DOMAIN input :
          /\ text = SubSeq(input, 1, k - 1)
          /\ IF HasLong(text) THEN input' = <<"tail">> \o From(k) /\ failed' = TRUE
                              ELSE input' = From(k + 1) /\ UNCHANGED failed
    BY <1>2 DEF GetLine
  <2>2. input \in Texts /\ k \in 1..Len(input)
    BY <2>1, LenProperties DEF TypeOK, Texts
  <2>3. Short(text) /\ Short(From(k + 1))
    BY <2>1, <2>2, ShortParts DEF From
  <2> QED
    BY <2>1, <2>3 DEF Short
<1> QED
  BY <1>1, <1>2

LEMMA ShortTextSize == \A text : Short(text) => TextSize(text) \in Nat /\ TextSize(text) <= ShortSize
  BY DEF Short, TextSize, ShortSize

LEMMA ShortRoomSize ==
    ASSUME NEW room, room \notin {"long", "full"}
    PROVE  RoomSize(room) \in Nat /\ RoomSize(room) <= ShortRoom
<1>1. CASE room = ""
  <2>1. RoomSize(room) = 0
    BY <1>1 DEF RoomSize
  <2> QED
    BY <2>1 DEF ShortRoom
<1>2. CASE room # ""
  <2>1. RoomSize(room) = ShortRoom
    BY <1>2 DEF RoomSize
  <2> QED
    BY <2>1 DEF ShortRoom
<1> QED
  BY <1>1, <1>2

\* Only the user types.
LEMMA TypedFrame ==
    ASSUME [Next]_vars
    PROVE  UNCHANGED typedVars \/ \E l \in Lines : UserTypes(l)
<1>1. CASE Start
  BY <1>1 DEF Start, InitializeWinsock, ResolveServerAddr, TryAddress, ConnectFails, Starting
<1>2. CASE Menu
  BY <1>2 DEF Menu, PickOption, MisreadOption, ClearLine, PromptName, PromptPassword, MenuOnly,
     SendRequest
<1>3. CASE Listen
  BY <1>3 DEF Listen, Receive, ReceiveEnd, ProcessEnds, HandleMessage, HandleNotice, HandleLoggedIn,
     HandleVerdict, HandlesPacket
<1>4. ASSUME NEW t \in Readers, ReadCin(t)
      PROVE  UNCHANGED typedVars
  BY <1>4 DEF ReadCin, ReadWord, ReadRoom, ReadText, ReadingOnly, SendCommand, Quit, ShutDown,
     CleanUp, Exit, QuitOnly
<1>5. CASE Server \/ UNCHANGED vars
  BY <1>5 DEF Server, ServerAnswers, ServerTakesCommand, ServerNotifies, ServerEnds,
     EnvironmentOnly, vars
<1> QED
  BY <1>1, <1>2, <1>3, <1>4, <1>5 DEF Next

LEMMA ShortStep == ASSUME TypeInv, OnlyShort, [Next]_vars PROVE OnlyShort'
<1> SUFFICES ASSUME ~full', ~overlong'
             PROVE  OnlyShort'
  BY DEF OnlyShort
<1>a. /\ readers \in [Readers -> [at: Places, word: Words, room: Words, text: Texts]]
      /\ input \in Texts /\ nameSize \in Nat /\ passSize \in Nat /\ TypeOK
  BY DEF TypeInv, TypeOK
<1>b. ~full /\ ~overlong
  <2>1. CASE UNCHANGED typedVars
    BY <2>1 DEF typedVars
  <2>2. ASSUME NEW l \in Lines, UserTypes(l)
        PROVE  ~full /\ ~overlong
    <3>1. full' = (full \/ HasFull(l)) /\ overlong' = (overlong \/ HasLong(l))
      BY <2>2 DEF UserTypes
    <3> QED
      BY <3>1
  <2> QED
    BY <2>1, <2>2, TypedFrame
<1>0. /\ status # "aborted" /\ Short(input)
      /\ nameSize <= ShortSize /\ passSize <= ShortSize
      /\ \A t \in Readers :
            readers[t].room \notin {"long", "full"} /\ Short(readers[t].text)
  BY <1>b DEF OnlyShort
<1>1. CASE UNCHANGED <<input, nameSize, passSize, readers>> /\ status' # "aborted"
  BY <1>0, <1>1 DEF OnlyShort
<1>2. CASE Start \/ Receive \/ ReceiveEnd \/ HandleNotice \/ HandleVerdict
  <2>1. UNCHANGED <<input, nameSize, passSize, readers>> /\ status' # "aborted"
    BY <1>0, <1>2 DEF Start, InitializeWinsock, ResolveServerAddr, TryAddress, ConnectFails, Starting,
       Receive, ReceiveEnd, ProcessEnds, HandleNotice, HandleVerdict, HandlesPacket, menuVars, consoleVars
  <2> QED
    BY <1>1, <2>1
<1>3. CASE HandleLoggedIn
  <2>1. /\ UNCHANGED <<input, nameSize, passSize>> /\ status' = status
        /\ \A t \in Readers :
              readers'[t].room = readers[t].room /\ readers'[t].text = readers[t].text
    BY <1>a, <1>3 DEF HandleLoggedIn, HandlesPacket, menuVars, consoleVars
  <2> QED
    BY <1>0, <2>1 DEF OnlyShort
<1>4. CASE PickOption
  <2>1. Short(input')
    BY <1>a, <1>0, <1>4, ShortExtract DEF PickOption
  <2> QED
    BY <1>0, <1>4, <2>1 DEF PickOption, Options, MenuOnly, OnlyShort
<1>5. CASE MisreadOption
  <2>1. Short(input')
    <3>1. CASE failed
      BY <1>0, <1>5, <3>1 DEF MisreadOption
    <3>2. CASE ~failed
      <4>1. \E k \in DOMAIN input : WordAt(k)
        BY <1>5, <3>2 DEF MisreadOption
      <4>2. PICK k \in DOMAIN input : k = CHOOSE j \in DOMAIN input : WordAt(j)
        BY <4>1
      <4>3. k \in 1..Len(input)
        BY <1>a, <4>2, LenProperties DEF Texts
      <4>4. Short(SubSeq(input, k, Len(input)))
        BY <1>a, <1>0, <4>3, ShortParts
      <4> QED
        BY <1>5, <3>2, <4>2, <4>4 DEF MisreadOption, From
    <3> QED
      BY <3>1, <3>2
  <2> QED
    BY <1>0, <1>5, <2>1 DEF MisreadOption, MenuOnly, OnlyShort, menuVars
<1>6. CASE ClearLine
  <2>1. PICK k \in DOMAIN input : input' = From(k + 1)
    BY <1>6 DEF ClearLine
  <2>2. k \in 1..Len(input)
    BY <1>a, LenProperties DEF Texts
  <2>3. Short(input')
    BY <1>a, <1>0, <2>1, <2>2, ShortParts DEF From
  <2> QED
    BY <1>0, <1>6, <2>3 DEF ClearLine, MenuOnly, OnlyShort, menuVars
<1>7. CASE PromptName
  <2>1. PICK text : GetLine(text) /\ nameSize' = TextSize(text)
    BY <1>7 DEF PromptName
  <2>2. Short(input') /\ nameSize' <= ShortSize
    BY <1>a, <1>0, <2>1, ShortGetLine, ShortTextSize
  <2> QED
    BY <1>0, <1>7, <2>2 DEF PromptName, MenuOnly, OnlyShort
<1>8. CASE PromptPassword
  <2>1. PICK text : GetLine(text) /\ passSize' = TextSize(text)
    BY <1>8 DEF PromptPassword
  <2>2. Short(input') /\ passSize' <= ShortSize
    BY <1>a, <1>0, <2>1, ShortGetLine, ShortTextSize
  <2> QED
    BY <1>0, <1>8, <2>2 DEF PromptPassword, MenuOnly, OnlyShort
<1>9. CASE SendRequest
  <2>1. CredentialsSize(nameSize, passSize) <= BufferLength
    BY <1>a, <1>0 DEF CredentialsSize, BufferLength, HeaderSize, IntSize, ShortSize
  <2>2. /\ UNCHANGED <<input, readers, status>> /\ nameSize' = 0 /\ passSize' = 0
    BY <1>9, <2>1 DEF SendRequest, consoleVars
  <2> QED
    BY <1>0, <2>2 DEF OnlyShort, ShortSize
<1>10. ASSUME NEW t \in Readers, ReadCin(t)
       PROVE  OnlyShort'
  <2>1. CASE ReadWord(t)
    <3>1. PICK w : Extract(readers[t].word, w)
      BY <2>1 DEF ReadWord
    <3>2. /\ \A u \in Readers :
                readers'[u].room = readers[u].room /\ readers'[u].text = readers[u].text
          /\ UNCHANGED <<status, nameSize, passSize>>
      BY <1>a, <2>1 DEF ReadWord, ReadingOnly, menuVars
    <3>3. Short(input')
      <4>1. CASE failed
        BY <1>0, <3>1, <4>1 DEF Extract, consoleVars
      <4>2. CASE ~failed
        <5>1. PICK k \in DOMAIN input : input' = From(k + 1)
          BY <3>1, <4>2 DEF Extract
        <5>2. k \in 1..Len(input)
          BY <1>a, LenProperties DEF Texts
        <5> QED
          BY <1>a, <1>0, <5>1, <5>2, ShortParts DEF From
      <4> QED
        BY <4>1, <4>2
    <3> QED
      BY <1>0, <3>2, <3>3 DEF OnlyShort
  <2>2. CASE ReadRoom(t)
    <3>1. PICK w : /\ Extract("", w)
                   /\ readers' = [readers EXCEPT
                        ![t].room = w,
                        ![t].at = IF readers[t].word = "/say" THEN "text" ELSE "send"]
      BY <2>2 DEF ReadRoom
    <3>2. Short(input') /\ w \notin {"long", "full"}
      BY <1>a, <1>0, <3>1, ShortExtract
    <3>3. \A u \in Readers : /\ readers'[u].room \in {w, readers[u].room}
                             /\ readers'[u].text = readers[u].text
      BY <1>a, <3>1
    <3>4. UNCHANGED <<status, nameSize, passSize>>
      BY <2>2 DEF ReadRoom, ReadingOnly, menuVars
    <3> QED
      BY <1>0, <3>2, <3>3, <3>4 DEF OnlyShort
  <2>3. CASE ReadText(t)
    <3>1. PICK text :
            GetLine(text) /\ readers' = [readers EXCEPT ![t].text = text, ![t].at = "send"]
      BY <2>3 DEF ReadText
    <3>2. Short(input') /\ Short(text)
      BY <1>a, <1>0, <3>1, ShortGetLine
    <3>3. \A u \in Readers : /\ readers'[u].room = readers[u].room
                             /\ readers'[u].text \in {text, readers[u].text}
      BY <1>a, <3>1
    <3>4. UNCHANGED <<status, nameSize, passSize>>
      BY <2>3 DEF ReadText, ReadingOnly, menuVars
    <3> QED
      BY <1>0, <3>2, <3>3, <3>4 DEF OnlyShort
  <2>4. CASE SendCommand(t)
    <3>1. CommandSize(readers[t]) <= BufferLength
      <4>1. TextSize(readers[t].text) \in Nat /\ TextSize(readers[t].text) <= ShortSize
        BY <1>0, ShortTextSize
      <4>2. RoomSize(readers[t].room) \in Nat /\ RoomSize(readers[t].room) <= ShortRoom
        BY <1>0, ShortRoomSize
      <4> QED
        BY <4>1, <4>2 DEF CommandSize, BufferLength, HeaderSize, IntSize, ShortSize, ShortRoom
    <3>2. /\ readers' = [readers EXCEPT ![t] = AfterCommand(readers[t])]
          /\ UNCHANGED <<status, nameSize, passSize, input>>
      BY <2>4, <3>1 DEF SendCommand, SendsCommand, menuVars, consoleVars
    <3>3. \A u \in Readers : /\ readers'[u].room \in {"", readers[u].room}
                             /\ readers'[u].text \in {<<>>, readers[u].text}
      BY <1>a, <3>2 DEF AfterCommand
    <3> QED
      BY <1>0, <3>2, <3>3, ShortMarks DEF OnlyShort
  <2>5. CASE Quit(t)
    <3>1. /\ \A u \in Readers :
                readers'[u].room = readers[u].room /\ readers'[u].text = readers[u].text
          /\ UNCHANGED <<input, nameSize, passSize>> /\ status' \in {status, "ended"}
      BY <1>a, <2>5 DEF Quit, ShutDown, CleanUp, Exit, QuitOnly, menuVars, consoleVars
    <3> QED
      BY <1>0, <3>1 DEF OnlyShort
  <2> QED
    BY <1>10, <2>1, <2>2, <2>3, <2>4, <2>5 DEF ReadCin
<1>11. CASE Server \/ UNCHANGED vars
  <2>1. UNCHANGED <<input, nameSize, passSize, readers, status>>
    BY <1>11 DEF Server, ServerAnswers, ServerTakesCommand, ServerNotifies, ServerEnds,
       EnvironmentOnly, vars, menuVars, consoleVars
  <2> QED
    BY <1>0, <1>1, <2>1
<1>12. ASSUME NEW l \in Lines, UserTypes(l)
       PROVE  OnlyShort'
  <2>1. /\ input' = input \o l \o <<Eol>>
        /\ overlong' = (overlong \/ HasLong(l)) /\ full' = (full \/ HasFull(l))
        /\ UNCHANGED <<status, nameSize, passSize, readers>>
    BY <1>12 DEF UserTypes, menuVars
  <2>2. Short(l) /\ l \in Texts
    BY <2>1, LineType DEF Short
  <2>3. input \o l \in Texts /\ <<Eol>> \in Texts
    BY <1>a, <2>2, MarksType, ConcatProperties DEF Texts
  <2>4. Short(input')
    BY <1>a, <1>0, <2>1, <2>2, <2>3, ShortConcat, ShortMarks
  <2> QED
    BY <1>0, <2>1, <2>4 DEF OnlyShort
<1> QED
  BY <1>2, <1>3, <1>4, <1>5, <1>6, <1>7, <1>8, <1>9, <1>10, <1>11, <1>12
     DEF Next, Menu, Listen, HandleMessage

\* Names, passwords, texts and rooms that do not fill their prompts never make
\* a packet that the buffer does not hold, and so never end the program.
THEOREM ShortCorrect == Spec => []ShortTextsFit
<1>1. Init => OnlyShort
  <2> SUFFICES ASSUME Init
               PROVE  OnlyShort
    OBVIOUS
  <2>1. status # "aborted" /\ nameSize <= ShortSize /\ passSize <= ShortSize
    BY DEF Init, ShortSize
  <2>2. Short(input) /\ \A t \in Readers : readers[t].room = "" /\ readers[t].text = <<>>
    BY ShortMarks DEF Init, Idle
  <2> QED
    BY <2>1, <2>2, ShortMarks DEF OnlyShort
<1>2. Spec => []OnlyShort
  BY <1>1, ShortStep, TypeInvCorrect, PTL DEF Spec
<1>3. OnlyShort => ShortTextsFit
  BY DEF OnlyShort, ShortTextsFit
<1> QED
  BY <1>2, <1>3, PTL

-----------------------------------------------------------------------------
(***************************************************************************)
(* Turns.  As long as every request gets one answer, one thing of the      *)
(* following exists at a time: the menu, a request under way, a verdict    *)
(* under way, a ReadCin thread.                                            *)
(***************************************************************************)

Asks == {"login", "register"}

None(q, types) == \A k \in 1..Len(q) : q[k].type \notin types
AtMostOne(q, types) ==
    \A j, k \in 1..Len(q) : q[j].type \in types /\ q[k].type \in types => j = k

\* Packets not handled: received, or on their way.
Incoming == recvBuffer \o wire

MenuTurn == main \in StartSteps \cup MenuSteps
Unread   == None(toServer, Asks)
Unheard  == None(Incoming, Verdicts)
NoReader == \A t \in Readers : readers[t].at = "none"

OneTurn ==
    ~doubled =>
        /\ AtMostOne(toServer, Asks) /\ AtMostOne(Incoming, Verdicts)
        /\ \A t, u \in Readers : readers[t].at # "none" /\ readers[u].at # "none" => t = u
        /\ MenuTurn => Unread /\ Unheard /\ NoReader
        /\ Unread \/ (Unheard /\ NoReader)
        /\ Unheard \/ NoReader

\* recv is called when the last packet has been handled.
AllHandled == main = "recv" => recvBuffer = <<>>

LEMMA NoneTail ==
    ASSUME NEW S, NEW q \in Seq(S), q # <<>>, NEW types
    PROVE  /\ None(q, types) => None(Tail(q), types)
           /\ AtMostOne(q, types) => AtMostOne(Tail(q), types)
           /\ AtMostOne(q, types) /\ Head(q).type \in types => None(Tail(q), types)
           /\ None(q, types) => Head(q).type \notin types
<1>1. /\ Len(q) \in Nat \ {0} /\ Len(Tail(q)) = Len(q) - 1 /\ Head(q) = q[1]
      /\ \A k \in 1..Len(Tail(q)) : Tail(q)[k] = q[k + 1] /\ k + 1 \in 1..Len(q)
  BY EmptySeq, HeadTailProperties
<1>2. 1 \in 1..Len(q) /\ \A k \in 1..Len(Tail(q)) : k + 1 # 1
  BY <1>1
<1>3. None(q, types) => None(Tail(q), types) /\ Head(q).type \notin types
  BY <1>1, <1>2 DEF None
<1>4. ASSUME AtMostOne(q, types)
      PROVE  AtMostOne(Tail(q), types)
  <2> SUFFICES ASSUME NEW j \in 1..Len(Tail(q)), NEW k \in 1..Len(Tail(q)),
                      Tail(q)[j].type \in types, Tail(q)[k].type \in types
               PROVE  j = k
    BY DEF AtMostOne
  <2>1. j + 1 = k + 1
    BY <1>1, <1>4 DEF AtMostOne
  <2> QED
    BY <2>1
<1>5. ASSUME AtMostOne(q, types), Head(q).type \in types
      PROVE  None(Tail(q), types)
  BY <1>1, <1>2, <1>5 DEF AtMostOne, None
<1> QED
  BY <1>3, <1>4, <1>5

LEMMA NoneAppend ==
    ASSUME NEW S, NEW q \in Seq(S), NEW e \in S, NEW types
    PROVE  /\ e.type \notin types /\ None(q, types) => None(Append(q, e), types)
           /\ e.type \notin types /\ AtMostOne(q, types) => AtMostOne(Append(q, e), types)
           /\ None(q, types) => AtMostOne(Append(q, e), types)
<1> DEFINE qe == Append(q, e)
<1>1. /\ Len(q) \in Nat /\ Len(qe) = Len(q) + 1
      /\ \A k \in 1..Len(q) : qe[k] = q[k]
      /\ qe[Len(q) + 1] = e
  BY LenProperties, AppendProperties
<1> HIDE DEF qe
<1>2. \A k \in 1..Len(qe) : k \in 1..Len(q) \/ k = Len(q) + 1
  BY <1>1
<1>3. e.type \notin types /\ None(q, types) => None(qe, types)
  BY <1>1, <1>2 DEF None
<1>4. e.type \notin types /\ AtMostOne(q, types) => AtMostOne(qe, types)
  BY <1>1, <1>2 DEF AtMostOne
<1>5. None(q, types) => AtMostOne(qe, types)
  BY <1>1, <1>2 DEF None, AtMostOne
<1> QED
  BY <1>3, <1>4, <1>5 DEF qe

LEMMA NoneFront ==
    ASSUME NEW S, NEW q \in Seq(S), NEW c \in Seq(S), NEW types
    PROVE  /\ None(q \o c, types) => None(q, types)
           /\ AtMostOne(q \o c, types) => AtMostOne(q, types)
<1> DEFINE qc == q \o c
<1>1. /\ Len(q) \in Nat /\ Len(c) \in Nat /\ Len(qc) = Len(q) + Len(c)
      /\ \A i \in 1..(Len(q) + Len(c)) : qc[i] = IF i <= Len(q) THEN q[i] ELSE c[i - Len(q)]
  BY LenProperties, ConcatProperties
<1> HIDE DEF qc
<1>2. \A k \in 1..Len(q) : k \in 1..Len(qc) /\ k <= Len(q) /\ qc[k] = q[k]
  BY <1>1
<1>3. None(qc, types) => None(q, types)
  BY <1>2 DEF None
<1>4. AtMostOne(qc, types) => AtMostOne(q, types)
  BY <1>2 DEF AtMostOne
<1> QED
  BY <1>3, <1>4 DEF qc

LEMMA NoneEmpty == \A types : None(<<>>, types) /\ AtMostOne(<<>>, types)
  BY EmptySeq DEF None, AtMostOne

LEMMA IncomingType ==
    ASSUME TypeOK
    PROVE  /\ Incoming \in Seq(ServerMsgs)
           /\ recvBuffer \in Seq(ServerMsgs) /\ wire \in Seq(ServerMsgs)
           /\ toServer \in Seq(ClientMsgs)
BY ConcatProperties DEF TypeOK, Incoming

\* The handler takes what came first.
LEMMA IncomingHandled ==
    ASSUME TypeOK, HandlesPacket
    PROVE  /\ Incoming # <<>> /\ Head(Incoming) = Packet /\ Incoming' = Tail(Incoming)
<1>1. recvBuffer # <<>> /\ recvBuffer' = Tail(recvBuffer) /\ wire' = wire
  BY DEF HandlesPacket, TypeOK, Rest, serverVars
<1>2. recvBuffer \in Seq(ServerMsgs) /\ wire \in Seq(ServerMsgs)
  BY DEF TypeOK
<1>3. /\ recvBuffer \o wire # <<>> /\ Head(recvBuffer \o wire) = Head(recvBuffer)
      /\ Tail(recvBuffer \o wire) = Tail(recvBuffer) \o wire
  BY <1>1, <1>2, ConcatTail
<1> QED
  BY <1>1, <1>3 DEF Incoming, Packet

\* recv moves packets, and loses none.
LEMMA IncomingReceived ==
    ASSUME TypeOK, AllHandled, Receive
    PROVE  Incoming' = Incoming
<1>1. PICK n \in 1..MaxRecvBatch :
        /\ n <= Len(wire) /\ recvBuffer' = SubSeq(wire, 1, n)
        /\ wire' = SubSeq(wire, n + 1, Len(wire))
  BY DEF Receive
<1>2. n \in Nat /\ wire \in Seq(ServerMsgs) /\ recvBuffer = <<>>
  BY ClientBoundsAssumption DEF TypeOK, AllHandled, Receive
<1>3. recvBuffer' \o wire' = wire
  BY <1>1, <1>2, SplitConcat
<1>4. recvBuffer \o wire = wire
  BY <1>2, ConcatEmptySeq
<1> QED
  BY <1>3, <1>4 DEF Incoming

\* Nothing is added to what exists.
LEMMA TurnKept ==
    ASSUME OneTurn, doubled' = doubled,
           MenuTurn' => MenuTurn,
           Unread => Unread',
           AtMostOne(toServer, Asks) => AtMostOne(toServer', Asks),
           Unheard => Unheard',
           AtMostOne(Incoming, Verdicts) => AtMostOne(Incoming', Verdicts),
           \A t \in Readers : readers'[t].at = "none" <=> readers[t].at = "none"
    PROVE  OneTurn'
<1>1. NoReader => NoReader'
  BY DEF NoReader
<1> QED
  BY <1>1 DEF OneTurn

LEMMA AllHandledStep == ASSUME TypeInv, AllHandled, [Next]_vars PROVE AllHandled'
<1>1. ASSUME UNCHANGED recvBuffer, main' = "recv" => main = "recv"
      PROVE  AllHandled'
  BY <1>1 DEF AllHandled
<1>2. CASE Start
  BY <1>1, <1>2 DEF Start, InitializeWinsock, ResolveServerAddr, TryAddress, ConnectFails, Starting
<1>3. CASE PickOption \/ MisreadOption \/ ClearLine \/ PromptName \/ PromptPassword
  BY <1>1, <1>3 DEF PickOption, MisreadOption, ClearLine, PromptName, PromptPassword, MenuOnly,
     AtMenu, Options
<1>4. CASE SendRequest
  BY <1>4 DEF SendRequest, GoOn, AtMenu, AllHandled
<1>5. CASE Receive \/ HandleVerdict
  BY <1>5 DEF Receive, HandleVerdict, AllHandled
<1>6. CASE ReceiveEnd
  BY <1>1, <1>6 DEF ReceiveEnd, ProcessEnds
<1>7. CASE HandleNotice \/ HandleLoggedIn
  BY <1>7 DEF HandleNotice, HandleLoggedIn, HandlesPacket, AddsLine, GoOn, AllHandled
<1>8. ASSUME NEW t \in Readers, ReadCin(t)
      PROVE  AllHandled'
  <2>1. UNCHANGED <<main, recvBuffer>>
    BY <1>8 DEF ReadCin, ReadWord, ReadRoom, ReadText, ReadingOnly, SendCommand, Quit, ShutDown,
       CleanUp, Exit, QuitOnly
  <2> QED
    BY <1>1, <2>1
<1>9. CASE Server \/ (\E l \in Lines : UserTypes(l)) \/ UNCHANGED vars
  BY <1>1, <1>9, OutsidePlaces
<1> QED
  BY <1>2, <1>3, <1>4, <1>5, <1>6, <1>7, <1>8, <1>9 DEF Next, Menu, Listen, HandleMessage

\* The turn passes from the menu to a request.
LEMMA TurnAsked == ASSUME TypeInv, OneTurn, SendRequest PROVE OneTurn'
<1>1. /\ UNCHANGED <<readers, recvBuffer, wire, doubled>> /\ MenuTurn
      /\ toServer \in Seq(ClientMsgs)
  BY DEF SendRequest, AtMenu, serverVars, MenuTurn, MenuSteps, TypeInv, TypeOK
<1>2. UNCHANGED <<Incoming, Unheard, NoReader>>
  BY <1>1 DEF Incoming, Unheard, NoReader
<1>3. CASE CredentialsSize(nameSize, passSize) <= BufferLength
  <2>1. /\ SendMessage([type |-> choice]) /\ ~MenuTurn'
    BY <1>3 DEF SendRequest, GoOn, MenuTurn, StartSteps, MenuSteps
  <2>2. [type |-> choice] \in ClientMsgs
    BY DEF SendRequest, AtMenu, TypeInv, TypeOK, ClientMsgs
  <2>3. toServer' = Append(toServer, [type |-> choice]) \/ toServer' = toServer
    BY <2>1 DEF SendMessage, linkVars
  <2>4. ~doubled => AtMostOne(toServer', Asks)
    BY <1>1, <2>2, <2>3, NoneAppend DEF OneTurn, Unread
  <2> QED
    BY <1>1, <1>2, <2>1, <2>4 DEF OneTurn, Incoming
<1>4. CASE ~(CredentialsSize(nameSize, passSize) <= BufferLength)
  <2>1. UNCHANGED <<main, toServer>>
    BY <1>4 DEF SendRequest, linkVars
  <2>2. UNCHANGED <<MenuTurn, Unread>>
    BY <2>1 DEF MenuTurn, Unread
  <2> QED
    BY <1>1, <1>2, <2>1, <2>2 DEF OneTurn, Incoming
<1> QED
  BY <1>3, <1>4

\* From the request to its verdict.
LEMMA TurnAnswered == ASSUME TypeInv, OneTurn, ServerAnswers PROVE OneTurn'
<1>1. PICK v \in VerdictsOn(Head(toServer)) :
        /\ wire' = wire \o VerdictPackets(v)
        /\ doubled' = (doubled \/ Len(v) > 1)
  BY DEF ServerAnswers, VerdictPackets
<1>2. SUFFICES ASSUME ~doubled'
               PROVE  OneTurn'
  BY DEF OneTurn
<1>3. ~doubled /\ ~(Len(v) > 1)
  BY <1>1, <1>2
<1>4. /\ toServer # <<>> /\ Head(toServer).type \in Asks /\ toServer' = Tail(toServer)
      /\ UNCHANGED <<main, recvBuffer, readers>>
  BY DEF ServerAnswers, EnvironmentOnly, Asks
<1>5. /\ toServer \in Seq(ClientMsgs) /\ recvBuffer \in Seq(ServerMsgs)
      /\ wire \in Seq(ServerMsgs) /\ Incoming \in Seq(ServerMsgs)
  BY IncomingType DEF TypeInv
<1>6. ~Unread
  BY <1>4, <1>5, NoneTail DEF Unread
<1>7. Unheard /\ NoReader /\ ~MenuTurn
  BY <1>3, <1>6 DEF OneTurn
<1>8. Unread' /\ AtMostOne(toServer', Asks)
  BY <1>3, <1>4, <1>5, NoneTail DEF OneTurn, Unread
<1>9. AtMostOne(Incoming', Verdicts)
  <2> DEFINE p == VerdictPackets(v)
  <2>1. p \in Seq([type: Verdicts]) /\ Len(p) = Len(v) /\ Len(v) \in Nat \ {0}
    BY VerdictsType
  <2>2. p \in Seq(ServerMsgs) /\ Len(p) = 1
    <3>1. [type: Verdicts] \subseteq ServerMsgs
      BY DEF ServerMsgs
    <3> HIDE DEF p
    <3>2. p \in Seq(ServerMsgs)
      BY <2>1, <3>1, SeqMonotonic
    <3> QED
      BY <1>3, <2>1, <3>2
  <2>3. p[1] \in ServerMsgs /\ p = <<p[1]>>
    BY <2>2, ElementOfSeq
  <2> HIDE DEF p
  <2>4. wire' = Append(wire, p[1])
    BY <1>1, <1>5, <2>3, AppendIsConcat DEF p
  <2>5. Incoming' = Append(Incoming, p[1])
    BY <1>4, <1>5, <2>3, <2>4, AppendConcat DEF Incoming
  <2> QED
    BY <1>5, <1>7, <2>3, <2>5, NoneAppend DEF Unheard
<1>10. NoReader' /\ ~MenuTurn'
  BY <1>4, <1>7 DEF NoReader, MenuTurn
<1> QED
  BY <1>8, <1>9, <1>10 DEF OneTurn, NoReader

\* From the verdict to a ReadCin thread, or back to the menu.
LEMMA TurnHeard == ASSUME TypeInv, OneTurn, HandleLoggedIn \/ HandleVerdict PROVE OneTurn'
<1> SUFFICES ASSUME ~doubled
             PROVE  OneTurn'
  BY DEF OneTurn, HandleLoggedIn, HandleVerdict, HandlesPacket, serverVars
<1>1. HandlesPacket /\ Packet.type \in Verdicts /\ UNCHANGED <<toServer, doubled>>
  BY DEF HandleLoggedIn, HandleVerdict, HandlesPacket, serverVars, linkVars, Verdicts
<1>2. /\ Incoming \in Seq(ServerMsgs) /\ Incoming # <<>>
      /\ Head(Incoming).type \in Verdicts /\ Incoming' = Tail(Incoming)
  BY <1>1, IncomingType, IncomingHandled DEF TypeInv
<1>3. ~Unheard
  BY <1>2, NoneTail DEF Unheard
<1>4. Unread /\ NoReader /\ AtMostOne(toServer, Asks)
  BY <1>3 DEF OneTurn
<1>5. Unheard' /\ AtMostOne(Incoming', Verdicts)
  BY <1>2, NoneTail DEF OneTurn, Unheard
<1>6. Unread' /\ AtMostOne(toServer', Asks)
  BY <1>1, <1>4 DEF Unread
<1>7. CASE HandleVerdict
  <2>1. NoReader'
    BY <1>4, <1>7 DEF HandleVerdict, NoReader
  <2> QED
    BY <1>5, <1>6, <2>1 DEF OneTurn, NoReader
<1>8. CASE HandleLoggedIn
  <2>1. PICK t \in Readers : readers' = [readers EXCEPT ![t].at = NextLoop]
    BY <1>8 DEF HandleLoggedIn
  <2>2. \A u \in Readers : u # t => readers'[u].at = "none"
    BY <1>4, <2>1 DEF NoReader, TypeInv, TypeOK
  <2>3. ~MenuTurn'
    BY <1>8 DEF HandleLoggedIn, AddsLine, GoOn, MenuTurn, StartSteps, MenuSteps
  <2> QED
    BY <1>5, <1>6, <2>2, <2>3 DEF OneTurn
<1> QED
  BY <1>7, <1>8

LEMMA TurnStep == ASSUME TypeInv, AllHandled, OneTurn, [Next]_vars PROVE OneTurn'
<1>0. /\ Incoming \in Seq(ServerMsgs) /\ recvBuffer \in Seq(ServerMsgs)
      /\ wire \in Seq(ServerMsgs) /\ toServer \in Seq(ClientMsgs) /\ TypeOK
  BY IncomingType DEF TypeInv
<1>1. ASSUME UNCHANGED <<doubled, toServer, recvBuffer, wire, readers>>, MenuTurn' => MenuTurn
      PROVE  OneTurn'
  <2>1. UNCHANGED <<Incoming, Unread, Unheard>>
    BY <1>1 DEF Incoming, Unread, Unheard
  <2> QED
    BY <1>1, <2>1, TurnKept DEF Incoming
<1>2. CASE Start
  <2>1. /\ UNCHANGED <<doubled, toServer, recvBuffer, wire, readers>>
        /\ main \in StartSteps
    BY <1>2 DEF Start, InitializeWinsock, ResolveServerAddr, TryAddress, ConnectFails, Starting,
       StartSteps
  <2> QED
    BY <1>1, <2>1 DEF MenuTurn
<1>3. CASE PickOption \/ MisreadOption \/ ClearLine \/ PromptName \/ PromptPassword
  <2>1. /\ UNCHANGED <<doubled, toServer, recvBuffer, wire, readers>>
        /\ main \in MenuSteps
    BY <1>3 DEF PickOption, MisreadOption, ClearLine, PromptName, PromptPassword, AtMenu, MenuOnly,
       MenuSteps, linkVars, serverVars
  <2> QED
    BY <1>1, <2>1 DEF MenuTurn
<1>4. CASE Receive
  <2>1. Incoming' = Incoming
    BY <1>0, <1>4, IncomingReceived
  <2>2. /\ UNCHANGED <<doubled, toServer, readers>> /\ ~MenuTurn'
    BY <1>4 DEF Receive, MenuTurn, StartSteps, MenuSteps, linkVars
  <2>3. UNCHANGED <<Unread, Unheard>>
    BY <2>1, <2>2 DEF Unread, Unheard
  <2> QED
    BY <2>1, <2>2, <2>3, TurnKept
<1>5. CASE ReceiveEnd
  BY <1>1, <1>5 DEF ReceiveEnd, ProcessEnds, MenuTurn, linkVars, serverVars
<1>6. CASE HandleNotice
  <2>1. HandlesPacket /\ UNCHANGED <<doubled, toServer, readers>> /\ ~MenuTurn'
    BY <1>6 DEF HandleNotice, HandlesPacket, AddsLine, GoOn, MenuTurn, StartSteps, MenuSteps,
       linkVars, serverVars
  <2>2. Incoming # <<>> /\ Incoming' = Tail(Incoming)
    BY <1>0, <2>1, IncomingHandled
  <2>3. /\ Unheard => Unheard'
        /\ AtMostOne(Incoming, Verdicts) => AtMostOne(Incoming', Verdicts)
    BY <1>0, <2>2, NoneTail DEF Unheard
  <2>4. UNCHANGED Unread
    BY <2>1 DEF Unread
  <2> QED
    BY <2>1, <2>3, <2>4, TurnKept
<1>7. ASSUME NEW t \in Readers, ReadCin(t)
      PROVE  OneTurn'
  <2>1. /\ UNCHANGED main
        /\ \A u \in Readers : readers'[u].at = "none" <=> readers[u].at = "none"
    BY <1>7, ReaderPlaces
  <2>2. UNCHANGED <<doubled, recvBuffer, wire>>
    BY <1>7 DEF ReadCin, ReadWord, ReadRoom, ReadText, ReadingOnly, SendCommand, Quit, ShutDown,
       CleanUp, Exit, QuitOnly, serverVars
  <2>3. UNCHANGED <<Incoming, Unheard, MenuTurn>>
    BY <2>1, <2>2 DEF Incoming, Unheard, MenuTurn
  <2>4. \/ toServer' = toServer
        \/ /\ readers[t].at = "send"
           /\ toServer' = Append(toServer, CommandOf(readers[t]))
    <3>1. CASE SendCommand(t)
      BY <3>1 DEF SendCommand, SendsCommand, SendMessage, ReaderAt, linkVars
    <3>2. CASE ~SendCommand(t)
      BY <1>7, <3>2 DEF ReadCin, ReadWord, ReadRoom, ReadText, ReadingOnly, Quit, ShutDown, CleanUp,
         Exit, QuitOnly, linkVars
    <3> QED
      BY <3>1, <3>2
  <2>5. /\ Unread => Unread'
        /\ AtMostOne(toServer, Asks) => AtMostOne(toServer', Asks)
    <3>1. CASE toServer' = toServer
      BY <3>1 DEF Unread
    <3>2. CASE /\ readers[t].at = "send"
               /\ toServer' = Append(toServer, CommandOf(readers[t]))
      <4>1. CommandOf(readers[t]) \in ClientMsgs /\ CommandOf(readers[t]).type \notin Asks
        BY <3>2, CommandType DEF ClientMsgs, Asks
      <4> QED
        BY <1>0, <3>2, <4>1, NoneAppend DEF Unread
    <3> QED
      BY <2>4, <3>1, <3>2
  <2> QED
    BY <2>1, <2>2, <2>3, <2>5, TurnKept DEF Incoming
<1>8. ASSUME NEW l \in Lines, UserTypes(l)
      PROVE  OneTurn'
  BY <1>1, <1>8 DEF UserTypes, MenuTurn, linkVars, serverVars
<1>9. CASE ServerTakesCommand
  <2>1. /\ toServer # <<>> /\ toServer' = Tail(toServer)
        /\ UNCHANGED <<doubled, wire, recvBuffer, main, readers>>
    BY <1>9 DEF ServerTakesCommand, EnvironmentOnly, serverVars
  <2>2. /\ Unread => Unread'
        /\ AtMostOne(toServer, Asks) => AtMostOne(toServer', Asks)
    BY <1>0, <2>1, NoneTail DEF Unread
  <2>3. UNCHANGED <<Incoming, Unheard, MenuTurn>>
    BY <2>1 DEF Incoming, Unheard, MenuTurn
  <2> QED
    BY <2>1, <2>2, <2>3, TurnKept DEF Incoming
<1>10. CASE ServerNotifies
  <2>1. /\ UNCHANGED <<doubled, toServer, recvBuffer, main, readers>>
        /\ notices' = notices + 1
    BY <1>10 DEF ServerNotifies, EnvironmentOnly
  <2>2. PICK type \in NoticeTypes : wire' = Append(wire, [type |-> type, number |-> notices'])
    BY <1>10 DEF ServerNotifies
  <2> DEFINE e == [type |-> type, number |-> notices']
  <2>3. e \in ServerMsgs /\ e.type \notin Verdicts
    BY <1>0, <2>1, ClientBoundsAssumption DEF TypeOK, ServerMsgs, Notices, Verdicts
  <2> HIDE DEF e
  <2>4. wire' = Append(wire, e)
    BY <2>2 DEF e
  <2>5. Incoming' = Append(Incoming, e)
    BY <1>0, <2>1, <2>3, <2>4, AppendConcat DEF Incoming
  <2>6. /\ Unheard => Unheard'
        /\ AtMostOne(Incoming, Verdicts) => AtMostOne(Incoming', Verdicts)
    BY <1>0, <2>3, <2>5, NoneAppend DEF Unheard
  <2>7. UNCHANGED <<Unread, MenuTurn>>
    BY <2>1 DEF Unread, MenuTurn
  <2> QED
    BY <2>1, <2>6, <2>7, TurnKept
<1>11. CASE ServerEnds
  <2>1. /\ toServer' = <<>> /\ wire' \in {wire, <<>>}
        /\ UNCHANGED <<doubled, recvBuffer, main, readers>>
    BY <1>11 DEF ServerEnds, EnvironmentOnly
  <2>2. Incoming' = Incoming \/ Incoming' = recvBuffer
    BY <1>0, <2>1, ConcatEmptySeq DEF Incoming
  <2>3. /\ Unheard => Unheard'
        /\ AtMostOne(Incoming, Verdicts) => AtMostOne(Incoming', Verdicts)
    BY <1>0, <2>2, NoneFront DEF Unheard, Incoming
  <2>4. Unread' /\ AtMostOne(toServer', Asks) /\ MenuTurn' = MenuTurn
    BY <2>1, NoneEmpty DEF Unread, MenuTurn
  <2> QED
    BY <2>1, <2>3, <2>4, TurnKept
<1>12. CASE UNCHANGED vars
  BY <1>1, <1>12 DEF vars, MenuTurn, linkVars, serverVars
<1> QED
  BY <1>2, <1>3, <1>4, <1>5, <1>6, <1>7, <1>8, <1>9, <1>10, <1>11, <1>12,
     TurnAsked, TurnAnswered, TurnHeard
     DEF Next, Menu, Listen, HandleMessage, Server

LEMMA TurnCorrect == Spec => [](AllHandled /\ OneTurn)
<1>1. Init => AllHandled /\ OneTurn
  <2> SUFFICES ASSUME Init
               PROVE  AllHandled /\ OneTurn
    OBVIOUS
  <2>1. Incoming = <<>> /\ toServer = <<>> /\ main = "winsock"
    <3>1. <<>> \in Seq(ServerMsgs)
      BY EmptySeq
    <3> QED
      BY <3>1, ConcatEmptySeq DEF Init, Incoming
  <2>2. NoReader
    BY DEF Init, Idle, NoReader
  <2>3. AllHandled
    BY <2>1 DEF AllHandled
  <2> QED
    BY <2>1, <2>2, <2>3, NoneEmpty DEF OneTurn, Unread, Unheard, NoReader
<1> QED
  BY <1>1, AllHandledStep, TurnStep, TypeInvCorrect, PTL DEF Spec

\* As long as every request gets one answer, the menu and ReadCin never read
\* the console at the same time, and neither do two ReadCin threads.
THEOREM ReaderCorrect == Spec => []OneReader
<1>1. OneTurn => OneReader
  BY DEF OneTurn, OneReader, Reads, InMenu, MenuTurn, NoReader
<1> QED
  BY <1>1, TurnCorrect, PTL

-----------------------------------------------------------------------------
(***************************************************************************)
(* The client is a ClientSession.                                          *)
(***************************************************************************)

SessionNext == [Session!Next]_(Session!session)

\* What ClientSession says of a queue the server takes from, and of one it
\* adds to.
LEMMA TakenShorter ==
    ASSUME NEW S, NEW q \in Seq(S)
    PROVE  /\ Session!Shorter(q, q) /\ Session!Shorter(q, <<>>)
           /\ q # <<>> => Session!Shorter(q, Tail(q))
<1>1. Len(q) \in Nat /\ (q # <<>> => Len(q) > 0)
  BY EmptySeq
<1>2. Session!Shorter(q, q)
  <2>1. q = SubSeq(q, 1, Len(q)) /\ 1 \in 1..(Len(q) + 1)
    BY <1>1, SubSeqFull
  <2> QED
    BY <2>1 DEF Session!Shorter
<1>3. Session!Shorter(q, <<>>)
  <2>1. SubSeq(q, Len(q) + 1, Len(q)) = <<>> /\ Len(q) + 1 \in 1..(Len(q) + 1)
    BY <1>1, SubSeqEmpty
  <2> QED
    BY <2>1 DEF Session!Shorter
<1>4. ASSUME q # <<>>
      PROVE  Session!Shorter(q, Tail(q))
  <2>1. Tail(q) = SubSeq(q, 2, Len(q)) /\ 2 \in 1..(Len(q) + 1)
    BY <1>1, <1>4, TailIsSubSeq
  <2> QED
    BY <2>1 DEF Session!Shorter
<1> QED
  BY <1>2, <1>3, <1>4

LEMMA SentLonger ==
    ASSUME NEW S, NEW q \in Seq(S), NEW c \in Seq(S), c # <<>>
    PROVE  Session!Longer(q, q \o c)
<1>1. Len(q) \in Nat /\ Len(c) \in Nat \ {0} /\ Len(q \o c) = Len(q) + Len(c)
  BY EmptySeq, LenProperties, ConcatProperties
<1>2. SubSeq(q \o c, 1, Len(q)) = q
  BY ConcatPrefix
<1> QED
  BY <1>1, <1>2 DEF Session!Longer

LEMMA AppendLonger ==
    ASSUME NEW S, NEW q \in Seq(S), NEW e \in S
    PROVE  /\ Session!Longer(q, Append(q, e))
           /\ \A types : e.type \in types => Session!OneLonger(q, Append(q, e), types)
<1>1. /\ Len(q) \in Nat /\ Len(Append(q, e)) = Len(q) + 1 /\ Append(q, e)[Len(q) + 1] = e
  BY LenProperties, AppendProperties
<1>2. SubSeq(Append(q, e), 1, Len(q)) = q
  <2>1. <<e>> \in Seq(S)
    OBVIOUS
  <2> QED
    BY <2>1, AppendIsConcat, ConcatPrefix
<1> QED
  BY <1>1, <1>2 DEF Session!Longer, Session!OneLonger

\* Without a connection there is nothing but what was sent before.
LEMMA AwayStep ==
    ASSUME ~Connected, ~Connected', Session!Shorter(toServer, toServer')
    PROVE  SessionNext
<1>1. Session!ServerActs
  BY DEF Session!ServerActs
<1> QED
  BY <1>1 DEF SessionNext, Session!Next

LEMMA EndStep ==
    ASSUME Connected, ~Connected', toServer' \in {toServer, <<>>}
    PROVE  SessionNext
<1>1. Session!End
  BY DEF Session!End
<1> QED
  BY <1>1 DEF SessionNext, Session!Next

LEMMA ActsStep ==
    ASSUME Connected, Connected', InMenu' <=> InMenu,
           \A t \in Readers : readers'[t].at = "none" <=> readers[t].at = "none",
           Session!Shorter(toServer, toServer'),
           Incoming' = Incoming \/ Session!Longer(Incoming, Incoming')
    PROVE  SessionNext
<1>1. Session!ServerActs
  BY DEF Session!ServerActs, Incoming
<1> QED
  BY <1>1 DEF SessionNext, Session!Next

\* A step that moves no packet and opens no menu.
LEMMA QuietStep ==
    ASSUME TypeInv, UNCHANGED toServer, Incoming' = Incoming, InMenu' <=> InMenu,
           \A t \in Readers : readers'[t].at = "none" <=> readers[t].at = "none",
           Connected' => Connected
    PROVE  SessionNext
<1>1. Session!Shorter(toServer, toServer')
  BY TakenShorter DEF TypeInv, TypeOK
<1> QED
  BY <1>1, AwayStep, EndStep, ActsStep

\* A packet is handled, on the connection or after it has gone.
LEMMA ReadStep ==
    ASSUME TypeInv, HandlesPacket,
           InMenu' <=> Packet.type \in Verdicts \ {"authOk"},
           \/ /\ Packet.type # "authOk"
              /\ \A t \in Readers : readers'[t].at = "none" <=> readers[t].at = "none"
           \/ Packet.type = "authOk" /\ \E t \in Readers : readers'[t].at # "none"
    PROVE  SessionNext
<1>1. /\ UNCHANGED <<status, sock, serverUp, toServer>> /\ ~InMenu
  BY DEF HandlesPacket, linkVars, serverVars, InMenu, MenuSteps
<1>2. Connected' <=> Connected
  BY <1>1 DEF Connected, Running
<1>3. CASE ~Connected
  <2>1. Session!Shorter(toServer, toServer')
    BY <1>1, TakenShorter DEF TypeInv, TypeOK
  <2> QED
    BY <1>2, <1>3, <2>1, AwayStep
<1>4. CASE Connected
  <2>1. Incoming # <<>> /\ Head(Incoming) = Packet /\ Incoming' = Tail(Incoming)
    BY IncomingHandled DEF TypeInv
  <2>2. Session!Verdicts = Verdicts
    BY DEF Session!Verdicts, Verdicts
  <2>3. (\E t \in Readers : readers'[t].at # "none")
          <=> ((\E t \in Readers : readers[t].at # "none") \/ Packet.type = "authOk")
    OBVIOUS
  <2>4. Session!Read
    BY <1>1, <1>2, <1>4, <2>1, <2>2, <2>3 DEF Session!Read, Incoming
  <2> QED
    BY <2>4 DEF SessionNext, Session!Next
<1> QED
  BY <1>3, <1>4

\* A packet is sent, or cannot be.
LEMMA SendKeeps ==
    ASSUME NEW msg, SendMessage(msg), UNCHANGED <<status, serverUp>>
    PROVE  /\ Connected' <=> Connected
           /\ Connected => toServer' = Append(toServer, msg)
           /\ ~Connected /\ Running => toServer' = toServer
BY DEF SendMessage, Connected, Running, linkVars

LEMMA SessionStep == ASSUME TypeInv, AllHandled, [Next]_vars PROVE SessionNext
<1>0. /\ Incoming \in Seq(ServerMsgs) /\ recvBuffer \in Seq(ServerMsgs)
      /\ wire \in Seq(ServerMsgs) /\ toServer \in Seq(ClientMsgs) /\ TypeOK
      /\ Session!Shorter(toServer, toServer)
  BY IncomingType, TakenShorter DEF TypeInv
<1>1. CASE InitializeWinsock \/ ResolveServerAddr \/ ConnectFails
  <2>1. /\ UNCHANGED <<sock, toServer>> /\ sock = "none"
    BY <1>1 DEF InitializeWinsock, ResolveServerAddr, ConnectFails, Starting, TypeInv, StartsAlone,
       StartSteps
  <2> QED
    BY <1>0, <2>1, AwayStep DEF Connected
<1>2. CASE TryAddress
  <2>1. /\ UNCHANGED <<toServer, recvBuffer, wire, readers, status>> /\ Running
        /\ sock = "none" /\ recvBuffer = <<>> /\ wire = <<>> /\ NoReader
    BY <1>2 DEF TryAddress, Starting, TypeInv, StartsAlone, StartSteps, NoReader
  <2>2. CASE sock' = "open" /\ serverUp' = TRUE /\ main' = "option"
    <3>1. ~Connected /\ Connected' /\ InMenu'
      BY <2>1, <2>2 DEF Connected, Running, InMenu, MenuSteps
    <3>2. Incoming' = <<>>
      BY <1>0, <2>1, ConcatEmptySeq DEF Incoming
    <3>3. Session!Connect
      BY <2>1, <3>1, <3>2 DEF Session!Connect, NoReader, Incoming
    <3> QED
      BY <3>3 DEF SessionNext, Session!Next
  <2>3. CASE UNCHANGED <<sock, serverUp, main>>
    BY <1>0, <2>1, <2>3, AwayStep DEF Connected
  <2> QED
    BY <1>2, <2>2, <2>3 DEF TryAddress
<1>3. ASSUME UNCHANGED <<toServer, recvBuffer, wire, sock, serverUp, readers>>,
             InMenu' <=> InMenu, Running \/ UNCHANGED status
      PROVE  SessionNext
  <2>1. Incoming' = Incoming /\ (Connected' => Connected)
    BY <1>3 DEF Incoming, Connected, Running
  <2> QED
    BY <1>3, <2>1, QuietStep
<1>4. CASE PickOption \/ MisreadOption \/ ClearLine \/ PromptName \/ PromptPassword
  <2>1. /\ UNCHANGED <<toServer, recvBuffer, wire, sock, serverUp, readers>>
        /\ main \in MenuSteps /\ Running
    BY <1>4 DEF PickOption, MisreadOption, ClearLine, PromptName, PromptPassword, AtMenu, MenuOnly,
       MenuSteps, linkVars, serverVars
  <2>2. main' \in MenuSteps
    BY <1>4 DEF PickOption, MisreadOption, ClearLine, PromptName, PromptPassword, AtMenu, MenuSteps,
       Options
  <2> QED
    BY <1>3, <2>1, <2>2 DEF InMenu
<1>5. CASE SendRequest
  <2>1. /\ UNCHANGED <<recvBuffer, wire, serverUp, readers>> /\ Running /\ InMenu
    BY <1>5 DEF SendRequest, AtMenu, InMenu, MenuSteps, serverVars
  <2>2. CASE CredentialsSize(nameSize, passSize) <= BufferLength
    <3>1. SendMessage([type |-> choice]) /\ UNCHANGED status /\ ~InMenu'
      BY <1>5, <2>2 DEF SendRequest, GoOn, InMenu, MenuSteps
    <3>2. [type |-> choice] \in ClientMsgs /\ choice \in {"login", "register"}
      BY <1>0, <1>5 DEF SendRequest, AtMenu, TypeOK, ClientMsgs
    <3>3. /\ Connected' <=> Connected
          /\ Connected => toServer' = Append(toServer, [type |-> choice])
          /\ ~Connected => toServer' = toServer
      BY <2>1, <3>1, SendKeeps
    <3>4. CASE Connected
      <4>1. Session!OneLonger(toServer, toServer', {"login", "register"})
        BY <1>0, <3>2, <3>3, <3>4, AppendLonger
      <4>2. Session!Ask
        BY <2>1, <3>1, <3>3, <3>4, <4>1 DEF Session!Ask, Session!RequestTypes
      <4> QED
        BY <4>2 DEF SessionNext, Session!Next
    <3>5. CASE ~Connected
      BY <1>0, <3>3, <3>5, AwayStep
    <3> QED
      BY <3>4, <3>5
  <2>3. CASE ~(CredentialsSize(nameSize, passSize) <= BufferLength)
    BY <1>3, <1>5, <2>1, <2>3 DEF SendRequest, InMenu, linkVars
  <2> QED
    BY <2>2, <2>3
<1>6. CASE Receive
  <2>1. Incoming' = Incoming
    BY <1>0, <1>6, IncomingReceived
  <2>2. UNCHANGED <<toServer, sock, serverUp, status, readers>> /\ ~InMenu /\ ~InMenu'
    BY <1>6 DEF Receive, linkVars, InMenu, MenuSteps
  <2>3. Connected' => Connected
    BY <2>2 DEF Connected, Running
  <2> QED
    BY <2>1, <2>2, <2>3, QuietStep
<1>7. CASE ReceiveEnd
  BY <1>3, <1>7 DEF ReceiveEnd, ProcessEnds, InMenu, linkVars, serverVars
<1>8. CASE HandleNotice
  <2>1. HandlesPacket /\ UNCHANGED readers /\ Packet.type \notin Verdicts
    BY <1>8 DEF HandleNotice, Verdicts
  <2>2. ~InMenu'
    BY <1>8 DEF HandleNotice, AddsLine, GoOn, InMenu, MenuSteps
  <2>3. Packet.type # "authOk"
    BY <2>1 DEF Verdicts
  <2> QED
    BY <2>1, <2>2, <2>3, ReadStep
<1>9. CASE HandleLoggedIn
  <2>1. HandlesPacket /\ Packet.type = "authOk" /\ ~InMenu'
    BY <1>9 DEF HandleLoggedIn, AddsLine, GoOn, InMenu, MenuSteps
  <2>2. \E t \in Readers : readers'[t].at # "none"
    BY <1>0, <1>9 DEF HandleLoggedIn, NextLoop, TypeOK
  <2> QED
    BY <2>1, <2>2, ReadStep
<1>10. CASE HandleVerdict
  <2>1. HandlesPacket /\ UNCHANGED readers /\ Packet.type \in Verdicts \ {"authOk"} /\ InMenu'
    BY <1>10 DEF HandleVerdict, InMenu, MenuSteps
  <2> QED
    BY <2>1, ReadStep
<1>11. ASSUME NEW t \in Readers, ReadCin(t)
       PROVE  SessionNext
  <2>1. /\ UNCHANGED main /\ Running /\ readers[t].at # "none"
        /\ \A u \in Readers : readers'[u].at = "none" <=> readers[u].at = "none"
    BY <1>11, ReaderPlaces
  <2>2. UNCHANGED <<recvBuffer, wire, serverUp>>
    BY <1>11 DEF ReadCin, ReadWord, ReadRoom, ReadText, ReadingOnly, SendCommand, Quit, ShutDown,
       CleanUp, Exit, QuitOnly, serverVars
  <2>3. Incoming' = Incoming /\ (InMenu' <=> InMenu)
    BY <2>1, <2>2 DEF Incoming, InMenu
  <2>4. CASE SendCommand(t) /\ CommandSize(readers[t]) <= BufferLength
    <3>1. SendMessage(CommandOf(readers[t])) /\ UNCHANGED status /\ readers[t].at = "send"
      BY <2>4 DEF SendCommand, SendsCommand, ReaderAt
    <3>2. /\ CommandOf(readers[t]) \in ClientMsgs
          /\ CommandOf(readers[t]).type \in {"join", "say", "leave"}
      BY <3>1, CommandType DEF ClientMsgs
    <3>3. /\ Connected' <=> Connected
          /\ Connected => toServer' = Append(toServer, CommandOf(readers[t]))
          /\ ~Connected => toServer' = toServer
      BY <2>1, <2>2, <3>1, SendKeeps
    <3>4. CASE Connected
      <4>1. Session!OneLonger(toServer, toServer', {"join", "say", "leave"})
        BY <1>0, <3>2, <3>3, <3>4, AppendLonger
      <4>2. Session!Command
        BY <2>1, <2>3, <3>3, <3>4, <4>1 DEF Session!Command, Session!CommandTypes, Incoming
      <4> QED
        BY <4>2 DEF SessionNext, Session!Next
    <3>5. CASE ~Connected
      BY <1>0, <3>3, <3>5, AwayStep
    <3> QED
      BY <3>4, <3>5
  <2>5. CASE ~(SendCommand(t) /\ CommandSize(readers[t]) <= BufferLength)
    <3>1. UNCHANGED toServer
      BY <1>11, <2>5 DEF ReadCin, ReadWord, ReadRoom, ReadText, ReadingOnly, SendCommand, Quit,
         ShutDown, CleanUp, Exit, QuitOnly, linkVars
    <3>2. sock' = sock \/ sock' \in {"down", "closed"}
      BY <1>11, <2>5 DEF ReadCin, ReadWord, ReadRoom, ReadText, ReadingOnly, SendCommand, Quit,
         ShutDown, CleanUp, Exit, QuitOnly, linkVars
    <3>3. Connected' => Connected
      BY <2>1, <2>2, <3>2 DEF Connected
    <3> QED
      BY <2>1, <2>3, <3>1, <3>3, QuietStep
  <2> QED
    BY <2>4, <2>5
<1>12. ASSUME NEW l \in Lines, UserTypes(l)
       PROVE  SessionNext
  BY <1>3, <1>12 DEF UserTypes, InMenu, linkVars, serverVars
<1>13. CASE ServerAnswers \/ ServerTakesCommand \/ ServerNotifies
  <2>1. /\ UNCHANGED <<main, readers, recvBuffer, sock, status, serverUp>> /\ Connected
    BY <1>13 DEF ServerAnswers, ServerTakesCommand, ServerNotifies, EnvironmentOnly, serverVars
  <2>2. Connected' /\ (InMenu' <=> InMenu)
    BY <2>1 DEF Connected, Running, InMenu
  <2>3. Session!Shorter(toServer, toServer')
    BY <1>0, <1>13, TakenShorter DEF ServerAnswers, ServerTakesCommand, ServerNotifies
  <2>4. Incoming' = Incoming \/ Session!Longer(Incoming, Incoming')
    <3>1. CASE ServerTakesCommand
      BY <2>1, <3>1 DEF ServerTakesCommand, Incoming, serverVars
    <3>2. CASE ServerAnswers
      <4>1. PICK v \in VerdictsOn(Head(toServer)) : wire' = wire \o VerdictPackets(v)
        BY <3>2 DEF ServerAnswers, VerdictPackets
      <4> DEFINE p == VerdictPackets(v)
      <4>2. p \in Seq([type: Verdicts]) /\ Len(p) # 0
        BY VerdictsType
      <4> HIDE DEF p
      <4>3. [type: Verdicts] \subseteq ServerMsgs
        BY DEF ServerMsgs
      <4>4. p \in Seq(ServerMsgs) /\ p # <<>>
        BY <4>2, <4>3, SeqMonotonic, EmptySeq
      <4>5. Incoming' = Incoming \o p
        BY <1>0, <2>1, <4>1, <4>4, ConcatAssociative DEF Incoming, p
      <4> QED
        BY <1>0, <4>4, <4>5, SentLonger
    <3>3. CASE ServerNotifies
      <4>1. PICK type \in NoticeTypes :
              wire' = Append(wire, [type |-> type, number |-> notices']) /\ notices' = notices + 1
        BY <3>3 DEF ServerNotifies
      <4> DEFINE e == [type |-> type, number |-> notices']
      <4>2. e \in ServerMsgs
        BY <1>0, <4>1, ClientBoundsAssumption DEF TypeOK, ServerMsgs, Notices
      <4> HIDE DEF e
      <4>3. wire' = Append(wire, e)
        BY <4>1 DEF e
      <4>4. Incoming' = Append(Incoming, e)
        BY <1>0, <2>1, <4>2, <4>3, AppendConcat DEF Incoming
      <4> QED
        BY <1>0, <4>2, <4>4, AppendLonger
    <3> QED
      BY <1>13, <3>1, <3>2, <3>3
  <2> QED
    BY <2>1, <2>2, <2>3, <2>4, ActsStep
<1>14. CASE ServerEnds
  <2>1. toServer' = <<>> /\ ~Connected'
    BY <1>14 DEF ServerEnds, Connected
  <2>2. Session!Shorter(toServer, toServer')
    BY <1>0, <2>1, TakenShorter
  <2> QED
    BY <2>1, <2>2, AwayStep, EndStep
<1>15. CASE UNCHANGED vars
  BY <1>3, <1>15 DEF vars, linkVars, serverVars, InMenu
<1> QED
  BY <1>1, <1>2, <1>4, <1>5, <1>6, <1>7, <1>8, <1>9, <1>10, <1>11, <1>12, <1>13, <1>14, <1>15
     DEF Next, Start, Menu, Listen, HandleMessage, Server

\* The program gives ChatServer what ChatServer takes for granted of its
\* clients: one request from its menu, then commands only after a login, and
\* back to the menu after any other verdict.
THEOREM SessionCorrect == Spec => ImplementsClientSession
<1>1. Init => Session!Init
  BY DEF Init, Session!Init, Connected
<1>2. Spec => [](TypeInv /\ AllHandled)
  BY TypeInvCorrect, TurnCorrect, PTL
<1>3. TypeInv /\ AllHandled /\ [Next]_vars => [Session!Next]_(Session!session)
  BY SessionStep DEF SessionNext
<1> QED
  BY <1>1, <1>2, <1>3, PTL DEF Spec, ImplementsClientSession, Session!Spec
-----------------------------------------------------------------------------
(***************************************************************************)
(* Ends that come nearer.                                                  *)
(***************************************************************************)

\* What the main thread has to do once nothing new arrives: receive and handle
\* what is there, and end.
ToHandle == 2 * Len(wire) + Len(recvBuffer) + (IF Running THEN 1 ELSE 0)

LEMMA LessToHandle ==
    ASSUME NEW w \in Nat, NEW w1 \in Nat, NEW b \in Nat, NEW b1 \in Nat, NEW n \in Nat,
           NEW r \in {0, 1}, NEW r1 \in {0, 1}, r1 <= r
    PROVE  /\ w1 = w /\ b1 = b => 2 * w1 + b1 + r1 <= 2 * w + b + r
           /\ w1 = w /\ b1 + 1 = b => 2 * w1 + b1 + r1 < 2 * w + b + r
           /\ w1 = w - n /\ b1 = n /\ n > 0 => 2 * w1 + b1 + r1 < 2 * w + b + r
           /\ w1 = w /\ b1 = b /\ r1 < r => 2 * w1 + b1 + r1 < 2 * w + b + r
  OBVIOUS

\* Without the server nothing is added for the main thread.
EndNearer ==
    sock # "none" /\ ~serverUp =>
        ~serverUp' /\ ToHandle' <= ToHandle /\ (Listen => ToHandle' < ToHandle)

LEMMA EndNearerStep == ASSUME TypeInv, TypeOK', [Next]_vars PROVE EndNearer
<1> SUFFICES ASSUME sock # "none", ~serverUp
             PROVE  ~serverUp' /\ ToHandle' <= ToHandle /\ (Listen => ToHandle' < ToHandle)
  BY DEF EndNearer
<1> DEFINE r == IF Running THEN 1 ELSE 0
<1> DEFINE r1 == IF Running' THEN 1 ELSE 0
<1>1. /\ Len(wire) \in Nat /\ Len(wire') \in Nat /\ Len(recvBuffer) \in Nat
      /\ Len(recvBuffer') \in Nat /\ r \in {0, 1} /\ r1 \in {0, 1}
  BY LenProperties DEF TypeInv, TypeOK
<1>2. main \notin StartSteps
  BY DEF TypeInv, StartsAlone
<1>3. ToHandle = 2 * Len(wire) + Len(recvBuffer) + r
  BY DEF ToHandle
<1>4. ToHandle' = 2 * Len(wire') + Len(recvBuffer') + r1
  BY DEF ToHandle
<1> HIDE DEF r, r1
<1>5. ASSUME UNCHANGED <<wire, recvBuffer, serverUp>>, r1 <= r
      PROVE  ~serverUp' /\ ToHandle' <= ToHandle
  BY <1>1, <1>3, <1>4, <1>5, LessToHandle
<1>6. ASSUME Running, UNCHANGED <<wire, recvBuffer, serverUp>>, ~Listen
      PROVE  ~serverUp' /\ ToHandle' <= ToHandle /\ (Listen => ToHandle' < ToHandle)
  <2>1. r = 1
    BY <1>6 DEF r
  <2> QED
    BY <1>1, <1>5, <1>6, <2>1
<1>7. CASE Start
  BY <1>2, <1>7 DEF Start, InitializeWinsock, ResolveServerAddr, TryAddress, ConnectFails, StartSteps
<1>8. CASE HandleMessage
  <2>1. recvBuffer # <<>> /\ recvBuffer' = Tail(recvBuffer) /\ Running /\ UNCHANGED <<wire, serverUp>>
    BY <1>8 DEF HandleMessage, HandleNotice, HandleLoggedIn, HandleVerdict, HandlesPacket, Rest,
       serverVars, TypeInv, TypeOK
  <2>2. Len(recvBuffer') + 1 = Len(recvBuffer)
    BY <1>1, <2>1, HeadTailProperties DEF TypeInv, TypeOK
  <2>3. r1 <= r
    BY <1>1, <2>1 DEF r
  <2> QED
    BY <1>1, <1>3, <1>4, <2>1, <2>2, <2>3, LessToHandle
<1>9. CASE Receive
  <2>1. PICK n \in 1..MaxRecvBatch : /\ n <= Len(wire)
                                     /\ recvBuffer' = SubSeq(wire, 1, n)
                                     /\ wire' = SubSeq(wire, n + 1, Len(wire))
    BY <1>9 DEF Receive
  <2>2. n \in Nat /\ n > 0 /\ wire \in Seq(ServerMsgs)
    BY ClientBoundsAssumption DEF TypeInv, TypeOK
  <2>3. Len(recvBuffer') = n /\ Len(wire') = Len(wire) - n
    BY <1>1, <2>1, <2>2, SplitType
  <2>4. Running /\ UNCHANGED serverUp
    BY <1>9 DEF Receive
  <2>5. r1 <= r
    BY <1>1, <2>4 DEF r
  <2>6. ToHandle' < ToHandle
    BY <1>1, <1>3, <1>4, <2>2, <2>3, <2>5, LessToHandle
  <2>7. ToHandle \in Int /\ ToHandle' \in Int
    BY <1>1, <1>3, <1>4
  <2> QED
    BY <2>4, <2>6, <2>7
<1>10. CASE ReceiveEnd
  <2>1. Running /\ ~Running' /\ UNCHANGED <<wire, recvBuffer, serverUp>>
    BY <1>10 DEF ReceiveEnd, ProcessEnds, Running, serverVars
  <2>2. r = 1 /\ r1 = 0
    BY <2>1 DEF r, r1
  <2> QED
    BY <1>1, <1>3, <1>4, <2>1, <2>2, LessToHandle
<1>11. CASE Menu
  <2>1. Running /\ InMenu /\ UNCHANGED <<wire, recvBuffer, serverUp>>
    BY <1>11 DEF Menu, PickOption, MisreadOption, ClearLine, PromptName, PromptPassword, SendRequest,
       MenuOnly, AtMenu, serverVars, InMenu, MenuSteps
  <2>2. ~Listen
    BY <2>1 DEF InMenu, MenuSteps, Listen, Receive, ReceiveEnd, ProcessEnds, HandleMessage,
       HandleNotice, HandleLoggedIn, HandleVerdict, HandlesPacket
  <2> QED
    BY <1>6, <2>1, <2>2
<1>12. ASSUME NEW t \in Readers, ReadCin(t), ~Listen
       PROVE  ~serverUp' /\ ToHandle' <= ToHandle /\ (Listen => ToHandle' < ToHandle)
  <2>1. Running /\ UNCHANGED <<wire, recvBuffer, serverUp>>
    BY <1>12 DEF ReadCin, ReadWord, ReadRoom, ReadText, ReadingOnly, SendCommand, Quit, ShutDown,
       CleanUp, Exit, QuitOnly, ReaderAt, serverVars
  <2> QED
    BY <1>6, <1>12, <2>1
<1>13. ASSUME NEW l \in Lines, UserTypes(l), ~Listen
       PROVE  ~serverUp' /\ ToHandle' <= ToHandle /\ (Listen => ToHandle' < ToHandle)
  BY <1>6, <1>13 DEF UserTypes, serverVars
<1>14. CASE Server
  BY <1>14 DEF Server, ServerAnswers, ServerTakesCommand, ServerNotifies, ServerEnds, Connected
<1>15. CASE UNCHANGED vars /\ ~Listen
  <2>1. UNCHANGED <<wire, recvBuffer, serverUp>> /\ r1 = r
    BY <1>15 DEF vars, serverVars, r, r1, Running
  <2> QED
    BY <1>1, <1>5, <1>15, <2>1
<1> QED
  BY <1>7, <1>8, <1>9, <1>10, <1>11, <1>12, <1>13, <1>14, <1>15 DEF Next, Listen

\* The safety half of EndIsNoticed: once the server is gone it stays away, each
\* step of the main thread's loop brings the client nearer to its end, and no
\* other step takes it further off.
THEOREM EndAdvances == Spec => [][EndNearer]_vars
<1>1. TypeInv /\ TypeInv' /\ [Next]_vars => [EndNearer]_vars
  BY EndNearerStep DEF TypeInv
<1> QED
  BY <1>1, TypeInvCorrect, PTL DEF Spec

\* How far a thread that has read /quit is from the end of the process.
QuitLeft(t) ==
    CASE ~Running                              -> 0
      [] Running /\ readers[t].at = "exit"     -> 1
      [] Running /\ readers[t].at = "cleanUp"  -> 2
      [] Running /\ readers[t].at = "shutdown" -> 3
      [] OTHER                                 -> 4

QuitNearer(t) ==
    QuitLeft(t) \in 1..3 =>
        QuitLeft(t)' <= QuitLeft(t) /\ (Quit(t) => QuitLeft(t)' < QuitLeft(t))

LEMMA QuitNearerStep ==
    ASSUME TypeInv, [Next]_vars, NEW t \in Readers
    PROVE  QuitNearer(t)
<1> SUFFICES ASSUME QuitLeft(t) \in 1..3
             PROVE  QuitLeft(t)' <= QuitLeft(t) /\ (Quit(t) => QuitLeft(t)' < QuitLeft(t))
  BY DEF QuitNearer
<1>1. Running /\ readers[t].at \in {"exit", "cleanUp", "shutdown"}
  BY DEF QuitLeft
<1>2. readers \in [Readers -> [at: Places, word: Words, room: Words, text: Texts]]
  BY DEF TypeInv, TypeOK
<1>3. CASE Quit(t)
  BY <1>1, <1>2, <1>3 DEF Quit, ShutDown, CleanUp, Exit, ReaderAt, QuitLeft, Running
<1>4. ASSUME readers'[t].at = readers[t].at, ~Quit(t)
      PROVE  QuitLeft(t)' <= QuitLeft(t) /\ (Quit(t) => QuitLeft(t)' < QuitLeft(t))
  BY <1>1, <1>4 DEF QuitLeft
<1>5. CASE Start \/ Menu \/ Server \/ (\E l \in Lines : UserTypes(l)) \/ UNCHANGED vars
  <2>1. readers' = readers
    BY <1>5 DEF Start, InitializeWinsock, ResolveServerAddr, TryAddress, ConnectFails, Starting,
       Menu, PickOption, MisreadOption, ClearLine, PromptName, PromptPassword, SendRequest, MenuOnly,
       Server, ServerAnswers, ServerTakesCommand, ServerNotifies, ServerEnds, EnvironmentOnly,
       UserTypes, vars
  <2> QED
    BY <1>3, <1>4, <2>1
<1>6. CASE Listen
  <2>1. readers'[t].at = readers[t].at
    <3>1. CASE HandleLoggedIn
      <4>1. PICK u \in Readers : readers[u].at = "none"
                                 /\ readers' = [readers EXCEPT ![u].at = NextLoop]
        BY <3>1 DEF HandleLoggedIn
      <4>2. u # t
        BY <1>1, <4>1
      <4> QED
        BY <1>2, <4>1, <4>2
    <3>2. CASE Receive \/ ReceiveEnd \/ HandleNotice \/ HandleVerdict
      BY <3>2 DEF Receive, ReceiveEnd, ProcessEnds, HandleNotice, HandleVerdict
    <3> QED
      BY <1>6, <3>1, <3>2 DEF Listen, HandleMessage
  <2> QED
    BY <1>3, <1>4, <2>1
<1>7. ASSUME NEW u \in Readers, ReadCin(u)
      PROVE  QuitLeft(t)' <= QuitLeft(t) /\ (Quit(t) => QuitLeft(t)' < QuitLeft(t))
  <2>1. CASE u = t
    BY <1>1, <1>3, <1>7, <2>1 DEF ReadCin, ReadWord, ReadRoom, ReadText, SendCommand, ReaderAt
  <2>2. CASE u # t
    <3>1. readers'[t].at = readers[t].at
      BY <1>2, <1>7, <2>2 DEF ReadCin, ReadWord, ReadRoom, ReadText, SendCommand, SendsCommand, Quit,
         ShutDown, CleanUp, Exit
    <3> QED
      BY <1>3, <1>4, <3>1
  <2> QED
    BY <2>1, <2>2
<1> QED
  BY <1>5, <1>6, <1>7 DEF Next

\* The safety half of QuitEnds: a thread that has read /quit shuts down, cleans
\* up and exits, at most three steps, and nothing the other threads do sends it
\* back.
THEOREM QuitAdvances == Spec => [][\A t \in Readers : QuitNearer(t)]_vars
<1>1. TypeInv /\ [Next]_vars => [\A t \in Readers : QuitNearer(t)]_vars
  BY QuitNearerStep
<1> QED
  BY <1>1, TypeInvCorrect, PTL DEF Spec
=============================================================================
