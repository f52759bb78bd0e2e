---------------------------- MODULE ClientSession ----------------------------
(***************************************************************************)
(* What the chat server may count on from the program at the other end of  *)
(* a connection.  It sends one request from its menu and then listens; an  *)
(* accepted login lets it send commands beside that; any other verdict     *)
(* brings the menu back and it reads nothing until the next request.       *)
(*                                                                         *)
(* ChatClient is shown to behave like this, and so is, for every handle,   *)
(* what ChatServer takes its clients to be.                                *)
(***************************************************************************)
EXTENDS AuthVerdicts

VARIABLES
    mode,      \* "away", "menu" or "listening"
    chatting,  \* commands may be sent
    out,       \* what the client sent and the server has not taken
    in         \* what the server sent and the client has not read

session == <<mode, chatting, out, in>>

RequestTypes == {"login", "register"}
CommandTypes == {"join", "say", "leave"}

\* new is old with more behind it; new is the end of old.
Longer(old, new) ==
    Len(new) > Len(old) /\ SubSeq(new, 1, Len(old)) = old
OneLonger(old, new, types) ==
    /\ Len(new) = Len(old) + 1 /\ SubSeq(new, 1, Len(old)) = old
    /\ new[Len(new)].type \in types
Shorter(old, new) ==
    \E n \in 1..(Len(old) + 1) : new = SubSeq(old, n, Len(old))

Init == mode = "away" /\ ~chatting /\ out = <<>> /\ in = <<>>

Connect ==
    /\ mode = "away"
    /\ mode' = "menu"
    /\ UNCHANGED <<chatting, out, in>>

Ask ==
    /\ mode = "menu"
    /\ mode' = "listening"
    /\ OneLonger(out, out', RequestTypes)
    /\ UNCHANGED <<chatting, in>>

Command ==
    /\ mode # "away" /\ chatting
    /\ OneLonger(out, out', CommandTypes)
    /\ UNCHANGED <<mode, chatting, in>>

Read ==
    LET type == Head(in).type IN
    /\ mode = "listening" /\ in # <<>>
    /\ in' = Tail(in)
    /\ chatting' = (chatting \/ type = "authOk")
    /\ mode' = IF type \in Verdicts \ {"authOk"} THEN "menu" ELSE mode
    /\ UNCHANGED out

\* The connection ends at this end; what was sent may still arrive.
End ==
    /\ mode # "away"
    /\ mode' = "away" /\ chatting' = FALSE /\ in' = <<>>
    /\ out' \in {out, <<>>}

\* The server takes what comes first and sends; what an ended connection held
\* can vanish.
ServerActs ==
    /\ Shorter(out, out')
    /\ in' = in \/ (mode # "away" /\ Longer(in, in'))
    /\ UNCHANGED <<mode, chatting>>

Next == Connect \/ Ask \/ Command \/ Read \/ End \/ ServerActs

Spec == Init /\ [][Next]_session
=============================================================================
