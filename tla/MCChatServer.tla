---------------------------- MODULE MCChatServer ----------------------------
(***************************************************************************)
(* The chat server for TLC: the symmetry of its model values, and what     *)
(* comments and the manual say of it that the code does not do.            *)
(***************************************************************************)
EXTENDS ChatServer, TLC

Symmetry == Permutations(Sockets) \cup Permutations(Emails)

\* "//get the users name" (cServerMessageHandler.cpp:98): what somebody says
\* in a room carries a name.
SayCarriesName ==
    \A s \in Sockets : \A k \in DOMAIN wire[s] :
        wire[s][k].type = "said" => wire[s][k].name # NoName

\* "/leave [room] Disconnects the user from the specified room" (ReadMe.docx):
\* a user whose /leave was handled is not a member of the room.
LeaveDisconnects ==
    \A i \in Slots :
        LET s == clientSockets[i] IN
        s # NoSocket /\ conn[s] = "open" /\ inbox[s] = <<>> /\ recvBuffer[i] = <<>> =>
            \A r \in Rooms : view[s][r] = "left" => members[r][s] = 0
=============================================================================
