----------------------------- MODULE RoomService -----------------------------
(***************************************************************************)
(* What the chat server promises to clients that join only rooms they are  *)
(* not in, leave only rooms they are in, and end their connections in an   *)
(* orderly way.  A room is a set of connections.  What is said in it       *)
(* reaches each of them once, in the order in which the server took it; a  *)
(* connection that begins is in no room, and one that ends leaves them     *)
(* all at once.                                                            *)
(***************************************************************************)
EXTENDS AuthVerdicts

CONSTANTS Sockets, Rooms, Names

VARIABLES
    open,   \* the connections there are
    in,     \* the connections in each room
    mail    \* what was sent over a connection and not read

vars == <<open, in, mail>>

Notice(type, name, r) == [type |-> type, name |-> name, room |-> r]

\* One copy of msg for every open connection of group.
Tell(group, msg) ==
    mail' = [s \in Sockets |->
               IF s \in group \cap open THEN Append(mail[s], msg) ELSE mail[s]]

Init ==
    /\ open = {}
    /\ in = [r \in Rooms |-> {}]
    /\ mail = [s \in Sockets |-> <<>>]

Begin(s) ==
    /\ s \notin open
    /\ \A r \in Rooms : s \notin in[r]
    /\ mail[s] = <<>>
    /\ open' = open \cup {s}
    /\ UNCHANGED <<in, mail>>

Join(s, name, r) ==
    /\ s \notin in[r]
    /\ in' = [in EXCEPT ![r] = @ \cup {s}]
    /\ Tell(in'[r], Notice("joined", name, r))
    /\ UNCHANGED open

Say(name, r) ==
    /\ Tell(in[r], Notice("said", name, r))
    /\ UNCHANGED <<open, in>>

\* The one who leaves hears of it too.
Leave(s, name, r) ==
    /\ s \in in[r]
    /\ in' = [in EXCEPT ![r] = @ \ {s}]
    /\ Tell(in[r], Notice("left", name, r))
    /\ UNCHANGED open

Verdict(s, verdict) ==
    /\ Tell({s}, [type |-> verdict])
    /\ UNCHANGED <<open, in>>

Read(s) ==
    /\ mail[s] # <<>>
    /\ mail' = [mail EXCEPT ![s] = Tail(@)]
    /\ UNCHANGED <<open, in>>

End(s) ==
    /\ s \in open
    /\ open' = open \ {s}
    /\ mail' = [mail EXCEPT ![s] = <<>>]
    /\ UNCHANGED in

\* Nobody hears of a connection that has ended that it left its rooms.
Forget(s) ==
    /\ s \notin open
    /\ in' = [r \in Rooms |-> in[r] \ {s}]
    /\ UNCHANGED <<open, mail>>

Next ==
    \E s \in Sockets :
        \/ Begin(s) \/ Read(s) \/ End(s) \/ Forget(s)
        \/ \E verdict \in Verdicts : Verdict(s, verdict)
        \/ \E name \in Names, r \in Rooms :
             Join(s, name, r) \/ Say(name, r) \/ Leave(s, name, r)

Spec == Init /\ [][Next]_vars
=============================================================================
