----------------------------- MODULE MCFraming -----------------------------
(***************************************************************************)
(* Framing for TLC: conversations laid out as cMessageProtocolHelper and   *)
(* cProtoBufHelper lay them out, and what the comments of the receiving    *)
(* ends say of cut packets.                                                *)
(***************************************************************************)
EXTENDS Framing, SequencesExt

\* Words of text are numbers beyond every size.
Text(n) == [i \in 1..n |-> 1000 + i]

Words(end, p) ==
    LET field(f) == IF Layout(end, p.id)[f] = "string"
                    THEN <<Len(p.fields[f])>> \o p.fields[f] ELSE p.fields[f]
        body == FlattenSeq([f \in DOMAIN p.fields |-> field(f)])
    IN  <<Len(body) + 2, p.id>> \o body

\* Places in the stream: where what ps holds before k ends.
Sum(s) == FoldSeq(LAMBDA x, y : x + y, 0, s)
PlaceOf(end, ps, k) == Sum([j \in 1..(k - 1) |-> Len(Words(end, ps[j]))])

FieldPlace(end, p, f) ==
    2 + Sum([g \in 1..(f - 1) |->
                Len(p.fields[g]) + (IF Layout(end, p.id)[g] = "string" THEN 1 ELSE 0)])

Talk(end, ps) ==
    LET stream == FlattenSeq([k \in DOMAIN ps |-> Words(end, ps[k])])
    IN  [end     |-> end,
         packets |-> ps,
         start   |-> [k \in 1..(Len(ps) + 1) |-> PlaceOf(end, ps, k)],
         at      |-> [k \in DOMAIN ps |-> [f \in 1..(Len(ps[k].fields) + 1) |->
                         PlaceOf(end, ps, k) + FieldPlace(end, ps[k], f)]],
         word    |-> [i \in 0..(Len(stream) - 1) |-> stream[i + 1]]]

Packet(i, fields) == [id |-> i, fields |-> fields]

Login    == Packet(0, <<Text(1), Text(2)>>)
Join     == Packet(1, <<Text(2)>>)
Say      == Packet(2, <<Text(2), Text(1)>>)
Leave    == Packet(4, <<Text(2)>>)
Said     == Packet(3, <<Text(1), Text(2), Text(1)>>)
Joined   == Packet(6, <<Text(1), Text(1)>>)
LoggedIn == Packet(7, <<<<5>>, Text(2)>>)
Failed   == Packet(8, <<<<1>>>>)
Proto(i, n) == Packet(i, <<Text(n)>>)

MCTalks == {
    Talk("chatServer", <<Login, Join, Leave>>),
    Talk("chatServer", <<Leave, Say, Leave, Join>>),
    Talk("chatClient", <<Failed, LoggedIn, Joined>>),
    Talk("chatClient", <<Joined, Said, Failed>>),
    Talk("authServer", <<Proto(4, 2), Proto(1, 3), Proto(1, 1)>>),
    Talk("authClient", <<Proto(6, 1), Proto(5, 2), Proto(2, 3)>>)}

\* "make sure we have all the data", "recursive check until entire message
\* packet is recieved": what is taken from the stream is what was sent.
PacketsTakenWhole ==
    \A k \in 1..Len(handled) :
        k <= Len(talk.packets) /\ handled[k] = talk.packets[k]
=============================================================================
