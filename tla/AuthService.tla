----------------------------- MODULE AuthService -----------------------------
(***************************************************************************)
(* What the authentication server promises to the chat server, as if an    *)
(* account were one thing, created in one step: one account for an e-mail, *)
(* created only by a request to register it; "authOk" and "regOk" only     *)
(* when that account is there; and, while a request is worked on, answers  *)
(* of AuthVerdicts in their order, which may stop short when the server    *)
(* does.                                                                   *)
(***************************************************************************)
EXTENDS AuthVerdicts

CONSTANTS Emails, Passwords

VARIABLES
    accounts,   \* the accounts there are
    cur,        \* the request worked on, or the last one
    told        \* the answers it got so far

vars == <<accounts, cur, told>>

Accounts  == [email: Emails, password: Passwords]
Requests  == [type: {"login", "register"}, email: Emails, password: Passwords]
NoRequest == [type |-> "none"]

Account(req) == [email |-> req.email, password |-> req.password]

\* answers is the beginning of what may be answered to req.
Allowed(req, answers) ==
    \E all \in VerdictsOn(req) :
        /\ Len(answers) <= Len(all)
        /\ \A k \in 1..Len(answers) : answers[k] = all[k]

Init == accounts = {} /\ cur = NoRequest /\ told = <<>>

Ask(req) ==
    /\ cur' = req
    /\ told' = <<>>
    /\ UNCHANGED accounts

Create ==
    /\ cur.type = "register"
    /\ \A a \in accounts : a.email # cur.email
    /\ accounts' = accounts \cup {Account(cur)}
    /\ UNCHANGED <<cur, told>>

Answer(verdict) ==
    /\ cur # NoRequest
    /\ told' = Append(told, verdict)
    /\ Allowed(cur, told')
    /\ verdict \in {"authOk", "regOk"} => Account(cur) \in accounts
    /\ UNCHANGED <<accounts, cur>>

Next ==
    \/ \E req \in Requests : Ask(req)
    \/ Create
    \/ \E verdict \in Verdicts : Answer(verdict)

Spec == Init /\ [][Next]_vars
=============================================================================
