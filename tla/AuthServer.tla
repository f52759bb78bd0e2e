----------------------------- MODULE AuthServer -----------------------------
(***************************************************************************)
(* The authentication server: cAuthServerMessageHandler working on one     *)
(* request, through cDatabaseHelper, against the two tables of             *)
(* database_setup.sql.  Every query can throw, the connection to the       *)
(* database can fail in part or altogether, and the process can crash and  *)
(* be started again between any two steps.                                 *)
(*                                                                         *)
(* One thread serves all sockets, so requests are worked on one at a time; *)
(* those a recv returned behind the first are consumed with it and never   *)
(* get here.  A password stands for its hash: the salted hashes of two     *)
(* passwords are taken to differ.                                          *)
(***************************************************************************)
EXTENDS AuthVerdicts

CONSTANTS
    Emails, Passwords,
    BadPasswords,   \* those shorter than 4 or longer than 255 characters
    MaxRequests     \* bound: requests worked on

ASSUME PasswordsAssumption == BadPasswords \subseteq Passwords
ASSUME RequestsAssumption  == MaxRequests \in Nat

VARIABLES
    up,             \* the process runs
    step,           \* what handleMessage or createUser does next
    cur, told,      \* the request worked on, or the last one; its answers
    session,        \* what cDatabaseHelper::con points to
    autoCommit,     \* of that connection
    lastId,         \* LAST_INSERT_ID() of that connection
    txnUsers, txnAuth, \* rows its transaction has inserted
    users,          \* committed rows of table user
    webAuth,        \* committed rows of table web_auth
    nextId,         \* the AUTO_INCREMENT counter of table user
    before,         \* history: the accounts there were when cur arrived
    faulty,         \* history: something failed since
    requests        \* what MaxRequests bounds

dbVars   == <<session, autoCommit, lastId, txnUsers, txnAuth, users, webAuth, nextId>>
histVars == <<before, requests>>
vars     == <<up, step, cur, told, dbVars, histVars, faulty>>

Requests  == [type: {"login", "register"}, email: Emails, password: Passwords]
NoRequest == [type |-> "none"]
Rows      == [user: Nat, email: Emails, password: Passwords]

Querying == {"verify", "exists", "recheck", "insertUser", "insertAuth", "commit"}
Steps    == Querying \cup {"idle", "connect", "strength", "created", "refused"}

RegisterSteps == Steps \ {"idle", "connect", "verify"}

Account(a) == [email |-> a.email, password |-> a.password]
Accounts   == {Account(r) : r \in webAuth}

Init ==
    /\ up = TRUE /\ step = "idle"
    /\ cur = NoRequest /\ told = <<>>
    /\ session = "none" /\ autoCommit = TRUE /\ lastId = 0
    /\ txnUsers = {} /\ txnAuth = {}
    /\ users = {} /\ webAuth = {} /\ nextId = 1
    /\ before = {} /\ faulty = FALSE /\ requests = 0
-----------------------------------------------------------------------------
At(s) == up /\ step = s

Tell(verdict) == told' = Append(told, verdict)

\* A failed query ends in a catch that rolls back.
Rollback == txnUsers' = {} /\ txnAuth' = {}

Receive(req) ==
    /\ At("idle")
    /\ requests < MaxRequests
    /\ cur' = req /\ told' = <<>>
    /\ step' = "connect"
    /\ before' = Accounts /\ faulty' = FALSE
    /\ requests' = requests + 1
    /\ UNCHANGED <<up, dbVars>>

FirstQuery == IF cur.type = "login" THEN "verify" ELSE "exists"

Connect ==
    /\ At("connect")
    /\ session' = "ready" /\ autoCommit' = TRUE
    /\ step' = FirstQuery
    /\ UNCHANGED <<up, cur, told, lastId, txnUsers, txnAuth, users, webAuth, nextId,
                   histVars, faulty>>

\* Either setSchema threw, and queries on the new connection will throw; or
\* connect did, and con stays uninitialised.  Login reports it, registration
\* does not look; both go on.
ConnectFails ==
    /\ At("connect")
    /\ session' \in {"noSchema", "none"} /\ autoCommit' = TRUE
    /\ IF cur.type = "login" THEN Tell("authFail") ELSE UNCHANGED told
    /\ step' = FirstQuery
    /\ faulty' = TRUE
    /\ UNCHANGED <<up, cur, lastId, txnUsers, txnAuth, users, webAuth, nextId, histVars>>

\* A query of step s that returns, and one that throws.
Returns(s) ==
    /\ At(s) /\ session = "ready"
    /\ UNCHANGED <<up, cur, histVars, faulty, session>>
Throws(s) ==
    /\ At(s) /\ session # "none"
    /\ Rollback
    /\ faulty' = TRUE
    /\ UNCHANGED <<up, cur, histVars, session, lastId, users, webAuth, nextId>>
-----------------------------------------------------------------------------
(***************************************************************************)
(* Login.                                                                  *)
(***************************************************************************)

\* Mutant: an unknown user has an empty hash, and so has the answer.
PasswordMatchesOrUnknown == \A r \in webAuth : r.email = cur.email => r.password = cur.password

\* verifyPassword: the last row with this e-mail decides.
PasswordMatches == \E r \in webAuth : r.email = cur.email /\ r.password = cur.password

\* Mutant: the break of case 1 is missing.
AfterLoginRegister == "exists"

AfterLogin == "idle"

\* getUserIdWithCreateDate behind it decides nothing: a failure leaves the id
\* of the answer undefined.
VerifyPassword ==
    /\ Returns("verify")
    /\ Tell(IF PasswordMatches THEN "authOk" ELSE "authFail")
    /\ step' = AfterLogin
    /\ UNCHANGED <<autoCommit, lastId, txnUsers, txnAuth, users, webAuth, nextId>>

VerifyThrows ==
    /\ Throws("verify")
    /\ Tell("authFail")
    /\ step' = AfterLogin
    /\ UNCHANGED autoCommit
-----------------------------------------------------------------------------
(***************************************************************************)
(* Registration: neither of the handler's two tests returns.               *)
(***************************************************************************)

\* Mutant: the count is compared with the wrong number.
UserExistsTwice ==
    \E q, r \in webAuth : q # r /\ q.email = cur.email /\ r.email = cur.email

UserExists == \E r \in webAuth : r.email = cur.email

CheckExists ==
    /\ Returns("exists")
    /\ IF UserExists THEN Tell("regFail") ELSE UNCHANGED told
    /\ step' = "strength"
    /\ UNCHANGED <<autoCommit, lastId, txnUsers, txnAuth, users, webAuth, nextId>>

\* isUserExist says yes when it does not know.
CheckExistsThrows ==
    /\ Throws("exists")
    /\ Tell("regFail")
    /\ step' = "strength"
    /\ UNCHANGED autoCommit

CheckStrength ==
    /\ At("strength")
    /\ IF cur.password \in BadPasswords THEN Tell("regFail") ELSE UNCHANGED told
    /\ step' = "recheck"
    /\ UNCHANGED <<up, cur, dbVars, histVars, faulty>>

\* createUser.
Recheck ==
    /\ Returns("recheck")
    /\ step' = IF UserExists THEN "refused" ELSE "insertUser"
    /\ UNCHANGED <<told, autoCommit, lastId, txnUsers, txnAuth, users, webAuth, nextId>>

\* Mutant: setAutoCommit(false) is forgotten.
StartNoTransaction == UNCHANGED autoCommit

StartTransaction == autoCommit' = FALSE

InsertUser ==
    /\ Returns("insertUser")
    /\ StartTransaction
    /\ IF autoCommit' THEN users' = users \cup {nextId} /\ UNCHANGED txnUsers
                      ELSE txnUsers' = txnUsers \cup {nextId} /\ UNCHANGED users
    /\ lastId' = nextId
    /\ nextId' = nextId + 1
    /\ step' = "insertAuth"
    /\ UNCHANGED <<told, txnAuth, webAuth>>

NewRow == [user |-> lastId, email |-> cur.email, password |-> cur.password]

InsertAuth ==
    /\ Returns("insertAuth")
    /\ IF autoCommit THEN webAuth' = webAuth \cup {NewRow} /\ UNCHANGED txnAuth
                     ELSE txnAuth' = txnAuth \cup {NewRow} /\ UNCHANGED webAuth
    /\ step' = "commit"
    /\ UNCHANGED <<told, autoCommit, lastId, txnUsers, users, nextId>>

CommitRows ==
    /\ users' = users \cup txnUsers
    /\ webAuth' = webAuth \cup txnAuth
    /\ txnUsers' = {} /\ txnAuth' = {}

Commit ==
    /\ Returns("commit")
    /\ CommitRows
    /\ step' = "created"
    /\ UNCHANGED <<told, autoCommit, lastId, nextId>>

\* Mutant: the catch of createUser forgets to return false.
OutcomeOfThrowCreated == "created"

OutcomeOfThrow == "refused"

\* isUserExist, an insert, or the commit throws (or an insert counts no row).
CreateThrows ==
    /\ \/ Throws("recheck") /\ UNCHANGED autoCommit
       \/ Throws("insertUser") /\ autoCommit' \in {autoCommit, FALSE}
       \/ Throws("insertAuth") /\ UNCHANGED autoCommit
       \/ Throws("commit") /\ UNCHANGED autoCommit
    /\ step' = OutcomeOfThrow
    /\ UNCHANGED told

\* The database committed, but createUser gets an exception for an answer.
CommitUnheard ==
    /\ At("commit") /\ session = "ready"
    /\ CommitRows
    /\ step' = OutcomeOfThrow
    /\ faulty' = TRUE
    /\ UNCHANGED <<up, cur, told, histVars, session, autoCommit, lastId, nextId>>

\* Mutant: a refusal is not answered.
AnswerOnlyCreated == IF step = "created" THEN Tell("regOk") ELSE UNCHANGED told

AnswerCreate == Tell(IF step = "created" THEN "regOk" ELSE "regFail")

FinishRegister ==
    /\ At("created") \/ At("refused")
    /\ AnswerCreate
    /\ step' = "idle"
    /\ UNCHANGED <<up, cur, dbVars, histVars, faulty>>
-----------------------------------------------------------------------------
(***************************************************************************)
(* The end of the process, at any time or because con is uninitialised     *)
(* (the Debug build, the only one there is, fills it with a pattern that   *)
(* is no address); the database rolls back what was not committed.         *)
(***************************************************************************)
Stops ==
    /\ up' = FALSE /\ step' = "idle"
    /\ session' = "none"
    /\ Rollback
    /\ faulty' = TRUE
    /\ UNCHANGED <<cur, told, histVars, autoCommit, lastId, users, webAuth, nextId>>

Crash == up /\ Stops

UseOfGarbage == up /\ step \in Querying /\ session = "none" /\ Stops

Restart ==
    /\ ~up
    /\ up' = TRUE
    /\ UNCHANGED <<step, cur, told, dbVars, histVars, faulty>>
-----------------------------------------------------------------------------
HandleMessage ==
    \/ Connect \/ ConnectFails
    \/ VerifyPassword \/ VerifyThrows
    \/ CheckExists \/ CheckExistsThrows \/ CheckStrength
    \/ Recheck \/ InsertUser \/ InsertAuth \/ Commit \/ CommitUnheard \/ CreateThrows
    \/ FinishRegister
    \/ UseOfGarbage

Next ==
    \/ \E req \in Requests : Receive(req)
    \/ HandleMessage
    \/ Crash
    \/ Restart

Spec == Init /\ [][Next]_vars

\* The handler's thread goes on while the process runs; nothing is assumed of
\* requests, failures and restarts.
FairSpec == Spec /\ WF_vars(HandleMessage)
-----------------------------------------------------------------------------
(***************************************************************************)
(* Properties.                                                             *)
(***************************************************************************)

\* The type of every variable; each case of the handler works on its own kind
\* of request.
TypeOK ==
    /\ up \in BOOLEAN
    /\ step \in Steps
    /\ cur \in Requests \cup {NoRequest}
    /\ step # "idle" => cur \in Requests
    /\ step = "verify" => cur.type = "login"
    /\ step \in RegisterSteps => cur.type = "register"
    /\ told \in Seq(Verdicts)
    /\ session \in {"none", "noSchema", "ready"}
    /\ autoCommit \in BOOLEAN
    /\ lastId \in Nat /\ nextId \in Nat \ {0}
    /\ txnUsers \subseteq Nat /\ users \subseteq Nat
    /\ txnAuth \subseteq Rows /\ webAuth \subseteq Rows
    /\ faulty \in BOOLEAN
    /\ requests \in Nat

\* Whatever fails and wherever the process stops: every user row has its
\* credentials and every credentials row its user.
RowsPaired ==
    /\ users = {r.user : r \in webAuth}
    /\ \A q, r \in webAuth : q.user = r.user => q = r

\* No e-mail has two accounts, though the table would let it.
OneAccountPerEmail ==
    \A q, r \in webAuth : q.email = r.email => q = r

\* Nobody is told of a login or an account that is not there.
OkMeansStored ==
    \A k \in 1..Len(told) :
        told[k] \in {"authOk", "regOk"} => Account(cur) \in Accounts

\* What makes these inductive: an open transaction holds exactly the rows of
\* the steps done, for an e-mail without account; and the answers given so far
\* are the failures that the steps done can have sent.
StepsInOrder ==
    /\ step \notin {"insertAuth", "commit"} => txnUsers = {} /\ txnAuth = {}
    /\ step \in {"insertAuth", "commit"} =>
         ~autoCommit /\ txnUsers = {lastId} /\ lastId \notin users
    /\ step = "insertAuth" => txnAuth = {}
    /\ step = "commit" => txnAuth = {NewRow}
    /\ step \in {"insertUser", "insertAuth", "commit"} => ~UserExists
    /\ step = "created" => Account(cur) \in Accounts
    /\ \A u \in users : u < nextId
    /\ lastId < nextId
    /\ step \in {"connect", "exists"} => told = <<>>
    /\ step = "verify" => told = <<>> \/ (told = <<"authFail">> /\ session # "ready")
    /\ step = "strength" => told \in {<<>>, <<"regFail">>}
    /\ step \in RegisterSteps => told \in {<<>>, <<"regFail">>, <<"regFail", "regFail">>}

Last(s) == s[Len(s)]

\* A request during which nothing failed gets the verdict the database calls
\* for: a login exactly one, a registration (whose failures are answered more
\* than once) in its last.
VerdictsAreExact ==
    step = "idle" /\ cur # NoRequest /\ ~faulty =>
        IF cur.type = "login"
        THEN told = <<IF Account(cur) \in before THEN "authOk" ELSE "authFail">>
        ELSE /\ told # <<>>
             /\ Last(told) = "regOk" <=> \A a \in before : a.email # cur.email

\* The handler always comes to an end, with an answer, or the process does.
RequestAnswered ==
    (step # "idle") ~> (~up \/ (step = "idle" /\ told # <<>>))

\* The accounts of the tables and the answers behave as AuthService says.
Abstract == INSTANCE AuthService WITH accounts <- Accounts
ImplementsAuthService == Abstract!Spec
=============================================================================
