-------------------------- MODULE AuthServerProofs --------------------------
(***************************************************************************)
(* Theorems about the authentication server, for any e-mails, passwords    *)
(* and number of requests: the tables stay consistent whatever fails, and  *)
(* the server implements AuthService.                                      *)
(***************************************************************************)
EXTENDS AuthServer, SequenceTheorems, TLAPS

LEMMA TypeInit == Init => TypeOK
<1> SUFFICES ASSUME Init
             PROVE  TypeOK
  OBVIOUS
<1>1. told \in Seq(Verdicts)
  BY DEF Init
<1>2. /\ step = "idle" /\ step \in Steps /\ step \notin RegisterSteps
      /\ up \in BOOLEAN /\ autoCommit \in BOOLEAN /\ faulty \in BOOLEAN
  BY DEF Init, Steps, Querying, RegisterSteps
<1>3. /\ lastId \in Nat /\ nextId \in Nat \ {0} /\ requests \in Nat
      /\ session \in {"none", "noSchema", "ready"}
  BY DEF Init
<1>4. /\ cur \in Requests \cup {NoRequest}
      /\ txnUsers \subseteq Nat /\ users \subseteq Nat
      /\ txnAuth \subseteq Rows /\ webAuth \subseteq Rows
  BY DEF Init
<1> QED
  BY <1>1, <1>2, <1>3, <1>4 DEF TypeOK

\* A verdict appended to the answers leaves answers.
LEMMA TellType ==
    ASSUME TypeOK, NEW v \in Verdicts, Tell(v)
    PROVE  told' \in Seq(Verdicts)
  BY AppendProperties DEF Tell, TypeOK

LEMMA NewRowType == TypeOK /\ step # "idle" => NewRow \in Rows
  BY DEF TypeOK, NewRow, Rows, Requests

LEMMA TypeStep == TypeOK /\ [Next]_vars => TypeOK'
<1> SUFFICES ASSUME TypeOK, [Next]_vars
             PROVE  TypeOK'
  OBVIOUS
<1> USE DEF TypeOK, Steps, RegisterSteps, Querying, At, Returns, Throws, Rollback, dbVars, histVars
<1>a. /\ "authOk" \in Verdicts /\ "authFail" \in Verdicts
      /\ "regOk" \in Verdicts /\ "regFail" \in Verdicts
  BY DEF Verdicts
<1>1. CASE \E req \in Requests : Receive(req)
  <2>1. <<>> \in Seq(Verdicts)
    OBVIOUS
  <2>2. PICK req \in Requests : Receive(req)
    BY <1>1
  <2>3. /\ cur' \in Requests /\ told' = <<>> /\ step' = "connect" /\ faulty' = FALSE
        /\ requests' = requests + 1
        /\ UNCHANGED <<up, dbVars>>
    BY <2>2 DEF Receive
  <2>4. requests' \in Nat
    BY <2>3
  <2>5. step' \in Steps /\ step' # "verify" /\ step' \notin RegisterSteps
    BY <2>3
  <2>6. told' \in Seq(Verdicts)
    BY <2>1, <2>3
  <2> QED
    BY <2>3, <2>4, <2>5, <2>6
<1>2. CASE Connect
  BY <1>2 DEF Connect, FirstQuery, Requests
<1>3. CASE ConnectFails
  <2>1. told' \in Seq(Verdicts)
    BY <1>3, <1>a, TellType DEF ConnectFails
  <2> QED
    BY <1>3, <2>1 DEF ConnectFails, FirstQuery, Requests
<1>4. CASE VerifyPassword
  <2>1. told' \in Seq(Verdicts)
    BY <1>4, <1>a, TellType DEF VerifyPassword
  <2> QED
    BY <1>4, <2>1 DEF VerifyPassword, AfterLogin
<1>5. CASE VerifyThrows
  <2>1. told' \in Seq(Verdicts)
    BY <1>5, <1>a, TellType DEF VerifyThrows
  <2> QED
    BY <1>5, <2>1 DEF VerifyThrows, AfterLogin
<1>6. CASE CheckExists
  <2>1. told' \in Seq(Verdicts)
    BY <1>6, <1>a, TellType DEF CheckExists
  <2> QED
    BY <1>6, <2>1 DEF CheckExists
<1>7. CASE CheckExistsThrows
  <2>1. told' \in Seq(Verdicts)
    BY <1>7, <1>a, TellType DEF CheckExistsThrows
  <2> QED
    BY <1>7, <2>1 DEF CheckExistsThrows
<1>8. CASE CheckStrength
  <2>1. told' \in Seq(Verdicts)
    BY <1>8, <1>a, TellType DEF CheckStrength
  <2> QED
    BY <1>8, <2>1 DEF CheckStrength
<1>9. CASE Recheck
  BY <1>9 DEF Recheck
<1>10. CASE InsertUser
  <2>1. autoCommit' = FALSE
    BY <1>10 DEF InsertUser, StartTransaction
  <2>2. txnUsers' = txnUsers \cup {nextId} /\ UNCHANGED users
    BY <1>10, <2>1 DEF InsertUser
  <2>3. /\ lastId' \in Nat /\ nextId' \in Nat \ {0} /\ txnUsers' \subseteq Nat
        /\ step' = "insertAuth" /\ cur.type = "register" /\ cur \in Requests
    BY <1>10, <2>2 DEF InsertUser
  <2>4. UNCHANGED <<up, cur, told, txnAuth, webAuth, users, session, requests, faulty>>
    BY <1>10, <2>2 DEF InsertUser
  <2> QED
    BY <2>1, <2>3, <2>4
<1>11. CASE InsertAuth
  <2>1. NewRow \in Rows
    BY <1>11, NewRowType DEF InsertAuth
  <2> QED
    BY <1>11, <2>1 DEF InsertAuth
<1>12. CASE Commit
  BY <1>12 DEF Commit, CommitRows
<1>13. CASE CommitUnheard
  BY <1>13 DEF CommitUnheard, CommitRows, OutcomeOfThrow
<1>14. CASE CreateThrows
  BY <1>14 DEF CreateThrows, OutcomeOfThrow
<1>15. CASE FinishRegister
  <2>1. told' \in Seq(Verdicts)
    BY <1>15, <1>a, TellType DEF FinishRegister, AnswerCreate
  <2> QED
    BY <1>15, <2>1 DEF FinishRegister
<1>16. CASE Crash \/ UseOfGarbage
  BY <1>16 DEF Crash, UseOfGarbage, Stops
<1>17. CASE Restart
  BY <1>17 DEF Restart
<1>18. CASE UNCHANGED vars
  BY <1>18 DEF vars
<1> QED
  BY <1>1, <1>2, <1>3, <1>4, <1>5, <1>6, <1>7, <1>8, <1>9, <1>10, <1>11, <1>12, <1>13,
     <1>14, <1>15, <1>16, <1>17, <1>18 DEF Next, HandleMessage

\* Type correctness.
THEOREM TypeCorrect == Spec => []TypeOK
  BY TypeInit, TypeStep, PTL DEF Spec

-----------------------------------------------------------------------------
(***************************************************************************)
(* The rows of an open transaction and the answers given so far follow the *)
(* step the handler is at.                                                 *)
(***************************************************************************)
LEMMA AppendToShort ==
    ASSUME NEW a, NEW v
    PROVE  /\ Append(<<>>, v) = <<v>>
           /\ Append(<<a>>, v) = <<a, v>>
<1>1. Append(<<>>, v) = <<v>>
  OBVIOUS
<1>2. Append(<<a>>, v) = <<a, v>>
  <2>1. <<a>> \in Seq({a, v}) /\ <<a, v>> \in Seq({a, v}) /\ v \in {a, v}
    OBVIOUS
  <2>2. /\ Append(<<a>>, v) \in Seq({a, v}) /\ Len(Append(<<a>>, v)) = 2
        /\ Append(<<a>>, v)[1] = a /\ Append(<<a>>, v)[2] = v
    BY <2>1, AppendProperties
  <2>3. \A i \in 1..2 : Append(<<a>>, v)[i] = <<a, v>>[i]
    BY <2>2
  <2> QED
    BY <2>1, <2>2, <2>3, SeqEqual
<1> QED
  BY <1>1, <1>2

LEMMA OrderInit == Init => StepsInOrder
  BY DEF Init, StepsInOrder, RegisterSteps

LEMMA OrderStep == TypeOK /\ StepsInOrder /\ [Next]_vars => StepsInOrder'
<1> SUFFICES ASSUME TypeOK, StepsInOrder, [Next]_vars
             PROVE  StepsInOrder'
  OBVIOUS
<1> USE DEF StepsInOrder, Steps, RegisterSteps, Querying, At, Returns, Throws, Rollback, dbVars, histVars
<1>t. lastId \in Nat /\ nextId \in Nat /\ users \subseteq Nat /\ autoCommit \in BOOLEAN
  BY DEF TypeOK
<1>u. UNCHANGED <<webAuth, cur, lastId>> =>
        UserExists' = UserExists /\ Accounts' = Accounts /\ NewRow' = NewRow
  BY DEF UserExists, Accounts, NewRow
<1>1. CASE \E req \in Requests : Receive(req)
  BY <1>1 DEF Receive
<1>2. CASE Connect
  BY <1>2 DEF Connect, FirstQuery
<1>3. CASE ConnectFails
  <2>1. told = <<>> /\ step = "connect"
    BY <1>3 DEF ConnectFails
  <2>2. cur.type = "login" => told' = <<"authFail">>
    BY <1>3, <2>1, AppendToShort DEF ConnectFails, Tell
  <2>3. cur.type # "login" => told' = <<>>
    BY <1>3, <2>1 DEF ConnectFails
  <2> QED
    BY <1>3, <2>1, <2>2, <2>3 DEF ConnectFails, FirstQuery
<1>4. CASE VerifyPassword \/ VerifyThrows
  BY <1>4 DEF VerifyPassword, VerifyThrows, AfterLogin
<1>5. CASE CheckExists \/ CheckExistsThrows
  <2>1. told' \in {<<>>, <<"regFail">>}
    BY <1>5, AppendToShort DEF CheckExists, CheckExistsThrows, Tell
  <2> QED
    BY <1>5, <2>1 DEF CheckExists, CheckExistsThrows
<1>6. CASE CheckStrength
  <2>1. told' \in {<<>>, <<"regFail">>, <<"regFail", "regFail">>}
    BY <1>6, AppendToShort DEF CheckStrength, Tell
  <2> QED
    BY <1>6, <2>1 DEF CheckStrength
<1>7. CASE Recheck
  BY <1>7, <1>u DEF Recheck
<1>8. CASE InsertUser
  <2>1. autoCommit' = FALSE
    BY <1>8 DEF InsertUser, StartTransaction
  <2>2. /\ step = "insertUser" /\ step' = "insertAuth"
        /\ txnUsers' = txnUsers \cup {nextId} /\ lastId' = nextId /\ nextId' = nextId + 1
        /\ UNCHANGED <<told, txnAuth, webAuth, users, cur>>
    BY <1>8, <2>1 DEF InsertUser
  <2>3. txnUsers' = {lastId'} /\ txnAuth' = {} /\ lastId' \notin users'
    BY <2>2, <1>t
  <2>4. UserExists' = UserExists
    BY <2>2 DEF UserExists
  <2>5. lastId' < nextId' /\ \A u \in users' : u < nextId'
    BY <2>2, <1>t
  <2>6. told' \in {<<>>, <<"regFail">>, <<"regFail", "regFail">>}
    BY <2>2
  <2> QED
    BY <2>1, <2>2, <2>3, <2>4, <2>5, <2>6
<1>9. CASE InsertAuth
  <2>1. /\ step = "insertAuth" /\ step' = "commit" /\ ~autoCommit
        /\ txnAuth' = {NewRow}
        /\ UNCHANGED <<cur, told, autoCommit, lastId, txnUsers, webAuth, users, nextId>>
    BY <1>9 DEF InsertAuth
  <2> QED
    BY <2>1, <1>u
<1>10. CASE Commit \/ CommitUnheard
  <2>1. /\ step = "commit" /\ step' \in {"created", "refused"}
        /\ users' = users \cup {lastId} /\ webAuth' = webAuth \cup {NewRow}
        /\ txnUsers' = {} /\ txnAuth' = {}
        /\ UNCHANGED <<cur, told, autoCommit, lastId, nextId>>
    BY <1>10 DEF Commit, CommitUnheard, CommitRows, OutcomeOfThrow
  <2>2. NewRow \in webAuth' /\ Account(NewRow) = Account(cur)
    BY <2>1 DEF NewRow, Account
  <2>3. Account(cur') \in Accounts'
    BY <2>1, <2>2 DEF Accounts
  <2>4. lastId' < nextId' /\ \A u \in users' : u < nextId'
    BY <2>1
  <2>5. told' \in {<<>>, <<"regFail">>, <<"regFail", "regFail">>}
    BY <2>1
  <2> QED
    BY <2>1, <2>3, <2>4, <2>5
<1>11. CASE CreateThrows
  BY <1>11, <1>u DEF CreateThrows, OutcomeOfThrow
<1>12. CASE FinishRegister
  BY <1>12 DEF FinishRegister
<1>13. CASE Crash \/ UseOfGarbage
  BY <1>13 DEF Crash, UseOfGarbage, Stops
<1>14. CASE Restart
  BY <1>14, <1>u DEF Restart
<1>15. CASE UNCHANGED vars
  BY <1>15, <1>u DEF vars
<1> QED
  BY <1>1, <1>2, <1>3, <1>4, <1>5, <1>6, <1>7, <1>8, <1>9, <1>10, <1>11, <1>12, <1>13,
     <1>14, <1>15 DEF Next, HandleMessage

Inductive == TypeOK /\ StepsInOrder

LEMMA SpecInductive == Spec => []Inductive
<1>1. Init => Inductive
  BY TypeInit, OrderInit DEF Inductive
<1>2. Inductive /\ [Next]_vars => Inductive'
  BY TypeStep, OrderStep DEF Inductive
<1> QED
  BY <1>1, <1>2, PTL DEF Spec

\* Type correctness, again with the rest of the inductive invariant.
THEOREM OrderCorrect == Spec => []StepsInOrder
  BY SpecInductive, PTL DEF Inductive
-----------------------------------------------------------------------------
(***************************************************************************)
(* The tables change in two ways only: not at all, or by the row of a      *)
(* request whose e-mail has none.                                          *)
(***************************************************************************)
LEMMA TablesStep ==
    ASSUME Inductive, [Next]_vars
    PROVE  \/ UNCHANGED <<users, webAuth>>
           \/ /\ Commit \/ CommitUnheard
              /\ step = "commit" /\ UNCHANGED <<cur, told>>
              /\ ~UserExists /\ lastId \notin users
              /\ users' = users \cup {lastId}
              /\ webAuth' = webAuth \cup {NewRow}
<1> USE DEF Inductive, At, Returns, Throws, Rollback, dbVars, histVars
<1>1. CASE \E req \in Requests : Receive(req)
  BY <1>1 DEF Receive
<1>2. CASE Connect \/ ConnectFails
  BY <1>2 DEF Connect, ConnectFails
<1>3. CASE VerifyPassword \/ VerifyThrows
  BY <1>3 DEF VerifyPassword, VerifyThrows
<1>4. CASE CheckExists \/ CheckExistsThrows \/ CheckStrength \/ Recheck
  BY <1>4 DEF CheckExists, CheckExistsThrows, CheckStrength, Recheck
<1>5. CASE InsertUser
  <2>1. autoCommit' = FALSE
    BY <1>5 DEF InsertUser, StartTransaction
  <2> QED
    BY <1>5, <2>1 DEF InsertUser
<1>6. CASE InsertAuth
  <2>1. autoCommit = FALSE
    BY <1>6 DEF InsertAuth, StepsInOrder, TypeOK
  <2> QED
    BY <1>6, <2>1 DEF InsertAuth
<1>7. CASE Commit \/ CommitUnheard
  BY <1>7 DEF Commit, CommitUnheard, CommitRows, StepsInOrder
<1>8. CASE CreateThrows \/ FinishRegister
  BY <1>8 DEF CreateThrows, FinishRegister
<1>9. CASE Crash \/ UseOfGarbage \/ Restart
  BY <1>9 DEF Crash, UseOfGarbage, Stops, Restart
<1>10. CASE UNCHANGED vars
  BY <1>10 DEF vars
<1> QED
  BY <1>1, <1>2, <1>3, <1>4, <1>5, <1>6, <1>7, <1>8, <1>9, <1>10 DEF Next, HandleMessage

\* Every user row has its credentials and the other way round, whatever query
\* throws and wherever the process stops: both rows come with one commit.
THEOREM PairedCorrect == Spec => []RowsPaired
<1>1. Init => RowsPaired
  BY DEF Init, RowsPaired
<1>2. Inductive /\ RowsPaired /\ [Next]_vars => RowsPaired'
  <2> SUFFICES ASSUME Inductive, RowsPaired, [Next]_vars
               PROVE  RowsPaired'
    OBVIOUS
  <2>1. CASE UNCHANGED <<users, webAuth>>
    BY <2>1 DEF RowsPaired
  <2>2. CASE /\ lastId \notin users
             /\ users' = users \cup {lastId}
             /\ webAuth' = webAuth \cup {NewRow}
    <3>1. NewRow.user = lastId
      BY DEF NewRow
    <3>2. users' = {r.user : r \in webAuth'}
      BY <2>2, <3>1 DEF RowsPaired
    <3>3. \A r \in webAuth : r.user # NewRow.user
      BY <2>2, <3>1 DEF RowsPaired
    <3>4. \A q, r \in webAuth' : q.user = r.user => q = r
      BY <2>2, <3>3 DEF RowsPaired
    <3> QED
      BY <3>2, <3>4 DEF RowsPaired
  <2> QED
    BY <2>1, <2>2, TablesStep
<1> QED
  BY <1>1, <1>2, SpecInductive, PTL DEF Spec

\* No e-mail gets two accounts, though no index forbids it: createUser asks
\* again, and one thread serves everybody.
THEOREM OneAccountCorrect == Spec => []OneAccountPerEmail
<1>1. Init => OneAccountPerEmail
  BY DEF Init, OneAccountPerEmail
<1>2. Inductive /\ OneAccountPerEmail /\ [Next]_vars => OneAccountPerEmail'
  <2> SUFFICES ASSUME Inductive, OneAccountPerEmail, [Next]_vars
               PROVE  OneAccountPerEmail'
    OBVIOUS
  <2>1. CASE UNCHANGED <<users, webAuth>>
    BY <2>1 DEF OneAccountPerEmail
  <2>2. CASE ~UserExists /\ webAuth' = webAuth \cup {NewRow}
    <3>1. \A r \in webAuth : r.email # NewRow.email
      BY <2>2 DEF UserExists, NewRow
    <3> QED
      BY <2>2, <3>1 DEF OneAccountPerEmail
  <2> QED
    BY <2>1, <2>2, TablesStep
<1> QED
  BY <1>1, <1>2, SpecInductive, PTL DEF Spec
-----------------------------------------------------------------------------
(***************************************************************************)
(* The answers: an account is behind every success, and all the answers to *)
(* a request are among those of AuthVerdicts.                              *)
(***************************************************************************)
LEMMA AppendToTwo ==
    ASSUME NEW a, NEW b, NEW v
    PROVE  Append(<<a, b>>, v) = <<a, b, v>>
<1>1. <<a, b>> \in Seq({a, b, v}) /\ <<a, b, v>> \in Seq({a, b, v}) /\ v \in {a, b, v}
  OBVIOUS
<1>2. /\ Append(<<a, b>>, v) \in Seq({a, b, v}) /\ Len(Append(<<a, b>>, v)) = 3
      /\ Append(<<a, b>>, v)[1] = a /\ Append(<<a, b>>, v)[2] = b
      /\ Append(<<a, b>>, v)[3] = v
  BY <1>1, AppendProperties
<1>3. \A i \in 1..3 : Append(<<a, b>>, v)[i] = <<a, b, v>>[i]
  BY <1>2
<1> QED
  BY <1>1, <1>2, <1>3, SeqEqual

Answers(v) ==
    /\ Tell(v)
    /\ told' \in VerdictsOn(cur)
    /\ v \in {"authOk", "regOk"} => Account(cur) \in Accounts

\* What a verdict says about an account is true when it is sent.
LEMMA ToldStep ==
    ASSUME Inductive, [Next]_vars
    PROVE  \/ \E req \in Requests : Receive(req)
           \/ UNCHANGED <<cur, told>>
           \/ /\ UNCHANGED <<cur, users, webAuth>> /\ cur \in Requests
              /\ \E v \in Verdicts : Answers(v)
<1> USE DEF Inductive, At, Returns, Throws, dbVars, histVars
<1>a. /\ step # "idle" => cur \in Requests
      /\ step = "verify" => cur.type = "login"
      /\ step \in {"exists", "strength", "created", "refused"} => cur.type # "login"
  BY DEF TypeOK, Steps, RegisterSteps, Querying
<1>b. /\ "authOk" \in Verdicts /\ "authFail" \in Verdicts
      /\ "regOk" \in Verdicts /\ "regFail" \in Verdicts
  BY DEF Verdicts
<1>1. CASE Connect
  BY <1>1 DEF Connect
<1>2. CASE ConnectFails
  <2>1. CASE cur.type = "login"
    <3>1. told' = <<"authFail">>
      BY <1>2, <2>1, AppendToShort DEF ConnectFails, Tell, StepsInOrder
    <3>2. told' \in VerdictsOn(cur)
      BY <2>1, <3>1 DEF VerdictsOn
    <3>3. Answers("authFail")
      BY <1>2, <2>1, <3>2 DEF ConnectFails, Answers
    <3> QED
      BY <1>2, <1>a, <1>b, <3>3 DEF ConnectFails
  <2> QED
    BY <1>2, <2>1 DEF ConnectFails
<1>3. CASE VerifyPassword
  <2> DEFINE v == IF PasswordMatches THEN "authOk" ELSE "authFail"
  <2>1. told = <<>>
    BY <1>3 DEF VerifyPassword, StepsInOrder
  <2>2. told' = <<v>>
    BY <1>3, <2>1, AppendToShort DEF VerifyPassword, Tell
  <2>3. told' \in VerdictsOn(cur)
    BY <1>3, <1>a, <2>2 DEF VerdictsOn, VerifyPassword
  <2>4. ASSUME PasswordMatches
        PROVE  Account(cur) \in Accounts
    <3>1. PICK r \in webAuth : r.email = cur.email /\ r.password = cur.password
      BY <2>4 DEF PasswordMatches
    <3> QED
      BY <3>1 DEF Account, Accounts
  <2>5. Answers(v)
    BY <1>3, <2>3, <2>4 DEF VerifyPassword, Answers
  <2>6. UNCHANGED <<cur, users, webAuth>> /\ cur \in Requests /\ v \in Verdicts
    BY <1>3, <1>a, <1>b DEF VerifyPassword
  <2> QED
    BY <2>5, <2>6
<1>4. CASE VerifyThrows
  <2>1. told \in {<<>>, <<"authFail">>}
    BY <1>4 DEF VerifyThrows, StepsInOrder
  <2>2. told' \in {<<"authFail">>, <<"authFail", "authFail">>}
    BY <1>4, <2>1, AppendToShort DEF VerifyThrows, Tell
  <2>3. told' \in VerdictsOn(cur)
    BY <1>4, <1>a, <2>2 DEF VerdictsOn, VerifyThrows
  <2>4. Answers("authFail")
    BY <1>4, <2>3 DEF VerifyThrows, Answers
  <2> QED
    BY <1>4, <1>a, <1>b, <2>4 DEF VerifyThrows
<1>5. CASE CheckExists \/ CheckExistsThrows \/ CheckStrength
  <2>0. UNCHANGED <<cur, users, webAuth>> /\ step \in {"exists", "strength"}
    BY <1>5 DEF CheckExists, CheckExistsThrows, CheckStrength
  <2>1. CASE Tell("regFail")
    <3>1. told \in {<<>>, <<"regFail">>}
      BY <2>0 DEF StepsInOrder
    <3>2. told' \in {<<"regFail">>, <<"regFail", "regFail">>}
      BY <2>1, <3>1, AppendToShort DEF Tell
    <3>3. told' \in VerdictsOn(cur)
      BY <1>a, <2>0, <3>2 DEF VerdictsOn
    <3>4. Answers("regFail")
      BY <2>1, <3>3 DEF Answers
    <3> QED
      BY <2>0, <1>a, <1>b, <3>4
  <2>2. CASE UNCHANGED told
    BY <2>0, <2>2
  <2> QED
    BY <1>5, <2>1, <2>2 DEF CheckExists, CheckExistsThrows, CheckStrength
<1>6. CASE FinishRegister
  <2> DEFINE v == IF step = "created" THEN "regOk" ELSE "regFail"
  <2>0. UNCHANGED <<cur, users, webAuth>> /\ step \in {"created", "refused"} /\ Tell(v)
    BY <1>6 DEF FinishRegister, AnswerCreate
  <2>1. told \in {<<>>, <<"regFail">>, <<"regFail", "regFail">>}
    BY <2>0 DEF StepsInOrder, RegisterSteps, Steps, Querying
  <2>2. told' \in {<<v>>, <<"regFail", v>>, <<"regFail", "regFail", v>>}
    BY <2>0, <2>1, AppendToShort, AppendToTwo DEF Tell
  <2>3. told' \in VerdictsOn(cur)
    BY <1>a, <2>0, <2>2 DEF VerdictsOn
  <2>4. step = "created" => Account(cur) \in Accounts
    BY DEF StepsInOrder
  <2>5. Answers(v)
    BY <2>0, <2>3, <2>4 DEF Answers
  <2> QED
    BY <2>0, <2>5, <1>a, <1>b
<1>7. CASE Recheck \/ InsertUser \/ InsertAuth \/ Commit \/ CommitUnheard \/ CreateThrows
  BY <1>7 DEF Recheck, InsertUser, InsertAuth, Commit, CommitUnheard, CreateThrows
<1>8. CASE Crash \/ UseOfGarbage \/ Restart
  BY <1>8 DEF Crash, UseOfGarbage, Stops, Restart
<1>9. CASE UNCHANGED vars
  BY <1>9 DEF vars
<1> QED
  BY <1>1, <1>2, <1>3, <1>4, <1>5, <1>6, <1>7, <1>8, <1>9 DEF Next, HandleMessage

\* A login is accepted, and a registration confirmed, only with the account in
\* the tables.
THEOREM OkCorrect == Spec => []OkMeansStored
<1>1. Init => OkMeansStored
  BY DEF Init, OkMeansStored
<1>2. Inductive /\ OkMeansStored /\ [Next]_vars => OkMeansStored'
  <2> SUFFICES ASSUME Inductive, OkMeansStored, [Next]_vars
               PROVE  OkMeansStored'
    OBVIOUS
  <2>1. CASE \E req \in Requests : Receive(req)
    <3>1. told' = <<>>
      BY <2>1 DEF Receive
    <3> QED
      BY <3>1 DEF OkMeansStored
  <2>2. CASE UNCHANGED <<cur, told>>
    <3>1. webAuth \subseteq webAuth'
      BY TablesStep
    <3>2. Accounts \subseteq Accounts'
      BY <3>1 DEF Accounts
    <3> QED
      BY <2>2, <3>2 DEF OkMeansStored
  <2>3. CASE /\ UNCHANGED <<cur, users, webAuth>>
             /\ \E v \in Verdicts : Answers(v)
    <3>1. PICK v \in Verdicts : Answers(v)
      BY <2>3
    <3>2. told' = Append(told, v) /\ told \in Seq(Verdicts)
      BY <3>1 DEF Answers, Tell, Inductive, TypeOK
    <3>3. /\ Len(told') = Len(told) + 1 /\ Len(told) \in Nat
          /\ \A k \in 1..Len(told) : told'[k] = told[k]
          /\ told'[Len(told')] = v
      BY <3>2, AppendProperties, LenProperties
    <3>4. Accounts' = Accounts /\ Account(cur)' = Account(cur)
      BY <2>3 DEF Accounts, Account
    <3>5. ASSUME NEW k \in 1..Len(told'), told'[k] \in {"authOk", "regOk"}
          PROVE  Account(cur) \in Accounts
      <4>1. CASE k \in 1..Len(told)
        BY <3>3, <3>5, <4>1 DEF OkMeansStored
      <4>2. CASE k = Len(told')
        BY <3>1, <3>3, <3>5, <4>2 DEF Answers
      <4> QED
        BY <3>3, <4>1, <4>2
    <3> QED
      BY <3>4, <3>5 DEF OkMeansStored
  <2> QED
    BY <2>1, <2>2, <2>3, ToldStep
<1> QED
  BY <1>1, <1>2, SpecInductive, PTL DEF Spec
-----------------------------------------------------------------------------
(***************************************************************************)
(* The verdict and the tables.  Between the request and its last answer    *)
(* the accounts are those of before, unless the step says otherwise; a     *)
(* failure ends all this until the next request.                           *)
(***************************************************************************)
HadAccount == \E a \in before : a.email = cur.email

Unfailed ==
    ~faulty =>
        /\ step \notin {"idle", "created"} => Accounts = before
        /\ step = "verify" => told = <<>>
        /\ step = "refused" => HadAccount
        /\ step = "created" => ~HadAccount

VerdictInv == Unfailed /\ VerdictsAreExact

\* What the queries of the handler see are the accounts.
LEMMA QueriesSee ==
    /\ UserExists <=> \E a \in Accounts : a.email = cur.email
    /\ PasswordMatches <=> Account(cur) \in Accounts
<1>1. UserExists <=> \E a \in Accounts : a.email = cur.email
  <2>1. \A r \in webAuth : Account(r).email = r.email
    BY DEF Account
  <2> QED
    BY <2>1 DEF UserExists, Accounts
<1>2. PasswordMatches <=> Account(cur) \in Accounts
  BY DEF PasswordMatches, Accounts, Account
<1> QED
  BY <1>1, <1>2

LEMMA VerdictStep == Inductive /\ VerdictInv /\ [Next]_vars => VerdictInv'
<1> SUFFICES ASSUME Inductive, VerdictInv, [Next]_vars, ~faulty'
             PROVE  VerdictInv'
  BY DEF VerdictInv, Unfailed, VerdictsAreExact
<1> USE DEF VerdictInv, Unfailed, HadAccount, At, Returns, dbVars, histVars
<1>a. /\ step \in Steps /\ told \in Seq(Verdicts)
      /\ step = "verify" => cur.type = "login"
      /\ step \in RegisterSteps => cur.type = "register"
  BY DEF Inductive, TypeOK
<1>b. UNCHANGED webAuth => UNCHANGED Accounts
  BY DEF Accounts
<1>1. CASE \E req \in Requests : Receive(req)
  <2>1. step' = "connect" /\ before' = Accounts /\ UNCHANGED Accounts
    BY <1>1, <1>b DEF Receive
  <2> QED
    BY <2>1 DEF VerdictsAreExact
<1>2. CASE Connect
  <2>1. /\ step = "connect" /\ step' \in {"verify", "exists"} /\ ~faulty /\ told = <<>>
        /\ UNCHANGED <<Accounts, before, told, cur>>
    BY <1>2, <1>b DEF Connect, FirstQuery, Inductive, StepsInOrder
  <2> QED
    BY <2>1 DEF VerdictsAreExact
<1>3. CASE VerifyPassword
  <2>1. /\ step = "verify" /\ step' = "idle" /\ ~faulty /\ told = <<>> /\ Accounts = before
        /\ cur.type = "login"
        /\ UNCHANGED <<before, cur>>
        /\ told' = Append(told, IF PasswordMatches THEN "authOk" ELSE "authFail")
    BY <1>3, <1>a DEF VerifyPassword, AfterLogin, Tell
  <2>2. told' = <<IF Account(cur) \in before THEN "authOk" ELSE "authFail">>
    BY <2>1, QueriesSee, AppendToShort
  <2>3. Account(cur)' = Account(cur)
    BY <2>1 DEF Account
  <2> QED
    BY <2>1, <2>2, <2>3 DEF VerdictsAreExact
<1>4. CASE CheckExists \/ CheckStrength
  <2>1. /\ step \in {"exists", "strength"} /\ step' \in {"strength", "recheck"} /\ ~faulty
        /\ UNCHANGED <<Accounts, before, cur>>
    BY <1>4, <1>b DEF CheckExists, CheckStrength
  <2> QED
    BY <2>1 DEF VerdictsAreExact
<1>5. CASE Recheck
  <2>1. /\ step = "recheck" /\ step' = (IF UserExists THEN "refused" ELSE "insertUser") /\ ~faulty
        /\ UNCHANGED <<Accounts, before, cur>>
    BY <1>5, <1>b DEF Recheck
  <2>2. step' = "refused" => HadAccount'
    BY <2>1, QueriesSee
  <2> QED
    BY <2>1, <2>2 DEF VerdictsAreExact
<1>6. CASE InsertUser \/ InsertAuth
  <2>1. autoCommit' = FALSE /\ (InsertAuth => autoCommit = FALSE)
    BY <1>6 DEF InsertUser, StartTransaction, InsertAuth, Inductive, StepsInOrder
  <2>2. /\ step \in {"insertUser", "insertAuth"} /\ step' \in {"insertAuth", "commit"} /\ ~faulty
        /\ UNCHANGED <<Accounts, before, cur>>
    BY <1>6, <1>b, <2>1 DEF InsertUser, InsertAuth
  <2> QED
    BY <2>2 DEF VerdictsAreExact
<1>7. CASE Commit
  <2>1. /\ step = "commit" /\ step' = "created" /\ ~faulty /\ ~UserExists
        /\ UNCHANGED <<before, cur>>
    BY <1>7 DEF Commit, Inductive, StepsInOrder
  <2>2. ~HadAccount'
    BY <2>1, QueriesSee
  <2> QED
    BY <2>1, <2>2 DEF VerdictsAreExact
<1>8. CASE FinishRegister
  <2>1. /\ step \in {"created", "refused"} /\ step' = "idle" /\ ~faulty
        /\ cur.type = "register"
        /\ UNCHANGED <<before, cur>>
        /\ told' = Append(told, IF step = "created" THEN "regOk" ELSE "regFail")
    BY <1>8, <1>a DEF FinishRegister, AnswerCreate, Tell, RegisterSteps, Steps
  <2> DEFINE v == IF step = "created" THEN "regOk" ELSE "regFail"
  <2>2. v \in Verdicts /\ (v = "regOk" <=> step = "created")
    BY DEF Verdicts
  <2> HIDE DEF v
  <2>3. /\ Len(told') = Len(told) + 1 /\ Len(told) \in Nat
        /\ told'[Len(told) + 1] = v
    BY <1>a, <2>1, <2>2, AppendProperties, LenProperties DEF v
  <2>4. told' # <<>> /\ Last(told') = v
    BY <2>3, EmptySeq DEF Last
  <2>5. v = "regOk" <=> ~HadAccount
    BY <2>1, <2>2
  <2> QED
    BY <2>1, <2>4, <2>5 DEF VerdictsAreExact
<1>9. CASE ConnectFails \/ VerifyThrows \/ CheckExistsThrows \/ CommitUnheard \/ CreateThrows
           \/ Crash \/ UseOfGarbage
  BY <1>9 DEF ConnectFails, VerifyThrows, CheckExistsThrows, CommitUnheard, CreateThrows, Throws,
     Crash, UseOfGarbage, Stops
<1>10. CASE Restart \/ UNCHANGED vars
  <2>1. UNCHANGED <<Accounts, before, cur, told, step, faulty, Account(cur)>>
    BY <1>10, <1>b DEF Restart, vars, Account
  <2> QED
    BY <2>1 DEF VerdictsAreExact
<1> QED
  BY <1>1, <1>2, <1>3, <1>4, <1>5, <1>6, <1>7, <1>8, <1>9, <1>10 DEF Next, HandleMessage

\* When nothing failed, the answer is what the tables said when the request
\* came, whatever failed and crashed in the requests before.
THEOREM VerdictsCorrect == Spec => []VerdictsAreExact
<1>1. Init => VerdictInv
  BY DEF Init, VerdictInv, Unfailed, VerdictsAreExact
<1>2. VerdictInv => VerdictsAreExact
  BY DEF VerdictInv
<1> QED
  BY <1>1, <1>2, VerdictStep, SpecInductive, PTL DEF Spec
-----------------------------------------------------------------------------
(***************************************************************************)
(* The authentication server implements AuthService.                       *)
(***************************************************************************)

\* A complete list of answers is allowed.
LEMMA CompleteAllowed ==
    ASSUME NEW req, NEW answers \in VerdictsOn(req), answers \in Seq(Verdicts)
    PROVE  Abstract!Allowed(req, answers)
<1>1. Len(answers) \in Nat
  BY LenProperties
<1> QED
  BY <1>1 DEF Abstract!Allowed, VerdictsOn, Abstract!VerdictsOn

\* The two rows of createUser appear as one account, in the step of the
\* commit; every answer is one that AuthService allows.
THEOREM Refinement == Spec => ImplementsAuthService
<1>1. Init => Abstract!Init
  BY DEF Init, Abstract!Init, Accounts, NoRequest, Abstract!NoRequest
<1>2. Inductive /\ Inductive' /\ [Next]_vars => [Abstract!Next]_(Abstract!vars)
  <2> SUFFICES ASSUME Inductive, Inductive', [Next]_vars
               PROVE  Abstract!Next \/ UNCHANGED Abstract!vars
    OBVIOUS
  <2>1. CASE \E req \in Requests : Receive(req)
    <3>1. PICK req \in Requests : Receive(req)
      BY <2>1
    <3>2. cur' = req /\ told' = <<>> /\ Accounts' = Accounts
      BY <3>1 DEF Receive, dbVars, Accounts
    <3>3. Abstract!Ask(req)
      BY <3>2 DEF Abstract!Ask
    <3> QED
      BY <3>1, <3>3 DEF Abstract!Next, Requests, Abstract!Requests
  <2>2. CASE UNCHANGED <<cur, told>>
    <3>1. CASE UNCHANGED <<users, webAuth>>
      <4>1. Accounts' = Accounts
        BY <3>1 DEF Accounts
      <4> QED
        BY <2>2, <4>1 DEF Abstract!vars
    <3>2. CASE /\ step = "commit" /\ ~UserExists /\ webAuth' = webAuth \cup {NewRow}
      <4>1. cur.type = "register"
        BY <3>2 DEF Inductive, TypeOK, RegisterSteps, Steps, Querying
      <4>2. \A a \in Accounts : a.email # cur.email
        BY <3>2 DEF Accounts, Account, UserExists
      <4>3. Account(NewRow) = Abstract!Account(cur)
        BY DEF NewRow, Account, Abstract!Account
      <4>4. Accounts' = Accounts \cup {Abstract!Account(cur)}
        BY <3>2, <4>3 DEF Accounts
      <4>5. Abstract!Create
        BY <2>2, <4>1, <4>2, <4>4 DEF Abstract!Create
      <4> QED
        BY <4>5 DEF Abstract!Next
    <3> QED
      BY <3>1, <3>2, TablesStep
  <2>3. CASE /\ UNCHANGED <<cur, users, webAuth>> /\ cur \in Requests
             /\ \E v \in Verdicts : Answers(v)
    <3>1. PICK v \in Verdicts : Answers(v)
      BY <2>3
    <3>2. Accounts' = Accounts
      BY <2>3 DEF Accounts
    <3>3. cur # Abstract!NoRequest
      BY <2>3 DEF Requests, Abstract!NoRequest
    <3>4. told' \in Seq(Verdicts)
      BY DEF Inductive, TypeOK
    <3>5. Abstract!Allowed(cur, told')
      BY <3>1, <3>4, CompleteAllowed DEF Answers
    <3>6. Account(cur) = Abstract!Account(cur)
      BY DEF Account, Abstract!Account
    <3>7. Abstract!Answer(v)
      BY <2>3, <3>1, <3>2, <3>3, <3>5, <3>6 DEF Answers, Tell, Abstract!Answer
    <3> QED
      BY <3>7 DEF Abstract!Next, Verdicts, Abstract!Verdicts
  <2> QED
    BY <2>1, <2>2, <2>3, ToldStep
<1> QED
  BY <1>1, <1>2, SpecInductive, PTL DEF Spec, ImplementsAuthService, Abstract!Spec
-----------------------------------------------------------------------------
(***************************************************************************)
(* What RequestAnswered rests on: a handler that ends has given all its    *)
(* answers, and it gets nearer to its end with each step.                  *)
(***************************************************************************)

LEMMA TellsMore ==
    ASSUME TypeOK, NEW v \in Verdicts, Tell(v)
    PROVE  told' # told
<1>1. told \in Seq(Verdicts)
  BY DEF TypeOK
<1>2. Len(told') = Len(told) + 1 /\ Len(told) \in Nat
  BY <1>1, AppendProperties DEF Tell
<1> QED
  BY <1>2

\* AuthService lets a request stop short; the handler does not, unless the
\* process ends: when it returns, its answers are complete, as ChatServer has
\* them from its peer.
THEOREM AnswersComplete ==
    Spec => [][step # "idle" /\ step' = "idle" /\ up' => told' \in VerdictsOn(cur)]_vars
<1>1. ASSUME Inductive, [Next]_vars, step # "idle", step' = "idle", up'
      PROVE  told' \in VerdictsOn(cur)
  <2>1. VerifyPassword \/ VerifyThrows \/ FinishRegister
    BY <1>1 DEF Next, vars, Receive, HandleMessage, Connect, ConnectFails, FirstQuery, CheckExists,
                CheckExistsThrows, CheckStrength, Recheck, InsertUser, InsertAuth, Commit,
                CommitUnheard, CreateThrows, OutcomeOfThrow, UseOfGarbage, Crash, Stops, Restart
  <2>2. \E v \in Verdicts : Tell(v)
    BY <2>1 DEF VerifyPassword, VerifyThrows, FinishRegister, AnswerCreate, Verdicts
  <2>3. told' # told
    BY <1>1, <2>2, TellsMore DEF Inductive
  <2>4. ~\E req \in Requests : Receive(req)
    BY <1>1 DEF Receive
  <2> QED
    BY <1>1, <2>3, <2>4, ToldStep DEF Answers
<1>2. Inductive /\ [Next]_vars =>
        [step # "idle" /\ step' = "idle" /\ up' => told' \in VerdictsOn(cur)]_vars
  BY <1>1
<1> QED
  BY <1>2, SpecInductive, PTL DEF Spec

\* The longest way to the end of the handler.
StepsLeft ==
    CASE step = "connect"                         -> 8
      [] step = "exists"                          -> 7
      [] step = "strength"                        -> 6
      [] step = "recheck"                         -> 5
      [] step = "insertUser"                      -> 4
      [] step = "insertAuth"                      -> 3
      [] step = "commit"                          -> 2
      [] step \in {"verify", "created", "refused"} -> 1
      [] step = "idle"                            -> 0

\* The safety half of RequestAnswered: whatever throws, no branch of the
\* handler leads back, so it takes at most eight steps.
THEOREM HandlerAdvances ==
    Spec => [][HandleMessage => StepsLeft \in 1..8 /\ StepsLeft' < StepsLeft]_vars
<1>1. ASSUME HandleMessage
      PROVE  StepsLeft \in 1..8 /\ StepsLeft' < StepsLeft
  <2>1. CASE Connect \/ ConnectFails
    <3>1. step = "connect" /\ step' \in {"verify", "exists"}
      BY <2>1 DEF Connect, ConnectFails, At, FirstQuery
    <3> QED
      BY <3>1 DEF StepsLeft
  <2>2. CASE VerifyPassword \/ VerifyThrows
    <3>1. step = "verify" /\ step' = "idle"
      BY <2>2 DEF VerifyPassword, VerifyThrows, Returns, Throws, At, AfterLogin
    <3> QED
      BY <3>1 DEF StepsLeft
  <2>3. CASE CheckExists \/ CheckExistsThrows
    <3>1. step = "exists" /\ step' = "strength"
      BY <2>3 DEF CheckExists, CheckExistsThrows, Returns, Throws, At
    <3> QED
      BY <3>1 DEF StepsLeft
  <2>4. CASE CheckStrength
    <3>1. step = "strength" /\ step' = "recheck"
      BY <2>4 DEF CheckStrength, At
    <3> QED
      BY <3>1 DEF StepsLeft
  <2>5. CASE Recheck
    <3>1. step = "recheck" /\ step' \in {"refused", "insertUser"}
      BY <2>5 DEF Recheck, Returns, At
    <3> QED
      BY <3>1 DEF StepsLeft
  <2>6. CASE InsertUser
    <3>1. step = "insertUser" /\ step' = "insertAuth"
      BY <2>6 DEF InsertUser, Returns, At
    <3> QED
      BY <3>1 DEF StepsLeft
  <2>7. CASE InsertAuth
    <3>1. step = "insertAuth" /\ step' = "commit"
      BY <2>7 DEF InsertAuth, Returns, At
    <3> QED
      BY <3>1 DEF StepsLeft
  <2>8. CASE Commit
    <3>1. step = "commit" /\ step' = "created"
      BY <2>8 DEF Commit, Returns, At
    <3> QED
      BY <3>1 DEF StepsLeft
  <2>9. CASE CommitUnheard \/ CreateThrows
    <3>1. step \in {"recheck", "insertUser", "insertAuth", "commit"} /\ step' = "refused"
      BY <2>9 DEF CommitUnheard, CreateThrows, OutcomeOfThrow, Throws, At
    <3>2. CASE step = "recheck"
      BY <3>1, <3>2 DEF StepsLeft
    <3>3. CASE step = "insertUser"
      BY <3>1, <3>3 DEF StepsLeft
    <3>4. CASE step = "insertAuth"
      BY <3>1, <3>4 DEF StepsLeft
    <3>5. CASE step = "commit"
      BY <3>1, <3>5 DEF StepsLeft
    <3> QED
      BY <3>1, <3>2, <3>3, <3>4, <3>5
  <2>10. CASE FinishRegister
    <3>1. step \in {"created", "refused"} /\ step' = "idle"
      BY <2>10 DEF FinishRegister, At
    <3>2. CASE step = "created"
      BY <3>1, <3>2 DEF StepsLeft
    <3>3. CASE step = "refused"
      BY <3>1, <3>3 DEF StepsLeft
    <3> QED
      BY <3>1, <3>2, <3>3
  <2>11. CASE UseOfGarbage
    <3>1. step \in Querying /\ step' = "idle"
      BY <2>11 DEF UseOfGarbage, Stops
    <3>2. CASE step = "verify"
      BY <3>1, <3>2 DEF StepsLeft
    <3>3. CASE step = "exists"
      BY <3>1, <3>3 DEF StepsLeft
    <3>4. CASE step = "recheck"
      BY <3>1, <3>4 DEF StepsLeft
    <3>5. CASE step = "insertUser"
      BY <3>1, <3>5 DEF StepsLeft
    <3>6. CASE step = "insertAuth"
      BY <3>1, <3>6 DEF StepsLeft
    <3>7. CASE step = "commit"
      BY <3>1, <3>7 DEF StepsLeft
    <3> QED
      BY <3>1, <3>2, <3>3, <3>4, <3>5, <3>6, <3>7 DEF Querying
  <2> QED
    BY <1>1, <2>1, <2>2, <2>3, <2>4, <2>5, <2>6, <2>7, <2>8, <2>9, <2>10, <2>11 DEF HandleMessage
<1>2. [Next]_vars => [HandleMessage => StepsLeft \in 1..8 /\ StepsLeft' < StepsLeft]_vars
  BY <1>1
<1> QED
  BY <1>2, PTL DEF Spec
=============================================================================
