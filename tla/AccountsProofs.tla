--------------------------- MODULE AccountsProofs ---------------------------
(***************************************************************************)
(* Proofs about platform accounts, for any number of identities, emails,   *)
(* sessions and requests in flight: the trade account of a sign-up is      *)
(* opened once, sessions are logged once per switch, and the two stores    *)
(* tell the same of every person but for what a failed call or overlapping *)
(* updates left apart.                                                     *)
(***************************************************************************)
EXTENDS Accounts, Sums, TLAPS

Request == {Idle} \cup Resolving \cup Recording \cup Inviting \cup Creating \cup Updating

WithToken == {"PROVISION", "TRADE", "RECORD", "LOG", "FOLLOW"}
WithRow   == {"TRADE", "RECORD", "LOG", "FOLLOW"}

\* What a request is, by its operation.
LEMMA ByOp ==
  ASSUME TypeOK, NEW r \in Requests
  PROVE  /\ req[r] \in Request
         /\ req[r].op = "IDLE" => req[r] = Idle
         /\ req[r].op = "PROVISION" => req[r] \in Resolving
         /\ req[r].op \in WithRow => req[r] \in Recording
         /\ req[r].op = "INVITE" => req[r] \in Inviting
         /\ req[r].op \in {"CREATE", "CLEAN_UP"} => req[r] \in Creating
         /\ req[r].op \in {"SUSPEND", "UPDATE"} => req[r] \in Updating
  <1>1. req[r] \in Request
    BY DEF TypeOK, Request
  <1>2. CASE req[r] = Idle
    BY <1>1, <1>2 DEF Idle, WithRow
  <1>3. CASE req[r] \in Resolving
    BY <1>1, <1>3 DEF Resolving, WithRow
  <1>4. CASE req[r] \in Recording
    BY <1>1, <1>4 DEF Recording, WithRow
  <1>5. CASE req[r] \in Inviting
    BY <1>1, <1>5 DEF Inviting, WithRow
  <1>6. CASE req[r] \in Creating
    BY <1>1, <1>6 DEF Creating, WithRow
  <1>7. CASE req[r] \in Updating
    BY <1>1, <1>7 DEF Updating, WithRow
  <1> QED BY <1>1, <1>2, <1>3, <1>4, <1>5, <1>6, <1>7 DEF Request

\* The next request of a slot keeps the others.
LEMMA Continued ==
  ASSUME TypeOK, NEW r \in Requests, NEW next \in Request, Continue(r, next)
  PROVE  /\ req' \in [Requests -> Request] /\ req'[r] = next
         /\ \A q \in Requests : q # r => req'[q] = req[q]
  BY DEF TypeOK, Request, Continue

LEMMA WithIsARequest ==
  ASSUME TypeOK, NEW r \in Requests, req[r].op \in {"PROVISION"} \cup WithRow,
         NEW op \in WithRow, NEW row, row.email \in Emails, row.session \in Sessions \cup {NoSession}
  PROVE  /\ With(r, op, row) \in Request /\ With(r, op, row).op = op
         /\ With(r, op, row).token = req[r].token /\ With(r, op, row).session = req[r].session
         /\ With(r, op, row).read.session = row.session
  <1>1. req[r].token \in Token /\ req[r].session \in Sessions
    BY ByOp DEF Resolving, Recording
  <1>2. With(r, op, row) \in Recording
    BY <1>1 DEF With, Recording, WithRow, Row
  <1> QED BY <1>2 DEF With, Request

LEMMA AccountsTyped ==
  ASSUME TypeOK, NEW i \in Ids, HasAccount(i)
  PROVE  account[i] \in Account
  BY DEF TypeOK, HasAccount

\* A record with a field changed is still one of its kind.
LEMMA AccountChanges ==
  ASSUME NEW a \in Account
  PROVE  /\ \A s \in Sessions : [a EXCEPT !.session = s] \in Account
         /\ \A e \in Emails : [a EXCEPT !.email = e] \in Account
         /\ \A b \in BOOLEAN : [a EXCEPT !.active = b] \in Account
  BY DEF Account

LEMMA NewAccountTyped ==
  ASSUME NEW e \in Emails
  PROVE  NewAccount(e) \in Account /\ NewAccount(e).active /\ NewAccount(e).session = NoSession
         /\ NewAccount(e).email = e
  BY DEF NewAccount, Account

LEMMA IdentityChanges ==
  ASSUME NEW d \in Identity
  PROVE  /\ \A e \in Emails : [d EXCEPT !.email = e] \in Identity
         /\ \A b \in BOOLEAN : [d EXCEPT !.banned = b] \in Identity
         /\ [d EXCEPT !.state = "DELETED", !.email = NoEmail, !.banned = FALSE] \in Identity
  BY DEF Identity

LEMMA IdentityInserted ==
  ASSUME TypeOK, NEW i \in Ids, NEW e \in Emails, NEW business \in BOOLEAN, NEW invited \in BOOLEAN,
         NewIdentity(i, e, business, invited)
  PROVE  /\ identity' \in [Ids -> Identity] /\ identity[i].state = "NONE"
         /\ identity'[i].email = e /\ identity'[i].state = "LIVE" /\ identity'[i].banned = FALSE
         /\ identity'[i].business = business /\ identity'[i].invited = invited
         /\ \A j \in Ids : j # i => identity'[j] = identity[j]
  BY DEF NewIdentity, TypeOK, Identity

-----------------------------------------------------------------------------
(* What is known of the ids, the tokens and the requests in flight.        *)

RequestKnown(r) ==
  /\ req[r].op \in {"PROVISION"} \cup WithRow
     => /\ token[req[r].session] # NoToken
        /\ token[req[r].session].id = req[r].token.id
  /\ req[r].op \in WithRow => HasAccount(req[r].token.id)
  /\ req[r].op \in {"CREATE", "CLEAN_UP"}
     => identity[req[r].id].state # "NONE" /\ ~identity[req[r].id].business
  /\ req[r].op \in {"SUSPEND", "UPDATE"} => HasAccount(req[r].id)

Known ==
  /\ \A i \in Ids : /\ Live(i) => identity[i].email \in Emails
                    /\ HasAccount(i) => identity[i].state # "NONE"
  /\ \A s \in Sessions : token[s] # NoToken => identity[token[s].id].state # "NONE"
  /\ \A r \in Requests : RequestKnown(r)

\* Identities stay what they are and accounts are never removed; a session
\* stays that of one identity.
Grown ==
  /\ \A i \in Ids :
       /\ HasAccount(i) => HasAccount(i)'
       /\ HasAccount(i)' => HasAccount(i) \/ identity[i].state # "NONE"
       /\ identity[i].state # "NONE" => identity'[i].state # "NONE"
                                        /\ identity'[i].business = identity[i].business
       /\ Live(i)' => identity'[i].email \in Emails
  /\ \A s \in Sessions :
       /\ token[s] # NoToken => token'[s] # NoToken /\ token'[s].id = token[s].id
       /\ token'[s] # NoToken => token[s] # NoToken \/ identity[token'[s].id].state # "NONE"

\* What one request does leaves the others as they are.
LEMMA OthersKnown ==
  ASSUME TypeOK, Known, TypeOK', Grown, NEW q \in Requests, req'[q] = req[q]
  PROVE  RequestKnown(q)'
  <1>1. RequestKnown(q)
    BY DEF Known
  <1>2. CASE req[q].op \in {"PROVISION"} \cup WithRow
    <2>1. req[q].session \in Sessions /\ req[q].token.id \in Ids
      BY <1>2, ByOp DEF Resolving, Recording, Token
    <2> QED BY <1>1, <1>2, <2>1 DEF RequestKnown, Grown, WithRow
  <1>3. CASE req[q].op \in {"CREATE", "CLEAN_UP", "SUSPEND", "UPDATE"}
    <2>1. req[q].id \in Ids
      BY <1>3, ByOp DEF Creating, Updating
    <2> QED BY <1>1, <1>3, <2>1 DEF RequestKnown, Grown, WithRow
  <1>4. CASE req[q].op \notin {"PROVISION", "CREATE", "CLEAN_UP", "SUSPEND", "UPDATE"} \cup WithRow
    BY <1>4 DEF RequestKnown
  <1> QED BY <1>2, <1>3, <1>4

LEMMA KnownFollows ==
  ASSUME TypeOK, Known, TypeOK', Grown,
         \A r \in Requests : req'[r] = req[r] \/ RequestKnown(r)'
  PROVE  Known'
  <1>1. \A i \in Ids : HasAccount(i)' => identity'[i].state # "NONE"
    BY DEF Known, Grown
  <1>2. ASSUME NEW s \in Sessions, token'[s] # NoToken PROVE identity'[token'[s].id].state # "NONE"
    <2>1. token'[s].id \in Ids
      BY <1>2 DEF TypeOK, Token
    <2>2. CASE token[s] # NoToken
      BY <1>2, <2>1, <2>2 DEF Known, Grown
    <2> QED BY <1>2, <2>1, <2>2 DEF Grown
  <1>3. \A r \in Requests : RequestKnown(r)'
    BY OthersKnown
  <1> QED BY <1>1, <1>2, <1>3 DEF Known, Grown

-----------------------------------------------------------------------------
(* Type correctness and Known, step by step.                               *)

LEMMA SupabaseKnown ==
  ASSUME TypeOK, Known, Supabase
  PROVE  TypeOK' /\ Grown /\ req' = req
  <1> USE DEF TypeOK
  <1>1. ASSUME NEW i \in Ids, NEW e \in Emails, NEW b \in BOOLEAN, SignUp(i, e, b)
        PROVE  TypeOK' /\ Grown /\ req' = req
    <2>1. /\ identity' \in [Ids -> Identity] /\ identity[i].state = "NONE" /\ identity'[i].email = e
          /\ \A j \in Ids : j # i => identity'[j] = identity[j]
          /\ UNCHANGED <<token, account, trades, logins, updates, unremoved, req>>
      BY <1>1 DEF SignUp, NewIdentity, Identity
    <2>2. TypeOK'
      BY <2>1
    <2>3. Grown
      BY <2>1 DEF Grown, Live, HasAccount, Known
    <2> QED BY <2>1, <2>2, <2>3
  <1>2. ASSUME NEW i \in Ids, NEW s \in Sessions, IssueToken(i, s) PROVE TypeOK' /\ Grown /\ req' = req
    <2>1. identity[i].email \in Emails /\ identity[i].state # "NONE"
      BY <1>2 DEF IssueToken, Live, Known
    <2>2. [id |-> i, email |-> identity[i].email] \in Token
      BY <2>1 DEF Token
    <2>3. token[s] # NoToken => token[s].id = i
      BY <1>2 DEF IssueToken
    <2>4. TypeOK'
      BY <1>2, <2>2 DEF IssueToken
    <2>5. Grown
      BY <1>2, <2>1, <2>2, <2>3, AccountNothing DEF IssueToken, Grown, Live, HasAccount, Known
    <2> QED BY <1>2, <2>4, <2>5 DEF IssueToken
  <1>3. ASSUME NEW i \in Ids, NEW e \in Emails, ChangeEmail(i, e) PROVE TypeOK' /\ Grown /\ req' = req
    <2>1. identity' \in [Ids -> Identity]
      BY <1>3, IdentityChanges DEF ChangeEmail
    <2>2. \A j \in Ids : /\ identity'[j].state = identity[j].state
                         /\ identity'[j].business = identity[j].business
                         /\ identity'[j].email \in {identity[j].email, e}
      BY <1>3 DEF ChangeEmail, Identity
    <2> QED BY <1>3, <2>1, <2>2 DEF ChangeEmail, Grown, Live, HasAccount, Known
  <1> QED BY <1>1, <1>2, <1>3 DEF Supabase

LEMMA EndedTyped ==
  ASSUME TypeOK, NEW i \in Ids, NEW how \in Went, Ended(i, how)
  PROVE  /\ updates' \in [Ids -> Went]
         /\ \A j \in Ids : j # i => updates'[j] = updates[j]
         /\ updates'[i] = IF updates[i] = "OVERLAPPED" THEN "OVERLAPPED" ELSE how
  BY DEF TypeOK, Ended

\* The steps that touch neither store: they go on to another operation.
LEMMA OnlyTheRequest ==
  ASSUME TypeOK, Known, NEW r \in Requests, NEW next \in Request, Continue(r, next),
         UNCHANGED <<identity, token, account>>,
         trades' \in [Ids -> Nat], logins' \in [Sessions -> 0..MaxLogins],
         updates' \in [Ids -> Went], unremoved' \subseteq Ids
  PROVE  TypeOK' /\ Grown
  BY Continued DEF TypeOK, Request, Grown, Known, Live, HasAccount

LEMMA BeginKnown ==
  ASSUME TypeOK, Known, NEW r \in Requests, Begin(r)
  PROVE  TypeOK' /\ Grown /\ RequestKnown(r)' /\ \A q \in Requests \ {r} : req'[q] = req[q]
  <1>0. Idle \in Request
    BY DEF Request
  <1>1. ASSUME NEW s \in Sessions, BeginResolve(r, s)
        PROVE  TypeOK' /\ Grown /\ RequestKnown(r)' /\ \A q \in Requests \ {r} : req'[q] = req[q]
    <2> DEFINE i == token[s].id
    <2>1. token[s] \in Token /\ i \in Ids
      BY <1>1 DEF BeginResolve, TypeOK, Token
    <2>2. CASE HasAccount(i)
      <3> DEFINE next == [op |-> "RECORD", token |-> token[s], session |-> s,
                          read |-> [email |-> account[i].email, session |-> account[i].session]]
      <3>1. account[i] \in Account
        BY <2>1, <2>2, AccountsTyped
      <3>2. next \in Request
        BY <2>1, <3>1 DEF Request, Recording, Row, Account
      <3>3. Continue(r, next)
        BY <1>1, <2>2 DEF BeginResolve
      <3>4. TypeOK' /\ Grown /\ req'[r] = next /\ \A q \in Requests \ {r} : req'[q] = req[q]
        BY <1>1, <3>2, <3>3, OnlyTheRequest, Continued DEF BeginResolve, TypeOK
      <3>5. RequestKnown(r)'
        BY <1>1, <2>2, <3>4 DEF BeginResolve, RequestKnown, HasAccount
      <3> QED BY <3>4, <3>5
    <2>3. CASE ~HasAccount(i)
      <3> DEFINE next == [op |-> "PROVISION", token |-> token[s], session |-> s]
      <3>2. next \in Request
        BY <2>1 DEF Request, Resolving
      <3>3. Continue(r, next)
        BY <1>1, <2>3 DEF BeginResolve
      <3>4. TypeOK' /\ Grown /\ req'[r] = next /\ \A q \in Requests \ {r} : req'[q] = req[q]
        BY <1>1, <3>2, <3>3, OnlyTheRequest, Continued DEF BeginResolve, TypeOK
      <3>5. RequestKnown(r)'
        BY <1>1, <3>4 DEF BeginResolve, RequestKnown, WithRow
      <3> QED BY <3>4, <3>5
    <2> QED BY <2>2, <2>3
  <1>2. ASSUME NEW e \in Emails, BeginInvite(r, e)
        PROVE  TypeOK' /\ Grown /\ RequestKnown(r)' /\ \A q \in Requests \ {r} : req'[q] = req[q]
    <2> DEFINE next == [op |-> "INVITE", email |-> e]
    <2>1. next \in Request /\ Continue(r, next)
      BY <1>2 DEF BeginInvite, Request, Inviting
    <2>2. TypeOK' /\ Grown /\ req'[r] = next /\ \A q \in Requests \ {r} : req'[q] = req[q]
      BY <1>2, <2>1, OnlyTheRequest, Continued DEF BeginInvite, TypeOK
    <2>3. RequestKnown(r)'
      BY <2>2 DEF RequestKnown, WithRow
    <2> QED BY <2>2, <2>3
  <1>3. ASSUME NEW i \in Managed, NEW active \in BOOLEAN, BeginUpdate(r, i, active)
        PROVE  TypeOK' /\ Grown /\ RequestKnown(r)' /\ \A q \in Requests \ {r} : req'[q] = req[q]
    <2> DEFINE next == [op |-> "SUSPEND", id |-> i, active |-> active]
    <2>0. i \in Ids
      BY AccountConstants
    <2>1. next \in Request /\ Continue(r, next)
      BY <1>3, <2>0 DEF BeginUpdate, Request, Updating
    <2>a. updates' \in [Ids -> Went]
      BY <1>3, <2>0 DEF BeginUpdate, TypeOK, Went
    <2>2. TypeOK' /\ Grown /\ req'[r] = next /\ \A q \in Requests \ {r} : req'[q] = req[q]
      BY <1>3, <2>1, <2>a, OnlyTheRequest, Continued DEF BeginUpdate, TypeOK
    <2>3. RequestKnown(r)'
      BY <1>3, <2>2 DEF BeginUpdate, RequestKnown, WithRow, HasAccount
    <2> QED BY <2>2, <2>3
  <1> QED BY <1>1, <1>2, <1>3 DEF Begin

\* An account written by a request that holds its row.
Written(i, row) == account' = [account EXCEPT ![i] = row]

LEMMA AccountUpdated ==
  ASSUME TypeOK, Known, NEW r \in Requests, NEW next \in Request, Continue(r, next),
         NEW i \in Ids, identity[i].state # "NONE", NEW row \in Account, Written(i, row),
         UNCHANGED <<identity, token, trades, logins, unremoved>>, updates' \in [Ids -> Went]
  PROVE  /\ TypeOK' /\ Grown /\ HasAccount(i)' /\ account'[i] = row
         /\ req'[r] = next /\ \A q \in Requests \ {r} : req'[q] = req[q]
  <1>1. /\ account' \in [Ids -> Account \cup {NoAccount}] /\ account'[i] = row
        /\ \A j \in Ids : j # i => account'[j] = account[j]
    BY DEF TypeOK, Written
  <1>2. row # NoAccount
    BY AccountNothing
  <1>3. TypeOK'
    BY <1>1, Continued DEF TypeOK, Request
  <1>4. Grown
    BY <1>1, <1>2 DEF Grown, Known, Live, HasAccount
  <1> QED BY <1>1, <1>2, <1>3, <1>4, Continued DEF HasAccount

LEMMA AccountWritten ==
  ASSUME TypeOK, Known, NEW r \in Requests, NEW next \in Request, Continue(r, next),
         NEW i \in Ids, identity[i].state # "NONE", NEW row \in Account, Written(i, row),
         UNCHANGED <<identity, token, trades, logins, updates, unremoved>>
  PROVE  /\ TypeOK' /\ Grown /\ HasAccount(i)' /\ account'[i] = row
         /\ req'[r] = next /\ \A q \in Requests \ {r} : req'[q] = req[q]
  BY AccountUpdated DEF TypeOK

LEMMA ProvisionKnown ==
  ASSUME TypeOK, Known, NEW r \in Requests, Provision(r)
  PROVE  TypeOK' /\ Grown /\ RequestKnown(r)' /\ \A q \in Requests \ {r} : req'[q] = req[q]
  <1>0. req[r].token.id \in Ids
    BY ByOp DEF Provision, Resolving, Token
  <1> PICK i \in Ids : i = req[r].token.id
    BY <1>0
  <1>1. /\ req[r].op = "PROVISION" /\ req[r].session \in Sessions /\ req[r].token \in Token
        /\ i \in Ids /\ token[req[r].session] # NoToken /\ token[req[r].session].id = i
    BY ByOp DEF Provision, Resolving, Token, Known, RequestKnown
  <1>2. identity[i].state # "NONE"
    BY <1>1 DEF Known
  <1>3. ProvisionEmails(r) \subseteq Emails
    BY <1>1 DEF ProvisionEmails, Known, Token
  <1>4. PICK e \in ProvisionEmails(r) :
          \/ /\ ~HasAccount(i) /\ AccountWith(e) = {}
             /\ account' = [account EXCEPT ![i] = NewAccount(e)]
             /\ Continue(r, AfterInsert(r, i, NewAccount(e)))
          \/ /\ HasAccount(i) /\ UNCHANGED account
             /\ Continue(r, AfterConflict(r, i, account[i]))
          \/ End(r) /\ UNCHANGED account
    BY DEF Provision
  <1>5. e \in Emails /\ UNCHANGED <<identity, token, trades, logins, updates, unremoved>>
    BY <1>3, <1>4 DEF Provision
  <1>6. CASE ~HasAccount(i) /\ account' = [account EXCEPT ![i] = NewAccount(e)]
             /\ Continue(r, AfterInsert(r, i, NewAccount(e)))
    <2> DEFINE next == AfterInsert(r, i, NewAccount(e))
    <2>1. /\ next \in Request /\ next.op \in WithRow /\ next.token = req[r].token
          /\ next.session = req[r].session
      BY <1>1, <1>5, WithIsARequest, NewAccountTyped DEF AfterInsert, WithRow
    <2>4. Continue(r, next) /\ NewAccount(e) \in Account /\ Written(i, NewAccount(e))
      BY <1>5, <1>6, NewAccountTyped DEF Written
    <2> HIDE DEF next
    <2>2. /\ TypeOK' /\ Grown /\ HasAccount(i)' /\ req'[r] = next
          /\ \A q \in Requests \ {r} : req'[q] = req[q]
      BY <1>1, <1>2, <1>5, <1>6, <2>1, <2>4, AccountWritten
    <2>3. RequestKnown(r)'
      BY <1>1, <1>5, <2>1, <2>2 DEF RequestKnown, WithRow
    <2> QED BY <2>2, <2>3
  <1>7. CASE HasAccount(i) /\ UNCHANGED account /\ Continue(r, AfterConflict(r, i, account[i]))
    <2> DEFINE next == AfterConflict(r, i, account[i])
    <2>1. /\ next \in Request /\ next.op \in WithRow /\ next.token = req[r].token
          /\ next.session = req[r].session
      BY <1>1, <1>7, WithIsARequest, AccountsTyped DEF AfterConflict, WithRow, Account
    <2> HIDE DEF next
    <2>2. TypeOK' /\ Grown /\ req'[r] = next /\ \A q \in Requests \ {r} : req'[q] = req[q]
      BY <1>5, <1>7, <2>1, OnlyTheRequest, Continued DEF TypeOK, next
    <2>3. RequestKnown(r)'
      BY <1>1, <1>5, <1>7, <2>1, <2>2 DEF RequestKnown, WithRow, HasAccount
    <2> QED BY <2>2, <2>3
  <1>8. CASE End(r) /\ UNCHANGED account
    <2>1. Idle \in Request /\ Continue(r, Idle)
      BY <1>8 DEF Request, End
    <2>2. TypeOK' /\ Grown /\ req'[r] = Idle /\ \A q \in Requests \ {r} : req'[q] = req[q]
      BY <1>5, <1>8, <2>1, OnlyTheRequest, Continued DEF TypeOK
    <2>3. RequestKnown(r)'
      BY <2>2 DEF RequestKnown, WithRow, Idle
    <2> QED BY <2>2, <2>3
  <1> QED BY <1>4, <1>6, <1>7, <1>8

\* recordSession: three steps of a request that holds a row it has read.
LEMMA SessionKnown ==
  ASSUME TypeOK, Known, NEW r \in Requests,
         OpenTradeAccount(r) \/ RecordSession(r) \/ LogLogin(r) \/ FollowEmail(r)
  PROVE  TypeOK' /\ Grown /\ RequestKnown(r)' /\ \A q \in Requests \ {r} : req'[q] = req[q]
  <1>0. req[r].token.id \in Ids /\ req[r].session \in Sessions
    BY ByOp DEF OpenTradeAccount, RecordSession, LogLogin, FollowEmail, WithRow, Recording, Token
  <1> PICK i \in Ids, s \in Sessions : i = req[r].token.id /\ s = req[r].session
    BY <1>0
  <1> DEFINE row == [req[r].read EXCEPT !.session = s]
  <1>1. /\ req[r].op \in WithRow /\ s \in Sessions /\ req[r].token \in Token /\ req[r].read \in Row
        /\ i \in Ids /\ token[s] # NoToken /\ token[s].id = i /\ HasAccount(i)
    BY ByOp DEF OpenTradeAccount, RecordSession, LogLogin, FollowEmail, WithRow, Recording, Token,
       Known, RequestKnown
  <1>2. identity[i].state # "NONE" /\ account[i] \in Account
    BY <1>1, AccountsTyped DEF Known
  <1>3. /\ req[r].read.email \in Emails /\ req[r].read.session \in Sessions \cup {NoSession}
        /\ row.email \in Emails /\ row.session = s
    BY <1>1 DEF Row
  <1>4. \A op \in WithRow : \A x \in {req[r].read, row} :
          /\ With(r, op, x) \in Request /\ With(r, op, x).op = op
          /\ With(r, op, x).token = req[r].token /\ With(r, op, x).session = s
    <2> HIDE DEF row
    <2> SUFFICES ASSUME NEW op \in WithRow, NEW x, x = req[r].read \/ x = row
                 PROVE  /\ With(r, op, x) \in Request /\ With(r, op, x).op = op
                        /\ With(r, op, x).token = req[r].token /\ With(r, op, x).session = s
      OBVIOUS
    <2>1. x.email \in Emails /\ x.session \in Sessions \cup {NoSession}
      BY <1>1, <1>3
    <2> QED BY <1>1, <2>1, WithIsARequest
  <1> HIDE DEF row
  <1>5. ASSUME NEW op \in WithRow, NEW x \in {req[r].read, row},
               TypeOK', Grown, HasAccount(i)', token' = token, req'[r] = With(r, op, x)
        PROVE  RequestKnown(r)'
    BY <1>1, <1>4, <1>5 DEF RequestKnown, WithRow
  <1>6. CASE OpenTradeAccount(r)
    <2>1. trades' \in [Ids -> Nat]
      BY <1>1, <1>6 DEF OpenTradeAccount, TypeOK
    <2>2. Continue(r, With(r, "RECORD", req[r].read)) /\ "RECORD" \in WithRow
      BY <1>6 DEF OpenTradeAccount, WithRow
    <2>3. /\ TypeOK' /\ Grown /\ req'[r] = With(r, "RECORD", req[r].read)
          /\ \A q \in Requests \ {r} : req'[q] = req[q]
      BY <1>4, <1>6, <2>1, <2>2, OnlyTheRequest, Continued DEF OpenTradeAccount, TypeOK
    <2> QED BY <1>1, <1>5, <1>6, <2>2, <2>3 DEF OpenTradeAccount, HasAccount
  <1>7. CASE RecordSession(r)
    <2>1. /\ UNCHANGED <<identity, token, trades, logins, updates, unremoved>>
          /\ \/ /\ account' = [account EXCEPT ![i].session = s] /\ Continue(r, With(r, "LOG", row))
             \/ /\ account' = account /\ Continue(r, With(r, "FOLLOW", row))
      BY <1>7 DEF RecordSession, row
    <2>2. CASE account' = account /\ Continue(r, With(r, "FOLLOW", row))
      <3>1. "FOLLOW" \in WithRow
        BY DEF WithRow
      <3>2. /\ TypeOK' /\ Grown /\ req'[r] = With(r, "FOLLOW", row)
            /\ \A q \in Requests \ {r} : req'[q] = req[q]
        BY <1>4, <2>1, <2>2, <3>1, OnlyTheRequest, Continued DEF TypeOK
      <3> QED BY <1>1, <1>5, <2>1, <2>2, <3>1, <3>2 DEF HasAccount
    <2>3. CASE account' = [account EXCEPT ![i].session = s] /\ Continue(r, With(r, "LOG", row))
      <3>1. "LOG" \in WithRow
        BY DEF WithRow
      <3>2. [account[i] EXCEPT !.session = s] \in Account
        BY <1>1, <1>2, AccountChanges
      <3>3. account' = [account EXCEPT ![i] = [account[i] EXCEPT !.session = s]]
        BY <2>3
      <3>4. /\ TypeOK' /\ Grown /\ HasAccount(i)' /\ req'[r] = With(r, "LOG", row)
            /\ \A q \in Requests \ {r} : req'[q] = req[q]
        <4>1. PICK next \in Request : next = With(r, "LOG", row)
          BY <1>4, <3>1
        <4>2. PICK new \in Account : new = [account[i] EXCEPT !.session = s]
          BY <3>2
        <4>3. Continue(r, next) /\ Written(i, new)
          BY <2>3, <3>3, <4>1, <4>2 DEF Written
        <4>4. UNCHANGED <<identity, token, trades, logins, updates, unremoved>>
          BY <2>1
        <4> QED BY <1>2, <4>1, <4>3, <4>4, AccountWritten
      <3> QED BY <1>5, <2>1, <3>1, <3>4
    <2> QED BY <2>1, <2>2, <2>3
  <1>8. CASE LogLogin(r)
    <2>1. logins' \in [Sessions -> 0..MaxLogins]
      BY <1>1, <1>8, AccountConstants DEF LogLogin, TypeOK
    <2>2. Continue(r, With(r, "FOLLOW", req[r].read)) /\ "FOLLOW" \in WithRow
      BY <1>8 DEF LogLogin, WithRow
    <2>3. /\ TypeOK' /\ Grown /\ req'[r] = With(r, "FOLLOW", req[r].read)
          /\ \A q \in Requests \ {r} : req'[q] = req[q]
      BY <1>4, <1>8, <2>1, <2>2, OnlyTheRequest, Continued DEF LogLogin, TypeOK
    <2> QED BY <1>1, <1>5, <1>8, <2>2, <2>3 DEF LogLogin, HasAccount
  <1>9. CASE FollowEmail(r)
    <2>1. Followed(r) \in Emails
      BY <1>1, <1>2 DEF Followed, Token, Account
    <2>2. [account[i] EXCEPT !.email = Followed(r)] \in Account
      BY <1>2, <2>1, AccountChanges
    <2>3. /\ Written(i, [account[i] EXCEPT !.email = Followed(r)])
          /\ Idle \in Request /\ Continue(r, Idle)
          /\ UNCHANGED <<identity, token, trades, logins, updates, unremoved>>
      BY <1>9 DEF FollowEmail, Request, End, Written
    <2>4. /\ TypeOK' /\ Grown /\ req'[r] = Idle
          /\ \A q \in Requests \ {r} : req'[q] = req[q]
      BY <1>1, <1>2, <2>2, <2>3, AccountWritten
    <2>5. RequestKnown(r)'
      BY <2>4 DEF RequestKnown, WithRow, Idle
    <2> QED BY <2>4, <2>5
  <1> QED BY <1>6, <1>7, <1>8, <1>9

\* Invitations: the identity first, the account second, the clean-up last.
LEMMA InvitationKnown ==
  ASSUME TypeOK, Known, NEW r \in Requests,
         InviteIdentity(r) \/ CreateAccount(r) \/ DeleteIdentity(r)
  PROVE  TypeOK' /\ Grown /\ RequestKnown(r)' /\ \A q \in Requests \ {r} : req'[q] = req[q]
  <1>1. ASSUME Continue(r, Idle), UNCHANGED <<identity, token, account, trades, logins, updates>>,
               unremoved' \subseteq Ids
        PROVE  TypeOK' /\ Grown /\ RequestKnown(r)' /\ \A q \in Requests \ {r} : req'[q] = req[q]
    <2>1. Idle \in Request
      BY DEF Request
    <2>2. TypeOK' /\ Grown /\ req'[r] = Idle /\ \A q \in Requests \ {r} : req'[q] = req[q]
      BY <1>1, <2>1, OnlyTheRequest, Continued DEF TypeOK
    <2> QED BY <2>2 DEF RequestKnown, WithRow, Idle
  <1>2. CASE InviteIdentity(r)
    <2>1. CASE End(r) /\ UNCHANGED identity
      BY <1>1, <1>2, <2>1 DEF InviteIdentity, End, TypeOK
    <2>2. ASSUME NEW i \in Ids, NewIdentity(i, req[r].email, FALSE, TRUE),
                 NEW next \in {Idle, [op |-> "CREATE", id |-> i, email |-> req[r].email]},
                 Continue(r, next), unremoved' \in {unremoved, unremoved \cup {i}}
          PROVE  TypeOK' /\ Grown /\ RequestKnown(r)' /\ \A q \in Requests \ {r} : req'[q] = req[q]
      <3>1. req[r].email \in Emails
        BY <1>2, ByOp DEF InviteIdentity, Inviting
      <3>2. next \in Request
        BY <3>1 DEF Request, Creating
      <3>3. /\ identity' \in [Ids -> Identity] /\ identity[i].state = "NONE"
            /\ identity'[i].state = "LIVE" /\ ~identity'[i].business
            /\ identity'[i].email = req[r].email
            /\ \A j \in Ids : j # i => identity'[j] = identity[j]
        BY <2>2, <3>1 DEF NewIdentity, Identity, TypeOK
      <3>4. UNCHANGED <<token, account, trades, logins, updates>> /\ unremoved' \subseteq Ids
        BY <1>2, <2>2 DEF InviteIdentity, TypeOK
      <3>5. /\ req' \in [Requests -> Request] /\ req'[r] = next
            /\ \A q \in Requests \ {r} : req'[q] = req[q]
        BY <2>2, <3>2, Continued
      <3>6. TypeOK'
        BY <3>3, <3>4, <3>5 DEF TypeOK, Request
      <3>7. Grown
        BY <3>1, <3>3, <3>4 DEF Grown, Live, HasAccount, Known
      <3>8. RequestKnown(r)'
        BY <3>3, <3>5 DEF RequestKnown, WithRow, Idle
      <3> QED BY <3>5, <3>6, <3>7, <3>8
    <2> QED BY <1>2, <2>1, <2>2 DEF InviteIdentity, End
  <1>3. CASE CreateAccount(r)
    <2>0. req[r].id \in Ids
      BY <1>3, ByOp DEF CreateAccount, Creating
    <2> PICK i \in Ids : i = req[r].id
      BY <2>0
    <2>1. /\ req[r].email \in Emails
          /\ identity[i].state # "NONE" /\ ~identity[i].business
          /\ UNCHANGED <<identity, token, trades, logins, updates, unremoved>>
      BY <1>3, ByOp DEF CreateAccount, Creating, Known, RequestKnown
    <2>2. CASE Written(i, NewAccount(req[r].email)) /\ End(r)
      <3>1. /\ NewAccount(req[r].email) \in Account /\ Idle \in Request /\ Continue(r, Idle)
            /\ UNCHANGED <<identity, token, trades, logins, updates, unremoved>>
        BY <2>1, <2>2, NewAccountTyped DEF Request, End
      <3>2. TypeOK' /\ Grown /\ req'[r] = Idle /\ \A q \in Requests \ {r} : req'[q] = req[q]
        BY <2>1, <2>2, <3>1, AccountWritten
      <3> QED BY <3>2 DEF RequestKnown, WithRow, Idle
    <2>3. CASE Continue(r, AfterRefusal(r)) /\ UNCHANGED account
      <3>1. /\ AfterRefusal(r) \in Request /\ AfterRefusal(r).op = "CLEAN_UP"
            /\ AfterRefusal(r).id = i
        BY <1>3, ByOp DEF CreateAccount, Creating, AfterRefusal, Request
      <3>2. /\ TypeOK' /\ Grown /\ req'[r] = AfterRefusal(r)
            /\ \A q \in Requests \ {r} : req'[q] = req[q]
        BY <2>1, <2>3, <3>1, OnlyTheRequest, Continued DEF TypeOK
      <3>3. RequestKnown(r)'
        BY <2>1, <3>1, <3>2 DEF RequestKnown, WithRow
      <3> QED BY <3>2, <3>3
    <2> QED BY <1>3, <2>2, <2>3 DEF CreateAccount, Written
  <1>4. CASE DeleteIdentity(r)
    <2>0. req[r].id \in Ids
      BY <1>4, ByOp DEF DeleteIdentity, Creating
    <2> PICK i \in Ids : i = req[r].id
      BY <2>0
    <2>1. identity[i].state # "NONE" /\ identity[i] \in Identity
      BY <1>4 DEF DeleteIdentity, Known, RequestKnown, TypeOK
    <2>2. CASE unremoved' = unremoved \cup {i} /\ UNCHANGED identity
      BY <1>1, <1>4, <2>2 DEF DeleteIdentity, End, TypeOK
    <2>3. CASE identity' = [identity EXCEPT ![i] =
                 [@ EXCEPT !.state = "DELETED", !.email = NoEmail, !.banned = FALSE]]
               /\ UNCHANGED unremoved
      <3>1. /\ identity' \in [Ids -> Identity] /\ identity'[i].state = "DELETED"
            /\ identity'[i].business = identity[i].business
            /\ \A j \in Ids : j # i => identity'[j] = identity[j]
        <4> DEFINE gone == [identity[i] EXCEPT !.state = "DELETED", !.email = NoEmail, !.banned = FALSE]
        <4>1. gone \in Identity /\ gone.state = "DELETED" /\ gone.business = identity[i].business
          BY <2>1 DEF Identity
        <4>2. identity' = [identity EXCEPT ![i] = gone]
          BY <2>3
        <4> HIDE DEF gone
        <4> QED BY <4>1, <4>2 DEF TypeOK
      <3>2. Idle \in Request /\ Continue(r, Idle)
        BY <1>4 DEF DeleteIdentity, End, Request
      <3>3. /\ req' \in [Requests -> Request] /\ req'[r] = Idle
            /\ \A q \in Requests \ {r} : req'[q] = req[q]
        BY <3>2, Continued
      <3>4. TypeOK'
        BY <1>4, <2>3, <3>1, <3>3 DEF DeleteIdentity, TypeOK, Request
      <3>5. Grown
        BY <1>4, <2>1, <3>1 DEF DeleteIdentity, Grown, Live, HasAccount, Known
      <3>6. RequestKnown(r)'
        BY <3>3 DEF RequestKnown, WithRow, Idle
      <3> QED BY <3>3, <3>4, <3>5, <3>6
    <2> QED BY <1>4, <2>2, <2>3 DEF DeleteIdentity
  <1> QED BY <1>2, <1>3, <1>4

\* adminUpdate: the identity first, the account second.
LEMMA UpdateKnown ==
  ASSUME TypeOK, Known, NEW r \in Requests, SetSuspended(r) \/ UpdateAccount(r)
  PROVE  TypeOK' /\ Grown /\ RequestKnown(r)' /\ \A q \in Requests \ {r} : req'[q] = req[q]
  <1>0. req[r].id \in Ids
    BY ByOp DEF SetSuspended, UpdateAccount, Updating
  <1> PICK i \in Ids : i = req[r].id
    BY <1>0
  <1>1. /\ req[r].active \in BOOLEAN /\ HasAccount(i) /\ identity[i].state # "NONE"
        /\ account[i] \in Account /\ identity[i] \in Identity /\ Idle \in Request
    BY ByOp, AccountsTyped DEF SetSuspended, UpdateAccount, Updating, Known, RequestKnown, TypeOK,
       Request
  <1>2. CASE SetSuspended(r) /\ Continue(r, AfterSuspensionFails(r)) /\ UNCHANGED <<identity, updates>>
    <2>1. Continue(r, Idle) /\ UNCHANGED <<token, account, trades, logins, unremoved>>
          /\ updates' \in [Ids -> Went]
      BY <1>2, EndedTyped DEF SetSuspended, AfterSuspensionFails, TypeOK, Went
    <2>2. TypeOK' /\ Grown /\ req'[r] = Idle /\ \A q \in Requests \ {r} : req'[q] = req[q]
      BY <1>1, <1>2, <2>1, OnlyTheRequest, Continued DEF TypeOK
    <2> QED BY <2>2 DEF RequestKnown, WithRow, Idle
  <1>3. ASSUME identity' = [identity EXCEPT ![i].banned = IF Live(i) THEN ~req[r].active ELSE @],
               UNCHANGED <<token, account, trades, logins, unremoved>>,
               \/ SetSuspended(r) /\ Continue(r, [req[r] EXCEPT !.op = "UPDATE"]) /\ UNCHANGED updates
               \/ Continue(r, Idle) /\ Ended(i, "UNSETTLED")
        PROVE  TypeOK' /\ Grown /\ RequestKnown(r)' /\ \A q \in Requests \ {r} : req'[q] = req[q]
    <2>1. PICK banned \in BOOLEAN : banned = IF Live(i) THEN ~req[r].active ELSE identity[i].banned
      BY <1>1 DEF Identity
    <2>2. PICK next \in Request :
            /\ Continue(r, next)
            /\ next = Idle \/ (next.op = "UPDATE" /\ next.id = i)
      <3>1. CASE SetSuspended(r) /\ Continue(r, [req[r] EXCEPT !.op = "UPDATE"])
        <4>1. /\ [req[r] EXCEPT !.op = "UPDATE"] \in Request
              /\ [req[r] EXCEPT !.op = "UPDATE"].op = "UPDATE"
              /\ [req[r] EXCEPT !.op = "UPDATE"].id = i
          BY <3>1, ByOp DEF SetSuspended, Updating, Request
        <4> QED BY <3>1, <4>1
      <3> QED BY <1>1, <1>3, <3>1
    <2>4. identity' = [identity EXCEPT ![i] = [identity[i] EXCEPT !.banned = banned]]
      BY <1>3, <2>1
    <2>5. [identity[i] EXCEPT !.banned = banned] \in Identity
      BY <1>1, IdentityChanges
    <2>6. /\ identity' \in [Ids -> Identity]
          /\ \A j \in Ids : /\ identity'[j].state = identity[j].state
                            /\ identity'[j].email = identity[j].email
                            /\ identity'[j].business = identity[j].business
      BY <1>1, <2>4, <2>5 DEF TypeOK, Identity
    <2>7. updates' \in [Ids -> Went]
      BY <1>3, EndedTyped DEF TypeOK, Went
    <2>8. /\ req' \in [Requests -> Request] /\ req'[r] = next
          /\ \A q \in Requests \ {r} : req'[q] = req[q]
      BY <2>2, Continued
    <2>9. TypeOK'
      BY <1>3, <2>6, <2>7, <2>8 DEF TypeOK, Request
    <2>10. Grown
      BY <1>3, <2>6 DEF Grown, Live, HasAccount, Known
    <2>11. RequestKnown(r)'
      BY <1>1, <1>3, <2>2, <2>8 DEF RequestKnown, WithRow, HasAccount, Idle
    <2> QED BY <2>8, <2>9, <2>10, <2>11
  <1>4. CASE UpdateAccount(r)
    <2>0. /\ Continue(r, Idle) /\ UNCHANGED <<identity, token, trades, logins, unremoved>>
          /\ updates' \in [Ids -> Went]
      BY <1>4, EndedTyped DEF UpdateAccount, End, Went
    <2>1. PICK new \in Account : new = [account[i] EXCEPT !.active = req[r].active]
      BY <1>1, AccountChanges
    <2>2. Written(i, new) \/ UNCHANGED account
      BY <1>4, <2>1 DEF UpdateAccount, Written
    <2>3. CASE Written(i, new)
      <3>1. TypeOK' /\ Grown /\ req'[r] = Idle /\ \A q \in Requests \ {r} : req'[q] = req[q]
        BY <1>1, <2>0, <2>3, AccountUpdated
      <3> QED BY <3>1 DEF RequestKnown, WithRow, Idle
    <2>4. CASE UNCHANGED account
      <3>1. TypeOK' /\ Grown /\ req'[r] = Idle /\ \A q \in Requests \ {r} : req'[q] = req[q]
        BY <1>1, <2>0, <2>4, OnlyTheRequest, Continued DEF TypeOK
      <3> QED BY <3>1 DEF RequestKnown, WithRow, Idle
    <2> QED BY <2>2, <2>3, <2>4
  <1> QED BY <1>2, <1>3, <1>4 DEF SetSuspended, End

LEMMA EveryStep ==
  ASSUME TypeOK, Known, [Next]_vars
  PROVE  TypeOK' /\ Known' /\ Grown
  <1>1. CASE UNCHANGED vars
    BY <1>1 DEF vars, TypeOK, Known, Grown, RequestKnown, HasAccount, Live
  <1>2. CASE Supabase
    BY <1>2, SupabaseKnown, KnownFollows
  <1>3. ASSUME NEW r \in Requests, Begin(r) \/ GoOn(r) PROVE TypeOK' /\ Known' /\ Grown
    <2>1. TypeOK' /\ Grown /\ RequestKnown(r)' /\ \A q \in Requests \ {r} : req'[q] = req[q]
      BY <1>3, BeginKnown, ProvisionKnown, SessionKnown, InvitationKnown, UpdateKnown DEF GoOn
    <2> QED BY <2>1, KnownFollows
  <1> QED BY <1>1, <1>2, <1>3 DEF Next

\* Type correctness, and what is known of ids, tokens and requests in flight.
THEOREM AccountsTypeCorrect == Spec => [](TypeOK /\ Known)
  <1>1. Init => TypeOK /\ Known
    BY AccountConstants DEF Init, TypeOK, Known, RequestKnown, Identity, Idle, Live, HasAccount, WithRow,
       Went
  <1>2. TypeOK /\ Known /\ [Next]_vars => (TypeOK /\ Known)'
    BY EveryStep
  <1> QED BY <1>1, <1>2, PTL DEF Spec

-----------------------------------------------------------------------------
(***************************************************************************)
(* One trade account for each business sign-up.  A sign-up with an account *)
(* has its trade account behind it, or exactly one request that is about   *)
(* to open it: the one whose insert created the account.                   *)
(***************************************************************************)
Opens(r, i) == req[r].op = "TRADE" /\ req[r].token.id = i

TradeIsOne(i) ==
  IF HasAccount(i) /\ identity[i].business
  THEN \/ trades[i] = 1 /\ \A r \in Requests : ~Opens(r, i)
       \/ trades[i] = 0 /\ \E r \in Requests : \A q \in Requests : Opens(q, i) <=> q = r
  ELSE trades[i] = 0 /\ \A r \in Requests : ~Opens(r, i)

\* What a step does to accounts, trade accounts and the requests that open them.
SameTrades ==
  /\ UNCHANGED trades
  /\ \A i \in Ids : HasAccount(i)' <=> HasAccount(i)
  /\ \A q \in Requests : req'[q] = req[q] \/ (req[q].op # "TRADE" /\ req'[q].op # "TRADE")

Created(r, i) ==
  /\ UNCHANGED <<trades, identity>>
  /\ ~HasAccount(i) /\ HasAccount(i)'
  /\ \A j \in Ids \ {i} : HasAccount(j)' <=> HasAccount(j)
  /\ \A q \in Requests \ {r} : req'[q] = req[q]
  /\ req[r].op # "TRADE"
  /\ IF identity[i].business THEN req'[r].op = "TRADE" /\ req'[r].token.id = i
                             ELSE req'[r].op # "TRADE"

Opened(r, i) ==
  /\ Opens(r, i) /\ trades' = [trades EXCEPT ![i] = @ + 1]
  /\ UNCHANGED <<account, identity>>
  /\ req'[r].op # "TRADE"
  /\ \A q \in Requests \ {r} : req'[q] = req[q]

LEMMA After ==
  ASSUME TypeOK, NEW r \in Requests, NEW next, Continue(r, next)
  PROVE  req'[r] = next /\ \A q \in Requests \ {r} : req'[q] = req[q]
  BY DEF TypeOK, Continue

LEMMA WrittenHas ==
  ASSUME TypeOK, NEW i \in Ids, NEW row \in Account, Written(i, row)
  PROVE  /\ account'[i] = row /\ HasAccount(i)'
         /\ \A j \in Ids \ {i} : account'[j] = account[j] /\ (HasAccount(j)' <=> HasAccount(j))
  <1>1. account'[i] = row /\ \A j \in Ids \ {i} : account'[j] = account[j]
    BY DEF Written, TypeOK
  <1> QED BY <1>1, AccountNothing DEF HasAccount

LEMMA TradeSteps ==
  ASSUME TypeOK, Known, [Next]_vars
  PROVE  \/ SameTrades
         \/ \E r \in Requests, i \in Ids : Created(r, i) \/ Opened(r, i)
  <1>1. ASSUME UNCHANGED <<account, trades, req>> PROVE SameTrades
    BY <1>1 DEF SameTrades, HasAccount
  <1>2. CASE Supabase \/ UNCHANGED vars
    BY <1>1, <1>2 DEF Supabase, SignUp, IssueToken, ChangeEmail, vars
  <1>3. ASSUME NEW r \in Requests, NEW next, Continue(r, next), UNCHANGED <<account, trades>>,
               req[r].op # "TRADE", next.op # "TRADE"
        PROVE  SameTrades
    BY <1>3, After DEF SameTrades, HasAccount
  <1>4. ASSUME NEW r \in Requests, Begin(r) PROVE SameTrades
    <2>1. ASSUME NEW s \in Sessions, BeginResolve(r, s) PROVE SameTrades
      BY <1>3, <2>1 DEF BeginResolve, Idle
    <2>2. ASSUME NEW e \in Emails, BeginInvite(r, e) PROVE SameTrades
      BY <1>3, <2>2 DEF BeginInvite, Idle
    <2>3. ASSUME NEW i \in Managed, NEW active \in BOOLEAN, BeginUpdate(r, i, active) PROVE SameTrades
      BY <1>3, <2>3 DEF BeginUpdate, Idle
    <2> QED BY <1>4, <2>1, <2>2, <2>3 DEF Begin
  <1>5. ASSUME NEW r \in Requests, Provision(r)
        PROVE  SameTrades \/ \E i \in Ids : Created(r, i)
    <2>0. req[r].token.id \in Ids /\ req[r].op = "PROVISION"
      BY <1>5, ByOp DEF Provision, Resolving, Token
    <2> PICK i \in Ids : i = req[r].token.id
      BY <2>0
    <2>1. PICK e \in ProvisionEmails(r) :
            \/ /\ ~HasAccount(i) /\ Written(i, NewAccount(e))
               /\ Continue(r, AfterInsert(r, i, NewAccount(e)))
            \/ UNCHANGED account /\ Continue(r, AfterConflict(r, i, account[i]))
            \/ UNCHANGED account /\ End(r)
      BY <1>5 DEF Provision, Written
    <2>2. UNCHANGED <<identity, trades>> /\ e \in Emails
      BY <1>5, ByOp DEF Provision, ProvisionEmails, Resolving, Token, Known
    <2>3. CASE UNCHANGED account /\ Continue(r, AfterConflict(r, i, account[i]))
      BY <1>3, <2>0, <2>2, <2>3 DEF AfterConflict, With
    <2>4. CASE UNCHANGED account /\ End(r)
      BY <1>3, <2>0, <2>2, <2>4 DEF End, Idle
    <2>5. CASE ~HasAccount(i) /\ Written(i, NewAccount(e))
               /\ Continue(r, AfterInsert(r, i, NewAccount(e)))
      <3>1. HasAccount(i)' /\ \A j \in Ids \ {i} : HasAccount(j)' <=> HasAccount(j)
        BY <2>2, <2>5, WrittenHas, NewAccountTyped
      <3>2. /\ req'[r] = AfterInsert(r, i, NewAccount(e))
            /\ \A q \in Requests \ {r} : req'[q] = req[q]
        BY <2>5, After
      <3>3. /\ req'[r].token.id = i
            /\ req'[r].op = IF identity[i].business THEN "TRADE" ELSE "RECORD"
        BY <3>2 DEF AfterInsert, With
      <3>4. Created(r, i)
        BY <2>0, <2>2, <2>5, <3>1, <3>2, <3>3 DEF Created
      <3> QED BY <3>4
    <2> QED BY <2>1, <2>3, <2>4, <2>5
  <1>6. ASSUME NEW r \in Requests, OpenTradeAccount(r) PROVE \E i \in Ids : Opened(r, i)
    <2>0. req[r].token.id \in Ids
      BY <1>6, ByOp DEF OpenTradeAccount, WithRow, Recording, Token
    <2> PICK i \in Ids : i = req[r].token.id
      BY <2>0
    <2>1. /\ req'[r] = With(r, "RECORD", req[r].read)
          /\ \A q \in Requests \ {r} : req'[q] = req[q]
      BY <1>6, After DEF OpenTradeAccount
    <2>2. req'[r].op # "TRADE"
      BY <2>1 DEF With
    <2>3. Opened(r, i)
      BY <1>6, <2>1, <2>2 DEF Opened, Opens, OpenTradeAccount
    <2> QED BY <2>3
  <1>7. ASSUME NEW r \in Requests, RecordSession(r) PROVE SameTrades
    <2>0. req[r].token.id \in Ids /\ req[r].op = "RECORD" /\ req[r].session \in Sessions
      BY <1>7, ByOp DEF RecordSession, WithRow, Recording, Token
    <2> PICK i \in Ids : i = req[r].token.id
      BY <2>0
    <2>1. HasAccount(i) /\ account[i] \in Account
      BY <1>7, <2>0, AccountsTyped DEF Known, RequestKnown, WithRow
    <2>2. \A j \in Ids : HasAccount(j)' <=> HasAccount(j)
      <3>1. CASE UNCHANGED account
        BY <3>1 DEF HasAccount
      <3>2. CASE Written(i, [account[i] EXCEPT !.session = req[r].session])
        <4>1. [account[i] EXCEPT !.session = req[r].session] \in Account
          BY <2>0, <2>1, AccountChanges
        <4> QED BY <2>1, <3>2, <4>1, WrittenHas
      <3> QED BY <1>7, <3>1, <3>2 DEF RecordSession, Written
    <2>3. PICK op \in {"LOG", "FOLLOW"} :
            Continue(r, With(r, op, [req[r].read EXCEPT !.session = req[r].session]))
      BY <1>7 DEF RecordSession
    <2>4. req'[r].op # "TRADE" /\ \A q \in Requests \ {r} : req'[q] = req[q]
      BY <2>3, After DEF With
    <2>5. UNCHANGED trades
      BY <1>7 DEF RecordSession
    <2> QED BY <2>0, <2>2, <2>4, <2>5 DEF SameTrades
  <1>8. ASSUME NEW r \in Requests, LogLogin(r) PROVE SameTrades
    BY <1>3, <1>8 DEF LogLogin, With
  <1>9. ASSUME NEW r \in Requests, NEW i \in Ids, HasAccount(i), NEW row \in Account, Written(i, row),
               End(r), req[r].op # "TRADE", UNCHANGED trades
        PROVE  SameTrades
    <2>1. \A j \in Ids : HasAccount(j)' <=> HasAccount(j)
      BY <1>9, WrittenHas
    <2>2. req'[r] = Idle /\ \A q \in Requests \ {r} : req'[q] = req[q]
      BY <1>9, After DEF End
    <2> QED BY <1>9, <2>1, <2>2 DEF SameTrades, Idle
  <1>10. ASSUME NEW r \in Requests, FollowEmail(r) PROVE SameTrades
    <2>0. req[r].token.id \in Ids /\ req[r].op = "FOLLOW" /\ req[r].token \in Token
      BY <1>10, ByOp DEF FollowEmail, WithRow, Recording, Token
    <2> PICK i \in Ids : i = req[r].token.id
      BY <2>0
    <2>1. HasAccount(i) /\ account[i] \in Account
      BY <1>10, <2>0, AccountsTyped DEF Known, RequestKnown, WithRow
    <2>2. Followed(r) \in Emails
      BY <2>0, <2>1 DEF Followed, Token, Account
    <2>3. [account[i] EXCEPT !.email = Followed(r)] \in Account
      BY <2>1, <2>2, AccountChanges
    <2>4. Written(i, [account[i] EXCEPT !.email = Followed(r)]) /\ End(r) /\ UNCHANGED trades
      BY <1>10 DEF FollowEmail, Written
    <2> QED BY <1>9, <2>0, <2>1, <2>3, <2>4
  <1>11. ASSUME NEW r \in Requests, InviteIdentity(r) PROVE SameTrades
    <2>1. ASSUME NEW i \in Ids, NEW email, Continue(r, [op |-> "CREATE", id |-> i, email |-> email])
          PROVE  SameTrades
      BY <1>3, <1>11, <2>1 DEF InviteIdentity
    <2>2. ASSUME End(r) PROVE SameTrades
      BY <1>3, <1>11, <2>2 DEF InviteIdentity, End, Idle
    <2> QED BY <1>11, <2>1, <2>2 DEF InviteIdentity
  <1>12. ASSUME NEW r \in Requests, CreateAccount(r)
         PROVE  SameTrades \/ \E i \in Ids : Created(r, i)
    <2>0. req[r].id \in Ids /\ req[r].email \in Emails
      BY <1>12, ByOp DEF CreateAccount, Creating
    <2> PICK i \in Ids : i = req[r].id
      BY <2>0
    <2>1. UNCHANGED <<identity, trades>> /\ req[r].op = "CREATE" /\ ~identity[i].business
      BY <1>12 DEF CreateAccount, Known, RequestKnown
    <2>2. CASE ~HasAccount(i) /\ Written(i, NewAccount(req[r].email)) /\ End(r)
      <3>1. HasAccount(i)' /\ \A j \in Ids \ {i} : HasAccount(j)' <=> HasAccount(j)
        BY <2>0, <2>2, WrittenHas, NewAccountTyped
      <3>2. req'[r] = Idle /\ \A q \in Requests \ {r} : req'[q] = req[q]
        BY <2>2, After DEF End
      <3>3. Created(r, i)
        BY <2>1, <2>2, <3>1, <3>2 DEF Created, Idle
      <3> QED BY <3>3
    <2>3. CASE Continue(r, AfterRefusal(r)) /\ UNCHANGED account
      <3>1. AfterRefusal(r).op # "TRADE"
        BY <1>12, ByOp DEF CreateAccount, Creating, AfterRefusal
      <3> QED BY <1>3, <2>1, <2>3, <3>1
    <2> QED BY <1>12, <2>2, <2>3 DEF CreateAccount, Written
  <1>13. ASSUME NEW r \in Requests, DeleteIdentity(r) PROVE SameTrades
    BY <1>3, <1>13 DEF DeleteIdentity, End, Idle
  <1>14. ASSUME NEW r \in Requests, SetSuspended(r) PROVE SameTrades
    <2>1. [req[r] EXCEPT !.op = "UPDATE"].op # "TRADE" /\ Idle.op # "TRADE" /\ req[r].op # "TRADE"
      BY <1>14, ByOp DEF SetSuspended, Updating, Idle
    <2>2. \/ Continue(r, [req[r] EXCEPT !.op = "UPDATE"])
          \/ Continue(r, Idle)
      BY <1>14 DEF SetSuspended, AfterSuspensionFails, End
    <2>3. UNCHANGED <<account, trades>>
      BY <1>14 DEF SetSuspended
    <2> QED BY <1>3, <2>1, <2>2, <2>3
  <1>15. ASSUME NEW r \in Requests, UpdateAccount(r) PROVE SameTrades
    <2>0. req[r].id \in Ids /\ req[r].active \in BOOLEAN /\ req[r].op = "UPDATE"
      BY <1>15, ByOp DEF UpdateAccount, Updating
    <2> PICK i \in Ids : i = req[r].id
      BY <2>0
    <2>1. HasAccount(i) /\ account[i] \in Account
      BY <2>0, AccountsTyped DEF Known, RequestKnown
    <2>2. [account[i] EXCEPT !.active = req[r].active] \in Account
      BY <2>0, <2>1, AccountChanges
    <2>3. End(r) /\ UNCHANGED trades
      BY <1>15 DEF UpdateAccount
    <2>4. CASE Written(i, [account[i] EXCEPT !.active = req[r].active])
      BY <1>9, <2>0, <2>1, <2>2, <2>3, <2>4
    <2>5. CASE UNCHANGED account
      BY <1>3, <2>0, <2>3, <2>5 DEF End, Idle
    <2> QED BY <1>15, <2>4, <2>5 DEF UpdateAccount, Written
  <1>16. ASSUME NEW r \in Requests, GoOn(r)
         PROVE  SameTrades \/ \E i \in Ids : Created(r, i) \/ Opened(r, i)
    BY <1>5, <1>6, <1>7, <1>8, <1>10, <1>11, <1>12, <1>13, <1>14, <1>15, <1>16 DEF GoOn
  <1> QED BY <1>2, <1>4, <1>16 DEF Next

LEMMA TradeIsOneStep ==
  ASSUME TypeOK, Known, Known', Grown, \A i \in Ids : TradeIsOne(i), [Next]_vars, NEW i \in Ids
  PROVE  TradeIsOne(i)'
  <1>0. TradeIsOne(i) /\ trades[i] \in Nat
    BY DEF TypeOK
  <1>1. HasAccount(i) => identity'[i].business = identity[i].business
    BY DEF Known, Grown
  <1>2. CASE SameTrades
    <2>1. \A r \in Requests : Opens(r, i)' <=> Opens(r, i)
      BY <1>2 DEF SameTrades, Opens
    <2>2. (HasAccount(i)' <=> HasAccount(i)) /\ trades'[i] = trades[i]
      BY <1>2 DEF SameTrades
    <2> QED BY <1>0, <1>1, <2>1, <2>2 DEF TradeIsOne
  <1>3. ASSUME NEW r \in Requests, NEW j \in Ids, Created(r, j) PROVE TradeIsOne(i)'
    <2>1. \A q \in Requests : ~Opens(q, j)
      BY <1>3 DEF Created, TradeIsOne
    <2>2. CASE i = j
      <3>1. trades'[i] = 0 /\ HasAccount(i)' /\ identity'[i].business = identity[i].business
        BY <1>0, <1>3, <2>2 DEF Created, TradeIsOne
      <3>2. \A q \in Requests : Opens(q, i)' <=> q = r /\ identity[i].business
        BY <1>3, <2>1, <2>2 DEF Created, Opens
      <3> QED BY <3>1, <3>2 DEF TradeIsOne
    <2>3. CASE i # j
      <3>1. \A q \in Requests : Opens(q, i)' <=> Opens(q, i)
        BY <1>3, <2>3 DEF Created, Opens
      <3>2. (HasAccount(i)' <=> HasAccount(i)) /\ trades'[i] = trades[i]
        BY <1>3, <2>3 DEF Created
      <3> QED BY <1>0, <1>1, <3>1, <3>2 DEF TradeIsOne
    <2> QED BY <2>2, <2>3
  <1>4. ASSUME NEW r \in Requests, NEW j \in Ids, Opened(r, j) PROVE TradeIsOne(i)'
    <2>1. \A q \in Requests : Opens(q, i)' <=> Opens(q, i) /\ q # r
      BY <1>4 DEF Opened, Opens
    <2>2. (HasAccount(i)' <=> HasAccount(i)) /\ identity' = identity
      BY <1>4 DEF Opened, HasAccount
    <2>3. CASE i = j
      <3>1. trades[i] = 0 /\ HasAccount(i) /\ identity[i].business
            /\ \A q \in Requests : Opens(q, i) => q = r
        BY <1>0, <1>4, <2>3 DEF Opened, TradeIsOne
      <3>2. trades'[i] = 1
        BY <1>4, <2>3, <3>1 DEF Opened, TypeOK
      <3>3. \A q \in Requests : ~Opens(q, i)'
        BY <2>1, <3>1
      <3> QED BY <2>2, <3>1, <3>2, <3>3 DEF TradeIsOne
    <2>4. CASE i # j
      <3>1. ~Opens(r, i)
        BY <1>4, <2>4 DEF Opened, Opens
      <3>2. trades'[i] = trades[i] /\ \A q \in Requests : Opens(q, i)' <=> Opens(q, i)
        BY <1>4, <2>1, <2>4, <3>1 DEF Opened, TypeOK
      <3> QED BY <1>0, <2>2, <3>2 DEF TradeIsOne
    <2> QED BY <2>3, <2>4
  <1> QED BY <1>2, <1>3, <1>4, TradeSteps

\* However many first requests a new identity makes at once, its trade account
\* is opened (or refused) exactly once, by the request that created the account.
THEOREM TradeAccountsAreOpenedOnce == Spec => []TradeAccountOpenedOnce
  <1> DEFINE One == \A i \in Ids : TradeIsOne(i)
  <1>1. Init => One
    BY DEF Init, TradeIsOne, HasAccount, Opens, Idle
  <1>2. TypeOK /\ Known /\ Known' /\ One /\ [Next]_vars => One'
    BY EveryStep, TradeIsOneStep
  <1>3. One => TradeAccountOpenedOnce
    <2> SUFFICES ASSUME NEW i \in Ids, TradeIsOne(i)
                 PROVE  trades[i] + Cardinality(InFlight({"TRADE"}, i)) =
                          IF HasAccount(i) /\ identity[i].business THEN 1 ELSE 0
      BY DEF TradeAccountOpenedOnce
    <2>1. InFlight({"TRADE"}, i) = {r \in Requests : Opens(r, i)}
      BY DEF InFlight, Opens
    <2>2. CASE \A r \in Requests : ~Opens(r, i)
      <3>1. InFlight({"TRADE"}, i) = {}
        BY <2>1, <2>2
      <3> QED BY <2>2, <3>1, FS_EmptySet DEF TradeIsOne
    <2>3. CASE \E r \in Requests : Opens(r, i)
      <3>1. PICK r \in Requests : \A q \in Requests : Opens(q, i) <=> q = r
        BY <2>3 DEF TradeIsOne
      <3>2. InFlight({"TRADE"}, i) = {r}
        BY <2>1, <3>1
      <3>3. Cardinality(InFlight({"TRADE"}, i)) = 1
        BY <3>2, FS_Singleton
      <3>4. trades[i] = 0 /\ HasAccount(i) /\ identity[i].business
        BY <2>3 DEF TradeIsOne
      <3> QED BY <3>3, <3>4
    <2> QED BY <2>2, <2>3
  <1> HIDE DEF One
  <1> QED BY <1>1, <1>2, <1>3, AccountsTypeCorrect, PTL DEF Spec

-----------------------------------------------------------------------------
(***************************************************************************)
(* Logged once per switch.  A session is logged when its account turns to  *)
(* it from another one, so the sessions of an account take turns: each has *)
(* been logged as often as the others together at most, and once more only *)
(* while it is the latest.                                                 *)
(***************************************************************************)
Logs(r, s)   == req[r].op = "LOG" /\ req[r].session = s
Latest(i, s) == IF HasAccount(i) /\ account[i].session = s THEN 1 ELSE 0
Logged       == [s \in Sessions |-> Recorded(s)]

TakenInTurns ==
  /\ \A s \in Sessions : token[s] = NoToken => Recorded(s) = 0
  /\ \A i \in Ids : \A s \in SessionsOf(i) :
       Recorded(s) <= Latest(i, s) + SumOf(Logged, SessionsOf(i) \ {s})

\* The two kinds of steps: what is logged, or about to be, stays the same, or
\* an account turns to another session.
SameLogins ==
  /\ \A s \in Sessions : Recorded(s)' = Recorded(s)
  /\ \A i \in Ids, s \in Sessions : Latest(i, s)' = Latest(i, s)

Turned(i, s) ==
  /\ s \in SessionsOf(i) /\ UNCHANGED token
  /\ Recorded(s)' = Recorded(s) + 1
  /\ \A t \in Sessions \ {s} : Recorded(t)' = Recorded(t)
  /\ Latest(i, s) = 0 /\ Latest(i, s)' = 1
  /\ \A t \in Sessions \ {s} : Latest(i, t)' = 0
  /\ \A j \in Ids \ {i}, t \in Sessions : Latest(j, t)' = Latest(j, t)

LEMMA RecordedCounts ==
  ASSUME TypeOK, NEW s \in Sessions
  PROVE  /\ Recorded(s) = logins[s] + Cardinality({r \in Requests : Logs(r, s)})
         /\ IsFiniteSet({r \in Requests : Logs(r, s)}) /\ Recorded(s) \in Nat
  <1> DEFINE L == {r \in Requests : Logs(r, s)}
  <1>1. IsFiniteSet(L)
    <2>1. L \in SUBSET Requests
      OBVIOUS
    <2> QED BY <2>1, FS_Subset, AccountConstants
  <1>2. Recorded(s) = logins[s] + Cardinality(L)
    BY DEF Recorded, Logs
  <1>3. Cardinality(L) \in Nat /\ logins[s] \in Nat
    BY <1>1, FS_CardinalityType, AccountConstants DEF TypeOK
  <1> QED BY <1>1, <1>2, <1>3

\* The requests that are about to log are the same, and so is the log.
LEMMA LogsKept ==
  ASSUME TypeOK, TypeOK', NEW s \in Sessions, logins'[s] = logins[s],
         \A r \in Requests : Logs(r, s)' <=> Logs(r, s)
  PROVE  Recorded(s)' = Recorded(s)
  <1>1. {r \in Requests : Logs(r, s)'} = {r \in Requests : Logs(r, s)}
    OBVIOUS
  <1>2. Recorded(s)' = logins'[s] + Cardinality({r \in Requests : Logs(r, s)'})
    BY DEF Recorded, Logs
  <1> QED BY <1>1, <1>2, RecordedCounts

\* One request more is about to log.
LEMMA LogsGained ==
  ASSUME TypeOK, TypeOK', UNCHANGED logins, NEW s \in Sessions, NEW r \in Requests,
         ~Logs(r, s), Logs(r, s)', \A q \in Requests \ {r} : Logs(q, s)' <=> Logs(q, s)
  PROVE  Recorded(s)' = Recorded(s) + 1
  <1>1. {q \in Requests : Logs(q, s)'} = {q \in Requests : Logs(q, s)} \cup {r}
    OBVIOUS
  <1>2. Recorded(s)' = logins'[s] + Cardinality({q \in Requests : Logs(q, s)'})
    BY DEF Recorded, Logs
  <1>3. Cardinality({q \in Requests : Logs(q, s)} \cup {r})
          = Cardinality({q \in Requests : Logs(q, s)}) + 1
    BY RecordedCounts, FS_AddElement
  <1>4. logins[s] \in Nat /\ Cardinality({q \in Requests : Logs(q, s)}) \in Nat
    BY RecordedCounts, FS_CardinalityType, AccountConstants DEF TypeOK
  <1>5. Recorded(s) = logins[s] + Cardinality({q \in Requests : Logs(q, s)})
    BY RecordedCounts
  <1>6. Recorded(s)' = logins'[s] + (Cardinality({q \in Requests : Logs(q, s)}) + 1)
    BY <1>1, <1>2, <1>3
  <1> QED BY <1>4, <1>5, <1>6

\* A request that was about to log has logged.
LEMMA LogsDone ==
  ASSUME TypeOK, TypeOK', NEW s \in Sessions, NEW r \in Requests, logins'[s] = logins[s] + 1,
         Logs(r, s), ~Logs(r, s)', \A q \in Requests \ {r} : Logs(q, s)' <=> Logs(q, s)
  PROVE  Recorded(s)' = Recorded(s)
  <1>1. {q \in Requests : Logs(q, s)'} = {q \in Requests : Logs(q, s)} \ {r}
    OBVIOUS
  <1>2. Recorded(s)' = logins'[s] + Cardinality({q \in Requests : Logs(q, s)'})
    BY DEF Recorded, Logs
  <1>3. Cardinality({q \in Requests : Logs(q, s)} \ {r})
          = Cardinality({q \in Requests : Logs(q, s)}) - 1
    BY RecordedCounts, FS_RemoveElement
  <1>4. logins[s] \in Nat /\ Cardinality({q \in Requests : Logs(q, s)}) \in Nat
    BY RecordedCounts, FS_CardinalityType, AccountConstants DEF TypeOK
  <1>5. Recorded(s) = logins[s] + Cardinality({q \in Requests : Logs(q, s)})
    BY RecordedCounts
  <1>6. Recorded(s)' = logins'[s] + (Cardinality({q \in Requests : Logs(q, s)}) - 1)
    BY <1>1, <1>2, <1>3
  <1> QED BY <1>4, <1>5, <1>6

\* What an account knows of its session, before and after it is written.
LEMMA LatestKept ==
  ASSUME TypeOK, NEW i \in Ids, NEW row \in Account, Written(i, row),
         row.session = IF HasAccount(i) THEN account[i].session ELSE NoSession
  PROVE  \A j \in Ids, s \in Sessions : Latest(j, s)' = Latest(j, s)
  <1> SUFFICES ASSUME NEW j \in Ids, NEW s \in Sessions PROVE Latest(j, s)' = Latest(j, s)
    OBVIOUS
  <1>1. CASE j = i
    <2>1. account'[i].session = row.session /\ HasAccount(i)'
      BY WrittenHas
    <2> QED BY <1>1, <2>1, AccountConstants DEF Latest
  <1>2. CASE j # i
    BY <1>2, WrittenHas DEF Latest
  <1> QED BY <1>1, <1>2

LEMMA LatestUnwritten ==
  ASSUME UNCHANGED account
  PROVE  \A j \in Ids, s \in Sessions : Latest(j, s)' = Latest(j, s)
  BY DEF Latest, HasAccount

LEMMA LoginSteps ==
  ASSUME TypeOK, Known, TypeOK', [Next]_vars
  PROVE  SameLogins \/ \E i \in Ids, s \in Sessions : Turned(i, s)
  <1>1. ASSUME UNCHANGED <<account, logins, req>> PROVE SameLogins
    BY <1>1, LogsKept, LatestUnwritten DEF SameLogins, Logs
  <1>2. CASE Supabase \/ UNCHANGED vars
    BY <1>1, <1>2 DEF Supabase, SignUp, IssueToken, ChangeEmail, vars
  <1>3. ASSUME NEW r \in Requests, NEW next, Continue(r, next), UNCHANGED logins,
               req[r].op # "LOG", next.op # "LOG",
               \A j \in Ids, s \in Sessions : Latest(j, s)' = Latest(j, s)
        PROVE  SameLogins
    <2>1. req'[r] = next /\ \A q \in Requests \ {r} : req'[q] = req[q]
      BY <1>3, After
    <2>2. \A s \in Sessions, q \in Requests : Logs(q, s)' <=> Logs(q, s)
      BY <1>3, <2>1 DEF Logs
    <2> QED BY <1>3, <2>2, LogsKept DEF SameLogins
  <1>4. ASSUME NEW r \in Requests, Begin(r) PROVE SameLogins
    <2>0. UNCHANGED <<account, logins>> /\ req[r] = Idle
      BY <1>4 DEF Begin, BeginResolve, BeginInvite, BeginUpdate
    <2>1. \A j \in Ids, s \in Sessions : Latest(j, s)' = Latest(j, s)
      BY <2>0, LatestUnwritten
    <2>2. PICK next : Continue(r, next) /\ next.op # "LOG"
      <3>1. ASSUME NEW s \in Sessions, BeginResolve(r, s)
            PROVE  \E next : Continue(r, next) /\ next.op # "LOG"
        BY <3>1 DEF BeginResolve
      <3>2. ASSUME NEW e \in Emails, BeginInvite(r, e)
            PROVE  \E next : Continue(r, next) /\ next.op # "LOG"
        BY <3>2 DEF BeginInvite
      <3>3. ASSUME NEW i \in Managed, NEW active \in BOOLEAN, BeginUpdate(r, i, active)
            PROVE  \E next : Continue(r, next) /\ next.op # "LOG"
        BY <3>3 DEF BeginUpdate
      <3> QED BY <1>4, <3>1, <3>2, <3>3 DEF Begin
    <2> QED BY <1>3, <2>0, <2>1, <2>2 DEF Idle
  <1>5. ASSUME NEW r \in Requests, Provision(r) PROVE SameLogins
    <2>0. req[r].token.id \in Ids /\ req[r].op = "PROVISION"
      BY <1>5, ByOp DEF Provision, Resolving, Token
    <2> PICK i \in Ids : i = req[r].token.id
      BY <2>0
    <2>1. PICK e \in ProvisionEmails(r) :
            \/ /\ ~HasAccount(i) /\ Written(i, NewAccount(e))
               /\ Continue(r, AfterInsert(r, i, NewAccount(e)))
            \/ UNCHANGED account /\ Continue(r, AfterConflict(r, i, account[i]))
            \/ UNCHANGED account /\ End(r)
      BY <1>5 DEF Provision, Written
    <2>2. UNCHANGED logins /\ e \in Emails
      BY <1>5, ByOp DEF Provision, ProvisionEmails, Resolving, Token, Known
    <2>3. \A j \in Ids, s \in Sessions : Latest(j, s)' = Latest(j, s)
      BY <2>1, <2>2, LatestKept, LatestUnwritten, NewAccountTyped
    <2>4. PICK next : Continue(r, next) /\ next.op # "LOG"
      BY <2>1 DEF AfterInsert, AfterConflict, With, End, Idle
    <2> QED BY <1>3, <2>0, <2>2, <2>3, <2>4
  <1>6. ASSUME NEW r \in Requests, OpenTradeAccount(r) PROVE SameLogins
    BY <1>3, <1>6, LatestUnwritten DEF OpenTradeAccount, With
  <1>7. ASSUME NEW r \in Requests, RecordSession(r)
        PROVE  SameLogins \/ \E i \in Ids, s \in Sessions : Turned(i, s)
    <2>0. req[r].token.id \in Ids /\ req[r].op = "RECORD" /\ req[r].session \in Sessions
      BY <1>7, ByOp DEF RecordSession, WithRow, Recording, Token
    <2> PICK i \in Ids, s \in Sessions : i = req[r].token.id /\ s = req[r].session
      BY <2>0
    <2>1. HasAccount(i) /\ account[i] \in Account /\ s \in SessionsOf(i)
      BY <1>7, <2>0, AccountsTyped DEF Known, RequestKnown, WithRow, SessionsOf
    <2> PICK row : row = [req[r].read EXCEPT !.session = s]
      OBVIOUS
    <2>2. CASE UNCHANGED account /\ Continue(r, With(r, "FOLLOW", row))
      BY <1>3, <1>7, <2>0, <2>2, LatestUnwritten DEF RecordSession, With
    <2>3. CASE /\ account[i].session # s
               /\ Written(i, [account[i] EXCEPT !.session = s])
               /\ Continue(r, With(r, "LOG", row))
      <3>1. PICK new \in Account : new = [account[i] EXCEPT !.session = s]
        BY <2>1, AccountChanges
      <3>2. new.session = s /\ Written(i, new)
        BY <2>1, <2>3, <3>1 DEF Account
      <3>3. /\ account'[i] = new /\ HasAccount(i)'
            /\ \A j \in Ids \ {i} : account'[j] = account[j] /\ (HasAccount(j)' <=> HasAccount(j))
        BY <3>2, WrittenHas
      <3>4. UNCHANGED <<token, logins>>
        BY <1>7 DEF RecordSession
      <3>5. req'[r] = With(r, "LOG", row) /\ \A q \in Requests \ {r} : req'[q] = req[q]
        BY <2>3, After
      <3>6. /\ ~Logs(r, s) /\ Logs(r, s)'
            /\ \A t \in Sessions \ {s} : ~Logs(r, t) /\ ~Logs(r, t)'
            /\ \A q \in Requests \ {r}, t \in Sessions : Logs(q, t)' <=> Logs(q, t)
        BY <2>0, <3>5 DEF Logs, With
      <3>7. Recorded(s)' = Recorded(s) + 1
        BY <3>4, <3>6, LogsGained
      <3>8. \A t \in Sessions \ {s} : Recorded(t)' = Recorded(t)
        BY <3>4, <3>6, LogsKept
      <3>9. /\ Latest(i, s) = 0 /\ Latest(i, s)' = 1
            /\ \A t \in Sessions \ {s} : Latest(i, t)' = 0
            /\ \A j \in Ids \ {i}, t \in Sessions : Latest(j, t)' = Latest(j, t)
        BY <2>3, <3>2, <3>3 DEF Latest
      <3>10. Turned(i, s)
        BY <2>1, <3>4, <3>7, <3>8, <3>9 DEF Turned
      <3> QED BY <3>10
    <2> QED BY <1>7, <2>2, <2>3 DEF RecordSession, SessionIsNew, Written
  <1>8. ASSUME NEW r \in Requests, LogLogin(r) PROVE SameLogins
    <2>0. req[r].op = "LOG" /\ req[r].session \in Sessions
      BY <1>8, ByOp DEF LogLogin, WithRow, Recording
    <2> PICK s \in Sessions : s = req[r].session
      BY <2>0
    <2>1. req'[r] = With(r, "FOLLOW", req[r].read) /\ \A q \in Requests \ {r} : req'[q] = req[q]
      BY <1>8, After DEF LogLogin
    <2>2. /\ logins'[s] = logins[s] + 1 /\ \A t \in Sessions \ {s} : logins'[t] = logins[t]
          /\ UNCHANGED account
      BY <1>8 DEF LogLogin, TypeOK
    <2>3. /\ Logs(r, s) /\ ~Logs(r, s)' /\ \A t \in Sessions \ {s} : ~Logs(r, t) /\ ~Logs(r, t)'
          /\ \A q \in Requests \ {r}, t \in Sessions : Logs(q, t)' <=> Logs(q, t)
      BY <2>0, <2>1 DEF Logs, With
    <2>4. Recorded(s)' = Recorded(s)
      BY <2>2, <2>3, LogsDone
    <2>5. \A t \in Sessions \ {s} : Recorded(t)' = Recorded(t)
      BY <2>2, <2>3, LogsKept
    <2> QED BY <2>2, <2>4, <2>5, LatestUnwritten DEF SameLogins
  <1>9. ASSUME NEW r \in Requests, NEW i \in Ids, HasAccount(i), NEW row \in Account, Written(i, row),
               row.session = account[i].session, End(r), req[r].op # "LOG", UNCHANGED logins
        PROVE  SameLogins
    BY <1>3, <1>9, LatestKept DEF End, Idle
  <1>10. ASSUME NEW r \in Requests, FollowEmail(r) PROVE SameLogins
    <2>0. req[r].token.id \in Ids /\ req[r].op = "FOLLOW" /\ req[r].token \in Token
      BY <1>10, ByOp DEF FollowEmail, WithRow, Recording, Token
    <2> PICK i \in Ids : i = req[r].token.id
      BY <2>0
    <2>1. HasAccount(i) /\ account[i] \in Account
      BY <1>10, <2>0, AccountsTyped DEF Known, RequestKnown, WithRow
    <2>2. Followed(r) \in Emails
      BY <2>0, <2>1 DEF Followed, Token, Account
    <2>3. PICK row \in Account : row = [account[i] EXCEPT !.email = Followed(r)]
      BY <2>1, <2>2, AccountChanges
    <2>4. row.session = account[i].session
      BY <2>1, <2>3 DEF Account
    <2>5. Written(i, row) /\ End(r) /\ UNCHANGED logins
      BY <1>10, <2>3 DEF FollowEmail, Written
    <2> QED BY <1>9, <2>0, <2>1, <2>4, <2>5
  <1>11. ASSUME NEW r \in Requests, InviteIdentity(r) \/ DeleteIdentity(r) \/ SetSuspended(r)
         PROVE  SameLogins
    <2>1. UNCHANGED <<account, logins>> /\ req[r].op # "LOG"
      BY <1>11 DEF InviteIdentity, DeleteIdentity, SetSuspended
    <2>2. PICK next : Continue(r, next) /\ next.op # "LOG"
      <3>1. CASE DeleteIdentity(r)
        BY <3>1 DEF DeleteIdentity, End, Idle
      <3>4. CASE InviteIdentity(r)
        <4>1. ASSUME NEW i \in Ids, Continue(r, [op |-> "CREATE", id |-> i, email |-> req[r].email])
              PROVE  \E next : Continue(r, next) /\ next.op # "LOG"
          <5>1. [op |-> "CREATE", id |-> i, email |-> req[r].email].op # "LOG"
            OBVIOUS
          <5> QED BY <4>1, <5>1
        <4>2. ASSUME End(r) PROVE \E next : Continue(r, next) /\ next.op # "LOG"
          BY <4>2 DEF End, Idle
        <4> QED BY <3>4, <4>1, <4>2 DEF InviteIdentity
      <3>2. CASE SetSuspended(r)
        <4>1. [req[r] EXCEPT !.op = "UPDATE"].op # "LOG" /\ Idle.op # "LOG"
          BY <3>2, ByOp DEF SetSuspended, Updating, Idle
        <4>2. Continue(r, [req[r] EXCEPT !.op = "UPDATE"]) \/ Continue(r, Idle)
          BY <3>2 DEF SetSuspended, AfterSuspensionFails, End
        <4> QED BY <4>1, <4>2
      <3> QED BY <1>11, <3>1, <3>2, <3>4
    <2> QED BY <1>3, <2>1, <2>2, LatestUnwritten
  <1>12. ASSUME NEW r \in Requests, CreateAccount(r) PROVE SameLogins
    <2>0. req[r].id \in Ids /\ req[r].email \in Emails
      BY <1>12, ByOp DEF CreateAccount, Creating
    <2> PICK i \in Ids : i = req[r].id
      BY <2>0
    <2>1. UNCHANGED logins /\ req[r].op = "CREATE"
      BY <1>12 DEF CreateAccount
    <2>2. CASE ~HasAccount(i) /\ Written(i, NewAccount(req[r].email)) /\ End(r)
      BY <1>3, <2>0, <2>1, <2>2, LatestKept, NewAccountTyped DEF End, Idle
    <2>3. CASE Continue(r, AfterRefusal(r)) /\ UNCHANGED account
      <3>1. AfterRefusal(r).op # "LOG"
        BY <1>12, ByOp DEF CreateAccount, Creating, AfterRefusal
      <3> QED BY <1>3, <2>1, <2>3, <3>1, LatestUnwritten
    <2> QED BY <1>12, <2>2, <2>3 DEF CreateAccount, Written
  <1>13. ASSUME NEW r \in Requests, UpdateAccount(r) PROVE SameLogins
    <2>0. req[r].id \in Ids /\ req[r].active \in BOOLEAN /\ req[r].op = "UPDATE"
      BY <1>13, ByOp DEF UpdateAccount, Updating
    <2> PICK i \in Ids : i = req[r].id
      BY <2>0
    <2>1. HasAccount(i) /\ account[i] \in Account
      BY <2>0, AccountsTyped DEF Known, RequestKnown
    <2>2. PICK row \in Account : row = [account[i] EXCEPT !.active = req[r].active]
      BY <2>0, <2>1, AccountChanges
    <2>3. row.session = account[i].session
      BY <2>1, <2>2 DEF Account
    <2>4. End(r) /\ UNCHANGED logins
      BY <1>13 DEF UpdateAccount
    <2>5. CASE Written(i, row)
      BY <1>9, <2>0, <2>1, <2>3, <2>4, <2>5
    <2>6. CASE UNCHANGED account
      BY <1>3, <2>0, <2>4, <2>6, LatestUnwritten DEF End, Idle
    <2> QED BY <1>13, <2>2, <2>5, <2>6 DEF UpdateAccount, Written
  <1>14. ASSUME NEW r \in Requests, GoOn(r)
         PROVE  SameLogins \/ \E i \in Ids, s \in Sessions : Turned(i, s)
    BY <1>5, <1>6, <1>7, <1>8, <1>10, <1>11, <1>12, <1>13, <1>14 DEF GoOn
  <1> QED BY <1>2, <1>4, <1>14 DEF Next

LEMMA RecordedTyped == TypeOK => \A s \in Sessions : Recorded(s) \in Nat
  BY RecordedCounts

LEMMA LoggedIs ==
  ASSUME TypeOK, TypeOK'
  PROVE  /\ \A s \in Sessions : Logged[s] = Recorded(s) /\ Logged[s] \in Nat
         /\ \A s \in Sessions : Logged'[s] = Recorded(s)' /\ Logged'[s] \in Nat
  <1>1. \A s \in Sessions : Recorded(s) \in Nat
    BY RecordedTyped
  <1>2. (\A s \in Sessions : Recorded(s) \in Nat)'
    BY RecordedTyped, PTL
  <1> QED BY <1>1, <1>2 DEF Logged

LEMMA SessionsFinite ==
  ASSUME NEW i
  PROVE  IsFiniteSet(SessionsOf(i)) /\ SessionsOf(i) \in SUBSET Sessions
  <1>1. SessionsOf(i) \in SUBSET Sessions
    BY DEF SessionsOf
  <1> QED BY <1>1, FS_Subset, AccountConstants

LEMMA SessionsFiniteThen ==
  ASSUME NEW i
  PROVE  IsFiniteSet(SessionsOf(i)') /\ SessionsOf(i)' \in SUBSET Sessions
  <1>1. SessionsOf(i)' \in SUBSET Sessions
    BY DEF SessionsOf
  <1> QED BY <1>1, FS_Subset, AccountConstants

\* Sessions that had no token log nothing, and those that had one stay with
\* their account.
LEMMA TurnsKept ==
  ASSUME TypeOK, TypeOK', Grown, TakenInTurns, SameLogins
  PROVE  TakenInTurns'
  <1>1. ASSUME NEW s \in Sessions, token'[s] = NoToken PROVE Recorded(s)' = 0
    BY <1>1 DEF Grown, TakenInTurns, SameLogins
  <1>2. ASSUME NEW i \in Ids, NEW s \in Sessions, s \in SessionsOf(i)'
        PROVE  Recorded(s)' <= Latest(i, s)' + SumOf(Logged', SessionsOf(i)' \ {s})
    <2> DEFINE Old == SessionsOf(i) \ {s}
               New == SessionsOf(i)' \ {s}
    <2>1. IsFiniteSet(Old) /\ IsFiniteSet(New) /\ Old \in SUBSET Sessions /\ New \in SUBSET Sessions
      BY SessionsFinite, SessionsFiniteThen, FS_RemoveElement
    <2>2. Old \in SUBSET New
      BY DEF SessionsOf, Grown
    <2>3. \A t \in Sessions : Logged'[t] = Logged[t] /\ Logged[t] \in Nat /\ Logged'[t] \in Nat
      BY LoggedIs DEF SameLogins
    <2> HIDE DEF Old, New
    <2>4. SumOf(Logged, Old) = SumOf(Logged', Old)
      BY <2>1, <2>3, SumSame
    <2>5. SumOf(Logged', Old) <= SumOf(Logged', New)
      BY <2>1, <2>2, <2>3, SumOfFewer
    <2>6. SumOf(Logged, Old) \in Nat /\ SumOf(Logged', New) \in Nat
      BY <2>1, <2>3, SumType
    <2>7. Latest(i, s)' = Latest(i, s) /\ Latest(i, s) \in {0, 1}
      BY DEF SameLogins, Latest
    <2>8. Recorded(s)' = Recorded(s) /\ Recorded(s) \in Nat
      BY RecordedTyped DEF SameLogins
    <2>9. Recorded(s) <= Latest(i, s) + SumOf(Logged, Old)
      <3>1. CASE s \in SessionsOf(i)
        BY <3>1 DEF TakenInTurns, Old
      <3>2. CASE s \notin SessionsOf(i)
        <4>1. token[s] = NoToken
          BY <1>2, <3>2 DEF SessionsOf, Grown
        <4> QED BY <4>1, <2>6, <2>7 DEF TakenInTurns
      <3> QED BY <3>1, <3>2
    <2>10. Recorded(s)' <= Latest(i, s)' + SumOf(Logged', New)
      BY <2>4, <2>5, <2>6, <2>7, <2>8, <2>9
    <2> QED BY <2>10 DEF New
  <1> QED BY <1>1, <1>2 DEF TakenInTurns, SessionsOf

\* An account that turns to a session lets every other session of it be logged
\* once more.
LEMMA TurnTaken ==
  ASSUME TypeOK, TypeOK', TakenInTurns, NEW i \in Ids, NEW s \in Sessions, Turned(i, s)
  PROVE  TakenInTurns'
  <1>0. \A j \in Ids : SessionsOf(j)' = SessionsOf(j)
    BY DEF Turned, SessionsOf
  <1>1. ASSUME NEW t \in Sessions, token'[t] = NoToken PROVE Recorded(t)' = 0
    BY <1>1 DEF Turned, TakenInTurns, SessionsOf
  <1>2. /\ \A t \in Sessions : Logged[t] = Recorded(t) /\ Logged[t] \in Nat /\ Logged'[t] \in Nat
        /\ \A t \in Sessions \ {s} : Logged'[t] = Logged[t]
        /\ Logged'[s] = Logged[s] + 1
    BY LoggedIs DEF Turned
  <1>3. ASSUME NEW j \in Ids, NEW t \in Sessions, t \in SessionsOf(j)
        PROVE  Recorded(t)' <= Latest(j, t)' + SumOf(Logged', SessionsOf(j) \ {t})
    <2> DEFINE Rest == SessionsOf(j) \ {t}
    <2>1. IsFiniteSet(Rest) /\ Rest \in SUBSET Sessions
      BY SessionsFinite, FS_RemoveElement
    <2>2. Recorded(t) <= Latest(j, t) + SumOf(Logged, Rest)
      BY <1>3 DEF TakenInTurns
    <2>3. Recorded(t) \in Nat /\ Latest(j, t) \in {0, 1}
      BY RecordedTyped DEF Latest
    <2>4. s \in Rest <=> j = i /\ t # s
      BY <1>3 DEF Turned, SessionsOf
    <2> HIDE DEF Rest
    <2>5. SumOf(Logged, Rest) \in Nat /\ SumOf(Logged', Rest) \in Nat
      BY <2>1, <1>2, SumType
    <2>6. CASE s \notin Rest
      <3>1. SumOf(Logged, Rest) = SumOf(Logged', Rest)
        BY <2>1, <2>6, <1>2, SumSame
      <3>2. CASE t = s
        <4>1. j = i
          BY <1>3, <3>2 DEF Turned, SessionsOf
        <4>2. Recorded(t)' = Recorded(t) + 1 /\ Latest(j, t) = 0 /\ Latest(j, t)' = 1
          BY <3>2, <4>1 DEF Turned
        <4> QED BY <2>2, <2>3, <2>5, <3>1, <4>2 DEF Rest
      <3>3. CASE t # s
        <4>1. j # i
          BY <2>4, <2>6, <3>3
        <4>2. Recorded(t)' = Recorded(t) /\ Latest(j, t)' = Latest(j, t)
          BY <3>3, <4>1 DEF Turned
        <4> QED BY <2>2, <3>1, <4>2 DEF Rest
      <3> QED BY <3>2, <3>3
    <2>7. CASE s \in Rest
      <3> DEFINE Less == Rest \ {s}
      <3>1. IsFiniteSet(Less) /\ Less \in SUBSET Sessions /\ s \notin Less /\ Less \cup {s} = Rest
        BY <2>1, <2>7, FS_RemoveElement
      <3> HIDE DEF Less
      <3>2. SumOf(Logged, Less) = SumOf(Logged', Less)
        BY <3>1, <1>2, SumSame
      <3>3. SumOf(Logged, Rest) = SumOf(Logged, Less) + Logged[s]
        BY <3>1, <1>2, SumAdd
      <3>4. SumOf(Logged', Rest) = SumOf(Logged', Less) + Logged'[s]
        BY <3>1, <1>2, SumAdd
      <3>5. SumOf(Logged, Less) \in Nat
        BY <3>1, <1>2, SumType
      <3>6. SumOf(Logged', Rest) = SumOf(Logged, Rest) + 1
        BY <1>2, <3>2, <3>3, <3>4, <3>5
      <3>7. Recorded(t)' = Recorded(t) /\ Latest(j, t)' = 0
        BY <2>4, <2>7 DEF Turned
      <3>8. Recorded(t)' <= Latest(j, t)' + SumOf(Logged', Rest)
        BY <2>2, <2>3, <2>5, <3>6, <3>7
      <3> QED BY <3>8 DEF Rest
    <2> QED BY <2>6, <2>7
  <1>4. \A j \in Ids : \A t \in SessionsOf(j)' :
           Recorded(t)' <= Latest(j, t)' + SumOf(Logged', SessionsOf(j)' \ {t})
    BY <1>0, <1>3, SessionsFinite
  <1> QED BY <1>1, <1>4 DEF TakenInTurns

\* The sum a reader is told of adds up the function the proofs reason about.
AddsRecorded(g, S) ==
  g = [s \in SUBSET S |-> IF s = {} THEN 0
                          ELSE Recorded(CHOOSE x \in s : TRUE) + g[s \ {CHOOSE x \in s : TRUE}]]

LEMMA RecordedSum ==
  ASSUME TypeOK, NEW S \in SUBSET Sessions, IsFiniteSet(S)
  PROVE  MapThenSumSet(Recorded, S) = SumOf(Logged, S)
  <1> DEFINE count == [s \in SUBSET S |-> Cardinality(Marks(Logged, s))]
             added == CHOOSE g : AddsRecorded(g, S)
             pick(s) == CHOOSE x \in s : TRUE
  <1>1. \A s \in S : Logged[s] = Recorded(s) /\ Logged[s] \in Nat
    BY RecordedTyped DEF Logged
  <1>2. ASSUME NEW g PROVE AddsRecorded(g, S) <=> SolvesSums(g, Logged, S)
    <2>1. ASSUME NEW s \in SUBSET S, s # {} PROVE Logged[pick(s)] = Recorded(pick(s))
      <3>1. pick(s) \in S
        BY <2>1
      <3> QED BY <1>1, <3>1
    <2>2. \A s \in SUBSET S :
            (IF s = {} THEN 0 ELSE Recorded(pick(s)) + g[s \ {pick(s)}])
              = (IF s = {} THEN 0 ELSE Logged[pick(s)] + g[s \ {pick(s)}])
      BY <2>1
    <2>3. [s \in SUBSET S |-> IF s = {} THEN 0 ELSE Recorded(pick(s)) + g[s \ {pick(s)}]]
            = [s \in SUBSET S |-> IF s = {} THEN 0 ELSE Logged[pick(s)] + g[s \ {pick(s)}]]
      BY <2>2, Zenon
    <2> QED BY <2>3, Zenon DEF AddsRecorded, SolvesSums
  <1>3. SolvesSums(count, Logged, S)
    BY <1>1, CountingSolves
  <1>4. count[S] = Cardinality(Marks(Logged, S))
    OBVIOUS
  <1> HIDE DEF count
  <1>5. AddsRecorded(count, S)
    BY <1>2, <1>3
  <1>6. AddsRecorded(added, S)
    BY <1>5
  <1>7. SolvesSums(added, Logged, S)
    BY <1>2, <1>6
  <1>8. added[S] = count[S]
    BY <1>3, <1>7, OneSolution
  <1>9. MapThenSumSet(Recorded, S) = added[S]
    BY DEF MapThenSumSet, MapThenFoldSet, AddsRecorded
  <1> QED BY <1>1, <1>4, <1>8, <1>9, SumCountsMarks

\* What a session owes its account covers what a reader is told of it.
LEMMA TurnsAreSwitches ==
  ASSUME TypeOK, TakenInTurns
  PROVE  LoggedOncePerSwitch
  <1> SUFFICES ASSUME NEW i \in Ids, NEW s \in SessionsOf(i)
               PROVE  Recorded(s) <= 1 + MapThenSumSet(Recorded, SessionsOf(i) \ {s})
    BY DEF LoggedOncePerSwitch
  <1> DEFINE Rest == SessionsOf(i) \ {s}
  <1>1. IsFiniteSet(Rest) /\ Rest \in SUBSET Sessions /\ s \in Sessions
    BY SessionsFinite, FS_RemoveElement
  <1>2. Recorded(s) <= Latest(i, s) + SumOf(Logged, Rest)
    BY DEF TakenInTurns
  <1>3. MapThenSumSet(Recorded, Rest) = SumOf(Logged, Rest)
    BY <1>1, RecordedSum
  <1>4. SumOf(Logged, Rest) \in Nat /\ Recorded(s) \in Nat /\ Latest(i, s) \in {0, 1}
    <2>1. \A t \in Rest : Logged[t] \in Nat
      BY <1>1, RecordedTyped DEF Logged
    <2> QED BY <1>1, <2>1, SumType, RecordedTyped DEF Latest
  <1> QED BY <1>2, <1>3, <1>4

\* Parallel requests of one session write one LOGIN entry between them: each
\* further one needs another session of the account to have been recorded in
\* between, however many sessions the account has.
THEOREM LoginsAreLoggedOnce == Spec => []LoggedOncePerSwitch
  <1>1. Init => TakenInTurns
    <2> SUFFICES ASSUME Init PROVE TakenInTurns
      OBVIOUS
    <2>1. ASSUME NEW s \in Sessions PROVE Recorded(s) = 0
      <3>1. {r \in Requests : req[r].op = "LOG" /\ req[r].session = s} = {}
        BY DEF Init, Idle
      <3>2. logins[s] = 0
        BY DEF Init
      <3>3. Cardinality({}) = 0
        BY FS_EmptySet
      <3>4. Recorded(s) = 0 + 0
        BY <3>1, <3>2, <3>3 DEF Recorded
      <3> QED BY <3>4
    <2>2. \A i \in Ids : SessionsOf(i) = {}
      BY DEF Init, SessionsOf
    <2> QED BY <2>1, <2>2 DEF TakenInTurns
  <1>2. TypeOK /\ Known /\ TypeOK' /\ TakenInTurns /\ [Next]_vars => TakenInTurns'
    BY EveryStep, LoginSteps, TurnsKept, TurnTaken
  <1>3. TypeOK /\ TakenInTurns => LoggedOncePerSwitch
    BY TurnsAreSwitches
  <1> QED BY <1>1, <1>2, <1>3, AccountsTypeCorrect, PTL DEF Spec

-----------------------------------------------------------------------------
(***************************************************************************)
(* The two stores.  An identity of an invitation has a request behind it   *)
(* until it has an account, is gone, or is in the log.  A suspension is in *)
(* Supabase from the moment the request goes on to the account, and unless *)
(* updates overlap the only request there is the one that wrote it.        *)
(***************************************************************************)
StoreOps == {"CREATE", "CLEAN_UP", "SUSPEND", "UPDATE"}

Invites(r, i) == req[r].op \in {"CREATE", "CLEAN_UP"} /\ req[r].id = i
Updates(r, i) == req[r].op \in {"SUSPEND", "UPDATE"} /\ req[r].id = i
Writes(r, i)  == req[r].op = "UPDATE" /\ req[r].id = i

Attended(i) ==
  Live(i) /\ identity[i].invited
  => HasAccount(i) \/ i \in unremoved \/ \E r \in Requests : Invites(r, i)

InStep(i) ==
  /\ Live(i) /\ ~HasAccount(i) => ~identity[i].banned
  /\ updates[i] # "OVERLAPPED"
     => /\ \A q, r \in Requests : Updates(q, i) /\ Updates(r, i) => q = r
        /\ Live(i) /\ HasAccount(i)
           => \A r \in Requests : Writes(r, i) => (identity[i].banned <=> ~req[r].active)
  /\ updates[i] = "SETTLED" /\ Live(i) /\ HasAccount(i) /\ (\A r \in Requests : ~Writes(r, i))
     => (identity[i].banned <=> ~account[i].active)

StoresFit(i) == Attended(i) /\ InStep(i)

\* What most steps leave as it is.
StoreSame(i) ==
  /\ Live(i)' <=> Live(i)
  /\ identity'[i].invited = identity[i].invited /\ identity'[i].banned = identity[i].banned
  /\ HasAccount(i)' <=> HasAccount(i)
  /\ HasAccount(i) => account'[i].active = account[i].active
  /\ updates'[i] = updates[i] /\ unremoved \subseteq unremoved'

RequestSame(q, i) ==
  /\ Invites(q, i)' <=> Invites(q, i)
  /\ Updates(q, i)' <=> Updates(q, i)
  /\ Writes(q, i)' <=> Writes(q, i)
  /\ Writes(q, i) => req'[q].active = req[q].active

LEMMA NothingForStores ==
  ASSUME NEW i \in Ids, StoresFit(i), StoreSame(i), \A q \in Requests : RequestSame(q, i)
  PROVE  StoresFit(i)'
  <1>1. Attended(i)'
    BY DEF StoresFit, Attended, StoreSame, RequestSame
  <1>2. (Live(i) /\ ~HasAccount(i) => ~identity[i].banned)'
    BY DEF StoresFit, InStep, StoreSame
  <1>3. ASSUME updates'[i] # "OVERLAPPED"
        PROVE  /\ \A q, r \in Requests : Updates(q, i)' /\ Updates(r, i)' => q = r
               /\ Live(i)' /\ HasAccount(i)'
                  => \A r \in Requests : Writes(r, i)' => (identity'[i].banned <=> ~req'[r].active)
    BY <1>3 DEF StoresFit, InStep, StoreSame, RequestSame
  <1>4. ASSUME updates'[i] = "SETTLED", Live(i)', HasAccount(i)', \A r \in Requests : ~Writes(r, i)'
        PROVE  identity'[i].banned <=> ~account'[i].active
    BY <1>4 DEF StoresFit, InStep, StoreSame, RequestSame
  <1> QED BY <1>1, <1>2, <1>3, <1>4 DEF StoresFit, InStep

\* Requests at work elsewhere, before and after a step of one of them.
LEMMA Elsewhere ==
  ASSUME TypeOK, NEW i \in Ids, NEW r \in Requests, NEW next, Continue(r, next),
         req[r].op \notin StoreOps \/ req[r].id # i, next.op \notin StoreOps \/ next.id # i
  PROVE  \A q \in Requests : RequestSame(q, i)
  <1>1. req'[r] = next /\ \A q \in Requests \ {r} : req'[q] = req[q]
    BY After
  <1> QED BY <1>1 DEF RequestSame, Invites, Updates, Writes, StoreOps

LEMMA RequestsKept ==
  ASSUME UNCHANGED req
  PROVE  \A i \in Ids, q \in Requests : RequestSame(q, i)
  BY DEF RequestSame, Invites, Updates, Writes

LEMMA SupabaseFits ==
  ASSUME TypeOK, Known, NEW i \in Ids, StoresFit(i), Supabase \/ UNCHANGED vars
  PROVE  StoresFit(i)'
  <1>1. \A q \in Requests : RequestSame(q, i)
    <2>1. UNCHANGED req
      BY DEF Supabase, SignUp, IssueToken, ChangeEmail, vars
    <2> QED BY <2>1, RequestsKept
  <1>2. ASSUME UNCHANGED <<account, updates, unremoved>>, identity'[i] = identity[i]
        PROVE  StoresFit(i)'
    BY <1>1, <1>2, NothingForStores DEF StoreSame, Live, HasAccount
  <1>3. ASSUME NEW j \in Ids, NEW e \in Emails, NEW b \in BOOLEAN, SignUp(j, e, b)
        PROVE  StoresFit(i)'
    <2>1. UNCHANGED <<account, updates, unremoved, req>> /\ NewIdentity(j, e, b, FALSE)
      BY <1>3 DEF SignUp
    <2>2. CASE j # i
      <3>1. identity'[i] = identity[i]
        BY <2>1, <2>2 DEF NewIdentity, TypeOK
      <3> QED BY <1>2, <2>1, <3>1
    <2>3. CASE j = i
      <3>1. ~identity'[i].invited /\ ~identity'[i].banned /\ identity[i].state = "NONE"
        BY <2>1, <2>3, IdentityInserted
      <3>2. ~HasAccount(i)
        BY <3>1 DEF Known
      <3>3. \A q \in Requests : ~Updates(q, i)
        BY <3>2 DEF Known, RequestKnown, Updates
      <3>4. ~HasAccount(i)' /\ \A q \in Requests : ~Updates(q, i)'
        BY <2>1, <3>2, <3>3 DEF HasAccount, Updates
      <3> QED BY <3>1, <3>4 DEF StoresFit, Attended, InStep
    <2> QED BY <2>2, <2>3
  <1>4. ASSUME NEW j \in Ids, NEW s \in Sessions, IssueToken(j, s) PROVE StoresFit(i)'
    BY <1>2, <1>4 DEF IssueToken
  <1>5. ASSUME NEW j \in Ids, NEW e \in Emails, ChangeEmail(j, e) PROVE StoresFit(i)'
    <2>1. /\ identity'[i].state = identity[i].state
          /\ identity'[i].invited = identity[i].invited /\ identity'[i].banned = identity[i].banned
      BY <1>5 DEF ChangeEmail, TypeOK, Identity
    <2>2. UNCHANGED <<account, updates, unremoved>>
      BY <1>5 DEF ChangeEmail
    <2> QED BY <1>1, <2>1, <2>2, NothingForStores DEF StoreSame, Live, HasAccount
  <1>6. CASE UNCHANGED vars
    BY <1>2, <1>6 DEF vars
  <1> QED BY <1>3, <1>4, <1>5, <1>6 DEF Supabase

LEMMA RowWritten ==
  ASSUME TypeOK, NEW i \in Ids, NEW j \in Ids, HasAccount(j), NEW row \in Account, Written(j, row),
         row.active = account[j].active
  PROVE  /\ HasAccount(i)' <=> HasAccount(i)
         /\ HasAccount(i) => account'[i].active = account[i].active
  BY WrittenHas

\* Requests with a token touch neither the ban nor `active`; one that creates an
\* account creates it active, and its identity has never been banned.
LEMMA SessionsFit ==
  ASSUME TypeOK, Known, NEW i \in Ids, StoresFit(i), NEW r \in Requests,
         OpenTradeAccount(r) \/ RecordSession(r) \/ LogLogin(r) \/ FollowEmail(r)
  PROVE  StoresFit(i)'
  <1>0. req[r].token \in Token /\ req[r].session \in Sessions /\ req[r].op \in WithRow
    BY ByOp DEF OpenTradeAccount, RecordSession, LogLogin, FollowEmail, WithRow, Recording
  <1> PICK j \in Ids : j = req[r].token.id
    BY <1>0 DEF Token
  <1>1. HasAccount(j) /\ account[j] \in Account
    BY <1>0, AccountsTyped DEF Known, RequestKnown
  <1>2. UNCHANGED <<identity, updates, unremoved>>
    BY DEF OpenTradeAccount, RecordSession, LogLogin, FollowEmail
  <1>3. /\ HasAccount(i)' <=> HasAccount(i)
        /\ HasAccount(i) => account'[i].active = account[i].active
    <2>1. CASE UNCHANGED account
      BY <2>1 DEF HasAccount
    <2>2. CASE RecordSession(r)
      <3>1. PICK row \in Account : row = [account[j] EXCEPT !.session = req[r].session]
        BY <1>0, <1>1, AccountChanges
      <3>2. row.active = account[j].active
        BY <1>1, <3>1 DEF Account
      <3>3. UNCHANGED account \/ Written(j, row)
        BY <2>2, <3>1 DEF RecordSession, Written
      <3> QED BY <1>1, <2>1, <3>2, <3>3, RowWritten
    <2>3. CASE FollowEmail(r)
      <3>1. Followed(r) \in Emails
        BY <1>0, <1>1 DEF Followed, Token, Account
      <3>2. PICK row \in Account : row = [account[j] EXCEPT !.email = Followed(r)]
        BY <1>1, <3>1, AccountChanges
      <3>3. row.active = account[j].active
        BY <1>1, <3>2 DEF Account
      <3>4. Written(j, row)
        BY <2>3, <3>2 DEF FollowEmail, Written
      <3> QED BY <1>1, <3>3, <3>4, RowWritten
    <2> QED BY <2>1, <2>2, <2>3 DEF OpenTradeAccount, LogLogin
  <1>4. PICK next : Continue(r, next) /\ next.op \notin StoreOps
    BY DEF OpenTradeAccount, RecordSession, LogLogin, FollowEmail, With, End, Idle, StoreOps
  <1>5. \A q \in Requests : RequestSame(q, i)
    BY <1>0, <1>4, Elsewhere DEF WithRow, StoreOps
  <1>6. StoreSame(i)
    BY <1>2, <1>3 DEF StoreSame, Live
  <1> QED BY <1>5, <1>6, NothingForStores

\* The account of an identity that had none.
LEMMA NewAccountFits ==
  ASSUME TypeOK, Known, NEW i \in Ids, StoresFit(i), NEW r \in Requests, NEW next, Continue(r, next),
         NEW j \in Ids, ~HasAccount(j), NEW e \in Emails, Written(j, NewAccount(e)),
         UNCHANGED <<identity, updates, unremoved>>,
         req[r].op \notin StoreOps \/ req[r].id = j, next.op \notin StoreOps
  PROVE  StoresFit(i)'
  <1>1. /\ account'[j] = NewAccount(e) /\ HasAccount(j)'
        /\ \A k \in Ids \ {j} : account'[k] = account[k] /\ (HasAccount(k)' <=> HasAccount(k))
    BY WrittenHas, NewAccountTyped
  <1>2. req'[r] = next /\ \A q \in Requests \ {r} : req'[q] = req[q]
    BY After
  <1>3. CASE i = j
    <2>1. \A q \in Requests : ~Updates(q, i)
      BY <1>3 DEF Known, RequestKnown, Updates
    <2>2. \A q \in Requests : ~Updates(q, i)' /\ ~Writes(q, i)'
      BY <1>2, <2>1 DEF Updates, Writes, StoreOps
    <2>3. Attended(i)'
      BY <1>1, <1>3 DEF Attended
    <2>4. Live(i)' => ~identity'[i].banned /\ account'[i].active
      BY <1>1, <1>3, NewAccountTyped DEF StoresFit, InStep, Live
    <2> QED BY <1>1, <1>3, <2>2, <2>3, <2>4 DEF StoresFit, InStep
  <1>4. CASE i # j
    <2>1. StoreSame(i)
      BY <1>1, <1>4 DEF StoreSame, Live
    <2>2. \A q \in Requests : RequestSame(q, i)
      BY <1>4, Elsewhere
    <2> QED BY <2>1, <2>2, NothingForStores
  <1> QED BY <1>3, <1>4

LEMMA ProvisionFits ==
  ASSUME TypeOK, Known, NEW i \in Ids, StoresFit(i), NEW r \in Requests, Provision(r)
  PROVE  StoresFit(i)'
  <1>0. req[r].token.id \in Ids /\ req[r].op = "PROVISION"
    BY ByOp DEF Provision, Resolving, Token
  <1> PICK j \in Ids : j = req[r].token.id
    BY <1>0
  <1>1. PICK e \in ProvisionEmails(r) :
          \/ /\ ~HasAccount(j) /\ Written(j, NewAccount(e))
             /\ Continue(r, AfterInsert(r, j, NewAccount(e)))
          \/ UNCHANGED account /\ Continue(r, AfterConflict(r, j, account[j]))
          \/ UNCHANGED account /\ End(r)
    BY DEF Provision, Written
  <1>2. UNCHANGED <<identity, updates, unremoved>> /\ e \in Emails
    BY ByOp DEF Provision, ProvisionEmails, Resolving, Token, Known
  <1>3. PICK next : /\ Continue(r, next) /\ next.op \notin StoreOps
                    /\ UNCHANGED account \/ (~HasAccount(j) /\ Written(j, NewAccount(e)))
    BY <1>1 DEF AfterInsert, AfterConflict, With, End, Idle, StoreOps
  <1>4. CASE UNCHANGED account
    <2>1. StoreSame(i)
      BY <1>2, <1>4 DEF StoreSame, Live, HasAccount
    <2>2. \A q \in Requests : RequestSame(q, i)
      BY <1>0, <1>3, Elsewhere DEF StoreOps
    <2> QED BY <2>1, <2>2, NothingForStores
  <1>5. CASE ~HasAccount(j) /\ Written(j, NewAccount(e))
    BY <1>0, <1>2, <1>3, <1>5, NewAccountFits DEF StoreOps
  <1> QED BY <1>3, <1>4, <1>5

LEMMA InvitationFits ==
  ASSUME TypeOK, Known, NEW i \in Ids, StoresFit(i), NEW r \in Requests, InviteIdentity(r)
  PROVE  StoresFit(i)'
  <1>0. /\ UNCHANGED <<account, updates>> /\ unremoved \subseteq unremoved'
        /\ req[r].op = "INVITE" /\ req[r].email \in Emails
    BY ByOp DEF InviteIdentity, Inviting
  <1>1. ASSUME NEW j \in Ids, NewIdentity(j, req[r].email, FALSE, TRUE), NEW next, Continue(r, next),
               \/ next = [op |-> "CREATE", id |-> j, email |-> req[r].email]
               \/ next = Idle /\ j \in unremoved'
        PROVE  StoresFit(i)'
    <2>1. req'[r] = next /\ \A q \in Requests \ {r} : req'[q] = req[q]
      BY <1>1, After
    <2>2. CASE j = i
      <3>1. ~identity'[i].banned /\ identity[i].state = "NONE"
        BY <1>0, <1>1, <2>2, IdentityInserted
      <3>2. ~HasAccount(i)
        BY <3>1 DEF Known
      <3>3. \A q \in Requests : ~Updates(q, i)
        BY <3>2 DEF Known, RequestKnown, Updates
      <3>4. ~HasAccount(i)' /\ \A q \in Requests : ~Updates(q, i)'
        BY <1>0, <1>1, <2>1, <3>2, <3>3 DEF HasAccount, Updates, Idle
      <3>5. Invites(r, i)' \/ i \in unremoved'
        BY <1>1, <2>1, <2>2 DEF Invites
      <3>6. Attended(i)'
        BY <3>5 DEF Attended
      <3> QED BY <3>1, <3>4, <3>6 DEF StoresFit, InStep
    <2>3. CASE j # i
      <3>1. identity'[i] = identity[i]
        BY <1>1, <2>3 DEF NewIdentity, TypeOK
      <3>2. StoreSame(i)
        BY <1>0, <3>1 DEF StoreSame, Live, HasAccount
      <3>3. \A q \in Requests : RequestSame(q, i)
        BY <1>0, <1>1, <2>1, <2>3 DEF RequestSame, Invites, Updates, Writes, Idle
      <3> QED BY <3>2, <3>3, NothingForStores
    <2> QED BY <2>2, <2>3
  <1>2. CASE End(r) /\ UNCHANGED identity
    <2>1. StoreSame(i)
      BY <1>0, <1>2 DEF StoreSame, Live, HasAccount
    <2>2. Idle.op \notin StoreOps
      BY DEF Idle, StoreOps
    <2>3. \A q \in Requests : RequestSame(q, i)
      BY <1>0, <1>2, <2>2, Elsewhere DEF End, StoreOps
    <2> QED BY <2>1, <2>3, NothingForStores
  <1> QED BY <1>1, <1>2 DEF InviteIdentity, End

LEMMA CreationFits ==
  ASSUME TypeOK, Known, NEW i \in Ids, StoresFit(i), NEW r \in Requests, CreateAccount(r)
  PROVE  StoresFit(i)'
  <1>0. /\ req[r] \in Creating /\ req[r].id \in Ids /\ req[r].email \in Emails /\ req[r].op = "CREATE"
        /\ UNCHANGED <<identity, updates, unremoved>>
    BY ByOp DEF CreateAccount, Creating
  <1> PICK j \in Ids : j = req[r].id
    BY <1>0
  <1> PICK e \in Emails : e = req[r].email
    BY <1>0
  <1>1. CASE ~HasAccount(j) /\ Written(j, NewAccount(e)) /\ End(r)
    <2>1. Continue(r, Idle) /\ Idle.op \notin StoreOps
      BY <1>1 DEF End, Idle, StoreOps
    <2> QED BY <1>0, <1>1, <2>1, NewAccountFits
  <1>2. CASE Continue(r, AfterRefusal(r)) /\ UNCHANGED account
    <2>1. AfterRefusal(r).op = "CLEAN_UP" /\ AfterRefusal(r).id = j
      BY <1>0 DEF AfterRefusal, Creating
    <2>2. req'[r] = AfterRefusal(r) /\ \A q \in Requests \ {r} : req'[q] = req[q]
      BY <1>2, After
    <2>3. \A q \in Requests : RequestSame(q, i)
      BY <1>0, <2>1, <2>2 DEF RequestSame, Invites, Updates, Writes
    <2>4. StoreSame(i)
      BY <1>0, <1>2 DEF StoreSame, Live, HasAccount
    <2> QED BY <2>3, <2>4, NothingForStores
  <1> QED BY <1>1, <1>2 DEF CreateAccount, Written

LEMMA CleanUpFits ==
  ASSUME TypeOK, Known, NEW i \in Ids, StoresFit(i), NEW r \in Requests, DeleteIdentity(r)
  PROVE  StoresFit(i)'
  <1>0. req[r].id \in Ids /\ req[r].op = "CLEAN_UP" /\ UNCHANGED <<account, updates>>
    BY ByOp DEF DeleteIdentity, Creating
  <1> PICK j \in Ids : j = req[r].id
    BY <1>0
  <1>1. req'[r] = Idle /\ \A q \in Requests \ {r} : req'[q] = req[q]
    BY After DEF DeleteIdentity, End
  <1>2. \A q \in Requests : /\ Updates(q, i)' <=> Updates(q, i)
                            /\ Writes(q, i)' <=> Writes(q, i)
                            /\ Writes(q, i) => req'[q].active = req[q].active
    BY <1>0, <1>1 DEF Updates, Writes, Idle
  <1>3. CASE j # i
    <2>1. identity'[i] = identity[i] /\ unremoved \subseteq unremoved'
      BY <1>3 DEF DeleteIdentity, TypeOK
    <2>2. StoreSame(i)
      BY <1>0, <2>1 DEF StoreSame, Live, HasAccount
    <2>3. \A q \in Requests : RequestSame(q, i)
      BY <1>0, <1>1, <1>2, <1>3 DEF RequestSame, Invites, Idle
    <2> QED BY <2>2, <2>3, NothingForStores
  <1>4. CASE j = i /\ ~Live(i)'
    BY <1>0, <1>2, <1>4 DEF StoresFit, Attended, InStep
  <1>5. CASE j = i /\ UNCHANGED identity /\ i \in unremoved'
    <2>1. Attended(i)'
      BY <1>5 DEF Attended
    <2> QED BY <1>0, <1>2, <1>5, <2>1 DEF StoresFit, InStep, Live, HasAccount
  <1>6. j = i => ~Live(i)' \/ (UNCHANGED identity /\ i \in unremoved')
    BY DEF DeleteIdentity, Live, TypeOK, Identity
  <1> QED BY <1>3, <1>4, <1>5, <1>6

\* The ban is written while the request holds on to what it will write next.
LEMMA SuspensionFits ==
  ASSUME TypeOK, Known, NEW i \in Ids, StoresFit(i), NEW r \in Requests, SetSuspended(r)
  PROVE  StoresFit(i)'
  <1>0. /\ req[r] \in Updating /\ req[r].id \in Ids /\ req[r].active \in BOOLEAN
        /\ req[r].op = "SUSPEND" /\ UNCHANGED <<account, unremoved>>
    BY ByOp DEF SetSuspended, Updating
  <1> PICK j \in Ids, active \in BOOLEAN : j = req[r].id /\ active = req[r].active
    BY <1>0
  <1>1. PICK next : /\ Continue(r, next)
                    /\ \/ /\ next.op = "UPDATE" /\ next.id = j /\ next.active = active
                          /\ identity'[j].banned = IF Live(j) THEN ~active ELSE identity[j].banned
                          /\ UNCHANGED updates
                       \/ next = Idle /\ UNCHANGED <<identity, updates>>
                       \/ next = Idle /\ Ended(j, "UNSETTLED")
    <2>1. LET next == [req[r] EXCEPT !.op = "UPDATE"]
          IN  next.op = "UPDATE" /\ next.id = j /\ next.active = active
      BY <1>0 DEF Updating
    <2>2. \/ /\ Continue(r, [req[r] EXCEPT !.op = "UPDATE"]) /\ UNCHANGED updates
             /\ identity'[j].banned = IF Live(j) THEN ~active ELSE identity[j].banned
          \/ Continue(r, Idle) /\ UNCHANGED <<identity, updates>>
          \/ Continue(r, Idle) /\ Ended(j, "UNSETTLED")
      BY DEF SetSuspended, AfterSuspensionFails, TypeOK, Identity, End
    <2> QED BY <2>1, <2>2
  <1>2. /\ \A k \in Ids : /\ identity'[k].state = identity[k].state
                          /\ identity'[k].invited = identity[k].invited
        /\ \A k \in Ids \ {j} : identity'[k] = identity[k] /\ updates'[k] = updates[k]
    <2>1. \A k \in Ids \ {j} : updates'[k] = updates[k]
      BY <1>1, EndedTyped DEF Went
    <2>2. /\ \A k \in Ids : /\ identity'[k].state = identity[k].state
                            /\ identity'[k].invited = identity[k].invited
          /\ \A k \in Ids \ {j} : identity'[k] = identity[k]
      BY DEF SetSuspended, TypeOK, Identity
    <2> QED BY <2>1, <2>2
  <1>3. req'[r] = next /\ \A q \in Requests \ {r} : req'[q] = req[q]
    BY <1>1, After
  <1>4. CASE j # i
    <2>1. StoreSame(i)
      BY <1>0, <1>2, <1>4 DEF StoreSame, Live, HasAccount
    <2>2. \A q \in Requests : RequestSame(q, i)
      BY <1>0, <1>1, <1>3, <1>4 DEF RequestSame, Invites, Updates, Writes, Idle
    <2> QED BY <2>1, <2>2, NothingForStores
  <1>5. CASE j = i
    <2>1. /\ Live(i)' <=> Live(i)
          /\ HasAccount(i)' <=> HasAccount(i)
          /\ HasAccount(i)
      BY <1>0, <1>2, <1>5 DEF Live, HasAccount, Known, RequestKnown
    <2>2. Attended(i)'
      BY <2>1 DEF Attended
    <2>3. CASE /\ next.op = "UPDATE" /\ next.id = j /\ next.active = active
               /\ identity'[j].banned = IF Live(j) THEN ~active ELSE identity[j].banned
               /\ UNCHANGED updates
      <3>1. /\ \A q \in Requests : Updates(q, i)' <=> Updates(q, i)
            /\ Writes(r, i)' /\ req'[r].active = active
            /\ \A q \in Requests : Writes(q, i)' => Updates(q, i)
            /\ Updates(r, i)
        BY <1>0, <1>3, <1>5, <2>3 DEF Updates, Writes
      <3>2. Live(i) => (identity'[i].banned <=> ~active)
        BY <1>5, <2>3
      <3>3. updates[i] # "OVERLAPPED" => \A q \in Requests : Writes(q, i)' => q = r
        BY <3>1 DEF StoresFit, InStep
      <3> QED BY <1>0, <2>1, <2>2, <2>3, <3>1, <3>2, <3>3 DEF StoresFit, InStep
    <2>4. CASE next = Idle /\ UNCHANGED <<identity, updates>>
      <3>1. \A q \in Requests : /\ Updates(q, i)' => Updates(q, i)
                                /\ Writes(q, i)' <=> Writes(q, i)
                                /\ Writes(q, i) => req'[q].active = req[q].active
        BY <1>0, <1>3, <2>4 DEF Updates, Writes, Idle
      <3> QED BY <1>0, <2>1, <2>2, <2>4, <3>1 DEF StoresFit, InStep
    <2>5. CASE next = Idle /\ Ended(j, "UNSETTLED")
      <3>1. /\ \A q \in Requests : /\ Updates(q, i)' => Updates(q, i) /\ q # r
                                   /\ Writes(q, i)' => Updates(q, i)'
            /\ Updates(r, i)
        BY <1>0, <1>3, <1>5, <2>5 DEF Updates, Writes, Idle
      <3>2. updates'[i] = IF updates[i] = "OVERLAPPED" THEN "OVERLAPPED" ELSE "UNSETTLED"
        BY <1>5, <2>5, EndedTyped DEF Went
      <3>3. updates'[i] # "OVERLAPPED" => \A q \in Requests : ~Updates(q, i)' /\ ~Writes(q, i)'
        BY <3>1, <3>2 DEF StoresFit, InStep
      <3> QED BY <2>1, <2>2, <3>2, <3>3 DEF StoresFit, InStep
    <2> QED BY <1>1, <2>3, <2>4, <2>5
  <1> QED BY <1>4, <1>5

\* The account follows the ban, unless another update came in between.
LEMMA UpdateFits ==
  ASSUME TypeOK, Known, NEW i \in Ids, StoresFit(i), NEW r \in Requests, UpdateAccount(r)
  PROVE  StoresFit(i)'
  <1>0. /\ req[r].id \in Ids /\ req[r].active \in BOOLEAN /\ req[r].op = "UPDATE"
        /\ UNCHANGED <<identity, unremoved>>
    BY ByOp DEF UpdateAccount, Updating
  <1> PICK j \in Ids, active \in BOOLEAN : j = req[r].id /\ active = req[r].active
    BY <1>0
  <1>1. HasAccount(j) /\ account[j] \in Account
    BY <1>0, AccountsTyped DEF Known, RequestKnown
  <1>2. PICK row \in Account : row = [account[j] EXCEPT !.active = active]
    BY <1>1, AccountChanges
  <1>3. \/ row.active = active /\ Written(j, row) /\ Ended(j, "SETTLED")
        \/ UNCHANGED account /\ Ended(j, "UNSETTLED")
    BY <1>1, <1>2 DEF Account, UpdateAccount, Written
  <1>4. /\ HasAccount(j)' /\ (Written(j, row) => account'[j] = row)
        /\ \A k \in Ids \ {j} : /\ account'[k] = account[k] /\ updates'[k] = updates[k]
                                /\ (HasAccount(k)' <=> HasAccount(k))
    BY <1>1, <1>3, WrittenHas, EndedTyped DEF Went, HasAccount
  <1>5. req'[r] = Idle /\ \A q \in Requests \ {r} : req'[q] = req[q]
    BY After DEF UpdateAccount, End
  <1>6. CASE j # i
    <2>1. StoreSame(i)
      BY <1>0, <1>4, <1>6 DEF StoreSame, Live
    <2>2. \A q \in Requests : RequestSame(q, i)
      BY <1>0, <1>5, <1>6 DEF RequestSame, Invites, Updates, Writes, Idle
    <2> QED BY <2>1, <2>2, NothingForStores
  <1>7. CASE j = i
    <2>1. Attended(i)'
      BY <1>4, <1>7 DEF Attended
    <2>2. /\ Writes(r, i) /\ Updates(r, i)
          /\ \A q \in Requests : Updates(q, i)' => Updates(q, i) /\ q # r
          /\ \A q \in Requests : Writes(q, i)' => Updates(q, i)'
      BY <1>0, <1>5, <1>7 DEF Updates, Writes, Idle
    <2>3. updates[i] # "OVERLAPPED" => \A q \in Requests : ~Updates(q, i)' /\ ~Writes(q, i)'
      BY <2>2 DEF StoresFit, InStep
    <2>4. updates[i] # "OVERLAPPED" /\ Live(i) => (identity[i].banned <=> ~active)
      BY <1>1, <1>7, <2>2 DEF StoresFit, InStep
    <2>5. (Live(i)' <=> Live(i)) /\ identity'[i].banned = identity[i].banned /\ HasAccount(i)'
      BY <1>0, <1>4, <1>7 DEF Live
    <2>6. CASE Written(j, row) /\ row.active = active /\ Ended(j, "SETTLED")
      <3>1. /\ account'[i].active = active
            /\ updates'[i] = IF updates[i] = "OVERLAPPED" THEN "OVERLAPPED" ELSE "SETTLED"
        BY <1>4, <1>7, <2>6, EndedTyped DEF Went
      <3> QED BY <2>1, <2>3, <2>4, <2>5, <3>1 DEF StoresFit, InStep
    <2>7. CASE Ended(j, "UNSETTLED")
      <3>1. updates'[i] = IF updates[i] = "OVERLAPPED" THEN "OVERLAPPED" ELSE "UNSETTLED"
        BY <1>7, <2>7, EndedTyped DEF Went
      <3> QED BY <2>1, <2>3, <2>5, <3>1 DEF StoresFit, InStep
    <2> QED BY <1>3, <2>6, <2>7
  <1> QED BY <1>6, <1>7

LEMMA BeginFits ==
  ASSUME TypeOK, Known, NEW i \in Ids, StoresFit(i), NEW r \in Requests, Begin(r)
  PROVE  StoresFit(i)'
  <1>0. req[r] = Idle /\ UNCHANGED <<identity, account, unremoved>>
    BY DEF Begin, BeginResolve, BeginInvite, BeginUpdate
  <1>1. CASE UNCHANGED updates /\ \E next : Continue(r, next) /\ next.op \notin StoreOps
    <2>1. StoreSame(i)
      BY <1>0, <1>1 DEF StoreSame, Live, HasAccount
    <2>2. \A q \in Requests : RequestSame(q, i)
      BY <1>0, <1>1, Elsewhere DEF Idle, StoreOps
    <2> QED BY <2>1, <2>2, NothingForStores
  <1>2. ASSUME NEW j \in Managed, NEW active \in BOOLEAN, BeginUpdate(r, j, active)
        PROVE  StoresFit(i)'
    <2>0. j \in Ids
      BY AccountConstants
    <2>1. /\ req'[r] = [op |-> "SUSPEND", id |-> j, active |-> active]
          /\ \A q \in Requests \ {r} : req'[q] = req[q]
      BY <1>2, After DEF BeginUpdate
    <2>2. /\ \A k \in Ids \ {j} : updates'[k] = updates[k]
          /\ updates'[j] # "OVERLAPPED" => \A q \in Requests : ~Updates(q, j)
          /\ updates'[j] = "SETTLED" => updates[j] = "SETTLED"
      BY <1>2, <2>0 DEF BeginUpdate, UpdatesOf, Updates, TypeOK
    <2>4. CASE j # i
      <3>1. \A q \in Requests : RequestSame(q, i)
        BY <1>0, <2>1, <2>4 DEF RequestSame, Invites, Updates, Writes, Idle
      <3>2. StoreSame(i)
        BY <1>0, <2>2, <2>4 DEF StoreSame, Live, HasAccount
      <3> QED BY <3>1, <3>2, NothingForStores
    <2>5. CASE j = i
      <3>1. \A q \in Requests : /\ Invites(q, i)' <=> Invites(q, i)
                                /\ Writes(q, i)' <=> Writes(q, i)
                                /\ Writes(q, i) => req'[q].active = req[q].active /\ Updates(q, i)
                                /\ Updates(q, i)' => Updates(q, i) \/ q = r
        BY <1>0, <2>1 DEF Invites, Updates, Writes, Idle
      <3>2. Attended(i)'
        BY <1>0, <3>1 DEF StoresFit, Attended, Live, HasAccount
      <3>3. updates'[i] # "OVERLAPPED"
            => \A q \in Requests : ~Writes(q, i)' /\ (Updates(q, i)' => q = r)
        BY <2>2, <2>5, <3>1
      <3>4. /\ Live(i)' <=> Live(i)
            /\ HasAccount(i)' <=> HasAccount(i)
        BY <1>0 DEF Live, HasAccount
      <3> QED BY <1>0, <2>2, <2>5, <3>1, <3>2, <3>3, <3>4 DEF StoresFit, InStep
    <2> QED BY <2>4, <2>5
  <1>3. ASSUME NEW s \in Sessions, BeginResolve(r, s)
        PROVE  UNCHANGED updates /\ \E next : Continue(r, next) /\ next.op \notin StoreOps
    <2>1. UNCHANGED updates
      BY <1>3 DEF BeginResolve
    <2>2. \/ Continue(r, [op |-> "RECORD", token |-> token[s], session |-> s,
                          read |-> [email |-> account[token[s].id].email,
                                    session |-> account[token[s].id].session]])
          \/ Continue(r, [op |-> "PROVISION", token |-> token[s], session |-> s])
      BY <1>3 DEF BeginResolve
    <2> QED BY <2>1, <2>2 DEF StoreOps
  <1>4. ASSUME NEW e \in Emails, BeginInvite(r, e)
        PROVE  UNCHANGED updates /\ \E next : Continue(r, next) /\ next.op \notin StoreOps
    BY <1>4 DEF BeginInvite, StoreOps
  <1> QED BY <1>1, <1>2, <1>3, <1>4 DEF Begin

\* Supabase and the users table tell the same of every person, but for what a
\* failed call left in the one alone and what overlapping updates did: an
\* invitation leaves no identity without an account behind, and a suspension is in
\* both stores or in neither once an update has gone through by itself.
THEOREM TheStoresAgree == Spec => []StoresAgree
  <1> DEFINE Fit == \A i \in Ids : StoresFit(i)
  <1>1. Init => Fit
    BY DEF Init, StoresFit, Attended, InStep, Live, HasAccount, Updates, Idle
  <1>2. TypeOK /\ Known /\ Fit /\ [Next]_vars => Fit'
    <2> SUFFICES ASSUME TypeOK, Known, Fit, [Next]_vars, NEW i \in Ids PROVE StoresFit(i)'
      OBVIOUS
    <2>1. StoresFit(i)
      OBVIOUS
    <2> HIDE DEF Fit
    <2>2. CASE Supabase \/ UNCHANGED vars
      BY <2>1, <2>2, SupabaseFits
    <2>3. ASSUME NEW r \in Requests, Begin(r) \/ GoOn(r) PROVE StoresFit(i)'
      BY <2>1, <2>3, BeginFits, SessionsFit, ProvisionFits, InvitationFits, CreationFits,
         CleanUpFits, SuspensionFits, UpdateFits DEF GoOn
    <2> QED BY <2>2, <2>3 DEF Next
  <1>3. TypeOK /\ Fit => StoresAgree
    <2> SUFFICES ASSUME TypeOK, Fit PROVE StoresAgree
      OBVIOUS
    <2>1. \A i \in Ids : Attended(i) /\ InStep(i)
      BY DEF StoresFit
    <2>2. NoHalfInvitation
      <3>1. \A i \in Ids, r \in Requests : Invites(r, i) => r \in InFlight({"CREATE", "CLEAN_UP"}, i)
        BY DEF Invites, InFlight
      <3> QED BY <2>1, <3>1 DEF NoHalfInvitation, Attended
    <2>3. SuspendedInBothStores
      <3> SUFFICES ASSUME NEW i \in Ids, updates[i] = "SETTLED", Live(i), HasAccount(i), UpdatesOf(i) = {}
                   PROVE  identity[i].banned = ~account[i].active
        BY DEF SuspendedInBothStores
      <3>1. \A r \in Requests : ~Writes(r, i)
        BY DEF UpdatesOf, Writes
      <3>2. identity[i].banned <=> ~account[i].active
        BY <2>1, <3>1 DEF InStep
      <3>3. identity[i].banned \in BOOLEAN /\ account[i].active \in BOOLEAN
        BY AccountsTyped DEF TypeOK, Identity, Account
      <3> QED BY <3>2, <3>3
    <2> QED BY <2>2, <2>3 DEF StoresAgree
  <1> HIDE DEF Fit
  <1> QED BY <1>1, <1>2, <1>3, AccountsTypeCorrect, PTL DEF Spec

=============================================================================
