------------------------------ MODULE Accounts ------------------------------
(***************************************************************************)
(* Platform accounts and the Supabase identities behind them.  An identity *)
(* lives in Supabase; the API gives it an account on its first request,    *)
(* follows its sessions and its email on later ones, invites people by     *)
(* creating the identity first and the account second, and suspends both.  *)
(* Two stores with no transaction across them: every await between them is *)
(* a place where another request may come in.                              *)
(***************************************************************************)
EXTENDS Integers, FiniteSets, FiniteSetsExt

CONSTANTS
  Ids,          \* ids an identity, and the account of it, can have
  Emails,
  Sessions,     \* Supabase sessions, each with its current access token
  Requests,     \* request slots: how many requests are in flight at once
  MaxLogins,    \* bound: LOGIN entries of a session in the audit log
  Managed,      \* bound: the ids whose accounts administrators update
  NoAccount, NoToken, NoSession, NoEmail

ASSUME AccountConstants ==
  /\ IsFiniteSet(Sessions) /\ IsFiniteSet(Requests)
  /\ MaxLogins \in Nat /\ Managed \subseteq Ids
  /\ NoSession \notin Sessions /\ NoEmail \notin Emails

VARIABLES
  identity,     \* [Ids -> what Supabase holds]
  token,        \* [Sessions -> the claims of the session's access token]
  account,      \* [Ids -> the row of the users table, or NoAccount]
  trades,       \* [Ids -> trade accounts opened, or refused, at sign-up]
  logins,       \* [Sessions -> LOGIN entries in the audit log]
  updates,      \* [Ids -> how the administrator updates of the account went last]
  unremoved,    \* ids left behind in Supabase by a call that failed: the API logs them
  req           \* [Requests -> what a request is about to do]

vars == <<identity, token, account, trades, logins, updates, unremoved, req>>

Identity == [state : {"NONE", "LIVE", "DELETED"}, email : Emails \cup {NoEmail},
             banned : BOOLEAN, business : BOOLEAN, invited : BOOLEAN]
Token    == [id : Ids, email : Emails]
Account  == [email : Emails, active : BOOLEAN, session : Sessions \cup {NoSession}]
Row      == [email : Emails, session : Sessions \cup {NoSession}]   \* what a request keeps

\* "No row" and "no token" are not rows and tokens.
ASSUME AccountNothing == NoAccount \notin Account /\ NoToken \notin Token

Idle == [op |-> "IDLE"]

\* A request with a token: provisioning, then recordSession on the row it read.
Resolving == [op : {"PROVISION"}, token : Token, session : Sessions]
Recording == [op : {"TRADE", "RECORD", "LOG", "FOLLOW"},
              token : Token, session : Sessions, read : Row]
\* An invitation, and an administrator's update of `active`.
Inviting  == [op : {"INVITE"}, email : Emails]
Creating  == [op : {"CREATE", "CLEAN_UP"}, id : Ids, email : Emails]
Updating  == [op : {"SUSPEND", "UPDATE"}, id : Ids, active : BOOLEAN]

\* The last update went through, or changed the identity and then failed; or two
\* were in flight together, and none alone since.
Went == {"SETTLED", "UNSETTLED", "OVERLAPPED"}

TypeOK ==
  /\ identity \in [Ids -> Identity]
  /\ token \in [Sessions -> Token \cup {NoToken}]
  /\ account \in [Ids -> Account \cup {NoAccount}]
  /\ trades \in [Ids -> Nat]
  /\ logins \in [Sessions -> 0..MaxLogins]
  /\ updates \in [Ids -> Went] /\ unremoved \subseteq Ids
  /\ req \in [Requests -> {Idle} \cup Resolving \cup Recording
                            \cup Inviting \cup Creating \cup Updating]

-----------------------------------------------------------------------------
HasAccount(i) == account[i] # NoAccount
Live(i)       == identity[i].state = "LIVE"

\* `email` is unique in Supabase among its identities, and in the users table.
IdentityWith(e) == {i \in Ids : Live(i) /\ identity[i].email = e}
AccountWith(e)  == {i \in Ids : HasAccount(i) /\ account[i].email = e}

Continue(r, next) == req' = [req EXCEPT ![r] = next]
End(r)            == Continue(r, Idle)

\* What the request does next with the row it holds.
With(r, op, row) ==
  [op |-> op, token |-> req[r].token, session |-> req[r].session,
   read |-> [email |-> row.email, session |-> row.session]]

Init ==
  /\ identity = [i \in Ids |-> [state |-> "NONE", email |-> NoEmail, banned |-> FALSE,
                                business |-> FALSE, invited |-> FALSE]]
  /\ token = [s \in Sessions |-> NoToken]
  /\ account = [i \in Ids |-> NoAccount]
  /\ trades = [i \in Ids |-> 0]
  /\ logins = [s \in Sessions |-> 0]
  /\ updates = [i \in Ids |-> "SETTLED"] /\ unremoved = {}
  /\ req = [r \in Requests |-> Idle]

-----------------------------------------------------------------------------
(***************************************************************************)
(* Supabase: what people do there, seen by the API only through tokens.    *)
(***************************************************************************)
NewIdentity(i, e, business, invited) ==
  /\ identity[i].state = "NONE"
  /\ IdentityWith(e) = {}
  /\ identity' = [identity EXCEPT
       ![i] = [state |-> "LIVE", email |-> e, banned |-> FALSE,
               business |-> business, invited |-> invited]]

SignUp(i, e, business) ==
  /\ NewIdentity(i, e, business, FALSE)
  /\ UNCHANGED <<token, account, trades, logins, updates, unremoved, req>>

\* A new session, or a refresh of one: the token carries the email of the moment
\* and stays good, with it, until the next refresh.
IssueToken(i, s) ==
  /\ Live(i) /\ ~identity[i].banned
  /\ token[s] \in {NoToken} \cup [id : {i}, email : Emails \ {identity[i].email}]
  /\ token' = [token EXCEPT ![s] = [id |-> i, email |-> identity[i].email]]
  /\ UNCHANGED <<identity, account, trades, logins, updates, unremoved, req>>

ChangeEmail(i, e) ==
  /\ Live(i)
  /\ IdentityWith(e) = {}
  /\ identity' = [identity EXCEPT ![i].email = e]
  /\ UNCHANGED <<token, account, trades, logins, updates, unremoved, req>>

-----------------------------------------------------------------------------
(***************************************************************************)
(* A request with a token: AuthenticationGuard, resolve, provision,        *)
(* recordSession.                                                          *)
(***************************************************************************)
\* The token verifies offline, so neither a ban nor a deletion stops it; the
\* account is read, or found missing.
BeginResolve(r, s) ==
  /\ req[r] = Idle
  /\ token[s] # NoToken
  /\ logins[s] < MaxLogins
  /\ LET i == token[s].id IN
     Continue(r,
       IF HasAccount(i)
       THEN [op |-> "RECORD", token |-> token[s], session |-> s,
             read |-> [email |-> account[i].email, session |-> account[i].session]]
       ELSE [op |-> "PROVISION", token |-> token[s], session |-> s])
  /\ UNCHANGED <<identity, token, account, trades, logins, updates, unremoved>>

\* The email of the identity, or of the token when Supabase has no answer.
ProvisionEmails(r) ==
  LET i == req[r].token.id
  IN  {req[r].token.email} \cup (IF Live(i) THEN {identity[i].email} ELSE {})

NewAccount(e) == [email |-> e, active |-> TRUE, session |-> NoSession]

\* The winner of the insert opens the trade account of a business sign-up.
AfterInsert(r, i, row) == With(r, IF identity[i].business THEN "TRADE" ELSE "RECORD", row)

MutantAfterConflict(r, i, row) == AfterInsert(r, i, row)

\* A request that lost the insert goes on with the row of the winner.
AfterConflict(r, i, row) == With(r, "RECORD", row)

Provision(r) ==
  /\ req[r].op = "PROVISION"
  /\ \E e \in ProvisionEmails(r) :
       LET i == req[r].token.id IN
       \/ /\ ~HasAccount(i) /\ AccountWith(e) = {}
          /\ account' = [account EXCEPT ![i] = NewAccount(e)]
          /\ Continue(r, AfterInsert(r, i, NewAccount(e)))
       \/ /\ HasAccount(i)
          /\ Continue(r, AfterConflict(r, i, account[i]))
          /\ UNCHANGED account
       \/ /\ ~HasAccount(i) /\ AccountWith(e) # {}       \* 409 ACCOUNT_CONFLICT
          /\ End(r)
          /\ UNCHANGED account
  /\ UNCHANGED <<identity, token, trades, logins, updates, unremoved>>

\* One transaction of its own; its failure never blocks the sign-in, so the
\* request goes on the same whether the organisation was written or refused.
OpenTradeAccount(r) ==
  /\ req[r].op = "TRADE"
  /\ trades' = [trades EXCEPT ![req[r].token.id] = @ + 1]
  /\ Continue(r, With(r, "RECORD", req[r].read))
  /\ UNCHANGED <<identity, token, account, logins, updates, unremoved>>

MutantSessionIsNew(i, s) == TRUE

\* The conditional update: one of several parallel requests of a session wins.
SessionIsNew(i, s) == account[i].session # s

RecordSession(r) ==
  /\ req[r].op = "RECORD"
  /\ LET i == req[r].token.id
         s == req[r].session
         row == [req[r].read EXCEPT !.session = s] IN
     \/ /\ req[r].read.session # s /\ SessionIsNew(i, s)
        /\ account' = [account EXCEPT ![i].session = s]
        /\ Continue(r, With(r, "LOG", row))
     \/ /\ req[r].read.session = s \/ ~SessionIsNew(i, s)
        /\ Continue(r, With(r, "FOLLOW", row))
        /\ UNCHANGED account
  /\ UNCHANGED <<identity, token, trades, logins, updates, unremoved>>

\* The LOGIN entry is written after the update and outside any transaction.
LogLogin(r) ==
  /\ req[r].op = "LOG"
  /\ logins[req[r].session] < MaxLogins
  /\ logins' = [logins EXCEPT ![req[r].session] = @ + 1]
  /\ Continue(r, With(r, "FOLLOW", req[r].read))
  /\ UNCHANGED <<identity, token, account, trades, updates, unremoved>>

\* The email the account has once the request is done: the token's, unless
\* another account holds it or the row that was read had it already.
Followed(r) ==
  LET i == req[r].token.id
      e == req[r].token.email
  IN  IF e = req[r].read.email \/ AccountWith(e) \ {i} # {}
      THEN account[i].email ELSE e

FollowEmail(r) ==
  /\ req[r].op = "FOLLOW"
  /\ account' = [account EXCEPT ![req[r].token.id].email = Followed(r)]
  /\ End(r)
  /\ UNCHANGED <<identity, token, trades, logins, updates, unremoved>>

-----------------------------------------------------------------------------
(***************************************************************************)
(* Invitations: createStaff, and inviteContact for a website request.      *)
(***************************************************************************)
BeginInvite(r, e) ==
  /\ req[r] = Idle
  /\ AccountWith(e) = {}
  /\ Continue(r, [op |-> "INVITE", email |-> e])
  /\ UNCHANGED <<identity, token, account, trades, logins, updates, unremoved>>

\* Supabase creates the identity and emails the link, or refuses the address; when
\* its answer is lost the identity is there, and the invitation is logged as failed.
InviteIdentity(r) ==
  /\ req[r].op = "INVITE"
  /\ \/ \E i \in Ids :
          /\ NewIdentity(i, req[r].email, FALSE, TRUE)
          /\ \/ /\ Continue(r, [op |-> "CREATE", id |-> i, email |-> req[r].email])
                /\ UNCHANGED unremoved
             \/ End(r) /\ unremoved' = unremoved \cup {i}
     \/ End(r) /\ UNCHANGED <<identity, unremoved>>
  /\ UNCHANGED <<token, account, trades, logins, updates>>

\* An insert that failed is followed by the clean-up of the new identity.
AfterRefusal(r) == [req[r] EXCEPT !.op = "CLEAN_UP"]

\* The id or the email may be taken by now; the insert may fail by itself too.
CreateAccount(r) ==
  /\ req[r].op = "CREATE"
  /\ \/ /\ ~HasAccount(req[r].id) /\ AccountWith(req[r].email) = {}
        /\ account' = [account EXCEPT ![req[r].id] = NewAccount(req[r].email)]
        /\ End(r)
     \/ Continue(r, AfterRefusal(r)) /\ UNCHANGED account
  /\ UNCHANGED <<identity, token, trades, logins, updates, unremoved>>

\* deleteIdentity is best effort: when Supabase fails too, the identity stays.
DeleteIdentity(r) ==
  /\ req[r].op = "CLEAN_UP"
  /\ \/ /\ identity' = [identity EXCEPT ![req[r].id] =
            [@ EXCEPT !.state = "DELETED", !.email = NoEmail, !.banned = FALSE]]
        /\ UNCHANGED unremoved
     \/ unremoved' = unremoved \cup {req[r].id} /\ UNCHANGED identity
  /\ End(r)
  /\ UNCHANGED <<token, account, trades, logins, updates>>

-----------------------------------------------------------------------------
(***************************************************************************)
(* adminUpdate: the identity is suspended or restored first, the account   *)
(* second.  Nothing undoes the first when the second fails.                *)
(***************************************************************************)
UpdatesOf(i) == {r \in Requests : req[r].op \in {"SUSPEND", "UPDATE"} /\ req[r].id = i}

\* An update that overlapped with another says nothing of how the two left things.
Ended(i, how) ==
  updates' = IF updates[i] = "OVERLAPPED" THEN updates ELSE [updates EXCEPT ![i] = how]

\* The back office picks from the list of accounts.
BeginUpdate(r, i, active) ==
  /\ req[r] = Idle
  /\ HasAccount(i)
  /\ updates' = [updates EXCEPT ![i] = IF UpdatesOf(i) # {} THEN "OVERLAPPED"
                                       ELSE IF @ = "OVERLAPPED" THEN "UNSETTLED" ELSE @]
  /\ Continue(r, [op |-> "SUSPEND", id |-> i, active |-> active])
  /\ UNCHANGED <<identity, token, account, trades, logins, unremoved>>

MutantAfterSuspensionFails(r) == [req[r] EXCEPT !.op = "UPDATE"]

\* 503: the account is left as it was.
AfterSuspensionFails(r) == Idle

\* Supabase bans or restores the identity (one it no longer has is no error), or it
\* refuses, or its answer is lost: then the identity has changed behind the 503.
SetSuspended(r) ==
  /\ req[r].op = "SUSPEND"
  /\ \/ /\ identity' = [identity EXCEPT ![req[r].id].banned =
                          IF Live(req[r].id) THEN ~req[r].active ELSE @]
        /\ \/ Continue(r, [req[r] EXCEPT !.op = "UPDATE"]) /\ UNCHANGED updates
           \/ End(r) /\ Ended(req[r].id, "UNSETTLED")
     \/ Continue(r, AfterSuspensionFails(r)) /\ UNCHANGED <<identity, updates>>
  /\ UNCHANGED <<token, account, trades, logins, unremoved>>

\* The account follows; or the database fails, the request ends with an error and
\* the identity stays as it was just set.
UpdateAccount(r) ==
  /\ req[r].op = "UPDATE"
  /\ \/ /\ account' = [account EXCEPT ![req[r].id].active = req[r].active]
        /\ Ended(req[r].id, "SETTLED")
     \/ Ended(req[r].id, "UNSETTLED") /\ UNCHANGED account
  /\ End(r)
  /\ UNCHANGED <<identity, token, trades, logins, unremoved>>

-----------------------------------------------------------------------------
Supabase ==
  \/ \E i \in Ids, e \in Emails, b \in BOOLEAN : SignUp(i, e, b)
  \/ \E i \in Ids, s \in Sessions : IssueToken(i, s)
  \/ \E i \in Ids, e \in Emails : ChangeEmail(i, e)

Begin(r) ==
  \/ \E s \in Sessions : BeginResolve(r, s)
  \/ \E e \in Emails : BeginInvite(r, e)
  \/ \E i \in Managed, active \in BOOLEAN : BeginUpdate(r, i, active)

GoOn(r) ==
  \/ Provision(r) \/ OpenTradeAccount(r)
  \/ RecordSession(r) \/ LogLogin(r) \/ FollowEmail(r)
  \/ InviteIdentity(r) \/ CreateAccount(r) \/ DeleteIdentity(r)
  \/ SetSuspended(r) \/ UpdateAccount(r)

Next == Supabase \/ \E r \in Requests : Begin(r) \/ GoOn(r)

Spec == Init /\ [][Next]_vars

-----------------------------------------------------------------------------
(***************************************************************************)
(* Properties.                                                             *)
(***************************************************************************)
InFlight(ops, i) ==
  {r \in Requests : /\ req[r].op \in ops
                    /\ i = IF req[r].op \in {"CREATE", "CLEAN_UP", "SUSPEND", "UPDATE"}
                           THEN req[r].id ELSE req[r].token.id}

\* However many first requests a new identity makes at once, the trade account of
\* its sign-up is opened (or refused) exactly once, by the request that created
\* the account.
TradeAccountOpenedOnce ==
  \A i \in Ids :
    trades[i] + Cardinality(InFlight({"TRADE"}, i)) =
      IF HasAccount(i) /\ identity[i].business THEN 1 ELSE 0

SessionsOf(i) == {s \in Sessions : token[s] # NoToken /\ token[s].id = i}
Recorded(s)   == logins[s] + Cardinality({r \in Requests : req[r].op = "LOG" /\ req[r].session = s})

\* Parallel requests of one session write one LOGIN entry between them: each
\* further one needs another session of the account to have been recorded in
\* between.
LoggedOncePerSwitch ==
  \A i \in Ids : \A s \in SessionsOf(i) :
    Recorded(s) <= 1 + MapThenSumSet(Recorded, SessionsOf(i) \ {s})

\* An invitation that could not be finished leaves nothing behind: an identity
\* that was invited has its account, or is on its way to one, or is gone, or is in
\* the log as one that Supabase did not remove or did not answer for.
NoHalfInvitation ==
  \A i \in Ids :
    Live(i) /\ identity[i].invited =>
      HasAccount(i) \/ i \in unremoved \/ InFlight({"CREATE", "CLEAN_UP"}, i) # {}

\* A suspension reaches both stores or neither: the identity is banned exactly when
\* the account is inactive, unless the last updates of the account overlapped or
\* the last one failed after it had changed the identity.  The next update that
\* goes through by itself puts either right.
SuspendedInBothStores ==
  \A i \in Ids :
    /\ Live(i) /\ HasAccount(i)
    /\ updates[i] = "SETTLED" /\ UpdatesOf(i) = {}
    => identity[i].banned = ~account[i].active

\* Between them: Supabase and the users table tell the same of every person, but for
\* what a failed call left in the one alone and what overlapping updates did.
StoresAgree == NoHalfInvitation /\ SuspendedInBothStores
=============================================================================
