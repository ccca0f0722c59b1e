---------------------------- MODULE MobileSession ----------------------------
(***************************************************************************)
(* The session of the mobile app.  Supabase's client owns the session and  *)
(* reports its changes through timers; for each signed-in identity the     *)
(* store loads the Top Flow account with GET /auth/me.  Sign-in, sign-out, *)
(* refreshes, rejected requests and slow answers overlap: JavaScript runs  *)
(* each step to its next await, and anything may come in between.  The     *)
(* list of orders stands for every screen that is keyed by the user.       *)
(***************************************************************************)
EXTENDS Integers, Sequences, FiniteSets

CONSTANTS
  Users,
  Calls,        \* API calls in flight at once
  Flows,        \* sign-ins, sign-outs and retries in flight at once
  MaxTokens,    \* bound: access tokens Supabase issues
  MaxEvents,    \* bound: auth events in timers when Supabase acts on its own
  NoUser, NoCall

ASSUME MobileConstants ==
  MaxTokens \in Nat \ {0} /\ MaxEvents \in Nat /\ NoUser \notin Users /\ NoCall \notin Calls

VARIABLES
  held,         \* the access token of the session on the device, or NoToken
  issued,       \* how many access tokens Supabase has issued
  events,       \* auth events whose timer has not fired yet, in order
  app,          \* the store: its state and its module variables
  calls,        \* [Calls -> an API call, or Spare]
  flows,        \* [Flows -> a user's action in flight, or Spare]
  list          \* the order list on screen

mobileVars == <<held, issued, events, app, calls, flows, list>>

NoToken == [user |-> NoUser, n |-> 0]
Token   == [user : Users, n : 1..MaxTokens]
Spare    == [op |-> "IDLE"]
NoList  == [key |-> NoUser, owner |-> NoUser]

Status == {"loading", "authenticated", "anonymous", "unavailable"}
Why    == {"NONE", "SIGN_IN", "EXPIRED", "DISABLED", "CONFLICT", "OFFLINE"}

MobileTypeOK ==
  /\ held \in Token \cup {NoToken}
  /\ issued \in 0..MaxTokens
  /\ events \in Seq([user : Users \cup {NoUser}, during : BOOLEAN])
  /\ app \in [status : Status, user : Users \cup {NoUser}, error : Why,
              accountUserId : Users \cup {NoUser}, accountLoad : Calls \cup {NoCall},
              signingOut : BOOLEAN]
  /\ calls \in [Calls -> {Spare} \cup
       [op : {"TOKEN", "SENT", "REJECTED", "RESENT", "LEAVING", "END_SESSION"},
        kind : {"ACCOUNT", "LIST"}, token : Token \cup {NoToken}, current : BOOLEAN]]
  /\ flows \in [Flows -> {Spare} \cup
       [op : {"SIGN_IN", "WAIT", "WAKE", "END_SESSION", "RETRY"},
        user : Users \cup {NoUser}, call : Calls \cup {NoCall}]]
  /\ list \in [key : Users \cup {NoUser}, owner : Users \cup {NoUser}]

-----------------------------------------------------------------------------
(***************************************************************************)
(* The store's operations, as values: s is the store, cs the calls.        *)
(***************************************************************************)
\* `startedAt === generation`, `id === sequence.current`: a call is current until
\* the counter it was started with moves on.
Superseded(cs, kind) ==
  [c \in Calls |-> IF cs[c] # Spare /\ cs[c].kind = kind
                   THEN [cs[c] EXCEPT !.current = FALSE] ELSE cs[c]]

State(s, status, user, error) ==
  [s EXCEPT !.status = status, !.user = user, !.error = error]

Forgotten(s) == [s EXCEPT !.accountUserId = NoUser, !.accountLoad = NoCall]

MutantForgottenCalls(cs) == cs

ForgottenCalls(cs) == Superseded(cs, "ACCOUNT")

MutantRendered(s) ==
  IF s.status = "anonymous" THEN NoList
  ELSE IF list.key # NoUser \/ s.user = NoUser THEN list
  ELSE [key |-> s.user, owner |-> NoUser]

\* The order list is on screen while somebody is signed in, keyed by the user.
Rendered(s) ==
  IF s.status # "authenticated" THEN NoList
  ELSE IF list.key = s.user THEN list
  ELSE [key |-> s.user, owner |-> NoUser]

\* setState, and the screens that follow it: a list that is taken down drops its
\* calls with it.
Become(s, cs) ==
  /\ app' = s
  /\ list' = Rendered(s)
  /\ calls' = IF Rendered(s).key = list.key THEN cs ELSE Superseded(cs, "LIST")

Free(cs) == {c \in Calls : cs[c] = Spare}
NewCall(kind) == [op |-> "TOKEN", kind |-> kind, token |-> NoToken, current |-> TRUE]

\* loadAccount: calls for one user share one request, a new identity shows
\* `loading`, a reload keeps what is shown.
LoadAccount(u, s, cs) ==
  IF s.accountLoad # NoCall /\ s.accountUserId = u
  THEN Become(s, cs)
  ELSE \E c \in Free(cs) :
         LET fresh == s.accountUserId # u
             t  == IF fresh THEN State([Forgotten(s) EXCEPT !.accountUserId = u],
                                       "loading", NoUser, "NONE") ELSE s
             ds == IF fresh THEN ForgottenCalls(cs) ELSE cs
         IN Become([t EXCEPT !.accountLoad = c], [ds EXCEPT ![c] = NewCall("ACCOUNT")])

\* Promise continuations run before the next timer or answer.
ContinuationsRan == \A f \in Flows : flows[f].op # "WAKE"

Woken(c) == [f \in Flows |-> IF flows[f].op = "WAIT" /\ flows[f].call = c
                             THEN [flows[f] EXCEPT !.op = "WAKE"] ELSE flows[f]]

\* What Supabase reports waits in a timer; whether the app was signing out is
\* noted when it is reported.
Report(u) == events' = Append(events, [user |-> u, during |-> app.signingOut])

-----------------------------------------------------------------------------
MobileInit ==
  /\ \/ held = NoToken /\ issued = 0
     \/ \E u \in Users : held = [user |-> u, n |-> 1] /\ issued = 1
  /\ events = <<[user |-> held.user, during |-> FALSE]>>      \* INITIAL_SESSION
  /\ app = [status |-> "loading", user |-> NoUser, error |-> "NONE",
            accountUserId |-> NoUser, accountLoad |-> NoCall, signingOut |-> FALSE]
  /\ calls = [c \in Calls |-> Spare]
  /\ flows = [f \in Flows |-> Spare]
  /\ list = NoList

(***************************************************************************)
(* Supabase on its own.                                                    *)
(***************************************************************************)
NewToken(u) ==
  /\ issued < MaxTokens
  /\ issued' = issued + 1
  /\ held' = [user |-> u, n |-> issued + 1]

TokenRefreshed ==
  /\ ContinuationsRan
  /\ held # NoToken /\ Len(events) < MaxEvents
  /\ NewToken(held.user) /\ Report(held.user)
  /\ UNCHANGED <<app, calls, flows, list>>

\* A refresh that Supabase refuses for good ends the session on the device.
SessionRevoked ==
  /\ ContinuationsRan
  /\ held # NoToken /\ Len(events) < MaxEvents
  /\ held' = NoToken /\ Report(NoUser)
  /\ UNCHANGED <<issued, app, calls, flows, list>>

-----------------------------------------------------------------------------
\* handleAuthEvent, when its timer fires.
HandleAuthEvent ==
  /\ ContinuationsRan
  /\ events # <<>>
  /\ events' = Tail(events)
  /\ LET e == Head(events) IN
     \/ /\ e.user = NoUser
        /\ LET s == Forgotten(app) IN
           Become(IF s.status = "anonymous" THEN s ELSE State(s, "anonymous", NoUser, "NONE"),
                  ForgottenCalls(calls))
     \/ /\ e.user # NoUser
        /\ \/ e.during
           \/ /\ e.user = app.accountUserId
              /\ app.status = "authenticated" \/ app.accountLoad # NoCall
        /\ UNCHANGED <<app, calls, list>>
     \/ /\ e.user # NoUser /\ ~e.during
        /\ \/ e.user # app.accountUserId
           \/ app.status # "authenticated" /\ app.accountLoad = NoCall
        /\ LoadAccount(e.user, app, calls)
  /\ UNCHANGED <<held, issued, flows>>

-----------------------------------------------------------------------------
(***************************************************************************)
(* A call with the access token: request, retryUnauthorized, and what      *)
(* fetchAccount does with the outcome.                                     *)
(***************************************************************************)
\* The call is over: the store becomes s, and who waited for it goes on.
EndCall(c, s, cs) ==
  /\ Become([s EXCEPT !.accountLoad = IF @ = c THEN NoCall ELSE @], [cs EXCEPT ![c] = Spare])
  /\ flows' = Woken(c)

Applies(c) == calls[c].kind = "ACCOUNT" /\ calls[c].current

\* 200: the account of whoever's token was sent.
CallAnswered(c) ==
  \/ /\ Applies(c)
     /\ EndCall(c, State(app, "authenticated", calls[c].token.user, "NONE"), calls)
  \/ /\ calls[c].kind = "LIST"
     /\ app' = app /\ flows' = flows
     /\ calls' = [calls EXCEPT ![c] = Spare]
     /\ list' = IF calls[c].current THEN [list EXCEPT !.owner = calls[c].token.user] ELSE list
  \/ /\ calls[c].kind = "ACCOUNT" /\ ~calls[c].current
     /\ EndCall(c, app, calls)

\* 401, after http.ts has done what it can.
Unauthorized(c, why) ==
  IF Applies(c)
  THEN EndCall(c, State(Forgotten(app), "anonymous", NoUser, why), ForgottenCalls(calls))
  ELSE EndCall(c, app, calls)

\* 403 or 409: the account cannot be used, and the session is ended after it.
Unusable(c, why) ==
  IF Applies(c)
  THEN /\ Become([State(Forgotten(app), "anonymous", NoUser, why) EXCEPT !.signingOut = TRUE],
                 [ForgottenCalls(calls) EXCEPT ![c].op = "END_SESSION"])
       /\ UNCHANGED flows
  ELSE EndCall(c, app, calls)

\* No answer within the time limit, or one that says nothing of the account.
Unreached(c) ==
  EndCall(c, IF Applies(c) THEN State(app, "unavailable", NoUser, "OFFLINE") ELSE app, calls)

Advance(c, op, t) ==
  /\ calls' = [calls EXCEPT ![c].op = op, ![c].token = t]
  /\ UNCHANGED <<app, flows, list>>

FetchList(c) ==
  /\ ContinuationsRan
  /\ list.key # NoUser /\ c \in Free(calls)
  /\ calls' = [Superseded(calls, "LIST") EXCEPT ![c] = NewCall("LIST")]
  /\ UNCHANGED <<held, issued, events, app, flows, list>>

ReadToken(c) ==
  /\ ContinuationsRan
  /\ calls[c].op = "TOKEN"
  /\ \/ held # NoToken /\ Advance(c, "SENT", held)
     \/ held # NoToken /\ Unreached(c)          \* offline when it needed refreshing
     \/ held = NoToken /\ Unauthorized(c, "SIGN_IN")
  /\ UNCHANGED <<held, issued, events>>

\* A disabled account is a 401 of the guard, as is any token it refuses.
Answer(c) ==
  /\ ContinuationsRan
  /\ calls[c].op \in {"SENT", "RESENT"}
  /\ \/ CallAnswered(c) \/ Unusable(c, "CONFLICT")
     \/ Advance(c, IF calls[c].op = "SENT" THEN "REJECTED" ELSE "LEAVING", calls[c].token)
     \/ Unreached(c)
  /\ UNCHANGED <<held, issued, events>>

\* What a rejected token is replaced by: the session was refreshed meanwhile.
ReplayToken(t) == IF held # t THEN held ELSE NoToken

Replay(c) ==
  /\ ContinuationsRan
  /\ calls[c].op = "REJECTED"
  /\ \/ /\ ReplayToken(calls[c].token) # NoToken
        /\ Advance(c, "RESENT", ReplayToken(calls[c].token))
     \/ /\ held # NoToken /\ ReplayToken(calls[c].token) = NoToken
        /\ Advance(c, "LEAVING", calls[c].token)
     \/ Unauthorized(c, "EXPIRED")              \* no session, or it cannot be read offline
  /\ UNCHANGED <<held, issued, events>>

\* signOutLocally, then the rejection is reported.
Leave(c) ==
  /\ ContinuationsRan
  /\ calls[c].op = "LEAVING"
  /\ held' = NoToken /\ Report(NoUser)
  /\ Unauthorized(c, "EXPIRED")
  /\ UNCHANGED issued

\* endSupabaseSession of an account that cannot be used.
EndCallSession(c) ==
  /\ ContinuationsRan
  /\ calls[c].op = "END_SESSION"
  /\ held' = NoToken /\ Report(NoUser)
  /\ EndCall(c, [app EXCEPT !.signingOut = FALSE], calls)
  /\ UNCHANGED issued

-----------------------------------------------------------------------------
(***************************************************************************)
(* What the customer does.                                                 *)
(***************************************************************************)
Flow(op, u, c) == [op |-> op, user |-> u, call |-> c]
Goes(f, next)  == flows' = [flows EXCEPT ![f] = next]

\* The forms are reached while signed out, and from each other while they wait.
SignIn(f, u) ==
  /\ ContinuationsRan
  /\ flows[f] = Spare
  /\ app.status = "anonymous" \/ \E g \in Flows : flows[g].op \in {"SIGN_IN", "WAIT"}
  /\ Goes(f, Flow("SIGN_IN", u, NoCall))
  /\ UNCHANGED <<held, issued, events, app, calls, list>>

SignInRefused(f) ==
  /\ ContinuationsRan
  /\ flows[f].op = "SIGN_IN"
  /\ Goes(f, Spare)
  /\ UNCHANGED <<held, issued, events, app, calls, list>>

\* Supabase saves the session and reports it; completeSignIn waits for the account.
SignedIn(f) ==
  /\ ContinuationsRan
  /\ flows[f].op = "SIGN_IN"
  /\ NewToken(flows[f].user) /\ Report(flows[f].user)
  /\ LoadAccount(flows[f].user, app, calls)
  /\ Goes(f, Flow("WAIT", flows[f].user, app'.accountLoad))

SignedOut(s) == [State(Forgotten(s), "anonymous", NoUser, "NONE") EXCEPT !.signingOut = TRUE]

\* The account did not load: no half-signed-in session is left on the device.
HalfSignedIn(f) ==
  /\ app.status # "anonymous"
  /\ app.accountUserId # flows[f].user \/ app.status # "authenticated"

CompleteSignIn(f) ==
  /\ flows[f].op = "WAKE"
  /\ \/ /\ HalfSignedIn(f)
        /\ Become(SignedOut(app), ForgottenCalls(calls))
        /\ Goes(f, Flow("END_SESSION", NoUser, NoCall))
     \/ /\ ~HalfSignedIn(f)
        /\ Goes(f, Spare)
        /\ UNCHANGED <<app, calls, list>>
  /\ UNCHANGED <<held, issued, events>>

SignOut(f) ==
  /\ ContinuationsRan
  /\ flows[f] = Spare
  /\ app.status \in {"authenticated", "unavailable"}
  /\ Become(SignedOut(app), ForgottenCalls(calls))
  /\ Goes(f, Flow("END_SESSION", NoUser, NoCall))
  /\ UNCHANGED <<held, issued, events>>

EndSession(f) ==
  /\ ContinuationsRan
  /\ flows[f].op = "END_SESSION"
  /\ held' = NoToken /\ Report(NoUser)
  /\ Become([app EXCEPT !.signingOut = FALSE], calls)
  /\ Goes(f, Spare)
  /\ UNCHANGED issued

\* "Try again", or the app coming back to the foreground.
RetryLoadUser(f) ==
  /\ ContinuationsRan
  /\ flows[f] = Spare
  /\ app.status = "unavailable"
  /\ Goes(f, Flow("RETRY", NoUser, NoCall))
  /\ UNCHANGED <<held, issued, events, app, calls, list>>

RetryRead(f) ==
  /\ ContinuationsRan
  /\ flows[f].op = "RETRY"
  /\ \/ held # NoToken /\ LoadAccount(held.user, app, calls)
     \/ held # NoToken /\ Become(State(app, "unavailable", NoUser, "OFFLINE"), calls)
     \/ /\ held = NoToken
        /\ Become(State(Forgotten(app), "anonymous", NoUser, "NONE"), ForgottenCalls(calls))
  /\ Goes(f, Spare)
  /\ UNCHANGED <<held, issued, events>>

-----------------------------------------------------------------------------
CallStep(c) == ReadToken(c) \/ Answer(c) \/ Replay(c) \/ Leave(c) \/ EndCallSession(c)
FlowStep(f) == SignInRefused(f) \/ SignedIn(f) \/ CompleteSignIn(f) \/ EndSession(f) \/ RetryRead(f)

MobileNext ==
  \/ TokenRefreshed \/ SessionRevoked \/ HandleAuthEvent
  \/ \E c \in Calls : FetchList(c) \/ CallStep(c)
  \/ \E f \in Flows : RetryLoadUser(f) \/ SignOut(f) \/ FlowStep(f)
                        \/ \E u \in Users : SignIn(f, u)

MobileSpec == MobileInit /\ [][MobileNext]_mobileVars

-----------------------------------------------------------------------------
(***************************************************************************)
(* Properties.                                                             *)
(***************************************************************************)
Quiet ==
  /\ events = <<>>
  /\ \A c \in Calls : calls[c] = Spare
  /\ \A f \in Flows : flows[f] = Spare

\* Whatever overlapped, once nothing is in flight the app and Supabase agree on
\* who is signed in; a session that is kept while the app shows nobody was
\* rejected when it could not be read.
AgreesWithSupabase ==
  Quiet =>
    /\ app.status # "loading"
    /\ app.status = "authenticated" => held.user = app.user
    /\ held = NoToken => app.status = "anonymous"
    /\ held # NoToken /\ app.status = "anonymous" => app.error \in {"EXPIRED", "SIGN_IN"}

\* A different account never sees the previous account's list: while the account on
\* screen is the one the store follows, so are the orders.  The two may part when the
\* sign-ins of two people overlap and the first one's event fires last.
ListIsOwn ==
  list.owner # NoUser =>
    /\ app.status = "authenticated"
    /\ app.user = app.accountUserId => list.owner = app.user
=============================================================================
