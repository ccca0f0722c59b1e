----------------------------- MODULE WebSession -----------------------------
(***************************************************************************)
(* The signed-in user as a browser tab of the web app knows it             *)
(* (apps/web/lib/session.ts, use-api.ts, auth/actions.ts).  The session    *)
(* itself lives in httpOnly cookies all tabs share; a tab keeps a copy of  *)
(* GET /auth/me, an active organisation and the data of its page, and asks *)
(* again when it thinks it should.  Meanwhile staff change roles, owners   *)
(* change their teams, and other tabs sign in, out and switch.             *)
(*                                                                         *)
(* One tab is modelled; the others reach it only through the cookie and    *)
(* the browser's storage, and are part of the environment.                 *)
(***************************************************************************)
EXTENDS CustomerPages

CONSTANTS User, Org, NoUser, NoOrg, NoSession,
          Visited,      \* bound: the pages the tab goes to
          Founded,      \* organisations that exist at the start, with their members
          Invited,      \* pairs <<user, organisation>> with an invitation by email
          Staffing,     \* the roles the users may have at the start
          OrgStates,    \* bound: the states staff put an organisation in
          MaxChanges    \* bound: changes of accounts, teams and the session, in any tab

VARIABLES
  account,     \* role, active and factor (an authenticator app) of each user
  membership,  \* each user's role in each organisation, or NONE
  standing,    \* the status of each organisation
  cookie,      \* the browser's session: whose, and whether it was verified
  preferred,   \* the active organisation remembered in localStorage
  tab,         \* the tab: see Tab
  changes

webVars == <<account, membership, standing, cookie, preferred, tab, changes>>

Session == [user : User, verified : BOOLEAN]
Profile == [id : User, role : Role, roles : [Org -> OrgRole \cup {"NONE"}],
            verified : BOOLEAN]
Step    == [do : {"NOTHING", "LAND"}] \cup [do : {"JOIN"}, org : Org]

\* `me` is the one GET /auth/me callers share; `then` waits for its answer.
\* `query` is the page's call in flight, `data` whose records the page shows.
Tab ==
  [ page : Visited, status : {"loading", "authenticated", "anonymous"},
    user : Profile \cup {NoUser}, org : Org \cup {NoOrg},
    me : [is : {"NONE", "ASKED", "FAILED"}] \cup [is : {"OK"}, user : Profile \cup {NoUser}],
    then : Step,
    query : [is : {"NONE", "ERROR"}]
              \cup [is : {"SENT"}, route : Route, org : Org \cup {NoOrg}],
    data : Org \cup {NoOrg} ]

WebTypeOK ==
  /\ account \in [User -> [role : Role, active : BOOLEAN, factor : BOOLEAN]]
  /\ membership \in [User -> [Org -> OrgRole \cup {"NONE"}]]
  /\ standing \in [Org -> OrgStatus]
  /\ cookie \in Session \cup {NoSession}
  /\ preferred \in Org \cup {NoOrg}
  /\ tab \in Tab
  /\ changes \in 0..MaxChanges

ASSUME WebConstants ==
  /\ {"home", "login", "mfa", "account", "business", "admin", "invitation", "password",
      "forgotPassword"} \subseteq Visited
  /\ Founded \in [User -> [Org -> OrgRole \cup {"NONE"}]]
  /\ Staffing \subseteq [User -> Role] /\ OrgStates \subseteq OrgStatus
  /\ MaxChanges \in Nat
  /\ NoUser \notin Profile /\ NoOrg \notin Org /\ NoSession \notin Session

Nothing == [do |-> "NOTHING"]
Land    == [do |-> "LAND"]
None    == [is |-> "NONE"]
Asked   == [is |-> "ASKED"]

-----------------------------------------------------------------------------
(* What the tab knows, and what it shows.                                  *)

MembershipsOf(profile) ==
  IF profile = NoUser THEN {} ELSE {o \in Org : profile.roles[o] # "NONE"}

\* activeMembership: the role in the active organisation, if it is one of ours.
ActiveRole(t) == IF t.org \in MembershipsOf(t.user) THEN t.user.roles[t.org] ELSE "NONE"

Nobody == [role |-> "NONE", member |-> FALSE, orgRole |-> "NONE", unverified |-> FALSE]

ViewerOf(t) ==
  IF t.user = NoUser THEN Nobody
  ELSE [role |-> t.user.role, member |-> MembershipsOf(t.user) # {},
        orgRole |-> ActiveRole(t),
        unverified |-> StaffMfaRequired /\ IsStaffRole(t.user.role) /\ ~t.user.verified]

\* The pages of each viewer, worked out once: Table(f) is f, and the comparison makes
\* TLC evaluate every entry, to look them up from then on.
Table(f) == CHOOSE g \in {f} : g = f
PagesOf  == Table([v \in Viewer |-> Table(WebPages(v))])

BusinessPages == DOMAIN Business(Nobody)
Protected     == BusinessPages \cup DOMAIN BackOffice(Nobody) \cup DOMAIN Account(Nobody)
                   \cup {"checkout"}

Current(t) == PagesOf[ViewerOf(t)][t.page]

\* A page behind a gate shows nothing while the session is being loaded.
Shows(t) == t.status # "loading" /\ Current(t).gate = "SHOWN"

-----------------------------------------------------------------------------
(* applyUser, refreshSession and navigation, as functions of the tab.      *)

\* The remembered organisation if it is still one of the user's, else the first.
ApplyUser(t, profile) ==
  IF profile = NoUser
  THEN {[t EXCEPT !.status = "anonymous", !.user = NoUser, !.org = NoOrg]}
  ELSE LET mine   == MembershipsOf(profile)
           active == IF preferred \in mine THEN {preferred}
                     ELSE IF mine = {} THEN {NoOrg} ELSE mine
       IN  {[t EXCEPT !.status = "authenticated", !.user = profile, !.org = o] : o \in active}

\* Concurrent callers share one request.
RefreshSession(t, next) ==
  [t EXCEPT !.me = IF @ = None THEN Asked ELSE @,
            !.then = IF next = Nothing THEN @ ELSE next]

\* What the app's server makes of a page's request: the proxy asks for a session
\* in the protected areas, and three pages look for one themselves.
UpdateSession(session, page) ==
  IF session = NoSession
  THEN CASE page \in Protected \cup {"mfa"} -> "login"
         [] page = "password"               -> "forgotPassword"
         [] OTHER                           -> page
  ELSE IF page = "register" \/ (page = "mfa" /\ session.verified) THEN "account" ELSE page

\* A client navigation: another page mounts, its data and its call start anew.
GoTo(t, page) ==
  [t EXCEPT !.page = UpdateSession(cookie, page), !.query = None, !.data = NoOrg]

\* A page load: everything starts anew, and bootstrapSession asks who is there.
Loaded(session, page) ==
  [ page  |-> UpdateSession(session, page), status |-> "loading", user |-> NoUser,
    org   |-> NoOrg, me |-> Asked, then |-> Nothing, query |-> None, data |-> NoOrg ]

\* Mutant: the page stays mounted when the organisation changes.
SwitchedInPlace(t) == t

\* BusinessShell remounts its page when the active organisation changes, and
\* useApiQuery aborts the call whose key is gone.  Other pages keep their data.
Switched(t) ==
  IF t.org = tab.org THEN t
  ELSE [t EXCEPT !.query = None, !.data = IF t.page \in BusinessPages THEN NoOrg ELSE @]

-----------------------------------------------------------------------------
(* The API's side: who a request of this browser comes from.               *)

Profiled(u, verified) ==
  [id |-> u, role |-> account[u].role, roles |-> membership[u], verified |-> verified]

Me == IF cookie = NoSession \/ ~account[cookie.user].active THEN NoUser
      ELSE Profiled(cookie.user, cookie.verified)

\* The profile lists suspended organisations like any other; the guard refuses them.
Suspended(org) == org # NoOrg /\ standing[org] = "SUSPENDED"

CallerFor(org) ==
  IF cookie = NoSession THEN [token |-> FALSE]
  ELSE [ token |-> TRUE, active |-> account[cookie.user].active,
         role  |-> account[cookie.user].role, secondFactor |-> cookie.verified,
         named |-> org # NoOrg,
         orgStatus |-> IF org = NoOrg THEN "ACTIVE" ELSE standing[org],
         orgRole |-> IF org = NoOrg THEN "NONE" ELSE membership[cookie.user][org] ]

-----------------------------------------------------------------------------
\* Bound: one more change.
Counted == changes < MaxChanges /\ changes' = changes + 1

WebInit ==
  /\ \E roles \in Staffing :
       account = [u \in User |-> [role |-> roles[u], active |-> TRUE, factor |-> FALSE]]
  /\ membership = Founded
  /\ standing = [o \in Org |-> "ACTIVE"]
  /\ cookie = NoSession
  /\ preferred = NoOrg
  /\ tab = Loaded(NoSession, "home")
  /\ changes = 0

\* A bookmark, a link in an email, the address bar, a reload.
OpenPage(page) ==
  /\ tab' = Loaded(cookie, page)
  /\ UNCHANGED <<account, membership, standing, cookie, preferred, changes>>

\* GET /auth/me is answered, or is lost on the way.  When the app's server cannot
\* reach the API it answers 502, which a tab takes like any refusal ...
MeAnswered ==
  /\ tab.me = Asked
  /\ \E answer \in {[is |-> "OK", user |-> Me], [is |-> "OK", user |-> NoUser], [is |-> "FAILED"]} :
       tab' = [tab EXCEPT !.me = answer]
  /\ UNCHANGED <<account, membership, standing, cookie, preferred, changes>>

\* ... and the answer is applied.  A lost one keeps a user who was known.  Then
\* whoever awaited it goes on: to the viewer's home (or the page a link names as
\* the next one, which Follow reaches), or into the organisation just joined.
Continue(t) ==
  CASE t.then.do = "NOTHING" -> tab' = t /\ UNCHANGED preferred
    [] t.then.do = "LAND" ->
         /\ tab' = GoTo([t EXCEPT !.then = Nothing],
                        IF t.user = NoUser THEN "account" ELSE LandingPath(ViewerOf(t)))
         /\ UNCHANGED preferred
    [] t.then.do = "JOIN" ->
         /\ tab' = GoTo([t EXCEPT !.then = Nothing, !.org = t.then.org], "business")
         /\ preferred' = t.then.org

ApplyMe ==
  /\ tab.me \notin {None, Asked}
  /\ \E t \in IF tab.me.is = "OK" THEN ApplyUser(tab, tab.me.user)
              ELSE IF tab.status = "authenticated" THEN {tab} ELSE ApplyUser(tab, NoUser) :
       Continue([Switched(t) EXCEPT !.me = None])
  /\ UNCHANGED <<account, membership, standing, cookie, changes>>

-----------------------------------------------------------------------------
(* Signing in and out.  The server actions write the cookie; the tab then   *)
(* asks who is signed in and waits for the answer.                          *)

\* signInWithPassword: an account with an authenticator app enters a code next.
SignIn(u) ==
  /\ Counted
  /\ tab.page = "login" /\ account[u].active
  /\ cookie' = [user |-> u, verified |-> FALSE]
  /\ tab' = IF account[u].factor THEN [tab EXCEPT !.page = "mfa"] ELSE RefreshSession(tab, Land)
  /\ UNCHANGED <<account, membership, standing, preferred>>

\* A code completes the sign-in, or links a first app; either verifies the session.
VerifyTotp ==
  /\ Counted
  /\ tab.page = "mfa" /\ cookie # NoSession
  /\ cookie' = [cookie EXCEPT !.verified = TRUE]
  /\ account' = [account EXCEPT ![cookie.user].factor = TRUE]
  /\ tab' = RefreshSession(tab, Land)
  /\ UNCHANGED <<membership, standing, preferred>>

\* The account page turns the second factor off again.
RemoveTotp ==
  /\ Counted
  /\ tab.page = "account" /\ Shows(tab) /\ cookie # NoSession
  /\ cookie.verified /\ account[cookie.user].factor
  /\ cookie' = [cookie EXCEPT !.verified = FALSE]
  /\ account' = [account EXCEPT ![cookie.user].factor = FALSE]
  /\ tab' = RefreshSession(tab, Nothing)
  /\ UNCHANGED <<membership, standing, preferred>>

\* A link in an email of Supabase starts a session, and leads to a page.
ConfirmLink(u, page) ==
  /\ Counted
  /\ account[u].active
  /\ cookie' = [user |-> u, verified |-> FALSE]
  /\ tab' = Loaded(cookie', page)
  /\ UNCHANGED <<account, membership, standing, preferred>>

SetNewPassword ==
  /\ tab.page = "password" /\ cookie # NoSession
  /\ tab' = RefreshSession(tab, Land)
  /\ UNCHANGED <<account, membership, standing, cookie, preferred, changes>>

\* The local state is cleared whether or not the server could end the session.
SignOut(page) ==
  /\ Counted
  /\ tab.status = "authenticated"
  /\ cookie' \in {NoSession, cookie}
  /\ preferred' = NoOrg
  /\ \E t \in ApplyUser(tab, NoUser) :
       tab' = [t EXCEPT !.page = page, !.query = None, !.data = NoOrg]
  /\ UNCHANGED <<account, membership, standing>>

-----------------------------------------------------------------------------
(* What the pages do with the session.                                     *)

Follow(link) ==
  /\ Shows(tab) /\ link \in Current(tab).links \cap Visited
  /\ tab' = GoTo(tab, link)
  /\ UNCHANGED <<account, membership, standing, cookie, preferred, changes>>

\* RequireAuth: sign in first.  The sign-in page opens even for a session that
\* the snapshot has not caught up with.
RedirectToSignIn ==
  /\ tab.page \in Protected /\ tab.status = "anonymous"
  /\ tab' = GoTo(tab, "login")
  /\ UNCHANGED <<account, membership, standing, cookie, preferred, changes>>

\* RequireAuth: verify first.  A session another tab has verified comes straight
\* back to the page that asked, where nothing has changed.
RedirectToVerify ==
  /\ tab.status = "authenticated" /\ Current(tab).gate = "VERIFY"
  /\ cookie # NoSession => ~cookie.verified
  /\ tab' = GoTo(tab, "mfa")
  /\ UNCHANGED <<account, membership, standing, cookie, preferred, changes>>

SwitchOrganization(o) ==
  /\ o \in MembershipsOf(tab.user)
  /\ preferred' = o
  /\ tab' = Switched([tab EXCEPT !.org = o])
  /\ UNCHANGED <<account, membership, standing, cookie, changes>>

\* useApiQuery and api: a tenant's call names the active organisation.
AskData(route) ==
  /\ Shows(tab) /\ route \in Current(tab).calls /\ tab.query.is # "SENT"
  /\ route # Public => tab.status = "authenticated"
  /\ route.needs = "MEMBER" => tab.org # NoOrg
  /\ tab' = [tab EXCEPT !.query =
               [is |-> "SENT", route |-> route, org |-> IF route.needs = "MEMBER" THEN tab.org ELSE NoOrg]]
  /\ UNCHANGED <<account, membership, standing, cookie, preferred, changes>>

\* The answer, and toError: a session that ended updates the whole UI; an action
\* of the back office that needs a second factor leaves the page for it.
Answered ==
  /\ tab.query.is = "SENT"
  /\ LET answer == Answer(CallerFor(tab.query.org), tab.query.route)
         failed == [tab EXCEPT !.query = [is |-> "ERROR"]]
     IN  tab' = CASE answer = "OK" ->
                       [tab EXCEPT !.query = None,
                                   !.data = IF tab.query.org = NoOrg THEN @ ELSE tab.query.org]
                  [] answer = "UNAUTHORIZED" /\ tab.status = "authenticated" ->
                       RefreshSession(failed, Nothing)
                  [] answer = "MFA_REQUIRED" -> Loaded(cookie, "mfa")
                  [] OTHER -> failed
  /\ UNCHANGED <<account, membership, standing, cookie, preferred, changes>>

\* An invitation by email, accepted by the account it is addressed to; the page
\* then refreshes the session and moves into the organisation.
AcceptInvitation(o) ==
  /\ Counted
  /\ tab.page = "invitation" /\ cookie # NoSession
  /\ tab.user # NoUser /\ tab.user.id = cookie.user /\ account[cookie.user].active
  /\ <<cookie.user, o>> \in Invited /\ membership[cookie.user][o] = "NONE"
  /\ membership' = [membership EXCEPT ![cookie.user][o] = "BUYER"]
  /\ tab' = RefreshSession(tab, [do |-> "JOIN", org |-> o])
  /\ UNCHANGED <<account, standing, cookie, preferred>>

\* The answer of POST /me/organizations is the refreshed user, applied at once.
OpenTradeAccount(o) ==
  /\ Counted
  /\ tab.page = "tradeAccount" /\ Shows(tab) /\ Me # NoUser
  /\ \A u \in User : membership[u][o] = "NONE"
  /\ membership' = [membership EXCEPT ![cookie.user][o] = "OWNER"]
  /\ standing' = [standing EXCEPT ![o] = "PENDING_VERIFICATION"]
  /\ preferred' = o
  /\ LET profile == [Me EXCEPT !.roles[o] = "OWNER"]
     IN  tab' = GoTo([tab EXCEPT !.status = "authenticated", !.user = profile, !.org = o],
                     "business")
  /\ UNCHANGED <<account, cookie>>

\* The team page: an owner who changes their own role refreshes the session.
ChangeOwnRole(role) ==
  /\ tab.page = "businessTeam" /\ Shows(tab) /\ cookie # NoSession
  /\ OrganizationController.updateMember \in Current(tab).calls
  /\ Admits(CallerFor(tab.org), OrganizationController.updateMember)
  /\ tab.user.id = cookie.user /\ Counted
  /\ membership' = [membership EXCEPT ![cookie.user][tab.org] = role]
  /\ tab' = RefreshSession(tab, Nothing)
  /\ UNCHANGED <<account, standing, cookie, preferred>>

-----------------------------------------------------------------------------
(* Meanwhile: administrators, other owners, other tabs, and time.          *)

Elsewhere ==
  /\ Counted /\ UNCHANGED tab
  /\ \/ \E u \in User, role \in Role :
          /\ IsStaffRole(account[u].role) /\ IsStaffRole(role)
          /\ account' = [account EXCEPT ![u].role = role]
          /\ UNCHANGED <<membership, standing, cookie, preferred>>
     \/ \E u \in User :
          /\ account' = [account EXCEPT ![u].active = ~@]
          /\ UNCHANGED <<membership, standing, cookie, preferred>>
     \/ \E u \in User, o \in Org, role \in OrgRole \cup {"NONE"} :
          /\ membership[u][o] # "NONE"
          /\ membership' = [membership EXCEPT ![u][o] = role]
          /\ UNCHANGED <<account, standing, cookie, preferred>>
     \/ \E o \in Org, status \in OrgStates :
          /\ standing' = [standing EXCEPT ![o] = status]
          /\ UNCHANGED <<account, membership, cookie, preferred>>
     \/ /\ cookie' = NoSession
        /\ UNCHANGED <<account, membership, standing, preferred>>
     \/ \E u \in User :
          /\ account[u].active
          /\ cookie' \in [user : {u}, verified : {FALSE, account[u].factor}]
          /\ UNCHANGED <<account, membership, standing, preferred>>
     \/ /\ preferred' \in Org \cup {NoOrg}
        /\ UNCHANGED <<account, membership, standing, cookie>>

WebNext ==
  \/ \E page \in Visited : OpenPage(page) \/ Follow(page)
  \/ \E page \in {"home", "login", "invitation"} : SignOut(page)
  \/ MeAnswered \/ ApplyMe
  \/ \E u \in User : SignIn(u) \/ (\E page \in {"password", "account", "business"} : ConfirmLink(u, page))
  \/ VerifyTotp \/ RemoveTotp \/ SetNewPassword
  \/ RedirectToSignIn \/ RedirectToVerify
  \/ \E o \in Org : SwitchOrganization(o) \/ AcceptInvitation(o) \/ OpenTradeAccount(o)
  \/ \E route \in Route : AskData(route)
  \/ Answered
  \/ \E role \in OrgRole : ChangeOwnRole(role)
  \/ Elsewhere

WebSpec == WebInit /\ [][WebNext]_webVars

-----------------------------------------------------------------------------
(* The tab knows what is the case, and works in an organisation of its own. *)
UpToDate ==
  /\ tab.user # NoUser => tab.user = Me
  /\ tab.user = NoUser => tab.status = "loading" \/ Me = NoUser
  /\ tab.org # NoOrg => ActiveRole(tab) # "NONE"

(***************************************************************************)
(* The pages and the API agree: while a tab's copy of the session is the   *)
(* truth, a call that a page it can show makes or offers is one the API    *)
(* admits from this user, unless it is made in the name of a suspended     *)
(* organisation, whose pages are shown while the guard refuses every call  *)
(* of theirs; and no link of such a page leads to "You don't have access"  *)
(* or to "Open a trade account" (permissions.ts and guards.ts against      *)
(* UseCan, RequirePermission, OrgCan and BusinessShell on every page).     *)
(***************************************************************************)
PagesAreAdmitted ==
  UpToDate /\ tab.status # "loading" =>
    LET pages == PagesOf[ViewerOf(tab)]
    IN  \A p \in {q \in DOMAIN pages : pages[q].gate = "SHOWN"} :
          /\ \A route \in pages[p].calls :
               \/ tab.user = NoUser /\ route # Public
               \/ Admits(CallerFor(tab.org), route)
                    <=> ~(route.needs = "MEMBER" /\ Suspended(tab.org))
          /\ \A link \in pages[p].links : pages[link].gate \notin {"REFUSED", "OPEN_ACCOUNT"}

(***************************************************************************)
(* "no state leaks between tenants" (business-shell.tsx:102): the records  *)
(* a page of the trade portal shows belong to the organisation whose name  *)
(* stands above them, whatever was switched while they were loading.       *)
(***************************************************************************)
TenantDataIsOwn ==
  tab.page \in BusinessPages /\ Shows(tab) => tab.data \in {NoOrg, tab.org}
=============================================================================
