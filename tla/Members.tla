------------------------------ MODULE Members ------------------------------
(***************************************************************************)
(* The members of one organisation: owners change roles and remove members *)
(* (OrganizationsService), invite, revoke and accept (InvitationsService), *)
(* all at the same moment, statement by statement.                         *)
(*                                                                         *)
(* Rows a transaction wrote or locked are its own until it commits or      *)
(* rolls back; who wants them waits.  A statement sees what is committed   *)
(* when it starts, and re-checks its condition on a row it waited for.     *)
(***************************************************************************)
EXTENDS Workflows

CONSTANTS
  People,       \* accounts, each with its own email address
  Founder,      \* the account that opened the organisation
  Invitations,  \* rows of organization_invitations
  Requests      \* slots for the requests being handled at one moment

ASSUME MembersAssumption == Founder \in People /\ IsFiniteSet(Invitations)

VARIABLES
  member,   \* each person's role, and how often the person has joined
  inv,      \* the committed invitations
  req       \* the request in each slot

vars == <<member, inv, req>>

TeamRole == OrgRole \cup {"NONE"}
Change == OrgRole \cup {"REMOVED"}

NoRow == [email |-> "NONE"]
Row == [ email : People, role : OrgRole,
         accepted : BOOLEAN, revoked : BOOLEAN, lapsed : BOOLEAN ]

Idle == [op |-> "IDLE"]
Request ==
  {Idle}
  \cup [op : {"CHANGE", "CHANGE_LOCKED", "CHANGE_JUDGED"}, who : People, nth : Nat, change : Change]
  \cup [op : {"ACCEPT", "ACCEPT_TAKEN"}, row : Invitations]
  \cup [op : {"INVITE", "INVITE_REPLACING"}, email : People, role : OrgRole,
        earlier : SUBSET Invitations]

-----------------------------------------------------------------------------
IsMember(u) == member[u].role # "NONE"
Owners      == {u \in People : member[u].role = "OWNER"}
Exists(i)   == inv[i] # NoRow
Unsettled(i) == Exists(i) /\ ~inv[i].accepted /\ ~inv[i].revoked

MutantValidAlsoAccepted(i) == Exists(i) /\ ~inv[i].revoked /\ ~inv[i].lapsed
MutantValidAlsoRevoked(i) == Exists(i) /\ ~inv[i].accepted /\ ~inv[i].lapsed

\* Not accepted, not revoked, not expired: what findValid and accept ask.
Valid(i) == Unsettled(i) /\ ~inv[i].lapsed

\* The organisation's row is locked FOR UPDATE.
OrgIsFree(r) ==
  \A q \in Requests \ {r} : req[q].op \notin {"CHANGE_LOCKED", "CHANGE_JUDGED"}

\* An invitation's row is written by nobody else.
RowIsFree(i) ==
  \A q \in Requests :
    /\ req[q].op = "ACCEPT_TAKEN" => req[q].row # i
    /\ req[q].op = "INVITE_REPLACING" => i \notin req[q].earlier

Init ==
  /\ member = [u \in People |-> [role |-> IF u = Founder THEN "OWNER" ELSE "NONE", times |-> 0]]
  /\ inv = [i \in Invitations |-> NoRow]
  /\ req = [r \in Requests |-> Idle]

-----------------------------------------------------------------------------
\* updateMember and removeMember, asked by an owner about a member.
BeginChange(r, u, change) ==
  /\ req[r] = Idle
  /\ Owners # {} /\ IsMember(u)
  /\ req' = [req EXCEPT ![r] = [op |-> "CHANGE", who |-> u, nth |-> member[u].times,
                                change |-> change]]
  /\ UNCHANGED <<member, inv>>

MutantLockedMemberUnlocked(r) ==
  /\ req[r].op = "CHANGE"
  /\ IsMember(req[r].who) /\ member[req[r].who].times = req[r].nth
  /\ req' = [req EXCEPT ![r].op = "CHANGE_LOCKED"]
  /\ UNCHANGED <<member, inv>>

\* lockedMember: waits for the organisation's row, then reads the member again;
\* somebody who left meanwhile, even to join anew, is not found.
LockedMember(r) ==
  /\ req[r].op = "CHANGE"
  /\ OrgIsFree(r)
  /\ IsMember(req[r].who) /\ member[req[r].who].times = req[r].nth
  /\ req' = [req EXCEPT ![r].op = "CHANGE_LOCKED"]
  /\ UNCHANGED <<member, inv>>

\* assertAnotherOwner, asked when an owner would stop being one.
Judge(r) ==
  /\ req[r].op = "CHANGE_LOCKED"
  /\ member[req[r].who].role = "OWNER" /\ req[r].change # "OWNER"
     => Owners \ {req[r].who} # {}
  /\ req' = [req EXCEPT ![r].op = "CHANGE_JUDGED"]
  /\ UNCHANGED <<member, inv>>

CommitChange(r) ==
  /\ req[r].op = "CHANGE_JUDGED"
  /\ member' = [member EXCEPT ![req[r].who].role =
       IF req[r].change = "REMOVED" THEN "NONE" ELSE req[r].change]
  /\ req' = [req EXCEPT ![r] = Idle]
  /\ UNCHANGED inv

-----------------------------------------------------------------------------
\* invite: nobody who is a member already.
BeginInvite(r, u, role) ==
  /\ req[r] = Idle
  /\ Owners # {} /\ ~IsMember(u)
  /\ req' = [req EXCEPT ![r] = [op |-> "INVITE", email |-> u, role |-> role, earlier |-> {}]]
  /\ UNCHANGED <<member, inv>>

Earlier(u) == {i \in Invitations : Unsettled(i) /\ inv[i].email = u}

\* Re-inviting replaces earlier invitations, as far as they are committed.
ReplaceEarlier(r) ==
  /\ req[r].op = "INVITE"
  /\ \A i \in Earlier(req[r].email) : RowIsFree(i)
  /\ req' = [req EXCEPT ![r].op = "INVITE_REPLACING", ![r].earlier = Earlier(req[r].email)]
  /\ UNCHANGED <<member, inv>>

\* The new row refers to the organisation, and waits for its row's lock.
CommitInvite(r) ==
  /\ req[r].op = "INVITE_REPLACING"
  /\ OrgIsFree(r)
  /\ \E i \in Invitations :
       /\ ~Exists(i)
       /\ inv' = [j \in Invitations |->
            IF j = i
            THEN [ email |-> req[r].email, role |-> req[r].role,
                   accepted |-> FALSE, revoked |-> FALSE, lapsed |-> FALSE ]
            ELSE IF j \in req[r].earlier THEN [inv[j] EXCEPT !.revoked = TRUE]
            ELSE inv[j]]
  /\ req' = [req EXCEPT ![r] = Idle]
  /\ UNCHANGED member

\* revoke: one conditional write, which does not ask whether it expired.
Revoke(i) ==
  /\ Owners # {} /\ Unsettled(i) /\ RowIsFree(i)
  /\ inv' = [inv EXCEPT ![i].revoked = TRUE]
  /\ UNCHANGED <<member, req>>

\* accept, by the person it was sent to.
BeginAccept(r, i) ==
  /\ req[r] = Idle
  /\ Valid(i)
  /\ req' = [req EXCEPT ![r] = [op |-> "ACCEPT", row |-> i]]
  /\ UNCHANGED <<member, inv>>

\* The invitation is taken first, and only if it is still valid.
TakeInvitation(r) ==
  /\ req[r].op = "ACCEPT"
  /\ RowIsFree(req[r].row) /\ Valid(req[r].row)
  /\ req' = [req EXCEPT ![r].op = "ACCEPT_TAKEN"]
  /\ UNCHANGED <<member, inv>>

\* The membership, unless there is one; it waits for the organisation's lock.
CommitAccept(r) ==
  /\ req[r].op = "ACCEPT_TAKEN"
  /\ OrgIsFree(r)
  /\ LET row == inv[req[r].row] IN
     /\ ~IsMember(row.email)
     /\ member' = [member EXCEPT ![row.email] = [role |-> row.role, times |-> @.times + 1]]
  /\ inv' = [inv EXCEPT ![req[r].row].accepted = TRUE]
  /\ req' = [req EXCEPT ![r] = Idle]

\* A check that refuses, a lost race or a failed statement: rolled back.
Abort(r) ==
  /\ req[r] # Idle
  /\ req' = [req EXCEPT ![r] = Idle]
  /\ UNCHANGED <<member, inv>>

\* Seven days pass.
Lapse(i) ==
  /\ Unsettled(i)
  /\ inv' = [inv EXCEPT ![i].lapsed = TRUE]
  /\ UNCHANGED <<member, req>>

Next ==
  \/ \E r \in Requests :
       \/ \E u \in People : \/ \E change \in Change : BeginChange(r, u, change)
                            \/ \E role \in OrgRole : BeginInvite(r, u, role)
       \/ \E i \in Invitations : BeginAccept(r, i)
       \/ LockedMember(r) \/ Judge(r) \/ CommitChange(r)
       \/ ReplaceEarlier(r) \/ CommitInvite(r)
       \/ TakeInvitation(r) \/ CommitAccept(r)
       \/ Abort(r)
  \/ \E i \in Invitations : Revoke(i) \/ Lapse(i)

Spec == Init /\ [][Next]_vars

-----------------------------------------------------------------------------
\* Types; the organisation's row is locked by one request at a time, and so is
\* each invitation's.
TypeOK ==
  /\ member \in [People -> [role : TeamRole, times : Nat]]
  /\ inv \in [Invitations -> Row \cup {NoRow}]
  /\ req \in [Requests -> Request]
  /\ \A r, q \in Requests :
       /\ req[r].op \in {"CHANGE_LOCKED", "CHANGE_JUDGED"} => OrgIsFree(r)
       /\ req[r].op = "ACCEPT_TAKEN" /\ req[q].op = "INVITE_REPLACING"
          => req[r].row \notin req[q].earlier

\* "An organization must always have at least one owner", also when two owners
\* demote or remove each other at the same moment.
AlwaysAnOwner == Owners # {}

\* Every time somebody joined, one invitation of theirs was accepted, and it is
\* spent: nobody who was removed comes back with the same one.
JoinedOncePerInvitation ==
  \A u \in People :
    member[u].times = Cardinality({i \in Invitations :
                                     Exists(i) /\ inv[i].email = u /\ inv[i].accepted})

\* An invitation is accepted or revoked, never both: a revocation that has been
\* answered keeps the person out.
RevokedIsNotAccepted ==
  \A i \in Invitations : Exists(i) => ~(inv[i].accepted /\ inv[i].revoked)
=============================================================================
