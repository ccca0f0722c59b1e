-------------------------- MODULE OrganizationProofs --------------------------
(***************************************************************************)
(* Proofs about organisations.                                             *)
(*   Members and invitations, for any number of people, invitations and    *)
(* overlapping requests: an owner always remains, a revoked invitation is  *)
(* never accepted, and an invitation admits its person once.               *)
(*   A browser tab that works in one of its user's organisations, for any  *)
(* number of users, organisations and pages: the records under an          *)
(* organisation's name are its own.                                        *)
(*   The pages of the web app, against the guards of the API: what a page  *)
(* calls is admitted, and where it links its viewer is let in.             *)
(***************************************************************************)
EXTENDS Members, WebSession, FiniteSetTheorems, TLAPS

\* What a request under the organisation's lock has established: its change
\* leaves an owner.
LeavesAnOwner ==
  \A r \in Requests :
    req[r].op = "CHANGE_JUDGED" => req[r].change = "OWNER" \/ Owners \ {req[r].who} # {}

\* What a request that holds invitation rows has established about them.
HeldRows ==
  \A r \in Requests :
    /\ req[r].op = "ACCEPT_TAKEN" => Exists(req[r].row) /\ ~inv[req[r].row].revoked
    /\ req[r].op = "INVITE_REPLACING" =>
         \A i \in req[r].earlier : Exists(i) /\ ~inv[i].accepted

IInv == TypeOK /\ AlwaysAnOwner /\ LeavesAnOwner /\ HeldRows /\ RevokedIsNotAccepted

-----------------------------------------------------------------------------
\* A request in flight has the fields of its own operation.
LEMMA RequestByOp ==
  ASSUME NEW x \in Request
  PROVE  /\ x.op \in {"CHANGE", "CHANGE_LOCKED", "CHANGE_JUDGED"} =>
              x \in [op : {"CHANGE", "CHANGE_LOCKED", "CHANGE_JUDGED"}, who : People,
                     nth : Nat, change : Change]
         /\ x.op \in {"ACCEPT", "ACCEPT_TAKEN"} =>
              x \in [op : {"ACCEPT", "ACCEPT_TAKEN"}, row : Invitations]
         /\ x.op \in {"INVITE", "INVITE_REPLACING"} =>
              x \in [op : {"INVITE", "INVITE_REPLACING"}, email : People, role : OrgRole,
                     earlier : SUBSET Invitations]
  BY DEF Request, Idle

LEMMA RequestType ==
  /\ Idle \in Request
  /\ \A u \in People, n \in Nat, c \in Change,
        o \in {"CHANGE", "CHANGE_LOCKED", "CHANGE_JUDGED"} :
       [op |-> o, who |-> u, nth |-> n, change |-> c] \in Request
  /\ \A i \in Invitations, o \in {"ACCEPT", "ACCEPT_TAKEN"} : [op |-> o, row |-> i] \in Request
  /\ \A u \in People, role \in OrgRole, e \in SUBSET Invitations,
        o \in {"INVITE", "INVITE_REPLACING"} :
       [op |-> o, email |-> u, role |-> role, earlier |-> e] \in Request
  BY DEF Request, Idle

LEMMA InitInv == Init => IInv
  <1> SUFFICES ASSUME Init PROVE IInv
    OBVIOUS
  <1>1. \A r \in Requests : req[r] = Idle
    BY DEF Init
  <1>2. \A u \in People : member[u] = [role |-> IF u = Founder THEN "OWNER" ELSE "NONE",
                                       times |-> 0]
    BY DEF Init
  <1>3. TypeOK
    <2>1. member \in [People -> [role : TeamRole, times : Nat]]
      BY <1>2 DEF Init, TeamRole, OrgRole
    <2>2. inv \in [Invitations -> Row \cup {NoRow}]
      BY DEF Init
    <2>3. req \in [Requests -> Request]
      BY RequestType DEF Init
    <2> QED BY <1>1, <2>1, <2>2, <2>3 DEF TypeOK, Idle
  <1>4. AlwaysAnOwner
    <2>0. Founder \in People
      BY MembersAssumption
    <2>1. member[Founder] = [role |-> "OWNER", times |-> 0]
      BY <1>2, <2>0
    <2> QED BY <2>0, <2>1 DEF AlwaysAnOwner, Owners
  <1>5. LeavesAnOwner /\ HeldRows
    BY <1>1 DEF LeavesAnOwner, HeldRows, Idle
  <1>6. RevokedIsNotAccepted
    BY DEF Init, RevokedIsNotAccepted, Exists
  <1> QED BY <1>3, <1>4, <1>5, <1>6 DEF IInv

-----------------------------------------------------------------------------
(***************************************************************************)
(* Every step keeps types and locks.                                       *)
(***************************************************************************)
Locks ==
  \A r, q \in Requests :
    /\ req[r].op \in {"CHANGE_LOCKED", "CHANGE_JUDGED"} => OrgIsFree(r)
    /\ req[r].op = "ACCEPT_TAKEN" /\ req[q].op = "INVITE_REPLACING"
       => req[r].row \notin req[q].earlier

\* A request that ends frees what it held.
LEMMA EndsFree ==
  ASSUME Locks, NEW r \in Requests, req' = [req EXCEPT ![r] = Idle], req \in [Requests -> Request]
  PROVE  Locks'
  BY DEF Locks, OrgIsFree, Idle

\* A request that begins holds nothing.
LEMMA BeginsFree ==
  ASSUME Locks, NEW r \in Requests, req'[r].op \in {"CHANGE", "ACCEPT", "INVITE"},
         \A q \in Requests \ {r} : req'[q] = req[q]
  PROVE  Locks'
  BY DEF Locks, OrgIsFree

LEMMA TypeStep ==
  ASSUME TypeOK, HeldRows, Next
  PROVE  TypeOK'
  <1> USE DEF TypeOK
  <1>0. Locks
    BY DEF Locks
  <1>a. SUFFICES /\ member' \in [People -> [role : TeamRole, times : Nat]]
                 /\ inv' \in [Invitations -> Row \cup {NoRow}]
                 /\ req' \in [Requests -> Request]
                 /\ Locks'
    BY DEF Locks
  <1>1. ASSUME NEW r \in Requests, NEW u \in People, NEW change \in Change,
               BeginChange(r, u, change)
        PROVE  /\ req' \in [Requests -> Request] /\ Locks' /\ UNCHANGED <<member, inv>>
    <2> DEFINE x == [op |-> "CHANGE", who |-> u, nth |-> member[u].times, change |-> change]
    <2>1. req' = [req EXCEPT ![r] = x] /\ UNCHANGED <<member, inv>>
      BY <1>1 DEF BeginChange
    <2>2. member[u].times \in Nat
      OBVIOUS
    <2>3. x \in Request
      BY <2>2, RequestType
    <2> HIDE DEF x
    <2>4. x.op = "CHANGE"
      BY DEF x
    <2>5. req'[r] = x /\ \A q \in Requests \ {r} : req'[q] = req[q]
      BY <2>1
    <2>6. Locks'
      BY <1>0, <2>4, <2>5, BeginsFree
    <2> QED BY <2>1, <2>3, <2>6
  <1>2. ASSUME NEW r \in Requests, NEW u \in People, NEW role \in OrgRole,
               BeginInvite(r, u, role)
        PROVE  /\ req' \in [Requests -> Request] /\ Locks' /\ UNCHANGED <<member, inv>>
    <2> DEFINE x == [op |-> "INVITE", email |-> u, role |-> role, earlier |-> {}]
    <2>1. req' = [req EXCEPT ![r] = x] /\ UNCHANGED <<member, inv>>
      BY <1>2 DEF BeginInvite
    <2>3. x \in Request
      BY RequestType
    <2> HIDE DEF x
    <2>4. x.op = "INVITE"
      BY DEF x
    <2>5. req'[r] = x /\ \A q \in Requests \ {r} : req'[q] = req[q]
      BY <2>1
    <2>6. Locks'
      BY <1>0, <2>4, <2>5, BeginsFree
    <2> QED BY <2>1, <2>3, <2>6
  <1>3. ASSUME NEW r \in Requests, NEW i \in Invitations, BeginAccept(r, i)
        PROVE  /\ req' \in [Requests -> Request] /\ Locks' /\ UNCHANGED <<member, inv>>
    <2> DEFINE x == [op |-> "ACCEPT", row |-> i]
    <2>1. req' = [req EXCEPT ![r] = x] /\ UNCHANGED <<member, inv>>
      BY <1>3 DEF BeginAccept
    <2>3. x \in Request
      BY RequestType
    <2> HIDE DEF x
    <2>4. x.op = "ACCEPT"
      BY DEF x
    <2>5. req'[r] = x /\ \A q \in Requests \ {r} : req'[q] = req[q]
      BY <2>1
    <2>6. Locks'
      BY <1>0, <2>4, <2>5, BeginsFree
    <2> QED BY <2>1, <2>3, <2>6
  <1>4. ASSUME NEW r \in Requests, LockedMember(r) \/ Judge(r)
        PROVE  /\ req' \in [Requests -> Request] /\ Locks' /\ UNCHANGED <<member, inv>>
    <2>1. /\ req[r].op \in {"CHANGE", "CHANGE_LOCKED"} /\ OrgIsFree(r)
          /\ UNCHANGED <<member, inv>>
          /\ \E o \in {"CHANGE_LOCKED", "CHANGE_JUDGED"} : req' = [req EXCEPT ![r].op = o]
      BY <1>4, <1>0 DEF LockedMember, Judge, Locks
    <2>2. PICK o \in {"CHANGE_LOCKED", "CHANGE_JUDGED"} : req' = [req EXCEPT ![r].op = o]
      BY <2>1
    <2>3. req[r] \in [op : {"CHANGE", "CHANGE_LOCKED", "CHANGE_JUDGED"}, who : People,
                      nth : Nat, change : Change]
      BY <2>1, RequestByOp
    <2>4. [req[r] EXCEPT !.op = o] \in Request /\ [req[r] EXCEPT !.op = o].op = o
      BY <2>3, RequestType DEF Request
    <2>5. req' \in [Requests -> Request]
      BY <2>2, <2>4
    <2>6. /\ req'[r].op = o
          /\ \A q \in Requests \ {r} : req'[q] = req[q]
      BY <2>2, <2>4
    <2>7. Locks'
      BY <1>0, <2>1, <2>6 DEF Locks, OrgIsFree
    <2> QED BY <2>1, <2>5, <2>7
  <1>5. ASSUME NEW r \in Requests, CommitChange(r)
        PROVE  /\ member' \in [People -> [role : TeamRole, times : Nat]]
               /\ req' \in [Requests -> Request] /\ Locks' /\ UNCHANGED inv
    <2>1. /\ req[r].op = "CHANGE_JUDGED" /\ UNCHANGED inv
          /\ req' = [req EXCEPT ![r] = Idle]
          /\ member' = [member EXCEPT ![req[r].who].role =
               IF req[r].change = "REMOVED" THEN "NONE" ELSE req[r].change]
      BY <1>5 DEF CommitChange
    <2>2. req[r].who \in People /\ req[r].change \in Change
      BY <2>1, RequestByOp
    <2>3. member' \in [People -> [role : TeamRole, times : Nat]]
      BY <2>1, <2>2 DEF Change, TeamRole
    <2> QED BY <1>0, <2>1, <2>3, EndsFree, RequestType
  <1>6. ASSUME NEW r \in Requests, ReplaceEarlier(r)
        PROVE  /\ req' \in [Requests -> Request] /\ Locks' /\ UNCHANGED <<member, inv>>
    <2> DEFINE e == Earlier(req[r].email)
    <2>1. /\ req[r].op = "INVITE" /\ UNCHANGED <<member, inv>>
          /\ \A i \in e : RowIsFree(i)
          /\ req' = [req EXCEPT ![r].op = "INVITE_REPLACING", ![r].earlier = e]
      BY <1>6 DEF ReplaceEarlier
    <2>2. e \in SUBSET Invitations
      BY DEF Earlier
    <2>3. req[r] \in [op : {"INVITE", "INVITE_REPLACING"}, email : People, role : OrgRole,
                      earlier : SUBSET Invitations]
      BY <2>1, RequestByOp
    <2> HIDE DEF e
    <2>4. PICK x \in Request : /\ x.op = "INVITE_REPLACING" /\ x.earlier = e
                               /\ req' = [req EXCEPT ![r] = x]
      <3> DEFINE x == [req[r] EXCEPT !.op = "INVITE_REPLACING", !.earlier = e]
      <3>1. x \in Request /\ x.op = "INVITE_REPLACING" /\ x.earlier = e
        BY <2>2, <2>3 DEF Request
      <3>2. req' = [req EXCEPT ![r] = x]
        BY <2>1
      <3> QED BY <3>1, <3>2
    <2>5. /\ req'[r] = x
          /\ \A q \in Requests \ {r} : req'[q] = req[q]
      BY <2>4
    <2>6. Locks'
      BY <1>0, <2>1, <2>4, <2>5 DEF Locks, OrgIsFree, RowIsFree
    <2> QED BY <2>1, <2>4, <2>6
  <1>7. ASSUME NEW r \in Requests, CommitInvite(r)
        PROVE  /\ inv' \in [Invitations -> Row \cup {NoRow}]
               /\ req' \in [Requests -> Request] /\ Locks' /\ UNCHANGED member
    <2>1. PICK i \in Invitations :
               inv' = [j \in Invitations |->
                 IF j = i
                 THEN [ email |-> req[r].email, role |-> req[r].role,
                        accepted |-> FALSE, revoked |-> FALSE, lapsed |-> FALSE ]
                 ELSE IF j \in req[r].earlier THEN [inv[j] EXCEPT !.revoked = TRUE]
                 ELSE inv[j]]
      BY <1>7 DEF CommitInvite
    <2>2. req[r].op = "INVITE_REPLACING" /\ req' = [req EXCEPT ![r] = Idle] /\ UNCHANGED member
      BY <1>7 DEF CommitInvite
    <2>3. req[r].email \in People /\ req[r].role \in OrgRole
      BY <2>2, RequestByOp
    <2>4. \A j \in Invitations : [inv[j] EXCEPT !.revoked = TRUE] \in Row \cup {NoRow}
      BY DEF Row, NoRow
    <2>5. inv' \in [Invitations -> Row \cup {NoRow}]
      BY <2>1, <2>3, <2>4 DEF Row
    <2> QED BY <1>0, <2>2, <2>5, EndsFree, RequestType
  <1>8. ASSUME NEW r \in Requests, TakeInvitation(r)
        PROVE  /\ req' \in [Requests -> Request] /\ Locks' /\ UNCHANGED <<member, inv>>
    <2>1. /\ req[r].op = "ACCEPT" /\ RowIsFree(req[r].row) /\ UNCHANGED <<member, inv>>
          /\ req' = [req EXCEPT ![r].op = "ACCEPT_TAKEN"]
      BY <1>8 DEF TakeInvitation
    <2>2. req[r] \in [op : {"ACCEPT", "ACCEPT_TAKEN"}, row : Invitations]
      BY <2>1, RequestByOp
    <2>3. PICK x \in Request : /\ x.op = "ACCEPT_TAKEN" /\ x.row = req[r].row
                               /\ req' = [req EXCEPT ![r] = x]
      <3> DEFINE x == [req[r] EXCEPT !.op = "ACCEPT_TAKEN"]
      <3>1. x \in Request /\ x.op = "ACCEPT_TAKEN" /\ x.row = req[r].row
        BY <2>2 DEF Request
      <3>2. req' = [req EXCEPT ![r] = x]
        BY <2>1
      <3> QED BY <3>1, <3>2
    <2>4. /\ req'[r] = x
          /\ \A q \in Requests \ {r} : req'[q] = req[q]
      BY <2>3
    <2>5. Locks'
      BY <1>0, <2>1, <2>3, <2>4 DEF Locks, OrgIsFree, RowIsFree
    <2> QED BY <2>1, <2>3, <2>5
  <1>9. ASSUME NEW r \in Requests, CommitAccept(r)
        PROVE  TypeOK' /\ Locks'
    <2>1. /\ req[r].op = "ACCEPT_TAKEN" /\ req' = [req EXCEPT ![r] = Idle]
          /\ inv' = [inv EXCEPT ![req[r].row].accepted = TRUE]
          /\ member' = [member EXCEPT ![inv[req[r].row].email] =
                          [role |-> inv[req[r].row].role, times |-> @.times + 1]]
          /\ ~IsMember(inv[req[r].row].email)
      BY <1>9 DEF CommitAccept
    <2>2. req[r].row \in Invitations
      BY <2>1, RequestByOp
    <2>3. [inv[req[r].row] EXCEPT !.accepted = TRUE] \in Row \cup {NoRow}
      BY <2>2 DEF Row, NoRow
    <2>4. inv' \in [Invitations -> Row \cup {NoRow}]
      BY <2>1, <2>2, <2>3
    <2>5. member' \in [People -> [role : TeamRole, times : Nat]]
      <3>1. inv[req[r].row] \in Row
        BY <2>1, <2>2 DEF HeldRows, Exists
      <3> QED BY <2>1, <3>1 DEF Row, TeamRole
    <2>6. Locks'
      BY <1>0, <2>1, EndsFree
    <2> QED BY <2>1, <2>4, <2>5, <2>6, RequestType DEF Locks
  <1>10. ASSUME NEW r \in Requests, Abort(r)
         PROVE  /\ req' \in [Requests -> Request] /\ Locks' /\ UNCHANGED <<member, inv>>
    BY <1>0, <1>10, EndsFree, RequestType DEF Abort
  <1>11. ASSUME NEW i \in Invitations, Revoke(i) \/ Lapse(i)
         PROVE  /\ inv' \in [Invitations -> Row \cup {NoRow}] /\ UNCHANGED <<member, req>>
    <2>1. inv[i] \in Row
      BY <1>11 DEF Revoke, Lapse, Unsettled, Exists
    <2>2. UNCHANGED <<member, req>>
      BY <1>11 DEF Revoke, Lapse
    <2>3. \/ inv' = [inv EXCEPT ![i].revoked = TRUE]
          \/ inv' = [inv EXCEPT ![i].lapsed = TRUE]
      BY <1>11 DEF Revoke, Lapse
    <2>4. /\ [inv[i] EXCEPT !.revoked = TRUE] \in Row
          /\ [inv[i] EXCEPT !.lapsed = TRUE] \in Row
      BY <2>1 DEF Row
    <2> QED BY <2>2, <2>3, <2>4
  <1>12. Locks' \/ UNCHANGED req
    BY <1>1, <1>2, <1>3, <1>4, <1>5, <1>6, <1>7, <1>8, <1>9, <1>10, <1>11 DEF Next
  <1> QED
    BY <1>0, <1>1, <1>2, <1>3, <1>4, <1>5, <1>6, <1>7, <1>8, <1>9, <1>10, <1>11, <1>12
    DEF Next, Locks, OrgIsFree

-----------------------------------------------------------------------------
(***************************************************************************)
(* Every step leaves an owner.                                             *)
(***************************************************************************)
\* A new member takes nothing from the owners.
LEMMA AcceptAddsOwners ==
  ASSUME TypeOK, HeldRows, NEW r \in Requests, CommitAccept(r)
  PROVE  Owners \subseteq Owners'
  <1>1. /\ req[r].op = "ACCEPT_TAKEN" /\ ~IsMember(inv[req[r].row].email)
        /\ member' = [member EXCEPT ![inv[req[r].row].email] =
                        [role |-> inv[req[r].row].role, times |-> @.times + 1]]
    BY DEF CommitAccept
  <1>2. ASSUME NEW u \in Owners
        PROVE  member'[u] = member[u]
    <2>1. u # inv[req[r].row].email /\ u \in People
      BY <1>1 DEF Owners, IsMember
    <2> QED BY <1>1, <2>1 DEF TypeOK
  <1> QED BY <1>2 DEF Owners

LEMMA OwnerStep ==
  ASSUME TypeOK, AlwaysAnOwner, LeavesAnOwner, HeldRows, Next
  PROVE  AlwaysAnOwner' /\ LeavesAnOwner'
  <1>1. ASSUME NEW r \in Requests, NEW u \in People, NEW change \in Change,
               BeginChange(r, u, change)
        PROVE  AlwaysAnOwner' /\ LeavesAnOwner'
    BY <1>1 DEF BeginChange, TypeOK, AlwaysAnOwner, LeavesAnOwner, Owners
  <1>2. ASSUME NEW r \in Requests, NEW u \in People, NEW role \in OrgRole,
               BeginInvite(r, u, role)
        PROVE  AlwaysAnOwner' /\ LeavesAnOwner'
    BY <1>2 DEF BeginInvite, TypeOK, AlwaysAnOwner, LeavesAnOwner, Owners
  <1>3. ASSUME NEW r \in Requests, NEW i \in Invitations, BeginAccept(r, i)
        PROVE  AlwaysAnOwner' /\ LeavesAnOwner'
    BY <1>3 DEF BeginAccept, TypeOK, AlwaysAnOwner, LeavesAnOwner, Owners
  <1>4. ASSUME NEW r \in Requests,
               LockedMember(r) \/ ReplaceEarlier(r) \/ TakeInvitation(r) \/ Abort(r)
        PROVE  AlwaysAnOwner' /\ LeavesAnOwner'
    <2>1. /\ UNCHANGED member
          /\ req'[r].op # "CHANGE_JUDGED"
          /\ \A q \in Requests \ {r} : req'[q] = req[q]
      <3>1. CASE LockedMember(r)
        BY <3>1, RequestByOp DEF LockedMember, TypeOK
      <3>2. CASE ReplaceEarlier(r)
        BY <3>2, RequestByOp DEF ReplaceEarlier, TypeOK
      <3>3. CASE TakeInvitation(r)
        BY <3>3, RequestByOp DEF TakeInvitation, TypeOK
      <3>4. CASE Abort(r)
        BY <3>4 DEF Abort, TypeOK, Idle
      <3> QED BY <1>4, <3>1, <3>2, <3>3, <3>4
    <2> QED BY <2>1 DEF AlwaysAnOwner, LeavesAnOwner, Owners
  <1>5. ASSUME NEW r \in Requests, Judge(r)
        PROVE  AlwaysAnOwner' /\ LeavesAnOwner'
    <2>1. /\ req[r].op = "CHANGE_LOCKED" /\ UNCHANGED member
          /\ req' = [req EXCEPT ![r].op = "CHANGE_JUDGED"]
          /\ member[req[r].who].role = "OWNER" /\ req[r].change # "OWNER"
             => Owners \ {req[r].who} # {}
      BY <1>5 DEF Judge
    <2>2. req[r] \in [op : {"CHANGE", "CHANGE_LOCKED", "CHANGE_JUDGED"}, who : People,
                      nth : Nat, change : Change]
      BY <2>1, RequestByOp DEF TypeOK
    <2>3. /\ req'[r].who = req[r].who /\ req'[r].change = req[r].change
          /\ \A q \in Requests \ {r} : req'[q] = req[q]
      BY <2>1, <2>2 DEF TypeOK
    <2>4. req[r].change = "OWNER" \/ Owners \ {req[r].who} # {}
      BY <2>1 DEF AlwaysAnOwner, Owners
    <2> QED BY <2>1, <2>3, <2>4 DEF AlwaysAnOwner, LeavesAnOwner, Owners
  <1>6. ASSUME NEW r \in Requests, CommitChange(r)
        PROVE  AlwaysAnOwner' /\ LeavesAnOwner'
    <2>1. /\ req[r].op = "CHANGE_JUDGED"
          /\ req' = [req EXCEPT ![r] = Idle]
          /\ member' = [member EXCEPT ![req[r].who].role =
               IF req[r].change = "REMOVED" THEN "NONE" ELSE req[r].change]
      BY <1>6 DEF CommitChange
    <2>2. req[r].who \in People
      BY <2>1, RequestByOp DEF TypeOK
    <2>3. req[r].change = "OWNER" \/ Owners \ {req[r].who} # {}
      BY <2>1 DEF LeavesAnOwner
    <2>4. AlwaysAnOwner'
      <3>1. CASE req[r].change = "OWNER"
        <4>1. member'[req[r].who].role = "OWNER"
          BY <2>1, <2>2, <3>1 DEF TypeOK
        <4> QED BY <2>2, <4>1 DEF AlwaysAnOwner, Owners
      <3>2. CASE Owners \ {req[r].who} # {}
        <4>1. PICK u \in Owners : u # req[r].who
          BY <3>2
        <4>2. u \in People /\ member'[u] = member[u]
          BY <2>1, <4>1 DEF TypeOK, Owners
        <4> QED BY <4>1, <4>2 DEF AlwaysAnOwner, Owners
      <3> QED BY <2>3, <3>1, <3>2
    <2>5. \A q \in Requests : req'[q].op # "CHANGE_JUDGED"
      BY <2>1 DEF TypeOK, OrgIsFree, Idle
    <2> QED BY <2>4, <2>5 DEF LeavesAnOwner
  <1>7. ASSUME NEW r \in Requests, CommitInvite(r)
        PROVE  AlwaysAnOwner' /\ LeavesAnOwner'
    BY <1>7 DEF CommitInvite, TypeOK, AlwaysAnOwner, LeavesAnOwner, Owners, Idle
  <1>8. ASSUME NEW r \in Requests, CommitAccept(r)
        PROVE  AlwaysAnOwner' /\ LeavesAnOwner'
    <2>1. Owners \subseteq Owners'
      BY <1>8, AcceptAddsOwners
    <2>2. /\ req'[r].op # "CHANGE_JUDGED"
          /\ \A q \in Requests \ {r} : req'[q] = req[q]
      BY <1>8 DEF CommitAccept, TypeOK, Idle
    <2>3. LeavesAnOwner'
      BY <2>1, <2>2 DEF LeavesAnOwner
    <2> QED BY <2>1, <2>3 DEF AlwaysAnOwner
  <1>9. ASSUME NEW i \in Invitations, Revoke(i) \/ Lapse(i)
        PROVE  AlwaysAnOwner' /\ LeavesAnOwner'
    BY <1>9 DEF Revoke, Lapse, AlwaysAnOwner, LeavesAnOwner, Owners
  <1> QED BY <1>1, <1>2, <1>3, <1>4, <1>5, <1>6, <1>7, <1>8, <1>9 DEF Next

-----------------------------------------------------------------------------
(***************************************************************************)
(* Every step keeps the rows a request holds as it found them, and no      *)
(* invitation is both accepted and revoked.                                *)
(***************************************************************************)
LEMMA RowStep ==
  ASSUME TypeOK, HeldRows, RevokedIsNotAccepted, Next
  PROVE  HeldRows' /\ RevokedIsNotAccepted'
  <1> USE DEF HeldRows, RevokedIsNotAccepted, Exists
  <1>1. ASSUME NEW r \in Requests, UNCHANGED inv,
               req'[r].op \notin {"ACCEPT_TAKEN", "INVITE_REPLACING"},
               \A q \in Requests \ {r} : req'[q] = req[q]
        PROVE  HeldRows' /\ RevokedIsNotAccepted'
    BY <1>1
  <1>2. ASSUME NEW r \in Requests, NEW u \in People,
               \/ \E change \in Change : BeginChange(r, u, change)
               \/ \E role \in OrgRole : BeginInvite(r, u, role)
        PROVE  HeldRows' /\ RevokedIsNotAccepted'
    <2>1. /\ UNCHANGED inv
          /\ req'[r].op \in {"CHANGE", "INVITE"}
          /\ \A q \in Requests \ {r} : req'[q] = req[q]
      BY <1>2 DEF BeginChange, BeginInvite, TypeOK
    <2> QED BY <1>1, <2>1
  <1>3. ASSUME NEW r \in Requests, NEW i \in Invitations, BeginAccept(r, i)
        PROVE  HeldRows' /\ RevokedIsNotAccepted'
    <2>1. /\ UNCHANGED inv
          /\ req'[r].op = "ACCEPT"
          /\ \A q \in Requests \ {r} : req'[q] = req[q]
      BY <1>3 DEF BeginAccept, TypeOK
    <2> QED BY <1>1, <2>1
  <1>4. ASSUME NEW r \in Requests, LockedMember(r) \/ Judge(r) \/ CommitChange(r) \/ Abort(r)
        PROVE  HeldRows' /\ RevokedIsNotAccepted'
    <2>1. UNCHANGED inv
      BY <1>4 DEF LockedMember, Judge, CommitChange, Abort
    <2>2. req'[r].op \notin {"ACCEPT_TAKEN", "INVITE_REPLACING"}
      <3>1. CASE LockedMember(r)
        BY <3>1, RequestByOp DEF LockedMember, TypeOK
      <3>2. CASE Judge(r)
        BY <3>2, RequestByOp DEF Judge, TypeOK
      <3>3. CASE CommitChange(r) \/ Abort(r)
        BY <3>3 DEF CommitChange, Abort, TypeOK, Idle
      <3> QED BY <1>4, <3>1, <3>2, <3>3
    <2>3. \A q \in Requests \ {r} : req'[q] = req[q]
      BY <1>4 DEF LockedMember, Judge, CommitChange, Abort, TypeOK
    <2> QED BY <1>1, <2>1, <2>2, <2>3
  <1>5. ASSUME NEW r \in Requests, ReplaceEarlier(r)
        PROVE  HeldRows' /\ RevokedIsNotAccepted'
    <2>1. req[r] \in [op : {"INVITE", "INVITE_REPLACING"}, email : People, role : OrgRole,
                      earlier : SUBSET Invitations]
      BY <1>5, RequestByOp DEF ReplaceEarlier, TypeOK
    <2>2. /\ UNCHANGED inv
          /\ req'[r].op = "INVITE_REPLACING" /\ req'[r].earlier = Earlier(req[r].email)
          /\ \A q \in Requests \ {r} : req'[q] = req[q]
      BY <1>5, <2>1 DEF ReplaceEarlier, TypeOK
    <2>3. \A i \in Earlier(req[r].email) : inv[i] # NoRow /\ ~inv[i].accepted
      BY DEF Earlier, Unsettled
    <2> QED BY <2>2, <2>3
  <1>6. ASSUME NEW r \in Requests, TakeInvitation(r)
        PROVE  HeldRows' /\ RevokedIsNotAccepted'
    <2>1. req[r] \in [op : {"ACCEPT", "ACCEPT_TAKEN"}, row : Invitations]
      BY <1>6, RequestByOp DEF TakeInvitation, TypeOK
    <2>2. /\ UNCHANGED inv
          /\ req'[r].op = "ACCEPT_TAKEN" /\ req'[r].row = req[r].row
          /\ \A q \in Requests \ {r} : req'[q] = req[q]
      BY <1>6, <2>1 DEF TakeInvitation, TypeOK
    <2>3. inv[req[r].row] # NoRow /\ ~inv[req[r].row].revoked
      BY <1>6 DEF TakeInvitation, Valid, Unsettled
    <2> QED BY <2>2, <2>3
  <1>7. ASSUME NEW r \in Requests, CommitInvite(r)
        PROVE  HeldRows' /\ RevokedIsNotAccepted'
    <2>1. PICK i \in Invitations :
            /\ inv[i] = NoRow
            /\ inv' = [j \in Invitations |->
                 IF j = i
                 THEN [ email |-> req[r].email, role |-> req[r].role,
                        accepted |-> FALSE, revoked |-> FALSE, lapsed |-> FALSE ]
                 ELSE IF j \in req[r].earlier THEN [inv[j] EXCEPT !.revoked = TRUE]
                 ELSE inv[j]]
      BY <1>7 DEF CommitInvite
    <2>2. /\ req[r].op = "INVITE_REPLACING" /\ req'[r].op = "IDLE"
          /\ \A q \in Requests \ {r} : req'[q] = req[q]
      BY <1>7 DEF CommitInvite, TypeOK, Idle
    <2>3. inv'[i].accepted = FALSE /\ inv'[i].revoked = FALSE
      BY <2>1
    <2>4. \A j \in Invitations \ {i} :
            inv[j] # NoRow => /\ inv[j] \in Row /\ inv'[j] \in Row
                              /\ inv'[j].accepted = inv[j].accepted
                              /\ j \notin req[r].earlier => inv'[j] = inv[j]
      BY <2>1 DEF TypeOK, Row
    <2>4a. \A j \in Invitations \ {i} : inv[j] = NoRow => inv'[j] = NoRow
      BY <2>1, <2>2 DEF TypeOK
    <2>5. /\ inv'[i] # NoRow
          /\ \A j \in Invitations : j # i /\ inv[j] # NoRow => inv'[j] # NoRow
      <3>1. \A x \in Row : x # NoRow
        BY DEF Row, NoRow
      <3>2. inv'[i] \in Row
        BY <2>1, <2>2, RequestByOp DEF TypeOK, Row
      <3> QED BY <2>4, <3>1, <3>2
    <2>6. HeldRows'
      <3>1. ASSUME NEW q \in Requests, req'[q].op = "ACCEPT_TAKEN"
            PROVE  inv'[req'[q].row] # NoRow /\ ~inv'[req'[q].row].revoked
        <4>1. q # r /\ req'[q] = req[q] /\ req[q].row \notin req[r].earlier
          BY <2>2, <3>1 DEF TypeOK
        <4>2. req[q].row \in Invitations
          BY <3>1, <4>1, RequestByOp DEF TypeOK
        <4>3. req[q].row # i /\ inv[req[q].row] # NoRow /\ ~inv[req[q].row].revoked
          BY <2>1, <3>1, <4>1
        <4> QED BY <2>4, <2>5, <4>1, <4>2, <4>3
      <3>2. ASSUME NEW q \in Requests, req'[q].op = "INVITE_REPLACING", NEW j \in req'[q].earlier
            PROVE  inv'[j] # NoRow /\ ~inv'[j].accepted
        <4>1. q # r /\ req'[q] = req[q]
          BY <2>2, <3>2
        <4>2. j \in Invitations
          BY <3>2, <4>1, RequestByOp DEF TypeOK
        <4>3. j # i /\ inv[j] # NoRow /\ ~inv[j].accepted
          BY <2>1, <3>2, <4>1
        <4> QED BY <2>4, <2>5, <4>2, <4>3
      <3> QED BY <3>1, <3>2
    <2>7. RevokedIsNotAccepted'
      <3>1. ASSUME NEW j \in Invitations, inv'[j] # NoRow
            PROVE  ~(inv'[j].accepted /\ inv'[j].revoked)
        <4>1. CASE j = i
          BY <2>3, <4>1
        <4>2. CASE j # i /\ j \in req[r].earlier
          BY <2>2, <2>4, <4>2
        <4>3. CASE j # i /\ j \notin req[r].earlier
          BY <2>4, <2>4a, <3>1, <4>3
        <4> QED BY <4>1, <4>2, <4>3
      <3> QED BY <3>1
    <2> QED BY <2>6, <2>7
  <1>8. ASSUME NEW r \in Requests, CommitAccept(r)
        PROVE  HeldRows' /\ RevokedIsNotAccepted'
    <2>1. /\ req[r].op = "ACCEPT_TAKEN"
          /\ inv' = [inv EXCEPT ![req[r].row].accepted = TRUE]
      BY <1>8 DEF CommitAccept
    <2>2. /\ req'[r].op = "IDLE"
          /\ \A q \in Requests \ {r} : req'[q] = req[q]
      BY <1>8 DEF CommitAccept, TypeOK, Idle
    <2>3. /\ req[r].row \in Invitations
          /\ inv[req[r].row] \in Row /\ ~inv[req[r].row].revoked
      BY <2>1, RequestByOp DEF TypeOK
    <2>4. /\ inv'[req[r].row] \in Row /\ ~inv'[req[r].row].revoked
          /\ \A j \in Invitations \ {req[r].row} : inv'[j] = inv[j]
      BY <2>1, <2>3 DEF TypeOK, Row
    <2>5. inv'[req[r].row] # NoRow
      BY <2>4 DEF Row, NoRow
    <2>6. RevokedIsNotAccepted'
      BY <2>4
    <2>7. ASSUME NEW q \in Requests, req'[q].op = "ACCEPT_TAKEN"
          PROVE  inv'[req'[q].row] # NoRow /\ ~inv'[req'[q].row].revoked
      <3>1. req'[q] = req[q] /\ req[q].row \in Invitations
        BY <2>2, <2>7, RequestByOp DEF TypeOK
      <3> QED BY <2>4, <2>5, <2>7, <3>1
    <2>8. ASSUME NEW q \in Requests, req'[q].op = "INVITE_REPLACING", NEW j \in req'[q].earlier
          PROVE  inv'[j] # NoRow /\ ~inv'[j].accepted
      <3>1. req'[q] = req[q] /\ j \in Invitations
        BY <2>2, <2>8, RequestByOp DEF TypeOK
      <3>2. j # req[r].row
        BY <2>1, <2>8, <3>1 DEF TypeOK
      <3> QED BY <2>4, <2>8, <3>1, <3>2
    <2> QED BY <2>6, <2>7, <2>8
  <1>9. ASSUME NEW i \in Invitations, Revoke(i) \/ Lapse(i)
        PROVE  HeldRows' /\ RevokedIsNotAccepted'
    <2>1. /\ inv[i] \in Row /\ ~inv[i].accepted /\ UNCHANGED req
      BY <1>9 DEF Revoke, Lapse, Unsettled, TypeOK
    <2>2. /\ inv'[i] \in Row /\ ~inv'[i].accepted
          /\ \A j \in Invitations \ {i} : inv'[j] = inv[j]
      <3>1. CASE Revoke(i)
        <4>1. inv' = [inv EXCEPT ![i].revoked = TRUE]
          BY <3>1 DEF Revoke
        <4> QED BY <2>1, <4>1 DEF TypeOK, Row
      <3>2. CASE Lapse(i)
        <4>1. inv' = [inv EXCEPT ![i].lapsed = TRUE]
          BY <3>2 DEF Lapse
        <4> QED BY <2>1, <4>1 DEF TypeOK, Row
      <3> QED BY <1>9, <3>1, <3>2
    <2>3. inv'[i] # NoRow
      BY <2>2 DEF Row, NoRow
    <2>4. RowIsFree(i) \/ inv'[i].revoked = inv[i].revoked
      <3>1. CASE Revoke(i)
        BY <3>1 DEF Revoke
      <3>2. CASE Lapse(i)
        BY <2>1, <3>2 DEF Lapse, TypeOK, Row
      <3> QED BY <1>9, <3>1, <3>2
    <2>5. ASSUME NEW q \in Requests, req[q].op = "ACCEPT_TAKEN"
          PROVE  inv'[req[q].row] # NoRow /\ ~inv'[req[q].row].revoked
      <3>1. req[q].row \in Invitations
        BY <2>5, RequestByOp DEF TypeOK
      <3> QED BY <2>2, <2>3, <2>4, <2>5, <3>1 DEF RowIsFree
    <2>6. ASSUME NEW q \in Requests, req[q].op = "INVITE_REPLACING", NEW j \in req[q].earlier
          PROVE  inv'[j] # NoRow /\ ~inv'[j].accepted
      <3>1. j \in Invitations
        BY <2>6, RequestByOp DEF TypeOK
      <3> QED BY <2>2, <2>3, <2>6, <3>1
    <2> QED BY <2>1, <2>2, <2>5, <2>6
  <1> QED BY <1>2, <1>3, <1>4, <1>5, <1>6, <1>7, <1>8, <1>9 DEF Next

-----------------------------------------------------------------------------
(***************************************************************************)
(* The theorems.                                                           *)
(***************************************************************************)
\* The strengthened invariant holds in every reachable state.
LEMMA Inductive == Spec => []IInv
  <1>1. IInv /\ [Next]_vars => IInv'
    <2> SUFFICES ASSUME IInv, [Next]_vars PROVE IInv'
      OBVIOUS
    <2>1. CASE Next
      BY <2>1, TypeStep, OwnerStep, RowStep DEF IInv
    <2>2. CASE UNCHANGED vars
      BY <2>2 DEF vars, IInv, TypeOK, OrgIsFree, AlwaysAnOwner, LeavesAnOwner, Owners, HeldRows,
         RevokedIsNotAccepted, Exists
    <2> QED BY <2>1, <2>2
  <1> QED BY <1>1, InitInv, PTL DEF Spec

\* Every reachable state is well typed, and no row is locked twice.
THEOREM TypeCorrect == Spec => []TypeOK
  BY Inductive, PTL DEF IInv

\* However many owners demote and remove each other at once, one remains.
THEOREM OwnerRemains == Spec => []AlwaysAnOwner
  BY Inductive, PTL DEF IInv

\* However revocations, invitations and acceptances overlap, a revoked
\* invitation has admitted nobody.
THEOREM RevocationHolds == Spec => []RevokedIsNotAccepted
  BY Inductive, PTL DEF IInv

-----------------------------------------------------------------------------
(***************************************************************************)
(* Joining.  An invitation is taken by one request at a time, and what is  *)
(* taken is not spent yet; so every membership spends one of its own.      *)
(***************************************************************************)
TakenOnce ==
  \A r \in Requests : req[r].op = "ACCEPT_TAKEN" =>
    /\ ~inv[req[r].row].accepted
    /\ \A q \in Requests \ {r} : req[q].op = "ACCEPT_TAKEN" => req[q].row # req[r].row

\* The invitations a person accepted.
Spent(u) == {i \in Invitations : Exists(i) /\ inv[i].email = u /\ inv[i].accepted}

\* A step that writes no membership and settles no invitation as accepted.
NobodyJoins ==
  /\ \A u \in People : member'[u].times = member[u].times
  /\ \A i \in Invitations :
       \/ inv'[i] = inv[i]
       \/ /\ ~Exists(i) /\ inv'[i].accepted = FALSE
       \/ /\ Exists(i) /\ inv'[i] # NoRow
          /\ inv'[i].email = inv[i].email /\ inv'[i].accepted = inv[i].accepted

\* A step after which no further invitation is taken.
NothingTaken ==
  \A q \in Requests : req'[q].op = "ACCEPT_TAKEN" => req'[q] = req[q]

LEMMA CountKept ==
  ASSUME JoinedOncePerInvitation, NobodyJoins
  PROVE  JoinedOncePerInvitation'
  <1> SUFFICES ASSUME NEW u \in People
               PROVE  member'[u].times = Cardinality(Spent(u)')
    BY DEF JoinedOncePerInvitation, Spent
  <1>1. Spent(u)' = Spent(u)
    BY DEF Spent, NobodyJoins, Exists
  <1> QED BY <1>1 DEF NobodyJoins, JoinedOncePerInvitation, Spent

LEMMA TakenKept ==
  ASSUME TypeOK, TakenOnce, HeldRows, NobodyJoins, NothingTaken
  PROVE  TakenOnce'
  <1> SUFFICES ASSUME NEW r \in Requests, req'[r].op = "ACCEPT_TAKEN"
               PROVE  /\ ~inv'[req'[r].row].accepted
                      /\ \A q \in Requests \ {r} :
                           req'[q].op = "ACCEPT_TAKEN" => req'[q].row # req'[r].row
    BY DEF TakenOnce
  <1>1. req'[r] = req[r] /\ ~inv[req[r].row].accepted /\ Exists(req[r].row)
    BY DEF NothingTaken, TakenOnce, HeldRows
  <1>2. req[r].row \in Invitations
    BY <1>1, RequestByOp DEF TypeOK
  <1>3. ~inv'[req'[r].row].accepted
    BY <1>1, <1>2 DEF NobodyJoins
  <1> QED BY <1>1, <1>3 DEF NothingTaken, TakenOnce

\* The one step in which somebody joins spends an invitation that was not spent.
LEMMA AcceptSpends ==
  ASSUME MembersAssumption, TypeOK, HeldRows, TakenOnce, JoinedOncePerInvitation,
         NEW r \in Requests, CommitAccept(r)
  PROVE  JoinedOncePerInvitation' /\ TakenOnce'
  <1>1. PICK i \in Invitations : i = req[r].row
    BY RequestByOp DEF CommitAccept, TypeOK
  <1>2. /\ req[r].op = "ACCEPT_TAKEN" /\ Exists(i) /\ ~inv[i].accepted /\ inv[i] \in Row
    BY <1>1 DEF CommitAccept, HeldRows, TakenOnce, Exists, TypeOK
  <1>3. PICK u \in People : u = inv[i].email
    BY <1>2 DEF Row
  <1>4. /\ inv' = [inv EXCEPT ![i].accepted = TRUE] /\ req' = [req EXCEPT ![r] = Idle]
        /\ member' = [member EXCEPT ![u] = [role |-> inv[i].role, times |-> @.times + 1]]
    BY <1>1, <1>3 DEF CommitAccept
  <1>5. /\ inv'[i] \in Row /\ inv'[i].email = u /\ inv'[i].accepted
        /\ \A j \in Invitations \ {i} : inv'[j] = inv[j]
    BY <1>2, <1>3, <1>4 DEF TypeOK, Row
  <1>6. inv'[i] # NoRow
    BY <1>5 DEF Row, NoRow
  <1>7. Spent(u)' = Spent(u) \cup {i} /\ i \notin Spent(u)
    BY <1>2, <1>5, <1>6 DEF Spent, Exists
  <1>8. \A v \in People \ {u} : Spent(v)' = Spent(v)
    BY <1>2, <1>3, <1>5 DEF Spent, Exists
  <1>9. IsFiniteSet(Spent(u))
    <2>1. Spent(u) \in SUBSET Invitations
      BY DEF Spent
    <2> QED BY <2>1, FS_Subset DEF MembersAssumption
  <1>10. Cardinality(Spent(u)') = Cardinality(Spent(u)) + 1
    BY <1>7, <1>9, FS_AddElement
  <1>11. /\ member'[u].times = member[u].times + 1
         /\ \A v \in People \ {u} : member'[v] = member[v]
    BY <1>4 DEF TypeOK
  <1>12. \A v \in People : member'[v].times = Cardinality(Spent(v)')
    <2>1. \A v \in People : member[v].times = Cardinality(Spent(v))
      BY DEF JoinedOncePerInvitation, Spent
    <2>2. member'[u].times = Cardinality(Spent(u)')
      BY <1>10, <1>11, <2>1
    <2>3. \A v \in People \ {u} : member'[v].times = Cardinality(Spent(v)')
      BY <1>8, <1>11, <2>1
    <2> QED BY <2>2, <2>3
  <1>13. JoinedOncePerInvitation'
    BY <1>12 DEF JoinedOncePerInvitation, Spent
  <1>14. TakenOnce'
    <2> SUFFICES ASSUME NEW q \in Requests, req'[q].op = "ACCEPT_TAKEN"
                 PROVE  /\ ~inv'[req'[q].row].accepted
                        /\ \A s \in Requests \ {q} :
                             req'[s].op = "ACCEPT_TAKEN" => req'[s].row # req'[q].row
      BY DEF TakenOnce
    <2>1. \A s \in Requests : req'[s].op = "ACCEPT_TAKEN" => s # r /\ req'[s] = req[s]
      BY <1>4 DEF TypeOK, Idle
    <2>2. q # r /\ req'[q] = req[q] /\ req[q].row # i
      BY <1>1, <1>2, <2>1 DEF TakenOnce
    <2>3. req[q].row \in Invitations
      BY <2>2, RequestByOp DEF TypeOK
    <2>4. ~inv'[req'[q].row].accepted
      BY <1>5, <2>2, <2>3 DEF TakenOnce
    <2>5. \A s \in Requests \ {q} : req'[s].op = "ACCEPT_TAKEN" => req'[s].row # req'[q].row
      BY <2>1, <2>2 DEF TakenOnce
    <2> QED BY <2>4, <2>5
  <1> QED BY <1>13, <1>14

LEMMA JoinStep ==
  ASSUME MembersAssumption, TypeOK, HeldRows, TakenOnce, JoinedOncePerInvitation, [Next]_vars
  PROVE  JoinedOncePerInvitation' /\ TakenOnce'
  <1> DEFINE Goal == JoinedOncePerInvitation' /\ TakenOnce'
  <1>0. ASSUME NobodyJoins, NothingTaken PROVE Goal
    BY <1>0, CountKept, TakenKept
  <1>1. ASSUME UNCHANGED <<member, inv>>, NothingTaken PROVE Goal
    BY <1>0, <1>1 DEF NobodyJoins
  <1>2. ASSUME NEW r \in Requests, NEW u \in People,
               \/ \E change \in Change : BeginChange(r, u, change)
               \/ \E role \in OrgRole : BeginInvite(r, u, role)
        PROVE  Goal
    BY <1>1, <1>2 DEF BeginChange, BeginInvite, NothingTaken, TypeOK
  <1>3. ASSUME NEW r \in Requests, NEW i \in Invitations, BeginAccept(r, i) PROVE Goal
    BY <1>1, <1>3 DEF BeginAccept, NothingTaken, TypeOK
  <1>4. ASSUME NEW r \in Requests, LockedMember(r) \/ Judge(r) \/ ReplaceEarlier(r) PROVE Goal
    <2>1. UNCHANGED <<member, inv>>
      BY <1>4 DEF LockedMember, Judge, ReplaceEarlier
    <2>2. req'[r].op # "ACCEPT_TAKEN" /\ \A q \in Requests \ {r} : req'[q] = req[q]
      <3>1. CASE LockedMember(r)
        BY <3>1, RequestByOp DEF LockedMember, TypeOK
      <3>2. CASE Judge(r)
        BY <3>2, RequestByOp DEF Judge, TypeOK
      <3>3. CASE ReplaceEarlier(r)
        BY <3>3, RequestByOp DEF ReplaceEarlier, TypeOK
      <3> QED BY <1>4, <3>1, <3>2, <3>3
    <2> QED BY <1>1, <2>1, <2>2 DEF NothingTaken
  <1>5. ASSUME NEW r \in Requests, req' = [req EXCEPT ![r] = Idle] PROVE NothingTaken
    BY <1>5 DEF NothingTaken, TypeOK, Idle
  <1>6. ASSUME NEW r \in Requests, CommitChange(r) PROVE Goal
    <2>1. NothingTaken /\ UNCHANGED inv
      BY <1>5, <1>6 DEF CommitChange
    <2>2. \A u \in People : member'[u].times = member[u].times
      BY <1>6 DEF CommitChange, TypeOK
    <2> QED BY <1>0, <2>1, <2>2 DEF NobodyJoins
  <1>7. ASSUME NEW r \in Requests, Abort(r) PROVE Goal
    BY <1>1, <1>5, <1>7 DEF Abort
  <1>8. ASSUME NEW r \in Requests, TakeInvitation(r) PROVE Goal
    <2>1. req[r] \in [op : {"ACCEPT", "ACCEPT_TAKEN"}, row : Invitations]
      BY <1>8, RequestByOp DEF TakeInvitation, TypeOK
    <2>2. /\ UNCHANGED <<member, inv>>
          /\ req'[r].op = "ACCEPT_TAKEN" /\ req'[r].row = req[r].row
          /\ \A q \in Requests \ {r} : req'[q] = req[q]
      BY <1>8, <2>1 DEF TakeInvitation, TypeOK
    <2>3. ~inv[req[r].row].accepted
          /\ \A q \in Requests : req[q].op = "ACCEPT_TAKEN" => req[q].row # req[r].row
      BY <1>8 DEF TakeInvitation, Valid, Unsettled, RowIsFree
    <2>4. TakenOnce'
      BY <2>2, <2>3 DEF TakenOnce
    <2>5. NobodyJoins
      BY <2>2 DEF NobodyJoins
    <2> QED BY <2>4, <2>5, CountKept
  <1>9. ASSUME NEW r \in Requests, CommitInvite(r) PROVE Goal
    <2>1. PICK i \in Invitations :
            /\ ~Exists(i)
            /\ inv' = [j \in Invitations |->
                 IF j = i
                 THEN [ email |-> req[r].email, role |-> req[r].role,
                        accepted |-> FALSE, revoked |-> FALSE, lapsed |-> FALSE ]
                 ELSE IF j \in req[r].earlier THEN [inv[j] EXCEPT !.revoked = TRUE]
                 ELSE inv[j]]
      BY <1>9 DEF CommitInvite
    <2>2. NothingTaken /\ UNCHANGED member /\ req[r].op = "INVITE_REPLACING"
      BY <1>5, <1>9 DEF CommitInvite
    <2>3. inv'[i].accepted = FALSE
      BY <2>1
    <2>4. ASSUME NEW j \in Invitations \ {i}, j \in req[r].earlier
          PROVE  /\ Exists(j) /\ inv'[j] # NoRow
                 /\ inv'[j].email = inv[j].email /\ inv'[j].accepted = inv[j].accepted
      <3>1. Exists(j) /\ inv[j] \in Row
        BY <2>2, <2>4 DEF HeldRows, TypeOK, Exists
      <3>2. inv'[j] = [inv[j] EXCEPT !.revoked = TRUE]
        BY <2>1, <2>4
      <3>3. inv'[j] \in Row /\ inv'[j].email = inv[j].email /\ inv'[j].accepted = inv[j].accepted
        BY <3>1, <3>2 DEF Row
      <3>4. inv'[j] # NoRow
        BY <3>3 DEF Row, NoRow
      <3> QED BY <3>1, <3>3, <3>4
    <2>5. \A j \in Invitations \ {i} : j \notin req[r].earlier => inv'[j] = inv[j]
      BY <2>1
    <2>6. NobodyJoins
      BY <2>1, <2>2, <2>3, <2>4, <2>5 DEF NobodyJoins
    <2> QED BY <1>0, <2>2, <2>6
  <1>10. ASSUME NEW r \in Requests, CommitAccept(r) PROVE Goal
    BY <1>10, AcceptSpends
  <1>11. ASSUME NEW i \in Invitations, Revoke(i) \/ Lapse(i) PROVE Goal
    <2>1. inv[i] \in Row /\ Exists(i) /\ UNCHANGED <<member, req>>
      BY <1>11 DEF Revoke, Lapse, Unsettled, Exists, TypeOK
    <2>2. /\ inv'[i] \in Row /\ inv'[i].email = inv[i].email
          /\ inv'[i].accepted = inv[i].accepted
          /\ \A j \in Invitations \ {i} : inv'[j] = inv[j]
      <3>1. CASE inv' = [inv EXCEPT ![i].revoked = TRUE]
        BY <2>1, <3>1 DEF TypeOK, Row
      <3>2. CASE inv' = [inv EXCEPT ![i].lapsed = TRUE]
        BY <2>1, <3>2 DEF TypeOK, Row
      <3> QED BY <1>11, <3>1, <3>2 DEF Revoke, Lapse
    <2>3. inv'[i] # NoRow
      BY <2>2 DEF Row, NoRow
    <2>4. NobodyJoins /\ NothingTaken
      BY <2>1, <2>2, <2>3 DEF NobodyJoins, NothingTaken
    <2> QED BY <1>0, <2>4
  <1>12. CASE UNCHANGED vars
    BY <1>1, <1>12 DEF vars, NothingTaken
  <1> QED BY <1>2, <1>3, <1>4, <1>6, <1>7, <1>8, <1>9, <1>10, <1>11, <1>12 DEF Next

\* Every membership spent one invitation of its own: nobody joins twice with
\* the same one, whichever requests try to.
THEOREM JoinsAreInvited == Spec => []JoinedOncePerInvitation
  <1>1. Init => JoinedOncePerInvitation /\ TakenOnce
    <2> SUFFICES ASSUME Init PROVE JoinedOncePerInvitation /\ TakenOnce
      OBVIOUS
    <2>1. \A u \in People : Spent(u) = {} /\ member[u].times = 0
      BY DEF Init, Spent, Exists
    <2>2. JoinedOncePerInvitation
      BY <2>1, FS_EmptySet DEF JoinedOncePerInvitation, Spent
    <2> QED BY <2>2 DEF Init, TakenOnce, Idle
  <1>2. ASSUME IInv, JoinedOncePerInvitation, TakenOnce, [Next]_vars
        PROVE  JoinedOncePerInvitation' /\ TakenOnce'
    BY <1>2, JoinStep, MembersAssumption DEF IInv
  <1> QED BY <1>1, <1>2, Inductive, PTL DEF Spec


-----------------------------------------------------------------------------
(***************************************************************************)
(* A browser tab: whose records a page of the trade portal shows.          *)
(***************************************************************************)
Roles == [Org -> OrgRole \cup {"NONE"}]

\* The records on a page of the portal, and those it waits for, are the active
\* organisation's.
OwnRecords(t) ==
  t.page \in BusinessPages =>
    /\ t.data \in {NoOrg, t.org}
    /\ t.query.is = "SENT" => t.query.org \in {NoOrg, t.org}

Fits(t) == t \in Tab /\ OwnRecords(t)

Asking   == [is : {"NONE", "ASKED", "FAILED"}] \cup [is : {"OK"}, user : Profile \cup {NoUser}]
Querying == [is : {"NONE", "ERROR"}]
              \cup [is : {"SENT"}, route : Route, org : Org \cup {NoOrg}]
Known    == Profile \cup {NoUser}
Chosen   == Org \cup {NoOrg}
Phase    == {"loading", "authenticated", "anonymous"}

LEMMA TabIs ==
  Tab = [page : Visited, status : Phase, user : Known, org : Chosen, me : Asking, then : Step,
         query : Querying, data : Chosen]
  BY DEF Tab, Asking, Querying, Known, Chosen, Phase

LEMMA ValuesAre ==
  /\ None \in Querying /\ None \in Asking /\ Asked \in Asking
  /\ Nothing \in Step /\ Land \in Step /\ \A o \in Org : [do |-> "JOIN", org |-> o] \in Step
  /\ NoUser \in Known /\ NoOrg \in Chosen
  BY DEF None, Asked, Querying, Asking, Nothing, Land, Step, Known, Chosen

\* What everybody else does to the session.
World ==
  /\ account \in [User -> [role : Role, active : BOOLEAN, factor : BOOLEAN]]
  /\ membership \in [User -> Roles]
  /\ standing \in [Org -> OrgStatus]
  /\ cookie \in Session \cup {NoSession}
  /\ preferred \in Org \cup {NoOrg}
  /\ changes \in 0..MaxChanges

WebInv == World /\ Fits(tab)

LEMMA WebTyped == WebInv => WebTypeOK
  BY DEF WebInv, World, Fits, WebTypeOK, Roles

LEMMA MfaIsNoBusiness == "mfa" \notin BusinessPages
  BY DEF BusinessPages, Business

LEMMA FreshPage ==
  ASSUME NEW t \in Tab, t.query = None, t.data = NoOrg
  PROVE  Fits(t)
  BY DEF Fits, OwnRecords, None

LEMMA PageReached ==
  ASSUME NEW session, NEW page \in Visited
  PROVE  UpdateSession(session, page) \in Visited
  <1>1. CASE session = NoSession
    <2> DEFINE p == CASE page \in Protected \cup {"mfa"} -> "login"
                      [] page = "password"               -> "forgotPassword"
                      [] OTHER                           -> page
    <2>1. UpdateSession(session, page) = p
      BY <1>1 DEF UpdateSession
    <2>2. p \in {"login", "forgotPassword", page}
      OBVIOUS
    <2> HIDE DEF p
    <2> QED BY <2>1, <2>2, WebConstants
  <1>2. CASE session # NoSession
    <2>1. UpdateSession(session, page) \in {"account", page}
      BY <1>2 DEF UpdateSession
    <2> QED BY <2>1, WebConstants
  <1> QED BY <1>1, <1>2

LEMMA GoToFits ==
  ASSUME NEW t \in Tab, NEW page \in Visited
  PROVE  Fits(GoTo(t, page))
  <1>1. PICK p \in Visited : p = UpdateSession(cookie, page)
    BY PageReached
  <1>2. GoTo(t, page) = [t EXCEPT !.page = p, !.query = None, !.data = NoOrg]
    BY <1>1 DEF GoTo
  <1>3. /\ GoTo(t, page) \in Tab
        /\ GoTo(t, page).query = None
        /\ GoTo(t, page).data = NoOrg
    BY <1>2, TabIs, ValuesAre
  <1> QED BY <1>3, FreshPage

LEMMA LoadedFits ==
  ASSUME NEW session, NEW page \in Visited
  PROVE  Fits(Loaded(session, page))
  <1>1. UpdateSession(session, page) \in Visited
    BY PageReached
  <1>2. /\ Loaded(session, page) \in Tab
        /\ Loaded(session, page).query = None
        /\ Loaded(session, page).data = NoOrg
    BY <1>1, TabIs, ValuesAre DEF Loaded, Phase
  <1> QED BY <1>2, FreshPage

\* Asking who is signed in changes neither the page nor its records.
LEMMA RefreshFits ==
  ASSUME NEW t, Fits(t), NEW next \in Step
  PROVE  Fits(RefreshSession(t, next))
  <1>1. t \in Tab
    BY DEF Fits
  <1>2. PICK me \in Asking :
          me = IF t.me = None THEN Asked ELSE t.me
    BY <1>1, TabIs, ValuesAre
  <1>3. PICK then \in Step : then = IF next = Nothing THEN t.then ELSE next
    BY <1>1, TabIs
  <1>4. RefreshSession(t, next) = [t EXCEPT !.me = me, !.then = then]
    <2>1. t = [page |-> t.page, status |-> t.status, user |-> t.user, org |-> t.org, me |-> t.me,
               then |-> t.then, query |-> t.query, data |-> t.data]
      BY <1>1, TabIs
    <2> QED BY <1>2, <1>3, <2>1 DEF RefreshSession
  <1> DEFINE r == [t EXCEPT !.me = me, !.then = then]
  <1>5. /\ r \in Tab
        /\ r.page = t.page /\ r.org = t.org /\ r.query = t.query /\ r.data = t.data
    BY <1>1, <1>2, <1>3, TabIs
  <1> HIDE DEF r
  <1>6. Fits(r)
    BY <1>5 DEF Fits, OwnRecords
  <1> QED BY <1>4, <1>6 DEF r

\* applyUser says who is there, and which organisation is active; the page stays.
LEMMA UserApplied ==
  ASSUME NEW t \in Tab, NEW profile \in Known, preferred \in Org \cup {NoOrg},
         NEW s \in ApplyUser(t, profile)
  PROVE  /\ s \in Tab
         /\ s.page = t.page /\ s.query = t.query /\ s.data = t.data
         /\ s.me = t.me /\ s.then = t.then
  <1>1. CASE profile = NoUser
    <2>1. s = [t EXCEPT !.status = "anonymous", !.user = NoUser, !.org = NoOrg]
      BY <1>1 DEF ApplyUser
    <2> QED BY <2>1, TabIs, ValuesAre DEF Phase
  <1>2. CASE profile # NoUser
    <2>1. MembershipsOf(profile) \subseteq Org
      BY DEF MembershipsOf
    <2>2. PICK o \in Org \cup {NoOrg} :
            s = [t EXCEPT !.status = "authenticated", !.user = profile, !.org = o]
      BY <1>2, <2>1 DEF ApplyUser
    <2> QED BY <2>2, TabIs DEF Phase, Known, Chosen
  <1> QED BY <1>1, <1>2

\* Whatever a step makes of the organisation, the page is remounted if it changed.
LEMMA SwitchedFits ==
  ASSUME Fits(tab), NEW t \in Tab,
         t.page = tab.page, t.query = tab.query, t.data = tab.data
  PROVE  /\ Fits(Switched(t))
         /\ Switched(t).me = t.me /\ Switched(t).then = t.then
  <1>1. CASE t.org = tab.org
    BY <1>1 DEF Switched, Fits, OwnRecords
  <1>2. CASE t.org # tab.org
    <2>1. PICK d \in Org \cup {NoOrg} : d = IF t.page \in BusinessPages THEN NoOrg ELSE t.data
      BY TabIs DEF Chosen
    <2>2. Switched(t) = [t EXCEPT !.query = None, !.data = d]
      BY <1>2, <2>1 DEF Switched
    <2> DEFINE s == [t EXCEPT !.query = None, !.data = d]
    <2>3. /\ s \in Tab /\ s.page = t.page /\ s.query = None /\ s.data = d
          /\ s.me = t.me /\ s.then = t.then
      BY <2>1, TabIs, ValuesAre DEF Chosen
    <2> HIDE DEF s
    <2>4. Fits(s)
      BY <2>1, <2>3 DEF Fits, OwnRecords, None
    <2> QED BY <2>2, <2>3, <2>4 DEF s
  <1> QED BY <1>1, <1>2

LEMMA MeTyped ==
  ASSUME World
  PROVE  Me \in Profile \cup {NoUser}
  <1>1. CASE Me = NoUser
    BY <1>1
  <1>2. CASE Me # NoUser
    <2>1. Me = Profiled(cookie.user, cookie.verified) /\ cookie # NoSession
      BY <1>2 DEF Me
    <2>2. cookie.user \in User /\ cookie.verified \in BOOLEAN
      BY <2>1 DEF World, Session
    <2>3. account[cookie.user].role \in Role /\ membership[cookie.user] \in Roles
      BY <2>2 DEF World
    <2> QED BY <2>1, <2>2, <2>3 DEF Profiled, Profile, Roles
  <1> QED BY <1>1, <1>2

-----------------------------------------------------------------------------
(***************************************************************************)
(* The steps of the tab, and what happens elsewhere.                       *)
(***************************************************************************)
WorldStays == UNCHANGED <<account, membership, standing, cookie, preferred, changes>>

LEMMA WorldKept == World /\ WorldStays => World'
  BY DEF World, WorldStays

\* A tab whose page and records stay as they are.
LEMMA SamePage ==
  ASSUME Fits(tab), NEW t \in Tab,
         t.page = tab.page, t.org = tab.org, t.query = tab.query, t.data = tab.data
  PROVE  Fits(t)
  BY DEF Fits, OwnRecords

LEMMA MeAnsweredFits ==
  ASSUME World, Fits(tab), MeAnswered
  PROVE  Fits(tab')
  <1>1. PICK a \in {[is |-> "OK", user |-> Me], [is |-> "OK", user |-> NoUser], [is |-> "FAILED"]} :
          tab' = [tab EXCEPT !.me = a]
    BY DEF MeAnswered
  <1>2. a \in Asking
    BY MeTyped DEF Asking
  <1>3. tab \in Tab
    BY DEF Fits
  <1>4. /\ tab' \in Tab /\ tab'.page = tab.page /\ tab'.org = tab.org
        /\ tab'.query = tab.query /\ tab'.data = tab.data
    BY <1>1, <1>2, <1>3, TabIs
  <1> QED BY <1>4, SamePage

\* Where the answer of /auth/me leads.
LEMMA Continued ==
  ASSUME World, NEW t, Fits(t), Continue(t)
  PROVE  Fits(tab') /\ preferred' \in Org \cup {NoOrg}
  <1>1. t \in Tab /\ t.then \in Step
    BY TabIs DEF Fits
  <1>2. CASE t.then.do = "NOTHING"
    <2>1. tab' = t /\ preferred' = preferred
      BY <1>2 DEF Continue
    <2> QED BY <2>1 DEF World
  <1>3. CASE t.then.do = "LAND"
    <2> DEFINE s == [t EXCEPT !.then = Nothing]
               page == IF t.user = NoUser THEN "account" ELSE LandingPath(ViewerOf(t))
    <2>1. tab' = GoTo(s, page) /\ preferred' = preferred
      BY <1>3 DEF Continue
    <2>2. s \in Tab
      BY <1>1, TabIs, ValuesAre
    <2>3. page \in Visited
      BY WebConstants DEF LandingPath
    <2> HIDE DEF s, page
    <2> QED BY <2>1, <2>2, <2>3, GoToFits DEF World
  <1>4. CASE t.then.do = "JOIN"
    <2>1. t.then.org \in Org
      BY <1>1, <1>4 DEF Step
    <2> DEFINE s == [t EXCEPT !.then = Nothing, !.org = t.then.org]
    <2>2. tab' = GoTo(s, "business") /\ preferred' = t.then.org
      BY <1>4 DEF Continue
    <2>3. s \in Tab
      BY <1>1, <2>1, TabIs, ValuesAre DEF Chosen
    <2> HIDE DEF s
    <2> QED BY <2>1, <2>2, <2>3, GoToFits, WebConstants
  <1> QED BY <1>1, <1>2, <1>3, <1>4 DEF Step

LEMMA ApplyMeFits ==
  ASSUME World, Fits(tab), ApplyMe
  PROVE  Fits(tab') /\ World'
  <1>1. tab \in Tab
    BY DEF Fits
  <1>2. PICK t \in IF tab.me.is = "OK" THEN ApplyUser(tab, tab.me.user)
                   ELSE IF tab.status = "authenticated" THEN {tab} ELSE ApplyUser(tab, NoUser) :
          Continue([Switched(t) EXCEPT !.me = None])
    BY DEF ApplyMe
  <1>3. /\ t \in Tab
        /\ t.page = tab.page /\ t.query = tab.query /\ t.data = tab.data
    <2>1. preferred \in Org \cup {NoOrg}
      BY DEF World
    <2>2. CASE tab.me.is = "OK"
      <3>1. tab.me.user \in Known
        BY <1>1, <2>2, TabIs DEF Asking, Known
      <3> QED BY <1>1, <1>2, <2>1, <2>2, <3>1, UserApplied
    <2>3. CASE tab.me.is # "OK" /\ tab.status = "authenticated"
      BY <1>1, <1>2, <2>3
    <2>4. CASE tab.me.is # "OK" /\ tab.status # "authenticated"
      BY <1>1, <1>2, <2>1, <2>4, UserApplied, ValuesAre
    <2> QED BY <2>2, <2>3, <2>4
  <1> DEFINE s == Switched(t)
             r == [s EXCEPT !.me = None]
  <1>4. Fits(s)
    BY <1>3, SwitchedFits
  <1> HIDE DEF s
  <1>5. /\ r \in Tab /\ r.page = s.page /\ r.org = s.org /\ r.query = s.query /\ r.data = s.data
    BY <1>4, TabIs, ValuesAre DEF Fits
  <1>6. Continue(r)
    BY <1>2 DEF s
  <1> HIDE DEF r
  <1>7. Fits(r)
    BY <1>4, <1>5 DEF Fits, OwnRecords
  <1>8. Fits(tab') /\ preferred' \in Org \cup {NoOrg}
    BY <1>6, <1>7, Continued
  <1>9. UNCHANGED <<account, membership, standing, cookie, changes>>
    BY DEF ApplyMe
  <1> QED BY <1>8, <1>9 DEF World

LEMMA SwitchFits ==
  ASSUME World, Fits(tab), NEW o \in Org, SwitchOrganization(o)
  PROVE  Fits(tab') /\ World'
  <1> DEFINE t == [tab EXCEPT !.org = o]
  <1>1. /\ t \in Tab
        /\ t.page = tab.page /\ t.query = tab.query /\ t.data = tab.data
    BY TabIs DEF Fits, Chosen
  <1>2. tab' = Switched(t) /\ preferred' = o /\ UNCHANGED <<account, membership, standing, cookie, changes>>
    BY DEF SwitchOrganization
  <1> HIDE DEF t
  <1>3. Fits(tab')
    BY <1>1, <1>2, SwitchedFits
  <1> QED BY <1>2, <1>3 DEF World

\* A call of the portal names the active organisation.
LEMMA AskDataFits ==
  ASSUME Fits(tab), NEW route \in Route, AskData(route)
  PROVE  Fits(tab')
  <1>1. tab \in Tab /\ tab.org \in Chosen
    BY TabIs DEF Fits
  <1>2. PICK org \in {tab.org, NoOrg} :
          tab' = [tab EXCEPT !.query = [is |-> "SENT", route |-> route, org |-> org]]
    BY DEF AskData
  <1>3. PICK query : query = [is |-> "SENT", route |-> route, org |-> org]
    OBVIOUS
  <1>4. query \in Querying /\ query.org \in {NoOrg, tab.org}
    BY <1>1, <1>2, <1>3, ValuesAre DEF Querying, Chosen
  <1>5. /\ tab' \in Tab /\ tab'.page = tab.page /\ tab'.org = tab.org
        /\ tab'.query = query /\ tab'.data = tab.data
    BY <1>1, <1>2, <1>3, <1>4, TabIs
  <1> QED BY <1>4, <1>5 DEF Fits, OwnRecords

LEMMA AnsweredFits ==
  ASSUME Fits(tab), Answered
  PROVE  Fits(tab')
  <1>1. tab \in Tab /\ tab.query \in Querying /\ tab.query.is = "SENT"
    BY TabIs DEF Fits, Answered
  <1>2. tab.query.org \in Chosen
    BY <1>1 DEF Querying, Chosen
  <1> DEFINE answer == Answer(CallerFor(tab.query.org), tab.query.route)
             failed == [tab EXCEPT !.query = [is |-> "ERROR"]]
  <1>3. Fits(failed)
    <2>1. PICK query : query = [is |-> "ERROR"]
      OBVIOUS
    <2>2. query \in Querying /\ query.is # "SENT"
      BY <2>1 DEF Querying
    <2>3. failed = [tab EXCEPT !.query = query]
      BY <2>1
    <2>4. /\ failed \in Tab /\ failed.page = tab.page /\ failed.org = tab.org
          /\ failed.query = query /\ failed.data = tab.data
      BY <1>1, <2>2, <2>3, TabIs
    <2> HIDE DEF failed
    <2> QED BY <2>2, <2>4 DEF Fits, OwnRecords
  <1>4. CASE answer = "OK"
    <2>1. PICK d \in Chosen : d = IF tab.query.org = NoOrg THEN tab.data ELSE tab.query.org
      BY <1>1, <1>2, TabIs
    <2>2. tab' = [tab EXCEPT !.query = None, !.data = d]
      <3>1. tab = [page |-> tab.page, status |-> tab.status, user |-> tab.user, org |-> tab.org,
                   me |-> tab.me, then |-> tab.then, query |-> tab.query, data |-> tab.data]
        BY <1>1, TabIs
      <3>2. tab' = [tab EXCEPT !.query = None,
                               !.data = IF tab.query.org = NoOrg THEN @ ELSE tab.query.org]
        BY <1>4 DEF Answered
      <3> QED BY <2>1, <3>1, <3>2
    <2>3. /\ tab' \in Tab /\ tab'.page = tab.page /\ tab'.org = tab.org
          /\ tab'.query = None /\ tab'.data = d
      BY <1>1, <2>1, <2>2, TabIs, ValuesAre
    <2> QED BY <1>1, <2>1, <2>3 DEF Fits, OwnRecords, None
  <1>5. CASE answer = "UNAUTHORIZED" /\ tab.status = "authenticated"
    <2>1. tab' = RefreshSession(failed, Nothing)
      BY <1>5 DEF Answered
    <2> HIDE DEF failed
    <2> QED BY <1>3, <2>1, RefreshFits, ValuesAre
  <1>6. CASE answer = "MFA_REQUIRED"
    <2>1. tab' = Loaded(cookie, "mfa")
      BY <1>6 DEF Answered
    <2> QED BY <2>1, LoadedFits, WebConstants
  <1>7. CASE /\ answer \notin {"OK", "MFA_REQUIRED"}
             /\ ~(answer = "UNAUTHORIZED" /\ tab.status = "authenticated")
    <2>1. tab' = failed
      BY <1>7 DEF Answered
    <2> QED BY <1>3, <2>1
  <1> QED BY <1>4, <1>5, <1>6, <1>7

LEMMA ReaderIsSomebody ==
  ASSUME World, cookie # NoSession
  PROVE  cookie \in Session /\ cookie.user \in User /\ cookie.verified \in BOOLEAN
  BY DEF World, Session

LEMMA CountedOn == World /\ Counted => changes' \in 0..MaxChanges
  BY WebConstants DEF World, Counted

\* A person's role in an organisation changes.
LEMMA TeamChanged ==
  ASSUME World, NEW u \in User, NEW o \in Org, NEW role \in OrgRole \cup {"NONE"},
         membership' = [membership EXCEPT ![u][o] = role]
  PROVE  membership' \in [User -> Roles]
  <1>1. [membership[u] EXCEPT ![o] = role] \in Roles
    BY DEF World, Roles
  <1>2. membership' = [membership EXCEPT ![u] = [membership[u] EXCEPT ![o] = role]]
    OBVIOUS
  <1> QED BY <1>1, <1>2 DEF World

\* An account changes in one field.
LEMMA AccountChanged ==
  ASSUME World, NEW u \in User,
         NEW row \in [role : Role, active : BOOLEAN, factor : BOOLEAN],
         account' = [account EXCEPT ![u] = row]
  PROVE  account' \in [User -> [role : Role, active : BOOLEAN, factor : BOOLEAN]]
  BY DEF World

LEMMA FactorChanged ==
  ASSUME World, NEW u \in User, NEW b \in BOOLEAN, account' = [account EXCEPT ![u].factor = b]
  PROVE  account' \in [User -> [role : Role, active : BOOLEAN, factor : BOOLEAN]]
  <1>1. account[u] \in [role : Role, active : BOOLEAN, factor : BOOLEAN]
    BY DEF World
  <1>2. PICK row : row = [account[u] EXCEPT !.factor = b]
    OBVIOUS
  <1>3. row \in [role : Role, active : BOOLEAN, factor : BOOLEAN]
    BY <1>1, <1>2
  <1>4. account' = [account EXCEPT ![u] = row]
    BY <1>2
  <1> QED BY <1>3, <1>4, AccountChanged

LEMMA SignInFits ==
  ASSUME World, Fits(tab), NEW u \in User, SignIn(u)
  PROVE  Fits(tab') /\ World'
  <1>1. tab \in Tab
    BY DEF Fits
  <1>2. ASSUME account[u].factor PROVE Fits(tab')
    <2>1. tab' = [tab EXCEPT !.page = "mfa"]
      BY <1>2 DEF SignIn
    <2>2. tab' \in Tab /\ tab'.page = "mfa"
      BY <1>1, <2>1, TabIs, WebConstants
    <2> QED BY <2>2, MfaIsNoBusiness DEF Fits, OwnRecords
  <1>3. ASSUME ~account[u].factor PROVE Fits(tab')
    BY <1>3, RefreshFits, ValuesAre DEF SignIn
  <1>4. cookie' \in Session
    BY DEF SignIn, Session
  <1>5. UNCHANGED <<account, membership, standing, preferred>> /\ Counted
    BY DEF SignIn
  <1>6. Fits(tab')
    BY <1>2, <1>3
  <1> QED BY <1>4, <1>5, <1>6, CountedOn DEF World

LEMMA FactorFits ==
  ASSUME World, Fits(tab), VerifyTotp \/ RemoveTotp
  PROVE  Fits(tab') /\ World'
  <1>1. cookie # NoSession /\ Counted /\ UNCHANGED <<membership, standing, preferred>>
    BY DEF VerifyTotp, RemoveTotp
  <1>2. cookie \in Session /\ cookie.user \in User
    BY <1>1, ReaderIsSomebody
  <1>3. PICK b \in BOOLEAN : /\ cookie' = [cookie EXCEPT !.verified = b]
                             /\ account' = [account EXCEPT ![cookie.user].factor = b]
    BY DEF VerifyTotp, RemoveTotp
  <1>4. cookie' \in Session
    BY <1>2, <1>3 DEF Session
  <1>5. account' \in [User -> [role : Role, active : BOOLEAN, factor : BOOLEAN]]
    BY <1>2, <1>3, FactorChanged
  <1>6. World'
    BY <1>1, <1>4, <1>5, CountedOn DEF World
  <1>7. Fits(tab')
    BY RefreshFits, ValuesAre DEF VerifyTotp, RemoveTotp
  <1> QED BY <1>6, <1>7

LEMMA ConfirmLinkFits ==
  ASSUME World, NEW u \in User, NEW page \in {"password", "account", "business"},
         ConfirmLink(u, page)
  PROVE  Fits(tab') /\ World'
  <1>1. cookie' \in Session
    BY DEF ConfirmLink, Session
  <1>2. PICK session : session = cookie'
    OBVIOUS
  <1>3. tab' = Loaded(session, page)
    BY <1>2 DEF ConfirmLink
  <1>4. Fits(tab')
    BY <1>3, LoadedFits, WebConstants
  <1>5. UNCHANGED <<account, membership, standing, preferred>> /\ Counted
    BY DEF ConfirmLink
  <1> QED BY <1>1, <1>4, <1>5, CountedOn DEF World

LEMMA SignOutFits ==
  ASSUME World, Fits(tab), NEW page \in {"home", "login", "invitation"}, SignOut(page)
  PROVE  Fits(tab') /\ World'
  <1>1. tab \in Tab /\ preferred \in Org \cup {NoOrg}
    BY DEF Fits, World
  <1>2. PICK t \in ApplyUser(tab, NoUser) :
          tab' = [t EXCEPT !.page = page, !.query = None, !.data = NoOrg]
    BY DEF SignOut
  <1>3. t \in Tab
    BY <1>1, UserApplied, ValuesAre
  <1>4. tab' \in Tab /\ tab'.query = None /\ tab'.data = NoOrg
    BY <1>2, <1>3, TabIs, ValuesAre, WebConstants
  <1>5. Fits(tab')
    BY <1>4, FreshPage
  <1>6. UNCHANGED <<account, membership, standing>> /\ Counted /\ preferred' = NoOrg
        /\ cookie' \in {NoSession, cookie}
    BY DEF SignOut
  <1> QED BY <1>5, <1>6, CountedOn DEF World

LEMMA AcceptFits ==
  ASSUME World, Fits(tab), NEW o \in Org, AcceptInvitation(o)
  PROVE  Fits(tab') /\ World'
  <1>1. cookie.user \in User
    BY ReaderIsSomebody DEF AcceptInvitation
  <1>2. membership' \in [User -> Roles]
    BY <1>1, TeamChanged DEF AcceptInvitation, OrgRole
  <1>3. Fits(tab')
    BY RefreshFits, ValuesAre DEF AcceptInvitation
  <1>4. UNCHANGED <<account, standing, cookie, preferred>> /\ Counted
    BY DEF AcceptInvitation
  <1> QED BY <1>2, <1>3, <1>4, CountedOn DEF World

LEMMA OpenTradeAccountFits ==
  ASSUME World, Fits(tab), NEW o \in Org, OpenTradeAccount(o)
  PROVE  Fits(tab') /\ World'
  <1>1. tab \in Tab /\ Me \in Profile
    BY MeTyped DEF Fits, OpenTradeAccount
  <1>2. cookie.user \in User
    BY ReaderIsSomebody DEF OpenTradeAccount, Me
  <1>3. membership' \in [User -> Roles]
    BY <1>2, TeamChanged DEF OpenTradeAccount, OrgRole
  <1>4. PICK profile : profile = [Me EXCEPT !.roles[o] = "OWNER"]
    OBVIOUS
  <1>5. profile \in Known
    <2>1. Me.roles \in Roles
      BY <1>1 DEF Profile, Roles
    <2>2. [Me.roles EXCEPT ![o] = "OWNER"] \in Roles
      BY <2>1 DEF Roles, OrgRole
    <2>3. profile = [Me EXCEPT !.roles = [Me.roles EXCEPT ![o] = "OWNER"]]
      BY <1>4
    <2>4. PICK roles \in Roles : profile = [Me EXCEPT !.roles = roles]
      BY <2>2, <2>3
    <2> QED BY <1>1, <2>4 DEF Known, Profile, Roles
  <1> DEFINE t == [tab EXCEPT !.status = "authenticated", !.user = profile, !.org = o]
  <1>6. tab' = GoTo(t, "business")
    BY <1>4 DEF OpenTradeAccount
  <1>7. t \in Tab
    BY <1>1, <1>5, TabIs DEF Phase, Chosen
  <1> HIDE DEF t
  <1>8. Fits(tab')
    BY <1>6, <1>7, GoToFits, WebConstants
  <1>9. UNCHANGED <<account, cookie>> /\ Counted /\ preferred' = o
    BY DEF OpenTradeAccount
  <1>10. standing' \in [Org -> OrgStatus]
    BY DEF OpenTradeAccount, OrgStatus, World
  <1> QED BY <1>3, <1>8, <1>9, <1>10, CountedOn DEF World

LEMMA ChangeOwnRoleFits ==
  ASSUME World, Fits(tab), NEW role \in OrgRole, ChangeOwnRole(role)
  PROVE  Fits(tab') /\ World'
  <1>1. cookie.user \in User
    BY ReaderIsSomebody DEF ChangeOwnRole
  <1>2. tab.org \in Org
    <2>1. tab.org \in Org \cup {NoOrg}
      BY TabIs DEF Fits, Chosen
    <2> QED BY <2>1 DEF ChangeOwnRole, Admits, Answer, AuthenticationGuard, PermissionsGuard,
                        OrganizationGuard, CallerFor, OrganizationController, Tenant, Public
  <1>3. membership' \in [User -> Roles]
    BY <1>1, <1>2, TeamChanged DEF ChangeOwnRole
  <1>4. Fits(tab')
    BY RefreshFits, ValuesAre DEF ChangeOwnRole
  <1>5. UNCHANGED <<account, standing, cookie, preferred>> /\ Counted
    BY DEF ChangeOwnRole
  <1> QED BY <1>3, <1>4, <1>5, CountedOn DEF World

LEMMA ElsewhereFits ==
  ASSUME World, Fits(tab), Elsewhere
  PROVE  Fits(tab') /\ World'
  <1>1. Fits(tab')
    BY DEF Elsewhere
  <1>2. changes' \in 0..MaxChanges
    BY CountedOn DEF Elsewhere
  <1> DEFINE Rows == [role : Role, active : BOOLEAN, factor : BOOLEAN]
  <1>3. ASSUME NEW u \in User, NEW role \in Role,
               account' = [account EXCEPT ![u].role = role],
               UNCHANGED <<membership, standing, cookie, preferred>>
        PROVE  World'
    <2>1. [account[u] EXCEPT !.role = role] \in Rows
      BY DEF World
    <2>2. account' = [account EXCEPT ![u] = [account[u] EXCEPT !.role = role]]
      BY <1>3
    <2>3. account' \in [User -> Rows]
      BY <2>1, <2>2, AccountChanged
    <2> QED BY <1>2, <1>3, <2>3 DEF World
  <1>4. ASSUME NEW u \in User, account' = [account EXCEPT ![u].active = ~@],
               UNCHANGED <<membership, standing, cookie, preferred>>
        PROVE  World'
    <2>1. account[u] \in Rows
      BY DEF World
    <2>2. PICK b \in BOOLEAN : b = ~account[u].active
      BY <2>1
    <2>3. PICK row : row = [account[u] EXCEPT !.active = b]
      OBVIOUS
    <2>4. row \in Rows
      BY <2>1, <2>3
    <2>5. account' = [account EXCEPT ![u] = row]
      BY <1>4, <2>2, <2>3 DEF World
    <2>6. account' \in [User -> Rows]
      BY <2>4, <2>5, AccountChanged
    <2> QED BY <1>2, <1>4, <2>6 DEF World
  <1>5. ASSUME NEW u \in User, NEW o \in Org, NEW role \in OrgRole \cup {"NONE"},
               membership' = [membership EXCEPT ![u][o] = role],
               UNCHANGED <<account, standing, cookie, preferred>>
        PROVE  World'
    BY <1>2, <1>5, TeamChanged DEF World
  <1>6. ASSUME cookie' = NoSession, UNCHANGED <<account, membership, standing, preferred>>
        PROVE  World'
    BY <1>2, <1>6 DEF World
  <1>7. ASSUME NEW u \in User, cookie' \in [user : {u}, verified : {FALSE, account[u].factor}],
               UNCHANGED <<account, membership, standing, preferred>>
        PROVE  World'
    <2>1. account[u].factor \in BOOLEAN
      BY DEF World
    <2>2. cookie' \in Session
      BY <1>7, <2>1 DEF Session
    <2> QED BY <1>2, <1>7, <2>2 DEF World
  <1>8. ASSUME preferred' \in Org \cup {NoOrg}, UNCHANGED <<account, membership, standing, cookie>>
        PROVE  World'
    BY <1>2, <1>8 DEF World
  <1>9. ASSUME NEW o \in Org, NEW status \in OrgStates,
               standing' = [standing EXCEPT ![o] = status],
               UNCHANGED <<account, membership, cookie, preferred>>
        PROVE  World'
    BY <1>2, <1>9, WebConstants DEF World
  <1> HIDE DEF Rows
  <1> QED BY <1>1, <1>3, <1>4, <1>5, <1>6, <1>7, <1>8, <1>9 DEF Elsewhere

-----------------------------------------------------------------------------
LEMMA WebStart ==
  ASSUME WebInit
  PROVE  WebInv
  <1>1. Fits(tab)
    BY LoadedFits, WebConstants DEF WebInit
  <1>2. PICK roles \in Staffing :
          account = [u \in User |-> [role |-> roles[u], active |-> TRUE, factor |-> FALSE]]
    BY DEF WebInit
  <1>3. roles \in [User -> Role]
    BY WebConstants
  <1>4. account \in [User -> [role : Role, active : BOOLEAN, factor : BOOLEAN]]
    BY <1>2, <1>3
  <1>5. standing \in [Org -> OrgStatus]
    BY DEF WebInit, OrgStatus
  <1> QED BY <1>1, <1>4, <1>5, WebConstants DEF WebInit, WebInv, World, Roles

LEMMA WebStep ==
  ASSUME WebInv, [WebNext]_webVars
  PROVE  WebInv'
  <1> USE DEF WebInv
  <1>0. tab \in Tab
    BY DEF Fits
  <1> SUFFICES World' /\ Fits(tab')
    OBVIOUS
  <1>1. ASSUME NEW page \in Visited, OpenPage(page) \/ Follow(page)
        PROVE  World' /\ Fits(tab')
    BY <1>0, <1>1, LoadedFits, GoToFits, WorldKept DEF OpenPage, Follow, WorldStays
  <1>2. ASSUME RedirectToSignIn \/ RedirectToVerify
        PROVE  World' /\ Fits(tab')
    BY <1>0, <1>2, GoToFits, WorldKept, WebConstants
       DEF RedirectToSignIn, RedirectToVerify, WorldStays
  <1>3. ASSUME SetNewPassword
        PROVE  World' /\ Fits(tab')
    BY <1>3, RefreshFits, ValuesAre, WorldKept DEF SetNewPassword, WorldStays
  <1>4. ASSUME MeAnswered
        PROVE  World' /\ Fits(tab')
    BY <1>4, MeAnsweredFits, WorldKept DEF MeAnswered, WorldStays
  <1>5. ASSUME NEW route \in Route, AskData(route)
        PROVE  World' /\ Fits(tab')
    BY <1>5, AskDataFits, WorldKept DEF AskData, WorldStays
  <1>6. ASSUME Answered
        PROVE  World' /\ Fits(tab')
    BY <1>6, AnsweredFits, WorldKept DEF Answered, WorldStays
  <1>7. ASSUME NEW page \in {"home", "login", "invitation"}, SignOut(page)
        PROVE  World' /\ Fits(tab')
    BY <1>7, SignOutFits
  <1>8. ASSUME NEW u \in User,
               SignIn(u) \/ \E page \in {"password", "account", "business"} : ConfirmLink(u, page)
        PROVE  World' /\ Fits(tab')
    BY <1>8, SignInFits, ConfirmLinkFits
  <1>9. ASSUME NEW o \in Org, SwitchOrganization(o) \/ AcceptInvitation(o) \/ OpenTradeAccount(o)
        PROVE  World' /\ Fits(tab')
    BY <1>9, SwitchFits, AcceptFits, OpenTradeAccountFits
  <1>10. ASSUME NEW role \in OrgRole, ChangeOwnRole(role)
         PROVE  World' /\ Fits(tab')
    BY <1>10, ChangeOwnRoleFits
  <1>11. ASSUME UNCHANGED webVars
         PROVE  World' /\ Fits(tab')
    BY <1>11 DEF webVars, World
  <1> QED BY <1>1, <1>2, <1>3, <1>4, <1>5, <1>6, <1>7, <1>8, <1>9, <1>10, <1>11,
             ApplyMeFits, FactorFits, ElsewhereFits DEF WebNext

LEMMA WebInvariant == WebSpec => []WebInv
  BY WebStart, WebStep, PTL DEF WebSpec

\* Types of the web session: every reachable state of accounts, teams, the browser's
\* session and a tab.
THEOREM WebTypes == WebSpec => []WebTypeOK
  BY WebInvariant, WebTyped, PTL

\* business-shell.tsx, "no state leaks between tenants": whatever is switched, joined,
\* signed in or answered late, the records under an organisation's name are its own.
THEOREM NoStateLeaksBetweenTenants == WebSpec => []TenantDataIsOwn
  <1>1. WebInv => TenantDataIsOwn
    BY DEF WebInv, Fits, OwnRecords, TenantDataIsOwn
  <1> QED BY <1>1, WebInvariant, PTL

-----------------------------------------------------------------------------
(* The pages of the web app.                                               *)

\* A table is the function it lists.
LEMMA TableIs == ASSUME NEW f PROVE Table(f) = f
  BY DEF Table

\* What the API admits from the viewer of a page, by the route's demand.
Allowed(v, route) ==
  \/ route = Public \/ v.role = "NONE" \/ route = SignedIn
  \/ route.needs = "STAFF" /\ HasPermission(v.role, route.permission) /\ ~v.unverified
  \/ route.needs = "MEMBER" /\ HasOrgPermission(v.orgRole, route.permission)

\* The areas of the site, and the pages of the back office by the right they ask for.
StaffNames ==
  [ ORDERS_READ_ALL      |-> {"adminOrders", "adminOrder"},
    RFQS_MANAGE          |-> {"adminRfqs", "adminRfq"},
    QUOTATIONS_MANAGE    |-> {"adminQuotations", "adminNewQuotation", "adminQuotation"},
    ORGANIZATIONS_REVIEW |-> {"adminOrganizations", "adminOrganization"},
    CATALOG_WRITE        |-> {"adminProducts", "adminNewProduct", "adminEditProduct",
                              "adminCategories"},
    USERS_MANAGE         |-> {"adminUsers"},
    AUDIT_READ           |-> {"adminAudit"} ]

StaffPages == {"admin", "adminOrders", "adminOrder", "adminRfqs", "adminRfq", "adminQuotations",
               "adminNewQuotation", "adminQuotation", "adminOrganizations", "adminOrganization",
               "adminProducts", "adminNewProduct", "adminEditProduct", "adminCategories",
               "adminUsers", "adminAudit"}
TradePages == {"business", "businessRfqs", "businessRfq", "businessQuotations",
               "businessQuotation", "businessOrders", "businessOrder", "businessTeam",
               "businessSites", "businessCompany"}
AccountPages == {"account", "accountOrders", "accountOrder", "accountQuotations",
                 "accountQuotation", "accountAddresses", "tradeAccount"}
ShopPages == {"home", "products", "product", "cart", "checkout", "quote", "contact", "notFound"}
EntrancePages == {"login", "register", "forgotPassword", "password", "mfa", "invitation"}

\* Where a link may lead: a page that does not turn this viewer away.
LeadsIn(v, link) ==
  \/ link \in AccountPages \cup ShopPages \cup EntrancePages
  \/ link \in TradePages /\ v.member
  \/ link \in {"admin"} /\ IsStaffRole(v.role)
  \/ \E permission \in DOMAIN StaffNames :
       link \in StaffNames[permission] /\ HasPermission(v.role, permission)

\* A page that keeps its promises to the viewer it is shown to.
Sound(v, page) ==
  /\ DOMAIN page = {"gate", "calls", "links"}
  /\ page.gate = "SHOWN" => /\ \A route \in page.calls : Allowed(v, route)
                            /\ \A link \in page.links : LeadsIn(v, link)

LEMMA PageFields ==
  ASSUME NEW gate, NEW calls, NEW links
  PROVE  /\ DOMAIN Page(gate, calls, links) = {"gate", "calls", "links"}
         /\ Page(gate, calls, links).gate = gate
         /\ Page(gate, calls, links).calls = calls
         /\ Page(gate, calls, links).links = links
  BY DEF Page

\* The matrix of roles and rights, right by right.
LEMMA StaffMatrix ==
  ASSUME NEW role \in Role \cup {"NONE"}
  PROVE  /\ HasPermission(role, "DASHBOARD_VIEW") <=> role \in {"SALES", "WAREHOUSE", "ADMIN"}
         /\ HasPermission(role, "ORDERS_READ_ALL") <=> role \in {"SALES", "WAREHOUSE", "ADMIN"}
         /\ HasPermission(role, "ORDERS_MANAGE") <=> role \in {"SALES", "ADMIN"}
         /\ HasPermission(role, "RFQS_MANAGE") <=> role \in {"SALES", "ADMIN"}
         /\ HasPermission(role, "QUOTATIONS_MANAGE") <=> role \in {"SALES", "ADMIN"}
         /\ HasPermission(role, "ORGANIZATIONS_REVIEW") <=> role \in {"SALES", "ADMIN"}
         /\ HasPermission(role, "CATALOG_WRITE") <=> role \in {"WAREHOUSE", "ADMIN"}
         /\ HasPermission(role, "STOCK_WRITE") <=> role \in {"WAREHOUSE", "ADMIN"}
         /\ HasPermission(role, "CATALOG_DELETE") <=> role = "ADMIN"
         /\ HasPermission(role, "USERS_MANAGE") <=> role = "ADMIN"
         /\ HasPermission(role, "AUDIT_READ") <=> role = "ADMIN"
         /\ IsStaffRole(role) <=> role \in {"SALES", "WAREHOUSE", "ADMIN"}
  <1>1. CASE role = "NONE"
    BY <1>1 DEF HasPermission, IsStaffRole
  <1>2. CASE role = "CUSTOMER"
    BY <1>2 DEF HasPermission, IsStaffRole, RolePermissions
  <1>3. CASE role = "SALES"
    BY <1>3 DEF HasPermission, IsStaffRole, RolePermissions
  <1>4. CASE role = "WAREHOUSE"
    BY <1>4 DEF HasPermission, IsStaffRole, RolePermissions
  <1>5. CASE role = "ADMIN"
    BY <1>5 DEF HasPermission, IsStaffRole, RolePermissions, Permission
  <1> QED BY <1>1, <1>2, <1>3, <1>4, <1>5 DEF Role

LEMMA TeamMatrix ==
  ASSUME NEW role \in OrgRole \cup {"NONE"}
  PROVE  /\ role # "NONE" => /\ HasOrgPermission(role, "ORDERS_VIEW")
                             /\ HasOrgPermission(role, "RFQ_CREATE")
                             /\ HasOrgPermission(role, "QUOTE_RESPOND")
         /\ role \in Approvers => HasOrgPermission(role, "PURCHASE_APPROVE")
  <1>1. CASE role = "NONE"
    BY <1>1 DEF Approvers
  <1>2. CASE role = "BUYER"
    BY <1>2 DEF HasOrgPermission, OrgRolePermissions, Approvers
  <1>3. CASE role = "APPROVER"
    BY <1>3 DEF HasOrgPermission, OrgRolePermissions
  <1>4. CASE role = "OWNER"
    BY <1>4 DEF HasOrgPermission, OrgRolePermissions, OrgPermission
  <1> QED BY <1>1, <1>2, <1>3, <1>4 DEF OrgRole

\* What a route's demand comes to.
LEMMA RoutesAllowed ==
  ASSUME NEW v
  PROVE  /\ Allowed(v, Public) /\ Allowed(v, SignedIn)
         /\ \A p : HasPermission(v.role, p) /\ ~v.unverified => Allowed(v, Staff(p))
         /\ \A p : HasOrgPermission(v.orgRole, p) => Allowed(v, Tenant(p))
  BY DEF Allowed, Staff, Tenant

\* Links lead in when the viewer has the right the page asks for.
LEMMA LinksLeadIn ==
  ASSUME NEW v
  PROVE  /\ \A p \in AccountPages \cup ShopPages \cup EntrancePages : LeadsIn(v, p)
         /\ v.member => \A p \in TradePages : LeadsIn(v, p)
         /\ IsStaffRole(v.role) => LeadsIn(v, "admin")
         /\ HasPermission(v.role, "ORDERS_READ_ALL") =>
              LeadsIn(v, "adminOrders") /\ LeadsIn(v, "adminOrder")
         /\ HasPermission(v.role, "RFQS_MANAGE") =>
              LeadsIn(v, "adminRfqs") /\ LeadsIn(v, "adminRfq")
         /\ HasPermission(v.role, "QUOTATIONS_MANAGE") =>
              /\ LeadsIn(v, "adminQuotations") /\ LeadsIn(v, "adminNewQuotation")
              /\ LeadsIn(v, "adminQuotation")
         /\ HasPermission(v.role, "ORGANIZATIONS_REVIEW") =>
              LeadsIn(v, "adminOrganizations") /\ LeadsIn(v, "adminOrganization")
         /\ HasPermission(v.role, "CATALOG_WRITE") =>
              /\ LeadsIn(v, "adminProducts") /\ LeadsIn(v, "adminNewProduct")
              /\ LeadsIn(v, "adminEditProduct") /\ LeadsIn(v, "adminCategories")
         /\ HasPermission(v.role, "USERS_MANAGE") => LeadsIn(v, "adminUsers")
         /\ HasPermission(v.role, "AUDIT_READ") => LeadsIn(v, "adminAudit")
  BY DEF LeadsIn, StaffNames

\* Who a page of the back office is shown to.
LEMMA StaffGates ==
  ASSUME NEW v \in Viewer
  PROVE  /\ AdminLayout(v) = "SHOWN" => IsStaffRole(v.role) /\ ~v.unverified
         /\ \A p : RequirePermission(v, p) = "SHOWN" => HasPermission(v.role, p) /\ ~v.unverified
  <1>1. v.role # "NONE" /\ v.unverified => IsStaffRole(v.role)
    BY DEF Viewer
  <1> QED BY <1>1 DEF AdminLayout, RequirePermission, RequireAuth, IsStaffRole
\* The staff's rights, one of which brings others.
LEMMA StaffRights ==
  ASSUME NEW v \in Viewer
  PROVE  /\ HasPermission(v.role, "ORDERS_MANAGE") => HasPermission(v.role, "ORDERS_READ_ALL")
         /\ HasPermission(v.role, "QUOTATIONS_MANAGE") =>
              HasPermission(v.role, "RFQS_MANAGE") /\ HasPermission(v.role, "ORDERS_READ_ALL")
         /\ HasPermission(v.role, "USERS_MANAGE") => HasPermission(v.role, "ORGANIZATIONS_REVIEW")
         /\ HasPermission(v.role, "AUDIT_READ") =>
              /\ HasPermission(v.role, "ORGANIZATIONS_REVIEW")
              /\ HasPermission(v.role, "CATALOG_WRITE") /\ HasPermission(v.role, "ORDERS_READ_ALL")
  <1>1. v.role \in Role \cup {"NONE"}
    BY DEF Viewer
  <1> QED BY <1>1, StaffMatrix

\* Every page of the back office calls what its viewer may call, and links to what
\* its viewer may see.
LEMMA BackOfficeIsSound ==
  ASSUME NEW v \in Viewer
  PROVE  \A p \in DOMAIN BackOffice(v) : Sound(v, BackOffice(v)[p])
  <1>1. Sound(v, AdminDashboardPage(v))
    BY PageFields, StaffGates, StaffRights, RoutesAllowed, LinksLeadIn DEF Sound,
       AdminDashboardPage, UseCan, OnlyIf, Dashboard, DashboardController, Procurement,
       AdminProcurementController
  <1>2. Sound(v, RfqList(v))
    BY PageFields, StaffGates, StaffRights, RoutesAllowed, LinksLeadIn DEF Sound,
       RfqList, UseCan, OnlyIf, Procurement, AdminProcurementController
  <1>3. Sound(v, RfqDetail(v))
    BY PageFields, StaffGates, StaffRights, RoutesAllowed, LinksLeadIn DEF Sound,
       RfqDetail, UseCan, OnlyIf, CustomerLinkPanel, Procurement,
       AdminProcurementController
  <1>4. Sound(v, QuotationList(v))
    BY PageFields, StaffGates, StaffRights, RoutesAllowed, LinksLeadIn DEF Sound,
       QuotationList, UseCan, OnlyIf, Procurement, AdminProcurementController
  <1>5. Sound(v, NewQuotationPage(v))
    BY PageFields, StaffGates, StaffRights, RoutesAllowed, LinksLeadIn DEF Sound,
       NewQuotationPage, UseCan, OnlyIf, LoadCatalog, NewQuotationForm, ProductPicker,
       CatalogController, Procurement, AdminProcurementController,
       AdminOrganizationsController
  <1>6. Sound(v, QuotationDetail(v))
    <2>1. QuotationDetail(v).gate = "SHOWN" =>
            HasPermission(v.role, "QUOTATIONS_MANAGE") /\ ~v.unverified
      BY PageFields, StaffGates DEF QuotationDetail
    <2>2. HasPermission(v.role, "QUOTATIONS_MANAGE") /\ ~v.unverified =>
            \A route \in QuotationDetail(v).calls : Allowed(v, route)
      BY PageFields, RoutesAllowed DEF QuotationDetail, UseCan, OnlyIf,
         DraftQuotationForm, ProductPicker, CatalogController, StatusCallout,
         IssuedQuotation, Procurement, AdminProcurementController,
         AdminOrganizationsController
    <2>3. HasPermission(v.role, "QUOTATIONS_MANAGE") =>
            \A link \in QuotationDetail(v).links : LeadsIn(v, link)
      BY PageFields, StaffRights, LinksLeadIn DEF QuotationDetail, UseCan, OnlyIf,
         StatusCallout, IssuedQuotation
    <2>4. DOMAIN QuotationDetail(v) = {"gate", "calls", "links"}
      BY PageFields DEF QuotationDetail
    <2> QED BY <2>1, <2>2, <2>3, <2>4 DEF Sound
  <1>7. Sound(v, OrdersList(v))
    BY PageFields, StaffGates, StaffRights, RoutesAllowed, LinksLeadIn DEF Sound,
       OrdersList, UseCan, OnlyIf, AdminOrdersController
  <1>8. Sound(v, OrderDetail(v))
    BY PageFields, StaffGates, StaffRights, RoutesAllowed, LinksLeadIn DEF Sound,
       OrderDetail, UseCan, OnlyIf, OrderActions, AdminOrdersController
  <1>9. Sound(v, OrganizationsList(v))
    BY PageFields, StaffGates, StaffRights, RoutesAllowed, LinksLeadIn DEF Sound,
       OrganizationsList, UseCan, OnlyIf, AdminOrganizationsController
  <1>10. Sound(v, OrganizationDetailView(v))
    BY PageFields, StaffGates, StaffRights, RoutesAllowed, LinksLeadIn DEF Sound,
       OrganizationDetailView, UseCan, OnlyIf, OrganizationReviewForm,
       AdminOrganizationsController
  <1>11. Sound(v, ProductsList(v))
    BY PageFields, StaffGates, StaffRights, RoutesAllowed, LinksLeadIn DEF Sound,
       ProductsList, UseCan, OnlyIf, ProductRows, Catalog, AdminCatalogController,
       CatalogController
  <1>12. Sound(v, NewProductPage(v))
    BY PageFields, StaffGates, StaffRights, RoutesAllowed, LinksLeadIn DEF Sound,
       NewProductPage, UseCan, OnlyIf, Catalog, AdminCatalogController,
       CatalogController
  <1>13. Sound(v, EditProduct(v))
    <2>1. EditProduct(v).gate = "SHOWN" => HasPermission(v.role, "CATALOG_WRITE") /\ ~v.unverified
      BY PageFields, StaffGates DEF EditProduct
    <2>2. HasPermission(v.role, "CATALOG_WRITE") /\ ~v.unverified =>
            \A route \in EditProduct(v).calls : Allowed(v, route)
      BY PageFields, RoutesAllowed DEF EditProduct, UseCan, OnlyIf, Catalog,
         AdminCatalogController, CatalogController
    <2>3. HasPermission(v.role, "CATALOG_WRITE") =>
            \A link \in EditProduct(v).links : LeadsIn(v, link)
      BY PageFields, StaffRights, LinksLeadIn DEF EditProduct, UseCan, OnlyIf, ShopPages
    <2>4. DOMAIN EditProduct(v) = {"gate", "calls", "links"}
      BY PageFields DEF EditProduct
    <2> QED BY <2>1, <2>2, <2>3, <2>4 DEF Sound
  <1>14. Sound(v, CategoriesManager(v))
    BY PageFields, StaffGates, StaffRights, RoutesAllowed, LinksLeadIn DEF Sound,
       CategoriesManager, UseCan, OnlyIf, CategoryForm, Catalog, AdminCatalogController,
       CatalogController
  <1>15. Sound(v, UsersList(v))
    BY PageFields, StaffGates, StaffRights, RoutesAllowed, LinksLeadIn DEF Sound,
       UsersList, UseCan, OnlyIf, StaffUserForm, AdminUsersController
  <1>16. Sound(v, AuditLog(v))
    BY PageFields, StaffGates, StaffRights, RoutesAllowed, LinksLeadIn DEF Sound,
       AuditLog, UseCan, OnlyIf, EntityHref, AuditController
  <1> QED BY <1>1, <1>2, <1>3, <1>4, <1>5, <1>6, <1>7, <1>8, <1>9, <1>10, <1>11, <1>12,
     <1>13, <1>14, <1>15, <1>16 DEF BackOffice

\* The trade portal is shown to members, and what a member's role in the active
\* organisation allows is what the portal's pages ask.
LEMMA TradeGates ==
  ASSUME NEW v \in Viewer
  PROVE  /\ BusinessShell(v) = "SHOWN" => v.orgRole # "NONE"
         /\ v.orgRole # "NONE" =>
              /\ v.member
              /\ HasOrgPermission(v.orgRole, "ORDERS_VIEW")
              /\ HasOrgPermission(v.orgRole, "RFQ_CREATE")
         /\ v.orgRole \in Approvers => HasOrgPermission(v.orgRole, "PURCHASE_APPROVE")
  <1>1. v.orgRole \in OrgRole \cup {"NONE"} /\ (v.orgRole # "NONE" => v.member)
    BY DEF Viewer
  <1> QED BY <1>1, TeamMatrix DEF BusinessShell

LEMMA TradePortalIsSound ==
  ASSUME NEW v \in Viewer
  PROVE  \A p \in DOMAIN Business(v) : Sound(v, Business(v)[p])
  <1>1. Sound(v, BusinessOverviewPage(v))
    BY PageFields, TradeGates, RoutesAllowed, LinksLeadIn DEF Sound,
       BusinessOverviewPage, OrgDocs, OrgProcurementController, OrgOrdersController,
       TradePages, ShopPages
  <1>2. Sound(v, RfqsPage(v))
    BY PageFields, TradeGates, RoutesAllowed, LinksLeadIn DEF Sound, RfqsPage, OrgDocs,
       OrgProcurementController, TradePages, ShopPages
  <1>3. Sound(v, RfqView(v))
    BY PageFields, TradeGates, RoutesAllowed, LinksLeadIn DEF Sound, RfqView, OrgCan,
       OnlyIf, OrgDocs, OrgProcurementController, TradePages
  <1>4. Sound(v, QuotationsPage(v))
    BY PageFields, TradeGates, RoutesAllowed, LinksLeadIn DEF Sound, QuotationsPage,
       OrgDocs, OrgProcurementController, TradePages
  <1>5. Sound(v, QuotationView(v))
    BY PageFields, TradeGates, RoutesAllowed, LinksLeadIn DEF Sound, QuotationView,
       OrgCan, OnlyIf, RespondPanel, ApprovalPanel, OrgDocs, OrgProcurementController,
       TradePages
  <1>6. Sound(v, OrdersPage(v))
    BY PageFields, TradeGates, RoutesAllowed, LinksLeadIn DEF Sound, OrdersPage,
       OrgOrdersController, TradePages
  <1>7. Sound(v, OrderView(v))
    BY PageFields, TradeGates, RoutesAllowed, LinksLeadIn DEF Sound, OrderView, OnlyIf,
       CancelOrderCard, OrgOrdersController, Company, OrganizationController,
       TradePages, ShopPages
  <1>8. Sound(v, TeamPage(v))
    BY PageFields, TradeGates, RoutesAllowed, LinksLeadIn DEF Sound, TeamPage, OrgCan,
       OnlyIf, MemberRow, InviteCard, PendingInvitations, Company,
       OrganizationController
  <1>9. Sound(v, SitesPage(v))
    BY PageFields, TradeGates, RoutesAllowed, LinksLeadIn DEF Sound, SitesPage, OrgCan,
       OnlyIf, SiteForm, Company, OrganizationController
  <1>10. Sound(v, CompanyPage(v))
    BY PageFields, TradeGates, RoutesAllowed, LinksLeadIn DEF Sound, CompanyPage,
       OrgCan, OnlyIf, ProfileForm, Company, OrganizationController
  <1> QED BY <1>1, <1>2, <1>3, <1>4, <1>5, <1>6, <1>7, <1>8, <1>9, <1>10 DEF Business

\* The account area, the shop and the entrance turn nobody away.
LEMMA OpenToAll ==
  ASSUME NEW v
  PROVE  \A p \in AccountPages \cup ShopPages \cup EntrancePages : LeadsIn(v, p)
  BY LinksLeadIn

\* An account's own pages call what needs an account only.
LEMMA AccountIsSound ==
  ASSUME NEW v \in Viewer
  PROVE  \A p \in DOMAIN Account(v) : Sound(v, Account(v)[p])
  <1>1. Sound(v, AccountOverviewPage(v))
    BY PageFields, RoutesAllowed, LinksLeadIn DEF Sound, AccountOverviewPage,
       ProfileCard, OnlyIf, MyOrdersController, AccountController, AccountPages,
       ShopPages, EntrancePages, TradePages
  <1>2. Sound(v, AccountOrdersPage(v))
    BY PageFields, RoutesAllowed, LinksLeadIn DEF Sound, AccountOrdersPage,
       MyOrdersController, AccountPages, ShopPages
  <1>3. Sound(v, AccountOrderDetail(v))
    BY PageFields, RoutesAllowed, LinksLeadIn DEF Sound, AccountOrderDetail,
       MyOrdersController, AccountPages, ShopPages
  <1>4. Sound(v, AccountQuotationsPage(v))
    BY PageFields, RoutesAllowed, LinksLeadIn DEF Sound, AccountQuotationsPage, Mine,
       MyQuotationsController, AccountPages, ShopPages
  <1>5. Sound(v, AccountQuotationView(v))
    BY PageFields, RoutesAllowed, LinksLeadIn DEF Sound, AccountQuotationView,
       PersonalRespondPanel, Mine, MyQuotationsController, AccountController,
       AccountPages
  <1>6. Sound(v, AddressesPage(v))
    BY PageFields, RoutesAllowed, LinksLeadIn DEF Sound, AddressesPage, AddressForm,
       AccountController
  <1>7. Sound(v, TradeAccountPage(v))
    BY PageFields, RoutesAllowed, LinksLeadIn DEF Sound, TradeAccountPage,
       AccountController
  <1> QED BY <1>1, <1>2, <1>3, <1>4, <1>5, <1>6, <1>7 DEF Account

\* The shop is open to everybody; what it asks in an organisation's name every
\* role there may ask.
LEMMA ShopIsSound ==
  ASSUME NEW v \in Viewer
  PROVE  \A p \in DOMAIN Shop(v) : Sound(v, Shop(v)[p])
  <1>1. Sound(v, HomePage)
    BY PageFields, RoutesAllowed, OpenToAll DEF Sound, HomePage, CatalogController,
       ShopPages, EntrancePages
  <1>2. Sound(v, ProductsPage)
    BY PageFields, RoutesAllowed, OpenToAll DEF Sound, ProductsPage, CatalogGrid,
       CatalogController, ShopPages
  <1>3. Sound(v, ProductDetail(v))
    BY PageFields, RoutesAllowed, OpenToAll DEF Sound, ProductDetail, OnlyIf,
       CatalogController, ShopPages, EntrancePages
  <1>4. Sound(v, CartPage(v))
    BY PageFields, TradeGates, RoutesAllowed, LinksLeadIn DEF Sound, CartPage, OnlyIf,
       RfqPanel, CatalogController, Company, OrganizationController, OrgDocs,
       OrgProcurementController, ShopPages, EntrancePages, TradePages
  <1>5. Sound(v, CheckoutPage(v))
    <2>1. \A route \in CheckoutPage(v).calls : Allowed(v, route)
      BY PageFields, RoutesAllowed DEF CheckoutPage, RequireAuth, AccountController,
         MyOrdersController
    <2>2. \A link \in CheckoutPage(v).links : LeadsIn(v, link)
      BY PageFields, OpenToAll DEF CheckoutPage, RequireAuth, ShopPages, AccountPages
    <2>3. DOMAIN CheckoutPage(v) = {"gate", "calls", "links"}
      BY PageFields DEF CheckoutPage, RequireAuth
    <2> QED BY <2>1, <2>2, <2>3 DEF Sound
  <1>6. Sound(v, QuotePage(v))
    BY PageFields, RoutesAllowed, OpenToAll DEF Sound, QuotePage, OnlyIf,
       QuoteRequestsController, ShopPages
  <1>7. Sound(v, ContactPage)
    BY PageFields, RoutesAllowed, OpenToAll DEF Sound, ContactPage, ShopPages,
       EntrancePages
  <1>8. Sound(v, NotFoundPage)
    BY PageFields, RoutesAllowed, OpenToAll DEF Sound, NotFoundPage, ShopPages
  <1> QED BY <1>1, <1>2, <1>3, <1>4, <1>5, <1>6, <1>7, <1>8 DEF Shop

\* After signing in a viewer lands where they are let in.
LEMMA LandsInside ==
  ASSUME NEW v
  PROVE  LeadsIn(v, LandingPath(v))
  BY LinksLeadIn DEF LandingPath, TradePages, AccountPages

LEMMA EntranceIsSound ==
  ASSUME NEW v \in Viewer
  PROVE  \A p \in DOMAIN Entrance(v) : Sound(v, Entrance(v)[p])
  <1>1. Sound(v, LoginPage)
    BY PageFields, RoutesAllowed, OpenToAll, LandsInside DEF Sound, LoginPage,
       EntrancePages
  <1>2. Sound(v, ForgotPage)
    BY PageFields, RoutesAllowed, OpenToAll, LandsInside DEF Sound, ForgotPage,
       EntrancePages
  <1>3. Sound(v, RegisterPage(v))
    BY PageFields, RoutesAllowed, OpenToAll, LandsInside DEF Sound, RegisterPage,
       EntrancePages, AccountPages
  <1>4. Sound(v, PasswordPage(v))
    BY PageFields, RoutesAllowed, OpenToAll, LandsInside DEF Sound, PasswordPage,
       EntrancePages
  <1>5. Sound(v, MfaPage(v))
    BY PageFields, RoutesAllowed, OpenToAll, LandsInside DEF Sound, MfaPage,
       EntrancePages
  <1>6. Sound(v, InvitationPage(v))
    BY PageFields, RoutesAllowed, OpenToAll, LandsInside DEF Sound, InvitationPage,
       OnlyIf, InvitationsController, EntrancePages
  <1> QED BY <1>1, <1>2, <1>3, <1>4, <1>5, <1>6 DEF Entrance

-----------------------------------------------------------------------------
\* Each area has its own pages.
LEMMA Areas ==
  ASSUME NEW v
  PROVE  /\ DOMAIN BackOffice(v) = StaffPages /\ DOMAIN Business(v) = TradePages
         /\ DOMAIN Account(v) = AccountPages /\ DOMAIN Shop(v) = ShopPages
         /\ DOMAIN Entrance(v) = EntrancePages
  BY DEF BackOffice, Business, Account, Shop, Entrance, StaffPages, TradePages,
         AccountPages, ShopPages, EntrancePages

LEMMA AreasApart ==
  /\ \A p \in StaffPages : p \notin TradePages \cup AccountPages \cup ShopPages \cup EntrancePages
  /\ \A p \in TradePages : p \notin AccountPages \cup ShopPages \cup EntrancePages
  /\ \A p \in AccountPages : p \notin ShopPages \cup EntrancePages
  /\ \A p \in ShopPages : p \notin EntrancePages
  <1>1. \A p \in StaffPages :
          p \notin TradePages \cup AccountPages \cup ShopPages \cup EntrancePages
    BY DEF StaffPages, TradePages, AccountPages, ShopPages, EntrancePages
  <1>2. \A p \in TradePages : p \notin AccountPages \cup ShopPages \cup EntrancePages
    BY DEF TradePages, AccountPages, ShopPages, EntrancePages
  <1>3. \A p \in AccountPages : p \notin ShopPages \cup EntrancePages
    BY DEF AccountPages, ShopPages, EntrancePages
  <1>4. \A p \in ShopPages : p \notin EntrancePages
    BY DEF ShopPages, EntrancePages
  <1> QED BY <1>1, <1>2, <1>3, <1>4

\* The menus lead in: the staff's shows what the role may open, the trade portal's
\* stands beside pages only members see.
LEMMA MenusLeadIn ==
  ASSUME NEW v \in Viewer
  PROVE  /\ \A link \in AdminNav(v) \cup SiteHeader(v) : LeadsIn(v, link)
         /\ \A link \in AccountNav(v) \cup SiteFooter : LeadsIn(v, link)
         /\ v.member => \A link \in BusinessNav : LeadsIn(v, link)
  <1>1. \A link \in SiteHeader(v) : LeadsIn(v, link)
    BY LinksLeadIn DEF SiteHeader, OnlyIf, ShopPages, EntrancePages, AccountPages, TradePages
  <1>2. \A link \in AdminNav(v) : LeadsIn(v, link)
    <2>1. HasPermission(v.role, "DASHBOARD_VIEW") => IsStaffRole(v.role)
      BY DEF HasPermission, IsStaffRole, RolePermissions
    <2> QED BY <2>1, LinksLeadIn DEF AdminNav, OnlyIf, UseCan, ShopPages
  <1>3. \A link \in AccountNav(v) \cup SiteFooter : LeadsIn(v, link)
    BY OpenToAll DEF AccountNav, SiteFooter, OnlyIf, AccountPages, ShopPages, EntrancePages
  <1>4. v.member => \A link \in BusinessNav : LeadsIn(v, link)
    BY LinksLeadIn DEF BusinessNav, TradePages
  <1> QED BY <1>1, <1>2, <1>3, <1>4

\* The site is its five areas, each page with the menus of its own area.
Site(page, own, menu) ==
  page.gate = own.gate /\ page.calls = own.calls /\ page.links = own.links \cup menu

LEMMA WebPagesAre ==
  ASSUME NEW v \in Viewer
  PROVE  /\ DOMAIN WebPages(v) =
              StaffPages \cup TradePages \cup AccountPages \cup ShopPages \cup EntrancePages
         /\ \A p \in StaffPages :
              Site(WebPages(v)[p], BackOffice(v)[p], AdminNav(v) \cup SiteHeader(v))
         /\ \A p \in TradePages :
              Site(WebPages(v)[p], Business(v)[p], BusinessNav \cup SiteHeader(v) \cup SiteFooter)
         /\ \A p \in AccountPages :
              Site(WebPages(v)[p], Account(v)[p], AccountNav(v) \cup SiteHeader(v) \cup SiteFooter)
         /\ \A p \in ShopPages :
              Site(WebPages(v)[p], Shop(v)[p], SiteHeader(v) \cup SiteFooter)
         /\ \A p \in EntrancePages : Site(WebPages(v)[p], Entrance(v)[p], {"home"})
  <1> DEFINE areas == << BackOffice(v), Business(v), Account(v), Shop(v), Entrance(v) >>
             menus == << AdminNav(v) \cup SiteHeader(v),
                         BusinessNav \cup SiteHeader(v) \cup SiteFooter,
                         AccountNav(v) \cup SiteHeader(v) \cup SiteFooter,
                         SiteHeader(v) \cup SiteFooter, {"home"} >>
             area(p) == CHOOSE i \in 1..5 : p \in DOMAIN areas[i]
             names == UNION {DOMAIN areas[i] : i \in 1..5}
             of(p) == [areas[area(p)][p] EXCEPT !.links = @ \cup menus[area(p)]]
  <1>1. WebPages(v) = [p \in names |-> of(p)]
    BY DEF WebPages
  <1>2. 1..5 = {1, 2, 3, 4, 5}
    OBVIOUS
  <1>3. /\ DOMAIN areas[1] = StaffPages /\ DOMAIN areas[2] = TradePages
        /\ DOMAIN areas[3] = AccountPages /\ DOMAIN areas[4] = ShopPages
        /\ DOMAIN areas[5] = EntrancePages
    BY Areas
  <1>4. names = StaffPages \cup TradePages \cup AccountPages \cup ShopPages \cup EntrancePages
    <2> HIDE DEF areas
    <2> QED BY <1>2, <1>3
  <1>5. /\ \A p \in StaffPages : area(p) = 1
        /\ \A p \in TradePages : area(p) = 2
        /\ \A p \in AccountPages : area(p) = 3
        /\ \A p \in ShopPages : area(p) = 4
        /\ \A p \in EntrancePages : area(p) = 5
    <2> HIDE DEF areas
    <2>1. ASSUME NEW p, NEW i \in 1..5, p \in DOMAIN areas[i],
                 \A j \in 1..5 : j # i => p \notin DOMAIN areas[j]
          PROVE  area(p) = i
      BY <2>1
    <2> QED BY <2>1, <1>2, <1>3, AreasApart
  <1>6. ASSUME NEW p \in names, DOMAIN areas[area(p)][p] = {"gate", "calls", "links"}
        PROVE  Site(WebPages(v)[p], areas[area(p)][p], menus[area(p)])
    <2> HIDE DEF areas, menus, area, names
    <2> QED BY <1>1, <1>6 DEF Site
  <1>7. /\ \A p \in StaffPages : DOMAIN BackOffice(v)[p] = {"gate", "calls", "links"}
        /\ \A p \in TradePages : DOMAIN Business(v)[p] = {"gate", "calls", "links"}
        /\ \A p \in AccountPages : DOMAIN Account(v)[p] = {"gate", "calls", "links"}
        /\ \A p \in ShopPages : DOMAIN Shop(v)[p] = {"gate", "calls", "links"}
        /\ \A p \in EntrancePages : DOMAIN Entrance(v)[p] = {"gate", "calls", "links"}
    BY Areas, BackOfficeIsSound, TradePortalIsSound, AccountIsSound, ShopIsSound,
       EntranceIsSound DEF Sound
  <1>8. /\ areas[1] = BackOffice(v) /\ areas[2] = Business(v) /\ areas[3] = Account(v)
        /\ areas[4] = Shop(v) /\ areas[5] = Entrance(v)
        /\ menus[1] = AdminNav(v) \cup SiteHeader(v)
        /\ menus[2] = BusinessNav \cup SiteHeader(v) \cup SiteFooter
        /\ menus[3] = AccountNav(v) \cup SiteHeader(v) \cup SiteFooter
        /\ menus[4] = SiteHeader(v) \cup SiteFooter /\ menus[5] = {"home"}
    OBVIOUS
  <1> HIDE DEF areas, menus, area, names
  <1>9. DOMAIN WebPages(v) = names
    BY <1>1
  <1>10. ASSUME NEW p \in StaffPages
         PROVE  Site(WebPages(v)[p], BackOffice(v)[p],
                     AdminNav(v) \cup SiteHeader(v))
    <2>1. area(p) = 1
      BY <1>5, <1>10
    <2>2. areas[area(p)][p] = BackOffice(v)[p] /\ menus[area(p)] = AdminNav(v) \cup SiteHeader(v)
      BY <1>8, <2>1
    <2>3. p \in names /\ DOMAIN areas[area(p)][p] = {"gate", "calls", "links"}
      BY <1>4, <1>7, <2>2, <1>10
    <2>4. Site(WebPages(v)[p], areas[area(p)][p], menus[area(p)])
      BY <1>6, <2>3
    <2> QED BY <2>2, <2>4
  <1>11. ASSUME NEW p \in TradePages
         PROVE  Site(WebPages(v)[p], Business(v)[p],
                     BusinessNav \cup SiteHeader(v) \cup SiteFooter)
    <2>1. area(p) = 2
      BY <1>5, <1>11
    <2>2. /\ areas[area(p)][p] = Business(v)[p]
          /\ menus[area(p)] = BusinessNav \cup SiteHeader(v) \cup SiteFooter
      BY <1>8, <2>1
    <2>3. p \in names /\ DOMAIN areas[area(p)][p] = {"gate", "calls", "links"}
      BY <1>4, <1>7, <2>2, <1>11
    <2>4. Site(WebPages(v)[p], areas[area(p)][p], menus[area(p)])
      BY <1>6, <2>3
    <2> QED BY <2>2, <2>4
  <1>12. ASSUME NEW p \in AccountPages
         PROVE  Site(WebPages(v)[p], Account(v)[p],
                     AccountNav(v) \cup SiteHeader(v) \cup SiteFooter)
    <2>1. area(p) = 3
      BY <1>5, <1>12
    <2>2. /\ areas[area(p)][p] = Account(v)[p]
          /\ menus[area(p)] = AccountNav(v) \cup SiteHeader(v) \cup SiteFooter
      BY <1>8, <2>1
    <2>3. p \in names /\ DOMAIN areas[area(p)][p] = {"gate", "calls", "links"}
      BY <1>4, <1>7, <2>2, <1>12
    <2>4. Site(WebPages(v)[p], areas[area(p)][p], menus[area(p)])
      BY <1>6, <2>3
    <2> QED BY <2>2, <2>4
  <1>13. ASSUME NEW p \in ShopPages
         PROVE  Site(WebPages(v)[p], Shop(v)[p],
                     SiteHeader(v) \cup SiteFooter)
    <2>1. area(p) = 4
      BY <1>5, <1>13
    <2>2. areas[area(p)][p] = Shop(v)[p] /\ menus[area(p)] = SiteHeader(v) \cup SiteFooter
      BY <1>8, <2>1
    <2>3. p \in names /\ DOMAIN areas[area(p)][p] = {"gate", "calls", "links"}
      BY <1>4, <1>7, <2>2, <1>13
    <2>4. Site(WebPages(v)[p], areas[area(p)][p], menus[area(p)])
      BY <1>6, <2>3
    <2> QED BY <2>2, <2>4
  <1>14. ASSUME NEW p \in EntrancePages
         PROVE  Site(WebPages(v)[p], Entrance(v)[p],
                     {"home"})
    <2>1. area(p) = 5
      BY <1>5, <1>14
    <2>2. areas[area(p)][p] = Entrance(v)[p] /\ menus[area(p)] = {"home"}
      BY <1>8, <2>1
    <2>3. p \in names /\ DOMAIN areas[area(p)][p] = {"gate", "calls", "links"}
      BY <1>4, <1>7, <2>2, <1>14
    <2>4. Site(WebPages(v)[p], areas[area(p)][p], menus[area(p)])
      BY <1>6, <2>3
    <2> QED BY <2>2, <2>4
  <1> QED BY <1>4, <1>9, <1>10, <1>11, <1>12, <1>13, <1>14

\* Who each page of the two closed areas is shown to.
LEMMA TradeGate ==
  ASSUME NEW v, NEW p \in TradePages
  PROVE  Business(v)[p].gate = BusinessShell(v)
  BY PageFields DEF TradePages, Business, BusinessOverviewPage, RfqsPage, RfqView,
         QuotationsPage, QuotationView, OrdersPage, OrderView, TeamPage, SitesPage, CompanyPage

LEMMA StaffGate ==
  ASSUME NEW v
  PROVE  /\ BackOffice(v)["admin"].gate = AdminLayout(v)
         /\ \A permission \in DOMAIN StaffNames, p \in StaffPages :
              p \in StaffNames[permission] =>
                BackOffice(v)[p].gate = RequirePermission(v, permission)
  <1>1. BackOffice(v)["admin"].gate = AdminLayout(v)
    BY PageFields DEF BackOffice, AdminDashboardPage
  <1>2. \A p \in StaffNames["ORDERS_READ_ALL"] :
          BackOffice(v)[p].gate = RequirePermission(v, "ORDERS_READ_ALL")
    BY PageFields DEF StaffNames, BackOffice, OrdersList, OrderDetail
  <1>3. \A p \in StaffNames["RFQS_MANAGE"] :
          BackOffice(v)[p].gate = RequirePermission(v, "RFQS_MANAGE")
    BY PageFields DEF StaffNames, BackOffice, RfqList, RfqDetail
  <1>4. \A p \in StaffNames["QUOTATIONS_MANAGE"] :
          BackOffice(v)[p].gate = RequirePermission(v, "QUOTATIONS_MANAGE")
    BY PageFields DEF StaffNames, BackOffice, QuotationList, NewQuotationPage, QuotationDetail
  <1>5. \A p \in StaffNames["ORGANIZATIONS_REVIEW"] :
          BackOffice(v)[p].gate = RequirePermission(v, "ORGANIZATIONS_REVIEW")
    BY PageFields DEF StaffNames, BackOffice, OrganizationsList, OrganizationDetailView
  <1>6. \A p \in StaffNames["CATALOG_WRITE"] :
          BackOffice(v)[p].gate = RequirePermission(v, "CATALOG_WRITE")
    BY PageFields DEF StaffNames, BackOffice, ProductsList, NewProductPage, EditProduct,
           CategoriesManager
  <1>7. \A p \in StaffNames["USERS_MANAGE"] :
          BackOffice(v)[p].gate = RequirePermission(v, "USERS_MANAGE")
    BY PageFields DEF StaffNames, BackOffice, UsersList
  <1>8. \A p \in StaffNames["AUDIT_READ"] :
          BackOffice(v)[p].gate = RequirePermission(v, "AUDIT_READ")
    BY PageFields DEF StaffNames, BackOffice, AuditLog
  <1>9. DOMAIN StaffNames = {"ORDERS_READ_ALL", "RFQS_MANAGE", "QUOTATIONS_MANAGE",
                             "ORGANIZATIONS_REVIEW", "CATALOG_WRITE", "USERS_MANAGE", "AUDIT_READ"}
    BY DEF StaffNames
  <1> QED BY <1>1, <1>2, <1>3, <1>4, <1>5, <1>6, <1>7, <1>8, <1>9

\* Pages of the open areas are shown, or send the viewer to sign in or elsewhere.
LEMMA OpenGate ==
  ASSUME NEW v
  PROVE  /\ \A p \in AccountPages : Account(v)[p].gate \in {"SHOWN", "SIGN_IN"}
         /\ \A p \in ShopPages : Shop(v)[p].gate \in {"SHOWN", "SIGN_IN"}
         /\ \A p \in EntrancePages : Entrance(v)[p].gate \in {"SHOWN", "SIGN_IN", "ELSEWHERE"}
  <1>1. \A p \in AccountPages : Account(v)[p].gate = AccountLayout(v)
    BY PageFields DEF AccountPages, Account, AccountOverviewPage, AccountOrdersPage,
           AccountOrderDetail, AccountQuotationsPage, AccountQuotationView, AddressesPage,
           TradeAccountPage
  <1>2. AccountLayout(v) \in {"SHOWN", "SIGN_IN"}
    BY DEF AccountLayout, RequireAuth
  <1>3. \A p \in ShopPages : Shop(v)[p].gate \in {"SHOWN", "SIGN_IN"}
    BY PageFields DEF ShopPages, Shop, HomePage, ProductsPage, ProductDetail, CartPage,
           CheckoutPage, QuotePage, ContactPage, NotFoundPage, RequireAuth
  <1>4. \A p \in EntrancePages : Entrance(v)[p].gate \in {"SHOWN", "SIGN_IN", "ELSEWHERE"}
    BY PageFields DEF EntrancePages, Entrance, LoginPage, RegisterPage, ForgotPage, PasswordPage,
           MfaPage, InvitationPage
  <1> QED BY <1>1, <1>2, <1>3, <1>4

\* A link that leads in leads to a page of the site that does not turn the viewer away.
LEMMA LinkOpens ==
  ASSUME NEW v \in Viewer, NEW link, LeadsIn(v, link)
  PROVE  WebPages(v)[link].gate \notin {"REFUSED", "OPEN_ACCOUNT"}
  <1>1. CASE link \in AccountPages \cup ShopPages \cup EntrancePages
    BY <1>1, OpenGate, WebPagesAre DEF Site
  <1>2. CASE link \in TradePages /\ v.member
    <2>1. BusinessShell(v) \notin {"REFUSED", "OPEN_ACCOUNT"}
      BY <1>2 DEF BusinessShell, RequireAuth
    <2> QED BY <1>2, <2>1, TradeGate, WebPagesAre DEF Site
  <1>3. CASE link = "admin" /\ IsStaffRole(v.role)
    <2>1. AdminLayout(v) \notin {"REFUSED", "OPEN_ACCOUNT"}
      BY <1>3 DEF AdminLayout, RequireAuth
    <2>2. link \in StaffPages
      BY <1>3 DEF StaffPages
    <2> QED BY <1>3, <2>1, <2>2, StaffGate, WebPagesAre DEF Site
  <1>4. ASSUME NEW permission \in DOMAIN StaffNames, link \in StaffNames[permission],
               HasPermission(v.role, permission)
        PROVE  WebPages(v)[link].gate \notin {"REFUSED", "OPEN_ACCOUNT"}
    <2>1. link \in StaffPages
      BY <1>4 DEF StaffNames, StaffPages
    <2>2. IsStaffRole(v.role)
      BY <1>4 DEF HasPermission, IsStaffRole, RolePermissions
    <2>3. RequirePermission(v, permission) \notin {"REFUSED", "OPEN_ACCOUNT"}
      BY <1>4, <2>2 DEF RequirePermission, AdminLayout, RequireAuth
    <2> QED BY <1>4, <2>1, <2>3, StaffGate, WebPagesAre DEF Site
  <1> QED BY <1>1, <1>2, <1>3, <1>4 DEF LeadsIn

\* What a page shown calls is allowed, and where it links leads in: its own calls and
\* links, and the menus around it.
LEMMA SiteIsSound ==
  ASSUME NEW v \in Viewer, NEW p \in DOMAIN WebPages(v), WebPages(v)[p].gate = "SHOWN"
  PROVE  /\ \A route \in WebPages(v)[p].calls : Allowed(v, route)
         /\ \A link \in WebPages(v)[p].links : LeadsIn(v, link)
  <1> DEFINE page == WebPages(v)[p]
  <1>1. ASSUME NEW own, NEW menu, Site(page, own, menu), Sound(v, own),
               \A link \in menu : LeadsIn(v, link)
        PROVE  /\ \A route \in page.calls : Allowed(v, route)
               /\ \A link \in page.links : LeadsIn(v, link)
    <2> HIDE DEF page
    <2>1. page.gate = "SHOWN"
      BY DEF page
    <2> QED BY <1>1, <2>1 DEF Site, Sound
  <1>2. CASE p \in StaffPages
    BY <1>1, <1>2, WebPagesAre, Areas, BackOfficeIsSound, MenusLeadIn
  <1>3. CASE p \in TradePages
    <2>1. Business(v)[p].gate = "SHOWN"
      BY <1>3, WebPagesAre DEF Site
    <2>2. v.member
      <3>1. BusinessShell(v) = "SHOWN"
        BY <1>3, <2>1, TradeGate
      <3> QED BY <3>1, TradeGates
    <2>3. Site(page, Business(v)[p], BusinessNav \cup SiteHeader(v) \cup SiteFooter)
      BY <1>3, WebPagesAre
    <2>4. Sound(v, Business(v)[p])
      BY <1>3, Areas, TradePortalIsSound
    <2>5. \A link \in BusinessNav \cup SiteHeader(v) \cup SiteFooter : LeadsIn(v, link)
      BY MenusLeadIn, <2>2
    <2> QED BY <1>1, <2>3, <2>4, <2>5
  <1>4. CASE p \in AccountPages
    <2>1. Site(page, Account(v)[p], AccountNav(v) \cup SiteHeader(v) \cup SiteFooter)
      BY <1>4, WebPagesAre
    <2>2. Sound(v, Account(v)[p])
      BY <1>4, Areas, AccountIsSound
    <2>3. \A link \in AccountNav(v) \cup SiteHeader(v) \cup SiteFooter : LeadsIn(v, link)
      BY MenusLeadIn
    <2> QED BY <1>1, <2>1, <2>2, <2>3
  <1>5. CASE p \in ShopPages
    <2>1. Site(page, Shop(v)[p], SiteHeader(v) \cup SiteFooter)
      BY <1>5, WebPagesAre
    <2>2. Sound(v, Shop(v)[p])
      BY <1>5, Areas, ShopIsSound
    <2>3. \A link \in SiteHeader(v) \cup SiteFooter : LeadsIn(v, link)
      BY MenusLeadIn
    <2> QED BY <1>1, <2>1, <2>2, <2>3
  <1>6. CASE p \in EntrancePages
    <2>1. LeadsIn(v, "home")
      BY OpenToAll DEF ShopPages
    <2>2. Site(page, Entrance(v)[p], {"home"})
      BY <1>6, WebPagesAre
    <2>3. Sound(v, Entrance(v)[p])
      BY <1>6, Areas, EntranceIsSound
    <2> QED BY <1>1, <2>1, <2>2, <2>3
  <1> QED BY <1>2, <1>3, <1>4, <1>5, <1>6, WebPagesAre

-----------------------------------------------------------------------------
\* What a tab that knows the truth takes its user for.
LEMMA ViewerIsViewer ==
  ASSUME WebTypeOK
  PROVE  ViewerOf(tab) \in Viewer
  <1>1. CASE tab.user = NoUser
    BY <1>1 DEF ViewerOf, Nobody, Viewer
  <1>2. CASE tab.user # NoUser
    <2>1. tab.user \in Profile /\ tab.org \in Org \cup {NoOrg}
      BY <1>2 DEF WebTypeOK, Tab
    <2>2. tab.user.role \in Role /\ tab.user.roles \in [Org -> OrgRole \cup {"NONE"}]
          /\ tab.user.verified \in BOOLEAN
      BY <2>1 DEF Profile
    <2>3. /\ ActiveRole(tab) \in OrgRole \cup {"NONE"}
          /\ ActiveRole(tab) # "NONE" => MembershipsOf(tab.user) # {}
      BY <1>2, <2>1, <2>2 DEF ActiveRole, MembershipsOf
    <2>4. tab.user.role # "NONE"
      BY <2>2 DEF Role
    <2> DEFINE belongs == MembershipsOf(tab.user) # {}
               unverified == StaffMfaRequired /\ IsStaffRole(tab.user.role) /\ ~tab.user.verified
    <2>5. belongs \in BOOLEAN /\ unverified \in BOOLEAN
      OBVIOUS
    <2>6. ViewerOf(tab) = [role |-> tab.user.role, member |-> belongs,
                           orgRole |-> ActiveRole(tab), unverified |-> unverified]
      BY <1>2 DEF ViewerOf
    <2>7. unverified => IsStaffRole(tab.user.role) /\ StaffMfaRequired
      OBVIOUS
    <2>8. ActiveRole(tab) # "NONE" => belongs
      BY <2>3
    <2> HIDE DEF belongs, unverified
    <2> QED BY <2>2, <2>3, <2>4, <2>5, <2>6, <2>7, <2>8 DEF Viewer
  <1> QED BY <1>1, <1>2

\* A call in the name of a suspended organisation.
Barred(route) == route.needs = "MEMBER" /\ Suspended(tab.org)

\* What is allowed to the viewer of an up-to-date tab, the API admits, and refuses in
\* the name of a suspended organisation.
LEMMA AllowedIsAdmitted ==
  ASSUME WebTypeOK, UpToDate, tab.status # "loading", NEW route, Allowed(ViewerOf(tab), route)
  PROVE  \/ tab.user = NoUser /\ route # Public
         \/ Admits(CallerFor(tab.org), route) <=> ~Barred(route)
  <1> DEFINE caller == CallerFor(tab.org)
  <1>1. CASE route = Public
    BY <1>1 DEF Admits, Answer, AuthenticationGuard, PermissionsGuard, OrganizationGuard, Public,
                Barred
  <1>2. CASE route # Public /\ tab.user # NoUser
    <2>1. cookie # NoSession /\ account[cookie.user].active
          /\ tab.user = Profiled(cookie.user, cookie.verified)
      BY <1>2 DEF UpToDate, Me
    <2>2. cookie.user \in User /\ cookie.verified \in BOOLEAN
      BY <2>1 DEF WebTypeOK, Session
    <2>3. /\ tab.user.role = account[cookie.user].role /\ tab.user.roles = membership[cookie.user]
          /\ tab.user.verified = cookie.verified
      BY <2>1 DEF Profiled
    <2>4. account[cookie.user].role \in Role /\ account[cookie.user].role # "NONE"
      BY <2>2 DEF WebTypeOK, Role
    <2>5. /\ ViewerOf(tab).role = account[cookie.user].role
          /\ ViewerOf(tab).orgRole = ActiveRole(tab)
          /\ ViewerOf(tab).unverified <=>
               StaffMfaRequired /\ IsStaffRole(account[cookie.user].role) /\ ~cookie.verified
      BY <1>2, <2>3 DEF ViewerOf
    <2>6. /\ caller.token /\ caller.active /\ caller.role = account[cookie.user].role
          /\ caller.secondFactor = cookie.verified /\ (caller.named <=> tab.org # NoOrg)
          /\ tab.org # NoOrg => caller.orgStatus = standing[tab.org]
          /\ tab.org # NoOrg => caller.orgRole = membership[cookie.user][tab.org]
      BY <2>1 DEF CallerFor
    <2>7. ActiveRole(tab) # "NONE" =>
            tab.org # NoOrg /\ ActiveRole(tab) = membership[cookie.user][tab.org]
      BY <2>3, WebConstants DEF ActiveRole, MembershipsOf
    <2> HIDE DEF caller
    <2>8. AuthenticationGuard(caller, route) = "OK"
      BY <2>6 DEF AuthenticationGuard
    <2>9. PermissionsGuard(caller, route) = "OK" /\ (OrganizationGuard(caller, route) = "OK" <=> ~Barred(route))
      <3>1. CASE route = SignedIn
        BY <3>1 DEF SignedIn, PermissionsGuard, OrganizationGuard, Barred
      <3>2. CASE route.needs = "STAFF" /\ HasPermission(ViewerOf(tab).role, route.permission)
                 /\ ~ViewerOf(tab).unverified
        BY <3>2, <2>5, <2>6 DEF PermissionsGuard, OrganizationGuard, Barred
      <3>3. CASE route.needs = "MEMBER" /\ HasOrgPermission(ViewerOf(tab).orgRole, route.permission)
        <4>1. ActiveRole(tab) # "NONE"
          BY <3>3, <2>5 DEF HasOrgPermission
        <4>2. Barred(route) <=> caller.orgStatus = "SUSPENDED"
          BY <3>3, <4>1, <2>6, <2>7 DEF Barred, Suspended
        <4> QED BY <3>3, <4>1, <4>2, <2>5, <2>6, <2>7 DEF PermissionsGuard, OrganizationGuard
      <3> QED BY <3>1, <3>2, <3>3, <1>2, <2>4, <2>5 DEF Allowed
    <2> QED BY <2>8, <2>9 DEF Admits, Answer, caller
  <1> QED BY <1>1, <1>2

LEMMA PagesOfIs == ASSUME NEW v \in Viewer PROVE PagesOf[v] = WebPages(v)
  BY TableIs DEF PagesOf

\* The pages and the API agree, for any users, organisations, roles and pages.
LEMMA UpToDateIsAdmitted ==
  ASSUME WebTypeOK
  PROVE  PagesAreAdmitted
  <1> DEFINE v == ViewerOf(tab)
             pages == PagesOf[v]
  <1>1. v \in Viewer /\ pages = WebPages(v)
    BY ViewerIsViewer, PagesOfIs
  <1>2. SUFFICES ASSUME UpToDate, tab.status # "loading",
                        NEW p \in {q \in DOMAIN pages : pages[q].gate = "SHOWN"}
                 PROVE  /\ \A route \in pages[p].calls :
                             \/ tab.user = NoUser /\ route # Public
                             \/ Admits(CallerFor(tab.org), route) <=> ~Barred(route)
                        /\ \A link \in pages[p].links :
                             pages[link].gate \notin {"REFUSED", "OPEN_ACCOUNT"}
    BY DEF PagesAreAdmitted, Barred
  <1> HIDE DEF pages
  <1>3. /\ \A route \in pages[p].calls : Allowed(v, route)
        /\ \A link \in pages[p].links : LeadsIn(v, link)
    <2> HIDE DEF v
    <2> QED BY <1>1, <1>2, SiteIsSound
  <1>4. \A link \in pages[p].links : pages[link].gate \notin {"REFUSED", "OPEN_ACCOUNT"}
    <2> HIDE DEF v
    <2> QED BY <1>1, <1>3, LinkOpens
  <1>5. \A route \in pages[p].calls :
          \/ tab.user = NoUser /\ route # Public
          \/ Admits(CallerFor(tab.org), route) <=> ~Barred(route)
    BY <1>2, <1>3, AllowedIsAdmitted
  <1> QED BY <1>4, <1>5

\* The pages and the API agree, for any users, organisations, roles and rights: while a
\* tab's copy of the session is the truth, no page it shows makes a call the API refuses
\* this user, but for those in the name of a suspended organisation, which it refuses
\* every one, and no link of it leads to a refusal (permissions.ts and guards.ts against
\* the gates, buttons, menus and links of every page).
THEOREM PagesAgreeWithTheApi == WebSpec => []PagesAreAdmitted
  BY WebTypes, UpToDateIsAdmitted, PTL
=============================================================================
