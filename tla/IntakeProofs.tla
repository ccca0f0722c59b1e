---------------------------- MODULE IntakeProofs ----------------------------
(***************************************************************************)
(* Proofs about the intake of requests for quotation, for any number of    *)
(* requests, forms, people, organisations and overlapping staff requests:  *)
(* a form records one request, what the sales pages offer the API takes,   *)
(* and a quotation is addressed as the staff or the request's link say.    *)
(*                                                                         *)
(* Two facts carry the rest.  Whoever a request is linked to, or is about  *)
(* to be linked to, has an account; accounts are never deleted.  And while *)
(* a quotation is being drafted the request's row is locked, so that the   *)
(* customer read at the start is still the customer at the commit.         *)
(***************************************************************************)
EXTENDS Intake, FiniteSetTheorems, TLAPS

Assigns ==
  [ op : {"CHOOSE", "INVITE", "CREATE", "CLEAN_UP", "LINK"}, f : Rfqs,
    who : People \cup {NoOne}, org : Orgs \cup {NoOrg} ]
Drafts ==
  [op : {"QUOTE"}, f : Rfqs, who : People, named : People \cup {NoOne}, org : Orgs \cup {NoOrg}]

\* A website's request has somebody to answer to.
HasContact ==
  \A f \in Rfqs : Exists(f) /\ rfq[f].source = "WEBSITE" => rfq[f].contact \in People

\* Staff work on requests there are.
Attended == \A r \in Requests : req[r] # Idle => Exists(req[r].f)

\* Whoever is linked, or about to be, or about to get a quotation, has an account.
HasAccount ==
  /\ \A f \in Rfqs : Exists(f) /\ rfq[f].by # NoOne => account[rfq[f].by] # "NONE"
  /\ \A r \in Requests : req[r].op \in {"CHOOSE", "CREATE", "LINK"} => req[r].who # NoOne
  /\ \A r \in Requests : req[r].op \in {"LINK", "QUOTE"} => account[req[r].who] # "NONE"

\* What a draft read with the row locked is still what the row says; the
\* contact of a website's request is who gets invited.
RowStands ==
  \A r \in Requests :
    /\ req[r].op = "QUOTE" =>
         req[r].who = CustomerFor(req[r].f, req[r].named) /\ rfq[req[r].f].org = req[r].org
    /\ req[r].op = "INVITE" => rfq[req[r].f].source = "WEBSITE"

\* What is quoted is a request there is.
QuotedExist == \A f \in Rfqs : IsQuoted(f) => Exists(f)

IntakeInv == TypeOK /\ HasContact /\ Attended /\ HasAccount /\ RowStands /\ QuotedExist

LEMMA RowsAre ==
  ASSUME TypeOK, NEW f \in Rfqs
  PROVE  /\ Exists(f) <=> rfq[f] \in Rfq
         /\ IsQuoted(f) <=> quote[f] \in Quotation
  BY IntakeNothing DEF TypeOK, Exists, IsQuoted

LEMMA StaffAre ==
  /\ Staff = Assigns \cup Drafts
  /\ Idle \notin Staff
  /\ \A s \in Staff : s.op # "IDLE" /\ s.f \in Rfqs
  BY DEF Staff, Assigns, Drafts, Idle

LEMMA RequestsAre ==
  ASSUME TypeOK, NEW r \in Requests
  PROVE  /\ req[r] = Idle \/ req[r] \in Assigns \/ req[r] \in Drafts
         /\ req[r].op \in {"CHOOSE", "INVITE", "CREATE", "CLEAN_UP", "LINK"} => req[r] \in Assigns
         /\ req[r].op = "QUOTE" => req[r] \in Drafts
  BY StaffAre DEF TypeOK, Assigns, Drafts, Idle

\* Who gets linked, or gets the quotation, is a person.
LEMMA WorksFor ==
  ASSUME TypeOK, HasAccount, NEW r \in Requests, req[r].op \in {"LINK", "QUOTE"}
  PROVE  req[r].who \in People
  <1>1. CASE req[r].op = "LINK"
    BY <1>1, RequestsAre DEF HasAccount, Assigns
  <1>2. CASE req[r].op = "QUOTE"
    BY <1>2, RequestsAre DEF Drafts
  <1> QED BY <1>1, <1>2

LEMMA Linked ==
  ASSUME TypeOK, NEW f \in Rfqs, Exists(f), NEW w \in People \cup {NoOne},
         NEW o \in Orgs \cup {NoOrg}, rfq' = [rfq EXCEPT ![f].by = w, ![f].org = o]
  PROVE  /\ rfq' \in [Rfqs -> Rfq \cup {NoRfq}]
         /\ \A g \in Rfqs \ {f} : rfq'[g] = rfq[g]
         /\ rfq'[f] \in Rfq /\ rfq'[f].by = w /\ rfq'[f].org = o
         /\ rfq'[f].source = rfq[f].source /\ rfq'[f].contact = rfq[f].contact
         /\ rfq'[f].form = rfq[f].form /\ rfq'[f].status = rfq[f].status
  <1> DEFINE one == [rfq EXCEPT ![f].by = w]
             two == [one EXCEPT ![f].org = o]
  <1>1. rfq \in [Rfqs -> Rfq \cup {NoRfq}] /\ rfq[f] \in Rfq
    BY RowsAre DEF TypeOK
  <1>2. /\ one \in [Rfqs -> Rfq \cup {NoRfq}] /\ \A g \in Rfqs \ {f} : one[g] = rfq[g]
        /\ one[f] \in Rfq /\ one[f].by = w /\ one[f].org = rfq[f].org
        /\ one[f].source = rfq[f].source /\ one[f].contact = rfq[f].contact
        /\ one[f].form = rfq[f].form /\ one[f].status = rfq[f].status
    BY <1>1 DEF Rfq
  <1>3. rfq' = two
    OBVIOUS
  <1> HIDE DEF one
  <1>4. /\ two \in [Rfqs -> Rfq \cup {NoRfq}] /\ \A g \in Rfqs \ {f} : two[g] = one[g]
        /\ two[f] \in Rfq /\ two[f].by = one[f].by /\ two[f].org = o
        /\ two[f].source = one[f].source /\ two[f].contact = one[f].contact
        /\ two[f].form = one[f].form /\ two[f].status = one[f].status
    BY <1>2 DEF Rfq
  <1> HIDE DEF two
  <1> QED BY <1>2, <1>3, <1>4

\* A row whose status moves is otherwise as it was.
LEMMA Moved ==
  ASSUME TypeOK, NEW f \in Rfqs, Exists(f), NEW to \in RfqStatus,
         rfq' = [rfq EXCEPT ![f].status = to]
  PROVE  /\ rfq' \in [Rfqs -> Rfq \cup {NoRfq}]
         /\ \A g \in Rfqs : Exists(g)' <=> Exists(g)
         /\ \A g \in Rfqs : Exists(g) =>
              /\ rfq'[g].by = rfq[g].by /\ rfq'[g].org = rfq[g].org
              /\ rfq'[g].source = rfq[g].source /\ rfq'[g].contact = rfq[g].contact
              /\ rfq'[g].form = rfq[g].form
  <1>1. rfq \in [Rfqs -> Rfq \cup {NoRfq}] /\ rfq[f] \in Rfq
    BY RowsAre DEF TypeOK
  <1>2. /\ rfq' \in [Rfqs -> Rfq \cup {NoRfq}] /\ \A g \in Rfqs \ {f} : rfq'[g] = rfq[g]
        /\ rfq'[f] \in Rfq /\ rfq'[f].by = rfq[f].by /\ rfq'[f].org = rfq[f].org
        /\ rfq'[f].source = rfq[f].source /\ rfq'[f].contact = rfq[f].contact
        /\ rfq'[f].form = rfq[f].form
    BY <1>1 DEF Rfq
  <1> QED BY <1>1, <1>2, IntakeNothing DEF Exists

-----------------------------------------------------------------------------
(***************************************************************************)
(* What the actions have in common.                                        *)
(***************************************************************************)
\* Rows stay, and keep what they say but for their status.
RowsKept ==
  /\ rfq' \in [Rfqs -> Rfq \cup {NoRfq}]
  /\ \A g \in Rfqs : Exists(g)' <=> Exists(g)
  /\ \A g \in Rfqs : Exists(g) =>
       /\ rfq'[g].by = rfq[g].by /\ rfq'[g].org = rfq[g].org
       /\ rfq'[g].source = rfq[g].source /\ rfq'[g].contact = rfq[g].contact
       /\ rfq'[g].form = rfq[g].form

AccountsStay ==
  /\ account' \in [People -> {"NONE", "CUSTOMER", "SUSPENDED", "STAFF"}]
  /\ \A p \in People : account[p] # "NONE" => account'[p] # "NONE"

LEMMA Untouched == ASSUME TypeOK, UNCHANGED rfq PROVE RowsKept
  BY DEF TypeOK, RowsKept, Exists

\* A request of the staff goes on, or ends.
LEMMA StaffMoves ==
  ASSUME IntakeInv, RowsKept, quote' \in [Rfqs -> Quotation \cup {NoQuote}], AccountsStay,
         identity' \subseteq People, UNCHANGED <<member, form, lost>>,
         NEW r \in Requests, NEW next \in {Idle} \cup Staff, Continue(r, next),
         next # Idle => Exists(next.f),
         next.op \in {"CHOOSE", "CREATE", "LINK"} => next.who # NoOne,
         next.op \in {"LINK", "QUOTE"} => account'[next.who] # "NONE",
         next.op = "QUOTE" =>
           next.who = CustomerFor(next.f, next.named) /\ rfq[next.f].org = next.org,
         next.op = "INVITE" => rfq[next.f].source = "WEBSITE",
         \A f \in Rfqs : IsQuoted(f)' => Exists(f)
  PROVE  IntakeInv'
  <1>1. /\ req \in [Requests -> {Idle} \cup Staff] /\ req' = [req EXCEPT ![r] = next]
        /\ req' \in [Requests -> {Idle} \cup Staff]
    BY DEF IntakeInv, TypeOK, Continue
  <1>2. TypeOK'
    BY <1>1 DEF IntakeInv, TypeOK, RowsKept, AccountsStay
  <1>3. HasContact'
    BY DEF IntakeInv, HasContact, RowsKept
  <1>4. Attended'
    <2> SUFFICES ASSUME NEW q \in Requests, req'[q] # Idle PROVE rfq'[req'[q].f] # NoRfq
      BY DEF Attended, Exists
    <2>1. req'[q] = req[q] \/ req'[q] = next
      BY <1>1
    <2>2. Exists(req'[q].f) /\ req'[q].f \in Rfqs
      BY <1>1, <2>1, StaffAre DEF IntakeInv, Attended
    <2>3. PICK g \in Rfqs : g = req'[q].f
      BY <2>2
    <2>4. Exists(g)'
      BY <2>2, <2>3 DEF RowsKept
    <2> QED BY <2>3, <2>4 DEF Exists
  <1>5. HasAccount'
    <2>1. ASSUME NEW f \in Rfqs, Exists(f)', rfq'[f].by # NoOne PROVE account'[rfq'[f].by] # "NONE"
      <3>1. rfq'[f].by = rfq[f].by /\ Exists(f) /\ rfq[f].by \in People
        BY <2>1, RowsAre DEF RowsKept, IntakeInv, Rfq
      <3> QED BY <2>1, <3>1 DEF IntakeInv, HasAccount, AccountsStay
    <2>2. \A q \in Requests : req'[q].op \in {"CHOOSE", "CREATE", "LINK"} => req'[q].who # NoOne
      BY <1>1 DEF IntakeInv, HasAccount
    <2>3. ASSUME NEW q \in Requests, req'[q].op \in {"LINK", "QUOTE"}
          PROVE  account'[req'[q].who] # "NONE"
      <3>1. CASE q = r
        BY <1>1, <2>3, <3>1
      <3>2. CASE q # r
        <4>1. req'[q] = req[q]
          BY <1>1, <3>2
        <4>2. req[q].who \in People /\ account[req[q].who] # "NONE"
          BY <2>3, <4>1, WorksFor DEF IntakeInv, HasAccount
        <4> QED BY <4>1, <4>2 DEF AccountsStay
      <3> QED BY <3>1, <3>2
    <2> QED BY <2>1, <2>2, <2>3 DEF HasAccount
  <1>6. RowStands'
    <2> SUFFICES ASSUME NEW q \in Requests, req'[q].op \in {"QUOTE", "INVITE"}
                 PROVE  /\ rfq'[req'[q].f].by = rfq[req'[q].f].by
                        /\ rfq'[req'[q].f].org = rfq[req'[q].f].org
                        /\ rfq'[req'[q].f].source = rfq[req'[q].f].source
      BY <1>1 DEF RowStands, IntakeInv, CustomerFor
    <2>1. req'[q] # Idle
      BY DEF Idle
    <2>2. Exists(req'[q].f) /\ req'[q].f \in Rfqs
      BY <1>1, <2>1, StaffAre DEF IntakeInv, Attended
    <2> QED BY <2>2 DEF RowsKept
  <1>7. QuotedExist'
    BY DEF QuotedExist, RowsKept
  <1> QED BY <1>2, <1>3, <1>4, <1>5, <1>6, <1>7 DEF IntakeInv

\* Nobody of the staff does anything.
LEMMA OthersMove ==
  ASSUME IntakeInv, RowsKept, quote' \in [Rfqs -> Quotation \cup {NoQuote}], AccountsStay,
         identity' \subseteq People, member' \subseteq People \X Orgs,
         form' \in [Forms -> {"EDITING", "SENDING", "RECORDED", "SENT"}],
         lost' \in [Forms -> 0..MaxLost], UNCHANGED req,
         \A f \in Rfqs : IsQuoted(f)' => Exists(f)
  PROVE  IntakeInv'
  <1>1. TypeOK'
    BY DEF IntakeInv, TypeOK, RowsKept, AccountsStay
  <1>2. HasContact'
    BY DEF IntakeInv, HasContact, RowsKept
  <1>3. ASSUME NEW q \in Requests, req[q] # Idle PROVE Exists(req[q].f) /\ req[q].f \in Rfqs
    BY <1>3, StaffAre DEF IntakeInv, Attended, TypeOK
  <1>4. Attended'
    <2> SUFFICES ASSUME NEW q \in Requests, req[q] # Idle PROVE rfq'[req[q].f] # NoRfq
      BY DEF Attended, Exists
    <2> QED BY <1>3 DEF RowsKept, Exists
  <1>5. HasAccount'
    <2>1. ASSUME NEW f \in Rfqs, Exists(f)', rfq'[f].by # NoOne PROVE account'[rfq'[f].by] # "NONE"
      <3>1. rfq'[f].by = rfq[f].by /\ Exists(f) /\ rfq[f].by \in People
        BY <2>1, RowsAre DEF RowsKept, IntakeInv, Rfq
      <3> QED BY <2>1, <3>1 DEF IntakeInv, HasAccount, AccountsStay
    <2>2. ASSUME NEW q \in Requests, req[q].op \in {"LINK", "QUOTE"}
          PROVE  account'[req[q].who] # "NONE"
      <3>1. req[q].who \in People /\ account[req[q].who] # "NONE"
        BY <2>2, WorksFor DEF IntakeInv, HasAccount
      <3> QED BY <3>1 DEF AccountsStay
    <2> QED BY <2>1, <2>2 DEF IntakeInv, HasAccount
  <1>6. RowStands'
    <2> SUFFICES ASSUME NEW q \in Requests, req[q].op \in {"QUOTE", "INVITE"}
                 PROVE  /\ rfq'[req[q].f].by = rfq[req[q].f].by
                        /\ rfq'[req[q].f].org = rfq[req[q].f].org
                        /\ rfq'[req[q].f].source = rfq[req[q].f].source
      BY DEF RowStands, IntakeInv, CustomerFor
    <2>1. req[q] # Idle
      BY DEF Idle
    <2> QED BY <1>3, <2>1 DEF RowsKept
  <1>7. QuotedExist'
    BY DEF QuotedExist, RowsKept
  <1> QED BY <1>1, <1>2, <1>4, <1>5, <1>6, <1>7 DEF IntakeInv

\* A request comes in, from a visitor or from a customer.
LEMMA ComesIn ==
  ASSUME IntakeInv, NEW f \in Rfqs, ~Exists(f), NEW row \in Rfq, rfq' = [rfq EXCEPT ![f] = row],
         row.source = "WEBSITE" => row.contact \in People,
         row.by # NoOne => account[row.by] # "NONE",
         form' \in [Forms -> {"EDITING", "SENDING", "RECORDED", "SENT"}],
         UNCHANGED <<quote, identity, account, member, lost, req>>
  PROVE  IntakeInv'
  <1>1. /\ rfq'[f] = row /\ \A g \in Rfqs \ {f} : rfq'[g] = rfq[g]
        /\ rfq' \in [Rfqs -> Rfq \cup {NoRfq}] /\ Exists(f)'
    BY IntakeNothing DEF IntakeInv, TypeOK, Exists
  <1>2. ASSUME NEW q \in Requests, req[q] # Idle
        PROVE  Exists(req[q].f) /\ req[q].f \in Rfqs \ {f} /\ rfq'[req[q].f] = rfq[req[q].f]
    BY <1>1, <1>2, StaffAre DEF IntakeInv, Attended, TypeOK
  <1>3. TypeOK'
    BY <1>1 DEF IntakeInv, TypeOK
  <1>4. HasContact'
    BY <1>1 DEF IntakeInv, HasContact, Exists
  <1>5. Attended'
    BY <1>2 DEF Attended, Exists
  <1>6. HasAccount'
    BY <1>1 DEF IntakeInv, HasAccount, Exists
  <1>7. RowStands'
    <2> SUFFICES ASSUME NEW q \in Requests, req[q].op \in {"QUOTE", "INVITE"}
                 PROVE  rfq'[req[q].f] = rfq[req[q].f]
      BY DEF RowStands, IntakeInv, CustomerFor
    <2>1. req[q] # Idle
      BY DEF Idle
    <2> QED BY <1>2, <2>1
  <1>8. QuotedExist'
    BY <1>1 DEF IntakeInv, QuotedExist, IsQuoted, Exists
  <1> QED BY <1>3, <1>4, <1>5, <1>6, <1>7, <1>8 DEF IntakeInv

-----------------------------------------------------------------------------
(***************************************************************************)
(* The invariant, action by action.                                        *)
(***************************************************************************)
LEMMA Starts == Init => IntakeInv
  <1> SUFFICES ASSUME Init PROVE IntakeInv
    OBVIOUS
  <1>1. TypeOK
    BY IntakeAssumption DEF Init, TypeOK
  <1>2. \A f \in Rfqs : ~Exists(f)
    BY DEF Init, Exists
  <1>3. \A r \in Requests : req[r] = Idle /\ req[r].op = "IDLE"
    BY DEF Init, Idle
  <1>4. QuotedExist
    BY DEF Init, QuotedExist, IsQuoted
  <1> QED BY <1>1, <1>2, <1>3, <1>4 DEF IntakeInv, HasContact, Attended, HasAccount, RowStands

LEMMA VisitorKeeps == ASSUME IntakeInv, VisitorStep PROVE IntakeInv'
  <1> PICK v \in Forms : \/ Submit(v) \/ RefuseWebsite(v) \/ Receipt(v)
                         \/ \E f \in Rfqs, p \in People : RecordWebsite(v, f, p)
    BY DEF VisitorStep
  <1>1. CASE Submit(v) \/ RefuseWebsite(v) \/ Receipt(v)
    <2>1. UNCHANGED <<rfq, quote, people, req>>
      BY <1>1 DEF Submit, RefuseWebsite, Receipt, people
    <2>2. /\ form' \in [Forms -> {"EDITING", "SENDING", "RECORDED", "SENT"}]
          /\ lost' \in [Forms -> 0..MaxLost]
      BY <1>1, IntakeAssumption DEF Submit, RefuseWebsite, Receipt, IntakeInv, TypeOK
    <2>3. RowsKept /\ AccountsStay
      BY <2>1, Untouched DEF IntakeInv, TypeOK, AccountsStay, people
    <2>4. \A f \in Rfqs : IsQuoted(f)' => Exists(f)
      BY <2>1 DEF IntakeInv, QuotedExist, IsQuoted
    <2> QED BY <2>1, <2>2, <2>3, <2>4, OthersMove DEF IntakeInv, TypeOK, people
  <1>2. ASSUME NEW f \in Rfqs, NEW p \in People, RecordWebsite(v, f, p) PROVE IntakeInv'
    <2> DEFINE row == Submitted("WEBSITE", p, v, NoOne, NoOrg)
    <2>1. row \in Rfq /\ row.contact \in People /\ row.by = NoOne
      BY DEF Submitted, Rfq, RfqStatus
    <2>2. /\ ~Exists(f) /\ rfq' = [rfq EXCEPT ![f] = row]
          /\ UNCHANGED <<quote, identity, account, member, lost, req>>
          /\ form' \in [Forms -> {"EDITING", "SENDING", "RECORDED", "SENT"}]
      BY <1>2 DEF RecordWebsite, people, IntakeInv, TypeOK
    <2> HIDE DEF row
    <2> QED BY <2>1, <2>2, ComesIn
  <1> QED BY <1>1, <1>2

LEMMA AssignKeeps == ASSUME IntakeInv, AssignStep PROVE IntakeInv'
  <1> PICK r \in Requests :
        \/ \E f \in Rfqs, p \in People \cup {NoOne}, o \in Orgs \cup {NoOrg} :
             BeginAssign(r, f, p, o)
        \/ Choose(r) \/ CreateIdentity(r) \/ CreateAccount(r) \/ CleanUp(r) \/ Link(r)
    BY DEF AssignStep
  <1> USE DEF people, forms
  <1>0. /\ TypeOK
        /\ quote \in [Rfqs -> Quotation \cup {NoQuote}] /\ identity \subseteq People
        /\ account \in [People -> {"NONE", "CUSTOMER", "SUSPENDED", "STAFF"}]
        /\ UNCHANGED account => AccountsStay
        /\ UNCHANGED rfq => RowsKept
        /\ UNCHANGED quote => \A f \in Rfqs : IsQuoted(f)' => Exists(f)
        /\ Idle \in {Idle} \cup Staff /\ Idle.op = "IDLE"
    BY Untouched DEF IntakeInv, TypeOK, AccountsStay, Idle, QuotedExist, IsQuoted
  <1>1. ASSUME NEW f \in Rfqs, NEW p \in People \cup {NoOne}, NEW o \in Orgs \cup {NoOrg},
               BeginAssign(r, f, p, o)
        PROVE  IntakeInv'
    <2> DEFINE next == [op |-> IF p = NoOne THEN "INVITE" ELSE "CHOOSE",
                        f |-> f, who |-> p, org |-> o]
    <2>1. /\ Continue(r, next) /\ next \in {Idle} \cup Staff /\ Exists(next.f)
          /\ next.op \in {"INVITE", "CHOOSE"}
          /\ next.op = "CHOOSE" => next.who # NoOne
          /\ rfq[next.f].source = "WEBSITE"
          /\ UNCHANGED <<rfq, quote, identity, account, member, form, lost>>
      BY <1>1 DEF BeginAssign, MayAssign, Staff
    <2> HIDE DEF next
    <2> QED BY <1>0, <2>1, StaffMoves
  <1>2. ASSUME NEW op \in {"CHOOSE", "INVITE", "CREATE", "CLEAN_UP", "LINK"}, req[r] \in Assigns,
               NEW p \in People \cup {NoOne}
        PROVE  /\ [req[r] EXCEPT !.op = op] \in Staff
               /\ [req[r] EXCEPT !.op = op].op = op
               /\ [req[r] EXCEPT !.op = op].who = req[r].who
               /\ [req[r] EXCEPT !.op = op].f = req[r].f
               /\ [req[r] EXCEPT !.op = op, !.who = p] \in Staff
               /\ [req[r] EXCEPT !.op = op, !.who = p].op = op
               /\ [req[r] EXCEPT !.op = op, !.who = p].who = p
               /\ [req[r] EXCEPT !.op = op, !.who = p].f = req[r].f
    <2> DEFINE one == [req[r] EXCEPT !.op = op]
               two == [one EXCEPT !.who = p]
               x   == [req[r] EXCEPT !.op = op, !.who = p]
    <2>1. /\ one \in Assigns /\ one.op = op /\ one.who = req[r].who /\ one.f = req[r].f
      BY <1>2 DEF Assigns
    <2>2. two \in Assigns /\ two.op = op /\ two.who = p /\ two.f = req[r].f
      <3> HIDE DEF one
      <3> QED BY <2>1 DEF Assigns
    <2>3. x = two
      OBVIOUS
    <2>4. x \in Staff /\ x.op = op /\ x.who = p /\ x.f = req[r].f
      <3> HIDE DEF x, two
      <3> QED BY <2>2, <2>3, StaffAre
    <2>5. one \in Staff
      <3> HIDE DEF one
      <3> QED BY <2>1, StaffAre
    <2> QED BY <2>1, <2>4, <2>5, Zenon
  <1>3. req[r] \in Assigns => Exists(req[r].f) /\ req[r].f \in Rfqs /\ req[r].op # "IDLE"
    BY StaffAre DEF IntakeInv, Attended, Idle
  <1>4. CASE Choose(r)
    <2>1. req[r] \in Assigns /\ req[r].op = "CHOOSE" /\ req[r].who # NoOne
      BY <1>0, <1>4, RequestsAre DEF Choose, IntakeInv, HasAccount
    <2>2. CASE MayBeChosen(req[r].who, req[r].org)
      <3> DEFINE next == [req[r] EXCEPT !.op = "LINK"]
      <3>1. /\ Continue(r, next) /\ UNCHANGED <<rfq, quote, identity, account, member, form, lost>>
            /\ account[req[r].who] # "NONE"
        BY <1>4, <2>2 DEF Choose, MayBeChosen
      <3>2. next \in Staff /\ next.op = "LINK" /\ next.who = req[r].who /\ next.f = req[r].f
        BY <1>2, <2>1
      <3> HIDE DEF next
      <3> QED BY <1>0, <1>3, <2>1, <3>1, <3>2, StaffMoves
    <2>3. CASE ~MayBeChosen(req[r].who, req[r].org)
      <3>1. Continue(r, Idle) /\ UNCHANGED <<rfq, quote, identity, account, member, form, lost>>
        BY <1>4, <2>3 DEF Choose, End
      <3> QED BY <1>0, <3>1, StaffMoves
    <2> QED BY <2>2, <2>3
  <1>5. CASE CreateIdentity(r)
    <2>1. req[r] \in Assigns /\ req[r].op = "INVITE"
      BY <1>0, <1>5, RequestsAre DEF CreateIdentity
    <2> DEFINE p == rfq[req[r].f].contact
    <2>2. p \in People /\ p # NoOne
      BY <1>3, <2>1, IntakeAssumption DEF IntakeInv, HasContact, RowStands
    <2>3. CASE MayBeInvited(p)
      <3> DEFINE next == [req[r] EXCEPT !.op = "CREATE", !.who = p]
      <3>1. /\ Continue(r, next) /\ UNCHANGED <<rfq, quote, account, member, form, lost>>
            /\ identity' = identity \cup {p} /\ account[p] = "NONE"
        BY <1>5, <2>3 DEF CreateIdentity, MayBeInvited
      <3>2. next \in Staff /\ next.op = "CREATE" /\ next.who = p /\ next.f = req[r].f
        <4>1. "CREATE" \in {"CHOOSE", "INVITE", "CREATE", "CLEAN_UP", "LINK"}
              /\ p \in People \cup {NoOne}
          BY <2>2
        <4> HIDE DEF p
        <4> QED BY <1>2, <2>1, <4>1, Zenon
      <3> HIDE DEF next
      <3> QED BY <1>0, <1>3, <2>1, <2>2, <3>1, <3>2, StaffMoves
    <2>4. CASE ~MayBeInvited(p)
      <3>1. Continue(r, Idle) /\ UNCHANGED <<rfq, quote, identity, account, member, form, lost>>
        BY <1>5, <2>4 DEF CreateIdentity, End
      <3> QED BY <1>0, <3>1, StaffMoves
    <2> QED BY <2>3, <2>4
  <1>6. CASE CreateAccount(r)
    <2>1. /\ req[r] \in Assigns /\ req[r].op = "CREATE" /\ req[r].who # NoOne
          /\ req[r].who \in People
      BY <1>0, <1>6, RequestsAre DEF CreateAccount, IntakeInv, HasAccount, Assigns
    <2>2. CASE account' = [account EXCEPT ![req[r].who] = "CUSTOMER"]
               /\ Continue(r, [req[r] EXCEPT !.op = "LINK"])
      <3> DEFINE next == [req[r] EXCEPT !.op = "LINK"]
      <3>1. Continue(r, next) /\ UNCHANGED <<rfq, quote, identity, member, form, lost>>
        BY <1>6, <2>2 DEF CreateAccount
      <3>2. next \in Staff /\ next.op = "LINK" /\ next.who = req[r].who /\ next.f = req[r].f
        BY <1>2, <2>1
      <3>3. AccountsStay /\ account'[req[r].who] = "CUSTOMER"
        BY <1>0, <2>1, <2>2 DEF AccountsStay
      <3> HIDE DEF next
      <3> QED BY <1>0, <1>3, <2>1, <3>1, <3>2, <3>3, StaffMoves
    <2>3. CASE UNCHANGED account /\ Continue(r, [req[r] EXCEPT !.op = AfterFailedCreate])
      <3> DEFINE next == [req[r] EXCEPT !.op = "CLEAN_UP"]
      <3>1. Continue(r, next) /\ UNCHANGED <<rfq, quote, identity, account, member, form, lost>>
        BY <1>6, <2>3 DEF CreateAccount, AfterFailedCreate
      <3>2. next \in Staff /\ next.op = "CLEAN_UP" /\ next.f = req[r].f
        BY <1>2, <2>1
      <3> HIDE DEF next
      <3> QED BY <1>0, <1>3, <2>1, <3>1, <3>2, StaffMoves
    <2> QED BY <1>6, <2>2, <2>3 DEF CreateAccount
  <1>7. CASE CleanUp(r)
    <2>1. Continue(r, Idle) /\ UNCHANGED <<rfq, quote, account, member, form, lost>>
          /\ identity' \subseteq People
      BY <1>0, <1>7 DEF CleanUp, End
    <2> QED BY <1>0, <2>1, StaffMoves
  <1>8. CASE Link(r)
    <2>1. /\ req[r] \in Assigns /\ req[r].op = "LINK" /\ req[r].who # NoOne
          /\ account[req[r].who] # "NONE"
      BY <1>0, <1>8, RequestsAre DEF Link, IntakeInv, HasAccount
    <2>2. PICK f \in Rfqs : f = req[r].f
      BY <1>3, <2>1
    <2>3. PICK w \in People : w = req[r].who
      BY <2>1 DEF Assigns
    <2>4. PICK o \in Orgs \cup {NoOrg} : o = req[r].org
      BY <2>1 DEF Assigns
    <2>5. /\ Exists(f) /\ rfq' = [rfq EXCEPT ![f].by = w, ![f].org = o]
          /\ UNCHANGED <<quote, identity, account, member, form, lost>>
          /\ req' = [req EXCEPT ![r] = Idle]
          /\ \A q \in Requests : req[q].op = "QUOTE" => req[q].f # f
      BY <1>3, <1>8, <2>1, <2>2, <2>3, <2>4 DEF Link, LinkWaits, RowIsFree, End, Continue
    <2>6. /\ rfq' \in [Rfqs -> Rfq \cup {NoRfq}]
          /\ \A g \in Rfqs \ {f} : rfq'[g] = rfq[g]
          /\ rfq'[f] \in Rfq /\ rfq'[f].by = w
          /\ rfq'[f].source = rfq[f].source /\ rfq'[f].contact = rfq[f].contact
      BY <1>0, <2>5, Linked
    <2>7. \A g \in Rfqs : Exists(g)' <=> Exists(g)
      BY <2>5, <2>6, IntakeNothing DEF Exists
    <2>8. ASSUME NEW q \in Requests, req'[q] # Idle
          PROVE  req'[q] = req[q] /\ Exists(req[q].f) /\ req[q].f \in Rfqs
      BY <1>0, <2>5, <2>8, StaffAre DEF IntakeInv, Attended, TypeOK
    <2>9. TypeOK'
      BY <2>5, <2>6 DEF IntakeInv, TypeOK
    <2>10. HasContact'
      BY <2>5, <2>6, <2>7 DEF IntakeInv, HasContact
    <2>11. Attended'
      BY <2>7, <2>8 DEF Attended, Exists
    <2>12. HasAccount'
      <3>1. ASSUME NEW g \in Rfqs, Exists(g)', rfq'[g].by # NoOne
            PROVE  account'[rfq'[g].by] # "NONE"
        BY <2>1, <2>3, <2>5, <2>6, <2>7, <3>1 DEF IntakeInv, HasAccount
      <3>2. \A q \in Requests : req'[q].op # "IDLE" => req'[q] = req[q]
        BY <1>0, <2>8
      <3> QED BY <2>5, <3>1, <3>2 DEF IntakeInv, HasAccount
    <2>13. RowStands'
      <3> SUFFICES ASSUME NEW q \in Requests
                   PROVE  /\ req'[q].op = "QUOTE" =>
                               /\ req'[q].who = (IF req'[q].named = NoOne
                                                 THEN rfq'[req'[q].f].by ELSE req'[q].named)
                               /\ rfq'[req'[q].f].org = req'[q].org
                          /\ req'[q].op = "INVITE" => rfq'[req'[q].f].source = "WEBSITE"
        BY DEF RowStands, CustomerFor
      <3>1. CASE req'[q].op \in {"QUOTE", "INVITE"}
        <4>1. /\ req'[q] = req[q] /\ req[q].f \in Rfqs
              /\ req[q].op = "QUOTE" => req[q].f # f
              /\ rfq'[req[q].f].source = rfq[req[q].f].source
          BY <1>0, <2>5, <2>6, <2>8, <3>1
        <4> QED BY <2>6, <4>1 DEF IntakeInv, RowStands, CustomerFor
      <3> QED BY <3>1
    <2>14. QuotedExist'
      BY <2>5, <2>7 DEF IntakeInv, QuotedExist, IsQuoted
    <2> QED BY <2>9, <2>10, <2>11, <2>12, <2>13, <2>14 DEF IntakeInv
  <1> QED BY <1>1, <1>4, <1>5, <1>6, <1>7, <1>8

LEMMA QuoteKeeps == ASSUME IntakeInv, QuoteStep PROVE IntakeInv'
  <1> USE DEF people, forms
  <1>0. /\ TypeOK
        /\ quote \in [Rfqs -> Quotation \cup {NoQuote}] /\ identity \subseteq People
        /\ UNCHANGED account => AccountsStay
        /\ UNCHANGED rfq => RowsKept
        /\ UNCHANGED quote => \A f \in Rfqs : IsQuoted(f)' => Exists(f)
        /\ Idle \in {Idle} \cup Staff /\ Idle.op = "IDLE"
    BY Untouched DEF IntakeInv, TypeOK, AccountsStay, Idle, QuotedExist, IsQuoted
  <1>1. ASSUME NEW r \in Requests, NEW f \in Rfqs, NEW p \in People \cup {NoOne},
               BeginQuote(r, f, p)
        PROVE  IntakeInv'
    <2> DEFINE who  == CustomerFor(f, p)
               next == [op |-> "QUOTE", f |-> f, who |-> who, named |-> p, org |-> rfq[f].org]
    <2>1. /\ Exists(f) /\ rfq[f] \in Rfq /\ who # NoOne /\ account[who] # "NONE"
      BY <1>0, <1>1, RowsAre DEF BeginQuote, MayQuote
    <2>2. who \in People /\ rfq[f].org \in Orgs \cup {NoOrg}
      BY <2>1 DEF CustomerFor, Rfq
    <2>3. /\ Continue(r, next) /\ next \in {Idle} \cup Staff /\ Exists(next.f)
          /\ next.op = "QUOTE" /\ next.who = CustomerFor(next.f, next.named)
          /\ rfq[next.f].org = next.org /\ account'[next.who] # "NONE"
          /\ UNCHANGED <<rfq, quote, identity, account, member, form, lost>>
      BY <1>1, <2>1, <2>2 DEF BeginQuote, Staff
    <2> HIDE DEF next
    <2> QED BY <1>0, <2>3, StaffMoves
  <1>2. ASSUME NEW r \in Requests, CommitQuote(r) PROVE IntakeInv'
    <2>1. req[r] \in Drafts /\ req[r].op = "QUOTE"
      BY <1>0, <1>2, RequestsAre DEF CommitQuote
    <2>2. PICK f \in Rfqs : f = req[r].f
      BY <2>1 DEF Drafts
    <2>3. Exists(f)
      BY <2>1, <2>2 DEF IntakeInv, Attended, Idle
    <2>4. \/ rfq' = [rfq EXCEPT ![f].status = "IN_REVIEW"]
          \/ UNCHANGED rfq
      BY <1>2, <2>2 DEF CommitQuote
    <2>5. RowsKept
      <3>1. "IN_REVIEW" \in RfqStatus
        BY DEF RfqStatus
      <3> QED BY <1>0, <2>3, <2>4, <3>1, Moved DEF RowsKept
    <2>6. quote' \in [Rfqs -> Quotation \cup {NoQuote}]
      <3> DEFINE row == [customer |-> req[r].who, org |-> req[r].org, status |-> "DRAFT"]
      <3>1. row \in Quotation
        BY <2>1 DEF Drafts, Quotation
      <3>2. quote' = [quote EXCEPT ![f] = row]
        BY <1>2, <2>2 DEF CommitQuote
      <3> HIDE DEF row
      <3> QED BY <1>0, <3>1, <3>2
    <2>7. Continue(r, Idle) /\ UNCHANGED <<identity, account, member, form, lost>>
      BY <1>2 DEF CommitQuote, End
    <2>8. \A g \in Rfqs : IsQuoted(g)' => Exists(g)
      BY <1>0, <1>2, <2>2, <2>3 DEF CommitQuote, IsQuoted, IntakeInv, QuotedExist
    <2> QED BY <1>0, <2>5, <2>6, <2>7, <2>8, StaffMoves
  <1>3. ASSUME NEW f \in Rfqs, Issue(f) PROVE IntakeInv'
    <2>1. quote[f] \in Quotation /\ UNCHANGED <<identity, account, member, form, lost, req>>
      BY <1>0, <1>3, RowsAre DEF Issue
    <2>2. quote' \in [Rfqs -> Quotation \cup {NoQuote}]
      BY <1>0, <1>3, <2>1 DEF Issue, Quotation
    <2>3. RowsKept
      <3>0. Exists(f)
        BY <1>3 DEF Issue, IntakeInv, QuotedExist
      <3>1. CASE CanTransition(RfqTransitions, rfq[f].status, "QUOTED")
        <4>1. rfq' = [rfq EXCEPT ![f].status = "QUOTED"] /\ "QUOTED" \in RfqStatus
          BY <1>3, <3>1 DEF Issue, RfqStatus
        <4> QED BY <1>0, <3>0, <4>1, Moved DEF RowsKept
      <3>2. CASE UNCHANGED rfq
        BY <1>0, <3>2
      <3> QED BY <1>3, <3>1, <3>2 DEF Issue
    <2>4. \A g \in Rfqs : IsQuoted(g)' => Exists(g)
      BY <1>0, <1>3 DEF Issue, IsQuoted, IntakeInv, QuotedExist
    <2> QED BY <1>0, <2>1, <2>2, <2>3, <2>4, OthersMove DEF IntakeInv, TypeOK
  <1>4. ASSUME NEW f \in Rfqs, Discard(f) PROVE IntakeInv'
    <2>1. /\ UNCHANGED <<rfq, identity, account, member, form, lost, req>>
          /\ quote' \in [Rfqs -> Quotation \cup {NoQuote}]
      BY <1>0, <1>4 DEF Discard
    <2>2. \A g \in Rfqs : IsQuoted(g)' => Exists(g)
      BY <1>0, <1>4 DEF Discard, IsQuoted, IntakeInv, QuotedExist
    <2> QED BY <1>0, <2>1, <2>2, OthersMove DEF IntakeInv, TypeOK
  <1>5. ASSUME NEW f \in Rfqs, NEW to \in RfqStatus, Triage(f, to) PROVE IntakeInv'
    <2>1. /\ UNCHANGED <<quote, identity, account, member, form, lost, req>>
          /\ Exists(f) /\ rfq' = [rfq EXCEPT ![f].status = to]
      BY <1>5 DEF Triage
    <2>2. RowsKept
      BY <1>0, <2>1, Moved DEF RowsKept
    <2> QED BY <1>0, <2>1, <2>2, OthersMove DEF IntakeInv, TypeOK
  <1> QED BY <1>1, <1>2, <1>3, <1>4, <1>5 DEF QuoteStep

LEMMA PeopleKeep == ASSUME IntakeInv, PeopleStep PROVE IntakeInv'
  <1> USE DEF people, forms
  <1> PICK p \in People :
        \/ SignUp(p) \/ Provision(p) \/ AdminUpdate(p)
        \/ \E o \in Orgs : Join(p, o) \/ Leave(p, o) \/ \E f \in Rfqs : SubmitTrade(f, p, o)
    BY DEF PeopleStep
  <1>1. ASSUME NEW o \in Orgs, NEW f \in Rfqs, SubmitTrade(f, p, o) PROVE IntakeInv'
    <2> DEFINE row == Submitted("TRADE", NoOne, NoOne, p, o)
    <2>1. row \in Rfq /\ row.source # "WEBSITE" /\ row.by = p
      BY DEF Submitted, Rfq, RfqStatus
    <2>2. /\ ~Exists(f) /\ rfq' = [rfq EXCEPT ![f] = row] /\ account[p] # "NONE"
          /\ UNCHANGED <<quote, identity, account, member, form, lost, req>>
      BY <1>1 DEF SubmitTrade
    <2> HIDE DEF row
    <2> QED BY <2>1, <2>2, ComesIn DEF IntakeInv, TypeOK
  <1>2. CASE SignUp(p) \/ Provision(p) \/ AdminUpdate(p) \/ \E o \in Orgs : Join(p, o) \/ Leave(p, o)
    <2>1. UNCHANGED <<rfq, quote, form, lost, req>>
      BY <1>2 DEF SignUp, Provision, AdminUpdate, Join, Leave
    <2>2. identity' \subseteq People /\ member' \subseteq People \X Orgs
      <3>1. identity \subseteq People /\ member \subseteq People \X Orgs
        BY DEF IntakeInv, TypeOK
      <3>2. /\ identity' \in {identity, identity \cup {p}}
            /\ \/ member' = member
               \/ \E o \in Orgs : member' \in {member \cup {<<p, o>>}, member \ {<<p, o>>}}
        BY <1>2 DEF SignUp, Provision, AdminUpdate, Join, Leave
      <3> QED BY <3>1, <3>2
    <2>3. AccountsStay
      <3>1. account \in [People -> {"NONE", "CUSTOMER", "SUSPENDED", "STAFF"}]
        BY DEF IntakeInv, TypeOK
      <3>2. \/ account' = account
            \/ \E a \in {"CUSTOMER", "SUSPENDED", "STAFF"} : account' = [account EXCEPT ![p] = a]
        BY <1>2 DEF SignUp, Provision, AdminUpdate, Join, Leave
      <3> QED BY <3>1, <3>2 DEF AccountsStay
    <2>4. RowsKept
      BY <2>1, Untouched DEF IntakeInv
    <2>5. \A g \in Rfqs : IsQuoted(g)' => Exists(g)
      BY <2>1 DEF IsQuoted, IntakeInv, QuotedExist
    <2> QED BY <2>1, <2>2, <2>3, <2>4, <2>5, OthersMove DEF IntakeInv, TypeOK
  <1> QED BY <1>1, <1>2

LEMMA IntakeStep == IntakeInv /\ [Next]_vars => IntakeInv'
  <1> SUFFICES ASSUME IntakeInv, [Next]_vars PROVE IntakeInv'
    OBVIOUS
  <1>1. CASE UNCHANGED vars
    BY <1>1 DEF vars, IntakeInv, TypeOK, HasContact, Attended, HasAccount, RowStands,
                QuotedExist, IsQuoted, Exists, CustomerFor
  <1> QED BY <1>1, VisitorKeeps, AssignKeeps, QuoteKeeps, PeopleKeep DEF Next

LEMMA IntakeInvAlways == Spec => []IntakeInv
  BY Starts, IntakeStep, PTL DEF Spec

-----------------------------------------------------------------------------
\* The rows are what they should be, and whoever works on one finds it.
THEOREM IntakeTypes == Spec => []TypeOK
  <1>1. IntakeInv => TypeOK
    BY DEF IntakeInv
  <1> QED BY <1>1, IntakeInvAlways, PTL

\* What the sales pages offer on a request, the API takes.
THEOREM SalesOffersStand == Spec => []SalesOffersAreTaken
  <1>1. IntakeInv => SalesOffersAreTaken
    <2> SUFFICES ASSUME IntakeInv, NEW f \in Rfqs
                 PROVE  /\ \A c \in LinkOffers(f) :
                            /\ MayAssign(f)
                            /\ IF c[1] = NoOne
                               THEN rfq[f].contact \in identity \/ MayBeInvited(rfq[f].contact)
                               ELSE MayBeChosen(c[1], c[2])
                        /\ OffersQuotation(f) =>
                             \/ MayQuote(f, rfq[f].by)
                             \/ rfq[f].org # NoOrg /\ <<rfq[f].by, rfq[f].org>> \notin member
      BY DEF SalesOffersAreTaken
    <2>1. ASSUME NEW c \in LinkOffers(f)
          PROVE  /\ MayAssign(f)
                 /\ IF c[1] = NoOne
                    THEN rfq[f].contact \in identity \/ MayBeInvited(rfq[f].contact)
                    ELSE MayBeChosen(c[1], c[2])
      <3>1. PageIsOpen(f) /\ rfq[f].source = "WEBSITE" /\ rfq[f].by = NoOne /\ c \in CustomerLinkPanel(f)
        BY DEF LinkOffers
      <3>2. MayAssign(f) /\ rfq[f].contact \in People /\ rfq[f].contact # NoOne
        BY <3>1, IntakeAssumption DEF PageIsOpen, MayAssign, IsOpen, IntakeInv, HasContact
      <3>3. CASE account[rfq[f].contact] = "NONE"
        <4>1. ContactAccount(f) = NoOne
          BY <3>3 DEF ContactAccount
        <4>2. c = <<NoOne, NoOrg>>
          BY <3>1, <4>1 DEF CustomerLinkPanel
        <4> QED BY <3>2, <3>3, <4>2 DEF MayBeInvited
      <3>4. CASE account[rfq[f].contact] # "NONE"
        <4>1. ContactAccount(f) = rfq[f].contact
          BY <3>1, <3>4 DEF ContactAccount
        <4>2. /\ account[rfq[f].contact] = "CUSTOMER"
              /\ \E o \in {NoOrg} \cup {o \in Orgs : <<rfq[f].contact, o>> \in member} :
                   c = <<rfq[f].contact, o>>
          BY <3>1, <3>2, <4>1 DEF CustomerLinkPanel
        <4> QED BY <3>2, <4>2 DEF MayBeChosen
      <3> QED BY <3>2, <3>3, <3>4
    <2>2. OffersQuotation(f) => \/ MayQuote(f, rfq[f].by)
                                \/ rfq[f].org # NoOrg /\ <<rfq[f].by, rfq[f].org>> \notin member
      BY DEF OffersQuotation, PageIsOpen, MayQuote, IsOpen, IntakeInv, HasAccount
    <2> QED BY <2>1, <2>2
  <1> QED BY <1>1, IntakeInvAlways, PTL

\* A quotation is addressed to the customer the staff name, or else to whom its
\* request is linked to at that moment, and for the organisation it is linked to;
\* nobody is linked, or gets a quotation, who has no account.
THEOREM QuotationsAreAddressed == Spec => AddressedAsLinked
  <1>1. IntakeInv /\ IntakeInv' /\ [Next]_vars => [AddressedAsLinkedStep]_vars
    <2> SUFFICES ASSUME IntakeInv, IntakeInv', Next PROVE AddressedAsLinkedStep
      OBVIOUS
    <2>1. ASSUME NEW f \in Rfqs, ~IsQuoted(f), IsQuoted(f)'
          PROVE  /\ \E r \in Requests :
                      /\ req[r].op = "QUOTE" /\ req[r].f = f
                      /\ quote'[f].customer = CustomerFor(f, req[r].named)
                 /\ quote'[f].org = rfq[f].org
                 /\ account[quote'[f].customer] # "NONE"
      <3>1. quote'[f] # quote[f] /\ quote[f] = NoQuote
        BY <2>1 DEF IsQuoted
      <3>2. ASSUME NEW g \in Rfqs, Issue(g) \/ Discard(g) PROVE FALSE
        BY <3>1, <3>2 DEF Issue, Discard, IsQuoted, IntakeInv, TypeOK
      <3>3. PICK r \in Requests : CommitQuote(r)
        BY <3>1, <3>2 DEF Next, VisitorStep, AssignStep, QuoteStep, PeopleStep, Submit,
           RefuseWebsite, Receipt, RecordWebsite, BeginAssign, Choose, CreateIdentity,
           CreateAccount, CleanUp, Link, BeginQuote, Triage, SignUp, Provision, AdminUpdate,
           Join, Leave, SubmitTrade
      <3>4. /\ req[r].op = "QUOTE"
            /\ quote' = [quote EXCEPT ![req[r].f] =
                          [customer |-> req[r].who, org |-> req[r].org, status |-> "DRAFT"]]
        BY <3>3 DEF CommitQuote
      <3>5. f = req[r].f
        BY <3>1, <3>4 DEF IntakeInv, TypeOK
      <3>6. quote'[f].customer = req[r].who /\ quote'[f].org = req[r].org
        BY <3>4, <3>5 DEF IntakeInv, TypeOK
      <3>7. /\ req[r].who = CustomerFor(f, req[r].named) /\ req[r].org = rfq[f].org
            /\ account[req[r].who] # "NONE"
        BY <3>4, <3>5 DEF IntakeInv, RowStands, HasAccount
      <3> QED BY <3>4, <3>5, <3>6, <3>7
    <2>2. ASSUME NEW f \in Rfqs, Exists(f)', rfq'[f].by # NoOne PROVE account'[rfq'[f].by] # "NONE"
      BY <2>2 DEF IntakeInv, HasAccount
    <2> QED BY <2>1, <2>2 DEF AddressedAsLinkedStep
  <1> QED BY <1>1, IntakeInvAlways, PTL DEF Spec, AddressedAsLinked

-----------------------------------------------------------------------------
(***************************************************************************)
(* One form, one request.                                                  *)
(***************************************************************************)
RecordedBy(v) == {f \in Rfqs : Exists(f) /\ rfq[f].form = v}
Receipts(v)   == lost[v] + (IF form[v] \in {"RECORDED", "SENT"} THEN 1 ELSE 0)

FormsKept ==
  \A f \in Rfqs : (Exists(f)' <=> Exists(f)) /\ (Exists(f) => rfq'[f].form = rfq[f].form)

LEMMA OnceCounted ==
  RecordedOnce <=> \A v \in Forms : Cardinality(RecordedBy(v)) = Receipts(v)
  BY DEF RecordedOnce, RecordedBy, Receipts

LEMMA CountedAfter ==
  ASSUME \A v \in Forms : Cardinality(RecordedBy(v)') = Receipts(v)'
  PROVE  RecordedOnce'
  BY DEF RecordedOnce, RecordedBy, Receipts

LEMMA SameForms ==
  ASSUME RecordedOnce, FormsKept, UNCHANGED <<form, lost>>
  PROVE  RecordedOnce'
  <1> SUFFICES ASSUME NEW v \in Forms PROVE Cardinality(RecordedBy(v)') = Receipts(v)'
    BY CountedAfter
  <1>1. RecordedBy(v)' = RecordedBy(v)
    BY DEF RecordedBy, FormsKept, Exists
  <1>2. Receipts(v)' = Receipts(v)
    BY DEF Receipts
  <1> QED BY <1>1, <1>2, OnceCounted

\* Whatever the staff and other people do, a row stays on its form.
LEMMA StaffKeepForms ==
  ASSUME IntakeInv, \/ AssignStep \/ QuoteStep
  PROVE  FormsKept /\ UNCHANGED <<form, lost>>
  <1> USE DEF people, forms
  <1>1. UNCHANGED <<form, lost>>
    BY DEF AssignStep, QuoteStep, BeginAssign, Choose, CreateIdentity, CreateAccount, CleanUp,
           Link, BeginQuote, CommitQuote, Issue, Discard, Triage
  <1>2. ASSUME UNCHANGED rfq PROVE FormsKept
    <2>1. \A f \in Rfqs : Exists(f)' <=> Exists(f)
      BY <1>2 DEF Exists
    <2> QED BY <1>2, <2>1 DEF FormsKept
  <1>3. ASSUME NEW r \in Requests, Link(r) PROVE FormsKept
    <2>1. req[r] \in Assigns /\ Exists(req[r].f) /\ req[r].f \in Rfqs
      BY <1>3, RequestsAre, StaffAre DEF Link, IntakeInv, Attended, Idle
    <2>2. PICK f \in Rfqs, w \in People \cup {NoOne}, o \in Orgs \cup {NoOrg} :
            f = req[r].f /\ w = req[r].who /\ o = req[r].org
      BY <2>1 DEF Assigns
    <2>3. Exists(f) /\ rfq' = [rfq EXCEPT ![f].by = w, ![f].org = o]
      BY <1>3, <2>1, <2>2 DEF Link
    <2>4. /\ \A g \in Rfqs \ {f} : rfq'[g] = rfq[g]
          /\ rfq'[f] \in Rfq /\ rfq'[f].form = rfq[f].form
      BY <2>3, Linked DEF IntakeInv
    <2> QED BY <2>3, <2>4, IntakeNothing DEF FormsKept, Exists
  <1>4. ASSUME NEW f \in Rfqs, NEW to \in RfqStatus, Exists(f), rfq' = [rfq EXCEPT ![f].status = to]
        PROVE  FormsKept
    BY <1>4, Moved DEF IntakeInv, FormsKept
  <1>5. ASSUME NEW r \in Requests, CommitQuote(r) PROVE FormsKept
    <2>1. PICK f \in Rfqs : f = req[r].f
      BY <1>5, RequestsAre DEF CommitQuote, IntakeInv, Drafts
    <2>2. Exists(f) /\ "IN_REVIEW" \in RfqStatus
      BY <1>5, <2>1 DEF CommitQuote, IntakeInv, Attended, Idle, RfqStatus
    <2>3. rfq' = [rfq EXCEPT ![f].status = "IN_REVIEW"] \/ UNCHANGED rfq
      BY <1>5, <2>1 DEF CommitQuote
    <2> QED BY <1>2, <1>4, <2>2, <2>3
  <1>6. ASSUME NEW f \in Rfqs, Issue(f) PROVE FormsKept
    <2>1. Exists(f) /\ "QUOTED" \in RfqStatus
      BY <1>6 DEF Issue, IntakeInv, QuotedExist, RfqStatus
    <2>2. rfq' = [rfq EXCEPT ![f].status = "QUOTED"] \/ UNCHANGED rfq
      BY <1>6 DEF Issue
    <2> QED BY <1>2, <1>4, <2>1, <2>2
  <1>7. ASSUME NEW f \in Rfqs, NEW to \in RfqStatus, Triage(f, to) PROVE FormsKept
    BY <1>4, <1>7 DEF Triage
  <1>8. FormsKept
    BY <1>2, <1>3, <1>5, <1>6, <1>7
       DEF AssignStep, QuoteStep, BeginAssign, Choose, CreateIdentity, CreateAccount, CleanUp,
           BeginQuote, Discard
  <1> QED BY <1>1, <1>8

LEMMA PeopleCount == ASSUME IntakeInv, RecordedOnce, PeopleStep PROVE RecordedOnce'
  <1> USE DEF people, forms
  <1>1. ASSUME NEW p \in People, NEW o \in Orgs, NEW f \in Rfqs, SubmitTrade(f, p, o)
        PROVE  RecordedOnce'
    <2> DEFINE row == Submitted("TRADE", NoOne, NoOne, p, o)
    <2>1. row.form \notin Forms /\ row \in Rfq
      BY IntakeAssumption DEF Submitted, Rfq, RfqStatus
    <2>2. ~Exists(f) /\ rfq' = [rfq EXCEPT ![f] = row] /\ UNCHANGED <<form, lost>>
      BY <1>1 DEF SubmitTrade
    <2> HIDE DEF row
    <2> SUFFICES ASSUME NEW v \in Forms PROVE Cardinality(RecordedBy(v)') = Receipts(v)'
      BY CountedAfter
    <2>3. /\ rfq'[f] = row /\ \A g \in Rfqs \ {f} : rfq'[g] = rfq[g]
      BY <2>2 DEF IntakeInv, TypeOK
    <2>4. RecordedBy(v)' = RecordedBy(v)
      BY <2>1, <2>2, <2>3 DEF RecordedBy, Exists
    <2>5. Receipts(v)' = Receipts(v)
      BY <2>2 DEF Receipts
    <2> QED BY <2>4, <2>5, OnceCounted
  <1>2. CASE UNCHANGED <<rfq, form, lost>>
    BY <1>2, SameForms DEF FormsKept, Exists
  <1> QED BY <1>1, <1>2 DEF PeopleStep, SignUp, Provision, AdminUpdate, Join, Leave

LEMMA VisitorCount == ASSUME IntakeInv, RecordedOnce, VisitorStep PROVE RecordedOnce'
  <1> PICK v \in Forms : \/ Submit(v) \/ RefuseWebsite(v) \/ Receipt(v)
                         \/ \E f \in Rfqs, p \in People : RecordWebsite(v, f, p)
    BY DEF VisitorStep
  <1>0. /\ form \in [Forms -> {"EDITING", "SENDING", "RECORDED", "SENT"}]
        /\ lost \in [Forms -> Nat]
    BY IntakeAssumption DEF IntakeInv, TypeOK
  <1>1. CASE Submit(v) \/ RefuseWebsite(v) \/ Receipt(v)
    <2> SUFFICES ASSUME NEW w \in Forms PROVE Cardinality(RecordedBy(w)') = Receipts(w)'
      BY CountedAfter
    <2>1. RecordedBy(w)' = RecordedBy(w)
      BY <1>1 DEF Submit, RefuseWebsite, Receipt, RecordedBy, Exists
    <2>2. Receipts(w)' = Receipts(w)
      BY <1>0, <1>1 DEF Submit, MaySubmit, RefuseWebsite, Receipt, Receipts
    <2> QED BY <2>1, <2>2, OnceCounted
  <1>2. ASSUME NEW f \in Rfqs, NEW p \in People, RecordWebsite(v, f, p) PROVE RecordedOnce'
    <2> DEFINE row == Submitted("WEBSITE", p, v, NoOne, NoOrg)
    <2>1. row.form = v /\ row \in Rfq
      BY DEF Submitted, Rfq, RfqStatus
    <2>2. /\ ~Exists(f) /\ rfq' = [rfq EXCEPT ![f] = row] /\ lost' = lost
          /\ form[v] = "SENDING" /\ form' = [form EXCEPT ![v] = "RECORDED"]
      BY <1>2 DEF RecordWebsite
    <2> HIDE DEF row
    <2>3. rfq'[f] = row /\ row # NoRfq /\ \A g \in Rfqs \ {f} : rfq'[g] = rfq[g]
      BY <2>1, <2>2, IntakeNothing DEF IntakeInv, TypeOK
    <2> SUFFICES ASSUME NEW w \in Forms PROVE Cardinality(RecordedBy(w)') = Receipts(w)'
      BY CountedAfter
    <2>4. IsFiniteSet(RecordedBy(w)) /\ f \notin RecordedBy(w)
      <3>1. RecordedBy(w) \subseteq Rfqs
        BY DEF RecordedBy
      <3> QED BY <2>2, <3>1, FS_Subset, IntakeAssumption DEF RecordedBy
    <2>5. CASE w = v
      <3>1. RecordedBy(w)' = RecordedBy(w) \cup {f}
        BY <2>1, <2>2, <2>3, <2>5 DEF RecordedBy, Exists
      <3>2. Receipts(w)' = Receipts(w) + 1
        BY <1>0, <2>2, <2>5 DEF Receipts
      <3> QED BY <2>4, <3>1, <3>2, FS_AddElement, OnceCounted
    <2>6. CASE w # v
      <3>1. RecordedBy(w)' = RecordedBy(w)
        BY <2>1, <2>2, <2>3, <2>6 DEF RecordedBy, Exists
      <3>2. Receipts(w)' = Receipts(w)
        BY <1>0, <2>2, <2>6 DEF Receipts
      <3> QED BY <3>1, <3>2, OnceCounted
    <2> QED BY <2>5, <2>6
  <1> QED BY <1>1, <1>2

\* A form records one request, but for those whose answer got lost.
THEOREM FormsRecordOnce == Spec => []RecordedOnce
  <1>1. Init => RecordedOnce
    <2> SUFFICES ASSUME Init, NEW v \in Forms PROVE Cardinality(RecordedBy(v)) = Receipts(v)
      BY OnceCounted
    <2>1. RecordedBy(v) = {} /\ Receipts(v) = 0
      BY DEF Init, RecordedBy, Receipts, Exists
    <2>2. Cardinality({}) = 0
      BY FS_EmptySet
    <2> QED BY <2>1, <2>2
  <1>2. IntakeInv /\ RecordedOnce /\ [Next]_vars => RecordedOnce'
    <2> SUFFICES ASSUME IntakeInv, RecordedOnce, [Next]_vars PROVE RecordedOnce'
      OBVIOUS
    <2>1. CASE UNCHANGED vars
      BY <2>1, SameForms DEF vars, FormsKept, Exists
    <2> QED BY <2>1, VisitorCount, PeopleCount, StaffKeepForms, SameForms DEF Next
  <1> QED BY <1>1, <1>2, IntakeInvAlways, PTL DEF Spec

=============================================================================
