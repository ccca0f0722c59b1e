--------------------------- MODULE CreditRelease ---------------------------
(***************************************************************************)
(* OrderWriter.createFromQuotation, statement by statement: the release of *)
(* an organisation's orders on credit when several quotations are accepted *)
(* at the same moment, while sales change its terms, finance settles its   *)
(* orders, and retail checkouts draw numbers from the same sequence.       *)
(*                                                                         *)
(* Transactions run at READ COMMITTED: a statement sees what is committed  *)
(* when it starts.  A row locked by one transaction makes the others that  *)
(* want it wait; a rollback undoes what the transaction wrote and frees    *)
(* its rows.                                                               *)
(***************************************************************************)
EXTENDS Integers, FiniteSets, FiniteSetsExt

CONSTANTS
  Acceptances,   \* accepting transactions, each for one quotation
  Checkouts,     \* retail checkouts
  Total,         \* the total of each accepted quotation
  Limits,        \* credit limits sales may set
  Prepaid,       \* the terms of an account without credit
  Nobody

ASSUME CreditAssumption ==
  /\ Acceptances \cap Checkouts = {}
  /\ Total \in [Acceptances -> Nat]
  /\ Limits \subseteq Nat
  /\ Prepaid \notin Nat
  /\ Nobody \notin Acceptances \cup Checkouts

Transactions == Acceptances \cup Checkouts

VARIABLES
  at,         \* the next statement of each transaction
  terms,      \* the organisation's row: Prepaid, or its credit limit
  orgLock,    \* who has the organisation's row locked
  seqLock,    \* who has the SALES_ORDER row of document_sequences locked
  counter,    \* that row's committed value
  seen,       \* the terms each acceptance read under the lock
  release,    \* the status each acceptance decided
  number,     \* the order number each transaction drew
  orders      \* the committed orders of acceptances: status and payment

creditVars == <<at, terms, orgLock, seqLock, counter, seen, release, number, orders>>

NoOrder == [status |-> "NONE", paid |-> FALSE]

At == {"idle", "sum", "number", "insert", "done", "rolled_back"}

\* Committed unpaid orders that were not cancelled: what the aggregate sums.
Outstanding == {a \in Acceptances :
                  orders[a].status \in {"PENDING_PAYMENT", "CONFIRMED"} /\ ~orders[a].paid}
Exposure == MapThenSumSet(LAMBDA a : Total[a], Outstanding)

-----------------------------------------------------------------------------
CreditInit ==
  /\ at = [t \in Transactions |-> "idle"]
  /\ terms \in Limits \cup {Prepaid}
  /\ orgLock = Nobody
  /\ seqLock = Nobody
  /\ counter = 0
  /\ seen = [a \in Acceptances |-> Prepaid]
  /\ release = [a \in Acceptances |-> "PENDING_PAYMENT"]
  /\ number = [t \in Transactions |-> 0]
  /\ orders = [a \in Acceptances |-> NoOrder]

Goto(t, to) == at' = [at EXCEPT ![t] = to]

MutantLockTermsUnlocked(a) ==
  /\ at[a] = "idle"
  /\ seen' = [seen EXCEPT ![a] = terms]
  /\ Goto(a, "sum")
  /\ UNCHANGED <<terms, orgLock, seqLock, counter, release, number, orders>>

\* SELECT ... FOR UPDATE: the terms are read when the lock is granted.
LockTerms(a) ==
  /\ at[a] = "idle"
  /\ orgLock = Nobody
  /\ orgLock' = a
  /\ seen' = [seen EXCEPT ![a] = terms]
  /\ Goto(a, "sum")
  /\ UNCHANGED <<terms, seqLock, counter, release, number, orders>>

\* The exposure, and the decision.
Decide(a) ==
  /\ at[a] = "sum"
  /\ release' = [release EXCEPT ![a] =
       IF seen[a] # Prepaid /\ Exposure + Total[a] <= seen[a] THEN "CONFIRMED"
                                                             ELSE "PENDING_PAYMENT"]
  /\ Goto(a, "number")
  /\ UNCHANGED <<terms, orgLock, seqLock, counter, seen, number, orders>>

\* A checkout has no organisation: its transaction begins with the number.
BeginCheckout(t) ==
  /\ t \in Checkouts /\ at[t] = "idle"
  /\ Goto(t, "number")
  /\ UNCHANGED <<terms, orgLock, seqLock, counter, seen, release, number, orders>>

MutantDrawNumberAutocommit(t) ==
  /\ at[t] = "number"
  /\ number' = [number EXCEPT ![t] = counter + 1]
  /\ counter' = counter + 1
  /\ Goto(t, "insert")
  /\ UNCHANGED <<terms, orgLock, seqLock, seen, release, orders>>

\* NumberingService.next: the upsert locks the sequence's row until commit.
DrawNumber(t) ==
  /\ at[t] = "number"
  /\ seqLock = Nobody
  /\ seqLock' = t
  /\ number' = [number EXCEPT ![t] = counter + 1]
  /\ Goto(t, "insert")
  /\ UNCHANGED <<terms, orgLock, counter, seen, release, orders>>

\* Commit: the order and the counter become visible, the locks are freed.
CommitOrder(t) ==
  /\ at[t] = "insert"
  /\ counter' = number[t]
  /\ orders' = IF t \in Acceptances
               THEN [orders EXCEPT ![t] = [status |-> release[t], paid |-> FALSE]]
               ELSE orders
  /\ seqLock' = IF seqLock = t THEN Nobody ELSE seqLock
  /\ orgLock' = IF orgLock = t THEN Nobody ELSE orgLock
  /\ Goto(t, "done")
  /\ UNCHANGED <<terms, seen, release, number>>

\* Any statement may fail: nothing of the transaction remains.
Rollback(t) ==
  /\ at[t] \in {"sum", "number", "insert"}
  /\ seqLock' = IF seqLock = t THEN Nobody ELSE seqLock
  /\ orgLock' = IF orgLock = t THEN Nobody ELSE orgLock
  /\ number' = [number EXCEPT ![t] = 0]
  /\ Goto(t, "rolled_back")
  /\ UNCHANGED <<terms, counter, seen, release, orders>>

\* review: one UPDATE of the organisation's row, which waits for its lock.
Review(new) ==
  /\ orgLock = Nobody
  /\ terms' = new
  /\ UNCHANGED <<at, orgLock, seqLock, counter, seen, release, number, orders>>

\* recordPayment: also releases an order that waits for it.
RecordPayment(a) ==
  /\ a \in Outstanding
  /\ orders' = [orders EXCEPT ![a] = [status |-> "CONFIRMED", paid |-> TRUE]]
  /\ UNCHANGED <<at, terms, orgLock, seqLock, counter, seen, release, number>>

\* Sales confirm by hand, or somebody cancels.
MoveOrder(a, to) ==
  /\ \/ to = "CONFIRMED" /\ orders[a].status = "PENDING_PAYMENT"
     \/ to = "CANCELLED" /\ orders[a].status \in {"PENDING_PAYMENT", "CONFIRMED"}
  /\ orders' = [orders EXCEPT ![a].status = to]
  /\ UNCHANGED <<at, terms, orgLock, seqLock, counter, seen, release, number>>

CreditStep(t) ==
  \/ BeginCheckout(t)
  \/ t \in Acceptances /\ (LockTerms(t) \/ Decide(t))
  \/ DrawNumber(t) \/ CommitOrder(t)

CreditNext ==
  \/ \E t \in Transactions : CreditStep(t) \/ Rollback(t)
  \/ \E new \in Limits \cup {Prepaid} : Review(new)
  \/ \E a \in Acceptances :
       RecordPayment(a) \/ MoveOrder(a, "CONFIRMED") \/ MoveOrder(a, "CANCELLED")

CreditSpec == CreditInit /\ [][CreditNext]_creditVars

-----------------------------------------------------------------------------
\* Types; a row is locked only by a transaction that is still running.
CreditTypeOK ==
  /\ at \in [Transactions -> At]
  /\ terms \in Limits \cup {Prepaid}
  /\ orgLock \in {a \in Acceptances : at[a] \in {"sum", "number", "insert"}} \cup {Nobody}
  /\ seqLock \in {t \in Transactions : at[t] = "insert"} \cup {Nobody}
  /\ counter \in Nat
  /\ seen \in [Acceptances -> Limits \cup {Prepaid}]
  /\ release \in [Acceptances -> {"PENDING_PAYMENT", "CONFIRMED"}]
  /\ number \in [Transactions -> Nat]
  /\ orders \in [Acceptances -> [status : {"NONE", "PENDING_PAYMENT", "CONFIRMED", "CANCELLED"},
                                 paid : BOOLEAN]]

\* An order released on credit fits the limit in force when it is committed,
\* with everything outstanding at that moment: two acceptances cannot both use
\* the same room, and a limit lowered meanwhile is respected.
ReleasedWithinLimit ==
  [][\A a \in Acceptances :
       at[a] = "insert" /\ at'[a] = "done" /\ release[a] = "CONFIRMED"
       => /\ terms # Prepaid
          /\ Exposure' <= terms]_creditVars

\* Order numbers are 1, 2, 3, ... without a hole or a duplicate, over all the
\* transactions that commit and whichever roll back.
OrderNumbersGapFree ==
  LET done == {t \in Transactions : at[t] = "done"} IN
  /\ {number[t] : t \in done} = 1..counter
  /\ Cardinality(done) = counter
=============================================================================
