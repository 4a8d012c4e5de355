--------------------------- MODULE LedgerTransfer ----------------------------
(***************************************************************************)
(* applyLedgerTransferTransactional of the ownership service: every        *)
(* purchase moves tokens in one READ COMMITTED database transaction that   *)
(* locks the distributor's row, then the buyer's row, and commits.  The    *)
(* transactions of different requests interleave at every query.           *)
(*                                                                         *)
(* A position row of a buyer is named by the request that inserted it;     *)
(* amount 0 means that the request has inserted no row.                    *)
(***************************************************************************)
EXTENDS Integers

CONSTANTS Requests, Buyers, Supply, Calls, NoOne

ASSUME TransferAssumption ==
    /\ Supply \in Nat \ {0}
    /\ \A c \in Calls : c.buyer \in Buyers /\ c.amount \in Nat \ {0}
    /\ NoOne \notin Requests

VARIABLES call,        \* the input of each request
          sellerRow,   \* committed row of the distributor: amount and status
          buyerRow,    \* committed amount of the row each request inserted
          sellerLock,  \* who holds the pessimistic_write lock of the seller row
          buyerLock,   \* who holds the lock of each buyer row
          pc,          \* where each request's transaction is
          draft        \* what the transaction has read and not yet committed

vars == <<call, sellerRow, buyerRow, sellerLock, buyerLock, pc, draft>>

Draft == [seller : Int, row : Requests \cup {NoOne}, credit : Nat]

Init ==
    /\ call \in [Requests -> Calls]
    /\ sellerRow = [amount |-> Supply, status |-> "active"]
    /\ buyerRow = [q \in Requests |-> 0]
    /\ sellerLock = NoOne
    /\ buyerLock = [q \in Requests |-> NoOne]
    /\ pc = [r \in Requests |-> "idle"]
    /\ draft = [r \in Requests |-> [seller |-> 0, row |-> NoOne, credit |-> 0]]

Goto(r, l) == pc' = [pc EXCEPT ![r] = l]

Rows(b) == {q \in Requests : buyerRow[q] > 0 /\ call[q].buyer = b}

\* Mutant: the locks outlive the transaction.
ReleaseLocks_Never(r) == UNCHANGED <<sellerLock, buyerLock>>

\* Rolling back or committing releases every lock of the transaction.
ReleaseLocks(r) ==
    /\ sellerLock' = IF sellerLock = r THEN NoOne ELSE sellerLock
    /\ buyerLock' = [q \in Requests |-> IF buyerLock[q] = r THEN NoOne ELSE buyerLock[q]]

Rollback(r) ==
    /\ ReleaseLocks(r)
    /\ Goto(r, "refused")
    /\ UNCHANGED <<call, sellerRow, buyerRow, draft>>

Begin(r) ==
    /\ pc[r] = "idle"
    /\ Goto(r, "readSeller")
    /\ UNCHANGED <<call, sellerRow, buyerRow, sellerLock, buyerLock, draft>>

\* Mutant: a plain SELECT in place of the pessimistic_write lock.
ReadSeller_Unlocked(r) ==
    /\ pc[r] = "readSeller"
    /\ sellerRow.status = "active"
    /\ draft' = [draft EXCEPT ![r].seller = sellerRow.amount]
    /\ Goto(r, "debitSeller")
    /\ UNCHANGED <<call, sellerRow, buyerRow, sellerLock, buyerLock>>

\* SELECT ... FOR UPDATE of the active row of the distributor's wallet: it waits
\* for the lock and reads the version that the previous holder committed.
ReadSeller(r) ==
    /\ pc[r] = "readSeller"
    /\ sellerRow.status = "active"
    /\ sellerLock = NoOne
    /\ sellerLock' = r
    /\ draft' = [draft EXCEPT ![r].seller = sellerRow.amount]
    /\ Goto(r, "debitSeller")
    /\ UNCHANGED <<call, sellerRow, buyerRow, buyerLock>>

\* 'Seller not found': a sold-out row is inactive and no longer qualifies.
SellerGone(r) ==
    /\ pc[r] = "readSeller"
    /\ sellerRow.status = "inactive"
    /\ Rollback(r)

\* 'Insufficient balance'
Insufficient(r) ==
    /\ pc[r] = "debitSeller"
    /\ draft[r].seller < call[r].amount
    /\ Rollback(r)

DebitSeller(r) ==
    /\ pc[r] = "debitSeller"
    /\ draft[r].seller >= call[r].amount
    /\ draft' = [draft EXCEPT ![r].seller = @ - call[r].amount]
    /\ Goto(r, "readBuyer")
    /\ UNCHANGED <<call, sellerRow, buyerRow, sellerLock, buyerLock>>

\* The row the transaction will save, and the amount it adds to.
DraftCredit(r, q, n) == draft' = [draft EXCEPT ![r] = [seller |-> @.seller, row |-> q, credit |-> n]]

\* Mutant: a buyer's second purchase replaces the amount of the first.
FindBuyer_Overwrites(r) ==
    /\ pc[r] = "readBuyer"
    /\ \E q \in Rows(call[r].buyer) : DraftCredit(r, q, 0)
    /\ Goto(r, "commit")
    /\ UNCHANGED <<call, sellerRow, buyerRow, sellerLock, buyerLock>>

\* SELECT ... FOR UPDATE of the buyer's active row, when there is one.
FindBuyer(r) ==
    /\ pc[r] = "readBuyer"
    /\ \E q \in Rows(call[r].buyer) :
         /\ buyerLock[q] = NoOne
         /\ buyerLock' = [buyerLock EXCEPT ![q] = r]
         /\ DraftCredit(r, q, buyerRow[q])
    /\ Goto(r, "commit")
    /\ UNCHANGED <<call, sellerRow, buyerRow, sellerLock>>

\* No row to lock: the transaction will insert one.
NewBuyer(r) ==
    /\ pc[r] = "readBuyer"
    /\ Rows(call[r].buyer) = {}
    /\ DraftCredit(r, r, 0)
    /\ Goto(r, "commit")
    /\ UNCHANGED <<call, sellerRow, buyerRow, sellerLock, buyerLock>>

\* Mutant: the last token is closed off with the row.
SoldRow_Early(n) == [amount |-> n, status |-> IF n <= 1 THEN "inactive" ELSE "active"]

SoldRow(n) == [amount |-> n, status |-> IF n = 0 THEN "inactive" ELSE "active"]

\* Both saves of the transaction become visible.
Commit(r) ==
    /\ pc[r] = "commit"
    /\ sellerRow' = SoldRow(draft[r].seller)
    /\ buyerRow' = [buyerRow EXCEPT ![draft[r].row] = draft[r].credit + call[r].amount]
    /\ ReleaseLocks(r)
    /\ Goto(r, "moved")
    /\ UNCHANGED <<call, draft>>

\* The connection or the process is lost inside the transaction.
Abort(r) ==
    /\ pc[r] \in {"debitSeller", "readBuyer", "commit"}
    /\ Rollback(r)

Step(r) ==
    \/ ReadSeller(r) \/ SellerGone(r) \/ Insufficient(r) \/ DebitSeller(r)
    \/ FindBuyer(r) \/ NewBuyer(r) \/ Commit(r)

Next == \E r \in Requests : Begin(r) \/ Step(r) \/ Abort(r)

\* A transaction that has begun is driven on by the event loop and the database.
Fairness == \A r \in Requests : WF_vars(Step(r))

Spec == Init /\ [][Next]_vars

FairSpec == Spec /\ Fairness

-----------------------------------------------------------------------------
Places == {"idle", "readSeller", "debitSeller", "readBuyer", "commit", "moved", "refused"}

TypeOK ==
    /\ call \in [Requests -> Calls]
    /\ sellerRow \in [amount : Nat, status : {"active", "inactive"}]
    /\ buyerRow \in [Requests -> Nat]
    /\ sellerLock \in Requests \cup {NoOne}
    /\ buyerLock \in [Requests -> Requests \cup {NoOne}]
    /\ pc \in [Requests -> Places]
    /\ draft \in [Requests -> Draft]

\* Two first purchases by one buyer never insert two rows for it: nothing in the
\* table forbids it, only the seller lock that both transactions hold in turn.
OneRowPerBuyer == \A b \in Buyers : \A p, q \in Rows(b) : p = q

\* A purchase that waited for the seller row meets 'Seller not found' only when
\* the purchases it waited for left nothing to sell.
NotFoundOnlyWhenSoldOut ==
    [][\A r \in Requests : pc[r] = "readSeller" /\ pc'[r] = "refused"
         => sellerRow.amount = 0]_vars

\* Every transfer that begins ends, so no set of row locks can block for ever.
TransferEnds == \A r \in Requests : pc[r] = "readSeller" ~> pc[r] \in {"moved", "refused"}

\* The mapping to the abstract ledger.
holdingOf == [b \in Buyers |->
    IF Rows(b) = {} THEN 0 ELSE buyerRow[CHOOSE q \in Rows(b) : TRUE]]

outcomeOf == [r \in Requests |->
    IF pc[r] \in {"moved", "refused"} THEN pc[r] ELSE "open"]

Ledger == INSTANCE OwnershipLedger
            WITH inventory <- sellerRow.amount, holding <- holdingOf, outcome <- outcomeOf

\* Interleaved lock-and-save transactions look like atomic transfers: no lost
\* update, no oversold inventory, no partial move, whatever is aborted.
ImplementsOwnershipLedger == Ledger!LedgerSpec
=============================================================================
