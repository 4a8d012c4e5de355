------------------------------- MODULE Purchase -------------------------------
(***************************************************************************)
(* Buying tokens of a live project, from the HTTP request to the completed *)
(* order: buyPosition and submitBuyTransaction of the ownership service    *)
(* with the order, contract and transaction services and the Soroban       *)
(* adapter they call.  One action per awaited step; requests, cancel calls *)
(* and the chain interleave between any two of them.  A request that takes *)
(* no further step is one whose process crashed: nothing resumes it.       *)
(*                                                                         *)
(* Every order handler loads the order, decides, and saves the whole       *)
(* entity it loaded, in two database round trips: a save writes the        *)
(* handler's status over whatever was committed in between.                *)
(*                                                                         *)
(* The ledger transaction is one step, Transfer of OwnershipLedger, which  *)
(* LedgerTransfer is shown to implement.                                   *)
(***************************************************************************)
EXTENDS OwnershipLedger

CONSTANTS Orders,      \* order ids the database can hand out
          Cancels,     \* concurrent cancel calls
          Envelopes,   \* signed XDR envelopes
          NoOrder, NoEnvelope, NoOne

\* A call is [buyer, amount, flow, cash, fee, order, xdr].  "custody" calls are
\* POST /ownership/buy, "self" calls POST /ownership/buy/submit-transaction; an
\* envelope is one buyer's transaction.
ASSUME PurchaseAssumption ==
    /\ NoOrder \notin Orders
    /\ NoOne \notin Requests \cup Buyers
    /\ \A c \in Calls :
         /\ c.flow \in {"custody", "self"}
         /\ c.cash \in Nat /\ c.fee \in Nat
         /\ c.order \in Orders \cup {NoOrder}
         /\ c.flow = "self" => c.xdr \in Envelopes
         /\ c.flow = "custody" => c.xdr = NoEnvelope /\ c.order = NoOrder
    /\ NoEnvelope \notin Envelopes
    /\ \A c, d \in Calls : c.xdr = d.xdr /\ c.xdr \in Envelopes => c.buyer = d.buyer

VARIABLES orders,    \* orders table: status, owner and cash of each row
          orderOf,   \* the order a request works on
          pc,        \* the await each request is at
          row,       \* settlementStatus of the ownership_transaction of a request
          newest,    \* request whose ownership_transaction is the newest of an envelope
          books,     \* rows of the transactions table
          chain,     \* what the network made of each envelope
          cancelling \* the order each cancel call has loaded and will save

purchaseVars == <<orders, orderOf, pc, row, newest, books, chain, cancelling>>
vars == <<ledgerVars, purchaseVars>>

Statuses == {"DRAFT", "PENDING_SIGNATURE", "SUBMITTED", "SETTLING",
             "COMPLETED", "FAILED", "CANCELLED"}

Final == {"COMPLETED", "FAILED", "CANCELLED"}

Absent == [status |-> "ABSENT", buyer |-> NoOne, cash |-> 0]

Init ==
    /\ LedgerInit
    /\ orders = [o \in Orders |-> Absent]
    /\ orderOf = [r \in Requests |-> NoOrder]
    /\ pc = [r \in Requests |-> "idle"]
    /\ row = [r \in Requests |-> "none"]
    /\ newest = [x \in Envelopes |-> NoOne]
    /\ books = {}
    /\ chain = [x \in Envelopes |-> "unsent"]
    /\ cancelling = [c \in Cancels |-> NoOrder]

-----------------------------------------------------------------------------
(* The order handlers: what each does with the order it has loaded.         *)

Target == [submit   |-> "SUBMITTED", settle |-> "SETTLING", complete |-> "COMPLETED",
           fail     |-> "FAILED",    cancel |-> "CANCELLED"]

Saving == [submit   |-> "submitSave",   settle |-> "settleSave",
           complete |-> "completeSave", fail   |-> "failSave"]

\* Mutant: a settling order is not ready to be completed.
Enters_SubmittedOnly(h, o) ==
    CASE h = "submit"   -> o.status \in {"DRAFT", "PENDING_SIGNATURE"}
      [] h = "settle"   -> o.status \in {"SUBMITTED", "PENDING_SIGNATURE"}
      [] h = "complete" -> o.status = "SUBMITTED" /\ o.cash = 0
      [] h = "fail"     -> o.status \in Statuses \ Final
      [] h = "cancel"   -> o.status \in {"DRAFT", "PENDING_SIGNATURE", "SUBMITTED"}

\* The orders for which a handler goes on to save its target.  A funded buy
\* order is completed only with the id of its transaction, and createTransaction
\* returns a serialised response that has no id.
Enters(h, o) ==
    CASE h = "submit"   -> o.status \in {"DRAFT", "PENDING_SIGNATURE"}
      [] h = "settle"   -> o.status \in {"SUBMITTED", "PENDING_SIGNATURE"}
      [] h = "complete" -> o.status \in {"SUBMITTED", "SETTLING"} /\ o.cash = 0
      [] h = "fail"     -> o.status \in Statuses \ Final
      [] h = "cancel"   -> o.status \in {"DRAFT", "PENDING_SIGNATURE", "SUBMITTED"}

Goto(r, l) == pc' = [pc EXCEPT ![r] = l]

Self(r) == call[r].flow = "self"

\* The awaits that submitBuyTransaction makes inside its try block.
Guarded == {"send", "poll", "settle", "ledger", "complete"}

\* Where an exception thrown at its current step takes a request.
Thrown(r) == IF Self(r) /\ pc[r] \in Guarded THEN "failRow" ELSE "rejected"

\* getOwnedOrder and the status checks of handler h; a handler that finds its
\* target already reached returns at once.  (No request ever has a transaction
\* hash to compare: the contract service reads `hash` where the response of the
\* network has `txHash`.)
Load(r, h, next) ==
    /\ pc[r] = h
    /\ LET o == orders[orderOf[r]] IN
       \/ o.buyer = call[r].buyer /\ Enters(h, o) /\ Goto(r, Saving[h])
       \/ o.buyer = call[r].buyer /\ o.status = Target[h] /\ Goto(r, next)
       \/ /\ o.buyer = call[r].buyer => ~Enters(h, o) /\ o.status # Target[h]
          /\ Goto(r, Thrown(r))
    /\ UNCHANGED <<ledgerVars, orders, orderOf, row, newest, books, chain, cancelling>>

\* orderRepo.save of the entity that handler h has loaded.
Save(r, h, next) ==
    /\ pc[r] = Saving[h]
    /\ orders' = [orders EXCEPT ![orderOf[r]].status = Target[h]]
    /\ Goto(r, next)
    /\ UNCHANGED <<ledgerVars, orderOf, row, newest, books, chain, cancelling>>

-----------------------------------------------------------------------------
(* Clients.                                                                 *)

\* createPendingSignatureOrder
NewOrder(o, c) ==
    /\ orders[o] = Absent
    /\ orders' = [orders EXCEPT
         ![o] = [status |-> "PENDING_SIGNATURE", buyer |-> c.buyer, cash |-> c.cash]]

\* buildBuyTransaction: the order comes before the signature.
BuildBuy(o) ==
    /\ \E c \in Calls : c.order = o /\ NewOrder(o, c)
    /\ UNCHANGED <<ledgerVars, orderOf, pc, row, newest, books, chain, cancelling>>

\* The request has passed the eligibility, project and input checks.
Begin(r) ==
    /\ pc[r] = "idle"
    /\ orderOf' = [orderOf EXCEPT ![r] = call[r].order]
    /\ Goto(r, IF call[r].order = NoOrder THEN "create" ELSE "submit")
    /\ UNCHANGED <<ledgerVars, orders, row, newest, books, chain, cancelling>>

Create(r) ==
    /\ pc[r] = "create"
    /\ \E o \in Orders : NewOrder(o, call[r]) /\ orderOf' = [orderOf EXCEPT ![r] = o]
    /\ Goto(r, "submit")
    /\ UNCHANGED <<ledgerVars, row, newest, books, chain, cancelling>>

\* cancelOrder, which an owner may call at any time.
CancelLoad(c) ==
    /\ cancelling[c] = NoOrder
    /\ \E o \in Orders : Enters("cancel", orders[o]) /\ cancelling' = [cancelling EXCEPT ![c] = o]
    /\ UNCHANGED <<ledgerVars, orders, orderOf, pc, row, newest, books, chain>>

CancelSave(c) ==
    /\ cancelling[c] # NoOrder
    /\ orders' = [orders EXCEPT ![cancelling[c]].status = Target["cancel"]]
    /\ cancelling' = [cancelling EXCEPT ![c] = NoOrder]
    /\ UNCHANGED <<ledgerVars, orderOf, pc, row, newest, books, chain>>

-----------------------------------------------------------------------------
(* The steps both flows make.                                               *)

Submit(r) ==
    LET next == IF Self(r) THEN "dedupe" ELSE "record"
    IN  Load(r, "submit", next) \/ Save(r, "submit", next)

Settle(r) == Load(r, "settle", "ledger") \/ Save(r, "settle", "ledger")

\* Mutant: every flow records its ownership_transaction as settled.
Record_Settled(r) ==
    /\ pc[r] = "record"
    /\ row' = [row EXCEPT ![r] = "SETTLED"]
    /\ newest' = IF Self(r) THEN [newest EXCEPT ![call[r].xdr] = r] ELSE newest
    /\ Goto(r, IF Self(r) THEN "send" ELSE "settle")
    /\ UNCHANGED <<ledgerVars, orders, orderOf, books, chain, cancelling>>

\* The custody flow records its ownership_transaction as settled from the start.
Record(r) ==
    /\ pc[r] = "record"
    /\ row' = [row EXCEPT ![r] = IF Self(r) THEN "SUBMITTED" ELSE "SETTLED"]
    /\ newest' = IF Self(r) THEN [newest EXCEPT ![call[r].xdr] = r] ELSE newest
    /\ Goto(r, IF Self(r) THEN "send" ELSE "settle")
    /\ UNCHANGED <<ledgerVars, orders, orderOf, books, chain, cancelling>>

\* Mutant: a refused transfer is logged and the purchase goes on.
Ledger_Swallowed(r) ==
    /\ pc[r] = "ledger"
    /\ Transfer(r) \/ Refuse(r)
    /\ Goto(r, "book")
    /\ UNCHANGED <<orders, orderOf, row, newest, books, chain, cancelling>>

\* applyLedgerTransferTransactional
Ledger(r) ==
    /\ pc[r] = "ledger"
    /\ \/ Transfer(r) /\ Goto(r, "book")
       \/ Refuse(r) /\ Goto(r, Thrown(r))
    /\ UNCHANGED <<orders, orderOf, row, newest, books, chain, cancelling>>

Entry(r, type, from) == [request |-> r, type |-> type, from |-> from]

\* The completed BUY transaction of a funded purchase.  Its reference is that of
\* the request's own new order, or null: createTransaction finds no duplicate.
Book(r) ==
    /\ pc[r] = "book"
    /\ books' = IF call[r].cash > 0 THEN books \cup {Entry(r, "BUY", "purchase")} ELSE books
    /\ Goto(r, "fee")
    /\ UNCHANGED <<ledgerVars, orders, orderOf, row, newest, chain, cancelling>>

Fee(r) ==
    /\ pc[r] = "fee"
    /\ books' = IF call[r].fee > 0 THEN books \cup {Entry(r, "FEE", "purchase")} ELSE books
    /\ Goto(r, IF Self(r) THEN "settleRow" ELSE "complete")
    /\ UNCHANGED <<ledgerVars, orders, orderOf, row, newest, chain, cancelling>>

Complete(r) == Load(r, "complete", "done") \/ Save(r, "complete", "done")

-----------------------------------------------------------------------------
(* The steps of submitBuyTransaction alone.                                 *)

\* The newest row of the envelope decides whether it was already submitted.
Dedupe(r) ==
    /\ pc[r] = "dedupe"
    /\ LET n == newest[call[r].xdr] IN
       Goto(r, IF n # NoOne /\ row[n] \in {"SUBMITTED", "SETTLED"} THEN "rejected" ELSE "record")
    /\ UNCHANGED <<ledgerVars, orders, orderOf, row, newest, books, chain, cancelling>>

\* Mutant: DUPLICATE is as good as PENDING.
Send_Duplicate(r) ==
    /\ pc[r] = "send"
    /\ LET x == call[r].xdr IN
       \/ /\ chain[x] \in {"unsent", "pending"}
          /\ chain' = [chain EXCEPT ![x] = "pending"]
          /\ Goto(r, "poll") \/ Goto(r, Thrown(r))
       \/ /\ UNCHANGED chain
          /\ Goto(r, Thrown(r))
    /\ UNCHANGED <<ledgerVars, orders, orderOf, row, newest, books, cancelling>>

\* sendTransaction: only PENDING is accepted, which the network answers to the
\* first arrival of an envelope; the request or its answer can also be lost.
Send(r) ==
    /\ pc[r] = "send"
    /\ LET x == call[r].xdr IN
       \/ /\ chain[x] = "unsent"
          /\ chain' = [chain EXCEPT ![x] = "pending"]
          /\ Goto(r, "poll") \/ Goto(r, Thrown(r))
       \/ /\ UNCHANGED chain
          /\ Goto(r, Thrown(r))
    /\ UNCHANGED <<ledgerVars, orders, orderOf, row, newest, books, cancelling>>

\* Mutant: only FAILED is a failure, NOT_FOUND is not.
Poll_Optimistic(r) ==
    /\ pc[r] = "poll"
    /\ Goto(r, IF chain[call[r].xdr] = "failed" THEN Thrown(r) ELSE "contractBook")
    /\ UNCHANGED <<ledgerVars, orders, orderOf, row, newest, books, chain, cancelling>>

\* Mutant: polling has no bound on its attempts.
Poll_Unbounded(r) ==
    /\ pc[r] = "poll"
    /\ chain[call[r].xdr] # "pending"
    /\ Goto(r, IF chain[call[r].xdr] = "applied" THEN "contractBook" ELSE Thrown(r))
    /\ UNCHANGED <<ledgerVars, orders, orderOf, row, newest, books, chain, cancelling>>

\* pollTransaction: 15 attempts, then NOT_FOUND counts as a failure.
Poll(r) ==
    /\ pc[r] = "poll"
    /\ Goto(r, IF chain[call[r].xdr] = "applied" THEN "contractBook" ELSE Thrown(r))
    /\ UNCHANGED <<ledgerVars, orders, orderOf, row, newest, books, chain, cancelling>>

\* submitTransferTransaction books the purchase at the project's token price.
ContractBook(r) ==
    /\ pc[r] = "contractBook"
    /\ books' = books \cup {Entry(r, "BUY", "contract")}
    /\ Goto(r, "settle")
    /\ UNCHANGED <<ledgerVars, orders, orderOf, row, newest, chain, cancelling>>

SettleRow(r) ==
    /\ pc[r] = "settleRow"
    /\ row' = [row EXCEPT ![r] = "SETTLED"]
    /\ Goto(r, "complete")
    /\ UNCHANGED <<ledgerVars, orders, orderOf, newest, books, chain, cancelling>>

\* The catch block: the row, then the order; markFailed may throw in its turn.
FailRow(r) ==
    /\ pc[r] = "failRow"
    /\ row' = [row EXCEPT ![r] = "FAILED"]
    /\ Goto(r, "fail")
    /\ UNCHANGED <<ledgerVars, orders, orderOf, newest, books, chain, cancelling>>

Fail(r) == Load(r, "fail", "rejected") \/ Save(r, "fail", "rejected")

\* The network applies or rejects what it has accepted, in its own time.
Close(x) ==
    /\ chain[x] = "pending"
    /\ chain' \in {[chain EXCEPT ![x] = "applied"], [chain EXCEPT ![x] = "failed"]}
    /\ UNCHANGED <<ledgerVars, orders, orderOf, pc, row, newest, books, cancelling>>

-----------------------------------------------------------------------------
Step(r) ==
    \/ Create(r) \/ Submit(r) \/ Dedupe(r) \/ Record(r) \/ Send(r) \/ Poll(r)
    \/ ContractBook(r) \/ Settle(r) \/ Ledger(r) \/ Book(r) \/ Fee(r)
    \/ SettleRow(r) \/ Complete(r) \/ FailRow(r) \/ Fail(r)

Next ==
    \/ \E r \in Requests : Begin(r) \/ Step(r)
    \/ \E o \in Orders : BuildBuy(o)
    \/ \E c \in Cancels : CancelLoad(c) \/ CancelSave(c)
    \/ \E x \in Envelopes : Close(x)

Spec == Init /\ [][Next]_vars

\* The event loop drives every request on until it answers.
FairSpec == Spec /\ \A r \in Requests : WF_vars(Step(r))

-----------------------------------------------------------------------------
Places == {"idle", "create", "submit", "submitSave", "dedupe", "record", "send", "poll",
           "contractBook", "settle", "settleSave", "ledger", "book", "fee", "settleRow",
           "complete", "completeSave", "failRow", "fail", "failSave", "done", "rejected"}

TypeOK ==
    /\ LedgerTypeOK
    /\ orders \in [Orders -> [status : Statuses \cup {"ABSENT"},
                              buyer : Buyers \cup {NoOne}, cash : Nat]]
    /\ orderOf \in [Requests -> Orders \cup {NoOrder}]
    /\ pc \in [Requests -> Places]
    /\ row \in [Requests -> {"none", "SUBMITTED", "SETTLED", "FAILED"}]
    /\ newest \in [Envelopes -> Requests \cup {NoOne}]
    /\ books \subseteq [request : Requests, type : {"BUY", "FEE"}, from : {"contract", "purchase"}]
    /\ chain \in [Envelopes -> {"unsent", "pending", "applied", "failed"}]
    /\ cancelling \in [Cancels -> Orders \cup {NoOrder}]

Moved(r) == outcome[r] = "moved"

\* An order reads COMPLETED only if some request has moved tokens for it,
\* whatever stale saves overwrite one another.
CompletedMeansMoved == \A o \in Orders :
    orders[o].status = "COMPLETED" => \E r \in Requests : orderOf[r] = o /\ Moved(r)

\* Off-chain ownership never runs ahead of the chain: a self-custody purchase
\* moves the ledger only for a transaction that the network has applied.
OwnershipFollowsChain == \A r \in Requests :
    Self(r) /\ Moved(r) => chain[call[r].xdr] = "applied"

\* However often a signed envelope is submitted, concurrently or again after a
\* failure, it moves ownership at most once.
OneMovePerEnvelope == \A r, s \in Requests :
    Self(r) /\ Self(s) /\ call[r].xdr = call[s].xdr /\ Moved(r) /\ Moved(s) => r = s

\* Nothing is booked for a purchase that did not happen: a request's own BUY and
\* FEE rows follow its ledger move, the contract service's row the chain.
BooksFollowSettlement == \A e \in books :
    IF e.from = "contract" THEN chain[call[e.request].xdr] = "applied" ELSE Moved(e.request)

\* A self-custody ownership_transaction that reads SETTLED has moved the ledger
\* and has its purchase booked.
SettledRowIsBacked == \A r \in Requests : Self(r) /\ row[r] = "SETTLED" =>
    /\ Moved(r)
    /\ Entry(r, "BUY", "contract") \in books
    /\ call[r].cash > 0 => Entry(r, "BUY", "purchase") \in books

\* Every request that begins is answered.
RequestsEnd == \A r \in Requests : pc[r] # "idle" ~> pc[r] \in {"done", "rejected"}

\* A purchase that has moved tokens ends with its order COMPLETED.  This is for
\* instances without cancel calls and shared orders.
MovedCompletes == \A r \in Requests :
    Moved(r) ~> \E o \in Orders : orderOf[r] = o /\ orders[o].status = "COMPLETED"

-----------------------------------------------------------------------------
(* What the tests and documents of the code say, and the code does not do.  *)

\* On-chain activity and off-chain ownership records remain aligned: what the
\* network applies is in the end moved in the ledger.
AppliedMovesOwnership == \A x \in Envelopes :
    chain[x] = "applied" ~> \E r \in Requests : Self(r) /\ call[r].xdr = x /\ Moved(r)
=============================================================================
