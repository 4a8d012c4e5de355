------------------------ MODULE LedgerTransferProofs -------------------------
(***************************************************************************)
(* The interleaved database transactions of LedgerTransfer are safe and    *)
(* implement the abstract OwnershipLedger, for every set of requests and   *)
(* buyers, every supply and every amount.                                  *)
(***************************************************************************)
EXTENDS LedgerTransfer, TLAPS

\* Between its lock on the seller row and its end, a transaction owns that lock.
Inside == {"debitSeller", "readBuyer", "commit"}

SellerLockHeld == \A r \in Requests : pc[r] \in Inside => sellerLock = r

\* What a transaction has read of the seller row is still what is committed.
SellerDraftFresh == \A r \in Requests :
    /\ pc[r] = "debitSeller" => draft[r].seller = sellerRow.amount
    /\ pc[r] \in {"readBuyer", "commit"} =>
         /\ draft[r].seller = sellerRow.amount - call[r].amount
         /\ draft[r].seller >= 0

\* So is what it has read of the buyer row, its absence included.
BuyerDraftFresh == \A r \in Requests : pc[r] = "commit" =>
    \/ /\ draft[r].row \in Rows(call[r].buyer)
       /\ draft[r].credit = buyerRow[draft[r].row]
    \/ /\ Rows(call[r].buyer) = {}
       /\ draft[r].row = r
       /\ draft[r].credit = 0

InactiveIffSoldOut == sellerRow.status = "inactive" <=> sellerRow.amount = 0

IInv ==
    /\ TypeOK
    /\ SellerLockHeld
    /\ SellerDraftFresh
    /\ BuyerDraftFresh
    /\ OneRowPerBuyer
    /\ InactiveIffSoldOut

-----------------------------------------------------------------------------
\* The row that a transaction writes is the only row of its buyer.
LEMMA WrittenRow ==
    ASSUME IInv, NEW r \in Requests, pc[r] = "commit"
    PROVE  /\ draft[r].row \in Requests
           /\ call[draft[r].row].buyer = call[r].buyer
           /\ Rows(call[r].buyer) \subseteq {draft[r].row}
           /\ draft[r].credit = buyerRow[draft[r].row]
<1>1. call[r].buyer \in Buyers
  BY TransferAssumption DEF IInv, TypeOK
<1>2. CASE /\ draft[r].row \in Rows(call[r].buyer)
           /\ draft[r].credit = buyerRow[draft[r].row]
  BY <1>1, <1>2 DEF IInv, OneRowPerBuyer, Rows
<1>3. CASE /\ Rows(call[r].buyer) = {}
           /\ draft[r].row = r
           /\ draft[r].credit = 0
  <2>1. buyerRow[r] \in Nat /\ ~(buyerRow[r] > 0)
    BY <1>3 DEF IInv, TypeOK, Rows
  <2>2. buyerRow[r] = 0
    BY <2>1
  <2> QED  BY <1>3, <2>2
<1> QED  BY <1>2, <1>3 DEF IInv, BuyerDraftFresh

\* After the commit its buyer has exactly that row, and every other buyer the
\* rows it had.
LEMMA CommittedRows ==
    ASSUME IInv, NEW r \in Requests, Commit(r)
    PROVE  /\ \A b \in Buyers : Rows(b)' = IF b = call[r].buyer THEN {draft[r].row} ELSE Rows(b)
           /\ \A q \in Requests \ {draft[r].row} : buyerRow'[q] = buyerRow[q]
           /\ buyerRow'[draft[r].row] = draft[r].credit + call[r].amount
           /\ call' = call
<1>1. /\ draft[r].row \in Requests
      /\ call[draft[r].row].buyer = call[r].buyer
      /\ Rows(call[r].buyer) \subseteq {draft[r].row}
  BY WrittenRow DEF Commit
<1>2. /\ buyerRow' = [buyerRow EXCEPT ![draft[r].row] = draft[r].credit + call[r].amount]
      /\ call' = call
  BY DEF Commit
<1>3. /\ buyerRow \in [Requests -> Nat]
      /\ draft[r].credit \in Nat
      /\ call[r].amount \in Nat \ {0}
  BY TransferAssumption DEF IInv, TypeOK, Draft
<1>4. draft[r].credit + call[r].amount > 0
  BY <1>3
<1>5. /\ \A q \in Requests \ {draft[r].row} : buyerRow'[q] = buyerRow[q]
      /\ buyerRow'[draft[r].row] = draft[r].credit + call[r].amount
  BY <1>1, <1>2, <1>3
<1>6. \A b \in Buyers : b = call[r].buyer => Rows(b)' = {draft[r].row}
  BY <1>1, <1>2, <1>4, <1>5 DEF Rows
<1>7. \A b \in Buyers \ {call[r].buyer} : Rows(b)' = Rows(b)
  BY <1>1, <1>2, <1>5 DEF Rows
<1> QED  BY <1>2, <1>5, <1>6, <1>7

-----------------------------------------------------------------------------
LEMMA InitIInv == Init => IInv
  BY TransferAssumption
  DEF Init, IInv, TypeOK, SellerLockHeld, SellerDraftFresh, BuyerDraftFresh,
      OneRowPerBuyer, InactiveIffSoldOut, Rows, Draft, Places, Inside

\* A rollback gives back the locks of one transaction and changes no row.
LEMMA RollbackIInv ==
    ASSUME IInv, NEW r \in Requests, Rollback(r)
    PROVE  IInv'
<1> USE DEF IInv, Rollback, Goto
<1>1. TypeOK'
  BY DEF TypeOK, ReleaseLocks, Places
<1>2. SellerLockHeld'
  <2> SUFFICES ASSUME NEW s \in Requests, pc'[s] \in Inside
               PROVE  sellerLock' = s
    BY DEF SellerLockHeld
  <2>1. s # r
    BY DEF TypeOK, Inside
  <2> QED  BY <2>1, TransferAssumption DEF TypeOK, SellerLockHeld, ReleaseLocks
<1>3. SellerDraftFresh'
  BY DEF TypeOK, SellerDraftFresh
<1>4. BuyerDraftFresh'
  BY DEF TypeOK, BuyerDraftFresh, Rows
<1>5. OneRowPerBuyer' /\ InactiveIffSoldOut'
  BY DEF OneRowPerBuyer, InactiveIffSoldOut, Rows
<1> QED  BY <1>1, <1>2, <1>3, <1>4, <1>5

LEMMA CommitIInv ==
    ASSUME IInv, NEW r \in Requests, Commit(r)
    PROVE  IInv'
<1>1. /\ draft[r].row \in Requests
      /\ \A b \in Buyers : Rows(b)' = IF b = call[r].buyer THEN {draft[r].row} ELSE Rows(b)
  BY WrittenRow, CommittedRows DEF Commit
<1>2. /\ draft[r].seller \in Nat
      /\ draft[r].credit + call[r].amount \in Nat
      /\ sellerLock = r
      /\ pc' = [pc EXCEPT ![r] = "moved"]
      /\ call' = call /\ draft' = draft
  BY TransferAssumption
  DEF IInv, TypeOK, Draft, SellerDraftFresh, SellerLockHeld, Inside, Commit, Goto
<1>3. \A s \in Requests : pc'[s] \notin Inside
  BY <1>2 DEF IInv, TypeOK, SellerLockHeld, Inside
<1>4. TypeOK'
  <2>1. sellerRow' \in [amount : Nat, status : {"active", "inactive"}]
    BY <1>2 DEF Commit, SoldRow
  <2>2. buyerRow' \in [Requests -> Nat]
    BY <1>1, <1>2 DEF IInv, TypeOK, Commit
  <2>3. /\ sellerLock' \in Requests \cup {NoOne}
        /\ buyerLock' \in [Requests -> Requests \cup {NoOne}]
    BY DEF IInv, TypeOK, Commit, ReleaseLocks
  <2>4. pc' \in [Requests -> Places]
    BY <1>2 DEF IInv, TypeOK, Places
  <2> QED  BY <1>2, <2>1, <2>2, <2>3, <2>4 DEF IInv, TypeOK
<1>5. SellerLockHeld' /\ SellerDraftFresh' /\ BuyerDraftFresh'
  BY <1>3 DEF SellerLockHeld, SellerDraftFresh, BuyerDraftFresh, Inside
<1>6. OneRowPerBuyer'
  BY <1>1 DEF IInv, OneRowPerBuyer
<1>7. InactiveIffSoldOut'
  BY <1>2 DEF InactiveIffSoldOut, Commit, SoldRow
<1> QED  BY <1>4, <1>5, <1>6, <1>7 DEF IInv

LEMMA NextIInv == IInv /\ [Next]_vars => IInv'
<1> SUFFICES ASSUME IInv, [Next]_vars  PROVE IInv'
  OBVIOUS
<1>1. CASE UNCHANGED vars
  BY <1>1 DEF IInv, vars, TypeOK, SellerLockHeld, SellerDraftFresh, BuyerDraftFresh,
              OneRowPerBuyer, InactiveIffSoldOut, Rows
<1>2. ASSUME NEW r \in Requests, Begin(r) \/ Step(r) \/ Abort(r)
      PROVE  IInv'
  <2> USE DEF IInv
  <2>0. call[r].amount \in Nat \ {0} /\ call[r].buyer \in Buyers
    BY TransferAssumption DEF TypeOK
  <2>1. CASE Begin(r)
    BY <2>1 DEF Begin, Goto, TypeOK, SellerLockHeld, SellerDraftFresh, BuyerDraftFresh,
                OneRowPerBuyer, InactiveIffSoldOut, Rows, Places, Inside
  <2>2. CASE ReadSeller(r)
    <3> USE <2>2 DEF ReadSeller, Goto
    <3>1. TypeOK'
      BY DEF TypeOK, Draft, Places
    <3>2. \A s \in Requests \ {r} : pc'[s] = pc[s] /\ pc[s] \notin Inside /\ draft'[s] = draft[s]
      BY TransferAssumption DEF TypeOK, SellerLockHeld
    <3>3. pc'[r] = "debitSeller" /\ draft'[r].seller = sellerRow.amount
      BY DEF TypeOK, Draft
    <3>4. SellerLockHeld' /\ SellerDraftFresh' /\ BuyerDraftFresh'
      BY <3>2, <3>3 DEF SellerLockHeld, SellerDraftFresh, BuyerDraftFresh, Inside
    <3>5. OneRowPerBuyer' /\ InactiveIffSoldOut'
      BY DEF OneRowPerBuyer, InactiveIffSoldOut, Rows
    <3> QED  BY <3>1, <3>4, <3>5
  <2>3. CASE SellerGone(r) \/ Insufficient(r) \/ Abort(r)
    BY <2>3, RollbackIInv DEF SellerGone, Insufficient, Abort
  <2>4. CASE DebitSeller(r)
    <3> USE <2>4 DEF DebitSeller, Goto
    <3>1. TypeOK'
      BY <2>0 DEF TypeOK, Draft, Places
    <3>2. \A s \in Requests \ {r} : pc'[s] = pc[s] /\ draft'[s] = draft[s]
      BY DEF TypeOK
    <3>3. /\ pc'[r] = "readBuyer"
          /\ draft'[r].seller = sellerRow.amount - call[r].amount
          /\ draft'[r].seller >= 0
      BY <2>0 DEF TypeOK, Draft, SellerDraftFresh
    <3>4. SellerLockHeld' /\ SellerDraftFresh' /\ BuyerDraftFresh'
      BY <3>2, <3>3 DEF SellerLockHeld, SellerDraftFresh, BuyerDraftFresh, Inside, Rows
    <3>5. OneRowPerBuyer' /\ InactiveIffSoldOut'
      BY DEF OneRowPerBuyer, InactiveIffSoldOut, Rows
    <3> QED  BY <3>1, <3>4, <3>5
  <2>5. CASE FindBuyer(r)
    <3>1. PICK q \in Rows(call[r].buyer) :
            /\ buyerLock' = [buyerLock EXCEPT ![q] = r]
            /\ DraftCredit(r, q, buyerRow[q])
      BY <2>5 DEF FindBuyer
    <3> USE <2>5 DEF FindBuyer, DraftCredit, Goto
    <3>2. q \in Requests /\ buyerRow[q] \in Nat
      BY <3>1 DEF Rows, TypeOK
    <3>3. TypeOK'
      <4>1. draft' \in [Requests -> Draft]
        BY <3>1, <3>2 DEF TypeOK, Draft
      <4>2. /\ buyerLock' \in [Requests -> Requests \cup {NoOne}]
            /\ pc' \in [Requests -> Places]
        BY <3>1, <3>2 DEF TypeOK, Places
      <4> QED  BY <4>1, <4>2 DEF TypeOK
    <3>4. \A s \in Requests \ {r} : pc'[s] = pc[s] /\ draft'[s] = draft[s]
      BY <3>1 DEF TypeOK
    <3>5. /\ pc[r] = "readBuyer" /\ pc'[r] = "commit"
          /\ draft'[r].row = q /\ draft'[r].credit = buyerRow[q]
          /\ draft'[r].seller = draft[r].seller
      BY <3>1 DEF TypeOK, Draft
    <3>6. SellerLockHeld' /\ SellerDraftFresh'
      BY <3>4, <3>5 DEF SellerLockHeld, SellerDraftFresh, Inside
    <3>7. BuyerDraftFresh'
      <4> SUFFICES ASSUME NEW s \in Requests, pc'[s] = "commit"
                   PROVE  (\/ /\ draft[s].row \in Rows(call[s].buyer)
                              /\ draft[s].credit = buyerRow[draft[s].row]
                           \/ /\ Rows(call[s].buyer) = {}
                              /\ draft[s].row = s
                              /\ draft[s].credit = 0)'
        BY DEF BuyerDraftFresh
      <4>1. CASE s = r
        BY <3>1, <3>2, <3>5, <4>1 DEF Rows
      <4>2. CASE s # r
        BY <3>1, <3>4, <4>2 DEF BuyerDraftFresh, Rows
      <4> QED  BY <4>1, <4>2
    <3>8. OneRowPerBuyer' /\ InactiveIffSoldOut'
      BY DEF OneRowPerBuyer, InactiveIffSoldOut, Rows
    <3> QED  BY <3>3, <3>6, <3>7, <3>8
  <2>6. CASE NewBuyer(r)
    <3> USE <2>6 DEF NewBuyer, DraftCredit, Goto
    <3>1. TypeOK'
      BY DEF TypeOK, Draft, Places
    <3>2. \A s \in Requests \ {r} : pc'[s] = pc[s] /\ draft'[s] = draft[s]
      BY DEF TypeOK
    <3>3. /\ pc[r] = "readBuyer" /\ pc'[r] = "commit"
          /\ draft'[r].row = r /\ draft'[r].credit = 0
          /\ draft'[r].seller = draft[r].seller
      BY DEF TypeOK, Draft
    <3>4. SellerLockHeld' /\ SellerDraftFresh'
      BY <3>2, <3>3 DEF SellerLockHeld, SellerDraftFresh, Inside
    <3>5. BuyerDraftFresh'
      <4> SUFFICES ASSUME NEW s \in Requests, pc'[s] = "commit"
                   PROVE  (\/ /\ draft[s].row \in Rows(call[s].buyer)
                              /\ draft[s].credit = buyerRow[draft[s].row]
                           \/ /\ Rows(call[s].buyer) = {}
                              /\ draft[s].row = s
                              /\ draft[s].credit = 0)'
        BY DEF BuyerDraftFresh
      <4>1. CASE s = r
        BY <3>3, <4>1 DEF Rows
      <4>2. CASE s # r
        BY <3>2, <4>2 DEF BuyerDraftFresh, Rows
      <4> QED  BY <4>1, <4>2
    <3>6. OneRowPerBuyer' /\ InactiveIffSoldOut'
      BY DEF OneRowPerBuyer, InactiveIffSoldOut, Rows
    <3> QED  BY <3>1, <3>4, <3>5, <3>6
  <2>7. CASE Commit(r)
    BY <2>7, CommitIInv
  <2> QED  BY <1>2, <2>1, <2>2, <2>3, <2>4, <2>5, <2>6, <2>7 DEF Step
<1> QED  BY <1>1, <1>2 DEF Next

\* Whoever is inside the ledger transaction holds the lock, and its draft is current.
THEOREM Invariance == Spec => []IInv
  BY InitIInv, NextIInv, PTL DEF Spec

\* Row amounts never go negative, and every variable keeps its type.
THEOREM TypeCorrect == Spec => []TypeOK
<1>1. IInv => TypeOK
  BY DEF IInv
<1> QED  BY <1>1, Invariance, PTL

\* However first purchases of one buyer interleave, it has one position row.
THEOREM SingleRow == Spec => []OneRowPerBuyer
<1>1. IInv => OneRowPerBuyer
  BY DEF IInv
<1> QED  BY <1>1, Invariance, PTL

\* A purchase is told 'Seller not found' only when nothing is left.
THEOREM SellerNotFound == Spec => NotFoundOnlyWhenSoldOut
<1>1. IInv /\ [Next]_vars =>
        [\A r \in Requests : pc[r] = "readSeller" /\ pc'[r] = "refused"
           => sellerRow.amount = 0]_vars
  <2> SUFFICES ASSUME IInv, NEW s \in Requests, Begin(s) \/ Step(s) \/ Abort(s),
                      NEW r \in Requests, pc[r] = "readSeller", pc'[r] = "refused"
               PROVE  sellerRow.amount = 0
    BY DEF Next
  <2>1. CASE SellerGone(s)
    BY <2>1 DEF SellerGone, IInv, InactiveIffSoldOut
  <2>2. CASE ~SellerGone(s)
    BY <2>2 DEF IInv, TypeOK, Step, Begin, ReadSeller, Insufficient, DebitSeller, FindBuyer,
                NewBuyer, Commit, Abort, Rollback, Goto
  <2> QED  BY <2>1, <2>2
<1> QED  BY <1>1, Invariance, PTL DEF Spec, NotFoundOnlyWhenSoldOut

-----------------------------------------------------------------------------
LEMMA InitLedger == Init => Ledger!LedgerInit
<1> SUFFICES ASSUME Init  PROVE Ledger!LedgerInit
  OBVIOUS
<1>1. \A b \in Buyers : Rows(b) = {}
  BY DEF Init, Rows
<1>2. holdingOf = [b \in Buyers |-> 0]
  BY <1>1 DEF holdingOf
<1>3. outcomeOf = [r \in Requests |-> "open"]
  BY DEF Init, outcomeOf
<1> QED  BY <1>2, <1>3 DEF Init, Ledger!LedgerInit

LEMMA CommitTransfers ==
    ASSUME IInv, NEW r \in Requests, Commit(r)
    PROVE  Ledger!Transfer(r)
<1>1. /\ draft[r].row \in Requests
      /\ Rows(call[r].buyer) \subseteq {draft[r].row}
      /\ draft[r].credit = buyerRow[draft[r].row]
  BY WrittenRow DEF Commit
<1>2. /\ \A b \in Buyers : Rows(b)' = IF b = call[r].buyer THEN {draft[r].row} ELSE Rows(b)
      /\ \A q \in Requests \ {draft[r].row} : buyerRow'[q] = buyerRow[q]
      /\ buyerRow'[draft[r].row] = draft[r].credit + call[r].amount
      /\ call' = call
  BY CommittedRows
<1>3. /\ call[r].buyer \in Buyers /\ call[r].amount \in Nat
      /\ sellerRow.amount \in Nat
      /\ draft[r].seller = sellerRow.amount - call[r].amount
      /\ draft[r].seller >= 0
      /\ sellerRow'.amount = draft[r].seller
  BY TransferAssumption DEF IInv, TypeOK, SellerDraftFresh, Commit, SoldRow
<1>4. outcomeOf[r] = "open" /\ outcomeOf' = [outcomeOf EXCEPT ![r] = "moved"]
  BY DEF IInv, TypeOK, Commit, Goto, outcomeOf
<1>5. holdingOf' = [holdingOf EXCEPT ![call[r].buyer] = @ + call[r].amount]
  <2>1. holdingOf'[call[r].buyer] = holdingOf[call[r].buyer] + call[r].amount
    <3>1. holdingOf'[call[r].buyer] = buyerRow'[draft[r].row]
      BY <1>2, <1>3 DEF holdingOf
    <3>2. CASE Rows(call[r].buyer) = {}
      <4>1. draft[r].credit = 0
        BY <3>2 DEF IInv, BuyerDraftFresh, Commit
      <4> QED  BY <1>2, <1>3, <3>1, <3>2, <4>1 DEF holdingOf
    <3>3. CASE Rows(call[r].buyer) = {draft[r].row}
      BY <1>1, <1>2, <1>3, <3>1, <3>3 DEF holdingOf
    <3> QED  BY <1>1, <3>2, <3>3
  <2>2. ASSUME NEW b \in Buyers \ {call[r].buyer}
        PROVE  holdingOf'[b] = holdingOf[b]
    <3>1. Rows(b)' = Rows(b)
      BY <1>2, <2>2
    <3>2. CASE Rows(b) = {}
      BY <3>1, <3>2 DEF holdingOf
    <3>3. CASE Rows(b) # {}
      <4> DEFINE q == CHOOSE q \in Rows(b) : TRUE
      <4>1. q \in Rows(b)
        BY <3>3
      <4>2. q # draft[r].row
        BY <4>1, <1>1, WrittenRow DEF Rows, Commit
      <4>3. buyerRow'[q] = buyerRow[q]
        BY <1>2, <4>1, <4>2 DEF Rows
      <4> HIDE DEF q
      <4>4. holdingOf[b] = buyerRow[q] /\ holdingOf'[b] = buyerRow'[q]
        BY <3>1, <3>3 DEF holdingOf, q
      <4> QED  BY <4>3, <4>4
    <3> QED  BY <3>2, <3>3
  <2>3. DOMAIN holdingOf = Buyers /\ DOMAIN holdingOf' = Buyers
    BY DEF holdingOf
  <2>4. \A b \in Buyers : holdingOf'[b]
          = [holdingOf EXCEPT ![call[r].buyer] = holdingOf[call[r].buyer] + call[r].amount][b]
    BY <1>3, <2>1, <2>2, <2>3
  <2> QED  BY <2>3, <2>4 DEF holdingOf
<1> QED  BY <1>2, <1>3, <1>4, <1>5 DEF Ledger!Transfer

\* Any other step is a refusal of the abstract ledger, or invisible to it.
LEMMA RollbackRefuses ==
    ASSUME IInv, NEW r \in Requests, Rollback(r), pc[r] \in {"readSeller"} \cup Inside
    PROVE  Ledger!Refuse(r)
<1>1. outcomeOf[r] = "open" /\ outcomeOf' = [outcomeOf EXCEPT ![r] = "refused"]
  BY DEF IInv, TypeOK, Rollback, Goto, outcomeOf, Inside
<1>2. UNCHANGED <<call, sellerRow, holdingOf>>
  BY DEF Rollback, holdingOf, Rows
<1> QED  BY <1>1, <1>2 DEF Ledger!Refuse

LEMMA QuietStep ==
    ASSUME IInv, NEW r \in Requests,
           Begin(r) \/ ReadSeller(r) \/ DebitSeller(r) \/ FindBuyer(r) \/ NewBuyer(r)
    PROVE  UNCHANGED Ledger!ledgerVars
<1>1. UNCHANGED <<call, sellerRow, buyerRow>>
  BY DEF Begin, ReadSeller, DebitSeller, FindBuyer, NewBuyer
<1>2. UNCHANGED outcomeOf
  BY DEF IInv, TypeOK, Begin, ReadSeller, DebitSeller, FindBuyer, NewBuyer, Goto, outcomeOf
<1>3. UNCHANGED holdingOf
  BY <1>1 DEF holdingOf, Rows
<1> QED  BY <1>1, <1>2, <1>3 DEF Ledger!ledgerVars

\* The lock-and-save transactions implement the atomic transfers of the ledger.
THEOREM Refinement == Spec => ImplementsOwnershipLedger
<1>1. IInv /\ [Next]_vars => [Ledger!LedgerNext]_(Ledger!ledgerVars)
  <2> SUFFICES ASSUME IInv, [Next]_vars
               PROVE  Ledger!LedgerNext \/ UNCHANGED Ledger!ledgerVars
    OBVIOUS
  <2>1. CASE UNCHANGED vars
    BY <2>1 DEF vars, Ledger!ledgerVars, holdingOf, outcomeOf, Rows
  <2>2. ASSUME NEW r \in Requests, Begin(r) \/ Step(r) \/ Abort(r)
        PROVE  Ledger!LedgerNext \/ UNCHANGED Ledger!ledgerVars
    <3>1. CASE Commit(r)
      BY <3>1, CommitTransfers DEF Ledger!LedgerNext
    <3>2. CASE SellerGone(r) \/ Insufficient(r) \/ Abort(r)
      BY <3>2, RollbackRefuses
      DEF SellerGone, Insufficient, Abort, Inside, Ledger!LedgerNext
    <3>3. CASE Begin(r) \/ ReadSeller(r) \/ DebitSeller(r) \/ FindBuyer(r) \/ NewBuyer(r)
      BY <3>3, QuietStep
    <3> QED  BY <2>2, <3>1, <3>2, <3>3 DEF Step
  <2> QED  BY <2>1, <2>2 DEF Next
<1> QED  BY <1>1, InitLedger, Invariance, PTL
         DEF Spec, ImplementsOwnershipLedger, Ledger!LedgerSpec
=============================================================================
