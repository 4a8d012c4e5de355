---------------------------- MODULE PurchaseProofs ----------------------------
(***************************************************************************)
(* The safety of the purchase flows, for every number of requests, cancel  *)
(* calls, orders and envelopes.                                            *)
(***************************************************************************)
EXTENDS Purchase, TLAPS

\* Awaits a request reaches only after its ledger transfer has committed.
AfterMove == {"book", "fee", "settleRow", "complete", "completeSave"}

\* Awaits a self-custody request reaches only once its envelope is applied.
AfterChain == {"contractBook", "settle", "settleSave", "ledger"} \cup AfterMove

MoveRecorded == \A r \in Requests : pc[r] \in AfterMove => Moved(r)

ChainSeen == \A r \in Requests : Self(r) /\ pc[r] \in AfterChain =>
    chain[call[r].xdr] = "applied"

\* The request whose arrival the network answered with PENDING.
Holds(r) == Self(r) /\ (pc[r] \in {"poll"} \cup AfterChain \/ Moved(r))

OneHolder ==
    /\ \A r \in Requests : Holds(r) => chain[call[r].xdr] # "unsent"
    /\ \A r, s \in Requests : Holds(r) /\ Holds(s) /\ call[r].xdr = call[s].xdr => r = s

\* The first two awaits come before everything, and some belong to one flow.
EarlyUnmoved == \A r \in Requests : pc[r] \in {"idle", "create"} => ~Moved(r)

SelfFlow == \A r \in Requests :
    pc[r] \in {"dedupe", "send", "poll", "contractBook"} => Self(r)

SelfBooks == \A e \in books : e.from = "contract" => Self(e.request)

IInv ==
    /\ TypeOK
    /\ EarlyUnmoved
    /\ SelfFlow
    /\ SelfBooks
    /\ MoveRecorded
    /\ ChainSeen
    /\ OneHolder
    /\ CompletedMeansMoved
    /\ OwnershipFollowsChain
    /\ BooksFollowSettlement

-----------------------------------------------------------------------------
LEMMA CallTypes ==
    ASSUME TypeOK, NEW r \in Requests
    PROVE  /\ call[r] \in Calls
           /\ call[r].amount \in Nat \ {0}
           /\ call[r].buyer \in Buyers
           /\ call[r].cash \in Nat
           /\ call[r].flow \in {"custody", "self"}
           /\ call[r].order \in Orders \cup {NoOrder}
           /\ Self(r) => call[r].xdr \in Envelopes
BY LedgerAssumption, PurchaseAssumption DEF TypeOK, LedgerTypeOK, Self

LEMMA InitIInv == Init => IInv
<1> SUFFICES ASSUME Init  PROVE IInv
  OBVIOUS
<1> USE DEF Init, LedgerInit
<1>1. TypeOK
  <2>1. LedgerTypeOK
    BY LedgerAssumption DEF LedgerTypeOK
  <2> QED  BY <2>1 DEF TypeOK, Statuses, Places, Absent
<1>2. EarlyUnmoved /\ SelfFlow /\ SelfBooks /\ MoveRecorded /\ ChainSeen /\ OneHolder
  BY DEF EarlyUnmoved, SelfFlow, SelfBooks, MoveRecorded, ChainSeen, OneHolder, Holds,
         AfterMove, AfterChain, Moved
<1>3. CompletedMeansMoved /\ OwnershipFollowsChain /\ BooksFollowSettlement
  BY DEF CompletedMeansMoved, OwnershipFollowsChain, BooksFollowSettlement, Absent, Moved
<1> QED  BY <1>1, <1>2, <1>3 DEF IInv

-----------------------------------------------------------------------------
(* Type correctness, one action at a time.                                  *)

LEMMA LoadType ==
    ASSUME TypeOK, NEW r \in Requests, NEW h \in DOMAIN Saving, NEW next \in Places,
           Load(r, h, next)
    PROVE  TypeOK'
<1>1. Saving[h] \in Places /\ Thrown(r) \in Places
  BY DEF Saving, Thrown, Places
<1> QED  BY <1>1 DEF Load, Goto, TypeOK, LedgerTypeOK, ledgerVars

LEMMA SaveType ==
    ASSUME TypeOK, NEW r \in Requests, NEW h \in DOMAIN Saving, NEW next \in Places,
           Save(r, h, next)
    PROVE  TypeOK'
<1>1. Target[h] \in Statuses
  BY DEF Saving, Target, Statuses
<1>2. orders' \in [Orders -> [status : Statuses \cup {"ABSENT"},
                              buyer : Buyers \cup {NoOne}, cash : Nat]]
  BY <1>1 DEF Save, TypeOK
<1> QED  BY <1>2 DEF Save, Goto, TypeOK, LedgerTypeOK, ledgerVars

LEMMA NewOrderType ==
    ASSUME TypeOK, NEW o \in Orders, NEW c \in Calls, NewOrder(o, c)
    PROVE  orders' \in [Orders -> [status : Statuses \cup {"ABSENT"},
                                   buyer : Buyers \cup {NoOne}, cash : Nat]]
<1>1. c.buyer \in Buyers /\ c.cash \in Nat
  BY LedgerAssumption, PurchaseAssumption
<1> QED  BY <1>1 DEF NewOrder, TypeOK, Statuses

LEMMA StepType ==
    ASSUME TypeOK, NEW r \in Requests, Begin(r) \/ Step(r)
    PROVE  TypeOK'
<1> USE DEF Goto
<1>1. CASE Begin(r)
  BY <1>1, CallTypes DEF Begin, TypeOK, LedgerTypeOK, ledgerVars, Places
<1>2. CASE Create(r)
  <2>1. PICK o \in Orders : NewOrder(o, call[r]) /\ orderOf' = [orderOf EXCEPT ![r] = o]
    BY <1>2 DEF Create
  <2>2. orders' \in [Orders -> [status : Statuses \cup {"ABSENT"},
                                buyer : Buyers \cup {NoOne}, cash : Nat]]
    BY <2>1, CallTypes, NewOrderType
  <2> QED  BY <1>2, <2>1, <2>2 DEF Create, TypeOK, LedgerTypeOK, ledgerVars, Places
<1>3. CASE Submit(r) \/ Settle(r) \/ Complete(r) \/ Fail(r)
  <2>1. /\ {"submit", "settle", "complete", "fail"} = DOMAIN Saving
        /\ {"dedupe", "record", "ledger", "done", "rejected"} \subseteq Places
    BY DEF Saving, Places
  <2> QED  BY <1>3, <2>1, LoadType, SaveType DEF Submit, Settle, Complete, Fail
<1>4. CASE Dedupe(r) \/ Poll(r) \/ Send(r)
  <2>1. Thrown(r) \in Places
    BY DEF Thrown, Places
  <2>2. CASE Send(r)
    BY <2>1, <2>2 DEF Send, TypeOK, LedgerTypeOK, ledgerVars, Places
  <2>3. CASE Dedupe(r) \/ Poll(r)
    BY <2>1, <2>3 DEF Dedupe, Poll, TypeOK, LedgerTypeOK, ledgerVars, Places
  <2> QED  BY <1>4, <2>2, <2>3
<1>5. CASE Record(r) \/ SettleRow(r) \/ FailRow(r)
  BY <1>5 DEF Record, SettleRow, FailRow, TypeOK, LedgerTypeOK, ledgerVars, Places
<1>6. CASE ContractBook(r) \/ Book(r) \/ Fee(r)
  BY <1>6 DEF ContractBook, Book, Fee, Entry, TypeOK, LedgerTypeOK, ledgerVars, Places
<1>7. CASE Ledger(r)
  <2>1. Thrown(r) \in Places
    BY DEF Thrown, Places
  <2>2. CASE Transfer(r) /\ Goto(r, "book")
    <3>1. LedgerTypeOK'
      BY <2>2, CallTypes DEF Transfer, TypeOK, LedgerTypeOK
    <3> QED  BY <1>7, <2>2, <3>1 DEF Ledger, TypeOK, Places
  <2>3. CASE Refuse(r) /\ Goto(r, Thrown(r))
    <3>1. LedgerTypeOK'
      BY <2>3 DEF Refuse, TypeOK, LedgerTypeOK
    <3> QED  BY <1>7, <2>1, <2>3, <3>1 DEF Ledger, TypeOK, Places
  <2> QED  BY <1>7, <2>2, <2>3 DEF Ledger
<1> QED  BY <1>1, <1>2, <1>3, <1>4, <1>5, <1>6, <1>7 DEF Step

LEMMA NextType == TypeOK /\ [Next]_vars => TypeOK'
<1> SUFFICES ASSUME TypeOK, [Next]_vars  PROVE TypeOK'
  OBVIOUS
<1>1. CASE UNCHANGED vars
  BY <1>1 DEF vars, ledgerVars, purchaseVars, TypeOK, LedgerTypeOK
<1>2. ASSUME NEW r \in Requests, Begin(r) \/ Step(r)  PROVE TypeOK'
  BY <1>2, StepType
<1>3. ASSUME NEW o \in Orders, BuildBuy(o)  PROVE TypeOK'
  <2>1. PICK c \in Calls : NewOrder(o, c)
    BY <1>3 DEF BuildBuy
  <2> QED  BY <1>3, <2>1, NewOrderType DEF BuildBuy, TypeOK, LedgerTypeOK, ledgerVars
<1>4. ASSUME NEW c \in Cancels, CancelLoad(c) \/ CancelSave(c)  PROVE TypeOK'
  <2>1. CASE CancelLoad(c)
    BY <2>1 DEF CancelLoad, TypeOK, LedgerTypeOK, ledgerVars
  <2>2. CASE CancelSave(c)
    BY <2>2 DEF CancelSave, Target, Statuses, TypeOK, LedgerTypeOK, ledgerVars
  <2> QED  BY <1>4, <2>1, <2>2
<1>5. ASSUME NEW x \in Envelopes, Close(x)  PROVE TypeOK'
  BY <1>5 DEF Close, TypeOK, LedgerTypeOK, ledgerVars
<1> QED  BY <1>1, <1>2, <1>3, <1>4, <1>5 DEF Next

-----------------------------------------------------------------------------
(* What a step of a request can do to what the invariant speaks of.         *)

\* A handler moves its request on, and changes at most the status of its order.
LEMMA LoadFlow ==
    ASSUME TypeOK, NEW r \in Requests, NEW h, NEW next, Load(r, h, next)
    PROVE  /\ pc[r] = h
           /\ pc'[r] \in {Saving[h], next, "failRow", "rejected"}
           /\ \A s \in Requests \ {r} : pc'[s] = pc[s]
           /\ UNCHANGED <<ledgerVars, orders, orderOf, books, chain>>
BY DEF Load, Goto, Thrown, TypeOK

LEMMA SaveFlow ==
    ASSUME TypeOK, NEW r \in Requests, NEW h, NEW next, Save(r, h, next)
    PROVE  /\ pc[r] = Saving[h]
           /\ pc'[r] = next
           /\ \A s \in Requests \ {r} : pc'[s] = pc[s]
           /\ \A o \in Orders : \/ orders'[o].status = orders[o].status
                                \/ o = orderOf[r] /\ orders'[o].status = Target[h]
           /\ UNCHANGED <<ledgerVars, orderOf, books, chain>>
<1>1. \A o \in Orders : \/ orders'[o].status = orders[o].status
                        \/ o = orderOf[r] /\ orders'[o].status = Target[h]
  BY DEF Save, TypeOK
<1>2. pc'[r] = next /\ \A s \in Requests \ {r} : pc'[s] = pc[s]
  BY DEF Save, Goto, TypeOK
<1> QED  BY <1>1, <1>2 DEF Save

\* The handlers of the two flows, by the await they start and end at.
LEMMA HandlerFlow ==
    ASSUME TypeOK, NEW r \in Requests,
           Submit(r) \/ Settle(r) \/ Complete(r) \/ Fail(r)
    PROVE  /\ pc'[r] \in AfterMove => pc[r] \in AfterMove
           /\ pc'[r] \in AfterChain => pc[r] \in AfterChain
           /\ pc'[r] \notin {"poll", "send", "contractBook", "idle", "create"}
           /\ pc'[r] = "dedupe" => Self(r)
           /\ \A s \in Requests \ {r} : pc'[s] = pc[s]
           /\ \A o \in Orders : orders'[o].status = "COMPLETED" =>
                \/ orders[o].status = "COMPLETED"
                \/ o = orderOf[r] /\ pc[r] = "completeSave"
           /\ UNCHANGED <<ledgerVars, orderOf, books, chain>>
<1> USE DEF AfterMove, AfterChain, Saving, Target
<1>1. CASE Submit(r)
  <2> DEFINE next == IF Self(r) THEN "dedupe" ELSE "record"
  <2>1. Load(r, "submit", next) \/ Save(r, "submit", next)
    BY <1>1 DEF Submit
  <2> QED  BY <2>1, LoadFlow, SaveFlow
<1>2. CASE Settle(r)
  BY <1>2, LoadFlow, SaveFlow DEF Settle
<1>3. CASE Complete(r)
  BY <1>3, LoadFlow, SaveFlow DEF Complete
<1>4. CASE Fail(r)
  BY <1>4, LoadFlow, SaveFlow DEF Fail
<1> QED  BY <1>1, <1>2, <1>3, <1>4

\* Where a step of request r can take it.
PlaceFlow(r) ==
    /\ \A s \in Requests \ {r} : pc'[s] = pc[s]
    /\ pc'[r] \in AfterMove => pc[r] \in AfterMove \/ Moved(r)'
    /\ Self(r) /\ pc'[r] \in AfterChain =>
         pc[r] \in AfterChain \/ chain[call[r].xdr] = "applied"
    /\ Self(r) /\ pc'[r] \in {"poll"} \cup AfterChain =>
         \/ pc[r] \in {"poll"} \cup AfterChain
         \/ chain[call[r].xdr] = "unsent" /\ chain'[call[r].xdr] # "unsent"
    /\ pc'[r] \in {"idle", "create"} => pc[r] = "idle" /\ ~Moved(r)'
    /\ pc'[r] \in {"dedupe", "send", "poll", "contractBook"} => Self(r)

\* What it does to the ledger, the chain and the orders it works on.
MoveFlow(r) ==
    /\ call' = call
    /\ \A s \in Requests \ {r} : outcome'[s] = outcome[s] /\ orderOf'[s] = orderOf[s]
    /\ Moved(r) => Moved(r)' /\ orderOf'[r] = orderOf[r]
    /\ Moved(r)' => Moved(r) \/ pc[r] = "ledger"
    /\ \A x \in Envelopes : \/ chain'[x] = chain[x]
                            \/ chain[x] = "unsent" /\ chain'[x] = "pending"

\* What it does to the rows of orders and transactions.
RowFlow(r) ==
    /\ \A o \in Orders : orders'[o].status = "COMPLETED" =>
         \/ orders[o].status = "COMPLETED"
         \/ o = orderOf[r] /\ pc[r] = "completeSave" /\ orderOf' = orderOf
    /\ \A e \in books' : \/ e \in books
                         \/ /\ e.request = r /\ e.from = "contract"
                            /\ pc[r] = "contractBook"
                         \/ /\ e.request = r /\ e.from = "purchase"
                            /\ pc[r] \in AfterMove

LEMMA Flow ==
    ASSUME IInv, NEW r \in Requests, Begin(r) \/ Step(r)
    PROVE  PlaceFlow(r) /\ MoveFlow(r) /\ RowFlow(r)
<1> USE DEF Goto, AfterMove, AfterChain
<1>0. /\ TypeOK /\ EarlyUnmoved /\ SelfFlow
      /\ Self(r) => call[r].xdr \in Envelopes
  BY CallTypes DEF IInv
<1>1. CASE Begin(r)
  <2>1. PlaceFlow(r)
    BY <1>0, <1>1 DEF Begin, PlaceFlow, TypeOK, ledgerVars, Moved, EarlyUnmoved
  <2>2. MoveFlow(r)
    BY <1>0, <1>1 DEF Begin, MoveFlow, TypeOK, LedgerTypeOK, ledgerVars, Moved, EarlyUnmoved
  <2>3. RowFlow(r)
    BY <1>0, <1>1 DEF Begin, RowFlow, TypeOK, ledgerVars
  <2> QED  BY <2>1, <2>2, <2>3
<1>2. CASE Create(r)
  <2>1. PICK o \in Orders : NewOrder(o, call[r]) /\ orderOf' = [orderOf EXCEPT ![r] = o]
    BY <1>2 DEF Create
  <2>2. \A p \in Orders : orders'[p].status = "COMPLETED" => orders[p].status = "COMPLETED"
    BY <1>0, <2>1 DEF NewOrder, TypeOK
  <2>3. PlaceFlow(r)
    BY <1>0, <1>2 DEF Create, PlaceFlow, TypeOK, ledgerVars, EarlyUnmoved, Moved
  <2>4. MoveFlow(r)
    BY <1>0, <1>2, <2>1 DEF Create, MoveFlow, TypeOK, ledgerVars, EarlyUnmoved, Moved
  <2>5. RowFlow(r)
    BY <1>2, <2>2 DEF Create, RowFlow
  <2> QED  BY <2>3, <2>4, <2>5
<1>3. CASE Submit(r) \/ Settle(r) \/ Complete(r) \/ Fail(r)
  BY <1>0, <1>3, HandlerFlow DEF PlaceFlow, MoveFlow, RowFlow, ledgerVars, Moved
<1>4. CASE Dedupe(r) \/ Record(r)
  <2>1. PlaceFlow(r)
    BY <1>0, <1>4 DEF Dedupe, Record, PlaceFlow, TypeOK, ledgerVars, Moved, SelfFlow
  <2>2. MoveFlow(r)
    BY <1>0, <1>4 DEF Dedupe, Record, MoveFlow, TypeOK, LedgerTypeOK, ledgerVars, Moved
  <2>3. RowFlow(r)
    BY <1>0, <1>4 DEF Dedupe, Record, RowFlow, TypeOK, ledgerVars
  <2> QED  BY <2>1, <2>2, <2>3
<1>5. CASE Send(r)
  <2>1. /\ pc[r] = "send" /\ Self(r)
        /\ pc' = [pc EXCEPT ![r] = "poll"] \/ pc' = [pc EXCEPT ![r] = "failRow"]
        /\ pc' = [pc EXCEPT ![r] = "poll"] =>
             /\ chain[call[r].xdr] = "unsent"
             /\ chain' = [chain EXCEPT ![call[r].xdr] = "pending"]
        /\ \/ UNCHANGED chain
           \/ /\ chain[call[r].xdr] = "unsent"
              /\ chain' = [chain EXCEPT ![call[r].xdr] = "pending"]
        /\ UNCHANGED <<ledgerVars, orders, orderOf, books>>
    <3>1. pc[r] = "send" /\ Self(r) /\ Thrown(r) = "failRow"
      BY <1>0, <1>5 DEF Send, Thrown, Guarded, SelfFlow
    <3>2. [pc EXCEPT ![r] = "poll"] # [pc EXCEPT ![r] = "failRow"]
      <4>1. [pc EXCEPT ![r] = "poll"][r] = "poll" /\ [pc EXCEPT ![r] = "failRow"][r] = "failRow"
        BY <1>0 DEF TypeOK
      <4> QED  BY <4>1
    <3> QED  BY <1>5, <3>1, <3>2 DEF Send
  <2>2. PlaceFlow(r)
    BY <1>0, <2>1 DEF PlaceFlow, TypeOK, ledgerVars, Moved
  <2>3. MoveFlow(r)
    BY <1>0, <2>1 DEF MoveFlow, TypeOK, ledgerVars, Moved
  <2>4. RowFlow(r)
    BY <2>1 DEF RowFlow
  <2> QED  BY <2>2, <2>3, <2>4
<1>6. CASE Poll(r)
  <2>1. PlaceFlow(r)
    BY <1>0, <1>6 DEF Poll, PlaceFlow, TypeOK, ledgerVars, Moved, SelfFlow, Thrown
  <2>2. MoveFlow(r)
    BY <1>0, <1>6 DEF Poll, MoveFlow, TypeOK, LedgerTypeOK, ledgerVars, Moved
  <2>3. RowFlow(r)
    BY <1>0, <1>6 DEF Poll, RowFlow, TypeOK, ledgerVars
  <2> QED  BY <2>1, <2>2, <2>3
<1>7. CASE ContractBook(r) \/ Book(r) \/ Fee(r)
  <2>1. PlaceFlow(r)
    BY <1>0, <1>7 DEF ContractBook, Book, Fee, PlaceFlow, TypeOK, ledgerVars, Moved
  <2>2. MoveFlow(r)
    BY <1>0, <1>7 DEF ContractBook, Book, Fee, MoveFlow, TypeOK, LedgerTypeOK, ledgerVars, Moved
  <2>3. RowFlow(r)
    BY <1>0, <1>7 DEF ContractBook, Book, Fee, Entry, RowFlow, TypeOK, ledgerVars
  <2> QED  BY <2>1, <2>2, <2>3
<1>8. CASE SettleRow(r) \/ FailRow(r)
  <2>1. PlaceFlow(r)
    BY <1>0, <1>8 DEF SettleRow, FailRow, PlaceFlow, TypeOK, ledgerVars, Moved
  <2>2. MoveFlow(r)
    BY <1>0, <1>8 DEF SettleRow, FailRow, MoveFlow, TypeOK, LedgerTypeOK, ledgerVars, Moved
  <2>3. RowFlow(r)
    BY <1>0, <1>8 DEF SettleRow, FailRow, RowFlow, TypeOK, ledgerVars
  <2> QED  BY <2>1, <2>2, <2>3
<1>9. CASE Ledger(r)
  <2>1. PlaceFlow(r) /\ RowFlow(r)
    <3>1. CASE Transfer(r) /\ Goto(r, "book")
      BY <1>0, <1>9, <3>1 DEF Ledger, Transfer, PlaceFlow, RowFlow, TypeOK, LedgerTypeOK, Moved
    <3>2. CASE Refuse(r) /\ Goto(r, Thrown(r))
      BY <1>0, <1>9, <3>2 DEF Ledger, Refuse, Thrown, PlaceFlow, RowFlow, TypeOK
    <3> QED  BY <1>9, <3>1, <3>2 DEF Ledger
  <2>2. MoveFlow(r)
    BY <1>0, <1>9 DEF Ledger, Transfer, Refuse, MoveFlow, TypeOK, LedgerTypeOK, Moved
  <2> QED  BY <2>1, <2>2
<1> QED  BY <1>1, <1>2, <1>3, <1>4, <1>5, <1>6, <1>7, <1>8, <1>9 DEF Step

\* Steps of no request: a new order, a cancel call, the network.
LEMMA OtherFlow ==
    ASSUME TypeOK,
           \/ \E o \in Orders : BuildBuy(o)
           \/ \E c \in Cancels : CancelLoad(c) \/ CancelSave(c)
           \/ \E x \in Envelopes : Close(x)
           \/ UNCHANGED vars
    PROVE  /\ UNCHANGED <<call, outcome, pc, orderOf, books>>
           /\ \A x \in Envelopes : chain'[x] # chain[x] => chain[x] = "pending" /\ chain'[x] # "unsent"
           /\ \A o \in Orders : orders'[o].status = "COMPLETED" => orders[o].status = "COMPLETED"
<1>1. ASSUME NEW o \in Orders, BuildBuy(o)
      PROVE  /\ UNCHANGED <<call, outcome, pc, orderOf, books, chain>>
             /\ \A p \in Orders : orders'[p].status = "COMPLETED" => orders[p].status = "COMPLETED"
  BY <1>1 DEF BuildBuy, NewOrder, TypeOK, ledgerVars
<1>2. ASSUME NEW c \in Cancels, CancelLoad(c) \/ CancelSave(c)
      PROVE  /\ UNCHANGED <<call, outcome, pc, orderOf, books, chain>>
             /\ \A p \in Orders : orders'[p].status = "COMPLETED" => orders[p].status = "COMPLETED"
  BY <1>2 DEF CancelLoad, CancelSave, Target, TypeOK, ledgerVars
<1>3. ASSUME NEW x \in Envelopes, Close(x)
      PROVE  /\ UNCHANGED <<call, outcome, pc, orderOf, books, orders>>
             /\ \A y \in Envelopes : chain'[y] # chain[y] => chain[y] = "pending" /\ chain'[y] # "unsent"
  BY <1>3 DEF Close, TypeOK, ledgerVars
<1>4. CASE UNCHANGED vars
  BY <1>4 DEF vars, ledgerVars, purchaseVars
<1> QED  BY <1>1, <1>2, <1>3, <1>4

-----------------------------------------------------------------------------
LEMMA StepIInv ==
    ASSUME IInv, NEW r \in Requests, Begin(r) \/ Step(r)
    PROVE  IInv'
<1>1. TypeOK'
  BY StepType DEF IInv
<1>0. PlaceFlow(r) /\ MoveFlow(r) /\ RowFlow(r)
  BY Flow
<1>2. EarlyUnmoved' /\ SelfFlow'
  BY <1>0 DEF PlaceFlow, MoveFlow, IInv, EarlyUnmoved, SelfFlow, Moved, Self
<1>10. SelfBooks'
  BY <1>0 DEF MoveFlow, RowFlow, IInv, SelfBooks, SelfFlow, Self
<1>3. MoveRecorded'
  BY <1>0 DEF PlaceFlow, MoveFlow, IInv, MoveRecorded, Moved
<1>4. \A s \in Requests : Self(s) => call[s].xdr \in Envelopes
  BY CallTypes DEF IInv
<1>5. ChainSeen'
  BY <1>0, <1>4 DEF PlaceFlow, MoveFlow, IInv, ChainSeen, Self
<1>6. OneHolder'
  <2>1. \A s \in Requests : Holds(s)' =>
          \/ Holds(s)
          \/ s = r /\ Self(s) /\ chain[call[s].xdr] = "unsent" /\ chain'[call[s].xdr] # "unsent"
    BY <1>0 DEF PlaceFlow, MoveFlow, Holds, Self, Moved, AfterChain
  <2>2. \A s \in Requests : Holds(s) => chain'[call[s].xdr] # "unsent"
    BY <1>0, <1>4 DEF MoveFlow, IInv, OneHolder, Holds
  <2>3. call' = call
    BY <1>0 DEF MoveFlow
  <2> QED  BY <2>1, <2>2, <2>3 DEF IInv, OneHolder
<1>7. CompletedMeansMoved'
  <2> SUFFICES ASSUME NEW o \in Orders, orders'[o].status = "COMPLETED"
               PROVE  \E s \in Requests : orderOf'[s] = o /\ Moved(s)'
    BY DEF CompletedMeansMoved
  <2>1. CASE orders[o].status = "COMPLETED"
    <3>1. PICK s \in Requests : orderOf[s] = o /\ Moved(s)
      BY <2>1 DEF IInv, CompletedMeansMoved
    <3>2. orderOf'[s] = o /\ Moved(s)'
      BY <1>0, <3>1 DEF MoveFlow, Moved
    <3> QED  BY <3>2
  <2>2. CASE o = orderOf[r] /\ pc[r] = "completeSave" /\ orderOf' = orderOf
    BY <1>0, <2>2 DEF MoveFlow, IInv, MoveRecorded, AfterMove
  <2> QED  BY <1>0, <2>1, <2>2 DEF RowFlow
<1>8. OwnershipFollowsChain'
  <2> SUFFICES ASSUME NEW s \in Requests, Self(s)', Moved(s)'
               PROVE  (chain[call[s].xdr] = "applied")'
    BY DEF OwnershipFollowsChain
  <2>1. call' = call /\ Self(s)
    BY <1>0 DEF MoveFlow, Self
  <2>2. ~Moved(s) => s = r /\ pc[s] = "ledger"
    BY <1>0 DEF MoveFlow, Moved
  <2>3. chain[call[s].xdr] = "applied"
    BY <2>1, <2>2 DEF IInv, OwnershipFollowsChain, ChainSeen, AfterChain
  <2> QED  BY <1>0, <1>4, <2>1, <2>3 DEF MoveFlow
<1>9. BooksFollowSettlement'
  <2> SUFFICES ASSUME NEW e \in books'
               PROVE  (IF e.from = "contract" THEN chain[call[e.request].xdr] = "applied"
                       ELSE Moved(e.request))'
    BY DEF BooksFollowSettlement
  <2>1. call' = call
    BY <1>0 DEF MoveFlow
  <2>2. CASE e \in books
    <3>1. e.request \in Requests
      BY <2>2 DEF IInv, TypeOK
    <3>2. CASE e.from = "contract"
      <4>1. chain[call[e.request].xdr] = "applied" /\ call[e.request].xdr \in Envelopes
        BY <1>4, <2>2, <3>1, <3>2 DEF IInv, SelfBooks, BooksFollowSettlement
      <4>2. chain'[call[e.request].xdr] = "applied"
        BY <1>0, <4>1 DEF MoveFlow
      <4> QED  BY <2>1, <3>2, <4>2
    <3>3. CASE e.from # "contract"
      BY <1>0, <2>2, <3>1, <3>3 DEF MoveFlow, IInv, BooksFollowSettlement, Moved
    <3> QED  BY <3>2, <3>3
  <2>3. CASE e.request = r /\ e.from = "contract" /\ pc[r] = "contractBook"
    <3>1. Self(r) /\ chain[call[r].xdr] = "applied"
      BY <2>3 DEF IInv, SelfFlow, ChainSeen, AfterChain
    <3> QED  BY <1>0, <1>4, <2>1, <2>3, <3>1 DEF MoveFlow
  <2>4. CASE e.request = r /\ e.from = "purchase" /\ pc[r] \in AfterMove
    BY <1>0, <2>4 DEF MoveFlow, IInv, MoveRecorded
  <2> QED  BY <1>0, <2>2, <2>3, <2>4 DEF RowFlow
<1> QED  BY <1>1, <1>2, <1>3, <1>5, <1>6, <1>7, <1>8, <1>9, <1>10 DEF IInv

LEMMA OtherIInv ==
    ASSUME IInv,
           \/ \E o \in Orders : BuildBuy(o)
           \/ \E c \in Cancels : CancelLoad(c) \/ CancelSave(c)
           \/ \E x \in Envelopes : Close(x)
           \/ UNCHANGED vars
    PROVE  IInv'
<1>1. TypeOK'
  BY NextType DEF IInv, Next
<1>2. /\ UNCHANGED <<call, outcome, pc, orderOf, books>>
      /\ \A x \in Envelopes : chain'[x] # chain[x] => chain[x] = "pending" /\ chain'[x] # "unsent"
      /\ \A o \in Orders : orders'[o].status = "COMPLETED" => orders[o].status = "COMPLETED"
  BY OtherFlow DEF IInv
<1>3. \A s \in Requests : Self(s) => call[s].xdr \in Envelopes
  BY CallTypes DEF IInv
<1>4. EarlyUnmoved' /\ SelfFlow' /\ SelfBooks' /\ MoveRecorded'
  BY <1>2 DEF IInv, EarlyUnmoved, SelfFlow, SelfBooks, MoveRecorded, Self, Moved
<1>5. ChainSeen' /\ OwnershipFollowsChain'
  BY <1>2, <1>3 DEF IInv, ChainSeen, OwnershipFollowsChain, Self, Moved
<1>6. OneHolder'
  BY <1>2, <1>3 DEF IInv, OneHolder, Holds, Self, Moved
<1>7. CompletedMeansMoved'
  BY <1>2 DEF IInv, CompletedMeansMoved, Moved
<1>8. BooksFollowSettlement'
  <2> SUFFICES ASSUME NEW e \in books
               PROVE  (IF e.from = "contract" THEN chain[call[e.request].xdr] = "applied"
                       ELSE Moved(e.request))'
    BY <1>2 DEF BooksFollowSettlement
  <2>1. e.request \in Requests
    BY DEF IInv, TypeOK
  <2>2. CASE e.from = "contract"
    BY <1>2, <1>3, <2>1, <2>2 DEF IInv, SelfBooks, BooksFollowSettlement
  <2>3. CASE e.from # "contract"
    BY <1>2, <2>3 DEF IInv, BooksFollowSettlement, Moved
  <2> QED  BY <2>2, <2>3
<1> QED  BY <1>1, <1>4, <1>5, <1>6, <1>7, <1>8 DEF IInv

\* The inductive invariant of the purchase flows.
THEOREM Invariance == Spec => []IInv
<1>1. IInv /\ [Next]_vars => IInv'
  BY StepIInv, OtherIInv DEF Next
<1> QED  BY <1>1, InitIInv, PTL DEF Spec

\* Every variable keeps its type; the inventory never goes negative.
THEOREM TypeCorrect == Spec => []TypeOK
<1>1. IInv => TypeOK
  BY DEF IInv
<1> QED  BY <1>1, Invariance, PTL

\* A COMPLETED order has had its tokens moved, in spite of stale saves.
THEOREM CompletedOrders == Spec => []CompletedMeansMoved
<1>1. IInv => CompletedMeansMoved
  BY DEF IInv
<1> QED  BY <1>1, Invariance, PTL

\* A self-custody purchase moves the ledger only after the chain has.
THEOREM ChainFirst == Spec => []OwnershipFollowsChain
<1>1. IInv => OwnershipFollowsChain
  BY DEF IInv
<1> QED  BY <1>1, Invariance, PTL

\* One signed envelope moves ownership at most once, however often it is sent.
THEOREM EnvelopeOnce == Spec => []OneMovePerEnvelope
<1>1. IInv => OneMovePerEnvelope
  BY DEF IInv, OneHolder, Holds, OneMovePerEnvelope
<1> QED  BY <1>1, Invariance, PTL

\* BUY and FEE rows are written only for purchases that happened.
THEOREM BooksSound == Spec => []BooksFollowSettlement
<1>1. IInv => BooksFollowSettlement
  BY DEF IInv
<1> QED  BY <1>1, Invariance, PTL

-----------------------------------------------------------------------------
(* The rows of a settled self-custody purchase.                             *)

Contracted(r) == Entry(r, "BUY", "contract") \in books

Purchased(r) == call[r].cash > 0 => Entry(r, "BUY", "purchase") \in books

\* What has been booked by the await a self-custody request has reached.
Backed(r) == Self(r) =>
    /\ pc[r] \in {"settle", "settleSave", "ledger"} \cup AfterMove => Contracted(r)
    /\ pc[r] \in AfterMove \ {"book"} => Purchased(r)
    /\ row[r] = "SETTLED" => Moved(r) /\ Contracted(r) /\ Purchased(r)

Backing == \A r \in Requests : Backed(r)

LEMMA BackedElsewhere ==
    ASSUME Backing, NEW s \in Requests, call' = call, pc'[s] = pc[s], row'[s] = row[s],
           Moved(s) => Moved(s)', books \subseteq books'
    PROVE  Backed(s)'
BY DEF Backing, Backed, Self, Contracted, Purchased

LEMMA StepBacking ==
    ASSUME IInv, Backing, NEW r \in Requests, Begin(r) \/ Step(r)
    PROVE  Backing'
<1> USE DEF Goto, AfterMove
<1>0. /\ TypeOK /\ SelfFlow /\ MoveRecorded /\ Backed(r)
      /\ PlaceFlow(r) /\ MoveFlow(r)
  BY Flow DEF IInv, Backing
<1>1. ASSUME books \subseteq books', \A s \in Requests \ {r} : row'[s] = row[s], Backed(r)'
      PROVE  Backing'
  <2>1. ASSUME NEW s \in Requests \ {r}  PROVE Backed(s)'
    <3>1. call' = call /\ pc'[s] = pc[s] /\ (Moved(s) => Moved(s)')
      BY <1>0 DEF PlaceFlow, MoveFlow, Moved
    <3> QED  BY <1>1, <3>1, BackedElsewhere
  <2> QED  BY <1>1, <2>1 DEF Backing
\* A step after which the request has reached nothing more, and its row says no more.
<1>2. ASSUME row'[r] = "SETTLED" => row[r] = "SETTLED" \/ ~Self(r), books \subseteq books',
             \A s \in Requests \ {r} : row'[s] = row[s],
             pc'[r] \in {"settle", "settleSave", "ledger"} \cup AfterMove => Contracted(r)' \/ ~Self(r),
             pc'[r] \in AfterMove \ {"book"} => Purchased(r)' \/ ~Self(r)
      PROVE  Backing'
  <2>1. call' = call /\ (Moved(r) => Moved(r)')
    BY <1>0 DEF MoveFlow
  <2>2. (Contracted(r) => Contracted(r)') /\ (Purchased(r) => Purchased(r)')
    BY <1>2, <2>1 DEF Contracted, Purchased
  <2>3. Backed(r)'
    BY <1>0, <1>2, <2>1, <2>2 DEF Backed, Self
  <2> QED  BY <1>1, <1>2, <2>3
<1>3. ASSUME NEW h, NEW next, Load(r, h, next) \/ Save(r, h, next)
      PROVE  row' = row /\ books' = books /\ (Contracted(r) => Contracted(r)') /\ (Purchased(r) => Purchased(r)')
  BY <1>3 DEF Load, Save, ledgerVars, Contracted, Purchased
<1>4. CASE Begin(r) \/ Create(r) \/ Dedupe(r) \/ Send(r) \/ Poll(r)
  <2>1. row' = row /\ books' = books
        /\ pc'[r] \in {"create", "submit", "rejected", "record", "poll", "failRow", "contractBook"}
    BY <1>0, <1>4 DEF Begin, Create, Dedupe, Send, Poll, Thrown, TypeOK
  <2> QED  BY <1>2, <2>1
<1>5. CASE Submit(r)
  <2>1. row' = row /\ books' = books /\ pc'[r] \in {"submitSave", "dedupe", "record", "failRow", "rejected"}
    BY <1>0, <1>3, <1>5, LoadFlow, SaveFlow DEF Submit, Saving
  <2> QED  BY <1>2, <2>1
<1>6. CASE Settle(r)
  <2>1. /\ row' = row /\ books' = books /\ pc[r] \in {"settle", "settleSave"}
        /\ pc'[r] \in {"settleSave", "ledger", "failRow", "rejected"}
        /\ Contracted(r) => Contracted(r)'
    BY <1>0, <1>3, <1>6, LoadFlow, SaveFlow DEF Settle, Saving
  <2> QED  BY <1>0, <1>2, <2>1 DEF Backed
<1>7. CASE Complete(r)
  <2>1. /\ row' = row /\ books' = books /\ pc[r] \in {"complete", "completeSave"}
        /\ pc'[r] \in {"completeSave", "done", "failRow", "rejected"}
        /\ Contracted(r) => Contracted(r)'
        /\ Purchased(r) => Purchased(r)'
    BY <1>0, <1>3, <1>7, LoadFlow, SaveFlow DEF Complete, Saving
  <2> QED  BY <1>0, <1>2, <2>1 DEF Backed
<1>8. CASE Fail(r)
  <2>1. row' = row /\ books' = books /\ pc'[r] \in {"failSave", "failRow", "rejected"}
    BY <1>0, <1>3, <1>8, LoadFlow, SaveFlow DEF Fail, Saving
  <2> QED  BY <1>2, <2>1
<1>9. CASE Record(r)
  <2>1. books' = books /\ pc'[r] \in {"send", "settle"} /\ (Self(r) => pc'[r] = "send" /\ row'[r] = "SUBMITTED")
        /\ \A s \in Requests \ {r} : row'[s] = row[s]
    BY <1>0, <1>9 DEF Record, TypeOK
  <2> QED  BY <1>2, <2>1
<1>10. CASE ContractBook(r)
  <2>1. row' = row /\ books' = books \cup {Entry(r, "BUY", "contract")} /\ pc'[r] = "settle"
    BY <1>0, <1>10 DEF ContractBook, TypeOK
  <2>2. Contracted(r)'
    BY <2>1 DEF Contracted, Entry
  <2> QED  BY <1>2, <2>1, <2>2
<1>11. CASE Ledger(r)
  <2>1. row' = row /\ books' = books /\ pc[r] = "ledger" /\ pc'[r] \in {"book", "failRow", "rejected"}
    BY <1>0, <1>11 DEF Ledger, Thrown, TypeOK
  <2>2. Contracted(r) => Contracted(r)'
    BY <2>1 DEF Contracted, Entry
  <2> QED  BY <1>0, <1>2, <2>1, <2>2 DEF Backed
<1>12. CASE Book(r)
  <2>1. /\ row' = row /\ books \subseteq books' /\ pc[r] = "book" /\ pc'[r] = "fee" /\ call' = call
        /\ call[r].cash > 0 => Entry(r, "BUY", "purchase") \in books'
    BY <1>0, <1>12 DEF Book, TypeOK, ledgerVars
  <2>2. (Contracted(r) => Contracted(r)') /\ Purchased(r)'
    BY <2>1 DEF Contracted, Purchased, Entry
  <2> QED  BY <1>0, <1>2, <2>1, <2>2 DEF Backed
<1>13. CASE Fee(r)
  <2>1. /\ row' = row /\ books \subseteq books' /\ pc[r] = "fee" /\ pc'[r] \in {"settleRow", "complete"}
        /\ call' = call
    BY <1>0, <1>13 DEF Fee, TypeOK, ledgerVars
  <2>2. (Contracted(r) => Contracted(r)') /\ (Purchased(r) => Purchased(r)')
    BY <2>1 DEF Contracted, Purchased, Entry
  <2> QED  BY <1>0, <1>2, <2>1, <2>2 DEF Backed
<1>14. CASE SettleRow(r)
  <2>1. /\ pc[r] = "settleRow" /\ pc'[r] = "complete" /\ books' = books /\ call' = call
        /\ outcome' = outcome /\ \A s \in Requests \ {r} : row'[s] = row[s]
    BY <1>0, <1>14 DEF SettleRow, TypeOK, ledgerVars
  <2>2. Self(r) => Moved(r) /\ Contracted(r) /\ Purchased(r)
    BY <1>0, <2>1 DEF Backed, MoveRecorded
  <2>3. Backed(r)'
    BY <2>1, <2>2 DEF Backed, Self, Moved, Contracted, Purchased, Entry
  <2> QED  BY <1>1, <2>1, <2>3
<1>15. CASE FailRow(r)
  <2>1. books' = books /\ pc'[r] = "fail" /\ row'[r] = "FAILED" /\ \A s \in Requests \ {r} : row'[s] = row[s]
    BY <1>0, <1>15 DEF FailRow, TypeOK
  <2> QED  BY <1>2, <2>1
<1> QED  BY <1>4, <1>5, <1>6, <1>7, <1>8, <1>9, <1>10, <1>11, <1>12, <1>13, <1>14, <1>15 DEF Step

LEMMA OtherBacking ==
    ASSUME IInv, Backing,
           \/ \E o \in Orders : BuildBuy(o)
           \/ \E c \in Cancels : CancelLoad(c) \/ CancelSave(c)
           \/ \E x \in Envelopes : Close(x)
           \/ UNCHANGED vars
    PROVE  Backing'
<1>1. UNCHANGED <<call, outcome, pc, books>>
  BY OtherFlow DEF IInv
<1>2. row' = row
  BY DEF BuildBuy, CancelLoad, CancelSave, Close, vars, purchaseVars
<1> QED  BY <1>1, <1>2, BackedElsewhere DEF Backing, Moved

\* A self-custody row that reads SETTLED is that of a purchase that moved its tokens and
\* is booked by both services: submitBuyTransaction marks it in its last steps.
THEOREM SettledRows == Spec => []SettledRowIsBacked
<1>1. Init => Backing
  BY DEF Init, Backing, Backed, AfterMove
<1>2. IInv /\ Backing /\ [Next]_vars => Backing'
  BY StepBacking, OtherBacking DEF Next
<1>3. Backing => SettledRowIsBacked
  BY DEF Backing, Backed, Contracted, Purchased, SettledRowIsBacked
<1> QED  BY <1>1, <1>2, <1>3, Invariance, PTL DEF Spec

\* To the ledger, the purchase flows are nothing but transfers and refusals.
THEOREM PurchasesUseLedger == Spec => LedgerSpec
<1>1. Init => LedgerInit
  BY DEF Init
<1>2. [Next]_vars => [LedgerNext]_ledgerVars
  <2> SUFFICES ASSUME [Next]_vars  PROVE LedgerNext \/ UNCHANGED ledgerVars
    OBVIOUS
  <2>1. ASSUME NEW r \in Requests, Ledger(r)  PROVE LedgerNext
    BY <2>1 DEF Ledger, LedgerNext
  <2>2. ASSUME NEW r \in Requests, Begin(r) \/ Step(r), ~Ledger(r)
        PROVE  UNCHANGED ledgerVars
    BY <2>2 DEF Begin, Step, Create, Submit, Dedupe, Record, Send, Poll, ContractBook,
                Settle, Book, Fee, SettleRow, Complete, FailRow, Fail, Load, Save
  <2>3. ASSUME \/ \E o \in Orders : BuildBuy(o)
               \/ \E c \in Cancels : CancelLoad(c) \/ CancelSave(c)
               \/ \E x \in Envelopes : Close(x)
               \/ UNCHANGED vars
        PROVE  UNCHANGED ledgerVars
    BY <2>3 DEF BuildBuy, CancelLoad, CancelSave, Close, vars
  <2> QED  BY <2>1, <2>2, <2>3 DEF Next
<1> QED  BY <1>1, <1>2, PTL DEF Spec, LedgerSpec
=============================================================================
