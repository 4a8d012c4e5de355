--------------------------- MODULE OwnershipLedger ---------------------------
(***************************************************************************)
(* What the ownership ledger promises for one project: the distributor's   *)
(* inventory is sold to buyers by requests, each of which either moves its *)
(* whole amount from the inventory to its buyer, once, or moves nothing.   *)
(* Amounts are counted in the smallest unit of the token (six decimals).   *)
(***************************************************************************)
EXTENDS Integers

CONSTANTS Requests,   \* ledger transfers that are ever asked for
          Buyers,     \* owners a position can belong to
          Supply,     \* the distributor's inventory when the project goes live
          Calls       \* the inputs a request can have

ASSUME LedgerAssumption ==
    /\ Supply \in Nat \ {0}
    /\ \A c \in Calls : c.buyer \in Buyers /\ c.amount \in Nat \ {0}

VARIABLES call,       \* the input of each request
          inventory,  \* tokens left in the distributor's position
          holding,    \* tokens each buyer owns
          outcome     \* "open", "moved" or "refused"

ledgerVars == <<call, inventory, holding, outcome>>

LedgerInit ==
    /\ call \in [Requests -> Calls]
    /\ inventory = Supply
    /\ holding = [b \in Buyers |-> 0]
    /\ outcome = [r \in Requests |-> "open"]

\* The whole amount goes from the inventory to the buyer in one step.
Transfer(r) ==
    /\ outcome[r] = "open"
    /\ call[r].amount <= inventory
    /\ inventory' = inventory - call[r].amount
    /\ holding' = [holding EXCEPT ![call[r].buyer] = @ + call[r].amount]
    /\ outcome' = [outcome EXCEPT ![r] = "moved"]
    /\ UNCHANGED call

\* Too little inventory, a seller row that is gone, a rolled-back transaction.
Refuse(r) ==
    /\ outcome[r] = "open"
    /\ outcome' = [outcome EXCEPT ![r] = "refused"]
    /\ UNCHANGED <<call, inventory, holding>>

LedgerNext == \E r \in Requests : Transfer(r) \/ Refuse(r)

LedgerSpec == LedgerInit /\ [][LedgerNext]_ledgerVars

-----------------------------------------------------------------------------
LedgerTypeOK ==
    /\ call \in [Requests -> Calls]
    /\ inventory \in Nat
    /\ holding \in [Buyers -> Nat]
    /\ outcome \in [Requests -> {"open", "moved", "refused"}]
=============================================================================
