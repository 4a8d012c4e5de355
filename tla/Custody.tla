-------------------------------- MODULE Custody --------------------------------
(***************************************************************************)
(* The custody account of the investor of Verification: its setup after an *)
(* approval, retries and provider changes by admins, asset wallets and     *)
(* transfers from the system account, and the provider's webhooks.         *)
(*                                                                         *)
(* Only the testnet provider is connected: it creates accounts and moves   *)
(* assets; the institutional ones leave a placeholder account and refuse   *)
(* everything else.  A provider here is one with a setup type.             *)
(***************************************************************************)
EXTENDS Verification, Sequences

CONSTANTS Retries,          \* admins' calls that set the account up, or up again
          Transfers,        \* admins' transfers and the provider's webhooks
          Connected,        \* providers that work: testnet
          Placeholders,     \* fireblocks, zodia
          DefaultProvider,  \* the configured provider
          TxStatuses,       \* statuses of a transaction that are considered
          Addresses,        \* that the provider may create, a bound of its accounts
          NoAddress,        \* the identifier of a placeholder or a failed account
          MaxTransfers      \* bound of the assets moved

ASSUME CustodyAssumption ==
    /\ Retries \cap Sessions = {} /\ Transfers \cap (Sessions \cup Retries) = {}
    /\ Connected \cap Placeholders = {}
    /\ DefaultProvider \in Connected \cup Placeholders
    /\ {"submitted"} \subseteq TxStatuses /\ "none" \notin TxStatuses
    /\ NoAddress \notin Addresses /\ MaxTransfers \in Nat

VARIABLES account,   \* the row of investor_custody_accounts
          at,        \* the await of custody each caller is at
          held,      \* the account each caller has found, as it will save it
          wanted,    \* the provider each caller asks for
          created,   \* addresses the provider has created
          moved,     \* addresses the provider has moved assets to, or opened an asset wallet at
          txs,       \* the transactions recorded for these moves: their statuses
          number,    \* the move each caller is to record, and the status it will give it
          order      \* the move an order names and the status it shows

custodyVars == <<account, at, held, wanted, created, moved, txs, number, order>>
allVars == <<verificationVars, custodyVars>>

Callers == Sessions \cup Retries \cup Transfers
Providers == Connected \cup Placeholders

\* An account is whitelisted and operational exactly when it is active.
Accounts == [exists : BOOLEAN, provider : Providers, address : Addresses \cup {NoAddress},
             status : {"pending_provider_connection", "active", "failed"}]

NoAccount == [exists |-> FALSE, provider |-> DefaultProvider, address |-> NoAddress, status |-> "failed"]

Recorded == {i \in 1..MaxTransfers : txs[i] # "none"}

CustodyInit ==
    /\ Init
    /\ account = NoAccount
    /\ at = [c \in Callers |-> "none"]
    /\ held = [c \in Callers |-> NoAccount]
    /\ wanted = [c \in Callers |-> DefaultProvider]
    /\ created = {} /\ moved = <<>>
    /\ txs = [i \in 1..MaxTransfers |-> "none"]
    /\ number = [c \in Callers |-> [move |-> 0, status |-> "submitted"]]
    /\ order = [transfer |-> 0, shows |-> "none"]

-----------------------------------------------------------------------------
Proceed(c, l) == at' = [at EXCEPT ![c] = l]

\* The call ends; an approval's call returns to adminReview.
End(c) ==
    /\ Proceed(c, "none")
    /\ held' = [held EXCEPT ![c] = NoAccount]
    /\ wanted' = [wanted EXCEPT ![c] = DefaultProvider]

Returned(c) == IF c \in Sessions THEN SetupReturns(c) ELSE UNCHANGED verificationVars

\* getOrCreateInvestorCustodyAccount, after an approval with the default provider
\* or by an admin with the one of his choice.  isApproved reads the record as stored.
Request(c) ==
    /\ c \in Sessions \cup Retries /\ at[c] = "none"
    /\ c \in Sessions => pc[c] = "setup"
    /\ row.exists
    /\ row.eligibility = "approved" \/ (row.sumsub = "approved" /\ row.admin = "approved")
    /\ Proceed(c, "find")
    /\ \E p \in Providers : /\ c \in Sessions => p = DefaultProvider
                            /\ wanted' = [wanted EXCEPT ![c] = p]
    /\ UNCHANGED <<verificationVars, account, held, created, moved, txs, number, order>>

\* Where the setup goes with the account it holds.
SetupAt(p) == IF p \in Placeholders THEN "savePlaceholder" ELSE "create"

\* findInvestorAccount.  Without forceRetry an account that has not failed is the answer.
Find(c) ==
    /\ at[c] = "find"
    /\ IF c \in Sessions /\ account.exists /\ account.status # "failed"
       THEN End(c) /\ Returned(c)
       ELSE /\ held' = [held EXCEPT ![c] = account]
            /\ Proceed(c, IF account.exists /\ account.provider # wanted[c]
                          THEN "assertProvider" ELSE SetupAt(wanted[c]))
            /\ UNCHANGED <<verificationVars, wanted>>
    /\ UNCHANGED <<account, created, moved, txs, number, order>>

\* assertProviderCanBeChanged: not once there are transactions other than setups.
AssertProvider(c) ==
    /\ at[c] = "assertProvider"
    /\ IF Recorded # {}
       THEN End(c) /\ Returned(c)
       ELSE Proceed(c, SetupAt(wanted[c])) /\ UNCHANGED <<verificationVars, held, wanted>>
    /\ UNCHANGED <<account, created, moved, txs, number, order>>

\* Whether the caller's entity can be saved: a new one is inserted, and the unique
\* index refuses a second account of the investor.
Saveable(c) == held[c].exists \/ ~account.exists

\* The setup transaction is saved as pending, which changes nothing modelled, and
\* createInvestorAccount of the provider called.
CreateAccount(c) ==
    /\ at[c] = "create"
    /\ \E k \in Addresses \ created :
         /\ created' = created \cup {k}
         /\ held' = [held EXCEPT ![c] = [@ EXCEPT !.provider = wanted[c], !.address = k,
                                                  !.status = "active"]]
    /\ Proceed(c, "saveAccount")
    /\ UNCHANGED <<verificationVars, account, wanted, moved, txs, number, order>>

\* Mutant: the placeholder of a provider that is not connected is ready for use.
SavePlaceholder_Ready(c) ==
    /\ at[c] = "savePlaceholder"
    /\ account' = IF Saveable(c) THEN [exists |-> TRUE, provider |-> wanted[c], address |-> NoAddress,
                                       status |-> "active"] ELSE account
    /\ End(c) /\ Returned(c)
    /\ UNCHANGED <<created, moved, txs, number, order>>

\* createPlaceholderInvestorCustodyAccount; its setup transaction is saved last,
\* and whether that succeeds changes nothing here.
SavePlaceholder(c) ==
    /\ at[c] = "savePlaceholder"
    /\ account' = IF Saveable(c) THEN [exists |-> TRUE, provider |-> wanted[c], address |-> NoAddress,
                                       status |-> "pending_provider_connection"] ELSE account
    /\ End(c) /\ Returned(c)
    /\ UNCHANGED <<created, moved, txs, number, order>>

\* The account is saved, or the unique index refuses it and the catch block runs.
SaveAccount(c) ==
    /\ at[c] = "saveAccount"
    /\ IF Saveable(c)
       THEN account' = [held[c] EXCEPT !.exists = TRUE] /\ Proceed(c, "confirm")
       ELSE account' = account /\ Proceed(c, "saveFailure")
    /\ UNCHANGED <<verificationVars, held, wanted, created, moved, txs, number, order>>

\* The setup transaction is confirmed, and the call answered.
Confirm(c) ==
    /\ at[c] = "confirm"
    /\ End(c) /\ Returned(c)
    /\ UNCHANGED <<account, created, moved, txs, number, order>>

\* The provider or the database throws inside the try block.
SetupThrows(c) ==
    /\ at[c] \in {"create", "saveAccount", "confirm"}
    /\ Proceed(c, "saveFailure")
    /\ UNCHANGED <<verificationVars, account, held, wanted, created, moved, txs, number, order>>

\* The catch block marks the account found, or a new one, as failed; the address
\* assigned to the entity before the failure is saved with it.  Inserting a second
\* account throws again.
SaveFailure(c) ==
    /\ at[c] = "saveFailure"
    /\ account' = IF Saveable(c)
                  THEN [exists |-> TRUE, provider |-> wanted[c], status |-> "failed",
                        address |-> IF held[c].exists THEN held[c].address ELSE NoAddress]
                  ELSE account
    /\ End(c) /\ Returned(c)
    /\ UNCHANGED <<created, moved, txs, number, order>>

\* Any other error, or a restart.
SetupFails(c) ==
    /\ at[c] \in {"find", "assertProvider", "create", "savePlaceholder",
                  "saveAccount", "confirm", "saveFailure"}
    /\ End(c) /\ Returned(c)
    /\ UNCHANGED <<account, created, moved, txs, number, order>>

\* The request is refused: the investor is not approved.
Refused(c) ==
    /\ c \in Sessions /\ at[c] = "none"
    /\ SetupReturns(c)
    /\ UNCHANGED custodyVars

-----------------------------------------------------------------------------
(* Transfers, by admins.                                                    *)

\* Mutant: any account that exists can receive.
FindReceiver_AnyStatus(c) ==
    /\ c \in Transfers /\ at[c] = "none"
    /\ IF account.exists
       THEN /\ held' = [held EXCEPT ![c] = account] /\ Proceed(c, "move") /\ UNCHANGED order
       ELSE order' \in {order, [order EXCEPT !.shows = "pending_custody_account"]}
            /\ UNCHANGED <<held, at>>
    /\ UNCHANGED <<verificationVars, account, wanted, created, moved, txs, number>>

\* transferAsset and createAssetWallet find a whitelisted account; without one the
\* transfer's order is marked as pending.
FindReceiver(c) ==
    /\ c \in Transfers /\ at[c] = "none"
    /\ IF account.exists /\ account.status = "active"
       THEN /\ held' = [held EXCEPT ![c] = account] /\ Proceed(c, "move") /\ UNCHANGED order
       ELSE /\ order' \in {order, [order EXCEPT !.shows = "pending_custody_account"]}
            /\ UNCHANGED <<held, at>>
    /\ UNCHANGED <<verificationVars, account, wanted, created, moved, txs, number>>

\* Mutant: the order is updated before the transaction is recorded.
Move_OrderFirst(c) ==
    /\ at[c] = "move"
    /\ Len(moved) < MaxTransfers
    /\ moved' = Append(moved, held[c].address)
    /\ number' = [number EXCEPT ![c].move = Len(moved) + 1]
    /\ order' = [transfer |-> Len(moved) + 1, shows |-> "submitted"]
    /\ Proceed(c, "saveTransfer")
    /\ UNCHANGED <<verificationVars, account, held, wanted, created, txs>>

\* The provider moves the asset, or opens the wallet, at the account found.
Move(c) ==
    /\ at[c] = "move"
    /\ Len(moved) < MaxTransfers
    /\ moved' = Append(moved, held[c].address)
    /\ number' = [number EXCEPT ![c].move = Len(moved) + 1]
    /\ Proceed(c, "saveTransfer")
    /\ UNCHANGED <<verificationVars, account, held, wanted, created, txs, order>>

Done(c) ==
    /\ Proceed(c, "none")
    /\ held' = [held EXCEPT ![c] = NoAccount]
    /\ number' = [number EXCEPT ![c] = [move |-> 0, status |-> "submitted"]]

\* The transaction is recorded; a transfer for an order goes on to update it.
SaveTransfer(c) ==
    /\ at[c] = "saveTransfer"
    /\ txs' = [txs EXCEPT ![number[c].move] = "submitted"]
    /\ \/ Proceed(c, "updateOrder") /\ UNCHANGED <<held, number>>
       \/ Done(c)
    /\ UNCHANGED <<verificationVars, account, wanted, created, moved, order>>

\* updateOrderCustodyFields: two columns of the order, nothing else.
UpdateOrder(c) ==
    /\ at[c] = "updateOrder"
    /\ order' = [transfer |-> number[c].move, shows |-> "submitted"]
    /\ Done(c)
    /\ UNCHANGED <<verificationVars, account, wanted, created, moved, txs>>

\* handleFireblocksWebhook finds the transaction of a move; one that is not
\* recorded yet is answered transaction_not_found.
Webhook(c) ==
    /\ c \in Transfers /\ at[c] = "none"
    /\ \E i \in Recorded, t \in TxStatuses : number' = [number EXCEPT ![c] = [move |-> i, status |-> t]]
    /\ Proceed(c, "saveStatus")
    /\ UNCHANGED <<verificationVars, account, held, wanted, created, moved, txs, order>>

\* The status is written whatever the transaction's is by now.
SaveStatus(c) ==
    /\ at[c] = "saveStatus"
    /\ txs' = [txs EXCEPT ![number[c].move] = number[c].status]
    /\ Done(c)
    /\ UNCHANGED <<verificationVars, account, wanted, created, moved, order>>

TransferFails(c) ==
    /\ at[c] \in {"move", "saveTransfer", "updateOrder", "saveStatus"}
    /\ Done(c)
    /\ UNCHANGED <<verificationVars, account, wanted, created, moved, txs, order>>

-----------------------------------------------------------------------------
Setup(c) ==
    \/ Request(c) \/ Find(c) \/ AssertProvider(c) \/ CreateAccount(c)
    \/ SavePlaceholder(c) \/ SaveAccount(c) \/ Confirm(c) \/ SetupThrows(c) \/ SaveFailure(c)
    \/ SetupFails(c) \/ Refused(c)

Transfer(c) ==
    \/ FindReceiver(c) \/ Move(c) \/ SaveTransfer(c) \/ UpdateOrder(c)
    \/ Webhook(c) \/ SaveStatus(c) \/ TransferFails(c)

CustodyNext ==
    \/ \E s \in Sessions : Step(s) /\ UNCHANGED custodyVars
    \/ \E c \in Callers : Setup(c) \/ Transfer(c)

CustodySpec == CustodyInit /\ [][CustodyNext]_allVars

-----------------------------------------------------------------------------
CustodyTypeOK ==
    /\ TypeOK
    /\ account \in Accounts
    /\ at \in [Callers -> {"none", "find", "assertProvider", "create",
                            "savePlaceholder", "saveAccount", "confirm", "saveFailure",
                            "move", "saveTransfer", "updateOrder", "saveStatus"}]
    /\ held \in [Callers -> Accounts]
    /\ wanted \in [Callers -> Providers]
    /\ created \subseteq Addresses
    /\ moved \in Seq(Addresses \cup {NoAddress}) /\ Len(moved) <= MaxTransfers
    /\ txs \in [1..MaxTransfers -> TxStatuses \cup {"none"}]
    /\ number \in [Callers -> [move : 0..MaxTransfers, status : TxStatuses]]
    /\ order \in [transfer : 0..MaxTransfers,
                   shows : {"none", "pending_custody_account", "submitted"}]

\* The providers that are not connected fail closed: an account is ready for use
\* only with an address that a connected provider has created, however setups,
\* retries and provider changes overlap.
FailClosed == account.status = "active" => account.provider \in Connected /\ account.address \in created

\* Assets go only to addresses the provider has created, even when the account was
\* set up again or failed while the transfer was under way.
MovedToCreated == \A i \in DOMAIN moved : moved[i] \in created

\* What the books say has happened: a transaction is recorded, and named by an
\* order, only after the provider has moved the asset.
BooksFollowMoves ==
    /\ \A i \in Recorded : i <= Len(moved)
    /\ order.transfer # 0 => order.transfer \in Recorded

\* Custody is set up only for an investor cleared by Sumsub and an admin, or let in
\* by the test override: the setup reads the eligibility another save may have
\* stored.
AccountWasCleared ==
    account.exists => (green # {} /\ reviewed) \/ (OverrideEnabled /\ overridden)
=============================================================================
