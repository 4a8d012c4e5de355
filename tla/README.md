# RegenX platform: a verification project in TLA+

This directory models the parts of the RegenX platform (`core-api`, a NestJS
service over Postgres that uses the Stellar network) in which several calls,
several tables and outside parties must agree: the ownership ledger, primary purchases,
the preparation and issuance of a project's tokens, distributions to investors,
the verification of investors and their custody accounts, and the client of the
AUDD payment rail.
TLC checks small instances; TLAPS proves the main safety properties for every
value of the constants.

`PROJECT.json` is the index: components, runs, a mutant for every property, the
source lines of every definition, findings, hazards and theorems. All source
paths below are relative to `src/core-api/src/modules` unless they say otherwise.

## 1. The system

### Components, their state and what makes them correct

| Component | State | Operations | Correct when |
|---|---|---|---|
| Ownership ledger (`ownership`) | `ownership` rows: seller inventory, buyer positions | `applyLedgerTransferTransactional`, the only multi-statement database transaction | no oversell, no lost update, one row per buyer, all or nothing |
| Primary purchase (`ownership`, `order`, `contract`, `transaction`, Stellar adapter) | `orders`, `ownership_transaction`, `transactions`; the network's view of an envelope | buy (custody), build / submit (self-custody), cancel, order status handlers | ledger, books, order and chain agree, whatever fails in between |
| Project issuance (`project`, `asset`) | the `project` row, issuer sequence number, distributor balance, inventory position | create, edit, submit, review, lock, custody block, issue, go live | what is offered exists, is offered once, and only issued projects are sold |
| Distributions (`distribution`) | event, entitlements, payouts, records | create event, calculate, investor GETs that backfill | shares are earned, sum to the net amount, and the three tables agree |
| Custody (`custody`) | custody accounts and custody transactions | get-or-create account, provider change and retry, transfer, asset wallet, webhook | only cleared investors have one, a failed set-up is never usable, assets go to existing addresses, the books follow the moves |
| Investor verification (`investor-verification`) | one row per investor: Sumsub status, admin status, wholesale status, overrides | certificate upload, applicant, Sumsub update, admin review, overrides | only approved investors invest; a later rejection wins |
| Custody change requests, wallet configuration (`project`, `developer-profile`) | request rows, profile, project row | request, review, wallet update, block and clear | an approved request has been applied, the mode in use was approved, a blocked project looks incomplete |
| AUDD client (`audd`) | in-memory token set and one authentication promise | login with MFA, refresh, authenticated request with retries | one authentication at a time, refresh tokens used once, bounded retries that survive single troubles |
| Offers (`offer`) | `offer` rows mirroring a contract | create, reprice, cancel, buy | an offer is not bought twice, sellers own what they offer |
| SPV, series, token symbols (`spv`) | SPV, roles, series | prepare, create, update, link, roles, readiness, series creation | no role loses its assignment, only approved SPVs are ready, one series per project, symbols without gaps |
| Project readiness, returns (`project`) | five section rows and one derived issuance row | save section, recalculate, calculate returns | derived row matches its sections |
| Developer profiles, legal entities, support tickets, notifications, users | one row each | row edits | last write wins by design |
| Auth, files, Sumsub client, health, response wrapping | none of their own | calls to third parties, guards | stateless |
| Web client (`src/core-ui`) | browser state | calls the API | out of scope |

Interactions. The web client calls controllers; services call one another
directly and await every database statement, Stellar call and notification.
A purchase calls order, contract and transaction services; issuance calls SPV and
asset services and seeds the ownership ledger that purchases sell from and that
distributions read; approval of an investor calls custody. Custody providers and
Sumsub call back through webhooks. There are no queues and no jobs: nothing resumes
work that a crashed or failed call has left behind.

### What is hard here

* **No transactions outside the ledger.** A handler is a sequence of separate
  statements; others run at every `await`, and a failure or a crash keeps what was
  written before it.
* **Whole-entity saves.** `findOne`, change, `save(entity)` writes every column
  that differs from the database, so a stale entity undoes what others have
  committed (TypeORM 0.3).
* **A network with its own time.** Envelopes are applied or rejected after the
  request has stopped polling; answers are lost; mints share a sequence number.
* **Check then insert.** Duplicate checks precede their inserts by an await; only
  some have a unique index behind them.

The list of hazards with their lines is in `PROJECT.json`.

## 2. Modules

| Module | Models | Kind |
|---|---|---|
| `OwnershipLedger` | what the ledger promises: atomic transfers or refusals | abstract specification |
| `LedgerTransfer` | the transaction, statement by statement, with row locks | implements `OwnershipLedger` |
| `Purchase` | both purchase flows, orders, books, network | extends `OwnershipLedger` |
| `Issuance` | the project row, `issueProject`, the mint, the inventory | own state |
| `Distribution` | one distribution event | extends `OwnershipLedger` |
| `Verification` | one investor's record: Sumsub, admin review, override, eligibility | own state; also the abstraction `Custody` implements |
| `Custody` | the custody account, its transfers and webhooks | extends `Verification` |
| `AuddSession` | token cache, shared authentication, requests and retries | own state |
| `ProjectRow` | the shared project row: load, change, save whole | used by the next three |
| `SpvSeries` | SPVs, roles, readiness, series and symbols | extends `ProjectRow` |
| `CustodyConfig` | custody requests, reviews, wallet configuration, block | extends `ProjectRow` |
| `IssuancePrep` | both on one row, with the gates and the save of `issueProject` | composes the two |
| `MC...` | instances for TLC | constants, symmetry |
| `...Proofs` | theorems | extend their module and TLAPS |

Composition follows the code: `LedgerTransfer` is shown to implement
`OwnershipLedger`, and `Purchase` and `Distribution` use the abstract ledger's
`Transfer` as the one step that it is for them. `Custody` adds its variables to
`Verification` and is proved to implement it: an approval of an admin calls custody
and waits, and whatever custody does meanwhile is a stutter of the verification.
`IssuancePrep` puts the SPV and the custody handlers on the same row, because each of
them may save what it read before the other changed it; `Issuance` is what comes
after its gate.

### OwnershipLedger and LedgerTransfer

`ownership/application/service/ownership.service.ts:569-712`. One request is one
database transaction: `Begin`, `ReadSeller` (row lock), `SellerGone` or
`Insufficient` (the two exceptions), `DebitSeller`, `FindBuyer` (row lock) or
`NewBuyer`, `Commit`. `Abort` is a lost connection at any statement. A draft holds
what the transaction has read and will write; it becomes visible at `Commit`, as in
Postgres at READ COMMITTED. A locking read waits for the lock and then sees the
committed row, so a seller that another purchase has just sold out is not found.

`OwnershipLedger` has only `Transfer` and `Refuse`. The refinement mapping reads
inventory from the seller row, holdings from the buyer's row and outcomes from the
program counters; `Commit` is the transfer.

### Purchase

`buyPosition` (`Begin`, then submit, `Record`, settle, `Ledger`, `Book`, `Fee`,
complete) and `submitBuyTransaction` (`Create` or an order from `BuildBuy`, submit,
`Dedupe`, record, `Send`, `Poll`, `ContractBook`, settle, `Ledger`, `Book`, `Fee`,
`SettleRow`, complete; `FailRow` and `Fail` are its catch block). `Load` and `Save`
are the two halves of every order handler; `CancelLoad` and `CancelSave` those of
a cancel call. `Close` is the network. `Send` and `Poll` follow
`common/infrastructure/stellar/stellar.transaction.adapter.ts`: only PENDING is
accepted, fifteen polls, NOT_FOUND is a failure.

Abstractions. Cash is an amount that is zero or not, as that is what the code
branches on. The two saves of `createPendingSignatureOrder` are one. Eligibility and
project status are checked before the first write and are not modelled after it.
A notification that throws after a save is not modelled separately. An envelope,
once rejected or applied, stays so.

### Issuance

`project/application/service/project.service.ts` and `asset.service.ts`. `Load` and
`Save` are the ordinary handlers: what each may save is `Edits` (developer),
`Reviews` and `Blocks` (admin). `issueProject` is `IssueLoad`, `Preflight` (the
distributor's balance decides between minting, seeding only and finishing),
`SavePending`, `Build` (loads the issuer's sequence number), `Submit`, `Answered`,
`Seed`, `Finish`, `Serialize`; `Throw` leads to `SaveFailed`. A call that fails or
crashes after `Submit` leaves an orphan that the network may still apply. `OtherMint`
is the developer mint of the asset service, which uses the same issuer account.
`Sell` is a purchase of one unit, as `Purchase` has it.

Abstractions. Of the row only status, issuance status and the custody block are
kept. Wallet configuration, custody requests and SPV links save the same row: they are
in `IssuancePrep`, which keeps those columns and takes the status as approved. Soft
deletion, the version row and notifications are not modelled.

### Distribution

`distribution/application/service/distribution.service.ts`. A calculation is
`ReadPositions`, `DeleteEntitlements`, `DeletePayouts`, `SaveEntitlements`,
`SavePayouts`, then `syncRecordsForEvent` (`DropRecords`, or `ReadRecords`,
`SaveRecords`, `Prune`), then `Finish`. An investor's GET is `CountRecords`,
`ReadEntitlements` and the same sync. Ledger transfers happen at any time; `Fail`
stops a call at any await. A share is kept as units of a total; a record is known by
the call that inserted it and by its position, which stands for its id.

Abstractions. One event; the event's columns never change after creation, so they
are constants, and its amount is positive. Series filters and floating-point
rounding (the code's own tolerance is 0.000001) are left out. `recordRepo.save` is one
step; it is one database transaction, though its initial SELECT is outside it. No
code settles payouts or completes or cancels an event, so those states are unreachable.

### Verification

`investor-verification/investor-verification.service.ts`. A session is one request of
the investor, of an admin or of Sumsub. It finds the record, changes it and saves it
whole, so `loaded` is what it will write and others run between the two. `Derived` is
the eligibility computed from both approvals and the override, and is stored on load
when it differs, as in `normalizeLegacyStatuses`. An approval goes on to custody and
returns to the review (`SetupReturns`). Sumsub is external: it creates applicants and
reports a result for one, in any order and as often as it likes.

Abstractions. Documents, wholesale certificates and names are left out but for the
steps in which their handlers save the record. Notifications and e-mails change nothing here.

### Custody

`custody/application/service/custody-account.service.ts` and the providers. A set-up is
`Request`, `Find`, the test of the provider, `CreateAccount`, `SaveAccount` (or
`SavePlaceholder` for a provider that is not connected), `Confirm`; `SetupThrows` and
`SaveFailure` are its catch block. A transfer asks the provider to move and records the
move afterwards; a webhook looks its transaction up and saves a status. Any call may
stop at any await.

Abstractions. The provider is external: an address, once created, exists. One investor;
every address, move and recorded transaction is known by its number. Amounts and assets
are left out. Of the transaction's statuses a few are enough, as none is treated apart.

### AuddSession

`audd/audd.service.ts`. Requests run between awaits without interruption. `GetToken` takes
a fresh token or joins the login or refresh under way (`Authenticate`, the
`authPromise`); `LoginAnswered`, `LoginFails`, `RefreshAnswered` and `RefreshFails` settle
it and resume all who wait in one step, as the microtask queue does. `Unauthorized`
refreshes once, `ServerError` and `Wake` are the backoff, and `LastAttempt` the bound.
Token sets are numbers in the order of their issue.

Abstractions. AUDD is external and may revoke any token and fail as often as `MaxTroubles`
allows. TOTP codes, parsing and the length of the backoff are left out; being
fresh is a flag that a step of time takes away. The only caller in the
code today is the GET of the users; the model has as many requests as one likes.

### ProjectRow, SpvSeries, CustodyConfig and IssuancePrep

`spv/application/spv.service.ts`, the custody handlers of `project.service.ts` and
`developer-profile`. `at` is the await a session is at and `held` the row it has
loaded. Preparing an SPV is `FindSpv` to `InsertSuggested`, called by `Prepare`, by
`CreateSpv`, by the linkage (`LinkSave`, `LinkFind`, `LinkSpvSave`) and by the creation of
a series. `FindLinks`, `Unprimary` and `InsertRole` replace a role; `RejectSave` rejects
one; `Gate` to `GateSave` are `assertSpvReadyForIssuance`; `FindSeries` to `Duplicate` are
`createSeriesForProject`, whose loop over token symbols ends in `GiveUp`. In
`CustodyConfig` a request is asked for (`AskSave`, `AskInsert`), reviewed
(`ReviewProfile`, `ReviewProject`, `ReviewSave`) and applied (`LoadWallet`, `SaveWallet`);
`MarkSave`, `BlockSave` and `ClearSave` write the block and the setup status.
`IssueGate` and `IssueSave` are what `issueProject` does with the row before and after
the mint.

Abstractions.

* Legal entities and their completeness: an approved role stands for one whose entity is
  complete. `linked` is `suggested`, as neither is approved. Alternatives among the
  accepted roles and the mismatch of a provider's group with the custody model are left out:
  every role is both created by default and required.
* What the client sends (`core-ui`, `SpvDetail.tsx:179-196`, `250-262`): roles are linked with
  status `approved` and no `isPrimary`; an SPV form always has a status. `createSpv` does
  not test the status `ready`, but the form offers it only for an existing SPV, so
  the model creates SPVs that are not ready. SPVs are created for a project.
* The configuration of wallets is a custody mode, complete once the project has an SPV.
  Wallet addresses and audit rows are left out. The profile's other edits save it whole, as
  `AskSave` does. There is one token prefix. The project's status is taken as approved.
* A save writes the whole entity that was loaded (TypeORM reads the row again and writes
  the columns that differ). No action is a failure: a session may stop anywhere.

## 3. What the runs check

| Run | Instance | Shows |
|---|---|---|
| `ledger_transfer` | 3 requests, 2 buyers, amounts 1 and 2, supply 3, aborts | the transaction implements atomic transfers, keeps one row per buyer and ends |
| `purchase` | 2 requests of five kinds, 3 orders, 1 cancel call, 2 envelopes | completed orders moved tokens, ledger never ahead of the chain, one move per envelope, nothing booked that did not happen |
| `purchase_live` | unfunded purchases with their own orders, no cancel | every request is answered; every move completes its order |
| `issuance` | 1 admin and 1 developer session, supply 2, 3 sequence numbers, 4 sales, crashes | inventory and sales add up to the supply through every failure, retry and late mint; nothing is offered before it is minted or live before it is issued; calls end |
| `distribution` | 2 calculations, 2 GETs, 2 purchases, supply 3, crashes | records are earned and within the net amount; an undisturbed recalculation or GET repairs |
| `custody` | 1 verification session at a time, 1 retry, 1 transfer caller, 2 addresses, 1 applicant, 1 move | only cleared investors buy or get an account; a failed set-up is not usable; moves go to created addresses and the books follow them |
| `audd` | 3 requests, 3 troubles | one authentication at a time, newest token cached, refresh token presented once, failures only after more than the retries are for; requests end |
| `prep` | 2 projects, 2 sessions, 3 calls, 1 role, 2 attempts at a symbol | roles stay assigned; ready and locked projects were approved; symbols count up; approved requests are applied; a blocked project looks incomplete |

Runs that are expected to fail record disagreements between code and documents,
messages or tests; the quotations are in `PROJECT.json` under `findings`.

| Run | Shows |
|---|---|
| `purchase_funded` | a purchase that costs money moves tokens but its order never completes: the transaction's id is not in the serialised response |
| `purchase_aligned` | an envelope applied after polling has stopped, or whose answer was lost, never moves the ledger |
| `issuance_retry` | a failure after the mint leaves a row that is issued and failed, with no way on |
| `distribution_twice` | two overlapping calculations leave two sets of payouts |

### Bounds, and why they are enough

Two or three concurrent calls are enough for every pairwise race and for a third
party that observes or repairs. Amounts 1 and 2 against a supply of 2 or 3 reach the
sold-out row, the refused purchase and the partial sale. `MaxSeq` bounds mints and
foreign mints together: three allow a late mint, a foreign one and a retry.
`MaxSold` exceeds the supply by two, so overselling is reachable where nothing
prevents it. Requests and distribution calls run once each; repeated calls are
different elements of the set. Symmetry is used only in runs without liveness.

`custody`: the session begins again after every request, so uploads, reviews and
webhooks follow one another in every order, and each overlaps a retry and a transfer caller
at every await. Two addresses let a retry replace the first, and one move is enough
to be recorded late, twice or not at all. Two verification sessions that hold stale records
are covered by the theorems, for any number.

`audd`: three requests make a leader, a follower and one that comes late. Three
troubles reach every failure that two server errors, a revocation, an expiry or a lost
answer can make. `MaxTokens` is 12 and no run issues as many.

`prep`: three calls let two sessions overlap and a third call see, or use, what they have
left; a session stops after the last, so the run does not look for deadlock. It
begins with one prepared project, or with an issued one that has lost its lock to a stale save
and has a request waiting. The code tries five symbols, the run two: the bound is a
constant, and two are lost to two projects. One role (the sponsor, the one with the
longest handler) suffices for the races of its rows; roles meet only in readiness,
which is a conjunction over them. More projects, sessions, calls, roles and attempts are
covered by the theorems of `IssuancePrepProofs`. Races of more admins in `issuance` are left to the
theorems `MintedFirst` and `CompletedFirst`, which hold for any number.

### Fairness

`FairSpec` assumes weak fairness of the steps of calls that have begun: the event
loop runs continuations, Postgres answers or fails, HTTP clients time out, and
polling is bounded. Nothing is assumed of the network (`Close`, `Apply`), of users
starting calls, or of lock acquisition order: a transaction waiting for a lock is
helped because the holder's own step is fair. In `Issuance` a crash is possible but never
forced, and `CallsEnd` holds because a crash also ends the call. The ledger run
assumes no crash, since a crashed call never answers; `Abort` there is a rollback.

`AuddSession!FairSpec` is weak fairness of the steps of a request and of the login or refresh
it has begun: every HTTP call of the client has a timeout of 30 seconds, the backoff is
a timer, and attempts are counted. It does not oblige AUDD to answer well: fairness
is of the disjunction, and a failure is one of its disjuncts.

`Purchase!RequestsEnd` and `MovedCompletes` are for runs without crashes: a request whose process
has died is one that takes no further step, which `Spec` allows and `FairSpec` does not.

## 4. What is proved

| Module | Theorems | Argument |
|---|---|---|
| `LedgerTransferProofs` | `TypeCorrect`, `SingleRow`, `SellerNotFound`, `Refinement` | invariant: whoever is inside the transaction holds the seller lock, and its draft agrees with the committed rows; inactive means sold out |
| `PurchaseProofs` | `TypeCorrect`, `CompletedOrders`, `ChainFirst`, `EnvelopeOnce`, `BooksSound`, `SettledRows`, `PurchasesUseLedger` | invariant: the await a request has reached records what must have happened (ledger moved, envelope applied), and one request holds an envelope |
| `IssuanceProofs` | `TypeCorrect`, `MintedFirst`, `CompletedFirst` | invariant over loaded entities: one that will be saved as completed or live was loaded after a mint or a completion |
| `IssuanceProofs` | `NeverOversold` | as above for one admin and one developer (`OneSession`): where the admin is determines whether inventory plus sales is the supply or nothing was sold |
| `DistributionProofs` | `TypeCorrect`, `Earned`, `NeverOverNet` | invariant: views, entitlements and records are all covered by holdings, which only grow; investors have at most one record each, so their sum is at most the supply |
| `DistributionProofs` | `Repairs`, `Heals` | `RepairInv`: what a caller that nobody has overlapped has done so far stands in the tables, await by await; both last steps follow from it |
| `DistributionProofs` | `LedgerConserves`, `DistributionsUseLedger` | every step of a distribution is a step of `OwnershipLedger` or leaves it alone, and there inventory plus holdings is the supply |
| `DistributionProofs` | `PaidOnce` | if no two calculations run at once (`OneCalculation`): the tables a calculation saves into are empty, and the rows it saves are no more than the supply |
| `VerificationProofs` | `SumsubFirst`, `InvestorsCleared` | invariant: every entity a session holds is as well founded as the stored one: an admin's approval in it came after Sumsub's |
| `CustodyProofs` | `CustodyTypes`, `CustodyImplementsVerification`, `FailsClosed`, `MovesAreGood`, `AccountsCleared` | every step is a step of `Verification` or a stutter; invariant: an active account held by any caller names a created address, and whoever sets up or moves has passed the test |
| `AuddProofs` | `TypeCorrect`, `AuthenticatesOnce`, `KeepsNewest`, `PresentsOnce`, `SurvivesAll` | invariant: the shared promise is that of the one operation under way and whoever waits, waits for it; the attempts of a request are its server errors plus its refresh, after which it uses only later tokens |
| `IssuancePrepProofs` | `TypeCorrect` | `ShapeInv`: stored rows and every copy a session holds have their shape, and the symbol attempts are counted (`TriesInv`) |
| `IssuancePrepProofs` | `SymbolsWithoutGap`, `GivesUpOnlyBeaten` | `SeriesInv`: the k-th series has number k, and a session that has lost n attempts has read a number above n or sees its project with a series |
| `IssuancePrepProofs` | `ApprovalsAreApplied`, `ModeInUseWasApproved` | `RequestsInv`: a decision a session holds but has not saved is of the request it names, and an approval about to be saved has been applied |
| `IssuancePrepProofs` | `BlockedStaysOpen`, `ReadySpvWasApproved`, `LockedProjectWasReady`, `RolesStayAssigned` | `RowsInv`: every row a session has loaded is as good as a stored one, and what makes it good (SPVs, approved roles, projects with a series, the names of role rows) only grows; then `RolesKept`, role by role |

Each component has one type invariant. Where it is proved, no run repeats it.

The properties are not inductive alone: a handler saves what it read long before, so
the invariants speak about every place where a value waits to be written. They
rest on the named assumptions of the modules (`LedgerAssumption`,
`TransferAssumption`, `PurchaseAssumption`, `IssuanceAssumption`,
`DistributionAssumption`, `VerificationAssumption`, `CustodyAssumption`, `AuddAssumption`,
`RowAssumption`, `SeriesAssumption`), which TLC evaluates in the runs. Those of
`Distribution` include that the buyers are finitely many, which any database is, and
that a caller is a calculation or a reader, not both.

Two theorems have a hypothesis the code does not enforce, and a run that shows what happens
without it: `NeverOversold` rests on `OneSession` (with two sessions the second
issuance can seed the inventory again after sales, see below), and `PaidOnce` on
`OneCalculation` (`distribution_twice` has two overlapping calculations pay twice). `PaidOnce`
says the overlap is the only cause: failures and crashes between two awaits, purchases
and readers alone never make the payouts exceed the net amount.

Totals are sums over sets, and what a sum is needs induction over the set. The
theorems of the library that take a predicate cannot be used, so
`DistributionProofs` states induction as `FiniteInduction`, for a set of subsets, from the
well-foundedness of the subset ordering; `UnitsAreTotal` and the lemmas after it then
relate the rows of a table to what is held. `LedgerConserves` is a theorem about the
abstract ledger: `Refinement` carries it to the transfers of `LedgerTransfer`,
`PurchasesUseLedger` to those of `Purchase`.

Only model-checked: liveness (`TransferEnds`, both `RequestsEnd`, `MovedCompletes`,
`CallsEnd`), which needs fairness and `ENABLED`. Every invariant and every action
property of a passing run is stated by a theorem.

## 5. Known behaviour without a property

These follow from the source and are visible in the models, but no document of the
repository says otherwise, or the property would fail for the reason already shown.

* An order in a final status can be overwritten by a handler that loaded it earlier.
* A crash after `issuanceStatus = 'pending'` was saved blocks every later attempt.
* With two overlapping issuances the supply is minted twice, and the inventory can be
  seeded again after sales have begun; a late mint that lands between the balance
  read and the sequence number read of a retry also mints twice.
* A stale save can unlock a locked project or lose a custody block.
* The null-user inventory takes part in the division of a distribution: it has an
  entitlement and a payout but no record.
* A funded self-custody purchase is booked by two BUY rows: the contract service books one
  with a reference it reads as `hash` where the response has `txHash`
  (`contract/application/service/contract.service.ts:157`), the ownership service another
  (`ownership.service.ts:504`).
* A webhook's status is saved unconditionally: a delayed `submitted` takes back a confirmed
  transfer. The provider moves assets before the transaction is saved, so a failed
  save leaves a move unrecorded, and a repeated call moves again.
* A forced retry gives an account a new address, though the documents speak of one wallet
  per verified investor; assets moved before are at an address the account no longer names.
* A stale save can restore an approval that was overturned, by an admin or by
  Sumsub. What remains true is that the approval was once given (`SumsubBeforeAdmin`).
* The eligibility `suspended` becomes `blocked` at the next load that normalises it.
* The block that a review clears is cleared on an entity nobody saves
  (`project.service.ts:3632`). A block can be lost to any stale save.
* Two preparations of one project may create two SPVs; the row names the last.
* If a refresh revokes older access tokens, requests that still use one fail over in a
  cascade: two revocations are more than a request survives.
* For an event over part of the ledger the divisor depends on when a calculation ran.

## 6. What is left

Done: ledger, purchases, issuance and its preparation, distributions, verification,
custody, the AUDD client, and their main theorems.

Possible next: project readiness, five sections upserted by project and one row
derived from them. No code of the issuance reads the derived row, so a stale one
misleads only the form.

Not modelled, and why:

* Offers: their rows mirror results of a contract, and an indexer, that are not in the
  repository. A model would have to invent what they do.
* The return formulas: floating point without state.
* Tickets, notifications, legal entities, users and the fields of profiles: one row,
  and the last save wins.
* Authentication, files and the Sumsub client: calls without state of their own.
* The web client: it calls the API one request at a time, and two tabs are two requests of
  the models.

## 7. Running

```
tlc -workers 2 -config MCPurchase.cfg MCPurchase
tlapm PurchaseProofs.tla
```

Every run ends within three minutes on two cores.
