----------------------------- MODULE CustodyProofs -----------------------------
(* Theorems of Custody, for any callers, providers and numbers of transfers.   *)
EXTENDS Custody, VerificationProofs, SequenceTheorems

(***************************************************************************)
(* Every account a caller holds may be saved or used awaits after it was   *)
(* found, so it has to be as good as the stored one: an active account     *)
(* names an address that exists.  Addresses, moves and recorded            *)
(* transactions never disappear, nor does the clearance of the investor.   *)
(***************************************************************************)
Ready(a) == a.status = "active" => a.provider \in Connected /\ a.address \in created

SettingUp == {"find", "assertProvider", "create", "savePlaceholder", "saveAccount", "confirm",
              "saveFailure"}

CallerOK(c) ==
    /\ Ready(held[c])
    /\ at[c] \in SettingUp => Cleared
    /\ at[c] = "create" => wanted[c] \in Connected
    /\ at[c] = "move" => held[c].status = "active"
    /\ at[c] = "saveTransfer" => number[c].move \in 1..Len(moved)
    /\ at[c] \in {"updateOrder", "saveStatus"} => number[c].move \in Recorded

StoreOK ==
    /\ Ready(account)
    /\ account.exists => Cleared
    /\ MovedToCreated
    /\ Recorded \subseteq 1..Len(moved)
    /\ order.transfer # 0 => order.transfer \in Recorded

CustodyInv ==
    /\ CustodyTypeOK /\ VerificationInv
    /\ StoreOK
    /\ \A c \in Callers : CallerOK(c)

-----------------------------------------------------------------------------
\* Every step of the composition is a step of Verification or leaves it alone.
LEMMA ReturnedImplements ==
    ASSUME NEW c, Returned(c) PROVE [Next]_verificationVars
  BY DEF Returned, Next

LEMMA SetupImplements ==
    ASSUME NEW c \in Callers, Setup(c) PROVE [Next]_verificationVars
  <1>1. CASE Request(c)
    BY <1>1 DEF Request
  <1>2. CASE Find(c)
    BY <1>2, ReturnedImplements DEF Find
  <1>3. CASE AssertProvider(c)
    BY <1>3, ReturnedImplements DEF AssertProvider
  <1>4. CASE CreateAccount(c)
    BY <1>4 DEF CreateAccount
  <1>5. CASE SavePlaceholder(c)
    BY <1>5, ReturnedImplements DEF SavePlaceholder
  <1>6. CASE SaveAccount(c)
    BY <1>6 DEF SaveAccount
  <1>7. CASE Confirm(c)
    BY <1>7, ReturnedImplements DEF Confirm
  <1>8. CASE SetupThrows(c)
    BY <1>8 DEF SetupThrows
  <1>9. CASE SaveFailure(c)
    BY <1>9, ReturnedImplements DEF SaveFailure
  <1>10. CASE SetupFails(c)
    BY <1>10, ReturnedImplements DEF SetupFails
  <1>11. CASE Refused(c)
    BY <1>11 DEF Refused, Next
  <1> QED
    BY <1>1, <1>2, <1>3, <1>4, <1>5, <1>6, <1>7, <1>8, <1>9, <1>10, <1>11 DEF Setup

LEMMA TransferImplements ==
    ASSUME NEW c \in Callers, Transfer(c) PROVE UNCHANGED <<verificationVars, account, wanted, created>>
  BY DEF Transfer, FindReceiver, Move, SaveTransfer, UpdateOrder, Webhook, SaveStatus, TransferFails

LEMMA StepImplements == [CustodyNext]_allVars => [Next]_verificationVars
  <1> SUFFICES ASSUME [CustodyNext]_allVars PROVE [Next]_verificationVars
    OBVIOUS
  <1>1. CASE UNCHANGED allVars
    BY <1>1 DEF allVars
  <1>2. CASE \E s \in Sessions : Step(s) /\ UNCHANGED custodyVars
    BY <1>2 DEF Next
  <1>3. CASE \E c \in Callers : Setup(c) \/ Transfer(c)
    BY <1>3, SetupImplements, TransferImplements
  <1> QED
    BY <1>1, <1>2, <1>3 DEF CustodyNext

\* Custody interferes with verification in no way: the composition implements the
\* specification of Verification.
THEOREM CustodyImplementsVerification == CustodySpec => Spec
  <1>1. CustodyInit => Init
    BY DEF CustodyInit
  <1> QED
    BY <1>1, StepImplements, PTL DEF CustodySpec, Spec

-----------------------------------------------------------------------------
LEMMA ClearedStays ==
    ASSUME VerificationInv, [Next]_verificationVars PROVE Cleared => Cleared'
  <1>1. CASE Next
    <2>1. PICK s \in Sessions : Step(s) \/ SetupReturns(s)
      BY <1>1 DEF Next
    <2>2. green \subseteq green' /\ (reviewed => reviewed') /\ (overridden => overridden')
      <3>1. CASE InvestorEdit(s) \/ SwitchOverride(s) \/ AdminReview(s)
        <4>1. UNCHANGED green
          BY <3>1 DEF InvestorEdit, SwitchOverride, AdminReview, Hold
        <4>2. (reviewed => reviewed') /\ (overridden => overridden')
          <5>1. CASE InvestorEdit(s)
            BY <5>1 DEF InvestorEdit
          <5>2. CASE SwitchOverride(s)
            <6>1. reviewed' = reviewed /\ \E b \in BOOLEAN : overridden' = (overridden \/ b)
              BY <5>2 DEF SwitchOverride
            <6> QED
              BY <6>1
          <5>3. CASE AdminReview(s)
            <6>1. overridden' = overridden /\ \E d \in Decisions : reviewed' = (reviewed \/ d = "approved")
              BY <5>3 DEF AdminReview
            <6> QED
              BY <6>1
          <5> QED
            BY <3>1, <5>1, <5>2, <5>3
        <4> QED
          BY <4>1, <4>2
      <3>2. CASE \E a \in 1..MaxApplicants : SumsubWebhook(s, a)
        BY <3>2 DEF SumsubWebhook
      <3>3. CASE UNCHANGED <<green, reviewed, overridden>>
        BY <3>3
      <3>4. \/ InvestorEdit(s) \/ SwitchOverride(s) \/ AdminReview(s)
            \/ \E a \in 1..MaxApplicants : SumsubWebhook(s, a)
            \/ UNCHANGED <<green, reviewed, overridden>>
        BY <2>1 DEF Step, Create, Insert, StartSumsub, BindApplicant, Save, SaveApproval, Notify,
                    CheckInvestor, Invest, Fail, SetupReturns
      <3> QED
        BY <3>1, <3>2, <3>3, <3>4
    <2> QED
      BY <2>2 DEF Cleared
  <1>2. CASE UNCHANGED verificationVars
    BY <1>2 DEF verificationVars, Cleared
  <1> QED
    BY <1>1, <1>2

\* A stored record that reads as approved is of an investor who has been cleared.
LEMMA ApprovedIsCleared ==
    ASSUME VerificationInv,
           row.eligibility = "approved" \/ (row.sumsub = "approved" /\ row.admin = "approved")
    PROVE  Cleared
  BY DEF VerificationInv, AllSound, Sound, Cleared

LEMMA EmptyAccount == NoAccount \in Accounts /\ Ready(NoAccount) /\ ~NoAccount.exists
                      /\ DefaultProvider \in Providers
  BY CustodyAssumption DEF NoAccount, Accounts, Providers, Ready

LEMMA CustodyInitInv == CustodyInit => CustodyInv
  <1> SUFFICES ASSUME CustodyInit PROVE CustodyInv
    OBVIOUS
  <1> USE EmptyAccount
  <1>1. VerificationInv
    BY InitInv DEF CustodyInit
  <1>2. moved \in Seq(Addresses \cup {NoAddress}) /\ Len(moved) = 0 /\ DOMAIN moved = {}
    BY DEF CustodyInit
  <1>3. CustodyTypeOK
    BY <1>1, <1>2, CustodyAssumption DEF CustodyInit, CustodyTypeOK, VerificationInv
  <1>4. Recorded = {}
    BY DEF CustodyInit, Recorded
  <1>5. StoreOK
    BY <1>2, <1>4 DEF CustodyInit, StoreOK, MovedToCreated
  <1>6. \A c \in Callers : CallerOK(c)
    BY DEF CustodyInit, CallerOK, SettingUp
  <1> QED
    BY <1>1, <1>3, <1>5, <1>6 DEF CustodyInv

\* What another caller relies on, when nothing is taken back.
LEMMA OthersKeep ==
    ASSUME CustodyInv, NEW c,
           \A t \in Callers \ {c} : /\ at'[t] = at[t] /\ held'[t] = held[t]
                                    /\ wanted'[t] = wanted[t] /\ number'[t] = number[t],
           created \subseteq created', Cleared => Cleared',
           Recorded \subseteq Recorded', Len(moved) \in Nat, Len(moved)' \in Nat,
           Len(moved) <= Len(moved)'
    PROVE  \A t \in Callers \ {c} : CallerOK(t)'
  <1> TAKE t \in Callers \ {c}
  <1>1. CallerOK(t)
    BY DEF CustodyInv
  <1>2. Ready(held[t])'
    BY <1>1 DEF CallerOK, Ready
  <1>3. (at[t] = "saveTransfer" => number[t].move \in 1..Len(moved))'
    BY <1>1 DEF CallerOK
  <1> QED
    BY <1>1, <1>2, <1>3 DEF CallerOK

-----------------------------------------------------------------------------
\* Steps that touch neither moves nor books: the caller, the account and the
\* addresses are left to check.
LEMMA SetupPreserves ==
    ASSUME CustodyInv, VerificationInv', Cleared => Cleared', NEW c \in Callers,
           UNCHANGED <<moved, txs, number, order>>,
           account' \in Accounts, Ready(account)', account'.exists => Cleared',
           created \subseteq created', created' \subseteq Addresses,
           NEW l \in SettingUp \cup {"none"}, at' = [at EXCEPT ![c] = l],
           NEW h \in Accounts, held' = [held EXCEPT ![c] = h],
           NEW w \in Providers, wanted' = [wanted EXCEPT ![c] = w],
           Ready(held[c])', l # "none" => Cleared', l = "create" => w \in Connected
    PROVE  CustodyInv'
  <1>1. CustodyTypeOK
    BY DEF CustodyInv
  <1>2. CustodyTypeOK'
    BY <1>1 DEF CustodyTypeOK, VerificationInv, SettingUp
  <1>3. Recorded' = Recorded /\ Len(moved)' = Len(moved) /\ Len(moved) \in Nat
    BY <1>1 DEF Recorded, CustodyTypeOK
  <1>4. StoreOK'
    BY <1>3 DEF StoreOK, CustodyInv, MovedToCreated
  <1>5. \A t \in Callers \ {c} : CallerOK(t)'
    <2>1. \A t \in Callers \ {c} : /\ at'[t] = at[t] /\ held'[t] = held[t]
                                   /\ wanted'[t] = wanted[t] /\ number'[t] = number[t]
      BY <1>1 DEF CustodyTypeOK
    <2>2. Recorded \subseteq Recorded' /\ Len(moved)' \in Nat /\ Len(moved) <= Len(moved)'
      BY <1>3
    <2> HIDE DEF CustodyTypeOK
    <2> QED
      BY <2>1, <2>2, <1>3, OthersKeep
  <1>6. CallerOK(c)'
    BY <1>1 DEF CallerOK, CustodyTypeOK, SettingUp
  <1> QED
    BY <1>2, <1>4, <1>5, <1>6 DEF CustodyInv

\* A step that ends the call.
LEMMA EndPreserves ==
    ASSUME CustodyInv, VerificationInv', Cleared => Cleared', NEW c \in Callers, End(c),
           UNCHANGED <<created, moved, txs, number, order>>,
           account' \in Accounts, Ready(account)', account'.exists => Cleared'
    PROVE  CustodyInv'
  <1>1. Ready(held[c])'
    BY EmptyAccount DEF End, CustodyInv, CustodyTypeOK, Ready
  <1> DEFINE l == "none"
  <1>2. /\ at' = [at EXCEPT ![c] = l] /\ held' = [held EXCEPT ![c] = NoAccount]
        /\ wanted' = [wanted EXCEPT ![c] = DefaultProvider]
    BY DEF End, Proceed
  <1>3. created \subseteq created' /\ created' \subseteq Addresses
    BY DEF CustodyInv, CustodyTypeOK
  <1>4. l \in SettingUp \cup {"none"} /\ l = "none" /\ l # "create"
    OBVIOUS
  <1> HIDE DEF l
  <1> QED
    BY <1>1, <1>2, <1>3, <1>4, EmptyAccount, SetupPreserves

\* The account as it is stored stays good.
LEMMA AccountKeeps ==
    ASSUME CustodyInv, Cleared => Cleared', created \subseteq created'
    PROVE  /\ account \in Accounts /\ (account.exists => Cleared')
           /\ (account.status = "active" => account.provider \in Connected /\ account.address \in created')
  BY DEF CustodyInv, CustodyTypeOK, StoreOK, Ready

LEMMA SetupStepPreserves ==
    ASSUME CustodyInv, VerificationInv', Cleared => Cleared', NEW c \in Callers, Setup(c)
    PROVE  CustodyInv'
  <1> USE DEF Proceed
  <1>0. /\ CallerOK(c) /\ held[c] \in Accounts /\ wanted[c] \in Providers /\ at[c] \in SettingUp \cup
              {"none", "move", "saveTransfer", "updateOrder", "saveStatus"}
        /\ created \subseteq Addresses
        /\ held = [held EXCEPT ![c] = held[c]] /\ wanted = [wanted EXCEPT ![c] = wanted[c]]
    BY DEF CustodyInv, CustodyTypeOK, SettingUp
  <1>k. ASSUME UNCHANGED <<account, created>>
        PROVE  account' \in Accounts /\ Ready(account)' /\ (account'.exists => Cleared')
    BY <1>k, AccountKeeps DEF Ready
  <1>1. CASE Request(c)
    <2>1. Cleared'
      BY <1>1, ApprovedIsCleared DEF Request, CustodyInv
    <2>2. PICK p \in Providers : wanted' = [wanted EXCEPT ![c] = p]
      BY <1>1 DEF Request
    <2> DEFINE l == "find"
    <2>3. UNCHANGED <<account, held, created, moved, txs, number, order>>
          /\ at' = [at EXCEPT ![c] = l]
      BY <1>1 DEF Request
    <2>4. Ready(held[c])'
      BY <1>0, <2>3 DEF CallerOK, Ready
    <2>5. l \in SettingUp \cup {"none"} /\ l # "create"
      BY DEF SettingUp
    <2>6. account' \in Accounts /\ Ready(account)' /\ (account'.exists => Cleared')
      BY <1>k, <2>3
    <2>7. held' = [held EXCEPT ![c] = held[c]] /\ created \subseteq created' /\ created' \subseteq Addresses
      BY <1>0, <2>3
    <2> HIDE DEF l
    <2> QED
      BY <1>0, <2>1, <2>2, <2>3, <2>4, <2>5, <2>6, <2>7, SetupPreserves
  <1>2. CASE Find(c)
    <2>1. CASE End(c)
      BY <1>2, <1>k, <2>1, EndPreserves DEF Find
    <2>2. CASE ~End(c)
      <3> DEFINE l == IF account.exists /\ account.provider # wanted[c]
                      THEN "assertProvider" ELSE SetupAt(wanted[c])
      <3>1. /\ UNCHANGED <<account, wanted, created, moved, txs, number, order>>
            /\ held' = [held EXCEPT ![c] = account] /\ at' = [at EXCEPT ![c] = l]
        BY <1>2, <2>2 DEF Find
      <3>2. l \in SettingUp /\ (l = "create" => wanted[c] \in Connected)
        BY <1>0 DEF SetupAt, SettingUp, Providers
      <3>3. Ready(held[c])' /\ account \in Accounts
        BY <1>k, <3>1 DEF CustodyInv, CustodyTypeOK, Ready
      <3>4. Cleared'
        BY <1>0, <1>2 DEF Find, CallerOK, SettingUp
      <3> HIDE DEF l
      <3> QED
        BY <1>0, <1>k, <3>1, <3>2, <3>3, <3>4, SetupPreserves
    <2> QED
      BY <2>1, <2>2
  <1>3. CASE AssertProvider(c)
    <2>1. CASE End(c)
      BY <1>3, <1>k, <2>1, EndPreserves DEF AssertProvider
    <2>2. CASE ~End(c)
      <3>1. /\ UNCHANGED <<account, held, wanted, created, moved, txs, number, order>>
            /\ at' = [at EXCEPT ![c] = SetupAt(wanted[c])]
        BY <1>3, <2>2 DEF AssertProvider
      <3>2. SetupAt(wanted[c]) \in SettingUp
            /\ (SetupAt(wanted[c]) = "create" => wanted[c] \in Connected)
        BY <1>0 DEF SetupAt, SettingUp, Providers
      <3>3. Ready(held[c])' /\ Cleared'
        BY <1>0, <1>3, <3>1 DEF AssertProvider, CallerOK, SettingUp, Ready
      <3> QED
        BY <1>0, <1>k, <3>1, <3>2, <3>3, SetupPreserves
    <2> QED
      BY <2>1, <2>2
  <1>4. CASE CreateAccount(c)
    <2>1. PICK k \in Addresses \ created :
            /\ created' = created \cup {k}
            /\ held' = [held EXCEPT ![c] = [@ EXCEPT !.provider = wanted[c], !.address = k,
                                                     !.status = "active"]]
      BY <1>4 DEF CreateAccount
    <2> DEFINE h == [held[c] EXCEPT !.provider = wanted[c], !.address = k, !.status = "active"]
    <2>2. h \in Accounts
      BY <1>0 DEF Accounts
    <2>3. held' = [held EXCEPT ![c] = h] /\ held'[c] = h
      BY <2>1 DEF CustodyInv, CustodyTypeOK
    <2>4. /\ UNCHANGED <<account, wanted, moved, txs, number, order>>
          /\ at' = [at EXCEPT ![c] = "saveAccount"]
      BY <1>4 DEF CreateAccount
    <2>5. wanted[c] \in Connected /\ Cleared'
      BY <1>0, <1>4 DEF CreateAccount, CallerOK, SettingUp
    <2>6. Ready(held[c])'
      BY <1>0, <2>1, <2>3, <2>5 DEF Ready, Accounts
    <2>7. account' \in Accounts /\ Ready(account)' /\ (account'.exists => Cleared')
      BY <2>1, <2>4, AccountKeeps DEF Ready
    <2>8. created \subseteq created' /\ created' \subseteq Addresses
      BY <1>0, <2>1
    <2> HIDE DEF h
    <2> QED
      BY <1>0, <2>2, <2>3, <2>4, <2>5, <2>6, <2>7, <2>8, SetupPreserves DEF SettingUp
  <1>5. CASE SavePlaceholder(c)
    <2>1. account' \in Accounts /\ Ready(account)' /\ (account'.exists => Cleared')
      BY <1>0, <1>5, AccountKeeps
         DEF SavePlaceholder, Accounts, Ready, CallerOK, SettingUp
    <2> QED
      BY <1>5, <2>1, EndPreserves DEF SavePlaceholder
  <1>6. CASE SaveAccount(c)
    <2>1. /\ UNCHANGED <<held, wanted, created, moved, txs, number, order>>
          /\ \/ account' = account /\ at' = [at EXCEPT ![c] = "saveFailure"]
             \/ account' = [held[c] EXCEPT !.exists = TRUE] /\ at' = [at EXCEPT ![c] = "confirm"]
      BY <1>6 DEF SaveAccount
    <2>2. Ready(held[c])' /\ Cleared'
      BY <1>0, <1>6, <2>1 DEF SaveAccount, CallerOK, SettingUp, Ready
    <2>3. account' \in Accounts /\ Ready(account)' /\ (account'.exists => Cleared')
      BY <1>0, <2>1, <2>2, AccountKeeps DEF Accounts, Ready
    <2> QED
      BY <1>0, <2>1, <2>2, <2>3, SetupPreserves DEF SettingUp
  <1>7. CASE Confirm(c)
    BY <1>7, <1>k, EndPreserves DEF Confirm
  <1>8. CASE SetupThrows(c)
    <2> DEFINE l == "saveFailure"
    <2>1. /\ UNCHANGED <<account, held, wanted, created, moved, txs, number, order>>
          /\ at' = [at EXCEPT ![c] = l]
      BY <1>8 DEF SetupThrows
    <2>2. Ready(held[c])' /\ Cleared'
      BY <1>0, <1>8, <2>1 DEF SetupThrows, CallerOK, SettingUp, Ready
    <2>3. l \in SettingUp \cup {"none"} /\ l # "create"
      BY DEF SettingUp
    <2>4. account' \in Accounts /\ Ready(account)' /\ (account'.exists => Cleared')
      BY <1>k, <2>1
    <2>5. held' = [held EXCEPT ![c] = held[c]] /\ wanted' = [wanted EXCEPT ![c] = wanted[c]]
          /\ created \subseteq created' /\ created' \subseteq Addresses
      BY <1>0, <2>1
    <2> HIDE DEF l
    <2> QED
      BY <1>0, <2>1, <2>2, <2>3, <2>4, <2>5, SetupPreserves
  <1>9. CASE SaveFailure(c)
    <2>1. account' \in Accounts /\ Ready(account)' /\ (account'.exists => Cleared')
      BY <1>0, <1>9, AccountKeeps DEF SaveFailure, Accounts, Ready, CallerOK, SettingUp
    <2> QED
      BY <1>9, <2>1, EndPreserves DEF SaveFailure
  <1>10. CASE SetupFails(c)
    BY <1>10, <1>k, EndPreserves DEF SetupFails
  <1>11. CASE Refused(c)
    BY <1>11 DEF Refused, custodyVars, CustodyInv, CustodyTypeOK, VerificationInv, StoreOK, CallerOK,
                 Ready, MovedToCreated, Recorded
  <1> QED
    BY <1>1, <1>2, <1>3, <1>4, <1>5, <1>6, <1>7, <1>8, <1>9, <1>10, <1>11 DEF Setup

-----------------------------------------------------------------------------
\* Steps of transfers and webhooks: the account and the addresses stay.
LEMMA TransferStepPreserves ==
    ASSUME CustodyInv, VerificationInv', Cleared => Cleared', NEW c \in Callers, Transfer(c)
    PROVE  CustodyInv'
  <1> USE DEF Proceed
  <1>1. UNCHANGED <<account, wanted, created>>
    BY TransferImplements
  <1>2. /\ CustodyTypeOK /\ StoreOK /\ CallerOK(c) /\ held[c] \in Accounts
        /\ number[c] \in [move : 0..MaxTransfers, status : TxStatuses]
        /\ Len(moved) \in Nat /\ Len(moved) <= MaxTransfers /\ DOMAIN moved = 1..Len(moved)
        /\ moved \in Seq(Addresses \cup {NoAddress}) /\ MaxTransfers \in Nat
    BY CustodyAssumption, LenProperties DEF CustodyInv, CustodyTypeOK
  <1>3. ASSUME UNCHANGED <<moved, txs, order>> PROVE StoreOK' /\ Recorded' = Recorded
    BY <1>1, <1>2, <1>3 DEF StoreOK, Ready, MovedToCreated, Recorded
  <1>4. ASSUME CustodyTypeOK', StoreOK', Recorded \subseteq Recorded', Len(moved) <= Len(moved)',
               CallerOK(c)',
               \A t \in Callers \ {c} : at'[t] = at[t] /\ held'[t] = held[t] /\ number'[t] = number[t]
        PROVE  CustodyInv'
    <2>1. Len(moved)' \in Nat
      BY <1>4, LenProperties DEF CustodyTypeOK
    <2>2. \A t \in Callers \ {c} : CallerOK(t)'
      BY <1>1, <1>2, <1>4, <2>1, OthersKeep
    <2> QED
      BY <1>4, <2>2 DEF CustodyInv
  <1>5. CASE FindReceiver(c)
    <2>1. UNCHANGED <<moved, txs, number>> /\ at[c] = "none"
      BY <1>5 DEF FindReceiver
    <2>2. CASE account.exists /\ account.status = "active"
      <3>1. held' = [held EXCEPT ![c] = account] /\ at' = [at EXCEPT ![c] = "move"] /\ order' = order
        BY <1>5, <2>2 DEF FindReceiver
      <3>2. CustodyTypeOK'
        BY <1>1, <1>2, <2>1, <3>1 DEF CustodyTypeOK, VerificationInv
      <3>3. CallerOK(c)'
        BY <1>1, <1>2, <2>1, <2>2, <3>1 DEF CustodyTypeOK, StoreOK, CallerOK, Ready, SettingUp
      <3> QED
        BY <1>2, <1>3, <1>4, <2>1, <3>1, <3>2, <3>3 DEF CustodyTypeOK
    <2>3. CASE ~(account.exists /\ account.status = "active")
      <3>1. UNCHANGED <<held, at>>
            /\ order' \in {order, [order EXCEPT !.shows = "pending_custody_account"]}
        BY <1>5, <2>3 DEF FindReceiver
      <3>2. order' \in [transfer : 0..MaxTransfers,
                        shows : {"none", "pending_custody_account", "submitted"}]
            /\ order'.transfer = order.transfer
        BY <1>2, <3>1 DEF CustodyTypeOK
      <3>3. CustodyTypeOK'
        BY <1>1, <1>2, <2>1, <3>1, <3>2 DEF CustodyTypeOK, VerificationInv
      <3>4. StoreOK' /\ Recorded' = Recorded
        BY <1>1, <1>2, <2>1, <3>2 DEF StoreOK, Ready, MovedToCreated, Recorded
      <3>5. CallerOK(c)'
        BY <1>1, <1>2, <2>1, <3>1 DEF CallerOK, Ready, SettingUp
      <3> QED
        BY <1>2, <1>4, <2>1, <3>1, <3>3, <3>4, <3>5
    <2> QED
      BY <2>2, <2>3
  <1>6. CASE Move(c)
    <2>1. /\ UNCHANGED <<held, txs, order>> /\ at[c] = "move" /\ Len(moved) < MaxTransfers
          /\ moved' = Append(moved, held[c].address)
          /\ number' = [number EXCEPT ![c].move = Len(moved) + 1]
          /\ at' = [at EXCEPT ![c] = "saveTransfer"]
      BY <1>6 DEF Move
    <2>2. held[c].address \in created /\ held[c].address \in Addresses \cup {NoAddress}
      BY <1>2, <2>1 DEF CallerOK, Ready, Accounts
    <2>3. /\ moved' \in Seq(Addresses \cup {NoAddress}) /\ Len(moved') = Len(moved) + 1
          /\ \A i \in 1..Len(moved) : moved'[i] = moved[i]
          /\ moved'[Len(moved) + 1] = held[c].address
          /\ DOMAIN moved' = 1..(Len(moved) + 1)
      BY <1>2, <2>1, <2>2, AppendProperties, LenProperties
    <2>4. CustodyTypeOK'
      <3>1. number' \in [Callers -> [move : 0..MaxTransfers, status : TxStatuses]]
        <4>1. Len(moved) + 1 \in 0..MaxTransfers
          BY <1>2, <2>1
        <4>2. number \in [Callers -> [move : 0..MaxTransfers, status : TxStatuses]]
          BY <1>2 DEF CustodyTypeOK
        <4>3. [number[c] EXCEPT !.move = Len(moved) + 1] \in [move : 0..MaxTransfers, status : TxStatuses]
          BY <1>2, <4>1
        <4>4. number' = [number EXCEPT ![c] = [number[c] EXCEPT !.move = Len(moved) + 1]]
          BY <2>1
        <4> QED
          BY <4>2, <4>3, <4>4
      <3>2. Len(moved)' <= MaxTransfers
        BY <1>2, <2>1, <2>3
      <3> QED
        BY <1>1, <1>2, <2>1, <2>3, <3>1, <3>2 DEF CustodyTypeOK, VerificationInv
    <2>5. Recorded' = Recorded
      BY <2>1 DEF Recorded
    <2>6. MovedToCreated'
      <3> SUFFICES ASSUME NEW i \in 1..(Len(moved) + 1) PROVE moved'[i] \in created
        BY <1>1, <2>3 DEF MovedToCreated
      <3>1. CASE i = Len(moved) + 1
        BY <2>2, <2>3, <3>1
      <3>2. CASE i \in 1..Len(moved)
        BY <1>2, <2>3, <3>2 DEF StoreOK, MovedToCreated
      <3> QED
        BY <1>2, <3>1, <3>2
    <2>7. StoreOK'
      BY <1>1, <1>2, <2>1, <2>3, <2>5, <2>6 DEF StoreOK, Ready
    <2>8. CallerOK(c)'
      <3>1. number'[c].move = Len(moved) + 1 /\ at'[c] = "saveTransfer"
        BY <1>2, <2>1 DEF CustodyTypeOK
      <3>2. number'[c].move \in 1..Len(moved')
        BY <1>2, <2>3, <3>1
      <3> QED
        BY <1>1, <1>2, <2>1, <3>1, <3>2 DEF CallerOK, Ready, SettingUp
    <2>9. Len(moved) <= Len(moved)'
      BY <1>2, <2>3
    <2> QED
      BY <1>2, <1>4, <2>1, <2>4, <2>5, <2>7, <2>8, <2>9 DEF CustodyTypeOK
  <1>7. ASSUME Done(c) PROVE CallerOK(c)'
    BY <1>1, <1>2, <1>7, EmptyAccount DEF Done, CallerOK, Ready, SettingUp, CustodyTypeOK
  <1>8. ASSUME Done(c) PROVE \A t \in Callers \ {c} : at'[t] = at[t] /\ held'[t] = held[t] /\ number'[t] = number[t]
    BY <1>2, <1>8 DEF Done, CustodyTypeOK
  <1>9. ASSUME Done(c)
        PROVE  /\ held' \in [Callers -> Accounts]
               /\ number' \in [Callers -> [move : 0..MaxTransfers, status : TxStatuses]]
               /\ at' \in [Callers -> {"none", "find", "assertProvider", "create",
                            "savePlaceholder", "saveAccount", "confirm", "saveFailure",
                            "move", "saveTransfer", "updateOrder", "saveStatus"}]
    BY <1>2, <1>9, EmptyAccount, CustodyAssumption DEF Done, CustodyTypeOK
  <1>10. ASSUME NEW i \in 1..Len(moved), NEW t \in TxStatuses, txs' = [txs EXCEPT ![i] = t]
         PROVE  /\ txs' \in [1..MaxTransfers -> TxStatuses \cup {"none"}]
                /\ Recorded' = Recorded \cup {i}
    BY <1>2, <1>10, CustodyAssumption DEF Recorded, CustodyTypeOK
  <1>11. CASE SaveTransfer(c)
    <2>1. /\ UNCHANGED <<moved, order>> /\ at[c] = "saveTransfer"
          /\ txs' = [txs EXCEPT ![number[c].move] = "submitted"]
      BY <1>11 DEF SaveTransfer
    <2>2. number[c].move \in 1..Len(moved)
      BY <1>2, <2>1 DEF CallerOK
    <2>3. txs' \in [1..MaxTransfers -> TxStatuses \cup {"none"}] /\ Recorded' = Recorded \cup {number[c].move}
      BY <1>10, <2>1, <2>2, CustodyAssumption
    <2>4. StoreOK'
      BY <1>1, <1>2, <2>1, <2>2, <2>3 DEF StoreOK, Ready, MovedToCreated
    <2>5. CASE Done(c)
      <3>1. CustodyTypeOK'
        BY <1>1, <1>2, <1>9, <2>1, <2>3, <2>5 DEF CustodyTypeOK, VerificationInv
      <3> QED
        BY <1>2, <1>4, <1>7, <1>8, <2>1, <2>3, <2>4, <2>5, <3>1
    <2>6. CASE ~Done(c)
      <3>1. UNCHANGED <<held, number>> /\ at' = [at EXCEPT ![c] = "updateOrder"]
        BY <1>11, <2>6 DEF SaveTransfer
      <3>2. CustodyTypeOK'
        BY <1>1, <1>2, <2>1, <2>3, <3>1 DEF CustodyTypeOK, VerificationInv
      <3>3. CallerOK(c)'
        BY <1>1, <1>2, <2>3, <3>1 DEF CallerOK, Ready, SettingUp, CustodyTypeOK
      <3> QED
        BY <1>2, <1>4, <2>1, <2>3, <2>4, <3>1, <3>2, <3>3 DEF CustodyTypeOK
    <2> QED
      BY <2>5, <2>6
  <1>12. CASE UpdateOrder(c)
    <2>1. UNCHANGED <<moved, txs>> /\ order' = [transfer |-> number[c].move, shows |-> "submitted"]
          /\ Done(c) /\ number[c].move \in Recorded
      BY <1>2, <1>12 DEF UpdateOrder, CallerOK
    <2>2. order' \in [transfer : 0..MaxTransfers,
                      shows : {"none", "pending_custody_account", "submitted"}]
      BY <1>2, <2>1
    <2>3. Recorded' = Recorded
      BY <2>1 DEF Recorded
    <2>4. StoreOK'
      BY <1>1, <1>2, <2>1, <2>3 DEF StoreOK, Ready, MovedToCreated
    <2>5. CustodyTypeOK'
      BY <1>1, <1>2, <1>9, <2>1, <2>2 DEF CustodyTypeOK, VerificationInv
    <2> QED
      BY <1>2, <1>4, <1>7, <1>8, <2>1, <2>3, <2>4, <2>5
  <1>13. CASE Webhook(c)
    <2>1. PICK i \in Recorded, t \in TxStatuses : number' = [number EXCEPT ![c] = [move |-> i, status |-> t]]
      BY <1>13 DEF Webhook
    <2>2. UNCHANGED <<held, moved, txs, order>> /\ at' = [at EXCEPT ![c] = "saveStatus"]
      BY <1>13 DEF Webhook
    <2>3. i \in 0..MaxTransfers
      BY <1>2 DEF Recorded
    <2>4. CustodyTypeOK'
      BY <1>1, <1>2, <2>1, <2>2, <2>3 DEF CustodyTypeOK, VerificationInv
    <2>5. number'[c].move = i /\ at'[c] = "saveStatus"
      BY <1>2, <2>1, <2>2 DEF CustodyTypeOK
    <2>6. CallerOK(c)'
      BY <1>1, <1>2, <1>3, <2>2, <2>5 DEF CallerOK, Ready, SettingUp
    <2> QED
      BY <1>2, <1>3, <1>4, <2>1, <2>2, <2>4, <2>6 DEF CustodyTypeOK
  <1>14. CASE SaveStatus(c)
    <2>1. /\ UNCHANGED <<moved, order>> /\ Done(c) /\ number[c].move \in Recorded
          /\ txs' = [txs EXCEPT ![number[c].move] = number[c].status]
      BY <1>2, <1>14 DEF SaveStatus, CallerOK
    <2>2. number[c].move \in 1..Len(moved) /\ number[c].status \in TxStatuses
      BY <1>2, <2>1 DEF StoreOK
    <2>3. txs' \in [1..MaxTransfers -> TxStatuses \cup {"none"}] /\ Recorded' = Recorded
      <3>1. /\ txs' \in [1..MaxTransfers -> TxStatuses \cup {"none"}]
            /\ Recorded' = Recorded \cup {number[c].move}
        BY <1>10, <2>1, <2>2
      <3> QED
        BY <2>1, <3>1
    <2>4. StoreOK'
      BY <1>1, <1>2, <2>1, <2>3 DEF StoreOK, Ready, MovedToCreated
    <2>5. CustodyTypeOK'
      BY <1>1, <1>2, <1>9, <2>1, <2>3 DEF CustodyTypeOK, VerificationInv
    <2> QED
      BY <1>2, <1>4, <1>7, <1>8, <2>1, <2>3, <2>4, <2>5
  <1>15. CASE TransferFails(c)
    <2>1. UNCHANGED <<moved, txs, order>> /\ Done(c)
      BY <1>15 DEF TransferFails
    <2>2. CustodyTypeOK'
      BY <1>1, <1>2, <1>9, <2>1 DEF CustodyTypeOK, VerificationInv
    <2> QED
      BY <1>2, <1>3, <1>4, <1>7, <1>8, <2>1, <2>2
  <1> QED
    BY <1>5, <1>6, <1>11, <1>12, <1>13, <1>14, <1>15 DEF Transfer

LEMMA CustodyNextPreserves == CustodyInv /\ [CustodyNext]_allVars => CustodyInv'
  <1> SUFFICES ASSUME CustodyInv, [CustodyNext]_allVars PROVE CustodyInv'
    OBVIOUS
  <1>1. [Next]_verificationVars
    BY StepImplements
  <1>2. VerificationInv' /\ (Cleared => Cleared')
    BY <1>1, NextPreserves, ClearedStays DEF CustodyInv
  <1>3. CASE UNCHANGED custodyVars
    BY <1>2, <1>3 DEF custodyVars, CustodyInv, CustodyTypeOK, VerificationInv, StoreOK, CallerOK, Ready,
                      MovedToCreated, Recorded
  <1>4. CASE \E c \in Callers : Setup(c) \/ Transfer(c)
    BY <1>2, <1>4, SetupStepPreserves, TransferStepPreserves
  <1> QED
    BY <1>3, <1>4 DEF CustodyNext, allVars

-----------------------------------------------------------------------------
\* The stored account, and every account a call holds, is as it should be.
THEOREM CustodySoundness == CustodySpec => []CustodyInv
  <1> QED
    BY CustodyInitInv, CustodyNextPreserves, PTL DEF CustodySpec

\* The types of the composition.
THEOREM CustodyTypes == CustodySpec => []CustodyTypeOK
  <1>1. CustodyInv => CustodyTypeOK
    BY DEF CustodyInv
  <1> QED
    BY <1>1, CustodySoundness, PTL

\* An account in use is one a connected provider has created.
THEOREM FailsClosed == CustodySpec => []FailClosed
  <1>1. CustodyInv => FailClosed
    BY DEF CustodyInv, StoreOK, Ready, FailClosed
  <1> QED
    BY <1>1, CustodySoundness, PTL

\* Assets move only to addresses that exist, and the books follow.
THEOREM MovesAreGood == CustodySpec => [](MovedToCreated /\ BooksFollowMoves)
  <1>1. CustodyInv => MovedToCreated /\ BooksFollowMoves
    BY DEF CustodyInv, StoreOK, BooksFollowMoves
  <1> QED
    BY <1>1, CustodySoundness, PTL

\* Only the cleared have accounts.
THEOREM AccountsCleared == CustodySpec => []AccountWasCleared
  <1>1. CustodyInv => AccountWasCleared
    BY DEF CustodyInv, StoreOK, AccountWasCleared, Cleared
  <1> QED
    BY <1>1, CustodySoundness, PTL

\* The theorems of Verification hold of the composition.
THEOREM ComposedSound == CustodySpec => [](SumsubBeforeAdmin /\ InvestorWasCleared)
  <1> QED
    BY CustodyImplementsVerification, SumsubFirst, InvestorsCleared, PTL
=============================================================================
