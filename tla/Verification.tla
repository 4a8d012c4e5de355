----------------------------- MODULE Verification -----------------------------
(***************************************************************************)
(* The verification record of one investor: identity checks by Sumsub,     *)
(* the review by an admin, and the eligibility derived from the two.       *)
(* Every handler finds the record, changes it and saves the whole entity;  *)
(* other sessions run between its awaits, so a save may be stale.          *)
(*                                                                         *)
(* A session is a request of the investor, of an admin or of Sumsub.  An   *)
(* approval goes on, in the same call, to set up custody (Custody).        *)
(***************************************************************************)
EXTENDS Naturals

CONSTANTS Sessions,
          Verdicts,         \* results of Sumsub's reviews that are considered
          Decisions,        \* results of an admin's review that are considered
          OverrideEnabled,  \* ENABLE_ADMIN_TEST_OVERRIDE
          MaxApplicants     \* bound of the applicants Sumsub creates

SumsubStatuses == {"not_started", "pending", "approved", "rejected", "review_required"}
AdminReviewStatuses == {"pending", "approved", "rejected", "more_info_required"}

ASSUME VerificationAssumption ==
    /\ Verdicts \subseteq SumsubStatuses \ {"not_started"}
    /\ Decisions \subseteq AdminReviewStatuses
    /\ OverrideEnabled \in BOOLEAN
    /\ MaxApplicants \in Nat

VARIABLES row,         \* the row of investor_verification
          pc,          \* the await each session is at
          loaded,      \* the entity each session holds, as it will be saved
          applicants,  \* applicants Sumsub has created for the investor
          green,       \* those it has reported GREEN
          reviewed,    \* an admin has approved, having seen Sumsub's approval
          overridden,  \* an admin has switched the test override on
          invested     \* a purchase has passed the check and gone on

verificationVars == <<row, pc, loaded, applicants, green, reviewed, overridden, invested>>

Records == [exists : BOOLEAN, sumsub : SumsubStatuses, admin : AdminReviewStatuses,
            eligibility : {"blocked", "approved", "suspended"},
            override : BOOLEAN, applicant : 0..MaxApplicants]

NoRecord == [exists |-> FALSE, sumsub |-> "not_started", admin |-> "pending",
             eligibility |-> "blocked", override |-> FALSE, applicant |-> 0]

Init ==
    /\ row = NoRecord
    /\ pc = [s \in Sessions |-> "idle"]
    /\ loaded = [s \in Sessions |-> NoRecord]
    /\ applicants = {} /\ green = {}
    /\ reviewed = FALSE /\ overridden = FALSE /\ invested = FALSE

-----------------------------------------------------------------------------
(* Derived eligibility.                                                     *)

\* Mutant: either approval is enough.
Eligible_Either(e) ==
    \/ e.sumsub = "approved" \/ e.admin = "approved"
    \/ OverrideEnabled /\ e.override

\* Real approval, or an active test override.
Eligible(e) ==
    \/ e.sumsub = "approved" /\ e.admin = "approved"
    \/ OverrideEnabled /\ e.override

\* getDerivedEligibilityStatus; normalizeLegacyStatuses stores it.
Derived(e) ==
    [e EXCEPT !.eligibility =
        IF Eligible(e) THEN "approved"
        ELSE IF @ = "approved" /\ e.admin = "rejected" THEN "suspended"
        ELSE "blocked"]

-----------------------------------------------------------------------------
(* The handlers.                                                            *)

Goto(s, l) == pc' = [pc EXCEPT ![s] = l]

Return(s) == Goto(s, "idle") /\ loaded' = [loaded EXCEPT ![s] = NoRecord]

\* getOrCreate, when there is no record: sign-up, or the first call of the
\* investor.  It inserts one; userId is unique, and a second insert throws.  What
\* the call does next with its new record is a call of its own here.
Create(s) ==
    /\ pc[s] = "idle" /\ ~row.exists
    /\ Goto(s, "insert")
    /\ UNCHANGED <<row, loaded, applicants, green, reviewed, overridden, invested>>

Insert(s) ==
    /\ pc[s] = "insert"
    /\ row' = IF row.exists THEN row ELSE [NoRecord EXCEPT !.exists = TRUE]
    /\ Return(s)
    /\ UNCHANGED <<applicants, green, reviewed, overridden, invested>>

\* A handler that has found the record as e holds it, changed, until its save.
Hold(s, e, at) ==
    /\ loaded' = [loaded EXCEPT ![s] = e]
    /\ Goto(s, at)
    /\ UNCHANGED <<row, applicants, green, invested>>

\* saveAmlAnswers, which touches nothing modelled; attachWholesaleCertificate
\* sends the investor back to the admin.
InvestorEdit(s) ==
    /\ pc[s] = "idle" /\ row.exists
    /\ \E e \in {Derived(row), [Derived(row) EXCEPT !.admin = "pending"]} : Hold(s, e, "save")
    /\ UNCHANGED <<reviewed, overridden>>

\* The admin test override, on or off.
SwitchOverride(s) ==
    /\ OverrideEnabled
    /\ pc[s] = "idle" /\ row.exists
    /\ \E b \in BOOLEAN :
         /\ Hold(s, [Derived(row) EXCEPT !.override = b], "save")
         /\ overridden' = (overridden \/ b)
    /\ UNCHANGED reviewed

\* Mutant: an admin may approve whatever Sumsub says.
AdminReview_NoSumsub(s) ==
    /\ pc[s] = "idle" /\ row.exists
    /\ \E d \in Decisions :
         /\ Hold(s, [Derived(row) EXCEPT !.admin = d],
                 IF d = "approved" THEN "saveApproval" ELSE "save")
         /\ reviewed' = (reviewed \/ d = "approved")
    /\ UNCHANGED overridden

\* adminReview: approval is refused until Sumsub has approved.
AdminReview(s) ==
    /\ pc[s] = "idle" /\ row.exists
    /\ \E d \in Decisions :
         /\ d = "approved" => row.sumsub = "approved"
         /\ Hold(s, [Derived(row) EXCEPT !.admin = d],
                 IF d = "approved" THEN "saveApproval" ELSE "save")
         /\ reviewed' = (reviewed \/ d = "approved")
    /\ UNCHANGED overridden

\* startSumsub: an investor without an applicant gets one.
StartSumsub(s) ==
    /\ pc[s] = "idle" /\ row.exists /\ row.applicant = 0
    /\ Goto(s, "createApplicant")
    /\ UNCHANGED <<row, loaded, applicants, green, reviewed, overridden, invested>>

\* createApplicant returns, and setSumsubApplicant finds the record again.
BindApplicant(s) ==
    /\ pc[s] = "createApplicant"
    /\ \E a \in 1..MaxApplicants \ applicants :
         /\ applicants' = applicants \cup {a}
         /\ loaded' = [loaded EXCEPT ![s] =
                         [Derived(row) EXCEPT !.applicant = a, !.sumsub = "pending"]]
    /\ Goto(s, "save")
    /\ UNCHANGED <<row, green, reviewed, overridden, invested>>

\* Sumsub reports a result, more than once if it likes;
\* updateSumsubStatusByApplicant answers NotFound for an applicant no record names.
SumsubWebhook(s, a) ==
    /\ pc[s] = "idle" /\ a \in applicants
    /\ \E v \in Verdicts :
         /\ green' = IF v = "approved" THEN green \cup {a} ELSE green
         /\ IF row.applicant = a
            THEN loaded' = [loaded EXCEPT ![s] = [row EXCEPT !.sumsub = v]] /\ Goto(s, "save")
            ELSE UNCHANGED <<loaded, pc>>
    /\ UNCHANGED <<row, applicants, reviewed, overridden, invested>>

\* saveWithDerivedStatuses.
Save(s) ==
    /\ pc[s] = "save"
    /\ row' = Derived(loaded[s])
    /\ Return(s)
    /\ UNCHANGED <<applicants, green, reviewed, overridden, invested>>

\* An approval is saved, the investor notified and custody set up; the
\* notification may throw, and then custody is not.
SaveApproval(s) ==
    /\ pc[s] = "saveApproval"
    /\ row' = Derived(loaded[s])
    /\ loaded' = [loaded EXCEPT ![s] = NoRecord]
    /\ Goto(s, "notify")
    /\ UNCHANGED <<applicants, green, reviewed, overridden, invested>>

Notify(s) ==
    /\ pc[s] = "notify"
    /\ \E l \in {"setup", "idle"} : Goto(s, l)
    /\ UNCHANGED <<row, loaded, applicants, green, reviewed, overridden, invested>>

\* createCustodyAfterApproval returns, whatever became of the setup.
SetupReturns(s) ==
    /\ pc[s] = "setup"
    /\ Goto(s, "idle")
    /\ UNCHANGED <<row, loaded, applicants, green, reviewed, overridden, invested>>

\* A purchase asks assertInvestorCanInvest once, and goes on awaits later.
CheckInvestor(s) ==
    /\ pc[s] = "idle" /\ row.exists /\ Eligible(row)
    /\ Goto(s, "invest")
    /\ UNCHANGED <<row, loaded, applicants, green, reviewed, overridden, invested>>

Invest(s) ==
    /\ pc[s] = "invest"
    /\ invested' = TRUE
    /\ Goto(s, "idle")
    /\ UNCHANGED <<row, loaded, applicants, green, reviewed, overridden>>

\* A database or network error, or a restart, ends the call at its await.
Fail(s) ==
    /\ pc[s] \notin {"idle", "setup"}
    /\ Return(s)
    /\ UNCHANGED <<row, applicants, green, reviewed, overridden, invested>>

-----------------------------------------------------------------------------
\* Every step but the return from custody, which Custody takes in its own way.
Step(s) ==
    \/ Create(s) \/ Insert(s) \/ InvestorEdit(s) \/ SwitchOverride(s) \/ AdminReview(s)
    \/ StartSumsub(s) \/ BindApplicant(s) \/ (\E a \in 1..MaxApplicants : SumsubWebhook(s, a))
    \/ Save(s) \/ SaveApproval(s) \/ Notify(s) \/ CheckInvestor(s) \/ Invest(s) \/ Fail(s)

Next == \E s \in Sessions : Step(s) \/ SetupReturns(s)

Spec == Init /\ [][Next]_verificationVars

-----------------------------------------------------------------------------
TypeOK ==
    /\ row \in Records
    /\ pc \in [Sessions -> {"idle", "insert", "save", "saveApproval", "notify", "setup",
                            "createApplicant", "invest"}]
    /\ loaded \in [Sessions -> Records]
    /\ applicants \subseteq 1..MaxApplicants /\ green \subseteq applicants
    /\ reviewed \in BOOLEAN /\ overridden \in BOOLEAN /\ invested \in BOOLEAN

\* An admin's approval stands in the record only if Sumsub has reported GREEN for
\* an applicant of the investor, whatever stale entities have been saved.
SumsubBeforeAdmin == row.admin = "approved" => green # {}

\* Money is taken only from an investor whom Sumsub and an admin have cleared, or
\* whom an admin has let in by the test override, even if that has changed since
\* the purchase asked.
InvestorWasCleared ==
    invested => (green # {} /\ reviewed) \/ (OverrideEnabled /\ overridden)
=============================================================================
