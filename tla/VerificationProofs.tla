--------------------------- MODULE VerificationProofs ---------------------------
(* Theorems of Verification, for any number of sessions.                       *)
EXTENDS Verification, TLAPS

(***************************************************************************)
(* Stale entities are saved at any time, so what holds of the record has   *)
(* to hold of every entity a session holds: whatever it says was true once *)
(* and, being about the past, is true still.                               *)
(***************************************************************************)
Cleared == (green # {} /\ reviewed) \/ (OverrideEnabled /\ overridden)

Sound(e) ==
    /\ e.sumsub = "approved" => green # {}
    /\ e.admin = "approved" => green # {} /\ reviewed
    /\ e.override => overridden
    /\ e.eligibility = "approved" => Cleared

AllSound ==
    /\ Sound(row)
    /\ \A s \in Sessions : Sound(loaded[s])
    /\ \A s \in Sessions : pc[s] = "invest" => Cleared
    /\ invested => Cleared

VerificationInv == TypeOK /\ AllSound

-----------------------------------------------------------------------------
\* Deriving the eligibility changes no other field, and approves only the eligible.
LEMMA DerivedType ==
    ASSUME NEW e \in Records
    PROVE  /\ Derived(e) \in Records
           /\ Derived(e).sumsub = e.sumsub /\ Derived(e).admin = e.admin
           /\ Derived(e).override = e.override
           /\ Derived(e).eligibility = "approved" => Eligible(e)
  BY DEF Derived, Records

LEMMA DerivedSound ==
    ASSUME NEW e \in Records, Sound(e)
    PROVE  Derived(e) \in Records /\ Sound(Derived(e))
  <1>1. Derived(e) \in Records
    BY DerivedType
  <1>2. Eligible(e) => Cleared
    BY DEF Eligible, Sound, Cleared
  <1> QED
    BY <1>1, <1>2, DerivedType DEF Sound

LEMMA EmptySound == NoRecord \in Records /\ Sound(NoRecord)
  BY VerificationAssumption DEF NoRecord, Records, SumsubStatuses, AdminReviewStatuses, Sound

LEMMA InitInv == Init => VerificationInv
  <1> SUFFICES ASSUME Init PROVE VerificationInv
    OBVIOUS
  <1> USE EmptySound
  <1>1. TypeOK
    BY DEF Init, TypeOK
  <1>2. AllSound
    BY DEF Init, AllSound
  <1> QED
    BY <1>1, <1>2 DEF VerificationInv

\* What the past has cleared stays cleared.
LEMMA SoundStays ==
    ASSUME NEW e, Sound(e), green \subseteq green',
           reviewed => reviewed', overridden => overridden'
    PROVE  /\ e.sumsub = "approved" => green' # {}
           /\ e.admin = "approved" => green' # {} /\ reviewed'
           /\ e.override => overridden'
           /\ e.eligibility = "approved" => Cleared'
           /\ Cleared => Cleared'
  BY DEF Sound, Cleared

-----------------------------------------------------------------------------
\* A session comes to hold an entity that is sound by then.
LEMMA HoldPreserves ==
    ASSUME VerificationInv, NEW s \in Sessions, NEW e \in Records, NEW l,
           l \in {"save", "saveApproval"},
           loaded' = [loaded EXCEPT ![s] = e], pc' = [pc EXCEPT ![s] = l],
           UNCHANGED <<row, invested>>,
           green \subseteq green', green' \subseteq applicants',
           applicants' \subseteq 1..MaxApplicants,
           reviewed' \in BOOLEAN, overridden' \in BOOLEAN,
           reviewed => reviewed', overridden => overridden',
           e.sumsub = "approved" => green' # {},
           e.admin = "approved" => green' # {} /\ reviewed',
           e.override => overridden',
           e.eligibility = "approved" => Cleared'
    PROVE  VerificationInv'
  <1> USE DEF VerificationInv
  <1>1. TypeOK'
    BY DEF TypeOK
  <1>2. Sound(row)'
    BY SoundStays DEF AllSound, Sound
  <1>3. ASSUME NEW t \in Sessions PROVE Sound(loaded[t])'
    <2>1. CASE t = s
      BY <2>1 DEF TypeOK, Sound
    <2>2. CASE t # s
      <3>1. loaded'[t] = loaded[t]
        BY <2>2 DEF TypeOK
      <3> QED
        BY <3>1, SoundStays DEF AllSound, Sound
    <2> QED
      BY <2>1, <2>2
  <1>4. Cleared => Cleared'
    BY DEF Cleared
  <1>5. AllSound'
    BY <1>2, <1>3, <1>4 DEF AllSound, TypeOK
  <1> QED
    BY <1>1, <1>5

\* A session saves its entity, or lets go of it, or moves on without one.
LEMMA LetGoPreserves ==
    ASSUME VerificationInv, NEW s \in Sessions, NEW l,
           l \in {"idle", "insert", "notify", "setup", "createApplicant"},
           pc' = [pc EXCEPT ![s] = l],
           loaded' = loaded \/ loaded' = [loaded EXCEPT ![s] = NoRecord],
           row' \in Records, Sound(row'),
           UNCHANGED <<applicants, green, reviewed, overridden, invested>>
    PROVE  VerificationInv'
  <1> USE EmptySound DEF VerificationInv
  <1>1. TypeOK'
    BY DEF TypeOK
  <1>2. Cleared' = Cleared
    BY DEF Cleared
  <1>3. Sound(row)'
    BY <1>2 DEF Sound
  <1>4. \A t \in Sessions : Sound(loaded'[t])
    BY DEF AllSound, TypeOK
  <1>5. \A t \in Sessions : Sound(loaded[t])'
    BY <1>2, <1>4 DEF Sound
  <1>6. AllSound'
    BY <1>2, <1>3, <1>5 DEF AllSound, TypeOK
  <1> QED
    BY <1>1, <1>6

LEMMA StepPreserves ==
    ASSUME VerificationInv, NEW s \in Sessions, Step(s) \/ SetupReturns(s)
    PROVE  VerificationInv'
  <1> USE DEF VerificationInv
  <1>0. /\ row \in Records /\ Sound(row) /\ loaded[s] \in Records /\ Sound(loaded[s])
        /\ Derived(row) \in Records /\ Sound(Derived(row))
        /\ Derived(loaded[s]) \in Records /\ Sound(Derived(loaded[s]))
    <2>1. row \in Records /\ Sound(row) /\ loaded[s] \in Records /\ Sound(loaded[s])
      BY DEF TypeOK, AllSound
    <2> QED
      BY <2>1, DerivedSound
  <1>1. CASE Create(s)
    BY <1>0, <1>1, LetGoPreserves DEF Create, Goto
  <1>2. CASE Insert(s)
    <2>1. [NoRecord EXCEPT !.exists = TRUE] \in Records /\ Sound([NoRecord EXCEPT !.exists = TRUE])
      BY EmptySound DEF NoRecord, Records, Sound
    <2>2. row' \in Records /\ Sound(row')
      BY <1>0, <1>2, <2>1 DEF Insert
    <2> QED
      BY <1>2, <2>2, LetGoPreserves DEF Insert, Return, Goto
  <1>3. CASE InvestorEdit(s)
    <2>1. PICK e \in {Derived(row), [Derived(row) EXCEPT !.admin = "pending"]} : Hold(s, e, "save")
      BY <1>3 DEF InvestorEdit
    <2>2. e \in Records /\ Sound(e)
      BY <1>0 DEF Records, Sound, AdminReviewStatuses
    <2>3. UNCHANGED <<row, applicants, green, reviewed, overridden, invested>>
      BY <1>3, <2>1 DEF InvestorEdit, Hold
    <2>4. green' \subseteq applicants' /\ applicants' \subseteq 1..MaxApplicants
          /\ reviewed' \in BOOLEAN /\ overridden' \in BOOLEAN
      BY <2>3 DEF TypeOK
    <2>5. Cleared' = Cleared
      BY <2>3 DEF Cleared
    <2> QED
      BY <2>1, <2>2, <2>3, <2>4, <2>5, HoldPreserves DEF Hold, Goto, Sound
  <1>4. CASE SwitchOverride(s)
    <2>1. PICK b \in BOOLEAN : /\ Hold(s, [Derived(row) EXCEPT !.override = b], "save")
                               /\ overridden' = (overridden \/ b)
      BY <1>4 DEF SwitchOverride
    <2> DEFINE e == [Derived(row) EXCEPT !.override = b]
    <2>2. e \in Records
      BY <1>0 DEF Records
    <2>3. UNCHANGED <<row, applicants, green, reviewed, invested>>
      BY <1>4, <2>1 DEF SwitchOverride, Hold
    <2>4. green' \subseteq applicants' /\ applicants' \subseteq 1..MaxApplicants
          /\ reviewed' \in BOOLEAN /\ overridden' \in BOOLEAN
      BY <2>1, <2>3 DEF TypeOK
    <2>5. Cleared => Cleared'
      BY <2>1, <2>3 DEF Cleared
    <2>6. /\ e.sumsub = "approved" => green' # {}
          /\ e.admin = "approved" => green' # {} /\ reviewed'
          /\ e.override => overridden'
          /\ e.eligibility = "approved" => Cleared'
      BY <1>0, <2>1, <2>3, <2>5 DEF Sound, Records
    <2>7. overridden => overridden'
      BY <2>1
    <2>8. loaded' = [loaded EXCEPT ![s] = e] /\ pc' = [pc EXCEPT ![s] = "save"]
      BY <2>1 DEF Hold, Goto
    <2> HIDE DEF e
    <2> QED
      BY <2>2, <2>3, <2>4, <2>6, <2>7, <2>8, HoldPreserves
  <1>5. CASE AdminReview(s)
    <2>1. PICK d \in Decisions :
             /\ d = "approved" => row.sumsub = "approved"
             /\ Hold(s, [Derived(row) EXCEPT !.admin = d],
                     IF d = "approved" THEN "saveApproval" ELSE "save")
             /\ reviewed' = (reviewed \/ d = "approved")
      BY <1>5 DEF AdminReview
    <2> DEFINE e == [Derived(row) EXCEPT !.admin = d]
               l == IF d = "approved" THEN "saveApproval" ELSE "save"
    <2>2. e \in Records
      BY <1>0, VerificationAssumption DEF Records
    <2>3. UNCHANGED <<row, applicants, green, overridden, invested>>
      BY <1>5, <2>1 DEF AdminReview, Hold
    <2>4. green' \subseteq applicants' /\ applicants' \subseteq 1..MaxApplicants
          /\ reviewed' \in BOOLEAN /\ overridden' \in BOOLEAN /\ (reviewed => reviewed')
      BY <2>1, <2>3 DEF TypeOK
    <2>5. Cleared => Cleared'
      BY <2>3, <2>4 DEF Cleared
    <2>6. /\ e.sumsub = "approved" => green' # {}
          /\ e.admin = "approved" => green' # {} /\ reviewed'
          /\ e.override => overridden'
          /\ e.eligibility = "approved" => Cleared'
      BY <1>0, <2>1, <2>3, <2>5 DEF Sound, Records
    <2>7. loaded' = [loaded EXCEPT ![s] = e] /\ pc' = [pc EXCEPT ![s] = l]
          /\ l \in {"save", "saveApproval"}
      BY <2>1 DEF Hold, Goto
    <2> HIDE DEF e, l
    <2> QED
      BY <2>2, <2>3, <2>4, <2>6, <2>7, HoldPreserves
  <1>6. CASE StartSumsub(s)
    BY <1>0, <1>6, LetGoPreserves DEF StartSumsub, Goto
  <1>7. CASE BindApplicant(s)
    <2>1. PICK a \in 1..MaxApplicants \ applicants :
            /\ applicants' = applicants \cup {a}
            /\ loaded' = [loaded EXCEPT ![s] =
                            [Derived(row) EXCEPT !.applicant = a, !.sumsub = "pending"]]
      BY <1>7 DEF BindApplicant
    <2> DEFINE e == [Derived(row) EXCEPT !.applicant = a, !.sumsub = "pending"]
    <2>2. e \in Records
      <3>1. a \in 0..MaxApplicants
        BY VerificationAssumption
      <3>2. e = [Derived(row) EXCEPT !.applicant = a, !.sumsub = "pending"]
        OBVIOUS
      <3> QED
        BY <1>0, <3>1, <3>2 DEF Records, SumsubStatuses
    <2>3. UNCHANGED <<row, green, reviewed, overridden, invested>> /\ pc' = [pc EXCEPT ![s] = "save"]
      BY <1>7 DEF BindApplicant, Goto
    <2>4. green' \subseteq applicants' /\ applicants' \subseteq 1..MaxApplicants
          /\ reviewed' \in BOOLEAN /\ overridden' \in BOOLEAN
      BY <2>1, <2>3 DEF TypeOK
    <2>5. /\ e.sumsub = "approved" => green' # {}
          /\ e.admin = "approved" => green' # {} /\ reviewed'
          /\ e.override => overridden'
          /\ e.eligibility = "approved" => Cleared'
      BY <1>0, <2>3 DEF Sound, Records, Cleared
    <2>6. loaded' = [loaded EXCEPT ![s] = e]
      BY <2>1
    <2> HIDE DEF e
    <2> QED
      BY <2>2, <2>3, <2>4, <2>5, <2>6, HoldPreserves
  <1>8. CASE \E a \in 1..MaxApplicants : SumsubWebhook(s, a)
    <2>1. PICK a \in applicants, v \in Verdicts :
            /\ green' = IF v = "approved" THEN green \cup {a} ELSE green
            /\ IF row.applicant = a
               THEN loaded' = [loaded EXCEPT ![s] = [row EXCEPT !.sumsub = v]] /\ Goto(s, "save")
               ELSE UNCHANGED <<loaded, pc>>
      BY <1>8 DEF SumsubWebhook
    <2> DEFINE e == [row EXCEPT !.sumsub = v]
    <2>2. e \in Records
      BY <1>0, VerificationAssumption DEF Records
    <2>3. UNCHANGED <<row, applicants, reviewed, overridden, invested>>
      BY <1>8 DEF SumsubWebhook
    <2>4. /\ green \subseteq green' /\ green' \subseteq applicants'
          /\ applicants' \subseteq 1..MaxApplicants
          /\ reviewed' \in BOOLEAN /\ overridden' \in BOOLEAN
      BY <2>1, <2>3 DEF TypeOK
    <2>5. Cleared => Cleared'
      BY <2>3, <2>4 DEF Cleared
    <2>6. CASE row.applicant = a
      <3>1. /\ e.sumsub = "approved" => green' # {}
            /\ e.admin = "approved" => green' # {} /\ reviewed'
            /\ e.override => overridden'
            /\ e.eligibility = "approved" => Cleared'
        BY <1>0, <2>1, <2>3, <2>4, <2>5 DEF Sound, Records
      <3>2. loaded' = [loaded EXCEPT ![s] = e] /\ pc' = [pc EXCEPT ![s] = "save"]
        BY <2>1, <2>6 DEF Goto
      <3> HIDE DEF e
      <3> QED
        BY <2>2, <2>3, <2>4, <3>1, <3>2, HoldPreserves
    <2>7. CASE row.applicant # a
      <3>1. UNCHANGED <<loaded, pc>>
        BY <2>1, <2>7
      <3>2. TypeOK'
        BY <2>3, <2>4, <3>1 DEF TypeOK
      <3>3. Sound(row)' /\ \A t \in Sessions : Sound(loaded[t])'
        BY <2>3, <2>4, <3>1, SoundStays DEF AllSound, Sound
      <3> QED
        BY <2>3, <2>5, <3>1, <3>2, <3>3 DEF AllSound
    <2> QED
      BY <2>6, <2>7
  <1>9. CASE Save(s)
    BY <1>0, <1>9, LetGoPreserves DEF Save, Return, Goto
  <1>10. CASE SaveApproval(s)
    BY <1>0, <1>10, LetGoPreserves DEF SaveApproval, Goto
  <1>11. CASE Notify(s)
    BY <1>0, <1>11, LetGoPreserves DEF Notify, Goto
  <1>12. CASE SetupReturns(s)
    BY <1>0, <1>12, LetGoPreserves DEF SetupReturns, Goto
  <1>13. CASE CheckInvestor(s)
    <2>1. Cleared
      BY <1>0, <1>13 DEF CheckInvestor, Eligible, Sound, Cleared
    <2>2. TypeOK' /\ UNCHANGED <<row, loaded, green, reviewed, overridden, invested>>
      BY <1>13 DEF CheckInvestor, Goto, TypeOK
    <2> QED
      BY <2>1, <2>2 DEF AllSound, Sound, Cleared
  <1>14. CASE Invest(s)
    <2>1. Cleared
      BY <1>14 DEF Invest, AllSound
    <2>2. TypeOK' /\ UNCHANGED <<row, loaded, green, reviewed, overridden>>
      BY <1>14 DEF Invest, Goto, TypeOK
    <2> QED
      BY <2>1, <2>2 DEF AllSound, Sound, Cleared
  <1>15. CASE Fail(s)
    BY <1>0, <1>15, LetGoPreserves DEF Fail, Return, Goto
  <1> QED
    BY <1>1, <1>2, <1>3, <1>4, <1>5, <1>6, <1>7, <1>8, <1>9, <1>10, <1>11, <1>12, <1>13, <1>14,
       <1>15 DEF Step

LEMMA NextPreserves == VerificationInv /\ [Next]_verificationVars => VerificationInv'
  <1> SUFFICES ASSUME VerificationInv, [Next]_verificationVars PROVE VerificationInv'
    OBVIOUS
  <1>1. CASE Next
    BY <1>1, StepPreserves DEF Next
  <1>2. CASE UNCHANGED verificationVars
    BY <1>2 DEF verificationVars, VerificationInv, TypeOK, AllSound, Sound, Cleared
  <1> QED
    BY <1>1, <1>2

-----------------------------------------------------------------------------
\* The record and every entity held of it are sound in every state.
THEOREM Soundness == Spec => []VerificationInv
  <1> QED
    BY InitInv, NextPreserves, PTL DEF Spec

\* An admin's approval follows Sumsub's, for any sessions and any stale saves.
THEOREM SumsubFirst == Spec => []SumsubBeforeAdmin
  <1>1. VerificationInv => SumsubBeforeAdmin
    BY DEF VerificationInv, AllSound, Sound, SumsubBeforeAdmin
  <1> QED
    BY <1>1, Soundness, PTL

\* Only cleared investors invest.
THEOREM InvestorsCleared == Spec => []InvestorWasCleared
  <1>1. VerificationInv => InvestorWasCleared
    BY DEF VerificationInv, AllSound, InvestorWasCleared, Cleared
  <1> QED
    BY <1>1, Soundness, PTL
=============================================================================
