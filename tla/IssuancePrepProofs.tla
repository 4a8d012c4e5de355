--------------------------- MODULE IssuancePrepProofs ---------------------------
(***************************************************************************)
(* Theorems of IssuancePrep, for any numbers of projects, sessions, roles, *)
(* calls and attempts: what the token symbols, the requests for custody    *)
(* changes, and the rows of projects, SPVs and role links promise while    *)
(* all calls overlap, each saving rows it may have loaded long before.     *)
(***************************************************************************)
EXTENDS IssuancePrep, SequenceTheorems, FiniteSetTheorems, TLAPS

(***************************************************************************)
(* Where a call is and where it returns to.  A step moves one session, and *)
(* the fields of its draft that say where to go are always set.            *)
(***************************************************************************)
SpvLabels ==
    {"idle", "issueGate", "issueSave",
     "prepare", "findSpv", "saveSpv", "findRoles", "insertDefault", "loadProject", "linkProject",
     "suggest", "insertSuggested", "updateProject", "updateCheck", "updateSave", "linkSave",
     "linkFind", "linkSpv", "findLinks", "unprimary", "sponsorSpv", "sponsorLoad", "sponsorSave",
     "reject", "gate", "gateSpv", "gateRoles", "gateSave", "series", "number", "insertSeries",
     "gaveUp"}

CustodyLabels ==
    {"askSave", "askInsert", "reviewProfile", "reviewProfileSave", "reviewProject", "reviewSave",
     "wallet", "walletSave", "markFind", "markSave", "blockSave", "clearFind", "clearSave"}

\* The attempts at a token symbol.
Attempting == {"number", "insertSeries", "gaveUp"}

Shaped(l, d) ==
    /\ {"spv", "row", "links", "todo", "role", "number", "tries", "then", "back"} \subseteq DOMAIN d
    /\ d.then \in {"idle", "update", "number"} /\ d.back \in {"idle", "issueSave"}
    /\ l \in {"suggest", "insertSuggested"} => d.then # "update"

ControlInv ==
    /\ DOMAIN at = Sessions /\ DOMAIN held = Sessions /\ DOMAIN draft = Sessions
    /\ \A s \in Sessions : Shaped(at[s], draft[s])

Alone(s) ==
    /\ DOMAIN at' = Sessions /\ DOMAIN held' = Sessions /\ DOMAIN draft' = Sessions
    /\ \A q \in Sessions \ {s} : at'[q] = at[q] /\ held'[q] = held[q] /\ draft'[q] = draft[q]

\* A step that makes no attempt at a symbol.
Aside(s, labels) ==
    /\ Alone(s) /\ series' = series
    /\ at'[s] \in labels \ {"insertSeries", "gaveUp"}
    /\ Shaped(at'[s], draft'[s]) /\ draft'[s].tries \in {0, draft[s].tries}

LEMMA BlankIsShaped == Shaped("idle", Blank) /\ Blank.tries = 0
  BY DEF Shaped, Blank

LEMMA FinishAside ==
    ASSUME ControlInv, NEW s \in Sessions, Finish(s)
    PROVE  Alone(s) /\ at'[s] = "idle" /\ Shaped(at'[s], draft'[s]) /\ draft'[s].tries = 0
  BY BlankIsShaped DEF ControlInv, Finish, Return, Goto, Write, Alone

LEMMA SpvStepsAside ==
    ASSUME ControlInv, NEW s \in Sessions, SpvStep(s)
    PROVE  \/ Aside(s, SpvLabels) /\ at[s] \notin Attempting \cup {"issueSave"}
           \/ NextNumber(s) \/ InsertSeries(s) \/ Duplicate(s) \/ GiveUp(s)
  <1> USE DEF Attempting
  <1>0. /\ DOMAIN at = Sessions /\ DOMAIN held = Sessions /\ DOMAIN draft = Sessions
        /\ Shaped(at[s], draft[s])
    BY DEF ControlInv
  <1>1. CASE LoadProject(s)
    BY <1>0, <1>1, FinishAside DEF LoadProject, Aside, Alone, SpvLabels, Shaped, LoadRow, SaveRow, Forget, Goto, Write, Continue, spvVars
  <1>2. CASE FindSpv(s)
    BY <1>0, <1>2, FinishAside DEF FindSpv, Aside, Alone, SpvLabels, Shaped, LoadRow, SaveRow, Forget, Goto, Write, Continue, spvVars
  <1>3. CASE SaveSpv(s)
    BY <1>0, <1>3, FinishAside DEF SaveSpv, Aside, Alone, SpvLabels, Shaped, LoadRow, SaveRow, Forget, Goto, Write, Continue, spvVars
  <1>4. CASE FindRoles(s)
    BY <1>0, <1>4, FinishAside DEF FindRoles, Aside, Alone, SpvLabels, Shaped, LoadRow, SaveRow, Forget, Goto, Write, Continue, spvVars
  <1>5. CASE InsertDefault(s)
    BY <1>0, <1>5, FinishAside DEF InsertDefault, Aside, Alone, SpvLabels, Shaped, LoadRow, SaveRow, Forget, Goto, Write, Continue, spvVars
  <1>6. CASE LoadProjectLate(s)
    BY <1>0, <1>6, FinishAside DEF LoadProjectLate, Aside, Alone, SpvLabels, Shaped, LoadRow, SaveRow, Forget, Goto, Write, Continue, spvVars
  <1>7. CASE LinkProject(s)
    BY <1>0, <1>7, FinishAside DEF LinkProject, Aside, Alone, SpvLabels, Shaped, LoadRow, SaveRow, Forget, Goto, Write, Continue, spvVars
  <1>8. CASE Suggest(s)
    BY <1>0, <1>8, FinishAside DEF Suggest, Aside, Alone, SpvLabels, Shaped, LoadRow, SaveRow, Forget, Goto, Write, Continue, spvVars
  <1>9. CASE InsertSuggested(s)
    <2>1. CASE draft[s].todo # {}
      BY <1>0, <1>9, <2>1 DEF InsertSuggested, Aside, Alone, SpvLabels, Shaped, Write
    <2>2. CASE draft[s].todo = {} /\ draft[s].then = "idle"
      BY <1>9, <2>2, FinishAside DEF InsertSuggested, Aside, SpvLabels, Continue
    <2>3. CASE draft[s].todo = {} /\ draft[s].then # "idle"
      <3>1. Goto(s, draft[s].then) /\ Write(s, [draft[s] EXCEPT !.sponsor = FALSE]) /\ Forget(s)
        BY <1>9, <2>3 DEF InsertSuggested, Continue
      <3> QED BY <1>0, <1>9, <3>1 DEF InsertSuggested, Aside, Alone, SpvLabels, Shaped, Goto, Write, Forget
    <2> QED BY <2>1, <2>2, <2>3
  <1>10. CASE UpdateProject(s)
    BY <1>0, <1>10, FinishAside DEF UpdateProject, Aside, Alone, SpvLabels, Shaped, LoadRow, SaveRow, Forget, Goto, Write, Continue, spvVars
  <1>11. CASE UpdateCheck(s)
    BY <1>0, <1>11, FinishAside DEF UpdateCheck, Aside, Alone, SpvLabels, Shaped, LoadRow, SaveRow, Forget, Goto, Write, Continue, spvVars
  <1>12. CASE UpdateSave(s)
    BY <1>0, <1>12, FinishAside DEF UpdateSave, Aside, Alone, SpvLabels, Shaped, LoadRow, SaveRow, Forget, Goto, Write, Continue, spvVars
  <1>13. CASE LinkSave(s)
    BY <1>0, <1>13, FinishAside DEF LinkSave, Aside, Alone, SpvLabels, Shaped, LoadRow, SaveRow, Forget, Goto, Write, Continue, spvVars
  <1>14. CASE LinkFind(s)
    BY <1>0, <1>14, FinishAside DEF LinkFind, Aside, Alone, SpvLabels, Shaped, LoadRow, SaveRow, Forget, Goto, Write, Continue, spvVars
  <1>15. CASE LinkSpvSave(s)
    BY <1>0, <1>15, FinishAside DEF LinkSpvSave, Aside, Alone, SpvLabels, Shaped, LoadRow, SaveRow, Forget, Goto, Write, Continue, spvVars
  <1>16. CASE FindLinks(s)
    BY <1>0, <1>16, FinishAside DEF FindLinks, Aside, Alone, SpvLabels, Shaped, LoadRow, SaveRow, Forget, Goto, Write, Continue, spvVars
  <1>17. CASE Unprimary(s)
    BY <1>0, <1>17, FinishAside DEF Unprimary, Aside, Alone, SpvLabels, Shaped, LoadRow, SaveRow, Forget, Goto, Write, Continue, spvVars
  <1>18. CASE InsertRole(s)
    BY <1>0, <1>18, FinishAside DEF InsertRole, Aside, Alone, SpvLabels, Shaped, LoadRow, SaveRow, Forget, Goto, Write, Continue, spvVars
  <1>19. CASE SponsorSpv(s)
    BY <1>0, <1>19, FinishAside DEF SponsorSpv, Aside, Alone, SpvLabels, Shaped, LoadRow, SaveRow, Forget, Goto, Write, Continue, spvVars
  <1>20. CASE SponsorLoad(s)
    BY <1>0, <1>20, FinishAside DEF SponsorLoad, Aside, Alone, SpvLabels, Shaped, LoadRow, SaveRow, Forget, Goto, Write, Continue, spvVars
  <1>21. CASE SponsorSave(s)
    BY <1>0, <1>21, FinishAside DEF SponsorSave, Aside, Alone, SpvLabels, Shaped, LoadRow, SaveRow, Forget, Goto, Write, Continue, spvVars
  <1>22. CASE RejectSave(s)
    BY <1>0, <1>22, FinishAside DEF RejectSave, Aside, Alone, SpvLabels, Shaped, LoadRow, SaveRow, Forget, Goto, Write, Continue, spvVars
  <1>23. CASE Gate(s)
    BY <1>0, <1>23, FinishAside DEF Gate, Aside, Alone, SpvLabels, Shaped, LoadRow, SaveRow, Forget, Goto, Write, Continue, spvVars
  <1>24. CASE GateSpv(s)
    <2>1. CASE held[s].row.spv = 0
      BY <1>24, <2>1, FinishAside DEF GateSpv, Aside, SpvLabels
    <2>2. CASE held[s].row.spv # 0
      BY <1>0, <1>24, <2>2 DEF GateSpv, Aside, Alone, SpvLabels, Shaped, Goto, Write
    <2> QED BY <2>1, <2>2
  <1>25. CASE GateRoles(s)
    BY <1>0, <1>25, FinishAside DEF GateRoles, Aside, Alone, SpvLabels, Shaped, LoadRow, SaveRow, Forget, Goto, Write, Continue, spvVars
  <1>26. CASE GateSave(s)
    BY <1>0, <1>26, FinishAside DEF GateSave, Aside, Alone, SpvLabels, Shaped, LoadRow, SaveRow, Forget, Goto, Write, Continue, spvVars
  <1>27. CASE FindSeries(s)
    BY <1>0, <1>27, FinishAside DEF FindSeries, Aside, Alone, SpvLabels, Shaped, LoadRow, SaveRow, Forget, Goto, Write, Continue, spvVars
  <1> QED BY <1>1, <1>2, <1>3, <1>4, <1>5, <1>6, <1>7, <1>8, <1>9, <1>10, <1>11, <1>12, <1>13, <1>14, <1>15, <1>16, <1>17, <1>18, <1>19, <1>20, <1>21, <1>22, <1>23, <1>24, <1>25, <1>26, <1>27 DEF SpvStep

\* Calls begin where a session is idle.
LEMMA CallsAside ==
    ASSUME ControlInv, NEW s \in Sessions,
           SpvCall(s) \/ (\E p \in Projects : Issue(s, p)) \/ IssueGate(s) \/ IssueSave(s)
    PROVE  /\ Aside(s, SpvLabels) /\ at[s] \in {"idle", "issueGate", "issueSave"}
           /\ at[s] = "issueSave" => draft'[s].tries = 0
  <1> USE DEF Call, Begin
  <1>0. /\ DOMAIN at = Sessions /\ DOMAIN held = Sessions /\ DOMAIN draft = Sessions
        /\ Shaped(at[s], draft[s])
    BY DEF ControlInv
  <1>1. ASSUME NEW p \in Projects, Prepare(s, p)
       PROVE  Aside(s, SpvLabels) /\ at[s] = "idle"
    BY <1>0, <1>1 DEF Prepare, Aside, Alone, SpvLabels, Shaped, LoadRow, Goto, Write, Blank, spvVars
  <1>2. ASSUME NEW p \in Projects, CreateSpv(s, p)
       PROVE  Aside(s, SpvLabels) /\ at[s] = "idle"
    BY <1>0, <1>2 DEF CreateSpv, Aside, Alone, SpvLabels, Shaped, LoadRow, Goto, Write, Blank, spvVars
  <1>3. ASSUME NEW p \in Projects, CreateSeries(s, p)
       PROVE  Aside(s, SpvLabels) /\ at[s] = "idle"
    BY <1>0, <1>3 DEF CreateSeries, Aside, Alone, SpvLabels, Shaped, LoadRow, Goto, Write, Blank, spvVars
  <1>4. ASSUME NEW i, NEW p, LinkSpv(s, p, i)
       PROVE  Aside(s, SpvLabels) /\ at[s] = "idle"
    BY <1>0, <1>4 DEF LinkSpv, Aside, Alone, SpvLabels, Shaped, LoadRow, Goto, Write, Blank, spvVars
  <1>5. ASSUME NEW i, NEW p, NEW ready, UpdateSpv(s, i, p, ready)
       PROVE  Aside(s, SpvLabels) /\ at[s] = "idle"
    BY <1>0, <1>5 DEF UpdateSpv, Aside, Alone, SpvLabels, Shaped, LoadRow, Goto, Write, Blank, spvVars
  <1>6. ASSUME NEW i, NEW r, Upsert(s, i, r)
       PROVE  Aside(s, SpvLabels) /\ at[s] = "idle"
    BY <1>0, <1>6 DEF Upsert, Aside, Alone, SpvLabels, Shaped, LoadRow, Goto, Write, Blank, spvVars
  <1>7. ASSUME NEW k, Reject(s, k)
       PROVE  Aside(s, SpvLabels) /\ at[s] = "idle"
    BY <1>0, <1>7 DEF Reject, Aside, Alone, SpvLabels, Shaped, LoadRow, Goto, Write, Blank, spvVars
  <1>8. ASSUME NEW p \in Projects, Issue(s, p)
       PROVE  Aside(s, SpvLabels) /\ at[s] = "idle"
    BY <1>0, <1>8 DEF Issue, Aside, Alone, SpvLabels, Shaped, LoadRow, Goto, Write, Blank, spvVars
  <1>9. CASE IssueGate(s)
    <2>1. CASE Incomplete(issue[s], Waiting(held[s].p) # {})
      BY <1>9, <2>1, FinishAside DEF IssueGate, Aside, SpvLabels
    <2>2. CASE ~Incomplete(issue[s], Waiting(held[s].p) # {})
      BY <1>0, <1>9, <2>2 DEF IssueGate, Aside, Alone, SpvLabels, Shaped, Goto, Write, Blank
    <2> QED BY <1>9, <2>1, <2>2 DEF IssueGate
  <1>10. CASE IssueSave(s)
    BY <1>10, FinishAside DEF IssueSave, Aside, SpvLabels
  <1> QED BY <1>1, <1>2, <1>3, <1>4, <1>5, <1>6, <1>7, <1>8, <1>9, <1>10 DEF SpvCall

\* The handlers of CustodyConfig leave drafts and series alone.
LEMMA CustodyAside ==
    ASSUME ControlInv, NEW s \in Sessions, CustodyCall(s) \/ CustodyStep(s), UNCHANGED spvVars
    PROVE  Aside(s, CustodyLabels \cup {"idle"}) /\ at[s] \in CustodyLabels \cup {"idle"}
  <1> USE DEF Call, Begin, Goto, LoadRow, End, Return, Aside, Alone, CustodyLabels, Shaped, spvVars
  <1>0. /\ DOMAIN at = Sessions /\ DOMAIN held = Sessions /\ DOMAIN draft = Sessions
        /\ Shaped(at[s], draft[s])
    BY DEF ControlInv
  <1>1. CASE CustodyCall(s)
    BY <1>0, <1>1 DEF CustodyCall, AskMode, AskWallet, ChangeWallet, Review, MarkReviewed, Block, Clear
  <1>2. CASE CustodyStep(s)
    BY <1>0, <1>2 DEF CustodyStep, AskSave, AskInsert, ReviewProfile, ReviewProfileSave, ReviewProject,
         ReviewSave, LoadWallet, SaveWallet, MarkFind, MarkSave, BlockSave, ClearFind, ClearSave
  <1> QED BY <1>1, <1>2

-----------------------------------------------------------------------------
(***************************************************************************)
(* The token symbols.  The k-th series has number k, and a session that    *)
(* has lost several attempts has seen a series appear for each: a number   *)
(* once read is more than the attempts before it, and is lost only when a  *)
(* series with it, or one of the project, is there.                        *)
(***************************************************************************)
Beaten(s) == SeriesOf(held[s].p) # {} \/ Len(series) >= draft[s].tries

AttemptOK(s) ==
    /\ draft[s].tries \in Nat
    /\ at[s] \notin Attempting \cup {"issueSave"} => draft[s].tries = 0
    /\ at[s] \in {"number", "gaveUp"} => Beaten(s)
    /\ at[s] = "gaveUp" => draft[s].tries >= MaxTries
    /\ at[s] = "insertSeries" =>
         /\ draft[s].number \in 1..(Len(series) + 1)
         /\ SeriesOf(held[s].p) # {} \/ draft[s].tries < draft[s].number

OneEach ==
    /\ \E S : series \in Seq(S)
    /\ \A k \in 1..Len(series) : series[k].number = k
    /\ \A j, k \in 1..Len(series) : series[j].project = series[k].project => j = k

SeriesInv == ControlInv /\ OneEach /\ \A s \in Sessions : AttemptOK(s)

LEMMA SeriesIndices == OneEach => Len(series) \in Nat /\ DOMAIN series = 1..Len(series)
  BY LenProperties DEF OneEach

LEMMA NumbersAreIndices ==
    ASSUME OneEach PROVE Numbers = 1..Len(series) /\ Highest = Len(series)
  <1>1. Numbers = 1..Len(series)
    BY SeriesIndices DEF OneEach, Numbers
  <1>2. CASE Len(series) = 0
    BY <1>1, <1>2 DEF Highest
  <1>3. CASE Len(series) # 0
    <2>1. Len(series) \in Numbers /\ \A n \in Numbers : n \in Nat /\ n <= Len(series)
      BY <1>1, <1>3, SeriesIndices
    <2>2. PICK n \in Numbers : Highest = n /\ \A k \in Numbers : k <= n
      BY <2>1 DEF Highest
    <2> QED BY <1>1, <2>1, <2>2
  <1> QED BY <1>1, <1>2, <1>3

\* One more series: its number is the next one if no other has it.
LEMMA SeriesGrows ==
    ASSUME OneEach, NEW e, series' = Append(series, e), e.number = Len(series) + 1,
           \A k \in 1..Len(series) : series[k].project # e.project
    PROVE  /\ OneEach' /\ Len(series') = Len(series) + 1
           /\ \A p : SeriesOf(p) \subseteq SeriesOf(p)'
  <1>1. PICK S : series \in Seq(S)
    BY DEF OneEach
  <1>2. series \in Seq(S \cup {e})
    BY <1>1, SeqDef
  <1>3. /\ series' \in Seq(S \cup {e}) /\ Len(series') = Len(series) + 1
        /\ \A k \in 1..Len(series) : series'[k] = series[k]
        /\ series'[Len(series) + 1] = e
    BY <1>2, AppendProperties
  <1>4. Len(series) \in Nat
    BY SeriesIndices
  <1>5. \A j, k \in 1..Len(series') : series'[j].project = series'[k].project => j = k
    BY <1>3, <1>4 DEF OneEach
  <1>6. DOMAIN series' = 1..Len(series')
    BY <1>3, LenProperties
  <1> QED BY <1>3, <1>4, <1>5, <1>6, SeriesIndices DEF OneEach, SeriesOf

\* What holds of the other sessions still does when series are only added.
LEMMA OthersAttempt ==
    ASSUME SeriesInv, NEW s \in Sessions, Alone(s), NEW q \in Sessions \ {s},
           \A p : SeriesOf(p) \subseteq SeriesOf(p)', Len(series') \in Nat, Len(series') >= Len(series)
    PROVE  Shaped(at[q], draft[q])' /\ AttemptOK(q)'
  <1>1. at'[q] = at[q] /\ held'[q] = held[q] /\ draft'[q] = draft[q]
    BY DEF Alone
  <1>2. SeriesOf(held[q].p) # {} => SeriesOf(held[q].p)' # {}
    BY <1>1 DEF SeriesOf
  <1>3. Shaped(at[q], draft[q])'
    BY <1>1 DEF SeriesInv, ControlInv, Shaped
  <1>4. AttemptOK(q)'
    BY <1>1, <1>2, SeriesIndices DEF SeriesInv, AttemptOK, Beaten
  <1> QED BY <1>3, <1>4

LEMMA AsideKeepsSeries ==
    ASSUME SeriesInv, NEW s \in Sessions, Aside(s, SpvLabels \cup CustodyLabels),
           at[s] \notin Attempting, at[s] = "issueSave" => draft'[s].tries = 0
    PROVE  SeriesInv'
  <1>1. OneEach' /\ \A p : SeriesOf(p)' = SeriesOf(p)
    BY DEF SeriesInv, OneEach, Aside, SeriesOf
  <1>2. \A q \in Sessions \ {s} : Shaped(at[q], draft[q])' /\ AttemptOK(q)'
    BY <1>1, OthersAttempt, SeriesIndices DEF SeriesInv, Aside
  <1>3. draft'[s].tries = 0
    BY DEF SeriesInv, AttemptOK, Aside
  <1>4. AttemptOK(s)'
    BY <1>3, SeriesIndices DEF SeriesInv, Aside, AttemptOK, Beaten
  <1> QED BY <1>1, <1>2, <1>4 DEF SeriesInv, ControlInv, Aside, Alone

LEMMA AttemptsKeepSeries ==
    ASSUME SeriesInv, NEW s \in Sessions,
           NextNumber(s) \/ InsertSeries(s) \/ Duplicate(s) \/ GiveUp(s)
    PROVE  SeriesInv' /\ Alone(s) /\ at'[s] \in SpvLabels
  <1>0. /\ DOMAIN at = Sessions /\ DOMAIN held = Sessions /\ DOMAIN draft = Sessions
        /\ Shaped(at[s], draft[s]) /\ AttemptOK(s) /\ OneEach
    BY DEF SeriesInv, ControlInv
  <1>1. Len(series) \in Nat /\ DOMAIN series = 1..Len(series)
    BY <1>0, SeriesIndices
  <1>2. SUFFICES /\ Alone(s) /\ OneEach' /\ Shaped(at[s], draft[s])' /\ AttemptOK(s)'
                 /\ at'[s] \in SpvLabels
                 /\ \A p : SeriesOf(p) \subseteq SeriesOf(p)'
                 /\ Len(series') \in Nat /\ Len(series') >= Len(series)
    BY OthersAttempt DEF SeriesInv, ControlInv, Alone
  <1>3. ASSUME series' = series
        PROVE  /\ OneEach' /\ \A p : SeriesOf(p)' = SeriesOf(p)
    BY <1>0, <1>3 DEF OneEach, SeriesOf
  <1>4. CASE NextNumber(s)
    <2>1. draft'[s] = [draft[s] EXCEPT !.number = Len(series) + 1] /\ at'[s] = "insertSeries"
      BY <1>0, <1>4, NumbersAreIndices DEF NextNumber, Write, Goto
    <2>2. Alone(s) /\ held' = held /\ series' = series
      BY <1>0, <1>4 DEF NextNumber, Write, Goto, Alone
    <2>3. draft'[s].number = Len(series) + 1 /\ draft'[s].tries = draft[s].tries
      BY <1>0, <2>1 DEF Shaped
    <2>4. AttemptOK(s)'
      BY <1>0, <1>1, <1>3, <1>4, <2>1, <2>2, <2>3 DEF NextNumber, AttemptOK, Beaten, Attempting
    <2> QED BY <1>0, <1>1, <1>3, <2>1, <2>2, <2>4 DEF Shaped, SpvLabels
  <1>5. CASE InsertSeries(s)
    <2> DEFINE e == [project |-> held[s].p, number |-> draft[s].number, spv |-> draft[s].spv]
    <2>1. series' = Append(series, e) /\ at[s] = "insertSeries" /\ Unique(s)
      BY <1>5 DEF InsertSeries
    <2>2. e.number = Len(series) + 1
      BY <1>0, <1>1, <2>1, NumbersAreIndices DEF Unique, AttemptOK
    <2>3. \A k \in 1..Len(series) : series[k].project # e.project
      BY <1>1, <2>1 DEF Unique, SeriesOf
    <2>4. /\ OneEach' /\ Len(series') = Len(series) + 1 /\ \A p : SeriesOf(p) \subseteq SeriesOf(p)'
      BY <1>0, <2>1, <2>2, <2>3, SeriesGrows
    <2>5. CASE draft[s].back = "idle"
      <3>1. Alone(s) /\ at'[s] = "idle" /\ Shaped(at[s], draft[s])' /\ draft'[s].tries = 0
        BY <1>5, <2>5, FinishAside DEF InsertSeries, Continue, SeriesInv
      <3> QED BY <1>1, <2>4, <3>1 DEF AttemptOK, SpvLabels
    <2>6. CASE draft[s].back # "idle"
      <3>1. Alone(s) /\ at'[s] = "issueSave" /\ draft'[s] = draft[s]
        BY <1>0, <1>5, <2>6 DEF InsertSeries, Continue, Shaped, Goto, Write, Forget, Alone
      <3> QED BY <1>0, <1>1, <2>4, <3>1 DEF AttemptOK, Attempting, Shaped, SpvLabels
    <2> QED BY <2>5, <2>6
  <1>6. CASE Duplicate(s)
    <2>1. Alone(s) /\ held' = held /\ series' = series /\ at[s] = "insertSeries" /\ ~Unique(s)
      BY <1>0, <1>6 DEF Duplicate, Write, Goto, Alone
    <2>2. draft'[s] = [draft[s] EXCEPT !.tries = @ + 1]
      BY <1>0, <1>6 DEF Duplicate, Write
    <2>3. draft'[s].tries = draft[s].tries + 1 /\ Shaped("idle", draft'[s])
      BY <1>0, <2>2 DEF Shaped
    <2>4. SeriesOf(held[s].p) # {} \/ draft[s].number \in 1..Len(series)
      BY <1>0, <2>1, NumbersAreIndices DEF Unique
    <2>5. Beaten(s)'
      BY <1>0, <1>1, <1>3, <2>1, <2>3, <2>4 DEF AttemptOK, Beaten
    <2>6. \/ at'[s] = "number"
          \/ at'[s] = "gaveUp" /\ ~(draft[s].tries + 1 < MaxTries)
      BY <1>0, <1>6 DEF Duplicate, Goto
    <2>7. AttemptOK(s)'
      BY <1>0, <1>1, <2>3, <2>5, <2>6, SeriesAssumption DEF AttemptOK, Attempting
    <2> QED BY <1>0, <1>1, <1>3, <2>1, <2>3, <2>6, <2>7 DEF Shaped, SpvLabels
  <1>7. CASE GiveUp(s)
    <2>1. Alone(s) /\ at'[s] = "idle" /\ Shaped(at[s], draft[s])' /\ draft'[s].tries = 0 /\ series' = series
      BY <1>7, FinishAside DEF GiveUp, SeriesInv
    <2> QED BY <1>1, <1>3, <2>1 DEF AttemptOK, SpvLabels
  <1> QED BY <1>4, <1>5, <1>6, <1>7

LEMMA SeriesInit == Init => SeriesInv
  <1> SUFFICES ASSUME Init PROVE SeriesInv
    OBVIOUS
  <1>1. PICK p \in Projects, issued \in BOOLEAN : SpvInit(p, issued)
    BY DEF Init
  <1>2. ControlInv /\ \A s \in Sessions : at[s] = "idle" /\ draft[s].tries = 0
    BY <1>1, BlankIsShaped DEF Init, SpvInit, ControlInv
  <1>3. OneEach
    <2>1. CASE issued
      <3> DEFINE e == [project |-> p, number |-> 1, spv |-> 1]
      <3>1. series = <<e>>
        BY <1>1, <2>1 DEF SpvInit
      <3>2. series \in Seq({e}) /\ Len(series) = 1 /\ series[1] = e
        BY <3>1
      <3> QED BY <3>2 DEF OneEach
    <2>2. CASE ~issued
      <3>1. series = <<>>
        BY <1>1, <2>2 DEF SpvInit
      <3>2. series \in Seq({}) /\ Len(series) = 0
        BY <3>1
      <3> QED BY <3>2 DEF OneEach
    <2> QED BY <2>1, <2>2
  <1> QED BY <1>2, <1>3 DEF SeriesInv, AttemptOK, Attempting

LEMMA SeriesStep == SeriesInv /\ [Next]_prepVars => SeriesInv'
  <1> SUFFICES ASSUME SeriesInv, [Next]_prepVars PROVE SeriesInv'
    OBVIOUS
  <1>1. CASE UNCHANGED prepVars
    BY <1>1 DEF prepVars, rowVars, spvVars, SeriesInv, ControlInv, OneEach, AttemptOK, Beaten, SeriesOf
  <1>2. ASSUME NEW s \in Sessions, Aside(s, SpvLabels), at[s] \notin Attempting \cup {"issueSave"}
        PROVE  SeriesInv'
    BY <1>2, AsideKeepsSeries DEF Aside
  <1>3. ASSUME NEW s \in Sessions, SpvStep(s) PROVE SeriesInv'
    BY <1>2, <1>3, SpvStepsAside, AttemptsKeepSeries DEF SeriesInv
  <1>4. ASSUME NEW s \in Sessions,
               SpvCall(s) \/ (\E p \in Projects : Issue(s, p)) \/ IssueGate(s) \/ IssueSave(s)
        PROVE  SeriesInv'
    <2>1. /\ Aside(s, SpvLabels) /\ at[s] \in {"idle", "issueGate", "issueSave"}
          /\ at[s] = "issueSave" => draft'[s].tries = 0
      BY <1>4, CallsAside DEF SeriesInv
    <2> QED BY <1>4, <2>1, AsideKeepsSeries DEF Aside, Attempting
  <1>5. ASSUME NEW s \in Sessions, CustodyCall(s) \/ CustodyStep(s), UNCHANGED spvVars
        PROVE  SeriesInv'
    <2>1. Aside(s, CustodyLabels \cup {"idle"}) /\ at[s] \in CustodyLabels \cup {"idle"}
      BY <1>5, CustodyAside DEF SeriesInv
    <2> QED BY <1>5, <2>1, AsideKeepsSeries DEF Aside, Attempting, CustodyLabels, SpvLabels
  <1> QED BY <1>1, <1>2, <1>3, <1>4, <1>5 DEF Next, Step

LEMMA SeriesInvariant == Spec => []SeriesInv
  BY SeriesInit, SeriesStep, PTL DEF Spec

\* However many calls create series at once, the symbols count up without a gap and no
\* project has two series: generateTokenSymbol and the retries of createSeriesForProject.
THEOREM SymbolsWithoutGap == Spec => []SymbolsCountUp
  <1>1. SeriesInv => SymbolsCountUp
    BY SeriesIndices, NumbersAreIndices DEF SeriesInv, OneEach, SymbolsCountUp
  <1> QED BY <1>1, SeriesInvariant, PTL

\* The creation of a series fails only when it has lost every attempt to another project
\* or its project has got a series meanwhile, for any bound on the attempts.
THEOREM GivesUpOnlyBeaten == Spec => []GivesUpBeaten
  <1>1. SeriesInv => GivesUpBeaten
    BY SeriesIndices, SeriesAssumption DEF SeriesInv, AttemptOK, Beaten, GivesUpBeaten
  <1> QED BY <1>1, SeriesInvariant, PTL

-----------------------------------------------------------------------------
(***************************************************************************)
(* The requests for a change of custody.  A request is only ever appended, *)
(* or saved over itself with another status, so what a review has read of  *)
(* its kind and mode stays true however long the review takes; the mode a  *)
(* session is about to save in the profile is one that was given.          *)
(***************************************************************************)
Given(m) ==
    m = FirstMode \/ \E k \in applied : requests[k].kind = "developer" /\ requests[k].mode = m

\* A request of a project names it.
Named(r) == r.kind = "project" => r.project \in Projects

Reviewing == {"reviewProfile", "reviewProfileSave", "reviewProject", "reviewSave", "wallet", "walletSave"}

ReviewOK(s) ==
    LET v == review[s]
    IN /\ at[s] \in {"askSave", "askInsert"} => v.request.status = "pending"
       /\ at[s] = "askSave" => Given(v.mode)
       /\ at[s] \in Reviewing \ {"wallet", "walletSave"} => v.id # 0
       /\ at[s] \in Reviewing /\ v.id # 0 =>
            /\ v.id \in DOMAIN requests
            /\ v.request.kind = requests[v.id].kind /\ v.request.mode = requests[v.id].mode
       /\ at[s] \in Reviewing \cup {"askSave", "askInsert"} => Named(v.request)
       /\ at[s] = "reviewProject" => v.request.kind = "project"
       /\ at[s] \in {"wallet", "walletSave"} => v.request.project \in Projects
       /\ at[s] \in {"reviewProfile", "reviewProfileSave"} => v.request.kind = "developer"
       /\ at[s] = "reviewProfileSave" =>
            IF v.request.status = "approved" THEN v.mode = v.request.mode ELSE Given(v.mode)
       /\ at[s] = "reviewSave" /\ v.request.status = "approved" => v.id \in applied

RequestsInv ==
    /\ CustodyTypeOK /\ ApprovedIsApplied /\ Given(profile)
    /\ \A k \in DOMAIN requests : Named(requests[k])
    /\ \A s \in Sessions : ReviewOK(s)

\* What every step does to the requests, and to the decisions applied.
Kept ==
    /\ DOMAIN requests \subseteq DOMAIN requests' /\ applied \subseteq applied'
    /\ \A k \in DOMAIN requests : requests'[k].kind = requests[k].kind /\ requests'[k].mode = requests[k].mode

LEMMA GivenStays ==
    ASSUME Kept, applied \subseteq DOMAIN requests, NEW m, Given(m) PROVE Given(m)'
  BY DEF Given, Kept

LEMMA OthersReview ==
    ASSUME RequestsInv, NEW q \in Sessions, Kept, at'[q] = at[q], review'[q] = review[q]
    PROVE  ReviewOK(q)'
  <1>1. \A m : Given(m) => Given(m)'
    BY GivenStays DEF RequestsInv, CustodyTypeOK
  <1>2. Given(review[q].mode) => Given(review[q].mode)'
    BY <1>1 DEF Given
  <1> QED BY <1>2 DEF RequestsInv, ReviewOK, Kept

LEMMA FirstIsAMode == FirstMode \in Modes
  BY RowAssumption DEF FirstMode

LEMMA IdleIsAReview ==
    Idle \in Reviews /\ Idle.id = 0 /\ Idle.request.status = "pending" /\ Named(Idle.request)
  BY FirstIsAMode DEF Idle, Reviews, Requests, RequestStatuses, Named

LEMMA RequestsRead ==
    ASSUME CustodyTypeOK
    PROVE  /\ Len(requests) \in Nat /\ DOMAIN requests = 1..Len(requests)
           /\ \A k \in DOMAIN requests : requests[k] \in Requests
  BY LenProperties DEF CustodyTypeOK

\* A step that changes neither profile nor requests nor what was applied.
LEMMA ReviewMoves ==
    ASSUME RequestsInv, NEW s \in Sessions, DOMAIN at' = Sessions, NEW v \in Reviews, Note(s, v),
           \A q \in Sessions \ {s} : at'[q] = at[q],
           UNCHANGED <<profile, requests, applied>>, ReviewOK(s)'
    PROVE  RequestsInv'
  <1>1. review' \in [Sessions -> Reviews] /\ \A q \in Sessions \ {s} : review'[q] = review[q]
    BY DEF RequestsInv, CustodyTypeOK, Note
  <1>2. \A q \in Sessions \ {s} : ReviewOK(q)'
    BY <1>1, OthersReview DEF Kept
  <1> QED BY <1>1, <1>2 DEF RequestsInv, CustodyTypeOK, ApprovedIsApplied, Given

\* One that leaves the handlers of custody, or is none of them.
LEMMA ReviewRests ==
    ASSUME RequestsInv, NEW s \in Sessions, UNCHANGED custodyVars,
           \A q \in Sessions \ {s} : at'[q] = at[q], at'[s] \in SpvLabels \cup {"markFind", "blockSave", "clearFind", "clearSave"}
    PROVE  RequestsInv'
  <1>1. \A q \in Sessions \ {s} : ReviewOK(q)'
    BY OthersReview DEF Kept, custodyVars
  <1>2. ReviewOK(s)'
    BY DEF ReviewOK, Reviewing, SpvLabels
  <1> QED BY <1>1, <1>2 DEF RequestsInv, CustodyTypeOK, ApprovedIsApplied, Given, custodyVars

LEMMA EndMoves ==
    ASSUME RequestsInv, ControlInv, NEW s \in Sessions, End(s), UNCHANGED <<profile, requests, applied>>
    PROVE  RequestsInv'
  <1>1. Note(s, Idle) /\ DOMAIN at' = Sessions /\ at'[s] = "idle" /\ \A q \in Sessions \ {s} : at'[q] = at[q]
    BY DEF End, Return, Goto, ControlInv
  <1>2. ReviewOK(s)'
    BY <1>1 DEF ReviewOK, Reviewing
  <1> QED BY <1>1, <1>2, IdleIsAReview, ReviewMoves

\* A step that changes what others rely on must keep it.
LEMMA ReviewWrites ==
    ASSUME RequestsInv, NEW s \in Sessions, Kept,
           \A q \in Sessions \ {s} : at'[q] = at[q] /\ review'[q] = review[q],
           CustodyTypeOK', ApprovedIsApplied', Given(profile)', ReviewOK(s)',
           \A k \in DOMAIN requests' : Named(requests'[k])
    PROVE  RequestsInv'
  BY OthersReview DEF RequestsInv

LEMMA CustodyCallsKeep ==
    ASSUME RequestsInv, ControlInv, NEW s \in Sessions, CustodyCall(s)
    PROVE  RequestsInv'
  <1> USE DEF Call, Begin, Goto
  <1>0. DOMAIN at = Sessions /\ CustodyTypeOK /\ Given(profile)
    BY DEF ControlInv, RequestsInv
  <1>1. Idle \in Reviews /\ Idle.request \in Requests
    BY IdleIsAReview DEF Reviews
  <1>2. ASSUME NEW m \in Modes, AskMode(s, m) PROVE RequestsInv'
    <2> DEFINE v == [Idle EXCEPT !.mode = profile, !.request.mode = m]
    <2>1. v \in Reviews /\ v.mode = profile /\ v.request.status = "pending" /\ Named(v.request)
      BY <1>0, <1>1, IdleIsAReview DEF Reviews, Requests, CustodyTypeOK, Named
    <2>2. review'[s] = v /\ at'[s] = "askSave" /\ UNCHANGED <<profile, requests, applied>>
      BY <1>0, <1>2 DEF AskMode, Note, CustodyTypeOK
    <2>3. ReviewOK(s)'
      BY <1>0, <2>1, <2>2 DEF ReviewOK, Reviewing, Given
    <2> QED BY <1>0, <1>2, <2>1, <2>3, ReviewMoves DEF AskMode
  <1>3. ASSUME NEW p \in Projects, NEW m \in Modes, AskWallet(s, p, m) PROVE RequestsInv'
    <2> DEFINE v == [Idle EXCEPT !.request = [kind |-> "project", project |-> p, mode |-> m,
                                              status |-> "pending"]]
    <2>1. v \in Reviews /\ v.request.status = "pending" /\ Named(v.request)
      BY <1>1 DEF Reviews, Requests, RequestStatuses, Named
    <2>2. review'[s] = v /\ at'[s] = "askInsert"
      BY <1>0, <1>3 DEF AskWallet, Note, CustodyTypeOK
    <2>3. ReviewOK(s)'
      BY <2>1, <2>2 DEF ReviewOK, Reviewing
    <2> QED BY <1>0, <1>3, <2>1, <2>3, ReviewMoves DEF AskWallet
  <1>4. ASSUME NEW p \in Projects, NEW m \in Modes, ChangeWallet(s, p, m) PROVE RequestsInv'
    <2> DEFINE v == [Idle EXCEPT !.request.project = p, !.request.mode = m]
    <2>1. v \in Reviews /\ v.id = 0 /\ v.request.project = p /\ Named(v.request)
      BY <1>1, IdleIsAReview DEF Reviews, Requests, Named
    <2>2. review'[s] = v /\ at'[s] = "wallet"
      BY <1>0, <1>4 DEF ChangeWallet, Note, CustodyTypeOK
    <2>3. ReviewOK(s)'
      BY <2>1, <2>2 DEF ReviewOK, Reviewing
    <2> QED BY <1>0, <1>4, <2>1, <2>3, ReviewMoves DEF ChangeWallet
  <1>5. ASSUME NEW k \in DOMAIN requests, NEW d \in RequestStatuses, Review(s, k, d) PROVE RequestsInv'
    <2> DEFINE v == [Idle EXCEPT !.id = k, !.request = [requests[k] EXCEPT !.status = d]]
    <2>1. k \in 1..Len(requests) /\ Len(requests) \in Nat /\ requests[k] \in Requests /\ Named(requests[k])
      BY <1>0, RequestsRead DEF RequestsInv
    <2> DEFINE e == [requests[k] EXCEPT !.status = d]
    <2>a. e \in Requests /\ e.kind = requests[k].kind /\ e.mode = requests[k].mode /\ e.status = d /\ Named(e)
      BY <2>1 DEF Requests, Named
    <2>2. /\ v \in Reviews /\ v.id = k /\ k # 0
          /\ v.request.kind = requests[k].kind /\ v.request.mode = requests[k].mode
          /\ v.request.status = d /\ Named(v.request)
      <3> HIDE DEF e
      <3>1. [Idle EXCEPT !.id = k, !.request = e] \in Reviews
        <4>1. \A j \in Nat, r \in Requests : [Idle EXCEPT !.id = j, !.request = r] \in Reviews
          BY <1>1 DEF Reviews
        <4>2. k \in Nat
          BY <2>1
        <4> QED BY <2>a, <4>1, <4>2
      <3>2. v = [Idle EXCEPT !.id = k, !.request = e]
        BY DEF e
      <3>3. v.id = k /\ v.request = e
        BY <1>1, <3>2 DEF Reviews
      <3> QED BY <2>1, <2>a, <3>1, <3>2, <3>3
    <2>3. /\ review'[s] = v /\ UNCHANGED requests
          /\ \/ at'[s] = "reviewProfile" /\ v.request.kind = "developer"
             \/ at'[s] = "reviewProject" /\ v.request.kind = "project"
             \/ at'[s] = "reviewSave" /\ d # "approved"
      BY <1>0, <1>5, <2>1, <2>2 DEF Review, Note, CustodyTypeOK, Requests
    <2>4. ReviewOK(s)'
      BY <2>2, <2>3 DEF ReviewOK, Reviewing
    <2> QED BY <1>0, <1>5, <2>2, <2>4, ReviewMoves DEF Review
  <1>6. ASSUME NEW p \in Projects, MarkReviewed(s, p) \/ Block(s, p) \/ Clear(s, p) PROVE RequestsInv'
    <2>1. at'[s] \in {"markFind", "blockSave", "clearFind"} /\ \A q \in Sessions \ {s} : at'[q] = at[q]
      BY <1>0, <1>6 DEF MarkReviewed, Block, Clear
    <2> QED BY <1>6, <2>1, ReviewRests DEF MarkReviewed, Block, Clear, RequestsInv, CustodyTypeOK, custodyVars
  <1> QED BY <1>2, <1>3, <1>4, <1>5, <1>6 DEF CustodyCall

LEMMA CustodyStepsKeep ==
    ASSUME RequestsInv, ControlInv, NEW s \in Sessions, CustodyStep(s)
    PROVE  RequestsInv'
  <1> USE DEF Goto
  <1> DEFINE v == review[s]
             k == v.id
  <1>0. /\ DOMAIN at = Sessions /\ CustodyTypeOK /\ Given(profile) /\ ReviewOK(s) /\ ApprovedIsApplied
        /\ v \in Reviews /\ review \in [Sessions -> Reviews] /\ requests \in Seq(Requests)
        /\ profile \in Modes /\ applied \subseteq DOMAIN requests
        /\ \A j \in DOMAIN requests : Named(requests[j])
    BY DEF ControlInv, RequestsInv, CustodyTypeOK
  <1>1. /\ Len(requests) \in Nat /\ DOMAIN requests = 1..Len(requests)
        /\ v.mode \in Modes /\ v.request \in Requests /\ v.request.mode \in Modes
    BY <1>0, RequestsRead DEF Reviews, Requests
  <1>2. CASE AskSave(s)
    <2>1. /\ profile' = v.mode /\ at[s] = "askSave" /\ at'[s] = "askInsert" /\ Given(v.mode)
          /\ UNCHANGED <<requests, review, applied>> /\ \A q \in Sessions \ {s} : at'[q] = at[q]
      BY <1>0, <1>2 DEF AskSave, ReviewOK
    <2>2. ReviewOK(s)'
      BY <1>0, <2>1 DEF ReviewOK, Reviewing
    <2> QED BY <1>0, <1>1, <2>1, <2>2, ReviewWrites DEF Kept, CustodyTypeOK, ApprovedIsApplied, Given
  <1>3. CASE AskInsert(s)
    <2>1. /\ requests' = Append(requests, v.request) /\ v.request.status = "pending" /\ at'[s] = "idle"
          /\ Named(v.request)
          /\ review' = [review EXCEPT ![s] = Idle] /\ UNCHANGED <<profile, applied>>
          /\ \A q \in Sessions \ {s} : at'[q] = at[q]
      BY <1>0, <1>3 DEF AskInsert, ReviewOK, End, Return, Note
    <2>2. /\ requests' \in Seq(Requests) /\ DOMAIN requests' = 1..(Len(requests) + 1)
          /\ \A j \in 1..Len(requests) : requests'[j] = requests[j]
          /\ requests'[Len(requests) + 1] = v.request
      BY <1>0, <1>1, <2>1, AppendProperties, LenProperties
    <2>3. Kept
      BY <1>1, <2>1, <2>2 DEF Kept
    <2>4. Given(profile)'
      BY <1>0, <2>1, <2>3, GivenStays DEF Given
    <2>5. CustodyTypeOK'
      BY <1>0, <1>1, <2>1, <2>2, IdleIsAReview DEF CustodyTypeOK
    <2>6. ApprovedIsApplied'
      BY <1>0, <1>1, <2>1, <2>2 DEF ApprovedIsApplied
    <2>7. ReviewOK(s)'
      BY <2>1 DEF ReviewOK, Reviewing
    <2>8. \A j \in DOMAIN requests' : Named(requests'[j])
      BY <1>0, <1>1, <2>1, <2>2
    <2> QED BY <1>0, <2>1, <2>3, <2>4, <2>5, <2>6, <2>7, <2>8, ReviewWrites
  <1>4. CASE ReviewProfile(s)
    <2> DEFINE w == [v EXCEPT !.mode = IF Approves(s) THEN v.request.mode ELSE profile]
    <2>1. /\ w \in Reviews /\ w.id = k /\ w.request = v.request
          /\ w.mode = IF Approves(s) THEN v.request.mode ELSE profile
      BY <1>0, <1>1 DEF Reviews
    <2>2. /\ Note(s, w) /\ review'[s] = w /\ at[s] = "reviewProfile" /\ at'[s] = "reviewProfileSave"
          /\ UNCHANGED <<profile, requests, applied>>
          /\ DOMAIN at' = Sessions /\ \A q \in Sessions \ {s} : at'[q] = at[q]
      BY <1>0, <1>4 DEF ReviewProfile, Note
    <2>3. ReviewOK(s)'
      BY <1>0, <2>1, <2>2 DEF ReviewOK, Reviewing, Approves, Given
    <2> QED BY <2>1, <2>2, <2>3, ReviewMoves
  <1>5. CASE ReviewProfileSave(s)
    <2>1. /\ profile' = v.mode /\ at[s] = "reviewProfileSave" /\ at'[s] = "reviewSave"
          /\ applied' = IF Approves(s) THEN applied \cup {k} ELSE applied
          /\ UNCHANGED <<requests, review>> /\ \A q \in Sessions \ {s} : at'[q] = at[q]
      BY <1>0, <1>5 DEF ReviewProfileSave
    <2>2. /\ k \in DOMAIN requests /\ k # 0
          /\ v.request.kind = "developer" /\ requests[k].kind = "developer"
          /\ requests[k].mode = v.request.mode
          /\ IF Approves(s) THEN v.mode = v.request.mode ELSE Given(v.mode)
          /\ Named(v.request)
      BY <1>0, <2>1 DEF ReviewOK, Reviewing, Approves
    <2>3. Kept
      BY <2>1 DEF Kept
    <2>4. Given(profile)'
      <3>1. CASE Approves(s)
        BY <2>1, <2>2, <3>1 DEF Given
      <3>2. CASE ~Approves(s)
        BY <2>1, <2>2, <3>2 DEF Given
      <3> QED BY <3>1, <3>2
    <2>5. CustodyTypeOK' /\ ApprovedIsApplied'
      BY <1>0, <1>1, <2>1, <2>2 DEF CustodyTypeOK, ApprovedIsApplied
    <2>6. ReviewOK(s)'
      BY <2>1, <2>2 DEF ReviewOK, Reviewing, Approves
    <2> QED BY <1>0, <2>1, <2>3, <2>4, <2>5, <2>6, ReviewWrites
  <1>6. CASE ReviewProject(s)
    <2>1. /\ at[s] = "reviewProject" /\ UNCHANGED <<profile, requests, review>>
          /\ \/ at'[s] = "reviewSave" /\ applied' = applied \cup {k}
             \/ at'[s] = "wallet" /\ UNCHANGED applied
          /\ \A q \in Sessions \ {s} : at'[q] = at[q]
      BY <1>0, <1>6 DEF ReviewProject
    <2>2. /\ k \in DOMAIN requests /\ k # 0
          /\ v.request.kind = requests[k].kind /\ v.request.mode = requests[k].mode
          /\ Named(v.request) /\ v.request.project \in Projects
      BY <1>0, <2>1 DEF ReviewOK, Reviewing, Named
    <2>3. Kept /\ CustodyTypeOK' /\ ApprovedIsApplied' /\ Given(profile)'
      BY <1>0, <2>1, <2>2 DEF Kept, CustodyTypeOK, ApprovedIsApplied, Given
    <2>4. ReviewOK(s)'
      BY <2>1, <2>2 DEF ReviewOK, Reviewing
    <2> QED BY <1>0, <2>1, <2>3, <2>4, ReviewWrites
  <1>7. CASE ReviewSave(s)
    <2>1. /\ requests' = [requests EXCEPT ![k] = v.request] /\ at[s] = "reviewSave" /\ at'[s] = "idle"
          /\ review' = [review EXCEPT ![s] = Idle] /\ UNCHANGED <<profile, applied>>
          /\ \A q \in Sessions \ {s} : at'[q] = at[q]
      BY <1>0, <1>7 DEF ReviewSave, End, Return, Note
    <2>2. /\ k \in DOMAIN requests
          /\ v.request.kind = requests[k].kind /\ v.request.mode = requests[k].mode
          /\ v.request.status = "approved" => k \in applied
          /\ Named(v.request)
      BY <1>0, <2>1 DEF ReviewOK, Reviewing
    <2>3. /\ requests' \in Seq(Requests) /\ DOMAIN requests' = DOMAIN requests
          /\ \A j \in DOMAIN requests : requests'[j] = IF j = k THEN v.request ELSE requests[j]
      BY <1>0, <1>1, <2>1, <2>2, ExceptSeq, LenProperties
    <2>4. Kept
      BY <2>1, <2>2, <2>3 DEF Kept
    <2>5. Given(profile)'
      BY <1>0, <2>1, <2>4, GivenStays DEF Given
    <2>6. CustodyTypeOK'
      BY <1>0, <2>1, <2>3, IdleIsAReview DEF CustodyTypeOK
    <2>7. ApprovedIsApplied'
      BY <1>0, <2>1, <2>2, <2>3 DEF ApprovedIsApplied
    <2>8. ReviewOK(s)'
      BY <2>1 DEF ReviewOK, Reviewing
    <2>9. \A j \in DOMAIN requests' : Named(requests'[j])
      BY <1>0, <2>2, <2>3
    <2> QED BY <2>1, <2>4, <2>5, <2>6, <2>7, <2>8, <2>9, ReviewWrites
  <1>8. CASE LoadWallet(s)
    <2>1. CASE End(s)
      BY <1>8, <2>1, EndMoves DEF LoadWallet
    <2>2. CASE ~End(s)
      <3>1. /\ at[s] = "wallet" /\ at'[s] = "walletSave" /\ review' = review
            /\ UNCHANGED <<profile, requests, applied>>
            /\ \A q \in Sessions \ {s} : at'[q] = at[q]
        BY <1>0, <1>8, <2>2 DEF LoadWallet
      <3>2. ReviewOK(s)'
        BY <1>0, <3>1 DEF ReviewOK, Reviewing
      <3> QED BY <1>0, <3>1, <3>2, ReviewWrites DEF Kept, CustodyTypeOK, ApprovedIsApplied, Given
    <2> QED BY <2>1, <2>2
  <1>9. CASE SaveWallet(s)
    <2>1. CASE k = 0
      BY <1>9, <2>1, EndMoves DEF SaveWallet
    <2>2. CASE k # 0
      <3>1. /\ at[s] = "walletSave" /\ at'[s] = "reviewSave" /\ review' = review
            /\ applied' = applied \cup {k} /\ UNCHANGED <<profile, requests>>
            /\ \A q \in Sessions \ {s} : at'[q] = at[q]
        BY <1>0, <1>9, <2>2 DEF SaveWallet
      <3>2. /\ k \in DOMAIN requests
            /\ v.request.kind = requests[k].kind /\ v.request.mode = requests[k].mode
            /\ Named(v.request)
        BY <1>0, <2>2, <3>1 DEF ReviewOK, Reviewing
      <3>3. ReviewOK(s)'
        BY <2>2, <3>1, <3>2 DEF ReviewOK, Reviewing
      <3> QED BY <1>0, <3>1, <3>2, <3>3, ReviewWrites DEF Kept, CustodyTypeOK, ApprovedIsApplied, Given
    <2> QED BY <2>1, <2>2
  <1>10. CASE MarkFind(s)
    <2> DEFINE w == [Idle EXCEPT !.waiting = Waiting(held[s].p) # {}]
    <2>1. Note(s, w) /\ at'[s] = "markSave" /\ DOMAIN at' = Sessions /\ \A q \in Sessions \ {s} : at'[q] = at[q]
      BY <1>0, <1>10 DEF MarkFind
    <2>2. w \in Reviews
      <3>1. (Waiting(held[s].p) # {}) \in BOOLEAN
        OBVIOUS
      <3> HIDE DEF w
      <3>2. \A b \in BOOLEAN : [Idle EXCEPT !.waiting = b] \in Reviews
        BY IdleIsAReview DEF Reviews
      <3> QED BY <3>1, <3>2 DEF w
    <2>3. ReviewOK(s)'
      BY <2>1 DEF ReviewOK, Reviewing
    <2> QED BY <1>10, <2>1, <2>2, <2>3, ReviewMoves DEF MarkFind
  <1>11. CASE MarkSave(s) \/ BlockSave(s) \/ ClearSave(s)
    BY <1>11, EndMoves DEF MarkSave, BlockSave, ClearSave
  <1>12. CASE ClearFind(s)
    <2>1. CASE End(s)
      BY <1>12, <2>1, EndMoves DEF ClearFind
    <2>2. CASE ~End(s)
      <3>1. at'[s] = "clearSave" /\ UNCHANGED custodyVars /\ \A q \in Sessions \ {s} : at'[q] = at[q]
        BY <1>0, <1>12, <2>2 DEF ClearFind, custodyVars
      <3> QED BY <3>1, ReviewRests
    <2> QED BY <2>1, <2>2
  <1> QED BY <1>2, <1>3, <1>4, <1>5, <1>6, <1>7, <1>8, <1>9, <1>10, <1>11, <1>12 DEF CustodyStep

LEMMA RequestsInit == Init => RequestsInv
  <1> SUFFICES ASSUME Init PROVE RequestsInv
    OBVIOUS
  <1>1. PICK p \in Projects, issued \in BOOLEAN : CustodyInit(p, issued)
    BY DEF Init
  <1>2. (CHOOSE m \in Modes : m # FirstMode) \in Modes
    BY FirstIsAMode, RowAssumption
  <1>3. /\ requests \in Seq(Requests)
        /\ \A k \in DOMAIN requests : requests[k].status = "pending" /\ Named(requests[k])
    <2>1. CASE issued
      <3> DEFINE r == [kind |-> "project", project |-> p, status |-> "pending",
                       mode |-> CHOOSE m \in Modes : m # FirstMode]
      <3>1. requests = <<r>> /\ r \in Requests /\ r.status = "pending" /\ Named(r)
        BY <1>1, <1>2, <2>1 DEF CustodyInit, Requests, RequestStatuses, Named
      <3> HIDE DEF r
      <3> QED BY <3>1
    <2>2. CASE ~issued
      BY <1>1, <2>2 DEF CustodyInit
    <2> QED BY <2>1, <2>2
  <1>4. CustodyTypeOK
    BY <1>1, <1>3, FirstIsAMode, IdleIsAReview DEF CustodyInit, CustodyTypeOK
  <1>5. ApprovedIsApplied /\ Given(profile)
    BY <1>1, <1>3 DEF CustodyInit, ApprovedIsApplied, Given
  <1>6. \A s \in Sessions : ReviewOK(s)
    BY DEF Init, ReviewOK, Reviewing
  <1> QED BY <1>3, <1>4, <1>5, <1>6 DEF RequestsInv

LEMMA RequestsStep == SeriesInv /\ RequestsInv /\ [Next]_prepVars => RequestsInv'
  <1> SUFFICES ASSUME SeriesInv, RequestsInv, [Next]_prepVars PROVE RequestsInv'
    OBVIOUS
  <1>0. ControlInv
    BY DEF SeriesInv
  <1>1. CASE UNCHANGED prepVars
    BY <1>1 DEF prepVars, rowVars, custodyVars, RequestsInv, CustodyTypeOK, ApprovedIsApplied, Given, ReviewOK
  <1>2. ASSUME NEW s \in Sessions, UNCHANGED custodyVars, Alone(s), at'[s] \in SpvLabels
        PROVE  RequestsInv'
    BY <1>2, ReviewRests DEF Alone
  <1>3. ASSUME NEW s \in Sessions, SpvStep(s), UNCHANGED custodyVars PROVE RequestsInv'
    BY <1>0, <1>2, <1>3, SpvStepsAside, AttemptsKeepSeries DEF Aside
  <1>4. ASSUME NEW s \in Sessions, UNCHANGED custodyVars,
               SpvCall(s) \/ (\E p \in Projects : Issue(s, p)) \/ IssueGate(s) \/ IssueSave(s)
        PROVE  RequestsInv'
    BY <1>0, <1>2, <1>4, CallsAside DEF Aside
  <1>5. ASSUME NEW s \in Sessions, CustodyCall(s) \/ CustodyStep(s) PROVE RequestsInv'
    BY <1>0, <1>5, CustodyCallsKeep, CustodyStepsKeep
  <1> QED BY <1>1, <1>3, <1>4, <1>5 DEF Next, Step, Issue, IssueGate, IssueSave

LEMMA RequestsInvariant == Spec => []RequestsInv
  <1>1. SeriesInv /\ RequestsInv /\ [Next]_prepVars => RequestsInv'
    BY RequestsStep
  <1> QED BY <1>1, RequestsInit, SeriesInvariant, PTL DEF Spec

\* A request is never recorded as approved without its mode having been saved, or
\* accepted for a locked project: reviewCustodyChangeRequest, however many admins
\* decide it at once.
THEOREM ApprovalsAreApplied == Spec => []ApprovedIsApplied
  <1>1. RequestsInv => ApprovedIsApplied
    BY DEF RequestsInv
  <1> QED BY <1>1, RequestsInvariant, PTL

\* No stale save of a developer's profile brings in a custody mode that nobody has
\* approved: requestCustodyModeChange and reviewCustodyChangeRequest.
THEOREM ModeInUseWasApproved == Spec => []ModeWasApproved
  <1>1. RequestsInv => ModeWasApproved
    BY DEF RequestsInv, Given, ModeWasApproved
  <1> QED BY <1>1, RequestsInvariant, PTL

-----------------------------------------------------------------------------
(***************************************************************************)
(* The rows.  A row may be saved long after it was loaded, so what a       *)
(* session holds has to be as good as what is stored.  What makes it good  *)
(* only grows: the SPVs (n of them), those all of whose roles somebody has *)
(* approved (C), the projects with a series (P), the names of the role     *)
(* rows (N), and those inserted as approved (A).                           *)
(***************************************************************************)
ClearedSpvs == {i \in DOMAIN spvs : \A r \in Roles : LinksFor(i, r) \cap approvals # {}}
WithSeries == {p \in Projects : SeriesOf(p) # {}}
Names == [k \in DOMAIN roles |-> <<roles[k].spv, roles[k].role>>]

SpvRows == [project : Projects, ready : BOOLEAN]
LinkRows(n) == [spv : 1..n, role : Roles, status : Statuses, primary : BOOLEAN]
RowShapes(n) == [spv : 0..n, mode : Modes, blocked : BOOLEAN, open : BOOLEAN, locked : BOOLEAN]

RowFits(n, C, P, p, r) ==
    /\ r \in RowShapes(n)
    /\ r.blocked => r.open
    /\ r.locked => p \in P /\ C # {}

SpvFits(C, i, w) == w \in SpvRows /\ (w.ready => i \in C)

LinkFits(n, N, A, l) ==
    /\ l[1] \in DOMAIN N /\ l[2] \in LinkRows(n)
    /\ N[l[1]] = <<l[2].spv, l[2].role>>
    /\ l[2].status = "approved" => l[1] \in A

\* Where a session is about a project, has an SPV, and is to save its row.
AboutProject == SpvLabels \ {"idle", "reject"}

HasSpv ==
    {"findRoles", "insertDefault", "loadProject", "linkProject", "suggest", "insertSuggested",
     "number", "insertSeries", "updateProject", "updateCheck", "updateSave", "linkSave",
     "linkFind", "linkSpv", "findLinks", "unprimary", "sponsorSpv", "gateRoles", "gateSave",
     "issueSave"}

HasRow ==
    {"updateSave", "linkSpv", "findLinks", "unprimary", "sponsorSpv", "sponsorLoad", "gateRoles",
     "gateSave"}

\* at l, with the project row h, the draft d, and the row v that issueProject has loaded.
SessionFits(n, C, P, N, A, l, h, d, v) ==
    /\ h.p \in Projects \cup {NoProject} /\ DOMAIN h = {"p", "row"}
    /\ RowFits(n, C, P, h.p, h.row) /\ RowFits(n, C, P, h.p, v) /\ ~v.locked
    /\ d.spv \in 0..n /\ d.role \in Roles /\ d.todo \subseteq Roles
    /\ \A k \in d.links : LinkFits(n, N, A, k)
    /\ l \in AboutProject => h.p \in Projects
    /\ l \in HasSpv => d.spv # 0
    /\ l \in HasRow \/ (l = "saveSpv" /\ d.spv # 0) => SpvFits(C, d.spv, d.row)
    /\ l \in {"updateProject", "updateCheck"} => d.row \in SpvRows
    /\ l = "gateSave" => d.spv \in C
    /\ l = "unprimary" => \A k \in d.links : N[k[1]] = <<d.spv, d.role>>
    /\ d.back = "issueSave" /\ l \notin {"gate", "gateSpv", "gateRoles"} => C # {}
    /\ l = "issueSave" => C # {} /\ h.p \in P

SessionOK(s) ==
    SessionFits(Len(spvs), ClearedSpvs, WithSeries, Names, approvals, at[s], held[s], draft[s], issue[s])

TablesOK ==
    /\ DOMAIN project = Projects
    /\ \A p \in Projects : RowFits(Len(spvs), ClearedSpvs, WithSeries, p, project[p])
    /\ spvs \in Seq(SpvRows) /\ \A i \in DOMAIN spvs : spvs[i].ready => i \in ClearedSpvs
    /\ roles \in Seq(LinkRows(Len(spvs)))
    /\ \A k \in DOMAIN roles : roles[k].status = "approved" => k \in approvals
    /\ approvals \subseteq DOMAIN roles /\ rejections \subseteq DOMAIN roles
    /\ \A k \in DOMAIN series : series[k].spv \in DOMAIN spvs

RowsInv == TablesOK /\ DOMAIN issue = Sessions /\ \A s \in Sessions : SessionOK(s)

Grown(n, C, P, N, A, n2, C2, P2, N2, A2) ==
    /\ n \in Nat /\ n2 \in Nat /\ n <= n2
    /\ C \subseteq C2 /\ P \subseteq P2 /\ A \subseteq A2
    /\ DOMAIN N \subseteq DOMAIN N2 /\ \A k \in DOMAIN N : N2[k] = N[k]

Grows == Grown(Len(spvs), ClearedSpvs, WithSeries, Names, approvals,
               Len(spvs)', ClearedSpvs', WithSeries', Names', approvals')

LEMMA RowStaysFit ==
    ASSUME NEW n, NEW C, NEW P, NEW N, NEW A, NEW n2, NEW C2, NEW P2, NEW N2, NEW A2,
           Grown(n, C, P, N, A, n2, C2, P2, N2, A2), NEW p, NEW r, RowFits(n, C, P, p, r)
    PROVE  RowFits(n2, C2, P2, p, r)
  BY DEF Grown, RowFits, RowShapes

LEMMA SessionStaysFit ==
    ASSUME NEW n, NEW C, NEW P, NEW N, NEW A, NEW n2, NEW C2, NEW P2, NEW N2, NEW A2,
           Grown(n, C, P, N, A, n2, C2, P2, N2, A2),
           NEW l, NEW h, NEW d, NEW v, SessionFits(n, C, P, N, A, l, h, d, v)
    PROVE  SessionFits(n2, C2, P2, N2, A2, l, h, d, v)
  <1>1. RowFits(n2, C2, P2, h.p, h.row) /\ RowFits(n2, C2, P2, h.p, v)
    BY RowStaysFit DEF SessionFits
  <1>2. \A k \in d.links : LinkFits(n2, N2, A2, k)
    BY DEF SessionFits, LinkFits, LinkRows, Grown
  <1>3. l \in HasRow \/ (l = "saveSpv" /\ d.spv # 0) => SpvFits(C2, d.spv, d.row)
    BY DEF SessionFits, SpvFits, Grown
  <1>4. l = "unprimary" => \A k \in d.links : N2[k[1]] = <<d.spv, d.role>>
    BY DEF SessionFits, LinkFits, Grown
  <1> QED BY <1>1, <1>2, <1>3, <1>4 DEF SessionFits, Grown

LEMMA TablesRead ==
    ASSUME TablesOK
    PROVE  /\ Len(spvs) \in Nat /\ DOMAIN spvs = 1..Len(spvs)
           /\ Len(roles) \in Nat /\ DOMAIN roles = 1..Len(roles)
           /\ \A i \in DOMAIN spvs : SpvFits(ClearedSpvs, i, spvs[i])
           /\ \A k \in DOMAIN roles : LinkFits(Len(spvs), Names, approvals, <<k, roles[k]>>)
           /\ \A k \in DOMAIN roles : roles[k] \in LinkRows(Len(spvs))
           /\ DOMAIN Names = DOMAIN roles
  <1>1. /\ Len(spvs) \in Nat /\ DOMAIN spvs = 1..Len(spvs)
        /\ Len(roles) \in Nat /\ DOMAIN roles = 1..Len(roles)
    BY LenProperties DEF TablesOK
  <1>2. \A i \in DOMAIN spvs : spvs[i] \in SpvRows
    BY <1>1 DEF TablesOK
  <1>3. \A k \in DOMAIN roles : roles[k] \in LinkRows(Len(spvs))
    BY <1>1 DEF TablesOK
  <1> QED BY <1>1, <1>2, <1>3 DEF TablesOK, SpvFits, LinkFits, Names

\* What holds of the other sessions still does, for a step whose own session is fine.
LEMMA OthersFit ==
    ASSUME RowsInv, NEW s \in Sessions, Alone(s), Grows, TablesOK', DOMAIN issue' = Sessions,
           \A q \in Sessions \ {s} : issue'[q] = issue[q], SessionOK(s)'
    PROVE  RowsInv'
  <1>1. ASSUME NEW q \in Sessions \ {s} PROVE SessionOK(q)'
    <2>1. at'[q] = at[q] /\ held'[q] = held[q] /\ draft'[q] = draft[q] /\ issue'[q] = issue[q]
      BY DEF Alone
    <2>2. SessionFits(Len(spvs), ClearedSpvs, WithSeries, Names, approvals, at[q], held[q], draft[q], issue[q])
      BY DEF RowsInv, SessionOK
    <2>3. SessionFits(Len(spvs)', ClearedSpvs', WithSeries', Names', approvals', at[q], held[q], draft[q], issue[q])
      BY <2>2, SessionStaysFit DEF Grows
    <2> QED BY <2>1, <2>3 DEF SessionOK
  <1> QED BY <1>1 DEF RowsInv

tableVars == <<project, spvs, roles, series, approvals, rejections>>

\* A step that saves nothing.
LEMMA NothingSaved ==
    ASSUME RowsInv, NEW s \in Sessions, Alone(s), UNCHANGED tableVars, DOMAIN issue' = Sessions,
           \A q \in Sessions \ {s} : issue'[q] = issue[q],
           SessionFits(Len(spvs), ClearedSpvs, WithSeries, Names, approvals, at'[s], held'[s], draft'[s], issue'[s])
    PROVE  RowsInv'
  <1>1. ClearedSpvs' = ClearedSpvs /\ WithSeries' = WithSeries /\ Names' = Names
    BY DEF tableVars, ClearedSpvs, LinksFor, LinksOf, WithSeries, SeriesOf, Names
  <1>2. Grows
    BY <1>1, TablesRead DEF Grows, Grown, tableVars, RowsInv
  <1>3. TablesOK'
    BY <1>1 DEF RowsInv, TablesOK, tableVars
  <1> QED BY <1>1, <1>2, <1>3, OthersFit DEF SessionOK, tableVars

\* One that saves a project row.
LEMMA RowSaved ==
    ASSUME RowsInv, NEW s \in Sessions, Alone(s), UNCHANGED <<spvs, roles, series, approvals, rejections>>,
           NEW r, SaveRow(s, r), RowFits(Len(spvs), ClearedSpvs, WithSeries, held[s].p, r),
           DOMAIN issue' = Sessions, \A q \in Sessions \ {s} : issue'[q] = issue[q],
           SessionFits(Len(spvs), ClearedSpvs, WithSeries, Names, approvals, at'[s], held'[s], draft'[s], issue'[s])
    PROVE  RowsInv'
  <1>1. ClearedSpvs' = ClearedSpvs /\ WithSeries' = WithSeries /\ Names' = Names
    BY DEF ClearedSpvs, LinksFor, LinksOf, WithSeries, SeriesOf, Names
  <1>2. Grows
    BY <1>1, TablesRead DEF Grows, Grown, RowsInv
  <1>3. /\ DOMAIN project' = Projects
        /\ \A p \in Projects : RowFits(Len(spvs), ClearedSpvs, WithSeries, p, project'[p])
    BY DEF RowsInv, TablesOK, SaveRow
  <1>4. TablesOK'
    BY <1>1, <1>3 DEF RowsInv, TablesOK
  <1> QED BY <1>1, <1>2, <1>4, OthersFit DEF SessionOK

\* One that saves an SPV in its place.
LEMMA SpvSaved ==
    ASSUME RowsInv, NEW s \in Sessions, Alone(s), UNCHANGED <<project, roles, series, approvals, rejections, issue>>,
           NEW i \in DOMAIN spvs, NEW w, SpvFits(ClearedSpvs, i, w), spvs' = [spvs EXCEPT ![i] = w],
           SessionFits(Len(spvs), ClearedSpvs, WithSeries, Names, approvals, at'[s], held'[s], draft'[s], issue[s])
    PROVE  RowsInv'
  <1>0. spvs \in Seq(SpvRows) /\ w \in SpvRows /\ i \in 1..Len(spvs)
    BY TablesRead DEF RowsInv, TablesOK, SpvFits
  <1>1. /\ spvs' \in Seq(SpvRows) /\ Len(spvs') = Len(spvs) /\ DOMAIN spvs' = DOMAIN spvs
        /\ \A j \in DOMAIN spvs : spvs'[j] = IF j = i THEN w ELSE spvs[j]
    BY <1>0, ExceptSeq, LenProperties
  <1>2. ClearedSpvs' = ClearedSpvs /\ WithSeries' = WithSeries /\ Names' = Names
    BY <1>1 DEF ClearedSpvs, LinksFor, LinksOf, WithSeries, SeriesOf, Names
  <1>3. Grows
    BY <1>1, <1>2, TablesRead DEF Grows, Grown, RowsInv
  <1>4. TablesOK'
    BY <1>1, <1>2 DEF RowsInv, TablesOK, SpvFits
  <1> QED BY <1>1, <1>2, <1>3, <1>4, OthersFit DEF RowsInv, SessionOK

\* One that adds an SPV.
LEMMA SpvAdded ==
    ASSUME RowsInv, NEW s \in Sessions, Alone(s), UNCHANGED <<project, roles, series, approvals, rejections, issue>>,
           NEW w \in SpvRows, ~w.ready, spvs' = Append(spvs, w),
           SessionFits(Len(spvs) + 1, ClearedSpvs, WithSeries, Names, approvals, at'[s], held'[s], draft'[s], issue[s])
    PROVE  RowsInv'
  <1>0. spvs \in Seq(SpvRows) /\ Len(spvs) \in Nat /\ DOMAIN spvs = 1..Len(spvs)
    BY TablesRead DEF RowsInv, TablesOK
  <1>1. /\ spvs' \in Seq(SpvRows) /\ Len(spvs') = Len(spvs) + 1 /\ DOMAIN spvs' = 1..(Len(spvs) + 1)
        /\ \A j \in DOMAIN spvs : spvs'[j] = spvs[j]
        /\ spvs'[Len(spvs) + 1] = w
    BY <1>0, AppendProperties, LenProperties
  <1>2. WithSeries' = WithSeries /\ Names' = Names /\ ClearedSpvs \subseteq ClearedSpvs'
    BY <1>0, <1>1 DEF ClearedSpvs, LinksFor, LinksOf, WithSeries, SeriesOf, Names
  <1>3. Grows
    BY <1>0, <1>1, <1>2 DEF Grows, Grown
  <1>4. TablesOK'
    <2>1. \A p \in Projects : RowFits(Len(spvs)', ClearedSpvs', WithSeries', p, project'[p])
      BY <1>3, RowStaysFit DEF Grows, RowsInv, TablesOK
    <2>2. LinkRows(Len(spvs)) \subseteq LinkRows(Len(spvs)')
      BY <1>0, <1>1 DEF LinkRows
    <2>3. roles' \in Seq(LinkRows(Len(spvs)'))
      BY <2>2, SeqDef DEF RowsInv, TablesOK
    <2>4. \A i \in DOMAIN spvs' : spvs'[i].ready => i \in ClearedSpvs'
      BY <1>0, <1>1, <1>2 DEF RowsInv, TablesOK
    <2> QED BY <1>0, <1>1, <2>1, <2>3, <2>4 DEF RowsInv, TablesOK
  <1>5. SessionOK(s)'
    <2>1. Grown(Len(spvs) + 1, ClearedSpvs, WithSeries, Names, approvals,
                Len(spvs)', ClearedSpvs', WithSeries', Names', approvals')
      BY <1>0, <1>1, <1>3 DEF Grows, Grown
    <2>2. issue'[s] = issue[s]
      OBVIOUS
    <2> QED BY <2>1, <2>2, SessionStaysFit DEF SessionOK
  <1> QED BY <1>3, <1>4, <1>5, OthersFit DEF RowsInv

\* One that adds a role row; an approved one is counted.
LEMMA LinkAdded ==
    ASSUME RowsInv, NEW s \in Sessions, Alone(s), UNCHANGED <<project, spvs, series, rejections, issue>>,
           NEW i \in DOMAIN spvs, NEW r \in Roles, NEW t \in Statuses, InsertLink(i, r, t),
           approvals' = IF t = "approved" THEN approvals \cup {Len(roles) + 1} ELSE approvals,
           SessionFits(Len(spvs), ClearedSpvs, WithSeries, Names, approvals, at'[s], held'[s], draft'[s], issue[s])
    PROVE  RowsInv'
  <1> DEFINE l == [spv |-> i, role |-> r, status |-> t, primary |-> TRUE]
  <1>0. /\ roles \in Seq(LinkRows(Len(spvs))) /\ Len(roles) \in Nat /\ DOMAIN roles = 1..Len(roles)
        /\ l \in LinkRows(Len(spvs)) /\ Len(spvs) \in Nat
    BY TablesRead DEF RowsInv, TablesOK, LinkRows
  <1>1. /\ roles' \in Seq(LinkRows(Len(spvs))) /\ Len(roles') = Len(roles) + 1
        /\ DOMAIN roles' = 1..(Len(roles) + 1)
        /\ \A j \in DOMAIN roles : roles'[j] = roles[j]
        /\ roles'[Len(roles) + 1] = l
    BY <1>0, AppendProperties, LenProperties DEF InsertLink
  <1>2. /\ WithSeries' = WithSeries
        /\ DOMAIN Names \subseteq DOMAIN Names' /\ \A k \in DOMAIN Names : Names'[k] = Names[k]
    BY <1>0, <1>1 DEF WithSeries, SeriesOf, Names
  <1>3. ClearedSpvs \subseteq ClearedSpvs'
    BY <1>0, <1>1 DEF ClearedSpvs, LinksFor, LinksOf
  <1>4. Grows
    BY <1>0, <1>2, <1>3 DEF Grows, Grown
  <1>5. \A p \in Projects : RowFits(Len(spvs)', ClearedSpvs', WithSeries', p, project'[p])
    BY <1>4, RowStaysFit DEF Grows, RowsInv, TablesOK
  <1>6. TablesOK'
    <2> HIDE DEF l
    <2>1. \A k \in DOMAIN roles : roles'[k].status = "approved" => k \in approvals'
      BY <1>1 DEF RowsInv, TablesOK
    <2>2. roles'[Len(roles) + 1].status = "approved" => Len(roles) + 1 \in approvals'
      BY <1>1 DEF l
    <2>3. \A k \in DOMAIN roles' : roles'[k].status = "approved" => k \in approvals'
      BY <1>0, <1>1, <2>1, <2>2
    <2>4. approvals' \subseteq DOMAIN roles' /\ rejections' \subseteq DOMAIN roles'
      BY <1>0, <1>1 DEF RowsInv, TablesOK
    <2> QED BY <1>1, <1>3, <1>5, <2>3, <2>4 DEF RowsInv, TablesOK
  <1>7. SessionOK(s)'
    <2>1. issue'[s] = issue[s]
      OBVIOUS
    <2> QED BY <1>4, <2>1, SessionStaysFit DEF SessionOK, Grows
  <1> QED BY <1>4, <1>6, <1>7, OthersFit DEF RowsInv

\* One that saves a role row over itself, with another mark or status.
LEMMA LinkSaved ==
    ASSUME RowsInv, NEW s \in Sessions, Alone(s), UNCHANGED <<project, spvs, series, approvals, issue>>,
           NEW k \in DOMAIN roles, NEW l, roles' = [roles EXCEPT ![k] = l],
           LinkFits(Len(spvs), Names, approvals, <<k, l>>), rejections' \subseteq rejections \cup {k},
           SessionFits(Len(spvs), ClearedSpvs, WithSeries, Names, approvals, at'[s], held'[s], draft'[s], issue[s])
    PROVE  RowsInv'
  <1>0. /\ roles \in Seq(LinkRows(Len(spvs))) /\ k \in 1..Len(roles) /\ l \in LinkRows(Len(spvs))
        /\ l.spv = roles[k].spv /\ l.role = roles[k].role
    BY TablesRead DEF RowsInv, TablesOK, LinkFits, Names
  <1>1. /\ roles' \in Seq(LinkRows(Len(spvs))) /\ Len(roles') = Len(roles) /\ DOMAIN roles' = DOMAIN roles
        /\ \A j \in DOMAIN roles : roles'[j] = IF j = k THEN l ELSE roles[j]
    BY <1>0, ExceptSeq, LenProperties
  <1>2. \A j \in DOMAIN roles : roles'[j].spv = roles[j].spv /\ roles'[j].role = roles[j].role
    BY <1>0, <1>1
  <1>3. WithSeries' = WithSeries /\ Names' = Names /\ ClearedSpvs' = ClearedSpvs
    BY <1>1, <1>2 DEF ClearedSpvs, LinksFor, LinksOf, WithSeries, SeriesOf, Names
  <1>4. Grows
    BY <1>3, TablesRead DEF Grows, Grown, RowsInv
  <1>5. TablesOK'
    BY <1>1, <1>3 DEF RowsInv, TablesOK, LinkFits
  <1> QED BY <1>3, <1>4, <1>5, OthersFit DEF RowsInv, SessionOK

\* One that adds a series.
LEMMA SeriesAdded ==
    ASSUME RowsInv, OneEach, OneEach', NEW s \in Sessions, Alone(s),
           UNCHANGED <<project, spvs, roles, approvals, rejections, issue>>,
           NEW e, series' = Append(series, e), e.spv \in DOMAIN spvs, WithSeries \subseteq WithSeries',
           SessionFits(Len(spvs), ClearedSpvs, WithSeries', Names, approvals, at'[s], held'[s], draft'[s], issue[s])
    PROVE  RowsInv'
  <1>1. PICK S : series \in Seq(S)
    BY DEF OneEach
  <1>2. series \in Seq(S \cup {e})
    BY <1>1, SeqDef
  <1>3. /\ DOMAIN series' = 1..(Len(series) + 1) /\ DOMAIN series = 1..Len(series) /\ Len(series) \in Nat
        /\ \A k \in 1..Len(series) : series'[k] = series[k]
        /\ series'[Len(series) + 1] = e
    BY <1>2, AppendProperties, LenProperties
  <1>4. ClearedSpvs' = ClearedSpvs /\ Names' = Names
    BY DEF ClearedSpvs, LinksFor, LinksOf, Names
  <1>5. Grows
    BY <1>4, TablesRead DEF Grows, Grown, RowsInv
  <1>6. \A p \in Projects : RowFits(Len(spvs)', ClearedSpvs', WithSeries', p, project'[p])
    BY <1>5, RowStaysFit DEF Grows, RowsInv, TablesOK
  <1>7. TablesOK'
    BY <1>3, <1>4, <1>6 DEF RowsInv, TablesOK
  <1> QED BY <1>4, <1>5, <1>7, OthersFit DEF RowsInv, SessionOK

LEMMA NothingFits ==
    ASSUME NEW n \in Nat, NEW C, NEW P, NEW p
    PROVE  RowFits(n, C, P, p, Nothing.row) /\ DOMAIN Nothing = {"p", "row"} /\ Nothing.p = NoProject
  BY FirstIsAMode DEF Nothing, NewRow, RowFits, RowShapes

\* A session that is idle holds nothing that matters.
LEMMA FinishFits ==
    ASSUME ControlInv, NEW s \in Sessions, Finish(s), NEW n \in Nat, NEW C, NEW P, NEW N, NEW A, NEW v,
           RowFits(n, C, P, held[s].p, v), ~v.locked
    PROVE  SessionFits(n, C, P, N, A, at'[s], held'[s], draft'[s], v)
  <1>1. at'[s] = "idle" /\ held'[s] = Nothing /\ draft'[s] = Blank
    BY DEF ControlInv, Finish, Return, Goto, Write
  <1>2. RowFits(n, C, P, NoProject, v)
    BY DEF RowFits
  <1>3. Blank.spv \in 0..n /\ Blank.role \in Roles /\ Blank.todo = {} /\ Blank.links = {} /\ Blank.back = "idle"
    BY SeriesAssumption DEF Blank
  <1> QED BY <1>1, <1>2, <1>3, NothingFits DEF SessionFits, AboutProject, HasSpv, HasRow, SpvLabels

-----------------------------------------------------------------------------
(* The steps that read.                                                    *)

LEMMA ReadsKeepRows ==
    ASSUME RowsInv, ControlInv, NEW s \in Sessions, Alone(s), issue' = issue,
           \/ LoadProject(s) \/ FindSpv(s) \/ FindRoles(s) \/ LoadProjectLate(s) \/ Suggest(s)
           \/ UpdateProject(s) \/ LinkFind(s) \/ FindLinks(s) \/ SponsorLoad(s)
           \/ Gate(s) \/ GateSpv(s) \/ NextNumber(s) \/ Duplicate(s) \/ GiveUp(s)
    PROVE  RowsInv'
  <1> USE DEF Goto, spvVars, tableVars, AboutProject, HasSpv, HasRow, SpvLabels
  <1> DEFINE n == Len(spvs)
             Fits(l, h, d) == SessionFits(n, ClearedSpvs, WithSeries, Names, approvals, l, h, d, issue[s])
  <1>0. /\ DOMAIN at = Sessions /\ DOMAIN held = Sessions /\ DOMAIN draft = Sessions /\ DOMAIN issue = Sessions
        /\ Fits(at[s], held[s], draft[s]) /\ Shaped(at[s], draft[s]) /\ TablesOK
    BY DEF ControlInv, RowsInv, SessionOK
  <1>1. /\ n \in Nat /\ DOMAIN spvs = 1..n
        /\ \A i \in DOMAIN spvs : SpvFits(ClearedSpvs, i, spvs[i])
        /\ \A p \in Projects : RowFits(n, ClearedSpvs, WithSeries, p, project[p])
        /\ held[s].row \in RowShapes(n) /\ held[s].row.spv \in 0..n
        /\ RowFits(n, ClearedSpvs, WithSeries, held[s].p, issue[s]) /\ ~issue[s].locked
    BY <1>0, TablesRead DEF TablesOK, SessionFits, RowFits, RowShapes
  <1>2. ASSUME UNCHANGED tableVars, Fits(at'[s], held'[s], draft'[s]) PROVE RowsInv'
    BY <1>0, <1>2, NothingSaved
  <1>3. ASSUME NEW p \in Projects, LoadRow(s, p)
        PROVE  /\ held'[s] = [p |-> p, row |-> project[p]]
               /\ RowFits(n, ClearedSpvs, WithSeries, p, held'[s].row)
               /\ RowFits(n, ClearedSpvs, WithSeries, p, issue[s])
    BY <1>0, <1>1, <1>3 DEF LoadRow, RowFits
  <1>4. CASE LoadProject(s) \/ LoadProjectLate(s) \/ UpdateProject(s) \/ Gate(s)
    <2>1. held[s].p \in Projects /\ LoadRow(s, held[s].p)
      BY <1>0, <1>4 DEF LoadProject, LoadProjectLate, UpdateProject, Gate, SessionFits
    <2>a. /\ held'[s] = [p |-> held[s].p, row |-> project[held[s].p]]
          /\ RowFits(n, ClearedSpvs, WithSeries, held[s].p, held'[s].row)
      BY <1>3, <2>1
    <2>b. /\ draft' = draft
          /\ \/ at[s] = "prepare" /\ at'[s] = "findSpv"
             \/ at[s] = "loadProject" /\ at'[s] = "linkProject"
             \/ at[s] = "updateProject" /\ at'[s] = "updateCheck"
             \/ at[s] = "gate" /\ at'[s] = "gateSpv"
      BY <1>0, <1>4 DEF LoadProject, LoadProjectLate, UpdateProject, Gate
    <2>2. Fits(at'[s], held'[s], draft'[s])
      BY <1>0, <1>1, <2>1, <2>a, <2>b DEF SessionFits
    <2> QED BY <1>2, <1>4, <2>2 DEF LoadProject, LoadProjectLate, UpdateProject, Gate
  <1>5. CASE FindSpv(s)
    <2>1. Fits(at'[s], held'[s], draft'[s])
      <3>0. at[s] = "findSpv" /\ at'[s] = "saveSpv" /\ held' = held
        BY <1>0, <1>5 DEF FindSpv
      <3>1. CASE Write(s, [draft[s] EXCEPT !.spv = 0])
        <4>1. draft'[s] = [draft[s] EXCEPT !.spv = 0] /\ 0 \in 0..n
          BY <1>0, <1>1, <3>1 DEF Write
        <4> QED BY <1>0, <3>0, <4>1 DEF Shaped, SessionFits
      <3>2. ASSUME NEW i \in FoundSpvs(s), Write(s, [draft[s] EXCEPT !.spv = i, !.row = spvs[i]])
            PROVE  Fits(at'[s], held'[s], draft'[s])
        <4>1. i \in 1..n
          BY <1>1 DEF FoundSpvs
        <4>2. SpvFits(ClearedSpvs, i, spvs[i])
          BY <1>1, <4>1
        <4>3. draft'[s] = [draft[s] EXCEPT !.spv = i, !.row = spvs[i]]
          BY <1>0, <3>2 DEF Write
        <4> QED BY <1>0, <1>1, <3>0, <4>1, <4>2, <4>3 DEF Shaped, SessionFits
      <3> QED BY <1>5, <3>1, <3>2 DEF FindSpv
    <2> QED BY <1>2, <1>5, <2>1 DEF FindSpv
  <1>6. CASE FindRoles(s)
    <2>1. Fits(at'[s], held'[s], draft'[s])
      BY <1>0, <1>6 DEF FindRoles, Write, Shaped, SessionFits
    <2> QED BY <1>2, <1>6, <2>1 DEF FindRoles
  <1>7. CASE Suggest(s)
    <2>1. Fits(at'[s], held'[s], draft'[s])
      BY <1>0, <1>7 DEF Suggest, Write, Shaped, SessionFits
    <2> QED BY <1>2, <1>7, <2>1 DEF Suggest
  <1>8. CASE LinkFind(s)
    <2>1. draft[s].spv \in DOMAIN spvs /\ held[s].p \in Projects
      BY <1>0, <1>1, <1>8 DEF LinkFind, SessionFits
    <2>2. SpvFits(ClearedSpvs, draft[s].spv, [spvs[draft[s].spv] EXCEPT !.project = held[s].p])
      BY <1>1, <2>1 DEF SpvFits, SpvRows
    <2>3. Fits(at'[s], held'[s], draft'[s])
      BY <1>0, <1>8, <2>2 DEF LinkFind, Write, Shaped, SessionFits
    <2> QED BY <1>2, <1>8, <2>3 DEF LinkFind
  <1>9. CASE FindLinks(s)
    <2> DEFINE mine == LinksFor(draft[s].spv, draft[s].role)
               read == {<<k, roles[k]>> : k \in {j \in mine : roles[j].primary}}
    <2>1. \A l \in read : /\ LinkFits(n, Names, approvals, l)
                          /\ Names[l[1]] = <<draft[s].spv, draft[s].role>>
      BY <1>0, TablesRead DEF LinksFor, LinksOf, Names
    <2> HIDE DEF read
    <2>2. /\ draft'[s] = [draft[s] EXCEPT !.links = read] /\ held' = held
          /\ at[s] = "findLinks" /\ at'[s] = "unprimary"
      BY <1>0, <1>9 DEF FindLinks, Write, read
    <2>3. Fits(at'[s], held'[s], draft'[s])
      BY <1>0, <2>1, <2>2 DEF Shaped, SessionFits
    <2> QED BY <1>2, <1>9, <2>3 DEF FindLinks
  <1>10. CASE SponsorLoad(s)
    <2>1. draft[s].row.project \in Projects /\ LoadRow(s, draft[s].row.project)
      BY <1>0, <1>10 DEF SponsorLoad, SessionFits, SpvFits, SpvRows
    <2>a. /\ held'[s] = [p |-> draft[s].row.project, row |-> project[draft[s].row.project]]
          /\ RowFits(n, ClearedSpvs, WithSeries, draft[s].row.project, held'[s].row)
          /\ RowFits(n, ClearedSpvs, WithSeries, draft[s].row.project, issue[s])
      BY <1>3, <2>1
    <2>b. at[s] = "sponsorLoad" /\ at'[s] = "sponsorSave" /\ draft' = draft
      BY <1>0, <1>10 DEF SponsorLoad
    <2>2. Fits(at'[s], held'[s], draft'[s])
      BY <1>0, <1>1, <2>1, <2>a, <2>b DEF SessionFits
    <2> QED BY <1>2, <1>10, <2>2 DEF SponsorLoad
  <1>11. CASE GateSpv(s)
    <2>1. CASE held[s].row.spv = 0
      <3>1. Finish(s)
        BY <1>11, <2>1 DEF GateSpv
      <3> QED BY <1>1, <1>2, <1>11, <3>1, FinishFits DEF GateSpv
    <2>2. CASE held[s].row.spv # 0
      <3>1. held[s].row.spv \in DOMAIN spvs
        BY <1>1, <2>2
      <3>2. SpvFits(ClearedSpvs, held[s].row.spv, spvs[held[s].row.spv])
        BY <1>1, <3>1
      <3>3. /\ draft'[s] = [draft[s] EXCEPT !.spv = held[s].row.spv, !.row = spvs[held[s].row.spv]]
            /\ held' = held /\ at[s] = "gateSpv" /\ at'[s] = "gateRoles"
        BY <1>0, <1>11, <2>2 DEF GateSpv, Write
      <3>4. Fits(at'[s], held'[s], draft'[s])
        BY <1>0, <1>1, <2>2, <3>2, <3>3 DEF Shaped, SessionFits
      <3> QED BY <1>2, <1>11, <3>4 DEF GateSpv
    <2> QED BY <2>1, <2>2
  <1>12. CASE NextNumber(s)
    <2>1. Fits(at'[s], held'[s], draft'[s])
      BY <1>0, <1>12 DEF NextNumber, Write, Shaped, SessionFits
    <2> QED BY <1>2, <1>12, <2>1 DEF NextNumber
  <1>13. CASE Duplicate(s)
    <2>1. Fits(at'[s], held'[s], draft'[s])
      BY <1>0, <1>13 DEF Duplicate, Write, Shaped, SessionFits
    <2> QED BY <1>2, <1>13, <2>1 DEF Duplicate
  <1>14. CASE GiveUp(s)
    BY <1>1, <1>2, <1>14, FinishFits DEF GiveUp
  <1> QED BY <1>4, <1>5, <1>6, <1>7, <1>8, <1>9, <1>10, <1>11, <1>12, <1>13, <1>14

-----------------------------------------------------------------------------
(* The checks of readiness: the newest row of each role is approved.       *)

LEMMA Newest ==
    ASSUME NEW n \in Nat, NEW S \in SUBSET (1..n), S # {}
    PROVE  \E k \in S : \A j \in S : j <= k
  <1> DEFINE T == {n - k : k \in S}
  <1>0. \A k \in S : k \in 1..n
    OBVIOUS
  <1>a. \A k \in S : n - k \in Nat
    BY <1>0
  <1>1. T \subseteq Nat /\ T # {}
    BY <1>a
  <1>2. PICK x \in T : \A y \in T : ~(<<y, x>> \in OpToRel(<, Nat))
    BY <1>1, WFMin, NatLessThanWellFounded
  <1>3. \A y \in T : ~(y < x)
    BY <1>1, <1>2 DEF OpToRel
  <1>4. PICK k \in S : x = n - k
    BY <1>2
  <1>5. \A j \in S : n - j \in T
    OBVIOUS
  <1>6. \A j \in S : ~(n - j < n - k)
    BY <1>3, <1>4, <1>5
  <1> QED BY <1>0, <1>6

LEMMA CompleteIsCleared ==
    ASSUME TablesOK, NEW i \in DOMAIN spvs, RolesComplete(i)
    PROVE  i \in ClearedSpvs
  <1>1. ASSUME NEW r \in Roles PROVE LinksFor(i, r) \cap approvals # {}
    <2> DEFINE S == {k \in LinksFor(i, r) : Counts(roles[k])}
    <2>1. S \in SUBSET (1..Len(roles)) /\ S # {} /\ Len(roles) \in Nat
      BY TablesRead DEF RolesComplete, Assigned, LinksFor, LinksOf
    <2>2. \E k \in S : \A j \in S : j <= k
      BY <2>1, Newest
    <2>3. Current(i, r) \in LinksFor(i, r)
      BY <2>2 DEF Current
    <2>4. roles[Current(i, r)].status = "approved"
      BY DEF RolesComplete
    <2>5. Current(i, r) \in approvals
      BY <2>3, <2>4 DEF TablesOK, LinksFor, LinksOf
    <2> QED BY <2>3, <2>5
  <1> QED BY <1>1 DEF ClearedSpvs

LEMMA ChecksKeepRows ==
    ASSUME RowsInv, ControlInv, NEW s \in Sessions, Alone(s), issue' = issue,
           UpdateCheck(s) \/ GateRoles(s)
    PROVE  RowsInv'
  <1> USE DEF Goto, AboutProject, HasSpv, HasRow, SpvLabels
  <1> DEFINE n == Len(spvs)
             Fits(l, h, d) == SessionFits(n, ClearedSpvs, WithSeries, Names, approvals, l, h, d, issue[s])
  <1>0. /\ DOMAIN at = Sessions /\ DOMAIN issue = Sessions /\ TablesOK /\ n \in Nat
        /\ Fits(at[s], held[s], draft[s]) /\ DOMAIN spvs = 1..n
    BY TablesRead DEF ControlInv, RowsInv, SessionOK
  <1>1. UNCHANGED tableVars
    BY DEF UpdateCheck, GateRoles, tableVars
  <1>2. CASE Finish(s)
    <2>1. Fits(at'[s], held'[s], draft'[s])
      BY <1>0, <1>2, FinishFits DEF SessionFits
    <2> QED BY <1>0, <1>1, <2>1, NothingSaved
  <1>3. CASE ~Finish(s)
    <2>1. Ready(held[s].row, draft[s].spv) /\ held' = held /\ draft' = draft
      BY <1>3 DEF UpdateCheck, GateRoles
    <2>2. draft[s].spv \in DOMAIN spvs
      BY <1>0 DEF UpdateCheck, GateRoles, SessionFits
    <2>3. draft[s].spv \in ClearedSpvs
      BY <1>0, <2>1, <2>2, CompleteIsCleared DEF Ready
    <2>4. \/ at[s] = "updateCheck" /\ at'[s] = "updateSave"
          \/ at[s] = "gateRoles" /\ at'[s] \in {"series", "gateSave"}
      BY <1>0, <1>3 DEF UpdateCheck, GateRoles
    <2>5. Fits(at'[s], held'[s], draft'[s])
      BY <1>0, <2>1, <2>3, <2>4 DEF SessionFits, SpvFits
    <2> QED BY <1>0, <1>1, <2>5, NothingSaved
  <1> QED BY <1>2, <1>3

-----------------------------------------------------------------------------
(* The steps that save.                                                    *)

LEMMA SpvSavesKeepRows ==
    ASSUME RowsInv, ControlInv, NEW s \in Sessions, Alone(s), issue' = issue,
           \/ SaveSpv(s) \/ UpdateSave(s) \/ LinkSpvSave(s) \/ SponsorSpv(s) \/ GateSave(s)
    PROVE  RowsInv'
  <1> USE DEF Goto, AboutProject, HasSpv, HasRow, SpvLabels
  <1> DEFINE n == Len(spvs)
             Fits(l, h, d) == SessionFits(n, ClearedSpvs, WithSeries, Names, approvals, l, h, d, issue[s])
  <1>0. /\ DOMAIN at = Sessions /\ DOMAIN draft = Sessions /\ DOMAIN issue = Sessions /\ TablesOK
        /\ Fits(at[s], held[s], draft[s]) /\ Shaped(at[s], draft[s]) /\ DOMAIN spvs = 1..n /\ n \in Nat
    BY TablesRead DEF ControlInv, RowsInv, SessionOK
  <1>1. CASE SaveSpv(s) /\ draft[s].spv = 0
    <2> DEFINE w == [project |-> held[s].p, ready |-> FALSE]
    <2>1. w \in SpvRows /\ ~w.ready
      BY <1>0, <1>1 DEF SaveSpv, SessionFits, SpvRows
    <2> HIDE DEF w
    <2>2. /\ draft'[s] = [draft[s] EXCEPT !.spv = n + 1, !.row = w] /\ held' = held
          /\ at[s] = "saveSpv" /\ at'[s] = "findRoles"
      BY <1>0, <1>1 DEF SaveSpv, Write, w
    <2>3. SessionFits(n + 1, ClearedSpvs, WithSeries, Names, approvals, at[s], held[s], draft[s], issue[s])
      <3>1. Grown(n, ClearedSpvs, WithSeries, Names, approvals,
                  n + 1, ClearedSpvs, WithSeries, Names, approvals)
        BY <1>0 DEF Grown
      <3> QED BY <1>0, <3>1, SessionStaysFit
    <2>4. SessionFits(n + 1, ClearedSpvs, WithSeries, Names, approvals, at'[s], held'[s], draft'[s], issue[s])
      BY <1>0, <2>2, <2>3 DEF Shaped, SessionFits
    <2> QED BY <1>1, <2>1, <2>4, SpvAdded DEF SaveSpv, w
  <1>2. CASE SaveSpv(s) /\ draft[s].spv # 0
    <2>1. draft[s].spv \in DOMAIN spvs /\ SpvFits(ClearedSpvs, draft[s].spv, draft[s].row)
      BY <1>0, <1>2 DEF SaveSpv, SessionFits
    <2>2. Fits(at'[s], held'[s], draft'[s])
      BY <1>0, <1>2 DEF SaveSpv, SessionFits
    <2> QED BY <1>2, <2>1, <2>2, SpvSaved DEF SaveSpv
  <1>3. CASE UpdateSave(s) \/ LinkSpvSave(s) \/ SponsorSpv(s)
    <2>1. draft[s].spv \in DOMAIN spvs /\ SpvFits(ClearedSpvs, draft[s].spv, draft[s].row)
      BY <1>0, <1>3 DEF UpdateSave, LinkSpvSave, SponsorSpv, SessionFits
    <2>2. /\ held' = held /\ draft' = draft
          /\ \/ at[s] = "updateSave" /\ at'[s] = "loadProject"
             \/ at[s] = "linkSpv" /\ at'[s] = "prepare"
             \/ at[s] = "sponsorSpv" /\ at'[s] = "sponsorLoad"
      BY <1>0, <1>3 DEF UpdateSave, LinkSpvSave, SponsorSpv
    <2>3. Fits(at'[s], held'[s], draft'[s])
      BY <1>0, <2>2 DEF SessionFits
    <2> QED BY <1>3, <2>1, <2>3, SpvSaved DEF UpdateSave, LinkSpvSave, SponsorSpv
  <1>4. CASE GateSave(s)
    <2>a. draft[s].spv \in ClearedSpvs /\ draft[s].spv \in DOMAIN spvs /\ draft[s].row \in SpvRows
      BY <1>0, <1>4 DEF GateSave, SessionFits, SpvFits
    <2>1. SpvFits(ClearedSpvs, draft[s].spv, [draft[s].row EXCEPT !.ready = TRUE])
      BY <2>a DEF SpvFits, SpvRows
    <2>2. Fits(at'[s], held'[s], draft'[s])
      BY <1>0, <1>4 DEF GateSave, SessionFits
    <2> QED BY <1>4, <2>a, <2>1, <2>2, SpvSaved DEF GateSave
  <1> QED BY <1>1, <1>2, <1>3, <1>4

LEMMA RowSavesKeepRows ==
    ASSUME RowsInv, ControlInv, NEW s \in Sessions, Alone(s), issue' = issue,
           LinkProject(s) \/ LinkSave(s) \/ SponsorSave(s)
    PROVE  RowsInv'
  <1> USE DEF Goto, AboutProject, HasSpv, HasRow, SpvLabels
  <1> DEFINE n == Len(spvs)
             Fits(l, h, d) == SessionFits(n, ClearedSpvs, WithSeries, Names, approvals, l, h, d, issue[s])
  <1>0. /\ DOMAIN at = Sessions /\ DOMAIN held = Sessions /\ DOMAIN draft = Sessions /\ DOMAIN issue = Sessions
        /\ Fits(at[s], held[s], draft[s]) /\ Shaped(at[s], draft[s]) /\ n \in Nat
    BY TablesRead DEF ControlInv, RowsInv, SessionOK
  <1>1. /\ RowFits(n, ClearedSpvs, WithSeries, held[s].p, held[s].row)
        /\ RowFits(n, ClearedSpvs, WithSeries, held[s].p, [held[s].row EXCEPT !.spv = draft[s].spv])
        /\ RowFits(n, ClearedSpvs, WithSeries, held[s].p, issue[s]) /\ ~issue[s].locked
    BY <1>0 DEF SessionFits, RowFits, RowShapes
  <1>2. CASE Finish(s)
    <2>1. Fits(at'[s], held'[s], draft'[s])
      BY <1>0, <1>1, <1>2, FinishFits
    <2> QED BY <1>0, <1>1, <2>1, RowSaved DEF LinkProject, LinkSave, SponsorSave, spvVars
  <1>3. CASE LinkProject(s) /\ ~Finish(s)
    <2>1. /\ draft'[s] = [draft[s] EXCEPT !.row = Blank.row] /\ held' = [held EXCEPT ![s].row = Nothing.row]
          /\ at[s] = "linkProject" /\ at'[s] = "suggest"
      BY <1>0, <1>3 DEF LinkProject, Continue, Write, Forget
    <2>2. held'[s].p = held[s].p /\ held'[s].row = Nothing.row /\ DOMAIN held'[s] = {"p", "row"}
      BY <1>0, <2>1 DEF SessionFits
    <2>3. Fits(at'[s], held'[s], draft'[s])
      BY <1>0, <1>1, <2>1, <2>2, NothingFits DEF Shaped, SessionFits
    <2> QED BY <1>0, <1>1, <1>3, <2>3, RowSaved DEF LinkProject
  <1>4. CASE LinkSave(s)
    <2>1. Fits(at'[s], held'[s], draft'[s])
      BY <1>0, <1>4 DEF LinkSave, SessionFits, spvVars
    <2> QED BY <1>0, <1>1, <1>4, <2>1, RowSaved DEF LinkSave, spvVars
  <1> QED BY <1>2, <1>3, <1>4 DEF SponsorSave

LEMMA LinkInsertsKeepRows ==
    ASSUME RowsInv, ControlInv, NEW s \in Sessions, Alone(s), issue' = issue,
           InsertDefault(s) \/ InsertSuggested(s) \/ InsertRole(s)
    PROVE  RowsInv'
  <1> USE DEF Goto, AboutProject, HasSpv, HasRow, SpvLabels
  <1> DEFINE n == Len(spvs)
             Fits(l, h, d) == SessionFits(n, ClearedSpvs, WithSeries, Names, approvals, l, h, d, issue[s])
  <1>0. /\ DOMAIN at = Sessions /\ DOMAIN held = Sessions /\ DOMAIN draft = Sessions /\ DOMAIN issue = Sessions
        /\ Fits(at[s], held[s], draft[s]) /\ Shaped(at[s], draft[s]) /\ n \in Nat /\ DOMAIN spvs = 1..n
    BY TablesRead DEF ControlInv, RowsInv, SessionOK
  <1>1. /\ at[s] \in {"insertDefault", "insertSuggested", "unprimary"}
        /\ draft[s].spv \in DOMAIN spvs /\ draft[s].role \in Roles /\ draft[s].todo \subseteq Roles
        /\ RowFits(n, ClearedSpvs, WithSeries, held[s].p, issue[s]) /\ ~issue[s].locked
    BY <1>0 DEF InsertDefault, InsertSuggested, InsertRole, SessionFits
  <1>2. ASSUME Finish(s) PROVE Fits(at'[s], held'[s], draft'[s])
    BY <1>0, <1>1, <1>2, FinishFits
  <1>3. ASSUME Forget(s)
        PROVE  /\ held'[s].p = held[s].p /\ held'[s].row = Nothing.row /\ DOMAIN held'[s] = {"p", "row"}
               /\ RowFits(n, ClearedSpvs, WithSeries, held[s].p, Nothing.row)
    BY <1>0, <1>3, NothingFits DEF Forget, SessionFits
  <1>4. CASE InsertDefault(s)
    <2>1. CASE draft[s].todo = {}
      <3>1. /\ at[s] = "insertDefault" /\ at'[s] \in {"loadProject", "linkProject"}
            /\ held' = held /\ draft' = draft
        BY <1>0, <1>4, <2>1 DEF InsertDefault
      <3>2. Fits(at'[s], held'[s], draft'[s])
        BY <1>0, <3>1 DEF SessionFits
      <3> QED BY <1>0, <1>4, <2>1, <3>2, NothingSaved DEF InsertDefault, tableVars
    <2>2. CASE draft[s].todo # {}
      <3> DEFINE r == CHOOSE r \in draft[s].todo : TRUE
      <3>1. r \in Roles
        BY <1>1, <2>2
      <3> HIDE DEF r
      <3>2. /\ draft'[s] = [draft[s] EXCEPT !.todo = draft[s].todo \ {r}]
            /\ held' = held /\ at' = at /\ InsertLink(draft[s].spv, r, "suggested")
        BY <1>0, <1>4, <2>2 DEF InsertDefault, Write, r
      <3>3. Fits(at'[s], held'[s], draft'[s])
        BY <1>0, <3>2 DEF Shaped, SessionFits
      <3> QED BY <1>1, <1>4, <3>1, <3>2, <3>3, LinkAdded DEF InsertDefault, Statuses
    <2> QED BY <2>1, <2>2
  <1>5. CASE InsertSuggested(s) /\ draft[s].todo # {}
    <2> DEFINE r == CHOOSE r \in draft[s].todo : TRUE
    <2>1. r \in Roles
      BY <1>1, <1>5
    <2> HIDE DEF r
    <2>2. /\ draft'[s] = [draft[s] EXCEPT !.todo = draft[s].todo \ {r}]
          /\ held' = held /\ at' = at /\ InsertLink(draft[s].spv, r, "suggested")
      BY <1>0, <1>5 DEF InsertSuggested, Write, r
    <2>3. Fits(at'[s], held'[s], draft'[s])
      BY <1>0, <2>2 DEF Shaped, SessionFits
    <2> QED BY <1>1, <1>5, <2>1, <2>2, <2>3, LinkAdded DEF InsertSuggested, Statuses
  <1>6. CASE InsertSuggested(s) /\ draft[s].todo = {}
    <2>1. Fits(at'[s], held'[s], draft'[s])
      <3>1. CASE draft[s].then = "idle"
        BY <1>2, <1>6, <3>1 DEF InsertSuggested, Continue
      <3>2. CASE draft[s].then # "idle"
        <4>1. /\ draft'[s] = [draft[s] EXCEPT !.sponsor = FALSE] /\ Forget(s)
              /\ at[s] = "insertSuggested" /\ at'[s] = "number"
          BY <1>0, <1>6, <3>2 DEF InsertSuggested, Continue, Write, Shaped
        <4> QED BY <1>0, <1>1, <1>3, <4>1 DEF Shaped, SessionFits
      <3> QED BY <3>1, <3>2
    <2>2. CASE draft[s].sponsor
      BY <1>1, <1>6, <2>1, <2>2, LinkAdded, SeriesAssumption DEF InsertSuggested, Statuses
    <2>3. CASE ~draft[s].sponsor
      BY <1>0, <1>6, <2>1, <2>3, NothingSaved DEF InsertSuggested, tableVars
    <2> QED BY <2>2, <2>3
  <1>7. CASE InsertRole(s)
    <2>1. Fits(at'[s], held'[s], draft'[s])
      <3>1. CASE draft[s].role # Sponsor
        BY <1>2, <1>7, <3>1 DEF InsertRole, Continue
      <3>2. CASE draft[s].role = Sponsor
        <4>1. /\ draft'[s] = draft[s] /\ Forget(s) /\ at[s] = "unprimary" /\ at'[s] = "sponsorSpv"
          BY <1>0, <1>7, <3>2 DEF InsertRole, Continue, Write
        <4> QED BY <1>0, <1>1, <1>3, <4>1 DEF SessionFits
      <3> QED BY <3>1, <3>2
    <2> QED BY <1>1, <1>7, <2>1, LinkAdded DEF InsertRole, Statuses
  <1> QED BY <1>4, <1>5, <1>6, <1>7

LEMMA LinkSavesKeepRows ==
    ASSUME RowsInv, ControlInv, NEW s \in Sessions, Alone(s), issue' = issue,
           Unprimary(s) \/ RejectSave(s)
    PROVE  RowsInv'
  <1> USE DEF Goto, AboutProject, HasSpv, HasRow, SpvLabels
  <1> DEFINE n == Len(spvs)
             Fits(l, h, d) == SessionFits(n, ClearedSpvs, WithSeries, Names, approvals, l, h, d, issue[s])
  <1>0. /\ DOMAIN at = Sessions /\ DOMAIN held = Sessions /\ DOMAIN draft = Sessions /\ DOMAIN issue = Sessions
        /\ Fits(at[s], held[s], draft[s]) /\ Shaped(at[s], draft[s]) /\ n \in Nat /\ DOMAIN Names = DOMAIN roles
    BY TablesRead DEF ControlInv, RowsInv, SessionOK
  <1>1. ASSUME NEW l \in draft[s].links, NEW t \in Statuses, t = l[2].status \/ t = "rejected"
        PROVE  /\ l[1] \in DOMAIN roles
               /\ LinkFits(n, Names, approvals, <<l[1], [l[2] EXCEPT !.status = t, !.primary = FALSE]>>)
               /\ LinkFits(n, Names, approvals, <<l[1], [l[2] EXCEPT !.primary = FALSE]>>)
    BY <1>0, <1>1 DEF SessionFits, LinkFits, LinkRows, Statuses
  <1>2. CASE Unprimary(s)
    <2>1. PICK l \in draft[s].links :
            /\ roles' = [roles EXCEPT ![l[1]] = [l[2] EXCEPT !.primary = FALSE]]
            /\ Write(s, [draft[s] EXCEPT !.links = draft[s].links \ {l}])
      BY <1>2 DEF Unprimary
    <2>2. draft'[s] = [draft[s] EXCEPT !.links = draft[s].links \ {l}] /\ at' = at /\ held' = held
      BY <1>0, <1>2, <2>1 DEF Unprimary, Write
    <2>3. Fits(at'[s], held'[s], draft'[s])
      BY <1>0, <2>2 DEF Shaped, SessionFits
    <2>4. /\ l[1] \in DOMAIN roles
          /\ LinkFits(n, Names, approvals, <<l[1], [l[2] EXCEPT !.primary = FALSE]>>)
      BY <1>1 DEF Statuses
    <2> QED BY <1>2, <2>1, <2>3, <2>4, LinkSaved DEF Unprimary
  <1>3. CASE RejectSave(s)
    <2>1. PICK l \in draft[s].links :
            /\ roles' = [roles EXCEPT ![l[1]] = [l[2] EXCEPT !.status = "rejected", !.primary = FALSE]]
            /\ rejections' = rejections \cup {l[1]}
      BY <1>3 DEF RejectSave
    <2>2. Fits(at'[s], held'[s], draft'[s])
      BY <1>0, <1>3, FinishFits DEF RejectSave, SessionFits
    <2>3. /\ l[1] \in DOMAIN roles
          /\ LinkFits(n, Names, approvals, <<l[1], [l[2] EXCEPT !.status = "rejected", !.primary = FALSE]>>)
      BY <1>1 DEF Statuses
    <2> QED BY <1>3, <2>1, <2>2, <2>3, LinkSaved DEF RejectSave
  <1> QED BY <1>2, <1>3

LEMMA SeriesKeepRows ==
    ASSUME RowsInv, ControlInv, OneEach, OneEach', NEW s \in Sessions, Alone(s), issue' = issue,
           \A p : SeriesOf(p) \subseteq SeriesOf(p)',
           FindSeries(s) \/ InsertSeries(s)
    PROVE  RowsInv'
  <1> USE DEF Goto, AboutProject, HasSpv, HasRow, SpvLabels
  <1> DEFINE n == Len(spvs)
             Fits(P, l, h, d) == SessionFits(n, ClearedSpvs, P, Names, approvals, l, h, d, issue[s])
  <1>0. /\ DOMAIN at = Sessions /\ DOMAIN held = Sessions /\ DOMAIN draft = Sessions /\ DOMAIN issue = Sessions
        /\ Fits(WithSeries, at[s], held[s], draft[s]) /\ Shaped(at[s], draft[s])
        /\ n \in Nat /\ DOMAIN spvs = 1..n /\ held[s].p \in Projects
        /\ RowFits(n, ClearedSpvs, WithSeries, held[s].p, issue[s]) /\ ~issue[s].locked
    BY TablesRead DEF ControlInv, RowsInv, SessionOK, SessionFits, FindSeries, InsertSeries
  <1>1. ASSUME Forget(s)
        PROVE  /\ held'[s].p = held[s].p /\ held'[s].row = Nothing.row /\ DOMAIN held'[s] = {"p", "row"}
               /\ RowFits(n, ClearedSpvs, WithSeries, held[s].p, Nothing.row)
    BY <1>0, <1>1, NothingFits DEF Forget, SessionFits
  <1>2. CASE FindSeries(s)
    <2>1. CASE SeriesOf(held[s].p) = {}
      <3>1. /\ draft'[s] = [draft[s] EXCEPT !.then = "number"] /\ Forget(s)
            /\ at[s] = "series" /\ at'[s] = "prepare"
        BY <1>0, <1>2, <2>1 DEF FindSeries, Continue, Write
      <3>2. Fits(WithSeries, at'[s], held'[s], draft'[s])
        BY <1>0, <1>1, <3>1 DEF Shaped, SessionFits
      <3> QED BY <1>0, <1>2, <3>2, NothingSaved DEF FindSeries, tableVars
    <2>2. CASE SeriesOf(held[s].p) # {}
      <3>1. PICK k \in SeriesOf(held[s].p) : Continue(s, draft[s].back, [draft[s] EXCEPT !.spv = series[k].spv])
        BY <1>2, <2>2 DEF FindSeries
      <3>2. series[k].spv \in 1..n /\ held[s].p \in WithSeries
        BY <1>0, <2>2 DEF RowsInv, TablesOK, SeriesOf, WithSeries
      <3>3. Fits(WithSeries, at'[s], held'[s], draft'[s])
        <4>1. CASE draft[s].back = "idle"
          BY <1>0, <3>1, <4>1, FinishFits DEF Continue
        <4>2. CASE draft[s].back # "idle"
          <5>1. /\ draft'[s] = [draft[s] EXCEPT !.spv = series[k].spv] /\ Forget(s)
                /\ at[s] = "series" /\ at'[s] = "issueSave" /\ draft[s].back = "issueSave"
            BY <1>0, <1>2, <3>1, <4>2 DEF FindSeries, Continue, Write, Shaped
          <5> QED BY <1>0, <1>1, <3>2, <5>1 DEF Shaped, SessionFits
        <4> QED BY <4>1, <4>2
      <3> QED BY <1>0, <1>2, <3>3, NothingSaved DEF FindSeries, tableVars
    <2> QED BY <2>1, <2>2
  <1>3. CASE InsertSeries(s)
    <2> DEFINE e == [project |-> held[s].p, number |-> draft[s].number, spv |-> draft[s].spv]
    <2>1. e.spv \in DOMAIN spvs /\ series' = Append(series, e) /\ e.project = held[s].p
      BY <1>0, <1>3 DEF InsertSeries, SessionFits
    <2> HIDE DEF e
    <2>2. WithSeries \subseteq WithSeries'
      BY DEF WithSeries, SeriesOf
    <2>3. held[s].p \in WithSeries'
      <3>1. DOMAIN series' = 1..(Len(series) + 1) /\ series'[Len(series) + 1] = e /\ Len(series) \in Nat
        <4>1. PICK S : series \in Seq(S)
          BY DEF OneEach
        <4>2. series \in Seq(S \cup {e})
          BY <4>1, SeqDef
        <4> QED BY <2>1, <4>2, AppendProperties, LenProperties
      <3> QED BY <1>0, <2>1, <3>1 DEF WithSeries, SeriesOf
    <2>4. Fits(WithSeries', at[s], held[s], draft[s])
      <3>1. Grown(n, ClearedSpvs, WithSeries, Names, approvals,
                  n, ClearedSpvs, WithSeries', Names, approvals)
        BY <1>0, <2>2 DEF Grown
      <3> QED BY <1>0, <3>1, SessionStaysFit
    <2>5. Fits(WithSeries', at'[s], held'[s], draft'[s])
      <3>1. CASE draft[s].back = "idle"
        <4>1. RowFits(n, ClearedSpvs, WithSeries', held[s].p, issue[s])
          BY <2>4 DEF SessionFits
        <4> QED BY <1>0, <1>3, <3>1, <4>1, FinishFits DEF InsertSeries, Continue
      <3>2. CASE draft[s].back # "idle"
        <4>1. /\ draft'[s] = draft[s] /\ Forget(s)
              /\ at[s] = "insertSeries" /\ at'[s] = "issueSave" /\ draft[s].back = "issueSave"
          BY <1>0, <1>3, <3>2 DEF InsertSeries, Continue, Write, Shaped
        <4>2. RowFits(n, ClearedSpvs, WithSeries', held[s].p, Nothing.row)
          BY <1>0, NothingFits
        <4> QED BY <1>0, <1>1, <2>3, <2>4, <4>1, <4>2 DEF SessionFits
      <3> QED BY <3>1, <3>2
    <2> QED BY <1>3, <2>1, <2>2, <2>5, SeriesAdded DEF InsertSeries
  <1> QED BY <1>2, <1>3

-----------------------------------------------------------------------------
(* The calls, and the steps of issueProject and of CustodyConfig.          *)

\* The draft d, at l, of a session that has just loaded a project.
Fresh(n, C, N, A, l, d) ==
    /\ d.spv \in 0..n /\ d.role \in Roles /\ d.todo \subseteq Roles
    /\ \A k \in d.links : LinkFits(n, N, A, k)
    /\ l \notin {"unprimary", "gateSave", "issueSave", "gate", "gateSpv", "gateRoles"}
    /\ d.back = "issueSave" => C # {}
    /\ l \in HasSpv => d.spv # 0
    /\ l \in HasRow => SpvFits(C, d.spv, d.row)
    /\ l \in {"updateProject", "updateCheck"} => d.row \in SpvRows
    /\ l = "saveSpv" => d.spv = 0

LEMMA LoadedFits ==
    ASSUME RowsInv, NEW s \in Sessions, NEW p \in Projects, held'[s] = [p |-> p, row |-> project[p]],
           issue' = issue, Fresh(Len(spvs), ClearedSpvs, Names, approvals, at'[s], draft'[s])
    PROVE  SessionFits(Len(spvs), ClearedSpvs, WithSeries, Names, approvals,
                       at'[s], held'[s], draft'[s], issue'[s])
  <1> DEFINE n == Len(spvs)
             h == held'[s]
  <1>1. RowFits(n, ClearedSpvs, WithSeries, p, project[p])
    BY DEF RowsInv, TablesOK
  <1>2. RowFits(n, ClearedSpvs, WithSeries, p, issue[s]) /\ ~issue[s].locked
    <2>1. RowFits(n, ClearedSpvs, WithSeries, held[s].p, issue[s]) /\ ~issue[s].locked
      BY DEF RowsInv, SessionOK, SessionFits
    <2> QED BY <2>1 DEF RowFits
  <1>3. h.p = p /\ h.row = project[p] /\ DOMAIN h = {"p", "row"}
    OBVIOUS
  <1>4. RowFits(n, ClearedSpvs, WithSeries, h.p, h.row) /\ RowFits(n, ClearedSpvs, WithSeries, h.p, issue'[s])
    BY <1>1, <1>2, <1>3
  <1> QED BY <1>2, <1>3, <1>4 DEF SessionFits, Fresh

LEMMA CallsKeepRows ==
    ASSUME RowsInv, ControlInv, NEW s \in Sessions, Alone(s),
           (SpvCall(s) /\ issue' = issue) \/ (\E p \in Projects : Issue(s, p)) \/ IssueGate(s) \/ IssueSave(s)
    PROVE  RowsInv'
  <1> USE DEF Goto, Call, Begin, spvVars, tableVars, AboutProject, HasSpv, HasRow, SpvLabels
  <1> DEFINE n == Len(spvs)
             Fits(l, h, d, v) == SessionFits(n, ClearedSpvs, WithSeries, Names, approvals, l, h, d, v)
             Plain(d) == d.role \in Roles /\ d.todo = {} /\ d.links = {} /\ d.back = "idle"
  <1>0. /\ DOMAIN at = Sessions /\ DOMAIN held = Sessions /\ DOMAIN draft = Sessions /\ DOMAIN issue = Sessions
        /\ Fits(at[s], held[s], draft[s], issue[s]) /\ Shaped(at[s], draft[s]) /\ TablesOK
        /\ n \in Nat /\ DOMAIN spvs = 1..n
        /\ \A i \in DOMAIN spvs : SpvFits(ClearedSpvs, i, spvs[i]) /\ spvs[i].project \in Projects
        /\ \A k \in DOMAIN roles : /\ LinkFits(n, Names, approvals, <<k, roles[k]>>)
                                   /\ roles[k].spv \in DOMAIN spvs
    BY TablesRead DEF ControlInv, RowsInv, SessionOK, SpvFits, SpvRows, LinkRows
  <1>1. ASSUME NEW p \in Projects, LoadRow(s, p), issue' = issue
        PROVE  /\ held'[s] = [p |-> p, row |-> project[p]]
               /\ Fresh(n, ClearedSpvs, Names, approvals, at'[s], draft'[s])
                  => Fits(at'[s], held'[s], draft'[s], issue'[s])
    <2>1. held'[s] = [p |-> p, row |-> project[p]]
      BY <1>0, <1>1 DEF LoadRow
    <2> QED BY <1>1, <2>1, LoadedFits
  <1>2. /\ Blank.spv \in 0..n /\ Blank.role \in Roles /\ Blank.todo = {} /\ Blank.links = {}
        /\ Blank.back = "idle" /\ Shaped("idle", Blank)
    BY <1>0, BlankIsShaped, SeriesAssumption DEF Blank
  <1>3. ASSUME UNCHANGED tableVars, Fits(at'[s], held'[s], draft'[s], issue'[s]), issue' = issue
        PROVE  RowsInv'
    BY <1>0, <1>3, NothingSaved
  <1>4. ASSUME NEW p \in Projects, Prepare(s, p) \/ CreateSeries(s, p), issue' = issue PROVE RowsInv'
    <2>1. LoadRow(s, p) /\ at[s] = "idle" /\ at'[s] \in {"findSpv", "series"} /\ draft' = draft
      BY <1>0, <1>4 DEF Prepare, CreateSeries
    <2>2. /\ draft[s].spv \in 0..n /\ draft[s].role \in Roles /\ draft[s].todo \subseteq Roles
          /\ \A k \in draft[s].links : LinkFits(n, Names, approvals, k)
          /\ draft[s].back = "issueSave" => ClearedSpvs # {}
      BY <1>0, <2>1 DEF SessionFits
    <2>3. Fresh(n, ClearedSpvs, Names, approvals, at'[s], draft'[s])
      BY <2>1, <2>2 DEF Fresh
    <2>4. Fits(at'[s], held'[s], draft'[s], issue'[s])
      BY <1>1, <1>4, <2>1, <2>3
    <2> QED BY <1>3, <1>4, <2>4 DEF Prepare, CreateSeries
  <1>5. ASSUME NEW p \in Projects, CreateSpv(s, p), issue' = issue PROVE RowsInv'
    <2>1. LoadRow(s, p) /\ at'[s] = "saveSpv" /\ draft'[s] = [Blank EXCEPT !.late = TRUE]
      BY <1>0, <1>5 DEF CreateSpv, Write
    <2>2. draft'[s].spv = 0 /\ Plain(draft'[s])
      BY <1>2, <2>1 DEF Blank
    <2>8. Fresh(n, ClearedSpvs, Names, approvals, at'[s], draft'[s])
      BY <2>1, <2>2 DEF Fresh
    <2>9. Fits(at'[s], held'[s], draft'[s], issue'[s])
      BY <1>1, <1>5, <2>1, <2>8
    <2> QED BY <1>3, <1>5, <2>9 DEF CreateSpv
  <1>6. ASSUME NEW p \in Projects, NEW i \in DOMAIN spvs, LinkSpv(s, p, i), issue' = issue PROVE RowsInv'
    <2>1. LoadRow(s, p) /\ at'[s] = "linkSave" /\ draft'[s] = [Blank EXCEPT !.spv = i]
      BY <1>0, <1>6 DEF LinkSpv, Write
    <2>2. draft'[s].spv = i /\ i \in 1..n /\ Plain(draft'[s])
      BY <1>0, <1>2, <2>1 DEF Blank
    <2>8. Fresh(n, ClearedSpvs, Names, approvals, at'[s], draft'[s])
      BY <2>1, <2>2 DEF Fresh
    <2>9. Fits(at'[s], held'[s], draft'[s], issue'[s])
      BY <1>1, <1>6, <2>1, <2>8
    <2> QED BY <1>3, <1>6, <2>9 DEF LinkSpv
  <1>7. ASSUME NEW p \in Projects, NEW i \in DOMAIN spvs, NEW ready \in BOOLEAN, UpdateSpv(s, i, p, ready),
               issue' = issue
        PROVE  RowsInv'
    <2> DEFINE w == [project |-> p, ready |-> ready]
    <2>1. w \in SpvRows /\ w.ready = ready
      BY DEF SpvRows
    <2> HIDE DEF w
    <2>2. /\ LoadRow(s, p) /\ draft'[s] = [Blank EXCEPT !.spv = i, !.row = w, !.then = "update"]
          /\ at'[s] = IF ready THEN "updateProject" ELSE "updateSave"
      BY <1>0, <1>7 DEF UpdateSpv, Write, w
    <2>3. draft'[s].spv = i /\ i \in 1..n /\ Plain(draft'[s]) /\ draft'[s].row = w
      BY <1>0, <1>2, <2>2 DEF Blank
    <2>4. ~ready => SpvFits(ClearedSpvs, draft'[s].spv, draft'[s].row)
      BY <2>1, <2>3 DEF SpvFits
    <2>5. Fresh(n, ClearedSpvs, Names, approvals, at'[s], draft'[s])
      BY <2>1, <2>2, <2>3, <2>4 DEF Fresh
    <2>7. Fits(at'[s], held'[s], draft'[s], issue'[s])
      BY <1>1, <1>7, <2>2, <2>5
    <2> QED BY <1>3, <1>7, <2>7 DEF UpdateSpv
  <1>8. ASSUME NEW i \in DOMAIN spvs, NEW r \in Roles, Upsert(s, i, r), issue' = issue PROVE RowsInv'
    <2>1. /\ LoadRow(s, spvs[i].project) /\ at'[s] = "findLinks" /\ spvs[i].project \in Projects
          /\ draft'[s] = [Blank EXCEPT !.spv = i, !.row = spvs[i], !.role = r]
      BY <1>0, <1>8 DEF Upsert, Write
    <2>2. /\ draft'[s].spv = i /\ i \in 1..n /\ draft'[s].row = spvs[i] /\ draft'[s].role \in Roles
          /\ draft'[s].todo = {} /\ draft'[s].links = {} /\ draft'[s].back = "idle"
      BY <1>0, <2>1 DEF Blank
    <2>3. SpvFits(ClearedSpvs, draft'[s].spv, draft'[s].row)
      BY <1>0, <2>2
    <2>8. Fresh(n, ClearedSpvs, Names, approvals, at'[s], draft'[s])
      BY <2>1, <2>2, <2>3 DEF Fresh
    <2>9. Fits(at'[s], held'[s], draft'[s], issue'[s])
      BY <1>1, <1>8, <2>1, <2>8
    <2> QED BY <1>3, <1>8, <2>9 DEF Upsert
  <1>9. ASSUME NEW k \in DOMAIN roles, Reject(s, k), issue' = issue PROVE RowsInv'
    <2>1. /\ LoadRow(s, spvs[roles[k].spv].project) /\ at'[s] = "reject"
          /\ spvs[roles[k].spv].project \in Projects
          /\ draft'[s] = [Blank EXCEPT !.links = {<<k, roles[k]>>}]
      BY <1>0, <1>9 DEF Reject, Write
    <2> DEFINE q == spvs[roles[k].spv].project
    <2>2. /\ draft'[s].spv = 0 /\ draft'[s].role \in Roles /\ draft'[s].back = "idle"
          /\ draft'[s].todo = {} /\ draft'[s].links = {<<k, roles[k]>>}
      BY <2>1, SeriesAssumption DEF Blank
    <2>3. \A j \in draft'[s].links : LinkFits(n, Names, approvals, j)
      BY <1>0, <2>2
    <2>8. Fresh(n, ClearedSpvs, Names, approvals, at'[s], draft'[s])
      BY <2>1, <2>2, <2>3 DEF Fresh
    <2>9. Fits(at'[s], held'[s], draft'[s], issue'[s])
      BY <1>1, <1>9, <2>1, <2>8
    <2> QED BY <1>3, <1>9, <2>9 DEF Reject
  <1>10. ASSUME NEW p \in Projects, Issue(s, p) PROVE RowsInv'
    <2>1. /\ held'[s] = [p |-> p, row |-> project[p]] /\ at[s] = "idle" /\ at'[s] = "issueGate"
          /\ draft' = draft /\ issue'[s] = project[p] /\ ~project[p].locked
          /\ RowFits(n, ClearedSpvs, WithSeries, p, project[p])
      BY <1>0, <1>10 DEF Issue, LoadRow, TablesOK
    <2>2. Fits(at'[s], held'[s], draft'[s], issue'[s])
      BY <1>0, <2>1 DEF SessionFits
    <2>3. DOMAIN issue' = Sessions /\ \A q \in Sessions \ {s} : issue'[q] = issue[q]
      BY <1>0, <1>10 DEF Issue
    <2> QED BY <1>0, <1>10, <2>2, <2>3, NothingSaved DEF Issue
  <1>11. CASE IssueGate(s)
    <2>1. CASE Finish(s)
      <3>1. Fits(at'[s], held'[s], draft'[s], issue[s])
        BY <1>0, <2>1, FinishFits DEF SessionFits
      <3> QED BY <1>3, <1>11, <3>1 DEF IssueGate
    <2>2. CASE ~Finish(s)
      <3>1. /\ draft'[s] = [Blank EXCEPT !.back = "issueSave"] /\ held' = held
            /\ at[s] = "issueGate" /\ at'[s] = "gate"
        BY <1>0, <1>11, <2>2 DEF IssueGate, Write
      <3>2. Fits(at'[s], held'[s], draft'[s], issue[s])
        BY <1>0, <1>2, <3>1 DEF Shaped, SessionFits
      <3> QED BY <1>3, <1>11, <3>2 DEF IssueGate
    <2> QED BY <2>1, <2>2
  <1>12. CASE IssueSave(s)
    <2>1. RowFits(n, ClearedSpvs, WithSeries, held[s].p, [issue[s] EXCEPT !.spv = draft[s].spv, !.locked = TRUE])
      BY <1>0, <1>12 DEF IssueSave, SessionFits, RowFits, RowShapes
    <2>2. /\ issue'[s] = Nothing.row /\ DOMAIN issue' = Sessions
          /\ \A q \in Sessions \ {s} : issue'[q] = issue[q]
      BY <1>0, <1>12 DEF IssueSave
    <2>3. ~Nothing.row.locked
      BY DEF Nothing, NewRow
    <2>4. Fits(at'[s], held'[s], draft'[s], issue'[s])
      BY <1>0, <1>12, <2>2, <2>3, NothingFits, FinishFits DEF IssueSave
    <2> QED BY <1>0, <1>12, <2>1, <2>2, <2>4, RowSaved DEF IssueSave
  <1> QED BY <1>4, <1>5, <1>6, <1>7, <1>8, <1>9, <1>10, <1>11, <1>12 DEF SpvCall

LEMMA CustodyKeepsRows ==
    ASSUME RowsInv, RequestsInv, ControlInv, NEW s \in Sessions, Alone(s), UNCHANGED <<spvVars, issue>>,
           CustodyCall(s) \/ CustodyStep(s)
    PROVE  RowsInv'
  <1> USE DEF Goto, Call, Begin, spvVars, tableVars
  <1> DEFINE n == Len(spvs)
             Fits(h) == SessionFits(n, ClearedSpvs, WithSeries, Names, approvals, at'[s], h, draft[s], issue[s])
  <1>0. /\ DOMAIN at = Sessions /\ DOMAIN held = Sessions /\ DOMAIN issue = Sessions
        /\ SessionFits(n, ClearedSpvs, WithSeries, Names, approvals, at[s], held[s], draft[s], issue[s])
        /\ TablesOK /\ n \in Nat /\ draft' = draft
        /\ at[s] \in CustodyLabels \cup {"idle"} /\ at'[s] \in CustodyLabels \cup {"idle"}
        /\ review[s] \in Reviews
    BY TablesRead, CustodyAside DEF ControlInv, RowsInv, SessionOK, RequestsInv, CustodyTypeOK, Aside
  <1>1. Fits(held[s])
    BY <1>0 DEF SessionFits, AboutProject, HasSpv, HasRow, SpvLabels, CustodyLabels
  <1>2. ASSUME NEW p \in Projects, LoadRow(s, p) PROVE Fits(held'[s])
    <2>1. held'[s] = [p |-> p, row |-> project[p]] /\ RowFits(n, ClearedSpvs, WithSeries, p, project[p])
      BY <1>0, <1>2 DEF LoadRow, TablesOK
    <2>3. draft[s].back = "issueSave" => ClearedSpvs # {}
      BY <1>0 DEF SessionFits, CustodyLabels
    <2>4. /\ draft[s].spv \in 0..n /\ draft[s].role \in Roles /\ draft[s].todo \subseteq Roles
          /\ \A k \in draft[s].links : LinkFits(n, Names, approvals, k)
      BY <1>0 DEF SessionFits
    <2>5. at'[s] \notin HasSpv \cup HasRow \cup AboutProject
      BY <1>0 DEF HasSpv, HasRow, AboutProject, SpvLabels, CustodyLabels
    <2>6. at'[s] \notin {"unprimary", "gateSave", "issueSave", "gate", "gateSpv", "gateRoles", "saveSpv",
                         "updateProject", "updateCheck"}
      BY <1>0 DEF CustodyLabels
    <2>7. Fresh(n, ClearedSpvs, Names, approvals, at'[s], draft'[s])
      BY <1>0, <2>3, <2>4, <2>5, <2>6 DEF Fresh
    <2> QED BY <1>0, <2>1, <2>7, LoadedFits
  <1>3. ASSUME Return(s) PROVE Fits(held'[s])
    <2>1. held'[s] = Nothing /\ at'[s] = "idle"
      BY <1>0, <1>3 DEF Return
    <2>2. RowFits(n, ClearedSpvs, WithSeries, NoProject, issue[s])
      BY <1>0 DEF SessionFits, RowFits
    <2> QED BY <1>0, <1>1, <2>1, <2>2, NothingFits
            DEF SessionFits, AboutProject, HasSpv, HasRow, SpvLabels
  <1>4. ASSUME project' = project, Fits(held'[s]) PROVE RowsInv'
    BY <1>0, <1>4, NothingSaved
  <1>5. ASSUME NEW r, SaveRow(s, r), RowFits(n, ClearedSpvs, WithSeries, held[s].p, r), Fits(held'[s])
        PROVE  RowsInv'
    BY <1>0, <1>5, RowSaved
  <1>6. CASE CustodyCall(s)
    <2>1. project' = project /\ (held' = held \/ \E p \in Projects : LoadRow(s, p))
      BY <1>6 DEF CustodyCall, AskMode, AskWallet, ChangeWallet, Review, MarkReviewed, Block, Clear, custodyVars
    <2> QED BY <1>1, <1>2, <1>4, <2>1
  <1>7. CASE \/ AskSave(s) \/ AskInsert(s) \/ ReviewProfile(s) \/ ReviewProfileSave(s) \/ ReviewProject(s)
             \/ ReviewSave(s) \/ MarkFind(s) \/ ClearFind(s)
    <2>1. project' = project /\ (held' = held \/ Return(s))
      BY <1>7 DEF AskSave, AskInsert, ReviewProfile, ReviewProfileSave, ReviewProject, ReviewSave,
                  MarkFind, ClearFind, End
    <2> QED BY <1>1, <1>3, <1>4, <2>1
  <1>8. CASE LoadWallet(s)
    <2>1. review[s].request.project \in Projects
      BY <1>8 DEF LoadWallet, RequestsInv, ReviewOK
    <2>2. project' = project /\ (Return(s) \/ LoadRow(s, review[s].request.project))
      BY <1>8 DEF LoadWallet, End
    <2> QED BY <1>2, <1>3, <1>4, <2>1, <2>2
  <1>9. CASE SaveWallet(s)
    <2> DEFINE r == [held[s].row EXCEPT !.mode = review[s].request.mode, !.open = Incomplete(held[s].row, FALSE)]
    <2>1. review[s].request.mode \in Modes
      BY <1>0 DEF Reviews, Requests
    <2>2. RowFits(n, ClearedSpvs, WithSeries, held[s].p, r)
      BY <1>0, <2>1 DEF SessionFits, RowFits, RowShapes, Incomplete
    <2>3. SaveRow(s, r) /\ (held' = held \/ Return(s))
      BY <1>9 DEF SaveWallet, End
    <2> HIDE DEF r
    <2> QED BY <1>1, <1>3, <1>5, <2>2, <2>3
  <1>10. CASE MarkSave(s)
    <2> DEFINE r == [held[s].row EXCEPT !.open = Incomplete(held[s].row, review[s].waiting)]
    <2>1. RowFits(n, ClearedSpvs, WithSeries, held[s].p, r)
      <3>1. review[s].waiting \in BOOLEAN
        BY <1>0 DEF Reviews
      <3> QED BY <1>0, <3>1 DEF SessionFits, RowFits, RowShapes, Incomplete
    <2>2. SaveRow(s, r) /\ Return(s)
      BY <1>10 DEF MarkSave, End
    <2> HIDE DEF r
    <2> QED BY <1>3, <1>5, <2>1, <2>2
  <1>11. CASE BlockSave(s)
    <2> DEFINE r == [held[s].row EXCEPT !.blocked = TRUE, !.open = TRUE]
    <2>1. RowFits(n, ClearedSpvs, WithSeries, held[s].p, r)
      BY <1>0 DEF SessionFits, RowFits, RowShapes
    <2>2. SaveRow(s, r) /\ Return(s)
      BY <1>11 DEF BlockSave, End
    <2> HIDE DEF r
    <2> QED BY <1>3, <1>5, <2>1, <2>2
  <1>12. CASE ClearSave(s)
    <2> DEFINE r == [held[s].row EXCEPT !.blocked = FALSE, !.open = FALSE]
    <2>1. RowFits(n, ClearedSpvs, WithSeries, held[s].p, r)
      BY <1>0 DEF SessionFits, RowFits, RowShapes
    <2>2. SaveRow(s, r) /\ Return(s)
      BY <1>12 DEF ClearSave, End
    <2> HIDE DEF r
    <2> QED BY <1>3, <1>5, <2>1, <2>2
  <1> QED BY <1>6, <1>7, <1>8, <1>9, <1>10, <1>11, <1>12 DEF CustodyStep

-----------------------------------------------------------------------------
(* All steps together.                                                     *)

LEMMA RowsInit == Init => RowsInv
  <1> SUFFICES ASSUME Init PROVE RowsInv
    OBVIOUS
  <1>1. PICK p \in Projects, issued \in BOOLEAN :
          /\ SpvInit(p, issued)
          /\ project = [q \in Projects |-> [NewRow(FirstMode) EXCEPT !.spv = IF q = p THEN 1 ELSE 0]]
    BY DEF Init
  <1> DEFINE v == [project |-> p, ready |-> issued]
             c == Cardinality(Roles)
             status == IF issued THEN "approved" ELSE "suggested"
  <1>2. /\ spvs = <<v>> /\ Len(spvs) = 1 /\ DOMAIN spvs = 1..1 /\ spvs[1] = v
        /\ v \in SpvRows /\ v.ready = issued
    BY <1>1 DEF SpvInit, SpvRows
  <1>3. c \in Nat
    BY SeriesAssumption, FS_CardinalityType
  <1>4. /\ roles \in [1..c -> [spv : {1}, role : Roles, status : {status}, primary : {TRUE}]]
        /\ \A r \in Roles : \E k \in DOMAIN roles : roles[k].role = r
    <2>1. roles \in Defaults(status)
      BY <1>1 DEF SpvInit
    <2>2. roles \in [1..c -> [spv : {1}, role : Roles, status : {status}, primary : {TRUE}]]
      BY <2>1 DEF Defaults
    <2>3. {roles[k].role : k \in DOMAIN roles} = Roles
      BY <2>1 DEF Defaults
    <2> QED BY <2>2, <2>3
  <1>5. roles \in [1..c -> LinkRows(1)] /\ \A k \in 1..c : roles[k].spv = 1 /\ roles[k].status = status
    <2>1. status \in Statuses
      BY DEF Statuses
    <2>2. \A k \in 1..c : roles[k] \in [spv : {1}, role : Roles, status : {status}, primary : {TRUE}]
      BY <1>4
    <2> HIDE DEF status, c
    <2>3. ASSUME NEW k \in 1..c
          PROVE  roles[k] \in LinkRows(1) /\ roles[k].spv = 1 /\ roles[k].status = status
      <3>1. PICK r \in Roles : roles[k] = [spv |-> 1, role |-> r, status |-> status, primary |-> TRUE]
        BY <2>2
      <3> QED BY <2>1, <3>1 DEF LinkRows
    <2> QED BY <1>4, <2>3
  <1>6. roles \in Seq(LinkRows(1)) /\ DOMAIN roles = 1..c
    BY <1>3, <1>5, SeqDef
  <1>7. issued => approvals = DOMAIN roles /\ 1 \in ClearedSpvs
    BY <1>1, <1>2, <1>4, <1>5, <1>6 DEF SpvInit, ClearedSpvs, LinksFor, LinksOf
  <1>8. ~issued => approvals = {} /\ status = "suggested"
    BY <1>1 DEF SpvInit
  <1>9. \A k \in DOMAIN roles : roles[k].status = "approved" => k \in approvals
    BY <1>5, <1>6, <1>7, <1>8
  <1>10. \A q \in Projects : RowFits(1, ClearedSpvs, WithSeries, q, project[q])
    <2>1. \A q \in Projects : project[q] = [NewRow(FirstMode) EXCEPT !.spv = IF q = p THEN 1 ELSE 0]
      BY <1>1
    <2>2. ASSUME NEW q \in Projects PROVE RowFits(1, ClearedSpvs, WithSeries, q, project[q])
      <3>1. PICK i \in 0..1 : project[q] = [NewRow(FirstMode) EXCEPT !.spv = i]
        BY <2>1
      <3> DEFINE new == NewRow(FirstMode)
      <3>2. new \in RowShapes(1) /\ ~new.blocked /\ ~new.locked
        BY FirstIsAMode DEF NewRow, RowShapes
      <3> HIDE DEF new
      <3>3. [new EXCEPT !.spv = i] \in RowShapes(1)
        BY <3>1, <3>2 DEF RowShapes
      <3>4. ~[new EXCEPT !.spv = i].blocked /\ ~[new EXCEPT !.spv = i].locked
        BY <3>2 DEF RowShapes
      <3>5. project[q] = [new EXCEPT !.spv = i]
        BY <3>1 DEF new
      <3> QED BY <3>3, <3>4, <3>5 DEF RowFits
    <2> QED BY <2>2
  <1>11. \A k \in DOMAIN series : series[k].spv \in DOMAIN spvs
    <2>1. CASE issued
      <3>1. series = <<[project |-> p, number |-> 1, spv |-> 1]>>
        BY <1>1, <2>1 DEF SpvInit
      <3>2. DOMAIN series = 1..1 /\ series[1].spv = 1
        BY <3>1
      <3> QED BY <1>2, <3>2
    <2>2. CASE ~issued
      BY <1>1, <2>2 DEF SpvInit
    <2> QED BY <2>1, <2>2
  <1>12. TablesOK
    <2>1. DOMAIN project = Projects /\ approvals \subseteq DOMAIN roles /\ rejections \subseteq DOMAIN roles
      BY <1>1, <1>7, <1>8 DEF SpvInit
    <2>2. spvs \in Seq(SpvRows) /\ \A i \in DOMAIN spvs : spvs[i].ready => i \in ClearedSpvs
      BY <1>2, <1>7
    <2> QED BY <1>2, <1>6, <1>9, <1>10, <1>11, <2>1, <2>2 DEF TablesOK
  <1>13. ASSUME NEW s \in Sessions PROVE SessionOK(s)
    <2>1. at[s] = "idle" /\ held[s] = Nothing /\ issue[s] = Nothing.row /\ draft[s] = Blank
      BY <1>1 DEF Init, SpvInit
    <2>2. ~Nothing.row.locked
      BY DEF Nothing, NewRow
    <2>3. Blank.spv \in 0..1 /\ Blank.role \in Roles /\ Blank.todo = {} /\ Blank.links = {} /\ Blank.back = "idle"
      BY SeriesAssumption DEF Blank
    <2>4. RowFits(1, ClearedSpvs, WithSeries, NoProject, Nothing.row)
      BY NothingFits
    <2> QED BY <1>2, <2>1, <2>2, <2>3, <2>4, NothingFits
            DEF SessionOK, SessionFits, AboutProject, HasSpv, HasRow, SpvLabels
  <1> QED BY <1>12, <1>13 DEF Init, RowsInv

LEMMA SeriesOnlyAdded ==
    ASSUME OneEach, series' = series \/ \E e : series' = Append(series, e)
    PROVE  \A p : SeriesOf(p) \subseteq SeriesOf(p)'
  <1>1. CASE series' = series
    BY <1>1 DEF SeriesOf
  <1>2. ASSUME NEW e, series' = Append(series, e) PROVE \A p : SeriesOf(p) \subseteq SeriesOf(p)'
    <2>1. PICK S : series \in Seq(S)
      BY DEF OneEach
    <2>2. series \in Seq(S \cup {e})
      BY <2>1, SeqDef
    <2>3. /\ series' \in Seq(S \cup {e}) /\ Len(series') = Len(series) + 1
          /\ \A k \in 1..Len(series) : series'[k] = series[k]
      BY <1>2, <2>2, AppendProperties
    <2> QED BY <2>3, SeriesIndices, LenProperties DEF SeriesOf
  <1> QED BY <1>1, <1>2

LEMMA SpvStepsKeepRows ==
    ASSUME RowsInv, SeriesInv, NEW s \in Sessions, SpvStep(s), issue' = issue
    PROVE  RowsInv'
  <1>1. ControlInv /\ OneEach
    BY DEF SeriesInv
  <1>2. Alone(s)
    BY <1>1, SpvStepsAside, AttemptsKeepSeries DEF Aside
  <1>3. CASE \/ LoadProject(s) \/ FindSpv(s) \/ FindRoles(s) \/ LoadProjectLate(s) \/ Suggest(s)
             \/ UpdateProject(s) \/ LinkFind(s) \/ FindLinks(s) \/ SponsorLoad(s)
             \/ Gate(s) \/ GateSpv(s) \/ NextNumber(s) \/ Duplicate(s) \/ GiveUp(s)
    BY <1>1, <1>2, <1>3, ReadsKeepRows
  <1>4. CASE UpdateCheck(s) \/ GateRoles(s)
    BY <1>1, <1>2, <1>4, ChecksKeepRows
  <1>5. CASE SaveSpv(s) \/ UpdateSave(s) \/ LinkSpvSave(s) \/ SponsorSpv(s) \/ GateSave(s)
    BY <1>1, <1>2, <1>5, SpvSavesKeepRows
  <1>6. CASE LinkProject(s) \/ LinkSave(s) \/ SponsorSave(s)
    BY <1>1, <1>2, <1>6, RowSavesKeepRows
  <1>7. CASE InsertDefault(s) \/ InsertSuggested(s) \/ InsertRole(s)
    BY <1>1, <1>2, <1>7, LinkInsertsKeepRows
  <1>8. CASE Unprimary(s) \/ RejectSave(s)
    BY <1>1, <1>2, <1>8, LinkSavesKeepRows
  <1>9. CASE FindSeries(s) \/ InsertSeries(s)
    <2>1. series' = series \/ \E e : series' = Append(series, e)
      BY <1>9 DEF FindSeries, InsertSeries
    <2>2. OneEach'
      BY <1>9, AttemptsKeepSeries DEF FindSeries, OneEach, SeriesInv
    <2> QED BY <1>1, <1>2, <1>9, <2>1, <2>2, SeriesOnlyAdded, SeriesKeepRows
  <1> QED BY <1>3, <1>4, <1>5, <1>6, <1>7, <1>8, <1>9 DEF SpvStep

LEMMA RowsStep == SeriesInv /\ RequestsInv /\ RowsInv /\ [Next]_prepVars => RowsInv'
  <1> SUFFICES ASSUME SeriesInv, RequestsInv, RowsInv, [Next]_prepVars PROVE RowsInv'
    OBVIOUS
  <1>0. ControlInv
    BY DEF SeriesInv
  <1>1. CASE UNCHANGED prepVars
    <2>1. UNCHANGED <<tableVars, at, held, draft, issue>>
      BY <1>1 DEF prepVars, rowVars, spvVars, tableVars
    <2>2. ClearedSpvs' = ClearedSpvs /\ WithSeries' = WithSeries /\ Names' = Names
      BY <2>1 DEF tableVars, ClearedSpvs, LinksFor, LinksOf, WithSeries, SeriesOf, Names
    <2>3. TablesOK'
      BY <2>1, <2>2 DEF RowsInv, TablesOK, tableVars
    <2>4. \A s \in Sessions : SessionOK(s)'
      BY <2>1, <2>2 DEF RowsInv, SessionOK, tableVars
    <2> QED BY <2>1, <2>3, <2>4 DEF RowsInv
  <1>2. ASSUME NEW s \in Sessions, SpvStep(s), issue' = issue PROVE RowsInv'
    BY <1>2, SpvStepsKeepRows
  <1>3. ASSUME NEW s \in Sessions, \/ SpvCall(s) /\ issue' = issue
                                   \/ (\E p \in Projects : Issue(s, p)) \/ IssueGate(s) \/ IssueSave(s)
        PROVE  RowsInv'
    BY <1>0, <1>3, CallsAside, CallsKeepRows DEF Aside
  <1>4. ASSUME NEW s \in Sessions, CustodyCall(s) \/ CustodyStep(s), UNCHANGED <<spvVars, issue>>
        PROVE  RowsInv'
    BY <1>0, <1>4, CustodyAside, CustodyKeepsRows DEF Aside
  <1> QED BY <1>1, <1>2, <1>3, <1>4 DEF Next, Step

LEMMA RowsInvariant == Spec => []RowsInv
  BY RowsInit, RowsStep, SeriesInvariant, RequestsInvariant, PTL DEF Spec

\* No order of the saves of a project row, however old the rows they save, leaves a
\* blocked project whose custody setup shows as complete.
THEOREM BlockedStaysOpen == Spec => []BlockedIsOpen
  <1>1. RowsInv => BlockedIsOpen
    BY DEF RowsInv, TablesOK, RowFits, BlockedIsOpen
  <1> QED BY <1>1, RowsInvariant, PTL

\* An SPV that says ready has had each of its roles approved, though its status is
\* written by six handlers that read it some awaits before.
THEOREM ReadySpvWasApproved == Spec => []ReadyWasApproved
  <1>1. RowsInv => ReadyWasApproved
    BY DEF RowsInv, TablesOK, ClearedSpvs, ReadyWasApproved
  <1> QED BY <1>1, RowsInvariant, PTL

\* A project is locked by issueProject only with a series, and once some SPV had all its
\* roles approved, whatever the other calls save between its checks and its save.
THEOREM LockedProjectWasReady == Spec => []LockedWasReady
  <1>1. RowsInv => LockedWasReady
    <2> SUFFICES ASSUME RowsInv, NEW p \in Projects, project[p].locked
                 PROVE  /\ SeriesOf(p) # {}
                        /\ \E i \in DOMAIN spvs : \A r \in Roles : LinksFor(i, r) \cap approvals # {}
      BY DEF LockedWasReady
    <2>1. p \in WithSeries /\ ClearedSpvs # {}
      BY DEF RowsInv, TablesOK, RowFits
    <2> QED BY <2>1 DEF WithSeries, ClearedSpvs
  <1> QED BY <1>1, RowsInvariant, PTL

-----------------------------------------------------------------------------
(***************************************************************************)
(* The roles that stay assigned.  Only five steps write a role row, each   *)
(* one of one SPV and role, which it names before and after: the others    *)
(* keep their rows, and the one that moves is assigned, rejected, or being *)
(* replaced afterwards.                                                    *)
(***************************************************************************)
Linking(s, i, r) == at[s] = "unprimary" /\ draft[s].spv = i /\ draft[s].role = r

KeptRole(i, r) ==
    \/ LinksFor(i, r) = {} \/ Assigned(i, r)
    \/ LinksFor(i, r) \cap rejections # {}
    \/ \E s \in Sessions : Linking(s, i, r)

RolesKept == \A i, r : KeptRole(i, r)

\* The rows for r of the SPV i are as they were.
SameLinks(i, r) ==
    /\ LinksFor(i, r)' = LinksFor(i, r)
    /\ \A k \in LinksFor(i, r) : roles'[k] = roles[k]

LEMMA KeptElsewhere ==
    ASSUME RolesKept, NEW s \in Sessions, Alone(s), rejections \subseteq rejections', NEW i, NEW r,
           SameLinks(i, r), ~Linking(s, i, r) \/ Linking(s, i, r)'
    PROVE  KeptRole(i, r)'
  <1>1. CASE LinksFor(i, r) = {} \/ LinksFor(i, r) \cap rejections # {}
    BY <1>1 DEF KeptRole, SameLinks
  <1>2. CASE Assigned(i, r)
    BY <1>2 DEF KeptRole, SameLinks, Assigned
  <1>3. ASSUME NEW q \in Sessions, Linking(q, i, r) PROVE KeptRole(i, r)'
    BY <1>3 DEF KeptRole, Linking, Alone
  <1> QED BY <1>1, <1>2, <1>3 DEF RolesKept, KeptRole

\* A step that writes no role row, of a session that replaces none.
LEMMA NoLinkWritten ==
    ASSUME RolesKept, NEW s \in Sessions, Alone(s), UNCHANGED <<roles, rejections>>, at[s] # "unprimary"
    PROVE  RolesKept'
  <1>1. \A i, r : SameLinks(i, r) /\ ~Linking(s, i, r)
    BY DEF SameLinks, LinksFor, LinksOf, Linking
  <1> QED BY <1>1, KeptElsewhere DEF RolesKept

\* A row is added for the role t of the SPV j.
LEMMA LinkWasAdded ==
    ASSUME RowsInv, RolesKept, NEW s \in Sessions, Alone(s), UNCHANGED rejections,
           NEW j, NEW t, NEW status \in {"suggested", "approved"}, InsertLink(j, t, status),
           at[s] = "unprimary" => draft[s].spv = j /\ draft[s].role = t
    PROVE  RolesKept'
  <1> DEFINE l == [spv |-> j, role |-> t, status |-> status, primary |-> TRUE]
  <1>1. /\ DOMAIN roles = 1..Len(roles) /\ Len(roles) \in Nat
        /\ DOMAIN roles' = 1..(Len(roles) + 1)
        /\ \A k \in DOMAIN roles : roles'[k] = roles[k]
        /\ roles'[Len(roles) + 1] = l
    <2>1. roles \in Seq(LinkRows(Len(spvs)) \cup {l})
      BY SeqDef DEF RowsInv, TablesOK
    <2> HIDE DEF l
    <2>2. roles' = Append(roles, l)
      BY DEF InsertLink, l
    <2> QED BY <2>1, <2>2, AppendProperties, LenProperties
  <1>2. ASSUME NEW i, NEW r, <<i, r>> # <<j, t>> PROVE KeptRole(i, r)'
    <2>1. i # j \/ r # t
      BY <1>2
    <2>2. LinksFor(i, r)' = LinksFor(i, r)
      BY <1>1, <2>1 DEF LinksFor, LinksOf
    <2>3. SameLinks(i, r)
      BY <1>1, <2>2 DEF SameLinks, LinksFor, LinksOf
    <2>4. ~Linking(s, i, r)
      BY <2>1 DEF Linking
    <2> QED BY <2>3, <2>4, KeptElsewhere
  <1>3. KeptRole(j, t)'
    <2>1. Len(roles) + 1 \in LinksFor(j, t)' /\ Counts(l)
      BY <1>1 DEF LinksFor, LinksOf, Counts
    <2>2. Assigned(j, t)'
      BY <1>1, <2>1 DEF Assigned, Counts
    <2> QED BY <2>2 DEF KeptRole
  <1> QED BY <1>2, <1>3 DEF RolesKept

\* A row for the role t of the SPV j is written over.
LEMMA LinkWasSaved ==
    ASSUME RowsInv, RolesKept, NEW s \in Sessions, Alone(s), rejections \subseteq rejections',
           NEW k \in DOMAIN roles, NEW l, roles' = [roles EXCEPT ![k] = l],
           NEW j, NEW t, roles[k].spv = j, roles[k].role = t, l.spv = j, l.role = t,
           at[s] = "unprimary" => draft[s].spv = j /\ draft[s].role = t,
           k \in rejections' \/ Linking(s, j, t)'
    PROVE  RolesKept'
  <1>1. /\ DOMAIN roles' = DOMAIN roles
        /\ \A m \in DOMAIN roles : roles'[m] = IF m = k THEN l ELSE roles[m]
    <2>1. DOMAIN roles = 1..Len(roles) /\ roles \in Seq(LinkRows(Len(spvs)))
      BY TablesRead DEF RowsInv, TablesOK
    <2>2. roles = [m \in DOMAIN roles |-> roles[m]]
      BY <2>1, SeqDef
    <2> QED BY <2>2
  <1>2. \A i, r : LinksFor(i, r)' = LinksFor(i, r)
    BY <1>1 DEF LinksFor, LinksOf
  <1>3. ASSUME NEW i, NEW r, <<i, r>> # <<j, t>> PROVE KeptRole(i, r)'
    <2>1. i # j \/ r # t
      BY <1>3
    <2>2. k \notin LinksFor(i, r) /\ ~Linking(s, i, r)
      BY <2>1 DEF LinksFor, LinksOf, Linking
    <2>3. SameLinks(i, r)
      BY <1>1, <1>2, <2>2 DEF SameLinks, LinksFor, LinksOf
    <2> QED BY <2>2, <2>3, KeptElsewhere
  <1>4. KeptRole(j, t)'
    <2>1. k \in LinksFor(j, t)'
      BY <1>2 DEF LinksFor, LinksOf
    <2> QED BY <2>1 DEF KeptRole
  <1> QED BY <1>3, <1>4 DEF RolesKept

LEMMA LinkStepsKeepRoles ==
    ASSUME RowsInv, ControlInv, RolesKept, NEW s \in Sessions, Alone(s),
           \/ InsertDefault(s) \/ InsertSuggested(s) \/ InsertRole(s)
           \/ Unprimary(s) \/ RejectSave(s)
    PROVE  RolesKept'
  <1>0. /\ DOMAIN at = Sessions /\ DOMAIN draft = Sessions /\ Shaped(at[s], draft[s])
        /\ SessionFits(Len(spvs), ClearedSpvs, WithSeries, Names, approvals, at[s], held[s], draft[s], issue[s])
    BY DEF ControlInv, RowsInv, SessionOK
  <1>1. ASSUME NEW l \in draft[s].links
        PROVE  /\ l[1] \in DOMAIN roles /\ l[2] \in LinkRows(Len(spvs))
               /\ roles[l[1]].spv = l[2].spv /\ roles[l[1]].role = l[2].role
               /\ at[s] = "unprimary" => l[2].spv = draft[s].spv /\ l[2].role = draft[s].role
    <2>1. LinkFits(Len(spvs), Names, approvals, l)
      BY <1>0 DEF SessionFits
    <2>2. l[1] \in DOMAIN roles /\ Names[l[1]] = <<roles[l[1]].spv, roles[l[1]].role>>
      BY <2>1 DEF LinkFits, Names
    <2>3. at[s] = "unprimary" => Names[l[1]] = <<draft[s].spv, draft[s].role>>
      BY <1>0 DEF SessionFits
    <2> QED BY <2>1, <2>2, <2>3 DEF LinkFits
  <1>2. CASE InsertDefault(s)
    <2>1. /\ at[s] # "unprimary" /\ UNCHANGED rejections
          /\ roles' = roles \/ InsertLink(draft[s].spv, CHOOSE r \in draft[s].todo : TRUE, "suggested")
      BY <1>2 DEF InsertDefault
    <2> QED BY <2>1, NoLinkWritten, LinkWasAdded
  <1>3. CASE InsertSuggested(s)
    <2>1. /\ at[s] # "unprimary" /\ UNCHANGED rejections
          /\ \/ roles' = roles \/ InsertLink(draft[s].spv, Sponsor, "suggested")
             \/ InsertLink(draft[s].spv, CHOOSE r \in draft[s].todo : TRUE, "suggested")
      BY <1>3 DEF InsertSuggested
    <2> QED BY <2>1, NoLinkWritten, LinkWasAdded
  <1>4. CASE InsertRole(s)
    BY <1>4, LinkWasAdded DEF InsertRole
  <1>5. CASE Unprimary(s)
    <2>1. PICK l \in draft[s].links :
            /\ roles' = [roles EXCEPT ![l[1]] = [l[2] EXCEPT !.primary = FALSE]]
            /\ draft' = [draft EXCEPT ![s] = [draft[s] EXCEPT !.links = draft[s].links \ {l}]]
      BY <1>5 DEF Unprimary, Write
    <2>2. at[s] = "unprimary" /\ at' = at /\ rejections' = rejections
      BY <1>5 DEF Unprimary
    <2> DEFINE w == [l[2] EXCEPT !.primary = FALSE]
    <2>3. w.spv = draft[s].spv /\ w.role = draft[s].role
      BY <1>1, <2>2 DEF LinkRows
    <2>4. /\ l[1] \in DOMAIN roles
          /\ roles[l[1]].spv = draft[s].spv /\ roles[l[1]].role = draft[s].role
      BY <1>1, <2>2
    <2>5. draft'[s].spv = draft[s].spv /\ draft'[s].role = draft[s].role
      BY <1>0, <2>1 DEF Shaped
    <2> DEFINE k == l[1]
    <2> PICK j, t : j = draft[s].spv /\ t = draft[s].role
      OBVIOUS
    <2>6. /\ roles' = [roles EXCEPT ![k] = w] /\ k \in DOMAIN roles
          /\ roles[k].spv = j /\ roles[k].role = t /\ w.spv = j /\ w.role = t
          /\ Linking(s, j, t)' /\ rejections \subseteq rejections'
          /\ at[s] = "unprimary" => draft[s].spv = j /\ draft[s].role = t
      BY <2>1, <2>2, <2>3, <2>4, <2>5 DEF Linking
    <2>7. k \in rejections' \/ Linking(s, j, t)'
      BY <2>6
    <2> HIDE DEF w, k
    <2> QED BY <2>6, <2>7, LinkWasSaved
  <1>6. CASE RejectSave(s)
    <2>1. PICK l \in draft[s].links :
            /\ roles' = [roles EXCEPT ![l[1]] = [l[2] EXCEPT !.status = "rejected", !.primary = FALSE]]
            /\ rejections' = rejections \cup {l[1]}
      BY <1>6 DEF RejectSave
    <2>2. at[s] # "unprimary"
      BY <1>6 DEF RejectSave
    <2> DEFINE w == [l[2] EXCEPT !.status = "rejected", !.primary = FALSE]
    <2>3. w.spv = l[2].spv /\ w.role = l[2].role
      BY <1>1 DEF LinkRows
    <2>4. l[1] \in DOMAIN roles /\ roles[l[1]].spv = l[2].spv /\ roles[l[1]].role = l[2].role
      BY <1>1
    <2> DEFINE k == l[1]
               j == l[2].spv
               t == l[2].role
    <2>5. /\ roles' = [roles EXCEPT ![k] = w] /\ k \in DOMAIN roles
          /\ roles[k].spv = j /\ roles[k].role = t /\ w.spv = j /\ w.role = t
          /\ rejections \subseteq rejections'
          /\ at[s] = "unprimary" => draft[s].spv = j /\ draft[s].role = t
      BY <2>1, <2>2, <2>3, <2>4
    <2>6. k \in rejections' \/ Linking(s, j, t)'
      BY <2>1
    <2> HIDE DEF w, k, j, t
    <2> QED BY <2>5, <2>6, LinkWasSaved
  <1> QED BY <1>2, <1>3, <1>4, <1>5, <1>6

\* Every step but those five.
LEMMA OtherStepsKeepRoles ==
    ASSUME NEW s \in Sessions,
           \/ SpvStep(s) /\ ~(\/ InsertDefault(s) \/ InsertSuggested(s) \/ InsertRole(s)
                              \/ Unprimary(s) \/ RejectSave(s))
           \/ SpvCall(s) \/ (\E p \in Projects : Issue(s, p)) \/ IssueGate(s) \/ IssueSave(s)
    PROVE  UNCHANGED <<roles, rejections>> /\ at[s] # "unprimary"
  <1> USE DEF Call, Begin, spvVars
  <1>1. CASE SpvCall(s) \/ (\E p \in Projects : Issue(s, p)) \/ IssueGate(s) \/ IssueSave(s)
    BY <1>1 DEF SpvCall, Prepare, CreateSpv, CreateSeries, LinkSpv, UpdateSpv, Upsert, Reject, Issue,
                IssueGate, IssueSave
  <1>2. CASE \/ LoadProject(s) \/ FindSpv(s) \/ SaveSpv(s) \/ FindRoles(s)
             \/ LoadProjectLate(s) \/ LinkProject(s) \/ Suggest(s)
             \/ UpdateProject(s) \/ UpdateCheck(s) \/ UpdateSave(s)
             \/ LinkSave(s) \/ LinkFind(s) \/ LinkSpvSave(s) \/ FindLinks(s)
    BY <1>2 DEF LoadProject, FindSpv, SaveSpv, FindRoles, LoadProjectLate, LinkProject, Suggest,
                UpdateProject, UpdateCheck, UpdateSave, LinkSave, LinkFind, LinkSpvSave, FindLinks
  <1>3. CASE \/ SponsorSpv(s) \/ SponsorLoad(s) \/ SponsorSave(s)
             \/ Gate(s) \/ GateSpv(s) \/ GateRoles(s) \/ GateSave(s)
             \/ FindSeries(s) \/ NextNumber(s) \/ InsertSeries(s) \/ Duplicate(s) \/ GiveUp(s)
    BY <1>3 DEF SponsorSpv, SponsorLoad, SponsorSave, Gate, GateSpv, GateRoles, GateSave, FindSeries,
                NextNumber, InsertSeries, Duplicate, GiveUp
  <1> QED BY <1>1, <1>2, <1>3 DEF SpvStep

LEMMA RolesStep == SeriesInv /\ RowsInv /\ RolesKept /\ [Next]_prepVars => RolesKept'
  <1> SUFFICES ASSUME SeriesInv, RowsInv, RolesKept, [Next]_prepVars PROVE RolesKept'
    OBVIOUS
  <1>0. ControlInv
    BY DEF SeriesInv
  <1>1. CASE UNCHANGED prepVars
    BY <1>1 DEF prepVars, rowVars, spvVars, RolesKept, KeptRole, LinksFor, LinksOf, Assigned, Counts, Linking
  <1>2. ASSUME NEW s \in Sessions, SpvStep(s) PROVE RolesKept'
    <2>1. Alone(s)
      BY <1>0, <1>2, SpvStepsAside, AttemptsKeepSeries DEF Aside
    <2> QED BY <1>0, <1>2, <2>1, OtherStepsKeepRoles, LinkStepsKeepRoles, NoLinkWritten
  <1>3. ASSUME NEW s \in Sessions,
               SpvCall(s) \/ (\E p \in Projects : Issue(s, p)) \/ IssueGate(s) \/ IssueSave(s)
        PROVE  RolesKept'
    <2>1. Alone(s)
      BY <1>0, <1>3, CallsAside DEF Aside
    <2> QED BY <1>3, <2>1, OtherStepsKeepRoles, NoLinkWritten
  <1>4. ASSUME NEW s \in Sessions, CustodyCall(s) \/ CustodyStep(s), UNCHANGED spvVars PROVE RolesKept'
    <2>1. Alone(s) /\ at[s] \in CustodyLabels \cup {"idle"}
      BY <1>0, <1>4, CustodyAside DEF Aside
    <2> QED BY <1>4, <2>1, NoLinkWritten DEF spvVars, CustodyLabels
  <1> QED BY <1>1, <1>2, <1>3, <1>4 DEF Next, Step

LEMMA RolesInit == Init => RolesKept
  <1> SUFFICES ASSUME Init PROVE RolesKept
    OBVIOUS
  <1>1. PICK p \in Projects, issued \in BOOLEAN : SpvInit(p, issued)
    BY DEF Init
  <1> DEFINE status == IF issued THEN "approved" ELSE "suggested"
             M == 1..Cardinality(Roles)
  <1>2. roles \in [M -> [spv : {1}, role : Roles, status : {status}, primary : {TRUE}]]
    <2>1. roles \in Defaults(status)
      BY <1>1 DEF SpvInit
    <2> QED BY <2>1 DEF Defaults
  <1>3. \A k \in DOMAIN roles : roles[k].primary /\ roles[k].status = status /\ status # "rejected"
    <2> HIDE DEF M
    <2> QED BY <1>2
  <1>4. \A i, r : \A k \in LinksFor(i, r) : Counts(roles[k])
    BY <1>3 DEF LinksFor, LinksOf, Counts
  <1> QED BY <1>4 DEF RolesKept, KeptRole, Assigned

\* Marking the old links of a role and inserting its new one are saves of their own;
\* whatever calls run between them, a role loses its assignment only to a rejection or
\* while such a call is under way: upsertSpvRole and rejectSpvRole.
THEOREM RolesStayAssigned == Spec => []RoleStaysAssigned
  <1>1. RolesKept => RoleStaysAssigned
    BY DEF RolesKept, KeptRole, Linking, RoleStaysAssigned
  <1>2. Spec => []RolesKept
    BY RolesInit, RolesStep, SeriesInvariant, RowsInvariant, PTL DEF Spec
  <1> QED BY <1>1, <1>2, PTL

-----------------------------------------------------------------------------
(***************************************************************************)
(* The types.  RowsInv and RequestsInv say what rows look like where they  *)
(* matter; what is left is that every draft is one wherever its call has   *)
(* got to, and that the attempts at a symbol stay within their bound.      *)
(***************************************************************************)
TriesOK(s) ==
    /\ draft[s].tries <= MaxTries
    /\ at[s] \in {"number", "insertSeries"} => draft[s].tries < MaxTries

TriesInv == \A s \in Sessions : TriesOK(s)

\* The steps that make no attempt keep the bound, as nothing has been tried before.
LEMMA AsideKeepsTries ==
    ASSUME SeriesInv, TriesInv, NEW s \in Sessions, NEW L, Aside(s, L),
           at[s] \notin Attempting, at[s] = "issueSave" => draft'[s].tries = 0
    PROVE  TriesInv'
  <1>1. draft'[s].tries = 0
    BY DEF SeriesInv, AttemptOK, Aside
  <1>2. TriesOK(s)'
    BY <1>1, SeriesAssumption DEF TriesOK
  <1> QED BY <1>2 DEF TriesInv, TriesOK, Aside, Alone

\* The attempts: only a duplicate counts one, and goes on only within the bound.
LEMMA AttemptsKeepTries ==
    ASSUME SeriesInv, TriesInv, NEW s \in Sessions,
           NextNumber(s) \/ InsertSeries(s) \/ Duplicate(s) \/ GiveUp(s)
    PROVE  TriesInv'
  <1>0. /\ DOMAIN at = Sessions /\ DOMAIN draft = Sessions /\ "tries" \in DOMAIN draft[s]
        /\ draft[s].tries \in Nat /\ draft[s].back \in {"idle", "issueSave"} /\ TriesOK(s) /\ Alone(s)
    BY AttemptsKeepSeries DEF SeriesInv, ControlInv, Shaped, AttemptOK, TriesInv
  <1>1. SUFFICES TriesOK(s)'
    BY <1>0 DEF TriesInv, TriesOK, Alone
  <1>2. CASE NextNumber(s)
    BY <1>0, <1>2 DEF NextNumber, Write, Goto, TriesOK
  <1>3. CASE InsertSeries(s) \/ GiveUp(s)
    <2>1. CASE Finish(s)
      BY <2>1, FinishAside, SeriesAssumption DEF SeriesInv, TriesOK
    <2>2. CASE at[s] = "insertSeries" /\ Goto(s, "issueSave") /\ Write(s, draft[s])
      BY <1>0, <2>2 DEF Goto, Write, TriesOK
    <2> QED BY <1>0, <1>3, <2>1, <2>2 DEF InsertSeries, GiveUp, Continue
  <1>4. CASE Duplicate(s)
    <2>1. draft'[s].tries = draft[s].tries + 1 /\ at[s] = "insertSeries"
      BY <1>0, <1>4 DEF Duplicate, Write
    <2>2. at'[s] = IF draft[s].tries + 1 < MaxTries THEN "number" ELSE "gaveUp"
      BY <1>0, <1>4 DEF Duplicate, Goto
    <2> QED BY <1>0, <2>1, <2>2, SeriesAssumption DEF TriesOK
  <1> QED BY <1>2, <1>3, <1>4

\* Every step keeps the counted attempts of a creation.
LEMMA TriesStep == SeriesInv /\ TriesInv /\ [Next]_prepVars => TriesInv'
  <1> SUFFICES ASSUME SeriesInv, TriesInv, [Next]_prepVars PROVE TriesInv'
    OBVIOUS
  <1>1. CASE UNCHANGED prepVars
    BY <1>1 DEF prepVars, rowVars, spvVars, TriesInv, TriesOK
  <1>2. ASSUME NEW s \in Sessions, SpvStep(s) PROVE TriesInv'
    BY <1>2, SpvStepsAside, AsideKeepsTries, AttemptsKeepTries DEF SeriesInv
  <1>3. ASSUME NEW s \in Sessions,
               SpvCall(s) \/ (\E p \in Projects : Issue(s, p)) \/ IssueGate(s) \/ IssueSave(s)
        PROVE  TriesInv'
    BY <1>3, CallsAside, AsideKeepsTries DEF SeriesInv, Attempting
  <1>4. ASSUME NEW s \in Sessions, CustodyCall(s) \/ CustodyStep(s), UNCHANGED spvVars PROVE TriesInv'
    <2>1. Aside(s, CustodyLabels \cup {"idle"}) /\ at[s] \in CustodyLabels \cup {"idle"}
      BY <1>4, CustodyAside DEF SeriesInv
    <2> QED BY <2>1, AsideKeepsTries DEF Attempting, CustodyLabels
  <1> QED BY <1>1, <1>2, <1>3, <1>4 DEF Next, Step

HeldRows == [p : Projects \cup {NoProject}, row : Rows]

ShapeInv ==
    /\ project \in [Projects -> Rows] /\ held \in [Sessions -> HeldRows] /\ calls \in 0..MaxCalls
    /\ series \in Seq(Series) /\ draft \in [Sessions -> Drafts] /\ issue \in [Sessions -> Rows]
    /\ TriesInv

\* What a session holds before it has loaded anything has the shape of a draft.
LEMMA BlankIsADraft ==
    Blank \in Drafts /\ Nothing \in HeldRows /\ Nothing.row \in Rows
  <1>1. Blank.row \in Spvs
    BY DEF Blank, Spvs
  <1>2. Blank \in Drafts
    BY <1>1, SeriesAssumption DEF Blank, Drafts
  <1> QED BY <1>2, FirstIsAMode DEF Nothing, NewRow, Rows, HeldRows

\* What the parts of the handlers do to the types.
LEMMA PartsKeepShape ==
    ASSUME ShapeInv, NEW s \in Sessions
    PROVE  /\ \A p \in Projects : LoadRow(s, p) => held' \in [Sessions -> HeldRows]
           /\ Forget(s) => held' \in [Sessions -> HeldRows]
           /\ Return(s) => held' \in [Sessions -> HeldRows]
           /\ \A r \in Rows : SaveRow(s, r) => project' \in [Projects -> Rows]
           /\ \A d \in Drafts : Write(s, d) => draft' \in [Sessions -> Drafts]
           /\ Finish(s) => held' \in [Sessions -> HeldRows] /\ draft' \in [Sessions -> Drafts]
           /\ \A d \in Drafts : \A l : Continue(s, l, d) =>
                held' \in [Sessions -> HeldRows] /\ draft' \in [Sessions -> Drafts]
  <1>1. \A p \in Projects : LoadRow(s, p) => held' \in [Sessions -> HeldRows]
    BY DEF LoadRow, ShapeInv, HeldRows
  <1>2. Forget(s) => held' \in [Sessions -> HeldRows]
    BY BlankIsADraft DEF Forget, ShapeInv, HeldRows
  <1>3. Return(s) => held' \in [Sessions -> HeldRows]
    BY BlankIsADraft DEF Return, ShapeInv
  <1>4. \A r \in Rows : SaveRow(s, r) => project' \in [Projects -> Rows]
    BY DEF SaveRow, ShapeInv
  <1>5. \A d \in Drafts : Write(s, d) => draft' \in [Sessions -> Drafts]
    BY DEF Write, ShapeInv
  <1>6. Finish(s) => held' \in [Sessions -> HeldRows] /\ draft' \in [Sessions -> Drafts]
    BY <1>3, <1>5, BlankIsADraft DEF Finish
  <1>7. \A d \in Drafts : \A l : Continue(s, l, d) =>
                held' \in [Sessions -> HeldRows] /\ draft' \in [Sessions -> Drafts]
    BY <1>2, <1>5, <1>6 DEF Continue
  <1> QED BY <1>1, <1>2, <1>3, <1>4, <1>5, <1>6, <1>7

\* What the invariants say about the rows a session may write.
LEMMA RowsAreTyped ==
    ASSUME RowsInv, SeriesInv, NEW s \in Sessions
    PROVE  /\ Len(spvs) \in Nat /\ DOMAIN spvs = 1..Len(spvs)
           /\ \A i \in DOMAIN spvs : spvs[i] \in Spvs /\ spvs[i].project \in Projects
           /\ \A k \in DOMAIN roles : k \in Nat /\ roles[k] \in Links /\ roles[k].spv \in DOMAIN spvs
           /\ \A k \in DOMAIN series : series[k].spv \in Nat
           /\ Highest \in Nat
           /\ issue[s] \in Rows
           /\ draft[s].spv \in 0..Len(spvs)
           /\ at[s] \in AboutProject => held[s].p \in Projects
           /\ at[s] \in HasSpv => draft[s].spv \in DOMAIN spvs
           /\ at[s] = "sponsorLoad" => draft[s].row.project \in Projects
           /\ at[s] = "gateSpv" /\ held[s].row.spv # 0 => held[s].row.spv \in DOMAIN spvs
  <1>1. TablesOK /\ SessionOK(s) /\ OneEach
    BY DEF RowsInv, SeriesInv
  <1>2. /\ Len(spvs) \in Nat /\ DOMAIN spvs = 1..Len(spvs)
        /\ Len(roles) \in Nat /\ DOMAIN roles = 1..Len(roles)
        /\ \A i \in DOMAIN spvs : spvs[i] \in SpvRows
        /\ \A k \in DOMAIN roles : roles[k] \in LinkRows(Len(spvs))
    BY <1>1, TablesRead DEF SpvFits
  <1>3. \A i \in DOMAIN spvs : spvs[i] \in Spvs /\ spvs[i].project \in Projects
    BY <1>2 DEF SpvRows, Spvs
  <1>4. \A k \in DOMAIN roles : k \in Nat /\ roles[k] \in Links /\ roles[k].spv \in DOMAIN spvs
    BY <1>2 DEF LinkRows, Links
  <1>5. Highest \in Nat
    BY <1>1, NumbersAreIndices, SeriesIndices
  <1>6. held[s].row \in RowShapes(Len(spvs)) /\ issue[s] \in RowShapes(Len(spvs))
    BY <1>1 DEF SessionOK, SessionFits, RowFits
  <1>7. issue[s] \in Rows /\ held[s].row.spv \in 0..Len(spvs)
    BY <1>2, <1>6 DEF RowShapes, Rows
  <1>8. \A k \in DOMAIN series : series[k].spv \in Nat
    BY <1>1, <1>2 DEF TablesOK
  <1>9. /\ draft[s].spv \in 0..Len(spvs)
        /\ at[s] \in AboutProject => held[s].p \in Projects
        /\ at[s] \in HasSpv => draft[s].spv # 0
        /\ at[s] \in HasRow => draft[s].row \in SpvRows
    BY <1>1 DEF SessionOK, SessionFits, SpvFits
  <1>10. at[s] = "sponsorLoad" => draft[s].row.project \in Projects
    BY <1>9 DEF HasRow, SpvRows
  <1> QED BY <1>2, <1>3, <1>4, <1>5, <1>7, <1>8, <1>9, <1>10

\* Each step of a handler of SpvSeries leaves a draft.
LEMMA SpvStepsKeepShape ==
    ASSUME ShapeInv, RowsInv, SeriesInv, NEW s \in Sessions, SpvStep(s), issue' = issue, TriesInv'
    PROVE  ShapeInv'
  <1> DEFINE d == draft[s]
             T == /\ project' \in [Projects -> Rows] /\ held' \in [Sessions -> HeldRows]
                  /\ calls' \in 0..MaxCalls /\ series' \in Seq(Series) /\ draft' \in [Sessions -> Drafts]
  <1>1. SUFFICES T
    BY DEF ShapeInv
  <1> USE DEF spvVars, Goto
  <1>0. /\ project \in [Projects -> Rows] /\ held \in [Sessions -> HeldRows] /\ calls \in 0..MaxCalls
        /\ series \in Seq(Series) /\ draft \in [Sessions -> Drafts]
        /\ d \in Drafts /\ held[s] \in HeldRows /\ held[s].row \in Rows
    BY DEF ShapeInv, HeldRows
  <1>2. CASE LoadProject(s) \/ LoadProjectLate(s) \/ UpdateProject(s) \/ Gate(s)
    <2>1. at[s] \in AboutProject
      BY <1>2 DEF LoadProject, LoadProjectLate, UpdateProject, Gate, AboutProject, SpvLabels
    <2> QED BY <1>0, <1>2, <2>1, RowsAreTyped, PartsKeepShape
            DEF LoadProject, LoadProjectLate, UpdateProject, Gate
  <1>3. CASE FindSpv(s)
    <2>1. [d EXCEPT !.spv = 0] \in Drafts
      BY <1>0 DEF Drafts
    <2>2. FoundSpvs(s) \subseteq DOMAIN spvs
      <3>1. held[s].row.spv \in 0..Len(spvs)
        BY DEF RowsInv, SessionOK, SessionFits, RowFits, RowShapes
      <3> QED BY <3>1, RowsAreTyped DEF FoundSpvs
    <2>3. ASSUME NEW i \in FoundSpvs(s) PROVE [d EXCEPT !.spv = i, !.row = spvs[i]] \in Drafts
      <3>1. i \in Nat /\ spvs[i] \in Spvs
        BY <2>2, RowsAreTyped
      <3> QED BY <1>0, <3>1 DEF Drafts
    <2> QED BY <1>0, <1>3, <2>1, <2>3, PartsKeepShape DEF FindSpv
  <1>4. CASE SaveSpv(s)
    <2> DEFINE new == [project |-> held[s].p, ready |-> FALSE]
    <2>1. [d EXCEPT !.spv = Len(spvs) + 1, !.row = new] \in Drafts
      <3>1. new \in Spvs /\ Len(spvs) + 1 \in Nat
        BY <1>0, RowsAreTyped DEF HeldRows, Spvs
      <3> HIDE DEF new
      <3> QED BY <1>0, <3>1 DEF Drafts
    <2> QED BY <1>0, <1>4, <2>1, PartsKeepShape DEF SaveSpv
  <1>5. CASE FindRoles(s)
    <2>1. [d EXCEPT !.todo = {r \in Roles : LinksFor(d.spv, r) = {}}] \in Drafts
      BY <1>0 DEF Drafts
    <2> QED BY <1>0, <1>5, <2>1, PartsKeepShape DEF FindRoles
  <1>6. CASE InsertDefault(s)
    <2>1. \A r : [d EXCEPT !.todo = @ \ {r}] \in Drafts
      BY <1>0 DEF Drafts
    <2> QED BY <1>0, <1>6, <2>1, PartsKeepShape DEF InsertDefault
  <1>7. CASE LinkProject(s)
    <2>1. [held[s].row EXCEPT !.spv = d.spv] \in Rows
      <3>1. d.spv \in Nat
        BY <1>0 DEF Drafts
      <3> QED BY <1>0, <3>1 DEF Rows
    <2>2. [d EXCEPT !.row = Blank.row] \in Drafts
      BY <1>0, BlankIsADraft DEF Drafts
    <2> QED BY <1>0, <1>7, <2>1, <2>2, PartsKeepShape DEF LinkProject
  <1>8. CASE Suggest(s)
    <2>1. \A todo \in SUBSET Roles, b \in BOOLEAN : [d EXCEPT !.todo = todo, !.sponsor = b] \in Drafts
      BY <1>0 DEF Drafts
    <2> DEFINE missing == {r \in Roles : ~Assigned(d.spv, r)}
    <2>2. Write(s, [d EXCEPT !.todo = missing \cap Matching, !.sponsor = Sponsor \in missing])
      BY <1>8 DEF Suggest
    <2>3. missing \cap Matching \in SUBSET Roles /\ (Sponsor \in missing) \in BOOLEAN
      OBVIOUS
    <2>4. [d EXCEPT !.todo = missing \cap Matching, !.sponsor = Sponsor \in missing] \in Drafts
      BY <2>1, <2>3
    <2> QED BY <1>0, <1>8, <2>2, <2>4, PartsKeepShape DEF Suggest
  <1>9. CASE InsertSuggested(s)
    <2>1. /\ \A r : [d EXCEPT !.todo = @ \ {r}] \in Drafts
          /\ [d EXCEPT !.sponsor = FALSE] \in Drafts
      BY <1>0 DEF Drafts
    <2> QED BY <1>0, <1>9, <2>1, PartsKeepShape DEF InsertSuggested
  <1>10. CASE UpdateCheck(s) \/ GateRoles(s)
    BY <1>0, <1>10, PartsKeepShape DEF UpdateCheck, GateRoles
  <1>11. CASE UpdateSave(s) \/ LinkSpvSave(s) \/ SponsorSpv(s) \/ GateSave(s)
    BY <1>0, <1>11 DEF UpdateSave, LinkSpvSave, SponsorSpv, GateSave
  <1>12. CASE LinkSave(s)
    <2>1. [held[s].row EXCEPT !.spv = d.spv] \in Rows
      <3>1. d.spv \in Nat
        BY <1>0 DEF Drafts
      <3> QED BY <1>0, <3>1 DEF Rows
    <2> QED BY <1>0, <1>12, <2>1, PartsKeepShape DEF LinkSave
  <1>13. CASE LinkFind(s)
    <2>1. at[s] \in HasSpv /\ d.spv \in DOMAIN spvs
      BY <1>13, RowsAreTyped DEF LinkFind, HasSpv
    <2>2. [spvs[d.spv] EXCEPT !.project = held[s].p] \in Spvs
      <3>1. spvs[d.spv] \in Spvs /\ held[s].p \in Projects \cup {NoProject}
        BY <1>0, <2>1, RowsAreTyped DEF HeldRows
      <3> QED BY <3>1 DEF Spvs
    <2>3. \A w \in Spvs : [d EXCEPT !.row = w] \in Drafts
      BY <1>0 DEF Drafts
    <2> QED BY <1>0, <1>13, <2>2, <2>3, PartsKeepShape DEF LinkFind
  <1>14. CASE FindLinks(s)
    <2> DEFINE read == {<<k, roles[k]>> : k \in {j \in LinksFor(d.spv, d.role) : roles[j].primary}}
    <2>1. read \in SUBSET (Nat \X Links)
      BY RowsAreTyped DEF LinksFor, LinksOf
    <2> HIDE DEF read
    <2>2. [d EXCEPT !.links = read] \in Drafts
      BY <1>0, <2>1 DEF Drafts
    <2>3. Write(s, [d EXCEPT !.links = read])
      BY <1>14 DEF FindLinks, read
    <2> QED BY <1>0, <1>14, <2>2, <2>3, PartsKeepShape DEF FindLinks
  <1>15. CASE Unprimary(s)
    <2>1. \A l : [d EXCEPT !.links = @ \ {l}] \in Drafts
      BY <1>0 DEF Drafts
    <2> QED BY <1>0, <1>15, <2>1, PartsKeepShape DEF Unprimary
  <1>16. CASE InsertRole(s)
    BY <1>0, <1>16, PartsKeepShape DEF InsertRole
  <1>17. CASE SponsorLoad(s)
    BY <1>0, <1>17, RowsAreTyped, PartsKeepShape DEF SponsorLoad
  <1>18. CASE SponsorSave(s)
    BY <1>0, <1>18, PartsKeepShape DEF SponsorSave
  <1>19. CASE RejectSave(s)
    BY <1>0, <1>19, PartsKeepShape DEF RejectSave
  <1>20. CASE GateSpv(s)
    <2>1. CASE held[s].row.spv = 0
      BY <1>0, <1>20, <2>1, PartsKeepShape DEF GateSpv
    <2>2. CASE held[s].row.spv # 0
      <3>1. held[s].row.spv \in DOMAIN spvs /\ held[s].row.spv \in Nat /\ spvs[held[s].row.spv] \in Spvs
        BY <1>20, <2>2, RowsAreTyped DEF GateSpv
      <3>2. \A i \in Nat, w \in Spvs : [d EXCEPT !.spv = i, !.row = w] \in Drafts
        BY <1>0 DEF Drafts
      <3> QED BY <1>0, <1>20, <2>2, <3>1, <3>2, PartsKeepShape DEF GateSpv
    <2> QED BY <2>1, <2>2
  <1>21. CASE FindSeries(s)
    <2>1. \A k \in SeriesOf(held[s].p) : [d EXCEPT !.spv = series[k].spv] \in Drafts
      <3>1. \A i \in Nat : [d EXCEPT !.spv = i] \in Drafts
        BY <1>0 DEF Drafts
      <3> QED BY <3>1, RowsAreTyped DEF SeriesOf
    <2>2. [d EXCEPT !.then = "number"] \in Drafts
      BY <1>0 DEF Drafts
    <2> QED BY <1>0, <1>21, <2>1, <2>2, PartsKeepShape DEF FindSeries
  <1>22. CASE NextNumber(s)
    <2>1. \A n \in Nat : [d EXCEPT !.number = n] \in Drafts
      BY <1>0 DEF Drafts
    <2>2. Highest + 1 \in Nat
      BY RowsAreTyped
    <2> QED BY <1>0, <1>22, <2>1, <2>2, PartsKeepShape DEF NextNumber
  <1>23. CASE InsertSeries(s)
    <2> DEFINE e == [project |-> held[s].p, number |-> d.number, spv |-> d.spv]
    <2>1. held[s].p \in Projects
      BY <1>23, RowsAreTyped DEF InsertSeries, AboutProject, SpvLabels
    <2>2. e \in Series
      BY <1>0, <2>1 DEF Series, Drafts
    <2>3. Append(series, e) \in Seq(Series)
      BY <1>0, <2>2, AppendProperties
    <2> QED BY <1>0, <1>23, <2>3, PartsKeepShape DEF InsertSeries
  <1>24. CASE Duplicate(s)
    <2>1. d.tries + 1 \in 0..MaxTries
      <3>1. at[s] = "insertSeries" /\ TriesOK(s)
        BY <1>24 DEF Duplicate, ShapeInv, TriesInv
      <3>2. d.tries \in Nat /\ d.tries < MaxTries
        BY <1>0, <3>1, SeriesAssumption DEF TriesOK, Drafts
      <3> QED BY <3>2, SeriesAssumption
    <2>2. \A n \in 0..MaxTries : [d EXCEPT !.tries = n] \in Drafts
      BY <1>0 DEF Drafts
    <2> QED BY <1>0, <1>24, <2>1, <2>2, PartsKeepShape DEF Duplicate
  <1>25. CASE GiveUp(s)
    BY <1>0, <1>25, PartsKeepShape DEF GiveUp
  <1> QED BY <1>2, <1>3, <1>4, <1>5, <1>6, <1>7, <1>8, <1>9, <1>10, <1>11, <1>12, <1>13, <1>14,
             <1>15, <1>16, <1>17, <1>18, <1>19, <1>20, <1>21, <1>22, <1>23, <1>24, <1>25 DEF SpvStep

\* Each call begins with a draft, and issueProject with the row it has loaded.
LEMMA CallsKeepShape ==
    ASSUME ShapeInv, RowsInv, SeriesInv, NEW s \in Sessions, TriesInv',
           (SpvCall(s) /\ issue' = issue) \/ (\E p \in Projects : Issue(s, p)) \/ IssueGate(s) \/ IssueSave(s)
    PROVE  ShapeInv'
  <1> USE DEF spvVars, Goto, Call, Begin
  <1>0. /\ project \in [Projects -> Rows] /\ held \in [Sessions -> HeldRows] /\ calls \in 0..MaxCalls
        /\ series \in Seq(Series) /\ draft \in [Sessions -> Drafts] /\ issue \in [Sessions -> Rows]
        /\ Blank \in Drafts
    BY BlankIsADraft DEF ShapeInv
  <1>1. ASSUME NEW p \in Projects, \E l : Call(s, p, l)
        PROVE  calls' \in 0..MaxCalls /\ held' \in [Sessions -> HeldRows]
    BY <1>0, <1>1, PartsKeepShape, RowAssumption
  <1>2. ASSUME NEW p \in Projects, NEW d \in Drafts, \E l : Call(s, p, l), Write(s, d) \/ draft' = draft,
               UNCHANGED <<project, series, issue>>
        PROVE  ShapeInv'
    BY <1>0, <1>1, <1>2, PartsKeepShape DEF ShapeInv
  <1>3. ASSUME NEW p \in Projects, Prepare(s, p) \/ CreateSpv(s, p) \/ CreateSeries(s, p), issue' = issue
        PROVE  ShapeInv'
    <2>1. [Blank EXCEPT !.late = TRUE] \in Drafts
      BY <1>0 DEF Drafts
    <2>2. /\ \E l : Call(s, p, l)
          /\ Write(s, [Blank EXCEPT !.late = TRUE]) \/ draft' = draft
          /\ UNCHANGED <<project, series, issue>>
      BY <1>3 DEF Prepare, CreateSpv, CreateSeries
    <2> QED BY <1>2, <2>1, <2>2
  <1>4. ASSUME NEW i \in DOMAIN spvs, NEW p \in Projects, LinkSpv(s, p, i), issue' = issue PROVE ShapeInv'
    <2>1. [Blank EXCEPT !.spv = i] \in Drafts
      <3>1. i \in Nat
        BY RowsAreTyped
      <3> QED BY <1>0, <3>1 DEF Drafts
    <2>2. \E l : Call(s, p, l)
      BY <1>4 DEF LinkSpv
    <2> QED BY <1>2, <1>4, <2>1, <2>2 DEF LinkSpv
  <1>5. ASSUME NEW i \in DOMAIN spvs, NEW p \in Projects, NEW ready \in BOOLEAN, UpdateSpv(s, i, p, ready),
               issue' = issue
        PROVE  ShapeInv'
    <2> DEFINE w == [project |-> p, ready |-> ready]
    <2>1. w \in Spvs /\ i \in Nat
      BY RowsAreTyped DEF Spvs
    <2>2. Write(s, [Blank EXCEPT !.spv = i, !.row = w, !.then = "update"])
      BY <1>5 DEF UpdateSpv
    <2> HIDE DEF w
    <2>3. [Blank EXCEPT !.spv = i, !.row = w, !.then = "update"] \in Drafts
      BY <1>0, <2>1 DEF Drafts
    <2>4. \E l : Call(s, p, l)
      BY <1>5 DEF UpdateSpv
    <2> QED BY <1>2, <1>5, <2>2, <2>3, <2>4 DEF UpdateSpv
  <1>6. ASSUME NEW i \in DOMAIN spvs, NEW r \in Roles, Upsert(s, i, r), issue' = issue PROVE ShapeInv'
    <2>1. spvs[i] \in Spvs /\ spvs[i].project \in Projects /\ i \in Nat
      BY RowsAreTyped
    <2>2. [Blank EXCEPT !.spv = i, !.row = spvs[i], !.role = r] \in Drafts
      BY <1>0, <2>1 DEF Drafts
    <2>3. \E l : Call(s, spvs[i].project, l)
      BY <1>6 DEF Upsert
    <2> QED BY <1>2, <1>6, <2>1, <2>2, <2>3 DEF Upsert
  <1>7. ASSUME NEW k \in DOMAIN roles, Reject(s, k), issue' = issue PROVE ShapeInv'
    <2>1. /\ k \in Nat /\ roles[k] \in Links /\ spvs[roles[k].spv].project \in Projects
      BY RowsAreTyped
    <2>2. {<<k, roles[k]>>} \in SUBSET (Nat \X Links)
      BY <2>1
    <2>3. [Blank EXCEPT !.links = {<<k, roles[k]>>}] \in Drafts
      BY <1>0, <2>2 DEF Drafts
    <2>4. \E l : Call(s, spvs[roles[k].spv].project, l)
      BY <1>7 DEF Reject
    <2> QED BY <1>2, <1>7, <2>1, <2>3, <2>4 DEF Reject
  <1>8. ASSUME NEW p \in Projects, Issue(s, p) PROVE ShapeInv'
    <2>1. issue' \in [Sessions -> Rows]
      BY <1>0, <1>8 DEF Issue
    <2> QED BY <1>0, <1>1, <1>8, <2>1 DEF Issue, ShapeInv
  <1>9. CASE IssueGate(s)
    <2>1. [Blank EXCEPT !.back = "issueSave"] \in Drafts
      BY <1>0 DEF Drafts
    <2> QED BY <1>0, <1>9, <2>1, PartsKeepShape DEF IssueGate, ShapeInv
  <1>10. CASE IssueSave(s)
    <2>1. [issue[s] EXCEPT !.spv = draft[s].spv, !.locked = TRUE] \in Rows
      <3>1. draft[s].spv \in Nat /\ issue[s] \in Rows
        BY <1>0 DEF Drafts
      <3> QED BY <3>1 DEF Rows
    <2>2. issue' \in [Sessions -> Rows]
      BY <1>0, <1>10, BlankIsADraft DEF IssueSave
    <2> QED BY <1>0, <1>10, <2>1, <2>2, PartsKeepShape DEF IssueSave, ShapeInv
  <1> QED BY <1>3, <1>4, <1>5, <1>6, <1>7, <1>8, <1>9, <1>10 DEF SpvCall

\* The handlers of CustodyConfig load and save project rows only.
LEMMA CustodyKeepsShape ==
    ASSUME ShapeInv, RequestsInv, NEW s \in Sessions, CustodyCall(s) \/ CustodyStep(s),
           UNCHANGED <<spvVars, issue>>, TriesInv'
    PROVE  ShapeInv'
  <1> USE DEF spvVars, Goto, Call, Begin
  <1>0. /\ project \in [Projects -> Rows] /\ held \in [Sessions -> HeldRows] /\ calls \in 0..MaxCalls
        /\ held[s].row \in Rows /\ review[s] \in Reviews
    BY DEF ShapeInv, HeldRows, RequestsInv, CustodyTypeOK
  <1>1. SUFFICES project' \in [Projects -> Rows] /\ held' \in [Sessions -> HeldRows] /\ calls' \in 0..MaxCalls
    BY DEF ShapeInv
  <1>2. CASE CustodyCall(s)
    <2>1. /\ calls < MaxCalls /\ calls' = calls + 1 /\ project' = project
          /\ held' = held \/ \E p \in Projects : LoadRow(s, p)
      BY <1>2 DEF CustodyCall, AskMode, AskWallet, ChangeWallet, Review, MarkReviewed, Block, Clear
    <2> QED BY <1>0, <2>1, PartsKeepShape, RowAssumption
  <1>3. CASE AskSave(s) \/ AskInsert(s) \/ ReviewProfile(s) \/ ReviewProfileSave(s) \/ ReviewProject(s)
             \/ ReviewSave(s) \/ MarkFind(s) \/ ClearFind(s)
    BY <1>0, <1>3, PartsKeepShape
       DEF AskSave, AskInsert, ReviewProfile, ReviewProfileSave, ReviewProject, ReviewSave, MarkFind,
           ClearFind, End
  <1>4. CASE LoadWallet(s)
    <2>1. review[s].request.project \in Projects
      BY <1>4 DEF LoadWallet, RequestsInv, ReviewOK
    <2> QED BY <1>0, <1>4, <2>1, PartsKeepShape DEF LoadWallet, End
  <1>5. CASE SaveWallet(s)
    <2>1. review[s].request.mode \in Modes
      BY <1>0 DEF Reviews, Requests
    <2>2. [held[s].row EXCEPT !.mode = review[s].request.mode, !.open = Incomplete(held[s].row, FALSE)] \in Rows
      BY <1>0, <2>1 DEF Rows, Incomplete
    <2> QED BY <1>0, <1>5, <2>2, PartsKeepShape DEF SaveWallet, End
  <1>6. CASE MarkSave(s)
    <2>1. [held[s].row EXCEPT !.open = Incomplete(held[s].row, review[s].waiting)] \in Rows
      BY <1>0 DEF Rows, Incomplete, Reviews
    <2> QED BY <1>0, <1>6, <2>1, PartsKeepShape DEF MarkSave, End
  <1>7. CASE BlockSave(s) \/ ClearSave(s)
    <2>1. \A b \in BOOLEAN : [held[s].row EXCEPT !.blocked = b, !.open = b] \in Rows
      BY <1>0 DEF Rows
    <2> QED BY <1>0, <1>7, <2>1, PartsKeepShape DEF BlockSave, ClearSave, End
  <1> QED BY <1>2, <1>3, <1>4, <1>5, <1>6, <1>7 DEF CustodyStep

\* The first rows have their shape, and no session holds a copy.
LEMMA ShapeInit == Init => ShapeInv
  <1> SUFFICES ASSUME Init PROVE ShapeInv
    OBVIOUS
  <1>1. PICK p \in Projects, issued \in BOOLEAN :
          /\ SpvInit(p, issued)
          /\ project = [q \in Projects |-> [NewRow(FirstMode) EXCEPT !.spv = IF q = p THEN 1 ELSE 0]]
    BY DEF Init
  <1>2. project \in [Projects -> Rows]
    <2> DEFINE new == NewRow(FirstMode)
    <2>1. new \in Rows
      BY FirstIsAMode DEF NewRow, Rows
    <2>2. project = [q \in Projects |-> [new EXCEPT !.spv = IF q = p THEN 1 ELSE 0]]
      BY <1>1
    <2> HIDE DEF new
    <2>3. \A i \in 0..1 : [new EXCEPT !.spv = i] \in Rows
      BY <2>1 DEF Rows
    <2> QED BY <2>2, <2>3
  <1>3. series \in Seq(Series)
    <2>1. CASE issued
      <3> DEFINE e == [project |-> p, number |-> 1, spv |-> 1]
      <3>1. e \in Series
        BY DEF Series
      <3>2. series = <<e>>
        BY <1>1, <2>1 DEF SpvInit
      <3> QED BY <3>1, <3>2
    <2>2. CASE ~issued
      BY <1>1, <2>2 DEF SpvInit
    <2> QED BY <2>1, <2>2
  <1>4. held \in [Sessions -> HeldRows] /\ issue \in [Sessions -> Rows] /\ calls \in 0..MaxCalls
    BY BlankIsADraft, RowAssumption DEF Init
  <1>5. draft \in [Sessions -> Drafts] /\ TriesInv
    BY <1>1, BlankIsADraft, BlankIsShaped, SeriesAssumption DEF Init, SpvInit, TriesInv, TriesOK
  <1> QED BY <1>2, <1>3, <1>4, <1>5 DEF ShapeInv

\* Every step of every caller keeps the shape of rows and copies.
LEMMA ShapeStep == SeriesInv /\ RequestsInv /\ RowsInv /\ ShapeInv /\ [Next]_prepVars => ShapeInv'
  <1> SUFFICES ASSUME SeriesInv, RequestsInv, RowsInv, ShapeInv, [Next]_prepVars PROVE ShapeInv'
    OBVIOUS
  <1>1. TriesInv'
    BY TriesStep DEF ShapeInv
  <1>2. CASE UNCHANGED prepVars
    BY <1>1, <1>2 DEF prepVars, rowVars, spvVars, ShapeInv
  <1>3. CASE Next
    BY <1>1, <1>3, SpvStepsKeepShape, CallsKeepShape, CustodyKeepsShape DEF Next, Step
  <1> QED BY <1>2, <1>3

\* Wherever the calls have got to, each row is one of its table and refers only to rows
\* that exist, each session holds rows and a draft of their types, and no creation of a
\* series counts more attempts than the bound.
THEOREM TypeCorrect == Spec => []TypeOK
  <1>1. ShapeInv /\ RowsInv /\ RequestsInv => TypeOK
    <2> SUFFICES ASSUME ShapeInv, RowsInv, RequestsInv PROVE TypeOK
      OBVIOUS
    <2>1. TablesOK /\ Len(spvs) \in Nat /\ DOMAIN spvs = 1..Len(spvs)
      BY TablesRead DEF RowsInv
    <2>2. spvs \in Seq(Spvs)
      <3>1. SpvRows \subseteq Spvs
        BY DEF SpvRows, Spvs
      <3> QED BY <2>1, <3>1, SeqDef DEF TablesOK
    <2>3. roles \in Seq(Links) /\ \A k \in DOMAIN roles : roles[k].spv \in DOMAIN spvs
      <3>1. LinkRows(Len(spvs)) \subseteq Links
        BY <2>1 DEF LinkRows, Links
      <3>2. \A k \in DOMAIN roles : roles[k] \in LinkRows(Len(spvs))
        BY <2>1, TablesRead
      <3> QED BY <2>1, <3>1, <3>2, SeqDef DEF TablesOK, LinkRows
    <2>4. \A p \in Projects : project[p].spv \in 0..Len(spvs)
      BY <2>1 DEF TablesOK, RowFits, RowShapes
    <2>5. SpvTypeOK
      BY <2>1, <2>2, <2>3, <2>4 DEF SpvTypeOK, RowTypeOK, ShapeInv, HeldRows, TablesOK
    <2> QED BY <2>5 DEF TypeOK, ShapeInv, RequestsInv
  <1> QED BY <1>1, ShapeInit, ShapeStep, SeriesInvariant, RequestsInvariant, RowsInvariant, PTL DEF Spec
=============================================================================
