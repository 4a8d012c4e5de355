------------------------------- MODULE SpvSeries -------------------------------
(***************************************************************************)
(* The SPV of a project, the legal entities linked to its roles, the check *)
(* that it is ready for issuance, and the series with its token symbol.    *)
(*                                                                         *)
(* Rows of spv, spv_entity_roles and series are known by their position:   *)
(* none is ever deleted.  A role row names no entity here; an approved one *)
(* stands for one whose entity is complete.  Every role of Roles is both   *)
(* created by default and required.                                        *)
(***************************************************************************)
EXTENDS ProjectRow, FiniteSets

CONSTANTS Roles,
          Matching,  \* roles for which suggestions find a legal entity
          Sponsor,   \* the role whose link is copied to the SPV and the project
          MaxTries   \* attempts at a token symbol: 5

ASSUME SeriesAssumption ==
    /\ IsFiniteSet(Roles) /\ Matching \subseteq Roles /\ Sponsor \in Roles
    /\ MaxTries \in Nat \ {0}

VARIABLES spvs,      \* [project, ready]
          roles,     \* [spv, role, status, primary]
          series,    \* [project, number, spv]: number is that of the token symbol
          draft,     \* what each session has read and is about to write
          approvals, \* role rows that have been inserted as approved
          rejections \* role rows a reject call has been answered for

spvVars == <<spvs, roles, series, draft, approvals, rejections>>

\* suggested stands for linked too: neither is approved.
Statuses == {"suggested", "approved", "rejected"}

Spvs == [project : Projects \cup {NoProject}, ready : BOOLEAN]
Links == [spv : Nat, role : Roles, status : Statuses, primary : BOOLEAN]
Series == [project : Projects, number : Nat, spv : Nat]

\* spv, row: the SPV found; links: role rows to save, by position; todo: roles to
\* insert; role: the role to link; late: the project is loaded only after the
\* SPV was saved; sponsor: none was assigned; then, back: where preparing the SPV and
\* creating the series return to.
Drafts == [spv : Nat, row : Spvs, links : SUBSET (Nat \X Links), todo : SUBSET Roles,
           role : Roles, number : Nat, tries : 0..MaxTries,
           late : BOOLEAN, sponsor : BOOLEAN, then : {"idle", "update", "number"}, back : {"idle", "issueSave"}]

Blank == [spv |-> 0, row |-> [project |-> NoProject, ready |-> FALSE],
          links |-> {}, todo |-> {},
          role |-> Sponsor,
          number |-> 0, tries |-> 0, late |-> FALSE, sponsor |-> FALSE, then |-> "idle", back |-> "idle"]

-----------------------------------------------------------------------------
LinksOf(i) == {k \in DOMAIN roles : roles[k].spv = i}
LinksFor(i, r) == {k \in LinksOf(i) : roles[k].role = r}

Counts(l) == l.primary /\ l.status # "rejected"

\* getCurrentAssignments: the newest row that counts.  updatedAt orders such rows as
\* their ids do, as no handler saves a row and leaves it primary.
Current(i, r) ==
    CHOOSE k \in LinksFor(i, r) : /\ Counts(roles[k])
                                  /\ \A j \in LinksFor(i, r) : Counts(roles[j]) => j <= k

Assigned(i, r) == \E k \in LinksFor(i, r) : Counts(roles[k])

\* The role part of buildReadiness.
RolesComplete(i) ==
    \A r \in Roles : Assigned(i, r) /\ roles[Current(i, r)].status = "approved"

\* buildReadiness, of a project row and an SPV.
Ready(row, i) ==
    /\ RolesComplete(i)
    /\ ~row.open /\ ~row.blocked

Write(s, d) == draft' = [draft EXCEPT ![s] = d]

Finish(s) == Return(s) /\ Write(s, Blank)

\* On to l with the draft d, or back to the caller of the whole call.
Continue(s, l, d) ==
    IF l = "idle" THEN Finish(s) ELSE Goto(s, l) /\ Write(s, d) /\ Forget(s)

InsertLink(i, r, status) ==
    roles' = Append(roles, [spv |-> i, role |-> r, status |-> status, primary |-> TRUE])

-----------------------------------------------------------------------------
(* prepareDraftSpvForProject, called by an admin, by the linkage of a      *)
(* project to an SPV, and by the creation of a series.                     *)

Prepare(s, p) ==
    /\ Call(s, p, "findSpv")
    /\ UNCHANGED <<project, spvVars>>

LoadProject(s) ==
    /\ at[s] = "prepare"
    /\ LoadRow(s, held[s].p) /\ Goto(s, "findSpv")
    /\ UNCHANGED <<project, calls, spvVars>>

\* The SPV the row names, else one that names the project, whichever is found.
FoundSpvs(s) ==
    LET row == held[s].row
    IN IF row.spv # 0 THEN {row.spv}
       ELSE {i \in DOMAIN spvs : spvs[i].project = held[s].p}

FindSpv(s) ==
    /\ at[s] = "findSpv"
    /\ \/ \E i \in FoundSpvs(s) : Write(s, [draft[s] EXCEPT !.spv = i, !.row = spvs[i]])
       \/ FoundSpvs(s) = {} /\ Write(s, [draft[s] EXCEPT !.spv = 0])
    /\ Goto(s, "saveSpv")
    /\ UNCHANGED <<project, held, calls, spvs, roles, series, approvals, rejections>>

\* An SPV that was found is saved as it was read.
SaveSpv(s) ==
    /\ at[s] = "saveSpv"
    /\ IF draft[s].spv = 0
       THEN LET new == [project |-> held[s].p, ready |-> FALSE]
            IN /\ spvs' = Append(spvs, new)
               /\ Write(s, [draft[s] EXCEPT !.spv = Len(spvs) + 1, !.row = new])
       ELSE spvs' = [spvs EXCEPT ![draft[s].spv] = draft[s].row] /\ UNCHANGED draft
    /\ Goto(s, "findRoles")
    /\ UNCHANGED <<project, held, calls, roles, series, approvals, rejections>>

\* ensureDefaultRoleRows
FindRoles(s) ==
    /\ at[s] = "findRoles"
    /\ Write(s, [draft[s] EXCEPT !.todo = {r \in Roles : LinksFor(draft[s].spv, r) = {}}])
    /\ Goto(s, "insertDefault")
    /\ UNCHANGED <<project, held, calls, spvs, roles, series, approvals, rejections>>

\* createSpv and updateSpv load the project only now.
InsertDefault(s) ==
    /\ at[s] = "insertDefault"
    /\ IF draft[s].todo = {}
       THEN /\ Goto(s, IF draft[s].late THEN "loadProject" ELSE "linkProject")
            /\ UNCHANGED <<roles, draft>>
       ELSE LET r == CHOOSE r \in draft[s].todo : TRUE
            IN /\ InsertLink(draft[s].spv, r, "suggested")
               /\ Write(s, [draft[s] EXCEPT !.todo = @ \ {r}])
               /\ UNCHANGED at
    /\ UNCHANGED <<project, held, calls, spvs, series, approvals, rejections>>

LoadProjectLate(s) ==
    /\ at[s] = "loadProject"
    /\ LoadRow(s, held[s].p) /\ Goto(s, "linkProject")
    /\ UNCHANGED <<project, calls, spvVars>>

\* updateSpv makes no suggestions: nothing is left to do when its SPV is saved.
LinkProject(s) ==
    /\ at[s] = "linkProject"
    /\ SaveRow(s, [held[s].row EXCEPT !.spv = draft[s].spv])
    /\ Continue(s, IF draft[s].then = "update" THEN "idle" ELSE "suggest",
                [draft[s] EXCEPT !.row = Blank.row])
    /\ UNCHANGED <<calls, spvs, roles, series, approvals, rejections>>

\* ensureRoleSuggestions reads the role rows once.
Suggest(s) ==
    /\ at[s] = "suggest"
    /\ LET missing == {r \in Roles : ~Assigned(draft[s].spv, r)}
       IN Write(s, [draft[s] EXCEPT !.todo = missing \cap Matching, !.sponsor = Sponsor \in missing])
    /\ Goto(s, "insertSuggested")
    /\ UNCHANGED <<project, held, calls, spvs, roles, series, approvals, rejections>>

\* A sponsor that was missing is suggested once more, from the project's own linkage.
InsertSuggested(s) ==
    /\ at[s] = "insertSuggested"
    /\ IF draft[s].todo # {}
       THEN LET r == CHOOSE r \in draft[s].todo : TRUE
            IN /\ InsertLink(draft[s].spv, r, "suggested")
               /\ Write(s, [draft[s] EXCEPT !.todo = @ \ {r}])
               /\ UNCHANGED <<at, held>>
       ELSE /\ IF draft[s].sponsor THEN InsertLink(draft[s].spv, Sponsor, "suggested")
                                  ELSE UNCHANGED roles
            /\ Continue(s, draft[s].then, [draft[s] EXCEPT !.sponsor = FALSE])
    /\ UNCHANGED <<project, calls, spvs, series, approvals, rejections>>

-----------------------------------------------------------------------------
(* createSpv, updateSpv and the linkage of a project to an SPV.            *)

\* createSpv, for a project.
CreateSpv(s, p) ==
    /\ Call(s, p, "saveSpv")
    /\ Write(s, [Blank EXCEPT !.late = TRUE])
    /\ UNCHANGED <<project, spvs, roles, series, approvals, rejections>>

\* updateSpv, with the project and the status of the form; the status ready is checked.
UpdateSpv(s, i, p, ready) ==
    /\ i \in DOMAIN spvs
    /\ Call(s, p, IF ready THEN "updateProject" ELSE "updateSave")
    /\ Write(s, [Blank EXCEPT !.spv = i, !.row = [project |-> p, ready |-> ready],
                              !.then = "update"])
    /\ UNCHANGED <<project, spvs, roles, series, approvals, rejections>>

UpdateProject(s) ==
    /\ at[s] = "updateProject"
    /\ LoadRow(s, held[s].p) /\ Goto(s, "updateCheck")
    /\ UNCHANGED <<project, calls, spvVars>>

UpdateCheck(s) ==
    /\ at[s] = "updateCheck"
    /\ IF Ready(held[s].row, draft[s].spv)
       THEN Goto(s, "updateSave") /\ UNCHANGED <<held, draft>>
       ELSE Finish(s)
    /\ UNCHANGED <<project, calls, spvs, roles, series, approvals, rejections>>

UpdateSave(s) ==
    /\ at[s] = "updateSave"
    /\ spvs' = [spvs EXCEPT ![draft[s].spv] = draft[s].row]
    /\ Goto(s, "loadProject")
    /\ UNCHANGED <<project, held, calls, roles, series, draft, approvals, rejections>>

\* updateProjectEntityLinkage saves the project, finds and saves the SPV, and prepares.
LinkSpv(s, p, i) ==
    /\ i \in DOMAIN spvs
    /\ Call(s, p, "linkSave")
    /\ Write(s, [Blank EXCEPT !.spv = i])
    /\ UNCHANGED <<project, spvs, roles, series, approvals, rejections>>

LinkSave(s) ==
    /\ at[s] = "linkSave"
    /\ SaveRow(s, [held[s].row EXCEPT !.spv = draft[s].spv])
    /\ Goto(s, "linkFind")
    /\ UNCHANGED <<held, calls, spvVars>>

LinkFind(s) ==
    /\ at[s] = "linkFind"
    /\ Write(s, [draft[s] EXCEPT !.row = [spvs[draft[s].spv] EXCEPT !.project = held[s].p]])
    /\ Goto(s, "linkSpv")
    /\ UNCHANGED <<project, held, calls, spvs, roles, series, approvals, rejections>>

LinkSpvSave(s) ==
    /\ at[s] = "linkSpv"
    /\ spvs' = [spvs EXCEPT ![draft[s].spv] = draft[s].row]
    /\ Goto(s, "prepare")
    /\ UNCHANGED <<project, held, calls, roles, series, draft, approvals, rejections>>

-----------------------------------------------------------------------------
(* upsertSpvRole and rejectSpvRole.                                        *)

\* The client links entities as approved and leaves isPrimary to its default.
Upsert(s, i, r) ==
    /\ i \in DOMAIN spvs
    /\ Call(s, spvs[i].project, "findLinks")
    /\ Write(s, [Blank EXCEPT !.spv = i, !.row = spvs[i], !.role = r])
    /\ UNCHANGED <<project, spvs, roles, series, approvals, rejections>>

FindLinks(s) ==
    /\ at[s] = "findLinks"
    /\ LET mine == LinksFor(draft[s].spv, draft[s].role)
       IN Write(s, [draft[s] EXCEPT !.links = {<<k, roles[k]>> : k \in {j \in mine : roles[j].primary}}])
    /\ Goto(s, "unprimary")
    /\ UNCHANGED <<project, held, calls, spvs, roles, series, approvals, rejections>>

\* Each primary row is saved, whole, without the mark.
Unprimary(s) ==
    /\ at[s] = "unprimary"
    /\ \E l \in draft[s].links :
         /\ roles' = [roles EXCEPT ![l[1]] = [l[2] EXCEPT !.primary = FALSE]]
         /\ Write(s, [draft[s] EXCEPT !.links = @ \ {l}])
    /\ UNCHANGED <<project, at, held, calls, spvs, series, approvals, rejections>>

\* Mutant: isPrimary defaults to false.
InsertRole_NotPrimary(s) ==
    /\ at[s] = "unprimary" /\ draft[s].links = {}
    /\ roles' = Append(roles, [spv |-> draft[s].spv, role |-> draft[s].role, status |-> "approved",
                               primary |-> FALSE])
    /\ approvals' = approvals \cup {Len(roles) + 1}
    /\ Continue(s, IF draft[s].role = Sponsor THEN "sponsorSpv" ELSE "idle", draft[s])
    /\ UNCHANGED <<project, calls, spvs, series, rejections>>

\* The link of a sponsor is copied to the SPV that was loaded first.
InsertRole(s) ==
    /\ at[s] = "unprimary" /\ draft[s].links = {}
    /\ InsertLink(draft[s].spv, draft[s].role, "approved")
    /\ approvals' = approvals \cup {Len(roles) + 1}
    /\ Continue(s, IF draft[s].role = Sponsor THEN "sponsorSpv" ELSE "idle", draft[s])
    /\ UNCHANGED <<project, calls, spvs, series, rejections>>

SponsorSpv(s) ==
    /\ at[s] = "sponsorSpv"
    /\ spvs' = [spvs EXCEPT ![draft[s].spv] = draft[s].row]
    /\ Goto(s, "sponsorLoad")
    /\ UNCHANGED <<project, held, calls, roles, series, draft, approvals, rejections>>

SponsorLoad(s) ==
    /\ at[s] = "sponsorLoad"
    /\ LoadRow(s, draft[s].row.project) /\ Goto(s, "sponsorSave")
    /\ UNCHANGED <<project, calls, spvVars>>

SponsorSave(s) ==
    /\ at[s] = "sponsorSave"
    /\ SaveRow(s, held[s].row) /\ Finish(s)
    /\ UNCHANGED <<calls, spvs, roles, series, approvals, rejections>>

Reject(s, k) ==
    /\ k \in DOMAIN roles
    /\ Call(s, spvs[roles[k].spv].project, "reject")
    /\ Write(s, [Blank EXCEPT !.links = {<<k, roles[k]>>}])
    /\ UNCHANGED <<project, spvs, roles, series, approvals, rejections>>

RejectSave(s) ==
    /\ at[s] = "reject"
    /\ \E l \in draft[s].links :
         /\ roles' = [roles EXCEPT ![l[1]] = [l[2] EXCEPT !.status = "rejected", !.primary = FALSE]]
         /\ rejections' = rejections \cup {l[1]}
    /\ Finish(s)
    /\ UNCHANGED <<project, calls, spvs, series, approvals>>

-----------------------------------------------------------------------------
(* assertSpvReadyForIssuance, which issueProject calls before the series.  *)

Gate(s) ==
    /\ at[s] = "gate"
    /\ LoadRow(s, held[s].p) /\ Goto(s, "gateSpv")
    /\ UNCHANGED <<project, calls, spvVars>>

GateSpv(s) ==
    /\ at[s] = "gateSpv"
    /\ IF held[s].row.spv = 0
       THEN Finish(s)
       ELSE /\ Write(s, [draft[s] EXCEPT !.spv = held[s].row.spv, !.row = spvs[held[s].row.spv]])
            /\ Goto(s, "gateRoles") /\ UNCHANGED held
    /\ UNCHANGED <<project, calls, spvs, roles, series, approvals, rejections>>

\* Mutant: the role rows are not looked at.
GateRoles_Trusting(s) ==
    /\ at[s] = "gateRoles"
    /\ IF ~held[s].row.open /\ ~held[s].row.blocked
       THEN Goto(s, IF draft[s].row.ready THEN "series" ELSE "gateSave") /\ UNCHANGED <<held, draft>>
       ELSE Finish(s)
    /\ UNCHANGED <<project, calls, spvs, roles, series, approvals, rejections>>

GateRoles(s) ==
    /\ at[s] = "gateRoles"
    /\ IF Ready(held[s].row, draft[s].spv)
       THEN Goto(s, IF draft[s].row.ready THEN "series" ELSE "gateSave") /\ UNCHANGED <<held, draft>>
       ELSE Finish(s)
    /\ UNCHANGED <<project, calls, spvs, roles, series, approvals, rejections>>

GateSave(s) ==
    /\ at[s] = "gateSave"
    /\ spvs' = [spvs EXCEPT ![draft[s].spv] = [draft[s].row EXCEPT !.ready = TRUE]]
    /\ Goto(s, "series")
    /\ UNCHANGED <<project, held, calls, roles, series, draft, approvals, rejections>>

-----------------------------------------------------------------------------
(* createSeriesForProject.                                                 *)

\* Its own endpoint asks for no readiness.
CreateSeries(s, p) ==
    /\ Call(s, p, "series")
    /\ UNCHANGED <<project, spvVars>>

SeriesOf(p) == {k \in DOMAIN series : series[k].project = p}

FindSeries(s) ==
    /\ at[s] = "series"
    /\ IF SeriesOf(held[s].p) # {}
       THEN \E k \in SeriesOf(held[s].p) :
              Continue(s, draft[s].back, [draft[s] EXCEPT !.spv = series[k].spv])
       ELSE Continue(s, "prepare", [draft[s] EXCEPT !.then = "number"])
    /\ UNCHANGED <<project, calls, spvs, roles, series, approvals, rejections>>

Numbers == {series[k].number : k \in DOMAIN series}

Highest == IF Numbers = {} THEN 0 ELSE CHOOSE n \in Numbers : \A m \in Numbers : m <= n

\* Mutant: each further attempt leaves a number out.
NextNumber_Skips(s) ==
    /\ at[s] = "number"
    /\ Write(s, [draft[s] EXCEPT !.number = Highest + 1 + draft[s].tries])
    /\ Goto(s, "insertSeries")
    /\ UNCHANGED <<project, held, calls, spvs, roles, series, approvals, rejections>>

\* generateTokenSymbol
NextNumber(s) ==
    /\ at[s] = "number"
    /\ Write(s, [draft[s] EXCEPT !.number = Highest + 1])
    /\ Goto(s, "insertSeries")
    /\ UNCHANGED <<project, held, calls, spvs, roles, series, approvals, rejections>>

\* Both unique constraints of the table, on the symbol and on the project.
Unique(s) == SeriesOf(held[s].p) = {} /\ draft[s].number \notin Numbers

InsertSeries(s) ==
    /\ at[s] = "insertSeries" /\ Unique(s)
    /\ series' = Append(series, [project |-> held[s].p, number |-> draft[s].number, spv |-> draft[s].spv])
    /\ Continue(s, draft[s].back, draft[s])
    /\ UNCHANGED <<project, calls, spvs, roles, approvals, rejections>>

\* Mutant: the next attempt uses the number read before.
Duplicate_SameNumber(s) ==
    /\ at[s] = "insertSeries" /\ ~Unique(s)
    /\ Write(s, [draft[s] EXCEPT !.tries = @ + 1])
    /\ Goto(s, IF draft[s].tries + 1 < MaxTries THEN "insertSeries" ELSE "gaveUp")
    /\ UNCHANGED <<project, held, calls, spvs, roles, series, approvals, rejections>>

\* Mutant: one attempt too many.
Duplicate_OneMore(s) ==
    /\ at[s] = "insertSeries" /\ ~Unique(s)
    /\ Write(s, [draft[s] EXCEPT !.tries = @ + 1])
    /\ Goto(s, IF draft[s].tries < MaxTries THEN "number" ELSE "gaveUp")
    /\ UNCHANGED <<project, held, calls, spvs, roles, series, approvals, rejections>>

\* Any violation is taken for one of the symbol, and tried again.
Duplicate(s) ==
    /\ at[s] = "insertSeries" /\ ~Unique(s)
    /\ Write(s, [draft[s] EXCEPT !.tries = @ + 1])
    /\ Goto(s, IF draft[s].tries + 1 < MaxTries THEN "number" ELSE "gaveUp")
    /\ UNCHANGED <<project, held, calls, spvs, roles, series, approvals, rejections>>

\* 'Failed to generate unique token symbol after retries'
GiveUp(s) ==
    /\ at[s] = "gaveUp"
    /\ Finish(s)
    /\ UNCHANGED <<project, calls, spvs, roles, series, approvals, rejections>>

-----------------------------------------------------------------------------
\* One row for each role of the first SPV.
Defaults(status) ==
    {f \in [1..Cardinality(Roles) -> [spv : {1}, role : Roles, status : {status}, primary : {TRUE}]] :
        {f[k].role : k \in DOMAIN f} = Roles}

\* p has an SPV with its default roles; if it was issued, they are approved and it has
\* its series.
SpvInit(p, issued) ==
    /\ spvs = <<[project |-> p, ready |-> issued]>>
    /\ roles \in Defaults(IF issued THEN "approved" ELSE "suggested")
    /\ approvals = IF issued THEN DOMAIN roles ELSE {}
    /\ series = IF issued THEN <<[project |-> p, number |-> 1, spv |-> 1]>> ELSE <<>>
    /\ rejections = {}
    /\ draft = [s \in Sessions |-> Blank]

SpvCall(s) ==
    \/ \E p \in Projects : Prepare(s, p) \/ CreateSpv(s, p) \/ CreateSeries(s, p)
    \/ \E i \in DOMAIN spvs, p \in Projects :
         LinkSpv(s, p, i) \/ \E ready \in BOOLEAN : UpdateSpv(s, i, p, ready)
    \/ \E i \in DOMAIN spvs, r \in Roles : Upsert(s, i, r)
    \/ \E k \in DOMAIN roles : Reject(s, k)

SpvStep(s) ==
    \/ LoadProject(s) \/ FindSpv(s) \/ SaveSpv(s) \/ FindRoles(s) \/ InsertDefault(s)
    \/ LoadProjectLate(s) \/ LinkProject(s) \/ Suggest(s) \/ InsertSuggested(s)
    \/ UpdateProject(s) \/ UpdateCheck(s) \/ UpdateSave(s)
    \/ LinkSave(s) \/ LinkFind(s) \/ LinkSpvSave(s)
    \/ FindLinks(s) \/ Unprimary(s) \/ InsertRole(s)
    \/ SponsorSpv(s) \/ SponsorLoad(s) \/ SponsorSave(s) \/ RejectSave(s)
    \/ Gate(s) \/ GateSpv(s) \/ GateRoles(s) \/ GateSave(s)
    \/ FindSeries(s) \/ NextNumber(s) \/ InsertSeries(s) \/ Duplicate(s) \/ GiveUp(s)

-----------------------------------------------------------------------------
SpvTypeOK ==
    /\ RowTypeOK
    /\ spvs \in Seq(Spvs) /\ roles \in Seq(Links) /\ series \in Seq(Series)
    /\ draft \in [Sessions -> Drafts]
    /\ \A p \in Projects : project[p].spv \in 0..Len(spvs)
    /\ \A k \in DOMAIN roles : roles[k].spv \in DOMAIN spvs
    /\ approvals \subseteq DOMAIN roles /\ rejections \subseteq DOMAIN roles

\* Whatever calls overlap, a role that was ever linked keeps an assignment, unless one
\* of its rows has been rejected or a call that replaces them is still under way:
\* taking the marks from the old rows and inserting the new one are separate saves.
RoleStaysAssigned ==
    \A i \in DOMAIN spvs, r \in Roles :
        \/ LinksFor(i, r) = {} \/ Assigned(i, r)
        \/ LinksFor(i, r) \cap rejections # {}
        \/ \E s \in Sessions : at[s] = "unprimary" /\ draft[s].spv = i /\ draft[s].role = r

\* A ready SPV has had every role approved by somebody, in spite of all the saves that
\* write the status of an SPV read long before.
ReadyWasApproved ==
    \A i \in DOMAIN spvs : spvs[i].ready =>
        \A r \in Roles : LinksFor(i, r) \cap approvals # {}

\* A project has one series, and the numbers of the token symbols are 1, 2, ... without
\* a gap, whatever attempts collide.
SymbolsCountUp ==
    /\ Numbers = 1..Len(series)
    /\ \A j, k \in DOMAIN series : series[j].project = series[k].project => j = k

\* The creation of a series fails only because the project has one by now or because
\* every attempt has lost its symbol to another project.
GivesUpBeaten ==
    \A s \in Sessions : at[s] = "gaveUp" =>
        SeriesOf(held[s].p) # {} \/ Len(series) >= MaxTries
=============================================================================
