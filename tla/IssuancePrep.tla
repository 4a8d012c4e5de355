----------------------------- MODULE IssuancePrep -----------------------------
(***************************************************************************)
(* The preparation of projects for issuance: SpvSeries and CustodyConfig   *)
(* on one project row, and the part of issueProject that asks both for     *)
(* readiness, creates the series and locks the wallet configuration.  What *)
(* issueProject does in between, the mint, is Issuance.                    *)
(***************************************************************************)
EXTENDS SpvSeries, CustodyConfig

VARIABLES issue  \* the project row each issueProject call has loaded, and will save

prepVars == <<rowVars, spvVars, custodyVars, issue>>

\* issueProject loads an approved project, one that is not locked.
Issue(s, p) ==
    /\ ~project[p].locked
    /\ Call(s, p, "issueGate")
    /\ issue' = [issue EXCEPT ![s] = project[p]]
    /\ UNCHANGED <<project, spvVars, custodyVars>>

\* Mutant: the readiness of the SPV is not asked for.
IssueGate_NoSpv(s) ==
    /\ at[s] = "issueGate"
    /\ IF Incomplete(issue[s], Waiting(held[s].p) # {})
       THEN Finish(s)
       ELSE /\ Write(s, [Blank EXCEPT !.back = "issueSave"])
            /\ Goto(s, "series") /\ UNCHANGED held
    /\ UNCHANGED <<project, calls, spvs, roles, series, approvals, rejections, custodyVars, issue>>

\* assertWalletConfigReadyForIssuance
IssueGate(s) ==
    /\ at[s] = "issueGate"
    /\ IF Incomplete(issue[s], Waiting(held[s].p) # {})
       THEN Finish(s)
       ELSE /\ Write(s, [Blank EXCEPT !.back = "issueSave"])
            /\ Goto(s, "gate") /\ UNCHANGED held
    /\ UNCHANGED <<project, calls, spvs, roles, series, approvals, rejections, custodyVars, issue>>

\* The row loaded first is saved, with the SPV of the series.
IssueSave(s) ==
    /\ at[s] = "issueSave"
    /\ SaveRow(s, [issue[s] EXCEPT !.spv = draft[s].spv, !.locked = TRUE])
    /\ issue' = [issue EXCEPT ![s] = Nothing.row]
    /\ Finish(s)
    /\ UNCHANGED <<calls, spvs, roles, series, approvals, rejections, custodyVars>>

-----------------------------------------------------------------------------
\* One project is prepared, or issued and waiting for a custody change though a save of
\* a row loaded before has lost its lock; the others are new.
Init ==
    /\ \E p \in Projects, issued \in BOOLEAN :
         /\ SpvInit(p, issued) /\ CustodyInit(p, issued)
         /\ project = [q \in Projects |-> [NewRow(FirstMode) EXCEPT !.spv = IF q = p THEN 1 ELSE 0]]
    /\ at = [s \in Sessions |-> "idle"]
    /\ held = [s \in Sessions |-> Nothing]
    /\ calls = 0
    /\ issue = [s \in Sessions |-> Nothing.row]

Step(s) ==
    \/ SpvStep(s) /\ UNCHANGED <<custodyVars, issue>>
    \/ CustodyStep(s) /\ UNCHANGED <<spvVars, issue>>
    \/ IssueGate(s) \/ IssueSave(s)

Next ==
    \E s \in Sessions :
        \/ Step(s)
        \/ SpvCall(s) /\ UNCHANGED <<custodyVars, issue>>
        \/ CustodyCall(s) /\ UNCHANGED <<spvVars, issue>>
        \/ \E p \in Projects : Issue(s, p)

Spec == Init /\ [][Next]_prepVars

-----------------------------------------------------------------------------
TypeOK ==
    /\ SpvTypeOK /\ CustodyTypeOK
    /\ issue \in [Sessions -> Rows]

\* A locked project has its series, and an SPV all of whose roles somebody has approved:
\* neither the endpoint that creates a series without asking, nor an SPV exchanged
\* between the check and the series, nor a stale save makes an issued project without.
LockedWasReady ==
    \A p \in Projects : project[p].locked =>
        /\ SeriesOf(p) # {}
        /\ \E i \in DOMAIN spvs : \A r \in Roles : LinksFor(i, r) \cap approvals # {}
=============================================================================
