----------------------------- MODULE CustodyConfig -----------------------------
(***************************************************************************)
(* Custody modes of the developer and of the projects: the requests to     *)
(* change them, their review by admins, the wallet configuration, and the  *)
(* block that keeps a project from being issued.                           *)
(*                                                                         *)
(* Of the wallet configuration only the custody mode is kept; whether it is *)
(* complete is whether the project has an SPV.                             *)
(***************************************************************************)
EXTENDS ProjectRow

VARIABLES profile,   \* the developer's custody mode
          requests,  \* rows of custody_change_request
          review,    \* what each session has read, or decided
          applied    \* requests whose mode has been saved, or accepted for a locked project

custodyVars == <<profile, requests, review, applied>>

RequestStatuses == {"pending", "more_info_required", "approved", "rejected"}
Undecided == {"pending", "more_info_required"}

\* kind: a request of the developer, or of a project.
Requests == [kind : {"developer", "project"}, project : Projects \cup {NoProject}, mode : Modes,
             status : RequestStatuses]

\* id: the request under review, 0 for none; waiting: a request of the project was found.
Reviews == [id : Nat, request : Requests, mode : Modes, waiting : BOOLEAN]

Idle == [id |-> 0, mode |-> FirstMode, waiting |-> FALSE,
         request |-> [kind |-> "developer", project |-> NoProject, mode |-> FirstMode,
                      status |-> "pending"]]

Note(s, v) == review' = [review EXCEPT ![s] = v]

End(s) == Return(s) /\ Note(s, Idle)

\* The requests findOne looks for: those of the project that are not decided.
Waiting(p) ==
    {k \in DOMAIN requests : /\ requests[k].kind = "project" /\ requests[k].project = p
                             /\ requests[k].status \in Undecided}

\* The blocking reasons of buildProjectCustodyReadiness.
Incomplete(row, waiting) == row.spv = 0 \/ row.blocked \/ waiting

-----------------------------------------------------------------------------
(* Requests: requestCustodyModeChange and requestPostIssuanceWalletChange. *)

\* The requested mode waits in the profile, next to the one in use.
AskMode(s, m) ==
    /\ m # profile
    /\ Begin(s, "askSave")
    /\ Note(s, [Idle EXCEPT !.mode = profile, !.request.mode = m])
    /\ UNCHANGED <<project, held, profile, requests, applied>>

\* Mutant: the requested mode is written over the one in use.
AskSave_Requested(s) ==
    /\ at[s] = "askSave"
    /\ profile' = review[s].request.mode
    /\ Goto(s, "askInsert")
    /\ UNCHANGED <<project, held, calls, requests, review, applied>>

\* The profile is saved whole, with the mode that was read, as by its other edits.
AskSave(s) ==
    /\ at[s] = "askSave"
    /\ profile' = review[s].mode
    /\ Goto(s, "askInsert")
    /\ UNCHANGED <<project, held, calls, requests, review, applied>>

\* Only a locked project asks; the others change their configuration themselves.
AskWallet(s, p, m) ==
    /\ project[p].locked /\ m # project[p].mode
    /\ Call(s, p, "askInsert")
    /\ Note(s, [Idle EXCEPT !.request = [kind |-> "project", project |-> p, mode |-> m,
                                         status |-> "pending"]])
    /\ UNCHANGED <<project, profile, requests, applied>>

AskInsert(s) ==
    /\ at[s] = "askInsert"
    /\ requests' = Append(requests, review[s].request)
    /\ End(s)
    /\ UNCHANGED <<project, calls, profile, applied>>

-----------------------------------------------------------------------------
(* reviewCustodyChangeRequest.                                             *)

\* Mutant: the request is saved before what it approves.
Review_SavedFirst(s, k, decision) ==
    /\ k \in DOMAIN requests /\ requests[k].status \in Undecided
    /\ Begin(s, IF requests[k].kind = "developer" THEN "reviewProfile"
                ELSE IF decision = "approved" THEN "reviewProject" ELSE "reviewSave")
    /\ Note(s, [Idle EXCEPT !.id = k, !.request = [requests[k] EXCEPT !.status = decision]])
    /\ requests' = [requests EXCEPT ![k].status = decision]
    /\ UNCHANGED <<project, held, profile, applied>>

\* The request is loaded and found undecided; another admin may decide it meanwhile.
Review(s, k, decision) ==
    /\ k \in DOMAIN requests /\ requests[k].status \in Undecided
    /\ Begin(s, IF requests[k].kind = "developer" THEN "reviewProfile"
                ELSE IF decision = "approved" THEN "reviewProject" ELSE "reviewSave")
    /\ Note(s, [Idle EXCEPT !.id = k, !.request = [requests[k] EXCEPT !.status = decision]])
    /\ UNCHANGED <<project, held, profile, requests, applied>>

Approves(s) == review[s].request.status = "approved"

\* Every decision loads and saves the profile; an approval gives it the mode.
ReviewProfile(s) ==
    /\ at[s] = "reviewProfile"
    /\ Note(s, [review[s] EXCEPT !.mode = IF Approves(s) THEN review[s].request.mode ELSE profile])
    /\ Goto(s, "reviewProfileSave")
    /\ UNCHANGED <<project, held, calls, profile, requests, applied>>

ReviewProfileSave(s) ==
    /\ at[s] = "reviewProfileSave"
    /\ profile' = review[s].mode
    /\ applied' = IF Approves(s) THEN applied \cup {review[s].id} ELSE applied
    /\ Goto(s, "reviewSave")
    /\ UNCHANGED <<project, held, calls, requests, review>>

\* The change of a locked project is accepted for execution by hand; another one is
\* applied by updateProjectWalletConfig.  The block cleared in between is cleared on an
\* entity nobody saves.
ReviewProject(s) ==
    /\ at[s] = "reviewProject"
    /\ LET p == review[s].request.project
       IN IF project[p].locked
          THEN Goto(s, "reviewSave") /\ applied' = applied \cup {review[s].id}
          ELSE Goto(s, "wallet") /\ UNCHANGED applied
    /\ UNCHANGED <<project, held, calls, profile, requests, review>>

ReviewSave(s) ==
    /\ at[s] = "reviewSave"
    /\ requests' = [requests EXCEPT ![review[s].id] = review[s].request]
    /\ End(s)
    /\ UNCHANGED <<project, calls, profile, applied>>

-----------------------------------------------------------------------------
(* updateProjectWalletConfig, by an admin or for an approved request.      *)

ChangeWallet(s, p, m) ==
    /\ Begin(s, "wallet")
    /\ Note(s, [Idle EXCEPT !.request.project = p, !.request.mode = m])
    /\ UNCHANGED <<project, held, profile, requests, applied>>

\* It loads the project again, and refuses a locked one and an update without changes.
LoadWallet(s) ==
    /\ at[s] = "wallet"
    /\ LET p == review[s].request.project
       IN IF project[p].locked \/ project[p].mode = review[s].request.mode
          THEN End(s)
          ELSE LoadRow(s, p) /\ Goto(s, "walletSave") /\ UNCHANGED review
    /\ UNCHANGED <<project, calls, profile, requests, applied>>

\* The setup status is computed without looking for a waiting request.
SaveWallet(s) ==
    /\ at[s] = "walletSave"
    /\ SaveRow(s, [held[s].row EXCEPT !.mode = review[s].request.mode,
                                      !.open = Incomplete(held[s].row, FALSE)])
    /\ IF review[s].id = 0
       THEN End(s) /\ UNCHANGED applied
       ELSE /\ applied' = applied \cup {review[s].id}
            /\ Goto(s, "reviewSave") /\ UNCHANGED <<held, review>>
    /\ UNCHANGED <<calls, profile, requests>>

-----------------------------------------------------------------------------
(* markProjectCustodyReviewed, blockProjectIssuanceForCustody and          *)
(* clearProjectCustodyIssuanceBlock: the first and the last look for a     *)
(* waiting request after they have loaded the project.                     *)

MarkReviewed(s, p) ==
    /\ Call(s, p, "markFind") /\ UNCHANGED <<project, custodyVars>>

MarkFind(s) ==
    /\ at[s] = "markFind"
    /\ Note(s, [Idle EXCEPT !.waiting = Waiting(held[s].p) # {}])
    /\ Goto(s, "markSave")
    /\ UNCHANGED <<project, held, calls, profile, requests, applied>>

\* Mutant: a block is no reason to call the setup incomplete.
MarkSave_IgnoresBlock(s) ==
    /\ at[s] = "markSave"
    /\ SaveRow(s, [held[s].row EXCEPT !.open = held[s].row.spv = 0 \/ review[s].waiting])
    /\ End(s)
    /\ UNCHANGED <<calls, profile, requests, applied>>

MarkSave(s) ==
    /\ at[s] = "markSave"
    /\ SaveRow(s, [held[s].row EXCEPT !.open = Incomplete(held[s].row, review[s].waiting)])
    /\ End(s)
    /\ UNCHANGED <<calls, profile, requests, applied>>

Block(s, p) ==
    /\ Call(s, p, "blockSave") /\ UNCHANGED <<project, custodyVars>>

BlockSave(s) ==
    /\ at[s] = "blockSave"
    /\ SaveRow(s, [held[s].row EXCEPT !.blocked = TRUE, !.open = TRUE])
    /\ End(s)
    /\ UNCHANGED <<calls, profile, requests, applied>>

Clear(s, p) ==
    /\ Call(s, p, "clearFind") /\ UNCHANGED <<project, custodyVars>>

\* Anything but the block itself is a reason to refuse.
ClearFind(s) ==
    /\ at[s] = "clearFind"
    /\ IF held[s].row.spv = 0 \/ Waiting(held[s].p) # {}
       THEN End(s)
       ELSE Goto(s, "clearSave") /\ UNCHANGED <<held, review>>
    /\ UNCHANGED <<project, calls, profile, requests, applied>>

ClearSave(s) ==
    /\ at[s] = "clearSave"
    /\ SaveRow(s, [held[s].row EXCEPT !.blocked = FALSE, !.open = FALSE])
    /\ End(s)
    /\ UNCHANGED <<calls, profile, requests, applied>>

-----------------------------------------------------------------------------
CustodyInit(p, issued) ==
    /\ profile = FirstMode /\ applied = {}
    /\ requests = IF issued THEN <<[kind |-> "project", project |-> p, status |-> "pending",
                                     mode |-> CHOOSE m \in Modes : m # FirstMode]>> ELSE <<>>
    /\ review = [s \in Sessions |-> Idle]

CustodyCall(s) ==
    \/ \E m \in Modes : AskMode(s, m) \/ \E p \in Projects : AskWallet(s, p, m) \/ ChangeWallet(s, p, m)
    \/ \E k \in DOMAIN requests, d \in RequestStatuses \ {"pending"} : Review(s, k, d)
    \/ \E p \in Projects : MarkReviewed(s, p) \/ Block(s, p) \/ Clear(s, p)

CustodyStep(s) ==
    \/ AskSave(s) \/ AskInsert(s)
    \/ ReviewProfile(s) \/ ReviewProfileSave(s) \/ ReviewProject(s) \/ ReviewSave(s)
    \/ LoadWallet(s) \/ SaveWallet(s)
    \/ MarkFind(s) \/ MarkSave(s) \/ BlockSave(s) \/ ClearFind(s) \/ ClearSave(s)

-----------------------------------------------------------------------------
CustodyTypeOK ==
    /\ profile \in Modes
    /\ requests \in Seq(Requests)
    /\ review \in [Sessions -> Reviews]
    /\ applied \subseteq DOMAIN requests

\* A request that says approved has had its mode saved, or accepted for a locked
\* project: the saves of profile, project and request are separate, two admins may
\* decide one request, and an application that fails must leave it undecided.
ApprovedIsApplied ==
    \A k \in DOMAIN requests : requests[k].status = "approved" => k \in applied

\* The mode in use is the first one or one an admin has approved, whatever stale
\* profiles are saved.
ModeWasApproved ==
    \/ profile = FirstMode
    \/ \E k \in applied : requests[k].kind = "developer" /\ requests[k].mode = profile

\* A blocked project never shows its custody setup as complete: the block and the
\* status are written by five handlers, all of which may save old rows.
BlockedIsOpen == \A p \in Projects : project[p].blocked => project[p].open
=============================================================================
