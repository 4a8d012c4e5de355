----------------------------- MODULE Distribution -----------------------------
(***************************************************************************)
(* One distribution event of a project: calculateEntitlements divides the  *)
(* net amount over the settled positions of the ledger and writes it three *)
(* times, as entitlements and payouts for the admin and as the records an  *)
(* investor sees; every GET of an investor first backfills the records of  *)
(* calculated events that have none.  No transaction spans two tables, so  *)
(* calculations, reads, purchases and crashes interleave at every await.   *)
(*                                                                         *)
(* A share is kept as units of total: the net amount of a row is           *)
(* net * units / total.  Nothing in the code settles a payout or completes *)
(* or cancels an event, and the event's own columns are written once, so   *)
(* its amounts, dates, payout status and the record status computed from   *)
(* them are left out.                                                      *)
(***************************************************************************)
EXTENDS OwnershipLedger, FiniteSetsExt

CONSTANTS Calculations,  \* POST admin/events/:eventId/calculate
          Readers,       \* GETs of distributions or of the summary
          Scope,         \* positions that the event's custody scope covers
          Distributor,   \* the inventory position, which has no user
          MayCrash       \* whether a call can stop between two awaits

Owners == Buyers \cup {Distributor}

ASSUME DistributionAssumption ==
    /\ Distributor \notin Buyers
    /\ Scope \subseteq Owners
    /\ IsFiniteSet(Buyers)
    /\ Calculations \cap Readers = {}
    /\ MayCrash \in BOOLEAN

Callers == Calculations \cup Readers

VARIABLES event,        \* status of the event
          entitlements, \* rows of distribution_entitlement
          payouts,      \* rows of distribution_payout
          records,      \* rows of distributions
          at,           \* the await each call has reached
          view,         \* the entitlements a call works with
          found,        \* the records a call has read and will overwrite
          overlapped    \* calls that ran while another one was running

distVars == <<event, entitlements, payouts, records, at, view, found, overlapped>>
vars == <<ledgerVars, distVars>>

Init ==
    /\ LedgerInit
    /\ event = "DRAFT"
    /\ entitlements = {} /\ payouts = {} /\ records = {}
    /\ at = [c \in Callers |-> "idle"]
    /\ view = [c \in Callers |-> {}]
    /\ found = [c \in Callers |-> {}]
    /\ overlapped = {}

-----------------------------------------------------------------------------
Running == {c \in Callers : at[c] \notin {"idle", "done", "failed"}}

Goto(c, l) == at' = [at EXCEPT ![c] = l]

Enter(c, l) ==
    /\ at[c] = "idle"
    /\ Goto(c, l)
    /\ overlapped' = IF Running = {} THEN overlapped ELSE overlapped \cup Running \cup {c}

\* An active, settled position exists while it holds something.
Amount == [o \in Owners |-> IF o = Distributor THEN inventory ELSE holding[o]]

Held == {o \in Scope : Amount[o] > 0}

TotalUnits(amounts, held) == MapThenSumSet(LAMBDA o : amounts[o], held)

Share(c, o, amounts, held) ==
    [by |-> c, owner |-> o, units |-> amounts[o], total |-> TotalUnits(amounts, held)]

\* Mutant: positions count before they are settled.
ReadPositions_Unsettled(c) ==
    LET pending(o) == {r \in Requests : outcome[r] = "open" /\ call[r].buyer = o}
        amounts == [o \in Owners |->
                      Amount[o] + MapThenSumSet(LAMBDA r : call[r].amount, pending(o))]
        held == {o \in Scope : amounts[o] > 0}
    IN /\ Enter(c, "deleteEntitlements")
       /\ view' = [view EXCEPT ![c] = {Share(c, o, amounts, held) : o \in held}]
       /\ UNCHANGED <<ledgerVars, event, entitlements, payouts, records, found>>

\* The event is neither COMPLETED nor CANCELLED and has an amount; the units of
\* the positions are read once and used for all that follows.
ReadPositions(c) ==
    /\ Enter(c, "deleteEntitlements")
    /\ view' = [view EXCEPT ![c] = {Share(c, o, Amount, Held) : o \in Held}]
    /\ UNCHANGED <<ledgerVars, event, entitlements, payouts, records, found>>

\* Mutant: the entitlements of the last calculation stay.
DeleteEntitlements_Keeps(c) ==
    /\ at[c] = "deleteEntitlements"
    /\ Goto(c, "deletePayouts")
    /\ UNCHANGED <<ledgerVars, event, entitlements, payouts, records, view, found, overlapped>>

DeleteEntitlements(c) ==
    /\ at[c] = "deleteEntitlements"
    /\ entitlements' = {}
    /\ Goto(c, "deletePayouts")
    /\ UNCHANGED <<ledgerVars, event, payouts, records, view, found, overlapped>>

\* Only now is a calculation without positions refused.
DeletePayouts(c) ==
    /\ at[c] = "deletePayouts"
    /\ payouts' = {}
    /\ Goto(c, IF view[c] = {} THEN "failed" ELSE "saveEntitlements")
    /\ UNCHANGED <<ledgerVars, event, entitlements, records, view, found, overlapped>>

\* The check that follows compares this call's own rows with the net amount.
SaveEntitlements(c) ==
    /\ at[c] = "saveEntitlements"
    /\ entitlements' = entitlements \cup view[c]
    /\ Goto(c, "savePayouts")
    /\ UNCHANGED <<ledgerVars, event, payouts, records, view, found, overlapped>>

\* One payout for each entitlement, with its amounts.
SavePayouts(c) ==
    /\ at[c] = "savePayouts"
    /\ payouts' = payouts \cup view[c]
    /\ Goto(c, "sync")
    /\ UNCHANGED <<ledgerVars, event, entitlements, records, view, found, overlapped>>

\* The updates of the event's row: the status of the entity loaded long before.
Finish(c) ==
    /\ at[c] = "finish"
    /\ event' = "CALCULATED"
    /\ Goto(c, "done")
    /\ UNCHANGED <<ledgerVars, entitlements, payouts, records, view, found, overlapped>>

-----------------------------------------------------------------------------
(* ensureDistributionLedgerBackfilled, which every investor's GET awaits.   *)

\* Mutant: only completed events are looked at.
CountRecords_Completed(c) ==
    /\ Enter(c, IF event = "COMPLETED" /\ records = {} THEN "read" ELSE "done")
    /\ UNCHANGED <<ledgerVars, event, entitlements, payouts, records, view, found>>

CountRecords(c) ==
    /\ Enter(c, IF event \in {"CALCULATED", "COMPLETED"} /\ records = {} THEN "read" ELSE "done")
    /\ UNCHANGED <<ledgerVars, event, entitlements, payouts, records, view, found>>

ReadEntitlements(c) ==
    /\ at[c] = "read"
    /\ view' = [view EXCEPT ![c] = entitlements]
    /\ Goto(c, "sync")
    /\ UNCHANGED <<ledgerVars, event, entitlements, payouts, records, found, overlapped>>

-----------------------------------------------------------------------------
(* syncRecordsForEvent, for the entitlements a call has at hand.            *)

AfterSync(c) == IF c \in Calculations THEN "finish" ELSE "done"

\* Nothing is entitled: every record of the event goes.
DropRecords(c) ==
    /\ at[c] = "sync" /\ view[c] = {}
    /\ records' = {}
    /\ Goto(c, AfterSync(c))
    /\ UNCHANGED <<ledgerVars, event, entitlements, payouts, view, found, overlapped>>

ReadRecords(c) ==
    /\ at[c] = "sync" /\ view[c] # {}
    /\ found' = [found EXCEPT ![c] = records]
    /\ Goto(c, "saveRecords")
    /\ UNCHANGED <<ledgerVars, event, entitlements, payouts, records, view, overlapped>>

\* Mutant: the inventory is treated as a holder.
Entitled_Everyone(c) == view[c]

\* The entitlements of users: the inventory has a share but no record.
Entitled(c) == {e \in view[c] : e.owner # Distributor}

Holders(c) == {e.owner : e \in Entitled(c)}

\* A record is known by the call that inserted it and by its owner.
Key(r) == <<r.by, r.owner>>

\* The record of an entitlement: the one found for its owner, or a new one.
RecordOf(c, e) ==
    [by    |-> IF \E r \in found[c] : r.owner = e.owner
               THEN (CHOOSE r \in found[c] : r.owner = e.owner).by ELSE c,
     owner |-> e.owner, units |-> e.units, total |-> e.total]

\* When an owner has several entitlements the last of them is saved.
Saved(c) ==
    {{RecordOf(c, pick[o]) : o \in Holders(c)} :
       pick \in {f \in [Holders(c) -> Entitled(c)] : \A o \in Holders(c) : f[o].owner = o}}

\* The unique index on event and owner: a second row for an owner, here or there.
Conflict(c, rows) ==
    \/ \E w \in rows, r \in records : r.owner = w.owner /\ Key(r) # Key(w)
    \/ \E e, f \in Entitled(c) : /\ e # f /\ e.owner = f.owner
                                 /\ \A r \in found[c] : r.owner # e.owner

\* Mutant: the index is missing.
SaveRecords_NoIndex(c) ==
    /\ at[c] = "saveRecords"
    /\ \E rows \in Saved(c) :
         records' = {r \in records : \A w \in rows : Key(r) # Key(w)} \cup rows
    /\ Goto(c, "prune")
    /\ UNCHANGED <<ledgerVars, event, entitlements, payouts, view, found, overlapped>>

\* One transaction: the found records are updated (or inserted again when they
\* have gone), the others inserted; a violation of the index throws.
SaveRecords(c) ==
    /\ at[c] = "saveRecords"
    /\ \E rows \in Saved(c) :
         \/ /\ Conflict(c, rows)
            /\ Goto(c, "failed")
            /\ UNCHANGED records
         \/ /\ ~Conflict(c, rows)
            /\ records' = {r \in records : \A w \in rows : Key(r) # Key(w)} \cup rows
            /\ Goto(c, "prune")
    /\ UNCHANGED <<ledgerVars, event, entitlements, payouts, view, found, overlapped>>

\* Found records whose owner is no longer entitled are deleted by id.
Prune(c) ==
    /\ at[c] = "prune"
    /\ records' = {r \in records : r.owner \in Holders(c) \/ \A f \in found[c] : Key(f) # Key(r)}
    /\ Goto(c, AfterSync(c))
    /\ UNCHANGED <<ledgerVars, event, entitlements, payouts, view, found, overlapped>>

-----------------------------------------------------------------------------
\* An exception or a crash at an await: what was written stays.
Fail(c) ==
    /\ MayCrash /\ c \in Running
    /\ Goto(c, "failed")
    /\ UNCHANGED <<ledgerVars, event, entitlements, payouts, records, view, found, overlapped>>

Calculate(c) ==
    \/ ReadPositions(c) \/ DeleteEntitlements(c) \/ DeletePayouts(c)
    \/ SaveEntitlements(c) \/ SavePayouts(c) \/ Finish(c)

Read(c) == CountRecords(c) \/ ReadEntitlements(c)

Sync(c) == DropRecords(c) \/ ReadRecords(c) \/ SaveRecords(c) \/ Prune(c)

Next ==
    \/ \E r \in Requests : (Transfer(r) \/ Refuse(r)) /\ UNCHANGED distVars
    \/ \E c \in Calculations : Calculate(c)
    \/ \E c \in Readers : Read(c)
    \/ \E c \in Callers : Sync(c) \/ Fail(c)

Spec == Init /\ [][Next]_vars

-----------------------------------------------------------------------------
Shares == [by : Calculations, owner : Owners, units : Nat \ {0}, total : Nat \ {0}]

Labels == {"idle", "deleteEntitlements", "deletePayouts", "saveEntitlements", "savePayouts",
           "read", "sync", "saveRecords", "prune", "finish", "done", "failed"}

RecordRows == [by : Callers, owner : Buyers, units : Nat \ {0}, total : Nat \ {0}]

\* Types; the records an investor is shown belong to investors, not to the
\* inventory.
TypeOK ==
    /\ LedgerTypeOK
    /\ event \in {"DRAFT", "CALCULATED"}
    /\ entitlements \subseteq Shares /\ payouts \subseteq Shares
    /\ records \subseteq RecordRows
    /\ at \in [Callers -> Labels]
    /\ view \in [Callers -> SUBSET Shares]
    /\ found \in [Callers -> SUBSET RecordRows]
    /\ overlapped \subseteq Callers

\* However calculations and backfills overlap with one another and with
\* purchases, an investor is never shown a share of more units than the ledger
\* says the investor owns (calculateEntitlements counts settled positions only,
\* and syncRecordsForEvent keys records by position).
RecordsEarned == \A r \in records : r.units <= holding[r.owner]

\* What the amounts of rows come to.
Units(rows) == MapThenSumSet(LAMBDA r : r.units, rows)

\* An event over the whole ledger never shows investors more, in all, than its
\* net amount: overlapping syncs do not leave one investor with two records.
RecordsWithinNet == Scope = Owners => Units(records) <= Supply

\* The amounts the admin is to pay do not exceed the net amount: the assertion
\* of calculateEntitlements, read of the table and not of the call's own rows.
PayoutsWithinNet == Scope = Owners => Units(payouts) <= Supply

\* The three tables tell the same story and divide the amount completely.
Content(rows) == {<<r.owner, r.units, r.total>> : r \in rows}

Agree ==
    /\ payouts = entitlements
    /\ Content(records) = Content({e \in entitlements : e.owner # Distributor})
    /\ \A e \in entitlements : e.total = Units(entitlements)

\* Whatever crashes and overlapping calls have left behind, a recalculation that
\* runs from start to finish without another call brings entitlements, payouts
\* and records back into agreement, even while purchases settle.
RecalculationRepairs ==
    [][\A c \in Calculations :
         at[c] = "finish" /\ at'[c] = "done" /\ c \notin overlapped => Agree']_vars

\* A GET that runs alone never answers "no distributions" for a calculated event
\* with entitled investors: ensureDistributionLedgerBackfilled fills it first.
BackfillHeals ==
    [][\A c \in Readers :
         /\ at[c] # "done" /\ at'[c] = "done" /\ c \notin overlapped'
         /\ event = "CALCULATED" /\ \E e \in entitlements : e.owner # Distributor
         => records' # {}]_vars
=============================================================================
