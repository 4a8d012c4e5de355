------------------------------- MODULE Issuance -------------------------------
(***************************************************************************)
(* One project from its draft to live sales: the handlers of the project   *)
(* service that change its row, and issueProject, which mints the supply   *)
(* on Stellar, seeds the distributor's inventory and marks the project     *)
(* issued.  Every handler loads the project, decides, and saves the whole  *)
(* entity it loaded: between the two round trips other sessions run.       *)
(*                                                                         *)
(* A mint is a payment signed with the issuer's next sequence number; the  *)
(* network applies it only while that number is still the next one, maybe  *)
(* after the request has given up waiting for the answer.                  *)
(***************************************************************************)
EXTENDS Integers

CONSTANTS Admins, Developers,  \* sessions, each making one call at a time
          Supply,              \* token supply of the project
          MayCrash,            \* whether a process may stop in the middle of a call
          MaxSeq, MaxSold      \* bounds of the issuer's sequence number and of the sales

ASSUME IssuanceAssumption ==
    /\ Supply \in Nat \ {0}
    /\ MayCrash \in BOOLEAN
    /\ MaxSeq \in Nat /\ MaxSold \in Nat
    /\ Admins \cap Developers = {}

VARIABLES project,    \* the row: review status, issuance status, custody block
          pc,         \* the await each session is at
          loaded,     \* the entity each session has loaded, as it will be saved
          tx,         \* the mint of each session: its sequence number and what became of it
          seq,        \* sequence number of the issuer account
          orphans,    \* sequence numbers of mints in flight that no session waits for
          minted,     \* tokens ever minted
          balance,    \* tokens in the distributor's Stellar account
          inventory,  \* amount of the distributor's ownership position
          sold        \* tokens sold to investors

network == <<tx, seq, orphans, minted, balance>>
vars == <<project, pc, loaded, network, inventory, sold>>

Sessions == Admins \cup Developers

ReviewStatuses == {"draft", "under_review", "changes_requested", "approved",
                   "issued", "live", "locked"}

IssuanceStatuses == {"not_started", "pending", "completed", "failed"}

Rows == [status : ReviewStatuses, issuance : IssuanceStatuses, blocked : BOOLEAN]

\* createProject
NewProject == [status |-> "draft", issuance |-> "not_started", blocked |-> FALSE]

NoTx == [number |-> 0, state |-> "none"]

Init ==
    /\ project = NewProject
    /\ pc = [s \in Sessions |-> "idle"]
    /\ loaded = [s \in Sessions |-> NewProject]
    /\ tx = [s \in Sessions |-> NoTx]
    /\ seq = 0 /\ orphans = {} /\ minted = 0 /\ balance = 0
    /\ inventory = 0 /\ sold = 0

-----------------------------------------------------------------------------
(* Handlers that load the project, change it and save it.                   *)

\* allowedTransitions of transitionProject
Transitions ==
    [draft             |-> {"under_review", "locked"},
     under_review      |-> {"changes_requested", "approved", "locked"},
     changes_requested |-> {"under_review", "locked"},
     approved          |-> {"issued", "locked"},
     issued            |-> {"live", "locked"},
     live              |-> {"locked"},
     locked            |-> {}]

Transition(e, status) == [e EXCEPT !.status = status]

\* Mutant: a project can be edited at any time.
Edits_AnyStatus(e) == {e, Transition(e, "under_review")}

\* updateProject and submitProject save a project that is still editable.
Edits(e) == IF e.status \in {"draft", "changes_requested"}
            THEN {e, Transition(e, "under_review")} ELSE {}

\* Mutant: any issued project can go live.
Reviews_LiveEarly(e) ==
    {[Transition(e, "approved") EXCEPT !.issuance = "not_started"] :
        t \in Transitions[e.status] \cap {"approved"}}
    \cup {Transition(e, t) : t \in Transitions[e.status] \cap {"changes_requested", "locked"}}
    \cup {Transition(e, t) : t \in Transitions[e.status] \cap {"live"}}

\* approveProject, requestChanges, lockProject and goLive
Reviews(e) ==
    {[Transition(e, "approved") EXCEPT !.issuance = "not_started"] :
        t \in Transitions[e.status] \cap {"approved"}}
    \cup {Transition(e, t) : t \in Transitions[e.status] \cap {"changes_requested", "locked"}}
    \cup {Transition(e, t) : t \in {x \in Transitions[e.status] \cap {"live"} :
                                        e.issuance = "completed"}}

\* Blocking issuance for custody and clearing the block save the project in
\* whatever status it was loaded.
Blocks(e) == {[e EXCEPT !.blocked = b] : b \in BOOLEAN}

Load(s) ==
    /\ pc[s] = "idle"
    /\ \E e \in IF s \in Developers THEN Edits(project) ELSE Reviews(project) \cup Blocks(project) :
         loaded' = [loaded EXCEPT ![s] = e]
    /\ pc' = [pc EXCEPT ![s] = "save"]
    /\ UNCHANGED <<project, network, inventory, sold>>

\* projectRepo.save of the entity.
SaveRow(s, at) ==
    /\ pc[s] = at
    /\ project' = loaded[s]
    /\ UNCHANGED <<network, inventory, sold>>

Goto(s, l) == pc' = [pc EXCEPT ![s] = l]

\* The call ends, and its entity with it.
Return(s) == Goto(s, "idle") /\ loaded' = [loaded EXCEPT ![s] = NewProject]

Save(s) == SaveRow(s, "save") /\ Return(s)

-----------------------------------------------------------------------------
(* issueProject.                                                            *)

\* The status, pending and custody checks; SPV and series are ready.
IssueLoad(s) ==
    /\ s \in Admins /\ pc[s] = "idle"
    /\ project.status = "approved" /\ project.issuance # "pending"
    /\ ~project.blocked
    /\ loaded' = [loaded EXCEPT ![s] = project]
    /\ Goto(s, "preflight")
    /\ UNCHANGED <<project, network, inventory, sold>>

Issued(e) == [Transition(e, "issued") EXCEPT !.issuance = "completed"]

\* Mutant: any balance counts as an earlier issuance.
Preflight_AnyBalance(s) ==
    /\ pc[s] = "preflight"
    /\ IF balance >= 0
       THEN loaded' = [loaded EXCEPT ![s] = Issued(@)] /\ Goto(s, "seedOnly")
       ELSE loaded' = [loaded EXCEPT ![s].issuance = "pending"] /\ Goto(s, "savePending")
    /\ UNCHANGED <<project, network, inventory, sold>>

\* Mutant: an issuance that finds its supply only marks the project issued.
Preflight_Unseeded(s) ==
    /\ pc[s] = "preflight"
    /\ IF balance >= Supply
       THEN loaded' = [loaded EXCEPT ![s] = Issued(@)] /\ Goto(s, "save")
       ELSE loaded' = [loaded EXCEPT ![s].issuance = "pending"] /\ Goto(s, "savePending")
    /\ UNCHANGED <<project, network, inventory, sold>>

\* validateIssuancePrerequisites reads the distributor's balance: a supply that is
\* already there is not minted again.
Preflight(s) ==
    /\ pc[s] = "preflight"
    /\ IF balance >= Supply
       THEN loaded' = [loaded EXCEPT ![s] = Issued(@)] /\ Goto(s, "seedOnly")
       ELSE loaded' = [loaded EXCEPT ![s].issuance = "pending"] /\ Goto(s, "savePending")
    /\ UNCHANGED <<project, network, inventory, sold>>

SavePending(s) == SaveRow(s, "savePending") /\ Goto(s, "build") /\ UNCHANGED loaded

\* issueToDistribution loads the issuer account for its sequence number.
Build(s) ==
    /\ pc[s] = "build"
    /\ tx' = [tx EXCEPT ![s] = [number |-> seq + 1, state |-> "built"]]
    /\ Goto(s, "submit")
    /\ UNCHANGED <<project, loaded, seq, orphans, minted, balance, inventory, sold>>

Submit(s) ==
    /\ pc[s] = "submit"
    /\ tx' = [tx EXCEPT ![s].state = "flight"]
    /\ Goto(s, "await")
    /\ UNCHANGED <<project, loaded, seq, orphans, minted, balance, inventory, sold>>

Answered(s) ==
    /\ pc[s] = "await" /\ tx[s].state = "applied"
    /\ tx' = [tx EXCEPT ![s] = NoTx]
    /\ Goto(s, "seed")
    /\ UNCHANGED <<project, loaded, seq, orphans, minted, balance, inventory, sold>>

\* seedDistributorInventory sets the amount of the distributor's position; the
\* project becomes issued in memory.
Seed(s) ==
    /\ pc[s] \in {"seed", "seedOnly"}
    /\ inventory' = Supply
    /\ loaded' = [loaded EXCEPT ![s] = Issued(@)]
    /\ Goto(s, IF pc[s] = "seed" THEN "finish" ELSE "save")
    /\ UNCHANGED <<project, network, sold>>

Finish(s) == SaveRow(s, "finish") /\ Goto(s, "serialize") /\ UNCHANGED loaded

\* The answer is built from further queries, still inside the try block.
Serialize(s) ==
    /\ pc[s] = "serialize"
    /\ Return(s)
    /\ UNCHANGED <<project, network, inventory, sold>>

\* A mint that no session waits for any more may still be applied.
Abandoned(s) == IF tx[s].state = "flight" THEN orphans \cup {tx[s].number} ELSE orphans

\* Mutant: the answer of the network is awaited for as long as it takes.
Throw_NoTimeout(s) ==
    /\ pc[s] \in {"build", "submit", "seed", "finish", "serialize"}
    /\ orphans' = Abandoned(s)
    /\ tx' = [tx EXCEPT ![s] = NoTx]
    /\ loaded' = [loaded EXCEPT ![s].issuance = "failed"]
    /\ Goto(s, "saveFailed")
    /\ UNCHANGED <<project, seq, minted, balance, inventory, sold>>

\* Any await in the try block may throw: an unreachable or refusing network, a
\* lost answer, a database error.
Throw(s) ==
    /\ pc[s] \in {"build", "submit", "await", "seed", "finish", "serialize"}
    /\ orphans' = Abandoned(s)
    /\ tx' = [tx EXCEPT ![s] = NoTx]
    /\ loaded' = [loaded EXCEPT ![s].issuance = "failed"]
    /\ Goto(s, "saveFailed")
    /\ UNCHANGED <<project, seq, minted, balance, inventory, sold>>

SaveFailed(s) == SaveRow(s, "saveFailed") /\ Return(s)

\* The call ends at its next await, by an exception that nothing handles or with
\* its process.
Crash(s) ==
    /\ MayCrash
    /\ pc[s] # "idle"
    /\ orphans' = Abandoned(s)
    /\ tx' = [tx EXCEPT ![s] = NoTx]
    /\ Return(s)
    /\ UNCHANGED <<project, seq, minted, balance, inventory, sold>>

-----------------------------------------------------------------------------
(* The network and the investors.                                           *)

Mint ==
    /\ seq < MaxSeq
    /\ seq' = seq + 1
    /\ minted' = minted + Supply
    /\ balance' = balance + Supply
    /\ UNCHANGED <<project, pc, loaded, inventory, sold>>

Apply(s) ==
    /\ tx[s].state = "flight" /\ tx[s].number = seq + 1
    /\ Mint
    /\ tx' = [tx EXCEPT ![s].state = "applied"]
    /\ UNCHANGED orphans

ApplyOrphan ==
    /\ seq + 1 \in orphans
    /\ Mint
    /\ orphans' = orphans \ {seq + 1}
    /\ UNCHANGED tx

\* The issuer account is shared: another project's mint takes the next number.
OtherMint ==
    /\ seq < MaxSeq
    /\ seq' = seq + 1
    /\ UNCHANGED <<project, pc, loaded, tx, orphans, minted, balance, inventory, sold>>

\* A purchase of one token (Purchase): only live projects are sold.  A
\* self-custody purchase also moves the token on the chain, a custody one does not.
Sell ==
    /\ project.status = "live" /\ inventory > 0 /\ sold < MaxSold
    /\ inventory' = inventory - 1
    /\ sold' = sold + 1
    /\ balance' \in {balance} \cup ({balance - 1} \cap Nat)
    /\ UNCHANGED <<project, pc, loaded, tx, seq, orphans, minted>>

-----------------------------------------------------------------------------
Issue(s) == Preflight(s) \/ SavePending(s) \/ Build(s) \/ Submit(s) \/ Answered(s)
            \/ Seed(s) \/ Finish(s) \/ Serialize(s) \/ Throw(s) \/ SaveFailed(s)

Next ==
    \/ \E s \in Sessions : Load(s) \/ Save(s) \/ IssueLoad(s) \/ Issue(s) \/ Apply(s) \/ Crash(s)
    \/ ApplyOrphan \/ OtherMint \/ Sell

Spec == Init /\ [][Next]_vars

\* The event loop drives a call on, and an answer or an error comes back in the end.
FairSpec == Spec /\ \A s \in Sessions : WF_vars(Issue(s) \/ Save(s))

-----------------------------------------------------------------------------
TypeOK ==
    /\ project \in Rows
    /\ pc \in [Sessions -> {"idle", "save", "preflight", "savePending", "build", "submit",
                            "await", "seed", "seedOnly", "finish", "serialize", "saveFailed"}]
    /\ loaded \in [Sessions -> Rows]
    /\ tx \in [Sessions -> [number : 0..MaxSeq + 1, state : {"none", "built", "flight", "applied"}]]
    /\ seq \in 0..MaxSeq
    /\ orphans \subseteq 0..MaxSeq + 1
    /\ minted \in Nat /\ balance \in 0..minted
    /\ inventory \in 0..Supply /\ sold \in 0..MaxSold

\* Tokens are offered, and a project reads as issued, only once they exist: the
\* inventory is seeded and the row completed after a mint has been applied, by
\* whichever of the concurrent or retried issuances.
OfferedIsMinted ==
    inventory + sold > 0 \/ project.issuance = "completed" => minted >= Supply

\* A project on sale is one whose issuance completed, in spite of failed
\* issuances that leave an issued row behind and of stale saves.
LiveIsCompleted == project.status = "live" => project.issuance = "completed"

\* Investors never hold more tokens than the project has.
SoldWithinSupply == sold <= Supply

\* Once the issuance has completed, what is left and what is sold is the supply.
\* For one admin and one developer session at a time.
InventoryIsComplete == project.issuance = "completed" => inventory + sold = Supply

\* Every call on the project ends, and lets its session make the next one.
CallsEnd == \A s \in Sessions : pc[s] # "idle" ~> pc[s] = "idle"

-----------------------------------------------------------------------------
(* What the tests and messages of the code say, and the code does not do.   *)

\* A failed issuance can be retried: issueProject accepts only approved projects.
FailedCanRetry == project.issuance = "failed" => project.status \in {"approved", "locked"}
=============================================================================
