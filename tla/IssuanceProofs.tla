---------------------------- MODULE IssuanceProofs ----------------------------
(* Theorems about Issuance, for any sessions and any supply.                 *)
EXTENDS Issuance, TLAPS

USE IssuanceAssumption

-----------------------------------------------------------------------------
(* Type correctness.                                                        *)

LEMMA InitType == Init => TypeOK
BY DEF Init, TypeOK, Rows, NewProject, NoTx, ReviewStatuses, IssuanceStatuses, Sessions

\* What a handler saves is a row.
LEMMA HandlerRows ==
    ASSUME NEW e \in Rows
    PROVE  Edits(e) \cup Reviews(e) \cup Blocks(e) \subseteq Rows
<1>1. Edits(e) \subseteq Rows
  BY DEF Edits, Transition, Rows, ReviewStatuses
<1>2. Blocks(e) \subseteq Rows
  BY DEF Blocks, Rows
<1>3. \A t \in ReviewStatuses : Transition(e, t) \in Rows
  BY DEF Transition, Rows
<1>4. [Transition(e, "approved") EXCEPT !.issuance = "not_started"] \in Rows
  BY DEF Transition, Rows, ReviewStatuses, IssuanceStatuses
<1>5. Reviews(e) \subseteq Rows
  <2>1. \A t : t \in {"changes_requested", "locked", "live"} => Transition(e, t) \in Rows
    BY <1>3 DEF ReviewStatuses
  <2>. QED BY <1>4, <2>1 DEF Reviews
<1>. QED BY <1>1, <1>2, <1>5

LEMMA EntityRows ==
    ASSUME NEW e \in Rows
    PROVE  /\ NewProject \in Rows /\ Issued(e) \in Rows
           /\ \A i \in IssuanceStatuses : [e EXCEPT !.issuance = i] \in Rows
BY DEF NewProject, Issued, Transition, Rows, ReviewStatuses, IssuanceStatuses

Txs == [number : 0..MaxSeq + 1, state : {"none", "built", "flight", "applied"}]

Places == {"idle", "save", "preflight", "savePending", "build", "submit", "await", "seed",
           "seedOnly", "finish", "serialize", "saveFailed"}

LEMMA TypeStep == TypeOK /\ [Next]_vars => TypeOK'
<1>. SUFFICES ASSUME TypeOK, [Next]_vars PROVE TypeOK'
  OBVIOUS
<1>. USE DEF TypeOK, network
<1>a. \A s \in Sessions : loaded[s] \in Rows /\ tx[s] \in Txs
  BY DEF Txs
<1>1. ASSUME NEW s \in Sessions, Load(s) PROVE TypeOK'
  <2>1. PICK e \in Rows : loaded' = [loaded EXCEPT ![s] = e]
    BY <1>1, HandlerRows DEF Load
  <2>. QED BY <1>1, <2>1 DEF Load
<1>2. ASSUME NEW s \in Sessions,
             Save(s) \/ IssueLoad(s) \/ SavePending(s) \/ Finish(s) \/ Serialize(s) \/ SaveFailed(s)
      PROVE  TypeOK'
  <2>1. UNCHANGED <<network, inventory, sold>> /\ project' \in {project, loaded[s]}
    BY <1>2 DEF Save, IssueLoad, SavePending, Finish, Serialize, SaveFailed, SaveRow
  <2>2. loaded' = loaded \/ \E e \in Rows : loaded' = [loaded EXCEPT ![s] = e]
    BY <1>2, EntityRows DEF Save, IssueLoad, SavePending, Finish, Serialize, SaveFailed, Return
  <2>3. \E l \in {"idle", "build", "serialize", "preflight"} : pc' = [pc EXCEPT ![s] = l]
    BY <1>2 DEF Save, IssueLoad, SavePending, Finish, Serialize, SaveFailed, Return, Goto
  <2>. QED BY <1>a, <2>1, <2>2, <2>3
<1>3. ASSUME NEW s \in Sessions, Preflight(s) PROVE TypeOK'
  <2>1. loaded' \in {[loaded EXCEPT ![s] = Issued(loaded[s])],
                     [loaded EXCEPT ![s] = [loaded[s] EXCEPT !.issuance = "pending"]]}
    BY <1>3 DEF Preflight
  <2>2. Issued(loaded[s]) \in Rows /\ [loaded[s] EXCEPT !.issuance = "pending"] \in Rows
    BY <1>a, EntityRows DEF IssuanceStatuses
  <2>3. loaded' \in [Sessions -> Rows]
    BY <2>1, <2>2
  <2>. QED BY <1>3, <2>3 DEF Preflight, Goto
<1>4. ASSUME NEW s \in Sessions, Build(s) \/ Submit(s) \/ Answered(s) PROVE TypeOK'
  <2>1. \E t \in Txs : tx' = [tx EXCEPT ![s] = t]
    <3>1. CASE Build(s)
      <4>1. [number |-> seq + 1, state |-> "built"] \in Txs
        BY DEF Txs
      <4>. QED BY <3>1, <4>1 DEF Build
    <3>2. CASE Submit(s)
      <4>1. [tx[s] EXCEPT !.state = "flight"] \in Txs
        BY <1>a DEF Txs
      <4>. QED BY <3>2, <4>1 DEF Submit
    <3>3. CASE Answered(s)
      <4>1. NoTx \in Txs
        BY DEF NoTx, Txs
      <4>. QED BY <3>3, <4>1 DEF Answered
    <3>. QED BY <1>4, <3>1, <3>2, <3>3
  <2>2. \E l \in {"submit", "await", "seed"} : pc' = [pc EXCEPT ![s] = l]
    BY <1>4 DEF Build, Submit, Answered, Goto
  <2>3. UNCHANGED <<project, loaded, seq, orphans, minted, balance, inventory, sold>>
    BY <1>4 DEF Build, Submit, Answered
  <2>. QED BY <2>1, <2>2, <2>3 DEF Txs
<1>5. ASSUME NEW s \in Sessions, Seed(s) PROVE TypeOK'
  <2>1. loaded' \in [Sessions -> Rows]
    BY <1>5, <1>a, EntityRows DEF Seed
  <2>2. \E l \in {"finish", "save"} : pc' = [pc EXCEPT ![s] = l]
    BY <1>5 DEF Seed, Goto
  <2>. QED BY <1>5, <2>1, <2>2 DEF Seed
<1>6. ASSUME NEW s \in Sessions, Throw(s) \/ Crash(s) PROVE TypeOK'
  <2>1. orphans' \subseteq 0..MaxSeq + 1
    BY <1>6, <1>a DEF Throw, Crash, Abandoned, Txs
  <2>2. tx' \in [Sessions -> Txs]
    BY <1>6 DEF Throw, Crash, NoTx, Txs
  <2>3. loaded' \in [Sessions -> Rows]
    <3>1. [loaded[s] EXCEPT !.issuance = "failed"] \in Rows
      BY <1>a, EntityRows DEF IssuanceStatuses
    <3>2. loaded' \in {[loaded EXCEPT ![s] = [loaded[s] EXCEPT !.issuance = "failed"]],
                       [loaded EXCEPT ![s] = NewProject]}
      BY <1>6 DEF Throw, Crash, Return
    <3>. QED BY <1>a, <3>1, <3>2, EntityRows
  <2>4. \E l \in {"idle", "saveFailed"} : pc' = [pc EXCEPT ![s] = l]
    BY <1>6 DEF Throw, Crash, Goto, Return
  <2>. QED BY <1>6, <2>1, <2>2, <2>3, <2>4 DEF Throw, Crash, Txs
<1>7. ASSUME NEW s \in Sessions, Apply(s) PROVE TypeOK'
  <2>1. [tx[s] EXCEPT !.state = "applied"] \in Txs
    BY <1>a DEF Txs
  <2>2. tx' \in [Sessions -> Txs]
    BY <1>7, <2>1 DEF Apply, Txs
  <2>. QED BY <1>7, <2>2 DEF Apply, Mint, Txs
<1>8. CASE ApplyOrphan
  BY <1>8 DEF ApplyOrphan, Mint
<1>9. CASE OtherMint
  BY <1>9 DEF OtherMint
<1>10. CASE Sell
  BY <1>10 DEF Sell
<1>11. CASE UNCHANGED vars
  BY <1>11 DEF vars
<1>. QED BY <1>1, <1>2, <1>3, <1>4, <1>5, <1>6, <1>7, <1>8, <1>9, <1>10, <1>11 DEF Next, Issue

\* Every variable keeps its type: the inventory stays within the supply, the
\* balance within what was minted, for any number of sessions.
THEOREM TypeCorrect == Spec => []TypeOK
BY InitType, TypeStep, PTL DEF Spec

-----------------------------------------------------------------------------
(* What the handlers make of the project they load.                         *)

LEMMA EditCases ==
    ASSUME NEW e \in Rows, NEW f \in Edits(e)
    PROVE  /\ e.status \in {"draft", "changes_requested"}
           /\ f.status \in {e.status, "under_review"} /\ f.issuance = e.issuance
BY DEF Edits, Transition, Rows

LEMMA ReviewCases ==
    ASSUME NEW e \in Rows, NEW f \in Reviews(e) \cup Blocks(e)
    PROVE  \/ f.status = e.status /\ f.issuance = e.issuance
           \/ f.status = "locked" /\ f.issuance = e.issuance
           \/ e.status = "under_review" /\ f.status = "approved" /\ f.issuance = "not_started"
           \/ e.status = "under_review" /\ f.status = "changes_requested" /\ f.issuance = e.issuance
           \/ /\ e.status = "issued" /\ f.status = "live"
              /\ f.issuance = e.issuance /\ e.issuance = "completed"
<1>1. CASE f \in Blocks(e)
  BY <1>1 DEF Blocks, Rows
<1>2. CASE f \in Reviews(e)
  <2>1. CASE \E t \in Transitions[e.status] \cap {"approved"} :
               f = [Transition(e, "approved") EXCEPT !.issuance = "not_started"]
    BY <2>1 DEF Transitions, Transition, Rows, ReviewStatuses
  <2>2. CASE \E t \in Transitions[e.status] \cap {"changes_requested", "locked"} : f = Transition(e, t)
    BY <2>2 DEF Transitions, Transition, Rows, ReviewStatuses
  <2>3. CASE \E t \in Transitions[e.status] \cap {"live"} : e.issuance = "completed" /\ f = Transition(e, t)
    BY <2>3 DEF Transitions, Transition, Rows, ReviewStatuses
  <2>. QED BY <1>2, <2>1, <2>2, <2>3 DEF Reviews
<1>. QED BY <1>1, <1>2

\* A handler's entity is completed only if the project was, live only if completed.
LEMMA LoadCases ==
    ASSUME TypeOK, LiveIsCompleted, NEW s \in Sessions, Load(s)
    PROVE  \E f \in Rows :
             /\ loaded' = [loaded EXCEPT ![s] = f]
             /\ f.issuance = "completed" => project.issuance = "completed"
             /\ f.status = "live" => f.issuance = "completed"
<1>1. PICK f \in Edits(project) \cup Reviews(project) \cup Blocks(project) :
              loaded' = [loaded EXCEPT ![s] = f]
  BY DEF Load
<1>. project \in Rows /\ f \in Rows
  BY <1>1, HandlerRows DEF TypeOK
<1>2. CASE f \in Edits(project)
  BY <1>1, <1>2, EditCases
<1>3. CASE f \in Reviews(project) \cup Blocks(project)
  BY <1>1, <1>3, ReviewCases DEF LiveIsCompleted
<1>. QED BY <1>1, <1>2, <1>3

-----------------------------------------------------------------------------
(* Whatever overlaps: nothing is offered unminted, nothing is on sale unissued. *)

Exists == minted >= Supply

Attempt == {"preflight", "savePending", "build", "submit", "await", "seed", "seedOnly",
            "finish", "serialize", "saveFailed"}

\* A session that has seen the mint, or carries a completed entity, tells the truth.
SessionOffered(s) ==
    \/ tx[s].state = "applied"
    \/ pc[s] \in {"seed", "seedOnly", "finish", "serialize"}
    \/ loaded[s].issuance = "completed"
    => Exists

SessionLive(s) ==
    /\ loaded[s].status = "live" => loaded[s].issuance = "completed"
    /\ pc[s] \in Attempt => loaded[s].status \in {"approved", "issued"}

RaceInv ==
    /\ TypeOK /\ OfferedIsMinted /\ LiveIsCompleted
    /\ \A s \in Sessions : SessionOffered(s) /\ SessionLive(s)

LEMMA InitRace == Init => RaceInv
<1>. SUFFICES ASSUME Init PROVE RaceInv
  OBVIOUS
<1>. QED BY InitType DEF Init, RaceInv, OfferedIsMinted, LiveIsCompleted, SessionOffered,
            SessionLive, NewProject, NoTx, Attempt

LEMMA RaceStep == RaceInv /\ [Next]_vars => RaceInv'
<1>. SUFFICES ASSUME RaceInv, [Next]_vars PROVE RaceInv'
  OBVIOUS
<1>. TypeOK /\ TypeOK'
  BY TypeStep DEF RaceInv
<1>. USE DEF RaceInv, network, OfferedIsMinted, LiveIsCompleted, SessionOffered, SessionLive,
             Exists, Attempt
<1>a. \A s \in Sessions : loaded[s] \in Rows /\ tx[s] \in Txs /\ pc[s] \in Places
  BY DEF TypeOK, Txs, Places
<1>b. /\ pc \in [Sessions -> Places] /\ loaded \in [Sessions -> Rows] /\ tx \in [Sessions -> Txs]
      /\ minted \in Nat /\ balance \in 0..minted /\ inventory \in Nat /\ sold \in Nat
      /\ Supply \in Nat /\ project \in Rows
  BY DEF TypeOK, Txs, Places
<1>1. ASSUME NEW s \in Sessions, Load(s) PROVE RaceInv'
  <2>1. PICK f \in Rows :
             /\ loaded' = [loaded EXCEPT ![s] = f]
             /\ f.issuance = "completed" => project.issuance = "completed"
             /\ f.status = "live" => f.issuance = "completed"
    BY <1>1, LoadCases
  <2>. QED BY <1>1, <1>b, <2>1 DEF Load
<1>2. ASSUME NEW s \in Sessions, Save(s) \/ SaveFailed(s) \/ Serialize(s) PROVE RaceInv'
  <2>1. project' \in {project, loaded[s]} /\ UNCHANGED <<network, inventory, sold>>
    BY <1>2 DEF Save, SaveFailed, Serialize, SaveRow
  <2>2. pc' = [pc EXCEPT ![s] = "idle"] /\ loaded' = [loaded EXCEPT ![s] = NewProject]
    BY <1>2 DEF Save, SaveFailed, Serialize, Return, Goto
  <2>. QED BY <1>b, <2>1, <2>2 DEF NewProject
<1>3. ASSUME NEW s \in Sessions, IssueLoad(s) PROVE RaceInv'
  BY <1>3, <1>b DEF IssueLoad, Goto
<1>4. ASSUME NEW s \in Sessions, Preflight(s) PROVE RaceInv'
  <2>1. CASE balance >= Supply
    <3>1. Issued(loaded[s]).status = "issued" /\ Issued(loaded[s]).issuance = "completed"
      BY <1>b DEF Issued, Transition, Rows
    <3>2. /\ loaded' = [loaded EXCEPT ![s] = Issued(loaded[s])]
          /\ pc' = [pc EXCEPT ![s] = "seedOnly"]
          /\ UNCHANGED <<project, network, inventory, sold>>
      BY <1>4, <2>1 DEF Preflight, Goto
    <3>3. Exists
      BY <1>b, <2>1
    <3>. QED BY <1>b, <3>1, <3>2, <3>3
  <2>2. CASE ~(balance >= Supply)
    BY <1>4, <1>b, <2>2 DEF Preflight, Goto, Rows
  <2>. QED BY <2>1, <2>2
<1>5. ASSUME NEW s \in Sessions, SavePending(s) \/ Finish(s) PROVE RaceInv'
  BY <1>5, <1>b DEF SavePending, Finish, SaveRow, Goto
<1>6. ASSUME NEW s \in Sessions, Build(s) \/ Submit(s) \/ Answered(s) PROVE RaceInv'
  <2>1. /\ UNCHANGED <<project, loaded, minted, inventory, sold>>
        /\ \A r \in Sessions : tx'[r].state = "applied" => tx[r].state = "applied"
    BY <1>6, <1>b DEF Build, Submit, Answered, NoTx, Txs
  <2>2. \A r \in Sessions :
          /\ pc'[r] \in Attempt => pc[r] \in Attempt
          /\ pc'[r] \in {"seed", "seedOnly", "finish", "serialize"} =>
               pc[r] \in {"seed", "seedOnly", "finish", "serialize"} \/ tx[r].state = "applied"
    BY <1>6, <1>b DEF Build, Submit, Answered, Goto
  <2>. QED BY <1>b, <2>1, <2>2
<1>7. ASSUME NEW s \in Sessions, Seed(s) PROVE RaceInv'
  BY <1>7, <1>b DEF Seed, Goto, Issued, Transition, Rows
<1>8. ASSUME NEW s \in Sessions, Throw(s) PROVE RaceInv'
  BY <1>8, <1>b DEF Throw, Goto, NoTx, Rows
<1>9. ASSUME NEW s \in Sessions, Crash(s) PROVE RaceInv'
  BY <1>9, <1>b DEF Crash, Goto, Return, NoTx, NewProject
<1>10. ASSUME NEW s \in Sessions, Apply(s) PROVE RaceInv'
  BY <1>10, <1>b DEF Apply, Mint
<1>11. CASE ApplyOrphan
  BY <1>11, <1>b DEF ApplyOrphan, Mint
<1>12. CASE OtherMint
  BY <1>12, <1>b DEF OtherMint
<1>13. CASE Sell
  BY <1>13, <1>b DEF Sell
<1>14. CASE UNCHANGED vars
  BY <1>14 DEF vars
<1>. QED BY <1>1, <1>2, <1>3, <1>4, <1>5, <1>6, <1>7, <1>8, <1>9, <1>10, <1>11, <1>12, <1>13,
            <1>14 DEF Next, Issue

\* What every session holds, stored or loaded, stays as well founded as RaceInv says.
THEOREM RaceInvariance == Spec => []RaceInv
BY InitRace, RaceStep, PTL DEF Spec

\* No token is in the inventory or sold, and no project reads as issued, before
\* the network has applied a mint, whatever issuances and saves overlap.
THEOREM MintedFirst == Spec => []OfferedIsMinted
<1>1. RaceInv => OfferedIsMinted
  BY DEF RaceInv
<1>. QED BY RaceInvariance, <1>1, PTL

\* A project is on sale only after an issuance that completed.
THEOREM CompletedFirst == Spec => []LiveIsCompleted
<1>1. RaceInv => LiveIsCompleted
  BY DEF RaceInv
<1>. QED BY RaceInvariance, <1>1, PTL

-----------------------------------------------------------------------------
(* One admin and one developer session at a time.                           *)

Editable == {"draft", "changes_requested"}
Unissued == Editable \cup {"under_review", "approved"}

ProjectOK ==
    /\ sold > 0 => project.issuance = "completed" /\ project.status \in {"live", "locked"}
    /\ project.status \in Unissued => project.issuance # "completed"
    /\ InventoryIsComplete

\* A session saves an entity that the project may still become.
SavesEarly(s) ==
    pc[s] = "save" /\ loaded[s].status \in Editable \cup {"locked"} /\ loaded[s].issuance # "completed"

SavesSold(s) ==
    pc[s] = "save" /\ loaded[s].status \in {"live", "locked"} /\ loaded[s].issuance = "completed"

DeveloperOK(d) == pc[d] # "idle" =>
    /\ pc[d] = "save"
    /\ loaded[d].status \in Editable \cup {"under_review"} /\ loaded[d].issuance # "completed"
    /\ project.status \in Editable \cup {"locked"} /\ project.issuance # "completed"
    /\ \A a \in Admins : pc[a] # "idle" => SavesEarly(a)

InventoryFull == inventory + sold = Supply

AdminOK(a) == pc[a] # "idle" =>
    /\ project.status \in Editable => SavesEarly(a)
    /\ project.status = "live" \/ sold > 0 => SavesSold(a)
    /\ loaded[a].status \in Unissued => loaded[a].issuance # "completed"
    /\ pc[a] # "seedOnly" /\ loaded[a].issuance = "completed" => InventoryFull

OneSession == (\A a, b \in Admins : a = b) /\ (\A d, e \in Developers : d = e)

SingleInv ==
    /\ RaceInv /\ ProjectOK
    /\ \A d \in Developers : DeveloperOK(d)
    /\ \A a \in Admins : AdminOK(a)

LEMMA InitSingle == Init => SingleInv
<1>. SUFFICES ASSUME Init PROVE SingleInv
  OBVIOUS
<1>. QED BY InitRace DEF Init, SingleInv, ProjectOK, DeveloperOK, AdminOK, InventoryIsComplete,
            NewProject, Sessions

LEMMA DeveloperStep ==
    ASSUME SingleInv, RaceInv', OneSession, NEW s \in Developers,
           Load(s) \/ Save(s) \/ IssueLoad(s) \/ Issue(s) \/ Crash(s)
    PROVE  SingleInv'
<1>. USE DEF network
<1>a. /\ s \in Sessions /\ s \notin Admins
      /\ \A d \in Developers : d = s
      /\ \A a \in Admins : a # s /\ a \in Sessions
  BY DEF OneSession, Sessions
<1>b. /\ pc \in [Sessions -> Places] /\ loaded \in [Sessions -> Rows] /\ project \in Rows
      /\ sold \in Nat /\ inventory \in Nat /\ Supply \in Nat
  BY DEF SingleInv, RaceInv, TypeOK, Places
<1>c. pc[s] \in {"idle", "save"}
  BY <1>a DEF SingleInv, DeveloperOK
<1>1. CASE Load(s)
  <2>1. PICK f \in Edits(project) : loaded' = [loaded EXCEPT ![s] = f]
    BY <1>1 DEF Load
  <2>2. /\ f \in Rows
        /\ project.status \in Editable
        /\ f.status \in {project.status, "under_review"} /\ f.issuance = project.issuance
    BY <1>b, HandlerRows, EditCases DEF Editable
  <2>3. pc' = [pc EXCEPT ![s] = "save"] /\ UNCHANGED <<project, inventory, sold>>
    BY <1>1 DEF Load
  <2>4. DeveloperOK(s)'
    BY <1>a, <1>b, <2>1, <2>2, <2>3
       DEF SingleInv, ProjectOK, DeveloperOK, AdminOK, SavesEarly, Editable, Unissued
  <2>5. \A a \in Admins : AdminOK(a)'
    BY <1>a, <1>b, <2>1, <2>3 DEF SingleInv, AdminOK, SavesEarly, SavesSold, InventoryFull
  <2>. QED BY <1>a, <2>3, <2>4, <2>5 DEF SingleInv, ProjectOK, InventoryIsComplete
<1>2. CASE Save(s)
  <2>1. /\ project' = loaded[s] /\ UNCHANGED <<inventory, sold>>
        /\ pc' = [pc EXCEPT ![s] = "idle"] /\ loaded' = [loaded EXCEPT ![s] = NewProject]
        /\ pc[s] = "save"
    BY <1>2 DEF Save, SaveRow, Return, Goto
  <2>2. DeveloperOK(s)
    BY DEF SingleInv
  <2>3. ProjectOK'
    BY <1>b, <2>1, <2>2 DEF SingleInv, ProjectOK, DeveloperOK, InventoryIsComplete
  <2>4. \A a \in Admins : AdminOK(a)'
    BY <1>a, <1>b, <2>1, <2>2 DEF SingleInv, ProjectOK, DeveloperOK, AdminOK, SavesEarly,
       SavesSold, InventoryFull, Editable, Unissued
  <2>. QED BY <1>a, <1>b, <2>1, <2>3, <2>4 DEF SingleInv, DeveloperOK
<1>3. CASE Crash(s)
  <2>1. /\ UNCHANGED <<project, inventory, sold>>
        /\ pc' = [pc EXCEPT ![s] = "idle"] /\ loaded' = [loaded EXCEPT ![s] = NewProject]
    BY <1>3 DEF Crash, Return, Goto
  <2>2. \A a \in Admins : AdminOK(a)'
    BY <1>a, <1>b, <2>1 DEF SingleInv, AdminOK, SavesEarly, SavesSold, InventoryFull
  <2>. QED BY <1>a, <1>b, <2>1, <2>2 DEF SingleInv, DeveloperOK, ProjectOK, InventoryIsComplete
<1>4. CASE IssueLoad(s)
  BY <1>4, <1>a DEF IssueLoad
<1>5. CASE Issue(s)
  BY <1>5, <1>c DEF Issue, Preflight, SavePending, Build, Submit, Answered, Seed, Finish,
     Serialize, Throw, SaveFailed, SaveRow
<1>. QED BY <1>1, <1>2, <1>3, <1>4, <1>5

\* What an admin session leaves alone keeps the developers right.
LEMMA AdminFrame ==
    ASSUME SingleInv, OneSession, NEW s \in Admins,
           \A r \in Sessions : r # s => pc'[r] = pc[r] /\ loaded'[r] = loaded[r],
           \A d \in Developers : pc[d] # "idle" =>
               /\ project'.status \in Editable \cup {"locked"} /\ project'.issuance # "completed"
               /\ pc'[s] # "idle" => SavesEarly(s)'
    PROVE  \A d \in Developers : DeveloperOK(d)'
<1>1. \A d \in Developers : d # s /\ d \in Sessions
  BY DEF Sessions
<1>2. \A a \in Admins : a = s
  BY DEF OneSession
<1>. QED BY <1>1, <1>2 DEF SingleInv, DeveloperOK

LEMMA AdminStep ==
    ASSUME SingleInv, RaceInv', OneSession, NEW s \in Admins,
           Load(s) \/ Save(s) \/ IssueLoad(s) \/ Issue(s) \/ Crash(s)
    PROVE  SingleInv'
<1>. USE DEF network
<1>a. /\ s \in Sessions /\ s \notin Developers
      /\ \A a \in Admins : a = s
  BY DEF OneSession, Sessions
<1>b. /\ pc \in [Sessions -> Places] /\ loaded \in [Sessions -> Rows] /\ project \in Rows
      /\ sold \in Nat /\ inventory \in Nat /\ Supply \in Nat \ {0}
  BY DEF SingleInv, RaceInv, TypeOK, Places
<1>c. /\ AdminOK(s) /\ ProjectOK /\ LiveIsCompleted /\ SessionLive(s)
      /\ \A d \in Developers : DeveloperOK(d)
  BY <1>a DEF SingleInv, RaceInv
\* The session has ended and the project is as it was.
<1>d. ASSUME pc' = [pc EXCEPT ![s] = "idle"], loaded' = [loaded EXCEPT ![s] = NewProject],
             UNCHANGED <<project, inventory, sold>>
      PROVE  SingleInv'
  <2>1. \A d \in Developers : DeveloperOK(d)'
    BY <1>a, <1>b, <1>c, <1>d, AdminFrame DEF DeveloperOK
  <2>. QED BY <1>a, <1>b, <1>c, <1>d, <2>1 DEF SingleInv, AdminOK, ProjectOK, InventoryIsComplete
<1>1. CASE Load(s)
  <2>1. PICK f \in Reviews(project) \cup Blocks(project) : loaded' = [loaded EXCEPT ![s] = f]
    BY <1>1, <1>a DEF Load
  <2>2. f \in Rows
    BY <1>b, HandlerRows
  <2>3. pc' = [pc EXCEPT ![s] = "save"] /\ UNCHANGED <<project, inventory, sold>>
    BY <1>1 DEF Load
  <2>4. AdminOK(s)'
    BY <1>b, <1>c, <2>1, <2>2, <2>3, ReviewCases
       DEF AdminOK, ProjectOK, LiveIsCompleted, InventoryIsComplete, InventoryFull, SavesEarly,
           SavesSold, Editable, Unissued
  <2>5. \A d \in Developers : pc[d] # "idle" => SavesEarly(s)'
    <3>1. project.status \in Editable \cup {"locked"} /\ project.issuance # "completed" =>
            f.status \in Editable \cup {"locked"} /\ f.issuance # "completed"
      BY <1>b, <2>1, ReviewCases DEF Editable
    <3>2. loaded'[s] = f /\ pc'[s] = "save"
      BY <1>a, <1>b, <2>1, <2>3
    <3>. QED BY <1>c, <3>1, <3>2 DEF DeveloperOK, SavesEarly
  <2>6. \A d \in Developers : DeveloperOK(d)'
    BY <1>a, <1>b, <1>c, <2>1, <2>3, <2>5, AdminFrame DEF DeveloperOK
  <2>. QED BY <1>a, <1>c, <2>3, <2>4, <2>6 DEF SingleInv, ProjectOK, InventoryIsComplete
<1>2. CASE Save(s) \/ SaveFailed(s)
  <2>1. /\ project' = loaded[s] /\ UNCHANGED <<inventory, sold>>
        /\ pc' = [pc EXCEPT ![s] = "idle"] /\ loaded' = [loaded EXCEPT ![s] = NewProject]
        /\ pc[s] \in {"save", "saveFailed"}
    BY <1>2 DEF Save, SaveFailed, SaveRow, Return, Goto
  <2>2. ProjectOK'
    BY <1>b, <1>c, <2>1 DEF AdminOK, ProjectOK, SavesSold, InventoryFull, InventoryIsComplete
  <2>3. \A d \in Developers : DeveloperOK(d)'
    BY <1>a, <1>b, <1>c, <2>1, AdminFrame DEF DeveloperOK, SavesEarly
  <2>. QED BY <1>a, <1>b, <2>1, <2>2, <2>3 DEF SingleInv, AdminOK
<1>3. CASE Serialize(s)
  BY <1>3, <1>d DEF Serialize, Return, Goto
<1>4. CASE Crash(s)
  BY <1>4, <1>d DEF Crash, Return, Goto
<1>. DEFINE Idle == \A d \in Developers : pc[d] = "idle"
<1>e. pc[s] \in Attempt => Idle /\ project.status \notin Editable \cup {"live"} /\ sold = 0
  BY <1>b, <1>c DEF DeveloperOK, AdminOK, SavesEarly, SavesSold, Attempt, Editable
\* While developers are idle only the project and the admin have to be looked at.
<1>f. ASSUME Idle, ProjectOK', AdminOK(s)', \A r \in Sessions : r # s => pc'[r] = pc[r]
      PROVE  SingleInv'
  BY <1>a, <1>f DEF SingleInv, DeveloperOK, Sessions
<1>5. CASE IssueLoad(s)
  <2>1. /\ pc' = [pc EXCEPT ![s] = "preflight"] /\ loaded' = [loaded EXCEPT ![s] = project]
        /\ UNCHANGED <<project, inventory, sold>> /\ project.status = "approved"
    BY <1>5 DEF IssueLoad, Goto
  <2>2. AdminOK(s)' /\ ProjectOK'
    BY <1>b, <1>c, <2>1 DEF AdminOK, ProjectOK, InventoryIsComplete, InventoryFull, Editable, Unissued
  <2>3. Idle
    BY <1>c, <2>1 DEF DeveloperOK, Editable
  <2>. QED BY <1>b, <1>f, <2>1, <2>2, <2>3
<1>6. CASE Preflight(s) \/ SavePending(s) \/ Build(s) \/ Submit(s) \/ Answered(s) \/ Seed(s)
            \/ Finish(s) \/ Throw(s)
  <2>1. pc[s] \in Attempt /\ \A r \in Sessions : r # s => pc'[r] = pc[r]
    BY <1>6, <1>b DEF Preflight, SavePending, Build, Submit, Answered, Seed, Finish, Throw,
       SaveRow, Goto, Attempt
  <2>2. AdminOK(s)' /\ ProjectOK'
    <3>1. CASE Preflight(s)
      <4>1. UNCHANGED <<project, inventory, sold>> /\ ProjectOK'
        BY <3>1, <1>c DEF Preflight, ProjectOK, InventoryIsComplete
      <4>2. CASE balance >= Supply
        <5>1. pc'[s] = "seedOnly" /\ loaded'[s] = Issued(loaded[s])
          BY <3>1, <4>2, <1>a, <1>b DEF Preflight, Goto
        <5>2. loaded'[s].status = "issued"
          BY <5>1, <1>b DEF Issued, Transition, Rows
        <5>. QED BY <1>e, <2>1, <4>1, <5>1, <5>2 DEF AdminOK, Unissued, Editable
      <4>3. CASE ~(balance >= Supply)
        <5>1. loaded'[s].issuance = "pending"
          BY <3>1, <4>3, <1>a, <1>b DEF Preflight, Rows
        <5>. QED BY <1>e, <2>1, <4>1, <5>1 DEF AdminOK
      <4>. QED BY <4>2, <4>3
    <3>2. CASE SavePending(s) \/ Finish(s)
      BY <3>2, <1>b, <1>c, <1>e, <2>1 DEF SavePending, Finish, SaveRow, Goto, AdminOK, ProjectOK,
         SessionLive, Attempt, InventoryIsComplete, InventoryFull, Unissued, Editable
    <3>3. CASE Build(s) \/ Submit(s) \/ Answered(s)
      BY <3>3, <1>b, <1>c, <1>e, <2>1 DEF Build, Submit, Answered, Goto, AdminOK, ProjectOK,
         InventoryIsComplete, InventoryFull
    <3>4. CASE Seed(s)
      BY <3>4, <1>b, <1>c, <1>e, <2>1 DEF Seed, Goto, Issued, Transition, Rows, AdminOK, ProjectOK,
         InventoryIsComplete, InventoryFull, Unissued, Editable
    <3>5. CASE Throw(s)
      BY <3>5, <1>b, <1>c, <1>e, <2>1 DEF Throw, Goto, Rows, AdminOK, ProjectOK,
         InventoryIsComplete, InventoryFull
    <3>. QED BY <1>6, <3>1, <3>2, <3>3, <3>4, <3>5
  <2>. QED BY <1>e, <1>f, <2>1, <2>2
<1>. QED BY <1>1, <1>2, <1>3, <1>4, <1>5, <1>6 DEF Issue

LEMMA SingleStep == OneSession /\ SingleInv /\ [Next]_vars => SingleInv'
<1>. SUFFICES ASSUME OneSession, SingleInv, [Next]_vars PROVE SingleInv'
  OBVIOUS
<1>0. RaceInv'
  BY RaceStep DEF SingleInv
<1>1. ASSUME NEW s \in Sessions, Load(s) \/ Save(s) \/ IssueLoad(s) \/ Issue(s) \/ Crash(s)
      PROVE  SingleInv'
  <2>1. s \in Admins \/ s \in Developers
    BY DEF Sessions
  <2>. QED BY <1>0, <1>1, <2>1, AdminStep, DeveloperStep
<1>2. CASE UNCHANGED <<project, pc, loaded, inventory, sold>>
  BY <1>0, <1>2 DEF SingleInv, ProjectOK, DeveloperOK, AdminOK, SavesEarly, SavesSold,
     InventoryFull, InventoryIsComplete
<1>3. CASE Sell
  <2>1. /\ sold \in Nat /\ inventory \in Nat /\ Supply \in Nat /\ project.status = "live"
        /\ inventory > 0 /\ sold' = sold + 1 /\ inventory' = inventory - 1
        /\ UNCHANGED <<project, pc, loaded>>
    BY <1>3 DEF Sell, SingleInv, RaceInv, TypeOK
  <2>2. project.issuance = "completed"
    BY <2>1 DEF SingleInv, RaceInv, LiveIsCompleted
  <2>3. ProjectOK'
    BY <2>1, <2>2 DEF SingleInv, ProjectOK, InventoryIsComplete
  <2>4. \A a \in Admins : AdminOK(a)'
    BY <2>1 DEF SingleInv, AdminOK, SavesEarly, SavesSold, InventoryFull
  <2>5. \A d \in Developers : DeveloperOK(d)'
    BY <2>1 DEF SingleInv, DeveloperOK, SavesEarly
  <2>. QED BY <1>0, <2>3, <2>4, <2>5 DEF SingleInv
<1>4. ASSUME NEW s \in Sessions, Apply(s) PROVE SingleInv'
  BY <1>2, <1>4 DEF Apply, Mint
<1>5. CASE ApplyOrphan \/ OtherMint
  BY <1>2, <1>5 DEF ApplyOrphan, OtherMint, Mint
<1>6. CASE UNCHANGED vars
  BY <1>2, <1>6 DEF vars
<1>. QED BY <1>1, <1>3, <1>4, <1>5, <1>6 DEF Next

\* Where admins and developers each make one call at a time, no failure, late
\* mint, crash or retry breaks the sum of inventory and sales, nor oversells.
THEOREM NeverOversold ==
    ASSUME OneSession
    PROVE  Spec => [](SoldWithinSupply /\ InventoryIsComplete)
<1>1. Init => SingleInv
  BY InitSingle
<1>2. SingleInv /\ [Next]_vars => SingleInv'
  BY SingleStep
<1>3. SingleInv => SoldWithinSupply /\ InventoryIsComplete
  BY DEF SingleInv, RaceInv, TypeOK, ProjectOK, SoldWithinSupply, InventoryIsComplete
<1>. QED BY <1>1, <1>2, <1>3, PTL DEF Spec
=============================================================================
