------------------------------ MODULE ProjectRow ------------------------------
(***************************************************************************)
(* The row of the project table while an approved project is prepared for  *)
(* issuance, and the calls that share it.  Every handler loads the row,    *)
(* changes it and saves the whole entity; other calls run between its      *)
(* awaits, so a save may take back what another has saved.                 *)
(*                                                                         *)
(* SpvSeries and CustodyConfig add the handlers; IssuancePrep composes them.*)
(***************************************************************************)
EXTENDS Integers, Sequences

CONSTANTS Projects,  \* approved projects of one developer, of one project type
          NoProject, \* null
          Sessions,  \* admins and developers; each makes one call at a time
          Modes,     \* custody modes: self_custody, regenx_custody
          MaxCalls   \* bound of the calls made

ASSUME RowAssumption ==
    NoProject \notin Projects /\ MaxCalls \in Nat /\ \E m, o \in Modes : m # o

VARIABLES project,  \* the rows
          at,       \* the await each session is at
          held,     \* the project each session is about and the row it has loaded
          calls     \* calls made so far

rowVars == <<project, at, held, calls>>

\* spv 0 is no SPV; open: custodySetupStatus is one that blocks readiness;
\* locked: walletConfigLockedAt, issuedAt or issuanceTxHash is set.
Rows == [spv : Nat, mode : Modes, blocked : BOOLEAN, open : BOOLEAN, locked : BOOLEAN]

RowTypeOK ==
    /\ project \in [Projects -> Rows]
    /\ held \in [Sessions -> [p : Projects \cup {NoProject}, row : Rows]]
    /\ calls \in 0..MaxCalls

NewRow(m) == [spv |-> 0, mode |-> m, blocked |-> FALSE, open |-> FALSE, locked |-> FALSE]

FirstMode == CHOOSE m \in Modes : TRUE

Nothing == [p |-> NoProject, row |-> NewRow(FirstMode)]

-----------------------------------------------------------------------------
Goto(s, l) == at' = [at EXCEPT ![s] = l]

\* The call is answered, or refused.
Return(s) ==
    /\ Goto(s, "idle")
    /\ held' = [held EXCEPT ![s] = Nothing]

\* A session's next call.
Begin(s, l) ==
    /\ at[s] = "idle" /\ calls < MaxCalls
    /\ calls' = calls + 1
    /\ Goto(s, l)

\* findProjectOrThrow
LoadRow(s, p) == held' = [held EXCEPT ![s] = [p |-> p, row |-> project[p]]]

\* A call that begins by loading p.
Call(s, p, l) == Begin(s, l) /\ LoadRow(s, p)

\* A loaded row is not looked at again.
Forget(s) == held' = [held EXCEPT ![s].row = Nothing.row]

\* projectRepo.save
SaveRow(s, r) == project' = [project EXCEPT ![held[s].p] = r]
=============================================================================
