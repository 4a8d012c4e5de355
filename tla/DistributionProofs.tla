-------------------------- MODULE DistributionProofs --------------------------
(***************************************************************************)
(* Proofs about distributions, for every number of calculations, readers,  *)
(* purchases and buyers, and every custody scope: the types, that the      *)
(* ledger loses nothing, that no investor is shown more than the investor  *)
(* owns nor all of them more than the net amount, that a calculation or    *)
(* a GET that nobody overlaps repairs what others have left, and that only *)
(* overlapping calculations can pay out more than the net amount.          *)
(*                                                                         *)
(* Totals are recursive, so facts about them need induction over finite    *)
(* sets.  FiniteInduction states it for a set F of subsets instead of for  *)
(* a predicate, from the well-foundedness of the subset ordering.          *)
(***************************************************************************)
EXTENDS Distribution, FiniteSetTheorems, TLAPS

(* Totals.                                                                  *)

\* g holds the sums of w over all subsets of S.
Sums(g, w, S) ==
    g = [s \in SUBSET S |->
          IF s = {} THEN 0
          ELSE w[CHOOSE x \in s : TRUE] + g[s \ {CHOOSE x \in s : TRUE}]]

\* Induction over a finite set: what holds of a part of S as soon as it holds of all
\* its proper parts, holds of S.  F is the set of the parts of which it holds.
LEMMA FiniteInduction ==
    ASSUME NEW S, IsFiniteSet(S), NEW F,
           \A T \in SUBSET S : (\A U \in SUBSET T : U # T => U \in F) => T \in F
    PROVE  S \in F
<1> DEFINE T == (SUBSET S) \ F
           R == StrictSubsetOrdering(S)
           D == FiniteSubsetsOf(S)
<1> SUFFICES ASSUME S \notin F PROVE FALSE
  OBVIOUS
<1>1. T # {} /\ T \subseteq D
  BY FS_FiniteSubsetsOfFinite
<1>2. IsWellFoundedOn(R, D)
  BY FS_StrictSubsetOrderingWellFounded
<1>3. \E X \in T : \A Y \in T : ~ (<<Y, X>> \in R)
  <2> HIDE DEF T, R, D
  <2> QED BY <1>1, <1>2, WFMin
<1>4. PICK X \in T : \A Y \in T : ~ (<<Y, X>> \in R)
  BY <1>3
<1>5. \A U \in SUBSET X : U # X => U \in F
  BY <1>4 DEF StrictSubsetOrdering
<1>6. QED BY <1>4, <1>5

\* A total is what some table of sums holds, when there is one.
LEMMA SumDef ==
    ASSUME NEW w, NEW S, NEW g, Sums(g, w, S)
    PROVE  \E h : Sums(h, w, S) /\ TotalUnits(w, S) = h[S]
<1> DEFINE h == CHOOSE k : Sums(k, w, S)
<1>1. Sums(h, w, S)
  OBVIOUS
<1>2. TotalUnits(w, S) = h[S]
  BY DEF TotalUnits, MapThenSumSet, MapThenFoldSet, Sums
<1>3. QED BY <1>1, <1>2

\* There is at most one such table.
LEMMA SumUnique ==
    ASSUME NEW w, NEW S, IsFiniteSet(S), NEW g, NEW h, Sums(g, w, S), Sums(h, w, S)
    PROVE  g[S] = h[S]
<1> DEFINE F == {T \in SUBSET S : g[T] = h[T]}
<1>1. ASSUME NEW T \in SUBSET S, \A U \in SUBSET T : U # T => U \in F
      PROVE  T \in F
  <2> DEFINE x == CHOOSE x \in T : TRUE
  <2>1. CASE T = {}
    BY <2>1 DEF Sums
  <2>2. CASE T # {}
    <3>1. x \in T
      BY <2>2
    <3>2. g[T \ {x}] = h[T \ {x}]
      BY <1>1, <3>1
    <3>3. g[T] = w[x] + g[T \ {x}] /\ h[T] = w[x] + h[T \ {x}]
      BY <2>2 DEF Sums
    <3>4. QED BY <3>2, <3>3
  <2>3. QED BY <2>1, <2>2
<1>2. S \in F
  <2> HIDE DEF F
  <2> QED BY <1>1, FiniteInduction
<1>3. QED BY <1>2

\* There is one: the recursion by which a total is computed is well-founded.
LEMMA SumTable ==
    ASSUME NEW w, NEW S, IsFiniteSet(S)
    PROVE  Sums([s \in SUBSET S |-> TotalUnits(w, s)], w, S)
<1> DEFINE Table(T) == [s \in SUBSET T |-> TotalUnits(w, s)]
           F == {T \in SUBSET S : Sums(Table(T), w, T)}
<1>1. ASSUME NEW T \in SUBSET S, \A U \in SUBSET T : U # T => U \in F
      PROVE  T \in F
  <2> DEFINE x == CHOOSE x \in T : TRUE
             total == IF T = {} THEN 0 ELSE w[x] + TotalUnits(w, T \ {x})
             g == [s \in SUBSET T |-> IF s = T THEN total ELSE TotalUnits(w, s)]
  <2>1. T # {} => x \in T
    OBVIOUS
  <2>2. Sums(g, w, T)
    <3>1. ASSUME NEW s \in SUBSET T
          PROVE  g[s] = IF s = {} THEN 0
                        ELSE w[CHOOSE y \in s : TRUE] + g[s \ {CHOOSE y \in s : TRUE}]
      <4>1. CASE s = T
        BY <2>1, <4>1
      <4>2. CASE s # T
        <5>1. Sums(Table(s), w, s)
          BY <1>1, <4>2
        <5>2. TotalUnits(w, s) = IF s = {} THEN 0
                ELSE w[CHOOSE y \in s : TRUE] + TotalUnits(w, s \ {CHOOSE y \in s : TRUE})
          BY <5>1 DEF Sums
        <5>3. s # {} => (CHOOSE y \in s : TRUE) \in s
          OBVIOUS
        <5>4. s # {} => s \ {CHOOSE y \in s : TRUE} # T
          BY <5>3
        <5>5. QED BY <4>2, <5>2, <5>4
      <4>3. QED BY <4>1, <4>2
    <3>2. QED BY <3>1 DEF Sums
  <2>3. TotalUnits(w, T) = g[T]
    <3>1. IsFiniteSet(T)
      BY FS_Subset
    <3>2. PICK h : Sums(h, w, T) /\ TotalUnits(w, T) = h[T]
      BY <2>2, SumDef
    <3>3. QED BY <2>2, <3>1, <3>2, SumUnique
  <2>4. Table(T) = g
    BY <2>3
  <2>5. QED BY <2>2, <2>4
<1>2. S \in F
  <2> HIDE DEF F
  <2> QED BY <1>1, FiniteInduction
<1>3. QED BY <1>2

\* Nothing adds up to nothing.
LEMMA SumEmpty == \A w : TotalUnits(w, {}) = 0
<1> SUFFICES ASSUME NEW w PROVE TotalUnits(w, {}) = 0
  OBVIOUS
<1>1. Sums([s \in SUBSET {} |-> TotalUnits(w, s)], w, {})
  BY SumTable, FS_EmptySet
<1>2. QED BY <1>1 DEF Sums

\* The total takes one element first,
LEMMA SumStep ==
    ASSUME NEW w, NEW S, IsFiniteSet(S), S # {}
    PROVE  \E x \in S : TotalUnits(w, S) = w[x] + TotalUnits(w, S \ {x})
<1> DEFINE x == CHOOSE x \in S : TRUE
<1>1. Sums([s \in SUBSET S |-> TotalUnits(w, s)], w, S)
  BY SumTable
<1>2. x \in S
  OBVIOUS
<1>3. TotalUnits(w, S) = w[x] + TotalUnits(w, S \ {x})
  BY <1>1 DEF Sums
<1>4. QED BY <1>2, <1>3

\* Totals of natural numbers are natural numbers.
LEMMA SumType ==
    ASSUME NEW w, NEW S, IsFiniteSet(S), \A x \in S : w[x] \in Nat
    PROVE  TotalUnits(w, S) \in Nat
<1> DEFINE F == {T \in SUBSET S : TotalUnits(w, T) \in Nat}
<1>1. ASSUME NEW T \in SUBSET S, \A U \in SUBSET T : U # T => U \in F
      PROVE  T \in F
  <2>1. IsFiniteSet(T)
    BY FS_Subset
  <2>2. CASE T = {}
    BY <2>2, SumEmpty
  <2>3. CASE T # {}
    <3>1. PICK x \in T : TotalUnits(w, T) = w[x] + TotalUnits(w, T \ {x})
      BY <2>1, <2>3, SumStep
    <3>2. TotalUnits(w, T \ {x}) \in Nat
      BY <1>1
    <3>3. QED BY <3>1, <3>2
  <2>4. QED BY <2>2, <2>3
<1>2. S \in F
  <2> HIDE DEF F
  <2> QED BY <1>1, FiniteInduction
<1>3. QED BY <1>2

\* and it does not matter which.
LEMMA SumTake ==
    ASSUME NEW w, NEW S, IsFiniteSet(S), \A x \in S : w[x] \in Nat, NEW e \in S
    PROVE  TotalUnits(w, S) = w[e] + TotalUnits(w, S \ {e})
<1> DEFINE F == {T \in SUBSET S : \A y \in T : TotalUnits(w, T) = w[y] + TotalUnits(w, T \ {y})}
<1>1. ASSUME NEW T \in SUBSET S, \A U \in SUBSET T : U # T => U \in F
      PROVE  T \in F
  <2> SUFFICES ASSUME NEW y \in T PROVE TotalUnits(w, T) = w[y] + TotalUnits(w, T \ {y})
    OBVIOUS
  <2>1. IsFiniteSet(T)
    BY FS_Subset
  <2>2. PICK x \in T : TotalUnits(w, T) = w[x] + TotalUnits(w, T \ {x})
    BY <2>1, SumStep
  <2>3. CASE x = y
    BY <2>2, <2>3
  <2>4. CASE x # y
    <3>1. TotalUnits(w, T \ {x}) = w[y] + TotalUnits(w, (T \ {x}) \ {y})
      BY <1>1, <2>4
    <3>2. TotalUnits(w, T \ {y}) = w[x] + TotalUnits(w, (T \ {y}) \ {x})
      BY <1>1, <2>4
    <3>3. (T \ {x}) \ {y} = (T \ {y}) \ {x}
      OBVIOUS
    <3>4. TotalUnits(w, (T \ {y}) \ {x}) \in Nat
      <4>1. IsFiniteSet((T \ {y}) \ {x})
        BY <2>1, FS_Subset
      <4>2. QED BY <4>1, SumType
    <3>5. QED BY <2>2, <3>1, <3>2, <3>3, <3>4
  <2>5. QED BY <2>3, <2>4
<1>2. S \in F
  <2> HIDE DEF F
  <2> QED BY <1>1, FiniteInduction
<1>3. QED BY <1>2

\* A total depends on the amounts of its set only.
LEMMA SumSame ==
    ASSUME NEW w, NEW v, NEW S, IsFiniteSet(S), \A x \in S : w[x] = v[x]
    PROVE  TotalUnits(w, S) = TotalUnits(v, S)
<1> DEFINE g == [s \in SUBSET S |-> TotalUnits(w, s)]
           h == [s \in SUBSET S |-> TotalUnits(v, s)]
<1>1. Sums(g, w, S) /\ Sums(h, v, S)
  BY SumTable
<1>2. \A s \in SUBSET S : s # {} => w[CHOOSE x \in s : TRUE] = v[CHOOSE x \in s : TRUE]
  OBVIOUS
<1>3. Sums(g, v, S)
  <2> HIDE DEF g
  <2>1. \A s \in SUBSET S : s # {} => w[CHOOSE x \in s : TRUE] = v[CHOOSE x \in s : TRUE]
    BY <1>2
  <2>2. QED BY <1>1, <2>1 DEF Sums
<1>4. g[S] = h[S]
  <2> HIDE DEF g, h
  <2> QED BY <1>1, <1>3, SumUnique
<1>5. QED BY <1>4

\* What is added to one amount is added to the total.
LEMMA SumAdd ==
    ASSUME NEW S, IsFiniteSet(S), NEW w \in [S -> Nat], NEW e \in S, NEW n \in Nat
    PROVE  TotalUnits([w EXCEPT ![e] = @ + n], S) = TotalUnits(w, S) + n
<1> DEFINE v == [w EXCEPT ![e] = @ + n]
<1>1. IsFiniteSet(S \ {e})
  BY FS_Subset
<1>2. TotalUnits(w, S) = w[e] + TotalUnits(w, S \ {e})
  BY SumTake
<1>3. v \in [S -> Nat] /\ v[e] = w[e] + n /\ \A x \in S \ {e} : v[x] = w[x]
  OBVIOUS
<1>4. TotalUnits(v, S) = v[e] + TotalUnits(v, S \ {e})
  BY <1>3, SumTake
<1>5. TotalUnits(v, S \ {e}) = TotalUnits(w, S \ {e})
  BY <1>1, <1>3, SumSame
<1>6. TotalUnits(w, S \ {e}) \in Nat
  BY <1>1, SumType
<1>7. QED BY <1>2, <1>3, <1>4, <1>5, <1>6

\* A part has no larger total than the whole.
LEMMA SumOfPart ==
    ASSUME NEW w, NEW S, IsFiniteSet(S), \A x \in S : w[x] \in Nat, NEW P \in SUBSET S
    PROVE  TotalUnits(w, P) <= TotalUnits(w, S)
<1> DEFINE F == {T \in SUBSET S : P \subseteq T => TotalUnits(w, P) <= TotalUnits(w, T)}
<1>1. ASSUME NEW T \in SUBSET S, \A U \in SUBSET T : U # T => U \in F
      PROVE  T \in F
  <2> SUFFICES ASSUME P \subseteq T PROVE TotalUnits(w, P) <= TotalUnits(w, T)
    OBVIOUS
  <2>1. IsFiniteSet(T) /\ IsFiniteSet(P)
    BY FS_Subset
  <2>2. TotalUnits(w, P) \in Nat
    BY <2>1, SumType
  <2>3. CASE T = P
    BY <2>2, <2>3
  <2>4. CASE T # P
    <3>1. PICK x \in T : x \notin P
      BY <2>4
    <3>2. TotalUnits(w, T) = w[x] + TotalUnits(w, T \ {x})
      BY <2>1, SumTake
    <3>3. TotalUnits(w, P) <= TotalUnits(w, T \ {x})
      BY <1>1, <3>1
    <3>4. TotalUnits(w, T \ {x}) \in Nat
      <4>1. IsFiniteSet(T \ {x})
        BY <2>1, FS_Subset
      <4>2. QED BY <4>1, SumType
    <3>5. QED BY <2>2, <3>2, <3>3, <3>4
  <2>5. QED BY <2>3, <2>4
<1>2. S \in F
  <2> HIDE DEF F
  <2> QED BY <1>1, FiniteInduction
<1>3. QED BY <1>2

UnitsOf(rows) == [r \in rows |-> r.units]

\* The units of rows are a total as well, of amounts known by row.
LEMMA UnitsAreTotal ==
    ASSUME NEW rows, IsFiniteSet(rows)
    PROVE  Units(rows) = TotalUnits(UnitsOf(rows), rows)
<1> DEFINE Summing(k) ==
             k = [s \in SUBSET rows |->
                    IF s = {} THEN 0
                    ELSE (CHOOSE x \in s : TRUE).units + k[s \ {CHOOSE x \in s : TRUE}]]
           h == CHOOSE k : Summing(k)
<1>1. \A s \in SUBSET rows : s # {} =>
        UnitsOf(rows)[CHOOSE x \in s : TRUE] = (CHOOSE x \in s : TRUE).units
  <2>1. \A s \in SUBSET rows : s # {} => (CHOOSE x \in s : TRUE) \in rows
    OBVIOUS
  <2>2. QED BY <2>1 DEF UnitsOf
<1>2. ASSUME NEW k PROVE Summing(k) <=> Sums(k, UnitsOf(rows), rows)
  BY <1>1 DEF Sums
<1>3. Sums(h, UnitsOf(rows), rows)
  <2>1. \E k : Sums(k, UnitsOf(rows), rows)
    BY SumTable
  <2>2. \E k : Summing(k)
    <3> HIDE DEF Summing
    <3> QED BY <1>2, <2>1
  <2>3. Summing(h)
    <3> HIDE DEF Summing
    <3> QED BY <2>2
  <2>4. QED
    <3> HIDE DEF Summing, h
    <3> QED BY <1>2, <2>3
<1>4. Units(rows) = h[rows]
  BY DEF Units, MapThenSumSet, MapThenFoldSet
<1>5. PICK g : Sums(g, UnitsOf(rows), rows) /\ TotalUnits(UnitsOf(rows), rows) = g[rows]
  <2> HIDE DEF h
  <2> QED BY <1>3, SumDef
<1>6. QED
  <2> HIDE DEF h
  <2> QED BY <1>3, <1>4, <1>5, SumUnique

OwnersOf(rows) == {r.owner : r \in rows}

OnePerOwner(rows) == \A r, s \in rows : r.owner = s.owner => r = s

\* Finitely many rows have finitely many owners,
LEMMA FiniteOwners ==
    ASSUME NEW rows, IsFiniteSet(rows)
    PROVE  IsFiniteSet(OwnersOf(rows))
<1> DEFINE f == [r \in rows |-> r.owner]
<1>1. f \in Surjection(rows, OwnersOf(rows))
  BY DEF Surjection, OwnersOf
<1>2. QED BY <1>1, FS_Surjection

\* and finitely many owners have finitely many rows, with one row for each.
LEMMA FiniteRows ==
    ASSUME NEW rows, OnePerOwner(rows), IsFiniteSet(OwnersOf(rows))
    PROVE  IsFiniteSet(rows)
<1> DEFINE f == [r \in rows |-> r.owner]
<1>1. f \in Injection(rows, OwnersOf(rows))
  BY DEF Injection, IsInjective, OwnersOf, OnePerOwner
<1>2. QED BY <1>1, FS_Injection

\* Rows of distinct owners have no more units in all than their owners have amounts,
\* and as many when each has all of its owner's.
LEMMA SumByOwner ==
    ASSUME NEW rows, IsFiniteSet(rows), OnePerOwner(rows), NEW w,
           \A r \in rows : r.units \in Nat /\ w[r.owner] \in Nat /\ r.units <= w[r.owner]
    PROVE  /\ Units(rows) <= TotalUnits(w, OwnersOf(rows))
           /\ (\A r \in rows : r.units = w[r.owner]) => Units(rows) = TotalUnits(w, OwnersOf(rows))
<1> DEFINE u == UnitsOf(rows)
           F == {T \in SUBSET rows :
                   /\ TotalUnits(u, T) <= TotalUnits(w, OwnersOf(T))
                   /\ (\A r \in T : r.units = w[r.owner])
                        => TotalUnits(u, T) = TotalUnits(w, OwnersOf(T))}
<1>1. \A r \in rows : u[r] = r.units
  BY DEF UnitsOf
<1>2. ASSUME NEW T \in SUBSET rows, \A U \in SUBSET T : U # T => U \in F
      PROVE  T \in F
  <2>1. IsFiniteSet(T)
    BY FS_Subset
  <2>2. CASE T = {}
    <3>1. OwnersOf(T) = {}
      BY <2>2 DEF OwnersOf
    <3>2. QED BY <2>2, <3>1, SumEmpty
  <2>3. CASE T # {}
    <3>1. PICK r \in T : TRUE
      BY <2>3
    <3> DEFINE U == T \ {r}
    <3>2. TotalUnits(u, T) = u[r] + TotalUnits(u, U)
      BY <1>1, <2>1, SumTake
    <3>3. OwnersOf(U) = OwnersOf(T) \ {r.owner} /\ r.owner \in OwnersOf(T)
      BY DEF OwnersOf, OnePerOwner
    <3>4. IsFiniteSet(OwnersOf(T)) /\ IsFiniteSet(U) /\ IsFiniteSet(OwnersOf(U))
      BY <2>1, FS_Subset, FiniteOwners
    <3>5. TotalUnits(w, OwnersOf(T)) = w[r.owner] + TotalUnits(w, OwnersOf(U))
      <4>1. \A o \in OwnersOf(T) : w[o] \in Nat
        BY DEF OwnersOf
      <4>2. QED BY <3>3, <3>4, <4>1, SumTake
    <3>6. TotalUnits(u, U) \in Nat /\ TotalUnits(w, OwnersOf(U)) \in Nat
      <4>1. \A o \in OwnersOf(U) : w[o] \in Nat
        BY DEF OwnersOf
      <4>2. \A x \in U : u[x] \in Nat
        BY <1>1
      <4>3. QED
        <5> HIDE DEF u, U
        <5> QED BY <3>4, <4>1, <4>2, SumType
    <3>7. U \in F
      BY <1>2
    <3>8. u[r] = r.units
      BY <1>1
    <3>9. QED
      <4> HIDE DEF u
      <4> QED BY <3>2, <3>5, <3>6, <3>7, <3>8
  <2>4. QED BY <2>2, <2>3
<1>3. rows \in F
  <2> HIDE DEF F
  <2> QED BY <1>2, FiniteInduction
<1>4. Units(rows) = TotalUnits(u, rows)
  BY UnitsAreTotal
<1>5. QED BY <1>3, <1>4
-----------------------------------------------------------------------------
(* The ledger, the types and the records.                                   *)

\* An event has finitely many positions.
LEMMA FiniteOwnersOfPositions == IsFiniteSet(Owners) /\ IsFiniteSet(Scope) /\ IsFiniteSet(Held)
<1>1. IsFiniteSet(Owners)
  BY DistributionAssumption, FS_AddElement DEF Owners
<1>2. IsFiniteSet(Scope)
  BY <1>1, DistributionAssumption, FS_Subset
<1>3. IsFiniteSet(Held)
  BY <1>2, FS_Subset DEF Held
<1>4. QED
  BY <1>1, <1>2, <1>3

\* Purchases keep the ledger's types and only add to what investors hold.
LEMMA LedgerTypes ==
    ASSUME LedgerTypeOK, NEW r \in Requests, Transfer(r) \/ Refuse(r)
    PROVE  LedgerTypeOK' /\ \A b \in Buyers : holding[b] <= holding'[b]
<1>1. call[r].buyer \in Buyers /\ call[r].amount \in Nat
  BY LedgerAssumption DEF LedgerTypeOK
<1>2. CASE Transfer(r)
  <2>1. inventory' \in Nat
    BY <1>1, <1>2 DEF Transfer, LedgerTypeOK
  <2>2. holding' \in [Buyers -> Nat] /\ \A b \in Buyers : holding[b] <= holding'[b]
    BY <1>1, <1>2 DEF Transfer, LedgerTypeOK
  <2>3. QED
    BY <1>2, <2>1, <2>2 DEF Transfer, LedgerTypeOK
<1>3. CASE Refuse(r)
  BY <1>3 DEF Refuse, LedgerTypeOK
<1>4. QED
  BY <1>2, <1>3

\* A project goes live with its whole supply in the inventory.
LEMMA LedgerInitTypes == LedgerInit => LedgerTypeOK
  BY LedgerAssumption DEF LedgerInit, LedgerTypeOK

CallStep(c) ==
    \/ c \in Calculations /\ Calculate(c)
    \/ c \in Readers /\ Read(c)
    \/ Sync(c)
    \/ Fail(c)

\* A call leaves the ledger alone.
LEMMA CallsKeepLedger ==
    ASSUME NEW c \in Callers, CallStep(c)
    PROVE  UNCHANGED ledgerVars
  BY DEF CallStep, Calculate, Read, Sync, Fail, ReadPositions, DeleteEntitlements, DeletePayouts,
     SaveEntitlements, SavePayouts, Finish, CountRecords, ReadEntitlements, DropRecords,
     ReadRecords, SaveRecords, Prune

\* A step is a purchase, a step of a call, or none.
LEMMA Steps ==
    ASSUME [Next]_vars
    PROVE  \/ \E r \in Requests : (Transfer(r) \/ Refuse(r)) /\ UNCHANGED distVars
           \/ \E c \in Callers : CallStep(c)
           \/ UNCHANGED vars
  BY DEF Next, CallStep, Callers

\* Nothing is lost: what the inventory and the investors have is the supply.
NothingLost == inventory + TotalUnits(holding, Buyers) = Supply

\* The books of the ledger balance for every number of buyers and purchases: a
\* transfer adds to one position what it takes from the inventory.
THEOREM LedgerConserves == LedgerSpec => [](LedgerTypeOK /\ NothingLost)
<1>1. LedgerInit => LedgerTypeOK /\ NothingLost
  <2> SUFFICES ASSUME LedgerInit PROVE LedgerTypeOK /\ NothingLost
    OBVIOUS
  <2>1. LedgerTypeOK
    BY LedgerInitTypes
  <2>2. TotalUnits(holding, Buyers) = 0
    <3> DEFINE none == [T \in SUBSET Buyers |-> 0]
    <3>1. \A b \in Buyers : holding[b] = 0
      BY DEF LedgerInit
    <3>2. Sums(none, holding, Buyers)
      BY <3>1 DEF Sums
    <3>3. PICK h : Sums(h, holding, Buyers) /\ TotalUnits(holding, Buyers) = h[Buyers]
      BY <3>2, SumDef
    <3>4. h[Buyers] = none[Buyers]
      <4> HIDE DEF none
      <4> QED BY <3>2, <3>3, SumUnique, DistributionAssumption
    <3>5. QED
      BY <3>3, <3>4
  <2>3. QED
    BY <2>1, <2>2, LedgerAssumption DEF LedgerInit, NothingLost
<1>2. (LedgerTypeOK /\ NothingLost) /\ [LedgerNext]_ledgerVars => (LedgerTypeOK /\ NothingLost)'
  <2> SUFFICES ASSUME LedgerTypeOK, NothingLost, [LedgerNext]_ledgerVars
               PROVE  LedgerTypeOK' /\ NothingLost'
    OBVIOUS
  <2>1. ASSUME NEW r \in Requests, Transfer(r) \/ Refuse(r)
        PROVE  LedgerTypeOK' /\ NothingLost'
    <3>1. LedgerTypeOK'
      BY <2>1, LedgerTypes
    <3>2. CASE Transfer(r)
      <4>1. call[r].buyer \in Buyers /\ call[r].amount \in Nat
        BY LedgerAssumption DEF LedgerTypeOK
      <4>2. TotalUnits(holding', Buyers) = TotalUnits(holding, Buyers) + call[r].amount
        <5>1. holding' = [holding EXCEPT ![call[r].buyer] = @ + call[r].amount]
          BY <3>2 DEF Transfer
        <5>2. holding \in [Buyers -> Nat] /\ IsFiniteSet(Buyers)
          BY DistributionAssumption DEF LedgerTypeOK
        <5>3. QED
          BY <4>1, <5>1, <5>2, SumAdd
      <4>3. TotalUnits(holding, Buyers) \in Nat
        BY SumType, DistributionAssumption DEF LedgerTypeOK
      <4>4. inventory' = inventory - call[r].amount /\ inventory \in Nat
        BY <3>2 DEF Transfer, LedgerTypeOK
      <4>5. QED
        BY <3>1, <4>1, <4>2, <4>3, <4>4, LedgerAssumption DEF NothingLost
    <3>3. CASE Refuse(r)
      BY <3>1, <3>3 DEF Refuse, NothingLost
    <3>4. QED
      BY <2>1, <3>2, <3>3
  <2>2. CASE UNCHANGED ledgerVars
    BY <2>2 DEF ledgerVars, LedgerTypeOK, NothingLost
  <2>3. QED
    BY <2>1, <2>2 DEF LedgerNext
<1>3. QED
  BY <1>1, <1>2, PTL DEF LedgerSpec

\* To the ledger, a distribution with its calculations and GETs is nothing but the
\* purchases that settle meanwhile: it reads positions and writes none.
THEOREM DistributionsUseLedger == Spec => LedgerSpec
<1>1. Init => LedgerInit
  BY DEF Init
<1>2. [Next]_vars => [LedgerNext]_ledgerVars
  BY Steps, CallsKeepLedger DEF LedgerNext, vars
<1>3. QED
  BY <1>1, <1>2, PTL DEF Spec, LedgerSpec

\* A position's share has a positive total.
LEMMA SharesAreShares ==
    ASSUME LedgerTypeOK, NEW c \in Calculations, NEW o \in Held
    PROVE  Share(c, o, Amount, Held) \in Shares
<1>1. Held \subseteq Owners
  BY DistributionAssumption DEF Held
<1>2. \A x \in Owners : Amount[x] \in Nat
  BY DEF Amount, Owners, LedgerTypeOK
<1>3. Amount[o] > 0
  BY DEF Held
<1>4. TotalUnits(Amount, Held) \in Nat
  BY <1>1, <1>2, FiniteOwnersOfPositions, SumType
<1>5. TotalUnits(Amount, Held) = Amount[o] + TotalUnits(Amount, Held \ {o})
  BY <1>1, <1>2, FiniteOwnersOfPositions, SumTake
<1>6. TotalUnits(Amount, Held \ {o}) \in Nat
  <2>1. IsFiniteSet(Held \ {o})
    BY FiniteOwnersOfPositions, FS_Subset
  <2>2. QED
    BY <1>1, <1>2, <2>1, SumType
<1>7. Amount[o] \in Nat \ {0} /\ TotalUnits(Amount, Held) \in Nat \ {0}
  BY <1>1, <1>2, <1>3, <1>4, <1>5, <1>6
<1>8. QED
  BY <1>1, <1>7 DEF Share, Shares

\* The record of an entitlement is a record of an investor.
LEMMA SavedRows ==
    ASSUME TypeOK, NEW c \in Callers, NEW rows \in Saved(c)
    PROVE  /\ rows \subseteq RecordRows
           /\ OnePerOwner(rows)
           /\ OwnersOf(rows) = Holders(c)
           /\ \A w \in rows : \E e \in Entitled(c) : w = RecordOf(c, e)
<1>1. PICK f \in [Holders(c) -> Entitled(c)] :
        /\ \A o \in Holders(c) : f[o].owner = o
        /\ rows = {RecordOf(c, f[o]) : o \in Holders(c)}
  BY DEF Saved
<1>2. \A e : RecordOf(c, e).owner = e.owner
  BY DEF RecordOf
<1>3. \A e \in Entitled(c) : RecordOf(c, e) \in RecordRows
  <2> SUFFICES ASSUME NEW e \in Entitled(c) PROVE RecordOf(c, e) \in RecordRows
    OBVIOUS
  <2>1. e \in Shares /\ e.owner # Distributor
    BY DEF Entitled, TypeOK
  <2>2. e.owner \in Buyers /\ e.units \in Nat \ {0} /\ e.total \in Nat \ {0}
    BY <2>1 DEF Shares, Owners
  <2>3. RecordOf(c, e).by \in Callers
    <3>1. found[c] \subseteq RecordRows
      BY DEF TypeOK
    <3>2. \A r \in RecordRows : r.by \in Callers
      BY DEF RecordRows
    <3>3. QED
      BY <3>1, <3>2 DEF RecordOf
  <2>4. QED
    BY <2>2, <2>3 DEF RecordOf, RecordRows
<1>4. OnePerOwner(rows)
  BY <1>1, <1>2 DEF OnePerOwner
<1>5. OwnersOf(rows) = Holders(c)
  BY <1>1, <1>2 DEF OwnersOf
<1>6. QED
  BY <1>1, <1>3, <1>4, <1>5

\* Every await of a call writes rows of the right tables.
LEMMA CallTypes ==
    ASSUME TypeOK, NEW c \in Callers, CallStep(c)
    PROVE  TypeOK'
<1> USE DEF TypeOK
<1>1. LedgerTypeOK'
  BY CallsKeepLedger DEF ledgerVars, LedgerTypeOK
<1>2. \A l \in Labels : [at EXCEPT ![c] = l] \in [Callers -> Labels]
  OBVIOUS
<1>3. Running \subseteq Callers
  BY DEF Running
<1>4. AfterSync(c) \in Labels
  BY DEF AfterSync, Labels
<1>5. ASSUME NEW l \in Labels, Enter(c, l)
      PROVE  at' \in [Callers -> Labels] /\ overlapped' \subseteq Callers
  BY <1>2, <1>3, <1>5 DEF Enter, Goto
<1>6. CASE c \in Calculations /\ ReadPositions(c)
  <2>1. {Share(c, o, Amount, Held) : o \in Held} \subseteq Shares
    BY <1>6, SharesAreShares
  <2>2. view' \in [Callers -> SUBSET Shares]
    BY <1>6, <2>1 DEF ReadPositions
  <2>3. "deleteEntitlements" \in Labels
    BY DEF Labels
  <2>4. QED
    BY <1>1, <1>5, <1>6, <2>2, <2>3 DEF ReadPositions
<1>7. CASE DeleteEntitlements(c)
  BY <1>1, <1>2, <1>7 DEF DeleteEntitlements, Goto, Labels
<1>8. CASE DeletePayouts(c)
  BY <1>1, <1>2, <1>8 DEF DeletePayouts, Goto, Labels
<1>9. CASE SaveEntitlements(c)
  BY <1>1, <1>2, <1>9 DEF SaveEntitlements, Goto, Labels
<1>10. CASE SavePayouts(c)
  BY <1>1, <1>2, <1>10 DEF SavePayouts, Goto, Labels
<1>11. CASE Finish(c)
  BY <1>1, <1>2, <1>11 DEF Finish, Goto, Labels
<1>12. CASE CountRecords(c)
  <2>1. {"read", "done"} \subseteq Labels
    BY DEF Labels
  <2>2. QED
    BY <1>1, <1>5, <1>12, <2>1 DEF CountRecords
<1>13. CASE ReadEntitlements(c)
  BY <1>1, <1>2, <1>13 DEF ReadEntitlements, Goto, Labels
<1>14. CASE DropRecords(c)
  BY <1>1, <1>2, <1>4, <1>14 DEF DropRecords, Goto
<1>15. CASE ReadRecords(c)
  <2>1. found' \in [Callers -> SUBSET RecordRows]
    BY <1>15 DEF ReadRecords
  <2>2. QED
    BY <1>1, <1>2, <1>15, <2>1 DEF ReadRecords, Goto, Labels
<1>16. CASE SaveRecords(c)
  <2>1. records' \subseteq RecordRows
    BY <1>16, SavedRows DEF SaveRecords
  <2>2. at' \in [Callers -> Labels]
    BY <1>2, <1>16 DEF SaveRecords, Goto, Labels
  <2>3. QED
    BY <1>1, <1>16, <2>1, <2>2 DEF SaveRecords
<1>17. CASE Prune(c)
  BY <1>1, <1>2, <1>4, <1>17 DEF Prune, Goto
<1>18. CASE Fail(c)
  BY <1>1, <1>2, <1>18 DEF Fail, Goto, Labels
<1>19. QED
  BY <1>6, <1>7, <1>8, <1>9, <1>10, <1>11, <1>12, <1>13, <1>14, <1>15, <1>16, <1>17, <1>18
     DEF CallStep, Calculate, Read, Sync

\* Every row is a row of its table whatever the interleaving: no share has an empty
\* total, and no record belongs to the inventory.
THEOREM TypeCorrect == Spec => []TypeOK
<1>1. Init => TypeOK
  BY LedgerInitTypes DEF Init, TypeOK, Labels
<1>2. TypeOK /\ [Next]_vars => TypeOK'
  <2> SUFFICES ASSUME TypeOK, [Next]_vars PROVE TypeOK'
    OBVIOUS
  <2>1. ASSUME NEW r \in Requests, Transfer(r) \/ Refuse(r), UNCHANGED distVars
        PROVE  TypeOK'
    <3>1. LedgerTypeOK'
      BY <2>1, LedgerTypes DEF TypeOK
    <3>2. QED
      BY <2>1, <3>1 DEF TypeOK, distVars
  <2>2. CASE UNCHANGED vars
    BY <2>2 DEF vars, ledgerVars, distVars, TypeOK, LedgerTypeOK
  <2>3. QED
    BY <2>1, <2>2, Steps, CallTypes
<1>3. QED
  BY <1>1, <1>2, PTL DEF Spec

-----------------------------------------------------------------------------
(* What an investor is shown.  RecordsEarned is not inductive: a record is  *)
(* written from the view of a call, taken awaits earlier from the ledger or *)
(* from the entitlements.  EarnedInv says of all three, and of nothing else,*)
(* that their units are covered; a view never becomes false because         *)
(* holdings only grow.                                                      *)

\* What a row must satisfy to become, or to be, a record.
Covered(e) == e.owner # Distributor => e.units <= holding[e.owner]

EarnedInv ==
    /\ \A c \in Callers : \A e \in view[c] : Covered(e)
    /\ \A e \in entitlements : Covered(e)
    /\ \A r \in records : Covered(r)

\* Purchases only add to what investors hold.
LEMMA LedgerEarned ==
    ASSUME TypeOK, EarnedInv, NEW r \in Requests, Transfer(r) \/ Refuse(r), UNCHANGED distVars
    PROVE  EarnedInv'
<1>1. LedgerTypeOK' /\ \A b \in Buyers : holding[b] <= holding'[b]
  BY LedgerTypes DEF TypeOK
<1>2. ASSUME NEW e \in Shares \cup RecordRows, Covered(e)
      PROVE  Covered(e)'
  <2> SUFFICES ASSUME e.owner # Distributor PROVE e.units <= holding'[e.owner]
    BY DEF Covered
  <2>1. e.owner \in Buyers /\ e.units \in Nat
    BY DEF Shares, RecordRows, Owners
  <2>2. holding[e.owner] \in Nat /\ holding'[e.owner] \in Nat
    BY <1>1, <2>1 DEF TypeOK, LedgerTypeOK
  <2>3. QED
    BY <1>1, <1>2, <2>1, <2>2 DEF Covered
<1>3. view' = view /\ entitlements' = entitlements /\ records' = records
  BY DEF distVars
<1>4. QED
  BY <1>2, <1>3 DEF EarnedInv, TypeOK

\* A call takes its rows from the ledger, from the entitlements or from the rows
\* it has, and leaves the ledger alone.
LEMMA CallEarned ==
    ASSUME TypeOK, EarnedInv, NEW c \in Callers, CallStep(c)
    PROVE  EarnedInv'
<1> USE DEF EarnedInv
<1>1. \A e : Covered(e)' <=> Covered(e)
  BY CallsKeepLedger DEF ledgerVars, Covered
<1>2. CASE ReadPositions(c)
  <2>1. ASSUME NEW o \in Held
        PROVE  Covered(Share(c, o, Amount, Held))
    <3>1. o \in Owners
      BY DistributionAssumption DEF Held
    <3>2. o # Distributor => Amount[o] = holding[o] /\ holding[o] \in Nat
      BY <3>1 DEF Amount, Owners, TypeOK, LedgerTypeOK
    <3>3. Share(c, o, Amount, Held).owner = o /\ Share(c, o, Amount, Held).units = Amount[o]
      BY DEF Share
    <3>4. QED
      BY <3>2, <3>3 DEF Covered
  <2>2. QED
    BY <1>1, <1>2, <2>1 DEF ReadPositions, TypeOK
<1>3. CASE DeleteEntitlements(c)
  BY <1>1, <1>3 DEF DeleteEntitlements
<1>4. CASE DeletePayouts(c)
  BY <1>1, <1>4 DEF DeletePayouts
<1>5. CASE SaveEntitlements(c)
  BY <1>1, <1>5 DEF SaveEntitlements
<1>6. CASE SavePayouts(c)
  BY <1>1, <1>6 DEF SavePayouts
<1>7. CASE Finish(c)
  BY <1>1, <1>7 DEF Finish
<1>8. CASE CountRecords(c)
  BY <1>1, <1>8 DEF CountRecords
<1>9. CASE ReadEntitlements(c)
  BY <1>1, <1>9 DEF ReadEntitlements, TypeOK
<1>10. CASE DropRecords(c)
  BY <1>1, <1>10 DEF DropRecords
<1>11. CASE ReadRecords(c)
  BY <1>1, <1>11 DEF ReadRecords
<1>12. CASE SaveRecords(c)
  <2>1. ASSUME NEW rows \in Saved(c), NEW w \in rows
        PROVE  Covered(w)
    <3>1. PICK e \in Entitled(c) : w = RecordOf(c, e)
      BY <2>1, SavedRows
    <3>2. w.owner = e.owner /\ w.units = e.units
      BY <3>1 DEF RecordOf
    <3>3. QED
      BY <3>1, <3>2 DEF Entitled, Covered
  <2>2. \A r \in records' : Covered(r)
    BY <1>12, <2>1 DEF SaveRecords
  <2>3. QED
    BY <1>1, <1>12, <2>2 DEF SaveRecords
<1>13. CASE Prune(c)
  BY <1>1, <1>13 DEF Prune
<1>14. CASE Fail(c)
  BY <1>1, <1>14 DEF Fail
<1>15. QED
  BY <1>2, <1>3, <1>4, <1>5, <1>6, <1>7, <1>8, <1>9, <1>10, <1>11, <1>12, <1>13, <1>14
     DEF CallStep, Calculate, Read, Sync

\* The units of every row that is, or may become, a record are covered.
THEOREM EarnedInvariance == Spec => []EarnedInv
<1>1. Init => EarnedInv
  BY DEF Init, EarnedInv
<1>2. TypeOK /\ EarnedInv /\ [Next]_vars => EarnedInv'
  <2>1. TypeOK /\ EarnedInv /\ UNCHANGED vars => EarnedInv'
    BY DEF EarnedInv, vars, ledgerVars, distVars, Covered
  <2>2. QED
    BY <2>1, Steps, LedgerEarned, CallEarned
<1>3. QED
  BY <1>1, <1>2, TypeCorrect, PTL DEF Spec

\* No record promises an investor a share of more units than the investor owns,
\* however calculations, backfills, purchases and crashes interleave.
THEOREM Earned == Spec => []RecordsEarned
<1>1. TypeOK /\ EarnedInv => RecordsEarned
  BY DistributionAssumption DEF TypeOK, RecordRows, EarnedInv, Covered, RecordsEarned
<1>2. QED
  BY <1>1, TypeCorrect, EarnedInvariance, PTL

\* No investor has two records of the event: the unique index refuses a second row
\* for an owner, whether it was found, inserted or is about to be.
OneRecordEach == OnePerOwner(records)

\* Only SaveRecords adds records, and checks them against those that are there.
LEMMA OneRecordInvariance == Spec => []OneRecordEach
<1>1. Init => OneRecordEach
  BY DEF Init, OneRecordEach, OnePerOwner
<1>2. TypeOK /\ OneRecordEach /\ [Next]_vars => OneRecordEach'
  <2> SUFFICES ASSUME TypeOK, OneRecordEach, [Next]_vars PROVE OneRecordEach'
    OBVIOUS
  <2>1. ASSUME NEW c \in Callers, SaveRecords(c)
        PROVE  OneRecordEach'
    <3>1. PICK rows \in Saved(c) :
             \/ records' = records
             \/ /\ ~Conflict(c, rows)
                /\ records' = {r \in records : \A w \in rows : Key(r) # Key(w)} \cup rows
      BY <2>1 DEF SaveRecords
    <3>2. OnePerOwner(rows)
      BY SavedRows
    <3>3. ASSUME ~Conflict(c, rows), NEW r \in records, NEW w \in rows, r.owner = w.owner
          PROVE  Key(r) = Key(w)
      BY <3>3 DEF Conflict
    <3>4. QED
      BY <3>1, <3>2, <3>3 DEF OneRecordEach, OnePerOwner
  <2>2. ASSUME NEW c \in Callers, CallStep(c), ~SaveRecords(c)
        PROVE  records' \subseteq records
    BY <2>2 DEF CallStep, Calculate, Read, Sync, Fail, ReadPositions, DeleteEntitlements,
       DeletePayouts, SaveEntitlements, SavePayouts, Finish, CountRecords, ReadEntitlements,
       DropRecords, ReadRecords, Prune
  <2>3. records' \subseteq records => OneRecordEach'
    BY DEF OneRecordEach, OnePerOwner
  <2>4. QED
    BY <2>1, <2>2, <2>3, Steps DEF vars, distVars
<1>3. QED
  BY <1>1, <1>2, TypeCorrect, PTL DEF Spec

\* Investors are never shown more, in all, than the event's net amount: their records
\* are at most one for each and covered by what they hold, which together is no more
\* than the supply.
THEOREM NeverOverNet == Spec => []RecordsWithinNet
<1>1. TypeOK /\ EarnedInv /\ OneRecordEach /\ NothingLost => RecordsWithinNet
  <2> SUFFICES ASSUME TypeOK, EarnedInv, OneRecordEach, NothingLost
               PROVE  Units(records) <= Supply
    BY DEF RecordsWithinNet
  <2>1. \A r \in records : /\ r.owner \in Buyers /\ r.units \in Nat
                           /\ holding[r.owner] \in Nat /\ r.units <= holding[r.owner]
    BY DistributionAssumption DEF TypeOK, RecordRows, EarnedInv, Covered, LedgerTypeOK
  <2>2. OwnersOf(records) \subseteq Buyers
    BY <2>1 DEF OwnersOf
  <2>3. IsFiniteSet(OwnersOf(records)) /\ IsFiniteSet(records)
    BY <2>2, DistributionAssumption, FS_Subset, FiniteRows DEF OneRecordEach
  <2>4. Units(records) <= TotalUnits(holding, OwnersOf(records))
    BY <2>1, <2>3, SumByOwner DEF OneRecordEach
  <2>5. \A b \in Buyers : holding[b] \in Nat
    BY DEF TypeOK, LedgerTypeOK
  <2>6. TotalUnits(holding, OwnersOf(records)) <= TotalUnits(holding, Buyers)
    BY <2>2, <2>5, DistributionAssumption, SumOfPart
  <2>7. /\ TotalUnits(holding, OwnersOf(records)) \in Nat
        /\ TotalUnits(holding, Buyers) \in Nat
    <3>1. \A o \in OwnersOf(records) : holding[o] \in Nat
      BY <2>2, <2>5
    <3>2. QED
      BY <2>3, <2>5, <3>1, DistributionAssumption, SumType
  <2>8. Units(records) \in Nat
    <3>1. \A r \in records : UnitsOf(records)[r] \in Nat
      BY <2>1 DEF UnitsOf
    <3>2. QED
      BY <2>3, <3>1, SumType, UnitsAreTotal
  <2>9. QED
    BY <2>4, <2>6, <2>7, <2>8, LedgerAssumption DEF NothingLost, TypeOK, LedgerTypeOK
<1>2. QED
  BY <1>1, TypeCorrect, EarnedInvariance, OneRecordInvariance,
     DistributionsUseLedger, LedgerConserves, PTL

-----------------------------------------------------------------------------
(* What a call leaves behind that nobody overlapped.  Such a call is the    *)
(* only one running, so what it has written and read is what the tables     *)
(* hold: Standing says so, await by await.                                  *)

\* The rows of one calculation: one for each owner, their total that of all.
Whole(rows) == OnePerOwner(rows) /\ \A r \in rows : r.total = Units(rows)

Alone(c) == c \in Running /\ c \notin overlapped

\* What Prune will leave of the records.
Remaining(c) == {r \in records : r.owner \in Holders(c) \/ \A f \in found[c] : Key(f) # Key(r)}

\* The entitlements and payouts are those of the call.
Written(c) ==
    /\ at[c] \in {"deletePayouts", "saveEntitlements"} => entitlements = {}
    /\ at[c] = "saveEntitlements" => payouts = {}
    /\ at[c] = "savePayouts" => payouts = {} /\ entitlements = view[c]
    /\ at[c] \in {"sync", "saveRecords", "prune", "finish"} => payouts = view[c]

\* The records are, or will be after Prune, those of the entitlements.
Synced(c) ==
    /\ at[c] = "prune" => Content(Remaining(c)) = Content(Entitled(c))
    /\ at[c] = "finish" => Content(records) = Content(Entitled(c))

Standing(c) ==
    /\ Running = {c}
    /\ at[c] \in {"sync", "saveRecords", "prune", "finish"} => entitlements = view[c]
    /\ at[c] = "saveRecords" => found[c] = records
    /\ at[c] = "prune" => Holders(c) \subseteq OwnersOf(records)
    /\ c \in Calculations => Written(c) /\ Synced(c)

RepairInv ==
    /\ \A c \in Calculations : Whole(view[c])
    /\ \A c \in Callers : Alone(c) => Standing(c)

\* The shares of one reading of the positions are whole, and are what is held.
LEMMA SharesAreWhole ==
    ASSUME LedgerTypeOK, NEW c
    PROVE  LET rows == {Share(c, o, Amount, Held) : o \in Held}
           IN  Whole(rows) /\ Units(rows) = TotalUnits(Amount, Held)
<1> DEFINE rows == {Share(c, o, Amount, Held) : o \in Held}
<1>1. \A o : /\ Share(c, o, Amount, Held).owner = o
             /\ Share(c, o, Amount, Held).units = Amount[o]
             /\ Share(c, o, Amount, Held).total = TotalUnits(Amount, Held)
  BY DEF Share
<1>2. OnePerOwner(rows) /\ OwnersOf(rows) = Held
  BY <1>1 DEF OnePerOwner, OwnersOf
<1>3. \A o \in Held : Amount[o] \in Nat
  <2>1. Held \subseteq Owners
    BY DistributionAssumption DEF Held
  <2>2. QED
    BY <2>1 DEF Amount, Owners, LedgerTypeOK
<1>4. \A r \in rows : r.units = Amount[r.owner] /\ Amount[r.owner] \in Nat
  BY <1>1, <1>3
<1>5. IsFiniteSet(rows)
  BY <1>2, FiniteOwnersOfPositions, FiniteRows
<1>6. Units(rows) = TotalUnits(Amount, OwnersOf(rows))
  <2>1. \A r \in rows : r.units \in Nat /\ Amount[r.owner] \in Nat /\ r.units <= Amount[r.owner]
    BY <1>4
  <2> HIDE DEF rows
  <2>2. QED
    BY <1>2, <1>4, <1>5, <2>1, SumByOwner
<1>7. QED
  BY <1>1, <1>2, <1>6 DEF Whole

\* Only the calculation itself reads the positions.
LEMMA ViewsStayWhole ==
    ASSUME TypeOK, RepairInv, NEW c \in Callers, CallStep(c)
    PROVE  \A d \in Calculations : Whole(view[d])'
<1>1. \A rows : Whole(rows)' <=> Whole(rows)
  BY DEF Whole
<1>2. CASE c \in Calculations /\ ReadPositions(c)
  <2>1. Whole({Share(c, o, Amount, Held) : o \in Held})
    BY SharesAreWhole DEF TypeOK
  <2>2. \A d \in Callers :
          view'[d] = IF d = c THEN {Share(c, o, Amount, Held) : o \in Held} ELSE view[d]
    BY <1>2 DEF ReadPositions, TypeOK
  <2>3. QED
    BY <2>1, <2>2 DEF RepairInv, Whole, Callers
<1>3. CASE ~(c \in Calculations /\ ReadPositions(c))
  <2>1. \A d \in Calculations : view'[d] = view[d]
    BY <1>3, DistributionAssumption DEF CallStep, Calculate, Read, Sync, Fail, DeleteEntitlements,
       DeletePayouts, SaveEntitlements, SavePayouts, Finish, CountRecords, ReadEntitlements,
       DropRecords, ReadRecords, SaveRecords, Prune, TypeOK, Callers
  <2>2. QED
    BY <2>1 DEF RepairInv, Whole
<1>4. QED
  BY <1>2, <1>3

\* Only the call that takes a step is elsewhere after it.
LEMMA OneMoves ==
    ASSUME TypeOK, NEW c \in Callers, CallStep(c), NEW d \in Callers, at'[d] # at[d]
    PROVE  d = c
<1>1. \E l : Goto(c, l)
  BY DEF CallStep, Calculate, Read, Sync, Fail, ReadPositions, DeleteEntitlements, DeletePayouts,
     SaveEntitlements, SavePayouts, Finish, CountRecords, ReadEntitlements, DropRecords,
     ReadRecords, SaveRecords, Prune, Enter
<1>2. QED
  BY <1>1 DEF Goto, TypeOK

\* A call that enters while another one runs makes both overlapped; any other step
\* is one of a running call.
LEMMA Company ==
    ASSUME TypeOK, RepairInv, NEW c \in Callers, CallStep(c), NEW d \in Callers, Alone(d)'
    PROVE  d = c /\ Running' = {c} /\ (Alone(c) \/ (at[c] = "idle" /\ Running = {}))
<1>1. CASE at[c] = "idle"
  <2>1. \E l : Enter(c, l)
    BY <1>1 DEF CallStep, Calculate, Read, Sync, Fail, ReadPositions, DeleteEntitlements,
       DeletePayouts, SaveEntitlements, SavePayouts, Finish, CountRecords, ReadEntitlements,
       DropRecords, ReadRecords, SaveRecords, Prune, Running
  <2>2. Running' \subseteq Running \cup {c}
    BY <2>1 DEF Enter, Goto, Running, TypeOK
  <2>3. Running = {}
    BY <2>1, <2>2 DEF Enter, Alone
  <2>4. QED
    BY <1>1, <2>2, <2>3 DEF Alone
<1>2. CASE at[c] # "idle"
  <2>1. c \in Running /\ overlapped' = overlapped
    BY <1>2 DEF CallStep, Calculate, Read, Sync, Fail, ReadPositions, DeleteEntitlements,
       DeletePayouts, SaveEntitlements, SavePayouts, Finish, CountRecords, ReadEntitlements,
       DropRecords, ReadRecords, SaveRecords, Prune, Enter, Running
  <2>2. \A e \in Callers : e # c => at'[e] = at[e]
    BY OneMoves
  <2>3. Running' \subseteq Running
    BY <2>1, <2>2 DEF Running
  <2>4. d \in Running /\ Alone(d)
    BY <2>1, <2>3 DEF Alone
  <2>5. Running = {d}
    BY <2>4 DEF RepairInv, Standing
  <2>6. QED
    BY <2>1, <2>3, <2>4, <2>5 DEF Alone
<1>3. QED
  BY <1>1, <1>2

\* A call that keeps its view keeps what it takes to be entitled.
LEMMA SameView ==
    ASSUME NEW c, view'[c] = view[c]
    PROVE  Entitled(c)' = Entitled(c) /\ Holders(c)' = Holders(c)
  BY DEF Entitled, Holders

\* Saving replaces the records by those of the entitlements, as far as Prune leaves
\* them: the others have just been found.
LEMMA SaveSyncs ==
    ASSUME TypeOK, RepairInv, NEW c \in Callers, Alone(c), SaveRecords(c), at'[c] = "prune"
    PROVE  /\ Holders(c) \subseteq OwnersOf(records')
           /\ c \in Calculations => Content(Remaining(c)') = Content(Entitled(c))
<1>1. PICK rows \in Saved(c) :
        /\ ~Conflict(c, rows)
        /\ records' = {r \in records : \A w \in rows : Key(r) # Key(w)} \cup rows
  BY DEF SaveRecords, Goto, TypeOK
<1>2. OwnersOf(rows) = Holders(c) /\ \A w \in rows : \E e \in Entitled(c) : w = RecordOf(c, e)
  BY SavedRows
<1>3. Holders(c) \subseteq OwnersOf(records')
  BY <1>1, <1>2 DEF OwnersOf
<1>4. found'[c] = records /\ view'[c] = view[c]
  BY DEF SaveRecords, RepairInv, Standing
<1>5. Remaining(c)' = rows
  <2>1. Remaining(c)' = {r \in records' : \/ r.owner \in Holders(c)
                                        \/ \A f \in records : Key(f) # Key(r)}
    BY <1>4, SameView DEF Remaining, Key
  <2>2. \A w \in rows : w \in records' /\ w.owner \in Holders(c)
    BY <1>1, <1>2 DEF OwnersOf
  <2>3. ASSUME NEW r \in records', r \notin rows
        PROVE  r.owner \notin Holders(c) /\ \E f \in records : Key(f) = Key(r)
    <3>1. r \in records /\ \A w \in rows : Key(r) # Key(w)
      BY <1>1, <2>3
    <3>2. r.owner \notin Holders(c)
      <4>1. SUFFICES ASSUME NEW w \in rows, w.owner = r.owner PROVE FALSE
        BY <1>2 DEF OwnersOf
      <4>2. QED
        BY <1>1, <3>1, <4>1 DEF Conflict
    <3>3. QED
      BY <3>1, <3>2
  <2>4. QED
    BY <2>1, <2>2, <2>3
<1>6. ASSUME c \in Calculations
      PROVE  Content(rows) = Content(Entitled(c))
  <2>1. \A e : /\ RecordOf(c, e).owner = e.owner /\ RecordOf(c, e).units = e.units
               /\ RecordOf(c, e).total = e.total
    BY DEF RecordOf
  <2>2. ASSUME NEW w \in rows
        PROVE  \E e \in Entitled(c) : <<w.owner, w.units, w.total>> = <<e.owner, e.units, e.total>>
    BY <1>2, <2>1
  <2>3. ASSUME NEW e \in Entitled(c)
        PROVE  \E w \in rows : <<w.owner, w.units, w.total>> = <<e.owner, e.units, e.total>>
    <3>1. PICK w \in rows : w.owner = e.owner
      BY <1>2 DEF Holders, OwnersOf
    <3>2. PICK f \in Entitled(c) : w = RecordOf(c, f)
      BY <1>2
    <3>3. f.owner = e.owner
      BY <2>1, <3>1, <3>2
    <3>4. f = e
      BY <1>6, <3>3 DEF Entitled, RepairInv, Whole, OnePerOwner
    <3>5. QED
      BY <2>1, <3>2, <3>4
  <2>4. QED
    BY <2>2, <2>3 DEF Content
<1>7. QED
  BY <1>3, <1>5, <1>6

\* A call that stays alone stands where its next await expects it.
LEMMA StandingKept ==
    ASSUME TypeOK, RepairInv, NEW c \in Callers, CallStep(c), Alone(c)'
    PROVE  Standing(c)'
<1>1. Running' = {c} /\ at'[c] \notin {"idle", "done", "failed"}
  BY Company DEF Alone, Running
<1>2. at[c] # "idle" => Standing(c) /\ Alone(c)
  BY Company DEF RepairInv
<1>3. CASE c \in Calculations /\ ReadPositions(c)
  <2>1. at'[c] = "deleteEntitlements"
    BY <1>3 DEF ReadPositions, Enter, Goto, TypeOK
  <2>2. QED
    BY <1>1, <2>1 DEF Standing, Written, Synced
<1>4. CASE c \in Calculations /\ DeleteEntitlements(c)
  <2>1. at'[c] = "deletePayouts" /\ entitlements' = {}
    BY <1>4 DEF DeleteEntitlements, Goto, TypeOK
  <2>2. QED
    BY <1>1, <2>1 DEF Standing, Written, Synced
<1>5. CASE c \in Calculations /\ DeletePayouts(c)
  <2>1. at'[c] = "saveEntitlements" /\ payouts' = {} /\ entitlements' = {}
    BY <1>1, <1>2, <1>5 DEF DeletePayouts, Goto, TypeOK, Standing, Written
  <2>2. QED
    BY <1>1, <2>1 DEF Standing, Written, Synced
<1>6. CASE c \in Calculations /\ SaveEntitlements(c)
  <2>1. at'[c] = "savePayouts" /\ payouts' = {} /\ entitlements' = view'[c]
    BY <1>2, <1>6 DEF SaveEntitlements, Goto, TypeOK, Standing, Written
  <2>2. QED
    BY <1>1, <2>1 DEF Standing, Written, Synced
<1>7. CASE c \in Calculations /\ SavePayouts(c)
  <2>1. at'[c] = "sync" /\ payouts' = view'[c] /\ entitlements' = view'[c]
    BY <1>2, <1>7 DEF SavePayouts, Goto, TypeOK, Standing, Written
  <2>2. QED
    BY <1>1, <2>1 DEF Standing, Written, Synced
<1>8. CASE c \in Readers /\ CountRecords(c)
  <2>1. at'[c] = "read" /\ c \notin Calculations
    BY <1>1, <1>8, DistributionAssumption DEF CountRecords, Enter, Goto, TypeOK
  <2>2. QED
    BY <1>1, <2>1 DEF Standing
<1>9. CASE c \in Readers /\ ReadEntitlements(c)
  <2>1. at'[c] = "sync" /\ view'[c] = entitlements' /\ c \notin Calculations
    BY <1>9, DistributionAssumption DEF ReadEntitlements, Goto, TypeOK
  <2>2. QED
    BY <1>1, <2>1 DEF Standing
<1>10. CASE DropRecords(c)
  <2>1. /\ at'[c] = "finish" /\ c \in Calculations
        /\ records' = {} /\ view'[c] = {} /\ entitlements' = {} /\ payouts' = {}
    BY <1>1, <1>2, <1>10 DEF DropRecords, Goto, AfterSync, TypeOK, Standing, Written
  <2>2. Content(records') = Content(Entitled(c)')
    BY <2>1 DEF Content, Entitled
  <2>3. QED
    BY <1>1, <2>1, <2>2 DEF Standing, Written, Synced, Content
<1>11. CASE ReadRecords(c)
  <2>1. /\ at'[c] = "saveRecords" /\ found'[c] = records' /\ entitlements' = view'[c]
        /\ c \in Calculations => payouts' = view'[c]
    BY <1>2, <1>11 DEF ReadRecords, Goto, TypeOK, Standing, Written
  <2>2. QED
    BY <1>1, <2>1 DEF Standing, Written, Synced
<1>12. CASE SaveRecords(c)
  <2>1. at'[c] = "prune"
    BY <1>1, <1>12 DEF SaveRecords, Goto, TypeOK
  <2>2. /\ entitlements' = view'[c] /\ view'[c] = view[c]
        /\ c \in Calculations => payouts' = view'[c]
    BY <1>2, <1>12 DEF SaveRecords, Standing, Written
  <2>3. /\ Holders(c)' \subseteq OwnersOf(records)'
        /\ c \in Calculations => Content(Remaining(c))' = Content(Entitled(c))'
    <3>1. Entitled(c)' = Entitled(c) /\ Holders(c)' = Holders(c)
      BY <2>2, SameView
    <3>2. /\ Holders(c) \subseteq OwnersOf(records')
          /\ c \in Calculations => Content(Remaining(c)') = Content(Entitled(c))
      BY <1>2, <1>12, <2>1, SaveSyncs DEF SaveRecords
    <3>3. QED
      BY <3>1, <3>2 DEF Content, OwnersOf
  <2>4. QED
    BY <1>1, <2>1, <2>2, <2>3 DEF Standing, Written, Synced
<1>13. CASE Prune(c)
  <2>1. /\ at'[c] = "finish" /\ c \in Calculations
        /\ view'[c] = view[c] /\ entitlements' = view'[c] /\ payouts' = view'[c]
    BY <1>1, <1>2, <1>13 DEF Prune, Goto, AfterSync, TypeOK, Standing, Written
  <2>2. records' = Remaining(c)
    BY <1>13 DEF Prune, Remaining
  <2>3. Content(records)' = Content(Entitled(c))'
    <3>1. Entitled(c)' = Entitled(c)
      BY <2>1, SameView
    <3>2. Content(Remaining(c)) = Content(Entitled(c))
      BY <1>2, <1>13, <2>1 DEF Prune, Standing, Synced
    <3>3. QED
      BY <2>2, <3>1, <3>2 DEF Content
  <2>4. QED
    BY <1>1, <2>1, <2>3 DEF Standing, Written, Synced
<1>14. CASE Finish(c) \/ Fail(c)
  BY <1>1, <1>14 DEF Finish, Fail, Goto, TypeOK
<1>15. QED
  BY <1>3, <1>4, <1>5, <1>6, <1>7, <1>8, <1>9, <1>10, <1>11, <1>12, <1>13, <1>14
     DEF CallStep, Calculate, Read, Sync

\* Purchases and steps that change nothing leave all calls where they stand.
LEMMA RestKeepsRepair ==
    ASSUME RepairInv, UNCHANGED distVars
    PROVE  RepairInv'
<1>1. \A c : Standing(c)' <=> Standing(c)
  BY DEF distVars, Standing, Written, Synced, Running, Holders, Entitled, Remaining, Content,
     OwnersOf, Key
<1>2. \A c : Alone(c)' <=> Alone(c)
  BY DEF distVars, Alone, Running
<1>3. QED
  BY <1>1, <1>2 DEF RepairInv, distVars, Whole

\* Every call that is alone stands where its next await expects it, at all times.
LEMMA RepairInvariance == Spec => []RepairInv
<1>1. Init => RepairInv
  BY DEF Init, RepairInv, Whole, OnePerOwner, Alone, Running, Callers
<1>2. TypeOK /\ RepairInv /\ [Next]_vars => RepairInv'
  <2> SUFFICES ASSUME TypeOK, RepairInv, [Next]_vars PROVE RepairInv'
    OBVIOUS
  <2>1. ASSUME NEW c \in Callers, CallStep(c) PROVE RepairInv'
    <3>1. \A d \in Calculations : Whole(view[d])'
      BY <2>1, ViewsStayWhole
    <3>2. ASSUME NEW d \in Callers, Alone(d)' PROVE Standing(d)'
      <4>1. d = c
        BY <2>1, <3>2, Company
      <4>2. QED
        BY <2>1, <3>2, <4>1, StandingKept
    <3>3. QED
      BY <3>1, <3>2 DEF RepairInv
  <2>2. QED
    BY <2>1, Steps, RestKeepsRepair DEF vars
<1>3. QED
  BY <1>1, <1>2, TypeCorrect, PTL DEF Spec

\* Whatever has gone wrong before, a calculation that nobody overlaps leaves
\* entitlements, payouts and records in agreement, for every number of calls.
THEOREM Repairs == Spec => RecalculationRepairs
<1>1. TypeOK /\ RepairInv /\ [Next]_vars =>
        \A c \in Calculations :
          at[c] = "finish" /\ at'[c] = "done" /\ c \notin overlapped => Agree'
  <2> SUFFICES ASSUME TypeOK, RepairInv, [Next]_vars, NEW c \in Calculations,
                      at[c] = "finish", at'[c] = "done", c \notin overlapped
               PROVE  Agree'
    OBVIOUS
  <2>1. c \in Callers /\ Alone(c) /\ Standing(c)
    BY DEF Callers, Alone, Running, RepairInv
  <2>2. /\ payouts = view[c] /\ entitlements = view[c]
        /\ Content(records) = Content(Entitled(c))
    BY <2>1 DEF Standing, Written, Synced
  <2>3. UNCHANGED <<entitlements, payouts, records>>
    <3>1. PICK d \in Callers : CallStep(d)
      BY Steps DEF distVars, vars
    <3>2. d = c
      BY <2>1, <3>1, OneMoves
    <3>3. QED
      BY <3>1, <3>2 DEF CallStep, Calculate, Read, Sync, Fail, ReadPositions, DeleteEntitlements,
         DeletePayouts, SaveEntitlements, SavePayouts, Finish, CountRecords, ReadEntitlements,
         DropRecords, ReadRecords, SaveRecords, Prune, Enter
  <2>4. Whole(entitlements)
    BY <2>2 DEF RepairInv
  <2>5. Agree
    BY <2>2, <2>4 DEF Agree, Whole, Entitled
  <2>6. QED
    BY <2>3, <2>5 DEF Agree, Content
<1>2. QED
  BY <1>1, TypeCorrect, RepairInvariance, PTL DEF Spec, RecalculationRepairs

\* A GET that nobody overlaps, of a calculated event with entitled investors, does
\* not find the event without records when it ends.
THEOREM Heals == Spec => BackfillHeals
<1>1. TypeOK /\ RepairInv /\ [Next]_vars =>
        \A c \in Readers :
          /\ at[c] # "done" /\ at'[c] = "done" /\ c \notin overlapped'
          /\ event = "CALCULATED" /\ \E e \in entitlements : e.owner # Distributor
          => records' # {}
  <2> SUFFICES ASSUME TypeOK, RepairInv, [Next]_vars, NEW c \in Readers,
                      at[c] # "done", at'[c] = "done", c \notin overlapped', event = "CALCULATED",
                      NEW e \in entitlements, e.owner # Distributor
               PROVE  records' # {}
    OBVIOUS
  <2>1. c \in Callers /\ c \notin Calculations
    BY DistributionAssumption DEF Callers
  <2>2. CallStep(c)
    <3>1. PICK d \in Callers : CallStep(d)
      BY Steps DEF distVars, vars
    <3>2. d = c
      BY <2>1, <3>1 DEF CallStep, Calculate, Read, Sync, Fail, ReadPositions, DeleteEntitlements,
         DeletePayouts, SaveEntitlements, SavePayouts, Finish, CountRecords, ReadEntitlements,
         DropRecords, ReadRecords, SaveRecords, Prune, Enter, Goto, TypeOK
    <3>3. QED
      BY <3>1, <3>2
  <2>3. CountRecords(c) \/ DropRecords(c) \/ Prune(c)
    BY <2>1, <2>2 DEF CallStep, Calculate, Read, Sync, Fail, ReadEntitlements, ReadRecords,
       SaveRecords, Goto, TypeOK
  <2>4. CASE CountRecords(c)
    BY <2>1, <2>4 DEF CountRecords, Enter, Goto, TypeOK
  <2>5. CASE DropRecords(c) \/ Prune(c)
    <3>1. Alone(c)
      BY <2>1, <2>5 DEF DropRecords, Prune, Alone, Running
    <3>2. Standing(c)
      BY <2>1, <3>1 DEF RepairInv
    <3>3. view[c] = entitlements
      BY <2>5, <3>2 DEF DropRecords, Prune, Standing
    <3>4. Prune(c)
      BY <2>5, <3>3 DEF DropRecords
    <3>5. e.owner \in Holders(c)
      BY <3>3 DEF Holders, Entitled
    <3>6. PICK r \in records : r.owner = e.owner
      BY <3>2, <3>4, <3>5 DEF Prune, Standing, OwnersOf
    <3>7. r \in records'
      BY <3>4, <3>5, <3>6 DEF Prune
    <3>8. QED
      BY <3>7
  <2>6. QED
    BY <2>3, <2>4, <2>5
<1>2. QED
  BY <1>1, TypeCorrect, RepairInvariance, PTL DEF Spec, BackfillHeals

-----------------------------------------------------------------------------
(* What the assertion of calculateEntitlements needs.  It compares a call's *)
(* own rows with the net amount; it is true of the table as long as no two  *)
(* calculations run at once.                                                *)

OneCalculation == \A c, d \in Calculations \cap Running : c = d

\* Each calculation pays no more than the net amount, and finds no payouts to add to.
PaidInv ==
    /\ Units(payouts) <= Supply
    /\ \A c \in Calculations : Units(view[c]) <= Supply
    /\ \A c \in Calculations : at[c] \in {"saveEntitlements", "savePayouts"} => payouts = {}

\* No rows, no units.
LEMMA NoUnits == Units({}) = 0
  BY UnitsAreTotal, SumEmpty, FS_EmptySet

\* All that is held, in the inventory or by investors, is the supply.
LEMMA HeldIsSupply ==
    ASSUME LedgerTypeOK, NothingLost
    PROVE  TotalUnits(Amount, Held) <= Supply
<1>1. \A o \in Owners : Amount[o] \in Nat
  BY DEF Amount, Owners, LedgerTypeOK
<1>2. Held \subseteq Owners /\ IsFiniteSet(Owners) /\ IsFiniteSet(Buyers)
  BY FiniteOwnersOfPositions, DistributionAssumption DEF Held
<1>3. TotalUnits(Amount, Held) <= TotalUnits(Amount, Owners)
  BY <1>1, <1>2, SumOfPart
<1>4. TotalUnits(Amount, Owners) = Amount[Distributor] + TotalUnits(Amount, Owners \ {Distributor})
  BY <1>1, <1>2, SumTake DEF Owners
<1>5. Owners \ {Distributor} = Buyers /\ Amount[Distributor] = inventory
  BY DistributionAssumption DEF Owners, Amount
<1>6. TotalUnits(Amount, Buyers) = TotalUnits(holding, Buyers)
  <2>1. \A b \in Buyers : Amount[b] = holding[b]
    BY DistributionAssumption DEF Owners, Amount
  <2>2. QED
    BY <1>2, <2>1, SumSame
<1>7. QED
  BY <1>3, <1>4, <1>5, <1>6 DEF NothingLost

\* The payouts an admin is to make never exceed the net amount if no two calculations
\* of the event run at once, whatever crashes, GETs and purchases interleave: the
\* overlap of two is the only way to exceed it.
THEOREM PaidOnce == Spec /\ []OneCalculation => []PayoutsWithinNet
<1>1. Init => PaidInv
  BY NoUnits, LedgerAssumption DEF Init, PaidInv, Callers
<1>2. TypeOK /\ NothingLost /\ OneCalculation /\ PaidInv /\ [Next]_vars => PaidInv'
  <2> SUFFICES ASSUME TypeOK, NothingLost, OneCalculation, PaidInv, [Next]_vars PROVE PaidInv'
    OBVIOUS
  <2>1. \A rows : Units(rows)' = Units(rows)
    OBVIOUS
  <2>2. CASE UNCHANGED <<payouts, view, at>>
    BY <2>2 DEF PaidInv
  <2>3. ASSUME NEW c \in Callers, CallStep(c) PROVE PaidInv'
    <3>1. at' \in [Callers -> Labels] /\ \A d \in Callers : d # c => at'[d] = at[d]
      <4>1. \E l \in Labels : Goto(c, l)
        BY <2>3 DEF CallStep, Calculate, Read, Sync, Fail, ReadPositions, DeleteEntitlements,
           DeletePayouts, SaveEntitlements, SavePayouts, Finish, CountRecords, ReadEntitlements,
           DropRecords, ReadRecords, SaveRecords, Prune, Enter, AfterSync, Labels
      <4>2. QED
        BY <4>1 DEF Goto, TypeOK
    <3>2. CASE c \in Calculations /\ ReadPositions(c)
      <4> DEFINE rows == {Share(c, o, Amount, Held) : o \in Held}
      <4>1. Units(rows) <= Supply
        BY SharesAreWhole, HeldIsSupply DEF TypeOK
      <4>2. /\ \A d \in Callers : view'[d] = IF d = c THEN rows ELSE view[d]
            /\ payouts' = payouts /\ at'[c] = "deleteEntitlements"
        BY <3>2 DEF ReadPositions, Enter, Goto, TypeOK
      <4> HIDE DEF rows
      <4>3. QED
        BY <3>1, <4>1, <4>2 DEF PaidInv, Callers
    <3>3. CASE c \in Calculations /\ DeletePayouts(c)
      BY <3>3, NoUnits, LedgerAssumption DEF DeletePayouts, PaidInv
    <3>4. CASE c \in Calculations /\ SaveEntitlements(c)
      BY <3>1, <3>4 DEF SaveEntitlements, Goto, TypeOK, PaidInv, Callers
    <3>5. CASE c \in Calculations /\ SavePayouts(c)
      <4>1. /\ payouts' = view[c] /\ view' = view /\ at'[c] = "sync"
        BY <3>5 DEF SavePayouts, Goto, TypeOK, PaidInv
      <4>2. ASSUME NEW d \in Calculations, d # c PROVE at[d] \notin {"saveEntitlements", "savePayouts"}
        BY <3>5, <4>2 DEF SavePayouts, OneCalculation, Running, Callers
      <4>3. QED
        BY <3>1, <3>5, <4>1, <4>2 DEF PaidInv, Callers
    <3>6. CASE /\ ~(c \in Calculations /\ ReadPositions(c)) /\ ~(c \in Calculations /\ DeletePayouts(c))
               /\ ~(c \in Calculations /\ SaveEntitlements(c)) /\ ~(c \in Calculations /\ SavePayouts(c))
      <4>1. /\ payouts' = payouts /\ \A d \in Calculations : view'[d] = view[d]
            /\ at'[c] \notin {"saveEntitlements", "savePayouts"}
        BY <2>3, <3>6, DistributionAssumption DEF CallStep, Calculate, Read, Sync, Fail,
           DeleteEntitlements, Finish, CountRecords, ReadEntitlements, DropRecords, ReadRecords,
           SaveRecords, Prune, Enter, AfterSync, Goto, TypeOK, Callers
      <4>2. QED
        BY <3>1, <4>1 DEF PaidInv, Callers
    <3>7. QED
      BY <3>2, <3>3, <3>4, <3>5, <3>6
  <2>4. QED
    BY <2>2, <2>3, Steps DEF vars, distVars
<1>3. PaidInv => PayoutsWithinNet
  BY DEF PaidInv, PayoutsWithinNet
<1>4. QED
  BY <1>1, <1>2, <1>3, TypeCorrect, DistributionsUseLedger, LedgerConserves, PTL DEF Spec
=============================================================================
