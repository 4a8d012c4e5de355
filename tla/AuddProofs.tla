------------------------------ MODULE AuddProofs ------------------------------
(* Theorems of AuddSession, for any number of requests, troubles and tokens.    *)
EXTENDS AuddSession, TLAPS

(***************************************************************************)
(* The promise all callers share is that of the only operation under way,  *)
(* and whoever waits, waits for it.  The cached token set is the newest,   *)
(* and its refresh token is unused as long as nothing is under way.        *)
(***************************************************************************)
Shared ==
    /\ \A r \in Requests : op[r] # "none" <=> authPromise = r
    /\ \A r \in Requests : waitsFor[r] # NoOne => waitsFor[r] = authPromise
    /\ \A r \in Requests : pc[r] \in {"await", "awaitRefresh"} <=> waitsFor[r] # NoOne

Cached ==
    /\ CachedIsNewest
    /\ token # 0 /\ authPromise = NoOne => token \notin presented
    /\ \A r \in Requests : op[r] = "refresh" => token # 0

\* Who sleeps has another attempt.
Sleeping == \A r \in Requests : pc[r] = "sleep" => attempt[r] < LastAttempt

\* The types of the flags, which the provers want apart from the rest.
FlagsOK == fresh \in BOOLEAN /\ broken \in BOOLEAN /\ didRefresh \in [Requests -> BOOLEAN]

NumbersOK ==
    /\ token \in 0..issued /\ authPromise \in Requests \cup {NoOne}
    /\ op \in [Requests -> {"none", "login", "refresh"}]
    /\ pc \in [Requests -> {"idle", "token", "await", "send", "sleep", "awaitRefresh", "done", "failed"}]
    /\ attempt \in [Requests -> 0..LastAttempt]
    /\ using \in [Requests -> 0..issued]
    /\ waitsFor \in [Requests -> Requests \cup {NoOne}]
    /\ issued \in 0..MaxTokens /\ revoked \subseteq 1..issued /\ presented \subseteq 1..issued
    /\ errors \in [Requests -> Nat] /\ troubles \in 0..MaxTroubles

LEMMA TypesApart == TypeOK <=> FlagsOK /\ NumbersOK
  BY DEF TypeOK, FlagsOK, NumbersOK

AuddInv == TypeOK /\ Shared /\ Cached /\ Sleeping

-----------------------------------------------------------------------------
LEMMA InitAuddInv == Init => AuddInv
  <1> SUFFICES ASSUME Init PROVE AuddInv
    OBVIOUS
  <1>1. TypeOK
    <2>1. FlagsOK
      BY Zenon DEF Init, FlagsOK
    <2>2. NumbersOK
      BY AuddAssumption DEF Init, NumbersOK, LastAttempt
    <2> QED BY <2>1, <2>2, TypesApart
  <1>2. Shared /\ Cached /\ Sleeping
    BY AuddAssumption DEF Init, Shared, Cached, CachedIsNewest, Sleeping
  <1> QED BY <1>1, <1>2 DEF AuddInv

\* Sharing a promise keeps the invariant, wherever the request waits.
LEMMA AuthenticateKeeps ==
    ASSUME AuddInv, NEW r \in Requests, NEW l \in {"await", "awaitRefresh"},
           pc[r] \notin {"await", "awaitRefresh"},
           Authenticate(r), Goto(r, l),
           UNCHANGED <<token, fresh, attempt, using, issued, revoked, errors, broken, troubles>>,
           didRefresh' \in [Requests -> BOOLEAN]
    PROVE  AuddInv'
  <1>1. TypeOK'
    <2>1. NumbersOK
      BY TypesApart DEF AuddInv
    <2>2. CASE authPromise = NoOne
      <3>1. CASE token = 0
        <4>1. NumbersOK'
          BY <2>1, <2>2, <3>1 DEF NumbersOK, Authenticate, Goto
        <4> QED BY <4>1 DEF AuddInv, TypeOK, NumbersOK
      <3>2. CASE token # 0
        <4>0. token \in 1..issued
          BY <2>1, <3>2 DEF NumbersOK
        <4>1. NumbersOK'
          <5>1. presented' \subseteq 1..issued' /\ token' \in 0..issued'
            <6>1. presented' = presented \cup {token} /\ token' = token /\ issued' = issued
              BY <2>2, <3>2 DEF Authenticate
            <6>2. presented \subseteq 1..issued /\ token \in 0..issued
              BY <2>1 DEF NumbersOK
            <6>3. presented \cup {token} \subseteq 1..issued
              BY <4>0, <6>2
            <6> QED BY <6>1, <6>2, <6>3
          <5>2. op' = [op EXCEPT ![r] = "refresh"] /\ waitsFor' = [waitsFor EXCEPT ![r] = r]
                /\ authPromise' = r
            BY <2>2, <3>2 DEF Authenticate
          <5> QED BY <2>1, <5>1, <5>2 DEF NumbersOK, Goto
        <4> QED BY <4>1 DEF AuddInv, TypeOK, NumbersOK
      <3> QED BY <3>1, <3>2
    <2>3. CASE authPromise # NoOne
      <3>1. NumbersOK'
        BY <2>1, <2>3 DEF NumbersOK, Authenticate, Goto
      <3> QED BY <3>1 DEF AuddInv, TypeOK, NumbersOK
    <2> QED BY <2>2, <2>3
  <1>2. Shared'
    BY AuddAssumption DEF AuddInv, TypeOK, Shared, Authenticate, Goto
  <1>3. Cached'
    BY AuddAssumption DEF AuddInv, TypeOK, Cached, CachedIsNewest, Authenticate
  <1>4. Sleeping'
    BY DEF AuddInv, TypeOK, Sleeping, Goto
  <1> QED BY <1>1, <1>2, <1>3, <1>4 DEF AuddInv

\* So does the settling of a promise with a new token set.
LEMMA ResumeKeeps ==
    ASSUME AuddInv, NEW o \in Requests, op[o] # "none", Resume(o), presented' = presented,
           revoked' \subseteq 1..issued, troubles' \in 0..MaxTroubles
    PROVE  AuddInv'
  <1>0. authPromise = o
    BY DEF AuddInv, Shared
  <1>1. TypeOK'
    <2>1. 0..issued \subseteq 0..(issued + 1) /\ 1..issued \subseteq 1..(issued + 1)
      BY DEF AuddInv, TypeOK
    <2>2. issued' \in 0..MaxTokens /\ token' \in 0..issued' /\ fresh' \in BOOLEAN
      BY AuddAssumption DEF AuddInv, TypeOK, Resume
    <2>3. pc' \in [Requests -> {"idle", "token", "await", "send", "sleep", "awaitRefresh", "done", "failed"}]
      <3>1. SUFFICES ASSUME NEW r \in Requests
                     PROVE  pc'[r] \in {"idle", "token", "await", "send", "sleep", "awaitRefresh", "done", "failed"}
        BY DEF Resume
      <3>2. pc'[r] = CASE waitsFor[r] # o -> pc[r]
                       [] waitsFor[r] = o /\ pc[r] = "await" -> "send"
                       [] OTHER -> IF attempt[r] < LastAttempt THEN "token" ELSE "failed"
        BY DEF Resume
      <3> QED BY <3>2 DEF AuddInv, TypeOK
    <2>4. attempt' \in [Requests -> 0..LastAttempt] /\ using' \in [Requests -> 0..issued']
      BY <2>1, AuddAssumption DEF AuddInv, TypeOK, Resume, LastAttempt
    <2>5. op' \in [Requests -> {"none", "login", "refresh"}] /\ waitsFor' \in [Requests -> Requests \cup {NoOne}]
          /\ authPromise' \in Requests \cup {NoOne}
      BY DEF AuddInv, TypeOK, Resume, Settled
    <2> QED BY <2>1, <2>2, <2>3, <2>4, <2>5 DEF AuddInv, TypeOK, Resume
  <1>2. Shared'
    <2>1. \A r \in Requests : op'[r] = "none" /\ authPromise' = NoOne /\ waitsFor'[r] = NoOne
      BY <1>0, AuddAssumption DEF AuddInv, TypeOK, Shared, Resume, Settled
    <2>2. ASSUME NEW r \in Requests PROVE pc'[r] \notin {"await", "awaitRefresh"}
      <3>1. pc'[r] = CASE waitsFor[r] # o -> pc[r]
                       [] waitsFor[r] = o /\ pc[r] = "await" -> "send"
                       [] OTHER -> IF attempt[r] < LastAttempt THEN "token" ELSE "failed"
        BY DEF Resume
      <3> QED BY <3>1, <1>0 DEF AuddInv, TypeOK, Shared
    <2> QED BY <2>1, <2>2, AuddAssumption DEF Shared
  <1>3. Cached'
    BY DEF AuddInv, TypeOK, Cached, CachedIsNewest, Resume, Settled
  <1>4. Sleeping'
    <2> SUFFICES ASSUME NEW r \in Requests, pc'[r] = "sleep" PROVE attempt'[r] < LastAttempt
      BY DEF Sleeping
    <2>1. pc'[r] = CASE waitsFor[r] # o -> pc[r]
                     [] waitsFor[r] = o /\ pc[r] = "await" -> "send"
                     [] OTHER -> IF attempt[r] < LastAttempt THEN "token" ELSE "failed"
      BY DEF Resume
    <2>2. pc[r] = "sleep"
      BY <2>1
    <2> QED BY <2>2 DEF Resume, AuddInv, Sleeping
  <1> QED BY <1>1, <1>2, <1>3, <1>4 DEF AuddInv

LEMMA StepKeeps ==
    ASSUME AuddInv, NEW r \in Requests, Step(r) PROVE AuddInv'
  <1> USE AuddAssumption DEF LastAttempt
  <1>1. CASE GetToken(r)
    <2>1. CASE token # 0 /\ fresh
      <3>1. TypeOK'
        <4>1. FlagsOK'
          BY <1>1, <2>1, TypesApart DEF GetToken, AuddInv, FlagsOK
        <4>2. NumbersOK'
          BY <1>1, <2>1, TypesApart DEF GetToken, Goto, AuddInv, NumbersOK
        <4> QED BY <4>1, <4>2 DEF TypeOK, FlagsOK, NumbersOK
      <3>2. Shared' /\ Cached' /\ Sleeping'
        BY <1>1, <2>1 DEF GetToken, Goto, AuddInv, TypeOK, Shared, Cached, CachedIsNewest, Sleeping
      <3> QED BY <3>1, <3>2 DEF AuddInv
    <2>2. CASE ~(token # 0 /\ fresh)
      BY <1>1, <2>2, AuthenticateKeeps DEF GetToken, AuddInv, TypeOK
    <2> QED BY <2>1, <2>2
  <1>2. CASE Answered(r)
    BY <1>2 DEF Answered, Goto, world, AuddInv, TypeOK, Shared, Cached, CachedIsNewest, Sleeping
  <1>3. CASE Unauthorized(r)
    <2>1. CASE didRefresh[r]
      <3>1. FlagsOK'
        BY <1>3, <2>1, TypesApart DEF Unauthorized, AuddInv, FlagsOK
      <3>2. NumbersOK'
        BY <1>3, <2>1, TypesApart DEF Unauthorized, Goto, AuddInv, NumbersOK
      <3>3. Shared' /\ Cached' /\ Sleeping'
        BY <1>3, <2>1 DEF Unauthorized, Goto, AuddInv, TypeOK, Shared, Cached, CachedIsNewest, Sleeping
      <3>4. TypeOK'
        BY <3>1, <3>2 DEF TypeOK, FlagsOK, NumbersOK
      <3> QED BY <3>3, <3>4 DEF AuddInv
    <2>2. CASE ~didRefresh[r]
      <3>1. didRefresh' \in [Requests -> BOOLEAN]
        BY <1>3, <2>2 DEF Unauthorized, AuddInv, TypeOK
      <3> QED BY <1>3, <2>2, <3>1, AuthenticateKeeps DEF Unauthorized
    <2> QED BY <2>1, <2>2
  <1>4. CASE ServerError(r)
    BY <1>4 DEF ServerError, Trouble, Goto, AuddInv, TypeOK, Shared, Cached, CachedIsNewest, Sleeping
  <1>5. CASE Wake(r)
    <2>1. TypeOK'
      BY <1>5 DEF Wake, Goto, world, AuddInv, TypeOK, Sleeping
    <2>2. Shared' /\ Cached' /\ Sleeping'
      BY <1>5 DEF Wake, Goto, world, AuddInv, TypeOK, Shared, Cached, CachedIsNewest, Sleeping
    <2> QED BY <2>1, <2>2 DEF AuddInv
  <1>6. CASE NoAnswer(r)
    BY <1>6 DEF NoAnswer, Trouble, Goto, AuddInv, TypeOK, Shared, Cached, CachedIsNewest, Sleeping
  <1>7. CASE LoginAnswered(r)
    BY <1>7, ResumeKeeps DEF LoginAnswered, AuddInv, TypeOK
  <1>8. CASE LoginFails(r)
    BY <1>8 DEF LoginFails, Settled, Trouble, AuddInv, TypeOK, Shared, Cached, CachedIsNewest, Sleeping
  <1>9. CASE RefreshAnswered(r)
    <2>1. token \in 1..issued
      BY <1>9 DEF RefreshAnswered, AuddInv, TypeOK, Cached
    <2>2. revoked' \subseteq 1..issued /\ troubles' \in 0..MaxTroubles
      <3>1. revoked \subseteq 1..issued /\ troubles \in 0..MaxTroubles
        BY DEF AuddInv, TypeOK
      <3>2. CASE UNCHANGED <<revoked, troubles>>
        BY <3>1, <3>2
      <3>3. CASE Trouble /\ revoked' = revoked \cup {token}
        BY <2>1, <3>1, <3>3, AuddAssumption DEF Trouble
      <3> QED BY <1>9, <3>2, <3>3 DEF RefreshAnswered
    <2> QED BY <1>9, <2>2, ResumeKeeps DEF RefreshAnswered
  <1>10. CASE RefreshFails(r)
    BY <1>10 DEF RefreshFails, client, Trouble, AuddInv, TypeOK, Shared, Cached, CachedIsNewest, Sleeping
  <1> QED BY <1>1, <1>2, <1>3, <1>4, <1>5, <1>6, <1>7, <1>8, <1>9, <1>10 DEF Step

LEMMA NextKeeps == AuddInv /\ [Next]_vars => AuddInv'
  <1> SUFFICES ASSUME AuddInv, [Next]_vars PROVE AuddInv'
    OBVIOUS
  <1>1. CASE UNCHANGED vars
    BY <1>1 DEF vars, AuddInv, TypeOK, Shared, Cached, CachedIsNewest, Sleeping
  <1>2. ASSUME NEW r \in Requests, Begin(r) PROVE AuddInv'
    BY <1>2 DEF Begin, Goto, world, AuddInv, TypeOK, Shared, Cached, CachedIsNewest, Sleeping
  <1>3. CASE Expire
    <2>1. TypeOK'
      <3>1. FlagsOK'
        BY <1>3, TypesApart DEF Expire, client, AuddInv, FlagsOK
      <3>2. NumbersOK'
        BY <1>3, TypesApart, AuddAssumption DEF Expire, Trouble, client, AuddInv, NumbersOK
      <3> QED BY <3>1, <3>2 DEF TypeOK, FlagsOK, NumbersOK
    <2>2. Shared' /\ Cached' /\ Sleeping'
      BY <1>3 DEF Expire, client, AuddInv, Shared, Cached, CachedIsNewest, Sleeping
    <2> QED BY <2>1, <2>2 DEF AuddInv
  <1>4. ASSUME NEW t \in 1..issued, Revoke(t) PROVE AuddInv'
    BY <1>4, AuddAssumption DEF Revoke, Trouble, client, AuddInv, TypeOK, Shared, Cached, CachedIsNewest, Sleeping
  <1> QED BY <1>1, <1>2, <1>3, <1>4, StepKeeps DEF Next

\* AuddSession keeps its types and shares its promises, whatever AUDD does.
THEOREM TypesAndPromises == Spec => []AuddInv
  BY InitAuddInv, NextKeeps, PTL DEF Spec

\* Tokens, waiters and the attempts of every request stay of their types.
THEOREM TypeCorrect == Spec => []TypeOK
  <1>1. AuddInv => TypeOK
    BY DEF AuddInv
  <1> QED BY <1>1, TypesAndPromises, PTL

\* One login or refresh is under way at a time, however many requests need one.
THEOREM AuthenticatesOnce == Spec => []OneAuthenticationAtATime
  <1>1. AuddInv => OneAuthenticationAtATime
    BY DEF AuddInv, Shared, OneAuthenticationAtATime
  <1> QED BY <1>1, TypesAndPromises, PTL

\* No late answer puts an older token set back.
THEOREM KeepsNewest == Spec => []CachedIsNewest
  <1>1. AuddInv => CachedIsNewest
    BY DEF AuddInv, Cached
  <1> QED BY <1>1, TypesAndPromises, PTL

\* A refresh token is presented once, also when the answer to its refresh is lost.
THEOREM PresentsOnce == Spec => RefreshTokenOnce
  <1>1. AuddInv /\ [Next]_vars => [\A r \in Requests : op[r] # "refresh" /\ op'[r] = "refresh"
                                     => token \notin presented]_vars
    <2> SUFFICES ASSUME AuddInv, Next, NEW r \in Requests, op[r] # "refresh", op'[r] = "refresh"
                 PROVE  token \notin presented
      BY DEF vars
    <2>1. ASSUME NEW q \in Requests, Authenticate(q) PROVE token \notin presented
      BY <2>1 DEF Authenticate, AuddInv, TypeOK, Cached
    <2>2. ASSUME NEW q \in Requests, Begin(q) \/ Step(q) PROVE token \notin presented
      BY <2>1, <2>2 DEF Begin, Step, GetToken, Answered, Unauthorized, ServerError, Wake, NoAnswer,
           LoginAnswered, LoginFails, RefreshAnswered, RefreshFails, Resume, Settled, AuddInv, TypeOK
    <2>3. op' # op
      OBVIOUS
    <2> QED BY <2>2, <2>3 DEF Next, Expire, Revoke
  <1> QED BY <1>1, TypesAndPromises, PTL DEF Spec, RefreshTokenOnce

-----------------------------------------------------------------------------
(***************************************************************************)
(* Why a request fails: its attempts are its server errors and its refresh, *)
(* and once it has refreshed it uses later tokens than the one rejected.   *)
(***************************************************************************)
RejectedBefore(r, t) ==
    /\ t \in revoked
    /\ pc[r] \in {"token", "send", "sleep"} => token = 0 \/ t < token
    /\ pc[r] = "send" => t < using[r]

Counted(r) ==
    /\ pc[r] = "idle" => ~didRefresh[r]
    /\ pc[r] = "awaitRefresh" => didRefresh[r]
    /\ didRefresh[r] => \E t \in 1..issued : RejectedBefore(r, t)
    /\ pc[r] \notin {"done", "failed"} =>
         errors[r] = attempt[r] + (IF pc[r] = "sleep" THEN 1 ELSE 0)
                                - (IF didRefresh[r] /\ pc[r] # "awaitRefresh" THEN 1 ELSE 0)

Survived(r) ==
    pc[r] = "failed" => \/ broken
                        \/ \E t, u \in revoked : t # u
                        \/ errors[r] > LastAttempt
                        \/ errors[r] = LastAttempt /\ revoked # {}

Explained == \A r \in Requests : Counted(r) /\ Survived(r)

LEMMA InitExplained == Init => Explained
  <1> SUFFICES ASSUME Init, NEW r \in Requests PROVE Counted(r) /\ Survived(r)
    BY DEF Explained
  <1>1. pc[r] = "idle" /\ errors[r] = 0 /\ attempt[r] = 0
    BY DEF Init
  <1>2. didRefresh[r] = FALSE
    BY Zenon DEF Init
  <1>3. Counted(r)
    <2> DEFINE sleeps == IF pc[r] = "sleep" THEN 1 ELSE 0
               refreshed == IF didRefresh[r] /\ pc[r] # "awaitRefresh" THEN 1 ELSE 0
    <2>1. sleeps = 0
      BY <1>1
    <2>2. refreshed = 0
      BY <1>2
    <2>3. ~didRefresh[r]
      BY <1>2
    <2>4. errors[r] = attempt[r] + sleeps - refreshed
      <3> HIDE DEF sleeps, refreshed
      <3> QED BY <1>1, <2>1, <2>2
    <2>5. pc[r] = "idle" /\ pc[r] # "awaitRefresh"
      BY <1>1
    <2> QED BY Zenon, <2>3, <2>4, <2>5 DEF Counted
  <1>4. Survived(r)
    BY <1>1 DEF Survived
  <1> QED BY <1>3, <1>4

\* A request that a step leaves alone stays explained.
LEMMA OthersStay ==
    ASSUME AuddInv, NEW q \in Requests, Counted(q), Survived(q),
           pc'[q] = pc[q], attempt'[q] = attempt[q], errors'[q] = errors[q],
           using'[q] = using[q], didRefresh'[q] = didRefresh[q],
           revoked \subseteq revoked', broken => broken',
           issued' \in Nat, issued <= issued',
           token' = 0 \/ token' = token \/ token' = issued + 1
    PROVE  Counted(q)' /\ Survived(q)'
  <1>1. ASSUME NEW t \in 1..issued, RejectedBefore(q, t) PROVE t \in 1..issued' /\ RejectedBefore(q, t)'
    BY <1>1 DEF RejectedBefore, AuddInv, TypeOK
  <1>2. Counted(q)'
    BY <1>1 DEF Counted
  <1>3. Survived(q)'
    BY DEF Survived
  <1> QED BY <1>2, <1>3

\* A request that waits is still explained when its promise is settled, and one that
\* has no attempt left fails for a reason.
LEMMA ResumeExplains ==
    ASSUME AuddInv, Explained, NEW o \in Requests, op[o] # "none", Resume(o),
           revoked \subseteq revoked'
    PROVE  Explained'
  <1> SUFFICES ASSUME NEW q \in Requests PROVE Counted(q)' /\ Survived(q)'
    BY DEF Explained
  <1>0. /\ issued \in Nat /\ issued' = issued + 1 /\ token' = issued + 1
        /\ attempt[q] \in 0..2 /\ errors[q] \in Nat /\ broken' = broken
        /\ errors'[q] = errors[q] /\ didRefresh'[q] = didRefresh[q]
    BY DEF AuddInv, TypeOK, Resume, LastAttempt
  <1>1. pc'[q] = CASE waitsFor[q] # o -> pc[q]
                   [] waitsFor[q] = o /\ pc[q] = "await" -> "send"
                   [] OTHER -> IF attempt[q] < LastAttempt THEN "token" ELSE "failed"
    BY DEF Resume
  <1>2. using'[q] = (IF waitsFor[q] = o /\ pc[q] = "await" THEN issued + 1 ELSE using[q])
        /\ attempt'[q] = (IF waitsFor[q] = o /\ pc[q] = "awaitRefresh" /\ attempt[q] < LastAttempt
                          THEN attempt[q] + 1 ELSE attempt[q])
    BY DEF Resume
  <1>3. CASE waitsFor[q] # o
    BY <1>0, <1>1, <1>2, <1>3, OthersStay DEF Explained
  <1>4. CASE waitsFor[q] = o /\ pc[q] = "await"
    <2>1. pc'[q] = "send" /\ using'[q] = issued + 1 /\ attempt'[q] = attempt[q]
      BY <1>1, <1>2, <1>4
    <2>2. ASSUME NEW t \in 1..issued, RejectedBefore(q, t) PROVE t \in 1..issued' /\ RejectedBefore(q, t)'
      BY <1>0, <2>1, <2>2 DEF RejectedBefore
    <2> QED BY <1>0, <1>4, <2>1, <2>2 DEF Explained, Counted, Survived
  <1>5. CASE waitsFor[q] = o /\ pc[q] # "await"
    <2>1. pc[q] = "awaitRefresh"
      BY <1>5, AuddAssumption DEF AuddInv, Shared
    <2>2. didRefresh[q] /\ errors[q] = attempt[q]
      BY <1>0, <2>1 DEF Explained, Counted
    <2>3. PICK t \in 1..issued : RejectedBefore(q, t)
      BY <2>2 DEF Explained, Counted
    <2>4. CASE attempt[q] < LastAttempt
      <3>1. pc'[q] = "token" /\ attempt'[q] = attempt[q] + 1
        BY <1>1, <1>2, <1>5, <2>1, <2>4
      <3>2. t \in 1..issued' /\ RejectedBefore(q, t)'
        BY <1>0, <2>3, <3>1 DEF RejectedBefore
      <3> QED BY <1>0, <2>2, <3>1, <3>2 DEF Counted, Survived
    <2>5. CASE ~(attempt[q] < LastAttempt)
      <3>1. pc'[q] = "failed" /\ attempt'[q] = attempt[q]
        BY <1>1, <1>2, <1>5, <2>1, <2>5
      <3>2. t \in 1..issued' /\ RejectedBefore(q, t)' /\ t \in revoked'
        BY <1>0, <2>3, <3>1 DEF RejectedBefore
      <3>3. errors'[q] = LastAttempt
        BY <1>0, <2>2, <2>5 DEF LastAttempt
      <3> QED BY <1>0, <2>2, <3>1, <3>2, <3>3 DEF Counted, Survived
    <2> QED BY <2>4, <2>5
  <1> QED BY <1>3, <1>4, <1>5

LEMMA StepExplains ==
    ASSUME AuddInv, AuddInv', Explained, NEW r \in Requests, Begin(r) \/ Step(r)
    PROVE  Explained'
  <1> USE DEF LastAttempt
  <1>0. /\ issued \in Nat /\ issued' \in Nat
        /\ attempt[r] \in 0..2 /\ errors[r] \in Nat /\ token \in 0..issued /\ using[r] \in 0..issued
        /\ revoked \subseteq 1..issued
    BY DEF AuddInv, TypeOK
  <1>1. CASE LoginAnswered(r)
    BY <1>1, ResumeExplains DEF LoginAnswered
  <1>2. CASE RefreshAnswered(r)
    <2>1. revoked \subseteq revoked'
      BY <1>2 DEF RefreshAnswered
    <2> QED BY <1>2, <2>1, ResumeExplains DEF RefreshAnswered
  <1>3. CASE LoginFails(r)
    <2> SUFFICES ASSUME NEW q \in Requests PROVE Counted(q)' /\ Survived(q)'
      BY DEF Explained
    <2>1. CASE waitsFor[q] = r
      <3>1. pc'[q] = "failed" /\ broken' /\ didRefresh' = didRefresh /\ revoked' = revoked /\ issued <= issued'
        BY <1>0, <1>3, <2>1 DEF LoginFails
      <3>2. ASSUME NEW t \in 1..issued, RejectedBefore(q, t) PROVE t \in 1..issued' /\ RejectedBefore(q, t)'
        BY <1>0, <3>1, <3>2 DEF RejectedBefore
      <3> QED BY <3>1, <3>2 DEF Explained, Counted, Survived
    <2>2. CASE waitsFor[q] # r
      BY <1>0, <1>3, <2>2, OthersStay DEF LoginFails, Explained
    <2> QED BY <2>1, <2>2
  <1>4. CASE RefreshFails(r)
    BY <1>0, <1>4, OthersStay DEF RefreshFails, client, Explained
  <1>5. CASE Begin(r) \/ GetToken(r) \/ Answered(r) \/ Unauthorized(r) \/ ServerError(r) \/ Wake(r) \/ NoAnswer(r)
    <2> SUFFICES ASSUME NEW q \in Requests PROVE Counted(q)' /\ Survived(q)'
      BY DEF Explained
    <2>0. /\ token' = token /\ issued' = issued /\ revoked' = revoked /\ (broken => broken')
          /\ pc \in [Requests -> {"idle", "token", "await", "send", "sleep", "awaitRefresh", "done", "failed"}]
          /\ attempt \in [Requests -> 0..2] /\ errors \in [Requests -> Nat]
          /\ using \in [Requests -> 0..issued] /\ didRefresh \in [Requests -> BOOLEAN]
      BY <1>5 DEF Begin, world, GetToken, Answered, Unauthorized, ServerError, Wake, NoAnswer, AuddInv, TypeOK
    <2>1. CASE q # r
      <3>1. /\ pc'[q] = pc[q] /\ attempt'[q] = attempt[q] /\ errors'[q] = errors[q]
            /\ using'[q] = using[q] /\ didRefresh'[q] = didRefresh[q]
        BY <1>5, <2>0, <2>1 DEF Goto, Begin, world, GetToken, Answered, Unauthorized, ServerError, Wake, NoAnswer
      <3> QED BY <1>0, <2>0, <3>1, OthersStay DEF Explained
    <2>2. CASE q = r
      <3>1. Counted(r) /\ Survived(r)
        BY DEF Explained
      <3>2. CASE Begin(r)
        BY <1>0, <2>0, <2>2, <3>1, <3>2 DEF Begin, Goto, world, Counted, Survived
      <3>3. CASE GetToken(r)
        <4>1. pc[r] = "token" /\ UNCHANGED <<attempt, didRefresh, errors>> /\ pc'[r] \in {"send", "await"}
          BY <2>0, <3>3 DEF GetToken, Goto
        <4>2. pc'[r] = "send" => token # 0 /\ using'[r] = token
          BY <2>0, <3>3 DEF GetToken, Goto
        <4>3. ASSUME NEW t \in 1..issued, RejectedBefore(r, t) PROVE t \in 1..issued' /\ RejectedBefore(r, t)'
          BY <1>0, <2>0, <4>1, <4>2, <4>3 DEF RejectedBefore
        <4> QED BY <2>0, <2>2, <3>1, <4>1, <4>3 DEF Counted, Survived
      <3>4. CASE Answered(r)
        <4>1. pc'[r] = "done" /\ UNCHANGED <<didRefresh, revoked, issued>> /\ pc[r] = "send"
          BY <2>0, <3>4 DEF Answered, Goto, world
        <4>2. ASSUME NEW t \in 1..issued, RejectedBefore(r, t) PROVE t \in 1..issued' /\ RejectedBefore(r, t)'
          BY <4>1, <4>2 DEF RejectedBefore
        <4> QED BY <2>2, <3>1, <4>1, <4>2 DEF Counted, Survived
      <3>5. CASE Unauthorized(r)
        <4>1. using[r] \in revoked /\ using[r] \in 1..issued /\ pc[r] = "send" /\ UNCHANGED <<attempt, errors>>
          BY <1>0, <3>5 DEF Unauthorized
        <4>2. CASE didRefresh[r]
          <5>1. pc'[r] = "failed" /\ UNCHANGED didRefresh
            BY <2>0, <3>5, <4>2 DEF Unauthorized, Goto
          <5>2. PICK t \in 1..issued : RejectedBefore(r, t)
            BY <3>1, <4>2 DEF Counted
          <5>3. t \in revoked' /\ using[r] \in revoked' /\ t # using[r] /\ t \in 1..issued' /\ RejectedBefore(r, t)'
            BY <2>0, <4>1, <5>1, <5>2 DEF RejectedBefore
          <5> QED BY <2>2, <5>1, <5>3 DEF Counted, Survived
        <4>3. CASE ~didRefresh[r]
          <5>1. pc'[r] = "awaitRefresh" /\ didRefresh'[r]
            BY <2>0, <3>5, <4>3 DEF Unauthorized, Goto
          <5>0. PICK t \in 1..issued : t = using[r]
            BY <4>1
          <5>2. t \in 1..issued' /\ RejectedBefore(r, t)'
            BY <2>0, <4>1, <5>0, <5>1 DEF RejectedBefore
          <5>3. errors[r] = attempt[r]
            BY <1>0, <3>1, <4>1, <4>3 DEF Counted
          <5> QED BY <1>0, <2>2, <4>1, <5>1, <5>2, <5>3 DEF Counted, Survived
        <4> QED BY <4>2, <4>3
      <3>6. CASE ServerError(r)
        <4>1. /\ pc[r] = "send" /\ UNCHANGED <<attempt, didRefresh, token>> /\ errors'[r] = errors[r] + 1
              /\ pc'[r] = (IF attempt[r] < 2 THEN "sleep" ELSE "failed")
          BY <2>0, <3>6 DEF ServerError, Goto
        <4>2. ASSUME NEW t \in 1..issued, RejectedBefore(r, t)
              PROVE  t \in 1..issued' /\ RejectedBefore(r, t)' /\ t \in revoked'
          BY <2>0, <4>1, <4>2 DEF RejectedBefore
        <4>3. CASE attempt[r] < 2
          BY <1>0, <2>0, <2>2, <3>1, <4>1, <4>2, <4>3 DEF Counted, Survived
        <4>4. CASE ~(attempt[r] < 2)
          <5>1. didRefresh[r] => errors'[r] = 2 /\ revoked' # {}
            BY <1>0, <3>1, <4>1, <4>2, <4>4 DEF Counted
          <5>2. ~didRefresh[r] => errors'[r] > 2
            BY <1>0, <3>1, <4>1, <4>4 DEF Counted
          <5> QED BY <2>2, <3>1, <4>1, <4>2, <4>4, <5>1, <5>2 DEF Counted, Survived
        <4> QED BY <4>3, <4>4
      <3>7. CASE Wake(r)
        <4>1. /\ pc[r] = "sleep" /\ pc'[r] = "token" /\ attempt'[r] = attempt[r] + 1
              /\ UNCHANGED <<didRefresh, errors>>
          BY <2>0, <3>7 DEF Wake, Goto, world
        <4>2. ASSUME NEW t \in 1..issued, RejectedBefore(r, t) PROVE t \in 1..issued' /\ RejectedBefore(r, t)'
          BY <2>0, <4>1, <4>2 DEF RejectedBefore
        <4> QED BY <1>0, <2>2, <3>1, <4>1, <4>2 DEF Counted, Survived
      <3>8. CASE NoAnswer(r)
        <4>1. pc[r] = "send" /\ pc'[r] = "failed" /\ broken' /\ UNCHANGED didRefresh
          BY <2>0, <3>8 DEF NoAnswer, Goto
        <4>2. ASSUME NEW t \in 1..issued, RejectedBefore(r, t) PROVE t \in 1..issued' /\ RejectedBefore(r, t)'
          BY <2>0, <4>1, <4>2 DEF RejectedBefore
        <4> QED BY <2>2, <3>1, <4>1, <4>2 DEF Counted, Survived
      <3> QED BY <1>5, <3>2, <3>3, <3>4, <3>5, <3>6, <3>7, <3>8
    <2> QED BY <2>1, <2>2
  <1> QED BY <1>1, <1>2, <1>3, <1>4, <1>5 DEF Step

LEMMA NextExplains == AuddInv /\ AuddInv' /\ Explained /\ [Next]_vars => Explained'
  <1> SUFFICES ASSUME AuddInv, AuddInv', Explained, [Next]_vars PROVE Explained'
    OBVIOUS
  <1>0. issued \in Nat
    BY DEF AuddInv, TypeOK
  <1>1. CASE UNCHANGED vars
    BY <1>0, <1>1, OthersStay DEF vars, Explained
  <1>2. CASE Expire
    BY <1>0, <1>2, OthersStay DEF Expire, client, Explained
  <1>3. ASSUME NEW t \in 1..issued, Revoke(t) PROVE Explained'
    BY <1>0, <1>3, OthersStay DEF Revoke, client, Explained
  <1> QED BY <1>1, <1>2, <1>3, StepExplains DEF Next

\* Three attempts and one refresh carry a request over any single rejection and any two
\* server errors: what it fails of is more than that.
THEOREM SurvivesAll == Spec => []SurvivesTroubles
  <1>1. Explained => SurvivesTroubles
    BY DEF Explained, Survived, SurvivesTroubles
  <1> QED BY <1>1, InitExplained, NextExplains, TypesAndPromises, PTL DEF Spec
===============================================================================
