------------------------------ MODULE AuddSession ------------------------------
(***************************************************************************)
(* The client of AUDD, the payment rail: one cached token set, a promise   *)
(* all callers share while a login or a refresh is under way, and requests *)
(* that are tried three times.                                             *)
(*                                                                         *)
(* Node runs the code between two awaits without interruption, and resumes *)
(* all who await a promise before it serves another answer.  A token set   *)
(* is the number of the login or refresh that issued it, 0 is null.  AUDD  *)
(* itself is external: it issues tokens, may revoke one, may refuse, break *)
(* down or not be heard of, as often as MaxTroubles allows.                *)
(***************************************************************************)
EXTENDS Naturals

CONSTANTS Requests,     \* calls of request
          NoOne,
          MaxTroubles,  \* bound of expiries, revocations, refusals and lost answers
          MaxTokens     \* bound of the token sets issued, which no run reaches

ASSUME AuddAssumption == NoOne \notin Requests /\ MaxTroubles \in Nat /\ MaxTokens \in Nat

VARIABLES token,        \* tokenSet
          fresh,        \* whether isTokenFresh holds of it
          authPromise,  \* the request whose login or refresh is shared, or NoOne
          op,           \* the authentication call each request has under way
          pc, attempt, didRefresh,  \* the locals of each request
          using,        \* the token it has sent
          waitsFor,     \* the request whose promise it awaits
          issued,       \* token sets AUDD has issued
          revoked,      \* those it accepts no more
          presented,    \* those whose refresh token it has been given
          errors,       \* server errors each request has met
          broken,       \* a login has failed, or an answer was lost or refused outright
          troubles

vars == <<token, fresh, authPromise, op, pc, attempt, didRefresh, using, waitsFor, issued,
          revoked, presented, errors, broken, troubles>>

client == <<pc, attempt, didRefresh, using, waitsFor>>
world == <<issued, revoked, presented, errors, broken, troubles>>

LastAttempt == 2  \* backoffs.length

Init ==
    /\ token = 0 /\ fresh = FALSE /\ authPromise = NoOne
    /\ op = [r \in Requests |-> "none"]
    /\ pc = [r \in Requests |-> "idle"]
    /\ attempt = [r \in Requests |-> 0]
    /\ didRefresh = [r \in Requests |-> FALSE]
    /\ using = [r \in Requests |-> 0]
    /\ waitsFor = [r \in Requests |-> NoOne]
    /\ issued = 0 /\ revoked = {} /\ presented = {}
    /\ errors = [r \in Requests |-> 0]
    /\ broken = FALSE /\ troubles = 0

-----------------------------------------------------------------------------
Goto(r, l) == pc' = [pc EXCEPT ![r] = l]

Trouble == troubles < MaxTroubles /\ troubles' = troubles + 1

\* Mutant: every call authenticates for itself.
Authenticate_Alone(r) ==
    /\ authPromise' = r
    /\ waitsFor' = [waitsFor EXCEPT ![r] = r]
    /\ op' = [op EXCEPT ![r] = IF token = 0 THEN "login" ELSE "refresh"]
    /\ presented' = IF token = 0 THEN presented ELSE presented \cup {token}

\* runAuthOperation: the promise under way, or a new one.  Both loginMfa and
\* refreshJwt log in when nothing is cached, and refresh what is otherwise.
Authenticate(r) ==
    IF authPromise = NoOne
    THEN /\ authPromise' = r
         /\ waitsFor' = [waitsFor EXCEPT ![r] = r]
         /\ op' = [op EXCEPT ![r] = IF token = 0 THEN "login" ELSE "refresh"]
         /\ presented' = IF token = 0 THEN presented ELSE presented \cup {token}
    ELSE /\ waitsFor' = [waitsFor EXCEPT ![r] = authPromise]
         /\ UNCHANGED <<authPromise, op, presented>>

Begin(r) ==
    /\ pc[r] = "idle"
    /\ Goto(r, "token")
    /\ UNCHANGED <<token, fresh, authPromise, op, attempt, didRefresh, using, waitsFor, world>>

\* getToken, and the call of AUDD with a fresh token.
GetToken(r) ==
    /\ pc[r] = "token"
    /\ IF token # 0 /\ fresh
       THEN /\ using' = [using EXCEPT ![r] = token]
            /\ Goto(r, "send")
            /\ UNCHANGED <<authPromise, op, waitsFor, presented>>
       ELSE Authenticate(r) /\ Goto(r, "await") /\ UNCHANGED using
    /\ UNCHANGED <<token, fresh, attempt, didRefresh, issued, revoked, errors, broken, troubles>>

-----------------------------------------------------------------------------
(* The answers to requests.                                                 *)

Answered(r) ==
    /\ pc[r] = "send" /\ using[r] \notin revoked
    /\ Goto(r, "done")
    /\ UNCHANGED <<token, fresh, authPromise, op, attempt, didRefresh, using, waitsFor, world>>

\* Mutant: a 401 is answered with the next attempt, and no refresh.
Unauthorized_Retry(r) ==
    /\ pc[r] = "send" /\ using[r] \in revoked
    /\ IF didRefresh[r] \/ attempt[r] = LastAttempt
       THEN Goto(r, "failed") /\ UNCHANGED <<didRefresh, attempt>>
       ELSE /\ didRefresh' = [didRefresh EXCEPT ![r] = TRUE]
            /\ attempt' = [attempt EXCEPT ![r] = @ + 1]
            /\ Goto(r, "token")
    /\ UNCHANGED <<token, fresh, authPromise, op, using, waitsFor, world>>

\* 401 or 403: the first one refreshes whatever is cached by now, the second fails.
Unauthorized(r) ==
    /\ pc[r] = "send" /\ using[r] \in revoked
    /\ IF didRefresh[r]
       THEN Goto(r, "failed") /\ UNCHANGED <<didRefresh, authPromise, op, waitsFor, presented>>
       ELSE /\ didRefresh' = [didRefresh EXCEPT ![r] = TRUE]
            /\ Goto(r, "awaitRefresh")
            /\ Authenticate(r)
    /\ UNCHANGED <<token, fresh, attempt, using, issued, revoked, errors, broken, troubles>>

\* A status of 500 or more, whatever AUDD has done with the request.
ServerError(r) ==
    /\ pc[r] = "send" /\ Trouble
    /\ errors' = [errors EXCEPT ![r] = @ + 1]
    /\ Goto(r, IF attempt[r] < LastAttempt THEN "sleep" ELSE "failed")
    /\ UNCHANGED <<token, fresh, authPromise, op, attempt, didRefresh, using, waitsFor, issued,
                   revoked, presented, broken>>

\* After the backoff, the next attempt.
Wake(r) ==
    /\ pc[r] = "sleep"
    /\ attempt' = [attempt EXCEPT ![r] = @ + 1]
    /\ Goto(r, "token")
    /\ UNCHANGED <<token, fresh, authPromise, op, didRefresh, using, waitsFor, world>>

\* Any other status, or no answer within 30 seconds.
NoAnswer(r) ==
    /\ pc[r] = "send" /\ Trouble
    /\ broken' = TRUE
    /\ Goto(r, "failed")
    /\ UNCHANGED <<token, fresh, authPromise, op, attempt, didRefresh, using, waitsFor, issued,
                   revoked, presented, errors>>

-----------------------------------------------------------------------------
(* The answers to logins and refreshes.  The promise is settled, authPromise *)
(* cleared, and all who await it go on.                                      *)

Settled(o) ==
    /\ op' = [op EXCEPT ![o] = "none"]
    /\ authPromise' = NoOne
    /\ waitsFor' = [r \in Requests |-> IF waitsFor[r] = o THEN NoOne ELSE waitsFor[r]]

\* setTokenSet.  Who waited in getToken sends the token; who waited after a 401 goes
\* on to the next attempt, if there is one.
Resume(o) ==
    /\ issued < MaxTokens /\ issued' = issued + 1
    /\ token' = issued + 1 /\ fresh' = TRUE
    /\ using' = [r \in Requests |->
                   IF waitsFor[r] = o /\ pc[r] = "await" THEN issued + 1 ELSE using[r]]
    /\ attempt' = [r \in Requests |->
                     IF waitsFor[r] = o /\ pc[r] = "awaitRefresh" /\ attempt[r] < LastAttempt
                     THEN attempt[r] + 1 ELSE attempt[r]]
    /\ pc' = [r \in Requests |->
                CASE waitsFor[r] # o                -> pc[r]
                  [] waitsFor[r] = o /\ pc[r] = "await" -> "send"
                  [] OTHER -> IF attempt[r] < LastAttempt THEN "token" ELSE "failed"]
    /\ Settled(o)
    /\ UNCHANGED <<didRefresh, errors, broken>>

LoginAnswered(o) ==
    /\ op[o] = "login"
    /\ Resume(o)
    /\ UNCHANGED <<revoked, presented, troubles>>

\* The login is refused, or its answer lost: nothing is cached, and all who await it fail.
LoginFails(o) ==
    /\ op[o] = "login" /\ Trouble
    /\ issued' \in {issued, issued + 1} /\ issued' <= MaxTokens
    /\ token' = 0 /\ broken' = TRUE
    /\ pc' = [r \in Requests |-> IF waitsFor[r] = o THEN "failed" ELSE pc[r]]
    /\ Settled(o)
    /\ UNCHANGED <<fresh, attempt, didRefresh, using, revoked, presented, errors>>

\* A refresh may end the life of the token refreshed.
RefreshAnswered(o) ==
    /\ op[o] = "refresh"
    /\ Resume(o)
    /\ \/ UNCHANGED <<revoked, troubles>>
       \/ Trouble /\ revoked' = revoked \cup {token}
    /\ UNCHANGED presented

\* Mutant: the token set stays cached while the client logs in again.
RefreshFails_Keeps(o) ==
    /\ op[o] = "refresh" /\ Trouble
    /\ issued' \in {issued, issued + 1} /\ issued' <= MaxTokens
    /\ op' = [op EXCEPT ![o] = "login"]
    /\ UNCHANGED <<token, fresh, authPromise, client, revoked, presented, errors, broken>>

\* Mutant: the login joins the operation under way, which is this very one.
RefreshFails_Joins(o) ==
    /\ op[o] = "refresh" /\ Trouble
    /\ issued' \in {issued, issued + 1} /\ issued' <= MaxTokens
    /\ token' = 0
    /\ op' = [op EXCEPT ![o] = "none"]
    /\ UNCHANGED <<fresh, authPromise, client, revoked, presented, errors, broken>>

\* Refused or lost, whether or not AUDD has issued a token: the same promise goes on
\* with a login.
RefreshFails(o) ==
    /\ op[o] = "refresh" /\ Trouble
    /\ issued' \in {issued, issued + 1} /\ issued' <= MaxTokens
    /\ token' = 0
    /\ op' = [op EXCEPT ![o] = "login"]
    /\ UNCHANGED <<fresh, authPromise, client, revoked, presented, errors, broken>>

-----------------------------------------------------------------------------
\* A minute before it expires, the token is not fresh.
Expire ==
    /\ token # 0 /\ fresh /\ Trouble
    /\ fresh' = FALSE
    /\ UNCHANGED <<token, authPromise, op, client, issued, revoked, presented, errors, broken>>

Revoke(t) ==
    /\ t \notin revoked /\ Trouble
    /\ revoked' = revoked \cup {t}
    /\ UNCHANGED <<token, fresh, authPromise, op, client, issued, presented, errors, broken>>

Step(r) ==
    \/ GetToken(r) \/ Answered(r) \/ Unauthorized(r) \/ ServerError(r) \/ Wake(r) \/ NoAnswer(r)
    \/ LoginAnswered(r) \/ LoginFails(r) \/ RefreshAnswered(r) \/ RefreshFails(r)

Next ==
    \/ \E r \in Requests : Begin(r) \/ Step(r)
    \/ Expire
    \/ \E t \in 1..issued : Revoke(t)

Spec == Init /\ [][Next]_vars

\* Every call of AUDD has a timeout, and the event loop drives a request on.
FairSpec == Spec /\ \A r \in Requests : WF_vars(Step(r))

-----------------------------------------------------------------------------
TypeOK ==
    /\ token \in 0..issued /\ fresh \in BOOLEAN /\ authPromise \in Requests \cup {NoOne}
    /\ op \in [Requests -> {"none", "login", "refresh"}]
    /\ pc \in [Requests -> {"idle", "token", "await", "send", "sleep", "awaitRefresh", "done", "failed"}]
    /\ attempt \in [Requests -> 0..LastAttempt]
    /\ didRefresh \in [Requests -> BOOLEAN]
    /\ using \in [Requests -> 0..issued]
    /\ waitsFor \in [Requests -> Requests \cup {NoOne}]
    /\ issued \in 0..MaxTokens /\ revoked \subseteq 1..issued /\ presented \subseteq 1..issued
    /\ errors \in [Requests -> Nat] /\ broken \in BOOLEAN /\ troubles \in 0..MaxTroubles

\* However many requests find the token stale, missing or rejected, one login or
\* refresh is under way at a time, and it is the one they share.
OneAuthenticationAtATime == \A o, p \in Requests : op[o] # "none" /\ op[p] # "none" => o = p

\* What is cached is the newest token set: no late answer puts an older one back.
CachedIsNewest == token # 0 => token = issued

\* A refresh token is presented once: after a refresh whose answer was lost, the
\* client logs in rather than present it again.
RefreshTokenOnce == [][\A r \in Requests : op[r] # "refresh" /\ op'[r] = "refresh"
                                             => token \notin presented]_vars

\* What three attempts and one refresh are for: a request fails only if logins or
\* answers failed outright, two tokens were revoked, or server errors and a
\* revocation together took its attempts.
SurvivesTroubles == \A r \in Requests : pc[r] = "failed" =>
    \/ broken
    \/ \E t, u \in revoked : t # u
    \/ errors[r] > LastAttempt
    \/ errors[r] = LastAttempt /\ revoked # {}

\* Every request is answered or fails: nobody waits for a promise that is never settled.
RequestsEnd == \A r \in Requests : pc[r] = "token" ~> pc[r] \in {"done", "failed"}
=============================================================================
