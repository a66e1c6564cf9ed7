------------------------------ MODULE AdminLogin ------------------------------
(***************************************************************************)
(* The administrator's password login: handleLogin of                      *)
(* internal/server/admin/init.go with the failure limiter and the login    *)
(* audit of login_security.go, the proof-of-work challenge of              *)
(* internal/service/login_captcha.go and VerifyLogin and CompleteLogin of  *)
(* internal/service/admin_auth.go over the user and session tables.        *)
(*                                                                         *)
(* Every request is a goroutine of the HTTP server.  The limiter and the   *)
(* used challenges are in the memory of the process, each behind its own   *)
(* mutex that is taken for one call only, so requests interleave between   *)
(* any two calls below and keep the clock values they read earlier.  All   *)
(* requests carry the same limiter key (user name and client address): the *)
(* entries of different keys do not touch.                                 *)
(***************************************************************************)
EXTENDS Integers, FiniteSets

CONSTANTS
    MaxRequests,    \* how many login requests are sent
    Captchas,       \* challenges; the empty set when the captcha is switched off
    FailureLimit,   \* loginFailureLimit
    FailureWindow,  \* loginFailureWindow
    Lockout,        \* loginLockout
    CaptchaTTL,     \* loginCaptchaTTL
    MaxTime,        \* bound on the clock
    MaxFaults,      \* bound on failing database calls
    MaxRestarts,    \* bound on restarts of the process
    MaxCorrect,     \* bound on the requests that carry the right password
    MaxChanges      \* bound on the account being closed or opened

LoginAssumption ==
    /\ MaxRequests \in Nat
    /\ FailureLimit \in Nat \ {0, 1}
    /\ FailureWindow \in Nat /\ Lockout \in Nat /\ FailureWindow >= Lockout
    /\ CaptchaTTL \in Nat \ {0} /\ MaxTime \in Nat
    /\ MaxFaults \in Nat /\ MaxRestarts \in Nat
    /\ MaxCorrect \in Nat /\ MaxChanges \in Nat

VARIABLES
    now,        \* the clock
    usable,     \* the user's row is active, enabled and not expired
    attempt,    \* the limiter's entry of the key
    expiry,     \* expiry[c]: when challenge c runs out, 0 before it is issued
    used,       \* LoginCaptcha.used: the signatures redeemed and not cleaned up
    req,        \* req[r]: what the handler of r holds
    session,    \* session[r]: the admin_sessions row that r created
    log,        \* log[r]: the login_audit_logs rows of r
    resets,     \* how often the limiter's entry was reset (ghost)
    alone,      \* the requests past the limiter that met no other one (ghost)
    left        \* how much of the bounds is left

vars == <<now, usable, attempt, expiry, used, req, session, log, resets, alone, left>>

Requests == 1 .. MaxRequests    \* numbered in the order they arrive

NoAttempt == [failures |-> 0, first |-> -1, lockedUntil |-> 0]

(* at: the clock handleLogin read first; seen: the clock Verify of the     *)
(* captcha read.  Ghosts: redeemed, when the challenge was accepted;       *)
(* epoch, the resets when its failure was recorded; leaks, the writes of   *)
(* the request that failed and left something behind.                      *)
NewRequest == [pc |-> "new", captcha |-> {}, at |-> 0, seen |-> 0, redeemed |-> -1,
               outcome |-> "none", epoch |-> 0, leaks |-> {}]

PCs == {"new", "captcha", "redeem", "verify", "record", "intent", "persist", "create",
        "result", "reset", "revoke", "fail", "done"}

At(r, pc) == req[r].pc = pc
Goto(r, pc) == req' = [req EXCEPT ![r].pc = pc]
End(r, outcome) == req' = [req EXCEPT ![r].pc = "done", ![r].outcome = outcome]

Fault == left.faults > 0 /\ left' = [left EXCEPT !.faults = @ - 1]

limiter == <<attempt, resets, alone>>
captchaState == <<expiry, used>>
tables == <<usable, session, log>>

Failed == {r \in Requests : req[r].outcome = "failed"}

(* The requests that the limiter let pass and that are not answered yet.   *)
InFlight == {r \in Requests : req[r].pc \notin {"new", "done"}}

-----------------------------------------------------------------------------
(* The limiter *)

(* retryAfter: the request is refused while the lock lasts. *)
Locked(t) == attempt.lockedUntil > t

Outdated(t) == attempt.first >= 0 /\ t - attempt.first > FailureWindow

(* retryAfter's other effect: an entry older than the window is dropped. *)
AfterRetryCheck(t) == IF Outdated(t) THEN NoAttempt ELSE attempt

MutantAfterFailure(t) ==
    LET entry == IF attempt.first < 0 \/ Outdated(t)
                 THEN [NoAttempt EXCEPT !.first = t] ELSE attempt
    IN  [entry EXCEPT !.failures = @ + 1]

(* recordFailure, with the clock value the request read on arrival. *)
AfterFailure(t) ==
    LET entry == IF attempt.first < 0 \/ Outdated(t)
                 THEN [NoAttempt EXCEPT !.first = t] ELSE attempt
        count == entry.failures + 1
    IN  [entry EXCEPT !.failures = count,
                      !.lockedUntil = IF count >= FailureLimit THEN t + Lockout ELSE @]

-----------------------------------------------------------------------------
(* The handler, call by call *)

(* handleLogin up to the limiter: the clock is read, a locked key is       *)
(* refused with 429, an outdated entry dropped.                            *)
Arrive(r) ==
    /\ At(r, "new")
    /\ \A q \in 1 .. r - 1 : ~At(q, "new")
    /\ \E c \in {{}} \cup {{d} : d \in {d \in Captchas : expiry[d] > 0}} :
          req' = [req EXCEPT ![r] =
                    [@ EXCEPT !.captcha = c, !.at = now,
                              !.outcome = IF Locked(now) THEN "blocked" ELSE "none",
                              !.pc = IF Locked(now) THEN "done"
                                     ELSE IF Captchas = {} THEN "verify" ELSE "captcha"]]
    /\ attempt' = IF Locked(now) THEN attempt ELSE AfterRetryCheck(now)
    /\ alone' = IF Locked(now) THEN alone
                ELSE (alone \ InFlight) \cup {q \in {r} : InFlight = {}}
    /\ UNCHANGED <<now, captchaState, tables, resets, left>>

(* LoginCaptcha.Verify before the mutex: a missing, invalid or expired     *)
(* solution is refused; the clock it read stays with the request.          *)
CheckCaptcha(r) ==
    /\ At(r, "captcha")
    /\ IF \E c \in req[r].captcha : expiry[c] > now
       THEN req' = [req EXCEPT ![r].pc = "redeem", ![r].seen = now]
       ELSE End(r, "refused")
    /\ UNCHANGED <<now, limiter, captchaState, tables, left>>

(* cleanupLocked *)
Cleaned(t) == {c \in used : expiry[c] > t}

(* LoginCaptcha.Verify under the mutex: clean up by the clock read before, *)
(* refuse a signature that is still in the map, else enter it.             *)
RedeemCaptcha(r) ==
    /\ At(r, "redeem")
    /\ LET kept == Cleaned(req[r].seen)
       IN  IF req[r].captcha \cap kept # {}
           THEN used' = kept /\ End(r, "refused")
           ELSE /\ used' = kept \cup req[r].captcha
                /\ req' = [req EXCEPT ![r].pc = "verify", ![r].seen = 0, ![r].redeemed = now]
    /\ UNCHANGED <<now, limiter, expiry, tables, left>>

(* VerifyLogin: the credential is read and compared; an unknown, disabled  *)
(* or expired user and a wrong password (any request may carry one) are    *)
(* one answer.                                                             *)
VerifyLogin(r) ==
    /\ At(r, "verify")
    /\ \/ /\ usable /\ left.correct > 0
          /\ left' = [left EXCEPT !.correct = @ - 1]
          /\ Goto(r, "intent")
       \/ Goto(r, "record") /\ UNCHANGED left
       \/ End(r, "refused") /\ Fault
    /\ UNCHANGED <<now, limiter, captchaState, tables>>

(* recordFailure and the 401. *)
RecordFailure(r) ==
    /\ At(r, "record")
    /\ attempt' = AfterFailure(req[r].at)
    /\ req' = [req EXCEPT ![r].pc = "done", ![r].outcome = "failed", ![r].epoch = resets]
    /\ UNCHANGED <<now, captchaState, tables, resets, alone, left>>

(* beginLoginAudit: without the intent row the login goes no further. *)
BeginLoginAudit(r) ==
    /\ At(r, "intent")
    /\ \/ /\ log' = [log EXCEPT ![r] = @ \cup {"intent"}]
          /\ Goto(r, "persist")
          /\ UNCHANGED left
       \/ /\ End(r, "refused")
          /\ UNCHANGED log
          /\ Fault
    /\ UNCHANGED <<now, limiter, captchaState, usable, session>>

(* PersistAdminLoginState: a conditional UPDATE that repeats the checks of *)
(* VerifyLogin; no row changed means the account changed in between.       *)
PersistLoginState(r) ==
    /\ At(r, "persist")
    /\ \/ Goto(r, IF usable THEN "create" ELSE "fail") /\ UNCHANGED left
       \/ Goto(r, "fail") /\ Fault
    /\ UNCHANGED <<now, limiter, captchaState, tables>>

(* BrowserSessionService.Create; a call that fails may have committed.     *)
CreateSession(r) ==
    /\ At(r, "create")
    /\ \/ /\ session' = [session EXCEPT ![r] = "live"]
          /\ Goto(r, "result")
          /\ UNCHANGED left
       \/ /\ session' \in {session, [session EXCEPT ![r] = "live"]}
          /\ req' = [req EXCEPT ![r].pc = "fail", ![r].leaks = @ \cup {"session"}]
          /\ Fault
    /\ UNCHANGED <<now, limiter, captchaState, usable, log>>

(* recordLoginAuditResult "success"; a call that fails may have committed. *)
RecordSuccess(r) ==
    /\ At(r, "result")
    /\ \/ /\ log' = [log EXCEPT ![r] = @ \cup {"success"}]
          /\ Goto(r, "reset")
          /\ UNCHANGED left
       \/ /\ log' \in {log, [log EXCEPT ![r] = @ \cup {"success"}]}
          /\ Goto(r, "revoke")
          /\ Fault
    /\ UNCHANGED <<now, limiter, captchaState, usable, session>>

(* limiter.reset, then the cookie with the session's secret.               *)
Reset(r) ==
    /\ At(r, "reset")
    /\ attempt' = NoAttempt
    /\ resets' = resets + 1
    /\ End(r, "cookie")
    /\ UNCHANGED <<now, captchaState, tables, alone, left>>

MutantRevokeSession(r) ==
    /\ At(r, "revoke")
    /\ Goto(r, "fail")
    /\ UNCHANGED <<now, limiter, captchaState, tables, left>>

(* browserSessions.Revoke of the session whose login could not be audited. *)
RevokeSession(r) ==
    /\ At(r, "revoke")
    /\ \/ /\ session' = [session EXCEPT ![r] = "revoked"]
          /\ Goto(r, "fail")
          /\ UNCHANGED left
       \/ /\ req' = [req EXCEPT ![r].pc = "fail", ![r].leaks = @ \cup {"session"}]
          /\ UNCHANGED session
          /\ Fault
    /\ UNCHANGED <<now, limiter, captchaState, usable, log>>

(* recordLoginAuditFailure: best effort. *)
RecordLoginFailure(r) ==
    /\ At(r, "fail")
    /\ \/ /\ log' = [log EXCEPT ![r] = @ \cup {"failure"}]
          /\ End(r, "refused")
          /\ UNCHANGED left
       \/ /\ req' = [req EXCEPT ![r].pc = "done", ![r].outcome = "refused",
                                ![r].leaks = @ \cup {"result"}]
          /\ UNCHANGED log
          /\ Fault
    /\ UNCHANGED <<now, limiter, captchaState, usable, session>>

-----------------------------------------------------------------------------
(* LoginCaptcha.CreateChallenge *)
CreateChallenge(c) ==
    /\ expiry[c] = 0
    /\ expiry' = [expiry EXCEPT ![c] = now + CaptchaTTL]
    /\ UNCHANGED <<now, limiter, used, tables, req, left>>

(* Another administrator disables, deletes or re-enables the user. *)
ChangeAccount ==
    /\ left.changes > 0
    /\ left' = [left EXCEPT !.changes = @ - 1]
    /\ usable' = ~usable
    /\ UNCHANGED <<now, limiter, captchaState, session, log, req>>

(* The process restarts: its requests end, the limiter is empty and        *)
(* NewLoginCaptcha draws a new secret, so no earlier challenge is valid.   *)
Restart ==
    /\ left.restarts > 0
    /\ left' = [left EXCEPT !.restarts = @ - 1]
    /\ attempt' = NoAttempt
    /\ resets' = resets + 1
    /\ used' = {}
    /\ expiry' = [c \in Captchas |-> 0]
    /\ req' = [r \in Requests |->
                 IF req[r].pc = "new" THEN req[r]
                 ELSE IF req[r].pc = "done" THEN [req[r] EXCEPT !.redeemed = -1]
                 ELSE [req[r] EXCEPT !.pc = "done", !.outcome = "lost", !.redeemed = -1]]
    /\ UNCHANGED <<now, tables, alone>>

Tick ==
    /\ now < MaxTime
    /\ now' = now + 1
    /\ UNCHANGED <<limiter, captchaState, tables, req, left>>

Init ==
    /\ now = 0
    /\ usable = TRUE
    /\ attempt = NoAttempt
    /\ expiry = [c \in Captchas |-> 0]
    /\ used = {}
    /\ req = [r \in Requests |-> NewRequest]
    /\ session = [r \in Requests |-> "none"]
    /\ log = [r \in Requests |-> {}]
    /\ resets = 0
    /\ alone = {}
    /\ left = [faults |-> MaxFaults, restarts |-> MaxRestarts,
               correct |-> MaxCorrect, changes |-> MaxChanges]

Handle(r) ==
    \/ Arrive(r)
    \/ CheckCaptcha(r)
    \/ RedeemCaptcha(r)
    \/ VerifyLogin(r)
    \/ RecordFailure(r)
    \/ BeginLoginAudit(r)
    \/ PersistLoginState(r)
    \/ CreateSession(r)
    \/ RecordSuccess(r)
    \/ Reset(r)
    \/ RevokeSession(r)
    \/ RecordLoginFailure(r)

Next ==
    \/ \E r \in Requests : Handle(r)
    \/ \E c \in Captchas : CreateChallenge(c)
    \/ ChangeAccount
    \/ Restart
    \/ Tick

Spec == Init /\ [][Next]_vars

-----------------------------------------------------------------------------
\* Every variable holds a value of its type.
TypeOK ==
    /\ now \in 0 .. MaxTime
    /\ usable \in BOOLEAN
    /\ attempt \in [failures : 0 .. Cardinality(Requests), first : -1 .. MaxTime,
                    lockedUntil : 0 .. MaxTime + Lockout]
    /\ expiry \in [Captchas -> 0 .. MaxTime + CaptchaTTL]
    /\ used \in SUBSET Captchas
    /\ req \in [Requests -> [pc : PCs, captcha : SUBSET Captchas,
                             at : 0 .. MaxTime, seen : 0 .. MaxTime, redeemed : -1 .. MaxTime,
                             outcome : {"none", "blocked", "refused", "failed", "cookie", "lost"},
                             epoch : Nat, leaks : SUBSET {"session", "result"}]]
    /\ session \in [Requests -> {"none", "live", "revoked"}]
    /\ log \in [Requests -> SUBSET {"intent", "success", "failure"}]
    /\ resets \in Nat
    /\ alone \in SUBSET Requests

(* The failures recorded since the last reset whose requests arrived       *)
(* within the last Lockout.                                                *)
RecentFailures == {f \in Failed : req[f].epoch = resets /\ req[f].at > now - Lockout}

LetThrough(r) == At(r, "new") /\ req'[r].pc \in {"captcha", "verify"}

(* The limiter holds for whoever tries one password after the other: a     *)
(* request only gets past it when at most 2 * FailureLimit - 3 recent      *)
(* failures are those of requests that met no other one (the end of one    *)
(* counting window and the start of the next), whatever requests in        *)
(* parallel did to the entry between them with the clock they had read.    *)
LockoutRespected ==
    \A r \in Requests : LetThrough(r)
        => Cardinality(RecentFailures \cap alone) <= 2 * FailureLimit - 3

(* The same for every failure, also of requests in parallel.               *)
LockoutRespectedInParallel ==
    \A r \in Requests : LetThrough(r) => Cardinality(RecentFailures) <= 2 * FailureLimit - 3

(* A session row never exists, not even for a moment, without the intent  *)
(* row of its login, and a login is only answered with the session's       *)
(* secret after its success is in the login audit as well.                 *)
LoginIsAudited ==
    \A r \in Requests :
        /\ session[r] # "none" => "intent" \in log[r]
        /\ req[r].outcome = "cookie" => {"intent", "success"} \subseteq log[r]

(* A login that was answered with an error leaves no live session behind,  *)
(* unless the call that should have created or revoked it failed.          *)
RefusedLeavesNoSession ==
    \A r \in Requests : req[r].outcome = "refused" /\ "session" \notin req[r].leaks
        => session[r] # "live"

(* Every intent is followed by a result when the request ends in a living  *)
(* process, unless the write of the result failed.                         *)
IntentGetsResult ==
    \A r \in Requests :
        req[r].pc = "done" /\ req[r].outcome # "lost" /\ "intent" \in log[r]
            => log[r] \cap {"success", "failure"} # {} \/ "result" \in req[r].leaks

Redeemers(c) == {r \in Requests : req[r].redeemed >= 0 /\ c \in req[r].captcha}

(* A challenge that has not run out is redeemed by one request only, in    *)
(* whatever order the requests reach the mutex of the used signatures.     *)
OneRedemptionWhileValid ==
    \A c \in Captchas :
        Cardinality({r \in Redeemers(c) : req[r].redeemed < expiry[c]}) <= 1

(* A challenge is redeemed by one request only. *)
CaptchaSingleUse == \A c \in Captchas : Cardinality(Redeemers(c)) <= 1

(* A login leaves what its outcome says and nothing else: audit rows before  *)
(* and after, no session without success, and a challenge redeemed once      *)
(* while it is valid.                                                        *)
LoginAccounted == LoginIsAudited /\ RefusedLeavesNoSession /\ IntentGetsResult /\ OneRedemptionWhileValid
=============================================================================
