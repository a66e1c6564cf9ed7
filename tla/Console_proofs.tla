---------------------------- MODULE Console_proofs ----------------------------
(***************************************************************************)
(* Proofs about the administrator's login (AdminLogin), the browser        *)
(* sessions that follow it (WebSession) and the database inventory         *)
(* (DatabaseInventory), for any number of requests, challenges, sessions,  *)
(* tickets, instances, accounts and operations, any bound on time and any  *)
(* number of failing database calls and restarts.                          *)
(*                                                                         *)
(* None of the properties is inductive.  What a request left behind is     *)
(* known only together with where its handler stands (LoginProgress,       *)
(* WebProgress); that a challenge is redeemed once rests on the clock      *)
(* values that were read before the mutex (ChallengeKept): a signature may *)
(* leave the map only when the challenge has run out for everybody; and an *)
(* instance is changed with settings that were read and tried before       *)
(* (ReqFits).                                                              *)
(***************************************************************************)
EXTENDS MCConsole, FiniteSetTheorems, TLAPS

-----------------------------------------------------------------------------
(* The login *)

LoginRequest ==
    [pc : PCs, captcha : SUBSET Captchas, at : Nat, seen : Nat, redeemed : Int,
     outcome : {"none", "blocked", "refused", "failed", "cookie", "lost"},
     epoch : Nat, leaks : SUBSET {"session", "result"}]

LoginTyped ==
    /\ now \in Nat /\ resets \in Nat
    /\ expiry \in [Captchas -> Nat]
    /\ used \in SUBSET Captchas
    /\ req \in [Requests -> LoginRequest]
    /\ session \in [Requests -> {"none", "live", "revoked"}]
    /\ log \in [Requests -> SUBSET {"intent", "success", "failure"}]

Early == {"new", "captcha", "redeem", "verify", "record", "intent"}

(* What r has left behind, by the place its handler has reached.           *)
LoginProgress(r) ==
    /\ req[r].pc # "done" => req[r].outcome = "none"
    /\ req[r].pc \in Early => "intent" \notin log[r] /\ session[r] = "none"
    /\ req[r].pc \in {"persist", "create"} => "intent" \in log[r] /\ session[r] = "none"
    /\ req[r].pc \in {"result", "reset", "revoke", "fail"} => "intent" \in log[r]
    /\ req[r].pc = "reset" => "success" \in log[r]
    /\ req[r].pc = "fail" => session[r] # "live" \/ "session" \in req[r].leaks
    /\ session[r] # "none" => "intent" \in log[r]
    /\ req[r].outcome = "cookie" => {"intent", "success"} \subseteq log[r]
    /\ req[r].outcome = "refused" /\ "session" \notin req[r].leaks => session[r] # "live"
    /\ req[r].pc = "done" /\ req[r].outcome # "lost" /\ "intent" \in log[r]
          => log[r] \cap {"success", "failure"} # {} \/ "result" \in req[r].leaks

(* What r holds of a challenge: one that was issued by this process, and a *)
(* clock value that is not ahead.                                          *)
Holds(r) ==
    /\ req[r].pc \in {"new", "captcha", "redeem"} => req[r].redeemed = -1
    /\ req[r].pc \in {"captcha", "redeem"} \/ req[r].redeemed >= 0
          => \A c \in req[r].captcha : expiry[c] > 0
    /\ req[r].seen <= now

ValidRedeemer(r, c) == req[r].redeemed >= 0 /\ c \in req[r].captcha /\ req[r].redeemed < expiry[c]

(* While the challenge of a valid redemption runs, its signature is in the *)
(* map; and there is one such redemption.                                  *)
ChallengeKept(c) ==
    /\ \A r \in Requests : ValidRedeemer(r, c) => c \in used \/ now >= expiry[c]
    /\ \A r, q \in Requests : ValidRedeemer(r, c) /\ ValidRedeemer(q, c) => r = q

LoginInv ==
    /\ LoginTyped
    /\ \A r \in Requests : LoginProgress(r) /\ Holds(r)
    /\ \A c \in Captchas : ChallengeKept(c)

-----------------------------------------------------------------------------
(* Only r moves.                                                           *)
Only(r) ==
    \A q \in Requests \ {r} : req'[q] = req[q] /\ session'[q] = session[q] /\ log'[q] = log[q]

LEMMA HandleMovesOne ==
    ASSUME LoginTyped, NEW r \in Requests, Handle(r)
    PROVE  Only(r)
BY DEF LoginTyped, Only, Handle, Arrive, CheckCaptcha, RedeemCaptcha, VerifyLogin, RecordFailure,
       BeginLoginAudit, PersistLoginState, CreateSession, RecordSuccess, Reset, RevokeSession,
       RecordLoginFailure, Goto, End, tables

(* A step of r that neither redeems a challenge nor issues one.            *)
LEMMA PlainStep ==
    ASSUME LoginInv, NEW r \in Requests, Only(r), LoginTyped', LoginProgress(r)', Holds(r)',
           UNCHANGED <<now, expiry, used>>,
           \/ req'[r].redeemed = -1
           \/ req'[r].redeemed = req[r].redeemed /\ req'[r].captcha = req[r].captcha
    PROVE  LoginInv'
<1>1. \A q \in Requests : LoginProgress(q)' /\ Holds(q)'
    BY DEF LoginInv, Only, LoginProgress, Holds
<1>2. ASSUME NEW c \in Captchas
      PROVE  ChallengeKept(c)'
    <2>1. \A q \in Requests : ValidRedeemer(q, c)' => ValidRedeemer(q, c)
        BY DEF Only, ValidRedeemer
    <2>. QED
        BY <2>1 DEF LoginInv, ChallengeKept
<1>. QED
    BY <1>1, <1>2 DEF LoginInv

LEMMA ArriveKeeps ==
    ASSUME LoginInv, NEW r \in Requests, Arrive(r)
    PROVE  LoginInv'
<1>1. PICK c \in {{}} \cup {{d} : d \in {d \in Captchas : expiry[d] > 0}} :
          req' = [req EXCEPT ![r] =
                    [@ EXCEPT !.captcha = c, !.at = now,
                              !.outcome = IF Locked(now) THEN "blocked" ELSE "none",
                              !.pc = IF Locked(now) THEN "done"
                                     ELSE IF Captchas = {} THEN "verify" ELSE "captcha"]]
    BY DEF Arrive
<1>. DEFINE o == IF Locked(now) THEN "blocked" ELSE "none"
            p == IF Locked(now) THEN "done" ELSE IF Captchas = {} THEN "verify" ELSE "captcha"
            q == [req[r] EXCEPT !.captcha = c, !.at = now, !.outcome = o, !.pc = p]
<1>2. c \in SUBSET Captchas /\ \A d \in c : expiry[d] > 0
    <2>1. CASE c = {}
        BY <2>1
    <2>2. CASE c \in {{d} : d \in {d \in Captchas : expiry[d] > 0}}
        <3>1. PICK d \in Captchas : expiry[d] > 0 /\ c = {d}
            BY <2>2
        <3>. QED
            BY <3>1
    <2>. QED
        BY <2>1, <2>2
<1>3. /\ (p = "done" /\ o = "blocked") \/ (p \in {"verify", "captcha"} /\ o = "none")
      /\ p \in PCs /\ o \in {"none", "blocked"}
    BY DEF PCs
<1>4. req[r] \in LoginRequest /\ req[r].pc = "new" /\ now \in Nat
    BY DEF LoginInv, LoginTyped, Arrive, At
<1>5. req' = [req EXCEPT ![r] = q]
    BY <1>1
<1>. HIDE DEF o, p
<1>6. q \in LoginRequest
    BY <1>2, <1>3, <1>4 DEF LoginRequest
<1>7. q.pc = p /\ q.outcome = o /\ q.captcha = c /\ q.redeemed = req[r].redeemed
      /\ q.seen = req[r].seen /\ q.leaks = req[r].leaks
    BY <1>4 DEF LoginRequest
<1>8. UNCHANGED <<now, expiry, used, session, log, resets>>
    BY DEF Arrive, captchaState, tables
<1>. HIDE DEF q
<1>9. req'[r] = q /\ LoginTyped'
    BY <1>5, <1>6, <1>8 DEF LoginInv, LoginTyped
<1>10. req[r].redeemed = -1 /\ LoginProgress(r) /\ Holds(r)
    BY <1>4 DEF LoginInv, Holds
<1>11. Holds(r)'
    BY <1>2, <1>7, <1>8, <1>9, <1>10 DEF Holds
<1>12. LoginProgress(r)'
    BY <1>3, <1>4, <1>7, <1>8, <1>9, <1>10 DEF LoginProgress, Early
<1>. QED
    BY <1>7, <1>8, <1>9, <1>10, <1>11, <1>12, HandleMovesOne, PlainStep DEF Handle, LoginInv

(* The handler of r moves on to p or ends, with outcome o, and its         *)
(* challenge stays as it is.                                               *)
Moved(r, p, o, leaks) ==
    /\ req' \in [Requests -> LoginRequest]
    /\ req'[r].pc = p /\ req'[r].outcome = o /\ req'[r].leaks = leaks
    /\ req'[r].redeemed = req[r].redeemed /\ req'[r].captcha = req[r].captcha
    /\ req'[r].seen = req[r].seen

LEMMA GotoMoves ==
    ASSUME LoginTyped, NEW r \in Requests, NEW p \in PCs, Goto(r, p)
    PROVE  Moved(r, p, req[r].outcome, req[r].leaks)
<1>1. req[r] \in LoginRequest
    BY DEF LoginTyped
<1>2. /\ [req[r] EXCEPT !.pc = p] \in LoginRequest
      /\ [req[r] EXCEPT !.pc = p].pc = p /\ [req[r] EXCEPT !.pc = p].outcome = req[r].outcome
      /\ [req[r] EXCEPT !.pc = p].leaks = req[r].leaks
      /\ [req[r] EXCEPT !.pc = p].redeemed = req[r].redeemed
      /\ [req[r] EXCEPT !.pc = p].captcha = req[r].captcha
      /\ [req[r] EXCEPT !.pc = p].seen = req[r].seen
    BY <1>1 DEF LoginRequest
<1>3. req'[r] = [req[r] EXCEPT !.pc = p] /\ req' \in [Requests -> LoginRequest]
    BY <1>2 DEF Goto, LoginTyped
<1>. QED
    BY <1>2, <1>3 DEF Moved

LEMMA EndMoves ==
    ASSUME LoginTyped, NEW r \in Requests, NEW o \in {"refused", "failed", "cookie"}, End(r, o)
    PROVE  Moved(r, "done", o, req[r].leaks)
<1>. DEFINE q == [req[r] EXCEPT !.pc = "done", !.outcome = o]
<1>1. req[r] \in LoginRequest
    BY DEF LoginTyped
<1>2. /\ q \in LoginRequest /\ q.pc = "done" /\ q.outcome = o /\ q.leaks = req[r].leaks
      /\ q.redeemed = req[r].redeemed /\ q.captcha = req[r].captcha /\ q.seen = req[r].seen
    BY <1>1 DEF LoginRequest, PCs
<1>3. req' = [req EXCEPT ![r] = q]
    BY DEF End
<1>. HIDE DEF q
<1>4. req'[r] = q /\ req' \in [Requests -> LoginRequest]
    BY <1>2, <1>3 DEF LoginTyped
<1>. QED
    BY <1>2, <1>4 DEF Moved

(* A step that only moves the handler keeps the invariant when what it     *)
(* leaves behind agrees with where it stands.                              *)
LEMMA MoveKeeps ==
    ASSUME LoginInv, NEW r \in Requests, Only(r), NEW p, NEW o, NEW leaks,
           p \notin {"new", "captcha", "redeem"}, Moved(r, p, o, leaks), LoginProgress(r)',
           session' \in [Requests -> {"none", "live", "revoked"}],
           log' \in [Requests -> SUBSET {"intent", "success", "failure"}], resets' \in Nat,
           UNCHANGED <<now, expiry, used>>
    PROVE  LoginInv'
<1>1. LoginTyped'
    BY DEF LoginInv, LoginTyped, Moved
<1>2. Holds(r)'
    BY DEF LoginInv, Holds, Moved
<1>. QED
    BY <1>1, <1>2, PlainStep DEF Moved

(* The same where the tables stay as they are.                             *)
LEMMA MoveOnly ==
    ASSUME LoginInv, NEW r \in Requests, Handle(r), NEW p, NEW o, NEW leaks,
           p \notin {"new", "captcha", "redeem"}, Moved(r, p, o, leaks),
           UNCHANGED <<now, expiry, used, session, log>>, resets' \in Nat,
           LoginProgress(r)'
    PROVE  LoginInv'
<1>1. /\ session' \in [Requests -> {"none", "live", "revoked"}]
      /\ log' \in [Requests -> SUBSET {"intent", "success", "failure"}]
    BY DEF LoginInv, LoginTyped
<1>. QED
    BY <1>1, HandleMovesOne, MoveKeeps DEF LoginInv

LEMMA VerifyKeeps ==
    ASSUME LoginInv, NEW r \in Requests, VerifyLogin(r)
    PROVE  LoginInv'
<1>1. req[r].pc = "verify" /\ UNCHANGED <<now, expiry, used, session, log, resets>>
    BY DEF VerifyLogin, At, limiter, captchaState, tables
<1>2. Goto(r, "intent") \/ Goto(r, "record") \/ End(r, "refused")
    BY DEF VerifyLogin
<1>3. \/ Moved(r, "intent", req[r].outcome, req[r].leaks)
      \/ Moved(r, "record", req[r].outcome, req[r].leaks)
      \/ Moved(r, "done", "refused", req[r].leaks)
    BY <1>2, GotoMoves, EndMoves DEF LoginInv, PCs
<1>4. LoginProgress(r)'
    BY <1>1, <1>3 DEF LoginInv, LoginProgress, Moved, Early
<1>5. Handle(r) /\ resets' \in Nat
    BY <1>1 DEF Handle, LoginInv, LoginTyped
<1>. QED
    BY <1>1, <1>3, <1>4, <1>5, MoveOnly

LEMMA FailureKeeps ==
    ASSUME LoginInv, NEW r \in Requests, RecordFailure(r)
    PROVE  LoginInv'
<1>1. req[r].pc = "record" /\ UNCHANGED <<now, expiry, used, session, log, resets>>
    BY DEF RecordFailure, At, captchaState, tables
<1>2. req[r] \in LoginRequest /\ resets \in Nat
    BY DEF LoginInv, LoginTyped
<1>3. Moved(r, "done", "failed", req[r].leaks)
    <2>. DEFINE q == [req[r] EXCEPT !.pc = "done", !.outcome = "failed", !.epoch = resets]
    <2>1. /\ q \in LoginRequest /\ q.pc = "done" /\ q.outcome = "failed" /\ q.leaks = req[r].leaks
          /\ q.redeemed = req[r].redeemed /\ q.captcha = req[r].captcha /\ q.seen = req[r].seen
        BY <1>2 DEF LoginRequest, PCs
    <2>2. req' = [req EXCEPT ![r] = q]
        BY DEF RecordFailure
    <2>. HIDE DEF q
    <2>3. req'[r] = q /\ req' \in [Requests -> LoginRequest]
        BY <2>1, <2>2 DEF LoginInv, LoginTyped
    <2>. QED
        BY <2>1, <2>3 DEF Moved
<1>4. LoginProgress(r)'
    BY <1>1, <1>3 DEF LoginInv, LoginProgress, Moved, Early
<1>5. Handle(r) /\ resets' \in Nat
    BY <1>1, <1>2 DEF Handle
<1>. QED
    BY <1>1, <1>3, <1>4, <1>5, MoveOnly

LEMMA IntentKeeps ==
    ASSUME LoginInv, NEW r \in Requests, BeginLoginAudit(r)
    PROVE  LoginInv'
<1>1. req[r].pc = "intent" /\ UNCHANGED <<now, expiry, used, session, resets>>
    BY DEF BeginLoginAudit, At, limiter, captchaState
<1>2. log' \in [Requests -> SUBSET {"intent", "success", "failure"}]
    BY DEF BeginLoginAudit, LoginInv, LoginTyped
<1>3. /\ session' \in [Requests -> {"none", "live", "revoked"}] /\ resets' \in Nat
      /\ Only(r)
    BY <1>1, HandleMovesOne DEF Handle, LoginInv, LoginTyped
<1>4. CASE Goto(r, "persist") /\ log' = [log EXCEPT ![r] = @ \cup {"intent"}]
    <2>1. Moved(r, "persist", req[r].outcome, req[r].leaks)
        BY <1>4, GotoMoves DEF LoginInv, PCs
    <2>2. log'[r] = log[r] \cup {"intent"}
        BY <1>4 DEF LoginInv, LoginTyped
    <2>3. LoginProgress(r)'
        BY <1>1, <2>1, <2>2 DEF LoginInv, LoginProgress, Moved, Early
    <2>. QED
        BY <1>1, <1>2, <1>3, <2>1, <2>3, MoveKeeps
<1>5. CASE End(r, "refused") /\ UNCHANGED log
    <2>1. Moved(r, "done", "refused", req[r].leaks)
        BY <1>5, EndMoves DEF LoginInv
    <2>2. LoginProgress(r)'
        BY <1>1, <1>5, <2>1 DEF LoginInv, LoginProgress, Moved, Early
    <2>. QED
        BY <1>1, <1>2, <1>3, <2>1, <2>2, MoveKeeps
<1>. QED
    BY <1>4, <1>5 DEF BeginLoginAudit

LEMMA PersistKeeps ==
    ASSUME LoginInv, NEW r \in Requests, PersistLoginState(r)
    PROVE  LoginInv'
<1>1. req[r].pc = "persist" /\ UNCHANGED <<now, expiry, used, session, log, resets>>
    BY DEF PersistLoginState, At, limiter, captchaState, tables
<1>2. Goto(r, "create") \/ Goto(r, "fail")
    BY DEF PersistLoginState
<1>3. \/ Moved(r, "create", req[r].outcome, req[r].leaks)
      \/ Moved(r, "fail", req[r].outcome, req[r].leaks)
    BY <1>2, GotoMoves DEF LoginInv, PCs
<1>4. LoginProgress(r)'
    BY <1>1, <1>3 DEF LoginInv, LoginProgress, Moved, Early
<1>5. Handle(r) /\ resets' \in Nat
    BY <1>1 DEF Handle, LoginInv, LoginTyped
<1>. QED
    BY <1>1, <1>3, <1>4, <1>5, MoveOnly

(* A write of r failed and may have left something behind.                 *)
Leak(r, p, x) == req' = [req EXCEPT ![r].pc = p, ![r].leaks = @ \cup {x}]

LEMMA LeakMoves ==
    ASSUME LoginTyped, NEW r \in Requests, NEW p \in PCs, NEW x \in {"session", "result"},
           Leak(r, p, x)
    PROVE  Moved(r, p, req[r].outcome, req[r].leaks \cup {x})
<1>. DEFINE q == [req[r] EXCEPT !.pc = p, !.leaks = req[r].leaks \cup {x}]
<1>1. req[r] \in LoginRequest
    BY DEF LoginTyped
<1>2. /\ q \in LoginRequest /\ q.pc = p /\ q.outcome = req[r].outcome
      /\ q.leaks = req[r].leaks \cup {x}
      /\ q.redeemed = req[r].redeemed /\ q.captcha = req[r].captcha /\ q.seen = req[r].seen
    BY <1>1 DEF LoginRequest
<1>3. req' = [req EXCEPT ![r] = q]
    BY <1>1 DEF LoginRequest, LoginTyped, Leak
<1>. HIDE DEF q
<1>4. req'[r] = q /\ req' \in [Requests -> LoginRequest]
    BY <1>2, <1>3 DEF LoginTyped
<1>. QED
    BY <1>2, <1>4 DEF Moved

LEMMA CreateSessionKeeps ==
    ASSUME LoginInv, NEW r \in Requests, CreateSession(r)
    PROVE  LoginInv'
<1>1. req[r].pc = "create" /\ UNCHANGED <<now, expiry, used, log, resets>>
    BY DEF CreateSession, At, limiter, captchaState
<1>2. session' \in [Requests -> {"none", "live", "revoked"}]
    BY DEF CreateSession, LoginInv, LoginTyped
<1>3. /\ log' \in [Requests -> SUBSET {"intent", "success", "failure"}] /\ resets' \in Nat
      /\ Only(r)
    BY <1>1, HandleMovesOne DEF Handle, LoginInv, LoginTyped
<1>4. CASE Goto(r, "result")
    <2>1. Moved(r, "result", req[r].outcome, req[r].leaks)
        BY <1>4, GotoMoves DEF LoginInv, PCs
    <2>2. LoginProgress(r)'
        BY <1>1, <2>1 DEF LoginInv, LoginProgress, Moved, Early
    <2>. QED
        BY <1>1, <1>2, <1>3, <2>1, <2>2, MoveKeeps
<1>5. CASE req' = [req EXCEPT ![r].pc = "fail", ![r].leaks = @ \cup {"session"}]
    <2>1. Moved(r, "fail", req[r].outcome, req[r].leaks \cup {"session"})
        BY <1>5, LeakMoves DEF LoginInv, PCs, Leak
    <2>2. LoginProgress(r)'
        BY <1>1, <2>1 DEF LoginInv, LoginProgress, Moved, Early
    <2>. QED
        BY <1>1, <1>2, <1>3, <2>1, <2>2, MoveKeeps
<1>. QED
    BY <1>4, <1>5 DEF CreateSession

LEMMA SuccessKeeps ==
    ASSUME LoginInv, NEW r \in Requests, RecordSuccess(r)
    PROVE  LoginInv'
<1>1. req[r].pc = "result" /\ UNCHANGED <<now, expiry, used, session, resets>>
    BY DEF RecordSuccess, At, limiter, captchaState
<1>2. /\ log' \in [Requests -> SUBSET {"intent", "success", "failure"}]
      /\ log'[r] \in {log[r], log[r] \cup {"success"}}
    BY DEF RecordSuccess, LoginInv, LoginTyped
<1>3. /\ session' \in [Requests -> {"none", "live", "revoked"}] /\ resets' \in Nat
      /\ Only(r)
    BY <1>1, HandleMovesOne DEF Handle, LoginInv, LoginTyped
<1>4. CASE Goto(r, "reset") /\ log' = [log EXCEPT ![r] = @ \cup {"success"}]
    <2>1. Moved(r, "reset", req[r].outcome, req[r].leaks)
        BY <1>4, GotoMoves DEF LoginInv, PCs
    <2>2. log'[r] = log[r] \cup {"success"}
        BY <1>4 DEF LoginInv, LoginTyped
    <2>3. LoginProgress(r)'
        BY <1>1, <2>1, <2>2 DEF LoginInv, LoginProgress, Moved, Early
    <2>. QED
        BY <1>1, <1>2, <1>3, <2>1, <2>3, MoveKeeps
<1>5. CASE Goto(r, "revoke")
    <2>1. Moved(r, "revoke", req[r].outcome, req[r].leaks)
        BY <1>5, GotoMoves DEF LoginInv, PCs
    <2>2. LoginProgress(r)'
        BY <1>1, <1>2, <2>1 DEF LoginInv, LoginProgress, Moved, Early
    <2>. QED
        BY <1>1, <1>2, <1>3, <2>1, <2>2, MoveKeeps
<1>. QED
    BY <1>4, <1>5 DEF RecordSuccess

LEMMA ResetKeeps ==
    ASSUME LoginInv, NEW r \in Requests, Reset(r)
    PROVE  LoginInv'
<1>1. req[r].pc = "reset" /\ UNCHANGED <<now, expiry, used, session, log>>
    BY DEF Reset, At, captchaState, tables
<1>2. Moved(r, "done", "cookie", req[r].leaks)
    BY EndMoves DEF LoginInv, Reset
<1>3. LoginProgress(r)'
    BY <1>1, <1>2 DEF LoginInv, LoginProgress, Moved, Early
<1>4. Handle(r) /\ resets' \in Nat
    BY DEF Handle, Reset, LoginInv, LoginTyped
<1>. QED
    BY <1>1, <1>2, <1>3, <1>4, MoveOnly

LEMMA RevokeKeeps ==
    ASSUME LoginInv, NEW r \in Requests, RevokeSession(r)
    PROVE  LoginInv'
<1>1. req[r].pc = "revoke" /\ UNCHANGED <<now, expiry, used, log, resets>>
    BY DEF RevokeSession, At, limiter, captchaState
<1>2. session' \in [Requests -> {"none", "live", "revoked"}]
    BY DEF RevokeSession, LoginInv, LoginTyped
<1>3. /\ log' \in [Requests -> SUBSET {"intent", "success", "failure"}] /\ resets' \in Nat
      /\ Only(r)
    BY <1>1, HandleMovesOne DEF Handle, LoginInv, LoginTyped
<1>4. CASE Goto(r, "fail") /\ session' = [session EXCEPT ![r] = "revoked"]
    <2>1. Moved(r, "fail", req[r].outcome, req[r].leaks)
        BY <1>4, GotoMoves DEF LoginInv, PCs
    <2>2. session'[r] = "revoked"
        BY <1>4 DEF LoginInv, LoginTyped
    <2>3. LoginProgress(r)'
        BY <1>1, <2>1, <2>2 DEF LoginInv, LoginProgress, Moved, Early
    <2>. QED
        BY <1>1, <1>2, <1>3, <2>1, <2>3, MoveKeeps
<1>5. CASE req' = [req EXCEPT ![r].pc = "fail", ![r].leaks = @ \cup {"session"}] /\ UNCHANGED session
    <2>1. Moved(r, "fail", req[r].outcome, req[r].leaks \cup {"session"})
        BY <1>5, LeakMoves DEF LoginInv, PCs, Leak
    <2>2. LoginProgress(r)'
        BY <1>1, <1>5, <2>1 DEF LoginInv, LoginProgress, Moved, Early
    <2>. QED
        BY <1>1, <1>2, <1>3, <2>1, <2>2, MoveKeeps
<1>. QED
    BY <1>4, <1>5 DEF RevokeSession

LEMMA LoginFailureKeeps ==
    ASSUME LoginInv, NEW r \in Requests, RecordLoginFailure(r)
    PROVE  LoginInv'
<1>1. req[r].pc = "fail" /\ UNCHANGED <<now, expiry, used, session, resets>>
    BY DEF RecordLoginFailure, At, limiter, captchaState
<1>2. log' \in [Requests -> SUBSET {"intent", "success", "failure"}]
    BY DEF RecordLoginFailure, LoginInv, LoginTyped
<1>3. /\ session' \in [Requests -> {"none", "live", "revoked"}] /\ resets' \in Nat
      /\ Only(r)
    BY <1>1, HandleMovesOne DEF Handle, LoginInv, LoginTyped
<1>4. CASE End(r, "refused") /\ log' = [log EXCEPT ![r] = @ \cup {"failure"}]
    <2>1. Moved(r, "done", "refused", req[r].leaks)
        BY <1>4, EndMoves DEF LoginInv
    <2>2. log'[r] = log[r] \cup {"failure"}
        BY <1>4 DEF LoginInv, LoginTyped
    <2>3. LoginProgress(r)'
        BY <1>1, <2>1, <2>2 DEF LoginInv, LoginProgress, Moved, Early
    <2>. QED
        BY <1>1, <1>2, <1>3, <2>1, <2>3, MoveKeeps
<1>5. CASE /\ req' = [req EXCEPT ![r].pc = "done", ![r].outcome = "refused",
                                 ![r].leaks = @ \cup {"result"}]
           /\ UNCHANGED log
    <2>. DEFINE q == [req[r] EXCEPT !.pc = "done", !.outcome = "refused",
                                    !.leaks = req[r].leaks \cup {"result"}]
    <2>1. req[r] \in LoginRequest
        BY DEF LoginInv, LoginTyped
    <2>2. /\ q \in LoginRequest /\ q.pc = "done" /\ q.outcome = "refused"
          /\ q.leaks = req[r].leaks \cup {"result"}
          /\ q.redeemed = req[r].redeemed /\ q.captcha = req[r].captcha /\ q.seen = req[r].seen
        BY <2>1 DEF LoginRequest, PCs
    <2>3. req' = [req EXCEPT ![r] = q]
        BY <1>5, <2>1 DEF LoginRequest, LoginInv, LoginTyped
    <2>. HIDE DEF q
    <2>4. req'[r] = q /\ req' \in [Requests -> LoginRequest]
        BY <2>2, <2>3 DEF LoginInv, LoginTyped
    <2>5. Moved(r, "done", "refused", req[r].leaks \cup {"result"})
        BY <2>2, <2>4 DEF Moved
    <2>6. LoginProgress(r)'
        BY <1>1, <1>5, <2>5 DEF LoginInv, LoginProgress, Moved, Early
    <2>. QED
        BY <1>1, <1>2, <1>3, <2>5, <2>6, MoveKeeps
<1>. QED
    BY <1>4, <1>5 DEF RecordLoginFailure

LEMMA CheckKeeps ==
    ASSUME LoginInv, NEW r \in Requests, CheckCaptcha(r)
    PROVE  LoginInv'
<1>1. req[r].pc = "captcha" /\ UNCHANGED <<now, expiry, used, session, log, resets>>
    BY DEF CheckCaptcha, At, limiter, captchaState, tables
<1>2. CASE End(r, "refused")
    <2>1. Moved(r, "done", "refused", req[r].leaks)
        BY <1>2, EndMoves DEF LoginInv
    <2>2. LoginProgress(r)'
        BY <1>1, <2>1 DEF LoginInv, LoginProgress, Moved, Early
    <2>3. Handle(r) /\ resets' \in Nat
        BY <1>1 DEF Handle, LoginInv, LoginTyped
    <2>. QED
        BY <1>1, <2>1, <2>2, <2>3, MoveOnly
<1>3. CASE req' = [req EXCEPT ![r].pc = "redeem", ![r].seen = now]
    <2>. DEFINE q == [req[r] EXCEPT !.pc = "redeem", !.seen = now]
    <2>1. req[r] \in LoginRequest /\ now \in Nat
        BY DEF LoginInv, LoginTyped
    <2>2. /\ q \in LoginRequest /\ q.pc = "redeem" /\ q.seen = now /\ q.outcome = req[r].outcome
          /\ q.leaks = req[r].leaks /\ q.redeemed = req[r].redeemed /\ q.captcha = req[r].captcha
        BY <2>1 DEF LoginRequest, PCs
    <2>3. req' = [req EXCEPT ![r] = q]
        BY <1>3
    <2>. HIDE DEF q
    <2>4. req'[r] = q /\ LoginTyped'
        BY <1>1, <2>2, <2>3 DEF LoginInv, LoginTyped
    <2>5. LoginProgress(r)'
        BY <1>1, <2>2, <2>4 DEF LoginInv, LoginProgress, Early
    <2>6. Holds(r)'
        BY <1>1, <2>1, <2>2, <2>4 DEF LoginInv, Holds
    <2>. QED
        BY <1>1, <2>2, <2>4, <2>5, <2>6, HandleMovesOne, PlainStep DEF Handle, LoginInv
<1>. QED
    BY <1>2, <1>3 DEF CheckCaptcha

(* The mutex of the used signatures.  A clock value read before it may     *)
(* drop a signature that the challenge still had when it was redeemed, but *)
(* then the challenge has run out by now and nobody redeems it in time.    *)
LEMMA RedeemKeeps ==
    ASSUME LoginInv, NEW r \in Requests, RedeemCaptcha(r)
    PROVE  LoginInv'
<1>. DEFINE kept == Cleaned(req[r].seen)
<1>1. req[r].pc = "redeem" /\ UNCHANGED <<now, expiry, session, log, resets>>
    BY DEF RedeemCaptcha, At, limiter, tables
<1>2. Only(r)
    BY HandleMovesOne DEF Handle, LoginInv
<1>3. req[r] \in LoginRequest /\ now \in Nat /\ req[r].seen <= now /\ req[r].seen \in Nat
    BY DEF LoginInv, LoginTyped, Holds, LoginRequest
<1>4. kept \subseteq used /\ \A c \in used \ kept : expiry[c] <= now
    BY <1>3 DEF Cleaned, LoginInv, LoginTyped
<1>5. Holds(r) /\ LoginProgress(r) /\ req[r].redeemed = -1
    BY <1>1 DEF LoginInv, Holds
<1>. HIDE DEF kept
<1>6. CASE used' = kept /\ End(r, "refused")
    <2>1. Moved(r, "done", "refused", req[r].leaks)
        BY <1>6, EndMoves DEF LoginInv
    <2>2. LoginTyped'
        BY <1>1, <1>4, <1>6, <2>1 DEF LoginInv, LoginTyped, Moved
    <2>3. LoginProgress(r)'
        BY <1>1, <1>5, <2>1 DEF LoginProgress, Moved, Early
    <2>4. Holds(r)'
        BY <1>1, <1>5, <2>1 DEF Holds, Moved
    <2>5. \A q \in Requests : LoginProgress(q)' /\ Holds(q)'
        BY <1>1, <1>2, <2>3, <2>4 DEF LoginInv, Only, LoginProgress, Holds
    <2>6. ASSUME NEW c \in Captchas
          PROVE  ChallengeKept(c)'
        <3>1. \A q \in Requests : ValidRedeemer(q, c)' => ValidRedeemer(q, c)
            BY <1>1, <1>2, <2>1 DEF Only, ValidRedeemer, Moved
        <3>2. c \in used => c \in used' \/ now >= expiry[c]
            BY <1>3, <1>4, <1>6 DEF LoginInv, LoginTyped
        <3>. QED
            BY <1>1, <3>1, <3>2 DEF LoginInv, ChallengeKept
    <2>. QED
        BY <2>2, <2>5, <2>6 DEF LoginInv
<1>7. CASE /\ req[r].captcha \cap kept = {}
           /\ used' = kept \cup req[r].captcha
           /\ req' = [req EXCEPT ![r].pc = "verify", ![r].seen = 0, ![r].redeemed = now]
    <2>. DEFINE q == [req[r] EXCEPT !.pc = "verify", !.seen = 0, !.redeemed = now]
    <2>0. "verify" \in PCs /\ now \in Int /\ 0 \in Nat
        BY <1>3 DEF PCs
    <2>1. /\ q \in LoginRequest /\ q.pc = "verify" /\ q.seen = 0 /\ q.outcome = req[r].outcome
          /\ q.leaks = req[r].leaks /\ q.redeemed = now /\ q.captcha = req[r].captcha
        BY <1>3, <2>0 DEF LoginRequest
    <2>2. req' = [req EXCEPT ![r] = q]
        BY <1>7
    <2>. HIDE DEF q
    <2>3. req'[r] = q /\ req' \in [Requests -> LoginRequest]
        BY <2>1, <2>2 DEF LoginInv, LoginTyped
    <2>4. req[r].captcha \subseteq Captchas
        BY <1>3 DEF LoginRequest
    <2>5. LoginTyped'
        BY <1>1, <1>4, <1>7, <2>3, <2>4 DEF LoginInv, LoginTyped
    <2>6. LoginProgress(r)'
        BY <1>1, <1>5, <2>1, <2>3 DEF LoginProgress, Early
    <2>7. Holds(r)'
        BY <1>1, <1>3, <1>5, <2>1, <2>3 DEF Holds
    <2>8. \A x \in Requests : LoginProgress(x)' /\ Holds(x)'
        BY <1>1, <1>2, <2>6, <2>7 DEF LoginInv, Only, LoginProgress, Holds
    <2>9. ASSUME NEW c \in Captchas
          PROVE  ChallengeKept(c)'
        <3>1. \A x \in Requests \ {r} : ValidRedeemer(x, c)' <=> ValidRedeemer(x, c)
            BY <1>1, <1>2 DEF Only, ValidRedeemer
        <3>2. ValidRedeemer(r, c)' => c \in used' /\ c \notin kept /\ now < expiry[c]
            BY <1>1, <1>7, <2>1, <2>3 DEF ValidRedeemer
        <3>3. c \in used => c \in used' \/ now >= expiry[c]
            BY <1>3, <1>4, <1>7 DEF LoginInv, LoginTyped
        <3>4. ValidRedeemer(r, c)' => \A x \in Requests : ~ValidRedeemer(x, c)
            BY <1>3, <1>4, <3>2 DEF LoginInv, LoginTyped, ChallengeKept
        <3>. QED
            BY <1>1, <3>1, <3>2, <3>3, <3>4 DEF LoginInv, ChallengeKept
    <2>. QED
        BY <2>5, <2>8, <2>9 DEF LoginInv
<1>. QED
    BY <1>6, <1>7 DEF RedeemCaptcha, kept

LEMMA HandleKeeps ==
    ASSUME LoginInv, NEW r \in Requests, Handle(r)
    PROVE  LoginInv'
BY ArriveKeeps, CheckKeeps, RedeemKeeps, VerifyKeeps, FailureKeeps, IntentKeeps, PersistKeeps,
   CreateSessionKeeps, SuccessKeeps, ResetKeeps, RevokeKeeps, LoginFailureKeeps DEF Handle

LEMMA ChallengeKeeps ==
    ASSUME LoginInv, NEW d \in Captchas, CreateChallenge(d)
    PROVE  LoginInv'
<1>1. expiry[d] = 0 /\ UNCHANGED <<now, used, req, session, log, resets>>
    BY DEF CreateChallenge, limiter, tables
<1>2. now + CaptchaTTL \in Nat /\ now + CaptchaTTL > 0
    BY ConsoleBounds DEF LoginAssumption, LoginInv, LoginTyped
<1>3. /\ expiry' \in [Captchas -> Nat] /\ expiry'[d] > 0
      /\ \A c \in Captchas \ {d} : expiry'[c] = expiry[c]
    BY <1>2 DEF CreateChallenge, LoginInv, LoginTyped
<1>4. LoginTyped'
    BY <1>1, <1>3 DEF LoginInv, LoginTyped
<1>5. \A r \in Requests : req[r].captcha \subseteq Captchas /\ req[r].redeemed \in Int
    BY DEF LoginInv, LoginTyped, LoginRequest
<1>6. \A r \in Requests : LoginProgress(r)' /\ Holds(r)'
    BY <1>1, <1>3, <1>5 DEF LoginInv, LoginProgress, Holds
<1>7. ASSUME NEW c \in Captchas
      PROVE  ChallengeKept(c)'
    <2>1. CASE c # d
        BY <1>1, <1>3, <2>1 DEF LoginInv, ChallengeKept, ValidRedeemer
    <2>2. CASE c = d
        <3>1. \A r \in Requests : ~ValidRedeemer(r, c)'
            BY <1>1, <2>2 DEF LoginInv, Holds, ValidRedeemer
        <3>. QED
            BY <3>1 DEF ChallengeKept
    <2>. QED
        BY <2>1, <2>2
<1>. QED
    BY <1>4, <1>6, <1>7 DEF LoginInv

LEMMA RestartKeeps ==
    ASSUME LoginInv, Restart
    PROVE  LoginInv'
<1>. DEFINE done(r) == [req[r] EXCEPT !.redeemed = -1]
            lost(r) == [req[r] EXCEPT !.pc = "done", !.outcome = "lost", !.redeemed = -1]
<1>1. /\ UNCHANGED <<now, session, log>> /\ used' = {} /\ expiry' = [c \in Captchas |-> 0]
      /\ resets' = resets + 1
      /\ req' = [r \in Requests |-> IF req[r].pc = "new" THEN req[r]
                                    ELSE IF req[r].pc = "done" THEN done(r) ELSE lost(r)]
    BY DEF Restart, tables
<1>2. ASSUME NEW r \in Requests
      PROVE  /\ req'[r] \in LoginRequest /\ req'[r].redeemed = -1
             /\ req'[r].seen = req[r].seen /\ req'[r].leaks = req[r].leaks
             /\ \/ req'[r].pc = req[r].pc /\ req'[r].outcome = req[r].outcome
                   /\ req[r].pc \in {"new", "done"}
                \/ req'[r].pc = "done" /\ req'[r].outcome = "lost"
    <2>1. req[r] \in LoginRequest /\ (req[r].pc = "new" => req[r].redeemed = -1)
        BY DEF LoginInv, LoginTyped, Holds
    <2>2. /\ done(r) \in LoginRequest /\ done(r).redeemed = -1 /\ done(r).seen = req[r].seen
          /\ done(r).leaks = req[r].leaks /\ done(r).pc = req[r].pc
          /\ done(r).outcome = req[r].outcome
        BY <2>1 DEF LoginRequest
    <2>3. /\ lost(r) \in LoginRequest /\ lost(r).redeemed = -1 /\ lost(r).seen = req[r].seen
          /\ lost(r).leaks = req[r].leaks /\ lost(r).pc = "done" /\ lost(r).outcome = "lost"
        <3>1. "done" \in PCs /\ -1 \in Int
            BY DEF PCs
        <3>. QED
            BY <2>1, <3>1 DEF LoginRequest
    <2>4. req'[r] = IF req[r].pc = "new" THEN req[r]
                    ELSE IF req[r].pc = "done" THEN done(r) ELSE lost(r)
        BY <1>1
    <2>. HIDE DEF done, lost
    <2>. QED
        BY <2>1, <2>2, <2>3, <2>4
<1>3. req' \in [Requests -> LoginRequest]
    <2>1. req' = [r \in Requests |-> req'[r]]
        BY <1>1
    <2>. HIDE DEF done, lost
    <2>. QED
        BY <1>2, <2>1
<1>4. LoginTyped'
    <2>. HIDE DEF done, lost
    <2>1. expiry' \in [Captchas -> Nat] /\ used' \in SUBSET Captchas
        BY <1>1
    <2>2. now' \in Nat /\ resets' \in Nat
        <3>1. now' = now /\ resets' = resets + 1
            BY <1>1
        <3>2. now \in Nat /\ resets \in Nat
            BY DEF LoginInv, LoginTyped
        <3>. QED
            BY <3>1, <3>2
    <2>3. UNCHANGED <<session, log>>
        BY <1>1
    <2>. QED
        BY <1>3, <2>1, <2>2, <2>3 DEF LoginInv, LoginTyped
<1>. HIDE DEF done, lost
<1>5. ASSUME NEW r \in Requests
      PROVE  LoginProgress(r)' /\ Holds(r)'
    <2>1. LoginProgress(r)'
        BY <1>1, <1>2 DEF LoginInv, LoginProgress, Early
    <2>2. Holds(r)'
        <3>1. req'[r].pc \notin {"captcha", "redeem"}
            BY <1>2
        <3>. QED
            BY <1>1, <1>2, <3>1 DEF LoginInv, Holds
    <2>. QED
        BY <2>1, <2>2
<1>6. \A c \in Captchas : ChallengeKept(c)'
    BY <1>2 DEF ChallengeKept, ValidRedeemer
<1>. QED
    BY <1>4, <1>5, <1>6 DEF LoginInv

LEMMA LoginInvInit == Init => LoginInv
<1>. SUFFICES ASSUME Init PROVE LoginInv
    OBVIOUS
<1>1. NewRequest \in LoginRequest
    BY DEF NewRequest, LoginRequest, PCs
<1>2. LoginTyped
    BY <1>1 DEF Init, LoginTyped
<1>3. \A r \in Requests : LoginProgress(r) /\ Holds(r)
    BY DEF Init, LoginProgress, Holds, NewRequest, Early
<1>4. \A c \in Captchas : ChallengeKept(c)
    BY DEF Init, ChallengeKept, ValidRedeemer, NewRequest
<1>. QED
    BY <1>2, <1>3, <1>4 DEF LoginInv

LEMMA LoginInvNext == LoginInv /\ [Next]_vars => LoginInv'
<1>. SUFFICES ASSUME LoginInv, [Next]_vars PROVE LoginInv'
    OBVIOUS
<1>1. ASSUME UNCHANGED <<expiry, used, req, session, log, resets>>, now' \in Nat, now' >= now
      PROVE  LoginInv'
    <2>1. LoginTyped'
        BY <1>1 DEF LoginInv, LoginTyped
    <2>2. \A r \in Requests : req[r].seen \in Nat
        BY DEF LoginInv, LoginTyped, LoginRequest
    <2>3. \A r \in Requests : LoginProgress(r)' /\ Holds(r)'
        BY <1>1, <2>2 DEF LoginInv, LoginTyped, LoginProgress, Holds
    <2>4. \A c \in Captchas : ChallengeKept(c)'
        BY <1>1 DEF LoginInv, LoginTyped, ChallengeKept, ValidRedeemer
    <2>. QED
        BY <2>1, <2>3, <2>4 DEF LoginInv
<1>2. CASE ChangeAccount \/ UNCHANGED vars
    BY <1>1, <1>2 DEF ChangeAccount, vars, limiter, captchaState, LoginInv, LoginTyped
<1>3. CASE Tick
    BY <1>1, <1>3 DEF Tick, limiter, captchaState, tables, LoginInv, LoginTyped
<1>. QED
    BY <1>2, <1>3, HandleKeeps, ChallengeKeeps, RestartKeeps DEF Next

LEMMA LoginInvAlways == Spec => []LoginInv
BY LoginInvInit, LoginInvNext, PTL DEF Spec

(* A set with no two elements has at most one.                             *)
LEMMA AtMostOne ==
    ASSUME NEW S, \A x, y \in S : x = y
    PROVE  Cardinality(S) <= 1
<1>1. CASE S = {}
    BY <1>1, FS_EmptySet
<1>2. ASSUME NEW x \in S
      PROVE  Cardinality(S) <= 1
    <2>1. S = {x}
        BY <1>2
    <2>. QED
        BY <2>1, FS_Singleton
<1>. QED
    BY <1>1, <1>2

(* A login leaves what its outcome says, whatever database call fails and  *)
(* wherever the process stops: no session row without the intent, no       *)
(* cookie without the success, no live session after an error, a result    *)
(* for every intent; and a challenge that has not run out is redeemed by   *)
(* one request, in whatever order the requests reach the mutex.            *)
THEOREM LoginCorrect == Spec => []LoginAccounted
<1>1. ASSUME LoginInv
      PROVE  LoginAccounted
    <2>1. LoginIsAudited /\ RefusedLeavesNoSession /\ IntentGetsResult
        BY <1>1 DEF LoginInv, LoginProgress, LoginIsAudited, RefusedLeavesNoSession,
           IntentGetsResult
    <2>2. ASSUME NEW c \in Captchas
          PROVE  Cardinality({r \in Redeemers(c) : req[r].redeemed < expiry[c]}) <= 1
        <3>. DEFINE S == {r \in Redeemers(c) : req[r].redeemed < expiry[c]}
        <3>1. \A x, y \in S : x = y
            BY <1>1 DEF LoginInv, ChallengeKept, ValidRedeemer, Redeemers
        <3>. HIDE DEF S
        <3>2. Cardinality(S) <= 1
            BY <3>1, AtMostOne
        <3>. QED
            BY <3>2 DEF S
    <2>. QED
        BY <2>1, <2>2 DEF LoginAccounted, OneRedemptionWhileValid
<1>. QED
    BY <1>1, LoginInvAlways, PTL

-----------------------------------------------------------------------------
(* Browser sessions *)

WebRequest ==
    [pc : Web!PCs, kind : Web!Kinds, session : SUBSET Sessions, ticket : SUBSET Tickets,
     seen : Nat, late : BOOLEAN, barred : BOOLEAN, ran : BOOLEAN, fault : BOOLEAN]

TicketRow ==
    [state : {"none", "open", "consumed"}, session : SUBSET Sessions, expires : Nat,
     winners : SUBSET Requests]

WebTyped ==
    /\ webNow \in Nat
    /\ webUsable \in BOOLEAN
    /\ revoked \in SUBSET Sessions
    /\ ticket \in [Tickets -> TicketRow]
    /\ webReq \in [Requests -> WebRequest]
    /\ webLog \in [Requests -> SUBSET {"intent", "result"}]
    /\ audit \in [Requests -> {"none", "started", "ended"}]
    /\ online \in SUBSET Requests /\ cut \in SUBSET Requests

(* What q has done and what is known of it, by the place it has reached;   *)
(* l and a are its audit rows.                                             *)
WebProgress(q, l, a) ==
    /\ q.pc = "new" => ~q.late /\ ~q.barred /\ ~q.fault
    /\ q.pc \in {"handler", "result"} => "intent" \in l
    /\ q.ran => q.pc \in {"result", "done", "lost"} /\ "intent" \in l
    /\ q.ran /\ q.pc = "done" /\ ~q.fault => "result" \in l
    /\ q.pc \in {"record", "register", "relay", "end"} => a = "started"
    /\ q.pc \notin {"record", "register", "relay", "end", "done", "lost"} => a = "none"
    /\ q.pc = "done" /\ ~q.fault => a # "started"

(* A session that was revoked before the request looked it up, or a user   *)
(* that was barred when it came: both stay so, and the request gets no     *)
(* further than its check.                                                 *)
WebBarred(q, a) ==
    /\ q.late => q.session \subseteq revoked /\ ~q.ran /\ q.pc \in {"auth", "consume", "done", "lost"}
    /\ q.barred => /\ ~webUsable /\ ~q.ran /\ a = "none"
                   /\ q.pc \in {"auth", "identity", "consume", "subject", "done", "lost"}

(* What q carries: a session, and the ticket that was issued for it.       *)
WebCarries(q) ==
    /\ q.pc \in {"auth", "identity", "intent", "handler"} => q.session # {}
    /\ q.pc = "consume" =>
          \A t \in q.ticket : ticket[t].state # "none" /\ ticket[t].session = q.session

(* A ticket is won once, by a request that was not late.                   *)
TicketWon(t) ==
    /\ ticket[t].state # "none" => ticket[t].session # {}
    /\ ticket[t].state # "consumed" => ticket[t].winners = {}
    /\ \A r, q \in ticket[t].winners : r = q
    /\ \A r \in ticket[t].winners :
          webReq[r].pc \notin {"new", "auth", "consume"} /\ ~webReq[r].late
    /\ ticket[t].state = "consumed" /\ ticket[t].winners = {} =>
          \E r \in Requests : webReq[r].pc # "new" /\ t \in webReq[r].ticket /\ webReq[r].fault

WebInv ==
    /\ WebTyped
    /\ \A r \in Requests : /\ WebProgress(webReq[r], webLog[r], audit[r])
                            /\ WebBarred(webReq[r], audit[r])
                            /\ WebCarries(webReq[r])
    /\ \A t \in Tickets : TicketWon(t)
    /\ \A r \in online : webReq[r].pc = "relay"

-----------------------------------------------------------------------------
Good(r) == /\ WebProgress(webReq[r], webLog[r], audit[r])
           /\ WebBarred(webReq[r], audit[r])
           /\ WebCarries(webReq[r])

WebOnly(r) ==
    \A q \in Requests \ {r} :
        webReq'[q] = webReq[q] /\ webLog'[q] = webLog[q] /\ audit'[q] = audit[q]

LEMMA SameRequests == Web!Requests = Requests
BY DEF Web!Requests, Requests

(* The steps of a request that change no other one: all but its logout.    *)
OwnStep(r) ==
    \/ Web!Authenticate(r) \/ Web!FindIdentity(r) \/ Web!RecordIntent(r) \/ Web!Handler(r)
    \/ Web!RecordResult(r) \/ Web!ConsumeTicket(r) \/ Web!FindSubject(r) \/ Web!DialTarget(r)
    \/ Web!StartAudit(r) \/ Web!StartRecorder(r) \/ Web!Register(r) \/ Web!EndAudit(r)

LEMMA WebMovesOne ==
    ASSUME WebTyped, NEW r \in Requests, Web!Arrive(r) \/ OwnStep(r) \/ Web!LeaveRelay(r)
    PROVE  WebOnly(r)
<1>1. CASE Web!Arrive(r)
    BY <1>1 DEF WebTyped, WebOnly, Web!Arrive, Web!rows
<1>2. CASE Web!Authenticate(r) \/ Web!FindIdentity(r) \/ Web!FindSubject(r) \/ Web!DialTarget(r)
           \/ Web!StartRecorder(r) \/ Web!Register(r) \/ Web!LeaveRelay(r)
    BY <1>2 DEF WebTyped, WebOnly, Web!rows, Web!Authenticate, Web!FindIdentity, Web!FindSubject,
       Web!DialTarget, Web!StartRecorder, Web!Register, Web!LeaveRelay, Web!Goto, Web!Failed
<1>3. CASE Web!RecordIntent(r) \/ Web!RecordResult(r) \/ Web!StartAudit(r) \/ Web!EndAudit(r)
    BY <1>3 DEF WebTyped, WebOnly, Web!RecordIntent, Web!RecordResult, Web!StartAudit,
       Web!EndAudit, Web!Goto, Web!Failed
<1>4. CASE Web!Handler(r)
    BY <1>4 DEF WebTyped, WebOnly, Web!Handler, Web!Ran, Web!Failed
<1>5. CASE Web!ConsumeTicket(r)
    BY <1>5 DEF WebTyped, WebOnly, Web!ConsumeTicket, Web!Goto, Web!Failed
<1>. QED
    BY <1>1, <1>2, <1>3, <1>4, <1>5 DEF OwnStep

(* A step of r that leaves the tickets alone.                              *)
LEMMA WebPlain ==
    ASSUME WebInv, NEW r \in Requests, WebOnly(r), WebTyped', Good(r)',
           revoked \subseteq revoked', UNCHANGED <<webUsable, ticket>>, webReq'[r].pc # "new",
           webReq[r].pc # "new" => /\ webReq'[r].late = webReq[r].late
                                   /\ webReq'[r].ticket = webReq[r].ticket
                                   /\ webReq'[r].pc \notin {"auth", "consume"}
                                   /\ webReq[r].fault => webReq'[r].fault,
           \A q \in online' : webReq'[q].pc = "relay"
    PROVE  WebInv'
<1>1. ASSUME NEW q \in Requests
      PROVE  Good(q)'
    <2>1. CASE q = r
        BY <2>1
    <2>2. CASE q # r
        <3>1. webReq'[q] = webReq[q] /\ webLog'[q] = webLog[q] /\ audit'[q] = audit[q] /\ Good(q)
            BY <2>2 DEF WebOnly, WebInv, Good
        <3>2. WebProgress(webReq[q], webLog[q], audit[q])'
            BY <3>1 DEF Good, WebProgress
        <3>3. WebBarred(webReq[q], audit[q])' /\ WebCarries(webReq[q])'
            BY <3>1 DEF Good, WebBarred, WebCarries
        <3>. QED
            BY <3>2, <3>3 DEF Good
    <2>. QED
        BY <2>1, <2>2
<1>2. ASSUME NEW t \in Tickets
      PROVE  TicketWon(t)'
    <2>1. TicketWon(t) /\ ticket[t].winners \subseteq Requests
        BY DEF WebInv, WebTyped, TicketRow
    <2>2. \A q \in Requests \ {r} : webReq'[q] = webReq[q]
        BY DEF WebOnly
    <2>. QED
        BY <2>1, <2>2 DEF TicketWon
<1>. QED
    BY <1>1, <1>2 DEF WebInv, Good

(* The handler of r stands at p now, with ran and fault as given.          *)
WebMoved(r, p, ran, fault) ==
    /\ webReq' \in [Requests -> WebRequest]
    /\ webReq'[r].pc = p /\ webReq'[r].ran = ran /\ webReq'[r].fault = fault
    /\ webReq'[r].session = webReq[r].session /\ webReq'[r].ticket = webReq[r].ticket
    /\ webReq'[r].late = webReq[r].late /\ webReq'[r].barred = webReq[r].barred

LEMMA WebMoves ==
    ASSUME WebTyped, NEW r \in Requests, NEW p \in Web!PCs
    PROVE  /\ Web!Goto(r, p) => WebMoved(r, p, webReq[r].ran, webReq[r].fault)
           /\ Web!Failed(r, p) => WebMoved(r, p, webReq[r].ran, TRUE)
           /\ Web!Ran(r) => WebMoved(r, "result", TRUE, webReq[r].fault)
<1>1. webReq[r] \in WebRequest
    BY DEF WebTyped
<1>2. ASSUME NEW q \in WebRequest, webReq' = [webReq EXCEPT ![r] = q]
      PROVE  webReq'[r] = q /\ webReq' \in [Requests -> WebRequest]
    BY <1>2 DEF WebTyped
<1>3. ASSUME Web!Goto(r, p)
      PROVE  WebMoved(r, p, webReq[r].ran, webReq[r].fault)
    <2>. DEFINE q == [webReq[r] EXCEPT !.pc = p]
    <2>1. /\ q \in WebRequest /\ q.pc = p /\ q.ran = webReq[r].ran /\ q.fault = webReq[r].fault
          /\ q.session = webReq[r].session /\ q.ticket = webReq[r].ticket
          /\ q.late = webReq[r].late /\ q.barred = webReq[r].barred
        BY <1>1 DEF WebRequest
    <2>2. webReq' = [webReq EXCEPT ![r] = q]
        BY <1>3 DEF Web!Goto
    <2>. HIDE DEF q
    <2>3. webReq'[r] = q /\ webReq' \in [Requests -> WebRequest]
        BY <1>2, <2>1, <2>2
    <2>. QED
        BY <2>1, <2>3 DEF WebMoved
<1>4. ASSUME Web!Failed(r, p)
      PROVE  WebMoved(r, p, webReq[r].ran, TRUE)
    <2>. DEFINE q == [webReq[r] EXCEPT !.pc = p, !.fault = TRUE]
    <2>1. /\ q \in WebRequest /\ q.pc = p /\ q.ran = webReq[r].ran /\ q.fault = TRUE
          /\ q.session = webReq[r].session /\ q.ticket = webReq[r].ticket
          /\ q.late = webReq[r].late /\ q.barred = webReq[r].barred
        BY <1>1 DEF WebRequest
    <2>2. webReq' = [webReq EXCEPT ![r] = q]
        BY <1>4 DEF Web!Failed
    <2>. HIDE DEF q
    <2>3. webReq'[r] = q /\ webReq' \in [Requests -> WebRequest]
        BY <1>2, <2>1, <2>2
    <2>. QED
        BY <2>1, <2>3 DEF WebMoved
<1>5. ASSUME Web!Ran(r)
      PROVE  WebMoved(r, "result", TRUE, webReq[r].fault)
    <2>. DEFINE q == [webReq[r] EXCEPT !.pc = "result", !.ran = TRUE]
    <2>0. "result" \in Web!PCs
        BY DEF Web!PCs
    <2>1. /\ q \in WebRequest /\ q.pc = "result" /\ q.ran = TRUE /\ q.fault = webReq[r].fault
          /\ q.session = webReq[r].session /\ q.ticket = webReq[r].ticket
          /\ q.late = webReq[r].late /\ q.barred = webReq[r].barred
        BY <1>1, <2>0 DEF WebRequest
    <2>2. webReq' = [webReq EXCEPT ![r] = q]
        BY <1>5 DEF Web!Ran
    <2>. HIDE DEF q
    <2>3. webReq'[r] = q /\ webReq' \in [Requests -> WebRequest]
        BY <1>2, <2>1, <2>2
    <2>. QED
        BY <2>1, <2>3 DEF WebMoved
<1>. QED
    BY <1>3, <1>4, <1>5

(* A step that moves the handler and may write an audit row.               *)
LEMMA WebMoveKeeps ==
    ASSUME WebInv, NEW r \in Requests, WebOnly(r), webReq[r].pc \notin {"new", "relay"},
           NEW p, p \notin {"new", "auth", "consume"}, NEW ran, NEW fault, WebMoved(r, p, ran, fault),
           webReq[r].fault => fault, Good(r)',
           webLog' \in [Requests -> SUBSET {"intent", "result"}],
           audit' \in [Requests -> {"none", "started", "ended"}],
           UNCHANGED <<webNow, webUsable, revoked, ticket, online, cut>>
    PROVE  WebInv'
<1>1. WebTyped'
    BY DEF WebInv, WebTyped, WebMoved
<1>2. \A q \in online' : webReq'[q].pc = "relay"
    BY DEF WebInv, WebTyped, WebOnly
<1>. QED
    BY <1>1, <1>2, WebPlain DEF WebMoved

(* The steps that only read.                                               *)
LEMMA WebReads ==
    ASSUME WebInv, NEW r \in Requests,
           Web!Authenticate(r) \/ Web!FindIdentity(r) \/ Web!FindSubject(r) \/ Web!DialTarget(r)
               \/ Web!StartRecorder(r)
    PROVE  WebInv'
<1>1. WebOnly(r)
    BY WebMovesOne DEF OwnStep, WebInv
<1>2. UNCHANGED <<webNow, webUsable, revoked, ticket, webLog, audit, online, cut>>
    BY DEF Web!Authenticate, Web!FindIdentity, Web!FindSubject, Web!DialTarget, Web!StartRecorder,
       Web!rows, Web!registry
<1>3. /\ webLog' \in [Requests -> SUBSET {"intent", "result"}]
      /\ audit' \in [Requests -> {"none", "started", "ended"}]
    BY <1>2 DEF WebInv, WebTyped
<1>4. Good(r)
    BY DEF WebInv, Good
<1>5. CASE Web!Authenticate(r)
    <2>1. webReq[r].pc = "auth"
        BY <1>5 DEF Web!Authenticate, Web!At
    <2>2. PICK p \in {"identity", "done"}, f \in {webReq[r].fault, TRUE} :
              /\ WebMoved(r, p, webReq[r].ran, f)
              /\ p = "identity" => \E s \in webReq[r].session : s \notin revoked
        <3>1. \/ Web!Goto(r, "done") \/ Web!Failed(r, "done")
              \/ Web!Goto(r, "identity") /\ \E s \in webReq[r].session : s \notin revoked
            BY <1>5 DEF Web!Authenticate, Web!ActiveSession
        <3>. QED
            BY <3>1, WebMoves DEF WebInv, Web!PCs
    <2>3. Good(r)'
        BY <1>2, <1>4, <2>1, <2>2 DEF Good, WebProgress, WebBarred, WebCarries, WebMoved
    <2>. QED
        BY <1>1, <1>2, <1>3, <2>1, <2>2, <2>3, WebMoveKeeps
<1>6. CASE Web!FindIdentity(r)
    <2>1. webReq[r].pc = "identity"
        BY <1>6 DEF Web!FindIdentity, Web!At
    <2>2. PICK p \in {"intent", "done"}, f \in {webReq[r].fault, TRUE} :
              WebMoved(r, p, webReq[r].ran, f) /\ (p = "intent" => webUsable)
        <3>1. \/ Web!Goto(r, "done") \/ Web!Failed(r, "done")
              \/ Web!Goto(r, "intent") /\ webUsable
            BY <1>6 DEF Web!FindIdentity
        <3>. QED
            BY <3>1, WebMoves DEF WebInv, Web!PCs
    <2>3. Good(r)'
        BY <1>2, <1>4, <2>1, <2>2 DEF Good, WebProgress, WebBarred, WebCarries, WebMoved
    <2>. QED
        BY <1>1, <1>2, <1>3, <2>1, <2>2, <2>3, WebMoveKeeps
<1>7. CASE Web!FindSubject(r)
    <2>1. webReq[r].pc = "subject"
        BY <1>7 DEF Web!FindSubject, Web!At
    <2>2. PICK p \in {"dial", "done"}, f \in {webReq[r].fault, TRUE} :
              WebMoved(r, p, webReq[r].ran, f) /\ (p = "dial" => webUsable)
        <3>1. \/ Web!Goto(r, "done") \/ Web!Failed(r, "done")
              \/ Web!Goto(r, "dial") /\ webUsable
            BY <1>7 DEF Web!FindSubject
        <3>. QED
            BY <3>1, WebMoves DEF WebInv, Web!PCs
    <2>3. Good(r)'
        BY <1>2, <1>4, <2>1, <2>2 DEF Good, WebProgress, WebBarred, WebCarries, WebMoved
    <2>. QED
        BY <1>1, <1>2, <1>3, <2>1, <2>2, <2>3, WebMoveKeeps
<1>8. CASE Web!DialTarget(r)
    <2>1. webReq[r].pc = "dial"
        BY <1>8 DEF Web!DialTarget, Web!At
    <2>2. PICK p \in {"start", "done"} : WebMoved(r, p, webReq[r].ran, webReq[r].fault)
        BY <1>8, WebMoves DEF Web!DialTarget, WebInv, Web!PCs
    <2>3. Good(r)'
        BY <1>2, <1>4, <2>1, <2>2 DEF Good, WebProgress, WebBarred, WebCarries, WebMoved
    <2>. QED
        BY <1>1, <1>2, <1>3, <2>1, <2>2, <2>3, WebMoveKeeps
<1>9. CASE Web!StartRecorder(r)
    <2>1. webReq[r].pc = "record"
        BY <1>9 DEF Web!StartRecorder, Web!At
    <2>2. PICK p \in {"register", "end"} : WebMoved(r, p, webReq[r].ran, webReq[r].fault)
        BY <1>9, WebMoves DEF Web!StartRecorder, WebInv, Web!PCs
    <2>3. Good(r)'
        BY <1>2, <1>4, <2>1, <2>2 DEF Good, WebProgress, WebBarred, WebCarries, WebMoved
    <2>. QED
        BY <1>1, <1>2, <1>3, <2>1, <2>2, <2>3, WebMoveKeeps
<1>. QED
    BY <1>5, <1>6, <1>7, <1>8, <1>9

(* The steps that write an audit row, or fail to.                          *)
LEMMA WebWrites ==
    ASSUME WebInv, NEW r \in Requests,
           Web!RecordIntent(r) \/ Web!RecordResult(r) \/ Web!StartAudit(r) \/ Web!EndAudit(r)
    PROVE  WebInv'
<1>1. WebOnly(r)
    BY WebMovesOne DEF OwnStep, WebInv
<1>2. UNCHANGED <<webNow, webUsable, revoked, ticket, online, cut>>
    BY DEF Web!RecordIntent, Web!RecordResult, Web!StartAudit, Web!EndAudit, Web!registry
<1>3. /\ webLog' \in [Requests -> SUBSET {"intent", "result"}]
      /\ audit' \in [Requests -> {"none", "started", "ended"}]
    BY DEF WebInv, WebTyped, Web!RecordIntent, Web!RecordResult, Web!StartAudit, Web!EndAudit
<1>4. Good(r)
    BY DEF WebInv, Good
<1>5. CASE Web!RecordIntent(r)
    <2>1. webReq[r].pc = "intent" /\ UNCHANGED audit
        BY <1>5 DEF Web!RecordIntent, Web!At
    <2>2. \/ WebMoved(r, "handler", webReq[r].ran, webReq[r].fault) /\ webLog'[r] = webLog[r] \cup {"intent"}
          \/ WebMoved(r, "done", webReq[r].ran, TRUE) /\ UNCHANGED webLog
        BY <1>5, WebMoves DEF Web!RecordIntent, WebInv, WebTyped, Web!PCs
    <2>3. Good(r)'
        BY <1>2, <1>4, <2>1, <2>2 DEF Good, WebProgress, WebBarred, WebCarries, WebMoved
    <2>. QED
        BY <1>1, <1>2, <1>3, <2>1, <2>2, <2>3, WebMoveKeeps
<1>6. CASE Web!RecordResult(r)
    <2>1. webReq[r].pc = "result" /\ UNCHANGED audit
        BY <1>6 DEF Web!RecordResult, Web!At
    <2>2. \/ WebMoved(r, "done", webReq[r].ran, webReq[r].fault) /\ webLog'[r] = webLog[r] \cup {"result"}
          \/ WebMoved(r, "done", webReq[r].ran, TRUE) /\ UNCHANGED webLog
        BY <1>6, WebMoves DEF Web!RecordResult, WebInv, WebTyped, Web!PCs
    <2>3. Good(r)'
        BY <1>2, <1>4, <2>1, <2>2 DEF Good, WebProgress, WebBarred, WebCarries, WebMoved
    <2>. QED
        BY <1>1, <1>2, <1>3, <2>1, <2>2, <2>3, WebMoveKeeps
<1>7. CASE Web!StartAudit(r)
    <2>1. webReq[r].pc = "start" /\ UNCHANGED webLog
        BY <1>7 DEF Web!StartAudit, Web!At
    <2>2. \/ WebMoved(r, "record", webReq[r].ran, webReq[r].fault) /\ audit'[r] = "started"
          \/ WebMoved(r, "done", webReq[r].ran, TRUE) /\ UNCHANGED audit
        BY <1>7, WebMoves DEF Web!StartAudit, WebInv, WebTyped, Web!PCs
    <2>3. Good(r)'
        BY <1>2, <1>4, <2>1, <2>2 DEF Good, WebProgress, WebBarred, WebCarries, WebMoved
    <2>. QED
        BY <1>1, <1>2, <1>3, <2>1, <2>2, <2>3, WebMoveKeeps
<1>8. CASE Web!EndAudit(r)
    <2>1. webReq[r].pc = "end" /\ UNCHANGED webLog
        BY <1>8 DEF Web!EndAudit, Web!At
    <2>2. \/ WebMoved(r, "done", webReq[r].ran, webReq[r].fault) /\ audit'[r] = "ended"
          \/ WebMoved(r, "done", webReq[r].ran, TRUE) /\ UNCHANGED audit
        BY <1>8, WebMoves DEF Web!EndAudit, WebInv, WebTyped, Web!PCs
    <2>3. Good(r)'
        BY <1>2, <1>4, <2>1, <2>2 DEF Good, WebProgress, WebBarred, WebCarries, WebMoved
    <2>. QED
        BY <1>1, <1>2, <1>3, <2>1, <2>2, <2>3, WebMoveKeeps
<1>. QED
    BY <1>5, <1>6, <1>7, <1>8

LEMMA RegisterKeeps ==
    ASSUME WebInv, NEW r \in Requests, Web!Register(r) \/ Web!LeaveRelay(r)
    PROVE  WebInv'
<1>1. WebOnly(r)
    BY WebMovesOne DEF OwnStep, WebInv
<1>2. UNCHANGED <<webNow, webUsable, revoked, ticket, webLog, audit, cut>>
    BY DEF Web!Register, Web!LeaveRelay, Web!rows
<1>3. Good(r)
    BY DEF WebInv, Good
<1>4. PICK p \in {"relay", "end"} :
          /\ WebMoved(r, p, webReq[r].ran, webReq[r].fault)
          /\ webReq[r].pc \in {"register", "relay"}
          /\ online' \subseteq online \cup {r} /\ (p = "end" => r \notin online')
    BY WebMoves DEF Web!Register, Web!LeaveRelay, Web!At, WebInv, Web!PCs
<1>5. Good(r)'
    BY <1>2, <1>3, <1>4 DEF Good, WebProgress, WebBarred, WebCarries, WebMoved
<1>6. WebTyped'
    BY <1>2, <1>4 DEF WebInv, WebTyped, WebMoved
<1>7. \A q \in online' : webReq'[q].pc = "relay"
    BY <1>1, <1>4 DEF WebInv, WebTyped, WebOnly, WebMoved
<1>. QED
    BY <1>1, <1>2, <1>4, <1>5, <1>6, <1>7, WebPlain DEF WebMoved

(* A request that arrives.                                                 *)
LEMMA WebArrives ==
    ASSUME WebInv, NEW r \in Requests, Web!Arrive(r)
    PROVE  WebInv'
<1>1. WebOnly(r) /\ webReq[r].pc = "new"
    BY WebMovesOne DEF WebInv, Web!Arrive, Web!At
<1>2. UNCHANGED <<webNow, webUsable, revoked, ticket, webLog, audit, online, cut>>
    BY DEF Web!Arrive, Web!rows, Web!registry
<1>3. webReq[r] \in WebRequest /\ Good(r) /\ webNow \in Nat /\ webUsable \in BOOLEAN
    BY DEF WebInv, WebTyped, Good
<1>4. \A q \in online' : q # r
    BY <1>1, <1>2 DEF WebInv
<1>5. ASSUME NEW q \in WebRequest, webReq' = [webReq EXCEPT ![r] = q], q.pc \in {"auth", "consume"},
             q.ran = webReq[r].ran, q.fault = webReq[r].fault, q.session # {},
             q.late => q.session \subseteq revoked, q.barred => ~webUsable,
             q.pc = "consume" =>
                 \A t \in q.ticket : ticket[t].state # "none" /\ ticket[t].session = q.session
      PROVE  WebInv'
    <2>1. webReq'[r] = q /\ WebTyped'
        BY <1>2, <1>5 DEF WebInv, WebTyped
    <2>2. Good(r)'
        BY <1>1, <1>2, <1>3, <1>5, <2>1 DEF Good, WebProgress, WebBarred, WebCarries
    <2>3. \A x \in online' : webReq'[x].pc = "relay"
        BY <1>1, <1>2, <1>4 DEF WebInv, WebTyped, WebOnly
    <2>. QED
        BY <1>1, <1>2, <1>5, <2>1, <2>2, <2>3, WebPlain
<1>6. ASSUME NEW k \in Web!Kinds \ {"connect"}, NEW s \in Sessions,
             webReq' = [webReq EXCEPT ![r] = [@ EXCEPT !.pc = "auth", !.kind = k, !.session = {s},
                                              !.late = s \in revoked, !.barred = ~webUsable]]
      PROVE  WebInv'
    <2>. DEFINE l == s \in revoked
                b == ~webUsable
                q == [webReq[r] EXCEPT !.pc = "auth", !.kind = k, !.session = {s}, !.late = l,
                                       !.barred = b]
    <2>1. l \in BOOLEAN /\ b \in BOOLEAN /\ "auth" \in Web!PCs /\ {s} \in SUBSET Sessions
          /\ k \in Web!Kinds
        BY DEF Web!PCs
    <2>2. webReq' = [webReq EXCEPT ![r] = q]
        BY <1>6
    <2>3. (l => {s} \subseteq revoked) /\ (b => ~webUsable)
        OBVIOUS
    <2>. HIDE DEF l, b
    <2>4. q \in WebRequest
        BY <1>3, <2>1 DEF WebRequest
    <2>5. q.pc = "auth" /\ q.ran = webReq[r].ran /\ q.fault = webReq[r].fault /\ q.session = {s}
          /\ q.late = l /\ q.barred = b
        BY <1>3 DEF WebRequest
    <2>. HIDE DEF q
    <2>. QED
        BY <1>5, <2>2, <2>3, <2>4, <2>5
<1>7. ASSUME NEW t \in Tickets, ticket[t].state # "none",
             webReq' = [webReq EXCEPT ![r] =
                          [@ EXCEPT !.pc = "consume", !.kind = "connect", !.ticket = {t},
                                    !.session = ticket[t].session, !.seen = webNow,
                                    !.late = ticket[t].session \subseteq revoked,
                                    !.barred = ~webUsable]]
      PROVE  WebInv'
    <2>. DEFINE l == ticket[t].session \subseteq revoked
                b == ~webUsable
                q == [webReq[r] EXCEPT !.pc = "consume", !.kind = "connect", !.ticket = {t},
                                       !.session = ticket[t].session, !.seen = webNow,
                                       !.late = l, !.barred = b]
    <2>1. l \in BOOLEAN /\ b \in BOOLEAN /\ "consume" \in Web!PCs /\ "connect" \in Web!Kinds
          /\ {t} \in SUBSET Tickets
        BY DEF Web!PCs, Web!Kinds
    <2>2. webReq' = [webReq EXCEPT ![r] = q]
        BY <1>7
    <2>3. (l => ticket[t].session \subseteq revoked) /\ (b => ~webUsable)
        OBVIOUS
    <2>4. ticket[t].session \in SUBSET Sessions /\ ticket[t].session # {}
        BY <1>7 DEF WebInv, WebTyped, TicketRow, TicketWon
    <2>. HIDE DEF l, b
    <2>5. q \in WebRequest
        BY <1>3, <2>1, <2>4 DEF WebRequest
    <2>6. q.pc = "consume" /\ q.ran = webReq[r].ran /\ q.fault = webReq[r].fault
          /\ q.session = ticket[t].session /\ q.late = l /\ q.barred = b /\ q.ticket = {t}
        BY <1>3 DEF WebRequest
    <2>. HIDE DEF q
    <2>. QED
        BY <1>5, <1>7, <2>2, <2>3, <2>4, <2>5, <2>6
<1>. QED
    BY <1>6, <1>7 DEF Web!Arrive

-----------------------------------------------------------------------------
(* A step of r that revokes, issues or consumes.                           *)
LEMMA WebChanges ==
    ASSUME WebInv, NEW r \in Requests, WebOnly(r), webReq[r].pc \notin {"new", "relay"},
           NEW p, NEW ran, NEW fault, WebMoved(r, p, ran, fault), Good(r)',
           revoked \subseteq revoked', revoked' \in SUBSET Sessions,
           UNCHANGED <<webNow, webUsable, webLog, audit, online, cut>>,
           ticket' \in [Tickets -> TicketRow],
           \A t \in Tickets : ticket[t].state # "none" =>
               ticket'[t].state # "none" /\ ticket'[t].session = ticket[t].session,
           \A t \in Tickets : TicketWon(t)'
    PROVE  WebInv'
<1>1. WebTyped'
    BY DEF WebInv, WebTyped, WebMoved
<1>2. \A q \in online' : webReq'[q].pc = "relay"
    BY DEF WebInv, WebTyped, WebOnly
<1>3. ASSUME NEW q \in Requests
      PROVE  Good(q)'
    <2>1. CASE q = r
        BY <2>1
    <2>2. CASE q # r
        <3>1. webReq'[q] = webReq[q] /\ webLog'[q] = webLog[q] /\ audit'[q] = audit[q] /\ Good(q)
            BY <2>2 DEF WebOnly, WebInv, Good
        <3>2. webReq[q].ticket \subseteq Tickets
            BY DEF WebInv, WebTyped, WebRequest
        <3>3. WebProgress(webReq[q], webLog[q], audit[q])'
            BY <3>1 DEF Good, WebProgress
        <3>4. WebBarred(webReq[q], audit[q])'
            BY <3>1 DEF Good, WebBarred
        <3>5. WebCarries(webReq[q])'
            BY <3>1, <3>2 DEF Good, WebCarries
        <3>. QED
            BY <3>3, <3>4, <3>5 DEF Good
    <2>. QED
        BY <2>1, <2>2
<1>. QED
    BY <1>1, <1>2, <1>3 DEF WebInv, Good

(* A ticket that r leaves alone stays as it is.                            *)
LEMMA TicketStays ==
    ASSUME WebInv, NEW r \in Requests, WebOnly(r), webReq[r].pc # "new",
           NEW p, p \notin {"new", "auth", "consume"}, NEW ran, NEW fault, WebMoved(r, p, ran, fault),
           webReq[r].fault => fault, NEW t \in Tickets, ticket'[t] = ticket[t]
    PROVE  TicketWon(t)'
<1>1. TicketWon(t) /\ ticket[t].winners \subseteq Requests
    BY DEF WebInv, WebTyped, TicketRow
<1>2. \A q \in Requests \ {r} : webReq'[q] = webReq[q]
    BY DEF WebOnly
<1>3. webReq'[r].pc \notin {"new", "auth", "consume"} /\ webReq'[r].late = webReq[r].late
      /\ webReq'[r].ticket = webReq[r].ticket /\ (webReq[r].fault => webReq'[r].fault)
    BY DEF WebMoved
<1>. QED
    BY <1>1, <1>2, <1>3 DEF TicketWon

LEMMA HandlerKeeps ==
    ASSUME WebInv, NEW r \in Requests, Web!Handler(r)
    PROVE  WebInv'
<1>1. WebOnly(r) /\ webReq[r].pc = "handler"
    BY WebMovesOne DEF OwnStep, WebInv, Web!Handler, Web!At
<1>2. UNCHANGED <<webNow, webUsable, webLog, audit, online, cut>>
    BY DEF Web!Handler, Web!registry
<1>3. webReq[r] \in WebRequest /\ Good(r) /\ webReq[r].session # {}
    BY <1>1 DEF WebInv, WebTyped, Good, WebCarries
<1>4. webReq[r].session \in SUBSET Sessions
    BY <1>3 DEF WebRequest
<1>5. revoked \subseteq revoked' /\ revoked' \in SUBSET Sessions
    BY <1>4 DEF Web!Handler, WebInv, WebTyped
<1>6. PICK ran \in {TRUE, webReq[r].ran}, f \in {TRUE, webReq[r].fault} :
          WebMoved(r, "result", ran, f)
    BY WebMoves DEF Web!Handler, WebInv, Web!PCs
<1>7. Good(r)'
    BY <1>1, <1>2, <1>3, <1>6 DEF Good, WebProgress, WebBarred, WebCarries, WebMoved
<1>8. CASE UNCHANGED ticket
    <2>1. \A t \in Tickets : TicketWon(t)'
        BY <1>1, <1>6, <1>8, TicketStays
    <2>2. ticket' \in [Tickets -> TicketRow]
        BY <1>8 DEF WebInv, WebTyped
    <2>. QED
        BY <1>1, <1>2, <1>5, <1>6, <1>7, <1>8, <2>1, <2>2, WebChanges
<1>9. ASSUME NEW t \in Tickets, ticket[t] = Web!NoTicket,
             ticket' = [ticket EXCEPT ![t] =
                  [@ EXCEPT !.state = "open", !.session = webReq[r].session,
                            !.expires = Web!TicketExpiry]]
      PROVE  WebInv'
    <2>. DEFINE row == [ticket[t] EXCEPT !.state = "open", !.session = webReq[r].session,
                                         !.expires = Web!TicketExpiry]
    <2>1. Web!TicketExpiry \in Nat
        BY ConsoleBounds DEF Web!TicketExpiry, Web!WebSessionAssumption, WebInv, WebTyped
    <2>2. ticket[t] \in TicketRow /\ ticket[t].winners = {} /\ ticket[t].state = "none"
        <3>1. ticket[t] = Web!NoTicket
            BY <1>9
        <3>2. Web!NoTicket.winners = {} /\ Web!NoTicket.state = "none"
            BY DEF Web!NoTicket
        <3>3. ticket[t] \in TicketRow
            BY DEF WebInv, WebTyped
        <3>. QED
            BY <3>1, <3>2, <3>3
    <2>3. row \in TicketRow /\ row.state = "open" /\ row.session = webReq[r].session
          /\ row.winners = {}
        BY <1>4, <2>1, <2>2 DEF TicketRow
    <2>4. ticket' = [ticket EXCEPT ![t] = row]
        BY <1>9
    <2>. HIDE DEF row
    <2>5. ticket' \in [Tickets -> TicketRow] /\ ticket'[t] = row
          /\ \A x \in Tickets \ {t} : ticket'[x] = ticket[x]
        BY <2>3, <2>4 DEF WebInv, WebTyped
    <2>6. TicketWon(t)'
        BY <1>3, <2>3, <2>5 DEF TicketWon
    <2>7. \A x \in Tickets : TicketWon(x)'
        BY <1>1, <1>6, <2>5, <2>6, TicketStays
    <2>8. \A x \in Tickets : ticket[x].state # "none" =>
              ticket'[x].state # "none" /\ ticket'[x].session = ticket[x].session
        BY <2>2, <2>5
    <2>. QED
        BY <1>1, <1>2, <1>5, <1>6, <1>7, <2>5, <2>7, <2>8, WebChanges
<1>. QED
    BY <1>8, <1>9 DEF Web!Handler

LEMMA ConsumeKeeps ==
    ASSUME WebInv, NEW r \in Requests, Web!ConsumeTicket(r)
    PROVE  WebInv'
<1>1. WebOnly(r) /\ webReq[r].pc = "consume"
    BY WebMovesOne DEF OwnStep, WebInv, Web!ConsumeTicket, Web!At
<1>2. UNCHANGED <<webNow, webUsable, revoked, webLog, audit, online, cut>>
    BY DEF Web!ConsumeTicket, Web!registry
<1>3. webReq[r] \in WebRequest /\ Good(r)
    BY DEF WebInv, WebTyped, Good
<1>4. revoked \subseteq revoked' /\ revoked' \in SUBSET Sessions
    BY <1>2 DEF WebInv, WebTyped
<1>5. ASSUME NEW p \in {"subject", "done"}, NEW f \in {TRUE, webReq[r].fault},
             WebMoved(r, p, webReq[r].ran, f), p = "subject" => ~webReq[r].late
      PROVE  Good(r)'
    BY <1>1, <1>2, <1>3, <1>5 DEF Good, WebProgress, WebBarred, WebCarries, WebMoved
<1>6. CASE UNCHANGED ticket /\ (Web!Goto(r, "done") \/ Web!Failed(r, "done"))
    <2>1. PICK f \in {TRUE, webReq[r].fault} : WebMoved(r, "done", webReq[r].ran, f)
        BY <1>6, WebMoves DEF WebInv, Web!PCs
    <2>2. Good(r)'
        BY <1>5, <2>1
    <2>3. \A t \in Tickets : TicketWon(t)'
        BY <1>1, <1>6, <2>1, TicketStays
    <2>4. ticket' \in [Tickets -> TicketRow]
        BY <1>6 DEF WebInv, WebTyped
    <2>. QED
        BY <1>1, <1>2, <1>4, <1>6, <2>1, <2>2, <2>3, <2>4, WebChanges
<1>7. ASSUME NEW t \in webReq[r].ticket, Web!Consumable(t, webReq[r].seen), NEW w \in SUBSET Requests,
             NEW row, row = [ticket[t] EXCEPT !.state = "consumed", !.winners = w],
             ticket' = [ticket EXCEPT ![t] = row],
             \/ w = ticket[t].winners /\ Web!Failed(r, "done")
             \/ w = ticket[t].winners \cup {r} /\ Web!Goto(r, "subject")
      PROVE  WebInv'
    <2>1. t \in Tickets /\ ticket[t].session = webReq[r].session /\ ticket[t].state = "open"
        BY <1>1, <1>3, <1>7 DEF WebRequest, Good, WebCarries, Web!Consumable
    <2>2. ticket[t] \in TicketRow /\ ticket[t].winners = {} /\ ticket[t].session # {}
        BY <2>1 DEF WebInv, WebTyped, TicketWon
    <2>3. row \in TicketRow /\ row.state = "consumed" /\ row.session = ticket[t].session
          /\ row.winners = w
        BY <1>7, <2>2 DEF TicketRow
    <2>4. ticket' \in [Tickets -> TicketRow] /\ ticket'[t] = row
          /\ \A x \in Tickets \ {t} : ticket'[x] = ticket[x]
        BY <1>7, <2>1, <2>3 DEF WebInv, WebTyped
    <2>5. ~webReq[r].late
        BY <1>3, <1>7, <2>1, <2>2 DEF Good, WebBarred, Web!Consumable, Web!ActiveSession
    <2>6. PICK p \in {"subject", "done"}, f \in {TRUE, webReq[r].fault} :
              /\ WebMoved(r, p, webReq[r].ran, f)
              /\ (w = {} /\ f = TRUE) \/ w = {r}
        <3>1. CASE w = {} /\ Web!Failed(r, "done")
            <4>1. WebMoved(r, "done", webReq[r].ran, TRUE)
                BY <3>1, WebMoves DEF WebInv, Web!PCs
            <4>. QED
                BY <3>1, <4>1
        <3>2. CASE w = {r} /\ Web!Goto(r, "subject")
            <4>1. WebMoved(r, "subject", webReq[r].ran, webReq[r].fault)
                BY <3>2, WebMoves DEF WebInv, Web!PCs
            <4>. QED
                BY <3>2, <4>1
        <3>. QED
            BY <1>7, <2>2, <3>1, <3>2
    <2>7. Good(r)'
        BY <1>5, <2>5, <2>6
    <2>8. webReq'[r].pc \notin {"new", "auth", "consume"} /\ webReq'[r].late = webReq[r].late
          /\ webReq'[r].ticket = webReq[r].ticket /\ webReq'[r].fault = f
        BY <2>6 DEF WebMoved
    <2>9. TicketWon(t)'
        BY <1>7, <2>2, <2>3, <2>4, <2>5, <2>6, <2>8 DEF TicketWon
    <2>10. \A x \in Tickets : TicketWon(x)'
        BY <1>1, <2>4, <2>6, <2>9, TicketStays
    <2>11. \A x \in Tickets : ticket[x].state # "none" =>
               ticket'[x].state # "none" /\ ticket'[x].session = ticket[x].session
        BY <2>3, <2>4
    <2>. QED
        BY <1>1, <1>2, <1>4, <2>4, <2>6, <2>7, <2>10, <2>11, WebChanges
<1>8. PICK t \in webReq[r].ticket :
          \/ /\ Web!Consumable(t, webReq[r].seen)
             /\ ticket' = [[ticket EXCEPT ![t].state = "consumed"] EXCEPT ![t].winners = @ \cup {r}]
             /\ Web!Goto(r, "subject")
          \/ /\ Web!Goto(r, "done")
             /\ UNCHANGED ticket
          \/ /\ Web!Failed(r, "done")
             /\ \/ UNCHANGED ticket
                \/ /\ Web!Consumable(t, webReq[r].seen)
                   /\ ticket' = [ticket EXCEPT ![t].state = "consumed"]
    BY DEF Web!ConsumeTicket
<1>9. t \in Tickets /\ ticket[t] \in TicketRow /\ ticket[t].winners \subseteq Requests
    BY <1>3 DEF WebRequest, WebInv, WebTyped, TicketRow
<1>10. CASE /\ Web!Consumable(t, webReq[r].seen)
            /\ ticket' = [[ticket EXCEPT ![t].state = "consumed"] EXCEPT ![t].winners = @ \cup {r}]
            /\ Web!Goto(r, "subject")
    <2>. DEFINE row == [ticket[t] EXCEPT !.state = "consumed", !.winners = ticket[t].winners \cup {r}]
    <2>1. ticket' = [ticket EXCEPT ![t] = row]
        BY <1>9, <1>10 DEF WebInv, WebTyped, TicketRow
    <2>2. ticket[t].winners \cup {r} \in SUBSET Requests
        BY <1>9
    <2>. QED
        BY <1>7, <1>10, <2>1, <2>2
<1>11. CASE /\ Web!Consumable(t, webReq[r].seen)
            /\ ticket' = [ticket EXCEPT ![t].state = "consumed"]
            /\ Web!Failed(r, "done")
    <2>. DEFINE row == [ticket[t] EXCEPT !.state = "consumed", !.winners = ticket[t].winners]
    <2>1. ticket' = [ticket EXCEPT ![t] = row]
        BY <1>9, <1>11 DEF WebInv, WebTyped, TicketRow
    <2>. QED
        BY <1>7, <1>9, <1>11, <2>1
<1>. QED
    BY <1>6, <1>8, <1>10, <1>11

(* A logout: r goes on, and the requests that are still to look up the     *)
(* session are late.                                                       *)
LEMMA LogoutKeeps ==
    ASSUME WebInv, NEW r \in Requests, Web!Logout(r)
    PROVE  WebInv'
<1>1. /\ webReq[r].pc = "handler" /\ webReq[r] \in WebRequest /\ Good(r)
      /\ UNCHANGED <<webNow, webUsable, ticket, webLog, audit, online, cut>>
    BY DEF Web!Logout, Web!At, Web!registry, WebInv, WebTyped, Good
<1>2. webReq[r].session \in SUBSET Sessions /\ revoked \in SUBSET Sessions
    BY <1>1 DEF WebRequest, WebInv, WebTyped
<1>3. revoked \subseteq revoked' /\ revoked' \in SUBSET Sessions
    BY <1>2 DEF Web!Logout
<1>4. PICK moved \in WebRequest :
          /\ moved.pc = "result" /\ moved.session = webReq[r].session /\ moved.ticket = webReq[r].ticket
          /\ moved.late = webReq[r].late /\ moved.barred = webReq[r].barred
          /\ moved.ran \/ moved.ran = webReq[r].ran
          /\ moved.fault \/ moved.fault = webReq[r].fault
          /\ webReq' = Web!WithLate([webReq EXCEPT ![r] = moved], revoked')
    <2>0. "result" \in Web!PCs
        BY DEF Web!PCs
    <2>1. CASE webReq' = Web!WithLate([webReq EXCEPT ![r].pc = "result", ![r].ran = TRUE], revoked')
        <3>. DEFINE m == [webReq[r] EXCEPT !.pc = "result", !.ran = TRUE]
        <3>1. /\ m \in WebRequest /\ m.pc = "result" /\ m.session = webReq[r].session
              /\ m.ticket = webReq[r].ticket /\ m.late = webReq[r].late
              /\ m.barred = webReq[r].barred /\ m.ran /\ m.fault = webReq[r].fault
            BY <1>1, <2>0 DEF WebRequest
        <3>2. [webReq EXCEPT ![r].pc = "result", ![r].ran = TRUE] = [webReq EXCEPT ![r] = m]
            BY DEF WebInv, WebTyped
        <3>. HIDE DEF m
        <3>. QED
            BY <2>1, <3>1, <3>2
    <2>2. CASE webReq' = Web!WithLate([webReq EXCEPT ![r].pc = "result", ![r].fault = TRUE], revoked')
        <3>. DEFINE m == [webReq[r] EXCEPT !.pc = "result", !.fault = TRUE]
        <3>1. /\ m \in WebRequest /\ m.pc = "result" /\ m.session = webReq[r].session
              /\ m.ticket = webReq[r].ticket /\ m.late = webReq[r].late
              /\ m.barred = webReq[r].barred /\ m.ran = webReq[r].ran /\ m.fault
            BY <1>1, <2>0 DEF WebRequest
        <3>2. [webReq EXCEPT ![r].pc = "result", ![r].fault = TRUE] = [webReq EXCEPT ![r] = m]
            BY DEF WebInv, WebTyped
        <3>. HIDE DEF m
        <3>. QED
            BY <2>2, <3>1, <3>2
    <2>. QED
        BY <2>1, <2>2 DEF Web!Logout
<1>5. /\ webReq'[r] = moved
      /\ \A q \in Requests \ {r} :
            webReq'[q] = IF webReq[q].pc \in {"auth", "consume"} /\ webReq[q].session \subseteq revoked'
                         THEN [webReq[q] EXCEPT !.late = TRUE] ELSE webReq[q]
      /\ webReq' = [q \in Requests |-> webReq'[q]]
    BY <1>4, SameRequests DEF Web!WithLate, WebInv, WebTyped
<1>6. ASSUME NEW q \in Requests
      PROVE  /\ webReq'[q] \in WebRequest
             /\ webReq'[q].session = webReq[q].session /\ webReq'[q].ticket = webReq[q].ticket
             /\ webReq'[q].barred = webReq[q].barred
             /\ webReq[q].fault => webReq'[q].fault
             /\ webReq'[q].pc = webReq[q].pc \/ (q = r /\ webReq'[q].pc = "result")
             /\ \/ webReq'[q].late = webReq[q].late
                \/ webReq[q].pc \in {"auth", "consume"} /\ webReq[q].session \subseteq revoked'
             /\ q # r => webReq'[q].ran = webReq[q].ran /\ webReq'[q].fault = webReq[q].fault
    <2>1. CASE q = r
        BY <1>4, <1>5, <2>1
    <2>2. CASE q # r
        <3>1. webReq[q] \in WebRequest
            BY DEF WebInv, WebTyped
        <3>. DEFINE l == [webReq[q] EXCEPT !.late = TRUE]
        <3>2. /\ l \in WebRequest /\ l.pc = webReq[q].pc /\ l.session = webReq[q].session
              /\ l.ticket = webReq[q].ticket /\ l.barred = webReq[q].barred /\ l.ran = webReq[q].ran
              /\ l.fault = webReq[q].fault
            BY <3>1 DEF WebRequest
        <3>3. \/ webReq'[q] = webReq[q]
              \/ /\ webReq'[q] = l
                 /\ webReq[q].pc \in {"auth", "consume"} /\ webReq[q].session \subseteq revoked'
            BY <1>5, <2>2
        <3>. HIDE DEF l
        <3>. QED
            BY <2>2, <3>1, <3>2, <3>3
    <2>. QED
        BY <2>1, <2>2
<1>7. WebTyped'
    BY <1>1, <1>3, <1>5, <1>6 DEF WebInv, WebTyped
<1>8. ASSUME NEW q \in Requests
      PROVE  Good(q)'
    <2>1. Good(q)
        BY DEF WebInv, Good
    <2>2. WebCarries(webReq[q])'
        BY <1>1, <1>6, <2>1 DEF Good, WebCarries
    <2>3. CASE q = r
        BY <1>1, <1>3, <1>4, <1>5, <2>1, <2>2, <2>3 DEF Good, WebProgress, WebBarred
    <2>4. CASE q # r
        <3>1. WebProgress(webReq[q], webLog[q], audit[q])'
            BY <1>1, <1>6, <2>1, <2>4 DEF Good, WebProgress
        <3>2. WebBarred(webReq[q], audit[q])'
            BY <1>1, <1>3, <1>6, <2>1, <2>4 DEF Good, WebBarred, WebProgress
        <3>. QED
            BY <2>2, <3>1, <3>2 DEF Good
    <2>. QED
        BY <2>3, <2>4
<1>9. ASSUME NEW t \in Tickets
      PROVE  TicketWon(t)'
    <2>1. TicketWon(t) /\ ticket[t].winners \subseteq Requests
        BY DEF WebInv, WebTyped, TicketRow
    <2>. QED
        BY <1>1, <1>6, <2>1 DEF TicketWon
<1>10. \A q \in online' : webReq'[q].pc = "relay"
    BY <1>1, <1>6 DEF WebInv, WebTyped
<1>. QED
    BY <1>7, <1>8, <1>9, <1>10 DEF WebInv, Good

LEMMA StepKeeps ==
    ASSUME WebInv, NEW r \in Requests, Web!Step(r)
    PROVE  WebInv'
BY WebReads, WebWrites, HandlerKeeps, LogoutKeeps, ConsumeKeeps, RegisterKeeps DEF Web!Step

LEMMA DisconnectKeeps ==
    ASSUME WebInv, NEW r \in Requests, Web!Disconnect(r)
    PROVE  WebInv'
<1>1. /\ UNCHANGED <<webNow, webUsable, revoked, ticket, webReq, webLog, audit>>
      /\ online' \subseteq online /\ cut' \subseteq cut \cup {r}
    BY DEF Web!Disconnect, Web!rows
<1>2. WebTyped'
    BY <1>1 DEF WebInv, WebTyped
<1>3. \A q \in Requests : /\ WebProgress(webReq[q], webLog[q], audit[q])'
                           /\ WebBarred(webReq[q], audit[q])' /\ WebCarries(webReq[q])'
    BY <1>1 DEF WebInv, WebProgress, WebBarred, WebCarries
<1>4. \A t \in Tickets : TicketWon(t)'
    BY <1>1 DEF WebInv, TicketWon
<1>. QED
    BY <1>1, <1>2, <1>3, <1>4 DEF WebInv

(* Every request keeps what it carries while only its marks or its place   *)
(* change.                                                                 *)
LEMMA WebAllMove ==
    ASSUME WebInv, webReq' \in [Requests -> WebRequest],
           \A r \in Requests : /\ webReq'[r].late = webReq[r].late
                               /\ webReq'[r].ticket = webReq[r].ticket
                               /\ webReq'[r].session = webReq[r].session
                               /\ webReq'[r].ran = webReq[r].ran
                               /\ webReq'[r].fault = webReq[r].fault
                               /\ webReq'[r].barred => webReq[r].barred /\ ~webUsable'
                               /\ \/ webReq'[r].pc = webReq[r].pc
                                  \/ webReq'[r].pc = "lost" /\ webReq[r].pc # "new",
           webUsable' \in BOOLEAN, UNCHANGED <<webNow, revoked, ticket, webLog, audit, cut>>,
           online' \subseteq online, \A q \in online' : webReq'[q].pc = "relay"
    PROVE  WebInv'
<1>1. WebTyped'
    BY DEF WebInv, WebTyped
<1>2. ASSUME NEW r \in Requests
      PROVE  /\ WebProgress(webReq[r], webLog[r], audit[r])'
             /\ WebBarred(webReq[r], audit[r])' /\ WebCarries(webReq[r])'
    <2>1. /\ WebProgress(webReq[r], webLog[r], audit[r])
          /\ WebBarred(webReq[r], audit[r]) /\ WebCarries(webReq[r])
        BY DEF WebInv
    <2>2. WebProgress(webReq[r], webLog[r], audit[r])'
        BY <2>1 DEF WebProgress
    <2>3. WebBarred(webReq[r], audit[r])'
        BY <2>1 DEF WebBarred
    <2>4. WebCarries(webReq[r])'
        BY <2>1 DEF WebCarries
    <2>. QED
        BY <2>2, <2>3, <2>4
<1>3. ASSUME NEW t \in Tickets
      PROVE  TicketWon(t)'
    <2>1. TicketWon(t) /\ ticket[t].winners \subseteq Requests
        BY DEF WebInv, WebTyped, TicketRow
    <2>. QED
        BY <2>1 DEF TicketWon
<1>. QED
    BY <1>1, <1>2, <1>3 DEF WebInv

LEMMA ChangeUserKeeps ==
    ASSUME WebInv, Web!ChangeUser
    PROVE  WebInv'
<1>. DEFINE free(r) == [webReq[r] EXCEPT !.barred = FALSE]
<1>1. /\ webReq' = [r \in Requests |-> IF webUsable THEN webReq[r] ELSE free(r)]
      /\ webUsable' = ~webUsable
      /\ UNCHANGED <<webNow, revoked, ticket, webLog, audit, online, cut>>
    BY SameRequests DEF Web!ChangeUser, Web!rows, Web!registry
<1>2. ASSUME NEW r \in Requests
      PROVE  /\ webReq'[r] \in WebRequest
             /\ webReq'[r].late = webReq[r].late /\ webReq'[r].ticket = webReq[r].ticket
             /\ webReq'[r].session = webReq[r].session /\ webReq'[r].ran = webReq[r].ran
             /\ webReq'[r].fault = webReq[r].fault /\ webReq'[r].pc = webReq[r].pc
             /\ webReq'[r].barred => webReq[r].barred /\ ~webUsable'
    <2>1. webReq[r] \in WebRequest /\ webUsable \in BOOLEAN
        BY DEF WebInv, WebTyped
    <2>2. /\ free(r) \in WebRequest /\ free(r).barred = FALSE
          /\ free(r).late = webReq[r].late /\ free(r).ticket = webReq[r].ticket
          /\ free(r).session = webReq[r].session /\ free(r).ran = webReq[r].ran
          /\ free(r).fault = webReq[r].fault /\ free(r).pc = webReq[r].pc
        BY <2>1 DEF WebRequest
    <2>3. webReq'[r] = IF webUsable THEN webReq[r] ELSE free(r)
        BY <1>1
    <2>. HIDE DEF free
    <2>. QED
        BY <1>1, <2>1, <2>2, <2>3
<1>3. webReq' \in [Requests -> WebRequest]
    <2>1. webReq' = [r \in Requests |-> webReq'[r]]
        BY <1>1
    <2>. HIDE DEF free
    <2>. QED
        BY <1>2, <2>1
<1>4. webUsable' \in BOOLEAN
    BY <1>1
<1>5. \A q \in online' : webReq'[q].pc = "relay"
    BY <1>1, <1>2 DEF WebInv, WebTyped
<1>. HIDE DEF free
<1>. QED
    BY <1>1, <1>2, <1>3, <1>4, <1>5, WebAllMove

LEMMA WebRestartKeeps ==
    ASSUME WebInv, Web!Restart
    PROVE  WebInv'
<1>. DEFINE lost(r) == [webReq[r] EXCEPT !.pc = "lost"]
<1>1. /\ webReq' = [r \in Requests |-> IF webReq[r].pc \in {"new", "done"} THEN webReq[r] ELSE lost(r)]
      /\ UNCHANGED <<webNow, webUsable, revoked, ticket, webLog, audit, cut>> /\ online' = {}
    BY SameRequests DEF Web!Restart, Web!rows
<1>2. ASSUME NEW r \in Requests
      PROVE  /\ webReq'[r] \in WebRequest
             /\ webReq'[r].late = webReq[r].late /\ webReq'[r].ticket = webReq[r].ticket
             /\ webReq'[r].session = webReq[r].session /\ webReq'[r].ran = webReq[r].ran
             /\ webReq'[r].fault = webReq[r].fault
             /\ webReq'[r].barred => webReq[r].barred /\ ~webUsable'
             /\ \/ webReq'[r].pc = webReq[r].pc
                \/ webReq'[r].pc = "lost" /\ webReq[r].pc # "new"
    <2>1. webReq[r] \in WebRequest /\ (webReq[r].barred => ~webUsable) /\ "lost" \in Web!PCs
        BY DEF WebInv, WebTyped, WebBarred, Web!PCs
    <2>2. /\ lost(r) \in WebRequest /\ lost(r).barred = webReq[r].barred
          /\ lost(r).late = webReq[r].late /\ lost(r).ticket = webReq[r].ticket
          /\ lost(r).session = webReq[r].session /\ lost(r).ran = webReq[r].ran
          /\ lost(r).fault = webReq[r].fault /\ lost(r).pc = "lost"
        BY <2>1 DEF WebRequest
    <2>3. webReq'[r] = IF webReq[r].pc \in {"new", "done"} THEN webReq[r] ELSE lost(r)
        BY <1>1
    <2>. HIDE DEF lost
    <2>. QED
        BY <1>1, <2>1, <2>2, <2>3
<1>3. webReq' \in [Requests -> WebRequest]
    <2>1. webReq' = [r \in Requests |-> webReq'[r]]
        BY <1>1
    <2>. HIDE DEF lost
    <2>. QED
        BY <1>2, <2>1
<1>4. webUsable' \in BOOLEAN
    BY <1>1 DEF WebInv, WebTyped
<1>. HIDE DEF lost
<1>. QED
    BY <1>1, <1>2, <1>3, <1>4, WebAllMove

LEMMA WebInvInit == Web!Init => WebInv
<1>. SUFFICES ASSUME Web!Init PROVE WebInv
    OBVIOUS
<1>1. Web!NewRequest \in WebRequest /\ Web!NoTicket \in TicketRow
    BY DEF Web!NewRequest, WebRequest, Web!PCs, Web!Kinds, Web!NoTicket, TicketRow
<1>2. /\ webReq = [r \in Requests |-> Web!NewRequest] /\ webLog = [r \in Requests |-> {}]
      /\ audit = [r \in Requests |-> "none"] /\ ticket = [t \in Tickets |-> Web!NoTicket]
      /\ online = {} /\ cut = {} /\ revoked = {} /\ webNow = 0 /\ webUsable = TRUE
    BY SameRequests DEF Web!Init
<1>3. WebTyped
    BY <1>1, <1>2 DEF WebTyped
<1>4. Web!NewRequest.pc = "new" /\ ~Web!NewRequest.late /\ ~Web!NewRequest.barred
      /\ ~Web!NewRequest.ran /\ ~Web!NewRequest.fault
    BY DEF Web!NewRequest
<1>5. ASSUME NEW r \in Requests
      PROVE  /\ WebProgress(webReq[r], webLog[r], audit[r])
             /\ WebBarred(webReq[r], audit[r]) /\ WebCarries(webReq[r])
    BY <1>2, <1>4 DEF WebProgress, WebBarred, WebCarries
<1>6. Web!NoTicket.state = "none" /\ Web!NoTicket.winners = {}
    BY DEF Web!NoTicket
<1>7. \A t \in Tickets : TicketWon(t)
    BY <1>2, <1>6 DEF TicketWon
<1>. QED
    BY <1>2, <1>3, <1>5, <1>7 DEF WebInv

LEMMA WebInvNext == WebInv /\ [LoginNext \/ LimiterNext \/ WebNext \/ InventoryNext]_all => WebInv'
<1>. SUFFICES ASSUME WebInv, [LoginNext \/ LimiterNext \/ WebNext \/ InventoryNext]_all PROVE WebInv'
    OBVIOUS
<1>1. ASSUME UNCHANGED <<webUsable, revoked, ticket, webReq, webLog, audit, online, cut>>,
             webNow' \in Nat
      PROVE  WebInv'
    <2>1. WebTyped'
        BY <1>1 DEF WebInv, WebTyped
    <2>2. \A r \in Requests : /\ WebProgress(webReq[r], webLog[r], audit[r])'
                               /\ WebBarred(webReq[r], audit[r])' /\ WebCarries(webReq[r])'
        BY <1>1 DEF WebInv, WebProgress, WebBarred, WebCarries
    <2>3. \A t \in Tickets : TicketWon(t)'
        BY <1>1 DEF WebInv, TicketWon
    <2>. QED
        BY <1>1, <2>1, <2>2, <2>3 DEF WebInv
<1>2. CASE LoginNext \/ LimiterNext \/ InventoryNext \/ UNCHANGED all
    BY <1>1, <1>2 DEF LoginNext, LimiterNext, InventoryNext, all, webVars, WebInv, WebTyped
<1>3. CASE Web!Tick
    BY <1>1, <1>3 DEF Web!Tick, Web!rows, Web!registry, WebInv, WebTyped
<1>4. CASE WebNext
    BY <1>3, <1>4, SameRequests, WebArrives, StepKeeps, RegisterKeeps, DisconnectKeeps,
       ChangeUserKeeps, WebRestartKeeps DEF WebNext, Web!Next
<1>. QED
    BY <1>2, <1>4

(* A browser session gives what it should, in every interleaving of        *)
(* requests, logouts, restarts and failing calls: a ticket opens one       *)
(* terminal, a request not yet looked up at the logout or that comes for a *)
(* barred user has no effect, and every effect and every terminal is in    *)
(* the audit.                                                              *)
THEOREM WebSessionCorrect == MCSpec => []WebSessionHonoured
<1>1. MCInit => WebInv
    BY WebInvInit DEF MCInit
<1>2. MCSpec => []WebInv
    BY <1>1, WebInvNext, PTL DEF MCSpec
<1>3. ASSUME WebInv
      PROVE  WebSessionHonoured
    <2>1. Web!TicketOpensOnce
        <3>1. ASSUME NEW t \in Tickets
              PROVE  Cardinality(ticket[t].winners) <= 1
            <4>1. \A x, y \in ticket[t].winners : x = y
                BY <1>3 DEF WebInv, TicketWon
            <4>. QED
                BY <4>1, AtMostOne
        <3>0. \A S : Web!Cardinality(S) = Cardinality(S)
            BY DEF Web!Cardinality, Cardinality
        <3>2. \A t \in Tickets : ticket[t].state = "consumed" /\ ticket[t].winners = {} =>
                  \E r \in Web!Requests : t \in webReq[r].ticket /\ webReq[r].fault
            BY <1>3, SameRequests DEF WebInv, TicketWon
        <3>. QED
            BY <3>0, <3>1, <3>2 DEF Web!TicketOpensOnce
    <2>2. Web!LateDoesNothing
        BY <1>3, SameRequests DEF Web!LateDoesNothing, WebInv, WebBarred, TicketWon
    <2>3. Web!EffectIsAudited
        BY <1>3, SameRequests DEF Web!EffectIsAudited, Web!At, WebInv, WebProgress
    <2>4. Web!TerminalIsAudited
        BY <1>3, SameRequests DEF Web!TerminalIsAudited, Web!At, WebInv, WebProgress
    <2>. QED
        BY <2>1, <2>2, <2>3, <2>4 DEF WebSessionHonoured, Web!WebSessionHonoured
<1>. QED
    BY <1>2, <1>3, PTL

-----------------------------------------------------------------------------
(* The database inventory.  A request carries settings between two         *)
(* transactions and an operation carries references; ReqFits and OpFits    *)
(* say what they may still rely on when the tables have moved on.          *)

CAs == {"none", "c1"}
InstanceRow == [proto : {"mysql", "postgres", "none"}, port : {0, 3306, 5432}, tls : BOOLEAN,
                ca : CAs, status : {"none", "active", "disabled"}, live : BOOLEAN]
AccountRow == [inst : Instances \cup {"none"}, pw : Passwords \cup {"none"},
               status : {"none", "active", "disabled"}, op : Operations \cup {"none"},
               live : BOOLEAN]
Tried(d, n, c) == [proto |-> d, port |-> n, tls |-> TRUE, ca |-> c]
Target == {Tried(d, n, c) : d \in {"mysql", "postgres"}, n \in {3306, 5432}, c \in CAs}

(* The tables; an account that is live was inserted.                       *)
RowsTyped ==
    /\ inst \in [Instances -> InstanceRow]
    /\ acct \in [Accounts -> AccountRow]
    /\ \A a \in Accounts : acct[a].live => acct[a].inst \in Instances /\ acct[a].status # "none"
    /\ grant \subseteq Instances

(* A request in progress, for an instance or for an account, and a         *)
(* provisioning operation.                                                 *)
SettingsType == [proto : {"mysql", "postgres", "none"}, port : {0, 3306, 5432}, tls : BOOLEAN,
                 ca : CAs]
InstanceRequest == [pc : {"try", "probing", "insert", "update", "proved"}, inst : Instances,
                    input : Inventory!InputType, target : Target, proof : SettingsType,
                    then : {"idle", "insert", "proved"}]
AccountRequest == [pc : {"account"}, acct : Accounts, inst : Instances, pw : Passwords]
OperationRecord == [pc : {"read", "live"}, inst : Instances, admin : Accounts,
                    pw : Passwords \cup {"none"}, proof : SettingsType]

(* The settings an update with a proof is about to store.                  *)
Stores(q) == [proto |-> q.input.proto, port |-> q.input.port, tls |-> TRUE,
              ca |-> Inventory!InputCA(q.input, q.proof.ca)]

(* What a request in progress holds, P being the settings that were tried: *)
(* an insert with TLS what was tried for it, an update with a proof what   *)
(* was tried or what the row had when it was read.                         *)
ReqFits(q, P) ==
    /\ q.pc \in {"idle", "account"} \/ q \in InstanceRequest
    /\ q.pc = "account" => q \in AccountRequest
    /\ q.pc \in {"try", "probing"} =>
          /\ q.input.mode = "verify" /\ q.target.proto = q.input.proto
          /\ q.then = "insert" => q.target = Inventory!ResolveTarget(q.input, "none")
    /\ q.pc = "insert" /\ q.input.mode = "verify" =>
          Inventory!ResolveTarget(q.input, "none") \in P
    /\ q.pc = "update" => q.input.mode = "disable"
    /\ q.pc = "proved" => q.input.mode = "verify" /\ Stores(q) \in P \cup {q.proof}

RequestsFit == DOMAIN dbReq = Managers /\ \A r \in Managers : ReqFits(dbReq[r], probed)

(* An operation refers to an account of its instance, A being the accounts.*)
OpFits(p, A) ==
    \/ p.pc = "none"
    \/ /\ p \in OperationRecord
       /\ A[p.admin].inst = p.inst /\ A[p.admin].status # "none"

OperationsFit == DOMAIN op = Operations /\ \A o \in Operations : OpFits(op[o], acct)

InventoryInv ==
    RowsTyped /\ RequestsFit /\ OperationsFit
    /\ Inventory!StoredTLSWasTried /\ Inventory!OperationKeepsItsAdministrator
    /\ Inventory!InventoryInStep

(* The rows of the resources table for the instances in N and accounts in A. *)
Listed(N, A) == ({"instance"} \X N) \cup ({"account"} \X A)

(* Adding and removing rows of the resources table.                        *)
LEMMA ListedAddInstance ==
  ASSUME NEW N, NEW A, NEW i PROVE Listed(N, A) \cup {<<"instance", i>>} = Listed(N \cup {i}, A)
BY DEF Listed
LEMMA ListedDropAccounts ==
  ASSUME NEW N, NEW A, NEW B
  PROVE  Listed(N, A) \ ({"account"} \X B) = Listed(N, A \ B)
BY DEF Listed
LEMMA ListedOneAccount == ASSUME NEW a PROVE {<<"account", a>>} = {"account"} \X {a}
OBVIOUS
LEMMA InstanceInRows ==
  ASSUME NEW i, NEW j, NEW B
  PROVE  <<"instance", j>> \in ({<<"instance", i>>} \cup ({"account"} \X B)) <=> j = i
OBVIOUS
LEMMA InstanceNotAccount == ASSUME NEW j, NEW B PROVE <<"instance", j>> \notin {"account"} \X B
OBVIOUS

LiveInstances == {i \in Instances : inst[i].live}
LiveAccounts == {a \in Accounts : acct[a].live}

(* InventoryInStep, with the resources table as the list of what is live.  *)
LEMMA InStepListed ==
  Inventory!InventoryInStep <=>
    /\ resource = Listed(LiveInstances, LiveAccounts)
    /\ \A i \in grant : inst[i].live
    /\ \A a \in Accounts : acct[a].live /\ ~inst[acct[a].inst].live => a \in straddled
BY DEF Inventory!InventoryInStep, Listed, LiveInstances, LiveAccounts

LEMMA AccountListed ==
  ASSUME Inventory!InventoryInStep, NEW a, resource' = resource \cup {<<"account", a>>},
         LiveAccounts' = LiveAccounts \cup {a}
  PROVE  resource' = Listed(LiveInstances, LiveAccounts')
<1>1. resource = Listed(LiveInstances, LiveAccounts) BY InStepListed
<1>2. Listed(LiveInstances, LiveAccounts) \cup {<<"account", a>>}
        = Listed(LiveInstances, LiveAccounts \cup {a})
  BY DEF Listed
<1> QED BY <1>1, <1>2

LEMMA AccountsUnlisted ==
  ASSUME Inventory!InventoryInStep, NEW B, resource' = resource \ ({"account"} \X B),
         LiveAccounts' = LiveAccounts \ B
  PROVE  resource' = Listed(LiveInstances, LiveAccounts')
<1>1. resource = Listed(LiveInstances, LiveAccounts) BY InStepListed
<1>2. Listed(LiveInstances, LiveAccounts) \ ({"account"} \X B)
        = Listed(LiveInstances, LiveAccounts \ B)
  BY ListedDropAccounts
<1> QED BY <1>1, <1>2

-----------------------------------------------------------------------------

(* A request that fits keeps fitting as more settings are tried.           *)
LEMMA ReqMonotone ==
  ASSUME NEW q, NEW P, NEW R, P \subseteq R, ReqFits(q, P) PROVE ReqFits(q, R)
BY DEF ReqFits

(* One request moves on, and what it becomes fits.                         *)
LEMMA RequestMoves ==
  ASSUME RequestsFit, NEW r \in Managers, DOMAIN dbReq' = Managers, probed \subseteq probed',
         \A s \in Managers \ {r} : dbReq'[s] = dbReq[s], ReqFits(dbReq'[r], probed')
  PROVE  RequestsFit'
<1>1. ASSUME NEW s \in Managers PROVE ReqFits(dbReq'[s], probed')
  <2>1. CASE s = r BY <2>1
  <2>2. CASE s # r
    <3>1. dbReq'[s] = dbReq[s] /\ ReqFits(dbReq[s], probed) BY <2>2 DEF RequestsFit
    <3>2. ReqFits(dbReq[s], probed') BY <3>1, ReqMonotone
    <3> QED BY <3>1, <3>2
  <2> QED BY <2>1, <2>2
<1> QED BY <1>1 DEF RequestsFit

(* A request that has ended fits.                                          *)
LEMMA IdleFits == ASSUME NEW P PROVE ReqFits(Inventory!IdleReq, P)
<1> DEFINE z == Inventory!IdleReq
<1>1. z.pc = "idle" BY DEF Inventory!IdleReq
<1> HIDE DEF z
<1>2. ReqFits(z, P) BY <1>1 DEF ReqFits
<1> QED BY <1>2 DEF z

(* EndRequest.                                                             *)
LEMMA RequestEnds ==
  ASSUME RequestsFit, NEW r \in Managers, Inventory!EndRequest(r), probed \subseteq probed'
  PROVE  RequestsFit'
<1>1. /\ DOMAIN dbReq' = Managers /\ dbReq'[r] = Inventory!IdleReq
      /\ \A s \in Managers \ {r} : dbReq'[s] = dbReq[s]
  BY DEF Inventory!EndRequest, RequestsFit
<1>2. ReqFits(dbReq'[r], probed') BY <1>1, IdleFits
<1> QED BY <1>1, <1>2, RequestMoves

(* No request moves.                                                       *)
LEMMA RequestsStay == RequestsFit /\ UNCHANGED <<dbReq, probed>> => RequestsFit'
BY DEF RequestsFit

(* A step of a request that leaves the tables alone.                       *)
LEMMA TablesStay ==
  InventoryInv /\ UNCHANGED Inventory!table /\ probed \subseteq probed' /\ RequestsFit' => InventoryInv'
<1> SUFFICES ASSUME InventoryInv, UNCHANGED Inventory!table, probed \subseteq probed', RequestsFit'
             PROVE  InventoryInv' OBVIOUS
<1> USE DEF InventoryInv
<1>u. UNCHANGED <<inst, acct, resource, grant, op, defaulted, straddled>> BY DEF Inventory!table
<1>1. RowsTyped' BY <1>u DEF RowsTyped
<1>2. OperationsFit' BY <1>u DEF OperationsFit
<1>3. Inventory!StoredTLSWasTried'
  BY <1>u DEF Inventory!StoredTLSWasTried, Inventory!Settings
<1>4. Inventory!OperationKeepsItsAdministrator'
  BY <1>u DEF Inventory!OperationKeepsItsAdministrator, Inventory!UsableInstance,
     Inventory!UsableAdministrator, Inventory!Deprovisioned, Inventory!Settings
<1>5. Inventory!InventoryInStep' BY <1>u DEF Inventory!InventoryInStep
<1> QED BY <1>1, <1>2, <1>3, <1>4, <1>5

(* What a trial is made of.                                                *)
LEMMA TargetFields ==
  ASSUME NEW t \in Target
  PROVE  /\ t.ca \in {"none", "c1"} /\ t.port \in {3306, 5432}
         /\ t = [proto |-> t.proto, port |-> t.port, tls |-> TRUE, ca |-> t.ca]
<1>1. PICK d \in {"mysql", "postgres"}, n \in {3306, 5432}, c \in CAs :
         t = Tried(d, n, c)
  BY DEF Target
<1>2. t.proto = d /\ t.port = n /\ t.ca = c BY <1>1 DEF Tried
<1> QED BY <1>1, <1>2 DEF CAs, Tried

InputSet == [proto : {"mysql", "postgres"}, port : {0, 3306, 5432},
             mode : {"unset", "disable", "verify"}, ca : {"keep", "clear", "c1"},
             status : {"unset", "active", "disabled"}]

(* An update that carries the tried settings stores them.                  *)
LEMMA StoresTarget ==
  ASSUME NEW t \in Target, NEW q, q.input.proto = t.proto, q.input.port = t.port,
         Inventory!InputCA(q.input, q.proof.ca) = t.ca
  PROVE  Stores(q) = t
BY TargetFields DEF Stores

(* The fields of an input, spelt out.                                      *)
LEMMA InputTypeIs == Inventory!InputType = InputSet
<1>1. {Inventory!Unset} \cup Inventory!Ports = {0, 3306, 5432} BY DEF Inventory!Unset, Inventory!Ports
<1>2. Inventory!Protocols = {"mysql", "postgres"} BY DEF Inventory!Protocols
<1> DEFINE N == {0, 3306, 5432}
<1> HIDE DEF N
<1>3. {Inventory!Unset} \cup Inventory!Ports = N BY <1>1 DEF N
<1>4. Inventory!InputType = [proto : {"mysql", "postgres"}, port : N,
             mode : {"unset", "disable", "verify"}, ca : {"keep", "clear", "c1"},
             status : {"unset", "active", "disabled"}]
   BY <1>2, <1>3 DEF Inventory!InputType
<1> QED BY <1>4 DEF N, InputSet

LEMMA InputPort ==
  ASSUME NEW x \in InputSet, NEW n \in {3306, 5432}, NEW y, y = [x EXCEPT !.port = n]
  PROVE  y \in InputSet /\ y.proto = x.proto /\ y.port = n /\ y.ca = x.ca /\ y.mode = x.mode
BY DEF InputSet
LEMMA InputWithCA ==
  ASSUME NEW x \in InputSet, NEW c \in {"clear", "c1"}, NEW y, y = [x EXCEPT !.ca = c]
  PROVE  y \in InputSet /\ y.proto = x.proto /\ y.port = x.port /\ y.ca = c /\ y.mode = x.mode
BY DEF InputSet

(* The steps by which a request that was tried goes on.                   *)
WithPort(q, n) == [q EXCEPT !.input.port = n]
WithCA(q, c) == [q EXCEPT !.input.ca = c]
AtPc(q, s) == [q EXCEPT !.pc = s]

LEMMA RecordPc ==
  ASSUME NEW p \in InstanceRequest, NEW s \in {"try", "probing", "insert", "update", "proved"},
         NEW q, q = AtPc(p, s)
  PROVE  q \in InstanceRequest /\ q.pc = s /\ q.proof = p.proof /\ q.input = p.input
BY DEF InstanceRequest, AtPc
LEMMA RecordPort ==
  ASSUME NEW p \in InstanceRequest, NEW n \in {3306, 5432}, NEW q, q = WithPort(p, n)
  PROVE  q \in InstanceRequest /\ q.pc = p.pc /\ q.proof = p.proof
         /\ q.input.proto = p.input.proto /\ q.input.port = n /\ q.input.mode = p.input.mode
<1> DEFINE y == [p.input EXCEPT !.port = n]
<1>1. p.input \in InputSet BY InputTypeIs DEF InstanceRequest
<1>2. y \in InputSet /\ y.proto = p.input.proto /\ y.port = n /\ y.mode = p.input.mode
  BY <1>1, InputPort
<1>3. q = [p EXCEPT !.input = y] BY DEF WithPort
<1> HIDE DEF y
<1>4. q \in InstanceRequest /\ q.pc = p.pc /\ q.proof = p.proof /\ q.input = y
  BY <1>2, <1>3, InputTypeIs DEF InstanceRequest
<1> QED BY <1>4, <1>2
LEMMA RecordCA ==
  ASSUME NEW p \in InstanceRequest, NEW c \in {"clear", "c1"}, NEW q, q = WithCA(p, c)
  PROVE  q \in InstanceRequest /\ q.pc = p.pc /\ q.proof = p.proof
         /\ q.input.proto = p.input.proto /\ q.input.port = p.input.port
         /\ q.input.mode = p.input.mode /\ q.input.ca = c
<1> DEFINE y == [p.input EXCEPT !.ca = c]
<1>1. p.input \in InputSet BY InputTypeIs DEF InstanceRequest
<1>2. y \in InputSet /\ y.proto = p.input.proto /\ y.port = p.input.port /\ y.mode = p.input.mode
      /\ y.ca = c
  BY <1>1, InputWithCA
<1>3. q = [p EXCEPT !.input = y] BY DEF WithCA
<1> HIDE DEF y
<1>4. q \in InstanceRequest /\ q.pc = p.pc /\ q.proof = p.proof /\ q.input = y
  BY <1>2, <1>3, InputTypeIs DEF InstanceRequest
<1> QED BY <1>4, <1>2

(* What an update carries on with after its trial.                         *)
LEMMA ProbedRecord ==
  ASSUME NEW p \in InstanceRequest, NEW n \in {3306, 5432}, NEW c \in {"clear", "c1"},
         NEW q, q = WithCA(WithPort(AtPc(p, "proved"), n), c)
  PROVE  /\ q \in InstanceRequest /\ q.pc = "proved" /\ q.proof = p.proof
         /\ q.input.proto = p.input.proto /\ q.input.port = n
         /\ q.input.mode = p.input.mode /\ q.input.ca = c
<1> DEFINE q1 == AtPc(p, "proved")
           q2 == WithPort(q1, n)
<1>4. q1 \in InstanceRequest /\ q1.pc = "proved" /\ q1.proof = p.proof /\ q1.input = p.input
  BY RecordPc
<1>5. q2 \in InstanceRequest /\ q2.pc = q1.pc /\ q2.proof = q1.proof
      /\ q2.input.proto = q1.input.proto /\ q2.input.port = n /\ q2.input.mode = q1.input.mode
  BY <1>4, RecordPort
<1> HIDE DEF q2
<1>6. q \in InstanceRequest /\ q.pc = q2.pc /\ q.proof = q2.proof
      /\ q.input.proto = q2.input.proto /\ q.input.port = q2.input.port
      /\ q.input.mode = q2.input.mode /\ q.input.ca = c
  <2>1. q = WithCA(q2, c) BY DEF q2
  <2> QED BY <2>1, <1>5, RecordCA
<1> QED BY <1>4, <1>5, <1>6

(* A trial of a known protocol, port and CA.                               *)
LEMMA TargetMade ==
  ASSUME NEW d \in {"mysql", "postgres"}, NEW n \in {3306, 5432}, NEW c \in CAs
  PROVE  Tried(d, n, c) \in Target
BY DEF Target

(* resolveDatabaseTLSPreflightTarget.                                      *)
LEMMA ResolveTyped ==
  ASSUME NEW input \in Inventory!InputType, NEW c \in CAs
  PROVE  /\ Inventory!ResolveTarget(input, c) \in Target
         /\ Inventory!ResolveTarget(input, c).proto = input.proto
         /\ Inventory!InputCA(input, c) \in CAs
<1>1. input.proto \in {"mysql", "postgres"} /\ input.port \in {0, 3306, 5432}
      /\ input.ca \in {"keep", "clear", "c1"}
  BY DEF Inventory!InputType, Inventory!Protocols, Inventory!Ports, Inventory!Unset
<1>2. Inventory!InputCA(input, c) \in CAs BY <1>1 DEF Inventory!InputCA, CAs, Inventory!NoCA
<1> DEFINE n == IF input.port = Inventory!Unset THEN Inventory!DefaultTLSPreflightPort(input.proto)
                ELSE input.port
<1>3. n \in {3306, 5432} BY <1>1 DEF Inventory!DefaultTLSPreflightPort, Inventory!Unset
<1>4. Inventory!ResolveTarget(input, c) =
         Tried(input.proto, n, Inventory!InputCA(input, c))
  BY DEF Inventory!ResolveTarget, Tried
<1> HIDE DEF n
<1>5. Inventory!ResolveTarget(input, c) \in Target BY <1>1, <1>2, <1>3, <1>4, TargetMade
<1>6. Inventory!ResolveTarget(input, c).proto = input.proto BY <1>4 DEF Tried
<1> QED BY <1>2, <1>5, <1>6

(* The settings of no row, and of a row.                                   *)
LEMMA NoSettings == Inventory!Settings(Inventory!NoInstance) \in SettingsType
BY DEF Inventory!Settings, Inventory!NoInstance, SettingsType, Inventory!NoCA, Inventory!Unset, CAs

LEMMA RowSettings ==
  ASSUME NEW row \in InstanceRow
  PROVE  /\ Inventory!Settings(row) \in SettingsType
         /\ Inventory!Settings(row).ca = row.ca /\ Inventory!Settings(row).tls = row.tls
         /\ Inventory!Settings(row).proto = row.proto /\ Inventory!Settings(row).port = row.port
BY DEF Inventory!Settings, SettingsType, InstanceRow

(* CreateInstance *)
LEMMA CreateInstanceInv ==
  ASSUME InventoryInv, NEW r \in Managers, NEW i \in Instances, NEW input \in Inventory!InputType,
         Inventory!CreateInstance(r, i, input)
  PROVE  InventoryInv'
<1> DEFINE q == [pc |-> IF input.mode = "verify" THEN "try" ELSE "insert", inst |-> i,
                 input |-> input, target |-> Inventory!ResolveTarget(input, "none"),
                 proof |-> Inventory!Settings(Inventory!NoInstance), then |-> "insert"]
<1>1. RequestsFit BY DEF InventoryInv
<1>2. dbReq' = [dbReq EXCEPT ![r] = q] /\ UNCHANGED Inventory!table /\ probed' = probed
  BY DEF Inventory!CreateInstance, Inventory!NoCA
<1>3. Inventory!ResolveTarget(input, "none") \in Target
      /\ Inventory!ResolveTarget(input, "none").proto = input.proto
  BY ResolveTyped DEF CAs
<1>4. q \in InstanceRequest BY <1>3, NoSettings DEF InstanceRequest
<1>5. q.input = input /\ q.target = Inventory!ResolveTarget(input, "none")
      /\ q.pc = (IF input.mode = "verify" THEN "try" ELSE "insert")
  OBVIOUS
<1> HIDE DEF q
<1>6. ReqFits(q, probed') BY <1>3, <1>4, <1>5 DEF ReqFits
<1>7. DOMAIN dbReq' = Managers /\ dbReq'[r] = q /\ \A s \in Managers \ {r} : dbReq'[s] = dbReq[s]
  BY <1>1, <1>2 DEF RequestsFit
<1>8. RequestsFit' BY <1>1, <1>2, <1>6, <1>7, RequestMoves
<1> QED BY <1>2, <1>8, TablesStay

(* The standalone trial. *)
LEMMA ProbeOnlyInv ==
  ASSUME InventoryInv, NEW r \in Managers, NEW i \in Instances, NEW input \in Inventory!InputType,
         Inventory!ProbeOnly(r, i, input)
  PROVE  InventoryInv'
<1> DEFINE c == IF inst[i].live THEN inst[i].ca ELSE "none"
           q == [pc |-> "try", inst |-> i,
                 input |-> input, target |-> Inventory!ResolveTarget(input, c),
                 proof |-> Inventory!Settings(Inventory!NoInstance), then |-> "idle"]
<1>1. RequestsFit /\ RowsTyped BY DEF InventoryInv
<1>2. dbReq' = [dbReq EXCEPT ![r] = q] /\ UNCHANGED Inventory!table /\ probed' = probed
      /\ input.mode = "verify"
  BY DEF Inventory!ProbeOnly, Inventory!NoCA
<1>c. c \in CAs BY <1>1 DEF RowsTyped, InstanceRow, CAs
<1> HIDE DEF c
<1>3. Inventory!ResolveTarget(input, c) \in Target
      /\ Inventory!ResolveTarget(input, c).proto = input.proto
  BY <1>c, ResolveTyped
<1>4. q \in InstanceRequest BY <1>3, NoSettings DEF InstanceRequest
<1>5. q.input = input /\ q.target = Inventory!ResolveTarget(input, c) /\ q.pc = "try" /\ q.then = "idle"
  OBVIOUS
<1> HIDE DEF q
<1>6. ReqFits(q, probed') BY <1>2, <1>3, <1>4, <1>5 DEF ReqFits
<1>7. DOMAIN dbReq' = Managers /\ dbReq'[r] = q /\ \A s \in Managers \ {r} : dbReq'[s] = dbReq[s]
  BY <1>1, <1>2 DEF RequestsFit
<1>8. RequestsFit' BY <1>1, <1>2, <1>6, <1>7, RequestMoves
<1> QED BY <1>2, <1>8, TablesStay

(* UpdateInstance: unchanged settings are those of the proof.              *)
LEMMA UpdateInstanceInv ==
  ASSUME InventoryInv, NEW r \in Managers, NEW i \in Instances, NEW input \in Inventory!InputType,
         Inventory!UpdateInstance(r, i, input)
  PROVE  InventoryInv'
<1> DEFINE cur == inst[i]
           mode == IF input.mode = "unset" THEN (IF cur.tls THEN "verify" ELSE "disable")
                   ELSE input.mode
           next == [input EXCEPT !.mode = mode]
           q == [pc |-> IF mode = "disable" THEN "update"
                        ELSE IF Inventory!TLSSettingsChanged(cur, next) THEN "try" ELSE "proved",
                 inst |-> i, input |-> next, target |-> Inventory!ResolveTarget(next, cur.ca),
                 proof |-> Inventory!Settings(cur), then |-> "proved"]
<1>1. RequestsFit /\ RowsTyped BY DEF InventoryInv
<1>2. dbReq' = [dbReq EXCEPT ![r] = q] /\ UNCHANGED Inventory!table /\ probed' = probed
  BY DEF Inventory!UpdateInstance
<1>a. cur \in InstanceRow BY <1>1 DEF RowsTyped
<1>b. cur.ca \in CAs /\ cur.tls \in BOOLEAN BY <1>a DEF InstanceRow
<1>m. mode \in {"disable", "verify"} BY <1>b DEF Inventory!InputType
<1>n. next \in Inventory!InputType /\ next.mode = mode BY <1>m DEF Inventory!InputType
<1> HIDE DEF mode, next, cur
<1>3. Inventory!ResolveTarget(next, cur.ca) \in Target
      /\ Inventory!ResolveTarget(next, cur.ca).proto = next.proto
  BY <1>n, <1>b, ResolveTyped
<1>s. Inventory!Settings(cur) \in SettingsType BY <1>a, RowSettings
<1>4. q \in InstanceRequest BY <1>3, <1>n, <1>s DEF InstanceRequest
<1>5. q.input = next /\ q.target = Inventory!ResolveTarget(next, cur.ca) /\ q.then = "proved"
      /\ q.proof = Inventory!Settings(cur)
      /\ q.pc = (IF mode = "disable" THEN "update"
                 ELSE IF Inventory!TLSSettingsChanged(cur, next) THEN "try" ELSE "proved")
  OBVIOUS
<1> HIDE DEF q
<1>6. ReqFits(q, probed')
  <2>1. CASE q.pc = "proved"
    <3>1. mode = "verify" /\ ~Inventory!TLSSettingsChanged(cur, next) BY <2>1, <1>5, <1>m
    <3>2. cur.proto = next.proto /\ cur.port = next.port /\ cur.tls = TRUE
          /\ cur.ca = Inventory!InputCA(next, cur.ca)
      BY <3>1, <1>b DEF Inventory!TLSSettingsChanged
    <3>3. q.proof.ca = cur.ca BY <1>5, <1>a, RowSettings
    <3>4. Stores(q) = [proto |-> cur.proto, port |-> cur.port, tls |-> cur.tls, ca |-> cur.ca]
      BY <3>2, <3>3, <1>5 DEF Stores
    <3>5. Stores(q) = q.proof BY <3>4, <1>5 DEF Inventory!Settings
    <3> QED BY <3>1, <3>5, <2>1, <1>4, <1>5, <1>n DEF ReqFits
  <2>2. CASE q.pc # "proved"
    BY <2>2, <1>m, <1>n, <1>3, <1>4, <1>5 DEF ReqFits
  <2> QED BY <2>1, <2>2
<1>7. DOMAIN dbReq' = Managers /\ dbReq'[r] = q /\ \A s \in Managers \ {r} : dbReq'[s] = dbReq[s]
  BY <1>1, <1>2 DEF RequestsFit
<1>8. RequestsFit' BY <1>1, <1>2, <1>6, <1>7, RequestMoves
<1> QED BY <1>2, <1>8, TablesStay

(* CreateAccount.                                                          *)
LEMMA CreateAccountInv ==
  ASSUME InventoryInv, NEW r \in Managers, NEW a \in Accounts, NEW i \in Instances,
         NEW pw \in Passwords, Inventory!CreateAccount(r, a, i, pw)
  PROVE  InventoryInv'
<1> DEFINE q == [pc |-> "account", acct |-> a, inst |-> i, pw |-> pw]
<1>1. RequestsFit BY DEF InventoryInv
<1>2. dbReq' = [dbReq EXCEPT ![r] = q] /\ UNCHANGED Inventory!table /\ probed' = probed
  BY DEF Inventory!CreateAccount
<1>4. q \in AccountRequest /\ q.pc = "account" BY DEF AccountRequest
<1> HIDE DEF q
<1>6. ReqFits(q, probed') BY <1>4 DEF ReqFits
<1>7. DOMAIN dbReq' = Managers /\ dbReq'[r] = q /\ \A s \in Managers \ {r} : dbReq'[s] = dbReq[s]
  BY <1>1, <1>2 DEF RequestsFit
<1>8. RequestsFit' BY <1>1, <1>2, <1>6, <1>7, RequestMoves
<1> QED BY <1>2, <1>8, TablesStay

(* TakeProbeSlot: the request is the same but for its place.               *)
LEMMA TakeProbeSlotInv ==
  ASSUME InventoryInv, NEW r \in Managers, Inventory!TakeProbeSlot(r)
  PROVE  InventoryInv'
<1> DEFINE q == [dbReq[r] EXCEPT !.pc = "probing"]
<1>1. RequestsFit BY DEF InventoryInv
<1>2. dbReq' = [dbReq EXCEPT ![r] = q] /\ UNCHANGED Inventory!table /\ probed' = probed
      /\ dbReq[r].pc = "try"
  BY DEF Inventory!TakeProbeSlot
<1>3. dbReq[r] \in InstanceRequest /\ ReqFits(dbReq[r], probed) BY <1>1, <1>2 DEF RequestsFit, ReqFits
<1>4. q \in InstanceRequest /\ q.pc = "probing" /\ q.input = dbReq[r].input
      /\ q.target = dbReq[r].target /\ q.then = dbReq[r].then
  BY <1>3 DEF InstanceRequest
<1> HIDE DEF q
<1>6. ReqFits(q, probed') BY <1>2, <1>3, <1>4 DEF ReqFits
<1>7. DOMAIN dbReq' = Managers /\ dbReq'[r] = q /\ \A s \in Managers \ {r} : dbReq'[s] = dbReq[s]
  BY <1>1, <1>2 DEF RequestsFit
<1>8. RequestsFit' BY <1>1, <1>2, <1>6, <1>7, RequestMoves
<1> QED BY <1>2, <1>8, TablesStay

(* Abandon.                                                                *)
LEMMA AbandonInv ==
  ASSUME InventoryInv, NEW r \in Managers, Inventory!Abandon(r)
  PROVE  InventoryInv'
<1>1. RequestsFit' BY RequestEnds DEF InventoryInv, Inventory!Abandon
<1> QED BY <1>1, TablesStay DEF Inventory!Abandon

(* ProbeTLS: an update goes on with the settings that were tried.          *)
LEMMA ProbedInv ==
  ASSUME InventoryInv, NEW r \in Managers, Inventory!Probed(r)
  PROVE  InventoryInv'
<1> DEFINE p == dbReq[r]
<1>1. RequestsFit BY DEF InventoryInv
<1>2. p.pc = "probing" /\ UNCHANGED Inventory!table BY DEF Inventory!Probed
<1>3. p \in InstanceRequest /\ ReqFits(p, probed) BY <1>1, <1>2 DEF RequestsFit, ReqFits
<1>4. p.then \in {"idle", "insert", "proved"} /\ p.input \in Inventory!InputType /\ p.target \in Target
      /\ p.proof \in SettingsType
  BY <1>3 DEF InstanceRequest
<1>5. p.input.mode = "verify" /\ p.target.proto = p.input.proto
      /\ (p.then = "insert" => p.target = Inventory!ResolveTarget(p.input, "none"))
  BY <1>2, <1>3 DEF ReqFits
<1>6. ASSUME Inventory!EndRequest(r), probed' = probed PROVE InventoryInv'
  <2>1. RequestsFit' BY <1>6, <1>1, RequestEnds
  <2> QED BY <2>1, <1>2, <1>6, TablesStay
<1>7. ASSUME p.then = "idle", probed' = probed, dbReq' = [dbReq EXCEPT ![r] = Inventory!IdleReq]
      PROVE InventoryInv'
  BY <1>6, <1>7 DEF Inventory!EndRequest
<1>8. ASSUME p.then = "insert", probed' = probed \cup {p.target},
             dbReq' = [dbReq EXCEPT ![r] = [p EXCEPT !.pc = "insert"]]
      PROVE InventoryInv'
  <2> DEFINE q == [p EXCEPT !.pc = "insert"]
  <2>1. q \in InstanceRequest /\ q.pc = "insert" /\ q.input = p.input BY <1>3 DEF InstanceRequest
  <2>2. DOMAIN dbReq' = Managers /\ dbReq'[r] = q /\ \A s \in Managers \ {r} : dbReq'[s] = dbReq[s]
    BY <1>1, <1>8 DEF RequestsFit
  <2> HIDE DEF q
  <2>3. ReqFits(q, probed') BY <2>1, <1>5, <1>8 DEF ReqFits
  <2>4. RequestsFit' BY <1>1, <1>8, <2>2, <2>3, RequestMoves
  <2> QED BY <1>2, <1>8, <2>4, TablesStay
<1>9. ASSUME p.then = "proved", probed' = probed \cup {p.target},
             dbReq' = [dbReq EXCEPT ![r] = [p EXCEPT !.pc = "proved", !.input.port = p.target.port,
                           !.input.ca = IF p.target.ca = "none" THEN "clear" ELSE p.target.ca]]
      PROVE InventoryInv'
  <2> DEFINE c == IF p.target.ca = "none" THEN "clear" ELSE p.target.ca
             q == WithCA(WithPort(AtPc(p, "proved"), p.target.port), c)
  <2>t. p.target.ca \in {"none", "c1"} /\ p.target.port \in {3306, 5432} BY <1>4, TargetFields
  <2>x. dbReq' = [dbReq EXCEPT ![r] = q] BY <1>9 DEF WithCA, WithPort, AtPc
  <2>c. c \in {"clear", "c1"} /\ (p.target.ca = "none" => c = "clear")
        /\ (p.target.ca # "none" => c = p.target.ca)
    BY <2>t
  <2> HIDE DEF c, p
  <2>1. /\ q \in InstanceRequest /\ q.pc = "proved" /\ q.proof = p.proof
        /\ q.input.proto = p.input.proto /\ q.input.port = p.target.port
        /\ q.input.mode = p.input.mode /\ q.input.ca = c
    BY <1>3, <2>t, <2>c, ProbedRecord
  <2> HIDE DEF q
  <2>2. DOMAIN dbReq' = Managers /\ dbReq'[r] = q /\ \A s \in Managers \ {r} : dbReq'[s] = dbReq[s]
    BY <1>1, <2>x DEF RequestsFit
  <2>d. Inventory!InputCA(q.input, q.proof.ca) = p.target.ca
    BY <2>1, <2>c, <2>t DEF Inventory!InputCA, Inventory!NoCA
  <2>e. Stores(q) = p.target BY <2>1, <2>d, <1>4, <1>5, StoresTarget
  <2>3. ReqFits(q, probed') BY <2>1, <2>e, <1>5, <1>9 DEF ReqFits
  <2>4. RequestsFit' BY <1>1, <1>9, <2>2, <2>3, RequestMoves
  <2> QED BY <1>2, <1>9, <2>4, TablesStay
<1> QED BY <1>4, <1>6, <1>7, <1>8, <1>9 DEF Inventory!Probed, Inventory!NoCA

(* The fields of an input.                                                 *)
LEMMA InputFields ==
  ASSUME NEW x \in Inventory!InputType
  PROVE  /\ x.proto \in {"mysql", "postgres"} /\ x.port \in {0, 3306, 5432}
         /\ x.mode \in {"unset", "disable", "verify"} /\ x.ca \in {"keep", "clear", "c1"}
         /\ x.status \in {"unset", "active", "disabled"}
BY InputTypeIs DEF InputSet

(* The row an insert or an update writes.                                  *)
Written(x, s, c) == Inventory!Normalize(x, x.mode = "verify", s, c)

LEMMA NormalizeTyped ==
  ASSUME NEW x \in Inventory!InputType, NEW s \in {"none", "active", "disabled"},
         NEW c \in CAs, NEW row, row = Written(x, s, c)
  PROVE  /\ row \in InstanceRow /\ row.proto = x.proto /\ row.port = x.port
         /\ x.mode = "verify" => row.tls /\ row.ca = Inventory!InputCA(x, c)
         /\ x.mode # "verify" => ~row.tls
         /\ row.status = s /\ row.live
<1>1. Inventory!InputCA(x, c) \in CAs /\ "none" \in CAs BY ResolveTyped DEF CAs
<1>2. x.proto \in {"mysql", "postgres"} /\ x.port \in {0, 3306, 5432} BY InputFields
<1>3. CASE x.mode = "verify"
  <2>1. row = [proto |-> x.proto, port |-> x.port, tls |-> TRUE, ca |-> Inventory!InputCA(x, c),
               status |-> s, live |-> TRUE]
    BY <1>3 DEF Written, Inventory!Normalize, Inventory!NoCA
  <2>2. row \in InstanceRow BY <1>1, <1>2, <2>1 DEF InstanceRow
  <2> QED BY <2>1, <2>2, <1>3
<1>4. CASE x.mode # "verify"
  <2>1. row = [proto |-> x.proto, port |-> x.port, tls |-> FALSE, ca |-> "none",
               status |-> s, live |-> TRUE]
    BY <1>4 DEF Written, Inventory!Normalize, Inventory!NoCA
  <2>2. row \in InstanceRow BY <1>1, <1>2, <2>1 DEF InstanceRow
  <2> QED BY <2>1, <2>2, <1>4
<1> QED BY <1>3, <1>4

(* An instance is written: it is listed, and those that refer to it see no *)
(* critical change.                                                        *)
LEMMA InstanceWritten ==
  ASSUME InventoryInv, NEW i \in Instances, NEW row \in InstanceRow, row.live,
         inst' = [inst EXCEPT ![i] = row], resource' = resource \cup {<<"instance", i>>},
         grant' \subseteq grant \cup {i}, UNCHANGED <<acct, op, probed, straddled>>,
         defaulted \subseteq defaulted', RequestsFit',
         row.tls => Inventory!Settings(row) \in probed \cup defaulted',
         \/ ~Inventory!ReferencedInstance(i)
         \/ Inventory!Settings(row) = Inventory!Settings(inst[i]) /\ row.status = inst[i].status
  PROVE  InventoryInv'
<1> USE DEF InventoryInv
<1>i. inst \in [Instances -> InstanceRow] /\ grant \subseteq Instances BY DEF RowsTyped
<1>f. inst' \in [Instances -> InstanceRow] /\ inst'[i] = row
      /\ \A j \in Instances \ {i} : inst'[j] = inst[j]
  BY <1>i
<1>1. RowsTyped' BY <1>f, <1>i DEF RowsTyped
<1>2. OperationsFit' BY DEF OperationsFit
<1>3. Inventory!StoredTLSWasTried'
  <2>1. ASSUME NEW j \in Instances, inst'[j].live, inst'[j].tls
        PROVE  Inventory!Settings(inst'[j]) \in probed' \cup defaulted'
    <3>1. CASE j = i BY <3>1, <2>1, <1>f
    <3>2. CASE j # i
      <4>1. inst'[j] = inst[j] BY <3>2, <1>f
      <4>2. Inventory!Settings(inst[j]) \in probed \cup defaulted
        BY <4>1, <2>1 DEF Inventory!StoredTLSWasTried
      <4> QED BY <4>1, <4>2
    <3> QED BY <3>1, <3>2
  <2> QED BY <2>1 DEF Inventory!StoredTLSWasTried, Inventory!Settings
<1>4. Inventory!OperationKeepsItsAdministrator'
  <2>1. ASSUME NEW o \in Operations, op'[o].pc = "live"
        PROVE  Inventory!UsableInstance(o)'
               /\ (Inventory!UsableAdministrator(o)' \/ Inventory!Deprovisioned(op[o].admin)')
    <3>0. op[o].pc = "live" BY <2>1
    <3>1. Inventory!UsableInstance(o)
          /\ (Inventory!UsableAdministrator(o) \/ Inventory!Deprovisioned(op[o].admin))
      BY <3>0 DEF Inventory!OperationKeepsItsAdministrator
    <3>2. Inventory!UsableAdministrator(o)' \/ Inventory!Deprovisioned(op[o].admin)'
      BY <3>1 DEF Inventory!UsableAdministrator, Inventory!Deprovisioned
    <3>3. op[o].inst \in Instances BY <3>0 DEF OperationsFit, OpFits, OperationRecord
    <3>4. CASE op[o].inst # i
      <4>1. inst'[op[o].inst] = inst[op[o].inst] BY <3>3, <3>4, <1>f
      <4> QED BY <4>1, <3>1, <3>2 DEF Inventory!UsableInstance, Inventory!Settings
    <3>5. CASE op[o].inst = i
      <4>1. Inventory!ReferencedInstance(i) BY <3>0, <3>5 DEF Inventory!ReferencedInstance
      <4>2. Inventory!Settings(row) = Inventory!Settings(inst[i]) /\ row.status = inst[i].status
        BY <4>1
      <4>3. row.proto = inst[i].proto BY <4>2, <1>i, RowSettings
      <4>4. /\ inst[i].status = "active" /\ inst[i].proto = "mysql"
            /\ Inventory!Settings(inst[i]) = op[o].proof
        BY <3>1, <3>5 DEF Inventory!UsableInstance
      <4>5. /\ row.live /\ row.status = "active" /\ row.proto = "mysql"
            /\ Inventory!Settings(row) = op[o].proof
        BY <4>2, <4>3, <4>4
      <4>6. inst'[op'[o].inst] = row /\ op'[o] = op[o] BY <3>5, <1>f
      <4> QED BY <4>5, <4>6, <3>2 DEF Inventory!UsableInstance, Inventory!Settings
    <3> QED BY <3>4, <3>5
  <2> QED BY <2>1 DEF Inventory!OperationKeepsItsAdministrator
<1>5. Inventory!InventoryInStep'
  <2>0. resource = Listed(LiveInstances, LiveAccounts) /\ (\A j \in grant : inst[j].live)
        /\ (\A a \in Accounts : acct[a].live /\ ~inst[acct[a].inst].live => a \in straddled)
    BY InStepListed
  <2>1. LiveInstances' = LiveInstances \cup {i} BY <1>f DEF LiveInstances
  <2>2. LiveAccounts' = LiveAccounts BY DEF LiveAccounts
  <2>3. resource' = Listed(LiveInstances', LiveAccounts')
    BY <2>0, <2>1, <2>2, ListedAddInstance
  <2>4. ASSUME NEW j \in grant' PROVE inst'[j].live
    BY <2>0, <2>4, <1>f, <1>i
  <2>5. ASSUME NEW a \in Accounts, acct'[a].live, ~inst'[acct'[a].inst].live PROVE a \in straddled'
    <3>1. acct[a].live /\ acct[a].inst \in Instances BY <2>5 DEF RowsTyped
    <3>2. ~inst[acct[a].inst].live BY <3>1, <2>5, <1>f
    <3> QED BY <3>1, <3>2, <2>0
  <2>6. /\ resource' = Listed(LiveInstances', LiveAccounts')
        /\ \A j \in grant' : inst'[j].live
        /\ \A a \in Accounts : acct'[a].live /\ ~inst'[acct'[a].inst].live => a \in straddled'
    BY <2>3, <2>4, <2>5
  <2> QED BY <2>6
      DEF Inventory!InventoryInStep, Listed, LiveInstances, LiveAccounts
<1> QED BY <1>1, <1>2, <1>3, <1>4, <1>5

(* CreateDatabaseInstanceWithCreatorGrant: the row was tried as it is, or without a port.*)
LEMMA CreateDatabaseInstanceInv ==
  ASSUME InventoryInv, NEW r \in Managers, NEW s \in BOOLEAN,
         Inventory!CreateDatabaseInstanceWithCreatorGrant(r, s)
  PROVE  InventoryInv'
<1> DEFINE q == dbReq[r]
           i == q.inst
           x == q.input
           status == IF x.status = "unset" THEN "active" ELSE x.status
           base == Written(x, status, "none")
           row == [base EXCEPT !.port = Inventory!ColumnPort(@)]
<1>1. RequestsFit /\ RowsTyped BY DEF InventoryInv
<1>2. /\ q.pc = "insert" /\ ~Inventory!Exists(i)
      /\ inst' = [inst EXCEPT ![i] = row]
      /\ resource' = resource \cup {<<"instance", i>>}
      /\ grant' = IF s THEN grant ELSE grant \cup {i}
      /\ defaulted' = IF x.port = Inventory!Unset /\ x.mode = "verify"
                      THEN defaulted \cup {Inventory!Settings(row)} ELSE defaulted
      /\ Inventory!EndRequest(r)
      /\ UNCHANGED <<acct, op, started, probed, straddled>>
  BY DEF Inventory!CreateDatabaseInstanceWithCreatorGrant, Inventory!SyncResource, Inventory!NoCA,
     Written
<1>3. q \in InstanceRequest /\ ReqFits(q, probed) BY <1>1, <1>2 DEF RequestsFit, ReqFits
<1>4. i \in Instances /\ x \in Inventory!InputType BY <1>3 DEF InstanceRequest
<1>5. x.mode = "verify" => Inventory!ResolveTarget(x, "none") \in probed BY <1>2, <1>3 DEF ReqFits
<1>x. x.proto \in {"mysql", "postgres"} /\ x.port \in {0, 3306, 5432}
      /\ x.status \in {"unset", "active", "disabled"}
  BY <1>4, InputFields
<1>t. status \in {"none", "active", "disabled"} BY <1>x
<1>6. /\ base \in InstanceRow /\ base.proto = x.proto /\ base.port = x.port
      /\ x.mode = "verify" => base.tls /\ base.ca = Inventory!InputCA(x, "none")
      /\ x.mode # "verify" => ~base.tls
      /\ base.live
  <2>2. base = Written(x, status, "none") OBVIOUS
  <2> HIDE DEF status, x, base
  <2>1. "none" \in CAs BY DEF CAs
  <2> QED BY <2>1, <2>2, <1>4, <1>t, NormalizeTyped
<1> DEFINE n == Inventory!ColumnPort(x.port)
<1>7. n \in {0, 3306, 5432} /\ (x.port # 0 => n = x.port)
  BY <1>x DEF Inventory!ColumnPort, Inventory!Unset
<1>8. row = [base EXCEPT !.port = n] BY <1>6
<1> HIDE DEF n, base
<1>9. row \in InstanceRow /\ row.proto = x.proto /\ row.port = n /\ row.ca = base.ca
  BY <1>6, <1>7, <1>8 DEF InstanceRow
<1>10. row.tls = base.tls /\ row.live
  BY <1>6, <1>8 DEF InstanceRow
<1>11. x.mode = "verify" /\ x.port # 0 => Inventory!Settings(row) = Inventory!ResolveTarget(x, "none")
  <2>1. SUFFICES ASSUME x.mode = "verify", x.port # 0
                 PROVE  Inventory!Settings(row) = Inventory!ResolveTarget(x, "none")
    OBVIOUS
  <2>2. row.proto = x.proto /\ row.port = x.port /\ row.tls = TRUE
        /\ row.ca = Inventory!InputCA(x, "none")
    BY <2>1, <1>6, <1>7, <1>9, <1>10
  <2>3. Inventory!ResolveTarget(x, "none") =
          [proto |-> x.proto, port |-> x.port, tls |-> TRUE, ca |-> Inventory!InputCA(x, "none")]
    BY <2>1 DEF Inventory!ResolveTarget, Inventory!Unset
  <2> HIDE DEF row, x
  <2> QED BY <2>2, <2>3 DEF Inventory!Settings
<1>12. row.tls => Inventory!Settings(row) \in probed \cup defaulted'
  <2> HIDE DEF row
  <2> QED BY <1>2, <1>5, <1>6, <1>10, <1>11 DEF Inventory!Unset
<1>13. ~Inventory!ReferencedInstance(i)
  <2>1. inst[i].live = FALSE BY <1>2 DEF Inventory!Exists, Inventory!NoInstance
  <2> QED BY <2>1 DEF InventoryInv, Inventory!ReferencedInstance,
          Inventory!OperationKeepsItsAdministrator, Inventory!UsableInstance
<1>14. RequestsFit' BY <1>1, <1>2, RequestEnds
<1> HIDE DEF row, x, i
<1>15. defaulted \subseteq defaulted' /\ grant' \subseteq grant \cup {i} BY <1>2
<1> QED BY <1>2, <1>4, <1>9, <1>10, <1>12, <1>13, <1>14, <1>15, InstanceWritten

(* An update that changes nothing, or with a proof, or without TLS.        *)
LEMMA UpdateDatabaseInstanceInv ==
  ASSUME InventoryInv, NEW r \in Managers, Inventory!UpdateDatabaseInstance(r)
  PROVE  InventoryInv'
<1> DEFINE q == dbReq[r]
           i == q.inst
           cur == inst[i]
           x == q.input
           status == IF x.status = "unset" THEN cur.status ELSE x.status
           next == Written(x, status, cur.ca)
           allowed == /\ cur.live
                      /\ q.pc = "proved" => Inventory!MatchesTLSProof(cur, q.proof)
                      /\ Inventory!CriticalChange(cur, next) => ~Inventory!ReferencedInstance(i)
<1>1. RequestsFit /\ RowsTyped BY DEF InventoryInv
<1>2. /\ q.pc \in {"update", "proved"}
      /\ IF allowed
         THEN inst' = [inst EXCEPT ![i] = next] /\ resource' = resource \cup {<<"instance", i>>}
         ELSE UNCHANGED <<inst, resource>>
      /\ Inventory!EndRequest(r)
      /\ UNCHANGED <<acct, grant, op, started, probed, defaulted, straddled>>
  BY DEF Inventory!UpdateDatabaseInstance, Inventory!SyncResource, Written
<1>3. q \in InstanceRequest /\ ReqFits(q, probed) BY <1>1, <1>2 DEF RequestsFit, ReqFits
<1>4. i \in Instances /\ x \in Inventory!InputType BY <1>3 DEF InstanceRequest
<1>5. RequestsFit' BY <1>1, <1>2, RequestEnds
<1>6. CASE ~allowed
  <2>1. UNCHANGED Inventory!table BY <1>2, <1>6 DEF Inventory!table
  <2> QED BY <2>1, <1>2, <1>5, TablesStay
<1>7. CASE allowed
  <2>c. cur \in InstanceRow BY <1>1, <1>4 DEF RowsTyped
  <2>d. cur.ca \in CAs /\ cur.status \in {"none", "active", "disabled"} BY <2>c DEF InstanceRow
  <2>x. x.status \in {"unset", "active", "disabled"} BY <1>4, InputFields
  <2>t. status \in {"none", "active", "disabled"} BY <2>d, <2>x
  <2>1. /\ next \in InstanceRow /\ next.proto = x.proto /\ next.port = x.port
        /\ x.mode = "verify" => next.tls /\ next.ca = Inventory!InputCA(x, cur.ca)
        /\ x.mode # "verify" => ~next.tls
        /\ next.live
    <3>1. next = Written(x, status, cur.ca) OBVIOUS
    <3> HIDE DEF status, x, cur, next
    <3> QED BY <3>1, <1>4, <2>d, <2>t, NormalizeTyped
  <2>2. inst' = [inst EXCEPT ![i] = next] /\ resource' = resource \cup {<<"instance", i>>} BY <1>2, <1>7
  <2> HIDE DEF next
  <2>3. next.tls => Inventory!Settings(next) \in probed \cup defaulted'
    <3>1. SUFFICES ASSUME next.tls PROVE Inventory!Settings(next) \in probed \cup defaulted'
      OBVIOUS
    <3>2. x.mode = "verify" BY <3>1, <2>1
    <3>3. q.pc = "proved" BY <3>2, <1>2, <1>3 DEF ReqFits
    <3>4. Stores(q) \in probed \cup {q.proof} BY <3>3, <1>3 DEF ReqFits
    <3>5. Inventory!Settings(cur) = q.proof BY <3>3, <1>7 DEF Inventory!MatchesTLSProof
    <3>6. q.proof.ca = cur.ca BY <3>5, <2>c, RowSettings
    <3>7. next.proto = x.proto /\ next.port = x.port /\ next.tls = TRUE
          /\ next.ca = Inventory!InputCA(x, q.proof.ca)
      BY <3>2, <3>6, <2>1
    <3>8. Inventory!Settings(next) = Stores(q) BY <3>7 DEF Inventory!Settings, Stores
    <3>9. CASE Stores(q) \in probed BY <3>8, <3>9
    <3>10. CASE Stores(q) = q.proof
      <4>1. Inventory!Settings(cur).tls = TRUE BY <3>10, <3>5 DEF Stores
      <4>2. cur.tls /\ cur.live BY <4>1, <2>c, <1>7, RowSettings
      <4>3. Inventory!Settings(cur) \in probed \cup defaulted
        BY <4>2, <1>4 DEF InventoryInv, Inventory!StoredTLSWasTried
      <4> QED BY <4>3, <3>5, <3>8, <3>10, <1>2
    <3> QED BY <3>4, <3>9, <3>10
  <2>4. \/ ~Inventory!ReferencedInstance(i)
        \/ Inventory!Settings(next) = Inventory!Settings(inst[i]) /\ next.status = inst[i].status
    BY <1>7 DEF Inventory!CriticalChange
  <2>5. grant' \subseteq grant \cup {i} /\ defaulted \subseteq defaulted'
        /\ UNCHANGED <<acct, op, probed, straddled>>
    BY <1>2
  <2> HIDE DEF i
  <2> QED BY <1>4, <1>5, <2>1, <2>2, <2>3, <2>4, <2>5, InstanceWritten
<1> QED BY <1>6, <1>7

(* The row a takes over, as far as the operations that use it can tell.    *)
KeepsUse(old, new) ==
    /\ old.live <=> new.live
    /\ old.status = "active" => new.status = "active"
    /\ old.pw = new.pw /\ old.op = new.op

(* Accounts change, operations end: the administrators of the others stay. *)
LEMMA AdministratorsKept ==
  ASSUME InventoryInv, inst' = inst, DOMAIN op' = Operations,
         \A o \in Operations : op'[o] = op[o] \/ op'[o].pc = "none",
         \A a \in Accounts : acct[a].status # "none" =>
            acct'[a].inst = acct[a].inst /\ acct'[a].status # "none",
         \A a \in Accounts : acct[a].status # "none" /\ Inventory!ReferencedAdministrator(a) =>
            (acct'[a].op # "none" /\ ~acct'[a].live) \/ KeepsUse(acct[a], acct'[a])
  PROVE  OperationsFit' /\ Inventory!OperationKeepsItsAdministrator'
<1> USE DEF InventoryInv
<1>1. OperationsFit'
  <2>1. ASSUME NEW o \in Operations PROVE OpFits(op'[o], acct')
    <3>1. OpFits(op[o], acct) BY DEF OperationsFit
    <3>2. CASE op'[o].pc = "none" BY <3>2 DEF OpFits
    <3>3. CASE op'[o] = op[o] /\ op[o].pc # "none"
      <4>1. op[o] \in OperationRecord /\ acct[op[o].admin].inst = op[o].inst
            /\ acct[op[o].admin].status # "none"
        BY <3>1, <3>3 DEF OpFits
      <4>2. op[o].admin \in Accounts BY <4>1 DEF OperationRecord
      <4> QED BY <4>1, <4>2, <3>3 DEF OpFits
    <3> QED BY <3>2, <3>3
  <2> QED BY <2>1 DEF OperationsFit
<1>2. Inventory!OperationKeepsItsAdministrator'
  <2>1. ASSUME NEW o \in Operations, op'[o].pc = "live"
        PROVE  Inventory!UsableInstance(o)'
               /\ (Inventory!UsableAdministrator(o)' \/ Inventory!Deprovisioned(op[o].admin)')
    <3>0. op[o].pc = "live" /\ op'[o] = op[o] BY <2>1
    <3>1. Inventory!UsableInstance(o)
          /\ (Inventory!UsableAdministrator(o) \/ Inventory!Deprovisioned(op[o].admin))
      BY <3>0 DEF Inventory!OperationKeepsItsAdministrator
    <3>2. op[o].admin \in Accounts /\ acct[op[o].admin].status # "none"
      BY <3>0 DEF OperationsFit, OpFits, OperationRecord
    <3>3. Inventory!ReferencedAdministrator(op[o].admin)
      BY <3>0 DEF Inventory!ReferencedAdministrator
    <3>4. Inventory!UsableInstance(o)'
      BY <3>0, <3>1 DEF Inventory!UsableInstance, Inventory!Settings
    <3>5. CASE acct'[op[o].admin].op # "none" /\ ~acct'[op[o].admin].live
      BY <3>5, <3>4, <3>0 DEF Inventory!Deprovisioned
    <3>6. CASE KeepsUse(acct[op[o].admin], acct'[op[o].admin])
      BY <3>6, <3>0, <3>1, <3>4
         DEF Inventory!UsableAdministrator, Inventory!Deprovisioned, KeepsUse
    <3> QED BY <3>2, <3>3, <3>5, <3>6
  <2> QED BY <2>1 DEF Inventory!OperationKeepsItsAdministrator
<1> QED BY <1>1, <1>2

(* Accounts change: the rest of the invariant.                             *)
LEMMA AccountsChange ==
  ASSUME InventoryInv, acct' \in [Accounts -> AccountRow],
         \A a \in Accounts : acct'[a].live => acct'[a].inst \in Instances /\ acct'[a].status # "none",
         UNCHANGED <<inst, probed, defaulted>>, grant' = grant,
         RequestsFit', OperationsFit', Inventory!OperationKeepsItsAdministrator',
         resource' = Listed(LiveInstances, LiveAccounts'),
         \A a \in Accounts : acct'[a].live /\ ~inst[acct'[a].inst].live => a \in straddled'
  PROVE  InventoryInv'
<1>1. RowsTyped' BY DEF InventoryInv, RowsTyped
<1>2. Inventory!StoredTLSWasTried'
  BY DEF InventoryInv, Inventory!StoredTLSWasTried, Inventory!Settings
<1>3. LiveInstances' = LiveInstances BY DEF LiveInstances
<1>4. \A j \in grant' : inst'[j].live BY InStepListed DEF InventoryInv
<1>5. /\ resource' = Listed(LiveInstances', LiveAccounts')
      /\ \A j \in grant' : inst'[j].live
      /\ \A a \in Accounts : acct'[a].live /\ ~inst'[acct'[a].inst].live => a \in straddled'
  BY <1>3, <1>4
<1>6. Inventory!InventoryInStep'
  BY <1>5 DEF Inventory!InventoryInStep, Listed, LiveInstances, LiveAccounts
<1> QED BY <1>1, <1>2, <1>6 DEF InventoryInv

(* An identifier that was never used.                                      *)
LEMMA FreshAccount ==
  ASSUME NEW a, acct[a] = Inventory!NoAccount
  PROVE  acct[a].status = "none" /\ ~acct[a].live
BY DEF Inventory!NoAccount

(* An account is inserted, by a request or for an operation.               *)
LEMMA AccountInserted ==
  ASSUME InventoryInv, NEW a \in Accounts, acct[a] = Inventory!NoAccount,
         NEW i \in Instances, NEW pw \in Passwords \cup {"none"}, NEW o \in Operations \cup {"none"},
         acct' = [acct EXCEPT ![a] = [inst |-> i, pw |-> pw, status |-> "active", op |-> o,
                                      live |-> TRUE]],
         resource' = resource \cup {<<"account", a>>},
         UNCHANGED <<inst, grant, op, probed, defaulted>>, RequestsFit',
         straddled \subseteq straddled', ~inst[i].live => a \in straddled'
  PROVE  InventoryInv'
<1> DEFINE row == [inst |-> i, pw |-> pw, status |-> "active", op |-> o, live |-> TRUE]
<1>0. RowsTyped /\ OperationsFit BY DEF InventoryInv
<1>1. row \in AccountRow /\ row.inst = i /\ row.status = "active" /\ row.live BY DEF AccountRow
<1>2. acct' = [acct EXCEPT ![a] = row] OBVIOUS
<1> HIDE DEF row
<1>3. acct' \in [Accounts -> AccountRow] /\ acct'[a] = row
      /\ \A b \in Accounts \ {a} : acct'[b] = acct[b]
  BY <1>0, <1>1, <1>2 DEF RowsTyped
<1>f. acct[a].status = "none" /\ ~acct[a].live BY FreshAccount
<1>4. \A b \in Accounts : acct[b].status # "none" => acct'[b] = acct[b] BY <1>3, <1>f
<1>5. OperationsFit' /\ Inventory!OperationKeepsItsAdministrator'
  <2>1. DOMAIN op' = Operations /\ \A p \in Operations : op'[p] = op[p] BY <1>0 DEF OperationsFit
  <2>2. \A b \in Accounts : acct[b].status # "none" => KeepsUse(acct[b], acct'[b])
    BY <1>4 DEF KeepsUse
  <2> QED BY <2>1, <2>2, <1>4, AdministratorsKept
<1>6. \A b \in Accounts : acct'[b].live => acct'[b].inst \in Instances /\ acct'[b].status # "none"
  BY <1>0, <1>1, <1>3 DEF RowsTyped
<1>7. LiveAccounts' = LiveAccounts \cup {a} BY <1>1, <1>3 DEF LiveAccounts
<1>8. resource' = Listed(LiveInstances, LiveAccounts')
  BY <1>7, AccountListed DEF InventoryInv
<1>9. ASSUME NEW b \in Accounts, acct'[b].live, ~inst[acct'[b].inst].live PROVE b \in straddled'
  <2>1. CASE b = a BY <2>1, <1>9, <1>1, <1>3
  <2>2. CASE b # a
    <3>1. acct'[b] = acct[b] BY <2>2, <1>3
    <3> QED BY <3>1, <1>9, InStepListed DEF InventoryInv
  <2> QED BY <2>1, <2>2
<1> QED BY <1>3, <1>5, <1>6, <1>8, <1>9, AccountsChange

(* AddDatabaseAccount: the instance may be gone by now.                    *)
LEMMA AddDatabaseAccountInv ==
  ASSUME InventoryInv, NEW r \in Managers, Inventory!AddDatabaseAccount(r)
  PROVE  InventoryInv'
<1> DEFINE q == dbReq[r]
           a == q.acct
<1>1. RequestsFit BY DEF InventoryInv
<1>2. /\ q.pc = "account" /\ Inventory!EndRequest(r)
      /\ UNCHANGED <<inst, grant, op, started, probed, defaulted>>
  BY DEF Inventory!AddDatabaseAccount
<1>3. q \in AccountRequest BY <1>1, <1>2 DEF RequestsFit, ReqFits
<1>4. a \in Accounts /\ q.inst \in Instances /\ q.pw \in Passwords BY <1>3 DEF AccountRequest
<1>5. RequestsFit' BY <1>1, <1>2, RequestEnds
<1>6. CASE acct[a] = Inventory!NoAccount
  <2>1. /\ acct' = [acct EXCEPT ![a] = [inst |-> q.inst, pw |-> q.pw, status |-> "active",
                                        op |-> "none", live |-> TRUE]]
        /\ resource' = resource \cup {<<"account", a>>}
        /\ straddled' = IF inst[q.inst].live THEN straddled ELSE straddled \cup {a}
    BY <1>6 DEF Inventory!AddDatabaseAccount, Inventory!SyncResource
  <2>2. straddled \subseteq straddled' /\ (~inst[q.inst].live => a \in straddled') BY <2>1
  <2> HIDE DEF q, a
  <2> QED BY <2>1, <2>2, <1>2, <1>4, <1>5, <1>6, AccountInserted
<1>7. CASE acct[a] # Inventory!NoAccount
  <2>1. UNCHANGED <<acct, resource, straddled>> BY <1>7 DEF Inventory!AddDatabaseAccount
  <2>2. UNCHANGED Inventory!table BY <2>1, <1>2 DEF Inventory!table
  <2> QED BY <2>2, <1>2, <1>5, TablesStay
<1> QED BY <1>6, <1>7

(* ActivateDatabaseProvisioningOperation: the instance is still there.     *)
LEMMA ActivateInv ==
  ASSUME InventoryInv, NEW o \in Operations, NEW a \in Accounts,
         Inventory!ActivateDatabaseProvisioningOperation(o, a)
  PROVE  InventoryInv'
<1>1. /\ op[o].pc = "live" /\ acct[a] = Inventory!NoAccount
      /\ acct' = [acct EXCEPT ![a] = [inst |-> op[o].inst, pw |-> op[o].pw, status |-> "active",
                                      op |-> o, live |-> TRUE]]
      /\ resource' = resource \cup {<<"account", a>>}
      /\ UNCHANGED <<inst, grant, dbReq, op, started, probed, defaulted, straddled>>
  BY DEF Inventory!ActivateDatabaseProvisioningOperation, Inventory!SyncResource
<1>2. op[o].inst \in Instances /\ op[o].pw \in Passwords \cup {"none"}
  BY <1>1 DEF InventoryInv, OperationsFit, OpFits, OperationRecord
<1>3. inst[op[o].inst].live
  BY <1>1 DEF InventoryInv, Inventory!OperationKeepsItsAdministrator, Inventory!UsableInstance
<1>4. RequestsFit' BY <1>1, RequestsStay DEF InventoryInv
<1> QED BY <1>1, <1>2, <1>3, <1>4, AccountInserted

(* UpdateDatabaseAccount: an administrator keeps its password and stays active.*)
LEMMA UpdateDatabaseAccountInv ==
  ASSUME InventoryInv, NEW a \in Accounts, NEW pw \in Passwords \cup {"unset"},
         NEW s \in {"unset", "active", "disabled"}, Inventory!UpdateDatabaseAccount(a, pw, s)
  PROVE  InventoryInv'
<1> DEFINE row == [acct[a] EXCEPT !.pw = IF pw = "unset" THEN @ ELSE pw,
                                  !.status = IF s = "unset" THEN @ ELSE s]
<1>0. RowsTyped /\ OperationsFit BY DEF InventoryInv
<1>1. /\ acct[a].live /\ inst[acct[a].inst].live
      /\ (pw # "unset" \/ s = "disabled" => ~Inventory!ReferencedAdministrator(a))
      /\ resource' = resource \cup {<<"account", a>>}
      /\ UNCHANGED <<inst, grant, dbReq, op, probed, defaulted, straddled>>
  BY DEF Inventory!UpdateDatabaseAccount, Inventory!ActiveAccount, Inventory!SyncResource
<1>2. acct' = [acct EXCEPT ![a] = row] BY DEF Inventory!UpdateDatabaseAccount
<1>3. acct[a] \in AccountRow /\ acct[a].inst \in Instances /\ acct[a].status # "none"
  BY <1>0, <1>1 DEF RowsTyped
<1>4. /\ row \in AccountRow /\ row.inst = acct[a].inst /\ row.op = acct[a].op
      /\ row.pw = (IF pw = "unset" THEN acct[a].pw ELSE pw)
      /\ row.status = (IF s = "unset" THEN acct[a].status ELSE s)
  BY <1>3 DEF AccountRow
<1>l. row.live <=> acct[a].live BY <1>3 DEF AccountRow
<1> HIDE DEF row
<1>5. acct' \in [Accounts -> AccountRow] /\ acct'[a] = row
      /\ \A b \in Accounts \ {a} : acct'[b] = acct[b]
  BY <1>0, <1>2, <1>4 DEF RowsTyped
<1>s. row.status # "none" BY <1>3, <1>4
<1>6. OperationsFit' /\ Inventory!OperationKeepsItsAdministrator'
  <2>1. DOMAIN op' = Operations /\ \A p \in Operations : op'[p] = op[p] BY <1>0, <1>1 DEF OperationsFit
  <2>2. \A b \in Accounts : acct[b].status # "none" =>
            acct'[b].inst = acct[b].inst /\ acct'[b].status # "none"
    BY <1>4, <1>5, <1>s
  <2>3. ASSUME NEW b \in Accounts, Inventory!ReferencedAdministrator(b)
        PROVE  KeepsUse(acct[b], acct'[b])
    <3>1. CASE b = a
      <4>1. pw = "unset" /\ s # "disabled" BY <2>3, <3>1, <1>1
      <4> QED BY <4>1, <3>1, <1>4, <1>l, <1>5 DEF KeepsUse
    <3>2. CASE b # a BY <3>2, <1>5 DEF KeepsUse
    <3> QED BY <3>1, <3>2
  <2> QED BY <2>1, <2>2, <2>3, <1>1, AdministratorsKept
<1>7. \A b \in Accounts : acct'[b].live => acct'[b].inst \in Instances /\ acct'[b].status # "none"
  BY <1>0, <1>3, <1>4, <1>5, <1>s DEF RowsTyped
<1>8. LiveAccounts' = LiveAccounts \cup {a} BY <1>1, <1>l, <1>5 DEF LiveAccounts
<1>9. resource' = Listed(LiveInstances, LiveAccounts')
  BY <1>1, <1>8, AccountListed DEF InventoryInv
<1>10. ASSUME NEW b \in Accounts, acct'[b].live, ~inst[acct'[b].inst].live PROVE b \in straddled'
  <2>1. CASE b = a BY <2>1, <1>10, <1>1, <1>4, <1>5
  <2>2. CASE b # a
    <3>1. acct'[b] = acct[b] BY <2>2, <1>5
    <3> QED BY <3>1, <1>1, <1>10, InStepListed DEF InventoryInv
  <2> QED BY <2>1, <2>2
<1>11. RequestsFit' BY <1>1, RequestsStay DEF InventoryInv
<1> QED BY <1>1, <1>5, <1>6, <1>7, <1>9, <1>10, <1>11, AccountsChange

(* Accounts are removed.                                                   *)
LEMMA RemovedRow ==
  ASSUME NEW row \in AccountRow, NEW y, y = Inventory!SoftDeleted(row)
  PROVE  /\ y \in AccountRow /\ ~y.live /\ y.inst = row.inst
         /\ y.status = "disabled" /\ y.op = row.op /\ y.pw = row.pw
<1>1. PICK z \in BOOLEAN : z = FALSE OBVIOUS
<1>2. y = [row EXCEPT !.live = z, !.status = "disabled"] BY <1>1 DEF Inventory!SoftDeleted
<1>3. /\ y \in AccountRow /\ y.live = z /\ y.inst = row.inst
      /\ y.status = "disabled" /\ y.op = row.op /\ y.pw = row.pw
  BY <1>2 DEF AccountRow
<1> QED BY <1>1, <1>3

LEMMA AccountsGone ==
  ASSUME RowsTyped, NEW B \in SUBSET Accounts,
         acct' \in [Accounts -> AccountRow],
         \A b \in Accounts : acct'[b] = IF b \in B THEN Inventory!SoftDeleted(acct[b]) ELSE acct[b]
  PROVE  /\ \A b \in Accounts : acct[b].status # "none" =>
               acct'[b].inst = acct[b].inst /\ acct'[b].status # "none"
         /\ \A b \in Accounts : acct'[b].live => b \notin B /\ acct'[b] = acct[b]
         /\ \A b \in Accounts : acct'[b].live =>
               acct'[b].inst \in Instances /\ acct'[b].status # "none"
         /\ LiveAccounts' = LiveAccounts \ B
         /\ \A b \in Accounts \ B : KeepsUse(acct[b], acct'[b])
<1>1. ASSUME NEW b \in B
      PROVE  /\ acct'[b].inst = acct[b].inst /\ acct'[b].status # "none" /\ ~acct'[b].live
  BY RemovedRow DEF RowsTyped
<1>2. \A b \in Accounts \ B : acct'[b] = acct[b] OBVIOUS
<1>3. \A b \in Accounts : acct'[b].live => b \notin B /\ acct'[b] = acct[b] BY <1>1, <1>2
<1>4. \A b \in Accounts : acct'[b].live => acct'[b].inst \in Instances /\ acct'[b].status # "none"
  BY <1>3 DEF RowsTyped
<1>5. LiveAccounts' = LiveAccounts \ B BY <1>1, <1>2 DEF LiveAccounts
<1>6. \A b \in Accounts \ B : KeepsUse(acct[b], acct'[b]) BY <1>2 DEF KeepsUse
<1> QED BY <1>1, <1>2, <1>3, <1>4, <1>5, <1>6

(* DeleteDatabaseAccount: not the administrator of an operation.           *)
LEMMA DeleteDatabaseAccountInv ==
  ASSUME InventoryInv, NEW a \in Accounts, Inventory!DeleteDatabaseAccount(a)
  PROVE  InventoryInv'
<1>0. RowsTyped /\ OperationsFit BY DEF InventoryInv
<1>1. /\ ~Inventory!ReferencedAdministrator(a)
      /\ acct' = [acct EXCEPT ![a] = Inventory!SoftDeleted(acct[a])]
      /\ resource' = resource \ {<<"account", a>>}
      /\ grant' = {i \in grant : <<"instance", i>> \notin {<<"account", a>>}}
      /\ UNCHANGED <<inst, dbReq, op, probed, defaulted, straddled>>
  BY DEF Inventory!DeleteDatabaseAccount, Inventory!DeleteResource
<1>2. acct[a] \in AccountRow BY <1>0 DEF RowsTyped
<1>3. acct' \in [Accounts -> AccountRow]
      /\ \A b \in Accounts : acct'[b] = IF b \in {a} THEN Inventory!SoftDeleted(acct[b]) ELSE acct[b]
  BY <1>0, <1>1, <1>2, RemovedRow DEF RowsTyped
<1>4. /\ \A b \in Accounts : acct[b].status # "none" =>
            acct'[b].inst = acct[b].inst /\ acct'[b].status # "none"
      /\ \A b \in Accounts : acct'[b].live => b \notin {a} /\ acct'[b] = acct[b]
      /\ \A b \in Accounts : acct'[b].live =>
            acct'[b].inst \in Instances /\ acct'[b].status # "none"
      /\ LiveAccounts' = LiveAccounts \ {a}
      /\ \A b \in Accounts \ {a} : KeepsUse(acct[b], acct'[b])
  <2>1. {a} \in SUBSET Accounts OBVIOUS
  <2> QED BY <2>1, <1>0, <1>3, AccountsGone
<1>5. OperationsFit' /\ Inventory!OperationKeepsItsAdministrator'
  <2>1. DOMAIN op' = Operations /\ \A p \in Operations : op'[p] = op[p] BY <1>0, <1>1 DEF OperationsFit
  <2> QED BY <2>1, <1>1, <1>4, AdministratorsKept
<1>6. resource' = Listed(LiveInstances, LiveAccounts')
  <2>2. resource' = resource \ ({"account"} \X {a}) BY <1>1, ListedOneAccount
  <2> QED BY <2>2, <1>4, AccountsUnlisted DEF InventoryInv
<1>7. grant' = grant BY <1>1
<1>8. \A b \in Accounts : acct'[b].live /\ ~inst[acct'[b].inst].live => b \in straddled'
  BY <1>1, <1>4, InStepListed DEF InventoryInv
<1>9. RequestsFit' BY <1>1, RequestsStay DEF InventoryInv
<1> QED BY <1>1, <1>3, <1>4, <1>5, <1>6, <1>7, <1>8, <1>9, AccountsChange

(* FinishOperation: an administrator among the accounts it removes was managed itself.*)
LEMMA FinishOperationInv ==
  ASSUME InventoryInv, "none" \notin Operations, NEW o \in Operations, Inventory!FinishOperation(o)
  PROVE  InventoryInv'
<1> DEFINE gone == {a \in Accounts : acct[a].live /\ acct[a].op = o}
<1>0. RowsTyped /\ OperationsFit BY DEF InventoryInv
<1>1. /\ acct' = [a \in Accounts |-> IF a \in gone THEN Inventory!SoftDeleted(acct[a]) ELSE acct[a]]
      /\ resource' = resource \ ({"account"} \X gone)
      /\ grant' = {i \in grant : <<"instance", i>> \notin ({"account"} \X gone)}
      /\ op' = [op EXCEPT ![o] = Inventory!NoOp]
      /\ UNCHANGED <<inst, dbReq, probed, defaulted, straddled>>
  BY DEF Inventory!FinishOperation, Inventory!DeleteResource
<1>g. gone \in SUBSET Accounts /\ \A a \in gone : acct[a].op = o /\ acct[a].op # "none" OBVIOUS
<1> HIDE DEF gone
<1>2. \A a \in Accounts : acct[a] \in AccountRow /\ Inventory!SoftDeleted(acct[a]) \in AccountRow
  BY <1>0, RemovedRow DEF RowsTyped
<1>3. acct' \in [Accounts -> AccountRow]
      /\ \A b \in Accounts : acct'[b] = IF b \in gone THEN Inventory!SoftDeleted(acct[b]) ELSE acct[b]
  BY <1>1, <1>2
<1>4. /\ \A b \in Accounts : acct[b].status # "none" =>
            acct'[b].inst = acct[b].inst /\ acct'[b].status # "none"
      /\ \A b \in Accounts : acct'[b].live => b \notin gone /\ acct'[b] = acct[b]
      /\ \A b \in Accounts : acct'[b].live =>
            acct'[b].inst \in Instances /\ acct'[b].status # "none"
      /\ LiveAccounts' = LiveAccounts \ gone
      /\ \A b \in Accounts \ gone : KeepsUse(acct[b], acct'[b])
  BY <1>g, <1>0, <1>3, AccountsGone
<1>5. OperationsFit' /\ Inventory!OperationKeepsItsAdministrator'
  <2>1. DOMAIN op' = Operations /\ \A p \in Operations : op'[p] = op[p] \/ op'[p].pc = "none"
    BY <1>0, <1>1 DEF OperationsFit, Inventory!NoOp
  <2>2. \A b \in gone : acct'[b].op # "none" /\ ~acct'[b].live
    BY <1>g, <1>2, <1>3, RemovedRow
  <2> QED BY <2>1, <2>2, <1>1, <1>4, AdministratorsKept
<1>6. resource' = Listed(LiveInstances, LiveAccounts')
  BY <1>1, <1>4, AccountsUnlisted DEF InventoryInv
<1>7. grant' = grant BY <1>1, InstanceNotAccount
<1>8. \A b \in Accounts : acct'[b].live /\ ~inst[acct'[b].inst].live => b \in straddled'
  BY <1>1, <1>4, InStepListed DEF InventoryInv
<1>9. RequestsFit' BY <1>1, RequestsStay DEF InventoryInv
<1> QED BY <1>1, <1>3, <1>4, <1>5, <1>6, <1>7, <1>8, <1>9, AccountsChange

(* An instance that is deleted keeps its type.                             *)
LEMMA InstanceLive ==
  ASSUME NEW x \in InstanceRow, NEW z \in BOOLEAN, NEW y, y = [x EXCEPT !.live = z]
  PROVE  y \in InstanceRow /\ y.live = z
BY DEF InstanceRow
LEMMA InstanceDisabled ==
  ASSUME NEW x \in InstanceRow, NEW y, y = [x EXCEPT !.status = "disabled"]
  PROVE  y \in InstanceRow /\ y.live = x.live
BY DEF InstanceRow
LEMMA InstanceRemoved ==
  ASSUME NEW x \in InstanceRow, NEW y, y = Inventory!SoftDeleted(x)
  PROVE  y \in InstanceRow /\ ~y.live
<1>1. PICK z \in BOOLEAN : z = FALSE OBVIOUS
<1> DEFINE w == [x EXCEPT !.live = z]
<1>2. y = [w EXCEPT !.status = "disabled"] BY <1>1 DEF Inventory!SoftDeleted
<1>3. w \in InstanceRow /\ w.live = z BY InstanceLive
<1> HIDE DEF w
<1>4. y \in InstanceRow /\ y.live = w.live BY <1>2, <1>3, InstanceDisabled
<1> QED BY <1>1, <1>3, <1>4

(* DeleteDatabaseInstance: no operation refers to it, so none loses its administrator.*)
LEMMA DeleteDatabaseInstanceInv ==
  ASSUME InventoryInv, NEW i \in Instances, Inventory!DeleteDatabaseInstance(i)
  PROVE  InventoryInv'
<1> DEFINE gone == {a \in Accounts : acct[a].live /\ acct[a].inst = i}
           row == Inventory!SoftDeleted(inst[i])
<1>0. RowsTyped /\ OperationsFit BY DEF InventoryInv
<1>1. /\ inst[i].live /\ ~Inventory!ReferencedInstance(i)
      /\ acct' = [a \in Accounts |-> IF a \in gone THEN Inventory!SoftDeleted(acct[a]) ELSE acct[a]]
      /\ resource' = resource \ ({<<"instance", i>>} \cup ({"account"} \X gone))
      /\ grant' = {j \in grant : <<"instance", j>> \notin ({<<"instance", i>>} \cup ({"account"} \X gone))}
      /\ inst' = [inst EXCEPT ![i] = row]
      /\ UNCHANGED <<dbReq, op, probed, defaulted, straddled>>
  BY DEF Inventory!DeleteDatabaseInstance, Inventory!DeleteResource
<1>g. gone \in SUBSET Accounts /\ (\A a \in gone : acct[a].inst = i)
      /\ \A a \in Accounts \ gone : acct[a].live => acct[a].inst # i
  OBVIOUS
<1> HIDE DEF gone
<1>r. row \in InstanceRow /\ ~row.live
  <2>1. inst[i] \in InstanceRow BY <1>0 DEF RowsTyped
  <2>2. row = Inventory!SoftDeleted(inst[i]) OBVIOUS
  <2> HIDE DEF row
  <2> QED BY <2>1, <2>2, InstanceRemoved
<1> HIDE DEF row
<1>i. inst' \in [Instances -> InstanceRow] /\ inst'[i] = row
      /\ \A j \in Instances \ {i} : inst'[j] = inst[j]
  BY <1>0, <1>1, <1>r DEF RowsTyped
<1>2. \A a \in Accounts : acct[a] \in AccountRow /\ Inventory!SoftDeleted(acct[a]) \in AccountRow
  BY <1>0, RemovedRow DEF RowsTyped
<1>3. acct' \in [Accounts -> AccountRow]
      /\ \A b \in Accounts : acct'[b] = IF b \in gone THEN Inventory!SoftDeleted(acct[b]) ELSE acct[b]
  BY <1>1, <1>2
<1>4. /\ \A b \in Accounts : acct[b].status # "none" =>
            acct'[b].inst = acct[b].inst /\ acct'[b].status # "none"
      /\ \A b \in Accounts : acct'[b].live => b \notin gone /\ acct'[b] = acct[b]
      /\ \A b \in Accounts : acct'[b].live =>
            acct'[b].inst \in Instances /\ acct'[b].status # "none"
      /\ LiveAccounts' = LiveAccounts \ gone
      /\ \A b \in Accounts \ gone : KeepsUse(acct[b], acct'[b])
  BY <1>g, <1>0, <1>3, AccountsGone
<1>5. RowsTyped' BY <1>0, <1>1, <1>i, <1>3, <1>4 DEF RowsTyped
<1>6. RequestsFit' BY <1>1, RequestsStay DEF InventoryInv
<1>7. OperationsFit'
  <2>1. ASSUME NEW o \in Operations PROVE OpFits(op'[o], acct')
    <3>1. OpFits(op[o], acct) /\ op'[o] = op[o] BY <1>0, <1>1 DEF OperationsFit
    <3>2. CASE op[o].pc = "none" BY <3>1, <3>2 DEF OpFits
    <3>3. CASE op[o].pc # "none"
      <4>1. op[o] \in OperationRecord /\ acct[op[o].admin].inst = op[o].inst
            /\ acct[op[o].admin].status # "none"
        BY <3>1, <3>3 DEF OpFits
      <4>2. op[o].admin \in Accounts BY <4>1 DEF OperationRecord
      <4> QED BY <4>1, <4>2, <3>1, <1>4 DEF OpFits
    <3> QED BY <3>2, <3>3
  <2> QED BY <2>1, <1>0, <1>1 DEF OperationsFit
<1>8. Inventory!StoredTLSWasTried'
  <2>1. ASSUME NEW j \in Instances, inst'[j].live, inst'[j].tls
        PROVE  Inventory!Settings(inst'[j]) \in probed' \cup defaulted'
    <3>1. j # i /\ inst'[j] = inst[j] BY <2>1, <1>r, <1>i
    <3>2. Inventory!Settings(inst[j]) \in probed \cup defaulted
      BY <3>1, <2>1 DEF InventoryInv, Inventory!StoredTLSWasTried
    <3> QED BY <3>1, <3>2, <1>1
  <2> QED BY <2>1 DEF Inventory!StoredTLSWasTried, Inventory!Settings
<1>9. Inventory!OperationKeepsItsAdministrator'
  <2>1. ASSUME NEW o \in Operations, op'[o].pc = "live"
        PROVE  Inventory!UsableInstance(o)'
               /\ (Inventory!UsableAdministrator(o)' \/ Inventory!Deprovisioned(op[o].admin)')
    <3>0. op[o].pc = "live" /\ op' = op BY <2>1, <1>1
    <3>1. Inventory!UsableInstance(o)
          /\ (Inventory!UsableAdministrator(o) \/ Inventory!Deprovisioned(op[o].admin))
      BY <3>0 DEF InventoryInv, Inventory!OperationKeepsItsAdministrator
    <3>2. op[o].admin \in Accounts /\ acct[op[o].admin].inst = op[o].inst /\ op[o].inst \in Instances
      BY <3>0, <1>0 DEF OperationsFit, OpFits, OperationRecord
    <3>3. op[o].inst # i BY <3>0, <1>1 DEF Inventory!ReferencedInstance
    <3>4. inst'[op[o].inst] = inst[op[o].inst] BY <3>2, <3>3, <1>i
    <3>5. Inventory!UsableInstance(o)'
      BY <3>0, <3>1, <3>4 DEF Inventory!UsableInstance, Inventory!Settings
    <3>6. acct'[op[o].admin] = acct[op[o].admin] BY <3>2, <3>3, <1>g, <1>3
    <3> QED BY <3>0, <3>1, <3>5, <3>6 DEF Inventory!UsableAdministrator, Inventory!Deprovisioned
  <2> QED BY <2>1 DEF Inventory!OperationKeepsItsAdministrator
<1>10. Inventory!InventoryInStep'
  <2>0. resource = Listed(LiveInstances, LiveAccounts) /\ (\A j \in grant : inst[j].live)
        /\ (\A a \in Accounts : acct[a].live /\ ~inst[acct[a].inst].live => a \in straddled)
    BY InStepListed DEF InventoryInv
  <2>1. LiveInstances' = LiveInstances \ {i} BY <1>i, <1>r DEF LiveInstances
  <2>2. Listed(LiveInstances, LiveAccounts) \ ({<<"instance", i>>} \cup ({"account"} \X gone))
          = Listed(LiveInstances \ {i}, LiveAccounts \ gone)
    BY DEF Listed
  <2>3. resource' = Listed(LiveInstances', LiveAccounts')
    BY <2>0, <2>1, <2>2, <1>1, <1>4
  <2>4. ASSUME NEW j \in grant' PROVE inst'[j].live
    <3>1. j \in grant /\ j # i BY <2>4, <1>1, InstanceInRows
    <3>2. j \in Instances BY <3>1, <1>0 DEF RowsTyped
    <3> QED BY <3>1, <3>2, <2>0, <1>i
  <2>5. ASSUME NEW a \in Accounts, acct'[a].live, ~inst'[acct'[a].inst].live PROVE a \in straddled'
    <3>1. acct'[a] = acct[a] /\ a \notin gone BY <2>5, <1>4
    <3>2. acct[a].live /\ acct[a].inst \in Instances /\ acct[a].inst # i
      BY <2>5, <3>1, <1>0, <1>g DEF RowsTyped
    <3> QED BY <2>5, <3>1, <3>2, <2>0, <1>1, <1>i
  <2>6. /\ resource' = Listed(LiveInstances', LiveAccounts')
        /\ \A j \in grant' : inst'[j].live
        /\ \A a \in Accounts : acct'[a].live /\ ~inst'[acct'[a].inst].live => a \in straddled'
    BY <2>3, <2>4, <2>5
  <2> QED BY <2>6 DEF Inventory!InventoryInStep, Listed, LiveInstances, LiveAccounts
<1> QED BY <1>5, <1>6, <1>7, <1>8, <1>9, <1>10 DEF InventoryInv

(* Operations only: the tables and the requests stay.                      *)
LEMMA OperationMoves ==
  ASSUME InventoryInv, UNCHANGED <<inst, acct, resource, grant, dbReq, probed, defaulted, straddled>>,
         OperationsFit', Inventory!OperationKeepsItsAdministrator'
  PROVE  InventoryInv'
<1>1. RowsTyped' BY DEF InventoryInv, RowsTyped
<1>2. RequestsFit' BY RequestsStay DEF InventoryInv
<1>3. Inventory!StoredTLSWasTried'
  BY DEF InventoryInv, Inventory!StoredTLSWasTried, Inventory!Settings
<1>4. Inventory!InventoryInStep' BY DEF InventoryInv, Inventory!InventoryInStep
<1> QED BY <1>1, <1>2, <1>3, <1>4 DEF InventoryInv

(* ReadAdmin.                                                              *)
LEMMA ReadAdminInv ==
  ASSUME InventoryInv, NEW o \in Operations, NEW a \in Accounts, Inventory!ReadAdmin(o, a)
  PROVE  InventoryInv'
<1> DEFINE p == [pc |-> "read", inst |-> acct[a].inst, admin |-> a, pw |-> acct[a].pw,
                 proof |-> Inventory!Settings(inst[acct[a].inst])]
<1>0. RowsTyped /\ OperationsFit BY DEF InventoryInv
<1>1. /\ acct[a].live /\ op' = [op EXCEPT ![o] = p]
      /\ UNCHANGED <<inst, acct, resource, grant, dbReq, probed, defaulted, straddled>>
  BY DEF Inventory!ReadAdmin, Inventory!ActiveAccount
<1>2. acct[a] \in AccountRow /\ acct[a].inst \in Instances /\ acct[a].status # "none"
  BY <1>0, <1>1 DEF RowsTyped
<1>3. Inventory!Settings(inst[acct[a].inst]) \in SettingsType
  BY <1>0, <1>2, RowSettings DEF RowsTyped
<1>4. p \in OperationRecord BY <1>2, <1>3 DEF OperationRecord, AccountRow
<1>5. p.admin = a /\ p.inst = acct[a].inst /\ p.pc = "read" OBVIOUS
<1> HIDE DEF p
<1>6. OpFits(p, acct) BY <1>2, <1>4, <1>5 DEF OpFits
<1>7. DOMAIN op' = Operations /\ op'[o] = p /\ \A u \in Operations \ {o} : op'[u] = op[u]
  BY <1>0, <1>1 DEF OperationsFit
<1>8. OperationsFit' BY <1>0, <1>1, <1>6, <1>7 DEF OperationsFit
<1>9. Inventory!OperationKeepsItsAdministrator'
  <2>1. ASSUME NEW u \in Operations, op'[u].pc = "live"
        PROVE  Inventory!UsableInstance(u)'
               /\ (Inventory!UsableAdministrator(u)' \/ Inventory!Deprovisioned(op[u].admin)')
    <3>1. op'[u] = op[u] BY <2>1, <1>5, <1>7
    <3>2. Inventory!UsableInstance(u)
          /\ (Inventory!UsableAdministrator(u) \/ Inventory!Deprovisioned(op[u].admin))
      BY <2>1, <3>1 DEF InventoryInv, Inventory!OperationKeepsItsAdministrator
    <3> QED BY <3>1, <3>2, <1>1 DEF Inventory!UsableInstance, Inventory!UsableAdministrator,
            Inventory!Deprovisioned, Inventory!Settings
  <2> QED BY <2>1 DEF Inventory!OperationKeepsItsAdministrator
<1> QED BY <1>1, <1>8, <1>9, OperationMoves

(* CreateDatabaseProvisioningOperation: what was read still holds.         *)
LEMMA CreateOperationInv ==
  ASSUME InventoryInv, NEW o \in Operations, Inventory!CreateDatabaseProvisioningOperation(o)
  PROVE  InventoryInv'
<1> DEFINE p == [op[o] EXCEPT !.pc = "live"]
<1>0. RowsTyped /\ OperationsFit BY DEF InventoryInv
<1>1. /\ op[o].pc = "read"
      /\ UNCHANGED <<inst, acct, resource, grant, dbReq, probed, defaulted, straddled>>
  BY DEF Inventory!CreateDatabaseProvisioningOperation
<1>a. PICK x \in {p, Inventory!NoOp} :
          op' = [op EXCEPT ![o] = x] /\ (x = p => Inventory!Usable(o) \/ p = Inventory!NoOp)
  BY <1>0 DEF Inventory!CreateDatabaseProvisioningOperation, OperationsFit
<1>2. op[o] \in OperationRecord /\ acct[op[o].admin].inst = op[o].inst
      /\ acct[op[o].admin].status # "none"
  BY <1>0, <1>1 DEF OperationsFit, OpFits
<1>3. p \in OperationRecord /\ p.admin = op[o].admin /\ p.inst = op[o].inst /\ p.pw = op[o].pw
      /\ p.proof = op[o].proof
  BY <1>2 DEF OperationRecord
<1>n. Inventory!NoOp.pc = "none" BY DEF Inventory!NoOp
<1> HIDE DEF p
<1>4. OpFits(p, acct) BY <1>2, <1>3 DEF OpFits
<1>5. DOMAIN op' = Operations /\ op'[o] = x /\ \A u \in Operations \ {o} : op'[u] = op[u]
  BY <1>0, <1>a DEF OperationsFit
<1>6. OpFits(op'[o], acct) BY <1>4, <1>5, <1>a, <1>n DEF OpFits
<1>7. OperationsFit' BY <1>0, <1>1, <1>5, <1>6 DEF OperationsFit
<1>8. Inventory!OperationKeepsItsAdministrator'
  <2>1. ASSUME NEW u \in Operations, op'[u].pc = "live"
        PROVE  Inventory!UsableInstance(u)'
               /\ (Inventory!UsableAdministrator(u)' \/ Inventory!Deprovisioned(op[u].admin)')
    <3>1. CASE u # o
      <4>1. op'[u] = op[u] BY <3>1, <1>5
      <4>2. Inventory!UsableInstance(u)
            /\ (Inventory!UsableAdministrator(u) \/ Inventory!Deprovisioned(op[u].admin))
        BY <2>1, <4>1 DEF InventoryInv, Inventory!OperationKeepsItsAdministrator
      <4> QED BY <4>1, <4>2, <1>1 DEF Inventory!UsableInstance, Inventory!UsableAdministrator,
              Inventory!Deprovisioned, Inventory!Settings
    <3>2. CASE u = o
      <4>1. op'[o] = p /\ Inventory!Usable(o) BY <2>1, <3>2, <1>5, <1>a, <1>n
      <4> QED BY <4>1, <3>2, <1>1, <1>3 DEF Inventory!Usable, Inventory!UsableInstance,
              Inventory!UsableAdministrator, Inventory!Settings
    <3> QED BY <3>1, <3>2
  <2> QED BY <2>1 DEF Inventory!OperationKeepsItsAdministrator
<1> QED BY <1>1, <1>7, <1>8, OperationMoves

(* The invariant holds at first,                                           *)
LEMMA InventoryInit == Inventory!Init => InventoryInv
<1> SUFFICES ASSUME Inventory!Init PROVE InventoryInv OBVIOUS
<1> DEFINE Row(t) == [proto |-> "mysql", port |-> 3306, tls |-> t, ca |-> "none",
                      status |-> "active", live |-> TRUE]
           First(i, pw) == [inst |-> i, pw |-> pw, status |-> "active", op |-> "none",
                            live |-> TRUE]
<1>1. PICK i \in Instances, a \in Accounts, pw \in Passwords, some \in BOOLEAN, tls \in BOOLEAN :
        /\ inst = [x \in Instances |-> IF some /\ x = i THEN Row(tls) ELSE Inventory!NoInstance]
        /\ acct = [x \in Accounts |-> IF some /\ x = a THEN First(i, pw) ELSE Inventory!NoAccount]
        /\ resource = IF some THEN {<<"instance", i>>, <<"account", a>>} ELSE {}
        /\ probed = IF some /\ tls THEN {Inventory!Settings(Row(tls))} ELSE {}
  BY DEF Inventory!Init, Inventory!NoCA
<1>2. /\ grant = {} /\ dbReq = [r \in Managers |-> Inventory!IdleReq]
      /\ op = [o \in Operations |-> Inventory!NoOp] /\ defaulted = {} /\ straddled = {}
  BY DEF Inventory!Init
<1>3. /\ Row(tls) \in InstanceRow /\ Row(tls).live /\ Row(tls).tls = tls
  BY DEF InstanceRow, CAs
<1>4. Inventory!NoInstance \in InstanceRow /\ ~Inventory!NoInstance.live
  BY DEF InstanceRow, CAs, Inventory!NoInstance, Inventory!NoCA, Inventory!Unset
<1>5. First(i, pw) \in AccountRow /\ First(i, pw).live /\ First(i, pw).inst = i
      /\ First(i, pw).status = "active"
  BY DEF AccountRow
<1>6. Inventory!NoAccount \in AccountRow /\ ~Inventory!NoAccount.live
  BY DEF AccountRow, Inventory!NoAccount
<1> HIDE DEF Row, First
<1>7. /\ inst \in [Instances -> InstanceRow]
      /\ \A x \in Instances : inst[x].live <=> some /\ x = i
      /\ \A x \in Instances : inst[x].live => inst[x] = Row(tls)
  BY <1>1, <1>3, <1>4
<1>8. /\ acct \in [Accounts -> AccountRow]
      /\ \A x \in Accounts : acct[x].live <=> some /\ x = a
      /\ \A x \in Accounts : acct[x].live => acct[x] = First(i, pw)
  BY <1>1, <1>5, <1>6
<1>9. RowsTyped BY <1>2, <1>5, <1>7, <1>8 DEF RowsTyped
<1>10. RequestsFit BY <1>2, IdleFits DEF RequestsFit
<1>11. OperationsFit /\ Inventory!OperationKeepsItsAdministrator
  <2>1. Inventory!NoOp.pc = "none" BY DEF Inventory!NoOp
  <2> QED BY <2>1, <1>2 DEF OperationsFit, OpFits, Inventory!OperationKeepsItsAdministrator
<1>12. Inventory!StoredTLSWasTried
  <2>1. ASSUME NEW x \in Instances, inst[x].live, inst[x].tls
        PROVE  Inventory!Settings(inst[x]) \in probed \cup defaulted
    <3>1. some /\ inst[x] = Row(tls) BY <2>1, <1>7
    <3>2. tls BY <3>1, <2>1, <1>3
    <3> QED BY <3>1, <3>2, <1>1
  <2> QED BY <2>1 DEF Inventory!StoredTLSWasTried
<1>13. Inventory!InventoryInStep
  <2>1. LiveInstances = (IF some THEN {i} ELSE {}) BY <1>7 DEF LiveInstances
  <2>2. LiveAccounts = (IF some THEN {a} ELSE {}) BY <1>8 DEF LiveAccounts
  <2>3. resource = Listed(LiveInstances, LiveAccounts)
    <3>1. CASE some
      <4>1. LiveInstances = {i} /\ LiveAccounts = {a}
            /\ resource = {<<"instance", i>>, <<"account", a>>}
        BY <3>1, <2>1, <2>2, <1>1
      <4> QED BY <4>1 DEF Listed
    <3>2. CASE ~some
      <4>1. LiveInstances = {} /\ LiveAccounts = {} /\ resource = {} BY <3>2, <2>1, <2>2, <1>1
      <4> QED BY <4>1 DEF Listed
    <3> QED BY <3>1, <3>2
  <2>4. \A x \in Accounts : acct[x].live => inst[acct[x].inst].live BY <1>5, <1>7, <1>8
  <2> QED BY <2>3, <2>4, <1>2, InStepListed
<1> QED BY <1>9, <1>10, <1>11, <1>12, <1>13 DEF InventoryInv

(* when nothing moves,                                                     *)
LEMMA InventoryStays == InventoryInv /\ UNCHANGED inventoryVars => InventoryInv'
<1> SUFFICES ASSUME InventoryInv, UNCHANGED inventoryVars PROVE InventoryInv' OBVIOUS
<1>1. UNCHANGED Inventory!table /\ UNCHANGED <<dbReq, probed>>
  BY DEF inventoryVars, Inventory!table
<1>2. RequestsFit' BY <1>1, RequestsStay DEF InventoryInv
<1> QED BY <1>1, <1>2, TablesStay

(* and after every step.                                                   *)
LEMMA InventoryStep == InventoryInv /\ Inventory!Next => InventoryInv'
<1> SUFFICES ASSUME InventoryInv, Inventory!Next PROVE InventoryInv' OBVIOUS
<1>0. Inputs \subseteq Inventory!InputType /\ "none" \notin Operations BY InventoryAssumption
<1>1. ASSUME NEW r \in Managers, Inventory!BeginRequest(r) PROVE InventoryInv'
  <2>1. CASE Inventory!HandleDBInstances(r)
    BY <2>1, <1>0, CreateInstanceInv DEF Inventory!HandleDBInstances
  <2>2. CASE Inventory!HandleDBInstance(r)
    BY <2>2, <1>0, UpdateInstanceInv, DeleteDatabaseInstanceInv
    DEF Inventory!HandleDBInstance, Inventory!DeleteInstance
  <2>3. CASE Inventory!HandleDBInstanceAccounts(r)
    BY <2>3, CreateAccountInv DEF Inventory!HandleDBInstanceAccounts
  <2>4. CASE Inventory!HandleDBAccount
    BY <2>4, UpdateDatabaseAccountInv, DeleteDatabaseAccountInv
    DEF Inventory!HandleDBAccount, Inventory!UpdateAccount, Inventory!DeleteAccount
  <2>5. CASE Inventory!HandleDatabaseTLSPreflight(r)
    BY <2>5, <1>0, ProbeOnlyInv DEF Inventory!HandleDatabaseTLSPreflight
  <2> QED BY <1>1, <2>1, <2>2, <2>3, <2>4, <2>5 DEF Inventory!BeginRequest
<1>2. ASSUME NEW r \in Managers, Inventory!RequestStep(r) PROVE InventoryInv'
  BY <1>1, <1>2, TakeProbeSlotInv, ProbedInv, UpdateDatabaseInstanceInv, CreateDatabaseInstanceInv,
     AddDatabaseAccountInv, AbandonInv
  DEF Inventory!RequestStep
<1>3. ASSUME NEW o \in Operations, Inventory!OperationStep(o) PROVE InventoryInv'
  BY <1>0, <1>3, ReadAdminInv, CreateOperationInv, ActivateInv, FinishOperationInv
  DEF Inventory!OperationStep
<1> QED BY <1>2, <1>3 DEF Inventory!Next

(* In a behaviour of the other components nothing is said about the inventory. *)
PartInventoryInv == part = "inventory" => InventoryInv

LEMMA PartInventoryNext == PartInventoryInv /\ [LoginNext \/ LimiterNext \/ WebNext \/ InventoryNext]_all => PartInventoryInv'
<1> SUFFICES ASSUME PartInventoryInv, [LoginNext \/ LimiterNext \/ WebNext \/ InventoryNext]_all, part' = "inventory"
             PROVE  InventoryInv'
  BY DEF PartInventoryInv
<1>1. CASE LoginNext \/ LimiterNext BY <1>1 DEF LoginNext, LimiterNext
<1>2. CASE WebNext BY <1>2 DEF WebNext
<1>3. CASE InventoryNext
  <2>1. InventoryInv /\ Inventory!Next BY <1>3 DEF InventoryNext, PartInventoryInv
  <2> QED BY <2>1, InventoryStep
<1>4. CASE UNCHANGED all
  <2>1. InventoryInv /\ UNCHANGED inventoryVars BY <1>4 DEF PartInventoryInv, all
  <2> QED BY <2>1, InventoryStays
<1> QED BY <1>1, <1>2, <1>3, <1>4

(* However management requests, TLS trials and provisioning operations     *)
(* interleave: an instance with TLS carries settings that were tried, a    *)
(* retained operation finds its instance and its administrator as it was   *)
(* reserved with, and the resources table lists what is live.              *)
THEOREM InventoryCorrect == MCSpec => []InventoryConsistent
<1>1. MCInit => PartInventoryInv BY InventoryInit DEF MCInit, PartInventoryInv
<1>2. PartInventoryInv => InventoryConsistent
  BY DEF PartInventoryInv, InventoryInv, InventoryConsistent, Inventory!InventoryConsistent
<1> QED BY <1>1, <1>2, PartInventoryNext, PTL DEF MCSpec
=============================================================================
