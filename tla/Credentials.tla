---------------------------- MODULE Credentials ----------------------------
(***************************************************************************)
(* The credentials that open the gateways: the temporary-access aggregate  *)
(* (a temporary account with its user session, its grant and its           *)
(* connection password, or its AI token), the connection passwords a user  *)
(* issues, the permanent user sessions, and the token pairs of AI clients. *)
(* Sources: service/temporary_access.go, ai_access_token.go,               *)
(* connection_password.go, user_session_creation.go, ai_resource.go, the   *)
(* stores dbstore_temporary_access.go, dbstore_ai_access.go,               *)
(* dbstore_sessions.go, dbstore_connection_passwords.go, dbstore_auth.go,  *)
(* and the admin handlers in front of them.                                *)
(*                                                                         *)
(* A request runs in steps, one per database transaction or statement, so  *)
(* other requests run between them.  A transaction whose first write takes *)
(* the row all its writes depend on is one step.  Time is a counter, a     *)
(* secret is the number of its generation (the access and the refresh      *)
(* token of one pair share it) and one user is modelled: every query of    *)
(* this code filters by one user.                                          *)
(***************************************************************************)
EXTENDS Naturals, FiniteSets

CONSTANTS
    UserAccounts,  \* temporary accounts of type "user" that may be created
    AIAccounts,    \* temporary accounts of type "ai" that may be created
    Passwords,     \* connection passwords that may be issued
    Procs,         \* requests served at the same time
    NoOne,         \* "no request holds the lock", "no account"
    Expiries,      \* the expiry times an administrator may ask for
    MaxTime,       \* bound on the clock
    MaxSeq,        \* bound on user-session sequence numbers
    MaxSecret,     \* bound on token pairs
    MaxAttempts,   \* attempts to allocate a session identity (12 in the code)
    MaxStarted     \* bound on the requests (other than creations) and edits

TemporaryAccounts == UserAccounts \cup AIAccounts

AccessTTL == 1

RefreshTTL == 2

PasswordTTL == 1

VARIABLES
    now,       \* the clock
    user,      \* the status of the user's row
    target,    \* the target account is active and so is its parent
    allowed,   \* permissions and standing grants allow the user the target
    acct,      \* temporary_accounts
    sess,      \* user_sessions, by sequence number
    grant,     \* temporary_account_grants, by account
    pw,        \* connection_passwords, by temporary account or issue
    tok,       \* ai_access_tokens, by account
    seq,       \* next value of the user-session sequence
    secret,    \* token pairs generated so far
    userLock,  \* the request that holds the user's row
    req,       \* requests being served
    started,   \* requests started so far
    exchanged, \* history: <<s, t>> when pair t was handed out against pair s
    overtaken, \* history: sessions marked expired after they were extended
    moved,     \* history: "ai" accounts whose expiry was changed
    ended,     \* history: when an "ai" account was first disabled
    issued     \* history: <<k, a>> when password k was issued with a's token

vars == <<now, user, target, allowed, acct, sess, grant, pw, tok, seq, secret,
          userLock, req, started, exchanged, overtaken, moved, ended, issued>>

tables == <<acct, sess, grant, pw, tok, seq>>

environment == <<now, user, target, allowed>>

history == <<exchanged, overtaken, moved, ended, issued>>

NoAccount == [status |-> "none", exp |-> 0, sid |-> 0]

NoSession == [type |-> "none", status |-> "none", exp |-> 0]

NoGrant == [status |-> "none", exp |-> 0]

NoToken == [status |-> "none", pair |-> 0, aexp |-> 0, rexp |-> 0]

Idle == [op |-> "idle", pc |-> "", acct |-> NoOne, sid |-> 0, pair |-> 0,
         exp |-> 0, at |-> 0, next |-> 0, key |-> NoOne, tries |-> 0]

Init ==
    /\ now = 0 /\ user = "active" /\ target = TRUE /\ allowed = TRUE
    /\ acct = [a \in TemporaryAccounts |-> NoAccount]
    /\ sess = [s \in 1 .. MaxSeq |-> NoSession]
    /\ grant = [a \in UserAccounts |-> NoGrant]
    /\ pw = [k \in UserAccounts \cup Passwords |-> NoGrant]
    /\ tok = [a \in AIAccounts |-> NoToken]
    /\ seq = 1 /\ secret = 0 /\ userLock = NoOne /\ started = 0
    /\ req = [p \in Procs |-> Idle]
    /\ exchanged = {} /\ overtaken = {} /\ moved = {} /\ issued = {}
    /\ ended = [a \in AIAccounts |-> 0]

(***************************************************************************)
(* What the queries accept.                                                *)
(***************************************************************************)
Later(t, at) == t > at

AccountLive(a, at) == acct[a].status = "active" /\ Later(acct[a].exp, at)

\* validateActiveAIAccessToken and the conditions of the store's queries.
TokenUsable(a, at) == /\ tok[a].status = "active"
                      /\ user = "active"
                      /\ AccountLive(a, at)

GrantLive(a) == grant[a].status = "active" /\ Later(grant[a].exp, now)

\* Authorization of a connection: a standing permission, or a live temporary
\* grant (AccessControl models the decision itself).
Authorized == allowed \/ \E a \in UserAccounts : GrantLive(a)

\* activeConnectionPasswords, with the user's own password as NoOne.
activeConnectionPasswords ==
    {k \in DOMAIN pw : pw[k].status = "active" /\ Later(pw[k].exp, now)}

\* resolveTarget of the password and of the session service.
resolveTarget == target

ActivePermanent ==
    {s \in 1 .. MaxSeq : sess[s].type = "permanent" /\ sess[s].status = "active"}

Reply(p) == req' = [req EXCEPT ![p] = Idle]

Goto(p, pc) == req' = [req EXCEPT ![p].pc = pc]

\* A new request.
Begin(p, r) ==
    /\ req[p] = Idle
    /\ started < MaxStarted
    /\ started' = started + 1
    /\ req' = [req EXCEPT ![p] = r]

At(p, op, pc) == req[p].op = op /\ req[p].pc = pc

(***************************************************************************)
(* Temporary access: create.  The session number is allocated in a         *)
(* transaction of its own, then the aggregate is written in another; an    *)
(* error the store takes for a lock or a duplicate repeats both.           *)
(***************************************************************************)
\* normalizeTemporaryAccessInput and the validations after it.
validateTemporaryAccessExpiry(exp, at) == Later(exp, at)

\* TemporaryAccessService.Create: one new account for the administrator.
Create(p, a, exp) ==
    /\ acct[a] = NoAccount
    /\ \A q \in Procs : req[q].op = "create" => req[q].acct # a
    /\ validateTemporaryAccessExpiry(exp, now)
    /\ req' = [req EXCEPT ![p] = [Idle EXCEPT !.op = "create", !.pc = "allocate",
                                              !.acct = a, !.exp = exp, !.at = now]]

\* TemporaryAccessService.CreateAI, for the signed-in user.
CreateAI(p, a, exp) == a \in AIAccounts /\ secret < MaxSecret /\ Create(p, a, exp)

createTemporaryAuthorization(p, a, exp) ==
    /\ req[p] = Idle /\ a \in UserAccounts
    /\ Create(p, a, exp)
    /\ UNCHANGED <<environment, tables, secret, userLock, started, history>>

handleAITokens(p, a, exp) ==
    /\ req[p] = Idle /\ a \in AIAccounts
    /\ CreateAI(p, a, exp)
    /\ UNCHANGED <<environment, tables, secret, userLock, started, history>>

\* The floor is one above the largest number in use; the value then handed
\* out is the sequence's own next one.
NextSequenceValue ==
    LET used == {s \in 1 .. MaxSeq : sess[s] # NoSession}
        floor == IF used = {} THEN 1 ELSE 1 + CHOOSE m \in used : \A s \in used : s <= m
    IN  IF floor > seq THEN floor ELSE seq

allocateTemporarySessionIdentity(p) ==
    /\ At(p, "create", "allocate")
    /\ NextSequenceValue <= MaxSeq
    /\ seq' = NextSequenceValue + 1
    /\ req' = [req EXCEPT ![p].pc = "insert", ![p].sid = NextSequenceValue]
    /\ UNCHANGED <<environment, acct, sess, grant, pw, tok, secret, userLock, started, history>>

Insert(p, type) ==
    LET r == req[p] IN
    /\ acct' = [acct EXCEPT ![r.acct] = [status |-> "active", exp |-> r.exp, sid |-> r.sid]]
    /\ sess' = [sess EXCEPT ![r.sid] = [type |-> type, status |-> "active", exp |-> r.exp]]

CreateTemporaryAccess(p) ==
    /\ At(p, "create", "insert") /\ req[p].acct \in UserAccounts
    /\ user = "active" /\ target
    /\ Insert(p, "temporary")
    /\ grant' = [grant EXCEPT ![req[p].acct] = [status |-> "active", exp |-> req[p].exp]]
    /\ pw' = [pw EXCEPT ![req[p].acct] = [status |-> "active", exp |-> req[p].exp]]
    /\ Reply(p)
    /\ UNCHANGED <<environment, tok, seq, secret, userLock, started, history>>

\* IssueAIAccessToken: the next pair, with its two lifetimes.
IssuedPair(at) == [status |-> "active", pair |-> secret + 1,
                   aexp |-> at + AccessTTL, rexp |-> at + RefreshTTL]

CreateTemporaryAIAccess(p) ==
    /\ At(p, "create", "insert") /\ req[p].acct \in AIAccounts
    /\ user = "active"
    /\ secret < MaxSecret
    /\ Insert(p, "temporary")
    /\ tok' = [tok EXCEPT ![req[p].acct] = IssuedPair(req[p].at)]
    /\ secret' = secret + 1
    /\ Reply(p)
    /\ UNCHANGED <<environment, grant, pw, seq, userLock, started, history>>

\* A retryable error rolls the aggregate back and allocates a new number;
\* the number of the failed attempt is not used again.
RetryCreate(p) ==
    /\ At(p, "create", "insert")
    /\ req' = [req EXCEPT ![p] = IF req[p].tries + 1 < MaxAttempts
                                 THEN [req[p] EXCEPT !.pc = "allocate",
                                                     !.tries = req[p].tries + 1]
                                 ELSE Idle]
    /\ UNCHANGED <<environment, tables, secret, userLock, started, history>>

\* The user or the target is gone: the transaction rolls back.
CreateRefused(p) ==
    /\ At(p, "create", "insert")
    /\ user # "active" \/ (req[p].acct \in UserAccounts /\ ~target)
    /\ Reply(p)
    /\ UNCHANGED <<environment, tables, secret, userLock, started, history>>

(***************************************************************************)
(* Temporary access: extend and disable.                                   *)
(***************************************************************************)
\* TemporaryAccessService.Extend.
Extend(p, a, exp) ==
    /\ validateTemporaryAccessExpiry(exp, now)
    /\ Begin(p, [Idle EXCEPT !.op = "extend", !.pc = "read", !.acct = a,
                             !.exp = exp, !.at = now])

extendTemporaryAccount(p, a, exp) ==
    /\ acct[a] # NoAccount
    /\ Extend(p, a, exp)
    /\ UNCHANGED <<environment, tables, secret, userLock, history>>

ReadAccount(p) ==
    /\ At(p, "extend", "read")
    /\ IF AccountLive(req[p].acct, req[p].at) THEN Goto(p, "write") ELSE Reply(p)
    /\ UNCHANGED <<environment, tables, secret, userLock, started, history>>

\* The dependent rows an extension needs, one of each.
Extendable(a) == /\ grant[a].status = "active"
                 /\ sess[acct[a].sid].status = "active"
                 /\ pw[a].status = "active"

ExtendDependents(a, exp) ==
    /\ grant' = [grant EXCEPT ![a].exp = exp]
    /\ sess' = [sess EXCEPT ![acct[a].sid].exp = exp]
    /\ pw' = [pw EXCEPT ![a].exp = exp]

\* The conditional updates of the transaction; one that touches no row rolls
\* all of them back.  Of an "ai" account only the account's row is written.
ExtendTemporaryAccess(p) ==
    LET a == req[p].acct  exp == req[p].exp IN
    /\ At(p, "extend", "write")
    /\ IF AccountLive(a, req[p].at) /\ (a \in UserAccounts => Extendable(a))
       THEN /\ acct' = [acct EXCEPT ![a].exp = exp]
            /\ IF a \in UserAccounts THEN ExtendDependents(a, exp)
               ELSE UNCHANGED <<grant, sess, pw>>
            /\ moved' = moved \cup ({a} \cap AIAccounts)
       ELSE UNCHANGED <<acct, grant, sess, pw, moved>>
    /\ Reply(p)
    /\ UNCHANGED <<environment, tok, seq, secret, userLock, started,
                   exchanged, overtaken, ended, issued>>

MutantDisableDependents(a) ==
    IF a \in UserAccounts
    THEN /\ grant' = [grant EXCEPT ![a].status = "revoked"]
         /\ pw' = [pw EXCEPT ![a].status = "revoked"]
         /\ sess' = [sess EXCEPT ![acct[a].sid].status = "disabled"]
         /\ tok' = tok
    ELSE /\ tok' = [tok EXCEPT ![a].status = "revoked"]
         /\ UNCHANGED <<grant, pw, sess>>

DisableDependents(a) ==
    /\ sess' = [sess EXCEPT ![acct[a].sid].status = "disabled"]
    /\ IF a \in UserAccounts
       THEN /\ grant' = [grant EXCEPT ![a].status = "revoked"]
            /\ pw' = [pw EXCEPT ![a].status = "revoked"]
            /\ tok' = tok
       ELSE /\ tok' = [tok EXCEPT ![a].status = "revoked"]
            /\ UNCHANGED <<grant, pw>>

\* A second disable of a "user" account finds no password left to revoke and
\* rolls back; one of an "ai" account writes the same values again.
DisableTemporaryAccess(a) ==
    /\ a \in UserAccounts => pw[a].status = "active"
    /\ acct' = [acct EXCEPT ![a].status = "disabled"]
    /\ DisableDependents(a)

disableTemporaryAccount(a) ==
    /\ started < MaxStarted /\ started' = started + 1
    /\ acct[a] # NoAccount
    /\ DisableTemporaryAccess(a)
    /\ ended' = IF a \in AIAccounts /\ acct[a].status = "active"
                THEN [ended EXCEPT ![a] = now] ELSE ended
    /\ UNCHANGED <<environment, seq, secret, userLock, req,
                   exchanged, overtaken, moved, issued>>

(***************************************************************************)
(* AI tokens: refresh (between an audit intent and its result), reissue    *)
(* by the user, revoke, and a call authenticated by an access token.       *)
(***************************************************************************)
\* AIAccessTokenService.Refresh: the client presents a pair it was given.
Refresh(p, a, s) == Begin(p, [Idle EXCEPT !.op = "rotate", !.pc = "read", !.acct = a,
                                          !.pair = s, !.at = now, !.key = "audited"])

\* AIAccessTokenService.Reissue: the current refresh hash, read from the row.
Reissue(p, a) == Begin(p, [Idle EXCEPT !.op = "rotate", !.pc = "read", !.acct = a,
                                       !.pair = tok[a].pair, !.at = now])

\* Without the audit intent nothing is rotated.
handleAIRefresh(p, a) ==
    /\ tok[a] # NoToken
    /\ \E s \in 1 .. secret : Refresh(p, a, s)
    /\ UNCHANGED <<environment, tables, secret, userLock, history>>

handleAIReissue(p, a) ==
    /\ tok[a] # NoToken
    /\ Reissue(p, a)
    /\ UNCHANGED <<environment, tables, secret, userLock, history>>

\* RotateAIAccessToken, its read: the row with this refresh hash.
ReadToken(p) ==
    LET a == req[p].acct IN
    /\ At(p, "rotate", "read")
    /\ IF /\ tok[a].pair = req[p].pair
          /\ TokenUsable(a, req[p].at) /\ Later(tok[a].rexp, req[p].at)
          /\ secret < MaxSecret
       THEN Goto(p, "write") ELSE Reply(p)
    /\ UNCHANGED <<environment, tables, secret, userLock, started, history>>

\* The conditional update: same row, same refresh hash, not revoked.
Rotates(p) == /\ tok[req[p].acct].pair = req[p].pair
              /\ tok[req[p].acct].status = "active"

RotateAIAccessToken(p) ==
    LET a == req[p].acct IN
    /\ At(p, "rotate", "write")
    /\ secret < MaxSecret
    /\ IF Rotates(p)
       THEN /\ tok' = [tok EXCEPT ![a] = [IssuedPair(req[p].at) EXCEPT !.status = tok[a].status]]
            /\ secret' = secret + 1
            /\ req' = [req EXCEPT ![p].pc = "result", ![p].next = secret + 1]
       ELSE Reply(p) /\ UNCHANGED <<tok, secret>>
    /\ UNCHANGED <<environment, acct, sess, grant, pw, seq, userLock, started, history>>

\* The result audit decides whether a refreshed pair is handed out; a
\* reissued one always is.
recordAIRefreshResult(p, written) ==
    /\ At(p, "rotate", "result")
    /\ written \/ req[p].key = "audited"
    /\ exchanged' = IF written THEN exchanged \cup {<<req[p].pair, req[p].next>>}
                    ELSE exchanged
    /\ Reply(p)
    /\ UNCHANGED <<environment, tables, secret, userLock, started,
                   overtaken, moved, ended, issued>>

RevokeAIAccessToken(a) ==
    /\ started < MaxStarted /\ started' = started + 1
    /\ tok[a].status = "active"
    /\ tok' = [tok EXCEPT ![a].status = "revoked"]
    /\ UNCHANGED <<environment, acct, sess, grant, pw, seq, secret, userLock, req, history>>

\* AIAccessTokenService.Authenticate, AuthenticateAIAccessToken in the store.
AuthenticateAIAccessToken(a) == TokenUsable(a, now) /\ Later(tok[a].aexp, now)

\* authorizedResource: the decision, then the availability of the resource.
authorizedResource == Authorized /\ resolveTarget

issueAIResourceSession(p, a) ==
    /\ AuthenticateAIAccessToken(a)
    /\ Begin(p, [Idle EXCEPT !.op = "session", !.pc = "lookup", !.acct = a, !.at = now])
    /\ UNCHANGED <<environment, tables, secret, userLock, history>>

issueAIResourceCredential(p, a) ==
    /\ AuthenticateAIAccessToken(a)
    /\ authorizedResource
    /\ Begin(p, [Idle EXCEPT !.op = "password", !.pc = "authorize", !.acct = a, !.at = now])
    /\ UNCHANGED <<environment, tables, secret, userLock, history>>

\* The AI endpoints, behind withAIToken.
handleAIResources(p, a) == issueAIResourceSession(p, a) \/ issueAIResourceCredential(p, a)

\* GetOrCreateAIResourceSession: the session of an active account with an
\* unrevoked token, else the permanent session.
FindAITokenSessionID ==
    {acct[a].sid : a \in {b \in AIAccounts : tok[b].status = "active" /\ acct[b].status = "active"}}

GetOrCreateAIResourceSession(p) ==
    /\ At(p, "session", "lookup")
    /\ authorizedResource
    /\ IF \E s \in FindAITokenSessionID : sess[s].status = "active"
       THEN Reply(p) ELSE Goto(p, "lock")
    /\ UNCHANGED <<environment, tables, secret, userLock, started, history>>

(***************************************************************************)
(* Permanent user sessions and connection passwords.                       *)
(***************************************************************************)
handleUserSessions(p) ==
    /\ resolveTarget /\ Authorized
    /\ Begin(p, [Idle EXCEPT !.op = "session", !.pc = "lock"])
    /\ UNCHANGED <<environment, tables, secret, userLock, history>>

MutantLockUser(p) ==
    /\ At(p, "session", "lock")
    /\ user = "active"
    /\ userLock' = userLock
    /\ req' = [req EXCEPT ![p].pc = "insert", ![p].tries = Cardinality(ActivePermanent)]
    /\ UNCHANGED <<environment, tables, secret, started, history>>

\* The transaction locks the user's row (the process-wide mutex on SQLite),
\* then looks for an active permanent session.
LockUser(p) ==
    /\ At(p, "session", "lock")
    /\ userLock = NoOne /\ user = "active"
    /\ userLock' = p
    /\ req' = [req EXCEPT ![p].pc = "insert", ![p].tries = Cardinality(ActivePermanent)]
    /\ UNCHANGED <<environment, tables, secret, started, history>>

GetOrCreateActivePermanentUserSession(p) ==
    /\ At(p, "session", "insert")
    /\ IF req[p].tries = 0 /\ NextSequenceValue <= MaxSeq
       THEN /\ sess' = [sess EXCEPT ![NextSequenceValue] =
                          [type |-> "permanent", status |-> "active", exp |-> MaxTime + 1]]
            /\ seq' = NextSequenceValue + 1
       ELSE UNCHANGED <<sess, seq>>
    /\ userLock' = IF userLock = p THEN NoOne ELSE userLock
    /\ Reply(p)
    /\ UNCHANGED <<environment, acct, grant, pw, tok, secret, started, history>>

\* The user or the target is gone, or the decision is no: an error reply.
SessionRefused(p) ==
    /\ \/ At(p, "session", "lookup") /\ ~(Authorized /\ resolveTarget)
       \/ At(p, "session", "lock") /\ user # "active"
       \/ At(p, "password", "authorize") /\ ~(Authorized /\ resolveTarget)
    /\ Reply(p)
    /\ UNCHANGED <<environment, tables, secret, userLock, started, history>>

handleConnectionPasswords(p) ==
    /\ resolveTarget
    /\ Begin(p, [Idle EXCEPT !.op = "password", !.pc = "authorize", !.at = now])
    /\ UNCHANGED <<environment, tables, secret, userLock, history>>

AuthorizeIssue(p) ==
    /\ At(p, "password", "authorize")
    /\ Authorized /\ resolveTarget
    /\ Goto(p, "insert")
    /\ UNCHANGED <<environment, tables, secret, userLock, started, history>>

\* The row names the user and the target, and no temporary account, whoever
\* asked for it.
CreateConnectionPassword(p, k) ==
    /\ At(p, "password", "insert")
    /\ pw[k] = NoGrant
    /\ pw' = [pw EXCEPT ![k] = [status |-> "active", exp |-> req[p].at + PasswordTTL]]
    /\ issued' = issued \cup ({k} \X ({req[p].acct} \cap AIAccounts))
    /\ Reply(p)
    /\ UNCHANGED <<environment, acct, sess, grant, tok, seq, secret, userLock, started,
                   exchanged, overtaken, moved, ended>>

(***************************************************************************)
(* A login with a compact name: the session, the user, then the password.  *)
(* A session found expired is marked in a statement of its own.            *)
(***************************************************************************)
Authenticate(p, s, k) ==
    /\ sess[s].status = "active"
    /\ Begin(p, [Idle EXCEPT !.op = "login", !.sid = s, !.key = k,
                             !.pc = IF now > sess[s].exp THEN "mark" ELSE "user",
                             !.exp = sess[s].exp])
    /\ UNCHANGED <<environment, tables, secret, userLock, history>>

MarkSessionExpired(p) ==
    LET s == req[p].sid IN
    /\ At(p, "login", "mark")
    /\ sess' = [sess EXCEPT ![s].status = "expired"]
    /\ overtaken' = IF sess[s].exp # req[p].exp THEN overtaken \cup {s} ELSE overtaken
    /\ Reply(p)
    /\ UNCHANGED <<environment, acct, grant, pw, tok, seq, secret, userLock, started,
                   exchanged, moved, ended, issued>>

authenticateCompact(p) ==
    /\ At(p, "login", "user")
    /\ IF user = "active" /\ target THEN Goto(p, "password") ELSE Reply(p)
    /\ UNCHANGED <<environment, tables, secret, userLock, started, history>>

AuthenticateConnectionPassword(p) ==
    /\ At(p, "login", "password")
    /\ IF req[p].key \in activeConnectionPasswords /\ user = "active" /\ Authorized
       THEN req' = [req EXCEPT ![p].pc = "in"] ELSE Reply(p)
    /\ UNCHANGED <<environment, tables, secret, userLock, started, history>>

\* The gateway session ends.
Logout(p) ==
    /\ At(p, "login", "in")
    /\ Reply(p)
    /\ UNCHANGED <<environment, tables, secret, userLock, started, history>>

(***************************************************************************)
(* The environment: time, the user's row, the target, the permissions.     *)
(***************************************************************************)
Tick == /\ now < MaxTime /\ now' = now + 1
        /\ UNCHANGED <<user, target, allowed, tables, secret, userLock, req, started, history>>

ChangeUser == /\ started < MaxStarted /\ started' = started + 1
              /\ userLock = NoOne
              /\ user' = IF user = "active" THEN "disabled" ELSE "active"
              /\ UNCHANGED <<now, target, allowed, tables, secret, userLock, req, history>>

ChangeTarget == /\ started < MaxStarted /\ started' = started + 1
                /\ \/ target' = ~target /\ allowed' = allowed
                   \/ allowed' = ~allowed /\ target' = target
                /\ UNCHANGED <<now, user, tables, secret, userLock, req, history>>

TemporaryAccessStep(p) ==
    \/ \E a \in TemporaryAccounts, exp \in Expiries :
         \/ createTemporaryAuthorization(p, a, exp)
         \/ handleAITokens(p, a, exp)
         \/ extendTemporaryAccount(p, a, exp)
    \/ allocateTemporarySessionIdentity(p)
    \/ CreateTemporaryAccess(p)
    \/ CreateTemporaryAIAccess(p)
    \/ RetryCreate(p)
    \/ CreateRefused(p)
    \/ ReadAccount(p)
    \/ ExtendTemporaryAccess(p)

TokenStep(p) ==
    \/ \E a \in AIAccounts : handleAIRefresh(p, a) \/ handleAIReissue(p, a)
    \/ ReadToken(p)
    \/ RotateAIAccessToken(p)
    \/ \E written \in BOOLEAN : recordAIRefreshResult(p, written)
    \/ \E a \in AIAccounts : handleAIResources(p, a)
    \/ GetOrCreateAIResourceSession(p)

SessionStep(p) ==
    \/ handleUserSessions(p)
    \/ LockUser(p)
    \/ GetOrCreateActivePermanentUserSession(p)
    \/ SessionRefused(p)
    \/ handleConnectionPasswords(p)
    \/ AuthorizeIssue(p)
    \/ \E k \in Passwords : CreateConnectionPassword(p, k)
    \/ \E s \in 1 .. MaxSeq, k \in DOMAIN pw : Authenticate(p, s, k)
    \/ MarkSessionExpired(p)
    \/ authenticateCompact(p)
    \/ AuthenticateConnectionPassword(p)
    \/ Logout(p)

(* Rows, requests and history are of their types; times go up to the latest  *)
(* expiry that can be asked for or computed from the clock.                 *)
TypeOK ==
    LET Time == 0 .. MaxTime + RefreshTTL
        Status == {"none", "active", "disabled", "expired", "revoked"}
    IN  /\ now \in 0 .. MaxTime /\ user \in {"active", "disabled"}
        /\ target \in BOOLEAN /\ allowed \in BOOLEAN
        /\ acct \in [TemporaryAccounts -> [status : Status, exp : Time, sid : 0 .. MaxSeq]]
        /\ sess \in [1 .. MaxSeq -> [type : {"none", "permanent", "temporary"},
                                     status : Status, exp : Time]]
        /\ grant \in [UserAccounts -> [status : Status, exp : Time]]
        /\ pw \in [UserAccounts \cup Passwords -> [status : Status, exp : Time]]
        /\ tok \in [AIAccounts -> [status : Status, pair : 0 .. MaxSecret, aexp : Time, rexp : Time]]
        /\ seq \in 1 .. MaxSeq + 1 /\ secret \in 0 .. MaxSecret
        /\ userLock \in Procs \cup {NoOne}
        /\ \A p \in Procs : DOMAIN req[p] = DOMAIN Idle
        /\ started \in 0 .. MaxStarted
        /\ exchanged \subseteq (1 .. MaxSecret) \X (1 .. MaxSecret)
        /\ overtaken \subseteq 1 .. MaxSeq /\ moved \subseteq AIAccounts
        /\ ended \in [AIAccounts -> 0 .. MaxTime]
        /\ issued \subseteq Passwords \X AIAccounts

Next ==
    \/ \E p \in Procs : TemporaryAccessStep(p) \/ TokenStep(p) \/ SessionStep(p)
    \/ \E a \in TemporaryAccounts : disableTemporaryAccount(a)
    \/ \E a \in AIAccounts : RevokeAIAccessToken(a)
    \/ Tick \/ ChangeUser \/ ChangeTarget

Spec == Init /\ [][Next]_vars

-----------------------------------------------------------------------------
(***************************************************************************)
(* Properties.                                                             *)
(***************************************************************************)
\* Disabling a temporary account (dbstore_temporary_access.go, Disable) kills
\* the rows written with it: whatever requests were in flight, its session,
\* its password and grant, or its token, are not live, then or later.
DisabledAccessIsDead ==
    \A a \in TemporaryAccounts : acct[a].status = "disabled" =>
        /\ sess[acct[a].sid].status # "active"
        /\ a \in UserAccounts => grant[a].status # "active" /\ pw[a].status # "active"
        /\ a \in AIAccounts => tok[a].status # "active"

\* What disabling does not reach: a connection password issued with an AI
\* token has no temporary account on its row (connection_password.go), and
\* outlives the account, but never by more than its own time to live, even
\* when the request that issues it was overtaken by the disabling.
IssuedPasswordsRunOut ==
    \A x \in issued : acct[x[2]].status = "disabled" =>
        pw[x[1]].exp <= ended[x[2]] + PasswordTTL

\* The four rows of a user's temporary access expire together; an AI
\* account's session expires with the account until the account is extended,
\* which leaves its session alone.  While the account is active its session
\* is there to log in with until the session's expiry, unless a login found
\* the session expired before an extension reached it and marked it after.
AggregateInStep ==
    \A a \in TemporaryAccounts : acct[a].status = "active" =>
        LET exp == acct[a].exp  session == sess[acct[a].sid] IN
        /\ a \in UserAccounts => /\ grant[a] = [status |-> "active", exp |-> exp]
                                 /\ pw[a] = [status |-> "active", exp |-> exp]
        /\ a \notin moved => session.exp = exp
        /\ \/ session.status = "active"
           \/ ~Later(session.exp, now)
           \/ acct[a].sid \in overtaken

\* Not so: an AI account that is extended has a session to log in with for
\* as long as the account is live.
AIAccessInStep ==
    \A a \in AIAccounts : AccountLive(a, now) => Later(sess[acct[a].sid].exp, now)

\* Not so: nothing obtained through a disabled account opens a connection.
NothingOutlivesDisabling ==
    \A x \in issued : acct[x[2]].status = "disabled" => x[1] \notin activeConnectionPasswords

\* A refresh token is exchanged once: however many refreshes and reissues of
\* the same pair race, at most one of them hands out a successor.
RefreshTokenUsedOnce ==
    \A x, y \in exchanged : x[1] = y[1] => x = y

\* A user has at most one active permanent session, however many requests
\* (from the console and from AI clients) create it at the same time.
OneActivePermanentSession == Cardinality(ActivePermanent) <= 1

(* The rows of a temporary access are disabled together and, for a user's    *)
(* account, extended together; what was issued with an AI account's token    *)
(* runs out within its time to live once the account is disabled.            *)
AccessEndsTogether == DisabledAccessIsDead /\ IssuedPasswordsRunOut /\ AggregateInStep

(* No two requests win the same race: a refresh token buys one pair, and a   *)
(* user has one active permanent session.                                    *)
OneLiveSecret == RefreshTokenUsedOnce /\ OneActivePermanentSession
=============================================================================
